------------------------------- MODULE Wallet -------------------------------
(***************************************************************************)
(* The wallet of the platform (services/platform/app/services/             *)
(* wallet_service.py): check_and_deduct, refund and topup, each one SQL    *)
(* transaction at READ COMMITTED that reads wallet_balance under a row     *)
(* lock, computes the new balance in Python, updates the row, inserts a    *)
(* WalletTransaction and commits.  A session that raises or whose process  *)
(* dies before the commit is rolled back by the database.                  *)
(*                                                                         *)
(* clock orders the starts of transactions: WalletTransaction.created_at   *)
(* is now(), which PostgreSQL fixes when the transaction starts.           *)
(***************************************************************************)
EXTENDS Accounts, Integers, Sequences

CONSTANTS
  Sessions,
  NoSession,   \* the value of a row lock nobody holds
  MaxClock     \* bound: the number of transactions a behaviour starts

VARIABLES lock, clock, pc, seen

walletVars == <<balance, ledger, req, lock, clock, pc, seen>>

\* The answers a session can have given, and the states inside a transaction.
Answered == {"idle", "done", "refused", "error"}
InTransaction == {"started", "locked", "updated"}
HoldsLock == {"locked", "updated"}

\* The contract this module implements; its operators on calls are shared.
Atomic ==
  INSTANCE WalletLedger WITH
    Times <- 0..MaxClock,
    status <- [s \in Sessions |-> IF pc[s] \in InTransaction THEN "pending"
                                                             ELSE pc[s]]

ASSUME WalletAssumption ==
  /\ Atomic!ConstantsOK
  /\ NoSession \notin Sessions
  /\ MaxClock \in Nat

NewBalance(s) == Atomic!NewBalance(req[s], seen[s])

Transaction(s) == Atomic!Transaction(req[s], seen[s])

WalletInit ==
  /\ balance = [u \in Users |-> InitialBalance]
  /\ ledger = [u \in Users |-> <<>>]
  /\ req = [s \in Sessions |-> Atomic!NoCall]
  /\ lock = [u \in Users |-> NoSession]
  /\ clock = 0
  /\ pc = [s \in Sessions |-> "idle"]
  /\ seen = [s \in Sessions |-> 0]

-----------------------------------------------------------------------------
(* One wallet call.  Operators named AnyRow, KeepLock, NeverInsufficient   *)
(* and InsufficientOrEqual are seeded faults: each stands in for the       *)
(* definition below it when a property is tested for bite.                 *)

Start(s, r) ==
  /\ pc[s] \in Answered
  /\ clock < MaxClock
  /\ r.at = clock
  /\ req' = [req EXCEPT ![s] = r]
  /\ clock' = clock + 1
  /\ pc' = [pc EXCEPT ![s] = "started"]
  /\ UNCHANGED <<balance, ledger, lock, seen>>

\* execute_capability charges a call with the cost_per_call it read; the
\* statement that starts the transaction is the one that asks for the lock.
StartCharge(s) ==
  \E u \in Users, c \in Costs :
    Start(s, [op |-> "deduct", user |-> u, amount |-> c, at |-> clock])

\* It refunds only what it has charged: same user, same cost.
StartRefund(s) ==
  /\ pc[s] = "done"
  /\ req[s].op = "deduct"
  /\ Start(s, [req[s] EXCEPT !.op = "refund", !.at = clock])

\* POST /api/wallet/topup: the transaction starts with the read of the user,
\* and an amount that is not positive is answered before topup is called.
StartTopUp(s) ==
  \E u \in Users, a \in TopUps :
    /\ a > 0
    /\ Start(s, [op |-> "topup", user |-> u, amount |-> a, at |-> clock])

\* FOR UPDATE conflicts with every other holder of the row.
AnyRow(u) == TRUE
RowFree(u) == lock[u] = NoSession

\* SELECT wallet_balance ... FOR UPDATE: waits for the row lock and returns
\* the latest committed value.
LockRow(s) ==
  LET u == req[s].user
  IN  /\ pc[s] = "started"
      /\ RowFree(u)
      /\ lock' = [lock EXCEPT ![u] = s]
      /\ seen' = [seen EXCEPT ![s] = balance[u]]
      /\ pc' = [pc EXCEPT ![s] = "locked"]
      /\ UNCHANGED <<balance, ledger, req, clock>>

\* The end of a transaction releases its lock and answers its caller.
KeepLock(s, answer) == UNCHANGED lock /\ pc' = [pc EXCEPT ![s] = answer]
Unlock(s, answer) ==
  /\ lock' = [lock EXCEPT ![req[s].user] = NoSession]
  /\ pc' = [pc EXCEPT ![s] = answer]

NeverInsufficient(s) == FALSE
InsufficientOrEqual(s) == req[s].op = "deduct" /\ seen[s] <= req[s].amount
Insufficient(s) == req[s].op = "deduct" /\ seen[s] < req[s].amount

Fits(s) == NewBalance(s) \in Atomic!Integer32

\* raise InsufficientFundsError: the session closes and the lock goes with it.
Refuse(s) ==
  /\ pc[s] = "locked"
  /\ Insufficient(s)
  /\ Unlock(s, "refused")
  /\ UNCHANGED <<balance, ledger, req, clock, seen>>

\* UPDATE users SET wallet_balance = new_balance, when it fits the column.
Update(s) ==
  /\ pc[s] = "locked"
  /\ ~Insufficient(s)
  /\ Fits(s)
  /\ pc' = [pc EXCEPT ![s] = "updated"]
  /\ UNCHANGED <<balance, ledger, req, lock, clock, seen>>

\* Out of the range of the column: the driver raises, the session rolls back.
Overflow(s) ==
  /\ pc[s] = "locked"
  /\ ~Insufficient(s)
  /\ ~Fits(s)
  /\ Unlock(s, "error")
  /\ UNCHANGED <<balance, ledger, req, clock, seen>>

\* session.add(txn); session.commit().  The commit may reach the database and
\* its acknowledgement be lost: the caller then sees an exception.
Commit(s, answer) ==
  LET u == req[s].user
  IN  /\ pc[s] = "updated"
      /\ balance' = [balance EXCEPT ![u] = NewBalance(s)]
      /\ ledger' = [ledger EXCEPT ![u] = Append(@, Transaction(s))]
      /\ Unlock(s, answer)
      /\ UNCHANGED <<req, clock, seen>>

\* The connection or the process dies while the session waits for the lock or
\* holds it: the database rolls the transaction back.
AbortWaiting(s) ==
  /\ pc[s] = "started"
  /\ pc' = [pc EXCEPT ![s] = "error"]
  /\ UNCHANGED <<balance, ledger, req, lock, clock, seen>>

AbortHolding(s) ==
  /\ pc[s] \in HoldsLock
  /\ Unlock(s, "error")
  /\ UNCHANGED <<balance, ledger, req, clock, seen>>

Proceed(s) ==
  \/ Refuse(s)
  \/ Update(s)
  \/ Overflow(s)
  \/ \E answer \in {"done", "error"} : Commit(s, answer)
  \/ AbortHolding(s)

WalletNext ==
  \E s \in Sessions :
    \/ StartCharge(s)
    \/ StartRefund(s)
    \/ StartTopUp(s)
    \/ LockRow(s)
    \/ AbortWaiting(s)
    \/ Proceed(s)

WalletSpec == WalletInit /\ [][WalletNext]_walletVars

(***************************************************************************)
(* PostgreSQL queues the waiters of a row lock, so a session that keeps    *)
(* asking is served (strong fairness of LockRow); the event loop runs a    *)
(* session that holds the lock to its end.                                 *)
(***************************************************************************)
FairWalletSpec ==
  WalletSpec /\ \A s \in Sessions : SF_walletVars(LockRow(s)) /\ WF_walletVars(Proceed(s))

-----------------------------------------------------------------------------
(* Properties.                                                             *)

\* Every variable holds a value of its kind.
WalletTypeOK ==
  /\ balance \in [Users -> Atomic!Integer32]
  /\ ledger \in [Users -> Seq([type: {"debit", "credit"}, amount: Int,
                               balance_after: Atomic!Integer32,
                               created_at: Nat])]
  /\ req \in [Sessions -> Atomic!Requests \cup {Atomic!NoCall}]
  /\ lock \in [Users -> Sessions \cup {NoSession}]
  /\ clock \in 0..MaxClock
  /\ pc \in [Sessions -> Answered \cup InTransaction]
  /\ seen \in [Sessions -> Atomic!Integer32]
  /\ \A s \in Sessions : pc[s] # "idle" => req[s] \in Atomic!Requests

\* A wallet never holds a negative balance, whatever calls race on it
\* (check_and_deduct compares and writes under one row lock).
BalanceNonNegative == \A u \in Users : balance[u] >= 0

BalanceBefore(rows, i) ==
  IF i = 1 THEN InitialBalance ELSE rows[i - 1].balance_after

Signed(t) == IF t.type = "debit" THEN -t.amount ELSE t.amount

\* Rows that start from the initial balance and lead to b.
Explains(rows, b) ==
  /\ \A i \in 1..Len(rows) :
       rows[i].balance_after = BalanceBefore(rows, i) + Signed(rows[i])
  /\ b = BalanceBefore(rows, Len(rows) + 1)

\* The ledger explains the balance: each WalletTransaction starts from the
\* balance its predecessor left, and the last one left the balance of the
\* user row.  A lost update, or a row updated without its transaction,
\* breaks the chain.
LedgerReconciles == \A u \in Users : Explains(ledger[u], balance[u])

\* The three calls are atomic: this module implements WalletLedger, so a
\* refusal is given only while the balance is too low and an error leaves
\* either all of a call's effect or none of it.
ImplementsLedger == Atomic!Spec

\* No call waits for ever: a wallet call that started is answered.
EveryCallAnswered ==
  \A s \in Sessions : pc[s] \in InTransaction ~> pc[s] \in Answered

\* The inductive strengthening: a session past the lock owns it, what it read
\* is still the committed balance, and the checks it passed still hold.
LockProtectsRead ==
  \A s \in Sessions :
    /\ pc[s] \in HoldsLock => /\ lock[req[s].user] = s
                              /\ seen[s] = balance[req[s].user]
    /\ pc[s] = "updated" => /\ ~Insufficient(s)
                            /\ Fits(s)
    /\ pc[s] \in InTransaction /\ req[s].op = "topup" => req[s].amount > 0
=============================================================================
