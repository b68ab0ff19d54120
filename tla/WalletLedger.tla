---------------------------- MODULE WalletLedger ----------------------------
(***************************************************************************)
(* What the wallet promises: every call takes effect in one atomic step on *)
(* the balance and on the ledger of wallet transactions together, a debit  *)
(* is refused exactly when the balance does not cover it, and a call that  *)
(* fails without being applied leaves no trace.                            *)
(*                                                                         *)
(* Module Wallet implements this with row-locking SQL transactions.        *)
(***************************************************************************)
EXTENDS Accounts, Integers, Sequences

CONSTANTS
  Sessions,  \* concurrent database sessions
  Times      \* creation times of wallet transactions

ConstantsOK ==
  /\ Costs \subseteq Int
  /\ TopUps \subseteq Int
  /\ Times \subseteq Nat
  /\ MinInt \in Int /\ MaxInt \in Int
  /\ MinInt <= 0 /\ 0 <= MaxInt
  /\ InitialBalance \in 0..MaxInt

Integer32 == MinInt..MaxInt

Requests ==
  [op: {"deduct", "refund"}, user: Users, amount: Costs, at: Times]
    \cup [op: {"topup"}, user: Users, amount: TopUps, at: Times]

\* The place of a call in a session that has made none.
NoCall == [op |-> "none"]

NewBalance(r, b) == IF r.op = "deduct" THEN b - r.amount ELSE b + r.amount

Transaction(r, b) ==
  [type |-> IF r.op = "deduct" THEN "debit" ELSE "credit",
   amount |-> r.amount, balance_after |-> NewBalance(r, b), created_at |-> r.at]

VARIABLE status  \* what each session knows about its latest call

vars == <<balance, ledger, req, status>>

Init ==
  /\ balance = [u \in Users |-> InitialBalance]
  /\ ledger = [u \in Users |-> <<>>]
  /\ req = [s \in Sessions |-> NoCall]
  /\ status = [s \in Sessions |-> "idle"]

Request(s, r) ==
  /\ status[s] # "pending"
  /\ req' = [req EXCEPT ![s] = r]
  /\ status' = [status EXCEPT ![s] = "pending"]
  /\ UNCHANGED <<balance, ledger>>

\* The answer "error" stands for a commit whose acknowledgement was lost.
Apply(s, answer) ==
  LET r == req[s]
      b == balance[r.user]
  IN  /\ status[s] = "pending"
      /\ r.op = "deduct" => b >= r.amount
      /\ NewBalance(r, b) \in Integer32
      /\ balance' = [balance EXCEPT ![r.user] = NewBalance(r, b)]
      /\ ledger' = [ledger EXCEPT ![r.user] = Append(@, Transaction(r, b))]
      /\ status' = [status EXCEPT ![s] = answer]
      /\ UNCHANGED req

Refuse(s) ==
  /\ status[s] = "pending"
  /\ req[s].op = "deduct"
  /\ balance[req[s].user] < req[s].amount
  /\ status' = [status EXCEPT ![s] = "refused"]
  /\ UNCHANGED <<balance, ledger, req>>

Fail(s) ==
  /\ status[s] = "pending"
  /\ status' = [status EXCEPT ![s] = "error"]
  /\ UNCHANGED <<balance, ledger, req>>

Next ==
  \E s \in Sessions :
    \/ \E r \in Requests : Request(s, r)
    \/ \E answer \in {"done", "error"} : Apply(s, answer)
    \/ Refuse(s)
    \/ Fail(s)

Spec == Init /\ [][Next]_vars
=============================================================================
