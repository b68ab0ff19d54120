-------------------------- MODULE ExecutionProofs --------------------------
(***************************************************************************)
(* What a call of execute_capability pays, for every number of concurrent  *)
(* calls, every catalog and every sequence of faults and republications,   *)
(* and, below, what the wallet sessions those payments run in guarantee.   *)
(***************************************************************************)
EXTENDS Execution, Wallet, SequenceTheorems, FiniteSetTheorems, TLAPS

\* Costs and amounts are integers.
LEMMA Amounts ==
  /\ Costs \subseteq Int /\ TopUps \subseteq Int
  /\ \A r \in Ledger!Requests : /\ r.amount \in Int /\ r.user \in Users
                                /\ r.at = 0
                                /\ r.op \in {"deduct", "refund", "topup"}
BY ExecutionAssumption DEF Ledger!ConstantsOK, Ledger!Requests

Entry == [type: {"debit", "credit"}, amount: Int,
          balance_after: Ledger!Integer32, created_at: Nat]

WalletType ==
  /\ balance \in [Users -> Ledger!Integer32]
  /\ ledger \in [Users -> Seq(Entry)]
  /\ req \in [Calls -> Ledger!Requests \cup {Ledger!NoCall}]
  /\ status \in [Calls -> {"idle", "pending", "done", "refused", "error"}]

\* A request, refusal or failure keeps the types of the wallet, and touches
\* only the request of its own call.
LEMMA WalletRequestType ==
  ASSUME WalletType, NEW c \in Calls, NEW r \in Ledger!Requests, Ledger!Request(c, r)
  PROVE  WalletType' /\ req' = [req EXCEPT ![c] = r]
BY DEF WalletType, Ledger!Request

LEMMA WalletFailType ==
  ASSUME WalletType, NEW c \in Calls, Ledger!Fail(c) \/ Ledger!Refuse(c)
  PROVE  WalletType' /\ req' = req
BY DEF WalletType, Ledger!Fail, Ledger!Refuse

LEMMA WalletApplyType ==
  ASSUME WalletType, NEW c \in Calls, NEW a \in {"done", "error"}, Ledger!Apply(c, a),
         req[c] \in Ledger!Requests
  PROVE  WalletType' /\ req' = req
<1> DEFINE u == req[c].user
           t == Ledger!Transaction(req[c], balance[u])
<1>1. u \in Users /\ req[c].amount \in Int /\ req[c].at \in Nat
  BY Amounts
<1>2. Ledger!NewBalance(req[c], balance[u]) \in Ledger!Integer32
  BY DEF Ledger!Apply
<1>3. t \in Entry
  BY <1>1, <1>2 DEF Ledger!Transaction, Entry
<1>4. Append(ledger[u], t) \in Seq(Entry)
  BY <1>1, <1>3, AppendProperties DEF WalletType
<1> HIDE DEF t, Entry
<1>5. ledger' \in [Users -> Seq(Entry)]
  BY <1>1, <1>4 DEF WalletType, Ledger!Apply, t
<1>6. balance' \in [Users -> Ledger!Integer32]
  BY <1>1, <1>2 DEF WalletType, Ledger!Apply
<1> QED BY <1>5, <1>6 DEF WalletType, Ledger!Apply

-----------------------------------------------------------------------------

\* What the invariant says of one call.
CallOK(k, r) ==
  /\ k \in CallType
  /\ Sound(k, r)
  /\ k.pc = "ended" => AnswerTells(k)
  /\ k.credit \in {0, k.debit}

CallsOK == call \in [Calls -> CallType] /\ \A c \in Calls : CallOK(call[c], req[c])

RestType ==
  /\ catalog \in [Tools -> [status: ToolStatus, cost: Costs]]
  /\ registry \in SUBSET Tools
  /\ jobs \in [Tools -> Nat]
  /\ faults \in Nat /\ edits \in Nat

IInv == WalletType /\ RestType /\ CallsOK

\* A step of one call, to a record that is in order, keeps all calls in order.
LEMMA OneCall ==
  ASSUME CallsOK, NEW c \in Calls, NEW k, CallOK(k, req'[c]),
         call' = [call EXCEPT ![c] = k],
         \A d \in Calls \ {c} : req'[d] = req[d]
  PROVE  CallsOK'
BY DEF CallsOK, CallOK

\* The request of a refund is a request.
LEMMA RefundRequest ==
  ASSUME NEW c \in Calls, req[c] \in Ledger!Requests, req[c].op = "deduct"
  PROVE  /\ Refund(c) \in Ledger!Requests
         /\ Refund(c).op = "refund" /\ Refund(c).amount = req[c].amount
<1>1. req[c] \in [op: {"deduct", "refund"}, user: Users, amount: Costs, at: {0}]
  BY DEF Ledger!Requests
<1> QED BY <1>1 DEF Refund, Ledger!Requests

\* The moves most steps are made of: to another point of the code, and to an
\* answer that owes nothing more than what the point guarantees.
LEMMA GoToOK ==
  ASSUME CallsOK, NEW c \in Calls, NEW p \in Points, GoTo(c, p),
         CallOK([call[c] EXCEPT !.pc = p], req'[c]),
         \A d \in Calls \ {c} : req'[d] = req[d]
  PROVE  CallsOK'
<1>1. call' = [call EXCEPT ![c] = [call[c] EXCEPT !.pc = p]]
  BY DEF GoTo
<1> QED BY <1>1, OneCall

LEMMA AnswerOK ==
  ASSUME CallsOK, NEW c \in Calls, NEW a \in Answers, Answer(c, a),
         a \in {"ok", "EXECUTION_ERROR"} => FALSE,
         a \in {"TOOL_NOT_FOUND", "INSUFFICIENT_FUNDS", "not_in_catalog"}
           => call[c].debit = 0 /\ call[c].credit = 0 /\ call[c].logs = {},
         \A d \in Calls \ {c} : req'[d] = req[d]
  PROVE  CallsOK'
<1> DEFINE k == [call[c] EXCEPT !.pc = "ended", !.answer = a]
<1>1. call[c] \in CallType /\ CallOK(call[c], req[c])
  BY DEF CallsOK
<1>2. CallOK(k, req'[c])
  BY <1>1 DEF CallOK, CallType, Sound, AnswerTells, Points, Answers
<1>3. call' = [call EXCEPT ![c] = k]
  BY DEF Answer
<1> QED BY <1>2, <1>3, OneCall

\* Entry points.
LEMMA EntrySteps ==
  ASSUME IInv, NEW c \in Calls, Arrive(c) \/ Preflight(c) \/ Authenticate(c)
  PROVE  IInv'
<1> USE DEF At
<1>f. CallsOK /\ call[c] \in CallType /\ CallOK(call[c], req[c])
  BY DEF IInv, CallsOK
<1>w. UNCHANGED <<wallet, catalog, registry, jobs, bounds>>
  BY DEF Arrive, Preflight, Authenticate
<1>r. WalletType' /\ RestType' /\ req' = req
  BY <1>w DEF IInv, WalletType, RestType, wallet, bounds
<1>1. CASE Arrive(c)
  <2>1. PICK t \in Tools, first \in {"preflight", "authenticate"} :
          call' = [call EXCEPT ![c].pc = first, ![c].tool = t]
    BY <1>1 DEF Arrive
  <2> DEFINE k == [call[c] EXCEPT !.pc = first, !.tool = t]
  <2>2. CallOK(k, req'[c])
    BY <1>1, <1>f, <1>r, ExecutionAssumption
    DEF Arrive, CallOK, CallType, Sound, Points
  <2>3. call' = [call EXCEPT ![c] = k]
    BY <2>1
  <2> QED BY <2>2, <2>3, <1>f, <1>r, OneCall DEF IInv
<1>2. CASE Preflight(c)
  <2>1. CallOK([call[c] EXCEPT !.pc = "authenticate"], req'[c])
    BY <1>2, <1>f, <1>r DEF Preflight, CallOK, CallType, Sound, Points
  <2>2. CASE GoTo(c, "authenticate")
    BY <2>1, <2>2, <1>f, <1>r, GoToOK DEF IInv, Points
  <2>3. CASE Answer(c, "not_in_catalog")
    BY <2>3, <1>2, <1>f, <1>r, AnswerOK DEF IInv, Answers, Preflight, CallOK, Sound
  <2> QED BY <2>2, <2>3, <1>2 DEF Preflight
<1>3. CASE Authenticate(c)
  <2>1. CallOK([call[c] EXCEPT !.pc = "lookup"], req'[c])
    BY <1>3, <1>f, <1>r DEF Authenticate, CallOK, CallType, Sound, Points
  <2>2. CASE GoTo(c, "lookup")
    BY <2>1, <2>2, <1>f, <1>r, GoToOK DEF IInv, Points
  <2>3. CASE Answer(c, "exception")
    BY <2>3, <1>f, <1>r, AnswerOK DEF IInv, Answers
  <2> QED BY <2>2, <2>3, <1>3 DEF Authenticate
<1> QED BY <1>1, <1>2, <1>3

\* Lookup, and what follows a miss.
LEMMA LookupSteps ==
  ASSUME IInv, NEW c \in Calls, Lookup(c) \/ QueueJob(c) \/ LostJobAck(c)
  PROVE  IInv'
<1> USE DEF At
<1>f. CallsOK /\ call[c] \in CallType /\ CallOK(call[c], req[c])
  BY DEF IInv, CallsOK
<1>w. WalletType /\ RestType
  BY DEF IInv
<1>t. call[c].tool \in Tools
  BY <1>f DEF Lookup, QueueJob, LostJobAck, CallOK, CallType, Sound
<1>1. ASSUME NEW u \in Users, Lookup(c),
             call' = [call EXCEPT ![c].pc = "charging",
                                  ![c].cost = catalog[call[c].tool].cost],
             Ledger!Request(c, Charge(u, catalog[call[c].tool].cost))
      PROVE  IInv'
  <2> DEFINE cost == catalog[call[c].tool].cost
             k == [call[c] EXCEPT !.pc = "charging", !.cost = cost]
  <2>1. cost \in Costs
    BY <1>t, <1>w DEF RestType
  <2>2. /\ Charge(u, cost) \in Ledger!Requests
        /\ Charge(u, cost).op = "deduct" /\ Charge(u, cost).amount = cost
    BY <2>1 DEF Charge, Ledger!Requests
  <2>3. WalletType' /\ req' = [req EXCEPT ![c] = Charge(u, cost)]
    BY <1>1, <1>w, <2>2, WalletRequestType
  <2>4. req'[c] = Charge(u, cost) /\ \A d \in Calls \ {c} : req'[d] = req[d]
    BY <2>3, <1>w DEF WalletType
  <2> HIDE DEF cost
  <2>5. CallOK(k, req'[c])
    BY <1>1, <1>f, <2>1, <2>2, <2>4 DEF Lookup, CallOK, CallType, Sound, Points
  <2>6. call' = [call EXCEPT ![c] = k]
    BY <1>1 DEF cost
  <2>7. RestType'
    BY <1>1, <1>w DEF Lookup, RestType, bounds
  <2> QED BY <2>3, <2>4, <2>5, <2>6, <2>7, <1>f, OneCall DEF IInv
<1>2. CASE Lookup(c) /\ GoTo(c, "missing") /\ UNCHANGED wallet
  <2>1. WalletType' /\ RestType' /\ req' = req
    BY <1>2, <1>w DEF Lookup, WalletType, RestType, wallet, bounds
  <2>2. CallOK([call[c] EXCEPT !.pc = "missing"], req'[c])
    BY <1>2, <1>f, <2>1 DEF Lookup, CallOK, CallType, Sound, Points
  <2> QED BY <1>2, <1>f, <2>1, <2>2, GoToOK DEF IInv, Points
<1>3. CASE QueueJob(c)
  <2>1. WalletType' /\ req' = req
    BY <1>3, <1>w DEF QueueJob, WalletType, wallet
  <2>2. RestType'
    BY <1>3, <1>w, <1>t DEF QueueJob, RestType, bounds
  <2>3. CallsOK'
    BY <1>3, <1>f, <2>1, AnswerOK DEF QueueJob, Answers, CallOK, Sound
  <2> QED BY <2>1, <2>2, <2>3 DEF IInv
<1>4. CASE LostJobAck(c)
  <2>1. WalletType' /\ req' = req
    BY <1>4, <1>w DEF LostJobAck, WalletType, wallet
  <2>2. RestType'
    BY <1>4, <1>w, <1>t DEF LostJobAck, Fault, RestType
  <2>3. CallsOK'
    BY <1>4, <1>f, <2>1, AnswerOK DEF LostJobAck, Answers
  <2> QED BY <2>1, <2>2, <2>3 DEF IInv
<1> QED BY <1>1, <1>2, <1>3, <1>4 DEF Lookup

\* The charge, and the search for an executor after it.
LEMMA ChargeSteps ==
  ASSUME IInv, NEW c \in Calls, Deduct(c) \/ FindExecutor(c)
  PROVE  IInv'
<1> USE DEF At
<1>f. CallsOK /\ call[c] \in CallType /\ CallOK(call[c], req[c])
  BY DEF IInv, CallsOK
<1>w. WalletType /\ RestType
  BY DEF IInv
<1>q. /\ req[c] \in Ledger!Requests /\ req[c].op = "deduct"
      /\ req[c].amount = call[c].cost /\ call[c].tool \in Tools
  BY <1>f DEF Deduct, FindExecutor, CallOK, CallType, Sound
<1>c. call[c].cost \in Int
  BY <1>q, Amounts
<1>1. CASE /\ Deduct(c) /\ Ledger!Apply(c, "done")
           /\ call' = [call EXCEPT ![c].pc = "charged", ![c].debit = call[c].cost]
  <2> DEFINE k == [call[c] EXCEPT !.pc = "charged", !.debit = call[c].cost]
  <2>1. WalletType' /\ req' = req
    BY <1>1, <1>w, <1>q, WalletApplyType
  <2>2. RestType'
    BY <1>1, <1>w DEF Deduct, RestType, bounds
  <2>3. call' = [call EXCEPT ![c] = k]
    BY <1>1, <1>f DEF CallsOK
  <2>4. CallOK(k, req'[c])
    BY <1>1, <1>f, <1>q, <1>c, <2>1 DEF Deduct, CallOK, CallType, Sound, Points
  <2> QED BY <2>1, <2>2, <2>3, <2>4, <1>f, OneCall DEF IInv
<1>2. CASE Deduct(c) /\ Ledger!Refuse(c) /\ Answer(c, "INSUFFICIENT_FUNDS")
  <2>1. WalletType' /\ req' = req
    BY <1>2, <1>w, WalletFailType
  <2>2. RestType'
    BY <1>2, <1>w DEF Deduct, RestType, bounds
  <2>3. CallsOK'
    BY <1>2, <1>f, <2>1, AnswerOK DEF Deduct, Answers, CallOK, Sound
  <2> QED BY <2>1, <2>2, <2>3 DEF IInv
<1>3. CASE FindExecutor(c) /\ GoTo(c, "executing") /\ UNCHANGED wallet
  <2>1. WalletType' /\ req' = req
    BY <1>3, <1>w DEF WalletType, wallet
  <2>2. RestType'
    BY <1>3, <1>w, <1>q DEF FindExecutor, RestType, bounds
  <2>3. CallOK([call[c] EXCEPT !.pc = "executing"], req'[c])
    BY <1>3, <1>f, <2>1 DEF FindExecutor, CallOK, CallType, Sound, Points
  <2> QED BY <1>3, <1>f, <2>1, <2>2, <2>3, GoToOK DEF IInv, Points
<1>4. CASE /\ FindExecutor(c) /\ GoTo(c, "refunding_missing")
           /\ Ledger!Request(c, Refund(c)) /\ UNCHANGED registry
  <2>1. /\ Refund(c) \in Ledger!Requests
        /\ Refund(c).op = "refund" /\ Refund(c).amount = call[c].cost
    BY <1>q, RefundRequest
  <2>2. WalletType' /\ req' = [req EXCEPT ![c] = Refund(c)]
    BY <1>4, <1>w, <2>1, WalletRequestType
  <2>3. req'[c] = Refund(c) /\ \A d \in Calls \ {c} : req'[d] = req[d]
    BY <2>2, <1>w DEF WalletType
  <2>4. RestType'
    BY <1>4, <1>w DEF FindExecutor, RestType, bounds
  <2>5. CallOK([call[c] EXCEPT !.pc = "refunding_missing"], req'[c])
    BY <1>4, <1>f, <2>1, <2>3 DEF FindExecutor, CallOK, CallType, Sound, Points
  <2> QED BY <1>4, <1>f, <2>2, <2>3, <2>4, <2>5, GoToOK DEF IInv, Points
<1> QED BY <1>1, <1>2, <1>3, <1>4 DEF Deduct, FindExecutor

\* The request for a refund, from an executor that raised or a success log that
\* could not be written.
LEMMA RefundStarts ==
  ASSUME IInv, NEW c \in Calls, NEW effect \in BOOLEAN, NEW logs \in SUBSET LogRow,
         call[c].pc \in {"executing", "executed"},
         call' = [call EXCEPT ![c].pc = "refunding", ![c].effect = effect,
                              ![c].logs = logs],
         Ledger!Request(c, Refund(c)), RestType'
  PROVE  IInv'
<1> DEFINE k == [call[c] EXCEPT !.pc = "refunding", !.effect = effect, !.logs = logs]
<1>f. CallsOK /\ call[c] \in CallType /\ CallOK(call[c], req[c]) /\ WalletType
  BY DEF IInv, CallsOK
<1>1. /\ req[c] \in Ledger!Requests /\ req[c].op = "deduct"
      /\ req[c].amount = call[c].cost
  BY <1>f DEF CallOK, Sound
<1>2. /\ Refund(c) \in Ledger!Requests
      /\ Refund(c).op = "refund" /\ Refund(c).amount = call[c].cost
  BY <1>1, RefundRequest
<1>3. WalletType' /\ req' = [req EXCEPT ![c] = Refund(c)]
  BY <1>f, <1>2, WalletRequestType
<1>4. req'[c] = Refund(c) /\ \A d \in Calls \ {c} : req'[d] = req[d]
  BY <1>3, <1>f DEF WalletType
<1>5. CallOK(k, req'[c])
  BY <1>f, <1>2, <1>4 DEF CallOK, CallType, Sound, Points
<1>6. call' = [call EXCEPT ![c] = k]
  BY <1>f DEF CallsOK
<1> QED BY <1>3, <1>4, <1>5, <1>6, <1>f, OneCall DEF IInv

\* The rows a call writes are log rows.
LEMMA Rows ==
  /\ ErrorRow \in LogRow
  /\ \A n \in Int : SuccessRow(n) \in LogRow
BY DEF ErrorRow, SuccessRow, LogRow

\* Execution and the two logs.
LEMMA ExecuteSteps ==
  ASSUME IInv, NEW c \in Calls,
         Execute(c) \/ LogSuccess(c) \/ LogError(c) \/ LostLogAck(c)
  PROVE  IInv'
<1> USE DEF At
<1>f. CallsOK /\ call \in [Calls -> CallType] /\ call[c] \in CallType
      /\ CallOK(call[c], req[c])
  BY DEF IInv, CallsOK
<1>w. WalletType /\ RestType
  BY DEF IInv
<1>r. RestType'
  BY <1>w DEF Execute, LogSuccess, LogError, LostLogAck, Fault, RestType, bounds
<1>c. call[c].pc = "executed" => call[c].cost \in Int
  BY <1>f, Amounts DEF CallOK, Sound
<1>l. /\ call[c].logs \cup {ErrorRow} \in SUBSET LogRow
      /\ call[c].pc = "executed" =>
           call[c].logs \cup {SuccessRow(call[c].cost)} \in SUBSET LogRow
  BY <1>f, <1>c, Rows DEF CallType
<1>1. ASSUME NEW acted \in BOOLEAN, UNCHANGED wallet, call[c].pc = "executing",
             call' = [call EXCEPT ![c].pc = "executed", ![c].returned = TRUE,
                                  ![c].effect = acted]
      PROVE  IInv'
  <2> DEFINE k == [call[c] EXCEPT !.pc = "executed", !.returned = TRUE,
                                  !.effect = acted]
  <2>1. WalletType' /\ req' = req
    BY <1>1, <1>w DEF WalletType, wallet
  <2>2. call' = [call EXCEPT ![c] = k]
    BY <1>1, <1>f
  <2>3. CallOK(k, req'[c])
    BY <1>1, <1>f, <2>1 DEF CallOK, CallType, Sound, Points
  <2> QED BY <2>1, <2>2, <2>3, <1>r, <1>f, OneCall DEF IInv
<1>2. ASSUME NEW acted \in BOOLEAN, call[c].pc = "executing",
             call' = [call EXCEPT ![c].pc = "refunding", ![c].effect = acted],
             Ledger!Request(c, Refund(c))
      PROVE  IInv'
  <2>1. call[c].logs \in SUBSET LogRow
    BY <1>f DEF CallType
  <2>2. call' = [call EXCEPT ![c].pc = "refunding", ![c].effect = acted,
                             ![c].logs = call[c].logs]
    BY <1>2, <1>f DEF CallType
  <2> QED BY <1>2, <1>r, <2>1, <2>2, RefundStarts
<1>3. CASE LogSuccess(c)
  <2> DEFINE k == [call[c] EXCEPT !.pc = "ended", !.answer = "ok",
                     !.logs = @ \cup {SuccessRow(call[c].cost)}]
  <2>1. WalletType' /\ req' = req
    BY <1>3, <1>w DEF LogSuccess, WalletType, wallet
  <2>2. call' = [call EXCEPT ![c] = k]
    BY <1>3, <1>f DEF LogSuccess
  <2> HIDE DEF k
  <2>3. k \in CallType
    BY <1>3, <1>f, <1>l DEF LogSuccess, CallType, Points, Answers, k
  <2>4. AnswerTells(k)
    BY <1>3, <1>f DEF LogSuccess, CallOK, Sound, CallType, AnswerTells, k, SuccessRow
  <2>5. CallOK(k, req'[c])
    BY <1>3, <1>f, <2>1, <2>3, <2>4 DEF LogSuccess, CallOK, CallType, Sound, Points, k
  <2> QED BY <2>1, <2>2, <2>5, <1>r, <1>f, OneCall DEF IInv
<1>4. ASSUME NEW a \in {"EXECUTION_ERROR", "exception"}, UNCHANGED wallet,
             call[c].pc = "refunded",
             call' = [call EXCEPT ![c].pc = "ended", ![c].answer = a,
                                  ![c].logs = @ \cup {ErrorRow}]
      PROVE  IInv'
  <2> DEFINE k == [call[c] EXCEPT !.pc = "ended", !.answer = a,
                                  !.logs = @ \cup {ErrorRow}]
  <2>1. WalletType' /\ req' = req
    BY <1>4, <1>w DEF WalletType, wallet
  <2>2. call' = [call EXCEPT ![c] = k]
    BY <1>4, <1>f
  <2>3. CallOK(k, req'[c])
    BY <1>4, <1>f, <1>l, <2>1
    DEF CallOK, CallType, Sound, AnswerTells, Points, Answers
  <2> QED BY <2>1, <2>2, <2>3, <1>r, <1>f, OneCall DEF IInv
<1>5. ASSUME call[c].pc = "executed", Ledger!Request(c, Refund(c)),
             call' = [call EXCEPT ![c].pc = "refunding",
                        ![c].logs = @ \cup {SuccessRow(call[c].cost)}]
      PROVE  IInv'
  <2> DEFINE logs == call[c].logs \cup {SuccessRow(call[c].cost)}
  <2>1. logs \in SUBSET LogRow /\ call[c].effect \in BOOLEAN
    BY <1>5, <1>f, <1>l DEF CallType
  <2>2. call' = [call EXCEPT ![c].pc = "refunding", ![c].effect = call[c].effect,
                             ![c].logs = logs]
    BY <1>5, <1>f DEF CallType
  <2> HIDE DEF logs
  <2> QED BY <1>5, <1>r, <2>1, <2>2, RefundStarts
<1>6. CASE Execute(c)
  <2>1. (call[c].tool \in Configured) \in BOOLEAN
    OBVIOUS
  <2>2. CASE UNCHANGED wallet /\ call' = [call EXCEPT ![c].pc = "executed",
                ![c].returned = TRUE, ![c].effect = call[c].tool \in Configured]
    BY <1>6, <1>1, <2>1, <2>2 DEF Execute
  <2>3. ASSUME NEW acted \in {FALSE, call[c].tool \in Configured},
               call' = [call EXCEPT ![c].pc = "refunding", ![c].effect = acted],
               Ledger!Request(c, Refund(c))
        PROVE  IInv'
    BY <1>6, <1>2, <2>1, <2>3 DEF Execute
  <2> QED BY <1>6, <2>2, <2>3 DEF Execute
<1>7. CASE LogError(c)
  BY <1>7, <1>4 DEF LogError
<1>8. CASE LostLogAck(c)
  BY <1>8, <1>4, <1>5 DEF LostLogAck
<1> QED BY <1>3, <1>6, <1>7, <1>8

\* The refund itself.
LEMMA RefundStep ==
  ASSUME IInv, NEW c \in Calls, RefundCall(c)
  PROVE  IInv'
<1> USE DEF At
<1>f. CallsOK /\ call \in [Calls -> CallType] /\ call[c] \in CallType
      /\ CallOK(call[c], req[c]) /\ WalletType /\ RestType
  BY DEF IInv, CallsOK
<1>q. /\ req[c] \in Ledger!Requests /\ req[c].amount = call[c].cost
      /\ call[c].debit = call[c].cost /\ call[c].credit = 0
  BY <1>f DEF RefundCall, CallOK, Sound
<1>c. call[c].credit + req[c].amount = call[c].debit
  BY <1>q, Amounts
<1>1. WalletType' /\ req' = req
  BY <1>f, <1>q, WalletApplyType DEF RefundCall
<1>2. RestType'
  BY <1>f DEF RefundCall, RestType, bounds
<1>3. CASE call[c].pc = "refunding"
  <2> DEFINE k == [call[c] EXCEPT !.pc = "refunded", !.answer = "none",
                                  !.credit = call[c].debit]
  <2>0. call' = [call EXCEPT ![c].pc = "refunded", ![c].answer = "none",
                             ![c].credit = @ + req[c].amount]
    BY <1>3 DEF RefundCall
  <2>1. call' = [call EXCEPT ![c] = k]
    BY <2>0, <1>f, <1>c DEF CallType
  <2>2. CallOK(k, req'[c])
    BY <1>3, <1>f, <1>q, <1>1 DEF CallOK, CallType, Sound, Points, Answers
  <2> QED BY <1>1, <1>2, <2>1, <2>2, <1>f, OneCall DEF IInv
<1>4. CASE call[c].pc = "refunding_missing"
  <2> DEFINE k == [call[c] EXCEPT !.pc = "ended", !.answer = "EXECUTION_ERROR",
                                  !.credit = call[c].debit]
  <2>0. call' = [call EXCEPT ![c].pc = "ended", ![c].answer = "EXECUTION_ERROR",
                             ![c].credit = @ + req[c].amount]
    BY <1>4 DEF RefundCall
  <2>1. call' = [call EXCEPT ![c] = k]
    BY <2>0, <1>f, <1>c DEF CallType
  <2>2. CallOK(k, req'[c])
    BY <1>4, <1>f, <1>q, <1>1
    DEF CallOK, CallType, Sound, AnswerTells, Points, Answers
  <2> QED BY <1>1, <1>2, <2>1, <2>2, <1>f, OneCall DEF IInv
<1> QED BY <1>3, <1>4 DEF RefundCall

\* Steps that end the call with no more than an exception.
LEMMA CutShortSteps ==
  ASSUME IInv, NEW c \in Calls,
         WalletOverflow(c) \/ DatabaseError(c) \/ Cancel(c)
  PROVE  IInv'
<1> USE DEF At
<1>f. CallsOK /\ call \in [Calls -> CallType] /\ call[c] \in CallType
      /\ CallOK(call[c], req[c]) /\ WalletType /\ RestType
  BY DEF IInv, CallsOK
<1>r. RestType'
  BY <1>f DEF WalletOverflow, DatabaseError, Cancel, Fault, RestType, bounds
<1>w. ASSUME Ledger!Fail(c) \/ UNCHANGED wallet
      PROVE  WalletType' /\ req' = req
  BY <1>w, <1>f, WalletFailType DEF WalletType, wallet
<1>1. ASSUME Ledger!Fail(c) \/ UNCHANGED wallet, Answer(c, "exception")
      PROVE  IInv'
  <2>1. WalletType' /\ req' = req
    BY <1>1, <1>w
  <2>2. CallsOK'
    BY <1>1, <1>f, <2>1, AnswerOK DEF Answers
  <2> QED BY <2>1, <2>2, <1>r DEF IInv
<1>2. CASE WalletOverflow(c)
  BY <1>2, <1>1 DEF WalletOverflow
<1>3. CASE DatabaseError(c) /\ call[c].pc = "executed"
  <2>1. call[c].logs \in SUBSET LogRow /\ call[c].effect \in BOOLEAN
    BY <1>f DEF CallType
  <2>2. call' = [call EXCEPT ![c].pc = "refunding", ![c].effect = call[c].effect,
                             ![c].logs = call[c].logs]
    BY <1>3, <1>f DEF DatabaseError, GoTo, CallType
  <2>3. Ledger!Request(c, Refund(c))
    BY <1>3 DEF DatabaseError
  <2> QED BY <1>3, <1>r, <2>1, <2>2, <2>3, RefundStarts
<1>4. CASE DatabaseError(c) /\ call[c].pc # "executed"
  BY <1>4, <1>1 DEF DatabaseError
<1>5. CASE Cancel(c)
  <2>1. PICK acted \in {call[c].effect, call[c].pc = "executing"
                                         /\ call[c].tool \in Configured} :
          call' = [call EXCEPT ![c].pc = "ended", ![c].effect = acted \/ @]
    BY <1>5 DEF Cancel
  <2>2. PICK e \in BOOLEAN :
          call' = [call EXCEPT ![c].pc = "ended", ![c].effect = e]
    BY <2>1, <1>f
  <2> DEFINE k == [call[c] EXCEPT !.pc = "ended", !.effect = e]
  <2>3. WalletType' /\ req' = req
    BY <1>5, <1>w DEF Cancel
  <2>4. call' = [call EXCEPT ![c] = k]
    BY <2>2, <1>f
  <2>5. CallOK(k, req'[c])
    BY <1>5, <1>f, <2>3 DEF Cancel, CallOK, CallType, Sound, AnswerTells, Points
  <2> QED BY <2>3, <2>4, <2>5, <1>r, <1>f, OneCall DEF IInv
<1> QED BY <1>2, <1>3, <1>4, <1>5

\* A wallet commit that is applied although its caller sees an exception.
LEMMA LostWalletAckStep ==
  ASSUME IInv, NEW c \in Calls, LostWalletAck(c)
  PROVE  IInv'
<1> USE DEF At
<1>f. CallsOK /\ call \in [Calls -> CallType] /\ call[c] \in CallType
      /\ CallOK(call[c], req[c]) /\ WalletType /\ RestType
  BY DEF IInv, CallsOK
<1>q. req[c] \in Ledger!Requests /\ req[c].amount = call[c].cost
  BY <1>f DEF LostWalletAck, WalletPoints, CallOK, Sound
<1>c. call[c].cost \in Int /\ call[c].credit = 0
  BY <1>f, <1>q, Amounts DEF LostWalletAck, WalletPoints, CallOK, Sound
<1>1. WalletType' /\ req' = req
  BY <1>f, <1>q, WalletApplyType DEF LostWalletAck
<1>2. RestType'
  BY <1>f DEF LostWalletAck, Fault, RestType, bounds
<1>3. ASSUME NEW debit \in Int, NEW credit \in {0, debit},
             call' = [call EXCEPT ![c].pc = "ended", ![c].answer = "exception",
                        ![c].debit = debit, ![c].credit = credit]
      PROVE  IInv'
  <2> DEFINE k == [call[c] EXCEPT !.pc = "ended", !.answer = "exception",
                                  !.debit = debit, !.credit = credit]
  <2>1. call' = [call EXCEPT ![c] = k]
    BY <1>3, <1>f
  <2>2. CallOK(k, req'[c])
    <3>0. debit \in Int /\ credit \in Int /\ call[c].effect \in BOOLEAN
      BY <1>3, <1>f DEF CallType
    <3>1. k \in CallType
      BY <3>0, <1>f DEF CallType, Points, Answers
    <3>2. k.pc = "ended" /\ k.answer = "exception" /\ k.credit \in {0, k.debit}
      BY <1>3, <1>f DEF CallType
    <3> HIDE DEF k
    <3> QED BY <3>1, <3>2 DEF CallOK, Sound, AnswerTells
  <2> QED BY <1>1, <1>2, <2>1, <2>2, <1>f, OneCall DEF IInv
<1>4. CASE call[c].pc = "charging"
  <2>1. call' = [call EXCEPT ![c].pc = "ended", ![c].answer = "exception",
                   ![c].debit = call[c].cost, ![c].credit = @]
    BY <1>4 DEF LostWalletAck
  <2>2. call' = [call EXCEPT ![c].pc = "ended", ![c].answer = "exception",
                   ![c].debit = call[c].cost, ![c].credit = 0]
    BY <2>1, <1>f, <1>c DEF CallType
  <2> QED BY <2>2, <1>3, <1>c
<1>5. CASE call[c].pc \in {"refunding", "refunding_missing"}
  <2>1. call[c].credit + req[c].amount = call[c].debit /\ call[c].debit \in Int
    BY <1>5, <1>f, <1>q, <1>c DEF CallOK, Sound
  <2>2. call' = [call EXCEPT ![c].pc = "ended", ![c].answer = "exception",
                   ![c].debit = @, ![c].credit = @ + req[c].amount]
    BY <1>5 DEF LostWalletAck
  <2>3. call' = [call EXCEPT ![c].pc = "ended", ![c].answer = "exception",
                   ![c].debit = call[c].debit, ![c].credit = call[c].debit]
    BY <2>1, <2>2, <1>f DEF CallType
  <2> QED BY <2>1, <2>3, <1>3
<1> QED BY <1>4, <1>5 DEF LostWalletAck, WalletPoints

\* A crash ends every call where it stands.
LEMMA CrashStep ==
  ASSUME IInv, Crash
  PROVE  IInv'
<1>1. WalletType'
  BY DEF IInv, WalletType, Crash
<1>2. RestType'
  BY ExecutionAssumption DEF IInv, RestType, Crash, Fault
<1>3. ASSUME NEW c \in Calls
      PROVE  call'[c] \in CallType /\ CallOK(call'[c], req'[c])
  <2>1. CallOK(call[c], req[c]) /\ req'[c] = req[c]
    BY DEF IInv, CallsOK, Crash
  <2>2. call'[c] = call[c] \/ call'[c] = [call[c] EXCEPT !.pc = "ended"]
    BY DEF Crash
  <2>3. call'[c] = [call[c] EXCEPT !.pc = "ended"] /\ call[c].pc # "ended"
          => CallOK(call'[c], req'[c])
    BY <2>1 DEF CallOK, CallType, Sound, AnswerTells, Points, Answers
  <2>4. call[c].pc = "ended" => call'[c] = call[c]
    BY <2>1, <2>2 DEF CallOK, CallType
  <2> QED BY <2>1, <2>2, <2>3, <2>4 DEF CallOK
<1>4. CallsOK'
  BY <1>3 DEF CallsOK, Crash
<1> QED BY <1>1, <1>2, <1>4 DEF IInv

\* A top-up and a republication leave the calls alone.
LEMMA OutsideSteps ==
  ASSUME IInv, TopUp \/ Republish
  PROVE  IInv'
<1>f. WalletType /\ RestType /\ CallsOK
  BY DEF IInv
<1>1. CASE TopUp
  <2>1. PICK u \in Users, a \in TopUps :
          LET r == [op |-> "topup", user |-> u, amount |-> a, at |-> 0]
          IN  /\ Ledger!NewBalance(r, balance[u]) \in Ledger!Integer32
              /\ balance' = [balance EXCEPT ![u] = Ledger!NewBalance(r, @)]
              /\ ledger' = [ledger EXCEPT ![u] =
                              Append(@, Ledger!Transaction(r, balance[u]))]
    BY <1>1 DEF TopUp
  <2> DEFINE r == [op |-> "topup", user |-> u, amount |-> a, at |-> 0]
             t == Ledger!Transaction(r, balance[u])
  <2>2. t \in Entry
    BY <2>1, Amounts DEF Ledger!Transaction, Entry
  <2>3. Append(ledger[u], t) \in Seq(Entry)
    BY <2>2, <1>f, AppendProperties DEF WalletType
  <2> HIDE DEF Entry
  <2>4. WalletType'
    BY <1>1, <1>f, <2>1, <2>3 DEF TopUp, WalletType
  <2>5. RestType' /\ CallsOK'
    BY <1>1, <1>f DEF TopUp, Edit, RestType, CallsOK
  <2> QED BY <2>4, <2>5 DEF IInv
<1>2. CASE Republish
  <2>1. WalletType' /\ CallsOK'
    BY <1>2, <1>f DEF Republish, wallet, WalletType, CallsOK
  <2>2. RestType'
    BY <1>2, <1>f DEF Republish, Edit, RestType
  <2> QED BY <2>1, <2>2 DEF IInv
<1> QED BY <1>1, <1>2

-----------------------------------------------------------------------------

LEMMA InitInv == Init => IInv
<1> SUFFICES ASSUME Init PROVE IInv
  OBVIOUS
<1>1. WalletType
  <2>1. InitialBalance \in Ledger!Integer32
    BY ExecutionAssumption DEF Ledger!ConstantsOK, Ledger!Integer32
  <2>2. <<>> \in Seq(Entry)
    BY EmptySeq
  <2> QED BY <2>1, <2>2 DEF Init, Ledger!Init, WalletType
<1>2. RestType
  BY ExecutionAssumption DEF Init, RestType
<1>3. CallsOK
  BY DEF Init, CallsOK, CallOK, NewCall, CallType, Sound, Points, Answers
<1> QED BY <1>1, <1>2, <1>3 DEF IInv

LEMMA Inductive == IInv /\ [Next]_vars => IInv'
<1> SUFFICES ASSUME IInv, [Next]_vars PROVE IInv'
  OBVIOUS
<1>1. ASSUME NEW c \in Calls, Arrive(c) \/ Preflight(c) \/ Authenticate(c)
      PROVE  IInv'
  BY <1>1, EntrySteps
<1>2. ASSUME NEW c \in Calls, Lookup(c) \/ QueueJob(c) \/ LostJobAck(c)
      PROVE  IInv'
  BY <1>2, LookupSteps
<1>3. ASSUME NEW c \in Calls, Deduct(c) \/ FindExecutor(c)
      PROVE  IInv'
  BY <1>3, ChargeSteps
<1>4. ASSUME NEW c \in Calls,
             Execute(c) \/ LogSuccess(c) \/ LogError(c) \/ LostLogAck(c)
      PROVE  IInv'
  BY <1>4, ExecuteSteps
<1>5. ASSUME NEW c \in Calls, RefundCall(c)
      PROVE  IInv'
  BY <1>5, RefundStep
<1>6. ASSUME NEW c \in Calls, WalletOverflow(c) \/ DatabaseError(c) \/ Cancel(c)
      PROVE  IInv'
  BY <1>6, CutShortSteps
<1>7. ASSUME NEW c \in Calls, LostWalletAck(c)
      PROVE  IInv'
  BY <1>7, LostWalletAckStep
<1>8. CASE Crash
  BY <1>8, CrashStep
<1>9. CASE TopUp \/ Republish
  BY <1>9, OutsideSteps
<1>10. CASE UNCHANGED vars
  BY <1>10 DEF IInv, WalletType, RestType, CallsOK, vars, wallet, bounds
<1> QED BY <1>1, <1>2, <1>3, <1>4, <1>5, <1>6, <1>7, <1>8, <1>9, <1>10
        DEF Next, Step

LEMMA InvariantHolds == Spec => []IInv
BY InitInv, Inductive, PTL DEF Spec

-----------------------------------------------------------------------------

\* Every variable of a call and of the wallet under it keeps its type.
THEOREM TypeCorrect == Spec => []TypeOK
<1>1. IInv => TypeOK
  BY DEF IInv, WalletType, RestType, CallsOK, Entry, TypeOK
<1> QED BY <1>1, InvariantHolds, PTL

\* At every point of execute_capability a call has paid, logged and asked of the
\* wallet what that point stands for.
THEOREM CallsAlwaysSound == Spec => []CallsSound
<1>1. IInv => CallsSound
  BY DEF IInv, CallsOK, CallOK, CallsSound
<1> QED BY <1>1, InvariantHolds, PTL

\* The answer of a call tells what it cost, for any number of concurrent calls,
\* republications, database errors, lost acknowledgements and crashes.
THEOREM AnswersTellCharges == Spec => []AnswerTellsCharge
<1>1. IInv => AnswerTellsCharge
  BY DEF IInv, CallsOK, CallOK, AnswerTellsCharge, Ended, At
<1> QED BY <1>1, InvariantHolds, PTL

\* No call is refunded twice, or another amount than it was charged.
THEOREM RefundsMatchCharges == Spec => []RefundMatchesCharge
<1>1. IInv => RefundMatchesCharge
  BY DEF IInv, CallsOK, CallOK, RefundMatchesCharge
<1> QED BY <1>1, InvariantHolds, PTL

\* No provider acts for a call that is not paid for at that moment.
THEOREM NoFreeExecutions == Spec => NoFreeExecution
<1> DEFINE A == \A c \in Calls : call'[c].effect /\ ~call[c].effect =>
                 call[c].debit = call[c].cost /\ call[c].credit = 0
<1>1. IInv /\ [Next]_vars => A
  <2> SUFFICES ASSUME IInv, [Next]_vars, NEW c \in Calls,
                      call'[c].effect, ~call[c].effect
               PROVE  call[c].debit = call[c].cost /\ call[c].credit = 0
    OBVIOUS
  <2>1. call \in [Calls -> CallType] /\ call[c].effect \in BOOLEAN
    BY DEF IInv, CallsOK, CallType
  <2>2. CallOK(call[c], req[c])
    BY DEF IInv, CallsOK
  <2>3. ASSUME NEW d \in Calls, Arrive(d) \/ Step(d) \/ DatabaseError(d)
                 \/ LostWalletAck(d) \/ LostLogAck(d) \/ LostJobAck(d) \/ Cancel(d)
        PROVE  call[c].pc = "executing"
    <3>1. CASE Arrive(d) \/ Preflight(d) \/ Authenticate(d) \/ Lookup(d) \/ QueueJob(d)
      BY <3>1, <2>1 DEF Arrive, Preflight, Authenticate, Lookup, QueueJob,
                        GoTo, Answer, CallType
    <3>2. CASE Deduct(d) \/ FindExecutor(d) \/ RefundCall(d) \/ WalletOverflow(d)
      BY <3>2, <2>1 DEF Deduct, FindExecutor, RefundCall, WalletOverflow,
                        GoTo, Answer, CallType
    <3>3. CASE LogSuccess(d) \/ LogError(d) \/ LostLogAck(d)
      BY <3>3, <2>1 DEF LogSuccess, LogError, LostLogAck, CallType
    <3>4. CASE DatabaseError(d) \/ LostWalletAck(d) \/ LostJobAck(d)
      BY <3>4, <2>1 DEF DatabaseError, LostWalletAck, LostJobAck, GoTo, Answer, CallType
    <3>5. CASE Execute(d)
      BY <3>5, <2>1 DEF Execute, At, CallType
    <3>6. CASE Cancel(d)
      BY <3>6, <2>1 DEF Cancel, At, CallType
    <3> QED BY <2>3, <3>1, <3>2, <3>3, <3>4, <3>5, <3>6 DEF Step
  <2>4. ~Crash
    BY <2>1 DEF Crash, CallType
  <2>5. ~TopUp /\ ~Republish /\ ~UNCHANGED vars
    BY DEF TopUp, Republish, vars
  <2>6. call[c].pc = "executing"
    BY <2>3, <2>4, <2>5 DEF Next
  <2> QED BY <2>2, <2>6 DEF CallOK, Sound
<1> QED BY <1>1, InvariantHolds, PTL DEF Spec, NoFreeExecution

-----------------------------------------------------------------------------
(* Misses and logs.                                                        *)

\* The steps of one call, with the faults that meet it.
ActionOf(c) ==
  \/ Arrive(c) \/ Step(c) \/ DatabaseError(c) \/ LostWalletAck(c) \/ LostLogAck(c)
  \/ LostJobAck(c) \/ Cancel(c)

Missed(c) == Ended(c) /\ call[c].answer = "TOOL_NOT_FOUND"

\* A call that has ended does nothing more, no step touches another call, and the
\* only way to a miss is through the queue.
LEMMA OwnCallOnly ==
  ASSUME IInv, NEW c \in Calls, ActionOf(c)
  PROVE  /\ call[c].pc # "ended"
         /\ \A d \in Calls \ {c} : call'[d] = call[d]
         /\ QueueJob(c) \/ call'[c].answer # "TOOL_NOT_FOUND"
         /\ QueueJob(c) \/ LostJobAck(c) \/ UNCHANGED jobs
<1> USE DEF At, GoTo, Answer, CallType
<1>1. /\ call \in [Calls -> CallType]
      /\ call[c].pc # "ended" => call[c].answer = "none"
  BY DEF IInv, CallsOK, CallOK, Sound
<1>2. CASE Arrive(c)
  BY <1>1, <1>2 DEF Arrive
<1>3. CASE Preflight(c)
  BY <1>1, <1>3 DEF Preflight
<1>4. CASE Authenticate(c)
  BY <1>1, <1>4 DEF Authenticate
<1>5. CASE Lookup(c)
  BY <1>1, <1>5 DEF Lookup
<1>6. CASE QueueJob(c)
  BY <1>1, <1>6 DEF QueueJob
<1>7. CASE Deduct(c)
  BY <1>1, <1>7 DEF Deduct
<1>8. CASE FindExecutor(c)
  BY <1>1, <1>8 DEF FindExecutor
<1>9. CASE Execute(c)
  BY <1>1, <1>9 DEF Execute
<1>10. CASE RefundCall(c)
  BY <1>1, <1>10 DEF RefundCall
<1>11. CASE LogSuccess(c)
  BY <1>1, <1>11 DEF LogSuccess
<1>12. CASE LogError(c)
  BY <1>1, <1>12 DEF LogError
<1>13. CASE LostLogAck(c)
  BY <1>1, <1>13 DEF LostLogAck
<1>14. CASE WalletOverflow(c)
  BY <1>1, <1>14 DEF WalletOverflow
<1>15. CASE DatabaseError(c)
  BY <1>1, <1>15 DEF DatabaseError, WalletPoints
<1>16. CASE LostWalletAck(c)
  BY <1>1, <1>16 DEF LostWalletAck, WalletPoints
<1>17. CASE LostJobAck(c)
  BY <1>1, <1>17 DEF LostJobAck
<1>18. CASE Cancel(c)
  BY <1>1, <1>18 DEF Cancel
<1> QED BY <1>2, <1>3, <1>4, <1>5, <1>6, <1>7, <1>8, <1>9, <1>10, <1>11, <1>12, <1>13,
           <1>14, <1>15, <1>16, <1>17, <1>18
       DEF ActionOf, Step

\* The calls that missed a tool are finitely many, however many calls there may be,
\* and each has a job of its own.
Misses(t) == {c \in Calls : call[c].tool = t /\ Missed(c)}
MissesQueued ==
  \A t \in Tools : IsFiniteSet(Misses(t)) /\ jobs[t] >= Cardinality(Misses(t))

\* A step after which no call has missed that had not, and no job is gone.
LEMMA NoNewMiss ==
  ASSUME IInv, MissesQueued, jobs' \in [Tools -> Nat],
         \A t \in Tools : jobs'[t] >= jobs[t],
         \A c \in Calls : Missed(c)' => Missed(c) /\ call'[c] = call[c]
  PROVE  MissesQueued'
<1> SUFFICES ASSUME NEW t \in Tools
             PROVE  /\ IsFiniteSet(Misses(t)')
                    /\ jobs'[t] >= Cardinality(Misses(t)')
  BY DEF MissesQueued
<1>1. Misses(t)' \in SUBSET Misses(t)
  BY DEF Misses
<1>2. IsFiniteSet(Misses(t)) /\ jobs[t] >= Cardinality(Misses(t)) /\ jobs[t] \in Nat
  BY DEF MissesQueued, IInv, RestType
<1>3. IsFiniteSet(Misses(t)') /\ Cardinality(Misses(t)') <= Cardinality(Misses(t))
  BY <1>1, <1>2, FS_Subset
<1>4. Cardinality(Misses(t)) \in Nat /\ Cardinality(Misses(t)') \in Nat
  BY <1>2, <1>3, FS_CardinalityType
<1>5. jobs'[t] \in Nat /\ jobs'[t] >= jobs[t]
  OBVIOUS
<1> QED BY <1>2, <1>3, <1>4, <1>5

LEMMA QueueJobMiss ==
  ASSUME IInv, MissesQueued, NEW c \in Calls, QueueJob(c)
  PROVE  MissesQueued'
<1>1. /\ call \in [Calls -> CallType] /\ call[c].pc = "missing" /\ call[c].tool \in Tools
      /\ jobs \in [Tools -> Nat]
  BY DEF IInv, CallsOK, CallOK, CallType, Sound, QueueJob, At, RestType
<1>2. /\ call'[c].tool = call[c].tool
      /\ \A d \in Calls \ {c} : call'[d] = call[d]
  BY <1>1 DEF QueueJob, Answer, CallType
<1> SUFFICES ASSUME NEW t \in Tools
             PROVE  /\ IsFiniteSet(Misses(t)')
                    /\ jobs'[t] >= Cardinality(Misses(t)')
  BY DEF MissesQueued
<1>3. /\ IsFiniteSet(Misses(t)) /\ jobs[t] >= Cardinality(Misses(t))
      /\ Cardinality(Misses(t)) \in Nat /\ jobs[t] \in Nat
  BY <1>1, FS_CardinalityType DEF MissesQueued
<1>4. CASE t = call[c].tool
  <2>1. Misses(t)' \in SUBSET (Misses(t) \cup {c})
    BY <1>2 DEF Misses, Missed, Ended, At
  <2>2. /\ IsFiniteSet(Misses(t) \cup {c})
        /\ Cardinality(Misses(t) \cup {c}) \in
             {Cardinality(Misses(t)), Cardinality(Misses(t)) + 1}
    <3> HIDE DEF Misses
    <3> QED BY <1>3, FS_AddElement
  <2>3. /\ IsFiniteSet(Misses(t)')
        /\ Cardinality(Misses(t)') <= Cardinality(Misses(t) \cup {c})
    BY <2>1, <2>2, FS_Subset
  <2>4. Cardinality(Misses(t) \cup {c}) \in Nat /\ Cardinality(Misses(t)') \in Nat
    BY <2>2, <2>3, FS_CardinalityType
  <2>5. jobs'[t] = jobs[t] + 1
    BY <1>1, <1>4 DEF QueueJob
  <2> QED BY <1>3, <2>2, <2>3, <2>4, <2>5
<1>5. CASE t # call[c].tool
  <2>1. Misses(t)' = Misses(t)
    BY <1>1, <1>2, <1>5 DEF Misses, Missed, Ended, At
  <2>2. jobs'[t] = jobs[t]
    BY <1>1, <1>5 DEF QueueJob
  <2> QED BY <1>3, <2>1, <2>2
<1> QED BY <1>4, <1>5

\* Every miss that is answered has queued a job of its own: the background task that
\* starts discovery is committed before TOOL_NOT_FOUND is returned.
THEOREM MissesQueueJobs == Spec => []MissQueuesJob
<1>1. Init => MissesQueued
  <2> SUFFICES ASSUME Init, NEW t \in Tools
               PROVE  IsFiniteSet(Misses(t)) /\ jobs[t] >= Cardinality(Misses(t))
    BY DEF MissesQueued
  <2>1. Misses(t) = {}
    BY DEF Init, NewCall, Misses, Missed, Ended, At
  <2> QED BY <2>1, FS_EmptySet DEF Init
<1>2. IInv /\ MissesQueued /\ [Next]_vars => MissesQueued'
  <2> SUFFICES ASSUME IInv, MissesQueued, [Next]_vars
               PROVE  MissesQueued'
    OBVIOUS
  <2>0. jobs \in [Tools -> Nat]
    BY DEF IInv, RestType
  <2>1. ASSUME NEW c \in Calls, ActionOf(c)
        PROVE  MissesQueued'
    <3>1. ASSUME ~QueueJob(c)
          PROVE  MissesQueued'
      <4>1. \A d \in Calls : Missed(d)' => Missed(d) /\ call'[d] = call[d]
        BY <2>1, <3>1, OwnCallOnly DEF Missed, Ended, At
      <4>2. jobs' \in [Tools -> Nat] /\ \A t \in Tools : jobs'[t] >= jobs[t]
        BY <2>0, <2>1, <3>1, OwnCallOnly DEF LostJobAck
      <4> QED BY <4>1, <4>2, NoNewMiss
    <3> QED BY <3>1, QueueJobMiss
  <2>2. CASE Crash
    <3>1. \A d \in Calls : Missed(d)' => Missed(d) /\ call'[d] = call[d]
      BY <2>2 DEF IInv, CallsOK, CallOK, CallType, Sound, Crash, Missed, Ended, At
    <3> QED BY <2>0, <2>2, <3>1, NoNewMiss DEF Crash
  <2>3. CASE TopUp \/ Republish \/ UNCHANGED vars
    <3>1. UNCHANGED <<call, jobs>>
      BY <2>3 DEF TopUp, Republish, vars
    <3> QED BY <2>0, <3>1, NoNewMiss DEF Missed, Ended, At
  <2> QED BY <2>1, <2>2, <2>3 DEF Next, ActionOf
<1>3. MissesQueued => MissQueuesJob
  <2> SUFFICES ASSUME MissesQueued, NEW t \in Tools
               PROVE  jobs[t] >= Cardinality({c \in Calls :
                        call[c].tool = t /\ Ended(c) /\ call[c].answer = "TOOL_NOT_FOUND"})
    BY DEF MissQueuesJob
  <2>1. Misses(t) = {c \in Calls :
                       call[c].tool = t /\ Ended(c) /\ call[c].answer = "TOOL_NOT_FOUND"}
    BY DEF Misses, Missed
  <2> QED BY <2>1 DEF MissesQueued
<1> QED BY <1>1, <1>2, <1>3, InvariantHolds, PTL DEF Spec

\* What a call has logged by the time it ends, as long as no fault has struck: a call
\* that is refunded has logged no success, and one that ends has answered.
Unfaulted(k) ==
  /\ k.pc \in {"refunding", "refunding_missing", "refunded"} => k.logs = {}
  /\ k.pc = "ended" => k.answer # "none"
  /\ k.pc = "ended" /\ k.answer = "EXECUTION_ERROR" => k.logs \in SUBSET {ErrorRow}

CallsUnfaulted == faults = 0 => \A c \in Calls : Unfaulted(call[c])

\* The steps in which no fault strikes.
LEMMA StepUnfaulted ==
  ASSUME IInv, NEW c \in Calls, Arrive(c) \/ Step(c), Unfaulted(call[c])
  PROVE  Unfaulted(call'[c])
<1> USE DEF At, GoTo, Answer, CallType, Unfaulted
<1>1. /\ call \in [Calls -> CallType]
      /\ Sound(call[c], req[c])
  BY DEF IInv, CallsOK, CallOK
<1>2. CASE Arrive(c) \/ Preflight(c) \/ Authenticate(c) \/ Lookup(c) \/ QueueJob(c)
  BY <1>1, <1>2 DEF Arrive, Preflight, Authenticate, Lookup, QueueJob
<1>3. CASE Deduct(c) \/ WalletOverflow(c)
  BY <1>1, <1>3 DEF Deduct, WalletOverflow
<1>4. CASE FindExecutor(c)
  BY <1>1, <1>4 DEF FindExecutor, Sound
<1>5. CASE Execute(c)
  BY <1>1, <1>5 DEF Execute, Sound
<1>6. CASE RefundCall(c)
  BY <1>1, <1>6 DEF RefundCall
<1>7. CASE LogSuccess(c)
  BY <1>1, <1>7 DEF LogSuccess
<1>8. CASE LogError(c)
  BY <1>1, <1>8 DEF LogError
<1> QED BY <1>2, <1>3, <1>4, <1>5, <1>6, <1>7, <1>8 DEF Step

LEMMA AlwaysUnfaulted == Spec => []CallsUnfaulted
<1>1. Init => CallsUnfaulted
  BY DEF Init, NewCall, CallsUnfaulted, Unfaulted
<1>2. IInv /\ CallsUnfaulted /\ [Next]_vars => CallsUnfaulted'
  <2> SUFFICES ASSUME IInv, CallsUnfaulted, [Next]_vars, faults' = 0, NEW c \in Calls
               PROVE  Unfaulted(call'[c])
    BY DEF CallsUnfaulted
  <2>0. faults \in Nat
    BY DEF IInv, RestType
  <2>1. ASSUME NEW d \in Calls, Arrive(d) \/ Step(d)
        PROVE  Unfaulted(call'[c])
    <3>1. faults = 0
      BY <2>0, <2>1 DEF Arrive, Step, Preflight, Authenticate, Lookup, QueueJob, Deduct,
         FindExecutor, Execute, LogSuccess, RefundCall, LogError, WalletOverflow, bounds
    <3>2. Unfaulted(call[c])
      BY <3>1 DEF CallsUnfaulted
    <3>3. d # c => call'[c] = call[c]
      BY <2>1, OwnCallOnly DEF ActionOf
    <3> QED BY <2>1, <3>2, <3>3, StepUnfaulted
  <2>2. ASSUME NEW d \in Calls, \/ DatabaseError(d) \/ LostWalletAck(d)
                                \/ LostLogAck(d) \/ LostJobAck(d) \/ Cancel(d)
        PROVE  FALSE
    BY <2>0, <2>2 DEF DatabaseError, LostWalletAck, LostLogAck, LostJobAck, Cancel, Fault
  <2>3. ~Crash
    BY <2>0 DEF Crash, Fault
  <2>4. CASE TopUp \/ Republish \/ UNCHANGED vars
    BY <2>0, <2>4 DEF TopUp, Republish, Edit, vars, bounds, CallsUnfaulted
  <2> QED BY <2>1, <2>2, <2>3, <2>4 DEF Next
<1> QED BY <1>1, <1>2, InvariantHolds, PTL DEF Spec

\* Until a fault strikes, what a call that answers has logged is what the wallet lost,
\* at whatever price and however many calls there are.
THEOREM LogsAlwaysReconcile == Spec => []LogsReconcile
<1>1. IInv /\ CallsUnfaulted => LogsReconcile
  <2> SUFFICES ASSUME IInv, CallsUnfaulted, faults = 0, NEW c \in Calls,
                      Ended(c), call[c].answer # "exception"
               PROVE  LoggedCredits(c) = Net(c)
    BY DEF LogsReconcile
  <2> DEFINE k == call[c]
  <2>1. /\ k \in CallType /\ AnswerTells(k) /\ Unfaulted(k) /\ k.pc = "ended"
        /\ k.answer # "exception"
    BY DEF IInv, CallsOK, CallOK, CallsUnfaulted, Ended, At
  <2> HIDE DEF k
  <2>2. k.answer # "none" /\ k.debit \in Int /\ k.credit \in Int /\ k.cost \in Int
    <3>1. /\ k.debit \in Int /\ k.credit \in Int /\ k.cost \in Costs \cup {0}
      BY <2>1 DEF CallType
    <3>2. Costs \subseteq Int /\ 0 \in Int
      BY Amounts
    <3>3. k.cost \in Int
      BY <3>1, <3>2
    <3> QED BY <2>1, <3>1, <3>3 DEF Unfaulted
  <2>3. CASE k.answer = "ok"
    <3>1. k.debit = k.cost /\ k.credit = 0 /\ k.logs = {SuccessRow(k.cost)}
      BY <2>1, <2>3 DEF AnswerTells
    <3>2. SuccessRow(k.cost).credits_deducted = k.cost
      BY DEF SuccessRow
    <3>3. LoggedCredits(c) = k.cost
      BY <2>2, <3>1, <3>2 DEF LoggedCredits, k
    <3> QED BY <2>2, <3>1, <3>3 DEF Net, k
  <2>4. CASE k.answer = "EXECUTION_ERROR"
    <3>1. k.credit = k.debit /\ k.logs \in SUBSET {ErrorRow}
      BY <2>1, <2>4 DEF AnswerTells, Unfaulted
    <3>2. LoggedCredits(c) = 0
      BY <3>1 DEF LoggedCredits, ErrorRow, k
    <3> QED BY <2>2, <3>1, <3>2 DEF Net, k
  <2>5. CASE k.answer \in {"TOOL_NOT_FOUND", "INSUFFICIENT_FUNDS", "not_in_catalog"}
    <3>1. k.debit = 0 /\ k.credit = 0 /\ k.logs = {}
      BY <2>1, <2>5 DEF AnswerTells
    <3> QED BY <3>1 DEF LoggedCredits, Net, k
  <2> QED BY <2>1, <2>2, <2>3, <2>4, <2>5 DEF CallType, Answers
<1> QED BY <1>1, AlwaysUnfaulted, InvariantHolds, PTL
-----------------------------------------------------------------------------
(* The wallet the calls pay from.  A call's payment is one atomic step     *)
(* above, that of WalletLedger; here it is a SQL transaction of a session, *)
(* and WalletImplementsLedger is why the step may stand for it.            *)

\* The inductive invariant: types, ownership of row locks, and the ledger.
WalletInv == WalletTypeOK /\ LockProtectsRead /\ LedgerReconciles

USE DEF Answered, InTransaction, HoldsLock

\* A balance column has one range, seen from a call or from a session.
LEMMA SameColumn == Atomic!Integer32 = Ledger!Integer32
BY DEF Atomic!Integer32, Ledger!Integer32

\* A new user's wallet satisfies the invariant.
LEMMA WalletInitInv == WalletInit => WalletInv
<1> SUFFICES ASSUME WalletInit PROVE WalletInv
  OBVIOUS
<1>1. InitialBalance \in Atomic!Integer32 /\ 0 \in Atomic!Integer32
  BY WalletAssumption DEF Atomic!ConstantsOK, Atomic!Integer32
<1>2. WalletTypeOK
  BY <1>1, WalletAssumption, EmptySeq DEF WalletInit, WalletTypeOK
<1>3. LockProtectsRead
  BY DEF WalletInit, LockProtectsRead
<1>4. LedgerReconciles
  <2> SUFFICES ASSUME NEW u \in Users PROVE Explains(ledger[u], balance[u])
    BY DEF LedgerReconciles
  <2>1. Len(ledger[u]) = 0 /\ balance[u] = InitialBalance
    BY DEF WalletInit
  <2> QED BY <2>1 DEF Explains, BalanceBefore
<1> QED BY <1>2, <1>3, <1>4 DEF WalletInv

\* A call of a session is well formed once the session has started it.
LEMMA WalletRequests ==
  ASSUME NEW r \in Atomic!Requests
  PROVE  /\ r.user \in Users
         /\ r.amount \in Int
         /\ r.at \in Nat
         /\ r.op \in {"deduct", "refund", "topup"}
BY WalletAssumption DEF Atomic!Requests, Atomic!ConstantsOK



\* The steps of WalletNext, with the call each one starts made explicit.
LEMMA WalletSteps ==
  ASSUME WalletTypeOK, [WalletNext]_walletVars
  PROVE  \/ UNCHANGED walletVars
         \/ \E s \in Sessions :
              \/ \E r \in Atomic!Requests :
                   Start(s, r) /\ (r.op = "topup" => r.amount > 0)
              \/ LockRow(s)
              \/ AbortWaiting(s)
              \/ Refuse(s) \/ Update(s) \/ Overflow(s) \/ AbortHolding(s)
              \/ \E answer \in {"done", "error"} : Commit(s, answer)
<1> SUFFICES ASSUME NEW s \in Sessions,
                    StartCharge(s) \/ StartTopUp(s) \/ StartRefund(s)
             PROVE  \E r \in Atomic!Requests :
                      Start(s, r) /\ (r.op = "topup" => r.amount > 0)
  BY DEF WalletNext, Proceed
<1>0. clock \in 0..MaxClock
  BY DEF WalletTypeOK
<1>1. CASE StartCharge(s)
  <2>1. PICK u \in Users, c \in Costs :
          Start(s, [op |-> "deduct", user |-> u, amount |-> c, at |-> clock])
    BY <1>1 DEF StartCharge
  <2>2. [op |-> "deduct", user |-> u, amount |-> c, at |-> clock] \in Atomic!Requests
    BY <1>0 DEF Atomic!Requests
  <2> QED BY <2>1, <2>2
<1>2. CASE StartTopUp(s)
  <2>1. PICK u \in Users, a \in TopUps :
          /\ a > 0
          /\ Start(s, [op |-> "topup", user |-> u, amount |-> a, at |-> clock])
    BY <1>2 DEF StartTopUp
  <2>2. [op |-> "topup", user |-> u, amount |-> a, at |-> clock] \in Atomic!Requests
    BY <1>0 DEF Atomic!Requests
  <2> QED BY <2>1, <2>2
<1>3. CASE StartRefund(s)
  <2> DEFINE r == [req[s] EXCEPT !.op = "refund", !.at = clock]
  <2>1. req[s] \in Atomic!Requests /\ req[s].op = "deduct"
    BY <1>3 DEF StartRefund, WalletTypeOK
  <2>2. req[s] \in [op: {"deduct", "refund"}, user: Users, amount: Costs, at: 0..MaxClock]
    BY <2>1 DEF Atomic!Requests
  <2>3. r \in Atomic!Requests /\ r.op = "refund"
    BY <2>2, <1>0 DEF Atomic!Requests
  <2> QED BY <1>3, <2>3 DEF StartRefund
<1> QED BY <1>1, <1>2, <1>3

-----------------------------------------------------------------------------

\* What a commit does, once the invariant has told what the session holds.
LEMMA CommitEffect ==
  ASSUME WalletInv, NEW s \in Sessions, NEW answer, Commit(s, answer)
  PROVE  LET u == req[s].user
         IN  /\ req[s] \in Atomic!Requests /\ u \in Users
             /\ seen[s] = balance[u] /\ lock[u] = s
             /\ NewBalance(s) \in Atomic!Integer32
             /\ Transaction(s) \in Entry
             /\ Transaction(s).balance_after = NewBalance(s)
             /\ NewBalance(s) = balance[u] + Signed(Transaction(s))
             /\ req[s].op = "deduct" => balance[u] >= req[s].amount
             /\ balance' = [balance EXCEPT ![u] = NewBalance(s)]
             /\ ledger' = [ledger EXCEPT ![u] = Append(ledger[u], Transaction(s))]
<1>1. req[s] \in Atomic!Requests
  BY DEF WalletInv, WalletTypeOK, Commit
<1>2. /\ req[s].user \in Users /\ req[s].amount \in Int /\ req[s].at \in Nat
      /\ req[s].op \in {"deduct", "refund", "topup"}
  BY <1>1, WalletRequests
<1>3. /\ lock[req[s].user] = s /\ seen[s] = balance[req[s].user]
      /\ ~Insufficient(s) /\ Fits(s)
  BY DEF WalletInv, LockProtectsRead, Commit
<1>4. seen[s] \in Int
  BY WalletAssumption DEF WalletInv, WalletTypeOK, Atomic!Integer32, Atomic!ConstantsOK
<1>5. NewBalance(s) \in Atomic!Integer32
  BY <1>3 DEF Fits
<1>6. Transaction(s) \in Entry /\ Transaction(s).balance_after = NewBalance(s)
  BY <1>2, <1>5, SameColumn DEF Transaction, Atomic!Transaction, NewBalance, Entry
<1>7. NewBalance(s) = seen[s] + Signed(Transaction(s))
  BY <1>2, <1>4
  DEF NewBalance, Atomic!NewBalance, Transaction, Atomic!Transaction, Signed
<1>8. req[s].op = "deduct" => balance[req[s].user] >= req[s].amount
  BY <1>2, <1>3, <1>4 DEF Insufficient
<1>9. /\ balance' = [balance EXCEPT ![req[s].user] = NewBalance(s)]
      /\ ledger' = [ledger EXCEPT ![req[s].user]
                      = Append(ledger[req[s].user], Transaction(s))]
  BY DEF Commit
<1> QED BY <1>1, <1>2, <1>3, <1>5, <1>6, <1>7, <1>8, <1>9

\* Every step keeps the types.
LEMMA WalletTypePreserved == WalletInv /\ [WalletNext]_walletVars => WalletTypeOK'
<1> SUFFICES ASSUME WalletInv, [WalletNext]_walletVars PROVE WalletTypeOK'
  OBVIOUS
<1> USE DEF WalletTypeOK
<1>t. WalletTypeOK
  BY DEF WalletInv
<1>1. CASE UNCHANGED walletVars
  BY <1>1, <1>t DEF walletVars
<1>2. ASSUME NEW s \in Sessions, NEW r \in Atomic!Requests, Start(s, r)
      PROVE  WalletTypeOK'
  <2>1. clock' \in 0..MaxClock
    BY <1>2, <1>t, WalletAssumption DEF Start
  <2> QED BY <1>2, <1>t, <2>1 DEF Start
<1>3. ASSUME NEW s \in Sessions, LockRow(s) PROVE WalletTypeOK'
  <2>1. req[s].user \in Users
    BY <1>3, <1>t, WalletRequests DEF LockRow
  <2> QED BY <1>3, <1>t, <2>1 DEF LockRow
<1>4. ASSUME NEW s \in Sessions,
             AbortWaiting(s) \/ Refuse(s) \/ Update(s) \/ Overflow(s) \/ AbortHolding(s)
      PROVE  WalletTypeOK'
  BY <1>4, <1>t
  DEF AbortWaiting, Refuse, Update, Overflow, AbortHolding, Unlock
<1>5. ASSUME NEW s \in Sessions, NEW answer \in {"done", "error"}, Commit(s, answer)
      PROVE  WalletTypeOK'
  <2> DEFINE u == req[s].user
  <2>1. /\ u \in Users
        /\ NewBalance(s) \in Atomic!Integer32 /\ Transaction(s) \in Entry
        /\ balance' = [balance EXCEPT ![u] = NewBalance(s)]
        /\ ledger' = [ledger EXCEPT ![u] = Append(ledger[u], Transaction(s))]
    BY <1>5, CommitEffect
  <2>2. ledger \in [Users -> Seq(Entry)]
    BY <1>t, SameColumn DEF Entry
  <2>3. Append(ledger[u], Transaction(s)) \in Seq(Entry)
    BY <2>1, <2>2, AppendProperties
  <2>4. ledger' \in [Users -> Seq(Entry)]
    BY <2>1, <2>2, <2>3
  <2>5. balance' \in [Users -> Atomic!Integer32]
    BY <2>1, <1>t
  <2>6. /\ lock' \in [Users -> Sessions \cup {NoSession}]
        /\ pc' \in [Sessions -> Answered \cup InTransaction]
        /\ req' = req /\ clock' = clock /\ seen' = seen
        /\ \A t \in Sessions : pc'[t] # "idle" => pc[t] # "idle"
    BY <1>5, <1>t DEF Commit, Unlock
  <2> QED BY <2>4, <2>5, <2>6, <1>t, SameColumn DEF Entry
<1> QED BY <1>1, <1>2, <1>3, <1>4, <1>5, <1>t, WalletSteps

\* Every step keeps the lock discipline: only the owner of a row changes it.
LEMMA LockPreserved == WalletInv /\ [WalletNext]_walletVars => LockProtectsRead'
<1> SUFFICES ASSUME WalletInv, [WalletNext]_walletVars PROVE LockProtectsRead'
  OBVIOUS
<1>t. WalletTypeOK /\ LockProtectsRead
  BY DEF WalletInv
<1> USE DEF LockProtectsRead, Insufficient, Fits, NewBalance
<1>1. CASE UNCHANGED walletVars
  BY <1>1, <1>t DEF walletVars
<1>2. ASSUME NEW s \in Sessions, NEW r \in Atomic!Requests, Start(s, r),
             r.op = "topup" => r.amount > 0
      PROVE  LockProtectsRead'
  BY <1>2, <1>t DEF Start, WalletTypeOK
<1>3. ASSUME NEW s \in Sessions, LockRow(s) PROVE LockProtectsRead'
  <2>1. req[s].user \in Users
    BY <1>3, <1>t, WalletRequests DEF LockRow, WalletTypeOK
  <2>2. \A t \in Sessions : pc[t] \in HoldsLock => req[t].user # req[s].user
    BY <1>3, <1>t, <2>1, WalletAssumption DEF LockRow, RowFree
  <2> QED BY <1>3, <1>t, <2>1, <2>2 DEF LockRow, WalletTypeOK
<1>4. ASSUME NEW s \in Sessions, AbortWaiting(s) PROVE LockProtectsRead'
  BY <1>4, <1>t DEF AbortWaiting, WalletTypeOK
<1>5. ASSUME NEW s \in Sessions, Update(s) PROVE LockProtectsRead'
  BY <1>5, <1>t DEF Update, WalletTypeOK
<1>6. ASSUME NEW s \in Sessions, NEW answer \in Answered, pc[s] \in HoldsLock,
             Unlock(s, answer), UNCHANGED <<req, seen>>,
             \A u \in Users : u # req[s].user => balance'[u] = balance[u]
      PROVE  LockProtectsRead'
  <2>1. \A t \in Sessions :
          pc[t] # "idle" => req[t].user \in Users
    BY <1>t, WalletRequests DEF WalletTypeOK
  <2>2. \A t \in Sessions \ {s} : pc[t] \in HoldsLock => req[t].user # req[s].user
    BY <1>6, <1>t
  <2> QED BY <1>6, <1>t, <2>1, <2>2 DEF Unlock, WalletTypeOK
<1>7. ASSUME NEW s \in Sessions, Refuse(s) \/ Overflow(s) \/ AbortHolding(s)
      PROVE  LockProtectsRead'
  <2>1. PICK answer \in Answered : Unlock(s, answer)
    BY <1>7 DEF Refuse, Overflow, AbortHolding
  <2>2. /\ pc[s] \in HoldsLock /\ UNCHANGED <<balance, req, seen>>
    BY <1>7 DEF Refuse, Overflow, AbortHolding
  <2> QED BY <1>6, <2>1, <2>2
<1>8. ASSUME NEW s \in Sessions, NEW answer \in {"done", "error"}, Commit(s, answer)
      PROVE  LockProtectsRead'
  <2>1. /\ answer \in Answered /\ pc[s] \in HoldsLock
        /\ Unlock(s, answer) /\ UNCHANGED <<req, seen>>
        /\ \A u \in Users : u # req[s].user => balance'[u] = balance[u]
    BY <1>8, <1>t DEF Commit, WalletTypeOK
  <2> QED BY <1>6, <2>1
<1> QED BY <1>1, <1>2, <1>3, <1>4, <1>5, <1>7, <1>8, <1>t, WalletSteps

\* A transaction that starts from the current balance extends the chain.
LEMMA ExplainsAppend ==
  ASSUME NEW rows \in Seq(Entry), NEW t \in Entry, NEW b \in Int,
         Explains(rows, b), t.balance_after = b + Signed(t)
  PROVE  Explains(Append(rows, t), t.balance_after)
<1> DEFINE new == Append(rows, t)
<1>1. /\ Len(rows) \in Nat /\ Len(new) = Len(rows) + 1
      /\ \A i \in 1..Len(rows) : new[i] = rows[i]
      /\ new[Len(rows) + 1] = t
  BY AppendProperties, LenProperties
<1> HIDE DEF new
<1>2. \A i \in 1..Len(rows) + 1 : BalanceBefore(new, i) = BalanceBefore(rows, i)
  BY <1>1 DEF BalanceBefore
<1>3. BalanceBefore(new, Len(new) + 1) = t.balance_after
  BY <1>1 DEF BalanceBefore
<1>4. \A i \in 1..Len(rows) :
        new[i].balance_after = BalanceBefore(new, i) + Signed(new[i])
  BY <1>1, <1>2 DEF Explains
<1>5. new[Len(rows) + 1].balance_after
        = BalanceBefore(new, Len(rows) + 1) + Signed(new[Len(rows) + 1])
  BY <1>1, <1>2 DEF Explains
<1>6. \A i \in 1..Len(new) : i \in 1..Len(rows) \/ i = Len(rows) + 1
  BY <1>1
<1>7. Explains(new, t.balance_after)
  BY <1>3, <1>4, <1>5, <1>6 DEF Explains
<1> QED BY <1>7 DEF new

\* A commit extends the chain of balances; no other step touches it.
LEMMA LedgerPreserved == WalletInv /\ [WalletNext]_walletVars => LedgerReconciles'
<1> SUFFICES ASSUME WalletInv, [WalletNext]_walletVars PROVE LedgerReconciles'
  OBVIOUS
<1>t. WalletTypeOK /\ LedgerReconciles
  BY DEF WalletInv
<1>1. CASE UNCHANGED <<balance, ledger>>
  BY <1>1, <1>t DEF LedgerReconciles
<1>2. ASSUME NEW s \in Sessions, NEW answer \in {"done", "error"}, Commit(s, answer)
      PROVE  LedgerReconciles'
  <2>1. PICK u \in Users, t \in Entry :
          /\ t.balance_after = balance[u] + Signed(t)
          /\ balance' = [balance EXCEPT ![u] = t.balance_after]
          /\ ledger' = [ledger EXCEPT ![u] = Append(ledger[u], t)]
    BY <1>2, CommitEffect
  <2>2. ledger[u] \in Seq(Entry)
    BY <1>t, SameColumn DEF WalletTypeOK, Entry
  <2>3. balance[u] \in Atomic!Integer32
    BY <1>t DEF WalletTypeOK
  <2>4. balance[u] \in Int
    BY <2>3, WalletAssumption DEF Atomic!Integer32, Atomic!ConstantsOK
  <2>5. Explains(Append(ledger[u], t), t.balance_after)
    BY <2>1, <2>2, <2>4, <1>t, ExplainsAppend DEF LedgerReconciles
  <2> QED BY <2>1, <2>5, <1>t DEF LedgerReconciles, WalletTypeOK
<1> QED
  <2>1. \/ UNCHANGED <<balance, ledger>>
        \/ \E s \in Sessions, answer \in {"done", "error"} : Commit(s, answer)
    BY <1>t, WalletSteps
    DEF walletVars, Start, LockRow, AbortWaiting, Refuse, Update, Overflow, AbortHolding
  <2> QED BY <2>1, <1>1, <1>2

LEMMA WalletInductive == WalletSpec => []WalletInv
<1>1. WalletInv /\ [WalletNext]_walletVars => WalletInv'
  BY WalletTypePreserved, LockPreserved, LedgerPreserved DEF WalletInv
<1> QED BY WalletInitInv, <1>1, PTL DEF WalletSpec

-----------------------------------------------------------------------------
(* The theorems.                                                           *)

\* Every reachable state is well typed: in particular no committed balance or
\* balance_after leaves the range of its column.
THEOREM WalletTypeCorrect == WalletSpec => []WalletTypeOK
<1>1. WalletInv => WalletTypeOK
  BY DEF WalletInv
<1> QED BY WalletInductive, <1>1, PTL

\* Whatever sessions race, abort or lose the acknowledgement of a commit, the
\* wallet transactions of a user explain the balance of the user row.
THEOREM LedgerReconcilesAlways == WalletSpec => []LedgerReconciles
<1>1. WalletInv => LedgerReconciles
  BY DEF WalletInv
<1> QED BY WalletInductive, <1>1, PTL

\* With costs that are not negative no wallet goes below zero.
THEOREM NonNegativeAlways ==
  ASSUME \A c \in Costs : c >= 0
  PROVE  WalletSpec => []BalanceNonNegative
<1>1. WalletInit => BalanceNonNegative
  <2>1. InitialBalance >= 0
    BY WalletAssumption DEF Atomic!ConstantsOK
  <2> QED BY <2>1 DEF WalletInit, BalanceNonNegative
<1>2. WalletInv /\ BalanceNonNegative /\ [WalletNext]_walletVars => BalanceNonNegative'
  <2> SUFFICES ASSUME WalletInv, BalanceNonNegative, [WalletNext]_walletVars
               PROVE  BalanceNonNegative'
    OBVIOUS
  <2>1. CASE UNCHANGED balance
    BY <2>1 DEF BalanceNonNegative
  <2>2. ASSUME NEW s \in Sessions, NEW answer \in {"done", "error"},
               Commit(s, answer)
        PROVE  BalanceNonNegative'
    <3> DEFINE u == req[s].user
    <3>1. /\ req[s] \in Atomic!Requests /\ u \in Users
          /\ seen[s] = balance[u]
          /\ req[s].op = "deduct" => balance[u] >= req[s].amount
          /\ balance' = [balance EXCEPT ![u] = NewBalance(s)]
      BY <2>2, CommitEffect
    <3>2. /\ req[s].amount \in Int /\ balance[u] \in Int /\ balance[u] >= 0
          /\ req[s].op \in {"deduct", "refund", "topup"}
      BY <3>1, WalletRequests, WalletAssumption
      DEF WalletInv, WalletTypeOK, BalanceNonNegative, Atomic!Integer32, Atomic!ConstantsOK
    <3>3. req[s].op # "deduct" => req[s].amount >= 0
      <4>1. req[s].op = "topup" => req[s].amount > 0
        BY <2>2 DEF WalletInv, LockProtectsRead, Commit
      <4>2. req[s].op = "refund" => req[s].amount \in Costs
        BY <3>1 DEF Atomic!Requests
      <4> QED BY <3>2, <4>1, <4>2
    <3>4. NewBalance(s) >= 0
      BY <3>1, <3>2, <3>3 DEF NewBalance, Atomic!NewBalance
    <3>5. balance \in [Users -> Atomic!Integer32]
      BY DEF WalletInv, WalletTypeOK
    <3> QED BY <3>1, <3>4, <3>5 DEF BalanceNonNegative
  <2> QED
    <3>1. \/ UNCHANGED balance
          \/ \E s \in Sessions, answer \in {"done", "error"} : Commit(s, answer)
      BY WalletSteps
      DEF WalletInv, walletVars, Start, LockRow, AbortWaiting, Refuse, Update, Overflow,
          AbortHolding
    <3> QED BY <3>1, <2>1, <2>2
<1> QED BY <1>1, <1>2, WalletInductive, PTL DEF WalletSpec

\* The three calls, each several steps of a SQL transaction, are atomic: the
\* wallet implements WalletLedger.  A call takes effect at its commit, a
\* refusal at the check under the lock, an abort when it is rolled back.
THEOREM WalletImplementsLedger == WalletSpec => ImplementsLedger
<1> DEFINE known == [s \in Sessions |-> IF pc[s] \in InTransaction
                                        THEN "pending" ELSE pc[s]]
<1>1. WalletInit => Atomic!Init
  BY DEF WalletInit, Atomic!Init
<1>2. WalletInv /\ [WalletNext]_walletVars => [Atomic!Next]_(Atomic!vars)
  <2> SUFFICES ASSUME WalletInv, [WalletNext]_walletVars
               PROVE  Atomic!Next \/ UNCHANGED <<balance, ledger, req, known>>
    BY DEF Atomic!vars
  <2>t. WalletTypeOK
    BY DEF WalletInv
  <2>1. CASE UNCHANGED walletVars
    BY <2>1 DEF walletVars
  <2>2. ASSUME NEW s \in Sessions, NEW r \in Atomic!Requests, Start(s, r)
        PROVE  Atomic!Request(s, r)
    BY <2>2, <2>t DEF Start, WalletTypeOK, Atomic!Request
  <2>3. ASSUME NEW s \in Sessions, LockRow(s) \/ Update(s)
        PROVE  UNCHANGED <<balance, ledger, req, known>>
    BY <2>3, <2>t DEF LockRow, Update, WalletTypeOK
  <2>4. ASSUME NEW s \in Sessions,
               AbortWaiting(s) \/ Overflow(s) \/ AbortHolding(s)
        PROVE  Atomic!Fail(s)
    BY <2>4, <2>t
    DEF AbortWaiting, Overflow, AbortHolding, Unlock, WalletTypeOK, Atomic!Fail
  <2>5. ASSUME NEW s \in Sessions, Refuse(s) PROVE Atomic!Refuse(s)
    <3>1. req[s].op = "deduct" /\ balance[req[s].user] < req[s].amount
      BY <2>5 DEF WalletInv, LockProtectsRead, Refuse, Insufficient
    <3> QED BY <2>5, <2>t, <3>1 DEF Refuse, Unlock, WalletTypeOK, Atomic!Refuse
  <2>6. ASSUME NEW s \in Sessions, NEW answer \in {"done", "error"},
               Commit(s, answer)
        PROVE  Atomic!Apply(s, answer)
    <3>1. /\ seen[s] = balance[req[s].user]
          /\ NewBalance(s) \in Atomic!Integer32
          /\ req[s].op = "deduct" => balance[req[s].user] >= req[s].amount
          /\ balance' = [balance EXCEPT ![req[s].user] = NewBalance(s)]
          /\ ledger' = [ledger EXCEPT ![req[s].user]
                          = Append(ledger[req[s].user], Transaction(s))]
      BY <2>6, CommitEffect
    <3>2. pc[s] = "updated" /\ req' = req /\ pc' = [pc EXCEPT ![s] = answer]
      BY <2>6 DEF Commit, Unlock
    <3>3. known[s] = "pending" /\ known' = [known EXCEPT ![s] = answer]
      BY <3>2, <2>t DEF WalletTypeOK
    <3> QED BY <3>1, <3>2, <3>3
            DEF Atomic!Apply, NewBalance, Transaction
  <2> QED BY <2>1, <2>2, <2>3, <2>4, <2>5, <2>6, <2>t, WalletSteps DEF Atomic!Next
<1> QED BY <1>1, <1>2, WalletInductive, PTL DEF WalletSpec, ImplementsLedger, Atomic!Spec
=============================================================================
