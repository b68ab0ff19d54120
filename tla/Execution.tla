----------------------------- MODULE Execution -----------------------------
(***************************************************************************)
(* Paid execution of a capability: execute_capability (services/platform/  *)
(* app/services/capabilities_service.py) with its two entry points, HTTP   *)
(* (api/execute.py) and MCP (mcp_server.py), and the tool registry.        *)
(*                                                                         *)
(* A call reads the tool row, charges the wallet, finds an executor,       *)
(* awaits it, and writes a log; each of these is a transaction or an await *)
(* of its own, so other calls, top-ups and republications of the tool come *)
(* between them, and a database error, a lost commit acknowledgement, a    *)
(* cancellation or a crash may cut the call short anywhere.  The wallet is *)
(* used through WalletLedger, which module Wallet implements.              *)
(***************************************************************************)
EXTENDS Accounts, Integers, Sequences, FiniteSets

CONSTANTS
  Calls, Tools,
  BuiltIn,       \* tools whose modules load_all imports
  Artifacts,     \* other tools whose generated module can be loaded
  Configured,    \* tools whose provider credentials are present
  NoTool,        \* the tool of a call that has not arrived
  FaultKinds,    \* which faults occur: "database", "lost_ack", "cancel", "crash"
  MaxFaults,     \* bound: faults in a behaviour
  MaxEdits       \* bound: top-ups and republications in a behaviour

VARIABLES
  status,     \* of a call's wallet request
  catalog,    \* tool_definitions: status and cost_per_call of each tool
  registry,   \* _registry: tools with an executor in this process
  jobs,       \* integration jobs queued for each missing tool
  call,       \* the state of each call
  faults, edits

wallet == <<balance, ledger, req, status>>
bounds == <<faults, edits>>
vars == <<wallet, catalog, registry, jobs, call, bounds>>

Ledger == INSTANCE WalletLedger WITH Sessions <- Calls, Times <- {0}

ASSUME ExecutionAssumption ==
  /\ Ledger!ConstantsOK
  /\ BuiltIn \subseteq Tools /\ Artifacts \subseteq Tools
  /\ NoTool \notin Tools
  /\ MaxFaults \in Nat /\ MaxEdits \in Nat

ToolStatus == {"live", "pending_credentials"}
Answers == {"ok", "TOOL_NOT_FOUND", "INSUFFICIENT_FUNDS", "EXECUTION_ERROR",
            "not_in_catalog", "exception", "none"}
Points == {"idle", "preflight", "authenticate", "lookup", "missing", "charging",
           "charged", "executing", "executed", "refunding", "refunding_missing",
           "refunded", "ended"}

\* A tool_call_logs row, as far as billing is concerned.
LogRow == [result_status: {"success", "error"}, credits_deducted: Int]

FreeRow(cost) == [result_status |-> "success", credits_deducted |-> 0]
SuccessRow(cost) == [result_status |-> "success", credits_deducted |-> cost]
ErrorRow == [result_status |-> "error", credits_deducted |-> 0]

NewCall ==
  [pc |-> "idle", tool |-> NoTool, cost |-> 0, returned |-> FALSE,
   effect |-> FALSE, debit |-> 0, credit |-> 0, logs |-> {}, answer |-> "none"]

Init ==
  /\ Ledger!Init
  /\ catalog \in [Tools -> [status: ToolStatus, cost: Costs]]
  /\ registry = BuiltIn
  /\ jobs = [t \in Tools |-> 0]
  /\ call = [c \in Calls |-> NewCall]
  /\ faults = 0 /\ edits = 0

-----------------------------------------------------------------------------
(* Vocabulary of the steps.  FreeRow, RefundAtCurrentCost, AnswerOnly,     *)
(* DeductUnchecked, NoRefundWhenMissing and LogErrorLost are seeded faults *)
(* that stand in for the definition below them.                            *)

At(c, point) == call[c].pc = point
GoTo(c, point) == call' = [call EXCEPT ![c].pc = point]
Answer(c, a) == call' = [call EXCEPT ![c].pc = "ended", ![c].answer = a]

Fault(kind) ==
  /\ kind \in FaultKinds
  /\ faults < MaxFaults
  /\ faults' = faults + 1
  /\ UNCHANGED edits

Live(t) == catalog[t].status = "live"

\* The wallet transaction a call asks for: the cost it read, either way.
Charge(u, cost) == [op |-> "deduct", user |-> u, amount |-> cost, at |-> 0]
RefundAtCurrentCost(c) ==
  [req[c] EXCEPT !.op = "refund", !.amount = catalog[call[c].tool].cost]
Refund(c) == [req[c] EXCEPT !.op = "refund"]

-----------------------------------------------------------------------------
(* Entry points.                                                           *)

\* POST /api/execute/{tool_name} looks the tool up before anything else; MCP
\* tools/call resolves the user first.
Arrive(c) ==
  /\ At(c, "idle")
  /\ \E t \in Tools, first \in {"preflight", "authenticate"} :
       call' = [call EXCEPT ![c].pc = first, ![c].tool = t]
  /\ UNCHANGED <<wallet, catalog, registry, jobs, bounds>>

Preflight(c) ==
  /\ At(c, "preflight")
  /\ IF Live(call[c].tool) THEN GoTo(c, "authenticate")
                           ELSE Answer(c, "not_in_catalog")
  /\ UNCHANGED <<wallet, catalog, registry, jobs, bounds>>

\* get_user_id_for_token raises for a token that is no user's.
Authenticate(c) ==
  /\ At(c, "authenticate")
  /\ GoTo(c, "lookup") \/ Answer(c, "exception")
  /\ UNCHANGED <<wallet, catalog, registry, jobs, bounds>>

-----------------------------------------------------------------------------
(* execute_capability.                                                     *)

\* get_tool_definition: the row read here fixes the cost of the whole call.
Lookup(c) ==
  LET t == call[c].tool
  IN  /\ At(c, "lookup")
      /\ \/ /\ Live(t)
            /\ call' = [call EXCEPT ![c].pc = "charging",
                                    ![c].cost = catalog[t].cost]
            /\ \E u \in Users : Ledger!Request(c, Charge(u, catalog[t].cost))
         \/ ~Live(t) /\ GoTo(c, "missing") /\ UNCHANGED wallet
      /\ UNCHANGED <<catalog, registry, jobs, bounds>>

AnswerOnly(c) ==
  /\ At(c, "missing")
  /\ Answer(c, "TOOL_NOT_FOUND")
  /\ UNCHANGED <<wallet, catalog, registry, jobs, bounds>>

QueueJob(c) ==
  /\ At(c, "missing")
  /\ jobs' = [jobs EXCEPT ![call[c].tool] = @ + 1]
  /\ Answer(c, "TOOL_NOT_FOUND")
  /\ UNCHANGED <<wallet, catalog, registry, bounds>>

\* check_and_deduct.
DeductUnchecked(c) ==
  /\ At(c, "charging")
  /\ \/ /\ Ledger!Apply(c, "done")
        /\ call' = [call EXCEPT ![c].pc = "charged", ![c].debit = call[c].cost]
     \/ Ledger!Refuse(c) /\ GoTo(c, "charged")
  /\ UNCHANGED <<catalog, registry, jobs, bounds>>

Deduct(c) ==
  /\ At(c, "charging")
  /\ \/ /\ Ledger!Apply(c, "done")
        /\ call' = [call EXCEPT ![c].pc = "charged", ![c].debit = call[c].cost]
     \/ Ledger!Refuse(c) /\ Answer(c, "INSUFFICIENT_FUNDS")
  /\ UNCHANGED <<catalog, registry, jobs, bounds>>

NoRefundWhenMissing(c) ==
  LET t == call[c].tool
  IN  /\ At(c, "charged")
      /\ IF t \in registry \cup Artifacts THEN GoTo(c, "executing")
                                          ELSE Answer(c, "EXECUTION_ERROR")
      /\ registry' = registry \cup ({t} \cap Artifacts)
      /\ UNCHANGED <<wallet, catalog, jobs, bounds>>

\* get_executor, then load_dynamic, which caches what it loads.
FindExecutor(c) ==
  LET t == call[c].tool
  IN  /\ At(c, "charged")
      /\ IF t \in registry \cup Artifacts
         THEN GoTo(c, "executing") /\ registry' = registry \cup {t} /\ UNCHANGED wallet
         ELSE /\ GoTo(c, "refunding_missing")
              /\ Ledger!Request(c, Refund(c))
              /\ UNCHANGED registry
      /\ UNCHANGED <<catalog, jobs, bounds>>

\* await executor(**arguments).  Without credentials the tools return a text
\* that starts with ERROR:, which is a result like any other; an exception may
\* come before or after the provider acted (a timeout on its answer).
Execute(c) ==
  /\ At(c, "executing")
  /\ \/ /\ call' = [call EXCEPT ![c].pc = "executed", ![c].returned = TRUE,
                                ![c].effect = call[c].tool \in Configured]
        /\ UNCHANGED wallet
     \/ /\ \E acted \in {FALSE, call[c].tool \in Configured} :
             call' = [call EXCEPT ![c].pc = "refunding", ![c].effect = acted]
        /\ Ledger!Request(c, Refund(c))
  /\ UNCHANGED <<catalog, registry, jobs, bounds>>

LogSuccess(c) ==
  /\ At(c, "executed")
  /\ call' = [call EXCEPT ![c].pc = "ended", ![c].answer = "ok",
                ![c].logs = @ \cup {SuccessRow(call[c].cost)}]
  /\ UNCHANGED <<wallet, catalog, registry, jobs, bounds>>

\* refund, in the handler of a failed execution or when nothing implements the
\* tool; the latter answers without writing a log.
RefundCall(c) ==
  /\ At(c, "refunding") \/ At(c, "refunding_missing")
  /\ Ledger!Apply(c, "done")
  /\ call' = [call EXCEPT
       ![c].pc = IF At(c, "refunding") THEN "refunded" ELSE "ended",
       ![c].answer = IF At(c, "refunding") THEN "none" ELSE "EXECUTION_ERROR",
       ![c].credit = @ + req[c].amount]
  /\ UNCHANGED <<catalog, registry, jobs, bounds>>

LogErrorLost(c) == FALSE
LogError(c) ==
  /\ At(c, "refunded")
  /\ call' = [call EXCEPT ![c].pc = "ended", ![c].answer = "EXECUTION_ERROR",
                ![c].logs = @ \cup {ErrorRow}]
  /\ UNCHANGED <<wallet, catalog, registry, jobs, bounds>>

\* A balance that does not fit its column cannot be written: refund raises.
WalletOverflow(c) ==
  /\ At(c, "charging") \/ At(c, "refunding") \/ At(c, "refunding_missing")
  /\ Ledger!NewBalance(req[c], balance[req[c].user]) \notin Ledger!Integer32
  /\ req[c].op = "deduct" => balance[req[c].user] >= req[c].amount
  /\ Ledger!Fail(c)
  /\ Answer(c, "exception")
  /\ UNCHANGED <<catalog, registry, jobs, bounds>>

-----------------------------------------------------------------------------
(* Faults.                                                                 *)

WalletPoints == {"charging", "refunding", "refunding_missing"}

\* A statement or commit fails and its session rolls back.  Only a failure to
\* write the success log lies inside the try block: it is handled as if the
\* tool had failed.
DatabaseError(c) ==
  /\ call[c].pc \in {"preflight", "authenticate", "lookup", "missing", "executed",
                     "refunded"} \cup WalletPoints
  /\ Fault("database")
  /\ IF At(c, "executed") THEN GoTo(c, "refunding") /\ Ledger!Request(c, Refund(c))
     ELSE /\ Answer(c, "exception")
          /\ IF call[c].pc \in WalletPoints THEN Ledger!Fail(c) ELSE UNCHANGED wallet
  /\ UNCHANGED <<catalog, registry, jobs>>

\* A commit is applied and its acknowledgement lost: the code sees an exception.
LostWalletAck(c) ==
  /\ call[c].pc \in WalletPoints
  /\ Fault("lost_ack")
  /\ Ledger!Apply(c, "error")
  /\ call' = [call EXCEPT
       ![c].pc = "ended", ![c].answer = "exception",
       ![c].debit = IF At(c, "charging") THEN call[c].cost ELSE @,
       ![c].credit = IF At(c, "charging") THEN @ ELSE @ + req[c].amount]
  /\ UNCHANGED <<catalog, registry, jobs>>

LostLogAck(c) ==
  /\ Fault("lost_ack")
  /\ \/ /\ At(c, "executed")
        /\ call' = [call EXCEPT ![c].pc = "refunding",
                      ![c].logs = @ \cup {SuccessRow(call[c].cost)}]
        /\ Ledger!Request(c, Refund(c))
     \/ /\ At(c, "refunded")
        /\ call' = [call EXCEPT ![c].pc = "ended", ![c].answer = "exception",
                      ![c].logs = @ \cup {ErrorRow}]
        /\ UNCHANGED wallet
  /\ UNCHANGED <<catalog, registry, jobs>>

\* Likewise the commit of an integration job, or the refresh of its row after it.
LostJobAck(c) ==
  /\ At(c, "missing")
  /\ Fault("lost_ack")
  /\ jobs' = [jobs EXCEPT ![call[c].tool] = @ + 1]
  /\ Answer(c, "exception")
  /\ UNCHANGED <<wallet, catalog, registry>>

\* The task of a call is cancelled at an await: CancelledError is no Exception,
\* so no handler runs.  An executor may be cancelled after the provider acted.
Cancel(c) ==
  /\ call[c].pc \notin {"idle", "ended"}
  /\ Fault("cancel")
  /\ \E acted \in {call[c].effect, At(c, "executing") /\ call[c].tool \in Configured} :
       call' = [call EXCEPT ![c].pc = "ended", ![c].effect = acted \/ @]
  /\ IF call[c].pc \in WalletPoints THEN Ledger!Fail(c) ELSE UNCHANGED wallet
  /\ UNCHANGED <<catalog, registry, jobs>>

\* The process dies and restarts: its calls are gone, its open transactions
\* rolled back, and load_all fills the registry again.
Crash ==
  /\ Fault("crash")
  /\ call' = [c \in Calls |-> IF At(c, "idle") THEN call[c]
                              ELSE [call[c] EXCEPT !.pc = "ended"]]
  /\ status' = [c \in Calls |-> IF status[c] = "pending" THEN "error" ELSE status[c]]
  /\ registry' = BuiltIn
  /\ UNCHANGED <<balance, ledger, req, catalog, jobs>>

-----------------------------------------------------------------------------
(* The rest of the system.                                                 *)

Edit == edits < MaxEdits /\ edits' = edits + 1 /\ UNCHANGED faults

TopUp ==
  /\ Edit
  /\ \E u \in Users, a \in TopUps :
       LET r == [op |-> "topup", user |-> u, amount |-> a, at |-> 0]
       IN  /\ a > 0
           /\ Ledger!NewBalance(r, balance[u]) \in Ledger!Integer32
           /\ balance' = [balance EXCEPT ![u] = Ledger!NewBalance(r, @)]
           /\ ledger' = [ledger EXCEPT ![u] = Append(@, Ledger!Transaction(r, balance[u]))]
  /\ UNCHANGED <<req, status, catalog, registry, jobs, call>>

\* The integrator publishes the tool again, or credentials make it live.
Republish ==
  /\ Edit
  /\ \E t \in Tools, s \in ToolStatus, cost \in Costs :
       catalog' = [catalog EXCEPT ![t] = [status |-> s, cost |-> cost]]
  /\ UNCHANGED <<wallet, registry, jobs, call>>

Step(c) ==
  \/ Preflight(c) \/ Authenticate(c)
  \/ Lookup(c) \/ QueueJob(c) \/ Deduct(c) \/ FindExecutor(c) \/ Execute(c)
  \/ LogSuccess(c) \/ RefundCall(c) \/ LogError(c) \/ WalletOverflow(c)

Next ==
  \/ \E c \in Calls : \/ Arrive(c)
                      \/ Step(c)
                      \/ DatabaseError(c) \/ LostWalletAck(c) \/ LostLogAck(c)
                      \/ LostJobAck(c) \/ Cancel(c)
  \/ Crash
  \/ TopUp
  \/ Republish

Spec == Init /\ [][Next]_vars

\* The event loop resumes every call whose await has finished, the database answers,
\* and the built-in tools bound their provider calls by HTTP timeouts; nothing makes
\* a generated module return.
Unbounded(c) == At(c, "executing") /\ call[c].tool \notin BuiltIn
FairSpec == Spec /\ \A c \in Calls : WF_vars(Step(c) /\ ~Unbounded(c))

-----------------------------------------------------------------------------
(* Properties.                                                             *)

CallType ==
  [pc: Points, tool: Tools \cup {NoTool}, cost: Costs \cup {0}, returned: BOOLEAN,
   effect: BOOLEAN, debit: Int, credit: Int, logs: SUBSET LogRow, answer: Answers]

\* Every variable holds a value of its kind.
TypeOK ==
  /\ balance \in [Users -> Ledger!Integer32]
  /\ ledger \in [Users -> Seq([type: {"debit", "credit"}, amount: Int,
                               balance_after: Ledger!Integer32, created_at: Nat])]
  /\ req \in [Calls -> Ledger!Requests \cup {Ledger!NoCall}]
  /\ status \in [Calls -> {"idle", "pending", "done", "refused", "error"}]
  /\ catalog \in [Tools -> [status: ToolStatus, cost: Costs]]
  /\ registry \in SUBSET Tools
  /\ jobs \in [Tools -> Nat]
  /\ call \in [Calls -> CallType]
  /\ faults \in Nat /\ edits \in Nat

Net(c) == call[c].debit - call[c].credit
Ended(c) == At(c, "ended")

\* What each answer says about the credits and the log of its call.
AnswerTells(k) ==
  CASE k.answer = "ok" ->
         k.debit = k.cost /\ k.credit = 0 /\ k.logs = {SuccessRow(k.cost)}
    [] k.answer = "EXECUTION_ERROR" -> k.credit = k.debit
    [] k.answer \in {"TOOL_NOT_FOUND", "INSUFFICIENT_FUNDS", "not_in_catalog"} ->
         k.debit = 0 /\ k.credit = 0 /\ k.logs = {}
    [] OTHER -> TRUE

\* The answer tells what was paid, whatever faults and edits came between:
\* success costs the price read at lookup and is logged at that price, a
\* reported failure costs nothing, a refusal or a miss moved no credits.
AnswerTellsCharge == \A c \in Calls : Ended(c) => AnswerTells(call[c])

\* A call is refunded at most once and exactly what it was charged, even when
\* the tool is republished at another price while the call runs.
RefundMatchesCharge ==
  \A c \in Calls : call[c].credit \in {0, call[c].debit}

\* A provider is only called for a call that is paid for at that moment.
NoFreeExecution ==
  [][\A c \in Calls : call'[c].effect /\ ~call[c].effect =>
       call[c].debit = call[c].cost /\ call[c].credit = 0]_vars

\* A miss answered TOOL_NOT_FOUND has queued a job of its own.
MissQueuesJob ==
  \A t \in Tools :
    jobs[t] >= Cardinality({c \in Calls : call[c].tool = t /\ Ended(c)
                                          /\ call[c].answer = "TOOL_NOT_FOUND"})

\* As long as no fault comes between the commits of a call, the logs of a call that
\* answers add up to what the wallet lost, whatever races with it: charge, log and
\* refund are three commits.
LoggedCredits(c) == IF \E r \in call[c].logs : r.credits_deducted # 0
                    THEN call[c].cost ELSE 0
LogsReconcile ==
  faults = 0 =>
    \A c \in Calls : Ended(c) /\ call[c].answer # "exception" =>
      LoggedCredits(c) = Net(c)

\* Every call that arrived ends, whatever faults it meets on the way, unless it is for
\* ever in a generated module: each exit of execute_capability leads to an answer or an
\* exception.
EveryCallEnds == \A c \in Calls : ~At(c, "idle") ~> Ended(c) \/ Unbounded(c)

\* The inductive strengthening: what a call has paid, logged and asked of the
\* wallet at each point of execute_capability.
Sound(k, r) ==
  /\ k.pc \in {"idle", "preflight", "authenticate", "lookup", "missing", "charging"}
       => k.debit = 0 /\ k.credit = 0 /\ k.logs = {}
  /\ k.pc \in {"charged", "executing", "executed", "refunding", "refunding_missing"}
       => k.debit = k.cost /\ k.credit = 0
  /\ k.pc \in {"charged", "executing", "executed"} => k.logs = {}
  /\ k.pc = "refunded" => k.credit = k.debit
  /\ k.pc \in {"charging", "charged", "executing", "executed"}
       => r \in Ledger!Requests /\ r.op = "deduct" /\ r.amount = k.cost
  /\ k.pc \in {"refunding", "refunding_missing"}
       => r \in Ledger!Requests /\ r.op = "refund" /\ r.amount = k.cost
  /\ k.pc # "ended" => k.answer = "none"
  /\ k.pc \notin {"idle", "ended"} => k.tool # NoTool

CallsSound == \A c \in Calls : Sound(call[c], req[c])
=============================================================================
