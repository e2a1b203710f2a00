---------------------------- MODULE TaskLifecycle ----------------------------
(***************************************************************************)
(* One billed generation task: its row in "tasks", its billing orders, the *)
(* Worker goroutines of several Backend processes that execute it, and the *)
(* HTTP handlers that cancel, retry and resolve it.                        *)
(*                                                                         *)
(* Every action is one database transaction (or one provider HTTP round    *)
(* trip) of backend/internal; the goroutine's position between two of them *)
(* is its "pc".  A billing order is named by the attempt that reserved it: *)
(* attempt 1 is the creation of the task, every confirmed retry the next.  *)
(*                                                                         *)
(* An operator named X_Word just before X is X with a plausible mistake;   *)
(* it is no part of the specification and records what a property of the   *)
(* module would notice.                                                    *)
(***************************************************************************)
EXTENDS Naturals, FiniteSets

CONSTANTS
  Proc,         \* Backend processes; each holds one workerID for its lifetime
  NoProc,       \* the empty lease_owner
  MaxAttempt,   \* bound: attempts (billing orders) of the task
  MaxClaim,     \* bound: successful ClaimNextTask calls
  MaxAge,       \* age at which started_at + execution timeout has passed; a
                \*   deferred poll takes one unit, the clock may take the rest
  MaxCancel,    \* bound: CancelTask requests
  MaxCrash,     \* bound: process crashes
  MaxResolve,   \* bound: manual resolutions by an administrator
  Pollable,     \* TRUE: asynchronous video task with a provider task id
  Queued,       \* TRUE: the provider account is queued (RunningHub capacity)
  Faults        \* the faults that may happen, a subset of Fault

\* "local": a local statement fails.  "panic": a goroutine panics.
\* "lapse": the lease of a live worker expires.
\* "sameOwner": a process claims the task again while an earlier goroutine of
\*   its own is still inside processClaimedTask (both carry its workerID).
\* "crashInLog": a crash splits LogAPICall.
\* "billing": the SELECT of MarkBillingRunning fails for an order that is
\*   already running.
\* "overlap": the user retries while a CancelTask request is in progress.
Fault == {"local", "panic", "lapse", "sameOwner", "crashInLog", "billing", "overlap"}

ASSUME ProcAssumption == NoProc \notin Proc
ASSUME BoundAssumption ==
  /\ MaxAttempt \in Nat \ {0} /\ MaxClaim \in Nat \ {0} /\ MaxAge \in Nat
  /\ MaxCancel \in Nat /\ MaxCrash \in Nat /\ MaxResolve \in Nat
ASSUME SwitchAssumption ==
  /\ Pollable \in BOOLEAN /\ Queued \in BOOLEAN /\ (Queued => Pollable)
  /\ Faults \subseteq Fault

VARIABLES
  task,      \* the row of "tasks"
  order,     \* billing_orders.status by attempt
  orderReq,  \* billing_orders.provider_request_id is recorded
  billable,  \* api_call_logs holds a billable successful call of the task
  run,       \* the goroutine of every claim
  claims,    \* number of claims so far
  active,    \* activeCancels[task.ID] of every process
  up,        \* the processes that have not crashed
  cancel,    \* the CancelTask request in progress
  retry,     \* the process whose RetryTask has passed its checks
  used       \* bound counters: cancels, crashes; the attempts an administrator
             \*   resolved; and, a history variable, those whose running order
             \*   a Worker took for a failure of its own (MarkBillingRunning)

vars == <<task, order, orderReq, billable, run, claims, active, up, cancel,
          retry, used>>

Attempt == 1..MaxAttempt
Claim == 1..MaxClaim

Status == {"queued", "running", "succeeded", "failed", "cancelled"}
Terminal == {"succeeded", "failed", "cancelled"}
CallState == {"pending", "preflight", "dispatched"}
NotStarted == {"pending", "preflight"}    \* providerDispatchDefinitelyNotStarted
OrderStatus == {"none", "reserved", "running", "uncertain", "settled", "refunded"}
Open == {"reserved", "running", "uncertain"}

Row == [status: Status, order: Attempt, call: CallState, req: 0..MaxAttempt,
        ckpt: BOOLEAN, owner: Proc \cup {NoProc}, lease: BOOLEAN,
        due: BOOLEAN, age: 0..MaxAge]

Pc == {"none", "claimed", "decide", "capacity", "capacityFailed", "prepare",
       "bill", "mark", "dispatch", "send", "logOrder", "logTask", "poll",
       "refresh", "defer", "persist", "salvage", "reread", "checkpoint", "complete",
       "settle", "judge", "save", "conflict", "saveAlways", "panicked",
       "billing", "done"}
Outcome == {"none", "notSent", "refused", "ambiguous", "pending", "success", "local"}
Plan == {"none", "refund", "uncertain"}
CancelPc == {"idle", "queued", "soft", "hard", "cancelled", "reread", "refund", "review"}
Sent == {"no", "refused", "broken", "maybe", "accepted"}

Goroutine == [pc: Pc, proc: Proc \cup {NoProc}, order: Attempt,
              recovered: BOOLEAN, call: CallState, req: 0..MaxAttempt,
              ckpt: BOOLEAN, registered: BOOLEAN, signalled: BOOLEAN,
              outcome: Outcome,
              end: {"failed", "cancelled"}, plan: Plan, sent: Sent]

TypeOK ==
  /\ task \in Row
  /\ order \in [Attempt -> OrderStatus]
  /\ orderReq \in [Attempt -> BOOLEAN]
  /\ billable \in BOOLEAN
  /\ run \in [Claim -> Goroutine]
  /\ claims \in 0..MaxClaim
  /\ active \in [Proc -> 0..MaxClaim]
  /\ up \in SUBSET Proc
  /\ cancel \in [pc: CancelPc, proc: Proc \cup {NoProc}, order: Attempt]
  /\ retry \in Proc \cup {NoProc}
  /\ used \in [cancels: 0..MaxCancel, crashes: 0..MaxCrash,
               resolved: SUBSET Attempt, clashed: SUBSET Attempt]

(***************************************************************************)
(* Rows, goroutines and the transitions of a billing order.                *)
(***************************************************************************)

NoRun == [pc |-> "none", proc |-> NoProc, order |-> 1, recovered |-> FALSE,
          call |-> "pending", req |-> 0, ckpt |-> FALSE, registered |-> FALSE,
          signalled |-> FALSE, outcome |-> "none", end |-> "failed",
          plan |-> "none", sent |-> "no"]

\* What remains of a goroutine that has returned: what it sent, for which order.
Finished(r) == [NoRun EXCEPT !.pc = "done", !.order = r.order, !.sent = r.sent]

Live(c) == run[c].pc \notin {"none", "done"}

\* WHERE id = ? AND status = 'running' AND lease_owner = ?
Held_OwnerIgnored(c) == task.status = "running"
Held_StatusIgnored(c) == task.owner \in {run[c].proc, NoProc}
Held(c) == task.status = "running" /\ task.owner = run[c].proc
\* ... AND lease_expires_at > now
HeldFresh(c) == Held(c) /\ task.lease

Goto(c, pc) == run' = [run EXCEPT ![c].pc = pc]

\* unregisterActiveTask deletes the entry of the task whoever registered it.
Unregister(c) ==
  active' = IF run[c].registered THEN [active EXCEPT ![run[c].proc] = 0] ELSE active
Return(c) == run' = [run EXCEPT ![c] = Finished(run[c])] /\ Unregister(c)

\* tx.Save(task): the whole in-memory row replaces the stored one.
SavedRow(c, status) ==
  [task EXCEPT !.status = status, !.order = run[c].order, !.call = run[c].call,
               !.req = run[c].req, !.ckpt = run[c].ckpt /\ status # "succeeded",
               !.owner = NoProc, !.lease = FALSE, !.due = TRUE]

CancelledRow == [task EXCEPT !.status = "cancelled", !.owner = NoProc,
                             !.lease = FALSE, !.due = TRUE]

DeferredRow == [task EXCEPT !.owner = NoProc, !.lease = FALSE, !.due = FALSE]

\* The deadline of the execution context: started_at plus the timeout.
Late_OffByOne == task.age > MaxAge
Late == task.age = MaxAge

OrderAfter(a, from, to) ==
  [order EXCEPT ![a] = IF order[a] \in from THEN to ELSE order[a]]
MarkUncertain(a) == order' = OrderAfter(a, {"reserved", "running"}, "uncertain")
RefundFromExecution(a) == order' = OrderAfter(a, {"reserved", "running"}, "refunded")
SettleFromExecution(a) == order' = OrderAfter(a, {"reserved", "running"}, "settled")

(***************************************************************************)
(* Claiming the task, its lease and its processes.                         *)
(***************************************************************************)

Init ==
  /\ task = [status |-> "queued", order |-> 1, call |-> "pending", req |-> 0,
             ckpt |-> FALSE, owner |-> NoProc, lease |-> FALSE, due |-> TRUE,
             age |-> 0]
  /\ order = [a \in Attempt |-> IF a = 1 THEN "reserved" ELSE "none"]
  /\ orderReq = [a \in Attempt |-> FALSE]
  /\ billable = FALSE
  /\ run = [c \in Claim |-> NoRun]
  /\ claims = 0
  /\ active = [p \in Proc |-> 0]
  /\ up = Proc
  /\ cancel = [pc |-> "idle", proc |-> NoProc, order |-> 1]
  /\ retry = NoProc
  /\ used = [cancels |-> 0, crashes |-> 0, resolved |-> {}, clashed |-> {}]

handlers == <<cancel, retry, used>>
ledger == <<order, orderReq, billable>>
system == <<claims, up>>

Claimable_OnlyQueued == task.status = "queued"
Claimable ==
  \/ task.status = "queued"
  \/ task.status = "running" /\ ~task.lease /\ task.due

ClaimedCall_AlwaysReset == "pending"
ClaimedCall == IF task.status = "queued" THEN "pending" ELSE task.call

ClaimNextTask(p) ==
  /\ p \in up
  /\ claims < MaxClaim
  /\ "sameOwner" \in Faults \/ \A c \in Claim : Live(c) => run[c].proc # p
  /\ Claimable
  /\ task' = [task EXCEPT !.status = "running", !.call = ClaimedCall,
                          !.owner = p, !.lease = TRUE]
  /\ run' = [run EXCEPT ![claims + 1] =
       [NoRun EXCEPT !.pc = "claimed", !.proc = p, !.order = task.order,
                     !.recovered = task.status = "running", !.call = ClaimedCall,
                     !.req = task.req, !.ckpt = task.ckpt]]
  /\ claims' = claims + 1
  /\ UNCHANGED <<ledger, active, up, handlers>>

\* The 45 s lease runs out: always possible once nobody renews it, and for a
\* live worker when its 15 s renewal falls behind.
LeaseExpires ==
  /\ task.status = "running" /\ task.lease
  /\ "lapse" \in Faults \/ \A c \in Claim : Live(c) => ~Held(c)
  /\ task' = [task EXCEPT !.lease = FALSE]
  /\ UNCHANGED <<ledger, run, active, system, handlers>>

\* The renewal matches the owner only, so it also revives an expired lease.
RenewTaskLease(c) ==
  /\ Live(c) /\ run[c].registered /\ Held(c) /\ ~task.lease
  /\ task' = [task EXCEPT !.lease = TRUE]
  /\ UNCHANGED <<ledger, run, active, system, handlers>>

\* The execution timeout passes.
Timeout ==
  /\ task.status = "running" /\ ~Late
  /\ task' = [task EXCEPT !.age = MaxAge]
  /\ UNCHANGED <<ledger, run, active, system, handlers>>

PollDue ==
  /\ ~task.due
  /\ task' = [task EXCEPT !.due = TRUE]
  /\ UNCHANGED <<ledger, run, active, system, handlers>>

Crash(p) ==
  /\ p \in up
  /\ used.crashes < MaxCrash
  /\ "crashInLog" \in Faults \/ \A c \in Claim : run[c].proc = p => run[c].pc # "logTask"
  /\ up' = up \ {p}
  /\ run' = [c \in Claim |-> IF Live(c) /\ run[c].proc = p
                             THEN Finished(run[c]) ELSE run[c]]
  /\ active' = [active EXCEPT ![p] = 0]
  /\ cancel' = IF cancel.proc = p
               THEN [pc |-> "idle", proc |-> NoProc, order |-> 1] ELSE cancel
  /\ retry' = IF retry = p THEN NoProc ELSE retry
  /\ used' = [used EXCEPT !.crashes = @ + 1]
  /\ UNCHANGED <<task, ledger, claims>>

(***************************************************************************)
(* processClaimedTask, up to the provider boundary.                        *)
(***************************************************************************)

At(c, pc) == run[c].pc = pc

\* The goroutine is told what to write as the terminal status and what to do
\* with its order afterwards.
Conclude(c, pc, end, plan) ==
  run' = [run EXCEPT ![c].pc = pc, ![c].end = end, ![c].plan = plan]

LocalFault == "local" \in Faults

\* A failing statement returns from processClaimedTask and leaves the row as it
\* is; another claim recovers it when the lease expires.
Abandon(c) ==
  /\ LocalFault
  /\ run[c].pc \in {"claimed", "decide", "prepare", "refresh", "reread"}
  /\ Return(c)
  /\ UNCHANGED <<task, ledger, system, handlers>>

\* hydrateClaimedTaskProviderRequestID: the order may know a provider task id
\* that the row lost.
Hydrate(c) ==
  /\ At(c, "claimed")
  /\ IF run[c].req # 0 \/ ~orderReq[run[c].order]
     THEN Goto(c, "decide") /\ UNCHANGED <<task, active>>
     ELSE IF Held(c)
     THEN /\ task' = [task EXCEPT !.req = run[c].order]
          /\ run' = [run EXCEPT ![c].pc = "decide", ![c].req = run[c].order]
          /\ UNCHANGED active
     ELSE Return(c) /\ UNCHANGED task
  /\ UNCHANGED <<ledger, system, handlers>>

\* recoveredTaskCanContinue
CanContinue_Replay(c) == order[run[c].order] \in {"reserved", "running"}
CanContinue(c) ==
  LET status == order[run[c].order]
  IN \/ ~run[c].recovered
     \/ Pollable /\ run[c].req # 0
     \/ status = "reserved"
     \/ status = "running" /\ run[c].call \in NotStarted

\* The reserved order of a recovered task whose time is over.
Overdue(c) ==
  /\ run[c].recovered /\ ~(Pollable /\ run[c].req # 0)
  /\ Late /\ order[run[c].order] = "reserved"

\* Only an overdue task is stopped with a refund here; the others register
\* their cancel function and go on.
Decide(c) ==
  /\ At(c, "decide")
  /\ \/ /\ CanContinue(c) /\ ~Overdue(c)
        /\ run' = [run EXCEPT ![c].pc = IF Queued THEN "capacity" ELSE "prepare",
                              ![c].registered = TRUE]
        /\ active' = [active EXCEPT ![run[c].proc] = c]
     \/ /\ Overdue(c)
        /\ Conclude(c, "saveAlways", "failed", "refund")
        /\ UNCHANGED active
     \/ /\ ~CanContinue(c)
        /\ Conclude(c, "saveAlways", "failed",
                    IF order[run[c].order] \in {"running", "uncertain"}
                    THEN "uncertain" ELSE "none")
        /\ UNCHANGED active
  /\ UNCHANGED <<task, ledger, system, handlers>>

\* prepareClaimedRunningHubWorkflowCapacity: the account is free, or it is busy
\* and the task is handed back; waiting before the first request costs no time.
CapacityRow(c) ==
  IF run[c].req = 0 /\ run[c].call \in NotStarted
  THEN [DeferredRow EXCEPT !.age = 0] ELSE DeferredRow

Capacity(c) ==
  /\ At(c, "capacity")
  /\ \/ Goto(c, "prepare") /\ UNCHANGED <<task, active>>
     \/ Held(c) /\ task' = CapacityRow(c) /\ Return(c)
     \/ (LocalFault \/ Late \/ ~Held(c))
        /\ Goto(c, "capacityFailed") /\ UNCHANGED <<task, active>>
  /\ UNCHANGED <<ledger, system, handlers>>

\* The capacity error is judged by the call state and provider id in memory.
CapacityFailed(c) ==
  /\ At(c, "capacityFailed")
  /\ IF task.status = "cancelled"
     THEN Return(c) /\ UNCHANGED task
     ELSE IF run[c].req # 0 \/ run[c].call \notin NotStarted
     THEN /\ task' = IF Held(c) THEN DeferredRow ELSE task
          /\ Return(c)
     ELSE Conclude(c, "saveAlways", "failed", "refund") /\ UNCHANGED <<task, active>>
  /\ UNCHANGED <<ledger, system, handlers>>

PreflightState_Reset(call) == "preflight"
PreflightState(call) == IF call = "pending" THEN "preflight" ELSE call

PrepareClaimedTaskProviderCall(c) ==
  /\ At(c, "prepare")
  /\ IF HeldFresh(c)
     THEN /\ task' = [task EXCEPT !.call = PreflightState(task.call)]
          /\ run' = [run EXCEPT ![c].pc = "bill",
                                ![c].call = PreflightState(run[c].call)]
          /\ UNCHANGED active
     ELSE Return(c) /\ UNCHANGED task
  /\ UNCHANGED <<ledger, system, handlers>>

\* Where an attempt whose order is running goes on.
ProviderPc(c) == IF Pollable /\ run[c].req # 0 THEN "poll" ELSE "dispatch"
BillingFailed(c) == Conclude(c, "saveAlways", "failed", "refund")

\* MarkBillingRunning, the SELECT: an order that is running already is enough.
MarkBillingRead(c) ==
  /\ At(c, "bill")
  /\ LET status == order[run[c].order]
     IN \/ Goto(c, IF status = "running" THEN ProviderPc(c) ELSE "mark")
        \/ /\ IF status = "running" THEN "billing" \in Faults ELSE LocalFault
           /\ BillingFailed(c)
  /\ UNCHANGED <<task, ledger, active, system, handlers>>

\* MarkBillingRunning, the UPDATE ... WHERE status = 'reserved'.  No row means a
\* conflict, and whatever the order has become, running under another Worker
\* included, the caller takes it for its own failure and refunds.
MarkBillingRunning(c) ==
  /\ At(c, "mark")
  /\ LET a == run[c].order
     IN \/ /\ order[a] = "reserved"
           /\ order' = [order EXCEPT ![a] = "running"]
           /\ Goto(c, ProviderPc(c))
           /\ UNCHANGED used
        \/ /\ order[a] # "reserved" \/ LocalFault
           /\ BillingFailed(c)
           /\ used' = IF order[a] = "running"
                      THEN [used EXCEPT !.clashed = @ \cup {a}] ELSE used
           /\ UNCHANGED order
  /\ UNCHANGED <<task, orderReq, billable, active, system, cancel, retry>>

(***************************************************************************)
(* processTask: the dispatch checkpoint, the provider and the request log. *)
(***************************************************************************)

Answer(c, pc, outcome) ==
  run' = [run EXCEPT ![c].pc = pc, ![c].outcome = outcome]

MayDispatch(c) == HeldFresh(c) /\ task.call \in {"preflight", "dispatched"}

\* MarkClaimedTaskProviderCallDispatched; a task whose preparation, address
\* check or channel slot fails has sent nothing either.
Dispatch(c) ==
  /\ At(c, "dispatch")
  /\ \/ /\ MayDispatch(c) /\ ~Late
        /\ task' = [task EXCEPT !.call = "dispatched"]
        /\ Goto(c, "send")
     \/ /\ LocalFault \/ Late \/ run[c].signalled \/ ~MayDispatch(c)
        /\ Answer(c, "refresh", "notSent")
        /\ UNCHANGED task
  /\ UNCHANGED <<ledger, active, system, handlers>>

\* client.Do of the create request.  A cancelled context may stop it before it
\* leaves; a lost or garbled answer leaves open what the provider did.  An
\* outcome is "ambiguous" only if billingFailureUncertain knows its error by its
\* type or its words: a connection that broke with others (sent "broken", say a
\* plain EOF) passes for a refusal, whatever the provider made of the request.
Send(c) ==
  /\ At(c, "send")
  /\ \/ run' = [run EXCEPT ![c].pc = IF Pollable THEN "logOrder" ELSE "logTask",
                           ![c].sent = "accepted", ![c].outcome = "success"]
     \/ run' = [run EXCEPT ![c].pc = "refresh", ![c].sent = "refused",
                           ![c].outcome = "refused"]
     \/ run' = [run EXCEPT ![c].pc = "refresh", ![c].sent = "maybe",
                           ![c].outcome = "ambiguous"]
     \/ run' = [run EXCEPT ![c].pc = "refresh", ![c].sent = "broken",
                           ![c].outcome = "refused"]
     \/ /\ run[c].signalled \/ ~Held(c)
        /\ Answer(c, "refresh", "ambiguous")
  /\ UNCHANGED <<task, ledger, active, system, handlers>>

\* LogAPICall, first statement: the order learns the provider task id.
LogOrder(c) ==
  /\ At(c, "logOrder")
  /\ orderReq' = [orderReq EXCEPT ![run[c].order] = TRUE]
  /\ Goto(c, "logTask")
  /\ UNCHANGED <<task, order, billable, active, system, handlers>>

\* UpdateTaskProviderStateForAttempt
LogReaches_AnyOrder(a) ==
  Pollable /\ task.req \in {0, a} /\ task.status \in {"running", "failed", "cancelled"}
LogReaches(a) ==
  /\ Pollable /\ task.order = a /\ task.req \in {0, a}
  /\ task.status \in {"running", "failed", "cancelled"}

\* LogAPICall, the rest: the row of the same billing order learns the id, and
\* the log keeps the billable success.  If the log cannot be written the order
\* goes to review.
LogTask(c) ==
  /\ At(c, "logTask")
  /\ task' = IF LogReaches(run[c].order)
             THEN [task EXCEPT !.req = run[c].order, !.due = FALSE] ELSE task
  /\ \/ /\ billable' = TRUE
        /\ Goto(c, IF Pollable THEN "poll" ELSE "refresh")
        /\ UNCHANGED order
     \/ /\ LocalFault
        /\ MarkUncertain(run[c].order)
        /\ Answer(c, "refresh", "ambiguous")
        /\ UNCHANGED billable
  /\ UNCHANGED <<orderReq, active, system, handlers>>

\* A query of the provider task passes the same checkpoint as the create.
Poll(c) ==
  /\ At(c, "poll")
  /\ \/ /\ MayDispatch(c)
        /\ task' = [task EXCEPT !.call = "dispatched"]
        /\ \E outcome \in {"success", "refused", "ambiguous", "pending"} :
             /\ outcome = "pending" => ~Late
             /\ Answer(c, "refresh", outcome)
     \/ /\ LocalFault \/ Late \/ run[c].signalled \/ ~MayDispatch(c)
        /\ Answer(c, "refresh", "notSent")
        /\ UNCHANGED task
  /\ UNCHANGED <<ledger, active, system, handlers>>

\* refreshTaskProviderState copies the stored call state and provider id.
Refresh(c) ==
  /\ At(c, "refresh")
  /\ run' = [run EXCEPT
       ![c].call = task.call,
       ![c].req = IF task.req # 0 THEN task.req ELSE @,
       ![c].pc = CASE run[c].outcome = "pending" -> "defer"
                   [] run[c].outcome = "success" -> "persist"
                   [] OTHER -> "judge"]
  /\ UNCHANGED <<task, ledger, active, system, handlers>>

\* DeferTaskProviderPoll gives the Worker back until the next poll.
Defer(c) ==
  /\ At(c, "defer")
  /\ task' = IF Held(c)
           THEN [DeferredRow EXCEPT !.age = IF Late THEN @ ELSE @ + 1] ELSE task
  /\ Return(c)
  /\ UNCHANGED <<ledger, system, handlers>>

(***************************************************************************)
(* The provider succeeded: checkpoint, completion and settlement.          *)
(***************************************************************************)

\* persistTaskGeneratedMediaResult stores the media of the answer.
Persist(c) ==
  /\ At(c, "persist")
  /\ \/ Goto(c, "reread")
     \/ LocalFault /\ Answer(c, "salvage", "local")
  /\ UNCHANGED <<task, ledger, active, system, handlers>>

\* checkpointProviderResultAfterLocalFailure; a detected lease loss stops first.
Salvage(c) ==
  /\ At(c, "salvage")
  /\ \/ /\ Held(c)
        /\ task' = [task EXCEPT !.ckpt = TRUE]
        /\ run' = [run EXCEPT ![c].pc = "judge", ![c].ckpt = TRUE]
        /\ UNCHANGED active
     \/ Goto(c, "judge") /\ UNCHANGED <<task, active>>
     \/ ~Held(c) /\ Return(c) /\ UNCHANGED task
  /\ UNCHANGED <<ledger, system, handlers>>

\* The result came back after the user cancelled: it is dropped.
Reread(c) ==
  /\ At(c, "reread")
  /\ IF task.status = "cancelled"
     THEN Conclude(c, "billing", run[c].end, "uncertain")
     ELSE Goto(c, "checkpoint")
  /\ UNCHANGED <<task, ledger, active, system, handlers>>

ResultNotSaved(c) == Conclude(c, "saveAlways", "failed", "uncertain")
ResultConflict_Settles(c) == Conclude(c, "settle", run[c].end, "none")
ResultConflict(c) == Conclude(c, "billing", run[c].end, "uncertain")

\* checkpointTaskResultWithinStorageQuota
Checkpoint(c) ==
  /\ At(c, "checkpoint")
  /\ \/ /\ Held(c)
        /\ task' = [task EXCEPT !.ckpt = TRUE]
        /\ run' = [run EXCEPT ![c].pc = "complete", ![c].ckpt = TRUE]
     \/ ~Held(c) /\ ResultConflict(c) /\ UNCHANGED task
     \/ LocalFault /\ ResultNotSaved(c) /\ UNCHANGED task
  /\ UNCHANGED <<ledger, active, system, handlers>>

\* saveTaskCompletionWithinStorageQuota
Complete(c) ==
  /\ At(c, "complete")
  /\ \/ Held(c) /\ task' = SavedRow(c, "succeeded") /\ Goto(c, "settle")
     \/ ~Held(c) /\ ResultConflict(c) /\ UNCHANGED task
     \/ LocalFault /\ ResultNotSaved(c) /\ UNCHANGED task
  /\ UNCHANGED <<ledger, active, system, handlers>>

\* SettleBillingFromExecution refuses an order under review, or may fail.
Settle(c) ==
  /\ At(c, "settle")
  /\ \/ SettleFromExecution(run[c].order)
     \/ LocalFault /\ MarkUncertain(run[c].order)
  /\ Return(c)
  /\ UNCHANGED <<task, orderReq, billable, system, handlers>>

(***************************************************************************)
(* The attempt failed: judge the cost, save the terminal row, bill.        *)
(***************************************************************************)

\* BillingFailureRequiresReview
ReviewRequired_AmbiguityIgnored(c) ==
  run[c].outcome = "local" \/ billable \/ order[run[c].order] = "uncertain"
ReviewRequired_LogIgnored(c) ==
  run[c].outcome \in {"ambiguous", "local"} \/ order[run[c].order] = "uncertain"
ReviewRequired(c) ==
  \/ run[c].outcome \in {"ambiguous", "local"}
  \/ billable
  \/ order[run[c].order] = "uncertain"

FailurePlan_ReviewForgotten(c, end) ==
  IF ReviewRequired(c) THEN "none" ELSE "refund"
FailurePlan(c, end) ==
  IF ReviewRequired(c) \/ (end = "cancelled" /\ run[c].outcome # "notSent")
  THEN "uncertain" ELSE "refund"

\* A lost lease leaves the task to its new owner (Salvage has looked already); a
\* cancelled context ends the task as cancelled, every other error as failed.
JudgeFailure(c) ==
  /\ At(c, "judge")
  /\ \/ ~Held(c) /\ run[c].outcome # "local" /\ Return(c)
     \/ /\ \E end \in {"failed", "cancelled"} :
             /\ end = "cancelled" => /\ run[c].signalled
                                     /\ run[c].outcome # "refused"
             /\ Conclude(c, "save", end, FailurePlan(c, end))
        /\ UNCHANGED active
  /\ UNCHANGED <<task, ledger, system, handlers>>

\* SaveClaimedTaskTerminal of a judged failure.
SaveTerminal(c) ==
  /\ At(c, "save")
  /\ \/ Held(c) /\ task' = SavedRow(c, run[c].end) /\ Goto(c, "billing")
     \/ ~Held(c) /\ Goto(c, "conflict") /\ UNCHANGED task
     \/ LocalFault /\ Conclude(c, "billing", run[c].end, "uncertain") /\ UNCHANGED task
  /\ UNCHANGED <<ledger, active, system, handlers>>

Conflict_PlanKept(c) ==
  /\ At(c, "conflict")
  /\ IF task.status = "cancelled"
     THEN Return(c)
     ELSE Goto(c, "billing") /\ UNCHANGED active
  /\ UNCHANGED <<task, ledger, system, handlers>>
Conflict(c) ==
  /\ At(c, "conflict")
  /\ IF task.status = "cancelled"
     THEN Return(c)
     ELSE Conclude(c, "billing", run[c].end, "uncertain") /\ UNCHANGED active
  /\ UNCHANGED <<task, ledger, system, handlers>>

\* The other terminal saves go on to the order whether or not they succeeded.
SaveAlways(c) ==
  /\ At(c, "saveAlways")
  /\ \/ Held(c) /\ task' = SavedRow(c, "failed")
     \/ (~Held(c) \/ LocalFault) /\ UNCHANGED task
  /\ Goto(c, "billing")
  /\ UNCHANGED <<ledger, active, system, handlers>>

Billing(c) ==
  /\ At(c, "billing")
  /\ \/ run[c].plan = "refund" /\ RefundFromExecution(run[c].order)
     \/ run[c].plan = "uncertain" /\ MarkUncertain(run[c].order)
     \/ (run[c].plan = "none" \/ LocalFault) /\ UNCHANGED order
  /\ Return(c)
  /\ UNCHANGED <<task, orderReq, billable, system, handlers>>

\* A panic unwinds processClaimedTask and is caught by runClaimedTask.
Panic(c) ==
  /\ "panic" \in Faults
  /\ run[c].pc \in {"decide", "capacity", "prepare", "dispatch", "send", "poll",
                    "persist", "complete"}
  /\ run' = [run EXCEPT ![c].pc = "panicked", ![c].registered = FALSE]
  /\ Unregister(c)
  /\ UNCHANGED <<task, ledger, system, handlers>>

\* recoverWorkerTaskPanic takes the call state from the stored row.
PanicJudge(c) ==
  /\ At(c, "panicked")
  /\ LET status == order[run[c].order]
         plan == CASE status = "reserved" -> "refund"
                   [] status = "running" /\ task.call \in NotStarted -> "refund"
                   [] status \in {"running", "uncertain"} -> "uncertain"
                   [] OTHER -> "none"
     IN run' = [run EXCEPT ![c].pc = "saveAlways", ![c].call = task.call,
                           ![c].end = "failed", ![c].plan = plan]
  /\ UNCHANGED <<task, ledger, active, system, handlers>>

(***************************************************************************)
(* CancelTask: every statement of the handler is a step; "order" is the    *)
(* snapshot of the billing order taken with the last read of the row.      *)
(***************************************************************************)

NoCancel == [pc |-> "idle", proc |-> NoProc, order |-> 1]

CancelGoto(pc) == cancel' = [cancel EXCEPT !.pc = pc]

\* The handler reaches the goroutine its own process has registered, if any.
SignalActive(p) ==
  run' = IF active[p] = 0 THEN run
         ELSE [run EXCEPT ![active[p]].signalled = TRUE]

CancelRead(p) ==
  /\ p \in up
  /\ cancel.pc = "idle" /\ used.cancels < MaxCancel
  /\ task.status \in {"queued", "running"}
  /\ cancel' = [pc |-> IF task.status = "queued" THEN "queued" ELSE "soft",
                proc |-> p, order |-> task.order]
  /\ used' = [used EXCEPT !.cancels = @ + 1]
  /\ UNCHANGED <<task, ledger, run, active, system, retry>>

\* CancelTaskIfStatus(queued), or else the row is read again.
CancelQueued ==
  /\ cancel.pc = "queued"
  /\ IF task.status = "queued"
     THEN task' = CancelledRow /\ CancelGoto("refund")
     ELSE /\ cancel' = IF task.status = "running"
                       THEN [cancel EXCEPT !.pc = "soft", !.order = task.order]
                       ELSE NoCancel
          /\ UNCHANGED task
  /\ UNCHANGED <<ledger, run, active, system, retry, used>>

\* CancelTaskIfStatusAndProviderStates(running, pending or preflight)
CancelSoft ==
  /\ cancel.pc = "soft"
  /\ IF task.status = "running" /\ task.call \in NotStarted
     THEN task' = CancelledRow /\ CancelGoto("refund")
     ELSE CancelGoto("hard") /\ UNCHANGED task
  /\ SignalActive(cancel.proc)
  /\ UNCHANGED <<ledger, active, system, retry, used>>

\* CancelTaskIfStatus(running)
CancelHard ==
  /\ cancel.pc = "hard"
  /\ IF task.status = "running"
     THEN task' = CancelledRow /\ CancelGoto("cancelled")
     ELSE CancelGoto("reread") /\ UNCHANGED task
  /\ UNCHANGED <<ledger, run, active, system, retry, used>>

\* The row read after it decides on the money.
CancelReread ==
  /\ cancel.pc \in {"cancelled", "reread"}
  /\ cancel' = IF \/ task.status = "cancelled"
                  \/ cancel.pc = "cancelled" /\ task.status # "succeeded"
               THEN [cancel EXCEPT
                      !.pc = IF task.call \in NotStarted THEN "refund" ELSE "review",
                      !.order = task.order]
               ELSE NoCancel
  /\ UNCHANGED <<task, ledger, run, active, system, retry, used>>

\* A statement of the handler fails: the request ends with an error.
CancelFails ==
  /\ LocalFault
  /\ cancel.pc \in {"queued", "soft", "hard", "cancelled", "reread"}
  /\ cancel' = NoCancel
  /\ UNCHANGED <<task, ledger, run, active, system, retry, used>>

CancelRefund ==
  /\ cancel.pc = "refund"
  /\ RefundFromExecution(cancel.order) \/ (LocalFault /\ UNCHANGED order)
  /\ cancel' = NoCancel
  /\ UNCHANGED <<task, orderReq, billable, run, active, system, retry, used>>

CancelReview ==
  /\ cancel.pc = "review"
  /\ MarkUncertain(cancel.order) \/ (LocalFault /\ UNCHANGED order)
  /\ cancel' = NoCancel
  /\ UNCHANGED <<task, orderReq, billable, run, active, system, retry, used>>

(***************************************************************************)
(* RetryTask with the user's confirmation, and the administrator.          *)
(***************************************************************************)

\* RetryTask reads the row, the request log and the order before its
\* transaction; a refused retry changes nothing.
RetryCheck(p) ==
  /\ p \in up
  /\ retry = NoProc
  /\ "overlap" \in Faults \/ cancel = NoCancel
  /\ task.status \in {"failed", "cancelled"}
  /\ ~task.ckpt
  /\ ~billable
  /\ ~(/\ Pollable /\ (task.req # 0 \/ orderReq[task.order])
       /\ order[task.order] \in Open)
  /\ retry' = p
  /\ UNCHANGED <<task, ledger, run, active, system, cancel, used>>

NextAttempt(a) ==
  order[a] = "none" /\ \A b \in Attempt : order[b] = "none" => a <= b

\* RetryTaskWithBillingConfirmed: only the status is checked again.
RetryTx ==
  /\ retry # NoProc
  /\ \/ \E a \in Attempt :
          /\ task.status \in {"failed", "cancelled"}
          /\ NextAttempt(a)
          /\ order' = [order EXCEPT ![a] = "reserved"]
          /\ task' = [status |-> "queued", order |-> a, call |-> "pending",
                      req |-> 0, ckpt |-> FALSE, owner |-> NoProc,
                      lease |-> FALSE, due |-> TRUE, age |-> 0]
     \/ UNCHANGED <<task, order>>
  /\ retry' = NoProc
  /\ UNCHANGED <<orderReq, billable, run, active, system, cancel, used>>

\* ResolveBillingOrder accepts every open order.
ResolveBillingOrder(a) ==
  /\ order[a] \in Open
  /\ Cardinality(used.resolved) < MaxResolve
  /\ \E to \in {"settled", "refunded"} : order' = [order EXCEPT ![a] = to]
  /\ used' = [used EXCEPT !.resolved = @ \cup {a}]
  /\ UNCHANGED <<task, orderReq, billable, run, active, system, cancel, retry>>

(***************************************************************************)
(* The specification.                                                      *)
(***************************************************************************)

\* The goroutine advances by itself.
Step(c) ==
  \/ Hydrate(c) \/ Decide(c) \/ Capacity(c) \/ CapacityFailed(c)
  \/ PrepareClaimedTaskProviderCall(c) \/ MarkBillingRead(c)
  \/ MarkBillingRunning(c) \/ Dispatch(c) \/ Send(c) \/ LogOrder(c) \/ LogTask(c) \/ Poll(c)
  \/ Refresh(c) \/ Defer(c)
  \/ Persist(c) \/ Salvage(c) \/ Reread(c) \/ Checkpoint(c) \/ Complete(c)
  \/ Settle(c)
  \/ JudgeFailure(c) \/ SaveTerminal(c) \/ Conflict(c) \/ SaveAlways(c)
  \/ Billing(c) \/ PanicJudge(c)

CancelStep ==
  \/ CancelQueued \/ CancelSoft \/ CancelHard \/ CancelReread \/ CancelFails
  \/ CancelRefund \/ CancelReview

Next ==
  \/ \E c \in Claim : Step(c) \/ RenewTaskLease(c) \/ Abandon(c) \/ Panic(c)
  \/ \E p \in Proc : ClaimNextTask(p) \/ Crash(p) \/ CancelRead(p) \/ RetryCheck(p)
  \/ \E a \in Attempt : ResolveBillingOrder(a)
  \/ LeaseExpires \/ Timeout \/ PollDue \/ CancelStep \/ RetryTx

Spec == Init /\ [][Next]_vars

\* Goroutines, handlers and the dispatcher's claim loop keep running, a lease
\* nobody renews expires, and a due time is reached.  Nobody has to cancel,
\* retry, resolve, crash or fail.
Fairness ==
  /\ \A c \in Claim : WF_vars(Step(c))
  /\ WF_vars(\E p \in Proc : ClaimNextTask(p))
  /\ WF_vars(LeaseExpires) /\ WF_vars(PollDue)
  /\ WF_vars(CancelStep) /\ WF_vars(RetryTx)

FairSpec == Spec /\ Fairness

(***************************************************************************)
(* Properties.                                                             *)
(***************************************************************************)

\* What every goroutine of attempt a has sent so far.
SentFor(a) == {run[c].sent : c \in {d \in Claim : run[d].pc # "none" /\ run[d].order = a}}

\* The attempts an administrator decided on, and those whose running order a
\* Worker of the same attempt refunded after its stale SELECT.
Excused == used.resolved \cup used.clashed

\* What the project's CHANGELOG promises of the automatic refund: it is only for
\* attempts that provably reached no provider.  The code does not keep it
\* (README, section 9), and no run checks it.
AutoRefundNeverSent ==
  \A a \in Attempt \ used.resolved :
    order[a] = "refunded" => SentFor(a) \subseteq {"no", "refused"}

\* What the code keeps of it: no request that was accepted, or whose failure the
\* Worker knows to be ambiguous, is ever refunded automatically, by whichever
\* goroutine, panic handler or cancellation; except behind MarkBillingRunning's
\* conflict, and except for the errors billingFailureUncertain does not know.
NoRefundOfKnownRequest ==
  \A a \in Attempt \ Excused :
    order[a] = "refunded" => SentFor(a) \subseteq {"no", "refused", "broken"}

\* However often the lease changes hands, a billing order pays for at most one
\* create request.
OneCreatePerAttempt ==
  \A c, d \in Claim :
    /\ c # d /\ run[c].order = run[d].order
    => run[c].sent = "no" \/ run[d].sent = "no"

\* The stored call state never claims that a request of the row's attempt is
\* still unsent when one has left.
CallStateHonest ==
  task.call \in NotStarted => SentFor(task.order) \subseteq {"no"}

\* A provider task id in the row belongs to the row's own attempt: the late
\* answer of an earlier attempt never reaches a retried task.
RequestIdOfAttempt == task.req \in {0, task.order}

\* An order settles automatically only for a delivered result of its own attempt.
SettledIsDelivered ==
  \A a \in Attempt \ used.resolved :
    order[a] = "settled" =>
      task.status = "succeeded" /\ task.order = a /\ "accepted" \in SentFor(a)

\* A delivered result is never free of charge by itself: no goroutine that lost
\* the row, no panic handler and no cancellation refunds the order behind it,
\* MarkBillingRunning's conflict excepted.
DeliveredNotRefunded ==
  task.status = "succeeded" /\ task.order \notin Excused
    => order[task.order] # "refunded"

\* No late Worker brings an earlier attempt back into the row.
RowNeverRegresses == [][task'.order >= task.order]_vars

\* Within an attempt the call state only moves forward.
CallRank(call) == CASE call = "pending" -> 0 [] call = "preflight" -> 1 [] OTHER -> 2
CallStateForward ==
  [][task'.order = task.order /\ task'.status # "queued"
       => CallRank(task'.call) >= CallRank(task.call)]_vars

\* A finished task changes its status only through a retry with a new order.
TerminalIsFinal ==
  [][task.status \in Terminal /\ task'.status # task.status
       => task'.status = "queued" /\ task'.order > task.order]_vars

\* Why a late Worker cannot write into another attempt, as long as a process
\* never runs two goroutines of the task: whoever holds the row works on the
\* row's own attempt.
LiveHasProc == \A c \in Claim : Live(c) => run[c].proc \in Proc
OneGoroutinePerProc ==
  \A c, d \in Claim : Live(c) /\ Live(d) /\ run[c].proc = run[d].proc => c = d
HolderIsCurrent ==
  \A c \in Claim : Live(c) /\ Held(c) =>
    run[c].order = task.order /\ run[c].req \in {0, task.order}
AttemptsInSequence ==
  /\ order[task.order] # "none"
  /\ \A a, b \in Attempt : a < b /\ order[b] # "none" => order[a] # "none"

AttemptInv ==
  /\ TypeOK /\ LiveHasProc /\ OneGoroutinePerProc
  /\ HolderIsCurrent /\ AttemptsInSequence /\ RequestIdOfAttempt

\* Every accepted task ends.
TaskEnds == task.status \in {"queued", "running"} ~> task.status \in Terminal

\* While no process crashes, every order is finally closed or put under review.
OrderEnds ==
  [](up = Proc) =>
    \A a \in Attempt : order[a] \in {"reserved", "running"}
                       ~> order[a] \in {"uncertain", "settled", "refunded"}

=============================================================================
