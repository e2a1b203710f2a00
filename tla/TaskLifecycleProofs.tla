------------------------- MODULE TaskLifecycleProofs -------------------------
(***************************************************************************)
(* Proofs about TaskLifecycle, for every number of processes, attempts,    *)
(* claims and requests, and every combination of faults.                   *)
(***************************************************************************)
EXTENDS TaskLifecycle, TLAPS

RunType == run \in [Claim -> Goroutine]
ActiveType == active \in [Proc -> 0..MaxClaim]

(***************************************************************************)
(* What the operators the actions are built from return.                   *)
(***************************************************************************)

LEMMA NoRunType == NoRun \in Goroutine
BY BoundAssumption
   DEF NoRun, Goroutine, Attempt, Pc, CallState, Outcome, Plan, Sent

LEMMA FinishedType == ASSUME NEW r \in Goroutine PROVE Finished(r) \in Goroutine
<1>1. r.order \in Attempt /\ r.sent \in Sent /\ "done" \in Pc
  BY DEF Goroutine, Pc
<1> QED BY <1>1, NoRunType DEF Finished, Goroutine

\* Replacing one field of one goroutine by a value of its type.
LEMMA FieldType ==
  ASSUME NEW f \in [Claim -> Goroutine], NEW c \in Claim
  PROVE  /\ \A x \in Pc : [f EXCEPT ![c].pc = x] \in [Claim -> Goroutine]
         /\ \A x \in CallState : [f EXCEPT ![c].call = x] \in [Claim -> Goroutine]
         /\ \A x \in 0..MaxAttempt : [f EXCEPT ![c].req = x] \in [Claim -> Goroutine]
         /\ \A x \in BOOLEAN : [f EXCEPT ![c].ckpt = x] \in [Claim -> Goroutine]
         /\ \A x \in BOOLEAN : [f EXCEPT ![c].registered = x] \in [Claim -> Goroutine]
         /\ \A x \in Outcome : [f EXCEPT ![c].outcome = x] \in [Claim -> Goroutine]
         /\ \A x \in {"failed", "cancelled"} :
              [f EXCEPT ![c].end = x] \in [Claim -> Goroutine]
         /\ \A x \in Plan : [f EXCEPT ![c].plan = x] \in [Claim -> Goroutine]
         /\ \A x \in Sent : [f EXCEPT ![c].sent = x] \in [Claim -> Goroutine]
BY DEF Goroutine

LEMMA GotoType ==
  ASSUME RunType, NEW c \in Claim, NEW pc \in Pc, Goto(c, pc) PROVE RunType'
BY FieldType DEF RunType, Goto

LEMMA AnswerType ==
  ASSUME RunType, NEW c \in Claim, NEW pc \in Pc, NEW x \in Outcome, Answer(c, pc, x)
  PROVE  RunType'
<1> DEFINE f == [run EXCEPT ![c].pc = pc]
<1>1. f \in [Claim -> Goroutine]
  BY FieldType DEF RunType
<1>2. [f EXCEPT ![c].outcome = x] \in [Claim -> Goroutine]
  BY <1>1, FieldType
<1> QED BY <1>2 DEF RunType, Answer

LEMMA ConcludeType ==
  ASSUME RunType, NEW c \in Claim, NEW pc \in Pc, NEW end \in {"failed", "cancelled"},
         NEW plan \in Plan, Conclude(c, pc, end, plan)
  PROVE  RunType'
<1> DEFINE f == [run EXCEPT ![c].pc = pc]
           g == [f EXCEPT ![c].end = end]
<1>1. f \in [Claim -> Goroutine]
  BY FieldType DEF RunType
<1>2. g \in [Claim -> Goroutine]
  BY <1>1, FieldType
<1>3. [g EXCEPT ![c].plan = plan] \in [Claim -> Goroutine]
  BY <1>2, FieldType
<1> QED BY <1>3 DEF RunType, Conclude

LEMMA UnregisterType ==
  ASSUME ActiveType, NEW c, Unregister(c) PROVE ActiveType'
<1>1. 0 \in 0..MaxClaim
  BY BoundAssumption
<1>2. CASE run[c].registered
  BY <1>1, <1>2 DEF ActiveType, Unregister
<1>3. CASE ~run[c].registered
  BY <1>3 DEF ActiveType, Unregister
<1> QED BY <1>2, <1>3

LEMMA ReturnType ==
  ASSUME RunType, ActiveType, NEW c \in Claim, Return(c)
  PROVE  RunType' /\ ActiveType'
<1>1. Finished(run[c]) \in Goroutine
  BY FinishedType DEF RunType
<1>2. RunType'
  BY <1>1 DEF RunType, Return
<1> QED BY <1>2, UnregisterType DEF Return

LEMMA SignalActiveType ==
  ASSUME RunType, NEW p, SignalActive(p) PROVE RunType'
<1>1. \A r \in Goroutine : [r EXCEPT !.signalled = TRUE] \in Goroutine
  BY DEF Goroutine
<1> QED BY <1>1 DEF RunType, SignalActive

LEMMA DeferredRowType ==
  ASSUME task \in Row
  PROVE  /\ DeferredRow \in Row
         /\ \A c \in Claim : CapacityRow(c) \in Row
         /\ ~Late => [DeferredRow EXCEPT !.age = @ + 1] \in Row
<1>1. DeferredRow \in Row /\ DeferredRow.age = task.age
  BY DEF Row, DeferredRow
<1>2. 0 \in 0..MaxAge
  BY BoundAssumption
<1>3. [DeferredRow EXCEPT !.age = 0] \in Row
  BY <1>1, <1>2 DEF Row
<1>4. ~Late => task.age + 1 \in 0..MaxAge
  BY BoundAssumption DEF Late, Row
<1>5. ~Late => [DeferredRow EXCEPT !.age = @ + 1] \in Row
  BY <1>1, <1>4 DEF Row
<1> QED BY <1>1, <1>3, <1>5 DEF CapacityRow

LEMMA CancelledRowType == ASSUME task \in Row PROVE CancelledRow \in Row
BY DEF Row, CancelledRow, Status

LEMMA SavedRowType ==
  ASSUME task \in Row, RunType, NEW c \in Claim, NEW s \in Status
  PROVE  SavedRow(c, s) \in Row
<1>1. /\ run[c].order \in Attempt /\ run[c].call \in CallState
      /\ run[c].req \in 0..MaxAttempt /\ run[c].ckpt \in BOOLEAN
  BY DEF RunType, Goroutine
<1> QED BY <1>1 DEF Row, SavedRow

LEMMA OrderAfterType ==
  ASSUME order \in [Attempt -> OrderStatus], NEW a, NEW from, NEW to \in OrderStatus
  PROVE  OrderAfter(a, from, to) \in [Attempt -> OrderStatus]
BY DEF OrderAfter

LEMMA LedgerStepType ==
  ASSUME order \in [Attempt -> OrderStatus], NEW a,
         MarkUncertain(a) \/ RefundFromExecution(a) \/ SettleFromExecution(a)
  PROVE  order' \in [Attempt -> OrderStatus]
BY OrderAfterType DEF MarkUncertain, RefundFromExecution, SettleFromExecution, OrderStatus

(***************************************************************************)
(* Every action preserves the types: first the actions of a goroutine.     *)
(***************************************************************************)

LEMMA RowStepType ==
  ASSUME TypeOK, task' \in Row, RunType', ActiveType', UNCHANGED <<ledger, system, handlers>>
  PROVE  TypeOK'
BY DEF TypeOK, RunType, ActiveType, ledger, system, handlers

LEMMA OrderStepType ==
  ASSUME TypeOK, task' \in Row, order' \in [Attempt -> OrderStatus],
         orderReq' \in [Attempt -> BOOLEAN], billable' \in BOOLEAN,
         RunType', ActiveType', UNCHANGED <<system, handlers>>
  PROVE  TypeOK'
BY DEF TypeOK, RunType, ActiveType, system, handlers

LEMMA Types ==
  ASSUME TypeOK
  PROVE  /\ task \in Row /\ RunType /\ ActiveType /\ run \in [Claim -> Goroutine]
         /\ order \in [Attempt -> OrderStatus] /\ orderReq \in [Attempt -> BOOLEAN]
         /\ billable \in BOOLEAN
         /\ \A c \in Claim : run[c].order \in Attempt /\ run[c].req \in 0..MaxAttempt
                             /\ run[c].end \in {"failed", "cancelled"}
         /\ task.call \in CallState /\ task.order \in Attempt
         /\ task.req \in 0..MaxAttempt /\ task.status \in Status
         /\ \A a \in Attempt : a \in 0..MaxAttempt
<1>1. /\ task \in Row /\ RunType /\ ActiveType /\ run \in [Claim -> Goroutine]
      /\ order \in [Attempt -> OrderStatus] /\ orderReq \in [Attempt -> BOOLEAN]
      /\ billable \in BOOLEAN
  BY DEF TypeOK, RunType, ActiveType
<1>2. \A c \in Claim : run[c].order \in Attempt /\ run[c].req \in 0..MaxAttempt
                       /\ run[c].end \in {"failed", "cancelled"}
  BY <1>1 DEF Goroutine
<1>3. /\ task.call \in CallState /\ task.order \in Attempt
      /\ task.req \in 0..MaxAttempt /\ task.status \in Status
  BY <1>1 DEF Row
<1>4. \A a \in Attempt : a \in 0..MaxAttempt
  BY BoundAssumption DEF Attempt
<1> QED BY <1>1, <1>2, <1>3, <1>4

LEMMA AbandonType ==
  ASSUME TypeOK, NEW c \in Claim, Abandon(c) PROVE TypeOK'
BY Types, ReturnType, RowStepType DEF Abandon

LEMMA HydrateType ==
  ASSUME TypeOK, NEW c \in Claim, Hydrate(c) PROVE TypeOK'
<1>1. [task EXCEPT !.req = run[c].order] \in Row
  BY Types DEF Row
<1>2. CASE Goto(c, "decide") /\ UNCHANGED <<task, active>>
  <2>1. RunType'
    BY <1>2, Types, GotoType DEF Pc
  <2> QED BY <1>2, <2>1, Types, RowStepType DEF Hydrate, ActiveType
<1>3. CASE /\ task' = [task EXCEPT !.req = run[c].order]
           /\ run' = [run EXCEPT ![c].pc = "decide", ![c].req = run[c].order]
           /\ UNCHANGED active
  <2> DEFINE f == [run EXCEPT ![c].pc = "decide"]
  <2>1. f \in [Claim -> Goroutine]
    BY Types, FieldType DEF Pc
  <2>2. [f EXCEPT ![c].req = run[c].order] \in [Claim -> Goroutine]
    BY <2>1, Types, FieldType
  <2> QED BY <1>1, <1>3, <2>2, Types, RowStepType DEF Hydrate, RunType, ActiveType
<1>4. CASE Return(c) /\ UNCHANGED task
  BY <1>4, Types, ReturnType, RowStepType DEF Hydrate
<1> QED BY <1>2, <1>3, <1>4 DEF Hydrate

LEMMA DecideType ==
  ASSUME TypeOK, NEW c \in Claim, Decide(c) PROVE TypeOK'
<1>1. CASE /\ run' = [run EXCEPT ![c].pc = IF Queued THEN "capacity" ELSE "prepare",
                                 ![c].registered = TRUE]
           /\ active' = [active EXCEPT ![run[c].proc] = c]
  <2> DEFINE f == [run EXCEPT ![c].pc = IF Queued THEN "capacity" ELSE "prepare"]
  <2>1. f \in [Claim -> Goroutine]
    BY Types, FieldType DEF Pc
  <2>2. RunType'
    BY <1>1, <2>1, FieldType DEF RunType
  <2>3. c \in 0..MaxClaim
    BY BoundAssumption DEF Claim
  <2>4. ActiveType'
    BY <1>1, <2>3, Types DEF ActiveType
  <2> QED BY <2>2, <2>4, Types, RowStepType DEF Decide
<1>2. CASE UNCHANGED active /\ \E plan \in Plan : Conclude(c, "saveAlways", "failed", plan)
  <2>1. RunType'
    BY <1>2, Types, ConcludeType DEF Pc
  <2> QED BY <1>2, <2>1, Types, RowStepType DEF Decide, ActiveType
<1> QED BY <1>1, <1>2 DEF Decide, Plan

LEMMA CapacityType ==
  ASSUME TypeOK, NEW c \in Claim, Capacity(c) PROVE TypeOK'
<1>1. CASE UNCHANGED <<task, active>> /\ \E pc \in Pc : Goto(c, pc)
  <2>1. RunType'
    BY <1>1, Types, GotoType
  <2> QED BY <1>1, <2>1, Types, RowStepType DEF Capacity, ActiveType
<1>2. CASE task' = CapacityRow(c) /\ Return(c)
  BY <1>2, Types, DeferredRowType, ReturnType, RowStepType DEF Capacity
<1> QED BY <1>1, <1>2 DEF Capacity, Pc

LEMMA CapacityFailedType ==
  ASSUME TypeOK, NEW c \in Claim, CapacityFailed(c) PROVE TypeOK'
<1>1. CASE Return(c) /\ task' \in {task, DeferredRow}
  BY <1>1, Types, DeferredRowType, ReturnType, RowStepType DEF CapacityFailed
<1>2. CASE Conclude(c, "saveAlways", "failed", "refund") /\ UNCHANGED <<task, active>>
  <2>1. RunType'
    BY <1>2, Types, ConcludeType DEF Pc, Plan
  <2> QED BY <1>2, <2>1, Types, RowStepType DEF CapacityFailed, ActiveType
<1> QED BY <1>1, <1>2 DEF CapacityFailed

LEMMA PrepareType ==
  ASSUME TypeOK, NEW c \in Claim, PrepareClaimedTaskProviderCall(c) PROVE TypeOK'
<1>1. \A call \in CallState : PreflightState(call) \in CallState
  BY DEF PreflightState, CallState
<1>2. CASE /\ task' = [task EXCEPT !.call = PreflightState(task.call)]
           /\ run' = [run EXCEPT ![c].pc = "bill", ![c].call = PreflightState(run[c].call)]
           /\ UNCHANGED active
  <2> DEFINE f == [run EXCEPT ![c].pc = "bill"]
  <2>1. f \in [Claim -> Goroutine] /\ run[c].call \in CallState
    <3>1. run \in [Claim -> Goroutine] /\ "bill" \in Pc
      BY Types DEF Pc
    <3>2. f \in [Claim -> Goroutine]
      BY <3>1, FieldType
    <3> QED BY <3>1, <3>2 DEF Goroutine
  <2>2. RunType'
    BY <1>1, <1>2, <2>1, FieldType DEF RunType
  <2>3. task' \in Row
    BY <1>1, <1>2, Types DEF Row
  <2> QED BY <1>2, <2>2, <2>3, Types, RowStepType
         DEF PrepareClaimedTaskProviderCall, ActiveType
<1>3. CASE Return(c) /\ UNCHANGED task
  BY <1>3, Types, ReturnType, RowStepType DEF PrepareClaimedTaskProviderCall
<1> QED BY <1>2, <1>3 DEF PrepareClaimedTaskProviderCall

LEMMA MarkBillingReadType ==
  ASSUME TypeOK, NEW c \in Claim, MarkBillingRead(c) PROVE TypeOK'
<1>1. ProviderPc(c) \in Pc /\ "mark" \in Pc
  BY DEF ProviderPc, Pc
<1>2. CASE \E pc \in Pc : Goto(c, pc)
  <2>1. RunType'
    BY <1>2, Types, GotoType
  <2> QED BY <2>1, Types, RowStepType DEF MarkBillingRead, ActiveType
<1>3. CASE BillingFailed(c)
  <2>1. RunType'
    BY <1>3, Types, ConcludeType DEF BillingFailed, Pc, Plan
  <2> QED BY <2>1, Types, RowStepType DEF MarkBillingRead, ActiveType
<1> QED BY <1>1, <1>2, <1>3 DEF MarkBillingRead

LEMMA MarkBillingRunningType ==
  ASSUME TypeOK, NEW c \in Claim, MarkBillingRunning(c) PROVE TypeOK'
<1>1. order' \in [Attempt -> OrderStatus]
  BY Types DEF MarkBillingRunning, OrderStatus
<1>2. CASE Goto(c, ProviderPc(c)) /\ UNCHANGED used
  <2>1. RunType'
    BY <1>2, Types, GotoType DEF ProviderPc, Pc
  <2> QED BY <1>1, <1>2, <2>1, Types, OrderStepType
         DEF MarkBillingRunning, ActiveType, handlers
<1>3. CASE BillingFailed(c) /\ used' \in {used, [used EXCEPT !.clashed = @ \cup {run[c].order}]}
  <2>1. RunType'
    BY <1>3, Types, ConcludeType DEF BillingFailed, Pc, Plan
  <2>2. run[c].order \in Attempt
    BY Types
  <2>3. used' \in [cancels: 0..MaxCancel, crashes: 0..MaxCrash, resolved: SUBSET Attempt,
                 clashed: SUBSET Attempt]
    BY <1>3, <2>2 DEF TypeOK
  <2> QED BY <1>1, <2>1, <2>3 DEF MarkBillingRunning, TypeOK, RunType, system
<1> QED BY <1>2, <1>3 DEF MarkBillingRunning

LEMMA DispatchType ==
  ASSUME TypeOK, NEW c \in Claim, Dispatch(c) PROVE TypeOK'
<1>1. [task EXCEPT !.call = "dispatched"] \in Row
  BY Types DEF Row, CallState
<1>2. CASE task' = [task EXCEPT !.call = "dispatched"] /\ Goto(c, "send")
  <2>1. RunType'
    BY <1>2, Types, GotoType DEF Pc
  <2> QED BY <1>1, <1>2, <2>1, Types, RowStepType DEF Dispatch, ActiveType
<1>3. CASE Answer(c, "refresh", "notSent") /\ UNCHANGED task
  <2>1. RunType'
    BY <1>3, Types, AnswerType DEF Pc, Outcome
  <2> QED BY <1>3, <2>1, Types, RowStepType DEF Dispatch, ActiveType
<1> QED BY <1>2, <1>3 DEF Dispatch

LEMMA SendType ==
  ASSUME TypeOK, NEW c \in Claim, Send(c) PROVE TypeOK'
<1>1. ASSUME NEW pc \in Pc, NEW sent \in Sent, NEW x \in Outcome,
             run' = [run EXCEPT ![c].pc = pc, ![c].sent = sent, ![c].outcome = x]
      PROVE  RunType'
  <2> DEFINE f == [run EXCEPT ![c].pc = pc]
             g == [f EXCEPT ![c].sent = sent]
  <2>1. f \in [Claim -> Goroutine]
    BY Types, FieldType
  <2>2. g \in [Claim -> Goroutine]
    BY <2>1, FieldType
  <2>3. [g EXCEPT ![c].outcome = x] \in [Claim -> Goroutine]
    BY <2>2, FieldType
  <2> QED BY <1>1, <2>3 DEF RunType
<1>2. CASE Answer(c, "refresh", "ambiguous")
  <2>1. RunType'
    BY <1>2, Types, AnswerType DEF Pc, Outcome
  <2> QED BY <2>1, Types, RowStepType DEF Send, ActiveType
<1>3. CASE ~Answer(c, "refresh", "ambiguous")
  <2>1. \E pc \in Pc, sent \in Sent, x \in Outcome :
          run' = [run EXCEPT ![c].pc = pc, ![c].sent = sent, ![c].outcome = x]
    <3>1. PICK pc \in {"logOrder", "logTask", "refresh"}, sent \in {"accepted", "refused", "broken", "maybe"},
               x \in {"success", "refused", "ambiguous"} :
            run' = [run EXCEPT ![c].pc = pc, ![c].sent = sent, ![c].outcome = x]
      BY <1>3 DEF Send
    <3>2. pc \in Pc /\ sent \in Sent /\ x \in Outcome
      BY DEF Pc, Sent, Outcome
    <3> QED BY <3>1, <3>2
  <2>2. RunType'
    BY <1>1, <2>1
  <2> QED BY <2>2, Types, RowStepType DEF Send, ActiveType
<1> QED BY <1>2, <1>3

LEMMA LogOrderType ==
  ASSUME TypeOK, NEW c \in Claim, LogOrder(c) PROVE TypeOK'
<1>1. RunType'
  BY Types, GotoType DEF LogOrder, Pc
<1>2. orderReq' \in [Attempt -> BOOLEAN]
  BY Types DEF LogOrder
<1> QED BY <1>1, <1>2, Types, OrderStepType DEF LogOrder, ActiveType

LEMMA LogTaskType ==
  ASSUME TypeOK, NEW c \in Claim, LogTask(c) PROVE TypeOK'
<1>1. run[c].order \in 0..MaxAttempt
  BY Types
<1>2. task' \in Row
  BY <1>1, Types DEF LogTask, Row
<1>3. CASE billable' = TRUE /\ UNCHANGED order /\ \E pc \in Pc : Goto(c, pc)
  <2>1. RunType'
    BY <1>3, Types, GotoType
  <2> QED BY <1>2, <1>3, <2>1, Types, OrderStepType DEF LogTask, ActiveType
<1>4. CASE MarkUncertain(run[c].order) /\ Answer(c, "refresh", "ambiguous")
           /\ UNCHANGED billable
  <2>1. RunType'
    BY <1>4, Types, AnswerType DEF Pc, Outcome
  <2>2. order' \in [Attempt -> OrderStatus]
    BY <1>4, Types, LedgerStepType
  <2> QED BY <1>2, <1>4, <2>1, <2>2, Types, OrderStepType DEF LogTask, ActiveType
<1> QED BY <1>3, <1>4 DEF LogTask, Pc

LEMMA PollType ==
  ASSUME TypeOK, NEW c \in Claim, Poll(c) PROVE TypeOK'
<1>1. [task EXCEPT !.call = "dispatched"] \in Row
  BY Types DEF Row, CallState
<1>2. task' \in Row
  BY <1>1, Types DEF Poll
<1>3. PICK x \in Outcome : Answer(c, "refresh", x)
  BY DEF Poll, Outcome
<1>4. RunType'
  BY <1>3, Types, AnswerType DEF Pc
<1> QED BY <1>2, <1>4, Types, RowStepType DEF Poll, ActiveType

LEMMA RefreshType ==
  ASSUME TypeOK, NEW c \in Claim, Refresh(c) PROVE TypeOK'
<1> DEFINE req == IF task.req # 0 THEN task.req ELSE run[c].req
           pc == CASE run[c].outcome = "pending" -> "defer"
                   [] run[c].outcome = "success" -> "persist"
                   [] OTHER -> "judge"
           f == [run EXCEPT ![c].call = task.call]
           g == [f EXCEPT ![c].req = req]
<1>1. req \in 0..MaxAttempt /\ pc \in Pc
  BY Types DEF Pc
<1>2. f \in [Claim -> Goroutine]
  BY Types, FieldType
<1>3. g \in [Claim -> Goroutine]
  BY <1>1, <1>2, FieldType
<1>4. [g EXCEPT ![c].pc = pc] \in [Claim -> Goroutine]
  BY <1>1, <1>3, FieldType
<1>5. run' = [run EXCEPT ![c].call = task.call, ![c].req = req, ![c].pc = pc]
  BY Types DEF Refresh
<1>6. RunType'
  BY <1>4, <1>5 DEF RunType
<1> QED BY <1>6, Types, RowStepType DEF Refresh, ActiveType

LEMMA DeferType ==
  ASSUME TypeOK, NEW c \in Claim, Defer(c) PROVE TypeOK'
<1>1. [DeferredRow EXCEPT !.age = IF Late THEN @ ELSE @ + 1] \in Row
  BY Types, DeferredRowType DEF Row
<1> QED BY <1>1, Types, ReturnType, RowStepType DEF Defer

LEMMA PersistType ==
  ASSUME TypeOK, NEW c \in Claim, Persist(c) PROVE TypeOK'
<1>1. RunType'
  BY Types, GotoType, AnswerType DEF Persist, Pc, Outcome
<1> QED BY <1>1, Types, RowStepType DEF Persist, ActiveType

\* A result is checkpointed and the goroutine goes on.
LEMMA CheckpointedType ==
  ASSUME TypeOK, NEW c \in Claim, NEW pc \in Pc,
         task' = [task EXCEPT !.ckpt = TRUE],
         run' = [run EXCEPT ![c].pc = pc, ![c].ckpt = TRUE]
  PROVE  task' \in Row /\ RunType'
<1> DEFINE f == [run EXCEPT ![c].pc = pc]
<1>1. f \in [Claim -> Goroutine]
  BY Types, FieldType
<1>2. [f EXCEPT ![c].ckpt = TRUE] \in [Claim -> Goroutine]
  BY <1>1, FieldType
<1> QED BY <1>2, Types DEF Row, RunType

LEMMA SalvageType ==
  ASSUME TypeOK, NEW c \in Claim, Salvage(c) PROVE TypeOK'
<1>1. CASE /\ task' = [task EXCEPT !.ckpt = TRUE]
           /\ run' = [run EXCEPT ![c].pc = "judge", ![c].ckpt = TRUE]
           /\ UNCHANGED active
  <2>1. task' \in Row /\ RunType'
    BY <1>1, CheckpointedType DEF Pc
  <2> QED BY <1>1, <2>1, Types, RowStepType DEF Salvage, ActiveType
<1>2. CASE Goto(c, "judge") /\ UNCHANGED <<task, active>>
  <2>1. RunType'
    BY <1>2, Types, GotoType DEF Pc
  <2> QED BY <1>2, <2>1, Types, RowStepType DEF Salvage, ActiveType
<1>3. CASE Return(c) /\ UNCHANGED task
  BY <1>3, Types, ReturnType, RowStepType DEF Salvage
<1> QED BY <1>1, <1>2, <1>3 DEF Salvage

LEMMA RereadType ==
  ASSUME TypeOK, NEW c \in Claim, Reread(c) PROVE TypeOK'
<1>1. RunType'
  BY Types, GotoType, ConcludeType DEF Reread, Pc, Plan
<1> QED BY <1>1, Types, RowStepType DEF Reread, ActiveType

LEMMA ResultLostType ==
  ASSUME TypeOK, NEW c \in Claim, ResultConflict(c) \/ ResultNotSaved(c) PROVE RunType'
BY Types, ConcludeType DEF ResultConflict, ResultNotSaved, Pc, Plan

LEMMA CheckpointType ==
  ASSUME TypeOK, NEW c \in Claim, Checkpoint(c) PROVE TypeOK'
<1>1. CASE /\ task' = [task EXCEPT !.ckpt = TRUE]
           /\ run' = [run EXCEPT ![c].pc = "complete", ![c].ckpt = TRUE]
  <2>1. task' \in Row /\ RunType'
    BY <1>1, CheckpointedType DEF Pc
  <2> QED BY <2>1, Types, RowStepType DEF Checkpoint, ActiveType
<1>2. CASE (ResultConflict(c) \/ ResultNotSaved(c)) /\ UNCHANGED task
  BY <1>2, ResultLostType, Types, RowStepType DEF Checkpoint, ActiveType
<1> QED BY <1>1, <1>2 DEF Checkpoint

LEMMA CompleteType ==
  ASSUME TypeOK, NEW c \in Claim, Complete(c) PROVE TypeOK'
<1>1. CASE task' = SavedRow(c, "succeeded") /\ Goto(c, "settle")
  <2>1. task' \in Row
    BY <1>1, Types, SavedRowType DEF Status
  <2>2. RunType'
    BY <1>1, Types, GotoType DEF Pc
  <2> QED BY <2>1, <2>2, Types, RowStepType DEF Complete, ActiveType
<1>2. CASE (ResultConflict(c) \/ ResultNotSaved(c)) /\ UNCHANGED task
  BY <1>2, ResultLostType, Types, RowStepType DEF Complete, ActiveType
<1> QED BY <1>1, <1>2 DEF Complete

LEMMA SettleType ==
  ASSUME TypeOK, NEW c \in Claim, Settle(c) PROVE TypeOK'
<1>1. order' \in [Attempt -> OrderStatus]
  BY Types, LedgerStepType DEF Settle
<1> QED BY <1>1, Types, ReturnType, OrderStepType DEF Settle

LEMMA JudgeFailureType ==
  ASSUME TypeOK, NEW c \in Claim, JudgeFailure(c) PROVE TypeOK'
<1>1. CASE Return(c)
  BY <1>1, Types, ReturnType, RowStepType DEF JudgeFailure
<1>2. CASE ~Return(c)
  <2>1. PICK end \in {"failed", "cancelled"} : Conclude(c, "save", end, FailurePlan(c, end))
    BY <1>2 DEF JudgeFailure
  <2>2. FailurePlan(c, end) \in Plan
    BY DEF FailurePlan, Plan
  <2>3. RunType'
    BY <2>1, <2>2, Types, ConcludeType DEF Pc
  <2> QED BY <1>2, <2>3, Types, RowStepType DEF JudgeFailure, ActiveType
<1> QED BY <1>1, <1>2

LEMMA SaveTerminalType ==
  ASSUME TypeOK, NEW c \in Claim, SaveTerminal(c) PROVE TypeOK'
<1>1. task' \in Row
  BY Types, SavedRowType DEF SaveTerminal, Status
<1>2. RunType'
  BY Types, GotoType, ConcludeType DEF SaveTerminal, Pc, Plan
<1> QED BY <1>1, <1>2, Types, RowStepType DEF SaveTerminal, ActiveType

LEMMA ConflictType ==
  ASSUME TypeOK, NEW c \in Claim, Conflict(c) PROVE TypeOK'
<1>1. CASE Return(c)
  BY <1>1, Types, ReturnType, RowStepType DEF Conflict
<1>2. CASE Conclude(c, "billing", run[c].end, "uncertain") /\ UNCHANGED active
  <2>1. RunType'
    BY <1>2, Types, ConcludeType DEF Pc, Plan
  <2> QED BY <1>2, <2>1, Types, RowStepType DEF Conflict, ActiveType
<1> QED BY <1>1, <1>2 DEF Conflict

LEMMA SaveAlwaysType ==
  ASSUME TypeOK, NEW c \in Claim, SaveAlways(c) PROVE TypeOK'
<1>1. task' \in Row
  BY Types, SavedRowType DEF SaveAlways, Status
<1>2. RunType'
  BY Types, GotoType DEF SaveAlways, Pc
<1> QED BY <1>1, <1>2, Types, RowStepType DEF SaveAlways, ActiveType

LEMMA BillingType ==
  ASSUME TypeOK, NEW c \in Claim, Billing(c) PROVE TypeOK'
<1>1. order' \in [Attempt -> OrderStatus]
  BY Types, LedgerStepType DEF Billing
<1> QED BY <1>1, Types, ReturnType, OrderStepType DEF Billing

LEMMA PanicType ==
  ASSUME TypeOK, NEW c \in Claim, Panic(c) PROVE TypeOK'
<1> DEFINE f == [run EXCEPT ![c].pc = "panicked"]
<1>1. f \in [Claim -> Goroutine]
  BY Types, FieldType DEF Pc
<1>2. [f EXCEPT ![c].registered = FALSE] \in [Claim -> Goroutine]
  BY <1>1, FieldType
<1>3. RunType'
  BY <1>2 DEF RunType, Panic
<1> QED BY <1>3, Types, UnregisterType, RowStepType DEF Panic

LEMMA PanicJudgeType ==
  ASSUME TypeOK, NEW c \in Claim, PanicJudge(c) PROVE TypeOK'
<1> DEFINE status == order[run[c].order]
           plan == CASE status = "reserved" -> "refund"
                     [] status = "running" /\ task.call \in NotStarted -> "refund"
                     [] status \in {"running", "uncertain"} -> "uncertain"
                     [] OTHER -> "none"
           f == [run EXCEPT ![c].pc = "saveAlways"]
           g == [f EXCEPT ![c].call = task.call]
           h == [g EXCEPT ![c].end = "failed"]
<1>1. plan \in Plan
  BY DEF Plan
<1>2. f \in [Claim -> Goroutine]
  BY Types, FieldType DEF Pc
<1>3. g \in [Claim -> Goroutine]
  BY <1>2, Types, FieldType
<1>4. h \in [Claim -> Goroutine]
  BY <1>3, FieldType
<1>5. ASSUME NEW x \in Plan PROVE [h EXCEPT ![c].plan = x] \in [Claim -> Goroutine]
  <2> HIDE DEF h
  <2> QED BY <1>4, FieldType
<1>6. RunType'
  BY <1>1, <1>5 DEF RunType, PanicJudge
<1> QED BY <1>6, Types, RowStepType DEF PanicJudge, ActiveType

(***************************************************************************)
(* The leases, the clock and the processes.                                *)
(***************************************************************************)

LEMMA ClockType ==
  ASSUME TypeOK,
         LeaseExpires \/ Timeout \/ PollDue \/ \E c \in Claim : RenewTaskLease(c)
  PROVE  TypeOK'
<1>1. MaxAge \in 0..MaxAge
  BY BoundAssumption
<1>2. task' \in Row
  BY <1>1, Types DEF LeaseExpires, Timeout, PollDue, RenewTaskLease, Row
<1>3. UNCHANGED <<ledger, run, active, system, handlers>>
  BY DEF LeaseExpires, Timeout, PollDue, RenewTaskLease
<1> QED BY <1>2, <1>3, Types, RowStepType DEF RunType, ActiveType

LEMMA ClaimNextTaskType ==
  ASSUME TypeOK, NEW p \in Proc, ClaimNextTask(p) PROVE TypeOK'
<1>1. ClaimedCall \in CallState /\ task.ckpt \in BOOLEAN
  BY Types DEF ClaimedCall, CallState, Row
<1>2. task' \in Row
  BY <1>1, Types DEF ClaimNextTask, Row, Status
<1>3. /\ claims \in 0..MaxClaim /\ claims' = claims + 1 /\ claims < MaxClaim
  BY DEF ClaimNextTask, TypeOK
<1>4. claims' \in 0..MaxClaim /\ claims + 1 \in Claim
  BY <1>3, BoundAssumption DEF Claim
<1>5. [NoRun EXCEPT !.pc = "claimed", !.proc = p, !.order = task.order,
                    !.recovered = task.status = "running", !.call = ClaimedCall,
                    !.req = task.req, !.ckpt = task.ckpt] \in Goroutine
  <2>1. task.order \in Attempt /\ task.req \in 0..MaxAttempt
    BY Types DEF Row
  <2>2. "claimed" \in Pc /\ p \in Proc \cup {NoProc} /\ (task.status = "running") \in BOOLEAN
    BY DEF Pc
  <2> QED BY <1>1, <2>1, <2>2, NoRunType DEF Goroutine
<1>6. RunType'
  BY <1>4, <1>5, Types DEF ClaimNextTask, RunType
<1> QED BY <1>2, <1>4, <1>6 DEF ClaimNextTask, TypeOK, RunType, ledger, handlers

LEMMA CrashType ==
  ASSUME TypeOK, NEW p \in Proc, Crash(p) PROVE TypeOK'
<1>1. RunType'
  BY Types, FinishedType DEF Crash, RunType
<1>2. ActiveType'
  BY Types, BoundAssumption DEF Crash, ActiveType
<1>3. used' \in [cancels: 0..MaxCancel, crashes: 0..MaxCrash, resolved: SUBSET Attempt,
                 clashed: SUBSET Attempt]
  BY BoundAssumption DEF Crash, TypeOK
<1>4. /\ up' \in SUBSET Proc /\ retry' \in Proc \cup {NoProc}
      /\ cancel' \in [pc: CancelPc, proc: Proc \cup {NoProc}, order: Attempt]
  BY BoundAssumption DEF Crash, TypeOK, CancelPc, Attempt
<1> QED BY <1>1, <1>2, <1>3, <1>4 DEF Crash, TypeOK, RunType, ActiveType, ledger

(***************************************************************************)
(* The handlers.                                                           *)
(***************************************************************************)

CancelType ==
  cancel \in [pc: CancelPc, proc: Proc \cup {NoProc}, order: Attempt]

LEMMA CancelReadType ==
  ASSUME TypeOK, NEW p \in Proc, CancelRead(p) PROVE TypeOK'
<1>1. CancelType'
  BY Types DEF CancelRead, CancelPc, CancelType
<1>2. used' \in [cancels: 0..MaxCancel, crashes: 0..MaxCrash, resolved: SUBSET Attempt,
                 clashed: SUBSET Attempt]
  BY BoundAssumption DEF CancelRead, TypeOK
<1> QED BY <1>1, <1>2 DEF CancelRead, CancelType, TypeOK, ledger, system

LEMMA CancelStepCancelType ==
  ASSUME TypeOK, CancelStep PROVE CancelType'
<1>1. CancelType
  BY DEF TypeOK, CancelType
<1>2. NoCancel \in [pc: CancelPc, proc: Proc \cup {NoProc}, order: Attempt]
  BY BoundAssumption DEF NoCancel, CancelPc, Attempt
<1>3. ASSUME CancelQueued PROVE CancelType'
  BY <1>1, <1>2, <1>3, Types DEF CancelQueued, CancelGoto, CancelPc, CancelType
<1>4. ASSUME CancelSoft PROVE CancelType'
  BY <1>1, <1>4 DEF CancelSoft, CancelGoto, CancelPc, CancelType
<1>5. ASSUME CancelHard PROVE CancelType'
  BY <1>1, <1>5 DEF CancelHard, CancelGoto, CancelPc, CancelType
<1>6. ASSUME CancelReread PROVE CancelType'
  BY <1>1, <1>2, <1>6, Types DEF CancelReread, CancelPc, CancelType
<1>7. ASSUME CancelFails \/ CancelRefund \/ CancelReview PROVE CancelType'
  BY <1>2, <1>7 DEF CancelFails, CancelRefund, CancelReview, CancelType
<1> QED BY <1>3, <1>4, <1>5, <1>6, <1>7 DEF CancelStep

LEMMA CancelStepType ==
  ASSUME TypeOK, CancelStep PROVE TypeOK'
<1>1. CancelType'
  BY CancelStepCancelType
<1>2. task' \in Row
  BY Types, CancelledRowType
     DEF CancelStep, CancelQueued, CancelSoft, CancelHard, CancelReread, CancelFails,
         CancelRefund, CancelReview
<1>3. RunType'
  <2>1. CASE CancelSoft
    BY <2>1, Types, SignalActiveType DEF CancelSoft
  <2>2. CASE ~CancelSoft
    BY <2>2, Types
       DEF CancelStep, CancelQueued, CancelHard, CancelReread, CancelFails,
           CancelRefund, CancelReview, RunType
  <2> QED BY <2>1, <2>2
<1>4. order' \in [Attempt -> OrderStatus]
  <2>1. CASE CancelRefund \/ CancelReview
    BY <2>1, Types, LedgerStepType DEF CancelRefund, CancelReview
  <2>2. CASE ~(CancelRefund \/ CancelReview)
    BY <2>2, Types
       DEF CancelStep, CancelQueued, CancelSoft, CancelHard, CancelReread, CancelFails,
           ledger
  <2> QED BY <2>1, <2>2
<1>5. UNCHANGED <<orderReq, billable, active, system, retry, used>>
  BY DEF CancelStep, CancelQueued, CancelSoft, CancelHard, CancelReread, CancelFails,
         CancelRefund, CancelReview, ledger
<1> QED BY <1>1, <1>2, <1>3, <1>4, <1>5 DEF CancelType, RunType, TypeOK, system

LEMMA RetryCheckType ==
  ASSUME TypeOK, NEW p \in Proc, RetryCheck(p) PROVE TypeOK'
BY DEF RetryCheck, TypeOK, ledger, system

LEMMA RetryTxType ==
  ASSUME TypeOK, RetryTx PROVE TypeOK'
<1>1. \A a \in Attempt :
        [status |-> "queued", order |-> a, call |-> "pending", req |-> 0,
         ckpt |-> FALSE, owner |-> NoProc, lease |-> FALSE, due |-> TRUE,
         age |-> 0] \in Row
  BY BoundAssumption DEF Row, Status, CallState
<1>2. task' \in Row
  BY <1>1, Types DEF RetryTx
<1>3. order' \in [Attempt -> OrderStatus]
  BY Types DEF RetryTx, OrderStatus
<1> QED BY <1>2, <1>3 DEF RetryTx, TypeOK, system

LEMMA ResolveBillingOrderType ==
  ASSUME TypeOK, NEW a \in Attempt, ResolveBillingOrder(a) PROVE TypeOK'
<1>1. order' \in [Attempt -> OrderStatus]
  BY Types DEF ResolveBillingOrder, OrderStatus
<1>2. used' \in [cancels: 0..MaxCancel, crashes: 0..MaxCrash, resolved: SUBSET Attempt,
                 clashed: SUBSET Attempt]
  BY DEF ResolveBillingOrder, TypeOK
<1> QED BY <1>1, <1>2 DEF ResolveBillingOrder, TypeOK, system

(***************************************************************************)
(* Type correctness.                                                       *)
(***************************************************************************)

LEMMA InitType == Init => TypeOK
<1> SUFFICES ASSUME Init PROVE TypeOK
  OBVIOUS
<1>1. 1 \in Attempt /\ 0 \in 0..MaxAttempt /\ 0 \in 0..MaxAge /\ 0 \in 0..MaxClaim
      /\ 0 \in 0..MaxCancel /\ 0 \in 0..MaxCrash
  BY BoundAssumption DEF Attempt
<1>2. task \in Row
  BY <1>1 DEF Init, Row, Status, CallState
<1>3. run \in [Claim -> Goroutine]
  BY NoRunType DEF Init
<1> QED BY <1>1, <1>2, <1>3 DEF Init, TypeOK, OrderStatus, CancelPc

LEMMA StepType ==
  ASSUME TypeOK, NEW c \in Claim, Step(c) PROVE TypeOK'
BY HydrateType, DecideType, CapacityType, CapacityFailedType, PrepareType,
   MarkBillingReadType, MarkBillingRunningType, DispatchType, SendType, LogOrderType, LogTaskType,
   PollType, RefreshType, DeferType, PersistType, SalvageType, RereadType,
   CheckpointType, CompleteType, SettleType, JudgeFailureType, SaveTerminalType,
   ConflictType, SaveAlwaysType, BillingType, PanicJudgeType
   DEF Step

LEMMA NextType ==
  ASSUME TypeOK, Next PROVE TypeOK'
BY StepType, ClockType, AbandonType, PanicType, ClaimNextTaskType, CrashType,
   CancelReadType, CancelStepType, RetryCheckType, RetryTxType,
   ResolveBillingOrderType
   DEF Next

\* Every reachable row, order, goroutine and handler has its type; in
\* particular the row always names an attempt that exists, and no statement
\* sequence leaves a call state, a plan or a provider id outside its domain.
THEOREM TypeCorrect == Spec => []TypeOK
<1>1. TypeOK /\ [Next]_vars => TypeOK'
  <2>1. CASE Next
    BY <2>1, NextType
  <2>2. CASE UNCHANGED vars
    BY <2>2 DEF TypeOK, vars
  <2> QED BY <2>1, <2>2
<1> QED BY InitType, <1>1, PTL DEF Spec

(***************************************************************************)
(* A row belongs to one attempt.  All actions but ClaimNextTask and RetryTx *)
(* leave the goroutines, the row and the orders in the frame below: no      *)
(* goroutine starts, the row keeps its attempt and gains no holder, a       *)
(* finished task stays finished and no order appears.                       *)
(***************************************************************************)

GoroutinesKeep ==
  \A d \in Claim : Live(d)' =>
    /\ Live(d)
    /\ run'[d].proc = run[d].proc
    /\ run'[d].order = run[d].order
    /\ run'[d].req \in {run[d].req, run[d].order, task.req}

RowKeeps ==
  /\ task'.order = task.order
  /\ task'.req \in {0, task.order}
  /\ task'.status = "running" =>
       task.status = "running" /\ task'.owner \in {task.owner, NoProc}
  /\ task.status \in Terminal => task'.status = task.status

OrdersKeep == \A a \in Attempt : order'[a] = "none" <=> order[a] = "none"

\* A live goroutine is replaced by one of the same process and attempt.
LEMMA UpdateKeeps ==
  ASSUME TypeOK, NEW c \in Claim, Live(c), NEW r,
         run' = [run EXCEPT ![c] = r],
         \/ r.pc = "done"
         \/ /\ r.proc = run[c].proc /\ r.order = run[c].order
            /\ r.req \in {run[c].req, run[c].order, task.req}
  PROVE  GoroutinesKeep
BY Types DEF GoroutinesKeep, Live

LEMMA GotoKeeps ==
  ASSUME TypeOK, NEW c \in Claim, Live(c),
         \/ \E pc \in Pc : Goto(c, pc)
         \/ \E pc \in Pc, x \in Outcome : Answer(c, pc, x)
         \/ \E pc \in Pc, end \in {"failed", "cancelled"}, plan \in Plan :
              Conclude(c, pc, end, plan)
  PROVE  GoroutinesKeep
<1>0. run \in [Claim -> Goroutine]
  BY Types
<1>1. run[c] \in Goroutine
  BY <1>0
<1>2. CASE \E pc \in Pc : Goto(c, pc)
  <2>1. PICK pc \in Pc : run' = [run EXCEPT ![c] = [run[c] EXCEPT !.pc = pc]]
    BY <1>2, Types DEF Goto
  <2> QED BY <1>1, <2>1, UpdateKeeps DEF Goroutine
<1>3. CASE \E pc \in Pc, x \in Outcome : Answer(c, pc, x)
  <2>1. PICK pc \in Pc, x \in Outcome :
          run' = [run EXCEPT ![c] = [run[c] EXCEPT !.pc = pc, !.outcome = x]]
    BY <1>3, Types DEF Answer
  <2> QED BY <1>1, <2>1, UpdateKeeps DEF Goroutine
<1>4. CASE \E pc \in Pc, end \in {"failed", "cancelled"}, plan \in Plan :
             Conclude(c, pc, end, plan)
  <2>0. PICK pc \in Pc, end \in {"failed", "cancelled"}, plan \in Plan :
          Conclude(c, pc, end, plan)
    BY <1>4
  <2> DEFINE r == [run[c] EXCEPT !.pc = pc, !.end = end, !.plan = plan]
  <2>1. run' = [run EXCEPT ![c] = r]
    BY <1>0, <2>0 DEF Conclude
  <2>2. r.proc = run[c].proc /\ r.order = run[c].order /\ r.req = run[c].req
    BY <1>1 DEF Goroutine
  <2> HIDE DEF r
  <2> QED BY <2>1, <2>2, UpdateKeeps
<1> QED BY <1>2, <1>3, <1>4

LEMMA ReturnKeeps ==
  ASSUME TypeOK, NEW c \in Claim, Live(c), Return(c) PROVE GoroutinesKeep
<1>1. Finished(run[c]).pc = "done"
  BY DEF Finished, NoRun
<1> QED BY <1>1, UpdateKeeps DEF Return

\* The steps that write more of the goroutine than its position and verdict.
LEMMA RecordKeeps ==
  ASSUME TypeOK, NEW c \in Claim, Live(c),
         \/ Hydrate(c) \/ Decide(c) \/ PrepareClaimedTaskProviderCall(c) \/ Send(c)
         \/ Refresh(c) \/ Salvage(c) \/ Checkpoint(c) \/ Panic(c) \/ PanicJudge(c)
  PROVE  GoroutinesKeep
<1>0. run \in [Claim -> Goroutine] /\ run[c] \in Goroutine
  BY Types
<1>1. ASSUME NEW r, run' = [run EXCEPT ![c] = r],
             r.proc = run[c].proc, r.order = run[c].order,
             r.req \in {run[c].req, run[c].order, task.req}
      PROVE  GoroutinesKeep
  BY <1>1, UpdateKeeps
<1>2. ASSUME \/ \E pc \in Pc : Goto(c, pc)
             \/ \E pc \in Pc, x \in Outcome : Answer(c, pc, x)
             \/ \E pc \in Pc, e \in {"failed", "cancelled"}, plan \in Plan :
                  Conclude(c, pc, e, plan)
             \/ Return(c)
      PROVE  GoroutinesKeep
  BY <1>2, GotoKeeps, ReturnKeeps
<1>3. CASE Hydrate(c)
  <2>1. CASE run' = [run EXCEPT ![c].pc = "decide", ![c].req = run[c].order]
    <3> DEFINE r == [run[c] EXCEPT !.pc = "decide", !.req = run[c].order]
    <3>1. run' = [run EXCEPT ![c] = r]
      BY <1>0, <2>1
    <3>2. r.proc = run[c].proc /\ r.order = run[c].order /\ r.req = run[c].order
      BY <1>0 DEF Goroutine
    <3> HIDE DEF r
    <3> QED BY <1>1, <3>1, <3>2
  <2>2. CASE Goto(c, "decide") \/ Return(c)
    BY <1>2, <2>2 DEF Pc
  <2> QED BY <1>3, <2>1, <2>2 DEF Hydrate
<1>4. CASE Decide(c)
  <2>1. ASSUME NEW pc, run' = [run EXCEPT ![c].pc = pc, ![c].registered = TRUE]
        PROVE  GoroutinesKeep
    <3> DEFINE r == [run[c] EXCEPT !.pc = pc, !.registered = TRUE]
    <3>1. run' = [run EXCEPT ![c] = r]
      BY <1>0, <2>1
    <3>2. r.proc = run[c].proc /\ r.order = run[c].order /\ r.req = run[c].req
      BY <1>0 DEF Goroutine
    <3> HIDE DEF r
    <3> QED BY <1>1, <3>1, <3>2
  <2>2. ASSUME NEW plan \in Plan, Conclude(c, "saveAlways", "failed", plan)
        PROVE  GoroutinesKeep
    BY <1>2, <2>2 DEF Pc
  <2> QED BY <1>4, <2>1, <2>2 DEF Decide, Plan
<1>5. CASE PrepareClaimedTaskProviderCall(c)
  <2>1. ASSUME NEW x, run' = [run EXCEPT ![c].pc = "bill", ![c].call = x]
        PROVE  GoroutinesKeep
    <3> DEFINE r == [run[c] EXCEPT !.pc = "bill", !.call = x]
    <3>1. run' = [run EXCEPT ![c] = r]
      BY <1>0, <2>1
    <3>2. r.proc = run[c].proc /\ r.order = run[c].order /\ r.req = run[c].req
      BY <1>0 DEF Goroutine
    <3> HIDE DEF r
    <3> QED BY <1>1, <3>1, <3>2
  <2> QED BY <1>2, <1>5, <2>1 DEF PrepareClaimedTaskProviderCall
<1>6. CASE Send(c)
  <2>1. ASSUME NEW pc, NEW sent, NEW x,
               run' = [run EXCEPT ![c].pc = pc, ![c].sent = sent, ![c].outcome = x]
        PROVE  GoroutinesKeep
    <3> DEFINE r == [run[c] EXCEPT !.pc = pc, !.sent = sent, !.outcome = x]
    <3>1. run' = [run EXCEPT ![c] = r]
      BY <1>0, <2>1
    <3>2. r.proc = run[c].proc /\ r.order = run[c].order /\ r.req = run[c].req
      BY <1>0 DEF Goroutine
    <3> HIDE DEF r
    <3> QED BY <1>1, <3>1, <3>2
  <2>2. CASE Answer(c, "refresh", "ambiguous")
    BY <1>2, <2>2 DEF Pc, Outcome
  <2> QED BY <1>6, <2>1, <2>2 DEF Send
<1>7. CASE Refresh(c)
  <2> DEFINE pc == CASE run[c].outcome = "pending" -> "defer"
                     [] run[c].outcome = "success" -> "persist"
                     [] OTHER -> "judge"
  <2>1. PICK req \in {run[c].req, task.req} :
          run' = [run EXCEPT ![c].call = task.call, ![c].req = req, ![c].pc = pc]
    BY <1>0, <1>7 DEF Refresh
  <2> HIDE DEF pc
  <2> DEFINE r == [run[c] EXCEPT !.call = task.call, !.req = req, !.pc = pc]
  <2>2. run' = [run EXCEPT ![c] = r]
    BY <1>0, <2>1
  <2>3. r.proc = run[c].proc /\ r.order = run[c].order /\ r.req = req
    BY <1>0 DEF Goroutine
  <2> HIDE DEF r
  <2> QED BY <1>1, <2>2, <2>3
<1>8. CASE Salvage(c) \/ Checkpoint(c)
  <2>1. ASSUME NEW pc, run' = [run EXCEPT ![c].pc = pc, ![c].ckpt = TRUE]
        PROVE  GoroutinesKeep
    <3> DEFINE r == [run[c] EXCEPT !.pc = pc, !.ckpt = TRUE]
    <3>1. run' = [run EXCEPT ![c] = r]
      BY <1>0, <2>1
    <3>2. r.proc = run[c].proc /\ r.order = run[c].order /\ r.req = run[c].req
      BY <1>0 DEF Goroutine
    <3> HIDE DEF r
    <3> QED BY <1>1, <3>1, <3>2
  <2>2. run[c].end \in {"failed", "cancelled"}
    BY Types
  <2>3. CASE Goto(c, "judge") \/ Return(c)
    BY <1>2, <2>3 DEF Pc
  <2>4. CASE ResultConflict(c) \/ ResultNotSaved(c)
    BY <1>2, <2>2, <2>4 DEF ResultConflict, ResultNotSaved, Pc, Plan
  <2> QED BY <1>8, <2>1, <2>3, <2>4 DEF Salvage, Checkpoint
<1>9. CASE Panic(c)
  <2> DEFINE r == [run[c] EXCEPT !.pc = "panicked", !.registered = FALSE]
  <2>1. run' = [run EXCEPT ![c] = r]
    BY <1>0, <1>9 DEF Panic
  <2>2. r.proc = run[c].proc /\ r.order = run[c].order /\ r.req = run[c].req
    BY <1>0 DEF Goroutine
  <2> HIDE DEF r
  <2> QED BY <1>1, <2>1, <2>2
<1>10. CASE PanicJudge(c)
  <2>1. PICK plan : run' = [run EXCEPT ![c].pc = "saveAlways", ![c].call = task.call,
                                       ![c].end = "failed", ![c].plan = plan]
    BY <1>10 DEF PanicJudge
  <2> DEFINE r == [run[c] EXCEPT !.pc = "saveAlways", !.call = task.call,
                                 !.end = "failed", !.plan = plan]
  <2>2. run' = [run EXCEPT ![c] = r]
    BY <1>0, <2>1
  <2>3. r.proc = run[c].proc /\ r.order = run[c].order /\ r.req = run[c].req
    BY <1>0 DEF Goroutine
  <2> HIDE DEF r
  <2> QED BY <1>1, <2>2, <2>3
<1> QED BY <1>3, <1>4, <1>5, <1>6, <1>7, <1>8, <1>9, <1>10

LEMMA StepKeepsGoroutines ==
  ASSUME TypeOK, NEW c \in Claim, Step(c) PROVE GoroutinesKeep
<1>1. Live(c)
  BY DEF Step, Live, At, Hydrate, Decide, Capacity, CapacityFailed,
         PrepareClaimedTaskProviderCall, MarkBillingRead, MarkBillingRunning, Dispatch, Send, LogOrder,
         LogTask, Poll, Refresh, Defer, Persist, Salvage, Reread, Checkpoint, Complete,
         Settle, JudgeFailure, SaveTerminal, Conflict, SaveAlways, Billing, PanicJudge
<1>2. CASE \/ Hydrate(c) \/ Decide(c) \/ PrepareClaimedTaskProviderCall(c) \/ Send(c)
           \/ Refresh(c) \/ Salvage(c) \/ Checkpoint(c) \/ PanicJudge(c)
  BY <1>1, <1>2, RecordKeeps
<1>3. run[c].end \in {"failed", "cancelled"}
  BY Types
<1>4. ASSUME \/ \E pc \in Pc : Goto(c, pc)
             \/ \E pc \in Pc, x \in Outcome : Answer(c, pc, x)
             \/ \E pc \in Pc, end \in {"failed", "cancelled"}, plan \in Plan :
                  Conclude(c, pc, end, plan)
             \/ Return(c)
      PROVE  GoroutinesKeep
  BY <1>1, <1>4, GotoKeeps, ReturnKeeps
<1>5. CASE Capacity(c) \/ CapacityFailed(c) \/ MarkBillingRead(c) \/ MarkBillingRunning(c)
  BY <1>4, <1>5 DEF Capacity, CapacityFailed, MarkBillingRead, MarkBillingRunning, ProviderPc,
                    BillingFailed, Pc, Plan
<1>6. CASE Dispatch(c) \/ LogOrder(c) \/ LogTask(c) \/ Poll(c)
  BY <1>4, <1>6 DEF Dispatch, LogOrder, LogTask, Poll, Pc, Outcome
<1>7. CASE Defer(c) \/ Persist(c) \/ Reread(c) \/ Settle(c)
  BY <1>3, <1>4, <1>7 DEF Defer, Persist, Reread, Settle, Pc, Outcome, Plan
<1>8. CASE Complete(c)
  BY <1>3, <1>4, <1>8 DEF Complete, ResultConflict, ResultNotSaved, Pc, Plan
<1>9. CASE JudgeFailure(c)
  <2>1. \A end : FailurePlan(c, end) \in Plan
    BY DEF FailurePlan, Plan
  <2> QED BY <1>4, <1>9, <2>1 DEF JudgeFailure, Pc
<1>10. CASE SaveTerminal(c) \/ Conflict(c) \/ SaveAlways(c) \/ Billing(c)
  BY <1>3, <1>4, <1>10 DEF SaveTerminal, Conflict, SaveAlways, Billing, Pc, Plan
<1> QED BY <1>2, <1>5, <1>6, <1>7, <1>8, <1>9, <1>10 DEF Step

LEMMA NextKeepsGoroutines ==
  ASSUME TypeOK, Next, ~\E p \in Proc : ClaimNextTask(p) PROVE GoroutinesKeep
<1>0. run \in [Claim -> Goroutine]
  BY Types
<1>1. ASSUME UNCHANGED run PROVE GoroutinesKeep
  BY <1>1 DEF GoroutinesKeep, Live
<1>2. ASSUME NEW c \in Claim, Step(c) PROVE GoroutinesKeep
  BY <1>2, StepKeepsGoroutines
<1>3. ASSUME NEW c \in Claim, Abandon(c) \/ Panic(c) PROVE GoroutinesKeep
  BY <1>3, RecordKeeps, ReturnKeeps DEF Abandon, Panic, Live
<1>4. ASSUME NEW p \in Proc, Crash(p) PROVE GoroutinesKeep
  BY <1>0, <1>4 DEF Crash, GoroutinesKeep, Live, Finished, NoRun
<1>5. CASE CancelSoft
  <2>1. CASE active[cancel.proc] \in Claim
    <3> DEFINE a == active[cancel.proc]
               r == [run[a] EXCEPT !.signalled = TRUE]
    <3>1. run' = run \/ run' = [run EXCEPT ![a] = r]
      BY <1>0, <1>5, <2>1 DEF CancelSoft, SignalActive
    <3>2. /\ r.proc = run[a].proc /\ r.order = run[a].order /\ r.req = run[a].req
          /\ r.pc = run[a].pc
      BY <1>0, <2>1 DEF Goroutine
    <3> HIDE DEF r, a
    <3> QED BY <1>0, <2>1, <3>1, <3>2 DEF GoroutinesKeep, Live, a
  <2>2. CASE active[cancel.proc] \notin Claim
    <3>1. run' = run
      BY <1>0, <1>5, <2>2 DEF CancelSoft, SignalActive
    <3> QED BY <1>1, <3>1
  <2> QED BY <2>1, <2>2
<1>6. ASSUME \/ \E c \in Claim : RenewTaskLease(c)
             \/ \E p \in Proc : CancelRead(p) \/ RetryCheck(p)
             \/ \E a \in Attempt : ResolveBillingOrder(a)
             \/ LeaseExpires \/ Timeout \/ PollDue
             \/ CancelQueued \/ CancelHard \/ CancelReread \/ CancelFails
             \/ CancelRefund \/ CancelReview \/ RetryTx
      PROVE  GoroutinesKeep
  BY <1>1, <1>6
     DEF RenewTaskLease, CancelRead, RetryCheck, ResolveBillingOrder, LeaseExpires,
         Timeout, PollDue, CancelQueued, CancelHard, CancelReread, CancelFails,
         CancelRefund, CancelReview, RetryTx
<1> QED BY <1>2, <1>3, <1>4, <1>5, <1>6 DEF Next, CancelStep

LEMMA OrderAfterKeeps ==
  ASSUME TypeOK, NEW a,
         MarkUncertain(a) \/ RefundFromExecution(a) \/ SettleFromExecution(a)
  PROVE  OrdersKeep
BY Types DEF MarkUncertain, RefundFromExecution, SettleFromExecution, OrderAfter, OrdersKeep

LEMMA NextKeepsOrders ==
  ASSUME TypeOK, Next, ~RetryTx PROVE OrdersKeep
<1>1. ASSUME UNCHANGED order PROVE OrdersKeep
  BY <1>1 DEF OrdersKeep
<1>2. ASSUME NEW c \in Claim, MarkBillingRunning(c) PROVE OrdersKeep
  BY <1>1, <1>2, Types DEF MarkBillingRunning, OrdersKeep
<1>3. ASSUME NEW c \in Claim, LogTask(c) \/ Settle(c) \/ Billing(c) PROVE OrdersKeep
  BY <1>1, <1>3, OrderAfterKeeps DEF LogTask, Settle, Billing
<1>4. ASSUME NEW c \in Claim, Step(c),
             ~(MarkBillingRunning(c) \/ LogTask(c) \/ Settle(c) \/ Billing(c))
      PROVE  OrdersKeep
  BY <1>1, <1>4
     DEF Step, Hydrate, Decide, Capacity, CapacityFailed, PrepareClaimedTaskProviderCall,
         MarkBillingRead, Dispatch, Send, LogOrder, Poll, Refresh, Defer, Persist, Salvage,
         Reread, Checkpoint, Complete, JudgeFailure, SaveTerminal, Conflict, SaveAlways,
         PanicJudge, ledger
<1>5. ASSUME \/ \E c \in Claim : RenewTaskLease(c) \/ Abandon(c) \/ Panic(c)
             \/ \E p \in Proc : ClaimNextTask(p) \/ Crash(p) \/ CancelRead(p) \/ RetryCheck(p)
             \/ LeaseExpires \/ Timeout \/ PollDue
             \/ CancelQueued \/ CancelSoft \/ CancelHard \/ CancelReread \/ CancelFails
      PROVE  OrdersKeep
  BY <1>1, <1>5
     DEF RenewTaskLease, Abandon, Panic, ClaimNextTask, Crash, CancelRead, RetryCheck,
         LeaseExpires, Timeout, PollDue, CancelQueued, CancelSoft, CancelHard, CancelReread,
         CancelFails, ledger
<1>6. ASSUME CancelRefund \/ CancelReview PROVE OrdersKeep
  BY <1>1, <1>6, OrderAfterKeeps DEF CancelRefund, CancelReview
<1>7. ASSUME NEW a \in Attempt, ResolveBillingOrder(a) PROVE OrdersKeep
  BY <1>7, Types DEF ResolveBillingOrder, Open, OrdersKeep
<1> QED BY <1>2, <1>3, <1>4, <1>5, <1>6, <1>7 DEF Next, CancelStep

\* The statements that write the row: of a goroutine, which saves its own
\* attempt only while it holds the row; of the clock; of a cancellation.
LEMMA NextKeepsRow ==
  ASSUME AttemptInv, Next, ~RetryTx, ~\E p \in Proc : ClaimNextTask(p)
  PROVE  RowKeeps
<1>0. /\ TypeOK /\ task \in Row /\ task.req \in {0, task.order}
      /\ \A c \in Claim : Live(c) /\ Held(c) =>
           run[c].order = task.order /\ run[c].req \in {0, task.order}
  BY Types DEF AttemptInv, RequestIdOfAttempt, HolderIsCurrent
<1>1. ASSUME UNCHANGED task PROVE RowKeeps
  BY <1>0, <1>1 DEF RowKeeps
<1>2. ASSUME task' \in {CancelledRow, DeferredRow}, task.status \notin Terminal
      PROVE  RowKeeps
  BY <1>0, <1>2 DEF RowKeeps, CancelledRow, DeferredRow, Row
<1>3. ASSUME NEW c \in Claim, Live(c), Held(c), NEW status \in Terminal,
             task' = SavedRow(c, status)
      PROVE  RowKeeps
  BY <1>0, <1>3 DEF RowKeeps, SavedRow, Held, Terminal, Row
<1>4. ASSUME NEW x, \/ task' = [task EXCEPT !.call = x]
                    \/ task' = [task EXCEPT !.lease = x]
                    \/ task' = [task EXCEPT !.due = x]
                    \/ task' = [task EXCEPT !.age = x]
                    \/ task' = [task EXCEPT !.ckpt = x]
      PROVE  RowKeeps
  BY <1>0, <1>4 DEF RowKeeps, Row
<1>5. ASSUME NEW c \in Claim, Hydrate(c) \/ LogTask(c) PROVE RowKeeps
  <2>1. Live(c)
    BY <1>5 DEF Hydrate, LogTask, At, Live
  <2>2. CASE Hydrate(c)
    BY <1>0, <1>1, <1>5, <2>1, <2>2 DEF Hydrate, RowKeeps, Row
  <2>3. CASE LogTask(c)
    BY <1>0, <1>1, <1>5, <2>3 DEF LogTask, LogReaches, RowKeeps, Row
  <2> QED BY <1>5, <2>2, <2>3
<1>6. ASSUME NEW c \in Claim, Capacity(c) \/ CapacityFailed(c) \/ Defer(c) PROVE RowKeeps
  <2>1. ASSUME NEW x, Held(c), task' = [DeferredRow EXCEPT !.age = x] PROVE RowKeeps
    BY <1>0, <2>1 DEF RowKeeps, DeferredRow, Held, Terminal, Row
  <2>2. ASSUME Held(c), task' = DeferredRow PROVE RowKeeps
    BY <1>2, <2>2 DEF Held, Terminal
  <2>3. CASE Capacity(c)
    BY <1>1, <2>1, <2>2, <2>3 DEF Capacity, CapacityRow
  <2>4. CASE CapacityFailed(c)
    BY <1>1, <2>2, <2>4 DEF CapacityFailed
  <2>5. CASE Defer(c)
    BY <1>1, <2>1, <2>5 DEF Defer
  <2> QED BY <1>6, <2>3, <2>4, <2>5
<1>7. ASSUME NEW c \in Claim, \/ PrepareClaimedTaskProviderCall(c) \/ Dispatch(c) \/ Poll(c)
                              \/ Salvage(c) \/ Checkpoint(c)
      PROVE  RowKeeps
  BY <1>1, <1>4, <1>7
     DEF PrepareClaimedTaskProviderCall, Dispatch, Poll, Salvage, Checkpoint
<1>8. ASSUME NEW c \in Claim, Complete(c) \/ SaveTerminal(c) \/ SaveAlways(c) PROVE RowKeeps
  <2>1. Live(c)
    BY <1>8 DEF Complete, SaveTerminal, SaveAlways, At, Live
  <2>2. {"succeeded", "failed", run[c].end} \subseteq Terminal
    BY <1>0, Types DEF Terminal
  <2> QED BY <1>1, <1>3, <1>8, <2>1, <2>2 DEF Complete, SaveTerminal, SaveAlways
<1>9. ASSUME NEW c \in Claim,
             \/ Decide(c) \/ MarkBillingRead(c) \/ MarkBillingRunning(c) \/ Send(c)
             \/ LogOrder(c) \/ Refresh(c) \/ Persist(c) \/ Reread(c) \/ Settle(c) \/ JudgeFailure(c) \/ Conflict(c)
             \/ Billing(c) \/ PanicJudge(c) \/ Abandon(c) \/ Panic(c)
      PROVE  RowKeeps
  BY <1>1, <1>9
     DEF Decide, MarkBillingRead, MarkBillingRunning, Send, LogOrder, Refresh, Persist, Reread, Settle,
         JudgeFailure, Conflict, Billing, PanicJudge, Abandon, Panic
<1>10. ASSUME \/ \E c \in Claim : RenewTaskLease(c)
              \/ LeaseExpires \/ Timeout \/ PollDue
       PROVE  RowKeeps
  BY <1>4, <1>10 DEF RenewTaskLease, LeaseExpires, Timeout, PollDue
<1>11. ASSUME CancelStep PROVE RowKeeps
  BY <1>1, <1>2, <1>11
     DEF CancelStep, CancelQueued, CancelSoft, CancelHard, CancelReread, CancelFails,
         CancelRefund, CancelReview,
         Terminal
<1>12. ASSUME \/ \E p \in Proc : Crash(p) \/ CancelRead(p) \/ RetryCheck(p)
              \/ \E a \in Attempt : ResolveBillingOrder(a)
       PROVE  RowKeeps
  BY <1>1, <1>12 DEF Crash, CancelRead, RetryCheck, ResolveBillingOrder
<1> QED BY <1>5, <1>6, <1>7, <1>8, <1>9, <1>10, <1>11, <1>12 DEF Next, Step

(***************************************************************************)
(* The inductive invariant, when no process runs two goroutines at a time. *)
(***************************************************************************)

LEMMA InitAttempt == Init => AttemptInv
<1> SUFFICES ASSUME Init PROVE AttemptInv
  OBVIOUS
<1>1. \A c \in Claim : ~Live(c)
  BY DEF Init, Live, NoRun
<1>2. RequestIdOfAttempt
  BY DEF Init, RequestIdOfAttempt
<1>3. AttemptsInSequence
  BY BoundAssumption DEF Init, AttemptsInSequence, Attempt
<1> QED BY <1>1, <1>2, <1>3, InitType
       DEF AttemptInv, LiveHasProc, OneGoroutinePerProc, HolderIsCurrent

\* A step inside the frame.
LEMMA FrameAttempt ==
  ASSUME AttemptInv, TypeOK', GoroutinesKeep, RowKeeps, OrdersKeep PROVE AttemptInv'
<1>1. LiveHasProc' /\ OneGoroutinePerProc'
  BY DEF AttemptInv, LiveHasProc, OneGoroutinePerProc, GoroutinesKeep
<1>2. HolderIsCurrent'
  <2> SUFFICES ASSUME NEW c \in Claim, Live(c)', Held(c)'
               PROVE  run'[c].order = task'.order /\ run'[c].req \in {0, task'.order}
    BY DEF HolderIsCurrent
  <2>1. Live(c) /\ run[c].proc # NoProc
    BY ProcAssumption DEF GoroutinesKeep, AttemptInv, LiveHasProc
  <2>2. Held(c)
    BY <2>1 DEF GoroutinesKeep, RowKeeps, Held
  <2>3. /\ run[c].order = task.order /\ run[c].req \in {0, task.order}
        /\ task.req \in {0, task.order}
    BY <2>1, <2>2 DEF AttemptInv, HolderIsCurrent, RequestIdOfAttempt
  <2> QED BY <2>3 DEF GoroutinesKeep, RowKeeps
<1>3. AttemptsInSequence' /\ RequestIdOfAttempt'
  BY Types DEF AttemptInv, AttemptsInSequence, RequestIdOfAttempt, RowKeeps, OrdersKeep
<1> QED BY <1>1, <1>2, <1>3 DEF AttemptInv

\* A claim makes its process the holder, with the attempt the row has now.
LEMMA ClaimAttempt ==
  ASSUME AttemptInv, "sameOwner" \notin Faults, NEW p \in Proc, ClaimNextTask(p)
  PROVE  AttemptInv'
<1>0. TypeOK
  BY DEF AttemptInv
<1>1. TypeOK'
  BY <1>0, ClaimNextTaskType
<1> DEFINE e == claims + 1
           r == [NoRun EXCEPT !.pc = "claimed", !.proc = p, !.order = task.order,
                              !.recovered = task.status = "running",
                              !.call = ClaimedCall, !.req = task.req,
                              !.ckpt = task.ckpt]
<1>2. r.proc = p /\ r.order = task.order /\ r.req = task.req
  BY DEF NoRun
<1>3. run \in [Claim -> Goroutine] /\ run' = [run EXCEPT ![e] = r]
  BY <1>0, Types DEF ClaimNextTask
<1> HIDE DEF e, r
<1>4. \A c \in Claim : c # e => run'[c] = run[c]
  BY <1>3
<1>5. e \in Claim => run'[e] = r
  BY <1>3
<1>6. \A c \in Claim : Live(c) => run[c].proc # p
  BY DEF ClaimNextTask
<1>7. \A c \in Claim \ {e} : Live(c)' => Live(c) /\ run'[c].proc # p
  BY <1>4, <1>6 DEF Live
<1>8. LiveHasProc'
  BY <1>2, <1>4, <1>5, <1>7 DEF AttemptInv, LiveHasProc
<1>9. OneGoroutinePerProc'
  BY <1>2, <1>4, <1>5, <1>7 DEF AttemptInv, OneGoroutinePerProc
<1>10. /\ task'.owner = p /\ task'.order = task.order /\ task'.req = task.req
       /\ order' = order
  BY <1>0, Types DEF ClaimNextTask, Row, ledger
<1>11. RequestIdOfAttempt'
  BY <1>10 DEF AttemptInv, RequestIdOfAttempt
<1>12. HolderIsCurrent'
  BY <1>2, <1>5, <1>7, <1>10 DEF AttemptInv, HolderIsCurrent, Held, RequestIdOfAttempt
<1>13. AttemptsInSequence'
  BY <1>10 DEF AttemptInv, AttemptsInSequence
<1> QED BY <1>1, <1>8, <1>9, <1>11, <1>12, <1>13 DEF AttemptInv

\* A confirmed retry takes the first attempt that has no order: a later one.
LEMMA RetryIsLater ==
  ASSUME AttemptInv, NEW a \in Attempt, NextAttempt(a) PROVE a > task.order
<1>1. task.order \in Attempt /\ a \in Nat /\ task.order \in Nat
  BY Types, BoundAssumption DEF AttemptInv, Attempt
<1>2. order[a] = "none" /\ order[task.order] # "none"
  BY DEF NextAttempt, AttemptInv, AttemptsInSequence
<1>3. ~(a < task.order)
  BY <1>1, <1>2 DEF AttemptInv, AttemptsInSequence
<1> QED BY <1>1, <1>2, <1>3

LEMMA RetryAttempt ==
  ASSUME AttemptInv, RetryTx PROVE AttemptInv'
<1>0. TypeOK
  BY DEF AttemptInv
<1>1. TypeOK' /\ UNCHANGED run
  BY <1>0, RetryTxType DEF RetryTx
<1>2. LiveHasProc' /\ OneGoroutinePerProc'
  BY <1>1 DEF AttemptInv, LiveHasProc, OneGoroutinePerProc, Live
<1>3. CASE UNCHANGED <<task, order>>
  BY <1>1, <1>2, <1>3
     DEF AttemptInv, HolderIsCurrent, AttemptsInSequence, RequestIdOfAttempt, Live, Held
<1>4. CASE ~UNCHANGED <<task, order>>
  <2>1. PICK a \in Attempt :
          /\ NextAttempt(a) /\ order' = [order EXCEPT ![a] = "reserved"]
          /\ task'.status = "queued" /\ task'.order = a /\ task'.req = 0
    BY <1>4 DEF RetryTx
  <2>2. HolderIsCurrent' /\ RequestIdOfAttempt'
    BY <2>1 DEF HolderIsCurrent, RequestIdOfAttempt, Held
  <2>3. AttemptsInSequence'
    <3>1. \A b \in Attempt : order'[b] = IF b = a THEN "reserved" ELSE order[b]
      BY <1>0, <2>1, Types
    <3>2. \A b \in Attempt : b < a => order[b] # "none"
      BY <2>1, BoundAssumption DEF NextAttempt, Attempt
    <3> QED BY <2>1, <3>1, <3>2 DEF AttemptInv, AttemptsInSequence
  <2> QED BY <1>1, <1>2, <2>2, <2>3 DEF AttemptInv
<1> QED BY <1>3, <1>4

LEMMA NextAttemptInv ==
  ASSUME AttemptInv, "sameOwner" \notin Faults, [Next]_vars PROVE AttemptInv'
<1>0. TypeOK
  BY DEF AttemptInv
<1>1. CASE UNCHANGED vars
  BY <1>1 DEF AttemptInv, TypeOK, LiveHasProc, OneGoroutinePerProc, HolderIsCurrent,
              AttemptsInSequence, RequestIdOfAttempt, Live, Held, vars
<1>2. CASE \E p \in Proc : ClaimNextTask(p)
  BY <1>2, ClaimAttempt
<1>3. CASE RetryTx
  BY <1>3, RetryAttempt
<1>4. CASE Next /\ ~RetryTx /\ ~\E p \in Proc : ClaimNextTask(p)
  BY <1>0, <1>4, NextType, NextKeepsGoroutines, NextKeepsOrders, NextKeepsRow, FrameAttempt
<1> QED BY <1>1, <1>2, <1>3, <1>4

\* Every worker of the task is a different process, the one the lease names
\* works on the row's own attempt, and attempts are reserved one after another:
\* the claim, save and retry statements keep this whatever else happens.
THEOREM AttemptCorrect ==
  ASSUME "sameOwner" \notin Faults PROVE Spec => []AttemptInv
BY InitAttempt, NextAttemptInv, PTL DEF Spec

\* The provider task id in the row is never that of another attempt, although
\* LogAPICall, the hydration and the terminal saves all write it, and may do so
\* after the user has retried the task.
THEOREM RequestIdCorrect ==
  ASSUME "sameOwner" \notin Faults PROVE Spec => []RequestIdOfAttempt
<1>1. AttemptInv => RequestIdOfAttempt
  BY DEF AttemptInv
<1> QED BY <1>1, AttemptCorrect, PTL

\* What a step does to the attempt and to a final status.
LEMMA StepIsForward ==
  ASSUME AttemptInv, [Next]_vars
  PROVE  /\ task'.order >= task.order
         /\ task.status \in Terminal /\ task'.status # task.status
              => task'.status = "queued" /\ task'.order > task.order
<1>0. TypeOK /\ task.order \in Nat /\ task \in Row
  BY Types, BoundAssumption DEF AttemptInv, Attempt
<1>1. CASE UNCHANGED task
  BY <1>0, <1>1
<1>2. CASE \E p \in Proc : ClaimNextTask(p)
  BY <1>0, <1>2 DEF ClaimNextTask, Claimable, Terminal, Row
<1>3. CASE RetryTx
  BY <1>0, <1>1, <1>3, RetryIsLater DEF RetryTx, Attempt
<1>4. CASE Next /\ ~RetryTx /\ ~\E p \in Proc : ClaimNextTask(p)
  BY <1>0, <1>4, NextKeepsRow DEF RowKeeps
<1> QED BY <1>1, <1>2, <1>3, <1>4 DEF vars

\* No late worker, cancellation or recovery ever brings an earlier attempt back
\* into the row.
THEOREM RowCorrect ==
  ASSUME "sameOwner" \notin Faults PROVE Spec => RowNeverRegresses
<1>1. AttemptInv /\ [Next]_vars => [task'.order >= task.order]_vars
  BY StepIsForward
<1> QED BY <1>1, AttemptCorrect, PTL DEF Spec, RowNeverRegresses

\* A cancelled, failed or succeeded task stays so until the user retries it
\* under a new order: no save of a late worker and no lost cancellation wins.
THEOREM TerminalCorrect ==
  ASSUME "sameOwner" \notin Faults PROVE Spec => TerminalIsFinal
<1>1. AttemptInv /\ [Next]_vars =>
        [task.status \in Terminal /\ task'.status # task.status
           => task'.status = "queued" /\ task'.order > task.order]_vars
  BY StepIsForward
<1> QED BY <1>1, AttemptCorrect, PTL DEF Spec, TerminalIsFinal

=============================================================================
