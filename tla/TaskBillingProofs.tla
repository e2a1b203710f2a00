-------------------------- MODULE TaskBillingProofs --------------------------
(***************************************************************************)
(* What the money of a task depends on, for every number of processes,     *)
(* attempts, claims and requests: an attempt sends one create request, the *)
(* row knows that it did, and its order settles for a result of its own.   *)
(***************************************************************************)
EXTENDS TaskLifecycleProofs

(***************************************************************************)
(* The invariants.                                                         *)
(***************************************************************************)

\* A goroutine has passed the dispatch checkpoint of the create request.
Fired(c) == run[c].pc = "send" \/ run[c].sent # "no"
Unsent(a) == \A d \in Claim : run[d].order = a => ~Fired(d)
Accepted(a) == \E d \in Claim : run[d].order = a /\ run[d].sent = "accepted"

\* Goroutines are numbered in the order of their claims, and belong to attempts
\* that have been reserved.
StartInv ==
  \A c \in Claim :
    /\ c > claims => run[c].pc = "none"
    /\ run[c].pc = "none" => run[c].sent = "no"
    /\ run[c].pc # "none" => order[run[c].order] # "none"

\* One goroutine of an attempt passes the checkpoint, and the row and the order
\* keep that it has.
FiredInv ==
  /\ \A c, d \in Claim : Fired(c) /\ Fired(d) /\ run[c].order = run[d].order => c = d
  /\ \A c \in Claim : Fired(c) /\ run[c].order = task.order =>
       task.status # "queued" /\ task.call = "dispatched"
  /\ \A c \in Claim : Fired(c) \/ run[c].pc = "dispatch" => order[run[c].order] # "reserved"
  /\ \A c \in Claim : run[c].pc = "send" => run[c].sent = "no"
  /\ task.status = "queued" => task.call = "pending"

\* Between the checkpoint and the refresh the memory of a goroutine may be older
\* than the row.
Behind == {"send", "logOrder", "logTask", "poll", "refresh", "panicked"}
MemoryInv ==
  \A c \in Claim : Live(c) /\ Held(c) /\ run[c].pc \notin Behind => run[c].call = task.call

\* Who is on the way to the checkpoint and holds the row, is the first.
AheadInv ==
  \A c \in Claim : Live(c) /\ Held(c) =>
    /\ run[c].pc \in {"claimed", "decide"} /\ ~run[c].recovered => Unsent(run[c].order)
    /\ run[c].pc \in {"capacity", "prepare", "bill", "mark"} =>
         (Pollable /\ run[c].req # 0) \/ Unsent(run[c].order)
    /\ run[c].pc = "dispatch" => Unsent(run[c].order)

CreateInv == AttemptInv /\ StartInv /\ FiredInv /\ MemoryInv /\ AheadInv

\* A provider task id stands for a create request that was accepted, and a
\* result for one of the same attempt.
RequestInv ==
  /\ \A a \in Attempt : orderReq[a] => Accepted(a)
  /\ task.req # 0 => Accepted(task.req)
  /\ \A c \in Claim : run[c].req # 0 => Accepted(run[c].req)
ResultInv ==
  \A c \in Claim :
    /\ run[c].pc \in {"logOrder", "logTask"} => run[c].sent = "accepted"
    /\ run[c].pc = "poll" => run[c].req # 0 \/ run[c].sent = "accepted"
    /\ run[c].pc = "refresh" /\ run[c].outcome = "success" => Accepted(run[c].order)
    /\ run[c].pc \in {"persist", "reread", "checkpoint", "complete"} => Accepted(run[c].order)
    /\ run[c].pc = "settle" => task.status = "succeeded" /\ task.order = run[c].order
SuccessInv == (task.status = "succeeded" => Accepted(task.order)) /\ SettledIsDelivered

DeliveryInv == CreateInv /\ RequestInv /\ ResultInv /\ SuccessInv

(***************************************************************************)
(* What a goroutine may become in one step.                                *)
(***************************************************************************)

Alone(c) == \A d \in Claim \ {c} : run'[d] = run[d]
Same(c) ==
  /\ run'[c].proc = run[c].proc /\ run'[c].order = run[c].order
  /\ run'[c].recovered = run[c].recovered /\ run'[c].sent = run[c].sent
Goes(c, pc) ==
  Alone(c) /\ Same(c) /\ run'[c].pc = pc /\ run'[c].call = run[c].call /\ run'[c].req = run[c].req
Over(c) ==
  /\ Alone(c) /\ run'[c].pc = "done" /\ run'[c].order = run[c].order /\ run'[c].sent = run[c].sent
  /\ run'[c].req = 0 /\ run'[c].plan = "none" /\ run'[c].outcome = "none"

LEMMA UpdateMoves ==
  ASSUME TypeOK, NEW c \in Claim, NEW s, run' = [run EXCEPT ![c] = s]
  PROVE  Alone(c) /\ run'[c] = s
BY Types DEF Alone

LEMMA GotoMoves ==
  ASSUME TypeOK, NEW c \in Claim, NEW pc, Goto(c, pc)
  PROVE  Goes(c, pc) /\ run'[c].outcome = run[c].outcome /\ run'[c].plan = run[c].plan
<1> DEFINE s == [run[c] EXCEPT !.pc = pc]
<1>1. run[c] \in Goroutine /\ run' = [run EXCEPT ![c] = s]
  BY Types DEF Goto
<1>2. Alone(c) /\ run'[c] = s
  BY <1>1, UpdateMoves
<1> QED BY <1>1, <1>2 DEF Goes, Same, Goroutine

LEMMA AnswerMoves ==
  ASSUME TypeOK, NEW c \in Claim, NEW pc, NEW x, Answer(c, pc, x)
  PROVE  Goes(c, pc) /\ run'[c].outcome = x /\ run'[c].plan = run[c].plan
<1> DEFINE s == [run[c] EXCEPT !.pc = pc, !.outcome = x]
<1>1. run[c] \in Goroutine /\ run' = [run EXCEPT ![c] = s]
  BY Types DEF Answer
<1>2. Alone(c) /\ run'[c] = s
  BY <1>1, UpdateMoves
<1>3. /\ s.pc = pc /\ s.req = run[c].req /\ s.call = run[c].call /\ s.proc = run[c].proc
      /\ s.order = run[c].order /\ s.recovered = run[c].recovered /\ s.sent = run[c].sent
      /\ s.outcome = x /\ s.plan = run[c].plan
  BY <1>1 DEF Goroutine
<1> HIDE DEF s
<1> QED BY <1>2, <1>3 DEF Goes, Same

LEMMA ConcludeMoves ==
  ASSUME TypeOK, NEW c \in Claim, NEW pc, NEW end, NEW plan, Conclude(c, pc, end, plan)
  PROVE  Goes(c, pc) /\ run'[c].outcome = run[c].outcome /\ run'[c].plan = plan
<1> DEFINE s == [run[c] EXCEPT !.pc = pc, !.end = end, !.plan = plan]
<1>1. run[c] \in Goroutine /\ run' = [run EXCEPT ![c] = s]
  BY Types DEF Conclude
<1>2. Alone(c) /\ run'[c] = s
  BY <1>1, UpdateMoves
<1>3. /\ s.pc = pc /\ s.req = run[c].req /\ s.call = run[c].call /\ s.proc = run[c].proc
      /\ s.order = run[c].order /\ s.recovered = run[c].recovered /\ s.sent = run[c].sent
      /\ s.outcome = run[c].outcome /\ s.plan = plan
  BY <1>1 DEF Goroutine
<1> HIDE DEF s
<1> QED BY <1>2, <1>3 DEF Goes, Same

LEMMA FinishedMoves ==
  ASSUME NEW r
  PROVE  /\ Finished(r).pc = "done" /\ Finished(r).order = r.order /\ Finished(r).sent = r.sent
         /\ Finished(r).req = 0 /\ Finished(r).plan = "none" /\ Finished(r).outcome = "none"
BY DEF Finished, NoRun

LEMMA ReturnMoves ==
  ASSUME TypeOK, NEW c \in Claim, Return(c) PROVE Over(c)
<1>1. run' = [run EXCEPT ![c] = Finished(run[c])]
  BY DEF Return
<1>2. Alone(c) /\ run'[c] = Finished(run[c])
  BY <1>1, UpdateMoves
<1> QED BY <1>2, FinishedMoves DEF Over

LEMMA HydrateMoves ==
  ASSUME TypeOK, NEW c \in Claim, Hydrate(c)
  PROVE  \/ Goes(c, "decide") /\ UNCHANGED task
         \/ /\ Alone(c) /\ Same(c) /\ run'[c].pc = "decide" /\ run'[c].call = run[c].call
            /\ run'[c].req = run[c].order /\ orderReq[run[c].order]
            /\ Held(c) /\ task' = [task EXCEPT !.req = run[c].order]
         \/ Over(c) /\ UNCHANGED task
<1>1. CASE Goto(c, "decide") /\ UNCHANGED task
  BY <1>1, GotoMoves
<1>2. CASE Return(c) /\ UNCHANGED task
  BY <1>2, ReturnMoves
<1>3. CASE /\ run' = [run EXCEPT ![c].pc = "decide", ![c].req = run[c].order]
           /\ orderReq[run[c].order] /\ Held(c) /\ task' = [task EXCEPT !.req = run[c].order]
  <2> DEFINE s == [run[c] EXCEPT !.pc = "decide", !.req = run[c].order]
  <2>1. run[c] \in Goroutine /\ run' = [run EXCEPT ![c] = s]
    BY <1>3, Types
  <2>2. Alone(c) /\ run'[c] = s
    BY <2>1, UpdateMoves
  <2>3. /\ s.pc = "decide" /\ s.req = run[c].order /\ s.call = run[c].call /\ s.proc = run[c].proc
        /\ s.order = run[c].order /\ s.recovered = run[c].recovered /\ s.sent = run[c].sent
    BY <2>1 DEF Goroutine
  <2> HIDE DEF s
  <2> QED BY <1>3, <2>2, <2>3 DEF Same
<1> QED BY <1>1, <1>2, <1>3 DEF Hydrate

LEMMA DecideMoves ==
  ASSUME TypeOK, NEW c \in Claim, Decide(c)
  PROVE  \/ /\ Goes(c, "capacity") \/ Goes(c, "prepare")
            /\ CanContinue(c) /\ ~Overdue(c)
         \/ Goes(c, "saveAlways") /\ run'[c].plan = "refund" /\ Overdue(c)
         \/ Goes(c, "saveAlways") /\ run'[c].plan # "refund"
<1>1. CASE /\ run' = [run EXCEPT ![c].pc = IF Queued THEN "capacity" ELSE "prepare",
                                 ![c].registered = TRUE]
           /\ CanContinue(c) /\ ~Overdue(c)
  <2> DEFINE pc == IF Queued THEN "capacity" ELSE "prepare"
             s == [run[c] EXCEPT !.pc = pc, !.registered = TRUE]
  <2>1. run[c] \in Goroutine /\ run' = [run EXCEPT ![c] = s]
    BY <1>1, Types
  <2>2. Alone(c) /\ run'[c] = s
    BY <2>1, UpdateMoves
  <2>3. /\ s.pc = pc /\ s.req = run[c].req /\ s.call = run[c].call /\ s.proc = run[c].proc
        /\ s.order = run[c].order /\ s.recovered = run[c].recovered /\ s.sent = run[c].sent
    BY <2>1 DEF Goroutine
  <2> HIDE DEF s
  <2>4. Goes(c, pc)
    BY <2>2, <2>3 DEF Goes, Same
  <2> QED BY <1>1, <2>4
<1>2. CASE Overdue(c) /\ Conclude(c, "saveAlways", "failed", "refund")
  BY <1>2, ConcludeMoves
<1>3. ASSUME NEW plan \in {"uncertain", "none"}, Conclude(c, "saveAlways", "failed", plan)
      PROVE  Goes(c, "saveAlways") /\ run'[c].plan # "refund"
  BY <1>3, ConcludeMoves
<1> QED BY <1>1, <1>2, <1>3 DEF Decide

LEMMA PrepareMoves ==
  ASSUME TypeOK, NEW c \in Claim, PrepareClaimedTaskProviderCall(c)
  PROVE  \/ Over(c) /\ UNCHANGED task
         \/ /\ Alone(c) /\ Same(c) /\ run'[c].pc = "bill" /\ run'[c].req = run[c].req
            /\ run'[c].call = PreflightState(run[c].call) /\ Held(c)
            /\ task' = [task EXCEPT !.call = PreflightState(task.call)]
<1>1. CASE Return(c) /\ UNCHANGED task
  BY <1>1, ReturnMoves
<1>2. CASE /\ run' = [run EXCEPT ![c].pc = "bill", ![c].call = PreflightState(run[c].call)]
           /\ Held(c) /\ task' = [task EXCEPT !.call = PreflightState(task.call)]
  <2> DEFINE call == PreflightState(run[c].call)
             s == [run[c] EXCEPT !.pc = "bill", !.call = call]
  <2>1. run[c] \in Goroutine /\ run' = [run EXCEPT ![c] = s]
    BY <1>2, Types
  <2>2. Alone(c) /\ run'[c] = s
    BY <2>1, UpdateMoves
  <2>3. /\ s.pc = "bill" /\ s.req = run[c].req /\ s.call = call /\ s.proc = run[c].proc
        /\ s.order = run[c].order /\ s.recovered = run[c].recovered /\ s.sent = run[c].sent
    BY <2>1 DEF Goroutine
  <2> HIDE DEF s
  <2> QED BY <1>2, <2>2, <2>3 DEF Same
<1> QED BY <1>1, <1>2 DEF PrepareClaimedTaskProviderCall, HeldFresh

LEMMA SendMoves ==
  ASSUME TypeOK, NEW c \in Claim, Send(c)
  PROVE  /\ Alone(c) /\ run'[c].proc = run[c].proc /\ run'[c].order = run[c].order
         /\ run'[c].req = run[c].req /\ run'[c].call = run[c].call
         /\ \/ /\ run'[c].pc = IF Pollable THEN "logOrder" ELSE "logTask"
               /\ run'[c].sent = "accepted" /\ run'[c].outcome = "success"
            \/ /\ run'[c].pc = "refresh" /\ run'[c].sent \in {"refused", "broken"}
               /\ run'[c].outcome = "refused"
            \/ run'[c].pc = "refresh" /\ run'[c].sent = "maybe" /\ run'[c].outcome = "ambiguous"
            \/ run'[c].pc = "refresh" /\ run'[c].sent = run[c].sent /\ run'[c].outcome = "ambiguous"
<1>1. ASSUME NEW pc, NEW sent, NEW x,
             run' = [run EXCEPT ![c].pc = pc, ![c].sent = sent, ![c].outcome = x]
      PROVE  /\ Alone(c) /\ run'[c].proc = run[c].proc /\ run'[c].order = run[c].order
             /\ run'[c].req = run[c].req /\ run'[c].call = run[c].call
             /\ run'[c].pc = pc /\ run'[c].sent = sent /\ run'[c].outcome = x
  <2> DEFINE s == [run[c] EXCEPT !.pc = pc, !.sent = sent, !.outcome = x]
  <2>1. run[c] \in Goroutine /\ run' = [run EXCEPT ![c] = s]
    BY <1>1, Types
  <2>2. Alone(c) /\ run'[c] = s
    BY <2>1, UpdateMoves
  <2>3. /\ s.pc = pc /\ s.req = run[c].req /\ s.call = run[c].call /\ s.proc = run[c].proc
        /\ s.order = run[c].order /\ s.sent = sent /\ s.outcome = x
    BY <2>1 DEF Goroutine
  <2> HIDE DEF s
  <2> QED BY <2>2, <2>3
<1>2. CASE run' = [run EXCEPT ![c].pc = IF Pollable THEN "logOrder" ELSE "logTask",
                            ![c].sent = "accepted", ![c].outcome = "success"]
  <2> DEFINE pc == IF Pollable THEN "logOrder" ELSE "logTask"
  <2>1. run' = [run EXCEPT ![c].pc = pc, ![c].sent = "accepted", ![c].outcome = "success"]
    BY <1>2
  <2> HIDE DEF pc
  <2>2. /\ Alone(c) /\ run'[c].proc = run[c].proc /\ run'[c].order = run[c].order
        /\ run'[c].req = run[c].req /\ run'[c].call = run[c].call
        /\ run'[c].pc = pc /\ run'[c].sent = "accepted" /\ run'[c].outcome = "success"
    BY <1>1, <2>1
  <2> QED BY <2>2 DEF pc
<1>3. ASSUME NEW sent \in {"refused", "broken"},
             run' = [run EXCEPT ![c].pc = "refresh", ![c].sent = sent, ![c].outcome = "refused"]
      PROVE  /\ Alone(c) /\ run'[c].proc = run[c].proc /\ run'[c].order = run[c].order
             /\ run'[c].req = run[c].req /\ run'[c].call = run[c].call
             /\ run'[c].pc = "refresh" /\ run'[c].sent = sent /\ run'[c].outcome = "refused"
  BY <1>1, <1>3
<1>4. CASE run' = [run EXCEPT ![c].pc = "refresh", ![c].sent = "maybe", ![c].outcome = "ambiguous"]
  BY <1>1, <1>4
<1>5. CASE Answer(c, "refresh", "ambiguous")
  BY <1>5, AnswerMoves DEF Goes, Same
<1> QED BY <1>2, <1>3, <1>4, <1>5 DEF Send

LEMMA RefreshMoves ==
  ASSUME TypeOK, NEW c \in Claim, Refresh(c)
  PROVE  /\ Alone(c) /\ Same(c) /\ run'[c].call = task.call /\ run'[c].outcome = run[c].outcome
         /\ run'[c].plan = run[c].plan
         /\ run'[c].req = IF task.req # 0 THEN task.req ELSE run[c].req
         /\ run'[c].pc = CASE run[c].outcome = "pending" -> "defer"
                           [] run[c].outcome = "success" -> "persist"
                           [] OTHER -> "judge"
<1> DEFINE pc == CASE run[c].outcome = "pending" -> "defer"
                   [] run[c].outcome = "success" -> "persist"
                   [] OTHER -> "judge"
           req == IF task.req # 0 THEN task.req ELSE run[c].req
<1>1. run[c] \in Goroutine /\ run' = [run EXCEPT ![c].call = task.call, ![c].req = req, ![c].pc = pc]
  BY Types DEF Refresh
<1> HIDE DEF pc, req
<1> DEFINE s == [run[c] EXCEPT !.call = task.call, !.req = req, !.pc = pc]
<1>2. run' = [run EXCEPT ![c] = s]
  BY <1>1, Types
<1>3. Alone(c) /\ run'[c] = s
  BY <1>2, UpdateMoves
<1>4. /\ s.pc = pc /\ s.req = req /\ s.call = task.call /\ s.proc = run[c].proc
      /\ s.order = run[c].order /\ s.recovered = run[c].recovered /\ s.sent = run[c].sent
      /\ s.outcome = run[c].outcome /\ s.plan = run[c].plan
  BY <1>1 DEF Goroutine
<1> HIDE DEF s
<1> QED BY <1>3, <1>4 DEF Same, pc, req

\* A result is kept in the row and in memory.
LEMMA CkptMoves ==
  ASSUME TypeOK, NEW c \in Claim, NEW pc, run' = [run EXCEPT ![c].pc = pc, ![c].ckpt = TRUE]
  PROVE  Goes(c, pc) /\ run'[c].outcome = run[c].outcome /\ run'[c].plan = run[c].plan
<1> DEFINE s == [run[c] EXCEPT !.pc = pc, !.ckpt = TRUE]
<1>1. run[c] \in Goroutine /\ run' = [run EXCEPT ![c] = s]
  BY Types
<1>2. Alone(c) /\ run'[c] = s
  BY <1>1, UpdateMoves
<1>3. /\ s.pc = pc /\ s.req = run[c].req /\ s.call = run[c].call /\ s.proc = run[c].proc
      /\ s.order = run[c].order /\ s.recovered = run[c].recovered /\ s.sent = run[c].sent
      /\ s.outcome = run[c].outcome /\ s.plan = run[c].plan
  BY <1>1 DEF Goroutine
<1> HIDE DEF s
<1> QED BY <1>2, <1>3 DEF Goes, Same

LEMMA PanicMoves ==
  ASSUME TypeOK, NEW c \in Claim, Panic(c) PROVE Goes(c, "panicked")
<1> DEFINE s == [run[c] EXCEPT !.pc = "panicked", !.registered = FALSE]
<1>1. run[c] \in Goroutine /\ run' = [run EXCEPT ![c] = s]
  BY Types DEF Panic
<1>2. Alone(c) /\ run'[c] = s
  BY <1>1, UpdateMoves
<1>3. /\ s.pc = "panicked" /\ s.req = run[c].req /\ s.call = run[c].call /\ s.proc = run[c].proc
      /\ s.order = run[c].order /\ s.recovered = run[c].recovered /\ s.sent = run[c].sent
  BY <1>1 DEF Goroutine
<1> HIDE DEF s
<1> QED BY <1>2, <1>3 DEF Goes, Same

LEMMA PanicJudgeMoves ==
  ASSUME TypeOK, NEW c \in Claim, PanicJudge(c)
  PROVE  Alone(c) /\ Same(c) /\ run'[c].pc = "saveAlways" /\ run'[c].call = task.call
         /\ run'[c].req = run[c].req
<1>1. PICK plan : run' = [run EXCEPT ![c].pc = "saveAlways", ![c].call = task.call,
                                     ![c].end = "failed", ![c].plan = plan]
  BY DEF PanicJudge
<1> DEFINE s == [run[c] EXCEPT !.pc = "saveAlways", !.call = task.call, !.end = "failed", !.plan = plan]
<1>2. run[c] \in Goroutine /\ run' = [run EXCEPT ![c] = s]
  BY <1>1, Types
<1>3. Alone(c) /\ run'[c] = s
  BY <1>2, UpdateMoves
<1>4. /\ s.pc = "saveAlways" /\ s.req = run[c].req /\ s.call = task.call /\ s.proc = run[c].proc
      /\ s.order = run[c].order /\ s.recovered = run[c].recovered /\ s.sent = run[c].sent
  BY <1>2 DEF Goroutine
<1> HIDE DEF s
<1> QED BY <1>3, <1>4 DEF Same

LEMMA ClaimMoves ==
  ASSUME TypeOK, NEW p \in Proc, ClaimNextTask(p)
  PROVE  /\ claims + 1 \in Claim /\ Alone(claims + 1) /\ run'[claims + 1].pc = "claimed"
         /\ run'[claims + 1].proc = p /\ run'[claims + 1].order = task.order
         /\ run'[claims + 1].recovered = (task.status = "running")
         /\ run'[claims + 1].call = task'.call /\ run'[claims + 1].req = task.req
         /\ run'[claims + 1].sent = "no" /\ run'[claims + 1].outcome = "none" /\ run'[claims + 1].plan = "none"
         /\ task'.call = ClaimedCall /\ task'.order = task.order /\ task'.req = task.req
         /\ task'.status = "running" /\ task'.owner = p /\ task'.lease
<1> DEFINE e == claims + 1
           s == [NoRun EXCEPT !.pc = "claimed", !.proc = p, !.order = task.order,
                              !.recovered = task.status = "running", !.call = ClaimedCall,
                              !.req = task.req, !.ckpt = task.ckpt]
<1>1. run' = [run EXCEPT ![e] = s] /\ e \in Claim
  <2>1. claims \in 0..MaxClaim /\ claims < MaxClaim
    BY DEF TypeOK, ClaimNextTask
  <2>2. e \in Claim
    BY <2>1, BoundAssumption DEF Claim
  <2> QED BY <2>2 DEF ClaimNextTask
<1>2. /\ s.pc = "claimed" /\ s.proc = p /\ s.order = task.order /\ s.recovered = (task.status = "running")
      /\ s.call = ClaimedCall /\ s.req = task.req /\ s.sent = "no" /\ s.outcome = "none" /\ s.plan = "none"
  BY DEF NoRun
<1>3. /\ task'.call = ClaimedCall /\ task'.order = task.order /\ task'.req = task.req
      /\ task'.status = "running" /\ task'.owner = p /\ task'.lease
  BY Types DEF ClaimNextTask, Row
<1> HIDE DEF e, s
<1>4. Alone(e) /\ run'[e] = s
  BY <1>1, UpdateMoves
<1> QED BY <1>1, <1>2, <1>3, <1>4 DEF e

\* A crash ends the goroutines of the process and touches no other.
LEMMA CrashMoves ==
  ASSUME TypeOK, NEW p \in Proc, Crash(p), NEW d \in Claim
  PROVE  run'[d] = run[d] \/ (Live(d) /\ run[d].proc = p /\ run'[d] = Finished(run[d]))
BY Types DEF Crash

\* A signal leaves everything else of the goroutine.
LEMMA SignalMoves ==
  ASSUME TypeOK, CancelSoft, NEW d \in Claim
  PROVE  /\ run'[d].pc = run[d].pc /\ run'[d].proc = run[d].proc /\ run'[d].order = run[d].order
         /\ run'[d].recovered = run[d].recovered /\ run'[d].sent = run[d].sent
         /\ run'[d].call = run[d].call /\ run'[d].req = run[d].req
         /\ run'[d].outcome = run[d].outcome /\ run'[d].plan = run[d].plan
<1>1. run[d] \in Goroutine
  BY Types
<1> DEFINE s == [run[d] EXCEPT !.signalled = TRUE]
<1>2. run'[d] = run[d] \/ run'[d] = s
  BY Types DEF CancelSoft, SignalActive
<1>3. /\ s.pc = run[d].pc /\ s.proc = run[d].proc /\ s.order = run[d].order
      /\ s.recovered = run[d].recovered /\ s.sent = run[d].sent
      /\ s.call = run[d].call /\ s.req = run[d].req /\ s.outcome = run[d].outcome /\ s.plan = run[d].plan
  BY <1>1 DEF Goroutine
<1> HIDE DEF s
<1> QED BY <1>2, <1>3

(***************************************************************************)
(* One create request for an attempt.                                      *)
(***************************************************************************)

\* What every step keeps that neither claims the task nor retries it.
Framed ==
  /\ GoroutinesKeep /\ RowKeeps /\ OrdersKeep /\ AttemptInv' /\ claims' = claims
  /\ \A a \in Attempt : order'[a] = "reserved" => order[a] = "reserved"
  /\ task'.status = "queued" => task.status = "queued"

LEMMA HeldBefore ==
  ASSUME AttemptInv, Framed, NEW d \in Claim, Live(d)', Held(d)'
  PROVE  Live(d) /\ Held(d) /\ run'[d].order = run[d].order /\ run[d].order = task.order
<1>1. Live(d) /\ run'[d].proc = run[d].proc /\ run'[d].order = run[d].order
  BY DEF Framed, GoroutinesKeep
<1>2. run[d].proc # NoProc
  BY <1>1, ProcAssumption DEF AttemptInv, LiveHasProc
<1>3. Held(d)
  BY <1>1, <1>2 DEF Framed, RowKeeps, Held
<1> QED BY <1>1, <1>3 DEF AttemptInv, HolderIsCurrent

LEMMA HolderAlone ==
  ASSUME AttemptInv, NEW c \in Claim, NEW d \in Claim, Live(c), Held(c), Live(d), Held(d)
  PROVE  c = d
BY DEF AttemptInv, OneGoroutinePerProc, Held

\* The goroutines that have not passed the checkpoint stay so, and what holds of
\* a holder's memory is shown for the holders after the step.
LEMMA CreateKept ==
  ASSUME CreateInv, Framed,
         \A d \in Claim :
           /\ run'[d].order = run[d].order
           /\ run'[d].pc = "none" <=> run[d].pc = "none"
           /\ run[d].pc = "none" => run'[d].sent = run[d].sent,
         \A d \in Claim : Fired(d)' => Fired(d),
         \A d \in Claim : run'[d].pc = "send" => run'[d].sent = "no",
         \A d \in Claim : run'[d].pc = "dispatch" => order'[run[d].order] # "reserved",
         task.call = "dispatched" => task'.call = "dispatched" \/ Unsent(task.order),
         task'.status = "queued" => task'.call = "pending",
         \A d \in Claim : Live(d)' /\ Held(d)' /\ Live(d) /\ Held(d) =>
           /\ run'[d].pc \notin Behind => run'[d].call = task'.call
           /\ run'[d].pc \in {"claimed", "decide"} /\ ~run'[d].recovered => Unsent(run[d].order)
           /\ run'[d].pc \in {"capacity", "prepare", "bill", "mark"} =>
                (Pollable /\ run'[d].req # 0) \/ Unsent(run[d].order)
           /\ run'[d].pc = "dispatch" => Unsent(run[d].order)
  PROVE  CreateInv'
<1>0. TypeOK
  BY DEF CreateInv, AttemptInv
<1>1. \A d \in Claim : run[d].order \in Attempt
  BY <1>0, Types
<1>2. StartInv'
  BY <1>1 DEF CreateInv, StartInv, Framed, OrdersKeep
<1>3. FiredInv'
  <2>1. \A c \in Claim : Fired(c)' /\ run'[c].order = task'.order =>
          task'.status # "queued" /\ task'.call = "dispatched"
    <3> SUFFICES ASSUME NEW c \in Claim, Fired(c)', run'[c].order = task'.order
                 PROVE  task'.status # "queued" /\ task'.call = "dispatched"
      OBVIOUS
    <3>1. Fired(c) /\ run[c].order = task.order
      BY DEF Framed, RowKeeps
    <3>2. task.status # "queued" /\ task.call = "dispatched" /\ ~Unsent(task.order)
      BY <3>1 DEF CreateInv, FiredInv, Unsent
    <3> QED BY <3>2 DEF Framed
  <2>2. \A c, d \in Claim : Fired(c)' /\ Fired(d)' /\ run'[c].order = run'[d].order => c = d
    BY DEF CreateInv, FiredInv
  <2>3. \A c \in Claim : Fired(c)' \/ run'[c].pc = "dispatch" => order'[run'[c].order] # "reserved"
    BY <1>1 DEF CreateInv, FiredInv, Framed
  <2> QED BY <2>1, <2>2, <2>3 DEF FiredInv
<1>4. \A a : Unsent(a) => Unsent(a)'
  BY DEF Unsent
<1>5. MemoryInv' /\ AheadInv'
  BY <1>4, HeldBefore DEF CreateInv, MemoryInv, AheadInv
<1> QED BY <1>2, <1>3, <1>5 DEF CreateInv, Framed

\* Nothing happens to a goroutine but that it may end.
Still(d) ==
  /\ run'[d].pc = run[d].pc /\ run'[d].order = run[d].order /\ run'[d].sent = run[d].sent
  /\ run'[d].recovered = run[d].recovered /\ run'[d].call = run[d].call /\ run'[d].req = run[d].req
Ended(d) ==
  Live(d) /\ run'[d].pc = "done" /\ run'[d].order = run[d].order /\ run'[d].sent = run[d].sent

LEMMA QuietCreate ==
  ASSUME CreateInv, Framed, task'.call = task.call,
         \A d \in Claim : Still(d) \/ Ended(d)
  PROVE  CreateInv'
<1>1. \A d \in Claim :
        /\ run'[d].order = run[d].order
        /\ run'[d].pc = "none" <=> run[d].pc = "none"
        /\ run[d].pc = "none" => run'[d].sent = run[d].sent
  BY DEF Still, Ended, Live
<1>2. \A d \in Claim : Fired(d)' => Fired(d)
  BY DEF Still, Ended, Fired
<1>3. \A d \in Claim : run'[d].pc = "send" => run'[d].sent = "no"
  BY DEF CreateInv, FiredInv, Still, Ended
<1>4. \A d \in Claim : run'[d].pc = "dispatch" => order'[run[d].order] # "reserved"
  BY Types DEF CreateInv, AttemptInv, FiredInv, Still, Ended, Framed
<1>5. task'.status = "queued" => task'.call = "pending"
  BY DEF CreateInv, FiredInv, Framed
<1>6. \A d \in Claim : Live(d)' /\ Held(d)' /\ Live(d) /\ Held(d) =>
        /\ run'[d].pc \notin Behind => run'[d].call = task'.call
        /\ run'[d].pc \in {"claimed", "decide"} /\ ~run'[d].recovered => Unsent(run[d].order)
        /\ run'[d].pc \in {"capacity", "prepare", "bill", "mark"} =>
             (Pollable /\ run'[d].req # 0) \/ Unsent(run[d].order)
        /\ run'[d].pc = "dispatch" => Unsent(run[d].order)
  <2> SUFFICES ASSUME NEW d \in Claim, Live(d)', Live(d), Held(d)
               PROVE /\ run'[d].pc \notin Behind => run'[d].call = task'.call
                     /\ run'[d].pc \in {"claimed", "decide"} /\ ~run'[d].recovered => Unsent(run[d].order)
                     /\ run'[d].pc \in {"capacity", "prepare", "bill", "mark"} =>
                          (Pollable /\ run'[d].req # 0) \/ Unsent(run[d].order)
                     /\ run'[d].pc = "dispatch" => Unsent(run[d].order)
    OBVIOUS
  <2>1. Still(d)
    BY DEF Ended, Live
  <2> QED BY <2>1 DEF Still, CreateInv, MemoryInv, AheadInv
<1> QED BY <1>1, <1>2, <1>3, <1>4, <1>5, <1>6, CreateKept

\* A step of one goroutine that does not pass the checkpoint.
LEMMA StepCreate ==
  ASSUME CreateInv, Framed, NEW c \in Claim, Live(c), Alone(c),
         run'[c].order = run[c].order, run'[c].pc \notin {"none", "send"},
         run'[c].sent # "no" => Fired(c),
         run'[c].pc = "dispatch" => order'[run[c].order] # "reserved",
         task'.call = task.call \/ (Held(c) /\ task'.call # "pending"),
         task.call = "dispatched" => task'.call = "dispatched",
         task'.status = "queued" => task'.call = task.call,
         Live(c)' /\ Held(c)' /\ Held(c) =>
           /\ run'[c].pc \notin Behind => run'[c].call = task'.call
           /\ run'[c].pc \in {"claimed", "decide"} /\ ~run'[c].recovered => Unsent(run[c].order)
           /\ run'[c].pc \in {"capacity", "prepare", "bill", "mark"} =>
                (Pollable /\ run'[c].req # 0) \/ Unsent(run[c].order)
           /\ run'[c].pc = "dispatch" => Unsent(run[c].order)
  PROVE  CreateInv'
<1>1. \A d \in Claim :
        /\ run'[d].order = run[d].order
        /\ run'[d].pc = "none" <=> run[d].pc = "none"
        /\ run[d].pc = "none" => run'[d].sent = run[d].sent
  BY DEF Alone, Live
<1>2. \A d \in Claim : Fired(d)' => Fired(d)
  BY DEF Alone, Fired
<1>3. \A d \in Claim : run'[d].pc = "send" => run'[d].sent = "no"
  BY DEF CreateInv, FiredInv, Alone
<1>4. \A d \in Claim : run'[d].pc = "dispatch" => order'[run[d].order] # "reserved"
  BY Types DEF CreateInv, AttemptInv, FiredInv, Alone, Framed
<1>5. task'.status = "queued" => task'.call = "pending"
  BY DEF CreateInv, FiredInv, Framed
<1>6. \A d \in Claim : Live(d)' /\ Held(d)' /\ Live(d) /\ Held(d) =>
        /\ run'[d].pc \notin Behind => run'[d].call = task'.call
        /\ run'[d].pc \in {"claimed", "decide"} /\ ~run'[d].recovered => Unsent(run[d].order)
        /\ run'[d].pc \in {"capacity", "prepare", "bill", "mark"} =>
             (Pollable /\ run'[d].req # 0) \/ Unsent(run[d].order)
        /\ run'[d].pc = "dispatch" => Unsent(run[d].order)
  <2> SUFFICES ASSUME NEW d \in Claim \ {c}, Live(d), Held(d)
               PROVE /\ run'[d].pc \notin Behind => run'[d].call = task'.call
                     /\ run'[d].pc \in {"claimed", "decide"} /\ ~run'[d].recovered => Unsent(run[d].order)
                     /\ run'[d].pc \in {"capacity", "prepare", "bill", "mark"} =>
                          (Pollable /\ run'[d].req # 0) \/ Unsent(run[d].order)
                     /\ run'[d].pc = "dispatch" => Unsent(run[d].order)
    OBVIOUS
  <2>1. ~Held(c) /\ run'[d] = run[d]
    BY HolderAlone DEF Alone, CreateInv
  <2> QED BY <2>1 DEF CreateInv, MemoryInv, AheadInv
<1> QED BY <1>1, <1>2, <1>3, <1>4, <1>5, <1>6, CreateKept

Later == Pc \ {"none", "claimed", "decide", "capacity", "prepare", "bill", "mark", "dispatch", "send"}

LEMMA LaterCreate ==
  ASSUME CreateInv, Framed, NEW c \in Claim, Live(c), NEW pc \in Later, Goes(c, pc),
         run[c].pc \notin Behind \/ pc \in Behind, task'.call = task.call
  PROVE  CreateInv'
<1>1. /\ Alone(c) /\ run'[c].pc = pc /\ run'[c].order = run[c].order
      /\ run'[c].sent = run[c].sent /\ run'[c].call = run[c].call
  BY DEF Goes, Same
<1>2. run'[c].sent # "no" => Fired(c)
  BY <1>1 DEF Fired
<1>3. Held(c) /\ pc \notin Behind => run'[c].call = task'.call
  BY <1>1 DEF CreateInv, MemoryInv
<1>4. pc \notin {"none", "claimed", "decide", "capacity", "prepare", "bill", "mark", "dispatch", "send"}
  BY DEF Later
<1> HIDE DEF Later
<1> QED BY <1>1, <1>2, <1>3, <1>4, StepCreate

LEMMA OverCreate ==
  ASSUME CreateInv, Framed, NEW c \in Claim, Live(c), Over(c), task'.call = task.call
  PROVE  CreateInv'
<1>1. \A d \in Claim : Still(d) \/ Ended(d)
  BY DEF Over, Alone, Still, Ended
<1> QED BY <1>1, QuietCreate

\* A goroutine that holds the row saves the call state the row has.
LEMMA SavedCall ==
  ASSUME CreateInv, NEW c \in Claim, Live(c), Held(c), run[c].pc \notin Behind, NEW status,
         task' = SavedRow(c, status)
  PROVE  task'.call = task.call
BY Types DEF CreateInv, AttemptInv, MemoryInv, SavedRow, Row

LEMMA RowCall ==
  ASSUME TypeOK, \/ task' \in {task, DeferredRow, CancelledRow}
                 \/ \E x : \/ task' = [DeferredRow EXCEPT !.age = x]
                          \/ task' = [task EXCEPT !.req = x]
                          \/ task' = [task EXCEPT !.ckpt = x]
                          \/ task' = [task EXCEPT !.lease = x]
                          \/ task' = [task EXCEPT !.due = x]
                          \/ task' = [task EXCEPT !.age = x]
                          \/ task' = [task EXCEPT !.req = x, !.due = FALSE]
  PROVE  task'.call = task.call
BY Types DEF DeferredRow, CancelledRow, Row

LEMMA HydrateCreate ==
  ASSUME CreateInv, Framed, NEW c \in Claim, Hydrate(c) PROVE CreateInv'
<1>0. TypeOK /\ Live(c) /\ run[c].pc = "claimed"
  BY DEF CreateInv, AttemptInv, Hydrate, At, Live
<1>1. task'.call = task.call
  BY <1>0, RowCall DEF Hydrate
<1>2. CASE Over(c)
  BY <1>0, <1>1, <1>2, OverCreate
<1>3. CASE Alone(c) /\ Same(c) /\ run'[c].pc = "decide" /\ run'[c].call = run[c].call
  <2>1. run'[c].sent # "no" => Fired(c)
    BY <1>3 DEF Same, Fired
  <2>2. Held(c) => run'[c].call = task'.call /\ (~run'[c].recovered => Unsent(run[c].order))
    BY <1>0, <1>1, <1>3 DEF CreateInv, MemoryInv, AheadInv, Behind, Same
  <2>3. run'[c].order = run[c].order
    BY <1>3 DEF Same
  <2> QED BY <1>0, <1>1, <1>3, <2>1, <2>2, <2>3, StepCreate
<1> QED BY <1>0, <1>2, <1>3, HydrateMoves DEF Goes

\* Whoever may go on after a recovery is the first, or only polls.
LEMMA DecideCreate ==
  ASSUME CreateInv, Framed, NEW c \in Claim, Decide(c) PROVE CreateInv'
<1>0. TypeOK /\ Live(c) /\ run[c].pc = "decide" /\ task' = task
  BY DEF CreateInv, AttemptInv, Decide, At, Live
<1>1. ASSUME Goes(c, "saveAlways") PROVE CreateInv'
  BY <1>0, <1>1, LaterCreate DEF Later, Behind, Pc
<1>2. ASSUME NEW pc \in {"capacity", "prepare"}, Goes(c, pc), CanContinue(c) PROVE CreateInv'
  <2>1. /\ Alone(c) /\ run'[c].pc = pc /\ run'[c].order = run[c].order /\ run'[c].req = run[c].req
        /\ run'[c].sent = run[c].sent /\ run'[c].call = run[c].call
    BY <1>2 DEF Goes, Same
  <2>2. run'[c].sent # "no" => Fired(c)
    BY <2>1 DEF Fired
  <2>3. ASSUME Held(c) PROVE (Pollable /\ run[c].req # 0) \/ Unsent(run[c].order)
    <3>1. CASE ~run[c].recovered
      BY <1>0, <2>3, <3>1 DEF CreateInv, AheadInv
    <3>2. CASE order[run[c].order] = "reserved"
      BY <3>2 DEF CreateInv, FiredInv, Unsent
    <3>3. CASE run[c].call \in NotStarted
      <4>1. run[c].call = task.call /\ run[c].order = task.order
        BY <1>0, <2>3 DEF CreateInv, MemoryInv, Behind, AttemptInv, HolderIsCurrent
      <4> QED BY <3>3, <4>1 DEF CreateInv, FiredInv, Unsent, NotStarted
    <3> QED BY <1>2, <3>1, <3>2, <3>3 DEF CanContinue
  <2>4. Held(c) => run'[c].call = task'.call
    BY <1>0, <2>1 DEF CreateInv, MemoryInv, Behind
  <2> QED BY <1>0, <2>1, <2>2, <2>3, <2>4, StepCreate
<1> QED BY <1>0, <1>1, <1>2, DecideMoves

LEMMA CapacityCreate ==
  ASSUME CreateInv, Framed, NEW c \in Claim, Capacity(c) \/ CapacityFailed(c) PROVE CreateInv'
<1>0. /\ TypeOK /\ Live(c) /\ run[c].pc \in {"capacity", "capacityFailed"}
      /\ Capacity(c) => run[c].pc = "capacity"
  BY DEF CreateInv, AttemptInv, Capacity, CapacityFailed, At, Live
<1>1. task'.call = task.call
  BY <1>0, RowCall DEF Capacity, CapacityRow, CapacityFailed
<1>2. CASE Return(c)
  BY <1>0, <1>1, <1>2, ReturnMoves, OverCreate
<1>3. ASSUME NEW pc \in {"capacityFailed", "saveAlways"}, Goes(c, pc) PROVE CreateInv'
  BY <1>0, <1>1, <1>3, LaterCreate DEF Later, Behind, Pc
<1>4. ASSUME Capacity(c), Goes(c, "prepare") PROVE CreateInv'
  <2>1. /\ Alone(c) /\ run'[c].pc = "prepare" /\ run'[c].order = run[c].order /\ run'[c].req = run[c].req
        /\ run'[c].sent = run[c].sent /\ run'[c].call = run[c].call
    BY <1>4 DEF Goes, Same
  <2>2. run'[c].sent # "no" => Fired(c)
    BY <2>1 DEF Fired
  <2>3. Held(c) =>
          /\ run'[c].call = task'.call
          /\ (Pollable /\ run'[c].req # 0) \/ Unsent(run[c].order)
    BY <1>0, <1>1, <1>4, <2>1 DEF CreateInv, MemoryInv, AheadInv, Behind
  <2> QED BY <1>0, <1>1, <2>1, <2>2, <2>3, StepCreate
<1>5. CASE Capacity(c)
  BY <1>0, <1>2, <1>3, <1>4, <1>5, GotoMoves DEF Capacity
<1>6. CASE CapacityFailed(c)
  BY <1>0, <1>2, <1>3, <1>6, ConcludeMoves DEF CapacityFailed
<1> QED BY <1>5, <1>6

LEMMA PrepareCreate ==
  ASSUME CreateInv, Framed, NEW c \in Claim, PrepareClaimedTaskProviderCall(c) PROVE CreateInv'
<1>0. TypeOK /\ Live(c) /\ run[c].pc = "prepare"
  BY DEF CreateInv, AttemptInv, PrepareClaimedTaskProviderCall, At, Live
<1>1. CASE Over(c) /\ UNCHANGED task
  BY <1>0, <1>1, OverCreate
<1>2. CASE /\ Alone(c) /\ Same(c) /\ run'[c].pc = "bill" /\ run'[c].req = run[c].req
           /\ run'[c].call = PreflightState(run[c].call) /\ Held(c)
           /\ task' = [task EXCEPT !.call = PreflightState(task.call)]
  <2>1. task'.call = PreflightState(task.call) /\ task'.status = task.status
    BY <1>0, <1>2, Types DEF Row
  <2>2. run[c].call = task.call
    BY <1>0, <1>2 DEF CreateInv, MemoryInv, Behind
  <2>3. task'.call # "pending" /\ (task.call = "dispatched" => task'.call = "dispatched")
    BY <2>1 DEF PreflightState
  <2>4. task'.status # "queued"
    BY <1>2, <2>1 DEF Held
  <2>5. run'[c].order = run[c].order /\ (run'[c].sent # "no" => Fired(c))
    BY <1>2 DEF Same, Fired
  <2>6. (Pollable /\ run'[c].req # 0) \/ Unsent(run[c].order)
    BY <1>0, <1>2 DEF CreateInv, AheadInv
  <2> QED BY <1>0, <1>2, <2>1, <2>2, <2>3, <2>4, <2>5, <2>6, StepCreate
<1> QED BY <1>0, <1>1, <1>2, PrepareMoves

\* The SELECT finds the order running, which no reserved order is, or leaves
\* the goroutine on its way.
LEMMA ReadCreate ==
  ASSUME CreateInv, Framed, NEW c \in Claim, MarkBillingRead(c) PROVE CreateInv'
<1>0. /\ TypeOK /\ Live(c) /\ run[c].pc = "bill" /\ task' = task /\ order' = order
      /\ run[c].order \in Attempt
  BY Types DEF CreateInv, AttemptInv, MarkBillingRead, At, Live, ledger
<1>1. ASSUME NEW pc \in {"poll", "saveAlways"}, Goes(c, pc) PROVE CreateInv'
  BY <1>0, <1>1, LaterCreate DEF Later, Behind, Pc
<1>2. ASSUME Goes(c, "dispatch"), ~(Pollable /\ run[c].req # 0), order[run[c].order] = "running"
      PROVE  CreateInv'
  <2>1. /\ Alone(c) /\ run'[c].pc = "dispatch" /\ run'[c].order = run[c].order
        /\ run'[c].sent = run[c].sent /\ run'[c].call = run[c].call
    BY <1>2 DEF Goes, Same
  <2>2. run'[c].sent # "no" => Fired(c)
    BY <2>1 DEF Fired
  <2>3. order'[run[c].order] # "reserved"
    BY <1>0, <1>2
  <2>4. Held(c) => run'[c].call = task'.call /\ Unsent(run[c].order)
    BY <1>0, <1>2, <2>1 DEF CreateInv, MemoryInv, AheadInv, Behind
  <2> QED BY <1>0, <2>1, <2>2, <2>3, <2>4, StepCreate
<1>3. ASSUME Goes(c, "mark") PROVE CreateInv'
  <2>1. /\ Alone(c) /\ run'[c].pc = "mark" /\ run'[c].order = run[c].order
        /\ run'[c].sent = run[c].sent /\ run'[c].call = run[c].call /\ run'[c].req = run[c].req
    BY <1>3 DEF Goes, Same
  <2>2. run'[c].sent # "no" => Fired(c)
    BY <2>1 DEF Fired
  <2>3. Held(c) => /\ run'[c].call = task'.call
                   /\ (Pollable /\ run'[c].req # 0) \/ Unsent(run[c].order)
    BY <1>0, <2>1 DEF CreateInv, MemoryInv, AheadInv, Behind
  <2> QED BY <1>0, <2>1, <2>2, <2>3, StepCreate
<1>4. CASE BillingFailed(c)
  BY <1>0, <1>1, <1>4, ConcludeMoves DEF BillingFailed
<1>5. CASE order[run[c].order] = "running" /\ Goto(c, ProviderPc(c))
  BY <1>0, <1>1, <1>2, <1>5, GotoMoves DEF ProviderPc
<1>6. CASE Goto(c, "mark")
  BY <1>0, <1>3, <1>6, GotoMoves
<1> QED BY <1>4, <1>5, <1>6 DEF MarkBillingRead

LEMMA BillCreate ==
  ASSUME CreateInv, Framed, NEW c \in Claim, MarkBillingRunning(c) PROVE CreateInv'
<1>0. TypeOK /\ Live(c) /\ run[c].pc = "mark" /\ task' = task /\ run[c].order \in Attempt
  BY Types DEF CreateInv, AttemptInv, MarkBillingRunning, At, Live
<1>1. ASSUME NEW pc \in {"poll", "saveAlways"}, Goes(c, pc) PROVE CreateInv'
  BY <1>0, <1>1, LaterCreate DEF Later, Behind, Pc
<1>2. ASSUME Goes(c, "dispatch"), ~(Pollable /\ run[c].req # 0),
             order' = [order EXCEPT ![run[c].order] = "running"]
      PROVE  CreateInv'
  <2>1. /\ Alone(c) /\ run'[c].pc = "dispatch" /\ run'[c].order = run[c].order
        /\ run'[c].sent = run[c].sent /\ run'[c].call = run[c].call
    BY <1>2 DEF Goes, Same
  <2>2. run'[c].sent # "no" => Fired(c)
    BY <2>1 DEF Fired
  <2>3. order'[run[c].order] # "reserved"
    BY <1>0, <1>2, Types
  <2>4. Held(c) => run'[c].call = task'.call /\ Unsent(run[c].order)
    BY <1>0, <1>2, <2>1 DEF CreateInv, MemoryInv, AheadInv, Behind
  <2> QED BY <1>0, <2>1, <2>2, <2>3, <2>4, StepCreate
<1>3. CASE BillingFailed(c)
  BY <1>0, <1>1, <1>3, ConcludeMoves DEF BillingFailed
<1>4. CASE order' = [order EXCEPT ![run[c].order] = "running"] /\ Goto(c, ProviderPc(c))
  BY <1>0, <1>1, <1>2, <1>4, GotoMoves DEF ProviderPc
<1> QED BY <1>3, <1>4 DEF MarkBillingRunning

\* The checkpoint: nobody of the attempt has passed it before.
LEMMA DispatchCreate ==
  ASSUME CreateInv, Framed, NEW c \in Claim, Dispatch(c) PROVE CreateInv'
<1>0. TypeOK /\ Live(c) /\ run[c].pc = "dispatch" /\ order' = order
  BY DEF CreateInv, AttemptInv, Dispatch, At, Live, ledger
<1>1. CASE Answer(c, "refresh", "notSent") /\ UNCHANGED task
  BY <1>0, <1>1, AnswerMoves, LaterCreate DEF Later, Behind, Pc
<1>2. CASE MayDispatch(c) /\ task' = [task EXCEPT !.call = "dispatched"] /\ Goto(c, "send")
  <2>1. /\ Alone(c) /\ run'[c].pc = "send" /\ run'[c].order = run[c].order /\ run'[c].sent = run[c].sent
    BY <1>0, <1>2, GotoMoves DEF Goes, Same
  <2>2. /\ task'.call = "dispatched" /\ task'.order = task.order /\ task'.status = "running"
        /\ task'.owner = task.owner
    BY <1>0, <1>2, Types DEF Row, MayDispatch, HeldFresh, Held
  <2>3. Held(c) /\ Unsent(run[c].order)
    BY <1>0, <1>2 DEF MayDispatch, HeldFresh, CreateInv, AheadInv
  <2>4. \A d \in Claim \ {c} : run'[d] = run[d] /\ (Fired(d)' <=> Fired(d))
    BY <2>1 DEF Alone, Fired
  <2>5. run[c].sent = "no" /\ ~Fired(c)
    BY <2>3 DEF Unsent, Fired
  <2>6. StartInv'
    BY <1>0, <2>1, <2>4 DEF CreateInv, StartInv, Framed, Live
  <2>7. FiredInv'
    <3>1. \A d, e \in Claim : Fired(d)' /\ Fired(e)' /\ run'[d].order = run'[e].order => d = e
      BY <2>1, <2>3, <2>4 DEF CreateInv, FiredInv, Unsent
    <3>2. \A d \in Claim : Fired(d)' \/ run'[d].pc = "dispatch" => order'[run'[d].order] # "reserved"
      BY <1>0, <2>1, <2>4 DEF CreateInv, FiredInv
    <3>3. \A d \in Claim : run'[d].pc = "send" => run'[d].sent = "no"
      BY <2>1, <2>4, <2>5 DEF CreateInv, FiredInv
    <3> QED BY <2>2, <3>1, <3>2, <3>3 DEF FiredInv
  <2>8. \A d \in Claim : Live(d)' /\ Held(d)' => d = c
    BY <2>3, HeldBefore, HolderAlone, <1>0 DEF CreateInv
  <2>9. MemoryInv' /\ AheadInv'
    BY <2>1, <2>8 DEF MemoryInv, AheadInv, Behind
  <2> QED BY <2>6, <2>7, <2>9 DEF CreateInv, Framed
<1> QED BY <1>1, <1>2 DEF Dispatch

LEMMA SendCreate ==
  ASSUME CreateInv, Framed, NEW c \in Claim, Send(c) PROVE CreateInv'
<1>0. TypeOK /\ Live(c) /\ run[c].pc = "send" /\ Fired(c) /\ task' = task
  BY DEF CreateInv, AttemptInv, Send, At, Live, Fired
<1>1. run'[c].pc \in {"logOrder", "logTask", "refresh"} /\ Alone(c) /\ run'[c].order = run[c].order
  BY <1>0, SendMoves
<1> QED BY <1>0, <1>1, StepCreate DEF Behind

LEMMA PollCreate ==
  ASSUME CreateInv, Framed, NEW c \in Claim, Poll(c) PROVE CreateInv'
<1>0. TypeOK /\ Live(c) /\ run[c].pc = "poll"
  BY DEF CreateInv, AttemptInv, Poll, At, Live
<1>1. PICK x : Answer(c, "refresh", x)
  BY DEF Poll
<1>2. Alone(c) /\ run'[c].pc = "refresh" /\ run'[c].order = run[c].order /\ run'[c].sent = run[c].sent
  BY <1>0, <1>1, AnswerMoves DEF Goes, Same
<1>3. \/ task' = task
      \/ Held(c) /\ task'.call = "dispatched" /\ task'.status = task.status
  BY <1>0, Types DEF Poll, MayDispatch, HeldFresh, Row
<1>4. Held(c) => task.status # "queued"
  BY DEF Held
<1> QED BY <1>0, <1>2, <1>3, <1>4, StepCreate DEF Behind, Fired

LEMMA RefreshCreate ==
  ASSUME CreateInv, Framed, NEW c \in Claim, Refresh(c) PROVE CreateInv'
<1>0. TypeOK /\ Live(c) /\ run[c].pc = "refresh" /\ task' = task
  BY DEF CreateInv, AttemptInv, Refresh, At, Live
<1>1. /\ Alone(c) /\ Same(c) /\ run'[c].call = task.call
      /\ run'[c].pc \in {"defer", "persist", "judge"}
  BY <1>0, RefreshMoves
<1> QED BY <1>0, <1>1, StepCreate DEF Same, Fired

LEMMA PanicCreate ==
  ASSUME CreateInv, Framed, NEW c \in Claim, Panic(c) \/ PanicJudge(c) PROVE CreateInv'
<1>0. TypeOK /\ Live(c) /\ task' = task
  BY DEF CreateInv, AttemptInv, Panic, PanicJudge, At, Live
<1>1. CASE Panic(c)
  BY <1>0, <1>1, PanicMoves, LaterCreate DEF Later, Behind, Pc
<1>2. CASE PanicJudge(c)
  <2>1. Alone(c) /\ Same(c) /\ run'[c].call = task.call /\ run'[c].pc = "saveAlways"
    BY <1>0, <1>2, PanicJudgeMoves
  <2> QED BY <1>0, <2>1, StepCreate DEF Same, Fired
<1> QED BY <1>1, <1>2

\* The steps after the provider's answer.
LEMMA AnsweredCreate ==
  ASSUME CreateInv, Framed, NEW c \in Claim,
         \/ LogOrder(c) \/ LogTask(c) \/ Defer(c) \/ Persist(c) \/ Salvage(c) \/ Reread(c)
         \/ Settle(c) \/ JudgeFailure(c) \/ Conflict(c) \/ Billing(c) \/ Abandon(c)
  PROVE  CreateInv'
<1>0. TypeOK /\ Live(c)
  BY DEF CreateInv, AttemptInv, LogOrder, LogTask, Defer, Persist, Salvage, Reread, Settle,
         JudgeFailure, Conflict, Billing, Abandon, At, Live
<1>1. task'.call = task.call
  BY <1>0, RowCall
     DEF LogOrder, LogTask, Defer, Persist, Salvage, Reread, Settle, JudgeFailure, Conflict,
         Billing, Abandon
<1>2. CASE Return(c)
  BY <1>0, <1>1, <1>2, ReturnMoves, OverCreate
<1>3. ASSUME NEW pc \in {"logTask", "poll", "refresh"}, Goes(c, pc) PROVE CreateInv'
  BY <1>0, <1>1, <1>3, LaterCreate DEF Later, Behind, Pc
<1>4. ASSUME NEW pc \in {"reread", "salvage", "judge", "billing", "checkpoint", "save"}, Goes(c, pc),
             run[c].pc \notin Behind
      PROVE  CreateInv'
  BY <1>0, <1>1, <1>4, LaterCreate DEF Later, Behind, Pc
<1>5. CASE LogOrder(c) \/ LogTask(c)
  BY <1>0, <1>3, <1>5, GotoMoves, AnswerMoves DEF LogOrder, LogTask
<1>6. CASE Defer(c) \/ Settle(c) \/ Billing(c) \/ Abandon(c)
  BY <1>2, <1>6 DEF Defer, Settle, Billing, Abandon
<1>7. CASE Persist(c) \/ Reread(c) \/ Conflict(c)
  <2>1. run[c].pc \notin Behind
    BY <1>7 DEF Persist, Reread, Conflict, At, Behind
  <2> QED BY <1>0, <1>2, <1>4, <1>7, <2>1, GotoMoves, AnswerMoves, ConcludeMoves
          DEF Persist, Reread, Conflict
<1>8. CASE Salvage(c)
  <2>1. run[c].pc \notin Behind
    BY <1>8 DEF Salvage, At, Behind
  <2> QED BY <1>0, <1>2, <1>4, <1>8, <2>1, GotoMoves, CkptMoves DEF Salvage
<1>9. CASE JudgeFailure(c)
  <2>1. run[c].pc \notin Behind
    BY <1>9 DEF JudgeFailure, At, Behind
  <2> QED BY <1>0, <1>2, <1>4, <1>9, <2>1, ConcludeMoves DEF JudgeFailure
<1> QED BY <1>5, <1>6, <1>7, <1>8, <1>9

LEMMA SavingCreate ==
  ASSUME CreateInv, Framed, NEW c \in Claim,
         Checkpoint(c) \/ Complete(c) \/ SaveTerminal(c) \/ SaveAlways(c)
  PROVE  CreateInv'
<1>0. TypeOK /\ Live(c) /\ run[c].pc \notin Behind
  BY DEF CreateInv, AttemptInv, Checkpoint, Complete, SaveTerminal, SaveAlways, At, Live, Behind
<1>1. task'.call = task.call
  BY <1>0, RowCall, SavedCall DEF Checkpoint, Complete, SaveTerminal, SaveAlways
<1>2. ASSUME NEW pc \in {"complete", "settle", "billing", "conflict", "saveAlways"}, Goes(c, pc)
      PROVE  CreateInv'
  BY <1>0, <1>1, <1>2, LaterCreate DEF Later, Pc
<1> QED BY <1>0, <1>2, GotoMoves, ConcludeMoves, CkptMoves
        DEF Checkpoint, Complete, SaveTerminal, SaveAlways, ResultConflict, ResultNotSaved

LEMMA StepsCreate ==
  ASSUME CreateInv, Framed, NEW c \in Claim, Step(c) \/ Abandon(c) \/ Panic(c) PROVE CreateInv'
BY HydrateCreate, DecideCreate, CapacityCreate, PrepareCreate, ReadCreate, BillCreate, DispatchCreate,
   SendCreate, PollCreate, RefreshCreate, PanicCreate, AnsweredCreate, SavingCreate
   DEF Step

\* Crashes, the clock and the handlers start no goroutine and move none.
LEMMA QuietSteps ==
  ASSUME TypeOK,
         \/ \E c \in Claim : RenewTaskLease(c)
         \/ \E p \in Proc : Crash(p) \/ CancelRead(p) \/ RetryCheck(p)
         \/ \E a \in Attempt : ResolveBillingOrder(a)
         \/ LeaseExpires \/ Timeout \/ PollDue \/ CancelStep
  PROVE  task'.call = task.call /\ \A d \in Claim : Still(d) \/ Ended(d)
<1>1. ASSUME UNCHANGED run PROVE \A d \in Claim : Still(d) \/ Ended(d)
  BY <1>1 DEF Still
<1>2. ASSUME NEW p \in Proc, Crash(p) PROVE \A d \in Claim : Still(d) \/ Ended(d)
  BY <1>2, CrashMoves, FinishedMoves DEF Still, Ended
<1>3. ASSUME CancelSoft PROVE \A d \in Claim : Still(d) \/ Ended(d)
  BY <1>3, SignalMoves DEF Still
<1>4. task'.call = task.call
  BY RowCall
     DEF RenewTaskLease, Crash, CancelRead, RetryCheck, ResolveBillingOrder, LeaseExpires, Timeout,
         PollDue, CancelStep, CancelQueued, CancelSoft, CancelHard, CancelReread, CancelFails,
         CancelRefund, CancelReview
<1> QED BY <1>1, <1>2, <1>3, <1>4
        DEF RenewTaskLease, CancelRead, RetryCheck, ResolveBillingOrder, LeaseExpires, Timeout,
            PollDue, CancelStep, CancelQueued, CancelHard, CancelReread, CancelFails,
            CancelRefund, CancelReview

(***************************************************************************)
(* The frame of all steps but a claim and a retry.                         *)
(***************************************************************************)

LEMMA NothingReserved ==
  ASSUME TypeOK, Next, ~RetryTx, NEW a \in Attempt, order'[a] = "reserved"
  PROVE  order[a] = "reserved"
<1>1. ASSUME NEW b, MarkUncertain(b) \/ RefundFromExecution(b) \/ SettleFromExecution(b)
      PROVE  order[a] = "reserved"
  BY <1>1, Types DEF MarkUncertain, RefundFromExecution, SettleFromExecution, OrderAfter
<1>2. ASSUME UNCHANGED order PROVE order[a] = "reserved"
  BY <1>2
<1>3. ASSUME NEW c \in Claim, MarkBillingRunning(c) PROVE order[a] = "reserved"
  BY <1>3, Types DEF MarkBillingRunning
<1>4. ASSUME NEW b \in Attempt, ResolveBillingOrder(b) PROVE order[a] = "reserved"
  BY <1>4, Types DEF ResolveBillingOrder
<1>5. ASSUME NEW c \in Claim, LogTask(c) \/ Settle(c) \/ Billing(c) PROVE order[a] = "reserved"
  BY <1>1, <1>2, <1>5 DEF LogTask, Settle, Billing
<1>6. ASSUME NEW c \in Claim, Step(c),
             ~(MarkBillingRunning(c) \/ LogTask(c) \/ Settle(c) \/ Billing(c))
      PROVE  UNCHANGED order
  BY <1>6
     DEF Step, Hydrate, Decide, Capacity, CapacityFailed, PrepareClaimedTaskProviderCall,
         MarkBillingRead, Dispatch, Send, LogOrder, Poll, Refresh, Defer, Persist, Salvage,
         Reread, Checkpoint, Complete, JudgeFailure, SaveTerminal, Conflict, SaveAlways,
         PanicJudge, ledger
<1>7. ASSUME \/ \E c \in Claim : RenewTaskLease(c) \/ Abandon(c) \/ Panic(c)
             \/ \E p \in Proc : ClaimNextTask(p) \/ Crash(p) \/ CancelRead(p) \/ RetryCheck(p)
             \/ LeaseExpires \/ Timeout \/ PollDue
             \/ CancelQueued \/ CancelSoft \/ CancelHard \/ CancelReread \/ CancelFails
      PROVE  UNCHANGED order
  BY <1>7
     DEF RenewTaskLease, Abandon, Panic, ClaimNextTask, Crash, CancelRead, RetryCheck,
         LeaseExpires, Timeout, PollDue, CancelQueued, CancelSoft, CancelHard, CancelReread,
         CancelFails, ledger
<1>8. ASSUME CancelRefund \/ CancelReview PROVE order[a] = "reserved"
  BY <1>1, <1>2, <1>8 DEF CancelRefund, CancelReview
<1> QED BY <1>2, <1>3, <1>4, <1>5, <1>6, <1>7, <1>8 DEF Next, CancelStep

LEMMA NothingQueued ==
  ASSUME TypeOK, Next, ~RetryTx, ~\E p \in Proc : ClaimNextTask(p), task'.status = "queued"
  PROVE  task.status = "queued"
<1>0. task \in Row
  BY Types
<1>1. ASSUME NEW x, \/ task' = task
                    \/ task' = [task EXCEPT !.call = x]
                    \/ task' = [task EXCEPT !.lease = x]
                    \/ task' = [task EXCEPT !.due = x]
                    \/ task' = [task EXCEPT !.age = x]
                    \/ task' = [task EXCEPT !.ckpt = x]
                    \/ task' = [task EXCEPT !.req = x]
                    \/ task' = [task EXCEPT !.req = x, !.due = FALSE]
                    \/ task' \in {CancelledRow, DeferredRow}
                    \/ task' = [DeferredRow EXCEPT !.age = x]
      PROVE  task.status = "queued"
  BY <1>0, <1>1 DEF CancelledRow, DeferredRow, Row
<1>2. ASSUME NEW c \in Claim, NEW status, task' = SavedRow(c, status) PROVE status = "queued"
  BY <1>0, <1>2 DEF SavedRow, Row
<1>3. ASSUME NEW c \in Claim, Complete(c) \/ SaveTerminal(c) \/ SaveAlways(c)
      PROVE  task.status = "queued"
  BY <1>1, <1>2, <1>3, Types DEF Complete, SaveTerminal, SaveAlways
<1>4. ASSUME NEW c \in Claim,
             \/ Hydrate(c) \/ Decide(c) \/ Capacity(c) \/ CapacityFailed(c)
             \/ PrepareClaimedTaskProviderCall(c) \/ MarkBillingRead(c) \/ MarkBillingRunning(c)
             \/ Dispatch(c) \/ Send(c) \/ LogOrder(c) \/ LogTask(c) \/ Poll(c)
      PROVE  task.status = "queued"
  BY <1>1, <1>4
     DEF Hydrate, Decide, Capacity, CapacityRow, CapacityFailed, PrepareClaimedTaskProviderCall,
         MarkBillingRead, MarkBillingRunning, Dispatch, Send, LogOrder, LogTask, Poll
<1>5. ASSUME NEW c \in Claim,
             \/ Refresh(c) \/ Defer(c) \/ Persist(c) \/ Salvage(c) \/ Reread(c) \/ Checkpoint(c)
             \/ Settle(c) \/ JudgeFailure(c) \/ Conflict(c) \/ Billing(c) \/ PanicJudge(c)
             \/ Abandon(c) \/ Panic(c) \/ RenewTaskLease(c)
      PROVE  task.status = "queued"
  BY <1>1, <1>5
     DEF Refresh, Defer, Persist, Salvage, Reread, Checkpoint, Settle, JudgeFailure, Conflict,
         Billing, PanicJudge, Abandon, Panic, RenewTaskLease
<1>6. ASSUME \/ \E p \in Proc : Crash(p) \/ CancelRead(p) \/ RetryCheck(p)
             \/ \E a \in Attempt : ResolveBillingOrder(a)
             \/ LeaseExpires \/ Timeout \/ PollDue \/ CancelStep
      PROVE  task.status = "queued"
  BY <1>1, <1>6
     DEF Crash, CancelRead, RetryCheck, ResolveBillingOrder, LeaseExpires, Timeout, PollDue,
         CancelStep, CancelQueued, CancelSoft, CancelHard, CancelReread, CancelFails,
         CancelRefund, CancelReview
<1> QED BY <1>3, <1>4, <1>5, <1>6 DEF Next, Step

LEMMA ClaimsKept ==
  ASSUME Next, ~\E p \in Proc : ClaimNextTask(p) PROVE claims' = claims
<1>1. ASSUME NEW c \in Claim, Step(c) PROVE claims' = claims
  BY <1>1
     DEF Step, Hydrate, Decide, Capacity, CapacityFailed, PrepareClaimedTaskProviderCall,
         MarkBillingRead, MarkBillingRunning, Dispatch, Send, LogOrder, LogTask, Poll, Refresh,
         Defer, Persist, Salvage, Reread, Checkpoint, Complete, Settle, JudgeFailure, SaveTerminal, Conflict,
         SaveAlways, Billing, PanicJudge, system
<1>2. ASSUME ~\E c \in Claim : Step(c) PROVE claims' = claims
  BY <1>2
     DEF Next, CancelStep, RenewTaskLease, Abandon, Panic, Crash, CancelRead, RetryCheck,
         ResolveBillingOrder, LeaseExpires, Timeout, PollDue, CancelQueued, CancelSoft, CancelHard,
         CancelReread, CancelFails, CancelRefund, CancelReview, RetryTx, system
<1> QED BY <1>1, <1>2

LEMMA NextFramed ==
  ASSUME AttemptInv, "sameOwner" \notin Faults, Next, ~RetryTx, ~\E p \in Proc : ClaimNextTask(p)
  PROVE  Framed
<1>1. TypeOK
  BY DEF AttemptInv
<1> QED BY <1>1, NextKeepsGoroutines, NextKeepsRow, NextKeepsOrders, NextAttemptInv, ClaimsKept,
           NothingReserved, NothingQueued
        DEF Framed

(***************************************************************************)
(* Claims, retries, and the invariant.                                     *)
(***************************************************************************)

LEMMA ClaimCreate ==
  ASSUME CreateInv, "sameOwner" \notin Faults, NEW p \in Proc, ClaimNextTask(p) PROVE CreateInv'
<1>0. /\ TypeOK /\ AttemptInv /\ AttemptInv' /\ claims' = claims + 1 /\ order' = order
      /\ claims \in Nat
  <2>1. AttemptInv'
    BY ClaimAttempt DEF CreateInv
  <2>2. claims \in 0..MaxClaim
    BY DEF CreateInv, AttemptInv, TypeOK
  <2> QED BY <2>1, <2>2, BoundAssumption DEF CreateInv, AttemptInv, ClaimNextTask, ledger
<1>1. PICK e \in Claim :
        /\ e = claims + 1 /\ Alone(e) /\ run'[e].pc = "claimed" /\ run'[e].proc = p
        /\ run'[e].order = task.order /\ run'[e].recovered = (task.status = "running")
        /\ run'[e].call = task'.call /\ run'[e].sent = "no"
        /\ task'.call = ClaimedCall /\ task'.order = task.order
        /\ task'.status = "running" /\ task'.owner = p
  BY <1>0, ClaimMoves
<1>2. task'.call = task.call
  BY <1>1 DEF ClaimedCall, CreateInv, FiredInv
<1>3. e > claims /\ \A c \in Claim : c > claims' => c > claims /\ c # e
  BY <1>0, <1>1, BoundAssumption DEF Claim
<1>4. run[e].pc = "none" /\ run[e].sent = "no" /\ ~Fired(e) /\ ~Fired(e)'
  BY <1>1, <1>3 DEF CreateInv, StartInv, Fired
<1>5. \A d \in Claim \ {e} : run'[d] = run[d] /\ (Fired(d)' <=> Fired(d))
  BY <1>1 DEF Alone, Fired
<1>6. StartInv'
  <2>1. order[task.order] # "none"
    BY <1>0 DEF AttemptInv, AttemptsInSequence
  <2> QED BY <1>0, <1>1, <1>3, <1>5, <2>1 DEF CreateInv, StartInv
<1>7. FiredInv'
  <2>1. \A c \in Claim : Fired(c)' /\ run'[c].order = task'.order =>
          task'.status # "queued" /\ task'.call = "dispatched"
    BY <1>1, <1>2, <1>4, <1>5 DEF CreateInv, FiredInv
  <2>2. \A c, d \in Claim : Fired(c)' /\ Fired(d)' /\ run'[c].order = run'[d].order => c = d
    BY <1>4, <1>5 DEF CreateInv, FiredInv
  <2>3. \A c \in Claim : Fired(c)' \/ run'[c].pc = "dispatch" => order'[run'[c].order] # "reserved"
    BY <1>0, <1>1, <1>4, <1>5 DEF CreateInv, FiredInv
  <2>4. \A c \in Claim : run'[c].pc = "send" => run'[c].sent = "no"
    BY <1>1, <1>5 DEF CreateInv, FiredInv
  <2> QED BY <1>1, <2>1, <2>2, <2>3, <2>4 DEF FiredInv
<1>8. \A d \in Claim : Live(d)' /\ Held(d)' => d = e
  BY <1>1, <1>5 DEF ClaimNextTask, Live, Held
<1>9. task.status # "running" =>
        \A d \in Claim : run'[d].order = run'[e].order => ~Fired(d)'
  <2> SUFFICES ASSUME task.status # "running", NEW d \in Claim, run'[d].order = task.order
               PROVE  ~Fired(d)'
    BY <1>1
  <2>1. task.status = "queued"
    BY DEF ClaimNextTask, Claimable
  <2> QED BY <1>4, <1>5, <2>1 DEF CreateInv, FiredInv
<1>10. MemoryInv' /\ AheadInv'
  BY <1>1, <1>8, <1>9 DEF MemoryInv, AheadInv, Unsent
<1> QED BY <1>0, <1>6, <1>7, <1>10 DEF CreateInv

LEMMA RetryCreate ==
  ASSUME CreateInv, "sameOwner" \notin Faults, RetryTx PROVE CreateInv'
<1>0. TypeOK /\ AttemptInv /\ AttemptInv' /\ UNCHANGED <<run, claims>>
  BY RetryAttempt DEF CreateInv, AttemptInv, RetryTx, system
<1>1. CASE UNCHANGED <<task, order>>
  BY <1>0, <1>1
     DEF CreateInv, StartInv, FiredInv, MemoryInv, AheadInv, Fired, Unsent, Live, Held
<1>2. CASE ~UNCHANGED <<task, order>>
  <2>1. PICK a \in Attempt :
          /\ order[a] = "none" /\ order' = [order EXCEPT ![a] = "reserved"]
          /\ task'.status = "queued" /\ task'.order = a /\ task'.call = "pending"
    BY <1>2 DEF RetryTx, NextAttempt
  <2>2. \A c \in Claim : run[c].pc # "none" => run[c].order # a
    BY <2>1 DEF CreateInv, StartInv
  <2>3. \A c \in Claim : Fired(c) => run[c].pc # "none"
    BY DEF CreateInv, StartInv, Fired
  <2>4. \A c \in Claim : (Fired(c)' <=> Fired(c)) /\ ~Held(c)' /\ run'[c] = run[c]
    BY <1>0, <2>1 DEF Fired, Held
  <2>5. \A b \in Attempt : order'[b] = IF b = a THEN "reserved" ELSE order[b]
    BY <1>0, <2>1, Types
  <2>6. \A c \in Claim : run[c].order \in Attempt
    BY <1>0, Types
  <2>7. StartInv'
    BY <1>0, <2>4, <2>5, <2>6 DEF CreateInv, StartInv
  <2>8. FiredInv'
    <3>1. \A c \in Claim : ~(Fired(c)' /\ run'[c].order = task'.order)
      BY <2>1, <2>2, <2>3, <2>4
    <3>2. \A c, d \in Claim : Fired(c)' /\ Fired(d)' /\ run'[c].order = run'[d].order => c = d
      BY <2>4 DEF CreateInv, FiredInv
    <3>3. \A c \in Claim : Fired(c)' \/ run'[c].pc = "dispatch" => order'[run'[c].order] # "reserved"
      BY <2>2, <2>3, <2>4, <2>5, <2>6 DEF CreateInv, FiredInv
    <3>4. \A c \in Claim : run'[c].pc = "send" => run'[c].sent = "no"
      BY <2>4 DEF CreateInv, FiredInv
    <3> QED BY <2>1, <3>1, <3>2, <3>3, <3>4 DEF FiredInv
  <2>9. MemoryInv' /\ AheadInv'
    BY <2>4 DEF MemoryInv, AheadInv
  <2> QED BY <1>0, <2>7, <2>8, <2>9 DEF CreateInv
<1> QED BY <1>1, <1>2

LEMMA InitCreate == Init => CreateInv
<1> SUFFICES ASSUME Init PROVE CreateInv
  OBVIOUS
<1>1. \A c \in Claim : run[c].pc = "none" /\ run[c].sent = "no" /\ ~Live(c) /\ ~Fired(c)
  BY DEF Init, NoRun, Live, Fired
<1>2. task.status = "queued" /\ task.call = "pending"
  BY DEF Init
<1> QED BY <1>1, <1>2, InitAttempt DEF CreateInv, StartInv, FiredInv, MemoryInv, AheadInv

LEMMA NextCreate ==
  ASSUME CreateInv, "sameOwner" \notin Faults, [Next]_vars PROVE CreateInv'
<1>1. CASE UNCHANGED vars
  <2>1. AttemptInv'
    BY NextAttemptInv DEF CreateInv
  <2> QED BY <1>1, <2>1
          DEF CreateInv, StartInv, FiredInv, MemoryInv, AheadInv, Fired, Unsent, Live, Held, vars
<1>2. CASE \E p \in Proc : ClaimNextTask(p)
  BY <1>2, ClaimCreate
<1>3. CASE RetryTx
  BY <1>3, RetryCreate
<1>4. CASE Next /\ ~RetryTx /\ ~\E p \in Proc : ClaimNextTask(p)
  <2>1. Framed /\ TypeOK
    BY <1>4, NextFramed DEF CreateInv, AttemptInv
  <2>2. CASE \E c \in Claim : Step(c) \/ Abandon(c) \/ Panic(c)
    BY <2>1, <2>2, StepsCreate
  <2>3. CASE ~\E c \in Claim : Step(c) \/ Abandon(c) \/ Panic(c)
    <3>1. task'.call = task.call /\ \A d \in Claim : Still(d) \/ Ended(d)
      BY <1>4, <2>1, <2>3, QuietSteps DEF Next
    <3> QED BY <2>1, <3>1, QuietCreate
  <2> QED BY <2>2, <2>3
<1> QED BY <1>1, <1>2, <1>3, <1>4

\* However often the lease of an attempt changes hands, lapses or is lost in a
\* crash, and whatever a local statement does, a billing order pays for at most
\* one create request: the checkpoint of Dispatch lets a single goroutine through.
THEOREM OneCreateCorrect ==
  ASSUME "sameOwner" \notin Faults PROVE Spec => []OneCreatePerAttempt
<1>1. CreateInv => OneCreatePerAttempt
  BY DEF CreateInv, FiredInv, Fired, OneCreatePerAttempt
<1> QED BY <1>1, InitCreate, NextCreate, PTL DEF Spec

\* The stored call state is never behind what has left the process: a row that
\* says pending or preflight names an attempt of which nothing was sent.
THEOREM CallStateCorrect ==
  ASSUME "sameOwner" \notin Faults PROVE Spec => []CallStateHonest
<1>1. CreateInv => CallStateHonest
  BY DEF CreateInv, FiredInv, Fired, CallStateHonest, SentFor, NotStarted
<1> QED BY <1>1, InitCreate, NextCreate, PTL DEF Spec

LEMMA CallMoves ==
  ASSUME CreateInv, NEW c \in Claim, Step(c) \/ Abandon(c) \/ Panic(c)
  PROVE  \/ task'.call = task.call
         \/ Held(c) /\ task'.call \in {PreflightState(task.call), "dispatched"}
<1>0. TypeOK
  BY DEF CreateInv, AttemptInv
<1>1. CASE \/ Hydrate(c) \/ Decide(c) \/ Capacity(c) \/ CapacityFailed(c)
           \/ MarkBillingRead(c) \/ MarkBillingRunning(c) \/ Send(c) \/ LogOrder(c) \/ LogTask(c) \/ Refresh(c) \/ Defer(c) \/ Persist(c)
  BY <1>0, <1>1, RowCall
     DEF Hydrate, Decide, Capacity, CapacityRow, CapacityFailed, MarkBillingRead,
         MarkBillingRunning, Send, LogOrder, LogTask, Refresh, Defer, Persist
<1>2. CASE \/ Salvage(c) \/ Reread(c) \/ Settle(c) \/ JudgeFailure(c) \/ Conflict(c) \/ Billing(c)
           \/ PanicJudge(c) \/ Abandon(c) \/ Panic(c)
  BY <1>0, <1>2, RowCall
     DEF Salvage, Reread, Settle, JudgeFailure, Conflict, Billing, PanicJudge, Abandon, Panic
<1>3. CASE Checkpoint(c) \/ Complete(c) \/ SaveTerminal(c) \/ SaveAlways(c)
  <2>1. Live(c) /\ run[c].pc \notin Behind
    BY <1>3 DEF Checkpoint, Complete, SaveTerminal, SaveAlways, At, Live, Behind
  <2> QED BY <1>0, <1>3, <2>1, RowCall, SavedCall DEF Checkpoint, Complete, SaveTerminal, SaveAlways
<1>4. CASE PrepareClaimedTaskProviderCall(c) \/ Dispatch(c) \/ Poll(c)
  BY <1>0, <1>4, Types
     DEF PrepareClaimedTaskProviderCall, Dispatch, Poll, MayDispatch, HeldFresh, Row
<1> QED BY <1>1, <1>2, <1>3, <1>4 DEF Step

LEMMA CallForward ==
  ASSUME CreateInv, [Next]_vars, task'.order = task.order, task'.status # "queued"
  PROVE  CallRank(task'.call) >= CallRank(task.call)
<1>0. TypeOK
  BY DEF CreateInv, AttemptInv
<1>1. \A call \in CallState :
        /\ CallRank(call) >= CallRank(call) /\ CallRank(PreflightState(call)) >= CallRank(call)
        /\ CallRank("dispatched") >= CallRank(call)
  BY DEF CallState, CallRank, PreflightState
<1>2. task.call \in CallState
  BY <1>0, Types
<1>3. CASE \E c \in Claim : Step(c) \/ Abandon(c) \/ Panic(c)
  BY <1>1, <1>2, <1>3, CallMoves
<1>4. CASE \E p \in Proc : ClaimNextTask(p)
  <2>1. task'.call = ClaimedCall
    BY <1>0, <1>4, ClaimMoves
  <2> QED BY <1>1, <1>2, <2>1 DEF ClaimedCall, CreateInv, FiredInv
<1>5. CASE RetryTx \/ UNCHANGED vars
  BY <1>1, <1>2, <1>5 DEF RetryTx, vars
<1>6. CASE /\ Next /\ ~RetryTx /\ ~\E p \in Proc : ClaimNextTask(p)
           /\ ~\E c \in Claim : Step(c) \/ Abandon(c) \/ Panic(c)
  <2>1. task'.call = task.call
    BY <1>0, <1>6, QuietSteps DEF Next
  <2> QED BY <1>1, <1>2, <2>1
<1> QED BY <1>3, <1>4, <1>5, <1>6

\* Within an attempt the stored call state only moves forward: no whole-row save
\* of a goroutine with an older memory takes it back.
THEOREM CallForwardCorrect ==
  ASSUME "sameOwner" \notin Faults PROVE Spec => CallStateForward
<1>1. CreateInv /\ [Next]_vars =>
        [task'.order = task.order /\ task'.status # "queued"
           => CallRank(task'.call) >= CallRank(task.call)]_vars
  BY CallForward
<1> QED BY <1>1, InitCreate, NextCreate, PTL DEF Spec, CallStateForward

(***************************************************************************)
(* A result is one of the attempt's own request.                           *)
(***************************************************************************)

AcceptedNow(a) == \E d \in Claim : run'[d].order = a /\ run'[d].sent = "accepted"

\* What ResultInv asks of a goroutine after a step.
ResultNow(d) ==
  /\ run'[d].pc \in {"logOrder", "logTask"} => run'[d].sent = "accepted"
  /\ run'[d].pc = "poll" => run'[d].req # 0 \/ run'[d].sent = "accepted"
  /\ run'[d].pc = "refresh" /\ run'[d].outcome = "success" => AcceptedNow(run[d].order)
  /\ run'[d].pc \in {"persist", "reread", "checkpoint", "complete"} => AcceptedNow(run[d].order)
  /\ run'[d].pc = "settle" => task'.status = "succeeded" /\ task'.order = run[d].order
Unmoved(d) ==
  /\ run'[d].pc = run[d].pc /\ run'[d].sent = run[d].sent /\ run'[d].req = run[d].req
  /\ run'[d].outcome = run[d].outcome

LEMMA AcceptedKept ==
  ASSUME CreateInv, NEW a, Accepted(a),
         \A d \in Claim : run[d].sent # "no" =>
           run'[d].order = run[d].order /\ (run'[d].sent = run[d].sent \/ run[d].pc = "send")
  PROVE  AcceptedNow(a)
BY DEF CreateInv, FiredInv, Accepted, AcceptedNow

LEMMA DeliveryKept ==
  ASSUME DeliveryInv, CreateInv', RowKeeps,
         \A d \in Claim :
           run'[d].order = run[d].order /\ (run'[d].sent = run[d].sent \/ run[d].pc = "send"),
         \A a \in Attempt : orderReq'[a] => orderReq[a] \/ AcceptedNow(a),
         task'.req # 0 => Accepted(task'.req) \/ AcceptedNow(task'.req),
         \A d \in Claim : run'[d].req # 0 => Accepted(run'[d].req) \/ AcceptedNow(run'[d].req),
         \A d \in Claim : Unmoved(d) \/ ResultNow(d),
         task'.status = "succeeded" => task.status = "succeeded" \/ AcceptedNow(task'.order),
         \A a \in Attempt : order'[a] = "settled" =>
           \/ order[a] = "settled" \/ a \in used'.resolved
           \/ task.status = "succeeded" /\ task.order = a,
         used.resolved \subseteq used'.resolved
  PROVE  DeliveryInv'
<1>1. \A a : Accepted(a) => AcceptedNow(a)
  BY AcceptedKept DEF DeliveryInv
<1>2. RequestInv'
  <2>1. \A a \in Attempt : orderReq'[a] => AcceptedNow(a)
    BY <1>1 DEF DeliveryInv, RequestInv
  <2>2. task'.req # 0 => AcceptedNow(task'.req)
    BY <1>1
  <2>3. \A d \in Claim : run'[d].req # 0 => AcceptedNow(run'[d].req)
    BY <1>1
  <2> QED BY <2>1, <2>2, <2>3 DEF RequestInv, Accepted, AcceptedNow
<1>3. task.status = "succeeded" => task'.status = "succeeded" /\ task'.order = task.order
  BY DEF RowKeeps, Terminal
<1>4. ResultInv'
  <2> SUFFICES ASSUME NEW d \in Claim
               PROVE  /\ run'[d].pc \in {"logOrder", "logTask"} => run'[d].sent = "accepted"
                      /\ run'[d].pc = "poll" => run'[d].req # 0 \/ run'[d].sent = "accepted"
                      /\ run'[d].pc = "refresh" /\ run'[d].outcome = "success"
                           => AcceptedNow(run'[d].order)
                      /\ run'[d].pc \in {"persist", "reread", "checkpoint", "complete"}
                           => AcceptedNow(run'[d].order)
                      /\ run'[d].pc = "settle"
                           => task'.status = "succeeded" /\ task'.order = run'[d].order
    BY DEF ResultInv, Accepted, AcceptedNow
  <2>1. CASE Unmoved(d)
    BY <1>1, <1>3, <2>1 DEF DeliveryInv, ResultInv, Unmoved
  <2>2. CASE ResultNow(d)
    BY <2>2 DEF ResultNow
  <2> QED BY <2>1, <2>2
<1>5. task'.status = "succeeded" => AcceptedNow(task'.order)
  BY <1>1, <1>3 DEF DeliveryInv, SuccessInv
<1>6. SettledIsDelivered'
  <2> SUFFICES ASSUME NEW a \in Attempt \ used'.resolved, order'[a] = "settled"
               PROVE  /\ task'.status = "succeeded" /\ task'.order = a
                      /\ \E c \in Claim : /\ run'[c].pc # "none" /\ run'[c].order = a
                                        /\ run'[c].sent = "accepted"
    BY DEF SettledIsDelivered, SentFor
  <2>1. task.status = "succeeded" /\ task.order = a
    BY DEF DeliveryInv, SuccessInv, SettledIsDelivered
  <2>2. PICK c \in Claim : run'[c].order = a /\ run'[c].sent = "accepted"
    BY <1>3, <1>5, <2>1 DEF AcceptedNow
  <2>3. run'[c].pc # "none"
    BY <2>2 DEF CreateInv, StartInv
  <2> QED BY <1>3, <2>1, <2>2, <2>3
<1>7. SuccessInv'
  BY <1>5, <1>6 DEF SuccessInv, Accepted, AcceptedNow
<1> QED BY <1>2, <1>4, <1>7 DEF DeliveryInv

\* A step of one goroutine that settles nothing but a succeeded attempt.
LEMMA StepDelivery ==
  ASSUME DeliveryInv, CreateInv', Framed, NEW c \in Claim, Alone(c),
         run'[c].order = run[c].order, run'[c].sent = run[c].sent \/ run[c].pc = "send",
         \A a \in Attempt : orderReq'[a] => orderReq[a] \/ AcceptedNow(a),
         task'.req \in {0, task.req, run[c].req} \/ AcceptedNow(task'.req),
         run'[c].req \in {0, task.req, run[c].req} \/ AcceptedNow(run'[c].req),
         ResultNow(c),
         task'.status = "succeeded" => task.status = "succeeded" \/ AcceptedNow(task'.order),
         \A a \in Attempt : order'[a] = "settled" =>
           order[a] = "settled" \/ (task.status = "succeeded" /\ task.order = a),
         used'.resolved = used.resolved
  PROVE  DeliveryInv'
<1>1. \A d \in Claim :
        run'[d].order = run[d].order /\ (run'[d].sent = run[d].sent \/ run[d].pc = "send")
  BY DEF Alone
<1>2. task'.req # 0 => Accepted(task'.req) \/ AcceptedNow(task'.req)
  BY DEF DeliveryInv, RequestInv
<1>3. \A d \in Claim : run'[d].req # 0 => Accepted(run'[d].req) \/ AcceptedNow(run'[d].req)
  BY DEF DeliveryInv, RequestInv, Alone
<1>4. \A d \in Claim : Unmoved(d) \/ ResultNow(d)
  BY DEF Alone, Unmoved
<1>5. RowKeeps
  BY DEF Framed
<1> QED BY <1>1, <1>2, <1>3, <1>4, <1>5, DeliveryKept

\* Nothing is settled, found out or delivered.
Plain == task'.req = task.req /\ (task'.status = "succeeded" => task.status = "succeeded")
LEMMA RowPlain ==
  ASSUME TypeOK, \/ task' \in {task, DeferredRow, CancelledRow}
                 \/ \E x : \/ task' = [DeferredRow EXCEPT !.age = x]
                          \/ task' = [task EXCEPT !.call = x]
                          \/ task' = [task EXCEPT !.ckpt = x]
                          \/ task' = [task EXCEPT !.lease = x]
                          \/ task' = [task EXCEPT !.due = x]
                          \/ task' = [task EXCEPT !.age = x]
  PROVE  Plain
BY Types DEF DeferredRow, CancelledRow, Row, Plain

LEMMA SavedReq ==
  ASSUME TypeOK, NEW c \in Claim, NEW status, task' = SavedRow(c, status)
  PROVE  task'.req = run[c].req /\ task'.status = status /\ task'.order = run[c].order
BY Types DEF SavedRow, Row

LEMMA UnsettledOrder ==
  ASSUME TypeOK, NEW a \in Attempt,
         \/ UNCHANGED order \/ \E b : MarkUncertain(b) \/ RefundFromExecution(b)
         \/ \E b : order' = [order EXCEPT ![b] = "running"],
         order'[a] = "settled"
  PROVE  order[a] = "settled"
BY Types DEF MarkUncertain, RefundFromExecution, OrderAfter

Unfinished == Pc \ {"logOrder", "logTask", "poll", "refresh", "persist", "reread", "checkpoint",
                    "complete", "settle"}

LEMMA PlainDelivery ==
  ASSUME DeliveryInv, CreateInv', Framed, NEW c \in Claim,
         Over(c) \/ \E pc \in Unfinished : Goes(c, pc),
         orderReq' = orderReq,
         task'.req \in {task.req, run[c].req},
         task'.status = "succeeded" => task.status = "succeeded",
         \A a \in Attempt : order'[a] = "settled" =>
           order[a] = "settled" \/ (task.status = "succeeded" /\ task.order = a),
         used'.resolved = used.resolved
  PROVE  DeliveryInv'
<1>1. /\ Alone(c) /\ run'[c].order = run[c].order /\ run'[c].sent = run[c].sent
      /\ run'[c].req \in {0, run[c].req}
  BY DEF Over, Goes, Same
<1>2. ResultNow(c)
  BY DEF Over, Goes, ResultNow, Unfinished
<1> QED BY <1>1, <1>2, StepDelivery

\* The steps that leave the ledger alone, or review or refund an order.
LEMMA EndingDelivery ==
  ASSUME DeliveryInv, CreateInv', Framed, NEW c \in Claim,
         \/ Decide(c) \/ Capacity(c) \/ CapacityFailed(c) \/ Defer(c) \/ Salvage(c)
         \/ JudgeFailure(c) \/ Conflict(c) \/ Billing(c) \/ Abandon(c) \/ Panic(c)
  PROVE  DeliveryInv'
<1>0. TypeOK
  BY DEF DeliveryInv, CreateInv, AttemptInv
<1>1. Plain
  BY <1>0, RowPlain
     DEF Decide, Capacity, CapacityRow, CapacityFailed, Defer, Salvage, JudgeFailure, Conflict,
         Billing, Abandon, Panic
<1>2. orderReq' = orderReq /\ used' = used
  BY DEF Decide, Capacity, CapacityFailed, Defer, Salvage, JudgeFailure, Conflict, Billing, Abandon,
         Panic, ledger, handlers
<1>3. UNCHANGED order \/ \E b : MarkUncertain(b) \/ RefundFromExecution(b)
  BY DEF Decide, Capacity, CapacityFailed, Defer, Salvage, JudgeFailure, Conflict, Billing, Abandon,
         Panic, ledger
<1>4. \A a \in Attempt : order'[a] = "settled" => order[a] = "settled"
  BY <1>0, <1>3, UnsettledOrder
<1>5. ASSUME Return(c) PROVE Over(c)
  BY <1>0, <1>5, ReturnMoves
<1>6. ASSUME NEW pc \in Unfinished,
             \/ Goto(c, pc) \/ \E end, plan : Conclude(c, pc, end, plan)
             \/ run' = [run EXCEPT ![c].pc = pc, ![c].ckpt = TRUE]
      PROVE  Goes(c, pc)
  BY <1>0, <1>6, GotoMoves, ConcludeMoves, CkptMoves
<1>7. {"capacity", "capacityFailed", "prepare", "judge", "save", "saveAlways", "billing", "panicked"}
        \subseteq Unfinished
  BY DEF Unfinished, Pc
<1>8. Over(c) \/ \E pc \in Unfinished : Goes(c, pc)
  <2>1. CASE Decide(c)
    BY <1>0, <1>7, <2>1, DecideMoves
  <2>2. CASE Panic(c)
    BY <1>0, <1>7, <2>2, PanicMoves
  <2>3. CASE Capacity(c) \/ CapacityFailed(c)
    BY <1>5, <1>6, <1>7, <2>3 DEF Capacity, CapacityFailed
  <2>4. CASE Defer(c) \/ Salvage(c) \/ Billing(c) \/ Abandon(c)
    BY <1>5, <1>6, <1>7, <2>4 DEF Defer, Salvage, Billing, Abandon
  <2>5. CASE JudgeFailure(c) \/ Conflict(c)
    BY <1>5, <1>6, <1>7, <2>5 DEF JudgeFailure, Conflict
  <2> QED BY <2>1, <2>2, <2>3, <2>4, <2>5
<1> QED BY <1>1, <1>2, <1>4, <1>8, PlainDelivery DEF Plain

LEMMA SavingDelivery ==
  ASSUME DeliveryInv, CreateInv', Framed, NEW c \in Claim, SaveTerminal(c) \/ SaveAlways(c)
  PROVE  DeliveryInv'
<1>0. TypeOK /\ run[c].end \in {"failed", "cancelled"}
  BY Types DEF DeliveryInv, CreateInv, AttemptInv
<1>1. /\ task'.req \in {task.req, run[c].req}
      /\ task'.status = "succeeded" => task.status = "succeeded"
  BY <1>0, SavedReq DEF SaveTerminal, SaveAlways
<1>2. UNCHANGED order /\ UNCHANGED orderReq /\ used' = used
  BY DEF SaveTerminal, SaveAlways, ledger, handlers
<1>3. {"billing", "conflict"} \subseteq Unfinished
  BY DEF Unfinished, Pc
<1>4. \E pc \in Unfinished : Goes(c, pc)
  BY <1>0, <1>3, GotoMoves, ConcludeMoves DEF SaveTerminal, SaveAlways
<1> QED BY <1>1, <1>2, <1>4, PlainDelivery

LEMMA PreparingDelivery ==
  ASSUME DeliveryInv, CreateInv', Framed, NEW c \in Claim,
         \/ PrepareClaimedTaskProviderCall(c) \/ PanicJudge(c)
  PROVE  DeliveryInv'
<1>0. TypeOK /\ UNCHANGED <<order, orderReq>> /\ used' = used
  BY DEF DeliveryInv, CreateInv, AttemptInv, PrepareClaimedTaskProviderCall, PanicJudge, ledger, handlers
<1>1. Plain
  BY <1>0, RowPlain DEF PrepareClaimedTaskProviderCall, PanicJudge
<1>2. ASSUME Over(c) PROVE DeliveryInv'
  BY <1>0, <1>1, <1>2, PlainDelivery DEF Plain
<1>3. ASSUME Alone(c), Same(c), run'[c].pc \in {"bill", "saveAlways"}, run'[c].req = run[c].req
      PROVE  DeliveryInv'
  <2>1. ResultNow(c)
    BY <1>3 DEF ResultNow
  <2>2. run'[c].order = run[c].order /\ run'[c].sent = run[c].sent
    BY <1>3 DEF Same
  <2> QED BY <1>0, <1>1, <1>3, <2>1, <2>2, StepDelivery DEF Plain
<1> QED BY <1>0, <1>2, <1>3, PrepareMoves, PanicJudgeMoves

\* The provider id of the order becomes that of the row.
LEMMA HydrateDelivery ==
  ASSUME DeliveryInv, CreateInv', Framed, NEW c \in Claim, Hydrate(c) PROVE DeliveryInv'
<1>0. TypeOK /\ UNCHANGED <<order, orderReq>> /\ used' = used /\ run[c].order \in Attempt
  BY Types DEF DeliveryInv, CreateInv, AttemptInv, Hydrate, ledger, handlers
<1>1. ASSUME Over(c) \/ Goes(c, "decide"), UNCHANGED task PROVE DeliveryInv'
  BY <1>0, <1>1, PlainDelivery DEF Unfinished, Pc
<1>2. ASSUME Alone(c), Same(c), run'[c].pc = "decide", run'[c].req = run[c].order,
             orderReq[run[c].order], task' = [task EXCEPT !.req = run[c].order]
      PROVE  DeliveryInv'
  <2>1. ResultNow(c)
    BY <1>2 DEF ResultNow
  <2>2. run'[c].order = run[c].order /\ run'[c].sent = run[c].sent
    BY <1>2 DEF Same
  <2>3. Accepted(run[c].order)
    BY <1>0, <1>2 DEF DeliveryInv, RequestInv
  <2>4. AcceptedNow(run[c].order)
    BY <1>2, <2>2, <2>3 DEF Accepted, AcceptedNow, Alone
  <2>5. task'.req = run[c].order /\ task'.status = task.status
    BY <1>0, <1>2, Types DEF Row
  <2> QED BY <1>0, <1>2, <2>1, <2>2, <2>4, <2>5, StepDelivery
<1> QED BY <1>0, <1>1, <1>2, HydrateMoves

\* The steps on the way from the order to the answer.
LEMMA AskingDelivery ==
  ASSUME DeliveryInv, CreateInv', Framed, NEW c \in Claim,
         MarkBillingRead(c) \/ MarkBillingRunning(c) \/ Dispatch(c)
  PROVE  DeliveryInv'
<1>0. TypeOK /\ orderReq' = orderReq /\ used'.resolved = used.resolved
  <2>1. TypeOK
    BY DEF DeliveryInv, CreateInv, AttemptInv
  <2> QED BY <2>1 DEF TypeOK, MarkBillingRead, MarkBillingRunning, Dispatch, ledger, handlers
<1>1. Plain
  BY <1>0, RowPlain DEF MarkBillingRead, MarkBillingRunning, Dispatch
<1>2. UNCHANGED order \/ \E b : order' = [order EXCEPT ![b] = "running"]
  BY DEF MarkBillingRead, MarkBillingRunning, Dispatch, ledger
<1>3. \A a \in Attempt : order'[a] = "settled" => order[a] = "settled"
  BY <1>0, <1>2, UnsettledOrder
<1>4. ASSUME NEW pc \in {"mark", "dispatch", "saveAlways", "send"}, Goes(c, pc) PROVE DeliveryInv'
  <2>1. pc \in Unfinished
    BY DEF Unfinished, Pc
  <2> QED BY <1>0, <1>1, <1>3, <1>4, <2>1, PlainDelivery DEF Plain
<1>5. ASSUME Goes(c, "poll"), run[c].req # 0 PROVE DeliveryInv'
  <2>1. ResultNow(c) /\ Alone(c) /\ Same(c) /\ run'[c].req = run[c].req
    BY <1>5 DEF ResultNow, Goes
  <2> QED BY <1>0, <1>1, <1>3, <2>1, StepDelivery DEF Plain, Same
<1>6. ASSUME Goes(c, "refresh"), run'[c].outcome = "notSent" PROVE DeliveryInv'
  <2>1. ResultNow(c) /\ Alone(c) /\ Same(c) /\ run'[c].req = run[c].req
    BY <1>6 DEF ResultNow, Goes
  <2> QED BY <1>0, <1>1, <1>3, <2>1, StepDelivery DEF Plain, Same
<1>7. CASE Dispatch(c)
  BY <1>0, <1>4, <1>6, <1>7, GotoMoves, AnswerMoves DEF Dispatch
<1>8. ASSUME Goto(c, ProviderPc(c)) \/ Goto(c, "mark") \/ BillingFailed(c) PROVE DeliveryInv'
  <2>1. CASE Goto(c, ProviderPc(c))
    BY <1>0, <1>4, <1>5, <2>1, GotoMoves DEF ProviderPc
  <2>2. CASE Goto(c, "mark")
    BY <1>0, <1>4, <2>2, GotoMoves
  <2>3. CASE BillingFailed(c)
    BY <1>0, <1>4, <2>3, ConcludeMoves DEF BillingFailed
  <2> QED BY <1>8, <2>1, <2>2, <2>3
<1> QED BY <1>7, <1>8 DEF MarkBillingRead, MarkBillingRunning

LEMMA SendDelivery ==
  ASSUME DeliveryInv, CreateInv', Framed, NEW c \in Claim, Send(c) PROVE DeliveryInv'
<1>0. /\ TypeOK /\ UNCHANGED <<task, order, orderReq>> /\ used' = used /\ run[c].pc = "send"
  BY DEF DeliveryInv, CreateInv, AttemptInv, Send, At, ledger, handlers
<1>1. /\ Alone(c) /\ run'[c].order = run[c].order /\ run'[c].req = run[c].req
      /\ \/ run'[c].pc \in {"logOrder", "logTask"} /\ run'[c].sent = "accepted"
         \/ run'[c].pc = "refresh" /\ run'[c].outcome # "success"
  BY <1>0, SendMoves
<1>2. ResultNow(c)
  BY <1>1 DEF ResultNow
<1> QED BY <1>0, <1>1, <1>2, StepDelivery

LEMMA LogDelivery ==
  ASSUME DeliveryInv, CreateInv', Framed, NEW c \in Claim, LogOrder(c) \/ LogTask(c)
  PROVE  DeliveryInv'
<1>0. /\ TypeOK /\ used' = used /\ run[c].sent = "accepted"
  BY DEF DeliveryInv, CreateInv, AttemptInv, ResultInv, LogOrder, LogTask, At, handlers
<1>1. UNCHANGED order \/ \E b : MarkUncertain(b)
  BY DEF LogOrder, LogTask
<1>2. \A a \in Attempt : order'[a] = "settled" => order[a] = "settled"
  BY <1>0, <1>1, UnsettledOrder
<1>3. \E pc \in {"logTask", "poll", "refresh"} : Goes(c, pc)
  BY <1>0, GotoMoves, AnswerMoves DEF LogOrder, LogTask
<1>4. /\ Alone(c) /\ run'[c].order = run[c].order /\ run'[c].sent = run[c].sent
      /\ run'[c].req = run[c].req
  BY <1>3 DEF Goes, Same
<1>5. AcceptedNow(run[c].order)
  BY <1>0, <1>4 DEF AcceptedNow
<1>6. ResultNow(c)
  BY <1>0, <1>3, <1>4, <1>5 DEF ResultNow, Goes
<1>7. /\ task'.req \in {task.req, run[c].order} /\ task'.status = task.status
  BY <1>0, Types DEF LogOrder, LogTask, Row
<1>8. \A a \in Attempt : orderReq'[a] => orderReq[a] \/ AcceptedNow(a)
  BY <1>0, <1>5, Types DEF LogOrder, LogTask
<1> QED BY <1>0, <1>2, <1>4, <1>5, <1>6, <1>7, <1>8, StepDelivery

\* Who polls holds the row, and asks for the request of the row's own attempt.
LEMMA PollDelivery ==
  ASSUME DeliveryInv, CreateInv', Framed, NEW c \in Claim, Poll(c) PROVE DeliveryInv'
<1>0. /\ TypeOK /\ UNCHANGED <<order, orderReq>> /\ used' = used /\ Live(c) /\ run[c].pc = "poll"
  BY DEF DeliveryInv, CreateInv, AttemptInv, Poll, At, Live, ledger, handlers
<1>1. Plain
  BY <1>0, RowPlain DEF Poll
<1>2. PICK x : Answer(c, "refresh", x) /\ (x = "success" => Held(c))
  BY DEF Poll, MayDispatch, HeldFresh
<1>3. /\ Alone(c) /\ run'[c].pc = "refresh" /\ run'[c].outcome = x /\ run'[c].order = run[c].order
      /\ run'[c].sent = run[c].sent /\ run'[c].req = run[c].req
  BY <1>0, <1>2, AnswerMoves DEF Goes, Same
<1>4. x = "success" => Accepted(run[c].order)
  <2> SUFFICES ASSUME Held(c) PROVE Accepted(run[c].order)
    BY <1>2
  <2>1. run[c].req \in {0, run[c].order}
    BY <1>0 DEF DeliveryInv, CreateInv, AttemptInv, HolderIsCurrent
  <2> QED BY <1>0, <2>1 DEF DeliveryInv, ResultInv, RequestInv, Accepted
<1>5. ResultNow(c)
  BY <1>3, <1>4 DEF ResultNow, Accepted, AcceptedNow, Alone
<1> QED BY <1>0, <1>1, <1>3, <1>5, StepDelivery DEF Plain

\* From a successful answer to the saved result.
LEMMA RefreshDelivery ==
  ASSUME DeliveryInv, CreateInv', Framed, NEW c \in Claim, Refresh(c) PROVE DeliveryInv'
<1>0. /\ TypeOK /\ UNCHANGED <<task, order, orderReq>> /\ used' = used /\ run[c].pc = "refresh"
  BY DEF DeliveryInv, CreateInv, AttemptInv, Refresh, At, ledger, handlers
<1>1. /\ Alone(c) /\ Same(c) /\ run'[c].req \in {task.req, run[c].req}
      /\ run'[c].pc \in {"defer", "persist", "judge"}
      /\ run'[c].pc = "persist" => run[c].outcome = "success"
  BY <1>0, RefreshMoves
<1>2. run'[c].pc = "persist" => Accepted(run[c].order)
  BY <1>0, <1>1 DEF DeliveryInv, ResultInv
<1>3. ResultNow(c)
  BY <1>1, <1>2 DEF ResultNow, Accepted, AcceptedNow, Alone, Same
<1> QED BY <1>0, <1>1, <1>3, StepDelivery DEF Same

LEMMA ResultDelivery ==
  ASSUME DeliveryInv, CreateInv', Framed, NEW c \in Claim,
         Persist(c) \/ Reread(c) \/ Checkpoint(c) \/ Complete(c)
  PROVE  DeliveryInv'
<1>0. /\ TypeOK /\ UNCHANGED <<order, orderReq>> /\ used' = used
      /\ run[c].pc \in {"persist", "reread", "checkpoint", "complete"}
  BY DEF DeliveryInv, CreateInv, AttemptInv, Persist, Reread, Checkpoint, Complete, At, ledger, handlers
<1>1. Accepted(run[c].order)
  BY <1>0 DEF DeliveryInv, ResultInv
<1>2. ASSUME NEW pc \in {"saveAlways", "billing", "salvage"}, Goes(c, pc), Plain PROVE DeliveryInv'
  <2>1. pc \in Unfinished
    BY DEF Unfinished, Pc
  <2> QED BY <1>0, <1>2, <2>1, PlainDelivery DEF Plain
<1>3. ASSUME NEW pc, Goes(c, pc)
      PROVE  /\ Alone(c) /\ run'[c].pc = pc /\ run'[c].order = run[c].order
             /\ run'[c].sent = run[c].sent /\ run'[c].req = run[c].req /\ AcceptedNow(run[c].order)
  BY <1>1, <1>3 DEF Goes, Same, Accepted, AcceptedNow, Alone
<1>4. ASSUME NEW pc \in {"reread", "checkpoint", "complete"}, Goes(c, pc), Plain PROVE DeliveryInv'
  <2>1. ResultNow(c)
    BY <1>3, <1>4 DEF ResultNow
  <2> QED BY <1>0, <1>3, <1>4, <2>1, StepDelivery DEF Plain
<1>5. ASSUME task' = SavedRow(c, "succeeded"), Goes(c, "settle") PROVE DeliveryInv'
  <2>1. task'.req = run[c].req /\ task'.status = "succeeded" /\ task'.order = run[c].order
    BY <1>0, <1>5, SavedReq
  <2>2. ResultNow(c)
    BY <1>3, <1>5, <2>1 DEF ResultNow
  <2> QED BY <1>0, <1>3, <1>5, <2>1, <2>2, StepDelivery
<1>6. CASE Persist(c) \/ Reread(c)
  <2>1. Plain
    BY <1>0, <1>6, RowPlain DEF Persist, Reread
  <2> QED BY <1>0, <1>2, <1>4, <1>6, <2>1, GotoMoves, AnswerMoves, ConcludeMoves DEF Persist, Reread
<1>7. CASE Checkpoint(c)
  <2>1. Plain
    BY <1>0, <1>7, RowPlain DEF Checkpoint
  <2> QED BY <1>0, <1>2, <1>4, <1>7, <2>1, CkptMoves, ConcludeMoves
          DEF Checkpoint, ResultConflict, ResultNotSaved
<1>8. CASE Complete(c)
  <2>1. task' = task => Plain
    BY <1>0, RowPlain
  <2> QED BY <1>0, <1>2, <1>5, <1>8, <2>1, GotoMoves, ConcludeMoves
          DEF Complete, ResultConflict, ResultNotSaved
<1> QED BY <1>6, <1>7, <1>8

\* The order of a succeeded row is the one that settles.
LEMMA SettleDelivery ==
  ASSUME DeliveryInv, CreateInv', Framed, NEW c \in Claim, Settle(c) PROVE DeliveryInv'
<1>0. /\ TypeOK /\ UNCHANGED <<task, orderReq>> /\ used' = used /\ run[c].pc = "settle"
  BY DEF DeliveryInv, CreateInv, AttemptInv, Settle, At, handlers
<1>1. Over(c)
  BY <1>0, ReturnMoves DEF Settle
<1>2. task.status = "succeeded" /\ task.order = run[c].order
  BY <1>0 DEF DeliveryInv, ResultInv
<1>3. \A a \in Attempt : order'[a] = "settled" => order[a] = "settled" \/ a = run[c].order
  BY <1>0, Types DEF Settle, SettleFromExecution, MarkUncertain, OrderAfter
<1> QED BY <1>0, <1>1, <1>2, <1>3, PlainDelivery

LEMMA StepsDelivery ==
  ASSUME DeliveryInv, CreateInv', Framed, NEW c \in Claim, Step(c) \/ Abandon(c) \/ Panic(c)
  PROVE  DeliveryInv'
BY EndingDelivery, SavingDelivery, PreparingDelivery, HydrateDelivery, AskingDelivery, SendDelivery,
   LogDelivery, PollDelivery, RefreshDelivery, ResultDelivery, SettleDelivery
   DEF Step

LEMMA QuietDelivery ==
  ASSUME DeliveryInv, CreateInv', Framed,
         \/ \E c \in Claim : RenewTaskLease(c)
         \/ \E p \in Proc : Crash(p) \/ CancelRead(p) \/ RetryCheck(p)
         \/ \E a \in Attempt : ResolveBillingOrder(a)
         \/ LeaseExpires \/ Timeout \/ PollDue \/ CancelStep
  PROVE  DeliveryInv'
<1>0. TypeOK /\ RowKeeps
  BY DEF DeliveryInv, CreateInv, AttemptInv, Framed
<1>1. Plain
  BY <1>0, RowPlain
     DEF RenewTaskLease, Crash, CancelRead, RetryCheck, ResolveBillingOrder, LeaseExpires, Timeout,
         PollDue, CancelStep, CancelQueued, CancelSoft, CancelHard, CancelReread, CancelFails,
         CancelRefund, CancelReview
<1>2. orderReq' = orderReq
  BY DEF RenewTaskLease, Crash, CancelRead, RetryCheck, ResolveBillingOrder, LeaseExpires, Timeout,
         PollDue, CancelStep, CancelQueued, CancelSoft, CancelHard, CancelReread, CancelFails,
         CancelRefund, CancelReview, ledger
<1>3. used.resolved \subseteq used'.resolved
  <2>1. used \in [cancels: 0..MaxCancel, crashes: 0..MaxCrash, resolved: SUBSET Attempt,
               clashed: SUBSET Attempt]
    BY <1>0 DEF TypeOK
  <2> QED BY <2>1
          DEF RenewTaskLease, Crash, CancelRead, RetryCheck, ResolveBillingOrder, LeaseExpires, Timeout,
              PollDue, CancelStep, CancelQueued, CancelSoft, CancelHard, CancelReread, CancelFails,
              CancelRefund, CancelReview, handlers
<1>4. \A a \in Attempt : order'[a] = "settled" => order[a] = "settled" \/ a \in used'.resolved
  <2>1. CASE \E a \in Attempt : ResolveBillingOrder(a)
    <3>1. used.resolved \in SUBSET Attempt
      BY <1>0 DEF TypeOK
    <3>2. PICK b \in Attempt : ResolveBillingOrder(b)
      BY <2>1
    <3>3. b \in used'.resolved
      BY <1>0, <3>2 DEF ResolveBillingOrder, TypeOK
    <3> QED BY <1>0, <3>2, <3>3, Types DEF ResolveBillingOrder
  <2>2. CASE ~\E a \in Attempt : ResolveBillingOrder(a)
    <3>1. UNCHANGED order \/ \E b : MarkUncertain(b) \/ RefundFromExecution(b)
      BY <2>2
         DEF RenewTaskLease, Crash, CancelRead, RetryCheck, LeaseExpires, Timeout,
             PollDue, CancelStep, CancelQueued, CancelSoft, CancelHard, CancelReread, CancelFails,
             CancelRefund, CancelReview, ledger
    <3> QED BY <1>0, <3>1, UnsettledOrder
  <2> QED BY <2>1, <2>2
<1>5. \A d \in Claim :
        /\ run'[d].order = run[d].order /\ run'[d].sent = run[d].sent
        /\ Unmoved(d) \/ (run'[d].pc = "done" /\ run'[d].req = 0)
  <2>1. ASSUME UNCHANGED run, NEW d \in Claim PROVE Unmoved(d) /\ run'[d] = run[d]
    BY <2>1 DEF Unmoved
  <2>2. ASSUME NEW p \in Proc, Crash(p), NEW d \in Claim
        PROVE  /\ run'[d].order = run[d].order /\ run'[d].sent = run[d].sent
               /\ Unmoved(d) \/ (run'[d].pc = "done" /\ run'[d].req = 0)
    BY <1>0, <2>2, CrashMoves, FinishedMoves DEF Unmoved
  <2>3. ASSUME CancelSoft, NEW d \in Claim
        PROVE  Unmoved(d) /\ run'[d].order = run[d].order /\ run'[d].sent = run[d].sent
    BY <1>0, <2>3, SignalMoves DEF Unmoved
  <2>4. (\E p \in Proc : Crash(p)) \/ CancelSoft \/ UNCHANGED run
    BY DEF RenewTaskLease, CancelRead, RetryCheck, ResolveBillingOrder, LeaseExpires, Timeout,
           PollDue, CancelStep, CancelQueued, CancelHard, CancelReread, CancelFails,
           CancelRefund, CancelReview
  <2> QED BY <2>1, <2>2, <2>3, <2>4
<1>6. \A d \in Claim :
        /\ Unmoved(d) \/ ResultNow(d)
        /\ run'[d].req # 0 => Accepted(run'[d].req)
  BY <1>5 DEF Unmoved, ResultNow, DeliveryInv, RequestInv
<1>7. task'.req # 0 => Accepted(task'.req)
  BY <1>1 DEF Plain, DeliveryInv, RequestInv
<1> QED BY <1>0, <1>1, <1>2, <1>3, <1>4, <1>5, <1>6, <1>7, DeliveryKept DEF Plain

LEMMA ClaimDelivery ==
  ASSUME DeliveryInv, CreateInv', NEW p \in Proc, ClaimNextTask(p) PROVE DeliveryInv'
<1>0. TypeOK /\ UNCHANGED <<order, orderReq, used>>
  BY DEF DeliveryInv, CreateInv, AttemptInv, ClaimNextTask, ledger, handlers
<1>1. PICK e \in Claim :
        /\ e = claims + 1 /\ Alone(e) /\ run'[e].pc = "claimed" /\ run'[e].req = task.req
        /\ task'.req = task.req /\ task'.status = "running"
  BY <1>0, ClaimMoves
<1>2. run[e].sent = "no"
  <2>1. e > claims
    BY <1>0, <1>1, BoundAssumption DEF TypeOK
  <2> QED BY <2>1 DEF DeliveryInv, CreateInv, StartInv
<1>3. \A a : Accepted(a) => AcceptedNow(a)
  BY <1>1, <1>2 DEF Accepted, AcceptedNow, Alone
<1>4. task.status # "succeeded"
  BY DEF ClaimNextTask, Claimable
<1>5. RequestInv'
  <2>1. \A a \in Attempt : orderReq'[a] => AcceptedNow(a)
    BY <1>0, <1>3 DEF DeliveryInv, RequestInv
  <2>2. task'.req # 0 => AcceptedNow(task'.req)
    BY <1>1, <1>3 DEF DeliveryInv, RequestInv
  <2>3. \A d \in Claim : run'[d].req # 0 => AcceptedNow(run'[d].req)
    BY <1>1, <1>3 DEF DeliveryInv, RequestInv, Alone
  <2> QED BY <2>1, <2>2, <2>3 DEF RequestInv, Accepted, AcceptedNow
<1>6. ResultInv'
  <2> SUFFICES ASSUME NEW d \in Claim
               PROVE  /\ run'[d].pc \in {"logOrder", "logTask"} => run'[d].sent = "accepted"
                      /\ run'[d].pc = "poll" => run'[d].req # 0 \/ run'[d].sent = "accepted"
                      /\ run'[d].pc = "refresh" /\ run'[d].outcome = "success"
                           => AcceptedNow(run'[d].order)
                      /\ run'[d].pc \in {"persist", "reread", "checkpoint", "complete"}
                           => AcceptedNow(run'[d].order)
                      /\ run'[d].pc = "settle"
                           => task'.status = "succeeded" /\ task'.order = run'[d].order
    BY DEF ResultInv, Accepted, AcceptedNow
  <2>1. CASE d = e
    BY <1>1, <2>1
  <2>2. CASE d # e
    <3>1. run'[d] = run[d]
      BY <1>1, <2>2 DEF Alone
    <3> QED BY <1>3, <1>4, <3>1 DEF DeliveryInv, ResultInv
  <2> QED BY <2>1, <2>2
<1>7. SuccessInv'
  BY <1>0, <1>1, <1>4 DEF DeliveryInv, SuccessInv, SettledIsDelivered
<1> QED BY <1>5, <1>6, <1>7 DEF DeliveryInv

LEMMA RetryDelivery ==
  ASSUME DeliveryInv, CreateInv', RetryTx PROVE DeliveryInv'
<1>0. TypeOK /\ UNCHANGED <<run, orderReq, used>> /\ used'.resolved = used.resolved
  BY DEF DeliveryInv, CreateInv, AttemptInv, RetryTx
<1>1. CASE UNCHANGED <<task, order>>
  BY <1>0, <1>1
     DEF DeliveryInv, RequestInv, ResultInv, SuccessInv, SettledIsDelivered, SentFor, Accepted
<1>2. CASE ~UNCHANGED <<task, order>>
  <2>1. PICK a \in Attempt :
          /\ task.status # "succeeded" /\ order' = [order EXCEPT ![a] = "reserved"]
          /\ task'.status = "queued" /\ task'.req = 0
    BY <1>2 DEF RetryTx
  <2>2. RequestInv'
    BY <1>0, <2>1 DEF DeliveryInv, RequestInv, Accepted
  <2>3. ResultInv'
    BY <1>0, <2>1 DEF DeliveryInv, ResultInv, Accepted
  <2>4. \A b \in Attempt : order'[b] = "settled" => order[b] = "settled"
    BY <1>0, <2>1, Types
  <2>5. SuccessInv'
    BY <1>0, <2>1, <2>4 DEF DeliveryInv, SuccessInv, SettledIsDelivered
  <2> QED BY <2>2, <2>3, <2>5 DEF DeliveryInv
<1> QED BY <1>1, <1>2

LEMMA InitDelivery == Init => DeliveryInv
<1> SUFFICES ASSUME Init PROVE DeliveryInv
  OBVIOUS
<1>1. \A c \in Claim : run[c].pc = "none" /\ run[c].req = 0
  BY DEF Init, NoRun
<1>2. task.status = "queued" /\ task.req = 0 /\ \A a \in Attempt : ~orderReq[a] /\ order[a] # "settled"
  BY DEF Init
<1> QED BY <1>1, <1>2, InitCreate
        DEF DeliveryInv, RequestInv, ResultInv, SuccessInv, SettledIsDelivered

LEMMA NextDelivery ==
  ASSUME DeliveryInv, "sameOwner" \notin Faults, [Next]_vars PROVE DeliveryInv'
<1>0. CreateInv' /\ AttemptInv
  BY NextCreate DEF DeliveryInv, CreateInv
<1>1. CASE UNCHANGED vars
  BY <1>0, <1>1
     DEF DeliveryInv, RequestInv, ResultInv, SuccessInv, SettledIsDelivered, SentFor, Accepted, vars
<1>2. CASE \E p \in Proc : ClaimNextTask(p)
  BY <1>0, <1>2, ClaimDelivery
<1>3. CASE RetryTx
  BY <1>0, <1>3, RetryDelivery
<1>4. CASE Next /\ ~RetryTx /\ ~\E p \in Proc : ClaimNextTask(p)
  <2>1. Framed
    BY <1>0, <1>4, NextFramed
  <2>2. CASE \E c \in Claim : Step(c) \/ Abandon(c) \/ Panic(c)
    BY <1>0, <2>1, <2>2, StepsDelivery
  <2>3. CASE ~\E c \in Claim : Step(c) \/ Abandon(c) \/ Panic(c)
    BY <1>0, <1>4, <2>1, <2>3, QuietDelivery DEF Next
  <2> QED BY <2>2, <2>3
<1> QED BY <1>1, <1>2, <1>3, <1>4

\* An order settles by itself only when the task has succeeded with a result of
\* that order's own request: no late or repeated answer of another attempt, no
\* lost lease and no panic makes the user pay for a result that is not there.
THEOREM SettledCorrect ==
  ASSUME "sameOwner" \notin Faults PROVE Spec => []SettledIsDelivered
<1>1. DeliveryInv => SettledIsDelivered
  BY DEF DeliveryInv, SuccessInv
<1> QED BY <1>1, InitDelivery, NextDelivery, PTL DEF Spec
====
