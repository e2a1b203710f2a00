-------------------------- MODULE TaskRefundProofs --------------------------
(***************************************************************************)
(* Refunds: an order is refunded by itself only if no request of its       *)
(* attempt was accepted or is known to be ambiguous, however the processes *)
(* crash and the user cancels and retries.  The first part is about every  *)
(* kind of task, while leases do not lapse, nothing panics and no process  *)
(* dies inside LogAPICall, and lets local statements fail; the second is   *)
(* about leases that lapse under live Workers of a task without provider   *)
(* polls.                                                                  *)
(***************************************************************************)
EXTENDS TaskBillingProofs

\* The billing order of the attempt accepts no further automatic decision.
Closed(a) == order[a] \in {"uncertain", "settled", "refunded"}
\* No request of the attempt is under way, accepted or known to be ambiguous.
Free(a) ==
  \A d \in Claim : run[d].order = a => run[d].pc # "send" /\ run[d].sent \in {"no", "refused", "broken"}

\* An attempt has one live goroutine, and as long as the row runs it has the
\* lease.
LeaseInv ==
  /\ \A c, d \in Claim : Live(c) /\ Live(d) /\ run[c].order = run[d].order => c = d
  /\ \A c \in Claim : Live(c) /\ run[c].order = task.order =>
       /\ task.status # "queued"
       /\ task.status = "running" => Held(c) /\ task.lease

\* Cancellations and retries do not overlap, and a cancellation refunds an
\* attempt of which nothing was sent.
HandlerInv ==
  /\ retry # NoProc => cancel.pc = "idle" /\ task.status \in {"failed", "cancelled"}
  /\ cancel.pc # "idle" => cancel.order = task.order
  /\ cancel.pc \in {"cancelled", "refund"} => task.status = "cancelled"
  /\ cancel.pc = "refund" => task.call \in NotStarted

\* A provider task id in the ledger is one that the request log knows, or its
\* order is closed, or its goroutine is just about to write the log.
LoggedInv ==
  /\ \A a \in Attempt : orderReq[a] =>
       billable \/ Closed(a) \/ \E d \in Claim : run[d].pc = "logTask" /\ run[d].order = a
  /\ task.req # 0 => orderReq[task.req]

\* What a goroutine has in memory when it comes to plan the end of its attempt.
Early == {"claimed", "decide", "capacity", "capacityFailed", "prepare", "bill", "mark"}
PlanInv ==
  \A c \in Claim :
    /\ run[c].pc # "panicked"
    /\ run[c].req # 0 => orderReq[run[c].req]
    /\ Pollable /\ run[c].pc = "logTask" => orderReq[run[c].order]
    /\ run[c].pc = "poll" => run[c].req = run[c].order \/ (run[c].sent = "accepted" /\ billable)
    /\ run[c].pc \in Early => run[c].req \in {0, run[c].order}
    /\ run[c].pc \in Early /\ run[c].call \in NotStarted => Unsent(run[c].order)
    /\ run[c].pc \in {"claimed", "decide"} /\ ~run[c].recovered => Unsent(run[c].order)
    /\ run[c].pc \in {"capacity", "prepare", "bill", "mark"} =>
         (Pollable /\ run[c].req # 0) \/ Unsent(run[c].order)
    /\ run[c].pc = "mark" => order[run[c].order] # "running"
    /\ run[c].pc = "dispatch" => Unsent(run[c].order)
    /\ run[c].pc = "salvage" => run[c].outcome = "local"
    /\ \/ run[c].pc = "refresh" /\ run[c].outcome \notin {"ambiguous", "local", "success", "pending"}
       \/ run[c].pc = "judge" /\ run[c].outcome \notin {"ambiguous", "local"}
       => Free(run[c].order) \/ billable \/ Closed(run[c].order)
    /\ run[c].pc \in {"save", "saveAlways", "conflict", "billing"} /\ run[c].plan = "refund" =>
         Free(run[c].order) \/ Closed(run[c].order)

\* A refunded attempt is free, and nobody is about to send for it.
RefundInv ==
  /\ \A a \in Attempt \ used.resolved : order[a] = "refunded" => Free(a)
  /\ \A c \in Claim : run[c].pc = "dispatch" /\ Held(c) /\ run[c].order \notin used.resolved =>
       order[run[c].order] # "refunded"

\* As long as leases do not lapse no Worker finds its order running where it
\* has just read another status.
ClashInv == used.clashed = {}

MoneyInv ==
  DeliveryInv /\ LeaseInv /\ HandlerInv /\ LoggedInv /\ PlanInv /\ RefundInv /\ ClashInv

(***************************************************************************)
(* The lease and the handlers.                                             *)
(***************************************************************************)

LEMMA RowLease ==
  ASSUME CreateInv, "lapse" \notin Faults, Next, ~RetryTx, ~\E p \in Proc : ClaimNextTask(p),
         task'.status = "running", NEW d \in Claim, Live(d)', Live(d), Held(d), task.lease
  PROVE  task'.owner = task.owner /\ task'.lease
<1>0. TypeOK /\ task \in Row /\ AttemptInv
  BY Types DEF CreateInv, AttemptInv
<1>1. ASSUME NEW x, \/ task' = task
                    \/ task' = [task EXCEPT !.call = x]
                    \/ task' = [task EXCEPT !.lease = TRUE]
                    \/ task' = [task EXCEPT !.due = x]
                    \/ task' = [task EXCEPT !.age = x]
                    \/ task' = [task EXCEPT !.ckpt = x]
                    \/ task' = [task EXCEPT !.req = x]
                    \/ task' = [task EXCEPT !.req = x, !.due = FALSE]
      PROVE  task'.owner = task.owner /\ task'.lease
  BY <1>0, <1>1 DEF Row
<1>2. task' # CancelledRow /\ \A c \in Claim : task' # SavedRow(c, "failed") /\ task' # SavedRow(c, "succeeded")
        /\ task' # SavedRow(c, run[c].end)
  <2>1. CancelledRow.status = "cancelled"
    BY <1>0 DEF CancelledRow, Row
  <2>2. ASSUME NEW c \in Claim, NEW status, task' = SavedRow(c, status) PROVE status = "running"
    BY <1>0, <2>2, SavedReq
  <2>3. \A c \in Claim : run[c].end # "running"
    BY <1>0, Types
  <2> QED BY <2>1, <2>2, <2>3
<1>3. ASSUME NEW c \in Claim, Live(c), Held(c), Return(c) PROVE FALSE
  <2>1. c = d
    BY <1>0, <1>3, HolderAlone
  <2> QED BY <1>0, <1>3, <2>1, ReturnMoves DEF Over, Live
<1>4. ASSUME NEW c \in Claim, Capacity(c) \/ CapacityFailed(c) \/ Defer(c)
      PROVE  task'.owner = task.owner /\ task'.lease
  <2>1. Live(c)
    BY <1>4 DEF Capacity, CapacityFailed, Defer, At, Live
  <2> QED BY <1>1, <1>3, <1>4, <2>1 DEF Capacity, CapacityFailed, Defer
<1>5. ASSUME NEW c \in Claim,
             \/ Hydrate(c) \/ Decide(c) \/ PrepareClaimedTaskProviderCall(c) \/ MarkBillingRead(c)
             \/ MarkBillingRunning(c) \/ Dispatch(c) \/ Send(c) \/ LogOrder(c) \/ LogTask(c)
             \/ Poll(c) \/ Refresh(c)
             \/ Persist(c) \/ Salvage(c) \/ Reread(c) \/ Checkpoint(c) \/ Settle(c)
      PROVE  task'.owner = task.owner /\ task'.lease
  BY <1>1, <1>5
     DEF Hydrate, Decide, PrepareClaimedTaskProviderCall, MarkBillingRead,
         MarkBillingRunning, Dispatch, Send, LogOrder,
         LogTask, Poll, Refresh, Persist, Salvage, Reread, Checkpoint, Settle
<1>6. ASSUME NEW c \in Claim,
             \/ JudgeFailure(c) \/ Conflict(c) \/ Billing(c) \/ PanicJudge(c) \/ Abandon(c)
             \/ Panic(c) \/ RenewTaskLease(c) \/ Complete(c) \/ SaveTerminal(c) \/ SaveAlways(c)
      PROVE  task'.owner = task.owner /\ task'.lease
  BY <1>1, <1>2, <1>6
     DEF JudgeFailure, Conflict, Billing, PanicJudge, Abandon, Panic, RenewTaskLease, Complete,
         SaveTerminal, SaveAlways
<1>7. ASSUME \/ \E p \in Proc : Crash(p) \/ CancelRead(p) \/ RetryCheck(p)
             \/ \E a \in Attempt : ResolveBillingOrder(a)
             \/ LeaseExpires \/ Timeout \/ PollDue \/ CancelStep
      PROVE  task'.owner = task.owner /\ task'.lease
  BY <1>1, <1>2, <1>7
     DEF Crash, CancelRead, RetryCheck, ResolveBillingOrder, LeaseExpires, Timeout, PollDue,
         CancelStep, CancelQueued, CancelSoft, CancelHard, CancelReread, CancelFails,
         CancelRefund, CancelReview
<1> QED BY <1>4, <1>5, <1>6, <1>7 DEF Next, Step

LEMMA NextLease ==
  ASSUME CreateInv, CreateInv', LeaseInv, Faults \subseteq {"local"}, [Next]_vars PROVE LeaseInv'
<1>0. TypeOK /\ AttemptInv /\ "sameOwner" \notin Faults /\ "lapse" \notin Faults
  BY DEF CreateInv, AttemptInv
<1>1. CASE UNCHANGED vars
  BY <1>1 DEF LeaseInv, Live, Held, vars
<1>2. CASE \E p \in Proc : ClaimNextTask(p)
  <2>1. PICK p \in Proc : ClaimNextTask(p)
    BY <1>2
  <2>2. PICK e \in Claim :
          /\ Alone(e) /\ run'[e].proc = p /\ run'[e].order = task.order
          /\ task'.order = task.order /\ task'.status = "running" /\ task'.owner = p /\ task'.lease
    BY <1>0, <2>1, ClaimMoves
  <2>3. \A d \in Claim : Live(d) => run[d].order # task.order
    BY <2>1 DEF LeaseInv, ClaimNextTask, Claimable
  <2>4. \A d \in Claim \ {e} : Live(d)' => Live(d) /\ run'[d].order = run[d].order
    BY <2>2 DEF Alone, Live
  <2> QED BY <2>2, <2>3, <2>4 DEF LeaseInv, Held
<1>3. CASE RetryTx
  <2>1. UNCHANGED run
    BY <1>3 DEF RetryTx
  <2>2. CASE UNCHANGED task
    BY <2>1, <2>2 DEF LeaseInv, Live, Held
  <2>3. ASSUME NEW a \in Attempt, order[a] = "none", task'.order = a PROVE LeaseInv'
    <3>1. \A d \in Claim : Live(d) => run[d].order # a
      BY <2>3 DEF CreateInv, StartInv, Live
    <3> QED BY <2>1, <2>3, <3>1 DEF LeaseInv, Live
  <2> QED BY <1>3, <2>2, <2>3 DEF RetryTx, NextAttempt
<1>4. CASE Next /\ ~RetryTx /\ ~\E p \in Proc : ClaimNextTask(p)
  <2>1. Framed
    BY <1>0, <1>4, NextFramed
  <2>2. \A d \in Claim : Live(d)' => Live(d) /\ run'[d].proc = run[d].proc /\ run'[d].order = run[d].order
    BY <2>1 DEF Framed, GoroutinesKeep
  <2>3. /\ task'.order = task.order /\ (task'.status = "running" => task.status = "running")
        /\ task'.status = "queued" => task.status = "queued"
    BY <2>1 DEF Framed, RowKeeps
  <2>4. ASSUME NEW d \in Claim, Live(d)', run'[d].order = task'.order, task'.status = "running"
        PROVE  Held(d)' /\ task'.lease
    <3>1. Live(d) /\ Held(d) /\ task.lease
      BY <2>2, <2>3, <2>4 DEF LeaseInv
    <3>2. task'.owner = task.owner /\ task'.lease
      BY <1>0, <1>4, <2>4, <3>1, RowLease
    <3> QED BY <2>2, <2>4, <3>1, <3>2 DEF Held
  <2> QED BY <2>2, <2>3, <2>4 DEF LeaseInv
<1> QED BY <1>1, <1>2, <1>3, <1>4

\* The goroutine that takes the running order of its attempt for a failure of
\* its own.
Clashes(c) ==
  /\ At(c, "mark") /\ order[run[c].order] = "running"
  /\ used' = [used EXCEPT !.clashed = @ \cup {run[c].order}]

LEMMA StepHandlers ==
  ASSUME NEW c \in Claim, Step(c) \/ Abandon(c) \/ Panic(c)
  PROVE  UNCHANGED <<cancel, retry>> /\ (UNCHANGED used \/ Clashes(c))
<1>1. CASE MarkBillingRunning(c)
  BY <1>1 DEF MarkBillingRunning, Clashes
<1>2. CASE ~MarkBillingRunning(c)
  BY <1>2
     DEF Step, Hydrate, Decide, Capacity, CapacityFailed, PrepareClaimedTaskProviderCall,
         MarkBillingRead, Dispatch, Send, LogOrder, LogTask, Poll, Refresh, Defer, Persist,
         Salvage, Reread, Checkpoint, Complete, Settle, JudgeFailure, SaveTerminal, Conflict,
         SaveAlways, Billing, PanicJudge, Abandon, Panic, handlers
<1> QED BY <1>1, <1>2

LEMMA NextHandler ==
  ASSUME CreateInv, HandlerInv, "sameOwner" \notin Faults, "overlap" \notin Faults, [Next]_vars
  PROVE  HandlerInv'
<1>0. /\ TypeOK /\ AttemptInv /\ task \in Row /\ cancel \in [pc: CancelPc, proc: Proc \cup {NoProc}, order: Attempt]
  BY DEF CreateInv, AttemptInv, TypeOK
<1>1. CASE UNCHANGED vars
  BY <1>1 DEF HandlerInv, vars
<1>2. ASSUME NEW p \in Proc, ClaimNextTask(p) PROVE HandlerInv'
  <2>1. UNCHANGED <<cancel, retry>> /\ task.status \in {"queued", "running"} /\ task'.order = task.order
    BY <1>0, <1>2, ClaimMoves DEF ClaimNextTask, Claimable, handlers
  <2> QED BY <2>1 DEF HandlerInv
<1>3. CASE RetryTx
  BY <1>3 DEF RetryTx, HandlerInv
<1>4. CASE Next /\ ~RetryTx /\ ~\E p \in Proc : ClaimNextTask(p)
  <2>1. /\ task'.order = task.order
        /\ task.status \in Terminal => task'.status = task.status
    BY <1>0, <1>4, NextFramed DEF Framed, RowKeeps
  <2>2. ASSUME UNCHANGED <<cancel, retry>>,
               task.status \in Terminal => task'.call = task.call
        PROVE  HandlerInv'
    BY <2>1, <2>2 DEF HandlerInv, Terminal
  <2>3. ASSUME NEW c \in Claim, Step(c) \/ Abandon(c) \/ Panic(c) PROVE HandlerInv'
    <3>1. UNCHANGED <<cancel, retry>>
      BY <2>3, StepHandlers
    <3>2. task.status \in Terminal => task'.call = task.call
      BY <2>3, CallMoves DEF Held, Terminal
    <3> QED BY <2>2, <3>1, <3>2
  <2>4. ASSUME \/ \E c \in Claim : RenewTaskLease(c)
               \/ \E a \in Attempt : ResolveBillingOrder(a)
               \/ LeaseExpires \/ Timeout \/ PollDue
        PROVE  HandlerInv'
    <3>1. UNCHANGED <<cancel, retry>>
      BY <2>4 DEF RenewTaskLease, ResolveBillingOrder, LeaseExpires, Timeout, PollDue, handlers
    <3>2. task'.call = task.call
      BY <1>0, <2>4, QuietSteps
    <3> QED BY <2>2, <3>1, <3>2
  <2>5. ASSUME NEW p \in Proc, Crash(p) PROVE HandlerInv'
    BY <2>5 DEF Crash, HandlerInv
  <2>6. ASSUME NEW p \in Proc, CancelRead(p) PROVE HandlerInv'
    BY <2>6 DEF CancelRead, HandlerInv
  <2>7. ASSUME NEW p \in Proc, RetryCheck(p) PROVE HandlerInv'
    BY <1>0, <2>7 DEF RetryCheck, HandlerInv, NoCancel
  <2>8. CASE CancelQueued
    <3>1. task.status = "queued" => task.call \in NotStarted
      BY DEF CreateInv, FiredInv, NotStarted
    <3>2. CASE task.status = "queued"
      BY <1>0, <2>8, <3>1, <3>2 DEF CancelQueued, CancelledRow, CancelGoto, HandlerInv, Row
    <3>3. CASE task.status # "queued"
      <4>1. retry' = NoProc /\ task' = task
        BY <2>8, <3>3 DEF CancelQueued, HandlerInv
      <4>2. (cancel'.pc = "soft" /\ cancel'.order = task.order) \/ cancel'.pc = "idle"
        <5>1. CASE task.status = "running"
          <6> DEFINE s == [cancel EXCEPT !.pc = "soft", !.order = task.order]
          <6>1. s.pc = "soft" /\ s.order = task.order
            BY <1>0
          <6>2. cancel' = s
            BY <2>8, <3>3, <5>1 DEF CancelQueued
          <6> QED BY <6>1, <6>2
        <5>2. CASE task.status # "running"
          BY <2>8, <3>3, <5>2 DEF CancelQueued, NoCancel
        <5> QED BY <5>1, <5>2
      <4> QED BY <4>1, <4>2 DEF HandlerInv
    <3> QED BY <3>2, <3>3
  <2>9. CASE CancelSoft
    BY <1>0, <2>9 DEF CancelSoft, CancelledRow, CancelGoto, HandlerInv, Row
  <2>10. CASE CancelHard
    BY <1>0, <2>10 DEF CancelHard, CancelledRow, CancelGoto, HandlerInv, Row
  <2>11. CASE CancelReread
    BY <1>0, <2>11 DEF CancelReread, NoCancel, HandlerInv, Row
  <2>12. CASE CancelFails \/ CancelRefund \/ CancelReview
    BY <2>12 DEF CancelFails, CancelRefund, CancelReview, NoCancel, HandlerInv
  <2> QED BY <1>4, <2>3, <2>4, <2>5, <2>6, <2>7, <2>8, <2>9, <2>10, <2>11, <2>12 DEF Next, CancelStep
<1> QED BY <1>1, <1>2, <1>3, <1>4

(***************************************************************************)
(* What the steps keep of the refunds.                                     *)
(***************************************************************************)

\* The operators of PlanInv and RefundInv after a step, and what they ask of a
\* goroutine.
UnsentNow(a) == \A d \in Claim : run'[d].order = a => ~(run'[d].pc = "send" \/ run'[d].sent # "no")
FreeNow(a) ==
  \A d \in Claim : run'[d].order = a => run'[d].pc # "send" /\ run'[d].sent \in {"no", "refused", "broken"}
ClosedNow(a) == order'[a] \in {"uncertain", "settled", "refunded"}
SoundNow(c) ==
  /\ run'[c].pc # "panicked"
  /\ run'[c].req # 0 => orderReq'[run'[c].req]
  /\ Pollable /\ run'[c].pc = "logTask" => orderReq'[run'[c].order]
  /\ run'[c].pc = "poll" => run'[c].req = run'[c].order \/ (run'[c].sent = "accepted" /\ billable')
  /\ run'[c].pc \in Early => run'[c].req \in {0, run'[c].order}
  /\ run'[c].pc \in Early /\ run'[c].call \in NotStarted => UnsentNow(run'[c].order)
  /\ run'[c].pc \in {"claimed", "decide"} /\ ~run'[c].recovered => UnsentNow(run'[c].order)
  /\ run'[c].pc \in {"capacity", "prepare", "bill", "mark"} =>
       (Pollable /\ run'[c].req # 0) \/ UnsentNow(run'[c].order)
  /\ run'[c].pc = "mark" => order'[run'[c].order] # "running"
  /\ run'[c].pc = "dispatch" => UnsentNow(run'[c].order)
  /\ run'[c].pc = "salvage" => run'[c].outcome = "local"
  /\ \/ run'[c].pc = "refresh" /\ run'[c].outcome \notin {"ambiguous", "local", "success", "pending"}
     \/ run'[c].pc = "judge" /\ run'[c].outcome \notin {"ambiguous", "local"}
     => FreeNow(run'[c].order) \/ billable' \/ ClosedNow(run'[c].order)
  /\ run'[c].pc \in {"save", "saveAlways", "conflict", "billing"} /\ run'[c].plan = "refund" =>
       FreeNow(run'[c].order) \/ ClosedNow(run'[c].order)

\* A goroutine that is left as it was, but for a signal.
Calm(d) ==
  /\ run'[d].pc = run[d].pc /\ run'[d].order = run[d].order /\ run'[d].sent = run[d].sent
  /\ run'[d].recovered = run[d].recovered /\ run'[d].call = run[d].call /\ run'[d].req = run[d].req
  /\ run'[d].outcome = run[d].outcome /\ run'[d].plan = run[d].plan

LEMMA CalmSound ==
  ASSUME TypeOK, PlanInv, NEW d \in Claim, Calm(d),
         Live(d) /\ Unsent(run[d].order) => UnsentNow(run[d].order),
         Live(d) /\ Free(run[d].order) => FreeNow(run[d].order),
         Closed(run[d].order) => ClosedNow(run[d].order),
         Live(d) /\ order'[run[d].order] = "running" => order[run[d].order] = "running",
         \A a \in Attempt : orderReq[a] => orderReq'[a],
         billable => billable'
  PROVE  SoundNow(d)
<1>0. run[d].order \in Attempt /\ run[d].req \in Attempt \cup {0}
  BY Types, BoundAssumption DEF Attempt
<1>1. CASE Live(d)
  BY <1>0, <1>1 DEF PlanInv, Calm, SoundNow
<1>2. CASE ~Live(d)
  BY <1>0, <1>2 DEF PlanInv, Calm, SoundNow, Live, Early
<1> QED BY <1>1, <1>2

LEMMA MoneyKept ==
  ASSUME DeliveryInv', LeaseInv', HandlerInv',
         \A d \in Claim : SoundNow(d),
         task'.req # 0 => orderReq'[task'.req],
         \A a \in Attempt : orderReq'[a] =>
           billable' \/ ClosedNow(a) \/ \E d \in Claim : run'[d].pc = "logTask" /\ run'[d].order = a,
         \A a \in Attempt \ used'.resolved : order'[a] = "refunded" => FreeNow(a),
         \A d \in Claim : run'[d].pc = "dispatch" /\ Held(d)' /\ run'[d].order \notin used'.resolved =>
           order'[run'[d].order] # "refunded",
         used'.clashed = {}
  PROVE  MoneyInv'
<1>1. PlanInv'
  BY DEF PlanInv, SoundNow, Unsent, Fired, UnsentNow, Free, FreeNow, Closed, ClosedNow
<1>2. LoggedInv'
  BY DEF LoggedInv, Closed, ClosedNow
<1>3. RefundInv'
  BY DEF RefundInv, Free, FreeNow
<1> QED BY <1>1, <1>2, <1>3 DEF MoneyInv, ClashInv

\* A step of one goroutine that does not pass the checkpoint.
Moves(c) ==
  /\ Alone(c) /\ run'[c].order = run[c].order /\ run'[c].pc # "send"
  /\ run'[c].sent = run[c].sent \/ run[c].pc = "send"

LEMMA MovesKeep ==
  ASSUME NEW c \in Claim, Moves(c), NEW a
  PROVE  (Unsent(a) => UnsentNow(a)) /\ (Free(a) => FreeNow(a))
<1>1. ASSUME NEW d \in Claim
      PROVE  /\ run'[d].order = run[d].order /\ run'[d].pc = "send" => run[d].pc = "send"
             /\ run'[d].sent = run[d].sent \/ run[d].pc = "send"
  BY DEF Moves, Alone
<1> QED BY <1>1 DEF Unsent, Fired, UnsentNow, Free, FreeNow, Moves, Alone

LEMMA StepMoney ==
  ASSUME MoneyInv, DeliveryInv', LeaseInv', HandlerInv', Framed, NEW c \in Claim, Live(c), Moves(c),
         used' = used, SoundNow(c),
         \A a \in Attempt : orderReq[a] => orderReq'[a],
         \A a \in Attempt \ {run[c].order} : orderReq'[a] => orderReq[a],
         billable => billable',
         task'.req # 0 => orderReq'[task'.req],
         \A a \in Attempt \ {run[c].order} : order'[a] = order[a],
         Closed(run[c].order) => ClosedNow(run[c].order),
         orderReq'[run[c].order] /\ (run[c].pc = "logTask" \/ ~orderReq[run[c].order]) =>
           billable' \/ ClosedNow(run[c].order) \/ run'[c].pc = "logTask",
         order'[run[c].order] = "refunded" =>
           order[run[c].order] = "refunded" \/ FreeNow(run[c].order),
         run'[c].pc = "dispatch" => order'[run[c].order] # "refunded"
  PROVE  MoneyInv'
<1>0. /\ AttemptInv /\ TypeOK /\ DeliveryInv /\ LeaseInv /\ LoggedInv /\ PlanInv /\ RefundInv
      /\ \A d \in Claim : run[d].order \in Attempt
  BY Types DEF MoneyInv, DeliveryInv, CreateInv, AttemptInv
<1>1. \A d \in Claim \ {c} : Calm(d) /\ run'[d] = run[d] /\ (Live(d) => run[d].order # run[c].order)
  BY <1>0 DEF Moves, Alone, Calm, LeaseInv
<1>2. \A a \in Attempt : Closed(a) => ClosedNow(a)
  BY DEF Closed, ClosedNow
<1>3. \A d \in Claim : SoundNow(d)
  BY <1>0, <1>1, <1>2, MovesKeep, CalmSound
<1>4. ASSUME NEW a \in Attempt, orderReq'[a]
      PROVE  billable' \/ ClosedNow(a) \/ \E d \in Claim : run'[d].pc = "logTask" /\ run'[d].order = a
  <2>1. CASE a = run[c].order /\ (run[c].pc = "logTask" \/ ~orderReq[a])
    BY <1>4, <2>1 DEF Moves
  <2>2. CASE a = run[c].order /\ run[c].pc # "logTask" /\ orderReq[a]
    <3>1. \A d \in Claim : run[d].pc = "logTask" => run[d].order # a
      BY <1>1, <2>2 DEF Live
    <3> QED BY <1>0, <1>2, <2>2, <3>1 DEF LoggedInv
  <2>3. CASE a # run[c].order
    <3>1. orderReq[a]
      BY <1>4, <2>3
    <3>2. \A d \in Claim : run[d].pc = "logTask" /\ run[d].order = a => run'[d] = run[d]
      BY <1>1, <2>3
    <3> QED BY <1>0, <1>2, <3>1, <3>2 DEF LoggedInv
  <2> QED BY <2>1, <2>2, <2>3
<1>5. ASSUME NEW a \in Attempt \ used'.resolved, order'[a] = "refunded" PROVE FreeNow(a)
  BY <1>0, <1>5, MovesKeep DEF RefundInv
<1>6. ASSUME NEW d \in Claim, run'[d].pc = "dispatch", Held(d)', run'[d].order \notin used'.resolved
      PROVE  order'[run'[d].order] # "refunded"
  <2>1. CASE d = c
    BY <1>6, <2>1 DEF Moves
  <2>2. CASE d # c
    <3>1. Live(d)' /\ Live(d)
      BY <1>1, <1>6, <2>2 DEF Live
    <3>2. Held(d)
      BY <1>0, <1>6, <3>1, HeldBefore
    <3> QED BY <1>0, <1>1, <1>6, <2>2, <3>1, <3>2 DEF RefundInv
  <2> QED BY <2>1, <2>2
<1>7. used'.clashed = {}
  BY DEF MoneyInv, ClashInv
<1> QED BY <1>3, <1>4, <1>5, <1>6, <1>7, MoneyKept

\* ... and leaves the ledger alone.
LEMMA QuietStepMoney ==
  ASSUME MoneyInv, DeliveryInv', LeaseInv', HandlerInv', Framed, NEW c \in Claim, Live(c), Moves(c),
         used' = used, UNCHANGED ledger, SoundNow(c), run'[c].pc # "dispatch", run[c].pc # "logTask",
         task'.req # 0 => orderReq[task'.req]
  PROVE  MoneyInv'
<1>1. order' = order /\ orderReq' = orderReq /\ billable' = billable
  BY DEF ledger
<1>2. Closed(run[c].order) => ClosedNow(run[c].order)
  BY <1>1 DEF Closed, ClosedNow
<1> QED BY <1>1, <1>2, StepMoney

(***************************************************************************)
(* The goroutine, action by action.  Ready(c): the goroutine is alive, and *)
(* the other invariants have been carried over its step.                   *)
(***************************************************************************)

Ready(c) == MoneyInv /\ DeliveryInv' /\ LeaseInv' /\ HandlerInv' /\ Framed /\ Live(c) /\ used' = used

LEMMA ReadyFacts ==
  ASSUME NEW c \in Claim, Ready(c)
  PROVE  /\ TypeOK /\ CreateInv /\ FiredInv /\ StartInv /\ ResultInv /\ LeaseInv /\ LoggedInv /\ PlanInv
         /\ RefundInv /\ run[c].order \in Attempt /\ (task.req # 0 => orderReq[task.req])
         /\ (run[c].req # 0 => orderReq[run[c].req]) /\ order[run[c].order] \in OrderStatus \ {"none"}
<1>1. /\ TypeOK /\ CreateInv /\ FiredInv /\ StartInv /\ ResultInv /\ LeaseInv /\ LoggedInv /\ PlanInv
      /\ RefundInv
  BY DEF Ready, MoneyInv, DeliveryInv, CreateInv, AttemptInv
<1> QED BY <1>1, Types DEF LoggedInv, PlanInv, StartInv, Ready, Live

LEMMA OverMoney ==
  ASSUME NEW c \in Claim, Ready(c), Over(c), UNCHANGED ledger, run[c].pc # "logTask",
         task'.req # 0 => orderReq[task'.req]
  PROVE  MoneyInv'
<1>1. SoundNow(c)
  BY DEF Over, SoundNow, Early
<1>2. Moves(c) /\ run'[c].pc # "dispatch"
  BY DEF Over, Moves
<1> QED BY <1>1, <1>2, QuietStepMoney DEF Ready

\* Planned without a refund, or not planned at all.
Harmless(c) ==
  \/ run'[c].pc \in {"defer", "persist", "reread", "checkpoint", "complete", "settle"}
  \/ run'[c].pc \in {"saveAlways", "save", "billing", "conflict"} /\ run'[c].plan # "refund"

LEMMA HarmlessMoney ==
  ASSUME NEW c \in Claim, Ready(c), Alone(c), Same(c), run'[c].req \in {task.req, run[c].req},
         Harmless(c), UNCHANGED ledger, run[c].pc # "logTask",
         task'.req # 0 => orderReq[task'.req]
  PROVE  MoneyInv'
<1>1. orderReq' = orderReq
  BY DEF ledger
<1>2. SoundNow(c)
  BY <1>1, ReadyFacts DEF Harmless, SoundNow, Early
<1>3. Moves(c) /\ run'[c].pc # "dispatch"
  BY DEF Harmless, Moves, Same
<1> QED BY <1>2, <1>3, QuietStepMoney DEF Ready

LEMMA HydrateMoney ==
  ASSUME NEW c \in Claim, Ready(c), Hydrate(c) PROVE MoneyInv'
<1>0. UNCHANGED ledger /\ run[c].pc = "claimed" /\ orderReq' = orderReq
  BY DEF Hydrate, At, ledger
<1>1. CASE Over(c) /\ UNCHANGED task
  BY <1>0, <1>1, ReadyFacts, OverMoney
<1>2. CASE /\ Alone(c) /\ Same(c) /\ run'[c].pc = "decide" /\ run'[c].call = run[c].call
           /\ run'[c].req = run[c].req \/ (run'[c].req = run[c].order /\ orderReq[run[c].order])
           /\ task'.req # 0 => orderReq[task'.req]
  <2>1. Moves(c) /\ run'[c].order = run[c].order /\ run'[c].recovered = run[c].recovered
    BY <1>2 DEF Moves, Same
  <2>2. /\ run[c].req \in {0, run[c].order}
        /\ run[c].call \in NotStarted \/ ~run[c].recovered => UnsentNow(run[c].order)
    BY <1>0, <2>1, ReadyFacts, MovesKeep DEF PlanInv, Early
  <2>3. SoundNow(c)
    BY <1>0, <1>2, <2>1, <2>2, ReadyFacts DEF SoundNow
  <2> QED BY <1>0, <1>2, <2>1, <2>3, QuietStepMoney DEF Ready
<1>3. ASSUME orderReq[run[c].order], task' = [task EXCEPT !.req = run[c].order]
      PROVE  task'.req # 0 => orderReq[task'.req]
  BY <1>3, ReadyFacts, Types DEF Row
<1> QED BY <1>1, <1>2, <1>3, ReadyFacts, HydrateMoves DEF Goes

LEMMA DecideMoney ==
  ASSUME NEW c \in Claim, Ready(c), Decide(c) PROVE MoneyInv'
<1>0. UNCHANGED ledger /\ run[c].pc = "decide" /\ orderReq' = orderReq /\ UNCHANGED task
  BY DEF Decide, At, ledger
<1>1. order[run[c].order] = "reserved" => Unsent(run[c].order)
  BY ReadyFacts DEF FiredInv, Unsent
<1>2. ASSUME Goes(c, "capacity") \/ Goes(c, "prepare"), CanContinue(c) PROVE MoneyInv'
  <2>1. Moves(c) /\ run'[c].order = run[c].order /\ run'[c].req = run[c].req /\ run'[c].call = run[c].call
    BY <1>2 DEF Moves, Same, Goes
  <2>2. /\ run[c].req \in {0, run[c].order}
        /\ run[c].call \in NotStarted \/ ~run[c].recovered => Unsent(run[c].order)
    BY <1>0, ReadyFacts DEF PlanInv, Early
  <2>3. (Pollable /\ run[c].req # 0) \/ Unsent(run[c].order)
    BY <1>1, <1>2, <2>2 DEF CanContinue
  <2>4. SoundNow(c) /\ run'[c].pc # "dispatch"
    BY <1>0, <1>2, <2>1, <2>2, <2>3, ReadyFacts, MovesKeep DEF SoundNow, Goes
  <2> QED BY <1>0, <2>1, <2>4, ReadyFacts, QuietStepMoney DEF Ready
<1>3. ASSUME Goes(c, "saveAlways"), run'[c].plan = "refund", Overdue(c) PROVE MoneyInv'
  <2>1. Moves(c) /\ run'[c].order = run[c].order /\ run'[c].req = run[c].req
    BY <1>3 DEF Moves, Same, Goes
  <2>2. Free(run[c].order)
    BY <1>1, <1>3 DEF Overdue, Unsent, Fired, Free
  <2>3. SoundNow(c) /\ run'[c].pc # "dispatch"
    BY <1>0, <1>3, <2>1, <2>2, ReadyFacts, MovesKeep DEF SoundNow, Goes, Early
  <2> QED BY <1>0, <2>1, <2>3, ReadyFacts, QuietStepMoney DEF Ready
<1>4. ASSUME Goes(c, "saveAlways"), run'[c].plan # "refund" PROVE MoneyInv'
  <2>1. Harmless(c) /\ Alone(c) /\ Same(c) /\ run'[c].req = run[c].req
    BY <1>4 DEF Harmless, Goes
  <2> QED BY <1>0, <2>1, ReadyFacts, HarmlessMoney
<1> QED BY <1>2, <1>3, <1>4, ReadyFacts, DecideMoves

LEMMA CapacityMoney ==
  ASSUME NEW c \in Claim, Ready(c), Capacity(c) \/ CapacityFailed(c) PROVE MoneyInv'
<1>0. /\ UNCHANGED ledger /\ run[c].pc \in {"capacity", "capacityFailed"} /\ orderReq' = orderReq
      /\ task'.req = task.req /\ TypeOK
  <2>1. TypeOK
    BY ReadyFacts
  <2>2. Plain
    BY <2>1, RowPlain DEF Capacity, CapacityRow, CapacityFailed
  <2> QED BY <2>1, <2>2 DEF Capacity, CapacityFailed, At, ledger, Plain
<1>1. /\ run[c].req \in {0, run[c].order}
      /\ run[c].call \in NotStarted => Unsent(run[c].order)
      /\ run[c].pc = "capacity" => (Pollable /\ run[c].req # 0) \/ Unsent(run[c].order)
  BY <1>0, ReadyFacts DEF PlanInv, Early
<1>2. ASSUME Return(c) PROVE MoneyInv'
  BY <1>0, <1>2, ReadyFacts, ReturnMoves, OverMoney
<1>3. ASSUME Goto(c, "prepare") \/ Goto(c, "capacityFailed"), run[c].pc = "capacity" PROVE MoneyInv'
  <2>1. Goes(c, "prepare") \/ Goes(c, "capacityFailed")
    BY <1>0, <1>3, GotoMoves
  <2>2. Moves(c) /\ run'[c].order = run[c].order /\ run'[c].req = run[c].req /\ run'[c].call = run[c].call
    BY <2>1 DEF Moves, Same, Goes
  <2>3. SoundNow(c) /\ run'[c].pc # "dispatch"
    BY <1>0, <1>1, <1>3, <2>1, <2>2, ReadyFacts, MovesKeep DEF SoundNow, Goes
  <2> QED BY <1>0, <2>2, <2>3, ReadyFacts, QuietStepMoney DEF Ready
<1>4. ASSUME Conclude(c, "saveAlways", "failed", "refund"), run[c].call \in NotStarted PROVE MoneyInv'
  <2>1. Goes(c, "saveAlways") /\ run'[c].plan = "refund"
    BY <1>0, <1>4, ConcludeMoves
  <2>2. Moves(c) /\ run'[c].order = run[c].order /\ run'[c].req = run[c].req
    BY <2>1 DEF Moves, Same, Goes
  <2>3. Free(run[c].order)
    BY <1>1, <1>4 DEF Unsent, Fired, Free
  <2>4. SoundNow(c) /\ run'[c].pc # "dispatch"
    BY <1>0, <2>1, <2>2, <2>3, ReadyFacts, MovesKeep DEF SoundNow, Goes, Early
  <2> QED BY <1>0, <2>2, <2>4, ReadyFacts, QuietStepMoney DEF Ready
<1> QED BY <1>2, <1>3, <1>4 DEF Capacity, CapacityFailed, At

LEMMA PrepareMoney ==
  ASSUME NEW c \in Claim, Ready(c), PrepareClaimedTaskProviderCall(c) PROVE MoneyInv'
<1>0. UNCHANGED ledger /\ run[c].pc = "prepare" /\ orderReq' = orderReq
  BY DEF PrepareClaimedTaskProviderCall, At, ledger
<1>1. CASE Over(c) /\ UNCHANGED task
  BY <1>0, <1>1, ReadyFacts, OverMoney
<1>2. CASE /\ Alone(c) /\ Same(c) /\ run'[c].pc = "bill" /\ run'[c].req = run[c].req
           /\ run'[c].call = PreflightState(run[c].call) /\ task' = [task EXCEPT !.call = PreflightState(task.call)]
  <2>1. Moves(c) /\ run'[c].order = run[c].order
    BY <1>2 DEF Moves, Same
  <2>2. /\ run[c].req \in {0, run[c].order}
        /\ run[c].call \in NotStarted => Unsent(run[c].order)
        /\ (Pollable /\ run[c].req # 0) \/ Unsent(run[c].order)
    BY <1>0, ReadyFacts DEF PlanInv, Early
  <2>3. run'[c].call \in NotStarted => run[c].call \in NotStarted
    BY <1>2 DEF PreflightState, NotStarted
  <2>4. SoundNow(c)
    BY <1>0, <1>2, <2>1, <2>2, <2>3, ReadyFacts, MovesKeep DEF SoundNow
  <2>5. task'.req = task.req
    BY <1>2, ReadyFacts, Types DEF Row
  <2> QED BY <1>0, <1>2, <2>1, <2>4, <2>5, ReadyFacts, QuietStepMoney DEF Ready
<1> QED BY <1>1, <1>2, ReadyFacts, PrepareMoves

\* A goroutine about to start its order has sent nothing for it, or asks about
\* a request that it knows.
LEMMA BillFacts ==
  ASSUME NEW c \in Claim, Ready(c), run[c].pc \in {"bill", "mark"}
  PROVE  /\ run[c].req \in {0, run[c].order}
         /\ (Pollable /\ run[c].req # 0) \/ Unsent(run[c].order)
         /\ order[run[c].order] = "reserved" => Unsent(run[c].order)
<1>1. order[run[c].order] = "reserved" => Unsent(run[c].order)
  BY ReadyFacts DEF FiredInv, Unsent
<1> QED BY <1>1, ReadyFacts DEF PlanInv, Early

\* A failure to start the order that finds it not running.
LEMMA BillingFailedMoney ==
  ASSUME NEW c \in Claim, Ready(c), run[c].pc \in {"bill", "mark"}, BillingFailed(c),
         UNCHANGED ledger, task' = task, order[run[c].order] # "running"
  PROVE  MoneyInv'
<1>0. /\ TypeOK /\ orderReq' = orderReq /\ order' = order
      /\ run[c].order \in Attempt /\ order[run[c].order] \in OrderStatus \ {"none"}
  BY ReadyFacts DEF ledger
<1>1. Goes(c, "saveAlways") /\ run'[c].plan = "refund"
  BY <1>0, ConcludeMoves DEF BillingFailed
<1>2. Moves(c) /\ run'[c].order = run[c].order /\ run'[c].req = run[c].req
  BY <1>1 DEF Moves, Same, Goes
<1>3. Free(run[c].order) \/ ClosedNow(run[c].order)
  <2>1. order[run[c].order] # "reserved" => ClosedNow(run[c].order)
    BY <1>0 DEF ClosedNow, OrderStatus
  <2> QED BY <2>1, BillFacts DEF Unsent, Fired, Free
<1>4. SoundNow(c) /\ run'[c].pc # "dispatch"
  BY <1>0, <1>1, <1>2, <1>3, ReadyFacts, MovesKeep DEF SoundNow, Goes, Early
<1> QED BY <1>0, <1>2, <1>4, ReadyFacts, QuietStepMoney DEF Ready

\* The goroutine goes on towards the provider with its order running.
LEMMA ProviderMoney ==
  ASSUME NEW c \in Claim, Ready(c), run[c].pc \in {"bill", "mark"}, Goto(c, ProviderPc(c)),
         UNCHANGED <<task, orderReq, billable>>, ~Closed(run[c].order),
         order'[run[c].order] = "running",
         \A a \in Attempt \ {run[c].order} : order'[a] = order[a]
  PROVE  MoneyInv'
<1>0. TypeOK /\ run[c].order \in Attempt
  BY ReadyFacts
<1>1. Goes(c, IF Pollable /\ run[c].req # 0 THEN "poll" ELSE "dispatch")
  BY <1>0, GotoMoves DEF ProviderPc
<1>2. Moves(c) /\ run'[c].order = run[c].order /\ run'[c].req = run[c].req
  BY <1>1 DEF Moves, Same, Goes
<1>3. SoundNow(c)
  <2>1. CASE Pollable /\ run[c].req # 0
    BY <1>0, <1>1, <1>2, <2>1, BillFacts, ReadyFacts DEF SoundNow, Goes, Early
  <2>2. CASE ~(Pollable /\ run[c].req # 0)
    BY <1>0, <1>1, <1>2, <2>2, BillFacts, ReadyFacts, MovesKeep DEF SoundNow, Goes, Early
  <2> QED BY <2>1, <2>2
<1> QED BY <1>0, <1>2, <1>3, ReadyFacts, StepMoney DEF Ready

\* The order of a goroutine takes a step towards the provider, or fails to; a
\* failure of a running order does not happen.
LEMMA ReadMoney ==
  ASSUME NEW c \in Claim, Ready(c), Faults \subseteq {"local"}, MarkBillingRead(c) PROVE MoneyInv'
<1>0. /\ TypeOK /\ run[c].pc = "bill" /\ orderReq' = orderReq /\ task' = task /\ UNCHANGED ledger
      /\ order' = order /\ billable' = billable
  BY ReadyFacts DEF MarkBillingRead, At, ledger
<1>1. CASE Goto(c, ProviderPc(c)) /\ order[run[c].order] = "running"
  BY <1>0, <1>1, ProviderMoney DEF Closed
<1>2. CASE Goto(c, "mark") /\ order[run[c].order] # "running"
  <2>1. Goes(c, "mark")
    BY <1>0, <1>2, GotoMoves
  <2>2. /\ Moves(c) /\ run'[c].order = run[c].order /\ run'[c].req = run[c].req
        /\ run'[c].call = run[c].call
    BY <2>1 DEF Moves, Same, Goes
  <2>3. run[c].call \in NotStarted => UnsentNow(run[c].order)
    BY <1>0, <2>2, ReadyFacts, MovesKeep DEF PlanInv, Early
  <2>4. SoundNow(c) /\ run'[c].pc # "dispatch"
    BY <1>0, <1>2, <2>1, <2>2, <2>3, BillFacts, ReadyFacts, MovesKeep DEF SoundNow, Goes, Early
  <2> QED BY <1>0, <2>2, <2>4, ReadyFacts, QuietStepMoney DEF Ready
<1>3. CASE BillingFailed(c) /\ order[run[c].order] # "running"
  BY <1>0, <1>3, BillingFailedMoney
<1> QED BY <1>1, <1>2, <1>3 DEF MarkBillingRead

LEMMA BillMoney ==
  ASSUME NEW c \in Claim, Ready(c), MarkBillingRunning(c) PROVE MoneyInv'
<1>0. /\ TypeOK /\ run[c].pc = "mark" /\ orderReq' = orderReq /\ billable' = billable /\ task' = task
      /\ run[c].order \in Attempt /\ order[run[c].order] # "running"
  BY ReadyFacts DEF MarkBillingRunning, At, PlanInv
<1>1. CASE /\ order[run[c].order] = "reserved"
           /\ order' = [order EXCEPT ![run[c].order] = "running"]
           /\ Goto(c, ProviderPc(c))
  <2>1. /\ order'[run[c].order] = "running"
        /\ \A a \in Attempt \ {run[c].order} : order'[a] = order[a]
    BY <1>0, <1>1, Types
  <2> QED BY <1>0, <1>1, <2>1, ProviderMoney DEF Closed
<1>2. CASE BillingFailed(c) /\ UNCHANGED order
  BY <1>0, <1>2, BillingFailedMoney DEF ledger
<1> QED BY <1>1, <1>2 DEF MarkBillingRunning

\* Who passes the checkpoint holds the row, and the order is not refunded.
LEMMA FireMoney ==
  ASSUME NEW c \in Claim, Ready(c), Faults \subseteq {"local"}, At(c, "dispatch"), MayDispatch(c),
         task' = [task EXCEPT !.call = "dispatched"], Goto(c, "send"), UNCHANGED ledger
  PROVE  MoneyInv'
<1>0. /\ TypeOK /\ LeaseInv /\ LoggedInv /\ PlanInv /\ RefundInv /\ AttemptInv
      /\ order' = order /\ orderReq' = orderReq /\ billable' = billable
      /\ run[c].order \in Attempt /\ task'.req = task.req /\ used' = used /\ Framed /\ Live(c)
  BY ReadyFacts, Types DEF ledger, Row, Ready, CreateInv
<1>1. Goes(c, "send")
  BY <1>0, GotoMoves
<1>2. run'[c].pc = "send" /\ run'[c].order = run[c].order /\ run'[c].req = run[c].req
  BY <1>1 DEF Goes, Same
<1>3. ASSUME NEW d \in Claim \ {c}
      PROVE  Calm(d) /\ run'[d] = run[d] /\ (Live(d) => run[d].order # run[c].order)
  BY <1>0, <1>1 DEF Goes, Alone, Calm, LeaseInv
<1>4. ASSUME NEW a, a # run[c].order
      PROVE  (Unsent(a) => UnsentNow(a)) /\ (Free(a) => FreeNow(a))
  BY <1>2, <1>3, <1>4 DEF Unsent, Fired, UnsentNow, Free, FreeNow
<1>5. SoundNow(c)
  BY <1>0, <1>2, ReadyFacts DEF SoundNow, Early
<1>6. \A d \in Claim : SoundNow(d)
  <2> SUFFICES ASSUME NEW d \in Claim \ {c} PROVE SoundNow(d)
    BY <1>5
  <2> QED BY <1>0, <1>3, <1>4, CalmSound DEF Closed, ClosedNow
<1>7. order[run[c].order] # "refunded" \/ run[c].order \in used.resolved
  BY <1>0 DEF RefundInv, At, MayDispatch, HeldFresh
<1>8. \A a \in Attempt \ used'.resolved : order'[a] = "refunded" => FreeNow(a)
  BY <1>0, <1>4, <1>7 DEF RefundInv
<1>9. ASSUME NEW d \in Claim, run'[d].pc = "dispatch", Held(d)', run'[d].order \notin used'.resolved
      PROVE  order'[run'[d].order] # "refunded"
  <2>1. d # c /\ Live(d)'
    BY <1>2, <1>9 DEF Live
  <2>2. Held(d)
    BY <1>0, <1>9, <2>1, HeldBefore
  <2> QED BY <1>0, <1>3, <1>9, <2>1, <2>2 DEF RefundInv
<1>10. \A a \in Attempt : orderReq'[a] =>
         billable' \/ ClosedNow(a) \/ \E d \in Claim : run'[d].pc = "logTask" /\ run'[d].order = a
  <2>1. \A d \in Claim : run[d].pc = "logTask" => run'[d] = run[d]
    BY <1>3 DEF At
  <2> QED BY <1>0, <2>1 DEF LoggedInv, Closed, ClosedNow
<1>11. used'.clashed = {}
  BY <1>0 DEF Ready, MoneyInv, ClashInv
<1> QED BY <1>0, <1>6, <1>8, <1>9, <1>10, <1>11, ReadyFacts, MoneyKept DEF Ready

LEMMA DispatchMoney ==
  ASSUME NEW c \in Claim, Ready(c), Faults \subseteq {"local"}, Dispatch(c) PROVE MoneyInv'
<1>0. UNCHANGED ledger /\ run[c].pc = "dispatch" /\ orderReq' = orderReq /\ TypeOK
  BY ReadyFacts DEF Dispatch, At, ledger
<1>1. CASE MayDispatch(c) /\ task' = [task EXCEPT !.call = "dispatched"] /\ Goto(c, "send")
  BY <1>0, <1>1, FireMoney DEF At
<1>2. CASE Answer(c, "refresh", "notSent") /\ UNCHANGED task
  <2>1. Goes(c, "refresh") /\ run'[c].outcome = "notSent"
    BY <1>0, <1>2, AnswerMoves
  <2>2. Moves(c) /\ run'[c].order = run[c].order /\ run'[c].req = run[c].req
    BY <2>1 DEF Moves, Same, Goes
  <2>3. Free(run[c].order)
    BY <1>0, ReadyFacts DEF PlanInv, Unsent, Fired, Free
  <2>4. SoundNow(c) /\ run'[c].pc # "dispatch"
    BY <1>0, <2>1, <2>2, <2>3, ReadyFacts, MovesKeep DEF SoundNow, Goes, Early
  <2> QED BY <1>0, <1>2, <2>2, <2>4, ReadyFacts, QuietStepMoney DEF Ready
<1> QED BY <1>1, <1>2 DEF Dispatch

\* After a refused create request, and after one whose lost answer passes for a
\* refusal, nothing else of the attempt may be at the provider.
LEMMA SendMoney ==
  ASSUME NEW c \in Claim, Ready(c), Send(c) PROVE MoneyInv'
<1>0. UNCHANGED ledger /\ run[c].pc = "send" /\ orderReq' = orderReq /\ TypeOK /\ UNCHANGED task
  BY ReadyFacts DEF Send, At, ledger
<1>1. /\ Alone(c) /\ run'[c].order = run[c].order /\ run'[c].req = run[c].req
      /\ \/ run'[c].pc = IF Pollable THEN "logOrder" ELSE "logTask"
         \/ /\ run'[c].pc = "refresh" /\ run'[c].sent \in {"refused", "broken"}
            /\ run'[c].outcome = "refused"
         \/ run'[c].pc = "refresh" /\ run'[c].outcome = "ambiguous"
  BY <1>0, SendMoves
<1>2. Moves(c) /\ run'[c].pc # "dispatch"
  BY <1>0, <1>1 DEF Moves
<1>3. run'[c].sent \in {"refused", "broken"} /\ run'[c].pc = "refresh" => FreeNow(run[c].order)
  <2>1. \A d \in Claim \ {c} : run[d].order = run[c].order => ~Fired(d)
    BY <1>0, ReadyFacts DEF FiredInv, Fired
  <2> QED BY <1>1, <2>1 DEF FreeNow, Alone, Fired
<1>4. SoundNow(c)
  BY <1>0, <1>1, <1>3, ReadyFacts DEF SoundNow, Early
<1> QED BY <1>0, <1>2, <1>4, ReadyFacts, QuietStepMoney DEF Ready

LEMMA LogOrderMoney ==
  ASSUME NEW c \in Claim, Ready(c), LogOrder(c) PROVE MoneyInv'
<1>0. /\ run[c].pc = "logOrder" /\ UNCHANGED <<task, order, billable>> /\ TypeOK /\ run[c].order \in Attempt
  BY ReadyFacts DEF LogOrder, At
<1>1. Goes(c, "logTask")
  BY <1>0, GotoMoves DEF LogOrder
<1>2. /\ Moves(c) /\ run'[c].order = run[c].order /\ run'[c].req = run[c].req /\ run'[c].pc = "logTask"
  BY <1>1 DEF Moves, Same, Goes
<1>3. /\ orderReq'[run[c].order]
      /\ \A a \in Attempt : orderReq[a] => orderReq'[a]
      /\ \A a \in Attempt \ {run[c].order} : orderReq'[a] => orderReq[a]
  BY <1>0, Types DEF LogOrder
<1>4. run[c].req \in Attempt \cup {0} /\ task.req \in Attempt \cup {0}
  BY <1>0, Types, BoundAssumption DEF Attempt
<1>5. SoundNow(c)
  BY <1>2, <1>3, <1>4, ReadyFacts DEF SoundNow, Early
<1>6. task'.req # 0 => orderReq'[task'.req]
  BY <1>0, <1>3, <1>4, ReadyFacts
<1>7. Closed(run[c].order) => ClosedNow(run[c].order)
  BY <1>0 DEF Closed, ClosedNow
<1> QED BY <1>0, <1>2, <1>3, <1>5, <1>6, <1>7, ReadyFacts, StepMoney DEF Ready

\* After the log, either it holds a billable success or the order is closed.
LEMMA LogTaskMoney ==
  ASSUME NEW c \in Claim, Ready(c), LogTask(c) PROVE MoneyInv'
<1>0. /\ run[c].pc = "logTask" /\ orderReq' = orderReq /\ TypeOK /\ run[c].order \in Attempt
      /\ order[run[c].order] \in OrderStatus \ {"none"} /\ run[c].sent = "accepted"
      /\ Pollable => orderReq[run[c].order]
  BY ReadyFacts DEF LogTask, At, ResultInv, PlanInv
<1>1. task'.req # 0 => orderReq[task'.req]
  <2>1. CASE task' = task
    BY <2>1, ReadyFacts
  <2>2. CASE LogReaches(run[c].order) /\ task' = [task EXCEPT !.req = run[c].order, !.due = FALSE]
    <3>1. task'.req = run[c].order
      BY <1>0, <2>2, Types DEF Row
    <3> QED BY <1>0, <2>2, <3>1 DEF LogReaches
  <2> QED BY <2>1, <2>2 DEF LogTask
<1>2. CASE billable' = TRUE /\ Goto(c, IF Pollable THEN "poll" ELSE "refresh") /\ UNCHANGED order
  <2>1. Goes(c, IF Pollable THEN "poll" ELSE "refresh")
    BY <1>0, <1>2, GotoMoves
  <2>2. /\ Moves(c) /\ run'[c].order = run[c].order /\ run'[c].req = run[c].req
        /\ run'[c].pc \in {"poll", "refresh"} /\ run'[c].sent = "accepted"
    BY <1>0, <2>1 DEF Moves, Same, Goes
  <2>3. SoundNow(c)
    BY <1>0, <1>2, <2>2, ReadyFacts DEF SoundNow, Early
  <2> QED BY <1>0, <1>1, <1>2, <2>2, <2>3, ReadyFacts, StepMoney DEF Ready, Closed, ClosedNow
<1>3. CASE MarkUncertain(run[c].order) /\ Answer(c, "refresh", "ambiguous") /\ UNCHANGED billable
  <2>1. Goes(c, "refresh") /\ run'[c].outcome = "ambiguous"
    BY <1>0, <1>3, AnswerMoves
  <2>2. /\ Moves(c) /\ run'[c].order = run[c].order /\ run'[c].req = run[c].req
        /\ run'[c].pc = "refresh"
    BY <1>0, <2>1 DEF Moves, Same, Goes
  <2>3. SoundNow(c)
    BY <1>0, <2>1, <2>2, ReadyFacts DEF SoundNow, Early
  <2>4. /\ ClosedNow(run[c].order) /\ \A a \in Attempt \ {run[c].order} : order'[a] = order[a]
        /\ order'[run[c].order] = "refunded" => order[run[c].order] = "refunded"
    BY <1>0, <1>3, Types DEF MarkUncertain, OrderAfter, ClosedNow, OrderStatus
  <2> QED BY <1>0, <1>1, <1>3, <2>2, <2>3, <2>4, ReadyFacts, StepMoney DEF Ready
<1> QED BY <1>2, <1>3 DEF LogTask

\* Who asks for a request of the attempt knows that it has left.
LEMMA PollMoney ==
  ASSUME NEW c \in Claim, Ready(c), Poll(c) PROVE MoneyInv'
<1>0. /\ UNCHANGED ledger /\ run[c].pc = "poll" /\ orderReq' = orderReq /\ TypeOK
      /\ billable' = billable /\ order' = order /\ task'.req = task.req /\ run[c].order \in Attempt
  BY ReadyFacts, RowPlain DEF Poll, At, ledger, Plain
<1>1. PICK x : Answer(c, "refresh", x)
  BY DEF Poll
<1>2. Goes(c, "refresh")
  BY <1>0, <1>1, AnswerMoves
<1>3. /\ Moves(c) /\ run'[c].order = run[c].order /\ run'[c].req = run[c].req
      /\ run'[c].pc = "refresh"
  BY <1>2 DEF Moves, Same, Goes
<1>4. billable' \/ ClosedNow(run[c].order)
  <2>1. CASE run[c].req # run[c].order
    BY <1>0, <2>1, ReadyFacts DEF PlanInv
  <2>2. CASE run[c].req = run[c].order
    <3>1. orderReq[run[c].order]
      BY <1>0, <2>2, ReadyFacts, BoundAssumption DEF Attempt
    <3>2. \A d \in Claim : run[d].pc = "logTask" => run[d].order # run[c].order
      BY <1>0, ReadyFacts DEF LeaseInv, Live
    <3> QED BY <1>0, <3>1, <3>2, ReadyFacts DEF LoggedInv, Closed, ClosedNow
  <2> QED BY <2>1, <2>2
<1>5. SoundNow(c)
  BY <1>0, <1>3, <1>4, ReadyFacts DEF SoundNow, Early
<1> QED BY <1>0, <1>3, <1>5, ReadyFacts, QuietStepMoney DEF Ready

LEMMA RefreshMoney ==
  ASSUME NEW c \in Claim, Ready(c), Refresh(c) PROVE MoneyInv'
<1>0. /\ UNCHANGED ledger /\ run[c].pc = "refresh" /\ orderReq' = orderReq /\ TypeOK
      /\ billable' = billable /\ order' = order /\ UNCHANGED task
  BY ReadyFacts DEF Refresh, At, ledger
<1>1. /\ Alone(c) /\ Same(c) /\ run'[c].outcome = run[c].outcome /\ run'[c].req \in {task.req, run[c].req}
      /\ \/ run'[c].pc = "judge" /\ run[c].outcome \notin {"pending", "success"}
         \/ run'[c].pc \in {"defer", "persist"}
  BY <1>0, RefreshMoves
<1>2. CASE run'[c].pc \in {"defer", "persist"}
  BY <1>0, <1>1, <1>2, ReadyFacts, HarmlessMoney DEF Harmless
<1>3. CASE run'[c].pc = "judge" /\ run[c].outcome \notin {"pending", "success"}
  <2>1. Moves(c) /\ run'[c].order = run[c].order
    BY <1>1, <1>3 DEF Moves, Same
  <2>2. run[c].outcome \notin {"ambiguous", "local"} =>
          FreeNow(run[c].order) \/ billable \/ ClosedNow(run[c].order)
    BY <1>0, <1>3, <2>1, ReadyFacts, MovesKeep DEF PlanInv, Closed, ClosedNow
  <2>3. SoundNow(c)
    BY <1>0, <1>1, <1>3, <2>1, <2>2, ReadyFacts DEF SoundNow, Early
  <2> QED BY <1>0, <1>3, <2>1, <2>3, ReadyFacts, QuietStepMoney DEF Ready
<1> QED BY <1>1, <1>2, <1>3

LEMMA ResultMoney ==
  ASSUME NEW c \in Claim, Ready(c),
         \/ Defer(c) \/ Persist(c) \/ Salvage(c) \/ Reread(c) \/ Checkpoint(c) \/ Complete(c)
         \/ Conflict(c) \/ Abandon(c)
  PROVE  MoneyInv'
<1>0. /\ UNCHANGED ledger /\ orderReq' = orderReq /\ TypeOK /\ run[c].pc # "logTask"
  BY ReadyFacts
     DEF Defer, Persist, Salvage, Reread, Checkpoint, Complete, Conflict, Abandon, At, ledger
<1>1. task'.req \in {task.req, run[c].req}
  BY <1>0, RowPlain, SavedReq
     DEF Defer, Persist, Salvage, Reread, Checkpoint, Complete, Conflict, Abandon, Plain
<1>2. task'.req # 0 => orderReq[task'.req]
  BY <1>1, ReadyFacts
<1>3. ASSUME Return(c) PROVE MoneyInv'
  BY <1>0, <1>2, <1>3, ReturnMoves, OverMoney
<1>4. ASSUME NEW pc, Goes(c, pc),
             \/ pc \in {"reread", "checkpoint", "complete", "settle"}
             \/ pc \in {"saveAlways", "billing"} /\ run'[c].plan # "refund"
      PROVE  MoneyInv'
  BY <1>0, <1>2, <1>4, HarmlessMoney DEF Goes, Harmless
<1>5. ASSUME NEW pc \in {"salvage", "judge"}, Goes(c, pc), run'[c].outcome = "local"
      PROVE  MoneyInv'
  <2>1. /\ Moves(c) /\ run'[c].order = run[c].order /\ run'[c].req = run[c].req /\ run'[c].pc = pc
    BY <1>5 DEF Moves, Same, Goes
  <2>2. SoundNow(c)
    BY <1>0, <1>5, <2>1, ReadyFacts DEF SoundNow, Early
  <2> QED BY <1>0, <1>2, <2>1, <2>2, QuietStepMoney DEF Ready
<1>6. CASE Persist(c) \/ Reread(c)
  BY <1>0, <1>4, <1>5, <1>6, GotoMoves, AnswerMoves, ConcludeMoves DEF Persist, Reread
<1>7. CASE Salvage(c)
  <2>1. run[c].outcome = "local"
    BY <1>7, ReadyFacts DEF Salvage, At, PlanInv
  <2> QED BY <1>0, <1>3, <1>5, <1>7, <2>1, GotoMoves, CkptMoves DEF Salvage
<1>8. CASE Checkpoint(c) \/ Complete(c)
  BY <1>0, <1>4, <1>8, GotoMoves, CkptMoves, ConcludeMoves
     DEF Checkpoint, Complete, ResultConflict, ResultNotSaved
<1>9. CASE Defer(c) \/ Conflict(c) \/ Abandon(c)
  BY <1>0, <1>3, <1>4, <1>9, ConcludeMoves DEF Defer, Conflict, Abandon
<1> QED BY <1>6, <1>7, <1>8, <1>9

\* An order is refunded for a failure that needs no review.
LEMMA JudgeMoney ==
  ASSUME NEW c \in Claim, Ready(c), JudgeFailure(c) PROVE MoneyInv'
<1>0. /\ UNCHANGED ledger /\ run[c].pc = "judge" /\ orderReq' = orderReq /\ TypeOK
      /\ billable' = billable /\ order' = order /\ UNCHANGED task
  BY ReadyFacts DEF JudgeFailure, At, ledger
<1>1. CASE Return(c)
  BY <1>0, <1>1, ReadyFacts, ReturnMoves, OverMoney
<1>2. ASSUME NEW end, Conclude(c, "save", end, FailurePlan(c, end)) PROVE MoneyInv'
  <2>1. Goes(c, "save") /\ run'[c].plan = FailurePlan(c, end)
    BY <1>0, <1>2, ConcludeMoves
  <2>2. Moves(c) /\ run'[c].order = run[c].order /\ run'[c].req = run[c].req /\ run'[c].pc = "save"
    BY <2>1 DEF Moves, Same, Goes
  <2>3. run'[c].plan = "refund" => FreeNow(run[c].order) \/ ClosedNow(run[c].order)
    <3>1. run'[c].plan = "refund" => ~ReviewRequired(c)
      BY <2>1 DEF FailurePlan
    <3> QED BY <1>0, <2>2, <3>1, ReadyFacts, MovesKeep DEF PlanInv, ReviewRequired, Closed, ClosedNow
  <2>4. SoundNow(c)
    BY <1>0, <2>2, <2>3, ReadyFacts DEF SoundNow, Early
  <2> QED BY <1>0, <2>2, <2>4, ReadyFacts, QuietStepMoney DEF Ready
<1> QED BY <1>1, <1>2 DEF JudgeFailure

\* The plan survives the save of the terminal row.
LEMMA SavingMoney ==
  ASSUME NEW c \in Claim, Ready(c), SaveTerminal(c) \/ SaveAlways(c) PROVE MoneyInv'
<1>0. /\ UNCHANGED ledger /\ run[c].pc \in {"save", "saveAlways"} /\ orderReq' = orderReq /\ TypeOK
      /\ order' = order
  BY ReadyFacts DEF SaveTerminal, SaveAlways, At, ledger
<1>1. task'.req \in {task.req, run[c].req}
  BY <1>0, SavedReq DEF SaveTerminal, SaveAlways
<1>2. task'.req # 0 => orderReq[task'.req]
  BY <1>1, ReadyFacts
<1>3. ASSUME NEW pc \in {"billing", "conflict"}, Goes(c, pc), run'[c].plan \in {run[c].plan, "uncertain"}
      PROVE  MoneyInv'
  <2>1. Moves(c) /\ run'[c].order = run[c].order /\ run'[c].req = run[c].req /\ run'[c].pc = pc
    BY <1>3 DEF Moves, Same, Goes
  <2>2. run'[c].plan = "refund" => FreeNow(run[c].order) \/ ClosedNow(run[c].order)
    BY <1>0, <1>3, <2>1, ReadyFacts, MovesKeep DEF PlanInv, Closed, ClosedNow
  <2>3. SoundNow(c)
    BY <1>0, <1>3, <2>1, <2>2, ReadyFacts DEF SoundNow, Early
  <2> QED BY <1>0, <1>2, <1>3, <2>1, <2>3, QuietStepMoney DEF Ready
<1> QED BY <1>0, <1>3, GotoMoves, ConcludeMoves DEF SaveTerminal, SaveAlways

\* A goroutine closes its order as planned.
LEMMA ClosingMoney ==
  ASSUME NEW c \in Claim, Ready(c), Settle(c) \/ Billing(c) PROVE MoneyInv'
<1>0. /\ orderReq' = orderReq /\ billable' = billable /\ TypeOK /\ task' = task
      /\ run[c].order \in Attempt /\ run[c].pc \in {"settle", "billing"}
      /\ run[c].pc = "settle" => SettleFromExecution(run[c].order) \/ MarkUncertain(run[c].order)
  BY ReadyFacts DEF Settle, Billing, At
<1>1. Over(c)
  BY <1>0, ReturnMoves DEF Settle, Billing
<1>2. Moves(c) /\ run'[c].pc # "dispatch"
  BY <1>1 DEF Over, Moves
<1>3. SoundNow(c)
  BY <1>1 DEF Over, SoundNow, Early
<1>4. /\ \A a \in Attempt \ {run[c].order} : order'[a] = order[a]
      /\ Closed(run[c].order) => ClosedNow(run[c].order)
  BY <1>0, Types
     DEF Settle, Billing, SettleFromExecution, MarkUncertain, RefundFromExecution, OrderAfter,
         Closed, ClosedNow
<1>5. order'[run[c].order] = "refunded" => order[run[c].order] = "refunded" \/ FreeNow(run[c].order)
  <2>1. CASE \/ SettleFromExecution(run[c].order) \/ MarkUncertain(run[c].order) \/ UNCHANGED order
    BY <1>0, <2>1, Types DEF SettleFromExecution, MarkUncertain, OrderAfter
  <2>2. CASE run[c].pc = "billing" /\ run[c].plan = "refund" /\ RefundFromExecution(run[c].order)
    <3>1. Free(run[c].order) \/ Closed(run[c].order)
      BY <2>2, ReadyFacts DEF PlanInv
    <3>2. CASE Free(run[c].order)
      BY <1>2, <3>2, MovesKeep
    <3>3. CASE Closed(run[c].order)
      BY <1>0, <2>2, <3>3, Types DEF RefundFromExecution, OrderAfter, Closed
    <3> QED BY <3>1, <3>2, <3>3
  <2> QED BY <2>1, <2>2 DEF Settle, Billing, At
<1> QED BY <1>0, <1>2, <1>3, <1>4, <1>5, ReadyFacts, StepMoney DEF Ready

LEMMA StepsMoney ==
  ASSUME MoneyInv, DeliveryInv', LeaseInv', HandlerInv', Framed, Faults \subseteq {"local"},
         NEW c \in Claim, Step(c) \/ Abandon(c) \/ Panic(c)
  PROVE  MoneyInv'
<1>0. used' = used
  BY StepHandlers DEF Clashes, MoneyInv, PlanInv, At
<1>1. Live(c)
  BY DEF Step, Hydrate, Decide, Capacity, CapacityFailed, PrepareClaimedTaskProviderCall,
         MarkBillingRead, MarkBillingRunning, Dispatch, Send, LogOrder, LogTask, Poll, Refresh,
         Defer, Persist, Salvage, Reread, Checkpoint, Complete, Settle, JudgeFailure, SaveTerminal, Conflict,
         SaveAlways, Billing, PanicJudge, Abandon, Panic, At, Live
<1>2. Ready(c)
  BY <1>0, <1>1 DEF Ready
<1>3. ~Panic(c)
  BY DEF Panic
<1>4. ~PanicJudge(c)
  BY <1>2, ReadyFacts DEF PlanInv, PanicJudge, At
<1> QED BY <1>2, <1>3, <1>4, HydrateMoney, DecideMoney, CapacityMoney, PrepareMoney, ReadMoney,
           BillMoney, DispatchMoney, SendMoney, LogOrderMoney, LogTaskMoney, PollMoney, RefreshMoney, ResultMoney,
           JudgeMoney, SavingMoney, ClosingMoney
        DEF Step

(***************************************************************************)
(* Crashes, the clock, the handlers, claims and retries.                   *)
(***************************************************************************)

Quiet ==
  \/ \E c \in Claim : RenewTaskLease(c)
  \/ \E p \in Proc : Crash(p) \/ CancelRead(p) \/ RetryCheck(p)
  \/ \E a \in Attempt : ResolveBillingOrder(a)
  \/ LeaseExpires \/ Timeout \/ PollDue \/ CancelStep

LEMMA QuietRun ==
  ASSUME TypeOK, Quiet, NEW d \in Claim
  PROVE  \/ Calm(d)
         \/ /\ run'[d].pc = "done" /\ run'[d].order = run[d].order /\ run'[d].sent = run[d].sent
            /\ run'[d].req = 0 /\ run'[d].plan = "none"
            /\ "crashInLog" \notin Faults => run[d].pc # "logTask"
<1>1. CASE UNCHANGED run
  BY <1>1 DEF Calm
<1>2. ASSUME NEW p \in Proc, Crash(p)
      PROVE  \/ Calm(d)
             \/ /\ run'[d].pc = "done" /\ run'[d].order = run[d].order /\ run'[d].sent = run[d].sent
                /\ run'[d].req = 0 /\ run'[d].plan = "none"
                /\ "crashInLog" \notin Faults => run[d].pc # "logTask"
  <2>1. "crashInLog" \notin Faults /\ run[d].proc = p => run[d].pc # "logTask"
    BY <1>2 DEF Crash
  <2> QED BY <1>2, <2>1, CrashMoves, FinishedMoves DEF Calm
<1>3. CASE CancelSoft
  BY <1>3, SignalMoves DEF Calm
<1>4. (\E p \in Proc : Crash(p)) \/ CancelSoft \/ UNCHANGED run
  BY DEF Quiet, RenewTaskLease, CancelRead, RetryCheck, ResolveBillingOrder, LeaseExpires, Timeout,
         PollDue, CancelStep, CancelQueued, CancelHard, CancelReread, CancelFails, CancelRefund, CancelReview
<1> QED BY <1>1, <1>2, <1>3, <1>4

\* An order changes only under review, by the administrator or by the user's
\* cancellation, which finds the row cancelled with nothing sent.
LEMMA QuietOrder ==
  ASSUME DeliveryInv, HandlerInv, Quiet
  PROVE  /\ used.resolved \subseteq used'.resolved /\ used'.clashed = used.clashed
         /\ \A a \in Attempt : Closed(a) => ClosedNow(a)
         /\ \A a \in Attempt : order'[a] = "running" => order[a] = "running"
         /\ \A a \in Attempt \ used'.resolved : order'[a] = "refunded" =>
              \/ order[a] = "refunded"
              \/ Unsent(a) /\ task.status = "cancelled" /\ task.order = a /\ task' = task
<1>0. TypeOK /\ HandlerInv /\ FiredInv
  BY DEF DeliveryInv, CreateInv, AttemptInv
<1>1. CASE \E a \in Attempt : ResolveBillingOrder(a)
  <2>1. PICK b \in Attempt : ResolveBillingOrder(b)
    BY <1>1
  <2>2. PICK to \in {"settled", "refunded"} : order' = [order EXCEPT ![b] = to]
    BY <2>1 DEF ResolveBillingOrder
  <2>3. used'.resolved = used.resolved \cup {b} /\ used'.clashed = used.clashed
    BY <1>0, <2>1 DEF ResolveBillingOrder, TypeOK
  <2>4. order'[b] = to /\ \A a \in Attempt \ {b} : order'[a] = order[a]
    BY <1>0, <2>2, Types
  <2> QED BY <2>3, <2>4 DEF Closed, ClosedNow
<1>2. CASE CancelRefund
  <2>1. used'.resolved = used.resolved /\ used'.clashed = used.clashed /\ task' = task
    BY <1>2 DEF CancelRefund
  <2>2. /\ task.status = "cancelled" /\ cancel.order = task.order /\ task.call \in NotStarted
    BY <1>0, <1>2 DEF CancelRefund, HandlerInv
  <2>3. Unsent(task.order)
    BY <1>0, <2>2 DEF FiredInv, Unsent, NotStarted
  <2>4. ASSUME NEW a \in Attempt
        PROVE  /\ a # task.order => order'[a] = order[a]
               /\ Closed(a) => ClosedNow(a)
               /\ order'[a] = "running" => order[a] = "running"
    BY <1>0, <1>2, <2>2, Types DEF CancelRefund, RefundFromExecution, OrderAfter, Closed, ClosedNow
  <2> QED BY <2>1, <2>2, <2>3, <2>4
<1>3. CASE ~(CancelRefund \/ \E a \in Attempt : ResolveBillingOrder(a))
  <2>1. used'.resolved = used.resolved /\ used'.clashed = used.clashed
    BY <1>0, <1>3
       DEF Quiet, RenewTaskLease, Crash, CancelRead, RetryCheck, LeaseExpires, Timeout, PollDue,
           CancelStep, CancelQueued, CancelSoft, CancelHard, CancelReread, CancelFails, CancelReview,
           handlers, TypeOK
  <2>2. UNCHANGED order \/ MarkUncertain(cancel.order)
    BY <1>3
       DEF Quiet, RenewTaskLease, Crash, CancelRead, RetryCheck, LeaseExpires, Timeout, PollDue,
           CancelStep, CancelQueued, CancelSoft, CancelHard, CancelReread, CancelFails, CancelReview,
           ledger
  <2>3. ASSUME NEW a \in Attempt
        PROVE  /\ order'[a] = "refunded" => order[a] = "refunded"
               /\ Closed(a) => ClosedNow(a)
               /\ order'[a] = "running" => order[a] = "running"
    BY <1>0, <2>2, Types DEF MarkUncertain, OrderAfter, Closed, ClosedNow
  <2> QED BY <2>1, <2>3
<1> QED BY <1>1, <1>2, <1>3

LEMMA QuietMoney ==
  ASSUME MoneyInv, DeliveryInv', LeaseInv', HandlerInv', Framed, Faults \subseteq {"local"}, Quiet
  PROVE  MoneyInv'
<1>0. /\ TypeOK /\ AttemptInv /\ LoggedInv /\ PlanInv /\ RefundInv /\ "crashInLog" \notin Faults
      /\ \A d \in Claim : run[d].order \in Attempt
  BY Types DEF MoneyInv, DeliveryInv, CreateInv, AttemptInv
<1>1. task'.req = task.req
  <2>1. Plain
    BY <1>0, RowPlain
       DEF Quiet, RenewTaskLease, Crash, CancelRead, RetryCheck, ResolveBillingOrder, LeaseExpires,
           Timeout, PollDue, CancelStep, CancelQueued, CancelSoft, CancelHard, CancelReread,
           CancelFails, CancelRefund, CancelReview
  <2> QED BY <2>1 DEF Plain
<1>2. orderReq' = orderReq /\ billable' = billable
  BY DEF Quiet, RenewTaskLease, Crash, CancelRead, RetryCheck, ResolveBillingOrder, LeaseExpires,
         Timeout, PollDue, CancelStep, CancelQueued, CancelSoft, CancelHard, CancelReread,
         CancelFails, CancelRefund, CancelReview, ledger
<1>3. \A d \in Claim :
        \/ Calm(d)
        \/ /\ run'[d].pc = "done" /\ run'[d].order = run[d].order /\ run'[d].sent = run[d].sent
           /\ run'[d].req = 0 /\ run'[d].plan = "none" /\ run[d].pc # "logTask"
  BY <1>0, QuietRun
<1>4. \A a : (Unsent(a) => UnsentNow(a)) /\ (Free(a) => FreeNow(a))
  BY <1>3 DEF Calm, Unsent, Fired, UnsentNow, Free, FreeNow
<1>5. /\ used.resolved \subseteq used'.resolved /\ used'.clashed = used.clashed
      /\ \A a \in Attempt : Closed(a) => ClosedNow(a)
      /\ \A a \in Attempt : order'[a] = "running" => order[a] = "running"
      /\ \A a \in Attempt \ used'.resolved : order'[a] = "refunded" =>
           order[a] = "refunded" \/ (Unsent(a) /\ task.status = "cancelled" /\ task' = task)
  BY QuietOrder DEF MoneyInv
<1>6. ASSUME NEW d \in Claim PROVE SoundNow(d)
  <2>1. CASE Calm(d)
    BY <1>0, <1>2, <1>4, <1>5, <2>1, CalmSound
  <2>2. CASE run'[d].pc = "done" /\ run'[d].req = 0
    BY <2>2 DEF SoundNow, Early
  <2> QED BY <1>3, <2>1, <2>2
<1>7. \A a \in Attempt : orderReq'[a] =>
        billable' \/ ClosedNow(a) \/ \E d \in Claim : run'[d].pc = "logTask" /\ run'[d].order = a
  <2>1. \A d \in Claim : run[d].pc = "logTask" => run'[d].pc = "logTask" /\ run'[d].order = run[d].order
    BY <1>3 DEF Calm
  <2> QED BY <1>0, <1>2, <1>5, <2>1 DEF LoggedInv
<1>8. ASSUME NEW a \in Attempt \ used'.resolved, order'[a] = "refunded" PROVE FreeNow(a)
  <2>1. CASE order[a] = "refunded"
    BY <1>0, <1>4, <1>5, <1>8, <2>1 DEF RefundInv
  <2>2. CASE Unsent(a)
    BY <1>4, <2>2 DEF Unsent, Fired, Free
  <2> QED BY <1>5, <1>8, <2>1, <2>2
<1>9. ASSUME NEW d \in Claim, run'[d].pc = "dispatch", Held(d)', run'[d].order \notin used'.resolved
      PROVE  order'[run'[d].order] # "refunded"
  <2>1. Live(d)'
    BY <1>9 DEF Live
  <2>2. Held(d) /\ run'[d].order = run[d].order /\ run[d].pc = "dispatch"
    BY <1>0, <1>3, <1>9, <2>1, HeldBefore DEF Calm
  <2>3. order[run[d].order] # "refunded" /\ task.status # "cancelled"
    BY <1>0, <1>5, <1>9, <2>2 DEF RefundInv, Held
  <2> QED BY <1>0, <1>5, <1>9, <2>2, <2>3
<1>10. task'.req # 0 => orderReq'[task'.req]
  BY <1>0, <1>1, <1>2 DEF LoggedInv
<1>11. used'.clashed = {}
  BY <1>5 DEF MoneyInv, ClashInv
<1> QED BY <1>6, <1>7, <1>8, <1>9, <1>10, <1>11, MoneyKept

LEMMA ClaimMoney ==
  ASSUME MoneyInv, DeliveryInv', LeaseInv', HandlerInv', Faults \subseteq {"local"},
         NEW p \in Proc, ClaimNextTask(p)
  PROVE  MoneyInv'
<1>0. /\ TypeOK /\ AttemptInv /\ StartInv /\ FiredInv /\ LoggedInv /\ PlanInv /\ RefundInv
      /\ "sameOwner" \notin Faults /\ \A d \in Claim : run[d].order \in Attempt
      /\ UNCHANGED <<order, orderReq, billable, used>>
  BY Types DEF MoneyInv, DeliveryInv, CreateInv, AttemptInv, ClaimNextTask, ledger, handlers
<1>1. PICK e \in Claim :
        /\ e = claims + 1 /\ Alone(e) /\ run'[e].pc = "claimed" /\ run'[e].proc = p
        /\ run'[e].order = task.order /\ run'[e].recovered = (task.status = "running")
        /\ run'[e].call = ClaimedCall /\ run'[e].req = task.req /\ run'[e].sent = "no"
        /\ run'[e].plan = "none" /\ task'.req = task.req /\ task'.owner = p
  BY <1>0, ClaimMoves
<1>2. run[e].pc = "none"
  <2>1. e > claims
    BY <1>0, <1>1, BoundAssumption DEF TypeOK
  <2> QED BY <1>0, <2>1 DEF StartInv
<1>3. \A d \in Claim \ {e} : run'[d] = run[d] /\ Calm(d)
  BY <1>1 DEF Alone, Calm
<1>4. \A a : (Unsent(a) => UnsentNow(a)) /\ (Free(a) => FreeNow(a))
  BY <1>1, <1>3 DEF Unsent, Fired, UnsentNow, Free, FreeNow
<1>5. /\ ClaimedCall \in NotStarted => UnsentNow(task.order)
      /\ task.status # "running" => UnsentNow(task.order)
  <2>1. /\ task.status = "queued" => Unsent(task.order)
        /\ task.call \in NotStarted => Unsent(task.order)
    BY <1>0 DEF FiredInv, Unsent, NotStarted
  <2>2. task.status \in {"queued", "running"}
    BY DEF ClaimNextTask, Claimable
  <2> QED BY <1>4, <2>1, <2>2 DEF ClaimedCall
<1>6. SoundNow(e)
  <2>1. task.req \in {0, task.order} /\ (task.req # 0 => orderReq[task.req])
    BY <1>0 DEF AttemptInv, RequestIdOfAttempt, LoggedInv
  <2> QED BY <1>0, <1>1, <1>5, <2>1 DEF SoundNow
<1>7. \A d \in Claim : SoundNow(d)
  <2> SUFFICES ASSUME NEW d \in Claim \ {e} PROVE SoundNow(d)
    BY <1>6
  <2> QED BY <1>0, <1>3, <1>4, CalmSound DEF Closed, ClosedNow
<1>8. \A a \in Attempt : orderReq'[a] =>
        billable' \/ ClosedNow(a) \/ \E d \in Claim : run'[d].pc = "logTask" /\ run'[d].order = a
  <2>1. \A d \in Claim : run[d].pc = "logTask" => run'[d] = run[d]
    BY <1>2, <1>3
  <2> QED BY <1>0, <2>1 DEF LoggedInv, Closed, ClosedNow
<1>9. \A a \in Attempt \ used'.resolved : order'[a] = "refunded" => FreeNow(a)
  BY <1>0, <1>4 DEF RefundInv
<1>10. \A d \in Claim : ~(run'[d].pc = "dispatch" /\ Held(d)')
  <2>1. \A d \in Claim : Live(d) => run[d].proc # p
    BY <1>0 DEF ClaimNextTask
  <2> QED BY <1>1, <1>3, <2>1 DEF Held, Live
<1>11. task'.req # 0 => orderReq'[task'.req]
  BY <1>0, <1>1 DEF LoggedInv
<1>12. used'.clashed = {}
  BY <1>0 DEF MoneyInv, ClashInv
<1> QED BY <1>7, <1>8, <1>9, <1>10, <1>11, <1>12, MoneyKept

LEMMA RetryMoney ==
  ASSUME MoneyInv, DeliveryInv', LeaseInv', HandlerInv', RetryTx PROVE MoneyInv'
<1>0. /\ TypeOK /\ LoggedInv /\ PlanInv /\ RefundInv
      /\ \A d \in Claim : run[d].order \in Attempt /\ Calm(d)
      /\ UNCHANGED <<run, orderReq, billable, used>>
  BY Types DEF MoneyInv, DeliveryInv, CreateInv, AttemptInv, RetryTx, Calm
<1>1. \A a : (Unsent(a) => UnsentNow(a)) /\ (Free(a) => FreeNow(a))
  BY <1>0 DEF Unsent, Fired, UnsentNow, Free, FreeNow
<1>2. /\ \A a \in Attempt : /\ Closed(a) => ClosedNow(a)
                            /\ \A s \in {"refunded", "running"} : order'[a] = s => order[a] = s
      /\ task'.req # 0 => task'.req = task.req
      /\ \A d \in Claim : Held(d)' => Held(d)
  <2>1. CASE UNCHANGED <<task, order>>
    BY <1>0, <2>1 DEF Held, Closed, ClosedNow
  <2>2. ASSUME NEW b \in Attempt, NextAttempt(b), order' = [order EXCEPT ![b] = "reserved"],
               task'.status = "queued", task'.req = 0
        PROVE  /\ \A a \in Attempt : /\ Closed(a) => ClosedNow(a)
                                     /\ \A s \in {"refunded", "running"} : order'[a] = s => order[a] = s
               /\ task'.req # 0 => task'.req = task.req
               /\ \A d \in Claim : Held(d)' => Held(d)
    BY <1>0, <2>2, Types DEF NextAttempt, Held, Closed, ClosedNow
  <2> QED BY <2>1, <2>2 DEF RetryTx
<1>3. \A d \in Claim : SoundNow(d)
  BY <1>0, <1>1, <1>2, CalmSound
<1>4. \A a \in Attempt : orderReq'[a] =>
        billable' \/ ClosedNow(a) \/ \E d \in Claim : run'[d].pc = "logTask" /\ run'[d].order = a
  BY <1>0, <1>2 DEF LoggedInv
<1>5. \A a \in Attempt \ used'.resolved : order'[a] = "refunded" => FreeNow(a)
  BY <1>0, <1>1, <1>2 DEF RefundInv
<1>6. \A d \in Claim : run'[d].pc = "dispatch" /\ Held(d)' /\ run'[d].order \notin used'.resolved =>
        order'[run'[d].order] # "refunded"
  BY <1>0, <1>2 DEF RefundInv
<1>7. task'.req # 0 => orderReq'[task'.req]
  BY <1>0, <1>2 DEF LoggedInv
<1>8. used'.clashed = {}
  BY <1>0 DEF MoneyInv, ClashInv
<1> QED BY <1>3, <1>4, <1>5, <1>6, <1>7, <1>8, MoneyKept

LEMMA InitMoney == Init => MoneyInv
<1> SUFFICES ASSUME Init PROVE MoneyInv
  OBVIOUS
<1>1. \A c \in Claim : /\ run[c].pc = "none" /\ run[c].req = 0 /\ run[c].sent = "no"
                       /\ run[c].plan = "none"
  BY DEF Init, NoRun
<1>2. /\ task.status = "queued" /\ task.req = 0 /\ retry = NoProc /\ cancel.pc = "idle"
      /\ ClashInv
      /\ \A a \in Attempt : ~orderReq[a] /\ order[a] # "refunded"
  BY DEF Init, ClashInv
<1>3. LeaseInv
  BY <1>1 DEF LeaseInv, Live
<1>4. HandlerInv
  BY <1>2 DEF HandlerInv
<1>5. LoggedInv /\ RefundInv
  BY <1>1, <1>2 DEF LoggedInv, RefundInv
<1>6. PlanInv
  BY <1>1 DEF PlanInv, Early
<1> QED BY <1>2, <1>3, <1>4, <1>5, <1>6, InitDelivery DEF MoneyInv

LEMMA NextMoney ==
  ASSUME MoneyInv, Faults \subseteq {"local"}, [Next]_vars PROVE MoneyInv'
<1>0. CreateInv /\ DeliveryInv /\ AttemptInv /\ LeaseInv /\ HandlerInv /\ "sameOwner" \notin Faults
  BY DEF MoneyInv, DeliveryInv, CreateInv
<1>1. DeliveryInv' /\ CreateInv'
  BY <1>0, NextDelivery DEF DeliveryInv
<1>2. LeaseInv' /\ HandlerInv'
  BY <1>0, <1>1, NextLease, NextHandler
<1>3. CASE UNCHANGED vars
  BY <1>1, <1>2, <1>3
     DEF MoneyInv, LoggedInv, PlanInv, RefundInv, ClashInv, Unsent, Fired, Free, Closed, Held, vars
<1>4. CASE \E p \in Proc : ClaimNextTask(p)
  BY <1>1, <1>2, <1>4, ClaimMoney
<1>5. CASE RetryTx
  BY <1>1, <1>2, <1>5, RetryMoney
<1>6. CASE Next /\ ~RetryTx /\ ~\E p \in Proc : ClaimNextTask(p)
  <2>1. Framed
    BY <1>0, <1>6, NextFramed
  <2>2. CASE \E c \in Claim : Step(c) \/ Abandon(c) \/ Panic(c)
    BY <1>1, <1>2, <2>1, <2>2, StepsMoney
  <2>3. CASE ~\E c \in Claim : Step(c) \/ Abandon(c) \/ Panic(c)
    <3>1. Quiet
      BY <1>6, <2>3 DEF Next, Quiet
    <3> QED BY <1>1, <1>2, <2>1, <3>1, QuietMoney
  <2> QED BY <2>2, <2>3
<1> QED BY <1>3, <1>4, <1>5, <1>6

(***************************************************************************)
(* The theorems.                                                           *)
(***************************************************************************)

\* Unless an administrator decided, the order of a refunded attempt was never
\* accepted by the provider, nor lost in a way that billingFailureUncertain
\* knows: whatever local statement fails, whatever process dies outside
\* LogAPICall, and whenever the user cancels and retries, no goroutine and no
\* cancellation gives money back for such work.  Without lapsing leases nobody
\* is refunded behind MarkBillingRunning's conflict: that exception is empty.
THEOREM RefundCorrect ==
  ASSUME Faults \subseteq {"local"}
  PROVE  Spec => [](NoRefundOfKnownRequest /\ used.clashed = {})
<1>1. MoneyInv => NoRefundOfKnownRequest /\ used.clashed = {}
  BY DEF MoneyInv, ClashInv, RefundInv, Free, NoRefundOfKnownRequest, Excused, SentFor
<1> QED BY <1>1, InitMoney, NextMoney, PTL DEF Spec

\* A task that has delivered its result has not been refunded by itself.
THEOREM DeliveredCorrect ==
  ASSUME Faults \subseteq {"local"} PROVE Spec => []DeliveredNotRefunded
<1>1. MoneyInv => DeliveredNotRefunded
  <2> SUFFICES ASSUME MoneyInv, task.status = "succeeded", task.order \notin used.resolved,
                      order[task.order] = "refunded"
               PROVE  FALSE
    BY DEF DeliveredNotRefunded, Excused
  <2>1. task.order \in Attempt
    BY Types DEF MoneyInv, DeliveryInv, CreateInv, AttemptInv
  <2>2. Free(task.order) /\ Accepted(task.order)
    BY <2>1 DEF MoneyInv, RefundInv, DeliveryInv, SuccessInv
  <2> QED BY <2>2 DEF Free, Accepted
<1> QED BY <1>1, InitMoney, NextMoney, PTL DEF Spec

(***************************************************************************)
(* Leases that lapse under their Workers: a task without provider polls.   *)
(* Several goroutines of one attempt are then alive, and those that lost   *)
(* the row still act on the order.  What protects the money is that one    *)
(* who decides on a refund holds the row when it saves the terminal row,   *)
(* or has seen that the attempt's time is over; from then on nobody passes *)
(* the checkpoint for the attempt any more.  The exception is a goroutine  *)
(* whose MarkBillingRunning finds the order set running by another one     *)
(* after its SELECT: it refunds, and the attempt is excused.               *)
(***************************************************************************)

\* The row is past the attempt, or lets nobody pass the checkpoint for it.
Stopped(a) ==
  \/ task.order # a \/ task.status \in Terminal
  \/ task.status = "running" /\ task.age = MaxAge
\* Nothing of the attempt is at the provider, and nothing will be.
Dead(a) == order[a] # "none" /\ Free(a) /\ Stopped(a)

\* Places a task comes to only with provider polls, a provider queue, a panic or
\* a failing local statement.
Absent == {"salvage", "capacity", "capacityFailed", "logOrder", "poll", "panicked"}

\* The goroutine is about to fail its attempt without a review.
Verdict(c) ==
  \/ run[c].pc = "refresh" /\ run[c].outcome \notin {"ambiguous", "local", "success", "pending"}
  \/ run[c].pc = "judge" /\ run[c].outcome \notin {"ambiguous", "local"}
  \/ run[c].pc = "save" /\ run[c].plan = "refund"
\* The goroutine will refund the order, whatever becomes of the row.
Payback(c) == run[c].pc \in {"saveAlways", "billing"} /\ run[c].plan = "refund"

VerdictInv ==
  \A c \in Claim :
    /\ run[c].pc \notin Absent
    /\ run[c].pc = "logTask" => run[c].outcome = "success"
    /\ Live(c) /\ run[c].order = task.order => task.status # "queued"
    /\ Verdict(c) /\ Held(c) => Free(run[c].order)
    /\ Payback(c) => \/ Closed(run[c].order) \/ Dead(run[c].order)
                     \/ run[c].order \in Excused
DeadInv == \A a \in Attempt \ Excused : order[a] = "refunded" => Dead(a)

LapseInv == DeliveryInv /\ HandlerInv /\ VerdictInv /\ DeadInv

\* The same after a step.
StoppedNow(a) ==
  \/ task'.order # a \/ task'.status \in Terminal
  \/ task'.status = "running" /\ task'.age = MaxAge
DeadNow(a) == order'[a] # "none" /\ FreeNow(a) /\ StoppedNow(a)
VerdictNow(c) ==
  \/ run'[c].pc = "refresh" /\ run'[c].outcome \notin {"ambiguous", "local", "success", "pending"}
  \/ run'[c].pc = "judge" /\ run'[c].outcome \notin {"ambiguous", "local"}
  \/ run'[c].pc = "save" /\ run'[c].plan = "refund"
PaybackNow(c) == run'[c].pc \in {"saveAlways", "billing"} /\ run'[c].plan = "refund"
JudgedNow(c) ==
  /\ run'[c].pc \notin Absent
  /\ run'[c].pc = "logTask" => run'[c].outcome = "success"
  /\ VerdictNow(c) /\ Held(c)' => FreeNow(run'[c].order)
  /\ PaybackNow(c) => \/ ClosedNow(run'[c].order) \/ DeadNow(run'[c].order)
                      \/ run'[c].order \in Excused'

LEMMA LapseKept ==
  ASSUME DeliveryInv', HandlerInv',
         \A d \in Claim : Live(d)' /\ run'[d].order = task'.order => task'.status # "queued",
         \A d \in Claim : JudgedNow(d),
         \A a \in Attempt \ Excused' : order'[a] = "refunded" => DeadNow(a)
  PROVE  LapseInv'
<1>1. VerdictInv'
  BY DEF VerdictInv, JudgedNow, Verdict, VerdictNow, Payback, PaybackNow, Free, FreeNow,
         Closed, ClosedNow, Dead, DeadNow, Stopped, StoppedNow
<1>2. DeadInv'
  BY DEF DeadInv, Dead, DeadNow, Free, FreeNow, Stopped, StoppedNow
<1> QED BY <1>1, <1>2 DEF LapseInv

\* The age of a running attempt is taken back by a busy account's queue only.
LEMMA LateKept ==
  ASSUME TypeOK, Next, ~RetryTx, \A c \in Claim : ~Capacity(c), task.age = MaxAge
  PROVE  task'.age = MaxAge
<1>0. task \in Row /\ MaxAge \in Nat
  BY Types, BoundAssumption
<1>1. ASSUME NEW x, \/ task' = task
                    \/ task' = [task EXCEPT !.call = x]
                    \/ task' = [task EXCEPT !.lease = x]
                    \/ task' = [task EXCEPT !.due = x]
                    \/ task' = [task EXCEPT !.ckpt = x]
                    \/ task' = [task EXCEPT !.req = x]
                    \/ task' = [task EXCEPT !.req = x, !.due = FALSE]
                    \/ task' = [task EXCEPT !.age = MaxAge]
      PROVE  task'.age = MaxAge
  BY <1>0, <1>1 DEF Row
<1>2. /\ CancelledRow.age = task.age /\ DeferredRow.age = task.age /\ DeferredRow \in Row
      /\ \A c \in Claim : \A status : SavedRow(c, status).age = task.age
  BY <1>0, DeferredRowType DEF CancelledRow, DeferredRow, SavedRow, Row
<1>3. ASSUME NEW c \in Claim, Defer(c) PROVE task'.age = MaxAge
  <2>1. task' = [DeferredRow EXCEPT !.age = IF Late THEN @ ELSE @ + 1] \/ task' = task
    BY <1>3 DEF Defer
  <2>2. Late
    BY DEF Late
  <2> QED BY <1>2, <2>1, <2>2 DEF Row
<1>4. ASSUME NEW c \in Claim,
             \/ Hydrate(c) \/ Decide(c) \/ CapacityFailed(c) \/ PrepareClaimedTaskProviderCall(c)
             \/ MarkBillingRead(c) \/ MarkBillingRunning(c) \/ Dispatch(c) \/ Send(c) \/ LogOrder(c)
             \/ LogTask(c) \/ Poll(c) \/ Refresh(c) \/ Persist(c) \/ Salvage(c) \/ Reread(c) \/ Checkpoint(c) \/ Settle(c)
      PROVE  task'.age = MaxAge
  BY <1>1, <1>2, <1>4
     DEF Hydrate, Decide, CapacityFailed, PrepareClaimedTaskProviderCall, MarkBillingRead,
         MarkBillingRunning, Dispatch,
         Send, LogOrder, LogTask, Poll, Refresh, Persist, Salvage, Reread, Checkpoint, Settle
<1>5. ASSUME NEW c \in Claim,
             \/ JudgeFailure(c) \/ Conflict(c) \/ Billing(c) \/ PanicJudge(c) \/ Abandon(c)
             \/ Panic(c) \/ RenewTaskLease(c) \/ Complete(c) \/ SaveTerminal(c) \/ SaveAlways(c)
      PROVE  task'.age = MaxAge
  <2>1. CASE JudgeFailure(c) \/ Conflict(c) \/ Billing(c) \/ PanicJudge(c) \/ Abandon(c) \/ Panic(c)
    BY <1>1, <1>2, <2>1 DEF JudgeFailure, Conflict, Billing, PanicJudge, Abandon, Panic
  <2>2. CASE RenewTaskLease(c)
    BY <1>1, <2>2 DEF RenewTaskLease
  <2>3. CASE Complete(c) \/ SaveTerminal(c) \/ SaveAlways(c)
    <3>1. task' = task \/ \E status : task' = SavedRow(c, status)
      BY <2>3 DEF Complete, SaveTerminal, SaveAlways
    <3> QED BY <1>1, <1>2, <3>1
  <2> QED BY <1>5, <2>1, <2>2, <2>3
<1>6. ASSUME \/ \E p \in Proc : Crash(p) \/ CancelRead(p) \/ RetryCheck(p)
             \/ \E a \in Attempt : ResolveBillingOrder(a)
             \/ LeaseExpires \/ Timeout \/ PollDue \/ CancelStep
      PROVE  task'.age = MaxAge
  BY <1>1, <1>2, <1>6
     DEF Crash, CancelRead, RetryCheck, ResolveBillingOrder, LeaseExpires, Timeout, PollDue,
         CancelStep, CancelQueued, CancelSoft, CancelHard, CancelReread, CancelFails,
         CancelRefund, CancelReview
<1>7. ASSUME NEW p \in Proc, ClaimNextTask(p) PROVE task'.age = MaxAge
  BY <1>0, <1>7 DEF ClaimNextTask, Row
<1> QED BY <1>3, <1>4, <1>5, <1>6, <1>7 DEF Next, Step

LEMMA StoppedKept ==
  ASSUME LapseInv, Framed, Next, ~RetryTx, NEW a, Stopped(a) PROVE StoppedNow(a)
<1>0. TypeOK /\ TypeOK' /\ \A c \in Claim : ~Capacity(c)
  BY DEF LapseInv, DeliveryInv, CreateInv, AttemptInv, Framed, VerdictInv, Absent, Capacity, At
<1>1. task'.order = task.order /\ (task.status \in Terminal => task'.status = task.status)
  BY DEF Framed, RowKeeps
<1>2. CASE task.status = "running" /\ task.age = MaxAge
  <2>1. task'.age = MaxAge
    BY <1>0, <1>2, LateKept
  <2>2. task'.status \in Status \ {"queued"}
    BY <1>0, <1>2 DEF Framed, TypeOK, Row
  <2> QED BY <2>1, <2>2 DEF StoppedNow, Status, Terminal
<1> QED BY <1>1, <1>2 DEF Stopped, StoppedNow

\* Only who holds the row passes the checkpoint, and only in time.
Fires(c) == Held(c) /\ ~Late /\ run'[c].pc = "send"

\* What is dead stays dead.
LEMMA DeadKept ==
  ASSUME LapseInv, Framed, NEW c \in Claim, Live(c), NEW a \in Attempt, Dead(a),
         Free(a) => FreeNow(a) \/ (a = run[c].order /\ Fires(c)),
         Stopped(a) => StoppedNow(a)
  PROVE  DeadNow(a)
<1>1. ~(a = run[c].order /\ Fires(c))
  <2> SUFFICES ASSUME a = run[c].order, Fires(c) PROVE FALSE
    OBVIOUS
  <2>1. task.order = a /\ task.status = "running" /\ task.age # MaxAge
    BY DEF LapseInv, DeliveryInv, CreateInv, AttemptInv, HolderIsCurrent, Fires, Held, Late
  <2> QED BY <2>1 DEF Dead, Stopped, Terminal
<1>2. order'[a] # "none"
  BY DEF Framed, OrdersKeep, Dead
<1> QED BY <1>1, <1>2 DEF Dead, DeadNow

\* A goroutine that is left as it was is judged as it was.
LEMMA CalmJudged ==
  ASSUME TypeOK, VerdictInv, NEW d \in Claim, Calm(d), Live(d) /\ Held(d)' => Held(d),
         Live(d) /\ Held(d) /\ Free(run[d].order) => FreeNow(run[d].order),
         Closed(run[d].order) => ClosedNow(run[d].order),
         Dead(run[d].order) => DeadNow(run[d].order),
         Excused \subseteq Excused'
  PROVE  JudgedNow(d)
<1>1. run'[d].pc \notin Absent /\ (run'[d].pc = "logTask" => run'[d].outcome = "success")
  BY DEF VerdictInv, Calm
<1>2. VerdictNow(d) <=> Verdict(d)
  BY DEF VerdictNow, Verdict, Calm
<1>3. Verdict(d) => Live(d)
  BY DEF Verdict, Live
<1>4. PaybackNow(d) <=> Payback(d)
  BY DEF PaybackNow, Payback, Calm
<1> QED BY <1>1, <1>2, <1>3, <1>4 DEF VerdictInv, JudgedNow, Calm

LEMMA QueuedKept ==
  ASSUME LapseInv, Framed, NEW d \in Claim, Live(d)', run'[d].order = task'.order
  PROVE  task'.status # "queued"
BY DEF LapseInv, VerdictInv, Framed, GoroutinesKeep, RowKeeps

LEMMA StepLapse ==
  ASSUME LapseInv, DeliveryInv', HandlerInv', Framed, NEW c \in Claim, Live(c), Alone(c),
         run'[c].order = run[c].order, Excused \subseteq Excused', JudgedNow(c),
         \A a \in Attempt : Free(a) => FreeNow(a) \/ (a = run[c].order /\ Fires(c)),
         \A a \in Attempt : Stopped(a) => StoppedNow(a),
         \A a \in Attempt \ {run[c].order} : order'[a] = order[a],
         Closed(run[c].order) => ClosedNow(run[c].order),
         order'[run[c].order] = "refunded" =>
           \/ order[run[c].order] = "refunded" \/ DeadNow(run[c].order)
           \/ run[c].order \in Excused'
  PROVE  LapseInv'
<1>0. TypeOK /\ AttemptInv /\ VerdictInv /\ DeadInv /\ \A d \in Claim : run[d].order \in Attempt
  BY Types DEF LapseInv, DeliveryInv, CreateInv, AttemptInv
<1>1. \A a \in Attempt : Dead(a) => DeadNow(a)
  BY DeadKept
<1>2. \A a \in Attempt : Closed(a) => ClosedNow(a)
  BY DEF Closed, ClosedNow
<1>3. ASSUME NEW d \in Claim \ {c} PROVE JudgedNow(d)
  <2>1. Calm(d)
    BY DEF Alone, Calm
  <2>2. ASSUME Live(d), Held(d)' PROVE Held(d)
    <3>1. Live(d)'
      BY <2>1, <2>2 DEF Calm, Live
    <3> QED BY <1>0, <2>2, <3>1, HeldBefore
  <2>3. ASSUME Live(d), Held(d), Free(run[d].order) PROVE FreeNow(run[d].order)
    <3>1. ~Fires(c)
      BY <1>0, <2>3, HolderAlone DEF Fires
    <3> QED BY <1>0, <2>3, <3>1
  <2> QED BY <1>0, <1>1, <1>2, <2>1, <2>2, <2>3, CalmJudged
<1>4. \A a \in Attempt \ Excused' : order'[a] = "refunded" => DeadNow(a)
  BY <1>0, <1>1 DEF DeadInv
<1> QED BY <1>3, <1>4, QueuedKept, LapseKept

(***************************************************************************)
(* The goroutine, action by action.                                        *)
(***************************************************************************)

Poised(c) ==
  /\ LapseInv /\ DeliveryInv' /\ HandlerInv' /\ Framed /\ Live(c)
  /\ Excused \subseteq Excused'
  /\ \A a \in Attempt : Stopped(a) => StoppedNow(a)
  /\ ~Pollable /\ Faults \subseteq {"lapse", "crashInLog"}

LEMMA PoisedFacts ==
  ASSUME NEW c \in Claim, Poised(c)
  PROVE  /\ TypeOK /\ CreateInv /\ FiredInv /\ AheadInv /\ AttemptInv /\ VerdictInv /\ ~LocalFault
         /\ ~Queued /\ ~Pollable /\ run[c].order \in Attempt
         /\ order[run[c].order] \in OrderStatus \ {"none"}
         /\ task.order = run[c].order => task.status # "queued"
         /\ Live(c)' /\ Held(c)' => Held(c)
<1>1. /\ TypeOK /\ CreateInv /\ FiredInv /\ AheadInv /\ AttemptInv /\ VerdictInv /\ StartInv
      /\ Live(c) /\ Framed
  BY DEF Poised, LapseInv, DeliveryInv, CreateInv, AttemptInv
<1>2. ~LocalFault /\ ~Queued /\ ~Pollable
  BY SwitchAssumption DEF Poised, LocalFault
<1>3. run[c].order \in Attempt /\ order[run[c].order] \in OrderStatus \ {"none"}
  BY <1>1, Types DEF StartInv, Live
<1>4. Live(c)' /\ Held(c)' => Held(c)
  BY <1>1, HeldBefore
<1> QED BY <1>1, <1>2, <1>3, <1>4 DEF VerdictInv

\* A step that leaves the orders alone and does not pass the checkpoint.
LEMMA QuietStepLapse ==
  ASSUME NEW c \in Claim, Poised(c), Moves(c), UNCHANGED order, JudgedNow(c) PROVE LapseInv'
<1>1. \A a \in Attempt : Free(a) => FreeNow(a)
  BY MovesKeep
<1>2. Closed(run[c].order) => ClosedNow(run[c].order)
  BY DEF Closed, ClosedNow
<1> QED BY <1>1, <1>2, PoisedFacts, StepLapse DEF Poised, Moves

\* ... and neither judges the attempt nor plans a refund.
Innocent(c) ==
  /\ run'[c].pc \notin Absent \cup {"logTask"}
  /\ \/ run'[c].pc \notin {"refresh", "judge", "save", "saveAlways", "billing"}
     \/ run'[c].pc = "refresh" /\ run'[c].outcome \in {"ambiguous", "success"}
     \/ run'[c].pc = "judge" /\ run'[c].outcome \in {"ambiguous", "local"}
     \/ run'[c].pc \in {"save", "saveAlways", "billing"} /\ run'[c].plan # "refund"

LEMMA InnocentLapse ==
  ASSUME NEW c \in Claim, Poised(c), Moves(c), UNCHANGED order, Innocent(c) PROVE LapseInv'
<1>1. JudgedNow(c)
  BY DEF Innocent, JudgedNow, VerdictNow, PaybackNow
<1> QED BY <1>1, QuietStepLapse

LEMMA OverLapse ==
  ASSUME NEW c \in Claim, Poised(c), Over(c), UNCHANGED order PROVE LapseInv'
BY InnocentLapse DEF Over, Moves, Innocent, Absent

LEMMA GoesLapse ==
  ASSUME NEW c \in Claim, Poised(c), UNCHANGED order,
         NEW pc \in Pc \ (Absent \cup {"send", "logTask"}), Goes(c, pc),
         \/ pc \notin {"refresh", "judge", "save", "saveAlways", "billing"}
         \/ pc = "refresh" /\ run'[c].outcome \in {"ambiguous", "success"}
         \/ pc = "judge" /\ run'[c].outcome \in {"ambiguous", "local"}
         \/ pc \in {"save", "saveAlways", "billing"} /\ run'[c].plan # "refund"
  PROVE  LapseInv'
BY InnocentLapse DEF Goes, Same, Moves, Innocent, Absent

LEMMA HydrateLapse ==
  ASSUME NEW c \in Claim, Poised(c), Hydrate(c) PROVE LapseInv'
<1>0. UNCHANGED order /\ TypeOK
  BY PoisedFacts DEF Hydrate, ledger
<1>1. Over(c) \/ (Alone(c) /\ Same(c) /\ run'[c].pc = "decide")
  BY <1>0, HydrateMoves DEF Goes
<1>2. CASE Over(c)
  BY <1>0, <1>2, OverLapse
<1>3. CASE Alone(c) /\ Same(c) /\ run'[c].pc = "decide"
  BY <1>0, <1>3, InnocentLapse DEF Same, Moves, Innocent, Absent
<1> QED BY <1>1, <1>2, <1>3

\* A recovered attempt whose time is over and whose order is still reserved is
\* dead: nobody has passed the checkpoint, and nobody passes it any more.
LEMMA DecideLapse ==
  ASSUME NEW c \in Claim, Poised(c), Decide(c) PROVE LapseInv'
<1>0. UNCHANGED <<task, order>> /\ TypeOK /\ run[c].pc = "decide"
  BY PoisedFacts DEF Decide, At, ledger
<1>1. ASSUME Goes(c, "prepare") \/ (Goes(c, "saveAlways") /\ run'[c].plan # "refund") PROVE LapseInv'
  BY <1>0, <1>1, GoesLapse DEF Pc, Absent
<1>2. ASSUME Goes(c, "saveAlways"), Overdue(c) PROVE LapseInv'
  <2>1. Moves(c) /\ run'[c].order = run[c].order
    BY <1>2 DEF Goes, Same, Moves
  <2>2. Free(run[c].order)
    BY <1>2, PoisedFacts DEF Overdue, FiredInv, Fired, Free
  <2>3. Stopped(run[c].order)
    BY <1>2, PoisedFacts, Types DEF Overdue, Late, Stopped, Row, Status, Terminal
  <2>4. DeadNow(run[c].order)
    BY <1>0, <2>1, <2>2, <2>3, PoisedFacts, MovesKeep DEF DeadNow, Poised
  <2>5. JudgedNow(c)
    BY <1>2, <2>1, <2>4 DEF JudgedNow, VerdictNow, Goes, Absent
  <2> QED BY <1>0, <2>1, <2>5, QuietStepLapse
<1>3. ~Goes(c, "capacity")
  BY <1>0, PoisedFacts, Types DEF Decide, Conclude, Goes, Goroutine
<1> QED BY <1>0, <1>1, <1>2, <1>3, DecideMoves

LEMMA PrepareLapse ==
  ASSUME NEW c \in Claim, Poised(c), PrepareClaimedTaskProviderCall(c) PROVE LapseInv'
<1>0. UNCHANGED order /\ TypeOK
  BY PoisedFacts DEF PrepareClaimedTaskProviderCall, ledger
<1>1. Over(c) \/ (Alone(c) /\ Same(c) /\ run'[c].pc = "bill")
  BY <1>0, PrepareMoves
<1>2. CASE Over(c)
  BY <1>0, <1>2, OverLapse
<1>3. CASE Alone(c) /\ Same(c) /\ run'[c].pc = "bill"
  BY <1>0, <1>3, InnocentLapse DEF Same, Moves, Innocent, Absent
<1> QED BY <1>1, <1>2, <1>3

LEMMA ReadLapse ==
  ASSUME NEW c \in Claim, Poised(c), MarkBillingRead(c) PROVE LapseInv'
<1>0. UNCHANGED order /\ TypeOK /\ ~Pollable /\ ~LocalFault /\ "billing" \notin Faults
  BY PoisedFacts DEF Poised, MarkBillingRead, ledger
<1>1. Goto(c, "dispatch") \/ Goto(c, "mark")
  BY <1>0 DEF MarkBillingRead, ProviderPc
<1>2. Goes(c, "dispatch") \/ Goes(c, "mark")
  BY <1>0, <1>1, GotoMoves
<1> QED BY <1>0, <1>2, GoesLapse DEF Pc, Absent

\* An order that MarkBillingRunning refuses is closed, or running for another
\* Worker.
LEMMA BillLapse ==
  ASSUME NEW c \in Claim, Poised(c), MarkBillingRunning(c) PROVE LapseInv'
<1>0. /\ TypeOK /\ run[c].order \in Attempt /\ order[run[c].order] \in OrderStatus \ {"none"}
      /\ ~Pollable /\ ~LocalFault
  BY PoisedFacts DEF Poised
<1>1. CASE /\ order[run[c].order] = "reserved"
           /\ order' = [order EXCEPT ![run[c].order] = "running"]
           /\ Goto(c, ProviderPc(c))
  <2>1. Goes(c, "dispatch")
    BY <1>0, <1>1, GotoMoves DEF ProviderPc
  <2>2. Moves(c) /\ run'[c].order = run[c].order /\ JudgedNow(c)
    BY <2>1 DEF Goes, Same, Moves, JudgedNow, VerdictNow, PaybackNow, Absent
  <2>3. \A a \in Attempt : Free(a) => FreeNow(a)
    BY <2>2, MovesKeep
  <2>4. /\ order'[run[c].order] = "running"
        /\ \A a \in Attempt \ {run[c].order} : order'[a] = order[a]
    BY <1>0, <1>1, Types
  <2>5. ~Closed(run[c].order)
    BY <1>1 DEF Closed
  <2> QED BY <2>2, <2>3, <2>4, <2>5, StepLapse DEF Poised, Moves
<1>2. CASE /\ order[run[c].order] # "reserved" /\ BillingFailed(c) /\ UNCHANGED order
           /\ order[run[c].order] = "running" =>
                used' = [used EXCEPT !.clashed = @ \cup {run[c].order}]
  <2>1. Goes(c, "saveAlways")
    BY <1>0, <1>2, ConcludeMoves DEF BillingFailed
  <2>2. ClosedNow(run[c].order) \/ run[c].order \in Excused'
    <3>1. CASE order[run[c].order] = "running"
      BY <1>0, <1>2, <3>1 DEF Excused, TypeOK
    <3>2. CASE order[run[c].order] # "running"
      BY <1>0, <1>2, <3>2 DEF ClosedNow, OrderStatus
    <3> QED BY <3>1, <3>2
  <2>3. Moves(c) /\ JudgedNow(c)
    BY <2>1, <2>2 DEF Goes, Same, Moves, JudgedNow, VerdictNow, Absent
  <2> QED BY <1>2, <2>3, QuietStepLapse
<1> QED BY <1>0, <1>1, <1>2 DEF MarkBillingRunning

\* Who is stopped at the checkpoint while it holds the row is the first of its
\* attempt to come there.
LEMMA DispatchLapse ==
  ASSUME NEW c \in Claim, Poised(c), Dispatch(c) PROVE LapseInv'
<1>0. UNCHANGED order /\ TypeOK /\ run[c].pc = "dispatch" /\ Live(c)
  BY PoisedFacts DEF Dispatch, At, ledger, Live
<1>1. CASE MayDispatch(c) /\ ~Late /\ Goto(c, "send")
  <2>1. Goes(c, "send")
    BY <1>0, <1>1, GotoMoves
  <2>2. Alone(c) /\ run'[c].order = run[c].order /\ JudgedNow(c)
    BY <2>1 DEF Goes, Same, JudgedNow, VerdictNow, PaybackNow, Absent
  <2>3. Fires(c)
    BY <1>1, <2>1 DEF Fires, MayDispatch, HeldFresh, Goes
  <2>4. \A a \in Attempt : a # run[c].order /\ Free(a) => FreeNow(a)
    BY <2>1 DEF Goes, Same, Alone, Free, FreeNow
  <2>5. Closed(run[c].order) => ClosedNow(run[c].order)
    BY <1>0 DEF Closed, ClosedNow
  <2> QED BY <1>0, <2>2, <2>3, <2>4, <2>5, PoisedFacts, StepLapse DEF Poised
<1>2. CASE Answer(c, "refresh", "notSent")
  <2>1. Goes(c, "refresh")
    BY <1>0, <1>2, AnswerMoves
  <2>2. Moves(c) /\ run'[c].order = run[c].order /\ Live(c)'
    BY <2>1 DEF Goes, Same, Moves, Live
  <2>3. Held(c) => Free(run[c].order)
    BY <1>0, PoisedFacts DEF AheadInv, Unsent, Fired, Free
  <2>4. JudgedNow(c)
    BY <2>1, <2>2, <2>3, PoisedFacts, MovesKeep DEF Goes, JudgedNow, PaybackNow, Absent
  <2> QED BY <1>0, <2>2, <2>4, QuietStepLapse
<1> QED BY <1>1, <1>2 DEF Dispatch

\* A refused or broken request was the only one of its attempt.
LEMMA SendLapse ==
  ASSUME NEW c \in Claim, Poised(c), Send(c) PROVE LapseInv'
<1>0. UNCHANGED order /\ TypeOK /\ run[c].pc = "send" /\ ~Pollable
  BY PoisedFacts DEF Send, At, ledger
<1>1. /\ Alone(c) /\ run'[c].order = run[c].order
      /\ \/ run'[c].pc = "logTask" /\ run'[c].outcome = "success"
         \/ run'[c].pc = "refresh" /\ run'[c].sent \in {"refused", "broken"}
         \/ run'[c].pc = "refresh" /\ run'[c].outcome = "ambiguous"
  BY <1>0, SendMoves
<1>2. Moves(c)
  BY <1>0, <1>1 DEF Moves
<1>3. run'[c].sent \in {"refused", "broken"} /\ run'[c].pc = "refresh" => FreeNow(run[c].order)
  <2>1. \A d \in Claim \ {c} : run[d].order = run[c].order => ~Fired(d)
    BY <1>0, PoisedFacts DEF FiredInv, Fired
  <2> QED BY <1>1, <2>1 DEF FreeNow, Alone, Fired
<1>4. JudgedNow(c)
  BY <1>1, <1>3 DEF JudgedNow, VerdictNow, PaybackNow, Absent
<1> QED BY <1>0, <1>2, <1>4, QuietStepLapse

LEMMA RefreshLapse ==
  ASSUME NEW c \in Claim, Poised(c), Refresh(c) PROVE LapseInv'
<1>0. UNCHANGED order /\ TypeOK /\ run[c].pc = "refresh"
  BY PoisedFacts DEF Refresh, At, ledger
<1>1. /\ Alone(c) /\ Same(c) /\ run'[c].outcome = run[c].outcome
      /\ \/ run'[c].pc = "judge" /\ run[c].outcome \notin {"pending", "success"}
         \/ run'[c].pc \in {"defer", "persist"}
  BY <1>0, RefreshMoves
<1>2. Moves(c) /\ run'[c].order = run[c].order /\ Live(c)'
  BY <1>1 DEF Moves, Same, Live
<1>3. Verdict(c) /\ Held(c) => Free(run[c].order)
  BY PoisedFacts DEF VerdictInv
<1>4. JudgedNow(c)
  BY <1>0, <1>1, <1>2, <1>3, PoisedFacts, MovesKeep
     DEF JudgedNow, VerdictNow, Verdict, PaybackNow, Absent
<1> QED BY <1>0, <1>2, <1>4, QuietStepLapse

\* A judged failure is refunded without a review if the provider has refused, or
\* was not asked.
LEMMA JudgeLapse ==
  ASSUME NEW c \in Claim, Poised(c), JudgeFailure(c) PROVE LapseInv'
<1>0. UNCHANGED order /\ TypeOK /\ run[c].pc = "judge"
  BY PoisedFacts DEF JudgeFailure, At, ledger
<1>1. CASE Return(c)
  BY <1>0, <1>1, ReturnMoves, OverLapse
<1>2. ASSUME NEW end, Conclude(c, "save", end, FailurePlan(c, end)) PROVE LapseInv'
  <2>1. Goes(c, "save") /\ run'[c].plan = FailurePlan(c, end)
    BY <1>0, <1>2, ConcludeMoves
  <2>2. Moves(c) /\ run'[c].order = run[c].order /\ Live(c)'
    BY <2>1 DEF Goes, Same, Moves, Live
  <2>3. run'[c].plan = "refund" => Verdict(c)
    BY <1>0, <2>1 DEF FailurePlan, ReviewRequired, Verdict
  <2>4. Verdict(c) /\ Held(c) => Free(run[c].order)
    BY PoisedFacts DEF VerdictInv
  <2>5. JudgedNow(c)
    BY <2>1, <2>2, <2>3, <2>4, PoisedFacts, MovesKeep DEF Goes, JudgedNow, VerdictNow, PaybackNow, Absent
  <2> QED BY <1>0, <2>2, <2>5, QuietStepLapse
<1> QED BY <1>1, <1>2 DEF JudgeFailure

\* The plan survives a save that finds the row still held, and the row is then
\* terminal; a plan that was made without the row holds whatever it says.
LEMMA SavingLapse ==
  ASSUME NEW c \in Claim, Poised(c), SaveTerminal(c) \/ SaveAlways(c) PROVE LapseInv'
<1>0. /\ UNCHANGED order /\ TypeOK /\ VerdictInv /\ ~LocalFault /\ run[c].order \in Attempt
      /\ SaveTerminal(c) => run[c].pc = "save"
      /\ SaveAlways(c) => run[c].pc = "saveAlways"
  BY PoisedFacts DEF SaveTerminal, SaveAlways, At, ledger
<1>1. CASE SaveTerminal(c) /\ Goto(c, "conflict")
  <2>1. Goes(c, "conflict")
    BY <1>0, <1>1, GotoMoves
  <2> QED BY <1>0, <2>1, GoesLapse DEF Pc, Absent
<1>2. ASSUME Goto(c, "billing"), SaveTerminal(c) => Held(c) /\ task' = SavedRow(c, run[c].end)
      PROVE  LapseInv'
  <2>1. Goes(c, "billing") /\ run'[c].plan = run[c].plan
    BY <1>0, <1>2, GotoMoves
  <2>2. Moves(c) /\ run'[c].order = run[c].order
    BY <2>1 DEF Goes, Same, Moves
  <2>3. CASE SaveAlways(c)
    <3>1. run[c].plan = "refund" =>
            Closed(run[c].order) \/ Dead(run[c].order) \/ run[c].order \in Excused'
      BY <1>0, <2>3 DEF VerdictInv, Payback, Poised
    <3>2. Dead(run[c].order) => DeadNow(run[c].order)
      BY <1>0, <2>2, MovesKeep, DeadKept DEF Poised
    <3>3. Closed(run[c].order) => ClosedNow(run[c].order)
      BY <1>0 DEF Closed, ClosedNow
    <3>4. JudgedNow(c)
      BY <2>1, <2>2, <3>1, <3>2, <3>3 DEF JudgedNow, VerdictNow, PaybackNow, Goes, Absent
    <3> QED BY <1>0, <2>2, <3>4, QuietStepLapse
  <2>4. CASE SaveTerminal(c)
    <3>1. run[c].plan = "refund" => Free(run[c].order)
      BY <1>0, <1>2, <2>4 DEF VerdictInv, Verdict
    <3>2. task'.status \in Terminal
      BY <1>0, <1>2, <2>4, SavedReq, Types DEF Terminal
    <3>3. run[c].plan = "refund" => DeadNow(run[c].order)
      BY <1>0, <2>2, <3>1, <3>2, PoisedFacts, MovesKeep DEF DeadNow, StoppedNow
    <3>4. JudgedNow(c)
      BY <2>1, <2>2, <3>3 DEF JudgedNow, VerdictNow, PaybackNow, Goes, Absent
    <3> QED BY <1>0, <2>2, <3>4, QuietStepLapse
  <2> QED BY <2>3, <2>4
<1>3. SaveAlways(c) => Goto(c, "billing") /\ ~SaveTerminal(c)
  BY <1>0 DEF SaveAlways
<1>4. SaveTerminal(c) => \/ Goto(c, "billing") /\ Held(c) /\ task' = SavedRow(c, run[c].end)
                         \/ Goto(c, "conflict")
  BY <1>0 DEF SaveTerminal
<1> QED BY <1>1, <1>2, <1>3, <1>4

LEMMA ResultLapse ==
  ASSUME NEW c \in Claim, Poised(c),
         \/ LogTask(c) \/ Defer(c) \/ Persist(c) \/ Salvage(c) \/ Reread(c) \/ Checkpoint(c)
         \/ Complete(c) \/ Conflict(c)
  PROVE  LapseInv'
<1>0. TypeOK /\ ~LocalFault /\ VerdictInv /\ ~Pollable
  BY PoisedFacts
<1>1. UNCHANGED order
  BY <1>0 DEF LogTask, Defer, Persist, Salvage, Reread, Checkpoint, Complete, Conflict, ledger
<1>2. ASSUME Return(c) PROVE LapseInv'
  BY <1>0, <1>1, <1>2, ReturnMoves, OverLapse
<1>3. ASSUME NEW pc \in {"reread", "checkpoint", "complete", "settle"}, Goes(c, pc) PROVE LapseInv'
  BY <1>1, <1>3, GoesLapse DEF Pc, Absent
<1>4. ASSUME Goes(c, "billing"), run'[c].plan # "refund" PROVE LapseInv'
  BY <1>1, <1>4, GoesLapse DEF Pc, Absent
<1>5. CASE LogTask(c)
  <2>1. run[c].outcome = "success" /\ Goto(c, "refresh")
    BY <1>0, <1>5 DEF LogTask, At, VerdictInv
  <2>2. Goes(c, "refresh") /\ run'[c].outcome = "success"
    BY <1>0, <2>1, GotoMoves
  <2> QED BY <1>1, <2>2, GoesLapse DEF Pc, Absent
<1>6. ~Salvage(c)
  BY <1>0 DEF Salvage, At, VerdictInv, Absent
<1>7. CASE Persist(c) \/ Reread(c)
  BY <1>0, <1>3, <1>4, <1>7, GotoMoves, ConcludeMoves DEF Persist, Reread
<1>8. CASE Checkpoint(c) \/ Complete(c)
  BY <1>0, <1>3, <1>4, <1>8, GotoMoves, CkptMoves, ConcludeMoves
     DEF Checkpoint, Complete, ResultConflict
<1>9. CASE Defer(c) \/ Conflict(c)
  BY <1>0, <1>2, <1>4, <1>9, ConcludeMoves DEF Defer, Conflict
<1> QED BY <1>5, <1>6, <1>7, <1>8, <1>9

\* A refund closes the order of a dead attempt.
LEMMA ClosingLapse ==
  ASSUME NEW c \in Claim, Poised(c), Settle(c) \/ Billing(c) PROVE LapseInv'
<1>0. /\ TypeOK /\ VerdictInv /\ run[c].order \in Attempt /\ run[c].pc \in {"settle", "billing"}
      /\ run[c].pc = "settle" => SettleFromExecution(run[c].order) \/ MarkUncertain(run[c].order)
  BY PoisedFacts DEF Settle, Billing, At
<1>1. Over(c)
  BY <1>0, ReturnMoves DEF Settle, Billing
<1>2. Moves(c) /\ run'[c].order = run[c].order /\ JudgedNow(c)
  BY <1>1 DEF Over, Moves, JudgedNow, VerdictNow, PaybackNow, Absent
<1>3. /\ \A a \in Attempt \ {run[c].order} : order'[a] = order[a]
      /\ Closed(run[c].order) => ClosedNow(run[c].order)
  BY <1>0, Types
     DEF Settle, Billing, SettleFromExecution, MarkUncertain, RefundFromExecution, OrderAfter,
         Closed, ClosedNow
<1>4. \A a \in Attempt : Free(a) => FreeNow(a)
  BY <1>2, MovesKeep
<1>5. order'[run[c].order] = "refunded" =>
        \/ order[run[c].order] = "refunded" \/ DeadNow(run[c].order)
        \/ run[c].order \in Excused'
  <2>1. CASE \/ SettleFromExecution(run[c].order) \/ MarkUncertain(run[c].order) \/ UNCHANGED order
    BY <1>0, <2>1, Types DEF SettleFromExecution, MarkUncertain, OrderAfter
  <2>2. CASE run[c].pc = "billing" /\ run[c].plan = "refund" /\ RefundFromExecution(run[c].order)
    <3>1. Closed(run[c].order) \/ Dead(run[c].order) \/ run[c].order \in Excused'
      BY <2>2, PoisedFacts DEF VerdictInv, Payback, Poised
    <3>2. CASE Dead(run[c].order)
      BY <1>0, <1>4, <3>2, DeadKept DEF Poised
    <3>3. CASE Closed(run[c].order)
      BY <1>0, <2>2, <3>3, Types DEF RefundFromExecution, OrderAfter, Closed
    <3> QED BY <3>1, <3>2, <3>3
  <2> QED BY <2>1, <2>2 DEF Settle, Billing, At
<1> QED BY <1>2, <1>3, <1>4, <1>5, StepLapse DEF Poised, Moves

LEMMA StepsLapse ==
  ASSUME LapseInv, DeliveryInv', HandlerInv', Framed, Next, ~RetryTx,
         ~Pollable, Faults \subseteq {"lapse", "crashInLog"},
         NEW c \in Claim, Step(c) \/ Abandon(c) \/ Panic(c)
  PROVE  LapseInv'
<1>0. Excused \subseteq Excused'
  <2>1. TypeOK
    BY DEF LapseInv, DeliveryInv, CreateInv, AttemptInv
  <2> QED BY <2>1, StepHandlers DEF Clashes, Excused, TypeOK
<1>1. Live(c)
  BY DEF Step, Hydrate, Decide, Capacity, CapacityFailed, PrepareClaimedTaskProviderCall,
         MarkBillingRead, MarkBillingRunning, Dispatch, Send, LogOrder, LogTask, Poll, Refresh,
         Defer, Persist, Salvage, Reread, Checkpoint, Complete, Settle, JudgeFailure, SaveTerminal, Conflict,
         SaveAlways, Billing, PanicJudge, Abandon, Panic, At, Live
<1>2. Poised(c)
  BY <1>0, <1>1, StoppedKept DEF Poised
<1>3. ~Panic(c) /\ ~Abandon(c)
  BY <1>2, PoisedFacts DEF Panic, Abandon
<1>4. ~(Capacity(c) \/ CapacityFailed(c) \/ LogOrder(c) \/ Poll(c) \/ PanicJudge(c))
  BY <1>2, PoisedFacts
     DEF VerdictInv, Absent, Capacity, CapacityFailed, LogOrder, Poll, PanicJudge, At
<1> QED BY <1>2, <1>3, <1>4, HydrateLapse, DecideLapse, PrepareLapse, ReadLapse, BillLapse,
           DispatchLapse, SendLapse, RefreshLapse, ResultLapse, JudgeLapse, SavingLapse, ClosingLapse
        DEF Step

(***************************************************************************)
(* Crashes, the clock, the handlers, claims and retries.                   *)
(***************************************************************************)

LEMMA QuietLapse ==
  ASSUME LapseInv, DeliveryInv', HandlerInv', Framed, Next, ~RetryTx, Quiet PROVE LapseInv'
<1>0. /\ TypeOK /\ AttemptInv /\ VerdictInv /\ DeadInv /\ DeliveryInv /\ HandlerInv
      /\ \A d \in Claim : run[d].order \in Attempt
  BY Types DEF LapseInv, DeliveryInv, CreateInv, AttemptInv
<1>1. \A d \in Claim :
        \/ Calm(d)
        \/ /\ run'[d].pc = "done" /\ run'[d].order = run[d].order /\ run'[d].sent = run[d].sent
           /\ run'[d].plan = "none"
  BY <1>0, QuietRun
<1>2. \A a : Free(a) => FreeNow(a)
  BY <1>1 DEF Calm, Free, FreeNow
<1>3. \A a \in Attempt : Dead(a) => DeadNow(a)
  BY <1>2, StoppedKept DEF Dead, DeadNow, Framed, OrdersKeep
<1>4. /\ Excused \subseteq Excused'
      /\ \A a \in Attempt : Closed(a) => ClosedNow(a)
      /\ \A a \in Attempt \ Excused' : order'[a] = "refunded" =>
           \/ order[a] = "refunded"
           \/ Unsent(a) /\ task.status = "cancelled" /\ task.order = a /\ task' = task
  BY <1>0, QuietOrder DEF Excused
<1>5. ASSUME NEW d \in Claim PROVE JudgedNow(d)
  <2>1. CASE Calm(d)
    <3>1. Live(d) /\ Held(d)' => Held(d)
      <4>1. Live(d) => Live(d)'
        BY <2>1 DEF Calm, Live
      <4> QED BY <1>0, <4>1, HeldBefore
    <3> QED BY <1>0, <1>2, <1>3, <1>4, <2>1, <3>1, CalmJudged
  <2>2. CASE run'[d].pc = "done"
    BY <2>2 DEF JudgedNow, VerdictNow, PaybackNow, Absent
  <2> QED BY <1>1, <2>1, <2>2
<1>6. ASSUME NEW a \in Attempt \ Excused', order'[a] = "refunded" PROVE DeadNow(a)
  <2>1. CASE order[a] = "refunded"
    BY <1>0, <1>3, <1>4, <1>6, <2>1 DEF DeadInv
  <2>2. CASE Unsent(a) /\ task.status = "cancelled" /\ task' = task
    <3>1. FreeNow(a)
      BY <1>2, <2>2 DEF Unsent, Fired, Free
    <3> QED BY <1>6, <2>2, <3>1 DEF DeadNow, StoppedNow, Terminal
  <2> QED BY <1>4, <1>6, <2>1, <2>2
<1> QED BY <1>5, <1>6, QueuedKept, LapseKept

\* A claim takes the row from everybody else, and starts before the checkpoint.
LEMMA ClaimLapse ==
  ASSUME LapseInv, DeliveryInv', HandlerInv', "sameOwner" \notin Faults, Next,
         NEW p \in Proc, ClaimNextTask(p)
  PROVE  LapseInv'
<1>0. /\ TypeOK /\ VerdictInv /\ DeadInv /\ StartInv /\ \A d \in Claim : run[d].order \in Attempt
      /\ UNCHANGED <<order, used>> /\ Excused' = Excused
  BY Types DEF LapseInv, DeliveryInv, CreateInv, AttemptInv, ClaimNextTask, ledger, handlers,
              Excused
<1>1. PICK e \in Claim :
        /\ e = claims + 1 /\ Alone(e) /\ run'[e].pc = "claimed" /\ run'[e].sent = "no"
        /\ task'.order = task.order /\ task'.status = "running" /\ task'.owner = p
  BY <1>0, ClaimMoves
<1>2. \A d \in Claim \ {e} : run'[d] = run[d] /\ Calm(d)
  BY <1>1 DEF Alone, Calm
<1>3. \A a : Free(a) => FreeNow(a)
  BY <1>1, <1>2 DEF Free, FreeNow
<1>4. \A a \in Attempt : Dead(a) => DeadNow(a)
  <2>1. task.age = MaxAge => task'.age = MaxAge
    BY <1>0, Types DEF ClaimNextTask, Row
  <2>2. \A a \in Attempt : Stopped(a) => StoppedNow(a)
    BY <1>1, <2>1 DEF Stopped, StoppedNow, ClaimNextTask, Claimable, Terminal
  <2> QED BY <1>0, <1>3, <2>2 DEF Dead, DeadNow
<1>5. ASSUME NEW d \in Claim PROVE JudgedNow(d)
  <2>1. CASE d = e
    BY <1>1, <2>1 DEF JudgedNow, VerdictNow, PaybackNow, Absent
  <2>2. CASE d # e
    <3>1. Live(d) => ~Held(d)'
      BY <1>0, <1>1, <1>2, <2>2 DEF ClaimNextTask, Held
    <3> QED BY <1>0, <1>2, <1>3, <1>4, <2>2, <3>1, CalmJudged DEF Closed, ClosedNow
  <2> QED BY <2>1, <2>2
<1>6. \A a \in Attempt \ Excused' : order'[a] = "refunded" => DeadNow(a)
  BY <1>0, <1>4 DEF DeadInv
<1> QED BY <1>1, <1>5, <1>6, LapseKept

\* A retry takes an order that no goroutine has.
LEMMA RetryLapse ==
  ASSUME LapseInv, DeliveryInv', HandlerInv', RetryTx PROVE LapseInv'
<1>0. /\ TypeOK /\ VerdictInv /\ DeadInv /\ StartInv
      /\ UNCHANGED <<run, used>> /\ Excused' = Excused
      /\ \A d \in Claim : run[d].order \in Attempt /\ Calm(d)
  BY Types DEF LapseInv, DeliveryInv, CreateInv, AttemptInv, RetryTx, Calm, Excused
<1>1. CASE UNCHANGED <<task, order>>
  BY <1>0, <1>1
     DEF LapseInv, VerdictInv, DeadInv, Verdict, Payback, Free, Closed, Dead, Stopped, Held, Live
<1>2. ASSUME NEW b \in Attempt, order[b] = "none", order' = [order EXCEPT ![b] = "reserved"],
             task'.order = b, task'.status = "queued"
      PROVE  LapseInv'
  <2>1. /\ \A a \in Attempt \ {b} : order'[a] = order[a]
        /\ order'[b] = "reserved"
    BY <1>0, <1>2, Types
  <2>2. \A a : Free(a) => FreeNow(a)
    BY <1>0 DEF Free, FreeNow
  <2>3. \A a \in Attempt : (Dead(a) => DeadNow(a)) /\ (Closed(a) => ClosedNow(a))
    BY <1>2, <2>1, <2>2 DEF Dead, DeadNow, StoppedNow, Closed, ClosedNow
  <2>4. \A d \in Claim : JudgedNow(d)
    <3>1. \A d \in Claim : ~Held(d)'
      BY <1>2 DEF Held
    <3> QED BY <1>0, <2>2, <2>3, <3>1, CalmJudged
  <2>5. \A a \in Attempt \ Excused' : order'[a] = "refunded" => DeadNow(a)
    BY <1>0, <2>1, <2>3 DEF DeadInv
  <2>6. \A d \in Claim : Live(d)' => run'[d].order # b
    BY <1>0, <1>2 DEF StartInv, Live
  <2> QED BY <1>2, <2>4, <2>5, <2>6, LapseKept
<1>3. ASSUME NEW b \in Attempt,
             task' = [status |-> "queued", order |-> b, call |-> "pending", req |-> 0,
                      ckpt |-> FALSE, owner |-> NoProc, lease |-> FALSE, due |-> TRUE, age |-> 0]
      PROVE  task'.order = b /\ task'.status = "queued"
  BY <1>3
<1> QED BY <1>1, <1>2, <1>3 DEF RetryTx, NextAttempt

LEMMA InitLapse == Init => LapseInv
<1> SUFFICES ASSUME Init PROVE LapseInv
  OBVIOUS
<1>1. /\ \A c \in Claim : run[c].pc = "none" /\ run[c].sent = "no"
      /\ retry = NoProc /\ cancel.pc = "idle" /\ \A a \in Attempt : order[a] # "refunded"
  BY DEF Init, NoRun
<1>2. HandlerInv /\ DeadInv
  BY <1>1 DEF HandlerInv, DeadInv
<1>3. VerdictInv
  BY <1>1 DEF VerdictInv, Verdict, Payback, Absent, Live
<1> QED BY <1>2, <1>3, InitDelivery DEF LapseInv

LEMMA NextLapse ==
  ASSUME LapseInv, ~Pollable, Faults \subseteq {"lapse", "crashInLog"}, [Next]_vars
  PROVE  LapseInv'
<1>0. /\ CreateInv /\ DeliveryInv /\ AttemptInv /\ HandlerInv
      /\ "sameOwner" \notin Faults /\ "overlap" \notin Faults
  BY DEF LapseInv, DeliveryInv, CreateInv
<1>1. DeliveryInv' /\ HandlerInv'
  BY <1>0, NextDelivery, NextHandler
<1>2. CASE UNCHANGED vars
  BY <1>1, <1>2
     DEF LapseInv, VerdictInv, DeadInv, Verdict, Payback, Free, Closed, Dead, Stopped, Held, Live,
         Excused, vars
<1>3. CASE Next /\ \E p \in Proc : ClaimNextTask(p)
  BY <1>0, <1>1, <1>3, ClaimLapse
<1>4. CASE RetryTx
  BY <1>1, <1>4, RetryLapse
<1>5. CASE Next /\ ~RetryTx /\ ~\E p \in Proc : ClaimNextTask(p)
  <2>1. Framed
    BY <1>0, <1>5, NextFramed
  <2>2. CASE \E c \in Claim : Step(c) \/ Abandon(c) \/ Panic(c)
    BY <1>1, <1>5, <2>1, <2>2, StepsLapse
  <2>3. CASE ~\E c \in Claim : Step(c) \/ Abandon(c) \/ Panic(c)
    <3>1. Quiet
      BY <1>5, <2>3 DEF Next, Quiet
    <3> QED BY <1>1, <1>5, <2>1, <3>1, QuietLapse
  <2> QED BY <2>2, <2>3
<1> QED BY <1>2, <1>3, <1>4, <1>5

\* A task without provider polls keeps its money right even when leases lapse
\* under live Workers, so that several goroutines work on one attempt: unless one
\* of them has taken the order another one set running for its own failure, a
\* refund by itself is only for an attempt whose request, if it left, was refused
\* or failed with an error the Worker takes for a refusal.
THEOREM LapseRefundCorrect ==
  ASSUME ~Pollable, Faults \subseteq {"lapse", "crashInLog"} PROVE Spec => []NoRefundOfKnownRequest
<1>1. LapseInv => NoRefundOfKnownRequest
  BY DEF LapseInv, DeadInv, Dead, Free, NoRefundOfKnownRequest, SentFor
<1> QED BY <1>1, InitLapse, NextLapse, PTL DEF Spec

\* ... and a result that one of them delivered is not refunded by another, with
\* the same exception.
THEOREM LapseDeliveredCorrect ==
  ASSUME ~Pollable, Faults \subseteq {"lapse", "crashInLog"} PROVE Spec => []DeliveredNotRefunded
<1>1. LapseInv => DeliveredNotRefunded
  <2> SUFFICES ASSUME LapseInv, task.status = "succeeded", task.order \notin Excused,
                      order[task.order] = "refunded"
               PROVE  FALSE
    BY DEF DeliveredNotRefunded
  <2>1. task.order \in Attempt
    BY Types DEF LapseInv, DeliveryInv, CreateInv, AttemptInv
  <2>2. Free(task.order) /\ Accepted(task.order)
    BY <2>1 DEF LapseInv, DeadInv, Dead, DeliveryInv, SuccessInv
  <2> QED BY <2>2 DEF Free, Accepted
<1> QED BY <1>1, InitLapse, NextLapse, PTL DEF Spec
====
