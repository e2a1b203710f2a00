-------------------------- MODULE CanvasGeneration --------------------------
(***************************************************************************)
(* A storyboard batch of paid generations on an open canvas: the batch     *)
(* scheduler (use-canvas-generation-batches.ts), the executor that posts   *)
(* and tracks a task (use-canvas-generation-executor.ts and its media and  *)
(* task-center calls) and the recovery of interrupted tasks                *)
(* (use-canvas-generation.ts).  They share the nodes of the canvas, which  *)
(* survive a reload of the page; what a run, a recovery, a dialog or the   *)
(* scheduler has read before an await does not, and may be stale after it. *)
(*                                                                         *)
(* Every node is an empty video slot with one item of the batch.  Queued   *)
(* and running tasks are one status here: no code below tells them apart.  *)
(***************************************************************************)
EXTENDS Naturals, FiniteSets, FiniteSetsExt

CONSTANTS
    Nodes,       \* target nodes of the batch
    OtherNodes,  \* whether the canvas has other nodes with generations
    Tasks,       \* bound: backend tasks, numbered in the order they are created
    MaxRetries,  \* bounds: confirmed retries,
    MaxLost,     \*   creations whose answer is lost,
    MaxReloads,
    MaxFaults    \*   queries and media writes that fail

ASSUME ConstantsOK ==
    /\ OtherNodes \in BOOLEAN /\ Tasks \subseteq Nat \ {0} /\ 0 \notin Nodes
    /\ {MaxRetries, MaxLost, MaxReloads, MaxFaults} \subseteq Nat

VARIABLES
    node,        \* metadata of each node: status, task, taskStatus (seen), content, taskRecoveryUncertain
    item,        \* batch item of each node
    run,         \* handleGenerateNode of each node; a controller is reserved while it runs
    stray,       \* creations of a node still under way that nothing in the page waits for
    task,        \* the backend's tasks
    rec,         \* recovery of each node
    due,         \* the page has just been loaded, so that recovery starts
    sched,       \* the waiting items scheduleWaitingItems has read before it lists the tasks
    asking,      \* retry that waits for its confirmation
    cancel,      \* task a cancellation of the node's item is under way for, 0 for none
    lost,        \* ghosts: nodes a creation of which had its answer lost,
    overlapped,  \*   nodes with two attempts followed at a time
    counts

page == <<node, item, run>>
ghosts == <<lost, overlapped>>
vars == <<page, stray, task, rec, due, sched, asking, cancel, ghosts, counts>>

TaskOrNone == Tasks \union {0}
Ended == {"succeeded", "failed", "cancelled"}

TypeOK ==
    /\ node \in [Nodes -> [status : {"idle", "loading", "success", "error"}, task : TaskOrNone,
                           seen : {"none", "running"} \union Ended, content : TaskOrNone,
                           uncertain : BOOLEAN]]
    /\ \A n \in Nodes : node[n].task = 0 <=> node[n].seen = "none"
    /\ item \in [Nodes -> [status : {"waiting", "submitting", "running"} \union Ended,
                           task : TaskOrNone, source : TaskOrNone]]
    /\ run \in [Nodes -> [pc : {"none", "prepare", "posted", "track", "store"},
                          aborted : BOOLEAN, task : TaskOrNone]]
    /\ stray \in [Nodes -> 0 .. MaxLost + MaxReloads]
    /\ task \in [Tasks -> [of : Nodes \union {0}, status : {"none", "running"} \union Ended]]
    /\ rec \in [Nodes -> [pc : {"none", "read", "track", "store"}, task : TaskOrNone]]
    /\ due \in BOOLEAN /\ sched \subseteq Nodes
    /\ asking \in [node : Nodes \union {0}, source : TaskOrNone]
    /\ cancel \in [Nodes -> TaskOrNone]

NoRun == [pc |-> "none", aborted |-> FALSE, task |-> 0]
NoRec == [pc |-> "none", task |-> 0]
NoQuestion == [node |-> 0, source |-> 0]

\* The batch has just been enqueued on empty slots.
Init ==
    /\ node = [n \in Nodes |-> [status |-> "idle", task |-> 0, seen |-> "none",
                                content |-> 0, uncertain |-> FALSE]]
    /\ item = [n \in Nodes |-> [status |-> "waiting", task |-> 0, source |-> 0]]
    /\ run = [n \in Nodes |-> NoRun] /\ stray = [n \in Nodes |-> 0]
    /\ task = [k \in Tasks |-> [of |-> 0, status |-> "none"]]
    /\ rec = [n \in Nodes |-> NoRec] /\ due = FALSE /\ sched = {}
    /\ asking = NoQuestion /\ cancel = [n \in Nodes |-> 0]
    /\ lost = {} /\ overlapped = {}
    /\ counts = [retries |-> 0, lost |-> 0, reloads |-> 0, faults |-> 0]

Counted(what, bound) ==
    counts[what] < bound /\ counts' = [counts EXCEPT ![what] = @ + 1]

TasksOf(n) == {k \in Tasks : task[k].of = n}
Busy(n) == run[n].pc # "none"

-----------------------------------------------------------------------------
(* What a change of the nodes becomes: the page reconciles the batch after *)
(* every one of them.                                                      *)

\* (mutant) a task that succeeded ends the item before the node has the media
Reconciled_Early(i, nd) ==
    IF i.status \in Ended THEN i
    ELSE IF nd.status = "error"
      THEN [status |-> IF nd.seen = "cancelled" THEN "cancelled" ELSE "failed",
            task |-> nd.task, source |-> IF nd.task # 0 THEN 0 ELSE i.source]
    ELSE IF nd.task # 0 THEN [status |-> nd.seen, task |-> nd.task, source |-> 0]
    ELSE i

Reconciled(i, nd) ==
    IF i.status \in Ended THEN i
    ELSE IF nd.status = "success" /\ nd.content # 0
      THEN [status |-> "succeeded", task |-> nd.task, source |-> 0]
    ELSE IF nd.status = "error"
      THEN [status |-> IF nd.seen = "cancelled" THEN "cancelled" ELSE "failed",
            task |-> nd.task, source |-> IF nd.task # 0 THEN 0 ELSE i.source]
    ELSE IF nd.task # 0
      THEN [status |-> IF nd.seen \in {"failed", "cancelled"} THEN nd.seen ELSE "running",
            task |-> nd.task, source |-> 0]
    ELSE i

\* A submission nobody in this page waits for may have reached the backend.
Unaccounted(i, nd, r) ==
    i.status = "submitting" /\ nd.task = 0 /\ nd.status \notin {"success", "error"} /\ r.pc = "none"

Locked(nd) == [nd EXCEPT !.status = "loading", !.uncertain = TRUE]

\* (mutant) such an item goes back to the queue
Commit_Requeues(nd, it, r) ==
    /\ run' = r
    /\ item' = [n \in Nodes |-> IF Unaccounted(it[n], nd[n], r[n])
                               THEN [it[n] EXCEPT !.status = "waiting"] ELSE Reconciled(it[n], nd[n])]
    /\ node' = nd

Commit(nd, it, r) ==
    /\ run' = r
    /\ item' = [n \in Nodes |-> Reconciled(it[n], nd[n])]
    /\ node' = [n \in Nodes |-> IF Unaccounted(it[n], nd[n], r[n]) THEN Locked(nd[n]) ELSE nd[n]]

CommitNode(n, nd) == Commit([node EXCEPT ![n] = nd], item, run)
EndRun(n, nd) == Commit([node EXCEPT ![n] = nd], item, [run EXCEPT ![n] = NoRun])

\* bindGenerationTask
Bound(nd, k, status) ==
    [status |-> IF status \in {"failed", "cancelled"} THEN "error"
                ELSE IF status = "succeeded" /\ nd.content # 0 THEN "success" ELSE "loading",
     task |-> k, seen |-> status, content |-> nd.content, uncertain |-> FALSE]

Failed(nd) == [nd EXCEPT !.status = "error"]

\* (mutant) the old task's status stays
Reset_KeepsStatus(nd) == [nd EXCEPT !.status = "idle", !.task = 0, !.uncertain = FALSE]

\* resetGenerationTaskMetadata
Reset(nd) == [nd EXCEPT !.status = "idle", !.task = 0, !.seen = "none", !.uncertain = FALSE]

-----------------------------------------------------------------------------
(* Scheduling and the executor.                                            *)

Candidates == {n \in Nodes : item[n].status = "waiting" /\ node[n].task = 0
                               /\ ~(node[n].status = "success" /\ node[n].content # 0)}

ScheduleStart ==
    /\ sched = {} /\ Candidates # {} /\ sched' = Candidates
    /\ UNCHANGED <<page, stray, task, rec, due, asking, cancel, ghosts, counts>>

\* hasPendingCanvasGenerationTask
Pending(nd) == nd.uncertain \/ (nd.task # 0 /\ (nd.status = "loading" \/ nd.seen = "running"))

\* The tasks are listed: as many of the items read before as the free places
\* allow are submitted, whatever became of them since.
ScheduleEnd ==
    /\ sched # {} /\ sched' = {}
    /\ \E fit \in SUBSET sched :
         LET start == {n \in fit : ~Busy(n)} IN
         Commit(node,
                [n \in Nodes |-> IF n \in start THEN [item[n] EXCEPT !.status = "submitting"] ELSE item[n]],
                [n \in Nodes |-> IF n \in start /\ ~Pending(node[n])
                                 THEN [NoRun EXCEPT !.pc = "prepare"] ELSE run[n]])
    /\ UNCHANGED <<stray, task, rec, due, asking, cancel, ghosts, counts>>

\* The preparation fails, or finds that it was stopped: only a failure that was
\* not stopped is reported to the batch.
PrepareEnds(n) ==
    /\ run[n].pc = "prepare"
    /\ Commit(node, IF run[n].aborted THEN item ELSE [item EXCEPT ![n].status = "failed"],
              [run EXCEPT ![n] = NoRun])
    /\ UNCHANGED <<stray, task, rec, due, sched, asking, cancel, ghosts, counts>>

Submit(n) ==
    /\ run[n].pc = "prepare" /\ ~run[n].aborted
    /\ Commit([node EXCEPT ![n] = [Reset(@) EXCEPT !.status = "loading"]], item,
              [run EXCEPT ![n].pc = "posted"])
    /\ UNCHANGED <<stray, task, rec, due, sched, asking, cancel, ghosts, counts>>

\* The backend creates a task; that the one it is a retry of is over was settled
\* by the inspection before the retry.
Create(n, k) ==
    /\ task[k].status = "none" /\ \A j \in Tasks : j < k => task[j].status # "none"
    /\ task' = [task EXCEPT ![k] = [of |-> n, status |-> "running"]]

Accept(n) ==
    /\ run[n].pc = "posted" /\ run[n].task = 0
    /\ \E k \in Tasks : Create(n, k) /\ run' = [run EXCEPT ![n].task = k]
    /\ UNCHANGED <<node, item, stray, rec, due, sched, asking, cancel, ghosts, counts>>

StrayAccepted(n) ==
    /\ stray[n] > 0 /\ stray' = [stray EXCEPT ![n] = @ - 1]
    /\ \E k \in Tasks : Create(n, k)
    /\ UNCHANGED <<page, rec, due, sched, asking, cancel, ghosts, counts>>

\* The references cannot be uploaded or the backend refuses the task; a refusal
\* for want of a place leaves the node as it was, for another try.
Refused(n) ==
    /\ run[n].pc = "posted" /\ run[n].task = 0
    /\ \E full \in BOOLEAN : EndRun(n, IF full THEN Reset(node[n]) ELSE Failed(node[n]))
    /\ UNCHANGED <<stray, task, rec, due, sched, asking, cancel, ghosts, counts>>

\* The answer to the creation is lost, with the task created, or yet to be.
LoseReply(n) ==
    /\ run[n].pc = "posted" /\ Counted("lost", MaxLost)
    /\ stray' = [stray EXCEPT ![n] = IF run[n].task = 0 THEN @ + 1 ELSE @]
    /\ EndRun(n, Failed(node[n]))
    /\ lost' = lost \union {n}
    /\ UNCHANGED <<task, rec, due, sched, asking, cancel, overlapped>>

Bind(n) ==
    /\ run[n].pc = "posted" /\ run[n].task # 0
    /\ Commit([node EXCEPT ![n] = Bound(@, run[n].task, "running")], item,
              [run EXCEPT ![n].pc = "track"])
    /\ UNCHANGED <<stray, task, rec, due, sched, asking, cancel, ghosts, counts>>

\* waitForGenerationTask reads the task: every answer is bound to the node.
Poll(n) ==
    /\ run[n].pc = "track" /\ ~run[n].aborted
    /\ LET k == run[n].task
           s == task[k].status
           nd == Bound(node[n], k, s) IN
       CASE s = "running" -> CommitNode(n, nd)
         [] s = "succeeded" -> Commit([node EXCEPT ![n] = nd], item, [run EXCEPT ![n].pc = "store"])
         [] OTHER -> EndRun(n, nd)
    /\ UNCHANGED <<stray, task, rec, due, sched, asking, cancel, ghosts, counts>>

\* A query is refused for good, or the media cannot be stored.
RunFails(n) ==
    /\ run[n].pc \in {"track", "store"} /\ Counted("faults", MaxFaults)
    /\ EndRun(n, Failed(node[n]))
    /\ UNCHANGED <<stray, task, rec, due, sched, asking, cancel, ghosts>>

Stored(n) ==
    /\ run[n].pc = "store"
    /\ EndRun(n, [node[n] EXCEPT !.status = "success", !.content = run[n].task])
    /\ UNCHANGED <<stray, task, rec, due, sched, asking, cancel, ghosts, counts>>

\* cancelGenerationTask at the backend: the request takes effect, or is lost, or
\* comes too late.
CancelAtBackend(k) ==
    \/ task[k].status = "running" /\ task' = [task EXCEPT ![k].status = "cancelled"]
    \/ UNCHANGED task

\* A tracking that was stopped cancels the task and binds what became of it; a
\* task that could not be cancelled is an error.
StoppedTracking(n) ==
    /\ run[n].pc = "track" /\ run[n].aborted
    /\ CancelAtBackend(run[n].task)
    /\ LET s == task'[run[n].task].status IN
       EndRun(n, IF s \in {"failed", "cancelled"} THEN Bound(node[n], run[n].task, s) ELSE Failed(node[n]))
    /\ UNCHANGED <<stray, rec, due, sched, asking, cancel, ghosts, counts>>

-----------------------------------------------------------------------------
(* The user.  A dialog that is open lets nothing else of the page through. *)

NoDialog == asking = NoQuestion /\ \A n \in Nodes : cancel[n] = 0

CancelItem(n) ==
    /\ NoDialog /\ item[n].status = "running"
    /\ cancel' = [cancel EXCEPT ![n] = item[n].task]
    /\ CancelAtBackend(item[n].task)
    /\ UNCHANGED <<page, stray, rec, due, sched, asking, ghosts, counts>>

\* abortGenerationTaskTracking: a run ends without a word, a recovery with an
\* error on the node.
StoppedRuns(k) == [n \in Nodes |-> IF run[n].pc = "track" /\ run[n].task = k THEN NoRun ELSE run[n]]
StoppedRecs(k) == [n \in Nodes |-> IF rec[n].pc = "track" /\ rec[n].task = k THEN NoRec ELSE rec[n]]

CancelAnswered(n) ==
    /\ cancel[n] # 0 /\ cancel' = [cancel EXCEPT ![n] = 0]
    /\ LET k == cancel[n]
           s == task[k].status IN
       IF s \in {"failed", "cancelled"}
       THEN /\ Commit([node EXCEPT ![n] = Failed(Bound(@, k, s))],
                      [item EXCEPT ![n].status = s, ![n].task = k], StoppedRuns(k))
            /\ rec' = StoppedRecs(k)
       ELSE UNCHANGED <<page, rec>>
    /\ UNCHANGED <<stray, task, due, sched, asking, ghosts, counts>>

\* The items that wait are cancelled; those being submitted keep their node
\* locked until the task is found.
StopRemaining ==
    /\ NoDialog
    /\ \E stopped \in SUBSET {n \in Nodes : item[n].status \in {"waiting", "submitting"} /\ node[n].task = 0} :
         LET sent == {n \in stopped : item[n].status = "submitting"} IN
         /\ stopped # {}
         /\ Commit([n \in Nodes |-> IF n \in sent THEN Locked(node[n]) ELSE node[n]],
                   [n \in Nodes |-> IF n \in stopped \ sent
                                    THEN [item[n] EXCEPT !.status = "cancelled"] ELSE item[n]],
                   [n \in Nodes |-> IF n \in stopped /\ Busy(n) THEN [run[n] EXCEPT !.aborted = TRUE] ELSE run[n]])
    /\ UNCHANGED <<stray, task, rec, due, sched, asking, cancel, ghosts, counts>>

\* inspectGenerationRetry: the task an item would retry, if it has one, is over.
RetrySource(n) ==
    IF item[n].task # 0 THEN item[n].task ELSE IF item[n].source # 0 THEN item[n].source ELSE node[n].task

RetryAsk(n) ==
    /\ NoDialog /\ item[n].status = "failed"
    /\ RetrySource(n) # 0 => task[RetrySource(n)].status \in {"failed", "cancelled"}
    /\ Counted("retries", MaxRetries)
    /\ asking' = [node |-> n, source |-> RetrySource(n)]
    /\ UNCHANGED <<page, stray, task, rec, due, sched, cancel, ghosts>>

\* What was inspected is not looked at again once the user has confirmed.
RetryAnswered ==
    /\ asking # NoQuestion /\ asking' = NoQuestion
    /\ LET n == asking.node IN
       \/ /\ Commit([node EXCEPT ![n] = Reset(@)],
                    [item EXCEPT ![n] = [status |-> "waiting", task |-> 0, source |-> asking.source]], run)
          /\ overlapped' = IF Busy(n) \/ rec[n].pc # "none" \/ n \in sched
                           THEN overlapped \union {n} ELSE overlapped
       \/ UNCHANGED <<page, overlapped>>
    /\ UNCHANGED <<stray, task, rec, due, sched, cancel, lost, counts>>

-----------------------------------------------------------------------------
(* Recovery of interrupted tasks, one pass at a time.                      *)

\* (mutant) only the nodes whose submission is in doubt
NeedsRecovery_Uncertain(n) == node[n].uncertain

NeedsRecovery(n) == node[n].status = "loading" \/ (node[n].task # 0 /\ node[n].status # "success")

RecoverAll ==
    /\ \A n \in Nodes : rec[n].pc = "none"
    /\ due' = FALSE
    /\ rec' = [n \in Nodes |-> IF NeedsRecovery(n) THEN [pc |-> "read", task |-> node[n].task] ELSE NoRec]
    /\ UNCHANGED <<page, stray, task, sched, asking, cancel, ghosts, counts>>

RecoverStart == (due \/ \E n \in Nodes : node[n].uncertain) /\ RecoverAll

\* Nodes outside the batch start a pass as well.
RecoverForOthers == OtherNodes /\ RecoverAll

\* The task the node was bound to, or else the newest one made for it.
Found(n) == IF rec[n].task # 0 THEN rec[n].task ELSE IF TasksOf(n) = {} THEN 0 ELSE Max(TasksOf(n))

\* The task found is not the latest attempt: another one was made or is under way.
Outdated(n) ==
    \/ Max(TasksOf(n)) > Found(n) \/ stray[n] > 0 \/ n \in sched
    \/ run[n].pc = "prepare" \/ (run[n].pc = "posted" /\ run[n].task = 0)

\* The answers: a node whose task is not found stays locked for the next pass.
RecoverRead ==
    LET reading == {n \in Nodes : rec[n].pc = "read"} IN
    /\ reading # {}
    /\ \E unread \in SUBSET reading :
         /\ IF unread = {} THEN UNCHANGED counts ELSE Counted("faults", MaxFaults)
         /\ LET found == {n \in reading \ unread : Found(n) # 0}
                status(n) == task[Found(n)].status IN
            /\ Commit([n \in Nodes |-> IF n \in found THEN Bound(node[n], Found(n), status(n))
                                       ELSE IF n \in reading THEN Locked(node[n]) ELSE node[n]], item, run)
            /\ rec' = [n \in Nodes |->
                         IF n \in found
                         THEN [pc |-> IF status(n) = "succeeded" THEN "store" ELSE "track", task |-> Found(n)]
                         ELSE IF n \in reading THEN NoRec ELSE rec[n]]
            /\ overlapped' = overlapped \union {n \in found : Outdated(n)}
    /\ UNCHANGED <<stray, task, due, sched, asking, cancel, lost>>

RecoveryWrites(n, nd) ==
    /\ CommitNode(n, nd)
    /\ rec' = [rec EXCEPT ![n] = NoRec]

\* Unlike a run, a recovery does not bind what it reads.
RecoverPoll(n) ==
    /\ rec[n].pc = "track"
    /\ LET s == task[rec[n].task].status IN
       \/ /\ s = "succeeded" /\ rec' = [rec EXCEPT ![n].pc = "store"]
          /\ UNCHANGED page
       \/ s \in {"failed", "cancelled"} /\ RecoveryWrites(n, Failed(node[n]))
    /\ UNCHANGED <<stray, task, due, sched, asking, cancel, ghosts, counts>>

RecoverFails(n) ==
    /\ rec[n].pc \in {"track", "store"} /\ Counted("faults", MaxFaults)
    /\ RecoveryWrites(n, Failed(node[n]))
    /\ UNCHANGED <<stray, task, due, sched, asking, cancel, ghosts>>

\* applyGenerationTaskResult replaces the node by its result.
RecoverStored(n) ==
    /\ rec[n].pc = "store"
    /\ LET k == rec[n].task IN
       RecoveryWrites(n, [status |-> "success", task |-> k, seen |-> "succeeded",
                          content |-> k, uncertain |-> FALSE])
    /\ UNCHANGED <<stray, task, due, sched, asking, cancel, ghosts, counts>>

-----------------------------------------------------------------------------
TaskEnds(k) ==
    /\ task[k].status = "running"
    /\ \E s \in {"succeeded", "failed"} : task' = [task EXCEPT ![k].status = s]
    /\ UNCHANGED <<page, stray, rec, due, sched, asking, cancel, ghosts, counts>>

\* Everything but the nodes and the batch is gone; creations go on.
Reload ==
    /\ Counted("reloads", MaxReloads)
    /\ Commit(node, item, [n \in Nodes |-> NoRun])
    /\ stray' = [n \in Nodes |-> IF run[n].pc = "posted" /\ run[n].task = 0 THEN stray[n] + 1 ELSE stray[n]]
    /\ rec' = [n \in Nodes |-> NoRec] /\ due' = TRUE /\ sched' = {}
    /\ asking' = NoQuestion /\ cancel' = [n \in Nodes |-> 0]
    /\ UNCHANGED <<task, ghosts>>

Next ==
    \/ ScheduleStart \/ ScheduleEnd \/ StopRemaining \/ RetryAnswered
    \/ RecoverStart \/ RecoverForOthers \/ RecoverRead \/ Reload
    \/ \E n \in Nodes :
         \/ PrepareEnds(n) \/ Submit(n) \/ Accept(n) \/ StrayAccepted(n) \/ Refused(n) \/ LoseReply(n)
         \/ Bind(n) \/ Poll(n) \/ RunFails(n) \/ Stored(n) \/ StoppedTracking(n)
         \/ CancelItem(n) \/ CancelAnswered(n) \/ RetryAsk(n)
         \/ RecoverPoll(n) \/ RecoverFails(n) \/ RecoverStored(n)
    \/ \E k \in Tasks : TaskEnds(k)

\* Tasks end, queries and media writes return, and the timers of the page fire.
Fairness ==
    /\ WF_vars(RecoverStart) /\ WF_vars(RecoverRead)
    /\ \A n \in Nodes :
         /\ WF_vars(Bind(n)) /\ WF_vars(Poll(n)) /\ WF_vars(Stored(n)) /\ WF_vars(StoppedTracking(n))
         /\ WF_vars(RecoverPoll(n)) /\ WF_vars(RecoverStored(n))
    /\ \A k \in Tasks : WF_vars(TaskEnds(k))

Spec == Init /\ [][Next]_vars /\ Fairness

-----------------------------------------------------------------------------
Live(n) == {k \in TasksOf(n) : task[k].status \in {"running", "succeeded"}}

\* One item pays once: a node has at most one task that runs or has succeeded,
\* through stops, cancellations, retries and reloads, unless the answer to a
\* creation was lost or an attempt was still followed when the next one began.
OnePaidResult == \A n \in Nodes : n \in lost \union overlapped \/ Cardinality(Live(n)) <= 1

\* A batch item counts as succeeded only when its node shows the media of a task
\* that succeeded ("后端成功后还要下载并写入媒体，节点真正拿到内容才算批次成功").
SucceededHasContent ==
    \A n \in Nodes : item[n].status = "succeeded" =>
        node[n].content # 0 /\ task[node[n].content].status = "succeeded" /\ task[node[n].content].of = n

\* An item whose task is known comes to an end, in this page or after a reload,
\* unless two attempts at it got mixed up.
BoundItemEnds ==
    \A n \in Nodes : item[n].status = "running" ~> item[n].status \in Ended \/ n \in lost \union overlapped

\* A failed item with no task to look at may be retried at once: nothing of it is
\* at the backend or on the way there.
RetryableIsUnsent ==
    \A n \in Nodes : item[n].status = "failed" /\ RetrySource(n) = 0 => Live(n) = {} /\ stray[n] = 0
=============================================================================
