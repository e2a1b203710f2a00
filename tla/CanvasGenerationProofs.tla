------------------------ MODULE CanvasGenerationProofs ------------------------
(***************************************************************************)
(* What a batch of paid generations promises, for every number of nodes,   *)
(* tasks, retries, reloads and faults.  The page keeps no record of what   *)
(* it has sent, so that the argument is about what each place may know of  *)
(* a node: as long as a creation of it may still reach the backend, no     *)
(* task of it runs or has succeeded, and nothing but that creation points  *)
(* at the node; and whatever points at a task of it, points at the only    *)
(* one that may run or have succeeded.                                     *)
(***************************************************************************)
EXTENDS CanvasGeneration, FiniteSetTheorems, TLAPS

NodeRec == [status : {"idle", "loading", "success", "error"}, task : TaskOrNone,
            seen : {"none", "running"} \union Ended, content : TaskOrNone, uncertain : BOOLEAN]
ItemRec == [status : {"waiting", "submitting", "running"} \union Ended,
            task : TaskOrNone, source : TaskOrNone]
RunRec == [pc : {"none", "prepare", "posted", "track", "store"}, aborted : BOOLEAN, task : TaskOrNone]
TaskRec == [of : Nodes \union {0}, status : {"none", "running"} \union Ended]
RecRec == [pc : {"none", "read", "track", "store"}, task : TaskOrNone]
CountRec == [retries : Nat, lost : Nat, reloads : Nat, faults : Nat]

TypeInv ==
    /\ TypeOK
    /\ counts \in CountRec /\ counts.lost <= MaxLost /\ counts.reloads <= MaxReloads
    /\ \A n \in Nodes : stray[n] <= counts.lost + counts.reloads

\* Tasks are used in the order of their numbers, so that a node with tasks has
\* a newest one, which is what recovery looks for.
TaskInv ==
    /\ \A k \in Tasks : task[k].of = 0 <=> task[k].status = "none"
    /\ \A j, k \in Tasks : j < k /\ task[j].status = "none" => task[k].status = "none"
    /\ \A n \in Nodes : TasksOf(n) # {} => \E k \in TasksOf(n) : \A j \in TasksOf(n) : j <= k

\* What is known of a node is about its own tasks (tk); media are of one that
\* succeeded.
OfNode(tk, n, k) == k # 0 => k \in Tasks /\ tk[k].of = n
Won(tk, k) == k \in Tasks /\ tk[k].status = "succeeded"
Own(tk, n, nd, it, r, rc, cn) ==
    /\ OfNode(tk, n, nd.task) /\ OfNode(tk, n, nd.content) /\ OfNode(tk, n, it.task) /\ OfNode(tk, n, r.task)
    /\ OfNode(tk, n, rc.task) /\ OfNode(tk, n, cn)
    /\ nd.content # 0 => Won(tk, nd.content)
    /\ it.status = "succeeded" => nd.content # 0
    /\ it.status = "running" => it.task # 0
    /\ r.pc \in {"none", "prepare"} => r.task = 0
    /\ r.pc \in {"track", "store"} => r.task # 0
    /\ rc.pc \in {"track", "store"} => rc.task # 0
    /\ r.pc = "store" => Won(tk, r.task)
    /\ rc.pc = "store" => Won(tk, rc.task)

OwnInv == \A n \in Nodes : Own(task, n, node[n], item[n], run[n], rec[n], cancel[n])

\* Nothing of the node is on its way to the backend ...
Quiet(r, st) == st = 0 /\ r.pc # "prepare" /\ (r.pc = "posted" => r.task # 0)

\* ... or will be before the user asks for it again.
Settled(n, it, r, st, sch) == Quiet(r, st) /\ n \notin sch /\ it.status # "waiting"

\* What holds of a node, its item, run and recovery, the tasks of it that may
\* pay (live), its stray creations, the scheduler's items, the node of the
\* question and the cancellation under way.
OneAttempt(n, nd, it, r, rc, live, st, sch, ask, cn) ==
    /\ (it.status = "waiting" \/ n \in sch) =>
          /\ Quiet(r, st) /\ r.pc = "none" /\ rc.pc = "none" /\ live = {}
          /\ nd.task = 0 /\ nd.status = "idle" /\ ~nd.uncertain
          /\ it.status \in {"waiting", "cancelled"} /\ ask # n /\ cn = 0
    /\ ~Quiet(r, st) =>
          /\ live = {} /\ nd.task = 0 /\ nd.status \in {"idle", "loading"} /\ it.status = "submitting"
          /\ n \notin sch /\ rc.pc \in {"none", "read"} /\ ask # n /\ cn = 0
          /\ st # 0 => st = 1 /\ r.pc = "none"
    /\ it.status = "failed" => Settled(n, it, r, st, sch) /\ live \subseteq {it.task}
    /\ it.status = "running" => Settled(n, it, r, st, sch) /\ live \subseteq {it.task}
    /\ ask = n => Settled(n, it, r, st, sch) /\ live = {} /\ cn = 0
    /\ nd.task # 0 \/ nd.status = "error" => Settled(n, it, r, st, sch) /\ live \subseteq {nd.task}
    /\ cn # 0 => Settled(n, it, r, st, sch) /\ live \subseteq {cn}
    /\ r.task # 0 => Settled(n, it, r, st, sch) /\ live \subseteq {r.task}
    /\ r.pc \in {"track", "store"} => nd.task # 0
    /\ rc.pc \in {"track", "store"} =>
          Settled(n, it, r, st, sch) /\ live \subseteq {rc.task} /\ nd.task # 0

AttemptInv ==
    \A n \in Nodes : n \in lost \union overlapped \/
        OneAttempt(n, node[n], item[n], run[n], rec[n], Live(n), stray[n], sched, asking.node, cancel[n])

\* Only the newest task of a node may pay.
NewestInv == \A n \in Nodes : n \in lost \union overlapped \/ \A k \in Live(n), j \in TasksOf(n) : j <= k

GenerationInv == TypeInv /\ TaskInv /\ OwnInv /\ AttemptInv /\ NewestInv

-----------------------------------------------------------------------------
(* The operators on one node.                                              *)

LEMMA Types ==
  ASSUME TypeInv
  PROVE  /\ node \in [Nodes -> NodeRec] /\ \A n \in Nodes : node[n].task = 0 <=> node[n].seen = "none"
         /\ item \in [Nodes -> ItemRec] /\ run \in [Nodes -> RunRec] /\ rec \in [Nodes -> RecRec]
         /\ task \in [Tasks -> TaskRec] /\ stray \in [Nodes -> Nat] /\ cancel \in [Nodes -> TaskOrNone]
         /\ due \in BOOLEAN /\ sched \subseteq Nodes /\ asking \in [node : Nodes \union {0}, source : TaskOrNone]
         /\ counts \in CountRec
<1>1. stray \in [Nodes -> Nat]
  <2>1. stray \in [Nodes -> 0 .. MaxLost + MaxReloads]
    BY DEF TypeInv, TypeOK
  <2> QED BY <2>1
<1> QED BY <1>1 DEF TypeInv, TypeOK, NodeRec, ItemRec, RunRec, RecRec, TaskRec

LEMMA ReconciledIs ==
  ASSUME NEW i \in ItemRec, NEW nd \in NodeRec
  PROVE  Reconciled(i, nd) \in ItemRec
BY DEF Reconciled, ItemRec, NodeRec, Ended, TaskOrNone

LEMMA LockedIs ==
  ASSUME NEW nd \in NodeRec
  PROVE  /\ Locked(nd) \in NodeRec /\ Locked(nd).status = "loading" /\ Locked(nd).uncertain
         /\ Locked(nd).task = nd.task /\ Locked(nd).content = nd.content /\ Locked(nd).seen = nd.seen
BY DEF Locked, NodeRec

LEMMA FailedIs ==
  ASSUME NEW nd \in NodeRec
  PROVE  /\ Failed(nd) \in NodeRec /\ Failed(nd).status = "error"
         /\ Failed(nd).task = nd.task /\ Failed(nd).content = nd.content /\ Failed(nd).seen = nd.seen
BY DEF Failed, NodeRec

LEMMA ResetIs ==
  ASSUME NEW nd \in NodeRec
  PROVE  /\ Reset(nd) \in NodeRec /\ Reset(nd).status = "idle" /\ ~Reset(nd).uncertain
         /\ Reset(nd).task = 0 /\ Reset(nd).content = nd.content /\ Reset(nd).seen = "none"
BY DEF Reset, NodeRec, TaskOrNone

LEMMA BoundIs ==
  ASSUME NEW nd \in NodeRec, NEW k \in Tasks, NEW s \in {"running"} \union Ended
  PROVE  /\ Bound(nd, k, s) \in NodeRec /\ Bound(nd, k, s).task = k
         /\ Bound(nd, k, s).content = nd.content /\ Bound(nd, k, s).seen = s
BY DEF Bound, NodeRec, TaskOrNone, Ended

-----------------------------------------------------------------------------
(* A change of the nodes, and what the reconciliation of the batch adds.   *)

\* The invariants of node n in the state reached, with a node, an item and a run
\* of it that are about to be committed.
Good(n, nd, it, r) ==
    /\ nd \in NodeRec /\ it \in ItemRec /\ r \in RunRec /\ (nd.task = 0 <=> nd.seen = "none")
    /\ Own(task', n, nd, it, r, rec'[n], cancel'[n])
    /\ n \in lost' \union overlapped' \/
         OneAttempt(n, nd, it, r, rec'[n], Live(n)', stray'[n], sched', asking'.node, cancel'[n])

LEMMA GoodReconciled ==
  ASSUME NEW n \in Nodes, NEW nd, NEW it, NEW r, Good(n, nd, it, r)
  PROVE  Good(n, IF Unaccounted(it, nd, r) THEN Locked(nd) ELSE nd, Reconciled(it, nd), r)
<1> DEFINE it2 == Reconciled(it, nd)
<1>1. nd \in NodeRec /\ it \in ItemRec /\ r \in RunRec
  BY DEF Good
<1>2. it2 \in ItemRec
  BY <1>1, ReconciledIs
<1>3. CASE Unaccounted(it, nd, r)
  <2>1. it2 = it /\ nd.task = 0 /\ it.status = "submitting" /\ r.pc = "none"
    BY <1>3 DEF Unaccounted, Reconciled, Ended
  <2>2. /\ Locked(nd) \in NodeRec /\ Locked(nd).status = "loading" /\ Locked(nd).task = nd.task
        /\ Locked(nd).content = nd.content /\ Locked(nd).seen = nd.seen
    BY <1>1, LockedIs
  <2> QED BY <1>3, <2>1, <2>2 DEF Good, Own, OneAttempt
<1>4. CASE ~Unaccounted(it, nd, r)
  <2>1. Own(task', n, nd, it2, r, rec'[n], cancel'[n])
    BY <1>1 DEF Good, Own, Reconciled, Ended, NodeRec, ItemRec
  <2>2. ASSUME OneAttempt(n, nd, it, r, rec'[n], Live(n)', stray'[n], sched', asking'.node, cancel'[n])
        PROVE  OneAttempt(n, nd, it2, r, rec'[n], Live(n)', stray'[n], sched', asking'.node, cancel'[n])
    <3>1. CASE it2 = it
      BY <2>2, <3>1
    <3>2. CASE it2 # it
      <4>1. /\ nd.task # 0 \/ nd.status \in {"error", "success"}
            /\ it2.status \in {"running"} \union Ended
            /\ it2.status \in {"running", "failed"} => it2.task = nd.task /\ (nd.task # 0 \/ nd.status = "error")
        BY <1>1, <3>2 DEF Reconciled, Ended, NodeRec, ItemRec
      <4>2. it.status # "waiting" /\ n \notin sched' /\ Quiet(r, stray'[n])
        BY <2>2, <4>1 DEF OneAttempt, Settled
      <4> QED BY <2>2, <4>1, <4>2 DEF OneAttempt, Settled, Ended
    <3> QED BY <3>1, <3>2
  <2> QED BY <1>2, <1>4, <2>1, <2>2 DEF Good
<1> QED BY <1>3, <1>4

LEMMA CommitGood ==
  ASSUME NEW nd \in [Nodes -> NodeRec], NEW it \in [Nodes -> ItemRec], NEW r \in [Nodes -> RunRec],
         Commit(nd, it, r), \A n \in Nodes : Good(n, nd[n], it[n], r[n])
  PROVE  /\ node' \in [Nodes -> NodeRec] /\ item' \in [Nodes -> ItemRec] /\ run' \in [Nodes -> RunRec]
         /\ \A n \in Nodes : Good(n, node'[n], item'[n], run'[n])
<1>1. /\ run' = r /\ item' = [n \in Nodes |-> Reconciled(it[n], nd[n])]
      /\ node' = [n \in Nodes |-> IF Unaccounted(it[n], nd[n], r[n]) THEN Locked(nd[n]) ELSE nd[n]]
  BY DEF Commit
<1>2. \A n \in Nodes : Good(n, node'[n], item'[n], run'[n])
  BY <1>1, GoodReconciled
<1> QED BY <1>1, <1>2 DEF Good

\* What makes the invariants of the state reached.
LEMMA Assembled ==
  ASSUME node' \in [Nodes -> NodeRec], item' \in [Nodes -> ItemRec], run' \in [Nodes -> RunRec],
         \A n \in Nodes : Good(n, node'[n], item'[n], run'[n]),
         rec' \in [Nodes -> RecRec], task' \in [Tasks -> TaskRec], cancel' \in [Nodes -> TaskOrNone],
         due' \in BOOLEAN, sched' \subseteq Nodes, asking' \in [node : Nodes \union {0}, source : TaskOrNone],
         stray' \in [Nodes -> Nat], counts' \in CountRec, counts'.lost <= MaxLost, counts'.reloads <= MaxReloads,
         \A n \in Nodes : stray'[n] <= counts'.lost + counts'.reloads, ConstantsOK,
         TaskInv', NewestInv'
  PROVE  GenerationInv'
<1>1. stray' \in [Nodes -> 0 .. MaxLost + MaxReloads]
  <2>1. counts'.lost \in Nat /\ counts'.reloads \in Nat /\ MaxLost \in Nat /\ MaxReloads \in Nat
    BY ConstantsOK DEF CountRec
  <2>2. \A n \in Nodes : stray'[n] \in 0 .. MaxLost + MaxReloads
    BY <2>1
  <2> QED BY <2>2
<1>2. TypeInv'
  BY <1>1 DEF TypeInv, TypeOK, Good, NodeRec, ItemRec, RunRec, RecRec, TaskRec
<1>3. OwnInv'
  BY DEF OwnInv, Good
<1>4. AttemptInv'
  BY DEF AttemptInv, Good
<1> QED BY <1>2, <1>3, <1>4 DEF GenerationInv

-----------------------------------------------------------------------------
(* The backend's tasks.                                                    *)

\* Tasks keep their node, and stay succeeded.
TasksMove ==
    \A k \in Tasks :
        /\ task[k].of # 0 => task'[k].of = task[k].of
        /\ task[k].status = "succeeded" => task'[k].status = "succeeded"
Aside == lost \subseteq lost' /\ overlapped \subseteq overlapped'

LEMMA TaskSame ==
  ASSUME GenerationInv, UNCHANGED task, Aside
  PROVE  /\ TaskInv' /\ NewestInv' /\ TasksMove /\ task' \in [Tasks -> TaskRec]
         /\ \A n \in Nodes : Live(n)' = Live(n) /\ TasksOf(n)' = TasksOf(n)
<1>1. \A n \in Nodes : Live(n)' = Live(n) /\ TasksOf(n)' = TasksOf(n)
  BY DEF Live, TasksOf
<1>2. TaskInv' /\ NewestInv'
  BY <1>1 DEF GenerationInv, TaskInv, NewestInv, Aside, TasksOf
<1> QED BY <1>1, <1>2, Types DEF GenerationInv, TasksMove

LEMMA TaskOver ==
  ASSUME ConstantsOK, GenerationInv, NEW k \in Tasks, NEW s \in Ended, task[k].status = "running",
         task' = [task EXCEPT ![k].status = s], Aside
  PROVE  /\ TaskInv' /\ NewestInv' /\ TasksMove /\ task' \in [Tasks -> TaskRec]
         /\ \A n \in Nodes : Live(n)' \subseteq Live(n) /\ TasksOf(n)' = TasksOf(n)
<1>1. /\ task' \in [Tasks -> TaskRec] /\ s # "none"
      /\ \A j \in Tasks : task'[j].of = task[j].of /\ (j # k => task'[j].status = task[j].status)
      /\ task'[k].status = s
  BY Types DEF GenerationInv, TaskRec, Ended
<1>2. \A n \in Nodes : Live(n)' \subseteq Live(n) /\ TasksOf(n)' = TasksOf(n)
  BY <1>1 DEF Live, TasksOf
<1>3. TaskInv'
  <2>1. \A j \in Tasks : task'[j].status = "none" <=> task[j].status = "none"
    BY <1>1
  <2>2. \A n \in Nodes : TasksOf(n)' # {} => \E i \in TasksOf(n)' : \A j \in TasksOf(n)' : j <= i
    BY <1>2 DEF GenerationInv, TaskInv
  <2>3. /\ \A j \in Tasks : task'[j].of = 0 <=> task'[j].status = "none"
        /\ \A i, j \in Tasks : i < j /\ task'[i].status = "none" => task'[j].status = "none"
    BY <1>1, <2>1 DEF GenerationInv, TaskInv
  <2> QED BY <2>2, <2>3 DEF TaskInv
<1>4. NewestInv'
  BY <1>2 DEF GenerationInv, NewestInv, Aside
<1> QED BY <1>1, <1>2, <1>3, <1>4 DEF TasksMove

LEMMA Created ==
  ASSUME ConstantsOK, GenerationInv, NEW n \in Nodes, NEW k \in Tasks, Create(n, k), UNCHANGED <<lost, overlapped>>,
         n \in lost \union overlapped \/ Live(n) = {}
  PROVE  /\ TaskInv' /\ NewestInv' /\ TasksMove /\ task' \in [Tasks -> TaskRec]
         /\ \A m \in Nodes \ {n} : Live(m)' = Live(m)
         /\ Live(n)' = Live(n) \union {k} /\ task'[k].of = n /\ k # 0
<1>1. /\ task' \in [Tasks -> TaskRec] /\ task'[k].of = n /\ task'[k].status = "running" /\ n # 0
      /\ \A j \in Tasks \ {k} : task'[j] = task[j]
  BY Types, ConstantsOK DEF GenerationInv, TaskRec, Create
<1>2. task[k].of = 0 /\ task[k].status = "none" /\ k \in Nat /\ k # 0
  BY ConstantsOK DEF GenerationInv, TaskInv, Create
<1>3. /\ \A m \in Nodes \ {n} : Live(m)' = Live(m) /\ TasksOf(m)' = TasksOf(m)
      /\ Live(n)' = Live(n) \union {k} /\ TasksOf(n)' = TasksOf(n) \union {k}
  <2>1. 0 \notin Nodes
    BY ConstantsOK
  <2> QED BY <1>1, <1>2, <2>1 DEF Live, TasksOf
<1>4. \A j \in Tasks : j # k /\ task[j].of # 0 => j < k
  BY <1>2, ConstantsOK DEF GenerationInv, TaskInv, Create
<1>5. TaskInv'
  <2>1. \A j \in Tasks : task'[j].of = 0 <=> task'[j].status = "none"
    BY <1>1 DEF GenerationInv, TaskInv
  <2>2. ASSUME NEW i \in Tasks, NEW j \in Tasks, i < j, task'[i].status = "none" PROVE task'[j].status = "none"
    <3>1. i # k /\ task[i].status = "none"
      BY <1>1, <2>2
    <3>2. task[j].status = "none"
      BY <2>2, <3>1 DEF GenerationInv, TaskInv
    <3>3. j # k
      BY <2>2, <3>1, ConstantsOK DEF Create
    <3> QED BY <1>1, <3>2, <3>3
  <2>3. ASSUME NEW m \in Nodes, TasksOf(m)' # {} PROVE \E i \in TasksOf(m)' : \A j \in TasksOf(m)' : j <= i
    <3>1. CASE m # n
      BY <1>3, <2>3, <3>1 DEF GenerationInv, TaskInv
    <3>2. CASE m = n
      <4>1. \A j \in TasksOf(n) : j < k /\ j \in Nat
        BY <1>1, <1>2, <1>4, ConstantsOK DEF TasksOf
      <4> QED BY <1>2, <1>3, <3>2, <4>1
    <3> QED BY <3>1, <3>2
  <2> QED BY <2>1, <2>2, <2>3 DEF TaskInv
<1>6. NewestInv'
  <2> SUFFICES ASSUME NEW m \in Nodes, m \notin lost \union overlapped, NEW i \in Live(m)', NEW j \in TasksOf(m)'
               PROVE  j <= i
    BY DEF NewestInv
  <2>1. CASE m # n
    BY <1>3, <2>1 DEF GenerationInv, NewestInv
  <2>2. CASE m = n
    <3>1. i = k
      BY <1>3, <2>2
    <3>2. j = k \/ (j \in Tasks /\ task[j].of = n)
      BY <1>3, <2>2 DEF TasksOf
    <3>3. j \in Nat /\ k \in Nat /\ (j = k \/ j < k)
      BY <1>1, <1>2, <1>4, <3>2, ConstantsOK
    <3> QED BY <3>1, <3>3
  <2> QED BY <2>1, <2>2
<1> QED BY <1>1, <1>2, <1>3, <1>5, <1>6 DEF TasksMove, GenerationInv, TaskInv

-----------------------------------------------------------------------------
(* Nodes that a step is not about, and steps about one node.               *)

LEMMA Now ==
  ASSUME GenerationInv, NEW n \in Nodes
  PROVE  /\ node[n] \in NodeRec /\ item[n] \in ItemRec /\ run[n] \in RunRec /\ rec[n] \in RecRec
         /\ (node[n].task = 0 <=> node[n].seen = "none")
         /\ Own(task, n, node[n], item[n], run[n], rec[n], cancel[n])
         /\ n \in lost \union overlapped \/
              OneAttempt(n, node[n], item[n], run[n], rec[n], Live(n), stray[n], sched, asking.node, cancel[n])
BY Types DEF GenerationInv, OwnInv, AttemptInv

LEMMA Kept ==
  ASSUME ConstantsOK, NEW n \in Nodes, NEW k, TasksMove
  PROVE  /\ OfNode(task, n, k) => OfNode(task', n, k)
         /\ Won(task, k) => Won(task', k)
<1>1. n # 0
  BY ConstantsOK
<1>2. CASE k \in Tasks
  <2>1. task[k].of = n => task'[k].of = n
    BY <1>1, <1>2 DEF TasksMove
  <2>2. task[k].status = "succeeded" => task'[k].status = "succeeded"
    BY <1>2 DEF TasksMove
  <2> QED BY <1>2, <2>1, <2>2 DEF OfNode, Won
<1>3. CASE k \notin Tasks
  BY <1>3 DEF OfNode, Won
<1> QED BY <1>2, <1>3

LEMMA OwnKept ==
  ASSUME ConstantsOK, NEW n \in Nodes, NEW nd, NEW it, NEW r, NEW rc, NEW cn, TasksMove,
         Own(task, n, nd, it, r, rc, cn)
  PROVE  Own(task', n, nd, it, r, rc, cn)
BY Kept DEF Own

\* The invariants of a node withstand fewer tasks that may pay, and fewer plans.
LEMMA Elsewhere ==
  ASSUME ConstantsOK, GenerationInv, NEW m \in Nodes, TasksMove, Aside,
         rec'[m] = rec[m], cancel'[m] = cancel[m], Live(m)' \subseteq Live(m), stray'[m] = stray[m],
         m \in sched' => m \in sched, asking'.node = m => asking.node = m
  PROVE  Good(m, node[m], item[m], run[m])
<1>1. /\ node[m] \in NodeRec /\ item[m] \in ItemRec /\ run[m] \in RunRec
      /\ (node[m].task = 0 <=> node[m].seen = "none")
      /\ Own(task', m, node[m], item[m], run[m], rec'[m], cancel'[m])
  BY Now, OwnKept
<1>2. ASSUME m \notin lost' \union overlapped'
      PROVE  OneAttempt(m, node[m], item[m], run[m], rec'[m], Live(m)', stray'[m], sched', asking'.node, cancel'[m])
  <2>1. OneAttempt(m, node[m], item[m], run[m], rec[m], Live(m), stray[m], sched, asking.node, cancel[m])
    BY <1>2, Now DEF Aside
  <2> QED BY <2>1 DEF OneAttempt, Settled
<1> QED BY <1>1, <1>2 DEF Good

LEMMA OneNode ==
  ASSUME ConstantsOK, GenerationInv, NEW n \in Nodes, NEW nd \in NodeRec, NEW it \in ItemRec, NEW r \in RunRec,
         Commit([node EXCEPT ![n] = nd], [item EXCEPT ![n] = it], [run EXCEPT ![n] = r]), Good(n, nd, it, r),
         UNCHANGED <<stray, due, sched, asking, lost, overlapped>>,
         rec' \in [Nodes -> RecRec], cancel' \in [Nodes -> TaskOrNone],
         \A m \in Nodes \ {n} : rec'[m] = rec[m] /\ cancel'[m] = cancel[m] /\ Live(m)' \subseteq Live(m),
         TaskInv', NewestInv', TasksMove, task' \in [Tasks -> TaskRec],
         counts' \in CountRec, counts'.lost = counts.lost, counts'.reloads = counts.reloads
  PROVE  GenerationInv'
<1> DEFINE f == [node EXCEPT ![n] = nd]
           g == [item EXCEPT ![n] = it]
           h == [run EXCEPT ![n] = r]
<1>1. /\ f \in [Nodes -> NodeRec] /\ g \in [Nodes -> ItemRec] /\ h \in [Nodes -> RunRec]
      /\ f[n] = nd /\ g[n] = it /\ h[n] = r
      /\ \A m \in Nodes \ {n} : f[m] = node[m] /\ g[m] = item[m] /\ h[m] = run[m]
  BY Types DEF GenerationInv
<1>2. Commit(f, g, h)
  OBVIOUS
<1> HIDE DEF f, g, h
<1>3. \A m \in Nodes \ {n} : Good(m, node[m], item[m], run[m])
  <2>1. Aside
    BY DEF Aside
  <2> QED BY <2>1, Elsewhere
<1>4. \A m \in Nodes : Good(m, f[m], g[m], h[m])
  BY <1>1, <1>3
<1>5. /\ node' \in [Nodes -> NodeRec] /\ item' \in [Nodes -> ItemRec] /\ run' \in [Nodes -> RunRec]
      /\ \A m \in Nodes : Good(m, node'[m], item'[m], run'[m])
  BY <1>1, <1>2, <1>4, CommitGood
<1>6. /\ due' \in BOOLEAN /\ sched' \subseteq Nodes /\ asking' \in [node : Nodes \union {0}, source : TaskOrNone]
      /\ stray' \in [Nodes -> Nat] /\ counts'.lost <= MaxLost /\ counts'.reloads <= MaxReloads
      /\ \A m \in Nodes : stray'[m] <= counts'.lost + counts'.reloads
  BY Types DEF GenerationInv, TypeInv
<1> QED BY <1>5, <1>6, Assembled

\* The same when the step leaves everything else as it is.
LEMMA OnePage ==
  ASSUME ConstantsOK, GenerationInv, NEW n \in Nodes, NEW nd \in NodeRec, NEW it \in ItemRec, NEW r \in RunRec,
         Commit([node EXCEPT ![n] = nd], [item EXCEPT ![n] = it], [run EXCEPT ![n] = r]),
         (nd.task = 0 <=> nd.seen = "none"), Own(task, n, nd, it, r, rec[n], cancel[n]),
         n \in lost \union overlapped \/
           OneAttempt(n, nd, it, r, rec[n], Live(n), stray[n], sched, asking.node, cancel[n]),
         UNCHANGED <<stray, task, rec, due, sched, asking, cancel, lost, overlapped>>,
         counts' \in CountRec, counts'.lost = counts.lost, counts'.reloads = counts.reloads
  PROVE  GenerationInv'
<1>1. Aside
  BY DEF Aside
<1>2. /\ TaskInv' /\ NewestInv' /\ TasksMove /\ task' \in [Tasks -> TaskRec]
      /\ \A m \in Nodes : Live(m)' = Live(m) /\ TasksOf(m)' = TasksOf(m)
  BY <1>1, TaskSame
<1>3. rec' \in [Nodes -> RecRec] /\ cancel' \in [Nodes -> TaskOrNone]
  BY Types DEF GenerationInv
<1>4. Good(n, nd, it, r)
  BY <1>2 DEF Good
<1> QED BY <1>2, <1>3, <1>4, OneNode

LEMMA CountedFaults ==
  ASSUME GenerationInv, Counted("faults", MaxFaults)
  PROVE  counts' \in CountRec /\ counts'.lost = counts.lost /\ counts'.reloads = counts.reloads
BY Types DEF GenerationInv, Counted, CountRec

LEMMA Same ==
  ASSUME GenerationInv, NEW n \in Nodes
  PROVE  /\ [node EXCEPT ![n] = node[n]] = node /\ [item EXCEPT ![n] = item[n]] = item
         /\ [run EXCEPT ![n] = run[n]] = run /\ counts \in CountRec
BY Types DEF GenerationInv

-----------------------------------------------------------------------------
(* The run of a node.                                                      *)

LEMMA PrepareEndsKeeps ==
  ASSUME ConstantsOK, GenerationInv, NEW n \in Nodes, PrepareEnds(n) PROVE GenerationInv'
<1> DEFINE it == IF run[n].aborted THEN item[n] ELSE [item[n] EXCEPT !.status = "failed"]
<1>1. Commit([node EXCEPT ![n] = node[n]], [item EXCEPT ![n] = it], [run EXCEPT ![n] = NoRun])
  BY Same DEF PrepareEnds
<1>2. /\ it \in ItemRec /\ it.task = item[n].task /\ NoRun \in RunRec /\ NoRun.pc = "none" /\ NoRun.task = 0
      /\ it.status = IF run[n].aborted THEN item[n].status ELSE "failed"
  BY Now DEF ItemRec, RunRec, NoRun, Ended, TaskOrNone
<1>3. Own(task, n, node[n], it, NoRun, rec[n], cancel[n])
  BY <1>2, Now DEF Own, OfNode
<1>4. ASSUME n \notin lost \union overlapped
      PROVE  OneAttempt(n, node[n], it, NoRun, rec[n], Live(n), stray[n], sched, asking.node, cancel[n])
  BY <1>2, <1>4, Now DEF PrepareEnds, OneAttempt, Settled, Quiet
<1> HIDE DEF it
<1> QED BY <1>1, <1>2, <1>3, <1>4, Now, Same, OnePage DEF PrepareEnds, ghosts

LEMMA SubmitKeeps ==
  ASSUME ConstantsOK, GenerationInv, NEW n \in Nodes, Submit(n) PROVE GenerationInv'
<1> DEFINE nd == [Reset(node[n]) EXCEPT !.status = "loading"]
           r == [run[n] EXCEPT !.pc = "posted"]
<1>1. Commit([node EXCEPT ![n] = nd], [item EXCEPT ![n] = item[n]], [run EXCEPT ![n] = r])
  BY Same DEF Submit
<1>2. /\ nd \in NodeRec /\ nd.status = "loading" /\ nd.task = 0 /\ nd.seen = "none" /\ nd.content = node[n].content
      /\ r \in RunRec /\ r.pc = "posted" /\ r.task = run[n].task
  <2>1. /\ Reset(node[n]) \in NodeRec /\ Reset(node[n]).task = 0 /\ Reset(node[n]).seen = "none"
        /\ Reset(node[n]).content = node[n].content
    BY Now, ResetIs
  <2> QED BY <2>1, Now DEF NodeRec, RunRec
<1> HIDE DEF nd, r
<1>3. Own(task, n, nd, item[n], r, rec[n], cancel[n])
  BY <1>2, Now DEF Own, OfNode, Submit
<1>4. ASSUME n \notin lost \union overlapped
      PROVE  OneAttempt(n, nd, item[n], r, rec[n], Live(n), stray[n], sched, asking.node, cancel[n])
  BY <1>2, <1>4, Now DEF Submit, OneAttempt, Settled, Quiet, Own
<1> QED BY <1>1, <1>2, <1>3, <1>4, Now, Same, OnePage DEF Submit, ghosts

LEMMA RefusedKeeps ==
  ASSUME ConstantsOK, GenerationInv, NEW n \in Nodes, Refused(n) PROVE GenerationInv'
<1>1. PICK full \in BOOLEAN : EndRun(n, IF full THEN Reset(node[n]) ELSE Failed(node[n]))
  BY DEF Refused
<1> DEFINE nd == IF full THEN Reset(node[n]) ELSE Failed(node[n])
<1>2. Commit([node EXCEPT ![n] = nd], [item EXCEPT ![n] = item[n]], [run EXCEPT ![n] = NoRun])
  BY <1>1, Same DEF EndRun
<1>3. /\ nd \in NodeRec /\ (nd.task = 0 <=> nd.seen = "none") /\ nd.content = node[n].content
      /\ nd.task \in {0, node[n].task}
      /\ NoRun \in RunRec /\ NoRun.pc = "none" /\ NoRun.task = 0
  BY Now, ResetIs, FailedIs DEF RunRec, NoRun, TaskOrNone
<1> HIDE DEF nd
<1>4. Own(task, n, nd, item[n], NoRun, rec[n], cancel[n])
  BY <1>3, Now DEF Own, OfNode, Refused
<1>5. ASSUME n \notin lost \union overlapped
      PROVE  OneAttempt(n, nd, item[n], NoRun, rec[n], Live(n), stray[n], sched, asking.node, cancel[n])
  BY <1>3, <1>5, Now DEF Refused, OneAttempt, Settled, Quiet
<1> QED BY <1>2, <1>3, <1>4, <1>5, Now, Same, OnePage DEF Refused, ghosts

LEMMA BindKeeps ==
  ASSUME ConstantsOK, GenerationInv, NEW n \in Nodes, Bind(n) PROVE GenerationInv'
<1> DEFINE nd == Bound(node[n], run[n].task, "running")
           r == [run[n] EXCEPT !.pc = "track"]
<1>1. Commit([node EXCEPT ![n] = nd], [item EXCEPT ![n] = item[n]], [run EXCEPT ![n] = r])
  BY Same DEF Bind
<1>2. /\ nd \in NodeRec /\ nd.task = run[n].task /\ nd.seen = "running" /\ nd.content = node[n].content
      /\ run[n].task # 0
      /\ r \in RunRec /\ r.pc = "track" /\ r.task = run[n].task
  <2>1. run[n].task \in Tasks /\ run[n].task # 0
    BY Now DEF Bind, Own, OfNode
  <2> QED BY <2>1, Now, BoundIs DEF RunRec
<1> HIDE DEF nd, r
<1>3. Own(task, n, nd, item[n], r, rec[n], cancel[n])
  BY <1>2, Now DEF Own, OfNode, Bind
<1>4. ASSUME n \notin lost \union overlapped
      PROVE  OneAttempt(n, nd, item[n], r, rec[n], Live(n), stray[n], sched, asking.node, cancel[n])
  BY <1>2, <1>4, Now DEF Bind, OneAttempt, Settled, Quiet
<1> QED BY <1>1, <1>2, <1>3, <1>4, Now, Same, OnePage DEF Bind, ghosts

\* A task of a node has a status.
LEMMA StatusOf ==
  ASSUME ConstantsOK, GenerationInv, NEW n \in Nodes, NEW k \in Tasks, task[k].of = n
  PROVE  task[k].status \in {"running"} \union Ended
<1>1. task[k] \in TaskRec /\ n # 0
  BY Types, ConstantsOK DEF GenerationInv
<1>2. task[k].status # "none"
  BY <1>1 DEF GenerationInv, TaskInv
<1> QED BY <1>1, <1>2 DEF TaskRec

LEMMA PollKeeps ==
  ASSUME ConstantsOK, GenerationInv, NEW n \in Nodes, Poll(n) PROVE GenerationInv'
<1> DEFINE k == run[n].task
           s == task[k].status
           nd == Bound(node[n], k, s)
           r == IF s = "running" THEN run[n] ELSE IF s = "succeeded" THEN [run[n] EXCEPT !.pc = "store"] ELSE NoRun
<1>1. k \in Tasks /\ k # 0 /\ task[k].of = n /\ s \in {"running"} \union Ended
  <2>1. k \in Tasks /\ k # 0 /\ task[k].of = n
    BY Now DEF Poll, Own, OfNode
  <2> QED BY <2>1, StatusOf
<1>2. Commit([node EXCEPT ![n] = nd], [item EXCEPT ![n] = item[n]], [run EXCEPT ![n] = r])
  <2>1. CASE s = "running"
    BY <2>1, Same DEF Poll, CommitNode
  <2>2. CASE s = "succeeded"
    BY <2>2, Same DEF Poll
  <2>3. CASE s # "running" /\ s # "succeeded"
    BY <2>3, Same DEF Poll, EndRun
  <2> QED BY <2>1, <2>2, <2>3
<1>3. /\ nd \in NodeRec /\ nd.task = k /\ nd.seen = s /\ s # "none" /\ nd.content = node[n].content
  <2>1. node[n] \in NodeRec
    BY Now
  <2>2. s # "none"
    BY <1>1 DEF Ended
  <2> HIDE DEF k, s
  <2> QED BY <1>1, <2>1, <2>2, BoundIs
<1>4. /\ r \in RunRec
      /\ \/ r.pc = "track" /\ r.task = k
         \/ r.pc = "store" /\ r.task = k /\ s = "succeeded"
         \/ r.pc = "none" /\ r.task = 0
  <2>1. run[n].pc = "track"
    BY DEF Poll
  <2>2. NoRun \in RunRec /\ NoRun.pc = "none" /\ NoRun.task = 0
    BY DEF RunRec, NoRun, TaskOrNone
  <2> QED BY <2>1, <2>2, Now DEF RunRec
<1>5. Own(task, n, nd, item[n], r, rec[n], cancel[n])
  <2> HIDE DEF nd, r
  <2> QED BY <1>1, <1>3, <1>4, Now DEF Own, OfNode, Won
<1>6. ASSUME n \notin lost \union overlapped
      PROVE  OneAttempt(n, nd, item[n], r, rec[n], Live(n), stray[n], sched, asking.node, cancel[n])
  <2>1. Settled(n, item[n], run[n], stray[n], sched) /\ Live(n) \subseteq {k} /\ run[n].pc = "track" /\ k # 0
    BY <1>1, <1>6, Now DEF Poll, OneAttempt
  <2> HIDE DEF nd, r, k, s
  <2> QED BY <1>3, <1>4, <1>6, <2>1, Now DEF OneAttempt, Settled, Quiet
<1> HIDE DEF nd, r
<1> QED BY <1>1, <1>2, <1>3, <1>4, <1>5, <1>6, Now, Same, OnePage DEF Poll, ghosts

LEMMA RunFailsKeeps ==
  ASSUME ConstantsOK, GenerationInv, NEW n \in Nodes, RunFails(n) PROVE GenerationInv'
<1> DEFINE nd == Failed(node[n])
<1>1. Commit([node EXCEPT ![n] = nd], [item EXCEPT ![n] = item[n]], [run EXCEPT ![n] = NoRun])
  BY Same DEF RunFails, EndRun
<1>2. /\ nd \in NodeRec /\ nd.task = node[n].task /\ nd.seen = node[n].seen /\ nd.content = node[n].content
      /\ NoRun \in RunRec /\ NoRun.pc = "none" /\ NoRun.task = 0
  BY Now, FailedIs DEF RunRec, NoRun, TaskOrNone
<1> HIDE DEF nd
<1>3. Own(task, n, nd, item[n], NoRun, rec[n], cancel[n])
  BY <1>2, Now DEF Own, OfNode
<1>4. ASSUME n \notin lost \union overlapped
      PROVE  OneAttempt(n, nd, item[n], NoRun, rec[n], Live(n), stray[n], sched, asking.node, cancel[n])
  BY <1>2, <1>4, Now DEF RunFails, OneAttempt, Settled, Quiet
<1>5. counts' \in CountRec /\ counts'.lost = counts.lost /\ counts'.reloads = counts.reloads
  BY CountedFaults DEF RunFails
<1> QED BY <1>1, <1>2, <1>3, <1>4, <1>5, Now, OnePage DEF RunFails, ghosts

LEMMA StoredKeeps ==
  ASSUME ConstantsOK, GenerationInv, NEW n \in Nodes, Stored(n) PROVE GenerationInv'
<1> DEFINE nd == [node[n] EXCEPT !.status = "success", !.content = run[n].task]
<1>1. Commit([node EXCEPT ![n] = nd], [item EXCEPT ![n] = item[n]], [run EXCEPT ![n] = NoRun])
  BY Same DEF Stored, EndRun
<1>2. /\ nd \in NodeRec /\ nd.task = node[n].task /\ nd.seen = node[n].seen /\ nd.content = run[n].task
      /\ nd.status = "success" /\ NoRun \in RunRec /\ NoRun.pc = "none" /\ NoRun.task = 0
  BY Now DEF NodeRec, RunRec, NoRun, TaskOrNone
<1> HIDE DEF nd
<1>3. Own(task, n, nd, item[n], NoRun, rec[n], cancel[n])
  BY <1>2, Now DEF Own, OfNode, Stored
<1>4. ASSUME n \notin lost \union overlapped
      PROVE  OneAttempt(n, nd, item[n], NoRun, rec[n], Live(n), stray[n], sched, asking.node, cancel[n])
  BY <1>2, <1>4, Now DEF Stored, OneAttempt, Settled, Quiet
<1> QED BY <1>1, <1>2, <1>3, <1>4, Now, Same, OnePage DEF Stored, ghosts

\* A cancellation leaves no more tasks that may pay than there were.
LEMMA CancelledAtBackend ==
  ASSUME ConstantsOK, GenerationInv, NEW k \in Tasks, CancelAtBackend(k), Aside
  PROVE  /\ TaskInv' /\ NewestInv' /\ TasksMove /\ task' \in [Tasks -> TaskRec]
         /\ \A n \in Nodes : Live(n)' \subseteq Live(n) /\ TasksOf(n)' = TasksOf(n)
         /\ task[k].of # 0 => task'[k].status \in {"running"} \union Ended
<1>1. CASE UNCHANGED task
  <2>1. task[k].of # 0 => task[k].status \in {"running"} \union Ended
    BY Types DEF GenerationInv, TaskInv, TaskRec
  <2> QED BY <1>1, <2>1, TaskSame
<1>2. CASE task[k].status = "running" /\ task' = [task EXCEPT ![k].status = "cancelled"]
  <2>1. "cancelled" \in Ended /\ task'[k].status = "cancelled"
    BY <1>2, Types DEF Ended, GenerationInv, TaskRec
  <2> QED BY <1>2, <2>1, TaskOver
<1> QED BY <1>1, <1>2 DEF CancelAtBackend

LEMMA StoppedTrackingKeeps ==
  ASSUME ConstantsOK, GenerationInv, NEW n \in Nodes, StoppedTracking(n) PROVE GenerationInv'
<1> DEFINE k == run[n].task
           s == task'[k].status
           nd == IF s \in {"failed", "cancelled"} THEN Bound(node[n], k, s) ELSE Failed(node[n])
<1>1. Commit([node EXCEPT ![n] = nd], [item EXCEPT ![n] = item[n]], [run EXCEPT ![n] = NoRun])
  BY Same DEF StoppedTracking, EndRun
<1>2. k \in Tasks /\ k # 0 /\ task[k].of = n /\ n # 0
  BY Now, ConstantsOK DEF StoppedTracking, Own, OfNode
<1>3. /\ TaskInv' /\ NewestInv' /\ TasksMove /\ task' \in [Tasks -> TaskRec]
      /\ \A m \in Nodes : Live(m)' \subseteq Live(m)
      /\ s \in {"running"} \union Ended
  <2>1. Aside /\ CancelAtBackend(k)
    BY DEF Aside, StoppedTracking, ghosts
  <2> QED BY <1>2, <2>1, CancelledAtBackend
<1>4. /\ nd \in NodeRec /\ nd.content = node[n].content /\ (nd.task = 0 <=> nd.seen = "none")
      /\ nd.task \in {k, node[n].task}
      /\ node[n].task # 0 => nd.task # 0
      /\ NoRun \in RunRec /\ NoRun.pc = "none" /\ NoRun.task = 0
  <2>1. s # "none"
    BY <1>3 DEF Ended
  <2>2. node[n] \in NodeRec
    BY Now
  <2>3. Bound(node[n], k, s) \in NodeRec /\ Bound(node[n], k, s).task = k /\ Bound(node[n], k, s).seen = s
        /\ Bound(node[n], k, s).content = node[n].content
    <3> HIDE DEF k, s
    <3> QED BY <1>2, <1>3, <2>2, BoundIs
  <2> QED BY <1>2, <2>1, <2>3, Now, FailedIs DEF RunRec, NoRun, TaskOrNone
<1> HIDE DEF nd
<1>5. Own(task', n, nd, item[n], NoRun, rec'[n], cancel'[n])
  <2>1. Own(task, n, nd, item[n], NoRun, rec[n], cancel[n])
    <3>1. OfNode(task, n, nd.task)
      BY <1>2, <1>4, Now DEF Own, OfNode
    <3> HIDE DEF k, s
    <3> QED BY <1>4, <3>1, Now DEF Own, OfNode
  <2> QED BY <1>3, <2>1, OwnKept DEF StoppedTracking
<1>6. ASSUME n \notin lost \union overlapped
      PROVE  OneAttempt(n, nd, item[n], NoRun, rec'[n], Live(n)', stray'[n], sched', asking'.node, cancel'[n])
  <2>1. Live(n)' \subseteq Live(n) /\ UNCHANGED <<stray, rec, sched, asking, cancel>>
    BY <1>3 DEF StoppedTracking
  <2>2. Settled(n, item[n], run[n], stray[n], sched) /\ Live(n) \subseteq {k} /\ run[n].pc = "track" /\ k # 0
        /\ node[n].task # 0 /\ Live(n) \subseteq {node[n].task}
    BY <1>2, <1>6, Now DEF StoppedTracking, OneAttempt
  <2> HIDE DEF k, s
  <2>3. OneAttempt(n, nd, item[n], NoRun, rec[n], Live(n)', stray[n], sched, asking.node, cancel[n])
    <3>1. Live(n)' \subseteq {k} /\ Live(n)' \subseteq {node[n].task} /\ Live(n)' \subseteq {nd.task}
      BY <1>4, <2>1, <2>2
    <3>2. OneAttempt(n, node[n], item[n], run[n], rec[n], Live(n), stray[n], sched, asking.node, cancel[n])
      BY <1>6, Now
    <3> QED BY <1>4, <2>1, <2>2, <3>1, <3>2 DEF OneAttempt, Settled, Quiet
  <2> QED BY <2>1, <2>3
<1>7. Good(n, nd, item[n], NoRun)
  BY <1>4, <1>5, <1>6, Now DEF Good, StoppedTracking, ghosts
<1> QED BY <1>1, <1>3, <1>4, <1>7, Now, Same, Types, OneNode DEF StoppedTracking, ghosts, GenerationInv

-----------------------------------------------------------------------------
(* Creations, and tasks that end.                                          *)

LEMMA AcceptKeeps ==
  ASSUME ConstantsOK, GenerationInv, NEW n \in Nodes, Accept(n) PROVE GenerationInv'
<1>1. PICK k \in Tasks : Create(n, k) /\ run' = [run EXCEPT ![n].task = k]
  BY DEF Accept
<1>2. UNCHANGED <<node, item, stray, rec, due, sched, asking, cancel, lost, overlapped, counts>> /\ Aside
  BY DEF Accept, ghosts, Aside
<1>3. n \in lost \union overlapped \/ Live(n) = {}
  BY Now DEF Accept, OneAttempt, Quiet
<1>4. /\ TaskInv' /\ NewestInv' /\ TasksMove /\ task' \in [Tasks -> TaskRec]
      /\ \A m \in Nodes \ {n} : Live(m)' = Live(m)
      /\ Live(n)' = Live(n) \union {k} /\ task'[k].of = n /\ k # 0
  BY <1>1, <1>2, <1>3, Created
<1> DEFINE r == [run[n] EXCEPT !.task = k]
<1>5. r \in RunRec /\ r.pc = "posted" /\ r.task = k
  BY Now DEF RunRec, TaskOrNone, Accept
<1>6. run' \in [Nodes -> RunRec] /\ run'[n] = r /\ \A m \in Nodes \ {n} : run'[m] = run[m]
  BY <1>1, <1>5, Types DEF GenerationInv
<1> HIDE DEF r
<1>7. Good(n, node[n], item[n], r)
  <2>1. Own(task', n, node[n], item[n], run[n], rec[n], cancel[n])
    BY <1>4, Now, OwnKept
  <2>2. Own(task', n, node[n], item[n], r, rec'[n], cancel'[n])
    BY <1>2, <1>4, <1>5, <2>1 DEF Own, OfNode
  <2>3. ASSUME n \notin lost \union overlapped
        PROVE  OneAttempt(n, node[n], item[n], r, rec'[n], Live(n)', stray'[n], sched', asking'.node, cancel'[n])
    <3>1. /\ OneAttempt(n, node[n], item[n], run[n], rec[n], Live(n), stray[n], sched, asking.node, cancel[n])
          /\ ~Quiet(run[n], stray[n]) /\ run[n].pc = "posted"
      BY <2>3, Now DEF Accept, Quiet
    <3>2. /\ stray[n] = 0 /\ Live(n)' = {k} /\ item[n].status = "submitting" /\ n \notin sched /\ node[n].task = 0
          /\ node[n].status # "error" /\ rec[n].pc \in {"none", "read"} /\ asking.node # n /\ cancel[n] = 0
      BY <1>4, <3>1 DEF OneAttempt
    <3>3. OneAttempt(n, node[n], item[n], r, rec[n], Live(n)', stray[n], sched, asking.node, cancel[n])
      BY <1>4, <1>5, <3>2 DEF OneAttempt, Settled, Quiet
    <3> QED BY <1>2, <3>3
  <2> QED BY <1>2, <1>5, <2>2, <2>3, Now DEF Good
<1>8. \A m \in Nodes : Good(m, node'[m], item'[m], run'[m])
  BY <1>2, <1>4, <1>6, <1>7, Elsewhere
<1> QED BY <1>2, <1>4, <1>6, <1>8, Types, Assembled DEF GenerationInv, TypeInv

LEMMA StrayAcceptedKeeps ==
  ASSUME ConstantsOK, GenerationInv, NEW n \in Nodes, StrayAccepted(n) PROVE GenerationInv'
<1>1. PICK k \in Tasks : Create(n, k)
  BY DEF StrayAccepted
<1>2. UNCHANGED <<node, item, run, rec, due, sched, asking, cancel, lost, overlapped, counts>> /\ Aside
  BY DEF StrayAccepted, ghosts, page, Aside
<1>3. n \in lost \union overlapped \/ Live(n) = {}
  BY Now, Types DEF StrayAccepted, OneAttempt, Quiet, GenerationInv
<1>4. /\ TaskInv' /\ NewestInv' /\ TasksMove /\ task' \in [Tasks -> TaskRec]
      /\ \A m \in Nodes \ {n} : Live(m)' = Live(m)
      /\ Live(n)' = Live(n) \union {k} /\ task'[k].of = n /\ k # 0
  BY <1>1, <1>2, <1>3, Created
<1>5. /\ stray' \in [Nodes -> Nat] /\ stray'[n] = stray[n] - 1 /\ \A m \in Nodes \ {n} : stray'[m] = stray[m]
      /\ stray[n] > 0 /\ stray[n] \in Nat
  BY Types DEF StrayAccepted, GenerationInv
<1>6. Good(n, node[n], item[n], run[n])
  <2>1. Own(task', n, node[n], item[n], run[n], rec'[n], cancel'[n])
    BY <1>2, <1>4, Now, OwnKept
  <2>2. ASSUME n \notin lost \union overlapped
        PROVE  OneAttempt(n, node[n], item[n], run[n], rec'[n], Live(n)', stray'[n], sched', asking'.node, cancel'[n])
    <3>1. /\ OneAttempt(n, node[n], item[n], run[n], rec[n], Live(n), stray[n], sched, asking.node, cancel[n])
          /\ ~Quiet(run[n], stray[n])
      BY <1>5, <2>2, Now DEF Quiet
    <3>2. /\ stray[n] = 1 /\ Live(n)' = {k} /\ item[n].status = "submitting" /\ n \notin sched /\ node[n].task = 0
          /\ node[n].status # "error" /\ rec[n].pc \in {"none", "read"} /\ asking.node # n /\ cancel[n] = 0
          /\ run[n].pc = "none" /\ stray'[n] = 0
      BY <1>4, <1>5, <3>1 DEF OneAttempt
    <3>3. run[n].task = 0
      BY <3>2, Now DEF Own
    <3>4. OneAttempt(n, node[n], item[n], run[n], rec[n], Live(n)', stray'[n], sched, asking.node, cancel[n])
      BY <3>2, <3>3 DEF OneAttempt, Settled, Quiet
    <3> QED BY <1>2, <3>4
  <2> QED BY <1>2, <2>1, <2>2, Now DEF Good
<1>7. \A m \in Nodes : Good(m, node'[m], item'[m], run'[m])
  BY <1>2, <1>4, <1>5, <1>6, Elsewhere
<1>8. \A m \in Nodes : stray'[m] <= counts'.lost + counts'.reloads
  <2>1. counts.lost + counts.reloads \in Nat
    BY Types DEF GenerationInv, CountRec
  <2>2. \A m \in Nodes : stray'[m] \in Nat /\ stray[m] \in Nat /\ stray'[m] <= stray[m]
    BY <1>5, Types DEF GenerationInv
  <2>3. \A m \in Nodes : stray[m] <= counts.lost + counts.reloads
    BY DEF GenerationInv, TypeInv
  <2> QED BY <1>2, <2>1, <2>2, <2>3
<1> QED BY <1>2, <1>4, <1>5, <1>7, <1>8, Types, Assembled DEF GenerationInv, TypeInv

LEMMA LoseReplyKeeps ==
  ASSUME ConstantsOK, GenerationInv, NEW n \in Nodes, LoseReply(n) PROVE GenerationInv'
<1> DEFINE nd == Failed(node[n])
<1>1. Commit([node EXCEPT ![n] = nd], item, [run EXCEPT ![n] = NoRun])
  BY DEF LoseReply, EndRun
<1>2. /\ nd \in NodeRec /\ nd.task = node[n].task /\ nd.seen = node[n].seen /\ nd.content = node[n].content
      /\ NoRun \in RunRec /\ NoRun.pc = "none" /\ NoRun.task = 0
  BY Now, FailedIs DEF RunRec, NoRun, TaskOrNone
<1> HIDE DEF nd
<1>3. /\ UNCHANGED <<task, rec, due, sched, asking, cancel, overlapped>> /\ lost' = lost \union {n} /\ Aside
  BY DEF LoseReply, Aside
<1>4. /\ TaskInv' /\ NewestInv' /\ TasksMove /\ task' \in [Tasks -> TaskRec]
      /\ \A m \in Nodes : Live(m)' = Live(m) /\ TasksOf(m)' = TasksOf(m)
  BY <1>3, TaskSame
<1>5. /\ stray' \in [Nodes -> Nat] /\ stray'[n] <= stray[n] + 1 /\ \A m \in Nodes \ {n} : stray'[m] = stray[m]
      /\ stray[n] \in Nat
  BY Types DEF LoseReply, GenerationInv
<1>6. /\ counts' \in CountRec /\ counts'.lost = counts.lost + 1 /\ counts'.reloads = counts.reloads
      /\ counts'.lost <= MaxLost
  BY Types, ConstantsOK DEF LoseReply, Counted, GenerationInv, CountRec
<1>7. \A m \in Nodes : stray'[m] <= counts'.lost + counts'.reloads
  <2>1. counts.lost \in Nat /\ counts.reloads \in Nat
    BY Types DEF GenerationInv, CountRec
  <2>2. \A m \in Nodes : stray'[m] \in Nat /\ stray[m] \in Nat /\ stray'[m] <= stray[m] + 1
    BY <1>5, Types DEF GenerationInv
  <2>3. \A m \in Nodes : stray[m] <= counts.lost + counts.reloads
    BY DEF GenerationInv, TypeInv
  <2> QED BY <1>6, <2>1, <2>2, <2>3
<1>8. \A m \in Nodes \ {n} : Good(m, node[m], item[m], run[m])
  BY <1>3, <1>4, <1>5, Elsewhere
<1>9. Good(n, nd, item[n], NoRun)
  <2>1. Own(task', n, nd, item[n], NoRun, rec'[n], cancel'[n])
    BY <1>2, <1>3, Now DEF Own, OfNode
  <2> QED BY <1>2, <1>3, <2>1, Now DEF Good
<1> DEFINE f == [node EXCEPT ![n] = nd]
           h == [run EXCEPT ![n] = NoRun]
<1>10. /\ f \in [Nodes -> NodeRec] /\ item \in [Nodes -> ItemRec] /\ h \in [Nodes -> RunRec]
       /\ f[n] = nd /\ h[n] = NoRun
       /\ \A m \in Nodes \ {n} : f[m] = node[m] /\ h[m] = run[m]
  BY <1>2, Types DEF GenerationInv
<1>11. Commit(f, item, h)
  BY <1>1
<1> HIDE DEF f, h
<1>12. \A m \in Nodes : Good(m, f[m], item[m], h[m])
  BY <1>8, <1>9, <1>10
<1>13. /\ node' \in [Nodes -> NodeRec] /\ item' \in [Nodes -> ItemRec] /\ run' \in [Nodes -> RunRec]
       /\ \A m \in Nodes : Good(m, node'[m], item'[m], run'[m])
  BY <1>10, <1>11, <1>12, CommitGood
<1> QED BY <1>3, <1>4, <1>5, <1>6, <1>7, <1>13, Types, Assembled DEF GenerationInv, TypeInv

\* Steps that change nothing of the page
LEMMA PageStays ==
  ASSUME ConstantsOK, GenerationInv, UNCHANGED <<node, item, run, stray, lost, overlapped>>,
         \A m \in Nodes : Good(m, node[m], item[m], run[m]),
         rec' \in [Nodes -> RecRec], task' \in [Tasks -> TaskRec], cancel' \in [Nodes -> TaskOrNone],
         due' \in BOOLEAN, sched' \subseteq Nodes, asking' \in [node : Nodes \union {0}, source : TaskOrNone],
         counts' \in CountRec, counts'.lost = counts.lost, counts'.reloads = counts.reloads,
         TaskInv', NewestInv'
  PROVE  GenerationInv'
<1>1. /\ node' \in [Nodes -> NodeRec] /\ item' \in [Nodes -> ItemRec] /\ run' \in [Nodes -> RunRec]
      /\ \A m \in Nodes : Good(m, node'[m], item'[m], run'[m])
  BY Types DEF GenerationInv
<1>2. /\ stray' \in [Nodes -> Nat] /\ counts'.lost <= MaxLost /\ counts'.reloads <= MaxReloads
      /\ \A m \in Nodes : stray'[m] <= counts'.lost + counts'.reloads
  BY Types DEF GenerationInv, TypeInv
<1> QED BY <1>1, <1>2, Assembled

LEMMA TaskEndsKeeps ==
  ASSUME ConstantsOK, GenerationInv, NEW k \in Tasks, TaskEnds(k) PROVE GenerationInv'
<1>1. PICK s \in {"succeeded", "failed"} : task' = [task EXCEPT ![k].status = s]
  BY DEF TaskEnds
<1>2. UNCHANGED <<node, item, run, stray, rec, due, sched, asking, cancel, lost, overlapped, counts>> /\ Aside
  BY DEF TaskEnds, ghosts, page, Aside
<1>3. /\ TaskInv' /\ NewestInv' /\ TasksMove /\ task' \in [Tasks -> TaskRec]
      /\ \A n \in Nodes : Live(n)' \subseteq Live(n) /\ TasksOf(n)' = TasksOf(n)
  BY <1>1, <1>2, TaskOver DEF TaskEnds, Ended
<1>4. \A m \in Nodes : Good(m, node[m], item[m], run[m])
  BY <1>2, <1>3, Elsewhere
<1> QED BY <1>2, <1>3, <1>4, Types, PageStays DEF GenerationInv

-----------------------------------------------------------------------------
(* The scheduler and the user.                                             *)

LEMMA ScheduleStartKeeps ==
  ASSUME ConstantsOK, GenerationInv, ScheduleStart PROVE GenerationInv'
<1>1. UNCHANGED <<node, item, run, stray, rec, due, asking, cancel, task, lost, overlapped, counts>> /\ Aside
  BY DEF ScheduleStart, ghosts, page, Aside
<1>2. /\ TaskInv' /\ NewestInv' /\ TasksMove /\ task' \in [Tasks -> TaskRec]
      /\ \A n \in Nodes : Live(n)' = Live(n) /\ TasksOf(n)' = TasksOf(n)
  BY <1>1, TaskSame
<1>3. \A m \in Nodes : Good(m, node[m], item[m], run[m])
  <2> SUFFICES ASSUME NEW m \in Nodes PROVE Good(m, node[m], item[m], run[m])
    OBVIOUS
  <2>1. CASE m \in sched'
    <3>1. item[m].status = "waiting"
      BY <2>1 DEF ScheduleStart, Candidates
    <3>2. ASSUME m \notin lost \union overlapped
          PROVE  OneAttempt(m, node[m], item[m], run[m], rec'[m], Live(m)', stray'[m], sched', asking'.node, cancel'[m])
      <4>1. OneAttempt(m, node[m], item[m], run[m], rec[m], Live(m), stray[m], sched, asking.node, cancel[m])
            /\ run[m].task = 0
        BY <3>1, <3>2, Now DEF OneAttempt, Own
      <4>2. OneAttempt(m, node[m], item[m], run[m], rec[m], Live(m), stray[m], sched', asking.node, cancel[m])
        BY <3>1, <4>1 DEF OneAttempt, Settled
      <4> QED BY <1>1, <1>2, <4>2
    <3> QED BY <1>1, <3>2, Now DEF Good
  <2>2. CASE m \notin sched'
    BY <1>1, <1>2, <2>2, Elsewhere
  <2> QED BY <2>1, <2>2
<1>4. sched' \subseteq Nodes /\ counts \in CountRec
  BY Types DEF ScheduleStart, Candidates, GenerationInv
<1> QED BY <1>1, <1>2, <1>3, <1>4, Types, PageStays DEF GenerationInv

\* Steps that change many nodes at a time
LEMMA ManyNodes ==
  ASSUME ConstantsOK, GenerationInv,
         NEW f \in [Nodes -> NodeRec], NEW g \in [Nodes -> ItemRec], NEW h \in [Nodes -> RunRec],
         Commit(f, g, h), \A m \in Nodes : Good(m, f[m], g[m], h[m]),
         UNCHANGED <<stray, due, lost>>, Aside,
         rec' \in [Nodes -> RecRec], task' \in [Tasks -> TaskRec], cancel' \in [Nodes -> TaskOrNone],
         sched' \subseteq Nodes, asking' \in [node : Nodes \union {0}, source : TaskOrNone],
         counts' \in CountRec, counts'.lost = counts.lost, counts'.reloads = counts.reloads,
         TaskInv', NewestInv'
  PROVE  GenerationInv'
<1>1. /\ node' \in [Nodes -> NodeRec] /\ item' \in [Nodes -> ItemRec] /\ run' \in [Nodes -> RunRec]
      /\ \A m \in Nodes : Good(m, node'[m], item'[m], run'[m])
  BY CommitGood
<1>2. /\ stray' \in [Nodes -> Nat] /\ counts'.lost <= MaxLost /\ counts'.reloads <= MaxReloads /\ due' \in BOOLEAN
      /\ \A m \in Nodes : stray'[m] <= counts'.lost + counts'.reloads
  BY Types DEF GenerationInv, TypeInv
<1> QED BY <1>1, <1>2, Assembled

LEMMA ScheduleEndKeeps ==
  ASSUME ConstantsOK, GenerationInv, ScheduleEnd PROVE GenerationInv'
<1>1. PICK fit \in SUBSET sched :
         LET start == {n \in fit : ~Busy(n)} IN
         Commit(node,
                [n \in Nodes |-> IF n \in start THEN [item[n] EXCEPT !.status = "submitting"] ELSE item[n]],
                [n \in Nodes |-> IF n \in start /\ ~Pending(node[n])
                                 THEN [NoRun EXCEPT !.pc = "prepare"] ELSE run[n]])
  BY DEF ScheduleEnd
<1> DEFINE start == {n \in fit : ~Busy(n)}
           g == [n \in Nodes |-> IF n \in start THEN [item[n] EXCEPT !.status = "submitting"] ELSE item[n]]
           h == [n \in Nodes |-> IF n \in start /\ ~Pending(node[n])
                                 THEN [NoRun EXCEPT !.pc = "prepare"] ELSE run[n]]
           r == [NoRun EXCEPT !.pc = "prepare"]
<1>2. /\ UNCHANGED <<stray, rec, due, asking, cancel, task, lost, overlapped, counts>> /\ Aside /\ sched' = {}
  BY DEF ScheduleEnd, ghosts, Aside
<1>3. /\ TaskInv' /\ NewestInv' /\ TasksMove /\ task' \in [Tasks -> TaskRec]
      /\ \A n \in Nodes : Live(n)' = Live(n) /\ TasksOf(n)' = TasksOf(n)
  BY <1>2, TaskSame
<1>4. r \in RunRec /\ r.pc = "prepare" /\ r.task = 0
  BY DEF RunRec, NoRun, TaskOrNone
<1>5. g \in [Nodes -> ItemRec] /\ h \in [Nodes -> RunRec] /\ node \in [Nodes -> NodeRec]
  <2>1. \A n \in Nodes : [item[n] EXCEPT !.status = "submitting"] \in ItemRec /\ item[n] \in ItemRec /\ run[n] \in RunRec
    BY Now DEF ItemRec
  <2> QED BY <1>4, <2>1, Types DEF GenerationInv
<1>6. Commit(node, g, h)
  BY <1>1
<1>7. \A m \in Nodes : Good(m, node[m], g[m], h[m])
  <2> SUFFICES ASSUME NEW m \in Nodes PROVE Good(m, node[m], g[m], h[m])
    OBVIOUS
  <2>1. CASE m \notin start
    <3>1. Good(m, node[m], item[m], run[m])
      BY <1>2, <1>3, Elsewhere
    <3> QED BY <2>1, <3>1
  <2>2. CASE m \in start
    <3> DEFINE it == [item[m] EXCEPT !.status = "submitting"]
    <3>1. /\ it \in ItemRec /\ it.status = "submitting" /\ it.task = item[m].task /\ run[m].pc = "none" /\ m \in sched
          /\ g[m] = it /\ h[m] = IF ~Pending(node[m]) THEN r ELSE run[m]
      BY <2>2, Now DEF ItemRec, Busy
    <3> HIDE DEF it, g, h
    <3>2. h[m] \in RunRec /\ h[m].task = 0 /\ h[m].pc \in {"none", "prepare"}
      <4>1. run[m] \in RunRec /\ run[m].task = 0
        BY <3>1, Now DEF Own
      <4> QED BY <1>4, <3>1, <4>1
    <3>3. Own(task', m, node[m], it, h[m], rec'[m], cancel'[m])
      <4>1. Own(task, m, node[m], it, h[m], rec[m], cancel[m])
        BY <3>1, <3>2, Now DEF Own, OfNode
      <4> QED BY <1>2, <4>1
    <3>4. ASSUME m \notin lost \union overlapped
          PROVE  OneAttempt(m, node[m], it, h[m], rec'[m], Live(m)', stray'[m], sched', asking'.node, cancel'[m])
      <4>1. OneAttempt(m, node[m], item[m], run[m], rec[m], Live(m), stray[m], sched, asking.node, cancel[m])
        BY <3>4, Now
      <4>2. /\ stray[m] = 0 /\ rec[m].pc = "none" /\ Live(m) = {} /\ node[m].task = 0 /\ node[m].status = "idle"
            /\ asking.node # m /\ cancel[m] = 0
        BY <3>1, <4>1 DEF OneAttempt, Quiet
      <4>3. OneAttempt(m, node[m], it, h[m], rec[m], Live(m), stray[m], {}, asking.node, cancel[m])
        BY <3>1, <3>2, <4>2 DEF OneAttempt, Settled, Quiet
      <4> QED BY <1>2, <1>3, <4>3
    <3> QED BY <1>2, <3>1, <3>2, <3>3, <3>4, Now DEF Good
  <2> QED BY <2>1, <2>2
<1> HIDE DEF g, h
<1> QED BY <1>2, <1>3, <1>5, <1>6, <1>7, Types, ManyNodes DEF GenerationInv

LEMMA StopRemainingKeeps ==
  ASSUME ConstantsOK, GenerationInv, StopRemaining PROVE GenerationInv'
<1>1. PICK stopped \in SUBSET {n \in Nodes : item[n].status \in {"waiting", "submitting"} /\ node[n].task = 0} :
         LET sent == {n \in stopped : item[n].status = "submitting"} IN
         Commit([n \in Nodes |-> IF n \in sent THEN Locked(node[n]) ELSE node[n]],
                [n \in Nodes |-> IF n \in stopped \ sent
                                 THEN [item[n] EXCEPT !.status = "cancelled"] ELSE item[n]],
                [n \in Nodes |-> IF n \in stopped /\ Busy(n) THEN [run[n] EXCEPT !.aborted = TRUE] ELSE run[n]])
  BY DEF StopRemaining
<1> DEFINE sent == {n \in stopped : item[n].status = "submitting"}
           f == [n \in Nodes |-> IF n \in sent THEN Locked(node[n]) ELSE node[n]]
           g == [n \in Nodes |-> IF n \in stopped \ sent THEN [item[n] EXCEPT !.status = "cancelled"] ELSE item[n]]
           h == [n \in Nodes |-> IF n \in stopped /\ Busy(n) THEN [run[n] EXCEPT !.aborted = TRUE] ELSE run[n]]
<1>2. /\ UNCHANGED <<stray, rec, due, sched, asking, cancel, task, lost, overlapped, counts>> /\ Aside
  BY DEF StopRemaining, ghosts, Aside
<1>3. /\ TaskInv' /\ NewestInv' /\ TasksMove /\ task' \in [Tasks -> TaskRec]
      /\ \A n \in Nodes : Live(n)' = Live(n) /\ TasksOf(n)' = TasksOf(n)
  BY <1>2, TaskSame
<1>4. ASSUME NEW m \in Nodes
      PROVE  /\ f[m] \in NodeRec /\ f[m].task = node[m].task /\ f[m].seen = node[m].seen
             /\ f[m].content = node[m].content
             /\ IF m \in stopped /\ item[m].status = "submitting" THEN f[m].status = "loading" ELSE f[m] = node[m]
             /\ g[m] \in ItemRec /\ g[m].task = item[m].task
             /\ g[m].status = IF m \in stopped /\ item[m].status # "submitting" THEN "cancelled" ELSE item[m].status
             /\ h[m] \in RunRec /\ h[m].pc = run[m].pc /\ h[m].task = run[m].task
  <2>1. /\ [item[m] EXCEPT !.status = "cancelled"] \in ItemRec /\ item[m] \in ItemRec /\ run[m] \in RunRec
        /\ [run[m] EXCEPT !.aborted = TRUE] \in RunRec /\ node[m] \in NodeRec
    <3>1. item[m] \in ItemRec /\ run[m] \in RunRec /\ node[m] \in NodeRec
      BY Now
    <3>2. [item[m] EXCEPT !.status = "cancelled"] \in ItemRec
      BY <3>1 DEF ItemRec, Ended
    <3>3. [run[m] EXCEPT !.aborted = TRUE] \in RunRec
      BY <3>1 DEF RunRec
    <3> QED BY <3>1, <3>2, <3>3
  <2>2. h[m] \in RunRec /\ h[m].pc = run[m].pc /\ h[m].task = run[m].task
    BY <2>1 DEF RunRec
  <2>3. /\ g[m] \in ItemRec /\ g[m].task = item[m].task
        /\ g[m].status = IF m \in stopped /\ item[m].status # "submitting" THEN "cancelled" ELSE item[m].status
    BY <2>1 DEF ItemRec
  <2> QED BY <2>1, <2>2, <2>3, LockedIs
<1>5. f \in [Nodes -> NodeRec] /\ g \in [Nodes -> ItemRec] /\ h \in [Nodes -> RunRec]
  BY <1>4
<1>6. Commit(f, g, h)
  BY <1>1
<1> HIDE DEF f, g, h
<1>7. \A m \in Nodes : Good(m, f[m], g[m], h[m])
  <2> SUFFICES ASSUME NEW m \in Nodes PROVE Good(m, f[m], g[m], h[m])
    OBVIOUS
  <2>1. m \in stopped => item[m].status \in {"waiting", "submitting"} /\ node[m].task = 0
    OBVIOUS
  <2>2. Own(task, m, f[m], g[m], h[m], rec[m], cancel[m])
    BY <1>4, <2>1, Now DEF Own, OfNode
  <2>3. ASSUME m \notin lost \union overlapped
        PROVE  OneAttempt(m, f[m], g[m], h[m], rec[m], Live(m), stray[m], sched, asking.node, cancel[m])
    <3>1. OneAttempt(m, node[m], item[m], run[m], rec[m], Live(m), stray[m], sched, asking.node, cancel[m])
      BY <2>3, Now
    <3>2. CASE m \in stopped /\ item[m].status = "submitting"
      BY <1>4, <2>1, <3>1, <3>2 DEF OneAttempt, Settled, Quiet
    <3>3. CASE m \in stopped /\ item[m].status # "submitting"
      <4>1. /\ item[m].status = "waiting" /\ g[m].status = "cancelled" /\ f[m] = node[m] /\ h[m].pc = run[m].pc
            /\ h[m].task = run[m].task /\ run[m].pc = "none" /\ run[m].task = 0
        BY <1>4, <2>1, <3>1, <3>3, Now DEF OneAttempt, Own
      <4> QED BY <3>1, <4>1 DEF OneAttempt, Settled, Quiet
    <3>4. CASE m \notin stopped
      BY <1>4, <3>1, <3>4 DEF OneAttempt, Settled, Quiet
    <3> QED BY <3>2, <3>3, <3>4
  <2>4. f[m].task = 0 <=> f[m].seen = "none"
    BY <1>4, Now
  <2> QED BY <1>2, <1>3, <1>4, <2>2, <2>3, <2>4 DEF Good
<1> QED BY <1>2, <1>3, <1>5, <1>6, <1>7, Types, ManyNodes DEF GenerationInv

LEMMA CancelItemKeeps ==
  ASSUME ConstantsOK, GenerationInv, NEW n \in Nodes, CancelItem(n) PROVE GenerationInv'
<1> DEFINE k == item[n].task
<1>1. /\ UNCHANGED <<node, item, run, stray, rec, due, sched, asking, lost, overlapped, counts>> /\ Aside
      /\ asking = NoQuestion /\ item[n].status = "running"
  BY DEF CancelItem, NoDialog, ghosts, page, Aside
<1>2. k \in Tasks /\ k # 0 /\ task[k].of = n /\ n # 0
  BY <1>1, Now, ConstantsOK DEF Own, OfNode
<1>3. /\ TaskInv' /\ NewestInv' /\ TasksMove /\ task' \in [Tasks -> TaskRec]
      /\ \A m \in Nodes : Live(m)' \subseteq Live(m)
  BY <1>1, <1>2, CancelledAtBackend DEF CancelItem
<1>4. cancel' \in [Nodes -> TaskOrNone] /\ cancel'[n] = k /\ \A m \in Nodes \ {n} : cancel'[m] = cancel[m]
  BY <1>2, Types DEF CancelItem, GenerationInv, TaskOrNone
<1>5. Good(n, node[n], item[n], run[n])
  <2>1. Own(task', n, node[n], item[n], run[n], rec[n], cancel[n])
    BY <1>3, Now, OwnKept
  <2>2. Own(task', n, node[n], item[n], run[n], rec'[n], cancel'[n])
    BY <1>1, <1>4, <2>1 DEF Own, OfNode
  <2>3. ASSUME n \notin lost \union overlapped
        PROVE  OneAttempt(n, node[n], item[n], run[n], rec'[n], Live(n)', stray'[n], sched', asking'.node, cancel'[n])
    <3>1. OneAttempt(n, node[n], item[n], run[n], rec[n], Live(n), stray[n], sched, asking.node, cancel[n])
      BY <2>3, Now
    <3>2. asking.node # n
      BY <1>1, <1>2 DEF NoQuestion
    <3>3. Live(n)' \subseteq Live(n) /\ Live(n) \subseteq {k} /\ Settled(n, item[n], run[n], stray[n], sched)
      BY <1>1, <1>3, <3>1 DEF OneAttempt
    <3> HIDE DEF k
    <3>4. OneAttempt(n, node[n], item[n], run[n], rec[n], Live(n)', stray[n], sched, asking.node, k)
      BY <3>1, <3>2, <3>3 DEF OneAttempt, Settled
    <3> QED BY <1>1, <1>4, <3>4
  <2> QED BY <1>1, <2>2, <2>3, Now DEF Good
<1>6. \A m \in Nodes : Good(m, node[m], item[m], run[m])
  BY <1>1, <1>3, <1>4, <1>5, Elsewhere
<1> QED BY <1>1, <1>3, <1>4, <1>6, Types, PageStays DEF GenerationInv

LEMMA CancelAnsweredKeeps ==
  ASSUME ConstantsOK, GenerationInv, NEW n \in Nodes, CancelAnswered(n) PROVE GenerationInv'
<1> DEFINE k == cancel[n]
           s == task[k].status
<1>1. /\ UNCHANGED <<stray, task, due, sched, asking, lost, overlapped, counts>> /\ Aside
      /\ k # 0 /\ cancel' = [cancel EXCEPT ![n] = 0]
  BY DEF CancelAnswered, ghosts, Aside
<1>2. /\ TaskInv' /\ NewestInv' /\ TasksMove /\ task' \in [Tasks -> TaskRec]
      /\ \A m \in Nodes : Live(m)' = Live(m) /\ TasksOf(m)' = TasksOf(m)
  BY <1>1, TaskSame
<1>3. k \in Tasks /\ task[k].of = n
  BY <1>1, Now DEF Own, OfNode
<1>4. /\ cancel' \in [Nodes -> TaskOrNone] /\ cancel'[n] = 0 /\ \A m \in Nodes \ {n} : cancel'[m] = cancel[m]
  BY <1>1, Types DEF GenerationInv, TaskOrNone
<1>5. CASE s \in {"failed", "cancelled"}
  <2> DEFINE nd == Failed(Bound(node[n], k, s))
             it == [item[n] EXCEPT !.status = s, !.task = k]
             f == [node EXCEPT ![n] = nd]
             g == [item EXCEPT ![n].status = s, ![n].task = k]
             h == StoppedRuns(k)
  <2>1. Commit(f, g, h) /\ rec' = StoppedRecs(k)
    BY <1>5 DEF CancelAnswered
  <2>2. /\ nd \in NodeRec /\ nd.task = k /\ nd.seen = s /\ s # "none" /\ nd.content = node[n].content
        /\ nd.status = "error"
    <3>1. node[n] \in NodeRec /\ s \in {"running"} \union Ended /\ s # "none"
      BY <1>5, Now DEF Ended
    <3> HIDE DEF k, s
    <3>2. /\ Bound(node[n], k, s) \in NodeRec /\ Bound(node[n], k, s).task = k
          /\ Bound(node[n], k, s).seen = s /\ Bound(node[n], k, s).content = node[n].content
      BY <1>3, <3>1, BoundIs
    <3> QED BY <3>1, <3>2, FailedIs
  <2>3. it \in ItemRec /\ it.status = s /\ it.task = k
    <3>1. item[n] \in ItemRec
      BY Now
    <3> HIDE DEF k, s
    <3> QED BY <1>3, <1>5, <3>1 DEF ItemRec, Ended, TaskOrNone
  <2>4. ASSUME NEW m \in Nodes
        PROVE  /\ h[m] \in RunRec /\ rec'[m] \in RecRec
               /\ h[m] = run[m] \/ (h[m].pc = "none" /\ h[m].task = 0)
               /\ rec'[m] = rec[m] \/ (rec'[m].pc = "none" /\ rec'[m].task = 0)
    <3>1. run[m] \in RunRec /\ rec[m] \in RecRec
      BY Now
    <3>2. h[m] \in {run[m], NoRun} /\ rec'[m] \in {rec[m], NoRec}
      BY <2>1 DEF StoppedRuns, StoppedRecs
    <3>3. NoRun \in RunRec /\ NoRun.pc = "none" /\ NoRun.task = 0 /\ NoRec \in RecRec
          /\ NoRec.pc = "none" /\ NoRec.task = 0
      BY DEF RunRec, RecRec, NoRun, NoRec, TaskOrNone
    <3> QED BY <3>1, <3>2, <3>3
  <2>5. /\ f \in [Nodes -> NodeRec] /\ g \in [Nodes -> ItemRec] /\ h \in [Nodes -> RunRec]
        /\ f[n] = nd /\ g[n] = it /\ \A m \in Nodes \ {n} : f[m] = node[m] /\ g[m] = item[m]
        /\ rec' \in [Nodes -> RecRec]
    <3>1. node \in [Nodes -> NodeRec] /\ item \in [Nodes -> ItemRec]
      BY Types DEF GenerationInv
    <3>2. /\ f \in [Nodes -> NodeRec] /\ f[n] = nd /\ \A m \in Nodes \ {n} : f[m] = node[m]
      BY <2>2, <3>1
    <3>3. g = [item EXCEPT ![n] = it]
      BY <3>1
    <3>4. /\ g \in [Nodes -> ItemRec] /\ g[n] = it /\ \A m \in Nodes \ {n} : g[m] = item[m]
      BY <2>3, <3>1, <3>3
    <3>5. h \in [Nodes -> RunRec] /\ rec' \in [Nodes -> RecRec]
      <4>1. h = [m \in Nodes |-> h[m]] /\ rec' = [m \in Nodes |-> rec'[m]]
        BY <2>1 DEF StoppedRuns, StoppedRecs
      <4> QED BY <2>4, <4>1
    <3> QED BY <3>2, <3>4, <3>5
  <2> HIDE DEF nd, it, f, g, h
  <2>6. \A m \in Nodes : Good(m, f[m], g[m], h[m])
    <3> SUFFICES ASSUME NEW m \in Nodes PROVE Good(m, f[m], g[m], h[m])
      OBVIOUS
    <3>1. CASE m = n
      <4>1. Own(task, n, nd, it, h[n], rec'[n], 0)
        <5> HIDE DEF k
        <5> QED BY <1>3, <1>5, <2>2, <2>3, <2>4, Now DEF Own, OfNode
      <4>2. ASSUME n \notin lost \union overlapped
            PROVE  OneAttempt(n, nd, it, h[n], rec'[n], Live(n), stray[n], sched, asking.node, 0)
        <5>1. OneAttempt(n, node[n], item[n], run[n], rec[n], Live(n), stray[n], sched, asking.node, cancel[n])
          BY <4>2, Now
        <5>2. /\ Settled(n, item[n], run[n], stray[n], sched) /\ Live(n) \subseteq {k} /\ asking.node # n
          BY <1>1, <5>1 DEF OneAttempt
        <5>3. Live(n) = {}
          BY <1>5, <5>2 DEF Live
        <5>4. Quiet(h[n], stray[n]) /\ h[n].pc \in {"none", "posted", "track", "store"}
          BY <2>4, <5>2, Now DEF Settled, Quiet, RunRec
        <5> HIDE DEF k, s
        <5> QED BY <1>1, <1>5, <2>2, <2>3, <2>4, <5>1, <5>2, <5>3, <5>4 DEF OneAttempt, Settled
      <4> QED BY <1>1, <1>2, <1>4, <2>2, <2>3, <2>4, <2>5, <3>1, <4>1, <4>2 DEF Good
    <3>2. CASE m # n
      <4>1. Own(task, m, node[m], item[m], h[m], rec'[m], cancel[m])
        BY <2>4, Now DEF Own, OfNode
      <4>2. ASSUME m \notin lost \union overlapped
            PROVE  OneAttempt(m, node[m], item[m], h[m], rec'[m], Live(m), stray[m], sched, asking.node, cancel[m])
        <5>1. OneAttempt(m, node[m], item[m], run[m], rec[m], Live(m), stray[m], sched, asking.node, cancel[m])
          BY <4>2, Now
        <5>2. h[m] = run[m] \/ (run[m].pc = "track" /\ h[m].pc = "none" /\ h[m].task = 0)
          BY <2>5 DEF h, StoppedRuns, NoRun
        <5> QED BY <2>4, <5>1, <5>2 DEF OneAttempt, Settled, Quiet
      <4> QED BY <1>1, <1>2, <1>4, <2>4, <2>5, <3>2, <4>1, <4>2, Now DEF Good
    <3> QED BY <3>1, <3>2
  <2>7. counts \in CountRec /\ sched \subseteq Nodes /\ asking \in [node : Nodes \union {0}, source : TaskOrNone]
    BY Types DEF GenerationInv
  <2> QED BY <1>1, <1>2, <1>4, <2>1, <2>5, <2>6, <2>7, ManyNodes
<1>6. CASE s \notin {"failed", "cancelled"}
  <2>1. UNCHANGED <<node, item, run, rec>>
    BY <1>6 DEF CancelAnswered, page
  <2>2. \A m \in Nodes : Good(m, node[m], item[m], run[m])
    <3> SUFFICES ASSUME NEW m \in Nodes PROVE Good(m, node[m], item[m], run[m])
      OBVIOUS
    <3>1. cancel'[m] \in {0, cancel[m]}
      BY <1>4
    <3>2. Own(task, m, node[m], item[m], run[m], rec[m], cancel'[m])
      BY <3>1, Now DEF Own, OfNode
    <3>3. ASSUME m \notin lost \union overlapped
          PROVE  OneAttempt(m, node[m], item[m], run[m], rec[m], Live(m), stray[m], sched, asking.node, cancel'[m])
      BY <3>1, <3>3, Now DEF OneAttempt
    <3> QED BY <1>1, <1>2, <2>1, <3>2, <3>3, Now DEF Good
  <2> QED BY <1>1, <1>2, <1>4, <2>1, <2>2, Types, PageStays DEF GenerationInv
<1> QED BY <1>5, <1>6

LEMMA RetryAskKeeps ==
  ASSUME ConstantsOK, GenerationInv, NEW n \in Nodes, RetryAsk(n) PROVE GenerationInv'
<1> DEFINE k == RetrySource(n)
<1>1. /\ UNCHANGED <<node, item, run, stray, task, rec, due, sched, cancel, lost, overlapped>> /\ Aside
      /\ asking = NoQuestion /\ cancel[n] = 0 /\ item[n].status = "failed" /\ n # 0
      /\ asking' = [node |-> n, source |-> k] /\ (k # 0 => task[k].status \in {"failed", "cancelled"})
      /\ Counted("retries", MaxRetries)
  BY ConstantsOK DEF RetryAsk, NoDialog, ghosts, page, Aside
<1>2. /\ TaskInv' /\ NewestInv' /\ TasksMove /\ task' \in [Tasks -> TaskRec]
      /\ \A m \in Nodes : Live(m)' = Live(m) /\ TasksOf(m)' = TasksOf(m)
  BY <1>1, TaskSame
<1>3. k \in TaskOrNone
  BY Now DEF RetrySource, NodeRec, ItemRec
<1> HIDE DEF k
<1>4. Good(n, node[n], item[n], run[n])
  <2>1. ASSUME n \notin lost \union overlapped
        PROVE  OneAttempt(n, node[n], item[n], run[n], rec[n], Live(n), stray[n], sched, n, cancel[n])
    <3>1. OneAttempt(n, node[n], item[n], run[n], rec[n], Live(n), stray[n], sched, asking.node, cancel[n])
      BY <2>1, Now
    <3>2. /\ Settled(n, item[n], run[n], stray[n], sched)
          /\ Live(n) \subseteq {item[n].task}
      BY <1>1, <3>1 DEF OneAttempt
    <3>3. Live(n) = {}
      <4>1. CASE item[n].task = 0
        <5>1. 0 \notin Live(n)
          BY ConstantsOK DEF Live, TasksOf
        <5> QED BY <3>2, <4>1, <5>1
      <4>2. CASE item[n].task # 0
        <5>1. k = item[n].task
          BY <4>2 DEF k, RetrySource
        <5>2. item[n].task \notin Live(n)
          BY <1>1, <4>2, <5>1 DEF Live
        <5> QED BY <3>2, <5>2
      <4> QED BY <4>1, <4>2
    <3> QED BY <1>1, <3>1, <3>2, <3>3 DEF OneAttempt, Settled
  <2>2. asking'.node = n
    BY <1>1
  <2> QED BY <1>1, <1>2, <2>1, <2>2, Now DEF Good
<1>5. \A m \in Nodes \ {n} : Good(m, node[m], item[m], run[m])
  BY <1>1, <1>2, Elsewhere
<1>6. \A m \in Nodes : Good(m, node[m], item[m], run[m])
  BY <1>4, <1>5
<1>7. counts' \in CountRec /\ counts'.lost = counts.lost /\ counts'.reloads = counts.reloads
  BY <1>1, Types DEF GenerationInv, Counted, CountRec
<1>8. asking' \in [node : Nodes \union {0}, source : TaskOrNone]
  BY <1>1, <1>3
<1> QED BY <1>1, <1>2, <1>6, <1>7, <1>8, Types, PageStays DEF GenerationInv

LEMMA RetryAnsweredKeeps ==
  ASSUME ConstantsOK, GenerationInv, RetryAnswered PROVE GenerationInv'
<1> DEFINE n == asking.node
<1>1. /\ UNCHANGED <<stray, task, rec, due, sched, cancel, lost, counts>>
      /\ asking # NoQuestion /\ asking' = NoQuestion /\ NoQuestion.node = 0 /\ NoQuestion.source = 0
      /\ \A m \in Nodes : m # 0
  BY ConstantsOK DEF RetryAnswered, NoQuestion
<1>2. asking' \in [node : Nodes \union {0}, source : TaskOrNone] /\ asking' = [node |-> 0, source |-> 0]
      /\ counts \in CountRec
  BY <1>1, Types DEF GenerationInv, NoQuestion, TaskOrNone
<1>3. CASE UNCHANGED <<page, overlapped>>
  <2>1. UNCHANGED <<node, item, run, lost, overlapped>> /\ Aside
    BY <1>1, <1>3 DEF page, Aside
  <2>2. /\ TaskInv' /\ NewestInv' /\ TasksMove /\ task' \in [Tasks -> TaskRec]
        /\ \A m \in Nodes : Live(m)' = Live(m) /\ TasksOf(m)' = TasksOf(m)
    BY <1>1, <2>1, TaskSame
  <2>3. \A m \in Nodes : Good(m, node[m], item[m], run[m])
    BY <1>1, <1>2, <2>1, <2>2, Elsewhere
  <2> QED BY <1>1, <1>2, <2>1, <2>2, <2>3, Types, PageStays DEF GenerationInv
<1>4. CASE /\ Commit([node EXCEPT ![n] = Reset(@)],
                     [item EXCEPT ![n] = [status |-> "waiting", task |-> 0, source |-> asking.source]], run)
           /\ overlapped' = IF Busy(n) \/ rec[n].pc # "none" \/ n \in sched
                            THEN overlapped \union {n} ELSE overlapped
  <2>0. Aside
    BY <1>1, <1>4 DEF Aside
  <2>1. /\ TaskInv' /\ NewestInv' /\ TasksMove /\ task' \in [Tasks -> TaskRec]
        /\ \A m \in Nodes : Live(m)' = Live(m) /\ TasksOf(m)' = TasksOf(m)
    BY <1>1, <2>0, TaskSame
  <2> DEFINE f == [node EXCEPT ![n] = Reset(@)]
             it == [status |-> "waiting", task |-> 0, source |-> asking.source]
             g == [item EXCEPT ![n] = it]
  <2>2. it \in ItemRec /\ it.status = "waiting" /\ it.task = 0 /\ asking.node \in Nodes \union {0}
    <3>1. asking \in [node : Nodes \union {0}, source : TaskOrNone]
      BY Types DEF GenerationInv
    <3> QED BY <3>1 DEF ItemRec, TaskOrNone
  <2>3. /\ f \in [Nodes -> NodeRec] /\ g \in [Nodes -> ItemRec] /\ run \in [Nodes -> RunRec]
        /\ (n \in Nodes => f[n] = Reset(node[n]) /\ g[n] = it)
        /\ \A m \in Nodes \ {n} : f[m] = node[m] /\ g[m] = item[m]
    <3>1. node \in [Nodes -> NodeRec] /\ item \in [Nodes -> ItemRec] /\ run \in [Nodes -> RunRec]
      BY Types DEF GenerationInv
    <3>2. n \in Nodes => Reset(node[n]) \in NodeRec
      BY <3>1, ResetIs
    <3> HIDE DEF it, n
    <3> QED BY <2>2, <3>1, <3>2
  <2>4. Commit(f, g, run)
    BY <1>4
  <2> HIDE DEF f, g, it
  <2>5. \A m \in Nodes : Good(m, f[m], g[m], run[m])
    <3> SUFFICES ASSUME NEW m \in Nodes PROVE Good(m, f[m], g[m], run[m])
      OBVIOUS
    <3>1. CASE m # n
      <4>1. Good(m, node[m], item[m], run[m])
        BY <1>1, <1>2, <2>0, <2>1, Elsewhere
      <4> QED BY <2>3, <3>1, <4>1
    <3>2. CASE m = n
      <4>1. /\ f[m] \in NodeRec /\ f[m].task = 0 /\ f[m].seen = "none" /\ f[m].content = node[m].content
            /\ f[m].status = "idle" /\ ~f[m].uncertain /\ g[m] = it
        <5>1. node[m] \in NodeRec /\ f[m] = Reset(node[m]) /\ g[m] = it
          BY <2>3, <3>2, Now
        <5> QED BY <5>1, ResetIs
      <4>2. Own(task, m, f[m], g[m], run[m], rec[m], cancel[m])
        BY <2>2, <4>1, Now DEF Own, OfNode
      <4>3. ASSUME m \notin lost' \union overlapped'
            PROVE  OneAttempt(m, f[m], g[m], run[m], rec[m], Live(m), stray[m], sched, asking'.node, cancel[m])
        <5>1. m \notin lost \union overlapped /\ run[m].pc = "none" /\ rec[m].pc = "none" /\ m \notin sched
          BY <1>1, <1>4, <3>2, <4>3 DEF Busy
        <5>2. OneAttempt(m, node[m], item[m], run[m], rec[m], Live(m), stray[m], sched, m, cancel[m])
          BY <3>2, <5>1, Now
        <5>3. /\ Settled(m, item[m], run[m], stray[m], sched) /\ Live(m) = {} /\ cancel[m] = 0 /\ run[m].task = 0
          BY <5>1, <5>2, Now DEF OneAttempt, Own
        <5>4. asking'.node = 0 /\ m # 0
          BY <1>1
        <5> QED BY <2>2, <4>1, <5>1, <5>3, <5>4 DEF OneAttempt, Settled, Quiet
      <4> QED BY <1>1, <2>1, <2>2, <2>3, <4>1, <4>2, <4>3 DEF Good
    <3> QED BY <3>1, <3>2
  <2>6. cancel' \in [Nodes -> TaskOrNone] /\ rec' \in [Nodes -> RecRec] /\ sched' \subseteq Nodes
    BY <1>1, Types DEF GenerationInv
  <2> QED BY <1>1, <1>2, <2>0, <2>1, <2>3, <2>4, <2>5, <2>6, ManyNodes
<1> QED BY <1>3, <1>4 DEF RetryAnswered

-----------------------------------------------------------------------------
(* Recovery.                                                               *)

LEMMA RecoverAllKeeps ==
  ASSUME ConstantsOK, GenerationInv, RecoverAll PROVE GenerationInv'
<1>1. /\ UNCHANGED <<node, item, run, stray, task, sched, asking, cancel, lost, overlapped, counts>> /\ Aside
      /\ due' = FALSE /\ \A n \in Nodes : rec[n].pc = "none"
      /\ rec' = [n \in Nodes |-> IF NeedsRecovery(n) THEN [pc |-> "read", task |-> node[n].task] ELSE NoRec]
  BY DEF RecoverAll, ghosts, page, Aside
<1>2. /\ TaskInv' /\ NewestInv' /\ TasksMove /\ task' \in [Tasks -> TaskRec]
      /\ \A m \in Nodes : Live(m)' = Live(m) /\ TasksOf(m)' = TasksOf(m)
  BY <1>1, TaskSame
<1>3. ASSUME NEW m \in Nodes
      PROVE  /\ rec'[m] \in RecRec /\ rec'[m].task \in {0, node[m].task} /\ rec'[m].pc \in {"none", "read"}
             /\ ~NeedsRecovery(m) => rec'[m].pc = "none"
  <2>1. node[m] \in NodeRec
    BY Now
  <2>2. node[m].task \in TaskOrNone
    BY <2>1 DEF NodeRec
  <2>3. rec'[m] = IF NeedsRecovery(m) THEN [pc |-> "read", task |-> node[m].task] ELSE NoRec
    BY <1>1
  <2> QED BY <2>2, <2>3 DEF RecRec, NoRec, TaskOrNone
<1>4. rec' \in [Nodes -> RecRec]
  <2>1. rec' = [m \in Nodes |-> rec'[m]]
    BY <1>1
  <2> QED BY <1>3, <2>1
<1>5. \A m \in Nodes : Good(m, node[m], item[m], run[m])
  <2> SUFFICES ASSUME NEW m \in Nodes PROVE Good(m, node[m], item[m], run[m])
    OBVIOUS
  <2>1. Own(task, m, node[m], item[m], run[m], rec'[m], cancel[m])
    BY <1>3, Now DEF Own, OfNode
  <2>2. ASSUME m \notin lost \union overlapped
        PROVE  OneAttempt(m, node[m], item[m], run[m], rec'[m], Live(m), stray[m], sched, asking.node, cancel[m])
    <3>1. OneAttempt(m, node[m], item[m], run[m], rec[m], Live(m), stray[m], sched, asking.node, cancel[m])
      BY <2>2, Now
    <3>2. item[m].status = "waiting" \/ m \in sched => ~NeedsRecovery(m)
      BY <3>1 DEF OneAttempt, NeedsRecovery
    <3> QED BY <1>3, <3>1, <3>2 DEF OneAttempt
  <2> QED BY <1>1, <1>2, <2>1, <2>2, Now DEF Good
<1>6. due' \in BOOLEAN /\ counts \in CountRec
  BY <1>1, Types DEF GenerationInv
<1> QED BY <1>1, <1>2, <1>4, <1>5, <1>6, Types, PageStays DEF GenerationInv

\* The newest task of a node is what Max finds.
LEMMA NewestIs ==
  ASSUME ConstantsOK, GenerationInv, NEW n \in Nodes, TasksOf(n) # {}
  PROVE  Max(TasksOf(n)) \in TasksOf(n) /\ \A j \in TasksOf(n) : j <= Max(TasksOf(n))
<1>1. TasksOf(n) \subseteq Nat
  BY ConstantsOK DEF TasksOf
<1>2. \E k \in TasksOf(n) : \A j \in TasksOf(n) : k >= j
  <2>1. PICK k \in TasksOf(n) : \A j \in TasksOf(n) : j <= k
    BY DEF GenerationInv, TaskInv
  <2>2. \A j \in TasksOf(n) : k >= j
    BY <1>1, <2>1
  <2> QED BY <2>2
<1>3. Max(TasksOf(n)) \in TasksOf(n) /\ \A j \in TasksOf(n) : Max(TasksOf(n)) >= j
  BY <1>2 DEF Max
<1> QED BY <1>1, <1>3

\* A recovery that finds a task finds one of its node; if it is not outdated, no
\* other task of the node may pay.
LEMMA FoundIs ==
  ASSUME ConstantsOK, GenerationInv, NEW n \in Nodes, Found(n) # 0
  PROVE  /\ Found(n) \in Tasks /\ task[Found(n)].of = n
         /\ ~Outdated(n) /\ n \notin lost \union overlapped => Live(n) \subseteq {Found(n)}
<1>1. Found(n) \in TasksOf(n)
  <2>1. CASE rec[n].task # 0
    BY <2>1, Now DEF Found, TasksOf, Own, OfNode
  <2>2. CASE rec[n].task = 0
    BY <2>2, NewestIs DEF Found
  <2> QED BY <2>1, <2>2
<1>2. ASSUME ~Outdated(n), n \notin lost \union overlapped, NEW k \in Live(n)
      PROVE  k = Found(n)
  <2>1. /\ Found(n) <= k /\ k \in TasksOf(n) /\ TasksOf(n) # {}
    BY <1>1, <1>2 DEF GenerationInv, NewestInv, Live
  <2>2. Max(TasksOf(n)) \in TasksOf(n) /\ k <= Max(TasksOf(n))
    BY <2>1, NewestIs
  <2>3. ~(Max(TasksOf(n)) > Found(n))
    BY <1>2 DEF Outdated
  <2>4. k \in Nat /\ Found(n) \in Nat /\ Max(TasksOf(n)) \in Nat
    BY <1>1, <2>1, <2>2, ConstantsOK DEF TasksOf
  <2> QED BY <2>1, <2>2, <2>3, <2>4
<1> QED BY <1>1, <1>2 DEF TasksOf

LEMMA RecoverReadKeeps ==
  ASSUME ConstantsOK, GenerationInv, RecoverRead PROVE GenerationInv'
<1> DEFINE reading == {n \in Nodes : rec[n].pc = "read"}
           status(n) == task[Found(n)].status
<1>1. PICK unread \in SUBSET reading :
         /\ IF unread = {} THEN UNCHANGED counts ELSE Counted("faults", MaxFaults)
         /\ LET found == {n \in reading \ unread : Found(n) # 0} IN
            /\ Commit([n \in Nodes |-> IF n \in found THEN Bound(node[n], Found(n), status(n))
                                       ELSE IF n \in reading THEN Locked(node[n]) ELSE node[n]], item, run)
            /\ rec' = [n \in Nodes |->
                         IF n \in found
                         THEN [pc |-> IF status(n) = "succeeded" THEN "store" ELSE "track", task |-> Found(n)]
                         ELSE IF n \in reading THEN NoRec ELSE rec[n]]
            /\ overlapped' = overlapped \union {n \in found : Outdated(n)}
  BY DEF RecoverRead
<1> DEFINE found == {n \in reading \ unread : Found(n) # 0}
           f == [n \in Nodes |-> IF n \in found THEN Bound(node[n], Found(n), status(n))
                                 ELSE IF n \in reading THEN Locked(node[n]) ELSE node[n]]
<1>2. /\ UNCHANGED <<stray, task, due, sched, asking, cancel, lost>>
      /\ overlapped' = overlapped \union {n \in found : Outdated(n)}
      /\ Aside
  BY <1>1 DEF RecoverRead, Aside
<1>3. /\ TaskInv' /\ NewestInv' /\ TasksMove /\ task' \in [Tasks -> TaskRec]
      /\ \A m \in Nodes : Live(m)' = Live(m) /\ TasksOf(m)' = TasksOf(m)
  BY <1>2, TaskSame
<1>4. Commit(f, item, run)
  BY <1>1
<1>5. ASSUME NEW m \in found
      PROVE  /\ Found(m) \in Tasks /\ Found(m) # 0 /\ task[Found(m)].of = m
             /\ f[m] \in NodeRec /\ f[m].task = Found(m) /\ f[m].seen # "none" /\ f[m].content = node[m].content
             /\ rec'[m] \in RecRec /\ rec'[m].pc \in {"track", "store"} /\ rec'[m].task = Found(m)
             /\ rec'[m].pc = "store" => task[Found(m)].status = "succeeded"
  <2>1. Found(m) \in Tasks /\ Found(m) # 0 /\ task[Found(m)].of = m /\ m \in Nodes
    BY <1>5, FoundIs
  <2>2. status(m) \in {"running"} \union Ended /\ node[m] \in NodeRec
    BY <2>1, StatusOf, Now
  <2>3. status(m) # "none"
    BY <2>2 DEF Ended
  <2>4. f[m] = Bound(node[m], Found(m), status(m))
    BY <2>1, <1>5
  <2>5. rec'[m] = [pc |-> IF status(m) = "succeeded" THEN "store" ELSE "track", task |-> Found(m)]
    BY <1>1, <1>5, <2>1
  <2> HIDE DEF status, f
  <2>6. /\ f[m] \in NodeRec /\ f[m].task = Found(m) /\ f[m].seen # "none" /\ f[m].content = node[m].content
    <3>1. \A j \in Tasks, s \in {"running"} \union Ended :
             /\ Bound(node[m], j, s) \in NodeRec /\ Bound(node[m], j, s).task = j
             /\ Bound(node[m], j, s).seen = s /\ Bound(node[m], j, s).content = node[m].content
      BY <2>2, BoundIs
    <3>2. /\ Bound(node[m], Found(m), status(m)) \in NodeRec /\ Bound(node[m], Found(m), status(m)).task = Found(m)
          /\ Bound(node[m], Found(m), status(m)).seen = status(m)
          /\ Bound(node[m], Found(m), status(m)).content = node[m].content
      BY <2>1, <2>2, <3>1
    <3> QED BY <2>3, <2>4, <3>2
  <2>7. /\ rec'[m] \in RecRec /\ rec'[m].pc \in {"track", "store"} /\ rec'[m].task = Found(m)
        /\ rec'[m].pc = "store" => status(m) = "succeeded"
    BY <2>1, <2>5 DEF RecRec, TaskOrNone
  <2> QED BY <2>1, <2>6, <2>7 DEF status
<1>6. ASSUME NEW m \in reading \ found
      PROVE  /\ f[m] \in NodeRec /\ f[m].task = node[m].task /\ f[m].seen = node[m].seen
             /\ f[m].content = node[m].content /\ f[m].status = "loading"
             /\ rec'[m] \in RecRec /\ rec'[m].pc = "none" /\ rec'[m].task = 0
  <2>1. f[m] = Locked(node[m]) /\ rec'[m] = NoRec /\ node[m] \in NodeRec
    BY <1>1, <1>6, Now
  <2> HIDE DEF f
  <2> QED BY <2>1, LockedIs DEF RecRec, NoRec, TaskOrNone
<1>7. ASSUME NEW m \in Nodes \ reading
      PROVE  f[m] = node[m] /\ rec'[m] = rec[m] /\ f[m] \in NodeRec /\ rec'[m] \in RecRec
  <2>1. f[m] = node[m] /\ rec'[m] = rec[m]
    BY <1>1, <1>7
  <2> HIDE DEF f
  <2> QED BY <2>1, Now
<1>8. f \in [Nodes -> NodeRec] /\ rec' \in [Nodes -> RecRec]
  <2>1. f = [m \in Nodes |-> f[m]] /\ rec' = [m \in Nodes |-> rec'[m]]
    BY <1>1
  <2>2. \A m \in Nodes : m \in found \/ m \in reading \ found \/ m \in Nodes \ reading
    OBVIOUS
  <2> HIDE DEF f, found, reading
  <2>3. \A m \in Nodes : f[m] \in NodeRec /\ rec'[m] \in RecRec
    BY <1>5, <1>6, <1>7, <2>2
  <2> QED BY <2>1, <2>3
<1> HIDE DEF f
<1>9. \A m \in Nodes : Good(m, f[m], item[m], run[m])
  <2> SUFFICES ASSUME NEW m \in Nodes PROVE Good(m, f[m], item[m], run[m])
    OBVIOUS
  <2>1. CASE m \in found
    <3>1. /\ Found(m) \in Tasks /\ Found(m) # 0 /\ task[Found(m)].of = m
          /\ f[m] \in NodeRec /\ f[m].task = Found(m) /\ f[m].seen # "none" /\ f[m].content = node[m].content
          /\ rec'[m] \in RecRec /\ rec'[m].pc \in {"track", "store"} /\ rec'[m].task = Found(m)
          /\ rec'[m].pc = "store" => task[Found(m)].status = "succeeded"
      BY <1>5, <2>1
    <3>2. Own(task, m, f[m], item[m], run[m], rec'[m], cancel[m])
      BY <3>1, Now DEF Own, OfNode, Won
    <3>3. ASSUME m \notin lost' \union overlapped'
          PROVE  OneAttempt(m, f[m], item[m], run[m], rec'[m], Live(m), stray[m], sched, asking.node, cancel[m])
      <4>1. m \notin lost \union overlapped /\ ~Outdated(m) /\ rec[m].pc = "read"
        BY <1>2, <2>1, <3>3
      <4>2. OneAttempt(m, node[m], item[m], run[m], rec[m], Live(m), stray[m], sched, asking.node, cancel[m])
        BY <4>1, Now
      <4>3. stray[m] \in Nat /\ Live(m) \subseteq {Found(m)}
        BY <3>1, <4>1, FoundIs, Types DEF GenerationInv
      <4>4. Quiet(run[m], stray[m]) /\ m \notin sched
        BY <4>1, <4>3 DEF Outdated, Quiet
      <4>5. Settled(m, item[m], run[m], stray[m], sched)
        BY <4>1, <4>2, <4>4 DEF OneAttempt, Settled
      <4> QED BY <3>1, <4>2, <4>3, <4>4, <4>5 DEF OneAttempt, Settled
    <3> QED BY <1>2, <1>3, <3>1, <3>2, <3>3, Now DEF Good
  <2>2. CASE m \in reading \ found
    <3>1. /\ f[m] \in NodeRec /\ f[m].task = node[m].task /\ f[m].seen = node[m].seen
          /\ f[m].content = node[m].content /\ f[m].status = "loading"
          /\ rec'[m] \in RecRec /\ rec'[m].pc = "none" /\ rec'[m].task = 0 /\ rec[m].pc = "read"
      BY <1>6, <2>2
    <3>2. Own(task, m, f[m], item[m], run[m], rec'[m], cancel[m])
      BY <3>1, Now DEF Own, OfNode
    <3>3. ASSUME m \notin lost' \union overlapped'
          PROVE  OneAttempt(m, f[m], item[m], run[m], rec'[m], Live(m), stray[m], sched, asking.node, cancel[m])
      <4>1. OneAttempt(m, node[m], item[m], run[m], rec[m], Live(m), stray[m], sched, asking.node, cancel[m])
        BY <1>2, <3>3, Now
      <4> QED BY <3>1, <4>1 DEF OneAttempt
    <3> QED BY <1>2, <1>3, <3>1, <3>2, <3>3, Now DEF Good
  <2>3. CASE m \in Nodes \ reading
    <3>1. f[m] = node[m] /\ rec'[m] = rec[m]
      BY <1>7, <2>3
    <3>2. Good(m, node[m], item[m], run[m])
      BY <1>2, <1>3, <3>1, Elsewhere
    <3> QED BY <3>1, <3>2
  <2> QED BY <2>1, <2>2, <2>3
<1>10. counts' \in CountRec /\ counts'.lost = counts.lost /\ counts'.reloads = counts.reloads
  BY <1>1, CountedFaults, Types DEF GenerationInv
<1>11. /\ item \in [Nodes -> ItemRec] /\ run \in [Nodes -> RunRec] /\ sched' \subseteq Nodes
       /\ cancel' \in [Nodes -> TaskOrNone] /\ asking' \in [node : Nodes \union {0}, source : TaskOrNone]
  BY <1>2, Types DEF GenerationInv
<1> QED BY <1>2, <1>3, <1>4, <1>8, <1>9, <1>10, <1>11, ManyNodes

\* A recovery that writes its node and ends, or goes on with the media
LEMMA RecoveryEnds ==
  ASSUME ConstantsOK, GenerationInv, NEW n \in Nodes, rec[n].pc \in {"track", "store"}, NEW nd \in NodeRec,
         CommitNode(n, nd), rec' = [rec EXCEPT ![n] = NoRec],
         (nd.task = 0 <=> nd.seen = "none"), OfNode(task, n, nd.content), nd.content # 0 => Won(task, nd.content),
         node[n].content # 0 => nd.content # 0, nd.task \in {node[n].task, rec[n].task}, nd.task # 0 \/ node[n].task = 0,
         UNCHANGED <<stray, task, due, sched, asking, cancel, lost, overlapped>>,
         counts' \in CountRec, counts'.lost = counts.lost, counts'.reloads = counts.reloads
  PROVE  GenerationInv'
<1>1. Commit([node EXCEPT ![n] = nd], [item EXCEPT ![n] = item[n]], [run EXCEPT ![n] = run[n]])
  BY Same DEF CommitNode
<1>2. Aside
  BY DEF Aside
<1>3. /\ TaskInv' /\ NewestInv' /\ TasksMove /\ task' \in [Tasks -> TaskRec]
      /\ \A m \in Nodes : Live(m)' = Live(m) /\ TasksOf(m)' = TasksOf(m)
  BY <1>2, TaskSame
<1>4. /\ rec' \in [Nodes -> RecRec] /\ rec'[n] = NoRec /\ NoRec.pc = "none" /\ NoRec.task = 0
      /\ \A m \in Nodes \ {n} : rec'[m] = rec[m]
  BY Types DEF GenerationInv, RecRec, NoRec, TaskOrNone
<1>5. Own(task, n, nd, item[n], run[n], NoRec, cancel[n])
  BY <1>4, Now DEF Own, OfNode
<1>6. ASSUME n \notin lost \union overlapped
      PROVE  OneAttempt(n, nd, item[n], run[n], NoRec, Live(n), stray[n], sched, asking.node, cancel[n])
  <2>1. OneAttempt(n, node[n], item[n], run[n], rec[n], Live(n), stray[n], sched, asking.node, cancel[n])
    BY <1>6, Now
  <2>2. /\ Settled(n, item[n], run[n], stray[n], sched) /\ Live(n) \subseteq {rec[n].task} /\ node[n].task # 0
        /\ Live(n) \subseteq {node[n].task}
    BY <2>1 DEF OneAttempt
  <2> QED BY <1>4, <2>1, <2>2 DEF OneAttempt, Settled
<1>7. Good(n, nd, item[n], run[n])
  BY <1>3, <1>4, <1>5, <1>6, Now DEF Good
<1>8. cancel' \in [Nodes -> TaskOrNone]
  BY Types DEF GenerationInv
<1> QED BY <1>1, <1>3, <1>4, <1>7, <1>8, Now, OneNode

LEMMA RecoverPollKeeps ==
  ASSUME ConstantsOK, GenerationInv, NEW n \in Nodes, RecoverPoll(n) PROVE GenerationInv'
<1>1. UNCHANGED <<stray, task, due, sched, asking, cancel, lost, overlapped, counts>> /\ rec[n].pc = "track"
      /\ Aside /\ counts \in CountRec
  BY Types DEF RecoverPoll, ghosts, Aside, GenerationInv
<1>2. CASE RecoveryWrites(n, Failed(node[n]))
  <2>1. /\ Failed(node[n]) \in NodeRec /\ Failed(node[n]).task = node[n].task /\ Failed(node[n]).seen = node[n].seen
        /\ Failed(node[n]).content = node[n].content
    BY FailedIs, Now
  <2>2. CommitNode(n, Failed(node[n])) /\ rec' = [rec EXCEPT ![n] = NoRec]
    BY <1>2 DEF RecoveryWrites
  <2>3. OfNode(task, n, node[n].content) /\ (node[n].content # 0 => Won(task, node[n].content))
        /\ (node[n].task = 0 <=> node[n].seen = "none")
    BY Now DEF Own
  <2> DEFINE nd == Failed(node[n])
  <2>4. nd \in NodeRec /\ nd.task = node[n].task /\ nd.seen = node[n].seen /\ nd.content = node[n].content
        /\ CommitNode(n, nd)
    BY <2>1, <2>2
  <2> HIDE DEF nd
  <2> QED BY <1>1, <2>2, <2>3, <2>4, RecoveryEnds
<1>3. CASE /\ task[rec[n].task].status = "succeeded" /\ rec' = [rec EXCEPT ![n].pc = "store"]
           /\ UNCHANGED page
  <2>1. UNCHANGED <<node, item, run>>
    BY <1>3 DEF page
  <2>2. /\ TaskInv' /\ NewestInv' /\ TasksMove /\ task' \in [Tasks -> TaskRec]
        /\ \A m \in Nodes : Live(m)' = Live(m) /\ TasksOf(m)' = TasksOf(m)
    BY <1>1, TaskSame
  <2>3. /\ rec' \in [Nodes -> RecRec] /\ rec'[n].pc = "store" /\ rec'[n].task = rec[n].task
        /\ \A m \in Nodes \ {n} : rec'[m] = rec[m]
    BY <1>3, Types DEF GenerationInv, RecRec
  <2>4. Good(n, node[n], item[n], run[n])
    <3>1. rec[n].task \in Tasks /\ rec[n].task # 0
      BY <1>1, Now DEF Own, OfNode
    <3>2. Own(task, n, node[n], item[n], run[n], rec'[n], cancel[n])
      BY <1>3, <2>3, <3>1, Now DEF Own, Won
    <3>3. ASSUME n \notin lost \union overlapped
          PROVE  OneAttempt(n, node[n], item[n], run[n], rec'[n], Live(n), stray[n], sched, asking.node, cancel[n])
      BY <1>1, <2>3, <3>3, Now DEF OneAttempt
    <3> QED BY <1>1, <2>2, <3>2, <3>3, Now DEF Good
  <2>5. \A m \in Nodes \ {n} : Good(m, node[m], item[m], run[m])
    BY <1>1, <2>2, <2>3, Elsewhere
  <2>6. \A m \in Nodes : Good(m, node[m], item[m], run[m])
    BY <2>4, <2>5
  <2> QED BY <1>1, <2>1, <2>2, <2>3, <2>6, Types, PageStays DEF GenerationInv
<1> QED BY <1>2, <1>3 DEF RecoverPoll

LEMMA RecoverFailsKeeps ==
  ASSUME ConstantsOK, GenerationInv, NEW n \in Nodes, RecoverFails(n) PROVE GenerationInv'
<1> DEFINE nd == Failed(node[n])
<1>1. UNCHANGED <<stray, task, due, sched, asking, cancel, lost, overlapped>> /\ rec[n].pc \in {"track", "store"}
      /\ counts' \in CountRec /\ counts'.lost = counts.lost /\ counts'.reloads = counts.reloads
  BY CountedFaults DEF RecoverFails, ghosts
<1>2. nd \in NodeRec /\ nd.task = node[n].task /\ nd.seen = node[n].seen /\ nd.content = node[n].content
  BY FailedIs, Now
<1>3. CommitNode(n, nd) /\ rec' = [rec EXCEPT ![n] = NoRec]
  BY DEF RecoverFails, RecoveryWrites
<1>4. OfNode(task, n, node[n].content) /\ (node[n].content # 0 => Won(task, node[n].content))
      /\ (node[n].task = 0 <=> node[n].seen = "none")
  BY Now DEF Own
<1> HIDE DEF nd
<1> QED BY <1>1, <1>2, <1>3, <1>4, RecoveryEnds

LEMMA RecoverStoredKeeps ==
  ASSUME ConstantsOK, GenerationInv, NEW n \in Nodes, RecoverStored(n) PROVE GenerationInv'
<1> DEFINE k == rec[n].task
           nd == [status |-> "success", task |-> k, seen |-> "succeeded", content |-> k, uncertain |-> FALSE]
<1>1. UNCHANGED <<stray, task, due, sched, asking, cancel, lost, overlapped, counts>> /\ rec[n].pc = "store"
      /\ counts \in CountRec
  BY Types DEF RecoverStored, ghosts, GenerationInv
<1>2. k \in Tasks /\ k # 0 /\ OfNode(task, n, k) /\ Won(task, k)
  BY <1>1, Now DEF Own, OfNode
<1>3. nd \in NodeRec /\ nd.task = k /\ nd.seen = "succeeded" /\ nd.content = k
  <2> HIDE DEF k
  <2> QED BY <1>2 DEF NodeRec, TaskOrNone, Ended
<1>4. CommitNode(n, nd) /\ rec' = [rec EXCEPT ![n] = NoRec]
  BY DEF RecoverStored, RecoveryWrites
<1> HIDE DEF nd
<1> QED BY <1>1, <1>2, <1>3, <1>4, RecoveryEnds

-----------------------------------------------------------------------------
(* The page is loaded again, and the invariant as a whole.                 *)

LEMMA ReloadKeeps ==
  ASSUME ConstantsOK, GenerationInv, Reload PROVE GenerationInv'
<1> DEFINE h == [n \in Nodes |-> NoRun]
<1>1. /\ UNCHANGED <<task, lost, overlapped>> /\ Aside /\ Commit(node, item, h)
      /\ stray' = [n \in Nodes |-> IF run[n].pc = "posted" /\ run[n].task = 0 THEN stray[n] + 1 ELSE stray[n]]
      /\ rec' = [n \in Nodes |-> NoRec] /\ due' = TRUE /\ sched' = {}
      /\ asking' = NoQuestion /\ cancel' = [n \in Nodes |-> 0]
  BY DEF Reload, ghosts, Aside
<1>2. /\ TaskInv' /\ NewestInv' /\ TasksMove /\ task' \in [Tasks -> TaskRec]
      /\ \A m \in Nodes : Live(m)' = Live(m) /\ TasksOf(m)' = TasksOf(m)
  BY <1>1, TaskSame
<1>3. /\ NoRun \in RunRec /\ NoRun.pc = "none" /\ NoRun.task = 0
      /\ NoRec \in RecRec /\ NoRec.pc = "none" /\ NoRec.task = 0
      /\ NoQuestion \in [node : Nodes \union {0}, source : TaskOrNone] /\ NoQuestion.node = 0 /\ 0 \in TaskOrNone
  BY DEF NoRun, NoRec, NoQuestion, RunRec, RecRec, TaskOrNone
<1>4. /\ node \in [Nodes -> NodeRec] /\ item \in [Nodes -> ItemRec] /\ h \in [Nodes -> RunRec]
      /\ rec' \in [Nodes -> RecRec] /\ cancel' \in [Nodes -> TaskOrNone] /\ stray \in [Nodes -> Nat]
      /\ \A m \in Nodes : h[m] = NoRun /\ rec'[m] = NoRec /\ cancel'[m] = 0
  BY <1>1, <1>3, Types DEF GenerationInv
<1> HIDE DEF h
<1>5. \A m \in Nodes : Good(m, node[m], item[m], h[m])
  <2> SUFFICES ASSUME NEW m \in Nodes PROVE Good(m, node[m], item[m], NoRun)
    BY <1>4
  <2>1. Own(task, m, node[m], item[m], NoRun, NoRec, 0)
    BY <1>3, Now DEF Own, OfNode
  <2>2. ASSUME m \notin lost \union overlapped
        PROVE  OneAttempt(m, node[m], item[m], NoRun, NoRec, Live(m), stray'[m], {}, 0, 0)
    <3>1. OneAttempt(m, node[m], item[m], run[m], rec[m], Live(m), stray[m], sched, asking.node, cancel[m])
      BY <2>2, Now
    <3>2. stray[m] \in Nat /\ run[m] \in RunRec /\ m # 0
      BY <1>4, Now, ConstantsOK
    <3>3. CASE run[m].pc = "posted" /\ run[m].task = 0
      <4>1. ~Quiet(run[m], stray[m]) /\ stray[m] = 0
        BY <3>1, <3>2, <3>3 DEF Quiet, OneAttempt
      <4>2. stray'[m] = 1
        BY <1>1, <3>3, <4>1
      <4>3. /\ Live(m) = {} /\ node[m].task = 0 /\ node[m].status \in {"idle", "loading"}
            /\ item[m].status = "submitting"
        BY <3>1, <4>1 DEF OneAttempt
      <4> QED BY <1>3, <3>2, <4>2, <4>3 DEF OneAttempt, Quiet
    <3>4. CASE ~(run[m].pc = "posted" /\ run[m].task = 0)
      <4>1. stray'[m] = stray[m]
        BY <1>1, <3>4
      <4>2. stray[m] # 0 => ~Quiet(run[m], stray[m])
        BY DEF Quiet
      <4>3. Quiet(run[m], stray[m]) => Quiet(NoRun, stray[m])
        BY <1>3 DEF Quiet
      <4>4. Quiet(NoRun, stray[m]) \/ stray[m] # 0
        BY <1>3 DEF Quiet
      <4> QED BY <1>3, <3>1, <3>2, <4>1, <4>2, <4>3, <4>4 DEF OneAttempt, Settled
    <3> QED BY <3>3, <3>4
  <2>3. asking'.node = 0
    BY <1>1, <1>3
  <2> QED BY <1>1, <1>2, <1>3, <1>4, <2>1, <2>2, <2>3, Now DEF Good
<1>6. /\ node' \in [Nodes -> NodeRec] /\ item' \in [Nodes -> ItemRec] /\ run' \in [Nodes -> RunRec]
      /\ \A n \in Nodes : Good(n, node'[n], item'[n], run'[n])
  BY <1>1, <1>4, <1>5, CommitGood
<1>7. /\ counts' \in CountRec /\ counts'.lost = counts.lost /\ counts'.reloads = counts.reloads + 1
      /\ counts'.lost <= MaxLost /\ counts'.reloads <= MaxReloads /\ counts.lost \in Nat /\ counts.reloads \in Nat
  <2>1. /\ counts \in CountRec /\ counts.lost <= MaxLost /\ counts.reloads < MaxReloads
        /\ counts' = [counts EXCEPT !["reloads"] = @ + 1]
    BY Types DEF GenerationInv, TypeInv, Reload, Counted
  <2>2. MaxReloads \in Nat
    BY ConstantsOK
  <2> QED BY <2>1, <2>2 DEF CountRec
<1>8. stray' \in [Nodes -> Nat] /\ \A m \in Nodes : stray'[m] <= counts'.lost + counts'.reloads
  <2>1. \A m \in Nodes : stray[m] <= counts.lost + counts.reloads
    BY DEF GenerationInv, TypeInv
  <2>2. ASSUME NEW m \in Nodes PROVE stray'[m] \in Nat /\ stray'[m] <= counts'.lost + counts'.reloads
    <3>1. stray[m] \in Nat /\ stray[m] <= counts.lost + counts.reloads /\ stray'[m] \in {stray[m], stray[m] + 1}
      BY <1>1, <1>4, <2>1
    <3> QED BY <1>7, <3>1
  <2> QED BY <1>1, <2>2
<1>9. due' \in BOOLEAN /\ sched' \subseteq Nodes /\ asking' \in [node : Nodes \union {0}, source : TaskOrNone]
  BY <1>1, <1>3
<1> QED BY <1>2, <1>4, <1>6, <1>7, <1>8, <1>9, Assembled

LEMMA InitGeneration ==
  ASSUME ConstantsOK, Init PROVE GenerationInv
<1>1. \A n \in Nodes : TasksOf(n) = {} /\ Live(n) = {}
  BY ConstantsOK DEF Init, TasksOf, Live
<1>2. TypeInv
  <2>1. /\ counts \in CountRec /\ counts.lost <= MaxLost /\ counts.reloads <= MaxReloads
        /\ \A n \in Nodes : stray[n] <= counts.lost + counts.reloads
    BY ConstantsOK DEF Init, CountRec
  <2>2. node \in [Nodes -> NodeRec] /\ \A n \in Nodes : node[n].task = 0 <=> node[n].seen = "none"
    BY DEF Init, NodeRec, TaskOrNone
  <2>3. item \in [Nodes -> ItemRec]
    BY DEF Init, ItemRec, TaskOrNone
  <2>4. run \in [Nodes -> RunRec] /\ rec \in [Nodes -> RecRec] /\ task \in [Tasks -> TaskRec]
    BY DEF Init, RunRec, RecRec, TaskRec, NoRun, NoRec, TaskOrNone
  <2>5. 0 \in 0 .. MaxLost + MaxReloads
    BY ConstantsOK
  <2>6. /\ stray \in [Nodes -> 0 .. MaxLost + MaxReloads] /\ due \in BOOLEAN /\ sched \subseteq Nodes
        /\ asking \in [node : Nodes \union {0}, source : TaskOrNone] /\ cancel \in [Nodes -> TaskOrNone]
    BY <2>5 DEF Init, NoQuestion, TaskOrNone
  <2> QED BY <2>1, <2>2, <2>3, <2>4, <2>6 DEF TypeInv, TypeOK, NodeRec, ItemRec, RunRec, RecRec, TaskRec
<1>3. TaskInv
  BY <1>1 DEF Init, TaskInv
<1>4. OwnInv
  BY DEF Init, OwnInv, Own, OfNode, NoRun, NoRec
<1>5. AttemptInv
  <2> SUFFICES ASSUME NEW n \in Nodes
               PROVE  OneAttempt(n, node[n], item[n], run[n], rec[n], Live(n), stray[n], sched, asking.node, cancel[n])
    BY DEF AttemptInv
  <2> QED BY <1>1, ConstantsOK DEF Init, OneAttempt, Settled, Quiet, NoRun, NoRec, NoQuestion
<1>6. NewestInv
  BY <1>1 DEF NewestInv
<1> QED BY <1>2, <1>3, <1>4, <1>5, <1>6 DEF GenerationInv

LEMMA NextGeneration ==
  ASSUME ConstantsOK, GenerationInv, [Next]_vars PROVE GenerationInv'
<1>1. CASE ScheduleStart BY <1>1, ScheduleStartKeeps
<1>2. CASE ScheduleEnd BY <1>2, ScheduleEndKeeps
<1>3. CASE StopRemaining BY <1>3, StopRemainingKeeps
<1>4. CASE RetryAnswered BY <1>4, RetryAnsweredKeeps
<1>5. CASE RecoverStart BY <1>5, RecoverAllKeeps DEF RecoverStart
<1>6. CASE RecoverForOthers BY <1>6, RecoverAllKeeps DEF RecoverForOthers
<1>7. CASE RecoverRead BY <1>7, RecoverReadKeeps
<1>8. CASE Reload BY <1>8, ReloadKeeps
<1>9. ASSUME NEW n \in Nodes,
             \/ PrepareEnds(n) \/ Submit(n) \/ Accept(n) \/ StrayAccepted(n) \/ Refused(n) \/ LoseReply(n)
             \/ Bind(n) \/ Poll(n) \/ RunFails(n) \/ Stored(n) \/ StoppedTracking(n)
      PROVE  GenerationInv'
  BY <1>9, PrepareEndsKeeps, SubmitKeeps, AcceptKeeps, StrayAcceptedKeeps, RefusedKeeps, LoseReplyKeeps,
     BindKeeps, PollKeeps, RunFailsKeeps, StoredKeeps, StoppedTrackingKeeps
<1>10. ASSUME NEW n \in Nodes,
              \/ CancelItem(n) \/ CancelAnswered(n) \/ RetryAsk(n)
              \/ RecoverPoll(n) \/ RecoverFails(n) \/ RecoverStored(n)
       PROVE  GenerationInv'
  BY <1>10, CancelItemKeeps, CancelAnsweredKeeps, RetryAskKeeps, RecoverPollKeeps, RecoverFailsKeeps, RecoverStoredKeeps
<1>11. ASSUME NEW k \in Tasks, TaskEnds(k) PROVE GenerationInv'
  BY <1>11, TaskEndsKeeps
<1>12. CASE UNCHANGED vars
  <2>1. TypeInv'
    BY <1>12 DEF vars, page, ghosts, GenerationInv, TypeInv, TypeOK
  <2>2. TaskInv'
    BY <1>12 DEF vars, page, ghosts, GenerationInv, TaskInv, TasksOf
  <2>3. OwnInv'
    BY <1>12 DEF vars, page, ghosts, GenerationInv, OwnInv, Own, OfNode, Won
  <2>4. AttemptInv'
    BY <1>12 DEF vars, page, ghosts, GenerationInv, AttemptInv, Live, TasksOf
  <2>5. NewestInv'
    BY <1>12 DEF vars, page, ghosts, GenerationInv, NewestInv, Live, TasksOf
  <2> QED BY <2>1, <2>2, <2>3, <2>4, <2>5 DEF GenerationInv
<1> QED BY <1>1, <1>2, <1>3, <1>4, <1>5, <1>6, <1>7, <1>8, <1>9, <1>10, <1>11, <1>12 DEF Next

-----------------------------------------------------------------------------
\* The page keeps its nodes, its items and what it follows in the states its
\* types name, and no more creations of a node are under way than answers were
\* lost and pages left.
THEOREM TypeCorrect == Spec => []TypeOK
<1>1. GenerationInv => TypeOK
  BY DEF GenerationInv, TypeInv
<1> QED BY <1>1, InitGeneration, NextGeneration, ConstantsOK, PTL DEF Spec

\* One item pays once (handleGenerateNode, resumeGenerationTask, retryItem): a node
\* whose creations were answered and whose attempts never overlapped has at most
\* one task that runs or has succeeded.
THEOREM OneItemPaysOnce == Spec => []OnePaidResult
<1>1. GenerationInv => OnePaidResult
  <2> SUFFICES ASSUME GenerationInv, NEW n \in Nodes, n \notin lost \union overlapped
               PROVE  Cardinality(Live(n)) <= 1
    BY DEF OnePaidResult
  <2>1. \A j, k \in Live(n) : j = k
    <3>1. Live(n) \subseteq TasksOf(n) /\ Live(n) \subseteq Nat
      BY ConstantsOK DEF Live, TasksOf
    <3>2. \A j, k \in Live(n) : j <= k
      BY <3>1 DEF GenerationInv, NewestInv
    <3> QED BY <3>1, <3>2
  <2>2. CASE Live(n) = {}
    BY <2>2, FS_EmptySet
  <2>3. CASE Live(n) # {}
    <3>1. PICK k \in Live(n) : TRUE
      BY <2>3
    <3>2. Live(n) = {k}
      BY <2>1, <3>1
    <3> QED BY <3>2, FS_Singleton
  <2> QED BY <2>2, <2>3
<1> QED BY <1>1, InitGeneration, NextGeneration, ConstantsOK, PTL DEF Spec

\* A batch item counts as succeeded only when its node shows the media of a task
\* of its own that succeeded (reconcileCanvasGenerationBatches).
THEOREM SuccessIsShown == Spec => []SucceededHasContent
<1>1. GenerationInv => SucceededHasContent
  BY DEF GenerationInv, OwnInv, Own, OfNode, Won, SucceededHasContent
<1> QED BY <1>1, InitGeneration, NextGeneration, ConstantsOK, PTL DEF Spec
====
