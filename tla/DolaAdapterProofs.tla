------------------------- MODULE DolaAdapterProofs -------------------------
(***************************************************************************)
(* Proofs about DolaAdapter, for every number of tasks, accounts, crashes, *)
(* failed writes, patches and browser events.                              *)
(***************************************************************************)
EXTENDS DolaAdapter, TLAPS

Store == [acct : [Accounts -> AccountRecord], task : [Tasks -> TaskRecord]]
Outcome == {"none", "healthy", "quota", "needs_login", "cooldown"}
FaultCount == [crash : 0..MaxCrashes, write : 0..MaxWriteFailures,
               patch : 0..MaxPatches, browser : 0..MaxBrowserEvents]

(***************************************************************************)
(* The invariant of a run, and of what memory, file and provider know of   *)
(* its task.                                                               *)
(***************************************************************************)

SubmitPcs == {"send", "reply", "accept", "note"}
QueryPcs  == {"existing", "query", "ready", "repoll", "renew_retry", "repoll_retry",
              "downloading", "download", "succeed", "done_release"}

\* The job of a run and its account, by the place it has reached.
JobOK(p) ==
    /\ p.pc = "idle" => p = Idle
    /\ p.pc \in {"claim", "wait_account", "mark", "age"} => p.job = "none"
    /\ p.pc \in {"ensure", "connecting", "release"} => p.job \in {"submit", "query"}
    /\ p.pc \in SubmitPcs => p.job = "submit"
    /\ p.pc \in QueryPcs => p.job = "query"
    /\ p.pc \in {"mark", "age", "ensure", "connecting", "release"} \union SubmitPcs \union QueryPcs
           => p.acct \in Accounts

Submitting(p) == p.job = "submit" /\ p.pc \in {"ensure", "connecting", "send", "reply", "accept"}

\* Places at which the provider has no request of the task.
NotYetSent(p) ==
    \/ p.pc \in {"claim", "wait_account", "mark", "requeue"}
    \/ p.job = "submit" /\ p.pc \in {"ensure", "connecting", "send"}
    \/ p.job = "submit" /\ p.pc = "release" /\ p.out = "quota"

\* A status from which no run submits.
Committed(status) == status \notin {"absent", "queued"}

(* Before the prompt goes out, and as long as the provider may have it,
   neither memory nor the file shows the task as one to be submitted. *)
SendOK(p, n, m, d) ==
    /\ n \in {0, 1}
    /\ NotYetSent(p) => n = 0
    /\ p.pc = "reply" => n = 1
    /\ n = 1 \/ Submitting(p) => Committed(m) /\ Committed(d)

OwnOK(r) == r.status = "processing" => r.acct \in Accounts

TaskRun(p, n, m, d) ==
    /\ JobOK(p)
    /\ SendOK(p, n, m.status, d.status)
    /\ OwnOK(m) /\ OwnOK(d)
    /\ Submitting(p) => m.acct = p.acct

PatchOK == admin = NoPatch \/ (admin.acct \in Accounts /\ admin.patch \in Patches)

RunInv ==
    /\ \A t \in Tasks : TaskRun(proc[t], sends[t], mem.task[t], disk.task[t])
    /\ PatchOK

(***************************************************************************)
(* What the operators the actions are built from return.                   *)
(***************************************************************************)

LEMMA SetTaskStore ==
  ASSUME NEW s \in Store, NEW t \in Tasks, NEW r \in TaskRecord
  PROVE  /\ SetTask(s, t, r) \in Store
         /\ SetTask(s, t, r).acct = s.acct
         /\ SetTask(s, t, r).task[t] = r
         /\ \A u \in Tasks \ {t} : SetTask(s, t, r).task[u] = s.task[u]
BY DEF SetTask, Store

LEMMA SetAcctStore ==
  ASSUME NEW s \in Store, NEW a \in Accounts, NEW r \in AccountRecord
  PROVE  /\ SetAcct(s, a, r) \in Store
         /\ SetAcct(s, a, r).task = s.task
         /\ SetAcct(s, a, r).acct[a] = r
         /\ \A b \in Accounts \ {a} : SetAcct(s, a, r).acct[b] = s.acct[b]
BY DEF SetAcct, Store

LEMMA AccountRecords ==
  ASSUME NEW r \in AccountRecord, NEW t \in Tasks
  PROVE  /\ Claimed(r, t) \in AccountRecord
         /\ ClaimedAgain(r, t) \in AccountRecord
         /\ Exhausted(r) \in AccountRecord
         /\ \A out \in Outcome : Released(r, out) \in AccountRecord
         /\ [r EXCEPT !.live = TRUE] \in AccountRecord
BY DEF AccountRecord, Claimed, ClaimedAgain, ClearExpiredQuota, QuotaHasReset,
       Exhausted, Released, Outcome

LEMMA ChangedRecords ==
  ASSUME NEW r \in AccountRecord
  PROVE  /\ RecoveredAccount(r) \in AccountRecord
         /\ \A p \in Patches, w \in BOOLEAN : Patched(r, p, w) \in AccountRecord
         /\ \A b \in BOOLEAN : /\ [r EXCEPT !.live = b] \in AccountRecord
                               /\ [r EXCEPT !.cooled = b] \in AccountRecord
                               /\ [r EXCEPT !.reset = b] \in AccountRecord
BY ConstantsOK DEF AccountRecord, Patched, RecoveredAccount

LEMMA Types ==
  ASSUME TypeOK
  PROVE  /\ mem \in Store /\ disk \in Store
         /\ proc \in [Tasks -> ProcRecord]
         /\ faults \in FaultCount
         /\ \A t \in Tasks : /\ mem.task[t] \in TaskRecord /\ disk.task[t] \in TaskRecord
                             /\ proc[t] \in ProcRecord
         /\ \A a \in Accounts : mem.acct[a] \in AccountRecord /\ disk.acct[a] \in AccountRecord
BY DEF TypeOK, Store, FaultCount

\* release, renew and noteQuota touch nothing but the account.
LEMMA IfHolderStore ==
  ASSUME TypeOK, NEW t \in Tasks, NEW a \in Accounts \union {None}, NEW r,
         a \in Accounts => r \in AccountRecord
  PROVE  /\ IfHolder(mem, t, a, r) \in Store
         /\ IfHolder(mem, t, a, r).task = mem.task
<1>1. CASE a \in Accounts /\ mem.acct[a].owner = t
  BY <1>1, Types, SetAcctStore, ConstantsOK DEF IfHolder
<1>2. CASE a = None \/ mem.acct[a].owner # t
  BY <1>2, Types DEF IfHolder
<1> QED BY <1>1, <1>2

LEMMA ReleaseStore ==
  ASSUME TypeOK, NEW t \in Tasks, NEW a \in Accounts \union {None}, NEW out \in Outcome
  PROVE  /\ Release(mem, t, a, out) \in Store
         /\ Release(mem, t, a, out).task = mem.task
BY Types, IfHolderStore, AccountRecords DEF Release

LEMMA NextRecords ==
  ASSUME TypeOK, NEW t \in Tasks
  PROVE  /\ Idle \in ProcRecord
         /\ \A pc \in {"wait_account", "mark", "ensure", "connecting", "send", "reply", "accept",
                       "note", "requeue", "fail", "existing", "query", "ready", "repoll",
                       "renew_retry", "repoll_retry", "downloading", "download", "succeed",
                       "done_release"} :
               /\ Next_(t, pc) \in ProcRecord
               /\ Next_(t, pc).pc = pc /\ Next_(t, pc).job = proc[t].job
               /\ Next_(t, pc).acct = proc[t].acct /\ Next_(t, pc).out = proc[t].out
         /\ \A out \in Outcome :
               /\ Releasing(t, out) \in ProcRecord
               /\ Releasing(t, out).pc = "release" /\ Releasing(t, out).job = proc[t].job
               /\ Releasing(t, out).acct = proc[t].acct /\ Releasing(t, out).out = out
         /\ ErrorOutcome(t) \in {"quota", "cooldown"}
<1>1. proc[t] \in ProcRecord
  BY Types
<1>2. Idle \in ProcRecord
  BY DEF Idle, ProcRecord
<1>3. ASSUME NEW pc \in {"wait_account", "mark", "ensure", "connecting", "send", "reply", "accept",
                       "note", "requeue", "fail", "existing", "query", "ready", "repoll",
                       "renew_retry", "repoll_retry", "downloading", "download", "succeed",
                       "done_release"}
      PROVE  /\ Next_(t, pc) \in ProcRecord
             /\ Next_(t, pc).pc = pc /\ Next_(t, pc).job = proc[t].job
             /\ Next_(t, pc).acct = proc[t].acct /\ Next_(t, pc).out = proc[t].out
  BY <1>1 DEF Next_, ProcRecord
<1>4. ASSUME NEW out \in Outcome
      PROVE  /\ Releasing(t, out) \in ProcRecord
             /\ Releasing(t, out).pc = "release" /\ Releasing(t, out).job = proc[t].job
             /\ Releasing(t, out).acct = proc[t].acct /\ Releasing(t, out).out = out
  BY <1>1 DEF Releasing, ProcRecord, Outcome
<1>5. ErrorOutcome(t) \in {"quota", "cooldown"}
  BY DEF ErrorOutcome
<1> QED BY <1>2, <1>3, <1>4, <1>5

(***************************************************************************)
(* The ways a run moves: a mutation of the store that may fail, and a step *)
(* that leaves the store alone.                                            *)
(***************************************************************************)

LEMMA MutateEffect ==
  ASSUME TypeOK, NEW t \in Tasks, NEW next \in Store,
         NEW then \in ProcRecord, NEW caught \in ProcRecord, Mutate(t, next, then, caught)
  PROVE  /\ mem' = next
         /\ \/ disk' = next /\ proc'[t] = then /\ faults' = faults /\ pendingFail' = pendingFail
            \/ /\ disk' = disk /\ proc'[t] = caught
               /\ faults.write < MaxWriteFailures /\ faults'.write > 0 /\ faults'.crash = faults.crash
         /\ \A u \in Tasks \ {t} : proc'[u] = proc[u]
         /\ proc' \in [Tasks -> ProcRecord]
         /\ faults' \in FaultCount
         /\ pendingFail' \subseteq Tasks
<1>1. proc' \in [Tasks -> ProcRecord] /\ \A u \in Tasks \ {t} : proc'[u] = proc[u]
  BY Types DEF Mutate, Goto
<1>2. CASE Persisted(next) /\ Goto(t, then) /\ UNCHANGED pendingFail
  BY <1>1, <1>2, Types DEF TypeOK, Persisted, Goto
<1>3. CASE /\ NotPersisted(next)
           /\ Goto(t, caught)
           /\ pendingFail' = IF caught = Idle THEN pendingFail \union {t} ELSE pendingFail
  <2>1. /\ faults' \in FaultCount /\ faults'.crash = faults.crash
        /\ faults.write < MaxWriteFailures /\ faults'.write > 0
    BY <1>3, Types, ConstantsOK DEF FaultCount, NotPersisted, Bump
  <2> QED BY <1>1, <1>3, <2>1, Types DEF TypeOK, NotPersisted, Goto
<1> QED BY <1>1, <1>2, <1>3 DEF Mutate

LEMMA MutateStep ==
  ASSUME TypeOK, RunInv, NEW t \in Tasks, NEW next \in Store,
         NEW then \in ProcRecord, NEW caught \in ProcRecord, Mutate(t, next, then, caught),
         \A u \in Tasks \ {t} : next.task[u] = mem.task[u],
         TaskRun(then, sends[t], next.task[t], next.task[t]),
         TaskRun(caught, sends[t], next.task[t], disk.task[t]),
         UNCHANGED <<admin, browserVars, ghosts>>
  PROVE  TypeOK' /\ RunInv'
<1>1. TypeOK'
  BY MutateEffect, Types DEF TypeOK, Store, FaultCount, browserVars, ghosts
<1>2. ASSUME NEW u \in Tasks PROVE TaskRun(proc[u], sends[u], mem.task[u], disk.task[u])'
  <2>1. CASE u = t
    BY <2>1, MutateEffect DEF ghosts
  <2>2. CASE u # t
    <3>1. /\ proc'[u] = proc[u] /\ sends'[u] = sends[u] /\ mem'.task[u] = mem.task[u]
          /\ disk'.task[u] \in {mem.task[u], disk.task[u]}
      BY <2>2, MutateEffect DEF ghosts
    <3> QED BY <3>1 DEF RunInv, TaskRun, SendOK
  <2> QED BY <2>1, <2>2
<1> QED BY <1>1, <1>2 DEF RunInv, PatchOK

LEMMA GotoStep ==
  ASSUME TypeOK, RunInv, NEW t \in Tasks, NEW r \in ProcRecord, Goto(t, r),
         sends' \in [Tasks -> 0..2], \A u \in Tasks \ {t} : sends'[u] = sends[u],
         known' \subseteq Accounts, runtime' \in [Accounts -> BOOLEAN],
         TaskRun(r, sends'[t], mem.task[t], disk.task[t]),
         UNCHANGED <<mem, disk, pendingFail, admin, faults, login>>
  PROVE  TypeOK' /\ RunInv'
<1>1. proc' \in [Tasks -> ProcRecord]
  BY Types DEF Goto
<1>2. TypeOK'
  BY <1>1 DEF TypeOK
<1>3. ASSUME NEW u \in Tasks PROVE TaskRun(proc[u], sends[u], mem.task[u], disk.task[u])'
  BY Types DEF RunInv, Goto
<1> QED BY <1>2, <1>3 DEF RunInv, PatchOK

\* A run may always end; the file may always catch up with memory.
LEMMA RunEnds ==
  ASSUME TypeOK, RunInv, NEW t \in Tasks
  PROVE  /\ TaskRun(proc[t], sends[t], mem.task[t], disk.task[t])
         /\ TaskRun(proc[t], sends[t], mem.task[t], mem.task[t])
         /\ TaskRun(Idle, sends[t], mem.task[t], disk.task[t])
         /\ TaskRun(Idle, sends[t], mem.task[t], mem.task[t])
         /\ sends[t] \in {0, 1}
BY DEF RunInv, TaskRun, JobOK, SendOK, NotYetSent, Submitting, SubmitPcs, QueryPcs, Idle

LEMMA WriteTask ==
  ASSUME TypeOK, RunInv, NEW t \in Tasks, NEW r \in TaskRecord,
         NEW then \in ProcRecord, NEW caught \in ProcRecord,
         Mutate(t, SetTask(mem, t, r), then, caught),
         TaskRun(then, sends[t], r, r), TaskRun(caught, sends[t], r, disk.task[t]),
         UNCHANGED <<admin, browserVars, ghosts>>
  PROVE  TypeOK' /\ RunInv'
<1> DEFINE next == SetTask(mem, t, r)
<1>1. /\ next \in Store /\ next.task[t] = r
      /\ \A u \in Tasks \ {t} : next.task[u] = mem.task[u]
  BY Types, SetTaskStore
<1> HIDE DEF next
<1> QED BY <1>1, MutateStep DEF next

LEMMA WriteAccount ==
  ASSUME TypeOK, RunInv, NEW t \in Tasks, NEW next \in Store, next.task = mem.task,
         NEW then \in ProcRecord, NEW caught \in ProcRecord, Mutate(t, next, then, caught),
         TaskRun(then, sends[t], mem.task[t], mem.task[t]),
         TaskRun(caught, sends[t], mem.task[t], disk.task[t]),
         UNCHANGED <<admin, browserVars, ghosts>>
  PROVE  TypeOK' /\ RunInv'
BY MutateStep

(***************************************************************************)
(* Every action preserves the types and the invariant of the runs.         *)
(***************************************************************************)

LEMMA CreateVideoRun ==
  ASSUME TypeOK, RunInv, NEW t \in Tasks, CreateVideo(t) PROVE TypeOK' /\ RunInv'
<1> DEFINE r == [NoTask EXCEPT !.status = "queued", !.due = TRUE]
           next == SetTask(mem, t, r)
<1>1. r \in TaskRecord /\ r.status = "queued"
  BY DEF NoTask, TaskRecord, Statuses
<1>2. /\ next \in Store /\ next.task[t] = r
      /\ \A u \in Tasks \ {t} : next.task[u] = mem.task[u]
  BY <1>1, Types, SetTaskStore
<1>3. /\ mem' = next /\ disk' \in {next, disk} /\ faults' \in FaultCount
      /\ UNCHANGED <<proc, pendingFail, admin, browserVars, ghosts>>
  BY Types, ConstantsOK DEF CreateVideo, Persisted, NotPersisted, Bump, FaultCount
<1>4. TypeOK'
  BY <1>2, <1>3, Types DEF TypeOK, Store, FaultCount, browserVars, ghosts
<1>5. ASSUME NEW u \in Tasks PROVE TaskRun(proc[u], sends[u], mem.task[u], disk.task[u])'
  <2>1. CASE u = t
    <3>1. sends[t] = 0 /\ ~Submitting(proc[t])
      BY DEF CreateVideo, RunInv, TaskRun, SendOK, Committed
    <3>2. /\ mem'.task[t] = r /\ disk'.task[t] \in {r, disk.task[t]}
          /\ proc'[t] = proc[t] /\ sends'[t] = sends[t]
      BY <1>2, <1>3 DEF ghosts
    <3> HIDE DEF r
    <3> QED BY <1>1, <2>1, <3>1, <3>2, RunEnds DEF TaskRun, SendOK, OwnOK
  <2>2. CASE u # t
    BY <1>2, <1>3, <2>2, RunEnds DEF RunInv, ghosts
  <2> QED BY <2>1, <2>2
<1> QED BY <1>3, <1>4, <1>5 DEF RunInv, PatchOK

LEMMA PumpRun ==
  ASSUME TypeOK, RunInv, NEW t \in Tasks, Pump(t) PROVE TypeOK' /\ RunInv'
<1> DEFINE r == [Idle EXCEPT !.pc  = IF mem.task[t].status = "queued" THEN "claim" ELSE "age",
                             !.acct = mem.task[t].acct]
<1>1. r \in ProcRecord
  BY Types DEF Idle, ProcRecord, TaskRecord
<1>2. TaskRun(r, sends[t], mem.task[t], disk.task[t])
  BY RunEnds, Types DEF Pump, TaskRun, JobOK, SendOK, OwnOK, NotYetSent, Submitting, Committed,
                        SubmitPcs, QueryPcs, Idle, TaskRecord
<1> QED BY <1>1, <1>2, GotoStep DEF Pump, TypeOK, browserVars, ghosts

LEMMA CatchUpdateRun ==
  ASSUME TypeOK, RunInv, NEW t \in Tasks, CatchUpdate(t) PROVE TypeOK' /\ RunInv'
<1> DEFINE r == [mem.task[t] EXCEPT !.status = "failed", !.due = TRUE]
           next == SetTask(mem, t, r)
<1>1. r \in TaskRecord /\ r.status = "failed" /\ r.acct = mem.task[t].acct
  BY Types DEF TaskRecord, Statuses
<1>2. /\ next \in Store /\ next.task[t] = r
      /\ \A u \in Tasks \ {t} : next.task[u] = mem.task[u]
  BY <1>1, Types, SetTaskStore
<1>3. /\ mem' = next /\ disk' = next /\ UNCHANGED <<faults, proc, admin, browserVars, ghosts>>
      /\ pendingFail' \subseteq Tasks
  BY DEF CatchUpdate, Persisted, TypeOK
<1>4. TypeOK'
  BY <1>2, <1>3, Types DEF TypeOK, Store, browserVars, ghosts
<1>5. ASSUME NEW u \in Tasks PROVE TaskRun(proc[u], sends[u], mem.task[u], disk.task[u])'
  <2>1. CASE u = t
    BY <1>1, <1>2, <1>3, <2>1 DEF RunInv, TaskRun, SendOK, OwnOK, Committed, ghosts
  <2>2. CASE u # t
    BY <1>2, <1>3, <2>2, RunEnds DEF ghosts
  <2> QED BY <2>1, <2>2
<1> QED BY <1>3, <1>4, <1>5 DEF RunInv, PatchOK

LEMMA ClaimRun ==
  ASSUME TypeOK, RunInv, NEW t \in Tasks, Claim(t) PROVE TypeOK' /\ RunInv'
<1>1. proc[t].pc = "claim"
  BY DEF Claim, At
<1>2. CASE Mutate(t, mem, Next_(t, "wait_account"), Idle)
  <2>1. TaskRun(Next_(t, "wait_account"), sends[t], mem.task[t], mem.task[t])
    BY <1>1, NextRecords, RunEnds
       DEF TaskRun, JobOK, SendOK, NotYetSent, Submitting, SubmitPcs, QueryPcs
  <2> QED BY <1>2, <2>1, Types, NextRecords, RunEnds, MutateStep DEF Claim
<1>3. ASSUME NEW a \in Accounts,
             Mutate(t, SetAcct(mem, a, Claimed(mem.acct[a], t)), [Next_(t, "mark") EXCEPT !.acct = a], Idle)
      PROVE  TypeOK' /\ RunInv'
  <2> DEFINE r == [Next_(t, "mark") EXCEPT !.acct = a]
             next == SetAcct(mem, a, Claimed(mem.acct[a], t))
  <2>1. r \in ProcRecord /\ r.pc = "mark" /\ r.acct = a /\ r.job = proc[t].job
    BY NextRecords DEF ProcRecord
  <2>2. next \in Store /\ next.task = mem.task
    <3>1. Claimed(mem.acct[a], t) \in AccountRecord
      BY Types, AccountRecords
    <3> QED BY <3>1, Types, SetAcctStore
  <2>3. TaskRun(r, sends[t], mem.task[t], mem.task[t])
    BY <1>1, <2>1, RunEnds DEF TaskRun, JobOK, SendOK, NotYetSent, Submitting, SubmitPcs, QueryPcs
  <2> HIDE DEF r, next
  <2> QED BY <1>3, <2>1, <2>2, <2>3, NextRecords, RunEnds, WriteAccount DEF Claim, r, next
<1> QED BY <1>2, <1>3 DEF Claim

LEMMA WaitAccountRun ==
  ASSUME TypeOK, RunInv, NEW t \in Tasks, WaitAccount(t) PROVE TypeOK' /\ RunInv'
<1> DEFINE r == [mem.task[t] EXCEPT !.due = FALSE]
<1>1. r \in TaskRecord /\ r.status = mem.task[t].status /\ r.acct = mem.task[t].acct
  BY Types DEF TaskRecord
<1>2. TaskRun(Idle, sends[t], r, r) /\ TaskRun(Idle, sends[t], r, disk.task[t])
  BY <1>1, RunEnds DEF TaskRun, OwnOK
<1> HIDE DEF r
<1> QED BY <1>1, <1>2, NextRecords, WriteTask DEF WaitAccount, r

LEMMA MarkRun ==
  ASSUME TypeOK, RunInv, NEW t \in Tasks, Mark(t) PROVE TypeOK' /\ RunInv'
<1> DEFINE r == [mem.task[t] EXCEPT !.status = "submitting", !.acct = proc[t].acct,
                                    !.tried = @ \union {proc[t].acct}, !.due = TRUE]
           p == [Next_(t, "ensure") EXCEPT !.job = "submit"]
<1>1. proc[t].pc = "mark" /\ proc[t].acct \in Accounts
  BY RunEnds DEF Mark, At, TaskRun, JobOK
<1>2. r \in TaskRecord /\ r.status = "submitting" /\ r.acct = proc[t].acct
  BY <1>1, Types DEF TaskRecord, Statuses
<1>3. p \in ProcRecord /\ p.pc = "ensure" /\ p.job = "submit" /\ p.acct = proc[t].acct
  BY NextRecords DEF ProcRecord
<1>4. sends[t] = 0
  BY <1>1, RunEnds DEF TaskRun, SendOK, NotYetSent
<1>5. Mutate(t, SetTask(mem, t, r), p, Idle)
  BY DEF Mark
<1> HIDE DEF r, p
<1>6. TaskRun(p, sends[t], r, r)
  BY <1>1, <1>2, <1>3, <1>4, RunEnds
     DEF TaskRun, JobOK, SendOK, OwnOK, NotYetSent, Submitting, Committed, SubmitPcs, QueryPcs
<1>7. TaskRun(Idle, sends[t], r, disk.task[t])
  BY <1>2, <1>4, RunEnds DEF TaskRun, SendOK, OwnOK, Submitting, Idle
<1> QED BY <1>2, <1>3, <1>5, <1>6, <1>7, NextRecords, WriteTask DEF Mark

LEMMA SendRun ==
  ASSUME TypeOK, RunInv, NEW t \in Tasks, Send(t) PROVE TypeOK' /\ RunInv'
<1>1. /\ proc[t].pc = "send" /\ proc[t].job = "submit" /\ proc[t].acct \in Accounts
      /\ sends[t] = 0 /\ Committed(mem.task[t].status) /\ Committed(disk.task[t].status)
      /\ mem.task[t].acct = proc[t].acct
  BY RunEnds DEF Send, At, TaskRun, JobOK, SendOK, NotYetSent, Submitting, SubmitPcs
<1>2. CASE Goto(t, Next_(t, "reply")) /\ sends' = [sends EXCEPT ![t] = @ + 1]
  <2>1. sends' \in [Tasks -> 0..2] /\ sends'[t] = 1 /\ \A u \in Tasks \ {t} : sends'[u] = sends[u]
    BY <1>1, <1>2 DEF TypeOK
  <2>2. TaskRun(Next_(t, "reply"), sends'[t], mem.task[t], disk.task[t])
    BY <1>1, <2>1, NextRecords, RunEnds
       DEF TaskRun, JobOK, SendOK, NotYetSent, Submitting, SubmitPcs, QueryPcs
  <2> QED BY <1>2, <2>1, <2>2, NextRecords, GotoStep DEF Send, TypeOK, browserVars
<1>3. ASSUME NEW out \in {"needs_login", "cooldown"}, Goto(t, Releasing(t, out)), UNCHANGED sends
      PROVE  TypeOK' /\ RunInv'
  <2>1. TaskRun(Releasing(t, out), sends[t], mem.task[t], disk.task[t])
    BY <1>1, NextRecords, RunEnds
       DEF TaskRun, JobOK, SendOK, NotYetSent, Submitting, SubmitPcs, QueryPcs, Outcome
  <2> QED BY <1>3, <2>1, NextRecords, GotoStep DEF Send, TypeOK, browserVars, Outcome
<1> QED BY <1>2, <1>3 DEF Send

LEMMA ReplyRun ==
  ASSUME TypeOK, RunInv, NEW t \in Tasks, Reply(t) PROVE TypeOK' /\ RunInv'
<1>1. /\ proc[t].pc = "reply" /\ proc[t].job = "submit" /\ proc[t].acct \in Accounts
      /\ sends[t] = 1 /\ Committed(mem.task[t].status) /\ Committed(disk.task[t].status)
      /\ mem.task[t].acct = proc[t].acct
  BY RunEnds DEF Reply, At, TaskRun, JobOK, SendOK, NotYetSent, Submitting, SubmitPcs
<1>2. ASSUME NEW q \in BOOLEAN,
             Goto(t, [Next_(t, "accept") EXCEPT !.out = IF q THEN "quota" ELSE "none"]),
             known' = IF q THEN known \union {proc[t].acct} ELSE known,
             UNCHANGED sends
      PROVE  TypeOK' /\ RunInv'
  <2> DEFINE r == [Next_(t, "accept") EXCEPT !.out = IF q THEN "quota" ELSE "none"]
  <2>1. r \in ProcRecord /\ r.pc = "accept" /\ r.job = "submit" /\ r.acct = proc[t].acct
    BY <1>1, NextRecords DEF ProcRecord
  <2>2. TaskRun(r, sends[t], mem.task[t], disk.task[t])
    BY <1>1, <2>1, RunEnds DEF TaskRun, JobOK, SendOK, NotYetSent, Submitting, SubmitPcs, QueryPcs
  <2>3. known' \subseteq Accounts
    BY <1>1, <1>2 DEF TypeOK
  <2> QED BY <1>2, <2>1, <2>2, <2>3, GotoStep DEF Reply, TypeOK, browserVars
<1>3. CASE /\ Goto(t, Releasing(t, "quota")) /\ known' = known \union {proc[t].acct}
           /\ sends' = [sends EXCEPT ![t] = @ - 1]
  <2>1. sends' \in [Tasks -> 0..2] /\ sends'[t] = 0 /\ \A u \in Tasks \ {t} : sends'[u] = sends[u]
    BY <1>1, <1>3 DEF TypeOK
  <2>2. TaskRun(Releasing(t, "quota"), sends'[t], mem.task[t], disk.task[t])
    BY <1>1, <2>1, NextRecords, RunEnds
       DEF TaskRun, JobOK, SendOK, NotYetSent, Submitting, SubmitPcs, QueryPcs, Outcome
  <2>3. known' \subseteq Accounts
    BY <1>1, <1>3 DEF TypeOK
  <2> QED BY <1>3, <2>1, <2>2, <2>3, NextRecords, GotoStep DEF Reply, TypeOK, browserVars, Outcome
<1>4. ASSUME NEW out \in {"needs_login", "cooldown"}, Goto(t, Releasing(t, out)), UNCHANGED <<sends, known>>
      PROVE  TypeOK' /\ RunInv'
  <2>1. TaskRun(Releasing(t, out), sends[t], mem.task[t], disk.task[t])
    BY <1>1, NextRecords, RunEnds
       DEF TaskRun, JobOK, SendOK, NotYetSent, Submitting, SubmitPcs, QueryPcs, Outcome
  <2>2. Releasing(t, out) \in ProcRecord
    BY <1>4, NextRecords DEF Outcome
  <2>3. /\ sends' = sends /\ sends \in [Tasks -> 0..2] /\ known' \subseteq Accounts
        /\ runtime' \in [Accounts -> BOOLEAN] /\ UNCHANGED <<mem, disk, pendingFail, admin, faults, login>>
    BY <1>4 DEF Reply, TypeOK, browserVars
  <2> QED BY <1>4, <2>1, <2>2, <2>3, GotoStep
<1> QED BY <1>2, <1>3, <1>4 DEF Reply

LEMMA AcceptedRun ==
  ASSUME TypeOK, RunInv, NEW t \in Tasks, Accepted(t) PROVE TypeOK' /\ RunInv'
<1> DEFINE q == proc[t].out = "quota"
           r == [mem.task[t] EXCEPT !.status = "processing", !.quota = q, !.due = TRUE]
           p == IF q THEN Next_(t, "note") ELSE Idle
<1>1. /\ proc[t].pc = "accept" /\ proc[t].job = "submit" /\ proc[t].acct \in Accounts
      /\ mem.task[t].acct = proc[t].acct /\ Committed(disk.task[t].status)
  BY RunEnds DEF Accepted, At, TaskRun, SendOK, JobOK, Submitting, SubmitPcs
<1>2. r \in TaskRecord /\ r.status = "processing" /\ r.acct = mem.task[t].acct
  BY Types DEF TaskRecord, Statuses
<1>3. p \in ProcRecord /\ (p = Idle \/ (p.pc = "note" /\ p.job = "submit" /\ p.acct = proc[t].acct))
  BY <1>1, NextRecords
<1>4. Mutate(t, SetTask(mem, t, r), p, Releasing(t, "cooldown"))
  BY DEF Accepted
<1> HIDE DEF r, p
<1>5. TaskRun(p, sends[t], r, r)
  BY <1>1, <1>2, <1>3, RunEnds
     DEF TaskRun, JobOK, SendOK, OwnOK, NotYetSent, Submitting, Committed, SubmitPcs, QueryPcs, Idle
<1>6. TaskRun(Releasing(t, "cooldown"), sends[t], r, disk.task[t])
  BY <1>1, <1>2, NextRecords, RunEnds
     DEF TaskRun, JobOK, SendOK, OwnOK, NotYetSent, Submitting, Committed, SubmitPcs, QueryPcs, Outcome
<1> QED BY <1>2, <1>3, <1>4, <1>5, <1>6, NextRecords, WriteTask DEF Accepted, Outcome

LEMMA NoteQuotaRun ==
  ASSUME TypeOK, RunInv, NEW t \in Tasks, NoteQuota(t) PROVE TypeOK' /\ RunInv'
<1> DEFINE next == IfHolder(mem, t, proc[t].acct, Exhausted(mem.acct[proc[t].acct]))
<1>1. proc[t].pc = "note" /\ proc[t].job = "submit" /\ proc[t].acct \in Accounts
  BY RunEnds DEF NoteQuota, At, TaskRun, JobOK, SubmitPcs
<1>2. next \in Store /\ next.task = mem.task
  <2>1. Exhausted(mem.acct[proc[t].acct]) \in AccountRecord
    BY <1>1, Types, AccountRecords
  <2> QED BY <1>1, <2>1, IfHolderStore
<1>3. Mutate(t, next, Idle, Releasing(t, "cooldown"))
  BY DEF NoteQuota
<1> HIDE DEF next
<1>4. TaskRun(Releasing(t, "cooldown"), sends[t], mem.task[t], disk.task[t])
  BY <1>1, NextRecords, RunEnds
     DEF TaskRun, JobOK, SendOK, NotYetSent, Submitting, SubmitPcs, QueryPcs, Outcome
<1> QED BY <1>2, <1>3, <1>4, NextRecords, RunEnds, WriteAccount DEF NoteQuota, Outcome

LEMMA ReleaseAccountRun ==
  ASSUME TypeOK, RunInv, NEW t \in Tasks, ReleaseAccount(t) PROVE TypeOK' /\ RunInv'
<1> DEFINE rotate == /\ proc[t].job = "submit" /\ proc[t].out = "quota"
                     /\ Cardinality(mem.task[t].tried) < MaxAttempts
           next == Release(mem, t, proc[t].acct, proc[t].out)
           p == Next_(t, IF rotate THEN "requeue" ELSE "fail")
<1>1. proc[t].pc = "release" /\ proc[t].acct \in Accounts
  BY RunEnds DEF ReleaseAccount, At, TaskRun, JobOK
<1>2. next \in Store /\ next.task = mem.task
  <2>1. proc[t].out \in Outcome
    BY Types DEF ProcRecord, Outcome
  <2> QED BY <1>1, <2>1, ReleaseStore
<1>3. /\ p \in ProcRecord /\ p.job = proc[t].job /\ p.out = proc[t].out
      /\ p.pc \in {"requeue", "fail"} /\ (p.pc = "requeue" => p.job = "submit" /\ p.out = "quota")
  BY NextRecords
<1>4. Mutate(t, next, p, Idle)
  BY DEF ReleaseAccount
<1> HIDE DEF next, p
<1>5. TaskRun(p, sends[t], mem.task[t], mem.task[t])
  BY <1>1, <1>3, RunEnds DEF TaskRun, JobOK, SendOK, NotYetSent, Submitting, SubmitPcs, QueryPcs
<1> QED BY <1>2, <1>3, <1>4, <1>5, NextRecords, RunEnds, WriteAccount DEF ReleaseAccount

LEMMA RequeueRun ==
  ASSUME TypeOK, RunInv, NEW t \in Tasks, Requeue(t) PROVE TypeOK' /\ RunInv'
<1> DEFINE r == [mem.task[t] EXCEPT !.status = "queued", !.acct = None, !.due = TRUE]
<1>1. r \in TaskRecord /\ r.status = "queued"
  BY Types DEF TaskRecord, Statuses
<1>2. sends[t] = 0
  BY RunEnds DEF Requeue, At, TaskRun, SendOK, NotYetSent
<1>3. Mutate(t, SetTask(mem, t, r), Idle, Idle)
  BY DEF Requeue
<1> HIDE DEF r
<1>4. TaskRun(Idle, sends[t], r, r) /\ TaskRun(Idle, sends[t], r, disk.task[t])
  BY <1>1, <1>2, RunEnds DEF TaskRun, SendOK, OwnOK, Submitting, Idle
<1> QED BY <1>1, <1>3, <1>4, NextRecords, WriteTask DEF Requeue

LEMMA FailTaskRun ==
  ASSUME TypeOK, RunInv, NEW t \in Tasks, FailTask(t) PROVE TypeOK' /\ RunInv'
<1> DEFINE r == Finished("failed")
<1>1. r \in TaskRecord /\ r.status = "failed"
  BY DEF Finished, NoTask, TaskRecord, Statuses
<1>2. Mutate(t, SetTask(mem, t, r), Idle, Idle)
  BY DEF FailTask
<1> HIDE DEF r
<1>3. TaskRun(Idle, sends[t], r, r) /\ TaskRun(Idle, sends[t], r, disk.task[t])
  BY <1>1, RunEnds DEF TaskRun, SendOK, OwnOK, Committed, Submitting, Idle
<1> QED BY <1>1, <1>2, <1>3, NextRecords, WriteTask DEF FailTask

\* The places a run goes to from where it asks for the browser.
LEMMA BrowserSteps ==
  ASSUME TypeOK, RunInv, NEW t \in Tasks, proc[t].pc \in {"ensure", "connecting"},
         NEW r \in {Driving(t), OnBrowserError(t), OnTransient(t), Next_(t, "connecting")}
  PROVE  r \in ProcRecord /\ TaskRun(r, sends[t], mem.task[t], disk.task[t])
<1>1. /\ r \in ProcRecord
      /\ r.job = proc[t].job /\ r.acct = proc[t].acct
      /\ \/ r.pc = "send" /\ r.job = "submit"
         \/ r.pc \in {"query", "renew_retry"} /\ r.job # "submit"
         \/ r.pc = "release" /\ (r.job = "submit" => r.out = "cooldown")
         \/ r.pc = "connecting"
  BY NextRecords DEF Driving, OnBrowserError, OnTransient, Outcome
<1> QED BY <1>1, RunEnds DEF TaskRun, JobOK, SendOK, NotYetSent, Submitting, SubmitPcs, QueryPcs

LEMMA EnsureRuntimeRun ==
  ASSUME TypeOK, RunInv, NEW t \in Tasks, EnsureRuntime(t) PROVE TypeOK' /\ RunInv'
<1>1. proc[t].pc \in {"ensure", "connecting"}
  BY DEF EnsureRuntime, At
<1>2. PICK r \in {Driving(t), OnBrowserError(t), OnTransient(t), Next_(t, "connecting")} : Goto(t, r)
  BY DEF EnsureRuntime
<1>3. r \in ProcRecord /\ TaskRun(r, sends[t], mem.task[t], disk.task[t])
  BY <1>1, BrowserSteps
<1> QED BY <1>2, <1>3, GotoStep DEF EnsureRuntime, TypeOK, browserVars, ghosts

LEMMA ConnectRun ==
  ASSUME TypeOK, RunInv, NEW t \in Tasks, Connect(t) PROVE TypeOK' /\ RunInv'
<1>1. proc[t].pc \in {"ensure", "connecting"}
  BY DEF Connect, At
<1>2. PICK r \in {Driving(t), OnBrowserError(t), OnTransient(t), Next_(t, "connecting")} : Goto(t, r)
  BY DEF Connect, Goto
<1>3. r \in ProcRecord /\ TaskRun(r, sends[t], mem.task[t], disk.task[t])
  BY <1>1, BrowserSteps
<1>4. runtime' \in [Accounts -> BOOLEAN]
  BY DEF Connect, TypeOK
<1> QED BY <1>2, <1>3, <1>4, GotoStep DEF Connect, TypeOK, ghosts

LEMMA CheckAgeRun ==
  ASSUME TypeOK, RunInv, NEW t \in Tasks, CheckAge(t) PROVE TypeOK' /\ RunInv'
<1>1. proc[t].pc = "age" /\ proc[t].acct \in Accounts
  BY RunEnds DEF CheckAge, At, TaskRun, JobOK
<1>2. PICK r : /\ r \in {[Releasing(t, ErrorOutcome(t)) EXCEPT !.job = "query"],
                         [Next_(t, "existing") EXCEPT !.job = "query"]}
               /\ Goto(t, r)
  BY DEF CheckAge
<1>3. r \in ProcRecord /\ r.job = "query" /\ r.acct = proc[t].acct /\ r.pc \in {"release", "existing"}
  BY <1>2, NextRecords DEF ProcRecord, Outcome
<1>4. TaskRun(r, sends[t], mem.task[t], disk.task[t])
  BY <1>1, <1>3, RunEnds DEF TaskRun, JobOK, SendOK, NotYetSent, Submitting, SubmitPcs, QueryPcs
<1> QED BY <1>2, <1>3, <1>4, GotoStep DEF CheckAge, TypeOK, browserVars, ghosts

\* A run that polls may go to any other place of polling, or give up.
LEMMA PollSteps ==
  ASSUME TypeOK, RunInv, NEW t \in Tasks, proc[t].pc \in QueryPcs, NEW r \in ProcRecord,
         r.job = proc[t].job, r.acct = proc[t].acct,
         r.pc \in QueryPcs \union {"ensure", "release"}
  PROVE  /\ TaskRun(r, sends[t], mem.task[t], disk.task[t])
         /\ TaskRun(r, sends[t], mem.task[t], mem.task[t])
BY RunEnds DEF TaskRun, JobOK, SendOK, NotYetSent, Submitting, SubmitPcs, QueryPcs

LEMMA ClaimExistingRun ==
  ASSUME TypeOK, RunInv, NEW t \in Tasks, ClaimExisting(t) PROVE TypeOK' /\ RunInv'
<1> DEFINE a == proc[t].acct
           next == SetAcct(mem, a, ClaimedAgain(mem.acct[a], t))
<1>1. proc[t].pc \in QueryPcs /\ a \in Accounts
  BY RunEnds DEF ClaimExisting, At, TaskRun, JobOK, QueryPcs
<1>2. CASE Mutate(t, mem, Idle, Idle)
  BY <1>2, Types, NextRecords, RunEnds, WriteAccount DEF ClaimExisting
<1>3. CASE Mutate(t, next, Next_(t, "ensure"), Idle)
  <2>1. ClaimedAgain(mem.acct[a], t) \in AccountRecord
    BY <1>1, Types, AccountRecords
  <2>2. next \in Store /\ next.task = mem.task
    BY <1>1, <2>1, Types, SetAcctStore
  <2>3. TaskRun(Next_(t, "ensure"), sends[t], mem.task[t], mem.task[t])
    BY <1>1, NextRecords, PollSteps
  <2> HIDE DEF next
  <2> QED BY <1>3, <2>2, <2>3, NextRecords, RunEnds, WriteAccount DEF ClaimExisting
<1> QED BY <1>2, <1>3 DEF ClaimExisting

LEMMA RenewForRetryRun ==
  ASSUME TypeOK, RunInv, NEW t \in Tasks, RenewForRetry(t) PROVE TypeOK' /\ RunInv'
<1> DEFINE next == Renew(mem, t, proc[t].acct)
<1>1. proc[t].pc \in QueryPcs /\ proc[t].acct \in Accounts
  BY RunEnds DEF RenewForRetry, At, TaskRun, JobOK, QueryPcs
<1>2. next \in Store /\ next.task = mem.task
  <2>1. [mem.acct[proc[t].acct] EXCEPT !.live = TRUE] \in AccountRecord
    BY <1>1, Types, AccountRecords
  <2> QED BY <1>1, <2>1, IfHolderStore DEF Renew
<1>3. Mutate(t, next, Next_(t, "repoll_retry"), Idle)
  BY DEF RenewForRetry
<1>4. TaskRun(Next_(t, "repoll_retry"), sends[t], mem.task[t], mem.task[t])
  BY <1>1, NextRecords, PollSteps DEF QueryPcs
<1> HIDE DEF next
<1> QED BY <1>2, <1>3, <1>4, NextRecords, RunEnds, WriteAccount DEF RenewForRetry

LEMMA PollRun ==
  ASSUME TypeOK, RunInv, NEW t \in Tasks, QueryChain(t) \/ TestReady(t) \/ Download(t)
  PROVE  TypeOK' /\ RunInv'
<1>1. proc[t].pc \in QueryPcs
  BY DEF QueryChain, TestReady, Download, At, QueryPcs
<1>2. PICK r : /\ r \in {Next_(t, pc) : pc \in {"repoll", "ready", "renew_retry", "downloading", "succeed"}}
                        \union {Releasing(t, out) : out \in {"needs_login", ErrorOutcome(t)}}
               /\ Goto(t, r)
  BY DEF QueryChain, TestReady, Download
<1>3. /\ r \in ProcRecord /\ r.job = proc[t].job /\ r.acct = proc[t].acct
      /\ r.pc \in QueryPcs \union {"ensure", "release"}
  BY <1>2, NextRecords DEF Outcome, QueryPcs
<1>4. TaskRun(r, sends[t], mem.task[t], disk.task[t])
  BY <1>1, <1>3, PollSteps
<1>5. UNCHANGED <<mem, disk, pendingFail, admin, faults, browserVars, ghosts>>
  BY DEF QueryChain, TestReady, Download
<1> QED BY <1>2, <1>3, <1>4, <1>5, GotoStep DEF TypeOK, browserVars, ghosts

\* A polling run writes its task and goes on, or gives up when the write fails.
LEMMA PollWrite ==
  ASSUME TypeOK, RunInv, NEW t \in Tasks, proc[t].pc \in QueryPcs, NEW r \in TaskRecord,
         NEW then \in ProcRecord, OwnOK(r), Committed(mem.task[t].status) => Committed(r.status),
         NEW caught \in {Idle, Releasing(t, ErrorOutcome(t))}, Mutate(t, SetTask(mem, t, r), then, caught),
         then # Idle => /\ then.pc \in QueryPcs
                        /\ then.job = proc[t].job /\ then.acct = proc[t].acct,
         UNCHANGED <<admin, browserVars, ghosts>>
  PROVE  TypeOK' /\ RunInv'
<1>1. /\ TaskRun(then, sends[t], mem.task[t], mem.task[t])
      /\ ~Submitting(then)
  BY RunEnds, PollSteps DEF Submitting, Idle, TaskRun, JobOK, QueryPcs
<1>2. /\ TaskRun(caught, sends[t], mem.task[t], disk.task[t])
      /\ ~Submitting(caught) /\ caught \in ProcRecord
  <2>1. CASE caught = Idle
    BY <2>1, RunEnds, NextRecords, PollSteps DEF Submitting, Idle, TaskRun, JobOK, QueryPcs
  <2>2. CASE caught = Releasing(t, ErrorOutcome(t))
    BY <2>2, NextRecords, PollSteps DEF Submitting, Outcome
  <2> QED BY <2>1, <2>2
<1>3. /\ TaskRun(then, sends[t], r, r)
      /\ TaskRun(caught, sends[t], r, disk.task[t])
  BY <1>1, <1>2 DEF TaskRun, SendOK
<1> QED BY <1>2, <1>3, WriteTask

LEMMA RepollRun ==
  ASSUME TypeOK, RunInv, NEW t \in Tasks, Repoll(t) PROVE TypeOK' /\ RunInv'
<1> DEFINE r == [mem.task[t] EXCEPT !.due = FALSE]
<1>1. proc[t].pc \in QueryPcs
  BY DEF Repoll, At, QueryPcs
<1>2. r \in TaskRecord /\ r.status = mem.task[t].status /\ r.acct = mem.task[t].acct
  BY Types DEF TaskRecord
<1>3. OwnOK(r)
  BY <1>2, RunEnds DEF TaskRun, OwnOK
<1>4. Mutate(t, SetTask(mem, t, r), Idle, RepollFails(t))
      /\ RepollFails(t) \in {Idle, Releasing(t, ErrorOutcome(t))}
  BY DEF Repoll, RepollFails
<1> HIDE DEF r
<1>5. Idle \in ProcRecord
  BY NextRecords
<1>6. UNCHANGED <<admin, browserVars, ghosts>>
  BY DEF Repoll
<1>7. Committed(mem.task[t].status) => Committed(r.status)
  BY <1>2
<1> QED BY <1>1, <1>2, <1>3, <1>4, <1>5, <1>6, <1>7, PollWrite

LEMMA MarkDownloadingRun ==
  ASSUME TypeOK, RunInv, NEW t \in Tasks, MarkDownloading(t) PROVE TypeOK' /\ RunInv'
<1> DEFINE r == [mem.task[t] EXCEPT !.due = TRUE]
<1>1. proc[t].pc \in QueryPcs
  BY DEF MarkDownloading, At, QueryPcs
<1>2. r \in TaskRecord /\ r.status = mem.task[t].status /\ r.acct = mem.task[t].acct
  BY Types DEF TaskRecord
<1>3. OwnOK(r)
  BY <1>2, RunEnds DEF TaskRun, OwnOK
<1>4. Mutate(t, SetTask(mem, t, r), Next_(t, "download"), Releasing(t, ErrorOutcome(t)))
  BY DEF MarkDownloading
<1> HIDE DEF r
<1> QED BY <1>1, <1>2, <1>3, <1>4, NextRecords, PollWrite DEF MarkDownloading, QueryPcs

LEMMA SucceedRun ==
  ASSUME TypeOK, RunInv, NEW t \in Tasks, Succeed(t) PROVE TypeOK' /\ RunInv'
<1> DEFINE r == [Finished("succeeded") EXCEPT !.quota = mem.task[t].quota]
<1>1. proc[t].pc \in QueryPcs
  BY DEF Succeed, At, QueryPcs
<1>2. r \in TaskRecord /\ r.status = "succeeded"
  BY Types DEF TaskRecord, Finished, NoTask, Statuses
<1>3. OwnOK(r) /\ Committed(r.status)
  BY <1>2 DEF OwnOK, Committed
<1>4. Mutate(t, SetTask(mem, t, r), Next_(t, "done_release"), Releasing(t, ErrorOutcome(t)))
  BY DEF Succeed
<1> HIDE DEF r
<1> QED BY <1>1, <1>2, <1>3, <1>4, NextRecords, PollWrite DEF Succeed, QueryPcs

LEMMA ReleaseDoneRun ==
  ASSUME TypeOK, RunInv, NEW t \in Tasks, ReleaseDone(t) PROVE TypeOK' /\ RunInv'
<1> DEFINE out == IF mem.task[t].quota THEN "quota" ELSE "healthy"
           next == Release(mem, t, proc[t].acct, out)
<1>1. proc[t].acct \in Accounts
  BY RunEnds DEF ReleaseDone, At, TaskRun, JobOK, QueryPcs
<1>2. next \in Store /\ next.task = mem.task
  BY <1>1, ReleaseStore DEF Outcome
<1>3. /\ Persisted(next) \/ NotPersisted(next)
      /\ Goto(t, Idle) /\ UNCHANGED <<pendingFail, admin, browserVars, ghosts>>
  BY DEF ReleaseDone
<1> HIDE DEF next
<1>4. mem' = next /\ disk' \in {next, disk} /\ faults' \in FaultCount
  BY <1>3, Types, ConstantsOK DEF Persisted, NotPersisted, Bump, FaultCount
<1>5. proc' \in [Tasks -> ProcRecord] /\ \A u \in Tasks : proc'[u] \in {proc[u], Idle}
  BY <1>3, Types, NextRecords DEF Goto
<1>6. TypeOK'
  BY <1>2, <1>3, <1>4, <1>5, Types DEF TypeOK, Store, FaultCount, browserVars, ghosts
<1>7. ASSUME NEW u \in Tasks PROVE TaskRun(proc[u], sends[u], mem.task[u], disk.task[u])'
  <2>1. /\ proc'[u] \in {proc[u], Idle} /\ sends'[u] = sends[u]
        /\ mem'.task[u] = mem.task[u] /\ disk'.task[u] \in {mem.task[u], disk.task[u]}
    BY <1>2, <1>3, <1>4, <1>5 DEF ghosts
  <2> QED BY <2>1, RunEnds
<1> QED BY <1>3, <1>6, <1>7 DEF RunInv, PatchOK

\* A step that leaves the runs and the status and account of every task alone.
LEMMA BesideRuns ==
  ASSUME TypeOK, RunInv, TypeOK', PatchOK', UNCHANGED <<proc, sends>>,
         \A t \in Tasks : /\ mem'.task[t].status = mem.task[t].status
                          /\ mem'.task[t].acct = mem.task[t].acct
                          /\ \/ /\ disk'.task[t].status = disk.task[t].status
                                /\ disk'.task[t].acct = disk.task[t].acct
                             \/ /\ disk'.task[t].status = mem.task[t].status
                                /\ disk'.task[t].acct = mem.task[t].acct
  PROVE  RunInv'
<1>1. ASSUME NEW t \in Tasks PROVE TaskRun(proc[t], sends[t], mem.task[t], disk.task[t])'
  BY RunEnds DEF TaskRun, SendOK, OwnOK
<1> QED BY <1>1 DEF RunInv

LEMMA BrowserEventRun ==
  ASSUME TypeOK, RunInv, NEW a \in Accounts, BrowserLost(a) \/ OpenLogin(a) \/ LoginConnects
  PROVE  TypeOK' /\ RunInv'
<1>1. /\ faults' \in FaultCount /\ runtime' \in [Accounts -> BOOLEAN]
      /\ login' \in Accounts \union {None}
      /\ UNCHANGED <<mem, disk, proc, pendingFail, admin, ghosts>>
  <2>1. CASE BrowserLost(a)
    BY <2>1, Types, ConstantsOK DEF TypeOK, BrowserLost, Bump, FaultCount
  <2>2. CASE OpenLogin(a)
    BY <2>2, Types, ConstantsOK DEF TypeOK, OpenLogin, Bump, FaultCount
  <2>3. CASE LoginConnects
    BY <2>3, Types DEF TypeOK, LoginConnects
  <2> QED BY <2>1, <2>2, <2>3
<1> QED BY <1>1 DEF TypeOK, FaultCount, RunInv, PatchOK, ghosts

LEMMA PatchReadRun ==
  ASSUME TypeOK, RunInv, NEW a \in Accounts, NEW p \in Patches, PatchRead(a, p)
  PROVE  TypeOK' /\ RunInv'
<1>1. /\ faults' \in FaultCount
      /\ admin' = [acct |-> a, patch |-> p, wasDisabled |-> mem.acct[a].state = "disabled"]
      /\ UNCHANGED <<mem, disk, proc, pendingFail, browserVars, ghosts>>
  BY Types, ConstantsOK DEF PatchRead, Bump, FaultCount
<1> QED BY <1>1 DEF TypeOK, FaultCount, RunInv, PatchOK, browserVars, ghosts

LEMMA PatchApplyRun ==
  ASSUME TypeOK, RunInv, PatchApply PROVE TypeOK' /\ RunInv'
<1> DEFINE a == admin.acct
           r == Patched(mem.acct[a], admin.patch, admin.wasDisabled)
           next == SetAcct(mem, a, r)
<1>1. a \in Accounts /\ admin.patch \in Patches /\ admin.wasDisabled \in BOOLEAN
  BY DEF PatchApply, RunInv, PatchOK, TypeOK
<1>2. r \in AccountRecord
  BY <1>1, Types, ChangedRecords
<1>3. Persisted(next) \/ NotPersisted(next)
  BY DEF PatchApply
<1> HIDE DEF r
<1>4. next \in Store /\ next.task = mem.task
  BY <1>1, <1>2, Types, SetAcctStore
<1> HIDE DEF next
<1>5. /\ mem' = next /\ disk' \in {next, disk} /\ faults' \in FaultCount
  BY <1>3, Types, ConstantsOK DEF Persisted, NotPersisted, Bump, FaultCount
<1>6. /\ known' \subseteq Accounts /\ admin' = NoPatch
      /\ UNCHANGED <<proc, pendingFail, browserVars, sends>>
  BY DEF PatchApply, TypeOK
<1>7. TypeOK'
  BY <1>4, <1>5, <1>6, Types DEF TypeOK, Store, FaultCount, browserVars, NoPatch
<1>8. PatchOK'
  BY <1>6 DEF PatchOK
<1> QED BY <1>4, <1>5, <1>6, <1>7, <1>8, BesideRuns

LEMMA ClockRun ==
  ASSUME TypeOK, RunInv, NEW t \in Tasks, BecomesDue(t) \/ TaskTimesOut(t)
  PROVE  TypeOK' /\ RunInv'
<1>1. PICK r : /\ r \in {[mem.task[t] EXCEPT !.due = TRUE], [mem.task[t] EXCEPT !.old = TRUE]}
               /\ Clock(mem, t, r)
  BY DEF BecomesDue, TaskTimesOut
<1>2. r \in TaskRecord /\ r.status = mem.task[t].status /\ r.acct = mem.task[t].acct
  BY <1>1, Types DEF TaskRecord
<1> DEFINE d == [disk.task[t] EXCEPT !.due = r.due, !.old = r.old]
<1>3. d \in TaskRecord /\ d.status = disk.task[t].status /\ d.acct = disk.task[t].acct
  BY <1>2, Types DEF TaskRecord
<1>4. mem' = SetTask(mem, t, r) /\ disk' = SetTask(disk, t, d)
  BY <1>1 DEF Clock, SetBoth
<1> HIDE DEF d
<1>5. /\ mem' \in Store /\ disk' \in Store
      /\ mem'.task[t] = r /\ \A u \in Tasks \ {t} : mem'.task[u] = mem.task[u]
      /\ disk'.task[t] = d /\ \A u \in Tasks \ {t} : disk'.task[u] = disk.task[u]
  <2>1. mem \in Store /\ disk \in Store
    BY Types
  <2>2. /\ mem' \in Store /\ mem'.task[t] = r /\ \A u \in Tasks \ {t} : mem'.task[u] = mem.task[u]
    BY <1>2, <1>4, <2>1, SetTaskStore
  <2>3. /\ disk' \in Store /\ disk'.task[t] = d /\ \A u \in Tasks \ {t} : disk'.task[u] = disk.task[u]
    BY <1>3, <1>4, <2>1, SetTaskStore
  <2> QED BY <2>2, <2>3
<1>6. UNCHANGED <<proc, pendingFail, admin, faults, browserVars, ghosts>>
  BY DEF BecomesDue, TaskTimesOut
<1>7. TypeOK' /\ PatchOK'
  BY <1>5, <1>6 DEF TypeOK, Store, RunInv, PatchOK, browserVars, ghosts
<1>8. ASSUME NEW u \in Tasks
      PROVE  /\ mem'.task[u].status = mem.task[u].status /\ mem'.task[u].acct = mem.task[u].acct
             /\ disk'.task[u].status = disk.task[u].status /\ disk'.task[u].acct = disk.task[u].acct
  <2>1. CASE u = t
    BY <1>2, <1>3, <1>5, <2>1
  <2>2. CASE u # t
    BY <1>5, <2>2
  <2> QED BY <2>1, <2>2
<1> QED BY <1>6, <1>7, <1>8, BesideRuns DEF ghosts

LEMMA AccountClockRun ==
  ASSUME TypeOK, RunInv, NEW a \in Accounts,
         LeaseExpires(a) \/ CooldownEnds(a) \/ QuotaRefills(a)
  PROVE  TypeOK' /\ RunInv'
<1>1. PICK r \in AccountRecord, d \in AccountRecord :
         mem' = SetAcct(mem, a, r) /\ disk' = SetAcct(disk, a, d)
  <2>1. ASSUME NEW s \in {mem.acct[a], disk.acct[a]}
        PROVE  /\ [s EXCEPT !.live = FALSE] \in AccountRecord
               /\ [s EXCEPT !.cooled = TRUE] \in AccountRecord
               /\ [s EXCEPT !.reset = TRUE] \in AccountRecord
    BY Types, ChangedRecords
  <2>2. CASE LeaseExpires(a)
    BY <2>1, <2>2 DEF LeaseExpires, SetBoth
  <2>3. CASE CooldownEnds(a)
    BY <2>1, <2>3 DEF CooldownEnds, SetBoth
  <2>4. CASE QuotaRefills(a)
    BY <2>1, <2>4 DEF QuotaRefills, SetBoth
  <2> QED BY <2>2, <2>3, <2>4
<1>2. /\ mem' \in Store /\ disk' \in Store
      /\ mem'.task = mem.task /\ disk'.task = disk.task
  BY <1>1, Types, SetAcctStore
<1>3. UNCHANGED <<proc, pendingFail, admin, faults, browserVars, sends>> /\ known' \subseteq known
  BY DEF LeaseExpires, CooldownEnds, QuotaRefills, ghosts
<1>4. TypeOK' /\ PatchOK'
  BY <1>2, <1>3 DEF TypeOK, Store, RunInv, PatchOK, browserVars
<1> QED BY <1>2, <1>3, <1>4, BesideRuns

LEMMA RecoveredStore ==
  ASSUME TypeOK
  PROVE  /\ Recovered(disk) \in Store
         /\ \A a \in Accounts : Recovered(disk).acct[a] = RecoveredAccount(disk.acct[a])
         /\ \A t \in Tasks : Recovered(disk).task[t] = RecoveredTask(disk.task[t])
<1>1. \A a \in Accounts : RecoveredAccount(disk.acct[a]) \in AccountRecord
  BY Types, ChangedRecords
<1>2. \A t \in Tasks : RecoveredTask(disk.task[t]) \in TaskRecord
  BY Types DEF RecoveredTask, TaskRecord, Statuses
<1> QED BY <1>1, <1>2 DEF Recovered, Store

LEMMA RestartRun ==
  ASSUME TypeOK, RunInv, Restart, faults' \in FaultCount PROVE TypeOK' /\ RunInv'
<1>1. /\ mem' = Recovered(disk) /\ disk' = Recovered(disk)
      /\ proc' = [t \in Tasks |-> Idle] /\ pendingFail' = {} /\ admin' = NoPatch
      /\ runtime' = [a \in Accounts |-> FALSE] /\ login' = None /\ UNCHANGED ghosts
  BY DEF Restart, SetBoth
<1>2. mem' \in Store /\ disk' \in Store
  BY <1>1, RecoveredStore
<1>3. Idle \in ProcRecord
  BY DEF Idle, ProcRecord
<1>4. TypeOK'
  BY <1>1, <1>2, <1>3 DEF TypeOK, Store, FaultCount, NoPatch, ghosts
<1>5. ASSUME NEW t \in Tasks PROVE TaskRun(proc[t], sends[t], mem.task[t], disk.task[t])'
  <2>1. /\ mem'.task[t] = RecoveredTask(disk.task[t]) /\ disk'.task[t] = RecoveredTask(disk.task[t])
        /\ proc'[t] = Idle /\ sends'[t] = sends[t]
    BY <1>1, RecoveredStore DEF ghosts
  <2>2. LET r == RecoveredTask(disk.task[t]) IN
        /\ r.acct = disk.task[t].acct
        /\ r.status = IF disk.task[t].status = "submitting" THEN "failed" ELSE disk.task[t].status
    BY Types DEF RecoveredTask, TaskRecord, Statuses
  <2>3. TaskRun(Idle, sends[t], RecoveredTask(disk.task[t]), RecoveredTask(disk.task[t]))
    BY <2>2, RunEnds DEF TaskRun, SendOK, OwnOK, Committed, Submitting, Idle
  <2> QED BY <2>1, <2>3
<1> QED BY <1>1, <1>4, <1>5 DEF RunInv, PatchOK

LEMMA CrashRun ==
  ASSUME TypeOK, RunInv, Crash \/ \E t \in Tasks : CatchUpdateFails(t) PROVE TypeOK' /\ RunInv'
<1>1. Restart /\ Bump("crash", MaxCrashes)
  BY DEF Crash, CatchUpdateFails
<1>2. faults' \in FaultCount
  BY <1>1, Types, ConstantsOK DEF Bump, FaultCount
<1> QED BY <1>1, <1>2, RestartRun

LEMMA NextRun ==
  ASSUME TypeOK, RunInv, [Next]_vars PROVE TypeOK' /\ RunInv'
<1>1. CASE \E t \in Tasks : Run(t)
  BY <1>1, ClaimRun, WaitAccountRun, MarkRun, SendRun, ReplyRun, AcceptedRun, NoteQuotaRun,
     ReleaseAccountRun, RequeueRun, FailTaskRun, EnsureRuntimeRun, ConnectRun, CheckAgeRun,
     ClaimExistingRun, RenewForRetryRun, PollRun, RepollRun, MarkDownloadingRun, SucceedRun,
     ReleaseDoneRun, CatchUpdateRun DEF Run
<1>2. CASE \E t \in Tasks : CreateVideo(t) \/ Pump(t) \/ BecomesDue(t) \/ TaskTimesOut(t)
  BY <1>2, CreateVideoRun, PumpRun, ClockRun
<1>3. CASE \E a \in Accounts : BrowserLost(a) \/ OpenLogin(a)
  BY <1>3, BrowserEventRun
<1>4. CASE LoginConnects
  <2>1. login \in Accounts
    BY <1>4 DEF LoginConnects, TypeOK
  <2> QED BY <1>4, <2>1, BrowserEventRun
<1>5. CASE (\E a \in Accounts, p \in Patches : PatchRead(a, p)) \/ PatchApply
  BY <1>5, PatchReadRun, PatchApplyRun
<1>6. CASE \E a \in Accounts : LeaseExpires(a) \/ CooldownEnds(a) \/ QuotaRefills(a)
  BY <1>6, AccountClockRun
<1>7. CASE Crash \/ \E t \in Tasks : CatchUpdateFails(t)
  BY <1>7, CrashRun
<1>8. CASE UNCHANGED vars
  BY <1>8 DEF vars, TypeOK, RunInv, PatchOK, browserVars, ghosts
<1> QED BY <1>1, <1>2, <1>3, <1>4, <1>5, <1>6, <1>7, <1>8 DEF Next

LEMMA InitRun == Init => TypeOK /\ RunInv
<1> SUFFICES ASSUME Init PROVE TypeOK /\ RunInv
  OBVIOUS
<1>1. FreshAccount \in AccountRecord /\ NoTask \in TaskRecord /\ Idle \in ProcRecord
  BY DEF FreshAccount, AccountRecord, NoTask, TaskRecord, Statuses, Idle, ProcRecord
<1>2. TypeOK
  BY <1>1, ConstantsOK DEF Init, TypeOK, NoPatch
<1>3. \A t \in Tasks : TaskRun(Idle, 0, NoTask, NoTask)
  BY DEF TaskRun, JobOK, SendOK, OwnOK, NotYetSent, Submitting, SubmitPcs, QueryPcs, Idle, NoTask
<1>4. \A t \in Tasks : proc[t] = Idle /\ sends[t] = 0 /\ mem.task[t] = NoTask /\ disk.task[t] = NoTask
  BY DEF Init
<1> QED BY <1>2, <1>3, <1>4 DEF RunInv, PatchOK, Init

(* Every value stays in its set: no run is left in a place without its job and
   account, whatever crashes and failed writes happen (service.mjs, pump). *)
THEOREM TypeCorrect == Spec => []TypeOK
<1>1. Spec => [](TypeOK /\ RunInv)
  BY InitRun, NextRun, PTL DEF Spec
<1> QED BY <1>1, PTL

(* For one request the provider is asked at most once, unless it said that it
   did not take the request, whatever crashes, failed writes, retries and
   changes of account happen (service.mjs, processQueued; store.mjs, recovery). *)
THEOREM AskedAtMostOnce == Spec => []SubmittedAtMostOnce
<1>1. TypeOK /\ RunInv => SubmittedAtMostOnce
  BY RunEnds DEF SubmittedAtMostOnce
<1>2. Spec => [](TypeOK /\ RunInv)
  BY InitRun, NextRun, PTL DEF Spec
<1> QED BY <1>1, <1>2, PTL

(***************************************************************************)
(* Leases.  A run that is on its account's page, or about to go there,     *)
(* holds a live lease of the account; a run never touches a live lease of  *)
(* another task.                                                           *)
(***************************************************************************)

AcctOK(r) ==
    /\ r.live => r.owner # None
    /\ r.state = "busy" => r.owner # None
    /\ ~r.enabled => r.state # "busy"

OnPage(t) == UsesPage(t) \/ At(t, "mark")

HoldsLive(t, a) == mem.acct[a].owner = t /\ mem.acct[a].live

LeaseInv ==
    /\ \A a \in Accounts : AcctOK(mem.acct[a])
    /\ \A t \in Tasks : OnPage(t) => HoldsLive(t, proc[t].acct)

\* What a run of t may do to the lease in r.
LeaseMove(r, s, t) ==
    \/ s.owner = r.owner /\ s.live = r.live
    \/ r.owner \in {None, t} \/ ~r.live

LEMMA LeaseRecords ==
  ASSUME NEW r \in AccountRecord, NEW t \in Tasks, AcctOK(r)
  PROVE  /\ \A x : Claimable(r, x) =>
               LET s == Claimed(r, t)
               IN  AcctOK(s) /\ LeaseMove(r, s, t) /\ s.owner = t /\ s.live
         /\ ClaimableAgain(r, t) =>
               LET s == ClaimedAgain(r, t)
               IN  AcctOK(s) /\ LeaseMove(r, s, t) /\ s.owner = t /\ s.live
         /\ AcctOK(Exhausted(r)) /\ LeaseMove(r, Exhausted(r), t)
         /\ \A out \in Outcome : AcctOK(Released(r, out))
         /\ r.owner = t => LET s == [r EXCEPT !.live = TRUE] IN AcctOK(s) /\ LeaseMove(r, s, t)
<1>1. t # None
  BY ConstantsOK
<1>2. ASSUME NEW x, Claimable(r, x)
      PROVE  LET s == Claimed(r, t)
             IN  AcctOK(s) /\ LeaseMove(r, s, t) /\ s.owner = t /\ s.live
  BY <1>1, <1>2 DEF AccountRecord, AcctOK, LeaseMove, Claimable, Claimed, ClearExpiredQuota, QuotaHasReset
<1>3. ASSUME ClaimableAgain(r, t)
      PROVE  LET s == ClaimedAgain(r, t)
             IN  AcctOK(s) /\ LeaseMove(r, s, t) /\ s.owner = t /\ s.live
  BY <1>1, <1>3 DEF AccountRecord, AcctOK, LeaseMove, ClaimableAgain, ClaimedAgain, ClearExpiredQuota, QuotaHasReset
<1>4. AcctOK(Exhausted(r)) /\ LeaseMove(r, Exhausted(r), t)
  BY DEF AccountRecord, AcctOK, LeaseMove, Exhausted
<1>5. \A out \in Outcome : AcctOK(Released(r, out))
  BY DEF AccountRecord, AcctOK, Released, Exhausted
<1>6. r.owner = t => LET s == [r EXCEPT !.live = TRUE] IN AcctOK(s) /\ LeaseMove(r, s, t)
  BY <1>1 DEF AccountRecord, AcctOK, LeaseMove
<1> QED BY <1>2, <1>3, <1>4, <1>5, <1>6

\* A run of t changes at most the account a, of which its new place needs the lease.
LEMMA OneAccountLease ==
  ASSUME TypeOK, LeaseInv, NEW t \in Tasks, NEW a \in Accounts, NEW r \in AccountRecord,
         mem' = SetAcct(mem, a, r), AcctOK(r), LeaseMove(mem.acct[a], r, t),
         \A u \in Tasks \ {t} : proc'[u] = proc[u],
         OnPage(t)' => proc'[t].acct = a /\ r.owner = t /\ r.live
  PROVE  LeaseInv'
<1>1. mem'.acct[a] = r /\ \A b \in Accounts \ {a} : mem'.acct[b] = mem.acct[b]
  <2>1. /\ SetAcct(mem, a, r).acct[a] = r
        /\ \A b \in Accounts \ {a} : SetAcct(mem, a, r).acct[b] = mem.acct[b]
    <3>1. mem \in Store
      BY Types
    <3> QED BY <3>1, SetAcctStore
  <2> QED BY <2>1
<1>2. ASSUME NEW b \in Accounts PROVE AcctOK(mem'.acct[b])
  BY <1>1 DEF LeaseInv
<1>3. ASSUME NEW u \in Tasks, OnPage(u)' PROVE HoldsLive(u, proc[u].acct)'
  <2>1. CASE u = t
    BY <1>1, <1>3, <2>1 DEF HoldsLive
  <2>2. CASE u # t
    <3>1. proc'[u] = proc[u] /\ HoldsLive(u, proc[u].acct)
      BY <1>3, <2>2 DEF LeaseInv, OnPage, UsesPage, At
    <3>2. CASE proc[u].acct = a
      BY <1>1, <2>2, <3>1, <3>2, ConstantsOK DEF LeaseMove, HoldsLive
    <3>3. CASE proc[u].acct # a
      <4>1. mem'.acct[proc[u].acct] = mem.acct[proc[u].acct]
        <5>1. DOMAIN mem.acct = Accounts /\ mem'.acct = [mem.acct EXCEPT ![a] = r]
          BY Types DEF Store, SetAcct
        <5> QED BY <3>3, <5>1
      <4> QED BY <3>1, <4>1 DEF HoldsLive
    <3> QED BY <3>2, <3>3
  <2> QED BY <2>1, <2>2
<1> QED BY <1>2, <1>3 DEF LeaseInv

LEMMA SameAccountsLease ==
  ASSUME LeaseInv, NEW t \in Tasks, mem'.acct = mem.acct,
         \A u \in Tasks \ {t} : proc'[u] = proc[u],
         OnPage(t)' => OnPage(t) /\ proc'[t].acct = proc[t].acct
  PROVE  LeaseInv'
<1>1. ASSUME NEW u \in Tasks, OnPage(u)' PROVE HoldsLive(u, proc[u].acct)'
  BY <1>1 DEF LeaseInv, OnPage, UsesPage, At, HoldsLive
<1> QED BY <1>1 DEF LeaseInv

LEMMA IfHolderLease ==
  ASSUME TypeOK, LeaseInv, NEW t \in Tasks, NEW a \in Accounts, NEW r \in AccountRecord,
         mem' = IfHolder(mem, t, a, r), AcctOK(r),
         mem.acct[a].owner = t => LeaseMove(mem.acct[a], r, t),
         \A u \in Tasks \ {t} : proc'[u] = proc[u], ~OnPage(t)'
  PROVE  LeaseInv'
<1>1. CASE mem.acct[a].owner = t
  <2>1. mem' = SetAcct(mem, a, r)
    BY <1>1, ConstantsOK DEF IfHolder
  <2> QED BY <1>1, <2>1, OneAccountLease
<1>2. CASE mem.acct[a].owner # t
  <2>1. mem' = mem
    BY <1>2 DEF IfHolder
  <2> QED BY <2>1, SameAccountsLease
<1> QED BY <1>1, <1>2

LEMMA ReleaseLease ==
  ASSUME TypeOK, LeaseInv, NEW t \in Tasks, NEW a \in Accounts, NEW out \in Outcome,
         mem' = Release(mem, t, a, out),
         \A u \in Tasks \ {t} : proc'[u] = proc[u], ~OnPage(t)'
  PROVE  LeaseInv'
<1> DEFINE r == Released(mem.acct[a], out)
<1>1. r \in AccountRecord
  BY Types, AccountRecords
<1>2. AcctOK(r)
  BY Types, LeaseRecords DEF LeaseInv
<1>3. mem.acct[a].owner = t => LeaseMove(mem.acct[a], r, t)
  BY DEF LeaseMove
<1>4. mem' = IfHolder(mem, t, a, r)
  BY ConstantsOK DEF Release
<1> HIDE DEF r
<1> QED BY <1>1, <1>2, <1>3, <1>4, IfHolderLease

\* The places a run goes to without touching an account.
LEMMA RunLease ==
  ASSUME TypeOK, RunInv, LeaseInv, NEW t \in Tasks,
         \/ WaitAccount(t) \/ Mark(t) \/ Send(t) \/ Reply(t) \/ Accepted(t)
         \/ Requeue(t) \/ FailTask(t) \/ EnsureRuntime(t) \/ Connect(t) \/ CheckAge(t)
         \/ QueryChain(t) \/ TestReady(t) \/ Repoll(t) \/ MarkDownloading(t)
         \/ Download(t) \/ Succeed(t)
  PROVE  LeaseInv'
<1>1. mem'.acct = mem.acct /\ \A u \in Tasks \ {t} : proc'[u] = proc[u]
  <2>1. ASSUME NEW r, NEW then, NEW caught, Mutate(t, SetTask(mem, t, r), then, caught)
        PROVE  mem'.acct = mem.acct /\ \A u \in Tasks \ {t} : proc'[u] = proc[u]
    BY <2>1, Types DEF Mutate, Persisted, NotPersisted, Goto, SetTask, Store
  <2>2. ASSUME NEW r, Goto(t, r), UNCHANGED mem
        PROVE  mem'.acct = mem.acct /\ \A u \in Tasks \ {t} : proc'[u] = proc[u]
    BY <2>2, Types DEF Goto
  <2>3. CASE WaitAccount(t) \/ Mark(t) \/ Accepted(t) \/ Requeue(t)
    BY <2>1, <2>3 DEF WaitAccount, Mark, Accepted, Requeue
  <2>4. CASE FailTask(t) \/ Repoll(t) \/ MarkDownloading(t) \/ Succeed(t)
    BY <2>1, <2>4 DEF FailTask, Repoll, MarkDownloading, Succeed
  <2>5. CASE Send(t) \/ Reply(t)
    BY <2>2, <2>5 DEF Send, Reply
  <2>6. CASE EnsureRuntime(t) \/ Connect(t)
    BY <2>2, <2>6, Types DEF EnsureRuntime, Connect
  <2>7. CASE CheckAge(t) \/ QueryChain(t) \/ TestReady(t) \/ Download(t)
    BY <2>2, <2>7 DEF CheckAge, QueryChain, TestReady, Download
  <2> QED BY <2>3, <2>4, <2>5, <2>6, <2>7
<1>2. OnPage(t)' => OnPage(t) /\ proc'[t].acct = proc[t].acct
  <2>1. ASSUME NEW next, NEW then, NEW caught, Mutate(t, next, then, caught)
        PROVE  proc'[t] \in {then, caught}
    BY <2>1, Types DEF Mutate, Goto
  <2>2. ASSUME NEW r, Goto(t, r) PROVE proc'[t] = r
    BY <2>2, Types DEF Goto
  <2>3. CASE WaitAccount(t) \/ Requeue(t) \/ FailTask(t)
    <3>1. proc'[t] = Idle
      BY <2>1, <2>3 DEF WaitAccount, Requeue, FailTask
    <3> QED BY <3>1 DEF Idle, OnPage, UsesPage, At
  <2>4. CASE Mark(t)
    <3>1. At(t, "mark") /\ proc'[t] \in {[Next_(t, "ensure") EXCEPT !.job = "submit"], Idle}
      BY <2>1, <2>4 DEF Mark
    <3> QED BY <3>1, NextRecords DEF ProcRecord, Idle, OnPage, UsesPage, At
  <2>5. CASE Accepted(t)
    <3>1. proc'[t] \in {Next_(t, "note"), Idle, Releasing(t, "cooldown")}
      BY <2>1, <2>5 DEF Accepted
    <3> QED BY <3>1, NextRecords DEF Idle, OnPage, UsesPage, At, Outcome
  <2>6. CASE Send(t) \/ Reply(t)
    <3>1. OnPage(t)
      BY <2>6 DEF Send, Reply, OnPage, UsesPage, At
    <3>2. proc'[t].acct = proc[t].acct
      <4>1. CASE Send(t)
        BY <2>2, <4>1, NextRecords DEF Send, Outcome
      <4>2. CASE Reply(t)
        <5>1. ASSUME NEW out, Goto(t, [Next_(t, "accept") EXCEPT !.out = out])
              PROVE  proc'[t].acct = proc[t].acct
          BY <2>2, <5>1, NextRecords DEF ProcRecord
        <5>2. ASSUME NEW out \in Outcome, Goto(t, Releasing(t, out))
              PROVE  proc'[t].acct = proc[t].acct
          BY <2>2, <5>2, NextRecords
        <5> QED BY <4>2, <5>1, <5>2 DEF Reply, Outcome
      <4> QED BY <2>6, <4>1, <4>2
    <3> QED BY <3>1, <3>2
  <2>7. CASE EnsureRuntime(t) \/ Connect(t)
    <3>1. OnPage(t)
      BY <2>7 DEF EnsureRuntime, Connect, OnPage, UsesPage, At
    <3>2. PICK r \in {Driving(t), OnBrowserError(t), OnTransient(t), Next_(t, "connecting")} : Goto(t, r)
      BY <2>7 DEF EnsureRuntime, Connect, Goto
    <3>3. r.acct = proc[t].acct
      BY NextRecords DEF Driving, OnBrowserError, OnTransient, Outcome
    <3> QED BY <2>2, <3>1, <3>2, <3>3
  <2>8. CASE CheckAge(t)
    <3>1. proc'[t] \in {[Releasing(t, ErrorOutcome(t)) EXCEPT !.job = "query"],
                        [Next_(t, "existing") EXCEPT !.job = "query"]}
      BY <2>2, <2>8 DEF CheckAge
    <3> QED BY <3>1, NextRecords DEF ProcRecord, OnPage, UsesPage, At, Outcome
  <2>9. CASE QueryChain(t) \/ TestReady(t) \/ Download(t)
    <3>1. OnPage(t)
      BY <2>9 DEF QueryChain, TestReady, Download, OnPage, UsesPage, At
    <3>2. PICK r : /\ r \in {Next_(t, pc) : pc \in {"repoll", "ready", "renew_retry", "downloading", "succeed"}}
                            \union {Releasing(t, out) : out \in {"needs_login", ErrorOutcome(t)}}
                   /\ Goto(t, r)
      BY <2>9 DEF QueryChain, TestReady, Download
    <3>3. r.acct = proc[t].acct
      BY <3>2, NextRecords DEF Outcome
    <3> QED BY <2>2, <3>1, <3>2, <3>3
  <2>10. CASE Repoll(t) \/ MarkDownloading(t) \/ Succeed(t)
    <3>1. /\ proc'[t] \in {Idle, Next_(t, "download"), Next_(t, "done_release"), Releasing(t, ErrorOutcome(t))}
          /\ proc'[t] = Next_(t, "download") => At(t, "downloading")
      <4>1. CASE Repoll(t)
        BY <2>1, <4>1, NextRecords DEF Repoll, RepollFails, Idle, Outcome
      <4>2. CASE MarkDownloading(t)
        BY <2>1, <4>2 DEF MarkDownloading
      <4>3. CASE Succeed(t)
        BY <2>1, <4>3, NextRecords DEF Succeed, Outcome
      <4> QED BY <2>10, <4>1, <4>2, <4>3
    <3> QED BY <3>1, NextRecords DEF Idle, OnPage, UsesPage, At, Outcome
  <2> QED BY <2>3, <2>4, <2>5, <2>6, <2>7, <2>8, <2>9, <2>10
<1> QED BY <1>1, <1>2, SameAccountsLease

LEMMA ClaimLease ==
  ASSUME TypeOK, RunInv, LeaseInv, NEW t \in Tasks, Claim(t) PROVE LeaseInv'
<1>1. CASE Mutate(t, mem, Next_(t, "wait_account"), Idle)
  <2>1. mem' = mem /\ proc'[t] \in {Next_(t, "wait_account"), Idle} /\ \A u \in Tasks \ {t} : proc'[u] = proc[u]
    BY <1>1, Types, NextRecords, MutateEffect
  <2>2. ~OnPage(t)'
    BY <2>1, NextRecords DEF Idle, OnPage, UsesPage, At
  <2> QED BY <2>1, <2>2, SameAccountsLease
<1>2. ASSUME NEW a \in Accounts, Claimable(mem.acct[a], a \in mem.task[t].tried),
             Mutate(t, SetAcct(mem, a, Claimed(mem.acct[a], t)), [Next_(t, "mark") EXCEPT !.acct = a], Idle)
      PROVE  LeaseInv'
  <2> DEFINE r == Claimed(mem.acct[a], t)
             p == [Next_(t, "mark") EXCEPT !.acct = a]
  <2>1. r \in AccountRecord /\ SetAcct(mem, a, r) \in Store
    BY Types, AccountRecords, SetAcctStore
  <2>2. AcctOK(r) /\ LeaseMove(mem.acct[a], r, t) /\ r.owner = t /\ r.live
    BY <1>2, Types, LeaseRecords DEF LeaseInv
  <2>3. p \in ProcRecord /\ p.acct = a
    BY NextRecords DEF ProcRecord
  <2>4. Mutate(t, SetAcct(mem, a, r), p, Idle)
    BY <1>2
  <2> HIDE DEF r, p
  <2>5. /\ mem' = SetAcct(mem, a, r) /\ proc'[t] \in {p, Idle}
        /\ \A u \in Tasks \ {t} : proc'[u] = proc[u]
    BY <2>1, <2>3, <2>4, NextRecords, MutateEffect
  <2>6. OnPage(t)' => proc'[t].acct = a
    BY <2>3, <2>5 DEF Idle, OnPage, UsesPage, At
  <2> QED BY <2>1, <2>2, <2>5, <2>6, OneAccountLease
<1> QED BY <1>1, <1>2 DEF Claim

LEMMA ClaimExistingLease ==
  ASSUME TypeOK, RunInv, LeaseInv, NEW t \in Tasks, ClaimExisting(t) PROVE LeaseInv'
<1> DEFINE a == proc[t].acct
           r == ClaimedAgain(mem.acct[a], t)
<1>1. a \in Accounts
  BY RunEnds DEF ClaimExisting, At, TaskRun, JobOK, QueryPcs
<1>2. CASE Mutate(t, mem, Idle, Idle)
  <2>1. mem' = mem /\ proc'[t] = Idle /\ \A u \in Tasks \ {t} : proc'[u] = proc[u]
    BY <1>2, Types, NextRecords, MutateEffect
  <2>2. ~OnPage(t)'
    BY <2>1 DEF Idle, OnPage, UsesPage, At
  <2> QED BY <2>1, <2>2, SameAccountsLease
<1>3. CASE /\ ClaimableAgain(mem.acct[a], t)
           /\ Mutate(t, SetAcct(mem, a, r), Next_(t, "ensure"), Idle)
  <2>1. r \in AccountRecord /\ SetAcct(mem, a, r) \in Store
    BY <1>1, Types, AccountRecords, SetAcctStore
  <2>2. AcctOK(r) /\ LeaseMove(mem.acct[a], r, t) /\ r.owner = t /\ r.live
    BY <1>1, <1>3, Types, LeaseRecords DEF LeaseInv
  <2> HIDE DEF r
  <2>3. /\ mem' = SetAcct(mem, a, r) /\ proc'[t] \in {Next_(t, "ensure"), Idle}
        /\ \A u \in Tasks \ {t} : proc'[u] = proc[u]
    BY <1>3, <2>1, NextRecords, MutateEffect
  <2>4. OnPage(t)' => proc'[t].acct = a
    BY <2>3, NextRecords DEF Idle, OnPage, UsesPage, At
  <2> QED BY <1>1, <2>1, <2>2, <2>3, <2>4, OneAccountLease
<1> QED BY <1>2, <1>3 DEF ClaimExisting

LEMMA NoteQuotaLease ==
  ASSUME TypeOK, RunInv, LeaseInv, NEW t \in Tasks, NoteQuota(t) PROVE LeaseInv'
<1> DEFINE a == proc[t].acct
           r == Exhausted(mem.acct[a])
           next == IfHolder(mem, t, a, r)
<1>1. a \in Accounts
  BY RunEnds DEF NoteQuota, At, TaskRun, JobOK, SubmitPcs
<1>2. r \in AccountRecord /\ AcctOK(r) /\ LeaseMove(mem.acct[a], r, t)
  BY <1>1, Types, AccountRecords, LeaseRecords DEF LeaseInv
<1>3. Mutate(t, next, Idle, Releasing(t, "cooldown"))
  BY DEF NoteQuota
<1> HIDE DEF r
<1>4. next \in Store
  BY <1>1, <1>2, IfHolderStore
<1>5. /\ mem' = next /\ proc'[t] \in {Idle, Releasing(t, "cooldown")}
      /\ \A u \in Tasks \ {t} : proc'[u] = proc[u]
  BY <1>3, <1>4, NextRecords, MutateEffect DEF Outcome
<1>6. ~OnPage(t)'
  BY <1>5, NextRecords DEF Idle, OnPage, UsesPage, At, Outcome
<1> QED BY <1>1, <1>2, <1>5, <1>6, IfHolderLease

LEMMA ReleaseAccountLease ==
  ASSUME TypeOK, RunInv, LeaseInv, NEW t \in Tasks, ReleaseAccount(t) PROVE LeaseInv'
<1> DEFINE next == Release(mem, t, proc[t].acct, proc[t].out)
<1>1. proc[t].acct \in Accounts /\ proc[t].out \in Outcome
  BY RunEnds, Types DEF ReleaseAccount, At, TaskRun, JobOK, ProcRecord, Outcome
<1>2. next \in Store
  BY <1>1, ReleaseStore
<1>3. PICK pc \in {"requeue", "fail"} : Mutate(t, next, Next_(t, pc), Idle)
  BY DEF ReleaseAccount
<1>4. /\ mem' = next /\ proc'[t] \in {Idle, Next_(t, pc)}
      /\ \A u \in Tasks \ {t} : proc'[u] = proc[u]
  BY <1>2, <1>3, NextRecords, MutateEffect
<1>5. ~OnPage(t)'
  BY <1>4, NextRecords DEF Idle, OnPage, UsesPage, At
<1> QED BY <1>1, <1>4, <1>5, ReleaseLease

LEMMA RenewForRetryLease ==
  ASSUME TypeOK, RunInv, LeaseInv, NEW t \in Tasks, RenewForRetry(t) PROVE LeaseInv'
<1> DEFINE a == proc[t].acct
           r == [mem.acct[a] EXCEPT !.live = TRUE]
           next == IfHolder(mem, t, a, r)
<1>1. a \in Accounts
  BY RunEnds DEF RenewForRetry, At, TaskRun, JobOK, QueryPcs
<1>2. r \in AccountRecord
  BY <1>1, Types, AccountRecords
<1>3. mem.acct[a].owner = t => AcctOK(r) /\ LeaseMove(mem.acct[a], r, t)
  BY <1>1, Types, LeaseRecords DEF LeaseInv
<1>4. Mutate(t, next, Next_(t, "repoll_retry"), Idle)
  BY DEF RenewForRetry, Renew
<1> HIDE DEF r
<1>5. next \in Store
  BY <1>1, <1>2, IfHolderStore
<1>6. /\ mem' = next /\ proc'[t] \in {Idle, Next_(t, "repoll_retry")}
      /\ \A u \in Tasks \ {t} : proc'[u] = proc[u]
  BY <1>4, <1>5, NextRecords, MutateEffect
<1>7. ~OnPage(t)'
  BY <1>6, NextRecords DEF Idle, OnPage, UsesPage, At
<1>8. CASE mem.acct[a].owner = t
  BY <1>1, <1>2, <1>3, <1>6, <1>7, <1>8, IfHolderLease
<1>9. CASE mem.acct[a].owner # t
  <2>1. mem' = mem
    BY <1>6, <1>9 DEF IfHolder
  <2> QED BY <1>6, <1>7, <2>1, SameAccountsLease
<1> QED BY <1>8, <1>9

LEMMA ReleaseDoneLease ==
  ASSUME TypeOK, RunInv, LeaseInv, NEW t \in Tasks, ReleaseDone(t) PROVE LeaseInv'
<1>1. PICK out \in Outcome : mem' = Release(mem, t, proc[t].acct, out)
  BY DEF ReleaseDone, Persisted, NotPersisted, Outcome
<1>2. proc[t].acct \in Accounts
  BY RunEnds DEF ReleaseDone, At, TaskRun, JobOK, QueryPcs
<1>3. proc'[t] = Idle /\ \A u \in Tasks \ {t} : proc'[u] = proc[u]
  BY Types DEF ReleaseDone, Goto
<1>4. ~OnPage(t)'
  BY <1>3 DEF Idle, OnPage, UsesPage, At
<1> QED BY <1>1, <1>2, <1>3, <1>4, ReleaseLease

\* The steps that leave every account, and the runs that are under way, alone.
LEMMA BesideLease ==
  ASSUME TypeOK, LeaseInv, NEW t \in Tasks,
         \/ CreateVideo(t) \/ Pump(t) \/ CatchUpdate(t) \/ BecomesDue(t) \/ TaskTimesOut(t)
         \/ (\E a \in Accounts : BrowserLost(a) \/ OpenLogin(a)) \/ LoginConnects
         \/ \E a \in Accounts, p \in Patches : PatchRead(a, p)
  PROVE  LeaseInv'
<1>1. mem'.acct = mem.acct
  <2>1. ASSUME NEW r PROVE SetTask(mem, t, r).acct = mem.acct
    BY Types DEF SetTask, Store
  <2>2. CASE CreateVideo(t) \/ CatchUpdate(t)
    BY <2>1, <2>2 DEF CreateVideo, CatchUpdate, Persisted, NotPersisted
  <2>3. CASE BecomesDue(t) \/ TaskTimesOut(t)
    BY <2>1, <2>3 DEF BecomesDue, TaskTimesOut, Clock, SetBoth
  <2>4. CASE Pump(t) \/ LoginConnects \/ \E a \in Accounts : BrowserLost(a) \/ OpenLogin(a)
    BY <2>4 DEF Pump, BrowserLost, OpenLogin, LoginConnects
  <2>5. CASE \E a \in Accounts, p \in Patches : PatchRead(a, p)
    BY <2>5 DEF PatchRead
  <2> QED BY <2>2, <2>3, <2>4, <2>5
<1>2. CASE Pump(t)
  <2>1. /\ proc'[t].pc \in {"claim", "age"} /\ \A u \in Tasks \ {t} : proc'[u] = proc[u]
    BY <1>2, Types DEF Pump, Goto, Idle
  <2> QED BY <1>1, <2>1, SameAccountsLease DEF OnPage, UsesPage, At
<1>3. CASE ~Pump(t)
  <2>1. proc' = proc
    BY <1>3 DEF CreateVideo, CatchUpdate, BecomesDue, TaskTimesOut, BrowserLost, OpenLogin,
                LoginConnects, PatchRead
  <2> QED BY <1>1, <2>1, SameAccountsLease DEF OnPage, UsesPage, At
<1> QED BY <1>2, <1>3

\* A change of one account that leaves its lease alone.
LEMMA ChangeAccountLease ==
  ASSUME TypeOK, LeaseInv, NEW a \in Accounts, NEW r \in AccountRecord, mem' = SetAcct(mem, a, r),
         AcctOK(r), r.owner = mem.acct[a].owner, UNCHANGED proc,
         r.live = mem.acct[a].live \/ \A u \in Tasks : mem.acct[a].owner = u => At(u, "idle")
  PROVE  LeaseInv'
<1>1. mem \in Store
  BY Types
<1>2. SetAcct(mem, a, r).acct[a] = r /\ \A b \in Accounts \ {a} : SetAcct(mem, a, r).acct[b] = mem.acct[b]
  BY <1>1, SetAcctStore
<1>3. ASSUME NEW b \in Accounts PROVE AcctOK(mem'.acct[b])
  BY <1>2 DEF LeaseInv
<1>4. ASSUME NEW u \in Tasks, OnPage(u)' PROVE HoldsLive(u, proc[u].acct)'
  <2>1. OnPage(u) /\ proc'[u] = proc[u] /\ HoldsLive(u, proc[u].acct) /\ ~At(u, "idle")
    BY <1>4 DEF LeaseInv, OnPage, UsesPage, At
  <2>2. CASE proc[u].acct = a
    BY <1>2, <2>1, <2>2 DEF HoldsLive
  <2>3. CASE proc[u].acct # a
    <3>1. mem'.acct[proc[u].acct] = mem.acct[proc[u].acct]
      BY <1>1, <2>3 DEF Store, SetAcct
    <3> QED BY <2>1, <3>1 DEF HoldsLive
  <2> QED BY <2>2, <2>3
<1> QED BY <1>3, <1>4 DEF LeaseInv

LEMMA PatchApplyLease ==
  ASSUME TypeOK, RunInv, LeaseInv, PatchApply PROVE LeaseInv'
<1> DEFINE a == admin.acct
           r == Patched(mem.acct[a], admin.patch, admin.wasDisabled)
<1>1. a \in Accounts /\ admin.patch \in Patches /\ admin.wasDisabled \in BOOLEAN
  BY DEF PatchApply, RunInv, PatchOK, TypeOK
<1>2. r \in AccountRecord
  BY <1>1, Types, ChangedRecords
<1>3. AcctOK(r) /\ r.owner = mem.acct[a].owner /\ r.live = mem.acct[a].live
  BY <1>1, Types, ConstantsOK DEF LeaseInv, AcctOK, Patched, AccountRecord
<1>4. mem' = SetAcct(mem, a, r) /\ UNCHANGED proc
  BY DEF PatchApply, Persisted, NotPersisted
<1> HIDE DEF r
<1> QED BY <1>1, <1>2, <1>3, <1>4, ChangeAccountLease

LEMMA AccountClockLease ==
  ASSUME TypeOK, LeaseInv, NEW a \in Accounts, LeaseExpires(a) \/ CooldownEnds(a) \/ QuotaRefills(a)
  PROVE  LeaseInv'
<1>1. mem.acct[a] \in AccountRecord /\ AcctOK(mem.acct[a])
  BY Types DEF LeaseInv
<1>2. CASE LeaseExpires(a)
  <2> DEFINE r == [mem.acct[a] EXCEPT !.live = FALSE]
  <2>1. r \in AccountRecord /\ AcctOK(r) /\ r.owner = mem.acct[a].owner
    BY <1>1 DEF AccountRecord, AcctOK
  <2>2. mem' = SetAcct(mem, a, r) /\ UNCHANGED proc /\ At(mem.acct[a].owner, "idle")
    BY <1>2 DEF LeaseExpires, SetBoth
  <2> HIDE DEF r
  <2> QED BY <2>1, <2>2, ChangeAccountLease
<1>3. CASE CooldownEnds(a) \/ QuotaRefills(a)
  <2>1. PICK r \in {[mem.acct[a] EXCEPT !.cooled = TRUE], [mem.acct[a] EXCEPT !.reset = TRUE]} :
           mem' = SetAcct(mem, a, r) /\ UNCHANGED proc
    BY <1>3 DEF CooldownEnds, QuotaRefills, SetBoth
  <2>2. /\ r \in AccountRecord /\ AcctOK(r)
        /\ r.owner = mem.acct[a].owner /\ r.live = mem.acct[a].live
    BY <1>1 DEF AccountRecord, AcctOK
  <2> QED BY <2>1, <2>2, ChangeAccountLease
<1> QED BY <1>2, <1>3

LEMMA RestartLease ==
  ASSUME TypeOK, Restart PROVE LeaseInv'
<1>1. \A a \in Accounts : mem'.acct[a] = RecoveredAccount(disk.acct[a])
  BY RecoveredStore DEF Restart, SetBoth
<1>2. ASSUME NEW a \in Accounts PROVE AcctOK(mem'.acct[a])
  <2>1. disk.acct[a] \in AccountRecord
    BY Types
  <2>2. AcctOK(RecoveredAccount(disk.acct[a]))
    BY <2>1 DEF AccountRecord, RecoveredAccount, AcctOK
  <2> QED BY <1>1, <2>2
<1>3. \A t \in Tasks : ~OnPage(t)'
  BY DEF Restart, Idle, OnPage, UsesPage, At
<1> QED BY <1>2, <1>3 DEF LeaseInv

LEMMA NextLease ==
  ASSUME TypeOK, RunInv, LeaseInv, [Next]_vars PROVE LeaseInv'
<1>1. CASE \E t \in Tasks : Run(t)
  <2> PICK t \in Tasks : Run(t)
    BY <1>1
  <2>1. CASE CatchUpdate(t)
    BY <2>1, BesideLease
  <2>2. CASE ~CatchUpdate(t)
    BY <2>2, ClaimLease, NoteQuotaLease, ReleaseAccountLease, ClaimExistingLease,
       RenewForRetryLease, ReleaseDoneLease, RunLease DEF Run
  <2> QED BY <2>1, <2>2
<1>2. CASE \E t \in Tasks : CreateVideo(t) \/ Pump(t) \/ BecomesDue(t) \/ TaskTimesOut(t)
  BY <1>2, BesideLease
<1>3. CASE \/ \E a \in Accounts : BrowserLost(a) \/ OpenLogin(a)
           \/ LoginConnects \/ \E a \in Accounts, p \in Patches : PatchRead(a, p)
  <2>1. mem' = mem /\ proc' = proc
    BY <1>3 DEF BrowserLost, OpenLogin, LoginConnects, PatchRead
  <2> QED BY <2>1 DEF LeaseInv, OnPage, UsesPage, At, HoldsLive
<1>4. CASE PatchApply
  BY <1>4, PatchApplyLease
<1>5. CASE \E a \in Accounts : LeaseExpires(a) \/ CooldownEnds(a) \/ QuotaRefills(a)
  BY <1>5, AccountClockLease
<1>6. CASE Crash \/ \E t \in Tasks : CatchUpdateFails(t)
  BY <1>6, RestartLease DEF Crash, CatchUpdateFails
<1>7. CASE UNCHANGED vars
  BY <1>7 DEF vars, LeaseInv, OnPage, UsesPage, At, HoldsLive
<1> QED BY <1>1, <1>2, <1>3, <1>4, <1>5, <1>6, <1>7 DEF Next

LEMMA InitLease == Init => LeaseInv
<1>1. ASSUME Init PROVE LeaseInv
  <2>1. \A a \in Accounts : mem.acct[a] = FreshAccount
    BY <1>1 DEF Init
  <2>2. AcctOK(FreshAccount)
    BY DEF AcctOK, FreshAccount
  <2>3. \A t \in Tasks : ~OnPage(t)
    BY <1>1 DEF Init, Idle, OnPage, UsesPage, At
  <2> QED BY <2>1, <2>2, <2>3 DEF LeaseInv
<1> QED BY <1>1

LEMMA Leases == Spec => [](TypeOK /\ RunInv /\ LeaseInv)
BY InitRun, NextRun, InitLease, NextLease, PTL DEF Spec

(* Two runs never drive the browser page of one account at the same time, also
   when leases are taken over, cleared by a restart or left behind by a failed
   write (account-pool.mjs, claim and claimExisting). *)
THEOREM OneRunDrivesAPage == Spec => []OneRunPerPage
<1>1. LeaseInv => OneRunPerPage
  BY DEF LeaseInv, OneRunPerPage, OnPage, HoldsLive
<1> QED BY <1>1, Leases, PTL

(* No account is busy without a lease, so none is lost to the pool until the
   next restart (account-pool.mjs, claim and release). *)
THEOREM BusyAccountsAreLeased == Spec => []BusyIsLeased
<1>1. LeaseInv => BusyIsLeased
  BY DEF LeaseInv, BusyIsLeased, AcctOK
<1> QED BY <1>1, Leases, PTL

(***************************************************************************)
(* As long as no write has failed: memory and file agree, the place of a   *)
(* run tells the status of its task, and a task leases at most the account *)
(* it works with.                                                          *)
(***************************************************************************)

StatusAt(p) ==
    IF p.pc \in {"claim", "wait_account", "mark"} THEN "queued"
    ELSE IF p.job = "submit" /\ p.pc # "note"     THEN "submitting"
    ELSE IF p.pc = "done_release"                 THEN "succeeded"
    ELSE "processing"

WorkPcs == {"age", "ensure", "connecting", "accept", "note"} \union (QueryPcs \ {"done_release"})

CleanTask(p, m, n) ==
    /\ p.pc # "idle" => m.status = StatusAt(p)
    /\ p.pc = "idle" => m.status # "submitting"
    /\ p.pc \in WorkPcs => m.acct = p.acct
    /\ m.status = "processing" \/ p.pc = "accept" => n = 1

\* A run p of a task m may hold account a.
MayHold(p, m, a) ==
    /\ p.pc = "idle" => m.status = "processing" /\ m.acct = a
    /\ p.pc # "idle" => p.acct = a /\ p.pc \notin {"claim", "wait_account", "requeue", "fail"}

CleanInv ==
    /\ pendingFail = {}
    /\ \A t \in Tasks :
          /\ CleanTask(proc[t], mem.task[t], sends[t])
          /\ disk.task[t].status = mem.task[t].status
          /\ \A a \in Accounts : mem.acct[a].owner = t => MayHold(proc[t], mem.task[t], a)

LEMMA CleanMutate ==
  ASSUME TypeOK, CleanInv, NEW t \in Tasks, NEW next \in Store,
         NEW then \in ProcRecord, NEW caught \in ProcRecord, Mutate(t, next, then, caught),
         faults'.write = 0, UNCHANGED sends,
         \A u \in Tasks \ {t} : next.task[u] = mem.task[u],
         \A a \in Accounts, u \in Tasks \ {t} : next.acct[a].owner = u => mem.acct[a].owner = u,
         CleanTask(then, next.task[t], sends[t]),
         \A a \in Accounts : next.acct[a].owner = t => MayHold(then, next.task[t], a)
  PROVE  CleanInv'
<1>1. /\ mem' = next /\ disk' = next /\ proc'[t] = then /\ pendingFail' = pendingFail
      /\ \A u \in Tasks \ {t} : proc'[u] = proc[u]
  BY MutateEffect
<1>2. ASSUME NEW u \in Tasks
      PROVE  /\ CleanTask(proc[u], mem.task[u], sends[u])'
             /\ \A a \in Accounts : mem'.acct[a].owner = u => MayHold(proc[u], mem.task[u], a)'
  <2>1. CASE u = t
    BY <1>1, <2>1
  <2>2. CASE u # t
    <3>1. proc'[u] = proc[u] /\ mem'.task[u] = mem.task[u] /\ sends'[u] = sends[u]
      BY <1>1, <2>2
    <3>2. \A a \in Accounts : mem'.acct[a].owner = u => mem.acct[a].owner = u
      BY <1>1, <2>2
    <3> QED BY <3>1, <3>2 DEF CleanInv
  <2> QED BY <2>1, <2>2
<1> QED BY <1>1, <1>2 DEF CleanInv

LEMMA CleanGoto ==
  ASSUME TypeOK, CleanInv, NEW t \in Tasks, NEW r \in ProcRecord, Goto(t, r),
         UNCHANGED <<mem, disk, pendingFail>>, \A u \in Tasks \ {t} : sends'[u] = sends[u],
         CleanTask(r, mem.task[t], sends'[t]),
         \A a \in Accounts : mem.acct[a].owner = t => MayHold(r, mem.task[t], a)
  PROVE  CleanInv'
<1>1. ASSUME NEW u \in Tasks
      PROVE  /\ CleanTask(proc[u], mem.task[u], sends[u])'
             /\ \A a \in Accounts : mem'.acct[a].owner = u => MayHold(proc[u], mem.task[u], a)'
  <2>1. CASE u = t
    <3>1. proc'[u] = r
      BY <2>1, Types DEF Goto
    <3> QED BY <2>1, <3>1
  <2>2. CASE u # t
    <3>1. proc'[u] = proc[u]
      BY <2>2, Types DEF Goto
    <3> QED BY <2>2, <3>1 DEF CleanInv
  <2> QED BY <2>1, <2>2
<1> QED BY <1>1 DEF CleanInv

LEMMA CleanWriteTask ==
  ASSUME TypeOK, CleanInv, NEW t \in Tasks, NEW r \in TaskRecord,
         NEW then \in ProcRecord, NEW caught \in ProcRecord, Mutate(t, SetTask(mem, t, r), then, caught),
         faults'.write = 0, UNCHANGED sends,
         CleanTask(then, r, sends[t]),
         \A a \in Accounts : mem.acct[a].owner = t => MayHold(then, r, a)
  PROVE  CleanInv'
<1> DEFINE next == SetTask(mem, t, r)
<1>1. /\ next \in Store /\ next.acct = mem.acct /\ next.task[t] = r
      /\ \A u \in Tasks \ {t} : next.task[u] = mem.task[u]
  BY Types, SetTaskStore
<1> HIDE DEF next
<1> QED BY <1>1, CleanMutate DEF next

\* The account a is the only one whose lease changes.
LEMMA CleanWriteAccount ==
  ASSUME TypeOK, CleanInv, NEW t \in Tasks, NEW a \in Accounts, NEW next \in Store,
         next.task = mem.task, \A b \in Accounts \ {a} : next.acct[b] = mem.acct[b],
         next.acct[a].owner \in {mem.acct[a].owner, t, None},
         NEW then \in ProcRecord, NEW caught \in ProcRecord, Mutate(t, next, then, caught),
         faults'.write = 0, UNCHANGED sends,
         CleanTask(then, mem.task[t], sends[t]),
         next.acct[a].owner = t => MayHold(then, mem.task[t], a),
         \A b \in Accounts \ {a} : mem.acct[b].owner = t => MayHold(then, mem.task[t], b)
  PROVE  CleanInv'
<1>1. \A b \in Accounts, u \in Tasks \ {t} : next.acct[b].owner = u => mem.acct[b].owner = u
  BY ConstantsOK
<1>2. \A b \in Accounts : next.acct[b].owner = t => MayHold(then, next.task[t], b)
  OBVIOUS
<1> QED BY <1>1, <1>2, CleanMutate

LEMMA ReleaseOwner ==
  ASSUME TypeOK, NEW t \in Tasks, NEW a \in Accounts, NEW out \in Outcome
  PROVE  LET next == Release(mem, t, a, out)
         IN  /\ \A b \in Accounts \ {a} : next.acct[b] = mem.acct[b]
             /\ next.acct[a].owner \in {mem.acct[a].owner, None} /\ next.acct[a].owner # t
<1> DEFINE r == Released(mem.acct[a], out)
<1>1. r \in AccountRecord /\ mem \in Store
  BY Types, AccountRecords
<1>2. r.owner = None
  BY Types DEF AccountRecord, Released, Exhausted
<1> HIDE DEF r
<1>3. /\ SetAcct(mem, a, r).acct[a] = r
      /\ \A b \in Accounts \ {a} : SetAcct(mem, a, r).acct[b] = mem.acct[b]
  BY <1>1, SetAcctStore
<1> QED BY <1>2, <1>3, ConstantsOK DEF Release, IfHolder, r

LEMMA Clean ==
  ASSUME CleanInv, NEW t \in Tasks
  PROVE  /\ CleanTask(proc[t], mem.task[t], sends[t])
         /\ \A a \in Accounts : mem.acct[a].owner = t => MayHold(proc[t], mem.task[t], a)
BY DEF CleanInv

LEMMA WriteTaskClean ==
  ASSUME TypeOK, RunInv, CleanInv, NEW t \in Tasks, faults'.write = 0,
         \/ WaitAccount(t) \/ Requeue(t) \/ FailTask(t) \/ Repoll(t)
  PROVE  CleanInv'
<1>1. \A a \in Accounts : mem.acct[a].owner = t => MayHold(proc[t], mem.task[t], a)
  BY Clean
<1>2. CASE WaitAccount(t)
  <2> DEFINE r == [mem.task[t] EXCEPT !.due = FALSE]
  <2>1. r \in TaskRecord /\ r.status = "queued"
    <3>1. proc[t].pc = "wait_account"
      BY <1>2 DEF WaitAccount, At
    <3>2. mem.task[t].status = "queued"
      BY <3>1, Clean DEF CleanTask, StatusAt
    <3> QED BY <3>2, Types DEF TaskRecord
  <2>2. Mutate(t, SetTask(mem, t, r), Idle, Idle) /\ UNCHANGED sends
    BY <1>2 DEF WaitAccount, ghosts
  <2> HIDE DEF r
  <2>3. CleanTask(Idle, r, sends[t])
    BY <2>1 DEF CleanTask, Idle, WorkPcs, QueryPcs
  <2>4. \A a \in Accounts : mem.acct[a].owner # t
    BY <1>1, <1>2 DEF MayHold, WaitAccount, At
  <2> QED BY <2>1, <2>2, <2>3, <2>4, NextRecords, CleanWriteTask
<1>3. CASE Requeue(t)
  <2> DEFINE r == [mem.task[t] EXCEPT !.status = "queued", !.acct = None, !.due = TRUE]
  <2>1. r \in TaskRecord /\ r.status = "queued"
    BY Types DEF TaskRecord, Statuses
  <2>2. Mutate(t, SetTask(mem, t, r), Idle, Idle) /\ UNCHANGED sends
    BY <1>3 DEF Requeue, ghosts
  <2> HIDE DEF r
  <2>3. CleanTask(Idle, r, sends[t])
    BY <2>1 DEF CleanTask, Idle, WorkPcs, QueryPcs
  <2>4. \A a \in Accounts : mem.acct[a].owner # t
    BY <1>1, <1>3 DEF MayHold, Requeue, At
  <2> QED BY <2>1, <2>2, <2>3, <2>4, NextRecords, CleanWriteTask
<1>4. CASE FailTask(t)
  <2> DEFINE r == Finished("failed")
  <2>1. r \in TaskRecord /\ r.status = "failed"
    BY DEF Finished, NoTask, TaskRecord, Statuses
  <2>2. Mutate(t, SetTask(mem, t, r), Idle, Idle) /\ UNCHANGED sends
    BY <1>4 DEF FailTask, ghosts
  <2> HIDE DEF r
  <2>3. CleanTask(Idle, r, sends[t])
    BY <2>1 DEF CleanTask, Idle, WorkPcs, QueryPcs
  <2>4. \A a \in Accounts : mem.acct[a].owner # t
    BY <1>1, <1>4 DEF MayHold, FailTask, At
  <2> QED BY <2>1, <2>2, <2>3, <2>4, NextRecords, CleanWriteTask
<1>5. CASE Repoll(t)
  <2> DEFINE r == [mem.task[t] EXCEPT !.due = FALSE]
  <2>1. proc[t].pc \in {"repoll", "repoll_retry"} /\ proc[t].job = "query"
    BY <1>5, RunEnds DEF Repoll, At, TaskRun, JobOK, QueryPcs
  <2>2. r \in TaskRecord /\ r.status = "processing" /\ r.acct = proc[t].acct /\ sends[t] = 1
    BY <2>1, Types, Clean DEF TaskRecord, CleanTask, StatusAt, WorkPcs, QueryPcs
  <2>3. /\ Mutate(t, SetTask(mem, t, r), Idle, RepollFails(t))
        /\ UNCHANGED sends
    BY <1>5 DEF Repoll, ghosts
  <2> HIDE DEF r
  <2>4. CleanTask(Idle, r, sends[t])
    BY <2>2 DEF CleanTask, Idle, WorkPcs, QueryPcs
  <2>5. \A a \in Accounts : mem.acct[a].owner = t => MayHold(Idle, r, a)
    BY <1>1, <2>1, <2>2 DEF MayHold, Idle
  <2>6. RepollFails(t) \in ProcRecord
    BY NextRecords DEF RepollFails, Outcome
  <2> QED BY <2>2, <2>3, <2>4, <2>5, <2>6, NextRecords, CleanWriteTask
<1> QED BY <1>2, <1>3, <1>4, <1>5

LEMMA MarkClean ==
  ASSUME TypeOK, RunInv, CleanInv, NEW t \in Tasks, faults'.write = 0, Mark(t)
  PROVE  CleanInv'
<1> DEFINE r == [mem.task[t] EXCEPT !.status = "submitting", !.acct = proc[t].acct,
                                    !.tried = @ \union {proc[t].acct}, !.due = TRUE]
           p == [Next_(t, "ensure") EXCEPT !.job = "submit"]
<1>1. proc[t].pc = "mark" /\ proc[t].acct \in Accounts
  BY RunEnds DEF Mark, At, TaskRun, JobOK
<1>2. r \in TaskRecord /\ r.status = "submitting" /\ r.acct = proc[t].acct
  BY <1>1, Types DEF TaskRecord, Statuses
<1>3. p \in ProcRecord /\ p.pc = "ensure" /\ p.job = "submit" /\ p.acct = proc[t].acct
  BY NextRecords DEF ProcRecord
<1>4. Mutate(t, SetTask(mem, t, r), p, Idle) /\ UNCHANGED sends
  BY DEF Mark, ghosts
<1> HIDE DEF r, p
<1>5. CleanTask(p, r, sends[t])
  BY <1>2, <1>3 DEF CleanTask, StatusAt, WorkPcs, QueryPcs
<1>6. \A a \in Accounts : mem.acct[a].owner = t => MayHold(p, r, a)
  BY <1>1, <1>3, Clean DEF MayHold
<1> QED BY <1>2, <1>3, <1>4, <1>5, <1>6, NextRecords, CleanWriteTask

LEMMA AcceptedClean ==
  ASSUME TypeOK, RunInv, CleanInv, NEW t \in Tasks, faults'.write = 0, Accepted(t)
  PROVE  CleanInv'
<1> DEFINE q == proc[t].out = "quota"
           r == [mem.task[t] EXCEPT !.status = "processing", !.quota = q, !.due = TRUE]
           p == IF q THEN Next_(t, "note") ELSE Idle
<1>1. proc[t].pc = "accept" /\ proc[t].job = "submit"
  BY RunEnds DEF Accepted, At, TaskRun, JobOK, SubmitPcs
<1>2. mem.task[t].acct = proc[t].acct /\ sends[t] = 1
  BY <1>1, Clean DEF CleanTask, WorkPcs
<1>3. r \in TaskRecord /\ r.status = "processing" /\ r.acct = proc[t].acct
  BY <1>2, Types DEF TaskRecord, Statuses
<1>4. p \in ProcRecord /\ (p = Idle \/ (p.pc = "note" /\ p.job = "submit" /\ p.acct = proc[t].acct))
  BY <1>1, NextRecords
<1>5. Mutate(t, SetTask(mem, t, r), p, Releasing(t, "cooldown")) /\ UNCHANGED sends
  BY DEF Accepted, ghosts
<1> HIDE DEF r, p
<1>6. CleanTask(p, r, sends[t])
  BY <1>2, <1>3, <1>4 DEF CleanTask, StatusAt, WorkPcs, QueryPcs, Idle
<1>7. \A a \in Accounts : mem.acct[a].owner = t => MayHold(p, r, a)
  BY <1>1, <1>3, <1>4, Clean DEF MayHold, Idle
<1> QED BY <1>3, <1>4, <1>5, <1>6, <1>7, NextRecords, CleanWriteTask DEF Outcome

LEMMA PollWriteClean ==
  ASSUME TypeOK, RunInv, CleanInv, NEW t \in Tasks, faults'.write = 0,
         MarkDownloading(t) \/ Succeed(t)
  PROVE  CleanInv'
<1>1. Releasing(t, ErrorOutcome(t)) \in ProcRecord
  BY NextRecords DEF Outcome
<1>2. \A a \in Accounts : mem.acct[a].owner = t => MayHold(proc[t], mem.task[t], a)
  BY Clean
<1>3. CASE MarkDownloading(t)
  <2> DEFINE r == [mem.task[t] EXCEPT !.due = TRUE]
             p == Next_(t, "download")
  <2>1. proc[t].pc = "downloading" /\ proc[t].job = "query"
    BY <1>3, RunEnds DEF MarkDownloading, At, TaskRun, JobOK, QueryPcs
  <2>2. r \in TaskRecord /\ r.status = "processing" /\ r.acct = proc[t].acct /\ sends[t] = 1
    BY <2>1, Types, Clean DEF TaskRecord, CleanTask, StatusAt, WorkPcs, QueryPcs
  <2>3. p \in ProcRecord /\ p.pc = "download" /\ p.job = "query" /\ p.acct = proc[t].acct
    BY <2>1, NextRecords
  <2>4. Mutate(t, SetTask(mem, t, r), p, Releasing(t, ErrorOutcome(t))) /\ UNCHANGED sends
    BY <1>3 DEF MarkDownloading, ghosts
  <2> HIDE DEF r, p
  <2>5. CleanTask(p, r, sends[t])
    BY <2>2, <2>3 DEF CleanTask, StatusAt, WorkPcs, QueryPcs
  <2>6. \A a \in Accounts : mem.acct[a].owner = t => MayHold(p, r, a)
    BY <1>2, <2>1, <2>3 DEF MayHold
  <2> QED BY <1>1, <2>2, <2>3, <2>4, <2>5, <2>6, CleanWriteTask
<1>4. CASE Succeed(t)
  <2> DEFINE r == [Finished("succeeded") EXCEPT !.quota = mem.task[t].quota]
             p == Next_(t, "done_release")
  <2>1. proc[t].pc = "succeed" /\ proc[t].job = "query"
    BY <1>4, RunEnds DEF Succeed, At, TaskRun, JobOK, QueryPcs
  <2>2. r \in TaskRecord /\ r.status = "succeeded"
    BY Types DEF TaskRecord, Finished, NoTask, Statuses
  <2>3. p \in ProcRecord /\ p.pc = "done_release" /\ p.job = "query" /\ p.acct = proc[t].acct
    BY <2>1, NextRecords
  <2>4. Mutate(t, SetTask(mem, t, r), p, Releasing(t, ErrorOutcome(t))) /\ UNCHANGED sends
    BY <1>4 DEF Succeed, ghosts
  <2> HIDE DEF r, p
  <2>5. CleanTask(p, r, sends[t])
    BY <2>2, <2>3 DEF CleanTask, StatusAt, WorkPcs, QueryPcs
  <2>6. \A a \in Accounts : mem.acct[a].owner = t => MayHold(p, r, a)
    BY <1>2, <2>1, <2>3 DEF MayHold
  <2> QED BY <1>1, <2>2, <2>3, <2>4, <2>5, <2>6, CleanWriteTask
<1> QED BY <1>3, <1>4

\* A change of the account of t, not of its owner.
LEMMA CleanSameOwner ==
  ASSUME TypeOK, CleanInv, NEW t \in Tasks, NEW next \in Store, next.task = mem.task,
         \A b \in Accounts : next.acct[b].owner = mem.acct[b].owner,
         NEW then \in ProcRecord, NEW caught \in ProcRecord, Mutate(t, next, then, caught),
         faults'.write = 0, UNCHANGED sends,
         CleanTask(then, mem.task[t], sends[t]),
         \A b \in Accounts : mem.acct[b].owner = t => MayHold(then, mem.task[t], b)
  PROVE  CleanInv'
BY CleanMutate

LEMMA ClaimClean ==
  ASSUME TypeOK, RunInv, CleanInv, NEW t \in Tasks, faults'.write = 0, Claim(t)
  PROVE  CleanInv'
<1>1. proc[t].pc = "claim" /\ UNCHANGED sends
  BY DEF Claim, At, ghosts
<1>2. mem.task[t].status = "queued" /\ \A a \in Accounts : mem.acct[a].owner # t
  BY <1>1, Clean DEF CleanTask, StatusAt, MayHold
<1>3. CASE Mutate(t, mem, Next_(t, "wait_account"), Idle)
  <2> DEFINE p == Next_(t, "wait_account")
  <2>1. p \in ProcRecord /\ p.pc = "wait_account" /\ Mutate(t, mem, p, Idle)
    BY <1>3, NextRecords
  <2> HIDE DEF p
  <2>2. CleanTask(p, mem.task[t], sends[t])
    BY <1>2, <2>1 DEF CleanTask, StatusAt, WorkPcs, QueryPcs
  <2>3. mem \in Store /\ Idle \in ProcRecord
    BY Types, NextRecords
  <2> QED BY <1>1, <1>2, <2>1, <2>2, <2>3, CleanSameOwner
<1>4. ASSUME NEW a \in Accounts,
             Mutate(t, SetAcct(mem, a, Claimed(mem.acct[a], t)), [Next_(t, "mark") EXCEPT !.acct = a], Idle)
      PROVE  CleanInv'
  <2> DEFINE r == Claimed(mem.acct[a], t)
             next == SetAcct(mem, a, r)
             p == [Next_(t, "mark") EXCEPT !.acct = a]
  <2>1. r \in AccountRecord /\ r.owner = t
    <3>1. mem.acct[a] \in AccountRecord /\ ClearExpiredQuota(mem.acct[a]) \in AccountRecord
      BY Types DEF AccountRecord, ClearExpiredQuota
    <3> QED BY <3>1, AccountRecords DEF AccountRecord, Claimed
  <2>2. p \in ProcRecord /\ p.pc = "mark" /\ p.acct = a
    BY NextRecords DEF ProcRecord
  <2>3. Mutate(t, next, p, Idle)
    BY <1>4
  <2> HIDE DEF r, p
  <2>4. /\ next \in Store /\ next.task = mem.task /\ next.acct[a] = r
        /\ \A b \in Accounts \ {a} : next.acct[b] = mem.acct[b]
    BY <2>1, Types, SetAcctStore
  <2> HIDE DEF next
  <2>5. CleanTask(p, mem.task[t], sends[t]) /\ MayHold(p, mem.task[t], a)
    BY <1>2, <2>2 DEF CleanTask, MayHold, StatusAt, WorkPcs, QueryPcs
  <2>6. next.acct[a].owner \in {mem.acct[a].owner, t, None} /\ Idle \in ProcRecord
    BY <2>1, <2>4, NextRecords
  <2> QED BY <1>1, <1>2, <2>2, <2>3, <2>4, <2>5, <2>6, CleanWriteAccount
<1> QED BY <1>3, <1>4 DEF Claim

LEMMA ClaimExistingClean ==
  ASSUME TypeOK, RunInv, CleanInv, NEW t \in Tasks, faults'.write = 0, ClaimExisting(t)
  PROVE  CleanInv'
<1> DEFINE a == proc[t].acct
<1>1. proc[t].pc = "existing" /\ proc[t].job = "query" /\ a \in Accounts
  BY RunEnds DEF ClaimExisting, At, TaskRun, JobOK, QueryPcs
<1>2. mem.task[t].status = "processing" /\ mem.task[t].acct = a /\ sends[t] = 1
  BY <1>1, Clean DEF CleanTask, StatusAt, WorkPcs, QueryPcs
<1>3. \A b \in Accounts : mem.acct[b].owner = t => b = a
  BY <1>1, Clean DEF MayHold
<1>4. UNCHANGED sends
  BY DEF ClaimExisting, ghosts
<1>5. CASE Mutate(t, mem, Idle, Idle)
  <2>1. CleanTask(Idle, mem.task[t], sends[t])
    BY <1>2 DEF CleanTask, Idle, WorkPcs, QueryPcs
  <2>2. \A b \in Accounts : mem.acct[b].owner = t => MayHold(Idle, mem.task[t], b)
    BY <1>2, <1>3 DEF MayHold, Idle
  <2> QED BY <1>4, <1>5, <2>1, <2>2, Types, NextRecords, CleanMutate
<1>6. CASE Mutate(t, SetAcct(mem, a, ClaimedAgain(mem.acct[a], t)), Next_(t, "ensure"), Idle)
  <2> DEFINE r == ClaimedAgain(mem.acct[a], t)
             next == SetAcct(mem, a, r)
             p == Next_(t, "ensure")
  <2>1. r \in AccountRecord /\ r.owner = t
    <3>1. mem.acct[a] \in AccountRecord /\ r \in AccountRecord
      BY <1>1, Types, AccountRecords
    <3> QED BY <3>1 DEF AccountRecord, ClaimedAgain, ClearExpiredQuota
  <2>2. p \in ProcRecord /\ p.pc = "ensure" /\ p.job = "query" /\ p.acct = a
    BY <1>1, NextRecords
  <2>3. Mutate(t, next, p, Idle)
    BY <1>6
  <2> HIDE DEF r, p
  <2>4. /\ next \in Store /\ next.task = mem.task /\ next.acct[a] = r
        /\ \A b \in Accounts \ {a} : next.acct[b] = mem.acct[b]
    BY <1>1, <2>1, Types, SetAcctStore
  <2> HIDE DEF next
  <2>5. CleanTask(p, mem.task[t], sends[t]) /\ MayHold(p, mem.task[t], a)
    BY <1>2, <2>2 DEF CleanTask, MayHold, StatusAt, WorkPcs, QueryPcs
  <2> QED BY <1>1, <1>3, <1>4, <2>1, <2>2, <2>3, <2>4, <2>5, NextRecords, CleanWriteAccount
<1> QED BY <1>5, <1>6 DEF ClaimExisting

LEMMA IfHolderOwner ==
  ASSUME TypeOK, NEW t \in Tasks, NEW a \in Accounts, NEW r \in AccountRecord,
         r.owner = mem.acct[a].owner
  PROVE  \A b \in Accounts : IfHolder(mem, t, a, r).acct[b].owner = mem.acct[b].owner
<1>1. mem \in Store
  BY Types
<1>2. /\ SetAcct(mem, a, r).acct[a] = r
      /\ \A b \in Accounts \ {a} : SetAcct(mem, a, r).acct[b] = mem.acct[b]
  BY <1>1, SetAcctStore
<1> QED BY <1>2 DEF IfHolder

LEMMA NoteQuotaClean ==
  ASSUME TypeOK, RunInv, CleanInv, NEW t \in Tasks, faults'.write = 0, NoteQuota(t)
  PROVE  CleanInv'
<1> DEFINE a == proc[t].acct
           r == Exhausted(mem.acct[a])
           next == IfHolder(mem, t, a, r)
<1>1. proc[t].pc = "note" /\ a \in Accounts /\ proc[t].job = "submit"
  BY RunEnds DEF NoteQuota, At, TaskRun, JobOK, SubmitPcs
<1>2. r \in AccountRecord /\ r.owner = mem.acct[a].owner
  <2>1. mem.acct[a] \in AccountRecord
    BY <1>1, Types
  <2>2. r \in AccountRecord
    BY <2>1, AccountRecords
  <2>3. r.owner = mem.acct[a].owner
    BY <2>1 DEF AccountRecord, Exhausted
  <2> QED BY <2>2, <2>3
<1>3. Mutate(t, next, Idle, Releasing(t, "cooldown")) /\ UNCHANGED sends
  BY DEF NoteQuota, ghosts
<1> HIDE DEF r
<1>4. /\ next \in Store /\ next.task = mem.task
      /\ \A b \in Accounts : next.acct[b].owner = mem.acct[b].owner
  BY <1>1, <1>2, IfHolderStore, IfHolderOwner
<1> HIDE DEF next
<1>5. mem.task[t].status = "processing" /\ mem.task[t].acct = a /\ sends[t] = 1
  BY <1>1, Clean DEF CleanTask, StatusAt, WorkPcs
<1>6. CleanTask(Idle, mem.task[t], sends[t])
  BY <1>5 DEF CleanTask, Idle, WorkPcs, QueryPcs
<1>7. \A b \in Accounts : mem.acct[b].owner = t => MayHold(Idle, mem.task[t], b)
  BY <1>1, <1>5, Clean DEF MayHold, Idle
<1> QED BY <1>3, <1>4, <1>6, <1>7, NextRecords, CleanSameOwner DEF Outcome

LEMMA RenewForRetryClean ==
  ASSUME TypeOK, RunInv, CleanInv, NEW t \in Tasks, faults'.write = 0, RenewForRetry(t)
  PROVE  CleanInv'
<1> DEFINE a == proc[t].acct
           r == [mem.acct[a] EXCEPT !.live = TRUE]
           next == IfHolder(mem, t, a, r)
           p == Next_(t, "repoll_retry")
<1>1. proc[t].pc = "renew_retry" /\ a \in Accounts /\ proc[t].job = "query"
  BY RunEnds DEF RenewForRetry, At, TaskRun, JobOK, QueryPcs
<1>2. r \in AccountRecord /\ r.owner = mem.acct[a].owner
  BY <1>1, Types, AccountRecords DEF AccountRecord
<1>3. Mutate(t, next, p, Idle) /\ UNCHANGED sends
  BY DEF RenewForRetry, Renew, ghosts
<1> HIDE DEF r
<1>4. /\ next \in Store /\ next.task = mem.task
      /\ \A b \in Accounts : next.acct[b].owner = mem.acct[b].owner
  BY <1>1, <1>2, IfHolderStore, IfHolderOwner
<1>5. p \in ProcRecord /\ p.pc = "repoll_retry" /\ p.job = "query" /\ p.acct = a
  BY <1>1, NextRecords
<1> HIDE DEF next, p
<1>6. CleanTask(p, mem.task[t], sends[t])
  BY <1>1, <1>5, Clean DEF CleanTask, StatusAt, WorkPcs, QueryPcs
<1>7. \A b \in Accounts : mem.acct[b].owner = t => MayHold(p, mem.task[t], b)
  BY <1>1, <1>5, Clean DEF MayHold
<1> QED BY <1>3, <1>4, <1>5, <1>6, <1>7, NextRecords, CleanSameOwner

LEMMA ReleaseAccountClean ==
  ASSUME TypeOK, RunInv, CleanInv, NEW t \in Tasks, faults'.write = 0, ReleaseAccount(t)
  PROVE  CleanInv'
<1> DEFINE a == proc[t].acct
           next == Release(mem, t, a, proc[t].out)
<1>1. proc[t].pc = "release" /\ a \in Accounts /\ proc[t].out \in Outcome /\ proc[t].job \in {"submit", "query"}
  BY RunEnds, Types DEF ReleaseAccount, At, TaskRun, JobOK, ProcRecord, Outcome
<1>2. /\ next \in Store /\ next.task = mem.task
      /\ \A b \in Accounts \ {a} : next.acct[b] = mem.acct[b]
      /\ next.acct[a].owner \in {mem.acct[a].owner, None} /\ next.acct[a].owner # t
  BY <1>1, ReleaseStore, ReleaseOwner
<1>3. PICK p \in {Next_(t, "requeue"), Next_(t, "fail")} : Mutate(t, next, p, Idle)
  BY DEF ReleaseAccount
<1>4. p \in ProcRecord /\ p.pc \in {"requeue", "fail"} /\ p.job = proc[t].job
  BY NextRecords
<1> HIDE DEF next
<1>5. CleanTask(p, mem.task[t], sends[t])
  BY <1>1, <1>4, Clean DEF CleanTask, StatusAt, WorkPcs, QueryPcs
<1>6. \A b \in Accounts \ {a} : mem.acct[b].owner # t
  BY <1>1, Clean DEF MayHold
<1>7. UNCHANGED sends /\ Idle \in ProcRecord
  BY NextRecords DEF ReleaseAccount, ghosts
<1> HIDE DEF a
<1> QED BY <1>1, <1>2, <1>3, <1>4, <1>5, <1>6, <1>7, CleanWriteAccount

\* A run goes on with the job and the account it has.
LEMMA GoOnClean ==
  ASSUME TypeOK, RunInv, CleanInv, NEW t \in Tasks, NEW r \in ProcRecord, Goto(t, r),
         UNCHANGED <<mem, disk, pendingFail>>, \A u \in Tasks \ {t} : sends'[u] = sends[u],
         mem.task[t].status = "processing" => sends'[t] = sends[t],
         r.pc = "accept" => sends'[t] = 1,
         r.acct = proc[t].acct, r.pc # "idle", proc[t].pc # "idle",
         r.pc \notin {"claim", "wait_account", "requeue", "fail"},
         proc[t].pc \notin {"claim", "wait_account", "requeue", "fail"},
         StatusAt(r) = StatusAt(proc[t]),
         r.pc \in WorkPcs => proc[t].pc \in WorkPcs
  PROVE  CleanInv'
<1>1. CleanTask(proc[t], mem.task[t], sends[t])
  BY Clean
<1>2. CleanTask(r, mem.task[t], sends'[t])
  BY <1>1 DEF CleanTask
<1>3. \A a \in Accounts : mem.acct[a].owner = t => MayHold(r, mem.task[t], a)
  BY Clean DEF MayHold
<1> QED BY <1>2, <1>3, CleanGoto

LEMMA SendClean ==
  ASSUME TypeOK, RunInv, CleanInv, NEW t \in Tasks, Send(t) PROVE CleanInv'
<1>1. /\ proc[t].pc = "send" /\ proc[t].job = "submit"
      /\ UNCHANGED <<mem, disk, pendingFail>>
  BY RunEnds DEF Send, At, TaskRun, JobOK, SubmitPcs
<1>2. mem.task[t].status = "submitting"
  BY <1>1, Clean DEF CleanTask, StatusAt
<1>3. PICK r \in {Next_(t, "reply"), Releasing(t, "needs_login"), Releasing(t, "cooldown")} : Goto(t, r)
  BY DEF Send
<1>4. /\ r \in ProcRecord /\ r.acct = proc[t].acct /\ r.pc \in {"reply", "release"}
      /\ r.job = "submit"
  BY <1>1, <1>3, NextRecords DEF Outcome
<1>5. \A u \in Tasks \ {t} : sends'[u] = sends[u]
  BY DEF Send, TypeOK
<1>6. StatusAt(r) = StatusAt(proc[t]) /\ r.pc \notin WorkPcs
  BY <1>1, <1>4 DEF StatusAt, WorkPcs, QueryPcs
<1> QED BY <1>1, <1>2, <1>3, <1>4, <1>5, <1>6, GoOnClean

LEMMA ReplyClean ==
  ASSUME TypeOK, RunInv, CleanInv, NEW t \in Tasks, Reply(t) PROVE CleanInv'
<1>1. /\ proc[t].pc = "reply" /\ proc[t].job = "submit" /\ sends[t] = 1
      /\ UNCHANGED <<mem, disk, pendingFail>>
      /\ mem.task[t].acct = proc[t].acct
  BY RunEnds DEF Reply, At, TaskRun, JobOK, SubmitPcs, SendOK, Submitting
<1>2. mem.task[t].status = "submitting"
  BY <1>1, Clean DEF CleanTask, StatusAt
<1>3. \A u \in Tasks \ {t} : sends'[u] = sends[u]
  BY DEF Reply, TypeOK
<1>4. \A a \in Accounts : mem.acct[a].owner = t => proc[t].acct = a
  BY <1>1, Clean DEF MayHold
<1>5. ASSUME NEW r \in ProcRecord, Goto(t, r), r.job = "submit", r.acct = proc[t].acct,
             r.pc = "release" \/ (r.pc = "accept" /\ sends'[t] = 1)
      PROVE  CleanInv'
  <2>1. CleanTask(r, mem.task[t], sends'[t])
    BY <1>1, <1>2, <1>5 DEF CleanTask, StatusAt, WorkPcs, QueryPcs
  <2>2. \A a \in Accounts : mem.acct[a].owner = t => MayHold(r, mem.task[t], a)
    BY <1>4, <1>5 DEF MayHold
  <2> QED BY <1>1, <1>3, <1>5, <2>1, <2>2, CleanGoto
<1>6. ASSUME NEW out \in {"quota", "none"}, Goto(t, [Next_(t, "accept") EXCEPT !.out = out]), UNCHANGED sends
      PROVE  CleanInv'
  <2> DEFINE r == [Next_(t, "accept") EXCEPT !.out = out]
  <2>1. r \in ProcRecord /\ r.job = "submit" /\ r.acct = proc[t].acct /\ r.pc = "accept"
    BY <1>1, NextRecords DEF ProcRecord
  <2> HIDE DEF r
  <2> QED BY <1>1, <1>5, <1>6, <2>1 DEF r
<1>7. ASSUME NEW out \in Outcome, Goto(t, Releasing(t, out)) PROVE CleanInv'
  BY <1>1, <1>5, <1>7, NextRecords
<1> QED BY <1>6, <1>7 DEF Reply, Outcome

LEMMA BrowserClean ==
  ASSUME TypeOK, RunInv, CleanInv, NEW t \in Tasks, EnsureRuntime(t) \/ Connect(t)
  PROVE  CleanInv'
<1>1. /\ proc[t].pc \in {"ensure", "connecting"} /\ proc[t].job \in {"submit", "query"}
  BY RunEnds DEF EnsureRuntime, Connect, At, TaskRun, JobOK
<1>2. PICK r \in {Driving(t), OnBrowserError(t), OnTransient(t), Next_(t, "connecting")} : Goto(t, r)
  BY DEF EnsureRuntime, Connect, Goto
<1>3. /\ r \in ProcRecord /\ r.job = proc[t].job /\ r.acct = proc[t].acct
      /\ r.pc \in {"send", "query", "renew_retry", "release", "connecting"}
      /\ r.pc \in {"query", "renew_retry"} => r.job = "query"
  BY <1>1, NextRecords DEF Driving, OnBrowserError, OnTransient, Outcome
<1>4. UNCHANGED <<mem, disk, pendingFail, sends>>
  BY DEF EnsureRuntime, Connect, ghosts
<1>5. StatusAt(r) = StatusAt(proc[t]) /\ proc[t].pc \in WorkPcs
  BY <1>1, <1>3 DEF StatusAt, WorkPcs
<1> QED BY <1>1, <1>2, <1>3, <1>4, <1>5, GoOnClean

LEMMA PollClean ==
  ASSUME TypeOK, RunInv, CleanInv, NEW t \in Tasks,
         CheckAge(t) \/ QueryChain(t) \/ TestReady(t) \/ Download(t)
  PROVE  CleanInv'
<1>1. /\ proc[t].pc \in {"age", "query", "ready", "download"}
      /\ proc[t].pc = "age" => proc[t].job = "none"
      /\ proc[t].pc # "age" => proc[t].job = "query"
  BY RunEnds DEF CheckAge, QueryChain, TestReady, Download, At, TaskRun, JobOK, QueryPcs
<1>2. UNCHANGED <<mem, disk, pendingFail, sends>>
  BY DEF CheckAge, QueryChain, TestReady, Download, ghosts
<1>3. PICK r \in ProcRecord : /\ Goto(t, r) /\ r.acct = proc[t].acct /\ r.job = "query"
                             /\ r.pc \in {"existing", "repoll", "ready", "renew_retry", "downloading", "succeed", "release"}
  <2>1. CASE CheckAge(t)
    <3>1. PICK r \in {[Releasing(t, ErrorOutcome(t)) EXCEPT !.job = "query"],
                      [Next_(t, "existing") EXCEPT !.job = "query"]} : Goto(t, r)
      BY <2>1 DEF CheckAge
    <3>2. r \in ProcRecord /\ r.job = "query" /\ r.acct = proc[t].acct /\ r.pc \in {"release", "existing"}
      BY <3>1, NextRecords DEF ProcRecord, Outcome
    <3> QED BY <3>1, <3>2
  <2>2. CASE QueryChain(t) \/ TestReady(t) \/ Download(t)
    <3>1. PICK r : /\ r \in {Next_(t, pc) : pc \in {"repoll", "ready", "renew_retry", "downloading", "succeed"}}
                            \union {Releasing(t, out) : out \in {"needs_login", ErrorOutcome(t)}}
                   /\ Goto(t, r)
      BY <2>2 DEF QueryChain, TestReady, Download
    <3>2. proc[t].job = "query"
      BY <1>1, <2>2 DEF QueryChain, TestReady, Download, At
    <3>3. /\ r \in ProcRecord /\ r.job = proc[t].job /\ r.acct = proc[t].acct
          /\ r.pc \in {"repoll", "ready", "renew_retry", "downloading", "succeed", "release"}
      BY <3>1, NextRecords DEF Outcome
    <3> QED BY <3>1, <3>2, <3>3
  <2> QED BY <2>1, <2>2
<1>4. StatusAt(r) = StatusAt(proc[t]) /\ proc[t].pc \in WorkPcs
  BY <1>1, <1>3 DEF StatusAt, WorkPcs, QueryPcs
<1> QED BY <1>1, <1>2, <1>3, <1>4, GoOnClean

LEMMA PumpClean ==
  ASSUME TypeOK, RunInv, CleanInv, NEW t \in Tasks, Pump(t) PROVE CleanInv'
<1> DEFINE r == [Idle EXCEPT !.pc  = IF mem.task[t].status = "queued" THEN "claim" ELSE "age",
                             !.acct = mem.task[t].acct]
<1>1. /\ proc[t].pc = "idle" /\ mem.task[t].status \in {"queued", "processing"} /\ Goto(t, r)
      /\ UNCHANGED <<mem, disk, pendingFail, sends>>
  BY DEF Pump, At, ghosts
<1>2. /\ r \in ProcRecord /\ r.job = "none" /\ r.acct = mem.task[t].acct
      /\ r.pc = IF mem.task[t].status = "queued" THEN "claim" ELSE "age"
  BY Types DEF Idle, ProcRecord, TaskRecord
<1> HIDE DEF r
<1>3. CleanTask(r, mem.task[t], sends[t])
  BY <1>1, <1>2, Clean DEF CleanTask, StatusAt, WorkPcs, QueryPcs
<1>4. \A a \in Accounts : mem.acct[a].owner = t => MayHold(r, mem.task[t], a)
  BY <1>1, <1>2, Clean DEF MayHold
<1> QED BY <1>1, <1>2, <1>3, <1>4, CleanGoto

LEMMA CreateVideoClean ==
  ASSUME TypeOK, RunInv, CleanInv, NEW t \in Tasks, faults'.write = 0, CreateVideo(t)
  PROVE  CleanInv'
<1> DEFINE r == [NoTask EXCEPT !.status = "queued", !.due = TRUE]
           next == SetTask(mem, t, r)
<1>1. r \in TaskRecord /\ r.status = "queued"
  BY DEF NoTask, TaskRecord, Statuses
<1>2. Persisted(next)
  <2>1. ~NotPersisted(next)
    BY Types DEF NotPersisted, Bump, FaultCount
  <2> QED BY <2>1 DEF CreateVideo
<1>3. mem.task[t].status = "absent" /\ UNCHANGED <<proc, pendingFail, sends>>
  BY DEF CreateVideo, ghosts
<1> HIDE DEF r
<1>4. /\ next.acct = mem.acct /\ next.task[t] = r
      /\ \A u \in Tasks \ {t} : next.task[u] = mem.task[u]
  BY <1>1, Types, SetTaskStore
<1>5. mem' = next /\ disk' = next
  BY <1>2 DEF Persisted
<1>6. proc[t].pc = "idle" /\ \A a \in Accounts : mem.acct[a].owner # t
  BY <1>3, Clean DEF CleanTask, StatusAt, MayHold
<1> HIDE DEF next
<1>7. ASSUME NEW u \in Tasks
      PROVE  /\ CleanTask(proc[u], mem.task[u], sends[u])'
             /\ \A a \in Accounts : mem'.acct[a].owner = u => MayHold(proc[u], mem.task[u], a)'
  <2>1. CASE u = t
    BY <1>1, <1>3, <1>4, <1>5, <1>6, <2>1 DEF CleanTask, WorkPcs, QueryPcs
  <2>2. CASE u # t
    BY <1>3, <1>4, <1>5, <2>2, Clean
  <2> QED BY <2>1, <2>2
<1> QED BY <1>3, <1>5, <1>7 DEF CleanInv

LEMMA ReleaseDoneClean ==
  ASSUME TypeOK, RunInv, CleanInv, NEW t \in Tasks, faults'.write = 0, ReleaseDone(t)
  PROVE  CleanInv'
<1> DEFINE a == proc[t].acct
           out == IF mem.task[t].quota THEN "quota" ELSE "healthy"
           next == Release(mem, t, a, out)
<1>1. proc[t].pc = "done_release" /\ proc[t].job = "query" /\ a \in Accounts
  BY RunEnds DEF ReleaseDone, At, TaskRun, JobOK, QueryPcs
<1>2. /\ next.task = mem.task
      /\ \A b \in Accounts \ {a} : next.acct[b] = mem.acct[b]
      /\ next.acct[a].owner \in {mem.acct[a].owner, None} /\ next.acct[a].owner # t
  BY <1>1, ReleaseStore, ReleaseOwner DEF Outcome
<1>3. mem' = next /\ disk' = next
  <2>1. ~NotPersisted(next)
    BY Types DEF NotPersisted, Bump, FaultCount
  <2> QED BY <2>1 DEF ReleaseDone, Persisted
<1> HIDE DEF next
<1>4. /\ proc'[t] = Idle /\ \A u \in Tasks \ {t} : proc'[u] = proc[u]
      /\ UNCHANGED <<pendingFail, sends>>
  BY Types DEF ReleaseDone, Goto, ghosts
<1>5. mem.task[t].status = "succeeded" /\ \A b \in Accounts \ {a} : mem.acct[b].owner # t
  BY <1>1, Clean DEF CleanTask, StatusAt, MayHold
<1>6. ASSUME NEW u \in Tasks
      PROVE  /\ CleanTask(proc[u], mem.task[u], sends[u])'
             /\ \A b \in Accounts : mem'.acct[b].owner = u => MayHold(proc[u], mem.task[u], b)'
  <2>1. CASE u = t
    <3>1. \A b \in Accounts : mem'.acct[b].owner # t
      BY <1>2, <1>3, <1>5
    <3> QED BY <1>2, <1>3, <1>4, <1>5, <2>1, <3>1 DEF CleanTask, WorkPcs, QueryPcs, Idle
  <2>2. CASE u # t
    <3>1. \A b \in Accounts : mem'.acct[b].owner = u => mem.acct[b].owner = u
      BY <1>2, <1>3, <2>2, ConstantsOK
    <3> QED BY <1>2, <1>3, <1>4, <2>2, <3>1, Clean
  <2> QED BY <2>1, <2>2
<1> QED BY <1>2, <1>3, <1>4, <1>6 DEF CleanInv

\* A step beside the runs that leaves owners, statuses and accounts of tasks alone.
LEMMA BesideClean ==
  ASSUME TypeOK, CleanInv, UNCHANGED <<proc, pendingFail, sends>>,
         \A a \in Accounts : mem'.acct[a].owner = mem.acct[a].owner,
         \A t \in Tasks : /\ mem'.task[t].status = mem.task[t].status
                          /\ mem'.task[t].acct = mem.task[t].acct
                          /\ disk'.task[t].status = mem.task[t].status
  PROVE  CleanInv'
<1>1. ASSUME NEW t \in Tasks
      PROVE  /\ CleanTask(proc[t], mem.task[t], sends[t])'
             /\ \A a \in Accounts : mem'.acct[a].owner = t => MayHold(proc[t], mem.task[t], a)'
  BY Clean DEF CleanTask, MayHold
<1> QED BY <1>1 DEF CleanInv

LEMMA ClockClean ==
  ASSUME TypeOK, CleanInv, NEW t \in Tasks, BecomesDue(t) \/ TaskTimesOut(t) PROVE CleanInv'
<1>1. PICK r : /\ r \in {[mem.task[t] EXCEPT !.due = TRUE], [mem.task[t] EXCEPT !.old = TRUE]}
               /\ Clock(mem, t, r)
  BY DEF BecomesDue, TaskTimesOut
<1>2. r \in TaskRecord /\ r.status = mem.task[t].status /\ r.acct = mem.task[t].acct
  BY <1>1, Types DEF TaskRecord
<1> DEFINE d == [disk.task[t] EXCEPT !.due = r.due, !.old = r.old]
<1>3. d \in TaskRecord /\ d.status = disk.task[t].status
  BY <1>2, Types DEF TaskRecord
<1>4. mem' = SetTask(mem, t, r) /\ disk' = SetTask(disk, t, d)
  BY <1>1 DEF Clock, SetBoth
<1> HIDE DEF d
<1>5. /\ mem'.acct = mem.acct
      /\ mem'.task[t] = r /\ \A u \in Tasks \ {t} : mem'.task[u] = mem.task[u]
      /\ disk'.task[t] = d /\ \A u \in Tasks \ {t} : disk'.task[u] = disk.task[u]
  <2>1. mem \in Store /\ disk \in Store
    BY Types
  <2>2. /\ mem'.acct = mem.acct /\ mem'.task[t] = r /\ \A u \in Tasks \ {t} : mem'.task[u] = mem.task[u]
    BY <1>2, <1>4, <2>1, SetTaskStore
  <2>3. /\ disk'.task[t] = d /\ \A u \in Tasks \ {t} : disk'.task[u] = disk.task[u]
    BY <1>3, <1>4, <2>1, SetTaskStore
  <2> QED BY <2>2, <2>3
<1>6. ASSUME NEW u \in Tasks
      PROVE  /\ mem'.task[u].status = mem.task[u].status /\ mem'.task[u].acct = mem.task[u].acct
             /\ disk'.task[u].status = mem.task[u].status
  <2>1. CASE u = t
    BY <1>2, <1>3, <1>5, <2>1 DEF CleanInv
  <2>2. CASE u # t
    BY <1>5, <2>2 DEF CleanInv
  <2> QED BY <2>1, <2>2
<1>7. UNCHANGED <<proc, pendingFail, sends>>
  BY DEF BecomesDue, TaskTimesOut, ghosts
<1> QED BY <1>5, <1>6, <1>7, BesideClean

LEMMA AccountClean ==
  ASSUME TypeOK, RunInv, CleanInv, faults'.write = 0,
         PatchApply \/ \E a \in Accounts : LeaseExpires(a) \/ CooldownEnds(a) \/ QuotaRefills(a)
  PROVE  CleanInv'
<1>1. PICK a \in Accounts, r \in AccountRecord :
         mem' = SetAcct(mem, a, r) /\ r.owner = mem.acct[a].owner
  <2>1. CASE PatchApply
    <3> DEFINE a == admin.acct
               r == Patched(mem.acct[a], admin.patch, admin.wasDisabled)
    <3>1. a \in Accounts /\ admin.patch \in Patches /\ admin.wasDisabled \in BOOLEAN
      BY <2>1 DEF PatchApply, RunInv, PatchOK, TypeOK
    <3>2. r \in AccountRecord
      BY <3>1, Types, ChangedRecords
    <3>3. r.owner = mem.acct[a].owner
      BY <3>1, Types, ConstantsOK DEF Patched, AccountRecord
    <3>4. mem' = SetAcct(mem, a, r)
      BY <2>1 DEF PatchApply, Persisted, NotPersisted
    <3> QED BY <3>1, <3>2, <3>3, <3>4
  <2>2. CASE \E a \in Accounts : LeaseExpires(a) \/ CooldownEnds(a) \/ QuotaRefills(a)
    <3>1. PICK a \in Accounts : LeaseExpires(a) \/ CooldownEnds(a) \/ QuotaRefills(a)
      BY <2>2
    <3>2. PICK r \in {[mem.acct[a] EXCEPT !.live = FALSE], [mem.acct[a] EXCEPT !.cooled = TRUE],
                      [mem.acct[a] EXCEPT !.reset = TRUE]} : mem' = SetAcct(mem, a, r)
      BY <3>1 DEF LeaseExpires, CooldownEnds, QuotaRefills, SetBoth
    <3>3. r \in AccountRecord /\ r.owner = mem.acct[a].owner
      BY <3>2, Types DEF AccountRecord
    <3> QED BY <3>2, <3>3
  <2> QED BY <2>1, <2>2
<1>2. disk'.task = mem'.task \/ disk'.task = disk.task
  <2>1. CASE PatchApply
    <3>1. ASSUME NEW next PROVE ~NotPersisted(next)
      BY Types DEF NotPersisted, Bump, FaultCount
    <3> QED BY <2>1, <3>1 DEF PatchApply, Persisted
  <2>2. CASE \E b \in Accounts : LeaseExpires(b) \/ CooldownEnds(b) \/ QuotaRefills(b)
    BY <2>2, Types DEF LeaseExpires, CooldownEnds, QuotaRefills, SetBoth, SetAcct, Store
  <2> QED BY <2>1, <2>2
<1>3. /\ SetAcct(mem, a, r).task = mem.task /\ SetAcct(mem, a, r).acct[a] = r
      /\ \A b \in Accounts \ {a} : SetAcct(mem, a, r).acct[b] = mem.acct[b]
  <2>1. mem \in Store /\ r \in AccountRecord
    BY <1>1, Types
  <2> QED BY <2>1, SetAcctStore
<1>4. mem'.task = mem.task /\ \A b \in Accounts : mem'.acct[b].owner = mem.acct[b].owner
  BY <1>1, <1>3
<1>5. UNCHANGED <<proc, pendingFail, sends>>
  BY DEF PatchApply, LeaseExpires, CooldownEnds, QuotaRefills, ghosts
<1>6. \A t \in Tasks : disk'.task[t].status = mem.task[t].status
  BY <1>2, <1>4 DEF CleanInv
<1> QED BY <1>4, <1>5, <1>6, BesideClean

LEMMA RestartClean ==
  ASSUME TypeOK, RunInv, CleanInv, Restart PROVE CleanInv'
<1>1. /\ \A t \in Tasks : mem'.task[t] = RecoveredTask(disk.task[t]) /\ disk'.task[t] = RecoveredTask(disk.task[t])
      /\ \A a \in Accounts : mem'.acct[a] = RecoveredAccount(disk.acct[a])
  BY RecoveredStore DEF Restart, SetBoth
<1>2. \A a \in Accounts : mem'.acct[a].owner = None
  BY <1>1, Types DEF RecoveredAccount, AccountRecord
<1>3. proc' = [t \in Tasks |-> Idle] /\ pendingFail' = {} /\ UNCHANGED sends
  BY DEF Restart, ghosts
<1>4. ASSUME NEW t \in Tasks PROVE CleanTask(Idle, RecoveredTask(disk.task[t]), sends[t])
  <2>1. LET r == RecoveredTask(disk.task[t]) IN
        r.status # "submitting" /\ (r.status = "processing" => disk.task[t].status = "processing")
    BY Types DEF RecoveredTask, TaskRecord, Statuses
  <2>2. disk.task[t].status = "processing" => sends[t] = 1
    BY Clean DEF CleanInv, CleanTask
  <2> QED BY <2>1, <2>2 DEF CleanTask, Idle, WorkPcs, QueryPcs
<1> QED BY <1>1, <1>2, <1>3, <1>4, ConstantsOK DEF CleanInv

LEMMA FaultsGrow ==
  ASSUME TypeOK, [Next]_vars
  PROVE  faults.write <= faults'.write /\ faults.crash <= faults'.crash
<1>1. ASSUME NEW k, NEW max, Bump(k, max)
      PROVE  faults.write <= faults'.write /\ faults.crash <= faults'.crash
  BY <1>1, Types DEF Bump, FaultCount
<1>2. ASSUME NEW t, NEW next, NEW then, NEW caught, Mutate(t, next, then, caught)
      PROVE  faults.write <= faults'.write /\ faults.crash <= faults'.crash
  BY <1>1, <1>2, Types DEF Mutate, Persisted, NotPersisted, FaultCount
<1>3. ASSUME NEW next, Persisted(next) \/ NotPersisted(next)
      PROVE  faults.write <= faults'.write /\ faults.crash <= faults'.crash
  BY <1>1, <1>3, Types DEF Persisted, NotPersisted, FaultCount
<1>4. UNCHANGED faults => faults.write <= faults'.write /\ faults.crash <= faults'.crash
  BY Types DEF FaultCount
<1>5. CASE \E t \in Tasks : Run(t)
  <2> PICK t \in Tasks : Run(t)
    BY <1>5
  <2>1. CASE \/ Claim(t) \/ WaitAccount(t) \/ Mark(t) \/ Accepted(t) \/ NoteQuota(t) \/ ReleaseAccount(t)
             \/ Requeue(t) \/ FailTask(t) \/ ClaimExisting(t) \/ RenewForRetry(t) \/ Repoll(t)
             \/ MarkDownloading(t) \/ Succeed(t)
    BY <1>2, <2>1 DEF Claim, WaitAccount, Mark, Accepted, NoteQuota, ReleaseAccount, Requeue, FailTask,
          ClaimExisting, RenewForRetry, Repoll, MarkDownloading, Succeed
  <2>2. CASE \/ Send(t) \/ Reply(t) \/ EnsureRuntime(t) \/ Connect(t) \/ CheckAge(t)
             \/ QueryChain(t) \/ TestReady(t) \/ Download(t)
    BY <1>4, <2>2 DEF Send, Reply, EnsureRuntime, Connect, CheckAge, QueryChain, TestReady, Download
  <2>3. CASE ReleaseDone(t)
    BY <1>3, <2>3 DEF ReleaseDone
  <2>4. CASE CatchUpdate(t)
    BY <1>3, <2>4 DEF CatchUpdate
  <2> QED BY <2>1, <2>2, <2>3, <2>4 DEF Run
<1>6. CASE \E t \in Tasks : CreateVideo(t)
  BY <1>3, <1>6 DEF CreateVideo
<1>7. CASE PatchApply
  BY <1>3, <1>7 DEF PatchApply
<1>8. CASE \E t \in Tasks : Pump(t) \/ BecomesDue(t) \/ TaskTimesOut(t)
  BY <1>4, <1>8 DEF Pump, BecomesDue, TaskTimesOut
<1>9. CASE LoginConnects \/ \E a \in Accounts : LeaseExpires(a) \/ CooldownEnds(a) \/ QuotaRefills(a)
  BY <1>4, <1>9 DEF LoginConnects, LeaseExpires, CooldownEnds, QuotaRefills
<1>10. CASE \/ \E a \in Accounts : BrowserLost(a) \/ OpenLogin(a)
            \/ \E a \in Accounts, p \in Patches : PatchRead(a, p)
            \/ Crash \/ \E t \in Tasks : CatchUpdateFails(t)
  BY <1>1, <1>10 DEF BrowserLost, OpenLogin, PatchRead, Crash, CatchUpdateFails
<1>11. CASE UNCHANGED vars
  BY <1>4, <1>11 DEF vars
<1> QED BY <1>5, <1>6, <1>7, <1>8, <1>9, <1>10, <1>11 DEF Next

LEMMA NextClean ==
  ASSUME TypeOK, RunInv, CleanInv, [Next]_vars, faults'.write = 0 PROVE CleanInv'
<1>1. CASE \E t \in Tasks : Run(t)
  <2> PICK t \in Tasks : Run(t)
    BY <1>1
  <2>1. ~CatchUpdate(t)
    BY DEF CatchUpdate, CleanInv
  <2> QED BY <2>1, ClaimClean, WriteTaskClean, MarkClean, SendClean, ReplyClean, AcceptedClean,
             NoteQuotaClean, ReleaseAccountClean, BrowserClean, PollClean, ClaimExistingClean,
             RenewForRetryClean, PollWriteClean, ReleaseDoneClean DEF Run
<1>2. CASE \E t \in Tasks : CreateVideo(t) \/ Pump(t) \/ BecomesDue(t) \/ TaskTimesOut(t)
  BY <1>2, CreateVideoClean, PumpClean, ClockClean
<1>3. CASE PatchApply \/ \E a \in Accounts : LeaseExpires(a) \/ CooldownEnds(a) \/ QuotaRefills(a)
  BY <1>3, AccountClean
<1>4. CASE Crash \/ \E t \in Tasks : CatchUpdateFails(t)
  BY <1>4, RestartClean DEF Crash, CatchUpdateFails
<1>5. CASE \/ \E a \in Accounts : BrowserLost(a) \/ OpenLogin(a)
           \/ LoginConnects \/ \E a \in Accounts, p \in Patches : PatchRead(a, p)
  <2>1. UNCHANGED <<mem, disk, proc, pendingFail, sends>>
    BY <1>5 DEF BrowserLost, OpenLogin, LoginConnects, PatchRead, ghosts
  <2> QED BY <2>1 DEF CleanInv
<1>6. CASE UNCHANGED vars
  BY <1>6 DEF vars, CleanInv
<1> QED BY <1>1, <1>2, <1>3, <1>4, <1>5, <1>6 DEF Next

LEMMA InitClean == Init => CleanInv
<1>1. ASSUME Init PROVE CleanInv
  <2>1. \A t \in Tasks : proc[t] = Idle /\ sends[t] = 0 /\ mem.task[t] = NoTask /\ disk = mem
    BY <1>1 DEF Init
  <2>2. \A a \in Accounts : mem.acct[a].owner = None
    BY <1>1 DEF Init, FreshAccount
  <2>3. pendingFail = {}
    BY <1>1 DEF Init
  <2> QED BY <2>1, <2>2, <2>3, ConstantsOK DEF CleanInv, CleanTask, Idle, NoTask, WorkPcs, QueryPcs
<1> QED BY <1>1

WriteClean == faults.write = 0 => CleanInv

LEMMA NextWriteClean ==
  ASSUME TypeOK, RunInv, WriteClean, [Next]_vars PROVE WriteClean'
<1>1. faults \in FaultCount /\ faults' \in FaultCount
  BY NextRun, Types DEF TypeOK, FaultCount
<1>2. faults'.write = 0 => faults.write = 0
  BY <1>1, FaultsGrow DEF FaultCount
<1> QED BY <1>2, NextClean DEF WriteClean

LEMMA CleanRuns == Spec => [](TypeOK /\ RunInv /\ WriteClean)
<1>1. Init => WriteClean
  BY InitClean DEF WriteClean
<1> QED BY <1>1, InitRun, NextRun, NextWriteClean, PTL DEF Spec

(* A lease of a finished task that no run will release any more is always the
   mark of a failed write: every other way a run can take releases the account
   it leased (service.mjs, the catch blocks; account-pool.mjs, release). *)
THEOREM LeasesEndWithTheirTask == Spec => []LeaseOutlivesTaskOnlyByFailedWrite
<1>1. TypeOK /\ WriteClean => LeaseOutlivesTaskOnlyByFailedWrite
  <2> SUFFICES ASSUME TypeOK, WriteClean, NEW a \in Accounts, mem.acct[a].owner # None,
                      At(mem.acct[a].owner, "idle"), mem.task[mem.acct[a].owner].status \in Terminal
               PROVE  faults.write > 0
    BY DEF LeaseOutlivesTaskOnlyByFailedWrite
  <2>1. mem.acct[a].owner \in Tasks /\ faults.write \in Nat
    BY Types, ConstantsOK DEF AccountRecord, FaultCount
  <2>2. faults.write # 0
    BY <2>1, Clean DEF WriteClean, MayHold, At, Terminal
  <2> QED BY <2>1, <2>2
<1> QED BY <1>1, CleanRuns, PTL

(***************************************************************************)
(* The adapter implements PaidJob.  The phase of a task is a function of   *)
(* its status in memory and of the requests the provider may have taken.   *)
(***************************************************************************)

PhaseOf(status, n) ==
    IF status = "absent" THEN "absent"
    ELSE IF status = "succeeded" THEN "delivered"
    ELSE IF status = "failed" THEN "failed"
    ELSE IF n = 0 THEN "waiting" ELSE IF n = 1 THEN "sent" ELSE "sent twice"

LEMMA PhaseCases ==
  ASSUME NEW s, NEW n
  PROVE  PhaseOf(s, n) =
           CASE s = "absent"    -> "absent"
             [] s = "succeeded" -> "delivered"
             [] s = "failed"    -> "failed"
             [] OTHER -> CASE n = 0 -> "waiting" [] n = 1 -> "sent" [] OTHER -> "sent twice"
<1>1. CASE s \in {"absent", "succeeded", "failed"}
  BY <1>1 DEF PhaseOf
<1>2. CASE s \notin {"absent", "succeeded", "failed"}
  <2>1. CASE n = 0
    BY <1>2, <2>1 DEF PhaseOf
  <2>2. CASE n = 1
    BY <1>2, <2>2 DEF PhaseOf
  <2>3. CASE n # 0 /\ n # 1
    BY <1>2, <2>3 DEF PhaseOf
  <2> QED BY <2>1, <2>2, <2>3
<1> QED BY <1>1, <1>2

LEMMA PhaseIsPhaseOf ==
  ASSUME NEW t \in Tasks
  PROVE  /\ Phase(t) = PhaseOf(mem.task[t].status, sends[t])
         /\ Phase(t)' = PhaseOf(mem'.task[t].status, sends'[t])
BY PhaseCases DEF Phase

LEMMA PhasesAre ==
  /\ \A status \in {"queued", "submitting", "processing"} :
        PhaseOf(status, 0) = "waiting" /\ PhaseOf(status, 1) = "sent"
  /\ \A n : PhaseOf("succeeded", n) = "delivered" /\ PhaseOf("failed", n) = "failed"
BY DEF PhaseOf

LEMMA RelayStays ==
  ASSUME \A t \in Tasks : Phase(t)' = Phase(t)
  PROVE  [Relay!Next]_[t \in Tasks |-> Phase(t)]
OBVIOUS

LEMMA RelayMoves ==
  ASSUME NEW t \in Tasks, \A u \in Tasks \ {t} : Phase(u)' = Phase(u),
         \/ Phase(t) = "absent" /\ Phase(t)' = "waiting"
         \/ Phase(t) = "waiting" /\ Phase(t)' = "sent"
         \/ Phase(t) = "sent" /\ Phase(t)' = "waiting"
         \/ Phase(t) = "sent" /\ Phase(t)' = "delivered"
         \/ Phase(t) \in {"waiting", "sent"} /\ Phase(t)' = "failed"
  PROVE  [Relay!Next]_[u \in Tasks |-> Phase(u)]
<1>1. ASSUME NEW from, NEW to, Phase(t) = from, Phase(t)' = to PROVE Relay!Move(t, from, to)
  <2>1. [u \in Tasks |-> Phase(u)][t] = from
    BY <1>1
  <2>2. [u \in Tasks |-> Phase(u)'] = [[u \in Tasks |-> Phase(u)] EXCEPT ![t] = to]
    BY <1>1
  <2> QED BY <2>1, <2>2 DEF Relay!Move
<1>2. \/ Relay!Accept(t) \/ Relay!Send(t) \/ Relay!Refuse(t) \/ Relay!Deliver(t) \/ Relay!Fail(t)
  BY <1>1 DEF Relay!Accept, Relay!Send, Relay!Refuse, Relay!Deliver, Relay!Fail
<1> QED BY <1>2 DEF Relay!Next

\* What a run does to a task is seen in that task alone.
LEMMA WriteTaskPhase ==
  ASSUME TypeOK, NEW t \in Tasks, NEW r \in TaskRecord, NEW then, NEW caught,
         Mutate(t, SetTask(mem, t, r), then, caught), UNCHANGED sends
  PROVE  /\ Phase(t)' = PhaseOf(r.status, sends[t])
         /\ \A u \in Tasks \ {t} : Phase(u)' = Phase(u)
<1>1. mem' = SetTask(mem, t, r)
  BY DEF Mutate, Persisted, NotPersisted
<1>2. mem'.task[t] = r /\ \A u \in Tasks \ {t} : mem'.task[u] = mem.task[u]
  BY <1>1, Types, SetTaskStore
<1> QED BY <1>2, PhaseIsPhaseOf

LEMMA WriteTaskRelay ==
  ASSUME TypeOK, RunInv, CleanInv, NEW t \in Tasks, faults'.write = 0,
         \/ WaitAccount(t) \/ Mark(t) \/ Accepted(t) \/ Requeue(t) \/ FailTask(t)
         \/ Repoll(t) \/ MarkDownloading(t) \/ Succeed(t)
  PROVE  [Relay!Next]_[u \in Tasks |-> Phase(u)]
<1>1. /\ proc[t].pc # "idle" => mem.task[t].status = StatusAt(proc[t])
      /\ mem.task[t].status = "processing" \/ proc[t].pc = "accept" => sends[t] = 1
      /\ Phase(t) = PhaseOf(mem.task[t].status, sends[t]) /\ sends[t] \in {0, 1}
      /\ mem.task[t] \in TaskRecord
      /\ UNCHANGED sends
  BY Clean, PhaseIsPhaseOf, RunEnds, Types
     DEF CleanTask, WaitAccount, Mark, Accepted, Requeue, FailTask, Repoll, MarkDownloading, Succeed, ghosts
<1>2. CASE WaitAccount(t) \/ Repoll(t) \/ MarkDownloading(t)
  <2>1. PICK r, then, caught :
            r \in TaskRecord /\ r.status = mem.task[t].status /\ Mutate(t, SetTask(mem, t, r), then, caught)
    <3>1. \A due : due \in BOOLEAN => /\ [mem.task[t] EXCEPT !.due = due] \in TaskRecord
                                     /\ [mem.task[t] EXCEPT !.due = due].status = mem.task[t].status
      BY <1>1 DEF TaskRecord
    <3> QED BY <1>2, <3>1 DEF WaitAccount, Repoll, MarkDownloading
  <2> QED BY <1>1, <2>1, WriteTaskPhase, RelayStays
<1>3. CASE Mark(t)
  <2> DEFINE r == [mem.task[t] EXCEPT !.status = "submitting", !.acct = proc[t].acct,
                                      !.tried = @ \union {proc[t].acct}, !.due = TRUE]
  <2>1. proc[t].pc = "mark" /\ proc[t].acct \in Accounts
    BY <1>3, RunEnds DEF Mark, At, TaskRun, JobOK
  <2>2. r \in TaskRecord /\ r.status = "submitting" /\ mem.task[t].status = "queued"
    BY <1>1, <2>1 DEF TaskRecord, Statuses, StatusAt
  <2>3. PICK then, caught : Mutate(t, SetTask(mem, t, r), then, caught)
    BY <1>3 DEF Mark
  <2> HIDE DEF r
  <2>4. Phase(t)' = Phase(t) /\ \A u \in Tasks \ {t} : Phase(u)' = Phase(u)
    BY <1>1, <2>2, <2>3, WriteTaskPhase DEF PhaseOf
  <2> QED BY <2>4, RelayStays
<1>4. CASE Accepted(t)
  <2> DEFINE r == [mem.task[t] EXCEPT !.status = "processing", !.quota = (proc[t].out = "quota"), !.due = TRUE]
  <2>1. proc[t].pc = "accept" /\ proc[t].job = "submit"
    BY <1>4, RunEnds DEF Accepted, At, TaskRun, JobOK, SubmitPcs
  <2>2. r \in TaskRecord /\ r.status = "processing" /\ mem.task[t].status = "submitting"
    BY <1>1, <2>1 DEF TaskRecord, Statuses, StatusAt
  <2>3. PICK then, caught : Mutate(t, SetTask(mem, t, r), then, caught)
    BY <1>4 DEF Accepted
  <2> HIDE DEF r
  <2>4. Phase(t)' = Phase(t) /\ \A u \in Tasks \ {t} : Phase(u)' = Phase(u)
    BY <1>1, <2>2, <2>3, WriteTaskPhase DEF PhaseOf
  <2> QED BY <2>4, RelayStays
<1>5. CASE Requeue(t)
  <2> DEFINE r == [mem.task[t] EXCEPT !.status = "queued", !.acct = None, !.due = TRUE]
  <2>1. proc[t].pc = "requeue"
    BY <1>5 DEF Requeue, At
  <2>2. r \in TaskRecord /\ r.status = "queued" /\ mem.task[t].status \in {"submitting", "processing"}
    BY <1>1, <2>1 DEF TaskRecord, Statuses, StatusAt
  <2>3. PICK then, caught : Mutate(t, SetTask(mem, t, r), then, caught)
    BY <1>5 DEF Requeue
  <2> HIDE DEF r
  <2>4. Phase(t)' = Phase(t) /\ \A u \in Tasks \ {t} : Phase(u)' = Phase(u)
    BY <1>1, <2>2, <2>3, WriteTaskPhase DEF PhaseOf
  <2> QED BY <2>4, RelayStays
<1>6. CASE FailTask(t)
  <2> DEFINE r == Finished("failed")
  <2>1. proc[t].pc = "fail"
    BY <1>6 DEF FailTask, At
  <2>2. r \in TaskRecord /\ r.status = "failed" /\ mem.task[t].status \in {"submitting", "processing"}
    BY <1>1, <2>1 DEF TaskRecord, Statuses, StatusAt, Finished, NoTask
  <2>3. PICK then, caught : Mutate(t, SetTask(mem, t, r), then, caught)
    BY <1>6 DEF FailTask
  <2> HIDE DEF r
  <2>4. Phase(t) \in {"waiting", "sent"} /\ Phase(t)' = "failed" /\ \A u \in Tasks \ {t} : Phase(u)' = Phase(u)
    BY <1>1, <2>2, <2>3, WriteTaskPhase DEF PhaseOf
  <2> QED BY <2>4, RelayMoves
<1>7. CASE Succeed(t)
  <2> DEFINE r == [Finished("succeeded") EXCEPT !.quota = mem.task[t].quota]
  <2>1. proc[t].pc = "succeed" /\ proc[t].job = "query"
    BY <1>7, RunEnds DEF Succeed, At, TaskRun, JobOK, QueryPcs
  <2>2. r \in TaskRecord /\ r.status = "succeeded" /\ mem.task[t].status = "processing"
    BY <1>1, <2>1 DEF TaskRecord, Statuses, StatusAt, Finished, NoTask
  <2>3. PICK then, caught : Mutate(t, SetTask(mem, t, r), then, caught)
    BY <1>7 DEF Succeed
  <2> HIDE DEF r
  <2>4. Phase(t) = "sent"
    <3>1. sends[t] = 1
      BY <1>1, <2>2
    <3> QED BY <1>1, <2>2, <3>1, PhasesAre
  <2>5. Phase(t)' = PhaseOf("succeeded", sends[t]) /\ \A u \in Tasks \ {t} : Phase(u)' = Phase(u)
    BY <1>1, <2>2, <2>3, WriteTaskPhase
  <2>6. Phase(t)' = "delivered"
    BY <2>5, PhasesAre
  <2> QED BY <2>4, <2>5, <2>6, RelayMoves
<1> QED BY <1>2, <1>3, <1>4, <1>5, <1>6, <1>7

LEMMA AskRelay ==
  ASSUME TypeOK, RunInv, CleanInv, NEW t \in Tasks, Send(t) \/ Reply(t)
  PROVE  [Relay!Next]_[u \in Tasks |-> Phase(u)]
<1>1. proc[t].job = "submit" /\ proc[t].pc \in {"send", "reply"} /\ UNCHANGED mem
  BY RunEnds DEF Send, Reply, At, TaskRun, JobOK, SubmitPcs
<1>2. mem.task[t].status = "submitting"
  BY <1>1, Clean DEF CleanTask, StatusAt
<1>3. \/ UNCHANGED sends
      \/ /\ \A u \in Tasks \ {t} : sends'[u] = sends[u]
         /\ (sends[t] = 0 /\ sends'[t] = 1) \/ (sends[t] = 1 /\ sends'[t] = 0)
  <2>1. /\ proc[t].pc = "send" => sends[t] = 0
        /\ proc[t].pc = "reply" => sends[t] = 1
    BY <1>1, RunEnds DEF TaskRun, SendOK, NotYetSent
  <2>2. CASE Send(t)
    <3>1. UNCHANGED sends \/ sends' = [sends EXCEPT ![t] = @ + 1]
      BY <2>2 DEF Send
    <3> QED BY <2>1, <2>2, <3>1 DEF Send, At, TypeOK
  <2>3. CASE Reply(t)
    <3>1. UNCHANGED sends \/ sends' = [sends EXCEPT ![t] = @ - 1]
      BY <2>3 DEF Reply
    <3> QED BY <2>1, <2>3, <3>1 DEF Reply, At, TypeOK
  <2> QED BY <2>2, <2>3
<1>4. CASE UNCHANGED sends
  BY <1>1, <1>4, PhaseIsPhaseOf, RelayStays
<1>5. CASE /\ \A u \in Tasks \ {t} : sends'[u] = sends[u]
           /\ (sends[t] = 0 /\ sends'[t] = 1) \/ (sends[t] = 1 /\ sends'[t] = 0)
  <2>1. \A u \in Tasks \ {t} : Phase(u)' = Phase(u)
    BY <1>1, <1>5, PhaseIsPhaseOf
  <2>2. Phase(t) = PhaseOf("submitting", sends[t]) /\ Phase(t)' = PhaseOf("submitting", sends'[t])
    BY <1>1, <1>2, PhaseIsPhaseOf
  <2>3. (Phase(t) = "waiting" /\ Phase(t)' = "sent") \/ (Phase(t) = "sent" /\ Phase(t)' = "waiting")
    BY <1>5, <2>2, PhasesAre
  <2> QED BY <2>1, <2>3, RelayMoves
<1> QED BY <1>3, <1>4, <1>5

LEMMA CreateVideoRelay ==
  ASSUME TypeOK, RunInv, CleanInv, NEW t \in Tasks, CreateVideo(t)
  PROVE  [Relay!Next]_[u \in Tasks |-> Phase(u)]
<1> DEFINE r == [NoTask EXCEPT !.status = "queued", !.due = TRUE]
<1>1. r \in TaskRecord /\ r.status = "queued"
  BY DEF NoTask, TaskRecord, Statuses
<1>2. mem' = SetTask(mem, t, r) /\ mem.task[t].status = "absent" /\ UNCHANGED sends
  BY DEF CreateVideo, Persisted, NotPersisted, ghosts
<1> HIDE DEF r
<1>3. mem'.task[t] = r /\ \A u \in Tasks \ {t} : mem'.task[u] = mem.task[u]
  BY <1>1, <1>2, Types, SetTaskStore
<1>4. sends[t] = 0
  BY <1>2, RunEnds DEF TaskRun, SendOK, Committed
<1>5. Phase(t) = "absent" /\ Phase(t)' = "waiting"
  <2>1. mem'.task[t].status = "queued" /\ sends'[t] = 0
    BY <1>1, <1>2, <1>3, <1>4
  <2>2. Phase(t) = PhaseOf("absent", 0) /\ Phase(t)' = PhaseOf("queued", 0)
    BY <1>2, <1>4, <2>1, PhaseIsPhaseOf
  <2> QED BY <2>2 DEF PhaseOf
<1>6. \A u \in Tasks \ {t} : Phase(u)' = Phase(u)
  BY <1>2, <1>3, PhaseIsPhaseOf
<1> QED BY <1>5, <1>6, RelayMoves

LEMMA RestartRelay ==
  ASSUME TypeOK, RunInv, CleanInv, Restart
  PROVE  [Relay!Next]_[u \in Tasks |-> Phase(u)]
<1> DEFINE lost == {t \in Tasks : mem.task[t].status = "submitting"}
<1>1. /\ \A t \in Tasks : mem'.task[t] = RecoveredTask(disk.task[t]) /\ disk.task[t].status = mem.task[t].status
      /\ UNCHANGED sends
  BY RecoveredStore DEF Restart, SetBoth, ghosts, CleanInv
<1>2. \A t \in Tasks : mem'.task[t].status = IF t \in lost THEN "failed" ELSE mem.task[t].status
  BY <1>1, Types DEF RecoveredTask, TaskRecord
<1>3. \A t \in lost : Phase(t) \in {"waiting", "sent"}
  BY RunEnds, PhaseIsPhaseOf DEF PhaseOf
<1>4. \A t \in Tasks : Phase(t)' = IF t \in lost THEN "failed" ELSE Phase(t)
  BY <1>1, <1>2, PhaseIsPhaseOf DEF PhaseOf
<1> HIDE DEF lost
<1>5. lost \subseteq Tasks
  BY DEF lost
<1>6. Relay!GiveUp(lost)
  BY <1>3, <1>4, <1>5 DEF Relay!GiveUp
<1> QED BY <1>5, <1>6 DEF Relay!Next

LEMMA OtherRelay ==
  ASSUME UNCHANGED sends, mem'.task = mem.task PROVE [Relay!Next]_[u \in Tasks |-> Phase(u)]
BY PhaseIsPhaseOf, RelayStays

LEMMA AccountRelay ==
  ASSUME TypeOK, RunInv, NEW t \in Tasks,
         \/ Claim(t) \/ NoteQuota(t) \/ ReleaseAccount(t) \/ ClaimExisting(t) \/ RenewForRetry(t)
         \/ ReleaseDone(t)
  PROVE  [Relay!Next]_[u \in Tasks |-> Phase(u)]
<1>1. \A a, r : SetAcct(mem, a, r).task = mem.task
  BY Types DEF SetAcct, Store
<1>2. \A a, r : IfHolder(mem, t, a, r).task = mem.task
  BY <1>1 DEF IfHolder
<1>3. \A a, out : Release(mem, t, a, out).task = mem.task
  BY <1>2 DEF Release
<1>4. ASSUME NEW next, NEW then, NEW caught, Mutate(t, next, then, caught), next.task = mem.task
      PROVE  mem'.task = mem.task
  BY <1>4 DEF Mutate, Persisted, NotPersisted
<1>6. mem'.task = mem.task
  <2>1. CASE Claim(t) \/ ClaimExisting(t)
    <3>1. CASE \E then, caught : Mutate(t, mem, then, caught)
      BY <1>4, <3>1
    <3>2. CASE \E a, r, then, caught : Mutate(t, SetAcct(mem, a, r), then, caught)
      BY <1>1, <1>4, <3>2
    <3>3. CASE Claim(t)
      BY <3>1, <3>2, <3>3 DEF Claim
    <3>4. CASE ClaimExisting(t)
      BY <3>1, <3>2, <3>4 DEF ClaimExisting
    <3> QED BY <2>1, <3>3, <3>4
  <2>2. CASE NoteQuota(t) \/ RenewForRetry(t)
    BY <1>2, <1>4, <2>2 DEF NoteQuota, RenewForRetry, Renew
  <2>3. CASE ReleaseAccount(t)
    BY <1>3, <1>4, <2>3 DEF ReleaseAccount
  <2>4. CASE ReleaseDone(t)
    BY <1>3, <2>4 DEF ReleaseDone, Persisted, NotPersisted
  <2> QED BY <2>1, <2>2, <2>3, <2>4
<1>5. UNCHANGED sends
  BY DEF Claim, NoteQuota, ReleaseAccount, ClaimExisting, RenewForRetry, ReleaseDone, ghosts
<1> QED BY <1>5, <1>6, OtherRelay

LEMMA TimeRelay ==
  ASSUME TypeOK, RunInv, NEW t \in Tasks, BecomesDue(t) \/ TaskTimesOut(t)
  PROVE  [Relay!Next]_[u \in Tasks |-> Phase(u)]
<1>1. PICK r : /\ r \in {[mem.task[t] EXCEPT !.due = TRUE], [mem.task[t] EXCEPT !.old = TRUE]}
               /\ Clock(mem, t, r) /\ UNCHANGED sends
  BY DEF BecomesDue, TaskTimesOut, ghosts
<1>2. r \in TaskRecord /\ r.status = mem.task[t].status
  BY <1>1, Types DEF TaskRecord
<1>3. mem'.task[t] = r /\ \A u \in Tasks \ {t} : mem'.task[u] = mem.task[u]
  <2>1. mem' = SetTask(mem, t, r)
    BY <1>1 DEF Clock, SetBoth
  <2>2. mem \in Store
    BY Types
  <2> QED BY <1>2, <2>1, <2>2, SetTaskStore
<1> QED BY <1>1, <1>2, <1>3, PhaseIsPhaseOf, RelayStays

LEMMA NextRelay ==
  ASSUME TypeOK, RunInv, CleanInv, [Next]_vars, faults'.write = 0
  PROVE  [Relay!Next]_[u \in Tasks |-> Phase(u)]
<1>1. CASE \E t \in Tasks : Run(t)
  <2> PICK t \in Tasks : Run(t)
    BY <1>1
  <2>1. ~CatchUpdate(t)
    BY DEF CatchUpdate, CleanInv
  <2>2. CASE \/ EnsureRuntime(t) \/ Connect(t) \/ CheckAge(t) \/ QueryChain(t) \/ TestReady(t) \/ Download(t)
    BY <2>2, OtherRelay DEF EnsureRuntime, Connect, CheckAge, QueryChain, TestReady, Download, ghosts
  <2> QED BY <2>1, <2>2, WriteTaskRelay, AskRelay, AccountRelay DEF Run
<1>2. CASE \E t \in Tasks : CreateVideo(t)
  BY <1>2, CreateVideoRelay
<1>3. CASE \E t \in Tasks : BecomesDue(t) \/ TaskTimesOut(t)
  BY <1>3, TimeRelay
<1>4. CASE Crash \/ \E t \in Tasks : CatchUpdateFails(t)
  BY <1>4, RestartRelay DEF Crash, CatchUpdateFails
<1>5. CASE PatchApply \/ \E a \in Accounts : LeaseExpires(a) \/ CooldownEnds(a) \/ QuotaRefills(a)
  <2>1. \A a, r : SetAcct(mem, a, r).task = mem.task
    BY Types DEF SetAcct, Store
  <2>2. CASE PatchApply
    <3>1. mem'.task = mem.task /\ UNCHANGED sends
      BY <2>1, <2>2 DEF PatchApply, Persisted, NotPersisted
    <3> QED BY <3>1, OtherRelay
  <2>3. ASSUME NEW a \in Accounts, LeaseExpires(a) \/ CooldownEnds(a) \/ QuotaRefills(a)
        PROVE  [Relay!Next]_[t \in Tasks |-> Phase(t)]
    <3>1. mem'.task = mem.task /\ UNCHANGED sends
      BY <2>1, <2>3 DEF LeaseExpires, CooldownEnds, QuotaRefills, SetBoth, ghosts
    <3> QED BY <3>1, OtherRelay
  <2> QED BY <1>5, <2>2, <2>3
<1>6. CASE \/ \E t \in Tasks : Pump(t)
           \/ \E a \in Accounts : BrowserLost(a) \/ OpenLogin(a)
           \/ LoginConnects \/ \E a \in Accounts, p \in Patches : PatchRead(a, p)
           \/ UNCHANGED vars
  BY <1>6, OtherRelay DEF Pump, BrowserLost, OpenLogin, LoginConnects, PatchRead, ghosts, vars
<1> QED BY <1>1, <1>2, <1>3, <1>4, <1>5, <1>6 DEF Next

LEMMA InitRelay == Init => Relay!Init
<1>1. ASSUME Init, NEW t \in Tasks PROVE Phase(t) = "absent"
  <2>1. mem.task[t].status = "absent"
    BY <1>1 DEF Init, NoTask
  <2> QED BY <2>1, PhaseIsPhaseOf DEF PhaseOf
<1> QED BY <1>1 DEF Relay!Init

LEMMA StepRelay ==
  ASSUME MaxWriteFailures = 0
  PROVE  TypeOK /\ RunInv /\ WriteClean /\ [Next]_vars => [Relay!Next]_[t \in Tasks |-> Phase(t)]
<1> SUFFICES ASSUME TypeOK, RunInv, WriteClean, [Next]_vars
             PROVE  [Relay!Next]_[t \in Tasks |-> Phase(t)]
  OBVIOUS
<1>1. faults.write = 0 /\ faults'.write = 0
  BY NextRun DEF TypeOK
<1> QED BY <1>1, NextRelay DEF WriteClean

(* As long as the state file can be written, the adapter keeps the promise of a
   relay to its callers, through crashes, lost browsers, expired leases and the
   administrator's patches: what one task shows its caller and the provider is
   a behaviour of PaidJob (service.mjs, processTask; store.mjs, recovery). *)
THEOREM AdapterImplementsRelay ==
  ASSUME MaxWriteFailures = 0
  PROVE  Spec => ImplementsRelay
BY InitRelay, StepRelay, CleanRuns, PTL DEF Spec, ImplementsRelay, Relay!Spec

(***************************************************************************)
(* As long as no write has failed and the process has not crashed: an      *)
(* accepted task keeps its lease, and an account that is known to be out   *)
(* of quota is either held by the run that has heard it and has still to   *)
(* note it, or shut out, and its holder knows what to release it with.     *)
(***************************************************************************)

\* The state of an account that no claim takes.
ShutOut(r) ==
    \/ r.state \in {"needs_login", "disabled"}
    \/ r.state = "quota_exhausted" /\ ~r.reset

Carries(p) == p.pc \in {"accept", "note", "release"} /\ p.out = "quota"

\* Account r is known to be out of quota; p and m are the run and the task of its owner.
Guarded(r, p, m) ==
    \/ r.owner # None /\ Carries(p)
    \/ /\ ShutOut(r)
       /\ r.owner # None => m.quota /\ (p.pc = "release" => p.out \in {"quota", "needs_login"})

KeepsLease(t, p, m, acct) ==
    /\ m.status = "processing" /\ p.pc # "fail" => acct[m.acct].owner = t
    /\ p.pc \in {"accept", "note"} => acct[p.acct].owner = t
    /\ p.pc = "note" => p.out = "quota" /\ m.quota
    /\ m.quota => m.status \in {"processing", "succeeded"}
    /\ p.pc = "requeue" => p.job = "submit"

KnownInv ==
    /\ \A t \in Tasks : KeepsLease(t, proc[t], mem.task[t], mem.acct)
    /\ \A a \in known : LET t == mem.acct[a].owner IN Guarded(mem.acct[a], proc[t], mem.task[t])

Untroubled == faults.write = 0 /\ faults.crash = 0 => KnownInv

LEMMA Known ==
  ASSUME KnownInv, NEW t \in Tasks
  PROVE  /\ KeepsLease(t, proc[t], mem.task[t], mem.acct)
         /\ \A a \in known : mem.acct[a].owner = t => Guarded(mem.acct[a], proc[t], mem.task[t])
BY DEF KnownInv

\* t is the only task of which the step changes the run, the record or the lease.
LEMMA KnownStep ==
  ASSUME TypeOK, RunInv, KnownInv, NEW t \in Tasks,
         \A u \in Tasks \ {t} : proc'[u] = proc[u] /\ mem'.task[u] = mem.task[u],
         \A a \in Accounts : mem.acct[a].owner \in Tasks \ {t} => mem'.acct[a] = mem.acct[a],
         KeepsLease(t, proc'[t], mem'.task[t], mem'.acct),
         \A a \in known' : /\ a \in Accounts
                           /\ \/ a \in known /\ mem.acct[a].owner \in Tasks \ {t}
                              \/ /\ mem'.acct[a].owner \in {t, None}
                                 /\ Guarded(mem'.acct[a], proc'[t], mem'.task[t])
  PROVE  KnownInv'
<1>1. ASSUME NEW u \in Tasks PROVE KeepsLease(u, proc'[u], mem'.task[u], mem'.acct)
  <2>1. CASE u = t
    BY <2>1
  <2>2. CASE u # t
    <3>1. /\ mem.task[u].status = "processing" => mem.task[u].acct \in Accounts
          /\ proc[u].pc \in {"accept", "note"} => proc[u].acct \in Accounts
      BY RunEnds DEF TaskRun, OwnOK, JobOK, SubmitPcs
    <3> QED BY <2>2, <3>1, Known DEF KeepsLease
  <2> QED BY <2>1, <2>2
<1>2. ASSUME NEW a \in known'
      PROVE  Guarded(mem'.acct[a], proc'[mem'.acct[a].owner], mem'.task[mem'.acct[a].owner])
  <2>1. CASE a \in known /\ mem.acct[a].owner \in Tasks \ {t}
    <3>1. Guarded(mem.acct[a], proc[mem.acct[a].owner], mem.task[mem.acct[a].owner])
      BY <2>1, Known
    <3>2. mem'.acct[a] = mem.acct[a]
      BY <1>2, <2>1
    <3> QED BY <2>1, <3>1, <3>2
  <2>2. CASE mem'.acct[a].owner = t /\ Guarded(mem'.acct[a], proc'[t], mem'.task[t])
    BY <2>2
  <2>3. CASE mem'.acct[a].owner = None /\ Guarded(mem'.acct[a], proc'[t], mem'.task[t])
    BY <2>3 DEF Guarded
  <2> QED BY <1>2, <2>1, <2>2, <2>3
<1> QED BY <1>1, <1>2 DEF KnownInv

\* A step of t that leaves the accounts alone.
LEMMA KnownQuiet ==
  ASSUME TypeOK, RunInv, KnownInv, NEW t \in Tasks,
         \A u \in Tasks \ {t} : proc'[u] = proc[u] /\ mem'.task[u] = mem.task[u],
         mem'.acct = mem.acct, known' = known,
         KeepsLease(t, proc'[t], mem'.task[t], mem.acct),
         \A a \in Accounts : mem.acct[a].owner = t /\ Guarded(mem.acct[a], proc[t], mem.task[t])
                                => Guarded(mem.acct[a], proc'[t], mem'.task[t])
  PROVE  KnownInv'
<1>1. ASSUME NEW a \in known
      PROVE  /\ a \in Accounts
             /\ \/ a \in known /\ mem.acct[a].owner \in Tasks \ {t}
                \/ /\ mem'.acct[a].owner \in {t, None}
                   /\ Guarded(mem'.acct[a], proc'[t], mem'.task[t])
  <2>1. a \in Accounts /\ mem.acct[a].owner \in Tasks \union {None}
    BY Types DEF TypeOK, AccountRecord
  <2>2. CASE mem.acct[a].owner = None
    <3>1. ShutOut(mem.acct[a])
      BY <1>1, <2>2 DEF KnownInv, Guarded
    <3> QED BY <2>1, <2>2, <3>1 DEF Guarded
  <2>3. CASE mem.acct[a].owner = t
    BY <1>1, <2>1, <2>3, Known
  <2> QED BY <1>1, <2>1, <2>2, <2>3
<1> QED BY <1>1, KnownStep

LEMMA WriteTaskKnown ==
  ASSUME TypeOK, RunInv, KnownInv, NEW t \in Tasks, NEW r \in TaskRecord,
         NEW then \in ProcRecord, NEW caught \in ProcRecord,
         Mutate(t, SetTask(mem, t, r), then, caught), faults'.write = 0, UNCHANGED known,
         KeepsLease(t, then, r, mem.acct),
         \A a \in Accounts : mem.acct[a].owner = t /\ Guarded(mem.acct[a], proc[t], mem.task[t])
                                => Guarded(mem.acct[a], then, r)
  PROVE  KnownInv'
<1> DEFINE next == SetTask(mem, t, r)
<1>1. /\ next \in Store /\ next.acct = mem.acct /\ next.task[t] = r
      /\ \A u \in Tasks \ {t} : next.task[u] = mem.task[u]
  BY Types, SetTaskStore
<1> HIDE DEF next
<1>2. mem' = next /\ proc'[t] = then /\ \A u \in Tasks \ {t} : proc'[u] = proc[u]
  BY <1>1, MutateEffect DEF next
<1> QED BY <1>1, <1>2, KnownQuiet

\* A step of t that changes at most the account a, which t or nobody holds.
LEMMA WriteAccountKnown ==
  ASSUME TypeOK, RunInv, KnownInv, NEW t \in Tasks, NEW a \in Accounts, NEW next \in Store,
         next.task = mem.task, \A b \in Accounts \ {a} : next.acct[b] = mem.acct[b],
         mem.acct[a].owner \in Tasks \ {t} => next.acct[a] = mem.acct[a],
         mem'.acct = next.acct, mem'.task = next.task, known' = known,
         \A u \in Tasks \ {t} : proc'[u] = proc[u],
         KeepsLease(t, proc'[t], mem.task[t], next.acct),
         \A b \in Accounts \ {a} : mem.acct[b].owner # t,
         a \in known /\ mem.acct[a].owner \in {t, None} /\ Guarded(mem.acct[a], proc[t], mem.task[t])
            => next.acct[a].owner \in {t, None} /\ Guarded(next.acct[a], proc'[t], mem.task[t])
  PROVE  KnownInv'
<1>1. ASSUME NEW b \in known
      PROVE  /\ b \in Accounts
             /\ \/ b \in known /\ mem.acct[b].owner \in Tasks \ {t}
                \/ /\ mem'.acct[b].owner \in {t, None}
                   /\ Guarded(mem'.acct[b], proc'[t], mem'.task[t])
  <2>1. b \in Accounts /\ mem.acct[b].owner \in Tasks \union {None}
    BY Types DEF TypeOK, AccountRecord
  <2>2. mem.acct[b].owner = None => Guarded(mem.acct[b], proc[t], mem.task[t]) /\ ShutOut(mem.acct[b])
    BY <1>1 DEF KnownInv, Guarded
  <2>3. mem.acct[b].owner = t => Guarded(mem.acct[b], proc[t], mem.task[t])
    BY <1>1, Known
  <2>4. CASE b = a
    BY <1>1, <2>1, <2>2, <2>3, <2>4
  <2>5. CASE b # a
    <3>1. mem'.acct[b] = mem.acct[b] /\ mem.acct[b].owner # t
      BY <2>1, <2>5
    <3>2. mem.acct[b].owner = None => Guarded(mem.acct[b], proc'[t], mem'.task[t])
      BY <2>2 DEF Guarded
    <3> QED BY <1>1, <2>1, <3>1, <3>2
  <2> QED BY <2>4, <2>5
<1>2. \A b \in Accounts : mem.acct[b].owner \in Tasks \ {t} => mem'.acct[b] = mem.acct[b]
  OBVIOUS
<1> QED BY <1>1, <1>2, KnownStep

LEMMA GoOnKnown ==
  ASSUME TypeOK, RunInv, KnownInv, NEW t \in Tasks, NEW r \in ProcRecord, Goto(t, r),
         UNCHANGED <<mem, known>>,
         proc[t].pc \notin {"accept", "note", "release", "fail"},
         r.pc \notin {"accept", "note", "requeue"},
         mem.task[t].quota /\ r.pc = "release" => r.out \in {"quota", "needs_login"}
  PROVE  KnownInv'
<1>1. proc'[t] = r /\ \A u \in Tasks \ {t} : proc'[u] = proc[u]
  BY Types DEF Goto
<1>2. KeepsLease(t, r, mem.task[t], mem.acct)
  BY Known DEF KeepsLease
<1>3. \A a \in Accounts : Guarded(mem.acct[a], proc[t], mem.task[t]) => Guarded(mem.acct[a], r, mem.task[t])
  BY DEF Guarded, Carries
<1> QED BY <1>1, <1>2, <1>3, KnownQuiet

LEMMA StatusKnown ==
  ASSUME TypeOK, RunInv, CleanInv, NEW t \in Tasks
  PROVE  /\ mem.task[t] \in TaskRecord /\ proc[t] \in ProcRecord
         /\ proc[t].pc # "idle" => mem.task[t].status = StatusAt(proc[t])
         /\ JobOK(proc[t])
         /\ KnownInv => KeepsLease(t, proc[t], mem.task[t], mem.acct)
         /\ \A a \in Accounts : mem.acct[a].owner = t => MayHold(proc[t], mem.task[t], a)
BY Types, Clean, Known, RunEnds DEF CleanTask, TaskRun

LEMMA SubmitGoKnown ==
  ASSUME TypeOK, RunInv, CleanInv, KnownInv, NEW t \in Tasks, Send(t) \/ Pump(t)
  PROVE  KnownInv'
<1>1. CASE Send(t)
  <2>1. PICK r \in {Next_(t, "reply"), Releasing(t, "needs_login"), Releasing(t, "cooldown")} : Goto(t, r)
    BY <1>1 DEF Send
  <2>2. r \in ProcRecord /\ r.pc \in {"reply", "release"}
    BY <2>1, NextRecords DEF Outcome
  <2>3. proc[t].pc = "send" /\ proc[t].job = "submit"
    BY <1>1, StatusKnown DEF Send, At, JobOK, SubmitPcs
  <2>4. ~mem.task[t].quota
    BY <2>3, StatusKnown DEF StatusAt, KeepsLease, TaskRecord
  <2> QED BY <1>1, <2>1, <2>2, <2>3, <2>4, GoOnKnown DEF Send
<1>2. CASE Pump(t)
  <2> DEFINE r == [Idle EXCEPT !.pc  = IF mem.task[t].status = "queued" THEN "claim" ELSE "age",
                               !.acct = mem.task[t].acct]
  <2>1. r \in ProcRecord /\ r.pc \in {"claim", "age"}
    BY Types DEF Idle, ProcRecord, TaskRecord
  <2>2. Goto(t, r) /\ proc[t].pc = "idle"
    BY <1>2 DEF Pump, At
  <2> HIDE DEF r
  <2> QED BY <1>2, <2>1, <2>2, GoOnKnown DEF Pump, ghosts
<1> QED BY <1>1, <1>2

LEMMA BrowserKnown ==
  ASSUME TypeOK, RunInv, CleanInv, KnownInv, NEW t \in Tasks, EnsureRuntime(t) \/ Connect(t)
  PROVE  KnownInv'
<1>1. /\ proc[t].pc \in {"ensure", "connecting"} /\ proc[t].job \in {"submit", "query"}
  BY StatusKnown DEF EnsureRuntime, Connect, At, JobOK
<1>2. PICK r \in {Driving(t), OnBrowserError(t), OnTransient(t), Next_(t, "connecting")} : Goto(t, r)
  BY DEF EnsureRuntime, Connect, Goto
<1>3. proc[t].job = "submit" => ~mem.task[t].quota
  BY <1>1, StatusKnown DEF StatusAt, KeepsLease, TaskRecord
<1>4. /\ r \in ProcRecord
      /\ r.pc \in {"send", "query", "renew_retry", "release", "connecting"}
      /\ mem.task[t].quota /\ r.pc = "release" => r.out = "quota"
  BY <1>1, <1>2, <1>3, NextRecords DEF Driving, OnBrowserError, OnTransient, Outcome, ErrorOutcome
<1>5. UNCHANGED <<mem, known>>
  BY DEF EnsureRuntime, Connect, ghosts
<1> QED BY <1>1, <1>2, <1>4, <1>5, GoOnKnown

LEMMA PollKnown ==
  ASSUME TypeOK, RunInv, CleanInv, KnownInv, NEW t \in Tasks,
         CheckAge(t) \/ QueryChain(t) \/ TestReady(t) \/ Download(t)
  PROVE  KnownInv'
<1>1. proc[t].pc \in {"age", "query", "ready", "download"} /\ UNCHANGED <<mem, known>>
  BY DEF CheckAge, QueryChain, TestReady, Download, At, ghosts
<1>2. ASSUME NEW r \in ProcRecord, Goto(t, r),
             r.pc \in {"existing", "repoll", "ready", "renew_retry", "downloading", "succeed", "release"},
             r.pc = "release" => r.out \in {"needs_login", ErrorOutcome(t)}
      PROVE  KnownInv'
  BY <1>1, <1>2, GoOnKnown DEF ErrorOutcome
<1>3. CASE CheckAge(t)
  <2>1. PICK r \in {[Releasing(t, ErrorOutcome(t)) EXCEPT !.job = "query"],
                    [Next_(t, "existing") EXCEPT !.job = "query"]} : Goto(t, r)
    BY <1>3 DEF CheckAge
  <2>2. /\ r \in ProcRecord /\ r.pc \in {"release", "existing"}
        /\ r.pc = "release" => r.out = ErrorOutcome(t)
    BY <2>1, NextRecords DEF ProcRecord, Outcome
  <2> QED BY <1>2, <2>1, <2>2
<1>4. CASE QueryChain(t) \/ TestReady(t) \/ Download(t)
  <2>1. PICK r : /\ r \in {Next_(t, pc) : pc \in {"repoll", "ready", "renew_retry", "downloading", "succeed"}}
                          \union {Releasing(t, out) : out \in {"needs_login", ErrorOutcome(t)}}
                 /\ Goto(t, r)
    BY <1>4 DEF QueryChain, TestReady, Download
  <2>2. /\ r \in ProcRecord
        /\ r.pc \in {"repoll", "ready", "renew_retry", "downloading", "succeed", "release"}
        /\ r.pc = "release" => r.out \in {"needs_login", ErrorOutcome(t)}
    BY <2>1, NextRecords DEF Outcome
  <2> QED BY <1>2, <2>1, <2>2
<1> QED BY <1>3, <1>4

LEMMA ReplyKnown ==
  ASSUME TypeOK, RunInv, LeaseInv, CleanInv, KnownInv, NEW t \in Tasks, Reply(t) PROVE KnownInv'
<1> DEFINE a == proc[t].acct
<1>1. /\ proc[t].pc = "reply" /\ proc[t].job = "submit" /\ a \in Accounts
      /\ UNCHANGED mem
  BY StatusKnown DEF Reply, At, JobOK, SubmitPcs
<1>2. mem.task[t].status = "submitting" /\ ~mem.task[t].quota
  BY <1>1, StatusKnown DEF StatusAt, KeepsLease, TaskRecord
<1>3. mem.acct[a].owner = t /\ \A b \in Accounts \ {a} : mem.acct[b].owner # t
  BY <1>1, StatusKnown DEF LeaseInv, OnPage, UsesPage, HoldsLive, MayHold
<1>4. a \notin known
  BY <1>1, <1>2, <1>3, Known, ConstantsOK DEF Guarded, Carries
<1>5. ASSUME NEW r \in ProcRecord, Goto(t, r), r.acct = a, r.pc \in {"accept", "release"},
             \/ known' = known
             \/ known' = known \union {a} /\ r.out = "quota"
      PROVE  KnownInv'
  <2>1. proc'[t] = r /\ \A u \in Tasks \ {t} : proc'[u] = proc[u]
    BY <1>5, Types DEF Goto
  <2>2. KeepsLease(t, r, mem.task[t], mem.acct)
    BY <1>2, <1>3, <1>5 DEF KeepsLease
  <2>3. ASSUME NEW b \in known'
        PROVE  /\ b \in Accounts
               /\ \/ b \in known /\ mem.acct[b].owner \in Tasks \ {t}
                  \/ /\ mem'.acct[b].owner \in {t, None}
                     /\ Guarded(mem'.acct[b], proc'[t], mem'.task[t])
    <3>1. b \in known => b \in Accounts
      BY DEF TypeOK
    <3>2. CASE b \in known
      <4>1. b # a /\ b \in Accounts /\ mem.acct[b].owner \in (Tasks \ {t}) \union {None}
        BY <1>3, <1>4, <3>1, <3>2, Types DEF AccountRecord
      <4>2. mem.acct[b].owner = None => ShutOut(mem.acct[b])
        BY <3>2 DEF KnownInv, Guarded
      <4> QED BY <1>1, <3>2, <4>1, <4>2 DEF Guarded
    <3>3. CASE b \notin known
      <4>1. b = a /\ r.out = "quota"
        BY <1>5, <2>3, <3>3
      <4> QED BY <1>1, <1>3, <1>5, <2>1, <4>1, ConstantsOK DEF Guarded, Carries
    <3> QED BY <3>2, <3>3
  <2> QED BY <1>1, <2>1, <2>2, <2>3, KnownStep
<1>6. ASSUME NEW out \in {"quota", "none"}, Goto(t, [Next_(t, "accept") EXCEPT !.out = out]),
             known' = known \/ (known' = known \union {a} /\ out = "quota")
      PROVE  KnownInv'
  <2> DEFINE r == [Next_(t, "accept") EXCEPT !.out = out]
  <2>1. r \in ProcRecord /\ r.out = out /\ r.acct = a /\ r.pc = "accept"
    BY NextRecords DEF ProcRecord
  <2> HIDE DEF r
  <2> QED BY <1>5, <1>6, <2>1 DEF r
<1>7. ASSUME NEW out \in Outcome, Goto(t, Releasing(t, out)),
             known' = known \/ (known' = known \union {a} /\ out = "quota")
      PROVE  KnownInv'
  BY <1>5, <1>7, NextRecords
<1> QED BY <1>6, <1>7 DEF Reply, Outcome

LEMMA TaskWriteKnown ==
  ASSUME TypeOK, RunInv, CleanInv, KnownInv, NEW t \in Tasks, faults'.write = 0,
         \/ WaitAccount(t) \/ Requeue(t) \/ FailTask(t) \/ Mark(t) \/ Accepted(t)
  PROVE  KnownInv'
<1>1. UNCHANGED known /\ Idle \in ProcRecord /\ Idle.pc = "idle"
  BY NextRecords DEF WaitAccount, Requeue, FailTask, Mark, Accepted, ghosts, Idle
<1>2. CASE WaitAccount(t) \/ Requeue(t) \/ FailTask(t)
  <2>1. /\ proc[t].pc \in {"wait_account", "requeue", "fail"}
        /\ \A a \in Accounts : mem.acct[a].owner # t
    BY <1>2, StatusKnown DEF WaitAccount, Requeue, FailTask, At, MayHold
  <2>2. PICK r \in TaskRecord : /\ Mutate(t, SetTask(mem, t, r), Idle, Idle)
                               /\ r.status \in {"queued", "failed"} /\ ~r.quota
    <3>1. CASE WaitAccount(t)
      <4>1. mem.task[t].status = "queued" /\ ~mem.task[t].quota
        BY <3>1, StatusKnown DEF WaitAccount, At, StatusAt, KeepsLease, TaskRecord
      <4>2. LET r == [mem.task[t] EXCEPT !.due = FALSE] IN r \in TaskRecord /\ r.status = "queued" /\ ~r.quota
        BY <4>1, StatusKnown DEF TaskRecord
      <4> QED BY <3>1, <4>2 DEF WaitAccount
    <3>2. CASE Requeue(t)
      <4>1. mem.task[t].status = "submitting" /\ ~mem.task[t].quota
        BY <3>2, StatusKnown DEF Requeue, At, StatusAt, KeepsLease, TaskRecord
      <4>2. LET r == [mem.task[t] EXCEPT !.status = "queued", !.acct = None, !.due = TRUE]
            IN  r \in TaskRecord /\ r.status = "queued" /\ ~r.quota
        BY <4>1, StatusKnown DEF TaskRecord, Statuses
      <4> QED BY <3>2, <4>2 DEF Requeue
    <3>3. CASE FailTask(t)
      <4>1. LET r == Finished("failed") IN r \in TaskRecord /\ r.status = "failed" /\ ~r.quota
        BY DEF Finished, NoTask, TaskRecord, Statuses
      <4> QED BY <3>3, <4>1 DEF FailTask
    <3> QED BY <1>2, <3>1, <3>2, <3>3
  <2>3. KeepsLease(t, Idle, r, mem.acct)
    BY <1>1, <2>2 DEF KeepsLease
  <2> QED BY <1>1, <2>1, <2>2, <2>3, WriteTaskKnown
<1>3. CASE Mark(t)
  <2> DEFINE r == [mem.task[t] EXCEPT !.status = "submitting", !.acct = proc[t].acct,
                                      !.tried = @ \union {proc[t].acct}, !.due = TRUE]
             p == [Next_(t, "ensure") EXCEPT !.job = "submit"]
  <2>1. proc[t].pc = "mark" /\ proc[t].acct \in Accounts
    BY <1>3, StatusKnown DEF Mark, At, JobOK
  <2>2. mem.task[t].status = "queued" /\ ~mem.task[t].quota
    BY <2>1, StatusKnown DEF StatusAt, KeepsLease, TaskRecord
  <2>3. r \in TaskRecord /\ r.status = "submitting" /\ ~r.quota
    BY <2>1, <2>2, Types DEF TaskRecord, Statuses
  <2>4. p \in ProcRecord /\ p.pc = "ensure"
    BY NextRecords DEF ProcRecord
  <2>5. Mutate(t, SetTask(mem, t, r), p, Idle)
    BY <1>3 DEF Mark
  <2> HIDE DEF r, p
  <2>6. KeepsLease(t, p, r, mem.acct)
    BY <2>3, <2>4 DEF KeepsLease
  <2>7. \A a \in Accounts : mem.acct[a].owner = t => ~Guarded(mem.acct[a], proc[t], mem.task[t])
    BY <2>1, <2>2, ConstantsOK DEF Guarded, Carries
  <2> QED BY <1>1, <2>3, <2>4, <2>5, <2>6, <2>7, WriteTaskKnown
<1>4. CASE Accepted(t)
  <2> DEFINE q == proc[t].out = "quota"
             r == [mem.task[t] EXCEPT !.status = "processing", !.quota = q, !.due = TRUE]
             p == IF q THEN Next_(t, "note") ELSE Idle
  <2>1. proc[t].pc = "accept" /\ proc[t].job = "submit" /\ mem.task[t].acct = proc[t].acct
    BY <1>4, StatusKnown, Clean DEF Accepted, At, JobOK, SubmitPcs, CleanTask, WorkPcs
  <2>2. mem.task[t].status = "submitting" /\ ~mem.task[t].quota
    BY <2>1, StatusKnown DEF StatusAt, KeepsLease, TaskRecord
  <2>3. mem.acct[proc[t].acct].owner = t
    BY <2>1, StatusKnown DEF KeepsLease
  <2>4. r \in TaskRecord /\ r.status = "processing" /\ r.acct = proc[t].acct /\ r.quota = q
    BY <2>1, Types DEF TaskRecord, Statuses
  <2>5. /\ p \in ProcRecord
        /\ q => p.pc = "note" /\ p.acct = proc[t].acct /\ p.out = "quota"
        /\ ~q => p.pc = "idle"
    BY <1>1, NextRecords
  <2>6. Mutate(t, SetTask(mem, t, r), p, Releasing(t, "cooldown"))
    BY <1>4 DEF Accepted
  <2> HIDE DEF r, p
  <2>7. KeepsLease(t, p, r, mem.acct)
    BY <2>3, <2>4, <2>5 DEF KeepsLease
  <2>8. \A a \in Accounts : mem.acct[a].owner = t /\ Guarded(mem.acct[a], proc[t], mem.task[t]) => Guarded(mem.acct[a], p, r)
    BY <2>1, <2>2, <2>5, ConstantsOK DEF Guarded, Carries
  <2>9. Releasing(t, "cooldown") \in ProcRecord
    BY NextRecords DEF Outcome
  <2> QED BY <1>1, <2>4, <2>5, <2>6, <2>7, <2>8, <2>9, WriteTaskKnown
<1> QED BY <1>2, <1>3, <1>4

LEMMA PollWriteKnown ==
  ASSUME TypeOK, RunInv, CleanInv, KnownInv, NEW t \in Tasks, faults'.write = 0,
         Repoll(t) \/ MarkDownloading(t) \/ Succeed(t)
  PROVE  KnownInv'
<1>1. /\ Releasing(t, ErrorOutcome(t)) \in ProcRecord /\ Idle \in ProcRecord /\ Idle.pc = "idle"
      /\ UNCHANGED known
  BY NextRecords DEF Outcome, Idle, Repoll, MarkDownloading, Succeed, ghosts
<1>2. proc[t].pc \in {"repoll", "repoll_retry", "downloading", "succeed"} /\ proc[t].job = "query"
  BY StatusKnown DEF Repoll, MarkDownloading, Succeed, At, JobOK, QueryPcs
<1>3. /\ mem.task[t] \in TaskRecord /\ mem.task[t].status = "processing"
      /\ KeepsLease(t, proc[t], mem.task[t], mem.acct)
  BY <1>2, StatusKnown DEF StatusAt
<1>4. ASSUME NEW r \in TaskRecord, NEW p \in ProcRecord,
             Mutate(t, SetTask(mem, t, r), p, Idle) \/ Mutate(t, SetTask(mem, t, r), p, Releasing(t, ErrorOutcome(t))),
             r.quota = mem.task[t].quota,
             r.status = "succeeded" \/ (r.status = "processing" /\ r.acct = mem.task[t].acct),
             p.pc \in {"idle", "download", "done_release"}
      PROVE  KnownInv'
  <2>1. KeepsLease(t, p, r, mem.acct)
    BY <1>2, <1>3, <1>4 DEF KeepsLease
  <2>2. \A a \in Accounts : Guarded(mem.acct[a], proc[t], mem.task[t]) => Guarded(mem.acct[a], p, r)
    BY <1>2, <1>4 DEF Guarded, Carries
  <2> QED BY <1>1, <1>4, <2>1, <2>2, WriteTaskKnown
<1>5. CASE Repoll(t)
  <2> DEFINE r == [mem.task[t] EXCEPT !.due = FALSE]
  <2>1. r \in TaskRecord /\ r.quota = mem.task[t].quota /\ r.status = "processing" /\ r.acct = mem.task[t].acct
    BY <1>3 DEF TaskRecord
  <2>2. \/ Mutate(t, SetTask(mem, t, r), Idle, Idle)
        \/ Mutate(t, SetTask(mem, t, r), Idle, Releasing(t, ErrorOutcome(t)))
    BY <1>5 DEF Repoll, RepollFails
  <2> HIDE DEF r
  <2> QED BY <1>1, <1>4, <2>1, <2>2
<1>6. CASE MarkDownloading(t)
  <2> DEFINE r == [mem.task[t] EXCEPT !.due = TRUE]
             p == Next_(t, "download")
  <2>1. r \in TaskRecord /\ r.quota = mem.task[t].quota /\ r.status = "processing" /\ r.acct = mem.task[t].acct
    BY <1>3 DEF TaskRecord
  <2>2. Mutate(t, SetTask(mem, t, r), p, Releasing(t, ErrorOutcome(t)))
    BY <1>6 DEF MarkDownloading
  <2>3. p \in ProcRecord /\ p.pc = "download"
    BY NextRecords
  <2> HIDE DEF r, p
  <2> QED BY <1>4, <2>1, <2>2, <2>3
<1>7. CASE Succeed(t)
  <2> DEFINE r == [Finished("succeeded") EXCEPT !.quota = mem.task[t].quota]
             p == Next_(t, "done_release")
  <2>1. r \in TaskRecord /\ r.quota = mem.task[t].quota /\ r.status = "succeeded"
    BY <1>3 DEF TaskRecord, Finished, NoTask, Statuses
  <2>2. Mutate(t, SetTask(mem, t, r), p, Releasing(t, ErrorOutcome(t)))
    BY <1>7 DEF Succeed
  <2>3. p \in ProcRecord /\ p.pc = "done_release"
    BY NextRecords
  <2> HIDE DEF r, p
  <2> QED BY <1>4, <2>1, <2>2, <2>3
<1> QED BY <1>5, <1>6, <1>7

LEMMA ClaimKnown ==
  ASSUME TypeOK, RunInv, CleanInv, KnownInv, NEW t \in Tasks, faults'.write = 0, Claim(t)
  PROVE  /\ KnownInv'
         /\ proc'[t].pc = "mark" => proc'[t].acct \notin known
<1>1. proc[t].pc = "claim" /\ known' = known
  BY DEF Claim, At, ghosts
<1>2. /\ mem.task[t].status = "queued" /\ ~mem.task[t].quota
      /\ \A a \in Accounts : mem.acct[a].owner # t
  BY <1>1, StatusKnown DEF StatusAt, MayHold, KeepsLease, TaskRecord
<1>3. CASE Mutate(t, mem, Next_(t, "wait_account"), Idle)
  <2>1. /\ mem' = mem /\ proc'[t] = Next_(t, "wait_account")
        /\ \A u \in Tasks \ {t} : proc'[u] = proc[u]
    <3>1. mem \in Store /\ Idle \in ProcRecord /\ Next_(t, "wait_account") \in ProcRecord
      BY Types, NextRecords
    <3> QED BY <1>3, <3>1, MutateEffect
  <2>2. proc'[t].pc = "wait_account"
    BY <2>1, NextRecords
  <2>3. KeepsLease(t, proc'[t], mem.task[t], mem.acct)
    BY <1>2, <2>2 DEF KeepsLease
  <2> QED BY <1>1, <1>2, <2>1, <2>2, <2>3, KnownQuiet
<1>4. ASSUME NEW a \in Accounts, Claimable(mem.acct[a], a \in mem.task[t].tried),
             Mutate(t, SetAcct(mem, a, Claimed(mem.acct[a], t)), [Next_(t, "mark") EXCEPT !.acct = a], Idle)
      PROVE  KnownInv' /\ proc'[t].acct = a /\ a \notin known
  <2> DEFINE r == Claimed(mem.acct[a], t)
             next == SetAcct(mem, a, r)
             p == [Next_(t, "mark") EXCEPT !.acct = a]
  <2>1. r \in AccountRecord
    BY Types, AccountRecords
  <2>2. p \in ProcRecord /\ p.pc = "mark" /\ p.acct = a
    BY NextRecords DEF ProcRecord
  <2>3. Mutate(t, next, p, Idle)
    BY <1>4
  <2> HIDE DEF r, p
  <2>4. /\ next \in Store /\ next.task = mem.task
        /\ \A b \in Accounts \ {a} : next.acct[b] = mem.acct[b]
    BY <2>1, Types, SetAcctStore
  <2> HIDE DEF next
  <2>5. /\ mem' = next /\ proc'[t] = p /\ \A u \in Tasks \ {t} : proc'[u] = proc[u]
    BY <2>2, <2>3, <2>4, NextRecords, MutateEffect
  <2>6. mem.acct[a].owner = None /\ ~ShutOut(mem.acct[a])
    BY <1>4 DEF Claimable, ShutOut, QuotaHasReset
  <2>7. a \notin known
    BY <2>6 DEF KnownInv, Guarded
  <2>8. KeepsLease(t, p, mem.task[t], next.acct)
    BY <1>2, <2>2 DEF KeepsLease
  <2>9. KnownInv'
    BY <1>1, <1>2, <2>4, <2>5, <2>6, <2>7, <2>8, ConstantsOK, WriteAccountKnown
  <2> QED BY <2>2, <2>5, <2>7, <2>9
<1>5. CASE ~Mutate(t, mem, Next_(t, "wait_account"), Idle)
  BY <1>4, <1>5 DEF Claim
<1>6. Mutate(t, mem, Next_(t, "wait_account"), Idle) => proc'[t].pc # "mark"
  <2>1. mem \in Store /\ Idle \in ProcRecord /\ Next_(t, "wait_account") \in ProcRecord
    BY Types, NextRecords
  <2> QED BY <2>1, MutateEffect, NextRecords
<1> QED BY <1>3, <1>5, <1>6

LEMMA ClaimExistingKnown ==
  ASSUME TypeOK, RunInv, CleanInv, KnownInv, NEW t \in Tasks, faults'.write = 0, ClaimExisting(t)
  PROVE  KnownInv'
<1> DEFINE a == proc[t].acct
<1>1. proc[t].pc = "existing" /\ proc[t].job = "query" /\ a \in Accounts /\ known' = known
  BY StatusKnown DEF ClaimExisting, At, JobOK, QueryPcs, ghosts
<1>2. /\ mem.task[t].status = "processing" /\ mem.task[t].acct = a
      /\ KeepsLease(t, proc[t], mem.task[t], mem.acct) /\ mem.acct[a].owner = t
  BY <1>1, StatusKnown, Clean DEF StatusAt, KeepsLease, CleanTask, WorkPcs, QueryPcs
<1>3. \A b \in Accounts \ {a} : mem.acct[b].owner # t
  BY <1>1, StatusKnown DEF MayHold
<1>4. CASE Mutate(t, mem, Idle, Idle)
  <2>1. /\ mem' = mem /\ proc'[t] = Idle /\ \A u \in Tasks \ {t} : proc'[u] = proc[u]
    BY <1>4, Types, NextRecords, MutateEffect
  <2>2. KeepsLease(t, Idle, mem.task[t], mem.acct)
    BY <1>2 DEF KeepsLease, Idle
  <2>3. \A b \in Accounts : Guarded(mem.acct[b], proc[t], mem.task[t]) => Guarded(mem.acct[b], Idle, mem.task[t])
    BY <1>1 DEF Guarded, Carries, Idle
  <2> QED BY <1>1, <2>1, <2>2, <2>3, KnownQuiet
<1>5. CASE /\ ClaimableAgain(mem.acct[a], t)
           /\ Mutate(t, SetAcct(mem, a, ClaimedAgain(mem.acct[a], t)), Next_(t, "ensure"), Idle)
  <2> DEFINE r == ClaimedAgain(mem.acct[a], t)
             next == SetAcct(mem, a, r)
             p == Next_(t, "ensure")
  <2>1. r \in AccountRecord /\ r.owner = t /\ (ShutOut(mem.acct[a]) => ShutOut(r))
    <3>1. mem.acct[a] \in AccountRecord /\ r \in AccountRecord
      BY <1>1, Types, AccountRecords
    <3> QED BY <1>5, <3>1 DEF AccountRecord, ClaimedAgain, ClearExpiredQuota, ClaimableAgain, ShutOut, QuotaHasReset
  <2>2. p \in ProcRecord /\ p.pc = "ensure"
    BY NextRecords
  <2>3. Mutate(t, next, p, Idle)
    BY <1>5
  <2> HIDE DEF r, p
  <2>4. /\ next \in Store /\ next.task = mem.task /\ next.acct[a] = r
        /\ \A b \in Accounts \ {a} : next.acct[b] = mem.acct[b]
    <3>1. mem \in Store /\ r \in AccountRecord
      BY <2>1, Types
    <3> QED BY <1>1, <3>1, SetAcctStore
  <2> HIDE DEF next
  <2>5. /\ mem' = next /\ proc'[t] = p /\ \A u \in Tasks \ {t} : proc'[u] = proc[u]
    BY <2>2, <2>3, <2>4, NextRecords, MutateEffect
  <2>6. KeepsLease(t, p, mem.task[t], next.acct)
    BY <1>2, <2>1, <2>2, <2>4 DEF KeepsLease
  <2>7. Guarded(mem.acct[a], proc[t], mem.task[t]) => Guarded(r, p, mem.task[t])
    BY <1>1, <1>2, <2>1, <2>2, ConstantsOK DEF Guarded, Carries
  <2> QED BY <1>1, <1>2, <1>3, <2>1, <2>4, <2>5, <2>6, <2>7, WriteAccountKnown
<1> QED BY <1>4, <1>5 DEF ClaimExisting

\* What IfHolder does to the account of t.
LEMMA IfHolderKnown ==
  ASSUME TypeOK, NEW t \in Tasks, NEW a \in Accounts, NEW r \in AccountRecord
  PROVE  LET next == IfHolder(mem, t, a, r)
         IN  /\ next \in Store /\ next.task = mem.task
             /\ \A b \in Accounts \ {a} : next.acct[b] = mem.acct[b]
             /\ mem.acct[a].owner = t => next.acct[a] = r
             /\ mem.acct[a].owner # t => next.acct[a] = mem.acct[a]
<1>1. mem \in Store
  BY Types
<1>2. /\ SetAcct(mem, a, r).acct[a] = r
      /\ \A b \in Accounts \ {a} : SetAcct(mem, a, r).acct[b] = mem.acct[b]
  BY <1>1, SetAcctStore
<1>3. IfHolder(mem, t, a, r) \in Store /\ IfHolder(mem, t, a, r).task = mem.task
  BY IfHolderStore
<1> QED BY <1>2, <1>3, ConstantsOK DEF IfHolder

\* t changes its account if it holds it.
LEMMA HolderKnown ==
  ASSUME TypeOK, RunInv, CleanInv, KnownInv, NEW t \in Tasks, NEW a \in Accounts,
         NEW r \in AccountRecord, NEW next \in Store, next = IfHolder(mem, t, a, r),
         mem'.acct = next.acct, mem'.task = next.task, known' = known,
         \A u \in Tasks \ {t} : proc'[u] = proc[u],
         proc[t].pc # "idle", proc[t].acct = a,
         KeepsLease(t, proc'[t], mem.task[t], next.acct),
         r.owner \in {t, None},
         mem.acct[a].owner = t /\ Guarded(mem.acct[a], proc[t], mem.task[t]) => Guarded(r, proc'[t], mem.task[t])
  PROVE  KnownInv'
<1>1. /\ next.task = mem.task /\ \A b \in Accounts \ {a} : next.acct[b] = mem.acct[b]
      /\ mem.acct[a].owner = t => next.acct[a] = r
      /\ mem.acct[a].owner # t => next.acct[a] = mem.acct[a]
  BY IfHolderKnown
<1>2. \A b \in Accounts \ {a} : mem.acct[b].owner # t
  BY StatusKnown DEF MayHold
<1>3. mem.acct[a].owner = None /\ Guarded(mem.acct[a], proc[t], mem.task[t])
        => Guarded(mem.acct[a], proc'[t], mem.task[t])
  BY DEF Guarded
<1>4. a \in known /\ mem.acct[a].owner \in {t, None} /\ Guarded(mem.acct[a], proc[t], mem.task[t])
        => next.acct[a].owner \in {t, None} /\ Guarded(next.acct[a], proc'[t], mem.task[t])
  BY <1>1, <1>3, ConstantsOK
<1> QED BY <1>1, <1>2, <1>4, ConstantsOK, WriteAccountKnown

LEMMA NoteQuotaKnown ==
  ASSUME TypeOK, RunInv, CleanInv, KnownInv, NEW t \in Tasks, faults'.write = 0, NoteQuota(t)
  PROVE  KnownInv'
<1> DEFINE a == proc[t].acct
           r == Exhausted(mem.acct[a])
           next == IfHolder(mem, t, a, r)
<1>1. proc[t].pc = "note" /\ a \in Accounts /\ known' = known
  BY StatusKnown DEF NoteQuota, At, JobOK, SubmitPcs, ghosts
<1>2. r \in AccountRecord /\ r.owner = mem.acct[a].owner /\ ShutOut(r)
  <2>1. mem.acct[a] \in AccountRecord /\ r \in AccountRecord
    BY <1>1, Types, AccountRecords
  <2> QED BY <2>1 DEF AccountRecord, Exhausted, ShutOut
<1>3. Mutate(t, next, Idle, Releasing(t, "cooldown"))
  BY DEF NoteQuota
<1> HIDE DEF r
<1>4. /\ next \in Store /\ next.acct[a].owner = mem.acct[a].owner
      /\ mem.acct[a].owner = t => next.acct[a] = r
  BY <1>1, <1>2, IfHolderKnown
<1>5. mem.acct[a].owner = t /\ mem.task[t].acct = a /\ mem.task[t].quota
  BY <1>1, StatusKnown, Clean DEF KeepsLease, CleanTask, WorkPcs
<1> HIDE DEF next
<1>6. mem' = next /\ proc'[t] = Idle /\ \A u \in Tasks \ {t} : proc'[u] = proc[u]
  BY <1>3, <1>4, NextRecords, MutateEffect DEF Outcome
<1>7. KeepsLease(t, Idle, mem.task[t], next.acct)
  BY <1>1, <1>4, <1>5, StatusKnown DEF KeepsLease, Idle
<1>8. Guarded(r, Idle, mem.task[t])
  BY <1>2, <1>5 DEF Guarded, Idle
<1> QED BY <1>1, <1>2, <1>4, <1>5, <1>6, <1>7, <1>8, HolderKnown DEF next

LEMMA RenewForRetryKnown ==
  ASSUME TypeOK, RunInv, CleanInv, KnownInv, NEW t \in Tasks, faults'.write = 0, RenewForRetry(t)
  PROVE  KnownInv'
<1> DEFINE a == proc[t].acct
           r == [mem.acct[a] EXCEPT !.live = TRUE]
           next == IfHolder(mem, t, a, r)
           p == Next_(t, "repoll_retry")
<1>1. proc[t].pc = "renew_retry" /\ proc[t].job = "query" /\ a \in Accounts /\ known' = known
  BY StatusKnown DEF RenewForRetry, At, JobOK, QueryPcs, ghosts
<1>2. r \in AccountRecord /\ r.owner = mem.acct[a].owner /\ (ShutOut(mem.acct[a]) => ShutOut(r))
  <2>1. mem.acct[a] \in AccountRecord
    BY <1>1, Types
  <2> QED BY <2>1 DEF AccountRecord, ShutOut
<1>3. Mutate(t, next, p, Idle)
  BY DEF RenewForRetry, Renew
<1> HIDE DEF r
<1>4. next \in Store /\ next.acct[a].owner = mem.acct[a].owner
  BY <1>1, <1>2, IfHolderKnown
<1>5. mem.task[t].status = "processing" /\ mem.acct[a].owner = t /\ mem.task[t].acct = a
  BY <1>1, StatusKnown, Clean DEF KeepsLease, CleanTask, WorkPcs, QueryPcs, StatusAt
<1>6. p \in ProcRecord /\ p.pc = "repoll_retry"
  BY NextRecords
<1> HIDE DEF next, p
<1>7. mem' = next /\ proc'[t] = p /\ \A u \in Tasks \ {t} : proc'[u] = proc[u]
  BY <1>3, <1>4, <1>6, NextRecords, MutateEffect
<1>8. KeepsLease(t, p, mem.task[t], next.acct)
  BY <1>4, <1>5, <1>6, StatusKnown DEF KeepsLease
<1>9. Guarded(mem.acct[a], proc[t], mem.task[t]) => Guarded(r, p, mem.task[t])
  BY <1>1, <1>2, <1>5, <1>6, ConstantsOK DEF Guarded, Carries
<1> QED BY <1>1, <1>2, <1>4, <1>5, <1>7, <1>8, <1>9, HolderKnown DEF next

LEMMA ReleasedRecords ==
  ASSUME NEW r \in AccountRecord, NEW out \in Outcome
  PROVE  /\ Released(r, out) \in AccountRecord /\ Released(r, out).owner = None
         /\ out \in {"quota", "needs_login"} => ShutOut(Released(r, out))
BY DEF AccountRecord, Released, Exhausted, ShutOut, Outcome

LEMMA ReleaseAccountKnown ==
  ASSUME TypeOK, RunInv, CleanInv, KnownInv, NEW t \in Tasks, faults'.write = 0, ReleaseAccount(t)
  PROVE  KnownInv'
<1> DEFINE a == proc[t].acct
           r == Released(mem.acct[a], proc[t].out)
           next == IfHolder(mem, t, a, r)
<1>1. /\ proc[t].pc = "release" /\ proc[t].job \in {"submit", "query"} /\ a \in Accounts
      /\ proc[t].out \in Outcome /\ known' = known
  BY StatusKnown DEF ReleaseAccount, At, JobOK, ghosts, ProcRecord, Outcome
<1>2. /\ r \in AccountRecord /\ r.owner = None
      /\ proc[t].out \in {"quota", "needs_login"} => ShutOut(r)
  BY <1>1, Types, ReleasedRecords
<1>3. PICK p \in {Next_(t, "requeue"), Next_(t, "fail")} :
         Mutate(t, next, p, Idle) /\ (p = Next_(t, "requeue") => proc[t].job = "submit")
  <2>1. Release(mem, t, a, proc[t].out) = next
    BY <1>1, ConstantsOK DEF Release
  <2>2. Next_(t, "requeue") # Next_(t, "fail")
    BY NextRecords
  <2> HIDE DEF next
  <2> QED BY <2>1, <2>2 DEF ReleaseAccount
<1>4. /\ p \in ProcRecord /\ p.pc \in {"requeue", "fail"} /\ p.job = proc[t].job
      /\ p.pc = "requeue" => proc[t].job = "submit"
  BY <1>3, NextRecords
<1> HIDE DEF r
<1>5. next \in Store
  BY <1>1, <1>2, IfHolderKnown
<1> HIDE DEF next
<1>6. mem' = next /\ proc'[t] = p /\ \A u \in Tasks \ {t} : proc'[u] = proc[u]
  BY <1>3, <1>4, <1>5, NextRecords, MutateEffect
<1>7. proc[t].job = "submit" => mem.task[t].status = "submitting"
  BY <1>1, StatusKnown DEF StatusAt
<1>8. KeepsLease(t, p, mem.task[t], next.acct)
  BY <1>1, <1>4, <1>7, StatusKnown DEF KeepsLease
<1>9. mem.acct[a].owner = t /\ Guarded(mem.acct[a], proc[t], mem.task[t]) => Guarded(r, p, mem.task[t])
  BY <1>1, <1>2, ConstantsOK DEF Guarded, Carries
<1> QED BY <1>1, <1>2, <1>5, <1>6, <1>8, <1>9, HolderKnown DEF next

LEMMA ReleaseDoneKnown ==
  ASSUME TypeOK, RunInv, CleanInv, KnownInv, NEW t \in Tasks, faults'.write = 0, ReleaseDone(t)
  PROVE  KnownInv'
<1> DEFINE a == proc[t].acct
           out == IF mem.task[t].quota THEN "quota" ELSE "healthy"
           r == Released(mem.acct[a], out)
           next == IfHolder(mem, t, a, r)
<1>1. /\ proc[t].pc = "done_release" /\ proc[t].job = "query" /\ a \in Accounts /\ known' = known
      /\ out \in Outcome
  BY StatusKnown DEF ReleaseDone, At, JobOK, QueryPcs, ghosts, Outcome
<1>2. /\ r \in AccountRecord /\ r.owner = None
      /\ mem.task[t].quota => ShutOut(r)
  BY <1>1, Types, ReleasedRecords
<1>3. mem' = next /\ proc'[t] = Idle /\ \A u \in Tasks \ {t} : proc'[u] = proc[u]
  BY <1>1, Types, ConstantsOK DEF ReleaseDone, Release, Persisted, NotPersisted, Goto
<1> HIDE DEF r
<1>4. next \in Store
  BY <1>1, <1>2, IfHolderKnown
<1>5. mem.task[t].status = "succeeded"
  BY <1>1, StatusKnown DEF StatusAt
<1> HIDE DEF next
<1>6. KeepsLease(t, Idle, mem.task[t], next.acct)
  BY <1>5 DEF KeepsLease, Idle
<1>7. mem.acct[a].owner = t /\ Guarded(mem.acct[a], proc[t], mem.task[t]) => Guarded(r, Idle, mem.task[t])
  BY <1>1, <1>2, ConstantsOK DEF Guarded, Carries
<1> QED BY <1>1, <1>2, <1>3, <1>4, <1>6, <1>7, HolderKnown DEF next

LEMMA CreateVideoKnown ==
  ASSUME TypeOK, RunInv, CleanInv, KnownInv, NEW t \in Tasks, CreateVideo(t) PROVE KnownInv'
<1> DEFINE r == [NoTask EXCEPT !.status = "queued", !.due = TRUE]
<1>1. r \in TaskRecord /\ r.status = "queued" /\ r.quota = FALSE
  BY DEF NoTask, TaskRecord, Statuses
<1>2. mem' = SetTask(mem, t, r) /\ mem.task[t].status = "absent" /\ UNCHANGED <<proc, known>>
  BY DEF CreateVideo, Persisted, NotPersisted, ghosts
<1> HIDE DEF r
<1>3. /\ mem'.acct = mem.acct /\ mem'.task[t] = r
      /\ \A u \in Tasks \ {t} : mem'.task[u] = mem.task[u]
  <2>1. mem \in Store
    BY Types
  <2> QED BY <1>1, <1>2, <2>1, SetTaskStore
<1>4. proc[t].pc = "idle" /\ \A a \in Accounts : mem.acct[a].owner # t
  BY <1>2, StatusKnown DEF StatusAt, MayHold
<1>5. KeepsLease(t, proc[t], r, mem.acct)
  BY <1>1, <1>4 DEF KeepsLease
<1> QED BY <1>2, <1>3, <1>4, <1>5, KnownQuiet

\* A step beside the runs.
LEMMA BesideKnown ==
  ASSUME TypeOK, RunInv, KnownInv, UNCHANGED proc, known' \subseteq known,
         \A a \in Accounts : mem'.acct[a].owner = mem.acct[a].owner,
         \A a \in known' : ShutOut(mem.acct[a]) => ShutOut(mem'.acct[a]),
         \A t \in Tasks : /\ mem'.task[t].status = mem.task[t].status
                          /\ mem'.task[t].acct = mem.task[t].acct
                          /\ mem'.task[t].quota = mem.task[t].quota
  PROVE  KnownInv'
<1>1. ASSUME NEW t \in Tasks PROVE KeepsLease(t, proc'[t], mem'.task[t], mem'.acct)
  <2>1. /\ mem.task[t].status = "processing" => mem.task[t].acct \in Accounts
        /\ proc[t].pc \in {"accept", "note"} => proc[t].acct \in Accounts
    BY RunEnds DEF TaskRun, OwnOK, JobOK, SubmitPcs
  <2> QED BY <2>1, Known DEF KeepsLease
<1>2. ASSUME NEW a \in known'
      PROVE  Guarded(mem'.acct[a], proc'[mem'.acct[a].owner], mem'.task[mem'.acct[a].owner])
  <2>1. a \in known /\ a \in Accounts /\ mem.acct[a].owner \in Tasks \union {None}
    BY Types DEF TypeOK, AccountRecord
  <2>2. Guarded(mem.acct[a], proc[mem.acct[a].owner], mem.task[mem.acct[a].owner])
    BY <2>1 DEF KnownInv
  <2> QED BY <1>2, <2>1, <2>2, ConstantsOK DEF Guarded
<1> QED BY <1>1, <1>2 DEF KnownInv

LEMMA ClockKnown ==
  ASSUME TypeOK, RunInv, KnownInv, NEW t \in Tasks, BecomesDue(t) \/ TaskTimesOut(t) PROVE KnownInv'
<1>1. PICK r : /\ r \in {[mem.task[t] EXCEPT !.due = TRUE], [mem.task[t] EXCEPT !.old = TRUE]}
               /\ Clock(mem, t, r)
  BY DEF BecomesDue, TaskTimesOut
<1>2. /\ r \in TaskRecord /\ r.status = mem.task[t].status /\ r.acct = mem.task[t].acct
      /\ r.quota = mem.task[t].quota
  BY <1>1, Types DEF TaskRecord
<1>3. /\ mem'.acct = mem.acct /\ mem'.task[t] = r
      /\ \A u \in Tasks \ {t} : mem'.task[u] = mem.task[u]
  <2>1. mem \in Store /\ mem' = SetTask(mem, t, r)
    BY <1>1, Types DEF Clock, SetBoth
  <2> QED BY <1>2, <2>1, SetTaskStore
<1>4. UNCHANGED <<proc, known>>
  BY DEF BecomesDue, TaskTimesOut, ghosts
<1> QED BY <1>2, <1>3, <1>4, BesideKnown

LEMMA AccountKnown ==
  ASSUME TypeOK, RunInv, KnownInv,
         PatchApply \/ \E a \in Accounts : LeaseExpires(a) \/ CooldownEnds(a) \/ QuotaRefills(a)
  PROVE  KnownInv'
<1>1. PICK a \in Accounts, r \in AccountRecord :
         /\ mem' = SetAcct(mem, a, r) /\ r.owner = mem.acct[a].owner
         /\ known' \subseteq known
         /\ a \in known' /\ ShutOut(mem.acct[a]) => ShutOut(r)
  <2>1. CASE PatchApply
    <3> DEFINE a == admin.acct
               r == Patched(mem.acct[a], admin.patch, admin.wasDisabled)
    <3>1. a \in Accounts /\ admin.patch \in Patches /\ admin.wasDisabled \in BOOLEAN
      BY <2>1 DEF PatchApply, RunInv, PatchOK, TypeOK
    <3>2. r \in AccountRecord /\ mem.acct[a] \in AccountRecord
      BY <3>1, Types, ChangedRecords
    <3>3. r.owner = mem.acct[a].owner
      BY <3>1, <3>2, ConstantsOK DEF Patched, AccountRecord
    <3>4. mem' = SetAcct(mem, a, r)
      BY <2>1 DEF PatchApply, Persisted, NotPersisted
    <3>5. known' \subseteq known /\ (admin.patch = "healthy" => a \notin known')
      BY <2>1 DEF PatchApply
    <3>6. admin.patch # "healthy" /\ ShutOut(mem.acct[a]) => ShutOut(r)
      BY <3>1, <3>2, ConstantsOK DEF Patched, AccountRecord, ShutOut
    <3> HIDE DEF r
    <3> QED BY <3>1, <3>2, <3>3, <3>4, <3>5, <3>6
  <2>2. CASE \E a \in Accounts : LeaseExpires(a) \/ CooldownEnds(a) \/ QuotaRefills(a)
    <3>1. PICK a \in Accounts : LeaseExpires(a) \/ CooldownEnds(a) \/ QuotaRefills(a)
      BY <2>2
    <3>2. PICK r \in {[mem.acct[a] EXCEPT !.live = FALSE], [mem.acct[a] EXCEPT !.cooled = TRUE],
                      [mem.acct[a] EXCEPT !.reset = TRUE]} :
            /\ mem' = SetAcct(mem, a, r)
            /\ known' = known \/ (known' = known \ {a})
            /\ r = [mem.acct[a] EXCEPT !.reset = TRUE] => known' = known \ {a} \/ r = mem.acct[a]
      <4>1. mem.acct[a] \in AccountRecord
        BY <3>1, Types
      <4>2. CASE LeaseExpires(a)
        BY <4>1, <4>2 DEF LeaseExpires, SetBoth, ghosts, AccountRecord
      <4>3. CASE CooldownEnds(a)
        BY <4>1, <4>3 DEF CooldownEnds, SetBoth, ghosts, AccountRecord
      <4>4. CASE QuotaRefills(a)
        BY <4>4 DEF QuotaRefills, SetBoth
      <4> QED BY <3>1, <4>2, <4>3, <4>4
    <3>3. r \in AccountRecord /\ r.owner = mem.acct[a].owner
      BY <3>2, Types DEF AccountRecord
    <3>4. a \in known' /\ ShutOut(mem.acct[a]) => ShutOut(r)
      BY <3>2, Types DEF AccountRecord, ShutOut
    <3> QED BY <3>2, <3>3, <3>4
  <2> QED BY <2>1, <2>2
<1>2. /\ SetAcct(mem, a, r).task = mem.task /\ SetAcct(mem, a, r).acct[a] = r
      /\ \A b \in Accounts \ {a} : SetAcct(mem, a, r).acct[b] = mem.acct[b]
  <2>1. mem \in Store /\ r \in AccountRecord
    BY <1>1, Types
  <2> QED BY <2>1, SetAcctStore
<1>3. mem'.task = mem.task /\ \A b \in Accounts : mem'.acct[b].owner = mem.acct[b].owner
  BY <1>1, <1>2
<1>4. UNCHANGED proc
  BY DEF PatchApply, LeaseExpires, CooldownEnds, QuotaRefills
<1>5. \A b \in known' : ShutOut(mem.acct[b]) => ShutOut(mem'.acct[b])
  BY <1>1, <1>2 DEF TypeOK
<1> QED BY <1>1, <1>3, <1>4, <1>5, BesideKnown

LEMMA NextKnown ==
  ASSUME TypeOK, RunInv, LeaseInv, CleanInv, KnownInv, [Next]_vars,
         faults'.write = 0, faults'.crash = faults.crash
  PROVE  KnownInv'
<1>1. CASE \E t \in Tasks : Run(t)
  <2> PICK t \in Tasks : Run(t)
    BY <1>1
  <2>1. ~CatchUpdate(t)
    BY DEF CatchUpdate, CleanInv
  <2> QED BY <2>1, ClaimKnown, TaskWriteKnown, SubmitGoKnown, ReplyKnown, NoteQuotaKnown,
             ReleaseAccountKnown, BrowserKnown, PollKnown, ClaimExistingKnown, RenewForRetryKnown,
             PollWriteKnown, ReleaseDoneKnown DEF Run
<1>2. CASE \E t \in Tasks : CreateVideo(t) \/ Pump(t) \/ BecomesDue(t) \/ TaskTimesOut(t)
  BY <1>2, CreateVideoKnown, SubmitGoKnown, ClockKnown
<1>3. CASE PatchApply \/ \E a \in Accounts : LeaseExpires(a) \/ CooldownEnds(a) \/ QuotaRefills(a)
  BY <1>3, AccountKnown
<1>4. CASE Crash \/ \E t \in Tasks : CatchUpdateFails(t)
  BY <1>4, Types DEF Crash, CatchUpdateFails, Bump, FaultCount
<1>5. CASE \/ \E a \in Accounts : BrowserLost(a) \/ OpenLogin(a)
           \/ LoginConnects \/ \E a \in Accounts, p \in Patches : PatchRead(a, p)
           \/ UNCHANGED vars
  <2>1. UNCHANGED <<mem, proc, known>>
    BY <1>5 DEF BrowserLost, OpenLogin, LoginConnects, PatchRead, ghosts, vars
  <2> QED BY <2>1 DEF KnownInv
<1> QED BY <1>1, <1>2, <1>3, <1>4, <1>5 DEF Next

LEMMA InitKnown == Init => KnownInv
<1>1. ASSUME Init, NEW t \in Tasks PROVE KeepsLease(t, proc[t], mem.task[t], mem.acct)
  <2>1. proc[t] = Idle /\ mem.task[t] = NoTask
    BY <1>1 DEF Init
  <2> QED BY <2>1 DEF KeepsLease, Idle, NoTask
<1>2. Init => known = {}
  BY DEF Init
<1> QED BY <1>1, <1>2 DEF KnownInv

LEMMA NextUntroubled ==
  ASSUME TypeOK, RunInv, LeaseInv, WriteClean, Untroubled, [Next]_vars PROVE Untroubled'
<1>1. faults \in FaultCount /\ faults' \in FaultCount
  BY NextRun, Types DEF TypeOK, FaultCount
<1>2. faults'.write = 0 /\ faults'.crash = 0 => faults.write = 0 /\ faults.crash = 0
  BY <1>1, FaultsGrow DEF FaultCount
<1> QED BY <1>2, NextKnown DEF WriteClean, Untroubled

LEMMA KnownIsNotClaimed ==
  ASSUME TypeOK, RunInv, WriteClean, Untroubled, [Next]_vars,
         NEW t \in Tasks, NEW a \in Accounts,
         At(t, "claim"), proc'[t].pc = "mark", proc'[t].acct = a, a \in known
  PROVE  faults.crash + faults.write > 0
<1> SUFFICES ASSUME faults.crash = 0, faults.write = 0 PROVE FALSE
  BY Types DEF FaultCount
<1>1. CleanInv /\ KnownInv
  BY DEF WriteClean, Untroubled
<1>2. Claim(t)
  <2>1. ASSUME NEW u \in Tasks, u # t, CreateVideo(u) \/ Run(u) \/ Pump(u) PROVE proc'[t] = proc[t]
    <3>1. ASSUME NEW next, NEW then, NEW caught, Mutate(u, next, then, caught) PROVE proc'[t] = proc[t]
      BY <2>1, <3>1, Types DEF Mutate, Goto
    <3>2. ASSUME NEW r, Goto(u, r) PROVE proc'[t] = proc[t]
      BY <2>1, <3>2, Types DEF Goto
    <3>3. CASE \/ Claim(u) \/ WaitAccount(u) \/ Mark(u) \/ Accepted(u) \/ NoteQuota(u) \/ ReleaseAccount(u)
               \/ Requeue(u) \/ FailTask(u) \/ ClaimExisting(u) \/ RenewForRetry(u) \/ Repoll(u)
               \/ MarkDownloading(u) \/ Succeed(u)
      BY <3>1, <3>3 DEF Claim, WaitAccount, Mark, Accepted, NoteQuota, ReleaseAccount, Requeue, FailTask,
            ClaimExisting, RenewForRetry, Repoll, MarkDownloading, Succeed
    <3>4. CASE \/ Send(u) \/ Reply(u) \/ EnsureRuntime(u) \/ CheckAge(u) \/ QueryChain(u)
               \/ TestReady(u) \/ Download(u) \/ ReleaseDone(u) \/ Pump(u)
      BY <3>2, <3>4 DEF Send, Reply, EnsureRuntime, CheckAge, QueryChain, TestReady, Download, ReleaseDone, Pump
    <3>5. CASE Connect(u)
      BY <2>1, <3>5, Types DEF Connect
    <3>6. CASE CreateVideo(u) \/ CatchUpdate(u)
      BY <3>6 DEF CreateVideo, CatchUpdate
    <3> QED BY <2>1, <3>3, <3>4, <3>5, <3>6 DEF Run
  <2>2. proc[t].pc = "claim" /\ proc'[t] # proc[t]
    BY DEF At
  <2>3. Run(t) /\ ~CatchUpdate(t) /\ ~ReleaseDone(t) => Claim(t)
    BY <2>2 DEF Run, WaitAccount, Mark, Send, Reply, Accepted, NoteQuota, ReleaseAccount, Requeue, FailTask,
          EnsureRuntime, Connect, CheckAge, ClaimExisting, RenewForRetry, QueryChain, TestReady, Repoll,
          MarkDownloading, Download, Succeed, At
  <2>4. ~CatchUpdate(t) /\ ~ReleaseDone(t) /\ ~Pump(t) /\ ~CreateVideo(t)
    BY <2>2 DEF CatchUpdate, ReleaseDone, Pump, CreateVideo, At
  <2>5. ~Restart
    BY DEF Restart, Idle
  <2>6. CASE \E u \in Tasks : CreateVideo(u) \/ Pump(u) \/ Run(u)
    BY <2>1, <2>2, <2>3, <2>4, <2>6
  <2>7. CASE Crash \/ \E u \in Tasks : CatchUpdateFails(u)
    BY <2>5, <2>7 DEF Crash, CatchUpdateFails
  <2>8. CASE \/ \E u \in Tasks : BecomesDue(u) \/ TaskTimesOut(u)
             \/ \E b \in Accounts : BrowserLost(b) \/ OpenLogin(b)
             \/ LoginConnects \/ PatchApply \/ \E b \in Accounts, p \in Patches : PatchRead(b, p)
             \/ \E b \in Accounts : LeaseExpires(b) \/ CooldownEnds(b) \/ QuotaRefills(b)
             \/ UNCHANGED vars
    BY <2>2, <2>8 DEF BecomesDue, TaskTimesOut, BrowserLost, OpenLogin, LoginConnects, PatchApply, PatchRead,
          LeaseExpires, CooldownEnds, QuotaRefills, vars
  <2> QED BY <2>6, <2>7, <2>8 DEF Next
<1>3. faults'.write = 0
  <2>1. ASSUME NEW next \in Store, NEW then \in ProcRecord, Mutate(t, next, then, Idle)
        PROVE  faults'.write = 0
    BY <2>1, NextRecords, MutateEffect DEF Idle
  <2>2. mem \in Store /\ Next_(t, "wait_account") \in ProcRecord
    BY Types, NextRecords
  <2>3. \A b \in Accounts : /\ SetAcct(mem, b, Claimed(mem.acct[b], t)) \in Store
                            /\ [Next_(t, "mark") EXCEPT !.acct = b] \in ProcRecord
    <3> TAKE b \in Accounts
    <3>1. Claimed(mem.acct[b], t) \in AccountRecord
      BY Types, AccountRecords
    <3>2. SetAcct(mem, b, Claimed(mem.acct[b], t)) \in Store
      BY <2>2, <3>1, SetAcctStore
    <3>3. [Next_(t, "mark") EXCEPT !.acct = b] \in ProcRecord
      BY NextRecords DEF ProcRecord
    <3> QED BY <3>2, <3>3
  <2> QED BY <1>2, <2>1, <2>2, <2>3 DEF Claim
<1> QED BY <1>1, <1>2, <1>3, ClaimKnown

(* An account whose quota the provider has reported as used up is not given to
   a task again before the daily reset or the administrator's word, as long as
   the process lives and its writes succeed (account-pool.mjs, noteQuota,
   release and claimExisting; service.mjs, errorOutcome). *)
THEOREM ExhaustedAccountsRest == Spec => ExhaustedNotClaimed
<1>1. Init => WriteClean /\ Untroubled
  BY InitClean, InitKnown DEF WriteClean, Untroubled
<1>2. TypeOK /\ RunInv /\ WriteClean /\ Untroubled /\ [Next]_vars
        => [\A t \in Tasks, a \in Accounts :
               At(t, "claim") /\ proc'[t].pc = "mark" /\ proc'[t].acct = a /\ a \in known
                  => faults.crash + faults.write > 0]_vars
  BY KnownIsNotClaimed
<1>3. Spec => [](TypeOK /\ RunInv /\ LeaseInv /\ WriteClean /\ Untroubled)
  BY <1>1, InitRun, NextRun, InitLease, NextLease, NextWriteClean, NextUntroubled, PTL DEF Spec
<1> QED BY <1>2, <1>3, PTL DEF Spec, ExhaustedNotClaimed
=============================================================================
