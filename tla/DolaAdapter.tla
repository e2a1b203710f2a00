---------------------------- MODULE DolaAdapter ----------------------------
(***************************************************************************)
(* The Dola adapter (dola-adapter/src): a small service that turns a web   *)
(* work bench into a video API.  One process keeps tasks and accounts in a *)
(* JSON store, a pump starts one asynchronous run per due task, a run      *)
(* leases an account, drives that account's browser page to submit the     *)
(* prompt, and later runs poll the conversation and download the video.    *)
(*                                                                         *)
(* Every await is a step boundary.  store.mutate runs its callbacks one    *)
(* after the other; the callback and the write of the state file are one   *)
(* step here, which may fail after the state in memory has changed.  A     *)
(* crash loses memory and keeps the file.                                  *)
(***************************************************************************)
EXTENDS Naturals, FiniteSets

CONSTANTS
    Tasks,            \* videos clients ask for, each under its own Idempotency-Key
    Accounts,         \* Dola accounts, all logged in at the start
    None,             \* the empty account id / empty lease owner
    Endpoint,         \* Endpoint[a]: the CDP address that serves a
    Patches,          \* PATCH bodies the administrator sends
    ReadyCheck,       \* does the name isCreationReady resolve in service.mjs
    MaxAttempts,      \* maxAccountAttempts
    MaxCrashes, MaxWriteFailures, MaxPatches, MaxBrowserEvents   \* bounds

ASSUME ConstantsOK ==
    /\ None \notin Accounts \union Tasks
    /\ DOMAIN Endpoint = Accounts
    /\ ReadyCheck \subseteq BOOLEAN
    /\ MaxAttempts \in Nat \ {0}
    /\ Patches \subseteq {"disable", "enable", "healthy", "needs_login", "rebind"}
    /\ {MaxCrashes, MaxWriteFailures, MaxPatches, MaxBrowserEvents} \subseteq Nat

VARIABLES
    mem,         \* the store's state in memory: [acct, task]
    disk,        \* the state file
    proc,        \* proc[t]: the run of processTask for t, if one is active
    pendingFail, \* tasks whose catch handler in pump has queued its update
    runtime,     \* runtime[a]: is there a live browser runtime for a
    login,       \* the account whose login page is being opened
    admin,       \* the administrator's PATCH in flight
    sends,       \* ghost: sends[t] requests the provider may have taken
    known,       \* ghost: accounts the provider has reported as out of quota
    faults       \* counters of crashes, failed writes, patches, lost browsers

vars == <<mem, disk, proc, pendingFail, runtime, login, admin, sends, known, faults>>
browserVars == <<runtime, login>>
ghosts == <<sends, known>>

Statuses == {"absent", "queued", "submitting", "processing", "succeeded", "failed"}
Terminal == {"succeeded", "failed"}

AccountRecord ==
    [enabled : BOOLEAN,
     state   : {"healthy", "busy", "cooldown", "quota_exhausted", "needs_login", "disabled"},
     owner   : Tasks \union {None},      \* leaseOwner
     live    : BOOLEAN,                  \* leaseExpiresAt in the future
     cooled  : BOOLEAN,                  \* cooldownUntil past
     reset   : BOOLEAN]                  \* quotaResetAt past

TaskRecord ==
    [status : Statuses,
     acct   : Accounts \union {None},    \* accountId
     tried  : SUBSET Accounts,           \* triedAccountIds
     quota  : BOOLEAN,                   \* quotaExhaustedAfterAccept
     due    : BOOLEAN,                   \* nextPollAt empty or past
     old    : BOOLEAN]                   \* createdAt older than taskTimeoutMs

Idle == [pc |-> "idle", job |-> "none", acct |-> None, out |-> "none"]

ProcRecord ==
    [pc   : {"idle", "claim", "wait_account", "mark", "ensure", "connecting",
             "send", "reply", "accept", "note", "release", "requeue", "fail", "age",
             "existing", "query", "ready", "repoll", "renew_retry", "repoll_retry",
             "downloading", "download", "succeed", "done_release"},
     job  : {"none", "submit", "query"},
     acct : Accounts \union {None},
     out  : {"none", "healthy", "quota", "needs_login", "cooldown"}]

TypeOK ==
    /\ mem \in [acct : [Accounts -> AccountRecord], task : [Tasks -> TaskRecord]]
    /\ disk \in [acct : [Accounts -> AccountRecord], task : [Tasks -> TaskRecord]]
    /\ proc \in [Tasks -> ProcRecord]
    /\ pendingFail \subseteq Tasks
    /\ runtime \in [Accounts -> BOOLEAN]
    /\ login \in Accounts \union {None}
    /\ admin \in [acct : Accounts \union {None}, patch : Patches \union {None}, wasDisabled : BOOLEAN]
    /\ sends \in [Tasks -> 0..2]
    /\ known \subseteq Accounts
    /\ faults \in [crash : 0..MaxCrashes, write : 0..MaxWriteFailures,
                   patch : 0..MaxPatches, browser : 0..MaxBrowserEvents]

FreshAccount ==
    [enabled |-> TRUE, state |-> "healthy", owner |-> None,
     live |-> FALSE, cooled |-> TRUE, reset |-> FALSE]
NoTask ==
    [status |-> "absent", acct |-> None, tried |-> {}, quota |-> FALSE,
     due |-> FALSE, old |-> FALSE]
(* Of a finished task only the status is read again. *)
Finished(status) == [NoTask EXCEPT !.status = status]
NoPatch == [acct |-> None, patch |-> None, wasDisabled |-> FALSE]

Init ==
    /\ mem = [acct |-> [a \in Accounts |-> FreshAccount], task |-> [t \in Tasks |-> NoTask]]
    /\ disk = mem
    /\ proc = [t \in Tasks |-> Idle]
    /\ pendingFail = {}
    /\ runtime = [a \in Accounts |-> FALSE]
    /\ login = None
    /\ admin = NoPatch
    /\ sends = [t \in Tasks |-> 0]
    /\ known = {}
    /\ faults = [crash |-> 0, write |-> 0, patch |-> 0, browser |-> 0]

-----------------------------------------------------------------------------
(* The store.                                                              *)

Bump(kind, max) ==
    /\ faults[kind] < max
    /\ faults' = [faults EXCEPT ![kind] = @ + 1]

(* mutate: the callback has turned memory into `next`; then the state file
   is replaced, or writing it fails and memory keeps the change. *)
Persisted(next) == mem' = next /\ disk' = next /\ UNCHANGED faults
NotPersisted(next) == mem' = next /\ UNCHANGED disk /\ Bump("write", MaxWriteFailures)

SetTask(s, t, record) == [s EXCEPT !.task[t] = record]
SetAcct(s, a, record) == [s EXCEPT !.acct[a] = record]

(* A run's await of a mutation: on success it goes on at `then`; a failed
   write rejects, and the run goes on at `caught` (Idle: the rejection
   reaches the catch handler of pump). *)
Goto(t, record) == proc' = [proc EXCEPT ![t] = record]
Mutate(t, next, then, caught) ==
    /\ t \notin pendingFail     \* the queue is first in, first out
    /\ \/ Persisted(next) /\ Goto(t, then) /\ UNCHANGED pendingFail
       \/ /\ NotPersisted(next)
          /\ Goto(t, caught)
          /\ pendingFail' = IF caught = Idle THEN pendingFail \union {t} ELSE pendingFail

At(t, pc) == proc[t].pc = pc
Next_(t, pc) == [proc[t] EXCEPT !.pc = pc]
Releasing(t, outcome) == [proc[t] EXCEPT !.pc = "release", !.out = outcome]

-----------------------------------------------------------------------------
(* The account pool.                                                       *)

QuotaHasReset(r) == r.state = "quota_exhausted" /\ r.reset
ClearExpiredQuota(r) ==
    IF QuotaHasReset(r) THEN [r EXCEPT !.state = "healthy", !.reset = FALSE] ELSE r

Claimable(r, excluded) ==
    /\ r.enabled
    /\ r.owner = None
    /\ excluded => QuotaHasReset(r)
    /\ \/ r.state = "healthy"
       \/ r.state = "cooldown" /\ r.cooled
       \/ QuotaHasReset(r)

Claimed(r, t) ==
    [ClearExpiredQuota(r) EXCEPT !.state = "busy", !.owner = t, !.live = TRUE]

ClaimableAgain_AnyOwner(r, t) == r.enabled /\ r.state \notin {"needs_login", "disabled"}

(* An expired lease of another task is taken over. *)
ClaimableAgain(r, t) ==
    /\ r.enabled
    /\ r.owner \in {None, t} \/ ~r.live
    /\ r.state \notin {"needs_login", "disabled"}

ClaimedAgain(r, t) ==
    LET c == ClearExpiredQuota(r) IN
    [c EXCEPT !.state = IF @ = "quota_exhausted" THEN @ ELSE "busy",
              !.owner = t, !.live = TRUE]

Exhausted_Outcome(r) == [r EXCEPT !.state = "quota", !.reset = FALSE]
Exhausted(r) == [r EXCEPT !.state = "quota_exhausted", !.reset = FALSE]

Released(r, outcome) ==
    LET free == [r EXCEPT !.owner = None, !.live = FALSE] IN
    CASE outcome = "quota"       -> Exhausted(free)
      [] outcome = "needs_login" -> [free EXCEPT !.state = "needs_login"]
      [] outcome = "cooldown"    -> [free EXCEPT !.state = "cooldown", !.cooled = FALSE]
      [] OTHER -> IF r.enabled THEN [free EXCEPT !.state = "healthy", !.cooled = TRUE] ELSE free

(* release, renew and noteQuota change nothing unless t holds the lease. *)
IfHolder(s, t, a, record) == IF a # None /\ s.acct[a].owner = t THEN SetAcct(s, a, record) ELSE s
Release(s, t, a, outcome) == IF a = None THEN s ELSE IfHolder(s, t, a, Released(s.acct[a], outcome))
Renew(s, t, a) == IfHolder(s, t, a, [s.acct[a] EXCEPT !.live = TRUE])

-----------------------------------------------------------------------------
(* createVideo, pump and processTask.                                      *)

(* A second request under a known key is refused.  A write that fails
   rejects the request, but the task is in memory and the pump will run it. *)
CreateVideo(t) ==
    /\ mem.task[t].status = "absent"
    /\ LET next == SetTask(mem, t, [NoTask EXCEPT !.status = "queued", !.due = TRUE])
       IN  Persisted(next) \/ NotPersisted(next)
    /\ UNCHANGED <<proc, pendingFail, admin, browserVars, ghosts>>

(* pump finds t due and not in activeTasks; processTask reads its record. *)
Pump(t) ==
    /\ mem.task[t].status \in {"queued", "processing"}
    /\ mem.task[t].due
    /\ At(t, "idle")
    /\ Goto(t, [Idle EXCEPT !.pc  = IF mem.task[t].status = "queued" THEN "claim" ELSE "age",
                            !.acct = mem.task[t].acct])
    /\ UNCHANGED <<mem, disk, pendingFail, admin, faults, browserVars, ghosts>>

(* The catch handler's update runs after the run has left activeTasks; it is
   not awaited, so a failed write is an unhandled rejection (see Crash). *)
CatchUpdate(t) ==
    /\ t \in pendingFail
    /\ Persisted(SetTask(mem, t, [mem.task[t] EXCEPT !.status = "failed", !.due = TRUE]))
    /\ pendingFail' = pendingFail \ {t}
    /\ UNCHANGED <<proc, admin, browserVars, ghosts>>

-----------------------------------------------------------------------------
(* processQueued.                                                          *)

Claim(t) ==
    /\ At(t, "claim")
    /\ \/ /\ \A a \in Accounts : ~Claimable(mem.acct[a], a \in mem.task[t].tried)
          /\ Mutate(t, mem, Next_(t, "wait_account"), Idle)
       \/ \E a \in Accounts :
             /\ Claimable(mem.acct[a], a \in mem.task[t].tried)
             /\ Mutate(t, SetAcct(mem, a, Claimed(mem.acct[a], t)),
                       [Next_(t, "mark") EXCEPT !.acct = a], Idle)
    /\ UNCHANGED <<admin, browserVars, ghosts>>

WaitAccount(t) ==
    /\ At(t, "wait_account")
    /\ Mutate(t, SetTask(mem, t, [mem.task[t] EXCEPT !.due = FALSE]), Idle, Idle)
    /\ UNCHANGED <<admin, browserVars, ghosts>>

Mark(t) ==
    /\ At(t, "mark")
    /\ Mutate(t, SetTask(mem, t, [mem.task[t] EXCEPT
                     !.status = "submitting", !.acct = proc[t].acct,
                     !.tried = @ \union {proc[t].acct}, !.due = TRUE]),
              [Next_(t, "ensure") EXCEPT !.job = "submit"], Idle)
    /\ UNCHANGED <<admin, browserVars, ghosts>>

(* The prompt is typed and sent: until the provider answers, and if no answer
   comes, it may have taken the request.  The button is clicked only when the
   Enter press failed, which is taken to have sent nothing. *)
Send(t) ==
    /\ At(t, "send")
    /\ \/ /\ runtime[proc[t].acct]
          /\ Goto(t, Next_(t, "reply"))
          /\ sends' = [sends EXCEPT ![t] = @ + 1]
       \/ \E out \in {"needs_login", "cooldown"} :      \* login page; no page, composer or button
             Goto(t, Releasing(t, out)) /\ UNCHANGED sends
    /\ UNCHANGED <<mem, disk, pendingFail, admin, faults, browserVars, known>>

Reply(t) ==
    /\ At(t, "reply")
    /\ \/ \E q \in BOOLEAN :                          \* SSE_ACK
             /\ Goto(t, [Next_(t, "accept") EXCEPT !.out = IF q THEN "quota" ELSE "none"])
             /\ known' = IF q THEN known \union {proc[t].acct} ELSE known
             /\ UNCHANGED sends
       \/ /\ Goto(t, Releasing(t, "quota"))           \* quotaBeforeAccept
          /\ known' = known \union {proc[t].acct}
          /\ sends' = [sends EXCEPT ![t] = @ - 1]
       \/ \E out \in {"needs_login", "cooldown"} :    \* refused, or no answer
             Goto(t, Releasing(t, out)) /\ UNCHANGED <<sends, known>>
    /\ UNCHANGED <<mem, disk, pendingFail, admin, faults, browserVars>>

Accepted(t) ==
    /\ At(t, "accept")
    /\ LET q == proc[t].out = "quota" IN
       Mutate(t, SetTask(mem, t, [mem.task[t] EXCEPT !.status = "processing", !.quota = q, !.due = TRUE]),
              IF q THEN Next_(t, "note") ELSE Idle,
              Releasing(t, "cooldown"))
    /\ UNCHANGED <<admin, browserVars, ghosts>>

NoteQuota(t) ==
    /\ At(t, "note")
    /\ LET a == proc[t].acct
       IN  Mutate(t, IfHolder(mem, t, a, Exhausted(mem.acct[a])), Idle, Releasing(t, "cooldown"))
    /\ UNCHANGED <<admin, browserVars, ghosts>>

ReleaseAccount_RotatesAlways(t) ==
    /\ At(t, "release")
    /\ LET p == proc[t]
           rotate == p.job = "submit" /\ Cardinality(mem.task[t].tried) < MaxAttempts
       IN  Mutate(t, Release(mem, t, p.acct, p.out), Next_(t, IF rotate THEN "requeue" ELSE "fail"), Idle)
    /\ UNCHANGED <<admin, browserVars, ghosts>>

(* The catch blocks of processQueued and processProcessing release the
   account, then requeue (quota, attempts left) or fail the task. *)
ReleaseAccount(t) ==
    /\ At(t, "release")
    /\ LET p == proc[t]
           rotate == /\ p.job = "submit" /\ p.out = "quota"
                     /\ Cardinality(mem.task[t].tried) < MaxAttempts
       IN  Mutate(t, Release(mem, t, p.acct, p.out), Next_(t, IF rotate THEN "requeue" ELSE "fail"), Idle)
    /\ UNCHANGED <<admin, browserVars, ghosts>>

Requeue(t) ==
    /\ At(t, "requeue")
    /\ Mutate(t, SetTask(mem, t, [mem.task[t] EXCEPT !.status = "queued", !.acct = None, !.due = TRUE]),
              Idle, Idle)
    /\ UNCHANGED <<admin, browserVars, ghosts>>

FailTask(t) ==
    /\ At(t, "fail")
    /\ Mutate(t, SetTask(mem, t, Finished("failed")), Idle, Idle)
    /\ UNCHANGED <<admin, browserVars, ghosts>>

-----------------------------------------------------------------------------
(* The browser worker.  Connecting to a browser is an await: the check that
   no other account holds the endpoint is made before it. *)

ErrorOutcome_Forgets(t) == "cooldown"
ErrorOutcome(t) == IF mem.task[t].quota THEN "quota" ELSE "cooldown"
OnBrowserError(t) == Releasing(t, IF proc[t].job = "submit" THEN "cooldown" ELSE ErrorOutcome(t))
OnTransient(t) == IF proc[t].job = "submit" THEN Releasing(t, "cooldown") ELSE Next_(t, "renew_retry")
Driving(t) == IF proc[t].job = "submit" THEN Next_(t, "send") ELSE Next_(t, "query")

EndpointTaken(a) == \E b \in Accounts \ {a} : runtime[b] /\ Endpoint[b] = Endpoint[a]

EnsureRuntime(t) ==
    /\ At(t, "ensure")
    /\ LET a == proc[t].acct IN
       \/ runtime[a] /\ Goto(t, Driving(t))
       \/ ~runtime[a] /\ EndpointTaken(a) /\ Goto(t, OnBrowserError(t))
       \/ ~runtime[a] /\ ~EndpointTaken(a) /\ Goto(t, Next_(t, "connecting"))
    /\ UNCHANGED <<mem, disk, pendingFail, admin, faults, browserVars, ghosts>>

(* The runtime is kept when only the first navigation of the page fails. *)
Connect(t) ==
    /\ At(t, "connecting")
    /\ \/ /\ runtime' = [runtime EXCEPT ![proc[t].acct] = TRUE]
          /\ proc' \in {[proc EXCEPT ![t] = r] : r \in {Driving(t), OnBrowserError(t), OnTransient(t)}}
       \/ /\ UNCHANGED runtime
          /\ proc' \in {[proc EXCEPT ![t] = r] : r \in {OnBrowserError(t), OnTransient(t)}}
    /\ UNCHANGED <<mem, disk, pendingFail, admin, faults, login, ghosts>>

BrowserLost(a) ==
    /\ runtime[a]
    /\ Bump("browser", MaxBrowserEvents)
    /\ runtime' = [runtime EXCEPT ![a] = FALSE]
    /\ UNCHANGED <<mem, disk, proc, pendingFail, admin, login, ghosts>>

(* The administrator opens the login page: the same check, await and set. *)
OpenLogin(a) ==
    /\ login = None
    /\ ~runtime[a] /\ ~EndpointTaken(a)
    /\ Bump("browser", MaxBrowserEvents)
    /\ login' = a
    /\ UNCHANGED <<mem, disk, proc, pendingFail, admin, runtime, ghosts>>

LoginConnects ==
    /\ login # None
    /\ runtime' \in {runtime, [runtime EXCEPT ![login] = TRUE]}
    /\ login' = None
    /\ UNCHANGED <<mem, disk, proc, pendingFail, admin, faults, ghosts>>

-----------------------------------------------------------------------------
(* processProcessing.  An accepted task always has its account and its
   conversation, so the first early return never happens. *)

CheckAge_NoTimeout(t) ==
    /\ At(t, "age")
    /\ Goto(t, [Next_(t, "existing") EXCEPT !.job = "query"])
    /\ UNCHANGED <<mem, disk, pendingFail, admin, faults, browserVars, ghosts>>

CheckAge_NoRelease(t) ==
    /\ At(t, "age")
    /\ \/ mem.task[t].old /\ Goto(t, [Next_(t, "fail") EXCEPT !.job = "query"])
       \/ ~mem.task[t].old /\ Goto(t, [Next_(t, "existing") EXCEPT !.job = "query"])
    /\ UNCHANGED <<mem, disk, pendingFail, admin, faults, browserVars, ghosts>>

CheckAge(t) ==
    /\ At(t, "age")
    /\ \/ mem.task[t].old /\ Goto(t, [Releasing(t, ErrorOutcome(t)) EXCEPT !.job = "query"])
       \/ ~mem.task[t].old /\ Goto(t, [Next_(t, "existing") EXCEPT !.job = "query"])
    /\ UNCHANGED <<mem, disk, pendingFail, admin, faults, browserVars, ghosts>>

(* Refused, the run just ends: the task stays due.  The renew that follows
   a successful claim sets what the claim has set. *)
ClaimExisting(t) ==
    /\ At(t, "existing")
    /\ LET a == proc[t].acct IN
       \/ ~ClaimableAgain(mem.acct[a], t) /\ Mutate(t, mem, Idle, Idle)
       \/ /\ ClaimableAgain(mem.acct[a], t)
          /\ Mutate(t, SetAcct(mem, a, ClaimedAgain(mem.acct[a], t)), Next_(t, "ensure"), Idle)
    /\ UNCHANGED <<admin, browserVars, ghosts>>

RenewForRetry(t) ==
    /\ At(t, "renew_retry")
    /\ Mutate(t, Renew(mem, t, proc[t].acct), Next_(t, "repoll_retry"), Idle)
    /\ UNCHANGED <<admin, browserVars, ghosts>>

QueryChain(t) ==
    /\ At(t, "query")
    /\ \/ /\ runtime[proc[t].acct]
          /\ \/ Goto(t, Next_(t, "repoll"))                           \* no video yet
             \/ Goto(t, Next_(t, "ready"))                            \* a finished video
             \/ \E out \in {"needs_login", ErrorOutcome(t)} : Goto(t, Releasing(t, out))
       \/ Goto(t, Next_(t, "renew_retry"))                            \* poll_transient
    /\ UNCHANGED <<mem, disk, pendingFail, admin, faults, browserVars, ghosts>>

(* isCreationReady is exported by dola-protocol.mjs; service.mjs does not
   import it, and the ReferenceError ends as a provider_error. *)
TestReady(t) ==
    /\ At(t, "ready")
    /\ \E resolves \in ReadyCheck :
          Goto(t, IF resolves THEN Next_(t, "downloading") ELSE Releasing(t, ErrorOutcome(t)))
    /\ UNCHANGED <<mem, disk, pendingFail, admin, faults, browserVars, ghosts>>

(* nextPollAt in the future.  A failed write is not transient; one made in the
   catch block after a transient error rejects to the pump, with the lease kept. *)
RepollFails(t) == IF At(t, "repoll") THEN Releasing(t, ErrorOutcome(t)) ELSE Idle
Repoll(t) ==
    /\ At(t, "repoll") \/ At(t, "repoll_retry")
    /\ Mutate(t, SetTask(mem, t, [mem.task[t] EXCEPT !.due = FALSE]), Idle, RepollFails(t))
    /\ UNCHANGED <<admin, browserVars, ghosts>>

MarkDownloading(t) ==
    /\ At(t, "downloading")
    /\ Mutate(t, SetTask(mem, t, [mem.task[t] EXCEPT !.due = TRUE]),
              Next_(t, "download"), Releasing(t, ErrorOutcome(t)))
    /\ UNCHANGED <<admin, browserVars, ghosts>>

Download(t) ==
    /\ At(t, "download")
    /\ \E r \in {Next_(t, "succeed"), Next_(t, "renew_retry"),
                 Releasing(t, ErrorOutcome(t)), Releasing(t, "needs_login")} : Goto(t, r)
    /\ UNCHANGED <<mem, disk, pendingFail, admin, faults, browserVars, ghosts>>

Succeed(t) ==
    /\ At(t, "succeed")
    /\ Mutate(t, SetTask(mem, t, [Finished("succeeded") EXCEPT !.quota = mem.task[t].quota]),
              Next_(t, "done_release"), Releasing(t, ErrorOutcome(t)))
    /\ UNCHANGED <<admin, browserVars, ghosts>>

(* An error of this release is logged: the task has succeeded. *)
ReleaseDone(t) ==
    /\ At(t, "done_release")
    /\ LET next == Release(mem, t, proc[t].acct, IF mem.task[t].quota THEN "quota" ELSE "healthy")
       IN  Persisted(next) \/ NotPersisted(next)
    /\ Goto(t, Idle)
    /\ UNCHANGED <<pendingFail, admin, browserVars, ghosts>>

-----------------------------------------------------------------------------
(* PATCH /internal/accounts/:id.  The lease is checked on a snapshot; the
   change is queued behind the mutations already waiting. *)

PatchRead(a, p) ==
    /\ admin = NoPatch
    /\ Bump("patch", MaxPatches)
    /\ p \in {"disable", "enable", "rebind"} => mem.acct[a].owner = None
    /\ admin' = [acct |-> a, patch |-> p, wasDisabled |-> mem.acct[a].state = "disabled"]
    /\ UNCHANGED <<mem, disk, proc, pendingFail, browserVars, ghosts>>

Patched(r, p, wasDisabled) ==
    CASE p = "disable"     -> [r EXCEPT !.enabled = FALSE, !.state = "disabled"]
      [] p = "enable"      -> [r EXCEPT !.enabled = TRUE, !.state = IF wasDisabled THEN "needs_login" ELSE @]
      [] p = "healthy"     -> [r EXCEPT !.state = "healthy", !.cooled = TRUE, !.reset = FALSE]
      [] p = "needs_login" -> [r EXCEPT !.state = "needs_login"]
      [] p = "rebind"      -> [r EXCEPT !.state = "needs_login", !.reset = FALSE]

PatchApply ==
    /\ admin # NoPatch
    /\ LET a == admin.acct IN
       /\ LET next == SetAcct(mem, a, Patched(mem.acct[a], admin.patch, admin.wasDisabled))
          IN  Persisted(next) \/ NotPersisted(next)
       /\ known' = IF admin.patch = "healthy" THEN known \ {a} ELSE known
    /\ admin' = NoPatch
    /\ UNCHANGED <<proc, pendingFail, browserVars, sends>>

-----------------------------------------------------------------------------
(* Time, crash and restart.                                                *)

SetBoth(s1, s2) == mem' = s1 /\ disk' = s2
Clock(s, t, rec) == SetBoth(SetTask(mem, t, rec), SetTask(disk, t, [disk.task[t] EXCEPT !.due = rec.due, !.old = rec.old]))

BecomesDue(t) ==
    /\ mem.task[t].status \in {"queued", "processing"} /\ ~mem.task[t].due
    /\ Clock(mem, t, [mem.task[t] EXCEPT !.due = TRUE])
    /\ UNCHANGED <<proc, pendingFail, admin, faults, browserVars, ghosts>>

TaskTimesOut(t) ==
    /\ mem.task[t].status = "processing" /\ ~mem.task[t].old
    /\ Clock(mem, t, [mem.task[t] EXCEPT !.old = TRUE])
    /\ UNCHANGED <<proc, pendingFail, admin, faults, browserVars, ghosts>>

(* An assumption, which nothing in the code enforces: the configured leaseMs is
   longer than any single run, so that a lease runs out only while no run of
   its holder is active. *)
LeaseExpires(a) ==
    /\ mem.acct[a].live
    /\ At(mem.acct[a].owner, "idle")
    /\ SetBoth(SetAcct(mem, a, [mem.acct[a] EXCEPT !.live = FALSE]),
               SetAcct(disk, a, [disk.acct[a] EXCEPT !.live = FALSE]))
    /\ UNCHANGED <<proc, pendingFail, admin, faults, browserVars, ghosts>>

CooldownEnds(a) ==
    /\ ~mem.acct[a].cooled
    /\ SetBoth(SetAcct(mem, a, [mem.acct[a] EXCEPT !.cooled = TRUE]),
               SetAcct(disk, a, [disk.acct[a] EXCEPT !.cooled = TRUE]))
    /\ UNCHANGED <<proc, pendingFail, admin, faults, browserVars, ghosts>>

QuotaRefills(a) ==
    /\ mem.acct[a].state = "quota_exhausted" /\ ~mem.acct[a].reset
    /\ SetBoth(SetAcct(mem, a, [mem.acct[a] EXCEPT !.reset = TRUE]),
               SetAcct(disk, a, [disk.acct[a] EXCEPT !.reset = TRUE]))
    /\ known' = known \ {a}
    /\ UNCHANGED <<proc, pendingFail, admin, faults, browserVars, sends>>

RecoveredTask_Resubmit(r) == IF r.status = "submitting" THEN [r EXCEPT !.status = "queued"] ELSE r
(* recoverAfterRestart. *)
RecoveredTask(r) == IF r.status = "submitting" THEN [r EXCEPT !.status = "failed"] ELSE r
RecoveredAccount_KeepsBusy(r) == [r EXCEPT !.owner = None, !.live = FALSE]
RecoveredAccount(r) ==
    [r EXCEPT !.owner = None, !.live = FALSE, !.state = IF @ = "busy" THEN "healthy" ELSE @]
Recovered(s) ==
    [acct |-> [a \in Accounts |-> RecoveredAccount(s.acct[a])],
     task |-> [t \in Tasks |-> RecoveredTask(s.task[t])]]

Restart ==
    /\ SetBoth(Recovered(disk), Recovered(disk))
    /\ proc' = [t \in Tasks |-> Idle]
    /\ pendingFail' = {}
    /\ runtime' = [a \in Accounts |-> FALSE]
    /\ login' = None
    /\ admin' = NoPatch
    /\ UNCHANGED ghosts

Crash == Bump("crash", MaxCrashes) /\ Restart

(* The unawaited update of the catch handler cannot be written: an unhandled
   rejection, which ends the process, and which is counted as a crash. *)
CatchUpdateFails(t) ==
    /\ t \in pendingFail
    /\ Bump("crash", MaxCrashes)
    /\ Restart

-----------------------------------------------------------------------------
Run(t) ==
    \/ Claim(t) \/ WaitAccount(t) \/ Mark(t) \/ Send(t) \/ Reply(t)
    \/ Accepted(t) \/ NoteQuota(t) \/ ReleaseAccount(t) \/ Requeue(t) \/ FailTask(t)
    \/ EnsureRuntime(t) \/ Connect(t) \/ CheckAge(t) \/ ClaimExisting(t) \/ RenewForRetry(t)
    \/ QueryChain(t) \/ TestReady(t) \/ Repoll(t) \/ MarkDownloading(t) \/ Download(t) \/ Succeed(t)
    \/ ReleaseDone(t) \/ CatchUpdate(t)

Next ==
    \/ \E t \in Tasks : CreateVideo(t) \/ Pump(t) \/ Run(t)
    \/ \E t \in Tasks : BecomesDue(t) \/ TaskTimesOut(t) \/ CatchUpdateFails(t)
    \/ \E a \in Accounts : BrowserLost(a) \/ OpenLogin(a)
    \/ LoginConnects
    \/ \E a \in Accounts, p \in Patches : PatchRead(a, p)
    \/ PatchApply
    \/ \E a \in Accounts : LeaseExpires(a) \/ CooldownEnds(a) \/ QuotaRefills(a)
    \/ Crash

Spec == Init /\ [][Next]_vars

(* The pump ticks every second and runs go on; the clock moves. *)
Fairness ==
    \A t \in Tasks : WF_vars(Pump(t)) /\ WF_vars(Run(t)) /\ WF_vars(BecomesDue(t)) /\ WF_vars(TaskTimesOut(t))

LiveSpec == Spec /\ Fairness

-----------------------------------------------------------------------------
(* Properties.                                                             *)

(* For one request the provider is asked at most once, unless it said that it
   did not take the request: no crash, failed write, retry of the pump or
   change of account sends the prompt a second time (service.mjs, the rotation
   of accounts; store.mjs, recovery). *)
SubmittedAtMostOnce == \A t \in Tasks : sends[t] <= 1

UsesPage(t) == proc[t].pc \in {"ensure", "connecting", "send", "reply", "query", "ready", "downloading", "download"}

(* Two runs never drive the browser page of one account at the same time,
   also when leases are taken over, cleared by a restart or left behind by
   a failed write (account-pool.mjs, claim and claimExisting). *)
OneRunPerPage ==
    \A t, u \in Tasks : t # u /\ UsesPage(t) /\ UsesPage(u) => proc[t].acct # proc[u].acct

(* A busy account is somebody's: claim never takes a busy account, so one
   that is busy without a lease is lost until the next restart. *)
BusyIsLeased ==
    \A a \in Accounts : mem.acct[a].state = "busy" => mem.acct[a].owner # None

(* A lease outlives its task only when the store failed to write in this
   or an earlier step of that task: the normal paths all release. *)
LeaseOutlivesTaskOnlyByFailedWrite ==
    \A a \in Accounts :
        LET t == mem.acct[a].owner IN
        t # None /\ At(t, "idle") /\ mem.task[t].status \in Terminal => faults.write > 0

(* An account whose quota the provider reported as used up is not given to
   a task again before the daily reset, as long as the process that heard
   it lives and its writes succeed (noteQuota, release). *)
ExhaustedNotClaimed ==
    [][\A t \in Tasks, a \in Accounts :
          At(t, "claim") /\ proc'[t].pc = "mark" /\ proc'[t].acct = a /\ a \in known
              => faults.crash + faults.write > 0]_vars

(* The adapter implements the promise of a relay to its callers. *)
Phase(t) ==
    CASE mem.task[t].status = "absent"    -> "absent"
      [] mem.task[t].status = "succeeded" -> "delivered"
      [] mem.task[t].status = "failed"    -> "failed"
      [] OTHER -> CASE sends[t] = 0 -> "waiting" [] sends[t] = 1 -> "sent" [] OTHER -> "sent twice"

Relay == INSTANCE PaidJob WITH Jobs <- Tasks, phase <- [t \in Tasks |-> Phase(t)]
ImplementsRelay == Relay!Spec

(* An accepted task ends: polled until the video or an error comes, or until
   its time is up, also when its account was given to another task or lost its
   browser. *)
AcceptedTaskEnds ==
    \A t \in Tasks : (mem.task[t].status = "processing") ~> (mem.task[t].status \in Terminal)

(* A leased account comes back. *)
LeaseEnds ==
    \A t \in Tasks, a \in Accounts : (mem.acct[a].owner = t) ~> (mem.acct[a].owner # t)

(* Refuted: a video that the chain reports as finished is downloaded. *)
FinishedVideoIsDownloaded ==
    [][\A t \in Tasks :
          At(t, "ready") /\ ~At(t, "ready")' /\ faults' = faults => At(t, "downloading")']_vars
=============================================================================
