---------------------------- MODULE CodexTurns ----------------------------
(***************************************************************************)
(* The Codex side of the canvas agent (canvas-agent/src/agents.ts,         *)
(* codex-thread.ts and the Codex routes of http-server.ts).  Requests of   *)
(* the pages share one app-server process, one current thread and one      *)
(* queue of turns; every await lets another request, an answer or the exit *)
(* of the process in between.                                              *)
(*                                                                         *)
(* A request waits for at most one answer at a time, so the client's table *)
(* of pending requests is the set of requests that wait for its process.   *)
(***************************************************************************)
EXTENDS Naturals, Sequences

CONSTANTS
    Requests,    \* HTTP requests, posted in the order of their numbers
    Procs,       \* app-server processes alive at a time
    Canvases,
    Threads,     \* bound: threads, numbered in the order they are started
    MaxExits,    \* bound: exits of the app-server
    None         \* no canvas

ASSUME ConstantsOK ==
    /\ Requests \subseteq Nat /\ Procs \subseteq Nat \ {0} /\ Threads \subseteq Nat \ {0}
    /\ 1 \in Threads /\ None \notin Canvases

VARIABLES
    app,        \* codexApp, 0 for null
    current,    \* codexThreadId, 0 for none
    active,     \* activeThreadId of each canvas workspace
    proc,       \* the processes: off, starting or up
    loaded,     \* the threads that each process has started or resumed
    owner,      \* the canvas whose workspace a thread was started in
    rollout,    \* threads that had a turn, which is what the disk has of them
    archived,
    job,        \* what each request is doing
    queue,      \* codexQueue
    turn,       \* the app-server's turn for a request: none, running or completed
    replaced,   \* ghosts: threads a turn was moved away from,
    lost,       \*   requests whose turn was sent to a process without their thread,
    raced,      \*   was a process started while another one was alive
    exits       \* counter for the bound

globals == <<app, current, active>>
server == <<proc, loaded, owner, rollout, archived, turn>>
ghosts == <<replaced, lost, raced>>
vars == <<globals, server, job, queue, ghosts, exits>>

Kinds == {"turn", "new", "resume", "delete", "list"}
Steps == {"new", "start", "verify", "load", "archive", "list", "queued", "read", "resume",
          "replace", "turn", "active", "end"}
ThreadOrNone == Threads \union {0}
ProcOrNone == Procs \union {0}

TypeOK ==
    /\ app \in ProcOrNone /\ current \in ThreadOrNone /\ active \in [Canvases -> ThreadOrNone]
    /\ proc \in [Procs -> {"off", "starting", "up"}] /\ loaded \in [Procs -> SUBSET Threads]
    /\ owner \in [Threads -> Canvases \union {None}]
    /\ rollout \subseteq Threads /\ archived \subseteq Threads
    /\ job \in [Requests -> [kind : Kinds, canvas : Canvases \union {None}, thread : ThreadOrNone,
                             was : ThreadOrNone, step : Steps, on : ProcOrNone,
                             wait : {"no", "start", "reply"}]]
    /\ \A i \in DOMAIN queue : queue[i] \in Requests
    /\ turn \in [Requests -> {"none", "running", "completed"}]

\* The agent starts; an earlier run of it may have left a thread, with or
\* without turns, to a canvas.
Init ==
    /\ app = 0 /\ current = 0
    /\ proc = [p \in Procs |-> "off"] /\ loaded = [p \in Procs |-> {}]
    /\ \E c \in Canvases, known \in BOOLEAN :
        /\ owner = [t \in Threads |-> IF t = 1 /\ known THEN c ELSE None]
        /\ active = [d \in Canvases |-> IF d = c /\ known THEN 1 ELSE 0]
        /\ rollout \in {{}, {1} \intersect {t \in Threads : known}}
    /\ archived = {}
    /\ job = [j \in Requests |-> [kind |-> "list", canvas |-> None, thread |-> 0, was |-> 0,
                                  step |-> "new", on |-> 0, wait |-> "no"]]
    /\ queue = <<>> /\ turn = [j \in Requests |-> "none"]
    /\ replaced = {} /\ lost = {} /\ raced = FALSE /\ exits = 0

Known == {t \in Threads : owner[t] # None}

-----------------------------------------------------------------------------
(* Requests to the app-server.                                             *)

Become(j, r) == job' = [job EXCEPT ![j] = r]
Ended(r) == [r EXCEPT !.step = "end", !.on = 0, !.wait = "no"]
Asking(r, step, p) == [r EXCEPT !.step = step, !.on = p, !.wait = "reply"]

\* `codexApp ||= await CodexAppClient.start(emit)' and then a request: whoever
\* finds no app starts one of its own.
Ask(j, r, step) ==
    \/ /\ app # 0 /\ Become(j, Asking(r, step, app))
       /\ UNCHANGED <<proc, raced>>
    \/ /\ app = 0
       /\ \E p \in Procs :
            /\ proc[p] = "off" /\ \A q \in Procs : q < p => proc[q] # "off"
            /\ proc' = [proc EXCEPT ![p] = "starting"]
            /\ Become(j, [Asking(r, step, p) EXCEPT !.wait = "start"])
       /\ raced' = (raced \/ \E q \in Procs : proc[q] # "off")

\* startTurn uses the app as it is after the thread was resolved.
SendTurn(j, r, p) ==
    /\ Become(j, IF p = 0 THEN Ended(r) ELSE Asking(r, "turn", p))
    /\ lost' = IF p # 0 /\ r.thread \notin loaded'[p] THEN lost \union {j} ELSE lost

\* initialize is answered; the last process to start is the one kept.  A turn
\* is sent at once if its thread has become the current one meanwhile.
Started(j) ==
    /\ job[j].wait = "start"
    /\ proc' = [proc EXCEPT ![job[j].on] = "up"]
    /\ app' = job[j].on
    /\ UNCHANGED loaded
    /\ IF job[j].step = "read" /\ job[j].thread = current
       THEN SendTurn(j, job[j], job[j].on)
       ELSE Become(j, [job[j] EXCEPT !.wait = "reply"]) /\ UNCHANGED lost
    /\ UNCHANGED <<current, active, owner, rollout, archived, turn, queue, replaced, raced, exits>>

\* codexQueue goes on with the next turn when this one has ended.
StillQueued == queue' = IF queue # <<>> /\ job'[Head(queue)].step = "end" THEN Tail(queue) ELSE queue

\* (mutant) keeps codexThreadId
Exit_KeepsThread(p) ==
    /\ exits < MaxExits /\ proc[p] # "off"
    /\ exits' = exits + 1
    /\ proc' = [proc EXCEPT ![p] = "off"] /\ loaded' = [loaded EXCEPT ![p] = {}]
    /\ app' = 0
    /\ job' = [j \in Requests |-> IF job[j].on = p THEN Ended(job[j]) ELSE job[j]]
    /\ StillQueued
    /\ turn' = [j \in Requests |-> IF job[j].on = p THEN "none" ELSE turn[j]]
    /\ UNCHANGED <<current, active, owner, rollout, archived, ghosts>>

\* The exit handler fails every request and turn of its process (failAll), and
\* resets the globals, whichever process they are about.
Exit(p) ==
    /\ exits < MaxExits /\ proc[p] # "off"
    /\ exits' = exits + 1
    /\ proc' = [proc EXCEPT ![p] = "off"] /\ loaded' = [loaded EXCEPT ![p] = {}]
    /\ app' = 0 /\ current' = 0
    /\ job' = [j \in Requests |-> IF job[j].on = p THEN Ended(job[j]) ELSE job[j]]
    /\ StillQueued
    /\ turn' = [j \in Requests |-> IF job[j].on = p THEN "none" ELSE turn[j]]
    /\ UNCHANGED <<active, owner, rollout, archived, ghosts>>

\* A request is answered with an error.
RequestFails(j) ==
    /\ job[j].wait = "reply" /\ turn[j] = "none"
    /\ Become(j, Ended(job[j])) /\ StillQueued
    /\ UNCHANGED <<globals, server, ghosts, exits>>

-----------------------------------------------------------------------------
(* The routes.                                                             *)

Posted(kind, c, t) ==
    [kind |-> kind, canvas |-> c, thread |-> t, was |-> active[c], step |-> "new", on |-> 0,
     wait |-> "no"]

IsNext(j) == job[j].step = "new" /\ \A i \in Requests : i < j => job[i].step # "new"

\* POST /agent/codex/turn: the page names a thread, or leaves it to the workspace.
PostTurn(j) ==
    /\ IsNext(j)
    /\ \E c \in Canvases, named \in Known \union {0} :
         LET t == IF named = 0 THEN active[c] ELSE named
             r == Posted("turn", c, t)
         IN  \/ t = 0 /\ Ask(j, r, "start") /\ UNCHANGED queue
             \/ t \notin {0, active[c]} /\ Ask(j, r, "verify") /\ UNCHANGED queue
             \/ /\ t # 0 /\ t = active[c]
                /\ Become(j, [r EXCEPT !.step = "queued"]) /\ queue' = Append(queue, j)
                /\ UNCHANGED <<proc, raced>>
    /\ UNCHANGED <<globals, loaded, owner, rollout, archived, turn, replaced, lost, exits>>

\* The routes that start, resume, delete and list threads
PostOther(j) ==
    /\ IsNext(j)
    /\ \E c \in Canvases :
        \/ Ask(j, Posted("new", c, 0), "start")
        \/ Ask(j, Posted("list", c, 0), "list")
        \/ \E t \in Known, kind \in {"resume", "delete"} : Ask(j, Posted(kind, c, t), "load")
    /\ UNCHANGED <<globals, loaded, owner, rollout, archived, turn, queue, replaced, lost, exits>>

-----------------------------------------------------------------------------
(* Turns.                                                                  *)

\* runCodexTurnNow, at the head of the queue: with an app-server the current
\* thread is used as it is, any other is read first (resolveCodexThread).
RunTurn(j) ==
    /\ queue # <<>> /\ Head(queue) = j /\ job[j].step = "queued"
    /\ \/ /\ app = 0 \/ job[j].thread # current
          /\ Ask(j, job[j], "read") /\ UNCHANGED <<loaded, lost>>
       \/ /\ app # 0 /\ job[j].thread = current
          /\ UNCHANGED loaded /\ SendTurn(j, job[j], app) /\ UNCHANGED <<proc, raced>>
    /\ StillQueued
    /\ UNCHANGED <<globals, owner, rollout, archived, turn, replaced, exits>>

\* thread/start is answered with a new thread.
ThreadStarted(j) ==
    /\ job[j].wait = "reply" /\ job[j].step \in {"start", "replace"}
    /\ \E t \in Threads \ Known :
        /\ \A u \in Threads \ Known : t <= u
        /\ owner' = [owner EXCEPT ![t] = job[j].canvas]
        /\ loaded' = [loaded EXCEPT ![job[j].on] = @ \union {t}]
        /\ current' = t
        /\ active' = [active EXCEPT ![job[j].canvas] = t]
        /\ LET r == [job[j] EXCEPT !.thread = t]
           IN  \/ /\ job[j].step = "start" /\ job[j].kind = "new"
                  /\ Become(j, Ended(r)) /\ UNCHANGED <<queue, replaced, lost>>
               \/ /\ job[j].step = "start" /\ job[j].kind = "turn"
                  /\ Become(j, [r EXCEPT !.step = "queued", !.on = 0, !.wait = "no"])
                  /\ queue' = Append(queue, j) /\ UNCHANGED <<replaced, lost>>
               \/ /\ job[j].step = "replace"
                  /\ replaced' = replaced \union {job[j].thread}
                  /\ SendTurn(j, r, app) /\ StillQueued
    /\ UNCHANGED <<app, proc, rollout, archived, turn, raced, exits>>

OnDisk(t) == t \in rollout \ archived
MayRead(j) == OnDisk(job[j].thread) /\ owner[job[j].thread] = job[j].canvas

\* thread/read is answered, and the thread's directory compared with the canvas's.
ThreadRead(j) ==
    /\ job[j].wait = "reply" /\ MayRead(j)
    /\ \/ /\ job[j].step = "verify"
          /\ active' = [active EXCEPT ![job[j].canvas] = job[j].thread]
          /\ Become(j, [job[j] EXCEPT !.step = "queued", !.on = 0, !.wait = "no"])
          /\ queue' = Append(queue, j)
       \/ /\ job[j].step = "read"
          /\ Become(j, [job[j] EXCEPT !.step = "resume"]) /\ UNCHANGED <<active, queue>>
       \/ /\ job[j].step = "load"
          /\ Become(j, IF app = 0 THEN Ended(job[j])
                       ELSE Asking(job[j], IF job[j].kind = "delete" THEN "archive" ELSE "resume", app))
          /\ UNCHANGED <<active, queue>>
    /\ UNCHANGED <<app, current, server, ghosts, exits>>

\* thread/read or thread/resume fails, or the thread is of another canvas: only
\* a thread that never had a turn is replaced.
ThreadNotRead(j) ==
    /\ job[j].wait = "reply" /\ job[j].step \in {"verify", "load", "read", "resume"} /\ ~MayRead(j)
    /\ IF job[j].kind = "turn" /\ job[j].step \in {"read", "resume"} /\ ~OnDisk(job[j].thread)
       THEN Become(j, [job[j] EXCEPT !.step = "replace"])
       ELSE Become(j, Ended(job[j]))
    /\ StillQueued
    /\ UNCHANGED <<globals, server, ghosts, exits>>

ThreadResumed(j) ==
    /\ job[j].wait = "reply" /\ job[j].step = "resume" /\ OnDisk(job[j].thread)
    /\ loaded' = [loaded EXCEPT ![job[j].on] = @ \union {job[j].thread}]
    /\ current' = job[j].thread
    /\ \/ /\ job[j].kind = "turn" /\ SendTurn(j, job[j], app) /\ UNCHANGED active
       \/ /\ job[j].kind = "resume" /\ Become(j, Ended(job[j]))
          /\ active' = [active EXCEPT ![job[j].canvas] = job[j].thread]
          /\ UNCHANGED lost
    /\ StillQueued
    /\ UNCHANGED <<app, proc, owner, rollout, archived, turn, replaced, raced, exits>>

\* (mutant) leaves the name of the canvas where the thread was
ThreadArchived_Unset(j) ==
    /\ job[j].wait = "reply" /\ job[j].step = "archive"
    /\ archived' = archived \union {job[j].thread}
    /\ active' = IF job[j].was = job[j].thread THEN [active EXCEPT ![job[j].canvas] = job[j].canvas] ELSE active
    /\ Become(j, Ended(job[j]))
    /\ UNCHANGED <<app, current, proc, loaded, owner, rollout, turn, queue, ghosts, exits>>

\* thread/archive: the active thread is cleared by what it was when the request
\* came in, and the current thread is kept.
ThreadArchived(j) ==
    /\ job[j].wait = "reply" /\ job[j].step = "archive"
    /\ archived' = archived \union {job[j].thread}
    /\ active' = IF job[j].was = job[j].thread THEN [active EXCEPT ![job[j].canvas] = 0] ELSE active
    /\ Become(j, Ended(job[j]))
    /\ UNCHANGED <<app, current, proc, loaded, owner, rollout, turn, queue, ghosts, exits>>

ThreadsListed(j) ==
    /\ job[j].wait = "reply" /\ job[j].step = "list"
    /\ Become(j, Ended(job[j]))
    /\ UNCHANGED <<globals, server, queue, ghosts, exits>>

\* The app-server begins the turn if it has the thread ...
TurnBegins(j) ==
    /\ job[j].step = "turn" /\ turn[j] = "none" /\ job[j].thread \in loaded[job[j].on]
    /\ turn' = [turn EXCEPT ![j] = "running"]
    /\ rollout' = rollout \union {job[j].thread}
    /\ UNCHANGED <<globals, proc, loaded, owner, archived, job, queue, ghosts, exits>>

TurnRefused(j) ==
    /\ job[j].step = "turn" /\ job[j].thread \notin loaded[job[j].on]
    /\ Become(j, Ended(job[j])) /\ StillQueued
    /\ UNCHANGED <<globals, server, ghosts, exits>>

\* (mutant) does not look into completedTurns
TurnReplies_Late(j) ==
    /\ job[j].step = "turn" /\ turn[j] # "none"
    /\ Become(j, [job[j] EXCEPT !.step = "active", !.wait = "no"]) /\ StillQueued
    /\ UNCHANGED <<globals, server, ghosts, exits>>

\* ... and answers turn/start, before or after the turn has completed.
TurnReplies(j) ==
    /\ job[j].step = "turn" /\ turn[j] # "none"
    /\ Become(j, IF turn[j] = "completed" THEN Ended(job[j])
                 ELSE [job[j] EXCEPT !.step = "active", !.wait = "no"])
    /\ StillQueued
    /\ UNCHANGED <<globals, server, ghosts, exits>>

\* turn/completed: ends the active turn, or goes to completedTurns.
TurnCompletes(j) ==
    /\ turn[j] = "running"
    /\ turn' = [turn EXCEPT ![j] = "completed"]
    /\ IF job[j].step = "active" THEN Become(j, Ended(job[j])) ELSE UNCHANGED job
    /\ StillQueued
    /\ UNCHANGED <<globals, proc, loaded, owner, rollout, archived, ghosts, exits>>

-----------------------------------------------------------------------------
\* What the event loop and the app-server do of themselves for a request
Progress(j) ==
    \/ Started(j) \/ RunTurn(j)
    \/ ThreadStarted(j) \/ ThreadRead(j) \/ ThreadNotRead(j) \/ ThreadResumed(j)
    \/ ThreadArchived(j) \/ ThreadsListed(j)
    \/ TurnBegins(j) \/ TurnRefused(j) \/ TurnReplies(j) \/ TurnCompletes(j)

Next ==
    \/ \E j \in Requests : PostTurn(j) \/ PostOther(j) \/ Progress(j) \/ RequestFails(j)
    \/ \E p \in Procs : Exit(p)

\* The app-server answers what it is asked and completes its turns, unless it
\* exits.  Nothing in the agent limits how long it takes.
Fairness == \A j \in Requests : WF_vars(Progress(j))

Spec == Init /\ [][Next]_vars /\ Fairness

-----------------------------------------------------------------------------
\* TurnInItsThread: a turn goes to a thread of its own canvas, a conversation
\* that has turns is never replaced by an empty one, and the process that gets
\* the turn has the thread, unless two processes were alive
\* (resolveCodexThread; codex-thread.ts:16, "within one process the first turn
\* is started directly").
TurnInItsThread ==
    /\ \A j \in Requests : turn[j] # "none" => owner[job[j].thread] = job[j].canvas
    /\ \A t \in replaced : ~OnDisk(t)
    /\ ~raced => lost = {}

\* TurnsEnd: a request that was posted ends, whatever order the answer and the
\* completion of its turn come in and whenever the process exits; a turn that
\* never ended would block every later one (runCodexTurn, startTurn, failAll).
TurnsEnd == \A j \in Requests : job[j].step # "new" ~> job[j].step = "end"
=============================================================================
