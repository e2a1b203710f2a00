--------------------------- MODULE CodexTurnsProofs ---------------------------
(***************************************************************************)
(* What CodexTurns promises of the turns, for every number of requests,    *)
(* processes, canvases and threads.  Turns are kept apart by codexQueue:   *)
(* only its head has gone past waiting, so that nobody else gives a thread *)
(* its first turn while the head replaces or resumes one.  Processes are   *)
(* kept apart by nothing: as long as no second one is started, the current *)
(* thread is one the process alive has loaded.                             *)
(***************************************************************************)
EXTENDS CodexTurns, TLAPS

\* The steps of a turn that was handed to codexQueue, and those of its head
Begun == {"read", "resume", "replace", "turn", "active"}
InQueue(r) == r.kind = "turn" /\ r.step \in Begun \union {"queued"}
Running(r) == r.kind = "turn" /\ r.step \in Begun

\* The thread of the request was started in the workspace of its canvas.
Owned(r) == r.thread \in Threads /\ r.canvas \in Canvases /\ owner[r.thread] = r.canvas

Request == [kind : Kinds, canvas : Canvases \union {None}, thread : ThreadOrNone,
            was : ThreadOrNone, step : Steps, on : ProcOrNone, wait : {"no", "start", "reply"}]

TypeInv ==
    /\ TypeOK
    /\ queue \in Seq(Requests) /\ raced \in BOOLEAN
    /\ replaced \subseteq Threads

\* The shape of a request at each of its steps
Shape(r) ==
    /\ r.step # "new" => r.canvas \in Canvases
    /\ r.step \in {"new", "queued", "end"} => r.on = 0
    /\ r.step \in {"new", "queued", "end", "active"} => r.wait = "no"
    /\ r.step \in {"read", "replace", "turn", "active", "verify"} => r.kind = "turn"
    /\ r.step = "resume" => r.kind \in {"turn", "resume"}
    /\ r.step = "start" => r.kind \in {"turn", "new"}
    /\ r.step = "load" => r.kind \in {"resume", "delete"}
    /\ r.wait # "no" => r.on # 0
    /\ r.step = "turn" => r.wait = "reply"
    /\ r.wait = "start" => r.step \in {"start", "verify", "load", "list", "read"}

\* A request works on a thread of its own canvas once the thread was started or
\* read for it; so does the turn the app-server has for it.
JobInv ==
    \A j \in Requests :
        /\ Shape(job[j])
        /\ job[j].step \in Begun \union {"queued", "archive"} => Owned(job[j])
        /\ turn[j] # "none" => job[j].step \in {"turn", "active", "end"} /\ Owned(job[j])

ActiveInv == \A c \in Canvases : active[c] # 0 => owner[active[c]] = c

QueueInv ==
    /\ \A i \in DOMAIN queue : InQueue(job[queue[i]])
    /\ \A i \in DOMAIN queue : i > 1 => job[queue[i]].step = "queued"
    /\ \A i, k \in DOMAIN queue : queue[i] = queue[k] => i = k
    /\ \A j \in Requests : Running(job[j]) => queue # <<>> /\ queue[1] = j

\* A thread that is or was replaced has no turns, and no turn is on the way to it.
ReplacedInv ==
    /\ \A t \in replaced : owner[t] # None /\ ~OnDisk(t) /\ t # current
    /\ \A j \in Requests : job[j].step = "replace" => ~OnDisk(job[j].thread)
    /\ \A j \in Requests : job[j].step = "turn" => job[j].thread \notin replaced

\* With one process at a time, the globals are about the process alive.
ProcInv ==
    /\ app # 0 => proc[app] # "off"
    /\ \A j \in Requests : job[j].on # 0 => proc[job[j].on] # "off"
    /\ current # 0 => owner[current] # None
    /\ ~raced =>
        /\ \A p, q \in Procs : proc[p] # "off" /\ proc[q] # "off" => p = q
        /\ current # 0 => \E p \in Procs : proc[p] # "off" /\ current \in loaded[p]
        /\ lost = {}

CodexInv == TypeInv /\ JobInv /\ ActiveInv /\ QueueInv /\ ReplacedInv /\ ProcInv

-----------------------------------------------------------------------------
(* What a step of one request leaves alone.                                *)

LEMMA Types ==
  ASSUME TypeInv
  PROVE  /\ app \in ProcOrNone /\ current \in ThreadOrNone /\ active \in [Canvases -> ThreadOrNone]
         /\ proc \in [Procs -> {"off", "starting", "up"}] /\ loaded \in [Procs -> SUBSET Threads]
         /\ owner \in [Threads -> Canvases \union {None}]
         /\ rollout \subseteq Threads /\ archived \subseteq Threads
         /\ job \in [Requests -> Request] /\ queue \in Seq(Requests)
         /\ turn \in [Requests -> {"none", "running", "completed"}]
         /\ raced \in BOOLEAN /\ replaced \subseteq Threads
BY DEF TypeInv, TypeOK, Request

LEMMA Became ==
  ASSUME TypeInv, NEW j \in Requests, NEW r \in Request, Become(j, r)
  PROVE  /\ job' \in [Requests -> Request] /\ job'[j] = r
         /\ \A i \in Requests \ {j} : job'[i] = job[i]
BY Types DEF Become

LEMMA EndedIs ==
  ASSUME NEW r \in Request
  PROVE  /\ Ended(r) \in Request
         /\ Ended(r).step = "end" /\ Ended(r).on = 0 /\ Ended(r).wait = "no"
         /\ Ended(r).kind = r.kind /\ Ended(r).canvas = r.canvas /\ Ended(r).thread = r.thread
BY DEF Ended, Request, Steps, ProcOrNone

LEMMA AskingIs ==
  ASSUME NEW r \in Request, NEW step \in Steps, NEW p \in Procs
  PROVE  /\ Asking(r, step, p) \in Request
         /\ Asking(r, step, p).step = step /\ Asking(r, step, p).on = p
         /\ Asking(r, step, p).wait = "reply" /\ Asking(r, step, p).kind = r.kind
         /\ Asking(r, step, p).canvas = r.canvas /\ Asking(r, step, p).thread = r.thread
BY DEF Asking, Request, ProcOrNone

\* Threads keep their canvas, and requests other than j what they are doing.
OwnersKept == \A t \in Threads : owner[t] # None => owner'[t] = owner[t]
Others(j) == \A i \in Requests \ {j} : job'[i] = job[i] /\ turn'[i] = turn[i]
Fits(r, t, own) ==
    /\ Shape(r)
    /\ r.step \in Begun \union {"queued", "archive"} => own
    /\ t # "none" => r.step \in {"turn", "active", "end"} /\ own

LEMMA JobKeeps ==
  ASSUME ConstantsOK, TypeInv, JobInv, OwnersKept, NEW j \in Requests, Others(j),
         Fits(job'[j], turn'[j], job'[j].thread \in Threads /\ job'[j].canvas \in Canvases
                                   /\ owner'[job'[j].thread] = job'[j].canvas)
  PROVE  JobInv'
<1> SUFFICES ASSUME NEW i \in Requests
             PROVE  Fits(job'[i], turn'[i], Owned(job[i])')
  BY DEF JobInv, Fits
<1>1. CASE i = j
  BY <1>1 DEF Owned
<1>2. CASE i # j
  <2>1. Owned(job[i]) => Owned(job[i])'
    BY <1>2 DEF Owned, Others, OwnersKept, ConstantsOK
  <2> QED BY <1>2, <2>1 DEF JobInv, Others, Fits
<1> QED BY <1>1, <1>2

\* How far the request is along the queue
Along(j, r, s) ==
    /\ InQueue(r) => s.step = "end" \/ (InQueue(s) /\ (s.step = "queued" => r.step = "queued"))
    /\ InQueue(s) => InQueue(r)
    /\ Running(s) => Running(r) \/ (queue # <<>> /\ queue[1] = j)
    /\ s.step = "end" => r.step # "queued"

LEMMA QueueKeeps ==
  ASSUME TypeInv, QueueInv, NEW j \in Requests, Others(j), Along(j, job[j], job'[j]), StillQueued
  PROVE  queue' \in Seq(Requests) /\ QueueInv'
<1> USE Types
<1>1. \A i \in DOMAIN queue : queue[i] \in Requests
  OBVIOUS
<1>2. CASE queue # <<>> /\ job'[Head(queue)].step = "end"
  <2>1. /\ queue' = Tail(queue) /\ Tail(queue) \in Seq(Requests)
        /\ \A i \in DOMAIN Tail(queue) : i + 1 \in DOMAIN queue /\ Tail(queue)[i] = queue[i + 1] /\ i + 1 > 1
        /\ Head(queue) = queue[1] /\ 1 \in DOMAIN queue /\ DOMAIN Tail(queue) \subseteq Nat
    BY <1>2 DEF StillQueued
  <2>2. queue[1] = j
    BY <1>1, <1>2, <2>1 DEF QueueInv, Others, InQueue, Begun
  <2>3. \A i \in DOMAIN Tail(queue) : job'[queue[i + 1]] = job[queue[i + 1]] /\ job[queue[i + 1]].step = "queued"
                                       /\ InQueue(job[queue[i + 1]])
    BY <1>1, <2>1, <2>2 DEF QueueInv, Others
  <2>4. \A i, k \in DOMAIN Tail(queue) : Tail(queue)[i] = Tail(queue)[k] => i = k
    BY <2>1 DEF QueueInv
  <2>5. \A i \in Requests : ~Running(job'[i])
    BY <1>2, <2>1, <2>2 DEF QueueInv, Others, Running, Begun
  <2> QED BY <2>1, <2>3, <2>4, <2>5 DEF QueueInv
<1>3. CASE ~(queue # <<>> /\ job'[Head(queue)].step = "end")
  <2>1. queue' = queue /\ (queue # <<>> => Head(queue) = queue[1] /\ 1 \in DOMAIN queue)
    BY <1>3 DEF StillQueued
  <2>2. \A i \in DOMAIN queue : InQueue(job'[queue[i]]) /\ (i > 1 => job'[queue[i]].step = "queued")
    <3> SUFFICES ASSUME NEW i \in DOMAIN queue
                 PROVE  InQueue(job'[queue[i]]) /\ (i > 1 => job'[queue[i]].step = "queued")
      OBVIOUS
    <3>1. CASE queue[i] # j
      BY <1>1, <3>1 DEF QueueInv, Others
    <3>2. CASE queue[i] = j /\ i = 1
      BY <1>3, <2>1, <3>2 DEF QueueInv, Along
    <3>3. CASE queue[i] = j /\ i # 1
      <4>1. i > 1 /\ queue # <<>> /\ queue[1] # j
        BY <2>1, <3>3 DEF QueueInv
      <4>2. job[j].step = "queued" /\ InQueue(job[j])
        BY <3>3, <4>1 DEF QueueInv
      <4> QED BY <3>3, <4>1, <4>2 DEF Along, InQueue, Running, Begun
    <3> QED BY <3>1, <3>2, <3>3
  <2>3. \A i \in Requests : Running(job'[i]) => queue # <<>> /\ queue[1] = i
    BY DEF QueueInv, Others, Along
  <2> QED BY <2>1, <2>2, <2>3 DEF QueueInv
<1> QED BY <1>2, <1>3

LEMMA QueueSame ==
  ASSUME TypeInv, QueueInv, NEW j \in Requests, Others(j), ~InQueue(job[j]), UNCHANGED queue
  PROVE  StillQueued
<1>1. queue # <<>> => Head(queue) \in Requests /\ Head(queue) = queue[1] /\ 1 \in DOMAIN queue
  BY Types
<1> QED BY <1>1 DEF StillQueued, QueueInv, Others, InQueue, Begun

LEMMA QueueAppends ==
  ASSUME TypeInv, QueueInv, NEW j \in Requests, Others(j), ~InQueue(job[j]),
         job'[j].kind = "turn", job'[j].step = "queued", queue' = Append(queue, j)
  PROVE  queue' \in Seq(Requests) /\ QueueInv'
<1> USE Types
<1>1. /\ queue' \in Seq(Requests) /\ Len(queue') = Len(queue) + 1 /\ Len(queue) \in Nat
      /\ DOMAIN queue' = 1 .. Len(queue) + 1 /\ DOMAIN queue = 1 .. Len(queue)
      /\ \A i \in DOMAIN queue : queue'[i] = queue[i] /\ queue[i] \in Requests
      /\ queue'[Len(queue) + 1] = j
  OBVIOUS
<1>2. \A i \in DOMAIN queue : queue[i] # j /\ job'[queue[i]] = job[queue[i]]
  BY <1>1 DEF QueueInv, Others
<1>3. \A i \in DOMAIN queue' : InQueue(job'[queue'[i]]) /\ (i > 1 => job'[queue'[i]].step = "queued")
  BY <1>1, <1>2 DEF QueueInv, InQueue
<1>4. \A i, k \in DOMAIN queue' : queue'[i] = queue'[k] => i = k
  BY <1>1, <1>2 DEF QueueInv
<1>5. \A i \in Requests : Running(job'[i]) => queue' # <<>> /\ queue'[1] = i
  <2> SUFFICES ASSUME NEW i \in Requests, Running(job'[i]) PROVE queue' # <<>> /\ queue'[1] = i
    OBVIOUS
  <2>1. i # j
    BY DEF Running, Begun
  <2>2. queue # <<>> /\ queue[1] = i
    BY <2>1 DEF QueueInv, Others
  <2> QED BY <1>1, <2>2
<1> QED BY <1>1, <1>3, <1>4, <1>5 DEF QueueInv

\* The processes and the globals stay as they are.
LEMMA ProcKeeps ==
  ASSUME TypeInv, ProcInv, NEW j \in Requests, Others(j), UNCHANGED <<app, current, proc, loaded, raced, lost>>,
         OwnersKept, ConstantsOK, job'[j].on \in {0, app, job[j].on}
  PROVE  ProcInv'
<1>1. app' # 0 => proc'[app'] # "off"
  BY DEF ProcInv
<1>2. ASSUME NEW i \in Requests, job'[i].on # 0 PROVE proc'[job'[i].on] # "off"
  <2>1. CASE i = j
    BY <1>1, <1>2, <2>1 DEF ProcInv
  <2>2. CASE i # j
    BY <1>2, <2>2 DEF ProcInv, Others
  <2> QED BY <2>1, <2>2
<1>3. current' # 0 => owner'[current'] # None
  BY Types DEF ProcInv, OwnersKept, ThreadOrNone
<1>4. /\ ~raced' =>
         /\ \A p, q \in Procs : proc'[p] # "off" /\ proc'[q] # "off" => p = q
         /\ current' # 0 => \E p \in Procs : proc'[p] # "off" /\ current' \in loaded'[p]
         /\ lost' = {}
  BY DEF ProcInv
<1> QED BY <1>1, <1>2, <1>3, <1>4 DEF ProcInv

\* The request has just ended, and nothing else has happened.
LEMMA EndKeeps ==
  ASSUME ConstantsOK, CodexInv, NEW j \in Requests, Become(j, Ended(job[j])), StillQueued,
         job[j].step \notin {"new", "queued"}, UNCHANGED <<globals, server, ghosts>>
  PROVE  CodexInv'
<1> USE DEF CodexInv, globals, server, ghosts
<1>1. /\ job[j] \in Request /\ job' \in [Requests -> Request] /\ job'[j] = Ended(job[j]) /\ Others(j)
      /\ job'[j].step = "end" /\ job'[j].on = 0 /\ job'[j].wait = "no" /\ job'[j].kind = job[j].kind
      /\ job'[j].canvas = job[j].canvas /\ job'[j].thread = job[j].thread /\ OwnersKept
  <2>1. job[j] \in Request
    BY Types
  <2>2. Ended(job[j]) \in Request
    BY <2>1, EndedIs
  <2>3. /\ job' \in [Requests -> Request] /\ job'[j] = Ended(job[j])
        /\ \A i \in Requests \ {j} : job'[i] = job[i]
    BY <2>2, Became
  <2> QED BY <2>1, <2>3, EndedIs DEF Others, OwnersKept
<1>2. JobInv'
  <2>1. Fits(job'[j], turn'[j], job'[j].thread \in Threads /\ job'[j].canvas \in Canvases
                                   /\ owner'[job'[j].thread] = job'[j].canvas)
    BY <1>1 DEF Fits, JobInv, Shape, Owned, Begun
  <2> QED BY <1>1, <2>1, JobKeeps
<1>3. QueueInv' /\ queue' \in Seq(Requests)
  <2>1. Along(j, job[j], job'[j])
    BY <1>1 DEF Along, InQueue, Running, Begun
  <2> QED BY <1>1, <2>1, QueueKeeps
<1>4. TypeInv'
  <2>1. \A i \in DOMAIN queue' : queue'[i] \in Requests
    BY <1>3
  <2> QED BY <1>1, <1>3, <2>1 DEF TypeInv, TypeOK, Request
<1>5. ActiveInv'
  BY DEF ActiveInv
<1>6. ReplacedInv'
  BY <1>1 DEF ReplacedInv, OnDisk, Others
<1>7. ProcInv'
  BY <1>1, ProcKeeps
<1> QED BY <1>2, <1>3, <1>4, <1>5, <1>6, <1>7

LEMMA RequestFailsKeeps ==
  ASSUME ConstantsOK, CodexInv, NEW j \in Requests, RequestFails(j) PROVE CodexInv'
<1>1. job[j].step \notin {"new", "queued"}
  BY DEF CodexInv, JobInv, Shape, RequestFails
<1> QED BY <1>1, EndKeeps DEF RequestFails

LEMMA ThreadsListedKeeps ==
  ASSUME ConstantsOK, CodexInv, NEW j \in Requests, ThreadsListed(j) PROVE CodexInv'
<1>1. Others(j) /\ ~InQueue(job[j])
  BY Types DEF Others, InQueue, Begun, CodexInv, ThreadsListed, Become, server
<1>2. StillQueued
  BY <1>1, QueueSame DEF CodexInv, ThreadsListed
<1> QED BY <1>2, EndKeeps DEF ThreadsListed

LEMMA TurnRefusedKeeps ==
  ASSUME ConstantsOK, CodexInv, NEW j \in Requests, TurnRefused(j) PROVE CodexInv'
BY EndKeeps DEF TurnRefused

\* The request has moved to its next step, and nothing else has happened.
LEMMA MoveKeeps ==
  ASSUME ConstantsOK, CodexInv, NEW j \in Requests, NEW step \in Steps, NEW wait \in {"no", "reply"},
         Become(j, [job[j] EXCEPT !.step = step, !.wait = wait]), StillQueued, job[j].wait = "reply",
         \/ /\ job[j].step = "turn" /\ step = "active" /\ wait = "no"
         \/ /\ job[j].step = "read" /\ step = "resume" /\ wait = "reply"
         \/ /\ job[j].step \in {"read", "resume"} /\ step = "replace" /\ wait = "reply"
            /\ job[j].kind = "turn" /\ ~OnDisk(job[j].thread),
         UNCHANGED <<globals, server, ghosts>>
  PROVE  CodexInv'
<1> USE DEF CodexInv, globals, server, ghosts
<1>1. /\ job[j] \in Request /\ job' \in [Requests -> Request] /\ Others(j)
      /\ job'[j].step = step /\ job'[j].on = job[j].on /\ job'[j].wait = wait /\ job'[j].kind = job[j].kind
      /\ job'[j].canvas = job[j].canvas /\ job'[j].thread = job[j].thread /\ OwnersKept
  <2> DEFINE r == [job[j] EXCEPT !.step = step, !.wait = wait]
  <2>1. job[j] \in Request
    BY Types
  <2>2. /\ r \in Request /\ r.step = step /\ r.on = job[j].on /\ r.wait = wait /\ r.kind = job[j].kind
        /\ r.canvas = job[j].canvas /\ r.thread = job[j].thread
    BY <2>1 DEF Request
  <2>3. Become(j, r)
    OBVIOUS
  <2> HIDE DEF r
  <2>4. /\ job' \in [Requests -> Request] /\ job'[j] = r
        /\ \A i \in Requests \ {j} : job'[i] = job[i]
    BY <2>2, <2>3, Became
  <2> QED BY <2>1, <2>2, <2>4 DEF Others, OwnersKept
<1>2. JobInv'
  <2>1. Fits(job'[j], turn'[j], job'[j].thread \in Threads /\ job'[j].canvas \in Canvases
                                   /\ owner'[job'[j].thread] = job'[j].canvas)
    BY <1>1 DEF Fits, JobInv, Shape, Owned, Begun
  <2> QED BY <1>1, <2>1, JobKeeps
<1>3. QueueInv' /\ queue' \in Seq(Requests)
  <2>1. Along(j, job[j], job'[j])
    BY <1>1 DEF Along, InQueue, Running, Begun, JobInv, Shape
  <2> QED BY <1>1, <2>1, QueueKeeps
<1>4. TypeInv'
  <2>1. \A i \in DOMAIN queue' : queue'[i] \in Requests
    BY <1>3
  <2> QED BY <1>1, <1>3, <2>1 DEF TypeInv, TypeOK, Request
<1>5. ActiveInv'
  BY DEF ActiveInv
<1>6. ReplacedInv'
  BY <1>1 DEF ReplacedInv, OnDisk, Others
<1>7. ProcInv'
  BY <1>1, ProcKeeps
<1> QED BY <1>2, <1>3, <1>4, <1>5, <1>6, <1>7

LEMMA TurnRepliesKeeps ==
  ASSUME ConstantsOK, CodexInv, NEW j \in Requests, TurnReplies(j) PROVE CodexInv'
<1>1. CASE turn[j] = "completed"
  BY <1>1, EndKeeps DEF TurnReplies
<1>2. CASE turn[j] # "completed"
  <2>1. job[j].wait = "reply"
    BY DEF CodexInv, JobInv, Shape, TurnReplies
  <2> QED BY <1>2, <2>1, MoveKeeps DEF TurnReplies, Steps
<1> QED BY <1>1, <1>2

LEMMA ThreadNotReadKeeps ==
  ASSUME ConstantsOK, CodexInv, NEW j \in Requests, ThreadNotRead(j) PROVE CodexInv'
<1>1. CASE job[j].kind = "turn" /\ job[j].step \in {"read", "resume"} /\ ~OnDisk(job[j].thread)
  <2>1. job[j] \in Request /\ job[j].wait = "reply"
    BY Types DEF ThreadNotRead, CodexInv
  <2>2. [job[j] EXCEPT !.step = "replace"] = [job[j] EXCEPT !.step = "replace", !.wait = "reply"]
    BY <2>1 DEF Request
  <2>3. Become(j, [job[j] EXCEPT !.step = "replace", !.wait = "reply"]) /\ StillQueued
        /\ UNCHANGED <<globals, server, ghosts>>
    BY <1>1, <2>2 DEF ThreadNotRead
  <2> QED BY <1>1, <2>1, <2>3, MoveKeeps DEF Steps
<1>2. CASE ~(job[j].kind = "turn" /\ job[j].step \in {"read", "resume"} /\ ~OnDisk(job[j].thread))
  BY <1>2, EndKeeps DEF ThreadNotRead
<1> QED BY <1>1, <1>2

-----------------------------------------------------------------------------
(* The app-server: a turn begins and completes, a process starts or exits. *)

LEMMA TurnBeginsKeeps ==
  ASSUME ConstantsOK, CodexInv, NEW j \in Requests, TurnBegins(j) PROVE CodexInv'
<1> USE DEF CodexInv, TurnBegins, globals, ghosts
<1>1. /\ Others(j) /\ OwnersKept /\ Owned(job[j]) /\ job[j].kind = "turn" /\ turn'[j] = "running"
      /\ turn' \in [Requests -> {"none", "running", "completed"}] /\ Running(job[j])
  BY Types DEF Others, OwnersKept, JobInv, Shape, Begun, Running
<1>2. JobInv'
  <2>1. Fits(job'[j], turn'[j], job'[j].thread \in Threads /\ job'[j].canvas \in Canvases
                                   /\ owner'[job'[j].thread] = job'[j].canvas)
    BY <1>1 DEF Fits, JobInv, Shape, Owned, Begun
  <2> QED BY <1>1, <2>1, JobKeeps
<1>3. TypeInv'
  BY <1>1 DEF TypeInv, TypeOK, Owned
<1>4. QueueInv' /\ ActiveInv' /\ ProcInv'
  BY DEF QueueInv, ActiveInv, ProcInv
<1>5. ReplacedInv'
  <2>1. job[j].thread \notin replaced
    BY DEF ReplacedInv
  <2>2. \A i \in Requests : job[i].step # "replace"
    BY <1>1 DEF QueueInv, Running, JobInv, Shape, Begun
  <2> QED BY <2>1, <2>2 DEF ReplacedInv, OnDisk
<1> QED BY <1>2, <1>3, <1>4, <1>5

LEMMA TurnCompletesKeeps ==
  ASSUME ConstantsOK, CodexInv, NEW j \in Requests, TurnCompletes(j) PROVE CodexInv'
<1> USE DEF CodexInv, TurnCompletes, globals, ghosts
<1>1. /\ job[j] \in Request /\ job' \in [Requests -> Request] /\ Others(j)
      /\ turn' \in [Requests -> {"none", "running", "completed"}] /\ OwnersKept
      /\ job'[j].kind = job[j].kind /\ job'[j].canvas = job[j].canvas /\ job'[j].thread = job[j].thread
      /\ IF job[j].step = "active"
         THEN job'[j].step = "end" /\ job'[j].on = 0 /\ job'[j].wait = "no"
         ELSE job'[j] = job[j]
  <2>1. job[j] \in Request /\ turn \in [Requests -> {"none", "running", "completed"}]
    BY Types
  <2>2. CASE job[j].step = "active"
    <3>1. Ended(job[j]) \in Request /\ Become(j, Ended(job[j]))
      BY <2>1, <2>2, EndedIs
    <3>2. /\ job' \in [Requests -> Request] /\ job'[j] = Ended(job[j])
          /\ \A i \in Requests \ {j} : job'[i] = job[i]
      BY <3>1, Became
    <3> QED BY <2>1, <2>2, <3>2, EndedIs DEF Others, OwnersKept
  <2>3. CASE job[j].step # "active"
    BY <2>1, <2>3, Types DEF Others, OwnersKept
  <2> QED BY <2>2, <2>3
<1>2. JobInv'
  <2>1. Fits(job'[j], turn'[j], job'[j].thread \in Threads /\ job'[j].canvas \in Canvases
                                   /\ owner'[job'[j].thread] = job'[j].canvas)
    BY <1>1 DEF Fits, JobInv, Shape, Owned, Begun
  <2> QED BY <1>1, <2>1, JobKeeps
<1>3. QueueInv' /\ queue' \in Seq(Requests)
  <2>1. Along(j, job[j], job'[j])
    BY <1>1 DEF Along, InQueue, Running, Begun, JobInv
  <2> QED BY <1>1, <2>1, QueueKeeps
<1>4. TypeInv'
  <2>1. \A i \in DOMAIN queue' : queue'[i] \in Requests
    BY <1>3
  <2> QED BY <1>1, <1>3, <2>1 DEF TypeInv, TypeOK, Request
<1>5. ActiveInv'
  BY DEF ActiveInv
<1>6. ReplacedInv'
  BY <1>1 DEF ReplacedInv, OnDisk, Others
<1>7. ProcInv'
  BY <1>1, ProcKeeps
<1> QED BY <1>2, <1>3, <1>4, <1>5, <1>6, <1>7

LEMMA StartedKeeps ==
  ASSUME ConstantsOK, CodexInv, NEW j \in Requests, Started(j) PROVE CodexInv'
<1> USE DEF CodexInv
<1>0. /\ job[j].wait = "start" /\ proc' = [proc EXCEPT ![job[j].on] = "up"] /\ app' = job[j].on
      /\ UNCHANGED <<loaded, current, active, owner, rollout, archived, turn, queue, replaced, raced>>
      /\ job[j] \in Request /\ job[j].on \in Procs /\ job[j].on # 0 /\ "turn" \in Steps
      /\ lost' \in {lost, lost \union {j}}
  BY Types DEF Started, JobInv, Shape, Request, ProcOrNone, SendTurn, Steps
<1>1. /\ job' \in [Requests -> Request] /\ Others(j) /\ OwnersKept
      /\ job'[j].on = job[j].on /\ job'[j].wait = "reply"
      /\ job'[j].kind = job[j].kind /\ job'[j].canvas = job[j].canvas /\ job'[j].thread = job[j].thread
      /\ \/ job'[j].step = job[j].step /\ lost' = lost
         \/ /\ job[j].step = "read" /\ job'[j].step = "turn" /\ job[j].thread = current
            /\ job[j].thread \in loaded[job[j].on] => lost' = lost
  <2> DEFINE r == IF job[j].step = "read" /\ job[j].thread = current
                  THEN Asking(job[j], "turn", job[j].on) ELSE [job[j] EXCEPT !.wait = "reply"]
  <2>1. Become(j, r)
    BY <1>0 DEF Started, SendTurn
  <2>2. /\ r \in Request /\ r.on = job[j].on /\ r.wait = "reply" /\ r.kind = job[j].kind
        /\ r.canvas = job[j].canvas /\ r.thread = job[j].thread
        /\ r.step = IF job[j].step = "read" /\ job[j].thread = current THEN "turn" ELSE job[j].step
    BY <1>0, AskingIs DEF Request
  <2> HIDE DEF r
  <2>3. /\ job' \in [Requests -> Request] /\ job'[j] = r
        /\ \A i \in Requests \ {j} : job'[i] = job[i]
    BY <2>1, <2>2, Became
  <2>4. /\ job[j].step = "read" /\ job[j].thread = current /\ job[j].thread \in loaded[job[j].on] => lost' = lost
        /\ ~(job[j].step = "read" /\ job[j].thread = current) => lost' = lost
    BY <1>0 DEF Started, SendTurn
  <2> QED BY <1>0, <2>2, <2>3, <2>4 DEF Others, OwnersKept
<1>2. JobInv'
  <2>1. Fits(job'[j], turn'[j], job'[j].thread \in Threads /\ job'[j].canvas \in Canvases
                                   /\ owner'[job'[j].thread] = job'[j].canvas)
    BY <1>0, <1>1 DEF Fits, JobInv, Shape, Owned, Begun
  <2> QED BY <1>1, <2>1, JobKeeps
<1>3. QueueInv'
  <2>1. /\ InQueue(job'[j]) <=> InQueue(job[j])
        /\ Running(job'[j]) <=> Running(job[j])
        /\ job[j].step # "queued" /\ job'[j].step # "queued"
    BY <1>0, <1>1 DEF InQueue, Running, JobInv, Shape, Begun
  <2>2. \A i \in DOMAIN queue : queue[i] \in Requests
    BY Types
  <2>3. \A i \in Requests : /\ InQueue(job'[i]) <=> InQueue(job[i])
                            /\ Running(job'[i]) <=> Running(job[i])
                            /\ job[i].step = "queued" => job'[i].step = "queued"
    BY <1>1, <2>1 DEF Others
  <2> QED BY <1>0, <2>2, <2>3 DEF QueueInv
<1>4. /\ job[j].on \in Procs /\ proc' \in [Procs -> {"off", "starting", "up"}] /\ app' = job[j].on
      /\ proc[job[j].on] # "off" /\ \A p \in Procs : proc'[p] # "off" <=> proc[p] # "off"
  <2>1. proc[job[j].on] # "off"
    BY <1>0 DEF ProcInv
  <2> QED BY <1>0, <2>1, Types
<1>5. TypeInv'
  BY <1>0, <1>1, <1>4, Types DEF TypeInv, TypeOK, Request, ProcOrNone
<1>6. ActiveInv'
  BY <1>0 DEF ActiveInv
<1>7. ReplacedInv'
  BY <1>0, <1>1 DEF ReplacedInv, OnDisk, Others
<1>8. ProcInv'
  <2>1. \A i \in Requests : job'[i].on = job[i].on /\ (job[i].on = 0 \/ job[i].on \in Procs)
    <3> SUFFICES ASSUME NEW i \in Requests PROVE job'[i].on = job[i].on /\ (job[i].on = 0 \/ job[i].on \in Procs)
      OBVIOUS
    <3>1. job[i] \in Request
      BY Types
    <3>2. job'[i].on = job[i].on
      BY <1>1 DEF Others
    <3> QED BY <3>1, <3>2 DEF ProcOrNone, Request
  <2>2. app' # 0 => proc'[app'] # "off"
    BY <1>4
  <2>3. \A i \in Requests : job'[i].on # 0 => proc'[job'[i].on] # "off"
    BY <1>4, <2>1 DEF ProcInv
  <2>4. ~raced => lost' = {}
    <3>1. job[j].step = "read" => job[j].thread # 0
      BY ConstantsOK DEF JobInv, Begun, Owned
    <3> QED BY <1>1, <1>4, <3>1 DEF ProcInv
  <2> QED BY <1>0, <1>4, <2>2, <2>3, <2>4 DEF ProcInv
<1> QED BY <1>2, <1>3, <1>5, <1>6, <1>7, <1>8

\* Whatever is on the process that exits ends; so it does at the head of codexQueue.
LEMMA ExitQueue ==
  ASSUME ConstantsOK, CodexInv, NEW p \in Procs, Exit(p)
  PROVE  /\ queue' \in Seq(Requests) /\ QueueInv'
         /\ \A j \in Requests : IF job[j].on = p
              THEN /\ job'[j].step = "end" /\ job'[j].on = 0 /\ job'[j].wait = "no" /\ turn'[j] = "none"
                   /\ job'[j].kind = job[j].kind /\ job'[j].canvas = job[j].canvas /\ job'[j].thread = job[j].thread
              ELSE job'[j] = job[j] /\ turn'[j] = turn[j]
         /\ job' \in [Requests -> Request] /\ turn' \in [Requests -> {"none", "running", "completed"}]
<1> USE DEF CodexInv
<1>1. job' = [j \in Requests |-> IF job[j].on = p THEN Ended(job[j]) ELSE job[j]]
      /\ turn' = [j \in Requests |-> IF job[j].on = p THEN "none" ELSE turn[j]] /\ StillQueued
  BY DEF Exit
<1>2. \A j \in Requests : job[j] \in Request /\ Ended(job[j]) \in Request
  BY Types, EndedIs
<1>3. job' \in [Requests -> Request] /\ turn' \in [Requests -> {"none", "running", "completed"}]
  BY <1>1, <1>2, Types
<1>4. \A j \in Requests : IF job[j].on = p
              THEN /\ job'[j].step = "end" /\ job'[j].on = 0 /\ job'[j].wait = "no" /\ turn'[j] = "none"
                   /\ job'[j].kind = job[j].kind /\ job'[j].canvas = job[j].canvas /\ job'[j].thread = job[j].thread
              ELSE job'[j] = job[j] /\ turn'[j] = turn[j]
  BY <1>1, <1>2, EndedIs
<1>5. \A i \in DOMAIN queue : queue[i] \in Requests
  BY Types
<1>6. \A i \in DOMAIN queue : i > 1 => job'[queue[i]] = job[queue[i]]
  <2> SUFFICES ASSUME NEW i \in DOMAIN queue, i > 1 PROVE job'[queue[i]] = job[queue[i]]
    OBVIOUS
  <2>1. queue[i] \in Requests /\ job[queue[i]].step = "queued"
    BY <1>5 DEF QueueInv
  <2>2. job[queue[i]].on = 0 /\ p # 0
    BY <2>1, ConstantsOK DEF JobInv, Shape
  <2> QED BY <1>4, <2>1, <2>2
<1>7. \A j \in Requests : Running(job'[j]) => Running(job[j])
  BY <1>4 DEF Running, Begun
<1>8. queue' \in Seq(Requests) /\ QueueInv'
  <2>1. CASE queue # <<>> /\ job'[Head(queue)].step = "end"
    <3>1. /\ queue' = Tail(queue) /\ Tail(queue) \in Seq(Requests)
          /\ \A i \in DOMAIN Tail(queue) : i + 1 \in DOMAIN queue /\ Tail(queue)[i] = queue[i + 1] /\ i + 1 > 1
          /\ Head(queue) = queue[1] /\ 1 \in DOMAIN queue /\ DOMAIN Tail(queue) \subseteq Nat
      BY <1>1, <2>1, Types DEF StillQueued
    <3>2. \A i \in DOMAIN Tail(queue) : job'[queue[i + 1]].step = "queued" /\ InQueue(job'[queue[i + 1]])
      BY <1>6, <3>1 DEF QueueInv
    <3>3. \A i, k \in DOMAIN Tail(queue) : Tail(queue)[i] = Tail(queue)[k] => i = k
      BY <3>1 DEF QueueInv
    <3>4. \A j \in Requests : ~Running(job'[j])
      BY <1>7, <2>1, <3>1 DEF QueueInv, Running, Begun
    <3> QED BY <3>1, <3>2, <3>3, <3>4 DEF QueueInv
  <2>2. CASE ~(queue # <<>> /\ job'[Head(queue)].step = "end")
    <3>1. queue' = queue /\ queue \in Seq(Requests) /\ (queue # <<>> => Head(queue) = queue[1] /\ 1 \in DOMAIN queue)
      BY <1>1, <2>2, Types DEF StillQueued
    <3>2. \A i \in DOMAIN queue : job'[queue[i]] = job[queue[i]]
      <4>1. \A i \in DOMAIN queue : i = 1 \/ i > 1
        BY <3>1
      <4>2. 1 \in DOMAIN queue => job'[queue[1]].step # "end"
        BY <2>2, <3>1
      <4> QED BY <1>4, <1>5, <1>6, <4>1, <4>2
    <3> QED BY <1>7, <3>1, <3>2 DEF QueueInv
  <2> QED BY <2>1, <2>2
<1> QED BY <1>3, <1>4, <1>8

LEMMA ExitKeeps ==
  ASSUME ConstantsOK, CodexInv, NEW p \in Procs, Exit(p) PROVE CodexInv'
<1> USE DEF CodexInv
<1>1. /\ proc' = [proc EXCEPT ![p] = "off"] /\ loaded' = [loaded EXCEPT ![p] = {}] /\ app' = 0 /\ current' = 0
      /\ UNCHANGED <<active, owner, rollout, archived, replaced, lost, raced>> /\ proc[p] # "off"
  BY DEF Exit, ghosts
<1>2. TypeInv'
  <2>1. /\ queue' \in Seq(Requests) /\ job' \in [Requests -> Request]
        /\ turn' \in [Requests -> {"none", "running", "completed"}]
    BY ExitQueue
  <2>2. /\ proc' \in [Procs -> {"off", "starting", "up"}] /\ loaded' \in [Procs -> SUBSET Threads]
        /\ app' \in ProcOrNone /\ current' \in ThreadOrNone
    BY <1>1, Types DEF ProcOrNone, ThreadOrNone
  <2>3. /\ active' \in [Canvases -> ThreadOrNone] /\ owner' \in [Threads -> Canvases \union {None}]
        /\ rollout' \subseteq Threads /\ archived' \subseteq Threads /\ raced' \in BOOLEAN /\ replaced' \subseteq Threads
    BY <1>1, Types
  <2> QED BY <2>1, <2>2, <2>3 DEF TypeInv, TypeOK, Request
<1>3. JobInv'
  <2> SUFFICES ASSUME NEW j \in Requests PROVE Fits(job'[j], turn'[j], Owned(job[j])')
    BY DEF JobInv, Fits
  <2>1. CASE job[j].on = p
    BY <2>1, ExitQueue, ConstantsOK DEF Fits, JobInv, Shape, Owned, Begun
  <2>2. CASE job[j].on # p
    BY <1>1, <2>2, ExitQueue DEF Fits, JobInv, Owned
  <2> QED BY <2>1, <2>2
<1>4. ActiveInv'
  BY <1>1 DEF ActiveInv
<1>5. ReplacedInv'
  <2>1. \A j \in Requests : job'[j].step \in {"replace", "turn"} => job'[j] = job[j]
    BY ExitQueue
  <2>2. 0 \notin replaced
    BY Types, ConstantsOK
  <2> QED BY <1>1, <2>1, <2>2 DEF ReplacedInv, OnDisk
<1>6. ProcInv'
  <2>1. \A q \in Procs : proc'[q] = IF q = p THEN "off" ELSE proc[q]
    BY <1>1, Types
  <2>2. \A j \in Requests : job'[j].on # 0 => job'[j].on = job[j].on /\ job[j].on # p /\ job[j].on \in Procs
    BY ExitQueue, Types DEF Request, ProcOrNone
  <2> QED BY <1>1, <2>1, <2>2 DEF ProcInv
<1> QED BY <1>2, <1>3, <1>4, <1>5, <1>6, ExitQueue

-----------------------------------------------------------------------------
(* Asking an app-server, which may have to be started.                     *)

\* Ask sends the request to the app-server that is kept, or to a new one; a
\* second one beside it is noted.
LEMMA AskIs ==
  ASSUME ConstantsOK, TypeInv, ProcInv, NEW j \in Requests, NEW r \in Request, NEW step \in Steps, Ask(j, r, step),
         UNCHANGED <<app, current, loaded, owner, lost>>
  PROVE  /\ job' \in [Requests -> Request] /\ \A i \in Requests \ {j} : job'[i] = job[i]
         /\ job'[j].step = step /\ job'[j].on \in Procs /\ job'[j].wait \in {"start", "reply"}
         /\ job'[j].kind = r.kind /\ job'[j].canvas = r.canvas /\ job'[j].thread = r.thread
         /\ proc' \in [Procs -> {"off", "starting", "up"}] /\ raced' \in BOOLEAN
         /\ ProcInv'
<1>1. CASE app # 0
  <2>1. app \in Procs /\ Become(j, Asking(r, step, app)) /\ UNCHANGED <<proc, raced>>
    BY <1>1, Types DEF Ask, ProcOrNone
  <2>2. Asking(r, step, app) \in Request
    BY <2>1, AskingIs
  <2>3. /\ job' \in [Requests -> Request] /\ job'[j] = Asking(r, step, app)
        /\ \A i \in Requests \ {j} : job'[i] = job[i]
    BY <2>1, <2>2, Became
  <2>4. /\ job'[j].step = step /\ job'[j].on = app /\ job'[j].wait = "reply"
        /\ job'[j].kind = r.kind /\ job'[j].canvas = r.canvas /\ job'[j].thread = r.thread
    BY <2>1, <2>3, AskingIs
  <2>5. \A i \in Requests : job'[i].on # 0 => proc[job'[i].on] # "off"
    BY <1>1, <2>3, <2>4 DEF ProcInv
  <2>6. ProcInv'
    BY <2>1, <2>5 DEF ProcInv
  <2> QED BY <2>1, <2>3, <2>4, <2>6, Types
<1>2. CASE app = 0
  <2>1. PICK p \in Procs : /\ proc[p] = "off" /\ proc' = [proc EXCEPT ![p] = "starting"]
                           /\ Become(j, [Asking(r, step, p) EXCEPT !.wait = "start"])
                           /\ raced' = (raced \/ \E q \in Procs : proc[q] # "off")
    BY <1>2 DEF Ask
  <2> DEFINE s == [Asking(r, step, p) EXCEPT !.wait = "start"]
  <2>2. /\ s \in Request /\ s.step = step /\ s.on = p /\ s.wait = "start" /\ s.kind = r.kind
        /\ s.canvas = r.canvas /\ s.thread = r.thread
    <3>1. Asking(r, step, p) \in Request /\ Asking(r, step, p).step = step /\ Asking(r, step, p).on = p
          /\ Asking(r, step, p).kind = r.kind /\ Asking(r, step, p).canvas = r.canvas
          /\ Asking(r, step, p).thread = r.thread
      BY AskingIs
    <3> QED BY <3>1 DEF Request
  <2>3. Become(j, s)
    BY <2>1
  <2> HIDE DEF s
  <2>4. /\ job' \in [Requests -> Request] /\ job'[j] = s
        /\ \A i \in Requests \ {j} : job'[i] = job[i]
    BY <2>2, <2>3, Became
  <2>5. /\ proc' \in [Procs -> {"off", "starting", "up"}] /\ raced' \in BOOLEAN
        /\ \A q \in Procs : proc'[q] = IF q = p THEN "starting" ELSE proc[q]
    BY <2>1, Types
  <2>6. \A i \in Requests : job'[i].on # 0 => proc'[job'[i].on] # "off"
    <3> SUFFICES ASSUME NEW i \in Requests, job'[i].on # 0 PROVE proc'[job'[i].on] # "off"
      OBVIOUS
    <3>1. job'[i] \in Request
      BY <2>4
    <3>2. job'[i].on \in Procs
      BY <3>1 DEF Request, ProcOrNone
    <3>3. CASE i = j
      BY <2>2, <2>4, <2>5, <3>3
    <3>4. CASE i # j
      BY <2>4, <2>5, <3>2, <3>4 DEF ProcInv
    <3> QED BY <3>3, <3>4
  <2>7. ~raced' => /\ \A q \in Procs : proc[q] = "off"
                  /\ ~raced /\ current = 0
    BY <2>1 DEF ProcInv
  <2>8. ProcInv'
    BY <1>2, <2>5, <2>6, <2>7 DEF ProcInv
  <2> QED BY <2>2, <2>4, <2>5, <2>8
<1> QED BY <1>1, <1>2

LEMMA PostedIs ==
  ASSUME TypeInv, NEW kind \in Kinds, NEW c \in Canvases, NEW t \in ThreadOrNone
  PROVE  /\ Posted(kind, c, t) \in Request /\ Posted(kind, c, t).kind = kind /\ Posted(kind, c, t).canvas = c
         /\ Posted(kind, c, t).thread = t /\ Posted(kind, c, t).on = 0 /\ Posted(kind, c, t).wait = "no"
BY Types DEF Posted, Request, Steps, ProcOrNone

\* A request comes in and asks the app-server.
LEMMA AskKeeps ==
  ASSUME ConstantsOK, CodexInv, NEW j \in Requests, NEW r \in Request, NEW step \in Steps, Ask(j, r, step),
         job[j].step = "new", step \in {"start", "verify", "load", "list"}, r.canvas \in Canvases,
         step = "verify" => r.kind = "turn", step = "start" => r.kind \in {"turn", "new"},
         step = "load" => r.kind \in {"resume", "delete"},
         UNCHANGED <<globals, loaded, owner, rollout, archived, turn, queue, replaced, lost>>
  PROVE  CodexInv'
<1> USE DEF CodexInv, globals
<1>1. /\ job' \in [Requests -> Request] /\ \A i \in Requests \ {j} : job'[i] = job[i]
      /\ job'[j].step = step /\ job'[j].on \in Procs /\ job'[j].wait \in {"start", "reply"}
      /\ job'[j].kind = r.kind /\ job'[j].canvas = r.canvas /\ job'[j].thread = r.thread
      /\ proc' \in [Procs -> {"off", "starting", "up"}] /\ raced' \in BOOLEAN /\ ProcInv'
  BY AskIs
<1>2. Others(j) /\ OwnersKept
  BY <1>1 DEF Others, OwnersKept
<1>3. JobInv'
  <2>1. turn[j] = "none" /\ 0 \notin Procs
    BY ConstantsOK, Types DEF JobInv
  <2>2. Fits(job'[j], turn'[j], job'[j].thread \in Threads /\ job'[j].canvas \in Canvases
                                   /\ owner'[job'[j].thread] = job'[j].canvas)
    BY <1>1, <2>1 DEF Fits, Shape, Begun
  <2> QED BY <1>2, <2>2, JobKeeps
<1>4. QueueInv'
  <2>1. ~InQueue(job[j]) /\ Along(j, job[j], job'[j])
    BY <1>1 DEF Along, InQueue, Running, Begun
  <2>2. StillQueued
    BY <1>2, <2>1, QueueSame
  <2> QED BY <1>2, <2>1, <2>2, QueueKeeps
<1>5. TypeInv'
  BY <1>1, Types DEF TypeInv, TypeOK, Request
<1>6. ActiveInv'
  BY DEF ActiveInv
<1>7. ReplacedInv'
  BY <1>1 DEF ReplacedInv, OnDisk
<1> QED BY <1>1, <1>3, <1>4, <1>5, <1>6, <1>7

LEMMA PostOtherKeeps ==
  ASSUME ConstantsOK, CodexInv, NEW j \in Requests, PostOther(j) PROVE CodexInv'
<1>1. PICK c \in Canvases :
        \/ Ask(j, Posted("new", c, 0), "start")
        \/ Ask(j, Posted("list", c, 0), "list")
        \/ \E t \in Known, kind \in {"resume", "delete"} : Ask(j, Posted(kind, c, t), "load")
  BY DEF PostOther
<1>2. /\ TypeInv /\ job[j].step = "new"
      /\ UNCHANGED <<globals, loaded, owner, rollout, archived, turn, queue, replaced, lost>>
  BY DEF CodexInv, PostOther, IsNext
<1>3. PICK kind \in {"new", "list", "resume", "delete"}, t \in ThreadOrNone, step \in {"start", "list", "load"} :
        Ask(j, Posted(kind, c, t), step) /\ (step = "start" => kind = "new")
        /\ (step = "load" => kind \in {"resume", "delete"})
  BY <1>1 DEF Known, ThreadOrNone
<1>4. /\ Posted(kind, c, t) \in Request /\ Posted(kind, c, t).kind = kind /\ Posted(kind, c, t).canvas = c
  BY <1>2, PostedIs DEF Kinds
<1> QED BY <1>2, <1>3, <1>4, AskKeeps DEF Steps

\* A turn joins codexQueue with a thread of its canvas.
LEMMA JoinKeeps ==
  ASSUME ConstantsOK, CodexInv, NEW j \in Requests, NEW r \in Request, Become(j, r),
         r.step = "queued", r.kind = "turn", r.on = 0, r.wait = "no", Owned(r),
         job[j].step \in {"new", "verify"}, queue' = Append(queue, j),
         UNCHANGED <<app, current, server, ghosts>>,
         active' \in [Canvases -> ThreadOrNone],
         \A c \in Canvases : active'[c] # 0 => active'[c] = active[c] \/ owner[active'[c]] = c
  PROVE  CodexInv'
<1> USE DEF CodexInv, server, ghosts
<1>1. /\ job' \in [Requests -> Request] /\ job'[j] = r /\ Others(j) /\ OwnersKept /\ ~InQueue(job[j])
  BY Became DEF Others, OwnersKept, InQueue, Begun
<1>2. JobInv'
  <2>1. turn[j] = "none"
    BY Types DEF JobInv
  <2>2. Fits(job'[j], turn'[j], job'[j].thread \in Threads /\ job'[j].canvas \in Canvases
                                   /\ owner'[job'[j].thread] = job'[j].canvas)
    BY <1>1, <2>1 DEF Fits, Shape, Owned, Begun
  <2> QED BY <1>1, <2>2, JobKeeps
<1>3. queue' \in Seq(Requests) /\ QueueInv'
  BY <1>1, QueueAppends
<1>4. TypeInv'
  <2>1. \A i \in DOMAIN queue' : queue'[i] \in Requests
    BY <1>3
  <2> QED BY <1>1, <1>3, <2>1 DEF TypeInv, TypeOK, Request
<1>5. ActiveInv'
  BY DEF ActiveInv
<1>6. ReplacedInv'
  BY <1>1 DEF ReplacedInv, OnDisk, Others
<1>7. ProcInv'
  BY <1>1, ProcKeeps
<1> QED BY <1>2, <1>3, <1>4, <1>5, <1>6, <1>7

LEMMA PostTurnKeeps ==
  ASSUME ConstantsOK, CodexInv, NEW j \in Requests, PostTurn(j) PROVE CodexInv'
<1> USE DEF CodexInv
<1>1. /\ TypeInv /\ job[j].step = "new"
      /\ UNCHANGED <<globals, loaded, owner, rollout, archived, turn, replaced, lost>>
  BY DEF PostTurn, IsNext
<1>2. PICK c \in Canvases, t \in ThreadOrNone :
         \/ t = 0 /\ Ask(j, Posted("turn", c, t), "start") /\ UNCHANGED queue
         \/ t \notin {0, active[c]} /\ Ask(j, Posted("turn", c, t), "verify") /\ UNCHANGED queue
         \/ /\ t # 0 /\ t = active[c]
            /\ Become(j, [Posted("turn", c, t) EXCEPT !.step = "queued"]) /\ queue' = Append(queue, j)
            /\ UNCHANGED <<proc, raced>>
  <2>1. PICK c \in Canvases, named \in Known \union {0} :
         LET t == IF named = 0 THEN active[c] ELSE named
             r == Posted("turn", c, t)
         IN  \/ t = 0 /\ Ask(j, r, "start") /\ UNCHANGED queue
             \/ t \notin {0, active[c]} /\ Ask(j, r, "verify") /\ UNCHANGED queue
             \/ /\ t # 0 /\ t = active[c]
                /\ Become(j, [r EXCEPT !.step = "queued"]) /\ queue' = Append(queue, j)
                /\ UNCHANGED <<proc, raced>>
    BY DEF PostTurn
  <2> DEFINE t == IF named = 0 THEN active[c] ELSE named
  <2>2. t \in ThreadOrNone
    BY <1>1, Types DEF Known, ThreadOrNone
  <2> QED BY <2>1, <2>2
<1> DEFINE r == Posted("turn", c, t)
<1>3. r \in Request /\ r.kind = "turn" /\ r.canvas = c /\ r.thread = t /\ r.on = 0 /\ r.wait = "no"
  BY <1>1, PostedIs DEF Kinds
<1>4. CASE Ask(j, r, "start") /\ UNCHANGED queue
  BY <1>1, <1>3, <1>4, AskKeeps DEF Steps
<1>5. CASE Ask(j, r, "verify") /\ UNCHANGED queue
  BY <1>1, <1>3, <1>5, AskKeeps DEF Steps
<1>6. CASE /\ t # 0 /\ t = active[c]
           /\ Become(j, [r EXCEPT !.step = "queued"]) /\ queue' = Append(queue, j)
           /\ UNCHANGED <<proc, raced>>
  <2> HIDE DEF r
  <2> DEFINE s == [r EXCEPT !.step = "queued"]
  <2>1. /\ s \in Request /\ s.kind = "turn" /\ s.canvas = c /\ s.thread = t /\ s.on = 0 /\ s.wait = "no"
        /\ s.step = "queued"
    BY <1>3 DEF Request, Steps
  <2>2. Become(j, s)
    BY <1>6
  <2> HIDE DEF s
  <2>3. Owned(s)
    BY <1>1, <1>6, <2>1, Types DEF Owned, ActiveInv, ThreadOrNone
  <2>4. UNCHANGED <<app, current, server, ghosts>> /\ active' = active /\ active \in [Canvases -> ThreadOrNone]
    BY <1>1, <1>6, Types DEF globals, server, ghosts
  <2> QED BY <1>1, <1>6, <2>1, <2>2, <2>3, <2>4, JoinKeeps
<1> QED BY <1>2, <1>4, <1>5, <1>6

\* The app-server is asked to archive or to resume what it has read.
LEMMA LoadedKeeps ==
  ASSUME ConstantsOK, CodexInv, NEW j \in Requests, NEW step \in {"archive", "resume"},
         Become(j, Asking(job[j], step, app)), app # 0, job[j].step = "load", Owned(job[j]),
         step = "resume" => job[j].kind = "resume", step = "archive" => job[j].kind = "delete",
         UNCHANGED <<globals, server, queue, ghosts>>
  PROVE  CodexInv'
<1> USE DEF CodexInv, globals, server, ghosts
<1>1. app \in Procs /\ job[j] \in Request /\ step \in Steps /\ app # 0
  BY Types DEF ProcOrNone, Steps
<1>2. Asking(job[j], step, app) \in Request
  BY <1>1, AskingIs
<1>3. /\ job' \in [Requests -> Request] /\ Others(j) /\ OwnersKept
      /\ job'[j].step = step /\ job'[j].on = app /\ job'[j].wait = "reply" /\ job'[j].kind = job[j].kind
      /\ job'[j].canvas = job[j].canvas /\ job'[j].thread = job[j].thread
  BY <1>1, <1>2, Became, AskingIs DEF Others, OwnersKept
<1>4. JobInv'
  <2>1. turn[j] = "none"
    BY Types DEF JobInv
  <2>2. Fits(job'[j], turn'[j], job'[j].thread \in Threads /\ job'[j].canvas \in Canvases
                                   /\ owner'[job'[j].thread] = job'[j].canvas)
    BY <1>3, <2>1 DEF Fits, Shape, Owned, Begun, JobInv
  <2> QED BY <1>3, <2>2, JobKeeps
<1>5. QueueInv'
  <2>1. ~InQueue(job[j]) /\ Along(j, job[j], job'[j])
    BY <1>3 DEF Along, InQueue, Running, Begun
  <2>2. StillQueued
    BY <1>3, <2>1, QueueSame
  <2> QED BY <1>3, <2>1, <2>2, QueueKeeps
<1>6. TypeInv'
  BY <1>3, Types DEF TypeInv, TypeOK, Request
<1>7. ActiveInv'
  BY DEF ActiveInv
<1>8. ReplacedInv'
  BY <1>3 DEF ReplacedInv, OnDisk, Others
<1>9. ProcInv'
  BY <1>3, ProcKeeps
<1> QED BY <1>4, <1>5, <1>6, <1>7, <1>8, <1>9

LEMMA ThreadReadKeeps ==
  ASSUME ConstantsOK, CodexInv, NEW j \in Requests, ThreadRead(j) PROVE CodexInv'
<1> USE DEF CodexInv
<1>1. /\ job[j] \in Request /\ job[j].wait = "reply" /\ UNCHANGED <<app, current, server, ghosts>>
  BY Types DEF ThreadRead
<1>2. Owned(job[j]) \/ job[j].step = "new"
  BY Types DEF ThreadRead, MayRead, OnDisk, Owned, JobInv, Shape
<1>3. CASE /\ job[j].step = "verify"
           /\ active' = [active EXCEPT ![job[j].canvas] = job[j].thread]
           /\ Become(j, [job[j] EXCEPT !.step = "queued", !.on = 0, !.wait = "no"])
           /\ queue' = Append(queue, j)
  <2> DEFINE r == [job[j] EXCEPT !.step = "queued", !.on = 0, !.wait = "no"]
  <2>1. /\ r \in Request /\ r.step = "queued" /\ r.on = 0 /\ r.wait = "no" /\ r.kind = job[j].kind
        /\ r.canvas = job[j].canvas /\ r.thread = job[j].thread
    BY <1>1 DEF Request, ProcOrNone, Steps
  <2>2. Become(j, r)
    BY <1>3
  <2> HIDE DEF r
  <2>3. Owned(r) /\ r.kind = "turn"
    BY <1>2, <1>3, <2>1 DEF Owned, JobInv, Shape
  <2>4. /\ active' \in [Canvases -> ThreadOrNone]
        /\ \A c \in Canvases : active'[c] # 0 => active'[c] = active[c] \/ owner[active'[c]] = c
    BY <1>2, <1>3, Types DEF Owned, ThreadOrNone
  <2> QED BY <1>1, <1>3, <2>1, <2>2, <2>3, <2>4, JoinKeeps
<1>4. CASE /\ job[j].step = "read" /\ Become(j, [job[j] EXCEPT !.step = "resume"]) /\ UNCHANGED <<active, queue>>
  <2>1. [job[j] EXCEPT !.step = "resume"] = [job[j] EXCEPT !.step = "resume", !.wait = "reply"]
    BY <1>1 DEF Request
  <2>2. Others(j) /\ job'[j].step = "resume"
    BY <1>1, <1>4, Types DEF Others, Become, server, Request
  <2>3. StillQueued
    <3>1. queue # <<>> => Head(queue) \in Requests /\ Head(queue) = queue[1] /\ 1 \in DOMAIN queue
      BY Types
    <3> QED BY <1>4, <2>2, <3>1 DEF StillQueued, QueueInv, Others, InQueue, Begun
  <2>4. UNCHANGED <<globals, server, ghosts>> /\ Become(j, [job[j] EXCEPT !.step = "resume", !.wait = "reply"])
    BY <1>1, <1>4, <2>1 DEF globals
  <2> QED BY <1>1, <1>4, <2>3, <2>4, MoveKeeps DEF Steps
<1>5. CASE /\ job[j].step = "load"
           /\ Become(j, IF app = 0 THEN Ended(job[j])
                       ELSE Asking(job[j], IF job[j].kind = "delete" THEN "archive" ELSE "resume", app))
           /\ UNCHANGED <<active, queue>>
  <2>1. UNCHANGED <<globals, server, queue, ghosts>>
    BY <1>1, <1>5 DEF globals
  <2>2. CASE app = 0
    <3>1. Others(j) /\ ~InQueue(job[j])
      BY <1>1, <1>5, <2>2, Types DEF Others, InQueue, Begun, Become, server
    <3>2. StillQueued
      BY <1>5, <3>1, QueueSame
    <3> QED BY <1>5, <2>1, <2>2, <3>2, EndKeeps
  <2>3. CASE app # 0 /\ job[j].kind = "delete"
    BY <1>2, <1>5, <2>1, <2>3, LoadedKeeps
  <2>4. CASE app # 0 /\ job[j].kind # "delete"
    <3>1. job[j].kind = "resume"
      BY <1>5, <2>4 DEF JobInv, Shape
    <3> QED BY <1>2, <1>5, <2>1, <2>4, <3>1, LoadedKeeps
  <2> QED BY <2>2, <2>3, <2>4
<1> QED BY <1>3, <1>4, <1>5 DEF ThreadRead

LEMMA ThreadArchivedKeeps ==
  ASSUME ConstantsOK, CodexInv, NEW j \in Requests, ThreadArchived(j) PROVE CodexInv'
<1> USE DEF CodexInv, ThreadArchived, ghosts
<1>1. /\ job[j] \in Request /\ job' \in [Requests -> Request] /\ job'[j] = Ended(job[j]) /\ Others(j)
      /\ job'[j].step = "end" /\ job'[j].on = 0 /\ job'[j].wait = "no" /\ job'[j].kind = job[j].kind
      /\ job'[j].canvas = job[j].canvas /\ job'[j].thread = job[j].thread /\ OwnersKept
  <2>1. job[j] \in Request
    BY Types
  <2>2. Ended(job[j]) \in Request
    BY <2>1, EndedIs
  <2>3. /\ job' \in [Requests -> Request] /\ job'[j] = Ended(job[j])
        /\ \A i \in Requests \ {j} : job'[i] = job[i]
    BY <2>2, Became
  <2> QED BY <2>1, <2>3, EndedIs DEF Others, OwnersKept
<1>2. JobInv'
  <2>1. Fits(job'[j], turn'[j], job'[j].thread \in Threads /\ job'[j].canvas \in Canvases
                                   /\ owner'[job'[j].thread] = job'[j].canvas)
    BY <1>1 DEF Fits, JobInv, Shape, Owned, Begun
  <2> QED BY <1>1, <2>1, JobKeeps
<1>3. QueueInv'
  <2>1. ~InQueue(job[j]) /\ Along(j, job[j], job'[j])
    BY <1>1 DEF Along, InQueue, Running, Begun
  <2>2. StillQueued
    BY <1>1, <2>1, QueueSame
  <2> QED BY <1>1, <2>1, <2>2, QueueKeeps
<1>4. Owned(job[j]) /\ active' \in [Canvases -> ThreadOrNone]
  BY Types DEF JobInv, ThreadOrNone
<1>5. TypeInv'
  BY <1>1, <1>4, Types DEF TypeInv, TypeOK, Request, Owned
<1>6. ActiveInv'
  BY <1>4, Types DEF ActiveInv, Owned
<1>7. ReplacedInv'
  BY <1>1 DEF ReplacedInv, OnDisk, Others
<1>8. ProcInv'
  BY <1>1, ProcKeeps
<1> QED BY <1>2, <1>3, <1>5, <1>6, <1>7, <1>8

-----------------------------------------------------------------------------
(* The turn at the head of codexQueue is sent.                             *)

LEMMA SendIs ==
  ASSUME TypeInv, NEW j \in Requests, NEW r \in Request, SendTurn(j, r, app)
  PROVE  /\ job' \in [Requests -> Request] /\ \A i \in Requests \ {j} : job'[i] = job[i]
         /\ job'[j].kind = r.kind /\ job'[j].canvas = r.canvas /\ job'[j].thread = r.thread
         /\ app = 0 => job'[j].step = "end" /\ job'[j].on = 0 /\ job'[j].wait = "no" /\ lost' = lost
         /\ app # 0 => /\ app \in Procs /\ job'[j].step = "turn" /\ job'[j].on = app /\ job'[j].wait = "reply"
                       /\ r.thread \in loaded'[app] => lost' = lost
<1>1. CASE app = 0
  <2>1. Become(j, Ended(r)) /\ lost' = lost
    BY <1>1 DEF SendTurn
  <2>2. Ended(r) \in Request
    BY EndedIs
  <2>3. /\ job' \in [Requests -> Request] /\ job'[j] = Ended(r) /\ \A i \in Requests \ {j} : job'[i] = job[i]
    BY <2>1, <2>2, Became
  <2> QED BY <1>1, <2>1, <2>3, EndedIs
<1>2. CASE app # 0
  <2>1. /\ Become(j, Asking(r, "turn", app)) /\ app \in Procs /\ "turn" \in Steps
        /\ r.thread \in loaded'[app] => lost' = lost
    BY <1>2, Types DEF SendTurn, ProcOrNone, Steps
  <2>2. Asking(r, "turn", app) \in Request
    BY <2>1, AskingIs
  <2>3. /\ job' \in [Requests -> Request] /\ job'[j] = Asking(r, "turn", app)
        /\ \A i \in Requests \ {j} : job'[i] = job[i]
    BY <2>1, <2>2, Became
  <2> QED BY <1>2, <2>1, <2>3, AskingIs
<1> QED BY <1>1, <1>2

\* The head sends its turn to a thread of its canvas that was not replaced, and
\* that the process alive, if it is the only one, has loaded.
LEMMA SendKeeps ==
  ASSUME ConstantsOK, CodexInv, NEW j \in Requests, NEW r \in Request, SendTurn(j, r, app), StillQueued,
         InQueue(job[j]), queue # <<>>, queue[1] = j, turn[j] = "none",
         r.kind = "turn", r.thread \in Threads, r.canvas \in Canvases, owner'[r.thread] = r.canvas,
         job[j].step # "queued" \/ app # 0,
         OwnersKept, owner' \in [Threads -> Canvases \union {None}], loaded' \in [Procs -> SUBSET Threads],
         active' \in [Canvases -> ThreadOrNone], ActiveInv', current' = r.thread,
         replaced' \subseteq Threads, r.thread \notin replaced',
         \A t \in replaced' : owner'[t] # None /\ ~OnDisk(t),
         ~raced => \A p \in Procs : proc[p] # "off" => r.thread \in loaded'[p],
         ~raced => \E p \in Procs : proc[p] # "off" /\ r.thread \in loaded'[p],
         UNCHANGED <<app, proc, rollout, archived, turn, raced>>
  PROVE  CodexInv'
<1> USE DEF CodexInv
<1>1. /\ job' \in [Requests -> Request] /\ \A i \in Requests \ {j} : job'[i] = job[i]
      /\ job'[j].kind = r.kind /\ job'[j].canvas = r.canvas /\ job'[j].thread = r.thread
      /\ app = 0 => job'[j].step = "end" /\ job'[j].on = 0 /\ job'[j].wait = "no" /\ lost' = lost
      /\ app # 0 => /\ app \in Procs /\ job'[j].step = "turn" /\ job'[j].on = app /\ job'[j].wait = "reply"
                    /\ r.thread \in loaded'[app] => lost' = lost
  BY SendIs
<1>2. Others(j) /\ job'[j].step \in {"turn", "end"}
  BY <1>1 DEF Others
<1>3. JobInv'
  <2>1. Fits(job'[j], turn'[j], job'[j].thread \in Threads /\ job'[j].canvas \in Canvases
                                   /\ owner'[job'[j].thread] = job'[j].canvas)
    BY <1>1 DEF Fits, Shape
  <2> QED BY <1>2, <2>1, JobKeeps
<1>4. QueueInv' /\ queue' \in Seq(Requests)
  <2>1. Along(j, job[j], job'[j])
    BY <1>1 DEF Along, InQueue, Running, Begun
  <2> QED BY <1>2, <2>1, QueueKeeps
<1>5. TypeInv'
  <2>1. \A i \in DOMAIN queue' : queue'[i] \in Requests
    BY <1>4
  <2>2. current' \in ThreadOrNone
    BY DEF ThreadOrNone
  <2> QED BY <1>1, <1>4, <2>1, <2>2 DEF TypeInv, TypeOK, Request
<1>6. ReplacedInv'
  <2>1. \A i \in Requests \ {j} : job'[i].step \notin {"turn", "replace"}
    <3> SUFFICES ASSUME NEW i \in Requests \ {j}, job[i].step \in {"turn", "replace"} PROVE FALSE
      BY <1>1
    <3>1. job[i].kind = "turn"
      BY DEF JobInv, Shape
    <3> QED BY <3>1 DEF QueueInv, Running, Begun
  <2> QED BY <1>1, <1>2, <2>1 DEF ReplacedInv, OnDisk
<1>7. ProcInv'
  <2>1. \A i \in Requests : job'[i].on # 0 => proc[job'[i].on] # "off"
    BY <1>1 DEF ProcInv
  <2>2. owner'[current'] # None
    BY ConstantsOK
  <2>3. ~raced => lost' = {}
    BY <1>1 DEF ProcInv
  <2> QED BY <2>1, <2>2, <2>3 DEF ProcInv
<1> QED BY <1>3, <1>4, <1>5, <1>6, <1>7

LEMMA RunTurnKeeps ==
  ASSUME ConstantsOK, CodexInv, NEW j \in Requests, RunTurn(j) PROVE CodexInv'
<1> USE DEF CodexInv
<1>1. /\ job[j] \in Request /\ queue # <<>> /\ queue[1] = j /\ 1 \in DOMAIN queue /\ job[j].step = "queued"
      /\ StillQueued /\ UNCHANGED <<globals, owner, rollout, archived, turn, replaced, loaded>>
  BY Types DEF RunTurn
<1>2. InQueue(job[j]) /\ Owned(job[j]) /\ turn[j] = "none" /\ job[j].kind = "turn" /\ OwnersKept
  BY <1>1, Types DEF QueueInv, InQueue, JobInv, Begun, OwnersKept
<1>3. CASE Ask(j, job[j], "read") /\ UNCHANGED lost
  <2>1. "read" \in Steps /\ UNCHANGED <<app, current, loaded, owner, lost>>
    BY <1>1, <1>3 DEF Steps, globals
  <2>2. /\ job' \in [Requests -> Request] /\ \A i \in Requests \ {j} : job'[i] = job[i]
        /\ job'[j].step = "read" /\ job'[j].on \in Procs /\ job'[j].wait \in {"start", "reply"}
        /\ job'[j].kind = job[j].kind /\ job'[j].canvas = job[j].canvas /\ job'[j].thread = job[j].thread
        /\ proc' \in [Procs -> {"off", "starting", "up"}] /\ raced' \in BOOLEAN /\ ProcInv'
    BY <1>1, <1>3, <2>1, AskIs
  <2>3. Others(j)
    BY <1>1, <2>2 DEF Others
  <2>4. JobInv'
    <3>1. Fits(job'[j], turn'[j], job'[j].thread \in Threads /\ job'[j].canvas \in Canvases
                                     /\ owner'[job'[j].thread] = job'[j].canvas)
      BY <1>1, <1>2, <2>2, ConstantsOK DEF Fits, Shape, Owned, Begun
    <3> QED BY <1>2, <2>3, <3>1, JobKeeps
  <2>5. QueueInv' /\ queue' \in Seq(Requests)
    <3>1. Along(j, job[j], job'[j])
      BY <1>1, <1>2, <2>2 DEF Along, InQueue, Running, Begun
    <3> QED BY <1>1, <2>3, <3>1, QueueKeeps
  <2>6. TypeInv'
    BY <1>1, <2>2, <2>5, Types DEF TypeInv, TypeOK, Request, globals
  <2>7. ActiveInv' /\ ReplacedInv'
    BY <1>1, <2>2 DEF ActiveInv, ReplacedInv, OnDisk, globals
  <2> QED BY <2>2, <2>4, <2>5, <2>6, <2>7
<1>4. CASE app # 0 /\ job[j].thread = current /\ SendTurn(j, job[j], app) /\ UNCHANGED <<proc, raced>>
  <2>1. UNCHANGED <<app, proc, rollout, archived, turn, raced>> /\ UNCHANGED <<active, owner, loaded, replaced>>
        /\ current' = job[j].thread
    BY <1>1, <1>4 DEF globals
  <2>2. /\ owner' \in [Threads -> Canvases \union {None}] /\ loaded' \in [Procs -> SUBSET Threads]
        /\ active' \in [Canvases -> ThreadOrNone] /\ ActiveInv' /\ replaced' \subseteq Threads
    BY <2>1, Types DEF ActiveInv
  <2>3. /\ job[j].thread \in Threads /\ job[j].canvas \in Canvases /\ owner'[job[j].thread] = job[j].canvas
        /\ job[j].thread # 0
    BY <1>2, <2>1, ConstantsOK DEF Owned
  <2>4. /\ job[j].thread \notin replaced'
        /\ \A t \in replaced' : owner'[t] # None /\ ~OnDisk(t)
    BY <1>4, <2>1 DEF ReplacedInv
  <2>5. ~raced => /\ \A p \in Procs : proc[p] # "off" => job[j].thread \in loaded'[p]
                  /\ \E p \in Procs : proc[p] # "off" /\ job[j].thread \in loaded'[p]
    BY <1>4, <2>1, <2>3 DEF ProcInv
  <2> QED BY <1>1, <1>2, <1>4, <2>1, <2>2, <2>3, <2>4, <2>5, SendKeeps
<1> QED BY <1>3, <1>4 DEF RunTurn

LEMMA ThreadResumedKeeps ==
  ASSUME ConstantsOK, CodexInv, NEW j \in Requests, ThreadResumed(j) PROVE CodexInv'
<1> USE DEF CodexInv
<1> DEFINE t == job[j].thread
<1>1. /\ job[j] \in Request /\ job[j].wait = "reply" /\ job[j].step = "resume" /\ OnDisk(t)
      /\ loaded' = [loaded EXCEPT ![job[j].on] = @ \union {t}] /\ current' = t /\ StillQueued
      /\ UNCHANGED <<app, proc, owner, rollout, archived, turn, replaced, raced>>
  BY Types DEF ThreadResumed
<1>2. Owned(job[j]) /\ turn[j] = "none" /\ OwnersKept /\ job[j].on \in Procs /\ t \notin replaced /\ t # 0 /\ t \in Threads
      /\ job[j].on # 0
  BY <1>1, Types, ConstantsOK DEF JobInv, Shape, Begun, OwnersKept, Request, ProcOrNone, ReplacedInv, Owned
<1>3. /\ loaded' \in [Procs -> SUBSET Threads] /\ owner' \in [Threads -> Canvases \union {None}]
      /\ replaced' \subseteq Threads /\ t \in loaded'[job[j].on] /\ proc[job[j].on] # "off"
  <2>1. proc[job[j].on] # "off"
    BY <1>2 DEF ProcInv
  <2>2. loaded \in [Procs -> SUBSET Threads] /\ owner \in [Threads -> Canvases \union {None}] /\ replaced \subseteq Threads
    BY Types
  <2> HIDE DEF t
  <2> QED BY <1>1, <1>2, <2>1, <2>2
<1>4. ~raced => /\ \A p \in Procs : proc[p] # "off" => t \in loaded'[p]
                /\ \E p \in Procs : proc[p] # "off" /\ t \in loaded'[p]
  BY <1>2, <1>3 DEF ProcInv
<1>5. CASE job[j].kind = "turn" /\ SendTurn(j, job[j], app) /\ UNCHANGED active
  <2>1. InQueue(job[j]) /\ queue # <<>> /\ queue[1] = j
    BY <1>1, <1>5 DEF InQueue, QueueInv, Running, Begun
  <2>2. ActiveInv' /\ active' \in [Canvases -> ThreadOrNone]
    BY <1>1, <1>5, Types DEF ActiveInv
  <2>3. \A u \in replaced' : owner'[u] # None /\ ~OnDisk(u)
    BY <1>1 DEF ReplacedInv
  <2> QED BY <1>1, <1>2, <1>3, <1>4, <1>5, <2>1, <2>2, <2>3, SendKeeps DEF Owned
<1>6. CASE /\ job[j].kind = "resume" /\ Become(j, Ended(job[j]))
           /\ active' = [active EXCEPT ![job[j].canvas] = job[j].thread] /\ UNCHANGED lost
  <2>1. Ended(job[j]) \in Request
    BY <1>1, EndedIs
  <2>2. /\ job' \in [Requests -> Request] /\ Others(j)
        /\ job'[j].step = "end" /\ job'[j].on = 0 /\ job'[j].wait = "no" /\ job'[j].kind = job[j].kind
        /\ job'[j].canvas = job[j].canvas /\ job'[j].thread = job[j].thread
    <3>1. /\ job' \in [Requests -> Request] /\ job'[j] = Ended(job[j])
          /\ \A i \in Requests \ {j} : job'[i] = job[i]
      BY <1>6, <2>1, Became
    <3> QED BY <1>1, <3>1, EndedIs DEF Others
  <2>3. JobInv'
    <3>1. Fits(job'[j], turn'[j], job'[j].thread \in Threads /\ job'[j].canvas \in Canvases
                                     /\ owner'[job'[j].thread] = job'[j].canvas)
      BY <1>1, <1>2, <2>2 DEF Fits, Shape, Owned, Begun
    <3> QED BY <1>2, <2>2, <3>1, JobKeeps
  <2>4. QueueInv' /\ queue' \in Seq(Requests)
    <3>1. Along(j, job[j], job'[j])
      BY <1>1, <1>6, <2>2 DEF Along, InQueue, Running, Begun
    <3> QED BY <1>1, <2>2, <3>1, QueueKeeps
  <2>5. active' \in [Canvases -> ThreadOrNone] /\ ActiveInv'
    BY <1>1, <1>2, <1>6, Types DEF ActiveInv, Owned, ThreadOrNone
  <2>6. TypeInv'
    BY <1>1, <1>2, <1>3, <2>2, <2>4, <2>5, Types DEF TypeInv, TypeOK, Request, ThreadOrNone
  <2>7. ReplacedInv'
    BY <1>1, <1>2, <2>2 DEF ReplacedInv, OnDisk, Others
  <2>8. ProcInv'
    <3>1. \A i \in Requests : job'[i].on # 0 => proc[job'[i].on] # "off"
      BY <2>2 DEF ProcInv, Others
    <3>2. owner'[current'] # None
      BY <1>1, <1>2, ConstantsOK DEF Owned
    <3> QED BY <1>1, <1>4, <1>6, <3>1, <3>2 DEF ProcInv
  <2> QED BY <2>3, <2>4, <2>5, <2>6, <2>7, <2>8
<1> QED BY <1>5, <1>6 DEF ThreadResumed

\* The process of request j has started thread t for its canvas.
Starts(j, t) ==
    /\ owner' = [owner EXCEPT ![t] = job[j].canvas]
    /\ loaded' = [loaded EXCEPT ![job[j].on] = @ \union {t}]
    /\ active' = [active EXCEPT ![job[j].canvas] = t]

\* A new thread belongs to the canvas it was started for and becomes current.
LEMMA NewThread ==
  ASSUME ConstantsOK, CodexInv, NEW j \in Requests, NEW t \in Threads \ Known,
         job[j].wait = "reply", job[j].step \in {"start", "replace"}, Starts(j, t)
  PROVE  /\ job[j].canvas \in Canvases /\ job[j].on \in Procs /\ turn[j] = "none"
         /\ owner' \in [Threads -> Canvases \union {None}] /\ owner'[t] = job[j].canvas /\ OwnersKept
         /\ loaded' \in [Procs -> SUBSET Threads] /\ active' \in [Canvases -> ThreadOrNone] /\ ActiveInv'
         /\ owner[t] = None /\ t \notin replaced /\ t # 0
         /\ ~raced => /\ \A p \in Procs : proc[p] # "off" => t \in loaded'[p]
                      /\ \E p \in Procs : proc[p] # "off" /\ t \in loaded'[p]
<1> USE DEF CodexInv
<1>1. job[j] \in Request /\ owner[t] = None /\ t # 0
  BY Types, ConstantsOK DEF Known
<1>2. job[j].canvas \in Canvases /\ job[j].on \in Procs /\ turn[j] = "none" /\ t \notin replaced
  <2>1. job[j].canvas \in Canvases /\ job[j].on \in Procs
    BY <1>1 DEF JobInv, Shape, Request, ProcOrNone
  <2>2. turn[j] = "none"
    BY Types DEF JobInv
  <2>3. t \notin replaced
    BY <1>1 DEF ReplacedInv
  <2> QED BY <2>1, <2>2, <2>3
<1>3. /\ owner' \in [Threads -> Canvases \union {None}] /\ owner'[t] = job[j].canvas /\ OwnersKept
      /\ loaded' \in [Procs -> SUBSET Threads] /\ active' \in [Canvases -> ThreadOrNone]
  BY <1>1, <1>2, Types DEF Starts, OwnersKept, ThreadOrNone
<1>4. ActiveInv'
  <2> SUFFICES ASSUME NEW c \in Canvases, active'[c] # 0 PROVE owner'[active'[c]] = c
    BY DEF ActiveInv
  <2>1. CASE c = job[j].canvas
    BY <1>3, <2>1, Types DEF Starts
  <2>2. CASE c # job[j].canvas
    <3>1. active'[c] = active[c] /\ active[c] \in Threads /\ owner[active[c]] = c
      BY <2>2, Types DEF ActiveInv, ThreadOrNone, Starts
    <3> QED BY <1>3, <3>1, ConstantsOK DEF OwnersKept
  <2> QED BY <2>1, <2>2
<1>5. proc[job[j].on] # "off" /\ t \in loaded'[job[j].on]
  BY <1>2, Types, ConstantsOK DEF ProcInv, Starts
<1>6. ~raced => /\ \A p \in Procs : proc[p] # "off" => t \in loaded'[p]
                /\ \E p \in Procs : proc[p] # "off" /\ t \in loaded'[p]
  BY <1>2, <1>5 DEF ProcInv
<1> QED BY <1>1, <1>2, <1>3, <1>4, <1>6

\* A request that is not in codexQueue gets a new thread: it ends, or joins the queue.
LEMMA NewKeeps ==
  ASSUME ConstantsOK, CodexInv, NEW j \in Requests, NEW t \in Threads \ Known, NEW step \in {"queued", "end"},
         job[j].wait = "reply", job[j].step = "start",
         Starts(j, t), current' = t,
         Become(j, [[job[j] EXCEPT !.thread = t] EXCEPT !.step = step, !.on = 0, !.wait = "no"]),
         IF step = "end" THEN UNCHANGED queue ELSE job[j].kind = "turn" /\ queue' = Append(queue, j),
         UNCHANGED <<app, proc, rollout, archived, turn, replaced, lost, raced>>
  PROVE  CodexInv'
<1> USE DEF CodexInv
<1>1. /\ job[j].canvas \in Canvases /\ job[j].on \in Procs /\ turn[j] = "none"
      /\ owner' \in [Threads -> Canvases \union {None}] /\ owner'[t] = job[j].canvas /\ OwnersKept
      /\ loaded' \in [Procs -> SUBSET Threads] /\ active' \in [Canvases -> ThreadOrNone] /\ ActiveInv'
      /\ owner[t] = None /\ t \notin replaced /\ t # 0
      /\ ~raced => /\ \A p \in Procs : proc[p] # "off" => t \in loaded'[p]
                   /\ \E p \in Procs : proc[p] # "off" /\ t \in loaded'[p]
  BY NewThread
<1>2. /\ job' \in [Requests -> Request] /\ Others(j)
      /\ job'[j].step = step /\ job'[j].on = 0 /\ job'[j].wait = "no" /\ job'[j].kind = job[j].kind
      /\ job'[j].canvas = job[j].canvas /\ job'[j].thread = t
  <2> DEFINE r == [[job[j] EXCEPT !.thread = t] EXCEPT !.step = step, !.on = 0, !.wait = "no"]
  <2>1. job[j] \in Request
    BY Types
  <2>2. /\ r \in Request /\ r.step = step /\ r.on = 0 /\ r.wait = "no" /\ r.kind = job[j].kind
        /\ r.canvas = job[j].canvas /\ r.thread = t
    BY <2>1 DEF Request, Steps, ProcOrNone, ThreadOrNone
  <2>3. Become(j, r)
    OBVIOUS
  <2> HIDE DEF r
  <2>4. /\ job' \in [Requests -> Request] /\ job'[j] = r
        /\ \A i \in Requests \ {j} : job'[i] = job[i]
    BY <2>2, <2>3, Became
  <2> QED BY <2>1, <2>2, <2>4 DEF Others
<1>3. JobInv'
  <2>1. Fits(job'[j], turn'[j], job'[j].thread \in Threads /\ job'[j].canvas \in Canvases
                                   /\ owner'[job'[j].thread] = job'[j].canvas)
    BY <1>1, <1>2 DEF Fits, Shape, Begun
  <2> QED BY <1>1, <1>2, <2>1, JobKeeps
<1>4. QueueInv' /\ queue' \in Seq(Requests)
  <2>1. ~InQueue(job[j])
    BY DEF InQueue, Begun
  <2>2. CASE step = "end"
    <3>1. Along(j, job[j], job'[j])
      BY <1>2, <2>2 DEF Along, InQueue, Running, Begun
    <3>2. StillQueued
      BY <1>2, <2>1, <2>2, QueueSame
    <3> QED BY <1>2, <3>1, <3>2, QueueKeeps
  <2>3. CASE step = "queued"
    BY <1>2, <2>1, <2>3, QueueAppends
  <2> QED BY <2>2, <2>3
<1>5. TypeInv'
  BY <1>1, <1>2, <1>4, Types DEF TypeInv, TypeOK, Request, ThreadOrNone
<1>6. ReplacedInv'
  <2>1. \A u \in replaced : owner'[u] # None
    BY <1>1, Types, ConstantsOK DEF ReplacedInv, OwnersKept
  <2> QED BY <1>1, <1>2, <2>1 DEF ReplacedInv, OnDisk, Others
<1>7. ProcInv'
  <2>1. \A i \in Requests : job'[i].on # 0 => proc[job'[i].on] # "off"
    BY <1>2 DEF ProcInv, Others
  <2>2. owner'[current'] # None
    BY <1>1, ConstantsOK
  <2> QED BY <1>1, <2>1, <2>2 DEF ProcInv
<1> QED BY <1>1, <1>3, <1>4, <1>5, <1>6, <1>7

LEMMA ThreadStartedKeeps ==
  ASSUME ConstantsOK, CodexInv, NEW j \in Requests, ThreadStarted(j) PROVE CodexInv'
<1>1. PICK t \in Threads \ Known :
        /\ Starts(j, t) /\ current' = t
        /\ LET r == [job[j] EXCEPT !.thread = t]
           IN  \/ /\ job[j].step = "start" /\ job[j].kind = "new"
                  /\ Become(j, Ended(r)) /\ UNCHANGED <<queue, replaced, lost>>
               \/ /\ job[j].step = "start" /\ job[j].kind = "turn"
                  /\ Become(j, [r EXCEPT !.step = "queued", !.on = 0, !.wait = "no"])
                  /\ queue' = Append(queue, j) /\ UNCHANGED <<replaced, lost>>
               \/ /\ job[j].step = "replace"
                  /\ replaced' = replaced \union {job[j].thread}
                  /\ SendTurn(j, r, app) /\ StillQueued
  BY DEF ThreadStarted, Starts
<1>2. /\ job[j].wait = "reply" /\ job[j].step \in {"start", "replace"}
      /\ UNCHANGED <<app, proc, rollout, archived, turn, raced>>
  BY DEF ThreadStarted
<1>3. CASE /\ job[j].step = "start" /\ job[j].kind = "new"
           /\ Become(j, Ended([job[j] EXCEPT !.thread = t])) /\ UNCHANGED <<queue, replaced, lost>>
  BY <1>1, <1>2, <1>3, NewKeeps DEF Ended
<1>4. CASE /\ job[j].step = "start" /\ job[j].kind = "turn"
           /\ Become(j, [[job[j] EXCEPT !.thread = t] EXCEPT !.step = "queued", !.on = 0, !.wait = "no"])
           /\ queue' = Append(queue, j) /\ UNCHANGED <<replaced, lost>>
  BY <1>1, <1>2, <1>4, NewKeeps
<1>5. CASE /\ job[j].step = "replace" /\ replaced' = replaced \union {job[j].thread}
           /\ SendTurn(j, [job[j] EXCEPT !.thread = t], app) /\ StillQueued
  <2> USE DEF CodexInv
  <2>1. /\ job[j].canvas \in Canvases /\ turn[j] = "none"
        /\ owner' \in [Threads -> Canvases \union {None}] /\ owner'[t] = job[j].canvas /\ OwnersKept
        /\ loaded' \in [Procs -> SUBSET Threads] /\ active' \in [Canvases -> ThreadOrNone] /\ ActiveInv'
        /\ owner[t] = None /\ t \notin replaced
        /\ ~raced => /\ \A p \in Procs : proc[p] # "off" => t \in loaded'[p]
                     /\ \E p \in Procs : proc[p] # "off" /\ t \in loaded'[p]
    BY <1>1, <1>2, NewThread
  <2>2. /\ job[j] \in Request /\ Owned(job[j]) /\ ~OnDisk(job[j].thread) /\ job[j].kind = "turn"
        /\ InQueue(job[j]) /\ queue # <<>> /\ queue[1] = j
    <3>1. job[j] \in Request /\ Owned(job[j]) /\ ~OnDisk(job[j].thread) /\ job[j].kind = "turn"
      BY <1>5, Types DEF JobInv, Shape, Begun, ReplacedInv
    <3> QED BY <1>5, <3>1 DEF InQueue, QueueInv, Running, Begun
  <2> DEFINE r == [job[j] EXCEPT !.thread = t]
  <2>3. r \in Request /\ r.kind = "turn" /\ r.thread = t /\ r.canvas = job[j].canvas
    BY <2>2 DEF Request, ThreadOrNone
  <2>4. SendTurn(j, r, app)
    BY <1>5
  <2> HIDE DEF r
  <2>5. /\ replaced' \subseteq Threads /\ t \notin replaced'
        /\ \A u \in replaced' : owner'[u] # None /\ ~OnDisk(u)
    <3>1. job[j].thread \in Threads /\ owner[job[j].thread] # None
      BY <2>2, ConstantsOK DEF Owned
    <3>2. \A u \in replaced : u \in Threads /\ owner[u] # None /\ ~OnDisk(u)
      BY Types DEF ReplacedInv
    <3> QED BY <1>5, <2>1, <2>2, <3>1, <3>2 DEF OwnersKept
  <2> QED BY <1>1, <1>2, <1>5, <2>1, <2>2, <2>3, <2>4, <2>5, SendKeeps
<1> QED BY <1>1, <1>3, <1>4, <1>5

-----------------------------------------------------------------------------
(* The theorems.                                                           *)

LEMMA InitCodex ==
  ASSUME ConstantsOK, Init PROVE CodexInv
<1>1. PICK c \in Canvases, known \in BOOLEAN :
        /\ owner = [t \in Threads |-> IF t = 1 /\ known THEN c ELSE None]
        /\ active = [d \in Canvases |-> IF d = c /\ known THEN 1 ELSE 0]
        /\ rollout \in {{}, {1} \intersect {t \in Threads : known}}
  BY DEF Init
<1>2. \A j \in Requests : /\ job[j].step = "new" /\ job[j].kind = "list" /\ job[j].on = 0 /\ job[j].wait = "no"
                          /\ turn[j] = "none"
  BY DEF Init
<1>3. TypeInv
  <2>1. /\ owner \in [Threads -> Canvases \union {None}] /\ active \in [Canvases -> ThreadOrNone]
        /\ rollout \subseteq Threads
    BY <1>1, ConstantsOK DEF ThreadOrNone
  <2>2. job \in [Requests -> Request]
    BY DEF Init, Request, Kinds, Steps, ThreadOrNone, ProcOrNone
  <2>3. /\ proc \in [Procs -> {"off", "starting", "up"}] /\ loaded \in [Procs -> SUBSET Threads]
        /\ turn \in [Requests -> {"none", "running", "completed"}]
    BY DEF Init
  <2>4. /\ app \in ProcOrNone /\ current \in ThreadOrNone /\ archived = {} /\ replaced = {} /\ raced = FALSE
        /\ queue = <<>>
    BY DEF Init, ThreadOrNone, ProcOrNone
  <2>5. queue \in Seq(Requests)
    BY <2>4
  <2>6. TypeOK
    BY <2>1, <2>2, <2>3, <2>4 DEF TypeOK, Request
  <2> QED BY <2>4, <2>5, <2>6 DEF TypeInv
<1>4. JobInv
  BY <1>2 DEF JobInv, Shape, Begun
<1>5. ActiveInv
  BY <1>1, ConstantsOK DEF ActiveInv
<1>6. QueueInv
  BY <1>2 DEF QueueInv, Running, Begun, Init
<1>7. ReplacedInv
  BY <1>2 DEF ReplacedInv, Init
<1>8. ProcInv
  BY <1>2 DEF ProcInv, Init
<1> QED BY <1>3, <1>4, <1>5, <1>6, <1>7, <1>8 DEF CodexInv

LEMMA NextCodex ==
  ASSUME ConstantsOK, CodexInv, [Next]_vars PROVE CodexInv'
<1>1. CASE UNCHANGED vars
  BY <1>1 DEF vars, globals, server, ghosts, CodexInv, TypeInv, TypeOK, JobInv, Shape, Owned, ActiveInv, QueueInv,
              InQueue, Running, ReplacedInv, OnDisk, ProcInv
<1>2. CASE \E p \in Procs : Exit(p)
  BY <1>2, ExitKeeps
<1>3. CASE \E j \in Requests : PostTurn(j) \/ PostOther(j) \/ Progress(j) \/ RequestFails(j)
  <2>1. PICK j \in Requests : PostTurn(j) \/ PostOther(j) \/ Progress(j) \/ RequestFails(j)
    BY <1>3
  <2>2. CASE Progress(j)
    BY <2>2, StartedKeeps, RunTurnKeeps, ThreadStartedKeeps, ThreadReadKeeps, ThreadNotReadKeeps, ThreadResumedKeeps,
       ThreadArchivedKeeps, ThreadsListedKeeps, TurnBeginsKeeps, TurnRefusedKeeps, TurnRepliesKeeps, TurnCompletesKeeps
       DEF Progress
  <2> QED BY <2>1, <2>2, PostTurnKeeps, PostOtherKeeps, RequestFailsKeeps
<1> QED BY <1>1, <1>2, <1>3 DEF Next

\* The agent's globals, its processes, threads and requests keep the values the
\* code gives them, whatever is answered and whichever process exits.
THEOREM TypeCorrect == Spec => []TypeOK
<1>1. CodexInv => TypeOK
  BY DEF CodexInv, TypeInv
<1> QED BY <1>1, InitCodex, NextCodex, ConstantsOK, PTL DEF Spec

\* A turn goes to a thread of its own canvas, no thread that has turns is
\* replaced by an empty one, and a process gets turns for threads it has loaded
\* unless a second one was started: codexQueue and the globals codexApp and
\* codexThreadId are enough for that, at any await and any exit.
THEOREM TurnsStayInTheirThread == Spec => []TurnInItsThread
<1>1. CodexInv => TurnInItsThread
  BY DEF CodexInv, JobInv, Owned, ReplacedInv, ProcInv, TurnInItsThread
<1> QED BY <1>1, InitCodex, NextCodex, ConstantsOK, PTL DEF Spec
=============================================================================
