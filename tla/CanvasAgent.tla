---------------------------- MODULE CanvasAgent ----------------------------
(***************************************************************************)
(* The bridge between a coding agent and the canvas pages.  The local      *)
(* server (canvas-agent/src/canvas-session.ts) keeps one event stream per  *)
(* page, the last canvas state a page posted, and the tool calls it waits  *)
(* for.  A page (canvas-local-agent-panel.tsx) receives a call on its      *)
(* stream, asks the user, changes its canvas, posts the new state and only *)
(* then the result.                                                        *)
(*                                                                         *)
(* The calls of this module are canvas_apply_ops, which every writing tool *)
(* of callTool becomes.  The content of a canvas is its version: a number  *)
(* that every change of it increases.                                      *)
(***************************************************************************)
EXTENDS Naturals, SequencesExt

CONSTANTS
    Clients,         \* pages, by clientId
    Calls,           \* tool calls, by requestId
    None,            \* no page, no call
    MaxEdits,        \* bounds: changes and repeated rejections by the user, event
    MaxConnections,  \* streams, lost requests, and all of them together
    MaxLost,
    MaxEvents

ASSUME ConstantsOK ==
    /\ None \notin Clients \union Calls /\ "hello" \notin Calls
    /\ IsFiniteSet(Clients) /\ IsFiniteSet(Calls)
    /\ {MaxEdits, MaxConnections, MaxLost} \subseteq Nat

VARIABLES
    clients,     \* server: clients[c], the stream registered for c, 0 for none
    state,       \* server: canvasState
    pending,     \* server: the calls that wait for a result
    call,        \* agent: what became of each call
    opening,     \* streams the server has not accepted yet
    sockets,     \* streams the server has not seen closed yet
    conn,        \* page: its stream, 0 when it is not enabled
    connected,   \* page: connectedRef
    events,      \* what is on its way on the stream of the page
    canvas,      \* page: the version of its canvas
    sync,        \* page: how its state comes to be posted, a Syncing
    confirm,     \* page: the call that waits for the user, pendingTool
    queue,       \* page: CanvasAgentStateSyncQueue
    results,     \* results on their way to the server
    late,        \* requests the page gave up that may still arrive
    applied,     \* ghosts: applied[r], the version that r produced
    stored,      \*   stored[c], the newest version of c the server accepted
    heard,       \*   heard[c], the stream of c at its last accepted state
    overlap,     \*   did a stream of c open before an older one was closed
    swept,       \*   calls that the answer to another call's rejection took off the screen
    count        \*   counters for the bounds

server == <<clients, state, pending, call>>
stream == <<opening, sockets, conn, connected, events>>
page == <<canvas, sync, confirm, queue>>
ghosts == <<applied, stored, heard, overlap, swept>>
vars == <<server, stream, page, results, late, ghosts, count>>


NoState == [client |-> None, version |-> 0]
Streams == 1 .. MaxConnections
Versions == 0 .. MaxEdits + Cardinality(Calls)
Purposes == {[for |-> "edit", call |-> None, stream |-> 0],
             [for |-> "overtaken", call |-> None, stream |-> 0]}
    \union [for : {"hello"}, call : {None}, stream : Streams]
    \union [for : {"call"}, call : Calls, stream : {0}]
\* The user may reject a call again before the first rejection is answered;
\* bound: two rejections of one call on their way.
Rejections == {"reject", "again"}
Results == [call : Calls, why : {"done", "failed", "busy"} \union Rejections, from : Clients]

\* timer: the canvas the 300 ms timer is armed with, {} when it is not armed;
\* error: stateSyncErrorRef is set.
Syncing == [timer : {{}} \union {{v} : v \in Versions}, error : BOOLEAN]

TypeOK ==
    /\ clients \in [Clients -> Streams \union {0}]
    /\ state \in [client : Clients \union {None}, version : Versions]
    /\ pending \subseteq Calls
    /\ call \in [Calls -> {"new", "waiting", "ok", "error", "timeout"}]
    /\ opening \in [Clients -> SUBSET Streams] /\ sockets \in [Clients -> SUBSET Streams]
    /\ conn \in [Clients -> Streams \union {0}] /\ connected \in [Clients -> BOOLEAN]
    /\ \A c \in Clients : \A i \in DOMAIN events[c] : events[c][i] \in Calls \union {"hello"}
    /\ canvas \in [Clients -> Versions] /\ sync \in [Clients -> Syncing]
    /\ confirm \in [Clients -> Calls \union {None}]
    /\ \A c \in Clients : \A i \in DOMAIN queue[c] :
         queue[c][i].version \in Versions /\ queue[c][i].purpose \in Purposes
    /\ results \subseteq Results
    /\ \A p \in late : p \in [state : [client : Clients, version : Versions]] \union [result : Results]

NotSyncing == [timer |-> {}, error |-> FALSE]

Init ==
    /\ clients = [c \in Clients |-> 0] /\ state = NoState /\ pending = {}
    /\ call = [r \in Calls |-> "new"]
    /\ opening = [c \in Clients |-> {}] /\ sockets = [c \in Clients |-> {}]
    /\ conn = [c \in Clients |-> 0] /\ connected = [c \in Clients |-> FALSE]
    /\ events = [c \in Clients |-> <<>>]
    /\ canvas = [c \in Clients |-> 0] /\ sync = [c \in Clients |-> NotSyncing]
    /\ confirm = [c \in Clients |-> None] /\ queue = [c \in Clients |-> <<>>]
    /\ results = {} /\ late = {}
    /\ applied = [r \in Calls |-> 0] /\ stored = [c \in Clients |-> 0]
    /\ heard = [c \in Clients |-> 0] /\ overlap = [c \in Clients |-> FALSE]
    /\ swept = {}
    /\ count = [edits |-> 0, streams |-> 0, lost |-> 0]

Room == count.edits + count.streams + count.lost < MaxEvents

\* The user changes the canvas or repeats a rejection.
Ask ==
    /\ count.edits < MaxEdits /\ Room
    /\ count' = [count EXCEPT !.edits = @ + 1]

-----------------------------------------------------------------------------
(* The event stream.                                                       *)

\* The page enables the agent: it asks for a stream under its clientId.
Enable(c) ==
    /\ conn[c] = 0 /\ count.streams < MaxConnections /\ Room
    /\ count' = [count EXCEPT !.streams = @ + 1]
    /\ conn' = [conn EXCEPT ![c] = count.streams + 1]
    /\ opening' = [opening EXCEPT ![c] = @ \union {count.streams + 1}]
    /\ UNCHANGED <<server, sockets, connected, events, page, results, late, ghosts>>

\* The page's stream is aborted; nothing of it is handled any more.
Closed(c) ==
    /\ conn' = [conn EXCEPT ![c] = 0]
    /\ connected' = [connected EXCEPT ![c] = FALSE]
    /\ events' = [events EXCEPT ![c] = <<>>]

\* The user disconnects, or the stream breaks (onError): the session is cleared.
Disconnect(c) ==
    /\ conn[c] # 0
    /\ Closed(c)
    /\ confirm' = [confirm EXCEPT ![c] = None]
    /\ UNCHANGED <<server, opening, sockets, canvas, sync, queue, results, late, ghosts, count>>

\* openEvents
OpenEvents(c) ==
    \E n \in opening[c] :
        /\ opening' = [opening EXCEPT ![c] = @ \ {n}]
        /\ sockets' = [sockets EXCEPT ![c] = @ \union {n}]
        /\ clients' = [clients EXCEPT ![c] = n]
        /\ events' = IF conn[c] = n THEN [events EXCEPT ![c] = Append(@, "hello")] ELSE events
        /\ overlap' = [overlap EXCEPT ![c] = @ \/ sockets[c] # {}]
        /\ UNCHANGED <<state, pending, call, conn, connected, page, results, late,
                       applied, stored, heard, swept, count>>

\* The close handler removes whatever stream is registered for the clientId.
CloseEvents(c) ==
    \E n \in sockets[c] \ {conn[c]} :
        /\ sockets' = [sockets EXCEPT ![c] = @ \ {n}]
        /\ clients' = [clients EXCEPT ![c] = 0]
        /\ state' = IF state.client = c THEN NoState ELSE state
        /\ UNCHANGED <<pending, call, opening, conn, connected, events, page, results, late,
                       ghosts, count>>

-----------------------------------------------------------------------------
(* Tool calls at the server.                                               *)

\* requestCanvasTool picks the page of canvasState, or else the first one.
Target(c) ==
    /\ clients[c] # 0
    /\ state.client # None /\ clients[state.client] # 0 => c = state.client

\* callTool: the call goes out on the stream registered for its page.
CallTool(r) ==
    /\ call[r] = "new"
    /\ \E c \in Clients :
        /\ Target(c)
        /\ events' = IF clients[c] = conn[c] THEN [events EXCEPT ![c] = Append(@, r)] ELSE events
    /\ pending' = pending \union {r}
    /\ call' = [call EXCEPT ![r] = "waiting"]
    /\ UNCHANGED <<clients, state, opening, sockets, conn, connected, page, results, late,
                   ghosts, count>>

CallRefused(r) ==
    /\ call[r] = "new" /\ \A c \in Clients : clients[c] = 0
    /\ call' = [call EXCEPT ![r] = "error"]
    /\ UNCHANGED <<clients, state, pending, stream, page, results, late, ghosts, count>>

\* The 30 s timer.  The page is not told.
CallTimesOut(r) ==
    /\ r \in pending
    /\ pending' = pending \ {r}
    /\ call' = [call EXCEPT ![r] = "timeout"]
    /\ UNCHANGED <<clients, state, stream, page, results, late, ghosts, count>>

\* (mutant) keeps the reason the page gave as the outcome
ResolveResult_Reason(res) ==
    /\ pending' = pending \ {res.call}
    /\ call' = IF res.call \notin pending THEN call ELSE [call EXCEPT ![res.call] = res.why]

\* resolveResult: a result that nobody waits for is ignored.
ResolveResult(res) ==
    /\ pending' = pending \ {res.call}
    /\ call' = IF res.call \notin pending THEN call
               ELSE [call EXCEPT ![res.call] = IF res.why = "done" THEN "ok" ELSE "error"]

\* updateState
UpdateState(c, version) ==
    /\ state' = [client |-> c, version |-> version]
    /\ stored' = [stored EXCEPT ![c] = Max({@, version})]

-----------------------------------------------------------------------------
(* The page.                                                               *)

For(kind, r, n) == [for |-> kind, call |-> r, stream |-> n]

\* CanvasAgentStateSyncQueue.enqueue
Enqueue(c, version, purpose) ==
    queue' = [queue EXCEPT ![c] = Append(@, [version |-> version, purpose |-> purpose])]

\* The canvas a timer is armed with for a change that is not rendered yet: it
\* keeps an older one until then.
Arm(c, version) == [sync EXCEPT ![c].timer = IF @ = {} /\ connected[c] THEN {version} ELSE @]

\* (mutant) does not wait for the state
RunToolCall_Hasty(c, r) ==
    /\ canvas' = [canvas EXCEPT ![c] = @ + 1]
    /\ applied' = [applied EXCEPT ![r] = canvas[c] + 1]
    /\ sync' = Arm(c, canvas[c] + 1)
    /\ results' = results \union {[call |-> r, why |-> "done", from |-> c]}
    /\ UNCHANGED queue

\* runToolCall changes the canvas and queues its state at once.  In manual
\* delivery applyOps refuses the whole call.
RunToolCall(c, r) ==
    \/ /\ canvas' = [canvas EXCEPT ![c] = @ + 1]
       /\ applied' = [applied EXCEPT ![r] = canvas[c] + 1]
       /\ sync' = Arm(c, canvas[c] + 1)
       /\ Enqueue(c, canvas[c] + 1, For("call", r, 0))
       /\ UNCHANGED results
    \/ /\ results' = results \union {[call |-> r, why |-> "failed", from |-> c]}
       /\ UNCHANGED <<canvas, applied, sync, queue>>

\* (mutant) connected with the greeting, before the state is stored
Hello_Connects(c) ==
    /\ events[c] # <<>> /\ Head(events[c]) = "hello"
    /\ events' = [events EXCEPT ![c] = Tail(@)]
    /\ connected' = [connected EXCEPT ![c] = TRUE]
    /\ Enqueue(c, canvas[c], For("hello", None, conn[c]))
    /\ UNCHANGED <<server, opening, sockets, conn, canvas, sync, confirm, results, late, ghosts, count>>

\* The stream's greeting: the page is connected once its state is stored.
Hello(c) ==
    /\ events[c] # <<>> /\ Head(events[c]) = "hello"
    /\ events' = [events EXCEPT ![c] = Tail(@)]
    /\ Enqueue(c, canvas[c], For("hello", None, conn[c]))
    /\ UNCHANGED <<server, opening, sockets, conn, connected, canvas, sync, confirm, results, late,
                   ghosts, count>>

\* (mutant) drops a call while another one waits for the user
HandleToolCall_DropsBusy(c) ==
    /\ events[c] # <<>> /\ Head(events[c]) \in Calls
    /\ events' = [events EXCEPT ![c] = Tail(@)]
    /\ LET r == Head(events[c])
       IN  \/ /\ confirm' = IF confirm[c] = None THEN [confirm EXCEPT ![c] = r] ELSE confirm
              /\ UNCHANGED <<canvas, sync, queue, results, applied>>
           \/ RunToolCall(c, r) /\ UNCHANGED confirm
    /\ UNCHANGED <<server, opening, sockets, conn, connected, late, stored, heard, overlap,
                   swept, count>>

\* handleToolCall: one call at a time may wait for the user.
HandleToolCall(c) ==
    /\ events[c] # <<>> /\ Head(events[c]) \in Calls
    /\ events' = [events EXCEPT ![c] = Tail(@)]
    /\ LET r == Head(events[c])
       IN  \/ /\ confirm[c] = None
              /\ confirm' = [confirm EXCEPT ![c] = r]
              /\ UNCHANGED <<canvas, sync, queue, results, applied>>
           \/ /\ confirm[c] # None
              /\ results' = results \union {[call |-> r, why |-> "busy", from |-> c]}
              /\ UNCHANGED <<canvas, sync, queue, confirm, applied>>
           \/ RunToolCall(c, r) /\ UNCHANGED confirm
    /\ UNCHANGED <<server, opening, sockets, conn, connected, late, stored, heard, overlap,
                   swept, count>>

\* approvePendingTool: whatever became of the call at the server
Approve(c) ==
    /\ confirm[c] # None
    /\ confirm' = [confirm EXCEPT ![c] = None]
    /\ RunToolCall(c, confirm[c])
    /\ UNCHANGED <<server, stream, late, stored, heard, overlap, swept, count>>

\* rejectPendingTool: the call and its buttons stay on the screen until the
\* rejection is answered.
Reject(c) ==
    /\ confirm[c] # None
    /\ LET rejection(why) == [call |-> confirm[c], why |-> why, from |-> c]
       IN  \/ /\ results' = results \union {rejection("reject")}
              /\ UNCHANGED count
           \/ /\ rejection("reject") \in results /\ Ask
              /\ results' = results \union {rejection("again")}
    /\ UNCHANGED <<server, stream, page, late, ghosts>>

\* The page has rendered an edit of the user: the effect of the change arms the
\* timer anew.
Edit(c) ==
    /\ Ask
    /\ canvas' = [canvas EXCEPT ![c] = @ + 1]
    /\ sync' = [sync EXCEPT ![c].timer = IF connected[c] THEN {canvas[c] + 1} ELSE {}]
    /\ UNCHANGED <<server, stream, confirm, queue, results, late, ghosts>>

\* A change that has been posted already is rendered: the effect arms the timer anew.
Render(c) ==
    /\ connected[c] /\ sync[c].timer \notin {{}, {canvas[c]}}
    /\ sync' = [sync EXCEPT ![c].timer = {canvas[c]}]
    /\ UNCHANGED <<server, stream, canvas, confirm, queue, results, late, ghosts, count>>

\* The timer posts the canvas it was armed with.  That one is overtaken if a
\* tool call has posted a newer one, for which the timer is armed in its turn.
EditTimerFires(c) ==
    /\ connected[c]
    /\ \E version \in sync[c].timer :
        /\ Enqueue(c, version, For(IF version = canvas[c] THEN "edit" ELSE "overtaken", None, 0))
        /\ sync' = [sync EXCEPT ![c].timer = {canvas[c]} \ {version}]
    /\ UNCHANGED <<server, stream, canvas, confirm, results, late, ghosts, count>>

\* A greeting of a stream that the page has given up since.
Outdated(c, purpose) == purpose.for = "hello" /\ purpose.stream # conn[c]

\* What follows the answer to a state request: the page is connected, or the
\* result of the call may be posted.
Continue(c, purpose) ==
    /\ connected' = IF purpose.for = "hello" /\ ~Outdated(c, purpose)
                    THEN [connected EXCEPT ![c] = TRUE] ELSE connected
    /\ sync' = [sync EXCEPT ![c] =
                  [timer |-> IF connected' = connected THEN @.timer ELSE {canvas[c]},
                   error |-> @.error /\ Outdated(c, purpose)]]
    /\ results' = IF purpose.for = "call"
                  THEN results \union {[call |-> purpose.call, why |-> "done", from |-> c]}
                  ELSE results

\* (mutant) posts every state at once, so that the answers come in any order
StateStored_Unordered(c) ==
    \E i \in DOMAIN queue[c] :
        /\ queue' = [queue EXCEPT ![c] = RemoveAt(@, i)]
        /\ UpdateState(c, queue[c][i].version)
        /\ heard' = [heard EXCEPT ![c] = conn[c]]
        /\ Continue(c, queue[c][i].purpose)
        /\ UNCHANGED <<clients, pending, call, opening, sockets, conn, events, canvas, confirm, late,
                       applied, overlap, swept, count>>

\* The head of the queue is posted and answered; the others wait.
StateStored(c) ==
    /\ queue[c] # <<>>
    /\ queue' = [queue EXCEPT ![c] = Tail(@)]
    /\ UpdateState(c, Head(queue[c]).version)
    /\ heard' = [heard EXCEPT ![c] = conn[c]]
    /\ Continue(c, Head(queue[c]).purpose)
    /\ UNCHANGED <<clients, pending, call, opening, sockets, conn, events, canvas, confirm, late,
                   applied, overlap, swept, count>>

\* A request fails or takes longer than 15 s; the server may have it all the same.
Lose(request) ==
    /\ count.lost < MaxLost /\ Room
    /\ count' = [count EXCEPT !.lost = @ + 1]
    /\ late' = late \union {request}

\* reportAgentBridgeFailure gives the stream up, and keeps the pending call.
BridgeFails(c) ==
    IF conn[c] = 0 THEN UNCHANGED <<conn, connected, events>> ELSE Closed(c)

\* A call whose state could not be stored is answered with an error first; a
\* greeting of an older stream is ignored.
StateLost(c) ==
    /\ queue[c] # <<>>
    /\ queue' = [queue EXCEPT ![c] = Tail(@)]
    /\ Lose([state |-> [client |-> c, version |-> Head(queue[c]).version]])
    /\ LET purpose == Head(queue[c]).purpose
       IN  CASE purpose.for = "call" ->
                  /\ results' = results \union {[call |-> purpose.call, why |-> "failed", from |-> c]}
                  /\ UNCHANGED <<conn, connected, events>>
             [] Outdated(c, purpose) -> UNCHANGED <<conn, connected, events, results>>
             [] OTHER -> BridgeFails(c) /\ UNCHANGED results
    /\ sync' = [sync EXCEPT ![c].error = @ \/ ~Outdated(c, Head(queue[c]).purpose)]
    /\ UNCHANGED <<server, opening, sockets, canvas, confirm, ghosts>>

\* A result arrives.  The answer to a rejection clears pendingTool, whichever call
\* it is by now; after an error while a state is known to be lost the page gives
\* the stream up.
ResultArrives(res) ==
    /\ res \in results
    /\ results' = results \ {res}
    /\ ResolveResult(res)
    /\ IF res.why \in Rejections
       THEN /\ confirm' = [confirm EXCEPT ![res.from] = None]
            /\ swept' = swept \union ({confirm[res.from]} \ {None, res.call})
       ELSE UNCHANGED <<confirm, swept>>
    /\ IF res.why = "failed" /\ sync[res.from].error THEN BridgeFails(res.from)
       ELSE UNCHANGED <<conn, connected, events>>
    /\ UNCHANGED <<clients, state, opening, sockets, canvas, sync, queue, late, applied, stored,
                   heard, overlap, count>>

\* A result is lost: that of a finished call is followed by an error for the
\* same call, any other ends the connection.
ResultLost(res) ==
    /\ res \in results
    /\ Lose([result |-> res])
    /\ IF res.why = "done"
       THEN /\ results' = (results \ {res}) \union {[res EXCEPT !.why = "failed"]}
            /\ UNCHANGED <<conn, connected, events>>
       ELSE results' = results \ {res} /\ BridgeFails(res.from)
    /\ UNCHANGED <<server, opening, sockets, page, ghosts>>

LateArrives ==
    \E p \in late :
        /\ late' = late \ {p}
        /\ IF "state" \in DOMAIN p
           THEN UpdateState(p.state.client, p.state.version) /\ UNCHANGED <<pending, call>>
           ELSE ResolveResult(p.result) /\ UNCHANGED <<state, stored>>
        /\ UNCHANGED <<clients, stream, page, results, applied, heard, overlap, swept, count>>

Next ==
    \/ \E c \in Clients :
          \/ Enable(c) \/ Disconnect(c) \/ OpenEvents(c) \/ CloseEvents(c)
          \/ Hello(c) \/ HandleToolCall(c) \/ Approve(c) \/ Reject(c)
          \/ Edit(c) \/ Render(c) \/ EditTimerFires(c)
          \/ StateStored(c) \/ StateLost(c)
    \/ \E r \in Calls : CallTool(r) \/ CallRefused(r) \/ CallTimesOut(r)
    \/ \E res \in results : ResultArrives(res) \/ ResultLost(res)
    \/ LateArrives

Spec == Init /\ [][Next]_vars

-----------------------------------------------------------------------------
\* ResultAfterState: when the agent is told that its operations are done, the
\* server has already had the canvas they produced, so that the agent's next
\* read cannot be older (canvas-local-agent-panel.tsx:340).
ResultAfterState ==
    \A r \in Calls : call[r] = "ok" => \E c \in Clients : 0 < applied[r] /\ applied[r] <= stored[c]

\* Where a call that the agent waits for may be
Underway(c, r) ==
    \/ r \in {events[c][i] : i \in DOMAIN events[c]}
    \/ confirm[c] = r
    \/ \E i \in DOMAIN queue[c] : queue[c][i].purpose.call = r
    \/ \E res \in results : res.call = r
    \/ \E p \in late : "result" \in DOMAIN p /\ p.result.call = r

\* NoCallForgotten: while nothing was lost and no stream was closed, a call that
\* the server waits for is on its way, before the user, or on its way back; none
\* is dropped without an answer (handleToolCall, rejectPendingTool), unless the
\* answer to the rejection of an earlier call, rejected twice or approved before
\* it came, has taken this one off the screen.
NoCallForgotten ==
    count.lost = 0 /\ (\A c \in Clients : conn[c] # 0 \/ sockets[c] = {})
    /\ count.streams = Cardinality({c \in Clients : conn[c] # 0})
        => \A r \in pending \ swept : \E c \in Clients : Underway(c, r)

\* ConnectedIsHeard: a page that calls itself connected has had its state stored
\* since its stream opened, and the server can reach it, unless an older stream
\* of the same clientId was closed late (docs: administration-deployment.mdx:80,
\* the connection succeeds with the first stored snapshot, not with hello).
ConnectedIsHeard ==
    \A c \in Clients : connected[c] =>
        heard[c] = conn[c] /\ (~overlap[c] => clients[c] = conn[c])

\* The head of the queue is a timer's canvas, posted behind a newer one.
Overtaken(c) == queue[c] # <<>> /\ Head(queue[c]).purpose.for = "overtaken"

\* StateMovesForward: the server never replaces a page's canvas by an older one
\* of the same page, except by a request that the page had given up, and except
\* by the canvas of a timer that a tool call had overtaken
\* (CanvasAgentStateSyncQueue, canvas-local-agent-transport.ts:17).
StateMovesForward ==
    [][state.client # None /\ state'.client = state.client /\ state'.version < state.version
          => late' # late \/ Overtaken(state.client)]_vars
=============================================================================
