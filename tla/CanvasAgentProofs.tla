--------------------------- MODULE CanvasAgentProofs ---------------------------
(***************************************************************************)
(* What CanvasAgent promises of tool calls, for any finite set of pages    *)
(* and calls and all bounds.  The argument has five parts: a call is with  *)
(* one page, in one place (PlaceInv), so that it changes one canvas once;  *)
(* the streams of a page are numbered, and a greeting belongs to one that  *)
(* the server has open (StreamInv); the queue of a page holds versions in  *)
(* their order (OrderInv); a result follows the state that backs it        *)
(* (BackedInv); and until a stream is closed or a request lost, every      *)
(* handler hands a call on to another place (CallInv).                     *)
(***************************************************************************)
EXTENDS CanvasAgent, FiniteSetTheorems, TLAPS

\* A request that the page gave up
Requests == [state : [client : Clients, version : Versions]] \union [result : Results]

Entries == [version : Versions, purpose : Purposes]

Timers == {{}} \union {{v} : v \in Versions}

\* The calls that have changed a canvas
Ran == {r \in Calls : applied[r] # 0}

TypeInv ==
    /\ clients \in [Clients -> Streams \union {0}]
    /\ state \in [client : Clients \union {None}, version : Versions]
    /\ pending \subseteq Calls
    /\ call \in [Calls -> {"new", "waiting", "ok", "error", "timeout"}]
    /\ opening \in [Clients -> SUBSET Streams] /\ sockets \in [Clients -> SUBSET Streams]
    /\ conn \in [Clients -> Streams \union {0}] /\ connected \in [Clients -> BOOLEAN]
    /\ events \in [Clients -> Seq(Calls \union {"hello"})]
    /\ canvas \in [Clients -> Versions] /\ sync \in [Clients -> Syncing]
    /\ confirm \in [Clients -> Calls \union {None}]
    /\ queue \in [Clients -> Seq(Entries)]
    /\ results \subseteq Results /\ late \subseteq Requests
    /\ applied \in [Calls -> Versions] /\ stored \in [Clients -> Versions]
    /\ heard \in [Clients -> Streams \union {0}]
    /\ overlap \in [Clients -> BOOLEAN] /\ swept \subseteq Calls
    /\ count \in [edits : 0 .. MaxEdits, streams : 0 .. MaxConnections, lost : 0 .. MaxLost]

\* The call is with a page, which has not run it.
Asked(r) == call[r] # "new" /\ applied[r] = 0

\* A call is in at most one place of one page, and only once.
PlaceInv ==
    /\ \A c \in Clients : \A i \in DOMAIN events[c] :
          events[c][i] \in Calls => Asked(events[c][i])
    /\ \A c \in Clients : confirm[c] \in Calls => Asked(confirm[c])
    /\ \A c, d \in Clients : \A i \in DOMAIN events[c], j \in DOMAIN events[d] :
          events[c][i] \in Calls /\ events[c][i] = events[d][j] => c = d /\ i = j
    /\ \A c, d \in Clients : \A i \in DOMAIN events[c] :
          events[c][i] \in Calls => confirm[d] # events[c][i]
    /\ \A c, d \in Clients : confirm[c] \in Calls /\ confirm[c] = confirm[d] => c = d
    /\ \A r \in Calls : call[r] = "new" => applied[r] = 0

\* Every version comes from a change of the user or from one call.
CanvasInv == \A c \in Clients : canvas[c] <= count.edits + Cardinality(Ran)

-----------------------------------------------------------------------------
LEMMA MaxOfTwo ==
    ASSUME NEW a \in Nat, NEW b \in Nat
    PROVE  Max({a, b}) \in {a, b} /\ a <= Max({a, b}) /\ b <= Max({a, b})
<1>1. \E x \in {a, b} : \A y \in {a, b} : x >= y
  <2>1. CASE a >= b
    BY <2>1
  <2>2. CASE ~(a >= b)
    BY <2>2
  <2> QED
    BY <2>1, <2>2
<1> QED
  BY <1>1 DEF Max

LEMMA Numbers ==
    /\ Cardinality(Calls) \in Nat /\ MaxEdits \in Nat /\ MaxConnections \in Nat /\ MaxLost \in Nat
    /\ Versions \subseteq Nat /\ 0 \in Versions /\ Streams \subseteq Nat \ {0}
<1>1. Cardinality(Calls) \in Nat
  BY ConstantsOK, FS_CardinalityType
<1> QED
  BY <1>1, ConstantsOK DEF Versions, Streams

LEMMA TailFacts ==
    ASSUME NEW S, NEW s \in Seq(S), s # <<>>
    PROVE  /\ Tail(s) \in Seq(S) /\ Head(s) = s[1] /\ Head(s) \in S /\ 1 \in DOMAIN s
           /\ \A i \in DOMAIN Tail(s) : i + 1 \in DOMAIN s /\ Tail(s)[i] = s[i + 1] /\ i \in Nat \ {0}
           /\ \A i \in DOMAIN s : i = 1 \/ (i - 1 \in DOMAIN Tail(s) /\ Tail(s)[i - 1] = s[i])
OBVIOUS

LEMMA AppendFacts ==
    ASSUME NEW S, NEW s \in Seq(S), NEW e \in S
    PROVE  /\ Append(s, e) \in Seq(S)
           /\ \A i \in DOMAIN s : i \in DOMAIN Append(s, e) /\ Append(s, e)[i] = s[i]
           /\ Len(s) + 1 \in DOMAIN Append(s, e) /\ Append(s, e)[Len(s) + 1] = e
           /\ \A i \in DOMAIN Append(s, e) :
                (i \in DOMAIN s /\ Append(s, e)[i] = s[i]) \/ (i = Len(s) + 1 /\ Append(s, e)[i] = e)
OBVIOUS

LEMMA TypeInvGivesTypeOK ==
    TypeInv => TypeOK
<1> SUFFICES ASSUME TypeInv PROVE TypeOK
  OBVIOUS
<1>1. \A c \in Clients : \A i \in DOMAIN events[c] : events[c][i] \in Calls \union {"hello"}
  BY DEF TypeInv
<1>2. \A c \in Clients : \A i \in DOMAIN queue[c] : queue[c][i] \in Entries
  BY DEF TypeInv
<1>3. \A c \in Clients : \A i \in DOMAIN queue[c] :
         queue[c][i].version \in Versions /\ queue[c][i].purpose \in Purposes
  BY <1>2 DEF Entries
<1>4. \A p \in late : p \in [state : [client : Clients, version : Versions]] \union [result : Results]
  BY DEF TypeInv, Requests
<1> QED
  BY <1>1, <1>3, <1>4 DEF TypeInv, TypeOK

LEMMA PurposeFacts ==
    /\ For("edit", None, 0) \in Purposes /\ For("overtaken", None, 0) \in Purposes
    /\ \A r \in Calls : For("call", r, 0) \in Purposes
    /\ \A n \in Streams : For("hello", None, n) \in Purposes
    /\ \A p \in Purposes :
          /\ p.for \in {"edit", "overtaken", "call", "hello"}
          /\ p.for = "call" <=> p.call \in Calls
          /\ p.for = "hello" => p.stream \in Streams
<1>1. None \notin Calls
  BY ConstantsOK
<1> QED
  BY <1>1 DEF Purposes, For

LEMMA EntryFacts ==
    ASSUME NEW v \in Versions, NEW p \in Purposes
    PROVE  /\ [version |-> v, purpose |-> p] \in Entries
           /\ [version |-> v, purpose |-> p].version = v
           /\ [version |-> v, purpose |-> p].purpose = p
BY DEF Entries

LEMMA RequestFacts ==
    /\ \A c \in Clients, v \in Versions : [state |-> [client |-> c, version |-> v]] \in Requests
    /\ \A res \in Results : [result |-> res] \in Requests
    /\ \A p \in Requests :
          \/ /\ "state" \in DOMAIN p /\ "result" \notin DOMAIN p
             /\ p.state.client \in Clients /\ p.state.version \in Versions
          \/ "result" \in DOMAIN p /\ "state" \notin DOMAIN p /\ p.result \in Results
BY DEF Requests

LEMMA ResultFacts ==
    /\ \A r \in Calls, c \in Clients, why \in {"done", "failed", "busy"} \union Rejections :
          [call |-> r, why |-> why, from |-> c] \in Results
    /\ \A res \in Results : /\ res.call \in Calls /\ res.from \in Clients
                             /\ [res EXCEPT !.why = "failed"] \in Results
                             /\ [res EXCEPT !.why = "failed"].why = "failed"
                             /\ [res EXCEPT !.why = "failed"].call = res.call
                             /\ [res EXCEPT !.why = "failed"].from = res.from
BY DEF Results

LEMMA RanIsSmall ==
    /\ IsFiniteSet(Ran) /\ Cardinality(Ran) \in Nat /\ Cardinality(Ran) <= Cardinality(Calls)
<1>1. Ran \subseteq Calls
  BY DEF Ran
<1> QED
  BY <1>1, ConstantsOK, FS_Subset, FS_CardinalityType

\* A canvas has room for one more change of the user, or of a call that has not run.
LEMMA EditFits ==
    ASSUME TypeInv, CanvasInv, NEW c \in Clients, count.edits < MaxEdits
    PROVE  canvas[c] + 1 \in Versions /\ canvas[c] + 1 <= count.edits + 1 + Cardinality(Ran)
<1>1. canvas[c] \in Nat /\ count.edits \in 0 .. MaxEdits
  BY Numbers DEF TypeInv
<1> QED
  BY <1>1, RanIsSmall, Numbers DEF CanvasInv, Versions

LEMMA CallFits ==
    ASSUME TypeInv, CanvasInv, NEW c \in Clients, NEW r \in Calls, applied[r] = 0,
           applied' = [applied EXCEPT ![r] = canvas[c] + 1]
    PROVE  /\ canvas[c] + 1 \in Versions /\ canvas[c] + 1 # 0
           /\ Cardinality(Ran') = Cardinality(Ran) + 1
           /\ applied' \in [Calls -> Versions] /\ applied'[r] = canvas[c] + 1
           /\ \A q \in Calls \ {r} : applied'[q] = applied[q]
<1>1. canvas[c] \in Nat /\ count.edits \in 0 .. MaxEdits
  BY Numbers DEF TypeInv
<1>2. canvas[c] + 1 # 0 /\ applied \in [Calls -> Versions]
  BY <1>1 DEF TypeInv
<1>3. /\ applied'[r] = canvas[c] + 1
      /\ \A q \in Calls \ {r} : applied'[q] = applied[q]
  BY <1>2
<1>4. Ran' = Ran \union {r} /\ r \notin Ran
  BY <1>2, <1>3 DEF Ran
<1>5. Cardinality(Ran') = Cardinality(Ran) + 1
  BY <1>4, RanIsSmall, FS_AddElement
<1>6. Cardinality(Ran') <= Cardinality(Calls)
  <2>1. Ran' \subseteq Calls
    BY DEF Ran
  <2> QED
    BY <2>1, ConstantsOK, FS_Subset
<1>7. canvas[c] + 1 \in Versions
  BY <1>1, <1>5, <1>6, RanIsSmall, Numbers DEF CanvasInv, Versions
<1> QED
  BY <1>2, <1>3, <1>5, <1>7

LEMMA EnqueueTypes ==
    ASSUME TypeInv, NEW c \in Clients, NEW v \in Versions, NEW p \in Purposes, Enqueue(c, v, p)
    PROVE  /\ queue' \in [Clients -> Seq(Entries)]
           /\ queue'[c] = Append(queue[c], [version |-> v, purpose |-> p])
           /\ \A d \in Clients \ {c} : queue'[d] = queue[d]
<1> DEFINE e == [version |-> v, purpose |-> p]
<1>1. e \in Entries
  BY DEF Entries
<1>2. queue \in [Clients -> Seq(Entries)] /\ queue' = [queue EXCEPT ![c] = Append(queue[c], e)]
  BY DEF TypeInv, Enqueue
<1> HIDE DEF e
<1>3. Append(queue[c], e) \in Seq(Entries)
  BY <1>1, <1>2
<1>4. queue' \in [Clients -> Seq(Entries)] /\ queue'[c] = Append(queue[c], e)
      /\ \A d \in Clients \ {c} : queue'[d] = queue[d]
  BY <1>2, <1>3
<1> QED
  BY <1>4 DEF e

LEMMA SyncTypes ==
    ASSUME TypeInv, NEW c \in Clients
    PROVE  /\ \A t \in Timers : [sync EXCEPT ![c].timer = t] \in [Clients -> Syncing]
           /\ \A e \in BOOLEAN : [sync EXCEPT ![c].error = e] \in [Clients -> Syncing]
           /\ \A t \in Timers, e \in BOOLEAN :
                [sync EXCEPT ![c] = [timer |-> t, error |-> e]] \in [Clients -> Syncing]
           /\ sync[c].timer \in Timers /\ sync[c].error \in BOOLEAN
           /\ {} \in Timers /\ \A v \in Versions : {v} \in Timers
<1>1. sync \in [Clients -> Syncing]
  BY DEF TypeInv
<1> QED
  BY <1>1 DEF Syncing, Timers

LEMMA ArmTypes ==
    ASSUME TypeInv, NEW c \in Clients, NEW v \in Versions
    PROVE  Arm(c, v) \in [Clients -> Syncing]
<1> DEFINE t == IF sync[c].timer = {} /\ connected[c] THEN {v} ELSE sync[c].timer
<1>1. t \in Timers
  BY SyncTypes
<1>2. Arm(c, v) = [sync EXCEPT ![c].timer = t]
  BY DEF Arm
<1> HIDE DEF t
<1> QED
  BY <1>1, <1>2, SyncTypes

\* One more question or change of the user
LEMMA AskTypes ==
    ASSUME TypeInv, Ask
    PROVE  /\ count' \in [edits : 0 .. MaxEdits, streams : 0 .. MaxConnections, lost : 0 .. MaxLost]
           /\ count.edits \in Nat /\ count.edits < MaxEdits /\ count'.edits = count.edits + 1
           /\ count'.lost = count.lost /\ count'.streams = count.streams
<1>1. count \in [edits : 0 .. MaxEdits, streams : 0 .. MaxConnections, lost : 0 .. MaxLost]
  BY DEF TypeInv
<1>2. count.edits \in 0 .. MaxEdits /\ count.edits < MaxEdits
  BY <1>1 DEF Ask
<1>3. count.edits + 1 \in 0 .. MaxEdits
  BY <1>2, Numbers
<1>4. count' = [count EXCEPT !.edits = count.edits + 1]
  BY DEF Ask
<1> QED
  BY <1>1, <1>2, <1>3, <1>4, Numbers

LEMMA RunToolCallTypes ==
    ASSUME TypeInv, CanvasInv, NEW c \in Clients, NEW r \in Calls, applied[r] = 0,
           RunToolCall(c, r), count' = count
    PROVE  /\ canvas' \in [Clients -> Versions] /\ applied' \in [Calls -> Versions]
           /\ sync' \in [Clients -> Syncing] /\ queue' \in [Clients -> Seq(Entries)]
           /\ results' \subseteq Results
           /\ CanvasInv'
<1>1. CASE /\ canvas' = [canvas EXCEPT ![c] = @ + 1]
           /\ applied' = [applied EXCEPT ![r] = canvas[c] + 1]
           /\ sync' = Arm(c, canvas[c] + 1)
           /\ Enqueue(c, canvas[c] + 1, For("call", r, 0))
           /\ UNCHANGED results
  <2>1. /\ canvas[c] + 1 \in Versions /\ Cardinality(Ran') = Cardinality(Ran) + 1
        /\ applied' \in [Calls -> Versions]
    BY <1>1, CallFits
  <2>2. queue' \in [Clients -> Seq(Entries)]
    BY <1>1, <2>1, PurposeFacts, EnqueueTypes
  <2>3. canvas' \in [Clients -> Versions] /\ sync' \in [Clients -> Syncing] /\ results' \subseteq Results
    BY <1>1, <2>1, ArmTypes DEF TypeInv
  <2>4. ASSUME NEW d \in Clients
        PROVE  canvas'[d] <= count.edits + Cardinality(Ran')
    <3>1. canvas[d] \in Nat /\ canvas[d] <= count.edits + Cardinality(Ran)
          /\ count.edits \in 0 .. MaxEdits /\ (canvas'[d] = canvas[d] \/ canvas'[d] = canvas[d] + 1)
      BY <1>1, Numbers DEF TypeInv, CanvasInv
    <3> QED
      BY <2>1, <3>1, RanIsSmall, Numbers
  <2> QED
    BY <2>1, <2>2, <2>3, <2>4 DEF CanvasInv
<1>2. CASE /\ results' = results \union {[call |-> r, why |-> "failed", from |-> c]}
           /\ UNCHANGED <<canvas, applied, sync, queue>>
  <2>1. [call |-> r, why |-> "failed", from |-> c] \in Results
    BY DEF Results
  <2>2. CanvasInv'
    BY <1>2 DEF CanvasInv, Ran
  <2> QED
    BY <1>2, <2>1, <2>2 DEF TypeInv
<1> QED
  BY <1>1, <1>2 DEF RunToolCall

\* The stream of a page that is closed leaves nothing behind
LEMMA BridgeFailsTypes ==
    ASSUME TypeInv, NEW c \in Clients,
           BridgeFails(c) \/ Closed(c) \/ UNCHANGED <<conn, connected, events>>
    PROVE  /\ conn' \in [Clients -> Streams \union {0}] /\ connected' \in [Clients -> BOOLEAN]
           /\ events' \in [Clients -> Seq(Calls \union {"hello"})]
<1>1. <<>> \in Seq(Calls \union {"hello"})
  OBVIOUS
<1>2. CASE UNCHANGED <<conn, connected, events>>
  BY <1>2 DEF TypeInv
<1>3. CASE Closed(c)
  <2>1. conn' \in [Clients -> Streams \union {0}] /\ connected' \in [Clients -> BOOLEAN]
    BY <1>3 DEF TypeInv, Closed
  <2>2. events' \in [Clients -> Seq(Calls \union {"hello"})]
    BY <1>1, <1>3 DEF TypeInv, Closed
  <2> QED
    BY <2>1, <2>2
<1> QED
  BY <1>2, <1>3 DEF BridgeFails

LEMMA LoseTypes ==
    ASSUME TypeInv, NEW p \in Requests, Lose(p)
    PROVE  /\ late' \subseteq Requests
           /\ count' \in [edits : 0 .. MaxEdits, streams : 0 .. MaxConnections, lost : 0 .. MaxLost]
           /\ count'.lost = count.lost + 1 /\ count'.edits = count.edits
           /\ count'.streams = count.streams
<1>1. count \in [edits : 0 .. MaxEdits, streams : 0 .. MaxConnections, lost : 0 .. MaxLost]
  BY DEF TypeInv
<1>2. count.lost \in 0 .. MaxLost /\ count.lost < MaxLost
  BY <1>1 DEF Lose
<1>3. count.lost + 1 \in 0 .. MaxLost
  BY <1>2, Numbers
<1>4. count' = [count EXCEPT !.lost = count.lost + 1]
  BY DEF Lose
<1> QED
  BY <1>1, <1>3, <1>4 DEF TypeInv, Lose

-----------------------------------------------------------------------------
LEMMA InitTypes ==
    Init => TypeInv
<1>1. <<>> \in Seq(Calls \union {"hello"}) /\ <<>> \in Seq(Entries)
  OBVIOUS
<1> SUFFICES ASSUME Init PROVE TypeInv
  OBVIOUS
<1>2. events \in [Clients -> Seq(Calls \union {"hello"})] /\ queue \in [Clients -> Seq(Entries)]
  BY <1>1 DEF Init
<1>3. count \in [edits : 0 .. MaxEdits, streams : 0 .. MaxConnections, lost : 0 .. MaxLost]
  BY Numbers DEF Init
<1>4. state \in [client : Clients \union {None}, version : Versions]
  BY Numbers DEF Init, NoState
<1>5. sync \in [Clients -> Syncing]
  BY DEF Init, NotSyncing, Syncing
<1> QED
  BY <1>2, <1>3, <1>4, <1>5, Numbers DEF Init, TypeInv

LEMMA EnableTypes ==
    ASSUME TypeInv, NEW c \in Clients, Enable(c)
    PROVE  TypeInv'
<1>1. count.streams \in 0 .. MaxConnections /\ count.streams < MaxConnections
  BY DEF TypeInv, Enable
<1>2. count.streams + 1 \in Streams /\ count.streams + 1 \in 0 .. MaxConnections
  BY <1>1, Numbers DEF Streams
<1> QED
  BY <1>2 DEF TypeInv, Enable, server, page, ghosts

LEMMA DisconnectTypes ==
    ASSUME TypeInv, NEW c \in Clients, Disconnect(c)
    PROVE  TypeInv'
BY BridgeFailsTypes DEF TypeInv, Disconnect, server, ghosts

LEMMA OpenEventsTypes ==
    ASSUME TypeInv, NEW c \in Clients, OpenEvents(c)
    PROVE  TypeInv'
<1>1. PICK n \in opening[c] :
        /\ opening' = [opening EXCEPT ![c] = @ \ {n}]
        /\ sockets' = [sockets EXCEPT ![c] = @ \union {n}]
        /\ clients' = [clients EXCEPT ![c] = n]
        /\ events' = IF conn[c] = n THEN [events EXCEPT ![c] = Append(@, "hello")] ELSE events
        /\ overlap' = [overlap EXCEPT ![c] = @ \/ sockets[c] # {}]
        /\ UNCHANGED <<state, pending, call, conn, connected, page, results, late,
                       applied, stored, heard, swept, count>>
  BY DEF OpenEvents
<1>2. events[c] \in Seq(Calls \union {"hello"}) /\ n \in Streams
  BY DEF TypeInv
<1>3. Append(events[c], "hello") \in Seq(Calls \union {"hello"})
  BY <1>2, AppendFacts
<1>4. events' \in [Clients -> Seq(Calls \union {"hello"})]
  BY <1>1, <1>3 DEF TypeInv
<1>5. opening' \in [Clients -> SUBSET Streams] /\ sockets' \in [Clients -> SUBSET Streams]
  BY <1>1, <1>2 DEF TypeInv
<1>6. clients' \in [Clients -> Streams \union {0}] /\ overlap' \in [Clients -> BOOLEAN]
  BY <1>1, <1>2 DEF TypeInv
<1> QED
  BY <1>1, <1>4, <1>5, <1>6 DEF TypeInv, page

LEMMA CloseEventsTypes ==
    ASSUME TypeInv, NEW c \in Clients, CloseEvents(c)
    PROVE  TypeInv'
BY Numbers DEF TypeInv, CloseEvents, NoState, page, ghosts

LEMMA CallToolTypes ==
    ASSUME TypeInv, NEW r \in Calls, CallTool(r)
    PROVE  TypeInv'
<1>1. PICK c \in Clients :
        events' = IF clients[c] = conn[c] THEN [events EXCEPT ![c] = Append(@, r)] ELSE events
  BY DEF CallTool
<1>2. events[c] \in Seq(Calls \union {"hello"})
  BY DEF TypeInv
<1>3. Append(events[c], r) \in Seq(Calls \union {"hello"})
  BY <1>2, AppendFacts
<1>4. events' \in [Clients -> Seq(Calls \union {"hello"})]
  BY <1>1, <1>3 DEF TypeInv
<1> QED
  BY <1>4 DEF TypeInv, CallTool, page, ghosts

LEMMA CallEndTypes ==
    ASSUME TypeInv, NEW r \in Calls, CallRefused(r) \/ CallTimesOut(r)
    PROVE  TypeInv'
BY DEF TypeInv, CallRefused, CallTimesOut, stream, page, ghosts

LEMMA HelloTypes ==
    ASSUME TypeInv, NEW c \in Clients, conn[c] # 0, Hello(c)
    PROVE  TypeInv'
<1>1. canvas[c] \in Versions /\ For("hello", None, conn[c]) \in Purposes
  BY PurposeFacts DEF TypeInv
<1>2. queue' \in [Clients -> Seq(Entries)]
  BY <1>1, EnqueueTypes DEF Hello
<1>3. Tail(events[c]) \in Seq(Calls \union {"hello"})
  BY DEF TypeInv, Hello
<1> QED
  BY <1>2, <1>3 DEF TypeInv, Hello, server, ghosts

LEMMA HandleToolCallTypes ==
    ASSUME TypeInv, CanvasInv, PlaceInv, NEW c \in Clients, HandleToolCall(c)
    PROVE  TypeInv' /\ CanvasInv'
<1> DEFINE r == Head(events[c])
<1>1. events[c] \in Seq(Calls \union {"hello"}) /\ events[c] # <<>>
  BY DEF TypeInv, HandleToolCall
<1>2. r \in Calls /\ 1 \in DOMAIN events[c] /\ events[c][1] = r
  BY <1>1, TailFacts DEF HandleToolCall
<1>3. applied[r] = 0
  BY <1>2 DEF PlaceInv, Asked
<1>4. events' \in [Clients -> Seq(Calls \union {"hello"})]
  <2>1. Tail(events[c]) \in Seq(Calls \union {"hello"})
    BY <1>1
  <2> QED
    BY <2>1 DEF TypeInv, HandleToolCall
<1> HIDE DEF r
<1>5. UNCHANGED <<server, opening, sockets, conn, connected, late, stored, heard, overlap, swept, count>>
  BY DEF HandleToolCall
<1>6. CASE /\ confirm[c] = None /\ confirm' = [confirm EXCEPT ![c] = r]
           /\ UNCHANGED <<canvas, sync, queue, results, applied>>
  <2>1. CanvasInv'
    BY <1>5, <1>6 DEF CanvasInv, Ran
  <2> QED
    BY <1>2, <1>4, <1>5, <1>6, <2>1 DEF TypeInv, server
<1>7. CASE /\ results' = results \union {[call |-> r, why |-> "busy", from |-> c]}
           /\ UNCHANGED <<canvas, sync, queue, confirm, applied>>
  <2>1. CanvasInv'
    BY <1>5, <1>7 DEF CanvasInv, Ran
  <2>2. [call |-> r, why |-> "busy", from |-> c] \in Results
    BY <1>2 DEF Results
  <2> QED
    BY <1>4, <1>5, <1>7, <2>1, <2>2 DEF TypeInv, server
<1>8. CASE RunToolCall(c, r) /\ UNCHANGED confirm
  <2>1. /\ canvas' \in [Clients -> Versions] /\ applied' \in [Calls -> Versions]
        /\ sync' \in [Clients -> Syncing] /\ queue' \in [Clients -> Seq(Entries)]
        /\ results' \subseteq Results /\ CanvasInv'
    BY <1>2, <1>3, <1>5, <1>8, RunToolCallTypes
  <2> QED
    BY <1>4, <1>5, <1>8, <2>1 DEF TypeInv, server
<1> QED
  BY <1>6, <1>7, <1>8 DEF HandleToolCall, r

LEMMA ApproveTypes ==
    ASSUME TypeInv, CanvasInv, PlaceInv, NEW c \in Clients, Approve(c)
    PROVE  TypeInv' /\ CanvasInv'
<1>1. confirm[c] \in Calls /\ applied[confirm[c]] = 0 /\ count' = count
  BY DEF TypeInv, Approve, PlaceInv, Asked
<1>2. /\ canvas' \in [Clients -> Versions] /\ applied' \in [Calls -> Versions]
      /\ sync' \in [Clients -> Syncing] /\ queue' \in [Clients -> Seq(Entries)]
      /\ results' \subseteq Results /\ CanvasInv'
  BY <1>1, RunToolCallTypes DEF Approve
<1> QED
  BY <1>2 DEF TypeInv, Approve, server, stream

LEMMA RejectTypes ==
    ASSUME TypeInv, CanvasInv, NEW c \in Clients, Reject(c)
    PROVE  TypeInv' /\ CanvasInv'
<1>1. confirm[c] \in Calls
  BY DEF TypeInv, Reject
<1>2. \A why \in Rejections : [call |-> confirm[c], why |-> why, from |-> c] \in Results
  BY <1>1 DEF Results
<1>3. results' \subseteq Results
  BY <1>2 DEF Reject, Rejections, TypeInv
<1>4. count' \in [edits : 0 .. MaxEdits, streams : 0 .. MaxConnections, lost : 0 .. MaxLost]
      /\ (count' = count \/ count'.edits = count.edits + 1)
  BY AskTypes DEF Reject, TypeInv
<1>5. TypeInv'
  BY <1>3, <1>4 DEF TypeInv, Reject, server, stream, page, ghosts
<1>6. UNCHANGED <<canvas, applied>>
  BY DEF Reject, page, ghosts
<1>7. ASSUME NEW d \in Clients
      PROVE  canvas'[d] <= count'.edits + Cardinality(Ran')
  <2>1. Ran' = Ran /\ canvas'[d] = canvas[d] /\ count.edits \in Nat
    BY <1>6, Numbers DEF Ran, TypeInv
  <2>2. canvas[d] \in Nat /\ canvas[d] <= count.edits + Cardinality(Ran)
    BY Numbers DEF TypeInv, CanvasInv
  <2> QED
    BY <1>4, <2>1, <2>2, RanIsSmall
<1> QED
  BY <1>5, <1>7 DEF CanvasInv

LEMMA EditTypes ==
    ASSUME TypeInv, CanvasInv, NEW c \in Clients, Edit(c)
    PROVE  TypeInv' /\ CanvasInv'
<1>1. /\ count' \in [edits : 0 .. MaxEdits, streams : 0 .. MaxConnections, lost : 0 .. MaxLost]
      /\ count.edits \in Nat /\ count.edits < MaxEdits /\ count'.edits = count.edits + 1
  BY AskTypes DEF Edit
<1>2. canvas[c] + 1 \in Versions /\ canvas[c] + 1 <= count.edits + 1 + Cardinality(Ran)
  BY <1>1, EditFits
<1>3. sync' \in [Clients -> Syncing]
  <2> DEFINE t == IF connected[c] THEN {canvas[c] + 1} ELSE {}
  <2>1. t \in Timers
    BY <1>2, SyncTypes
  <2>2. sync' = [sync EXCEPT ![c].timer = t]
    BY DEF Edit
  <2> HIDE DEF t
  <2> QED
    BY <2>1, <2>2, SyncTypes
<1>4. TypeInv'
  BY <1>1, <1>2, <1>3 DEF TypeInv, Edit, server, stream, ghosts
<1>5. ASSUME NEW d \in Clients
      PROVE  canvas'[d] <= count'.edits + Cardinality(Ran')
  <2>1. Ran' = Ran /\ canvas'[d] = IF d = c THEN canvas[c] + 1 ELSE canvas[d]
    BY DEF Edit, Ran, ghosts, TypeInv
  <2>2. canvas[d] \in Nat /\ canvas[d] <= count.edits + Cardinality(Ran)
    BY Numbers DEF TypeInv, CanvasInv
  <2> QED
    BY <1>1, <1>2, <2>1, <2>2, RanIsSmall, Numbers
<1> QED
  BY <1>4, <1>5 DEF CanvasInv

LEMMA RenderTypes ==
    ASSUME TypeInv, NEW c \in Clients, Render(c)
    PROVE  TypeInv'
<1>1. canvas[c] \in Versions
  BY DEF TypeInv
<1>2. sync' \in [Clients -> Syncing]
  BY <1>1, SyncTypes DEF Render
<1> QED
  BY <1>2 DEF TypeInv, Render, server, stream, ghosts

\* What the timer posts
TimerPurpose(c, v) == For(IF v = canvas[c] THEN "edit" ELSE "overtaken", None, 0)

LEMMA TimerPosts ==
    ASSUME TypeInv, NEW c \in Clients, EditTimerFires(c)
    PROVE  \E v \in Versions :
              /\ v \in sync[c].timer
              /\ Enqueue(c, v, TimerPurpose(c, v)) /\ TimerPurpose(c, v) \in Purposes
              /\ TimerPurpose(c, v).for \in {"edit", "overtaken"}
              /\ TimerPurpose(c, v).for = "edit" => v = canvas[c]
              /\ TimerPurpose(c, v).call = None
              /\ sync' \in [Clients -> Syncing]
<1>1. PICK v \in sync[c].timer :
        /\ Enqueue(c, v, For(IF v = canvas[c] THEN "edit" ELSE "overtaken", None, 0))
        /\ sync' = [sync EXCEPT ![c].timer = {canvas[c]} \ {v}]
  BY DEF EditTimerFires
<1>2. sync[c].timer \in Timers /\ canvas[c] \in Versions
  BY SyncTypes DEF TypeInv
<1>3. v \in Versions
  BY <1>2 DEF Timers
<1>4. TimerPurpose(c, v) \in Purposes
  BY PurposeFacts DEF TimerPurpose
<1>5. {canvas[c]} \ {v} \in Timers
  <2>1. {canvas[c]} \ {v} = {} \/ {canvas[c]} \ {v} = {canvas[c]}
    OBVIOUS
  <2> QED
    BY <1>2, <2>1, SyncTypes
<1>6. sync' \in [Clients -> Syncing]
  BY <1>1, <1>5, SyncTypes
<1>7. /\ TimerPurpose(c, v).for \in {"edit", "overtaken"} /\ TimerPurpose(c, v).call = None
      /\ TimerPurpose(c, v).for = "edit" => v = canvas[c]
  BY DEF TimerPurpose, For
<1>8. Enqueue(c, v, TimerPurpose(c, v))
  BY <1>1 DEF TimerPurpose
<1> QED
  BY <1>3, <1>4, <1>6, <1>7, <1>8

LEMMA EditTimerTypes ==
    ASSUME TypeInv, NEW c \in Clients, EditTimerFires(c)
    PROVE  TypeInv'
<1>1. queue' \in [Clients -> Seq(Entries)] /\ sync' \in [Clients -> Syncing]
  BY TimerPosts, EnqueueTypes
<1> QED
  BY <1>1 DEF TypeInv, EditTimerFires, server, stream, ghosts

\* The head of the queue and what it asks for
LEMMA HeadOfQueue ==
    ASSUME TypeInv, NEW c \in Clients, queue[c] # <<>>
    PROVE  /\ queue[c] \in Seq(Entries) /\ 1 \in DOMAIN queue[c] /\ Head(queue[c]) = queue[c][1]
           /\ Head(queue[c]).version \in Versions /\ Head(queue[c]).purpose \in Purposes
           /\ [queue EXCEPT ![c] = Tail(@)] \in [Clients -> Seq(Entries)]
<1>1. queue[c] \in Seq(Entries) /\ queue \in [Clients -> Seq(Entries)]
  BY DEF TypeInv
<1>2. /\ Tail(queue[c]) \in Seq(Entries) /\ Head(queue[c]) \in Entries
      /\ 1 \in DOMAIN queue[c] /\ Head(queue[c]) = queue[c][1]
  BY <1>1, TailFacts
<1>3. Head(queue[c]).version \in Versions /\ Head(queue[c]).purpose \in Purposes
  BY <1>2 DEF Entries
<1> QED
  BY <1>1, <1>2, <1>3

LEMMA UpdateStateTypes ==
    ASSUME TypeInv, NEW c \in Clients, NEW v \in Versions, UpdateState(c, v)
    PROVE  /\ state' \in [client : Clients \union {None}, version : Versions]
           /\ stored' \in [Clients -> Versions] /\ v <= stored'[c]
           /\ \A d \in Clients : stored[d] <= stored'[d]
<1>1. v \in Nat /\ stored[c] \in Nat /\ stored[c] \in Versions /\ \A d \in Clients : stored[d] \in Nat
  BY Numbers DEF TypeInv
<1>2. /\ Max({stored[c], v}) \in {stored[c], v}
      /\ stored[c] <= Max({stored[c], v}) /\ v <= Max({stored[c], v})
  BY <1>1, MaxOfTwo
<1>3. stored' = [stored EXCEPT ![c] = Max({stored[c], v})] /\ state' = [client |-> c, version |-> v]
  BY DEF UpdateState
<1> DEFINE m == Max({stored[c], v})
<1>4. stored' = [stored EXCEPT ![c] = m] /\ m \in Versions /\ stored[c] <= m /\ v <= m
  BY <1>1, <1>2, <1>3
<1> HIDE DEF m
<1>5. stored' \in [Clients -> Versions] /\ v <= stored'[c] /\ \A d \in Clients : stored[d] <= stored'[d]
  BY <1>1, <1>4 DEF TypeInv
<1> QED
  BY <1>3, <1>5

LEMMA StateStoredTypes ==
    ASSUME TypeInv, NEW c \in Clients, StateStored(c)
    PROVE  TypeInv'
<1> DEFINE p == Head(queue[c]).purpose
<1>1. queue[c] # <<>>
  BY DEF StateStored
<1>2. /\ Head(queue[c]).version \in Versions /\ p \in Purposes
      /\ queue' \in [Clients -> Seq(Entries)]
  BY <1>1, HeadOfQueue DEF StateStored
<1>3. /\ state' \in [client : Clients \union {None}, version : Versions]
      /\ stored' \in [Clients -> Versions]
  BY <1>2, UpdateStateTypes DEF StateStored
<1>4. p.for = "call" => [call |-> p.call, why |-> "done", from |-> c] \in Results
  BY <1>2, PurposeFacts, ResultFacts
<1>5. Continue(c, p)
  BY DEF StateStored
<1> HIDE DEF p
<1>6. /\ connected' \in [Clients -> BOOLEAN] /\ sync' \in [Clients -> Syncing]
      /\ results' \subseteq Results
  <2>1. connected' \in [Clients -> BOOLEAN] /\ results' \subseteq Results
    BY <1>4, <1>5 DEF Continue, TypeInv
  <2> DEFINE t == IF connected' = connected THEN sync[c].timer ELSE {canvas[c]}
             e == sync[c].error /\ Outdated(c, p)
  <2>2. t \in Timers /\ e \in BOOLEAN
    BY SyncTypes DEF TypeInv
  <2>3. sync' = [sync EXCEPT ![c] = [timer |-> t, error |-> e]]
    BY <1>5 DEF Continue
  <2> HIDE DEF t, e
  <2> QED
    BY <2>1, <2>2, <2>3, SyncTypes
<1>7. heard' \in [Clients -> Streams \union {0}]
  BY DEF StateStored, TypeInv
<1> QED
  BY <1>2, <1>3, <1>6, <1>7 DEF TypeInv, StateStored

LEMMA StateLostTypes ==
    ASSUME TypeInv, NEW c \in Clients, StateLost(c)
    PROVE  TypeInv'
<1> DEFINE p == Head(queue[c]).purpose
<1>1. queue[c] # <<>>
  BY DEF StateLost
<1>2. /\ Head(queue[c]).version \in Versions /\ p \in Purposes
      /\ queue' \in [Clients -> Seq(Entries)]
  BY <1>1, HeadOfQueue DEF StateLost
<1>3. /\ late' \subseteq Requests
      /\ count' \in [edits : 0 .. MaxEdits, streams : 0 .. MaxConnections, lost : 0 .. MaxLost]
  BY <1>2, RequestFacts, LoseTypes DEF StateLost
<1>4. p.for = "call" => [call |-> p.call, why |-> "failed", from |-> c] \in Results
  BY <1>2, PurposeFacts, ResultFacts
<1>7. sync' \in [Clients -> Syncing]
  <2> DEFINE e == sync[c].error \/ ~Outdated(c, p)
  <2>1. e \in BOOLEAN
    OBVIOUS
  <2>2. sync' = [sync EXCEPT ![c].error = e]
    BY DEF StateLost
  <2> HIDE DEF e
  <2> QED
    BY <2>1, <2>2, SyncTypes
<1>5. CASE p.for = "call"
  <2>1. results' = results \union {[call |-> p.call, why |-> "failed", from |-> c]}
        /\ UNCHANGED <<conn, connected, events>>
    BY <1>5 DEF StateLost, Outdated
  <2> QED
    BY <1>2, <1>3, <1>4, <1>5, <1>7, <2>1 DEF TypeInv, StateLost, server, ghosts
<1>6. CASE p.for # "call"
  <2>1. UNCHANGED results /\ (BridgeFails(c) \/ UNCHANGED <<conn, connected, events>>)
    BY <1>6 DEF StateLost
  <2>2. /\ conn' \in [Clients -> Streams \union {0}] /\ connected' \in [Clients -> BOOLEAN]
        /\ events' \in [Clients -> Seq(Calls \union {"hello"})]
    BY <2>1, BridgeFailsTypes
  <2> QED
    BY <1>2, <1>3, <1>7, <2>1, <2>2 DEF TypeInv, StateLost, server, ghosts
<1> QED
  BY <1>5, <1>6

LEMMA ResultArrivesTypes ==
    ASSUME TypeInv, NEW res \in results, ResultArrives(res)
    PROVE  TypeInv'
<1>1. res \in Results /\ res.call \in Calls /\ res.from \in Clients
  BY ResultFacts DEF TypeInv
<1>2. /\ conn' \in [Clients -> Streams \union {0}] /\ connected' \in [Clients -> BOOLEAN]
      /\ events' \in [Clients -> Seq(Calls \union {"hello"})]
  <2>1. BridgeFails(res.from) \/ UNCHANGED <<conn, connected, events>>
    BY DEF ResultArrives
  <2> QED
    BY <1>1, <2>1, BridgeFailsTypes
<1>3. pending' \subseteq Calls /\ call' \in [Calls -> {"new", "waiting", "ok", "error", "timeout"}]
  BY <1>1 DEF ResultArrives, ResolveResult, TypeInv
<1>4. /\ confirm' \in [Clients -> Calls \union {None}] /\ results' \subseteq Results
      /\ swept' \subseteq Calls
  <2>1. CASE res.why \in Rejections
    <3>1. confirm' = [confirm EXCEPT ![res.from] = None]
          /\ swept' = swept \union ({confirm[res.from]} \ {None, res.call})
      BY <2>1 DEF ResultArrives
    <3> QED
      BY <1>1, <3>1 DEF ResultArrives, TypeInv
  <2>2. CASE res.why \notin Rejections
    BY <2>2 DEF ResultArrives, TypeInv
  <2> QED
    BY <2>1, <2>2
<1> QED
  BY <1>2, <1>3, <1>4 DEF TypeInv, ResultArrives

LEMMA ResultLostTypes ==
    ASSUME TypeInv, NEW res \in results, ResultLost(res)
    PROVE  TypeInv'
<1>1. res \in Results /\ res.from \in Clients /\ [res EXCEPT !.why = "failed"] \in Results
  BY ResultFacts DEF TypeInv
<1>2. /\ conn' \in [Clients -> Streams \union {0}] /\ connected' \in [Clients -> BOOLEAN]
      /\ events' \in [Clients -> Seq(Calls \union {"hello"})]
  <2>1. BridgeFails(res.from) \/ UNCHANGED <<conn, connected, events>>
    BY DEF ResultLost
  <2> QED
    BY <1>1, <2>1, BridgeFailsTypes
<1>3. /\ late' \subseteq Requests
      /\ count' \in [edits : 0 .. MaxEdits, streams : 0 .. MaxConnections, lost : 0 .. MaxLost]
  BY <1>1, RequestFacts, LoseTypes DEF ResultLost
<1>4. results' \subseteq Results
  BY <1>1 DEF ResultLost, TypeInv
<1> QED
  BY <1>2, <1>3, <1>4 DEF TypeInv, ResultLost, server, page, ghosts

LEMMA LateArrivesTypes ==
    ASSUME TypeInv, LateArrives
    PROVE  TypeInv'
<1>1. PICK p \in late :
        /\ late' = late \ {p}
        /\ IF "state" \in DOMAIN p
           THEN UpdateState(p.state.client, p.state.version) /\ UNCHANGED <<pending, call>>
           ELSE ResolveResult(p.result) /\ UNCHANGED <<state, stored>>
        /\ UNCHANGED <<clients, stream, page, results, applied, heard, overlap, swept, count>>
  BY DEF LateArrives
<1>2. p \in Requests /\ late' \subseteq Requests
  BY <1>1 DEF TypeInv
<1>3. CASE "state" \in DOMAIN p
  <2>1. p.state.client \in Clients /\ p.state.version \in Versions
    BY <1>2, <1>3, RequestFacts
  <2>2. /\ state' \in [client : Clients \union {None}, version : Versions]
        /\ stored' \in [Clients -> Versions]
    BY <1>1, <1>3, <2>1, UpdateStateTypes
  <2> QED
    BY <1>1, <1>2, <1>3, <2>2 DEF TypeInv, stream, page
<1>4. CASE "state" \notin DOMAIN p
  <2>1. p.result.call \in Calls
    BY <1>2, <1>4, RequestFacts, ResultFacts
  <2>2. pending' \subseteq Calls /\ call' \in [Calls -> {"new", "waiting", "ok", "error", "timeout"}]
    BY <1>1, <1>4, <2>1 DEF ResolveResult, TypeInv
  <2> QED
    BY <1>1, <1>2, <1>4, <2>2 DEF TypeInv, stream, page
<1> QED
  BY <1>3, <1>4

-----------------------------------------------------------------------------
(* A call is with one page, once.                                          *)

\* Where each event was before: k counts the events that were taken off.
LEMMA PlaceKept ==
    ASSUME TypeInv, TypeInv', PlaceInv, NEW k \in [Clients -> Nat],
           \A d \in Clients : \A j \in DOMAIN events'[d] : events'[d][j] \in Calls =>
              /\ j + k[d] \in DOMAIN events[d] /\ events[d][j + k[d]] = events'[d][j]
              /\ applied'[events'[d][j]] = applied[events'[d][j]],
           \A d \in Clients : confirm'[d] \in Calls =>
              confirm'[d] = confirm[d] /\ applied'[confirm'[d]] = applied[confirm'[d]],
           \A r \in Calls : call[r] # "new" => call'[r] # "new",
           \A r \in Calls : call[r] = "new" => applied'[r] = applied[r]
    PROVE  PlaceInv'
<1>1. ASSUME NEW c \in Clients, NEW i \in DOMAIN events'[c], events'[c][i] \in Calls
      PROVE  Asked(events[c][i + k[c]]) /\ call'[events'[c][i]] # "new" /\ applied'[events'[c][i]] = 0
  BY <1>1 DEF PlaceInv, Asked
<1>2. ASSUME NEW c \in Clients, confirm'[c] \in Calls
      PROVE  call'[confirm'[c]] # "new" /\ applied'[confirm'[c]] = 0
  BY <1>2 DEF PlaceInv, Asked
<1>3. ASSUME NEW c \in Clients, NEW d \in Clients,
             NEW i \in DOMAIN events'[c], NEW j \in DOMAIN events'[d],
             events'[c][i] \in Calls, events'[c][i] = events'[d][j]
      PROVE  c = d /\ i = j
  <2>1. i \in Nat /\ j \in Nat /\ k[c] \in Nat /\ k[d] \in Nat
    <3>1. events'[c] \in Seq(Calls \union {"hello"}) /\ events'[d] \in Seq(Calls \union {"hello"})
      BY DEF TypeInv
    <3> QED
      BY <3>1
  <2>2. /\ i + k[c] \in DOMAIN events[c] /\ events[c][i + k[c]] = events'[c][i]
        /\ j + k[d] \in DOMAIN events[d] /\ events[d][j + k[d]] = events'[d][j]
    BY <1>3
  <2>3. c = d /\ i + k[c] = j + k[d]
    BY <1>3, <2>2 DEF PlaceInv
  <2> QED
    BY <2>1, <2>3
<1>4. ASSUME NEW c \in Clients, NEW d \in Clients, NEW i \in DOMAIN events'[c], events'[c][i] \in Calls
      PROVE  confirm'[d] # events'[c][i]
  BY <1>4 DEF PlaceInv
<1>5. ASSUME NEW c \in Clients, NEW d \in Clients, confirm'[c] \in Calls, confirm'[c] = confirm'[d]
      PROVE  c = d
  BY <1>5 DEF PlaceInv
<1>6. \A r \in Calls : call'[r] = "new" => applied'[r] = 0
  BY DEF PlaceInv
<1> QED
  BY <1>1, <1>2, <1>3, <1>4, <1>5, <1>6 DEF PlaceInv, Asked

LEMMA PlaceStill ==
    ASSUME TypeInv, TypeInv', PlaceInv, UNCHANGED applied,
           \A d \in Clients : events'[d] = events[d] \/ events'[d] = <<>>,
           \A d \in Clients : confirm'[d] = confirm[d] \/ confirm'[d] = None,
           \A r \in Calls : call[r] # "new" => call'[r] # "new"
    PROVE  PlaceInv'
<1> DEFINE k == [d \in Clients |-> 0]
<1>1. k \in [Clients -> Nat] /\ None \notin Calls
  BY ConstantsOK
<1>2. ASSUME NEW d \in Clients, NEW j \in DOMAIN events'[d]
      PROVE  j + k[d] \in DOMAIN events[d] /\ events[d][j + k[d]] = events'[d][j]
  <2>1. events'[d] = events[d]
    BY <1>2
  <2>2. events'[d] \in Seq(Calls \union {"hello"})
    BY DEF TypeInv
  <2>3. j \in Nat
    BY <2>2
  <2> QED
    BY <2>1, <2>3
<1> HIDE DEF k
<1> QED
  BY <1>1, <1>2, PlaceKept

\* The head of the stream is taken off.
LEMMA PlaceTaken ==
    ASSUME TypeInv, TypeInv', PlaceInv, NEW c \in Clients, events[c] # <<>>,
           events' = [events EXCEPT ![c] = Tail(@)], UNCHANGED <<confirm, call>>,
           \A q \in Calls : q # Head(events[c]) => applied'[q] = applied[q]
    PROVE  PlaceInv'
<1> DEFINE k == [d \in Clients |-> IF d = c THEN 1 ELSE 0]
<1>1. k \in [Clients -> Nat] /\ k[c] = 1 /\ \A d \in Clients \ {c} : k[d] = 0
  OBVIOUS
<1> HIDE DEF k
<1>2. events[c] \in Seq(Calls \union {"hello"}) /\ events \in [Clients -> Seq(Calls \union {"hello"})]
  BY DEF TypeInv
<1>3. Head(events[c]) = events[c][1] /\ 1 \in DOMAIN events[c]
  BY <1>2, TailFacts
<1>4. ASSUME NEW d \in Clients, NEW j \in DOMAIN events'[d], events'[d][j] \in Calls
      PROVE  /\ j + k[d] \in DOMAIN events[d] /\ events[d][j + k[d]] = events'[d][j]
             /\ applied'[events'[d][j]] = applied[events'[d][j]]
  <2>1. j + k[d] \in DOMAIN events[d] /\ events[d][j + k[d]] = events'[d][j] /\ (d = c => j + k[d] # 1)
    <3>1. CASE d = c
      <4>1. events'[d] = Tail(events[c]) /\ k[d] = 1
        BY <1>1, <1>2, <3>1
      <4>2. j \in DOMAIN Tail(events[c])
        BY <4>1
      <4>3. j + 1 \in DOMAIN events[c] /\ Tail(events[c])[j] = events[c][j + 1] /\ j \in Nat \ {0}
        BY <1>2, <4>2, TailFacts
      <4>4. j + k[d] = j + 1 /\ j + 1 # 1
        BY <4>1, <4>3
      <4> QED
        BY <3>1, <4>1, <4>3, <4>4
    <3>2. CASE d # c
      <4>1. events'[d] = events[d] /\ k[d] = 0 /\ events[d] \in Seq(Calls \union {"hello"})
        BY <1>1, <1>2, <3>2
      <4>2. j \in Nat
        BY <4>1
      <4> QED
        BY <3>2, <4>1, <4>2
    <3> QED
      BY <3>1, <3>2
  <2>2. events'[d][j] # Head(events[c])
    BY <1>3, <1>4, <2>1 DEF PlaceInv
  <2> QED
    BY <1>4, <2>1, <2>2
<1>5. ASSUME NEW d \in Clients, confirm'[d] \in Calls
      PROVE  confirm'[d] = confirm[d] /\ applied'[confirm'[d]] = applied[confirm'[d]]
  <2>1. confirm[d] # Head(events[c])
    BY <1>3, <1>5 DEF PlaceInv
  <2> QED
    BY <1>5, <2>1
<1>6. ASSUME NEW q \in Calls, call[q] = "new"
      PROVE  applied'[q] = applied[q]
  <2>1. q # Head(events[c])
    BY <1>3, <1>6 DEF PlaceInv, Asked
  <2> QED
    BY <2>1
<1> QED
  BY <1>1, <1>4, <1>5, <1>6, PlaceKept

LEMMA OpenEventsPlace ==
    ASSUME TypeInv, TypeInv', PlaceInv, NEW c \in Clients, OpenEvents(c)
    PROVE  PlaceInv'
<1> DEFINE k == [d \in Clients |-> 0]
<1>1. k \in [Clients -> Nat] /\ \A d \in Clients : k[d] = 0
  OBVIOUS
<1> HIDE DEF k
<1>2. UNCHANGED <<call, confirm, applied>>
  BY DEF OpenEvents, page
<1>3. ASSUME NEW d \in Clients, NEW j \in DOMAIN events'[d], events'[d][j] \in Calls
      PROVE  j + k[d] \in DOMAIN events[d] /\ events[d][j + k[d]] = events'[d][j]
  <2>1. events[d] \in Seq(Calls \union {"hello"})
    BY DEF TypeInv
  <2>2. events'[d] = events[d] \/ events'[d] = Append(events[d], "hello")
    BY DEF OpenEvents, TypeInv
  <2>3. "hello" \notin Calls
    BY ConstantsOK
  <2>4. j \in DOMAIN events[d] /\ events'[d][j] = events[d][j] /\ j \in Nat
    BY <1>3, <2>1, <2>2, <2>3
  <2> QED
    BY <1>1, <2>4
<1> QED
  BY <1>1, <1>2, <1>3, PlaceKept

LEMMA CallToolPlace ==
    ASSUME TypeInv, TypeInv', PlaceInv, NEW r \in Calls, CallTool(r)
    PROVE  PlaceInv'
<1>1. PICK c \in Clients :
        events' = IF clients[c] = conn[c] THEN [events EXCEPT ![c] = Append(@, r)] ELSE events
  BY DEF CallTool
<1>2. /\ call[r] = "new" /\ UNCHANGED <<confirm, applied>>
      /\ \A q \in Calls : call[q] # "new" => call'[q] # "new"
      /\ call'[r] # "new"
  BY DEF CallTool, page, ghosts, TypeInv
<1>3. CASE events' = events
  BY <1>2, <1>3, PlaceStill
<1>4. CASE events' = [events EXCEPT ![c] = Append(@, r)]
  <2>1. /\ events[c] \in Seq(Calls \union {"hello"}) /\ events'[c] = Append(events[c], r)
        /\ \A d \in Clients \ {c} : events'[d] = events[d]
    BY <1>4 DEF TypeInv
  <2> DEFINE last == Len(events[c]) + 1
  <2>2. /\ \A i \in DOMAIN events'[c] : (i \in DOMAIN events[c] /\ events'[c][i] = events[c][i])
                                       \/ (i = last /\ events'[c][i] = r)
        /\ last \notin DOMAIN events[c]
    BY <2>1, AppendFacts
  <2> HIDE DEF last
  <2>3. \A d \in Clients : \A i \in DOMAIN events'[d] :
           \/ i \in DOMAIN events[d] /\ events'[d][i] = events[d][i]
           \/ d = c /\ i = last /\ events'[d][i] = r
    BY <2>1, <2>2
  <2>4. /\ \A d \in Clients : \A i \in DOMAIN events[d] : events[d][i] # r
        /\ \A d \in Clients : confirm[d] # r
    BY <1>2 DEF PlaceInv, Asked
  <2>5. applied[r] = 0
    BY <1>2 DEF PlaceInv
  <2> QED
    BY <1>2, <2>3, <2>4, <2>5 DEF PlaceInv, Asked
<1> QED
  BY <1>1, <1>3, <1>4

LEMMA HandleToolCallPlace ==
    ASSUME TypeInv, CanvasInv, TypeInv', PlaceInv, NEW c \in Clients, HandleToolCall(c)
    PROVE  PlaceInv'
<1> DEFINE r == Head(events[c])
<1>1. /\ events[c] # <<>> /\ r \in Calls /\ events' = [events EXCEPT ![c] = Tail(@)]
      /\ UNCHANGED call
  BY DEF HandleToolCall, server
<1>2. /\ events[c] \in Seq(Calls \union {"hello"}) /\ events[c][1] = r /\ 1 \in DOMAIN events[c]
      /\ events \in [Clients -> Seq(Calls \union {"hello"})]
  BY <1>1, TailFacts DEF TypeInv
<1> HIDE DEF r
<1>3. Asked(r)
  BY <1>1, <1>2 DEF PlaceInv
<1>4. CASE /\ confirm[c] = None /\ confirm' = [confirm EXCEPT ![c] = r]
           /\ UNCHANGED <<canvas, sync, queue, results, applied>>
  <2>1. ASSUME NEW d \in Clients, NEW i \in DOMAIN events'[d]
        PROVE  \E k \in Nat : /\ i + k \in DOMAIN events[d] /\ events'[d][i] = events[d][i + k]
                              /\ k = (IF d = c THEN 1 ELSE 0) /\ i \in Nat \ {0}
    <3>1. CASE d = c
      <4>1. events'[d] = Tail(events[c]) /\ i \in DOMAIN Tail(events[c])
        BY <1>1, <1>2, <3>1
      <4>2. i + 1 \in DOMAIN events[c] /\ Tail(events[c])[i] = events[c][i + 1] /\ i \in Nat \ {0}
        BY <1>1, <1>2, <4>1, TailFacts
      <4> QED
        BY <3>1, <4>1, <4>2
    <3>2. CASE d # c
      <4>1. events'[d] = events[d] /\ events[d] \in Seq(Calls \union {"hello"})
        BY <1>1, <1>2, <3>2
      <4>2. i \in Nat \ {0} /\ i + 0 = i /\ 0 \in Nat
        BY <4>1
      <4> QED
        BY <3>2, <4>1, <4>2
    <3> QED
      BY <3>1, <3>2
  <2>2. ASSUME NEW d \in Clients, NEW i \in DOMAIN events'[d]
        PROVE  events'[d][i] # r
    <3>1. PICK k \in Nat : /\ i + k \in DOMAIN events[d] /\ events'[d][i] = events[d][i + k]
                           /\ k = (IF d = c THEN 1 ELSE 0) /\ i \in Nat \ {0}
      BY <2>1
    <3>2. d = c => i + k # 1
      BY <3>1
    <3> QED
      BY <1>1, <1>2, <3>1, <3>2 DEF PlaceInv
  <2>3. ASSUME NEW d \in Clients, NEW e \in Clients, NEW i \in DOMAIN events'[d], NEW j \in DOMAIN events'[e],
               events'[d][i] \in Calls, events'[d][i] = events'[e][j]
        PROVE  d = e /\ i = j
    <3>1. PICK k \in Nat : /\ i + k \in DOMAIN events[d] /\ events'[d][i] = events[d][i + k]
                           /\ k = (IF d = c THEN 1 ELSE 0) /\ i \in Nat \ {0}
      BY <2>1
    <3>2. PICK l \in Nat : /\ j + l \in DOMAIN events[e] /\ events'[e][j] = events[e][j + l]
                           /\ l = (IF e = c THEN 1 ELSE 0) /\ j \in Nat \ {0}
      BY <2>1
    <3>3. events[d][i + k] \in Calls /\ events[d][i + k] = events[e][j + l]
      BY <2>3, <3>1, <3>2
    <3>4. /\ \A u, v \in Clients : \A m \in DOMAIN events[u], n \in DOMAIN events[v] :
               events[u][m] \in Calls /\ events[u][m] = events[v][n] => u = v /\ m = n
          /\ i + k \in DOMAIN events[d] /\ j + l \in DOMAIN events[e]
      BY <3>1, <3>2 DEF PlaceInv
    <3>5. d = e /\ i + k = j + l
      BY <3>3, <3>4
    <3> QED
      BY <3>1, <3>2, <3>5
  <2>4. ASSUME NEW d \in Clients, NEW i \in DOMAIN events'[d], events'[d][i] \in Calls
        PROVE  Asked(events'[d][i]) /\ \A e \in Clients : confirm[e] # events'[d][i]
    <3>1. PICK k \in Nat : i + k \in DOMAIN events[d] /\ events'[d][i] = events[d][i + k]
      BY <2>1
    <3> QED
      BY <2>4, <3>1 DEF PlaceInv
  <2>5. \A d \in Clients : confirm'[d] = IF d = c THEN r ELSE confirm[d]
    BY <1>4 DEF TypeInv
  <2>6. \A d \in Clients : confirm[d] # r
    BY <1>1, <1>2 DEF PlaceInv
  <2>7. \A q \in Calls : call'[q] = call[q] /\ applied'[q] = applied[q]
    BY <1>1, <1>4
  <2>8. \A d \in Clients : \A i \in DOMAIN events'[d] : events'[d][i] \in Calls =>
           call'[events'[d][i]] # "new" /\ applied'[events'[d][i]] = 0
    BY <2>4, <2>7 DEF Asked
  <2>9. \A d \in Clients : confirm'[d] \in Calls => call'[confirm'[d]] # "new" /\ applied'[confirm'[d]] = 0
    BY <1>1, <1>3, <2>5, <2>7 DEF PlaceInv, Asked
  <2>10. \A d, e \in Clients : \A i \in DOMAIN events'[d] : events'[d][i] \in Calls => confirm'[e] # events'[d][i]
    BY <2>2, <2>4, <2>5
  <2>11. \A d, e \in Clients : confirm'[d] \in Calls /\ confirm'[d] = confirm'[e] => d = e
    BY <2>5, <2>6 DEF PlaceInv
  <2>12. \A q \in Calls : call'[q] = "new" => applied'[q] = 0
    BY <2>7 DEF PlaceInv
  <2> QED
    BY <2>3, <2>8, <2>9, <2>10, <2>11, <2>12 DEF PlaceInv, Asked
<1>5. CASE UNCHANGED <<confirm, applied>>
  BY <1>1, <1>5, PlaceTaken DEF r
<1>6. CASE RunToolCall(c, r) /\ UNCHANGED confirm
  <2>1. ASSUME NEW q \in Calls, q # r
        PROVE  applied'[q] = applied[q]
    BY <1>6, <2>1 DEF RunToolCall, TypeInv
  <2> QED
    BY <1>1, <1>6, <2>1, PlaceTaken DEF r
<1> QED
  BY <1>4, <1>5, <1>6 DEF HandleToolCall, r

LEMMA ApprovePlace ==
    ASSUME TypeInv, TypeInv', PlaceInv, NEW c \in Clients, Approve(c)
    PROVE  PlaceInv'
<1> DEFINE k == [d \in Clients |-> 0]
<1>1. k \in [Clients -> Nat] /\ \A d \in Clients : k[d] = 0
  OBVIOUS
<1> HIDE DEF k
<1>2. /\ UNCHANGED <<call, events>> /\ confirm[c] \in Calls
      /\ \A d \in Clients : confirm'[d] = IF d = c THEN None ELSE confirm[d]
  BY DEF Approve, server, stream, TypeInv
<1>3. \A q \in Calls : q # confirm[c] => applied'[q] = applied[q]
  BY DEF Approve, RunToolCall, TypeInv
<1>4. ASSUME NEW d \in Clients, NEW j \in DOMAIN events'[d], events'[d][j] \in Calls
      PROVE  /\ j + k[d] \in DOMAIN events[d] /\ events[d][j + k[d]] = events'[d][j]
             /\ applied'[events'[d][j]] = applied[events'[d][j]]
  <2>1. events'[d] = events[d] /\ events[d] \in Seq(Calls \union {"hello"})
    BY <1>2 DEF TypeInv
  <2>2. j \in Nat /\ j + k[d] = j
    BY <1>1, <2>1
  <2>3. confirm[c] # events'[d][j]
    BY <1>4, <2>1 DEF PlaceInv
  <2> QED
    BY <1>3, <1>4, <2>1, <2>2, <2>3
<1>5. ASSUME NEW d \in Clients, confirm'[d] \in Calls
      PROVE  confirm'[d] = confirm[d] /\ applied'[confirm'[d]] = applied[confirm'[d]]
  <2>1. d # c /\ confirm'[d] = confirm[d]
    BY <1>2, <1>5, ConstantsOK
  <2> QED
    BY <1>2, <1>3, <1>5, <2>1 DEF PlaceInv
<1>6. ASSUME NEW q \in Calls, call[q] = "new"
      PROVE  applied'[q] = applied[q]
  BY <1>2, <1>3, <1>6 DEF PlaceInv, Asked
<1> QED
  BY <1>1, <1>2, <1>4, <1>5, <1>6, PlaceKept

\* A result that is resolved ends the call, or was not expected.
LEMMA ResolveKeepsAsked ==
    ASSUME TypeInv, NEW res \in Results, ResolveResult(res)
    PROVE  \A r \in Calls : call[r] # "new" => call'[r] # "new"
BY ResultFacts DEF ResolveResult, TypeInv

LEMMA InitPlace ==
    Init => PlaceInv /\ CanvasInv
<1> SUFFICES ASSUME Init PROVE PlaceInv /\ CanvasInv
  OBVIOUS
<1>1. None \notin Calls
  BY ConstantsOK
<1>2. PlaceInv
  BY <1>1 DEF Init, PlaceInv
<1>3. count.edits = 0 /\ \A c \in Clients : canvas[c] = 0
  BY DEF Init
<1> QED
  BY <1>2, <1>3, RanIsSmall DEF CanvasInv

LEMMA CanvasStill ==
    ASSUME CanvasInv, UNCHANGED <<canvas, applied>>, count'.edits = count.edits
    PROVE  CanvasInv'
BY DEF CanvasInv, Ran

-----------------------------------------------------------------------------
(* The streams of a page.                                                  *)

\* The greeting of a stream waits in the queue of the page.
Greeting(c, i) == queue[c][i].purpose.for = "hello"

\* Streams are numbered in order; a page without a stream hears nothing; a
\* greeting, and what follows it, belongs to a stream that the server has open;
\* without overlap the server has at most one stream of the page.
StreamOk(c) ==
    /\ \A n \in opening[c] \union sockets[c] \union {conn[c]} : n <= count.streams
    /\ clients[c] \in sockets[c] \union {0}
    /\ conn[c] = 0 => ~connected[c] /\ events[c] = <<>>
    /\ \A i \in DOMAIN events[c] : events[c][i] = "hello" => conn[c] \in sockets[c]
    /\ \A i \in DOMAIN queue[c] : Greeting(c, i) =>
          /\ queue[c][i].purpose.stream <= count.streams
          /\ queue[c][i].purpose.stream = conn[c] => conn[c] \in sockets[c]
    /\ connected[c] => conn[c] \in sockets[c] /\ heard[c] = conn[c]
    /\ overlap[c] \/ sockets[c] \subseteq {clients[c]}

StreamInv == \A c \in Clients : StreamOk(c)

\* Every entry of the queue was there before, or is no greeting.
QueueFrom(c) ==
    \A i \in DOMAIN queue'[c] :
        \/ \E j \in DOMAIN queue[c] : queue[c][j] = queue'[c][i]
        \/ queue'[c][i].purpose.for # "hello"

\* The stream of the page has no new greeting.
EventsFrom(c) ==
    \A i \in DOMAIN events'[c] : events'[c][i] = "hello" => \E j \in DOMAIN events[c] : events[c][j] = "hello"

LEMMA StreamKept ==
    ASSUME NEW c \in Clients, StreamOk(c), TypeInv, TypeInv', QueueFrom(c), EventsFrom(c),
           UNCHANGED <<opening[c], sockets[c], clients[c], conn[c], connected[c], heard[c], overlap[c]>>,
           conn[c] = 0 => events'[c] = <<>>,
           count.streams <= count'.streams
    PROVE  StreamOk(c)'
<1>1. count.streams \in Nat /\ count'.streams \in Nat
  BY Numbers DEF TypeInv
<1>2. \A n \in opening'[c] \union sockets'[c] \union {conn'[c]} : n <= count'.streams
  <2>1. \A n \in opening[c] \union sockets[c] \union {conn[c]} : n \in Nat /\ n <= count.streams
    BY Numbers DEF StreamOk, TypeInv
  <2> QED
    BY <1>1, <2>1
<1>3. \A i \in DOMAIN events'[c] : events'[c][i] = "hello" => conn'[c] \in sockets'[c]
  BY DEF EventsFrom, StreamOk
<1>4. ASSUME NEW i \in DOMAIN queue'[c], queue'[c][i].purpose.for = "hello"
      PROVE  /\ queue'[c][i].purpose.stream <= count'.streams
             /\ queue'[c][i].purpose.stream = conn'[c] => conn'[c] \in sockets'[c]
  <2>1. PICK j \in DOMAIN queue[c] : queue[c][j] = queue'[c][i]
    BY <1>4 DEF QueueFrom
  <2>2. /\ queue[c][j].purpose.stream <= count.streams
        /\ queue[c][j].purpose.stream = conn[c] => conn[c] \in sockets[c]
    BY <1>4, <2>1 DEF StreamOk, Greeting
  <2>3. queue[c][j].purpose.stream \in Nat
    <3>1. queue[c][j] \in Entries
      BY DEF TypeInv
    <3>2. queue[c][j].purpose \in Purposes
      BY <3>1 DEF Entries
    <3> QED
      BY <1>4, <2>1, <3>2, PurposeFacts, Numbers
  <2> QED
    BY <1>1, <2>1, <2>2, <2>3
<1> QED
  BY <1>2, <1>3, <1>4 DEF StreamOk, Greeting

LEMMA StreamClosed ==
    ASSUME NEW c \in Clients, StreamOk(c), TypeInv, TypeInv', QueueFrom(c),
           conn'[c] = 0, ~connected'[c], events'[c] = <<>>,
           UNCHANGED <<opening[c], sockets[c], clients[c], overlap[c]>>,
           count'.streams = count.streams
    PROVE  StreamOk(c)'
<1>1. count.streams \in Nat
  BY Numbers DEF TypeInv
<1>2. ASSUME NEW i \in DOMAIN queue'[c], queue'[c][i].purpose.for = "hello"
      PROVE  queue'[c][i].purpose.stream <= count'.streams /\ queue'[c][i].purpose.stream # conn'[c]
  <2>1. PICK j \in DOMAIN queue[c] : queue[c][j] = queue'[c][i]
    BY <1>2 DEF QueueFrom
  <2>2. queue[c][j].purpose.stream <= count.streams
    BY <1>2, <2>1 DEF StreamOk, Greeting
  <2>3. queue[c][j].purpose.stream # 0
    <3>1. queue[c][j] \in Entries
      BY DEF TypeInv
    <3>2. queue[c][j].purpose \in Purposes
      BY <3>1 DEF Entries
    <3> QED
      BY <1>2, <2>1, <3>2, PurposeFacts, Numbers
  <2> QED
    BY <2>1, <2>2, <2>3
<1>3. \A n \in opening'[c] \union sockets'[c] \union {conn'[c]} : n <= count'.streams
  BY <1>1 DEF StreamOk
<1> QED
  BY <1>2, <1>3 DEF StreamOk, Greeting

LEMMA StreamBridge ==
    ASSUME NEW c \in Clients, NEW d \in Clients, StreamOk(c), TypeInv, TypeInv', QueueFrom(c),
           BridgeFails(d) \/ Closed(d) \/ UNCHANGED <<conn, connected, events>>,
           UNCHANGED <<opening, sockets, clients, heard, overlap>>,
           count'.streams = count.streams
    PROVE  StreamOk(c)'
<1>1. count.streams \in Nat
  BY Numbers DEF TypeInv
<1>2. CASE UNCHANGED <<conn[c], connected[c], events[c]>>
  <2>1. EventsFrom(c) /\ (conn[c] = 0 => events'[c] = <<>>)
    BY <1>2 DEF EventsFrom, StreamOk
  <2> QED
    BY <1>1, <1>2, <2>1, StreamKept
<1>3. CASE Closed(d) /\ c = d
  <2>1. conn'[c] = 0 /\ connected'[c] = FALSE /\ events'[c] = <<>>
    BY <1>3 DEF Closed, TypeInv
  <2> QED
    BY <2>1, StreamClosed
<1>4. CASE Closed(d) /\ c # d
  BY <1>2, <1>4 DEF Closed, TypeInv
<1>5. CASE UNCHANGED <<conn, connected, events>>
  BY <1>2, <1>5
<1> QED
  BY <1>3, <1>4, <1>5 DEF BridgeFails

LEMMA QueueSame ==
    ASSUME NEW c \in Clients, queue'[c] = queue[c]
    PROVE  QueueFrom(c)
BY DEF QueueFrom

LEMMA QueueTaken ==
    ASSUME TypeInv, NEW c \in Clients, NEW d \in Clients, queue[d] # <<>>,
           queue' = [queue EXCEPT ![d] = Tail(@)]
    PROVE  QueueFrom(c)
<1>1. queue[d] \in Seq(Entries) /\ queue \in [Clients -> Seq(Entries)]
  BY DEF TypeInv
<1>2. \A i \in DOMAIN Tail(queue[d]) : i + 1 \in DOMAIN queue[d] /\ Tail(queue[d])[i] = queue[d][i + 1]
  BY <1>1, TailFacts
<1>3. queue'[c] = IF c = d THEN Tail(queue[d]) ELSE queue[c]
  BY <1>1
<1> QED
  BY <1>2, <1>3 DEF QueueFrom

LEMMA QueueGrown ==
    ASSUME TypeInv, NEW c \in Clients, NEW d \in Clients, NEW v \in Versions, NEW p \in Purposes,
           p.for # "hello", Enqueue(d, v, p)
    PROVE  QueueFrom(c)
<1> DEFINE e == [version |-> v, purpose |-> p]
<1>1. queue[d] \in Seq(Entries) /\ e \in Entries /\ e.purpose.for # "hello"
  BY DEF TypeInv, Entries
<1>2. /\ queue'[d] = Append(queue[d], e)
      /\ \A b \in Clients \ {d} : queue'[b] = queue[b]
  BY EnqueueTypes
<1> HIDE DEF e
<1>3. \A i \in DOMAIN Append(queue[d], e) :
         (i \in DOMAIN queue[d] /\ Append(queue[d], e)[i] = queue[d][i]) \/ Append(queue[d], e)[i] = e
  BY <1>1, AppendFacts
<1>4. CASE c = d
  BY <1>1, <1>2, <1>3, <1>4 DEF QueueFrom
<1>5. CASE c # d
  BY <1>2, <1>5, QueueSame
<1> QED
  BY <1>4, <1>5

LEMMA QueueRun ==
    ASSUME TypeInv, CanvasInv, NEW c \in Clients, NEW d \in Clients, NEW r \in Calls, applied[r] = 0,
           RunToolCall(d, r)
    PROVE  QueueFrom(c)
<1>1. CASE UNCHANGED queue
  BY <1>1, QueueSame
<1>2. CASE /\ applied' = [applied EXCEPT ![r] = canvas[d] + 1]
           /\ Enqueue(d, canvas[d] + 1, For("call", r, 0))
  <2>1. canvas[d] + 1 \in Versions
    BY <1>2, CallFits
  <2>2. For("call", r, 0) \in Purposes /\ For("call", r, 0).for # "hello"
    BY PurposeFacts DEF For
  <2> QED
    BY <1>2, <2>1, <2>2, QueueGrown
<1> QED
  BY <1>1, <1>2 DEF RunToolCall

LEMMA EventsTaken ==
    ASSUME TypeInv, NEW c \in Clients, NEW d \in Clients, events[d] # <<>>,
           events' = [events EXCEPT ![d] = Tail(@)]
    PROVE  EventsFrom(c)
<1>1. events[d] \in Seq(Calls \union {"hello"}) /\ events \in [Clients -> Seq(Calls \union {"hello"})]
  BY DEF TypeInv
<1>2. \A i \in DOMAIN Tail(events[d]) : i + 1 \in DOMAIN events[d] /\ Tail(events[d])[i] = events[d][i + 1]
  BY <1>1, TailFacts
<1>3. events'[c] = IF c = d THEN Tail(events[d]) ELSE events[c]
  BY <1>1
<1> QED
  BY <1>2, <1>3 DEF EventsFrom

\* A step that leaves the streams alone and adds no greeting
LEMMA StreamStill ==
    ASSUME NEW c \in Clients, StreamOk(c), TypeInv, TypeInv', QueueFrom(c),
           UNCHANGED <<opening, sockets, clients, conn, connected, heard, overlap>>,
           events'[c] = events[c], count'.streams = count.streams
    PROVE  StreamOk(c)'
<1>1. count.streams \in Nat
  BY Numbers DEF TypeInv
<1>2. EventsFrom(c) /\ (conn[c] = 0 => events'[c] = <<>>)
  BY DEF EventsFrom, StreamOk
<1> QED
  BY <1>1, <1>2, StreamKept

LEMMA EnableStream ==
    ASSUME StreamInv, TypeInv, TypeInv', NEW c \in Clients, Enable(c)
    PROVE  StreamInv'
<1> DEFINE n == count.streams + 1
<1>1. count.streams \in Nat /\ count'.streams = n /\ n \in Nat /\ count.streams < n
  <2>1. count.streams \in Nat /\ count' = [count EXCEPT !.streams = n]
    BY DEF TypeInv, Enable
  <2>2. count'.streams = n
    BY <2>1 DEF TypeInv
  <2> QED
    BY <2>1, <2>2
<1>2. UNCHANGED <<sockets, clients, connected, heard, overlap, events, queue>>
  BY DEF Enable, server, page, ghosts
<1>3. /\ opening'[c] = opening[c] \union {n} /\ conn'[c] = n /\ conn[c] = 0
      /\ \A d \in Clients \ {c} : opening'[d] = opening[d] /\ conn'[d] = conn[d]
  BY DEF Enable, TypeInv
<1> HIDE DEF n
<1>4. ASSUME NEW d \in Clients, d # c
      PROVE  StreamOk(d)'
  <2>1. StreamOk(d) /\ QueueFrom(d) /\ EventsFrom(d) /\ (conn[d] = 0 => events'[d] = <<>>)
    BY <1>2, QueueSame DEF StreamInv, EventsFrom, StreamOk
  <2>2. UNCHANGED <<opening[d], sockets[d], clients[d], conn[d], connected[d], heard[d], overlap[d]>>
    BY <1>2, <1>3, <1>4
  <2> QED
    BY <1>1, <2>1, <2>2, StreamKept
<1>5. StreamOk(c)'
  <2>1. StreamOk(c) /\ ~connected'[c] /\ events'[c] = <<>>
    BY <1>2, <1>3 DEF StreamInv, StreamOk
  <2>2. \A m \in opening[c] \union sockets[c] : m \in Nat /\ m <= count.streams
    BY <2>1, Numbers DEF StreamOk, TypeInv
  <2>3. \A m \in opening'[c] \union sockets'[c] \union {conn'[c]} : m <= count'.streams
    BY <1>1, <1>2, <1>3, <2>2
  <2>4. ASSUME NEW i \in DOMAIN queue'[c], queue'[c][i].purpose.for = "hello"
        PROVE  queue'[c][i].purpose.stream <= count'.streams /\ queue'[c][i].purpose.stream # conn'[c]
    <3>1. queue[c][i].purpose.stream <= count.streams
      BY <1>2, <2>1, <2>4 DEF StreamOk, Greeting
    <3>2. queue[c][i] \in Entries
      BY <1>2, <2>4 DEF TypeInv
    <3>3. queue[c][i].purpose \in Purposes
      BY <3>2 DEF Entries
    <3>4. queue[c][i].purpose.stream \in Nat
      BY <1>2, <2>4, <3>3, PurposeFacts, Numbers
    <3> QED
      BY <1>1, <1>2, <1>3, <3>1, <3>4
  <2> QED
    BY <1>1, <1>2, <1>3, <2>1, <2>3, <2>4 DEF StreamOk, Greeting
<1> QED
  BY <1>4, <1>5 DEF StreamInv

LEMMA DisconnectStream ==
    ASSUME StreamInv, TypeInv, TypeInv', NEW c \in Clients, Disconnect(c)
    PROVE  StreamInv'
<1>1. /\ Closed(c) /\ UNCHANGED <<opening, sockets, clients, heard, overlap, queue>>
      /\ count'.streams = count.streams
  BY DEF Disconnect, server, ghosts
<1>2. ASSUME NEW d \in Clients PROVE StreamOk(d)'
  BY <1>1, QueueSame, StreamBridge DEF StreamInv
<1> QED
  BY <1>2 DEF StreamInv

LEMMA OpenEventsStream ==
    ASSUME StreamInv, TypeInv, TypeInv', NEW c \in Clients, OpenEvents(c)
    PROVE  StreamInv'
<1>1. PICK n \in opening[c] :
        /\ opening' = [opening EXCEPT ![c] = @ \ {n}]
        /\ sockets' = [sockets EXCEPT ![c] = @ \union {n}]
        /\ clients' = [clients EXCEPT ![c] = n]
        /\ events' = IF conn[c] = n THEN [events EXCEPT ![c] = Append(@, "hello")] ELSE events
        /\ overlap' = [overlap EXCEPT ![c] = @ \/ sockets[c] # {}]
        /\ UNCHANGED <<conn, connected, queue, heard, count>>
  BY DEF OpenEvents, page
<1>2. ASSUME NEW d \in Clients, d # c
      PROVE  StreamOk(d)'
  <2>1. UNCHANGED <<opening[d], sockets[d], clients[d], conn[d], connected[d], heard[d], overlap[d], events[d]>>
    BY <1>1, <1>2 DEF TypeInv
  <2>2. StreamOk(d) /\ QueueFrom(d) /\ EventsFrom(d) /\ (conn[d] = 0 => events'[d] = <<>>)
    BY <1>1, <2>1, QueueSame DEF StreamInv, EventsFrom, StreamOk
  <2>3. count.streams <= count'.streams
    BY <1>1, Numbers DEF TypeInv
  <2> QED
    BY <2>1, <2>2, <2>3, StreamKept
<1>3. StreamOk(c)'
  <2>1. /\ opening'[c] = opening[c] \ {n} /\ sockets'[c] = sockets[c] \union {n}
        /\ clients'[c] = n /\ overlap'[c] = (overlap[c] \/ sockets[c] # {})
        /\ n \in Streams
    BY <1>1 DEF TypeInv
  <2>2. StreamOk(c)
    BY DEF StreamInv
  <2>3. conn[c] = 0 => events'[c] = <<>>
    BY <1>1, <2>1, <2>2, Numbers DEF StreamOk
  <2>4. \A i \in DOMAIN events'[c] : events'[c][i] = "hello" => conn[c] \in sockets'[c]
    <3>1. CASE conn[c] = n
      BY <2>1, <3>1
    <3>2. CASE conn[c] # n
      BY <1>1, <2>1, <2>2, <3>2 DEF StreamOk
    <3> QED
      BY <3>1, <3>2
  <2>5. overlap'[c] \/ sockets'[c] \subseteq {clients'[c]}
    BY <2>1
  <2>6. \A m \in opening'[c] \union sockets'[c] \union {conn'[c]} : m <= count'.streams
    BY <1>1, <2>1, <2>2 DEF StreamOk
  <2>7. \A i \in DOMAIN queue'[c] : queue'[c][i].purpose.for = "hello" =>
          /\ queue'[c][i].purpose.stream <= count'.streams
          /\ queue'[c][i].purpose.stream = conn'[c] => conn'[c] \in sockets'[c]
    BY <1>1, <2>1, <2>2 DEF StreamOk, Greeting
  <2>8. /\ clients'[c] \in sockets'[c] \union {0}
        /\ conn'[c] = 0 => ~connected'[c] /\ events'[c] = <<>>
        /\ connected'[c] => conn'[c] \in sockets'[c] /\ heard'[c] = conn'[c]
    BY <1>1, <2>1, <2>2, <2>3 DEF StreamOk
  <2> QED
    BY <1>1, <2>4, <2>5, <2>6, <2>7, <2>8 DEF StreamOk, Greeting
<1> QED
  BY <1>2, <1>3 DEF StreamInv

LEMMA CloseEventsStream ==
    ASSUME StreamInv, TypeInv, TypeInv', NEW c \in Clients, CloseEvents(c)
    PROVE  StreamInv'
<1>1. PICK n \in sockets[c] \ {conn[c]} :
        /\ sockets' = [sockets EXCEPT ![c] = @ \ {n}]
        /\ clients' = [clients EXCEPT ![c] = 0]
        /\ UNCHANGED <<opening, conn, connected, events, queue, heard, overlap, count>>
  BY DEF CloseEvents, page, ghosts
<1>2. ASSUME NEW d \in Clients, d # c
      PROVE  StreamOk(d)'
  <2>1. UNCHANGED <<opening[d], sockets[d], clients[d], conn[d], connected[d], heard[d], overlap[d], events[d]>>
    BY <1>1, <1>2 DEF TypeInv
  <2>2. StreamOk(d) /\ QueueFrom(d) /\ EventsFrom(d) /\ (conn[d] = 0 => events'[d] = <<>>)
    BY <1>1, <2>1, QueueSame DEF StreamInv, EventsFrom, StreamOk
  <2>3. count.streams <= count'.streams
    BY <1>1, Numbers DEF TypeInv
  <2> QED
    BY <2>1, <2>2, <2>3, StreamKept
<1>3. StreamOk(c)'
  <2>1. /\ sockets'[c] = sockets[c] \ {n} /\ clients'[c] = 0 /\ n # conn[c] /\ n \in sockets[c]
    BY <1>1 DEF TypeInv
  <2>2. StreamOk(c)
    BY DEF StreamInv
  <2>3. overlap[c] \/ sockets'[c] = {}
    BY <2>1, <2>2 DEF StreamOk
  <2> QED
    BY <1>1, <2>1, <2>2, <2>3 DEF StreamOk, Greeting
<1> QED
  BY <1>2, <1>3 DEF StreamInv

LEMMA CallToolStream ==
    ASSUME StreamInv, TypeInv, TypeInv', NEW r \in Calls, CallTool(r)
    PROVE  StreamInv'
<1>1. PICK c \in Clients :
        /\ Target(c)
        /\ events' = IF clients[c] = conn[c] THEN [events EXCEPT ![c] = Append(@, r)] ELSE events
  BY DEF CallTool
<1>2. UNCHANGED <<opening, sockets, clients, conn, connected, heard, overlap, queue, count>>
  BY DEF CallTool, page, ghosts
<1>3. ASSUME NEW d \in Clients
      PROVE  StreamOk(d)'
  <2>1. StreamOk(d) /\ QueueFrom(d) /\ count.streams <= count'.streams
    BY <1>2, QueueSame, Numbers DEF StreamInv, TypeInv
  <2>2. events'[d] = events[d] \/ (events'[d] = Append(events[d], r) /\ conn[d] # 0)
    BY <1>1 DEF Target, TypeInv
  <2>3. events[d] \in Seq(Calls \union {"hello"}) /\ r # "hello"
    BY ConstantsOK DEF TypeInv
  <2>4. EventsFrom(d)
    BY <2>2, <2>3, AppendFacts DEF EventsFrom
  <2>5. conn[d] = 0 => events'[d] = <<>>
    BY <2>1, <2>2 DEF StreamOk
  <2> QED
    BY <1>2, <2>1, <2>4, <2>5, StreamKept
<1> QED
  BY <1>3 DEF StreamInv

LEMMA CallEndStream ==
    ASSUME StreamInv, TypeInv, TypeInv', NEW r \in Calls, CallRefused(r) \/ CallTimesOut(r)
    PROVE  StreamInv'
<1>1. UNCHANGED <<opening, sockets, clients, conn, connected, heard, overlap, queue, events, count>>
  BY DEF CallRefused, CallTimesOut, stream, page, ghosts
<1>2. ASSUME NEW d \in Clients PROVE StreamOk(d)'
  BY <1>1, QueueSame, StreamStill DEF StreamInv
<1> QED
  BY <1>2 DEF StreamInv

LEMMA HelloStream ==
    ASSUME StreamInv, TypeInv, TypeInv', NEW c \in Clients, Hello(c)
    PROVE  StreamInv'
<1>1. /\ UNCHANGED <<opening, sockets, clients, conn, connected, heard, overlap, count>>
      /\ events[c] # <<>> /\ Head(events[c]) = "hello" /\ events' = [events EXCEPT ![c] = Tail(@)]
  BY DEF Hello, server, ghosts
<1>2. count.streams <= count'.streams
  BY <1>1, Numbers DEF TypeInv
<1>3. StreamOk(c) /\ events[c] \in Seq(Calls \union {"hello"})
  BY DEF StreamInv, TypeInv
<1>4. conn[c] \in sockets[c]
  BY <1>1, <1>3, TailFacts DEF StreamOk
<1>5. canvas[c] \in Versions /\ conn[c] \in Streams
  BY <1>4 DEF TypeInv
<1> DEFINE p == For("hello", None, conn[c])
           e == [version |-> canvas[c], purpose |-> p]
<1>6. p \in Purposes
  BY <1>5, PurposeFacts
<1>7. /\ queue'[c] = Append(queue[c], e) /\ \A d \in Clients \ {c} : queue'[d] = queue[d]
  BY <1>5, <1>6, EnqueueTypes DEF Hello
<1>8. queue[c] \in Seq(Entries) /\ e \in Entries /\ e.purpose.stream = conn[c]
  BY <1>5, <1>6 DEF TypeInv, Entries, For
<1> HIDE DEF e, p
<1>9. \A i \in DOMAIN queue'[c] : (i \in DOMAIN queue[c] /\ queue'[c][i] = queue[c][i]) \/ queue'[c][i] = e
  BY <1>7, <1>8, AppendFacts
<1>10. ASSUME NEW d \in Clients, d # c
       PROVE  StreamOk(d)'
  <2>1. events'[d] = events[d] /\ queue'[d] = queue[d] /\ StreamOk(d)
    BY <1>1, <1>7, <1>10 DEF TypeInv, StreamInv
  <2> QED
    BY <1>1, <2>1, QueueSame, StreamStill
<1>11. StreamOk(c)'
  <2>1. EventsFrom(c)
    BY <1>1, EventsTaken
  <2>2. \A i \in DOMAIN events'[c] : events'[c][i] = "hello" => conn'[c] \in sockets'[c]
    BY <1>1, <1>4
  <2>3. \A n \in opening'[c] \union sockets'[c] \union {conn'[c]} : n <= count'.streams
    BY <1>1, <1>3 DEF StreamOk
  <2>4. conn[c] <= count.streams /\ conn[c] # 0
    BY <1>3, <1>5, Numbers DEF StreamOk
  <2>5. \A i \in DOMAIN queue'[c] : queue'[c][i].purpose.for = "hello" =>
          /\ queue'[c][i].purpose.stream <= count'.streams
          /\ queue'[c][i].purpose.stream = conn'[c] => conn'[c] \in sockets'[c]
    BY <1>1, <1>3, <1>4, <1>8, <1>9, <2>4 DEF StreamOk, Greeting
  <2> QED
    BY <1>1, <1>3, <2>2, <2>3, <2>4, <2>5 DEF StreamOk, Greeting
<1> QED
  BY <1>10, <1>11 DEF StreamInv

LEMMA HandleToolCallStream ==
    ASSUME StreamInv, TypeInv, CanvasInv, PlaceInv, TypeInv', NEW c \in Clients, HandleToolCall(c)
    PROVE  StreamInv'
<1>1. /\ UNCHANGED <<opening, sockets, clients, conn, connected, heard, overlap, count>>
      /\ events[c] # <<>> /\ Head(events[c]) \in Calls /\ events' = [events EXCEPT ![c] = Tail(@)]
  BY DEF HandleToolCall, server
<1>2. count.streams <= count'.streams
  BY <1>1, Numbers DEF TypeInv
<1>3. applied[Head(events[c])] = 0
  <2>1. events[c] \in Seq(Calls \union {"hello"})
    BY DEF TypeInv
  <2> QED
    BY <1>1, <2>1, TailFacts DEF PlaceInv, Asked
<1>4. ASSUME NEW d \in Clients
      PROVE  StreamOk(d)'
  <2>1. UNCHANGED queue \/ RunToolCall(c, Head(events[c]))
    BY DEF HandleToolCall
  <2>2. QueueFrom(d)
    BY <1>1, <1>3, <2>1, QueueSame, QueueRun
  <2>3. StreamOk(d) /\ EventsFrom(d)
    BY <1>1, EventsTaken DEF StreamInv
  <2>4. conn[d] = 0 => events'[d] = <<>>
    BY <1>1, <2>3 DEF StreamOk, TypeInv
  <2> QED
    BY <1>1, <1>2, <2>2, <2>3, <2>4, StreamKept
<1> QED
  BY <1>4 DEF StreamInv

LEMMA ApproveStream ==
    ASSUME StreamInv, TypeInv, CanvasInv, PlaceInv, TypeInv', NEW c \in Clients, Approve(c)
    PROVE  StreamInv'
<1>1. UNCHANGED <<opening, sockets, clients, conn, connected, events, heard, overlap, count>>
  BY DEF Approve, server, stream
<1>2. confirm[c] \in Calls /\ applied[confirm[c]] = 0
  BY DEF Approve, TypeInv, PlaceInv, Asked
<1>3. ASSUME NEW d \in Clients
      PROVE  StreamOk(d)'
  <2>1. QueueFrom(d) /\ StreamOk(d)
    BY <1>2, QueueRun DEF Approve, StreamInv
  <2> QED
    BY <1>1, <2>1, StreamStill
<1> QED
  BY <1>3 DEF StreamInv

LEMMA PageStream ==
    ASSUME StreamInv, TypeInv, TypeInv', NEW c \in Clients,
           Reject(c) \/ Edit(c) \/ Render(c) \/ EditTimerFires(c)
    PROVE  StreamInv'
<1>1. UNCHANGED <<opening, sockets, clients, conn, connected, events, heard, overlap>>
  BY DEF Reject, Edit, Render, EditTimerFires, server, stream, ghosts
<1>2. count'.streams = count.streams
  BY AskTypes DEF Reject, Edit, Render, EditTimerFires
<1>3. ASSUME NEW d \in Clients
      PROVE  StreamOk(d)'
  <2>1. CASE Reject(c) \/ Edit(c) \/ Render(c)
    <3>1. UNCHANGED queue
      BY <2>1 DEF Reject, Edit, Render, page
    <3> QED
      BY <1>1, <1>2, <3>1, QueueSame, StreamStill DEF StreamInv
  <2>2. CASE EditTimerFires(c)
    <3>1. PICK v \in Versions : /\ Enqueue(c, v, TimerPurpose(c, v)) /\ TimerPurpose(c, v) \in Purposes
                                /\ TimerPurpose(c, v).for # "hello"
      BY <2>2, TimerPosts
    <3>2. QueueFrom(d)
      BY <3>1, QueueGrown
    <3> QED
      BY <1>1, <1>2, <3>2, StreamStill DEF StreamInv
  <2> QED
    BY <2>1, <2>2
<1> QED
  BY <1>3 DEF StreamInv

LEMMA StateStoredStream ==
    ASSUME StreamInv, TypeInv, TypeInv', NEW c \in Clients, StateStored(c)
    PROVE  StreamInv'
<1> DEFINE p == Head(queue[c]).purpose
<1>1. /\ UNCHANGED <<opening, sockets, clients, conn, events, overlap, count>>
      /\ queue[c] # <<>> /\ queue' = [queue EXCEPT ![c] = Tail(@)]
      /\ heard' = [heard EXCEPT ![c] = conn[c]]
      /\ connected' = IF p.for = "hello" /\ p.stream = conn[c]
                      THEN [connected EXCEPT ![c] = TRUE] ELSE connected
  BY DEF StateStored, Continue, Outdated
<1>2. \A d \in Clients : QueueFrom(d)
  BY <1>1, QueueTaken
<1>3. count.streams <= count'.streams
  BY <1>1, Numbers DEF TypeInv
<1>4. ASSUME NEW d \in Clients, d # c
      PROVE  StreamOk(d)'
  <2>1. UNCHANGED <<opening[d], sockets[d], clients[d], conn[d], connected[d], heard[d], overlap[d]>>
    BY <1>1, <1>4 DEF TypeInv
  <2>2. StreamOk(d) /\ EventsFrom(d) /\ (conn[d] = 0 => events'[d] = <<>>)
    BY <1>1 DEF StreamInv, StreamOk, EventsFrom
  <2> QED
    BY <1>2, <1>3, <2>1, <2>2, StreamKept
<1>5. StreamOk(c)'
  <2>1. StreamOk(c)
    BY DEF StreamInv
  <2>2. 1 \in DOMAIN queue[c] /\ queue[c][1].purpose = p /\ p \in Purposes
    BY <1>1, HeadOfQueue
  <2>3. heard'[c] = conn[c]
    BY <1>1 DEF TypeInv
  <2>4. p.for = "hello" /\ p.stream = conn[c] => conn[c] \in sockets[c] /\ conn[c] # 0
    <3>1. p.for = "hello" => p.stream # 0
      BY <2>2, PurposeFacts, Numbers
    <3> QED
      BY <2>1, <2>2, <3>1 DEF StreamOk, Greeting
  <2> HIDE DEF p
  <2>5. /\ connected'[c] => conn'[c] \in sockets'[c] /\ heard'[c] = conn'[c]
        /\ conn'[c] = 0 => ~connected'[c] /\ events'[c] = <<>>
    <3>1. CASE p.for = "hello" /\ p.stream = conn[c]
      BY <1>1, <2>3, <2>4, <3>1
    <3>2. CASE ~(p.for = "hello" /\ p.stream = conn[c])
      BY <1>1, <2>1, <2>3, <3>2 DEF StreamOk
    <3> QED
      BY <3>1, <3>2
  <2>6. ASSUME NEW i \in DOMAIN queue'[c], queue'[c][i].purpose.for = "hello"
        PROVE  /\ queue'[c][i].purpose.stream <= count'.streams
               /\ queue'[c][i].purpose.stream = conn'[c] => conn'[c] \in sockets'[c]
    <3>1. PICK j \in DOMAIN queue[c] : queue[c][j] = queue'[c][i]
      BY <1>2, <2>6 DEF QueueFrom
    <3> QED
      BY <1>1, <2>1, <2>6, <3>1 DEF StreamOk, Greeting
  <2>7. UNCHANGED <<opening[c], sockets[c], clients[c], conn[c], events[c], overlap[c], count>>
    BY <1>1
  <2> QED
    BY <2>1, <2>5, <2>6, <2>7 DEF StreamOk, Greeting
<1> QED
  BY <1>4, <1>5 DEF StreamInv

LEMMA StateLostStream ==
    ASSUME StreamInv, TypeInv, TypeInv', NEW c \in Clients, StateLost(c)
    PROVE  StreamInv'
<1>1. /\ UNCHANGED <<opening, sockets, clients, heard, overlap>>
      /\ queue[c] # <<>> /\ queue' = [queue EXCEPT ![c] = Tail(@)]
  BY DEF StateLost, server, ghosts
<1>2. BridgeFails(c) \/ UNCHANGED <<conn, connected, events>>
  BY DEF StateLost
<1>3. count'.streams = count.streams
  BY DEF StateLost, Lose, TypeInv
<1>4. ASSUME NEW d \in Clients PROVE StreamOk(d)'
  <2>1. QueueFrom(d) /\ StreamOk(d)
    BY <1>1, QueueTaken DEF StreamInv
  <2> QED
    BY <1>1, <1>2, <1>3, <2>1, StreamBridge
<1> QED
  BY <1>4 DEF StreamInv

LEMMA ResultStream ==
    ASSUME StreamInv, TypeInv, TypeInv', NEW res \in results, ResultArrives(res) \/ ResultLost(res)
    PROVE  StreamInv'
<1>1. UNCHANGED <<opening, sockets, clients, heard, overlap, queue>>
  BY DEF ResultArrives, ResultLost, server, ghosts, page
<1>2. BridgeFails(res.from) \/ UNCHANGED <<conn, connected, events>>
  BY DEF ResultArrives, ResultLost
<1>3. count'.streams = count.streams /\ res.from \in Clients
  <2>1. res.from \in Clients
    BY ResultFacts DEF TypeInv
  <2>2. count' = count \/ count' = [count EXCEPT !.lost = @ + 1]
    BY DEF ResultArrives, ResultLost, Lose
  <2> QED
    BY <2>1, <2>2 DEF TypeInv
<1>4. ASSUME NEW d \in Clients PROVE StreamOk(d)'
  <2>1. QueueFrom(d) /\ StreamOk(d)
    BY <1>1, QueueSame DEF StreamInv
  <2> QED
    BY <1>1, <1>2, <1>3, <2>1, StreamBridge
<1> QED
  BY <1>4 DEF StreamInv

LEMMA LateArrivesStream ==
    ASSUME StreamInv, TypeInv, TypeInv', LateArrives
    PROVE  StreamInv'
<1>1. UNCHANGED <<opening, sockets, clients, conn, connected, heard, overlap, queue, events, count>>
  BY DEF LateArrives, stream, page
<1>2. ASSUME NEW d \in Clients PROVE StreamOk(d)'
  BY <1>1, QueueSame, StreamStill DEF StreamInv
<1> QED
  BY <1>2 DEF StreamInv

LEMMA InitStream ==
    Init => StreamInv
<1> SUFFICES ASSUME Init, NEW c \in Clients PROVE StreamOk(c)
  BY DEF StreamInv
<1>1. DOMAIN events[c] = {} /\ DOMAIN queue[c] = {}
  BY DEF Init
<1> QED
  BY <1>1 DEF Init, StreamOk

Core == TypeInv /\ PlaceInv /\ CanvasInv /\ StreamInv

\* Every step keeps the first three parts.
LEMMA NextCore ==
    ASSUME Core, [Next]_vars
    PROVE  Core'
<1> USE DEF Core
<1>1. CASE UNCHANGED vars
  <2>1. TypeInv' /\ PlaceInv' /\ CanvasInv'
    BY <1>1 DEF TypeInv, PlaceInv, Asked, CanvasInv, Ran, vars, server, stream, page, ghosts
  <2>2. StreamInv'
    BY <1>1 DEF StreamInv, StreamOk, Greeting, vars, server, stream, page, ghosts
  <2> QED
    BY <2>1, <2>2
<1>2. ASSUME NEW c \in Clients, Enable(c)
      PROVE  Core'
  <2>1. TypeInv'
    BY <1>2, EnableTypes
  <2>2. PlaceInv'
    <3>1. UNCHANGED <<applied, call>> /\ \A d \in Clients : confirm'[d] = confirm[d] \/ confirm'[d] = None
      BY <1>2 DEF Enable, server, page, ghosts
    <3>2. \A d \in Clients : events'[d] = events[d] \/ events'[d] = <<>>
      BY <1>2 DEF Enable, server, page, ghosts
    <3> QED
      BY <2>1, <3>1, <3>2, PlaceStill
  <2>3. CanvasInv'
    <3>1. UNCHANGED <<canvas, applied>> /\ count'.edits = count.edits
      BY <1>2 DEF Enable, server, page, ghosts, TypeInv
    <3> QED
      BY <3>1, CanvasStill
  <2>4. StreamInv'
    BY <1>2, <2>1, EnableStream
  <2> QED
    BY <2>1, <2>2, <2>3, <2>4
<1>3. ASSUME NEW c \in Clients, Disconnect(c)
      PROVE  Core'
  <2>1. TypeInv'
    BY <1>3, DisconnectTypes
  <2>2. PlaceInv'
    <3>1. UNCHANGED <<applied, call>> /\ \A d \in Clients : confirm'[d] = confirm[d] \/ confirm'[d] = None
      BY <1>3 DEF Disconnect, Closed, server, ghosts, TypeInv
    <3>2. \A d \in Clients : events'[d] = events[d] \/ events'[d] = <<>>
      BY <1>3 DEF Disconnect, Closed, server, ghosts, TypeInv
    <3> QED
      BY <2>1, <3>1, <3>2, PlaceStill
  <2>3. CanvasInv'
    <3>1. UNCHANGED <<canvas, applied>> /\ count'.edits = count.edits
      BY <1>3 DEF Disconnect, server, ghosts
    <3> QED
      BY <3>1, CanvasStill
  <2>4. StreamInv'
    BY <1>3, <2>1, DisconnectStream
  <2> QED
    BY <2>1, <2>2, <2>3, <2>4
<1>4. ASSUME NEW c \in Clients, OpenEvents(c)
      PROVE  Core'
  <2>1. TypeInv'
    BY <1>4, OpenEventsTypes
  <2>2. PlaceInv'
    BY <1>4, <2>1, OpenEventsPlace
  <2>3. CanvasInv'
    <3>1. UNCHANGED <<canvas, applied>> /\ count'.edits = count.edits
      BY <1>4 DEF OpenEvents, page
    <3> QED
      BY <3>1, CanvasStill
  <2>4. StreamInv'
    BY <1>4, <2>1, OpenEventsStream
  <2> QED
    BY <2>1, <2>2, <2>3, <2>4
<1>5. ASSUME NEW c \in Clients, CloseEvents(c)
      PROVE  Core'
  <2>1. TypeInv'
    BY <1>5, CloseEventsTypes
  <2>2. PlaceInv'
    <3>1. UNCHANGED <<applied, call>> /\ \A d \in Clients : confirm'[d] = confirm[d] \/ confirm'[d] = None
      BY <1>5 DEF CloseEvents, page, ghosts
    <3>2. \A d \in Clients : events'[d] = events[d] \/ events'[d] = <<>>
      BY <1>5 DEF CloseEvents, page, ghosts
    <3> QED
      BY <2>1, <3>1, <3>2, PlaceStill
  <2>3. CanvasInv'
    <3>1. UNCHANGED <<canvas, applied>> /\ count'.edits = count.edits
      BY <1>5 DEF CloseEvents, page, ghosts
    <3> QED
      BY <3>1, CanvasStill
  <2>4. StreamInv'
    BY <1>5, <2>1, CloseEventsStream
  <2> QED
    BY <2>1, <2>2, <2>3, <2>4
<1>6. ASSUME NEW r \in Calls, CallTool(r)
      PROVE  Core'
  <2>1. TypeInv'
    BY <1>6, CallToolTypes
  <2>2. PlaceInv'
    BY <1>6, <2>1, CallToolPlace
  <2>3. CanvasInv'
    <3>1. UNCHANGED <<canvas, applied>> /\ count'.edits = count.edits
      BY <1>6 DEF CallTool, page, ghosts
    <3> QED
      BY <3>1, CanvasStill
  <2>4. StreamInv'
    BY <1>6, <2>1, CallToolStream
  <2> QED
    BY <2>1, <2>2, <2>3, <2>4
<1>7. ASSUME NEW r \in Calls, CallRefused(r) \/ CallTimesOut(r)
      PROVE  Core'
  <2>1. TypeInv'
    BY <1>7, CallEndTypes
  <2>2. PlaceInv'
    <3>1. UNCHANGED <<applied, events, confirm>> /\ \A q \in Calls : call[q] # "new" => call'[q] # "new"
      BY <1>7 DEF CallRefused, CallTimesOut, stream, page, ghosts, TypeInv
    <3> QED
      BY <2>1, <3>1, PlaceStill
  <2>3. CanvasInv'
    <3>1. UNCHANGED <<canvas, applied>> /\ count'.edits = count.edits
      BY <1>7 DEF CallRefused, CallTimesOut, page, ghosts
    <3> QED
      BY <3>1, CanvasStill
  <2>4. StreamInv'
    BY <1>7, <2>1, CallEndStream
  <2> QED
    BY <2>1, <2>2, <2>3, <2>4
<1>8. ASSUME NEW c \in Clients, Hello(c)
      PROVE  Core'
  <2>1. TypeInv'
    <3>1. conn[c] # 0
      BY <1>8 DEF Hello, StreamInv, StreamOk
    <3> QED
      BY <1>8, <3>1, HelloTypes
  <2>2. PlaceInv'
    <3>1. /\ events[c] # <<>> /\ events' = [events EXCEPT ![c] = Tail(@)]
          /\ UNCHANGED <<confirm, call, applied>>
      BY <1>8 DEF Hello, server, ghosts
    <3> QED
      BY <2>1, <3>1, PlaceTaken
  <2>3. CanvasInv'
    <3>1. UNCHANGED <<canvas, applied>> /\ count'.edits = count.edits
      BY <1>8 DEF Hello, ghosts
    <3> QED
      BY <3>1, CanvasStill
  <2>4. StreamInv'
    BY <1>8, <2>1, HelloStream
  <2> QED
    BY <2>1, <2>2, <2>3, <2>4
<1>9. ASSUME NEW c \in Clients, HandleToolCall(c)
      PROVE  Core'
  <2>1. TypeInv'
    BY <1>9, HandleToolCallTypes
  <2>2. PlaceInv'
    BY <1>9, <2>1, HandleToolCallPlace
  <2>3. CanvasInv'
    BY <1>9, HandleToolCallTypes
  <2>4. StreamInv'
    BY <1>9, <2>1, HandleToolCallStream
  <2> QED
    BY <2>1, <2>2, <2>3, <2>4
<1>10. ASSUME NEW c \in Clients, Approve(c)
      PROVE  Core'
  <2>1. TypeInv'
    BY <1>10, ApproveTypes
  <2>2. PlaceInv'
    BY <1>10, <2>1, ApprovePlace
  <2>3. CanvasInv'
    BY <1>10, ApproveTypes
  <2>4. StreamInv'
    BY <1>10, <2>1, ApproveStream
  <2> QED
    BY <2>1, <2>2, <2>3, <2>4
<1>11. ASSUME NEW c \in Clients, Reject(c)
      PROVE  Core'
  <2>1. TypeInv'
    BY <1>11, RejectTypes
  <2>2. PlaceInv'
    <3>1. UNCHANGED <<applied, call>> /\ \A d \in Clients : confirm'[d] = confirm[d] \/ confirm'[d] = None
      BY <1>11 DEF Reject, server, stream, page, ghosts
    <3>2. \A d \in Clients : events'[d] = events[d] \/ events'[d] = <<>>
      BY <1>11 DEF Reject, server, stream, page, ghosts
    <3> QED
      BY <2>1, <3>1, <3>2, PlaceStill
  <2>3. CanvasInv'
    BY <1>11, RejectTypes
  <2>4. StreamInv'
    BY <1>11, <2>1, PageStream
  <2> QED
    BY <2>1, <2>2, <2>3, <2>4
<1>12. ASSUME NEW c \in Clients, Edit(c)
      PROVE  Core'
  <2>1. TypeInv'
    BY <1>12, EditTypes
  <2>2. PlaceInv'
    <3>1. UNCHANGED <<applied, call>> /\ \A d \in Clients : confirm'[d] = confirm[d] \/ confirm'[d] = None
      BY <1>12 DEF Edit, server, stream, ghosts
    <3>2. \A d \in Clients : events'[d] = events[d] \/ events'[d] = <<>>
      BY <1>12 DEF Edit, server, stream, ghosts
    <3> QED
      BY <2>1, <3>1, <3>2, PlaceStill
  <2>3. CanvasInv'
    BY <1>12, EditTypes
  <2>4. StreamInv'
    BY <1>12, <2>1, PageStream
  <2> QED
    BY <2>1, <2>2, <2>3, <2>4
<1>13. ASSUME NEW c \in Clients, EditTimerFires(c)
      PROVE  Core'
  <2>1. TypeInv'
    BY <1>13, EditTimerTypes
  <2>2. PlaceInv'
    <3>1. UNCHANGED <<applied, call>> /\ \A d \in Clients : confirm'[d] = confirm[d] \/ confirm'[d] = None
      BY <1>13 DEF EditTimerFires, server, stream, ghosts
    <3>2. \A d \in Clients : events'[d] = events[d] \/ events'[d] = <<>>
      BY <1>13 DEF EditTimerFires, server, stream, ghosts
    <3> QED
      BY <2>1, <3>1, <3>2, PlaceStill
  <2>3. CanvasInv'
    <3>1. UNCHANGED <<canvas, applied>> /\ count'.edits = count.edits
      BY <1>13 DEF EditTimerFires, ghosts
    <3> QED
      BY <3>1, CanvasStill
  <2>4. StreamInv'
    BY <1>13, <2>1, PageStream
  <2> QED
    BY <2>1, <2>2, <2>3, <2>4
<1>19. ASSUME NEW c \in Clients, Render(c)
       PROVE  Core'
  <2>1. TypeInv'
    BY <1>19, RenderTypes
  <2>2. PlaceInv'
    <3>1. UNCHANGED <<applied, call>> /\ \A d \in Clients : confirm'[d] = confirm[d] \/ confirm'[d] = None
      BY <1>19 DEF Render, server, stream, ghosts
    <3>2. \A d \in Clients : events'[d] = events[d] \/ events'[d] = <<>>
      BY <1>19 DEF Render, server, stream, ghosts
    <3> QED
      BY <2>1, <3>1, <3>2, PlaceStill
  <2>3. CanvasInv'
    <3>1. UNCHANGED <<canvas, applied>> /\ count'.edits = count.edits
      BY <1>19 DEF Render, ghosts
    <3> QED
      BY <3>1, CanvasStill
  <2>4. StreamInv'
    BY <1>19, <2>1, PageStream
  <2> QED
    BY <2>1, <2>2, <2>3, <2>4
<1>14. ASSUME NEW c \in Clients, StateStored(c)
      PROVE  Core'
  <2>1. TypeInv'
    BY <1>14, StateStoredTypes
  <2>2. PlaceInv'
    <3>1. UNCHANGED <<applied, call>> /\ \A d \in Clients : confirm'[d] = confirm[d] \/ confirm'[d] = None
      BY <1>14 DEF StateStored
    <3>2. \A d \in Clients : events'[d] = events[d] \/ events'[d] = <<>>
      BY <1>14 DEF StateStored
    <3> QED
      BY <2>1, <3>1, <3>2, PlaceStill
  <2>3. CanvasInv'
    <3>1. UNCHANGED <<canvas, applied>> /\ count'.edits = count.edits
      BY <1>14 DEF StateStored
    <3> QED
      BY <3>1, CanvasStill
  <2>4. StreamInv'
    BY <1>14, <2>1, StateStoredStream
  <2> QED
    BY <2>1, <2>2, <2>3, <2>4
<1>15. ASSUME NEW c \in Clients, StateLost(c)
      PROVE  Core'
  <2>1. TypeInv'
    BY <1>15, StateLostTypes
  <2>2. PlaceInv'
    <3>1. UNCHANGED applied /\ \A d \in Clients : confirm'[d] = confirm[d] \/ confirm'[d] = None
      BY <1>15 DEF StateLost, server, ghosts
    <3>2. \A q \in Calls : call[q] # "new" => call'[q] # "new"
      BY <1>15 DEF StateLost, server
    <3>3. \A d \in Clients : events'[d] = events[d] \/ events'[d] = <<>>
      BY <1>15 DEF StateLost, BridgeFails, Closed, TypeInv
    <3> QED
      BY <2>1, <3>1, <3>2, <3>3, PlaceStill
  <2>3. CanvasInv'
    <3>1. UNCHANGED <<canvas, applied>> /\ count'.edits = count.edits
      BY <1>15 DEF StateLost, Lose, ghosts, TypeInv
    <3> QED
      BY <3>1, CanvasStill
  <2>4. StreamInv'
    BY <1>15, <2>1, StateLostStream
  <2> QED
    BY <2>1, <2>2, <2>3, <2>4
<1>16. ASSUME NEW res \in results, ResultArrives(res)
      PROVE  Core'
  <2>1. TypeInv'
    BY <1>16, ResultArrivesTypes
  <2>2. PlaceInv'
    <3>1. UNCHANGED applied /\ \A d \in Clients : confirm'[d] = confirm[d] \/ confirm'[d] = None
      BY <1>16 DEF ResultArrives, ghosts, TypeInv
    <3>2. \A q \in Calls : call[q] # "new" => call'[q] # "new"
      BY <1>16, ResolveKeepsAsked DEF ResultArrives, TypeInv
    <3>3. \A d \in Clients : events'[d] = events[d] \/ events'[d] = <<>>
      BY <1>16 DEF ResultArrives, BridgeFails, Closed, TypeInv
    <3> QED
      BY <2>1, <3>1, <3>2, <3>3, PlaceStill
  <2>3. CanvasInv'
    <3>1. UNCHANGED <<canvas, applied>> /\ count'.edits = count.edits
      BY <1>16 DEF ResultArrives, ghosts
    <3> QED
      BY <3>1, CanvasStill
  <2>4. StreamInv'
    BY <1>16, <2>1, ResultStream
  <2> QED
    BY <2>1, <2>2, <2>3, <2>4
<1>17. ASSUME NEW res \in results, ResultLost(res)
      PROVE  Core'
  <2>1. TypeInv'
    BY <1>17, ResultLostTypes
  <2>2. PlaceInv'
    <3>1. UNCHANGED applied /\ \A d \in Clients : confirm'[d] = confirm[d] \/ confirm'[d] = None
      BY <1>17 DEF ResultLost, page, ghosts
    <3>2. \A q \in Calls : call[q] # "new" => call'[q] # "new"
      BY <1>17 DEF ResultLost, server
    <3>3. \A d \in Clients : events'[d] = events[d] \/ events'[d] = <<>>
      BY <1>17 DEF ResultLost, BridgeFails, Closed, TypeInv
    <3> QED
      BY <2>1, <3>1, <3>2, <3>3, PlaceStill
  <2>3. CanvasInv'
    <3>1. UNCHANGED <<canvas, applied>> /\ count'.edits = count.edits
      BY <1>17 DEF ResultLost, Lose, page, ghosts, TypeInv
    <3> QED
      BY <3>1, CanvasStill
  <2>4. StreamInv'
    BY <1>17, <2>1, ResultStream
  <2> QED
    BY <2>1, <2>2, <2>3, <2>4
<1>18. ASSUME LateArrives
      PROVE  Core'
  <2>1. TypeInv'
    BY <1>18, LateArrivesTypes
  <2>2. PlaceInv'
    <3>1. UNCHANGED <<applied, events, confirm>>
      BY <1>18 DEF LateArrives, stream, page
    <3>2. \A q \in Calls : call[q] # "new" => call'[q] # "new"
      <4>1. PICK p \in late : IF "state" \in DOMAIN p THEN UNCHANGED <<pending, call>> ELSE ResolveResult(p.result)
        BY <1>18 DEF LateArrives
      <4>2. p \in Requests
        BY DEF TypeInv
      <4>3. "state" \notin DOMAIN p => p.result \in Results
        BY <4>2, RequestFacts
      <4> QED
        BY <4>1, <4>3, ResolveKeepsAsked
    <3> QED
      BY <2>1, <3>1, <3>2, PlaceStill
  <2>3. CanvasInv'
    <3>1. UNCHANGED <<canvas, applied>> /\ count'.edits = count.edits
      BY <1>18 DEF LateArrives, page
    <3> QED
      BY <3>1, CanvasStill
  <2>4. StreamInv'
    BY <1>18, <2>1, LateArrivesStream
  <2> QED
    BY <2>1, <2>2, <2>3, <2>4
<1> QED
  BY <1>1, <1>2, <1>3, <1>4, <1>5, <1>6, <1>7, <1>8, <1>9, <1>10, <1>11, <1>12, <1>13, <1>14, <1>15, <1>16, <1>17, <1>18,
     <1>19 DEF Next

LEMMA InitCore ==
    Init => Core
BY InitTypes, InitPlace, InitStream DEF Core

\* The server, the pages and the requests between them keep their types; the
\* bound on versions holds because a call changes a canvas at most once.
THEOREM TypeCorrect ==
    Spec => []TypeOK
<1>1. Core => TypeOK
  BY TypeInvGivesTypeOK DEF Core
<1>2. Core /\ [Next]_vars => Core'
  BY NextCore
<1> QED
  BY <1>1, <1>2, InitCore, PTL DEF Spec

\* A page that calls itself connected has had its state stored on the stream it
\* has, and without overlapping streams the server reaches it (openEvents).
THEOREM ConnectionCorrect ==
    Spec => []ConnectedIsHeard
<1>1. Core => ConnectedIsHeard
  <2> SUFFICES ASSUME Core, NEW c \in Clients, connected[c]
               PROVE  heard[c] = conn[c] /\ (~overlap[c] => clients[c] = conn[c])
    BY DEF ConnectedIsHeard
  <2> QED
    BY DEF Core, StreamInv, StreamOk
<1>2. Core /\ [Next]_vars => Core'
  BY NextCore
<1> QED
  BY <1>1, <1>2, InitCore, PTL DEF Spec

-----------------------------------------------------------------------------
(* The queue of a page, and what its steps leave as it was.                *)

\* The queue stays, loses its head, or receives the canvas of now, which the
\* call it belongs to has produced.
QueueStep(c) ==
    \/ queue'[c] = queue[c]
    \/ queue[c] # <<>> /\ queue'[c] = Tail(queue[c])
    \/ \E e \in Entries :
          /\ queue'[c] = Append(queue[c], e)
          /\ e.version <= canvas'[c]
          /\ e.purpose.for = "overtaken" \/ e.version = canvas'[c]
          /\ e.purpose.for = "call" => applied'[e.purpose.call] = e.version /\ 0 < e.version

\* A canvas and the newest stored version only grow; the version that a call
\* produced stays.
Forward ==
    /\ \A c \in Clients : QueueStep(c) /\ canvas[c] <= canvas'[c] /\ stored[c] <= stored'[c]
    /\ \A r \in Calls : applied[r] # 0 => applied'[r] = applied[r]

\* The timer is armed with a canvas that the page has, or had.
TimerInv == \A c \in Clients : \A v \in sync[c].timer : v <= canvas[c]

LEMMA QueueStepPosted ==
    ASSUME TypeInv, NEW c \in Clients, NEW d \in Clients, NEW v \in Versions, NEW p \in Purposes,
           Enqueue(c, v, p), v <= canvas'[c], p.for = "overtaken" \/ canvas'[c] = v,
           p.for = "call" => applied'[p.call] = v /\ 0 < v
    PROVE  QueueStep(d)
<1> DEFINE e == [version |-> v, purpose |-> p]
<1>1. e \in Entries /\ e.version = v /\ e.purpose = p
  BY DEF Entries
<1>2. queue'[c] = Append(queue[c], e) /\ \A b \in Clients \ {c} : queue'[b] = queue[b]
  BY EnqueueTypes
<1> HIDE DEF e
<1> QED
  BY <1>1, <1>2 DEF QueueStep

LEMMA QueueStepEnqueue ==
    ASSUME TypeInv, NEW c \in Clients, NEW d \in Clients, NEW v \in Versions, NEW p \in Purposes,
           Enqueue(c, v, p), canvas'[c] = v, p.for = "call" => applied'[p.call] = v /\ 0 < v
    PROVE  QueueStep(d)
<1>1. v \in Nat
  BY Numbers
<1>2. v <= v
  BY <1>1
<1>3. v <= canvas'[c]
  BY <1>2
<1> QED
  BY <1>3, QueueStepPosted

LEMMA SameIsNotLess ==
    ASSUME TypeInv
    PROVE  \A c \in Clients : /\ canvas[c] \in Nat /\ canvas[c] <= canvas[c]
                              /\ stored[c] \in Nat /\ stored[c] <= stored[c]
<1> SUFFICES ASSUME NEW c \in Clients
             PROVE  canvas[c] \in Nat /\ canvas[c] <= canvas[c] /\ stored[c] \in Nat /\ stored[c] <= stored[c]
  OBVIOUS
<1>1. canvas[c] \in Nat /\ stored[c] \in Nat
  BY Numbers DEF TypeInv
<1> QED
  BY <1>1

LEMMA RunForward ==
    ASSUME TypeInv, CanvasInv, NEW c \in Clients, NEW r \in Calls, applied[r] = 0, RunToolCall(c, r),
           UNCHANGED stored
    PROVE  Forward
<1>1. \A d \in Clients : canvas[d] \in Nat /\ stored[d] \in Nat
  BY Numbers DEF TypeInv
<1>2. CASE UNCHANGED <<queue, canvas, applied>>
  BY <1>1, <1>2 DEF Forward, QueueStep
<1>3. CASE /\ canvas' = [canvas EXCEPT ![c] = @ + 1]
           /\ applied' = [applied EXCEPT ![r] = canvas[c] + 1]
           /\ Enqueue(c, canvas[c] + 1, For("call", r, 0))
  <2> DEFINE v == canvas[c] + 1
  <2>1. /\ v \in Versions /\ applied'[r] = v /\ 0 < v
        /\ \A q \in Calls \ {r} : applied'[q] = applied[q]
    <3>1. /\ canvas[c] + 1 \in Versions /\ applied'[r] = canvas[c] + 1
          /\ \A q \in Calls \ {r} : applied'[q] = applied[q]
      BY <1>3, CallFits
    <3>2. 0 < canvas[c] + 1
      BY <1>1
    <3> QED
      BY <3>1, <3>2
  <2>2. canvas'[c] = v /\ \A d \in Clients : canvas'[d] = canvas[d] \/ canvas'[d] = canvas[d] + 1
    BY <1>3 DEF TypeInv
  <2> HIDE DEF v
  <2>3. For("call", r, 0) \in Purposes /\ For("call", r, 0).call = r
    BY PurposeFacts DEF For
  <2>4. \A d \in Clients : QueueStep(d)
    BY <1>3, <2>1, <2>2, <2>3, QueueStepEnqueue DEF v
  <2>5. \A d \in Clients : canvas[d] <= canvas'[d] /\ stored[d] <= stored'[d]
    BY <1>1, <2>2
  <2> QED
    BY <2>1, <2>4, <2>5 DEF Forward
<1> QED
  BY <1>2, <1>3 DEF RunToolCall

LEMMA StillForward ==
    ASSUME TypeInv, UNCHANGED <<queue, canvas, stored, applied>>
    PROVE  Forward
BY SameIsNotLess DEF Forward, QueueStep, TypeInv

\* The state of the head of the queue is stored or lost
LEMMA TakenForward ==
    ASSUME TypeInv, NEW c \in Clients, queue[c] # <<>>, queue' = [queue EXCEPT ![c] = Tail(@)],
           UNCHANGED <<canvas, applied>>, \A d \in Clients : stored[d] <= stored'[d]
    PROVE  Forward
BY SameIsNotLess DEF Forward, QueueStep, TypeInv

LEMMA NextForward ==
    ASSUME Core, TimerInv, [Next]_vars
    PROVE  Forward
<1> USE DEF Core
<1>1. CASE UNCHANGED vars
  BY <1>1, StillForward DEF vars, page, ghosts
<1>2. ASSUME NEW c \in Clients,
             \/ Enable(c) \/ Disconnect(c) \/ OpenEvents(c) \/ CloseEvents(c) \/ Reject(c) \/ Render(c)
      PROVE  Forward
  BY <1>2, StillForward DEF Enable, Disconnect, OpenEvents, CloseEvents, Reject, Render, page, ghosts
<1>3. ASSUME NEW r \in Calls, CallTool(r) \/ CallRefused(r) \/ CallTimesOut(r)
      PROVE  Forward
  BY <1>3, StillForward DEF CallTool, CallRefused, CallTimesOut, page, ghosts
<1>4. ASSUME NEW res \in results, ResultArrives(res) \/ ResultLost(res)
      PROVE  Forward
  BY <1>4, StillForward DEF ResultArrives, ResultLost, page, ghosts
<1>5. ASSUME NEW c \in Clients, Hello(c)
      PROVE  Forward
  <2>1. conn[c] # 0 /\ canvas[c] \in Versions
    BY <1>5 DEF Hello, StreamInv, StreamOk, TypeInv
  <2>2. For("hello", None, conn[c]) \in Purposes /\ For("hello", None, conn[c]).for # "call"
    BY <2>1, PurposeFacts DEF TypeInv, For
  <2>3. \A d \in Clients : QueueStep(d)
    BY <1>5, <2>1, <2>2, QueueStepEnqueue DEF Hello
  <2> QED
    BY <1>5, <2>3, SameIsNotLess DEF Hello, ghosts, Forward
<1>6. ASSUME NEW c \in Clients, EditTimerFires(c)
      PROVE  Forward
  <2>1. PICK v \in Versions : /\ v \in sync[c].timer
                              /\ Enqueue(c, v, TimerPurpose(c, v)) /\ TimerPurpose(c, v) \in Purposes
                              /\ TimerPurpose(c, v).for \in {"edit", "overtaken"}
                              /\ TimerPurpose(c, v).for = "edit" => v = canvas[c]
    BY <1>6, TimerPosts
  <2>2. canvas'[c] = canvas[c] /\ v <= canvas[c] /\ UNCHANGED <<canvas, stored, applied>>
    BY <1>6, <2>1 DEF EditTimerFires, ghosts, TimerInv
  <2>3. \A d \in Clients : QueueStep(d)
    BY <2>1, <2>2, QueueStepPosted
  <2> QED
    BY <2>2, <2>3, SameIsNotLess DEF Forward
<1>7. ASSUME NEW c \in Clients, HandleToolCall(c)
      PROVE  Forward
  <2> DEFINE r == Head(events[c])
  <2>1. events[c] \in Seq(Calls \union {"hello"}) /\ events[c] # <<>> /\ r \in Calls
    BY <1>7 DEF TypeInv, HandleToolCall
  <2>2. applied[r] = 0
    BY <2>1, TailFacts DEF PlaceInv, Asked
  <2>3. UNCHANGED stored /\ (UNCHANGED <<canvas, queue, applied>> \/ RunToolCall(c, r))
    BY <1>7 DEF HandleToolCall
  <2> HIDE DEF r
  <2> QED
    BY <2>1, <2>2, <2>3, RunForward, StillForward
<1>8. ASSUME NEW c \in Clients, Approve(c)
      PROVE  Forward
  <2>1. confirm[c] \in Calls /\ applied[confirm[c]] = 0
    BY <1>8 DEF Approve, TypeInv, PlaceInv, Asked
  <2> QED
    BY <1>8, <2>1, RunForward DEF Approve
<1>9. ASSUME NEW c \in Clients, Edit(c)
      PROVE  Forward
  <2>1. canvas \in [Clients -> Nat] /\ stored \in [Clients -> Nat]
    BY Numbers DEF TypeInv
  <2>2. canvas' = [canvas EXCEPT ![c] = @ + 1] /\ UNCHANGED <<queue, stored, applied>>
    BY <1>9 DEF Edit, ghosts
  <2>3. \A d \in Clients : canvas[d] <= canvas'[d] /\ stored[d] <= stored'[d]
    BY <2>1, <2>2
  <2> QED
    BY <2>2, <2>3 DEF Forward, QueueStep
<1>10. ASSUME NEW c \in Clients, StateStored(c)
       PROVE  Forward
  <2>1. Head(queue[c]).version \in Versions
    BY <1>10, HeadOfQueue DEF StateStored
  <2>2. \A d \in Clients : stored[d] <= stored'[d]
    BY <1>10, <2>1, UpdateStateTypes DEF StateStored
  <2> QED
    BY <1>10, <2>2, TakenForward DEF StateStored
<1>11. ASSUME NEW c \in Clients, StateLost(c)
       PROVE  Forward
  BY <1>11, SameIsNotLess, TakenForward DEF StateLost, ghosts
<1>12. ASSUME LateArrives
       PROVE  Forward
  <2>1. PICK p \in late : IF "state" \in DOMAIN p THEN UpdateState(p.state.client, p.state.version)
                          ELSE UNCHANGED stored
    BY <1>12 DEF LateArrives
  <2>2. p \in Requests
    BY DEF TypeInv
  <2>3. \A d \in Clients : stored[d] <= stored'[d]
    <3>1. CASE "state" \in DOMAIN p
      <4>1. p.state.client \in Clients /\ p.state.version \in Versions
        BY <2>2, <3>1, RequestFacts
      <4> QED
        BY <2>1, <3>1, <4>1, UpdateStateTypes
    <3>2. CASE "state" \notin DOMAIN p
      BY <2>1, <3>2, SameIsNotLess
    <3> QED
      BY <3>1, <3>2
  <2> QED
    BY <1>12, <2>3, SameIsNotLess DEF LateArrives, page, Forward, QueueStep
<1> QED
  BY <1>1, <1>2, <1>3, <1>4, <1>5, <1>6, <1>7, <1>8, <1>9, <1>10, <1>11, <1>12 DEF Next

LEMMA NextTimer ==
    ASSUME Core, Core', TimerInv, Forward, [Next]_vars
    PROVE  TimerInv'
<1> USE DEF Core
<1> SUFFICES ASSUME NEW d \in Clients
             PROVE  sync'[d].timer \subseteq sync[d].timer \union {canvas'[d]}
  <2> SUFFICES ASSUME NEW d \in Clients, NEW v \in sync'[d].timer
               PROVE  v <= canvas'[d]
    BY DEF TimerInv
  <2>1. v \in sync[d].timer \/ v = canvas'[d]
    OBVIOUS
  <2>2. canvas[d] \in Nat /\ canvas'[d] \in Nat /\ canvas[d] <= canvas'[d]
    BY Numbers DEF TypeInv, Forward
  <2>3. CASE v = canvas'[d]
    BY <2>2, <2>3
  <2>4. CASE v \in sync[d].timer
    <3>1. v <= canvas[d] /\ sync[d].timer \in Timers
      BY <2>4, SyncTypes DEF TimerInv
    <3>2. v \in Nat
      BY <2>4, <3>1, Numbers DEF Timers
    <3> QED
      BY <2>2, <3>1, <3>2
  <2> QED
    BY <2>1, <2>3, <2>4
<1>1. sync \in [Clients -> Syncing] /\ canvas \in [Clients -> Versions]
  BY DEF TypeInv
<1> DEFINE G == sync'[d].timer \subseteq sync[d].timer \union {canvas'[d]}
<1>2. UNCHANGED sync => G
  OBVIOUS
<1>3. ASSUME NEW c \in Clients, NEW r, RunToolCall(c, r)
      PROVE  G
  <2>1. CASE sync' = Arm(c, canvas[c] + 1) /\ canvas' = [canvas EXCEPT ![c] = @ + 1]
    BY <1>1, <2>1 DEF Arm, Syncing
  <2> QED
    BY <1>2, <1>3, <2>1 DEF RunToolCall
<1>4. ASSUME NEW c \in Clients, HandleToolCall(c)
      PROVE  G
  <2>1. (\E r \in Calls : RunToolCall(c, r)) \/ UNCHANGED sync
    BY <1>4 DEF HandleToolCall
  <2> QED
    BY <1>2, <1>3, <2>1
<1>5. ASSUME NEW c \in Clients, Approve(c)
      PROVE  G
  BY <1>3, <1>5 DEF Approve
<1>6. ASSUME NEW c \in Clients, Edit(c)
      PROVE  G
  BY <1>1, <1>6 DEF Edit, Syncing
<1>7. ASSUME NEW c \in Clients, Render(c) \/ EditTimerFires(c)
      PROVE  G
  BY <1>1, <1>7 DEF Render, EditTimerFires, Syncing
<1>8. ASSUME NEW c \in Clients, StateStored(c)
      PROVE  G
  <2>1. /\ UNCHANGED canvas
        /\ sync' = [sync EXCEPT ![c] =
                      [timer |-> IF connected' = connected THEN sync[c].timer ELSE {canvas[c]},
                       error |-> sync[c].error /\ Outdated(c, Head(queue[c]).purpose)]]
    BY <1>8 DEF StateStored, Continue
  <2>2. sync'[d].timer \in {sync[d].timer, {canvas[d]}}
    BY <1>1, <2>1 DEF Syncing
  <2> QED
    BY <2>1, <2>2
<1>9. ASSUME NEW c \in Clients, StateLost(c)
      PROVE  G
  <2>1. sync' = [sync EXCEPT ![c].error = @ \/ ~Outdated(c, Head(queue[c]).purpose)]
    BY <1>9 DEF StateLost
  <2>2. sync'[d].timer = sync[d].timer
    BY <1>1, <2>1 DEF Syncing
  <2> QED
    BY <2>2
<1>10. ASSUME NEW c \in Clients,
              \/ Enable(c) \/ Disconnect(c) \/ OpenEvents(c) \/ CloseEvents(c) \/ Hello(c) \/ Reject(c)
       PROVE  UNCHANGED sync
  BY <1>10 DEF Enable, Disconnect, OpenEvents, CloseEvents, Hello, Reject, page
<1>11. ASSUME NEW r \in Calls, CallTool(r) \/ CallRefused(r) \/ CallTimesOut(r)
       PROVE  UNCHANGED sync
  BY <1>11 DEF CallTool, CallRefused, CallTimesOut, page
<1>12. ASSUME NEW res \in results, ResultArrives(res) \/ ResultLost(res)
       PROVE  UNCHANGED sync
  BY <1>12 DEF ResultArrives, ResultLost, page
<1>13. LateArrives \/ UNCHANGED vars => UNCHANGED sync
  BY DEF LateArrives, vars, page
<1> HIDE DEF G
<1>14. G
  BY <1>2, <1>4, <1>5, <1>6, <1>7, <1>8, <1>9, <1>10, <1>11, <1>12, <1>13 DEF Next
<1> QED
  BY <1>14 DEF G

LEMMA InitTimer ==
    Init => TimerInv
BY DEF Init, NotSyncing, TimerInv

-----------------------------------------------------------------------------
(* The states of a page arrive in the order of its canvas.                 *)

\* A state that is posted in its order; that of a timer may have been overtaken.
InOrder(e) == e.purpose.for # "overtaken"

\* A version of the page that none of those in its queue is older than
Ordered(c, v) == v <= canvas[c] /\ \A i \in DOMAIN queue[c] : InOrder(queue[c][i]) => v <= queue[c][i].version

Sorted(c) ==
    /\ \A i, j \in DOMAIN queue[c] :
          i <= j /\ InOrder(queue[c][j]) => queue[c][i].version <= queue[c][j].version
    /\ \A i \in DOMAIN queue[c] : queue[c][i].version <= canvas[c]

OrderInv ==
    /\ \A c \in Clients : Sorted(c)
    /\ \A c \in Clients, v \in Nat : state.client = c /\ state.version = v => Ordered(c, v)
    /\ \A p \in late : "state" \in DOMAIN p => Ordered(p.state.client, p.state.version)

LEMMA QueueNumbers ==
    ASSUME TypeInv, NEW c \in Clients
    PROVE  /\ queue[c] \in Seq(Entries) /\ canvas[c] \in Nat
           /\ \A i \in DOMAIN queue[c] : queue[c][i].version \in Nat /\ i \in Nat \ {0}
<1>1. queue[c] \in Seq(Entries)
  BY DEF TypeInv
<1>2. \A i \in DOMAIN queue[c] : queue[c][i] \in Entries /\ i \in Nat \ {0}
  BY <1>1
<1>3. \A e \in Entries : e.version \in Nat
  BY Numbers DEF Entries
<1> QED
  BY <1>1, <1>2, <1>3, Numbers DEF TypeInv

LEMMA OrderedKept ==
    ASSUME TypeInv, TypeInv', Forward, NEW c \in Clients, NEW v \in Nat, Ordered(c, v)
    PROVE  Ordered(c, v)'
<1>1. /\ queue[c] \in Seq(Entries) /\ canvas[c] \in Nat /\ canvas'[c] \in Nat /\ canvas[c] <= canvas'[c]
      /\ QueueStep(c)
  BY QueueNumbers, Numbers DEF Forward, TypeInv
<1>2. v <= canvas'[c] /\ \A i \in DOMAIN queue[c] : InOrder(queue[c][i]) => v <= queue[c][i].version
  BY <1>1 DEF Ordered
<1>3. CASE queue'[c] = queue[c]
  BY <1>2, <1>3 DEF Ordered
<1>4. CASE queue[c] # <<>> /\ queue'[c] = Tail(queue[c])
  <2>1. \A i \in DOMAIN Tail(queue[c]) : i + 1 \in DOMAIN queue[c] /\ Tail(queue[c])[i] = queue[c][i + 1]
    BY <1>1, <1>4, TailFacts
  <2> QED
    BY <1>2, <1>4, <2>1 DEF Ordered
<1>5. ASSUME NEW e \in Entries, queue'[c] = Append(queue[c], e), InOrder(e) => e.version = canvas'[c]
      PROVE  Ordered(c, v)'
  <2>1. \A i \in DOMAIN Append(queue[c], e) :
          (i \in DOMAIN queue[c] /\ Append(queue[c], e)[i] = queue[c][i]) \/ Append(queue[c], e)[i] = e
    BY <1>1, AppendFacts
  <2> QED
    BY <1>2, <1>5, <2>1 DEF Ordered
<1> QED
  BY <1>1, <1>3, <1>4, <1>5 DEF QueueStep, InOrder

LEMMA SortedKept ==
    ASSUME TypeInv, TypeInv', Forward, NEW c \in Clients, Sorted(c)
    PROVE  Sorted(c)'
<1>1. /\ queue[c] \in Seq(Entries) /\ canvas[c] \in Nat /\ canvas'[c] \in Nat /\ canvas[c] <= canvas'[c]
      /\ QueueStep(c) /\ \A i \in DOMAIN queue[c] : queue[c][i].version \in Nat /\ i \in Nat \ {0}
  BY QueueNumbers, Numbers DEF Forward, TypeInv
<1>2. /\ \A i, j \in DOMAIN queue[c] :
            i <= j /\ InOrder(queue[c][j]) => queue[c][i].version <= queue[c][j].version
      /\ \A i \in DOMAIN queue[c] : queue[c][i].version <= canvas'[c]
  BY <1>1 DEF Sorted
<1>3. CASE queue'[c] = queue[c]
  BY <1>2, <1>3 DEF Sorted
<1>4. CASE queue[c] # <<>> /\ queue'[c] = Tail(queue[c])
  <2>1. \A i \in DOMAIN Tail(queue[c]) :
          i + 1 \in DOMAIN queue[c] /\ Tail(queue[c])[i] = queue[c][i + 1] /\ i \in Nat \ {0}
    BY <1>1, <1>4, TailFacts
  <2>2. ASSUME NEW i \in DOMAIN queue'[c], NEW j \in DOMAIN queue'[c], i <= j, InOrder(queue'[c][j])
        PROVE  queue'[c][i].version <= queue'[c][j].version
    <3>1. i + 1 <= j + 1
      BY <1>4, <2>1, <2>2
    <3> QED
      BY <1>2, <1>4, <2>1, <2>2, <3>1
  <2> QED
    BY <1>2, <1>4, <2>1, <2>2 DEF Sorted
<1>5. ASSUME NEW e \in Entries, queue'[c] = Append(queue[c], e), e.version <= canvas'[c],
             InOrder(e) => e.version = canvas'[c]
      PROVE  Sorted(c)'
  <2> DEFINE last == Len(queue[c]) + 1
  <2>1. /\ \A i \in DOMAIN Append(queue[c], e) :
             \/ i \in DOMAIN queue[c] /\ Append(queue[c], e)[i] = queue[c][i] /\ i < last
             \/ i = last /\ Append(queue[c], e)[i] = e
        /\ last \in Nat
    BY <1>1, AppendFacts
  <2> HIDE DEF last
  <2>2. ASSUME NEW i \in DOMAIN queue'[c], NEW j \in DOMAIN queue'[c], i <= j, InOrder(queue'[c][j])
        PROVE  queue'[c][i].version <= queue'[c][j].version
    <3>1. CASE j = last
      BY <1>1, <1>2, <1>5, <2>1, <2>2, <3>1
    <3>2. CASE j # last
      <4>1. i \in DOMAIN queue[c] /\ j \in DOMAIN queue[c] /\ queue'[c][i] = queue[c][i] /\ queue'[c][j] = queue[c][j]
        BY <1>1, <1>5, <2>1, <2>2, <3>2
      <4> QED
        BY <1>2, <2>2, <4>1
    <3> QED
      BY <3>1, <3>2
  <2>3. \A i \in DOMAIN queue'[c] : queue'[c][i].version <= canvas'[c]
    BY <1>1, <1>2, <1>5, <2>1
  <2> QED
    BY <2>2, <2>3 DEF Sorted
<1> QED
  BY <1>1, <1>3, <1>4, <1>5 DEF QueueStep, InOrder

\* The head of the queue is older than what follows it.
LEMMA HeadIsOrdered ==
    ASSUME TypeInv, NEW c \in Clients, Sorted(c), queue[c] # <<>>
    PROVE  Head(queue[c]).version \in Nat /\ Ordered(c, Head(queue[c]).version)
<1>1. 1 \in DOMAIN queue[c] /\ Head(queue[c]) = queue[c][1] /\ Head(queue[c]).version \in Versions
  BY HeadOfQueue
<1>2. \A i \in DOMAIN queue[c] : i \in Nat \ {0} /\ 1 <= i
  BY QueueNumbers
<1> QED
  BY <1>1, <1>2, Numbers DEF Sorted, Ordered

LEMMA OrderKept ==
    ASSUME TypeInv, TypeInv', OrderInv, Forward,
           \/ state' = state
           \/ state'.client = None
           \/ \E c \in Clients, v \in Nat : state' = [client |-> c, version |-> v] /\ Ordered(c, v),
           \A p \in late' : \/ p \in late
                            \/ "state" \notin DOMAIN p
                            \/ p.state.version \in Nat /\ Ordered(p.state.client, p.state.version)
    PROVE  OrderInv'
<1>1. \A c \in Clients : Sorted(c)'
  BY SortedKept DEF OrderInv
<1>2. ASSUME NEW p \in late', "state" \in DOMAIN p
      PROVE  Ordered(p.state.client, p.state.version)'
  <2>1. p \in Requests
    BY DEF TypeInv
  <2>2. p.state.client \in Clients /\ p.state.version \in Nat
    BY <1>2, <2>1, RequestFacts, Numbers
  <2>3. Ordered(p.state.client, p.state.version)
    BY <1>2 DEF OrderInv
  <2> QED
    BY <2>2, <2>3, OrderedKept
<1>3. ASSUME NEW c \in Clients, NEW v \in Nat, state'.client = c, state'.version = v
      PROVE  Ordered(c, v)'
  <2>1. Ordered(c, v)
    BY <1>3, ConstantsOK DEF OrderInv
  <2> QED
    BY <2>1, OrderedKept
<1> QED
  BY <1>1, <1>2, <1>3 DEF OrderInv

LEMMA NextOrder ==
    ASSUME Core, Core', Forward, OrderInv, [Next]_vars
    PROVE  OrderInv'
<1> USE DEF Core
<1>1. CASE UNCHANGED <<state, late>>
  BY <1>1, OrderKept
<1>2. ASSUME NEW c \in Clients, CloseEvents(c)
      PROVE  OrderInv'
  <2>1. UNCHANGED late /\ (state' = state \/ state'.client = None)
    BY <1>2 DEF CloseEvents, NoState
  <2> QED
    BY <2>1, OrderKept
<1>3. ASSUME NEW c \in Clients, StateStored(c)
      PROVE  OrderInv'
  <2>1. Head(queue[c]).version \in Nat /\ Ordered(c, Head(queue[c]).version)
    BY <1>3, HeadIsOrdered DEF StateStored, OrderInv
  <2>2. UNCHANGED late /\ state' = [client |-> c, version |-> Head(queue[c]).version]
    BY <1>3 DEF StateStored, UpdateState
  <2> QED
    BY <2>1, <2>2, OrderKept
<1>4. ASSUME NEW c \in Clients, StateLost(c)
      PROVE  OrderInv'
  <2> DEFINE v == Head(queue[c]).version
             q == [state |-> [client |-> c, version |-> v]]
  <2>1. v \in Nat /\ Ordered(c, v)
    BY <1>4, HeadIsOrdered DEF StateLost, OrderInv
  <2>2. state' = state /\ late' = late \union {q}
    BY <1>4 DEF StateLost, Lose, server
  <2>3. q.state.client = c /\ q.state.version = v
    OBVIOUS
  <2> HIDE DEF q, v
  <2>4. \A p \in late' : p \in late \/ (p.state.version \in Nat /\ Ordered(p.state.client, p.state.version))
    BY <2>1, <2>2, <2>3
  <2> QED
    BY <2>2, <2>4, OrderKept
<1>5. ASSUME NEW res \in results, ResultLost(res)
      PROVE  OrderInv'
  <2>1. UNCHANGED state /\ late' = late \union {[result |-> res]} /\ "state" \notin DOMAIN [result |-> res]
    BY <1>5 DEF ResultLost, Lose, server
  <2> QED
    BY <2>1, OrderKept
<1>6. ASSUME LateArrives
      PROVE  OrderInv'
  <2>1. PICK p \in late :
          /\ late' = late \ {p}
          /\ IF "state" \in DOMAIN p THEN UpdateState(p.state.client, p.state.version) ELSE UNCHANGED state
    BY <1>6 DEF LateArrives
  <2>2. p \in Requests /\ \A q \in late' : q \in late
    BY <2>1 DEF TypeInv
  <2>3. CASE "state" \in DOMAIN p
    <3>1. p.state.client \in Clients /\ p.state.version \in Nat
      BY <2>2, <2>3, RequestFacts, Numbers
    <3>2. Ordered(p.state.client, p.state.version)
      BY <2>3 DEF OrderInv
    <3>3. state' = [client |-> p.state.client, version |-> p.state.version]
      BY <2>1, <2>3 DEF UpdateState
    <3> QED
      BY <2>2, <3>1, <3>2, <3>3, OrderKept
  <2>4. CASE "state" \notin DOMAIN p
    BY <2>1, <2>2, <2>4, OrderKept
  <2> QED
    BY <2>3, <2>4
<1>7. ASSUME NEW c \in Clients,
             \/ Enable(c) \/ Disconnect(c) \/ OpenEvents(c) \/ Hello(c) \/ HandleToolCall(c)
             \/ Approve(c) \/ Reject(c) \/ Edit(c) \/ Render(c) \/ EditTimerFires(c)
      PROVE  UNCHANGED <<state, late>>
  BY <1>7 DEF Enable, Disconnect, OpenEvents, Hello, HandleToolCall, Approve, Reject, Edit, Render,
              EditTimerFires, server
<1>8. ASSUME NEW r \in Calls, CallTool(r) \/ CallRefused(r) \/ CallTimesOut(r)
      PROVE  UNCHANGED <<state, late>>
  BY <1>8 DEF CallTool, CallRefused, CallTimesOut
<1>9. ASSUME NEW res \in results, ResultArrives(res)
      PROVE  UNCHANGED <<state, late>>
  BY <1>9 DEF ResultArrives
<1>10. UNCHANGED vars => UNCHANGED <<state, late>>
  BY DEF vars, server
<1> QED
  BY <1>1, <1>2, <1>3, <1>4, <1>5, <1>6, <1>7, <1>8, <1>9, <1>10 DEF Next

LEMMA InitOrder ==
    Init => OrderInv
<1> SUFFICES ASSUME Init PROVE OrderInv
  OBVIOUS
<1>1. \A c \in Clients : Sorted(c)
  <2> SUFFICES ASSUME NEW c \in Clients PROVE Sorted(c)
    OBVIOUS
  <2>1. DOMAIN queue[c] = {}
    BY DEF Init
  <2> QED
    BY <2>1 DEF Sorted
<1>2. state.client \notin Clients /\ late = {}
  BY ConstantsOK DEF Init, NoState
<1> QED
  BY <1>1, <1>2 DEF OrderInv

\* The server replaces the canvas of a page by an older one of that page only
\* when a request arrives that the page had given up, or when it answers the
\* post of a timer that a tool call had overtaken (updateState).
THEOREM StateCorrect ==
    Spec => StateMovesForward
<1>1. Core /\ TimerInv /\ OrderInv /\ [Next]_vars => (Core /\ TimerInv /\ OrderInv)'
  BY NextCore, NextForward, NextTimer, NextOrder
<1>2. Core /\ TimerInv /\ OrderInv /\ [Next]_vars
      => [state.client # None /\ state'.client = state.client /\ state'.version < state.version
          => late' # late \/ Overtaken(state.client)]_vars
  <2> SUFFICES ASSUME Core, OrderInv, [Next]_vars,
                      state.client # None, state'.client = state.client, state'.version < state.version,
                      UNCHANGED late, ~Overtaken(state.client)
               PROVE  FALSE
    OBVIOUS
  <2> USE DEF Core
  <2>1. state.client \in Clients /\ state.version \in Nat /\ ~(state.version < state.version)
    <3>1. state.client \in Clients /\ state.version \in Nat
      BY Numbers DEF TypeInv
    <3> QED
      BY <3>1
  <2>2. state' # state
    BY <2>1
  <2>3. ASSUME NEW c \in Clients, CloseEvents(c)
        PROVE  FALSE
    BY <2>3, <2>2 DEF CloseEvents, NoState
  <2>4. ASSUME NEW c \in Clients, StateStored(c)
        PROVE  FALSE
    <3>1. queue[c] # <<>> /\ state' = [client |-> c, version |-> Head(queue[c]).version]
      BY <2>4 DEF StateStored, UpdateState
    <3>2. state.client = c
      BY <3>1
    <3>3. Ordered(c, state.version)
      BY <2>1, <3>2 DEF OrderInv
    <3>4. 1 \in DOMAIN queue[c] /\ Head(queue[c]) = queue[c][1]
      BY <3>1, HeadOfQueue
    <3>5. state.version <= state'.version /\ state'.version \in Nat
      BY <3>1, <3>2, <3>3, <3>4, QueueNumbers DEF Ordered, InOrder, Overtaken
    <3> QED
      BY <2>1, <3>5
  <2>5. ASSUME LateArrives
        PROVE  FALSE
    BY <2>5 DEF LateArrives
  <2>6. ASSUME NEW c \in Clients,
               \/ Enable(c) \/ Disconnect(c) \/ OpenEvents(c) \/ Hello(c) \/ HandleToolCall(c)
               \/ Approve(c) \/ Reject(c) \/ Edit(c) \/ Render(c) \/ EditTimerFires(c) \/ StateLost(c)
        PROVE  state' = state
    BY <2>6 DEF Enable, Disconnect, OpenEvents, Hello, HandleToolCall, Approve, Reject, Edit, Render,
                EditTimerFires, StateLost, server
  <2>7. ASSUME NEW r \in Calls, CallTool(r) \/ CallRefused(r) \/ CallTimesOut(r)
        PROVE  state' = state
    BY <2>7 DEF CallTool, CallRefused, CallTimesOut
  <2>8. ASSUME NEW res \in results, ResultArrives(res) \/ ResultLost(res)
        PROVE  state' = state
    BY <2>8 DEF ResultArrives, ResultLost, server
  <2>9. UNCHANGED vars => state' = state
    BY DEF vars, server
  <2> QED
    BY <2>2, <2>3, <2>4, <2>5, <2>6, <2>7, <2>8, <2>9 DEF Next
<1> QED
  BY <1>1, <1>2, InitCore, InitTimer, InitOrder, PTL DEF Spec, StateMovesForward

-----------------------------------------------------------------------------
(* A result is backed by a state that the server has.                      *)

Backed(res) == res.why = "done" => 0 < applied[res.call] /\ applied[res.call] <= stored[res.from]

\* The canvas that the call produced has been stored.
Stored(r) == \E c \in Clients : 0 < applied[r] /\ applied[r] <= stored[c]

\* A call waits in the queue with the version that it produced.
QueueBacked(c) ==
    \A i \in DOMAIN queue[c] : queue[c][i].purpose.for = "call" =>
        applied[queue[c][i].purpose.call] = queue[c][i].version /\ 0 < queue[c][i].version

BackedInv ==
    /\ \A c \in Clients : QueueBacked(c)
    /\ \A res \in results : Backed(res)
    /\ \A p \in late : "result" \in DOMAIN p => Backed(p.result)
    /\ \A r \in Calls : call[r] = "ok" => Stored(r)

LEMMA BackedForward ==
    ASSUME TypeInv, TypeInv', Forward
    PROVE  /\ \A res \in Results : Backed(res) => Backed(res)'
           /\ \A r \in Calls : Stored(r) => Stored(r)'
<1>1. ASSUME NEW r \in Calls, NEW c \in Clients, 0 < applied[r], applied[r] <= stored[c]
      PROVE  0 < applied'[r] /\ applied'[r] <= stored'[c]
  <2>1. applied[r] \in Nat /\ stored[c] \in Nat /\ stored'[c] \in Nat
    BY Numbers DEF TypeInv
  <2>2. applied'[r] = applied[r] /\ stored[c] <= stored'[c]
    BY <1>1, <2>1 DEF Forward
  <2> QED
    BY <1>1, <2>1, <2>2
<1> QED
  BY <1>1, ResultFacts DEF Backed, Stored

LEMMA QueueBackedKept ==
    ASSUME TypeInv, TypeInv', Forward, NEW c \in Clients, QueueBacked(c)
    PROVE  QueueBacked(c)'
<1>1. queue[c] \in Seq(Entries) /\ QueueStep(c)
  BY DEF TypeInv, Forward
<1>2. ASSUME NEW i \in DOMAIN queue[c], queue[c][i].purpose.for = "call"
      PROVE  applied'[queue[c][i].purpose.call] = queue[c][i].version /\ 0 < queue[c][i].version
  <2>1. queue[c][i] \in Entries
    BY <1>1
  <2>2. queue[c][i].purpose.call \in Calls /\ queue[c][i].version \in Nat
    BY <1>2, <2>1, PurposeFacts, Numbers DEF Entries
  <2>3. applied[queue[c][i].purpose.call] = queue[c][i].version /\ 0 < queue[c][i].version
    BY <1>2 DEF QueueBacked
  <2> QED
    BY <2>2, <2>3 DEF Forward
<1>3. CASE queue'[c] = queue[c]
  BY <1>2, <1>3 DEF QueueBacked
<1>4. CASE queue[c] # <<>> /\ queue'[c] = Tail(queue[c])
  <2>1. \A i \in DOMAIN Tail(queue[c]) : i + 1 \in DOMAIN queue[c] /\ Tail(queue[c])[i] = queue[c][i + 1]
    BY <1>1, <1>4, TailFacts
  <2> QED
    BY <1>2, <1>4, <2>1 DEF QueueBacked
<1>5. ASSUME NEW e \in Entries, queue'[c] = Append(queue[c], e),
             e.purpose.for = "call" => applied'[e.purpose.call] = e.version /\ 0 < e.version
      PROVE  QueueBacked(c)'
  <2>1. \A i \in DOMAIN Append(queue[c], e) :
          (i \in DOMAIN queue[c] /\ Append(queue[c], e)[i] = queue[c][i]) \/ Append(queue[c], e)[i] = e
    BY <1>1, AppendFacts
  <2> QED
    BY <1>2, <1>5, <2>1 DEF QueueBacked
<1> QED
  BY <1>1, <1>3, <1>4, <1>5 DEF QueueStep

LEMMA BackedKept ==
    ASSUME TypeInv, TypeInv', Forward, BackedInv,
           \A res \in results' : res \in results \/ Backed(res)',
           \A p \in late' : p \in late \/ "result" \notin DOMAIN p \/ Backed(p.result),
           \A r \in Calls : call'[r] = "ok" => call[r] = "ok" \/ Stored(r)
    PROVE  BackedInv'
<1>1. \A c \in Clients : QueueBacked(c)'
  BY QueueBackedKept DEF BackedInv
<1>2. \A res \in results' : Backed(res)'
  BY BackedForward DEF BackedInv, TypeInv
<1>3. ASSUME NEW p \in late', "result" \in DOMAIN p
      PROVE  Backed(p.result)'
  <2>1. p \in Requests
    BY DEF TypeInv
  <2>2. p.result \in Results /\ Backed(p.result)
    BY <1>3, <2>1, RequestFacts DEF BackedInv
  <2> QED
    BY <2>2, BackedForward
<1>4. \A r \in Calls : call'[r] = "ok" => Stored(r)'
  BY BackedForward DEF BackedInv
<1> QED
  BY <1>1, <1>2, <1>3, <1>4 DEF BackedInv

LEMMA ResolveIsBacked ==
    ASSUME TypeInv, NEW res \in Results, ResolveResult(res), Backed(res)
    PROVE  \A r \in Calls : call'[r] = "ok" => call[r] = "ok" \/ Stored(r)
<1>1. res.call \in Calls /\ res.from \in Clients
  BY ResultFacts
<1>2. res.why = "done" => Stored(res.call)
  BY <1>1 DEF Backed, Stored
<1> QED
  BY <1>1, <1>2 DEF ResolveResult, TypeInv

LEMMA RunResults ==
    ASSUME NEW c \in Clients, NEW r \in Calls, RunToolCall(c, r)
    PROVE  \A res \in results' : res \in results \/ res.why # "done"
BY DEF RunToolCall

LEMMA NextBacked ==
    ASSUME Core, Core', Forward, BackedInv, [Next]_vars
    PROVE  BackedInv'
<1> USE DEF Core
<1>1. CASE /\ UNCHANGED late
           /\ \A res \in results' : res \in results \/ res.why # "done"
           /\ \A r \in Calls : call'[r] = "ok" => call[r] = "ok"
  <2>1. \A res \in results' : res \in results \/ Backed(res)'
    BY <1>1 DEF Backed
  <2> QED
    BY <1>1, <2>1, BackedKept
<1>2. ASSUME NEW c \in Clients,
             \/ Enable(c) \/ Disconnect(c) \/ OpenEvents(c) \/ CloseEvents(c) \/ Hello(c)
             \/ Edit(c) \/ Render(c) \/ EditTimerFires(c)
      PROVE  UNCHANGED <<late, results, call>>
  BY <1>2 DEF Enable, Disconnect, OpenEvents, CloseEvents, Hello, Edit, Render, EditTimerFires, server
<1>3. ASSUME NEW c \in Clients, HandleToolCall(c)
      PROVE  /\ UNCHANGED <<late, call>>
             /\ \A res \in results' : res \in results \/ res.why # "done"
  BY <1>3, RunResults DEF HandleToolCall, server
<1>4. ASSUME NEW c \in Clients, Approve(c)
      PROVE  /\ UNCHANGED <<late, call>>
             /\ \A res \in results' : res \in results \/ res.why # "done"
  BY <1>4, RunResults DEF Approve, server, TypeInv
<1>5. ASSUME NEW c \in Clients, Reject(c)
      PROVE  /\ UNCHANGED <<late, call>>
             /\ \A res \in results' : res \in results \/ res.why # "done"
  BY <1>5 DEF Reject, Rejections, server
<1>6. ASSUME NEW r \in Calls, CallTool(r) \/ CallRefused(r) \/ CallTimesOut(r)
      PROVE  UNCHANGED <<late, results>> /\ \A q \in Calls : call'[q] = "ok" => call[q] = "ok"
  BY <1>6 DEF CallTool, CallRefused, CallTimesOut, TypeInv
<1>7. UNCHANGED vars => UNCHANGED <<late, results, call>>
  BY DEF vars, server
<1>8. ASSUME NEW c \in Clients, StateStored(c)
      PROVE  BackedInv'
  <2> DEFINE p == Head(queue[c]).purpose
             v == Head(queue[c]).version
             new == [call |-> p.call, why |-> "done", from |-> c]
  <2>1. /\ queue[c] # <<>> /\ UNCHANGED <<late, call>>
        /\ \A res \in results' : res \in results \/ (p.for = "call" /\ res = new)
        /\ UpdateState(c, v)
    BY <1>8 DEF StateStored, Continue
  <2>2. /\ 1 \in DOMAIN queue[c] /\ queue[c][1].purpose = p /\ queue[c][1].version = v /\ v \in Versions
        /\ p \in Purposes
    BY <2>1, HeadOfQueue
  <2>3. v <= stored'[c] /\ v \in Nat
    BY <2>1, <2>2, UpdateStateTypes, Numbers
  <2>4. p.for = "call" => applied[p.call] = v /\ 0 < v /\ p.call \in Calls
    BY <2>2, PurposeFacts DEF BackedInv, QueueBacked
  <2>5. p.for = "call" => applied'[p.call] = v
    BY <2>3, <2>4 DEF Forward
  <2>6. new.call = p.call /\ new.from = c
    OBVIOUS
  <2> HIDE DEF new, p, v
  <2>7. ASSUME NEW res \in results', res \notin results
        PROVE  Backed(res)'
    <3>1. res.call = p.call /\ res.from = c /\ p.for = "call"
      BY <2>1, <2>6, <2>7
    <3> QED
      BY <2>3, <2>4, <2>5, <3>1 DEF Backed
  <2> QED
    BY <2>1, <2>7, BackedKept
<1>9. ASSUME NEW c \in Clients, StateLost(c)
      PROVE  BackedInv'
  <2>1. UNCHANGED call /\ \A res \in results' : res \in results \/ res.why = "failed"
    BY <1>9 DEF StateLost, server
  <2>2. late' = late \union {[state |-> [client |-> c, version |-> Head(queue[c]).version]]}
    BY <1>9 DEF StateLost, Lose
  <2>3. \A p \in late' : p \in late \/ "result" \notin DOMAIN p
    BY <2>2
  <2>4. \A res \in results' : res \in results \/ Backed(res)'
    BY <2>1 DEF Backed
  <2> QED
    BY <2>1, <2>3, <2>4, BackedKept
<1>10. ASSUME NEW res \in results, ResultArrives(res)
       PROVE  BackedInv'
  <2>1. res \in Results /\ Backed(res) /\ ResolveResult(res) /\ UNCHANGED late /\ results' \subseteq results
    BY <1>10 DEF ResultArrives, TypeInv, BackedInv
  <2> QED
    BY <2>1, ResolveIsBacked, BackedKept
<1>11. ASSUME NEW res \in results, ResultLost(res)
       PROVE  BackedInv'
  <2>1. res \in Results /\ Backed(res) /\ UNCHANGED call /\ late' = late \union {[result |-> res]}
    BY <1>11 DEF ResultLost, Lose, server, TypeInv, BackedInv
  <2>2. \A r \in results' : r \in results \/ r.why = "failed"
    BY <1>11, <2>1, ResultFacts DEF ResultLost
  <2>3. \A r \in results' : r \in results \/ Backed(r)'
    BY <2>2 DEF Backed
  <2>4. [result |-> res].result = res
    OBVIOUS
  <2>5. \A p \in late' : p \in late \/ Backed(p.result)
    BY <2>1, <2>4
  <2> QED
    BY <2>1, <2>3, <2>5, BackedKept
<1>12. ASSUME LateArrives
       PROVE  BackedInv'
  <2>1. PICK p \in late :
          /\ late' = late \ {p} /\ UNCHANGED results
          /\ IF "state" \in DOMAIN p THEN UNCHANGED call ELSE ResolveResult(p.result)
    BY <1>12 DEF LateArrives
  <2>2. p \in Requests
    BY DEF TypeInv
  <2>3. CASE "state" \in DOMAIN p
    BY <2>1, <2>3, BackedKept
  <2>4. CASE "state" \notin DOMAIN p
    <3>1. p.result \in Results /\ Backed(p.result)
      BY <2>2, <2>4, RequestFacts DEF BackedInv
    <3>2. \A r \in Calls : call'[r] = "ok" => call[r] = "ok" \/ Stored(r)
      BY <2>1, <2>4, <3>1, ResolveIsBacked
    <3> QED
      BY <2>1, <3>2, BackedKept
  <2> QED
    BY <2>3, <2>4
<1> QED
  BY <1>1, <1>2, <1>3, <1>4, <1>5, <1>6, <1>7, <1>8, <1>9, <1>10, <1>11, <1>12 DEF Next

LEMMA InitBacked ==
    Init => BackedInv
<1> SUFFICES ASSUME Init PROVE BackedInv
  OBVIOUS
<1>1. \A c \in Clients : DOMAIN queue[c] = {}
  BY DEF Init
<1> QED
  BY <1>1 DEF Init, BackedInv, QueueBacked

\* The agent is told that its operations are done only when the server has had
\* the canvas they produced (runToolCall, resolveResult).
THEOREM ResultCorrect ==
    Spec => []ResultAfterState
<1>1. BackedInv => ResultAfterState
  BY DEF BackedInv, Stored, ResultAfterState
<1>2. Core /\ TimerInv /\ BackedInv /\ [Next]_vars => (Core /\ TimerInv /\ BackedInv)'
  BY NextCore, NextForward, NextTimer, NextBacked
<1> QED
  BY <1>1, <1>2, InitCore, InitTimer, InitBacked, PTL DEF Spec

-----------------------------------------------------------------------------
(* No call is forgotten.                                                   *)

Enabled == {c \in Clients : conn[c] # 0}

\* No stream was ever closed.
Whole == count.streams = Cardinality(Enabled)

Calm == Whole /\ count.lost = 0

CountInv == Cardinality(Enabled) <= count.streams /\ (count.lost = 0 => late = {})

\* As long as no stream was closed, a page has one stream at most, its own.
OneStreamInv == Whole => \A c \in Clients : opening[c] \union sockets[c] \subseteq {conn[c]} \ {0}

UnderwayInv == Calm => \A r \in pending \ swept : \E c \in Clients : Underway(c, r)

CallInv == CountInv /\ OneStreamInv /\ UnderwayInv

LEMMA EnabledIsFinite ==
    IsFiniteSet(Enabled) /\ Cardinality(Enabled) \in Nat /\ IsFiniteSet(Enabled') /\ Cardinality(Enabled') \in Nat
<1>1. Enabled \subseteq Clients /\ Enabled' \subseteq Clients
  BY DEF Enabled
<1> QED
  BY <1>1, ConstantsOK, FS_Subset, FS_CardinalityType

\* What a step does to the connection of the pages
ConnStep ==
    \/ conn' = conn /\ count'.streams = count.streams
    \/ \E c \in Clients : /\ conn[c] = 0 /\ conn' = [conn EXCEPT ![c] = count.streams + 1]
                          /\ count'.streams = count.streams + 1
    \/ \E c \in Clients : /\ conn[c] # 0 /\ conn' = [conn EXCEPT ![c] = 0]
                          /\ count'.streams = count.streams

LEMMA ConnCounts ==
    ASSUME TypeInv, ConnStep, Cardinality(Enabled) <= count.streams
    PROVE  /\ Cardinality(Enabled') <= count'.streams
           /\ Whole' => Whole /\ \A c \in Clients : conn[c] # 0 => conn'[c] = conn[c]
<1>1. count.streams \in Nat /\ Cardinality(Enabled) \in Nat /\ IsFiniteSet(Enabled)
  BY EnabledIsFinite, Numbers DEF TypeInv
<1>2. CASE conn' = conn /\ count'.streams = count.streams
  BY <1>2 DEF Whole, Enabled
<1>3. ASSUME NEW c \in Clients, conn[c] = 0, conn' = [conn EXCEPT ![c] = count.streams + 1],
             count'.streams = count.streams + 1
      PROVE  /\ Cardinality(Enabled') <= count'.streams
             /\ Whole' => Whole /\ \A d \in Clients : conn[d] # 0 => conn'[d] = conn[d]
  <2>1. \A d \in Clients : conn'[d] = IF d = c THEN count.streams + 1 ELSE conn[d]
    BY <1>3 DEF TypeInv
  <2>2. Enabled' = Enabled \union {c} /\ c \notin Enabled
    BY <1>1, <1>3, <2>1 DEF Enabled
  <2>3. Cardinality(Enabled') = Cardinality(Enabled) + 1
    BY <1>1, <2>2, FS_AddElement
  <2> QED
    BY <1>1, <1>3, <2>1, <2>3 DEF Whole
<1>4. ASSUME NEW c \in Clients, conn[c] # 0, conn' = [conn EXCEPT ![c] = 0], count'.streams = count.streams
      PROVE  Cardinality(Enabled') <= count'.streams /\ ~Whole'
  <2>1. \A d \in Clients : conn'[d] = IF d = c THEN 0 ELSE conn[d]
    BY <1>4 DEF TypeInv
  <2>2. Enabled' = Enabled \ {c} /\ c \in Enabled
    BY <1>4, <2>1 DEF Enabled
  <2>3. Cardinality(Enabled') = Cardinality(Enabled) - 1
    BY <1>1, <2>2, FS_RemoveElement
  <2> QED
    BY <1>1, <1>4, <2>3 DEF Whole
<1> QED
  BY <1>2, <1>3, <1>4 DEF ConnStep

LEMMA NextConn ==
    ASSUME TypeInv, [Next]_vars
    PROVE  ConnStep /\ swept \subseteq swept' /\ (count'.lost = 0 => count.lost = 0 /\ late' \subseteq late)
<1> DEFINE G == ConnStep /\ swept \subseteq swept' /\ (count'.lost = 0 => count.lost = 0 /\ late' \subseteq late)
<1>1. count.lost \in Nat /\ count \in [edits : 0 .. MaxEdits, streams : 0 .. MaxConnections, lost : 0 .. MaxLost]
  BY Numbers DEF TypeInv
<1>2. ASSUME NEW c \in Clients,
             \/ OpenEvents(c) \/ CloseEvents(c) \/ Hello(c) \/ HandleToolCall(c)
             \/ Approve(c) \/ Render(c) \/ EditTimerFires(c) \/ StateStored(c)
      PROVE  G
  <2>1. UNCHANGED <<conn, count, late, swept>>
    BY <1>2 DEF OpenEvents, CloseEvents, Hello, HandleToolCall, Approve, Render, EditTimerFires, StateStored,
                stream, ghosts
  <2> QED
    BY <2>1 DEF ConnStep
<1>3. ASSUME NEW c \in Clients, Enable(c)
      PROVE  G
  BY <1>1, <1>3 DEF Enable, ConnStep, ghosts
<1>4. ASSUME NEW c \in Clients, Disconnect(c)
      PROVE  G
  BY <1>4 DEF Disconnect, Closed, ConnStep, ghosts
<1>5. ASSUME NEW c \in Clients, Edit(c) \/ Reject(c)
      PROVE  G
  <2>1. count'.lost = count.lost /\ count'.streams = count.streams
    BY <1>5, AskTypes DEF Edit, Reject
  <2> QED
    BY <1>5, <2>1 DEF Edit, Reject, ConnStep, stream, ghosts
<1>6. ASSUME NEW r \in Calls, CallTool(r) \/ CallRefused(r) \/ CallTimesOut(r)
      PROVE  G
  BY <1>6 DEF CallTool, CallRefused, CallTimesOut, ConnStep, stream, ghosts
<1>7. ASSUME NEW c \in Clients, StateLost(c)
      PROVE  G
  <2>1. BridgeFails(c) \/ UNCHANGED conn
    BY <1>7 DEF StateLost
  <2>2. count'.lost = count.lost + 1 /\ count'.streams = count.streams /\ UNCHANGED swept
    BY <1>1, <1>7 DEF StateLost, Lose, ghosts
  <2> QED
    BY <1>1, <2>1, <2>2 DEF BridgeFails, Closed, ConnStep
<1>8. ASSUME NEW res \in results, ResultLost(res)
      PROVE  G
  <2>1. (BridgeFails(res.from) \/ UNCHANGED conn) /\ res.from \in Clients
    BY <1>8, ResultFacts DEF ResultLost, TypeInv
  <2>2. count'.lost = count.lost + 1 /\ count'.streams = count.streams /\ UNCHANGED swept
    BY <1>1, <1>8 DEF ResultLost, Lose, ghosts
  <2> QED
    BY <1>1, <2>1, <2>2 DEF BridgeFails, Closed, ConnStep
<1>9. ASSUME NEW res \in results, ResultArrives(res)
      PROVE  G
  <2>1. (BridgeFails(res.from) \/ UNCHANGED conn) /\ res.from \in Clients
    BY <1>9, ResultFacts DEF ResultArrives, TypeInv
  <2>2. UNCHANGED <<count, late>> /\ swept \subseteq swept'
    BY <1>9 DEF ResultArrives
  <2> QED
    BY <2>1, <2>2 DEF BridgeFails, Closed, ConnStep
<1>10. ASSUME LateArrives
       PROVE  G
  BY <1>10 DEF LateArrives, ConnStep, stream
<1>11. CASE UNCHANGED vars
  BY <1>11 DEF vars, stream, ghosts, ConnStep
<1> QED
  BY <1>2, <1>3, <1>4, <1>5, <1>6, <1>7, <1>8, <1>9, <1>10, <1>11 DEF Next

\* What CallInv needs of a step: Calm is never reached again.
LEMMA CalmBefore ==
    ASSUME TypeInv, CountInv, [Next]_vars
    PROVE  /\ CountInv'
           /\ Whole' => Whole /\ \A c \in Clients : conn[c] # 0 => conn'[c] = conn[c]
           /\ Calm' => Calm /\ late = {} /\ late' = {}
<1>1. ConnStep /\ swept \subseteq swept' /\ (count'.lost = 0 => count.lost = 0 /\ late' \subseteq late)
  BY NextConn
<1>2. /\ Cardinality(Enabled') <= count'.streams
      /\ Whole' => Whole /\ \A c \in Clients : conn[c] # 0 => conn'[c] = conn[c]
  BY <1>1, ConnCounts DEF CountInv
<1> QED
  BY <1>1, <1>2 DEF CountInv, Calm

LEMMA NextOneStream ==
    ASSUME Core, CountInv, OneStreamInv, [Next]_vars
    PROVE  OneStreamInv'
<1> SUFFICES ASSUME Whole', NEW c \in Clients, NEW n \in opening'[c] \union sockets'[c]
             PROVE  n = conn'[c] /\ n # 0
  BY DEF OneStreamInv
<1>1. Whole /\ \A d \in Clients : conn[d] # 0 => conn'[d] = conn[d]
  BY CalmBefore DEF Core
<1>2. \A d \in Clients : \A m \in opening[d] \union sockets[d] : m = conn[d] /\ m # 0
  BY <1>1 DEF OneStreamInv
<1>3. CASE n \in opening[c] \union sockets[c]
  BY <1>1, <1>2, <1>3
<1>4. CASE n \notin opening[c] \union sockets[c]
  <2>1. ASSUME NEW d \in Clients, Enable(d)
        PROVE  n = conn'[c] /\ n # 0
    <3>1. /\ \A e \in Clients : opening'[e] = IF e = d THEN opening[e] \union {count.streams + 1} ELSE opening[e]
          /\ conn'[d] = count.streams + 1 /\ UNCHANGED sockets
      BY <2>1 DEF Enable, Core, TypeInv
    <3>2. count.streams \in Nat
      BY Numbers DEF Core, TypeInv
    <3>3. n \in opening'[c] /\ n \notin opening[c]
      BY <1>4, <3>1
    <3> DEFINE m == count.streams + 1
    <3>5. opening'[c] = IF c = d THEN opening[c] \union {m} ELSE opening[c]
      BY <3>1
    <3> HIDE DEF m
    <3>6. c = d /\ n = m
      BY <3>3, <3>5
    <3>4. c = d /\ n = count.streams + 1
      BY <3>6 DEF m
    <3> QED
      BY <3>1, <3>2, <3>4
  <2>2. ASSUME NEW d \in Clients, OpenEvents(d)
        PROVE  opening'[c] \union sockets'[c] \subseteq opening[c] \union sockets[c]
    <3>1. PICK m \in opening[d] : /\ opening' = [opening EXCEPT ![d] = @ \ {m}]
                                 /\ sockets' = [sockets EXCEPT ![d] = @ \union {m}]
      BY <2>2 DEF OpenEvents
    <3>2. \A e \in Clients : /\ opening'[e] = IF e = d THEN opening[e] \ {m} ELSE opening[e]
                             /\ sockets'[e] = IF e = d THEN sockets[e] \union {m} ELSE sockets[e]
      BY <3>1 DEF Core, TypeInv
    <3> QED
      BY <3>2
  <2>7. ASSUME NEW d \in Clients, CloseEvents(d)
        PROVE  opening'[c] \union sockets'[c] \subseteq opening[c] \union sockets[c]
    <3>1. PICK m \in sockets[d] : /\ opening' = opening
                                 /\ sockets' = [sockets EXCEPT ![d] = @ \ {m}]
      BY <2>7 DEF CloseEvents
    <3>2. \A e \in Clients : sockets'[e] = IF e = d THEN sockets[e] \ {m} ELSE sockets[e]
      BY <3>1 DEF Core, TypeInv
    <3> QED
      BY <3>1, <3>2
  <2>3. ASSUME NEW d \in Clients,
               \/ Disconnect(d) \/ Hello(d) \/ HandleToolCall(d) \/ Approve(d) \/ Reject(d)
               \/ Edit(d) \/ Render(d) \/ EditTimerFires(d) \/ StateStored(d) \/ StateLost(d)
        PROVE  UNCHANGED <<opening, sockets>>
    BY <2>3 DEF Disconnect, Hello, HandleToolCall, Approve, Reject, Edit, Render, EditTimerFires, StateStored,
                StateLost, stream
  <2>4. ASSUME NEW r \in Calls, CallTool(r) \/ CallRefused(r) \/ CallTimesOut(r)
        PROVE  UNCHANGED <<opening, sockets>>
    BY <2>4 DEF CallTool, CallRefused, CallTimesOut, stream
  <2>5. ASSUME NEW res \in results, ResultArrives(res) \/ ResultLost(res)
        PROVE  UNCHANGED <<opening, sockets>>
    BY <2>5 DEF ResultArrives, ResultLost
  <2>6. LateArrives \/ UNCHANGED vars => UNCHANGED <<opening, sockets>>
    BY DEF LateArrives, vars, stream
  <2> QED
    BY <1>4, <2>1, <2>2, <2>3, <2>4, <2>5, <2>6, <2>7 DEF Next
<1> QED
  BY <1>3, <1>4

LEMMA UnderwayKept ==
    ASSUME NEW c \in Clients, NEW r \in Calls, Underway(c, r), late = {},
           \/ \A i \in DOMAIN events[c] : events[c][i] = r => \E j \in DOMAIN events'[c] : events'[c][j] = r
           \/ Underway(c, r)',
           (confirm[c] = r => confirm'[c] = r) \/ Underway(c, r)',
           \/ \A i \in DOMAIN queue[c] : queue[c][i].purpose.call = r =>
                 \E j \in DOMAIN queue'[c] : queue'[c][j] = queue[c][i]
           \/ Underway(c, r)',
           \A res \in results : res.call = r => res \in results'
    PROVE  Underway(c, r)'
<1>1. CASE r \in {events[c][i] : i \in DOMAIN events[c]}
  <2>1. \E i \in DOMAIN events[c] : events[c][i] = r
    BY <1>1
  <2> QED
    BY <2>1 DEF Underway
<1>2. CASE confirm[c] = r
  BY <1>2 DEF Underway
<1>3. CASE \E i \in DOMAIN queue[c] : queue[c][i].purpose.call = r
  BY <1>3 DEF Underway
<1>4. CASE \E res \in results : res.call = r
  BY <1>4 DEF Underway
<1> QED
  BY <1>1, <1>2, <1>3, <1>4 DEF Underway

\* A step that takes nothing away
LEMMA UnderwayStill ==
    ASSUME TypeInv, NEW c \in Clients, NEW r \in Calls, Underway(c, r), late = {},
           \/ events'[c] = events[c]
           \/ \E e \in Calls \union {"hello"} : events'[c] = Append(events[c], e)
           \/ events[c] # <<>> /\ Head(events[c]) # r /\ events'[c] = Tail(events[c]),
           confirm'[c] = confirm[c] \/ (confirm[c] # r),
           queue'[c] = queue[c] \/ \E e \in Entries : queue'[c] = Append(queue[c], e),
           \A res \in results : res.call = r => res \in results'
    PROVE  Underway(c, r)'
<1>1. events[c] \in Seq(Calls \union {"hello"}) /\ queue[c] \in Seq(Entries)
  BY DEF TypeInv
<1>2. ASSUME NEW i \in DOMAIN events[c], events[c][i] = r
      PROVE  \E j \in DOMAIN events'[c] : events'[c][j] = r
  <2>1. CASE events'[c] = events[c]
    BY <1>2, <2>1
  <2>2. ASSUME NEW e \in Calls \union {"hello"}, events'[c] = Append(events[c], e)
        PROVE  \E j \in DOMAIN events'[c] : events'[c][j] = r
    BY <1>1, <1>2, <2>2, AppendFacts
  <2>3. CASE events[c] # <<>> /\ Head(events[c]) # r /\ events'[c] = Tail(events[c])
    <3>1. i # 1 /\ i - 1 \in DOMAIN Tail(events[c]) /\ Tail(events[c])[i - 1] = events[c][i]
      BY <1>1, <1>2, <2>3, TailFacts
    <3> QED
      BY <1>2, <2>3, <3>1
  <2> QED
    BY <2>1, <2>2, <2>3
<1>3. ASSUME NEW i \in DOMAIN queue[c]
      PROVE  \E j \in DOMAIN queue'[c] : queue'[c][j] = queue[c][i]
  <2>1. ASSUME NEW e \in Entries, queue'[c] = Append(queue[c], e)
        PROVE  \E j \in DOMAIN queue'[c] : queue'[c][j] = queue[c][i]
    BY <1>1, <2>1, AppendFacts
  <2> QED
    BY <2>1
<1> QED
  BY <1>2, <1>3, UnderwayKept

\* A call that the page runs is in the queue, or has been answered.
LEMMA RunIsUnderway ==
    ASSUME TypeInv, CanvasInv, NEW c \in Clients, NEW r \in Calls, applied[r] = 0, RunToolCall(c, r)
    PROVE  /\ Underway(c, r)'
           /\ \A d \in Clients : queue'[d] = queue[d] \/ \E e \in Entries : queue'[d] = Append(queue[d], e)
           /\ results \subseteq results'
<1>1. CASE /\ applied' = [applied EXCEPT ![r] = canvas[c] + 1]
           /\ Enqueue(c, canvas[c] + 1, For("call", r, 0)) /\ UNCHANGED results
  <2> DEFINE e == [version |-> canvas[c] + 1, purpose |-> For("call", r, 0)]
  <2>1. canvas[c] + 1 \in Versions /\ For("call", r, 0) \in Purposes
    BY <1>1, CallFits, PurposeFacts
  <2>2. e \in Entries /\ e.purpose.call = r
    BY <2>1 DEF Entries, For
  <2>3. queue'[c] = Append(queue[c], e) /\ \A d \in Clients \ {c} : queue'[d] = queue[d]
    BY <1>1, <2>1, EnqueueTypes
  <2>4. queue[c] \in Seq(Entries)
    BY DEF TypeInv
  <2> HIDE DEF e
  <2>5. \E i \in DOMAIN queue'[c] : queue'[c][i] = e
    BY <2>2, <2>3, <2>4, AppendFacts
  <2> QED
    BY <1>1, <2>2, <2>3, <2>5 DEF Underway
<1>2. CASE results' = results \union {[call |-> r, why |-> "failed", from |-> c]} /\ UNCHANGED queue
  <2>1. [call |-> r, why |-> "failed", from |-> c] \in results'
        /\ [call |-> r, why |-> "failed", from |-> c].call = r
    BY <1>2
  <2> QED
    BY <1>2, <2>1 DEF Underway
<1> QED
  BY <1>1, <1>2 DEF RunToolCall

LEMMA EnqueueGrows ==
    ASSUME TypeInv, NEW c \in Clients, NEW d \in Clients, NEW v \in Versions, NEW p \in Purposes, Enqueue(c, v, p)
    PROVE  queue'[d] = queue[d] \/ \E e \in Entries : queue'[d] = Append(queue[d], e)
<1> DEFINE e == [version |-> v, purpose |-> p]
<1>1. e \in Entries
  BY EntryFacts
<1>2. queue'[c] = Append(queue[c], e) /\ \A b \in Clients \ {c} : queue'[b] = queue[b]
  BY EnqueueTypes
<1> HIDE DEF e
<1> QED
  BY <1>1, <1>2

LEMMA NextUnderway ==
    ASSUME Core, CallInv, [Next]_vars
    PROVE  UnderwayInv'
<1> SUFFICES ASSUME Calm', NEW r \in pending', r \notin swept'
             PROVE  \E c \in Clients : Underway(c, r)'
  BY DEF UnderwayInv
<1> USE DEF Core
<1>1. Calm /\ late = {} /\ \A d \in Clients : conn[d] # 0 => conn'[d] = conn[d]
  BY CalmBefore DEF Calm, CallInv
<1>2. r \in pending => \E c \in Clients : Underway(c, r)
  <2>1. r \notin swept
    BY NextConn
  <2> QED
    BY <1>1, <2>1 DEF UnderwayInv, CallInv
<1>3. \A q \in pending : q \in Calls
  BY DEF TypeInv
<1>4. ASSUME NEW c \in Clients, Disconnect(c)
      PROVE  FALSE
  BY <1>1, <1>4, Numbers DEF Disconnect, Closed, TypeInv
<1>5. ASSUME NEW c \in Clients, CloseEvents(c)
      PROVE  FALSE
  BY <1>1, <1>5 DEF CloseEvents, CallInv, OneStreamInv, Calm
<1>6. (\E c \in Clients : StateLost(c)) \/ (\E res \in results : ResultLost(res)) => FALSE
  <2>1. count.lost = 0 /\ count'.lost = 0 /\ count \in [edits : 0 .. MaxEdits, streams : 0 .. MaxConnections, lost : 0 .. MaxLost]
    BY <1>1 DEF Calm, TypeInv
  <2> QED
    BY <2>1 DEF StateLost, ResultLost, Lose
<1>7. LateArrives => FALSE
  BY <1>1 DEF LateArrives
\* Where the call was already underway
<1>8. ASSUME NEW c \in Clients, NEW d \in Clients, r \in pending, Underway(d, r),
             \/ Enable(c) \/ OpenEvents(c) \/ Hello(c) \/ Edit(c) \/ Render(c) \/ EditTimerFires(c)
             \/ Reject(c)
      PROVE  Underway(d, r)'
  <2>1. UNCHANGED confirm /\ results \subseteq results' /\ r \in Calls /\ r # "hello"
    BY <1>3, <1>8, ConstantsOK DEF Enable, OpenEvents, Hello, Edit, Render, EditTimerFires, Reject, page
  <2>2. \/ events'[d] = events[d]
        \/ \E e \in Calls \union {"hello"} : events'[d] = Append(events[d], e)
        \/ events[d] # <<>> /\ Head(events[d]) # r /\ events'[d] = Tail(events[d])
    <3>1. CASE OpenEvents(c)
      BY <3>1 DEF OpenEvents, TypeInv
    <3>2. CASE Hello(c)
      BY <2>1, <3>2 DEF Hello, TypeInv
    <3>3. CASE Enable(c) \/ Edit(c) \/ Render(c) \/ EditTimerFires(c) \/ Reject(c)
      BY <3>3 DEF Enable, Edit, Render, EditTimerFires, Reject, stream
    <3> QED
      BY <1>8, <3>1, <3>2, <3>3
  <2>3. queue'[d] = queue[d] \/ \E e \in Entries : queue'[d] = Append(queue[d], e)
    <3>1. CASE Hello(c)
      <4>1. canvas[c] \in Versions /\ conn[c] # 0
        BY <3>1 DEF Hello, StreamInv, StreamOk, TypeInv
      <4>2. For("hello", None, conn[c]) \in Purposes
        BY <4>1, PurposeFacts DEF TypeInv
      <4> QED
        BY <1>8, <3>1, <4>1, <4>2, EnqueueGrows DEF Hello
    <3>2. CASE EditTimerFires(c)
      <4>1. PICK v \in Versions : /\ Enqueue(c, v, TimerPurpose(c, v))
                                  /\ TimerPurpose(c, v) \in Purposes
        BY <3>2, TimerPosts
      <4> QED
        BY <1>8, <4>1, EnqueueGrows
    <3>3. CASE Enable(c) \/ OpenEvents(c) \/ Edit(c) \/ Render(c) \/ Reject(c)
      BY <3>3 DEF Enable, OpenEvents, Edit, Render, Reject, page
    <3> QED
      BY <1>8, <3>1, <3>2, <3>3
  <2> QED
    BY <1>1, <1>8, <2>1, <2>2, <2>3, UnderwayStill
<1>9. ASSUME NEW c \in Clients, HandleToolCall(c), r \in pending
      PROVE  \E d \in Clients : Underway(d, r)'
  <2>6. PICK q \in Calls : q = Head(events[c])
    BY <1>9 DEF HandleToolCall
  <2>1. /\ events[c] \in Seq(Calls \union {"hello"}) /\ events[c] # <<>>
        /\ \A d \in Clients : events'[d] = IF d = c THEN Tail(events[c]) ELSE events[d]
    BY <1>9 DEF TypeInv, HandleToolCall
  <2>2. applied[q] = 0
    BY <2>1, <2>6, TailFacts DEF PlaceInv, Asked
  <2>3. CASE /\ confirm[c] = None /\ confirm' = [confirm EXCEPT ![c] = q]
             /\ UNCHANGED <<queue, results>>
    <3>1. CASE r = q
      BY <2>3, <3>1 DEF Underway, TypeInv
    <3>2. ASSUME NEW d \in Clients, Underway(d, r), r # q
          PROVE  Underway(d, r)'
      <4>1. confirm'[d] = confirm[d] \/ confirm[d] # r
        BY <1>3, <1>9, <2>3, ConstantsOK DEF TypeInv
      <4> QED
        BY <1>1, <1>3, <1>9, <2>1, <2>3, <3>2, <4>1, <2>6, UnderwayStill
    <3> QED
      BY <1>2, <1>9, <3>1, <3>2
  <2>4. CASE /\ results' = results \union {[call |-> q, why |-> "busy", from |-> c]}
             /\ UNCHANGED <<queue, confirm>>
    <3>1. CASE r = q
      <4>1. [call |-> q, why |-> "busy", from |-> c] \in results' /\ [call |-> q, why |-> "busy", from |-> c].call = q
        BY <2>4
      <4> QED
        BY <3>1, <4>1 DEF Underway
    <3>2. ASSUME NEW d \in Clients, Underway(d, r), r # q
          PROVE  Underway(d, r)'
      BY <1>1, <1>3, <1>9, <2>1, <2>4, <3>2, <2>6, UnderwayStill
    <3> QED
      BY <1>2, <1>9, <3>1, <3>2
  <2>5. CASE RunToolCall(c, q) /\ UNCHANGED confirm
    <3>1. /\ Underway(c, q)' /\ results \subseteq results'
          /\ \A d \in Clients : queue'[d] = queue[d] \/ \E e \in Entries : queue'[d] = Append(queue[d], e)
      BY <2>1, <2>2, <2>5, RunIsUnderway
    <3>2. CASE r = q
      BY <3>1, <3>2
    <3>3. ASSUME NEW d \in Clients, Underway(d, r), r # q
          PROVE  Underway(d, r)'
      BY <1>1, <1>3, <1>9, <2>1, <2>5, <3>1, <3>3, <2>6, UnderwayStill
    <3> QED
      BY <1>2, <1>9, <3>2, <3>3
  <2> QED
    BY <1>9, <2>3, <2>4, <2>5, <2>6 DEF HandleToolCall
<1>10. ASSUME NEW c \in Clients, Approve(c), r \in pending
       PROVE  \E d \in Clients : Underway(d, r)'
  <2>7. PICK q \in Calls : q = confirm[c]
    BY <1>10 DEF Approve, TypeInv
  <2>1. applied[q] = 0
    BY <2>7 DEF PlaceInv, Asked
  <2>2. \A d \in Clients : confirm'[d] = IF d = c THEN None ELSE confirm[d]
    BY <1>10 DEF Approve, TypeInv
  <2>3. RunToolCall(c, q) /\ UNCHANGED events
    BY <1>10, <2>7 DEF Approve, stream
  <2>4. /\ Underway(c, q)' /\ results \subseteq results'
        /\ \A d \in Clients : queue'[d] = queue[d] \/ \E e \in Entries : queue'[d] = Append(queue[d], e)
    BY <2>1, <2>3, RunIsUnderway
  <2>5. CASE r = q
    BY <2>4, <2>5
  <2>6. ASSUME NEW d \in Clients, Underway(d, r), r # q
        PROVE  Underway(d, r)'
    <3>1. confirm'[d] = confirm[d] \/ confirm[d] # r
      BY <2>2, <2>6, <2>7
    <3> QED
      BY <1>1, <1>3, <1>10, <2>3, <2>4, <2>6, <3>1, UnderwayStill
  <2> QED
    BY <1>2, <1>10, <2>5, <2>6
<1>11. ASSUME NEW c \in Clients, StateStored(c), r \in pending
       PROVE  \E d \in Clients : Underway(d, r)'
  <2> DEFINE p == Head(queue[c]).purpose
  <2>1. /\ queue[c] # <<>> /\ UNCHANGED <<events, confirm>> /\ results \subseteq results'
        /\ p.for = "call" => [call |-> p.call, why |-> "done", from |-> c] \in results'
    BY <1>11 DEF StateStored, Continue
  <2>2. /\ queue[c] \in Seq(Entries) /\ p \in Purposes /\ queue[c][1].purpose = p
        /\ \A d \in Clients : queue'[d] = IF d = c THEN Tail(queue[c]) ELSE queue[d]
    BY <1>11, <2>1, HeadOfQueue DEF StateStored, TypeInv
  <2>3. p.call \in Calls => p.for = "call"
    BY <2>2, PurposeFacts
  <2>4. [call |-> p.call, why |-> "done", from |-> c].call = p.call
    OBVIOUS
  <2> HIDE DEF p
  <2>6. CASE p.call = r
    <3>1. \E res \in results' : res.call = r
      BY <1>3, <1>11, <2>1, <2>3, <2>4, <2>6
    <3> QED
      BY <3>1 DEF Underway
  <2>7. ASSUME NEW d \in Clients, Underway(d, r), p.call # r
        PROVE  Underway(d, r)'
    <3>1. ASSUME NEW i \in DOMAIN queue[d], queue[d][i].purpose.call = r
          PROVE  \E j \in DOMAIN queue'[d] : queue'[d][j] = queue[d][i]
      <4>1. CASE d # c
        BY <2>2, <4>1
      <4>2. CASE d = c
        <5>1. i # 1
          BY <2>2, <2>7, <3>1, <4>2
        <5>2. i - 1 \in DOMAIN Tail(queue[c]) /\ Tail(queue[c])[i - 1] = queue[c][i]
          BY <2>1, <2>2, <4>2, <5>1, TailFacts
        <5> QED
          BY <2>2, <4>2, <5>2
      <4> QED
        BY <4>1, <4>2
    <3> QED
      BY <1>1, <1>3, <1>11, <2>1, <2>7, <3>1, UnderwayKept
  <2> QED
    BY <1>2, <1>11, <2>6, <2>7
<1>12. ASSUME NEW q \in Calls, CallTool(q)
       PROVE  \E d \in Clients : Underway(d, r)'
  <2>1. PICK c \in Clients :
          /\ Target(c)
          /\ events' = IF clients[c] = conn[c] THEN [events EXCEPT ![c] = Append(@, q)] ELSE events
    BY <1>12 DEF CallTool
  <2>2. clients[c] = conn[c]
    <3>1. clients[c] \in sockets[c]
      BY <2>1 DEF Target, StreamInv, StreamOk
    <3> QED
      BY <1>1, <3>1 DEF CallInv, OneStreamInv, Calm
  <2>3. \A d \in Clients : events'[d] = IF d = c THEN Append(events[c], q) ELSE events[d]
    BY <2>1, <2>2 DEF TypeInv
  <2>4. CASE r = q
    <3>1. events[c] \in Seq(Calls \union {"hello"})
      BY DEF TypeInv
    <3>2. \E i \in DOMAIN events'[c] : events'[c][i] = q
      <4>1. events'[c] = Append(events[c], q)
        BY <2>3
      <4>2. \E i \in DOMAIN Append(events[c], q) : Append(events[c], q)[i] = q
        <5>1. q \in Calls \union {"hello"}
          OBVIOUS
        <5>2. Len(events[c]) + 1 \in DOMAIN Append(events[c], q) /\ Append(events[c], q)[Len(events[c]) + 1] = q
          BY <3>1, <5>1, AppendFacts
        <5> QED
          BY <5>2
      <4> QED
        BY <4>1, <4>2
    <3> QED
      BY <2>4, <3>2 DEF Underway
  <2>5. CASE r # q
    <3>1. r \in pending /\ UNCHANGED <<confirm, queue, results>>
      BY <1>12, <2>5 DEF CallTool, page
    <3>2. PICK d \in Clients : Underway(d, r)
      BY <1>2, <3>1
    <3>3. r \in Calls /\ (events'[d] = events[d] \/ \E e \in Calls \union {"hello"} : events'[d] = Append(events[d], e))
      BY <1>3, <2>3, <3>1
    <3> QED
      BY <1>1, <3>1, <3>2, <3>3, UnderwayStill
  <2> QED
    BY <2>4, <2>5
<1>13. ASSUME NEW q \in Calls, CallRefused(q) \/ CallTimesOut(q)
       PROVE  \E d \in Clients : Underway(d, r)'
  <2>1. r \in pending /\ UNCHANGED <<events, confirm, queue, results>>
    BY <1>13 DEF CallRefused, CallTimesOut, stream, page
  <2> QED
    BY <1>1, <1>2, <1>3, <2>1, UnderwayStill
<1>14. ASSUME NEW res \in results, ResultArrives(res)
       PROVE  \E d \in Clients : Underway(d, r)'
  <2>1. /\ r \in pending /\ r # res.call /\ UNCHANGED queue
        /\ results' = results \ {res}
    BY <1>14 DEF ResultArrives, ResolveResult
  <2>2. res.from \in Clients
    BY ResultFacts DEF TypeInv
  <2>3. UNCHANGED events
    <3>1. CASE BridgeFails(res.from) /\ conn[res.from] # 0
      BY <1>1, <2>2, <3>1 DEF BridgeFails, Closed, TypeInv
    <3> QED
      BY <1>14, <3>1 DEF ResultArrives, BridgeFails
  <2>4. ASSUME NEW d \in Clients
        PROVE  confirm'[d] = confirm[d] \/ confirm[d] # r
    <3>1. confirm'[d] = confirm[d] \/ (d = res.from /\ res.why \in Rejections)
      BY <1>14 DEF ResultArrives, TypeInv
    <3>2. ASSUME d = res.from, res.why \in Rejections, confirm[d] = r
          PROVE  FALSE
      <4>1. r \in swept \union ({confirm[res.from]} \ {None, res.call})
        BY <1>3, <2>1, <3>2, ConstantsOK
      <4> QED
        BY <1>14, <3>2, <4>1 DEF ResultArrives
    <3> QED
      BY <3>1, <3>2
  <2>5. PICK d \in Clients : Underway(d, r)
    BY <1>2, <2>1
  <2>6. \A old \in results : old.call = r => old \in results'
    BY <2>1
  <2> QED
    BY <1>1, <1>3, <2>1, <2>3, <2>4, <2>5, <2>6, UnderwayStill
<1>15. CASE UNCHANGED vars
  <2>1. r \in pending /\ UNCHANGED <<events, confirm, queue, results>>
    BY <1>15 DEF vars, server, stream, page
  <2> QED
    BY <1>1, <1>2, <1>3, <2>1, UnderwayStill
<1>16. ASSUME NEW c \in Clients,
              \/ Enable(c) \/ OpenEvents(c) \/ Hello(c) \/ Edit(c) \/ Render(c) \/ EditTimerFires(c)
              \/ Reject(c) \/ HandleToolCall(c) \/ Approve(c) \/ StateStored(c)
       PROVE  r \in pending
  BY <1>16 DEF Enable, OpenEvents, Hello, Edit, Render, EditTimerFires, Reject, HandleToolCall, Approve,
               StateStored, server
<1>17. ASSUME NEW c \in Clients,
              \/ Enable(c) \/ OpenEvents(c) \/ Hello(c) \/ Edit(c) \/ Render(c) \/ EditTimerFires(c)
              \/ Reject(c)
       PROVE  \E d \in Clients : Underway(d, r)'
  BY <1>2, <1>8, <1>16, <1>17
<1> QED
  BY <1>4, <1>5, <1>6, <1>7, <1>9, <1>10, <1>11, <1>12, <1>13, <1>14, <1>15, <1>16, <1>17 DEF Next

LEMMA InitCalls ==
    Init => CallInv
<1> SUFFICES ASSUME Init PROVE CallInv
  OBVIOUS
<1>1. Enabled = {} /\ Cardinality(Enabled) = 0
  BY FS_EmptySet DEF Init, Enabled
<1> QED
  BY <1>1 DEF Init, CallInv, CountInv, OneStreamInv, UnderwayInv

\* While nothing is lost and no stream is closed, every call the server waits
\* for is on its way, before the user, or on its way back.
THEOREM CallsCorrect ==
    Spec => []NoCallForgotten
<1>1. CallInv => NoCallForgotten
  BY DEF CallInv, UnderwayInv, Calm, Whole, Enabled, NoCallForgotten
<1>2. Core /\ CallInv /\ [Next]_vars => (Core /\ CallInv)'
  <2> SUFFICES ASSUME Core, CallInv, [Next]_vars PROVE (Core /\ CallInv)'
    OBVIOUS
  <2>1. CountInv'
    BY CalmBefore DEF Core, CallInv
  <2>2. OneStreamInv' /\ UnderwayInv'
    BY NextOneStream, NextUnderway DEF CallInv
  <2> QED
    BY NextCore, <2>1, <2>2 DEF CallInv
<1> QED
  BY <1>1, <1>2, InitCore, InitCalls, PTL DEF Spec
=============================================================================
