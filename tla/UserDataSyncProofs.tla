-------------------------- MODULE UserDataSyncProofs --------------------------
(***************************************************************************)
(* What UserDataSync promises of a user's documents, for all accounts and  *)
(* documents and all bounds.  Nothing locks the stores: the argument is    *)
(* that a session change begins by stopping the timers, so that until its  *)
(* download has been merged nothing else is at work (PageInv), and that    *)
(* the stores, the persistence timer and the disk agree on what the user   *)
(* of the active scope has (LocalInv).                                     *)
(***************************************************************************)
EXTENDS UserDataSync, TLAPS

Docs == [Items -> Times]
Snapshot == [saved : BOOLEAN, docs : Docs]
Batches == [pc : {"idle", "upload", "upsert"}, snap : Docs, todo : SUBSET Items,
            gone : SUBSET Items, retry : BOOLEAN]
Sessions == [pc : {"idle", "begin", "restore", "list", "fetch", "save"}, user : Scopes,
             snap : Docs, fetch : SUBSET Items, from : {"login", "load"}]

Before(docs, t) == \A i \in Items : docs[i] <= t

\* No document carries a time that has not come yet.
ClockInv ==
    /\ Before(store, clock) /\ Before(versions, clock) /\ Before(pending.docs, clock)
    /\ Before(batch.snap, clock) /\ Before(session.snap, clock)
    /\ \A u \in Users : Before(server[u], clock)
    /\ \A s \in Scopes : Before(disk[s].docs, clock)

\* The cookie, the scope and activeRemoteUserId name one user at a time.
SessionInv ==
    /\ active \in {scope, Nobody}
    /\ session.pc \in {"idle", "list", "fetch", "save"} => active = scope
    /\ scope # Nobody /\ cookie # Nobody => cookie = scope
    /\ session.pc # "idle" /\ session.user # Nobody => cookie = session.user
    /\ session.pc \in {"list", "fetch", "save"} => session.user # Nobody /\ scope = session.user
    /\ session.pc \in {"begin", "restore"} /\ session.from = "login" /\ session.user # Nobody
          => scope = Nobody
    /\ applying => session.pc \in {"list", "fetch"}

\* Between the reset of a session change and its merge the page is at rest; a
\* guest has nothing under way.
PageInv ==
    /\ session.pc \in {"restore", "list", "fetch"} => ~timer /\ ~Busy /\ calls = {}
    /\ Busy => active # Nobody
    /\ scope = Nobody => calls = {}
    /\ session.pc = "restore" /\ session.user # Nobody => pending = NoSnapshot
    /\ active = Nobody \/ session.pc \in {"restore", "list"} => versions = Empty

Of(docs, u) == \A i \in Items : docs[i] # Gone => Owner[i] = u

\* What is kept, sent or shown under a user's name is his.
OwnerInv ==
    /\ \A u \in Users : Of(server[u], u) /\ Of(disk[u].docs, u)
    /\ scope # Nobody => Of(store, scope) /\ Of(pending.docs, scope)
    /\ Busy => Of(batch.snap, scope)

\* What the page takes to be on the backend and does not have itself was deleted
\* by the user; what a download will bring is not missed yet.
PageHas ==
    /\ active # Nobody /\ session.pc # "fetch" =>
          \A i \in Items : versions[i] # Gone /\ store[i] = Gone => i \in deleted[scope]
    /\ session.pc = "fetch" =>
          \A i \in Items : versions[i] # Gone => i \in session.fetch \/ session.snap[i] # Gone

\* A batch removes what the user deleted, and what he deletes while it runs may
\* still be sent.
BatchHas ==
    Busy =>
      /\ batch.gone \subseteq deleted[scope]
      /\ \A i \in Items : batch.snap[i] # Gone /\ store[i] = Gone => i \in deleted[scope]
      /\ \A i \in batch.todo : batch.snap[i] # Gone

RemovedInv ==
    /\ \A u \in Users : \A i \in seen[u] \ deleted[u] : server[u][i] # Gone
    /\ PageHas /\ BatchHas

\* The timer holds the canvases of the store, or the disk has them; the disk has
\* its assets.
LocalInv ==
    /\ \A u \in Users : \A i \in Projects : ~disk[u].saved => disk[u].docs[i] = Gone
    /\ scope # Nobody =>
          /\ \A a \in Assets : store[a] = disk[scope].docs[a]
          /\ \A i \in Projects :
                store[i] = IF pending.saved THEN pending.docs[i] ELSE disk[scope].docs[i]

\* The last edit of a document is in the store of its owner's scope, or on its
\* owner's disk; before the stores are exchanged it is on the disk.
KeptInv ==
    \A i \in Items : i \in deleted[Owner[i]] \/
        /\ latest[i] <= IF scope = Owner[i] THEN store[i] ELSE disk[Owner[i]].docs[i]
        /\ session.pc = "restore" /\ scope = Owner[i] => latest[i] <= disk[scope].docs[i]

\* A batch of which nothing is queued sends what the stores have, and brings the
\* versions to it.
BatchSent ==
    /\ Busy /\ ~queued =>
          \A i \in Items :
             /\ store[i] = batch.snap[i]
             /\ i \notin batch.todo \union batch.gone => versions[i] = batch.snap[i]
    /\ Busy => \A i \in batch.gone : batch.snap[i] = Gone

\* A page at rest has sent everything.
SentInv ==
    /\ BatchSent
    /\ session.pc = "idle" /\ scope # Nobody /\ ~failed /\ ~Busy /\ ~timer => store = versions

DataInv ==
    /\ TypeOK /\ ClockInv /\ SessionInv
    /\ raced \/ (PageInv /\ OwnerInv /\ LocalInv /\ KeptInv /\ SentInv)
    /\ raced \/ missed \/ RemovedInv

-----------------------------------------------------------------------------
(* Types.                                                                  *)

LEMMA Types ==
  ASSUME TypeOK
  PROVE  /\ server \in [Users -> Docs] /\ disk \in [Scopes -> Snapshot] /\ pending \in Snapshot
         /\ store \in Docs /\ versions \in Docs /\ media \subseteq Items
         /\ cookie \in Scopes /\ scope \in Scopes /\ active \in Scopes
         /\ applying \in BOOLEAN /\ timer \in BOOLEAN /\ queued \in BOOLEAN
         /\ raced \in BOOLEAN /\ missed \in BOOLEAN /\ failed \in BOOLEAN
         /\ calls \subseteq Calls /\ batch \in Batches /\ session \in Sessions
         /\ clock \in Times /\ latest \in Docs
         /\ seen \in [Users -> SUBSET Items] /\ deleted \in [Users -> SUBSET Items]
BY DEF TypeOK, Docs, Snapshot, Batches, Sessions

LEMMA TypesMake ==
  ASSUME server \in [Users -> Docs], disk \in [Scopes -> Snapshot], pending \in Snapshot,
         store \in Docs, versions \in Docs, media \subseteq Items,
         cookie \in Scopes, scope \in Scopes, active \in Scopes,
         applying \in BOOLEAN, timer \in BOOLEAN, queued \in BOOLEAN,
         raced \in BOOLEAN, missed \in BOOLEAN, failed \in BOOLEAN,
         calls \subseteq Calls, batch \in Batches, session \in Sessions,
         clock \in Times, latest \in Docs,
         seen \in [Users -> SUBSET Items], deleted \in [Users -> SUBSET Items]
  PROVE  TypeOK
BY DEF TypeOK, Docs, Snapshot, Batches, Sessions

LEMMA Basics ==
  /\ Empty \in Docs /\ NoSnapshot \in Snapshot /\ NoBatch \in Batches /\ NoSession \in Sessions
  /\ Gone \in Times /\ Projects \subseteq Items /\ Users \subseteq Scopes /\ Nobody \in Scopes
  /\ Times \subseteq Nat
BY ConstantsOK DEF Empty, NoSnapshot, NoBatch, NoSession, Docs, Snapshot, Batches, Sessions, Times, Gone,
   Projects, Scopes

LEMMA StampType ==
  ASSUME TypeOK, NEW docs \in Docs, NEW i \in Items, Tick
  PROVE  /\ Stamp(docs, i) \in Docs /\ clock' \in Times /\ clock' = clock + 1
         /\ \A j \in Items : Stamp(docs, i)[j] = IF j = i THEN clock + 1 ELSE docs[j]
BY Types, ConstantsOK DEF Stamp, Docs, Tick, Times

LEMMA FlushedType ==
  ASSUME TypeOK, NEW s \in Scopes
  PROVE  /\ Flushed(s) \in [Scopes -> Snapshot]
         /\ \A w \in Scopes \ {s} : Flushed(s)[w] = disk[w]
         /\ Flushed(s)[s].saved = (pending.saved \/ disk[s].saved)
         /\ \A i \in Items : Flushed(s)[s].docs[i] =
               IF pending.saved /\ i \in Projects THEN pending.docs[i] ELSE disk[s].docs[i]
<1> DEFINE d == [i \in Items |-> IF i \in Projects THEN pending.docs[i] ELSE disk[s].docs[i]]
<1>1. d \in Docs
  BY Types DEF Docs, Snapshot
<1>2. CASE pending.saved
  <2>1. Flushed(s) = [disk EXCEPT ![s] = [saved |-> TRUE, docs |-> d]]
    BY <1>2 DEF Flushed
  <2> HIDE DEF d
  <2>2. Flushed(s)[s] = [saved |-> TRUE, docs |-> d]
    BY <2>1, Types
  <2>3. \A i \in Items : d[i] = IF i \in Projects THEN pending.docs[i] ELSE disk[s].docs[i]
    BY DEF d
  <2>4. Flushed(s)[s] \in Snapshot /\ \A w \in Scopes \ {s} : Flushed(s)[w] = disk[w]
    BY <1>1, <2>1, <2>2, Types DEF Snapshot
  <2>5. Flushed(s) \in [Scopes -> Snapshot]
    BY <2>1, <2>4, Types
  <2>6. Flushed(s)[s].saved /\ \A i \in Items : Flushed(s)[s].docs[i] = d[i]
    BY <2>2
  <2> QED BY <1>2, <2>3, <2>4, <2>5, <2>6, Types DEF Snapshot
<1>3. CASE ~pending.saved
  BY <1>3, Types DEF Flushed, Snapshot
<1> QED BY <1>2, <1>3, Types DEF Snapshot

LEMMA PersistType ==
  ASSUME TypeOK, NEW docs \in Docs, Persist(docs)
  PROVE  /\ disk' \in [Scopes -> Snapshot] /\ pending' \in Snapshot
         /\ \A w \in Scopes \ {scope} : disk'[w] = disk[w]
         /\ disk'[scope].saved = disk[scope].saved
         /\ \A i \in Items : disk'[scope].docs[i] = IF i \in Assets THEN docs[i] ELSE disk[scope].docs[i]
         /\ pending' = IF \E i \in Projects : docs[i] # store[i]
                       THEN [saved |-> TRUE, docs |-> docs] ELSE pending
<1> DEFINE d == [i \in Items |-> IF i \in Assets THEN docs[i] ELSE disk[scope].docs[i]]
<1>1. d \in Docs
  BY Types DEF Docs, Snapshot
<1>2. disk' = [disk EXCEPT ![scope].docs = d]
  BY DEF Persist
<1>3. \A i \in Items : d[i] = IF i \in Assets THEN docs[i] ELSE disk[scope].docs[i]
  OBVIOUS
<1> HIDE DEF d
<1>4. disk'[scope] = [disk[scope] EXCEPT !.docs = d]
  BY <1>2, Types
<1>5. disk'[scope].docs = d /\ disk'[scope].saved = disk[scope].saved /\ disk'[scope] \in Snapshot
  BY <1>1, <1>4, Types DEF Snapshot
<1>6. \A w \in Scopes \ {scope} : disk'[w] = disk[w]
  BY <1>2, Types
<1>7. disk' \in [Scopes -> Snapshot]
  BY <1>2, <1>5, <1>6, Types
<1>8. pending' = IF \E i \in Projects : docs[i] # store[i]
                 THEN [saved |-> TRUE, docs |-> docs] ELSE pending
  BY DEF Persist
<1> QED BY <1>3, <1>5, <1>6, <1>7, <1>8, Types DEF Snapshot

LEMMA BatchOfType ==
  ASSUME TypeOK, NEW docs \in Docs, NEW known \in Docs
  PROVE  /\ BatchOf(docs, known) \in Batches
         /\ BatchOf(docs, known).pc = "idle" => docs = known /\ BatchOf(docs, known) = NoBatch
         /\ BatchOf(docs, known).pc # "idle" =>
               /\ BatchOf(docs, known).snap = docs
               /\ BatchOf(docs, known).todo = Dirty(docs, known)
               /\ BatchOf(docs, known).gone = Missing(docs, known)
<1>1. Dirty(docs, known) \subseteq Items /\ Missing(docs, known) \subseteq Items
  BY DEF Dirty, Missing
<1>2. Dirty(docs, known) \union Missing(docs, known) = {} => docs = known
  BY DEF Dirty, Missing, Docs
<1> QED BY <1>1, <1>2, Basics DEF BatchOf, Batches, NoBatch

LEMMA PutBackType ==
  ASSUME NEW now \in Docs, NEW snap \in Docs, NEW dirty
  PROVE  PutBack(now, snap, dirty) \in Docs
BY DEF PutBack, Docs

LEMMA MergedType ==
  ASSUME NEW snap \in Docs, NEW fetched, NEW remote \in Docs
  PROVE  /\ Merged(snap, fetched, remote) \in Docs
         /\ \A i \in Items : Merged(snap, fetched, remote)[i] =
               IF i \in fetched /\ remote[i] > snap[i] THEN remote[i] ELSE snap[i]
BY DEF Merged, Docs

LEMMA SaveNowType ==
  ASSUME TypeOK, NEW docs \in Docs, SaveNow(docs)
  PROVE  batch' \in Batches /\ queued' \in BOOLEAN
<1>1. BatchOf(docs, versions) \in Batches
  BY BatchOfType, Types
<1> QED BY <1>1, Types DEF SaveNow

LEMMA ScheduleType ==
  ASSUME TypeOK, Schedule
  PROVE  timer' \in BOOLEAN /\ queued' \in BOOLEAN
BY Types DEF Schedule

LEMMA ProceedType ==
  ASSUME TypeOK, NEW rest \in Batches, NEW known \in Docs, Proceed(rest, known)
  PROVE  batch' \in Batches /\ queued' \in BOOLEAN /\ applying' \in BOOLEAN /\ failed' \in BOOLEAN
<1>1. BatchOf(store, known) \in Batches /\ NoBatch \in Batches
  BY BatchOfType, Types, Basics
<1> QED BY <1>1, Types DEF Proceed, Drained

\* What no step of the session changes keeps its type.
LEMMA TypesPrime ==
  ASSUME server' \in [Users -> Docs], disk' \in [Scopes -> Snapshot], pending' \in Snapshot,
         store' \in Docs, versions' \in Docs, media' \subseteq Items,
         cookie' \in Scopes, scope' \in Scopes, active' \in Scopes,
         applying' \in BOOLEAN, timer' \in BOOLEAN, queued' \in BOOLEAN,
         raced' \in BOOLEAN, missed' \in BOOLEAN, failed' \in BOOLEAN,
         calls' \subseteq Calls, batch' \in Batches, session' \in Sessions,
         clock' \in Times, latest' \in Docs,
         seen' \in [Users -> SUBSET Items], deleted' \in [Users -> SUBSET Items]
  PROVE  TypeOK'
BY DEF TypeOK, Docs, Snapshot, Batches, Sessions

LEMMA BatchTypes ==
  ASSUME TypeOK, PersistFires \/ Batch
  PROVE  TypeOK'
<1>1. CASE PersistFires
  <2>1. disk' \in [Scopes -> Snapshot] /\ pending' \in Snapshot
    BY <1>1, FlushedType, Basics, Types DEF PersistFires
  <2> QED BY <1>1, <2>1, Types, TypesPrime DEF PersistFires, link, ghosts
<1>2. CASE TimerFires
  <2>1. batch' \in Batches /\ queued' \in BOOLEAN
    BY <1>2, SaveNowType, Types DEF TimerFires
  <2> QED BY <1>2, <2>1, Types, TypesPrime DEF TimerFires, data, ghosts
<1>3. CASE Upload
  <2> DEFINE docs == PutBack(store, batch.snap, batch.todo)
  <2>1. docs \in Docs
    BY PutBackType, Types DEF Batches
  <2>2. SetStore(docs) /\ raced' = (raced \/ docs # store)
    BY <1>3 DEF Upload
  <2> HIDE DEF docs
  <2>3. disk' \in [Scopes -> Snapshot] /\ pending' \in Snapshot /\ store' \in Docs
    BY <2>1, <2>2, PersistType DEF SetStore
  <2>4. raced' \in BOOLEAN
    BY <2>2
  <2>5. batch' \in Batches /\ media' \subseteq Items
    BY <1>3, Types DEF Upload, Batches
  <2> QED BY <1>3, <2>3, <2>4, <2>5, Types, TypesPrime DEF Upload
<1>4. CASE SendUpsert
  <2>1. PICK i \in Items :
           /\ cookie \in Users
           /\ server' = [server EXCEPT ![cookie][i] = batch.snap[i]]
           /\ seen' = [seen EXCEPT ![cookie] = @ \union {i}]
           /\ versions' = [versions EXCEPT ![i] = batch.snap[i]]
           /\ Proceed([batch EXCEPT !.todo = @ \ {i}], versions')
    BY <1>4, Types DEF SendUpsert, FirstOf, Accepts, Scopes, Batches
  <2>2. versions' \in Docs /\ server' \in [Users -> Docs] /\ seen' \in [Users -> SUBSET Items]
    BY <2>1, Types DEF Docs, Batches
  <2>3. [batch EXCEPT !.todo = @ \ {i}] \in Batches
    BY Types DEF Batches
  <2>4. batch' \in Batches /\ queued' \in BOOLEAN /\ applying' \in BOOLEAN /\ failed' \in BOOLEAN
    BY <2>1, <2>2, <2>3, ProceedType
  <2> QED BY <1>4, <2>2, <2>4, Types, TypesPrime DEF SendUpsert
<1>5. CASE SendDelete
  <2>1. PICK i \in Items :
           /\ cookie \in Users
           /\ server' = [server EXCEPT ![cookie][i] = Gone]
           /\ versions' = [versions EXCEPT ![i] = Gone]
           /\ Proceed([batch EXCEPT !.gone = @ \ {i}], versions')
    BY <1>5, Types DEF SendDelete, FirstOf, Scopes, Batches
  <2>2. versions' \in Docs /\ server' \in [Users -> Docs]
    BY <2>1, Types, Basics DEF Docs
  <2>3. [batch EXCEPT !.gone = @ \ {i}] \in Batches
    BY Types DEF Batches
  <2>4. batch' \in Batches /\ queued' \in BOOLEAN /\ applying' \in BOOLEAN /\ failed' \in BOOLEAN
    BY <2>1, <2>2, <2>3, ProceedType
  <2> QED BY <1>5, <2>2, <2>4, Types, TypesPrime DEF SendDelete
<1>6. CASE RequestFails
  <2>1. timer' \in BOOLEAN
    BY <1>6, Types DEF RequestFails
  <2> QED BY <1>6, <2>1, Types, Basics, TypesPrime DEF RequestFails, data
<1> QED BY <1>1, <1>2, <1>3, <1>4, <1>5, <1>6 DEF Batch

LEMMA EditedTypes ==
  ASSUME TypeOK, NEW i \in Items, Edited(i), batch' \in Batches, timer' \in BOOLEAN, queued' \in BOOLEAN
  PROVE  TypeOK'
<1>1. Stamp(store, i) \in Docs /\ clock' \in Times /\ clock' = clock + 1
  BY StampType, Types DEF Edited
<1>2. disk' \in [Scopes -> Snapshot] /\ pending' \in Snapshot /\ store' \in Docs
  BY <1>1, PersistType DEF Edited, SetStore
<1>3. latest' \in Docs /\ media' \subseteq Items
  BY <1>1, Types DEF Edited, Docs
<1> QED BY <1>1, <1>2, <1>3, Types, TypesPrime DEF Edited

LEMMA EditTypes ==
  ASSUME TypeOK,
         \E i \in Items : Edit(i) \/ CreateProject(i) \/ DeleteProject(i) \/ SaveCanvas(i)
  PROVE  TypeOK'
<1>1. CASE \E i \in Items : Edit(i)
  <2>1. PICK i \in Items : Edit(i)
    BY <1>1
  <2> QED BY <2>1, EditedTypes, ScheduleType, Types DEF Edit
<1>2. CASE \E i \in Items : CreateProject(i)
  <2>1. PICK i \in Items : CreateProject(i)
    BY <1>2
  <2>2. store' \in Docs
    BY <2>1, StampType, Types DEF CreateProject, Edited, SetStore
  <2>3. BatchOf(store', versions) \in Batches
    BY <2>2, BatchOfType, Types
  <2>4. batch' \in Batches /\ timer' \in BOOLEAN /\ queued' \in BOOLEAN
    <3>1. CASE Busy
      <4>1. batch' = [batch EXCEPT !.retry = TRUE] /\ queued' = TRUE /\ UNCHANGED timer
        BY <2>1, <3>1 DEF CreateProject
      <4> QED BY <4>1, Types DEF Batches
    <3>2. CASE ~Busy
      <4> DEFINE b == BatchOf(store', versions)
      <4>1. /\ batch' = [b EXCEPT !.retry = TRUE, !.pc = IF i \in media' THEN "upload" ELSE @]
            /\ timer' = TRUE /\ queued' = FALSE
        BY <2>1, <3>2 DEF CreateProject
      <4> HIDE DEF b
      <4> QED BY <2>3, <4>1 DEF b, Batches
    <3> QED BY <3>1, <3>2
  <2> QED BY <2>1, <2>4, EditedTypes DEF CreateProject
<1>3. CASE \E i \in Items : DeleteProject(i)
  <2>1. PICK i \in Items : DeleteProject(i)
    BY <1>3
  <2>2. [store EXCEPT ![i] = Gone] \in Docs
    BY Types, Basics DEF Docs
  <2>3. disk' \in [Scopes -> Snapshot] /\ pending' \in Snapshot /\ store' \in Docs
    BY <2>1, <2>2, PersistType DEF DeleteProject, SetStore
  <2>4. deleted' \in [Users -> SUBSET Items]
    BY <2>1, Types DEF DeleteProject, Scopes
  <2> QED BY <2>1, <2>3, <2>4, ScheduleType, Types, TypesPrime DEF DeleteProject
<1>4. CASE \E i \in Items : SaveCanvas(i)
  <2>1. PICK i \in Items : SaveCanvas(i)
    BY <1>4
  <2>2. store' \in Docs /\ clock' \in Times /\ clock' = clock + 1
    BY <2>1, StampType, Types DEF SaveCanvas
  <2> DEFINE d == [j \in Items |-> IF j \in Projects THEN store'[j] ELSE disk[scope].docs[j]]
  <2>3. d \in Docs
    BY <2>2, Types DEF Docs, Snapshot
  <2>4. disk' = [disk EXCEPT ![scope] = [saved |-> TRUE, docs |-> d]]
    BY <2>1 DEF SaveCanvas
  <2> HIDE DEF d
  <2>5. disk' \in [Scopes -> Snapshot]
    BY <2>3, <2>4, Types DEF Snapshot
  <2>6. latest' \in Docs /\ timer' \in BOOLEAN
    BY <2>1, <2>2, Types DEF SaveCanvas, Docs
  <2>7. batch' \in Batches /\ queued' \in BOOLEAN
    BY <2>1, <2>2, SaveNowType DEF SaveCanvas
  <2> QED BY <2>1, <2>2, <2>5, <2>6, <2>7, Types, Basics, TypesPrime DEF SaveCanvas
<1> QED BY <1>1, <1>2, <1>3, <1>4

LEMMA RemovesType ==
  ASSUME TypeOK, NEW a \in Items, Removes(a)
  PROVE  server' \in [Users -> Docs] /\ deleted' \in [Users -> SUBSET Items]
<1>1. /\ cookie \in Users /\ server' = [server EXCEPT ![cookie][a] = Gone]
      /\ deleted' = [deleted EXCEPT ![cookie] = @ \union {a}]
  BY Types DEF Removes, Scopes
<1>2. [server[cookie] EXCEPT ![a] = Gone] \in Docs
  BY <1>1, Types, Basics DEF Docs
<1>3. deleted' \in [Users -> SUBSET Items]
  BY <1>1, Types
<1> QED BY <1>1, <1>2, <1>3, Types

LEMMA CallTypes ==
  ASSUME TypeOK, NEW a \in Assets,
         \/ LinkAsset(a) \/ LinkReturns(a) \/ LinkFails(a)
         \/ DeleteAsset(a) \/ DeleteReturns(a) \/ DeleteFails(a)
  PROVE  TypeOK'
<1>0. calls' \subseteq Calls /\ a \in Items
  BY Types, ConstantsOK
     DEF Calls, LinkAsset, LinkReturns, LinkFails, DeleteAsset, DeleteReturns, DeleteFails
<1>1. CASE LinkAsset(a)
  <2>1. batch' \in Batches /\ queued' \in BOOLEAN
    BY <1>1, SaveNowType, Types DEF LinkAsset
  <2> QED BY <1>0, <1>1, <2>1, Types, TypesPrime DEF LinkAsset, data, ghosts
<1>2. CASE LinkReturns(a)
  <2>2. Stamp(store, a) \in Docs /\ clock' \in Times /\ clock' = clock + 1
    BY <1>0, <1>2, StampType, Types DEF LinkReturns
  <2>3. disk' \in [Scopes -> Snapshot] /\ pending' \in Snapshot /\ store' \in Docs
    BY <1>2, <2>2, PersistType, Types DEF LinkReturns, SetStore
  <2>4. latest' \in Docs /\ raced' \in BOOLEAN
    BY <1>2, <2>2, Types DEF LinkReturns, Docs
  <2>5. batch' \in Batches /\ queued' \in BOOLEAN
    BY <1>2, <2>3, SaveNowType DEF LinkReturns
  <2> QED BY <1>0, <1>2, <2>2, <2>3, <2>4, <2>5, Types, TypesPrime DEF LinkReturns
<1>3. CASE LinkFails(a) \/ DeleteAsset(a)
  BY <1>0, <1>3, Types, TypesPrime DEF LinkFails, DeleteAsset, data, link, ghosts
<1>4. CASE DeleteReturns(a)
  <2>1. [store EXCEPT ![a] = Gone] \in Docs /\ versions' \in Docs
    BY <1>0, <1>4, Types, Basics DEF Docs, DeleteReturns
  <2>2. disk' \in [Scopes -> Snapshot] /\ pending' \in Snapshot /\ store' \in Docs
    BY <1>4, <2>1, PersistType DEF DeleteReturns, SetStore
  <2>3. server' \in [Users -> Docs] /\ deleted' \in [Users -> SUBSET Items]
    BY <1>0, <1>4, RemovesType DEF DeleteReturns
  <2>4. raced' \in BOOLEAN
    BY <1>4, Types DEF DeleteReturns
  <2> QED BY <1>0, <1>4, <2>1, <2>2, <2>3, <2>4, ScheduleType, Types, TypesPrime DEF DeleteReturns
<1>5. CASE DeleteFails(a)
  <2>1. server' \in [Users -> Docs] /\ deleted' \in [Users -> SUBSET Items]
    BY <1>0, <1>5, RemovesType, Types DEF DeleteFails
  <2> QED BY <1>0, <1>5, <2>1, Types, TypesPrime DEF DeleteFails, link
<1> QED BY <1>1, <1>2, <1>3, <1>4, <1>5

\* The answer to a deletion, as far as no session change has overtaken it.
LEMMA DeletedHere ==
  ASSUME TypeOK, SessionInv, PageInv, ~raced', NEW a \in Assets, DeleteReturns(a)
  PROVE  /\ a \in Items /\ scope \in Users /\ LoggedIn /\ cookie = scope /\ active = scope
         /\ store' = [store EXCEPT ![a] = Gone] /\ Persist(store')
         /\ server' = [server EXCEPT ![scope][a] = Gone]
         /\ versions' = [versions EXCEPT ![a] = Gone]
         /\ deleted' = [deleted EXCEPT ![scope] = @ \union {a}]
         /\ Schedule
         /\ UNCHANGED <<scope, active, session, batch, seen, latest>>
<1>1. raced' = (raced \/ session.pc # "idle") /\ calls # {}
  BY DEF DeleteReturns
<1>2. session.pc = "idle" /\ scope \in Users
  BY <1>1, Types DEF PageInv, Scopes
<1>3. cookie = scope /\ active = scope /\ a \in Items
  BY <1>2, ConstantsOK DEF DeleteReturns, Removes, SessionInv
<1> QED BY <1>2, <1>3, ConstantsOK DEF DeleteReturns, Removes, SetStore, LoggedIn

LEMMA DeleteFailsHere ==
  ASSUME TypeOK, SessionInv, PageInv, NEW a \in Assets, DeleteFails(a)
  PROVE  /\ a \in Items /\ scope \in Users /\ session.pc \notin {"restore", "list", "fetch"}
         /\ UNCHANGED <<store, disk, pending, versions, scope, active, session, batch, seen, latest>>
         /\ \/ UNCHANGED <<server, deleted>>
            \/ /\ server' = [server EXCEPT ![scope][a] = Gone]
               /\ deleted' = [deleted EXCEPT ![scope] = @ \union {a}]
<1>1. scope \in Users /\ session.pc \notin {"restore", "list", "fetch"}
  BY Types DEF DeleteFails, PageInv, Scopes
<1> QED BY <1>1, ConstantsOK DEF DeleteFails, Removes, SessionInv, link

LEMMA StartType ==
  ASSUME NEW u \in Scopes, NEW from \in {"login", "load"}, Start(u, from)
  PROVE  /\ session' \in Sessions /\ session'.pc = "begin" /\ session'.user = u
         /\ session'.from = from /\ session'.snap = Empty
BY Basics DEF Start, NoSession, Sessions

LEMMA SessionTypes ==
  ASSUME TypeOK, SessionInv, SessionSteps
  PROVE  TypeOK'
<1>1. CASE Begin
  <2>1. session' \in Sessions /\ disk' \in [Scopes -> Snapshot] /\ versions' \in Docs /\ active' \in Scopes
    BY <1>1, FlushedType, Types, Basics DEF Begin, Sessions
  <2>2. store' \in Docs /\ clock' \in Times /\ pending' \in Snapshot
    <3>1. CASE UNCHANGED <<store, clock>> /\ pending' = NoSnapshot
      BY <3>1, Types, Basics
    <3>2. CASE \E i \in Projects : /\ Tick /\ store' = Stamp(store, i)
                                   /\ pending' = [saved |-> TRUE, docs |-> store']
      BY <3>2, StampType, Types, Basics DEF Snapshot
    <3> QED BY <1>1, <3>1, <3>2 DEF Begin
  <2>3. raced' \in BOOLEAN
    BY <1>1 DEF Begin
  <2> QED BY <1>1, <2>1, <2>2, <2>3, Types, TypesPrime DEF Begin
<1>2. CASE Restore
  <2>1. session.user \in Scopes /\ disk[session.user].docs \in Docs
    BY Types DEF Sessions, Snapshot
  <2>2. store' \in Docs /\ media' \subseteq Items /\ scope' \in Scopes /\ active' \in Scopes
    BY <1>2, <2>1, Types DEF Restore
  <2>3. pending' \in Snapshot /\ session' \in Sessions /\ applying' \in BOOLEAN
    BY <1>2, Types, Basics DEF Restore, Snapshot, Sessions
  <2> QED BY <1>2, <2>2, <2>3, Types, TypesPrime DEF Restore, ghosts
<1>3. CASE ListReturns
  <2>1. cookie \in Users
    BY <1>3, Types DEF ListReturns, SessionInv, Scopes
  <2>2. versions' \in Docs /\ session' \in Sessions
    BY <1>3, <2>1, Types DEF ListReturns, Sessions
  <2> QED BY <1>3, <2>2, Types, TypesPrime DEF ListReturns, data, ghosts
<1>4. CASE FetchReturns
  <2>1. cookie \in Users
    BY <1>4, Types DEF FetchReturns, SessionInv, Scopes
  <2> DEFINE docs == Merged(session.snap, session.fetch, server[cookie])
  <2>2. docs \in Docs
    BY <2>1, MergedType, Types DEF Sessions
  <2>3. SetStore(docs) /\ SaveNow(docs)
    BY <1>4 DEF FetchReturns
  <2> HIDE DEF docs
  <2>4. disk' \in [Scopes -> Snapshot] /\ pending' \in Snapshot /\ store' \in Docs
    BY <2>2, <2>3, PersistType DEF SetStore
  <2>5. batch' \in Batches /\ queued' \in BOOLEAN
    BY <2>2, <2>3, SaveNowType
  <2>6. session' \in Sessions /\ raced' \in BOOLEAN
    BY <1>4, Types DEF FetchReturns, Sessions
  <2> QED BY <1>4, <2>4, <2>5, <2>6, Types, TypesPrime DEF FetchReturns
<1>5. CASE SyncFails
  <2>1. session' \in Sessions
    BY <1>5, StartType, Basics DEF SyncFails
  <2>2. missed' \in BOOLEAN
    BY <1>5 DEF SyncFails
  <2> QED BY <1>5, <2>1, <2>2, Types, TypesPrime DEF SyncFails, data
<1>6. CASE FirstSaveEnds
  BY <1>6, ScheduleType, Types, Basics, TypesPrime DEF FirstSaveEnds, data, ghosts
<1> QED BY <1>1, <1>2, <1>3, <1>4, <1>5, <1>6 DEF SessionSteps

LEMMA VisitTypes ==
  ASSUME TypeOK, Logout \/ Reload \/ \E u \in Users : Login(u) \/ \E i \in Items : OtherDevice(u, i)
  PROVE  TypeOK'
<1>1. CASE \E u \in Users : Login(u)
  <2>1. PICK u \in Users : Login(u)
    BY <1>1
  <2>2. session' \in Sessions /\ cookie' \in Scopes
    BY <2>1, StartType, Basics DEF Login
  <2> QED BY <2>1, <2>2, Types, TypesPrime DEF Login, data, link, ghosts
<1>2. CASE Logout
  <2>1. session' \in Sessions /\ cookie' \in Scopes
    BY <1>2, StartType, Basics DEF Logout
  <2> QED BY <1>2, <2>1, Types, TypesPrime DEF Logout, data, link, ghosts
<1>3. CASE Reload
  <2>1. session' \in Sessions
    BY <1>3, StartType, Basics, Types DEF Reload
  <2>2. store' \in Docs /\ media' \subseteq Items /\ raced' \in BOOLEAN
    BY <1>3, Types DEF Reload, Snapshot
  <2> QED BY <1>3, <2>1, <2>2, Types, Basics, TypesPrime DEF Reload
<1>4. CASE \E u \in Users : \E i \in Items : OtherDevice(u, i)
  <2>1. PICK u \in Users, i \in Items : OtherDevice(u, i)
    BY <1>4
  <2>2. clock' \in Times /\ clock' = clock + 1
    BY <2>1, StampType, Types DEF OtherDevice
  <2>3. server' \in [Users -> Docs]
    BY <2>1, <2>2, Types DEF OtherDevice, Docs
  <2> QED BY <2>1, <2>2, <2>3, Types, TypesPrime DEF OtherDevice, link, ghosts
<1> QED BY <1>1, <1>2, <1>3, <1>4

LEMMA NextTypes ==
  ASSUME TypeOK, SessionInv, [Next]_vars
  PROVE  TypeOK'
<1>1. CASE UNCHANGED vars
  BY <1>1, Types, TypesPrime DEF vars, data, link, ghosts
<1>2. CASE Next
  BY <1>2, BatchTypes, EditTypes, CallTypes, SessionTypes, VisitTypes DEF Next, User, Answers
<1> QED BY <1>1, <1>2

LEMMA InitTypes ==
  Init => TypeOK
<1> SUFFICES ASSUME Init PROVE TypeOK
  OBVIOUS
<1>1. clock \in Times /\ 1 \in Times
  BY ConstantsOK DEF Init, Times
<1>2. seen \in [Users -> SUBSET Items]
  BY ConstantsOK DEF Init
<1>3. \A u \in Users : [i \in Items |-> IF i \in seen[u] THEN 1 ELSE Gone] \in Docs
  BY <1>1, Basics DEF Docs
<1>4. server = [u \in Users |-> [i \in Items |-> IF i \in seen[u] THEN 1 ELSE Gone]]
  BY DEF Init
<1>5. server \in [Users -> Docs]
  BY <1>3, <1>4
<1> QED BY <1>1, <1>2, <1>5, Basics, TypesMake DEF Init

-----------------------------------------------------------------------------
(* Whose session it is.                                                    *)

LEMMA NextSession ==
  ASSUME TypeOK, SessionInv, [Next]_vars
  PROVE  SessionInv'
<1>1. CASE PersistFires \/ UNCHANGED vars \/ \E u \in Users : \E i \in Items : OtherDevice(u, i)
  BY <1>1 DEF PersistFires, OtherDevice, vars, link, SessionInv
<1>2. CASE TimerFires \/ RequestFails \/ Upload
  BY <1>2 DEF TimerFires, RequestFails, Upload, SessionInv
<1>3. CASE SendUpsert \/ SendDelete
  <2>1. UNCHANGED <<scope, active, cookie, session>> /\ (applying' = applying \/ applying' = FALSE)
    BY <1>3 DEF SendUpsert, SendDelete, Proceed
  <2> QED BY <2>1 DEF SessionInv
<1>4. CASE \E i \in Items : Edit(i) \/ CreateProject(i) \/ DeleteProject(i) \/ SaveCanvas(i)
  <2>1. UNCHANGED <<scope, active, cookie, session, applying>>
    BY <1>4 DEF Edit, CreateProject, Edited, DeleteProject, SaveCanvas
  <2> QED BY <2>1 DEF SessionInv
<1>5. CASE Answers \/ \E a \in Assets : DeleteAsset(a) \/ LinkAsset(a)
  <2>1. UNCHANGED <<scope, active, cookie, session, applying>>
    BY <1>5 DEF Answers, DeleteAsset, DeleteReturns, DeleteFails, LinkAsset, LinkReturns, LinkFails, link
  <2> QED BY <2>1 DEF SessionInv
<1>6. CASE Logout \/ \E u \in Users : Login(u)
  <2>1. PICK u \in Scopes : /\ Start(u, "login") /\ cookie' = u /\ (u # Nobody => scope = Nobody)
                            /\ session.pc = "idle" /\ UNCHANGED <<scope, active, applying>>
    BY <1>6, Basics DEF Logout, Login, LoggedIn, link
  <2>2. session'.pc = "begin" /\ session'.user = u
    BY <2>1, StartType
  <2> QED BY <2>1, <2>2 DEF SessionInv
<1>7. CASE Reload
  <2>1. PICK u \in {cookie, Nobody} : Start(u, "load")
    BY <1>7 DEF Reload
  <2>2. session'.pc = "begin" /\ session'.user = u /\ session'.from = "load"
    BY <2>1, StartType, Types, Basics
  <2> QED BY <1>7, <2>1, <2>2 DEF Reload, SessionInv
<1>8. CASE Begin
  BY <1>8, Types DEF Begin, SessionInv, Sessions
<1>9. CASE Restore
  BY <1>9, Types DEF Restore, SessionInv, Sessions, NoSession
<1>10. CASE ListReturns \/ FetchReturns \/ FirstSaveEnds
  <2>1. CASE ListReturns
    BY <2>1, Types DEF ListReturns, SessionInv, Sessions
  <2>2. CASE FetchReturns
    BY <2>2, Types DEF FetchReturns, SessionInv, Sessions
  <2>3. CASE FirstSaveEnds
    BY <2>3, Types DEF FirstSaveEnds, SessionInv, Sessions, NoSession
  <2> QED BY <1>10, <2>1, <2>2, <2>3
<1>11. CASE SyncFails
  <2>1. CASE session.from = "load"
    <3>1. Start(Nobody, "login")
      BY <1>11, <2>1 DEF SyncFails
    <3>2. session'.pc = "begin" /\ session'.user = Nobody
      BY <3>1, StartType, Basics
    <3> QED BY <1>11, <3>2 DEF SyncFails, SessionInv
  <2>2. CASE session.from # "load"
    BY <1>11, <2>2 DEF SyncFails, SessionInv, NoSession
  <2> QED BY <2>1, <2>2
<1> QED BY <1>1, <1>2, <1>3, <1>4, <1>5, <1>6, <1>7, <1>8, <1>9, <1>10, <1>11 DEF Next, Batch, SessionSteps, User

LEMMA NextTypeSession ==
  ASSUME TypeOK, SessionInv, [Next]_vars
  PROVE  TypeOK' /\ SessionInv'
BY NextTypes, NextSession

\* The browser keeps its documents, its timers and its batches in the form the
\* code gives them, and a step never asks for the documents of nobody.
THEOREM TypeCorrect == Spec => []TypeOK
<1>1. Init => SessionInv
  BY DEF Init, SessionInv, NoSession
<1> QED BY <1>1, InitTypes, NextTypeSession, PTL DEF Spec

-----------------------------------------------------------------------------
(* No document is of a later time than the clock's.                        *)

LEMMA BeforeLater ==
  ASSUME NEW docs \in Docs, NEW s \in Times, NEW t \in Times, Before(docs, s), s <= t
  PROVE  Before(docs, t)
<1>1. ASSUME NEW i \in Items PROVE docs[i] <= t
  <2>1. docs[i] \in Nat /\ s \in Nat /\ t \in Nat /\ docs[i] <= s
    BY Basics DEF Docs, Before
  <2> QED BY <2>1
<1> QED BY <1>1 DEF Before

LEMMA EmptyBefore ==
  ASSUME NEW t \in Times
  PROVE  Before(Empty, t) /\ Before(NoSnapshot.docs, t) /\ Before(NoBatch.snap, t) /\ Before(NoSession.snap, t)
BY Basics DEF Before, Empty, Gone, NoSnapshot, NoBatch, NoSession, Times

LEMMA StampBefore ==
  ASSUME TypeOK, NEW docs \in Docs, Before(docs, clock), NEW i \in Items, Tick
  PROVE  Before(Stamp(docs, i), clock')
<1>1. clock \in Nat /\ clock' = clock + 1 /\ \A j \in Items : docs[j] \in Nat
  BY Types, Basics, StampType DEF Docs
<1>2. \A j \in Items : Stamp(docs, i)[j] = IF j = i THEN clock + 1 ELSE docs[j]
  BY StampType
<1> QED BY <1>1, <1>2 DEF Before

LEMMA FlushedBefore ==
  ASSUME TypeOK, ClockInv, NEW s \in Scopes, NEW w \in Scopes
  PROVE  Before(Flushed(s)[w].docs, clock)
<1>1. CASE w = s
  BY <1>1, FlushedType DEF ClockInv, Before
<1>2. CASE w # s
  BY <1>2, FlushedType DEF ClockInv
<1> QED BY <1>1, <1>2

LEMMA PersistBefore ==
  ASSUME TypeOK, ClockInv, NEW docs \in Docs, Persist(docs), NEW t \in Times, clock <= t, Before(docs, t)
  PROVE  Before(pending'.docs, t) /\ \A w \in Scopes : Before(disk'[w].docs, t)
<1>1. \A w \in Scopes : Before(disk[w].docs, t)
  BY Types, BeforeLater DEF ClockInv, Snapshot
<1>2. Before(pending.docs, t)
  BY Types, BeforeLater DEF ClockInv, Snapshot
<1>3. ASSUME NEW w \in Scopes PROVE Before(disk'[w].docs, t)
  <2>1. CASE w = scope
    BY <1>1, <2>1, PersistType DEF Before
  <2>2. CASE w # scope
    BY <1>1, <2>2, PersistType
  <2> QED BY <2>1, <2>2
<1>4. Before(pending'.docs, t)
  BY <1>2, PersistType
<1> QED BY <1>3, <1>4

LEMMA BatchOfBefore ==
  ASSUME TypeOK, NEW docs \in Docs, NEW known \in Docs, NEW t \in Times, Before(docs, t)
  PROVE  Before(BatchOf(docs, known).snap, t)
BY BatchOfType, EmptyBefore, Types DEF Batches

LEMMA SaveNowBefore ==
  ASSUME TypeOK, NEW docs \in Docs, NEW t \in Times, Before(docs, t), Before(batch.snap, t), SaveNow(docs)
  PROVE  Before(batch'.snap, t)
BY BatchOfBefore, Types DEF SaveNow

LEMMA ProceedBefore ==
  ASSUME TypeOK, ClockInv, NEW rest, rest.snap = batch.snap, NEW known \in Docs, Proceed(rest, known)
  PROVE  Before(batch'.snap, clock)
BY BatchOfBefore, EmptyBefore, Types DEF Proceed, Drained, ClockInv

\* It suffices to look at the documents a step puts somewhere.
LEMMA ClockFrame ==
  ASSUME TypeOK, ClockInv, TypeOK', clock' = clock \/ clock' = clock + 1,
         store' = store \/ Before(store', clock'), versions' = versions \/ Before(versions', clock'),
         pending' = pending \/ Before(pending'.docs, clock'),
         batch'.snap = batch.snap \/ Before(batch'.snap, clock'),
         session'.snap = session.snap \/ Before(session'.snap, clock'),
         server' = server \/ \A u \in Users : Before(server'[u], clock'),
         disk' = disk \/ \A s \in Scopes : Before(disk'[s].docs, clock')
  PROVE  ClockInv'
<1>1. clock \in Times /\ clock' \in Times /\ clock <= clock'
  <2>1. clock \in Times /\ clock' \in Times
    BY Types DEF TypeOK
  <2> QED BY <2>1, Basics
<1>2. \A docs \in Docs : Before(docs, clock) => Before(docs, clock')
  BY <1>1, BeforeLater
<1>3. Before(store, clock') /\ Before(versions, clock') /\ Before(pending.docs, clock')
      /\ Before(batch.snap, clock') /\ Before(session.snap, clock')
  BY <1>2, Types DEF ClockInv, Snapshot, Batches, Sessions
<1>4. (\A u \in Users : Before(server[u], clock')) /\ (\A s \in Scopes : Before(disk[s].docs, clock'))
  BY <1>2, Types DEF ClockInv, Snapshot
<1> QED BY <1>3, <1>4 DEF ClockInv

LEMMA NextClock ==
  ASSUME TypeOK, SessionInv, ClockInv, [Next]_vars
  PROVE  ClockInv'
<1>0. TypeOK' /\ clock \in Times /\ clock <= clock
  <2>1. clock \in Times
    BY Types
  <2> QED BY <2>1, NextTypes, Basics
<1>1. CASE UNCHANGED vars
  BY <1>0, <1>1, ClockFrame DEF vars, data, link
<1>2. CASE PersistFires
  <2>1. \A s \in Scopes : Before(disk'[s].docs, clock)
    BY <1>2, FlushedBefore, Types DEF PersistFires
  <2>2. Before(NoSnapshot.docs, clock)
    BY <1>0, EmptyBefore
  <2> QED BY <1>0, <1>2, <2>1, <2>2, ClockFrame DEF PersistFires, link
<1>3. CASE TimerFires
  <2>1. Before(batch'.snap, clock)
    BY <1>0, <1>3, SaveNowBefore, Types DEF TimerFires, ClockInv
  <2> QED BY <1>0, <1>3, <2>1, ClockFrame DEF TimerFires, data
<1>4. CASE Upload
  <2> DEFINE docs == PutBack(store, batch.snap, batch.todo)
  <2>1. docs \in Docs /\ Before(docs, clock)
    <3>1. \A i \in Items : docs[i] \in {store[i], batch.snap[i]}
      BY DEF PutBack
    <3> QED BY <3>1, PutBackType, Types DEF Batches, ClockInv, Before
  <2>2. store' = docs /\ Persist(docs)
    BY <1>4 DEF Upload, SetStore
  <2> HIDE DEF docs
  <2>3. Before(pending'.docs, clock) /\ \A s \in Scopes : Before(disk'[s].docs, clock)
    BY <1>0, <2>1, <2>2, PersistBefore
  <2>4. batch'.snap = batch.snap
    BY <1>4, Types DEF Upload, Batches
  <2> QED BY <1>0, <1>4, <2>1, <2>2, <2>3, <2>4, ClockFrame DEF Upload
<1>5. CASE SendUpsert
  <2>1. PICK i \in Items :
           /\ cookie \in Users
           /\ server' = [server EXCEPT ![cookie][i] = batch.snap[i]]
           /\ versions' = [versions EXCEPT ![i] = batch.snap[i]]
           /\ Proceed([batch EXCEPT !.todo = @ \ {i}], versions')
    BY <1>5, Types DEF SendUpsert, FirstOf, Accepts, Scopes, Batches
  <2>2. Before(versions', clock) /\ \A u \in Users : Before(server'[u], clock)
    BY <2>1, Types DEF ClockInv, Before, Docs
  <2>3. [batch EXCEPT !.todo = @ \ {i}].snap = batch.snap /\ versions' \in Docs
    BY <1>0, Types DEF Batches, TypeOK, Docs
  <2>4. Before(batch'.snap, clock)
    BY <2>1, <2>3, ProceedBefore
  <2> QED BY <1>0, <1>5, <2>2, <2>4, ClockFrame DEF SendUpsert
<1>6. CASE SendDelete
  <2>1. PICK i \in Items :
           /\ cookie \in Users
           /\ server' = [server EXCEPT ![cookie][i] = Gone]
           /\ versions' = [versions EXCEPT ![i] = Gone]
           /\ Proceed([batch EXCEPT !.gone = @ \ {i}], versions')
    BY <1>6, Types DEF SendDelete, FirstOf, Scopes, Batches
  <2>2. Before(versions', clock) /\ \A u \in Users : Before(server'[u], clock)
    BY <1>0, <2>1, Types, Basics DEF ClockInv, Before, Docs, Gone
  <2>3. [batch EXCEPT !.gone = @ \ {i}].snap = batch.snap /\ versions' \in Docs
    BY <1>0, Types DEF Batches, TypeOK, Docs
  <2>4. Before(batch'.snap, clock)
    BY <2>1, <2>3, ProceedBefore
  <2> QED BY <1>0, <1>6, <2>2, <2>4, ClockFrame DEF SendDelete
<1>7. CASE RequestFails
  BY <1>0, <1>7, EmptyBefore, ClockFrame DEF RequestFails, data
<1>8. ASSUME NEW i \in Items, Edited(i), batch' = batch \/ batch'.snap \in {batch.snap, store', Empty}
      PROVE  ClockInv'
  <2>1. Tick /\ store' = Stamp(store, i) /\ Persist(store') /\ clock' = clock + 1
    BY <1>8 DEF Edited, SetStore, Tick
  <2>2. Before(store', clock') /\ store' \in Docs /\ clock' \in Times /\ clock <= clock'
    BY <1>0, <2>1, StampBefore, StampType, Types, Basics DEF ClockInv
  <2>3. Before(pending'.docs, clock') /\ \A s \in Scopes : Before(disk'[s].docs, clock')
    BY <2>1, <2>2, PersistBefore
  <2>4. Before(Empty, clock')
    BY <2>2, EmptyBefore
  <2> QED BY <1>0, <1>8, <2>1, <2>2, <2>3, <2>4, ClockFrame DEF Edited
<1>9. CASE \E i \in Items : Edit(i)
  BY <1>8, <1>9 DEF Edit
<1>10. CASE \E i \in Items : CreateProject(i)
  <2>1. PICK i \in Items : CreateProject(i)
    BY <1>10
  <2>2. store' \in Docs
    BY <1>0 DEF TypeOK, Docs
  <2>3. PICK b \in Batches : b = BatchOf(store', versions) /\ b.snap \in {store', Empty}
    BY <2>2, BatchOfType, Types DEF NoBatch
  <2>4. batch'.snap \in {batch.snap, store', Empty}
    BY <2>1, <2>3, Types DEF CreateProject, Batches
  <2> QED BY <1>8, <2>1, <2>4 DEF CreateProject
<1>11. CASE \E i \in Items : DeleteProject(i)
  <2>1. PICK i \in Items : DeleteProject(i)
    BY <1>11
  <2>2. store' = [store EXCEPT ![i] = Gone] /\ Persist(store') /\ store' \in Docs
    BY <1>0, <2>1 DEF DeleteProject, SetStore, TypeOK, Docs
  <2>3. Before(store', clock)
    BY <1>0, <2>2, Types, Basics DEF ClockInv, Before, Docs, Gone
  <2>4. Before(pending'.docs, clock) /\ \A s \in Scopes : Before(disk'[s].docs, clock)
    BY <1>0, <2>2, <2>3, PersistBefore
  <2> QED BY <1>0, <2>1, <2>3, <2>4, ClockFrame DEF DeleteProject
<1>12. CASE \E a \in Assets : DeleteReturns(a)
  <2>1. PICK a \in Assets : DeleteReturns(a)
    BY <1>12
  <2>2. store' = [store EXCEPT ![a] = Gone] /\ Persist(store') /\ store' \in Docs /\ a \in Items
    BY <1>0, <2>1, ConstantsOK DEF DeleteReturns, SetStore, TypeOK, Docs
  <2>3. Before(store', clock) /\ Before(versions', clock)
    BY <1>0, <2>1, <2>2, Types, Basics DEF DeleteReturns, ClockInv, Before, Docs, Gone
  <2>4. \A u \in Users : Before(server'[u], clock)
    BY <1>0, <2>1, <2>2, Types, Basics DEF DeleteReturns, Removes, ClockInv, Before, Docs, Gone
  <2>5. Before(pending'.docs, clock) /\ \A s \in Scopes : Before(disk'[s].docs, clock)
    BY <1>0, <2>2, <2>3, PersistBefore
  <2> QED BY <1>0, <2>1, <2>3, <2>4, <2>5, ClockFrame DEF DeleteReturns
<1>13. CASE \E i \in Items : SaveCanvas(i)
  <2>1. PICK i \in Items : SaveCanvas(i)
    BY <1>13
  <2>2. Tick /\ store' = Stamp(store, i) /\ clock' = clock + 1
    BY <2>1 DEF SaveCanvas, Tick
  <2>3. Before(store', clock') /\ store' \in Docs /\ clock' \in Times /\ clock <= clock'
    BY <1>0, <2>2, StampBefore, StampType, Types, Basics DEF ClockInv
  <2>4. \A docs \in Docs : Before(docs, clock) => Before(docs, clock')
    BY <1>0, <2>3, BeforeLater
  <2> DEFINE d == [j \in Items |-> IF j \in Projects THEN store'[j] ELSE disk[scope].docs[j]]
  <2>5. disk' = [disk EXCEPT ![scope] = [saved |-> TRUE, docs |-> d]]
    BY <2>1 DEF SaveCanvas
  <2>6. Before(d, clock')
    BY <2>3, <2>4, Types DEF ClockInv, Before, Snapshot
  <2> HIDE DEF d
  <2>7. ASSUME NEW s \in Scopes PROVE Before(disk'[s].docs, clock')
    BY <2>4, <2>5, <2>6, Types DEF ClockInv, Snapshot
  <2>8. Before(batch'.snap, clock')
    BY <2>1, <2>3, <2>4, SaveNowBefore, Types DEF SaveCanvas, ClockInv, Batches
  <2>9. Before(pending'.docs, clock')
    BY <2>1, <2>3, EmptyBefore DEF SaveCanvas
  <2> QED BY <1>0, <2>1, <2>2, <2>3, <2>7, <2>8, <2>9, ClockFrame DEF SaveCanvas
<1>14. CASE \E a \in Assets : LinkAsset(a) \/ LinkFails(a) \/ DeleteAsset(a) \/ DeleteFails(a)
  <2>1. PICK a \in Assets : LinkAsset(a) \/ LinkFails(a) \/ DeleteAsset(a) \/ DeleteFails(a)
    BY <1>14
  <2>2. CASE LinkAsset(a)
    <3>1. Before(batch'.snap, clock)
      BY <1>0, <2>2, SaveNowBefore, Types DEF LinkAsset, ClockInv
    <3> QED BY <1>0, <2>2, <3>1, ClockFrame DEF LinkAsset, data
  <2>3. CASE LinkFails(a) \/ DeleteAsset(a)
    BY <1>0, <2>3, ClockFrame DEF LinkFails, DeleteAsset, data, link
  <2>4. CASE DeleteFails(a)
    <3>1. a \in Items /\ clock' = clock
      BY <2>4, ConstantsOK DEF DeleteFails
    <3>2. server' = server \/ \A u \in Users : Before(server'[u], clock')
      <4>1. CASE Removes(a)
        <5>1. cookie \in Users /\ server' = [server EXCEPT ![cookie][a] = Gone]
          BY <1>0, <4>1, Types DEF Removes, Scopes
        <5> QED BY <1>0, <3>1, <5>1, Types, Basics DEF ClockInv, Before, Docs, Gone
      <4> QED BY <2>4, <4>1 DEF DeleteFails
    <3> QED BY <1>0, <2>4, <3>1, <3>2, ClockFrame DEF DeleteFails, link
  <2> QED BY <2>1, <2>2, <2>3, <2>4
<1>15. CASE \E a \in Assets : LinkReturns(a)
  <2>1. PICK a \in Assets : LinkReturns(a)
    BY <1>15
  <2>2. Tick /\ SaveNow(store') /\ clock' = clock + 1 /\ a \in Items /\ store' \in Docs
    BY <1>0, <2>1, ConstantsOK DEF LinkReturns, Tick, TypeOK, Docs
  <2>3. clock' \in Times /\ clock <= clock'
    BY <1>0, <2>2, StampType, Types, Basics
  <2>4. \A docs \in Docs : Before(docs, clock) => Before(docs, clock')
    BY <1>0, <2>3, BeforeLater
  <2>5. Before(Stamp(store, a), clock')
    BY <2>2, StampBefore, Types DEF ClockInv
  <2>6. Before(store', clock')
    BY <2>1, <2>4, <2>5, Types DEF LinkReturns, SetStore, ClockInv
  <2>7. Before(batch'.snap, clock')
    BY <2>2, <2>3, <2>4, <2>6, SaveNowBefore, Types DEF ClockInv, Batches
  <2>8. CASE store[a] = Gone
    BY <1>0, <2>1, <2>2, <2>7, <2>8, ClockFrame DEF LinkReturns
  <2>9. CASE store[a] # Gone
    <3>1. Persist(store')
      BY <2>1, <2>9 DEF LinkReturns, SetStore
    <3>2. Before(pending'.docs, clock') /\ \A s \in Scopes : Before(disk'[s].docs, clock')
      BY <2>2, <2>3, <2>6, <3>1, PersistBefore
    <3> QED BY <1>0, <2>1, <2>2, <2>6, <2>7, <3>2, ClockFrame DEF LinkReturns
  <2> QED BY <2>8, <2>9
<1>16. CASE \E u \in Users : \E i \in Items : OtherDevice(u, i)
  <2>1. PICK u \in Users, i \in Items : OtherDevice(u, i)
    BY <1>16
  <2>2. clock' = clock + 1 /\ clock' \in Times
    BY <2>1, StampType, Types DEF OtherDevice
  <2>3. \A docs \in Docs : Before(docs, clock) => Before(docs, clock')
    BY <1>0, <2>2, BeforeLater, Basics
  <2>4. \A w \in Users : Before(server[w], clock')
    BY <2>3, Types DEF ClockInv
  <2>5. ASSUME NEW w \in Users PROVE Before(server'[w], clock')
    BY <2>1, <2>2, <2>4, Types, Basics DEF OtherDevice, Before, Docs
  <2> QED BY <1>0, <2>1, <2>2, <2>5, ClockFrame DEF OtherDevice, link
<1>17. ASSUME NEW u \in Scopes, NEW from \in {"login", "load"}, Start(u, from)
       PROVE  Before(session'.snap, clock)
  BY <1>0, <1>17, StartType, EmptyBefore
<1>18. CASE Logout \/ Reload \/ \E u \in Users : Login(u)
  <2>1. Before(session'.snap, clock)
    BY <1>17, <1>18, Types, Basics DEF Logout, Reload, Login
  <2>2. CASE Logout \/ \E u \in Users : Login(u)
    BY <1>0, <2>1, <2>2, ClockFrame DEF Logout, Login, data, link
  <2>3. CASE Reload
    <3>1. Before(store', clock)
      BY <2>3, Types DEF Reload, ClockInv
    <3> QED BY <1>0, <2>1, <2>3, <3>1, EmptyBefore, ClockFrame DEF Reload
  <2> QED BY <1>18, <2>2, <2>3
<1>19. CASE Begin
  <2>1. \A s \in Scopes : Before(disk'[s].docs, clock)
    BY <1>19, FlushedBefore, Types DEF Begin
  <2>2. session'.snap = session.snap
    BY <1>19, Types DEF Begin, Sessions
  <2>3. CASE UNCHANGED <<store, clock>> /\ pending' = NoSnapshot
    BY <1>0, <1>19, <2>1, <2>2, <2>3, EmptyBefore, ClockFrame DEF Begin
  <2>4. CASE \E i \in Projects : /\ Tick /\ store' = Stamp(store, i)
                                 /\ pending' = [saved |-> TRUE, docs |-> store']
    <3>1. Before(store', clock') /\ pending'.docs = store' /\ clock' = clock + 1 /\ clock' \in Times
      BY <2>4, StampBefore, StampType, Types, Basics DEF ClockInv
    <3>2. \A s \in Scopes : Before(disk'[s].docs, clock')
      <4>1. \A docs \in Docs : Before(docs, clock) => Before(docs, clock')
        BY <1>0, <3>1, BeforeLater, Basics
      <4> QED BY <1>0, <2>1, <4>1 DEF TypeOK, Docs
    <3>3. Before(Empty, clock')
      BY <3>1, EmptyBefore
    <3> QED BY <1>0, <1>19, <2>2, <3>1, <3>2, <3>3, ClockFrame DEF Begin
  <2> QED BY <1>19, <2>3, <2>4 DEF Begin
<1>20. CASE Restore
  <2>1. Before(store', clock)
    BY <1>20, Types DEF Restore, ClockInv, Sessions
  <2>2. pending' = pending \/ Before(pending'.docs, clock)
    BY <1>0, <1>20, EmptyBefore DEF Restore
  <2>3. session'.snap = session.snap \/ Before(session'.snap, clock)
    BY <1>0, <1>20, EmptyBefore, Types DEF Restore, Sessions
  <2> QED BY <1>0, <1>20, <2>1, <2>2, <2>3, ClockFrame DEF Restore
<1>21. CASE ListReturns
  <2>1. cookie \in Users
    BY <1>21, Types DEF ListReturns, SessionInv, Scopes
  <2>2. Before(versions', clock) /\ session'.snap = store
    BY <1>21, <2>1, Types DEF ListReturns, ClockInv, Sessions
  <2> QED BY <1>0, <1>21, <2>2, ClockFrame DEF ListReturns, data, ClockInv
<1>22. CASE FetchReturns
  <2>1. cookie \in Users
    BY <1>22, Types DEF FetchReturns, SessionInv, Scopes
  <2> DEFINE docs == Merged(session.snap, session.fetch, server[cookie])
  <2>2. docs \in Docs /\ Before(docs, clock)
    <3>1. \A i \in Items : docs[i] \in {session.snap[i], server[cookie][i]}
      BY DEF Merged
    <3> QED BY <2>1, <3>1, MergedType, Types DEF Sessions, ClockInv, Before
  <2>3. store' = docs /\ Persist(docs) /\ SaveNow(docs)
    BY <1>22 DEF FetchReturns, SetStore
  <2> HIDE DEF docs
  <2>4. Before(pending'.docs, clock) /\ \A s \in Scopes : Before(disk'[s].docs, clock)
    BY <1>0, <2>2, <2>3, PersistBefore
  <2>5. Before(batch'.snap, clock)
    BY <1>0, <2>2, <2>3, SaveNowBefore DEF ClockInv
  <2>6. session'.snap = session.snap
    BY <1>22, Types DEF FetchReturns, Sessions
  <2> QED BY <1>0, <1>22, <2>2, <2>3, <2>4, <2>5, <2>6, ClockFrame DEF FetchReturns
<1>23. CASE SyncFails
  <2>1. Before(session'.snap, clock)
    BY <1>0, <1>17, <1>23, EmptyBefore, Basics DEF SyncFails
  <2> QED BY <1>0, <1>23, <2>1, ClockFrame DEF SyncFails, data
<1>24. CASE FirstSaveEnds
  BY <1>0, <1>24, EmptyBefore, ClockFrame DEF FirstSaveEnds, data
<1> QED BY <1>1, <1>2, <1>3, <1>4, <1>5, <1>6, <1>7, <1>9, <1>10, <1>11, <1>12, <1>13, <1>14, <1>15, <1>16,
           <1>18, <1>19, <1>20, <1>21, <1>22, <1>23, <1>24 DEF Next, Batch, SessionSteps, Answers, User

-----------------------------------------------------------------------------
(* The page between the steps of a session change.                         *)

LEMMA GhostsStay ==
  ASSUME [Next]_vars
  PROVE  (raced => raced') /\ (missed => missed')
<1>1. CASE PersistFires \/ TimerFires \/ RequestFails \/ UNCHANGED vars
  BY <1>1 DEF PersistFires, TimerFires, RequestFails, vars, ghosts
<1>2. CASE Upload
  <2>1. raced' = (raced \/ PutBack(store, batch.snap, batch.todo) # store) /\ missed' = missed
    BY <1>2 DEF Upload
  <2> QED BY <2>1
<1>3. CASE SendUpsert \/ SendDelete
  <2>1. UNCHANGED <<raced, missed>>
    BY <1>3 DEF SendUpsert, SendDelete
  <2> QED BY <2>1
<1>4. CASE \E i \in Items : Edit(i) \/ CreateProject(i) \/ DeleteProject(i) \/ SaveCanvas(i)
  BY <1>4 DEF Edit, CreateProject, Edited, DeleteProject, SaveCanvas
<1>5. CASE \E a \in Assets : DeleteAsset(a) \/ DeleteFails(a) \/ LinkAsset(a) \/ LinkFails(a)
  BY <1>5 DEF DeleteAsset, DeleteFails, LinkAsset, LinkFails, ghosts
<1>6. CASE \E a \in Assets : LinkReturns(a) \/ DeleteReturns(a)
  <2>1. raced' = (raced \/ session.pc # "idle") /\ missed' = missed
    BY <1>6 DEF LinkReturns, DeleteReturns
  <2> QED BY <2>1
<1>7. CASE Logout \/ \E u \in Users : Login(u) \/ \E i \in Items : OtherDevice(u, i)
  BY <1>7 DEF Logout, Login, OtherDevice, ghosts
<1>8. CASE Reload
  <2>1. raced' = (raced \/ pending.saved) /\ missed' = missed
    BY <1>8 DEF Reload
  <2> QED BY <2>1
<1>9. CASE Begin
  <2>1. raced' = (raced \/ Busy \/ calls # {}) /\ missed' = missed
    BY <1>9 DEF Begin
  <2> QED BY <2>1
<1>10. CASE FetchReturns
  <2>1. raced' = (raced \/ store # session.snap) /\ missed' = missed
    BY <1>10 DEF FetchReturns
  <2> QED BY <2>1
<1>11. CASE SyncFails
  <2>1. raced' = raced /\ missed' = (missed \/ session.pc = "fetch")
    BY <1>11 DEF SyncFails
  <2> QED BY <2>1
<1>12. CASE Restore \/ ListReturns \/ FirstSaveEnds
  <2>1. UNCHANGED <<raced, missed>>
    BY <1>12 DEF Restore, ListReturns, FirstSaveEnds, ghosts
  <2> QED BY <2>1
<1> QED BY <1>1, <1>2, <1>3, <1>4, <1>5, <1>6, <1>7, <1>8, <1>9, <1>10, <1>11, <1>12
        DEF Next, Batch, SessionSteps, Answers, User

LEMMA SaveNowBusy ==
  ASSUME NEW docs, SaveNow(docs)
  PROVE  Busy' => Busy \/ active # Nobody
BY DEF SaveNow, Busy

LEMMA NextPage ==
  ASSUME TypeOK, SessionInv, PageInv, ~raced', [Next]_vars
  PROVE  PageInv'
<1>0. session \in Sessions /\ batch \in Batches
  BY Types
<1>1. CASE PersistFires \/ UNCHANGED vars \/ \E u \in Users : \E i \in Items : OtherDevice(u, i)
  BY <1>1 DEF PersistFires, OtherDevice, vars, data, link, PageInv, Busy
<1>2. CASE TimerFires
  <2>1. Busy' => Busy \/ active # Nobody
    BY <1>2, SaveNowBusy DEF TimerFires
  <2> QED BY <1>2, <2>1 DEF TimerFires, PageInv, data
<1>3. CASE Upload \/ RequestFails \/ SendUpsert \/ SendDelete
  <2>1. /\ Busy /\ active # Nobody /\ UNCHANGED <<scope, active, session, calls>>
        /\ session.pc \notin {"restore", "list", "fetch"}
    BY <1>3 DEF Upload, RequestFails, SendUpsert, SendDelete, PageInv, Busy
  <2> QED BY <2>1 DEF PageInv
<1>4. CASE \/ \E i \in Items : Edit(i) \/ CreateProject(i) \/ DeleteProject(i) \/ SaveCanvas(i)
           \/ \E a \in Assets : DeleteAsset(a) \/ LinkAsset(a)
  <2>1. /\ session.pc = "idle" /\ scope # Nobody /\ active = scope
        /\ UNCHANGED <<scope, active, session>>
    BY <1>4 DEF Edit, CreateProject, Edited, DeleteProject, SaveCanvas, DeleteAsset, LinkAsset, LoggedIn, SessionInv,
       link
  <2> QED BY <2>1 DEF PageInv
<1>5. CASE Answers
  <2>1. PICK a \in Assets : LinkReturns(a) \/ LinkFails(a) \/ DeleteReturns(a) \/ DeleteFails(a)
    BY <1>5 DEF Answers
  <2>2. CASE LinkFails(a) \/ DeleteFails(a)
    <3>1. /\ calls' \subseteq calls
          /\ UNCHANGED <<pending, versions, scope, active, timer, batch, session>>
      BY <2>2 DEF LinkFails, DeleteFails, data, link
    <3> QED BY <3>1 DEF PageInv, Busy
  <2>3. CASE LinkReturns(a)
    <3>1. session.pc = "idle" /\ scope # Nobody /\ active = scope /\ UNCHANGED <<scope, active, session>>
      BY <2>3 DEF LinkReturns, PageInv, SessionInv
    <3> QED BY <3>1 DEF PageInv
  <2>4. CASE DeleteReturns(a)
    <3>1. session.pc = "idle" /\ scope # Nobody /\ active = scope /\ UNCHANGED <<scope, active, session>>
      BY <2>4, DeletedHere, ConstantsOK DEF LoggedIn
    <3> QED BY <3>1 DEF PageInv
  <2> QED BY <2>1, <2>2, <2>3, <2>4
<1>6. ASSUME NEW u \in Scopes, NEW from \in {"login", "load"}, Start(u, from)
      PROVE  session'.pc = "begin"
  BY <1>6, StartType
<1>7. CASE Logout \/ \E u \in Users : Login(u)
  <2>1. session'.pc = "begin"
    BY <1>6, <1>7, Basics DEF Logout, Login
  <2> QED BY <1>7, <2>1 DEF Logout, Login, data, link, PageInv, Busy
<1>8. CASE Reload
  <2>1. session'.pc = "begin"
    BY <1>6, <1>8, Basics, Types DEF Reload
  <2> QED BY <1>8, <2>1 DEF Reload, PageInv, Busy, NoBatch
<1>9. CASE Begin
  <2>1. /\ ~Busy /\ calls = {} /\ timer' = FALSE /\ versions' = Empty /\ UNCHANGED <<batch, calls, scope>>
        /\ session'.pc = "restore" /\ session'.user = session.user
    BY <1>0, <1>9 DEF Begin, Sessions
  <2>2. session.user # Nobody => pending' = NoSnapshot
    BY <1>9 DEF Begin, SessionInv
  <2> QED BY <2>1, <2>2 DEF PageInv, Busy
<1>10. CASE Restore
  BY <1>0, <1>10 DEF Restore, PageInv, Busy, NoSession, Sessions
<1>11. CASE ListReturns
  BY <1>0, <1>11 DEF ListReturns, PageInv, SessionInv, Busy, Sessions, data
<1>12. CASE FetchReturns
  BY <1>0, <1>12, SaveNowBusy DEF FetchReturns, PageInv, SessionInv, Sessions
<1>13. CASE SyncFails
  <2>1. session'.pc \in {"begin", "idle"}
    BY <1>6, <1>13, Basics DEF SyncFails, NoSession
  <2> QED BY <1>13, <2>1 DEF SyncFails, PageInv, Busy, data
<1>14. CASE FirstSaveEnds
  BY <1>14 DEF FirstSaveEnds, PageInv, Busy, NoSession, data
<1> QED BY <1>1, <1>2, <1>3, <1>4, <1>5, <1>7, <1>8, <1>9, <1>10, <1>11, <1>12, <1>13, <1>14
        DEF Next, Batch, SessionSteps, User

-----------------------------------------------------------------------------
(* Whose documents they are.                                               *)

LEMMA EmptyOf ==
  ASSUME NEW u
  PROVE  Of(Empty, u) /\ Of(NoSnapshot.docs, u) /\ Of(NoBatch.snap, u)
BY DEF Of, Empty, NoSnapshot, NoBatch

LEMMA StampOf ==
  ASSUME TypeOK, NEW docs \in Docs, NEW u, Of(docs, u), NEW i \in Items, docs[i] # Gone \/ Owner[i] = u, Tick
  PROVE  Of(Stamp(docs, i), u)
<1>1. Owner[i] = u
  BY DEF Of
<1>2. \A j \in Items \ {i} : Stamp(docs, i)[j] = docs[j]
  BY StampType
<1> QED BY <1>1, <1>2 DEF Of

LEMMA FlushedOwner ==
  ASSUME TypeOK, OwnerInv, NEW u \in Users
  PROVE  Of(Flushed(scope)[u].docs, u)
<1>1. CASE u = scope
  <2>1. Of(pending.docs, u) /\ Of(disk[u].docs, u)
    BY <1>1, ConstantsOK DEF OwnerInv
  <2>2. \A i \in Items : Flushed(scope)[u].docs[i] \in {pending.docs[i], disk[u].docs[i]}
    BY <1>1, FlushedType, Types
  <2> QED BY <2>1, <2>2 DEF Of
<1>2. CASE u # scope
  BY <1>2, FlushedType, Types, Basics DEF OwnerInv
<1> QED BY <1>1, <1>2

LEMMA PersistOwner ==
  ASSUME TypeOK, OwnerInv, NEW docs \in Docs, Persist(docs), scope # Nobody => Of(docs, scope)
  PROVE  /\ \A u \in Users : Of(disk'[u].docs, u)
         /\ scope # Nobody => Of(pending'.docs, scope)
<1>1. ASSUME NEW u \in Users PROVE Of(disk'[u].docs, u)
  <2>1. CASE u = scope
    BY <2>1, PersistType, ConstantsOK DEF OwnerInv, Of
  <2>2. CASE u # scope
    BY <2>2, PersistType, Basics DEF OwnerInv
  <2> QED BY <2>1, <2>2
<1>2. scope # Nobody => Of(pending'.docs, scope)
  BY PersistType DEF OwnerInv
<1> QED BY <1>1, <1>2

LEMMA BatchOfOwner ==
  ASSUME TypeOK, NEW docs \in Docs, NEW known \in Docs, NEW u, Of(docs, u)
  PROVE  Of(BatchOf(docs, known).snap, u)
BY BatchOfType, EmptyOf DEF Batches

LEMMA SaveNowOwner ==
  ASSUME TypeOK, SessionInv, OwnerInv, NEW docs \in Docs, scope # Nobody => Of(docs, scope), SaveNow(docs)
  PROVE  Busy' => Of(batch'.snap, scope)
<1>1. CASE batch' = batch
  BY <1>1 DEF OwnerInv, Busy
<1>2. CASE active # Nobody /\ batch' = BatchOf(docs, versions)
  BY <1>2, BatchOfOwner, Types DEF SessionInv
<1> QED BY <1>1, <1>2 DEF SaveNow

LEMMA ProceedOwner ==
  ASSUME TypeOK, NEW rest, rest.snap = batch.snap, NEW known \in Docs, Proceed(rest, known),
         Of(store, scope), Of(batch.snap, scope)
  PROVE  Of(batch'.snap, scope)
<1>1. Of(BatchOf(store, known).snap, scope)
  BY BatchOfOwner, Types
<1> QED BY <1>1, EmptyOf DEF Proceed, Drained

\* A request of a batch goes to the user of the scope.
LEMMA BusyUser ==
  ASSUME SessionInv, PageInv, Busy
  PROVE  scope # Nobody /\ active = scope /\ (cookie # Nobody => cookie = scope)
BY DEF SessionInv, PageInv

LEMMA EditedOwner ==
  ASSUME TypeOK, SessionInv, OwnerInv, NEW i \in Items, Edited(i)
  PROVE  /\ scope # Nobody /\ Owner[i] = scope /\ store' \in Docs /\ Of(store', scope)
         /\ UNCHANGED <<server, scope>>
         /\ \A u \in Users : Of(disk'[u].docs, u)
         /\ Of(pending'.docs, scope)
<1>1. scope # Nobody /\ Tick /\ store' = Stamp(store, i) /\ Persist(store') /\ UNCHANGED <<server, scope>>
  BY DEF Edited, LoggedIn, SetStore
<1>2. Owner[i] = scope
  BY <1>1 DEF Edited, MayEdit, OwnerInv, Of
<1>3. store' \in Docs /\ Of(store', scope)
  BY <1>1, <1>2, StampType, Types DEF OwnerInv, Of
<1> QED BY <1>1, <1>2, <1>3, PersistOwner

LEMMA NextOwner ==
  ASSUME TypeOK, SessionInv, PageInv, OwnerInv, ~raced, ~raced', [Next]_vars
  PROVE  OwnerInv'
<1>0. TypeOK'
  BY NextTypes
<1>1. CASE UNCHANGED vars
  BY <1>1 DEF vars, data, link, OwnerInv, Busy
<1>2. CASE PersistFires
  <2>1. \A u \in Users : Of(disk'[u].docs, u)
    BY <1>2, FlushedOwner DEF PersistFires
  <2> QED BY <1>2, <2>1, EmptyOf DEF PersistFires, OwnerInv, Busy, link
<1>3. CASE TimerFires
  <2>1. Busy' => Of(batch'.snap, scope)
    BY <1>3, SaveNowOwner, Types DEF TimerFires, OwnerInv
  <2> QED BY <1>3, <2>1 DEF TimerFires, OwnerInv, data
<1>4. CASE Upload
  <2>1. store' = store /\ Persist(store)
    BY <1>4 DEF Upload, SetStore
  <2>2. Busy /\ batch'.snap = batch.snap
    BY <1>4, Types DEF Upload, Batches, Busy
  <2> QED BY <1>4, <2>1, <2>2, PersistOwner, Types DEF Upload, OwnerInv
<1>5. CASE SendUpsert
  <2>1. PICK i \in Items :
           /\ cookie \in Users
           /\ server' = [server EXCEPT ![cookie][i] = batch.snap[i]]
           /\ Proceed([batch EXCEPT !.todo = @ \ {i}], versions')
    BY <1>5, Types DEF SendUpsert, FirstOf, Accepts, Scopes, Batches
  <2>2. Busy /\ cookie = scope /\ scope # Nobody /\ Of(batch.snap, scope) /\ Of(store, scope)
    BY <1>5, <2>1, BusyUser, ConstantsOK DEF SendUpsert, Busy, OwnerInv
  <2>3. \A u \in Users : Of(server'[u], u)
    BY <2>1, <2>2, Types DEF OwnerInv, Of, Docs
  <2>4. [batch EXCEPT !.todo = @ \ {i}].snap = batch.snap /\ versions' \in Docs
    BY <1>0, Types DEF Batches, TypeOK, Docs
  <2>5. Of(batch'.snap, scope)
    BY <2>1, <2>2, <2>4, ProceedOwner
  <2> QED BY <1>5, <2>3, <2>5 DEF SendUpsert, OwnerInv
<1>6. CASE SendDelete
  <2>1. PICK i \in Items :
           /\ cookie \in Users
           /\ server' = [server EXCEPT ![cookie][i] = Gone]
           /\ Proceed([batch EXCEPT !.gone = @ \ {i}], versions')
    BY <1>6, Types DEF SendDelete, FirstOf, Scopes, Batches
  <2>2. Busy /\ cookie = scope /\ scope # Nobody /\ Of(batch.snap, scope) /\ Of(store, scope)
    BY <1>6, <2>1, BusyUser, ConstantsOK DEF SendDelete, Busy, OwnerInv
  <2>3. \A u \in Users : Of(server'[u], u)
    BY <2>1, <2>2, Types DEF OwnerInv, Of, Docs
  <2>4. [batch EXCEPT !.gone = @ \ {i}].snap = batch.snap /\ versions' \in Docs
    BY <1>0, Types DEF Batches, TypeOK, Docs
  <2>5. Of(batch'.snap, scope)
    BY <2>1, <2>2, <2>4, ProceedOwner
  <2> QED BY <1>6, <2>3, <2>5 DEF SendDelete, OwnerInv
<1>7. CASE RequestFails
  BY <1>7 DEF RequestFails, OwnerInv, Busy, NoBatch, data
<1>8. CASE \E i \in Items : Edit(i)
  <2>1. PICK i \in Items : Edit(i)
    BY <1>8
  <2> QED BY <2>1, EditedOwner DEF Edit, OwnerInv, Busy
<1>9. CASE \E i \in Items : CreateProject(i)
  <2>1. PICK i \in Items : CreateProject(i)
    BY <1>9
  <2>2. Edited(i) /\ store' \in Docs /\ Of(store', scope)
    BY <2>1, EditedOwner DEF CreateProject
  <2>3. PICK b \in Batches : b = BatchOf(store', versions) /\ Of(b.snap, scope)
    BY <2>2, BatchOfType, BatchOfOwner, Types
  <2>4. Busy' => Of(batch'.snap, scope)
    <3>1. CASE Busy
      BY <2>1, <3>1, Types DEF CreateProject, Batches, OwnerInv
    <3>2. CASE ~Busy
      BY <2>1, <2>3, <3>2 DEF CreateProject, Batches
    <3> QED BY <3>1, <3>2
  <2> QED BY <2>2, <2>4, EditedOwner DEF OwnerInv
<1>10. CASE \/ \E i \in Items : DeleteProject(i)
            \/ \E a \in Assets : DeleteReturns(a)
  <2>1. PICK i \in Items : /\ store' = [store EXCEPT ![i] = Gone] /\ Persist(store')
                           /\ LoggedIn /\ UNCHANGED <<scope, batch>>
                           /\ \/ server' = server
                              \/ scope \in Users /\ server' = [server EXCEPT ![scope][i] = Gone]
    <3>1. CASE \E i \in Items : DeleteProject(i)
      BY <3>1 DEF DeleteProject, SetStore
    <3>2. CASE \E a \in Assets : DeleteReturns(a)
      BY <3>2, DeletedHere, ConstantsOK
    <3> QED BY <1>10, <3>1, <3>2
  <2>2. scope # Nobody /\ store' \in Docs /\ Of(store', scope)
    BY <1>0, <2>1, Types DEF LoggedIn, OwnerInv, Of, TypeOK, Docs
  <2>3. (\A u \in Users : Of(disk'[u].docs, u)) /\ Of(pending'.docs, scope)
    BY <2>1, <2>2, PersistOwner
  <2>4. \A u \in Users : Of(server'[u], u)
    <3>1. ASSUME NEW u \in Users, NEW j \in Items PROVE server'[u][j] \in {server[u][j], Gone}
      BY <2>1, Types DEF Docs
    <3> QED BY <3>1 DEF OwnerInv, Of
  <2> QED BY <2>1, <2>2, <2>3, <2>4 DEF OwnerInv, Busy
<1>11. CASE \E i \in Items : SaveCanvas(i)
  <2>1. PICK i \in Items : SaveCanvas(i)
    BY <1>11
  <2>2. scope \in Users /\ store[i] # Gone /\ Tick /\ store' = Stamp(store, i)
    BY <2>1, Types DEF SaveCanvas, LoggedIn, Scopes
  <2>3. store' \in Docs /\ Of(store', scope)
    BY <2>2, StampType, StampOf, Types, ConstantsOK DEF OwnerInv
  <2> DEFINE d == [j \in Items |-> IF j \in Projects THEN store'[j] ELSE disk[scope].docs[j]]
  <2>4. disk' = [disk EXCEPT ![scope] = [saved |-> TRUE, docs |-> d]]
    BY <2>1 DEF SaveCanvas
  <2>5. Of(d, scope)
    BY <2>2, <2>3 DEF OwnerInv, Of
  <2> HIDE DEF d
  <2>6. \A u \in Users : Of(disk'[u].docs, u)
    BY <2>2, <2>4, <2>5, Types, Basics DEF OwnerInv
  <2>7. Busy' => Of(batch'.snap, scope)
    BY <2>1, <2>3, SaveNowOwner DEF SaveCanvas
  <2> QED BY <2>1, <2>3, <2>6, <2>7, EmptyOf DEF SaveCanvas, OwnerInv
<1>12. CASE \E a \in Assets : LinkAsset(a) \/ LinkFails(a) \/ DeleteAsset(a) \/ DeleteFails(a)
  <2>1. PICK a \in Assets : LinkAsset(a) \/ LinkFails(a) \/ DeleteAsset(a) \/ DeleteFails(a)
    BY <1>12
  <2>2. CASE LinkAsset(a)
    <3>1. Busy' => Of(batch'.snap, scope)
      BY <2>2, SaveNowOwner, Types DEF LinkAsset, OwnerInv
    <3> QED BY <2>2, <3>1 DEF LinkAsset, data, OwnerInv
  <2>3. CASE LinkFails(a) \/ DeleteAsset(a)
    BY <2>3 DEF LinkFails, DeleteAsset, data, link, OwnerInv, Busy
  <2>4. CASE DeleteFails(a)
    <3>1. /\ UNCHANGED <<store, disk, pending, scope, batch>>
          /\ scope \in Users /\ a \in Items
          /\ server' = server \/ server' = [server EXCEPT ![scope][a] = Gone]
      BY <2>4, DeleteFailsHere
    <3>2. ASSUME NEW u \in Users, NEW j \in Items PROVE server'[u][j] \in {server[u][j], Gone}
      BY <3>1, Types DEF Docs
    <3> QED BY <3>1, <3>2 DEF OwnerInv, Of, Busy
  <2> QED BY <2>1, <2>2, <2>3, <2>4
<1>13. CASE \E a \in Assets : LinkReturns(a)
  <2>1. PICK a \in Assets : LinkReturns(a)
    BY <1>13
  <2>2. scope # Nobody /\ Tick /\ a \in Items /\ store' \in Docs /\ SaveNow(store') /\ UNCHANGED <<server, scope>>
    BY <1>0, <2>1, ConstantsOK DEF LinkReturns, PageInv, TypeOK, Docs
  <2>3. CASE store[a] = Gone
    <3>1. store' = store /\ UNCHANGED <<disk, pending>>
      BY <2>1, <2>3 DEF LinkReturns
    <3>2. Busy' => Of(batch'.snap, scope)
      BY <2>2, <3>1, SaveNowOwner DEF OwnerInv
    <3> QED BY <2>2, <3>1, <3>2 DEF OwnerInv
  <2>4. CASE store[a] # Gone
    <3>1. store' = Stamp(store, a) /\ Persist(store')
      BY <2>1, <2>4 DEF LinkReturns, SetStore
    <3>2. Of(store', scope)
      BY <2>2, <2>4, <3>1, StampType, Types DEF OwnerInv, Of
    <3>3. (\A u \in Users : Of(disk'[u].docs, u)) /\ Of(pending'.docs, scope)
      BY <2>2, <3>1, <3>2, PersistOwner
    <3>4. Busy' => Of(batch'.snap, scope)
      BY <2>2, <3>2, SaveNowOwner
    <3> QED BY <2>2, <3>2, <3>3, <3>4 DEF OwnerInv
  <2> QED BY <2>3, <2>4
<1>14. CASE \E u \in Users : \E i \in Items : OtherDevice(u, i)
  <2>1. PICK u \in Users, i \in Items : OtherDevice(u, i)
    BY <1>14
  <2>2. Owner[i] = u /\ server' = [server EXCEPT ![u][i] = clock + 1]
    BY <2>1 DEF OtherDevice
  <2>3. \A w \in Users : Of(server'[w], w)
    BY <2>2, Types DEF OwnerInv, Of, Docs
  <2> QED BY <2>1, <2>3 DEF OtherDevice, OwnerInv, Busy, link
<1>15. CASE Logout \/ \E u \in Users : Login(u)
  BY <1>15 DEF Logout, Login, data, link, OwnerInv, Busy
<1>16. CASE Reload
  <2>1. scope # Nobody => Of(store', scope)
    BY <1>16, Types DEF Reload, OwnerInv, Scopes
  <2> QED BY <1>16, <2>1, EmptyOf DEF Reload, OwnerInv, Busy, NoBatch
<1>17. CASE Begin
  <2>1. \A u \in Users : Of(disk'[u].docs, u)
    BY <1>17, FlushedOwner DEF Begin
  <2>2. scope # Nobody => Of(store', scope) /\ Of(pending'.docs, scope)
    <3>1. CASE UNCHANGED <<store, clock>> /\ pending' = NoSnapshot
      BY <3>1, EmptyOf DEF OwnerInv
    <3>2. CASE \E i \in Projects : /\ store[i] # Gone /\ Tick /\ store' = Stamp(store, i)
                                   /\ pending' = [saved |-> TRUE, docs |-> store']
      BY <3>2, StampOf, Types, Basics DEF OwnerInv
    <3> QED BY <1>17, <3>1, <3>2 DEF Begin
  <2>3. ~Busy' /\ UNCHANGED <<server, scope>>
    BY <1>17 DEF Begin, Busy
  <2> QED BY <2>1, <2>2, <2>3 DEF OwnerInv
<1>18. CASE Restore
  <2>1. ~Busy' /\ UNCHANGED <<server, disk>> /\ scope' = session.user
    BY <1>18 DEF Restore, PageInv, Busy
  <2>2. scope' # Nobody => Of(store', scope') /\ Of(pending'.docs, scope')
    BY <1>18, Types, EmptyOf DEF Restore, PageInv, OwnerInv, Sessions, Scopes
  <2> QED BY <2>1, <2>2 DEF OwnerInv
<1>19. CASE FetchReturns
  <2>1. cookie = scope /\ scope \in Users /\ store = session.snap
    BY <1>19, Types DEF FetchReturns, SessionInv, Scopes
  <2> DEFINE docs == Merged(session.snap, session.fetch, server[cookie])
  <2>2. docs \in Docs /\ Of(docs, scope)
    <3>1. \A i \in Items : docs[i] \in {session.snap[i], server[cookie][i]}
      BY DEF Merged
    <3> QED BY <2>1, <3>1, MergedType, Types, ConstantsOK DEF Sessions, OwnerInv, Of
  <2>3. store' = docs /\ Persist(docs) /\ SaveNow(docs)
    BY <1>19 DEF FetchReturns, SetStore
  <2> HIDE DEF docs
  <2>4. (\A u \in Users : Of(disk'[u].docs, u)) /\ (scope # Nobody => Of(pending'.docs, scope))
    BY <2>2, <2>3, PersistOwner
  <2>5. Busy' => Of(batch'.snap, scope)
    BY <2>2, <2>3, SaveNowOwner
  <2> QED BY <1>19, <2>2, <2>3, <2>4, <2>5 DEF FetchReturns, OwnerInv
<1>20. CASE ListReturns \/ SyncFails \/ FirstSaveEnds
  <2>1. UNCHANGED <<server, disk, store, pending, scope, batch>>
    BY <1>20 DEF ListReturns, SyncFails, FirstSaveEnds, data
  <2> QED BY <2>1 DEF OwnerInv, Busy
<1> QED BY <1>1, <1>2, <1>3, <1>4, <1>5, <1>6, <1>7, <1>8, <1>9, <1>10, <1>11, <1>12, <1>13, <1>14, <1>15, <1>16,
           <1>17, <1>18, <1>19, <1>20 DEF Next, Batch, SessionSteps, Answers, User

-----------------------------------------------------------------------------
(* The store, its timer and the disk.                                      *)

LEMMA FlushedLocal ==
  ASSUME TypeOK, LocalInv
  PROVE  /\ \A u \in Users : \A i \in Projects : ~Flushed(scope)[u].saved => Flushed(scope)[u].docs[i] = Gone
         /\ scope # Nobody => \A i \in Items : Flushed(scope)[scope].docs[i] = store[i]
         /\ \A u \in Users \ {scope} : Flushed(scope)[u] = disk[u]
<1>1. \A u \in Users \ {scope} : Flushed(scope)[u] = disk[u]
  BY FlushedType, Types, Basics
<1>2. ASSUME NEW u \in Users, NEW i \in Projects, ~Flushed(scope)[u].saved
      PROVE  Flushed(scope)[u].docs[i] = Gone
  <2>1. CASE u = scope
    <3>1. ~pending.saved /\ ~disk[u].saved /\ Flushed(scope)[u].docs[i] = disk[u].docs[i]
      BY <1>2, <2>1, FlushedType, Types, Basics
    <3> QED BY <3>1 DEF LocalInv
  <2>2. CASE u # scope
    BY <1>1, <1>2, <2>2 DEF LocalInv
  <2> QED BY <2>1, <2>2
<1>3. ASSUME scope # Nobody, NEW i \in Items PROVE Flushed(scope)[scope].docs[i] = store[i]
  BY <1>3, FlushedType, Types DEF LocalInv, Projects
<1> QED BY <1>1, <1>2, <1>3

LEMMA PersistLocal ==
  ASSUME TypeOK, LocalInv, NEW docs \in Docs, Persist(docs), store' = docs, scope' = scope
  PROVE  LocalInv'
<1>1. ASSUME NEW u \in Users, NEW i \in Projects, ~disk'[u].saved PROVE disk'[u].docs[i] = Gone
  <2>1. disk'[u].saved = disk[u].saved /\ disk'[u].docs[i] = disk[u].docs[i]
    BY PersistType, Basics DEF Projects
  <2> QED BY <1>1, <2>1 DEF LocalInv
<1>2. ASSUME NEW a \in Assets PROVE docs[a] = disk'[scope].docs[a]
  BY PersistType, ConstantsOK
<1>3. ASSUME scope # Nobody, NEW i \in Projects
      PROVE  docs[i] = IF pending'.saved THEN pending'.docs[i] ELSE disk'[scope].docs[i]
  <2>1. disk'[scope].docs[i] = disk[scope].docs[i]
    BY PersistType, Basics DEF Projects
  <2>2. CASE \E j \in Projects : docs[j] # store[j]
    BY <2>2, PersistType
  <2>3. CASE \A j \in Projects : docs[j] = store[j]
    BY <1>3, <2>1, <2>3, PersistType DEF LocalInv
  <2> QED BY <2>2, <2>3
<1> QED BY <1>1, <1>2, <1>3 DEF LocalInv

LEMMA NextLocal ==
  ASSUME TypeOK, SessionInv, PageInv, LocalInv, [Next]_vars
  PROVE  LocalInv'
<1>0. TypeOK' /\ store' \in Docs
  BY NextTypes DEF TypeOK, Docs
<1>1. ASSUME UNCHANGED <<store, disk, pending, scope>> PROVE LocalInv'
  BY <1>1 DEF LocalInv
<1>2. ASSUME Persist(store'), scope' = scope PROVE LocalInv'
  BY <1>0, <1>2, PersistLocal
<1>3. CASE PersistFires
  <2>1. disk' = Flushed(scope) /\ pending' = NoSnapshot /\ store' = store /\ scope' = scope
    BY <1>3 DEF PersistFires, link
  <2> QED BY <2>1, FlushedLocal, ConstantsOK DEF LocalInv, NoSnapshot, Projects
<1>4. CASE \/ TimerFires \/ SendUpsert \/ SendDelete \/ RequestFails \/ UNCHANGED vars
           \/ ListReturns \/ SyncFails \/ FirstSaveEnds
           \/ Logout \/ \E u \in Users : Login(u) \/ \E i \in Items : OtherDevice(u, i)
           \/ \E a \in Assets : LinkAsset(a) \/ LinkFails(a) \/ DeleteAsset(a) \/ DeleteFails(a)
  <2>1. UNCHANGED <<store, disk, pending, scope>>
    BY <1>4 DEF TimerFires, SendUpsert, SendDelete, RequestFails, vars, ListReturns, SyncFails, FirstSaveEnds,
       Logout, Login, OtherDevice, LinkAsset, LinkFails, DeleteAsset, DeleteFails, data, link
  <2> QED BY <1>1, <2>1
<1>5. CASE \/ Upload \/ FetchReturns
           \/ \E i \in Items : Edit(i) \/ CreateProject(i) \/ DeleteProject(i)
           \/ \E a \in Assets : DeleteReturns(a)
  <2>1. Persist(store') /\ scope' = scope
    BY <1>5 DEF Upload, FetchReturns, Edit, CreateProject, Edited, DeleteProject, DeleteReturns, SetStore
  <2> QED BY <1>2, <2>1
<1>6. CASE \E a \in Assets : LinkReturns(a)
  <2>1. scope' = scope /\ (Persist(store') \/ UNCHANGED <<store, disk, pending>>)
    BY <1>6 DEF LinkReturns, SetStore
  <2> QED BY <1>1, <1>2, <2>1
<1>7. CASE \E i \in Items : SaveCanvas(i)
  <2>1. PICK i \in Items : SaveCanvas(i)
    BY <1>7
  <2>2. /\ scope \in Users /\ i \in Projects /\ Tick /\ store' = Stamp(store, i) /\ pending' = NoSnapshot
        /\ scope' = scope
    BY <2>1, Types DEF SaveCanvas, LoggedIn, Scopes
  <2> DEFINE d == [j \in Items |-> IF j \in Projects THEN store'[j] ELSE disk[scope].docs[j]]
  <2>3. disk' = [disk EXCEPT ![scope] = [saved |-> TRUE, docs |-> d]]
    BY <2>1 DEF SaveCanvas
  <2>4. \A j \in Items : d[j] = store'[j]
    <3>1. \A j \in Assets : store'[j] = store[j] /\ j \in Items
      BY <2>2, StampType, Types, ConstantsOK DEF Projects
    <3> QED BY <2>2, <3>1, ConstantsOK DEF LocalInv, Projects
  <2> HIDE DEF d
  <2>5. disk'[scope] = [saved |-> TRUE, docs |-> d] /\ \A u \in Users \ {scope} : disk'[u] = disk[u]
    BY <2>2, <2>3, Types, Basics
  <2> QED BY <2>2, <2>4, <2>5, ConstantsOK DEF LocalInv, NoSnapshot, Projects
<1>8. CASE Reload
  BY <1>8 DEF Reload, LocalInv, NoSnapshot, Projects
<1>9. CASE Begin
  <2>1. disk' = Flushed(scope) /\ scope' = scope
    BY <1>9 DEF Begin
  <2>2. CASE UNCHANGED <<store, clock>> /\ pending' = NoSnapshot
    BY <2>1, <2>2, FlushedLocal, ConstantsOK DEF LocalInv, NoSnapshot, Projects
  <2>3. CASE \E i \in Projects : /\ Tick /\ store' = Stamp(store, i)
                                 /\ pending' = [saved |-> TRUE, docs |-> store']
    <3>1. \A a \in Assets : store'[a] = store[a]
      BY <2>3, StampType, Types, Basics, ConstantsOK DEF Projects
    <3> QED BY <2>1, <2>3, <3>1, FlushedLocal, ConstantsOK DEF LocalInv
  <2> QED BY <1>9, <2>2, <2>3 DEF Begin
<1>10. CASE Restore
  <2>1. scope' = session.user /\ store' = disk[session.user].docs /\ disk' = disk
        /\ session.pc = "restore" /\ session.user \in Scopes
    BY <1>10, Types DEF Restore, Sessions
  <2>2. CASE session.user = Nobody
    BY <2>1, <2>2 DEF LocalInv
  <2>3. CASE session.user # Nobody
    <3>1. pending = NoSnapshot /\ session.user \in Users
      BY <2>1, <2>3 DEF PageInv, Scopes
    <3>2. CASE disk[session.user].saved
      BY <1>10, <2>1, <3>1, <3>2 DEF Restore, LocalInv, NoSnapshot
    <3>3. CASE ~disk[session.user].saved
      <4>1. pending'.saved /\ \A i \in Projects : pending'.docs[i] = Gone
        BY <1>10, <3>3, Basics DEF Restore, Empty
      <4> QED BY <2>1, <3>1, <3>3, <4>1 DEF LocalInv
    <3> QED BY <3>2, <3>3
  <2> QED BY <2>2, <2>3
<1> QED BY <1>3, <1>4, <1>5, <1>6, <1>7, <1>8, <1>9, <1>10 DEF Next, Batch, SessionSteps, Answers, User

-----------------------------------------------------------------------------
(* The last edit of a document.                                            *)

\* A step that leaves the scope alone keeps every edit which it does not take
\* back in the store.
LEMMA KeptStep ==
  ASSUME TypeOK, TypeOK', KeptInv, scope' = scope, session'.pc # "restore",
         \A u \in Users : deleted[u] \subseteq deleted'[u],
         \A u \in Users \ {scope} : disk'[u] = disk[u],
         \A i \in Items :
            \/ latest'[i] = latest[i] /\ (scope # Nobody => store[i] <= store'[i])
            \/ scope = Owner[i] /\ (latest'[i] <= store'[i] \/ i \in deleted'[scope])
  PROVE  KeptInv'
<1> SUFFICES ASSUME NEW i \in Items, i \notin deleted'[Owner[i]]
             PROVE  latest'[i] <= IF scope = Owner[i] THEN store'[i] ELSE disk'[Owner[i]].docs[i]
  BY DEF KeptInv
<1> DEFINE u == Owner[i]
<1>1. u \in Users /\ u # Nobody /\ i \notin deleted[u]
  BY ConstantsOK
<1>2. store[i] \in Nat /\ store'[i] \in Nat /\ latest[i] \in Nat
  BY Types, Basics DEF TypeOK, Docs
<1>3. CASE scope = u
  BY <1>1, <1>2, <1>3 DEF KeptInv
<1>4. CASE scope # u
  BY <1>1, <1>4 DEF KeptInv
<1> QED BY <1>3, <1>4

LEMMA NextKept ==
  ASSUME TypeOK, SessionInv, PageInv, ClockInv, OwnerInv, LocalInv, KeptInv, ~raced', [Next]_vars
  PROVE  KeptInv'
<1>0. /\ TypeOK' /\ store \in Docs /\ store' \in Docs /\ clock \in Nat
      /\ \A i \in Items : store[i] \in Nat /\ store[i] <= store[i]
  <2>1. TypeOK' /\ store \in Docs /\ clock \in Times
    BY NextTypes, Types
  <2>2. store' \in Docs
    BY <2>1 DEF TypeOK, Docs
  <2>3. clock \in Nat /\ \A i \in Items : store[i] \in Nat
    BY <2>1, Basics DEF Docs
  <2> QED BY <2>1, <2>2, <2>3
<1>1. ASSUME UNCHANGED <<store, disk, scope, session, latest, deleted>> PROVE KeptInv'
  BY <1>1 DEF KeptInv
<1>2. ASSUME UNCHANGED <<store, disk, scope, latest, deleted>>, session'.pc # "restore" PROVE KeptInv'
  BY <1>2 DEF KeptInv
<1>3. CASE PersistFires
  <2>1. UNCHANGED <<store, scope, session, latest, deleted>> /\ disk' = Flushed(scope)
    BY <1>3 DEF PersistFires, link, ghosts
  <2>2. (\A u \in Users \ {scope} : disk'[u] = disk[u])
        /\ (scope # Nobody => \A i \in Items : disk'[scope].docs[i] = store[i])
    BY <2>1, FlushedLocal
  <2> QED BY <2>1, <2>2, ConstantsOK DEF KeptInv
<1>4. CASE \/ TimerFires \/ SendUpsert \/ SendDelete \/ RequestFails \/ UNCHANGED vars
           \/ \E u \in Users : \E i \in Items : OtherDevice(u, i)
           \/ \E a \in Assets : LinkAsset(a) \/ LinkFails(a) \/ DeleteAsset(a)
  <2>1. UNCHANGED <<store, disk, scope, session, latest, deleted>>
    BY <1>4 DEF TimerFires, SendUpsert, SendDelete, RequestFails, vars, OtherDevice, LinkAsset, LinkFails,
       DeleteAsset, data, link, ghosts
  <2> QED BY <1>1, <2>1
<1>5. CASE ListReturns \/ FirstSaveEnds \/ Logout \/ SyncFails \/ \E u \in Users : Login(u)
  <2>1. UNCHANGED <<store, disk, scope, latest, deleted>>
    BY <1>5 DEF ListReturns, FirstSaveEnds, Logout, SyncFails, Login, data, link, ghosts
  <2>2. ASSUME NEW u \in Scopes, NEW from \in {"login", "load"}, Start(u, from) PROVE session'.pc # "restore"
    BY <2>2, StartType
  <2>3. session'.pc # "restore"
    BY <1>5, <2>2, Basics, Types DEF ListReturns, FirstSaveEnds, Logout, SyncFails, Login, NoSession, Sessions
  <2> QED BY <1>2, <2>1, <2>3
<1>6. CASE Upload
  <2> DEFINE docs == PutBack(store, batch.snap, batch.todo)
  <2>1. store' = docs /\ Persist(docs) /\ raced' = (raced \/ docs # store) /\ docs \in Docs
    BY <1>6, PutBackType, Types DEF Upload, SetStore, Batches
  <2> HIDE DEF docs
  <2>2. store' = store /\ \A u \in Users \ {scope} : disk'[u] = disk[u]
    BY <2>1, PersistType, Basics
  <2>3. session'.pc # "restore"
    BY <1>6 DEF Upload, PageInv, Busy
  <2> QED BY <1>0, <1>6, <2>2, <2>3, KeptStep DEF Upload
<1>7. ASSUME NEW i \in Items, Edited(i) PROVE KeptInv'
  <2>1. Owner[i] = scope /\ store' = Stamp(store, i) /\ Persist(store') /\ Tick
    BY <1>7, EditedOwner DEF Edited, SetStore
  <2>2. /\ UNCHANGED <<scope, session, deleted>> /\ session.pc = "idle"
        /\ latest' = [latest EXCEPT ![i] = clock + 1]
    BY <1>7 DEF Edited, LoggedIn
  <2>3. \A u \in Users \ {scope} : disk'[u] = disk[u]
    BY <1>0, <2>1, PersistType, Basics
  <2>4. store'[i] = clock + 1 /\ \A j \in Items \ {i} : store'[j] = store[j]
    BY <1>0, <2>1, StampType
  <2>5. latest'[i] = clock + 1 /\ latest'[i] <= clock + 1 /\ \A j \in Items \ {i} : latest'[j] = latest[j]
    <3>1. latest'[i] = clock + 1 /\ \A j \in Items \ {i} : latest'[j] = latest[j]
      BY <2>2, Types DEF Docs
    <3>2. clock + 1 <= clock + 1
      BY <1>0
    <3> QED BY <3>1, <3>2
  <2> QED BY <1>0, <2>1, <2>2, <2>3, <2>4, <2>5, KeptStep
<1>8. CASE \E i \in Items : Edit(i) \/ CreateProject(i)
  BY <1>7, <1>8 DEF Edit, CreateProject
<1>9. CASE \/ \E i \in Items : DeleteProject(i)
           \/ \E a \in Assets : DeleteReturns(a)
  <2>1. PICK i \in Items : /\ LoggedIn /\ store' = [store EXCEPT ![i] = Gone]
                           /\ Persist(store') /\ deleted' = [deleted EXCEPT ![scope] = @ \union {i}]
                           /\ UNCHANGED <<scope, session, latest>>
    <3>1. CASE \E i \in Items : DeleteProject(i)
      BY <3>1 DEF DeleteProject, SetStore
    <3>2. CASE \E a \in Assets : DeleteReturns(a)
      BY <3>2, DeletedHere
    <3> QED BY <1>9, <3>1, <3>2
  <2>2. /\ scope \in Users /\ session'.pc # "restore"
        /\ store[i] # Gone => Owner[i] = scope
        /\ store[i] = Gone => store'[i] = store[i] /\ store[i] <= store[i]
    BY <1>0, <2>1, Types DEF LoggedIn, Scopes, OwnerInv, Of, Docs, Gone
  <2>3. \A u \in Users \ {scope} : disk'[u] = disk[u]
    BY <1>0, <2>1, PersistType, Basics
  <2>4. i \in deleted'[scope] /\ \A u \in Users : deleted[u] \subseteq deleted'[u]
    BY <2>1, <2>2, Types
  <2>5. \A j \in Items \ {i} : store'[j] = store[j]
    BY <1>0, <2>1 DEF Docs
  <2> QED BY <1>0, <2>1, <2>2, <2>3, <2>4, <2>5, KeptStep
<1>10. CASE \E i \in Items : SaveCanvas(i)
  <2>1. PICK i \in Items : SaveCanvas(i)
    BY <1>10
  <2>2. /\ scope \in Users /\ store[i] # Gone /\ Tick /\ store' = Stamp(store, i)
        /\ UNCHANGED <<scope, session, deleted>> /\ session.pc = "idle"
        /\ latest' = [latest EXCEPT ![i] = clock + 1]
    BY <2>1, Types DEF SaveCanvas, LoggedIn, Scopes
  <2>3. Owner[i] = scope
    BY <2>2, ConstantsOK DEF OwnerInv, Of
  <2>4. \A u \in Users \ {scope} : disk'[u] = disk[u]
    BY <2>1, Types, Basics DEF SaveCanvas
  <2>5. store'[i] = clock + 1 /\ \A j \in Items \ {i} : store'[j] = store[j]
    BY <1>0, <2>2, StampType
  <2>6. latest'[i] = clock + 1 /\ latest'[i] <= clock + 1 /\ \A j \in Items \ {i} : latest'[j] = latest[j]
    <3>1. latest'[i] = clock + 1 /\ \A j \in Items \ {i} : latest'[j] = latest[j]
      BY <2>2, Types DEF Docs
    <3>2. clock + 1 <= clock + 1
      BY <1>0
    <3> QED BY <3>1, <3>2
  <2> QED BY <1>0, <2>2, <2>3, <2>4, <2>5, <2>6, KeptStep
<1>11. CASE \E a \in Assets : LinkReturns(a)
  <2>1. PICK a \in Assets : LinkReturns(a)
    BY <1>11
  <2>2. /\ scope \in Users /\ Tick /\ a \in Items /\ UNCHANGED <<scope, session, deleted>>
        /\ session.pc = "idle" /\ raced' = (raced \/ session.pc # "idle")
    <3>1. raced' = (raced \/ session.pc # "idle")
      BY <2>1 DEF LinkReturns
    <3>2. session.pc = "idle"
      BY <3>1
    <3> QED BY <2>1, <3>1, <3>2, Types, ConstantsOK DEF LinkReturns, PageInv, Scopes
  <2>3. CASE store[a] = Gone
    <3>1. UNCHANGED <<store, disk, latest>>
      BY <2>1, <2>3 DEF LinkReturns
    <3> QED BY <1>1, <2>2, <3>1
  <2>4. CASE store[a] # Gone
    <3>1. store' = Stamp(store, a) /\ Persist(store') /\ latest' = [latest EXCEPT ![a] = clock + 1]
      BY <2>1, <2>4 DEF LinkReturns, SetStore
    <3>2. Owner[a] = scope
      BY <2>2, <2>4, ConstantsOK DEF OwnerInv, Of
    <3>3. \A u \in Users \ {scope} : disk'[u] = disk[u]
      BY <1>0, <3>1, PersistType, Basics
    <3>4. store'[a] = clock + 1 /\ \A j \in Items \ {a} : store'[j] = store[j]
      BY <1>0, <2>2, <3>1, StampType
    <3>5. latest'[a] = clock + 1 /\ latest'[a] <= clock + 1 /\ \A j \in Items \ {a} : latest'[j] = latest[j]
      <4>1. latest'[a] = clock + 1 /\ \A j \in Items \ {a} : latest'[j] = latest[j]
        BY <2>2, <3>1, Types DEF Docs
      <4>2. clock + 1 <= clock + 1
        BY <1>0
      <4> QED BY <4>1, <4>2
    <3> QED BY <1>0, <2>2, <3>2, <3>3, <3>4, <3>5, KeptStep
  <2> QED BY <2>3, <2>4
<1>12. CASE Reload
  <2>1. PICK u \in Scopes : Start(u, "load")
    BY <1>12, Types, Basics DEF Reload
  <2>2. session'.pc # "restore"
    BY <2>1, StartType
  <2>3. ~pending.saved
    <3>1. raced' = (raced \/ pending.saved)
      BY <1>12 DEF Reload
    <3> QED BY <3>1
  <2>4. scope # Nobody => \A i \in Items : store'[i] = store[i]
    BY <1>12, <2>3 DEF Reload, LocalInv, Projects
  <2> QED BY <1>0, <1>12, <2>2, <2>4, KeptStep DEF Reload
<1>13. CASE Begin
  <2>1. UNCHANGED <<scope, latest, deleted>> /\ disk' = Flushed(scope)
    BY <1>13 DEF Begin
  <2>2. (\A u \in Users \ {scope} : disk'[u] = disk[u])
        /\ (scope # Nobody => \A i \in Items : disk'[scope].docs[i] = store[i])
    BY <2>1, FlushedLocal
  <2>3. \A i \in Items : store[i] <= store'[i]
    <3>1. CASE store' = store
      BY <1>0, <3>1
    <3>2. CASE \E i \in Projects : Tick /\ store' = Stamp(store, i)
      <4>1. PICK j \in Items : Tick /\ store' = Stamp(store, j)
        BY <3>2, Basics
      <4>2. store'[j] = clock + 1 /\ \A i \in Items \ {j} : store'[i] = store[i]
        BY <1>0, <4>1, StampType
      <4>3. store[j] <= clock /\ clock \in Nat
        BY Types, Basics DEF ClockInv, Before
      <4> QED BY <1>0, <4>2, <4>3
    <3> QED BY <1>13, <3>1, <3>2 DEF Begin
  <2> QED
    <3> SUFFICES ASSUME NEW i \in Items, i \notin deleted[Owner[i]]
                 PROVE  /\ latest[i] <= IF scope = Owner[i] THEN store'[i] ELSE disk'[Owner[i]].docs[i]
                        /\ scope = Owner[i] => latest[i] <= disk'[scope].docs[i]
      BY <2>1 DEF KeptInv
    <3>1. Owner[i] \in Users /\ Owner[i] # Nobody
      BY ConstantsOK
    <3>2. CASE scope # Owner[i]
      BY <2>2, <3>1, <3>2 DEF KeptInv
    <3>3. CASE scope = Owner[i]
      <4>1. latest[i] <= store[i] /\ disk'[scope].docs[i] = store[i] /\ store[i] <= store'[i]
        BY <2>2, <2>3, <3>1, <3>3 DEF KeptInv
      <4>2. latest[i] \in Nat /\ store[i] \in Nat /\ store'[i] \in Nat
        BY <1>0, Types, Basics DEF Docs
      <4> QED BY <3>3, <4>1, <4>2
    <3> QED BY <3>2, <3>3
<1>14. CASE Restore
  <2>1. /\ session.pc = "restore" /\ scope' = session.user /\ store' = disk[session.user].docs
        /\ UNCHANGED <<disk, latest, deleted>> /\ session'.pc # "restore"
    BY <1>14, Types DEF Restore, ghosts, NoSession, Sessions
  <2> QED BY <2>1, ConstantsOK DEF KeptInv
<1>15. CASE FetchReturns
  <2>1. cookie \in Users /\ store = session.snap
    <3>1. raced' = (raced \/ store # session.snap)
      BY <1>15 DEF FetchReturns
    <3> QED BY <1>15, <3>1, Types DEF FetchReturns, SessionInv, Scopes
  <2> DEFINE docs == Merged(session.snap, session.fetch, server[cookie])
  <2>2. docs \in Docs /\ \A i \in Items : store[i] <= docs[i]
    <3>1. \A i \in Items : docs[i] = IF i \in session.fetch /\ server[cookie][i] > store[i]
                                     THEN server[cookie][i] ELSE store[i]
      BY <2>1 DEF Merged
    <3>2. \A i \in Items : store[i] \in Nat /\ server[cookie][i] \in Nat
      BY <2>1, Types, Basics DEF Docs
    <3> QED BY <2>1, <3>1, <3>2, MergedType, Types DEF Sessions
  <2>3. store' = docs /\ Persist(docs)
    BY <1>15 DEF FetchReturns, SetStore
  <2> HIDE DEF docs
  <2>4. \A u \in Users \ {scope} : disk'[u] = disk[u]
    BY <2>2, <2>3, PersistType, Basics
  <2>5. session'.pc # "restore"
    BY <1>15, Types DEF FetchReturns, Sessions
  <2> QED BY <1>0, <1>15, <2>2, <2>3, <2>4, <2>5, KeptStep DEF FetchReturns
<1>16. CASE \E a \in Assets : DeleteFails(a)
  <2>1. PICK a \in Assets : DeleteFails(a)
    BY <1>16
  <2>2. /\ UNCHANGED <<store, disk, scope, session, latest>> /\ session'.pc # "restore"
        /\ \A u \in Users : deleted[u] \subseteq deleted'[u]
    BY <2>1, DeleteFailsHere, Types
  <2>3. \A j \in Items : store[j] <= store[j]
    BY <1>0, Types, Basics DEF Docs
  <2> QED BY <1>0, <2>2, <2>3, KeptStep
<1> QED BY <1>3, <1>4, <1>5, <1>6, <1>8, <1>9, <1>10, <1>11, <1>12, <1>13, <1>14, <1>15, <1>16
        DEF Next, Batch, SessionSteps, Answers, User

-----------------------------------------------------------------------------
(* What has been sent.                                                     *)

LEMMA BatchOfSent ==
  ASSUME TypeOK, NEW docs \in Docs, NEW known \in Docs,
         store' = docs, versions' = known, batch' = BatchOf(docs, known)
  PROVE  BatchSent' /\ (~Busy' => store' = versions')
<1>1. PICK b \in Batches : b = BatchOf(docs, known)
  BY BatchOfType
<1>2. b.pc = "idle" => docs = known
  BY <1>1, BatchOfType
<1>3. b.pc # "idle" => b.snap = docs /\ b.todo = Dirty(docs, known) /\ b.gone = Missing(docs, known)
  BY <1>1, BatchOfType
<1>4. \A i \in Items : i \notin Dirty(docs, known) \union Missing(docs, known) => known[i] = docs[i]
  BY DEF Dirty, Missing
<1>5. \A i \in Missing(docs, known) : docs[i] = Gone
  BY DEF Missing
<1> QED BY <1>1, <1>2, <1>3, <1>4, <1>5 DEF BatchSent, Busy

LEMMA SaveNowSent ==
  ASSUME TypeOK, PageInv, SentInv, store' \in Docs, versions' = versions, SaveNow(store')
  PROVE  BatchSent' /\ (active # Nobody /\ ~Busy' => store' = versions')
<1>1. CASE active = Nobody
  BY <1>1 DEF SaveNow, PageInv, BatchSent, Busy
<1>2. CASE active # Nobody /\ Busy
  BY <1>2 DEF SaveNow, SentInv, BatchSent, Busy
<1>3. CASE active # Nobody /\ ~Busy
  BY <1>3, BatchOfSent, Types DEF SaveNow
<1> QED BY <1>1, <1>2, <1>3

LEMMA ProceedSent ==
  ASSUME TypeOK, NEW rest \in Batches, rest.pc # "idle", NEW known \in Docs, Proceed(rest, known),
         store' = store, versions' = known,
         ~queued => \A i \in Items : /\ store[i] = rest.snap[i]
                                     /\ i \notin rest.todo \union rest.gone => known[i] = rest.snap[i],
         \A i \in rest.gone : rest.snap[i] = Gone
  PROVE  BatchSent' /\ (~Busy' => store' = versions')
<1>1. CASE rest.todo \union rest.gone # {}
  BY <1>1 DEF Proceed, BatchSent, Busy
<1>2. CASE rest.todo \union rest.gone = {} /\ queued
  BY <1>2, BatchOfSent, Types DEF Proceed, Drained
<1>3. CASE rest.todo \union rest.gone = {} /\ ~queued
  <2>1. \A i \in Items : store[i] = known[i]
    BY <1>3
  <2>2. store = known
    BY <2>1, Types DEF Docs
  <2> QED BY <1>3, <2>2 DEF Proceed, Drained, BatchSent, Busy, NoBatch
<1> QED BY <1>1, <1>2, <1>3

\* A change of the stores arms the timer or asks the batch for another round.
LEMMA ScheduleSent ==
  ASSUME SessionInv, session.pc \in {"idle", "save"}, scope # Nobody, Schedule
  PROVE  IF Busy THEN queued' ELSE timer'
BY DEF SessionInv, Schedule

LEMMA NextSent ==
  ASSUME TypeOK, SessionInv, PageInv, ClockInv, SentInv, ~raced', [Next]_vars
  PROVE  SentInv'
<1>0. TypeOK' /\ store' \in Docs /\ versions' \in Docs /\ session \in Sessions /\ batch \in Batches
  BY NextTypes, Types DEF TypeOK, Docs
<1>1. ASSUME UNCHANGED <<store, versions, batch, queued, session, scope, failed, timer>> PROVE SentInv'
  BY <1>1 DEF SentInv, BatchSent, Busy
<1>2. CASE \/ PersistFires \/ UNCHANGED vars
           \/ \E u \in Users : \E i \in Items : OtherDevice(u, i)
           \/ \E a \in Assets : LinkFails(a) \/ DeleteAsset(a) \/ DeleteFails(a)
  <2>1. UNCHANGED <<store, versions, batch, queued, session, scope, failed, timer>>
    BY <1>2 DEF PersistFires, OtherDevice, LinkFails, DeleteAsset, DeleteFails, vars, data, link, ghosts
  <2> QED BY <1>1, <2>1
<1>3. ASSUME SaveNow(store'), UNCHANGED <<versions, session, scope>> PROVE SentInv'
  <2>1. BatchSent' /\ (active # Nobody /\ ~Busy' => store' = versions')
    BY <1>0, <1>3, SaveNowSent
  <2> QED BY <1>3, <2>1 DEF SentInv, SessionInv
<1>4. CASE TimerFires
  <2>1. SaveNow(store) /\ UNCHANGED <<store, versions, session, scope>>
    BY <1>4 DEF TimerFires, data
  <2>2. SaveNow(store')
    BY <2>1 DEF SaveNow
  <2> QED BY <1>3, <2>1, <2>2
<1>5. CASE Upload
  <2> DEFINE docs == PutBack(store, batch.snap, batch.todo)
  <2>1. store' = docs /\ raced' = (raced \/ docs # store)
    BY <1>5 DEF Upload, SetStore
  <2> HIDE DEF docs
  <2>2. store' = store
    BY <2>1
  <2>3. Busy /\ Busy' /\ batch'.snap = batch.snap /\ batch'.todo = batch.todo /\ batch'.gone = batch.gone
    BY <1>0, <1>5 DEF Upload, Busy, Batches
  <2> QED BY <1>5, <2>2, <2>3 DEF Upload, SentInv, BatchSent
<1>6. CASE SendUpsert
  <2>1. PICK i \in batch.todo :
           /\ versions' = [versions EXCEPT ![i] = batch.snap[i]]
           /\ Proceed([batch EXCEPT !.todo = @ \ {i}], versions')
    BY <1>6 DEF SendUpsert, FirstOf
  <2>2. batch.pc = "upsert" /\ Busy /\ store' = store /\ UNCHANGED <<scope, session>>
    BY <1>6 DEF SendUpsert, Busy
  <2> DEFINE rest == [batch EXCEPT !.todo = @ \ {i}]
  <2>3. rest \in Batches
    BY <1>0 DEF Batches
  <2>4. rest.pc = batch.pc /\ rest.snap = batch.snap /\ rest.todo = batch.todo \ {i} /\ rest.gone = batch.gone
    BY <1>0 DEF Batches
  <2>5. \A j \in Items : versions'[j] = IF j = i THEN batch.snap[i] ELSE versions[j]
    BY <2>1, Types DEF Docs
  <2>6. Proceed(rest, versions') /\ rest.pc # "idle"
    BY <2>1, <2>2, <2>4
  <2> HIDE DEF rest
  <2>7. ~queued => \A j \in Items : /\ store[j] = rest.snap[j]
                                    /\ j \notin rest.todo \union rest.gone => versions'[j] = rest.snap[j]
    BY <2>2, <2>4, <2>5 DEF SentInv, BatchSent
  <2>8. \A j \in rest.gone : rest.snap[j] = Gone
    BY <2>2, <2>4 DEF SentInv, BatchSent
  <2>9. BatchSent' /\ (~Busy' => store' = versions')
    BY <1>0, <2>2, <2>3, <2>6, <2>7, <2>8, ProceedSent
  <2> QED BY <2>2, <2>9 DEF SentInv
<1>7. CASE SendDelete
  <2>1. PICK i \in batch.gone :
           /\ versions' = [versions EXCEPT ![i] = Gone]
           /\ Proceed([batch EXCEPT !.gone = @ \ {i}], versions')
    BY <1>7 DEF SendDelete, FirstOf
  <2>2. batch.pc = "upsert" /\ Busy /\ store' = store /\ UNCHANGED <<scope, session>>
    BY <1>7 DEF SendDelete, Busy
  <2> DEFINE rest == [batch EXCEPT !.gone = @ \ {i}]
  <2>3. rest \in Batches
    BY <1>0 DEF Batches
  <2>4. rest.pc = batch.pc /\ rest.snap = batch.snap /\ rest.todo = batch.todo /\ rest.gone = batch.gone \ {i}
    BY <1>0 DEF Batches
  <2>5. \A j \in Items : versions'[j] = IF j = i THEN batch.snap[i] ELSE versions[j]
    BY <2>1, <2>2, Types DEF Docs, SentInv, BatchSent
  <2>6. Proceed(rest, versions') /\ rest.pc # "idle"
    BY <2>1, <2>2, <2>4
  <2> HIDE DEF rest
  <2>7. ~queued => \A j \in Items : /\ store[j] = rest.snap[j]
                                    /\ j \notin rest.todo \union rest.gone => versions'[j] = rest.snap[j]
    BY <2>2, <2>4, <2>5 DEF SentInv, BatchSent
  <2>8. \A j \in rest.gone : rest.snap[j] = Gone
    BY <2>2, <2>4 DEF SentInv, BatchSent
  <2>9. BatchSent' /\ (~Busy' => store' = versions')
    BY <1>0, <2>2, <2>3, <2>6, <2>7, <2>8, ProceedSent
  <2> QED BY <2>2, <2>9 DEF SentInv
<1>8. CASE RequestFails
  BY <1>8 DEF RequestFails, SentInv, BatchSent, Busy, NoBatch
<1>9. ASSUME session.pc \in {"idle", "save"}, scope # Nobody, Schedule, UNCHANGED batch PROVE SentInv'
  <2>1. IF Busy THEN queued' ELSE timer'
    BY <1>9, ScheduleSent
  <2> QED BY <1>9, <2>1 DEF SentInv, BatchSent, Busy
<1>10. CASE \/ FirstSaveEnds
            \/ \E i \in Items : Edit(i) \/ DeleteProject(i)
            \/ \E a \in Assets : DeleteReturns(a)
  <2>1. session.pc \in {"idle", "save"} /\ scope # Nobody /\ Schedule /\ UNCHANGED batch
    BY <1>10, DeletedHere DEF FirstSaveEnds, Edit, Edited, DeleteProject, LoggedIn, SessionInv
  <2> QED BY <1>9, <2>1
<1>11. CASE \E i \in Items : CreateProject(i)
  <2>1. PICK i \in Items : CreateProject(i)
    BY <1>11
  <2>2. CASE Busy
    <3>1. queued' = TRUE /\ batch' = [batch EXCEPT !.retry = TRUE]
      BY <2>1, <2>2 DEF CreateProject
    <3>2. Busy' /\ batch'.gone = batch.gone /\ batch'.snap = batch.snap
      BY <1>0, <2>2, <3>1 DEF Busy, Batches
    <3> QED BY <2>2, <3>1, <3>2 DEF SentInv, BatchSent
  <2>3. CASE ~Busy
    <3>1. PICK b \in Batches : b = BatchOf(store', versions)
      BY <1>0, BatchOfType, Types
    <3>2. /\ timer' = TRUE /\ batch' = [b EXCEPT !.retry = TRUE, !.pc = IF i \in media' THEN "upload" ELSE @]
          /\ versions' = versions
      BY <2>1, <2>3, <3>1 DEF CreateProject, Edited
    <3>3. store'[i] # versions[i]
      <4>1. store'[i] = clock + 1
        BY <2>1, StampType, Types DEF CreateProject, Edited, SetStore
      <4>2. versions[i] \in Times /\ versions[i] <= clock /\ clock \in Times
        BY Types DEF ClockInv, Before, Docs
      <4>3. versions[i] \in Nat /\ clock \in Nat
        BY <4>2, Basics
      <4> QED BY <4>1, <4>2, <4>3
    <3>4. /\ b.pc # "idle" /\ b.snap = store' /\ b.todo = Dirty(store', versions)
          /\ b.gone = Missing(store', versions)
      BY <1>0, <3>1, <3>3, BatchOfType, Types
    <3>5. /\ batch'.pc # "idle" /\ batch'.snap = store' /\ batch'.todo = Dirty(store', versions)
          /\ batch'.gone = Missing(store', versions)
      BY <3>2, <3>4 DEF Batches
    <3>6. \A j \in Items : j \notin Dirty(store', versions) \union Missing(store', versions)
                              => versions[j] = store'[j]
      BY DEF Dirty, Missing
    <3>7. \A j \in Missing(store', versions) : store'[j] = Gone
      BY DEF Missing
    <3> QED BY <3>2, <3>5, <3>6, <3>7 DEF SentInv, BatchSent, Busy
  <2> QED BY <2>2, <2>3
<1>12. CASE \/ \E i \in Items : SaveCanvas(i)
            \/ \E a \in Assets : LinkAsset(a) \/ LinkReturns(a)
  <2>1. SaveNow(store') /\ UNCHANGED <<versions, session, scope>>
    <3>1. CASE \E i \in Items : SaveCanvas(i)
      BY <3>1 DEF SaveCanvas
    <3>2. CASE \E a \in Assets : LinkReturns(a)
      BY <3>2 DEF LinkReturns
    <3>3. CASE \E a \in Assets : LinkAsset(a)
      <4>1. SaveNow(store) /\ UNCHANGED <<store, versions, session, scope>>
        BY <3>3 DEF LinkAsset, data
      <4> QED BY <4>1 DEF SaveNow
    <3> QED BY <1>12, <3>1, <3>2, <3>3
  <2> QED BY <1>3, <2>1
<1>13. ASSUME NEW u \in Scopes, NEW from \in {"login", "load"}, Start(u, from) PROVE session'.pc # "idle"
  BY <1>13, StartType
<1>14. CASE Logout \/ \E u \in Users : Login(u)
  <2>1. session'.pc # "idle"
    BY <1>13, <1>14, Basics DEF Logout, Login
  <2> QED BY <1>14, <2>1 DEF Logout, Login, data, link, SentInv, BatchSent, Busy
<1>15. CASE Reload
  <2>1. session'.pc # "idle"
    BY <1>13, <1>15, Types, Basics DEF Reload
  <2> QED BY <1>15, <2>1 DEF Reload, SentInv, BatchSent, Busy, NoBatch
<1>16. CASE Begin
  <2>1. raced' = (raced \/ Busy \/ calls # {}) /\ UNCHANGED batch /\ session'.pc # "idle"
    BY <1>0, <1>16 DEF Begin, Sessions
  <2>2. ~Busy
    BY <2>1
  <2> QED BY <2>1, <2>2 DEF SentInv, BatchSent, Busy
<1>17. CASE Restore
  <2>1. ~Busy /\ UNCHANGED batch /\ (session'.pc # "idle" \/ scope' = Nobody)
    BY <1>0, <1>17 DEF Restore, PageInv, Sessions
  <2> QED BY <2>1 DEF SentInv, BatchSent, Busy
<1>18. CASE ListReturns
  <2>1. ~Busy /\ UNCHANGED batch /\ session'.pc # "idle"
    BY <1>0, <1>18 DEF ListReturns, PageInv, Sessions
  <2> QED BY <2>1 DEF SentInv, BatchSent, Busy
<1>19. CASE FetchReturns
  <2>1. store' = Merged(session.snap, session.fetch, server[cookie])
        /\ SaveNow(Merged(session.snap, session.fetch, server[cookie]))
        /\ UNCHANGED versions /\ session'.pc # "idle"
    BY <1>0, <1>19 DEF FetchReturns, SetStore, Sessions
  <2>2. BatchSent'
    BY <1>0, <2>1, SaveNowSent
  <2> QED BY <2>1, <2>2 DEF SentInv
<1>20. CASE SyncFails
  BY <1>20 DEF SyncFails, data, SentInv, BatchSent, Busy
<1> QED BY <1>2, <1>4, <1>5, <1>6, <1>7, <1>8, <1>10, <1>11, <1>12, <1>14, <1>15, <1>16, <1>17, <1>18, <1>19, <1>20
        DEF Next, Batch, SessionSteps, Answers, User

-----------------------------------------------------------------------------
(* What is removed from the backend.                                       *)

LEMMA PageStep ==
  ASSUME TypeOK, SessionInv, PageHas, scope' = scope, active' \in {active, Nobody},
         session.pc # "fetch", session'.pc # "fetch",
         \A u \in Users : deleted[u] \subseteq deleted'[u],
         \A i \in Items : versions'[i] \in {versions[i], Gone},
         \A i \in Items : store'[i] = Gone => store[i] = Gone \/ i \in deleted'[scope]
  PROVE  PageHas'
<1>1. active # Nobody => scope \in Users
  BY Types DEF SessionInv, Scopes
<1> QED BY <1>1 DEF PageHas

LEMMA NewBatch ==
  ASSUME TypeOK, NEW docs \in Docs, NEW known \in Docs, batch' = BatchOf(docs, known)
  PROVE  \/ ~Busy'
         \/ batch'.snap = docs /\ batch'.todo = Dirty(docs, known) /\ batch'.gone = Missing(docs, known)
BY BatchOfType DEF Busy

\* A batch is new, or sends a part of what it sent.
LEMMA BatchStep ==
  ASSUME TypeOK, SessionInv, PageInv, BatchHas, PageHas', scope' = scope,
         \A u \in Users : deleted[u] \subseteq deleted'[u],
         \A i \in Items : store'[i] = Gone => store[i] = Gone \/ i \in deleted'[scope],
         \/ ~Busy'
         \/ /\ Busy /\ batch'.snap = batch.snap
            /\ batch'.todo \subseteq batch.todo /\ batch'.gone \subseteq batch.gone
         \/ /\ active' # Nobody /\ session'.pc # "fetch" /\ batch'.snap = store'
            /\ batch'.todo = Dirty(store', versions') /\ batch'.gone = Missing(store', versions')
  PROVE  BatchHas'
<1>1. CASE ~Busy'
  BY <1>1 DEF BatchHas
<1>2. CASE /\ Busy /\ batch'.snap = batch.snap
           /\ batch'.todo \subseteq batch.todo /\ batch'.gone \subseteq batch.gone
  <2>1. scope \in Users
    BY <1>2, Types DEF SessionInv, PageInv, Scopes
  <2> QED BY <1>2, <2>1 DEF BatchHas
<1>3. CASE /\ active' # Nobody /\ session'.pc # "fetch" /\ batch'.snap = store'
           /\ batch'.todo = Dirty(store', versions') /\ batch'.gone = Missing(store', versions')
  BY <1>3 DEF BatchHas, PageHas, Dirty, Missing
<1> QED BY <1>1, <1>2, <1>3

\* A save takes what the page has, while no download is under way.
LEMMA SaveNowRemoved ==
  ASSUME TypeOK, SessionInv, PageInv, BatchHas, PageHas', store' \in Docs, SaveNow(store'),
         UNCHANGED <<scope, active, versions>>, session'.pc # "fetch",
         \A u \in Users : deleted[u] \subseteq deleted'[u],
         \A i \in Items : store'[i] = Gone => store[i] = Gone \/ i \in deleted'[scope]
  PROVE  BatchHas'
<1>1. CASE UNCHANGED batch
  BY <1>1, BatchStep DEF Busy
<1>2. CASE active # Nobody /\ batch' = BatchOf(store', versions)
  <2>1. \/ ~Busy'
        \/ /\ batch'.snap = store' /\ batch'.todo = Dirty(store', versions)
           /\ batch'.gone = Missing(store', versions)
    BY <1>2, NewBatch, Types
  <2> QED BY <1>2, <2>1, BatchStep
<1> QED BY <1>1, <1>2 DEF SaveNow

LEMMA ProceedRemoved ==
  ASSUME TypeOK, SessionInv, PageInv, BatchHas, PageHas', Busy,
         NEW rest, rest.snap = batch.snap, rest.todo \subseteq batch.todo, rest.gone \subseteq batch.gone,
         versions' \in Docs, Proceed(rest, versions'),
         UNCHANGED <<store, scope, active, session, deleted>>
  PROVE  BatchHas'
<1>1. CASE batch' = rest
  BY <1>1, BatchStep
<1>2. CASE batch' = NoBatch
  BY <1>2, BatchStep DEF Busy, NoBatch
<1>3. CASE batch' = BatchOf(store, versions')
  <2>1. \/ ~Busy'
        \/ /\ batch'.snap = store' /\ batch'.todo = Dirty(store', versions')
           /\ batch'.gone = Missing(store', versions')
    BY <1>3, NewBatch, Types
  <2>2. active' # Nobody /\ session'.pc # "fetch"
    BY DEF PageInv
  <2> QED BY <2>1, <2>2, BatchStep
<1> QED BY <1>1, <1>2, <1>3 DEF Proceed, Drained

LEMMA NextRemoved ==
  ASSUME TypeOK, SessionInv, PageInv, ClockInv, RemovedInv, ~raced', ~missed', [Next]_vars
  PROVE  RemovedInv'
<1>0. /\ TypeOK' /\ store \in Docs /\ store' \in Docs /\ versions' \in Docs
      /\ session \in Sessions /\ batch \in Batches /\ clock \in Nat
  <2>1. TypeOK' /\ clock \in Times
    BY NextTypes, Types
  <2> QED BY <2>1, Types, Basics DEF TypeOK, Docs
<1>1. PageHas /\ BatchHas
  BY DEF RemovedInv
<1>2. ASSUME UNCHANGED <<store, versions, batch, scope, active, session, deleted>>
      PROVE  PageHas' /\ BatchHas'
  BY <1>1, <1>2 DEF PageHas, BatchHas, Busy
<1>3. ASSUME UNCHANGED <<server, seen>>, \A u \in Users : deleted[u] \subseteq deleted'[u], PageHas', BatchHas'
      PROVE  RemovedInv'
  BY <1>3 DEF RemovedInv
\* A step of the logged-in user, or of the timers, that ends with a save.
<1>4. ASSUME SaveNow(store'), UNCHANGED <<scope, active, versions, session, deleted, server, seen>>,
             session.pc # "fetch", \A i \in Items : store'[i] = Gone => store[i] = Gone
      PROVE  RemovedInv'
  <2>1. PageHas'
    BY <1>1, <1>4, PageStep
  <2>2. BatchHas'
    BY <1>0, <1>1, <1>4, <2>1, SaveNowRemoved
  <2> QED BY <1>3, <1>4, <2>1, <2>2
<1>5. CASE PersistFires \/ UNCHANGED vars \/ \E a \in Assets : LinkFails(a) \/ DeleteAsset(a)
  <2>1. UNCHANGED <<store, versions, batch, scope, active, session, deleted, server, seen>>
    BY <1>5 DEF PersistFires, LinkFails, DeleteAsset, vars, data, link, ghosts
  <2> QED BY <1>2, <1>3, <2>1
<1>6. CASE \E u \in Users : \E i \in Items : OtherDevice(u, i)
  <2>1. PICK u \in Users, i \in Items : OtherDevice(u, i)
    BY <1>6
  <2>2. UNCHANGED <<store, versions, batch, scope, active, session, deleted, seen>>
        /\ server' = [server EXCEPT ![u][i] = clock + 1]
    BY <2>1 DEF OtherDevice, link, ghosts
  <2>3. clock + 1 # Gone
    BY <1>0 DEF Gone
  <2>4. \A w \in Users : \A j \in seen[w] \ deleted[w] : server'[w][j] # Gone
    BY <2>2, <2>3, Types DEF RemovedInv, Docs
  <2> QED BY <1>2, <2>2, <2>4 DEF RemovedInv
<1>7. CASE TimerFires
  <2>1. SaveNow(store) /\ session.pc # "fetch"
        /\ UNCHANGED <<store, scope, active, versions, session, deleted, server, seen>>
    BY <1>7 DEF TimerFires, data, ghosts, PageInv
  <2>2. SaveNow(store')
    BY <2>1 DEF SaveNow
  <2> QED BY <1>4, <2>1, <2>2
<1>8. CASE Upload
  <2> DEFINE docs == PutBack(store, batch.snap, batch.todo)
  <2>1. store' = docs /\ raced' = (raced \/ docs # store)
    BY <1>8 DEF Upload, SetStore
  <2> HIDE DEF docs
  <2>2. store' = store /\ UNCHANGED <<scope, active, versions, session, deleted, server, seen>>
    BY <1>8, <2>1 DEF Upload
  <2>3. /\ Busy /\ session.pc # "fetch" /\ batch'.snap = batch.snap /\ batch'.todo = batch.todo
        /\ batch'.gone = batch.gone
    BY <1>0, <1>8 DEF Upload, Busy, Batches, PageInv
  <2>4. PageHas'
    BY <1>1, <2>2, <2>3, PageStep
  <2>5. BatchHas'
    BY <1>1, <2>2, <2>3, <2>4, BatchStep
  <2> QED BY <1>3, <2>2, <2>4, <2>5
<1>9. CASE SendUpsert
  <2>1. PICK i \in batch.todo :
           /\ cookie # Nobody
           /\ server' = [server EXCEPT ![cookie][i] = batch.snap[i]]
           /\ seen' = [seen EXCEPT ![cookie] = @ \union {i}]
           /\ versions' = [versions EXCEPT ![i] = batch.snap[i]]
           /\ Proceed([batch EXCEPT !.todo = @ \ {i}], versions')
    BY <1>9 DEF SendUpsert, FirstOf, Accepts
  <2>2. /\ Busy /\ UNCHANGED <<store, scope, active, session, deleted>>
        /\ session.pc # "fetch" /\ active # Nobody
    BY <1>9 DEF SendUpsert, Busy, PageInv
  <2>3. i \in Items /\ batch.snap[i] # Gone /\ (store[i] = Gone => i \in deleted[scope])
    BY <1>0, <1>1, <2>1, <2>2 DEF BatchHas, Batches
  <2>4. \A j \in Items \ {i} : versions'[j] = versions[j]
    BY <2>1, Types DEF Docs
  <2>5. PageHas'
    BY <1>1, <2>2, <2>3, <2>4 DEF PageHas
  <2> DEFINE rest == [batch EXCEPT !.todo = @ \ {i}]
  <2>6. rest.snap = batch.snap /\ rest.todo \subseteq batch.todo /\ rest.gone = batch.gone
    BY <1>0 DEF Batches
  <2>7. Proceed(rest, versions')
    BY <2>1
  <2> HIDE DEF rest
  <2>8. BatchHas'
    BY <1>0, <1>1, <2>2, <2>5, <2>6, <2>7, ProceedRemoved
  <2>9. \A w \in Users : \A j \in seen'[w] \ deleted[w] : server'[w][j] # Gone
    <3>1. cookie \in Users
      BY <2>1, Types DEF Scopes
    <3> QED BY <2>1, <2>3, <3>1, Types DEF RemovedInv, Docs
  <2> QED BY <2>2, <2>5, <2>8, <2>9 DEF RemovedInv
<1>10. CASE SendDelete
  <2>1. PICK i \in batch.gone :
           /\ cookie # Nobody
           /\ server' = [server EXCEPT ![cookie][i] = Gone]
           /\ versions' = [versions EXCEPT ![i] = Gone]
           /\ Proceed([batch EXCEPT !.gone = @ \ {i}], versions')
    BY <1>10 DEF SendDelete, FirstOf
  <2>2. /\ Busy /\ UNCHANGED <<store, scope, active, session, deleted, seen>>
        /\ session.pc # "fetch" /\ active # Nobody
    BY <1>10 DEF SendDelete, Busy, PageInv
  <2>3. i \in Items /\ i \in deleted[cookie] /\ cookie \in Users
    BY <1>0, <1>1, <2>1, <2>2, BusyUser, Types DEF BatchHas, Batches, Scopes
  <2>4. \A j \in Items : versions'[j] \in {versions[j], Gone}
    BY <2>1, Types DEF Docs
  <2>5. PageHas'
    BY <1>1, <2>2, <2>4, PageStep
  <2> DEFINE rest == [batch EXCEPT !.gone = @ \ {i}]
  <2>6. rest.snap = batch.snap /\ rest.todo = batch.todo /\ rest.gone \subseteq batch.gone
    BY <1>0 DEF Batches
  <2>7. Proceed(rest, versions')
    BY <2>1
  <2> HIDE DEF rest
  <2>8. BatchHas'
    BY <1>0, <1>1, <2>2, <2>5, <2>6, <2>7, ProceedRemoved
  <2>9. \A w \in Users : \A j \in seen[w] \ deleted[w] : server'[w][j] # Gone
    BY <2>1, <2>3, Types DEF RemovedInv, Docs
  <2> QED BY <2>2, <2>5, <2>8, <2>9 DEF RemovedInv
<1>11. CASE RequestFails
  <2>1. /\ Busy /\ session.pc # "fetch" /\ ~Busy'
        /\ UNCHANGED <<store, scope, active, versions, session, deleted, server, seen>>
    BY <1>11 DEF RequestFails, Busy, NoBatch, data, PageInv
  <2>2. PageHas'
    BY <1>1, <2>1, PageStep
  <2>3. BatchHas'
    BY <2>1 DEF BatchHas
  <2> QED BY <1>3, <2>1, <2>2, <2>3
<1>12. CASE \E i \in Items : Edit(i) \/ CreateProject(i)
  <2>1. PICK i \in Items : Edit(i) \/ CreateProject(i)
    BY <1>12
  <2>2. /\ UNCHANGED <<scope, active, versions, session, deleted, server, seen>> /\ session.pc = "idle"
        /\ Tick /\ store' = Stamp(store, i)
    BY <2>1 DEF Edit, CreateProject, Edited, LoggedIn, SetStore
  <2>3. \A j \in Items : store'[j] = Gone => store[j] = Gone
    BY <1>0, <2>2, StampType DEF Gone
  <2>4. PageHas'
    BY <1>1, <2>2, <2>3, PageStep
  <2>5. CASE Busy
    <3>1. batch'.snap = batch.snap /\ batch'.todo = batch.todo /\ batch'.gone = batch.gone
      BY <1>0, <2>1, <2>5 DEF Edit, CreateProject, Batches
    <3>2. BatchHas'
      BY <1>1, <2>2, <2>3, <2>4, <2>5, <3>1, BatchStep
    <3> QED BY <1>3, <2>2, <2>4, <3>2
  <2>6. CASE ~Busy /\ Edit(i)
    <3>1. BatchHas'
      BY <2>6 DEF Edit, BatchHas, Busy
    <3> QED BY <1>3, <2>2, <2>4, <3>1
  <2>7. CASE ~Busy /\ CreateProject(i)
    <3>1. PICK b \in Batches : b = BatchOf(store', versions)
      BY <1>0, BatchOfType, Types
    <3>2. batch' = [b EXCEPT !.retry = TRUE, !.pc = IF i \in media' THEN "upload" ELSE @] /\ active # Nobody
      BY <2>7, <3>1 DEF CreateProject
    <3>3. store'[i] # versions[i]
      <4>1. store'[i] = clock + 1
        BY <2>2, StampType, Types
      <4>2. versions[i] \in Times /\ versions[i] <= clock
        BY Types DEF ClockInv, Before, Docs
      <4>3. versions[i] \in Nat
        BY <4>2, Basics
      <4> QED BY <1>0, <4>1, <4>2, <4>3
    <3>4. /\ b.snap = store' /\ b.todo = Dirty(store', versions) /\ b.gone = Missing(store', versions)
      BY <1>0, <3>1, <3>3, BatchOfType, Types
    <3>5. /\ batch'.snap = store' /\ batch'.todo = Dirty(store', versions')
          /\ batch'.gone = Missing(store', versions')
      BY <2>2, <3>2, <3>4 DEF Batches
    <3>6. BatchHas'
      BY <1>1, <2>2, <2>3, <2>4, <3>2, <3>5, BatchStep
    <3> QED BY <1>3, <2>2, <2>4, <3>6
  <2> QED BY <2>1, <2>5, <2>6, <2>7
<1>13. ASSUME NEW i \in Items, LoggedIn, store' = [store EXCEPT ![i] = Gone],
              deleted' = [deleted EXCEPT ![scope] = @ \union {i}],
              UNCHANGED <<scope, active, session, batch, seen>>,
              versions' \in {versions, [versions EXCEPT ![i] = Gone]},
              server' = server \/ (cookie = scope /\ server' = [server EXCEPT ![scope][i] = Gone])
       PROVE  RemovedInv'
  <2>1. scope \in Users /\ session.pc # "fetch"
    BY <1>13, Types DEF LoggedIn, Scopes
  <2>2. i \in deleted'[scope] /\ \A u \in Users : deleted[u] \subseteq deleted'[u]
    BY <1>13, <2>1, Types
  <2>3. \A j \in Items : store'[j] = Gone => store[j] = Gone \/ j \in deleted'[scope]
    BY <1>0, <1>13, <2>2 DEF Docs
  <2>4. \A j \in Items : versions'[j] \in {versions[j], Gone}
    BY <1>13, Types DEF Docs
  <2>5. PageHas'
    BY <1>1, <1>13, <2>1, <2>2, <2>3, <2>4, PageStep
  <2>6. BatchHas'
    BY <1>1, <1>13, <2>2, <2>3, <2>5, BatchStep DEF Busy
  <2>7. \A w \in Users : \A j \in seen[w] \ deleted'[w] : server'[w][j] # Gone
    BY <1>13, <2>1, <2>2, Types DEF RemovedInv, Docs
  <2> QED BY <1>13, <2>5, <2>6, <2>7 DEF RemovedInv
<1>14. CASE \E i \in Items : DeleteProject(i)
  <2>1. PICK i \in Items : DeleteProject(i)
    BY <1>14
  <2>2. /\ LoggedIn /\ store' = [store EXCEPT ![i] = Gone]
        /\ deleted' = [deleted EXCEPT ![scope] = @ \union {i}]
        /\ UNCHANGED <<scope, active, session, batch, seen, versions, server>>
    BY <2>1 DEF DeleteProject, SetStore
  <2> QED BY <1>13, <2>2
<1>15. CASE \E a \in Assets : DeleteReturns(a)
  <2>1. PICK a \in Assets : DeleteReturns(a)
    BY <1>15
  <2> QED BY <1>13, <2>1, DeletedHere
<1>16. CASE \E i \in Items : SaveCanvas(i)
  <2>1. PICK i \in Items : SaveCanvas(i)
    BY <1>16
  <2>2. /\ SaveNow(store') /\ UNCHANGED <<scope, active, versions, session, deleted, server, seen>>
        /\ session.pc # "fetch" /\ Tick /\ store' = Stamp(store, i)
    BY <2>1 DEF SaveCanvas, LoggedIn
  <2>3. \A j \in Items : store'[j] = Gone => store[j] = Gone
    BY <1>0, <2>2, StampType DEF Gone
  <2> QED BY <1>4, <2>2, <2>3
<1>17. CASE \E a \in Assets : LinkAsset(a)
  <2>1. SaveNow(store) /\ session.pc # "fetch"
        /\ UNCHANGED <<store, scope, active, versions, session, deleted, server, seen>>
    BY <1>17 DEF LinkAsset, data, ghosts, LoggedIn
  <2>2. SaveNow(store')
    BY <2>1 DEF SaveNow
  <2> QED BY <1>4, <2>1, <2>2
<1>18. CASE \E a \in Assets : LinkReturns(a)
  <2>1. PICK a \in Items : LinkReturns(a)
    BY <1>18, ConstantsOK DEF LinkReturns
  <2>2. /\ SaveNow(store') /\ UNCHANGED <<scope, active, versions, session, deleted, server, seen>>
        /\ session.pc # "fetch" /\ Tick
    BY <2>1 DEF LinkReturns, PageInv
  <2>3. \A j \in Items : store'[j] = Gone => store[j] = Gone
    <3>1. store' = store \/ store' = Stamp(store, a)
      BY <2>1 DEF LinkReturns, SetStore
    <3> QED BY <1>0, <2>2, <3>1, StampType DEF Gone
  <2> QED BY <1>4, <2>2, <2>3
<1>19. ASSUME NEW u \in Scopes, NEW from \in {"login", "load"}, Start(u, from) PROVE session'.pc = "begin"
  BY <1>19, StartType
<1>20. CASE Logout \/ \E u \in Users : Login(u)
  <2>1. /\ session.pc # "fetch" /\ session'.pc # "fetch"
        /\ UNCHANGED <<store, scope, active, versions, batch, deleted, server, seen>>
    BY <1>19, <1>20, Basics DEF Logout, Login, LoggedIn, data, link, ghosts
  <2>2. PageHas' /\ BatchHas'
    BY <1>1, <2>1 DEF PageHas, BatchHas, Busy
  <2> QED BY <1>3, <2>1, <2>2
<1>21. CASE Reload
  <2>1. session'.pc = "begin"
    BY <1>19, <1>21, Types, Basics DEF Reload
  <2>2. PageHas' /\ BatchHas' /\ UNCHANGED <<server, seen, deleted>>
    BY <1>21, <2>1 DEF Reload, PageHas, BatchHas, Busy, NoBatch
  <2> QED BY <1>3, <2>2
<1>22. CASE Begin
  <2>1. raced' = (raced \/ Busy \/ calls # {}) /\ UNCHANGED batch /\ session'.pc # "fetch" /\ active' = Nobody
    BY <1>0, <1>22 DEF Begin, Sessions
  <2>2. ~Busy
    BY <2>1
  <2>3. PageHas' /\ BatchHas' /\ UNCHANGED <<server, seen, deleted>>
    BY <1>22, <2>1, <2>2 DEF Begin, PageHas, BatchHas, Busy
  <2> QED BY <1>3, <2>3
<1>23. CASE Restore
  <2>1. ~Busy /\ UNCHANGED <<batch, versions, server, seen, deleted>> /\ versions = Empty
        /\ session'.pc # "fetch"
    BY <1>0, <1>23 DEF Restore, PageInv, Sessions, NoSession, ghosts
  <2>2. PageHas' /\ BatchHas'
    BY <2>1 DEF PageHas, BatchHas, Busy, Empty
  <2> QED BY <1>3, <2>1, <2>2
<1>24. CASE ListReturns
  <2>1. cookie \in Users
    BY <1>24, Types DEF ListReturns, SessionInv, Scopes
  <2>2. /\ ~Busy /\ UNCHANGED <<batch, server, seen, deleted>> /\ versions' = server[cookie]
        /\ session'.pc = "fetch" /\ session'.snap = store
        /\ session'.fetch = {i \in Items : server[cookie][i] > store[i]}
    BY <1>0, <1>24 DEF ListReturns, PageInv, Sessions, data, ghosts
  <2>3. \A i \in Items : server[cookie][i] \in Nat /\ store[i] \in Nat
    <3>1. server[cookie] \in [Items -> Times] /\ store \in [Items -> Times]
      BY <1>0, <2>1, Types DEF Docs
    <3> QED BY <3>1, Basics
  <2>4. PageHas' /\ BatchHas'
    BY <2>2, <2>3 DEF PageHas, BatchHas, Busy, Gone
  <2> QED BY <1>3, <2>2, <2>4
<1>25. CASE FetchReturns
  <2>1. cookie \in Users
    BY <1>25, Types DEF FetchReturns, SessionInv, Scopes
  <2> DEFINE docs == Merged(session.snap, session.fetch, server[cookie])
  <2>2. ASSUME NEW i \in Items, versions[i] # Gone PROVE docs[i] # Gone
    <3>1. i \in session.fetch \/ session.snap[i] # Gone
      BY <1>1, <1>25, <2>2 DEF PageHas, FetchReturns
    <3>2. i \in session.fetch => server[cookie][i] # Gone
      BY <1>25 DEF FetchReturns
    <3>3. docs[i] = IF i \in session.fetch /\ server[cookie][i] > session.snap[i]
                    THEN server[cookie][i] ELSE session.snap[i]
      BY DEF Merged
    <3>4. session.snap[i] \in Times /\ server[cookie][i] \in Times
      BY <1>0, <2>1, Types DEF Sessions, Docs
    <3>5. session.snap[i] \in Nat /\ server[cookie][i] \in Nat
      BY <3>4, Basics
    <3> HIDE DEF docs
    <3> QED BY <3>1, <3>2, <3>3, <3>5 DEF Gone
  <2>3. store' = docs /\ SaveNow(docs)
    BY <1>25 DEF FetchReturns, SetStore
  <2> HIDE DEF docs
  <2>4. /\ session'.pc = "save" /\ ~Busy
        /\ UNCHANGED <<versions, active, scope, server, seen, deleted>>
    BY <1>0, <1>25 DEF FetchReturns, Sessions, PageInv
  <2>5. PageHas'
    BY <2>2, <2>3, <2>4 DEF PageHas
  <2>6. BatchHas'
    <3>1. CASE UNCHANGED batch
      BY <2>4, <3>1 DEF BatchHas, Busy
    <3>2. CASE active # Nobody /\ batch' = BatchOf(docs, versions)
      <4>1. \/ ~Busy'
            \/ /\ batch'.snap = store' /\ batch'.todo = Dirty(store', versions')
               /\ batch'.gone = Missing(store', versions')
        BY <1>0, <2>3, <2>4, <3>2, NewBatch, Types
      <4> QED BY <2>4, <2>5, <3>2, <4>1 DEF BatchHas, PageHas, Dirty, Missing
    <3> QED BY <2>3, <3>1, <3>2 DEF SaveNow
  <2> QED BY <1>3, <2>4, <2>5, <2>6
<1>26. CASE SyncFails
  <2>1. missed' = (missed \/ session.pc = "fetch") /\ session.pc \in {"list", "fetch"}
    BY <1>26 DEF SyncFails
  <2>2. session.pc = "list" /\ versions = Empty /\ ~Busy
    BY <2>1 DEF PageInv
  <2>3. UNCHANGED <<batch, versions, server, seen, deleted>> /\ session'.pc # "fetch"
    BY <1>19, <1>26, Basics DEF SyncFails, data, NoSession
  <2>4. PageHas' /\ BatchHas'
    BY <2>2, <2>3 DEF PageHas, BatchHas, Busy, Empty
  <2> QED BY <1>3, <2>3, <2>4
<1>27. CASE FirstSaveEnds
  <2>1. /\ session.pc # "fetch" /\ session'.pc # "fetch"
        /\ UNCHANGED <<store, scope, active, versions, batch, deleted, server, seen>>
    BY <1>27 DEF FirstSaveEnds, NoSession, data, ghosts
  <2>2. PageHas' /\ BatchHas'
    BY <1>1, <2>1 DEF PageHas, BatchHas, Busy
  <2> QED BY <1>3, <2>1, <2>2
<1>28. CASE \E a \in Assets : DeleteFails(a)
  <2>1. PICK a \in Assets : DeleteFails(a)
    BY <1>28
  <2>2. /\ a \in Items /\ scope \in Users /\ session.pc # "fetch"
        /\ UNCHANGED <<store, versions, scope, active, session, batch, seen>>
        /\ \/ UNCHANGED <<server, deleted>>
           \/ /\ server' = [server EXCEPT ![scope][a] = Gone]
              /\ deleted' = [deleted EXCEPT ![scope] = @ \union {a}]
    BY <2>1, DeleteFailsHere
  <2>3. \A u \in Users : deleted[u] \subseteq deleted'[u]
    BY <2>2, Types
  <2>4. PageHas'
    BY <1>1, <2>2, <2>3, PageStep
  <2>5. BatchHas'
    BY <1>1, <2>2, <2>3, <2>4, BatchStep DEF Busy
  <2>6. \A w \in Users : \A j \in seen[w] \ deleted'[w] : server'[w][j] # Gone
    BY <2>2, <2>3, Types DEF RemovedInv, Docs
  <2> QED BY <2>2, <2>4, <2>5, <2>6 DEF RemovedInv
<1> QED BY <1>5, <1>6, <1>7, <1>8, <1>9, <1>10, <1>11, <1>12, <1>14, <1>15, <1>16, <1>17, <1>18, <1>20, <1>21,
           <1>22, <1>23, <1>24, <1>25, <1>26, <1>27, <1>28 DEF Next, Batch, SessionSteps, Answers, User

-----------------------------------------------------------------------------
(* The invariant, and what it says of the user's documents.                *)

LEMMA InitData ==
  Init => DataInv
<1> SUFFICES ASSUME Init PROVE DataInv
  OBVIOUS
<1>1. TypeOK
  BY InitTypes
<1>2. PICK first \in FirstCopies :
         /\ seen = [u \in Users |-> {i \in first : Owner[i] = u}]
         /\ server = [u \in Users |-> [i \in Items |-> IF i \in seen[u] THEN 1 ELSE Gone]]
  BY DEF Init
<1>3. \A u \in Users : \A i \in Items :
         /\ server[u][i] = IF i \in seen[u] THEN 1 ELSE Gone
         /\ i \in seen[u] => Owner[i] = u
  BY <1>2
<1>4. clock = 1 /\ clock \in Times
  BY <1>1, Types DEF Init
<1>5. Before(Empty, clock) /\ Before(NoSnapshot.docs, clock) /\ Before(NoBatch.snap, clock)
      /\ Before(NoSession.snap, clock)
  BY <1>4, EmptyBefore
<1>6. \A u \in Users : Before(server[u], clock)
  BY <1>3, <1>4 DEF Before, Gone
<1>7. ClockInv
  BY <1>5, <1>6 DEF Init, ClockInv
<1>8. SessionInv /\ PageInv
  BY DEF Init, SessionInv, PageInv, NoSession, NoBatch, Busy
<1>9. OwnerInv
  BY <1>3, EmptyOf, Basics DEF Init, OwnerInv, Of, NoBatch, Busy
<1>10. LocalInv
  BY Basics DEF Init, LocalInv, NoSnapshot, Empty, Projects
<1>11. KeptInv
  <2>1. Gone <= Gone /\ \A i \in Items : latest[i] = Gone
    BY DEF Init, Gone, Empty
  <2> QED BY <2>1, ConstantsOK, Basics DEF Init, KeptInv, NoSnapshot, NoSession, Empty
<1>12. SentInv
  BY DEF Init, SentInv, BatchSent, NoBatch, Busy
<1>13. RemovedInv
  <2>1. \A u \in Users : \A i \in seen[u] \ deleted[u] : server[u][i] # Gone
    BY <1>1, <1>3, Types DEF Gone
  <2> QED BY <2>1 DEF Init, RemovedInv, PageHas, BatchHas, NoBatch, NoSession, Busy
<1> QED BY <1>1, <1>7, <1>8, <1>9, <1>10, <1>11, <1>12, <1>13 DEF DataInv

LEMMA NextData ==
  ASSUME DataInv, [Next]_vars
  PROVE  DataInv'
<1>1. TypeOK' /\ ClockInv' /\ SessionInv'
  BY NextTypeSession, NextClock DEF DataInv
<1>2. (raced => raced') /\ (missed => missed')
  BY GhostsStay
<1>3. ASSUME ~raced' PROVE PageInv' /\ OwnerInv' /\ LocalInv' /\ KeptInv' /\ SentInv'
  <2>1. ~raced /\ TypeOK /\ SessionInv /\ ClockInv /\ PageInv /\ OwnerInv /\ LocalInv /\ KeptInv /\ SentInv
    BY <1>2, <1>3 DEF DataInv
  <2>2. PageInv' /\ OwnerInv' /\ LocalInv'
    BY <1>3, <2>1, NextPage, NextOwner, NextLocal
  <2>3. KeptInv' /\ SentInv'
    BY <1>3, <2>1, NextKept, NextSent
  <2> QED BY <2>2, <2>3
<1>4. ASSUME ~raced', ~missed' PROVE RemovedInv'
  <2>1. TypeOK /\ SessionInv /\ ClockInv /\ PageInv /\ RemovedInv
    BY <1>2, <1>4 DEF DataInv
  <2> QED BY <1>4, <2>1, NextRemoved
<1> QED BY <1>1, <1>3, <1>4 DEF DataInv

LEMMA DataCorrect == Spec => []DataInv
<1> QED BY InitData, NextData, PTL DEF Spec

\* No document of one user reaches the backend or the disk of another: the
\* cookie changes with the scope, at a moment when no batch and no timer is left.
THEOREM OwnCorrect == Spec => []OwnData
<1>1. DataInv => OwnData
  BY DEF DataInv, OwnData, OwnerInv, Of
<1> QED BY <1>1, DataCorrect, PTL

\* A store that is empty because another scope was restored, or because the page
\* was just loaded, is never sent as a deletion.
THEOREM RemovedCorrect == Spec => []OnlyDeletedIsRemoved
<1>1. DataInv => OnlyDeletedIsRemoved
  BY DEF DataInv, OnlyDeletedIsRemoved, RemovedInv
<1> QED BY <1>1, DataCorrect, PTL

LEMMA MaxOfSome ==
  ASSUME NEW S \in SUBSET Nat, \E m \in S : \A y \in S : y <= m
  PROVE  Max(S) \in S /\ \A x \in S : x <= Max(S)
<1>1. Max(S) \in S /\ \A y \in S : Max(S) >= y
  <2>1. \E z \in S : \A y \in S : z >= y
    OBVIOUS
  <2> QED BY <2>1 DEF Max
<1>2. \A x \in S : x \in Nat
  OBVIOUS
<1> QED BY <1>1, <1>2

\* A document that its owner edited last and did not delete is kept, in the page
\* while his scope is active and on his disk otherwise, whatever the network and
\* the timers do.
THEOREM KeptCorrect == Spec => []NothingLost
<1>1. ASSUME DataInv, ~raced, NEW i \in Items, i \notin deleted[Owner[i]]
      PROVE  latest[i] <= Max({disk[Owner[i]].docs[i], server[Owner[i]][i]}
                \union (IF scope = Owner[i] THEN {store[i], pending.docs[i]} ELSE {}))
  <2> DEFINE u == Owner[i]
             copies == {disk[u].docs[i], server[u][i]}
                          \union (IF scope = u THEN {store[i], pending.docs[i]} ELSE {})
             kept == IF scope = u THEN store[i] ELSE disk[u].docs[i]
  <2>1. u \in Users /\ u \in Scopes /\ TypeOK /\ KeptInv
    BY <1>1, ConstantsOK, Basics DEF DataInv
  <2>2. latest[i] <= kept /\ kept \in copies
    BY <1>1, <2>1 DEF KeptInv
  <2>3. disk[u].docs[i] \in Times /\ server[u][i] \in Times /\ store[i] \in Times /\ pending.docs[i] \in Times
        /\ latest[i] \in Times
    BY <2>1, Types DEF Docs, Snapshot
  <2>4. copies \in SUBSET Nat /\ latest[i] \in Nat
    BY <2>3, Basics
  <2>5. \E m \in copies : \A y \in copies : y <= m
    <3>1. \A a, b, c, d \in Nat : \E m \in {a, b, c, d} : a <= m /\ b <= m /\ c <= m /\ d <= m
      OBVIOUS
    <3>2. PICK c \in copies, d \in copies : copies = {disk[u].docs[i], server[u][i], c, d}
      <4>1. CASE scope = u
        BY <4>1
      <4>2. CASE scope # u
        BY <4>2
      <4> QED BY <4>1, <4>2
    <3>3. disk[u].docs[i] \in Nat /\ server[u][i] \in Nat /\ c \in Nat /\ d \in Nat
      BY <2>3, <2>4, Basics
    <3> HIDE DEF copies
    <3> QED BY <3>1, <3>2, <3>3
  <2> HIDE DEF copies, kept
  <2>6. kept <= Max(copies) /\ Max(copies) \in Nat /\ kept \in Nat
    BY <2>2, <2>4, <2>5, MaxOfSome
  <2>7. latest[i] <= Max(copies)
    BY <2>2, <2>4, <2>6
  <2> QED BY <2>7 DEF copies
<1>2. DataInv => NothingLost
  BY <1>1 DEF NothingLost
<1> QED BY <1>2, DataCorrect, PTL

\* A page at rest has sent everything in it: what changes while a batch runs, is
\* prepared, or is cut short is remembered by queued, the timer or failed.
THEOREM SentCorrect == Spec => []QuietIsSynced
<1>1. ASSUME store = versions PROVE Dirty(store, versions) \union Missing(store, versions) = {}
  BY <1>1 DEF Dirty, Missing
<1>2. DataInv => QuietIsSynced
  BY <1>1 DEF DataInv, QuietIsSynced, SentInv, LoggedIn
<1> QED BY <1>2, DataCorrect, PTL
=============================================================================
