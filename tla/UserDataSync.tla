---------------------------- MODULE UserDataSync ----------------------------
(***************************************************************************)
(* User data of the web application: canvas projects and assets live in    *)
(* two browser stores, are persisted in the browser under a key that names *)
(* the user (the scope), and are copied to the backend of the user whose   *)
(* session cookie the browser holds.  Logging in, logging out and loading  *)
(* the page run applyUserSession (lib/user-session.ts); the copy is made   *)
(* by services/user-data-sync.ts, one batch at a time.                     *)
(*                                                                         *)
(* A document is its updatedAt: a time of the shared clock, Gone when it   *)
(* does not exist.  One step is what runs between two awaits that wait for *)
(* the network or for the browser's storage.                               *)
(***************************************************************************)
EXTENDS Naturals, FiniteSetsExt

CONSTANTS
    Users,        \* accounts
    Nobody,       \* no user: the guest scope, an empty activeRemoteUserId
    Items,        \* documents
    Owner,        \* Owner[i]: the user who creates i
    Assets,       \* the items that are assets; the others are canvas projects
    FirstCopies,  \* the sets of items that may be on the backend at the start
    MaxClock,     \* bounds: edits, session changes, failed requests, reloads,
    MaxSessions,  \*         edits made on another device
    MaxFailures,
    MaxReloads,
    MaxElsewhere

ASSUME ConstantsOK ==
    /\ Nobody \notin Users
    /\ Owner \in [Items -> Users]
    /\ Assets \subseteq Items
    /\ FirstCopies \subseteq SUBSET Items
    /\ MaxClock \in Nat \ {0}

Gone == 0
Times == 0 .. MaxClock
Scopes == Users \union {Nobody}
Projects == Items \ Assets
Empty == [i \in Items |-> Gone]
NoSnapshot == [saved |-> FALSE, docs |-> Empty]

VARIABLES
    server,    \* server[u]: u's documents on the backend
    cookie,    \* the user the backend takes the browser's requests for
    disk,      \* disk[s]: the snapshot the browser keeps for scope s
    store,     \* the documents in the page's memory
    media,     \* documents of the store that refer to media not uploaded yet
    pending,   \* the snapshot waiting for the 400 ms persistence timer
    scope,     \* the active user scope
    active,    \* activeRemoteUserId
    versions,  \* remoteProjectVersions and remoteAssetVersions
    applying,  \* applyingRemoteState
    timer,     \* is syncTimer set
    queued,    \* syncQueued
    batch,     \* the batch under way (syncPromise)
    session,   \* the run of applyUserSession under way
    calls,     \* links of assets to projects, and deletions of assets, under way
    clock,
    latest,    \* ghosts: latest[i], the time of the user's last edit of i
    seen,      \*   seen[u]: what u ever had on the backend
    deleted,   \*   deleted[u]: what u deleted
    raced,     \*   did a merge overwrite newer content, or old work cross a session change
    missed,    \*   did a login go on although a download failed
    failed,    \*   did the last attempt to save or to download fail
    count      \* counters for the bounds

data == <<server, disk, store, media, pending>>
link == <<scope, active, versions, applying, timer, queued>>
ghosts == <<latest, seen, deleted, raced, missed, failed>>
vars == <<data, link, cookie, batch, session, calls, clock, ghosts, count>>

Calls == {"link", "delete"} \X Assets
NoBatch == [pc |-> "idle", snap |-> Empty, todo |-> {}, gone |-> {}, retry |-> FALSE]
NoSession == [pc |-> "idle", user |-> Nobody, snap |-> Empty, fetch |-> {}, from |-> "login"]

TypeOK ==
    /\ server \in [Users -> [Items -> Times]]
    /\ cookie \in Scopes /\ scope \in Scopes /\ active \in Scopes
    /\ disk \in [Scopes -> [saved : BOOLEAN, docs : [Items -> Times]]]
    /\ store \in [Items -> Times] /\ versions \in [Items -> Times]
    /\ media \subseteq Items
    /\ pending \in [saved : BOOLEAN, docs : [Items -> Times]]
    /\ {applying, timer, queued, raced, missed, failed} \subseteq BOOLEAN
    /\ calls \subseteq Calls
    /\ batch \in [pc : {"idle", "upload", "upsert"}, snap : [Items -> Times],
                  todo : SUBSET Items, gone : SUBSET Items, retry : BOOLEAN]
    /\ session \in [pc : {"idle", "begin", "restore", "list", "fetch", "save"},
                    user : Scopes, snap : [Items -> Times], fetch : SUBSET Items,
                    from : {"login", "load"}]
    /\ clock \in Times /\ latest \in [Items -> Times]
    /\ seen \in [Users -> SUBSET Items] /\ deleted \in [Users -> SUBSET Items]

Init ==
    /\ \E first \in FirstCopies :
         /\ seen = [u \in Users |-> {i \in first : Owner[i] = u}]
         /\ server = [u \in Users |-> [i \in Items |-> IF i \in seen[u] THEN 1 ELSE Gone]]
    /\ cookie = Nobody
    /\ disk = [s \in Scopes |-> NoSnapshot]
    /\ store = Empty /\ media = {} /\ pending = NoSnapshot
    /\ scope = Nobody /\ active = Nobody /\ versions = Empty
    /\ applying = FALSE /\ timer = FALSE /\ queued = FALSE
    /\ batch = NoBatch /\ session = NoSession /\ calls = {}
    /\ clock = 1 /\ latest = Empty
    /\ deleted = [u \in Users |-> {}]
    /\ raced = FALSE /\ missed = FALSE /\ failed = FALSE
    /\ count = [sessions |-> 0, failures |-> 0, reloads |-> 0, elsewhere |-> 0]

-----------------------------------------------------------------------------
(* The stores.  Every change of a store runs two subscribers: the          *)
(* persistence middleware, which puts the canvas snapshot behind a timer   *)
(* and writes assets at once, and the synchronisation, which arms its own  *)
(* timer unless a batch runs (then it asks for another round) or remote    *)
(* state is being applied.                                                 *)

Busy == batch.pc # "idle"
LoggedIn == session.pc = "idle" /\ scope # Nobody

\* The persistence middleware's part of a change of the stores to docs
Persist(docs) ==
    /\ disk' = [disk EXCEPT ![scope].docs =
                  [i \in Items |-> IF i \in Assets THEN docs[i] ELSE @[i]]]
    /\ pending' = IF \E i \in Projects : docs[i] # store[i]
                  THEN [saved |-> TRUE, docs |-> docs] ELSE pending

SetStore(docs) == store' = docs /\ Persist(docs)

\* Mutant: the timer is cleared and its snapshot dropped with it.
Flushed_Drops(s) == disk

\* A snapshot written under scope s
Flushed(s) ==
    IF pending.saved
    THEN [disk EXCEPT ![s] = [saved |-> TRUE,
            docs |-> [i \in Items |-> IF i \in Projects THEN pending.docs[i] ELSE @.docs[i]]]]
    ELSE disk

\* Mutant: a change made while a batch runs is not remembered.
Schedule_Drops ==
    IF active = Nobody \/ applying \/ Busy THEN UNCHANGED <<timer, queued>>
    ELSE timer' = TRUE /\ UNCHANGED queued

\* scheduleRemoteUserDataSync
Schedule ==
    IF active = Nobody \/ applying THEN UNCHANGED <<timer, queued>>
    ELSE IF Busy THEN queued' = TRUE /\ UNCHANGED timer
    ELSE timer' = TRUE /\ UNCHANGED queued

\* The 400 ms timer writes the snapshot under the scope of that moment.
PersistFires ==
    /\ pending.saved
    /\ disk' = Flushed(scope)
    /\ pending' = NoSnapshot
    /\ UNCHANGED <<server, store, media, link, cookie, batch, session, calls, clock, ghosts, count>>

-----------------------------------------------------------------------------
(* One batch.  saveRemoteUserDataBatch takes what it will send from the    *)
(* stores, uploads the local media the changed documents refer to, puts    *)
(* its copies back into the stores, and then sends them one by one.        *)

Dirty(docs, known) == {i \in Items : docs[i] # Gone /\ known[i] # docs[i]}
Missing(docs, known) == {i \in Items : known[i] # Gone /\ docs[i] = Gone}

\* replaceById(currentProjects, projects), and the same for assets: a store of
\* which something was changed goes back to its content at the batch's start.
PutBack(now, snap, dirty) ==
    [i \in Items |->
        IF (i \in Projects /\ dirty \cap Projects # {}) \/ (i \in Assets /\ dirty \cap Assets # {})
        THEN snap[i] ELSE now[i]]

\* The batch that a save started over docs and known begins with
BatchOf(docs, known) ==
    LET dirty == Dirty(docs, known)
    IN  IF dirty \union Missing(docs, known) = {} THEN NoBatch
        ELSE [pc |-> IF dirty \cap media # {} THEN "upload" ELSE "upsert",
              snap |-> docs, todo |-> dirty, gone |-> Missing(docs, known), retry |-> FALSE]

\* saveRemoteUserDataNow, of a page whose stores are docs: single flight
SaveNow(docs) ==
    IF active = Nobody THEN UNCHANGED <<batch, queued>>
    ELSE IF Busy THEN queued' = TRUE /\ UNCHANGED batch
    ELSE batch' = BatchOf(docs, versions) /\ queued' = FALSE

TimerFires ==
    /\ timer
    /\ timer' = FALSE
    /\ SaveNow(store)
    /\ UNCHANGED <<data, scope, active, versions, applying, cookie, session, calls, clock, ghosts, count>>

\* The uploads end; one that failed leaves the local reference where it was.
Upload ==
    /\ batch.pc = "upload"
    /\ \E uploaded \in {batch.todo \cap media, {}} :
        /\ uploaded = {} => count.failures < MaxFailures
        /\ media' = media \ uploaded
        /\ count' = IF uploaded = {} THEN [count EXCEPT !.failures = @ + 1] ELSE count
    /\ LET docs == PutBack(store, batch.snap, batch.todo)
       IN  SetStore(docs) /\ raced' = (raced \/ docs # store)
    /\ batch' = [batch EXCEPT !.pc = "upsert"]
    /\ applying' = FALSE
    /\ UNCHANGED <<server, scope, active, versions, timer, queued, cookie, session, calls,
                   clock, latest, seen, deleted, missed, failed>>

\* The requests go out in this order: projects, assets, then the deletions.
FirstOf(set) == IF set \cap Projects # {} THEN set \cap Projects ELSE set

\* Where the loop of drainRemoteUserDataChanges goes after a batch
Drained(known) ==
    IF queued THEN batch' = BatchOf(store, known) /\ queued' = FALSE
    ELSE batch' = NoBatch /\ UNCHANGED queued

\* The next request of the batch is done: known are the versions afterwards.
Proceed(rest, known) ==
    IF rest.todo \union rest.gone # {}
    THEN batch' = rest /\ UNCHANGED <<queued, applying, failed>>
    ELSE Drained(known) /\ applying' = FALSE /\ failed' = FALSE

\* UpsertCanvasProject: an id is a primary key, so another user's row refuses it
Accepts(u, i) == u # Nobody /\ \A w \in Users \ {u} : server[w][i] = Gone

SendUpsert ==
    /\ batch.pc = "upsert"
    /\ \E i \in FirstOf(batch.todo) :
        /\ Accepts(cookie, i)
        /\ server' = [server EXCEPT ![cookie][i] = batch.snap[i]]
        /\ seen' = [seen EXCEPT ![cookie] = @ \union {i}]
        /\ versions' = [versions EXCEPT ![i] = batch.snap[i]]
        /\ Proceed([batch EXCEPT !.todo = @ \ {i}], versions')
    /\ UNCHANGED <<disk, store, media, pending, scope, active, timer, cookie, session, calls,
                   clock, latest, deleted, raced, missed, count>>

SendDelete ==
    /\ batch.pc = "upsert" /\ batch.todo = {}
    /\ \E i \in FirstOf(batch.gone) :
        /\ cookie # Nobody
        /\ server' = [server EXCEPT ![cookie][i] = Gone]
        /\ versions' = [versions EXCEPT ![i] = Gone]
        /\ Proceed([batch EXCEPT !.gone = @ \ {i}], versions')
    /\ UNCHANGED <<disk, store, media, pending, scope, active, timer, cookie, session, calls,
                   clock, latest, seen, deleted, raced, missed, count>>

\* A request fails: the batch and its loop end with it, and a queued round is
\* lost.  Only the creation of a project arms the timer again.
RequestFails ==
    /\ batch.pc = "upsert"
    /\ IF cookie = Nobody \/ \E i \in batch.todo : ~Accepts(cookie, i)
       THEN UNCHANGED count
       ELSE count.failures < MaxFailures /\ count' = [count EXCEPT !.failures = @ + 1]
    /\ batch' = NoBatch
    /\ applying' = FALSE
    /\ failed' = TRUE
    /\ timer' = (timer \/ (batch.retry /\ active # Nobody))
    /\ UNCHANGED <<data, scope, active, versions, queued, cookie, session, calls,
                   clock, latest, seen, deleted, raced, missed>>
-----------------------------------------------------------------------------
(* The user's edits.                                                       *)

\* Mutant: a document is stamped by a clock that runs ahead.
Stamp_Ahead(docs, i) == [docs EXCEPT ![i] = clock + 2]

Stamp(docs, i) == [docs EXCEPT ![i] = clock + 1]
Tick == clock < MaxClock /\ clock' = clock + 1

\* createProject and addAsset take a fresh id; the others change what is there.
MayEdit(i) ==
    \/ store[i] # Gone
    \/ Owner[i] = scope /\ latest[i] = Gone /\ i \notin seen[scope]

\* What an edit does to the stores: the document may refer to new local media.
Edited(i) ==
    /\ LoggedIn /\ MayEdit(i) /\ Tick
    /\ SetStore(Stamp(store, i))
    /\ media' \in {media, media \union {i}}
    /\ latest' = [latest EXCEPT ![i] = clock + 1]
    /\ UNCHANGED <<server, scope, active, versions, applying, cookie, session, calls,
                   seen, deleted, raced, missed, failed, count>>

Edit(i) == Edited(i) /\ Schedule /\ UNCHANGED batch

\* createCanvasProjectWithRemoteSync: its subscriber arms the timer, and the
\* save starts at once or asks the running one for another round.
CreateProject(i) ==
    /\ i \in Projects /\ store[i] = Gone /\ active # Nobody
    /\ Edited(i)
    /\ IF Busy THEN queued' = TRUE /\ batch' = [batch EXCEPT !.retry = TRUE] /\ UNCHANGED timer
       ELSE /\ timer' = TRUE /\ queued' = FALSE
            /\ batch' = [BatchOf(store', versions) EXCEPT !.retry = TRUE,
                                !.pc = IF i \in media' THEN "upload" ELSE @]

\* deleteProjects
DeleteProject(i) ==
    /\ LoggedIn /\ i \in Projects /\ store[i] # Gone
    /\ SetStore([store EXCEPT ![i] = Gone])
    /\ deleted' = [deleted EXCEPT ![scope] = @ \union {i}]
    /\ Schedule
    /\ UNCHANGED <<server, media, scope, active, versions, applying, cookie, batch, session,
                   calls, clock, latest, seen, raced, missed, failed, count>>

\* deleteAssetWithRemoteSync: the backend first; the store only when it has answered.
DeleteAsset(a) ==
    /\ LoggedIn /\ a \in Assets /\ store[a] # Gone /\ <<"delete", a>> \notin calls
    /\ calls' = calls \union {<<"delete", a>>}
    /\ UNCHANGED <<data, link, cookie, batch, session, clock, ghosts, count>>

\* The backend removes the asset.
Removes(a) ==
    /\ cookie # Nobody
    /\ server' = [server EXCEPT ![cookie][a] = Gone]
    /\ deleted' = [deleted EXCEPT ![cookie] = @ \union {a}]

DeleteReturns(a) ==
    /\ <<"delete", a>> \in calls
    /\ calls' = calls \ {<<"delete", a>>}
    /\ Removes(a)
    /\ versions' = [versions EXCEPT ![a] = Gone]
    /\ SetStore([store EXCEPT ![a] = Gone])
    /\ Schedule
    /\ raced' = (raced \/ session.pc # "idle")
    /\ UNCHANGED <<media, scope, active, applying, cookie, batch, session, clock, latest, seen,
                   missed, failed, count>>

\* No answer comes: the store keeps the asset, whatever the backend did.
DeleteFails(a) ==
    /\ <<"delete", a>> \in calls
    /\ calls' = calls \ {<<"delete", a>>}
    /\ Removes(a) \/ UNCHANGED <<server, deleted>>
    /\ IF cookie = Nobody THEN UNCHANGED count
       ELSE count.failures < MaxFailures /\ count' = [count EXCEPT !.failures = @ + 1]
    /\ UNCHANGED <<disk, store, media, pending, link, cookie, batch, session, clock, latest, seen,
                   raced, missed, failed>>

\* saveCanvasProject on the canvas page: update, flush, save
SaveCanvas(i) ==
    /\ LoggedIn /\ i \in Projects /\ store[i] # Gone /\ Tick
    /\ store' = Stamp(store, i)
    /\ disk' = [disk EXCEPT ![scope] = [saved |-> TRUE,
                  docs |-> [j \in Items |-> IF j \in Projects THEN store'[j] ELSE @.docs[j]]]]
    /\ pending' = NoSnapshot
    /\ latest' = [latest EXCEPT ![i] = clock + 1]
    /\ SaveNow(store')
    /\ timer' = (timer \/ (active # Nobody /\ ~applying /\ ~Busy))
    /\ UNCHANGED <<server, media, scope, active, versions, applying, cookie, session, calls,
                   seen, deleted, raced, missed, failed, count>>

\* persistCanvasNodeAsset: save now, link on the backend, then change the asset
\* once more and save again; the answer may come back to another session.
LinkAsset(a) ==
    /\ LoggedIn /\ a \in Assets /\ store[a] # Gone /\ <<"link", a>> \notin calls
    /\ calls' = calls \union {<<"link", a>>}
    /\ SaveNow(store)
    /\ UNCHANGED <<data, scope, active, versions, applying, timer, cookie, session, clock,
                   ghosts, count>>

LinkReturns(a) ==
    /\ <<"link", a>> \in calls /\ cookie # Nobody /\ server[cookie][a] # Gone /\ Tick
    /\ calls' = calls \ {<<"link", a>>}
    /\ IF store[a] = Gone THEN UNCHANGED <<store, disk, pending, latest>>
       ELSE /\ SetStore(Stamp(store, a))
            /\ latest' = [latest EXCEPT ![a] = clock + 1]
    /\ raced' = (raced \/ session.pc # "idle")
    /\ SaveNow(store')
    /\ UNCHANGED <<server, media, scope, active, versions, applying, timer, cookie, session,
                   seen, deleted, missed, failed, count>>

LinkFails(a) ==
    /\ <<"link", a>> \in calls
    /\ calls' = calls \ {<<"link", a>>}
    /\ UNCHANGED <<data, link, cookie, batch, session, clock, ghosts, count>>

\* The same account at work on another device
OtherDevice(u, i) ==
    /\ Owner[i] = u /\ server[u][i] # Gone /\ Tick
    /\ count.elsewhere < MaxElsewhere
    /\ server' = [server EXCEPT ![u][i] = clock + 1]
    /\ count' = [count EXCEPT !.elsewhere = @ + 1]
    /\ UNCHANGED <<disk, store, media, pending, link, cookie, batch, session, calls, ghosts>>

-----------------------------------------------------------------------------
(* applyUserSession.                                                       *)

Start(u, from) == session' = [NoSession EXCEPT !.pc = "begin", !.user = u, !.from = from]

\* The login page.  It takes longer than the 400 ms of the persistence timer.
Login(u) ==
    /\ session.pc = "idle" /\ scope = Nobody /\ ~pending.saved
    /\ count.sessions < MaxSessions
    /\ count' = [count EXCEPT !.sessions = @ + 1]
    /\ cookie' = u
    /\ Start(u, "login")
    /\ UNCHANGED <<data, link, batch, calls, clock, ghosts>>

Logout ==
    /\ LoggedIn
    /\ cookie' = Nobody
    /\ Start(Nobody, "login")
    /\ UNCHANGED <<data, link, batch, calls, clock, ghosts, count>>

\* The page is loaded again: sessionStorage keeps the scope, the stores start
\* from its snapshots, and AuthSessionHydrator asks who the user is.
Reload ==
    /\ count.reloads < MaxReloads
    /\ count' = [count EXCEPT !.reloads = @ + 1]
    /\ store' = disk[scope].docs
    /\ media' = {i \in media : store'[i] # Gone}
    /\ pending' = NoSnapshot
    /\ active' = Nobody /\ versions' = Empty
    /\ applying' = FALSE /\ timer' = FALSE /\ queued' = FALSE
    /\ batch' = NoBatch /\ calls' = {}
    /\ raced' = (raced \/ pending.saved)
    /\ \E u \in {cookie, Nobody} : Start(u, "load")
    /\ UNCHANGED <<server, disk, scope, cookie, clock, latest, seen, deleted, missed, failed>>

\* resetRemoteUserDataSync and flushCanvasStorePersistence; the loader replaces
\* the page, and a canvas page that closes with it stores its viewport.
Begin ==
    /\ session.pc = "begin"
    /\ session' = [session EXCEPT !.pc = "restore"]
    /\ active' = Nobody /\ versions' = Empty /\ timer' = FALSE
    /\ disk' = Flushed(scope)
    /\ raced' = (raced \/ Busy \/ calls # {})
    /\ \/ UNCHANGED <<store, clock>> /\ pending' = NoSnapshot
       \/ \E i \in Projects :
             /\ session.from = "login" /\ scope # Nobody
             /\ store[i] # Gone /\ Tick
             /\ store' = Stamp(store, i)
             /\ pending' = [saved |-> TRUE, docs |-> store']
    /\ UNCHANGED <<server, media, scope, applying, queued, cookie, batch, calls,
                   latest, seen, deleted, missed, failed, count>>

\* Mutant: a scope without a snapshot keeps the memory of the one before.
Restore_KeepsMemory ==
    /\ session.pc = "restore"
    /\ scope' = session.user /\ active' = session.user
    /\ applying' = IF session.user = Nobody THEN applying ELSE TRUE
    /\ store' = IF disk[session.user].saved THEN disk[session.user].docs ELSE store
    /\ session' = IF session.user = Nobody THEN NoSession ELSE [session EXCEPT !.pc = "list"]
    /\ UNCHANGED <<server, disk, media, pending, versions, timer, queued, cookie, batch, calls,
                   clock, ghosts, count>>

\* The scope changes and the stores take its snapshots.  A scope without one
\* gets empty stores, which the middleware persists like any other change.
Restore ==
    /\ session.pc = "restore"
    /\ scope' = session.user /\ active' = session.user
    /\ applying' = IF session.user = Nobody THEN applying ELSE TRUE
    /\ store' = disk[session.user].docs
    /\ media' = {i \in media : store'[i] # Gone}
    /\ pending' = IF disk[session.user].saved THEN pending ELSE [saved |-> TRUE, docs |-> Empty]
    /\ session' = IF session.user = Nobody THEN NoSession ELSE [session EXCEPT !.pc = "list"]
    /\ UNCHANGED <<server, disk, versions, timer, queued, cookie, batch, calls, clock,
                   ghosts, count>>

\* Both lists have arrived: what they name is known to be on the backend, and
\* what is newer there, or absent here, is to be fetched.
ListReturns ==
    /\ session.pc = "list" /\ cookie = session.user
    /\ versions' = server[cookie]
    /\ session' = [session EXCEPT !.pc = "fetch", !.snap = store,
                      !.fetch = {i \in Items : server[cookie][i] > store[i]}]
    /\ UNCHANGED <<data, scope, active, applying, timer, queued, cookie, batch, calls, clock,
                   ghosts, count>>

\* Mutant: what is only on the backend does not get into the stores.
Merged_LocalOnly(snap, fetched, remote) ==
    [i \in Items |-> IF i \in fetched /\ snap[i] # Gone THEN remote[i] ELSE snap[i]]

\* mergeById: of two copies the newer one, the local one of two equals
Merged(snap, fetched, remote) ==
    [i \in Items |-> IF i \in fetched /\ remote[i] > snap[i] THEN remote[i] ELSE snap[i]]

FetchReturns ==
    /\ session.pc = "fetch" /\ cookie = session.user
    /\ \A i \in session.fetch : server[cookie][i] # Gone
    /\ LET docs == Merged(session.snap, session.fetch, server[cookie])
       IN  SetStore(docs) /\ SaveNow(docs)
    /\ raced' = (raced \/ store # session.snap)
    /\ applying' = FALSE
    /\ failed' = FALSE
    /\ session' = [session EXCEPT !.pc = "save"]
    /\ UNCHANGED <<server, media, scope, active, versions, timer, cookie, calls, clock,
                   latest, seen, deleted, missed, count>>

\* A request of syncRemoteUserData fails.  The login page shows the error and
\* leaves the user logged in; AuthSessionHydrator starts a guest session.
SyncFails ==
    /\ session.pc \in {"list", "fetch"}
    /\ count.failures < MaxFailures
    /\ count' = [count EXCEPT !.failures = @ + 1]
    /\ applying' = FALSE
    /\ failed' = TRUE
    /\ missed' = (missed \/ session.pc = "fetch")
    /\ IF session.from = "load" THEN Start(Nobody, "login") ELSE session' = NoSession
    /\ UNCHANGED <<data, scope, active, versions, timer, queued, cookie, batch, calls, clock,
                   latest, seen, deleted, raced>>

\* The first save is over, whatever came of it.
FirstSaveEnds ==
    /\ session.pc = "save" /\ ~Busy
    /\ Schedule
    /\ session' = NoSession
    /\ UNCHANGED <<data, scope, active, versions, applying, cookie, batch, calls, clock,
                   ghosts, count>>

Batch == TimerFires \/ Upload \/ SendUpsert \/ SendDelete \/ RequestFails
SessionSteps == Begin \/ Restore \/ ListReturns \/ FetchReturns \/ SyncFails \/ FirstSaveEnds
Answers == \E a \in Assets : LinkReturns(a) \/ LinkFails(a) \/ DeleteReturns(a) \/ DeleteFails(a)

User ==
    \/ \E i \in Items : Edit(i) \/ CreateProject(i) \/ DeleteProject(i) \/ SaveCanvas(i)
    \/ \E a \in Assets : DeleteAsset(a) \/ LinkAsset(a)
    \/ \E u \in Users : Login(u) \/ \E i \in Items : OtherDevice(u, i)
    \/ Logout
    \/ Reload

Next == PersistFires \/ Batch \/ SessionSteps \/ Answers \/ User

Spec == Init /\ [][Next]_vars

-----------------------------------------------------------------------------
\* NothingLost: the user's last edit of a document that he did not delete is in
\* the page, waiting for the persistence timer, in his scope on the disk or on
\* his backend, through logins, logouts, reloads and failed requests (the flush
\* at a session change, the merge of a login, user-session.ts, use-canvas-store.ts).
NothingLost ==
    ~raced =>
        \A i \in Items :
            LET u == Owner[i]
            IN  i \in deleted[u] \/
                latest[i] <= Max({disk[u].docs[i], server[u][i]}
                    \union (IF scope = u THEN {store[i], pending.docs[i]} ELSE {}))

\* OnlyDeletedIsRemoved: what a user once had on the backend is removed there
\* only after he deleted it; a store that is empty because another scope was
\* restored, or because the page was just loaded, is never taken for a deletion
\* (missingIds of user-data-sync.ts), as long as the login's downloads succeeded.
OnlyDeletedIsRemoved ==
    ~raced /\ ~missed =>
        \A u \in Users : \A i \in seen[u] \ deleted[u] : server[u][i] # Gone

\* OwnData: no document of one user reaches the backend or the disk partition
\* of another (user-scope.ts, user-session.ts).
OwnData ==
    ~raced =>
        \A u \in Users, i \in Items :
            server[u][i] # Gone \/ disk[u].docs[i] # Gone => Owner[i] = u

\* QuietIsSynced: when the logged-in page rests (no timer armed, no batch, call
\* or session change under way) everything in it has been sent, unless the last
\* attempt failed: no change is forgotten because it was made while a batch ran,
\* was being prepared, or while remote state was applied (syncQueued,
\* applyingRemoteState).
QuietIsSynced ==
    ~raced /\ LoggedIn /\ active # Nobody /\ ~timer /\ ~Busy /\ calls = {} /\ ~failed =>
        Dirty(store, versions) \union Missing(store, versions) = {}

\* BackendFallback: README.md:94 says that canvases and assets are synchronised
\* to the backend after the login and that the local copy continues to serve
\* when the backend is unavailable: a download that fails during a login
\* therefore removes nothing from the backend.
BackendFallback ==
    ~raced => \A u \in Users : \A i \in seen[u] \ deleted[u] : server[u][i] # Gone
=============================================================================
