------------------------------- MODULE LiveTab -------------------------------
(***************************************************************************)
(* How a dashboard tab stays current: the event stream and the refetches   *)
(* it causes (src/web/src/hooks/use-event-stream.ts), the reload on a new  *)
(* build (src/web/src/lib/build-refresh.ts) and the two guards against a   *)
(* chunk that is gone (build-refresh.ts, src/web/src/routes/lazy.tsx).     *)
(* At the other end, `_serve_events` of src/src/wisp/central/server.py.    *)
(*                                                                         *)
(* External: EventSource reconnects after a network error and gives up     *)
(* after an HTTP error; invalidateQueries restarts a refetch under way;    *)
(* Vite's import helper, whose default was prevented, yields undefined.    *)
(***************************************************************************)
EXTENDS Naturals

CONSTANTS
    Routes,       \* the lazily loaded pages
    Broken,       \* the builds that lack a chunk they name
    MaxVersion,   \* bound: the version of the server's data
    MaxDeploys,   \* bound: deployments, among them roll-backs
    MaxVisits,    \* bound: navigations
    MaxReloads    \* bound: reloads by the chunk guards

VARIABLES
    own, served,       \* the build of this page and the one the server serves
    pending,           \* build-refresh.ts pending; 0: none
    reloadedFor,       \* sessionStorage RELOADED_KEY; 0: none
    chunkKey,          \* sessionStorage "wisp:chunk-reload"
    route, shown,      \* the route, and whether its chunk has been loaded
    hidden, dialog,    \* document.visibilityState, an open dialog
    stream,            \* EventSource: "connecting", "open", "closed"
    told,              \* what the server has sent down this stream
    version,           \* the version of the server's data
    view,              \* the version on the screen
    fetch,             \* the refetch: none, sent, or the version it brings
    deploys, visits, reloads, chunkReloads  \* history: how often

vars == <<own, served, pending, reloadedFor, chunkKey, route, shown, hidden,
          dialog, stream, told, version, view, fetch, deploys, visits,
          reloads, chunkReloads>>
streamVars == <<stream, told>>
dataVars == <<view, fetch>>
chunkVars == <<chunkKey, route, shown>>
counters == <<deploys, visits, reloads, chunkReloads>>

Builds == 1..2
Nothing == [build |-> 0, version |-> 0]
NoFetch == [st |-> "none", v |-> 0]
Sent == [st |-> "sent", v |-> 0]

TypeOK ==
    /\ {own, served} \subseteq Builds
    /\ {pending, reloadedFor} \subseteq Builds \cup {0}
    /\ chunkKey \in Routes \cup {"none", "1"}
    /\ route \in Routes
    /\ {shown, hidden, dialog} \subseteq BOOLEAN
    /\ stream \in {"connecting", "open", "closed"}
    /\ told \in [build : Builds \cup {0}, version : 0..MaxVersion]
    /\ version \in 1..MaxVersion /\ view \in 0..MaxVersion
    /\ fetch \in [st : {"none", "sent", "answered"}, v : 0..MaxVersion]
    /\ deploys <= MaxDeploys /\ visits <= MaxVisits
    /\ chunkReloads <= MaxReloads

Init ==
    /\ own = 1 /\ served = 1 /\ pending = 0 /\ reloadedFor = 0
    /\ chunkKey = "none" /\ route \in Routes /\ shown = FALSE
    /\ hidden \in BOOLEAN /\ dialog = FALSE
    /\ stream = "connecting" /\ told = Nothing
    /\ version = 1 /\ view = 0 /\ fetch = Sent
    /\ deploys = 0 /\ visits = 0 /\ reloads = 0 /\ chunkReloads = 0

(***************************************************************************)
(* A page load.  The index may come out of a cache, with the old build.    *)
(***************************************************************************)
Load ==
    /\ own' \in {own, served}
    /\ pending' = 0 /\ dialog' = FALSE /\ shown' = FALSE
    /\ stream' = "connecting" /\ told' = Nothing
    /\ view' = 0 /\ fetch' = Sent

\* reloadNow: one automatic attempt for a build.
ReloadNow ==
    /\ reloadedFor' = pending
    /\ reloads' = reloads + 1
    /\ Load

(***************************************************************************)
(* The stream.                                                             *)
(***************************************************************************)
\* MUTANT: a new stream starts from the server's present version.
AcceptFromNow ==
    /\ stream = "connecting"
    /\ stream' = "open" /\ told' = [Nothing EXCEPT !.version = version]
    /\ UNCHANGED <<own, served, pending, reloadedFor, chunkVars, hidden,
                   dialog, version, dataVars, counters>>

\* A new stream has been told nothing, neither build nor version.
Accept ==
    /\ stream = "connecting"
    /\ stream' = "open" /\ told' = Nothing
    /\ UNCHANGED <<own, served, pending, reloadedFor, chunkVars, hidden,
                   dialog, version, dataVars, counters>>

\* An HTTP error ends an EventSource for good, a network error does not.
Refuse ==
    /\ stream = "connecting"
    /\ stream' = "closed"
    /\ UNCHANGED <<own, served, pending, reloadedFor, chunkVars, hidden,
                   dialog, told, version, dataVars, counters>>

Drop ==
    /\ stream = "open"
    /\ stream' = "connecting"
    /\ UNCHANGED <<own, served, pending, reloadedFor, chunkVars, hidden,
                   dialog, told, version, dataVars, counters>>

\* MUTANT: a build already tried is tried again.
NewsAlways(id) == id # own

\* onServerBuild takes up a build that is not this page's and has not been
\* reloaded for.
News(id) == id # own /\ id # reloadedFor

\* event: build.  A hidden page without a dialog reloads at once.
PushBuild ==
    /\ stream = "open" /\ told.build # served
    /\ IF News(served) /\ hidden /\ ~dialog
       THEN /\ reloadedFor' = served /\ reloads' = reloads + 1 /\ Load
       ELSE /\ told' = [told EXCEPT !.build = served]
            /\ pending' = IF News(served) THEN served ELSE pending
            /\ UNCHANGED <<own, reloadedFor, shown, dialog, stream, dataVars,
                           reloads>>
    /\ UNCHANGED <<served, chunkKey, route, hidden, version, deploys, visits,
                   chunkReloads>>

\* event: changed.  The live queries are refetched, from the start if a
\* refetch is under way.
PushChanged ==
    /\ stream = "open" /\ told.version # version
    /\ told' = [told EXCEPT !.version = version]
    /\ fetch' = Sent
    /\ UNCHANGED <<own, served, pending, reloadedFor, chunkVars, hidden,
                   dialog, stream, version, view, counters>>

AnswerFetch ==
    /\ fetch = Sent
    /\ fetch' = [st |-> "answered", v |-> version]
    /\ UNCHANGED <<own, served, pending, reloadedFor, chunkVars, hidden,
                   dialog, streamVars, version, view, counters>>

Show ==
    /\ fetch.st = "answered"
    /\ view' = fetch.v /\ fetch' = NoFetch
    /\ UNCHANGED <<own, served, pending, reloadedFor, chunkVars, hidden,
                   dialog, streamVars, version, counters>>

(***************************************************************************)
(* Visibility.                                                             *)
(***************************************************************************)
\* onHidden: a pending build is loaded, unless a dialog is open.
Hide ==
    /\ ~hidden /\ hidden' = TRUE
    /\ IF pending # 0 /\ ~dialog
       THEN ReloadNow
       ELSE UNCHANGED <<own, pending, reloadedFor, shown, dialog, streamVars,
                        dataVars, reloads>>
    /\ UNCHANGED <<served, chunkKey, route, version, deploys, visits,
                   chunkReloads>>

\* onVisibility: a stream that is not open is replaced, the screen refetched.
Return ==
    /\ hidden /\ hidden' = FALSE
    /\ IF stream = "open"
       THEN UNCHANGED streamVars
       ELSE stream' = "connecting" /\ told' = Nothing
    /\ fetch' = Sent
    /\ UNCHANGED <<own, served, pending, reloadedFor, chunkVars, dialog,
                   version, view, counters>>

Dialog ==
    /\ ~hidden /\ shown
    /\ dialog' = ~dialog
    /\ UNCHANGED <<own, served, pending, reloadedFor, chunkVars, hidden,
                   streamVars, version, dataVars, counters>>

(***************************************************************************)
(* Routes and their chunks.                                                *)
(***************************************************************************)
\* onNavigate: a navigation takes a pending build along.
Navigate(r) ==
    /\ ~hidden /\ r # route /\ visits < MaxVisits
    /\ visits' = visits + 1
    /\ route' = r
    /\ IF pending # 0
       THEN ReloadNow
       ELSE /\ shown' = FALSE
            /\ UNCHANGED <<own, pending, reloadedFor, dialog, streamVars,
                           dataVars, reloads>>
    /\ UNCHANGED <<served, chunkKey, hidden, version, deploys, chunkReloads>>

\* A chunk is served with the build it belongs to, or comes from a cache.
ChunkLoads ==
    /\ ~shown /\ own \notin Broken
    /\ shown' = TRUE
    /\ chunkKey' = "none"
    /\ UNCHANGED <<own, served, pending, reloadedFor, route, hidden, dialog,
                   streamVars, version, dataVars, counters>>

\* installChunkGuard: the key after vite:preloadError, and whether the error
\* is kept from the importer.
Prevented == chunkKey # route

\* The key lazy.tsx finds.  Of a prevented error it gets no module, clears the
\* key as if the load had gone well, and fails on the module's name.
KeyAtCatch == IF Prevented THEN "none" ELSE chunkKey

\* The key set by one guard is no use to the other: the page reloads.
ChunkFails ==
    /\ ~shown /\ (own \in Broken \/ own # served)
    /\ KeyAtCatch # "1"
    /\ chunkReloads < MaxReloads
    /\ chunkKey' = "1"
    /\ chunkReloads' = chunkReloads + 1
    /\ Load
    /\ UNCHANGED <<served, reloadedFor, route, hidden, version, deploys,
                   visits, reloads>>

(***************************************************************************)
(* The world.                                                              *)
(***************************************************************************)
Change ==
    /\ version < MaxVersion
    /\ version' = version + 1
    /\ UNCHANGED <<own, served, pending, reloadedFor, chunkVars, hidden,
                   dialog, streamVars, dataVars, counters>>

Deploy(b) ==
    /\ b # served /\ deploys < MaxDeploys
    /\ served' = b /\ deploys' = deploys + 1
    /\ UNCHANGED <<own, pending, reloadedFor, chunkVars, hidden, dialog,
                   streamVars, version, dataVars, visits, reloads,
                   chunkReloads>>

Next ==
    \/ Accept \/ Refuse \/ Drop \/ PushBuild \/ PushChanged
    \/ AnswerFetch \/ Show
    \/ Hide \/ Return \/ Dialog
    \/ \E r \in Routes : Navigate(r)
    \/ ChunkLoads \/ ChunkFails
    \/ Change
    \/ \E b \in Builds : Deploy(b)

\* The network and the server do their work in the end.  A refetch that is
\* restarted again and again completes between two restarts: a stream that
\* fails is retried after three seconds (server.py:613).
Fairness ==
    /\ SF_vars(Accept) /\ SF_vars(PushChanged)
    /\ SF_vars(AnswerFetch) /\ SF_vars(Show)

Spec == Init /\ [][Next]_vars
FairSpec == Spec /\ Fairness

(***************************************************************************)
(* Properties.                                                             *)
(***************************************************************************)
\* The build watcher cannot reload in a loop (build-refresh.ts:48-50): there
\* is at most one reload for each deployment, cached index or not.
NoReloadLoop == reloads <= deploys

\* A tab that stays in view comes to show the server's data, whatever streams
\* it loses on the way; only an HTTP error that ends the stream is excepted
\* (use-event-stream.ts:45 probes, and nothing reopens it before the tab has
\* been hidden).
ViewCatchesUp ==
    <>[](~hidden /\ stream # "closed") => <>[](view = version)

\* "Keyed by route so a genuinely broken chunk can't reload-loop"
\* (build-refresh.ts:62): of the two guards each reloads at most once for a
\* visit or a deployment.
NoChunkReloadLoop == chunkReloads <= 2 * (1 + visits + deploys)
=============================================================================
