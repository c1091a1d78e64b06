------------------------------ MODULE MCDashboard ------------------------------
(***************************************************************************)
(* Parts of the dashboard whose promises are safety, next to each other    *)
(* for one run: a behaviour is a behaviour of one of them, the others      *)
(* stand still.  They share no state.                                      *)
(***************************************************************************)
EXTENDS Naturals

CONSTANTS
    Routes, Broken, MaxVersion, MaxDeploys, MaxVisits, MaxReloads, Owners, Supers,
    Orgs, FirstOrg, NoUser, NoOrg, MaxSessions, Pinned, Boxes, None, MaxModes,
    MaxCalls, Pins, Ground, Near, MaxPoints, MaxCables, Listed, Plant, MaxMoves,
    Targets, MaxValues, Views, Home, SuperOnly, AccountOnly, MainOnly, Roles, Floor,
    Grip, Parts, MaxLayouts

VARIABLES
    part,
    own, served, pending, reloadedFor, chunkKey, route, shown, hidden, dialog,
    stream, told, version, view, fetch, deploys, visits, reloads, chunkReloads,
    me, cookie, serial, probe, login, code, leaving, page, expired, scope, stored,
    resolved, dead, late,
    replay, mode, menu, popup, card, sel, light, placed, located, calls,
    trace, form, cableCall, closures, cables,
    parent, detached, collapsed, focus, open, filter, hits, gridView, plantOpen,
    moves,
    draftForm, storedValue, noiseOf, seenValue, shownTarget, draftOf, unreadOf,
    readingOf, saveCall, nextValue,
    role, mainPage, window, pane, inner, axis, fraction, box, storedSplit, layouts

\* What the filters and the search box of the network page can select.
ListFilters == {Listed, {d \in Listed : \E e \in Listed : e < d}}
ListSearches == {{CHOOSE d \in Listed : \E e, f \in Listed : e < d /\ d < f}}

\* Sizes of the window: too small, room below, room beside, room for both.
SplitSizes == {<<4, 4>>, <<4, 5>>, <<7, 4>>, <<5, 7>>}

T == INSTANCE LiveTab
A == INSTANCE WebSession
M == INSTANCE MapModes
       WITH Devs <- Pinned, dialog <- popup
C == INSTANCE CableTrace
       WITH call <- cableCall
N == INSTANCE NetworkTree
       WITH Devs <- Listed, Filters <- ListFilters, Searches <- ListSearches
D == INSTANCE Drafts
       WITH form <- draftForm, stored <- storedValue, shown <- shownTarget, call <-
            saveCall, seen <- seenValue, next <- nextValue, noise <- noiseOf,
            reading <- readingOf, unread <- unreadOf, draft <- draftOf
V == INSTANCE SplitView
       WITH MaxVisits <- MaxLayouts, Elsewhere <- MainOnly, Sizes <- SplitSizes,
            stored <- storedSplit, page <- mainPage, visits <- layouts

ASSUME DashAssumption ==
    /\ A!SessionAssumption /\ M!MapAssumption /\ C!CableAssumption
    /\ N!TreeAssumption /\ V!SplitAssumption

tabVars ==
    <<own, served, pending, reloadedFor, chunkKey, route, shown, hidden, dialog,
      stream, told, version, view, fetch, deploys, visits, reloads, chunkReloads>>
sessionVars ==
    <<me, cookie, serial, probe, login, code, leaving, page, expired, scope, stored,
      resolved, dead, late>>
mapVars ==
    <<replay, mode, menu, popup, card, sel, light, placed, located, calls>>
cableVars ==
    <<trace, form, cableCall, closures, cables>>
treeVars ==
    <<parent, detached, collapsed, focus, open, filter, hits, gridView, plantOpen,
      moves>>
formVars ==
    <<draftForm, storedValue, noiseOf, seenValue, shownTarget, draftOf, unreadOf,
      readingOf, saveCall, nextValue>>
splitVars ==
    <<role, mainPage, window, pane, inner, axis, fraction, box, storedSplit,
      layouts>>
allVars ==
    <<part, tabVars, sessionVars, mapVars, cableVars, treeVars, formVars,
      splitVars>>

\* A part that does not move has no state to speak of, or a fixed one.
DashInit ==
    /\ part \in {"tab", "session", "map", "cable", "tree", "form", "split"}
    /\ T!Init /\ (part # "tab" => ~hidden /\ route = CHOOSE r \in Routes : TRUE)
    /\ A!Init /\ (part # "session" => cookie = NoUser /\ scope = NoOrg)
    /\ M!Init /\ (part # "map" => replay /\ light = "dark" /\ placed = {} /\ located)
    /\ C!Init
    /\ IF part = "tree"
         THEN N!Init
         ELSE /\ parent = None /\ detached = None /\ collapsed = None /\ focus = None
              /\ open = None /\ filter = None /\ hits = None /\ gridView = None
              /\ plantOpen = None /\ moves = None
    /\ D!Init /\ (part # "form" => draftForm = CHOOSE g \in D!Forms : TRUE)
    /\ V!Init /\ (part # "split" => mainPage = Home /\ window = <<7, 4>> /\ role = "worker")

TabMoves ==
    /\ part = "tab" /\ T!Next
    /\ UNCHANGED
           <<sessionVars, mapVars, cableVars, treeVars, formVars, splitVars>>
SessionMoves ==
    /\ part = "session" /\ A!Next
    /\ UNCHANGED
           <<tabVars, mapVars, cableVars, treeVars, formVars, splitVars>>
MapMoves ==
    /\ part = "map" /\ M!Next
    /\ UNCHANGED
           <<tabVars, sessionVars, cableVars, treeVars, formVars, splitVars>>
CableMoves ==
    /\ part = "cable" /\ C!Next
    /\ UNCHANGED
           <<tabVars, sessionVars, mapVars, treeVars, formVars, splitVars>>
TreeMoves ==
    /\ part = "tree" /\ N!Next
    /\ UNCHANGED
           <<tabVars, sessionVars, mapVars, cableVars, formVars, splitVars>>
FormMoves ==
    /\ part = "form" /\ D!Next
    /\ UNCHANGED
           <<tabVars, sessionVars, mapVars, cableVars, treeVars, splitVars>>
SplitMoves ==
    /\ part = "split" /\ V!Next
    /\ UNCHANGED
           <<tabVars, sessionVars, mapVars, cableVars, treeVars, formVars>>

DashNext ==
    /\ UNCHANGED part
    /\ \/ TabMoves \/ SessionMoves \/ MapMoves \/ CableMoves \/ TreeMoves
       \/ FormMoves \/ SplitMoves

DashSpec == DashInit /\ [][DashNext]_allVars

-----------------------------------------------------------------------------
(***************************************************************************)
(* Properties: those of the parts, told in their modules.                  *)
(***************************************************************************)

\* At most one reload for each deployment.
NoReloadLoop == T!NoReloadLoop

\* After a logout no late answer brings the user back.
LogoutIsFinal == A!LogoutIsFinal

\* Replay and the modes of the map that write exclude each other.
ReplayStandsApart == M!ReplayStandsApart

\* A closure stands where the trace that made it ends.
ClosuresStandAtTheEnds == C!ClosuresStandAtTheEnds

\* Every device on the network page is a row or counted by one.
RowsAccountForAll == part = "tree" => N!RowsAccountForAll

\* Nothing but its user changes what is typed in a form.
TypingIsKept == D!TypingIsKept

\* The second pane is where it is believed to be, allowed, and has its size.
SplitStands == V!SplitStands
=============================================================================
