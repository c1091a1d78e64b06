------------------------------- MODULE SplitView -------------------------------
(***************************************************************************)
(* The split view of the dashboard: a second pane with a router of its own *)
(* beside the page.  Where that router is, what the provider believes of   *)
(* it, what the browser stores for the next load and what the user's role  *)
(* allows are four things that effects keep together, each a step of its   *)
(* own, while the window changes its size and the session its role.        *)
(*                                                                         *)
(* Lengths and shares are integers: a share is so many of Parts.           *)
(***************************************************************************)
EXTENDS Integers

CONSTANTS
    Views, Home,           \* what a pane can show; Home is one of them
    SuperOnly, AccountOnly, \* views not for every role
    Elsewhere,             \* pages with a route of the main router only
    Roles,
    None,
    Sizes,                 \* sizes the window has: <<width, height>>
    Floor, Grip, Parts,
    MaxVisits              \* bound: what the user, window and session do

\* The page at "/" is for every role; a window has two lengths; half a pane is
\* a share.
SplitAssumption ==
    /\ Home \in Views \ (SuperOnly \cup AccountOnly)
    /\ Views \cap Elsewhere = {} /\ None \notin Views \cup Elsewhere
    /\ Sizes \subseteq Nat \X Nat /\ None \notin Sizes
    /\ None \notin [entry : Views \cup Elsewhere, live : Views \cup Elsewhere,
                     fresh : BOOLEAN]
    /\ Floor \in Nat \ {0} /\ Grip \in Nat
    /\ Parts \in Nat \ {0} /\ Parts % 2 = 0

Axes == {"side", "stacked"}

VARIABLES
    role, page, window,
    pane,      \* where its router starts, where it is believed to be, and
               \* whether that router is yet to be mounted
    inner,     \* where the pane's router is, None when it is not mounted
    axis, fraction,
    box,       \* the window as last measured, None before
    stored,    \* localStorage
    visits     \* bound

layout == <<axis, fraction>>
vars == <<role, page, window, pane, inner, layout, box, stored, visits>>

Opened(v) == [entry |-> v, live |-> v, fresh |-> TRUE]

Init ==
    /\ role \in Roles
    /\ page = Home
    /\ window \in Sizes
    /\ pane = None
    /\ inner = None
    /\ axis = "side"
    /\ fraction = Parts \div 2
    /\ box = None
    /\ stored = None
    /\ visits = 0

--------------------------------------------------------------------------------
Extent(size, a) == IF a = "side" THEN size[1] ELSE size[2]
Fits(size, a) == Extent(size, a) >= 2 * Floor + Grip
roomFor(a) == box # None /\ Fits(box, a)

\* The control measures by the window before anything was measured.
roughRoom(a) == Fits(IF box = None THEN window ELSE box, a)

paneViewsFor ==
    {v \in Views : /\ v \in SuperOnly => role = "superadmin"
                   /\ v \in AccountOnly => role # "worker"}

\* A share stands for no less than the length it was made from.
Lowest ==
    LET span == Extent(box, axis) - Grip
        least == (Floor * Parts + span - 1) \div span
    IN  IF least < Parts \div 2 THEN least ELSE Parts \div 2
Within(f) ==
    IF f < Lowest THEN Lowest ELSE IF f > Parts - Lowest THEN Parts - Lowest ELSE f

\* The share of the main pane.
Shared == Within(fraction)

toStore == IF pane = None THEN None
           ELSE [view |-> pane.live, axis |-> axis, fraction |-> fraction]

--------------------------------------------------------------------------------
(* What React does after a render: what an effect is there for, and the effect. *)

Unmeasured == pane # None /\ box # window

Measure ==
    /\ Unmeasured
    /\ box' = window
    /\ UNCHANGED <<role, page, window, pane, inner, layout, stored>>

Unmounted == pane # None /\ roomFor(axis) /\ (pane.fresh \/ inner = None)

Mount ==
    /\ Unmounted
    /\ inner' = pane.entry
    /\ pane' = [pane EXCEPT !.fresh = FALSE]
    /\ UNCHANGED <<role, page, window, layout, box, stored>>

Orphaned == inner # None /\ (pane = None \/ ~roomFor(axis))

Unmount ==
    /\ Orphaned
    /\ inner' = None
    /\ UNCHANGED <<role, page, window, pane, layout, box, stored>>

\* A path the pane's router does not know becomes "/".
Astray == inner \in Elsewhere

Redirect ==
    /\ Astray
    /\ inner' = Home
    /\ UNCHANGED <<role, page, window, pane, layout, box, stored>>

Behind == pane # None /\ ~pane.fresh /\ inner # None /\ pane.live # inner

PaneLocationSync ==
    /\ Behind
    /\ pane' = [pane EXCEPT !.live = inner]
    /\ UNCHANGED <<role, page, window, inner, layout, box, stored>>

\* Mutant: the guard looks at a pane when it opens and not again.
ForbiddenOpening == pane # None /\ pane.fresh /\ pane.live \notin paneViewsFor

Forbidden == pane # None /\ pane.live \notin paneViewsFor

PaneViewGuard ==
    /\ Forbidden
    /\ pane' = Opened(Home)
    /\ UNCHANGED <<role, page, window, inner, layout, box, stored>>

Unsaved == stored # toStore

Persist ==
    /\ Unsaved
    /\ stored' = toStore
    /\ UNCHANGED <<role, page, window, pane, inner, layout, box>>

Effect ==
    /\ \/ Measure \/ Mount \/ Unmount \/ Redirect
       \/ PaneLocationSync \/ PaneViewGuard \/ Persist
    /\ UNCHANGED visits

\* An effect has something to do.
Busy ==
    \/ Unmeasured \/ Unmounted \/ Orphaned \/ Astray
    \/ Behind \/ Forbidden \/ Unsaved

Settled ==
    /\ pane # None => box = window /\ ~(roomFor(axis) /\ pane.fresh)
    /\ (inner # None) = (pane # None /\ roomFor(axis))
    /\ inner # None => inner \in Views /\ inner = pane.live
    /\ pane # None => pane.live \in paneViewsFor
    /\ stored = toStore

--------------------------------------------------------------------------------
(* The user, once the effects have run. *)

Navigate(p) ==
    /\ page' = p
    /\ UNCHANGED <<role, window, pane, inner, layout, box, stored>>

NavigatePane(p) ==
    /\ inner # None
    /\ inner' = p
    /\ UNCHANGED <<role, page, window, pane, layout, box, stored>>

SplitControl(v) ==
    /\ pane = None
    /\ v \in paneViewsFor
    /\ roughRoom("side") \/ roughRoom("stacked")
    /\ pane' = Opened(v)
    /\ axis' = IF roughRoom("side") THEN "side" ELSE "stacked"
    /\ UNCHANGED <<role, page, window, inner, fraction, box, stored>>

PaneBar(v) ==
    /\ inner # None
    /\ v \in paneViewsFor
    /\ pane' = Opened(v)
    /\ UNCHANGED <<role, page, window, inner, layout, box, stored>>

\* The menu of the pane sets any axis, the others one that has room.
SetAxis(a) ==
    /\ pane # None
    /\ inner # None \/ roomFor(a)
    /\ axis' = a
    /\ UNCHANGED <<role, page, window, pane, inner, fraction, box, stored>>

SetFraction ==
    /\ inner # None
    /\ fraction' \in {Lowest, Parts - Lowest, Parts \div 2,
                      Within(Shared - 1), Within(Shared + 1)}
    /\ UNCHANGED <<role, page, window, pane, inner, axis, box, stored>>

Swap ==
    /\ pane # None
    /\ page' = pane.live
    /\ pane' = Opened(page)
    /\ UNCHANGED <<role, window, inner, layout, box, stored>>

ClosePane ==
    /\ pane # None
    /\ pane' = None
    /\ UNCHANGED <<role, page, window, inner, layout, box, stored>>

User ==
    /\ Settled
    /\ \/ \E p \in Views \cup Elsewhere : Navigate(p) \/ NavigatePane(p)
       \/ \E v \in Views : SplitControl(v) \/ PaneBar(v)
       \/ \E a \in Axes : SetAxis(a)
       \/ SetFraction \/ Swap \/ ClosePane

(* At any time. *)

Resize ==
    /\ window' \in Sizes \ {window}
    /\ UNCHANGED <<role, page, pane, inner, layout, box, stored>>

\* Another login, or the owner gave the user another role.
ChangeRole ==
    /\ role' \in Roles \ {role}
    /\ UNCHANGED <<page, window, pane, inner, layout, box, stored>>

Reload ==
    /\ pane' = IF stored = None THEN None ELSE Opened(stored.view)
    /\ axis' = IF stored = None THEN "side" ELSE stored.axis
    /\ fraction' = IF stored = None THEN Parts \div 2 ELSE stored.fraction
    /\ inner' = None
    /\ box' = None
    /\ UNCHANGED <<role, page, window, stored>>

Visit ==
    /\ visits < MaxVisits
    /\ visits' = visits + 1
    /\ User \/ Resize \/ ChangeRole \/ Reload

Next == Visit \/ Effect

Spec == Init /\ [][Next]_vars

--------------------------------------------------------------------------------
(***************************************************************************)
(* When no effect is left to run, the pane shows a view its user may see,  *)
(* is where the provider and the next load believe it is, and leaves both  *)
(* halves their least size; whatever the window, the session, a swap or a  *)
(* reload did before the effects had run (use-split-view.tsx,              *)
(* usePaneViewGuard, PaneLocationSync).                                    *)
(***************************************************************************)
SplitStands ==
    ~Busy =>
        /\ Settled
        /\ inner # None =>
               LET span == Extent(box, axis) - Grip
               IN  /\ Shared * span >= Floor * Parts
                   /\ (Parts - Shared) * span >= Floor * Parts
================================================================================
