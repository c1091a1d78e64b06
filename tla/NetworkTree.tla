----------------------------- MODULE NetworkTree -----------------------------
(***************************************************************************)
(* The network page (web/src/routes/topology-page.tsx): the inventory as a *)
(* tree of rows, what filters, searches, folding and links from elsewhere  *)
(* leave of it, and the moves made from a row's form.                      *)
(*                                                                         *)
(* The server refuses a parent that would close a loop, but it looks       *)
(* before it writes (central/api/devices.py), and other operators write    *)
(* too: between two fetches a device may get any parent the form offers,   *)
(* and two of them each other.  A device's other fields, chips and         *)
(* colours, the panel's tabs and the jump rail are left out.               *)
(***************************************************************************)
EXTENDS Naturals, FiniteSets

CONSTANTS
    Devs,      \* the devices of the organisation
    Plant,     \* those that are passive
    Filters,   \* what a probe, a status or tags select: sets of devices
    Searches,  \* what a search matches
    None,
    MaxMoves   \* bound: changes of the tree

\* Devices are finitely many, and none of them is nothing.
TreeAssumption == IsFiniteSet(Devs) /\ None \notin Devs

VARIABLES
    parent, detached,  \* the inventory on hand
    collapsed,         \* folded rows
    focus,             \* the device a link from elsewhere names
    open,              \* the device whose panel is open
    filter, hits, gridView, plantOpen,
    moves

inventory == <<parent, detached, moves>>
look == <<filter, hits, gridView, plantOpen>>
vars == <<inventory, collapsed, focus, open, look>>

passive(d) == d \in Plant
Offered(d) == {p \in (Devs \ {d}) \cup {None} : passive(d) \/ p \notin Plant}

TypeOK ==
    /\ parent \in [Devs -> Devs \cup {None}] /\ detached \subseteq Devs
    /\ collapsed \subseteq Devs
    /\ {focus, open} \subseteq Devs \cup {None}
    /\ filter \in Filters /\ hits \in Searches \cup {None}
    /\ gridView \in BOOLEAN /\ plantOpen \in BOOLEAN

-----------------------------------------------------------------------------
(***************************************************************************)
(* What is shown.                                                          *)
(***************************************************************************)
\* d and the devices above it in a map of parents.
Chain(up, d) ==
    LET ch[n \in 0..Cardinality(Devs)] ==
          IF n = 0 THEN {d} ELSE ch[n - 1] \cup ({up[x] : x \in ch[n - 1]} \ {None})
    IN  ch[Cardinality(Devs)]

Loops(up, d) == \E x \in Chain(up, d) : up[x] # None /\ x \in Chain(up, up[x])

\* filterWithAncestors: a hit keeps the devices above it that are left.
Kept ==
    LET up == [d \in Devs |-> IF parent[d] \in filter THEN parent[d] ELSE None]
    IN  IF hits = None THEN filter
        ELSE UNION {Chain(up, d) : d \in filter \cap hits}

\* parentOf: plant does not nest under gear, nor a detached device at all.
Nested(d, left) ==
    LET p == parent[d]
    IN  IF p \notin left \/ d \in detached \/ passive(p) # passive(d)
        THEN None ELSE p

effectiveCollapsed == IF gridView \/ hits # None THEN {} ELSE collapsed

\* The chip "+n" of a row of the list, for what is below it.  It goes by the
\* fold itself: a search lays every row open, and the folded ones keep their
\* chip over the rows they no longer hide.
DeviceIdentityChips(r) == ~gridView /\ r \in collapsed

\* MUTANT: the top rows are those that are nobody's child in the inventory,
\* the detached ones and plant.
TopsOf(up, left) == {d \in left : parent[d] = None \/ d \in detached \/ passive(d)}

Tops(up, left) == {d \in left : up[d] = None}

\* The rows are emitted from the top ones down until one is folded.
Emitted(up, left) ==
    LET rows[n \in 0..Cardinality(Devs)] ==
          IF n = 0 THEN Tops(up, left)
          ELSE rows[n - 1] \cup
               {d \in left : up[d] \in rows[n - 1] \ effectiveCollapsed}
    IN  rows[Cardinality(Devs)]

\* treeOrder: the rows, and for each device what lies below it.
treeOrder ==
    LET left  == Kept
        up    == [d \in Devs |-> IF d \in left THEN Nested(d, left) ELSE None]
        chain == [d \in Devs |-> Chain(up, d)]
    IN  [left |-> left, rows |-> Emitted(up, left), up |-> up,
         under |-> [d \in Devs |-> {k \in left \ {d} : d \in chain[k]}]]

showPlant(left) == plantOpen \/ hits # None \/ open \in left \cap Plant

Shown == LET t == treeOrder IN {d \in t.rows : passive(d) => showPlant(t.left)}

-----------------------------------------------------------------------------
\* Unfolding what is above the device a link named: when the link changes,
\* and whenever the inventory does.
Above(d) ==
    LET up == [x \in Devs |-> IF \/ x \in detached' \/ parent'[x] = None
                                 \/ passive(parent'[x]) # passive(x)
                              THEN None ELSE parent'[x]]
    IN  Chain(up, d) \ {d}

Unfold == collapsed' = IF focus' = None THEN collapsed ELSE collapsed \ Above(focus')

Init ==
    /\ parent \in [Devs -> Devs \cup {None}] /\ detached = {}
    /\ \A d \in Devs : parent[d] \in Offered(d) /\ ~Loops(parent, d)
    /\ moves = 0
    /\ collapsed \in SUBSET {parent[d] : d \in {x \in Devs : parent[x] # None}}
    /\ focus = None /\ open = None
    /\ filter \in Filters /\ hits = None
    /\ gridView \in BOOLEAN /\ plantOpen \in BOOLEAN

\* A link from the palette, the overview or the map.
Navigate(d) ==
    /\ focus' = d /\ open' = d
    /\ UNCHANGED inventory
    /\ Unfold
    /\ UNCHANGED look

toggleCollapse(d) ==
    /\ treeOrder.under[d] # {}
    /\ collapsed' = IF d \in collapsed THEN collapsed \ {d} ELSE collapsed \cup {d}
    /\ UNCHANGED <<inventory, focus, open, look>>

onToggle(d) ==
    /\ open' = IF open = d THEN None ELSE d
    /\ UNCHANGED <<inventory, collapsed, focus, look>>

\* Filters and the search box, list or grid, the fold of the passive plant.
Look ==
    /\ \/ filter' \in Filters /\ UNCHANGED <<hits, gridView, plantOpen>>
       \/ hits' \in Searches \cup {None} /\ UNCHANGED <<filter, gridView, plantOpen>>
       \/ gridView' = ~gridView /\ UNCHANGED <<filter, hits, plantOpen>>
       \/ /\ hits = None /\ plantOpen' = ~plantOpen
          /\ UNCHANGED <<filter, hits, gridView>>
    /\ UNCHANGED <<inventory, collapsed, focus, open>>

-----------------------------------------------------------------------------
(***************************************************************************)
(* Edits.                                                                  *)
(***************************************************************************)
\* A device that loses its parent is no longer detached from it.
Moved(d, p) ==
    /\ moves < MaxMoves /\ moves' = moves + 1
    /\ parent' = [parent EXCEPT ![d] = p]
    /\ detached' = IF p = None THEN detached \ {d} ELSE detached
    /\ UNCHANGED focus
    /\ Unfold

\* The form of a device is part of its row: no row, no form.
\* clean_device_payload refuses a loop.
Save(d, p) ==
    /\ p \in Offered(d)
    /\ p # None => d \notin Chain(parent, p)
    /\ Moved(d, p)
    /\ UNCHANGED <<open, look>>

\* What other operators saved: one of them may have looked before another
\* wrote.
Elsewhere(d, p) ==
    /\ p \in Offered(d)
    /\ Moved(d, p)
    /\ UNCHANGED <<open, look>>

toggleDetached(d) ==
    /\ parent[d] # None
    /\ moves < MaxMoves /\ moves' = moves + 1
    /\ detached' = IF d \in detached THEN detached \ {d} ELSE detached \cup {d}
    /\ UNCHANGED <<parent, focus>>
    /\ Unfold
    /\ UNCHANGED <<open, look>>

Next ==
    \/ Look
    \/ \E d \in Shown : \/ toggleCollapse(d) \/ onToggle(d) \/ toggleDetached(d)
                         \/ \E p \in Devs \cup {None} : Save(d, p)
    \/ \E d \in Devs : \/ Navigate(d)
                       \/ \E p \in Devs \cup {None} : Elsewhere(d, p)

Spec == Init /\ [][Next]_vars

-----------------------------------------------------------------------------
(***************************************************************************)
(* Properties.                                                             *)
(***************************************************************************)
\* The devices the header counts are all in the list: each is a row, or is
\* counted by the "+n" of one folded row, and not both, whatever was filtered,
\* detached or moved; while there is a search each is a row, and the chips are
\* not to be added up.  Except in a loop and below it, where the list has no
\* row at all.
RowsAccountForAll ==
    LET t == treeOrder
        counted(d) == {r \in t.rows : DeviceIdentityChips(r) /\ d \in t.under[r]}
    IN  \A d \in t.left :
            \/ Loops(t.up, d)
            \/ d \in t.rows /\ (hits # None \/ counted(d) = {})
            \/ d \notin t.rows /\ hits = None /\ Cardinality(counted(d)) = 1
=============================================================================
