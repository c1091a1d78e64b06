------------------------------ MODULE FibreRecord ------------------------------
(***************************************************************************)
(* The fibre record: cables between points, and at each point the joints   *)
(* that say which core is spliced to which, or is taken into the box       *)
(* there.  What an operator does in the fibre tray of a point, the cable   *)
(* panel and the map (web/src/components/coupler-tray.tsx,                 *)
(* cable-record.tsx, routes/map-page.tsx), and what the store makes of it  *)
(* (wisp/central/store_devices.py, fiber.py).                              *)
(*                                                                         *)
(* A fibre is a cable and a core.  A core is joined at a point at most     *)
(* once.  A cable nobody laid, plumbing, comes from connecting two points  *)
(* and is in no list.  Names, notes, labels, paths and places are left     *)
(* out, and so is who may write; laying a cable is CableTrace.             *)
(***************************************************************************)
EXTENDS Naturals, FiniteSets

CONSTANTS
    Boxes, Closures,  \* what can stand at a point; a closure has no ports
    Splitters,        \* the boxes with one input
    Ports, Inlet,     \* the names of ports; the input of a splitter
    None,
    MaxCount,         \* bound: the cores of a cable
    MaxCables,        \* bound: cables ever recorded
    MaxChanges        \* bound: gestures and changes of the record

Points == Boxes \cup Closures
Counts == 1..MaxCount
Fibres == (1..MaxCables) \X Counts
Ends == {e \in SUBSET Points : Cardinality(e) = 2}

\* Two boxes and a closure at least; a port is no core.
RecordAssumption ==
    /\ MaxCount \in Nat /\ MaxCables \in Nat
    /\ Boxes \cap Closures = {} /\ Closures # {} /\ \E p, q \in Boxes : p # q
    /\ Inlet \in Ports
    /\ \A port \in Ports \cup {None} : port \notin Fibres

VARIABLES
    points,  \* the points that stand
    spare,   \* closures nobody has opened yet
    cables,  \* org_cables: two ends, a count or None, whether it was laid
    made,    \* the cables ever recorded: an id is not used twice
    joints,  \* org_fibre_joints: where, one fibre or two, a port or None
    asked,   \* a gesture in a tray on its way to the store
    changes  \* gestures and changes so far

vars == <<points, spare, cables, made, joints, asked, changes>>

CableRows == [ends : Ends, cores : Counts \cup {None}, laid : BOOLEAN]
JointRows == [at : Points, fibres : SUBSET Fibres, port : Ports \cup {None}]

TypeOK ==
    /\ points \subseteq Points /\ spare \subseteq Closures \ points
    /\ made \in 0..MaxCables
    /\ DOMAIN cables \subseteq 1..made
    /\ \A c \in DOMAIN cables : cables[c] \in CableRows
    /\ joints \subseteq JointRows

\* Two trunks meet in a closure, from two boxes; nothing is recorded of
\* their cores.
Init ==
    LET hub == CHOOSE p \in Closures : TRUE
        one == CHOOSE p \in Boxes : TRUE
        two == CHOOSE p \in Boxes : p # one
    IN /\ points = Boxes \cup {hub} /\ spare = Closures \ {hub}
       /\ cables = [c \in 1..2 |-> [ends |-> {hub, IF c = 1 THEN one ELSE two},
                                    cores |-> MaxCount, laid |-> TRUE]]
       /\ made = 2 /\ joints = {} /\ asked = None /\ changes = 0

-----------------------------------------------------------------------------
(***************************************************************************)
(* The store's view of a point.                                            *)
(***************************************************************************)
Lands(c, p) == c \in DOMAIN cables /\ p \in cables[c].ends

taken_at(p) == UNION {j.fibres : j \in {k \in joints : k.at = p}}

ports_taken_at(p) == {j.port : j \in {k \in joints : k.at = p}} \ {None}

joint_refusal(fs, p, port) ==
    \/ \E f \in fs : ~Lands(f[1], p)
    \/ fs \cap taken_at(p) # {}
    \/ (port # None /\ (Cardinality(fs) > 1 \/ port \in ports_taken_at(p)))

\* The core a request names, as the request is read: the cable is on record
\* and has that many cores, or no count.
clean_core_no(f) ==
    /\ f[1] \in DOMAIN cables
    /\ cables[f[1]].cores # None => f[2] <= cables[f[1]].cores

Joint(p, fs, port) == [at |-> p, fibres |-> fs, port |-> port]
Of(c) == {j \in joints : \E f \in j.fibres : f[1] = c}
Without(cs) == [c \in DOMAIN cables \ cs |-> cables[c]]

_sole_input(p) ==
    IF p \in Splitters /\ Inlet \notin ports_taken_at(p) THEN Inlet ELSE None

\* A new cable between two points, its one core joined at both ends.
Plumb(p, here, to, there) ==
    /\ made < MaxCables
    /\ made' = made + 1
    /\ cables' = [c \in DOMAIN cables \cup {made'} |->
                     IF c = made' THEN [ends |-> {p, to}, cores |-> 1, laid |-> FALSE]
                     ELSE cables[c]]
    /\ joints' = joints \cup
          {Joint(p, here.fibres \cup {<<made', 1>>}, here.port),
           Joint(to, there.fibres \cup {<<made', 1>>}, there.port)}

\* What the new core meets at an end: a core, or a port, or nothing named.
Meets(x) == IF x \in Fibres THEN [fibres |-> {x}, port |-> None]
            ELSE [fibres |-> {}, port |-> x]

-----------------------------------------------------------------------------
(***************************************************************************)
(* Gestures in the tray.  A menu offers what the browser's copy shows free *)
(* when it is opened; the record may have moved on when the store hears.   *)
(***************************************************************************)
Laid(p) ==
    {f \in Fibres : /\ Lands(f[1], p) /\ clean_core_no(f)
                    /\ cables[f[1]].laid /\ cables[f[1]].cores # None} \ taken_at(p)
PortsOf(p) == IF p \in Boxes THEN Ports \cup {None} ELSE {None}

\* What the far end of a connection lands on.
Landings(p) == Laid(p) \cup (PortsOf(p) \ ports_taken_at(p))

\* Core to core: the menu of a core leaves out the cable it is of.
Splices(p) ==
    {r \in [kind : {"join"}, fibres : {{f, g} : f, g \in Laid(p)}, port : {None}] :
        Cardinality({f[1] : f \in r.fibres}) = 2}

\* Core to port, from the menu of either.
Takings(p) ==
    [kind : {"join"}, fibres : {{f} : f \in Laid(p)}, port : PortsOf(p) \ ports_taken_at(p)]

\* A core, or a port, to another point.
Tails(p) ==
    UNION {[kind : {"tail"}, fibre : Laid(p), to : {q}, far : Landings(q)]
              : q \in points \ {p}}
Connections(p) ==
    UNION {[kind : {"connect"}, port : PortsOf(p) \ ports_taken_at(p), to : {q},
            far : Landings(q)] : q \in points \ {p}}

\* A whole cable to another.
Throughs(p) ==
    {r \in [kind : {"through"}, near : {f[1] : f \in Laid(p)}, far : {f[1] : f \in Laid(p)}] :
        r.near # r.far}

\* A joint is cleared from the row of a core of a laid cable, or from a port.
Clears(p) ==
    [kind : {"clear"},
     fibre : {f \in taken_at(p) :
                 \/ (f[1] \in DOMAIN cables /\ cables[f[1]].laid)
                 \/ \E j \in joints : /\ j.at = p /\ j.fibres = {f} /\ j.port # None}]

Requests(p) ==
    Splices(p) \cup Takings(p) \cup Tails(p) \cup Connections(p)
    \cup Throughs(p) \cup Clears(p)

\* Bounded.
Change == changes < MaxChanges /\ changes' = changes + 1

Ask(p) ==
    /\ asked = None /\ p \in points /\ Change
    /\ \E r \in Requests(p) : asked' = [at |-> p, gesture |-> r]
    /\ UNCHANGED <<points, spare, cables, made, joints>>

Heard(kind) ==
    /\ asked # None /\ asked.gesture.kind = kind /\ asked' = None
    /\ UNCHANGED changes
Refused == UNCHANGED <<points, spare, cables, made, joints>>

set_fibre_joint ==
    /\ Heard("join")
    /\ LET p == asked.at
           r == asked.gesture
       IN IF joint_refusal(r.fibres, p, r.port) THEN Refused
          ELSE /\ joints' = joints \cup {Joint(p, r.fibres, r.port)}
               /\ UNCHANGED <<points, spare, cables, made>>

\* Where the other end of a connection would land, it cannot.
FarRefused(r) ==
    \/ r.to \notin points
    \/ (r.far \in Fibres /\ joint_refusal({r.far}, r.to, None))
    \/ (r.far \in Ports /\ r.far \in ports_taken_at(r.to))

take_core_to_box ==
    /\ Heard("tail")
    /\ LET p == asked.at
           r == asked.gesture
       IN IF joint_refusal({r.fibre}, p, None) \/ FarRefused(r) THEN Refused
          ELSE /\ Plumb(p, Meets(r.fibre), r.to, Meets(r.far))
               /\ UNCHANGED <<points, spare>>

\* The near end is not looked at again: it may be gone.
connect_points ==
    /\ Heard("connect")
    /\ LET p == asked.at
           r == asked.gesture
       IN IF FarRefused(r) \/ (r.port # None /\ r.port \in ports_taken_at(p))
          THEN Refused
          ELSE /\ Plumb(p, Meets(r.port), r.to,
                        Meets(IF r.far = None THEN _sole_input(r.to) ELSE r.far))
               /\ UNCHANGED <<points, spare>>

\* Every core that both have and that is free on both sides.
splice_through ==
    /\ Heard("through")
    /\ LET p == asked.at
           pair(n) == {<<asked.gesture.near, n>>, <<asked.gesture.far, n>>}
       IN joints' = joints \cup
             {Joint(p, pair(n), None) : n \in {m \in Counts :
                 /\ \A f \in pair(m) : /\ f[1] \in DOMAIN cables
                                       /\ cables[f[1]].cores # None
                                       /\ m <= cables[f[1]].cores
                 /\ ~joint_refusal(pair(m), p, None)}}
    /\ UNCHANGED <<points, spare, cables, made>>

\* A cable nobody laid goes with its last joint, if it is the one named.
Spent(c, left) ==
    /\ c \in DOMAIN cables /\ ~cables[c].laid
    /\ \A j \in left : \A f \in j.fibres : f[1] # c

clear_fibre_joint ==
    /\ Heard("clear")
    /\ LET f == asked.gesture.fibre
           gone == {j \in joints : j.at = asked.at /\ f \in j.fibres}
       IN /\ joints' = joints \ gone
          /\ cables' = IF gone # {} /\ Spent(f[1], joints') THEN Without({f[1]})
                       ELSE cables
    /\ UNCHANGED <<points, spare, made>>

-----------------------------------------------------------------------------
(***************************************************************************)
(* The cable panel and the map.                                            *)
(***************************************************************************)
\* Its count is taken back, with every joint, or changed to no fewer than
\* the cores in use.
Recount(c, n) ==
    /\ Change
    /\ c \in DOMAIN cables /\ cables[c].laid /\ cables[c].cores # n
    /\ n # None => \A j \in Of(c) : \A f \in j.fibres : f[1] = c => f[2] <= n
    /\ cables' = [cables EXCEPT ![c].cores = n]
    /\ joints' = IF n = None THEN joints \ Of(c) ELSE joints
    /\ UNCHANGED <<points, spare, made, asked>>

\* A joint whose fibres all still end where it is, on the given record.
joint_survives(j, record) ==
    \A f \in j.fibres : f[1] \in DOMAIN record /\ j.at \in record[f[1]].ends

\* MUTANT: a joint that travels keeps its port, whoever has it there.
LandedAsItWas(j, to, ports) == [j EXCEPT !.at = to]

\* A joint that travels lands without its port when that is spoken for.
Landed(j, to, ports) ==
    [j EXCEPT !.at = to, !.port = IF @ \in ports THEN None ELSE @]

\* Ends move from one point to another together, and the joints between
\* them; a joint with a cable that stays is lost; plumbing that would run
\* from the new point to itself goes.
MoveCableEnds(moving, from, to) ==
    LET after == [c \in DOMAIN cables |->
                     IF c \in moving
                     THEN [cables[c] EXCEPT !.ends = (@ \ {from}) \cup {to}]
                     ELSE cables[c]]
        loops == {c \in moving : after[c].ends = {to}}
        Of1(j) == {f[1] : f \in j.fibres}
        touched == {j \in joints : j.at = from \/ Of1(j) \cap moving # {}}
        travels == {j \in joints : j.at = from /\ Of1(j) \subseteq moving}
        moved(j) == IF j \in travels THEN [j EXCEPT !.at = to] ELSE j
        lost == {j \in touched : ~joint_survives(moved(j), after)}
        ports == {j.port : j \in {k \in joints \ lost : k.at = to}} \ {None}
    IN /\ Change /\ from # to /\ to \in points /\ moving # {}
       /\ \A c \in moving : Lands(c, from)
       /\ \A c \in loops : ~cables[c].laid
       /\ cables' = [c \in DOMAIN cables \ loops |-> after[c]]
       /\ joints' = {IF j \in travels THEN Landed(j, to, ports) ELSE j
                        : j \in {k \in joints \ lost : Of1(k) \cap loops = {}}}
       /\ UNCHANGED <<points, spare, made, asked>>

\* A closure is opened in a cable: the cable ends there, a new one carries on
\* to the tail end with the joints recorded there, and every core is spliced
\* to itself.
SplitCable(c, tail, p) ==
    LET on(f) == IF f[1] = c THEN <<made', f[2]>> ELSE f
        through == IF cables[c].cores = None THEN {}
                   ELSE {{<<c, n>>, <<made', n>>} : n \in 1..cables[c].cores}
    IN /\ Change /\ p \in spare
       /\ c \in DOMAIN cables /\ cables[c].laid /\ Lands(c, tail)
       /\ made < MaxCables /\ made' = made + 1
       /\ points' = points \cup {p} /\ spare' = spare \ {p}
       /\ cables' = [d \in DOMAIN cables \cup {made'} |->
                        IF d = c THEN [cables[c] EXCEPT !.ends = (@ \ {tail}) \cup {p}]
                        ELSE IF d = made' THEN [cables[c] EXCEPT !.ends = {p, tail}]
                        ELSE cables[d]]
       /\ joints' = {IF j.at = tail THEN [j EXCEPT !.fibres = {on(f) : f \in @}]
                     ELSE j : j \in joints}
                    \cup {Joint(p, fs, None) : fs \in through}
       /\ UNCHANGED asked

DeleteCable(c) ==
    /\ Change /\ c \in DOMAIN cables /\ cables[c].laid
    /\ joints' = joints \ Of(c)
    /\ cables' = Without({c})
    /\ UNCHANGED <<points, spare, made, asked>>

\* A box of the plant is deleted, with the cables that end there.
DeletePassive(p) ==
    LET gone == {c \in DOMAIN cables : Lands(c, p)}
    IN /\ Change /\ p \in points \cap (Closures \cup Splitters)
       /\ points' = points \ {p}
       /\ joints' = {j \in joints : j.at # p /\ \A f \in j.fibres : f[1] \notin gone}
       /\ cables' = Without(gone)
       /\ UNCHANGED <<spare, made, asked>>

Next ==
    \/ \E p \in Points : Ask(p) \/ DeletePassive(p)
    \/ set_fibre_joint \/ take_core_to_box \/ connect_points
    \/ splice_through \/ clear_fibre_joint
    \/ \E c \in DOMAIN cables :
          \/ \E n \in Counts \cup {None} : Recount(c, n)
          \/ \E tail, p \in Points : SplitCable(c, tail, p)
          \/ DeleteCable(c)
    \/ \E moving \in SUBSET DOMAIN cables, from, to \in Points :
          MoveCableEnds(moving, from, to)

Spec == Init /\ [][Next]_vars

-----------------------------------------------------------------------------
(***************************************************************************)
(* Properties.                                                             *)
(***************************************************************************)
\* Whatever is spliced, taken out, moved, cut and deleted, by however stale a
\* tray: the fibres of a joint end where it is, a fibre is joined at a point
\* to one other at most, and a port takes one fibre.
FibresMeet ==
    /\ \A j \in joints : j.fibres # {} /\ joint_survives(j, cables)
    /\ \A j, k \in joints : j # k /\ j.at = k.at
          => j.fibres \cap k.fibres = {} /\ (j.port = k.port => j.port = None)

\* What a comment of the store says: a cable nobody laid goes when the last
\* fibre comes off it.  It goes only when that last joint is cleared under
\* its own name, from a port; under the trunk's name it stays, in no list.
PlumbingIsSpent ==
    \A c \in DOMAIN cables : cables[c].laid \/ Of(c) # {}
===============================================================================
