---------------------------- MODULE TopologyOrder ----------------------------
(***************************************************************************)
(* MonitorEngine._topological_order (src/wisp/core/state_machine.py): the  *)
(* order in which process_cycle walks the devices.  The suppression of a   *)
(* child under a dead parent is only right when the parent is walked       *)
(* first, so this is Kahn's algorithm over the primary and backup parent   *)
(* edges, with the members of cycles appended at the end.                  *)
(*                                                                         *)
(* A device may name the same parent as primary and as backup: the code    *)
(* counts and releases that edge twice, and so does this module.  The FIFO *)
(* queue is a set, any element of which may be popped.                     *)
(***************************************************************************)
EXTENDS Integers, FiniteSets, Sequences

CONSTANTS
    Devices, \* every device id of the organisation
    None     \* no primary parent

ASSUME DevicesAssumption == Devices \subseteq Nat /\ IsFiniteSet(Devices) /\ None \notin Devices

VARIABLES
    ids,     \* the devices the engine was built with
    primary, \* parent_device_id of each
    backups, \* the backup parent edges of each
    indeg,   \* edges from parents that are not yet in order
    ready,   \* the queue
    order,   \* the result under construction
    done

orderVars == <<ids, primary, backups, indeg, ready, order, done>>
topology == <<ids, primary, backups>>

-----------------------------------------------------------------------------
\* effective_parents(), without those the engine does not monitor.
ParentsOf(d) == (backups[d] \cup {primary[d]}) \cap ids

\* How many edges of d come from devices in S: the backup edges, and the
\* primary one counted apart.
EdgesFrom(S, d) ==
    Cardinality(backups[d] \cap S) + (IF primary[d] \in S THEN 1 ELSE 0)

Placed == {order[i] : i \in DOMAIN order}

OrderInit ==
    /\ ids \in SUBSET Devices
    /\ primary \in [ids -> Devices \cup {None}]
    /\ backups \in [ids -> SUBSET Devices]
    /\ indeg = [d \in ids |-> EdgesFrom(ids, d)]
    /\ ready = {d \in ids : indeg[d] = 0}
    /\ order = <<>>
    /\ done = FALSE

\* MUTANT: a doubly linked child is released after the first of its edges.
PlaceSingly(n) ==
    /\ n \in ready
    /\ order' = Append(order, n)
    /\ indeg' = [d \in ids |-> indeg[d] - (IF n \in ParentsOf(d) THEN 1 ELSE 0)]
    /\ ready' = (ready \ {n}) \cup {d \in ids : indeg'[d] = 0 /\ indeg[d] > 0}
    /\ UNCHANGED <<topology, done>>

\* popleft, append, and the release of every child edge of n.
Place(n) ==
    /\ n \in ready
    /\ order' = Append(order, n)
    /\ indeg' = [d \in ids |-> indeg[d] - EdgesFrom({n}, d)]
    /\ ready' = (ready \ {n}) \cup {d \in ids : indeg'[d] = 0 /\ indeg[d] > 0}
    /\ UNCHANGED <<topology, done>>

\* The elements of S in ascending order.
SortedSeqs(S) ==
    {q \in [1..Cardinality(S) -> S] :
        /\ \A i, j \in DOMAIN q : i < j => q[i] < q[j]
        /\ S = {q[i] : i \in DOMAIN q}}

\* What is left sits on a cycle, or below one.
Finish ==
    /\ ready = {} /\ ~done
    /\ \E rest \in SortedSeqs(ids \ Placed) : order' = order \o rest
    /\ done' = TRUE
    /\ UNCHANGED <<topology, indeg, ready>>

PlaceAny == ~done /\ \E n \in ready : Place(n)

OrderNext == PlaceAny \/ Finish

OrderSpec == OrderInit /\ [][OrderNext]_orderVars

-----------------------------------------------------------------------------
OrderTypeOK ==
    /\ ids \in SUBSET Devices
    /\ primary \in [ids -> Devices \cup {None}]
    /\ backups \in [ids -> SUBSET Devices]
    /\ indeg \in [ids -> Nat]
    /\ ready \in SUBSET ids
    /\ order \in Seq(ids)
    /\ done \in BOOLEAN

\* A cycle in the topology is a set of devices each with a parent in the set.
Acyclic ==
    \A S \in SUBSET ids : S # {} => \E d \in S : ParentsOf(d) \cap S = {}

\* d is walked only after every parent of it that is walked at all.
ParentsFirst ==
    \A i \in DOMAIN order : \A p \in ParentsOf(order[i]) :
        \E j \in 1..(i - 1) : order[j] = p

\* No device is fed twice in a cycle, whatever the topology.
WalkedOnce ==
    \A i, j \in DOMAIN order : order[i] = order[j] => i = j

\* No monitored device is left out of the walk, cycles included
\* (state_machine.py:163-165).
AllWalked == done => Placed = ids

\* The order is a permutation of the monitored devices.
WalkIsWhole == WalkedOnce /\ AllWalked

\* Over an acyclic topology every parent is walked, and committed, before any
\* of its children: what makes UNREACHABLE mean "all parents are down".
AcyclicParentsFirst == done /\ Acyclic => ParentsFirst

\* What the engine's walk relies on: everything once, parents first.
OrderIsTopological == WalkIsWhole /\ AcyclicParentsFirst
=============================================================================
