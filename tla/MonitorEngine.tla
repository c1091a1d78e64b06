---------------------------- MODULE MonitorEngine ----------------------------
(***************************************************************************)
(* MonitorEngine.process_cycle (src/wisp/core/state_machine.py), walked    *)
(* device by device as the code does, over any sequence of cycles.         *)
(*                                                                         *)
(* A cycle scores the devices in its scope: the share of the reporting     *)
(* node (expected_ips) or the suspects of a recheck (subset).  Devices are *)
(* numbered along the order TopologyOrder computes, so parents have lower  *)
(* numbers.  Between cycles the operator may edit the topology, upon which *)
(* the registry builds a new engine from the persisted states.             *)
(*                                                                         *)
(* A frozen cycle (the edge's own uplink is down) touches no state machine *)
(* and is no action here; see Uplink.                                      *)
(***************************************************************************)
EXTENDS EngineCycle, Integers, FiniteSets

CONSTANTS
    Devices,  \* device ids, numbered parents first
    Observed  \* the samples a probe may return

ASSUME EngineAssumption ==
    /\ Devices \subseteq Nat
    /\ Observed \subseteq Samples

VARIABLES
    parents,  \* the parents of each device, the monitored ones
    fsm,      \* MonitorEngine.fsm
    scope,    \* the devices the current or last cycle scores
    results,  \* the sample of each device in that cycle
    todo,     \* the part of scope that is not walked yet
    before,   \* fsm when that cycle began
    lone,     \* each device's state machine without any suppression
    ledger    \* the open outage of each device, told by the events alone

vars == <<parents, fsm, scope, results, todo, before, lone, ledger>>

-----------------------------------------------------------------------------
Topologies == {par \in [Devices -> SUBSET Devices] :
                  \A d \in Devices : \A p \in par[d] : p < d}

Init ==
    /\ parents \in Topologies
    /\ fsm = [d \in Devices |-> Prime("UP")]
    /\ scope = {} /\ todo = {}
    /\ results = [d \in Devices |-> "lost"]
    /\ before = fsm
    /\ lone = fsm
    /\ ledger = [d \in Devices |-> "none"]

\* A report arrives.  A device in scope without a result counts as lost.
BeginCycle(S, res) ==
    /\ todo = {}
    /\ scope' = S
    /\ todo' = S
    /\ results' = res
    /\ before' = fsm
    /\ UNCHANGED <<parents, fsm, lone, ledger>>

\* MUTANT: children are walked before their parents.
IsNextFromTheEnd(S, d) == d \in S /\ \A e \in S : e <= d

\* It is the turn of d among the devices in S.
IsNext(S, d) == d \in S /\ \A e \in S : d <= e

\* What apply_events makes of an event.
Entered(led, d, event) ==
    CASE event.kind = "none" -> led
      [] event.kind = "resolved" -> [led EXCEPT ![d] = "none"]
      [] event.kind = "opened" /\ led[d] # "none" -> led
      [] event.kind = "recategorized" /\ led[d] = "none" -> led
      [] OTHER -> [led EXCEPT ![d] = event.state]

\* MUTANT: a device under dead parents is not scored at all.
WalkSkipsShadowed(d) ==
    LET fed == [fsm EXCEPT ![d] = Feed(@, results[d])]
        new == IF Shadowed(parents, fsm, d) THEN fsm[d] ELSE fed[d]
    IN  /\ IsNext(todo, d)
        /\ fsm' = [fsm EXCEPT ![d] = new]
        /\ lone' = [lone EXCEPT ![d] = Feed(@, results[d])]
        /\ ledger' = Entered(ledger, d, EventOf(fsm[d].state, new.state))
        /\ todo' = todo \ {d}
        /\ UNCHANGED <<parents, scope, results, before>>

\* One round of the loop: feed, suppress, report.
Walk(d) ==
    LET fed == [fsm EXCEPT ![d] = Feed(@, results[d])]
        new == Reclassified(fed[d], Shadowed(parents, fed, d))
    IN  /\ IsNext(todo, d)
        /\ fsm' = [fsm EXCEPT ![d] = new]
        /\ lone' = [lone EXCEPT ![d] = Feed(@, results[d])]
        /\ ledger' = Entered(ledger, d, EventOf(fsm[d].state, new.state))
        /\ todo' = todo \ {d}
        /\ UNCHANGED <<parents, scope, results, before>>

\* The operator edits the topology; the registry primes a new engine.
Rebuild(par) ==
    /\ todo = {}
    /\ parents' = par
    /\ fsm' = [d \in Devices |-> Prime(fsm[d].state)]
    /\ lone' = [d \in Devices |-> Prime(lone[d].state)]
    /\ before' = fsm'
    /\ scope' = {}
    /\ UNCHANGED <<results, todo, ledger>>

Next ==
    \/ \E S \in SUBSET Devices : \E r \in [S -> Observed] :
           BeginCycle(S, [d \in Devices |-> IF d \in S THEN r[d] ELSE "lost"])
    \/ \E d \in Devices : Walk(d)
    \/ \E par \in Topologies : Rebuild(par)

Spec == Init /\ [][Next]_vars

-----------------------------------------------------------------------------
TypeOK ==
    /\ parents \in Topologies
    /\ fsm \in [Devices -> FSM]
    /\ scope \in SUBSET Devices
    /\ todo \in SUBSET scope
    /\ results \in [Devices -> Samples]
    /\ before \in [Devices -> FSM]
    /\ lone \in [Devices -> FSM]
    /\ ledger \in [Devices -> DownFamily \cup {"none"}]

CycleOver == todo = {}

\* The loop, which updates the devices one after the other and lets a child
\* see what was committed for its parents, computes the closed form Cycle.
WalkIsTheCycle ==
    CycleOver => fsm = Cycle(parents, before, results, scope)

\* A device is left DOWN by a cycle that scored it only if it has no parent or
\* a live one: "a child pages only when a live parent proves the fault is real"
\* (README.md:53-55).
RootCauseOnly ==
    CycleOver =>
        \A d \in scope : fsm[d].state = "DOWN" =>
            \/ parents[d] = {}
            \/ \E p \in parents[d] : fsm[p].state \notin DownFamily

\* Suppression is lifted by the first cycle that sees a live parent: a dead
\* device stays UNREACHABLE only while every parent of it is down.
ShadowLifts ==
    CycleOver =>
        \A d \in scope :
            /\ fsm[d].state = "UNREACHABLE"
            /\ fsm[d].down >= DownConsecutive
            => /\ parents[d] # {}
               /\ \A p \in parents[d] : fsm[p].state \in DownFamily

\* The blame for an outage is where it belongs: on every root cause, and on
\* nothing behind one.
BlameIsExact == RootCauseOnly /\ ShadowLifts

\* Suppression only relabels outages.  Whether a device is down, since when and
\* until when is what its own samples say, whatever its parents do.
SuppressionIsNeutral ==
    \A d \in Devices :
        /\ fsm[d].state \in DownFamily <=> lone[d].state \in DownFamily
        /\ fsm[d].state \notin DownFamily => fsm[d] = lone[d]

\* The events alone tell the whole story: a ledger that only ever sees them has
\* an open outage for exactly the devices that are down, in the right category.
EventsTellTheState ==
    \A d \in Devices :
        ledger[d] = IF fsm[d].state \in DownFamily THEN fsm[d].state ELSE "none"
=============================================================================
