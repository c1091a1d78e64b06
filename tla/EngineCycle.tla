----------------------------- MODULE EngineCycle -----------------------------
(***************************************************************************)
(* MonitorEngine.process_cycle (src/wisp/core/state_machine.py) as one     *)
(* operator: the state machines after a cycle over a scope of devices, and *)
(* the outage event each device contributes.                               *)
(*                                                                         *)
(* An engine is a function from the devices it monitors to FSM records;    *)
(* par[d] is the set of primary and backup parents of d.  The code walks   *)
(* the devices parents first (TopologyOrder) and updates them one by one.  *)
(* Reclassifying DOWN as UNREACHABLE never moves a device in or out of the *)
(* DOWN family, which is all a child looks at, so over an acyclic topology *)
(* the walk has the closed form below; MonitorEngine walks it device by    *)
(* device and shows that the two agree.                                    *)
(***************************************************************************)
EXTENDS DeviceFSM

Events == [kind : {"none", "opened", "resolved", "recategorized"}, state : States]

NoEvent == [kind |-> "none", state |-> "UP"]

\* MUTANT: one dead parent is enough to suppress, alive backups or not.
ShadowedByAny(par, eng, d) ==
    \E p \in par[d] \cap DOMAIN eng : eng[p].state \in DownFamily

\* Every monitored parent of d is down: d's own fault is not proven.
Shadowed(par, eng, d) ==
    /\ par[d] \cap DOMAIN eng # {}
    /\ \A p \in par[d] \cap DOMAIN eng : eng[p].state \in DownFamily

\* Every device in scope scored, before any suppression.
Scored(eng, res, scope) ==
    [d \in DOMAIN eng |-> IF d \in scope THEN Feed(eng[d], res[d]) ELSE eng[d]]

Cycle(par, eng, res, scope) ==
    LET fed == Scored(eng, res, scope)
    IN  [d \in DOMAIN eng |->
            IF d \in scope THEN Reclassified(fed[d], Shadowed(par, fed, d))
            ELSE eng[d]]

\* MUTANT: a change of category inside the DOWN family is not reported.
EventOfCoarse(prev, new) ==
    IF prev \notin DownFamily /\ new \in DownFamily
    THEN [kind |-> "opened", state |-> new]
    ELSE IF prev \in DownFamily /\ new \notin DownFamily
    THEN [kind |-> "resolved", state |-> "UP"]
    ELSE NoEvent

\* The outage event of a device that was in state prev and is now in new.
EventOf(prev, new) ==
    IF prev \notin DownFamily /\ new \in DownFamily
    THEN [kind |-> "opened", state |-> new]
    ELSE IF prev \in DownFamily /\ new \notin DownFamily
    THEN [kind |-> "resolved", state |-> "UP"]
    ELSE IF prev \in DownFamily /\ new \in DownFamily /\ prev # new
    THEN [kind |-> "recategorized", state |-> new]
    ELSE NoEvent
=============================================================================
