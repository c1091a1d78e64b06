------------------------------ MODULE EdgeProbe ------------------------------
(***************************************************************************)
(* One edge node and central: the daemon's main loop and _follow_recheck   *)
(* (apps/daemon/main.py), the device list it is served and the report it   *)
(* posts (central/api/edge.py devices, report), and compute_recheck        *)
(* (central/engine.py).  The network may lose a request or a reply; a      *)
(* device may die or come back, be assigned to the node or taken away; the *)
(* daemon may restart; a superadmin may deactivate the organisation.       *)
(*                                                                         *)
(* Devices have no parents here: suppression never moves a device in or    *)
(* out of the DOWN family (MonitorEngine, SuppressionIsNeutral).  The      *)
(* canary answers; Uplink has the cycles in which it does not.             *)
(***************************************************************************)
EXTENDS EngineCycle, Integers, FiniteSets

CONSTANTS
    Devices,
    MaxChanges,  \* bound: deaths and recoveries of devices
    MaxEdits     \* bound: assignments, deactivations, daemon restarts

ProbeAssumption == {MaxChanges, MaxEdits} \subseteq Nat

VARIABLES
    \* the world
    dead,        \* the devices that answer no ping
    changes,
    \* central
    assigned,    \* the devices whose assigned_node_id is this node
    deactivated, \* org_billing.deactivated
    fsm,         \* the organisation's engine
    edits,
    \* the edge daemon
    phase,       \* "fetch" the topology, "report", "recheck"
    known,       \* the device list it probes
    suspects,    \* the addresses of the recheck directive
    rounds,      \* recheck rounds left in this cycle
    \* history
    steady,      \* the devices whose world stood still since the full report
    settled      \* the last recheck loop ran to its end

world   == <<dead, changes>>
central == <<assigned, deactivated, fsm, edits>>
daemon  == <<phase, known, suspects, rounds>>
history == <<steady, settled>>
vars    == <<world, central, daemon, history>>

-----------------------------------------------------------------------------
NoParents == [d \in Devices |-> {}]

\* MUTANT: the full report is taken to count for all confirmations but one.
CapShort == 1

\* _follow_recheck gives up after this many rounds.
Cap == (IF DownConsecutive > RecoverConsecutive
        THEN DownConsecutive ELSE RecoverConsecutive) + 2

Init ==
    /\ dead = {} /\ changes = 0
    /\ assigned \in SUBSET Devices /\ deactivated = FALSE
    /\ fsm = [d \in Devices |-> Prime("UP")]
    /\ edits = 0
    /\ phase = "fetch" /\ known = assigned
    /\ suspects = {} /\ rounds = 0
    /\ steady = {} /\ settled = FALSE

\* GET /devices: a deactivated organisation is served an empty list.
Served == IF deactivated THEN {} ELSE assigned

\* MUTANT: the topology is fetched at the start of the daemon only.
FetchOnce ==
    /\ phase = "fetch"
    /\ phase' = "report"
    /\ UNCHANGED <<world, central, known, suspects, rounds, history>>

\* topo.get("devices") or devices: an empty or missing answer leaves the daemon
\* with the devices it knew.
Fetch ==
    /\ phase = "fetch"
    /\ \/ UNCHANGED known
       \/ known' = IF Served = {} THEN known ELSE Served
    /\ phase' = "report"
    /\ UNCHANGED <<world, central, suspects, rounds, history>>

\* What central makes of the pings of the devices in probed: a device in scope
\* that is missing from the report counts as lost.
ScoredBy(probed, scope) ==
    Cycle(NoParents, fsm,
          [d \in Devices |-> IF d \in probed \ dead THEN "good" ELSE "lost"], scope)

\* compute_recheck: the devices whose state and sample disagree.
Suspects(new, probed, scope) ==
    {d \in scope : \/ new[d].state \notin DownFamily /\ d \notin probed \ dead
                   \/ new[d].state \in DownFamily /\ d \in probed \ dead}

\* The report reaches central, and perhaps its reply the daemon.
Report ==
    /\ phase = "report"
    /\ LET new == ScoredBy(known, assigned)
       IN  /\ fsm' = new
           /\ \/ /\ suspects' = Suspects(new, known, assigned)
                 /\ phase' = "recheck"
              \/ suspects' = {} /\ phase' = "fetch"
    /\ rounds' = Cap
    /\ steady' = Devices
    /\ settled' = FALSE
    /\ UNCHANGED <<world, assigned, deactivated, edits, known>>

\* The report does not reach central.
ReportLost ==
    /\ phase = "report"
    /\ phase' = "fetch"
    /\ settled' = FALSE
    /\ UNCHANGED <<world, central, known, suspects, rounds, steady>>

\* One round: only the suspects are probed and scored.  A lost reply ends the
\* loop.
Recheck ==
    /\ phase = "recheck" /\ suspects # {} /\ rounds > 0
    /\ LET new == ScoredBy(suspects, suspects)
       IN  /\ fsm' = new
           /\ \/ /\ suspects' = Suspects(new, suspects, suspects)
                 /\ rounds' = rounds - 1
                 /\ UNCHANGED phase
              \/ /\ suspects' = {} /\ phase' = "fetch"
                 /\ UNCHANGED rounds
    /\ UNCHANGED <<world, assigned, deactivated, edits, known, history>>

\* A round that does not reach central ends the loop as well.
RecheckLost ==
    /\ phase = "recheck" /\ suspects # {} /\ rounds > 0
    /\ suspects' = {} /\ phase' = "fetch"
    /\ UNCHANGED <<world, central, known, rounds, history>>

\* The loop ends: nothing is suspected, or the rounds are used up.
Settle ==
    /\ phase = "recheck" /\ (suspects = {} \/ rounds = 0)
    /\ suspects' = {}
    /\ phase' = "fetch"
    /\ settled' = TRUE
    /\ UNCHANGED <<world, central, known, rounds, steady>>

-----------------------------------------------------------------------------
\* A device dies or comes back.
Flip(d) ==
    /\ changes < MaxChanges
    /\ changes' = changes + 1
    /\ dead' = IF d \in dead THEN dead \ {d} ELSE dead \cup {d}
    /\ steady' = steady \ {d}
    /\ UNCHANGED <<central, daemon, settled>>

Edit ==
    /\ edits < MaxEdits
    /\ edits' = edits + 1
    /\ UNCHANGED world

\* The operator assigns a device to the node or takes it away.
Reassign(d) ==
    /\ Edit
    /\ assigned' = IF d \in assigned THEN assigned \ {d} ELSE assigned \cup {d}
    /\ steady' = steady \ {d}
    /\ UNCHANGED <<deactivated, fsm, daemon, settled>>

SetDeactivated ==
    /\ Edit
    /\ deactivated' = ~deactivated
    /\ UNCHANGED <<assigned, fsm, daemon, history>>

\* The daemon starts again: it asks for its devices and refuses to start
\* without an answer, but starts with an empty one.
Restart ==
    /\ Edit
    /\ known' = Served
    /\ phase' = "fetch" /\ suspects' = {} /\ rounds' = 0
    /\ settled' = FALSE
    /\ UNCHANGED <<assigned, deactivated, fsm, steady>>

Loop == Fetch \/ Report \/ Recheck \/ Settle

Next ==
    \/ Loop \/ ReportLost \/ RecheckLost
    \/ \E d \in Devices : Flip(d) \/ Reassign(d)
    \/ SetDeactivated \/ Restart

Spec == Init /\ [][Next]_vars

\* The daemon's loop runs, and the network lets reports through again and
\* again, fetches included.
Fairness ==
    /\ WF_vars(Loop)
    /\ SF_vars(Report)
    /\ SF_vars(Fetch /\ (Served # {} => known' = Served))

FairSpec == Spec /\ Fairness

-----------------------------------------------------------------------------
TypeOK ==
    /\ dead \in SUBSET Devices /\ assigned \in SUBSET Devices
    /\ known \in SUBSET Devices /\ suspects \in SUBSET Devices
    /\ deactivated \in BOOLEAN
    /\ fsm \in [Devices -> FSM]
    /\ phase \in {"fetch", "report", "recheck"}
    /\ rounds \in 0..Cap
    /\ steady \in SUBSET Devices /\ settled \in BOOLEAN
    /\ changes \in Nat /\ edits \in Nat

IsDown(d) == fsm[d].state \in DownFamily

\* Fast-confirm: a recheck loop that ran to its end leaves no doubt about a
\* device that stood still since the full report.  The cap on the rounds never
\* cuts the confirmation of an outage or of a recovery short.
RecheckSettles ==
    settled /\ phase = "fetch" =>
        \A d \in assigned \cap known \cap steady : IsDown(d) <=> d \in dead

\* Central learns of a dead device sooner or later, and of its return, whatever
\* requests, replies and restarts come between; of the return once the daemon is
\* served the device: until then a device it does not know counts as lost.
ChangesAreNoticed ==
    \A d \in Devices :
        /\ <>[](d \in dead /\ d \in assigned) => <>[]IsDown(d)
        /\ <>[](d \notin dead /\ d \in Served) => <>[](~IsDown(d))

\* "A DEACTIVATED org is stood down: an empty topology, so the edge probes
\* nothing and pages nobody." (api/edge.py:31)
DeactivatedOpensNoOutage ==
    [][\A d \in Devices : deactivated /\ ~IsDown(d) => ~IsDown(d)']_vars
=============================================================================
