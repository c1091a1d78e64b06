------------------------------ MODULE MCEdgeSide -------------------------------
(***************************************************************************)
(* The parts of the edge side next to each other, for one run: a behaviour *)
(* is a behaviour of one of them, the others stand still.  They share no   *)
(* state.                                                                  *)
(***************************************************************************)
EXTENDS Naturals

CONSTANTS
    UplinkNodes, MaxUplinkLosses, MaxRebuilds,
    Probed, MaxChanges, MaxEdits,
    DownConsecutive, DegradedConsecutive, RecoverConsecutive, StreakCap,
    MaxRelease, Works, Speaks, Starts, MaxLosses,
    Fleet, FleetReleases, ByHand, MaxTroubles, MaxUpsets, Modes, Mixed

VARIABLES
    part,
    offline, active, logged, sending, pages, cuts, rebuilds,
    dead, changes, assigned, deactivated, fsm, edits,
    phase, known, suspects, rounds, steady, settled,
    agent, lkg, download, request, running, pc, untried, raised, losses,
    latest, auto, rollout, heard, version, fresh, at, reported, verdict,
    installed, trial, backup, update, retired, proven, chosen, overtaken, arms, troubles

U == INSTANCE Uplink
       WITH Nodes <- UplinkNodes, MaxLosses <- MaxUplinkLosses, losses <- cuts
P == INSTANCE EdgeProbe WITH Devices <- Probed
S == INSTANCE Supervisor
R == INSTANCE Rollout
       WITH Nodes <- Fleet, MaxRelease <- FleetReleases,
            pc <- at, agent <- installed, request <- update

ASSUME SideAssumption ==
    /\ U!UplinkAssumption /\ P!ProbeAssumption /\ P!ThresholdAssumption
    /\ S!SupervisorAssumption /\ R!RolloutAssumption

uplinkVars == <<offline, active, logged, sending, pages, cuts, rebuilds>>
probeVars == <<dead, changes, assigned, deactivated, fsm, edits,
               phase, known, suspects, rounds, steady, settled>>
supervisorVars == <<agent, lkg, download, request, running, pc, untried, raised, losses>>
rolloutVars ==
    <<latest, auto, rollout, heard, version, fresh, at, reported, verdict,
      installed, trial, backup, update, retired, proven, chosen, overtaken, arms, troubles>>
vars == <<part, uplinkVars, probeVars, supervisorVars, rolloutVars>>

Init ==
    /\ part \in {"uplink", "probe", "supervisor", "rollout"}
    /\ U!Init
    /\ P!Init /\ (part # "probe" => assigned = {})
    /\ S!Init
    /\ R!Init /\ (part # "rollout" => ~auto /\ heard = {} /\ installed = [n \in Fleet |-> 0])

Uplink ==
    /\ part = "uplink" /\ U!Next
    /\ UNCHANGED <<probeVars, supervisorVars, rolloutVars>>
Probe ==
    /\ part = "probe" /\ P!Next
    /\ UNCHANGED <<uplinkVars, supervisorVars, rolloutVars>>
Supervise ==
    /\ part = "supervisor" /\ S!Next
    /\ UNCHANGED <<uplinkVars, probeVars, rolloutVars>>
RollOut ==
    /\ part = "rollout" /\ R!Next
    /\ UNCHANGED <<uplinkVars, probeVars, supervisorVars>>

Next ==
    /\ Uplink \/ Probe \/ Supervise \/ RollOut
    /\ UNCHANGED part

\* The fairness of each part, for the behaviours that are its own.
Fairness ==
    /\ \A n \in UplinkNodes : WF_uplinkVars(part = "uplink" /\ U!Report(n))
    /\ \A kind \in U!Kinds : WF_uplinkVars(part = "uplink" /\ U!Finish(kind))
    /\ WF_probeVars(part = "probe" /\ P!Loop)
    /\ SF_probeVars(part = "probe" /\ P!Report)
    /\ SF_probeVars(part = "probe" /\ P!Fetch /\ (P!Served # {} => known' = P!Served))
    /\ WF_supervisorVars(part = "supervisor" /\ S!Loop)
    /\ WF_supervisorVars(part = "supervisor" /\ S!Exit)
    /\ \A n \in Fleet :
          /\ WF_rolloutVars(part = "rollout" /\ (R!Heartbeat(n) \/ R!Handle(n)))
          /\ WF_rolloutVars(part = "rollout" /\ (R!Swap(n) \/ R!PassGate(n)))
    /\ WF_rolloutVars(part = "rollout" /\ R!Expire)

Spec == Init /\ [][Next]_vars /\ Fairness

-----------------------------------------------------------------------------
(***************************************************************************)
(* Properties: those of the parts, told in their modules.                  *)
(***************************************************************************)
\* The variables of every part keep their types.
TypeOK ==
    CASE part = "uplink" -> U!TypeOK
      [] part = "probe" -> P!TypeOK
      [] part = "supervisor" -> S!TypeOK
      [] part = "rollout" -> R!TypeOK

\* At most one page for a loss of the uplink and for a rebuilt engine.
OnePagePerUplinkLoss == U!OnePagePerUplinkLoss

\* A recheck loop that ran to its end leaves no doubt.
RecheckSettles == P!RecheckSettles

\* The agent on disk is whole and the backup works.
DiskIsSound == S!DiskIsSound

\* The canaries prove a release before anyone else runs it.
CanariesGoFirst == R!CanariesGoFirst

\* A rollout comes to an end.
RolloutEnds == R!RolloutEnds

\* The uplink flag comes to agree with the uplink.
FlagRecovers == U!FlagRecovers

\* Deaths and returns are noticed over a lossy network.
ChangesAreNoticed == P!ChangesAreNoticed

\* A working agent comes back.
WorkingAgentComesBack ==
    []<>(part = "supervisor" => running \in Works \/ untried \/ raised)
=============================================================================
