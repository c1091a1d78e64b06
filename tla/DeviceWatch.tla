----------------------------- MODULE DeviceWatch -----------------------------
(***************************************************************************)
(* One device as the monitoring engine sees it over time: the samples that *)
(* are scored against it, the verdict of its topological parents, and the  *)
(* rebuilds of the engine (central restart, topology edit) that prime its  *)
(* state machine again from the persisted state.                           *)
(*                                                                         *)
(* The history variable states the promise of README.md "Flap suppression" *)
(* in terms of samples, which the streak counters only encode.             *)
(***************************************************************************)
EXTENDS DeviceFSM, Sequences

CONSTANTS
    MaxSamples,  \* bound: samples scored in one behaviour
    MaxRebuilds  \* bound: engine rebuilds in one behaviour

VARIABLES
    fsm,      \* MonitorEngine.fsm[d]
    history,  \* every sample scored so far, oldest first
    since,    \* the length of history when the engine was last built
    rebuilds  \* how often the engine was rebuilt

vars == <<fsm, history, since, rebuilds>>

\* The last n entries of h are all in S.
LastIn(h, n, S) ==
    /\ n <= Len(h)
    /\ \A i \in (Len(h) - n + 1)..Len(h) : h[i] \in S

LastAre(n, S) == LastIn(history, n, S)

-----------------------------------------------------------------------------
\* A device first seen is UP; one with a device_states row is primed from it.
Init ==
    /\ \E s \in States : fsm = Prime(s)
    /\ history = <<>>
    /\ since = 0
    /\ rebuilds = 0

Score(s, shadowed) ==
    /\ Len(history) < MaxSamples
    /\ fsm' = Reclassified(Feed(fsm, s), shadowed)
    /\ history' = Append(history, s)
    /\ UNCHANGED <<since, rebuilds>>

\* EngineRegistry.get on a changed fingerprint, or after a restart: the streaks
\* are forgotten, the state survives because run_cycle persisted it.
Rebuild ==
    /\ rebuilds < MaxRebuilds
    /\ fsm' = Prime(fsm.state)
    /\ since' = Len(history)
    /\ rebuilds' = rebuilds + 1
    /\ UNCHANGED history

Next ==
    \/ \E s \in Samples, shadowed \in BOOLEAN : Score(s, shadowed)
    \/ Rebuild

Spec == Init /\ [][Next]_vars

-----------------------------------------------------------------------------
TypeOK ==
    /\ fsm \in FSM
    /\ history \in Seq(Samples)
    /\ since \in 0..Len(history)
    /\ rebuilds \in Nat

IsDown == fsm.state \in DownFamily

\* A single blip never pages: an outage begins only on a run of DownConsecutive
\* lost polls, whatever was scored before it and however often the engine was
\* rebuilt meanwhile (feed and prime, state_machine.py:83-132).
OutageNeedsARunOfLostPolls ==
    [][~IsDown /\ IsDown' => LastAre(DownConsecutive, {"lost"})']_vars

\* An outage ends only on a run of RecoverConsecutive answered polls, and ends
\* in UP only if all of them were healthy.
RecoveryNeedsARunOfAnswers ==
    [][IsDown /\ ~IsDown' =>
        /\ LastAre(RecoverConsecutive, {"poor", "good"})'
        /\ fsm'.state = "UP" => LastAre(RecoverConsecutive, {"good"})']_vars

\* A healthy device is called DEGRADED only on a run of DegradedConsecutive
\* unhealthy answers.
DegradedNeedsARunOfPoorPolls ==
    [][fsm.state = "UP" /\ fsm'.state = "DEGRADED" =>
        LastAre(DegradedConsecutive, {"poor"})']_vars

\* Detection is prompt: DownConsecutive lost polls since the engine was built
\* leave the device in the DOWN family, whatever state it started from.
LostRunIsAnOutage ==
    /\ since + DownConsecutive <= Len(history)
    /\ LastAre(DownConsecutive, {"lost"})
    => IsDown

\* Recovery is prompt: RecoverConsecutive healthy polls since the engine was
\* built clear every alarm, DEGRADED included.
HealthyRunIsUp ==
    /\ since + RecoverConsecutive <= Len(history)
    /\ LastAre(RecoverConsecutive, {"good"})
    => fsm.state = "UP"

\* A device changes its state on no less than the runs of polls above.
ChangesNeedARun ==
    /\ OutageNeedsARunOfLostPolls
    /\ RecoveryNeedsARunOfAnswers
    /\ DegradedNeedsARunOfPoorPolls

\* And on no more: what such a run says of the device is its state.
RunsAreHeeded == LostRunIsAnOutage /\ HealthyRunIsUp
=============================================================================
