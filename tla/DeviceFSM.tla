------------------------------ MODULE DeviceFSM ------------------------------
(***************************************************************************)
(* The per-device state machine of src/wisp/core/state_machine.py: what    *)
(* DeviceFSM.prime and DeviceFSM.feed compute.  It has no variables of its *)
(* own; the modules that hold engines keep one FSM record per device.      *)
(*                                                                         *)
(* A probe result is abstracted to the only distinction feed makes:        *)
(*   "lost"  packet_loss >= 100                                            *)
(*   "good"  latency and loss both under their thresholds                  *)
(*   "poor"  anything else (it answered, but not healthily)                *)
(***************************************************************************)
EXTENDS Naturals

CONSTANTS
    DownConsecutive,     \* Config.down_consecutive
    DegradedConsecutive, \* Config.degraded_consecutive
    RecoverConsecutive,  \* Config.recover_consecutive
    StreakCap            \* where streaks saturate; stands for the primed 99

\* The code only ever compares a streak with one of the three thresholds, so a
\* streak that saturates at or above all of them behaves as the unbounded one;
\* prime() uses 99 for the same purpose.
ASSUME ThresholdAssumption ==
    /\ DownConsecutive \in Nat \ {0}
    /\ DegradedConsecutive \in Nat \ {0}
    /\ RecoverConsecutive \in Nat \ {0}
    /\ StreakCap \in Nat
    /\ DownConsecutive <= StreakCap
    /\ DegradedConsecutive <= StreakCap
    /\ RecoverConsecutive <= StreakCap

States     == {"UP", "DEGRADED", "DOWN", "UNREACHABLE"}
DownFamily == {"DOWN", "UNREACHABLE"}
Samples    == {"lost", "poor", "good"}

FSM == [state : States, down : 0..StreakCap, nondown : 0..StreakCap,
        degraded : 0..StreakCap, healthy : 0..StreakCap]

Bump(n) == IF n < StreakCap THEN n + 1 ELSE n

\* The FSM a freshly built engine gives a device whose persisted state is s.
Prime(s) ==
    [state    |-> s,
     down     |-> IF s \in DownFamily THEN StreakCap ELSE 0,
     nondown  |-> IF s \in DownFamily THEN 0 ELSE StreakCap,
     degraded |-> IF s = "DEGRADED" THEN StreakCap ELSE 0,
     healthy  |-> IF s = "UP" THEN StreakCap ELSE 0]

\* The four streaks after one more sample; the state is not touched yet.
Counted(f, s) ==
    [state    |-> f.state,
     down     |-> IF s = "lost" THEN Bump(f.down) ELSE 0,
     nondown  |-> IF s = "lost" THEN 0 ELSE Bump(f.nondown),
     degraded |-> IF s = "poor" THEN Bump(f.degraded) ELSE 0,
     healthy  |-> IF s = "good" THEN Bump(f.healthy) ELSE 0]

\* How a device in the DOWN family leaves it, or does not.
Recovering(f) ==
    IF f.healthy >= RecoverConsecutive THEN "UP"
    ELSE IF f.nondown >= RecoverConsecutive THEN "DEGRADED"
    ELSE f.state

\* MUTANT: off by one at the confirmation threshold.
VerdictOneLate(f) ==
    IF f.down > DownConsecutive THEN "DOWN"
    ELSE IF f.state \in DownFamily THEN Recovering(f)
    ELSE IF \/ f.degraded >= DegradedConsecutive
            \/ f.state = "DEGRADED" /\ f.healthy < RecoverConsecutive
         THEN "DEGRADED"
    ELSE "UP"

\* The verdict on the updated streaks f of a device that was in f.state.
Verdict(f) ==
    IF f.down >= DownConsecutive THEN "DOWN"
    ELSE IF f.state \in DownFamily THEN Recovering(f)
    ELSE IF \/ f.degraded >= DegradedConsecutive
            \/ f.state = "DEGRADED" /\ f.healthy < RecoverConsecutive
         THEN "DEGRADED"
    ELSE "UP"

Feed(f, s) ==
    LET g == Counted(f, s) IN [g EXCEPT !.state = Verdict(g)]

\* The suppression of process_cycle: a DOWN verdict under parents that are all
\* down is an UNREACHABLE one.
Reclassified(f, shadowed) ==
    IF f.state = "DOWN" /\ shadowed
    THEN [f EXCEPT !.state = "UNREACHABLE"] ELSE f
=============================================================================
