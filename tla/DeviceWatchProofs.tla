-------------------------- MODULE DeviceWatchProofs --------------------------
(***************************************************************************)
(* The promises of DeviceWatch for every choice of thresholds.  The        *)
(* inductive invariant says what each streak counter means: while the      *)
(* device is not in the DOWN family its lost streak is the length of a     *)
(* suffix of lost samples, and so on; and, the other way round, a suffix   *)
(* scored since the engine was built is never longer than its streak.      *)
(***************************************************************************)
EXTENDS DeviceWatch, SequenceTheorems, TLAPS

\* What the streaks say about the samples (soundness).
StreaksAreRuns ==
    /\ ~IsDown => LastAre(fsm.down, {"lost"})
    /\ IsDown  => /\ LastAre(fsm.nondown, {"poor", "good"})
                  /\ LastAre(fsm.healthy, {"good"})
    /\ fsm.state = "UP" => LastAre(fsm.degraded, {"poor"})

\* What the samples say about the streaks (completeness).
RunsAreCounted ==
    \A n \in 0..StreakCap :
        since + n <= Len(history) =>
            /\ LastAre(n, {"lost"}) => n <= fsm.down
            /\ LastAre(n, {"good"}) => n <= fsm.healthy

\* What the streaks say about the state.
StreaksDecideState ==
    /\ fsm.down >= DownConsecutive => IsDown
    /\ fsm.healthy >= RecoverConsecutive => fsm.state = "UP"

IInv == TypeOK /\ StreaksAreRuns /\ RunsAreCounted /\ StreaksDecideState

-----------------------------------------------------------------------------
\* A suffix grows by the appended sample when that sample is in S.
LEMMA AppendExtends ==
    ASSUME NEW h \in Seq(Samples), NEW s \in Samples, NEW S, NEW n \in Nat,
           LastIn(h, n, S), s \in S
    PROVE  /\ LastIn(Append(h, s), n + 1, S)
           /\ LastIn(Append(h, s), n, S)
<1>1. Len(Append(h, s)) = Len(h) + 1 /\ Append(h, s)[Len(h) + 1] = s
  OBVIOUS
<1>2. n <= Len(h) /\ Len(h) \in Nat
  BY DEF LastIn
<1>3. \A i \in (Len(h) - n + 1)..(Len(h) + 1) : Append(h, s)[i] \in S
  <2> TAKE i \in (Len(h) - n + 1)..(Len(h) + 1)
  <2>1. CASE i = Len(h) + 1
    BY <1>1, <2>1
  <2>2. CASE i # Len(h) + 1
    <3>1. i \in (Len(h) - n + 1)..Len(h) /\ i \in 1..Len(h)
      BY <1>2, <2>2
    <3>2. Append(h, s)[i] = h[i]
      BY <3>1
    <3> QED  BY <3>1, <3>2 DEF LastIn
  <2> QED  BY <2>1, <2>2
<1> QED  BY <1>1, <1>2, <1>3 DEF LastIn

\* A non-empty suffix of the longer history ends in the appended sample and
\* continues a suffix of the old one.
LEMMA AppendShrinks ==
    ASSUME NEW h \in Seq(Samples), NEW s \in Samples, NEW S, NEW n \in Nat,
           LastIn(Append(h, s), n + 1, S)
    PROVE  s \in S /\ LastIn(h, n, S)
<1>1. Len(Append(h, s)) = Len(h) + 1 /\ Append(h, s)[Len(h) + 1] = s
  OBVIOUS
<1>2. s \in S
  BY <1>1 DEF LastIn
<1>3. \A i \in (Len(h) - n + 1)..Len(h) : h[i] \in S
  <2> TAKE i \in (Len(h) - n + 1)..Len(h)
  <2>1. n <= Len(h)
    BY <1>1 DEF LastIn
  <2>2. i \in 1..Len(h) /\ Append(h, s)[i] = h[i]
    BY <2>1
  <2> QED  BY <1>1, <2>2 DEF LastIn
<1> QED  BY <1>1, <1>2, <1>3 DEF LastIn

\* Any sequence ends in an empty run.
LEMMA EmptyRun ==
    ASSUME NEW h \in Seq(Samples), NEW S
    PROVE  LastIn(h, 0, S)
BY DEF LastIn

-----------------------------------------------------------------------------
LEMMA InitIInv == Init => IInv
<1> SUFFICES ASSUME Init PROVE IInv
  OBVIOUS
<1> USE ThresholdAssumption DEF FSM, States, DownFamily, Prime
<1>1. TypeOK
  BY DEF Init, TypeOK
<1>2. StreaksAreRuns
  BY EmptyRun DEF Init, StreaksAreRuns, IsDown, LastAre, LastIn
<1>3. RunsAreCounted
  BY DEF Init, RunsAreCounted
<1>4. StreaksDecideState
  BY DEF Init, StreaksDecideState, IsDown
<1> QED  BY <1>1, <1>2, <1>3, <1>4 DEF IInv

\* What one more sample does to a type-correct state machine.
LEMMA FeedType ==
    ASSUME NEW f \in FSM, NEW s \in Samples
    PROVE  /\ Counted(f, s) \in FSM
           /\ Feed(f, s) \in FSM
           /\ Feed(f, s) = [Counted(f, s) EXCEPT !.state = Verdict(Counted(f, s))]
           /\ Feed(f, s).state = Verdict(Counted(f, s))
           /\ Feed(f, s).down = Counted(f, s).down
           /\ Feed(f, s).nondown = Counted(f, s).nondown
           /\ Feed(f, s).degraded = Counted(f, s).degraded
           /\ Feed(f, s).healthy = Counted(f, s).healthy
<1> USE ThresholdAssumption
<1>1. Counted(f, s) \in FSM
  BY DEF Counted, Bump, FSM
<1>2. Verdict(Counted(f, s)) \in States
  BY <1>1 DEF Verdict, Recovering, States, FSM
<1> QED  BY <1>1, <1>2 DEF Feed, FSM

LEMMA ScorePreserves ==
    ASSUME IInv, NEW s \in Samples, NEW shadowed \in BOOLEAN, Score(s, shadowed)
    PROVE  /\ IInv'
           /\ ~IsDown /\ IsDown' => LastAre(DownConsecutive, {"lost"})'
           /\ IsDown /\ ~IsDown' =>
                /\ LastAre(RecoverConsecutive, {"poor", "good"})'
                /\ fsm'.state = "UP" => LastAre(RecoverConsecutive, {"good"})'
           /\ fsm.state = "UP" /\ fsm'.state = "DEGRADED" =>
                LastAre(DegradedConsecutive, {"poor"})'
<1> USE ThresholdAssumption
<1> DEFINE g == Counted(fsm, s)
<1>1. /\ fsm \in FSM /\ history \in Seq(Samples)
      /\ history' = Append(history, s)
      /\ since' = since /\ rebuilds' = rebuilds
      /\ since \in 0..Len(history) /\ rebuilds \in Nat
  BY DEF IInv, TypeOK, Score
<1>2. /\ g \in FSM
      /\ fsm' \in FSM
      /\ fsm'.down = g.down /\ fsm'.nondown = g.nondown
      /\ fsm'.degraded = g.degraded /\ fsm'.healthy = g.healthy
      /\ \/ fsm'.state = Verdict(g)
         \/ Verdict(g) = "DOWN" /\ fsm'.state = "UNREACHABLE"
  <2> DEFINE f == Feed(fsm, s)
  <2>1. /\ g \in FSM /\ f \in FSM /\ f.state = Verdict(g)
        /\ f.down = g.down /\ f.nondown = g.nondown
        /\ f.degraded = g.degraded /\ f.healthy = g.healthy
    BY <1>1, FeedType
  <2>2. \/ fsm' = f
        \/ f.state = "DOWN" /\ fsm' = [f EXCEPT !.state = "UNREACHABLE"]
    BY DEF Score, Reclassified
  <2> HIDE DEF f, g
  <2> QED  BY <2>1, <2>2 DEF FSM, States
<1>3. history' \in Seq(Samples) /\ Len(history') = Len(history) + 1
  BY <1>1
<1>4. TypeOK'
  BY <1>1, <1>2, <1>3 DEF TypeOK
<1>5. IsDown' <=> Verdict(g) \in DownFamily
  BY <1>2 DEF IsDown, DownFamily
<1>6. g.state = fsm.state
  BY DEF Counted
\* The four streaks of g, each against the longer history.
<1>7. ~IsDown => LastIn(history', g.down, {"lost"})
  <2> SUFFICES ASSUME ~IsDown PROVE LastIn(history', g.down, {"lost"})
    OBVIOUS
  <2>1. LastIn(history, fsm.down, {"lost"}) /\ fsm.down \in Nat
    BY <1>1 DEF IInv, StreaksAreRuns, LastAre, FSM
  <2>2. CASE s = "lost"
    BY <2>1, <2>2, <1>1, AppendExtends DEF Counted, Bump
  <2>3. CASE s # "lost"
    BY <2>3, <1>3, EmptyRun DEF Counted
  <2> QED  BY <2>2, <2>3
<1>8. IsDown => LastIn(history', g.nondown, {"poor", "good"})
  <2> SUFFICES ASSUME IsDown PROVE LastIn(history', g.nondown, {"poor", "good"})
    OBVIOUS
  <2>1. LastIn(history, fsm.nondown, {"poor", "good"}) /\ fsm.nondown \in Nat
    BY <1>1 DEF IInv, StreaksAreRuns, LastAre, FSM
  <2>2. CASE s = "lost"
    BY <2>2, <1>3, EmptyRun DEF Counted
  <2>3. CASE s # "lost"
    BY <2>1, <2>3, <1>1, AppendExtends DEF Counted, Bump, Samples
  <2> QED  BY <2>2, <2>3
<1>9. IsDown => LastIn(history', g.healthy, {"good"})
  <2> SUFFICES ASSUME IsDown PROVE LastIn(history', g.healthy, {"good"})
    OBVIOUS
  <2>1. LastIn(history, fsm.healthy, {"good"}) /\ fsm.healthy \in Nat
    BY <1>1 DEF IInv, StreaksAreRuns, LastAre, FSM
  <2>2. CASE s = "good"
    BY <2>1, <2>2, <1>1, AppendExtends DEF Counted, Bump
  <2>3. CASE s # "good"
    BY <2>3, <1>3, EmptyRun DEF Counted
  <2> QED  BY <2>2, <2>3
<1>10. fsm.state = "UP" => LastIn(history', g.degraded, {"poor"})
  <2> SUFFICES ASSUME fsm.state = "UP" PROVE LastIn(history', g.degraded, {"poor"})
    OBVIOUS
  <2>1. LastIn(history, fsm.degraded, {"poor"}) /\ fsm.degraded \in Nat
    BY <1>1 DEF IInv, StreaksAreRuns, LastAre, FSM
  <2>2. CASE s = "poor"
    BY <2>1, <2>2, <1>1, AppendExtends DEF Counted, Bump
  <2>3. CASE s # "poor"
    BY <2>3, <1>3, EmptyRun DEF Counted
  <2> QED  BY <2>2, <2>3
\* A streak that reaches its threshold is the run the promise speaks of.
<1>11. \A n, m \in Nat : \A S : n <= m /\ LastIn(history', m, S) => LastIn(history', n, S)
  BY <1>3 DEF LastIn
<1>12. ~IsDown /\ IsDown' => LastAre(DownConsecutive, {"lost"})'
  <2>1. ~IsDown /\ IsDown' => g.down >= DownConsecutive
    BY <1>5, <1>6 DEF Verdict, IsDown, DownFamily
  <2> QED  BY <2>1, <1>7, <1>11, <1>2 DEF FSM, LastAre
<1>13. IsDown /\ ~IsDown' =>
         /\ LastAre(RecoverConsecutive, {"poor", "good"})'
         /\ fsm'.state = "UP" => LastAre(RecoverConsecutive, {"good"})'
  <2>1. IsDown /\ ~IsDown' =>
          \/ g.nondown >= RecoverConsecutive /\ fsm'.state = "DEGRADED"
          \/ g.healthy >= RecoverConsecutive
    BY <1>2, <1>5, <1>6 DEF Verdict, Recovering, IsDown, DownFamily
  <2>2. \A n : LastIn(history', n, {"good"}) => LastIn(history', n, {"poor", "good"})
    BY DEF LastIn
  <2> QED  BY <2>1, <2>2, <1>8, <1>9, <1>11, <1>2 DEF FSM, LastAre
<1>14. fsm.state = "UP" /\ fsm'.state = "DEGRADED" =>
         LastAre(DegradedConsecutive, {"poor"})'
  <2>1. fsm.state = "UP" /\ fsm'.state = "DEGRADED" => g.degraded >= DegradedConsecutive
    BY <1>2, <1>6 DEF Verdict, DownFamily
  <2> QED  BY <2>1, <1>10, <1>11, <1>2 DEF FSM, LastAre
<1>15. StreaksAreRuns'
  <2>1. ~IsDown' => LastIn(history', fsm'.down, {"lost"})
    <3> SUFFICES ASSUME ~IsDown' PROVE LastIn(history', g.down, {"lost"})
      BY <1>2
    <3>1. CASE ~IsDown
      BY <3>1, <1>7
    <3>2. CASE IsDown
      <4>1. s # "lost"
        BY <3>2, <1>5, <1>6 DEF Counted, Verdict, Recovering, IsDown, DownFamily
      <4> QED  BY <4>1, <1>3, EmptyRun DEF Counted
    <3> QED  BY <3>1, <3>2
  <2>2. IsDown' => /\ LastIn(history', fsm'.nondown, {"poor", "good"})
                   /\ LastIn(history', fsm'.healthy, {"good"})
    <3> SUFFICES ASSUME IsDown' PROVE /\ LastIn(history', g.nondown, {"poor", "good"})
                                      /\ LastIn(history', g.healthy, {"good"})
      BY <1>2
    <3>1. CASE IsDown
      BY <3>1, <1>8, <1>9
    <3>2. CASE ~IsDown
      <4>1. s = "lost"
        BY <3>2, <1>5, <1>6 DEF Counted, Verdict, Recovering, IsDown, DownFamily
      <4> QED  BY <4>1, <1>3, EmptyRun DEF Counted
    <3> QED  BY <3>1, <3>2
  <2>3. fsm'.state = "UP" => LastIn(history', fsm'.degraded, {"poor"})
    <3> SUFFICES ASSUME fsm'.state = "UP" PROVE LastIn(history', g.degraded, {"poor"})
      BY <1>2
    <3>1. CASE fsm.state = "UP"
      BY <3>1, <1>10
    <3>2. CASE fsm.state # "UP"
      <4>1. s = "good"
        BY <3>2, <1>1, <1>2, <1>6
           DEF Counted, Verdict, Recovering, DownFamily, FSM, States
      <4> QED  BY <4>1, <1>3, EmptyRun DEF Counted
    <3> QED  BY <3>1, <3>2
  <2> QED  BY <2>1, <2>2, <2>3 DEF StreaksAreRuns, LastAre, IsDown
<1>16. RunsAreCounted'
  <2> SUFFICES ASSUME NEW n \in 0..StreakCap, since + n <= Len(history')
               PROVE  /\ LastIn(history', n, {"lost"}) => n <= g.down
                      /\ LastIn(history', n, {"good"}) => n <= g.healthy
    BY <1>1, <1>2 DEF RunsAreCounted, LastAre
  <2>1. CASE n = 0
    BY <2>1, <1>2 DEF FSM
  <2>2. CASE n # 0
    <3> DEFINE m == n - 1
    <3>1. /\ m \in Nat /\ n = m + 1 /\ m \in 0..StreakCap
          /\ since + m <= Len(history)
      BY <2>2, <1>1, <1>3
    <3>2. /\ LastIn(history, m, {"lost"}) => m <= fsm.down
          /\ LastIn(history, m, {"good"}) => m <= fsm.healthy
      BY <3>1 DEF IInv, RunsAreCounted, LastAre
    <3> HIDE DEF m, g
    <3>a. \A S : LastIn(history', n, S) => s \in S /\ LastIn(history, m, S)
      BY <3>1, <1>1, AppendShrinks
    <3>3. LastIn(history', n, {"lost"}) => s = "lost" /\ LastIn(history, m, {"lost"})
      BY <3>a
    <3>4. LastIn(history', n, {"good"}) => s = "good" /\ LastIn(history, m, {"good"})
      BY <3>a
    <3>5. LastIn(history', n, {"lost"}) => n <= g.down
      BY <3>1, <3>2, <3>3, <1>1 DEF g, Counted, Bump, FSM
    <3>6. LastIn(history', n, {"good"}) => n <= g.healthy
      BY <3>1, <3>2, <3>4, <1>1 DEF g, Counted, Bump, FSM
    <3> QED  BY <3>5, <3>6
  <2> QED  BY <2>1, <2>2
<1>17. StreaksDecideState'
  <2>1. g.down >= DownConsecutive => Verdict(g) \in DownFamily
    BY DEF Verdict, DownFamily
  <2>2. g.healthy >= RecoverConsecutive => fsm'.state = "UP"
    <3> SUFFICES ASSUME g.healthy >= RecoverConsecutive PROVE fsm'.state = "UP"
      OBVIOUS
    <3>1. s = "good"
      BY DEF Counted
    <3>2. Verdict(g) = "UP"
      BY <3>1, <1>2, <1>6 DEF Counted, Verdict, Recovering, FSM, States, DownFamily
    <3> QED  BY <3>2, <1>2
  <2> QED  BY <2>1, <2>2, <1>2, <1>5 DEF StreaksDecideState
<1> QED  BY <1>4, <1>12, <1>13, <1>14, <1>15, <1>16, <1>17 DEF IInv

LEMMA RebuildPreserves ==
    ASSUME IInv, Rebuild
    PROVE  IInv' /\ fsm'.state = fsm.state
<1> USE ThresholdAssumption
<1>1. /\ fsm \in FSM /\ history \in Seq(Samples) /\ Len(history) \in Nat
      /\ fsm' = Prime(fsm.state)
      /\ history' = history /\ since' = Len(history)
      /\ rebuilds' = rebuilds + 1 /\ rebuilds \in Nat
  BY DEF IInv, TypeOK, Rebuild
<1>2. TypeOK'
  BY <1>1 DEF TypeOK, Prime, FSM, DownFamily
<1>3. StreaksAreRuns'
  BY <1>1, EmptyRun DEF StreaksAreRuns, IsDown, LastAre, Prime, DownFamily
<1>4. RunsAreCounted'
  BY <1>1 DEF RunsAreCounted, Prime, LastAre, DownFamily
<1>5. StreaksDecideState'
  BY <1>1 DEF StreaksDecideState, IsDown, Prime, DownFamily
<1> QED  BY <1>1, <1>2, <1>3, <1>4, <1>5 DEF IInv, Prime

LEMMA StutterPreserves ==
    ASSUME IInv, UNCHANGED vars
    PROVE  IInv' /\ fsm' = fsm
BY DEF vars, IInv, TypeOK, StreaksAreRuns, RunsAreCounted, StreaksDecideState,
       IsDown, LastAre

THEOREM IInvHolds == Spec => []IInv
<1>1. IInv /\ [Next]_vars => IInv'
  BY ScorePreserves, RebuildPreserves, StutterPreserves DEF Next
<1> QED  BY InitIInv, <1>1, PTL DEF Spec

\* DeviceWatch is type correct.
THEOREM TypeCorrect == Spec => []TypeOK
BY IInvHolds, PTL DEF IInv

\* A single blip never pages: an outage needs DownConsecutive lost polls in a row.
THEOREM FlapSuppression == Spec => OutageNeedsARunOfLostPolls
<1>1. IInv /\ [Next]_vars =>
        [~IsDown /\ IsDown' => LastAre(DownConsecutive, {"lost"})']_vars
  BY ScorePreserves, RebuildPreserves DEF Next, IsDown
<1> QED  BY IInvHolds, <1>1, PTL DEF Spec, OutageNeedsARunOfLostPolls

\* An outage ends only on RecoverConsecutive answers in a row.
THEOREM RecoverySuppression == Spec => RecoveryNeedsARunOfAnswers
<1>1. IInv /\ [Next]_vars =>
        [IsDown /\ ~IsDown' =>
            /\ LastAre(RecoverConsecutive, {"poor", "good"})'
            /\ fsm'.state = "UP" => LastAre(RecoverConsecutive, {"good"})']_vars
  BY ScorePreserves, RebuildPreserves DEF Next, IsDown
<1> QED  BY IInvHolds, <1>1, PTL DEF Spec, RecoveryNeedsARunOfAnswers

\* A healthy device degrades only on DegradedConsecutive poor polls in a row.
THEOREM DegradedSuppression == Spec => DegradedNeedsARunOfPoorPolls
<1>1. IInv /\ [Next]_vars =>
        [fsm.state = "UP" /\ fsm'.state = "DEGRADED" =>
            LastAre(DegradedConsecutive, {"poor"})']_vars
  BY ScorePreserves, RebuildPreserves DEF Next
<1> QED  BY IInvHolds, <1>1, PTL DEF Spec, DegradedNeedsARunOfPoorPolls

\* DownConsecutive lost polls since the engine was built are an outage.
THEOREM PromptDetection == Spec => []LostRunIsAnOutage
<1>1. IInv => LostRunIsAnOutage
  BY ThresholdAssumption
     DEF IInv, TypeOK, FSM, RunsAreCounted, StreaksDecideState, LostRunIsAnOutage
<1> QED  BY IInvHolds, <1>1, PTL

\* RecoverConsecutive healthy polls since the engine was built clear the alarm.
THEOREM PromptRecovery == Spec => []HealthyRunIsUp
<1>1. IInv => HealthyRunIsUp
  BY ThresholdAssumption
     DEF IInv, TypeOK, FSM, RunsAreCounted, StreaksDecideState, HealthyRunIsUp
<1> QED  BY IInvHolds, <1>1, PTL

\* The three suppressions together.
THEOREM NoBlipCounts == Spec => ChangesNeedARun
BY FlapSuppression, RecoverySuppression, DegradedSuppression DEF ChangesNeedARun

\* Detection and recovery together.
THEOREM RunsCount == Spec => []RunsAreHeeded
BY PromptDetection, PromptRecovery, PTL DEF RunsAreHeeded
=============================================================================
