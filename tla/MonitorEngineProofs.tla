------------------------- MODULE MonitorEngineProofs -------------------------
(***************************************************************************)
(* Every property that TLC checks of MonitorEngine on three devices, for   *)
(* any devices, topology and thresholds; and those of the live ping beside *)
(* it, for any number of sessions, packets and faults.                     *)
(*                                                                         *)
(* The invariant speaks of the middle of a walk.  The devices walked so    *)
(* far are below those still to walk, and parents are below children: so   *)
(* what was committed for a device is never undone, and what it looked at  *)
(* in its parents stays as it was.                                         *)
(***************************************************************************)
EXTENDS MCMonitorEngine, FiniteSetTheorems, WellFoundedInduction, TLAPS

Walked == scope \ todo

\* The walk goes up.
Ascends == \A d \in Walked : \A e \in todo : d < e

\* The two state machines of a device, with and without suppression.
Twins(f, g) ==
    /\ f.down = g.down /\ f.nondown = g.nondown
    /\ f.degraded = g.degraded /\ f.healthy = g.healthy
    /\ f.state \in DownFamily <=> g.state \in DownFamily
    /\ f.state \notin DownFamily => f.state = g.state

TwinsAll == \A d \in Devices : Twins(fsm[d], lone[d])

\* The walked devices have the value of the closed form, the others the old one.
Partial ==
    \A d \in Devices :
        fsm[d] = IF d \in Walked
                 THEN Reclassified(Feed(before[d], results[d]),
                                   Shadowed(parents, Scored(before, results, scope), d))
                 ELSE before[d]

\* The category an open outage has to be in.
Told(state) == IF state \in DownFamily THEN state ELSE "none"

IInv == TypeOK /\ Ascends /\ TwinsAll /\ Partial /\ EventsTellTheState

-----------------------------------------------------------------------------
\* Scoring and suppressing a state machine gives a state machine.
LEMMA FeedType ==
    ASSUME NEW f \in FSM, NEW s \in Samples
    PROVE  /\ Feed(f, s) \in FSM
           /\ \A b \in BOOLEAN : Reclassified(Feed(f, s), b) \in FSM
<1>1. \A n \in 0..StreakCap : Bump(n) \in 0..StreakCap
  BY ThresholdAssumption DEF Bump
<1>2. Counted(f, s) \in FSM
  BY <1>1, ThresholdAssumption DEF Counted, FSM
<1>3. \A g \in FSM : Verdict(g) \in States
  BY DEF Verdict, Recovering, FSM, States
<1>4. Feed(f, s) \in FSM
  BY <1>2, <1>3 DEF Feed, FSM
<1>5. \A g \in FSM, b \in BOOLEAN : Reclassified(g, b) \in FSM
  BY DEF Reclassified, FSM, States
<1> QED BY <1>4, <1>5

\* So does priming one.
LEMMA PrimeType ==
    ASSUME NEW s \in States
    PROVE  Prime(s) \in FSM
BY ThresholdAssumption DEF Prime, FSM, States, DownFamily

\* Suppression keeps a state machine in the DOWN family or out of it.
LEMMA ReclassifiedFamily ==
    ASSUME NEW f \in FSM, NEW b \in BOOLEAN
    PROVE  /\ Reclassified(f, b).state \in DownFamily <=> f.state \in DownFamily
           /\ f.state \notin DownFamily => Reclassified(f, b) = f
BY DEF Reclassified, FSM, DownFamily

\* Twins stay twins, whatever the parents of one of them do.
LEMMA TwinsFeed ==
    ASSUME NEW f \in FSM, NEW g \in FSM, Twins(f, g),
           NEW s \in Samples, NEW b \in BOOLEAN
    PROVE  Twins(Reclassified(Feed(f, s), b), Feed(g, s))
<1> DEFINE cf == Counted(f, s)
           cg == Counted(g, s)
<1>1. cf \in FSM /\ cg \in FSM
  <2>1. \A n \in 0..StreakCap : Bump(n) \in 0..StreakCap
    BY ThresholdAssumption DEF Bump
  <2> QED BY <2>1, ThresholdAssumption DEF Counted, FSM
<1>2. Twins(cf, cg) /\ cf.state = f.state /\ cg.state = g.state
  BY DEF Twins, Counted, FSM
<1> HIDE DEF cf, cg
<1>3. /\ Verdict(cf) \in DownFamily <=> Verdict(cg) \in DownFamily
      /\ Verdict(cf) \notin DownFamily => Verdict(cf) = Verdict(cg)
  BY <1>1, <1>2, ThresholdAssumption DEF Verdict, Recovering, Twins, FSM, DownFamily
<1>4. Twins([cf EXCEPT !.state = Verdict(cf)], [cg EXCEPT !.state = Verdict(cg)])
  BY <1>1, <1>2, <1>3 DEF Twins, FSM
<1>5. Twins(Feed(f, s), Feed(g, s))
  BY <1>4 DEF Feed, cf, cg
<1>6. Feed(f, s) \in FSM
  BY FeedType
<1> QED BY <1>5, <1>6 DEF Twins, Reclassified, FSM, DownFamily

\* A rebuild primes twins to twins.
LEMMA TwinsPrime ==
    ASSUME NEW f \in FSM, NEW g \in FSM, Twins(f, g)
    PROVE  Twins(Prime(f.state), Prime(g.state))
BY DEF Twins, Prime, FSM, DownFamily, States

\* Entering the event of a change keeps the ledger in step with the state.
LEMMA EnteredTells ==
    ASSUME NEW led \in [Devices -> DownFamily \cup {"none"}], NEW d \in Devices,
           NEW prev \in States, NEW new \in States,
           led[d] = Told(prev)
    PROVE  /\ Entered(led, d, EventOf(prev, new)) \in [Devices -> DownFamily \cup {"none"}]
           /\ Entered(led, d, EventOf(prev, new))[d] = Told(new)
           /\ \A e \in Devices \ {d} : Entered(led, d, EventOf(prev, new))[e] = led[e]
<1>1. CASE prev \notin DownFamily /\ new \in DownFamily
  <2>1. EventOf(prev, new) = [kind |-> "opened", state |-> new]
    BY <1>1 DEF EventOf
  <2>2. Entered(led, d, EventOf(prev, new)) = [led EXCEPT ![d] = new]
    BY <1>1, <2>1 DEF Entered, Told
  <2> QED BY <1>1, <2>2 DEF Told
<1>2. CASE prev \in DownFamily /\ new \notin DownFamily
  <2>1. EventOf(prev, new) = [kind |-> "resolved", state |-> "UP"]
    BY <1>2 DEF EventOf
  <2>2. Entered(led, d, EventOf(prev, new)) = [led EXCEPT ![d] = "none"]
    BY <1>2, <2>1 DEF Entered
  <2> QED BY <1>2, <2>2 DEF Told
<1>3. CASE prev \in DownFamily /\ new \in DownFamily /\ prev # new
  <2>1. EventOf(prev, new) = [kind |-> "recategorized", state |-> new]
    BY <1>3 DEF EventOf
  <2>2. led[d] # "none"
    BY <1>3 DEF Told, DownFamily
  <2>3. Entered(led, d, EventOf(prev, new)) = [led EXCEPT ![d] = new]
    BY <1>3, <2>1, <2>2 DEF Entered
  <2> QED BY <1>3, <2>3 DEF Told
<1>4. CASE \/ prev \notin DownFamily /\ new \notin DownFamily
           \/ prev \in DownFamily /\ prev = new
  <2>1. EventOf(prev, new) = NoEvent
    BY <1>4 DEF EventOf
  <2>2. Entered(led, d, EventOf(prev, new)) = led
    BY <2>1 DEF Entered, NoEvent
  <2> QED BY <1>4, <2>2 DEF Told
<1> QED BY <1>1, <1>2, <1>3, <1>4

\* Whether a device is shadowed depends on the families of its parents alone.
LEMMA ShadowedSame ==
    ASSUME NEW par, NEW e1, NEW e2, NEW d,
           DOMAIN e1 = DOMAIN e2,
           \A p \in par[d] \cap DOMAIN e1 :
               e1[p].state \in DownFamily <=> e2[p].state \in DownFamily
    PROVE  Shadowed(par, e1, d) <=> Shadowed(par, e2, d)
BY DEF Shadowed

-----------------------------------------------------------------------------
LEMMA InitIInv == Init => IInv
<1> SUFFICES ASSUME Init PROVE IInv
  OBVIOUS
<1>1. Prime("UP") \in FSM /\ Prime("UP").state = "UP"
  BY PrimeType DEF States, Prime
<1>2. TypeOK
  BY <1>1 DEF Init, TypeOK, Samples
<1>3. Ascends /\ Walked = {}
  BY DEF Init, Ascends, Walked
<1>4. TwinsAll
  BY DEF Init, TwinsAll, Twins
<1>5. Partial
  BY <1>3 DEF Init, Partial
<1>6. EventsTellTheState
  BY <1>1 DEF Init, EventsTellTheState, DownFamily
<1> QED BY <1>2, <1>3, <1>4, <1>5, <1>6 DEF IInv

LEMMA BeginIInv ==
    ASSUME IInv, NEW S \in SUBSET Devices, NEW res \in [Devices -> Samples],
           BeginCycle(S, res)
    PROVE  IInv'
<1> USE DEF BeginCycle
<1>1. TypeOK'
  BY DEF IInv, TypeOK
<1>2. Walked' = {}
  BY DEF Walked
<1>3. Ascends'
  BY <1>2 DEF Ascends
<1>4. TwinsAll' /\ EventsTellTheState'
  BY DEF IInv, TwinsAll, EventsTellTheState
<1>5. Partial'
  BY <1>2 DEF Partial
<1> QED BY <1>1, <1>3, <1>4, <1>5 DEF IInv

LEMMA RebuildIInv ==
    ASSUME IInv, NEW par \in Topologies, Rebuild(par)
    PROVE  IInv'
<1> USE DEF Rebuild
<1>1. \A d \in Devices : /\ fsm[d] \in FSM /\ fsm[d].state \in States
                         /\ lone[d] \in FSM /\ lone[d].state \in States
  BY DEF IInv, TypeOK, FSM
<1>2. \A d \in Devices : Prime(fsm[d].state) \in FSM /\ Prime(lone[d].state) \in FSM
  BY <1>1, PrimeType
<1>3. TypeOK'
  BY <1>2 DEF IInv, TypeOK
<1>4. Walked' = {}
  BY DEF Walked
<1>5. Ascends' /\ Partial'
  BY <1>4 DEF Ascends, Partial
<1>6. TwinsAll'
  BY <1>1, TwinsPrime DEF IInv, TwinsAll
<1>7. EventsTellTheState'
  BY DEF IInv, EventsTellTheState, Prime
<1> QED BY <1>3, <1>5, <1>6, <1>7 DEF IInv

\* One round of the loop, for the device n whose turn it is.
LEMMA WalkIInv ==
    ASSUME IInv, NEW n \in Devices, Walk(n)
    PROVE  IInv'
<1> DEFINE fed == [fsm EXCEPT ![n] = Feed(@, results[n])]
           hid == Shadowed(parents, fed, n)
           new == Reclassified(fed[n], hid)
<1>1. /\ n \in todo /\ n \in scope /\ \A e \in todo : n <= e
      /\ fsm' = [fsm EXCEPT ![n] = new]
      /\ lone' = [lone EXCEPT ![n] = Feed(@, results[n])]
      /\ ledger' = Entered(ledger, n, EventOf(fsm[n].state, new.state))
      /\ todo' = todo \ {n}
      /\ UNCHANGED <<parents, scope, results, before>>
  BY DEF Walk, IsNext, IInv, TypeOK
<1>2. /\ fsm \in [Devices -> FSM] /\ lone \in [Devices -> FSM]
      /\ results \in [Devices -> Samples] /\ before \in [Devices -> FSM]
      /\ scope \subseteq Devices /\ Devices \subseteq Nat
      /\ parents \in [Devices -> SUBSET Devices]
      /\ \A d \in Devices : \A p \in parents[d] : p < d
  BY EngineAssumption DEF IInv, TypeOK, Topologies
<1>3. hid \in BOOLEAN
  BY DEF Shadowed
<1>4. fed[n] = Feed(fsm[n], results[n])
  BY <1>2
<1>5. new = Reclassified(Feed(fsm[n], results[n]), hid)
  BY <1>4
<1>6. new \in FSM /\ Feed(lone[n], results[n]) \in FSM
  BY <1>2, <1>3, <1>5, FeedType
<1>7. \A d \in Devices \ {n} : fsm'[d] = fsm[d] /\ lone'[d] = lone[d]
  BY <1>1, <1>2
<1>8. fsm'[n] = new /\ lone'[n] = Feed(lone[n], results[n])
  BY <1>1, <1>2
<1>9. Walked' = Walked \cup {n} /\ n \notin Walked
  BY <1>1 DEF Walked
<1>10. Ascends'
  BY <1>1, <1>2, <1>9 DEF Ascends, IInv, TypeOK
<1>11. TwinsAll'
  <2>1. Twins(new, Feed(lone[n], results[n]))
    BY <1>2, <1>3, <1>5, TwinsFeed DEF IInv, TwinsAll
  <2> QED BY <1>7, <1>8, <2>1 DEF IInv, TwinsAll
<1>12. /\ ledger' \in [Devices -> DownFamily \cup {"none"}]
       /\ ledger'[n] = Told(new.state)
       /\ \A e \in Devices \ {n} : ledger'[e] = ledger[e]
  <2>1. fsm[n].state \in States /\ new.state \in States
    BY <1>2, <1>6 DEF FSM
  <2>2. ledger[n] = Told(fsm[n].state)
    BY DEF IInv, EventsTellTheState, Told
  <2>3. ledger \in [Devices -> DownFamily \cup {"none"}]
    BY DEF IInv, TypeOK
  <2> HIDE DEF new
  <2> QED BY <1>1, <2>1, <2>2, <2>3, EnteredTells
<1>13. EventsTellTheState'
  BY <1>7, <1>8, <1>12 DEF IInv, EventsTellTheState, Told
<1>14. TypeOK'
  <2>1. fsm' \in [Devices -> FSM] /\ lone' \in [Devices -> FSM]
    BY <1>1, <1>2, <1>6
  <2> QED BY <1>1, <1>12, <2>1 DEF IInv, TypeOK
<1>15. hid <=> Shadowed(parents, Scored(before, results, scope), n)
  <2> DEFINE sco == Scored(before, results, scope)
  <2>1. DOMAIN fed = Devices /\ DOMAIN sco = Devices
    BY <1>2 DEF Scored
  <2>2. ASSUME NEW p \in parents[n] \cap Devices
        PROVE  fed[p].state \in DownFamily <=> sco[p].state \in DownFamily
    <3>1. p < n /\ p \notin todo /\ p # n
      BY <1>1, <1>2
    <3>2. fed[p] = fsm[p]
      BY <1>2, <3>1
    <3>3. sco[p] = IF p \in scope THEN Feed(before[p], results[p]) ELSE before[p]
      BY <1>2 DEF Scored
    <3>4. CASE p \in scope
      <4>1. p \in Walked
        BY <3>1, <3>4 DEF Walked
      <4>2. fsm[p] = Reclassified(Feed(before[p], results[p]), Shadowed(parents, sco, p))
        BY <4>1 DEF IInv, Partial
      <4>3. Feed(before[p], results[p]) \in FSM
        BY <1>2, FeedType
      <4>4. Shadowed(parents, sco, p) \in BOOLEAN
        BY DEF Shadowed
      <4> QED BY <3>2, <3>3, <3>4, <4>2, <4>3, <4>4, ReclassifiedFamily
    <3>5. CASE p \notin scope
      <4>1. fsm[p] = before[p]
        BY <3>5 DEF IInv, Partial, Walked
      <4> QED BY <3>2, <3>3, <3>5, <4>1
    <3> QED BY <3>4, <3>5
  <2> HIDE DEF fed, sco
  <2> QED BY <2>1, <2>2, ShadowedSame DEF hid, sco
<1>16. Partial'
  <2>1. before[n] = fsm[n]
    BY <1>9 DEF IInv, Partial
  <2>2. new = Reclassified(Feed(before[n], results[n]),
                           Shadowed(parents, Scored(before, results, scope), n))
    BY <1>3, <1>5, <1>15, <2>1 DEF Reclassified
  <2>3. ASSUME NEW d \in Devices
        PROVE  fsm'[d] = IF d \in Walked'
                         THEN Reclassified(Feed(before[d], results[d]),
                                 Shadowed(parents, Scored(before, results, scope), d))
                         ELSE before[d]
    <3> HIDE DEF new, hid, fed
    <3>1. CASE d = n
      BY <1>8, <1>9, <2>2, <3>1
    <3>2. CASE d # n
      <4>1. d \in Walked' <=> d \in Walked
        BY <1>9, <3>2
      <4> QED BY <1>7, <3>2, <4>1 DEF IInv, Partial
    <3> QED BY <3>1, <3>2
  <2> QED BY <1>1, <2>3 DEF Partial, Scored, Shadowed
<1> QED BY <1>10, <1>11, <1>13, <1>14, <1>16 DEF IInv

LEMMA StepIInv == IInv /\ [Next]_vars => IInv'
<1> SUFFICES ASSUME IInv, [Next]_vars PROVE IInv'
  OBVIOUS
<1>1. ASSUME NEW S \in SUBSET Devices, NEW r \in [S -> Observed],
             BeginCycle(S, [d \in Devices |-> IF d \in S THEN r[d] ELSE "lost"])
      PROVE  IInv'
  <2>1. [d \in Devices |-> IF d \in S THEN r[d] ELSE "lost"] \in [Devices -> Samples]
    BY EngineAssumption DEF Samples
  <2> QED BY <1>1, <2>1, BeginIInv
<1>2. ASSUME NEW d \in Devices, Walk(d) PROVE IInv'
  BY <1>2, WalkIInv
<1>3. ASSUME NEW par \in Topologies, Rebuild(par) PROVE IInv'
  BY <1>3, RebuildIInv
<1>4. CASE UNCHANGED vars
  BY <1>4 DEF vars, IInv, TypeOK, Ascends, Walked, TwinsAll, Partial, EventsTellTheState
<1> QED BY <1>1, <1>2, <1>3, <1>4 DEF Next

\* The invariant holds of every reachable state.
THEOREM IInvHolds == Spec => []IInv
BY InitIInv, StepIInv, PTL DEF Spec

-----------------------------------------------------------------------------
\* The engine's variables always have their types.
THEOREM TypeCorrect == Spec => []TypeOK
<1>1. IInv => TypeOK
  BY DEF IInv
<1> QED BY <1>1, IInvHolds, PTL

\* Suppression relabels outages and changes nothing else: with or without the
\* parents of process_cycle, the same devices are down for the same time.
THEOREM Neutrality == Spec => []SuppressionIsNeutral
<1>1. IInv => SuppressionIsNeutral
  <2> SUFFICES ASSUME IInv, NEW d \in Devices
               PROVE  /\ fsm[d].state \in DownFamily <=> lone[d].state \in DownFamily
                      /\ fsm[d].state \notin DownFamily => fsm[d] = lone[d]
    BY DEF SuppressionIsNeutral
  <2>1. Twins(fsm[d], lone[d]) /\ fsm[d] \in FSM /\ lone[d] \in FSM
    BY DEF IInv, TwinsAll, TypeOK
  <2> QED BY <2>1 DEF Twins, FSM
<1> QED BY <1>1, IInvHolds, PTL

\* The events of process_cycle lose nothing: a ledger fed by them alone always
\* agrees with the engine.
THEOREM EventsAreComplete == Spec => []EventsTellTheState
<1>1. IInv => EventsTellTheState
  BY DEF IInv
<1> QED BY <1>1, IInvHolds, PTL

\* The loop of process_cycle computes Cycle, the closed form that CentralBrain
\* and EdgeProbe use as one step.
THEOREM LoopIsTheCycle == Spec => []WalkIsTheCycle
<1>1. IInv => WalkIsTheCycle
  <2> SUFFICES ASSUME IInv, todo = {}
               PROVE  fsm = Cycle(parents, before, results, scope)
    BY DEF WalkIsTheCycle, CycleOver
  <2>1. /\ fsm \in [Devices -> FSM] /\ before \in [Devices -> FSM]
        /\ scope \subseteq Devices /\ Walked = scope
    BY DEF IInv, TypeOK, Walked
  <2> DEFINE sco == Scored(before, results, scope)
  <2>2. \A d \in scope : sco[d] = Feed(before[d], results[d])
    BY <2>1 DEF Scored
  <2>3. Cycle(parents, before, results, scope) =
          [d \in Devices |-> IF d \in scope
                             THEN Reclassified(sco[d], Shadowed(parents, sco, d))
                             ELSE before[d]]
    BY <2>1 DEF Cycle
  <2>4. \A d \in Devices : fsm[d] = IF d \in scope
                             THEN Reclassified(Feed(before[d], results[d]),
                                               Shadowed(parents, sco, d))
                             ELSE before[d]
    BY <2>1 DEF IInv, Partial
  <2> HIDE DEF sco
  <2> QED BY <2>1, <2>2, <2>3, <2>4
<1> QED BY <1>1, IInvHolds, PTL

\* After a cycle, what a device is now and what its own samples say of it are
\* the same family, and a device in scope is suppressed by the final states.
LEMMA AfterCycle ==
    ASSUME IInv, CycleOver
    PROVE  \A d \in scope :
              /\ Feed(before[d], results[d]) \in FSM
              /\ fsm[d] = Reclassified(Feed(before[d], results[d]), Shadowed(parents, fsm, d))
<1> DEFINE sco == Scored(before, results, scope)
<1>1. /\ fsm \in [Devices -> FSM] /\ before \in [Devices -> FSM]
      /\ results \in [Devices -> Samples]
      /\ scope \subseteq Devices /\ Walked = scope
  BY DEF IInv, TypeOK, Walked, CycleOver
<1>2. \A d \in scope : Feed(before[d], results[d]) \in FSM
  BY <1>1, FeedType
<1>3. \A d \in Devices : sco[d] = IF d \in scope THEN Feed(before[d], results[d]) ELSE before[d]
  BY <1>1 DEF Scored
<1>4. \A d \in Devices : fsm[d] = IF d \in scope
                           THEN Reclassified(Feed(before[d], results[d]),
                                             Shadowed(parents, sco, d))
                           ELSE before[d]
  BY <1>1 DEF IInv, Partial
<1>5. \A d \in Devices : Shadowed(parents, sco, d) \in BOOLEAN
  BY DEF Shadowed
<1>6. DOMAIN sco = Devices /\ DOMAIN fsm = Devices
  BY <1>1 DEF Scored
<1> HIDE DEF sco
<1>7. \A d \in Devices : sco[d].state \in DownFamily <=> fsm[d].state \in DownFamily
  <2> SUFFICES ASSUME NEW d \in Devices
               PROVE  sco[d].state \in DownFamily <=> fsm[d].state \in DownFamily
    OBVIOUS
  <2>1. CASE d \in scope
    BY <1>2, <1>3, <1>4, <1>5, <2>1, ReclassifiedFamily
  <2>2. CASE d \notin scope
    BY <1>3, <1>4, <2>2
  <2> QED BY <2>1, <2>2
<1>8. \A d \in Devices : Shadowed(parents, sco, d) <=> Shadowed(parents, fsm, d)
  BY <1>6, <1>7, ShadowedSame
<1>9. \A d \in Devices : Shadowed(parents, fsm, d) \in BOOLEAN
  BY DEF Shadowed
<1>10. \A d \in Devices : Shadowed(parents, sco, d) = Shadowed(parents, fsm, d)
  BY <1>5, <1>8, <1>9
<1> QED BY <1>1, <1>2, <1>4, <1>10

\* A device left DOWN by a cycle that scored it has no parent, or a live one.
THEOREM RootCauses == Spec => []RootCauseOnly
<1>1. IInv => RootCauseOnly
  <2> SUFFICES ASSUME IInv, CycleOver, NEW d \in scope, fsm[d].state = "DOWN"
               PROVE  \/ parents[d] = {}
                      \/ \E p \in parents[d] : fsm[p].state \notin DownFamily
    BY DEF RootCauseOnly
  <2>1. /\ Feed(before[d], results[d]) \in FSM
        /\ fsm[d] = Reclassified(Feed(before[d], results[d]), Shadowed(parents, fsm, d))
    BY AfterCycle
  <2>2. ~Shadowed(parents, fsm, d)
    BY <2>1 DEF Reclassified, FSM
  <2>3. /\ DOMAIN fsm = Devices /\ d \in Devices
        /\ parents[d] \subseteq Devices
    BY DEF IInv, TypeOK, Topologies
  <2> QED BY <2>2, <2>3 DEF Shadowed
<1> QED BY <1>1, IInvHolds, PTL

\* A dead device is called UNREACHABLE only while all its parents are down.
THEOREM ShadowsLift == Spec => []ShadowLifts
<1>1. IInv => ShadowLifts
  <2> SUFFICES ASSUME IInv, CycleOver, NEW d \in scope,
                      fsm[d].state = "UNREACHABLE", fsm[d].down >= DownConsecutive
               PROVE  /\ parents[d] # {}
                      /\ \A p \in parents[d] : fsm[p].state \in DownFamily
    BY DEF ShadowLifts
  <2> DEFINE c == Counted(before[d], results[d])
             f == Feed(before[d], results[d])
  <2>1. f \in FSM /\ fsm[d] = Reclassified(f, Shadowed(parents, fsm, d))
    BY AfterCycle
  <2>2. f.down = c.down /\ f.state = Verdict(c)
    BY DEF Feed, Counted
  <2> HIDE DEF c, f
  <2>3. f.down >= DownConsecutive
    BY <2>1 DEF Reclassified, FSM
  <2>4. f.state = "DOWN"
    BY <2>2, <2>3 DEF Verdict
  <2>5. Shadowed(parents, fsm, d)
    BY <2>1, <2>4 DEF Reclassified
  <2>6. /\ DOMAIN fsm = Devices /\ d \in Devices
        /\ parents[d] \subseteq Devices
    BY DEF IInv, TypeOK, Topologies
  <2> QED BY <2>5, <2>6 DEF Shadowed
<1> QED BY <1>1, IInvHolds, PTL

\* DOWN and UNREACHABLE together.
THEOREM ExactBlame == Spec => []BlameIsExact
BY RootCauses, ShadowsLift, PTL DEF BlameIsExact

\* Beside a ping, too, the engine is what it is by itself.
LEMMA WatchIsAnEngine == WatchSpec => Spec
<1>1. WatchInit => Init
  BY DEF WatchInit
<1>2. [WatchNext]_<<part, vars, pingVars>> => [Next]_vars
  BY DEF WatchNext, EngineMoves, PingMoves, vars
<1> QED BY <1>1, <1>2, PTL DEF WatchSpec, Spec

-----------------------------------------------------------------------------
(***************************************************************************)
(* The live ping.  Packets are numbered and come in on top, so what is at  *)
(* or below a number the session has come to is settled: that carries a    *)
(* cursor through answers that cross.                                      *)
(***************************************************************************)

\* The packets on their way are of sessions and of the budget.
Packets == L!Sids \X L!Numbers

\* What the hub and the probe have in hand.
HubInv ==
    /\ stage = [s \in L!Sids |-> stage[s]]
    /\ ring \in [L!Sids -> SUBSET L!Numbers]
    /\ outbox \subseteq Packets
    /\ call # L!Idle => /\ DOMAIN call \cap {"at", "batch"} = {"at", "batch"}
                        /\ call.batch \subseteq Packets

\* What the panel shows is what the session had up to the cursor.
ShownInv ==
    /\ cursor \in Nat
    /\ sidRef # L!None =>
          /\ sidRef \in L!Sids /\ cursor <= L!High(sidRef)
          /\ {n \in ring[sidRef] : n <= cursor} \subseteq shown
          /\ shown \subseteq ring[sidRef]

\* An answer that is on its way tells all there was after the cursor, which is still
\* the panel's.
AnswerInv ==
    /\ poll # L!NoPoll => poll.after = cursor
    /\ poll.at = "back" => poll.answer.cursor \in Nat
    /\ poll.at = "back" /\ poll.answer.sid # L!None =>
          /\ poll.answer.sid \in L!Sids
          /\ poll.answer.cursor <= L!High(poll.answer.sid)
          /\ poll.answer.samples =
                {n \in ring[poll.answer.sid] : poll.after < n /\ n <= poll.answer.cursor}

PingInv == HubInv /\ ShownInv /\ AnswerInv

-----------------------------------------------------------------------------
\* A set of numbers has a least one.
LEMMA LeastExists ==
    ASSUME NEW set \in SUBSET Nat, set # {}
    PROVE  \E m \in set : \A k \in set : m <= k
<1> DEFINE R == StrictSubsetOrdering(Nat)
           T == {0..k : k \in set}
<1>1. IsWellFoundedOn(R, FiniteSubsetsOf(Nat))
  BY FS_StrictSubsetOrderingWellFounded
<1>2. T \subseteq FiniteSubsetsOf(Nat) /\ T # {}
  <2>1. ASSUME NEW k \in set PROVE 0..k \in SUBSET Nat /\ IsFiniteSet(0..k)
    BY FS_Interval
  <2> QED BY <2>1 DEF FiniteSubsetsOf
<1> HIDE DEF R
<1>3. PICK x \in T : \A y \in T : ~(<<y, x>> \in R)
  <2> HIDE DEF T
  <2> QED BY <1>1, <1>2, WFMin
<1>4. PICK m \in set : x = 0..m
  OBVIOUS
<1>5. ASSUME NEW k \in set PROVE m <= k
  <2> SUFFICES ASSUME k < m PROVE FALSE
    OBVIOUS
  <2>1. 0..k \subseteq 0..m /\ 0..k # 0..m
    OBVIOUS
  <2>2. <<0..k, 0..m>> \in R
    BY <2>1 DEF R, StrictSubsetOrdering
  <2>3. 0..k \in T
    OBVIOUS
  <2> QED BY <1>3, <1>4, <2>2, <2>3
<1> QED BY <1>5

\* Of a bounded set of numbers, the greatest.
LEMMA MaxIsGreatest ==
    ASSUME NEW bound \in Nat, NEW set \in SUBSET (0..bound), set # {}
    PROVE  L!Max(set) \in set /\ \A n \in set : n <= L!Max(set)
<1> DEFINE down == {bound - n : n \in set}
<1>1. down \in SUBSET Nat /\ down # {}
  <2>1. ASSUME NEW n \in set PROVE bound - n \in Nat
    OBVIOUS
  <2> QED BY <2>1
<1>2. PICK k \in down : \A l \in down : k <= l
  <2> HIDE DEF down
  <2> QED BY <1>1, LeastExists
<1>3. PICK m \in set : k = bound - m
  OBVIOUS
<1>4. ASSUME NEW n \in set PROVE m >= n
  <2>1. bound - m <= bound - n
    BY <1>2, <1>3
  <2>2. m \in Int /\ n \in Int
    OBVIOUS
  <2> QED BY <2>1, <2>2
<1>5. m \in set /\ \A n \in set : m >= n
  BY <1>4
<1>6. L!Max(set) \in set /\ \A n \in set : L!Max(set) >= n
  BY <1>5 DEF L!Max
<1> QED BY <1>6

\* Of a set of numbers, the least.
LEMMA MinIsLeast ==
    ASSUME NEW set \in SUBSET Nat, set # {}
    PROVE  L!Min(set) \in set
BY LeastExists DEF L!Min

\* The number a session has come to: at least that of each of its packets, and one of them.
LEMMA HighIsHigh ==
    ASSUME NEW set \in SUBSET L!Numbers
    PROVE  /\ L!Max({0} \cup set) \in Nat
           /\ L!Max({0} \cup set) \in {0} \cup set
           /\ \A n \in set : n \in Nat /\ n <= L!Max({0} \cup set)
<1>1. MaxPackets \in Nat
  BY PingAssumption DEF L!PingAssumption
<1>2. {0} \cup set \in SUBSET (0..MaxPackets)
  BY <1>1 DEF L!Numbers
<1> DEFINE whole == {0} \cup set
<1>3. whole \in SUBSET (0..MaxPackets) /\ whole # {} /\ set \subseteq whole
  BY <1>2
<1>4. \A n \in 0..MaxPackets : n \in Nat
  OBVIOUS
<1>5. L!Max(whole) \in whole /\ \A n \in whole : n <= L!Max(whole)
  <2> HIDE DEF whole
  <2> QED BY <1>1, <1>3, MaxIsGreatest
<1> HIDE DEF whole
<1>6. L!Max(whole) \in Nat /\ \A n \in set : n \in Nat /\ n <= L!Max(whole)
  BY <1>3, <1>4, <1>5
<1> QED BY <1>5, <1>6 DEF whole

\* Packets come in above those a session has.
RingGrows ==
    /\ ring' \in [L!Sids -> SUBSET L!Numbers]
    /\ \A s \in L!Sids : /\ ring[s] \subseteq ring'[s]
                         /\ \A n \in ring'[s] \ ring[s] : n > L!High(s)

\* A number once come to is not lost, and nothing comes in below it.
LEMMA HighGrows ==
    ASSUME HubInv, RingGrows, NEW s \in L!Sids
    PROVE  /\ L!High(s) \in Nat /\ L!High(s)' \in Nat /\ L!High(s) <= L!High(s)'
           /\ \A n \in ring[s] : n \in Nat /\ n <= L!High(s)
           /\ \A n \in Nat : n <= L!High(s) => (n \in ring'[s] <=> n \in ring[s])
<1>1. ring[s] \in SUBSET L!Numbers /\ ring'[s] \in SUBSET L!Numbers
  BY DEF HubInv, RingGrows
<1> DEFINE h == L!Max({0} \cup ring[s])
           g == L!Max({0} \cup ring'[s])
<1>2. L!High(s) = h /\ L!High(s)' = g
  BY DEF L!High
<1>3. h \in Nat /\ h \in {0} \cup ring[s] /\ \A n \in ring[s] : n \in Nat /\ n <= h
  BY <1>1, HighIsHigh
<1>4. g \in Nat /\ \A n \in ring'[s] : n \in Nat /\ n <= g
  BY <1>1, HighIsHigh
<1> HIDE DEF h, g
<1>5. h <= g
  BY <1>3, <1>4 DEF RingGrows
<1>6. \A n \in Nat : n <= h => (n \in ring'[s] <=> n \in ring[s])
  BY <1>2, <1>3 DEF RingGrows
<1> QED BY <1>2, <1>3, <1>4, <1>5, <1>6

\* When the panel stands still, whatever the hub does leaves it right.
LEMMA PanelStands ==
    ASSUME PingInv, RingGrows, UNCHANGED <<sidRef, cursor, shown, poll>>
    PROVE  ShownInv' /\ AnswerInv'
<1>1. ShownInv'
  <2> SUFFICES ASSUME sidRef # L!None
               PROVE  /\ cursor <= L!High(sidRef)'
                      /\ {n \in ring'[sidRef] : n <= cursor} \subseteq shown
                      /\ shown \subseteq ring'[sidRef]
    BY DEF PingInv, ShownInv, L!High
  <2>1. sidRef \in L!Sids /\ cursor \in Nat /\ cursor <= L!High(sidRef)
    BY DEF PingInv, ShownInv
  <2>2. \A n \in ring'[sidRef] : n \in Nat
    BY <2>1, HighIsHigh DEF RingGrows
  <2> QED BY <2>1, <2>2, HighGrows DEF PingInv, ShownInv, RingGrows
<1>2. AnswerInv'
  <2> SUFFICES ASSUME poll.at = "back", poll.answer.sid # L!None
               PROVE  /\ poll.answer.cursor <= L!High(poll.answer.sid)'
                      /\ poll.answer.samples =
                            {n \in ring'[poll.answer.sid] :
                                poll.after < n /\ n <= poll.answer.cursor}
    BY DEF PingInv, AnswerInv, L!High
  <2>1. /\ poll.answer.sid \in L!Sids /\ poll.answer.cursor \in Nat
        /\ poll.answer.cursor <= L!High(poll.answer.sid)
    BY DEF PingInv, AnswerInv
  <2>2. \A n \in ring'[poll.answer.sid] : n \in Nat
    BY <2>1, HighIsHigh DEF RingGrows
  <2> QED BY <2>1, <2>2, HighGrows DEF PingInv, AnswerInv, RingGrows
<1> QED BY <1>1, <1>2

\* The hub's own operations.
LEMMA HubStands ==
    ASSUME HubInv, UNCHANGED <<ring, outbox, call>>,
           stage' = [s \in L!Sids |-> stage'[s]]
    PROVE  HubInv' /\ RingGrows
BY DEF HubInv, RingGrows

\* Starting and stopping change no packets.
LEMMA StartStands ==
    ASSUME HubInv, L!HubStart
    PROVE  UNCHANGED ring /\ stage' = [s \in L!Sids |-> stage'[s]]
BY DEF L!HubStart, L!Reap, L!Reaped

\* Stopping, too.
LEMMA StopStands ==
    ASSUME HubInv, NEW s, L!HubStop(s)
    PROVE  UNCHANGED ring /\ stage' = [t \in L!Sids |-> stage'[t]]
BY DEF L!HubStop, L!Reap, L!Reaped

\* What an exchange brings is above what is there, or is dropped.
LEMMA ExchangeGrows ==
    ASSUME HubInv, L!EdgeExchange
    PROVE  HubInv' /\ RingGrows
<1>1. call # L!Idle
  BY DEF L!EdgeExchange, L!Idle
<1>2. call.batch \subseteq Packets /\ DOMAIN call \cap {"at", "batch"} = {"at", "batch"}
  BY <1>1 DEF HubInv
<1>3. ASSUME NEW s \in L!Sids
      PROVE  /\ ring'[s] = ring[s] \cup L!Ingested(s)
             /\ L!Ingested(s) \subseteq L!Numbers
             /\ \A n \in L!Ingested(s) : n > L!High(s)
  BY <1>2 DEF L!EdgeExchange, L!Ingested, Packets
<1>4. ring' \in [L!Sids -> SUBSET L!Numbers]
  <2>1. ring' = [s \in L!Sids |-> ring[s] \cup L!Ingested(s)]
    BY DEF L!EdgeExchange
  <2> QED BY <1>3, <2>1 DEF HubInv
<1>5. stage' = [s \in L!Sids |-> stage'[s]]
  BY DEF L!EdgeExchange
<1>6. /\ outbox' = outbox /\ call' = [call EXCEPT !.at = "central"]
  BY DEF L!EdgeExchange
<1>7. DOMAIN call' = DOMAIN call /\ call'.batch = call.batch
  BY <1>2, <1>6
<1> QED BY <1>2, <1>3, <1>4, <1>5, <1>6, <1>7 DEF HubInv, RingGrows

\* What is on its way is forgotten, put back, or new.
LEMMA ReconcileKeeps ==
    ASSUME HubInv, NEW wanted, L!Reconcile(wanted), UNCHANGED <<stage, ring>>,
           call' = call \/ call' = L!Idle
    PROVE  HubInv' /\ RingGrows
BY DEF HubInv, RingGrows, L!Reconcile, L!Idle

\* Every step of a ping keeps the hub and the probe sound, and packets only come in on top.
LEMMA HubKeeps ==
    ASSUME HubInv, [L!Next]_pingVars
    PROVE  HubInv' /\ RingGrows
<1> USE DEF L!hub, L!edge, L!panel
<1>1. CASE UNCHANGED pingVars
  BY <1>1, HubStands DEF pingVars, HubInv
<1>2. ASSUME NEW s \in L!Sids,
             L!Elapse(s) \/ L!Forget(s) \/ L!ColleagueStops(s)
      PROVE  HubInv' /\ RingGrows
  <2>1. UNCHANGED <<ring, outbox, call>> /\ stage' = [t \in L!Sids |-> stage'[t]]
    BY <1>2, StopStands DEF L!Elapse, L!Forget, L!ColleagueStops, HubInv
  <2> QED BY <2>1, HubStands
<1>3. ASSUME NEW s \in L!Sids, L!Ping(s) PROVE HubInv' /\ RingGrows
  BY <1>3 DEF L!Ping, HubInv, RingGrows, Packets
<1>4. ASSUME NEW s \in L!Sids, L!PingerEnds(s) \/ L!Refuse(s) PROVE HubInv' /\ RingGrows
  BY <1>4, HubStands DEF L!PingerEnds, L!Refuse, HubInv
<1>5. CASE L!ColleagueStarts \/ L!Start
  BY <1>5, HubStands, StartStands DEF L!ColleagueStarts, L!Start
<1>6. CASE L!Notify \/ L!PollServed
  BY <1>6, HubStands DEF L!Notify, L!PollServed, L!Reap, L!Reaped
<1>7. CASE L!Exchange
  <2>1. /\ call' = [at |-> "wire", batch |-> outbox, refused |-> refusals]
        /\ outbox' = {} /\ UNCHANGED <<stage, ring>>
    BY <1>7 DEF L!Exchange
  <2> QED BY <2>1 DEF HubInv, RingGrows
<1>8. CASE L!EdgeExchange
  BY <1>8, ExchangeGrows
<1>9. CASE L!Answer
  <2>1. /\ call # L!Idle /\ UNCHANGED <<ring, outbox>>
        /\ call' = [at |-> "back", sessions |-> L!LiveSids, batch |-> call.batch,
                    refused |-> call.refused]
        /\ stage' = [t \in L!Sids |-> stage'[t]]
    BY <1>9 DEF L!Answer, L!Reap, L!Reaped, L!Idle
  <2> QED BY <2>1 DEF HubInv, RingGrows
<1>10. CASE L!ExchangeEnds
  BY <1>10, ReconcileKeeps DEF L!ExchangeEnds
<1>11. CASE L!ExchangeLost
  BY <1>11 DEF L!ExchangeLost, HubInv, RingGrows, L!Idle
<1>12. CASE L!StandDown
  BY <1>12, ReconcileKeeps DEF L!StandDown
<1>13. CASE L!EdgeRestarts
  BY <1>13 DEF L!EdgeRestarts, HubInv, RingGrows, L!Idle
<1>14. CASE L!CentralRestarts
  BY <1>14, HubStands DEF L!CentralRestarts
<1>15. CASE L!Poll \/ L!Effect \/ L!StartLands \/ L!StopLands \/ L!CallFails
  BY <1>15, HubStands DEF L!Poll, L!Effect, L!StartLands, L!StopLands, L!CallFails, HubInv
<1>16. CASE L!Stop
  BY <1>16, HubStands, StopStands DEF L!Stop
<1> QED
  BY <1>1, <1>2, <1>3, <1>4, <1>5, <1>6, <1>7, <1>8, <1>9, <1>10, <1>11, <1>12, <1>13,
     <1>14, <1>15, <1>16 DEF L!Next

-----------------------------------------------------------------------------
\* The list starts over.
LEMMA BeginsClean ==
    ASSUME HubInv', NEW s \in L!Sids \cup {L!None}, L!Begin(s)
    PROVE  ShownInv'
<1>1. ASSUME s \in L!Sids
      PROVE  /\ 0 <= L!High(s)' /\ {n \in ring'[s] : n <= 0} = {}
  <2>1. ring'[s] \in SUBSET L!Numbers
    BY <1>1 DEF HubInv
  <2>2. L!High(s)' \in Nat
    BY <2>1, HighIsHigh DEF L!High
  <2>3. \A n \in L!Numbers : ~(n <= 0)
    BY DEF L!Numbers
  <2> QED BY <2>1, <2>2, <2>3
<1>2. sidRef' = s /\ cursor' = 0 /\ shown' = {}
  BY DEF L!Begin
<1>3. L!High(sidRef)' = L!High(s)'
  BY <1>2 DEF L!High
<1> QED BY <1>1, <1>2, <1>3 DEF ShownInv

\* An answer to the request the panel made last.
LEMMA ServedAnswers ==
    ASSUME PingInv, HubInv', L!PollServed
    PROVE  AnswerInv'
<1> DEFINE readable == {s \in L!Sids : stage[s] \notin {"new", "gone"}}
<1>1. UNCHANGED <<ring, cursor>> /\ poll.at = "wire"
      /\ poll' = [at |-> "back", after |-> poll.after, answer |-> L!Read(poll.after)]
  BY DEF L!PollServed, L!Reap
<1>2. poll'.after = cursor'
  BY <1>1 DEF PingInv, AnswerInv, L!NoPoll
<1>3. CASE readable = {}
  BY <1>1, <1>2, <1>3 DEF AnswerInv, L!Read, L!NoAnswer
<1>4. CASE readable # {}
  <2>1. MaxSessions \in Nat /\ readable \in SUBSET (0..MaxSessions)
    BY PingAssumption DEF L!PingAssumption, L!Sids
  <2>2. PICK m \in L!Sids : m = L!Max(readable)
    BY <1>4, <2>1, MaxIsGreatest
  <2>3. L!Read(poll.after) =
          [sid |-> m, live |-> L!Live(m),
           samples |-> {n \in ring[m] : n > poll.after}, cursor |-> L!High(m)]
    BY <1>4, <2>2 DEF L!Read
  <2>4. ring[m] \in SUBSET L!Numbers
    BY <2>2 DEF PingInv, HubInv
  <2>5. L!High(m) \in Nat /\ \A n \in ring[m] : n \in Nat /\ n <= L!High(m)
    BY <2>4, HighIsHigh DEF L!High
  <2>6. L!High(m)' = L!High(m)
    BY <1>1 DEF L!High
  <2>7. poll.after \in Nat
    BY <1>1 DEF PingInv, AnswerInv, ShownInv, L!NoPoll
  <2>8. /\ poll'.answer.sid = m /\ poll'.answer.cursor = L!High(m)
        /\ poll'.answer.samples = {n \in ring[m] : n > poll.after}
        /\ poll'.after = poll.after
    BY <1>1, <2>3
  <2>9. poll'.answer.samples = {n \in ring[m] : poll.after < n /\ n <= L!High(m)}
    BY <2>5, <2>7, <2>8
  <2>10. L!High(poll.answer.sid)' = L!High(m)
    BY <2>6, <2>8 DEF L!High
  <2> QED BY <1>1, <1>2, <2>2, <2>5, <2>8, <2>9, <2>10 DEF AnswerInv
<1> QED BY <1>3, <1>4

\* An answer to the session the list is of continues it; to another starts it over.
LEMMA EffectShows ==
    ASSUME PingInv, HubInv', L!Effect
    PROVE  ShownInv' /\ AnswerInv'
<1>1. /\ UNCHANGED ring /\ poll' = L!NoPoll /\ poll.at = "back" /\ poll # L!NoPoll
  BY DEF L!Effect, L!hub, L!NoPoll
<1>2. AnswerInv'
  BY <1>1 DEF AnswerInv, L!NoPoll
<1>3. CASE poll.answer.sid # sidRef
  <2>1. L!Begin(poll.answer.sid)
    BY <1>3 DEF L!Effect
  <2>2. poll.answer.sid \in L!Sids \cup {L!None}
    BY <1>1 DEF PingInv, AnswerInv
  <2>3. PICK s \in L!Sids \cup {L!None} : s = poll.answer.sid
    BY <2>2
  <2>4. L!Begin(s)
    BY <2>1, <2>3
  <2> QED BY <1>2, <2>4, BeginsClean
<1>4. CASE poll.answer.sid = sidRef
  <2>1. L!Continue(poll.answer)
    BY <1>4 DEF L!Effect
  <2>2. /\ sidRef' = sidRef
        /\ cursor' = IF poll.answer.samples # {} THEN poll.answer.cursor ELSE cursor
        /\ shown' = shown \cup poll.answer.samples
    BY <2>1 DEF L!Continue
  <2>3. CASE sidRef = L!None
    <3>1. cursor' \in Nat
      BY <2>2, <2>3, <1>1, <1>4 DEF PingInv, ShownInv, AnswerInv
    <3> QED BY <1>2, <2>2, <2>3, <3>1 DEF ShownInv
  <2>4. CASE sidRef # L!None
    <3>1. /\ sidRef \in L!Sids /\ cursor \in Nat /\ cursor <= L!High(sidRef)
          /\ {n \in ring[sidRef] : n <= cursor} \subseteq shown
          /\ shown \subseteq ring[sidRef]
      BY <2>4 DEF PingInv, ShownInv
    <3>2. /\ poll.after = cursor
          /\ poll.answer.cursor \in Nat /\ poll.answer.cursor <= L!High(sidRef)
          /\ poll.answer.samples =
                {n \in ring[sidRef] : cursor < n /\ n <= poll.answer.cursor}
      BY <1>1, <1>4, <2>4 DEF PingInv, AnswerInv
    <3>3. ring[sidRef] \subseteq Nat
      BY <3>1 DEF PingInv, HubInv, L!Numbers
    <3>4. L!High(sidRef)' = L!High(sidRef)
      BY <1>1, <2>2 DEF L!High
    <3>5. cursor' \in Nat /\ cursor' <= L!High(sidRef)
      BY <2>2, <3>1, <3>2
    <3>6. {n \in ring[sidRef] : n <= cursor'} \subseteq shown'
      BY <2>2, <3>1, <3>2, <3>3
    <3>7. shown' \subseteq ring[sidRef]
      BY <2>2, <3>1, <3>2
    <3> QED BY <1>1, <1>2, <2>2, <3>1, <3>4, <3>5, <3>6, <3>7 DEF ShownInv
  <2> QED BY <2>3, <2>4
<1> QED BY <1>3, <1>4

\* Every step of a ping keeps the invariant.
LEMMA PanelKeeps ==
    ASSUME PingInv, [L!Next]_pingVars
    PROVE  PingInv'
<1>1. HubInv' /\ RingGrows
  BY HubKeeps DEF PingInv
<1> USE DEF L!hub, L!edge, L!panel
<1>2. ASSUME UNCHANGED <<sidRef, cursor, shown, poll>> PROVE PingInv'
  BY <1>1, <1>2, PanelStands DEF PingInv
<1>3. CASE UNCHANGED pingVars
  BY <1>2, <1>3 DEF pingVars
<1>4. CASE \E s \in L!Sids :
              \/ L!Elapse(s) \/ L!Forget(s) \/ L!ColleagueStops(s)
              \/ L!Ping(s) \/ L!PingerEnds(s) \/ L!Refuse(s)
  BY <1>2, <1>4
     DEF L!Elapse, L!Forget, L!ColleagueStops, L!Ping, L!PingerEnds, L!Refuse
<1>5. CASE L!ColleagueStarts \/ L!Notify \/ L!Exchange \/ L!EdgeExchange \/ L!Answer
  BY <1>2, <1>5 DEF L!ColleagueStarts, L!Notify, L!Exchange, L!EdgeExchange, L!Answer
<1>6. CASE L!ExchangeEnds \/ L!ExchangeLost \/ L!StandDown \/ L!EdgeRestarts
           \/ L!CentralRestarts
  BY <1>2, <1>6
     DEF L!ExchangeEnds, L!ExchangeLost, L!StandDown, L!EdgeRestarts, L!CentralRestarts
<1>7. CASE L!Start \/ L!Stop \/ L!CallFails
  BY <1>2, <1>7 DEF L!Start, L!Stop, L!CallFails
<1>8. CASE L!Poll \/ L!StopLands
  <2>1. /\ UNCHANGED <<ring, sidRef, cursor, shown>>
        /\ poll' = [at |-> "wire", after |-> cursor]
    BY <1>8 DEF L!Poll, L!StopLands, L!Asked
  <2>2. ShownInv'
    BY <2>1 DEF PingInv, ShownInv, L!High
  <2>3. AnswerInv'
    BY <2>1 DEF AnswerInv
  <2> QED BY <1>1, <2>2, <2>3 DEF PingInv
<1>9. CASE L!PollServed
  <2>1. UNCHANGED <<ring, sidRef, cursor, shown>>
    BY <1>9 DEF L!PollServed, L!Reap
  <2>2. ShownInv'
    BY <2>1 DEF PingInv, ShownInv, L!High
  <2> QED BY <1>1, <1>9, <2>2, ServedAnswers DEF PingInv
<1>10. CASE L!Effect
  BY <1>1, <1>10, EffectShows DEF PingInv
<1>11. CASE L!StartLands
  <2>1. PICK s \in L!Sids : s = pending
    BY <1>11 DEF L!StartLands
  <2>2. L!Begin(s) /\ poll' = [at |-> "wire", after |-> 0]
    BY <1>11, <2>1 DEF L!StartLands, L!Asked
  <2>3. ShownInv'
    BY <1>1, <2>2, BeginsClean
  <2>4. AnswerInv'
    BY <2>2 DEF AnswerInv, L!Begin
  <2> QED BY <1>1, <2>3, <2>4 DEF PingInv
<1> QED
  BY <1>3, <1>4, <1>5, <1>6, <1>7, <1>8, <1>9, <1>10, <1>11 DEF L!Next

\* A step of the whole is a step of the ping, or leaves it alone.
LEMMA PingMovesAlone ==
    ASSUME [WatchNext]_<<part, vars, pingVars>>
    PROVE  [L!Next]_pingVars
BY DEF WatchNext, EngineMoves, PingMoves

\* In the beginning nothing is there to show.
LEMMA PingStarts == L!Init => PingInv
<1> SUFFICES ASSUME L!Init PROVE PingInv
  OBVIOUS
<1> QED BY DEF L!Init, PingInv, HubInv, ShownInv, AnswerInv, L!NoPoll

\* The panel has every packet of its session up to its cursor and none of another, for any
\* number of sessions, packets and faults, whoever starts and stops sessions meanwhile
\* (live-ping.tsx, the effect on status.data).
THEOREM PacketsShow == WatchSpec => []NothingSkipped
<1>1. WatchInit => PingInv
  BY PingStarts DEF WatchInit
<1>2. PingInv /\ [WatchNext]_<<part, vars, pingVars>> => PingInv'
  BY PingMovesAlone, PanelKeeps
<1>3. PingInv => NothingSkipped
  BY DEF PingInv, ShownInv, NothingSkipped, L!NothingSkipped
<1> QED BY <1>1, <1>2, <1>3, PTL DEF WatchSpec

-----------------------------------------------------------------------------
\* A step after which no session that was over is live.
StaysOver ==
    \A s \in L!Sids : stage[s] \in {"missed", "late", "over", "gone"} => ~L!Live(s)'

\* Only a session nobody has started is started.
LEMMA StartsTheUnused ==
    ASSUME HubInv, L!HubStart
    PROVE  StaysOver
<1>1. CASE L!LiveSids # {}
  BY <1>1 DEF L!HubStart, L!Reap, L!Reaped, StaysOver, L!Live, L!Overdue
<1>2. CASE L!LiveSids = {}
  <2>1. L!Unused # {} /\ L!Unused \in SUBSET Nat
    BY <1>2 DEF L!HubStart, L!Unused, L!Sids
  <2>2. PICK u \in L!Unused : u = L!Joined
    BY <1>2, <2>1, MinIsLeast DEF L!Joined
  <2>3. stage' = [L!Reaped EXCEPT ![u] = "arming"] /\ stage[u] = "new"
    BY <1>2, <2>2 DEF L!HubStart, L!Unused
  <2> QED BY <2>3 DEF L!Reaped, StaysOver, L!Live, L!Overdue
<1> QED BY <1>1, <1>2

\* A stop ends what runs and starts nothing.
LEMMA StopEnds ==
    ASSUME HubInv, NEW t, L!HubStop(t)
    PROVE  StaysOver
BY DEF L!HubStop, L!Reap, L!Reaped, StaysOver, L!Live, L!Overdue, HubInv

\* No step brings a session back.
LEMMA PingStaysOver ==
    ASSUME HubInv, [L!Next]_pingVars
    PROVE  StaysOver
<1> USE DEF L!hub, L!edge, L!panel
<1>1. ASSUME UNCHANGED stage PROVE StaysOver
  BY <1>1 DEF StaysOver, L!Live
<1>2. CASE UNCHANGED pingVars
  BY <1>1, <1>2 DEF pingVars
<1>3. ASSUME NEW t \in L!Sids, L!Elapse(t) \/ L!Forget(t)
      PROVE  StaysOver
  BY <1>3 DEF L!Elapse, L!Forget, StaysOver, L!Live, HubInv
<1>4. ASSUME NEW t \in L!Sids, L!ColleagueStops(t) PROVE StaysOver
  BY <1>4, StopEnds DEF L!ColleagueStops
<1>5. ASSUME NEW t \in L!Sids, L!Ping(t) \/ L!PingerEnds(t) \/ L!Refuse(t)
      PROVE  StaysOver
  BY <1>1, <1>5 DEF L!Ping, L!PingerEnds, L!Refuse
<1>6. CASE L!ColleagueStarts \/ L!Start
  BY <1>6, StartsTheUnused DEF L!ColleagueStarts, L!Start
<1>7. CASE L!Notify \/ L!Answer \/ L!PollServed
  <2>1. L!Reap
    BY <1>7 DEF L!Notify, L!Answer, L!PollServed
  <2> QED BY <2>1 DEF L!Reap, L!Reaped, StaysOver, L!Live, L!Overdue
<1>8. CASE L!EdgeExchange
  BY <1>8 DEF L!EdgeExchange, StaysOver, L!Live, L!Arrived
<1>9. CASE L!CentralRestarts
  BY <1>9 DEF L!CentralRestarts, StaysOver, L!Live
<1>10. CASE L!Exchange \/ L!ExchangeEnds \/ L!ExchangeLost \/ L!StandDown \/ L!EdgeRestarts
  BY <1>1, <1>10
     DEF L!Exchange, L!ExchangeEnds, L!ExchangeLost, L!StandDown, L!EdgeRestarts
<1>11. CASE L!Poll \/ L!Effect \/ L!StartLands \/ L!StopLands \/ L!CallFails
  BY <1>1, <1>11 DEF L!Poll, L!Effect, L!StartLands, L!StopLands, L!CallFails
<1>12. CASE L!Stop
  BY <1>12, StopEnds DEF L!Stop
<1> QED
  BY <1>2, <1>3, <1>4, <1>5, <1>6, <1>7, <1>8, <1>9, <1>10, <1>11, <1>12 DEF L!Next

\* A session that has run out is never live again, for any number of sessions and faults,
\* packets however late and restarts of either end (central/liveping.py, LiveSession).
THEOREM OverStays == WatchSpec => OverIsOver
<1>1. WatchInit => PingInv
  BY PingStarts DEF WatchInit
<1>2. PingInv /\ [WatchNext]_<<part, vars, pingVars>> => PingInv'
  BY PingMovesAlone, PanelKeeps
<1>3. PingInv /\ [WatchNext]_<<part, vars, pingVars>> => [StaysOver]_(L!vars)
  BY PingMovesAlone, PingStaysOver DEF PingInv
<1>4. OverIsOver <=> [][StaysOver]_(L!vars)
  BY DEF OverIsOver, L!OverIsOver, StaysOver
<1> QED BY <1>1, <1>2, <1>3, <1>4, PTL DEF WatchSpec
=============================================================================
