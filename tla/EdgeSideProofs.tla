---------------------------- MODULE EdgeSideProofs ----------------------------
(***************************************************************************)
(* The edge side, proved: the safety of the uplink canary, of the recheck  *)
(* loop, of the supervisor and of the rollout, for any thresholds,         *)
(* releases, devices and nodes and for any number of faults.  A part at a  *)
(* time: the others stand still, so that each invariant speaks of the      *)
(* variables of its part only.                                             *)
(***************************************************************************)
EXTENDS MCEdgeSide, TLAPS

-----------------------------------------------------------------------------
\* A step of the whole is a step of each part, or leaves it alone.
LEMMA PartsMove ==
    ASSUME [Next]_vars
    PROVE  /\ [U!Next]_uplinkVars
           /\ [P!Next]_probeVars
           /\ [S!Next]_supervisorVars
           /\ [R!Next]_rolloutVars
BY DEF Next, vars, Uplink, Probe, Supervise, RollOut

-----------------------------------------------------------------------------
(***************************************************************************)
(* The uplink canary of one node.                                          *)
(***************************************************************************)

\* The page that the next report would send.
PageDue == IF offline # {} /\ ~active THEN 1 ELSE 0

\* The pages sent and the one that is due have each their loss or their rebuild.
UplinkInv ==
    /\ offline \in SUBSET UplinkNodes /\ active \in BOOLEAN
    /\ pages \in Nat /\ cuts \in Nat /\ rebuilds \in Nat
    /\ pages + PageDue <= cuts + rebuilds

\* No step of the uplink canary of a single node sends a page of its own accord: a
\* page becomes due with a loss or a rebuild, and is due no more once it is sent.
LEMMA UplinkStep ==
    ASSUME NEW node, UplinkNodes = {node}, UplinkInv, [U!Next]_uplinkVars
    PROVE  UplinkInv'
<1> USE DEF UplinkInv, PageDue
<1>1. CASE UNCHANGED uplinkVars
  BY <1>1 DEF uplinkVars
<1>2. CASE U!ReportDown(node)
  <2>1. CASE active
    BY <1>2, <2>1 DEF U!ReportDown
  <2>2. CASE ~active
    <3>1. /\ active' = TRUE /\ pages' = pages + 1 /\ UNCHANGED <<offline, cuts, rebuilds>>
      BY <1>2, <2>2 DEF U!ReportDown
    <3>2. PageDue = 1 /\ PageDue' = 0
      BY <1>2, <2>2, <3>1 DEF U!ReportDown
    <3> QED BY <3>1, <3>2
  <2> QED BY <2>1, <2>2
<1>3. CASE U!ReportUp(node)
  <2>1. /\ active' = FALSE /\ UNCHANGED <<offline, pages, cuts, rebuilds>>
    BY <1>3 DEF U!ReportUp
  <2>2. PageDue' = 0
    BY <1>3, <2>1 DEF U!ReportUp
  <2> QED BY <2>1, <2>2
<1>4. CASE U!Lose(node)
  BY <1>4 DEF U!Lose
<1>5. CASE U!Regain(node)
  BY <1>5 DEF U!Regain
<1>6. ASSUME NEW kind \in U!Kinds, U!Finish(kind) PROVE UplinkInv'
  BY <1>6 DEF U!Finish
<1>7. ASSUME NEW restart \in BOOLEAN, U!Rebuild(restart) PROVE UplinkInv'
  BY <1>7 DEF U!Rebuild
<1> QED BY <1>1, <1>2, <1>3, <1>4, <1>5, <1>6, <1>7 DEF U!Next, U!Report

\* An organisation with one node gets at most one UPLINK_DOWN page for a loss of its
\* uplink and one for an engine built anew, however often the node reports and
\* whenever pages are delivered and restarts lose them (state_machine.py
\* process_cycle). The run UplinkTwoNodes shows that it takes the single node.
THEOREM OnePage ==
    ASSUME \E node : UplinkNodes = {node}
    PROVE  Spec => []OnePagePerUplinkLoss
<1>1. PICK node : UplinkNodes = {node}
  OBVIOUS
<1>2. Init => UplinkInv
  <2> SUFFICES ASSUME Init PROVE UplinkInv
    OBVIOUS
  <2>1. offline = {} /\ active \in BOOLEAN
    BY DEF Init, U!Init
  <2>2. pages = 0 /\ cuts = 0 /\ rebuilds = 0
    BY DEF Init, U!Init
  <2>3. PageDue = 0
    BY <2>1 DEF PageDue
  <2> QED BY <2>1, <2>2, <2>3 DEF UplinkInv
<1>3. UplinkInv /\ [Next]_vars => UplinkInv'
  BY <1>1, PartsMove, UplinkStep
<1>4. UplinkInv => OnePagePerUplinkLoss
  BY DEF UplinkInv, PageDue, OnePagePerUplinkLoss, U!OnePagePerUplinkLoss
<1> QED BY <1>2, <1>3, <1>4, PTL DEF Spec

-----------------------------------------------------------------------------
(***************************************************************************)
(* The recheck loop.                                                       *)
(***************************************************************************)

\* The samples a suspect gave since the full report, that one included.
Sampled == P!Cap - rounds + 1

\* A dead device that is not down yet has lost them all, and too few to be down.
Dying(d) == /\ ~P!IsDown(d)
            /\ fsm[d].down >= Sampled /\ fsm[d].down < DownConsecutive

\* A device that is back and still down has answered them all, and too few to be up.
Rising(d) == /\ P!IsDown(d)
             /\ fsm[d].healthy >= Sampled /\ fsm[d].healthy < RecoverConsecutive

\* What central doubts of a device that stands still is what it does not know.
Doubted(d) ==
    IF d \in suspects
    THEN IF d \in dead THEN Dying(d) ELSE Rising(d)
    ELSE P!IsDown(d) <=> d \in dead

ProbeInv ==
    /\ dead \in SUBSET Probed /\ assigned \in SUBSET Probed /\ known \in SUBSET Probed
    /\ suspects \in SUBSET Probed /\ steady \in SUBSET Probed
    /\ fsm \in [Probed -> P!FSM]
    /\ phase \in {"fetch", "report", "recheck"} /\ rounds \in 0..P!Cap
    /\ settled \in BOOLEAN /\ (phase = "recheck" => ~settled)
    /\ phase = "recheck" => \A d \in assigned \cap known \cap steady : Doubted(d)
    /\ P!RecheckSettles

\* One more lost sample: down, or still dying.
LEMMA FeedLost ==
    ASSUME NEW f \in P!FSM, NEW g, g = P!Feed(f, "lost")
    PROVE  /\ g \in P!FSM
           /\ g.state \in P!DownFamily \/ (g.down < DownConsecutive /\ g.down = f.down + 1)
<1> DEFINE c == P!Counted(f, "lost")
<1> USE SideAssumption DEF P!ThresholdAssumption
<1>1. c \in P!FSM /\ c.state = f.state
  BY DEF P!Counted, P!FSM, P!Bump
<1>2. c.down = f.down + 1 \/ (c.down = f.down /\ f.down = StreakCap)
  BY DEF P!Counted, P!FSM, P!Bump
<1> HIDE DEF c
<1>3. P!Verdict(c) \in P!States
  BY <1>1 DEF P!Verdict, P!Recovering, P!States, P!FSM
<1>4. g = [c EXCEPT !.state = P!Verdict(c)]
  BY DEF P!Feed, c
<1>5. g \in P!FSM /\ g.down = c.down /\ g.state = P!Verdict(c)
  BY <1>1, <1>3, <1>4 DEF P!FSM
<1>6. c.down < DownConsecutive \/ P!Verdict(c) = "DOWN"
  BY <1>1 DEF P!Verdict, P!FSM
<1> QED BY <1>1, <1>2, <1>5, <1>6 DEF P!DownFamily, P!FSM

\* One more good sample: no longer down, or still rising.
LEMMA FeedGood ==
    ASSUME NEW f \in P!FSM, NEW g, g = P!Feed(f, "good")
    PROVE  /\ g \in P!FSM
           /\ g.state \in P!DownFamily =>
                 f.state \in P!DownFamily /\ g.healthy < RecoverConsecutive
                 /\ g.healthy = f.healthy + 1
<1> DEFINE c == P!Counted(f, "good")
<1> USE SideAssumption DEF P!ThresholdAssumption
<1>1. c \in P!FSM /\ c.state = f.state /\ c.down = 0
  BY DEF P!Counted, P!FSM, P!Bump
<1>2. c.healthy = f.healthy + 1 \/ (c.healthy = f.healthy /\ f.healthy = StreakCap)
  BY DEF P!Counted, P!FSM, P!Bump
<1> HIDE DEF c
<1>3. P!Verdict(c) \in P!States
  BY <1>1 DEF P!Verdict, P!Recovering, P!States, P!FSM
<1>4. g = [c EXCEPT !.state = P!Verdict(c)]
  BY DEF P!Feed, c
<1>5. g \in P!FSM /\ g.healthy = c.healthy /\ g.state = P!Verdict(c)
  BY <1>1, <1>3, <1>4 DEF P!FSM
<1>6. P!Verdict(c) \in P!DownFamily =>
        f.state \in P!DownFamily /\ c.healthy < RecoverConsecutive
  BY <1>1 DEF P!Verdict, P!Recovering, P!DownFamily, P!FSM
<1> QED BY <1>1, <1>2, <1>5, <1>6 DEF P!FSM

\* Without parents a cycle feeds the devices in its scope and nothing else.
LEMMA CycleFeeds ==
    ASSUME fsm \in [Probed -> P!FSM], NEW probed, NEW scope \in SUBSET Probed, NEW new,
           new = P!ScoredBy(probed, scope)
    PROVE  /\ new \in [Probed -> P!FSM]
           /\ \A d \in Probed \ scope : new[d] = fsm[d]
           /\ \A d \in scope :
                 new[d] = P!Feed(fsm[d], IF d \in probed \ dead THEN "good" ELSE "lost")
<1> DEFINE res == [d \in Probed |-> IF d \in probed \ dead THEN "good" ELSE "lost"]
           fed == P!Scored(fsm, res, scope)
<1>1. new = P!Cycle(P!NoParents, fsm, res, scope)
  BY DEF P!ScoredBy
<1>2. \A d \in Probed : ~P!Shadowed(P!NoParents, fed, d)
  BY DEF P!Shadowed, P!NoParents
<1>3. \A d \in Probed : P!Scored(fsm, res, scope)[d] =
         IF d \in scope THEN P!Feed(fsm[d], res[d]) ELSE fsm[d]
  BY DEF P!Scored
<1>4. \A d \in Probed : new[d] = IF d \in scope THEN P!Feed(fsm[d], res[d]) ELSE fsm[d]
  BY <1>1, <1>2, <1>3 DEF P!Cycle, P!Reclassified
<1>5. DOMAIN new = Probed /\ new = [d \in Probed |-> new[d]]
  BY <1>1 DEF P!Cycle
<1>6. \A d \in Probed : new[d] \in P!FSM
  BY <1>4, FeedLost, FeedGood
<1> QED BY <1>4, <1>5, <1>6


\* What one more sample leaves of a doubt: a dead device that is not down has lost
\* it as well, a live one that is down has answered it, and both too few yet.
LEMMA OneMoreSample ==
    ASSUME NEW f \in P!FSM, NEW isDead \in BOOLEAN, NEW n \in Nat, NEW g,
           g = P!Feed(f, IF isDead THEN "lost" ELSE "good"),
           IF isDead THEN f.down >= n ELSE f.healthy >= n
    PROVE  /\ isDead /\ g.state \notin P!DownFamily =>
                 g.down >= n + 1 /\ g.down < DownConsecutive
           /\ ~isDead /\ g.state \in P!DownFamily =>
                 g.healthy >= n + 1 /\ g.healthy < RecoverConsecutive
<1>1. f.down \in Nat /\ f.healthy \in Nat
  BY SideAssumption DEF P!FSM, P!ThresholdAssumption
<1>2. CASE isDead
  <2>1. g = P!Feed(f, "lost")
    BY <1>2
  <2> QED BY <1>1, <1>2, <2>1, FeedLost
<1>3. CASE ~isDead
  <2>1. g = P!Feed(f, "good")
    BY <1>3
  <2> QED BY <1>1, <1>3, <2>1, FeedGood
<1> QED BY <1>2, <1>3

\* A report or a round of rechecks that central hears, and whose directive reaches
\* the daemon: every device of its scope gave one sample more than before.
LEMMA DoubtIsFollowed ==
    ASSUME ProbeInv, NEW probed, NEW scope \in SUBSET Probed, NEW n \in Nat,
           fsm' = P!ScoredBy(probed, scope),
           suspects' = P!Suspects(fsm', probed, scope),
           UNCHANGED dead, Sampled' = n + 1,
           NEW d \in Probed,
           d \in scope => d \in probed /\ (IF d \in dead THEN fsm[d].down >= n
                                           ELSE fsm[d].healthy >= n),
           d \notin scope => (P!IsDown(d) <=> d \in dead)
    PROVE  Doubted(d)'
<1> USE DEF ProbeInv
<1>1. CASE d \notin scope
  <2>1. fsm'[d] = fsm[d] /\ d \notin suspects'
    BY <1>1, CycleFeeds DEF P!Suspects
  <2> QED BY <1>1, <2>1 DEF Doubted, P!IsDown
<1>2. CASE d \in scope
  <2>1. fsm'[d] = P!Feed(fsm[d], IF d \in dead THEN "lost" ELSE "good")
    BY <1>2, CycleFeeds
  <2>2. /\ d \in dead /\ fsm'[d].state \notin P!DownFamily =>
              fsm'[d].down >= n + 1 /\ fsm'[d].down < DownConsecutive
        /\ d \notin dead /\ fsm'[d].state \in P!DownFamily =>
              fsm'[d].healthy >= n + 1 /\ fsm'[d].healthy < RecoverConsecutive
    <3>1. fsm[d] \in P!FSM /\ (d \in dead) \in BOOLEAN
      OBVIOUS
    <3> QED BY <1>2, <2>1, <3>1, OneMoreSample
  <2>3. d \in suspects' <=> \/ fsm'[d].state \notin P!DownFamily /\ d \in dead
                            \/ fsm'[d].state \in P!DownFamily /\ d \notin dead
    BY <1>2 DEF P!Suspects
  <2> QED BY <2>2, <2>3 DEF Doubted, Dying, Rising, P!IsDown
<1> QED BY <1>1, <1>2

\* A full report asks for every device of the node again that it leaves in doubt.
LEMMA ReportSettles ==
    ASSUME ProbeInv, P!Report
    PROVE  ProbeInv'
<1> USE DEF ProbeInv
<1>1. fsm' = P!ScoredBy(known, assigned) /\ rounds' = P!Cap /\ settled' = FALSE
      /\ steady' = Probed /\ UNCHANGED <<dead, assigned, known>>
  BY DEF P!Report, P!world
<1>2. fsm' \in [Probed -> P!FSM]
  BY <1>1, CycleFeeds
<1>3. P!Cap \in Nat /\ P!Cap' = P!Cap
  BY SideAssumption DEF P!Cap, P!ThresholdAssumption
<1>4. \/ phase' = "recheck" /\ suspects' = P!Suspects(fsm', known, assigned)
      \/ phase' = "fetch" /\ suspects' = {}
  BY <1>1 DEF P!Report
<1>5. suspects' \in SUBSET Probed
  BY <1>4 DEF P!Suspects
<1>6. ASSUME phase' = "recheck", NEW d \in assigned \cap known
      PROVE  Doubted(d)'
  <2>1. suspects' = P!Suspects(fsm', known, assigned)
    BY <1>4, <1>6
  <2>2. Sampled' = 0 + 1
    BY <1>1, <1>3 DEF Sampled
  <2>3. fsm[d] \in P!FSM
    OBVIOUS
  <2>4. fsm[d].down >= 0 /\ fsm[d].healthy >= 0
    BY <2>3, SideAssumption DEF P!FSM, P!ThresholdAssumption
  <2> QED BY <1>1, <1>6, <2>1, <2>2, <2>4, DoubtIsFollowed
<1>7. rounds' \in 0..P!Cap'
  BY <1>1, <1>3
<1>8. \A d \in assigned' \cap known' \cap steady' : phase' = "recheck" => Doubted(d)'
  BY <1>1, <1>6
<1>9. P!RecheckSettles'
  BY <1>1 DEF P!RecheckSettles
<1> QED BY <1>1, <1>2, <1>4, <1>5, <1>7, <1>8, <1>9

\* A round of rechecks doubts no device that the one before did not.
LEMMA RecheckSettlesOn ==
    ASSUME ProbeInv, P!Recheck
    PROVE  ProbeInv'
<1> USE DEF ProbeInv
<1>1. phase = "recheck" /\ fsm' = P!ScoredBy(suspects, suspects)
      /\ settled = FALSE /\ rounds > 0
      /\ UNCHANGED <<dead, assigned, known, steady, settled>>
  BY DEF P!Recheck, P!world, P!history
<1>2. fsm' \in [Probed -> P!FSM]
  BY <1>1, CycleFeeds
<1>3. P!Cap \in Nat /\ P!Cap' = P!Cap
  BY SideAssumption DEF P!Cap, P!ThresholdAssumption
<1>4. \/ /\ phase' = "recheck" /\ suspects' = P!Suspects(fsm', suspects, suspects)
         /\ rounds' = rounds - 1
      \/ phase' = "fetch" /\ suspects' = {} /\ rounds' = rounds
  BY <1>1 DEF P!Recheck
<1>5. suspects' \in SUBSET Probed /\ rounds' \in 0..P!Cap
  BY <1>1, <1>3, <1>4 DEF P!Suspects
<1>6. ASSUME phase' = "recheck", NEW d \in assigned \cap known \cap steady
      PROVE  Doubted(d)'
  <2>1. suspects' = P!Suspects(fsm', suspects, suspects) /\ rounds' = rounds - 1
    BY <1>4, <1>6
  <2>2. Sampled \in Nat /\ Sampled' = Sampled + 1
    BY <1>3, <2>1 DEF Sampled
  <2>3. Doubted(d)
    BY <1>1
  <2>4. d \in suspects => IF d \in dead THEN fsm[d].down >= Sampled
                          ELSE fsm[d].healthy >= Sampled
    BY <2>3 DEF Doubted, Dying, Rising
  <2>5. d \notin suspects => (P!IsDown(d) <=> d \in dead)
    BY <2>3 DEF Doubted
  <2> QED BY <1>1, <2>1, <2>2, <2>4, <2>5, DoubtIsFollowed
<1> QED BY <1>1, <1>2, <1>4, <1>5, <1>6 DEF P!RecheckSettles

\* The loop that runs to its end has asked often enough.
LEMMA SettleSettles ==
    ASSUME ProbeInv, P!Settle
    PROVE  ProbeInv'
<1> USE DEF ProbeInv
<1>1. /\ phase = "recheck" /\ (suspects = {} \/ rounds = 0)
      /\ suspects' = {} /\ phase' = "fetch" /\ settled' = TRUE
      /\ UNCHANGED <<dead, assigned, fsm, known, rounds, steady>>
  BY DEF P!Settle, P!world, P!central
<1>2. ASSUME NEW d \in assigned \cap known \cap steady
      PROVE  P!IsDown(d) <=> d \in dead
  <2>1. Doubted(d)
    BY <1>1
  <2>2. fsm[d] \in P!FSM
    OBVIOUS
  <2>3. rounds = 0 => ~Dying(d) /\ ~Rising(d)
    BY <2>2, SideAssumption DEF Dying, Rising, Sampled, P!Cap, P!FSM, P!ThresholdAssumption
  <2> QED BY <1>1, <2>1, <2>3 DEF Doubted
<1>3. \A d \in Probed : P!IsDown(d)' <=> P!IsDown(d)
  BY <1>1 DEF P!IsDown
<1> QED BY <1>1, <1>2, <1>3 DEF P!RecheckSettles

\* What else happens: whatever moves while a doubt stands no longer stands still.
LEMMA OthersSettle ==
    ASSUME ProbeInv,
           \/ P!Fetch \/ P!ReportLost \/ P!RecheckLost \/ P!SetDeactivated \/ P!Restart
           \/ \E d \in Probed : P!Flip(d) \/ P!Reassign(d)
    PROVE  ProbeInv'
<1> USE DEF ProbeInv
<1>1. CASE P!Fetch
  <2>1. phase' = "report" /\ known' \in SUBSET Probed
        /\ UNCHANGED <<dead, assigned, fsm, suspects, rounds, steady, settled>>
    BY <1>1 DEF P!Fetch, P!Served, P!world, P!central, P!history
  <2> QED BY <2>1 DEF P!RecheckSettles, P!Cap
<1>2. CASE P!ReportLost
  <2>1. phase' = "fetch" /\ settled' = FALSE
        /\ UNCHANGED <<dead, assigned, fsm, known, suspects, rounds, steady>>
    BY <1>2 DEF P!ReportLost, P!world, P!central
  <2> QED BY <2>1 DEF P!RecheckSettles, P!Cap
<1>3. CASE P!RecheckLost
  <2>1. phase' = "fetch" /\ settled = FALSE /\ suspects' = {}
        /\ UNCHANGED <<dead, assigned, fsm, known, rounds, steady, settled>>
    BY <1>3 DEF P!RecheckLost, P!world, P!central, P!history
  <2> QED BY <2>1 DEF P!RecheckSettles, P!Cap
<1>4. CASE P!SetDeactivated
  <2>1. UNCHANGED <<dead, assigned, fsm, phase, known, suspects, rounds, steady, settled>>
    BY <1>4 DEF P!SetDeactivated, P!Edit, P!world, P!daemon, P!history
  <2> QED BY <2>1 DEF P!RecheckSettles, P!Cap, P!IsDown, Doubted, Dying, Rising, Sampled
<1>5. CASE P!Restart
  <2>1. phase' = "fetch" /\ settled' = FALSE /\ suspects' = {} /\ rounds' = 0
        /\ known' \in SUBSET Probed /\ UNCHANGED <<dead, assigned, fsm, steady>>
    BY <1>5 DEF P!Restart, P!Edit, P!Served, P!world
  <2>2. rounds' \in 0..P!Cap'
    BY <2>1, SideAssumption DEF P!Cap, P!ThresholdAssumption
  <2> QED BY <2>1, <2>2 DEF P!RecheckSettles
<1>6. ASSUME NEW d \in Probed, P!Flip(d) \/ P!Reassign(d) PROVE ProbeInv'
  <2>1. /\ steady' = steady \ {d}
        /\ dead' \in SUBSET Probed /\ assigned' \in SUBSET Probed
        /\ \A e \in Probed \ {d} : (e \in dead' <=> e \in dead)
                                   /\ (e \in assigned' <=> e \in assigned)
        /\ UNCHANGED <<fsm, phase, known, suspects, rounds, settled>>
    BY <1>6 DEF P!Flip, P!Reassign, P!Edit, P!world, P!central, P!daemon
  <2>2. \A e \in Probed \ {d} : /\ P!IsDown(e)' <=> P!IsDown(e)
                                /\ Doubted(e)' <=> Doubted(e)
    BY <2>1 DEF P!IsDown, Doubted, Dying, Rising, Sampled, P!Cap
  <2> QED BY <2>1, <2>2 DEF P!RecheckSettles, P!Cap
<1> QED BY <1>1, <1>2, <1>3, <1>4, <1>5, <1>6

\* A recheck loop that ran to its end leaves no doubt about a device that stood
\* still since the full report, whatever the thresholds: the cap on its rounds
\* (apps/daemon/main.py _follow_recheck) never cuts the confirmation of an outage or
\* of a recovery short.
THEOREM RechecksSettle == Spec => []RecheckSettles
<1>1. Init => ProbeInv
  <2> SUFFICES ASSUME Init PROVE ProbeInv
    OBVIOUS
  <2>1. /\ dead = {} /\ assigned \in SUBSET Probed /\ known = assigned
        /\ fsm = [d \in Probed |-> P!Prime("UP")]
        /\ phase = "fetch" /\ suspects = {} /\ rounds = 0
        /\ steady = {} /\ settled = FALSE
    BY DEF Init, P!Init
  <2>2. P!Prime("UP") \in P!FSM
    BY SideAssumption DEF P!Prime, P!FSM, P!States, P!DownFamily, P!ThresholdAssumption
  <2>3. 0 \in 0..P!Cap
    BY SideAssumption DEF P!Cap, P!ThresholdAssumption
  <2> QED BY <2>1, <2>2, <2>3 DEF ProbeInv, P!RecheckSettles
<1>2. ProbeInv /\ [Next]_vars => ProbeInv'
  <2> SUFFICES ASSUME ProbeInv, [Next]_vars PROVE ProbeInv'
    OBVIOUS
  <2>1. CASE UNCHANGED probeVars
    BY <2>1 DEF probeVars, ProbeInv, P!RecheckSettles, P!Cap, P!IsDown, Doubted, Dying,
                Rising, Sampled
  <2>2. CASE P!Next
    BY <2>2, ReportSettles, RecheckSettlesOn, SettleSettles, OthersSettle
       DEF P!Next, P!Loop
  <2> QED BY <2>1, <2>2, PartsMove
<1>3. ProbeInv => RecheckSettles
  BY DEF ProbeInv, RecheckSettles
<1> QED BY <1>1, <1>2, <1>3, PTL DEF Spec
-----------------------------------------------------------------------------
(***************************************************************************)
(* The supervisor and its files.                                           *)
(***************************************************************************)

\* The agent on disk is a release, and the one that runs. A download is put in its
\* place once it was verified, and the backup that a rollback may need is whole.
FilesAreSound ==
    /\ agent \in S!Releases
    /\ running \in {agent, S!None} /\ (pc = "rollback" => running = S!None)
    /\ request \in S!Releases \cup {S!None} /\ (pc = "download" => request # S!None)
    /\ pc = "verify" => download \in S!Releases \cup {S!Torn}
    /\ pc \in {"copy", "copying", "swap"} => download \in S!Releases
    /\ pc \in {"swap", "restart", "gate", "rollback"} => lkg \in S!Releases

\* A new agent is on trial.
OnTrial == pc \in {"restart", "gate", "rollback"}

\* Unless the power failed on a trial, the agent works, or it is on trial and the
\* backup works; or a call has raised after the swap, and what runs, if anything, does
\* not work and is not directed any more.
SomethingWorks ==
    \/ untried
    \/ /\ raised /\ agent \notin Works
       /\ pc = "unlink" \/ (pc = "loop" /\ request = S!None)
    \/ /\ ~OnTrial => agent \in Works
       /\ OnTrial \/ pc = "swap" => lkg \in Works

SupervisorInv == FilesAreSound /\ SomethingWorks

\* Every step of the supervisor, of the agent and of the power keeps the files sound
\* and something that works among them.
LEMMA SupervisorStep ==
    ASSUME SupervisorInv, [S!Next]_supervisorVars
    PROVE  SupervisorInv'
<1> USE SideAssumption DEF SupervisorInv, FilesAreSound, SomethingWorks, OnTrial,
        S!SupervisorAssumption, S!Releases, S!None, S!Torn
<1>1. CASE UNCHANGED supervisorVars
  BY <1>1 DEF supervisorVars
<1>2. CASE S!StartAgent
  BY <1>2 DEF S!StartAgent, S!bounds
<1>3. CASE S!ReadRequest
  BY <1>3 DEF S!ReadRequest, S!bounds
<1>4. CASE S!Download
  BY <1>4 DEF S!Download, S!bounds
<1>5. CASE S!Verify
  BY <1>5 DEF S!Verify, S!bounds
<1>6. CASE S!Copy
  BY <1>6 DEF S!Copy, S!bounds
<1>7. CASE S!Copied
  BY <1>7 DEF S!Copied, S!bounds
<1>8. CASE S!Swap
  BY <1>8 DEF S!Swap, S!bounds
<1>9. CASE S!Restart \/ S!RestartRaises \/ S!RollbackRaises
  <2>1. CASE S!Restart
    BY <2>1 DEF S!Restart, S!bounds
  <2>2. CASE S!RestartRaises
    BY <2>2 DEF S!RestartRaises
  <2>3. CASE S!RollbackRaises
    BY <2>3 DEF S!RollbackRaises
  <2> QED BY <1>9, <2>1, <2>2, <2>3
<1>10. CASE S!GatePassed
  BY <1>10 DEF S!GatePassed, S!bounds
<1>11. CASE S!GateFailed
  BY <1>11 DEF S!GateFailed, S!bounds
<1>12. CASE S!Rollback
  BY <1>12 DEF S!Rollback, S!bounds
<1>13. CASE S!Unlink
  BY <1>13 DEF S!Unlink, S!bounds
<1>14. CASE S!Exit
  BY <1>14 DEF S!Exit, S!bounds
<1>15. ASSUME NEW target \in S!Releases, S!Directed(target) PROVE SupervisorInv'
  BY <1>15 DEF S!Directed, S!bounds
<1>16. CASE S!PowerLoss
  BY <1>16 DEF S!PowerLoss
<1> QED BY <1>1, <1>2, <1>3, <1>4, <1>5, <1>6, <1>7, <1>8, <1>9, <1>10, <1>11, <1>12,
           <1>13, <1>14, <1>15, <1>16 DEF S!Next, S!Loop

\* Whenever the power fails, whatever arrives and whatever central asks for, the agent
\* on disk is a whole, verified release; and what a rollback restores works, unless
\* the power had failed on an agent still on trial (runtime/supervisor.py apply).
THEOREM SoundDisk == Spec => []DiskIsSound
<1>1. Init => SupervisorInv
  BY SideAssumption DEF Init, S!Init, SupervisorInv, FilesAreSound, SomethingWorks,
     OnTrial, S!SupervisorAssumption, S!Releases, S!None
<1>2. SupervisorInv /\ [Next]_vars => SupervisorInv'
  BY PartsMove, SupervisorStep
<1>3. SupervisorInv => DiskIsSound
  BY DEF SupervisorInv, FilesAreSound, SomethingWorks, OnTrial, S!Releases, S!Torn,
     DiskIsSound, S!DiskIsSound, S!AgentIsIntact, S!RollbackRestoresAWorkingAgent
<1> QED BY <1>1, <1>2, <1>3, PTL DEF Spec

-----------------------------------------------------------------------------
(***************************************************************************)
(* Rollouts.                                                               *)
(***************************************************************************)

\* The release of a rollout was proved by its canaries, or it has none; or a verdict on
\* another rollout was written on its row.
Backed(ro) == ro.canary # {} => ro.target \in proven \cup overtaken

\* What a handler is about to write has the canaries of the rollout it read behind it,
\* and so has what is written; and the nodes a row lets in first were chosen.
RolloutInv ==
    /\ rollout \in R!Rollouts /\ latest \in R!Releases
    /\ at \in [Fleet -> {"idle", "auto", "arm", "evaluate", "advance", "direct"}]
    /\ verdict \in [Fleet -> R!Rollouts]
    /\ DOMAIN update = Fleet /\ update = [n \in Fleet |-> update[n]]
    /\ rollout.target = 0 \/ R!FirstOnes(rollout) \subseteq chosen
    /\ rollout.state \in {"promoted", "done"} => Backed(rollout)
    /\ \A n \in Fleet : at[n] = "arm" => verdict[n].state = "canary"
    /\ \A n \in Fleet :
          at[n] = "advance" /\ verdict[n].state \in {"promoted", "done"} => Backed(verdict[n])
    /\ R!OnlyCanariesTryIt

\* What has been proved, chosen or overtaken stays so.
Grow == proven \subseteq proven' /\ chosen \subseteq chosen' /\ overtaken \subseteq overtaken'

\* Rollout, verdicts and requests that stay, or go, keep the invariant.
LEMMA RolloutAside ==
    ASSUME RolloutInv, Grow, UNCHANGED verdict, latest' \in R!Releases,
           at' \in [Fleet -> {"idle", "auto", "arm", "evaluate", "advance", "direct"}],
           \A n \in Fleet : at'[n] \in {"arm", "advance"} => at'[n] = at[n],
           rollout' \in R!Rollouts, rollout'.state = rollout.state,
           rollout'.target = rollout.target, rollout'.canary = rollout.canary,
           update' = [n \in Fleet |-> update'[n]], DOMAIN update' = Fleet,
           \A n \in Fleet : update'[n] \in {update[n], 0}
    PROVE  RolloutInv'
<1>1. R!FirstOnes(rollout)' = R!FirstOnes(rollout)
  BY DEF R!FirstOnes
<1>2. R!OnlyCanariesTryIt'
  BY DEF RolloutInv, R!OnlyCanariesTryIt, Grow
<1>3. Backed(rollout) => Backed(rollout)'
  BY DEF Backed, Grow
<1>4. \A n \in Fleet : Backed(verdict[n]) => Backed(verdict[n])'
  BY DEF Backed, Grow
<1> HIDE DEF R!Rollouts
<1>5. \A n \in Fleet : at'[n] = "advance" /\ verdict'[n].state \in {"promoted", "done"}
                          => Backed(verdict[n])'
  BY <1>4 DEF RolloutInv
<1>6. rollout'.target = 0 \/ R!FirstOnes(rollout)' \subseteq chosen'
  BY <1>1 DEF RolloutInv, Grow
<1> QED BY <1>2, <1>3, <1>5, <1>6 DEF RolloutInv

\* The heartbeat handlers write no verdict but the one the canaries have given.
LEMMA HandlersKeepRollout ==
    ASSUME RolloutInv, NEW n \in Fleet, R!Heartbeat(n) \/ R!Handle(n)
    PROVE  RolloutInv'
<1> USE DEF R!fleetdb, R!handler, R!node, R!history
<1>1. CASE R!Heartbeat(n)
  <2>1. /\ UNCHANGED <<rollout, proven, chosen, overtaken, verdict, update, latest>>
        /\ at' = [at EXCEPT ![n] = IF auto THEN "auto" ELSE "evaluate"]
    BY <1>1 DEF R!Heartbeat
  <2> QED BY <2>1, RolloutAside DEF RolloutInv, Grow
<1>2. CASE R!AutoCheck(n)
  <2>1. UNCHANGED <<rollout, proven, chosen, overtaken, update, latest>>
    BY <1>2 DEF R!AutoCheck
  <2>2. CASE R!ArmsItself(n)
    <3>1. /\ verdict' = [verdict EXCEPT ![n] = R!Armed(latest, {n})]
          /\ at' = [at EXCEPT ![n] = "arm"]
      BY <1>2, <2>2 DEF R!AutoCheck
    <3>2. R!Armed(latest, {n}) \in R!Rollouts /\ R!Armed(latest, {n}).state = "canary"
      BY DEF R!Armed, R!Rollouts, RolloutInv
    <3> HIDE DEF R!Rollouts
    <3>3. verdict' \in [Fleet -> R!Rollouts]
      BY <3>1, <3>2 DEF RolloutInv
    <3>4. \A m \in Fleet : at'[m] = "arm" => verdict'[m].state = "canary"
      BY <3>1, <3>2 DEF RolloutInv
    <3>5. \A m \in Fleet : at'[m] = "advance" => at[m] = "advance" /\ verdict'[m] = verdict[m]
      BY <3>1 DEF RolloutInv
    <3>6. at' \in [Fleet -> {"idle", "auto", "arm", "evaluate", "advance", "direct"}]
      BY <3>1 DEF RolloutInv
    <3> QED BY <2>1, <3>3, <3>4, <3>5, <3>6 DEF RolloutInv, Backed, R!FirstOnes,
               R!OnlyCanariesTryIt
  <2>3. CASE ~R!ArmsItself(n)
    <3>1. at' = [at EXCEPT ![n] = "evaluate"] /\ UNCHANGED verdict
      BY <1>2, <2>3 DEF R!AutoCheck
    <3> QED BY <2>1, <3>1, RolloutAside DEF RolloutInv, Grow
  <2> QED BY <2>2, <2>3
<1>3. CASE R!AutoArm(n)
  <2>1. /\ UNCHANGED <<proven, overtaken, update, latest>>
        /\ rollout' = verdict[n] /\ at[n] = "arm"
        /\ chosen' = chosen \cup R!FirstOnes(verdict[n])
        /\ at' = [at EXCEPT ![n] = "evaluate"]
        /\ verdict' = [verdict EXCEPT ![n] = R!NoRollout]
    BY <1>3 DEF R!AutoArm
  <2>2. R!NoRollout \in R!Rollouts
    BY SideAssumption DEF R!NoRollout, R!Rollouts, R!Releases, R!RolloutAssumption, R!Terminal
  <2>3. rollout' \in R!Rollouts /\ rollout'.state = "canary"
    BY <2>1 DEF RolloutInv
  <2>4. R!FirstOnes(rollout)' \subseteq chosen'
    BY <2>1 DEF R!FirstOnes
  <2> HIDE DEF R!Rollouts
  <2>5. /\ verdict' \in [Fleet -> R!Rollouts]
        /\ at' \in [Fleet -> {"idle", "auto", "arm", "evaluate", "advance", "direct"}]
        /\ \A m \in Fleet : at'[m] \in {"arm", "advance"} =>
                at[m] = at'[m] /\ verdict'[m] = verdict[m]
    BY <2>1, <2>2 DEF RolloutInv
  <2>6. R!OnlyCanariesTryIt'
    BY <2>1 DEF RolloutInv, R!OnlyCanariesTryIt
  <2> QED BY <2>1, <2>3, <2>4, <2>5, <2>6 DEF RolloutInv, Backed
<1>4. CASE R!Evaluate(n)
  <2>1. /\ UNCHANGED <<rollout, chosen, overtaken, update, latest>>
        /\ at[n] = "evaluate" /\ proven \subseteq proven'
    BY <1>4 DEF R!Evaluate
  <2>2. CASE R!Advance = rollout.state
    <3>1. at' = [at EXCEPT ![n] = "direct"] /\ UNCHANGED verdict
      BY <1>4, <2>2 DEF R!Evaluate
    <3> QED BY <2>1, <3>1, RolloutAside DEF RolloutInv, Grow
  <2>3. CASE R!Advance # rollout.state
    <3>1. /\ at' = [at EXCEPT ![n] = "advance"]
          /\ verdict' = [verdict EXCEPT ![n] = [rollout EXCEPT !.state = R!Advance]]
      BY <1>4, <2>3 DEF R!Evaluate
    <3> DEFINE new == [rollout EXCEPT !.state = R!Advance]
    <3>2. R!Advance \in {"promoted", "halted", "done"}
      BY <2>3 DEF R!Advance
    <3>3. /\ new \in R!Rollouts /\ new.state = R!Advance
          /\ new.target = rollout.target /\ new.canary = rollout.canary
      BY <3>2 DEF RolloutInv, R!Rollouts, R!Terminal
    <3>4. Backed(new)' \/ R!Advance = "halted"
      <4>1. CASE R!Advance = "promoted"
        <5>1. rollout.state = "canary" /\ \A m \in rollout.canary : R!OnTargetAlive(m)
          BY <2>3, <4>1 DEF R!Advance
        <5>2. rollout.canary # {} => rollout.target \in proven'
          BY <1>4, <5>1 DEF R!Evaluate
        <5>3. new'.target = rollout.target /\ new'.canary = rollout.canary
          <6>1. new' = [rollout EXCEPT !.state = R!Advance']
            BY <2>1
          <6> QED BY <6>1 DEF RolloutInv, R!Rollouts
        <5> QED BY <5>2, <5>3 DEF Backed
      <4>2. CASE R!Advance = "done"
        <5>1. rollout.state = "promoted"
          BY <2>3, <4>2 DEF R!Advance
        <5>2. new'.target = rollout.target /\ new'.canary = rollout.canary
          <6>1. new' = [rollout EXCEPT !.state = R!Advance']
            BY <2>1
          <6> QED BY <6>1 DEF RolloutInv, R!Rollouts
        <5> QED BY <2>1, <5>1, <5>2 DEF RolloutInv, Backed
      <4> QED BY <3>2, <4>1, <4>2
    <3>5. verdict'[n] = new /\ at'[n] = "advance"
      BY <3>1 DEF RolloutInv
    <3>6. R!Advance # "halted" => Backed(verdict[n])'
      <4>1. verdict'[n].target = rollout.target /\ verdict'[n].canary = rollout.canary
        BY <3>3, <3>5
      <4>2. new'.target = rollout.target /\ new'.canary = rollout.canary
        <5>1. new' = [rollout EXCEPT !.state = R!Advance']
          BY <2>1
        <5> QED BY <5>1 DEF RolloutInv, R!Rollouts
      <4> QED BY <3>4, <4>1, <4>2 DEF Backed
    <3>7. \A m \in Fleet \ {n} : verdict'[m] = verdict[m] /\ at'[m] = at[m]
      BY <3>1 DEF RolloutInv
    <3> HIDE DEF R!Rollouts, new
    <3>8. /\ verdict' \in [Fleet -> R!Rollouts]
          /\ at' \in [Fleet -> {"idle", "auto", "arm", "evaluate", "advance", "direct"}]
      BY <3>1, <3>3, <3>5 DEF RolloutInv, new
    <3>9. \A m \in Fleet :
              at'[m] = "advance" /\ verdict'[m].state \in {"promoted", "done"}
              => Backed(verdict[m])'
      <4>1. \A m \in Fleet : Backed(verdict[m]) /\ m # n => Backed(verdict[m])'
        BY <2>1, <3>7 DEF Backed
      <4> QED BY <3>3, <3>5, <3>6, <3>7, <4>1 DEF RolloutInv
    <3>10. \A m \in Fleet : at'[m] = "arm" => verdict'[m].state = "canary"
      BY <3>5, <3>7 DEF RolloutInv
    <3>11. R!OnlyCanariesTryIt'
      BY <2>1 DEF RolloutInv, R!OnlyCanariesTryIt
    <3> QED BY <2>1, <3>8, <3>9, <3>10, <3>11 DEF RolloutInv, Backed, R!FirstOnes
  <2> QED BY <2>2, <2>3
<1>5. CASE R!RecordState(n)
  <2>1. /\ UNCHANGED <<proven, chosen, update, latest>>
        /\ rollout' = [rollout EXCEPT !.state = verdict[n].state] /\ at[n] = "advance"
        /\ overtaken \subseteq overtaken'
        /\ \/ verdict[n].target = rollout.target /\ verdict[n].canary = rollout.canary
           \/ rollout.target \in overtaken'
        /\ at' = [at EXCEPT ![n] = "direct"]
        /\ verdict' = [verdict EXCEPT ![n] = R!NoRollout]
    BY <1>5 DEF R!RecordState
  <2>2. R!NoRollout \in R!Rollouts
    BY SideAssumption DEF R!NoRollout, R!Rollouts, R!Releases, R!RolloutAssumption, R!Terminal
  <2>3. /\ rollout' \in R!Rollouts /\ rollout'.state = verdict[n].state
        /\ rollout'.target = rollout.target /\ rollout'.canary = rollout.canary
    BY <2>1 DEF RolloutInv, R!Rollouts
  <2> HIDE DEF R!Rollouts
  <2>4. /\ verdict' \in [Fleet -> R!Rollouts]
        /\ at' \in [Fleet -> {"idle", "auto", "arm", "evaluate", "advance", "direct"}]
        /\ \A m \in Fleet : at'[m] \in {"arm", "advance"} =>
                at[m] = at'[m] /\ verdict'[m] = verdict[m]
    BY <2>1, <2>2 DEF RolloutInv
  <2>5. rollout'.state \in {"promoted", "done"} => Backed(rollout)'
    BY <2>1, <2>3 DEF RolloutInv, Backed
  <2>6. R!OnlyCanariesTryIt'
    BY <2>1 DEF RolloutInv, R!OnlyCanariesTryIt
  <2>7. \A m \in Fleet : Backed(verdict[m]) /\ verdict'[m] = verdict[m] => Backed(verdict[m])'
    BY <2>1 DEF Backed
  <2> QED BY <2>1, <2>3, <2>4, <2>5, <2>6, <2>7 DEF RolloutInv, R!FirstOnes
<1>6. CASE R!Direct(n)
  <2>1. /\ UNCHANGED <<rollout, proven, chosen, overtaken, verdict, latest>>
        /\ at' = [at EXCEPT ![n] = "idle"]
        /\ \/ UNCHANGED update
           \/ R!Directive(n) # 0 /\ update' = [update EXCEPT ![n] = R!Directive(n)]
    BY <1>6 DEF R!Direct
  <2>2. CASE UNCHANGED update
    BY <2>1, <2>2, RolloutAside DEF RolloutInv, Grow
  <2>3. CASE R!Directive(n) # 0 /\ update' = [update EXCEPT ![n] = R!Directive(n)]
    <3>1. /\ R!Directive(n) = rollout.target
          /\ rollout.state = "promoted" \/ n \in rollout.canary
      BY <2>3 DEF R!Directive
    <3>2. <<n, rollout.target>> \in chosen \/ rollout.target \in proven \cup overtaken
      BY <2>3, <3>1 DEF RolloutInv, Backed, R!FirstOnes
    <3>3. R!OnlyCanariesTryIt'
      BY <2>1, <2>3, <3>1, <3>2 DEF RolloutInv, R!OnlyCanariesTryIt
    <3>4. /\ at' \in [Fleet -> {"idle", "auto", "arm", "evaluate", "advance", "direct"}]
          /\ \A m \in Fleet : at'[m] \in {"arm", "advance"} => at[m] = at'[m]
          /\ DOMAIN update' = Fleet /\ update' = [m \in Fleet |-> update'[m]]
      BY <2>1, <2>3 DEF RolloutInv
    <3> QED BY <2>1, <3>3, <3>4 DEF RolloutInv, Backed, R!FirstOnes
  <2> QED BY <2>1, <2>2, <2>3
<1> QED BY <1>1, <1>2, <1>3, <1>4, <1>5, <1>6 DEF R!Handle

\* The nodes install what they were told; who arms a rollout lets its canaries in first.
LEMMA NodesKeepRollout ==
    ASSUME RolloutInv,
           \/ \E n \in Fleet : \/ R!Swap(n) \/ R!Discard(n) \/ R!PassGate(n)
                               \/ R!FailGate(n) \/ R!Silent(n) \/ R!Retire(n) \/ R!Forget(n)
           \/ R!Expire \/ R!Publish
           \/ \E target \in R!Releases, canary \in SUBSET Fleet :
                  R!OperatorArms(target, canary)
    PROVE  RolloutInv'
<1> USE DEF R!fleetdb, R!handler, R!node, R!history
<1>1. ASSUME NEW n \in Fleet,
             \/ R!Swap(n) \/ R!Discard(n) \/ R!PassGate(n) \/ R!FailGate(n)
             \/ R!Silent(n) \/ R!Retire(n) \/ R!Forget(n)
      PROVE  RolloutInv'
  <2>1. /\ UNCHANGED <<rollout, proven, chosen, overtaken, verdict, at, latest>>
        /\ UNCHANGED update \/ update' = [update EXCEPT ![n] = 0]
    BY <1>1 DEF R!Swap, R!Discard, R!PassGate, R!FailGate, R!Silent, R!Retire, R!Forget
  <2>2. /\ DOMAIN update' = Fleet /\ update' = [m \in Fleet |-> update'[m]]
        /\ \A m \in Fleet : update'[m] \in {update[m], 0}
    BY <2>1 DEF RolloutInv
  <2> QED BY <2>1, <2>2, RolloutAside DEF RolloutInv, Grow
<1>2. CASE R!Expire
  <2>1. /\ UNCHANGED <<proven, chosen, overtaken, verdict, at, update, latest>>
        /\ rollout' = [rollout EXCEPT !.late = TRUE]
    BY <1>2 DEF R!Expire
  <2>2. /\ rollout' \in R!Rollouts /\ rollout'.state = rollout.state
        /\ rollout'.target = rollout.target /\ rollout'.canary = rollout.canary
    BY <2>1 DEF R!Rollouts, RolloutInv
  <2> QED BY <2>1, <2>2, RolloutAside DEF RolloutInv, Grow
<1>3. CASE R!Publish
  <2>1. latest' \in R!Releases
    BY <1>3, SideAssumption DEF R!Publish, R!Releases, R!RolloutAssumption, RolloutInv
  <2>2. UNCHANGED <<rollout, proven, chosen, overtaken, verdict, at, update>>
    BY <1>3 DEF R!Publish
  <2> QED BY <2>1, <2>2, RolloutAside DEF RolloutInv, Grow
<1>4. ASSUME NEW target \in R!Releases, NEW canary \in SUBSET Fleet,
             R!OperatorArms(target, canary)
      PROVE  RolloutInv'
  <2>1. /\ UNCHANGED <<proven, overtaken, verdict, at, update, latest>>
        /\ rollout' = R!Armed(target, canary)
        /\ chosen' = chosen \cup R!FirstOnes(R!Armed(target, canary))
    BY <1>4 DEF R!OperatorArms
  <2>2. rollout' \in R!Rollouts /\ rollout'.state = "canary"
    BY <2>1 DEF R!Rollouts, R!Armed
  <2>3. R!FirstOnes(rollout)' \subseteq chosen'
    BY <2>1 DEF R!FirstOnes
  <2>4. R!OnlyCanariesTryIt'
    BY <2>1 DEF RolloutInv, R!OnlyCanariesTryIt
  <2> HIDE DEF R!Rollouts
  <2> QED BY <2>1, <2>2, <2>3, <2>4 DEF RolloutInv, Backed
<1> QED BY <1>1, <1>2, <1>3, <1>4

\* For any fleet, releases, rollouts and troubles, whoever arms and however the
\* handlers interleave: no release is promoted or called done before each of its
\* canaries was seen alive on it, and no node is told to install one that was neither
\* armed for it first nor proved (central/rollout.py evaluate, directive_for), unless
\* update_rollout_state put the verdict on one rollout on the row of another.
THEOREM CanariesFirst == Spec => []CanariesGoFirst
<1>1. Init => RolloutInv
  <2> SUFFICES ASSUME Init PROVE RolloutInv
    OBVIOUS
  <2>1. /\ latest = 0 /\ rollout = R!NoRollout /\ update = [n \in Fleet |-> 0]
        /\ at = [n \in Fleet |-> "idle"] /\ verdict = [n \in Fleet |-> R!NoRollout]
    BY DEF Init, R!Init
  <2>2. R!NoRollout \in R!Rollouts /\ 0 \in R!Releases
    BY SideAssumption DEF R!NoRollout, R!Rollouts, R!Releases, R!RolloutAssumption, R!Terminal
  <2>3. rollout.target = 0 /\ rollout.state = "none"
    BY <2>1 DEF R!NoRollout
  <2>4. R!OnlyCanariesTryIt
    BY <2>1 DEF R!OnlyCanariesTryIt
  <2> QED BY <2>1, <2>2, <2>3, <2>4 DEF RolloutInv
<1>2. RolloutInv /\ [Next]_vars => RolloutInv'
  <2> SUFFICES ASSUME RolloutInv, [Next]_vars PROVE RolloutInv'
    OBVIOUS
  <2>1. CASE UNCHANGED rolloutVars
    BY <2>1, RolloutAside DEF rolloutVars, RolloutInv, Grow
  <2>2. CASE R!Next
    BY <2>2, HandlersKeepRollout, NodesKeepRollout DEF R!Next
  <2> QED BY <2>1, <2>2, PartsMove
<1>3. RolloutInv => CanariesGoFirst
  BY DEF RolloutInv, Backed, CanariesGoFirst, R!CanariesGoFirst, R!CanaryFirst
<1> QED BY <1>1, <1>2, <1>3, PTL DEF Spec

===============================================================================
