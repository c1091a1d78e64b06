-------------------------- MODULE CentralBrainProofs ------------------------
EXTENDS CentralBrain, FiniteSetTheorems, WellFoundedInduction, SequenceTheorems,
        TLAPS

(***************************************************************************)
(* Proofs about CentralBrain, for any devices, forest, thresholds and      *)
(* number of handler threads.                                              *)
(*                                                                         *)
(* Base carries what every other proof starts from: the types, who holds   *)
(* the org lock, which events a handler can have in hand and whose outage  *)
(* it pages. On it stand                                                   *)
(*   - LatestIsOpen, and the refinement of OutageLedger;                   *)
(*   - Agreement, the inductive form of LedgerAgrees: while a handler      *)
(*     enters its events the engine is ahead of the states by them, and    *)
(*     the ledger by those that are entered;                               *)
(*   - ProvenPages, behind OnlyRootCausesPage: an event that pages was     *)
(*     entered as a proof first, and proofs are never forgotten;           *)
(*   - RowsInOrder, OnTheClock and PageOwed, behind OpenOutagesAreSeenTo:  *)
(*     a page not yet sent, or an outage not yet on the clock, is owed by  *)
(*     a handler that is still at work;                                    *)
(*   - SoleInv: with a single handler, a page is for a proven outage.      *)
(***************************************************************************)

-----------------------------------------------------------------------------
\* A set of numbers has a least one: of the intervals that end in it, one has no
\* other inside.
LEMMA LeastExists ==
    ASSUME NEW S \in SUBSET Nat, S # {}
    PROVE  \E m \in S : \A k \in S : m <= k
<1> DEFINE R == StrictSubsetOrdering(Nat)
           T == {0..k : k \in S}
<1>1. IsWellFoundedOn(R, FiniteSubsetsOf(Nat))
  BY FS_StrictSubsetOrderingWellFounded
<1>2. T \subseteq FiniteSubsetsOf(Nat) /\ T # {}
  <2>1. ASSUME NEW k \in S PROVE 0..k \in SUBSET Nat /\ IsFiniteSet(0..k)
    BY FS_Interval
  <2> QED BY <2>1 DEF FiniteSubsetsOf
<1> HIDE DEF R
<1>3. PICK x \in T : \A y \in T : ~(<<y, x>> \in R)
  <2> HIDE DEF T
  <2> QED BY <1>1, <1>2, WFMin
<1>4. PICK m \in S : x = 0..m
  OBVIOUS
<1>5. ASSUME NEW k \in S PROVE m <= k
  <2> SUFFICES ASSUME k < m PROVE FALSE
    OBVIOUS
  <2>1. 0..k \subseteq 0..m /\ 0..k # 0..m
    OBVIOUS
  <2>2. <<0..k, 0..m>> \in R
    BY <2>1 DEF R, StrictSubsetOrdering
  <2>3. 0..k \in T
    OBVIOUS
  <2> QED BY <1>3, <1>4, <2>2, <2>3
<1> QED BY <1>5

\* The loops of apply_events and dispatch take a device of their cycle.
LEMMA NextOfIsIn ==
    ASSUME NEW S \in SUBSET Devices, S # {}
    PROVE  NextOf(S) \in S
<1>1. \E d \in S : \A e \in S : d <= e
  BY LeastExists, BrainAssumption
<1> QED BY <1>1 DEF NextOf

\* Scoring and suppressing a state machine gives a state machine.
LEMMA FeedType ==
    ASSUME NEW f \in FSM, NEW s \in Samples
    PROVE  \A b \in BOOLEAN : Reclassified(Feed(f, s), b) \in FSM
<1>1. \A n \in 0..StreakCap : Bump(n) \in 0..StreakCap
  BY ThresholdAssumption DEF Bump
<1>2. Counted(f, s) \in FSM
  BY <1>1, ThresholdAssumption DEF Counted, FSM
<1>3. \A g \in FSM : Verdict(g) \in States
  BY DEF Verdict, Recovering, FSM, States
<1>4. Feed(f, s) \in FSM
  BY <1>2, <1>3 DEF Feed, FSM
<1>5. \A g \in FSM, b \in BOOLEAN : Reclassified(g, b) \in FSM
  BY DEF Reclassified, FSM, States
<1> QED BY <1>4, <1>5

\* Priming gives a state machine in the state it was primed with.
LEMMA PrimeType ==
    ASSUME NEW s \in States
    PROVE  Prime(s) \in FSM /\ Prime(s).state = s
BY ThresholdAssumption DEF Prime, FSM, States, DownFamily

\* A cycle gives an engine over the same devices.
LEMMA CycleType ==
    ASSUME engine \in [DOMAIN engine -> FSM],
           NEW S \in SUBSET (DOMAIN engine), NEW res \in [S -> Samples]
    PROVE  Cycle(Parents, engine, res, S) \in [DOMAIN engine -> FSM]
<1> DEFINE fed == Scored(engine, res, S)
           hid(d) == Shadowed(Parents, fed, d)
<1>1. Cycle(Parents, engine, res, S) =
        [d \in DOMAIN engine |-> IF d \in S THEN Reclassified(fed[d], hid(d)) ELSE engine[d]]
  BY DEF Cycle
<1>2. ASSUME NEW d \in S PROVE Reclassified(fed[d], hid(d)) \in FSM
  <2>1. fed[d] = Feed(engine[d], res[d])
    BY DEF Scored
  <2>2. hid(d) \in BOOLEAN
    BY DEF Shadowed
  <2>3. engine[d] \in FSM /\ res[d] \in Samples
    OBVIOUS
  <2> HIDE DEF fed, hid
  <2> QED BY <2>1, <2>2, <2>3, FeedType
<1> HIDE DEF fed, hid
<1> QED BY <1>1, <1>2

\* What EventOf says of a change of state.
LEMMA EventOfType ==
    ASSUME NEW prev \in States, NEW new \in States
    PROVE  LET ev == EventOf(prev, new)
           IN  /\ ev \in Events
               /\ ev.kind \in {"opened", "recategorized"} => ev.state \in DownFamily
BY DEF EventOf, Events, NoEvent, DownFamily, States

-----------------------------------------------------------------------------
\* The steps of a handler from the topology read to the write of the states.
Locking == {"build", "process", "apply"}

\* In these steps, and in no other, a handler holds the org lock.
LockIsHeld == \A t \in Threads : pc[t] \in Locking <=> lock = t

\* A handler has events from its cycle until they are dispatched, and rows to
\* write and events to enter only while it applies them.
EventsInOrder ==
    \A t \in Threads :
        /\ pc[t] \in {"idle", "build", "process"} => Pending(event[t]) = {}
        /\ pc[t] # "apply" => left[t] = {} /\ rows[t] = {}
        /\ left[t] \subseteq Pending(event[t])
        /\ rows[t] \subseteq DOMAIN engine
        /\ \A d \in Devices : event[t][d].kind \in {"opened", "recategorized"} =>
                                  event[t][d].state \in DownFamily

\* What a handler pages is an outage of the device whose event it dispatches.
PageHasItsOutage ==
    \A t \in Threads :
        pc[t] \in {"page", "schedule"} =>
            /\ Pending(event[t]) # {}
            /\ oid[t] \in DOMAIN outages
            /\ outages[oid[t]].dev = NextOf(Pending(event[t]))

\* What every other invariant stands on.
Base == TypeOK /\ LockIsHeld /\ EventsInOrder /\ PageHasItsOutage

\* A step that leaves every row under its id: it may close an outage, and change
\* what hangs under the id, but not what the outage is.
Kept ==
    /\ outages' \in Seq(Outages)
    /\ Len(outages') = Len(outages) /\ DOMAIN outages' = DOMAIN outages
    /\ \A o \in DOMAIN outages :
          /\ outages'[o].dev = outages[o].dev /\ outages'[o].cat = outages[o].cat
          /\ outages'[o].proven = outages[o].proven
          /\ outages'[o].open => outages[o].open

-----------------------------------------------------------------------------
\* The table of outages is a function from its ids to rows.
LEMMA RowsType ==
    ASSUME TypeOK
    PROVE  /\ outages \in [DOMAIN outages -> Outages]
           /\ Len(outages) \in Nat /\ DOMAIN outages = 1..Len(outages)
           /\ \A o \in DOMAIN outages : outages[o] \in Outages
BY ElementOfSeq, LenProperties DEF TypeOK

\* Rows written back under the same ids are a table again.
LEMMA TableType ==
    ASSUME TypeOK, outages' \in [DOMAIN outages -> Outages]
    PROVE  /\ outages' \in Seq(Outages)
           /\ Len(outages') = Len(outages) /\ DOMAIN outages' = DOMAIN outages
<1>1. outages' \in [1..Len(outages) -> Outages]
  BY RowsType
<1> QED BY <1>1, RowsType, IsASeq

\* A step that does not write the table leaves every row under its id.
LEMMA SameKept ==
    ASSUME TypeOK, UNCHANGED outages
    PROVE  Kept
BY RowsType DEF Kept, TypeOK

\* notify_opened marks the outage it pages and queues its message: no other row and
\* no other column changes.
LEMMA PageEffect ==
    ASSUME Base, NEW t \in Threads, Page(t)
    PROVE  /\ Kept
           /\ \A o \in DOMAIN outages :
                 /\ outages'[o].open = outages[o].open /\ outages'[o].esc = outages[o].esc
                 /\ outages'[o].logged = outages[o].logged
                 /\ IF o = oid[t] THEN outages'[o].paged
                    ELSE /\ outages'[o].paged = outages[o].paged
                         /\ outages'[o].queued = outages[o].queued
<1> DEFINE i == oid[t]
<1>1. i \in DOMAIN outages
  BY DEF Page, Base, PageHasItsOutage
<1>2. PICK q \in {outages[i].queued, outages[i].queued + 1} :
        outages' = [outages EXCEPT ![i] = [@ EXCEPT !.queued = q, !.paged = TRUE]]
  <2>1. \/ outages' = [outages EXCEPT ![i].paged = TRUE]
        \/ outages' = [outages EXCEPT ![i].queued = @ + 1, ![i].paged = TRUE]
    BY DEF Page
  <2> QED BY <1>1, <2>1, RowsType DEF Base, Outages
<1>3. \A o \in DOMAIN outages :
        outages'[o] = IF o = i THEN [outages[i] EXCEPT !.queued = q, !.paged = TRUE]
                      ELSE outages[o]
  BY <1>1, <1>2, RowsType DEF Base
<1>4. /\ outages' \in [DOMAIN outages -> Outages]
      /\ \A o \in DOMAIN outages :
            /\ outages'[o].dev = outages[o].dev /\ outages'[o].cat = outages[o].cat
            /\ outages'[o].proven = outages[o].proven
            /\ outages'[o].open = outages[o].open /\ outages'[o].esc = outages[o].esc
            /\ outages'[o].logged = outages[o].logged
            /\ IF o = i THEN outages'[o].paged
               ELSE /\ outages'[o].paged = outages[o].paged
                    /\ outages'[o].queued = outages[o].queued
  <2>1. outages[i] \in Outages /\ q \in Nat
    BY <1>1, RowsType DEF Base, Outages
  <2> DEFINE new == [outages[i] EXCEPT !.queued = q, !.paged = TRUE]
  <2>2. /\ new \in Outages /\ new.dev = outages[i].dev /\ new.cat = outages[i].cat
        /\ new.proven = outages[i].proven /\ new.open = outages[i].open
        /\ new.esc = outages[i].esc /\ new.logged = outages[i].logged /\ new.paged
    BY <2>1 DEF Outages
  <2>3. outages' = [o \in DOMAIN outages |-> outages'[o]]
    BY <1>2
  <2> HIDE DEF new
  <2> QED BY <1>3, <2>2, <2>3, RowsType DEF Base, new
<1>5. Kept
  BY <1>4, RowsType, TableType DEF Base, Kept
<1> QED BY <1>4, <1>5

\* schedule_escalation puts an outage that has no rung yet on the clock, and touches
\* nothing else.
LEMMA ScheduleEffect ==
    ASSUME Base, NEW t \in Threads, Schedule(t)
    PROVE  /\ Kept
           /\ \A o \in DOMAIN outages :
                 /\ outages'[o].open = outages[o].open
                 /\ outages'[o].logged = outages[o].logged
                 /\ outages'[o].paged = outages[o].paged
                 /\ outages'[o].queued = outages[o].queued
                 /\ outages'[o].esc = IF o = oid[t] /\ outages[o].esc = "none"
                                       THEN "waiting" ELSE outages[o].esc
<1> DEFINE i == oid[t]
<1>1. i \in DOMAIN outages
  BY DEF Schedule, Base, PageHasItsOutage
<1>2. PICK c \in Escalations :
        /\ c = IF outages[i].esc = "none" THEN "waiting" ELSE outages[i].esc
        /\ outages' = [outages EXCEPT ![i] = [@ EXCEPT !.esc = c]]
  BY <1>1, RowsType DEF Base, Schedule, Outages, Escalations
<1>3. \A o \in DOMAIN outages :
        outages'[o] = IF o = i THEN [outages[i] EXCEPT !.esc = c] ELSE outages[o]
  BY <1>1, <1>2, RowsType DEF Base
<1>4. outages' \in [DOMAIN outages -> Outages]
  BY <1>1, <1>2, <1>3, RowsType DEF Base, Outages
<1>5. ASSUME NEW o \in DOMAIN outages
      PROVE  /\ outages'[o].dev = outages[o].dev /\ outages'[o].cat = outages[o].cat
             /\ outages'[o].proven = outages[o].proven
             /\ outages'[o].open = outages[o].open
             /\ outages'[o].logged = outages[o].logged
             /\ outages'[o].paged = outages[o].paged
             /\ outages'[o].queued = outages[o].queued
             /\ outages'[o].esc = IF o = i /\ outages[o].esc = "none"
                                  THEN "waiting" ELSE outages[o].esc
  <2>1. outages[o] \in Outages
    BY RowsType DEF Base
  <2>2. CASE o = i
    BY <1>2, <1>3, <2>1, <2>2 DEF Outages
  <2>3. CASE o # i
    BY <1>3, <2>3
  <2> QED BY <2>2, <2>3
<1>6. Kept
  BY <1>4, <1>5, TableType DEF Base, Kept
<1> QED BY <1>5, <1>6

\* cancel_escalation takes only closed outages off the clock.
LEMMA CancelEffect ==
    ASSUME Base, NEW t \in Threads, Cancel(t)
    PROVE  /\ Kept
           /\ \A o \in DOMAIN outages :
                 /\ outages'[o].open = outages[o].open
                 /\ outages'[o].logged = outages[o].logged
                 /\ outages'[o].paged = outages[o].paged
                 /\ outages'[o].queued = outages[o].queued
                 /\ outages[o].open => outages'[o].esc = outages[o].esc
<1>1. /\ DOMAIN outages' = DOMAIN outages
      /\ outages' = [o \in DOMAIN outages |-> outages'[o]]
      /\ \A o \in DOMAIN outages :
            \/ outages'[o] = outages[o]
            \/ ~outages[o].open /\ outages'[o] = [outages[o] EXCEPT !.esc = "done"]
  BY DEF Cancel, Updated
<1>2. outages' \in [DOMAIN outages -> Outages]
  BY <1>1, RowsType DEF Base, Outages, Escalations
<1>3. Kept
  BY <1>1, <1>2, RowsType, TableType DEF Base, Kept, Outages
<1> QED BY <1>1, <1>3, RowsType DEF Base, Outages

\* The end of a report re-arms the rungs that are due, and drops those of closed
\* outages.
LEMMA FinishEffect ==
    ASSUME Base, NEW t \in Threads, Finish(t)
    PROVE  /\ Kept
           /\ \A o \in DOMAIN outages :
                 /\ outages'[o].open = outages[o].open
                 /\ outages'[o].logged = outages[o].logged
                 /\ outages'[o].paged = outages[o].paged
                 /\ outages'[o].queued = outages[o].queued
                 /\ \/ outages'[o].esc = outages[o].esc
                    \/ /\ outages[o].esc = "due"
                       /\ outages'[o].esc = IF outages[o].open THEN "waiting" ELSE "done"
<1>1. /\ DOMAIN outages' = DOMAIN outages
      /\ outages' = [o \in DOMAIN outages |-> outages'[o]]
      /\ \A o \in DOMAIN outages :
            \/ outages'[o] = outages[o]
            \/ /\ outages[o].esc = "due"
               /\ outages'[o] = [outages[o] EXCEPT !.esc =
                                    IF outages[o].open THEN "waiting" ELSE "done"]
  <2>1. CASE full[t]
    BY <2>1 DEF Finish, Swept, Updated
  <2>2. CASE ~full[t]
    BY <2>2, RowsType DEF Finish, Base
  <2> QED BY <2>1, <2>2
<1>2. outages' \in [DOMAIN outages -> Outages]
  BY <1>1, RowsType DEF Base, Outages, Escalations
<1>3. Kept
  BY <1>1, <1>2, RowsType, TableType DEF Base, Kept, Outages
<1> QED BY <1>1, <1>3, RowsType DEF Base, Outages

\* A delivery empties one message of a queue or logs a page that was queued.
LEMMA DeliverEffect ==
    ASSUME Base, NEW i \in DOMAIN outages, NEW ok \in BOOLEAN, Deliver(i, ok)
    PROVE  /\ Kept
           /\ \A o \in DOMAIN outages :
                 /\ outages'[o].open = outages[o].open
                 /\ outages'[o].esc = outages[o].esc
                 /\ outages'[o].paged = outages[o].paged
                 /\ outages'[o].queued > 0 \/ outages'[o].logged =>
                       outages[o].queued > 0 \/ outages[o].logged
<1>1. PICK q \in Nat, b \in BOOLEAN :
        /\ outages' = [outages EXCEPT ![i] = [@ EXCEPT !.queued = q, !.logged = b]]
        /\ outages[i].queued > 0
  <2>1. outages[i] \in Outages
    BY RowsType DEF Base
  <2> DEFINE q0 == outages[i].queued - 1
             b0 == outages[i].logged \/ ok
  <2>2. q0 \in Nat /\ b0 \in BOOLEAN
    BY <2>1 DEF Deliver, Outages
  <2>3. outages' = [outages EXCEPT ![i] = [@ EXCEPT !.queued = q0, !.logged = b0]]
    BY DEF Deliver
  <2> HIDE DEF q0, b0
  <2> QED BY <2>2, <2>3 DEF Deliver
<1>2. \A o \in DOMAIN outages :
        outages'[o] = IF o = i THEN [outages[i] EXCEPT !.queued = q, !.logged = b]
                      ELSE outages[o]
  BY <1>1, RowsType DEF Base
<1>3. outages' \in [DOMAIN outages -> Outages]
  BY <1>1, <1>2, RowsType DEF Base, Outages
<1>4. ASSUME NEW o \in DOMAIN outages
      PROVE  /\ outages'[o].dev = outages[o].dev /\ outages'[o].cat = outages[o].cat
             /\ outages'[o].proven = outages[o].proven
             /\ outages'[o].open = outages[o].open
             /\ outages'[o].esc = outages[o].esc
             /\ outages'[o].paged = outages[o].paged
             /\ outages'[o].queued > 0 \/ outages'[o].logged =>
                   outages[o].queued > 0 \/ outages[o].logged
  <2>1. outages[o] \in Outages
    BY RowsType DEF Base
  <2>2. CASE o = i
    BY <1>1, <1>2, <2>1, <2>2 DEF Outages
  <2>3. CASE o # i
    BY <1>2, <2>3
  <2> QED BY <2>2, <2>3
<1>5. Kept
  BY <1>3, <1>4, TableType DEF Base, Kept
<1> QED BY <1>4, <1>5

\* The clock makes a waiting rung due.
LEMMA TickEffect ==
    ASSUME Base, NEW i \in DOMAIN outages, Tick(i)
    PROVE  /\ Kept
           /\ \A o \in DOMAIN outages :
                 /\ outages'[o].open = outages[o].open
                 /\ outages'[o].logged = outages[o].logged
                 /\ outages'[o].paged = outages[o].paged
                 /\ outages'[o].queued = outages[o].queued
                 /\ \/ outages'[o].esc = outages[o].esc
                    \/ outages[o].esc = "waiting" /\ outages'[o].esc = "due"
<1>1. /\ outages' = [outages EXCEPT ![i] = [@ EXCEPT !.esc = "due"]]
      /\ outages[i].esc = "waiting"
  BY DEF Tick
<1>2. \A o \in DOMAIN outages :
        outages'[o] = IF o = i THEN [outages[i] EXCEPT !.esc = "due"] ELSE outages[o]
  BY <1>1, RowsType DEF Base
<1>3. outages' \in [DOMAIN outages -> Outages]
  BY <1>1, <1>2, RowsType DEF Base, Outages, Escalations
<1>4. Kept
  BY <1>2, <1>3, RowsType, TableType DEF Base, Kept, Outages
<1> QED BY <1>1, <1>2, <1>4, RowsType DEF Base, Outages

\* Taking a device off the inventory closes its open outages, and no other.
LEMMA UnassignEffect ==
    ASSUME Base, NEW d \in Devices, Unassign(d)
    PROVE  /\ Kept
           /\ \A o \in DOMAIN outages :
                 /\ outages'[o].open <=> outages[o].open /\ outages[o].dev # d
                 /\ outages'[o].logged = outages[o].logged
                 /\ outages'[o].paged = outages[o].paged
                 /\ outages'[o].queued = outages[o].queued
                 /\ outages'[o].open => outages'[o].esc = outages[o].esc
<1>1. /\ DOMAIN outages' = DOMAIN outages
      /\ outages' = [o \in DOMAIN outages |-> outages'[o]]
      /\ \A o \in DOMAIN outages :
            outages'[o] = IF outages[o].dev = d /\ outages[o].open
                          THEN [outages[o] EXCEPT !.open = FALSE, !.esc = "none"]
                          ELSE outages[o]
  BY DEF Unassign, Updated, OpenOf
<1>2. outages' \in [DOMAIN outages -> Outages]
  <2>1. ASSUME NEW o \in DOMAIN outages PROVE outages'[o] \in Outages
    <3>1. outages[o] \in Outages
      BY RowsType DEF Base
    <3>2. [outages[o] EXCEPT !.open = FALSE, !.esc = "none"] \in Outages
      BY <3>1 DEF Outages, Escalations
    <3> QED BY <1>1, <3>1, <3>2
  <2> QED BY <1>1, <2>1
<1>3. Kept
  BY <1>1, <1>2, RowsType, TableType DEF Base, Kept, Outages
<1> QED BY <1>1, <1>3, RowsType DEF Base, Outages

\* A crash loses the queued messages: the rows stay.
LEMMA CrashEffect ==
    ASSUME Base, Crash
    PROVE  /\ Kept
           /\ \A o \in DOMAIN outages :
                 /\ outages'[o].open = outages[o].open
                 /\ outages'[o].logged = outages[o].logged
                 /\ outages'[o].paged = outages[o].paged
                 /\ outages'[o].queued = 0
                 /\ outages'[o].esc = outages[o].esc
<1>1. /\ DOMAIN outages' = DOMAIN outages
      /\ outages' = [o \in DOMAIN outages |-> outages'[o]]
      /\ \A o \in DOMAIN outages : outages'[o] = [outages[o] EXCEPT !.queued = 0]
  BY DEF Crash, Updated
<1>2. outages' \in [DOMAIN outages -> Outages]
  BY <1>1, RowsType DEF Base, Outages
<1>3. Kept
  BY <1>1, <1>2, RowsType, TableType DEF Base, Kept, Outages
<1> QED BY <1>1, <1>3, RowsType DEF Base, Outages

\* Entering an event adds a row, or changes the open one.
Grown ==
    /\ outages' \in Seq(Outages)
    /\ Len(outages) <= Len(outages')
    /\ DOMAIN outages \subseteq DOMAIN outages'
    /\ \A o \in DOMAIN outages :
          /\ outages'[o].dev = outages[o].dev
          /\ outages[o].proven => outages'[o].proven
          /\ outages'[o].esc = outages[o].esc /\ outages'[o].queued = outages[o].queued
          /\ outages'[o].logged = outages[o].logged
          /\ outages'[o].paged = outages[o].paged

\* A first event of an outage adds an open row of its category.
Opened(d, c) ==
    /\ OpenOf(d) = {}
    /\ DOMAIN outages' = DOMAIN outages \cup {Len(outages) + 1}
    /\ Len(outages') = Len(outages) + 1
    /\ outages'[Len(outages) + 1] = NewOutage(d, c)
    /\ \A o \in DOMAIN outages : outages'[o] = outages[o]

\* A change of category renames the open rows of the device, and proves the outage if
\* it is DOWN.
Recategorized(d, c) ==
    /\ DOMAIN outages' = DOMAIN outages /\ Len(outages') = Len(outages)
    /\ \A o \in DOMAIN outages :
          IF o \in OpenOf(d)
          THEN /\ outages'[o].cat = c /\ outages'[o].open
               /\ outages'[o].proven <=> outages[o].proven \/ c = "DOWN"
          ELSE outages'[o] = outages[o]

\* A recovery closes the open rows of the device.
Resolved(d) ==
    /\ DOMAIN outages' = DOMAIN outages /\ Len(outages') = Len(outages)
    /\ \A o \in DOMAIN outages :
          /\ outages'[o].open <=> outages[o].open /\ outages[o].dev # d
          /\ outages'[o].cat = outages[o].cat /\ outages'[o].proven = outages[o].proven

\* A new row is open, of the category of its event, and nobody was told of it.
LEMMA NewOutageType ==
    ASSUME NEW d \in Devices, NEW c \in DownFamily
    PROVE  /\ NewOutage(d, c) \in Outages
           /\ LET r == NewOutage(d, c)
              IN  /\ r.dev = d /\ r.cat = c /\ r.open /\ r.esc = "none" /\ r.queued = 0
                  /\ ~r.logged /\ ~r.paged /\ (r.proven <=> c = "DOWN")
BY DEF NewOutage, Outages, Escalations

\* apply_events enters the event of one device that is left: it opens, renames or
\* closes outages of that device, or finds the outage already open.
LEMMA ApplyEffect ==
    ASSUME Base, NEW t \in Threads, Apply(t)
    PROVE  LET d  == NextOf(left[t])
               ev == event[t][d]
           IN  /\ d \in left[t] /\ d \in Pending(event[t]) /\ d \in Devices
               /\ left' = [left EXCEPT ![t] = @ \ {d}]
               /\ Grown
               /\ \/ ev.kind = "opened" /\ ev.state \in DownFamily /\ Opened(d, ev.state)
                  \/ ev.kind = "opened" /\ OpenOf(d) # {} /\ UNCHANGED outages
                  \/ ev.kind = "recategorized" /\ ev.state \in DownFamily
                     /\ Recategorized(d, ev.state)
                  \/ ev.kind = "resolved" /\ Resolved(d)
<1> DEFINE d  == NextOf(left[t])
           ev == event[t][d]
<1>1. d \in left[t] /\ d \in Pending(event[t]) /\ d \in Devices
  BY NextOfIsIn DEF Apply, Base, TypeOK, EventsInOrder
<1>2. /\ outages' = Entered(d, ev)
      /\ left' = [left EXCEPT ![t] = @ \ {d}]
  BY DEF Apply
<1>3. /\ ev \in Events /\ ev.kind # "none"
      /\ ev.kind \in {"opened", "recategorized"} => ev.state \in DownFamily
  BY <1>1 DEF Base, TypeOK, EventsInOrder, Pending
<1> HIDE DEF d, ev
<1>4. CASE ev.kind = "opened" /\ OpenOf(d) = {}
  <2>1. outages' = Append(outages, NewOutage(d, ev.state))
    BY <1>2, <1>4 DEF Entered
  <2>2. NewOutage(d, ev.state) \in Outages
    BY <1>1, <1>3, <1>4, NewOutageType
  <2>3. /\ outages' \in Seq(Outages) /\ Len(outages') = Len(outages) + 1
        /\ \A o \in 1..Len(outages) : outages'[o] = outages[o]
        /\ outages'[Len(outages) + 1] = NewOutage(d, ev.state)
    BY <2>1, <2>2, AppendProperties DEF Base, TypeOK
  <2>4. /\ DOMAIN outages' = 1..Len(outages') /\ DOMAIN outages = 1..Len(outages)
        /\ Len(outages) \in Nat
    BY <2>3, RowsType, LenProperties DEF Base
  <2>5. Opened(d, ev.state) /\ Grown
    BY <1>4, <2>3, <2>4 DEF Opened, Grown
  <2> QED BY <1>1, <1>2, <1>3, <1>4, <2>5 DEF d, ev
<1>5. CASE ev.kind = "opened" /\ OpenOf(d) # {}
  <2>1. UNCHANGED outages
    BY <1>2, <1>5 DEF Entered
  <2>2. Grown
    BY <2>1, RowsType DEF Grown, Base, TypeOK
  <2> QED BY <1>1, <1>2, <1>5, <2>1, <2>2 DEF d, ev
<1>6. CASE ev.kind = "recategorized"
  <2>1. /\ DOMAIN outages' = DOMAIN outages
        /\ outages' = [o \in DOMAIN outages |-> outages'[o]]
        /\ \A o \in DOMAIN outages :
              outages'[o] = IF o \in OpenOf(d)
                            THEN [outages[o] EXCEPT !.cat = ev.state,
                                                    !.proven = @ \/ ev.state = "DOWN"]
                            ELSE outages[o]
    BY <1>2, <1>6 DEF Entered, Updated
  <2>2. ASSUME NEW o \in DOMAIN outages
        PROVE  /\ outages'[o] \in Outages
               /\ outages'[o].dev = outages[o].dev
               /\ outages'[o].open = outages[o].open
               /\ outages[o].proven => outages'[o].proven
               /\ outages'[o].esc = outages[o].esc
               /\ outages'[o].queued = outages[o].queued
               /\ outages'[o].logged = outages[o].logged
               /\ outages'[o].paged = outages[o].paged
               /\ o \in OpenOf(d) =>
                     /\ outages'[o].cat = ev.state
                     /\ outages'[o].proven <=> outages[o].proven \/ ev.state = "DOWN"
    <3> DEFINE b == outages[o].proven \/ ev.state = "DOWN"
    <3>1. outages[o] \in Outages /\ ev.state \in DownFamily /\ b \in BOOLEAN
      BY <1>3, <1>6, RowsType DEF Base
    <3>2. CASE o \in OpenOf(d)
      <4>1. outages'[o] = [outages[o] EXCEPT !.cat = ev.state, !.proven = b]
        BY <2>1, <3>2
      <4>2. b <=> outages[o].proven \/ ev.state = "DOWN"
        OBVIOUS
      <4> HIDE DEF b
      <4> QED BY <3>1, <4>1, <4>2 DEF Outages
    <3>3. CASE o \notin OpenOf(d)
      BY <2>1, <3>1, <3>3
    <3> QED BY <3>2, <3>3
  <2>3. outages' \in [DOMAIN outages -> Outages]
    BY <2>1, <2>2
  <2>4. /\ outages' \in Seq(Outages)
        /\ Len(outages') = Len(outages) /\ DOMAIN outages' = DOMAIN outages
    BY <2>3, TableType DEF Base
  <2>5. Grown
    <3>1. Len(outages) <= Len(outages') /\ DOMAIN outages \subseteq DOMAIN outages'
      BY <2>4, RowsType DEF Base
    <3> QED BY <2>2, <2>4, <3>1 DEF Grown
  <2>6. Recategorized(d, ev.state)
    <3>1. ASSUME NEW o \in DOMAIN outages, o \in OpenOf(d)
          PROVE  /\ outages'[o].cat = ev.state /\ outages'[o].open
                 /\ outages'[o].proven <=> outages[o].proven \/ ev.state = "DOWN"
      BY <2>2, <3>1 DEF OpenOf
    <3>2. ASSUME NEW o \in DOMAIN outages, o \notin OpenOf(d)
          PROVE  outages'[o] = outages[o]
      BY <2>1, <3>2
    <3> QED BY <2>1, <2>4, <3>1, <3>2 DEF Recategorized
  <2> QED BY <1>1, <1>2, <1>3, <1>6, <2>5, <2>6 DEF d, ev
<1>7. CASE ev.kind = "resolved"
  <2>1. /\ DOMAIN outages' = DOMAIN outages
        /\ outages' = [o \in DOMAIN outages |-> outages'[o]]
        /\ \A o \in DOMAIN outages :
              outages'[o] = IF outages[o].dev = d /\ outages[o].open
                            THEN [outages[o] EXCEPT !.open = FALSE]
                            ELSE outages[o]
    BY <1>2, <1>7 DEF Entered, Updated, OpenOf
  <2>2. ASSUME NEW o \in DOMAIN outages
        PROVE  /\ outages'[o] \in Outages
               /\ outages'[o].open <=> outages[o].open /\ outages[o].dev # d
               /\ outages'[o].dev = outages[o].dev /\ outages'[o].cat = outages[o].cat
               /\ outages'[o].proven = outages[o].proven
               /\ outages'[o].esc = outages[o].esc
               /\ outages'[o].queued = outages[o].queued
               /\ outages'[o].logged = outages[o].logged
               /\ outages'[o].paged = outages[o].paged
    <3>1. outages[o] \in Outages
      BY RowsType DEF Base
    <3>2. CASE outages[o].dev = d /\ outages[o].open
      <4>1. outages'[o] = [outages[o] EXCEPT !.open = FALSE]
        BY <2>1, <3>2
      <4> QED BY <3>1, <3>2, <4>1 DEF Outages
    <3>3. CASE ~(outages[o].dev = d /\ outages[o].open)
      <4>1. outages'[o] = outages[o]
        BY <2>1, <3>3
      <4> QED BY <3>1, <3>3, <4>1 DEF Outages
    <3> QED BY <3>2, <3>3
  <2>3. outages' \in Seq(Outages) /\ Len(outages') = Len(outages)
    <3>1. outages' \in [DOMAIN outages -> Outages]
      BY <2>1, <2>2
    <3> QED BY <3>1, TableType DEF Base
  <2>4. Grown
    BY <2>1, <2>2, <2>3, RowsType DEF Base, Grown
  <2>5. Resolved(d)
    BY <2>1, <2>2, <2>3 DEF Resolved
  <2> QED BY <1>1, <1>2, <1>7, <2>4, <2>5 DEF d, ev
<1> QED BY <1>3, <1>4, <1>5, <1>6, <1>7 DEF Events

\* A bounded set of numbers has a greatest one.
LEMMA GreatestExists ==
    ASSUME NEW S \in SUBSET Nat, S # {}, NEW n \in Nat, \A k \in S : k <= n
    PROVE  \E m \in S : \A k \in S : k <= m
<1> DEFINE T == {n - k : k \in S}
<1>1. T \in SUBSET Nat /\ T # {}
  <2>1. ASSUME NEW k \in S PROVE n - k \in Nat
    OBVIOUS
  <2> QED BY <2>1
<1>2. PICK x \in T : \A y \in T : x <= y
  <2> HIDE DEF T
  <2> QED BY <1>1, LeastExists
<1>3. PICK m \in S : x = n - m
  BY <1>2
<1>4. ASSUME NEW k \in S PROVE k <= m
  <2>1. n - k \in T
    OBVIOUS
  <2>2. n - m <= n - k
    BY <1>2, <1>3, <2>1
  <2> QED BY <1>3, <2>2
<1> QED BY <1>4

\* open_outage_id returns an open outage of the device, the latest.
LEMMA LatestOpenIsIn ==
    ASSUME TypeOK, NEW d \in Devices, OpenOf(d) # {}
    PROVE  LET i == CHOOSE o \in OpenOf(d) : \A p \in OpenOf(d) : p <= o
           IN  i \in OpenOf(d) /\ \A p \in OpenOf(d) : p <= i
<1>1. OpenOf(d) \subseteq 1..Len(outages) /\ Len(outages) \in Nat
  BY RowsType DEF OpenOf
<1>2. \E m \in OpenOf(d) : \A p \in OpenOf(d) : p <= m
  <2> DEFINE S == OpenOf(d)
  <2>1. S \in SUBSET Nat /\ S # {} /\ \A k \in S : k <= Len(outages)
    BY <1>1
  <2> HIDE DEF S
  <2>2. \E m \in S : \A k \in S : k <= m
    BY <1>1, <2>1, GreatestExists
  <2> QED BY <2>2 DEF S
<1> QED BY <1>2

-----------------------------------------------------------------------------
\* A brain that starts with an empty table has its types, lock and events in order.
LEMMA BaseInit == Init => Base
<1> SUFFICES ASSUME Init PROVE Base
  OBVIOUS
<1>1. TypeOK
  <2>1. outages \in Seq(Outages) /\ Len(outages) = 0
    BY EmptySeq DEF Init
  <2>2. DOMAIN engine = {} /\ engine \in [DOMAIN engine -> FSM]
    BY DEF Init
  <2>3. NoEvents \in [Devices -> Events]
    BY DEF NoEvents, NoEvent, Events, States
  <2> HIDE DEF NoEvents
  <2>4. /\ pc \in [Threads -> Handlers] /\ full \in [Threads -> BOOLEAN]
        /\ event \in [Threads -> [Devices -> Events]]
        /\ oid \in [Threads -> 0..Len(outages)]
        /\ states \in [Devices -> States \cup {"none"}]
    BY <2>1, <2>3 DEF Init, Handlers
  <2>5. /\ wanted \in [Threads -> SUBSET Devices] /\ rows \in [Threads -> SUBSET Devices]
        /\ left \in [Threads -> SUBSET Devices]
    BY DEF Init
  <2> QED BY <2>1, <2>2, <2>4, <2>5 DEF Init, TypeOK
<1>2. LockIsHeld
  BY BrainAssumption DEF Init, LockIsHeld, Locking
<1>3. EventsInOrder
  BY DEF Init, EventsInOrder, Pending, NoEvents, NoEvent
<1>4. PageHasItsOutage
  BY DEF Init, PageHasItsOutage
<1> QED BY <1>1, <1>2, <1>3, <1>4 DEF Base

\* Whoever holds the org lock is the one handler in its cycle.
LEMMA OneInLock ==
    ASSUME Base, NEW t \in Threads, NEW u \in Threads, pc[t] \in Locking, pc[u] \in Locking
    PROVE  t = u
BY DEF Base, LockIsHeld

\* The steps of the send pool, of the clock and of operators leave the handlers
\* alone.
LEMMA OutsideKeepsBase ==
    ASSUME Base, Kept, UNCHANGED <<memory>>,
           maintenance' \in SUBSET Devices, assigned' \in SUBSET Devices,
           states' \in [Devices -> States \cup {"none"}],
           torn' \in SUBSET Devices, missed' \in SUBSET Devices, upsets' \in Nat
    PROVE  Base'
<1>1. TypeOK'
  BY DEF Base, TypeOK, Kept, memory
<1>2. LockIsHeld' /\ EventsInOrder'
  BY DEF Base, LockIsHeld, EventsInOrder, Pending, memory
<1>3. PageHasItsOutage'
  BY DEF Base, PageHasItsOutage, Pending, Kept, memory
<1> QED BY <1>1, <1>2, <1>3 DEF Base

\* The escalation clock, the senders and the operator's edits keep Base.
LEMMA OutsideStepsKeepBase ==
    ASSUME Base,
           \/ \E o \in DOMAIN outages : Tick(o) \/ \E ok \in BOOLEAN : Deliver(o, ok)
           \/ \E d \in Devices : SetMaintenance(d) \/ Assign(d) \/ Unassign(d)
    PROVE  Base'
<1>1. ASSUME NEW o \in DOMAIN outages, Tick(o) PROVE Base'
  BY <1>1, TickEffect, OutsideKeepsBase DEF Tick, Base, TypeOK, history
<1>2. ASSUME NEW o \in DOMAIN outages, NEW ok \in BOOLEAN, Deliver(o, ok) PROVE Base'
  BY <1>2, DeliverEffect, OutsideKeepsBase DEF Deliver, Base, TypeOK, history
<1>3. ASSUME NEW d \in Devices, SetMaintenance(d) PROVE Base'
  BY <1>3, SameKept, OutsideKeepsBase DEF SetMaintenance, Edit, Upset, Base, TypeOK
<1>4. ASSUME NEW d \in Devices, Assign(d) PROVE Base'
  BY <1>4, SameKept, OutsideKeepsBase DEF Assign, Edit, Upset, Base, TypeOK
<1>5. ASSUME NEW d \in Devices, Unassign(d) PROVE Base'
  <2>1. Kept
    BY <1>5, UnassignEffect
  <2>2. /\ UNCHANGED <<memory, maintenance, missed>>
        /\ assigned' \in SUBSET Devices /\ torn' \in SUBSET Devices
        /\ states' \in [Devices -> States \cup {"none"}] /\ upsets' \in Nat
    BY <1>5 DEF Unassign, Edit, Upset, Base, TypeOK
  <2> QED BY <2>1, <2>2, OutsideKeepsBase DEF Base, TypeOK
<1> QED BY <1>1, <1>2, <1>3, <1>4, <1>5

\* A handler that is through with an event goes on without it.
LEMMA HandledKeepsBase ==
    ASSUME Base, Kept, NEW t \in Threads, NEW d \in Devices,
           pc[t] \in {"dispatch", "page", "schedule"}, Handled(t, d),
           UNCHANGED <<maintenance, assigned, states, built, engine, lock, full,
                       wanted, rows, left, history>>
    PROVE  Base'
<1>1. event'[t] = [event[t] EXCEPT ![d] = NoEvent] /\ pc'[t] = "dispatch" /\ oid'[t] = 0
  BY DEF Handled, Base, TypeOK
<1>2. ASSUME NEW u \in Threads, u # t
      PROVE  event'[u] = event[u] /\ pc'[u] = pc[u] /\ oid'[u] = oid[u]
  BY <1>2 DEF Handled, Base, TypeOK
<1>3. TypeOK'
  <2>1. NoEvent \in Events
    BY DEF NoEvent, Events, States
  <2>2. event' \in [Threads -> [Devices -> Events]]
    BY <2>1 DEF Handled, Base, TypeOK
  <2>3. Len(outages') \in Nat /\ oid' \in [Threads -> 0..Len(outages')]
    BY RowsType DEF Handled, Base, TypeOK, Kept
  <2> QED BY <2>2, <2>3 DEF Handled, Base, TypeOK, Kept, Handlers, history
<1>4. LockIsHeld'
  BY <1>1, <1>2 DEF Base, LockIsHeld, Locking
<1>5. EventsInOrder'
  <2>1. left[t] = {} /\ rows[t] = {}
    BY DEF Base, EventsInOrder
  <2>2. \A e \in Devices : event'[t][e] \in {event[t][e], NoEvent}
    BY <1>1 DEF Base, TypeOK
  <2>3. \A e \in Devices : event'[t][e].kind # "none" => event'[t][e] = event[t][e]
    BY <2>2 DEF NoEvent
  <2>4. Pending(event'[t]) \subseteq Pending(event[t])
    BY <2>3 DEF Pending
  <2>5. ASSUME NEW u \in Threads, u # t
        PROVE  /\ event'[u] = event[u] /\ pc'[u] = pc[u]
               /\ left'[u] = left[u] /\ rows'[u] = rows[u]
    BY <1>2, <2>5
  <2>6. left'[t] = {} /\ rows'[t] = {}
    BY <2>1
  <2> DEFINE InOrder(u) ==
               /\ pc[u] \in {"idle", "build", "process"} => Pending(event[u]) = {}
               /\ pc[u] # "apply" => left[u] = {} /\ rows[u] = {}
               /\ left[u] \subseteq Pending(event[u])
               /\ rows[u] \subseteq DOMAIN engine
               /\ \A e \in Devices : event[u][e].kind \in {"opened", "recategorized"} =>
                                        event[u][e].state \in DownFamily
  <2>7. \A u \in Threads : InOrder(u)
    BY DEF Base, EventsInOrder
  <2>8. InOrder(t)'
    BY <1>1, <2>3, <2>6, <2>7
  <2>9. ASSUME NEW u \in Threads, u # t PROVE InOrder(u)'
    BY <2>5, <2>7, <2>9
  <2> QED BY <2>8, <2>9 DEF EventsInOrder
<1>6. PageHasItsOutage'
  <2> SUFFICES ASSUME NEW u \in Threads, pc'[u] \in {"page", "schedule"}
               PROVE  /\ Pending(event'[u]) # {} /\ oid'[u] \in DOMAIN outages'
                      /\ outages'[oid'[u]].dev = NextOf(Pending(event'[u]))
    BY DEF PageHasItsOutage
  <2>1. u # t
    BY <1>1
  <2> QED BY <1>2, <2>1 DEF Base, PageHasItsOutage, Kept
<1> QED BY <1>3, <1>4, <1>5, <1>6 DEF Base

\* A handler that turns to its page or its escalation keeps the event it is at.
LEMMA TurnedKeepsBase ==
    ASSUME Base, Kept, NEW t \in Threads, NEW i \in DOMAIN outages,
           NEW c \in {"page", "schedule"},
           pc[t] \in {"dispatch", "page"}, pc' = [pc EXCEPT ![t] = c],
           Pending(event[t]) # {}, outages[i].dev = NextOf(Pending(event[t])),
           oid' = [oid EXCEPT ![t] = i],
           UNCHANGED <<maintenance, assigned, states, built, engine, lock, full,
                       wanted, rows, event, left, history>>
    PROVE  Base'
<1>1. TypeOK'
  <2>1. Len(outages') = Len(outages) /\ i \in 0..Len(outages)
    BY RowsType DEF Base, Kept
  <2> QED BY <2>1 DEF Base, TypeOK, Kept, Handlers, history
<1>2. LockIsHeld' /\ EventsInOrder'
  BY DEF Base, TypeOK, LockIsHeld, EventsInOrder, Pending, Locking
<1>3. PageHasItsOutage'
  <2> SUFFICES ASSUME NEW u \in Threads, pc'[u] \in {"page", "schedule"}
               PROVE  /\ Pending(event'[u]) # {} /\ oid'[u] \in DOMAIN outages'
                      /\ outages'[oid'[u]].dev = NextOf(Pending(event'[u]))
    BY DEF PageHasItsOutage
  <2>1. CASE u = t
    BY <2>1 DEF Base, TypeOK, Kept
  <2>2. CASE u # t
    BY <2>2 DEF Base, TypeOK, PageHasItsOutage, Kept
  <2> QED BY <2>1, <2>2
<1> QED BY <1>1, <1>2, <1>3 DEF Base

\* Dispatching an event keeps Base: it reads the outage of the device at hand.
LEMMA DispatchKeepsBase ==
    ASSUME Base, NEW t \in Threads,
           \/ FindOutage(t) \/ Page(t) \/ Schedule(t) \/ Suppress(t) \/ Cancel(t)
    PROVE  Base'
<1> DEFINE d == NextOf(Pending(event[t]))
<1>1. Pending(event[t]) # {} /\ d \in Devices
  <2>1. Pending(event[t]) # {}
    BY DEF FindOutage, Page, Schedule, Suppress, Cancel, Base, PageHasItsOutage
  <2> QED BY <2>1, NextOfIsIn DEF Pending
<1>2. CASE FindOutage(t)
  <2>1. Kept
    BY <1>2, SameKept DEF FindOutage, db, Base
  <2>2. CASE OpenOf(d) = {}
    <3>1. Handled(t, d)
      BY <1>2, <2>2 DEF FindOutage
    <3> HIDE DEF d
    <3> QED BY <1>1, <1>2, <2>1, <3>1, HandledKeepsBase DEF FindOutage, db, Base
  <2>3. CASE OpenOf(d) # {}
    <3> DEFINE i == CHOOSE o \in OpenOf(d) : \A p \in OpenOf(d) : p <= o
    <3>1. i \in OpenOf(d)
      BY <1>1, <2>3, LatestOpenIsIn DEF Base
    <3>2. oid' = [oid EXCEPT ![t] = i] /\ pc' = [pc EXCEPT ![t] = "page"] /\ UNCHANGED event
      BY <1>2, <2>3 DEF FindOutage
    <3>3. i \in DOMAIN outages /\ outages[i].dev = d
      BY <3>1 DEF OpenOf
    <3> HIDE DEF i
    <3> QED BY <1>1, <1>2, <2>1, <3>2, <3>3, TurnedKeepsBase DEF FindOutage, db, Base
  <2> QED BY <2>2, <2>3
<1>3. CASE Page(t)
  <2>1. Kept
    BY <1>3, PageEffect
  <2>2. CASE outages[oid[t]].logged
    <3>1. Handled(t, d)
      BY <1>3, <2>2 DEF Page
    <3> HIDE DEF d
    <3> QED BY <1>1, <1>3, <2>1, <3>1, HandledKeepsBase DEF Page
  <2>3. CASE ~outages[oid[t]].logged
    <3>1. pc' = [pc EXCEPT ![t] = "schedule"] /\ UNCHANGED <<event, oid>>
      BY <1>3, <2>3 DEF Page
    <3>2. oid' = [oid EXCEPT ![t] = oid[t]]
      BY <3>1 DEF Base, TypeOK
    <3> QED BY <1>1, <1>3, <2>1, <3>1, <3>2, TurnedKeepsBase
            DEF Page, Base, PageHasItsOutage
  <2> QED BY <2>2, <2>3
<1>4. CASE Schedule(t)
  BY <1>1, <1>4, ScheduleEffect, HandledKeepsBase DEF Schedule
<1>5. CASE Suppress(t)
  <2>1. Kept
    BY <1>5, SameKept DEF Suppress, db, Base
  <2> QED BY <1>1, <1>5, <2>1, HandledKeepsBase DEF Suppress, db
<1>6. CASE Cancel(t)
  BY <1>1, <1>6, CancelEffect, HandledKeepsBase DEF Cancel
<1> QED BY <1>2, <1>3, <1>4, <1>5, <1>6

-----------------------------------------------------------------------------
\* The steps of the cycle, under the org lock.
LEMMA BeginKeepsBase ==
    ASSUME Base, NEW t \in Threads, NEW isFull \in BOOLEAN, Begin(t, isFull)
    PROVE  Base'
<1>1. PICK c \in {"process", "build"} :
        /\ pc' = [pc EXCEPT ![t] = c]
        /\ wanted' \in [Threads -> SUBSET Devices]
  BY DEF Begin, Base, TypeOK
<1>2. UNCHANGED <<maintenance, assigned, states, outages, built, engine, rows, event, left,
                  oid, torn, missed, upsets>>
  BY DEF Begin, db, history
<1>3. TypeOK'
  BY <1>1, <1>2 DEF Begin, Base, TypeOK, Handlers
<1>4. LockIsHeld'
  BY <1>1, BrainAssumption DEF Begin, Base, TypeOK, LockIsHeld, Locking
<1>5. EventsInOrder'
  BY <1>1, <1>2 DEF Begin, Base, TypeOK, EventsInOrder
<1>6. PageHasItsOutage'
  BY <1>1, <1>2 DEF Begin, Base, TypeOK, PageHasItsOutage
<1> QED BY <1>3, <1>4, <1>5, <1>6 DEF Base

\* Building the engine from the persisted states keeps Base.
LEMMA BuildKeepsBase ==
    ASSUME Base, NEW t \in Threads, Build(t)
    PROVE  Base'
<1>1. UNCHANGED <<maintenance, assigned, states, outages, lock, full, rows, event, left,
                  oid, torn, missed, upsets>>
  BY DEF Build, db, history
<1>2. engine' \in [wanted[t] -> FSM] /\ wanted[t] \in SUBSET Devices
  <2>1. \A d \in wanted[t] : (IF states[d] = "none" THEN "UP" ELSE states[d]) \in States
    BY DEF Base, TypeOK, States
  <2> QED BY <2>1, PrimeType DEF Build, Base, TypeOK
<1>3. /\ pc' = [pc EXCEPT ![t] = "process"] /\ pc[t] = "build"
      /\ wanted' = [wanted EXCEPT ![t] = {}] /\ built' \in BOOLEAN
  BY DEF Build
<1>4. TypeOK'
  BY <1>1, <1>2, <1>3 DEF Base, TypeOK, Handlers
<1>5. LockIsHeld'
  BY <1>1, <1>3 DEF Base, TypeOK, LockIsHeld, Locking
<1>6. EventsInOrder'
  <2>1. \A u \in Threads : rows[u] = {}
    BY <1>3, OneInLock DEF Base, EventsInOrder, Locking
  <2> QED BY <1>1, <1>3, <2>1 DEF Base, TypeOK, EventsInOrder
<1>7. PageHasItsOutage'
  BY <1>1, <1>3 DEF Base, TypeOK, PageHasItsOutage
<1> QED BY <1>4, <1>5, <1>6, <1>7 DEF Base

\* Scoring a report keeps Base: its events are those of the rows it will write.
LEMMA ProcessKeepsBase ==
    ASSUME Base, NEW t \in Threads, NEW S \in SUBSET Devices, NEW res \in Results(S),
           Process(t, S, res)
    PROVE  Base'
<1> DEFINE new    == Cycle(Parents, engine, res, S)
           events == [d \in Devices |->
                        IF d \in S THEN EventOf(engine[d].state, new[d].state) ELSE NoEvent]
<1>1. /\ engine' = new /\ rows' = [rows EXCEPT ![t] = S]
      /\ event' = [event EXCEPT ![t] = events]
      /\ left' = [left EXCEPT ![t] = Pending(events)]
      /\ pc' = [pc EXCEPT ![t] = "apply"] /\ pc[t] = "process" /\ S \subseteq DOMAIN engine
      /\ UNCHANGED <<maintenance, assigned, states, outages, built, lock, full, wanted, oid,
                     torn, missed, upsets>>
  BY DEF Process, db, history
<1>2. new \in [DOMAIN engine -> FSM] /\ DOMAIN new = DOMAIN engine
  <2>1. res \in [S -> Samples]
    BY BrainAssumption DEF Results
  <2> QED BY <1>1, <2>1, CycleType DEF Base, TypeOK
<1>3. /\ events \in [Devices -> Events]
      /\ \A d \in Devices : events[d].kind \in {"opened", "recategorized"} =>
                                events[d].state \in DownFamily
      /\ Pending(events) \subseteq S
  <2> HIDE DEF new
  <2>1. ASSUME NEW d \in Devices
        PROVE  /\ events[d] \in Events
               /\ events[d].kind \in {"opened", "recategorized"} => events[d].state \in DownFamily
               /\ d \notin S => events[d].kind = "none"
    <3>1. CASE d \in S
      <4>1. engine[d].state \in States /\ new[d].state \in States
        BY <1>1, <1>2, <3>1 DEF Base, TypeOK, FSM
      <4>2. events[d] = EventOf(engine[d].state, new[d].state)
        BY <3>1
      <4> HIDE DEF events
      <4> QED BY <3>1, <4>1, <4>2, EventOfType
    <3>2. CASE d \notin S
      BY <3>2 DEF NoEvent, Events, States
    <3> QED BY <3>1, <3>2
  <2>2. events = [d \in Devices |-> events[d]]
    OBVIOUS
  <2> HIDE DEF events
  <2> QED BY <2>1, <2>2 DEF Pending
<1> HIDE DEF new, events
<1>4. TypeOK'
  <2>1. Pending(events) \in SUBSET Devices
    BY DEF Pending
  <2>2. DOMAIN engine' = DOMAIN engine /\ engine' \in [DOMAIN engine -> FSM]
    BY <1>1, <1>2
  <2> QED BY <1>1, <1>3, <2>1, <2>2 DEF Base, TypeOK, Handlers
<1>5. LockIsHeld'
  BY <1>1 DEF Base, TypeOK, LockIsHeld, Locking
<1>6. EventsInOrder'
  <2> SUFFICES ASSUME NEW u \in Threads
               PROVE  /\ pc'[u] \in {"idle", "build", "process"} => Pending(event'[u]) = {}
                      /\ pc'[u] # "apply" => left'[u] = {} /\ rows'[u] = {}
                      /\ left'[u] \subseteq Pending(event'[u])
                      /\ rows'[u] \subseteq DOMAIN engine'
                      /\ \A d \in Devices : event'[u][d].kind \in {"opened", "recategorized"} =>
                                                event'[u][d].state \in DownFamily
    BY DEF EventsInOrder
  <2>1. DOMAIN engine' = DOMAIN engine
    BY <1>1, <1>2
  <2>2. CASE u = t
    <3>1. event'[t] = events /\ left'[t] = Pending(events) /\ rows'[t] = S /\ pc'[t] = "apply"
      BY <1>1 DEF Base, TypeOK
    <3> QED BY <1>1, <1>3, <2>1, <2>2, <3>1
  <2>3. CASE u # t
    <3>1. event'[u] = event[u] /\ left'[u] = left[u] /\ rows'[u] = rows[u] /\ pc'[u] = pc[u]
      BY <1>1, <2>3 DEF Base, TypeOK
    <3> QED BY <2>1, <3>1 DEF Base, EventsInOrder
  <2> QED BY <2>2, <2>3
<1>7. PageHasItsOutage'
  <2> SUFFICES ASSUME NEW u \in Threads, pc'[u] \in {"page", "schedule"}
               PROVE  /\ Pending(event'[u]) # {} /\ oid'[u] \in DOMAIN outages'
                      /\ outages'[oid'[u]].dev = NextOf(Pending(event'[u]))
    BY DEF PageHasItsOutage
  <2>1. u # t
    BY <1>1 DEF Base, TypeOK
  <2> QED BY <1>1, <2>1 DEF Base, TypeOK, PageHasItsOutage
<1> QED BY <1>4, <1>5, <1>6, <1>7 DEF Base

\* A handler with no events has nothing pending.
LEMMA NoEventsType ==
    /\ NoEvents \in [Devices -> Events] /\ Pending(NoEvents) = {}
    /\ \A d \in Devices : NoEvents[d] = NoEvent /\ NoEvents[d].kind = "none"
BY DEF NoEvents, NoEvent, Events, States, Pending

\* A report that is not scored keeps Base: it has rows to write and no events.
LEMMA FrozenKeepsBase ==
    ASSUME Base, NEW t \in Threads, Frozen(t)
    PROVE  Base'
<1>1. /\ rows' = [rows EXCEPT ![t] = DOMAIN engine]
      /\ event' = [event EXCEPT ![t] = NoEvents]
      /\ left' = [left EXCEPT ![t] = {}]
      /\ pc' = [pc EXCEPT ![t] = "apply"] /\ pc[t] = "process"
      /\ UNCHANGED <<maintenance, assigned, states, outages, built, engine, lock, full, wanted,
                     oid, torn, missed, upsets>>
  BY DEF Frozen, db, history
<1>2. TypeOK'
  BY <1>1, NoEventsType DEF Base, TypeOK, Handlers
<1>3. LockIsHeld'
  BY <1>1 DEF Base, TypeOK, LockIsHeld, Locking
<1>4. EventsInOrder'
  BY <1>1, NoEventsType DEF Base, TypeOK, EventsInOrder
<1>5. PageHasItsOutage'
  BY <1>1 DEF Base, TypeOK, PageHasItsOutage
<1> QED BY <1>2, <1>3, <1>4, <1>5 DEF Base

\* Entering an event keeps Base.
LEMMA ApplyKeepsBase ==
    ASSUME Base, NEW t \in Threads, Apply(t)
    PROVE  Base'
<1>1. /\ Grown /\ pc[t] = "apply"
      /\ UNCHANGED <<maintenance, assigned, states, built, engine, lock, pc, full, wanted,
                     rows, event, oid, torn, missed, upsets>>
  BY ApplyEffect DEF Apply, history
<1>2. left' = [left EXCEPT ![t] = @ \ {NextOf(left[t])}]
  BY DEF Apply
<1>3. TypeOK'
  <2>1. 0..Len(outages) \subseteq 0..Len(outages')
    BY <1>1, RowsType, LenProperties DEF Grown, Base
  <2> QED BY <1>1, <1>2, <2>1 DEF Base, TypeOK, Grown
<1>4. LockIsHeld' /\ EventsInOrder'
  BY <1>1, <1>2 DEF Base, TypeOK, LockIsHeld, EventsInOrder
<1>5. PageHasItsOutage'
  BY <1>1, <1>2 DEF Base, TypeOK, PageHasItsOutage, Grown
<1> QED BY <1>3, <1>4, <1>5 DEF Base

\* Writing the states and giving up the lock keeps Base.
LEMMA WriteKeepsBase ==
    ASSUME Base, NEW t \in Threads, Write(t)
    PROVE  Base'
<1>1. /\ pc[t] = "apply" /\ left[t] = {}
      /\ lock' = NoThread /\ rows' = [rows EXCEPT ![t] = {}]
      /\ pc' = [pc EXCEPT ![t] = "dispatch"]
      /\ UNCHANGED <<maintenance, assigned, outages, built, engine, full, wanted, event, left,
                     oid, torn, missed, upsets>>
  BY DEF Write, history
<1>2. states' \in [Devices -> States \cup {"none"}]
  <2>1. \A d \in rows[t] : engine[d].state \in States
    BY DEF Base, TypeOK, EventsInOrder, FSM
  <2> QED BY <2>1 DEF Write, Base, TypeOK
<1>3. TypeOK'
  BY <1>1, <1>2 DEF Base, TypeOK, Handlers
<1>4. LockIsHeld'
  BY <1>1, OneInLock, BrainAssumption DEF Base, TypeOK, LockIsHeld, Locking
<1>5. EventsInOrder'
  BY <1>1 DEF Base, TypeOK, EventsInOrder
<1>6. PageHasItsOutage'
  BY <1>1 DEF Base, TypeOK, PageHasItsOutage
<1> QED BY <1>3, <1>4, <1>5, <1>6 DEF Base

\* A handler that ends, or gives up, leaves nothing in hand.
LEMMA FinishKeepsBase ==
    ASSUME Base, NEW t \in Threads, Finish(t)
    PROVE  Base'
<1>1. /\ Kept /\ pc[t] = "dispatch" /\ Pending(event[t]) = {}
      /\ pc' = [pc EXCEPT ![t] = "idle"] /\ full' = [full EXCEPT ![t] = FALSE]
      /\ UNCHANGED <<maintenance, assigned, states, built, engine, lock, wanted, rows, event,
                     left, oid, torn, missed, upsets>>
  BY FinishEffect DEF Finish, history
<1>2. TypeOK'
  BY <1>1 DEF Base, TypeOK, Handlers, Kept
<1>3. LockIsHeld'
  BY <1>1 DEF Base, TypeOK, LockIsHeld, Locking
<1>4. EventsInOrder'
  BY <1>1 DEF Base, TypeOK, EventsInOrder
<1>5. PageHasItsOutage'
  BY <1>1 DEF Base, TypeOK, PageHasItsOutage, Kept
<1> QED BY <1>2, <1>3, <1>4, <1>5 DEF Base

\* A report that fails gives up the lock and what it had in hand: Base holds.
LEMMA FailKeepsBase ==
    ASSUME Base, NEW t \in Threads, Fail(t)
    PROVE  Base'
<1>1. /\ pc' = [pc EXCEPT ![t] = "idle"] /\ full' = [full EXCEPT ![t] = FALSE]
      /\ wanted' = [wanted EXCEPT ![t] = {}] /\ rows' = [rows EXCEPT ![t] = {}]
      /\ event' = [event EXCEPT ![t] = NoEvents] /\ left' = [left EXCEPT ![t] = {}]
      /\ oid' = [oid EXCEPT ![t] = 0] /\ lock' = IF lock = t THEN NoThread ELSE lock
      /\ UNCHANGED <<maintenance, assigned, states, outages, built, engine>>
  BY DEF Fail, db
<1>2. torn' \in SUBSET Devices /\ missed' \in SUBSET Devices /\ upsets' \in Nat
  <2>1. HalfWritten(t) \in SUBSET Devices /\ HalfSent(t) \in SUBSET Devices
    BY DEF HalfWritten, HalfSent, Pending
  <2> QED BY <2>1 DEF Fail, Upset, Base, TypeOK
<1>3. TypeOK'
  <2>1. 0 \in 0..Len(outages)
    BY RowsType DEF Base
  <2> QED BY <1>1, <1>2, <2>1, NoEventsType DEF Base, TypeOK, Handlers
<1>4. LockIsHeld'
  BY <1>1, BrainAssumption DEF Base, TypeOK, LockIsHeld, Locking
<1>5. EventsInOrder'
  BY <1>1, NoEventsType DEF Base, TypeOK, EventsInOrder
<1>6. PageHasItsOutage'
  BY <1>1 DEF Base, TypeOK, PageHasItsOutage
<1> QED BY <1>3, <1>4, <1>5, <1>6 DEF Base

\* A restart finds every handler idle and no engine: Base holds.
LEMMA CrashKeepsBase ==
    ASSUME Base, Crash
    PROVE  Base'
<1>1. /\ Kept /\ UNCHANGED <<maintenance, assigned, states>>
      /\ built' = FALSE /\ engine' = <<>> /\ lock' = NoThread
      /\ pc' = [t \in Threads |-> "idle"] /\ full' = [t \in Threads |-> FALSE]
      /\ wanted' = [t \in Threads |-> {}] /\ rows' = [t \in Threads |-> {}]
      /\ event' = [t \in Threads |-> NoEvents] /\ left' = [t \in Threads |-> {}]
      /\ oid' = [t \in Threads |-> 0]
  BY CrashEffect DEF Crash
<1>2. torn' \in SUBSET Devices /\ missed' \in SUBSET Devices /\ upsets' \in Nat
  <2>1. \A t \in Threads : HalfWritten(t) \subseteq Devices /\ HalfSent(t) \subseteq Devices
    BY DEF HalfWritten, HalfSent, Pending
  <2> HIDE DEF HalfWritten, HalfSent
  <2>2. torn' \subseteq Devices
    BY <2>1 DEF Crash, Base, TypeOK
  <2>3. missed' \subseteq Devices
    <3> SUFFICES ASSUME NEW d \in missed' PROVE d \in Devices
      OBVIOUS
    <3>1. \/ d \in missed \/ \E t \in Threads : d \in HalfSent(t)
          \/ \E o \in DOMAIN outages : d = outages[o].dev /\ outages[o].queued > 0
      BY DEF Crash
    <3>2. \A o \in DOMAIN outages : outages[o].dev \in Devices
      BY RowsType DEF Base, Outages
    <3> QED BY <2>1, <3>1, <3>2 DEF Base, TypeOK
  <2> QED BY <2>2, <2>3 DEF Crash, Upset, Base, TypeOK
<1>3. TypeOK'
  <2>1. DOMAIN engine' = {} /\ engine' \in [DOMAIN engine' -> FSM]
    BY <1>1
  <2>2. 0 \in 0..Len(outages')
    BY <1>1, RowsType DEF Base, Kept
  <2> QED BY <1>1, <1>2, <2>1, <2>2, NoEventsType DEF Base, TypeOK, Handlers, Kept
<1>4. LockIsHeld'
  BY <1>1, BrainAssumption DEF LockIsHeld, Locking
<1>5. EventsInOrder'
  BY <1>1, NoEventsType DEF EventsInOrder
<1>6. PageHasItsOutage'
  BY <1>1 DEF PageHasItsOutage
<1> QED BY <1>3, <1>4, <1>5, <1>6 DEF Base

-----------------------------------------------------------------------------
\* Base is inductive.
LEMMA BaseStep == Base /\ [Next]_vars => Base'
<1> SUFFICES ASSUME Base, [Next]_vars PROVE Base'
  OBVIOUS
<1>1. CASE UNCHANGED vars
  <2>1. Kept
    BY <1>1, SameKept DEF vars, db, Base
  <2> QED BY <1>1, <2>1, OutsideKeepsBase DEF vars, db, history, Base, TypeOK
<1>2. ASSUME NEW t \in Threads, NEW isFull \in BOOLEAN, Begin(t, isFull) PROVE Base'
  BY <1>2, BeginKeepsBase
<1>3. ASSUME NEW t \in Threads, Step(t) PROVE Base'
  BY <1>3, BuildKeepsBase, ProcessKeepsBase, FrozenKeepsBase, ApplyKeepsBase,
     WriteKeepsBase, DispatchKeepsBase, FinishKeepsBase DEF Step
<1>4. ASSUME NEW t \in Threads, Fail(t) PROVE Base'
  BY <1>4, FailKeepsBase
<1>5. CASE \/ \E o \in DOMAIN outages : Tick(o) \/ \E ok \in BOOLEAN : Deliver(o, ok)
           \/ \E d \in Devices : SetMaintenance(d) \/ Assign(d) \/ Unassign(d)
  BY <1>5, OutsideStepsKeepBase
<1>6. CASE Crash
  BY <1>6, CrashKeepsBase
<1> QED BY <1>1, <1>2, <1>3, <1>4, <1>5, <1>6 DEF Next

\* In every run the types hold, the org lock is held by exactly the handler that is
\* between the topology read and the write of the states, the events of a handler are
\* in order, and what it pages is an outage of the device whose event it dispatches.
THEOREM BaseHolds == Spec => []Base
BY BaseInit, BaseStep, PTL DEF Spec

\* The types of the central brain hold in every run.
THEOREM TypeCorrect == Spec => []TypeOK
<1>1. Base => TypeOK
  BY DEF Base
<1> QED BY <1>1, BaseHolds, PTL

-----------------------------------------------------------------------------
\* What steps do to the table.
Unmoved == Kept /\ \A o \in DOMAIN outages : outages'[o].open = outages[o].open

\* Only apply_events and taking a device off the inventory open or close outages.
LEMMA TableSteps ==
    ASSUME Base, [Next]_vars
    PROVE  \/ Unmoved
           \/ \E t \in Threads : Apply(t)
           \/ \E d \in Devices : Unassign(d)
<1>1. ASSUME UNCHANGED outages PROVE Unmoved
  BY <1>1, SameKept DEF Unmoved, Base
<1>2. CASE UNCHANGED vars
  BY <1>1, <1>2 DEF vars, db
<1>3. ASSUME NEW t \in Threads, NEW isFull \in BOOLEAN, Begin(t, isFull) PROVE Unmoved
  BY <1>1, <1>3 DEF Begin, db
<1>4. ASSUME NEW t \in Threads, Fail(t) PROVE Unmoved
  BY <1>1, <1>4 DEF Fail, db
<1>5. ASSUME NEW t \in Threads, Step(t) PROVE Unmoved \/ Apply(t)
  <2>1. CASE Build(t) \/ Frozen(t) \/ Write(t) \/ FindOutage(t) \/ Suppress(t)
    BY <1>1, <2>1 DEF Build, Frozen, Write, FindOutage, Suppress, db
  <2>2. ASSUME NEW S \in SUBSET Devices, NEW res \in Results(S), Process(t, S, res)
        PROVE  Unmoved
    BY <1>1, <2>2 DEF Process, db
  <2>3. CASE Page(t)
    BY <2>3, PageEffect DEF Unmoved
  <2>4. CASE Schedule(t)
    BY <2>4, ScheduleEffect DEF Unmoved
  <2>5. CASE Cancel(t)
    BY <2>5, CancelEffect DEF Unmoved
  <2>6. CASE Finish(t)
    BY <2>6, FinishEffect DEF Unmoved
  <2> QED BY <1>5, <2>1, <2>2, <2>3, <2>4, <2>5, <2>6 DEF Step
<1>6. ASSUME NEW o \in DOMAIN outages, Tick(o) PROVE Unmoved
  BY <1>6, TickEffect DEF Unmoved
<1>7. ASSUME NEW o \in DOMAIN outages, NEW ok \in BOOLEAN, Deliver(o, ok) PROVE Unmoved
  BY <1>7, DeliverEffect DEF Unmoved
<1>8. ASSUME NEW d \in Devices, SetMaintenance(d) \/ Assign(d) PROVE Unmoved
  BY <1>1, <1>8 DEF SetMaintenance, Assign
<1>9. CASE Crash
  BY <1>9, CrashEffect DEF Unmoved
<1> QED BY <1>2, <1>3, <1>4, <1>5, <1>6, <1>7, <1>8, <1>9 DEF Next

\* An open outage is the latest of its device.
LatestIsOpen ==
    \A o, p \in DOMAIN outages :
        outages[o].open /\ outages[o].dev = outages[p].dev => p <= o

\* No step opens an outage before the latest of its device, or reopens one.
LEMMA LatestStep ==
    ASSUME Base, LatestIsOpen, [Next]_vars
    PROVE  LatestIsOpen'
<1>1. ASSUME Kept PROVE LatestIsOpen'
  BY <1>1 DEF Kept, LatestIsOpen
<1>2. CASE Unmoved
  BY <1>1, <1>2 DEF Unmoved
<1>3. ASSUME NEW d \in Devices, Unassign(d) PROVE LatestIsOpen'
  BY <1>1, <1>3, UnassignEffect
<1>4. ASSUME NEW t \in Threads, Apply(t) PROVE LatestIsOpen'
  <2> DEFINE d == NextOf(left[t])
             ev == event[t][d]
  <2>1. /\ Grown /\ d \in Devices
        /\ \/ ev.kind = "opened" /\ ev.state \in DownFamily /\ Opened(d, ev.state)
           \/ ev.kind = "opened" /\ OpenOf(d) # {} /\ UNCHANGED outages
           \/ ev.kind = "recategorized" /\ ev.state \in DownFamily /\ Recategorized(d, ev.state)
           \/ ev.kind = "resolved" /\ Resolved(d)
    BY <1>4, ApplyEffect
  <2> HIDE DEF d, ev
  <2>2. CASE ev.kind = "opened" /\ ev.state \in DownFamily /\ Opened(d, ev.state)
    <3> DEFINE n == Len(outages) + 1
    <3>1. /\ Len(outages) \in Nat /\ DOMAIN outages = 1..Len(outages)
          /\ DOMAIN outages' = DOMAIN outages \cup {n}
      BY <2>2, RowsType DEF Base, Opened
    <3>2. /\ outages'[n].dev = d
          /\ \A o \in DOMAIN outages : outages'[o] = outages[o]
      BY <2>1, <2>2, NewOutageType DEF Opened
    <3>3. \A o \in DOMAIN outages : outages[o].open => outages[o].dev # d
      BY <2>2 DEF Opened, OpenOf
    <3> HIDE DEF n
    <3>4. \A o \in DOMAIN outages : o <= n
      BY <3>1 DEF n
    <3>5. n <= n
      BY <3>1 DEF n
    <3> QED BY <3>1, <3>2, <3>3, <3>4, <3>5 DEF LatestIsOpen
  <2>3. CASE UNCHANGED outages
    BY <2>3 DEF LatestIsOpen
  <2>4. CASE Recategorized(d, ev.state)
    BY <2>1, <2>4 DEF Grown, Recategorized, OpenOf, LatestIsOpen
  <2>5. CASE Resolved(d)
    BY <2>1, <2>5 DEF Grown, Resolved, LatestIsOpen
  <2> QED BY <2>1, <2>2, <2>3, <2>4, <2>5
<1> QED BY <1>2, <1>3, <1>4, TableSteps

\* An open outage is the latest of its device, whatever reports overtake each other or
\* are lost: so a device has at most one open outage, and the handlers that look for
\* "the" open outage of a device (ORDER BY id DESC LIMIT 1) find the one there is.
THEOREM LatestOutageIsTheOpenOne == Spec => []LatestIsOpen
<1>1. Init => LatestIsOpen
  BY DEF Init, LatestIsOpen
<1>2. Base /\ LatestIsOpen /\ [Next]_vars => LatestIsOpen'
  BY LatestStep
<1> QED BY <1>1, <1>2, BaseHolds, PTL DEF Spec

-----------------------------------------------------------------------------
\* The ledger a reader sees in the table.
LedgerRows ==
    [o \in DOMAIN outages |->
        [dev |-> outages[o].dev, cat |-> outages[o].cat, open |-> outages[o].open]]

\* The rows of the next table have their types.
LEMMA PrimedRowsType ==
    ASSUME outages' \in Seq(Outages)
    PROVE  \A o \in DOMAIN outages' : outages'[o] \in Outages
BY ElementOfSeq, LenProperties

\* Closing a row of the ledger changes its open column alone.
LEMMA RowClosed ==
    ASSUME NEW dev, NEW cat, NEW open, NEW row,
           row = [dev |-> dev, cat |-> cat, open |-> open]
    PROVE  [row EXCEPT !.open = FALSE] = [dev |-> dev, cat |-> cat, open |-> FALSE]
<1> DEFINE new == FALSE
<1> HIDE DEF new
<1>1. [row EXCEPT !.open = new] = [dev |-> dev, cat |-> cat, open |-> new]
  OBVIOUS
<1> QED BY <1>1 DEF new

\* Closing the open outage of a device is the ledger's Resolve.
LEMMA LedgerResolve ==
    ASSUME Base, NEW d \in Devices, outages' \in Seq(Outages),
           DOMAIN outages' = DOMAIN outages,
           \A o \in DOMAIN outages :
               /\ outages'[o].dev = outages[o].dev /\ outages'[o].cat = outages[o].cat
               /\ outages'[o].open <=> outages[o].open /\ outages[o].dev # d
    PROVE  Ledger!Resolve(d)
<1>1. ASSUME NEW o \in DOMAIN outages
      PROVE  LedgerRows'[o] = IF LedgerRows[o].dev = d /\ LedgerRows[o].open
                              THEN [LedgerRows[o] EXCEPT !.open = FALSE] ELSE LedgerRows[o]
  <2>1. outages[o].open \in BOOLEAN /\ outages'[o].open \in BOOLEAN
    BY RowsType, PrimedRowsType DEF Base, Outages
  <2>2. LedgerRows[o] = [dev |-> outages[o].dev, cat |-> outages[o].cat,
                         open |-> outages[o].open]
    BY DEF LedgerRows
  <2>3. LedgerRows'[o] = [dev |-> outages[o].dev, cat |-> outages[o].cat,
                          open |-> outages'[o].open]
    BY DEF LedgerRows
  <2>4. outages'[o].open = IF outages[o].dev = d /\ outages[o].open THEN FALSE
                           ELSE outages[o].open
    BY <2>1
  <2>5. CASE outages[o].dev = d /\ outages[o].open
    <3>1. LedgerRows[o].dev = d /\ LedgerRows[o].open
      BY <2>2, <2>5
    <3>2. [LedgerRows[o] EXCEPT !.open = FALSE] =
            [dev |-> outages[o].dev, cat |-> outages[o].cat, open |-> FALSE]
      BY <2>2, RowClosed
    <3> QED BY <2>3, <2>4, <2>5, <3>1, <3>2
  <2>6. CASE ~(outages[o].dev = d /\ outages[o].open)
    <3>1. ~(LedgerRows[o].dev = d /\ LedgerRows[o].open)
      BY <2>2, <2>6
    <3>2. LedgerRows'[o] = LedgerRows[o]
      BY <2>2, <2>3, <2>4, <2>6
    <3> QED BY <3>1, <3>2
  <2> QED BY <2>5, <2>6
<1>2. LedgerRows' = [o \in DOMAIN LedgerRows |-> LedgerRows'[o]]
  BY DEF LedgerRows
<1>3. DOMAIN LedgerRows = DOMAIN outages
  BY DEF LedgerRows
<1>4. LedgerRows' = [o \in DOMAIN LedgerRows |->
                        IF LedgerRows[o].dev = d /\ LedgerRows[o].open
                        THEN [LedgerRows[o] EXCEPT !.open = FALSE] ELSE LedgerRows[o]]
  BY <1>1, <1>2, <1>3
<1> QED BY <1>4 DEF Ledger!Resolve, LedgerRows

\* An empty table is an empty ledger.
LEMMA LedgerInit == Init => Ledger!Init
<1> SUFFICES ASSUME Init PROVE LedgerRows = <<>>
  BY DEF Ledger!Init, LedgerRows
<1>1. outages = <<>> /\ DOMAIN outages = {}
  BY DEF Init
<1> QED BY <1>1 DEF LedgerRows

\* Entering an event is a step of the ledger, or none.
LEMMA LedgerApply ==
    ASSUME Base, NEW t \in Threads, Apply(t)
    PROVE  [Ledger!Next]_LedgerRows
<1>1. PICK d \in Devices, c \in DownFamily :
        /\ Grown
        /\ \/ Opened(d, c) \/ UNCHANGED outages \/ Recategorized(d, c) \/ Resolved(d)
  <2> DEFINE e  == NextOf(left[t])
             ev == event[t][e]
  <2>1. /\ Grown /\ e \in Devices
        /\ \/ ev.state \in DownFamily /\ Opened(e, ev.state)
           \/ UNCHANGED outages
           \/ ev.state \in DownFamily /\ Recategorized(e, ev.state)
           \/ Resolved(e)
    BY ApplyEffect
  <2>2. "DOWN" \in DownFamily
    BY DEF DownFamily
  <2> HIDE DEF e, ev
  <2> QED BY <2>1, <2>2
<1>2. \A o \in DOMAIN outages :
        /\ LedgerRows[o].dev = outages[o].dev /\ LedgerRows[o].open = outages[o].open
        /\ LedgerRows[o] = [dev |-> outages[o].dev, cat |-> outages[o].cat,
                            open |-> outages[o].open]
  BY DEF LedgerRows
<1>3. /\ DOMAIN LedgerRows = DOMAIN outages /\ DOMAIN LedgerRows' = DOMAIN outages'
      /\ LedgerRows' = [o \in DOMAIN outages' |-> LedgerRows'[o]]
      /\ \A o \in DOMAIN outages' :
            LedgerRows'[o] = [dev |-> outages'[o].dev, cat |-> outages'[o].cat,
                              open |-> outages'[o].open]
  BY DEF LedgerRows
<1>4. CASE Opened(d, c)
  <2> DEFINE n == Len(outages)
             new == [dev |-> d, cat |-> c, open |-> TRUE]
  <2>1. /\ n \in Nat /\ DOMAIN outages = 1..n /\ DOMAIN outages' = 1..(n + 1)
        /\ \A o \in 1..n : outages'[o] = outages[o]
    BY <1>4, RowsType DEF Base, Opened
  <2>2. /\ outages'[n + 1].dev = d /\ outages'[n + 1].cat = c
        /\ outages'[n + 1].open = TRUE
    BY <1>1, <1>4 DEF Opened, NewOutage
  <2>3. LedgerRows' = [o \in 1..(n + 1) |-> IF o = n + 1 THEN new ELSE LedgerRows[o]]
    <3>1. LedgerRows' = [o \in 1..(n + 1) |-> LedgerRows'[o]]
      BY <1>3, <2>1
    <3>2. LedgerRows'[n + 1] = new
      <4>1. n + 1 \in DOMAIN outages'
        BY <2>1
      <4> QED BY <1>3, <2>2, <4>1
    <3>3. ASSUME NEW o \in 1..(n + 1), o # n + 1 PROVE LedgerRows'[o] = LedgerRows[o]
      <4>1. o \in 1..n
        BY <2>1, <3>3
      <4>2. o \in DOMAIN outages /\ o \in DOMAIN outages'
        BY <2>1, <4>1
      <4> QED BY <1>2, <1>3, <2>1, <4>1, <4>2
    <3> HIDE DEF n, new
    <3> QED BY <3>1, <3>2, <3>3
  <2>4. LedgerRows' = Append(LedgerRows, new)
    <3> DEFINE old == LedgerRows
               all == {old[o] : o \in 1..n} \cup {new}
               grown == [o \in 1..(n + 1) |-> IF o = n + 1 THEN new ELSE old[o]]
    <3>1. old \in [1..n -> all] /\ grown \in [1..(n + 1) -> all] /\ new \in all
      BY <2>1 DEF LedgerRows
    <3>2. LedgerRows' = grown
      BY <2>3
    <3> HIDE DEF n, new, all, grown, old
    <3>3. old \in Seq(all) /\ Len(old) = n /\ grown \in Seq(all) /\ Len(grown) = n + 1
      BY <2>1, <3>1, IsASeq
    <3>4. /\ Append(old, new) \in Seq(all) /\ Len(Append(old, new)) = n + 1
          /\ \A o \in 1..n : Append(old, new)[o] = old[o]
          /\ Append(old, new)[n + 1] = new
      BY <3>1, <3>3, AppendProperties
    <3>5. \A o \in 1..(n + 1) : grown[o] = IF o = n + 1 THEN new ELSE old[o]
      BY DEF grown
    <3>6. grown = Append(old, new)
      BY <2>1, <3>3, <3>4, <3>5, SeqEqual
    <3> QED BY <3>2, <3>6 DEF old
  <2>5. ~Ledger!IsOpen(d)
    <3>1. \A o \in DOMAIN outages : ~(outages[o].dev = d /\ outages[o].open)
      BY <1>4 DEF Opened, OpenOf
    <3> QED BY <1>2, <1>3, <3>1 DEF Ledger!IsOpen, LedgerRows
  <2>6. Ledger!Open(d, c)
    BY <2>3, <2>4, <2>5 DEF Ledger!Open, LedgerRows
  <2> QED BY <2>6 DEF Ledger!Next
<1>5. CASE UNCHANGED outages
  BY <1>5 DEF LedgerRows
<1>6. CASE Recategorized(d, c)
  <2>1. LedgerRows' =
          [o \in DOMAIN LedgerRows |->
              IF LedgerRows[o].dev = d /\ LedgerRows[o].open
              THEN [LedgerRows[o] EXCEPT !.cat = c] ELSE LedgerRows[o]]
    BY <1>1, <1>2, <1>3, <1>6 DEF Grown, Recategorized, OpenOf, LedgerRows
  <2> QED BY <2>1 DEF Ledger!Next, Ledger!Recategorize, LedgerRows
<1>7. CASE Resolved(d)
  <2>1. Ledger!Resolve(d)
    BY <1>1, <1>7, LedgerResolve DEF Grown, Resolved
  <2> QED BY <2>1 DEF Ledger!Next
<1> QED BY <1>1, <1>4, <1>5, <1>6, <1>7

\* Every step of the brain is a step of the ledger, or none.
LEMMA LedgerStep ==
    ASSUME Base, [Next]_vars
    PROVE  [Ledger!Next]_LedgerRows
<1>1. CASE Unmoved
  BY <1>1 DEF Unmoved, Kept, LedgerRows
<1>2. ASSUME NEW t \in Threads, Apply(t) PROVE [Ledger!Next]_LedgerRows
  BY <1>2, LedgerApply
<1>3. ASSUME NEW d \in Devices, Unassign(d) PROVE [Ledger!Next]_LedgerRows
  <2>1. Kept /\ \A o \in DOMAIN outages : outages'[o].open <=> outages[o].open /\ outages[o].dev # d
    BY <1>3, UnassignEffect
  <2>2. Ledger!Resolve(d)
    BY <2>1, LedgerResolve DEF Kept
  <2> QED BY <2>2 DEF Ledger!Next
<1> QED BY <1>1, <1>2, <1>3, TableSteps

\* The brain, with its threads, faults, restarts and edits, implements the outage
\* ledger: outages open once, are renamed only while open and are never reopened.
THEOREM BrainImplementsLedger == Spec => ImplementsLedger
<1>1. Base /\ [Next]_vars => [Ledger!Next]_LedgerRows
  BY LedgerStep
<1> QED BY <1>1, LedgerInit, BaseHolds, PTL DEF Spec, ImplementsLedger, Ledger!Spec, LedgerRows

-----------------------------------------------------------------------------
\* The open outages of a device are what category c tells.
Tells(d, c) ==
    /\ c = "none" <=> OpenOf(d) = {}
    /\ \A o \in OpenOf(d) : outages[o].cat = c

\* Engine, persisted state and ledger agree on the device.
Settled(d) ==
    /\ Tells(d, Category(states[d]))
    /\ d \in DOMAIN engine => Category(engine[d].state) = Category(states[d])

\* The event is that of a device that goes from one category to another.
Fits(ev, old, new) ==
    /\ ev.kind = "opened" => old = "none" /\ new = ev.state
    /\ ev.kind = "recategorized" => old # "none" /\ new = ev.state
    /\ ev.kind = "resolved" => old # "none" /\ new = "none"

\* A device whose event thread t is entering: the engine is ahead of the states
\* by this event, and so is the ledger once it is entered.
Entering(t, d) ==
    /\ d \in rows[t]
    /\ Fits(event[t][d], Category(states[d]), Category(engine[d].state))
    /\ Tells(d, IF d \in left[t] THEN Category(states[d]) ELSE Category(engine[d].state))

\* A device whose event no handler is entering is settled.
SettledUnlessEntering ==
    \A d \in Devices \ torn :
        (\A t \in Threads : pc[t] = "apply" => d \notin Pending(event[t])) => Settled(d)

\* A device whose event a handler is entering is between two states of the ledger.
EnteringInStep ==
    \A t \in Threads :
        pc[t] = "apply" => \A d \in Pending(event[t]) \ torn : Entering(t, d)

\* Engine, ledger and states move in step: the engine first, by the events of the
\* cycle, then the ledger, event by event, and the states with the write.
Agreement == SettledUnlessEntering /\ EnteringInStep

-----------------------------------------------------------------------------
\* What the ledger can say of a device.
Categories == DownFamily \cup {"none"}

\* Every state has a category.
LEMMA CategoryIn == \A s : Category(s) \in Categories
BY DEF Category, Categories

\* A device whose outages a step leaves open or closed, under their category.
LEMMA TellsKept ==
    ASSUME Base, Kept, NEW d \in Devices,
           \A o \in DOMAIN outages : outages[o].dev = d => outages'[o].open = outages[o].open
    PROVE  /\ OpenOf(d)' = OpenOf(d)
           /\ \A o \in OpenOf(d) : outages'[o].cat = outages[o].cat
BY DEF Kept, OpenOf

\* A step after which every thread that applies goes on as before, or has marked
\* what it leaves.
Aside ==
    /\ UNCHANGED <<states, engine>> /\ torn \subseteq torn'
    /\ \A t \in Threads : pc'[t] = "apply" =>
          /\ pc[t] = "apply" /\ event'[t] = event[t]
          /\ left'[t] = left[t] /\ rows'[t] = rows[t]
    /\ \A t \in Threads : pc[t] = "apply" =>
          pc'[t] = "apply" \/ Pending(event[t]) \subseteq torn'

\* Steps beside the engine, the states and the open outages keep the agreement.
LEMMA AsideKeepsAgreement ==
    ASSUME Base, Agreement, Unmoved, Aside
    PROVE  Agreement'
<1>1. ASSUME NEW d \in Devices, NEW c \in Categories, Tells(d, c) PROVE Tells(d, c)'
  <2>1. OpenOf(d)' = OpenOf(d) /\ \A o \in OpenOf(d) : outages'[o].cat = outages[o].cat
    BY TellsKept DEF Unmoved
  <2> QED BY <1>1, <2>1 DEF Tells
<1>2. SettledUnlessEntering'
  <2> SUFFICES ASSUME NEW d \in Devices \ torn',
                      \A t \in Threads : pc'[t] = "apply" => d \notin Pending(event'[t])
               PROVE  Settled(d)'
    BY DEF SettledUnlessEntering
  <2>1. \A t \in Threads : pc[t] = "apply" => d \notin Pending(event[t])
    BY DEF Aside
  <2>2. Settled(d)
    BY <2>1 DEF Agreement, SettledUnlessEntering, Aside
  <2>3. Tells(d, Category(states[d]))'
    BY <1>1, <2>2, CategoryIn DEF Settled, Aside
  <2> QED BY <2>2, <2>3 DEF Settled, Aside
<1>3. EnteringInStep'
  <2> SUFFICES ASSUME NEW t \in Threads, pc'[t] = "apply",
                      NEW d \in Devices, d \in Pending(event'[t]), d \notin torn'
               PROVE  Entering(t, d)'
    BY DEF EnteringInStep, Pending
  <2>1. /\ pc[t] = "apply" /\ event'[t] = event[t]
        /\ left'[t] = left[t] /\ rows'[t] = rows[t]
        /\ UNCHANGED <<states, engine>>
    BY DEF Aside
  <2>2. Entering(t, d)
    BY <2>1 DEF Agreement, EnteringInStep, Aside
  <2>3. Tells(d, IF d \in left[t] THEN Category(states[d]) ELSE Category(engine[d].state))'
    BY <1>1, <2>1, <2>2, CategoryIn DEF Entering
  <2> QED BY <2>1, <2>2, <2>3 DEF Entering
<1> QED BY <1>2, <1>3 DEF Agreement

\* The rebuilt engine is in the persisted states.
LEMMA BuildKeepsAgreement ==
    ASSUME Base, Agreement, NEW t \in Threads, Build(t)
    PROVE  Agreement'
<1>1. /\ UNCHANGED <<states, outages, event, torn>>
      /\ pc[t] = "build" /\ pc' = [pc EXCEPT ![t] = "process"]
      /\ \A d \in DOMAIN engine' :
            engine'[d].state = IF states[d] = "none" THEN "UP" ELSE states[d]
  <2>1. \A d \in wanted[t] :
          engine'[d] = Prime(IF states[d] = "none" THEN "UP" ELSE states[d])
    BY DEF Build
  <2>2. DOMAIN engine' = wanted[t]
    BY DEF Build
  <2> QED BY <2>1, <2>2 DEF Build, db, history, Prime
<1>2. \A u \in Threads : pc[u] # "apply" /\ pc'[u] # "apply"
  BY <1>1, OneInLock DEF Locking, Base, TypeOK
<1>3. ASSUME NEW d \in Devices \ torn' PROVE Settled(d)'
  <2>1. Settled(d)
    BY <1>1, <1>2 DEF Agreement, SettledUnlessEntering
  <2>2. Tells(d, Category(states[d]))'
    BY <1>1, <2>1 DEF Settled, Tells, OpenOf
  <2>3. d \in DOMAIN engine' => Category(engine'[d].state) = Category(states[d])
    BY <1>1 DEF Category, DownFamily
  <2> QED BY <1>1, <2>2, <2>3 DEF Settled
<1> QED BY <1>2, <1>3 DEF Agreement, SettledUnlessEntering, EnteringInStep

\* The event of two states is that of their categories: EventOf tells the ledger all it
\* has to know, and nothing when the category stays.
LEMMA EventFits ==
    ASSUME NEW old \in States, NEW new \in States
    PROVE  /\ Fits(EventOf(old, new), Category(old), Category(new))
           /\ EventOf(old, new).kind = "none" => Category(old) = Category(new)
BY DEF EventOf, NoEvent, Fits, Category, DownFamily, States

\* A cycle moves the engine ahead of the ledger by the events it yields.
LEMMA ProcessKeepsAgreement ==
    ASSUME Base, Agreement, NEW t \in Threads, NEW S \in SUBSET Devices,
           NEW res \in Results(S), Process(t, S, res)
    PROVE  Agreement'
<1> DEFINE new    == Cycle(Parents, engine, res, S)
           events == [d \in Devices |->
                        IF d \in S THEN EventOf(engine[d].state, new[d].state) ELSE NoEvent]
<1>1. /\ engine' = new /\ rows' = [rows EXCEPT ![t] = S]
      /\ event' = [event EXCEPT ![t] = events]
      /\ left' = [left EXCEPT ![t] = Pending(events)]
      /\ pc' = [pc EXCEPT ![t] = "apply"] /\ pc[t] = "process" /\ S \subseteq DOMAIN engine
      /\ UNCHANGED <<states, outages, torn>>
  BY DEF Process, db, history
<1>2. /\ new \in [DOMAIN engine -> FSM] /\ DOMAIN new = DOMAIN engine
      /\ \A d \in DOMAIN engine \ S : new[d] = engine[d]
  <2>1. res \in [S -> Samples]
    BY BrainAssumption DEF Results
  <2>2. \A d \in DOMAIN engine \ S : new[d] = engine[d]
    BY DEF Cycle
  <2> QED BY <1>1, <2>1, <2>2, CycleType DEF Base, TypeOK
<1> HIDE DEF new
<1>3. \A u \in Threads : pc[u] # "apply"
  BY <1>1, OneInLock DEF Locking
<1>4. \A u \in Threads : pc'[u] = "apply" <=> u = t
  BY <1>1, <1>3 DEF Base, TypeOK
<1>5. event'[t] = events /\ left'[t] = Pending(events) /\ rows'[t] = S
  BY <1>1 DEF Base, TypeOK
<1>6. ASSUME NEW d \in Devices \ torn PROVE Settled(d)
  BY <1>3, <1>6 DEF Agreement, SettledUnlessEntering
<1>7. ASSUME NEW d \in S
      PROVE  /\ Fits(events[d], Category(engine[d].state), Category(new[d].state))
             /\ events[d].kind = "none" => Category(engine[d].state) = Category(new[d].state)
  <2>1. engine[d].state \in States /\ new[d].state \in States
    BY <1>1, <1>2 DEF Base, TypeOK, FSM
  <2>2. events[d] = EventOf(engine[d].state, new[d].state)
    OBVIOUS
  <2> HIDE DEF events
  <2> QED BY <2>1, <2>2, EventFits
<1>8. \A d \in Devices \ S : events[d].kind = "none"
  BY DEF NoEvent
<1> HIDE DEF events
<1>9. SettledUnlessEntering'
  <2> SUFFICES ASSUME NEW d \in Devices \ torn',
                      \A u \in Threads : pc'[u] = "apply" => d \notin Pending(event'[u])
               PROVE  Settled(d)'
    BY DEF SettledUnlessEntering
  <2>1. events[d].kind = "none"
    BY <1>4, <1>5 DEF Pending
  <2>2. Settled(d)
    BY <1>1, <1>6
  <2>3. Tells(d, Category(states[d]))'
    BY <1>1, <2>2 DEF Settled, Tells, OpenOf
  <2>4. d \in DOMAIN engine => Category(new[d].state) = Category(engine[d].state)
    BY <1>2, <1>7, <2>1
  <2> QED BY <1>1, <1>2, <2>2, <2>3, <2>4 DEF Settled
<1>10. EnteringInStep'
  <2> SUFFICES ASSUME NEW d \in Devices, d \in Pending(events), d \notin torn'
               PROVE  Entering(t, d)'
    BY <1>4, <1>5 DEF EnteringInStep, Pending
  <2>1. d \in S
    BY <1>8 DEF Pending
  <2>2. Settled(d)
    BY <1>1, <1>6
  <2>3. Tells(d, Category(states[d]))'
    BY <1>1, <2>2 DEF Settled, Tells, OpenOf
  <2>4. Fits(events[d], Category(states[d]), Category(new[d].state))
    BY <1>1, <1>7, <2>1, <2>2 DEF Settled
  <2>5. d \in left'[t]
    BY <1>5
  <2>6. Fits(event'[t][d], Category(states'[d]), Category(engine'[d].state))
    BY <1>1, <1>5, <2>4
  <2>7. Tells(d, IF d \in left[t] THEN Category(states[d]) ELSE Category(engine[d].state))'
    BY <2>3, <2>5
  <2> QED BY <1>5, <2>1, <2>6, <2>7 DEF Entering
<1> QED BY <1>9, <1>10 DEF Agreement

\* A report that is not scored leaves engine and ledger alone.
LEMMA FrozenKeepsAgreement ==
    ASSUME Base, Agreement, NEW t \in Threads, Frozen(t)
    PROVE  Agreement'
<1>1. /\ event' = [event EXCEPT ![t] = NoEvents]
      /\ pc' = [pc EXCEPT ![t] = "apply"] /\ pc[t] = "process"
      /\ UNCHANGED <<states, outages, engine, torn>>
  BY DEF Frozen, db, history
<1>2. \A u \in Threads : pc[u] # "apply"
  BY <1>1, OneInLock DEF Locking
<1>3. \A u \in Threads : pc'[u] = "apply" => u = t
  BY <1>1, <1>2 DEF Base, TypeOK
<1>4. event'[t] = NoEvents /\ Pending(event'[t]) = {}
  BY <1>1, NoEventsType DEF Base, TypeOK
<1>5. ASSUME NEW d \in Devices \ torn' PROVE Settled(d)'
  <2>1. Settled(d)
    BY <1>1, <1>2 DEF Agreement, SettledUnlessEntering
  <2> QED BY <1>1, <2>1 DEF Settled, Tells, OpenOf
<1> QED BY <1>3, <1>4, <1>5 DEF Agreement, SettledUnlessEntering, EnteringInStep

\* What Apply does, for the device whose event it enters.
EntersEvent(t, d, ev) ==
    /\ d \in left[t] /\ d \in Pending(event[t]) /\ ev = event[t][d]
    /\ left' = [left EXCEPT ![t] = @ \ {d}]
    /\ Grown
    /\ \/ ev.kind = "opened" /\ ev.state \in DownFamily /\ Opened(d, ev.state)
       \/ ev.kind = "opened" /\ OpenOf(d) # {} /\ UNCHANGED outages
       \/ ev.kind = "recategorized" /\ ev.state \in DownFamily /\ Recategorized(d, ev.state)
       \/ ev.kind = "resolved" /\ Resolved(d)

\* Apply enters the event of a device that is left.
LEMMA ApplyEnters ==
    ASSUME Base, NEW t \in Threads, Apply(t)
    PROVE  \E d \in Devices, ev \in Events : EntersEvent(t, d, ev)
<1> DEFINE d == NextOf(left[t])
<1>1. d \in Devices /\ event[t][d] \in Events
  BY ApplyEffect DEF Base, TypeOK
<1>2. EntersEvent(t, d, event[t][d])
  BY ApplyEffect DEF EntersEvent
<1> QED BY <1>1, <1>2

\* Entering the event of one device leaves the ledger of the others alone.
LEMMA OthersTold ==
    ASSUME Base, NEW t \in Threads, NEW d \in Devices, NEW ev \in Events,
           EntersEvent(t, d, ev), NEW e \in Devices \ {d}, NEW c \in Categories, Tells(e, c)
    PROVE  Tells(e, c)'
<1>1. OpenOf(e)' = OpenOf(e) /\ \A o \in OpenOf(e) : outages'[o].cat = outages[o].cat
  <2>1. CASE Opened(d, ev.state) /\ ev.state \in DownFamily
    <3> DEFINE n == Len(outages) + 1
    <3>1. DOMAIN outages' = DOMAIN outages \cup {n} /\ outages'[n].dev = d
      BY <2>1, NewOutageType DEF Opened
    <3>2. \A o \in DOMAIN outages : outages'[o] = outages[o]
      BY <2>1 DEF Opened
    <3> HIDE DEF n
    <3> QED BY <3>1, <3>2 DEF OpenOf
  <2>2. CASE UNCHANGED outages
    BY <2>2 DEF OpenOf
  <2>3. CASE Recategorized(d, ev.state)
    BY <2>3 DEF EntersEvent, Grown, Recategorized, OpenOf
  <2>4. CASE Resolved(d)
    BY <2>4 DEF EntersEvent, Grown, Resolved, OpenOf
  <2> QED BY <2>1, <2>2, <2>3, <2>4 DEF EntersEvent
<1> QED BY <1>1 DEF Tells

\* An event that fits the change of a device takes its ledger along.
LEMMA LedgerFollows ==
    ASSUME Base, NEW t \in Threads, NEW d \in Devices, NEW ev \in Events,
           EntersEvent(t, d, ev),
           NEW old \in Categories, NEW new \in Categories, Fits(ev, old, new), Tells(d, old)
    PROVE  Tells(d, new)'
<1>1. CASE ev.kind = "opened" /\ ev.state \in DownFamily /\ Opened(d, ev.state)
  <2> DEFINE n == Len(outages) + 1
  <2>1. /\ DOMAIN outages' = DOMAIN outages \cup {n}
        /\ outages'[n].dev = d /\ outages'[n].open /\ outages'[n].cat = ev.state
    BY <1>1, NewOutageType DEF Opened
  <2>2. \A o \in DOMAIN outages : outages'[o] = outages[o]
    BY <1>1 DEF Opened
  <2>3. OpenOf(d) = {}
    BY <1>1 DEF Opened
  <2> HIDE DEF n
  <2>4. OpenOf(d)' = {n}
    BY <2>1, <2>2, <2>3 DEF OpenOf
  <2>5. new = ev.state /\ new # "none"
    BY <1>1 DEF Fits, DownFamily
  <2> QED BY <2>1, <2>4, <2>5 DEF Tells
<1>2. CASE ev.kind = "opened" /\ OpenOf(d) # {}
  BY <1>2 DEF Fits, Tells
<1>3. CASE ev.kind = "recategorized" /\ ev.state \in DownFamily /\ Recategorized(d, ev.state)
  <2>1. OpenOf(d) # {}
    BY <1>3 DEF Fits, Tells
  <2>2. \A o \in OpenOf(d) : outages'[o].cat = ev.state /\ outages'[o].open /\ outages'[o].dev = d
    BY <1>3 DEF Recategorized, EntersEvent, Grown, OpenOf
  <2>3. OpenOf(d)' = OpenOf(d)
    BY <1>3, <2>2 DEF Recategorized, OpenOf
  <2>4. new = ev.state /\ new # "none"
    BY <1>3 DEF Fits, DownFamily
  <2> QED BY <2>1, <2>2, <2>3, <2>4 DEF Tells
<1>4. CASE ev.kind = "resolved" /\ Resolved(d)
  <2>1. OpenOf(d)' = {}
    BY <1>4 DEF EntersEvent, Grown, Resolved, OpenOf
  <2> QED BY <1>4, <2>1 DEF Fits, Tells
<1> QED BY <1>1, <1>2, <1>3, <1>4 DEF EntersEvent

\* Entering an event moves the ledger of its device, and of no other.
LEMMA ApplyKeepsAgreement ==
    ASSUME Base, Agreement, NEW t \in Threads, Apply(t)
    PROVE  Agreement'
<1>1. PICK d \in Devices, ev \in Events : EntersEvent(t, d, ev)
  BY ApplyEnters
<1>2. /\ pc[t] = "apply" /\ UNCHANGED <<states, engine, pc, rows, event, torn>>
      /\ d \in left[t] /\ d \in Pending(event[t]) /\ ev = event[t][d]
      /\ left' = [left EXCEPT ![t] = @ \ {d}]
  BY <1>1 DEF Apply, history, EntersEvent
<1>3. \A u \in Threads : pc[u] = "apply" => u = t
  BY <1>2, OneInLock DEF Locking
<1>4. ASSUME NEW e \in Devices \ {d}, NEW c \in Categories, Tells(e, c) PROVE Tells(e, c)'
  BY <1>1, <1>4, OthersTold
<1>5. SettledUnlessEntering'
  <2> SUFFICES ASSUME NEW e \in Devices \ torn',
                      \A u \in Threads : pc'[u] = "apply" => e \notin Pending(event'[u])
               PROVE  Settled(e)'
    BY DEF SettledUnlessEntering
  <2>1. e # d /\ Settled(e)
    BY <1>2 DEF Agreement, SettledUnlessEntering
  <2>2. Tells(e, Category(states[e]))'
    <3>1. Tells(e, Category(states[e]))
      BY <2>1 DEF Settled
    <3> QED BY <1>2, <1>4, <2>1, <3>1, CategoryIn
  <2> QED BY <1>2, <2>1, <2>2 DEF Settled
<1>6. EnteringInStep'
  <2> SUFFICES ASSUME NEW e \in Pending(event[t]) \ torn
               PROVE  Entering(t, e)'
    BY <1>2, <1>3 DEF EnteringInStep
  <2>1. Entering(t, e) /\ e \in Devices
    BY <1>2 DEF Agreement, EnteringInStep, Pending
  <2>2. left'[t] = left[t] \ {d}
    BY <1>2 DEF Base, TypeOK
  <2>3. Tells(e, IF e \in left[t] THEN Category(states[e]) ELSE Category(engine[e].state))'
    <3>1. CASE e = d
      <4>1. Tells(d, Category(states[d]))
        BY <1>2, <2>1, <3>1 DEF Entering
      <4>2. Fits(ev, Category(states[d]), Category(engine[d].state))
        BY <1>2, <2>1, <3>1 DEF Entering
      <4>3. Tells(d, Category(engine[d].state))'
        BY <1>1, <1>2, <4>1, <4>2, CategoryIn, LedgerFollows
      <4> QED BY <2>2, <3>1, <4>3
    <3>2. CASE e # d
      <4>1. Tells(e, IF e \in left[t] THEN Category(states[e]) ELSE Category(engine[e].state))
        BY <2>1 DEF Entering
      <4>2. CASE e \in left[t]
        <5>1. Tells(e, Category(states[e]))
          BY <4>1, <4>2
        <5>2. Tells(e, Category(states[e]))'
          BY <1>2, <1>4, <2>1, <3>2, <5>1, CategoryIn
        <5> QED BY <2>2, <3>2, <4>2, <5>2
      <4>3. CASE e \notin left[t]
        <5>1. Tells(e, Category(engine[e].state))
          BY <4>1, <4>3
        <5>2. Tells(e, Category(engine[e].state))'
          BY <1>2, <1>4, <2>1, <3>2, <5>1, CategoryIn
        <5> QED BY <2>2, <4>3, <5>2
      <4> QED BY <4>2, <4>3
    <3> QED BY <3>1, <3>2
  <2> QED BY <1>2, <2>1, <2>3 DEF Entering
<1> QED BY <1>5, <1>6 DEF Agreement

\* Writing the states, once every event is entered, settles the devices of the report.
LEMMA WriteKeepsAgreement ==
    ASSUME Base, Agreement, NEW t \in Threads, Write(t)
    PROVE  Agreement'
<1>1. /\ pc[t] = "apply" /\ left[t] = {} /\ pc' = [pc EXCEPT ![t] = "dispatch"]
      /\ \A d \in Devices :
            states'[d] = IF d \in rows[t] THEN engine[d].state ELSE states[d]
      /\ UNCHANGED <<outages, engine, event, torn>>
  BY DEF Write, history
<1>2. \A u \in Threads : pc[u] = "apply" => u = t
  BY <1>1, OneInLock DEF Locking
<1>3. \A u \in Threads : pc'[u] # "apply"
  BY <1>1, <1>2 DEF Base, TypeOK
<1>4. rows[t] \subseteq DOMAIN engine
  BY DEF Base, EventsInOrder
<1>5. ASSUME NEW d \in Devices \ torn' PROVE Settled(d)'
  <2>1. CASE d \in Pending(event[t])
    <3>1. Entering(t, d)
      BY <1>1, <2>1 DEF Agreement, EnteringInStep
    <3>2. states'[d] = engine[d].state /\ Tells(d, Category(engine[d].state))
      BY <1>1, <3>1 DEF Entering
    <3>3. Tells(d, Category(states[d]))'
      BY <1>1, <3>2 DEF Tells, OpenOf
    <3> QED BY <1>1, <3>2, <3>3 DEF Settled
  <2>2. CASE d \notin Pending(event[t])
    <3>1. Settled(d)
      BY <1>1, <1>2, <2>2 DEF Agreement, SettledUnlessEntering
    <3>2. Category(states'[d]) = Category(states[d])
      BY <1>1, <1>4, <3>1 DEF Settled
    <3>3. Tells(d, Category(states[d]))'
      BY <1>1, <3>1, <3>2 DEF Settled, Tells, OpenOf
    <3> QED BY <1>1, <3>1, <3>2, <3>3 DEF Settled
  <2> QED BY <2>1, <2>2
<1> QED BY <1>3, <1>5 DEF Agreement, SettledUnlessEntering, EnteringInStep

\* The steps that may leave a device inconsistent mark it.
LEMMA CrashKeepsAgreement ==
    ASSUME Base, Agreement, Crash
    PROVE  Agreement'
<1>1. /\ Unmoved /\ UNCHANGED states /\ engine' = <<>>
      /\ pc' = [t \in Threads |-> "idle"]
      /\ torn' = torn \cup UNION {HalfWritten(t) : t \in Threads}
  BY CrashEffect DEF Crash, Unmoved
<1>2. ASSUME NEW d \in Devices \ torn' PROVE Settled(d)'
  <2>1. ASSUME NEW t \in Threads, pc[t] = "apply" PROVE d \notin Pending(event[t])
    BY <1>1, <2>1 DEF HalfWritten
  <2>2. Settled(d)
    BY <1>1, <2>1 DEF Agreement, SettledUnlessEntering
  <2>3. OpenOf(d)' = OpenOf(d) /\ \A o \in OpenOf(d) : outages'[o].cat = outages[o].cat
    BY <1>1, TellsKept DEF Unmoved
  <2>4. Tells(d, Category(states[d]))'
    BY <1>1, <2>2, <2>3 DEF Settled, Tells
  <2> QED BY <1>1, <2>4 DEF Settled
<1> QED BY <1>1, <1>2 DEF Agreement, SettledUnlessEntering, EnteringInStep

\* Taking a device off the inventory leaves the others in agreement.
LEMMA UnassignKeepsAgreement ==
    ASSUME Base, Agreement, NEW d \in Devices, Unassign(d)
    PROVE  Agreement'
<1>1. /\ Kept /\ UNCHANGED <<engine, pc, rows, event, left>> /\ torn' = torn \cup {d}
      /\ \A e \in Devices \ {d} : states'[e] = states[e]
  BY UnassignEffect DEF Unassign, Edit, memory, Base, TypeOK
<1>2. ASSUME NEW e \in Devices \ {d}, NEW c \in Categories, Tells(e, c) PROVE Tells(e, c)'
  <2>1. \A o \in DOMAIN outages : outages[o].dev = e => outages'[o].open = outages[o].open
    <3>1. \A o \in DOMAIN outages :
            outages[o].open \in BOOLEAN /\ outages'[o].open \in BOOLEAN
      BY <1>1, RowsType, PrimedRowsType DEF Base, Outages, Kept
    <3> QED BY <3>1, UnassignEffect
  <2>2. OpenOf(e)' = OpenOf(e) /\ \A o \in OpenOf(e) : outages'[o].cat = outages[o].cat
    BY <1>1, <2>1, TellsKept
  <2> QED BY <1>2, <2>2 DEF Tells
<1>3. SettledUnlessEntering'
  <2> SUFFICES ASSUME NEW e \in Devices \ torn',
                      \A u \in Threads : pc'[u] = "apply" => e \notin Pending(event'[u])
               PROVE  Settled(e)'
    BY DEF SettledUnlessEntering
  <2>1. e # d /\ Settled(e)
    BY <1>1 DEF Agreement, SettledUnlessEntering
  <2>2. Tells(e, Category(states[e]))'
    <3>1. Tells(e, Category(states[e]))
      BY <2>1 DEF Settled
    <3> QED BY <1>1, <1>2, <2>1, <3>1, CategoryIn
  <2> QED BY <1>1, <2>1, <2>2 DEF Settled
<1>4. EnteringInStep'
  <2> SUFFICES ASSUME NEW t \in Threads, pc[t] = "apply", NEW e \in Pending(event[t]) \ torn'
               PROVE  Entering(t, e)'
    BY <1>1 DEF EnteringInStep
  <2>1. e # d /\ e \in Devices /\ Entering(t, e)
    BY <1>1 DEF Agreement, EnteringInStep, Pending
  <2>2. Tells(e, IF e \in left[t] THEN Category(states[e]) ELSE Category(engine[e].state))'
    <3>1. Tells(e, IF e \in left[t] THEN Category(states[e]) ELSE Category(engine[e].state))
      BY <2>1 DEF Entering
    <3> QED BY <1>1, <1>2, <2>1, <3>1, CategoryIn
  <2> QED BY <1>1, <2>1, <2>2 DEF Entering
<1> QED BY <1>3, <1>4 DEF Agreement

\* An empty table, with no engine and no states, is in agreement.
LEMMA AgreementInit == Init => Agreement
<1> SUFFICES ASSUME Init PROVE Agreement
  OBVIOUS
<1>1. ASSUME NEW d \in Devices PROVE Settled(d)
  <2>1. OpenOf(d) = {} /\ states[d] = "none" /\ DOMAIN engine = {}
    BY DEF Init, OpenOf
  <2> QED BY <2>1 DEF Settled, Tells, Category, DownFamily
<1>2. \A t \in Threads : pc[t] # "apply"
  BY DEF Init
<1> QED BY <1>1, <1>2 DEF Agreement, SettledUnlessEntering, EnteringInStep

\* Every step keeps the agreement: this is what the org lock is for.
LEMMA AgreementStep ==
    ASSUME Base, Agreement, [Next]_vars
    PROVE  Agreement'
<1>1. ASSUME Unmoved, Aside PROVE Agreement'
  BY <1>1, AsideKeepsAgreement
<1>2. ASSUME UNCHANGED outages PROVE Unmoved
  BY <1>2, SameKept DEF Unmoved, Base
<1>3. ASSUME UNCHANGED <<memory, states>>, torn \subseteq torn' PROVE Aside
  BY <1>3 DEF memory, Aside
<1>4. CASE UNCHANGED vars
  BY <1>1, <1>2, <1>3, <1>4 DEF vars, db, history
<1>5. ASSUME NEW t \in Threads, NEW isFull \in BOOLEAN, Begin(t, isFull) PROVE Agreement'
  <2>1. Unmoved
    BY <1>2, <1>5 DEF Begin, db
  <2>2. UNCHANGED <<states, engine, rows, left, event, torn>>
    BY <1>5 DEF Begin, db, history
  <2>3. /\ pc[t] = "idle" /\ pc'[t] # "apply"
        /\ \A u \in Threads \ {t} : pc'[u] = pc[u]
    BY <1>5 DEF Begin, Base, TypeOK
  <2>4. Aside
    BY <2>2, <2>3 DEF Aside
  <2> QED BY <1>1, <2>1, <2>4
<1>6. ASSUME NEW t \in Threads, Fail(t) PROVE Agreement'
  <2>1. Unmoved
    BY <1>2, <1>6 DEF Fail, db
  <2>2. torn' = torn \cup HalfWritten(t) /\ UNCHANGED <<states, engine>>
    BY <1>6 DEF Fail, db
  <2>3. /\ pc'[t] = "idle"
        /\ \A u \in Threads \ {t} : pc'[u] = pc[u] /\ event'[u] = event[u]
    BY <1>6 DEF Fail, Base, TypeOK
  <2>4. \A u \in Threads : pc[u] = "apply" =>
          pc'[u] = "apply" \/ Pending(event[u]) \subseteq torn'
    BY <2>2, <2>3 DEF HalfWritten
  <2>5. \A u \in Threads : pc'[u] = "apply" =>
          /\ pc[u] = "apply" /\ event'[u] = event[u]
          /\ left'[u] = left[u] /\ rows'[u] = rows[u]
    BY <1>6, <2>3 DEF Fail, Base, TypeOK
  <2>6. Aside
    BY <2>2, <2>4, <2>5 DEF Aside
  <2> QED BY <1>1, <2>1, <2>6
<1>7. ASSUME NEW t \in Threads,
             \/ FindOutage(t) \/ Page(t) \/ Schedule(t) \/ Suppress(t) \/ Cancel(t) \/ Finish(t)
      PROVE  Agreement'
  <2>1. Unmoved
    BY <1>2, <1>7, PageEffect, ScheduleEffect, CancelEffect, FinishEffect
       DEF FindOutage, Suppress, db, Unmoved
  <2>2. UNCHANGED <<states, engine, rows, left, torn>>
    BY <1>7 DEF FindOutage, Page, Schedule, Suppress, Cancel, Finish, db, history
  <2>3. /\ pc[t] # "apply" /\ pc'[t] # "apply"
        /\ \A u \in Threads \ {t} : pc'[u] = pc[u] /\ event'[u] = event[u]
    BY <1>7 DEF FindOutage, Page, Schedule, Suppress, Cancel, Finish, Handled, Base, TypeOK
  <2>4. Aside
    BY <2>2, <2>3 DEF Aside
  <2> QED BY <1>1, <2>1, <2>4
<1>8. ASSUME NEW t \in Threads, Step(t) PROVE Agreement'
  BY <1>7, <1>8, BuildKeepsAgreement, ProcessKeepsAgreement, FrozenKeepsAgreement,
     ApplyKeepsAgreement, WriteKeepsAgreement DEF Step
<1>9. ASSUME NEW o \in DOMAIN outages, Tick(o) \/ \E ok \in BOOLEAN : Deliver(o, ok)
      PROVE  Agreement'
  <2>1. Unmoved
    BY <1>9, TickEffect, DeliverEffect DEF Unmoved
  <2>2. Aside
    BY <1>3, <1>9 DEF Tick, Deliver, history
  <2> QED BY <1>1, <2>1, <2>2
<1>10. ASSUME NEW d \in Devices, SetMaintenance(d) \/ Assign(d) PROVE Agreement'
  <2>1. Unmoved
    BY <1>2, <1>10 DEF SetMaintenance, Assign
  <2>2. Aside
    BY <1>3, <1>10 DEF SetMaintenance, Assign, Edit
  <2> QED BY <1>1, <2>1, <2>2
<1> QED BY <1>4, <1>5, <1>6, <1>8, <1>9, <1>10, CrashKeepsAgreement, UnassignKeepsAgreement
       DEF Next

\* With the lock free every device that no fault tore is settled.
LEMMA AgreementIsLedgerAgrees ==
    ASSUME Base, Agreement
    PROVE  LedgerAgrees
<1> SUFFICES ASSUME lock = NoThread, NEW d \in Devices \ torn
             PROVE  /\ Entry(d) = Category(states[d])
                    /\ d \in DOMAIN engine =>
                          Category(engine[d].state) = Category(states[d])
  BY DEF LedgerAgrees
<1>1. \A t \in Threads : pc[t] # "apply"
  BY BrainAssumption DEF Base, LockIsHeld, Locking
<1>2. Settled(d)
  BY <1>1 DEF Agreement, SettledUnlessEntering
<1>3. Entry(d) = Category(states[d])
  <2>1. CASE OpenOf(d) = {}
    BY <1>2, <2>1 DEF Entry, Settled, Tells
  <2>2. CASE OpenOf(d) # {}
    <3> DEFINE o == CHOOSE p \in OpenOf(d) : TRUE
    <3>1. o \in OpenOf(d)
      BY <2>2
    <3>2. Entry(d) = outages[o].cat
      BY <2>2 DEF Entry
    <3> HIDE DEF o
    <3> QED BY <1>2, <3>1, <3>2 DEF Settled, Tells
  <2> QED BY <2>1, <2>2
<1> QED BY <1>2, <1>3 DEF Settled

\* Whenever no report holds the lock, the open outage of a device, its persisted state
\* and its state machine agree, but for devices torn by a fault or an edit.
THEOREM LedgerAgreement == Spec => []LedgerAgrees
<1>1. Base /\ Agreement /\ [Next]_vars => Agreement'
  BY AgreementStep
<1>2. Base /\ Agreement => LedgerAgrees
  BY AgreementIsLedgerAgrees
<1> QED BY <1>1, <1>2, AgreementInit, BaseHolds, PTL DEF Spec

-----------------------------------------------------------------------------
\* The device was a proven root cause in outage o or in an earlier one.
Proven(d, o) == \E p \in 1..o : outages[p].dev = d /\ outages[p].proven

\* An event that pages, once it is entered, is that of a device that is proven; so is
\* the outage a handler is about to page.
ProvenEvents ==
    \A t \in Threads : \A d \in Devices \ torn :
        Pages(event[t][d]) /\ d \notin left[t] => Proven(d, Len(outages))

\* The outage that a handler is about to page belongs to a device that was proven.
ProvenInHand ==
    \A t \in Threads :
        pc[t] = "page" /\ outages[oid[t]].dev \notin torn =>
            Proven(outages[oid[t]].dev, oid[t])

\* The invariant behind OnlyRootCausesPage.
ProvenPages == ProvenEvents /\ ProvenInHand /\ OnlyRootCausesPage

-----------------------------------------------------------------------------
\* What was proven of an outage is never forgotten.
Remembered ==
    /\ Len(outages) <= Len(outages') /\ Len(outages') \in Nat
    /\ \A o \in DOMAIN outages :
          /\ o \in DOMAIN outages' /\ outages'[o].dev = outages[o].dev
          /\ outages[o].proven => outages'[o].proven

\* A step that leaves the rows under their ids forgets nothing.
LEMMA KeptRemembered == ASSUME Base, Kept PROVE Remembered
<1>1. Len(outages) \in Nat
  BY RowsType DEF Base
<1> QED BY <1>1 DEF Kept, Remembered

\* A device that was proven stays proven, in the outage and in later ones.
LEMMA ProvenStays ==
    ASSUME Base, Remembered, NEW d \in Devices, NEW o \in 0..Len(outages), Proven(d, o)
    PROVE  /\ Proven(d, o)' /\ Proven(d, Len(outages))'
<1>1. PICK p \in 1..o : outages[p].dev = d /\ outages[p].proven
  BY DEF Proven
<1>2. Len(outages) \in Nat /\ Len(outages') \in Nat /\ Len(outages) <= Len(outages')
  BY RowsType DEF Base, Remembered
<1>3. p \in DOMAIN outages /\ p \in 1..Len(outages')
  BY <1>1, <1>2, RowsType DEF Base
<1>4. outages'[p].dev = d /\ outages'[p].proven
  BY <1>1, <1>3 DEF Remembered
<1> QED BY <1>1, <1>3, <1>4 DEF Proven

\* No step forgets what was proven.
LEMMA StepRemembers ==
    ASSUME Base, [Next]_vars
    PROVE  Remembered
<1>1. CASE Unmoved
  BY <1>1, KeptRemembered DEF Unmoved
<1>2. ASSUME NEW d \in Devices, Unassign(d) PROVE Remembered
  BY <1>2, UnassignEffect, KeptRemembered
<1>3. ASSUME NEW t \in Threads, Apply(t) PROVE Remembered
  <2>1. Grown
    BY <1>3, ApplyEffect
  <2> QED BY <2>1, LenProperties DEF Grown, Remembered
<1> QED BY <1>1, <1>2, <1>3, TableSteps

\* What is inconsistent stays marked.
LEMMA TornGrows == ASSUME [Next]_vars PROVE torn \subseteq torn'
<1>1. CASE UNCHANGED vars
  BY <1>1 DEF vars, history
<1>2. ASSUME NEW t \in Threads, NEW isFull \in BOOLEAN, Begin(t, isFull)
      PROVE  torn \subseteq torn'
  BY <1>2 DEF Begin, history
<1>3. ASSUME NEW t \in Threads, Step(t) PROVE torn \subseteq torn'
  BY <1>3 DEF Step, Build, Process, Frozen, Apply, Write, FindOutage, Page, Schedule,
              Suppress, Cancel, Finish, history
<1>4. ASSUME NEW t \in Threads, Fail(t) PROVE torn \subseteq torn'
  BY <1>4 DEF Fail
<1>5. ASSUME NEW o \in DOMAIN outages, Tick(o) \/ \E ok \in BOOLEAN : Deliver(o, ok)
      PROVE  torn \subseteq torn'
  BY <1>5 DEF Tick, Deliver, history
<1>6. ASSUME NEW d \in Devices, SetMaintenance(d) \/ Assign(d) \/ Unassign(d)
      PROVE  torn \subseteq torn'
  BY <1>6 DEF SetMaintenance, Assign, Unassign
<1>7. CASE Crash
  BY <1>7 DEF Crash
<1> QED BY <1>1, <1>2, <1>3, <1>4, <1>5, <1>6, <1>7 DEF Next

\* Entering an event that pages proves its device.
LEMMA EnteredIsProven ==
    ASSUME Base, Agreement, NEW t \in Threads, pc[t] = "apply",
           NEW d \in Devices, NEW ev \in Events, EntersEvent(t, d, ev), Pages(ev), d \notin torn
    PROVE  Proven(d, Len(outages))'
<1>1. Fits(ev, Category(states[d]), Category(engine[d].state)) /\ Tells(d, Category(states[d]))
  BY DEF Agreement, EnteringInStep, Entering, EntersEvent
<1>2. Len(outages) \in Nat /\ DOMAIN outages = 1..Len(outages)
  BY RowsType DEF Base
<1>3. ev.state = "DOWN" /\ ev.kind \in {"opened", "recategorized"}
  BY DEF Pages
<1>4. CASE ev.kind = "opened"
  <2> DEFINE n == Len(outages) + 1
  <2>1. Opened(d, ev.state)
    BY <1>1, <1>4 DEF EntersEvent, Fits, Tells
  <2>2. Len(outages') = n /\ outages'[n].dev = d /\ outages'[n].proven
    BY <1>3, <2>1, NewOutageType DEF Opened, DownFamily
  <2>3. n \in 1..n
    BY <1>2
  <2> HIDE DEF n
  <2> QED BY <2>2, <2>3 DEF Proven
<1>5. CASE ev.kind = "recategorized"
  <2>1. Recategorized(d, ev.state)
    BY <1>5 DEF EntersEvent
  <2>2. PICK o \in OpenOf(d) : TRUE
    BY <1>1, <1>5 DEF Fits, Tells
  <2>3. o \in DOMAIN outages /\ outages[o].dev = d
    BY DEF OpenOf
  <2>4. Len(outages') = Len(outages) /\ outages'[o].dev = d /\ outages'[o].proven
    BY <1>3, <2>1, <2>3 DEF Recategorized, EntersEvent, Grown
  <2> QED BY <1>2, <2>3, <2>4 DEF Proven
<1> QED BY <1>3, <1>4, <1>5

\* An event that pages is entered as a proof before the handler can act on it.
LEMMA ProvenEventsStep ==
    ASSUME Base, Agreement, ProvenEvents, [Next]_vars
    PROVE  ProvenEvents'
<1> USE StepRemembers
<1>1. ASSUME NEW u \in Threads, NEW d \in Devices \ torn',
             torn \subseteq torn', event'[u][d] = event[u][d], left[u] \subseteq left'[u],
             Pages(event'[u][d]), d \notin left'[u]
      PROVE  Proven(d, Len(outages))'
  <2>1. Proven(d, Len(outages))
    BY <1>1 DEF ProvenEvents
  <2>2. Len(outages) \in 0..Len(outages)
    BY RowsType DEF Base
  <2> QED BY <2>1, <2>2, ProvenStays
<1>2. ASSUME NEW u \in Threads, NEW d \in Devices, event'[u][d] = NoEvent
      PROVE  ~Pages(event'[u][d])
  BY <1>2 DEF Pages, NoEvent
<1>3. ASSUME torn \subseteq torn',
             \A u \in Threads, d \in Devices :
                \/ event'[u][d] = NoEvent
                \/ event'[u][d] = event[u][d] /\ left[u] \subseteq left'[u]
      PROVE  ProvenEvents'
  BY <1>1, <1>2, <1>3 DEF ProvenEvents
<1>4. CASE UNCHANGED <<event, left, torn>>
  BY <1>3, <1>4
<1>5. CASE UNCHANGED vars
  BY <1>4, <1>5 DEF vars, memory, history
<1>6. ASSUME NEW t \in Threads, NEW isFull \in BOOLEAN, Begin(t, isFull) PROVE ProvenEvents'
  BY <1>4, <1>6 DEF Begin, history
<1>7. ASSUME NEW t \in Threads, Fail(t) PROVE ProvenEvents'
  <2>1. torn \subseteq torn'
    BY <1>7 DEF Fail
  <2>2. \A d \in Devices : event'[t][d] = NoEvent
    BY <1>7, NoEventsType DEF Fail, Base, TypeOK
  <2>3. \A u \in Threads \ {t} : event'[u] = event[u] /\ left'[u] = left[u]
    BY <1>7 DEF Fail, Base, TypeOK
  <2> QED BY <1>3, <2>1, <2>2, <2>3
<1>8. ASSUME NEW t \in Threads, Apply(t) PROVE ProvenEvents'
  <2>1. PICK e \in Devices, ev \in Events : EntersEvent(t, e, ev)
    BY <1>8, ApplyEnters
  <2>2. /\ UNCHANGED <<event, torn>> /\ pc[t] = "apply"
        /\ left'[t] = left[t] \ {e} /\ ev = event[t][e]
        /\ \A u \in Threads \ {t} : left'[u] = left[u]
    BY <1>8, <2>1 DEF Apply, EntersEvent, history, Base, TypeOK
  <2> SUFFICES ASSUME NEW u \in Threads, NEW d \in Devices \ torn',
                      Pages(event'[u][d]), d \notin left'[u]
               PROVE  Proven(d, Len(outages))'
    BY DEF ProvenEvents
  <2>3. CASE u = t /\ d = e
    BY <2>1, <2>2, <2>3, EnteredIsProven
  <2>4. CASE ~(u = t /\ d = e)
    <3>1. Proven(d, Len(outages))
      BY <2>2, <2>4 DEF ProvenEvents
    <3>2. Len(outages) \in 0..Len(outages)
      BY RowsType DEF Base
    <3> QED BY <3>1, <3>2, ProvenStays
  <2> QED BY <2>3, <2>4
<1>9. ASSUME NEW t \in Threads, NEW S \in SUBSET Devices, NEW res \in Results(S),
             Process(t, S, res)
      PROVE  ProvenEvents'
  <2>1. UNCHANGED torn /\ left'[t] = Pending(event'[t])
    BY <1>9 DEF Process, history, Base, TypeOK
  <2>2. \A d \in Devices : d \notin left'[t] => ~Pages(event'[t][d])
    BY <2>1 DEF Pending, Pages
  <2>3. \A u \in Threads \ {t} : event'[u] = event[u] /\ left'[u] = left[u]
    BY <1>9 DEF Process, Base, TypeOK
  <2> QED BY <1>1, <2>1, <2>2, <2>3 DEF ProvenEvents
<1>10. ASSUME NEW t \in Threads, Frozen(t) PROVE ProvenEvents'
  <2>1. UNCHANGED torn /\ \A d \in Devices : event'[t][d] = NoEvent
    BY <1>10, NoEventsType DEF Frozen, history, Base, TypeOK
  <2>2. \A u \in Threads \ {t} : event'[u] = event[u] /\ left'[u] = left[u]
    BY <1>10 DEF Frozen, Base, TypeOK
  <2> QED BY <1>3, <2>1, <2>2
<1>11. ASSUME NEW t \in Threads, Build(t) \/ Write(t) \/ Finish(t) PROVE ProvenEvents'
  BY <1>4, <1>11 DEF Build, Write, Finish, history
<1>12. ASSUME NEW t \in Threads,
              FindOutage(t) \/ Page(t) \/ Schedule(t) \/ Suppress(t) \/ Cancel(t)
       PROVE  ProvenEvents'
  <2>1. UNCHANGED <<left, torn>>
    BY <1>12 DEF FindOutage, Page, Schedule, Suppress, Cancel, history
  <2>2. \/ UNCHANGED event
        \/ \E e : event' = [event EXCEPT ![t] = [@ EXCEPT ![e] = NoEvent]]
    BY <1>12 DEF FindOutage, Page, Schedule, Suppress, Cancel, Handled
  <2>3. \A u \in Threads, d \in Devices : event'[u][d] \in {NoEvent, event[u][d]}
    <3>1. CASE UNCHANGED event
      BY <3>1
    <3>2. ASSUME NEW e, event' = [event EXCEPT ![t] = [@ EXCEPT ![e] = NoEvent]],
                 NEW u \in Threads, NEW d \in Devices
          PROVE  event'[u][d] \in {NoEvent, event[u][d]}
      <4>1. event'[u] = IF u = t THEN [event[t] EXCEPT ![e] = NoEvent] ELSE event[u]
        BY <3>2 DEF Base, TypeOK
      <4>2. [event[t] EXCEPT ![e] = NoEvent][d] \in {NoEvent, event[t][d]}
        BY DEF Base, TypeOK
      <4> QED BY <4>1, <4>2
    <3> QED BY <2>2, <3>1, <3>2
  <2> QED BY <1>3, <2>1, <2>3
<1>13. ASSUME NEW t \in Threads, Step(t) PROVE ProvenEvents'
  BY <1>8, <1>9, <1>10, <1>11, <1>12, <1>13 DEF Step
<1>14. ASSUME NEW o \in DOMAIN outages, Tick(o) \/ \E ok \in BOOLEAN : Deliver(o, ok)
       PROVE  ProvenEvents'
  BY <1>4, <1>14 DEF Tick, Deliver, memory, history
<1>15. ASSUME NEW d \in Devices, SetMaintenance(d) \/ Assign(d) \/ Unassign(d)
       PROVE  ProvenEvents'
  BY <1>3, <1>15 DEF SetMaintenance, Assign, Unassign, Edit, memory
<1>16. CASE Crash
  <2>1. torn \subseteq torn' /\ \A u \in Threads, d \in Devices : event'[u][d] = NoEvent
    BY <1>16, NoEventsType DEF Crash
  <2> QED BY <1>3, <2>1
<1> QED BY <1>5, <1>6, <1>7, <1>13, <1>14, <1>15, <1>16 DEF Next

\* The page in hand: FindOutage takes the latest open outage of a proven device.
LEMMA ProvenInHandStep ==
    ASSUME Base, LatestIsOpen, ProvenEvents, ProvenInHand, [Next]_vars
    PROVE  ProvenInHand'
<1> USE StepRemembers
<1>1. ASSUME NEW u \in Threads, torn \subseteq torn', pc[u] = "page", oid'[u] = oid[u],
             outages'[oid'[u]].dev \notin torn'
      PROVE  Proven(outages[oid[u]].dev, oid[u])'
  <2> DEFINE d == outages[oid[u]].dev
  <2>1. oid[u] \in DOMAIN outages /\ d \in Devices
    BY <1>1, RowsType DEF Base, PageHasItsOutage, Outages
  <2>2. oid[u] \in 0..Len(outages) /\ outages'[oid[u]].dev = d
    BY <2>1 DEF Base, TypeOK, Remembered
  <2>3. Proven(d, oid[u])
    BY <1>1, <2>2 DEF ProvenInHand
  <2> HIDE DEF d
  <2>4. \E p \in 1..oid[u] : outages'[p].dev = d /\ outages'[p].proven
    BY <2>1, <2>2, <2>3, RowsType DEF Base, Proven, Remembered
  <2> QED BY <1>1, <2>2, <2>4 DEF Proven
<1>2. ASSUME torn \subseteq torn',
             \A u \in Threads : pc'[u] = "page" => pc[u] = "page" /\ oid'[u] = oid[u]
      PROVE  ProvenInHand'
  BY <1>1, <1>2 DEF ProvenInHand
<1>3. CASE UNCHANGED <<memory>> /\ torn \subseteq torn'
  BY <1>2, <1>3 DEF memory
<1>4. ASSUME NEW t \in Threads, FindOutage(t) PROVE ProvenInHand'
  <2> DEFINE d == NextOf(Pending(event[t]))
  <2>1. /\ torn' = torn /\ outages' = outages
        /\ \A u \in Threads \ {t} : pc'[u] = pc[u] /\ oid'[u] = oid[u]
    BY <1>4 DEF FindOutage, Handled, db, history, Base, TypeOK
  <2>2. CASE OpenOf(d) = {}
    <3>1. pc'[t] = "dispatch"
      BY <1>4, <2>2 DEF FindOutage, Handled, Base, TypeOK
    <3> QED BY <1>2, <2>1, <3>1
  <2>3. CASE OpenOf(d) # {}
    <3> DEFINE i == CHOOSE o \in OpenOf(d) : \A p \in OpenOf(d) : p <= o
    <3>1. d \in Pending(event[t]) /\ d \in Devices /\ Pages(event[t][d])
      BY <1>4, NextOfIsIn DEF FindOutage, Pending
    <3>2. i \in OpenOf(d)
      BY <2>3, <3>1, LatestOpenIsIn DEF Base
    <3>3. oid'[t] = i
      BY <1>4, <2>3 DEF FindOutage, Base, TypeOK
    <3>4. d \notin left[t]
      BY <1>4 DEF FindOutage, Base, EventsInOrder
    <3> HIDE DEF d, i
    <3>5. i \in DOMAIN outages /\ outages[i].dev = d /\ outages[i].open
      BY <3>2 DEF OpenOf
    <3>6. ASSUME d \notin torn PROVE Proven(d, i)
      <4>1. Proven(d, Len(outages))
        BY <3>1, <3>4, <3>6 DEF ProvenEvents
      <4>2. PICK p \in 1..Len(outages) : outages[p].dev = d /\ outages[p].proven
        BY <4>1 DEF Proven
      <4>3. p <= i /\ p \in 1..i
        BY <3>5, <4>2, RowsType DEF LatestIsOpen, Base
      <4> QED BY <4>2, <4>3 DEF Proven
    <3>7. ASSUME d \notin torn PROVE Proven(outages[oid[t]].dev, oid[t])'
      BY <2>1, <3>3, <3>5, <3>6, <3>7 DEF Proven
    <3>8. ASSUME NEW u \in Threads \ {t}, pc'[u] = "page", outages'[oid'[u]].dev \notin torn'
          PROVE  Proven(outages[oid[u]].dev, oid[u])'
      BY <1>1, <2>1, <3>8
    <3> QED BY <2>1, <3>3, <3>5, <3>7, <3>8 DEF ProvenInHand
  <2> QED BY <2>2, <2>3
<1>5. ASSUME NEW t \in Threads, NEW isFull \in BOOLEAN, Begin(t, isFull) PROVE ProvenInHand'
  <2>1. torn' = torn /\ oid' = oid /\ \A u \in Threads : pc'[u] = "page" => pc[u] = "page"
    BY <1>5 DEF Begin, history, Base, TypeOK
  <2> QED BY <1>2, <2>1
<1>6. ASSUME NEW t \in Threads, Fail(t) PROVE ProvenInHand'
  <2>1. /\ torn \subseteq torn' /\ pc'[t] = "idle"
        /\ \A u \in Threads \ {t} : pc'[u] = pc[u] /\ oid'[u] = oid[u]
    BY <1>6 DEF Fail, Base, TypeOK
  <2> QED BY <1>2, <2>1
<1>7. ASSUME NEW t \in Threads,
             \/ Build(t) \/ Frozen(t) \/ Apply(t) \/ Write(t) \/ Finish(t)
             \/ \E S \in SUBSET Devices : \E res \in Results(S) : Process(t, S, res)
      PROVE  ProvenInHand'
  <2>1. /\ torn' = torn /\ oid' = oid
        /\ \A u \in Threads : pc'[u] = "page" => pc[u] = "page"
    BY <1>7 DEF Build, Frozen, Apply, Write, Finish, Process, history, Base, TypeOK
  <2> QED BY <1>2, <2>1
<1>8. ASSUME NEW t \in Threads, Page(t) \/ Schedule(t) \/ Suppress(t) \/ Cancel(t)
      PROVE  ProvenInHand'
  <2>1. /\ torn' = torn /\ pc'[t] # "page"
        /\ \A u \in Threads \ {t} : pc'[u] = pc[u] /\ oid'[u] = oid[u]
    BY <1>8 DEF Page, Schedule, Suppress, Cancel, Handled, history, Base, TypeOK
  <2> QED BY <1>2, <2>1
<1>9. ASSUME NEW t \in Threads, Step(t) PROVE ProvenInHand'
  BY <1>4, <1>7, <1>8, <1>9 DEF Step
<1>10. CASE UNCHANGED vars
  BY <1>3, <1>10 DEF vars, history
<1>11. ASSUME NEW o \in DOMAIN outages, Tick(o) \/ \E ok \in BOOLEAN : Deliver(o, ok)
       PROVE  ProvenInHand'
  BY <1>3, <1>11 DEF Tick, Deliver, history
<1>12. ASSUME NEW d \in Devices, SetMaintenance(d) \/ Assign(d) \/ Unassign(d)
       PROVE  ProvenInHand'
  BY <1>3, <1>12 DEF SetMaintenance, Assign, Unassign, Edit
<1>13. CASE Crash
  BY <1>13 DEF Crash, ProvenInHand
<1> QED BY <1>5, <1>6, <1>9, <1>10, <1>11, <1>12, <1>13 DEF Next

\* Steps other than Page page no outage.
LEMMA PagedByPage ==
    ASSUME Base, [Next]_vars,
           NEW o \in DOMAIN outages', outages'[o].paged
    PROVE  /\ o \in DOMAIN outages
           /\ outages[o].paged \/ \E t \in Threads : Page(t) /\ o = oid[t]
<1>1. ASSUME UNCHANGED outages PROVE o \in DOMAIN outages /\ outages[o].paged
  BY <1>1
<1>2. CASE UNCHANGED vars
  BY <1>1, <1>2 DEF vars, db
<1>3. ASSUME NEW t \in Threads, NEW isFull \in BOOLEAN, Begin(t, isFull)
      PROVE  o \in DOMAIN outages /\ outages[o].paged
  BY <1>1, <1>3 DEF Begin, db
<1>4. ASSUME NEW t \in Threads, Fail(t) PROVE o \in DOMAIN outages /\ outages[o].paged
  BY <1>1, <1>4 DEF Fail, db
<1>5. ASSUME NEW t \in Threads, Apply(t) PROVE o \in DOMAIN outages /\ outages[o].paged
  <2>1. PICK d \in Devices, ev \in Events : EntersEvent(t, d, ev)
    BY <1>5, ApplyEnters
  <2>2. CASE Opened(d, ev.state) /\ ev.state \in DownFamily
    BY <2>2, NewOutageType DEF Opened
  <2>3. CASE DOMAIN outages' = DOMAIN outages
    BY <2>1, <2>3 DEF EntersEvent, Grown
  <2> QED BY <2>1, <2>2, <2>3 DEF EntersEvent, Recategorized, Resolved
<1>6. ASSUME NEW t \in Threads, Page(t)
      PROVE  o \in DOMAIN outages /\ (outages[o].paged \/ o = oid[t])
  BY <1>6, PageEffect DEF Kept
<1>7. ASSUME NEW t \in Threads, Schedule(t) \/ Cancel(t) \/ Finish(t)
      PROVE  o \in DOMAIN outages /\ outages[o].paged
  BY <1>7, ScheduleEffect, CancelEffect, FinishEffect DEF Kept
<1>8. ASSUME NEW t \in Threads,
             \/ Build(t) \/ Frozen(t) \/ Write(t) \/ FindOutage(t) \/ Suppress(t)
             \/ \E S \in SUBSET Devices : \E res \in Results(S) : Process(t, S, res)
      PROVE  o \in DOMAIN outages /\ outages[o].paged
  BY <1>1, <1>8 DEF Build, Frozen, Write, FindOutage, Suppress, Process, db
<1>9. ASSUME NEW p \in DOMAIN outages, Tick(p) \/ \E ok \in BOOLEAN : Deliver(p, ok)
      PROVE  o \in DOMAIN outages /\ outages[o].paged
  BY <1>9, TickEffect, DeliverEffect DEF Kept
<1>10. ASSUME NEW d \in Devices, SetMaintenance(d) \/ Assign(d) \/ Unassign(d)
       PROVE  o \in DOMAIN outages /\ outages[o].paged
  BY <1>1, <1>10, UnassignEffect DEF SetMaintenance, Assign, Kept
<1>11. CASE Crash
  BY <1>11, CrashEffect DEF Kept
<1> QED BY <1>2, <1>3, <1>4, <1>5, <1>6, <1>7, <1>8, <1>9, <1>10, <1>11 DEF Next, Step

\* A page is sent for what is in hand.
LEMMA RootCausesStep ==
    ASSUME Base, ProvenInHand, OnlyRootCausesPage, [Next]_vars
    PROVE  OnlyRootCausesPage'
<1> SUFFICES ASSUME NEW o \in DOMAIN outages', outages'[o].paged, outages'[o].dev \notin torn'
             PROVE  \E p \in 1..o : outages'[p].dev = outages'[o].dev /\ outages'[p].proven
  BY DEF OnlyRootCausesPage
<1>1. /\ o \in DOMAIN outages
      /\ outages[o].paged \/ \E t \in Threads : Page(t) /\ o = oid[t]
  BY PagedByPage
<1>2. Remembered /\ torn \subseteq torn'
  <2>1. torn \subseteq torn'
    BY TornGrows
  <2> QED BY <2>1, StepRemembers
<1>3. outages'[o].dev = outages[o].dev /\ outages[o].dev \notin torn
  BY <1>1, <1>2 DEF Remembered
<1>4. \E p \in 1..o : outages[p].dev = outages[o].dev /\ outages[p].proven
  <2>1. CASE outages[o].paged
    BY <1>1, <1>3, <2>1 DEF OnlyRootCausesPage
  <2>2. ASSUME NEW t \in Threads, Page(t), o = oid[t]
        PROVE  \E p \in 1..o : outages[p].dev = outages[o].dev /\ outages[p].proven
    BY <1>3, <2>2 DEF ProvenInHand, Page, Proven
  <2> QED BY <1>1, <2>1, <2>2
<1>5. PICK p \in 1..o : outages[p].dev = outages[o].dev /\ outages[p].proven
  BY <1>4
<1>6. p \in DOMAIN outages
  BY <1>1, RowsType DEF Base
<1> QED BY <1>2, <1>3, <1>5, <1>6 DEF Remembered

\* Every page is for a device that was proven to be a root cause (DOWN, with its parent
\* up), in that outage or in an earlier one, but for devices torn by a fault.
THEOREM RootCausesPage == Spec => []OnlyRootCausesPage
<1> DEFINE Inv == LatestIsOpen /\ Agreement /\ ProvenPages
<1>1. Init => Inv
  <2> SUFFICES ASSUME Init PROVE Inv
    OBVIOUS
  <2>1. LatestIsOpen /\ OnlyRootCausesPage /\ ProvenInHand
    BY DEF Init, LatestIsOpen, OnlyRootCausesPage, ProvenInHand
  <2>2. ProvenEvents
    BY NoEventsType DEF Init, ProvenEvents, Pages, NoEvent
  <2> QED BY <2>1, <2>2, AgreementInit DEF ProvenPages
<1>2. Base /\ Inv /\ [Next]_vars => Inv'
  BY LatestStep, AgreementStep, ProvenEventsStep, ProvenInHandStep, RootCausesStep
     DEF ProvenPages
<1>3. Inv => OnlyRootCausesPage
  BY DEF ProvenPages
<1> QED BY <1>1, <1>2, <1>3, BaseHolds, PTL DEF Spec

-----------------------------------------------------------------------------
\* Messages go out only for outages marked as paged, and no open outage is off the
\* escalation clock for good.
RowsInOrder ==
    \A o \in DOMAIN outages :
        /\ outages[o].queued > 0 \/ outages[o].logged => outages[o].paged
        /\ outages[o].open => outages[o].esc # "done"

\* A handler that pages an outage goes on to put it on the clock.
OnTheClock ==
    \A o \in DOMAIN outages :
        outages[o].open /\ outages[o].paged /\ outages[o].dev \notin missed =>
            \/ outages[o].esc \in {"waiting", "due"}
            \/ \E t \in Threads : pc[t] = "schedule" /\ oid[t] = o

\* Thread t has entered an event that pages the device of outage o, and has not
\* gone past it.
Owes(t, o) ==
    LET d == outages[o].dev
    IN  /\ Pages(event[t][d]) /\ d \notin left[t]
        /\ pc[t] \in {"page", "schedule"} /\ NextOf(Pending(event[t])) = d =>
              pc[t] = "page" /\ oid[t] = o

\* An open DOWN outage was paged, or a handler has yet to page it.
PageOwed ==
    \A o \in DOMAIN outages :
        outages[o].open /\ outages[o].cat = "DOWN" /\ outages[o].dev \notin missed =>
            outages[o].paged \/ \E t \in Threads : Owes(t, o)

-----------------------------------------------------------------------------
\* Messages are queued by a page, and only closed outages leave the clock.
LEMMA RowsStep ==
    ASSUME Base, RowsInOrder, [Next]_vars
    PROVE  RowsInOrder'
<1>1. ASSUME UNCHANGED outages PROVE RowsInOrder'
  BY <1>1 DEF RowsInOrder
<1>2. CASE UNCHANGED vars
  BY <1>1, <1>2 DEF vars, db
<1>3. ASSUME NEW t \in Threads, NEW isFull \in BOOLEAN, Begin(t, isFull) PROVE RowsInOrder'
  BY <1>1, <1>3 DEF Begin, db
<1>4. ASSUME NEW t \in Threads, Fail(t) PROVE RowsInOrder'
  BY <1>1, <1>4 DEF Fail, db
<1>5. ASSUME NEW t \in Threads, Apply(t) PROVE RowsInOrder'
  <2>1. PICK d \in Devices, ev \in Events : EntersEvent(t, d, ev)
    BY <1>5, ApplyEnters
  <2>2. \A o \in DOMAIN outages :
          /\ outages'[o].queued = outages[o].queued /\ outages'[o].logged = outages[o].logged
          /\ outages'[o].paged = outages[o].paged /\ outages'[o].esc = outages[o].esc
    BY <2>1 DEF EntersEvent, Grown
  <2>3. CASE Opened(d, ev.state) /\ ev.state \in DownFamily
    <3> DEFINE n == Len(outages) + 1
    <3>1. /\ DOMAIN outages' = DOMAIN outages \cup {n}
          /\ outages'[n].queued = 0 /\ ~outages'[n].logged /\ outages'[n].esc = "none"
      BY <2>3, NewOutageType DEF Opened
    <3>2. \A o \in DOMAIN outages : outages'[o] = outages[o]
      BY <2>3 DEF Opened
    <3> HIDE DEF n
    <3> QED BY <3>1, <3>2 DEF RowsInOrder
  <2>4. CASE UNCHANGED outages
    BY <1>1, <2>4
  <2>5. CASE Recategorized(d, ev.state)
    BY <2>2, <2>5 DEF Recategorized, OpenOf, RowsInOrder
  <2>6. CASE Resolved(d)
    BY <2>2, <2>6 DEF Resolved, RowsInOrder
  <2> QED BY <2>1, <2>3, <2>4, <2>5, <2>6 DEF EntersEvent
<1>6. ASSUME NEW t \in Threads, Page(t) PROVE RowsInOrder'
  <2> SUFFICES ASSUME NEW o \in DOMAIN outages
               PROVE  /\ outages'[o].queued > 0 \/ outages'[o].logged => outages'[o].paged
                      /\ outages'[o].open => outages'[o].esc # "done"
    BY <1>6, PageEffect DEF RowsInOrder, Kept
  <2>1. CASE o = oid[t]
    BY <1>6, <2>1, PageEffect DEF RowsInOrder
  <2>2. CASE o # oid[t]
    BY <1>6, <2>2, PageEffect DEF RowsInOrder
  <2> QED BY <2>1, <2>2
<1>7. ASSUME NEW t \in Threads, Schedule(t) PROVE RowsInOrder'
  BY <1>7, ScheduleEffect DEF RowsInOrder, Kept
<1>8. ASSUME NEW t \in Threads, Cancel(t) PROVE RowsInOrder'
  BY <1>8, CancelEffect DEF RowsInOrder, Kept
<1>9. ASSUME NEW t \in Threads, Finish(t) PROVE RowsInOrder'
  BY <1>9, FinishEffect DEF RowsInOrder, Kept
<1>10. ASSUME NEW t \in Threads,
             \/ Build(t) \/ Frozen(t) \/ Write(t) \/ FindOutage(t) \/ Suppress(t)
             \/ \E S \in SUBSET Devices : \E res \in Results(S) : Process(t, S, res)
      PROVE  RowsInOrder'
  BY <1>1, <1>10 DEF Build, Frozen, Write, FindOutage, Suppress, Process, db
<1>11. ASSUME NEW o \in DOMAIN outages, Tick(o) PROVE RowsInOrder'
  BY <1>11, TickEffect DEF RowsInOrder, Kept
<1>12. ASSUME NEW o \in DOMAIN outages, NEW ok \in BOOLEAN, Deliver(o, ok) PROVE RowsInOrder'
  BY <1>12, DeliverEffect DEF RowsInOrder, Kept
<1>13. ASSUME NEW d \in Devices, SetMaintenance(d) \/ Assign(d) PROVE RowsInOrder'
  BY <1>1, <1>13 DEF SetMaintenance, Assign
<1>14. ASSUME NEW d \in Devices, Unassign(d) PROVE RowsInOrder'
  BY <1>14, UnassignEffect DEF RowsInOrder, Kept
<1>15. CASE Crash
  BY <1>15, CrashEffect DEF RowsInOrder, Kept
<1> QED BY <1>2, <1>3, <1>4, <1>5, <1>6, <1>7, <1>8, <1>9, <1>10, <1>11, <1>12, <1>13,
           <1>14, <1>15 DEF Next, Step

\* What was lost stays marked.
LEMMA MissedGrows == ASSUME [Next]_vars PROVE missed \subseteq missed'
<1>1. CASE UNCHANGED vars
  BY <1>1 DEF vars, history
<1>2. ASSUME NEW t \in Threads, NEW isFull \in BOOLEAN, Begin(t, isFull)
      PROVE  missed \subseteq missed'
  BY <1>2 DEF Begin, history
<1>3. ASSUME NEW t \in Threads, Step(t) PROVE missed \subseteq missed'
  BY <1>3 DEF Step, Build, Process, Frozen, Apply, Write, FindOutage, Page, Schedule,
              Suppress, Cancel, Finish, history
<1>4. ASSUME NEW t \in Threads, Fail(t) PROVE missed \subseteq missed'
  BY <1>4 DEF Fail
<1>5. ASSUME NEW o \in DOMAIN outages, Tick(o) \/ \E ok \in BOOLEAN : Deliver(o, ok)
      PROVE  missed \subseteq missed'
  BY <1>5 DEF Tick, Deliver, history
<1>6. ASSUME NEW d \in Devices, SetMaintenance(d) \/ Assign(d) \/ Unassign(d)
      PROVE  missed \subseteq missed'
  BY <1>6 DEF SetMaintenance, Assign, Unassign, Edit
<1>7. CASE Crash
  BY <1>7 DEF Crash
<1> QED BY <1>1, <1>2, <1>3, <1>4, <1>5, <1>6, <1>7 DEF Next

\* The clock of the outages that a step neither pages nor schedules.
LEMMA ClockKept ==
    ASSUME Base, OnTheClock, [Next]_vars, Kept,
           \A o \in DOMAIN outages : outages'[o].open /\ outages'[o].paged =>
               /\ outages[o].paged
               /\ outages[o].esc \in {"waiting", "due"} => outages'[o].esc \in {"waiting", "due"},
           \A t \in Threads : pc[t] = "schedule" =>
               \/ pc'[t] = "schedule" /\ oid'[t] = oid[t]
               \/ outages[oid[t]].dev \in missed'
    PROVE  OnTheClock'
<1> SUFFICES ASSUME NEW o \in DOMAIN outages', outages'[o].open, outages'[o].paged,
                    outages'[o].dev \notin missed'
             PROVE  \/ outages'[o].esc \in {"waiting", "due"}
                    \/ \E t \in Threads : pc'[t] = "schedule" /\ oid'[t] = o
  BY DEF OnTheClock
<1>1. /\ o \in DOMAIN outages /\ outages[o].open /\ outages[o].paged
      /\ outages[o].dev \notin missed /\ outages[o].dev \notin missed'
  BY MissedGrows DEF Kept
<1>2. CASE outages[o].esc \in {"waiting", "due"}
  BY <1>1, <1>2
<1>3. ASSUME NEW t \in Threads, pc[t] = "schedule", oid[t] = o
      PROVE  pc'[t] = "schedule" /\ oid'[t] = o
  BY <1>1, <1>3
<1> QED BY <1>1, <1>2, <1>3 DEF OnTheClock

\* A paged outage gets on the clock and stays there while it is open.
LEMMA ClockStep ==
    ASSUME Base, RowsInOrder, OnTheClock, [Next]_vars
    PROVE  OnTheClock'
<1>1. ASSUME UNCHANGED outages,
             \A t \in Threads : pc[t] = "schedule" =>
                \/ pc'[t] = "schedule" /\ oid'[t] = oid[t]
                \/ outages[oid[t]].dev \in missed'
      PROVE  OnTheClock'
  BY <1>1, SameKept, ClockKept DEF Base
<1>2. CASE UNCHANGED vars
  BY <1>1, <1>2 DEF vars, db, memory
<1>3. ASSUME NEW t \in Threads, NEW isFull \in BOOLEAN, Begin(t, isFull) PROVE OnTheClock'
  <2>1. UNCHANGED <<outages, oid>> /\ \A u \in Threads : pc[u] = "schedule" => pc'[u] = pc[u]
    BY <1>3 DEF Begin, db, Base, TypeOK
  <2> QED BY <1>1, <2>1
<1>4. ASSUME NEW t \in Threads, Fail(t) PROVE OnTheClock'
  <2>1. /\ UNCHANGED outages /\ missed' = missed \cup HalfSent(t)
        /\ \A u \in Threads \ {t} : pc'[u] = pc[u] /\ oid'[u] = oid[u]
    BY <1>4 DEF Fail, db, Base, TypeOK
  <2>2. ASSUME pc[t] = "schedule" PROVE outages[oid[t]].dev \in missed'
    <3>1. outages[oid[t]].dev = NextOf(Pending(event[t])) /\ Pending(event[t]) # {}
      BY <2>2 DEF Base, PageHasItsOutage
    <3>2. NextOf(Pending(event[t])) \in Pending(event[t])
      BY <3>1, NextOfIsIn DEF Pending
    <3> QED BY <2>1, <2>2, <3>1, <3>2 DEF HalfSent
  <2> QED BY <1>1, <2>1, <2>2
<1>5. CASE Crash
  <2>1. ASSUME NEW t \in Threads, pc[t] = "schedule" PROVE outages[oid[t]].dev \in missed'
    <3>1. outages[oid[t]].dev = NextOf(Pending(event[t])) /\ Pending(event[t]) # {}
      BY <2>1 DEF Base, PageHasItsOutage
    <3>2. NextOf(Pending(event[t])) \in Pending(event[t])
      BY <3>1, NextOfIsIn DEF Pending
    <3>3. outages[oid[t]].dev \in HalfSent(t)
      BY <2>1, <3>1, <3>2 DEF HalfSent
    <3> QED BY <1>5, <3>3 DEF Crash
  <2> QED BY <1>5, <2>1, CrashEffect, ClockKept
<1>6. ASSUME NEW t \in Threads, Apply(t) PROVE OnTheClock'
  <2>1. PICK d \in Devices, ev \in Events : EntersEvent(t, d, ev)
    BY <1>6, ApplyEnters
  <2>2. UNCHANGED <<pc, oid, missed>>
    BY <1>6 DEF Apply, history
  <2>3. \A o \in DOMAIN outages :
          /\ outages'[o].dev = outages[o].dev
          /\ outages'[o].paged = outages[o].paged /\ outages'[o].esc = outages[o].esc
    BY <2>1 DEF EntersEvent, Grown
  <2>4. CASE Opened(d, ev.state) /\ ev.state \in DownFamily
    <3> DEFINE n == Len(outages) + 1
    <3>1. DOMAIN outages' = DOMAIN outages \cup {n} /\ ~outages'[n].paged
      BY <2>4, NewOutageType DEF Opened
    <3>2. \A o \in DOMAIN outages : outages'[o] = outages[o]
      BY <2>4 DEF Opened
    <3> HIDE DEF n
    <3> QED BY <2>2, <3>1, <3>2 DEF OnTheClock
  <2>5. CASE UNCHANGED outages
    BY <2>2, <2>5 DEF OnTheClock
  <2>6. CASE Recategorized(d, ev.state)
    BY <2>2, <2>3, <2>6 DEF Recategorized, OpenOf, OnTheClock
  <2>7. CASE Resolved(d)
    BY <2>2, <2>3, <2>7 DEF Resolved, OnTheClock
  <2> QED BY <2>1, <2>4, <2>5, <2>6, <2>7 DEF EntersEvent
<1>7. ASSUME NEW t \in Threads, Page(t) PROVE OnTheClock'
  <2>1. /\ missed' = missed /\ pc[t] = "page"
        /\ \A u \in Threads \ {t} : pc'[u] = pc[u] /\ oid'[u] = oid[u]
    BY <1>7 DEF Page, Handled, history, Base, TypeOK
  <2> SUFFICES ASSUME NEW o \in DOMAIN outages', outages'[o].open, outages'[o].paged,
                      outages'[o].dev \notin missed'
               PROVE  \/ outages'[o].esc \in {"waiting", "due"}
                      \/ \E u \in Threads : pc'[u] = "schedule" /\ oid'[u] = o
    BY DEF OnTheClock
  <2>2. /\ o \in DOMAIN outages /\ outages[o].open /\ outages[o].dev \notin missed
        /\ outages'[o].esc = outages[o].esc
    BY <1>7, <2>1, PageEffect DEF Kept
  <2>3. CASE outages[o].paged
    <3>1. ASSUME NEW u \in Threads, pc[u] = "schedule", oid[u] = o
          PROVE  pc'[u] = "schedule" /\ oid'[u] = o
      BY <2>1, <3>1
    <3> QED BY <2>2, <2>3, <3>1 DEF OnTheClock
  <2>4. CASE ~outages[o].paged
    <3>1. o = oid[t]
      BY <1>7, <2>2, <2>4, PageEffect
    <3>2. ~outages[o].logged
      BY <2>2, <2>4 DEF RowsInOrder
    <3>3. pc'[t] = "schedule" /\ oid'[t] = o
      BY <1>7, <3>1, <3>2 DEF Page, Base, TypeOK
    <3> QED BY <3>3
  <2> QED BY <2>3, <2>4
<1>8. ASSUME NEW t \in Threads, Schedule(t) PROVE OnTheClock'
  <2>1. /\ missed' = missed /\ pc[t] = "schedule"
        /\ \A u \in Threads \ {t} : pc'[u] = pc[u] /\ oid'[u] = oid[u]
    BY <1>8 DEF Schedule, Handled, history, Base, TypeOK
  <2> SUFFICES ASSUME NEW o \in DOMAIN outages', outages'[o].open, outages'[o].paged,
                      outages'[o].dev \notin missed'
               PROVE  \/ outages'[o].esc \in {"waiting", "due"}
                      \/ \E u \in Threads : pc'[u] = "schedule" /\ oid'[u] = o
    BY DEF OnTheClock
  <2>2. /\ o \in DOMAIN outages /\ outages[o].open /\ outages[o].paged
        /\ outages[o].dev \notin missed
        /\ outages'[o].esc = IF o = oid[t] /\ outages[o].esc = "none" THEN "waiting"
                             ELSE outages[o].esc
    BY <1>8, <2>1, ScheduleEffect DEF Kept
  <2>3. outages[o].esc \in Escalations /\ outages[o].esc # "done"
    BY <2>2, RowsType DEF Base, Outages, RowsInOrder
  <2>4. CASE o = oid[t]
    BY <2>2, <2>3, <2>4 DEF Escalations
  <2>5. CASE o # oid[t]
    BY <2>1, <2>2, <2>5 DEF OnTheClock
  <2> QED BY <2>4, <2>5
<1>9. ASSUME NEW t \in Threads, Cancel(t) PROVE OnTheClock'
  <2>1. pc[t] # "schedule" /\ \A u \in Threads \ {t} : pc'[u] = pc[u] /\ oid'[u] = oid[u]
    BY <1>9 DEF Cancel, Handled, Base, TypeOK
  <2> QED BY <1>9, <2>1, CancelEffect, ClockKept
<1>10. ASSUME NEW t \in Threads, Finish(t) PROVE OnTheClock'
  <2>1. /\ pc[t] # "schedule" /\ UNCHANGED oid
        /\ \A u \in Threads \ {t} : pc'[u] = pc[u]
    BY <1>10 DEF Finish, Base, TypeOK
  <2>2. Kept /\ \A o \in DOMAIN outages : outages'[o].open /\ outages'[o].paged =>
           /\ outages[o].paged
           /\ outages[o].esc \in {"waiting", "due"} => outages'[o].esc \in {"waiting", "due"}
    BY <1>10, FinishEffect
  <2> QED BY <2>1, <2>2, ClockKept
<1>11. ASSUME NEW t \in Threads,
             \/ Build(t) \/ Frozen(t) \/ Write(t) \/ FindOutage(t) \/ Suppress(t)
             \/ \E S \in SUBSET Devices : \E res \in Results(S) : Process(t, S, res)
      PROVE  OnTheClock'
  <2>1. /\ UNCHANGED outages /\ pc[t] # "schedule"
        /\ \A u \in Threads \ {t} : pc'[u] = pc[u] /\ oid'[u] = oid[u]
    BY <1>11 DEF Build, Frozen, Write, FindOutage, Suppress, Handled, Process, db, Base, TypeOK
  <2> QED BY <1>1, <2>1
<1>12. ASSUME NEW o \in DOMAIN outages, Tick(o) PROVE OnTheClock'
  <2>1. UNCHANGED <<pc, oid>>
    BY <1>12 DEF Tick, memory
  <2> QED BY <1>12, <2>1, TickEffect, ClockKept
<1>13. ASSUME NEW o \in DOMAIN outages, NEW ok \in BOOLEAN, Deliver(o, ok) PROVE OnTheClock'
  <2>1. UNCHANGED <<pc, oid>>
    BY <1>13 DEF Deliver, memory
  <2> QED BY <1>13, <2>1, DeliverEffect, ClockKept
<1>14. ASSUME NEW d \in Devices, SetMaintenance(d) \/ Assign(d) PROVE OnTheClock'
  BY <1>1, <1>14 DEF SetMaintenance, Assign, Edit, memory
<1>15. ASSUME NEW d \in Devices, Unassign(d) PROVE OnTheClock'
  <2>1. UNCHANGED <<pc, oid>>
    BY <1>15 DEF Unassign, Edit, memory
  <2> QED BY <1>15, <2>1, UnassignEffect, ClockKept
<1> QED BY <1>2, <1>3, <1>4, <1>5, <1>6, <1>7, <1>8, <1>9, <1>10, <1>11, <1>12, <1>13,
           <1>14, <1>15 DEF Next, Step

-----------------------------------------------------------------------------
\* A thread that owes a page still owes it, as long as it keeps its event and turns to
\* that device only to page the outage.
LEMMA StillOwes ==
    ASSUME NEW t \in Threads, NEW o \in DOMAIN outages, Owes(t, o),
           outages'[o].dev = outages[o].dev,
           event'[t][outages[o].dev] = event[t][outages[o].dev],
           outages[o].dev \notin left[t] => outages[o].dev \notin left'[t],
           pc'[t] \in {"page", "schedule"} /\ NextOf(Pending(event'[t])) = outages[o].dev
               => pc'[t] = "page" /\ oid'[t] = o
    PROVE  Owes(t, o)'
BY DEF Owes

\* A step that opens and recategorizes nothing, and where the threads that owe a page
\* still do, or have paged, or have given up.
LEMMA OwedKept ==
    ASSUME Base, PageOwed, [Next]_vars, Kept,
           \A o \in DOMAIN outages : outages[o].paged => outages'[o].paged,
           \A t \in Threads : \A o \in DOMAIN outages :
               Owes(t, o) /\ outages[o].open =>
                   \/ Owes(t, o)' \/ outages'[o].paged \/ outages[o].dev \in missed'
    PROVE  PageOwed'
<1> SUFFICES ASSUME NEW o \in DOMAIN outages', outages'[o].open, outages'[o].cat = "DOWN",
                    outages'[o].dev \notin missed'
             PROVE  outages'[o].paged \/ \E t \in Threads : Owes(t, o)'
  BY DEF PageOwed
<1>1. /\ o \in DOMAIN outages /\ outages[o].open /\ outages[o].cat = "DOWN"
      /\ outages[o].dev \notin missed /\ outages[o].dev \notin missed'
  BY MissedGrows DEF Kept
<1> QED BY <1>1 DEF PageOwed

\* Without a page there is nothing to owe.
LEMMA OwesInCycle ==
    ASSUME Base, NEW t \in Threads, NEW o \in DOMAIN outages, Owes(t, o)
    PROVE  /\ pc[t] \in {"apply", "dispatch", "page", "schedule"}
           /\ outages[o].dev \in Devices /\ outages[o].dev \in Pending(event[t])
<1>1. outages[o].dev \in Devices
  BY RowsType DEF Base, Outages
<1>2. outages[o].dev \in Pending(event[t])
  BY <1>1 DEF Owes, Pages, Pending
<1> QED BY <1>1, <1>2 DEF Base, TypeOK, Handlers, EventsInOrder

\* A handler that goes on to its next event has paged, or owes nothing for the last.
LEMMA HandledOwes ==
    ASSUME Base, Kept, NEW t \in Threads, NEW d \in Devices, Handled(t, d), UNCHANGED left,
           NEW o \in DOMAIN outages, NEW u \in Threads, Owes(u, o),
           u = t => outages[o].dev # d
    PROVE  Owes(u, o)'
<1>1. outages[o].dev \in Devices /\ outages'[o].dev = outages[o].dev
  BY OwesInCycle DEF Kept
<1>2. CASE u = t
  <2>1. pc'[t] = "dispatch" /\ event'[t][outages[o].dev] = event[t][outages[o].dev]
    BY <1>1, <1>2 DEF Handled, Base, TypeOK
  <2> QED BY <1>1, <1>2, <2>1, StillOwes
<1>3. CASE u # t
  <2>1. pc'[u] = pc[u] /\ event'[u] = event[u] /\ oid'[u] = oid[u]
    BY <1>3 DEF Handled, Base, TypeOK
  <2>2. pc'[u] \in {"page", "schedule"} /\ NextOf(Pending(event'[u])) = outages[o].dev
          => pc'[u] = "page" /\ oid'[u] = o
    BY <2>1 DEF Owes
  <2> QED BY <1>1, <2>1, <2>2, StillOwes
<1> QED BY <1>2, <1>3

\* A page that is owed is sent, or its device is marked as missed.
LEMMA OwedStep ==
    ASSUME Base, LatestIsOpen, PageOwed, [Next]_vars
    PROVE  PageOwed'
<1>1. ASSUME Kept, UNCHANGED memory,
             \A o \in DOMAIN outages : outages[o].paged => outages'[o].paged
      PROVE  PageOwed'
  <2>1. ASSUME NEW t \in Threads, NEW o \in DOMAIN outages, Owes(t, o) PROVE Owes(t, o)'
    <3>1. outages'[o].dev = outages[o].dev /\ UNCHANGED <<pc, event, left, oid>>
      BY <1>1 DEF Kept, memory
    <3>2. pc'[t] \in {"page", "schedule"} /\ NextOf(Pending(event'[t])) = outages[o].dev
            => pc'[t] = "page" /\ oid'[t] = o
      BY <2>1, <3>1 DEF Owes
    <3> QED BY <2>1, <3>1, <3>2, StillOwes
  <2> QED BY <1>1, <2>1, OwedKept
<1>2. ASSUME UNCHANGED outages PROVE Kept /\ \A o \in DOMAIN outages : outages'[o] = outages[o]
  BY <1>2, SameKept DEF Base
\* A step of thread t that moves it without an event changing.
<1>3. ASSUME UNCHANGED <<outages, event>>, NEW t \in Threads,
             \A u \in Threads \ {t} : pc'[u] = pc[u] /\ oid'[u] = oid[u],
             pc'[t] \notin {"page", "schedule"},
             \A u \in Threads : left'[u] \subseteq left[u]
      PROVE  PageOwed'
  <2>1. ASSUME NEW u \in Threads, NEW o \in DOMAIN outages, Owes(u, o) PROVE Owes(u, o)'
    <3>1. pc'[u] \in {"page", "schedule"} /\ NextOf(Pending(event'[u])) = outages[o].dev
            => pc'[u] = "page" /\ oid'[u] = o
      BY <1>3, <2>1 DEF Owes
    <3> QED BY <1>3, <2>1, <3>1, StillOwes
  <2> QED BY <1>2, <1>3, <2>1, OwedKept
\* A step of a thread that owes nothing.
<1>4. ASSUME UNCHANGED outages, NEW t \in Threads,
             pc[t] \in {"idle", "build", "process"},
             \A u \in Threads \ {t} : /\ pc'[u] = pc[u] /\ oid'[u] = oid[u]
                                      /\ event'[u] = event[u] /\ left'[u] = left[u]
      PROVE  PageOwed'
  <2>1. ASSUME NEW u \in Threads, NEW o \in DOMAIN outages, Owes(u, o) PROVE Owes(u, o)'
    <3>1. u # t
      BY <1>4, <2>1, OwesInCycle
    <3>2. pc'[u] \in {"page", "schedule"} /\ NextOf(Pending(event'[u])) = outages[o].dev
            => pc'[u] = "page" /\ oid'[u] = o
      BY <1>4, <2>1, <3>1 DEF Owes
    <3> QED BY <1>4, <2>1, <3>1, <3>2, StillOwes
  <2> QED BY <1>2, <1>4, <2>1, OwedKept
<1>5. CASE UNCHANGED vars
  BY <1>1, <1>2, <1>5 DEF vars, db
<1>6. ASSUME NEW t \in Threads,
             \/ \E isFull \in BOOLEAN : Begin(t, isFull)
             \/ Build(t) \/ Frozen(t)
             \/ \E S \in SUBSET Devices : \E res \in Results(S) : Process(t, S, res)
      PROVE  PageOwed'
  <2>1. /\ UNCHANGED outages /\ pc[t] \in {"idle", "build", "process"}
        /\ \A u \in Threads \ {t} : /\ pc'[u] = pc[u] /\ oid'[u] = oid[u]
                                    /\ event'[u] = event[u] /\ left'[u] = left[u]
    BY <1>6 DEF Begin, Build, Frozen, Process, db, Base, TypeOK
  <2> QED BY <1>4, <2>1
<1>7. ASSUME NEW t \in Threads, Write(t) PROVE PageOwed'
  <2>1. /\ UNCHANGED <<outages, event, left>> /\ pc'[t] = "dispatch"
        /\ \A u \in Threads \ {t} : pc'[u] = pc[u] /\ oid'[u] = oid[u]
    BY <1>7 DEF Write, Base, TypeOK
  <2> QED BY <1>3, <2>1
<1>8. ASSUME NEW t \in Threads, Finish(t) PROVE PageOwed'
  <2>1. /\ UNCHANGED <<event, left, oid>> /\ pc[t] = "dispatch" /\ pc'[t] = "idle"
        /\ \A u \in Threads \ {t} : pc'[u] = pc[u]
    BY <1>8 DEF Finish, Base, TypeOK
  <2>2. Kept /\ \A o \in DOMAIN outages : outages[o].paged => outages'[o].paged
    BY <1>8, FinishEffect
  <2>3. ASSUME NEW u \in Threads, NEW o \in DOMAIN outages, Owes(u, o) PROVE Owes(u, o)'
    <3>1. pc'[u] \in {"page", "schedule"} /\ NextOf(Pending(event'[u])) = outages[o].dev
            => pc'[u] = "page" /\ oid'[u] = o
      BY <2>1, <2>3 DEF Owes
    <3> QED BY <2>1, <2>2, <2>3, <3>1, StillOwes DEF Kept
  <2> QED BY <2>2, <2>3, OwedKept
<1>9. ASSUME NEW t \in Threads, Fail(t) PROVE PageOwed'
  <2>1. /\ UNCHANGED outages /\ missed' = missed \cup HalfSent(t)
        /\ \A u \in Threads \ {t} : /\ pc'[u] = pc[u] /\ oid'[u] = oid[u]
                                    /\ event'[u] = event[u] /\ left'[u] = left[u]
    BY <1>9 DEF Fail, db, Base, TypeOK
  <2>2. ASSUME NEW u \in Threads, NEW o \in DOMAIN outages, Owes(u, o)
        PROVE  Owes(u, o)' \/ outages[o].dev \in missed'
    <3>1. CASE u = t
      BY <2>1, <2>2, <3>1, OwesInCycle DEF HalfSent
    <3>2. CASE u # t
      <4>1. pc'[u] \in {"page", "schedule"} /\ NextOf(Pending(event'[u])) = outages[o].dev
              => pc'[u] = "page" /\ oid'[u] = o
        BY <2>1, <2>2, <3>2 DEF Owes
      <4> QED BY <2>1, <2>2, <3>2, <4>1, StillOwes
    <3> QED BY <3>1, <3>2
  <2> QED BY <1>2, <2>1, <2>2, OwedKept
<1>10. CASE Crash
  <2>1. ASSUME NEW u \in Threads, NEW o \in DOMAIN outages, Owes(u, o)
        PROVE  outages[o].dev \in missed'
    <3>1. outages[o].dev \in HalfSent(u)
      BY <2>1, OwesInCycle DEF HalfSent
    <3> QED BY <1>10, <3>1 DEF Crash
  <2> QED BY <1>10, <2>1, CrashEffect, OwedKept
<1>11. ASSUME NEW t \in Threads, Apply(t) PROVE PageOwed'
  <2>1. PICK d \in Devices, ev \in Events : EntersEvent(t, d, ev)
    BY <1>11, ApplyEnters
  <2>2. /\ UNCHANGED <<pc, event, oid, missed>> /\ pc[t] = "apply" /\ d \notin left'[t]
        /\ \A u \in Threads : left'[u] \subseteq left[u]
    BY <1>11, <2>1 DEF Apply, EntersEvent, history, Base, TypeOK
  <2>3. ASSUME NEW u \in Threads, NEW o \in DOMAIN outages, Owes(u, o) PROVE Owes(u, o)'
    <3>1. outages'[o].dev = outages[o].dev
      BY <2>1 DEF EntersEvent, Grown
    <3>2. pc'[u] \in {"page", "schedule"} /\ NextOf(Pending(event'[u])) = outages[o].dev
            => pc'[u] = "page" /\ oid'[u] = o
      BY <2>2, <2>3 DEF Owes
    <3> QED BY <2>2, <2>3, <3>1, <3>2, StillOwes
  <2>4. ASSUME NEW o \in DOMAIN outages', outages'[o].dev = d, Pages(ev) PROVE Owes(t, o)'
    BY <2>1, <2>2, <2>4 DEF Owes, EntersEvent
  <2>5. \A o \in DOMAIN outages :
          /\ outages'[o].dev = outages[o].dev /\ outages'[o].paged = outages[o].paged
    BY <2>1 DEF EntersEvent, Grown
  <2> SUFFICES ASSUME NEW o \in DOMAIN outages', outages'[o].open, outages'[o].cat = "DOWN",
                      outages'[o].dev \notin missed'
               PROVE  outages'[o].paged \/ \E u \in Threads : Owes(u, o)'
    BY DEF PageOwed
  <2>6. ASSUME o \in DOMAIN outages, outages[o].open, outages[o].cat = "DOWN"
        PROVE  outages'[o].paged \/ \E u \in Threads : Owes(u, o)'
    BY <2>2, <2>3, <2>5, <2>6 DEF PageOwed
  <2>7. CASE ev.kind = "opened" /\ ev.state \in DownFamily /\ Opened(d, ev.state)
    <3>1. CASE o \in DOMAIN outages
      BY <2>6, <2>7, <3>1 DEF Opened
    <3>2. CASE o \notin DOMAIN outages
      <4>1. outages'[o].dev = d /\ outages'[o].cat = ev.state
        BY <2>7, <3>2, NewOutageType DEF Opened
      <4>2. Pages(ev)
        BY <2>7, <4>1 DEF Pages
      <4> QED BY <2>4, <4>1, <4>2
    <3> QED BY <3>1, <3>2
  <2>8. CASE UNCHANGED outages
    BY <2>6, <2>8
  <2>9. CASE ev.kind = "recategorized" /\ Recategorized(d, ev.state)
    <3>1. CASE o \in OpenOf(d)
      <4>1. outages'[o].dev = d /\ outages'[o].cat = ev.state
        BY <2>5, <2>9, <3>1 DEF Recategorized, OpenOf
      <4>2. Pages(ev)
        BY <2>9, <4>1 DEF Pages
      <4> QED BY <2>4, <4>1, <4>2
    <3>2. CASE o \notin OpenOf(d)
      BY <2>6, <2>9, <3>2 DEF Recategorized
    <3> QED BY <3>1, <3>2
  <2>10. CASE Resolved(d)
    BY <2>6, <2>10 DEF Resolved
  <2> QED BY <2>1, <2>7, <2>8, <2>9, <2>10 DEF EntersEvent
<1>12. ASSUME NEW t \in Threads,
              FindOutage(t) \/ Page(t) \/ Schedule(t) \/ Suppress(t) \/ Cancel(t)
       PROVE  PageOwed'
  <2> DEFINE d == NextOf(Pending(event[t]))
  <2>1. d \in Devices /\ Pending(event[t]) # {} /\ d \in Pending(event[t])
    <3>1. Pending(event[t]) # {}
      BY <1>12 DEF FindOutage, Page, Schedule, Suppress, Cancel, Base, PageHasItsOutage
    <3> QED BY <3>1, NextOfIsIn DEF Pending
  <2>2. UNCHANGED left
    BY <1>12 DEF FindOutage, Page, Schedule, Suppress, Cancel
  <2>3. Kept /\ \A o \in DOMAIN outages : outages[o].paged => outages'[o].paged
    <3>1. CASE FindOutage(t) \/ Suppress(t)
      BY <1>2, <3>1 DEF FindOutage, Suppress, db
    <3>2. CASE Page(t)
      BY <3>2, PageEffect
    <3>3. CASE Schedule(t)
      BY <3>3, ScheduleEffect
    <3>4. CASE Cancel(t)
      BY <3>4, CancelEffect
    <3> QED BY <1>12, <3>1, <3>2, <3>3, <3>4
  \* The steps that turn to the page or the schedule of the device in hand.
  <2>4. ASSUME UNCHANGED event, pc'[t] \in {"page", "schedule"},
               \A u \in Threads \ {t} : pc'[u] = pc[u] /\ oid'[u] = oid[u],
               NEW u \in Threads, NEW o \in DOMAIN outages, Owes(u, o),
               u = t /\ outages[o].dev = d => pc'[t] = "page" /\ oid'[t] = o
        PROVE  Owes(u, o)'
    <3>1. pc'[u] \in {"page", "schedule"} /\ NextOf(Pending(event'[u])) = outages[o].dev
            => pc'[u] = "page" /\ oid'[u] = o
      <4>1. CASE u = t
        BY <2>4, <4>1
      <4>2. CASE u # t
        BY <2>4, <4>2 DEF Owes
      <4> QED BY <4>1, <4>2
    <3> QED BY <2>2, <2>3, <2>4, <3>1, StillOwes DEF Kept
  <2>5. ASSUME Handled(t, d), NEW u \in Threads, NEW o \in DOMAIN outages, Owes(u, o),
               u = t => outages[o].dev # d
        PROVE  Owes(u, o)'
    <3> HIDE DEF d
    <3> QED BY <2>1, <2>2, <2>3, <2>5, HandledOwes
  <2>6. CASE FindOutage(t)
    <3>1. \A u \in Threads \ {t} : pc'[u] = pc[u] /\ oid'[u] = oid[u]
      BY <2>6 DEF FindOutage, Handled, Base, TypeOK
    <3>2. CASE OpenOf(d) = {}
      <4>1. Handled(t, d)
        BY <2>6, <3>2 DEF FindOutage
      <4>2. ASSUME NEW u \in Threads, NEW o \in DOMAIN outages, Owes(u, o), outages[o].open
            PROVE  Owes(u, o)'
        <5>1. outages[o].dev # d
          BY <3>2, <4>2 DEF OpenOf
        <5> QED BY <2>5, <4>1, <4>2, <5>1
      <4> QED BY <2>3, <4>2, OwedKept
    <3>3. CASE OpenOf(d) # {}
      <4> DEFINE i == CHOOSE o \in OpenOf(d) : \A p \in OpenOf(d) : p <= o
      <4>1. i \in OpenOf(d) /\ \A p \in OpenOf(d) : p <= i
        BY <2>1, <3>3, LatestOpenIsIn DEF Base
      <4>2. pc'[t] = "page" /\ oid'[t] = i /\ UNCHANGED event
        BY <2>6, <3>3 DEF FindOutage, Base, TypeOK
      <4> HIDE DEF i
      <4>3. ASSUME NEW o \in DOMAIN outages, outages[o].open, outages[o].dev = d PROVE o = i
        <5>1. /\ i \in DOMAIN outages /\ outages[i].dev = d
              /\ o \in OpenOf(d) /\ i \in Nat /\ o \in Nat
          BY <4>1, <4>3, RowsType DEF OpenOf, Base
        <5>2. o <= i /\ i <= o
          BY <4>1, <4>3, <5>1 DEF LatestIsOpen
        <5> QED BY <5>1, <5>2
      <4>4. ASSUME NEW u \in Threads, NEW o \in DOMAIN outages, Owes(u, o), outages[o].open
            PROVE  Owes(u, o)'
        BY <2>4, <3>1, <4>2, <4>3, <4>4
      <4> QED BY <2>3, <4>4, OwedKept
    <3> QED BY <3>2, <3>3
  <2>7. CASE Page(t)
    <3>1. /\ \A u \in Threads \ {t} : pc'[u] = pc[u] /\ oid'[u] = oid[u]
          /\ Handled(t, d) \/ (UNCHANGED event /\ pc'[t] = "schedule")
      BY <2>7 DEF Page, Handled, Base, TypeOK
    <3>2. ASSUME NEW u \in Threads, NEW o \in DOMAIN outages, Owes(u, o)
          PROVE  Owes(u, o)' \/ outages'[o].paged
      <4>1. CASE u = t /\ outages[o].dev = d
        <5>1. o = oid[t]
          BY <2>7, <3>2, <4>1 DEF Owes, Page
        <5> QED BY <2>7, <5>1, PageEffect
      <4>2. CASE ~(u = t /\ outages[o].dev = d)
        BY <2>4, <2>5, <3>1, <3>2, <4>2
      <4> QED BY <4>1, <4>2
    <3> QED BY <2>3, <3>2, OwedKept
  <2>8. CASE Schedule(t)
    <3>1. Handled(t, d) /\ pc[t] = "schedule"
      BY <2>8 DEF Schedule
    <3>2. ASSUME NEW u \in Threads, NEW o \in DOMAIN outages, Owes(u, o) PROVE Owes(u, o)'
      <4>1. u = t => outages[o].dev # d
        BY <3>1, <3>2 DEF Owes
      <4> QED BY <2>5, <3>1, <3>2, <4>1
    <3> QED BY <2>3, <3>2, OwedKept
  <2>9. CASE Suppress(t) \/ Cancel(t)
    <3>1. Handled(t, d) /\ ~Pages(event[t][d])
      BY <2>9 DEF Suppress, Cancel, Pages
    <3>2. ASSUME NEW u \in Threads, NEW o \in DOMAIN outages, Owes(u, o) PROVE Owes(u, o)'
      <4>1. u = t => outages[o].dev # d
        BY <3>1, <3>2 DEF Owes
      <4> QED BY <2>5, <3>1, <3>2, <4>1
    <3> QED BY <2>3, <3>2, OwedKept
  <2> QED BY <1>12, <2>6, <2>7, <2>8, <2>9
<1>13. ASSUME NEW o \in DOMAIN outages, Tick(o) PROVE PageOwed'
  <2>1. UNCHANGED memory
    BY <1>13 DEF Tick
  <2> QED BY <1>1, <1>13, <2>1, TickEffect
<1>14. ASSUME NEW o \in DOMAIN outages, NEW ok \in BOOLEAN, Deliver(o, ok) PROVE PageOwed'
  BY <1>1, <1>14, DeliverEffect DEF Deliver
<1>15. ASSUME NEW d \in Devices, SetMaintenance(d) \/ Assign(d) PROVE PageOwed'
  BY <1>1, <1>2, <1>15 DEF SetMaintenance, Assign, Edit
<1>16. ASSUME NEW d \in Devices, Unassign(d) PROVE PageOwed'
  BY <1>1, <1>16, UnassignEffect DEF Unassign, Edit
<1> QED BY <1>5, <1>6, <1>7, <1>8, <1>9, <1>10, <1>11, <1>12, <1>13, <1>14, <1>15, <1>16
        DEF Next, Step

\* With every handler idle, each open DOWN outage was paged and each open outage that
\* was paged is on the escalation clock, but for devices whose handler a fault stopped.
THEOREM OutagesAreSeenTo == Spec => []OpenOutagesAreSeenTo
<1> DEFINE Inv == LatestIsOpen /\ RowsInOrder /\ OnTheClock /\ PageOwed
<1>1. Init => Inv
  BY DEF Init, LatestIsOpen, RowsInOrder, OnTheClock, PageOwed
<1>2. Base /\ Inv /\ [Next]_vars => Inv'
  BY LatestStep, RowsStep, ClockStep, OwedStep
<1>3. Base /\ Inv => OpenOutagesAreSeenTo
  <2> SUFFICES ASSUME Base, Inv, AtRest, NEW o \in DOMAIN outages, outages[o].open,
                      outages[o].dev \notin missed
               PROVE  /\ outages[o].cat = "DOWN" => outages[o].paged
                      /\ outages[o].paged => outages[o].esc \in {"waiting", "due"}
    BY DEF OpenOutagesAreSeenTo, OpenDownIsPaged, PagedOutageEscalates
  <2>1. \A t \in Threads : pc[t] = "idle"
    BY DEF AtRest
  <2>2. \A t \in Threads : ~Owes(t, o)
    BY <2>1, OwesInCycle
  <2> QED BY <2>1, <2>2 DEF PageOwed, OnTheClock
<1> QED BY <1>1, <1>2, <1>3, BaseHolds, PTL DEF Spec

-----------------------------------------------------------------------------
\* With one report handled at a time, a page is for the outage that was proven, except
\* on the devices that a fault or an edit left inconsistent.
Sole == \A t, u \in Threads : t = u

\* A page is for an outage that was proven itself.
SolePagesProven ==
    \A o \in DOMAIN outages :
        outages[o].paged /\ outages[o].dev \notin torn => outages[o].proven

\* The open outages of a device whose event pages are the ones it proved.
SoleEvents ==
    \A t \in Threads : \A d \in Devices \ torn :
        Pages(event[t][d]) /\ d \notin left[t] => \A o \in OpenOf(d) : outages[o].proven

\* The outage that a handler is about to page was proven.
SoleInHand ==
    \A t \in Threads :
        pc[t] = "page" /\ outages[oid[t]].dev \notin torn => outages[oid[t]].proven

\* The invariant behind SolePagesProven.
SoleInv == SoleEvents /\ SoleInHand /\ SolePagesProven

\* With one handler no outage opens between the entry of an event and its page.
LEMMA SoleEventsStep ==
    ASSUME Sole, Base, Agreement, SoleEvents, [Next]_vars
    PROVE  SoleEvents'
<1> USE TornGrows
<1>1. ASSUME Kept, \A u \in Threads, d \in Devices :
                      Pages(event'[u][d]) /\ d \notin left'[u] =>
                          Pages(event[u][d]) /\ d \notin left[u]
      PROVE  SoleEvents'
  BY <1>1 DEF SoleEvents, Kept, OpenOf
<1>2. ASSUME UNCHANGED outages PROVE Kept
  BY <1>2, SameKept DEF Base
<1>3. CASE UNCHANGED vars
  BY <1>1, <1>2, <1>3 DEF vars, db, memory
<1>4. ASSUME NEW t \in Threads, NEW isFull \in BOOLEAN, Begin(t, isFull) PROVE SoleEvents'
  BY <1>1, <1>2, <1>4 DEF Begin, db
<1>5. ASSUME NEW t \in Threads, Fail(t) PROVE SoleEvents'
  <2>1. \A d \in Devices : ~Pages(event'[t][d])
    BY <1>5, NoEventsType DEF Fail, Base, TypeOK, Pages
  <2> QED BY <1>1, <1>2, <1>5, <2>1 DEF Fail, db, Sole
<1>6. CASE Crash
  BY <1>1, <1>6, CrashEffect, NoEventsType DEF Crash, Pages
<1>7. ASSUME NEW t \in Threads, Apply(t) PROVE SoleEvents'
  <2>1. PICK e \in Devices, ev \in Events : EntersEvent(t, e, ev)
    BY <1>7, ApplyEnters
  <2>2. /\ UNCHANGED <<event, torn>> /\ pc[t] = "apply"
        /\ left'[t] = left[t] \ {e} /\ ev = event[t][e]
    BY <1>7, <2>1 DEF Apply, EntersEvent, history, Base, TypeOK
  <2> SUFFICES ASSUME NEW d \in Devices \ torn, Pages(event[t][d]), d \notin left'[t],
                      NEW o \in DOMAIN outages', outages'[o].dev = d, outages'[o].open
               PROVE  outages'[o].proven
    BY <2>2 DEF SoleEvents, Sole, OpenOf
  <2>3. \A p \in DOMAIN outages : /\ outages'[p].dev = outages[p].dev
                                  /\ outages[p].proven => outages'[p].proven
    BY <2>1 DEF EntersEvent, Grown
  <2>4. ASSUME d # e, o \in OpenOf(d) PROVE outages'[o].proven
    BY <2>2, <2>3, <2>4 DEF SoleEvents, OpenOf
  <2>5. d = e => Fits(ev, Category(states[d]), Category(engine[d].state))
                 /\ Tells(d, Category(states[d]))
    BY <2>1, <2>2 DEF Agreement, EnteringInStep, Entering, EntersEvent
  <2>6. CASE ev.kind = "opened" /\ ev.state \in DownFamily /\ Opened(e, ev.state)
    <3>1. CASE o \in DOMAIN outages
      <4>1. outages'[o] = outages[o]
        BY <2>6, <3>1 DEF Opened
      <4>2. o \in OpenOf(d) /\ d # e
        BY <2>6, <3>1, <4>1 DEF Opened, OpenOf
      <4> QED BY <2>4, <4>2
    <3>2. CASE o \notin DOMAIN outages
      <4>1. d = e /\ (outages'[o].proven <=> ev.state = "DOWN")
        BY <2>6, <3>2, NewOutageType DEF Opened
      <4> QED BY <2>2, <4>1 DEF Pages
    <3> QED BY <3>1, <3>2
  <2>7. CASE ev.kind = "opened" /\ OpenOf(e) # {} /\ UNCHANGED outages
    <3>1. d # e
      BY <2>5, <2>7 DEF Fits, Tells
    <3> QED BY <2>4, <2>7, <3>1 DEF OpenOf
  <2>8. CASE ev.kind = "recategorized" /\ Recategorized(e, ev.state)
    <3>1. CASE o \in OpenOf(e)
      <4>1. d = e /\ (outages'[o].proven <=> outages[o].proven \/ ev.state = "DOWN")
        BY <2>3, <2>8, <3>1 DEF Recategorized, OpenOf
      <4> QED BY <2>2, <4>1 DEF Pages
    <3>2. CASE o \notin OpenOf(e)
      <4>1. o \in DOMAIN outages /\ outages'[o] = outages[o]
        BY <2>8, <3>2 DEF Recategorized
      <4> QED BY <2>4, <3>2, <4>1 DEF OpenOf
    <3> QED BY <3>1, <3>2
  <2>9. CASE ev.kind = "resolved" /\ Resolved(e)
    BY <2>3, <2>4, <2>9 DEF Resolved, OpenOf
  <2> QED BY <2>1, <2>6, <2>7, <2>8, <2>9 DEF EntersEvent
<1>8. ASSUME NEW t \in Threads, NEW S \in SUBSET Devices, NEW res \in Results(S),
             Process(t, S, res)
      PROVE  SoleEvents'
  <2>1. left'[t] = Pending(event'[t])
    BY <1>8 DEF Process, Base, TypeOK
  <2>2. \A d \in Devices : d \notin left'[t] => ~Pages(event'[t][d])
    BY <2>1 DEF Pending, Pages
  <2> QED BY <1>1, <1>2, <1>8, <2>2 DEF Process, db, Sole
<1>9. ASSUME NEW t \in Threads, Frozen(t) PROVE SoleEvents'
  <2>1. \A d \in Devices : ~Pages(event'[t][d])
    BY <1>9, NoEventsType DEF Frozen, Base, TypeOK, Pages
  <2> QED BY <1>1, <1>2, <1>9, <2>1 DEF Frozen, db, Sole
<1>10. ASSUME NEW t \in Threads, Build(t) \/ Write(t) \/ Finish(t) PROVE SoleEvents'
  BY <1>1, <1>2, <1>10, FinishEffect DEF Build, Write, Finish, db
<1>11. ASSUME NEW t \in Threads,
              FindOutage(t) \/ Page(t) \/ Schedule(t) \/ Suppress(t) \/ Cancel(t)
       PROVE  SoleEvents'
  <2>1. UNCHANGED left /\ Kept
    BY <1>2, <1>11, PageEffect, ScheduleEffect, CancelEffect
       DEF FindOutage, Page, Schedule, Suppress, Cancel, db
  <2>2. \/ UNCHANGED event
        \/ \E e : event' = [event EXCEPT ![t] = [@ EXCEPT ![e] = NoEvent]]
    BY <1>11 DEF FindOutage, Page, Schedule, Suppress, Cancel, Handled
  <2>3. \A d \in Devices : event'[t][d] \in {NoEvent, event[t][d]}
    BY <2>2 DEF Base, TypeOK
  <2>4. ~Pages(NoEvent)
    BY DEF Pages, NoEvent
  <2> QED BY <1>1, <2>1, <2>3, <2>4 DEF Sole
<1>12. ASSUME NEW o \in DOMAIN outages, Tick(o) \/ \E ok \in BOOLEAN : Deliver(o, ok)
       PROVE  SoleEvents'
  <2>1. Kept /\ UNCHANGED memory
    BY <1>12, TickEffect, DeliverEffect DEF Tick, Deliver
  <2> QED BY <1>1, <2>1 DEF memory
<1>13. ASSUME NEW d \in Devices, SetMaintenance(d) \/ Assign(d) \/ Unassign(d)
       PROVE  SoleEvents'
  <2>1. Kept /\ UNCHANGED memory
    BY <1>2, <1>13, UnassignEffect DEF SetMaintenance, Assign, Unassign, Edit
  <2> QED BY <1>1, <2>1 DEF memory
<1> QED BY <1>3, <1>4, <1>5, <1>6, <1>7, <1>8, <1>9, <1>10, <1>11, <1>12, <1>13
        DEF Next, Step

\* With one handler the outage found is the one that was entered.
LEMMA SoleInHandStep ==
    ASSUME Sole, Base, SoleEvents, SoleInHand, [Next]_vars
    PROVE  SoleInHand'
<1> SUFFICES ASSUME NEW t \in Threads, pc'[t] = "page", outages'[oid'[t]].dev \notin torn'
             PROVE  outages'[oid'[t]].proven
  BY DEF SoleInHand
<1> USE TornGrows, StepRemembers
<1>1. ASSUME pc[t] = "page", oid'[t] = oid[t] PROVE outages'[oid'[t]].proven
  <2>1. oid[t] \in DOMAIN outages
    BY <1>1 DEF Base, PageHasItsOutage
  <2> QED BY <1>1, <2>1 DEF SoleInHand, Remembered
<1>2. ASSUME FindOutage(t) PROVE outages'[oid'[t]].proven
  <2> DEFINE d == NextOf(Pending(event[t]))
             i == CHOOSE o \in OpenOf(d) : \A p \in OpenOf(d) : p <= o
  <2>1. d \in Pending(event[t]) /\ d \in Devices /\ Pages(event[t][d])
    BY <1>2, NextOfIsIn DEF FindOutage, Pending
  <2>2. OpenOf(d) # {} /\ oid'[t] = i /\ UNCHANGED <<outages, torn>>
    BY <1>2 DEF FindOutage, Handled, db, history, Base, TypeOK
  <2>3. i \in OpenOf(d)
    BY <2>1, <2>2, LatestOpenIsIn DEF Base
  <2>4. d \notin left[t]
    BY <1>2 DEF FindOutage, Base, EventsInOrder
  <2> HIDE DEF d, i
  <2> QED BY <2>1, <2>2, <2>3, <2>4 DEF SoleEvents, OpenOf
<1>3. CASE UNCHANGED memory
  BY <1>1, <1>3 DEF memory
<1>4. ASSUME NEW u \in Threads,
             \/ \E isFull \in BOOLEAN : Begin(u, isFull)
             \/ Build(u) \/ Frozen(u) \/ Apply(u) \/ Write(u) \/ Page(u) \/ Schedule(u)
             \/ Suppress(u) \/ Cancel(u) \/ Finish(u) \/ Fail(u)
             \/ \E S \in SUBSET Devices : \E res \in Results(S) : Process(u, S, res)
      PROVE  FALSE
  <2>1. u = t
    BY DEF Sole
  <2>2. pc'[t] # "page"
    BY <1>4, <2>1 DEF Begin, Build, Frozen, Apply, Write, Page, Schedule, Suppress, Cancel,
                      Finish, Fail, Process, Handled, Base, TypeOK
  <2> QED BY <2>2
<1>5. CASE Crash
  BY <1>5 DEF Crash
<1>6. ASSUME NEW u \in Threads, FindOutage(u) PROVE outages'[oid'[t]].proven
  BY <1>2, <1>6 DEF Sole
<1>7. ASSUME NEW o \in DOMAIN outages, Tick(o) \/ \E ok \in BOOLEAN : Deliver(o, ok)
      PROVE  UNCHANGED memory
  BY <1>7 DEF Tick, Deliver
<1>8. ASSUME NEW d \in Devices, SetMaintenance(d) \/ Assign(d) \/ Unassign(d)
      PROVE  UNCHANGED memory
  BY <1>8 DEF SetMaintenance, Assign, Unassign, Edit
<1>9. CASE UNCHANGED vars
  BY <1>3, <1>9 DEF vars
<1> QED BY <1>3, <1>4, <1>5, <1>6, <1>7, <1>8, <1>9 DEF Next, Step

\* A page is sent for what is in hand.
LEMMA SolePagesStep ==
    ASSUME Base, SoleInHand, SolePagesProven, [Next]_vars
    PROVE  SolePagesProven'
<1> SUFFICES ASSUME NEW o \in DOMAIN outages', outages'[o].paged, outages'[o].dev \notin torn'
             PROVE  outages'[o].proven
  BY DEF SolePagesProven
<1>1. /\ o \in DOMAIN outages
      /\ outages[o].paged \/ \E t \in Threads : Page(t) /\ o = oid[t]
  BY PagedByPage
<1>2. /\ outages'[o].dev = outages[o].dev /\ outages[o].dev \notin torn
      /\ outages[o].proven => outages'[o].proven
  BY <1>1, TornGrows, StepRemembers DEF Remembered
<1>3. ASSUME NEW t \in Threads, Page(t), o = oid[t] PROVE outages[o].proven
  BY <1>2, <1>3 DEF Page, SoleInHand
<1> QED BY <1>1, <1>2, <1>3 DEF SolePagesProven

\* With one handler every outage that is paged was itself proven. Two handlers break
\* this (the run OvertakenPage): so it is the overtaking of one report by another,
\* between the unlock and the page, and nothing else, that pages an unproven outage.
THEOREM SoleHandlerPagesProven ==
    ASSUME Sole
    PROVE  Spec => []SolePagesProven
<1>1. Init => Agreement /\ SoleInv
  <2> SUFFICES ASSUME Init PROVE SoleInv
    BY AgreementInit
  <2>1. SoleEvents
    BY NoEventsType DEF Init, SoleEvents, Pages, NoEvent
  <2> QED BY <2>1 DEF Init, SoleInv, SoleInHand, SolePagesProven
<1>2. Base /\ Agreement /\ SoleInv /\ [Next]_vars => Agreement' /\ SoleInv'
  BY AgreementStep, SoleEventsStep, SoleInHandStep, SolePagesStep DEF SoleInv
<1>3. SoleInv => SolePagesProven
  BY DEF SoleInv
<1> QED BY <1>1, <1>2, <1>3, BaseHolds, PTL DEF Spec

=============================================================================
