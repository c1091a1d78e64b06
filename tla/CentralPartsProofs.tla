-------------------------- MODULE CentralPartsProofs --------------------------
(***************************************************************************)
(* Parts of the central server and of the views of its record, proved: the *)
(* ledger, the fibre record, the survey, the device web proxy, the way of  *)
(* paying, the replay of the past and the fibre tray, for any rates,       *)
(* plants, targets, tabs, workers, attempts, windows and cables and for    *)
(* any number of steps.  Each has an inductive invariant of its own; they  *)
(* share no state.                                                         *)
(***************************************************************************)
EXTENDS MCCentralParts, FiniteSetTheorems, SequenceTheorems, WellFoundedInduction, TLAPS

-----------------------------------------------------------------------------
\* A step of the whole is a step of each part, or leaves it alone.
LEMMA PartsMove ==
    ASSUME [PartsNext]_allVars
    PROVE  /\ [B!Next]_ledgerVars
           /\ [F!Next]_recordVars
           /\ [S!Next]_surveyVars
           /\ [P!Next]_payVars
           /\ [X!Next]_proxyVars /\ part' = part
           /\ part # "proxy" => UNCHANGED proxyVars
           /\ part = "replay" => [H!Next]_replayVars
           /\ part = "tray" => [Y!Next]_trayVars
BY DEF PartsNext, allVars, OrderMoves, WatchMoves, LedgerMoves, ReplayMoves, RecordMoves,
       TrayMoves, SurveyMoves, ProxyMoves, PayMoves

\* A set of numbers has a least one.
LEMMA LeastExists ==
    ASSUME NEW set \in SUBSET Nat, set # {}
    PROVE  \E m \in set : \A k \in set : m <= k
<1> DEFINE R == StrictSubsetOrdering(Nat)
           T == {0..k : k \in set}
<1>1. IsWellFoundedOn(R, FiniteSubsetsOf(Nat))
  BY FS_StrictSubsetOrderingWellFounded
<1>2. T \subseteq FiniteSubsetsOf(Nat) /\ T # {}
  <2>1. ASSUME NEW k \in set PROVE 0..k \in SUBSET Nat /\ IsFiniteSet(0..k)
    BY FS_Interval
  <2> QED BY <2>1 DEF FiniteSubsetsOf
<1> HIDE DEF R
<1>3. PICK x \in T : \A y \in T : ~(<<y, x>> \in R)
  <2> HIDE DEF T
  <2> QED BY <1>1, <1>2, WFMin
<1>4. PICK m \in set : x = 0..m
  OBVIOUS
<1>5. ASSUME NEW k \in set PROVE m <= k
  <2> SUFFICES ASSUME k < m PROVE FALSE
    OBVIOUS
  <2>1. 0..k \subseteq 0..m /\ 0..k # 0..m
    OBVIOUS
  <2>2. <<0..k, 0..m>> \in R
    BY <2>1 DEF R, StrictSubsetOrdering
  <2>3. 0..k \in T
    OBVIOUS
  <2> QED BY <1>3, <1>4, <2>2, <2>3
<1> QED BY <1>5

-----------------------------------------------------------------------------
(***************************************************************************)
(* The ledger.                                                             *)
(***************************************************************************)

\* Of a bounded set of numbers, the greatest.
LEMMA MaxIsGreatest ==
    ASSUME NEW bound \in Nat, NEW set \in SUBSET (0..bound), set # {}
    PROVE  B!Max(set) \in set /\ \A n \in set : B!Max(set) >= n
<1> DEFINE down == {bound - n : n \in set}
<1>1. down \in SUBSET Nat /\ down # {}
  <2>1. ASSUME NEW n \in set PROVE bound - n \in Nat
    OBVIOUS
  <2> QED BY <2>1
<1>2. PICK k \in down : \A l \in down : k <= l
  <2> HIDE DEF down
  <2> QED BY <1>1, LeastExists
<1>3. PICK m \in set : k = bound - m
  OBVIOUS
<1>4. ASSUME NEW n \in set PROVE m >= n
  <2>1. bound - m <= bound - n
    BY <1>2, <1>3
  <2>2. m \in Int /\ n \in Int
    OBVIOUS
  <2> QED BY <2>1, <2>2
<1> QED BY <1>4 DEF B!Max

\* Of three whole numbers, too.
LEMMA MaxOfThree ==
    ASSUME NEW a \in Int, NEW b \in Int, NEW c \in Int
    PROVE  /\ B!Max({a, b, c}) \in Int /\ B!Max({a, b, c}) >= a
           /\ B!Max({a, b, c}) >= b /\ B!Max({a, b, c}) >= c
<1>1. \E x \in {a, b, c} : \A y \in {a, b, c} : x >= y
  <2>1. CASE a >= b /\ a >= c
    BY <2>1
  <2>2. CASE b >= a /\ b >= c
    BY <2>2
  <2>3. CASE c >= a /\ c >= b
    BY <2>3
  <2> QED BY <2>1, <2>2, <2>3
<1>2. B!Max({a, b, c}) \in {a, b, c} /\ \A y \in {a, b, c} : B!Max({a, b, c}) >= y
  BY <1>1 DEF B!Max
<1> QED BY <1>2

\* And of two the least.
LEMMA MinOfTwo ==
    ASSUME NEW a \in Int, NEW b \in Int
    PROVE  /\ B!Min({a, b}) \in {a, b}
           /\ B!Min({a, b}) <= a /\ B!Min({a, b}) <= b
<1>1. \E x \in {a, b} : \A y \in {a, b} : x =< y
  <2>1. CASE a <= b
    BY <2>1
  <2>2. CASE b <= a
    BY <2>2
  <2> QED BY <2>1, <2>2
<1> QED BY <1>1 DEF B!Min

\* A day of an earlier month is an earlier day.
LEMMA MonthsAreInOrder ==
    ASSUME NEW d \in Int, NEW e \in Int, B!Month(d) < B!Month(e)
    PROVE  d < e
<1>1. DaysPerMonth \in Nat /\ DaysPerMonth > 0
  BY PartsAssumption DEF B!LedgerAssumption
<1>2. d \div DaysPerMonth < e \div DaysPerMonth
  BY DEF B!Month
<1> QED BY <1>1, <1>2

\* What is summed is the rows of the days.
LEMMA SumStays ==
    ASSUME NEW set, \A d \in set : accrued'[d] = accrued[d]
    PROVE  B!SumOf(set)' = B!SumOf(set)
<1>1. B!Rows(set)' = B!Rows(set)
  BY DEF B!Rows, B!NoRow
<1>2. [d \in B!Rows(set)' |-> accrued'[d]] = [d \in B!Rows(set) |-> accrued[d]]
  BY <1>1 DEF B!Rows
<1> QED BY <1>2 DEF B!SumOf

\* The organisation is not charged.
Suppressed == exempt \/ deactivated
HasRow(d) == accrued[d] # B!NoRow

\* Invoices by month; what one is for is a sum.
Billing(book) ==
    /\ book = [m \in B!Months |-> book[m]]
    /\ \A m \in B!Months : book[m] = [status |-> book[m].status, paise |-> book[m].paise]

LedgerTypes ==
    /\ today \in B!Days /\ anchor \in Int
    /\ accrued \in [B!Days -> Nat \cup {B!NoRow}]
    /\ Billing(invoice)
    /\ sweep.day \in Int /\ sweep.day <= today
    /\ sweep \in [pc : {"idle", "close", "settle"}, day : Int]

\* No sweep will write day d any more: a later day has its row, or the days that are
\* charged again will begin after it.
Sealed(d) ==
    /\ d < today
    /\ Suppressed \/ anchor > d \/ \E r \in B!Days : HasRow(r) /\ r >= d

\* The months that have an invoice, and those the sweep is about to close.
Ended(m) == invoice[m].status # "none" \/ (sweep.pc = "close" /\ B!Finished(m))

\* A month is closed after its days can change.
EndedAreSealed == \A m \in B!Months : Ended(m) => \A d \in B!DaysOf(m) : Sealed(d)

\* The inductive invariant of the ledger.
LedgerInv == LedgerTypes /\ EndedAreSealed /\ B!InvoicesSum

\* Catching up begins after every row there is, and not before the anchor.
LEMMA StartIsLate ==
    ASSUME LedgerInv
    PROVE  /\ B!Start \in Int
           /\ \A d \in Int : d >= B!Start /\ d < today =>
                 anchor <= d /\ \A r \in B!Days : HasRow(r) => r < d
<1> DEFINE next == IF B!LastRow = B!NoRow THEN today ELSE B!Min({today, B!LastRow + 1})
           floor == B!Min({anchor, today})
<1>1. today \in Int /\ anchor \in Int /\ BackfillMax \in Int /\ LastDay \in Nat
  BY PartsAssumption DEF LedgerInv, LedgerTypes, B!LedgerAssumption, B!Days
<1>2. /\ floor \in Int
      /\ \A d \in Int : d >= floor /\ d < today => anchor <= d
  BY <1>1, MinOfTwo
<1>3. /\ next \in Int
      /\ \A d \in Int : d >= next /\ d < today => \A r \in B!Days : HasRow(r) => r < d
  <2>1. CASE B!Rows(B!Days) = {}
    <3>1. next = today /\ \A r \in B!Days : ~HasRow(r)
      BY <2>1 DEF B!LastRow, B!Rows, HasRow
    <3> QED BY <1>1, <3>1
  <2>2. CASE B!Rows(B!Days) # {}
    <3> DEFINE last == B!Max(B!Rows(B!Days))
    <3>1. B!Rows(B!Days) \in SUBSET (0..LastDay)
      BY DEF B!Rows, B!Days
    <3>2. last \in B!Rows(B!Days) /\ \A r \in B!Rows(B!Days) : last >= r
      BY <1>1, <2>2, <3>1, MaxIsGreatest
    <3>3. last \in Nat /\ last # B!NoRow /\ B!LastRow = last
      BY <2>2, <3>1, <3>2 DEF B!LastRow, B!NoRow
    <3> HIDE DEF last
    <3>4. next = B!Min({today, last + 1})
      BY <3>3
    <3>5. next \in Int /\ \A d \in Int : d >= next /\ d < today => d > last
      BY <1>1, <3>3, <3>4, MinOfTwo
    <3>6. \A r \in B!Days : HasRow(r) => r \in Int /\ last >= r
      BY <3>2 DEF B!Rows, HasRow, B!Days
    <3> HIDE DEF next
    <3> QED BY <3>3, <3>5, <3>6
  <2> QED BY <2>1, <2>2
<1>4. B!Start = B!Max({next, today - BackfillMax, floor})
  BY DEF B!Start
<1> HIDE DEF next, floor
<1>5. B!Start \in Int /\ B!Start >= next /\ B!Start >= floor
  <2>1. today - BackfillMax \in Int
    BY <1>1
  <2> QED BY <1>2, <1>3, <1>4, <2>1, MaxOfThree
<1> QED BY <1>2, <1>3, <1>5

\* What is sealed stays so while days pass, rows are added and flags set.
LEMMA SealedStays ==
    ASSUME LedgerInv, NEW d \in B!Days, Sealed(d), today' \in Int, today <= today',
           \A r \in B!Days : HasRow(r) => HasRow(r)',
           Suppressed' \/ anchor' = today \/ (anchor' = anchor /\ Suppressed' = Suppressed)
    PROVE  Sealed(d)'
<1>1. d \in Int /\ today \in Int
  BY PartsAssumption DEF LedgerInv, LedgerTypes, B!Days, B!LedgerAssumption
<1>2. (d < today)'
  BY <1>1 DEF Sealed
<1>3. Suppressed' \/ anchor' > d \/ \E r \in B!Days : HasRow(r)' /\ r >= d
  <2>1. CASE Suppressed'
    BY <2>1
  <2>2. CASE anchor' = today
    BY <1>1, <2>2 DEF Sealed
  <2>3. CASE anchor' = anchor /\ Suppressed' = Suppressed
    BY <2>3 DEF Sealed
  <2> QED BY <2>1, <2>2, <2>3
<1> QED BY <1>2, <1>3 DEF Sealed, B!Days

\* Neither the rows nor the sweep, and an invoice keeps what it is for.
LEMMA InvoicesKeep ==
    ASSUME LedgerInv, UNCHANGED <<accrued, anchor, exempt, deactivated>>,
           today' \in B!Days, today <= today', sweep' = sweep \/ sweep' = B!Asleep,
           \/ UNCHANGED invoice
           \/ /\ Billing(invoice')
              /\ \A m \in B!Months : /\ invoice'[m].paise = invoice[m].paise
                                     /\ invoice'[m].status = "none" <=> invoice[m].status = "none"
    PROVE  LedgerInv'
<1>1. LedgerTypes /\ EndedAreSealed
  BY DEF LedgerInv
<1>2. LedgerTypes'
  <2>1. Billing(invoice')
    BY <1>1 DEF LedgerTypes
  <2>2. /\ sweep' \in [pc : {"idle", "close", "settle"}, day : Int]
        /\ sweep'.day \in Int /\ sweep'.day <= today'
    BY <1>1, PartsAssumption DEF LedgerTypes, B!Asleep, B!Days, B!LedgerAssumption
  <2> QED BY <1>1, <2>1, <2>2 DEF LedgerTypes, Billing, B!Days, B!Months, B!Month, B!NoRow
<1>3. ASSUME NEW m \in B!Months, Ended(m)' PROVE Ended(m)
  BY <1>3 DEF Ended, B!Finished, B!Month, B!Asleep
<1>4. EndedAreSealed'
  <2>1. ASSUME NEW m \in B!Months, Ended(m), NEW d \in B!DaysOf(m) PROVE Sealed(d)'
    <3>1. d \in B!Days /\ Sealed(d)
      BY <1>1, <2>1 DEF EndedAreSealed, B!DaysOf
    <3>2. today' \in Int
      BY PartsAssumption DEF B!Days, B!LedgerAssumption
    <3> QED BY <3>1, <3>2, SealedStays DEF HasRow, Suppressed, B!NoRow
  <2> QED BY <1>3, <2>1 DEF EndedAreSealed, B!Months, B!DaysOf, B!Days, B!Month
<1>5. B!InvoicesSum'
  <2>1. \A m \in B!Months : B!SumOf(B!DaysOf(m))' = B!SumOf(B!DaysOf(m))
    BY SumStays
  <2>2. \A m \in B!Months : invoice'[m].status # "none" =>
            invoice'[m].paise = B!SumOf(B!DaysOf(m))'
    BY <2>1 DEF LedgerInv, B!InvoicesSum
  <2> QED BY <2>2 DEF B!InvoicesSum, B!Months, B!DaysOf, B!Days, B!Month
<1> QED BY <1>2, <1>4, <1>5 DEF LedgerInv

\* Allocating payments, and a superadmin's hand, change the status of an invoice only.
LEMMA StatusKeeps ==
    ASSUME LedgerInv,
           \/ invoice' = B!Settled
           \/ \E m \in B!Months, status \in {"open", "void"} :
                 /\ invoice[m].status # "none"
                 /\ invoice' = [invoice EXCEPT ![m].status = status]
    PROVE  /\ Billing(invoice')
           /\ \A m \in B!Months :
                 /\ invoice'[m].paise = invoice[m].paise
                 /\ invoice'[m].status = "none" <=> invoice[m].status = "none"
<1>1. /\ invoice = [m \in B!Months |-> invoice[m]]
      /\ \A m \in B!Months :
            invoice[m] = [status |-> invoice[m].status, paise |-> invoice[m].paise]
  BY DEF LedgerInv, LedgerTypes, Billing
\* An invoice with another status.
<1> DEFINE Now(m, status) == [status |-> status, paise |-> invoice[m].paise]
<1>2. ASSUME NEW m \in B!Months, NEW status
      PROVE  [invoice[m] EXCEPT !.status = status] = Now(m, status)
  BY <1>1
<1>3. CASE invoice' = B!Settled
  <2>1. ASSUME NEW m \in B!Months
        PROVE  invoice'[m] = invoice[m]
               \/ (invoice[m].status # "none" /\ \E status \in {"open", "paid"} :
                       invoice'[m] = Now(m, status))
    <3> DEFINE status == IF B!PaidTotal >= B!BilledUpTo(m) THEN "paid" ELSE "open"
    <3>1. invoice'[m] = IF invoice[m].status \in {"open", "paid"}
                        THEN [invoice[m] EXCEPT !.status = status] ELSE invoice[m]
      BY <1>3 DEF B!Settled
    <3>2. status \in {"open", "paid"}
      OBVIOUS
    <3> HIDE DEF status, Now
    <3> QED BY <1>2, <3>1, <3>2
  <2>2. invoice' = [m \in B!Months |-> invoice'[m]]
    BY <1>3 DEF B!Settled
  <2> QED BY <1>1, <2>1, <2>2 DEF Billing
<1>4. ASSUME NEW m \in B!Months, NEW status \in {"open", "void"},
             invoice[m].status # "none", invoice' = [invoice EXCEPT ![m].status = status]
      PROVE  /\ Billing(invoice')
             /\ \A n \in B!Months :
                   /\ invoice'[n].paise = invoice[n].paise
                   /\ invoice'[n].status = "none" <=> invoice[n].status = "none"
  <2>1. invoice' = [invoice EXCEPT ![m] = Now(m, status)]
    BY <1>1, <1>2, <1>4
  <2> QED BY <1>1, <1>4, <2>1 DEF Billing
<1> QED BY <1>3, <1>4

\* A sweep writes today's row and the days missed, and none that is sealed.
LEMMA AccrueKeeps ==
    ASSUME LedgerInv, NEW rate \in Rates, B!Accrue(rate)
    PROVE  LedgerInv'
<1>1. LedgerTypes /\ EndedAreSealed /\ today \in Int /\ today \in B!Days /\ rate \in Nat
  BY PartsAssumption DEF LedgerInv, LedgerTypes, B!Days, B!LedgerAssumption
<1>2. /\ sweep.pc = "idle" /\ sweep' = [pc |-> "close", day |-> today]
      /\ UNCHANGED <<today, invoice, anchor, exempt, deactivated>>
      /\ accrued' = IF Suppressed THEN accrued ELSE B!Accrued(rate)
  BY DEF B!Accrue, B!flags, Suppressed
\* A row is kept; a sealed day stays without one; today has one, if days are charged.
<1>3. accrued' \in [B!Days -> Nat \cup {B!NoRow}]
      /\ \A d \in B!Days : HasRow(d) => accrued'[d] = accrued[d]
  <2>1. ASSUME NEW d \in B!Days PROVE B!Backfilled(d) \in Nat \cup {B!NoRow}
    <3>1. CASE B!Rows(B!Days) = {}
      BY <3>1 DEF B!Backfilled, B!LastRow
    <3>2. CASE B!Rows(B!Days) # {}
      <4>1. B!Rows(B!Days) \in SUBSET (0..LastDay) /\ LastDay \in Nat
        BY PartsAssumption DEF B!Rows, B!Days, B!LedgerAssumption
      <4>2. B!LastRow \in B!Rows(B!Days)
        BY <3>2, <4>1, MaxIsGreatest DEF B!LastRow
      <4> QED BY <1>1, <4>2 DEF B!Backfilled, B!Rows, LedgerTypes
    <3> QED BY <3>1, <3>2
  <2> QED BY <1>1, <1>2, <2>1 DEF B!Accrued, LedgerTypes, HasRow
<1>4. ASSUME NEW d \in B!Days, Sealed(d) PROVE accrued'[d] = accrued[d]
  <2>1. CASE Suppressed
    BY <1>2, <2>1
  <2>2. CASE ~Suppressed
    <3>1. d \in Int /\ d # today /\ d \notin B!Start..(today - 1)
      <4>1. d \in Int /\ d < today
        BY <1>1, <1>4, PartsAssumption DEF Sealed, B!Days, B!LedgerAssumption
      <4>2. anchor > d \/ \E r \in B!Days : HasRow(r) /\ r >= d
        BY <1>4, <2>2 DEF Sealed
      <4>3. anchor \in Int /\ B!Days \subseteq Int
        BY <1>1, PartsAssumption DEF LedgerTypes, B!Days, B!LedgerAssumption
      <4>4. ~(d >= B!Start)
        BY <4>1, <4>2, <4>3, StartIsLate
      <4> QED BY <4>1, <4>4, StartIsLate
    <3>2. accrued'[d] = IF accrued[d] # B!NoRow THEN accrued[d] ELSE B!NoRow
      BY <1>2, <2>2, <3>1 DEF B!Accrued
    <3> QED BY <3>2
  <2> QED BY <2>1, <2>2
<1>5. Suppressed \/ HasRow(today)'
  <2>1. ASSUME ~Suppressed PROVE accrued'[today] # B!NoRow
    BY <1>1, <1>2, <2>1 DEF B!Accrued, B!NoRow
  <2> QED BY <1>2, <2>1 DEF HasRow, B!NoRow
<1>6. LedgerTypes'
  BY <1>1, <1>2, <1>3 DEF LedgerTypes, Billing, B!Days, B!Months, B!Month, B!NoRow
<1>7. \A d \in B!Days : HasRow(d) => HasRow(d)'
  BY <1>3 DEF HasRow, B!NoRow
<1>8. EndedAreSealed'
  <2>1. ASSUME NEW m \in B!Months, Ended(m), NEW d \in B!DaysOf(m) PROVE Sealed(d)'
    <3>1. d \in B!Days /\ Sealed(d)
      BY <1>1, <2>1 DEF EndedAreSealed, B!DaysOf
    <3> QED BY <1>1, <1>2, <1>7, <3>1, SealedStays DEF Suppressed
  <2>2. ASSUME NEW m \in B!Months, m < B!Month(today), NEW d \in B!DaysOf(m) PROVE Sealed(d)'
    <3>1. d \in B!Days /\ d \in Int /\ B!Month(d) = m
      BY PartsAssumption DEF B!DaysOf, B!Days, B!LedgerAssumption
    <3>2. d < today
      BY <1>1, <2>2, <3>1, MonthsAreInOrder
    <3>3. Suppressed' \/ \E r \in B!Days : HasRow(r)' /\ r >= d
      <4>1. today >= d
        BY <1>1, <3>1, <3>2
      <4>2. Suppressed' = Suppressed
        BY <1>2 DEF Suppressed
      <4> QED BY <1>1, <1>2, <1>5, <4>1, <4>2
    <3> QED BY <1>2, <3>2, <3>3 DEF Sealed, B!Days
  <2>3. ASSUME NEW m \in B!Months, Ended(m)' PROVE Ended(m) \/ m < B!Month(today)
    BY <1>2, <2>3 DEF Ended, B!Finished, B!Month
  <2> QED BY <2>1, <2>2, <2>3 DEF EndedAreSealed, B!Months, B!DaysOf, B!Days, B!Month
<1>9. B!InvoicesSum'
  <2>1. ASSUME NEW m \in B!Months, invoice[m].status # "none"
        PROVE  B!SumOf(B!DaysOf(m))' = B!SumOf(B!DaysOf(m))
    <3>1. \A d \in B!DaysOf(m) : d \in B!Days /\ Sealed(d)
      BY <1>1, <2>1 DEF EndedAreSealed, Ended, B!DaysOf
    <3> QED BY <1>4, <3>1, SumStays
  <2>2. \A m \in B!Months : invoice'[m].status # "none" =>
            invoice'[m].paise = B!SumOf(B!DaysOf(m))'
    BY <1>2, <2>1 DEF LedgerInv, B!InvoicesSum
  <2> QED BY <2>2 DEF B!InvoicesSum, B!Months, B!DaysOf, B!Days, B!Month
<1> QED BY <1>6, <1>8, <1>9 DEF LedgerInv

\* A finished month is invoiced for what its days cost.
LEMMA CloseKeeps ==
    ASSUME LedgerInv, B!Close
    PROVE  LedgerInv'
<1> DEFINE bill(m) == [status |-> "open", paise |-> B!SumOf(B!DaysOf(m))]
<1>1. LedgerTypes /\ EndedAreSealed /\ B!InvoicesSum
  BY DEF LedgerInv
<1>2. /\ sweep.pc = "close" /\ sweep' = [sweep EXCEPT !.pc = "settle"]
      /\ UNCHANGED <<today, accrued, anchor, exempt, deactivated>>
      /\ invoice' = [m \in B!Months |-> invoice'[m]]
      /\ \A m \in B!Months : invoice'[m] = invoice[m] \/ (B!Finished(m) /\ invoice'[m] = bill(m))
  BY DEF B!Close, B!flags
<1>3. sweep'.pc = "settle" /\ sweep' \in [pc : {"idle", "close", "settle"}, day : Int]
      /\ sweep'.day = sweep.day
  BY <1>1, <1>2 DEF LedgerTypes
<1>4. \A m \in B!Months : B!SumOf(B!DaysOf(m))' = B!SumOf(B!DaysOf(m))
  BY <1>2, SumStays
<1>5. LedgerTypes'
  <2>1. Billing(invoice')
    BY <1>1, <1>2 DEF LedgerTypes, Billing
  <2> QED BY <1>1, <1>2, <1>3, <2>1 DEF LedgerTypes, Billing, B!Days, B!Months, B!Month, B!NoRow
<1>6. EndedAreSealed'
  <2>1. ASSUME NEW m \in B!Months, Ended(m)' PROVE Ended(m)
    BY <1>2, <1>3, <2>1 DEF Ended
  <2>2. ASSUME NEW m \in B!Months, Ended(m), NEW d \in B!DaysOf(m) PROVE Sealed(d)'
    BY <1>1, <1>2, <2>2 DEF EndedAreSealed, Sealed, Suppressed, HasRow, B!Days, B!NoRow
  <2> QED BY <2>1, <2>2 DEF EndedAreSealed, B!Months, B!DaysOf, B!Days, B!Month
<1>7. B!InvoicesSum'
  <2>1. \A m \in B!Months : invoice'[m].status # "none" =>
            invoice'[m].paise = B!SumOf(B!DaysOf(m))'
    BY <1>1, <1>2, <1>4 DEF B!InvoicesSum
  <2> QED BY <2>1 DEF B!InvoicesSum, B!Months, B!DaysOf, B!Days, B!Month
<1> QED BY <1>5, <1>6, <1>7 DEF LedgerInv

\* What the requests for the flags have decided is a day, or none.
Switches ==
    /\ today \in Int
    /\ switching = [a \in Admins |-> switching[a]]
    /\ \A a \in Admins : switching[a].resume \in Int

LEMMA SwitchesKeep ==
    ASSUME Switches, [B!Next]_ledgerVars
    PROVE  Switches'
<1>1. \/ UNCHANGED <<today, switching>>
      \/ today' = today + 1 /\ UNCHANGED switching
      \/ UNCHANGED today /\ switching' = [a \in Admins |-> B!NoSwitch]
      \/ \E a \in Admins : UNCHANGED today /\ switching' = [switching EXCEPT ![a] = B!NoSwitch]
      \/ \E a \in Admins, said \in B!Orders : B!ReadFlags(a, said)
  <2>1. CASE UNCHANGED ledgerVars
    BY <2>1 DEF ledgerVars
  <2>2. CASE B!Next
    BY <2>2 DEF B!Next, B!Sweep, B!Accrue, B!Close, B!SweepSettle, B!Capture, B!Webhook,
                B!WebhookSettle, B!WriteFlags, B!Adjust, B!SetInvoice, B!AdminSettle,
                B!Midnight, B!Crash, B!threads
  <2> QED BY <2>1, <2>2
<1>2. B!NoSwitch.resume \in Int
  BY DEF B!NoSwitch, B!NoRow
<1>3. CASE UNCHANGED <<today, switching>> \/ (today' = today + 1 /\ UNCHANGED switching)
  BY <1>3 DEF Switches
<1>4. CASE UNCHANGED today /\ switching' = [a \in Admins |-> B!NoSwitch]
  BY <1>2, <1>4 DEF Switches
<1>5. ASSUME NEW a \in Admins, NEW w, w.resume \in Int, UNCHANGED today,
             switching' = [switching EXCEPT ![a] = w]
      PROVE  Switches'
  BY <1>5 DEF Switches
<1>6. ASSUME NEW a \in Admins, NEW said \in B!Orders, B!ReadFlags(a, said)
      PROVE  Switches'
  <2>1. PICK resume \in {today, B!NoRow} :
            switching' = [switching EXCEPT ![a] = [order |-> said, resume |-> resume]]
    BY <1>6 DEF B!ReadFlags
  <2>2. UNCHANGED today /\ [order |-> said, resume |-> resume].resume \in Int
    BY <1>6 DEF B!ReadFlags, B!NoRow, Switches
  <2> QED BY <1>5, <2>1, <2>2
<1> QED BY <1>1, <1>2, <1>3, <1>4, <1>5, <1>6

\* When the last suppressing flag clears, days are charged from today on, unless the
\* request decided on the anchor before another's write or before midnight.
LEMMA FlagsKeep ==
    ASSUME LedgerInv, Switches, NEW a \in Admins, B!WriteFlags(a), ~misanchored'
    PROVE  LedgerInv'
<1>1. LedgerTypes /\ EndedAreSealed /\ B!InvoicesSum
  BY DEF LedgerInv
<1>2. UNCHANGED <<today, accrued, invoice, sweep>>
      /\ (Suppressed' \/ anchor' = today \/ (anchor' = anchor /\ Suppressed' = Suppressed))
      /\ anchor' \in Int
  <2>1. UNCHANGED <<today, accrued, invoice, sweep>>
        /\ anchor' = (IF switching[a].resume = B!NoRow THEN anchor ELSE switching[a].resume)
    BY DEF B!WriteFlags
  <2>2. Suppressed' \/ anchor' = today \/ (anchor' = anchor /\ ~Suppressed)
    BY DEF B!WriteFlags, Suppressed
  <2>3. Suppressed' = Suppressed \/ Suppressed \/ Suppressed'
    BY DEF Suppressed
  <2> QED BY <1>1, <2>1, <2>2, <2>3 DEF LedgerTypes, Switches
<1>3. today \in Int
  BY <1>1, PartsAssumption DEF LedgerTypes, B!Days, B!LedgerAssumption
<1>4. LedgerTypes'
  BY <1>1, <1>2, <1>3 DEF LedgerTypes, Billing, B!Days, B!Months, B!Month, B!NoRow
<1>5. EndedAreSealed'
  <2>1. ASSUME NEW m \in B!Months, Ended(m)' PROVE Ended(m)
    BY <1>2, <2>1 DEF Ended, B!Finished, B!Month
  <2>2. ASSUME NEW m \in B!Months, Ended(m), NEW x \in B!DaysOf(m) PROVE Sealed(x)'
    <3>1. x \in B!Days /\ Sealed(x)
      BY <1>1, <2>2 DEF EndedAreSealed, B!DaysOf
    <3>2. \A r \in B!Days : HasRow(r) => HasRow(r)'
      BY <1>2 DEF HasRow, B!NoRow
    <3> QED BY <1>2, <1>3, <3>1, <3>2, SealedStays
  <2> QED BY <2>1, <2>2 DEF EndedAreSealed, B!Months, B!DaysOf, B!Days, B!Month
<1>6. B!InvoicesSum'
  <2>1. \A m \in B!Months : B!SumOf(B!DaysOf(m))' = B!SumOf(B!DaysOf(m))
    BY <1>2, SumStays
  <2>2. \A m \in B!Months : invoice'[m].status # "none" =>
            invoice'[m].paise = B!SumOf(B!DaysOf(m))'
    BY <1>1, <1>2, <2>1 DEF B!InvoicesSum
  <2> QED BY <2>2 DEF B!InvoicesSum, B!Months, B!DaysOf, B!Days, B!Month
<1> QED BY <1>4, <1>5, <1>6 DEF LedgerInv

\* In the beginning nothing has been charged.
LEMMA LedgerInit ==
    ASSUME B!Init
    PROVE  LedgerInv
<1> USE DEF B!Init
<1>1. 0 \in B!Days
  BY PartsAssumption DEF B!Days, B!LedgerAssumption
<1>2. LedgerTypes
  BY <1>1 DEF LedgerTypes, Billing, B!NoRow, B!NoInvoice, B!Asleep
<1>3. \A m \in B!Months : ~Ended(m)
  BY DEF Ended, B!NoInvoice, B!Asleep
<1> QED BY <1>2, <1>3 DEF LedgerInv, EndedAreSealed, B!InvoicesSum, Ended

\* Every step of the ledger keeps the invariant.
LEMMA LedgerKeeps ==
    ASSUME LedgerInv, Switches, [B!Next]_ledgerVars, ~misanchored'
    PROVE  LedgerInv'
<1> DEFINE Quiet ==
             /\ UNCHANGED <<accrued, anchor, exempt, deactivated>>
             /\ today' = today \/ (today < LastDay /\ today' = today + 1)
             /\ sweep' = sweep \/ sweep' = B!Asleep
             /\ \/ UNCHANGED invoice \/ invoice' = B!Settled
                \/ \E m \in B!Months, status \in {"open", "void"} :
                      /\ invoice[m].status # "none"
                      /\ invoice' = [invoice EXCEPT ![m].status = status]
<1>1. \/ Quiet \/ B!Close \/ (\E rate \in Rates : B!Accrue(rate))
      \/ \E a \in Admins : B!WriteFlags(a)
  <2>1. CASE UNCHANGED ledgerVars
    BY <2>1 DEF ledgerVars
  <2>2. CASE B!Next
    BY <2>2 DEF B!Next, B!Sweep, B!SweepSettle, B!Capture, B!Webhook, B!WebhookSettle,
                B!ReadFlags, B!Adjust, B!SetInvoice, B!AdminSettle, B!Midnight, B!Crash, B!flags,
                B!threads, B!payments
  <2> QED BY <2>1, <2>2
<1>2. CASE Quiet
  <2>1. today' \in B!Days /\ today <= today'
    BY <1>2, PartsAssumption DEF LedgerInv, LedgerTypes, B!Days, B!LedgerAssumption
  <2>2. \/ UNCHANGED invoice
        \/ /\ Billing(invoice')
           /\ \A m \in B!Months : /\ invoice'[m].paise = invoice[m].paise
                                  /\ invoice'[m].status = "none" <=> invoice[m].status = "none"
    BY <1>2, StatusKeeps
  <2> QED BY <1>2, <2>1, <2>2, InvoicesKeep
<1> QED BY <1>1, <1>2, CloseKeeps, AccrueKeeps, FlagsKeep

\* Once the anchor is behind it stays on record.
LEMMA MisanchoredStays ==
    ASSUME misanchored, [B!Next]_ledgerVars
    PROVE  misanchored'
<1>1. CASE UNCHANGED ledgerVars
  BY <1>1 DEF ledgerVars
<1>2. CASE B!Next
  BY <1>2 DEF B!Next, B!Sweep, B!Accrue, B!Close, B!SweepSettle, B!Capture, B!Webhook,
              B!WebhookSettle, B!ReadFlags, B!WriteFlags, B!Adjust, B!SetInvoice,
              B!AdminSettle, B!Midnight, B!Crash, B!flags
<1> QED BY <1>1, <1>2

\* No backfill, hole, re-opened account, restart or race of sweep, webhook and
\* superadmins' requests writes a day into a month that has its invoice, or leaves one out,
\* for any rates, months and numbers of them (store_billing.py, metering.py), as long as
\* no request leaves the anchor behind: that race (api/billing.py:331-346, the flags are
\* read outside the write lock) is the only way.
THEOREM InvoicesSumTheirDays == PartsSpec => []InvoiceIsTheSumOfItsDays
<1> DEFINE Inv == Switches /\ (~misanchored => LedgerInv)
<1>1. PartsInit => Inv
  <2> SUFFICES ASSUME PartsInit PROVE Inv
    OBVIOUS
  <2>1. B!Init /\ LedgerInv
    BY LedgerInit DEF PartsInit
  <2>2. Switches
    BY <2>1 DEF B!Init, Switches, B!NoSwitch, B!NoRow
  <2> QED BY <2>1, <2>2
<1>2. Inv /\ [PartsNext]_allVars => Inv'
  BY PartsMove, LedgerKeeps, SwitchesKeep, MisanchoredStays
<1>3. Inv => InvoiceIsTheSumOfItsDays
  BY DEF LedgerInv, InvoiceIsTheSumOfItsDays, B!InvoiceIsTheSumOfItsDays
<1> QED BY <1>1, <1>2, <1>3, PTL DEF PartsSpec

-----------------------------------------------------------------------------
(***************************************************************************)
(* The fibre record.                                                       *)
(***************************************************************************)

\* The rows of the record, wider than the bounds of a run.
Strung == [ends : SUBSET F!Points, cores : Nat \cup {None}, laid : BOOLEAN]
Joined == [at : F!Points, fibres : SUBSET (Nat \X Nat), port : Ports \cup {None}]

\* A cable has two ends at most, where points have stood.
CablesEnd ==
    \A c \in DOMAIN cables :
        /\ cables[c].ends \cap spare = {}
        /\ \A p, q, r \in cables[c].ends : p = q \/ q = r \/ p = r

RecordTypes ==
    /\ stands \subseteq F!Points /\ stands \cap spare = {}
    /\ made \in Nat /\ DOMAIN cables \subseteq 1..made
    /\ cables \in [DOMAIN cables -> Strung]
    /\ joints \subseteq Joined

\* What a tray asks for is about points that stood, cores, and ports that are no cores.
GesturesAreSound ==
    asked # None =>
        /\ asked.at \in F!Points /\ asked.at \notin spare
        /\ asked.gesture.kind = "join" =>
              /\ asked.gesture.fibres # {} /\ asked.gesture.fibres \subseteq F!Fibres
              /\ asked.gesture.port \in Ports \cup {None}
        /\ asked.gesture.kind = "tail" =>
              /\ asked.gesture.fibre \in F!Fibres /\ asked.gesture.to # asked.at
              /\ asked.gesture.far \in F!Fibres \cup Ports \cup {None}
        /\ asked.gesture.kind = "connect" =>
              /\ asked.gesture.port \in Ports \cup {None} /\ asked.gesture.to # asked.at
              /\ asked.gesture.far \in F!Fibres \cup Ports \cup {None}

\* The inductive invariant of the record.
RecordInv == RecordTypes /\ CablesEnd /\ F!FibresMeet /\ GesturesAreSound

\* Two joints share no fibre of a point, and no port.
Apart(j, k) ==
    j # k /\ j.at = k.at => j.fibres \cap k.fibres = {} /\ (j.port = k.port => j.port = None)

\* A joint is of cables that end at its point.
LEMMA JointsEnd ==
    ASSUME RecordInv, NEW j \in joints
    PROVE  /\ j \in Joined /\ j.fibres # {} /\ j.at \notin spare
           /\ \A f \in j.fibres : /\ f \in Nat \X Nat /\ f[1] \in DOMAIN cables
                                  /\ f[1] \in 1..made /\ j.at \in cables[f[1]].ends
           /\ \A k \in joints : Apart(j, k)
<1>1. j \in Joined
  BY DEF RecordInv, RecordTypes
<1>2. j.fibres # {}
  BY DEF RecordInv, F!FibresMeet
<1>3. \A f \in j.fibres : f[1] \in DOMAIN cables /\ j.at \in cables[f[1]].ends
  BY DEF RecordInv, F!FibresMeet, F!joint_survives
<1>4. j.at \notin spare
  BY <1>2, <1>3 DEF RecordInv, CablesEnd
<1>5. \A k \in joints : Apart(j, k)
  BY DEF RecordInv, F!FibresMeet, Apart
<1>6. \A f \in j.fibres : f \in Nat \X Nat
  BY <1>1 DEF Joined
<1>7. DOMAIN cables \subseteq 1..made
  BY DEF RecordInv, RecordTypes
<1> QED BY <1>1, <1>2, <1>3, <1>4, <1>5, <1>6, <1>7

\* Nothing is asked, or what was.
LEMMA GesturesStay ==
    ASSUME RecordInv, asked' \in {asked, None}, spare' \subseteq spare
    PROVE  GesturesAreSound'
BY DEF RecordInv, GesturesAreSound, F!Fibres, F!Counts, F!Points

\* Joints that go, and cables without joints, leave the rest as it was.
LEMMA FewerJoints ==
    ASSUME RecordInv, joints' \subseteq joints, made' = made, spare' = spare,
           stands' \subseteq stands, asked' \in {asked, None},
           DOMAIN cables' \subseteq DOMAIN cables, cables' \in [DOMAIN cables' -> Strung],
           \A c \in DOMAIN cables' : cables'[c].ends = cables[c].ends,
           \A j \in joints' : \A f \in j.fibres : f[1] \in DOMAIN cables'
    PROVE  RecordInv'
<1>1. RecordTypes'
  BY DEF RecordInv, RecordTypes, Strung, Joined, F!Points
<1>2. CablesEnd'
  BY DEF RecordInv, CablesEnd
<1>3. F!FibresMeet'
  BY DEF RecordInv, F!FibresMeet, F!joint_survives
<1>4. GesturesAreSound'
  BY GesturesStay
<1> QED BY <1>1, <1>2, <1>3, <1>4 DEF RecordInv

\* A joint cleared, and a cable nobody laid with it.
LEMMA ClearKeeps ==
    ASSUME RecordInv, F!clear_fibre_joint
    PROVE  RecordInv'
<1> DEFINE f == asked.gesture.fibre
           gone == {j \in joints : j.at = asked.at /\ f \in j.fibres}
<1>1. /\ joints' = joints \ gone /\ asked' = None /\ UNCHANGED <<stands, spare, made>>
      /\ \/ cables' = cables
         \/ F!Spent(f[1], joints') /\ cables' = F!Without({f[1]})
  BY DEF F!clear_fibre_joint, F!Heard
<1> HIDE DEF f, gone
<1>2. /\ DOMAIN cables' \subseteq DOMAIN cables /\ cables' \in [DOMAIN cables' -> Strung]
      /\ \A c \in DOMAIN cables' : cables'[c].ends = cables[c].ends
  BY <1>1 DEF F!Without, RecordInv, RecordTypes
<1>3. \A j \in joints' : \A g \in j.fibres : g[1] \in DOMAIN cables'
  <2>1. \A j \in joints' : \A g \in j.fibres : g[1] \in DOMAIN cables
    BY <1>1, JointsEnd
  <2> QED BY <1>1, <2>1 DEF F!Without, F!Spent
<1> QED BY <1>1, <1>2, <1>3, FewerJoints

\* A cable deleted, with its joints.
LEMMA DeleteCableKeeps ==
    ASSUME RecordInv, NEW c \in DOMAIN cables, F!DeleteCable(c)
    PROVE  RecordInv'
<1>1. /\ joints' = joints \ F!Of(c) /\ cables' = F!Without({c})
      /\ UNCHANGED <<stands, spare, made, asked>>
  BY DEF F!DeleteCable
<1>2. /\ DOMAIN cables' \subseteq DOMAIN cables /\ cables' \in [DOMAIN cables' -> Strung]
      /\ \A d \in DOMAIN cables' : cables'[d].ends = cables[d].ends
  BY <1>1 DEF F!Without, RecordInv, RecordTypes
<1>3. \A j \in joints' : \A g \in j.fibres : g[1] \in DOMAIN cables'
  <2>1. \A j \in joints' : \A g \in j.fibres : g[1] \in DOMAIN cables
    BY <1>1, JointsEnd
  <2> QED BY <1>1, <2>1 DEF F!Without, F!Of
<1> QED BY <1>1, <1>2, <1>3, FewerJoints

\* A box deleted, with the cables that end there.
LEMMA DeletePassiveKeeps ==
    ASSUME RecordInv, NEW p \in F!Points, F!DeletePassive(p)
    PROVE  RecordInv'
<1> DEFINE gone == {c \in DOMAIN cables : F!Lands(c, p)}
<1>1. /\ stands' = stands \ {p}
      /\ joints' = {j \in joints : j.at # p /\ \A f \in j.fibres : f[1] \notin gone}
      /\ cables' = F!Without(gone) /\ UNCHANGED <<spare, made, asked>>
  BY DEF F!DeletePassive
<1> HIDE DEF gone
<1>2. /\ DOMAIN cables' \subseteq DOMAIN cables /\ cables' \in [DOMAIN cables' -> Strung]
      /\ \A d \in DOMAIN cables' : cables'[d].ends = cables[d].ends
  BY <1>1 DEF F!Without, RecordInv, RecordTypes
<1>3. \A j \in joints' : \A g \in j.fibres : g[1] \in DOMAIN cables'
  <2>1. \A j \in joints' : \A g \in j.fibres : g[1] \in DOMAIN cables
    BY <1>1, JointsEnd
  <2> QED BY <1>1, <2>1 DEF F!Without
<1> QED BY <1>1, <1>2, <1>3, FewerJoints

\* Another count for a cable, or none.
LEMMA RecountKeeps ==
    ASSUME RecordInv, NEW c \in DOMAIN cables, NEW n \in F!Counts \cup {None}, F!Recount(c, n)
    PROVE  RecordInv'
<1>1. /\ joints' \subseteq joints /\ cables' = [cables EXCEPT ![c].cores = n]
      /\ UNCHANGED <<stands, spare, made, asked>>
  BY DEF F!Recount
<1>2. cables \in [DOMAIN cables -> Strung] /\ n \in Nat \cup {None}
  BY PartsAssumption DEF RecordInv, RecordTypes, F!Counts, F!RecordAssumption
<1>3. cables' = [cables EXCEPT ![c] = [cables[c] EXCEPT !.cores = n]]
  BY <1>1, <1>2
<1> DEFINE row == [cables[c] EXCEPT !.cores = n]
<1>4. row \in Strung /\ row.ends = cables[c].ends
  BY <1>2 DEF Strung
<1> HIDE DEF row
<1>5. /\ DOMAIN cables' = DOMAIN cables /\ cables' \in [DOMAIN cables' -> Strung]
      /\ \A d \in DOMAIN cables' : cables'[d].ends = cables[d].ends
  BY <1>2, <1>3, <1>4 DEF row
<1>6. \A j \in joints' : \A g \in j.fibres : g[1] \in DOMAIN cables'
  BY <1>1, <1>5, JointsEnd
<1> QED BY <1>1, <1>5, <1>6, FewerJoints

\* What a menu offers is sound when it is offered.
LEMMA AskKeeps ==
    ASSUME RecordInv, NEW p \in F!Points, F!Ask(p)
    PROVE  RecordInv'
<1> USE DEF RecordInv
<1>1. asked = None /\ p \in stands /\ UNCHANGED <<stands, spare, cables, made, joints>>
      /\ \E r \in F!Requests(p) : asked' = [at |-> p, gesture |-> r]
  BY DEF F!Ask
<1>2. PICK r \in F!Requests(p) : asked' = [at |-> p, gesture |-> r]
  BY <1>1
<1>3. RecordTypes' /\ CablesEnd' /\ F!FibresMeet'
  BY <1>1 DEF RecordTypes, CablesEnd, F!FibresMeet, F!joint_survives, Strung, Joined, F!Points
<1>4. F!Laid(p) \subseteq F!Fibres
  BY DEF F!Laid
<1>5. ASSUME NEW q \in stands
      PROVE  /\ F!PortsOf(q) \subseteq Ports \cup {None}
             /\ F!Landings(q) \subseteq F!Fibres \cup Ports \cup {None}
  BY DEF F!PortsOf, F!Landings, F!Laid
<1>6. /\ r.kind = "join" => /\ r.fibres # {} /\ r.fibres \subseteq F!Fibres
                            /\ r.port \in Ports \cup {None}
      /\ r.kind = "tail" => /\ r.fibre \in F!Fibres /\ r.to # p
                            /\ r.far \in F!Fibres \cup Ports \cup {None}
      /\ r.kind = "connect" => /\ r.port \in Ports \cup {None} /\ r.to # p
                               /\ r.far \in F!Fibres \cup Ports \cup {None}
  <2>1. CASE r \in F!Splices(p)
    <3>1. r.kind = "join" /\ r.port = None /\ \E f, g \in F!Laid(p) : r.fibres = {f, g}
      BY <2>1 DEF F!Splices
    <3> QED BY <1>4, <3>1
  <2>2. CASE r \in F!Takings(p)
    <3>1. r.kind = "join" /\ r.port \in F!PortsOf(p) /\ \E f \in F!Laid(p) : r.fibres = {f}
      BY <2>2 DEF F!Takings
    <3> QED BY <1>1, <1>4, <1>5, <3>1
  <2>3. CASE r \in F!Tails(p)
    <3>1. \E q \in stands \ {p} : /\ r.kind = "tail" /\ r.fibre \in F!Laid(p) /\ r.to = q
                                  /\ r.far \in F!Landings(q)
      BY <2>3 DEF F!Tails
    <3> QED BY <1>4, <1>5, <3>1
  <2>4. CASE r \in F!Connections(p)
    <3>1. \E q \in stands \ {p} : /\ r.kind = "connect" /\ r.port \in F!PortsOf(p)
                                  /\ r.to = q /\ r.far \in F!Landings(q)
      BY <2>4 DEF F!Connections
    <3> QED BY <1>1, <1>5, <3>1
  <2>5. CASE r \in F!Throughs(p) \cup F!Clears(p)
    BY <2>5 DEF F!Throughs, F!Clears
  <2> QED BY <2>1, <2>2, <2>3, <2>4, <2>5 DEF F!Requests
<1>7. asked'.at = p /\ asked'.gesture = r /\ p \notin spare
  BY <1>1, <1>2 DEF RecordTypes
<1>8. GesturesAreSound'
  BY <1>1, <1>6, <1>7 DEF GesturesAreSound, F!Fibres, F!Counts, F!Points
<1> QED BY <1>3, <1>8

\* Joints that are added leave the others as they were.
LEMMA MoreJoints ==
    ASSUME RecordInv, NEW new \in SUBSET Joined, joints' = joints \cup new,
           made' \in Nat, made <= made', stands' = stands, spare' = spare,
           asked' \in {asked, None}, CablesEnd',
           DOMAIN cables \subseteq DOMAIN cables', DOMAIN cables' \subseteq 1..made',
           cables' \in [DOMAIN cables' -> Strung],
           \A c \in DOMAIN cables : cables'[c].ends = cables[c].ends,
           \A j \in new : /\ j.fibres # {}
                          /\ \A f \in j.fibres : /\ f[1] \in DOMAIN cables'
                                                 /\ j.at \in cables'[f[1]].ends
                          /\ \A k \in joints \cup new : Apart(j, k)
    PROVE  RecordInv'
<1>1. RecordTypes'
  BY DEF RecordInv, RecordTypes, Strung, Joined, F!Points
<1>2. F!FibresMeet'
  <2>1. \A j \in joints' : j.fibres # {} /\ F!joint_survives(j, cables')
    BY DEF RecordInv, F!FibresMeet, F!joint_survives
  <2>2. \A j, k \in joints' : Apart(j, k)
    <3>1. \A j, k \in joints : Apart(j, k)
      BY DEF RecordInv, F!FibresMeet, Apart
    <3>2. \A j \in joints, k \in new : Apart(j, k)
      BY DEF Apart
    <3> QED BY <3>1, <3>2
  <2> QED BY <2>1, <2>2 DEF F!FibresMeet, F!joint_survives, Apart
<1>3. GesturesAreSound'
  BY GesturesStay
<1> QED BY <1>1, <1>2, <1>3 DEF RecordInv

\* Joints added to the cables there are.
LEMMA MoreAtPoint ==
    ASSUME RecordInv, NEW new \in SUBSET Joined, joints' = joints \cup new, asked' = None,
           UNCHANGED <<stands, spare, cables, made>>,
           \A j \in new : /\ j.fibres # {}
                          /\ \A f \in j.fibres : F!Lands(f[1], j.at)
                          /\ \A k \in joints \cup new : Apart(j, k)
    PROVE  RecordInv'
<1>1. CablesEnd'
  BY DEF RecordInv, CablesEnd
<1>2. /\ made' \in Nat /\ made <= made' /\ DOMAIN cables' = DOMAIN cables
      /\ DOMAIN cables' \subseteq 1..made'
  BY DEF RecordInv, RecordTypes
<1>3. cables' \in [DOMAIN cables' -> Strung]
  BY DEF RecordInv, RecordTypes, Strung, F!Points
<1>4. \A j \in new : /\ j.fibres # {}
                     /\ \A f \in j.fibres : /\ f[1] \in DOMAIN cables'
                                            /\ j.at \in cables'[f[1]].ends
                     /\ \A k \in joints \cup new : Apart(j, k)
  BY DEF F!Lands
<1> QED BY <1>1, <1>2, <1>3, <1>4, MoreJoints

\* What point p has room for: fibres that land there, a port nothing is at.
Room(p, x) ==
    /\ x.fibres \in SUBSET (Nat \X Nat) /\ x.port \in Ports \cup {None}
    /\ \A f \in x.fibres : F!Lands(f[1], p) /\ f \notin F!taken_at(p)
    /\ x.port = None \/ x.port \notin F!ports_taken_at(p)

\* Such fibres, and cores of a new cable with them, are apart from what is there.
LEMMA RoomIsApart ==
    ASSUME RecordInv, NEW p, NEW x, Room(p, x), NEW k \in joints,
           NEW fresh, \A f \in fresh : ~(f[1] \in 1..made)
    PROVE  /\ Apart(F!Joint(p, x.fibres \cup fresh, x.port), k)
           /\ Apart(k, F!Joint(p, x.fibres \cup fresh, x.port))
<1> DEFINE j == F!Joint(p, x.fibres \cup fresh, x.port)
<1>1. j.at = p /\ j.fibres = x.fibres \cup fresh /\ j.port = x.port
  BY DEF F!Joint
<1> HIDE DEF j
<1>2. ASSUME k.at = p PROVE (x.fibres \cup fresh) \cap k.fibres = {}
  <2>1. k.fibres \cap fresh = {}
    BY JointsEnd
  <2>2. k.fibres \subseteq F!taken_at(p)
    BY <1>2 DEF F!taken_at
  <2> QED BY <2>1, <2>2 DEF Room
<1>3. ASSUME k.at = p, k.port = x.port PROVE x.port = None
  BY <1>3 DEF Room, F!ports_taken_at
<1> QED BY <1>1, <1>2, <1>3 DEF Apart, j

\* Two cores spliced, or a core taken to a port.
LEMMA JoinKeeps ==
    ASSUME RecordInv, F!set_fibre_joint
    PROVE  RecordInv'
<1> DEFINE p == asked.at
           r == asked.gesture
           j == F!Joint(p, r.fibres, r.port)
<1>1. /\ asked # None /\ r.kind = "join" /\ asked' = None
      /\ UNCHANGED <<stands, spare, cables, made>>
      /\ \/ joints' = joints
         \/ ~F!joint_refusal(r.fibres, p, r.port) /\ joints' = joints \cup {j}
  BY DEF F!set_fibre_joint, F!Heard, F!Refused
<1>2. p \in F!Points /\ r.fibres # {} /\ r.fibres \subseteq F!Fibres
      /\ r.port \in Ports \cup {None}
  BY <1>1 DEF RecordInv, GesturesAreSound
<1>3. F!Fibres \subseteq Nat \X Nat
  BY PartsAssumption DEF F!Fibres, F!Counts, F!RecordAssumption
<1>4. RecordTypes
  BY DEF RecordInv
<1>5. CASE joints' = joints
  <2>1. \A k \in joints' : \A f \in k.fibres : f[1] \in DOMAIN cables'
    BY <1>1, <1>5, JointsEnd
  <2> HIDE DEF p, r, j
  <2> QED BY <1>1, <1>4, <1>5, <2>1, FewerJoints DEF RecordTypes
<1>6. CASE ~F!joint_refusal(r.fibres, p, r.port) /\ joints' = joints \cup {j}
  <2> HIDE DEF p, r
  <2>1. Room(p, r) /\ \A f \in r.fibres : F!Lands(f[1], p)
    BY <1>2, <1>3, <1>6 DEF Room, F!joint_refusal
  <2>2. \A k \in joints : Apart(j, k)
    <3>1. r.fibres \cup {} = r.fibres
      OBVIOUS
    <3> QED BY <2>1, <3>1, RoomIsApart
  <2>3. Apart(j, j)
    BY DEF Apart
  <2>4. j.at = p /\ j.fibres = r.fibres /\ j \in Joined
    BY <1>2, <1>3 DEF F!Joint, Joined
  <2> HIDE DEF j
  <2>5. \A k \in {j} : /\ k.fibres # {} /\ \A f \in k.fibres : F!Lands(f[1], k.at)
                       /\ \A i \in joints \cup {j} : Apart(k, i)
    BY <1>2, <2>1, <2>2, <2>3, <2>4
  <2> QED BY <1>1, <1>6, <2>4, <2>5, MoreAtPoint
<1> QED BY <1>1, <1>5, <1>6

\* A whole cable spliced to another, core by core.
LEMMA ThroughKeeps ==
    ASSUME RecordInv, F!splice_through
    PROVE  RecordInv'
<1> DEFINE p == asked.at
           pair(n) == {<<asked.gesture.near, n>>, <<asked.gesture.far, n>>}
           some == {m \in F!Counts :
                       /\ \A f \in pair(m) : /\ f[1] \in DOMAIN cables
                                             /\ cables[f[1]].cores # None
                                             /\ m <= cables[f[1]].cores
                       /\ ~F!joint_refusal(pair(m), p, None)}
           new == {F!Joint(p, pair(n), None) : n \in some}
<1>1. /\ asked # None /\ asked' = None /\ UNCHANGED <<stands, spare, cables, made>>
      /\ joints' = joints \cup new
  BY DEF F!splice_through, F!Heard
<1>2. RecordTypes /\ p \in F!Points
  BY <1>1 DEF RecordInv, GesturesAreSound
<1>3. ASSUME NEW n \in some
      PROVE  /\ Room(p, [fibres |-> pair(n), port |-> None])
             /\ \A f \in pair(n) : F!Lands(f[1], p) /\ f[2] = n
             /\ pair(n) # {} /\ pair(n) \in SUBSET (Nat \X Nat)
  <2>1. \A f \in pair(n) : f[1] \in DOMAIN cables /\ f[2] = n
    OBVIOUS
  <2>2. \A f \in pair(n) : F!Lands(f[1], p) /\ f \notin F!taken_at(p)
    BY DEF F!joint_refusal
  <2>3. n \in Nat /\ asked.gesture.near \in Nat /\ asked.gesture.far \in Nat
    BY <1>2, <2>1, PartsAssumption DEF RecordTypes, F!Counts, F!RecordAssumption
  <2>4. pair(n) \in SUBSET (Nat \X Nat) /\ pair(n) # {}
    BY <2>3
  <2> HIDE DEF pair, some
  <2> QED BY <2>1, <2>2, <2>4 DEF Room
<1> HIDE DEF p, pair, some
<1>4. ASSUME NEW j \in new
      PROVE  /\ j \in Joined /\ j.fibres # {}
             /\ \A f \in j.fibres : F!Lands(f[1], p)
             /\ j.at = p /\ \A k \in joints \cup new : Apart(j, k)
  <2>1. PICK n \in some : j = F!Joint(p, pair(n), None)
    OBVIOUS
  <2>2. j.at = p /\ j.fibres = pair(n) /\ j.port = None /\ j \in Joined
    BY <1>2, <1>3, <2>1 DEF F!Joint, Joined
  <2>3. \A k \in joints : Apart(j, k)
    <3> DEFINE x == [fibres |-> pair(n), port |-> None]
    <3>1. Room(p, x) /\ x.fibres \cup {} = pair(n) /\ x.port = None
      BY <1>3
    <3> HIDE DEF x
    <3> QED BY <2>1, <3>1, RoomIsApart
  <2>4. ASSUME NEW k \in new, k # j PROVE Apart(j, k)
    <3>1. PICK m \in some : k = F!Joint(p, pair(m), None)
      OBVIOUS
    <3>2. m # n
      BY <2>1, <2>4, <3>1
    <3>3. k.fibres = pair(m) /\ k.port = None
      BY <3>1 DEF F!Joint
    <3>4. pair(n) \cap pair(m) = {}
      BY <1>3, <3>2
    <3> QED BY <2>2, <3>3, <3>4 DEF Apart
  <2>5. Apart(j, j)
    BY DEF Apart
  <2>6. \A k \in joints \cup new : Apart(j, k)
    BY <2>3, <2>4, <2>5
  <2>7. pair(n) # {} /\ \A f \in pair(n) : F!Lands(f[1], p)
    BY <1>3
  <2> HIDE DEF new
  <2> QED BY <2>2, <2>6, <2>7
<1> HIDE DEF new
<1>5. new \in SUBSET Joined
  BY <1>4
<1>6. \A j \in new : /\ j.fibres # {} /\ \A f \in j.fibres : F!Lands(f[1], j.at)
                     /\ \A k \in joints \cup new : Apart(j, k)
  BY <1>4
<1> QED BY <1>1, <1>5, <1>6, MoreAtPoint

\* A new cable between two points, where both have room.
LEMMA PlumbKeeps ==
    ASSUME RecordInv, NEW p \in F!Points, NEW to \in F!Points, p # to,
           p \notin spare, to \notin spare, NEW here, NEW there,
           Room(p, here), Room(to, there), F!Plumb(p, here, to, there),
           asked' = None, UNCHANGED <<stands, spare>>
    PROVE  RecordInv'
<1> DEFINE core == <<made', 1>>
           j == F!Joint(p, here.fibres \cup {core}, here.port)
           k == F!Joint(to, there.fibres \cup {core}, there.port)
           row == [ends |-> {p, to}, cores |-> 1, laid |-> FALSE]
<1>1. /\ made' = made + 1
      /\ cables' = [c \in DOMAIN cables \cup {made'} |-> IF c = made' THEN row ELSE cables[c]]
      /\ joints' = joints \cup {j, k}
  BY DEF F!Plumb
<1>2. /\ made \in Nat /\ DOMAIN cables \subseteq 1..made
      /\ cables \in [DOMAIN cables -> Strung]
  BY DEF RecordInv, RecordTypes
<1>3. made' \in Nat /\ made' \notin 1..made /\ made <= made' /\ made' \notin DOMAIN cables
  BY <1>1, <1>2
<1>4. row \in Strung /\ row.ends = {p, to}
  BY DEF Strung
<1> HIDE DEF row
<1>5. /\ DOMAIN cables' = DOMAIN cables \cup {made'} /\ cables'[made'] = row
      /\ \A c \in DOMAIN cables : cables'[c] = cables[c]
  BY <1>1, <1>3
<1>6. cables' \in [DOMAIN cables' -> Strung] /\ DOMAIN cables' \subseteq 1..made'
  <2>1. \A c \in DOMAIN cables' : cables'[c] \in Strung
    BY <1>2, <1>4, <1>5
  <2>2. made' \in 1..made' /\ 1..made \subseteq 1..made'
    BY <1>1, <1>2
  <2> QED BY <1>1, <1>2, <1>5, <2>1, <2>2
<1>7. CablesEnd'
  BY <1>4, <1>5 DEF RecordInv, CablesEnd
<1>8. j.at = p /\ j.fibres = here.fibres \cup {core} /\ j \in Joined
      /\ k.at = to /\ k.fibres = there.fibres \cup {core} /\ k \in Joined
  <2>1. core \in Nat \X Nat
    BY <1>3
  <2> QED BY <2>1 DEF F!Joint, Joined, Room
<1>9. /\ \A f \in j.fibres : f[1] \in DOMAIN cables' /\ p \in cables'[f[1]].ends
      /\ \A f \in k.fibres : f[1] \in DOMAIN cables' /\ to \in cables'[f[1]].ends
  <2>1. /\ \A f \in here.fibres : f[1] \in DOMAIN cables /\ p \in cables[f[1]].ends
        /\ \A f \in there.fibres : f[1] \in DOMAIN cables /\ to \in cables[f[1]].ends
    BY DEF Room, F!Lands
  <2>2. core[1] = made'
    OBVIOUS
  <2>3. /\ p \in cables'[made'].ends /\ to \in cables'[made'].ends
        /\ made' \in DOMAIN cables' /\ DOMAIN cables \subseteq DOMAIN cables'
    BY <1>4, <1>5
  <2> HIDE DEF core, j, k
  <2> QED BY <1>5, <1>8, <2>1, <2>2, <2>3
<1>10. \A i \in joints : Apart(j, i) /\ Apart(k, i)
  <2>1. \A f \in {core} : ~(f[1] \in 1..made)
    BY <1>3
  <2> HIDE DEF core
  <2> QED BY <2>1, RoomIsApart
<1>11. \A i, l \in {j, k} : Apart(i, l)
  BY <1>8 DEF Apart
<1> HIDE DEF j, k, core
<1>12. \A i \in {j, k} : /\ i.fibres # {}
                         /\ \A f \in i.fibres : /\ f[1] \in DOMAIN cables'
                                                /\ i.at \in cables'[f[1]].ends
                         /\ \A l \in joints \cup {j, k} : Apart(i, l)
  BY <1>8, <1>9, <1>10, <1>11
<1> DEFINE new == {j, k}
<1>13. new \in SUBSET Joined /\ joints' = joints \cup new
  BY <1>1, <1>8
<1> HIDE DEF new
<1>14. \A c \in DOMAIN cables : cables'[c].ends = cables[c].ends
  BY <1>5
<1>15. DOMAIN cables \subseteq DOMAIN cables'
  BY <1>5
<1>16. \A i \in new : /\ i.fibres # {}
                      /\ \A f \in i.fibres : /\ f[1] \in DOMAIN cables'
                                             /\ i.at \in cables'[f[1]].ends
                      /\ \A l \in joints \cup new : Apart(i, l)
  BY <1>12 DEF new
<1> QED BY <1>3, <1>6, <1>7, <1>13, <1>14, <1>15, <1>16, MoreJoints

\* What a new core meets that is not refused, there is room for.
LEMMA MeetsHasRoom ==
    ASSUME RecordInv, NEW p, NEW x \in F!Fibres \cup Ports \cup {None},
           x \in F!Fibres => ~F!joint_refusal({x}, p, None),
           x \in Ports \cup {None} => x = None \/ x \notin F!ports_taken_at(p)
    PROVE  Room(p, F!Meets(x))
<1>1. F!Fibres \subseteq Nat \X Nat
  BY PartsAssumption DEF F!Fibres, F!Counts, F!RecordAssumption
<1>2. CASE x \in F!Fibres
  <2>1. /\ F!Meets(x).fibres = {x} /\ F!Meets(x).port = None
        /\ F!Lands(x[1], p) /\ x \notin F!taken_at(p)
    BY <1>2 DEF F!Meets, F!joint_refusal
  <2> QED BY <1>1, <1>2, <2>1 DEF Room
<1>3. CASE x \notin F!Fibres
  <2>1. F!Meets(x).fibres = {} /\ F!Meets(x).port = x
    BY <1>3 DEF F!Meets
  <2> QED BY <1>3, <2>1 DEF Room
<1> QED BY <1>2, <1>3

\* A core taken on to another point.
LEMMA TailKeeps ==
    ASSUME RecordInv, F!take_core_to_box
    PROVE  RecordInv'
<1> DEFINE p == asked.at
           r == asked.gesture
<1>1. /\ asked # None /\ r.kind = "tail" /\ asked' = None /\ UNCHANGED <<stands, spare>>
      /\ \/ UNCHANGED <<cables, made, joints>>
         \/ /\ ~F!joint_refusal({r.fibre}, p, None) /\ ~F!FarRefused(r)
            /\ F!Plumb(p, F!Meets(r.fibre), r.to, F!Meets(r.far))
  BY DEF F!take_core_to_box, F!Heard, F!Refused
<1>2. /\ p \in F!Points /\ p \notin spare /\ r.fibre \in F!Fibres /\ r.to # p
      /\ r.far \in F!Fibres \cup Ports \cup {None}
  BY <1>1 DEF RecordInv, GesturesAreSound
<1> HIDE DEF p, r
<1>3. CASE UNCHANGED <<cables, made, joints>>
  <2>1. \A k \in joints' : \A f \in k.fibres : f[1] \in DOMAIN cables'
    BY <1>3, JointsEnd
  <2> QED BY <1>1, <1>3, <2>1, FewerJoints DEF RecordInv, RecordTypes
<1>4. CASE /\ ~F!joint_refusal({r.fibre}, p, None) /\ ~F!FarRefused(r)
           /\ F!Plumb(p, F!Meets(r.fibre), r.to, F!Meets(r.far))
  <2>1. r.to \in F!Points /\ r.to \notin spare
    BY <1>4 DEF F!FarRefused, RecordInv, RecordTypes
  <2>2. Room(p, F!Meets(r.fibre))
    <3>1. r.fibre \notin Ports \cup {None}
      BY <1>2, PartsAssumption DEF F!RecordAssumption
    <3> QED BY <1>2, <1>4, <3>1, MeetsHasRoom
  <2>3. Room(r.to, F!Meets(r.far))
    <3>1. /\ r.far \in F!Fibres => ~F!joint_refusal({r.far}, r.to, None)
          /\ r.far \in Ports => r.far \notin F!ports_taken_at(r.to)
      BY <1>4 DEF F!FarRefused
    <3> QED BY <1>2, <3>1, MeetsHasRoom
  <2> QED BY <1>1, <1>2, <1>4, <2>1, <2>2, <2>3, PlumbKeeps
<1> QED BY <1>1, <1>3, <1>4

\* A port, or a bare box, connected to another point.
LEMMA ConnectKeeps ==
    ASSUME RecordInv, F!connect_points
    PROVE  RecordInv'
<1> DEFINE p == asked.at
           r == asked.gesture
           far == IF r.far = None THEN F!_sole_input(r.to) ELSE r.far
<1>1. /\ asked # None /\ r.kind = "connect" /\ asked' = None /\ UNCHANGED <<stands, spare>>
      /\ \/ UNCHANGED <<cables, made, joints>>
         \/ /\ ~F!FarRefused(r) /\ ~(r.port # None /\ r.port \in F!ports_taken_at(p))
            /\ F!Plumb(p, F!Meets(r.port), r.to, F!Meets(far))
  BY DEF F!connect_points, F!Heard, F!Refused
<1>2. /\ p \in F!Points /\ p \notin spare /\ r.port \in Ports \cup {None} /\ r.to # p
      /\ r.far \in F!Fibres \cup Ports \cup {None}
  BY <1>1 DEF RecordInv, GesturesAreSound
<1>3. /\ far \in F!Fibres \cup Ports \cup {None}
      /\ far = r.far \/ far = None \/ (far \in Ports /\ far \notin F!ports_taken_at(r.to))
  <2>1. Inlet \in Ports
    BY PartsAssumption DEF F!RecordAssumption
  <2> QED BY <1>2, <2>1 DEF F!_sole_input
<1> HIDE DEF p, r, far
<1>4. CASE UNCHANGED <<cables, made, joints>>
  <2>1. \A k \in joints' : \A f \in k.fibres : f[1] \in DOMAIN cables'
    BY <1>4, JointsEnd
  <2> QED BY <1>1, <1>4, <2>1, FewerJoints DEF RecordInv, RecordTypes
<1>5. CASE /\ ~F!FarRefused(r) /\ ~(r.port # None /\ r.port \in F!ports_taken_at(p))
           /\ F!Plumb(p, F!Meets(r.port), r.to, F!Meets(far))
  <2>1. r.to \in F!Points /\ r.to \notin spare
    BY <1>5 DEF F!FarRefused, RecordInv, RecordTypes
  <2>2. \A x \in Ports \cup {None} : x \notin F!Fibres
    BY PartsAssumption DEF F!RecordAssumption
  <2>3. Room(p, F!Meets(r.port))
    BY <1>2, <1>5, <2>2, MeetsHasRoom
  <2>4. Room(r.to, F!Meets(far))
    <3>1. /\ r.far \in F!Fibres => ~F!joint_refusal({r.far}, r.to, None)
          /\ r.far \in Ports => r.far \notin F!ports_taken_at(r.to)
      BY <1>5 DEF F!FarRefused
    <3>2. /\ far \in F!Fibres => ~F!joint_refusal({far}, r.to, None)
          /\ far \in Ports \cup {None} => far = None \/ far \notin F!ports_taken_at(r.to)
      BY <1>3, <2>2, <3>1
    <3> QED BY <1>3, <3>2, MeetsHasRoom
  <2> QED BY <1>1, <1>2, <1>5, <2>1, <2>3, <2>4, PlumbKeeps
<1> QED BY <1>1, <1>4, <1>5

\* Ends that move together, with the joints between them.
LEMMA MoveKeeps ==
    ASSUME RecordInv, NEW moving \in SUBSET DOMAIN cables, NEW from \in F!Points,
           NEW to \in F!Points, F!MoveCableEnds(moving, from, to)
    PROVE  RecordInv'
<1> DEFINE after == [c \in DOMAIN cables |->
                        IF c \in moving
                        THEN [cables[c] EXCEPT !.ends = (@ \ {from}) \cup {to}]
                        ELSE cables[c]]
           loops == {c \in moving : after[c].ends = {to}}
           Of1(j) == {f[1] : f \in j.fibres}
           touched == {j \in joints : j.at = from \/ Of1(j) \cap moving # {}}
           travels == {j \in joints : j.at = from /\ Of1(j) \subseteq moving}
           carried(j) == IF j \in travels THEN [j EXCEPT !.at = to] ELSE j
           lost == {j \in touched : ~F!joint_survives(carried(j), after)}
           ports == {j.port : j \in {k \in joints \ lost : k.at = to}} \ {None}
           kept == {k \in joints \ lost : Of1(k) \cap loops = {}}
           new(j) == IF j \in travels THEN F!Landed(j, to, ports) ELSE j
<1>1. /\ from # to /\ to \in stands /\ \A c \in moving : from \in cables[c].ends
      /\ cables' = [c \in DOMAIN cables \ loops |-> after[c]]
      /\ joints' = {new(j) : j \in kept}
      /\ UNCHANGED <<stands, spare, made, asked>>
  BY DEF F!MoveCableEnds, F!Lands
<1>2. RecordTypes /\ CablesEnd /\ to \notin spare
  BY <1>1 DEF RecordInv, RecordTypes
<1>3. ASSUME NEW c \in DOMAIN cables
      PROVE  /\ after[c] \in Strung
             /\ after[c].ends = IF c \in moving THEN (cables[c].ends \ {from}) \cup {to}
                                ELSE cables[c].ends
  <2>1. cables[c] \in Strung
    BY <1>2 DEF RecordTypes
  <2>2. [cables[c] EXCEPT !.ends = (@ \ {from}) \cup {to}] \in Strung
    BY <2>1 DEF Strung
  <2> QED BY <2>1, <2>2 DEF Strung
<1>4. DOMAIN after = DOMAIN cables
  OBVIOUS
<1> HIDE DEF after
<1>5. ASSUME NEW c \in DOMAIN cables
      PROVE  /\ after[c].ends \cap spare = {}
             /\ \A p, q, r \in after[c].ends : p = q \/ q = r \/ p = r
  <2>1. cables[c].ends \cap spare = {} /\ \A p, q, r \in cables[c].ends : p = q \/ q = r \/ p = r
    BY <1>2 DEF CablesEnd
  <2>2. CASE c \notin moving
    BY <1>3, <2>1, <2>2
  <2>3. CASE c \in moving
    <3>1. from \in cables[c].ends /\ after[c].ends = (cables[c].ends \ {from}) \cup {to}
      BY <1>1, <1>3, <2>3
    <3>2. after[c].ends \cap spare = {}
      BY <1>2, <2>1, <3>1
    <3>3. \A p, q \in cables[c].ends \ {from} : p = q
      BY <2>1, <3>1
    <3> QED BY <3>1, <3>2, <3>3
  <2> QED BY <2>2, <2>3
<1>6. ASSUME NEW j \in kept
      PROVE  /\ new(j) \in Joined /\ new(j).fibres = j.fibres
             /\ new(j).at = IF j \in travels THEN to ELSE j.at
             /\ new(j).port = None \/ new(j).port = j.port
             /\ j \in travels => new(j).port \notin ports \/ new(j).port = None
  <2>1. j \in Joined
    BY JointsEnd
  <2> HIDE DEF travels, ports
  <2>2. CASE j \in travels
    <3> DEFINE port == IF j.port \in ports THEN None ELSE j.port
    <3>1. F!Landed(j, to, ports) = [at |-> to, fibres |-> j.fibres, port |-> port]
      <4>1. j = [at |-> j.at, fibres |-> j.fibres, port |-> j.port]
        BY <2>1 DEF Joined
      <4>2. F!Landed(j, to, ports) = [j EXCEPT !.at = to, !.port = port]
        BY <2>1 DEF F!Landed, Joined
      <4> HIDE DEF port
      <4> QED BY <4>1, <4>2
    <3>2. port \in Ports \cup {None}
      BY <2>1 DEF Joined
    <3> QED BY <2>1, <2>2, <3>1, <3>2 DEF Joined
  <2> QED BY <2>1, <2>2
<1>7. ASSUME NEW j \in kept, NEW f \in j.fibres
      PROVE  f[1] \in DOMAIN cables \ loops /\ new(j).at \in after[f[1]].ends
  <2>1. f[1] \in DOMAIN cables /\ j.at \in cables[f[1]].ends /\ f[1] \in Of1(j) /\ j \in Joined
    BY JointsEnd
  <2>2. f[1] \notin loops
    BY <2>1
  <2>3. CASE j \in touched
    <3>1. F!joint_survives(carried(j), after)
      BY <2>3
    <3>2. carried(j).fibres = j.fibres /\ carried(j).at = new(j).at
      <4> HIDE DEF travels, kept, new
      <4> QED BY <1>6, <2>1 DEF Joined
    <3> HIDE DEF carried, new
    <3> QED BY <2>1, <2>2, <3>1, <3>2 DEF F!joint_survives
  <2>4. CASE j \notin touched
    <3>1. f[1] \notin moving /\ j \notin travels
      BY <2>1, <2>4
    <3> QED BY <1>3, <2>1, <2>2, <3>1
  <2> QED BY <2>3, <2>4
<1>8. ASSUME NEW j \in kept, NEW k \in kept, j \in travels, k \notin travels, k.at = to
      PROVE  /\ j.fibres \cap k.fibres = {}
             /\ new(j).port = new(k).port => new(j).port = None
  <2>1. ASSUME NEW f \in j.fibres, f \in k.fibres PROVE FALSE
    <3>1. f[1] \in moving /\ j.at = from
      BY <1>8
    <3>2. f[1] \in DOMAIN cables /\ from \in cables[f[1]].ends /\ to \in cables[f[1]].ends
      BY <1>8, <2>1, <3>1, JointsEnd
    <3>3. \A p \in cables[f[1]].ends : p = from \/ p = to
      BY <1>1, <1>2, <3>2 DEF CablesEnd
    <3>4. after[f[1]].ends = {to}
      BY <1>3, <3>1, <3>2, <3>3
    <3> QED BY <1>7, <2>1, <3>1, <3>4
  <2>2. k.port \in ports \/ k.port = None
    BY <1>8
  <2>3. new(j).port \notin ports \/ new(j).port = None
    BY <1>6, <1>8
  <2>4. new(k) = k
    BY <1>8
  <2> HIDE DEF new, ports, kept, travels
  <2>5. j.fibres \cap k.fibres = {}
    BY <2>1
  <2> QED BY <2>2, <2>3, <2>4, <2>5
<1>9. ASSUME NEW j \in kept, NEW k \in kept, new(j) # new(k), new(j).at = new(k).at
      PROVE  /\ new(j).fibres \cap new(k).fibres = {}
             /\ new(j).port = new(k).port => new(j).port = None
  <2>1. j # k /\ j \in joints /\ k \in joints
    BY <1>9
  <2>2. CASE j.at = k.at
    <3>1. j.fibres \cap k.fibres = {} /\ (j.port = k.port => j.port = None)
      BY <2>1, <2>2, JointsEnd DEF Apart
    <3> HIDE DEF new, kept
    <3> QED BY <1>6, <3>1
  <2>3. CASE j.at # k.at
    <3>1. \/ j \in travels /\ k \notin travels /\ k.at = to
          \/ k \in travels /\ j \notin travels /\ j.at = to
      <4>1. \A i \in travels : i.at = from
        OBVIOUS
      <4> HIDE DEF new, kept, travels
      <4> QED BY <1>6, <1>9, <2>3, <4>1
    <3> HIDE DEF new, kept, travels
    <3> QED BY <1>6, <1>8, <3>1
  <2> QED BY <2>2, <2>3
<1>10. loops \subseteq DOMAIN cables
  OBVIOUS
<1> HIDE DEF new, kept, travels, loops, lost, touched, ports
<1>11. DOMAIN cables' = DOMAIN cables \ loops /\ \A c \in DOMAIN cables' : cables'[c] = after[c]
  BY <1>1
<1>12. RecordTypes'
  <2>1. joints' \subseteq Joined
    BY <1>1, <1>6
  <2>2. cables' \in [DOMAIN cables' -> Strung]
    BY <1>1, <1>3, <1>11
  <2> QED BY <1>1, <1>2, <1>11, <2>1, <2>2 DEF RecordTypes, Strung, Joined, F!Points
<1>13. CablesEnd'
  BY <1>1, <1>5, <1>11 DEF CablesEnd
<1>14. F!FibresMeet'
  <2>1. ASSUME NEW i \in joints'
        PROVE  i.fibres # {} /\ F!joint_survives(i, cables')
    <3>1. PICK j \in kept : i = new(j)
      BY <1>1
    <3>2. i.fibres = j.fibres /\ j.fibres # {}
      BY <1>6, <3>1, JointsEnd DEF kept
    <3> QED BY <1>7, <1>11, <3>1, <3>2 DEF F!joint_survives
  <2>2. ASSUME NEW i \in joints', NEW l \in joints', i # l, i.at = l.at
        PROVE  i.fibres \cap l.fibres = {} /\ (i.port = l.port => i.port = None)
    <3>1. PICK j \in kept : i = new(j)
      BY <1>1
    <3>2. PICK k \in kept : l = new(k)
      BY <1>1
    <3> QED BY <1>9, <2>2, <3>1, <3>2
  <2> QED BY <2>1, <2>2 DEF F!FibresMeet, F!joint_survives
<1>15. GesturesAreSound'
  BY <1>1, GesturesStay
<1> QED BY <1>12, <1>13, <1>14, <1>15 DEF RecordInv

\* A closure opened in a cable: the cable ends there, a new one carries on.
LEMMA SplitKeeps ==
    ASSUME RecordInv, NEW c \in DOMAIN cables, NEW tail \in F!Points, NEW p \in F!Points,
           F!SplitCable(c, tail, p)
    PROVE  RecordInv'
<1> DEFINE next == made'
           onto(f) == IF f[1] = c THEN <<next, f[2]>> ELSE f
           through == IF cables[c].cores = None THEN {}
                      ELSE {{<<c, n>>, <<next, n>>} : n \in 1..cables[c].cores}
           new(j) == IF j.at = tail THEN [j EXCEPT !.fibres = {onto(f) : f \in @}] ELSE j
           here == [cables[c] EXCEPT !.ends = (@ \ {tail}) \cup {p}]
           beyond == [cables[c] EXCEPT !.ends = {p, tail}]
           spliced == {F!Joint(p, fs, None) : fs \in through}
<1>1. /\ p \in spare /\ tail \in cables[c].ends /\ next = made + 1
      /\ stands' = stands \cup {p} /\ spare' = spare \ {p} /\ asked' = asked
      /\ cables' = [d \in DOMAIN cables \cup {next} |->
                       IF d = c THEN here ELSE IF d = next THEN beyond ELSE cables[d]]
      /\ joints' = {new(j) : j \in joints} \cup spliced
  BY DEF F!SplitCable, F!Lands
<1>2. RecordTypes /\ CablesEnd
  BY DEF RecordInv
<1>3. next \in Nat /\ next \notin 1..made /\ next \notin DOMAIN cables /\ c \in Nat
  BY <1>1, <1>2 DEF RecordTypes
<1>4. /\ cables[c] \in Strung /\ here \in Strung /\ here.ends = (cables[c].ends \ {tail}) \cup {p}
      /\ beyond \in Strung /\ beyond.ends = {p, tail}
  <2>1. cables[c] \in Strung
    BY <1>2 DEF RecordTypes
  <2> QED BY <2>1 DEF Strung
<1>5. p # tail /\ tail \notin spare /\ \A d \in DOMAIN cables : p \notin cables[d].ends
  BY <1>1, <1>2 DEF CablesEnd
<1> HIDE DEF here, beyond
<1>6. /\ DOMAIN cables' = DOMAIN cables \cup {next}
      /\ cables'[c] = here /\ cables'[next] = beyond
      /\ \A d \in DOMAIN cables \ {c} : cables'[d] = cables[d]
  BY <1>1, <1>3
<1>7. CablesEnd'
  <2>1. \A d \in DOMAIN cables : /\ cables[d].ends \cap spare = {}
                                 /\ \A q, r, s \in cables[d].ends : q = r \/ r = s \/ q = s
    BY <1>2 DEF CablesEnd
  <2>2. here.ends \cap spare' = {} /\ beyond.ends \cap spare' = {}
    BY <1>1, <1>4, <1>5, <2>1
  <2>3. \A q, r, s \in here.ends : q = r \/ r = s \/ q = s
    <3>1. \A q, r \in cables[c].ends \ {tail} : q = r
      BY <1>1, <2>1
    <3> QED BY <1>4, <3>1
  <2>4. \A q, r, s \in beyond.ends : q = r \/ r = s \/ q = s
    BY <1>4
  <2> QED BY <1>1, <1>6, <2>1, <2>2, <2>3, <2>4 DEF CablesEnd
<1>8. ASSUME NEW f \in Nat \X Nat, f[1] \in DOMAIN cables
      PROVE  /\ onto(f) \in Nat \X Nat
             /\ f[1] = c => onto(f) = <<next, f[2]>> /\ onto(f)[1] = next
             /\ f[1] # c => onto(f) = f
  BY <1>3
<1>9. ASSUME NEW f \in Nat \X Nat, NEW g \in Nat \X Nat, f[1] \in DOMAIN cables,
             g[1] \in DOMAIN cables, onto(f) = onto(g)
      PROVE  f = g
  <2>1. f[1] = c <=> g[1] = c
    BY <1>3, <1>8, <1>9
  <2>2. CASE f[1] # c
    BY <1>8, <1>9, <2>1, <2>2
  <2>3. CASE f[1] = c
    <3>1. <<next, f[2]>> = <<next, g[2]>>
      BY <1>8, <1>9, <2>1, <2>3
    <3>2. f = <<f[1], f[2]>> /\ g = <<g[1], g[2]>>
      OBVIOUS
    <3> QED BY <2>1, <2>3, <3>1, <3>2
  <2> QED BY <2>2, <2>3
<1> HIDE DEF onto
<1>10. ASSUME NEW j \in joints
       PROVE  /\ new(j) \in Joined /\ new(j).at = j.at /\ new(j).port = j.port
              /\ new(j).fibres = IF j.at = tail THEN {onto(f) : f \in j.fibres} ELSE j.fibres
  <2>1. j \in Joined /\ \A f \in j.fibres : f \in Nat \X Nat /\ f[1] \in DOMAIN cables
    BY JointsEnd
  <2> DEFINE fibres == {onto(f) : f \in j.fibres}
  <2>2. fibres \in SUBSET (Nat \X Nat)
    BY <1>8, <2>1
  <2> HIDE DEF fibres
  <2>3. [j EXCEPT !.fibres = fibres] \in Joined
        /\ [j EXCEPT !.fibres = fibres].at = j.at /\ [j EXCEPT !.fibres = fibres].port = j.port
        /\ [j EXCEPT !.fibres = fibres].fibres = fibres
    BY <2>1, <2>2 DEF Joined
  <2>4. new(j) = IF j.at = tail THEN [j EXCEPT !.fibres = fibres] ELSE j
    BY <2>1 DEF fibres, Joined
  <2> HIDE DEF new
  <2> QED BY <2>1, <2>3, <2>4 DEF fibres
<1> HIDE DEF new
<1>11. ASSUME NEW j \in joints
       PROVE  /\ new(j).fibres # {} /\ new(j).at # p
              /\ \A f \in new(j).fibres :
                    f[1] \in DOMAIN cables' /\ new(j).at \in cables'[f[1]].ends
  <2>1. /\ j.fibres # {} /\ j.at \notin spare
        /\ \A f \in j.fibres : /\ f \in Nat \X Nat /\ f[1] \in DOMAIN cables
                               /\ j.at \in cables[f[1]].ends
    BY JointsEnd
  <2>2. CASE j.at # tail
    BY <1>1, <1>4, <1>6, <1>10, <2>1, <2>2
  <2>3. CASE j.at = tail
    <3>1. ASSUME NEW f \in j.fibres
          PROVE  onto(f)[1] \in DOMAIN cables' /\ tail \in cables'[onto(f)[1]].ends
      BY <1>4, <1>6, <1>8, <2>1, <2>3
    <3>2. new(j).fibres = {onto(f) : f \in j.fibres} /\ new(j).at = tail
      BY <1>10, <2>3
    <3>3. new(j).fibres # {} /\ tail # p
      BY <1>5, <2>1, <3>2
    <3>4. \A f \in new(j).fibres : f[1] \in DOMAIN cables' /\ tail \in cables'[f[1]].ends
      BY <3>1, <3>2
    <3> QED BY <3>2, <3>3, <3>4
  <2> QED BY <2>2, <2>3
<1>12. ASSUME NEW j \in joints, NEW k \in joints, j # k, j.at = k.at
       PROVE  /\ new(j).fibres \cap new(k).fibres = {}
              /\ new(j).port = new(k).port => new(j).port = None
  <2>1. j.fibres \cap k.fibres = {} /\ (j.port = k.port => j.port = None)
    BY <1>12, JointsEnd DEF Apart
  <2>2. CASE j.at # tail
    BY <1>10, <1>12, <2>1, <2>2
  <2>3. CASE j.at = tail
    <3>1. ASSUME NEW f \in j.fibres, NEW g \in k.fibres PROVE onto(f) # onto(g)
      <4>1. f \in Nat \X Nat /\ f[1] \in DOMAIN cables /\ g \in Nat \X Nat /\ g[1] \in DOMAIN cables
        BY JointsEnd
      <4> QED BY <1>9, <2>1, <4>1
    <3>2. new(j).fibres \cap new(k).fibres = {}
      <4>1. /\ new(j).fibres = {onto(f) : f \in j.fibres}
            /\ new(k).fibres = {onto(f) : f \in k.fibres}
        BY <1>10, <1>12, <2>3
      <4> QED BY <3>1, <4>1
    <3> QED BY <1>10, <2>1, <3>2
  <2> QED BY <2>2, <2>3
<1>13. ASSUME NEW i \in spliced
       PROVE  /\ i.at = p /\ i.port = None /\ i \in Joined
              /\ \E n \in Nat : i.fibres = {<<c, n>>, <<next, n>>}
  <2>1. cables[c].cores \in Nat \cup {None}
    BY <1>4 DEF Strung
  <2>2. PICK n \in Nat : i = F!Joint(p, {<<c, n>>, <<next, n>>}, None)
    <3>1. PICK fs \in through : i = F!Joint(p, fs, None)
      OBVIOUS
    <3>2. cables[c].cores # None
      BY <3>1
    <3>3. PICK n \in 1..cables[c].cores : fs = {<<c, n>>, <<next, n>>}
      BY <3>1, <3>2
    <3>4. n \in Nat
      BY <2>1, <3>2
    <3> QED BY <3>1, <3>3, <3>4
  <2>3. i.at = p /\ i.port = None /\ i.fibres = {<<c, n>>, <<next, n>>}
    BY <2>2 DEF F!Joint
  <2>4. {<<c, n>>, <<next, n>>} \in SUBSET (Nat \X Nat)
    BY <1>3
  <2>5. i \in Joined
    BY <2>2, <2>4 DEF F!Joint, Joined
  <2> QED BY <2>3, <2>5
<1> HIDE DEF spliced
<1>14. ASSUME NEW i \in spliced
       PROVE  /\ i.fibres # {}
              /\ \A f \in i.fibres : f[1] \in DOMAIN cables' /\ i.at \in cables'[f[1]].ends
  <2>1. PICK n \in Nat : i.fibres = {<<c, n>>, <<next, n>>}
    BY <1>13
  <2>2. \A f \in i.fibres : f[1] = c \/ f[1] = next
    BY <2>1
  <2>3. p \in here.ends /\ p \in beyond.ends
    BY <1>4
  <2> QED BY <1>6, <1>13, <2>1, <2>2, <2>3
<1>15. ASSUME NEW i \in spliced, NEW l \in spliced, i # l
       PROVE  i.fibres \cap l.fibres = {}
  <2>1. PICK n \in Nat : i.fibres = {<<c, n>>, <<next, n>>}
    BY <1>13
  <2>2. PICK m \in Nat : l.fibres = {<<c, m>>, <<next, m>>}
    BY <1>13
  <2>3. i = [at |-> p, fibres |-> i.fibres, port |-> None]
        /\ l = [at |-> p, fibres |-> l.fibres, port |-> None]
    BY <1>13 DEF Joined
  <2>4. n # m
    BY <1>15, <2>1, <2>2, <2>3
  <2> QED BY <2>1, <2>2, <2>4
<1>16. RecordTypes'
  <2>1. joints' \subseteq Joined
    BY <1>1, <1>10, <1>13
  <2>2. \A d \in DOMAIN cables' : cables'[d] \in Strung
    BY <1>2, <1>4, <1>6 DEF RecordTypes
  <2>3. cables' \in [DOMAIN cables' -> Strung]
    BY <1>1, <1>6, <2>2
  <2>4. made' \in Nat /\ DOMAIN cables' \subseteq 1..made'
    BY <1>1, <1>2, <1>3, <1>6 DEF RecordTypes
  <2>5. (stands \subseteq F!Points)' /\ stands' \cap spare' = {}
    BY <1>1, <1>2 DEF RecordTypes, F!Points
  <2> HIDE DEF next
  <2> QED BY <2>1, <2>3, <2>4, <2>5 DEF RecordTypes, Strung, Joined, F!Points
<1>17. F!FibresMeet'
  <2>1. ASSUME NEW i \in joints'
        PROVE  i.fibres # {} /\ F!joint_survives(i, cables')
    BY <1>1, <1>11, <1>14 DEF F!joint_survives
  <2>2. ASSUME NEW i \in joints', NEW l \in joints', i # l, i.at = l.at
        PROVE  i.fibres \cap l.fibres = {} /\ (i.port = l.port => i.port = None)
    <3>1. CASE i \in spliced /\ l \in spliced
      BY <1>13, <1>15, <2>2, <3>1
    <3>2. CASE i \in spliced /\ l \notin spliced
      BY <1>1, <1>11, <1>13, <2>2, <3>2
    <3>3. CASE i \notin spliced /\ l \in spliced
      BY <1>1, <1>11, <1>13, <2>2, <3>3
    <3>4. CASE i \notin spliced /\ l \notin spliced
      <4>1. PICK j \in joints : i = new(j)
        BY <1>1, <3>4
      <4>2. PICK k \in joints : l = new(k)
        BY <1>1, <3>4
      <4>3. j # k /\ j.at = k.at
        BY <1>10, <2>2, <4>1, <4>2
      <4> QED BY <1>12, <4>1, <4>2, <4>3
    <3> QED BY <3>1, <3>2, <3>3, <3>4
  <2> QED BY <2>1, <2>2 DEF F!FibresMeet, F!joint_survives
<1>18. GesturesAreSound'
  BY <1>1, GesturesStay
<1> QED BY <1>7, <1>16, <1>17, <1>18 DEF RecordInv

\* In the beginning two trunks meet and nothing is joined.
LEMMA RecordInit ==
    ASSUME F!Init
    PROVE  RecordInv
<1> DEFINE middle == CHOOSE p \in Closures : TRUE
           one == CHOOSE p \in Cabinets : TRUE
           two == CHOOSE p \in Cabinets : p # one
           row(c) == [ends |-> {middle, IF c = 1 THEN one ELSE two},
                      cores |-> MaxCount, laid |-> TRUE]
<1>1. middle \in Closures /\ one \in Cabinets /\ two \in Cabinets
  BY PartsAssumption DEF F!RecordAssumption
<1>2. /\ stands = Cabinets \cup {middle} /\ spare = Closures \ {middle}
      /\ cables = [c \in 1..2 |-> row(c)] /\ made = 2 /\ joints = {} /\ asked = None
  BY DEF F!Init
<1> HIDE DEF middle, one, two
<1>3. MaxCount \in Nat /\ Cabinets \cap Closures = {}
  BY PartsAssumption DEF F!RecordAssumption
<1>4. ASSUME NEW c \in 1..2
      PROVE  /\ row(c) \in Strung /\ row(c).ends \subseteq Cabinets \cup {middle}
             /\ \A p, q, r \in row(c).ends : p = q \/ q = r \/ p = r
  BY <1>1, <1>3 DEF Strung, F!Points
<1> HIDE DEF row
<1>5. RecordTypes
  BY <1>1, <1>2, <1>3, <1>4 DEF RecordTypes, F!Points
<1>6. CablesEnd
  BY <1>2, <1>3, <1>4 DEF CablesEnd
<1>7. F!FibresMeet /\ GesturesAreSound
  BY <1>2 DEF F!FibresMeet, GesturesAreSound
<1> QED BY <1>5, <1>6, <1>7 DEF RecordInv

\* Every step of the record keeps the invariant.
LEMMA RecordKeeps ==
    ASSUME RecordInv, [F!Next]_recordVars
    PROVE  RecordInv'
<1>1. CASE UNCHANGED recordVars
  <2>1. \A j \in joints' : \A f \in j.fibres : f[1] \in DOMAIN cables'
    BY <1>1, JointsEnd DEF recordVars
  <2> QED BY <1>1, <2>1, FewerJoints DEF recordVars, RecordInv, RecordTypes
<1>2. CASE F!Next
  BY <1>2, AskKeeps, DeletePassiveKeeps, JoinKeeps, TailKeeps, ConnectKeeps, ThroughKeeps,
     ClearKeeps, RecountKeeps, SplitKeeps, DeleteCableKeeps, MoveKeeps DEF F!Next
<1> QED BY <1>1, <1>2

\* However stale the tray: the fibres of a joint end where it is, a fibre is joined at a
\* point once, a port takes one fibre, through splices, plumbing, cables cut and moved,
\* and boxes deleted, for any plant (store_devices.py, fiber.py).
THEOREM FibresAreJoinedOnce == PartsSpec => []FibresMeet
<1>1. PartsInit => RecordInv
  BY RecordInit DEF PartsInit
<1>2. RecordInv /\ [PartsNext]_allVars => RecordInv'
  BY PartsMove, RecordKeeps
<1>3. RecordInv => FibresMeet
  BY DEF RecordInv, FibresMeet
<1> QED BY <1>1, <1>2, <1>3, PTL DEF PartsSpec

-----------------------------------------------------------------------------
(***************************************************************************)
(* The survey.                                                             *)
(***************************************************************************)

\* What the survey keeps.
Located == Gear \cup Onus
PlaceRows == [spot : Spots, for : S!Targets] \cup {None}
ContactRows == [what : Details, for : Onus] \cup {None}
Feeders == Spots \cup {None, S!Untouched}
Sheets == [of : S!Targets, at : PlaceRows, details : ContactRows,
           feeder : Feeders, pon : Feeders]
Stages == {"sent", "read", "read: reference", "created", "done", "refused"}
Saves == [of : S!Targets, rename : BOOLEAN, to : PlaceRows, details : ContactRows,
          feeder : Feeders, pon : Feeders, stage : Stages]
PlantRows == [n : Nat, at : PlaceRows, feeder : Feeders, pon : Feeders]

\* x is of target t, or nothing.
Own(x, t) == x = None \/ x.for = t

\* What the fields of an open sheet hold was measured, chosen or typed for its target.
SheetIsItsOwn ==
    sheet # None =>
        /\ sheet \in Sheets
        /\ Own(pin, sheet.of) /\ Own(sameAs, sheet.of) /\ Own(typed, sheet.of)
        /\ fix # None => fix.at \in PlaceRows /\ Own(fix.at, sheet.of)

\* So is what is saved; of a splitter its place is known.
SaveIsItsOwn ==
    fieldSave # None =>
        /\ fieldSave \in Saves
        /\ Own(fieldSave.to, fieldSave.of) /\ Own(fieldSave.details, fieldSave.of)
        /\ fieldSave.of = S!Plant => fieldSave.to # None
        /\ fieldSave.stage = "created" => \E p \in plants : p.n = Cardinality(plants) - 1

\* The splitters are numbered.
PlantsAreNumbered ==
    /\ IsFiniteSet(plants)
    /\ \A p \in plants : p.n < Cardinality(plants)
    /\ \A p, q \in plants : p.n = q.n => p = q

Known(record) ==
    /\ record.at \in [Located -> PlaceRows] /\ record.details \in [Onus -> ContactRows]
    /\ \A t \in Located : Own(record.at[t], t)
    /\ \A t \in Onus : Own(record.details[t], t)

\* The inductive invariant of the survey.
SurveyInv ==
    /\ Known([at |-> places, details |-> details]) /\ Known(lists)
    /\ plants \in SUBSET PlantRows
    /\ \A p \in plants : p.at # None /\ p.at.for = S!Plant
    /\ PlantsAreNumbered
    /\ pin \in PlaceRows /\ sameAs \in PlaceRows /\ typed \in ContactRows
    /\ SheetIsItsOwn /\ SaveIsItsOwn

\* What a save would send of the open sheet.
LEMMA CoordsAreOwn ==
    ASSUME SurveyInv, sheet # None
    PROVE  S!coords \in PlaceRows /\ Own(S!coords, sheet.of)
<1>1. CASE pin # None
  BY <1>1 DEF S!coords, SurveyInv, SheetIsItsOwn
<1>2. CASE pin = None /\ sameAs # None
  BY <1>2 DEF S!coords, SurveyInv, SheetIsItsOwn
<1>3. CASE pin = None /\ sameAs = None /\ fix # None
  BY <1>3 DEF S!coords, SurveyInv, SheetIsItsOwn
<1>4. CASE pin = None /\ sameAs = None /\ fix = None
  <2>1. S!coords = None
    BY <1>4 DEF S!coords
  <2> QED BY <2>1 DEF Own, PlaceRows
<1> QED BY <1>1, <1>2, <1>3, <1>4

\* The record and the browser's copy of it are left alone.
RecordStays == UNCHANGED <<places, details, plants, lists>>

\* What of the invariant speaks of the record alone.
LEMMA StaysKnown ==
    ASSUME SurveyInv, RecordStays
    PROVE  /\ Known([at |-> places, details |-> details])' /\ Known(lists)'
           /\ (plants \in SUBSET PlantRows)'
           /\ (\A p \in plants : p.at # None /\ p.at.for = S!Plant)'
           /\ PlantsAreNumbered'
BY DEF SurveyInv, RecordStays, Known, PlantsAreNumbered

\* What happens on the sheet, and to it.
LEMMA SheetKeepsOwn ==
    ASSUME SurveyInv,
           \/ \E s \in Spots, accuracy \in S!Excellent .. S!Loose : S!Measured(s, accuracy)
           \/ S!Settled \/ S!Retry \/ S!Close \/ S!BackToGps \/ S!OwnFix
           \/ \E t \in S!Targets : S!Pick(t)
           \/ \E s \in Spots : S!DragPin(s)
           \/ \E d \in Gear : S!SameSpot(d)
           \/ \E d \in Details \cup {None} : S!Type(d)
           \/ \E f \in Spots \cup {None} : S!PickFeeder(f)
           \/ \E p \in Spots \cup {None} : S!PickPon(p)
    PROVE  SurveyInv'
<1> USE DEF S!server, S!gps, S!fields, S!bounds
<1>0. RecordStays /\ UNCHANGED fieldSave
  BY DEF RecordStays, S!Measured, S!Settled, S!Retry, S!Close, S!BackToGps, S!OwnFix,
         S!Pick, S!DragPin, S!SameSpot, S!Type, S!PickFeeder, S!PickPon
<1>a. SaveIsItsOwn'
  BY <1>0 DEF SurveyInv, SaveIsItsOwn, RecordStays
<1>b. SUFFICES (pin \in PlaceRows /\ sameAs \in PlaceRows /\ typed \in ContactRows)'
               /\ SheetIsItsOwn'
  BY <1>0, <1>a, StaysKnown DEF SurveyInv
<1>1. ASSUME NEW s \in Spots, NEW accuracy \in S!Excellent .. S!Loose, S!Measured(s, accuracy)
      PROVE  (pin \in PlaceRows /\ sameAs \in PlaceRows /\ typed \in ContactRows)'
             /\ SheetIsItsOwn'
  <2>1. fix'.at = S!Place(s, sheet.of) /\ UNCHANGED <<sheet, pin, sameAs, typed>>
    BY <1>1 DEF S!Measured
  <2> QED BY <2>1 DEF SurveyInv, SheetIsItsOwn, Own, S!Place, PlaceRows, Sheets
<1>2. CASE S!Settled \/ S!Retry
  <2>1. fix' \in {fix, None} /\ UNCHANGED <<sheet, pin, sameAs, typed>>
    BY <1>2 DEF S!Settled, S!Retry, S!start
  <2> QED BY <2>1 DEF SurveyInv, SheetIsItsOwn
<1>3. CASE S!Close
  BY <1>3 DEF S!Close, S!reset, SurveyInv, SheetIsItsOwn
<1>4. CASE S!BackToGps \/ S!OwnFix
  <2>1. pin' \in {pin, None} /\ sameAs' \in {sameAs, None} /\ UNCHANGED <<sheet, fix, typed>>
    BY <1>4 DEF S!BackToGps, S!OwnFix
  <2> QED BY <2>1 DEF SurveyInv, SheetIsItsOwn, Own, PlaceRows
<1>5. ASSUME NEW t \in S!Targets, S!Pick(t)
      PROVE  (pin \in PlaceRows /\ sameAs \in PlaceRows /\ typed \in ContactRows)'
             /\ SheetIsItsOwn'
  <2> DEFINE place == IF t = S!Plant THEN None ELSE lists.at[t]
             contact == IF t \in Onus THEN lists.details[t] ELSE None
  <2>1. place \in PlaceRows /\ Own(place, t)
    BY DEF SurveyInv, Known, S!Targets, Located, PlaceRows, Own
  <2>2. contact \in ContactRows /\ Own(contact, t)
    BY DEF SurveyInv, Known, ContactRows, Own
  <2>3. sheet' = [of |-> t, at |-> place, details |-> contact,
                  feeder |-> S!Untouched, pon |-> S!Untouched]
        /\ pin' = (IF t \in Onus THEN place ELSE None) /\ sameAs' = None
        /\ typed' = contact /\ fix' = None
    BY <1>5 DEF S!Pick, S!Listed, S!Fresh, S!start
  <2> HIDE DEF place, contact
  <2>4. sheet' \in Sheets /\ sheet'.of = t
    BY <2>1, <2>2, <2>3 DEF Sheets, Feeders
  <2> QED BY <2>1, <2>2, <2>3, <2>4 DEF SheetIsItsOwn, Own, PlaceRows
<1>6. ASSUME NEW s \in Spots, S!DragPin(s)
      PROVE  (pin \in PlaceRows /\ sameAs \in PlaceRows /\ typed \in ContactRows)'
             /\ SheetIsItsOwn'
  <2>1. sheet # None /\ pin' = S!Place(s, sheet.of) /\ UNCHANGED <<sheet, fix, sameAs, typed>>
    BY <1>6 DEF S!DragPin
  <2> QED BY <2>1 DEF SurveyInv, SheetIsItsOwn, Own, S!Place, PlaceRows, Sheets
<1>7. ASSUME NEW d \in Gear, S!SameSpot(d)
      PROVE  (pin \in PlaceRows /\ sameAs \in PlaceRows /\ typed \in ContactRows)'
             /\ SheetIsItsOwn'
  <2>1. sheet # None /\ lists.at[d] # None
        /\ sameAs' = S!Place(lists.at[d].spot, sheet.of)
        /\ UNCHANGED <<sheet, fix, pin, typed>>
    BY <1>7 DEF S!SameSpot
  <2>2. lists.at[d].spot \in Spots
    BY <2>1 DEF SurveyInv, Known, Located, PlaceRows
  <2> QED BY <2>1, <2>2 DEF SurveyInv, SheetIsItsOwn, Own, S!Place, PlaceRows, Sheets
<1>8. ASSUME NEW d \in Details \cup {None}, S!Type(d)
      PROVE  (pin \in PlaceRows /\ sameAs \in PlaceRows /\ typed \in ContactRows)'
             /\ SheetIsItsOwn'
  <2>1. sheet # None /\ sheet.of \in Onus
        /\ typed' = (IF d = None THEN None ELSE S!Contact(d, sheet.of))
        /\ UNCHANGED <<sheet, fix, pin, sameAs>>
    BY <1>8 DEF S!Type, S!IsOnu
  <2>2. typed' \in ContactRows /\ Own(typed', sheet.of)
    BY <2>1 DEF S!Contact, ContactRows, Own
  <2> QED BY <2>1, <2>2 DEF SurveyInv, SheetIsItsOwn
<1>9. ASSUME NEW f \in Spots \cup {None}, S!PickFeeder(f) \/ S!PickPon(f)
      PROVE  (pin \in PlaceRows /\ sameAs \in PlaceRows /\ typed \in ContactRows)'
             /\ SheetIsItsOwn'
  <2>1. sheet # None /\ UNCHANGED <<fix, pin, sameAs, typed>>
        /\ \/ sheet' = [sheet EXCEPT !.feeder = f, !.pon = S!Untouched]
           \/ sheet' = [sheet EXCEPT !.pon = f]
    BY <1>9 DEF S!PickFeeder, S!PickPon
  <2>2. sheet \in Sheets
    BY <2>1 DEF SurveyInv, SheetIsItsOwn
  <2>3. sheet' \in Sheets /\ sheet'.of = sheet.of
    BY <2>1, <2>2 DEF Sheets, Feeders
  <2> QED BY <2>1, <2>2, <2>3 DEF SurveyInv, SheetIsItsOwn
<1> QED BY <1>1, <1>2, <1>3, <1>4, <1>5, <1>6, <1>7, <1>8, <1>9

\* The instances count as this module does.
LEMMA SameCount ==
    ASSUME NEW set
    PROVE  S!Cardinality(set) = Cardinality(set)
BY DEF S!Cardinality, Cardinality

\* A save takes along what the sheet holds; the rest waits for its answer.
LEMMA SaveKeepsOwn ==
    ASSUME SurveyInv, S!Save
    PROVE  SurveyInv'
<1> USE DEF S!server, S!gps, S!fields
<1>1. sheet # None /\ S!canSave
      /\ fieldSave' = [of |-> sheet.of, rename |-> S!renameOnly, to |-> S!coords,
                       details |-> typed, feeder |-> S!effectiveFeeder,
                       pon |-> S!effectivePon, stage |-> "sent"]
      /\ UNCHANGED <<places, details, witness, plants, lists, sheet, fix, typed, pin, sameAs>>
  BY DEF S!Save
<1>2. RecordStays
  BY <1>1 DEF RecordStays
<1>3. sheet \in Sheets /\ typed \in ContactRows /\ Own(typed, sheet.of)
  BY <1>1 DEF SurveyInv, SheetIsItsOwn
<1>4. S!coords \in PlaceRows /\ Own(S!coords, sheet.of)
  BY <1>1, CoordsAreOwn
<1>5. S!renameOnly \in BOOLEAN
  BY DEF S!renameOnly, S!IsOnu
<1>6. S!effectiveFeeder \in Feeders /\ S!effectivePon \in Feeders
  <2>1. S!suggestedFeeder \in Feeders
    BY <1>4 DEF S!suggestedFeeder, Feeders, PlaceRows
  <2>2. sheet.feeder \in Feeders /\ sheet.pon \in Feeders
    BY <1>3 DEF Sheets
  <2> QED BY <2>1, <2>2 DEF S!effectiveFeeder, S!effectivePon
<1>7. fieldSave' \in Saves
  <2>1. ASSUME NEW of \in S!Targets, NEW rename \in BOOLEAN, NEW to \in PlaceRows,
               NEW contact \in ContactRows, NEW f \in Feeders, NEW p \in Feeders
        PROVE  [of |-> of, rename |-> rename, to |-> to, details |-> contact,
                feeder |-> f, pon |-> p, stage |-> "sent"] \in Saves
    BY DEF Saves, Stages
  <2>2. sheet.of \in S!Targets
    BY <1>3 DEF Sheets
  <2> QED BY ONLY <1>1, <1>3, <1>4, <1>5, <1>6, <2>1, <2>2, Zenon
<1>8. sheet.of = S!Plant => S!coords # None
  <2>1. sheet.of = S!Plant => ~S!renameOnly \/ S!Plant \in Onus
    BY DEF S!renameOnly, S!IsOnu
  <2> QED BY <1>1, <2>1, PartsAssumption DEF S!canSave, S!SurveyAssumption
<1>9. SaveIsItsOwn'
  BY <1>1, <1>3, <1>4, <1>7, <1>8 DEF SaveIsItsOwn
<1>10. SheetIsItsOwn'
  BY <1>1 DEF SurveyInv, SheetIsItsOwn
<1> QED BY <1>1, <1>2, <1>9, <1>10, StaysKnown DEF SurveyInv

\* The server writes a save under the target it names.
LEMMA HandleKeepsOwn ==
    ASSUME SurveyInv, S!Handle
    PROVE  SurveyInv'
<1> USE DEF S!gps, S!fields
<1>1. UNCHANGED <<lists, sheet, fix, typed, pin, sameAs>> /\ Known(lists)'
  BY DEF S!Handle, SurveyInv, Known
<1>2. SheetIsItsOwn'
  BY <1>1 DEF SurveyInv, SheetIsItsOwn
<1>3. fieldSave # None /\ fieldSave \in Saves
      /\ \E stage \in Stages : fieldSave' = [fieldSave EXCEPT !.stage = stage]
  <2>1. fieldSave # None
    BY DEF S!Handle, S!PlaceInField, S!LocateReads, S!LocateWrites, S!NameOnu,
           S!CreatePassive, S!WirePassive
  <2>2. \E stage \in Stages : S!Handled(stage)
    <3>1. CASE S!PlaceInField \/ S!LocateWrites \/ S!WirePassive
      BY <3>1 DEF S!PlaceInField, S!LocateWrites, S!WirePassive, Stages
    <3>2. CASE S!LocateReads
      BY <3>2 DEF S!LocateReads, Stages
    <3>3. CASE S!NameOnu
      BY <3>3 DEF S!NameOnu, Stages
    <3>4. CASE S!CreatePassive
      BY <3>4 DEF S!CreatePassive, Stages
    <3> QED BY <3>1, <3>2, <3>3, <3>4 DEF S!Handle
  <2> QED BY <2>1, <2>2 DEF SurveyInv, SaveIsItsOwn, S!Handled
<1>4. /\ fieldSave' \in Saves /\ fieldSave'.of = fieldSave.of
      /\ fieldSave'.to = fieldSave.to /\ fieldSave'.details = fieldSave.details
  BY <1>3 DEF Saves
<1>5. /\ fieldSave.to \in PlaceRows /\ Own(fieldSave.to, fieldSave.of)
      /\ fieldSave.details \in ContactRows /\ Own(fieldSave.details, fieldSave.of)
      /\ fieldSave.of = S!Plant => fieldSave.to # None
      /\ fieldSave.pon \in Feeders /\ fieldSave.feeder \in Feeders
  BY <1>3 DEF SurveyInv, SaveIsItsOwn, Saves
<1>6. SUFFICES /\ Known([at |-> places, details |-> details])'
               /\ (plants \in SUBSET PlantRows)'
               /\ (\A p \in plants : p.at # None /\ p.at.for = S!Plant)'
               /\ PlantsAreNumbered'
               /\ fieldSave'.stage = "created" => \E p \in plants' : p.n = Cardinality(plants') - 1
  BY <1>1, <1>2, <1>4, <1>5 DEF SurveyInv, SaveIsItsOwn
<1>7. CASE S!PlaceInField \/ S!LocateReads \/ S!LocateWrites \/ S!NameOnu
  <2>1. /\ plants' = plants /\ fieldSave'.stage # "created"
        /\ places' \in {places, [places EXCEPT ![fieldSave.of] = fieldSave.to]}
        /\ details' \in {details, [details EXCEPT ![fieldSave.of] = fieldSave.details]}
    <3>1. plants' = plants
          /\ places' \in {places, [places EXCEPT ![fieldSave.of] = fieldSave.to]}
          /\ details' \in {details, [details EXCEPT ![fieldSave.of] = fieldSave.details]}
      BY <1>7 DEF S!PlaceInField, S!LocateReads, S!LocateWrites, S!NameOnu, S!server
    <3>2. \E stage \in {"done", "read: reference", "read", "refused"} :
             fieldSave' = [fieldSave EXCEPT !.stage = stage]
      BY <1>7 DEF S!PlaceInField, S!LocateReads, S!LocateWrites, S!NameOnu, S!Handled
    <3>3. fieldSave'.stage # "created"
      BY <1>3, <3>2 DEF Saves
    <3> QED BY <3>1, <3>3
  <2>2. /\ places' \in [Located -> PlaceRows] /\ \A t \in Located : Own(places'[t], t)
    <3>1. places \in [Located -> PlaceRows] /\ \A t \in Located : Own(places[t], t)
      BY DEF SurveyInv, Known
    <3> QED BY <1>5, <2>1, <3>1
  <2>3. /\ details' \in [Onus -> ContactRows] /\ \A t \in Onus : Own(details'[t], t)
    <3>1. details \in [Onus -> ContactRows] /\ \A t \in Onus : Own(details[t], t)
      BY DEF SurveyInv, Known
    <3> QED BY <1>5, <2>1, <3>1
  <2> QED BY <2>1, <2>2, <2>3 DEF SurveyInv, Known, PlantsAreNumbered
<1>8. CASE S!CreatePassive
  <2> DEFINE n == Cardinality(plants)
             new == [n |-> n, at |-> fieldSave.to, feeder |-> None, pon |-> fieldSave.pon]
  <2>1. fieldSave.of = S!Plant /\ plants' = plants \cup {new} /\ UNCHANGED <<places, details>>
    BY <1>8, SameCount DEF S!CreatePassive
  <2>2. n \in Nat /\ IsFiniteSet(plants)
    BY FS_CardinalityType DEF SurveyInv, PlantsAreNumbered
  <2>3. new \in PlantRows /\ new.at # None /\ new.at.for = S!Plant /\ new.n = n
    BY <1>5, <2>1, <2>2 DEF PlantRows, Feeders, Own
  <2>4. \A p \in plants : p.n < n
    BY DEF SurveyInv, PlantsAreNumbered
  <2> HIDE DEF new
  <2>5. new \notin plants
    BY <2>2, <2>3, <2>4
  <2>6. IsFiniteSet(plants') /\ Cardinality(plants') = n + 1
    BY <2>1, <2>2, <2>5, FS_AddElement
  <2>7. plants \in SUBSET PlantRows
    BY DEF SurveyInv
  <2>8. \A p \in plants : p.n \in Nat
    BY <2>7 DEF PlantRows
  <2>9. PlantsAreNumbered'
    <3>1. \A p \in plants' : p.n < n + 1
      BY <2>1, <2>2, <2>3, <2>4, <2>8
    <3>2. \A p, q \in plants' : p.n = q.n => p = q
      <4>1. \A p, q \in plants : p.n = q.n => p = q
        BY DEF SurveyInv, PlantsAreNumbered
      <4>2. \A p \in plants : p.n # new.n
        BY <2>2, <2>3, <2>4, <2>8
      <4> QED BY <2>1, <4>1, <4>2
    <3> QED BY <2>6, <3>1, <3>2 DEF PlantsAreNumbered
  <2>10. \E p \in plants' : p.n = Cardinality(plants') - 1
    BY <2>1, <2>2, <2>3, <2>6
  <2> QED BY <2>1, <2>3, <2>7, <2>9, <2>10 DEF SurveyInv, Known
<1>9. CASE S!WirePassive
  <2> DEFINE n == Cardinality(plants)
             new == CHOOSE p \in plants : p.n = n - 1
             wired == [new EXCEPT !.feeder = fieldSave.feeder]
  <2>1. /\ fieldSave.stage = "created" /\ UNCHANGED <<places, details>>
        /\ plants' \in {plants, (plants \ {new}) \cup {wired}}
        /\ fieldSave' = [fieldSave EXCEPT !.stage = "done"]
    BY <1>9, SameCount DEF S!WirePassive, S!Handled
  <2>2. fieldSave'.stage = "done"
    BY <1>3, <2>1 DEF Saves
  <2>3. CASE plants' = plants
    BY <2>1, <2>2, <2>3 DEF SurveyInv, Known, PlantsAreNumbered
  <2>4. CASE plants' = (plants \ {new}) \cup {wired}
    <3>1. new \in plants
      BY <1>3, <2>1 DEF SurveyInv, SaveIsItsOwn
    <3> HIDE DEF new
    <3>2. plants \in SUBSET PlantRows /\ new.at # None /\ new.at.for = S!Plant
      BY <3>1 DEF SurveyInv
    <3>3. wired \in PlantRows /\ wired.n = new.n /\ wired.at = new.at
      BY <1>5, <3>1, <3>2 DEF PlantRows
    <3> HIDE DEF wired
    <3>4. IsFiniteSet(plants) /\ (\A p \in plants : p.n < n)
          /\ \A p, q \in plants : p.n = q.n => p = q
      BY DEF SurveyInv, PlantsAreNumbered
    <3>5. wired \notin plants \ {new}
      BY <3>1, <3>3, <3>4
    <3>6. IsFiniteSet(plants \ {new}) /\ Cardinality(plants \ {new}) = n - 1
      BY <3>1, <3>4, FS_RemoveElement
    <3>7. n \in Nat
      BY <3>4, FS_CardinalityType
    <3>8. IsFiniteSet(plants') /\ Cardinality(plants') = n
      <4>1. IsFiniteSet((plants \ {new}) \cup {wired})
            /\ Cardinality((plants \ {new}) \cup {wired}) = (n - 1) + 1
        BY <3>5, <3>6, FS_AddElement
      <4> QED BY <2>4, <3>7, <4>1
    <3>9. (\A p \in plants' : p.n < n) /\ \A p, q \in plants' : p.n = q.n => p = q
      BY <2>4, <3>1, <3>3, <3>4
    <3>10. PlantsAreNumbered'
      BY <3>8, <3>9 DEF PlantsAreNumbered
    <3>11. plants' \in SUBSET PlantRows /\ \A p \in plants' : p.at # None /\ p.at.for = S!Plant
      BY <2>4, <3>1, <3>2, <3>3 DEF SurveyInv
    <3> QED BY <2>1, <2>2, <3>10, <3>11 DEF SurveyInv, Known
  <2> QED BY <2>1, <2>3, <2>4
<1> QED BY <1>7, <1>8, <1>9 DEF S!Handle

\* Answers, the lists read anew and what others do.
LEMMA OthersKeepOwn ==
    ASSUME SurveyInv, S!Refetched \/ S!Answered \/ S!Failed \/ S!Desk
    PROVE  SurveyInv'
<1> USE DEF S!server, S!gps, S!fields, S!bounds
<1>1. CASE S!Refetched
  <2>1. lists' = [at |-> places, details |-> details]
        /\ UNCHANGED <<places, details, plants, sheet, fix, typed, pin, sameAs, fieldSave>>
    BY <1>1 DEF S!Refetched
  <2>2. Known(lists)' /\ Known([at |-> places, details |-> details])'
    BY <2>1 DEF SurveyInv, Known
  <2>3. PlantsAreNumbered' /\ SheetIsItsOwn' /\ SaveIsItsOwn'
    BY <2>1 DEF SurveyInv, PlantsAreNumbered, SheetIsItsOwn, SaveIsItsOwn
  <2> QED BY <2>1, <2>2, <2>3 DEF SurveyInv
<1>2. CASE S!Answered \/ S!Failed
  <2>1. fieldSave' = None /\ sheet' \in {sheet, None}
        /\ (sheet' # None => sheet' = sheet /\ fix' = fix)
        /\ UNCHANGED <<places, details, plants, lists, typed, pin, sameAs>>
    BY <1>2 DEF S!Answered, S!Failed, S!reset
  <2>2. RecordStays
    BY <2>1 DEF RecordStays
  <2>3. SheetIsItsOwn' /\ SaveIsItsOwn'
    BY <2>1 DEF SurveyInv, SheetIsItsOwn, SaveIsItsOwn
  <2> QED BY <2>1, <2>2, <2>3, StaysKnown DEF SurveyInv
<1>3. CASE S!Desk
  <2>1. UNCHANGED <<plants, lists, sheet, fix, typed, pin, sameAs, fieldSave>>
    BY <1>3 DEF S!Desk
  <2>2. places' \in [Located -> PlaceRows] /\ \A t \in Located : Own(places'[t], t)
    <3>1. places \in [Located -> PlaceRows] /\ \A t \in Located : Own(places[t], t)
      BY DEF SurveyInv, Known
    <3>2. CASE places' = places
      BY <3>1, <3>2
    <3>3. ASSUME NEW t \in Located, NEW s \in Spots \cup {None},
                 places' = [places EXCEPT ![t] = IF s = None THEN None ELSE S!Place(s, t)]
          PROVE  places' \in [Located -> PlaceRows] /\ \A u \in Located : Own(places'[u], u)
      <4>1. (IF s = None THEN None ELSE S!Place(s, t)) \in PlaceRows
            /\ Own(IF s = None THEN None ELSE S!Place(s, t), t)
        BY DEF S!Place, PlaceRows, S!Targets, Located, Own
      <4> QED BY <3>1, <3>3, <4>1
    <3> QED BY <1>3, <3>2, <3>3 DEF S!Desk, Located
  <2>3. details' \in [Onus -> ContactRows] /\ \A t \in Onus : Own(details'[t], t)
    <3>1. details \in [Onus -> ContactRows] /\ \A t \in Onus : Own(details[t], t)
      BY DEF SurveyInv, Known
    <3>2. CASE details' = details
      BY <3>1, <3>2
    <3>3. ASSUME NEW t \in Onus, NEW d \in Details,
                 details' = [details EXCEPT ![t] = S!Contact(d, t)]
          PROVE  details' \in [Onus -> ContactRows] /\ \A u \in Onus : Own(details'[u], u)
      BY <3>1, <3>3 DEF S!Contact, ContactRows, Own
    <3> QED BY <1>3, <3>2, <3>3 DEF S!Desk
  <2>4. PlantsAreNumbered' /\ SheetIsItsOwn' /\ SaveIsItsOwn' /\ Known(lists)'
    BY <2>1 DEF SurveyInv, PlantsAreNumbered, SheetIsItsOwn, SaveIsItsOwn, Known
  <2> QED BY <2>1, <2>2, <2>3, <2>4 DEF SurveyInv, Known
<1> QED BY <1>1, <1>2, <1>3

\* What is on record of a target was measured, chosen or typed on a sheet that was
\* open on that target, for any targets, positions and number of saves, whenever a
\* sheet is closed and whatever others do meanwhile (survey-page.tsx CaptureSheet).
THEOREM RecordsOwn == PartsSpec => []RecordsAreTheirOwn
<1>1. PartsInit => SurveyInv
  <2> SUFFICES ASSUME PartsInit PROVE SurveyInv
    OBVIOUS
  <2>1. PICK begun \in [Located -> Spots \cup {None}] :
           places = [t \in Located |-> IF begun[t] = None THEN None ELSE S!Place(begun[t], t)]
    BY DEF PartsInit, S!Init, Located
  <2>2. /\ details = [t \in Onus |-> None] /\ plants = {}
        /\ lists = [at |-> places, details |-> details]
        /\ sheet = None /\ typed = None /\ pin = None /\ sameAs = None /\ fieldSave = None
    BY DEF PartsInit, S!Init
  <2>3. places \in [Located -> PlaceRows] /\ \A t \in Located : Own(places[t], t)
    BY <2>1 DEF S!Place, PlaceRows, S!Targets, Located, Own
  <2>4. details \in [Onus -> ContactRows] /\ \A t \in Onus : Own(details[t], t)
    BY <2>2 DEF ContactRows, Own
  <2>5. PlantsAreNumbered
    BY <2>2, FS_EmptySet DEF PlantsAreNumbered
  <2> QED BY <2>2, <2>3, <2>4, <2>5
          DEF SurveyInv, Known, SheetIsItsOwn, SaveIsItsOwn, PlaceRows, ContactRows
<1>2. SurveyInv /\ [PartsNext]_allVars => SurveyInv'
  <2> SUFFICES ASSUME SurveyInv, [PartsNext]_allVars PROVE SurveyInv'
    OBVIOUS
  <2>1. CASE UNCHANGED surveyVars
    <3>1. RecordStays /\ UNCHANGED <<sheet, fix, typed, pin, sameAs, fieldSave>>
      BY <2>1 DEF surveyVars, RecordStays
    <3>2. SheetIsItsOwn' /\ SaveIsItsOwn'
      BY <3>1 DEF SurveyInv, SheetIsItsOwn, SaveIsItsOwn, RecordStays
    <3> QED BY <3>1, <3>2, StaysKnown DEF SurveyInv
  <2>2. CASE S!Next
    BY <2>2, SheetKeepsOwn, SaveKeepsOwn, HandleKeepsOwn, OthersKeepOwn DEF S!Next
  <2> QED BY <2>1, <2>2, PartsMove
<1>3. SurveyInv => RecordsAreTheirOwn
  BY DEF SurveyInv, Known, Located, Own, RecordsAreTheirOwn, S!RecordsAreTheirOwn
<1> QED BY <1>1, <1>2, <1>3, PTL DEF PartsSpec

-----------------------------------------------------------------------------
(***************************************************************************)
(* The device web proxy.                                                   *)
(***************************************************************************)

\* What central, the edge and the browser keep.
Answers == [sid : Nat, k : Nat, life : Nat] \cup {None}
Sessions == [device : Managed, port : WebPorts, cached : Answers] \cup {None}
Shown == [sid : X!Sids \cup {None}, page : Answers, asked : Nat] \cup {None}
Asked == [k : Nat, sid : X!Sids, tab : Tabs, asset : BOOLEAN, device : Managed,
          life : Nat, n : Nat, stage : {"waiting", "parked"}, answer : Answers]
Creations == [sid : X!Sids, tab : Tabs, device : Managed, asked : WebPorts,
              port : WebPorts,
              step : {"preflight", "replace", "replace rows", "open", "record", "reply"}]

ProxyTypes ==
    /\ hub \in [X!Sids -> Sessions]
    /\ requests \in SUBSET Asked /\ inbox \in Seq(Asked)
    /\ workers \in [Workers -> Asked \cup {None}]
    /\ opening \in SUBSET Creations
    /\ tabs \in [Tabs -> Shown]
    /\ watched \in [X!Sids -> Tabs \cup {None}]
    /\ seq \in Nat /\ life \in Nat /\ sent \in Nat

\* Page p is none of this life of central, or was asked for in session s.
PageOf(p, s) == p # None /\ p.life = life => p.sid = s

\* What the edge has of request r, under the number that r waits with, is r.
Alike(e, r) == e.n = r.n => e.sid = r.sid /\ e.k = r.k

\* Whatever is under way under the number of a request that waits is that request.
NumbersAreTheirOwn ==
    /\ \A r \in requests : r.stage = "parked" => r.n <= seq
    /\ \A i \in 1..Len(inbox) :
          inbox[i].n <= seq /\ inbox[i].life = life
          /\ \A r \in requests : r.stage = "parked" => Alike(inbox[i], r)
    /\ \A w \in Workers : workers[w] # None => workers[w].life <= life
    /\ \A w \in Workers : workers[w] # None /\ workers[w].life = life =>
          workers[w].n <= seq
          /\ \A r \in requests : r.stage = "parked" => Alike(workers[w], r)

\* A worker answers the request it has; a request comes to it without an answer.
WorkersAnswer ==
    /\ \A i \in 1..Len(inbox) : inbox[i].answer = None
    /\ \A w \in Workers : workers[w] # None =>
          workers[w].answer \in {None, X!Error, X!Page(workers[w])}

\* A request waits in this life of central, and its answer is to it.
RequestsAreAnswered ==
    \A r \in requests :
        /\ r.life = life
        /\ r.stage = "waiting" => r.answer = None
        /\ r.answer # None /\ r.answer # X!Error /\ r.answer.life = life =>
              r.answer.sid = r.sid /\ r.answer.k = r.k

\* What a session has cached is its own.
CachesAreTheirOwn ==
    \A s \in X!Sids : hub[s] # None => PageOf(hub[s].cached, s)

\* A page is its session's, and the answer to the tab's request.
TabsShowTheirOwn ==
    \A t \in Tabs : tabs[t] # None =>
        /\ PageOf(tabs[t].page, tabs[t].sid)
        /\ tabs[t].page # None /\ tabs[t].page.life = life =>
              tabs[t].asked \in {0, tabs[t].page.k}

\* The inductive invariant of the proxy.
ProxyInv ==
    /\ ProxyTypes /\ NumbersAreTheirOwn /\ WorkersAnswer
    /\ RequestsAreAnswered /\ CachesAreTheirOwn /\ TabsShowTheirOwn

\* Nothing of a request is under way that is not.
TunnelStays == UNCHANGED <<requests, inbox, workers, seq, life, sent>>

\* The tunnel at rest, it is enough that sessions begin without a cached asset and tabs
\* without a page.
LEMMA SessionsKeepOwn ==
    ASSUME ProxyInv, TunnelStays,
           hub' \in [X!Sids -> Sessions], opening' \in SUBSET Creations,
           tabs' \in [Tabs -> Shown], watched' \in [X!Sids -> Tabs \cup {None}],
           \A s \in X!Sids : hub'[s] = hub[s] \/ hub'[s] = None \/ hub'[s].cached = None,
           \A t \in Tabs : tabs'[t] = tabs[t] \/ tabs'[t] = None \/ tabs'[t].page = None
    PROVE  ProxyInv'
<1> USE DEF ProxyInv, TunnelStays
<1>1. ProxyTypes'
  BY DEF ProxyTypes
<1>2. NumbersAreTheirOwn'
  BY DEF NumbersAreTheirOwn, Alike
<1>3. WorkersAnswer' /\ RequestsAreAnswered'
  BY DEF WorkersAnswer, RequestsAreAnswered, X!Page, X!Error
<1>4. CachesAreTheirOwn'
  BY DEF CachesAreTheirOwn, PageOf
<1>5. TabsShowTheirOwn'
  BY DEF TabsShowTheirOwn, PageOf
<1> QED BY <1>1, <1>2, <1>3, <1>4, <1>5

\* A session that ends leaves nothing.
LEMMA EndedSessions ==
    ASSUME ProxyInv, NEW set, hub' = X!Closed(set)
    PROVE  /\ hub' \in [X!Sids -> Sessions]
           /\ \A s \in X!Sids : hub'[s] = hub[s] \/ hub'[s] = None
BY DEF ProxyInv, ProxyTypes, X!Closed, Sessions

\* Sessions come, in tabs of the browser and at central, and go.
LEMMA ComingsKeepOwn ==
    ASSUME ProxyInv,
           \/ \E t \in Tabs : \/ X!CloseTab(t)
                              \/ \E d \in Managed, p \in WebPorts : X!WebUiButton(t, d, p)
                              \/ \E s \in X!Sids : X!OpenListed(t, s)
           \/ \E o \in opening : X!session_create(o) \/ X!Opened(o) \/ X!OpenFailed(o)
           \/ \E s \in X!Sids : X!SweepClosedTabs(s) \/ X!CloseListed(s) \/ X!RunOut(s)
           \/ X!sessions_list \/ X!reap_expired \/ X!set_org_web_proxy
    PROVE  ProxyInv'
<1> USE DEF X!central, X!browser
<1>0. ProxyTypes /\ None \in Answers /\ None \in Shown
  BY DEF ProxyInv, Answers, Shown
<1>1. TunnelStays
  BY DEF TunnelStays, X!CloseTab, X!WebUiButton, X!OpenListed, X!session_create, X!Opened,
         X!OpenFailed, X!SweepClosedTabs, X!CloseListed, X!RunOut, X!sessions_list,
         X!reap_expired, X!set_org_web_proxy
<1> DEFINE Goal == /\ hub' \in [X!Sids -> Sessions] /\ opening' \in SUBSET Creations
                   /\ tabs' \in [Tabs -> Shown] /\ watched' \in [X!Sids -> Tabs \cup {None}]
                   /\ \A s \in X!Sids :
                         hub'[s] = hub[s] \/ hub'[s] = None \/ hub'[s].cached = None
                   /\ \A t \in Tabs :
                         tabs'[t] = tabs[t] \/ tabs'[t] = None \/ tabs'[t].page = None
<1>2. SUFFICES Goal
  BY <1>1, <1>2, SessionsKeepOwn
<1>3. ASSUME NEW s \in X!Sids \cup {None}
      PROVE  X!Tab(s) \in Shown /\ X!Tab(s).page = None
  BY <1>0 DEF X!Tab, Shown
<1>4. ASSUME NEW t \in Tabs, X!CloseTab(t) PROVE Goal
  BY <1>0, <1>4 DEF X!CloseTab, ProxyTypes
<1>5. ASSUME NEW t \in Tabs, NEW d \in Managed, NEW p \in WebPorts, X!WebUiButton(t, d, p)
      PROVE  Goal
  <2> DEFINE free == X!Sids \ X!Taken
             s == CHOOSE n \in free : \A u \in free : n <= u
             o == [sid |-> s, tab |-> t, device |-> d, asked |-> p, port |-> p,
                   step |-> "preflight"]
  <2>1. X!Taken # X!Sids /\ X!Taken \subseteq X!Sids
    BY <1>5 DEF X!WebUiButton, X!Taken
  <2>2. free \in SUBSET Nat /\ free # {}
    <3>1. X!Sids \subseteq Nat
      BY PartsAssumption DEF X!Sids, X!ProxyAssumption
    <3>2. ASSUME NEW all, all \subseteq Nat, NEW some, some \subseteq all, some # all
          PROVE  all \ some \in SUBSET Nat /\ all \ some # {}
      BY <3>2, Zenon
    <3> QED BY <2>1, <3>1, <3>2, Zenon
  <2>3. s \in X!Sids
    <3> HIDE DEF free
    <3>1. \E n \in free : \A u \in free : n <= u
      BY <2>2, LeastExists
    <3>2. s \in free
      BY <3>1
    <3> QED BY <3>2 DEF free
  <2>4. opening' = opening \cup {o} /\ tabs' = [tabs EXCEPT ![t] = X!Tab(None)]
        /\ UNCHANGED <<hub, watched>>
    BY <1>5 DEF X!WebUiButton
  <2> HIDE DEF s
  <2>5. o \in Creations
    BY <2>3 DEF Creations
  <2> HIDE DEF o
  <2> QED BY <1>0, <1>3, <2>4, <2>5 DEF ProxyTypes
<1>6. ASSUME NEW t \in Tabs, NEW s \in X!Sids, X!OpenListed(t, s) PROVE Goal
  <2>1. tabs' = [tabs EXCEPT ![t] = X!Tab(s)] /\ watched' = [watched EXCEPT ![s] = t]
        /\ UNCHANGED <<hub, opening>>
    BY <1>6 DEF X!OpenListed
  <2> QED BY <1>0, <1>3, <2>1 DEF ProxyTypes
<1>7. ASSUME NEW o \in opening, X!session_create(o) PROVE Goal
  <2>1. o \in Creations /\ UNCHANGED <<tabs, watched>>
    BY <1>0, <1>7 DEF ProxyTypes, X!session_create
  <2>2. opening' \in SUBSET Creations
    <3>1. \E new \in Creations : opening' = (opening \ {o}) \cup {new}
      <4>1. ASSUME NEW p \in WebPorts
            PROVE  [o EXCEPT !.port = p, !.step = "replace"] \in Creations
        BY <2>1 DEF Creations
      <4>2. ASSUME NEW way \in {"replace rows", "open", "record", "reply"}
            PROVE  [o EXCEPT !.step = way] \in Creations
        BY <2>1 DEF Creations
      <4> QED BY <1>7, <4>1, <4>2 DEF X!session_create, X!Becomes
    <3> QED BY <1>0, <3>1 DEF ProxyTypes
  <2>3. hub' \in [X!Sids -> Sessions]
        /\ \A s \in X!Sids : hub'[s] = hub[s] \/ hub'[s] = None \/ hub'[s].cached = None
    <3>1. \/ hub' = hub \/ hub' = [s \in X!Sids |-> None]
          \/ hub' = [hub EXCEPT ![o.sid] =
                        [device |-> o.device, port |-> o.port, cached |-> None]]
      BY <1>7 DEF X!session_create
    <3>2. [device |-> o.device, port |-> o.port, cached |-> None] \in Sessions
      BY <1>0, <2>1 DEF Creations, Sessions
    <3>3. None \in Sessions
      BY DEF Sessions
    <3> QED BY <1>0, <3>1, <3>2, <3>3 DEF ProxyTypes
  <2> QED BY <1>0, <2>1, <2>2, <2>3 DEF ProxyTypes
<1>8. ASSUME NEW o \in opening, X!Opened(o) \/ X!OpenFailed(o) PROVE Goal
  <2>1. o \in Creations
    BY <1>0, <1>8 DEF ProxyTypes
  <2>2. opening' = (opening \ {o}) \cup {} /\ hub' = hub
        /\ \/ tabs' = tabs \/ tabs' = [tabs EXCEPT ![o.tab] = X!Tab(o.sid)]
           \/ tabs' = [tabs EXCEPT ![o.tab] = None]
        /\ \/ watched' = watched \/ watched' = [watched EXCEPT ![o.sid] = o.tab]
    BY <1>8 DEF X!Opened, X!OpenFailed, X!Becomes
  <2>3. o.sid \in X!Sids /\ o.tab \in Tabs
    BY <2>1 DEF Creations
  <2> QED BY <1>0, <1>3, <2>2, <2>3 DEF ProxyTypes
<1>9. ASSUME NEW s \in X!Sids, X!SweepClosedTabs(s) \/ X!CloseListed(s) \/ X!RunOut(s)
      PROVE  Goal
  <2>1. hub' = hub \/ hub' = X!Closed({s})
    BY <1>9 DEF X!SweepClosedTabs, X!CloseListed, X!RunOut, X!session_close
  <2>2. UNCHANGED <<opening, tabs>>
        /\ \/ watched' = watched \/ watched' = [watched EXCEPT ![s] = None]
    BY <1>9 DEF X!SweepClosedTabs, X!CloseListed, X!RunOut
  <2> QED BY <1>0, <2>1, <2>2, EndedSessions DEF ProxyTypes
<1>10. CASE X!sessions_list \/ X!reap_expired \/ X!set_org_web_proxy
  <2>1. (hub' = hub \/ hub' = X!Closed(ran)) /\ UNCHANGED <<opening, tabs, watched>>
    BY <1>10 DEF X!sessions_list, X!reap_expired, X!set_org_web_proxy
  <2> QED BY <1>0, <2>1, EndedSessions DEF ProxyTypes
<1> QED BY <1>4, <1>5, <1>6, <1>7, <1>8, <1>9, <1>10

\* A tab shows a page of its session.
LEMMA TabShows ==
    ASSUME ProxyInv, NEW t \in Tabs, tabs[t] # None, NEW k \in Nat, NEW p \in Answers,
           X!Shows(t, k, p), life' = life, PageOf(p, tabs[t].sid),
           p # None /\ p.life = life => k \in {0, p.k}
    PROVE  tabs' \in [Tabs -> Shown] /\ TabsShowTheirOwn'
<1>1. tabs \in [Tabs -> Shown] /\ TabsShowTheirOwn
  BY DEF ProxyInv, ProxyTypes
<1>2. tabs' = [tabs EXCEPT ![t] = [tabs[t] EXCEPT !.page = p, !.asked = k]]
  BY <1>1 DEF X!Shows, Shown
<1> DEFINE row == [tabs[t] EXCEPT !.page = p, !.asked = k]
<1>3. row \in Shown /\ row.page = p /\ row.sid = tabs[t].sid /\ row.asked = k
  BY <1>1 DEF Shown
<1> HIDE DEF row
<1>4. tabs' \in [Tabs -> Shown]
  BY <1>1, <1>2, <1>3 DEF row
<1>5. tabs' = [tabs EXCEPT ![t] = row]
  BY <1>2 DEF row
<1>6. ASSUME NEW u \in Tabs, tabs'[u] # None
      PROVE  /\ PageOf(tabs'[u].page, tabs'[u].sid)
             /\ tabs'[u].page # None /\ tabs'[u].page.life = life =>
                   tabs'[u].asked \in {0, tabs'[u].page.k}
  <2>1. CASE u = t
    <3>1. tabs'[u] = row
      BY <1>1, <1>5, <2>1
    <3> QED BY <1>3, <3>1 DEF PageOf
  <2>2. CASE u # t
    <3>1. tabs'[u] = tabs[u]
      BY <1>1, <1>5, <2>2
    <3> QED BY <1>1, <1>6, <3>1 DEF TabsShowTheirOwn, PageOf
  <2> QED BY <2>1, <2>2
<1>7. TabsShowTheirOwn'
  BY <1>6 DEF TabsShowTheirOwn, PageOf
<1> QED BY <1>4, <1>7

\* A request that was under way and is no longer takes nothing away from the others.
LEMMA RequestsLeave ==
    ASSUME ProxyInv, requests' \subseteq requests,
           UNCHANGED <<inbox, workers, seq, life>>
    PROVE  NumbersAreTheirOwn' /\ WorkersAnswer' /\ RequestsAreAnswered'
<1> USE DEF ProxyInv
<1>1. NumbersAreTheirOwn'
  BY DEF NumbersAreTheirOwn, Alike
<1>2. WorkersAnswer'
  BY DEF WorkersAnswer, X!Page, X!Error
<1>3. RequestsAreAnswered'
  BY DEF RequestsAreAnswered, X!Error
<1> QED BY <1>1, <1>2, <1>3

\* A request that times out.
LEMMA TimedOutKeeps ==
    ASSUME ProxyInv, NEW r \in requests, X!TimedOut(r)
    PROVE  ProxyInv'
<1>1. /\ requests' = requests \ {r}
      /\ UNCHANGED <<hub, inbox, seq, life, sent, workers, opening, watched>>
      /\ X!ShowsIfThere(r, None)
  BY DEF X!TimedOut, X!Advanced
<1>2. ProxyTypes /\ r \in Asked /\ None \in Answers
  BY DEF ProxyInv, ProxyTypes, Answers
<1>3. tabs' \in [Tabs -> Shown] /\ TabsShowTheirOwn'
  <2>1. CASE X!StillThere(r)
    <3>1. r.tab \in Tabs /\ r.k \in Nat /\ tabs[r.tab] # None /\ X!Shows(r.tab, r.k, None)
      BY <1>1, <1>2, <2>1 DEF Asked, X!StillThere, X!ShowsIfThere
    <3> QED BY <1>1, <1>2, <3>1, TabShows DEF PageOf
  <2>2. CASE ~X!StillThere(r)
    BY <1>1, <1>2, <2>2 DEF X!ShowsIfThere, ProxyInv, ProxyTypes, TabsShowTheirOwn, PageOf
  <2> QED BY <2>1, <2>2
<1>4. NumbersAreTheirOwn' /\ WorkersAnswer' /\ RequestsAreAnswered'
  BY <1>1, RequestsLeave
<1>5. CachesAreTheirOwn'
  BY <1>1 DEF ProxyInv, CachesAreTheirOwn, PageOf
<1>6. ProxyTypes'
  BY <1>1, <1>2, <1>3 DEF ProxyTypes
<1> QED BY <1>3, <1>4, <1>5, <1>6 DEF ProxyInv

\* A request that is answered, and the asset that is cached.
LEMMA AnsweredKeeps ==
    ASSUME ProxyInv, NEW r \in requests, X!Answered(r)
    PROVE  ProxyInv'
<1>1. /\ requests' = requests \ {r} /\ r.answer # None
      /\ UNCHANGED <<inbox, seq, life, sent, workers, opening, watched>>
  BY DEF X!Answered, X!Advanced
<1>2. ProxyTypes /\ r \in Asked /\ None \in Answers
  BY DEF ProxyInv, ProxyTypes, Answers
<1>3. NumbersAreTheirOwn' /\ WorkersAnswer' /\ RequestsAreAnswered'
  BY <1>1, RequestsLeave
<1> DEFINE p == IF r.answer = X!Error THEN None ELSE r.answer
<1>4. /\ p \in Answers /\ PageOf(p, r.sid)
      /\ p # None /\ p.life = life => r.k \in {0, p.k}
  BY <1>1, <1>2 DEF ProxyInv, RequestsAreAnswered, PageOf, Asked
<1>5. X!ShowsIfThere(r, p)
  BY DEF X!Answered
<1>6. hub' = hub \/ (r.sid \in X!Sids /\ hub[r.sid] # None
                     /\ hub' = [hub EXCEPT ![r.sid].cached = p])
  BY <1>2 DEF X!Answered, X!Known, Asked
<1> HIDE DEF p
<1>7. tabs' \in [Tabs -> Shown] /\ TabsShowTheirOwn'
  <2>1. CASE X!StillThere(r)
    <3>1. r.tab \in Tabs /\ r.k \in Nat /\ tabs[r.tab] # None /\ tabs[r.tab].sid = r.sid
          /\ X!Shows(r.tab, r.k, p)
      BY <1>2, <1>5, <2>1 DEF Asked, X!StillThere, X!ShowsIfThere
    <3> QED BY <1>1, <1>4, <3>1, TabShows
  <2>2. CASE ~X!StillThere(r)
    BY <1>1, <1>2, <1>5, <2>2
       DEF X!ShowsIfThere, ProxyInv, ProxyTypes, TabsShowTheirOwn, PageOf
  <2> QED BY <2>1, <2>2
<1>8. hub' \in [X!Sids -> Sessions] /\ CachesAreTheirOwn'
  <2>1. CASE hub' = hub
    BY <1>1, <1>2, <2>1 DEF ProxyInv, ProxyTypes, CachesAreTheirOwn, PageOf
  <2>2. CASE r.sid \in X!Sids /\ hub[r.sid] # None
             /\ hub' = [hub EXCEPT ![r.sid].cached = p]
    <3> DEFINE row == [hub[r.sid] EXCEPT !.cached = p]
    <3>1. hub \in [X!Sids -> Sessions] /\ hub' = [hub EXCEPT ![r.sid] = row]
      BY <1>2, <2>2 DEF ProxyTypes
    <3>2. row \in Sessions /\ row.cached = p
      BY <1>4, <2>2, <3>1 DEF Sessions
    <3> HIDE DEF row
    <3>3. hub' \in [X!Sids -> Sessions]
      BY <3>1, <3>2
    <3>4. ASSUME NEW s \in X!Sids, hub'[s] # None
          PROVE  PageOf(hub'[s].cached, s)
      BY <1>4, <3>1, <3>2, <3>4 DEF ProxyInv, CachesAreTheirOwn
    <3> QED BY <1>1, <3>3, <3>4 DEF CachesAreTheirOwn, PageOf
  <2> QED BY <1>6, <2>1, <2>2
<1>9. ProxyTypes'
  BY <1>1, <1>2, <1>7, <1>8 DEF ProxyTypes
<1> QED BY <1>3, <1>7, <1>8, <1>9 DEF ProxyInv

\* A request of a tab: what it shows is of its session's cache, and what waits is new.
LEMMA BrowserKeeps ==
    ASSUME ProxyInv, NEW t \in Tabs, NEW asset \in BOOLEAN, X!browser_request(t, asset)
    PROVE  ProxyInv'
<1> DEFINE s == tabs[t].sid
           r == [k |-> sent', sid |-> s, tab |-> t, asset |-> asset,
                 device |-> hub[s].device, life |-> life,
                 n |-> 0, stage |-> "waiting", answer |-> None]
<1>1. ProxyTypes /\ None \in Answers /\ tabs[t] # None
  BY DEF ProxyInv, ProxyTypes, Answers, X!browser_request
<1>2. s \in X!Sids /\ sent' \in Nat
  BY <1>1 DEF X!browser_request, ProxyTypes, Shown
<1>3. UNCHANGED <<inbox, seq, life, workers, opening, watched>>
  BY DEF X!browser_request
<1>4. \/ /\ hub' = X!Closed({s}) /\ requests' = requests /\ X!Shows(t, 0, None)
      \/ /\ hub' = hub /\ hub[s] # None
         /\ \/ requests' = requests /\ X!Shows(t, 0, hub[s].cached)
            \/ requests' = requests /\ X!Shows(t, 0, None)
            \/ requests' = requests \cup {r} /\ tabs' = tabs
  BY DEF X!browser_request, X!has_session, X!Known
<1>5. CASE requests' = requests
  <2>1. tabs' \in [Tabs -> Shown] /\ TabsShowTheirOwn'
    <3>1. CASE X!Shows(t, 0, None)
      BY <1>1, <1>3, <3>1, TabShows DEF PageOf
    <3>2. CASE hub[s] # None /\ X!Shows(t, 0, hub[s].cached)
      <4>1. hub[s].cached \in Answers /\ PageOf(hub[s].cached, s)
        BY <1>1, <1>2, <3>2 DEF ProxyInv, ProxyTypes, CachesAreTheirOwn, Sessions
      <4> QED BY <1>1, <1>3, <3>2, <4>1, TabShows
    <3>3. CASE tabs' = tabs
      BY <1>1, <1>3, <3>3 DEF ProxyInv, ProxyTypes, TabsShowTheirOwn, PageOf
    <3> QED BY <1>4, <3>1, <3>2, <3>3
  <2>2. hub' \in [X!Sids -> Sessions] /\ CachesAreTheirOwn'
    <3>1. /\ hub' \in [X!Sids -> Sessions]
          /\ \A u \in X!Sids : hub'[u] = hub[u] \/ hub'[u] = None
      BY <1>1, <1>4, EndedSessions DEF ProxyTypes
    <3> QED BY <1>3, <3>1 DEF ProxyInv, CachesAreTheirOwn, PageOf
  <2>3. NumbersAreTheirOwn' /\ WorkersAnswer' /\ RequestsAreAnswered'
    BY <1>3, <1>5, RequestsLeave
  <2>4. ProxyTypes'
    BY <1>1, <1>2, <1>3, <1>5, <2>1, <2>2 DEF ProxyTypes
  <2> QED BY <2>1, <2>2, <2>3, <2>4 DEF ProxyInv
<1>6. CASE hub' = hub /\ hub[s] # None /\ requests' = requests \cup {r} /\ tabs' = tabs
  <2>1. r \in Asked
    <3>1. hub[s].device \in Managed
      BY <1>1, <1>2, <1>6 DEF ProxyTypes, Sessions
    <3> QED BY <1>1, <1>2, <3>1 DEF Asked, ProxyTypes
  <2>2. r.stage = "waiting" /\ r.life = life /\ r.answer = None
    OBVIOUS
  <2> HIDE DEF r, s
  <2>3. ProxyTypes'
    BY <1>1, <1>2, <1>3, <1>6, <2>1 DEF ProxyTypes
  <2>4. NumbersAreTheirOwn'
    BY <1>3, <1>6, <2>2 DEF ProxyInv, NumbersAreTheirOwn, Alike
  <2>5. WorkersAnswer'
    BY <1>3 DEF ProxyInv, WorkersAnswer, X!Page, X!Error
  <2>6. RequestsAreAnswered'
    BY <1>3, <1>6, <2>2 DEF ProxyInv, RequestsAreAnswered, X!Error
  <2>7. CachesAreTheirOwn' /\ TabsShowTheirOwn'
    BY <1>3, <1>6 DEF ProxyInv, CachesAreTheirOwn, TabsShowTheirOwn, PageOf
  <2> QED BY <2>3, <2>4, <2>5, <2>6, <2>7 DEF ProxyInv
<1> QED BY <1>4, <1>5, <1>6

\* A request gets a number that nothing under way has.
LEMMA SubmitKeeps ==
    ASSUME ProxyInv, NEW r \in requests, X!submit(r)
    PROVE  ProxyInv'
<1> DEFINE parked == [r EXCEPT !.n = X!Number, !.stage = "parked"]
<1>1. ProxyTypes /\ r \in Asked /\ r.stage = "waiting"
  BY DEF ProxyInv, ProxyTypes, X!submit
<1>2. /\ requests' = (requests \ {r}) \cup {parked} /\ inbox' = Append(inbox, parked)
      /\ seq' = seq + 1
      /\ UNCHANGED <<hub, life, sent, workers, opening, tabs, watched>>
  BY DEF X!submit, X!Advanced, X!browser
<1>3. parked \in Asked /\ parked.n = seq + 1 /\ parked.stage = "parked"
      /\ parked.life = r.life /\ parked.answer = r.answer
  <2>1. X!Number = seq + 1 /\ X!Number \in Nat
    BY <1>1 DEF X!Number, ProxyTypes
  <2> QED BY <1>1, <2>1 DEF Asked
<1>4. r.life = life /\ r.answer = None
  BY <1>1 DEF ProxyInv, RequestsAreAnswered
<1>5. inbox \in Seq(Asked) /\ seq \in Nat
  BY <1>1 DEF ProxyTypes
<1> HIDE DEF parked
<1>6. ProxyTypes'
  BY <1>1, <1>2, <1>3, <1>5 DEF ProxyTypes
<1>7. \A i \in 1..Len(inbox') : (inbox'[i] = inbox[i] /\ i \in 1..Len(inbox))
                                \/ inbox'[i] = parked
  BY <1>2, <1>3, <1>5
<1>8. NumbersAreTheirOwn'
  <2>1. \A q \in requests' : q.stage = "parked" =>
            q = parked \/ (q \in requests /\ q.n <= seq)
    BY <1>2 DEF ProxyInv, NumbersAreTheirOwn
  <2>2. \A q \in requests' : q.stage = "parked" => q.n <= seq + 1
    BY <1>1, <1>2, <1>3, <1>5, <2>1 DEF ProxyTypes, Asked
  <2>3. ASSUME NEW i \in 1..Len(inbox')
        PROVE  /\ inbox'[i].n <= seq + 1 /\ inbox'[i].life = life
               /\ \A q \in requests' : q.stage = "parked" => Alike(inbox'[i], q)
    <3>1. CASE inbox'[i] = parked
      BY <1>1, <1>3, <1>4, <1>5, <2>1, <3>1 DEF Alike, ProxyTypes, Asked
    <3>2. CASE inbox'[i] = inbox[i] /\ i \in 1..Len(inbox)
      <4>1. /\ inbox[i].n <= seq /\ inbox[i].life = life
            /\ \A q \in requests : q.stage = "parked" => Alike(inbox[i], q)
        BY <3>2 DEF ProxyInv, NumbersAreTheirOwn
      <4>2. inbox[i] \in Asked
        BY <1>5, <3>2
      <4>3. inbox[i].n \in Nat
        BY <4>2 DEF Asked
      <4> QED BY <1>3, <1>5, <2>1, <3>2, <4>1, <4>3 DEF Alike
    <3> QED BY <1>7, <3>1, <3>2
  <2>4. ASSUME NEW w \in Workers, workers[w] # None
        PROVE  /\ workers[w].life <= life
               /\ workers[w].life = life =>
                     /\ workers[w].n <= seq + 1
                     /\ \A q \in requests' : q.stage = "parked" => Alike(workers[w], q)
    <3>1. /\ workers[w].life <= life /\ workers[w].n \in Nat
          /\ workers[w].life = life =>
                /\ workers[w].n <= seq
                /\ \A q \in requests : q.stage = "parked" => Alike(workers[w], q)
      BY <1>1, <2>4 DEF ProxyInv, ProxyTypes, NumbersAreTheirOwn, Asked
    <3> QED BY <1>3, <1>5, <2>1, <3>1 DEF Alike
  <2> QED BY <1>2, <2>2, <2>3, <2>4 DEF NumbersAreTheirOwn, Alike
<1>9. WorkersAnswer'
  BY <1>2, <1>3, <1>4, <1>7 DEF ProxyInv, WorkersAnswer, X!Page, X!Error
<1>10. RequestsAreAnswered'
  BY <1>2, <1>3, <1>4 DEF ProxyInv, RequestsAreAnswered, X!Error
<1>11. CachesAreTheirOwn' /\ TabsShowTheirOwn'
  BY <1>2 DEF ProxyInv, CachesAreTheirOwn, TabsShowTheirOwn, PageOf
<1> QED BY <1>6, <1>8, <1>9, <1>10, <1>11 DEF ProxyInv

\* The browser's side at rest.
BrowserStays == UNCHANGED <<hub, requests, life, sent, opening, tabs, watched>>

\* What of the invariant speaks of the browser alone.
LEMMA BrowserStaysOwn ==
    ASSUME ProxyInv, UNCHANGED <<hub, life, sent, opening, tabs, watched>>
    PROVE  CachesAreTheirOwn' /\ TabsShowTheirOwn'
BY DEF ProxyInv, CachesAreTheirOwn, TabsShowTheirOwn, PageOf

\* A worker takes a request, serves it, or is dropped.
LEMMA WorkerKeeps ==
    ASSUME ProxyInv, NEW w \in Workers, X!next_request(w) \/ X!Serve(w) \/ X!Dropped(w)
    PROVE  ProxyInv'
<1> USE DEF X!central, X!browser
<1>1. ProxyTypes
  BY DEF ProxyInv
<1>2. BrowserStays /\ seq' = seq
  BY DEF BrowserStays, X!next_request, X!Serve, X!Dropped
<1>3. CachesAreTheirOwn' /\ TabsShowTheirOwn'
  BY <1>2, BrowserStaysOwn DEF BrowserStays
<1>4. /\ inbox' \in Seq(Asked) /\ Len(inbox') \in Nat
      /\ \A i \in 1..Len(inbox') : \E j \in 1..Len(inbox) : inbox'[i] = inbox[j]
  <2>1. inbox \in Seq(Asked)
    BY <1>1 DEF ProxyTypes
  <2>2. CASE inbox' = inbox
    BY <2>1, <2>2
  <2>3. CASE inbox # <<>> /\ inbox' = Tail(inbox)
    <3>1. /\ inbox' \in Seq(Asked) /\ Len(inbox') = Len(inbox) - 1 /\ Len(inbox) \in Nat
          /\ \A i \in 1..Len(inbox') : inbox'[i] = inbox[i + 1]
      BY <2>1, <2>3
    <3>2. ASSUME NEW i \in 1..Len(inbox')
          PROVE  i + 1 \in 1..Len(inbox)
      BY <3>1
    <3> QED BY <3>1, <3>2
  <2> QED BY <2>2, <2>3 DEF X!next_request, X!Serve, X!Dropped
<1>5. \E e : /\ workers' = [workers EXCEPT ![w] = e] \/ workers' = workers
             /\ \/ e = None
                \/ \E j \in 1..Len(inbox) : e = inbox[j]
                \/ /\ workers[w] # None
                   /\ \E a \in {X!Page(workers[w]), X!Error} :
                         e = [workers[w] EXCEPT !.answer = a]
  <2>1. CASE X!next_request(w)
    <3>1. Head(inbox) = inbox[1] /\ 1 \in 1..Len(inbox)
      BY <1>1, <2>1 DEF ProxyTypes, X!next_request
    <3> QED BY <2>1, <3>1 DEF X!next_request
  <2>2. CASE X!Serve(w)
    <3>1. workers[w] \in Asked
      BY <1>1, <2>2 DEF ProxyTypes, X!Serve
    <3>2. PICK a \in {X!Page(workers[w]), X!Error} :
               workers' = [workers EXCEPT ![w].answer = a]
      BY <2>2 DEF X!Serve
    <3>3. workers' = [workers EXCEPT ![w] = [workers[w] EXCEPT !.answer = a]]
      BY <1>1, <3>2 DEF ProxyTypes
    <3> QED BY <2>2, <3>3 DEF X!Serve
  <2>3. CASE X!Dropped(w)
    BY <2>3 DEF X!Dropped
  <2> QED BY <2>1, <2>2, <2>3
<1>6. PICK e : /\ workers' = [workers EXCEPT ![w] = e] \/ workers' = workers
               /\ \/ e = None
                  \/ \E j \in 1..Len(inbox) : e = inbox[j]
                  \/ /\ workers[w] # None
                     /\ \E a \in {X!Page(workers[w]), X!Error} :
                           e = [workers[w] EXCEPT !.answer = a]
  BY <1>5
\* What the worker has is nothing, or fit for it.
<1> DEFINE Fit(x) ==
             x # None =>
             /\ x \in Asked /\ x.life <= life /\ x.answer \in {None, X!Error, X!Page(x)}
             /\ x.life = life =>
                   x.n <= seq /\ \A r \in requests : r.stage = "parked" => Alike(x, r)
<1>7. \A v \in Workers : Fit(workers[v])
  BY <1>1 DEF ProxyInv, ProxyTypes, NumbersAreTheirOwn, WorkersAnswer
<1>8. Fit(e)
  <2>1. CASE e = None
    BY <2>1
  <2>2. ASSUME NEW j \in 1..Len(inbox), e = inbox[j] PROVE Fit(e)
    <3>1. inbox[j] \in Asked
      BY <1>1 DEF ProxyTypes
    <3>2. /\ inbox[j].n <= seq /\ inbox[j].life = life /\ inbox[j].answer = None
          /\ \A r \in requests : r.stage = "parked" => Alike(inbox[j], r)
      BY DEF ProxyInv, NumbersAreTheirOwn, WorkersAnswer
    <3> QED BY <1>1, <2>2, <3>1, <3>2 DEF ProxyTypes
  <2>3. ASSUME workers[w] # None, NEW a \in {X!Page(workers[w]), X!Error},
               e = [workers[w] EXCEPT !.answer = a]
        PROVE  Fit(e)
    <3>1. Fit(workers[w]) /\ workers[w] \in Asked
      BY <1>7, <2>3
    <3>2. X!Sids \subseteq Nat
      BY PartsAssumption DEF X!Sids, X!ProxyAssumption
    <3>3. X!Page(workers[w]) \in Answers /\ X!Error \in Answers
      BY <3>1, <3>2 DEF X!Page, X!Error, Answers, Asked
    <3>4. e \in Asked /\ e.sid = workers[w].sid /\ e.k = workers[w].k
          /\ e.n = workers[w].n /\ e.life = workers[w].life /\ e.answer = a
      BY <2>3, <3>1, <3>3 DEF Asked
    <3>5. X!Page(e) = X!Page(workers[w])
      BY <3>4 DEF X!Page
    <3> QED BY <2>3, <3>1, <3>4, <3>5 DEF Alike
  <2> QED BY <1>6, <2>1, <2>2, <2>3
<1>9. \A v \in Workers : Fit(workers'[v])
  BY <1>1, <1>6, <1>7, <1>8 DEF ProxyTypes
<1>10. workers' \in [Workers -> Asked \cup {None}]
  <2>1. e \in Asked \cup {None}
    BY <1>8
  <2> QED BY <1>1, <1>6, <2>1 DEF ProxyTypes
<1>11. ProxyTypes'
  BY <1>1, <1>2, <1>4, <1>10 DEF ProxyTypes, BrowserStays
<1>12. NumbersAreTheirOwn'
  <2>1. \A i \in 1..Len(inbox') :
          inbox'[i].n <= seq /\ inbox'[i].life = life
          /\ \A r \in requests : r.stage = "parked" => Alike(inbox'[i], r)
    BY <1>4 DEF ProxyInv, NumbersAreTheirOwn
  <2> QED BY <1>2, <1>9, <2>1 DEF ProxyInv, NumbersAreTheirOwn, BrowserStays, Alike
<1>13. WorkersAnswer'
  <2>1. \A i \in 1..Len(inbox') : inbox'[i].answer = None
    BY <1>4 DEF ProxyInv, WorkersAnswer
  <2> QED BY <1>2, <1>9, <2>1 DEF WorkersAnswer, BrowserStays, X!Page, X!Error
<1>14. RequestsAreAnswered'
  BY <1>2 DEF ProxyInv, RequestsAreAnswered, BrowserStays, X!Error
<1> QED BY <1>3, <1>11, <1>12, <1>13, <1>14 DEF ProxyInv

\* A worker's reply that finds its request, or does not.
LEMMA DeliverKeeps ==
    ASSUME ProxyInv, NEW w \in Workers, X!deliver(w)
    PROVE  ProxyInv'
<1> USE DEF X!browser
<1>1. ProxyTypes
  BY DEF ProxyInv
<1>2. /\ UNCHANGED <<hub, inbox, seq, life, sent, opening, tabs, watched>>
      /\ workers' = [workers EXCEPT ![w] = None] /\ workers[w] # None
  BY DEF X!deliver
<1>3. CachesAreTheirOwn' /\ TabsShowTheirOwn'
  BY <1>2, BrowserStaysOwn
<1>4. \A v \in Workers : workers'[v] = workers[v] \/ workers'[v] = None
  BY <1>1, <1>2 DEF ProxyTypes
<1>5. workers' \in [Workers -> Asked \cup {None}]
  BY <1>1, <1>2 DEF ProxyTypes
<1>6. WorkersAnswer'
  BY <1>2, <1>4 DEF ProxyInv, WorkersAnswer, X!Page, X!Error
<1>7. CASE requests' = requests
  <2>1. ProxyTypes'
    BY <1>1, <1>2, <1>5, <1>7 DEF ProxyTypes
  <2>2. NumbersAreTheirOwn'
    BY <1>2, <1>4, <1>7 DEF ProxyInv, NumbersAreTheirOwn, Alike
  <2>3. RequestsAreAnswered'
    BY <1>2, <1>7 DEF ProxyInv, RequestsAreAnswered, X!Error
  <2> QED BY <1>3, <1>6, <2>1, <2>2, <2>3 DEF ProxyInv
<1>8. ASSUME NEW r \in requests, r.stage = "parked", r.n = workers[w].n,
             requests' = (requests \ {r}) \cup {[r EXCEPT !.answer = workers[w].answer]}
      PROVE  ProxyInv'
  <2> DEFINE a == [r EXCEPT !.answer = workers[w].answer]
  <2>1. r \in Asked /\ workers[w] \in Asked
    BY <1>1, <1>2, <1>8 DEF ProxyTypes
  <2>2. a \in Asked /\ a.n = r.n /\ a.sid = r.sid /\ a.k = r.k /\ a.life = r.life
        /\ a.stage = r.stage /\ a.answer = workers[w].answer
    BY <2>1 DEF Asked
  <2>3. requests' = (requests \ {r}) \cup {a}
    BY <1>8
  <2> HIDE DEF a
  <2>4. ProxyTypes'
    BY <1>1, <1>2, <1>5, <2>2, <2>3 DEF ProxyTypes
  <2>5. \A q \in requests' : q.stage = "parked" => \E p \in requests :
            p.stage = "parked" /\ p.n = q.n /\ p.sid = q.sid /\ p.k = q.k
    BY <1>8, <2>2, <2>3
  <2>6. NumbersAreTheirOwn'
    <3>1. \A q \in requests' : q.stage = "parked" => q.n <= seq
      BY <2>5 DEF ProxyInv, NumbersAreTheirOwn
    <3>2. \A i \in 1..Len(inbox) :
             inbox[i].n <= seq /\ inbox[i].life = life
             /\ \A q \in requests' : q.stage = "parked" => Alike(inbox[i], q)
      BY <2>5 DEF ProxyInv, NumbersAreTheirOwn, Alike
    <3>3. \A v \in Workers : workers'[v] # None =>
             /\ workers'[v].life <= life
             /\ workers'[v].life = life =>
                   /\ workers'[v].n <= seq
                   /\ \A q \in requests' : q.stage = "parked" => Alike(workers'[v], q)
      BY <1>4, <2>5 DEF ProxyInv, NumbersAreTheirOwn, Alike
    <3> QED BY <1>2, <3>1, <3>2, <3>3 DEF NumbersAreTheirOwn, Alike
  <2>7. RequestsAreAnswered'
    <3>1. /\ a.life = life /\ a.stage # "waiting"
          /\ a.answer # None /\ a.answer # X!Error /\ a.answer.life = life =>
                a.answer.sid = a.sid /\ a.answer.k = a.k
      <4>1. r.life = life
        BY DEF ProxyInv, RequestsAreAnswered
      <4>2. ASSUME a.answer # None, a.answer # X!Error, a.answer.life = life
            PROVE  a.answer.sid = a.sid /\ a.answer.k = a.k
        <5>1. a.answer = X!Page(workers[w])
          BY <1>2, <2>2, <4>2 DEF ProxyInv, WorkersAnswer
        <5>2. /\ a.answer.life = workers[w].life /\ a.answer.sid = workers[w].sid
              /\ a.answer.k = workers[w].k
          BY <5>1 DEF X!Page
        <5>3. Alike(workers[w], r)
          BY <1>2, <1>8, <4>2, <5>2 DEF ProxyInv, NumbersAreTheirOwn
        <5> QED BY <1>8, <2>2, <5>2, <5>3 DEF Alike
      <4> QED BY <1>8, <2>2, <4>1, <4>2
    <3> QED BY <1>2, <2>3, <3>1 DEF ProxyInv, RequestsAreAnswered, X!Error
  <2> QED BY <1>3, <1>6, <2>4, <2>6, <2>7 DEF ProxyInv
<1> QED BY <1>7, <1>8 DEF X!deliver, X!Advanced

\* Numbers begin anew when central does; what the edge still has is of an earlier life.
LEMMA RestartKeeps ==
    ASSUME ProxyInv, X!Restart
    PROVE  ProxyInv'
<1>1. ProxyTypes /\ None \in Answers /\ None \in Shown
  BY DEF ProxyInv, Answers, Shown
<1>2. /\ life' = life + 1 /\ hub' = [s \in X!Sids |-> None] /\ requests' = {}
      /\ inbox' = <<>> /\ seq' = 0 /\ opening' = {}
      /\ UNCHANGED <<sent, workers, watched>>
  BY DEF X!Restart
<1>3. tabs' \in [Tabs -> Shown]
      /\ \A t \in Tabs : tabs'[t] = None \/ tabs'[t].page = None
  <2>1. ASSUME NEW t \in Tabs, tabs[t] # None
        PROVE  LET row == [tabs[t] EXCEPT !.page = None, !.asked = 0]
               IN  row \in Shown /\ row.page = None
    BY <1>1, <2>1 DEF ProxyTypes, Shown
  <2> QED BY <1>1, <2>1 DEF X!Restart
<1>4. ProxyTypes'
  <2>1. hub' \in [X!Sids -> Sessions]
    BY <1>2 DEF Sessions
  <2> QED BY <1>1, <1>2, <1>3, <2>1 DEF ProxyTypes
<1>5. NumbersAreTheirOwn'
  <2>1. ASSUME NEW w \in Workers, workers[w] # None
        PROVE  workers[w].life <= life' /\ workers[w].life # life'
    <3>1. workers[w].life <= life /\ workers[w].life \in Nat /\ life \in Nat
      BY <1>1, <2>1 DEF ProxyInv, NumbersAreTheirOwn, ProxyTypes, Asked
    <3> QED BY <1>2, <3>1
  <2> QED BY <1>2, <2>1 DEF NumbersAreTheirOwn
<1>6. WorkersAnswer'
  BY <1>2 DEF ProxyInv, WorkersAnswer, X!Page, X!Error
<1>7. RequestsAreAnswered' /\ CachesAreTheirOwn' /\ TabsShowTheirOwn'
  BY <1>2, <1>3 DEF RequestsAreAnswered, CachesAreTheirOwn, TabsShowTheirOwn, PageOf
<1> QED BY <1>4, <1>5, <1>6, <1>7 DEF ProxyInv

\* In the beginning nobody has asked for anything.
LEMMA ProxyInit ==
    ASSUME X!Init
    PROVE  ProxyInv
<1> USE DEF X!Init
<1>1. ProxyTypes
  <2>1. None \in Sessions /\ None \in Shown
    BY DEF Sessions, Shown
  <2> QED BY <2>1 DEF ProxyTypes
<1>2. NumbersAreTheirOwn /\ WorkersAnswer /\ RequestsAreAnswered
  BY DEF NumbersAreTheirOwn, WorkersAnswer, RequestsAreAnswered
<1>3. CachesAreTheirOwn /\ TabsShowTheirOwn
  BY DEF CachesAreTheirOwn, TabsShowTheirOwn
<1> QED BY <1>1, <1>2, <1>3 DEF ProxyInv

\* Every step of the proxy keeps the invariant.
LEMMA ProxyKeeps ==
    ASSUME ProxyInv, [X!Next]_proxyVars
    PROVE  ProxyInv'
<1>1. CASE UNCHANGED proxyVars
  BY <1>1 DEF proxyVars, ProxyInv, ProxyTypes, NumbersAreTheirOwn, Alike, WorkersAnswer,
              X!Page, X!Error, RequestsAreAnswered, CachesAreTheirOwn, TabsShowTheirOwn, PageOf
<1>2. CASE X!Works
  BY <1>2, ComingsKeepOwn, BrowserKeeps, SubmitKeeps, TimedOutKeeps, AnsweredKeeps,
     WorkerKeeps, DeliverKeeps DEF X!Works
<1>3. CASE X!Moves
  BY <1>3, ComingsKeepOwn, WorkerKeeps, RestartKeeps DEF X!Moves
<1> QED BY <1>1, <1>2, <1>3 DEF X!Next

\* A tab of a device shows the answer to its own request, or an asset of its own session,
\* through time-outs, lost answers, sessions that replace each other and restarts, whatever
\* the number of tabs, workers, sessions and requests (proxy.py, deliver).
THEOREM AnswersOwn == PartsSpec => []AnswersAreTheirOwn
<1> DEFINE Inv == part = "proxy" => ProxyInv
<1>1. PartsInit => Inv
  BY ProxyInit DEF PartsInit
<1>2. Inv /\ [PartsNext]_allVars => Inv'
  BY PartsMove, ProxyKeeps
<1>3. Inv => AnswersAreTheirOwn
  BY DEF AnswersAreTheirOwn, X!AnswersAreTheirOwn, ProxyInv, TabsShowTheirOwn, PageOf
<1> QED BY <1>1, <1>2, <1>3, PTL DEF PartsSpec

-----------------------------------------------------------------------------
(***************************************************************************)
(* Paying.                                                                 *)
(***************************************************************************)

\* A payment the open screen saw go through and the document does not tell yet.
Owed(i) == i \in taken \ (doc.recorded \cup left)

\* How far the dialog is with an attempt of its own, by its calls: which attempt its
\* phase is about.
Follows(i) ==
    /\ \/ step[i] \in {"new", "over"}
       \/ /\ paying = i
          /\ \/ step[i] \in {"ordering", "loading"} /\ payPhase = "opening"
             \/ step[i] = "window" /\ payPhase = "checkout"
             \/ step[i] = "returned" /\ payPhase = "verifying"
    /\ Owed(i) =>
          paying = i /\ payPhase \in {"verifying", "processing", "unverified", "settled"}

\* The inductive invariant of paying.  What is owed is owed by a screen that is there
\* to hear of it, and the dialog is about nothing else.
PayInv ==
    /\ step = [i \in Attempts |-> step[i]]
    /\ heard \subseteq Attempts
    /\ screen = "none" => heard = {}
    /\ doc.recorded \subseteq recorded
    /\ taken \subseteq doc.recorded \cup left \cup heard
    /\ screen = "dialog" => \A i \in heard : Follows(i)

\* An attempt goes from one call to the next.
LEMMA CallsMove ==
    ASSUME PayInv, NEW i \in Attempts, NEW from, NEW to, P!Calls(i, from, to)
    PROVE  /\ step[i] = from /\ step' = [j \in Attempts |-> step'[j]]
           /\ step'[i] = to /\ \A j \in Attempts \ {i} : step'[j] = step[j]
BY DEF PayInv, P!Calls

\* When the open screen stands still the invariant does, too, if what is taken is heard
\* or left and calls end.
LEMMA ScreenStands ==
    ASSUME PayInv, UNCHANGED <<screen, payPhase, paying, heard, doc>>,
           recorded \subseteq recorded', left \subseteq left',
           taken' \subseteq taken \cup left',
           step' = [j \in Attempts |-> step'[j]],
           \A j \in heard : step'[j] \in {step[j], "over"}
    PROVE  PayInv'
BY DEF PayInv, Follows, Owed

\* A screen that is gone leaves what it knew.
LEMMA ScreenGoes ==
    ASSUME PayInv, heard' = {}, doc'.recorded \in {doc.recorded, recorded},
           recorded' = recorded,
           taken' = taken, left' = left \cup (heard \cap taken),
           step' = [j \in Attempts |-> step'[j]]
    PROVE  PayInv'
BY DEF PayInv

\* The lock screen owes nobody anything it has not left.
LEMMA LockStands ==
    ASSUME PayInv, screen' = "lock", UNCHANGED <<doc, recorded>>,
           heard \subseteq heard', heard' \subseteq Attempts, left \subseteq left',
           taken' \subseteq taken \cup left' \cup heard',
           step' = [j \in Attempts |-> step'[j]]
    PROVE  PayInv'
BY DEF PayInv

\* Every step of paying keeps the invariant.
LEMMA PayKeeps ==
    ASSUME PayInv, [P!Next]_payVars
    PROVE  PayInv'
<1> USE DEF P!ledgerVars, P!screenVars, P!callVars
<1>1. CASE UNCHANGED payVars
  BY <1>1, ScreenStands DEF payVars, PayInv
<1>2. CASE P!OpenDialog
  BY <1>2 DEF P!OpenDialog, PayInv
<1>3. CASE P!CloseDialog
  BY <1>3, ScreenGoes DEF P!CloseDialog, P!Lost, PayInv
<1>4. CASE P!TryAgain
  BY <1>4 DEF P!TryAgain, P!Enter, PayInv, Follows, Owed
<1>5. CASE P!BackToPayment
  <2>1. /\ screen' = "lock" /\ UNCHANGED <<doc, recorded, taken, heard, step>>
        /\ left \subseteq left'
    BY <1>5 DEF P!BackToPayment, P!Lost
  <2>2. taken' \subseteq taken \cup left' \cup heard'
    BY <2>1
  <2>3. step' = [j \in Attempts |-> step'[j]] /\ heard' \subseteq Attempts
    BY <2>1 DEF PayInv
  <2> QED BY <2>1, <2>2, <2>3, LockStands
<1>6. ASSUME NEW i \in Attempts, P!Start(i) PROVE PayInv'
  <2>1. /\ step' = [step EXCEPT ![i] = "ordering"] /\ heard' = heard \cup {i}
        /\ payPhase' = "opening" /\ paying' = i /\ step[i] = "new"
        /\ payPhase = "form" /\ screen \in {"dialog", "lock"}
        /\ UNCHANGED <<screen, doc, taken, recorded, left>>
    BY <1>6 DEF P!Start, P!Offered, P!Enter
  <2>2. CASE screen = "lock"
    BY <2>1, <2>2, LockStands DEF PayInv
  <2>3. CASE screen = "dialog"
    BY <2>1, <2>3 DEF PayInv, Follows, Owed
  <2> QED BY <2>1, <2>2, <2>3
<1>7. ASSUME NEW i \in Attempts, P!AnswerOrder(i) PROVE PayInv'
  <2>1. UNCHANGED <<heard, doc, taken, recorded, left>>
    BY <1>7 DEF P!AnswerOrder
  <2>2. CASE /\ P!Calls(i, "ordering", "loading")
             /\ UNCHANGED <<screen, payPhase, paying, dormant, ticks>>
    BY <2>1, <2>2, CallsMove DEF PayInv, Follows, Owed
  <2>3. CASE P!Calls(i, "ordering", "over") /\ (P!NotSetUp(i) \/ P!Failed(i))
    <3>1. /\ step[i] = "ordering" /\ step' = [j \in Attempts |-> step'[j]]
          /\ step'[i] = "over" /\ \A j \in Attempts \ {i} : step'[j] = step[j]
      BY <2>3, CallsMove
    <3>2. CASE i \notin heard
      BY <2>1, <2>3, <3>1, <3>2, ScreenStands DEF P!NotSetUp, P!Failed, P!Hears, PayInv
    <3>3. CASE i \in heard
      <4>1. /\ screen' = screen /\ paying' = i
            /\ screen = "dialog" => payPhase' \in {"failed", "dormant"}
        BY <2>3, <3>3 DEF P!NotSetUp, P!Failed, P!Hears, P!Enter
      <4> QED BY <2>1, <3>1, <3>3, <4>1 DEF PayInv, Follows, Owed
    <3> QED BY <3>2, <3>3
  <2> QED BY <1>7, <2>2, <2>3 DEF P!AnswerOrder
<1>8. ASSUME NEW i \in Attempts, P!LoadScript(i) PROVE PayInv'
  <2>1. UNCHANGED <<heard, doc, taken, recorded, left>>
    BY <1>8 DEF P!LoadScript
  <2>2. PICK to \in {"window", "over"} : P!Calls(i, "loading", to)
    BY <1>8 DEF P!LoadScript
  <2>3. /\ step[i] = "loading" /\ step' = [j \in Attempts |-> step'[j]]
        /\ step'[i] = to /\ \A j \in Attempts \ {i} : step'[j] = step[j]
    BY <2>2, CallsMove
  <2>4. CASE i \notin heard
    <3>1. UNCHANGED <<screen, payPhase, paying>>
      BY <1>8, <2>4 DEF P!LoadScript, P!Failed, P!Hears
    <3> QED BY <2>1, <2>3, <2>4, <3>1, ScreenStands DEF PayInv
  <2>5. CASE i \in heard
    <3>1. /\ screen' = screen /\ paying' = i
          /\ \/ step'[i] = "window" /\ payPhase' = "checkout"
             \/ step'[i] = "over" /\ (screen = "dialog" => payPhase' = "failed")
      BY <1>8, <2>5, CallsMove DEF P!LoadScript, P!Failed, P!Hears, P!Enter
    <3> QED BY <2>1, <2>3, <2>5, <3>1 DEF PayInv, Follows, Owed
  <2> QED BY <2>4, <2>5
<1>9. ASSUME NEW i \in Attempts, P!Decline(i) PROVE PayInv'
  <2>1. UNCHANGED <<heard, doc, taken, recorded, left>>
    BY <1>9 DEF P!Decline
  <2>2. CASE UNCHANGED <<step, screen, payPhase, paying, dormant, ticks>>
    BY <2>1, <2>2, ScreenStands DEF PayInv
  <2>3. CASE /\ i \in heard /\ screen = "dialog"
             /\ P!Calls(i, "window", "over")
             /\ IF payPhase = "checkout" THEN P!Failed(i)
                ELSE UNCHANGED <<screen, payPhase, paying, dormant, ticks>>
    <3>1. /\ step[i] = "window" /\ step' = [j \in Attempts |-> step'[j]]
          /\ step'[i] = "over" /\ \A j \in Attempts \ {i} : step'[j] = step[j]
      BY <2>3, CallsMove
    <3>2. payPhase = "checkout" /\ paying = i
      BY <2>3, <3>1 DEF PayInv, Follows
    <3>3. screen' = screen /\ payPhase' = "failed" /\ paying' = i
      BY <2>3, <3>2 DEF P!Failed, P!Hears, P!Enter
    <3> QED BY <2>1, <2>3, <3>1, <3>2, <3>3 DEF PayInv, Follows, Owed
  <2> QED BY <1>9, <2>2, <2>3 DEF P!Decline
<1>10. ASSUME NEW i \in Attempts, P!Dismiss(i) PROVE PayInv'
  <2>1. UNCHANGED <<heard, doc, taken, recorded, left>> /\ P!Dismissed(i)
    BY <1>10 DEF P!Dismiss
  <2>2. /\ step' = [j \in Attempts |-> step'[j]]
        /\ \A j \in Attempts \ {i} : step'[j] = step[j]
        /\ \/ step[i] = "window" /\ step'[i] = "over"
           \/ step[i] = "returned" /\ step' = step
    BY <1>10, CallsMove DEF P!Dismiss, PayInv
  <2>3. CASE UNCHANGED <<screen, payPhase, paying>>
    BY <2>1, <2>2, <2>3, ScreenStands DEF PayInv
  <2>4. CASE ~UNCHANGED <<screen, payPhase, paying>>
    <3>1. /\ i \in heard /\ screen' = screen /\ payPhase' = "form" /\ paying' = i
          /\ screen = "lock" \/ payPhase = "checkout"
      BY <2>1, <2>4 DEF P!Dismissed, P!Hears, P!Enter
    <3>2. CASE screen = "lock"
      BY <2>1, <2>2, <3>1, <3>2, LockStands DEF PayInv
    <3>3. CASE screen # "lock"
      BY <2>1, <2>2, <3>1, <3>3 DEF PayInv, Follows, Owed
    <3> QED BY <3>2, <3>3
  <2> QED BY <2>3, <2>4
<1>11. ASSUME NEW i \in Attempts, P!CaptureLate(i) PROVE PayInv'
  BY <1>11, ScreenStands DEF P!CaptureLate, PayInv
<1>12. ASSUME NEW i \in Attempts, P!Pay(i) PROVE PayInv'
  <2>1. /\ UNCHANGED <<heard, doc, recorded>> /\ taken' = taken \cup {i}
        /\ left' = IF i \in heard THEN left ELSE left \cup {i}
    BY <1>12 DEF P!Pay
  <2>2. /\ step[i] = "window" /\ step' = [j \in Attempts |-> step'[j]]
        /\ step'[i] = "returned" /\ \A j \in Attempts \ {i} : step'[j] = step[j]
    BY <1>12, CallsMove DEF P!Pay
  <2>3. CASE i \notin heard
    BY <1>12, <2>1, <2>2, <2>3, ScreenStands DEF P!Pay, P!Hears, PayInv
  <2>4. CASE i \in heard
    <3>1. screen' = screen /\ payPhase' = "verifying" /\ paying' = i
      BY <1>12, <2>4 DEF P!Pay, P!Hears, P!Enter
    <3> QED BY <2>1, <2>2, <2>4, <3>1 DEF PayInv, Follows, Owed
  <2> QED BY <2>3, <2>4
<1>13. ASSUME NEW i \in Attempts, P!Verified(i) PROVE PayInv'
  <2>1. UNCHANGED <<heard, doc, taken, recorded, left>>
    BY <1>13 DEF P!Verified
  <2>2. /\ step[i] = "returned" /\ step' = [j \in Attempts |-> step'[j]]
        /\ step'[i] = "over" /\ \A j \in Attempts \ {i} : step'[j] = step[j]
    BY <1>13, CallsMove DEF P!Verified
  <2>3. CASE i \notin heard
    BY <1>13, <2>1, <2>2, <2>3, ScreenStands DEF P!Verified, P!Hears, PayInv
  <2>4. CASE i \in heard
    <3>1. screen' = screen /\ payPhase' \in {"processing", "unverified"} /\ paying' = i
      BY <1>13, <2>4 DEF P!Verified, P!Hears, P!Enter
    <3> QED BY <2>1, <2>2, <2>4, <3>1 DEF PayInv, Follows, Owed
  <2> QED BY <2>3, <2>4
<1>14. ASSUME NEW i \in Attempts, P!Webhook(i) PROVE PayInv'
  BY <1>14, ScreenStands DEF P!Webhook, PayInv
<1>15. CASE P!Refetch \/ P!Tick
  <2>1. /\ doc'.recorded = recorded /\ UNCHANGED <<step, taken, recorded>>
        /\ P!Show(P!Document)
    BY <1>15 DEF P!Refetch, P!Tick, P!Document
  <2>2. CASE UNCHANGED <<screen, payPhase, paying, heard, left>>
    BY <2>1, <2>2 DEF PayInv, Follows, Owed
  <2>3. CASE heard' = {} /\ left' = left \cup (heard \cap taken)
    BY <2>1, <2>3, ScreenGoes DEF PayInv
  <2> QED BY <2>1, <2>2, <2>3 DEF P!Show, P!Lost
<1>16. CASE P!Settle
  BY <1>16 DEF P!Settle, P!Waiting, P!Enter, PayInv, Follows, Owed
<1>17. CASE P!FallDue
  BY <1>17, ScreenStands DEF P!FallDue, PayInv
<1>18. CASE P!Reload
  <2>1. doc'.recorded = recorded
    BY <1>18 DEF P!Reload, P!Document
  <2> QED BY <1>18, <2>1, ScreenGoes DEF P!Reload, P!Lost
<1> QED
  BY <1>1, <1>2, <1>3, <1>4, <1>5, <1>6, <1>7, <1>8, <1>9, <1>10, <1>11, <1>12, <1>13,
     <1>14, <1>15, <1>16, <1>17, <1>18 DEF P!Next, P!Attempt

\* The dialog never offers to pay again while a payment it saw go through has not reached
\* the ledger, for any number of attempts, polls and reloads and whatever closes, declines
\* and answers come late (pay-dialog.tsx, modal.ondismiss).
THEOREM AskedOnce == PartsSpec => []NotAskedTwice
<1>1. PartsInit => PayInv
  <2> SUFFICES ASSUME P!Init PROVE PayInv
    BY DEF PartsInit
  <2> QED BY DEF P!Init, PayInv, P!Document
<1>2. PayInv /\ [PartsNext]_allVars => PayInv'
  BY PayKeeps, PartsMove
<1>3. PayInv => NotAskedTwice
  BY DEF PayInv, Follows, Owed, NotAskedTwice, P!NotAskedTwice, P!Offered
<1> QED BY <1>1, <1>2, <1>3, PTL DEF PartsSpec

-----------------------------------------------------------------------------
(***************************************************************************)
(* The replay.                                                             *)
(***************************************************************************)

\* Induction up to a bound, by the least counterexample.
LEMMA UpToBound ==
    ASSUME NEW bound \in Nat, NEW good \in SUBSET (0..bound),
           0 \in good, \A n \in 0..bound : n > 0 /\ n - 1 \in good => n \in good
    PROVE  good = 0..bound
<1> DEFINE bad == (0..bound) \ good
<1> SUFFICES ASSUME bad # {} PROVE FALSE
  OBVIOUS
<1>1. bad \in SUBSET Nat
  OBVIOUS
<1>2. PICK m \in bad : \A k \in bad : m <= k
  <2> HIDE DEF bad
  <2> QED BY <1>1, LeastExists
<1>3. m \in 0..bound /\ m # 0 /\ m \notin good
  OBVIOUS
<1>4. m - 1 \in 0..bound /\ ~(m <= m - 1) /\ m > 0
  BY <1>3
<1>5. m - 1 \in good
  BY <1>2, <1>4
<1> QED BY <1>3, <1>4, <1>5

\* An order on a finite set, as a relation.
Orders(R, set) ==
    /\ \A a, b \in set : a # b => <<a, b>> \in R \/ <<b, a>> \in R
    /\ \A a, b, c \in set : <<a, b>> \in R /\ <<b, c>> \in R => <<a, c>> \in R

\* A sequence of the set, each once, in that order.
InOrder(R, set, s) ==
    /\ s \in [1..Cardinality(set) -> set] /\ {s[i] : i \in DOMAIN s} = set
    /\ \A i, j \in DOMAIN s : i < j => s[i] # s[j] /\ <<s[i], s[j]>> \in R

\* In an order a finite set has a last element,
LEMMA LastExists ==
    ASSUME NEW set, IsFiniteSet(set), set # {}, NEW R, Orders(R, set)
    PROVE  \E x \in set : \A y \in set \ {x} : <<y, x>> \in R
<1> DEFINE bound == Cardinality(set)
           HasLast(sub) == \E x \in sub : \A y \in sub \ {x} : <<y, x>> \in R
           good == {n \in 0..bound : \A sub \in SUBSET set :
                       Cardinality(sub) = n /\ sub # {} => HasLast(sub)}
<1>1. bound \in Nat
  BY FS_CardinalityType
<1>2. 0 \in good
  <2>1. ASSUME NEW sub \in SUBSET set, Cardinality(sub) = 0 PROVE sub = {}
    BY <2>1, FS_Subset, FS_EmptySet
  <2> HIDE DEF HasLast
  <2> QED BY <1>1, <2>1
<1>3. ASSUME NEW n \in 0..bound, n > 0, n - 1 \in good PROVE n \in good
  <2> SUFFICES ASSUME NEW sub \in SUBSET set, Cardinality(sub) = n, sub # {}
               PROVE  HasLast(sub)
    OBVIOUS
  <2>1. PICK x \in sub : TRUE
    OBVIOUS
  <2> DEFINE rest == sub \ {x}
  <2>2. rest \in SUBSET set /\ Cardinality(rest) = n - 1
    BY <2>1, FS_Subset, FS_RemoveElement
  <2>3. CASE rest = {}
    BY <2>1, <2>3
  <2>4. CASE rest # {}
    <3>1. HasLast(rest)
      <4> HIDE DEF HasLast, rest
      <4> QED BY <1>3, <2>2, <2>4
    <3>2. PICK y \in rest : \A z \in rest \ {y} : <<z, y>> \in R
      BY <3>1
    <3>3. CASE <<x, y>> \in R
      <4>1. \A z \in sub \ {y} : <<z, y>> \in R
        BY <3>2, <3>3
      <4> QED BY <4>1
    <3>4. CASE <<x, y>> \notin R
      <4>1. <<y, x>> \in R
        BY <3>4 DEF Orders
      <4>2. \A z \in sub \ {x} : <<z, x>> \in R
        BY <3>2, <4>1 DEF Orders
      <4> QED BY <4>2
    <3> QED BY <3>3, <3>4
  <2> QED BY <2>3, <2>4
<1>4. bound \in good
  <2>1. good = 0..bound
    <3>1. good \in SUBSET (0..bound)
      OBVIOUS
    <3> HIDE DEF good, bound
    <3> QED BY <1>1, <1>2, <1>3, <3>1, UpToBound
  <2> HIDE DEF good
  <2> QED BY <1>1, <2>1
<1>5. HasLast(set)
  <2> HIDE DEF HasLast
  <2> QED BY <1>4
<1> QED BY <1>5

\* so that it can be put in order.
LEMMA SortedExists ==
    ASSUME NEW set, IsFiniteSet(set), NEW R, Orders(R, set)
    PROVE  \E s : InOrder(R, set, s)
<1> DEFINE bound == Cardinality(set)
           good == {n \in 0..bound : \A sub \in SUBSET set :
                       Cardinality(sub) = n => \E s : InOrder(R, sub, s)}
<1>1. bound \in Nat
  BY FS_CardinalityType
<1>2. 0 \in good
  <2>1. ASSUME NEW sub \in SUBSET set, Cardinality(sub) = 0
        PROVE  InOrder(R, sub, [i \in 1..0 |-> i])
    <3>1. sub = {}
      BY <2>1, FS_Subset, FS_EmptySet
    <3> QED BY <2>1, <3>1 DEF InOrder
  <2> QED BY <1>1, <2>1
<1>3. ASSUME NEW n \in 0..bound, n > 0, n - 1 \in good PROVE n \in good
  <2> SUFFICES ASSUME NEW sub \in SUBSET set, Cardinality(sub) = n
               PROVE  \E s : InOrder(R, sub, s)
    OBVIOUS
  <2>1. IsFiniteSet(sub) /\ sub # {} /\ Orders(R, sub)
    <3>1. IsFiniteSet(sub) /\ sub # {}
      BY <1>3, FS_Subset, FS_EmptySet
    <3> QED BY <3>1 DEF Orders
  <2>2. PICK x \in sub : \A y \in sub \ {x} : <<y, x>> \in R
    BY <2>1, LastExists
  <2> DEFINE rest == sub \ {x}
  <2>3. rest \in SUBSET set /\ Cardinality(rest) = n - 1
    BY <2>1, FS_RemoveElement
  <2>4. PICK s : InOrder(R, rest, s)
    <3> HIDE DEF rest
    <3> QED BY <1>3, <2>3
  <2>5. /\ s \in [1..(n - 1) -> rest] /\ {s[i] : i \in 1..(n - 1)} = rest
        /\ \A i, j \in 1..(n - 1) : i < j => s[i] # s[j] /\ <<s[i], s[j]>> \in R
    BY <2>3, <2>4 DEF InOrder
  <2> DEFINE t == [i \in 1..n |-> IF i = n THEN x ELSE s[i]]
  <2>6. /\ n \in 1..n /\ t[n] = x
        /\ \A i \in 1..n : i = n \/ (i \in 1..(n - 1) /\ t[i] = s[i] /\ t[i] \in rest)
    BY <1>3, <2>5
  <2>7. t \in [1..n -> sub]
    BY <2>5
  <2>8. {t[i] : i \in 1..n} = sub
    <3>1. ASSUME NEW y \in sub PROVE \E i \in 1..n : t[i] = y
      <4>1. CASE y = x
        BY <2>6, <4>1
      <4>2. CASE y # x
        <5>1. PICK i \in 1..(n - 1) : s[i] = y
          BY <2>5, <4>2
        <5>2. i \in 1..n /\ t[i] = y
          BY <1>3, <5>1
        <5> QED BY <5>2
      <4> QED BY <4>1, <4>2
    <3> HIDE DEF t
    <3> QED BY <2>7, <3>1
  <2>9. ASSUME NEW i \in 1..n, NEW j \in 1..n, i < j
        PROVE  t[i] # t[j] /\ <<t[i], t[j]>> \in R
    <3>1. i \in 1..(n - 1) /\ t[i] = s[i] /\ t[i] \in rest
      BY <2>6, <2>9
    <3> HIDE DEF t
    <3>2. CASE j = n
      BY <2>2, <2>6, <3>1, <3>2
    <3>3. CASE j # n
      BY <2>5, <2>6, <2>9, <3>1, <3>3
    <3> QED BY <3>2, <3>3
  <2>10. InOrder(R, sub, t)
    <3> HIDE DEF t
    <3> QED BY <2>7, <2>8, <2>9 DEF InOrder
  <2> QED BY <2>10
<1>4. bound \in good
  <2>1. good = 0..bound
    <3>1. good \in SUBSET (0..bound)
      OBVIOUS
    <3> HIDE DEF good, bound
    <3> QED BY <1>1, <1>2, <1>3, <3>1, UpToBound
  <2> HIDE DEF good
  <2> QED BY <1>1, <2>1
<1> QED BY <1>4

-----------------------------------------------------------------------------
\* Intervals that are not empty, and sequences of them that do not touch.
Pairs == {iv \in Int \X Int : iv[1] < iv[2]}
\* An interval is under way at a moment.
Holds(ivs, t) == \E iv \in ivs : iv[1] <= t /\ t < iv[2]

\* None begins before the one before it has ended.
Separate(out) ==
    /\ out \in Seq(Pairs)
    /\ \A i, j \in 1..Len(out) : i < j => out[i][2] < out[j][1]

\* They are under way when some of those seen is, and begin where one does.
TellsOf(out, seen) ==
    /\ \A t \in Int : Holds({out[i] : i \in 1..Len(out)}, t) <=> Holds(seen, t)
    /\ \A i \in 1..Len(out) : \E iv \in seen : out[i][1] = iv[1]

\* The greater of two numbers,
LEMMA GreaterOfTwo ==
    ASSUME NEW a \in Int, NEW b \in Int
    PROVE  H!Max({a, b}) = IF a >= b THEN a ELSE b
<1>1. \E x \in {a, b} : \A y \in {a, b} : x >= y
  <2>1. CASE a >= b
    BY <2>1
  <2>2. CASE b >= a
    BY <2>2
  <2> QED BY <2>1, <2>2
<1>2. H!Max({a, b}) \in {a, b} /\ \A y \in {a, b} : H!Max({a, b}) >= y
  BY <1>1 DEF H!Max
<1> QED BY <1>2

\* and the lesser.
LEMMA LesserOfTwo ==
    ASSUME NEW a \in Int, NEW b \in Int
    PROVE  H!Min({a, b}) = IF a <= b THEN a ELSE b
<1>1. \E x \in {a, b} : \A y \in {a, b} : x =< y
  <2>1. CASE a <= b
    BY <2>1
  <2>2. CASE b <= a
    BY <2>2
  <2> QED BY <2>1, <2>2
<1>2. H!Min({a, b}) \in {a, b} /\ \A y \in {a, b} : H!Min({a, b}) =< y
  BY <1>1 DEF H!Min
<1> QED BY <1>2

\* One interval more, that begins no earlier.
LEMMA MergedTells ==
    ASSUME NEW out, NEW seen \in SUBSET Pairs, Separate(out), TellsOf(out, seen),
           NEW iv \in Pairs, \A x \in seen : x[1] <= iv[1]
    PROVE  Separate(H!Merged(out, iv)) /\ TellsOf(H!Merged(out, iv), seen \cup {iv})
<1> DEFINE n == Len(out)
           new == H!Merged(out, iv)
<1>1. /\ n \in Nat /\ out \in [1..n -> Pairs]
      /\ \A i \in 1..n : out[i] = <<out[i][1], out[i][2]>> /\ out[i][1] \in Int
                         /\ out[i][2] \in Int /\ out[i][1] < out[i][2]
      /\ iv[1] \in Int /\ iv[2] \in Int /\ iv[1] < iv[2]
  BY DEF Separate, Pairs
<1>2. \A i \in 1..n : out[i][1] <= iv[1]
  BY <1>1 DEF TellsOf, Pairs
<1>3. CASE out # <<>> /\ iv[1] <= H!Last(out)[2]
  <2> DEFINE late == IF out[n][2] >= iv[2] THEN out[n][2] ELSE iv[2]
             one == <<out[n][1], late>>
  <2>1. n > 0 /\ n \in 1..n /\ H!Last(out) = out[n]
    BY <1>1, <1>3, EmptySeq DEF H!Last, Separate
  <2>2. one \in Pairs /\ late \in Int /\ one[1] = out[n][1] /\ one[2] = late
    BY <1>1, <2>1 DEF Pairs
  <2>3. new = Append(H!Front(out), one)
    BY <1>1, <1>3, <2>1, GreaterOfTwo DEF H!Merged
  <2>4. /\ H!Front(out) \in Seq(Pairs) /\ Len(H!Front(out)) = n - 1
        /\ \A i \in 1..(n - 1) : H!Front(out)[i] = out[i]
    <3>1. \A i \in 1..(n - 1) : out[i] \in Pairs
      BY <1>1
    <3>2. H!Front(out) = SubSeq(out, 1, n - 1)
      BY DEF H!Front
    <3>3. /\ SubSeq(out, 1, n - 1) \in Seq(Pairs)
          /\ Len(SubSeq(out, 1, n - 1)) = IF 1 <= n - 1 THEN n - 1 - 1 + 1 ELSE 0
          /\ \A i \in 1..(n - 1 - 1 + 1) : SubSeq(out, 1, n - 1)[i] = out[1 + i - 1]
      BY <1>1, <3>1, SubSeqProperties
    <3> HIDE DEF n
    <3> QED BY <1>1, <2>1, <3>2, <3>3
  <2>5. /\ new \in Seq(Pairs) /\ Len(new) = n
        /\ \A i \in 1..(n - 1) : new[i] = out[i]
        /\ new[n] = one
    <3> HIDE DEF new, one, n
    <3> QED BY <1>1, <2>1, <2>2, <2>3, <2>4, AppendProperties
  <2> HIDE DEF new, one, late, n
  <2>6. \A i \in 1..n : i = n \/ i \in 1..(n - 1)
    BY <1>1
  <2>7. Separate(new)
    <3> SUFFICES ASSUME NEW i \in 1..n, NEW j \in 1..n, i < j
                 PROVE  new[i][2] < new[j][1]
      BY <2>5 DEF Separate
    <3>1. i \in 1..(n - 1) /\ new[i] = out[i]
      BY <1>1, <2>5
    <3>2. new[j][1] = out[j][1]
      BY <2>2, <2>5, <2>6
    <3>3. out[i][2] < out[j][1]
      BY DEF Separate, n
    <3> QED BY <3>1, <3>2, <3>3
  <2>8. ASSUME NEW t \in Int
        PROVE  Holds({new[i] : i \in 1..n}, t) <=> Holds(seen \cup {iv}, t)
    <3>1. Holds({out[i] : i \in 1..n}, t) <=> Holds(seen, t)
      BY DEF TellsOf, n
    <3>2. Holds(seen \cup {iv}, t) <=>
             (\E i \in 1..n : out[i][1] <= t /\ t < out[i][2]) \/ (iv[1] <= t /\ t < iv[2])
      BY <3>1 DEF Holds
    <3>3. (one[1] <= t /\ t < one[2]) <=>
             (out[n][1] <= t /\ t < out[n][2]) \/ (iv[1] <= t /\ t < iv[2])
      BY <1>1, <1>2, <1>3, <2>1, <2>2 DEF late
    <3>4. Holds({new[i] : i \in 1..n}, t) <=>
             (\E i \in 1..(n - 1) : out[i][1] <= t /\ t < out[i][2])
             \/ (one[1] <= t /\ t < one[2])
      <4>1. Holds({new[i] : i \in 1..n}, t) <=>
               \E i \in 1..n : new[i][1] <= t /\ t < new[i][2]
        BY DEF Holds
      <4>2. \A i \in 1..(n - 1) : i \in 1..n
        BY <1>1
      <4> QED BY <2>1, <2>5, <2>6, <4>1, <4>2
    <3>5. \A i \in 1..(n - 1) : i \in 1..n
      BY <1>1
    <3> QED BY <2>1, <2>6, <3>2, <3>3, <3>4, <3>5
  <2>9. ASSUME NEW i \in 1..n PROVE \E x \in seen \cup {iv} : new[i][1] = x[1]
    <3>1. new[i][1] = out[i][1]
      BY <2>2, <2>5, <2>6
    <3>2. \E x \in seen : out[i][1] = x[1]
      BY DEF TellsOf, n
    <3> QED BY <3>1, <3>2
  <2>10. TellsOf(new, seen \cup {iv})
    BY <2>5, <2>8, <2>9 DEF TellsOf
  <2> QED BY <2>7, <2>10 DEF new
<1>4. CASE ~(out # <<>> /\ iv[1] <= H!Last(out)[2])
  <2>1. new = Append(out, iv)
    BY <1>4 DEF H!Merged
  <2>2. /\ new \in Seq(Pairs) /\ Len(new) = n + 1
        /\ \A i \in 1..n : new[i] = out[i]
        /\ new[n + 1] = iv
    <3> HIDE DEF new
    <3> QED BY <1>1, <2>1, AppendProperties DEF Separate
  <2>3. ASSUME NEW i \in 1..n PROVE out[i][2] < iv[1]
    <3>1. out # <<>> /\ n \in 1..n
      BY <1>1 DEF Separate
    <3>2. out[n][2] < iv[1]
      BY <1>1, <1>4, <3>1 DEF H!Last
    <3>3. CASE i = n
      BY <3>2, <3>3
    <3>4. CASE i # n
      <4>1. i < n
        BY <1>1, <3>4
      <4>2. out[i][2] < out[n][1]
        BY <3>1, <4>1 DEF Separate
      <4> QED BY <1>1, <3>1, <3>2, <4>2
    <3> QED BY <3>3, <3>4
  <2> HIDE DEF new, n
  <2>4. \A i \in 1..(n + 1) : i = n + 1 \/ i \in 1..n
    BY <1>1
  <2>5. Separate(new)
    <3> SUFFICES ASSUME NEW i \in 1..(n + 1), NEW j \in 1..(n + 1), i < j
                 PROVE  new[i][2] < new[j][1]
      BY <2>2 DEF Separate
    <3>1. i \in 1..n /\ new[i] = out[i]
      BY <1>1, <2>2
    <3>2. CASE j = n + 1
      BY <2>2, <2>3, <3>1, <3>2
    <3>3. CASE j # n + 1
      <4>1. j \in 1..n /\ new[j] = out[j]
        BY <2>2, <2>4, <3>3
      <4>2. out[i][2] < out[j][1]
        BY <3>1, <4>1 DEF Separate, n
      <4> QED BY <3>1, <4>1, <4>2
    <3> QED BY <3>2, <3>3
  <2>6. \A i \in 1..n : i \in 1..(n + 1)
    BY <1>1
  <2>7. n + 1 \in 1..(n + 1)
    BY <1>1
  <2>8. ASSUME NEW t \in Int
        PROVE  Holds({new[i] : i \in 1..(n + 1)}, t) <=> Holds(seen \cup {iv}, t)
    <3>1. Holds({out[i] : i \in 1..n}, t) <=> Holds(seen, t)
      BY DEF TellsOf, n
    <3>2. Holds(seen \cup {iv}, t) <=>
             (\E i \in 1..n : out[i][1] <= t /\ t < out[i][2]) \/ (iv[1] <= t /\ t < iv[2])
      BY <3>1 DEF Holds
    <3>3. Holds({new[i] : i \in 1..(n + 1)}, t) <=>
               \E i \in 1..(n + 1) : new[i][1] <= t /\ t < new[i][2]
      BY DEF Holds
    <3> QED BY <2>2, <2>4, <2>6, <2>7, <3>2, <3>3
  <2>9. ASSUME NEW i \in 1..(n + 1) PROVE \E x \in seen \cup {iv} : new[i][1] = x[1]
    <3>1. CASE i = n + 1
      BY <2>2, <3>1
    <3>2. CASE i # n + 1
      <4>1. i \in 1..n /\ new[i] = out[i]
        BY <2>2, <2>4, <3>2
      <4>2. \E x \in seen : out[i][1] = x[1]
        BY <4>1 DEF TellsOf, n
      <4> QED BY <4>1, <4>2
    <3> QED BY <3>1, <3>2
  <2>10. TellsOf(new, seen \cup {iv})
    BY <2>2, <2>8, <2>9 DEF TellsOf
  <2> QED BY <2>5, <2>10 DEF new
<1> QED BY <1>3, <1>4

\* The intervals of an answer are put in order by their beginnings.
LEMMA SortedIsInOrder ==
    ASSUME NEW ivs \in SUBSET Pairs, IsFiniteSet(ivs)
    PROVE  /\ H!Sorted(ivs) \in Seq(ivs)
           /\ {H!Sorted(ivs)[i] : i \in 1..Len(H!Sorted(ivs))} = ivs
           /\ \A i, j \in 1..Len(H!Sorted(ivs)) :
                 i < j => H!Sorted(ivs)[i][1] <= H!Sorted(ivs)[j][1]
<1> DEFINE R == {e \in ivs \X ivs : H!Earlier(e[1], e[2])}
           n == Cardinality(ivs)
           Good(s) == /\ H!ToSet(s) = ivs
                      /\ \A i, j \in DOMAIN s : i < j => H!Earlier(s[i], s[j])
<1>1. Orders(R, ivs)
  <2>1. ASSUME NEW a \in ivs, NEW b \in ivs
        PROVE  H!Earlier(a, b) \/ H!Earlier(b, a)
    BY DEF Pairs, H!Earlier
  <2>2. ASSUME NEW a \in ivs, NEW b \in ivs, NEW c \in ivs,
               H!Earlier(a, b), H!Earlier(b, c)
        PROVE  H!Earlier(a, c)
    BY <2>2 DEF Pairs, H!Earlier
  <2> QED BY <2>1, <2>2 DEF Orders
<1>2. PICK s : InOrder(R, ivs, s)
  <2> HIDE DEF R
  <2> QED BY <1>1, SortedExists
<1>3. s \in [1..n -> ivs] /\ Good(s)
  <2>1. s \in [1..n -> ivs] /\ DOMAIN s = 1..n
    BY <1>2 DEF InOrder
  <2>2. \A i, j \in DOMAIN s : i < j => H!Earlier(s[i], s[j])
    BY <1>2 DEF InOrder
  <2> QED BY <1>2, <2>1, <2>2 DEF InOrder, H!ToSet
<1>4. n = H!Cardinality(ivs) /\ n \in Nat
  BY FS_CardinalityType DEF Cardinality, H!Cardinality, IsFiniteSet, H!IsFiniteSet
<1>5. H!Sorted(ivs) = CHOOSE r \in [1..n -> ivs] : Good(r)
  BY <1>4 DEF H!Sorted
<1> DEFINE m == H!Sorted(ivs)
<1>6. m \in [1..n -> ivs] /\ Good(m)
  <2> HIDE DEF Good, n
  <2> QED BY <1>3, <1>5
<1>7. m \in Seq(ivs) /\ Len(m) = n /\ DOMAIN m = 1..n
  BY <1>4, <1>6
<1>8. {m[i] : i \in 1..n} = ivs
  BY <1>6, <1>7 DEF H!ToSet
<1>9. \A i, j \in 1..n : i < j => m[i][1] <= m[j][1]
  <2> SUFFICES ASSUME NEW i \in 1..n, NEW j \in 1..n, i < j PROVE m[i][1] <= m[j][1]
    OBVIOUS
  <2>1. H!Earlier(m[i], m[j]) /\ m[i] \in ivs /\ m[j] \in ivs
    BY <1>6, <1>7
  <2> HIDE DEF m
  <2> QED BY <2>1 DEF H!Earlier, Pairs
<1> QED BY <1>7, <1>8, <1>9

-----------------------------------------------------------------------------
\* The first of a sequence.
Seen(raw, n) == {raw[i] : i \in 1..n}

\* The walk of merge keeps its intervals apart, and they hold what has been seen.
LEMMA MergeTells ==
    ASSUME NEW ivs \in SUBSET Pairs, IsFiniteSet(ivs)
    PROVE  Separate(H!merge(ivs)) /\ TellsOf(H!merge(ivs), ivs)
<1> DEFINE raw == H!Sorted(ivs)
           n == Len(raw)
           Unfolds(g) == g = [i \in 0..n |-> IF i = 0 THEN <<>>
                                              ELSE H!Merged(g[i - 1], raw[i])]
           Walk(k, g) == /\ DOMAIN g = 0..k /\ g[0] = <<>>
                         /\ \A i \in 1..k : g[i] = H!Merged(g[i - 1], raw[i])
           out == CHOOSE g : Unfolds(g)
<1>1. /\ n \in Nat /\ \A i \in 1..n : raw[i] \in Pairs
      /\ Seen(raw, n) = ivs
      /\ \A i, j \in 1..n : i < j => raw[i][1] <= raw[j][1]
  BY SortedIsInOrder DEF Seen
<1>2. H!merge(ivs) = out[n]
  BY DEF H!merge
<1> HIDE DEF raw, n
<1>3. \E g : Unfolds(g)
  <2> DEFINE good == {k \in 0..n : \E g : Walk(k, g)}
  <2>1. 0 \in good
    <3>1. Walk(0, [i \in 0..0 |-> <<>>])
      OBVIOUS
    <3> HIDE DEF Walk
    <3> QED BY <1>1, <3>1
  <2>2. ASSUME NEW k \in 0..n, k > 0, k - 1 \in good PROVE k \in good
    <3>1. PICK g : Walk(k - 1, g)
      BY <2>2
    <3> DEFINE h == [i \in 0..k |-> IF i = k THEN H!Merged(g[k - 1], raw[k]) ELSE g[i]]
    <3>2. \A i \in 0..k : i # k => i \in 0..(k - 1)
      BY <1>1
    <3>3. h[k] = H!Merged(g[k - 1], raw[k]) /\ \A i \in 0..(k - 1) : h[i] = g[i]
      BY <1>1, <2>2
    <3>4. \A i \in 1..k : i - 1 \in 0..(k - 1) /\ (i # k => i \in 1..(k - 1))
      BY <1>1
    <3>5. DOMAIN h = 0..k /\ 0 \in 0..(k - 1) /\ k - 1 \in 0..(k - 1)
      BY <1>1, <2>2
    <3> HIDE DEF h
    <3>6. \A i \in 1..k : h[i] = H!Merged(h[i - 1], raw[i])
      BY <3>1, <3>3, <3>4, <3>5
    <3>7. Walk(k, h)
      BY <3>1, <3>3, <3>5, <3>6
    <3> HIDE DEF Walk
    <3> QED BY <3>7
  <2>3. good = 0..n
    <3>1. good \in SUBSET (0..n)
      OBVIOUS
    <3> HIDE DEF good
    <3> QED BY <1>1, <2>1, <2>2, <3>1, UpToBound
  <2>4. PICK g : Walk(n, g)
    <3>1. n \in good
      BY <1>1, <2>3
    <3> QED BY <3>1
  <2> DEFINE h == [i \in 0..n |-> g[i]]
  <2>5. h = [i \in 0..n |-> IF i = 0 THEN <<>> ELSE H!Merged(h[i - 1], raw[i])]
    <3>1. ASSUME NEW i \in 0..n
          PROVE  h[i] = IF i = 0 THEN <<>> ELSE H!Merged(h[i - 1], raw[i])
      <4>1. CASE i = 0
        BY <2>4, <4>1
      <4>2. CASE i # 0
        <5>1. i \in 1..n /\ i - 1 \in 0..n
          BY <1>1, <4>2
        <5>2. g[i] = H!Merged(g[i - 1], raw[i])
          BY <2>4, <5>1
        <5> QED BY <4>2, <5>1, <5>2
      <4> QED BY <4>1, <4>2
    <3> QED BY <3>1
  <2> HIDE DEF h
  <2>6. Unfolds(h)
    BY <2>5
  <2> HIDE DEF Unfolds
  <2> QED BY <2>6
<1>4. Unfolds(out)
  <2> HIDE DEF Unfolds
  <2> QED BY <1>3
<1> HIDE DEF out
<1>5. out[0] = <<>> /\ \A i \in 1..n : out[i] = H!Merged(out[i - 1], raw[i])
  <2>1. \A i \in 0..n : out[i] = IF i = 0 THEN <<>> ELSE H!Merged(out[i - 1], raw[i])
    BY <1>4
  <2>2. 0 \in 0..n /\ \A i \in 1..n : i \in 0..n /\ i # 0
    BY <1>1
  <2> QED BY <2>1, <2>2
<1> DEFINE good == {k \in 0..n : Separate(out[k]) /\ TellsOf(out[k], Seen(raw, k))}
<1>6. 0 \in good
  <2>1. out[0] = <<>> /\ Seen(raw, 0) = {} /\ 1..0 = {} /\ 0 \in 0..n
    BY <1>1, <1>5 DEF Seen
  <2>2. <<>> \in Seq(Pairs) /\ Len(<<>>) = 0
    OBVIOUS
  <2>3. Separate(<<>>)
    BY <2>1, <2>2 DEF Separate
  <2>4. TellsOf(<<>>, {})
    BY <2>1, <2>2 DEF TellsOf, Holds
  <2> QED BY <2>1, <2>3, <2>4
<1>7. ASSUME NEW k \in 0..n, k > 0, k - 1 \in good PROVE k \in good
  <2>1. k \in 1..n /\ k - 1 \in 0..n
    BY <1>1, <1>7
  <2>2. Separate(out[k - 1]) /\ TellsOf(out[k - 1], Seen(raw, k - 1))
    BY <1>7
  <2>3. Seen(raw, k - 1) \in SUBSET Pairs /\ raw[k] \in Pairs
    <3>1. \A i \in 1..(k - 1) : i \in 1..n
      BY <1>1
    <3> QED BY <1>1, <2>1, <3>1 DEF Seen
  <2>4. \A x \in Seen(raw, k - 1) : x[1] <= raw[k][1]
    <3>1. \A i \in 1..(k - 1) : i \in 1..n /\ i < k
      BY <1>1
    <3> QED BY <1>1, <2>1, <3>1 DEF Seen
  <2>5. Seen(raw, k) = Seen(raw, k - 1) \cup {raw[k]}
    <3>1. 1..k = 1..(k - 1) \cup {k}
      BY <1>1, <2>1
    <3> QED BY <3>1 DEF Seen
  <2>6. Separate(out[k]) /\ TellsOf(out[k], Seen(raw, k))
    <3>1. /\ Separate(H!Merged(out[k - 1], raw[k]))
          /\ TellsOf(H!Merged(out[k - 1], raw[k]), Seen(raw, k - 1) \cup {raw[k]})
      BY <2>2, <2>3, <2>4, MergedTells
    <3>2. out[k] = H!Merged(out[k - 1], raw[k])
      BY <1>5, <2>1
    <3> QED BY <2>5, <3>1, <3>2
  <2> QED BY <2>6
<1>8. good = 0..n
  <2>1. good \in SUBSET (0..n)
    OBVIOUS
  <2> HIDE DEF good
  <2> QED BY <1>1, <1>6, <1>7, <2>1, UpToBound
<1>9. n \in good
  BY <1>1, <1>8
<1> QED BY <1>1, <1>2, <1>9

\* Of numbers within bounds, the greatest
LEMMA GreatestOfSome ==
    ASSUME NEW lo \in Int, NEW hi \in Int, NEW set \in SUBSET (lo..hi), set # {}
    PROVE  H!Max(set) \in set /\ \A n \in set : H!Max(set) >= n
<1> DEFINE down == {hi - n : n \in set}
<1>1. down \in SUBSET Nat /\ down # {}
  <2>1. ASSUME NEW n \in set PROVE hi - n \in Nat
    OBVIOUS
  <2> QED BY <2>1
<1>2. PICK k \in down : \A l \in down : k <= l
  <2> HIDE DEF down
  <2> QED BY <1>1, LeastExists
<1>3. PICK m \in set : k = hi - m
  OBVIOUS
<1>4. ASSUME NEW n \in set PROVE m >= n
  <2>1. hi - n \in down
    OBVIOUS
  <2>2. hi - m <= hi - n
    BY <1>2, <1>3, <2>1
  <2>3. m \in Int /\ n \in Int
    OBVIOUS
  <2> QED BY <2>2, <2>3
<1>5. \E x \in set : \A y \in set : x >= y
  BY <1>4
<1> QED BY <1>5 DEF H!Max

\* and the least.
LEMMA LeastOfSome ==
    ASSUME NEW lo \in Int, NEW hi \in Int, NEW set \in SUBSET (lo..hi), set # {}
    PROVE  H!Min(set) \in set /\ \A n \in set : H!Min(set) =< n
<1> DEFINE up == {n - lo : n \in set}
<1>1. up \in SUBSET Nat /\ up # {}
  <2>1. ASSUME NEW n \in set PROVE n - lo \in Nat
    OBVIOUS
  <2> QED BY <2>1
<1>2. PICK k \in up : \A l \in up : k <= l
  <2> HIDE DEF up
  <2> QED BY <1>1, LeastExists
<1>3. PICK m \in set : k = m - lo
  OBVIOUS
<1>4. ASSUME NEW n \in set PROVE m =< n
  <2>1. n - lo \in up
    OBVIOUS
  <2>2. m - lo <= n - lo
    BY <1>2, <1>3, <2>1
  <2>3. m \in Int /\ n \in Int
    OBVIOUS
  <2> QED BY <2>2, <2>3
<1>5. \E x \in set : \A y \in set : x =< y
  BY <1>4
<1> QED BY <1>5 DEF H!Min

\* The search finds the interval that holds a moment, where they are apart.
LEMMA CoversHolds ==
    ASSUME NEW ivs, Separate(ivs), NEW t \in Int
    PROVE  H!covers(ivs, t) <=> Holds({ivs[i] : i \in 1..Len(ivs)}, t)
<1> DEFINE n == Len(ivs)
           begun == {i \in DOMAIN ivs : ivs[i][1] <= t}
           last == H!Max(begun)
<1>1. /\ n \in Nat /\ DOMAIN ivs = 1..n
      /\ \A i \in 1..n : /\ ivs[i][1] \in Int /\ ivs[i][2] \in Int
                         /\ ivs[i][1] < ivs[i][2]
      /\ \A i, j \in 1..n : i < j => ivs[i][2] < ivs[j][1]
  <2>1. ivs \in Seq(Pairs) /\ \A i, j \in 1..n : i < j => ivs[i][2] < ivs[j][1]
    BY DEF Separate
  <2>2. n \in Nat /\ DOMAIN ivs = 1..n /\ \A i \in 1..n : ivs[i] \in Pairs
    BY <2>1
  <2>3. \A p \in Pairs : p[1] \in Int /\ p[2] \in Int /\ p[1] < p[2]
    BY DEF Pairs
  <2> QED BY <2>1, <2>2, <2>3
<1>2. begun \in SUBSET (1..n) /\ \A i \in 1..n : i \in begun <=> ivs[i][1] <= t
  BY <1>1
<1>3. H!covers(ivs, t) <=> begun # {} /\ t < ivs[last][2]
  BY DEF H!covers
<1>4. begun # {} => last \in begun /\ \A i \in begun : last >= i
  <2> SUFFICES ASSUME begun # {} PROVE H!Max(begun) \in begun /\ \A i \in begun : H!Max(begun) >= i
    OBVIOUS
  <2> HIDE DEF begun, n
  <2>1. begun \in SUBSET (1..n) /\ 1 \in Int /\ n \in Int
    BY <1>1, <1>2
  <2> QED BY <2>1, GreatestOfSome
<1>5. Holds({ivs[i] : i \in 1..n}, t) <=> \E i \in 1..n : ivs[i][1] <= t /\ t < ivs[i][2]
  BY DEF Holds
<1> HIDE DEF begun, n, last
<1>6. ASSUME begun # {}, t < ivs[last][2]
      PROVE  \E i \in 1..n : ivs[i][1] <= t /\ t < ivs[i][2]
  BY <1>2, <1>4, <1>6
<1>7. ASSUME NEW i \in 1..n, ivs[i][1] <= t, t < ivs[i][2]
      PROVE  begun # {} /\ t < ivs[last][2]
  <2>1. i \in begun /\ last \in 1..n /\ last >= i /\ ivs[last][1] <= t
    BY <1>2, <1>4, <1>7
  <2>2. ~(i < last)
    <3> SUFFICES ASSUME i < last PROVE FALSE
      OBVIOUS
    <3>1. ivs[i][2] < ivs[last][1]
      BY <1>1, <2>1
    <3> QED BY <1>1, <1>7, <2>1, <3>1
  <2>3. i = last
    BY <1>1, <2>1, <2>2
  <2> QED BY <1>7, <2>1, <2>3
<1> QED BY <1>3, <1>5, <1>6, <1>7 DEF n

-----------------------------------------------------------------------------
\* The record, the clock and the cursor.
ReplayTypes ==
    /\ rows \subseteq H!Spans /\ silences \subseteq H!Spans
    /\ created \in Nat /\ clock \in 0..EndOfTime /\ at \in Int

\* Its intervals are not empty, and its window ends now.
LEMMA ReplyIsOfPairs ==
    ASSUME ReplayTypes
    PROVE  /\ H!Since \in 0..clock
           /\ H!Reply.spans \in SUBSET Pairs /\ IsFiniteSet(H!Reply.spans)
           /\ H!Reply.blind \in SUBSET Pairs /\ IsFiniteSet(H!Reply.blind)
<1> DEFINE ends == (0..EndOfTime) \cup {H!Open}
           least == H!Since
<1>1. /\ EndOfTime \in Nat /\ Grace \in Nat /\ Day \in Nat
      /\ clock \in Nat /\ clock <= EndOfTime /\ H!Open \in Nat /\ H!Open = EndOfTime + 2
  BY PartsAssumption DEF H!ReplayAssumption, ReplayTypes, H!Open
<1>2. least \in 0..clock
  <2>1. H!Max({0, clock - Day}) = IF 0 >= clock - Day THEN 0 ELSE clock - Day
    BY <1>1, GreaterOfTwo
  <2> QED BY <1>1, <2>1 DEF H!Since
<1>3. \A s \in rows \cup silences :
         s[1] \in 0..EndOfTime /\ s[2] \in ends /\ s[1] < s[2] /\ s[2] \in Nat
  BY <1>1 DEF ReplayTypes, H!Spans, H!Times
<1>4. ASSUME NEW ivs, ivs \subseteq rows \cup silences, NEW iv \in H!Known(ivs)
      PROVE  /\ iv[1] \in 0..EndOfTime /\ iv[2] \in ends /\ iv[2] \in Nat /\ iv[1] < iv[2]
             /\ iv = <<iv[1], iv[2]>>
  <2>1. PICK s \in ivs : s[1] <= clock
                         /\ iv = <<s[1], IF s[2] > clock THEN H!Open ELSE s[2]>>
    BY DEF H!Known
  <2> QED BY <1>1, <1>3, <1>4, <2>1
<1>5. IsFiniteSet(ends) /\ IsFiniteSet(0..EndOfTime) /\ IsFiniteSet(0..(EndOfTime + clock))
  <2>1. IsFiniteSet(0..EndOfTime) /\ IsFiniteSet(0..(EndOfTime + clock))
    <3>1. 0 \in Int /\ EndOfTime \in Int /\ EndOfTime + clock \in Int
      BY <1>1
    <3> QED BY <3>1, FS_Interval
  <2>2. IsFiniteSet({H!Open})
    BY FS_Singleton
  <2> QED BY <2>1, <2>2, FS_Union
<1>6. H!Reply.spans = {iv \in H!Known(rows) : iv[2] >= least}
  BY DEF H!Reply
<1>7. H!Reply.blind = {<<H!Max({least, m[1] - Grace}), m[2]>> :
                          m \in {s \in H!Known(silences) : s[2] > least}}
  BY DEF H!Reply, H!stale_intervals
<1> HIDE DEF least
<1>8. H!Reply.spans \in SUBSET Pairs /\ IsFiniteSet(H!Reply.spans)
  <2>1. \A iv \in H!Reply.spans : iv \in Pairs /\ iv \in (0..EndOfTime) \X ends
    BY <1>4, <1>6 DEF Pairs
  <2>2. IsFiniteSet((0..EndOfTime) \X ends)
    BY <1>5, FS_Product
  <2> QED BY <2>1, <2>2, FS_Subset
<1>9. H!Reply.blind \in SUBSET Pairs /\ IsFiniteSet(H!Reply.blind)
  <2>1. ASSUME NEW iv \in H!Reply.blind
        PROVE  iv \in Pairs /\ iv \in (0..(EndOfTime + clock)) \X ends
    <3>1. PICK m \in H!Known(silences) :
             m[2] > least /\ iv = <<H!Max({least, m[1] - Grace}), m[2]>>
      BY <1>7
    <3>2. m[1] \in 0..EndOfTime /\ m[2] \in ends /\ m[2] \in Nat /\ m[1] < m[2]
      BY <1>4
    <3>3. H!Max({least, m[1] - Grace})
             = IF least >= m[1] - Grace THEN least ELSE m[1] - Grace
      BY <1>1, <1>2, <3>2, GreaterOfTwo
    <3> HIDE DEF ends
    <3> QED BY <1>1, <1>2, <3>1, <3>2, <3>3 DEF Pairs
  <2>2. IsFiniteSet((0..(EndOfTime + clock)) \X ends)
    BY <1>5, FS_Product
  <2> QED BY <2>1, <2>2, FS_Subset
<1> QED BY <1>2, <1>8, <1>9 DEF least

\* What the merged intervals of the answer hold is what the record says.
LEMMA MergedAnswer ==
    ASSUME ReplayTypes
    PROVE  LET down == H!merge(H!Reply.spans)
               blind == H!merge(H!Reply.blind)
           IN  /\ Separate(down) /\ Separate(blind)
               /\ \A t \in H!Since..clock :
                     /\ Holds({down[i] : i \in 1..Len(down)}, t)
                          <=> \E iv \in H!Known(rows) : iv[1] <= t /\ t < iv[2]
                     /\ Holds({blind[i] : i \in 1..Len(blind)}, t)
                          <=> \E m \in H!Known(silences) : m[1] - Grace <= t /\ t < m[2]
<1> DEFINE least == H!Since
           down == H!merge(H!Reply.spans)
           blind == H!merge(H!Reply.blind)
<1>1. /\ Separate(down) /\ TellsOf(down, H!Reply.spans)
      /\ Separate(blind) /\ TellsOf(blind, H!Reply.blind)
  <2> HIDE DEF down, blind
  <2> QED BY ReplyIsOfPairs, MergeTells DEF down, blind
<1>2. /\ EndOfTime \in Nat /\ Grace \in Nat /\ clock \in Nat /\ least \in 0..clock
      /\ H!Open = EndOfTime + 2
  BY PartsAssumption, ReplyIsOfPairs DEF H!ReplayAssumption, ReplayTypes, H!Open
<1>3. \A ivs : ivs \subseteq rows \cup silences =>
         \A iv \in H!Known(ivs) : iv[1] \in Int /\ iv[2] \in Int
  <2>1. \A s \in rows \cup silences : s[1] \in Int /\ s[2] \in Int
    BY <1>2 DEF ReplayTypes, H!Spans, H!Times
  <2> QED BY <1>2, <2>1 DEF H!Known
<1>4. H!Reply.spans = {iv \in H!Known(rows) : iv[2] >= least}
  BY DEF H!Reply
<1>5. H!Reply.blind = {<<H!Max({least, m[1] - Grace}), m[2]>> :
                          m \in {s \in H!Known(silences) : s[2] > least}}
  BY DEF H!Reply, H!stale_intervals
<1> HIDE DEF least, down, blind
<1>6. ASSUME NEW t \in least..clock
      PROVE  Holds({down[i] : i \in 1..Len(down)}, t)
                 <=> \E iv \in H!Known(rows) : iv[1] <= t /\ t < iv[2]
  <2>1. t \in Int /\ t >= least
    BY <1>2
  <2>2. Holds({down[i] : i \in 1..Len(down)}, t) <=> Holds(H!Reply.spans, t)
    BY <1>1, <2>1 DEF TellsOf
  <2>3. \A iv \in H!Known(rows) : iv[1] \in Int /\ iv[2] \in Int
    BY <1>3
  <2> QED BY <1>2, <1>4, <2>1, <2>2, <2>3 DEF Holds
<1>7. ASSUME NEW t \in least..clock
      PROVE  Holds({blind[i] : i \in 1..Len(blind)}, t)
                 <=> \E m \in H!Known(silences) : m[1] - Grace <= t /\ t < m[2]
  <2>1. t \in Int /\ t >= least
    BY <1>2
  <2>2. Holds({blind[i] : i \in 1..Len(blind)}, t) <=> Holds(H!Reply.blind, t)
    BY <1>1, <2>1 DEF TellsOf
  <2>3. \A m \in H!Known(silences) : m[1] \in Int /\ m[2] \in Int
    BY <1>3
  <2>4. ASSUME NEW m \in H!Known(silences)
        PROVE  H!Max({least, m[1] - Grace}) <= t <=> m[1] - Grace <= t
    <3>1. H!Max({least, m[1] - Grace})
             = IF least >= m[1] - Grace THEN least ELSE m[1] - Grace
      BY <1>2, <2>3, GreaterOfTwo
    <3> QED BY <1>2, <2>1, <2>3, <3>1
  <2>5. Holds(H!Reply.blind, t) <=>
           \E m \in {s \in H!Known(silences) : s[2] > least} :
              H!Max({least, m[1] - Grace}) <= t /\ t < m[2]
    <3> DEFINE late == {s \in H!Known(silences) : s[2] > least}
               from(m) == H!Max({least, m[1] - Grace})
    <3>1. ASSUME NEW iv \in H!Reply.blind, iv[1] <= t, t < iv[2]
          PROVE  \E m \in late : from(m) <= t /\ t < m[2]
      <4>1. PICK m \in late : iv = <<from(m), m[2]>>
        BY <1>5
      <4>2. iv[1] = from(m) /\ iv[2] = m[2]
        BY <4>1
      <4> QED BY <3>1, <4>2
    <3>2. ASSUME NEW m \in late, from(m) <= t, t < m[2]
          PROVE  \E iv \in H!Reply.blind : iv[1] <= t /\ t < iv[2]
      <4>1. <<from(m), m[2]>> \in H!Reply.blind
        BY <1>5
      <4> QED BY <3>2, <4>1
    <3> QED BY <3>1, <3>2 DEF Holds
  <2>6. Holds(H!Reply.blind, t) <=>
           \E m \in H!Known(silences) :
              m[2] > least /\ m[1] - Grace <= t /\ t < m[2]
    BY <2>4, <2>5
  <2>7. \A m \in H!Known(silences) : t < m[2] => m[2] > least
    BY <1>2, <2>1, <2>3
  <2> QED BY <2>2, <2>6, <2>7
<1>8. \A t \in least..clock :
         /\ Holds({down[i] : i \in 1..Len(down)}, t)
              <=> \E iv \in H!Known(rows) : iv[1] <= t /\ t < iv[2]
         /\ Holds({blind[i] : i \in 1..Len(blind)}, t)
              <=> \E m \in H!Known(silences) : m[1] - Grace <= t /\ t < m[2]
  BY <1>6, <1>7
<1> QED BY <1>1, <1>8 DEF least, down, blind

\* What merged intervals hold does not change where none of them begins or ends.
LEMMA HoldsUntilAnEvent ==
    ASSUME NEW ivs, Separate(ivs), NEW e \in Int, NEW t \in Int, e <= t,
           \A i \in 1..Len(ivs) : ~(e < ivs[i][1] /\ ivs[i][1] <= t)
                                  /\ ~(e < ivs[i][2] /\ ivs[i][2] <= t)
    PROVE  Holds({ivs[i] : i \in 1..Len(ivs)}, e) <=> Holds({ivs[i] : i \in 1..Len(ivs)}, t)
<1>1. \A i \in 1..Len(ivs) : ivs[i][1] \in Int /\ ivs[i][2] \in Int
  <2>1. \A i \in 1..Len(ivs) : ivs[i] \in Pairs
    BY DEF Separate
  <2> QED BY <2>1 DEF Pairs
<1>2. \A i \in 1..Len(ivs) :
         ivs[i][1] <= e /\ e < ivs[i][2] <=> ivs[i][1] <= t /\ t < ivs[i][2]
  BY <1>1
<1> QED BY <1>2 DEF Holds

\* The bars of a window show what its intervals hold.
LEMMA BarsShow ==
    ASSUME NEW ivs, Separate(ivs), NEW lo \in Int, NEW hi \in Int,
           at \in Int, lo <= at, at < hi
    PROVE  H!Within(H!clip(ivs, lo, hi)) <=> Holds({ivs[i] : i \in 1..Len(ivs)}, at)
<1> DEFINE all == {ivs[i] : i \in 1..Len(ivs)}
           from(iv) == H!Max({iv[1], lo})
           till(iv) == H!Min({iv[2], hi})
<1>1. H!ToSet(ivs) = all
  BY DEF H!ToSet, Separate
<1>2. \A iv \in all : iv \in Pairs
  BY DEF Separate
<1>3. \A iv \in all : iv[1] \in Int /\ iv[2] \in Int
  BY <1>2 DEF Pairs
<1>4. ASSUME NEW iv \in all
      PROVE  /\ from(iv) = IF iv[1] >= lo THEN iv[1] ELSE lo
             /\ till(iv) = IF iv[2] <= hi THEN iv[2] ELSE hi
  BY <1>3, GreaterOfTwo, LesserOfTwo
<1>5. \A iv \in all : /\ from(iv) <= at <=> iv[1] <= at
                      /\ at < till(iv) <=> at < iv[2]
                      /\ from(iv) <= at /\ at < till(iv) => till(iv) > from(iv)
  <2> HIDE DEF all, from, till
  <2> QED BY <1>3, <1>4
<1>6. H!clip(ivs, lo, hi) = {<<from(iv), till(iv)>> : iv \in {i \in all : till(i) > from(i)}}
  BY <1>1 DEF H!clip
<1> HIDE DEF all
<1>7. ASSUME NEW bar \in H!clip(ivs, lo, hi), bar[1] <= at, at < bar[2]
      PROVE  \E iv \in all : iv[1] <= at /\ at < iv[2]
  <2>1. PICK iv \in all : bar = <<from(iv), till(iv)>>
    BY <1>6
  <2>2. bar[1] = from(iv) /\ bar[2] = till(iv)
    BY <2>1
  <2> HIDE DEF from, till
  <2> QED BY <1>5, <1>7, <2>2
<1>8. ASSUME NEW iv \in all, iv[1] <= at, at < iv[2]
      PROVE  \E bar \in H!clip(ivs, lo, hi) : bar[1] <= at /\ at < bar[2]
  <2>1. from(iv) <= at /\ at < till(iv) /\ till(iv) > from(iv)
    <3> HIDE DEF from, till
    <3> QED BY <1>5, <1>8
  <2>2. <<from(iv), till(iv)>> \in H!clip(ivs, lo, hi)
    BY <1>6, <2>1
  <2> QED BY <2>1, <2>2
<1> QED BY <1>7, <1>8 DEF H!Within, Holds, all

-----------------------------------------------------------------------------
\* What the page holds: a record of the window up to now is the one that would
\* be read now, and the cursor is within the window.
ReconIsKnown ==
    recon # None =>
        /\ recon.since \in Int /\ recon.until \in Int
        /\ recon.since <= at /\ at <= recon.until /\ recon.until <= clock
        /\ recon.events \in SUBSET (recon.since..recon.until)
        /\ recon.until = clock => recon = H!buildReconstruction(H!Reply)

\* A record just read is the answer's.
LEMMA KnownRecon ==
    ASSUME ReplayTypes
    PROVE  LET r == H!buildReconstruction(H!Reply)
           IN  /\ r.since = H!Since /\ r.until = clock /\ r.floor = created
               /\ r.down = H!merge(H!Reply.spans) /\ r.blind = H!merge(H!Reply.blind)
               /\ r.events = H!Events(H!Reply, r.down, r.blind)
               /\ r.events \in SUBSET (r.since..r.until)
<1> DEFINE r == H!buildReconstruction(H!Reply)
           down == H!merge(H!Reply.spans)
           blind == H!merge(H!Reply.blind)
<1>1. /\ H!Reply.since = H!Since /\ H!Reply.until = clock /\ H!Reply.floor = created
  BY DEF H!Reply
<1>2. /\ r.since = H!Since /\ r.until = clock /\ r.floor = created
      /\ r.down = down /\ r.blind = blind
      /\ r.events = H!Events(H!Reply, down, blind)
  BY <1>1 DEF H!buildReconstruction
<1> HIDE DEF r
<1>3. Separate(down) /\ Separate(blind)
  BY MergedAnswer
<1>4. H!ToSet(down) \in SUBSET Pairs /\ H!ToSet(blind) \in SUBSET Pairs
  <2> HIDE DEF down, blind
  <2> QED BY <1>3 DEF H!ToSet, Separate
<1>5. created \in Int /\ clock \in Int /\ H!Since \in Int
  BY ReplyIsOfPairs DEF ReplayTypes
<1>6. H!Events(H!Reply, down, blind) \in SUBSET (H!Since..clock)
  <2> HIDE DEF down, blind
  <2>1. \A iv \in H!ToSet(down) \cup H!ToSet(blind) : iv[1] \in Int /\ iv[2] \in Int
    BY <1>4 DEF Pairs
  <2>2. \A t \in H!Events(H!Reply, down, blind) :
           t \in Int /\ H!Since < t /\ t < clock
    BY <1>1, <1>5, <2>1 DEF H!Events
  <2> QED BY <1>5, <2>2
<1> QED BY <1>2, <1>6 DEF r

\* The picture of the last event is the picture of the moment.
LEMMA PictureFromRecord ==
    ASSUME ReplayTypes, ReconIsKnown
    PROVE  H!PictureIsTheMoment
<1> SUFFICES ASSUME on, recon # None, recon.until = clock, at < recon.until
             PROVE  /\ H!Picture = H!Said(at)
                    /\ H!Within(H!downBars) <=>
                          H!Said(at) = "down" \/ (at < created /\ H!Within(H!downBars))
                    /\ H!Said(at) = "unknown" => H!Within(H!unknownBars)
  BY DEF H!PictureIsTheMoment
<1> DEFINE down == H!merge(H!Reply.spans)
           blind == H!merge(H!Reply.blind)
           all == {down[i] : i \in 1..Len(down)}
           dark == {blind[i] : i \in 1..Len(blind)}
           e == H!eventFloorAt(at)
           out == \E iv \in H!Known(rows) : iv[1] <= at /\ at < iv[2]
           mute == \E m \in H!Known(silences) : m[1] - Grace <= at /\ at < m[2]
<1>1. /\ recon = H!buildReconstruction(H!Reply)
      /\ recon.since <= at /\ recon.since \in Int /\ recon.until \in Int
      /\ recon.events \in SUBSET (recon.since..recon.until)
  BY DEF ReconIsKnown
<1>2. /\ recon.since = H!Since /\ recon.floor = created
      /\ recon.down = down /\ recon.blind = blind
      /\ recon.events = H!Events(H!Reply, down, blind)
  BY <1>1, KnownRecon
<1>3. /\ at \in Int /\ clock \in Int /\ created \in Int /\ clock <= EndOfTime
      /\ EndOfTime \in Nat /\ H!Open = EndOfTime + 2 /\ at < H!Open
  BY PartsAssumption DEF ReplayTypes, H!ReplayAssumption, H!Open
<1>4. /\ Separate(down) /\ Separate(blind)
      /\ Holds(all, at) <=> out
      /\ Holds(dark, at) <=> mute
  <2>1. at \in H!Since..clock
    BY <1>1, <1>2, <1>3
  <2> QED BY <2>1, MergedAnswer
<1> HIDE DEF down, blind
<1>5. /\ H!ToSet(down) = all /\ H!ToSet(blind) = dark
      /\ \A iv \in all \cup dark : iv[1] \in Int /\ iv[2] \in Int
  <2>1. H!ToSet(down) = all /\ H!ToSet(blind) = dark
    BY <1>4 DEF H!ToSet, Separate
  <2>2. \A iv \in all \cup dark : iv \in Pairs
    BY <1>4 DEF Separate
  <2> QED BY <2>1, <2>2 DEF Pairs
<1>6. /\ e \in Int /\ e <= at /\ recon.since <= e
      /\ \A k \in recon.events : k <= at => k <= e
  <2> DEFINE some == {recon.since} \cup {k \in recon.events : k <= at}
  <2>1. some \in SUBSET (recon.since..recon.until) /\ some # {} /\ recon.since \in some
    BY <1>1, <1>3
  <2>2. e = H!Max(some)
    BY DEF H!eventFloorAt
  <2>3. e \in some /\ \A k \in some : e >= k
    <3> HIDE DEF some, e
    <3> QED BY <1>1, <2>1, <2>2, GreatestOfSome
  <2>4. e \in Int /\ e <= at
    BY <1>1, <1>3, <2>3
  <2> HIDE DEF e
  <2>5. \A k \in recon.events : k <= at => k <= e
    <3>1. \A k \in recon.events : k \in Int
      BY <1>1
    <3> QED BY <2>3, <2>4, <3>1
  <2>6. recon.since <= e
    BY <1>1, <2>1, <2>3, <2>4
  <2> QED BY <2>4, <2>5, <2>6
<1> HIDE DEF e
\* Between the event and the moment there is no other.
<1>7. /\ ~(e < created /\ created <= at)
      /\ \A iv \in all \cup dark : ~(e < iv[1] /\ iv[1] <= at) /\ ~(e < iv[2] /\ iv[2] <= at)
  <2> DEFINE marks == {created} \cup {iv[1] : iv \in all \cup dark}
                        \cup {iv[2] : iv \in {i \in all \cup dark : i[2] # H!Open}}
  <2> HIDE DEF all, dark
  <2>1. recon.events = {t \in marks : recon.since < t /\ t < clock}
    <3>1. H!Reply.floor = created /\ H!Reply.since = H!Since /\ H!Reply.until = clock
      BY DEF H!Reply
    <3> QED BY <1>2, <1>5, <3>1 DEF H!Events
  <2>2. \A t \in marks : t \in Int
    BY <1>3, <1>5
  <2>3. ASSUME NEW t \in marks PROVE ~(e < t /\ t <= at)
    <3> SUFFICES ASSUME e < t, t <= at PROVE FALSE
      OBVIOUS
    <3> HIDE DEF marks
    <3>1. t \in recon.events
      BY <1>1, <1>3, <1>6, <2>1, <2>2
    <3> QED BY <1>6, <2>2, <3>1
  <2>4. \A iv \in all \cup dark : iv[1] \in marks /\ (iv[2] # H!Open => iv[2] \in marks)
    OBVIOUS
  <2>5. created \in marks
    OBVIOUS
  <2> HIDE DEF marks
  <2>6. ~(H!Open <= at)
    BY <1>3
  <2>7. ASSUME NEW iv \in all \cup dark
        PROVE  ~(e < iv[1] /\ iv[1] <= at) /\ ~(e < iv[2] /\ iv[2] <= at)
    <3>1. iv[1] \in marks /\ (iv[2] = H!Open \/ iv[2] \in marks)
      BY <2>4
    <3>2. CASE iv[2] = H!Open
      BY <2>3, <2>6, <3>1, <3>2
    <3>3. CASE iv[2] \in marks
      BY <2>3, <3>1, <3>3
    <3> QED BY <3>1, <3>2, <3>3
  <2> QED BY <2>3, <2>5, <2>7
<1>8. Holds(all, e) <=> Holds(all, at)
  <2>1. \A i \in 1..Len(down) : down[i] \in all
    OBVIOUS
  <2>2. \A i \in 1..Len(down) :
           ~(e < down[i][1] /\ down[i][1] <= at) /\ ~(e < down[i][2] /\ down[i][2] <= at)
    BY <1>7, <2>1
  <2> QED BY <1>3, <1>4, <1>6, <2>2, HoldsUntilAnEvent
<1>9. Holds(dark, e) <=> Holds(dark, at)
  <2>1. \A i \in 1..Len(blind) : blind[i] \in dark
    OBVIOUS
  <2>2. \A i \in 1..Len(blind) :
           ~(e < blind[i][1] /\ blind[i][1] <= at) /\ ~(e < blind[i][2] /\ blind[i][2] <= at)
    BY <1>7, <2>1
  <2> QED BY <1>3, <1>4, <1>6, <2>2, HoldsUntilAnEvent
<1>10. H!covers(down, e) <=> out
  BY <1>4, <1>6, <1>8, CoversHolds
<1>11. H!covers(blind, e) <=> mute
  BY <1>4, <1>6, <1>9, CoversHolds
<1>12. H!Said(at) = IF at < created THEN "unknown" ELSE IF out THEN "down"
                    ELSE IF mute THEN "unknown" ELSE "up"
  BY DEF H!Said
<1>13. H!Picture = IF e < created THEN "unknown" ELSE IF out THEN "down"
                   ELSE IF mute THEN "unknown" ELSE "up"
  BY <1>2, <1>10, <1>11 DEF H!Picture, H!stateAt, e
<1>14. e < created <=> at < created
  BY <1>3, <1>6, <1>7
<1>15. H!Within(H!downBars) <=> out
  BY <1>1, <1>2, <1>3, <1>4, BarsShow DEF H!downBars
<1>16. H!Within(H!clip(blind, recon.since, recon.until)) <=> mute
  BY <1>1, <1>3, <1>4, BarsShow
<1>17. mute => H!Within(H!unknownBars)
  BY <1>2, <1>16 DEF H!unknownBars, H!Within
<1>18. ASSUME at < created PROVE H!Within(H!unknownBars)
  <2> DEFINE bar == <<recon.since, H!Min({recon.floor, recon.until})>>
  <2>1. recon.floor > recon.since
    BY <1>1, <1>2, <1>3, <1>18
  <2>2. bar \in H!unknownBars
    BY <2>1 DEF H!unknownBars
  <2>3. H!Min({recon.floor, recon.until})
           = IF recon.floor <= recon.until THEN recon.floor ELSE recon.until
    BY <1>1, <1>2, <1>3, LesserOfTwo
  <2>4. bar[1] <= at /\ at < bar[2]
    BY <1>1, <1>2, <1>3, <1>18, <2>3
  <2> QED BY <2>2, <2>4 DEF H!Within
<1> HIDE DEF out, mute
<1>19. H!Picture = H!Said(at)
  BY <1>12, <1>13, <1>14
<1>20. H!Said(at) = "down" <=> ~(at < created) /\ out
  BY <1>12
<1>21. H!Said(at) = "unknown" => at < created \/ mute
  BY <1>12
<1> QED BY <1>15, <1>17, <1>18, <1>19, <1>20, <1>21

\* The inductive invariant of the replay.
ReplayInv == part = "replay" => ReplayTypes /\ ReconIsKnown

\* It holds of a page just opened,
LEMMA ReplayInit ==
    ASSUME H!Init
    PROVE  ReplayTypes /\ ReconIsKnown
<1>1. EndOfTime \in Nat /\ Early \in Nat
  BY PartsAssumption DEF H!ReplayAssumption
<1>2. /\ clock = EndOfTime - Early /\ at \in 0..clock /\ created \in {0, 1} /\ recon = None
      /\ rows \subseteq H!Spans
  BY DEF H!Init, H!kSubset
<1>3. silences \subseteq H!Spans
  BY DEF H!Init
<1>4. clock \in 0..EndOfTime /\ at \in Int
  BY <1>1, <1>2
<1> QED BY <1>2, <1>3, <1>4 DEF ReplayTypes, ReconIsKnown

\* Wherever the cursor is put, it is in the window.
LEMMA CursorStays ==
    ASSUME NEW t \in Int, NEW plays, H!Cursor(t, plays),
           recon' # None => /\ recon'.since \in Int /\ recon'.until \in Int
                            /\ recon'.since <= recon'.until
    PROVE  /\ at' \in Int
           /\ recon' # None => recon'.since <= at' /\ at' <= recon'.until
<1>1. CASE recon' = None
  BY <1>1 DEF H!Cursor
<1>2. CASE recon' # None
  <2> DEFINE lo == recon'.since
             hi == recon'.until
             held == IF lo >= t THEN lo ELSE t
  <2>1. lo \in Int /\ hi \in Int /\ lo <= hi
    BY <1>2
  <2>2. at' = H!Min({hi, H!Max({lo, t})})
    BY <1>2 DEF H!Cursor
  <2> HIDE DEF lo, hi
  <2>3. H!Max({lo, t}) = held /\ held \in Int /\ lo <= held
    BY <2>1, GreaterOfTwo
  <2> HIDE DEF held
  <2>4. at' = IF hi <= held THEN hi ELSE held
    BY <2>1, <2>2, <2>3, LesserOfTwo
  <2>5. at' \in Int /\ lo <= at' /\ at' <= hi
    BY <2>1, <2>3, <2>4
  <2> QED BY <2>5 DEF lo, hi
<1> QED BY <1>1, <1>2

\* and every step keeps it.
LEMMA ReplayKeeps ==
    ASSUME ReplayTypes, ReconIsKnown, [H!Next]_replayVars
    PROVE  (ReplayTypes /\ ReconIsKnown)'
<1> USE DEF H!record, H!page
<1>1. /\ EndOfTime \in Nat /\ clock \in 0..EndOfTime /\ at \in Int /\ clock \in Int
  BY PartsAssumption DEF H!ReplayAssumption, ReplayTypes
<1>2. recon # None => /\ recon.since \in Int /\ recon.until \in Int
                      /\ recon.since <= at /\ at <= recon.until
                      /\ recon.since <= recon.until
                      /\ recon.events \in SUBSET (recon.since..recon.until)
  BY <1>1 DEF ReconIsKnown
\* The steps of the page in a record that stands.
<1>3. ASSUME UNCHANGED <<rows, silences, created, clock, days, recon>>,
             NEW t \in Int, NEW plays, H!Cursor(t, plays)
      PROVE  (ReplayTypes /\ ReconIsKnown)'
  <2>1. /\ at' \in Int
        /\ recon' # None => recon'.since <= at' /\ at' <= recon'.until
    <3>1. recon' # None => /\ recon'.since \in Int /\ recon'.until \in Int
                           /\ recon'.since <= recon'.until
      BY <1>2, <1>3
    <3> QED BY <1>3, <3>1, CursorStays
  <2>2. H!buildReconstruction(H!Reply)' = H!buildReconstruction(H!Reply)
    BY <1>3 DEF H!Reply, H!Since, H!Known, H!stale_intervals, H!buildReconstruction, H!Events
  <2>3. ReplayTypes'
    BY <1>3, <2>1 DEF ReplayTypes
  <2>4. ReconIsKnown'
    BY <1>3, <2>1, <2>2 DEF ReconIsKnown
  <2> QED BY <2>3, <2>4
\* And those that leave the cursor, too.
<1>4. ASSUME UNCHANGED <<rows, silences, created, clock, days, recon, at>>
      PROVE  (ReplayTypes /\ ReconIsKnown)'
  <2>1. H!buildReconstruction(H!Reply)' = H!buildReconstruction(H!Reply)
    BY <1>4 DEF H!Reply, H!Since, H!Known, H!stale_intervals, H!buildReconstruction, H!Events
  <2> QED BY <1>4, <2>1 DEF ReplayTypes, ReconIsKnown
<1>5. CASE H!Passes
  <2>1. clock' = clock + 1 /\ clock < EndOfTime /\ UNCHANGED <<rows, silences, created, at, recon>>
    BY <1>5 DEF H!Passes
  <2>2. ReplayTypes'
    BY <1>1, <2>1 DEF ReplayTypes
  <2>3. recon # None => recon.until <= clock' /\ recon.until # clock'
    BY <1>1, <1>2, <2>1 DEF ReconIsKnown
  <2>4. ReconIsKnown'
    BY <2>1, <2>3 DEF ReconIsKnown
  <2> QED BY <2>2, <2>4
<1>6. CASE H!Read
  <2>1. /\ recon' = H!buildReconstruction(H!Reply) /\ H!Cursor(at, playing)
        /\ UNCHANGED <<rows, silences, created, clock, days>>
    BY <1>6 DEF H!Read
  <2>2. /\ recon'.since = H!Since /\ recon'.until = clock
        /\ recon'.events \in SUBSET (recon'.since..recon'.until)
        /\ H!Since \in 0..clock
    BY <2>1, KnownRecon, ReplyIsOfPairs
  <2>3. recon'.since \in Int /\ recon'.until \in Int /\ recon'.since <= recon'.until
    BY <1>1, <2>2
  <2>4. /\ at' \in Int
        /\ recon' # None => recon'.since <= at' /\ at' <= recon'.until
    BY <1>1, <2>1, <2>3, CursorStays
  <2>5. H!buildReconstruction(H!Reply)' = H!buildReconstruction(H!Reply)
    BY <2>1 DEF H!Reply, H!Since, H!Known, H!stale_intervals, H!buildReconstruction, H!Events
  <2>6. ReplayTypes'
    BY <2>1, <2>4 DEF ReplayTypes
  <2>7. recon'.until <= clock'
    BY <1>1, <2>1, <2>2
  <2>8. ReconIsKnown'
    BY <2>1, <2>2, <2>3, <2>4, <2>5, <2>7 DEF ReconIsKnown
  <2> QED BY <2>6, <2>8
<1>7. CASE H!Enter
  BY <1>4, <1>7 DEF H!Enter
<1>8. CASE H!Exit
  BY <1>4, <1>8 DEF H!Exit
<1>9. CASE H!PickDays
  <2>1. recon' = None /\ H!Cursor(at, FALSE) /\ UNCHANGED <<rows, silences, created, clock>>
    BY <1>9 DEF H!PickDays
  <2>2. at' = at
    BY <2>1 DEF H!Cursor
  <2> QED BY <2>1, <2>2 DEF ReplayTypes, ReconIsKnown
<1>10. ASSUME NEW t \in H!Times, H!Scrub(t) PROVE (ReplayTypes /\ ReconIsKnown)'
  <2>1. t \in Int
    BY <1>1 DEF H!Times
  <2> QED BY <1>3, <1>10, <2>1 DEF H!Scrub
<1>11. CASE H!Step
  <2> DEFINE later == {n \in recon.events : n > at}
             before == {n \in recon.events : n < at}
  <2>1. /\ recon # None /\ UNCHANGED <<rows, silences, created, clock, days, recon>>
        /\ \/ later # {} /\ H!Cursor(H!Min(later), FALSE)
           \/ before # {} /\ H!Cursor(H!Max(before), FALSE)
    BY <1>11 DEF H!Step
  <2>2. later \in SUBSET (recon.since..recon.until) /\ before \in SUBSET (recon.since..recon.until)
    BY <1>2, <2>1
  <2>3. recon.since \in Int /\ recon.until \in Int
    BY <1>2, <2>1
  <2>6. (\A n \in later : n \in Int) /\ (\A n \in before : n \in Int)
    <3>1. \A n \in recon.events : n \in recon.since..recon.until
      BY <1>2, <2>1
    <3>2. \A n \in recon.since..recon.until : n \in Int
      BY <2>3
    <3> QED BY <3>1, <3>2
  <2> HIDE DEF later, before
  <2>4. CASE later # {} /\ H!Cursor(H!Min(later), FALSE)
    <3>1. H!Min(later) \in later
      BY <2>2, <2>3, <2>4, LeastOfSome
    <3>2. H!Min(later) \in Int
      BY <2>6, <3>1
    <3> QED BY <1>3, <2>1, <2>4, <3>2
  <2>5. CASE before # {} /\ H!Cursor(H!Max(before), FALSE)
    <3>1. H!Max(before) \in before
      BY <2>2, <2>3, <2>5, GreatestOfSome
    <3>2. H!Max(before) \in Int
      BY <2>6, <3>1
    <3> QED BY <1>3, <2>1, <2>5, <3>2
  <2> QED BY <2>1, <2>4, <2>5
<1>12. CASE H!Play
  BY <1>1, <1>3, <1>12 DEF H!Play
<1>13. CASE H!Tick
  <2>1. /\ recon # None /\ UNCHANGED <<rows, silences, created, clock, days, recon>>
        /\ H!Cursor(H!Min({recon.until, at + 1}), playing)
    BY <1>13 DEF H!Tick
  <2>2. H!Min({recon.until, at + 1}) \in Int
    BY <1>1, <1>2, <2>1, LesserOfTwo
  <2> QED BY <1>3, <2>1, <2>2
<1>14. CASE UNCHANGED replayVars
  BY <1>4, <1>14 DEF replayVars
<1> QED BY <1>5, <1>6, <1>7, <1>8, <1>9, <1>10, <1>11, <1>12, <1>13, <1>14 DEF H!Next

\* The picture under the cursor is what the record says of that moment, whatever
\* the record and the lengths of the windows: nothing is lost in merging, in the
\* search, or in drawing the last event instead of the moment.
THEOREM PictureTellsTheRecord == PartsSpec => []PictureIsTheMoment
<1>1. PartsInit => ReplayInv
  BY ReplayInit DEF PartsInit, ReplayInv
<1>2. ReplayInv /\ [PartsNext]_allVars => ReplayInv'
  BY PartsMove, ReplayKeeps DEF ReplayInv
<1>3. ReplayInv => PictureIsTheMoment
  BY PictureFromRecord DEF ReplayInv, PictureIsTheMoment
<1> QED BY <1>1, <1>2, <1>3, PTL DEF PartsSpec

-----------------------------------------------------------------------------
(***************************************************************************)
(* The fibre tray.                                                         *)
(***************************************************************************)

\* A joint is of one fibre, or of two and then of no port.
TrayJoint(j) ==
    \/ \E f \in Nat \X Nat : j.fibres = {f}
    \/ \E f, g \in Nat \X Nat : j.fibres = {f, g} /\ f # g
                                /\ j = [fibres |-> {f, g}, port |-> None]

TrayTypes ==
    /\ ending \in SUBSET Y!Cables
    /\ name \in [Y!Cables -> Y!Names]
    /\ \A j \in trayJoints : TrayJoint(j)

\* The cables that were laid and end here.
LaidHere == {c \in ending : ~Y!isPlumbing(c)}

LEMMA ShownAreCables ==
    ASSUME TrayTypes
    PROVE  /\ LaidHere \in SUBSET (1..3) /\ IsFiniteSet(LaidHere) /\ LaidHere \subseteq ending
           /\ Y!Cardinality(LaidHere) = Cardinality(LaidHere) /\ Cardinality(LaidHere) \in Nat
           /\ \A c \in LaidHere : /\ Y!Count(c) \in Nat \ {0} /\ name[c] \in Y!Names /\ c \in Nat
                               /\ c \in Y!Cables
<1>1. LaidHere \in SUBSET (1..3) /\ LaidHere \subseteq ending
  BY DEF LaidHere, TrayTypes, Y!Cables
<1>2. IsFiniteSet(LaidHere)
  <2>1. IsFiniteSet(1..3)
    <3>1. IsFiniteSet({1, 2} \cup {3}) /\ 1..3 = {1, 2} \cup {3}
      <4>1. IsFiniteSet({1} \cup {2})
        BY FS_Singleton, FS_Union
      <4>2. {1} \cup {2} = {1, 2}
        OBVIOUS
      <4> QED BY <4>1, <4>2, FS_AddElement
    <3> QED BY <3>1
  <2> QED BY <1>1, <2>1, FS_Subset
<1>3. Y!Cardinality(LaidHere) = Cardinality(LaidHere) /\ Cardinality(LaidHere) \in Nat
  BY <1>2, FS_CardinalityType DEF Cardinality, Y!Cardinality, IsFiniteSet, Y!IsFiniteSet
<1>4. \A c \in LaidHere : /\ Y!Count(c) \in Nat \ {0} /\ name[c] \in Y!Names /\ c \in Nat
                       /\ c \in Y!Cables
  BY <1>1, PartsAssumption DEF Y!TrayAssumption, Y!Count, TrayTypes, Y!Cables
<1> QED BY <1>1, <1>2, <1>3, <1>4

\* The order of the server is one.
LEMMA BeforeOrders ==
    ASSUME TrayTypes
    PROVE  Orders({e \in LaidHere \X LaidHere : Y!Before(e[1], e[2])}, LaidHere)
<1> DEFINE side(c) == IF c \in feed THEN 0 ELSE 1
           called(c) == CASE name[c] = "" -> 0 [] name[c] = "a" -> 1 [] OTHER -> 2
<1>1. ASSUME NEW c \in LaidHere, NEW d \in LaidHere
      PROVE  Y!Before(c, d) <=>
                \/ side(c) < side(d)
                \/ side(c) = side(d) /\ called(c) < called(d)
                \/ side(c) = side(d) /\ called(c) = called(d) /\ c < d
  <2>1. /\ Y!Rank(c)[1] = side(c) /\ Y!Rank(c)[2] = called(c) /\ Y!Rank(c)[3] = c
        /\ Y!Rank(d)[1] = side(d) /\ Y!Rank(d)[2] = called(d) /\ Y!Rank(d)[3] = d
    BY DEF Y!Rank
  <2> HIDE DEF side, called
  <2>2. Y!Before(c, d) <=> \E k \in 1..3 : /\ Y!Rank(c)[k] < Y!Rank(d)[k]
                                           /\ \A h \in 1..(k - 1) : Y!Rank(c)[h] = Y!Rank(d)[h]
    BY DEF Y!Before
  <2>3. 1..3 = {1, 2, 3} /\ 1..(1 - 1) = {} /\ 1..(2 - 1) = {1} /\ 1..(3 - 1) = {1, 2}
    OBVIOUS
  <2> QED BY <2>1, <2>2, <2>3
<1>2. \A c \in LaidHere : side(c) \in Nat /\ called(c) \in Nat /\ c \in Nat
  BY ShownAreCables
<1> HIDE DEF side, called
<1>3. ASSUME NEW a \in LaidHere, NEW b \in LaidHere, a # b
      PROVE  Y!Before(a, b) \/ Y!Before(b, a)
  BY <1>1, <1>2, <1>3
<1>4. ASSUME NEW a \in LaidHere, NEW b \in LaidHere, NEW c \in LaidHere,
             Y!Before(a, b), Y!Before(b, c)
      PROVE  Y!Before(a, c)
  BY <1>1, <1>2, <1>4
<1> QED BY <1>3, <1>4 DEF Orders

\* Every one of them is in the list, once.
LEMMA LaidIsAList ==
    ASSUME TrayTypes
    PROVE  /\ Y!laid \in Seq(LaidHere) /\ {Y!laid[i] : i \in 1..Len(Y!laid)} = LaidHere
           /\ Y!ToSet(Y!laid) = LaidHere
           /\ DOMAIN Y!laid = 1..Len(Y!laid) /\ Len(Y!laid) \in Nat
<1> DEFINE R == {e \in LaidHere \X LaidHere : Y!Before(e[1], e[2])}
           n == Cardinality(LaidHere)
           Good(s) == /\ Y!ToSet(s) = LaidHere
                      /\ \A i, j \in DOMAIN s : i < j => Y!Before(s[i], s[j])
<1>1. PICK s : InOrder(R, LaidHere, s)
  <2>1. Orders(R, LaidHere) /\ IsFiniteSet(LaidHere)
    BY BeforeOrders, ShownAreCables
  <2> HIDE DEF R
  <2> QED BY <2>1, SortedExists
<1>2. s \in [1..n -> LaidHere] /\ Good(s)
  <2>1. s \in [1..n -> LaidHere] /\ DOMAIN s = 1..n
    BY <1>1 DEF InOrder
  <2>2. \A i, j \in DOMAIN s : i < j => Y!Before(s[i], s[j])
    BY <1>1 DEF InOrder
  <2> QED BY <1>1, <2>1, <2>2 DEF InOrder, Y!ToSet
<1>3. n = Y!Cardinality(LaidHere) /\ n \in Nat
  BY ShownAreCables
<1>4. Y!laid = CHOOSE r \in [1..n -> LaidHere] : Good(r)
  BY <1>3 DEF Y!laid, LaidHere
<1> DEFINE m == Y!laid
<1>5. m \in [1..n -> LaidHere] /\ Good(m)
  <2> HIDE DEF Good, n
  <2> QED BY <1>2, <1>4
<1>6. m \in Seq(LaidHere) /\ Len(m) = n /\ DOMAIN m = 1..n
  BY <1>3, <1>5
<1>7. {m[i] : i \in 1..n} = LaidHere
  BY <1>5, <1>6 DEF Y!ToSet
<1> QED BY <1>3, <1>5, <1>6, <1>7

\* Of a set of two, the other one.
LEMMA TheOther ==
    ASSUME NEW set, IsFiniteSet(set), Cardinality(set) = 2, NEW c \in set
    PROVE  \E d : d # c /\ set = {c, d}
<1>1. IsFiniteSet(set \ {c}) /\ Cardinality(set \ {c}) = 1
  BY FS_RemoveElement
<1>2. PICK d : set \ {c} = {d}
  BY <1>1, FS_Singleton
<1> QED BY <1>2

\* The halves of a drum are each other's.
LEMMA HalvesAreMates ==
    ASSUME TrayTypes, NEW c \in DOMAIN Y!cutPairs
    PROVE  LET d == Y!cutPairs[c]
           IN  /\ c \in LaidHere /\ d \in LaidHere /\ d # c /\ d \in DOMAIN Y!cutPairs
               /\ Y!cutPairs[d] = c /\ Y!Count(d) = Y!Count(c)
<1> DEFINE Group(x) == {d \in ending : /\ ~Y!isPlumbing(d) /\ name[d] = name[x]
                                       /\ Y!Count(d) = Y!Count(x)}
           cut == {d \in ending : /\ ~Y!isPlumbing(d) /\ name[d] # ""
                                  /\ Y!Cardinality(Group(d)) = 2}
           d == Y!cutPairs[c]
<1>1. Y!cutPairs = [x \in cut |-> CHOOSE y \in Group(x) : y # x]
  BY DEF Y!cutPairs
<1>2. c \in cut /\ c \in LaidHere /\ c \in Group(c) /\ name[c] # ""
  BY <1>1 DEF LaidHere
<1>3. \A x : Group(x) \subseteq LaidHere /\ IsFiniteSet(Group(x))
             /\ Y!Cardinality(Group(x)) = Cardinality(Group(x))
  <2> SUFFICES ASSUME NEW x PROVE Group(x) \subseteq LaidHere /\ IsFiniteSet(Group(x))
                                  /\ Y!Cardinality(Group(x)) = Cardinality(Group(x))
    OBVIOUS
  <2>1. Group(x) \subseteq LaidHere
    BY DEF LaidHere
  <2>2. IsFiniteSet(Group(x))
    <3> HIDE DEF Group
    <3> QED BY <2>1, ShownAreCables, FS_Subset
  <2> HIDE DEF Group
  <2> QED BY <2>1, <2>2 DEF Cardinality, Y!Cardinality, IsFiniteSet, Y!IsFiniteSet
<1>4. PICK y : y # c /\ Group(c) = {c, y}
  <2> DEFINE both == Group(c)
  <2>1. Cardinality(both) = 2 /\ IsFiniteSet(both) /\ c \in both
    BY <1>2, <1>3
  <2> HIDE DEF both
  <2>2. \E y : y # c /\ both = {c, y}
    BY <2>1, TheOther
  <2> QED BY <2>2 DEF both
<1>5. d = y
  <2>1. d = CHOOSE z \in Group(c) : z # c
    BY <1>1, <1>2
  <2> HIDE DEF Group
  <2> QED BY <1>4, <2>1
<1>6. d \in Group(c) /\ d # c /\ Group(c) = {c, d}
  BY <1>4, <1>5
<1>7. Group(d) = Group(c) /\ name[d] = name[c] /\ Y!Count(d) = Y!Count(c) /\ d \in ending
      /\ ~Y!isPlumbing(d)
  <2> HIDE DEF d
  <2> QED BY <1>6
<1>8. d \in cut
  <2> HIDE DEF d
  <2> QED BY <1>2, <1>7
<1>9. Y!cutPairs[d] = CHOOSE z \in {c, d} : z # d
  <2> HIDE DEF d, Group
  <2> QED BY <1>1, <1>6, <1>7, <1>8
<1>10. Y!cutPairs[d] = c
  <2> HIDE DEF d
  <2> QED BY <1>6, <1>9
<1> QED BY <1>1, <1>2, <1>3, <1>6, <1>7, <1>8, <1>10

\* A cable can be picked, in one way.
LEMMA PickedOnce ==
    ASSUME TrayTypes, NEW c \in LaidHere
    PROVE  Y!Cardinality({e \in Y!entries : c \in {e.main, e.mate}}) = 1
<1> DEFINE Mate(x) == IF x \in DOMAIN Y!cutPairs THEN Y!cutPairs[x] ELSE None
           At(x) == CHOOSE i \in DOMAIN Y!laid : Y!laid[i] = x
           first == {x \in Y!ToSet(Y!laid) : Mate(x) = None \/ At(x) < At(Mate(x))}
           Entry(x) == [main |-> x, mate |-> Mate(x)]
           mine == {e \in Y!entries : c \in {e.main, e.mate}}
<1>1. Y!entries = {Entry(x) : x \in first}
  BY DEF Y!entries
<1>2. \A x \in LaidHere : At(x) \in Nat /\ Y!laid[At(x)] = x
  BY LaidIsAList
<1>3. first = {x \in LaidHere : Mate(x) = None \/ At(x) < At(Mate(x))}
  BY LaidIsAList
<1>4. /\ None \notin LaidHere
      /\ \A x \in LaidHere : Mate(x) # None => /\ Mate(x) \in LaidHere /\ Mate(x) # x
                                            /\ Mate(Mate(x)) = x
  <2>1. None \notin LaidHere
    BY ShownAreCables, PartsAssumption DEF Y!TrayAssumption
  <2>2. \A x \in LaidHere : x \in DOMAIN Y!cutPairs => /\ Mate(x) \in LaidHere /\ Mate(x) # x
                                                    /\ Mate(Mate(x)) = x
    BY HalvesAreMates
  <2> QED BY <2>1, <2>2
<1>5. \A x : Entry(x).main = x /\ Entry(x).mate = Mate(x)
  OBVIOUS
<1> HIDE DEF Mate, At, first, Entry
<1>6. \E z \in first : \A x \in first : c \in {x, Mate(x)} <=> x = z
  <2>1. CASE Mate(c) = None
    <3>1. c \in first
      BY <1>3, <2>1
    <3>2. \A x \in first : c \in {x, Mate(x)} => x = c
      BY <1>3, <1>4, <2>1
    <3> QED BY <3>1, <3>2
  <2>2. CASE Mate(c) # None
    <3> DEFINE d == Mate(c)
    <3>1. d \in LaidHere /\ d # c /\ Mate(d) = c /\ d # None
      BY <1>4, <2>2
    <3>2. At(c) \in Nat /\ At(d) \in Nat /\ At(c) # At(d)
      BY <1>2, <3>1
    <3>3. \A x \in first : c \in {x, Mate(x)} => x = c \/ x = d
      BY <1>3, <1>4
    <3>4. c \in {c, Mate(c)} /\ c \in {d, Mate(d)}
      BY <3>1
    <3> HIDE DEF d
    <3>5. /\ c \in first <=> At(c) < At(d)
          /\ d \in first <=> At(d) < At(c)
      BY <1>3, <2>2, <1>4, <3>1 DEF d
    <3>6. CASE At(c) < At(d)
      <4>1. c \in first /\ d \notin first
        BY <3>2, <3>5, <3>6
      <4> QED BY <3>3, <3>4, <4>1
    <3>7. CASE At(d) < At(c)
      <4>1. d \in first /\ c \notin first
        BY <3>2, <3>5, <3>7
      <4> QED BY <3>3, <3>4, <4>1
    <3> QED BY <3>2, <3>6, <3>7
  <2> QED BY <2>1, <2>2
<1>7. PICK z \in first : \A x \in first : c \in {x, Mate(x)} <=> x = z
  BY <1>6
<1>8. mine = {Entry(z)}
  BY <1>1, <1>5, <1>7
<1>9. Cardinality({Entry(z)}) = 1
  BY FS_Singleton
<1> QED
  <2>1. IsFiniteSet({Entry(z)})
    BY FS_Singleton
  <2>2. Y!Cardinality({Entry(z)}) = Cardinality({Entry(z)})
    BY DEF Cardinality, Y!Cardinality, IsFiniteSet, Y!IsFiniteSet
  <2> QED BY <1>8, <1>9, <2>2

\* The cable that is shown at first is one of them.
DefaultIsShown == Y!defaultCable \in LaidHere \cup {None}

LEMMA DefaultStands == TrayTypes => DefaultIsShown
<1> SUFFICES ASSUME TrayTypes, Y!laid # <<>> PROVE Y!defaultCable \in LaidHere
  BY DEF DefaultIsShown, Y!defaultCable
<1> DEFINE Better(c, d) == \/ Y!Count(c) > Y!Count(d)
                           \/ Y!Count(c) = Y!Count(d) /\ c \in feed /\ d \notin feed
           n == Len(Y!laid)
           score(k) == 2 * Y!Count(Y!laid[k]) + (IF Y!laid[k] \in feed THEN 1 ELSE 0)
           top == 2 * DrumCores + 3
           Best(k) == /\ \A h \in DOMAIN Y!laid : ~Better(Y!laid[h], Y!laid[k])
                      /\ \A h \in 1..(k - 1) : Better(Y!laid[k], Y!laid[h])
<1>1. /\ n \in Nat /\ n > 0 /\ DOMAIN Y!laid = 1..n
      /\ \A k \in 1..n : Y!laid[k] \in LaidHere
  <2>1. /\ Y!laid \in Seq(LaidHere) /\ n \in Nat /\ DOMAIN Y!laid = 1..n
    BY LaidIsAList
  <2>2. n # 0
    BY <2>1, EmptySeq
  <2> QED BY <2>1, <2>2
<1>2. DrumCores \in Nat /\ DrumCores > 0 /\ top \in Nat
  BY PartsAssumption DEF Y!TrayAssumption
<1>3. \A k \in 1..n : Y!Count(Y!laid[k]) \in Nat /\ Y!Count(Y!laid[k]) <= DrumCores
  BY <1>1, <1>2, ShownAreCables DEF Y!Count
<1>4. \A k \in 1..n : score(k) \in Nat /\ score(k) <= top
  BY <1>2, <1>3
<1>5. \A h, k \in 1..n : Better(Y!laid[h], Y!laid[k]) <=> score(h) > score(k)
  BY <1>3
<1>6. Y!defaultCable = Y!laid[CHOOSE k \in DOMAIN Y!laid : Best(k)]
  BY DEF Y!defaultCable
<1> HIDE DEF n, top, score, Better
<1>7. PICK m \in 1..n : \A k \in 1..n : score(k) <= score(m)
  <2> DEFINE rest == {top - score(k) : k \in 1..n}
  <2>1. rest \in SUBSET Nat /\ rest # {}
    <3>1. \A k \in 1..n : top - score(k) \in Nat
      BY <1>2, <1>4
    <3>2. 1 \in 1..n
      BY <1>1
    <3> QED BY <3>1, <3>2
  <2>2. PICK r \in rest : \A q \in rest : r <= q
    <3> HIDE DEF rest
    <3> QED BY <2>1, LeastExists
  <2>3. PICK m \in 1..n : r = top - score(m)
    OBVIOUS
  <2>4. ASSUME NEW k \in 1..n PROVE score(k) <= score(m)
    <3>1. r <= top - score(k)
      BY <2>2
    <3> QED BY <1>2, <1>4, <2>3, <3>1
  <2> QED BY <2>4
<1>8. PICK j \in 1..n : score(j) = score(m) /\ \A k \in 1..n : score(k) = score(m) => j <= k
  <2> DEFINE ties == {k \in 1..n : score(k) = score(m)}
  <2>1. ties \in SUBSET Nat /\ ties # {}
    OBVIOUS
  <2>2. PICK j \in ties : \A k \in ties : j <= k
    <3> HIDE DEF ties
    <3> QED BY <2>1, LeastExists
  <2> QED BY <2>2
<1>9. Best(j)
  <2>1. ASSUME NEW h \in DOMAIN Y!laid PROVE ~Better(Y!laid[h], Y!laid[j])
    BY <1>1, <1>4, <1>5, <1>7, <1>8
  <2>2. ASSUME NEW h \in 1..(j - 1) PROVE Better(Y!laid[j], Y!laid[h])
    <3>1. h \in 1..n /\ ~(j <= h)
      BY <1>1
    <3>2. score(h) # score(m) /\ score(h) <= score(m)
      BY <1>7, <1>8, <3>1
    <3>3. score(j) > score(h)
      BY <1>4, <1>8, <3>1, <3>2
    <3> QED BY <1>5, <3>1, <3>3
  <2> QED BY <2>1, <2>2
<1>10. (CHOOSE k \in DOMAIN Y!laid : Best(k)) \in DOMAIN Y!laid
  <2> HIDE DEF Best
  <2> QED BY <1>1, <1>9
<1> QED BY <1>1, <1>6, <1>10

-----------------------------------------------------------------------------
\* The inductive invariant of the tray.
TrayInv == TrayTypes /\ openCable \in ending \cup {None}

LEMMA TrayInit ==
    ASSUME Y!Init
    PROVE  TrayInv
<1>1. TrayTypes
  <2>1. ending = Y!Cables /\ name \in [Y!Cables -> Y!Names]
    BY DEF Y!Init, Y!Names
  <2>2. ASSUME NEW j \in trayJoints PROVE TrayJoint(j)
    <3>1. PICK n \in 1..DrumCores : j = [fibres |-> {<<1, n>>, <<2, n>>}, port |-> None]
      BY <2>2 DEF Y!Init
    <3>2. n \in Nat /\ <<1, n>> \in Nat \X Nat /\ <<2, n>> \in Nat \X Nat /\ <<1, n>> # <<2, n>>
      BY PartsAssumption DEF Y!TrayAssumption
    <3>3. j.fibres = {<<1, n>>, <<2, n>>}
      BY <3>1
    <3> QED BY <3>1, <3>2, <3>3 DEF TrayJoint
  <2> QED BY <2>1, <2>2 DEF TrayTypes
<1>2. openCable = Y!defaultCable
  BY DEF Y!Init, Y!Opened
<1>3. Y!defaultCable \in LaidHere \cup {None}
  BY <1>1, DefaultStands DEF DefaultIsShown
<1> QED BY <1>1, <1>2, <1>3, ShownAreCables DEF TrayInv

\* A list that moved settles on a cable that ends here.
LEMMA SettleKeeps ==
    ASSUME TrayTypes', Y!Settle
    PROVE  openCable' \in ending' \cup {None}
<1>1. TrayTypes' => DefaultIsShown'
  BY DefaultStands, PTL
<1>2. Y!defaultCable' \in ending' \cup {None}
  BY <1>1 DEF DefaultIsShown, LaidHere
<1> QED BY <1>2 DEF Y!Settle

LEMMA TrayKeeps ==
    ASSUME TrayInv, [Y!Next]_trayVars
    PROVE  TrayInv'
<1> USE DEF Y!record, Y!view, Y!Change
<1>1. TrayTypes /\ openCable \in ending \cup {None}
  BY DEF TrayInv
<1>2. ASSUME NEW e \in Y!entries PROVE e.main \in ending
  <2>1. PICK c \in Y!ToSet(Y!laid) : e.main = c
    BY DEF Y!entries
  <2> QED BY <1>1, <2>1, LaidIsAList, ShownAreCables
<1>3. CASE \/ Y!FoldPlan
           \/ \E e \in Y!entries : Y!Pick(e)
           \/ \E row \in Y!ToSet(Y!Rows) : Y!Expand(row)
           \/ \E row \in Y!ToSet(Y!portRows) : Y!ExpandPorts(row)
           \/ \E p \in Y!PortNumbers : Y!Dropped(p)
           \/ UNCHANGED trayVars
  <2>1. UNCHANGED <<ending, name, trayJoints>> /\ (openCable' = openCable \/ openCable' \in ending)
    BY <1>2, <1>3 DEF Y!FoldPlan, Y!Pick, Y!Expand, Y!ExpandPorts, Y!Dropped, trayVars
  <2> QED BY <1>1, <2>1 DEF TrayInv, TrayTypes
<1>4. ASSUME NEW f \in Y!FreeHere, NEW g \in Y!FreeHere, NEW p, Y!Joined({f, g}, p)
      PROVE  TrayInv'
  <2>1. /\ p # None => Y!Cardinality({f, g}) = 1
        /\ trayJoints' = trayJoints \cup {[fibres |-> {f, g}, port |-> p]}
        /\ UNCHANGED <<ending, name, openCable>>
    BY <1>4 DEF Y!Joined
  <2>2. f \in Nat \X Nat /\ g \in Nat \X Nat
    BY PartsAssumption DEF Y!FreeHere, Y!Fibres, Y!Cables, Y!TrayAssumption
  <2>3. f # g => p = None
    <3> SUFFICES ASSUME f # g, p # None PROVE FALSE
      OBVIOUS
    <3>1. IsFiniteSet({f, g}) /\ Cardinality({f, g}) = 1
      <4>1. IsFiniteSet({f} \cup {g}) /\ {f} \cup {g} = {f, g}
        BY FS_Singleton, FS_Union
      <4> QED BY <2>1, <4>1 DEF Cardinality, Y!Cardinality, IsFiniteSet, Y!IsFiniteSet
    <3>2. PICK x : {f, g} = {x}
      BY <3>1, FS_Singleton
    <3> QED BY <3>2
  <2>4. TrayJoint([fibres |-> {f, g}, port |-> p])
    BY <2>2, <2>3 DEF TrayJoint
  <2> QED BY <1>1, <2>1, <2>4 DEF TrayInv, TrayTypes
<1>5. ASSUME NEW j \in trayJoints, Y!Cleared(j) PROVE TrayInv'
  BY <1>1, <1>5 DEF Y!Cleared, TrayInv, TrayTypes
<1>6. ASSUME NEW c \in Y!Cables,
             Y!Gone(c) \/ Y!Come(c) \/ \E n \in Y!Names : Y!Renamed(c, n)
      PROVE  TrayInv'
  <2>1. TrayTypes' /\ Y!Settle
    <3>1. CASE Y!Gone(c)
      BY <1>1, <3>1 DEF Y!Gone, TrayTypes
    <3>2. CASE Y!Come(c)
      BY <1>1, <3>2 DEF Y!Come, TrayTypes
    <3>3. CASE \E n \in Y!Names : Y!Renamed(c, n)
      BY <1>1, <3>3 DEF Y!Renamed, TrayTypes
    <3> QED BY <1>6, <3>1, <3>2, <3>3
  <2> QED BY <2>1, SettleKeeps DEF TrayInv
<1> QED
  <2>1. CASE \E fs \in {{f, g} : f, g \in Y!FreeHere}, p \in Y!PortNumbers \cup {None} :
               Y!Joined(fs, p)
    <3>1. PICK fs \in {{f, g} : f, g \in Y!FreeHere}, p \in Y!PortNumbers \cup {None} :
             Y!Joined(fs, p)
      BY <2>1
    <3>2. PICK f \in Y!FreeHere, g \in Y!FreeHere : fs = {f, g}
      OBVIOUS
    <3>3. Y!Joined({f, g}, p)
      BY <3>1, <3>2
    <3> QED BY <1>4, <3>3
  <2>2. CASE Y!Next
    BY <1>3, <1>5, <1>6, <2>1, <2>2 DEF Y!Next
  <2> QED BY <1>3, <2>2

-----------------------------------------------------------------------------
\* Rows of a pool that follow each other from the first to the last.
Rowed(pool) == \A r \in pool : r.from \in Nat /\ r.to \in Nat /\ r.from <= r.to

Tells(pool, told, first, last) ==
    /\ told \in Seq(pool)
    /\ first > last => told = <<>>
    /\ first <= last => told # <<>> /\ told[1].from = first /\ told[Len(told)].to = last
    /\ \A k \in 1..Len(told) : k > 1 => told[k].from = told[k - 1].to + 1

LEMMA ThenTells ==
    ASSUME NEW pool, Rowed(pool), NEW i \in Nat, NEW e \in Nat, NEW m \in Nat, i <= e + 1,
           e <= m, NEW a, NEW b, Tells(pool, a, i, e), Tells(pool, b, e + 1, m)
    PROVE  Tells(pool, a \o b, i, m)
<1>1. a \in Seq(pool) /\ b \in Seq(pool) /\ Len(a) \in Nat /\ Len(b) \in Nat
  BY DEF Tells
<1>2. CASE i > e
  <2>1. a = <<>> /\ i = e + 1
    BY <1>2 DEF Tells
  <2>2. a \o b = b
    BY <1>1, <2>1, ConcatEmptySeq
  <2> QED BY <2>1, <2>2
<1>3. CASE e + 1 > m
  <2>1. b = <<>> /\ e = m
    BY <1>3 DEF Tells
  <2>2. a \o b = a
    BY <1>1, <2>1, ConcatEmptySeq
  <2> QED BY <2>1, <2>2
<1>4. CASE i <= e /\ e + 1 <= m
  <2> DEFINE ab == a \o b
             n == Len(a)
             k == Len(b)
  <2>1. /\ ab \in Seq(pool) /\ Len(ab) = n + k
        /\ \A x \in 1..(n + k) : ab[x] = IF x <= n THEN a[x] ELSE b[x - n]
    BY <1>1, ConcatProperties
  <2>2. /\ a # <<>> /\ a[1].from = i /\ a[n].to = e
        /\ b # <<>> /\ b[1].from = e + 1 /\ b[k].to = m
        /\ \A x \in 1..n : x > 1 => a[x].from = a[x - 1].to + 1
        /\ \A x \in 1..k : x > 1 => b[x].from = b[x - 1].to + 1
    BY <1>4 DEF Tells
  <2>3. n \in Nat /\ k \in Nat /\ n > 0 /\ k > 0
    BY <1>1, <2>2, EmptySeq
  <2> HIDE DEF ab, n, k
  <2>4. ab[1] = a[1] /\ ab[n + k] = b[k]
    <3>1. 1 \in 1..(n + k) /\ 1 <= n /\ n + k \in 1..(n + k) /\ ~(n + k <= n)
      BY <2>3
    <3>2. ab[1] = a[1] /\ ab[n + k] = b[(n + k) - n]
      BY <2>1, <3>1
    <3>3. (n + k) - n = k
      BY <2>3
    <3> QED BY <3>2, <3>3
  <2>5. ASSUME NEW x \in 1..(n + k), x > 1 PROVE ab[x].from = ab[x - 1].to + 1
    <3>1. x - 1 \in 1..(n + k)
      BY <2>3, <2>5
    <3>2. CASE x <= n
      <4>1. x \in 1..n /\ x - 1 <= n
        BY <2>3, <3>2
      <4>2. ab[x] = a[x] /\ ab[x - 1] = a[x - 1]
        BY <2>1, <3>1, <3>2, <4>1
      <4> QED BY <2>2, <2>5, <4>1, <4>2
    <3>3. CASE x = n + 1
      <4>1. x - n = 1 /\ x - 1 = n /\ ~(x <= n) /\ n <= n
        BY <2>3, <3>3
      <4>2. ab[x] = b[1] /\ ab[x - 1] = a[n]
        BY <2>1, <3>1, <4>1
      <4> QED BY <2>2, <4>2
    <3>4. CASE x > n + 1
      <4>1. x - n \in 1..k /\ x - n > 1 /\ (x - 1) - n = (x - n) - 1 /\ ~(x <= n) /\ ~(x - 1 <= n)
        BY <2>3, <3>4
      <4>2. ab[x] = b[x - n] /\ ab[x - 1] = b[(x - n) - 1]
        BY <2>1, <3>1, <4>1
      <4> QED BY <2>2, <4>1, <4>2
    <3> QED BY <2>3, <3>2, <3>3, <3>4
  <2>6. ab # <<>> /\ i <= m /\ ~(i > m)
    <3>1. ab # <<>>
      BY <2>1, <2>3, EmptySeq
    <3> QED BY <1>4, <3>1
  <2>7. Tells(pool, ab, i, m)
    <3>1. ab[1].from = i /\ ab[Len(ab)].to = m
      BY <2>1, <2>2, <2>4
    <3>2. \A x \in 1..Len(ab) : x > 1 => ab[x].from = ab[x - 1].to + 1
      BY <2>1, <2>5
    <3> QED BY <2>1, <2>6, <3>1, <3>2 DEF Tells
  <2> QED BY <2>7 DEF ab
<1> QED BY <1>2, <1>3, <1>4

LEMMA OneTells ==
    ASSUME NEW pool, Rowed(pool), NEW r \in pool
    PROVE  Tells(pool, <<r>>, r.from, r.to)
<1>1. <<r>> \in Seq(pool) /\ Len(<<r>>) = 1 /\ <<r>>[1] = r /\ <<r>> # <<>>
  OBVIOUS
<1>2. r.from \in Nat /\ r.to \in Nat /\ r.from <= r.to
  BY DEF Rowed
<1> QED BY <1>1, <1>2 DEF Tells

LEMMA EachTells ==
    ASSUME NEW pool, Rowed(pool), NEW i \in Nat, NEW e \in Nat, i <= e + 1,
           NEW s \in Seq(pool), Len(s) = e - i + 1,
           \A n \in 1..Len(s) : s[n].from = i + n - 1 /\ s[n].to = i + n - 1
    PROVE  Tells(pool, s, i, e)
<1>1. Len(s) = 0 => s = <<>>
  BY EmptySeq
<1>2. i <= e => /\ s # <<>> /\ 1 \in 1..Len(s) /\ Len(s) \in 1..Len(s)
                /\ s[1].from = i /\ s[Len(s)].to = e
  <2> SUFFICES ASSUME i <= e
               PROVE  /\ s # <<>> /\ 1 \in 1..Len(s) /\ Len(s) \in 1..Len(s)
                      /\ s[1].from = i /\ s[Len(s)].to = e
    OBVIOUS
  <2>1. 1 \in 1..Len(s) /\ Len(s) \in 1..Len(s)
    OBVIOUS
  <2>2. s # <<>>
    BY <2>1, EmptySeq
  <2>3. s[1].from = i + 1 - 1 /\ s[Len(s)].to = i + Len(s) - 1
    BY <2>1
  <2> QED BY <2>1, <2>2, <2>3
<1>3. ASSUME NEW k \in 1..Len(s), k > 1 PROVE s[k].from = s[k - 1].to + 1
  <2>1. k - 1 \in 1..Len(s)
    BY <1>3
  <2>2. s[k].from = i + k - 1 /\ s[k - 1].to = i + (k - 1) - 1
    BY <2>1
  <2> QED BY <2>2
<1> QED BY <1>1, <1>2, <1>3 DEF Tells

-----------------------------------------------------------------------------
\* The rows of a schedule: within a tube, and what a fold says was said of each
\* of its cores.
Fits(say) ==
    {r \in [from : 1..Len(say), to : 1..Len(say),
             what : {say[k] : k \in 1..Len(say)} \cup {Y!Single}] :
        /\ r.from <= r.to /\ Y!TubeOf(r.from) = Y!TubeOf(r.to)
        /\ r.what = Y!Single \/ \A k \in r.from..r.to : say[k] = r.what}

\* A run of cores of one tube of which the same is said has an end.
LEMMA RunEnds ==
    ASSUME NEW things, NEW say \in Seq(things), NEW i \in 1..Len(say)
    PROVE  \E e \in i..Len(say) :
              /\ \A k \in i..e : say[k] = say[i] /\ Y!TubeOf(k) = Y!TubeOf(i)
              /\ e < Len(say) => say[e + 1] # say[i] \/ Y!TubeOf(e + 1) # Y!TubeOf(i)
<1> DEFINE n == Len(say)
           same(k) == say[k] = say[i] /\ Y!TubeOf(k) = Y!TubeOf(i)
           ends == {e \in i..n : e < n => ~same(e + 1)}
<1>1. n \in Nat /\ i \in Nat /\ i <= n
  OBVIOUS
<1> HIDE DEF n, same
<1>2. ends \in SUBSET Nat /\ ends # {}
  <2>1. n \in i..n /\ ~(n < n)
    BY <1>1
  <2>2. \A e \in i..n : e \in Nat
    BY <1>1
  <2> QED BY <2>1, <2>2
<1>3. PICK e \in ends : \A k \in ends : e <= k
  <2> HIDE DEF ends
  <2> QED BY <1>2, LeastExists
<1>4. e \in i..n /\ e \in Nat /\ e - i \in Nat /\ (e < n => ~same(e + 1))
  BY <1>1
<1> DEFINE good == {d \in 0..(e - i) : same(i + d)}
<1>5. 0 \in good
  BY <1>1, <1>4 DEF same
<1>6. ASSUME NEW d \in 0..(e - i), d > 0, d - 1 \in good PROVE d \in good
  <2>1. i + (d - 1) \in i..n /\ i + (d - 1) < e /\ i + (d - 1) < n /\ (i + (d - 1)) + 1 = i + d
    BY <1>1, <1>4, <1>6
  <2>2. i + (d - 1) \notin ends
    BY <1>1, <1>3, <1>4, <2>1
  <2>3. same((i + (d - 1)) + 1)
    BY <2>1, <2>2
  <2> QED BY <2>1, <2>3
<1>7. good = 0..(e - i)
  <2>1. good \in SUBSET (0..(e - i))
    OBVIOUS
  <2> HIDE DEF good
  <2> QED BY <1>4, <1>5, <1>6, <2>1, UpToBound
<1>8. ASSUME NEW k \in i..e PROVE same(k)
  <2>1. k - i \in 0..(e - i) /\ i + (k - i) = k
    BY <1>1, <1>4
  <2>2. same(i + (k - i))
    BY <1>7, <2>1
  <2> QED BY <2>1, <2>2
<1> QED BY <1>4, <1>8 DEF same, n

\* The schedule of a cable tells each of its cores.
LEMMA ScheduleTells ==
    ASSUME NEW things, NEW say \in Seq(things)
    PROVE  Rowed(Fits(say)) /\ Tells(Fits(say), Y!schedule(say), 1, Len(say))
<1> DEFINE n == Len(say)
           pool == Fits(say)
           RunEnd(i, e) == /\ \A k \in i..e : say[k] = say[i] /\ Y!TubeOf(k) = Y!TubeOf(i)
                           /\ e < n => say[e + 1] # say[i] \/ Y!TubeOf(e + 1) # Y!TubeOf(i)
           End(i) == IF say[i] = Y!Single THEN i ELSE CHOOSE e \in i..n : RunEnd(i, e)
           emit(i, e) ==
               IF say[i] = Y!Single \/ e - i + 1 < MinRun \/ <<i, e>> \in expanded
               THEN [k \in 1..(e - i + 1) |-> Y!Row(i + k - 1, i + k - 1, Y!Single)]
               ELSE <<Y!Row(i, e, say[i])>>
           Unfolds(g) == g = [i \in 1..(n + 1) |->
                                 IF i > n THEN <<>> ELSE emit(i, End(i)) \o g[End(i) + 1]]
           Walk(k, g) == /\ DOMAIN g = (n + 1 - k)..(n + 1) /\ g[n + 1] = <<>>
                         /\ \A i \in (n + 1 - k)..n : g[i] = emit(i, End(i)) \o g[End(i) + 1]
           told == CHOOSE g : Unfolds(g)
<1>1. Y!schedule(say) = told[1]
  BY DEF Y!schedule
<1>2. n \in Nat
  OBVIOUS
<1>3. ASSUME NEW i \in 1..n
      PROVE  /\ End(i) \in i..n /\ End(i) \in Nat /\ i \in Nat
             /\ \A k \in i..End(i) : say[k] = say[i] /\ Y!TubeOf(k) = Y!TubeOf(i)
  <2>1. CASE say[i] = Y!Single
    <3>1. End(i) = i
      BY <2>1
    <3>2. i \in Nat /\ i \in i..n /\ \A k \in i..i : k = i
      BY <1>2
    <3> HIDE DEF End
    <3> QED BY <3>1, <3>2
  <2>2. CASE say[i] # Y!Single
    <3>1. \E e \in i..n : RunEnd(i, e)
      BY RunEnds
    <3>2. End(i) \in i..n /\ RunEnd(i, End(i))
      <4>1. End(i) = CHOOSE e \in i..n : RunEnd(i, e)
        BY <2>2
      <4> HIDE DEF RunEnd, End
      <4> QED BY <3>1, <4>1
    <3> HIDE DEF End
    <3> QED BY <3>2
  <2> QED BY <2>1, <2>2
<1>4. Rowed(pool)
  <2> SUFFICES ASSUME NEW r \in pool PROVE r.from \in Nat /\ r.to \in Nat /\ r.from <= r.to
    BY DEF Rowed
  <2> QED BY DEF Fits
<1>5. ASSUME NEW i \in 1..n PROVE Tells(pool, emit(i, End(i)), i, End(i))
  <2> DEFINE e == End(i)
             s == emit(i, e)
             size == e - i + 1
  <2>1. /\ e \in i..n /\ e \in Nat /\ i \in Nat /\ i <= e /\ e <= n /\ size \in Nat
        /\ \A k \in i..e : say[k] = say[i] /\ Y!TubeOf(k) = Y!TubeOf(i)
    BY <1>3
  <2>2. CASE say[i] = Y!Single \/ size < MinRun \/ <<i, e>> \in expanded
    <3> DEFINE one(k) == Y!Row(i + k - 1, i + k - 1, Y!Single)
    <3>1. s = [k \in 1..size |-> one(k)]
      BY <2>2
    <3>2. \A k \in 1..size : one(k) \in pool /\ one(k).from = i + k - 1 /\ one(k).to = i + k - 1
      <4> SUFFICES ASSUME NEW k \in 1..size
                   PROVE  one(k) \in pool /\ one(k).from = i + k - 1 /\ one(k).to = i + k - 1
        OBVIOUS
      <4>1. i + k - 1 \in 1..n /\ i + k - 1 <= i + k - 1
        BY <2>1
      <4> HIDE DEF size, n, e
      <4> QED BY <4>1 DEF Fits, Y!Row, n
    <3> HIDE DEF e, s, one, size
    <3>3. s \in Seq(pool) /\ Len(s) = size /\ \A k \in 1..size : s[k] = one(k)
      BY <2>1, <3>1, <3>2
    <3>4. i <= e + 1 /\ size = e - i + 1
      BY <2>1 DEF size
    <3> HIDE DEF pool
    <3>5. Tells(pool, s, i, e)
      BY <1>4, <2>1, <3>2, <3>3, <3>4, EachTells
    <3> QED BY <3>5 DEF s, e
  <2>3. CASE ~(say[i] = Y!Single \/ size < MinRun \/ <<i, e>> \in expanded)
    <3> DEFINE r == Y!Row(i, e, say[i])
    <3>1. s = <<r>>
      BY <2>3
    <3> HIDE DEF e, s, n
    <3>2. r \in pool /\ r.from = i /\ r.to = e
      <4>1. i \in 1..n /\ e \in 1..n
        BY <2>1
      <4>2. Y!TubeOf(i) = Y!TubeOf(e) /\ \A k \in i..e : say[k] = say[i]
        <5>1. e \in i..e
          BY <2>1
        <5> QED BY <2>1, <5>1
      <4> QED BY <2>1, <4>1, <4>2 DEF Fits, Y!Row, n
    <3> HIDE DEF r, pool
    <3>3. Tells(pool, <<r>>, r.from, r.to)
      BY <1>4, <3>2, OneTells
    <3>4. Tells(pool, s, i, e)
      BY <3>1, <3>2, <3>3
    <3> QED BY <3>4 DEF s, e
  <2> QED BY <2>2, <2>3
<1> HIDE DEF n, End, emit, RunEnd
<1>6. \E g : Unfolds(g)
  <2> DEFINE good == {k \in 0..n : \E g : Walk(k, g)}
  <2>1. 0 \in good
    <3> DEFINE g == [i \in (n + 1)..(n + 1) |-> <<>>]
    <3>1. DOMAIN g = (n + 1 - 0)..(n + 1) /\ g[n + 1] = <<>> /\ (n + 1 - 0)..n = {}
      BY <1>2
    <3> HIDE DEF g
    <3>2. Walk(0, g)
      BY <3>1
    <3> HIDE DEF Walk
    <3> QED BY <1>2, <3>2
  <2>2. ASSUME NEW k \in 0..n, k > 0, k - 1 \in good PROVE k \in good
    <3>1. PICK g : Walk(k - 1, g)
      BY <2>2
    <3> DEFINE j == n + 1 - k
               one == emit(j, End(j)) \o g[End(j) + 1]
               h == [i \in j..(n + 1) |-> IF i = j THEN one ELSE g[i]]
    <3>2. j \in 1..n /\ j \in Nat /\ n + 1 - (k - 1) = j + 1 /\ n + 1 \in (j + 1)..(n + 1)
          /\ n + 1 # j /\ n + 1 \in j..(n + 1) /\ j \in j..(n + 1)
      BY <1>2, <2>2
    <3>3. /\ g[n + 1] = <<>>
          /\ \A i \in (j + 1)..n : g[i] = emit(i, End(i)) \o g[End(i) + 1]
      BY <3>1, <3>2
    <3> HIDE DEF j, one
    <3>4. h[j] = one /\ \A i \in (j + 1)..(n + 1) : h[i] = g[i]
      <4>1. \A i \in (j + 1)..(n + 1) : i # j /\ i \in j..(n + 1)
        BY <1>2, <3>2
      <4> QED BY <3>2, <4>1
    <3>5. DOMAIN h = j..(n + 1)
      OBVIOUS
    <3> HIDE DEF h
    <3>6. \A i \in j..n : /\ End(i) + 1 \in (j + 1)..(n + 1)
                          /\ i = j \/ (i \in (j + 1)..n /\ i \in (j + 1)..(n + 1))
      <4> SUFFICES ASSUME NEW i \in j..n
                   PROVE  /\ End(i) + 1 \in (j + 1)..(n + 1)
                          /\ i = j \/ (i \in (j + 1)..n /\ i \in (j + 1)..(n + 1))
        OBVIOUS
      <4>1. i \in 1..n
        BY <1>2, <3>2
      <4>2. End(i) \in i..n /\ End(i) \in Nat /\ i \in Nat
        BY <1>3, <4>1
      <4> QED BY <1>2, <3>2, <4>2
    <3>7. \A i \in j..n : h[i] = emit(i, End(i)) \o h[End(i) + 1]
      BY <3>3, <3>4, <3>6 DEF one
    <3>8. Walk(k, h)
      BY <3>2, <3>3, <3>4, <3>5, <3>7 DEF j
    <3> HIDE DEF Walk
    <3> QED BY <3>8
  <2>3. good = 0..n
    <3>1. good \in SUBSET (0..n)
      OBVIOUS
    <3> HIDE DEF good
    <3> QED BY <1>2, <2>1, <2>2, <3>1, UpToBound
  <2>4. PICK g : Walk(n, g)
    <3>1. n \in good
      <4>1. n \in 0..n
        BY <1>2
      <4> HIDE DEF good
      <4> QED BY <2>3, <4>1
    <3> QED BY <3>1
  <2> DEFINE h == [i \in 1..(n + 1) |-> g[i]]
  <2>5. n + 1 - n = 1 /\ n + 1 \in 1..(n + 1) /\ n + 1 > n
    BY <1>2
  <2>6. g[n + 1] = <<>> /\ \A i \in 1..n : g[i] = emit(i, End(i)) \o g[End(i) + 1]
    BY <2>4, <2>5
  <2>7. h = [i \in 1..(n + 1) |-> IF i > n THEN <<>> ELSE emit(i, End(i)) \o h[End(i) + 1]]
    <3>1. ASSUME NEW i \in 1..(n + 1)
          PROVE  h[i] = IF i > n THEN <<>> ELSE emit(i, End(i)) \o h[End(i) + 1]
      <4>1. CASE i > n
        <5>1. i = n + 1
          BY <1>2, <4>1
        <5> QED BY <2>6, <4>1, <5>1
      <4>2. CASE ~(i > n)
        <5>1. i \in 1..n
          BY <1>2, <4>2
        <5>2. End(i) + 1 \in 1..(n + 1)
          <6>1. End(i) \in i..n /\ End(i) \in Nat
            BY <1>3, <5>1
          <6> QED BY <1>2, <5>1, <6>1
        <5> QED BY <2>6, <4>2, <5>1, <5>2
      <4> QED BY <4>1, <4>2
    <3> QED BY <3>1
  <2> HIDE DEF h
  <2>8. Unfolds(h)
    BY <2>7
  <2> HIDE DEF Unfolds
  <2> QED BY <2>8
<1>7. Unfolds(told)
  <2> HIDE DEF Unfolds
  <2> QED BY <1>6
<1> HIDE DEF told
<1>8. told[n + 1] = <<>> /\ \A i \in 1..n : told[i] = emit(i, End(i)) \o told[End(i) + 1]
  <2>1. \A i \in 1..(n + 1) :
           told[i] = IF i > n THEN <<>> ELSE emit(i, End(i)) \o told[End(i) + 1]
    BY <1>7
  <2>2. n + 1 \in 1..(n + 1) /\ n + 1 > n /\ \A i \in 1..n : i \in 1..(n + 1) /\ ~(i > n)
    BY <1>2
  <2> QED BY <2>1, <2>2
<1> DEFINE good == {k \in 0..n : \A i \in (n + 1 - k)..(n + 1) : Tells(pool, told[i], i, n)}
<1>9. 0 \in good
  <2>1. Tells(pool, <<>>, n + 1, n)
    <3>1. <<>> \in Seq(pool) /\ 1..Len(<<>>) = {} /\ n + 1 > n /\ ~(n + 1 <= n)
      BY <1>2
    <3> QED BY <3>1 DEF Tells
  <2>2. \A i \in (n + 1 - 0)..(n + 1) : i = n + 1
    BY <1>2
  <2> HIDE DEF pool
  <2> QED BY <1>2, <1>8, <2>1, <2>2
<1>10. ASSUME NEW k \in 0..n, k > 0, k - 1 \in good PROVE k \in good
  <2> DEFINE j == n + 1 - k
  <2> HIDE DEF pool
  <2>1. j \in 1..n /\ j \in Nat /\ n + 1 - (k - 1) = j + 1
    BY <1>2, <1>10
  <2>2. \A i \in (j + 1)..(n + 1) : Tells(pool, told[i], i, n)
    BY <1>10, <2>1
  <2> HIDE DEF j
  <2>3. End(j) \in j..n /\ End(j) \in Nat /\ End(j) + 1 \in (j + 1)..(n + 1)
    <3>1. End(j) \in j..n /\ End(j) \in Nat
      BY <1>3, <2>1
    <3> QED BY <1>2, <2>1, <3>1
  <2> DEFINE e == End(j)
             a == emit(j, End(j))
             b == told[End(j) + 1]
  <2>4. Tells(pool, a, j, e) /\ Tells(pool, b, e + 1, n)
    BY <1>5, <2>1, <2>2, <2>3
  <2>5. told[j] = a \o b
    BY <1>8, <2>1
  <2>6. e \in Nat /\ j <= e + 1 /\ e <= n
    BY <1>2, <2>1, <2>3
  <2> HIDE DEF a, b, e
  <2>7. Tells(pool, told[j], j, n)
    BY <1>2, <1>4, <2>1, <2>4, <2>5, <2>6, ThenTells
  <2>8. \A i \in j..(n + 1) : i = j \/ i \in (j + 1)..(n + 1)
    BY <1>2, <2>1
  <2>9. \A i \in j..(n + 1) : Tells(pool, told[i], i, n)
    BY <2>2, <2>7, <2>8
  <2> QED BY <2>9 DEF j
<1>11. good = 0..n
  <2>1. good \in SUBSET (0..n)
    OBVIOUS
  <2> HIDE DEF good
  <2> QED BY <1>2, <1>9, <1>10, <2>1, UpToBound
<1>12. Tells(pool, told[1], 1, n)
  <2>1. n \in good
    <3>1. n \in 0..n
      BY <1>2
    <3> HIDE DEF good
    <3> QED BY <1>11, <3>1
  <2>2. 1 \in (n + 1 - n)..(n + 1)
    BY <1>2
  <2> HIDE DEF pool
  <2> QED BY <2>1, <2>2
<1> QED BY <1>1, <1>4, <1>12 DEF n

-----------------------------------------------------------------------------
\* The rows of the ports: a fold is of idle ports of one kind.
PortFits ==
    {r \in [from : 1..Len(TrayPorts), to : 1..Len(TrayPorts)] :
        /\ r.from <= r.to
        /\ r.from < r.to =>
              \A q \in r.from..r.to : ~Y!busyPort(q) /\ TrayPorts[q] = TrayPorts[r.from]}

\* A run of ports that are still to be told, behind the first k, up to p.
Idle(k, p, run) ==
    /\ run \in Seq(Nat) /\ Len(run) = p - k
    /\ \A i \in 1..Len(run) : run[i] = k + i
    /\ \A q \in (k + 1)..p : ~Y!busyPort(q) /\ TrayPorts[q] = TrayPorts[k + 1]

Flushed(out, run) ==
    out \o
      (IF Len(run) >= MinPortRun /\ run[1] \notin openRuns
       THEN <<[from |-> run[1], to |-> run[Len(run)]]>>
       ELSE [n \in DOMAIN run |-> [from |-> run[n], to |-> run[n]]])

LEMMA PortsRowed == Rowed(PortFits)
BY DEF Rowed, PortFits

LEMMA FlushTells ==
    ASSUME NEW p \in 0..Len(TrayPorts), NEW k \in 0..p, Len(TrayPorts) \in Nat, NEW out, NEW run,
           Tells(PortFits, out, 1, k), Idle(k, p, run)
    PROVE  Tells(PortFits, Flushed(out, run), 1, p)
<1> DEFINE fold == [from |-> run[1], to |-> run[Len(run)]]
           each == [n \in DOMAIN run |-> [from |-> run[n], to |-> run[n]]]
           m == Len(TrayPorts)
<1>1. /\ run \in Seq(Nat) /\ Len(run) = p - k /\ DOMAIN run = 1..(p - k)
      /\ \A i \in 1..(p - k) : run[i] = k + i
      /\ \A q \in (k + 1)..p : ~Y!busyPort(q) /\ TrayPorts[q] = TrayPorts[k + 1]
  BY DEF Idle
<1>2. /\ MinPortRun \in Nat /\ MinPortRun > 0 /\ p \in Nat /\ k \in Nat /\ k <= p /\ p <= m
      /\ m \in Nat
  BY PartsAssumption DEF Y!TrayAssumption
<1> HIDE DEF m
<1>3. CASE Len(run) >= MinPortRun /\ run[1] \notin openRuns
  <2>1. Flushed(out, run) = out \o <<fold>>
    BY <1>3 DEF Flushed
  <2>2. p - k \in Nat /\ 1 \in 1..(p - k) /\ p - k \in 1..(p - k)
    BY <1>1, <1>2, <1>3
  <2>3. fold.from = k + 1 /\ fold.to = p
    <3>1. run[1] = k + 1 /\ run[p - k] = k + (p - k)
      BY <1>1, <2>2
    <3> QED BY <1>1, <1>2, <3>1
  <2>4. fold \in PortFits
    <3>1. k + 1 \in 1..m /\ p \in 1..m /\ k + 1 <= p
      BY <1>2, <2>2
    <3>2. fold \in [from : 1..m, to : 1..m]
      BY <2>3, <3>1
    <3> HIDE DEF fold
    <3> QED BY <1>1, <2>3, <3>1, <3>2 DEF PortFits, m
  <2> HIDE DEF fold
  <2>5. Tells(PortFits, <<fold>>, k + 1, p)
    BY <2>3, <2>4, OneTells, PortsRowed
  <2>6. Tells(PortFits, out \o <<fold>>, 1, p)
    <3>1. 1 \in Nat /\ 1 <= k + 1
      BY <1>2
    <3> QED BY <1>2, <2>5, <3>1, ThenTells, PortsRowed
  <2> QED BY <2>1, <2>6
<1>4. CASE ~(Len(run) >= MinPortRun /\ run[1] \notin openRuns)
  <2>1. Flushed(out, run) = out \o each
    BY <1>4 DEF Flushed
  <2>2. \A i \in 1..(p - k) : /\ [from |-> run[i], to |-> run[i]] \in PortFits
                              /\ k + i = (k + 1) + i - 1
    <3> SUFFICES ASSUME NEW i \in 1..(p - k)
                 PROVE  /\ [from |-> run[i], to |-> run[i]] \in PortFits
                        /\ k + i = (k + 1) + i - 1
      OBVIOUS
    <3>1. run[i] \in 1..m /\ run[i] <= run[i]
      BY <1>1, <1>2
    <3> QED BY <1>2, <3>1 DEF PortFits, m
  <2>3. /\ each \in Seq(PortFits) /\ Len(each) = p - k
        /\ \A i \in 1..(p - k) : each[i].from = k + i /\ each[i].to = k + i
    <3>1. each = [i \in 1..(p - k) |-> [from |-> run[i], to |-> run[i]]]
      BY <1>1
    <3>2. p - k \in Nat
      BY <1>2
    <3>3. each \in Seq(PortFits) /\ Len(each) = p - k
      <4> HIDE DEF each
      <4> QED BY <2>2, <3>1, <3>2
    <3> QED BY <1>1, <3>1, <3>3
  <2> HIDE DEF each
  <2>4. \A i \in 1..Len(each) : each[i].from = (k + 1) + i - 1 /\ each[i].to = (k + 1) + i - 1
    BY <2>2, <2>3
  <2>5. Tells(PortFits, each, k + 1, p)
    <3> DEFINE first == k + 1
    <3>1. first \in Nat /\ first <= p + 1 /\ Len(each) = p - first + 1
      BY <1>2, <2>3
    <3>2. \A i \in 1..Len(each) : each[i].from = first + i - 1 /\ each[i].to = first + i - 1
      BY <2>4
    <3>3. each \in Seq(PortFits)
      BY <2>3
    <3> HIDE DEF first
    <3>4. Tells(PortFits, each, first, p)
      BY <1>2, <3>1, <3>2, <3>3, EachTells, PortsRowed
    <3> QED BY <3>4 DEF first
  <2>6. Tells(PortFits, out \o each, 1, p)
    <3>1. 1 \in Nat /\ 1 <= k + 1
      BY <1>2
    <3> QED BY <1>2, <2>5, <3>1, ThenTells, PortsRowed
  <2> QED BY <2>1, <2>6
<1> QED BY <1>3, <1>4

\* The rows of the ports tell each of them.
LEMMA PortsTell ==
    Len(TrayPorts) \in Nat /\ Tells(PortFits, Y!portRows, 1, Len(TrayPorts))
<1> DEFINE m == Len(TrayPorts)
           flush(s) ==
               [out |-> s.out \o
                    (IF Len(s.run) >= MinPortRun /\ s.run[1] \notin openRuns
                     THEN <<[from |-> s.run[1], to |-> s.run[Len(s.run)]]>>
                     ELSE [n \in DOMAIN s.run |-> [from |-> s.run[n], to |-> s.run[n]]]),
                run |-> <<>>]
           next(s, p) ==
               IF Y!busyPort(p)
               THEN [out |-> Append(flush(s).out, [from |-> p, to |-> p]), run |-> <<>>]
               ELSE IF s.run # <<>> /\ TrayPorts[s.run[1]] # TrayPorts[p]
               THEN [flush(s) EXCEPT !.run = <<p>>]
               ELSE [s EXCEPT !.run = Append(@, p)]
           start == [out |-> <<>>, run |-> <<>>]
           Unfolds(g) == g = [p \in 0..m |-> IF p = 0 THEN start ELSE next(g[p - 1], p)]
           Walk(k, g) == /\ DOMAIN g = 0..k /\ g[0] = start
                         /\ \A p \in 1..k : g[p] = next(g[p - 1], p)
           walk == CHOOSE g : Unfolds(g)
           Stands(p, s) == \E k \in 0..p, out \in Seq(PortFits), run \in Seq(Nat) :
                              /\ s = [out |-> out, run |-> run]
                              /\ Tells(PortFits, out, 1, k) /\ Idle(k, p, run)
<1>1. Y!portRows = flush(walk[m]).out
  BY DEF Y!portRows
<1>2. m \in Nat
  BY PartsAssumption DEF Y!TrayAssumption
<1>3. \A s : flush(s) = [out |-> Flushed(s.out, s.run), run |-> <<>>]
  BY DEF Flushed
<1> HIDE DEF flush
<1>4. ASSUME NEW p \in 1..m, NEW s, Stands(p - 1, s)
      PROVE  Stands(p, next(s, p))
  <2>1. PICK k \in 0..(p - 1), out \in Seq(PortFits), run \in Seq(Nat) :
           /\ s = [out |-> out, run |-> run]
           /\ Tells(PortFits, out, 1, k) /\ Idle(k, p - 1, run)
    BY <1>4
  <2> DEFINE told == Flushed(out, run)
             own == [from |-> p, to |-> p]
  <2>2. p \in Nat /\ p - 1 \in 0..m /\ p - 1 \in Nat /\ k \in Nat /\ p \in 0..p /\ p - 1 \in 0..p
        /\ (p - 1) + 1 = p /\ k \in 0..p
    BY <1>2
  <2>3. flush(s) = [out |-> told, run |-> <<>>]
    <3>1. s.out = out /\ s.run = run
      BY <2>1
    <3> QED BY <1>3, <3>1
  <2>4. Tells(PortFits, told, 1, p - 1) /\ told \in Seq(PortFits)
    <3> DEFINE before == p - 1
    <3>1. /\ before \in 0..Len(TrayPorts) /\ k \in 0..before /\ Len(TrayPorts) \in Nat
          /\ Tells(PortFits, out, 1, k) /\ Idle(k, before, run)
      BY <1>2, <2>1, <2>2
    <3> HIDE DEF before, told
    <3>2. Tells(PortFits, Flushed(out, run), 1, before)
      BY <3>1, FlushTells
    <3> QED BY <3>2 DEF Tells, before, told
  <2> HIDE DEF told
  <2>5. CASE Y!busyPort(p)
    <3>1. next(s, p) = [out |-> Append(told, own), run |-> <<>>]
      BY <2>3, <2>5
    <3>2. own \in PortFits /\ own.from = p /\ own.to = p
      <4>1. own \in [from : 1..m, to : 1..m] /\ own.from <= own.to /\ ~(own.from < own.to)
        BY <1>2
      <4> HIDE DEF own
      <4>2. own \in PortFits
        BY <4>1 DEF PortFits
      <4> QED BY <4>2 DEF own
    <3> HIDE DEF own
    <3>3. Append(told, own) = told \o <<own>>
      BY <2>4, <3>2, AppendIsConcat
    <3>4. Tells(PortFits, <<own>>, p, p)
      BY <3>2, OneTells, PortsRowed
    <3>5. Tells(PortFits, told \o <<own>>, 1, p)
      <4>1. 1 \in Nat /\ 1 <= (p - 1) + 1 /\ p - 1 <= p
        BY <2>2
      <4>2. Tells(PortFits, <<own>>, (p - 1) + 1, p)
        BY <2>2, <3>4
      <4> QED BY <2>2, <2>4, <4>1, <4>2, ThenTells, PortsRowed
    <3>6. Append(told, own) \in Seq(PortFits) /\ Tells(PortFits, Append(told, own), 1, p)
      BY <3>3, <3>5 DEF Tells
    <3>7. Idle(p, p, <<>>) /\ <<>> \in Seq(Nat)
      <4>1. <<>> \in Seq(Nat) /\ Len(<<>>) = 0 /\ p - p = 0 /\ 1..0 = {} /\ (p + 1)..p = {}
        BY <2>2
      <4> QED BY <4>1 DEF Idle
    <3> HIDE DEF next
    <3> QED BY <2>2, <3>1, <3>6, <3>7
  <2>6. CASE ~Y!busyPort(p) /\ run # <<>> /\ TrayPorts[run[1]] # TrayPorts[p]
    <3>1. next(s, p) = [out |-> told, run |-> <<p>>]
      <4>1. s.run = run
        BY <2>1
      <4>2. next(s, p) = [flush(s) EXCEPT !.run = <<p>>]
        BY <2>6, <4>1
      <4> QED BY <2>3, <4>2
    <3>2. Idle(p - 1, p, <<p>>) /\ <<p>> \in Seq(Nat)
      <4>1. <<p>> \in Seq(Nat) /\ Len(<<p>>) = 1 /\ <<p>>[1] = p /\ p - (p - 1) = 1
            /\ \A q \in ((p - 1) + 1)..p : q = p
        BY <2>2
      <4>2. \A i \in 1..Len(<<p>>) : i = 1
        OBVIOUS
      <4> QED BY <2>2, <2>6, <4>1, <4>2 DEF Idle
    <3> HIDE DEF next
    <3> QED BY <2>2, <2>4, <3>1, <3>2
  <2>7. CASE ~Y!busyPort(p) /\ ~(run # <<>> /\ TrayPorts[run[1]] # TrayPorts[p])
    <3> DEFINE more == Append(run, p)
    <3>1. next(s, p) = [out |-> out, run |-> more]
      <4>1. s.run = run
        BY <2>1
      <4>2. next(s, p) = [s EXCEPT !.run = Append(@, p)]
        BY <2>7, <4>1
      <4> QED BY <2>1, <4>2
    <3>2. /\ Len(run) = (p - 1) - k /\ \A i \in 1..Len(run) : run[i] = k + i
          /\ \A q \in (k + 1)..(p - 1) : ~Y!busyPort(q) /\ TrayPorts[q] = TrayPorts[k + 1]
      BY <2>1 DEF Idle
    <3>3. /\ more \in Seq(Nat) /\ Len(more) = Len(run) + 1
          /\ \A i \in 1..Len(run) : more[i] = run[i]
          /\ more[Len(run) + 1] = p
      BY <2>2, AppendProperties
    <3> HIDE DEF more
    <3>4. Len(more) = p - k /\ \A i \in 1..Len(more) : more[i] = k + i
      <4>1. Len(more) = p - k /\ Len(run) + 1 = p - k /\ Len(run) \in Nat
        BY <2>2, <3>2, <3>3
      <4>2. ASSUME NEW i \in 1..Len(more) PROVE more[i] = k + i
        <5>1. CASE i \in 1..Len(run)
          BY <3>2, <3>3, <5>1
        <5>2. CASE i \notin 1..Len(run)
          <6> DEFINE r == Len(run)
          <6>1. r \in Nat /\ r + 1 = p - k /\ i \in 1..(p - k) /\ i \notin 1..r
            BY <4>1, <5>2
          <6> HIDE DEF r
          <6>2. i = r + 1 /\ k + i = p
            BY <2>2, <6>1
          <6> QED BY <3>3, <6>2 DEF r
        <5> QED BY <5>1, <5>2
      <4> QED BY <4>1, <4>2
    <3>5. TrayPorts[p] = TrayPorts[k + 1]
      <4>1. CASE run = <<>>
        <5>1. Len(run) = 0
          BY <4>1
        <5>2. p = k + 1
          BY <2>2, <3>2, <5>1
        <5> QED BY <5>2
      <4>2. CASE run # <<>>
        <5>1. Len(run) \in Nat /\ Len(run) # 0
          BY <4>2, EmptySeq
        <5>2. 1 \in 1..Len(run)
          BY <5>1
        <5>3. run[1] = k + 1
          BY <3>2, <5>2
        <5> QED BY <2>7, <4>2, <5>3
      <4> QED BY <4>1, <4>2
    <3>6. ASSUME NEW q \in (k + 1)..p
          PROVE  ~Y!busyPort(q) /\ TrayPorts[q] = TrayPorts[k + 1]
      <4>1. q = p \/ q \in (k + 1)..(p - 1)
        BY <2>2
      <4> QED BY <2>7, <3>2, <3>5, <4>1
    <3>7. Idle(k, p, more)
      BY <3>3, <3>4, <3>6 DEF Idle
    <3> HIDE DEF next
    <3> QED BY <2>1, <2>2, <3>1, <3>3, <3>7
  <2> QED BY <2>5, <2>6, <2>7
<1> HIDE DEF m, next, start
<1>5. \E g : Unfolds(g)
  <2> DEFINE good == {k \in 0..m : \E g : Walk(k, g)}
  <2>1. 0 \in good
    <3>1. Walk(0, [i \in 0..0 |-> start])
      OBVIOUS
    <3> HIDE DEF Walk
    <3> QED BY <1>2, <3>1
  <2>2. ASSUME NEW k \in 0..m, k > 0, k - 1 \in good PROVE k \in good
    <3>1. PICK g : Walk(k - 1, g)
      BY <2>2
    <3> DEFINE h == [i \in 0..k |-> IF i = k THEN next(g[k - 1], k) ELSE g[i]]
    <3>2. \A i \in 0..k : i # k => i \in 0..(k - 1)
      BY <1>2
    <3>3. h[k] = next(g[k - 1], k) /\ \A i \in 0..(k - 1) : h[i] = g[i]
      BY <1>2, <2>2
    <3>4. \A i \in 1..k : i - 1 \in 0..(k - 1) /\ (i # k => i \in 1..(k - 1))
      BY <1>2
    <3>5. DOMAIN h = 0..k /\ 0 \in 0..(k - 1) /\ k - 1 \in 0..(k - 1)
      BY <1>2, <2>2
    <3> HIDE DEF h
    <3>6. \A i \in 1..k : h[i] = next(h[i - 1], i)
      BY <3>1, <3>3, <3>4, <3>5
    <3>7. Walk(k, h)
      BY <3>1, <3>3, <3>5, <3>6
    <3> HIDE DEF Walk
    <3> QED BY <3>7
  <2>3. good = 0..m
    <3>1. good \in SUBSET (0..m)
      OBVIOUS
    <3> HIDE DEF good
    <3> QED BY <1>2, <2>1, <2>2, <3>1, UpToBound
  <2>4. PICK g : Walk(m, g)
    <3>1. m \in 0..m
      BY <1>2
    <3>2. m \in good
      <4> HIDE DEF good
      <4> QED BY <2>3, <3>1
    <3> QED BY <3>2
  <2> DEFINE h == [i \in 0..m |-> g[i]]
  <2>5. h = [i \in 0..m |-> IF i = 0 THEN start ELSE next(h[i - 1], i)]
    <3>1. ASSUME NEW i \in 0..m
          PROVE  h[i] = IF i = 0 THEN start ELSE next(h[i - 1], i)
      <4>1. CASE i = 0
        BY <2>4, <4>1
      <4>2. CASE i # 0
        <5>1. i \in 1..m /\ i - 1 \in 0..m
          BY <1>2, <4>2
        <5>2. g[i] = next(g[i - 1], i)
          BY <2>4, <5>1
        <5> QED BY <4>2, <5>1, <5>2
      <4> QED BY <4>1, <4>2
    <3> QED BY <3>1
  <2> HIDE DEF h
  <2>6. Unfolds(h)
    BY <2>5
  <2> HIDE DEF Unfolds
  <2> QED BY <2>6
<1>6. Unfolds(walk)
  <2> HIDE DEF Unfolds
  <2> QED BY <1>5
<1> HIDE DEF walk
<1>7. walk[0] = start /\ \A p \in 1..m : walk[p] = next(walk[p - 1], p)
  <2>1. \A p \in 0..m : walk[p] = IF p = 0 THEN start ELSE next(walk[p - 1], p)
    BY <1>6
  <2>2. 0 \in 0..m /\ \A p \in 1..m : p \in 0..m /\ p # 0
    BY <1>2
  <2> QED BY <2>1, <2>2
<1> DEFINE good == {p \in 0..m : Stands(p, walk[p])}
<1>8. 0 \in good
  <2>1. <<>> \in Seq(PortFits) /\ <<>> \in Seq(Nat) /\ Len(<<>>) = 0 /\ 1..0 = {} /\ 0 \in 0..0
        /\ 0 - 0 = 0 /\ (0 + 1)..0 = {}
    OBVIOUS
  <2>2. Tells(PortFits, <<>>, 1, 0) /\ Idle(0, 0, <<>>)
    BY <2>1 DEF Tells, Idle
  <2>3. Stands(0, start)
    BY <2>1, <2>2 DEF start
  <2> HIDE DEF Stands
  <2> QED BY <1>2, <1>7, <2>3
<1>9. ASSUME NEW p \in 0..m, p > 0, p - 1 \in good PROVE p \in good
  <2>1. p \in 1..m
    BY <1>2, <1>9
  <2>2. Stands(p - 1, walk[p - 1])
    BY <1>9
  <2> HIDE DEF Stands
  <2>3. Stands(p, walk[p])
    BY <1>4, <1>7, <2>1, <2>2
  <2> QED BY <2>3
<1>10. good = 0..m
  <2>1. good \in SUBSET (0..m)
    OBVIOUS
  <2> HIDE DEF good
  <2> QED BY <1>2, <1>8, <1>9, <2>1, UpToBound
<1>11. Stands(m, walk[m])
  <2>1. m \in 0..m
    BY <1>2
  <2> HIDE DEF Stands
  <2> QED BY <1>10, <2>1
<1>12. PICK k \in 0..m, out \in Seq(PortFits), run \in Seq(Nat) :
          /\ walk[m] = [out |-> out, run |-> run]
          /\ Tells(PortFits, out, 1, k) /\ Idle(k, m, run)
  BY <1>11
<1>13. Y!portRows = Flushed(out, run)
  <2>1. flush(walk[m]) = [out |-> Flushed(out, run), run |-> <<>>]
    <3>1. walk[m].out = out /\ walk[m].run = run
      BY <1>12
    <3> QED BY <1>3, <3>1
  <2> QED BY <1>1, <2>1
<1>14. Tells(PortFits, Flushed(out, run), 1, m)
  <2>1. m \in 0..Len(TrayPorts) /\ Len(TrayPorts) \in Nat
    BY <1>2 DEF m
  <2> QED BY <1>12, <2>1, FlushTells
<1> QED BY <1>2, <1>13, <1>14 DEF m

-----------------------------------------------------------------------------
\* What a fibre meets here is joined to it.
LEMMA MeetsWhatIsJoined ==
    ASSUME TrayTypes, NEW f \in Nat \X Nat
    PROVE  LET to == Y!joinIndex(f)
           IN  /\ to = None => \A j \in trayJoints : f \notin j.fibres
               /\ \/ to = None
                  \/ to = InTheBox
                  \/ /\ to \in Nat \X Nat
                     /\ [fibres |-> {f, to}, port |-> None] \in trayJoints
<1> DEFINE to == Y!joinIndex(f)
<1>1. None # InTheBox /\ None \notin Nat \X Nat
  BY PartsAssumption DEF Y!TrayAssumption
<1>2. CASE \A j \in trayJoints : f \notin j.fibres
  <2>1. to = None
    BY <1>2 DEF Y!joinIndex
  <2> QED BY <1>2, <2>1
<1>3. CASE \E j \in trayJoints : f \in j.fibres
  <2> DEFINE j == CHOOSE k \in trayJoints : f \in k.fibres
  <2>1. j \in trayJoints /\ f \in j.fibres
    BY <1>3
  <2>2. to = IF j.fibres = {f} THEN InTheBox ELSE CHOOSE g \in j.fibres : g # f
    BY <1>3 DEF Y!joinIndex
  <2>3. TrayJoint(j)
    BY <2>1 DEF TrayTypes
  <2> HIDE DEF j, to
  <2>4. CASE \E g \in Nat \X Nat : j.fibres = {g}
    <3>1. j.fibres = {f}
      BY <2>1, <2>4
    <3>2. to = InTheBox
      BY <2>2, <3>1
    <3> QED BY <1>1, <3>2 DEF to
  <2>5. CASE \E g, h \in Nat \X Nat : j.fibres = {g, h} /\ g # h
                                      /\ j = [fibres |-> {g, h}, port |-> None]
    <3>1. PICK g \in Nat \X Nat, h \in Nat \X Nat :
             j.fibres = {g, h} /\ g # h /\ j = [fibres |-> {g, h}, port |-> None]
      BY <2>5
    <3>2. PICK o \in Nat \X Nat : o # f /\ j.fibres = {f, o}
                                  /\ j = [fibres |-> {f, o}, port |-> None]
      <4>1. CASE f = g
        BY <3>1, <4>1
      <4>2. CASE f = h
        <5>1. {g, h} = {f, g}
          BY <4>2
        <5> QED BY <3>1, <4>2, <5>1
      <4> QED BY <2>1, <3>1, <4>1, <4>2
    <3>3. to = o
      <4>1. j.fibres # {f}
        BY <3>2
      <4>2. to = CHOOSE x \in {f, o} : x # f
        BY <2>2, <3>2, <4>1
      <4> QED BY <3>2, <4>2
    <3>4. to \in Nat \X Nat /\ [fibres |-> {f, to}, port |-> None] \in trayJoints
      BY <2>1, <3>2, <3>3
    <3> QED BY <1>1, <3>4 DEF to
  <2> QED BY <2>3, <2>4, <2>5 DEF TrayJoint
<1> QED BY <1>2, <1>3

\* What is said of core i of cable c, of which d is the other half if it has one.
SaidOf(what, c, d, i) ==
    /\ what.kind = "free" => ~Y!Touched(c, i) /\ (d # None => ~Y!Touched(d, i))
    /\ what.kind \in {"run", "through"} =>
          [fibres |-> {<<c, i>>, <<what.of, i>>}, port |-> None] \in trayJoints

LEMMA StraightIsSo ==
    ASSUME TrayTypes, NEW c \in Nat, NEW i \in 1..Y!Count(c), Y!Count(c) \in Nat
    PROVE  SaidOf(Y!Straight(c)[i], c, None, i)
<1> DEFINE to == Y!joinIndex(<<c, i>>)
           what == Y!Straight(c)[i]
<1>1. what = IF to = None THEN Y!Free
             ELSE IF to # InTheBox /\ to[2] = i THEN [kind |-> "run", of |-> to[1]]
             ELSE Y!Single
  BY DEF Y!Straight
<1>2. <<c, i>> \in Nat \X Nat
  OBVIOUS
<1>3. /\ to = None => \A j \in trayJoints : <<c, i>> \notin j.fibres
      /\ \/ to = None
         \/ to = InTheBox
         \/ to \in Nat \X Nat /\ [fibres |-> {<<c, i>>, to}, port |-> None] \in trayJoints
  BY <1>2, MeetsWhatIsJoined
<1> HIDE DEF to, what
<1>4. CASE to = None
  <2>1. what.kind = "free" /\ ~Y!Touched(c, i)
    BY <1>1, <1>3, <1>4 DEF Y!Free, Y!Touched
  <2> QED BY <2>1 DEF SaidOf, what
<1>5. CASE to # None /\ to # InTheBox /\ to[2] = i
  <2>1. what.kind = "run" /\ what.of = to[1]
    BY <1>1, <1>5
  <2>2. to = <<to[1], i>> /\ [fibres |-> {<<c, i>>, to}, port |-> None] \in trayJoints
    BY <1>3, <1>5
  <2>3. [fibres |-> {<<c, i>>, <<what.of, i>>}, port |-> None] \in trayJoints
    BY <2>1, <2>2
  <2> QED BY <2>1, <2>3 DEF SaidOf, what
<1>6. CASE to # None /\ ~(to # InTheBox /\ to[2] = i)
  <2>1. what.kind = "core"
    BY <1>1, <1>6 DEF Y!Single
  <2> QED BY <2>1 DEF SaidOf, what
<1> QED BY <1>4, <1>5, <1>6

LEMMA CutIsSo ==
    ASSUME TrayTypes, NEW d, d.near \in Nat, d.far \in Nat, Y!Count(d.near) \in Nat,
           NEW i \in 1..Y!Count(d.near)
    PROVE  SaidOf(Y!Cut(d)[i], d.near, d.far, i)
<1> DEFINE near == Y!joinIndex(<<d.near, i>>)
           far == Y!joinIndex(<<d.far, i>>)
           what == Y!Cut(d)[i]
<1>1. what = IF near = <<d.far, i>> THEN [kind |-> "through", of |-> d.far]
             ELSE IF near = None /\ far = None THEN Y!Free ELSE Y!Single
  BY DEF Y!Cut
<1>2. <<d.near, i>> \in Nat \X Nat /\ <<d.far, i>> \in Nat \X Nat
  OBVIOUS
<1>3. /\ near = None => \A j \in trayJoints : <<d.near, i>> \notin j.fibres
      /\ \/ near = None
         \/ near = InTheBox
         \/ near \in Nat \X Nat
            /\ [fibres |-> {<<d.near, i>>, near}, port |-> None] \in trayJoints
  BY <1>2, MeetsWhatIsJoined
<1>4. far = None => \A j \in trayJoints : <<d.far, i>> \notin j.fibres
  BY <1>2, MeetsWhatIsJoined
<1>5. None \notin Nat \X Nat /\ InTheBox \notin Nat \X Nat
  BY PartsAssumption DEF Y!TrayAssumption
<1> HIDE DEF near, far, what
<1>6. CASE near = <<d.far, i>>
  <2>1. what.kind = "through" /\ what.of = d.far
    BY <1>1, <1>6
  <2>2. [fibres |-> {<<d.near, i>>, <<d.far, i>>}, port |-> None] \in trayJoints
    BY <1>2, <1>3, <1>5, <1>6
  <2> QED BY <2>1, <2>2 DEF SaidOf, what
<1>7. CASE near # <<d.far, i>> /\ near = None /\ far = None
  <2>1. what.kind = "free" /\ ~Y!Touched(d.near, i) /\ ~Y!Touched(d.far, i)
    BY <1>1, <1>3, <1>4, <1>7 DEF Y!Free, Y!Touched
  <2> QED BY <2>1 DEF SaidOf, what
<1>8. CASE near # <<d.far, i>> /\ ~(near = None /\ far = None)
  <2>1. what.kind = "core"
    BY <1>1, <1>8 DEF Y!Single
  <2> QED BY <2>1 DEF SaidOf, what
<1> QED BY <1>6, <1>7, <1>8

\* Rows that tell a cable, of which each core is said what is so.
LEMMA RowsTell ==
    ASSUME NEW say, NEW size \in Nat, say = [i \in 1..size |-> say[i]], NEW c, NEW d,
           (c \in DOMAIN Y!cutPairs) => d = Y!cutPairs[c] /\ d # None,
           \A i \in 1..size : SaidOf(say[i], c, d, i)
    PROVE  /\ Y!Covers(Y!schedule(say), size)
           /\ \A row \in Y!ToSet(Y!schedule(say)) :
                 Y!Truth(row, c) /\ Y!TubeOf(row.from) = Y!TubeOf(row.to)
<1> DEFINE things == {say[i] : i \in 1..size}
           told == Y!schedule(say)
<1>1. say \in [1..size -> things]
  OBVIOUS
<1>2. say \in Seq(things) /\ Len(say) = size
  <2> HIDE DEF things
  <2> QED BY <1>1
<1>3. Rowed(Fits(say)) /\ Tells(Fits(say), told, 1, size)
  <2> HIDE DEF things
  <2> QED BY <1>2, ScheduleTells
<1> HIDE DEF told, things
<1>4. told \in Seq(Fits(say)) /\ DOMAIN told = 1..Len(told) /\ Len(told) \in Nat
      /\ \A k \in 1..Len(told) : told[k] \in Fits(say)
  <2> DEFINE pool == Fits(say)
  <2>1. told \in Seq(pool)
    BY <1>3 DEF Tells
  <2> HIDE DEF pool
  <2>2. /\ told \in Seq(pool) /\ DOMAIN told = 1..Len(told) /\ Len(told) \in Nat
        /\ \A k \in 1..Len(told) : told[k] \in pool
    BY <2>1
  <2> QED BY <2>2 DEF pool
<1>5. Y!Covers(told, size)
  <2>1. size > 0 => 1 <= size
    OBVIOUS
  <2>2. \A k \in 1..Len(told) : told[k].from <= told[k].to
    BY <1>3, <1>4 DEF Rowed
  <2>3. DOMAIN told = 1..Len(told)
    BY <1>4
  <2>4. Tells(Fits(say), told, 1, size)
    BY <1>3
  <2> QED BY <2>1, <2>2, <2>3, <2>4 DEF Tells, Y!Covers
<1>6. ASSUME NEW r \in Fits(say) PROVE Y!Truth(r, c) /\ Y!TubeOf(r.from) = Y!TubeOf(r.to)
  <2>1. /\ r.from \in 1..size /\ r.to \in 1..size /\ Y!TubeOf(r.from) = Y!TubeOf(r.to)
        /\ r.what = Y!Single \/ \A k \in r.from..r.to : say[k] = r.what
    BY <1>2 DEF Fits
  <2>2. CASE r.what = Y!Single
    <3>1. r.what.kind = "core"
      BY <2>2 DEF Y!Single
    <3> QED BY <2>1, <3>1 DEF Y!Truth
  <2>3. CASE \A k \in r.from..r.to : say[k] = r.what
    <3>1. ASSUME NEW n \in r.from..r.to PROVE SaidOf(r.what, c, d, n)
      <4>1. n \in 1..size
        <5> DEFINE a == r.from
                   b == r.to
        <5>1. a \in 1..size /\ b \in 1..size /\ n \in a..b
          BY <2>1
        <5> HIDE DEF a, b
        <5> QED BY <5>1
      <4> QED BY <2>3, <4>1
    <3> QED BY <2>1, <3>1 DEF Y!Truth, SaidOf
  <2> QED BY <2>1, <2>2, <2>3
<1>7. Y!ToSet(told) = {told[k] : k \in 1..Len(told)}
  BY <1>4 DEF Y!ToSet
<1> QED BY <1>4, <1>5, <1>6, <1>7 DEF told

-----------------------------------------------------------------------------
\* The tray of a state of the invariant.
LEMMA TrayShows == TrayInv => Y!TrayTellsAll
<1> SUFFICES ASSUME TrayInv PROVE Y!TrayTellsAll
  OBVIOUS
<1>1. TrayTypes /\ openCable \in ending \cup {None}
  BY DEF TrayInv
<1>2. ASSUME NEW c \in ending, ~Y!isPlumbing(c)
      PROVE  Y!Cardinality({e \in Y!entries : c \in {e.main, e.mate}}) = 1
  <2>1. c \in LaidHere
    BY <1>2 DEF LaidHere
  <2> QED BY <1>1, <2>1, PickedOnce
<1> DEFINE near == IF Y!drum = None THEN openCable ELSE Y!drum.near
           told == Y!Rows
<1>3. ASSUME openCable # None
      PROVE  /\ openCable \in ending
             /\ Y!Covers(told, Y!Count(openCable))
             /\ \A row \in Y!ToSet(told) :
                   Y!Truth(row, near) /\ Y!TubeOf(row.from) = Y!TubeOf(row.to)
  <2>1. openCable \in ending /\ openCable \in 1..3 /\ openCable \in Nat
    BY <1>1, <1>3 DEF TrayTypes, Y!Cables
  <2>2. Y!Count(openCable) \in Nat
    BY PartsAssumption DEF Y!TrayAssumption, Y!Count
  <2>3. CASE openCable \notin DOMAIN Y!cutPairs
    <3> DEFINE say == Y!Straight(openCable)
               size == Y!Count(openCable)
    <3>1. Y!drum = None
      BY <2>3 DEF Y!drum
    <3>2. told = Y!schedule(say) /\ near = openCable
      BY <1>3, <3>1 DEF Y!Rows
    <3>3. say = [i \in 1..size |-> say[i]]
      BY DEF Y!Straight
    <3>4. \A i \in 1..size : SaidOf(say[i], openCable, None, i)
      BY <1>1, <2>1, <2>2, StraightIsSo
    <3> HIDE DEF say, size, told, near
    <3>5. /\ Y!Covers(Y!schedule(say), size)
          /\ \A row \in Y!ToSet(Y!schedule(say)) :
                Y!Truth(row, openCable) /\ Y!TubeOf(row.from) = Y!TubeOf(row.to)
      <4>1. size \in Nat
        BY <2>2 DEF size
      <4> QED BY <2>3, <3>3, <3>4, <4>1, RowsTell
    <3> QED BY <2>1, <3>2, <3>5 DEF size
  <2>4. CASE openCable \in DOMAIN Y!cutPairs
    <3> DEFINE c == openCable
               o == Y!cutPairs[c]
               d == Y!drum
    <3>1. /\ c \in LaidHere /\ o \in LaidHere /\ o # c /\ o \in DOMAIN Y!cutPairs
          /\ Y!cutPairs[o] = c /\ Y!Count(o) = Y!Count(c)
      BY <1>1, <2>4, HalvesAreMates
    <3>2. d = [near |-> c, far |-> o] \/ d = [near |-> o, far |-> c]
      BY <1>3, <2>4 DEF Y!drum
    <3>3. c \in Nat /\ o \in Nat /\ None \notin Nat
      BY <1>1, <3>1, ShownAreCables, PartsAssumption DEF Y!TrayAssumption
    <3> HIDE DEF d, o
    <3>4. /\ d.near \in Nat /\ d.far \in Nat /\ d.near \in DOMAIN Y!cutPairs
          /\ Y!cutPairs[d.near] = d.far /\ Y!Count(d.near) = Y!Count(c) /\ d.far # None
      <4>1. c \in DOMAIN Y!cutPairs /\ Y!cutPairs[c] = o
        BY <2>4 DEF o
      <4> QED BY <3>1, <3>2, <3>3, <4>1
    <3>5. d # None
      <4>1. d \in [near : Nat, far : Nat]
        BY <3>2, <3>3
      <4>2. None \notin [near : Nat, far : Nat]
        BY PartsAssumption DEF Y!TrayAssumption
      <4> QED BY <4>1, <4>2
    <3> DEFINE say == Y!Cut(d)
               size == Y!Count(d.near)
    <3>6. told = Y!schedule(say) /\ near = d.near
      BY <1>3, <3>5 DEF Y!Rows, d
    <3>7. say = [i \in 1..size |-> say[i]]
      BY DEF Y!Cut
    <3>8. size \in Nat
      BY <2>2, <3>4
    <3>9. \A i \in 1..size : SaidOf(say[i], d.near, d.far, i)
      BY <1>1, <3>4, <3>8, CutIsSo
    <3> HIDE DEF say, size, told, near
    <3>10. /\ Y!Covers(Y!schedule(say), size)
           /\ \A row \in Y!ToSet(Y!schedule(say)) :
                 Y!Truth(row, d.near) /\ Y!TubeOf(row.from) = Y!TubeOf(row.to)
      BY <3>4, <3>7, <3>8, <3>9, RowsTell
    <3>11. size = Y!Count(openCable)
      BY <3>4 DEF size
    <3> QED BY <2>1, <3>6, <3>10, <3>11
  <2> QED BY <2>3, <2>4
<1> DEFINE m == Len(TrayPorts)
<1>4. /\ Y!portRows \in Seq(PortFits) /\ DOMAIN Y!portRows = 1..Len(Y!portRows)
      /\ Len(Y!portRows) \in Nat /\ m \in Nat
      /\ \A k \in 1..Len(Y!portRows) : Y!portRows[k] \in PortFits
  BY PortsTell DEF Tells
<1>5. Y!Covers(Y!portRows, m)
  <2> DEFINE ports == Y!portRows
  <2>1. Tells(PortFits, ports, 1, m)
    BY PortsTell
  <2>2. \A k \in 1..Len(ports) : ports[k].from <= ports[k].to
    BY <1>4, PortsRowed DEF Rowed
  <2>3. m > 0 => 1 <= m
    BY <1>4
  <2>4. DOMAIN ports = 1..Len(ports)
    BY <1>4
  <2> HIDE DEF ports, m
  <2>5. Y!Covers(ports, m)
    BY <2>1, <2>2, <2>3, <2>4 DEF Tells, Y!Covers
  <2> QED BY <2>5 DEF ports
<1>6. ASSUME NEW row \in Y!ToSet(Y!portRows), row.from < row.to
      PROVE  \A p \in row.from..row.to :
                ~Y!busyPort(p) /\ TrayPorts[p] = TrayPorts[row.from]
  <2>1. row \in PortFits
    BY <1>4, <1>6 DEF Y!ToSet
  <2> QED BY <1>6, <2>1 DEF PortFits
<1> HIDE DEF told, near
<1> QED BY <1>2, <1>3, <1>5, <1>6 DEF Y!TrayTellsAll, told, near

\* However a cut is spliced, undone, renamed and taken away under the tray,
\* and whatever the numbers of cores and the lengths of the folds: every cable
\* can be picked, every core and every port is told once, and nothing untrue.
THEOREM TrayTells == PartsSpec => []TrayTellsAll
<1> DEFINE Inv == part = "tray" => TrayInv
<1>1. PartsInit => Inv
  BY TrayInit DEF PartsInit
<1>2. Inv /\ [PartsNext]_allVars => Inv'
  BY PartsMove, TrayKeeps
<1>3. Inv => TrayTellsAll
  BY TrayShows DEF TrayTellsAll
<1> QED BY <1>1, <1>2, <1>3, PTL DEF PartsSpec
===============================================================================
