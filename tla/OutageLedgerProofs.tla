------------------------- MODULE OutageLedgerProofs --------------------------
(***************************************************************************)
(* What a reader of the outages table may rely on, for any devices and any *)
(* sequence of its operations.                                             *)
(***************************************************************************)
EXTENDS OutageLedger, TLAPS

TypeOK == rows \in Seq(Outages)

IInv == TypeOK /\ OneOpenOutage

-----------------------------------------------------------------------------
LEMMA OpenKeeps ==
    ASSUME IInv, NEW d \in Devices, NEW cat \in Categories, Open(d, cat)
    PROVE  IInv'
<1> DEFINE row == [dev |-> d, cat |-> cat, open |-> TRUE]
<1>1. rows \in Seq(Outages) /\ row \in Outages /\ rows' = Append(rows, row)
  BY DEF IInv, TypeOK, Outages, Open
<1>2. /\ TypeOK'
      /\ DOMAIN rows' = 1..(Len(rows) + 1) /\ DOMAIN rows = 1..Len(rows)
      /\ Len(rows) \in Nat
      /\ rows'[Len(rows) + 1] = row
      /\ \A o \in 1..Len(rows) : rows'[o] = rows[o]
  BY <1>1 DEF TypeOK
<1>3. \A o \in 1..Len(rows) : ~(rows[o].dev = d /\ rows[o].open)
  BY <1>2 DEF Open, IsOpen
<1>4. OneOpenOutage'
  <2> SUFFICES ASSUME NEW o \in DOMAIN rows', NEW p \in DOMAIN rows',
                      rows'[o].open, rows'[p].open, rows'[o].dev = rows'[p].dev
               PROVE  o = p
    BY DEF OneOpenOutage
  <2>1. row.dev = d
    OBVIOUS
  <2>2. CASE o \in 1..Len(rows) /\ p \in 1..Len(rows)
    BY <2>2, <1>2 DEF IInv, OneOpenOutage
  <2>3. CASE o = Len(rows) + 1 \/ p = Len(rows) + 1
    BY <2>1, <2>3, <1>2, <1>3
  <2> QED  BY <2>2, <2>3, <1>2
<1> QED  BY <1>2, <1>4 DEF IInv

\* What recategorize and resolve have in common: rows change in place, and none
\* is opened again.
InPlace ==
    /\ rows' = [o \in DOMAIN rows |-> rows'[o]]
    /\ \A o \in DOMAIN rows : /\ rows'[o] \in Outages
                              /\ rows'[o].dev = rows[o].dev
                              /\ rows'[o].open => rows[o].open
                              /\ ~rows[o].open => rows'[o] = rows[o]

LEMMA RecategorizeInPlace ==
    ASSUME TypeOK, NEW d \in Devices, NEW cat \in Categories, Recategorize(d, cat)
    PROVE  InPlace
<1>1. \A o \in DOMAIN rows : rows[o] \in Outages
  BY DEF TypeOK
<1>2. \A o \in DOMAIN rows :
        rows'[o] = IF rows[o].dev = d /\ rows[o].open
                   THEN [rows[o] EXCEPT !.cat = cat] ELSE rows[o]
  BY DEF Recategorize
<1>3. rows' = [o \in DOMAIN rows |-> rows'[o]]
  BY DEF Recategorize
<1>4. ASSUME NEW o \in DOMAIN rows
      PROVE  /\ rows'[o] \in Outages
             /\ rows'[o].dev = rows[o].dev
             /\ rows'[o].open => rows[o].open
             /\ ~rows[o].open => rows'[o] = rows[o]
  BY <1>1, <1>2 DEF Outages
<1> QED  BY <1>3, <1>4 DEF InPlace

LEMMA ResolveInPlace ==
    ASSUME TypeOK, NEW d \in Devices, Resolve(d)
    PROVE  InPlace
<1>1. \A o \in DOMAIN rows : rows[o] \in Outages
  BY DEF TypeOK
<1>2. \A o \in DOMAIN rows :
        rows'[o] = IF rows[o].dev = d /\ rows[o].open
                   THEN [rows[o] EXCEPT !.open = FALSE] ELSE rows[o]
  BY DEF Resolve
<1>3. rows' = [o \in DOMAIN rows |-> rows'[o]]
  BY DEF Resolve
<1>4. ASSUME NEW o \in DOMAIN rows
      PROVE  /\ rows'[o] \in Outages
             /\ rows'[o].dev = rows[o].dev
             /\ rows'[o].open => rows[o].open
             /\ ~rows[o].open => rows'[o] = rows[o]
  BY <1>1, <1>2 DEF Outages
<1> QED  BY <1>3, <1>4 DEF InPlace

LEMMA InPlaceKeeps ==
    ASSUME TypeOK, InPlace
    PROVE  TypeOK' /\ DOMAIN rows' = DOMAIN rows /\ (OneOpenOutage => OneOpenOutage')
<1>1. DOMAIN rows = 1..Len(rows) /\ Len(rows) \in Nat /\ DOMAIN rows' = DOMAIN rows
  BY DEF TypeOK, InPlace
<1>2. rows' \in [1..Len(rows) -> Outages]
  BY <1>1 DEF InPlace
<1>3. TypeOK'
  BY <1>1, <1>2 DEF TypeOK
<1>4. OneOpenOutage => OneOpenOutage'
  BY <1>1 DEF OneOpenOutage, InPlace
<1> QED  BY <1>1, <1>3, <1>4

\* A device never has two open outages (the NOT EXISTS of open_outage_if_absent).
THEOREM OneOpen == Spec => []OneOpenOutage
<1>1. Init => IInv
  BY DEF Init, IInv, TypeOK, OneOpenOutage
<1>2. IInv /\ [Next]_rows => IInv'
  <2> SUFFICES ASSUME IInv, [Next]_rows PROVE IInv'
    OBVIOUS
  <2>1. CASE UNCHANGED rows
    BY <2>1 DEF IInv, TypeOK, OneOpenOutage
  <2>2. ASSUME NEW d \in Devices, NEW cat \in Categories, Open(d, cat) PROVE IInv'
    BY <2>2, OpenKeeps
  <2>3. ASSUME NEW d \in Devices, NEW cat \in Categories, Recategorize(d, cat) PROVE IInv'
    BY <2>3, RecategorizeInPlace, InPlaceKeeps DEF IInv
  <2>4. ASSUME NEW d \in Devices, Resolve(d) PROVE IInv'
    BY <2>4, ResolveInPlace, InPlaceKeeps DEF IInv
  <2> QED  BY <2>1, <2>2, <2>3, <2>4 DEF Next
<1>3. IInv => OneOpenOutage
  BY DEF IInv
<1> QED  BY <1>1, <1>2, <1>3, PTL DEF Spec

\* An outage that is over is history: no operation touches it, and no row is
\* ever removed.
THEOREM ResolvedIsFinal ==
    Spec => [][\A o \in DOMAIN rows :
                  /\ o \in DOMAIN rows'
                  /\ ~rows[o].open => rows'[o] = rows[o]]_rows
<1> DEFINE Final == \A o \in DOMAIN rows :
                       /\ o \in DOMAIN rows'
                       /\ ~rows[o].open => rows'[o] = rows[o]
<1>1. Init => TypeOK
  BY DEF Init, TypeOK
<1>2. TypeOK /\ [Next]_rows => TypeOK' /\ [Final]_rows
  <2> SUFFICES ASSUME TypeOK, Next PROVE TypeOK' /\ Final
    BY DEF TypeOK
  <2>1. ASSUME NEW d \in Devices, NEW cat \in Categories, Open(d, cat)
        PROVE  TypeOK' /\ Final
    BY <2>1 DEF Open, TypeOK, Outages
  <2>2. ASSUME InPlace PROVE TypeOK' /\ Final
    BY <2>2, InPlaceKeeps DEF InPlace
  <2>3. CASE \E d \in Devices, cat \in Categories : Recategorize(d, cat)
    BY <2>2, <2>3, RecategorizeInPlace
  <2>4. CASE \E d \in Devices : Resolve(d)
    BY <2>2, <2>4, ResolveInPlace
  <2> QED  BY <2>1, <2>3, <2>4 DEF Next
<1> QED  BY <1>1, <1>2, PTL DEF Spec
=============================================================================
