---------------------------- MODULE OutageLedger -----------------------------
(***************************************************************************)
(* What the outages table promises everybody who reads it (the dashboard,  *)
(* the incident grouping, the reports): an append-only ledger in which a   *)
(* device has at most one open outage, and in which an outage, once        *)
(* resolved, never changes again.                                          *)
(***************************************************************************)
EXTENDS Naturals, Sequences

CONSTANTS
    Devices,
    Categories \* what an outage can be: DOWN, or UNREACHABLE behind a dead parent

VARIABLE rows \* the outages so far, oldest first

Outages == [dev : Devices, cat : Categories, open : BOOLEAN]

IsOpen(d) == \E o \in DOMAIN rows : rows[o].dev = d /\ rows[o].open

Init == rows = <<>>

Open(d, cat) ==
    /\ ~IsOpen(d)
    /\ rows' = Append(rows, [dev |-> d, cat |-> cat, open |-> TRUE])

Recategorize(d, cat) ==
    rows' = [o \in DOMAIN rows |->
                IF rows[o].dev = d /\ rows[o].open
                THEN [rows[o] EXCEPT !.cat = cat] ELSE rows[o]]

Resolve(d) ==
    rows' = [o \in DOMAIN rows |->
                IF rows[o].dev = d /\ rows[o].open
                THEN [rows[o] EXCEPT !.open = FALSE] ELSE rows[o]]

Next ==
    \E d \in Devices :
        \/ \E cat \in Categories : Open(d, cat) \/ Recategorize(d, cat)
        \/ Resolve(d)

Spec == Init /\ [][Next]_rows

OneOpenOutage ==
    \A o, p \in DOMAIN rows :
        rows[o].open /\ rows[p].open /\ rows[o].dev = rows[p].dev => o = p
=============================================================================
