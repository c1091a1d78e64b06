----------------------------- MODULE BillingLedger ----------------------------
(***************************************************************************)
(* The ledger of one organisation (src/src/wisp/central/billing.py,        *)
(* store_billing.py, api/billing.py): days accrue, finished months become  *)
(* invoices, payments are allocated to invoices oldest first, and the      *)
(* oldest open invoice locks the dashboard.                                *)
(*                                                                         *)
(* Every write of the store is a transaction of its own: the sweep, a      *)
(* webhook and a superadmin's request are sequences of them that           *)
(* interleave, and a crash of central cuts them short.                     *)
(***************************************************************************)
EXTENDS Integers, FiniteSets, FiniteSetsExt

CONSTANTS
    LastDay,       \* bound: the days are 0..LastDay
    DaysPerMonth,
    Rates,         \* what a day may cost
    BannerDays,    \* metering.BANNER_DAYS
    BackfillMax,   \* metering.BACKFILL_MAX_DAYS
    Ids,           \* the gateway's payment ids
    Admins,        \* superadmins' requests under way at a time
    MaxEdits,      \* bound: superadmin writes
    MaxCrashes     \* bound: restarts of central

VARIABLES
    today,
    accrued,     \* billing_accruals: what each day cost, or NoRow
    invoice,     \* billing_invoices: by month
    gateway,     \* billing_payments of kind gateway: by payment id
    manual,      \* the sum of the manual payments and adjustments
    exempt, deactivated, anchor,  \* columns of orgs
    sweep,       \* the sweeper thread
    captured,    \* external: what the gateway has taken, by payment id
    unanswered,  \* external: the events the gateway still delivers
    hook,        \* the webhook handler: "idle" or "settle"
    admin,       \* the superadmin's request: "idle" or "settle"
    switching,   \* requests for the two flags: what each has read and will write
    edits, crashes,
    misanchored  \* history: charging went on from a day that was not the current one

vars == <<today, accrued, invoice, gateway, manual, exempt, deactivated,
          anchor, sweep, captured, unanswered, hook, admin, switching, edits,
          crashes, misanchored>>
flags == <<exempt, deactivated, anchor, misanchored>>
payments == <<gateway, manual>>
world == <<captured, unanswered>>
threads == <<sweep, hook, admin, switching>>
bounds == <<edits, crashes>>

LedgerAssumption ==
    /\ LastDay \in Nat /\ DaysPerMonth \in Nat \ {0} /\ BackfillMax \in Nat
    /\ Rates \subseteq Nat

NoRow == -1
Days == 0..LastDay
Month(d) == d \div DaysPerMonth
Months == 0..Month(LastDay)
DaysOf(m) == {d \in Days : Month(d) = m}
NoInvoice == [status |-> "none", paise |-> 0]
Asleep == [pc |-> "idle", day |-> 0]

\* What a request says of the two flags: it may leave one out.
Flags == {"exempt", "deactivated"}
Orders == UNION {[S -> BOOLEAN] : S \in SUBSET Flags \ {{}}}
NoSwitch == [order |-> <<>>, resume |-> NoRow]

TypeOK ==
    /\ today \in Days /\ anchor \in Days \cup {NoRow}
    /\ accrued \in [Days -> Rates \cup {NoRow}]
    /\ invoice \in [Months -> [status : {"none", "open", "paid", "void"},
                               paise : 0..Cardinality(Days) * Max(Rates)]]
    /\ gateway \in [Ids -> Nat] /\ manual \in Int
    /\ {exempt, deactivated, misanchored} \subseteq BOOLEAN
    /\ sweep \in [pc : {"idle", "close", "settle"}, day : Days]
    /\ captured \in [Ids -> Nat] /\ unanswered \subseteq Ids
    /\ {hook, admin} \subseteq {"idle", "settle"}
    /\ switching \in [Admins -> [order : Orders, resume : Days \cup {NoRow}]
                                  \cup {NoSwitch}]

(***************************************************************************)
(* The readings.                                                           *)
(***************************************************************************)
Rows(S) == {d \in S : accrued[d] # NoRow}
SumOf(S) == SumFunction([d \in Rows(S) |-> accrued[d]])
PaidTotal == MapThenSumSet(LAMBDA i : gateway[i], Ids) + manual

\* outstanding_paise: the whole account; month_to_date_paise: this month's part.
Outstanding == SumOf(Days) - PaidTotal
MonthToDate == SumOf(DaysOf(Month(today)))

\* What the lock screen asks for (web/src/components/billing-lock.tsx).
DueNow == Max({0, Outstanding - MonthToDate})

Open == {m \in Months : invoice[m].status = "open"}

\* The invoice of a month issues on the first day of the next.
DaysOverdue(m) == Max({0, today - (m + 1) * DaysPerMonth + 1})

\* org_locked, the gate of every /api request: deactivation outranks exemption.
Locked ==
    \/ deactivated
    \/ /\ ~exempt
       /\ Open # {}
       /\ DaysOverdue(Min(Open)) > BannerDays

Init ==
    /\ today = 0 /\ accrued = [d \in Days |-> NoRow]
    /\ invoice = [m \in Months |-> NoInvoice]
    /\ gateway = [i \in Ids |-> 0] /\ manual = 0
    /\ exempt = FALSE /\ deactivated = FALSE /\ anchor = NoRow
    /\ misanchored = FALSE
    /\ sweep = Asleep /\ hook = "idle" /\ admin = "idle"
    /\ switching = [a \in Admins |-> NoSwitch]
    /\ captured = [i \in Ids |-> 0] /\ unanswered = {}
    /\ edits = 0 /\ crashes = 0

(***************************************************************************)
(* The sweep: accrue, close the finished months, settle.                   *)
(***************************************************************************)
LastRow == IF Rows(Days) = {} THEN NoRow ELSE Max(Rows(Days))

\* MUTANT: the days the organisation was exempt or deactivated are charged.
StartUnanchored ==
    LET next == IF LastRow = NoRow THEN today ELSE Min({today, LastRow + 1})
    IN  Max({next, today - BackfillMax})

\* Catching up begins after the last row, BackfillMax days back at most, and
\* never before the anchor.
Start ==
    LET next == IF LastRow = NoRow THEN today ELSE Min({today, LastRow + 1})
    IN  Max({next, today - BackfillMax, Min({anchor, today})})

\* A day missed costs what the last row did; with no row it stays a hole.
Backfilled(d) == IF LastRow = NoRow THEN NoRow ELSE accrued[LastRow]

\* accrue_org: a day once written is never written again.
Accrued(rate) ==
    [d \in Days |->
        IF accrued[d] # NoRow THEN accrued[d]
        ELSE IF d = today THEN rate
        ELSE IF d \in Start..(today - 1) THEN Backfilled(d)
        ELSE NoRow]

Accrue(rate) ==
    /\ sweep.pc = "idle"
    /\ accrued' = IF exempt \/ deactivated THEN accrued ELSE Accrued(rate)
    /\ sweep' = [pc |-> "close", day |-> today]
    /\ UNCHANGED <<today, invoice, payments, flags, world, hook, admin, switching,
                   bounds>>

\* MUTANT: the current month is closed as well.
FinishedEarly(m) == m <= Month(sweep.day)

\* uninvoiced_months: the months before the one the sweep started in.
Finished(m) == m < Month(sweep.day)

\* close_invoices: a month that costs nothing gets no invoice.
Close ==
    /\ sweep.pc = "close"
    /\ invoice' = [m \in Months |->
          IF Finished(m) /\ invoice[m] = NoInvoice /\ SumOf(DaysOf(m)) > 0
          THEN [status |-> "open", paise |-> SumOf(DaysOf(m))]
          ELSE invoice[m]]
    /\ sweep' = [sweep EXCEPT !.pc = "settle"]
    /\ UNCHANGED <<today, accrued, payments, flags, world, hook, admin, switching,
                   bounds>>

\* settle_invoices: the payments cover the invoices oldest first; void ones
\* take no part.
Billed(m) == IF invoice[m].status \in {"open", "paid"} THEN invoice[m].paise
             ELSE 0
BilledUpTo(m) == MapThenSumSet(Billed, 0..m)

Settled ==
    [m \in Months |->
        IF invoice[m].status \in {"open", "paid"}
        THEN [invoice[m] EXCEPT !.status =
                 IF PaidTotal >= BilledUpTo(m) THEN "paid" ELSE "open"]
        ELSE invoice[m]]

\* MUTANT: only a payment settles, the sweep does not.
SweepNoSettle ==
    /\ sweep.pc = "settle"
    /\ sweep' = Asleep
    /\ UNCHANGED <<today, accrued, invoice, payments, flags, world, hook, admin, switching,
                   bounds>>

SweepSettle ==
    /\ sweep.pc = "settle"
    /\ invoice' = Settled
    /\ sweep' = Asleep
    /\ UNCHANGED <<today, accrued, payments, flags, world, hook, admin, switching,
                   bounds>>

(***************************************************************************)
(* The gateway and its webhook.                                            *)
(***************************************************************************)
Capture(i, paise) ==
    /\ captured[i] = 0
    /\ captured' = [captured EXCEPT ![i] = paise]
    /\ unanswered' = unanswered \cup {i}
    /\ UNCHANGED <<today, accrued, invoice, payments, flags, threads, bounds>>

\* The gateway delivers an event until it is answered 200, and may repeat one
\* that was.  A payment id is recorded once; a replay is answered and no more.
Webhook(i) ==
    /\ captured[i] > 0 /\ hook = "idle"
    /\ IF gateway[i] = 0
       THEN /\ gateway' = [gateway EXCEPT ![i] = captured[i]]
            /\ hook' = "settle"
            /\ UNCHANGED unanswered
       ELSE /\ i \in unanswered
            /\ unanswered' = unanswered \ {i}
            /\ UNCHANGED <<gateway, hook>>
    /\ UNCHANGED <<today, accrued, invoice, manual, flags, sweep, captured,
                   admin, switching, bounds>>

\* The event the handler works on is the recorded one still unanswered.
WebhookSettle ==
    /\ hook = "settle"
    /\ invoice' = Settled
    /\ hook' = "idle"
    /\ unanswered' = {i \in unanswered : gateway[i] = 0}
    /\ UNCHANGED <<today, accrued, payments, flags, sweep, captured, admin,
                   switching, bounds>>

(***************************************************************************)
(* The superadmin's writes (admin_billing_write).                          *)
(***************************************************************************)
Edit == edits < MaxEdits /\ edits' = edits + 1

\* The flag after a request that may leave it out.
Ordered(order, flag, now) == IF flag \in DOMAIN order THEN order[flag] ELSE now

\* The handler reads the flags: when the last suppressing one clears, accrual is
\* to be anchored to this day.
ReadFlags(a, order) ==
    /\ Edit
    /\ switching[a] = NoSwitch
    /\ LET off == exempt \/ deactivated
           offThen == \/ Ordered(order, "exempt", exempt)
                      \/ Ordered(order, "deactivated", deactivated)
       IN  switching' = [switching EXCEPT ![a] =
               [order |-> order, resume |-> IF off /\ ~offThen THEN today ELSE NoRow]]
    /\ UNCHANGED <<today, accrued, invoice, payments, flags, world, sweep, hook, admin,
                   crashes>>

\* set_org_billing_flags writes the flags it was given and the day decided on
\* before, whatever another request, or midnight, has changed since.
WriteFlags(a) ==
    /\ switching[a] # NoSwitch
    /\ LET order == switching[a].order
           resume == switching[a].resume
       IN  /\ exempt' = Ordered(order, "exempt", exempt)
           /\ deactivated' = Ordered(order, "deactivated", deactivated)
           /\ anchor' = IF resume = NoRow THEN anchor ELSE resume
    /\ misanchored' = \/ misanchored
                      \/ /\ ~(exempt' \/ deactivated') /\ anchor' # today
                         /\ anchor' # anchor \/ exempt \/ deactivated
    /\ switching' = [switching EXCEPT ![a] = NoSwitch]
    /\ UNCHANGED <<today, accrued, invoice, payments, world, sweep, hook, admin, bounds>>

\* A manual payment, or an adjustment of either sign.
Adjust(paise) ==
    /\ admin = "idle" /\ Edit
    /\ manual' = manual + paise /\ admin' = "settle"
    /\ UNCHANGED <<today, accrued, invoice, gateway, flags, world, sweep, hook,
                   switching, crashes>>

\* An invoice is voided, or opened again.
SetInvoice(m, status) ==
    /\ admin = "idle" /\ Edit
    /\ invoice[m].status # "none"
    /\ invoice' = [invoice EXCEPT ![m].status = status] /\ admin' = "settle"
    /\ UNCHANGED <<today, accrued, payments, flags, world, sweep, hook, switching,
                   crashes>>

AdminSettle ==
    /\ admin = "settle"
    /\ invoice' = Settled
    /\ admin' = "idle"
    /\ UNCHANGED <<today, accrued, payments, flags, world, sweep, hook, switching,
                   bounds>>

(***************************************************************************)
(* Time, and a crash of central.                                           *)
(***************************************************************************)
Midnight ==
    /\ today < LastDay
    /\ today' = today + 1
    /\ UNCHANGED <<accrued, invoice, payments, flags, world, threads, bounds>>

Crash ==
    /\ crashes < MaxCrashes /\ crashes' = crashes + 1
    /\ sweep' = Asleep /\ hook' = "idle" /\ admin' = "idle"
    /\ switching' = [a \in Admins |-> NoSwitch]
    /\ UNCHANGED <<today, accrued, invoice, payments, flags, world, edits>>

Sweep == (\E rate \in Rates : Accrue(rate)) \/ Close \/ SweepSettle

Next ==
    \/ Sweep
    \/ \E i \in Ids, paise \in Rates \ {0} : Capture(i, paise)
    \/ \E i \in Ids : Webhook(i)
    \/ WebhookSettle
    \/ \E a \in Admins : (\E order \in Orders : ReadFlags(a, order)) \/ WriteFlags(a)
    \/ \E paise \in {1, -1} : Adjust(paise)
    \/ \E m \in Months, status \in {"open", "void"} : SetInvoice(m, status)
    \/ AdminSettle
    \/ Midnight \/ Crash

\* The sweeper thread runs, a request once begun goes on, and the gateway
\* delivers an event until it is answered.
Fairness ==
    /\ WF_vars(Sweep)
    /\ WF_vars(WebhookSettle) /\ WF_vars(AdminSettle)
    /\ \A i \in Ids : WF_vars(Webhook(i) /\ i \in unanswered)

Spec == Init /\ [][Next]_vars
FairSpec == Spec /\ Fairness

(***************************************************************************)
(* Properties.                                                             *)
(***************************************************************************)
InvoicesSum ==
    \A m \in Months :
        invoice[m].status # "none" => invoice[m].paise = SumOf(DaysOf(m))

\* "the invoice is the sum of these rows" (store_billing.py:130): no backfill,
\* hole, re-opened account or crash lets a day be written into, or left out
\* of, a month that has been invoiced.  One race does: two requests each clear
\* one of the two flags having read both set, or one reads before midnight and
\* writes after it, and the hole is charged although "the backfill pass must
\* never charge across it" (store_billing.py:61).
InvoiceIsTheSumOfItsDays == ~misanchored => InvoicesSum

\* What the lock screen promises with "Nothing is due on this account.  This
\* screen clears itself in a moment" (billing-lock.tsx:338): an organisation
\* the ladder locks although nothing is due is unlocked, or owes again, even
\* when central crashed between recording the payment and allocating it.
PaidUpUnlocks == (DueNow = 0) ~> (DueNow > 0 \/ ~Locked \/ deactivated)
=============================================================================
