------------------------------- MODULE MCWebLive -------------------------------
(***************************************************************************)
(* The open tab, the billing ledger behind it and the payment flow next to *)
(* each other, for one run of what must happen in the end: a behaviour is  *)
(* a behaviour of one of them, the others stand still.                     *)
(***************************************************************************)
EXTENDS Naturals

CONSTANTS
    Routes, Broken, MaxVersion, MaxDeploys, MaxVisits, MaxReloads,
    LastDay, DaysPerMonth, Rates, BannerDays, BackfillMax,
    PaymentIds, Admins, MaxEdits, MaxCrashes,
    Attempts, MaxTicks

VARIABLES
    part,
    own, served, pending, reloadedFor, chunkKey, route, shown, hidden, dialog,
    stream, told, version, view, fetch, deploys, visits, reloads, chunkReloads,
    today, accrued, invoice, gateway, manual, exempt, deactivated, anchor,
    sweep, captured, unanswered, hook, admin, switching, edits, crashes, misanchored,
    screen, phase, paying, dormant, ticks, doc, step, heard, taken, recorded,
    overdue, enabled, left, pageReloads

T == INSTANCE LiveTab
B == INSTANCE BillingLedger WITH Ids <- PaymentIds
P == INSTANCE PayFlow
       WITH Ids <- Attempts, captured <- taken, reloads <- pageReloads

tabVars == <<own, served, pending, reloadedFor, chunkKey, route, shown, hidden,
             dialog, stream, told, version, view, fetch, deploys, visits,
             reloads, chunkReloads>>
ledgerVars == <<today, accrued, invoice, gateway, manual, exempt, deactivated,
                anchor, sweep, captured, unanswered, hook, admin, switching, edits,
      crashes, misanchored>>
payVars == <<screen, phase, paying, dormant, ticks, doc, step, heard, taken,
             recorded, overdue, enabled, left, pageReloads>>
vars == <<part, tabVars, ledgerVars, payVars>>

Init ==
    /\ part \in {"tab", "ledger", "pay"}
    /\ T!Init /\ (part # "tab" => ~hidden /\ route = CHOOSE r \in Routes : TRUE)
    /\ B!Init
    /\ P!Init /\ (part # "pay" => enabled)

Tab == part = "tab" /\ T!Next /\ UNCHANGED <<ledgerVars, payVars>>
Ledger == part = "ledger" /\ B!Next /\ UNCHANGED <<tabVars, payVars>>
Paying == part = "pay" /\ P!Next /\ UNCHANGED <<tabVars, ledgerVars>>

Next ==
    /\ Tab \/ Ledger \/ Paying
    /\ UNCHANGED part

\* The fairness of each part, for the behaviours that are its own.
Fairness ==
    /\ SF_tabVars(part = "tab" /\ T!Accept)
    /\ SF_tabVars(part = "tab" /\ T!PushChanged)
    /\ SF_tabVars(part = "tab" /\ T!AnswerFetch)
    /\ SF_tabVars(part = "tab" /\ T!Show)
    /\ WF_ledgerVars(part = "ledger" /\ B!Sweep)
    /\ WF_ledgerVars(part = "ledger" /\ B!WebhookSettle)
    /\ WF_ledgerVars(part = "ledger" /\ B!AdminSettle)
    /\ \A i \in PaymentIds :
          WF_ledgerVars(part = "ledger" /\ B!Webhook(i) /\ i \in unanswered)
    /\ \A i \in Attempts : WF_payVars(part = "pay" /\ P!Webhook(i))
    /\ WF_payVars(part = "pay" /\ P!Refetch)
    /\ WF_payVars(part = "pay" /\ P!Settle)

Spec == Init /\ [][Next]_vars /\ Fairness

-----------------------------------------------------------------------------
(***************************************************************************)
(* Properties: those of the parts, told in their modules.                  *)
(***************************************************************************)
\* The variables of every part keep their types.
TypeOK ==
    CASE part = "tab" -> T!TypeOK
      [] part = "ledger" -> B!TypeOK
      [] part = "pay" -> P!TypeOK

\* A tab in view comes to show the server's data.
ViewCatchesUp == <>[](~hidden /\ stream # "closed") => <>[](part = "tab" => view = version)

\* Who owes nothing is unlocked.
PaidUpUnlocks == B!PaidUpUnlocks

\* A screen that waits for a payment does not wait for ever.
WaitingEnds == P!WaitingEnds
=============================================================================
