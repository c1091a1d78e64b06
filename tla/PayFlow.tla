-------------------------------- MODULE PayFlow -------------------------------
(***************************************************************************)
(* Paying in the browser: the pay dialog of the billing page               *)
(* (src/web/src/components/billing/pay-dialog.tsx, razorpay.ts), the lock  *)
(* screen that replaces the dashboard (components/billing-lock.tsx) and    *)
(* the shell that chooses between them (components/layout/app-shell.tsx).  *)
(* BillingLedger models the ledger; here it is what has been recorded.     *)
(*                                                                         *)
(* Both screens walk through the same calls: create an order, load the     *)
(* gateway's script, open its window, have the return verified, wait for   *)
(* the ledger.  The calls outlive the screen that made them: a screen that *)
(* is taken away no longer hears of them.                                  *)
(*                                                                         *)
(* External: the gateway.  It may report the closing of its window also    *)
(* after it has reported success, and a payer who closes the window may    *)
(* have paid in the other application all the same.                        *)
(***************************************************************************)
EXTENDS Naturals, FiniteSets

CONSTANTS
    Ids,        \* one payment attempt each
    MaxTicks,   \* polls of a waiting screen (24 on the lock, 36 in the dialog)
    MaxReloads  \* bound: reloads of the page

VARIABLES
    screen,    \* what can pay: "none", "dialog" or "lock"
    phase,     \* its phase
    paying,    \* the attempt the phase is about
    dormant,   \* BillingLock dormant: the gateway is known not to be set up
    ticks,     \* polls since the phase began
    doc,       \* the billing document the tab holds
    step,      \* the calls of each attempt
    heard,     \* whether the screen that made the calls is still there
    captured, recorded,  \* what the gateway took and what the ledger has
    overdue,   \* the ladder has come to the lock
    enabled,   \* the gateway is set up
    left,      \* history: attempts whose waiting screen was closed or lost
    reloads

vars == <<screen, phase, paying, dormant, ticks, doc, step, heard, captured,
          recorded, overdue, enabled, left, reloads>>
ledgerVars == <<captured, recorded, overdue, enabled>>
screenVars == <<screen, phase, paying, dormant, ticks>>
callVars == <<step, heard>>

NoOne == "nobody"
Phases == {"form", "opening", "checkout", "verifying", "processing",
           "unverified", "settled", "failed", "dormant"}
Waiting == phase \in {"processing", "unverified"}

\* Any payment recorded settles the due invoice.
Locked == overdue /\ recorded = {}

Document == [locked |-> Locked, recorded |-> recorded, enabled |-> enabled]

TypeOK ==
    /\ screen \in {"none", "dialog", "lock"}
    /\ phase \in Phases /\ paying \in Ids \cup {NoOne}
    /\ dormant \in BOOLEAN /\ ticks \in 0..MaxTicks
    /\ doc \in [locked : BOOLEAN, recorded : SUBSET Ids, enabled : BOOLEAN]
    /\ step \in [Ids -> {"new", "ordering", "loading", "window", "returned",
                         "over"}]
    /\ heard \subseteq Ids
    /\ recorded \subseteq captured /\ captured \subseteq Ids
    /\ {overdue, enabled} \subseteq BOOLEAN
    /\ left \subseteq Ids /\ reloads \in 0..MaxReloads

Init ==
    /\ screen = "none" /\ phase = "form" /\ paying = NoOne
    /\ dormant = FALSE /\ ticks = 0
    /\ step = [i \in Ids |-> "new"] /\ heard = {}
    /\ captured = {} /\ recorded = {} /\ overdue = FALSE
    /\ enabled \in BOOLEAN
    /\ doc = Document
    /\ left = {} /\ reloads = 0

(***************************************************************************)
(* The screens.                                                            *)
(***************************************************************************)
\* A phase begins: its clock starts again.
Enter(k, i) == phase' = k /\ paying' = i /\ ticks' = 0

\* A screen is gone, with what it knew of payments made.
Lost == left' = left \cup (heard \cap captured)

OpenDialog ==
    /\ screen = "none" /\ ~doc.locked
    /\ screen' = "dialog"
    /\ Enter(IF doc.enabled THEN "form" ELSE "dormant", NoOne)
    /\ UNCHANGED <<dormant, doc, callVars, ledgerVars, left, reloads>>

\* Mid-transaction the dialog is not dismissible.
CloseDialog ==
    /\ screen = "dialog"
    /\ phase \notin {"opening", "verifying", "checkout"}
    /\ screen' = "none"
    /\ Enter("form", NoOne)
    /\ Lost /\ heard' = {}
    /\ UNCHANGED <<dormant, doc, step, ledgerVars, reloads>>

TryAgain ==
    /\ screen = "dialog" /\ phase = "failed"
    /\ Enter("form", NoOne)
    /\ UNCHANGED <<screen, dormant, doc, callVars, ledgerVars, left, reloads>>

\* The lock's way out of a wait that has gone on for two minutes.
BackToPayment ==
    /\ screen = "lock" /\ Waiting /\ ticks = MaxTicks
    /\ Enter("form", NoOne)
    /\ Lost
    /\ UNCHANGED <<screen, dormant, doc, callVars, ledgerVars, reloads>>

\* The button that starts a payment.  On the lock screen "form" is "idle".
Offered ==
    \/ screen = "dialog" /\ phase = "form"
    \/ screen = "lock" /\ phase = "form" /\ ~dormant

Start(i) ==
    /\ Offered /\ step[i] = "new"
    /\ Enter("opening", i)
    /\ step' = [step EXCEPT ![i] = "ordering"] /\ heard' = heard \cup {i}
    /\ UNCHANGED <<screen, dormant, doc, ledgerVars, left, reloads>>

(***************************************************************************)
(* The calls of an attempt.                                                *)
(***************************************************************************)
Calls(i, from, to) == step[i] = from /\ step' = [step EXCEPT ![i] = to]

\* What the screen does when it still hears of attempt i.
Hears(i, P) == IF i \in heard THEN P ELSE UNCHANGED screenVars

\* Before the window opens a failure costs nothing: the dialog says so, the
\* lock screen has its button back.
Failed(i) ==
    Hears(i, /\ Enter(IF screen = "dialog" THEN "failed" ELSE "form", i)
             /\ UNCHANGED <<screen, dormant>>)

\* 503: the gateway is not set up, which is a state and not a failure.
NotSetUp(i) ==
    Hears(i, /\ Enter(IF screen = "dialog" THEN "dormant" ELSE "form", i)
             /\ dormant' = (dormant \/ screen = "lock")
             /\ UNCHANGED screen)

AnswerOrder(i) ==
    /\ \/ Calls(i, "ordering", "loading") /\ enabled /\ UNCHANGED screenVars
       \/ Calls(i, "ordering", "over") /\ ~enabled /\ NotSetUp(i)
       \/ Calls(i, "ordering", "over") /\ Failed(i)
    /\ UNCHANGED <<heard, doc, ledgerVars, left, reloads>>

\* loadRazorpay: the script is there, or fails, or takes too long.
LoadScript(i) ==
    /\ \/ /\ Calls(i, "loading", "window")
          /\ Hears(i, Enter("checkout", i) /\ UNCHANGED <<screen, dormant>>)
       \/ Calls(i, "loading", "over") /\ Failed(i)
    /\ UNCHANGED <<heard, doc, ledgerVars, left, reloads>>

\* A decline.  The dialog's window closes with it; the lock's stays open for
\* another try and its phase stands.
Decline(i) ==
    /\ \/ /\ i \in heard /\ screen = "dialog"
          /\ Calls(i, "window", "over")
          /\ IF phase = "checkout" THEN Failed(i) ELSE UNCHANGED screenVars
       \/ /\ ~(i \in heard /\ screen = "dialog")
          /\ step[i] = "window"
          /\ UNCHANGED <<step, screenVars>>
    /\ UNCHANGED <<heard, doc, ledgerVars, left, reloads>>

\* MUTANT: the dialog, too, believes any closing of the window.
DismissedAlways(i) ==
    Hears(i, Enter("form", i) /\ UNCHANGED <<screen, dormant>>)

\* The dialog goes back to its form only from the checkout; the lock screen
\* from wherever it is.
Dismissed(i) ==
    IF screen = "lock" \/ phase = "checkout"
    THEN Hears(i, Enter("form", i) /\ UNCHANGED <<screen, dormant>>)
    ELSE UNCHANGED screenVars

\* The window closes; a payment begun in it may have been made.
Dismiss(i) ==
    /\ \/ Calls(i, "window", "over")
       \/ step[i] = "returned" /\ UNCHANGED step
    /\ Dismissed(i)
    /\ UNCHANGED <<heard, doc, ledgerVars, left, reloads>>

CaptureLate(i) ==
    /\ step[i] = "over" /\ i \notin captured
    /\ captured' = captured \cup {i}
    /\ left' = left \cup {i}
    /\ UNCHANGED <<screenVars, doc, callVars, recorded, overdue, enabled,
                   reloads>>

\* The gateway's success: the return is sent to be verified.
Pay(i) ==
    /\ Calls(i, "window", "returned")
    /\ captured' = captured \cup {i}
    /\ Hears(i, Enter("verifying", i) /\ UNCHANGED <<screen, dormant>>)
    /\ left' = IF i \in heard THEN left ELSE left \cup {i}
    /\ UNCHANGED <<heard, doc, recorded, overdue, enabled, reloads>>

\* verifyReturn answers, or not; either way the ledger decides.
Verified(i) ==
    /\ Calls(i, "returned", "over")
    /\ \E k \in {"processing", "unverified"} :
          Hears(i, Enter(k, i) /\ UNCHANGED <<screen, dormant>>)
    /\ UNCHANGED <<heard, doc, ledgerVars, left, reloads>>

(***************************************************************************)
(* The billing document.                                                   *)
(***************************************************************************)
\* The shell: a locked document replaces whatever is there by the lock screen,
\* an unlocked one takes the lock screen away.
Show(d) ==
    IF d.locked = (screen = "lock")
    THEN UNCHANGED <<screen, phase, paying, dormant, heard, left>>
    ELSE /\ screen' = IF d.locked THEN "lock" ELSE "none"
         /\ phase' = "form" /\ paying' = NoOne
         /\ dormant' = (d.locked /\ ~d.enabled)
         /\ heard' = {} /\ Lost

\* The shell refetches every minute and after a 402.
Refetch ==
    /\ doc # Document
    /\ doc' = Document
    /\ Show(Document)
    /\ ticks' = IF screen' = screen THEN ticks ELSE 0
    /\ UNCHANGED <<step, ledgerVars, reloads>>

\* A waiting screen asks on a shorter clock, for a while.
Tick ==
    /\ screen # "none" /\ Waiting /\ ticks < MaxTicks
    /\ doc' = Document
    /\ Show(Document)
    /\ ticks' = IF screen' = screen THEN ticks + 1 ELSE 0
    /\ UNCHANGED <<step, ledgerVars, reloads>>

\* MUTANT: the ledger is consulted only when the wait begins.
SettleAtOnce ==
    /\ screen = "dialog" /\ Waiting /\ paying \in doc.recorded /\ ticks = 0
    /\ Enter("settled", paying)
    /\ UNCHANGED <<screen, dormant, doc, callVars, ledgerVars, left, reloads>>

\* The ledger row is the proof.
Settle ==
    /\ screen = "dialog" /\ Waiting /\ paying \in doc.recorded
    /\ Enter("settled", paying)
    /\ UNCHANGED <<screen, dormant, doc, callVars, ledgerVars, left, reloads>>

(***************************************************************************)
(* The world.                                                              *)
(***************************************************************************)
Webhook(i) ==
    /\ i \in captured \ recorded
    /\ recorded' = recorded \cup {i}
    /\ UNCHANGED <<screenVars, doc, callVars, captured, overdue, enabled, left,
                   reloads>>

FallDue ==
    /\ ~overdue /\ overdue' = TRUE
    /\ UNCHANGED <<screenVars, doc, callVars, captured, recorded, enabled, left,
                   reloads>>

\* A new build (LiveTab), or the user, reloads the page.
Reload ==
    /\ reloads < MaxReloads /\ reloads' = reloads + 1
    /\ screen' = IF Locked THEN "lock" ELSE "none"
    /\ doc' = Document /\ dormant' = (Locked /\ ~enabled)
    /\ Enter("form", NoOne)
    /\ Lost /\ heard' = {}
    /\ step' = [i \in Ids |-> IF step[i] = "new" THEN "new" ELSE "over"]
    /\ UNCHANGED ledgerVars

Attempt(i) ==
    \/ Start(i) \/ AnswerOrder(i) \/ LoadScript(i) \/ Decline(i) \/ Dismiss(i)
    \/ Pay(i) \/ Verified(i)

Next ==
    \/ OpenDialog \/ CloseDialog \/ TryAgain \/ BackToPayment
    \/ \E i \in Ids : Attempt(i) \/ CaptureLate(i) \/ Webhook(i)
    \/ Refetch \/ Tick \/ Settle
    \/ FallDue \/ Reload

\* The gateway delivers its webhook, the tab polls, effects run.
Fairness ==
    /\ \A i \in Ids : WF_vars(Webhook(i))
    /\ WF_vars(Refetch) /\ WF_vars(Settle)

Spec == Init /\ [][Next]_vars
FairSpec == Spec /\ Fairness

(***************************************************************************)
(* Properties.                                                             *)
(***************************************************************************)
\* The dialog never offers to pay again while a payment it saw go through has
\* not reached the ledger: not on a late closing of the window, a decline or
\* an answer out of order.  The ways to lose sight of such a payment are the
\* ones in `left`: the payer closes the waiting dialog, the lock screen takes
\* its place, the page reloads, or the payment was made elsewhere.
NotAskedTwice ==
    \A i \in Ids :
        (i \in captured \ (doc.recorded \cup left) /\ screen = "dialog")
          => ~Offered

\* A screen that waits for a payment does not wait for ever: the dialog says
\* that it is recorded, and the lock screen goes away, although both stop
\* their own polls.
WaitingEnds ==
    /\ (screen = "dialog" /\ Waiting) ~> (screen # "dialog" \/ ~Waiting)
    /\ (screen = "lock" /\ Waiting) ~> (screen # "lock" \/ ~Waiting)
=============================================================================
