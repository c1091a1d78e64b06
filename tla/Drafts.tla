--------------------------------- MODULE Drafts --------------------------------
(***************************************************************************)
(* The forms of the dashboard.  Each keeps a draft of something stored on  *)
(* the server; they differ in when the draft is copied from the browser's  *)
(* copy of the stored value, in what shares one form, in when they may be  *)
(* sent and in what an answer does to them.  Those differences are a       *)
(* record for each form, read off its component; one machine runs them.    *)
(*                                                                         *)
(* Targets are the things one form can be opened on: the cores of a cable, *)
(* the devices, the accounts, the organisations.  A value has two halves,  *)
(* for the forms that store with two calls.                                *)
(***************************************************************************)
EXTENDS Naturals

CONSTANTS
    Targets,
    None,
    MaxValues  \* bound: values typed or stored by others

Empty == <<0, 0>>

(***************************************************************************)
(* The traits of a form.                                                   *)
(*   copies   "never": the draft starts empty                              *)
(*            "open": from the stored value, when the form is opened       *)
(*            "value": also whenever the stored value has changed          *)
(*            "answer": also whenever anything in the answer has changed   *)
(*            "live": the stored value shows until something is typed      *)
(*   rows     every target has a form of its own, always there             *)
(*   handsOver  whether the draft stays when another target is shown: both *)
(*            when it depends on where in the card the form is open          *)
(*   modal    no other target can be chosen while it is open               *)
(*   needs    what the button waits for                                    *)
(*   parts    the calls a save takes                                       *)
(*   after    what a success does: closes its own form or whichever is     *)
(*            open, clears the draft; or the form closes when it is sent   *)
(*   reverts  a failure puts the stored value back                         *)
(*   reads    "first": opened on a target that the browser has no copy of, *)
(*            it waits for one; if the read fails, what it held stays        *)
(*            "always": opening it blanks one half and reads that anew       *)
(***************************************************************************)
Plain == [copies |-> "open", rows |-> FALSE, handsOver |-> {FALSE},
          modal |-> FALSE, needs |-> "nothing", parts |-> 1, after |-> {},
          reverts |-> FALSE, reads |-> "never"]
Dialog == [Plain EXCEPT !.modal = TRUE]
Row == [Plain EXCEPT !.rows = TRUE]

\* Settings.
OrgSettingsCard == [Plain EXCEPT !.copies = "answer", !.reads = "first"]
\* A name half typed goes on to the next organisation; the form of a rename,
\* if a region there has the same name.
RegionsCardAdd ==
    [Plain EXCEPT !.copies = "never", !.handsOver = {TRUE},
                  !.needs = "something", !.after = {"clear"}]
RegionsCard ==
    [Plain EXCEPT !.handsOver = BOOLEAN, !.needs = "something",
                  !.after = {"close any"}]
ResetPasswordDialog ==
    [Row EXCEPT !.copies = "never", !.modal = TRUE, !.needs = "something",
                !.after = {"close own", "clear"}]
WhatsappField ==
    [Row EXCEPT !.copies = "value", !.needs = "change", !.reverts = TRUE]
MyWhatsappCard == WhatsappField
UsersCard ==
    [RegionsCardAdd EXCEPT !.after = {"close any", "clear"}]
OrganizationsPage ==
    [Row EXCEPT !.copies = "live", !.needs = "change", !.after = {"clear"}]
EnableDialog == [Dialog EXCEPT !.copies = "never", !.needs = "something"]
DisableDialog ==
    [EnableDialog EXCEPT !.after = {"close own", "clear"}]
RegenerateDialog == EnableDialog
PanelRow == [Row EXCEPT !.needs = "something"]
PanelRowNew == [RegionsCardAdd EXCEPT !.after = {"close any"}]
DevicePicker ==
    [Dialog EXCEPT !.copies = "answer", !.needs = "change", !.parts = 2,
                   !.after = {"close any"}]

\* The recipes: a form under the row that is edited, gone when it is saved; the
\* one for a new recipe goes on to the next organisation, but for the vendors,
\* who are the platform's.
GponProfileForm == RegionsCard
SnmpProfileForm == RegionsCard
WebOpticsProfileForm ==
    [Plain EXCEPT !.needs = "something", !.after = {"close any"}]

\* The platform's cards share one answer; only the gateway's hangs on its own
\* part of it.
GoogleMapsCard == [Dialog EXCEPT !.copies = "answer"]
MapDetailCard == GoogleMapsCard
PaymentsCard == [Dialog EXCEPT !.copies = "value"]
WhatsAppCard == GoogleMapsCard
AppearanceCard == [GoogleMapsCard EXCEPT !.needs = "change"]

\* The billing console.
OrgDrawer == [Dialog EXCEPT !.copies = "value", !.needs = "change"]
PaymentDialog ==
    [Dialog EXCEPT !.copies = "never", !.needs = "something",
                   !.after = {"at once"}]
DeactivateDialog == PaymentDialog

\* Devices, probes, outages.
PortBandwidthForm == [Plain EXCEPT !.after = {"close any"}]
DeviceForm == [RegionsCard EXCEPT !.parts = 2]
WebUiCredentialsButton ==
    [Dialog EXCEPT !.parts = 2, !.after = {"close any"}, !.reads = "always"]
AssignmentPanel ==
    [Plain EXCEPT !.copies = "live", !.needs = "change", !.after = {"clear"}]
AssignOutage ==
    [Dialog EXCEPT !.copies = "value", !.needs = "something",
                   !.after = {"close own"}]
\* Buttons of a row: what they send is the row and what it shows.
ProbeRow == Row
PortsPanel == Row
FieldTrackingCard == Row
ShiftButton == Row
\* A click on the value chosen saves it; until then the row shows what is stored.
SplitRatioField ==
    [Row EXCEPT !.copies = "live", !.after = {"clear"}, !.reverts = TRUE]
OnuRow == SplitRatioField
\* The port of a link is given up before another is bound.
LinkRow == [Row EXCEPT !.copies = "live", !.parts = 2]
ConnectionPanel ==
    [Plain EXCEPT !.copies = "never", !.needs = "something",
                  !.after = {"close any"}]
OutageCard ==
    [Row EXCEPT !.copies = "never", !.needs = "something",
                !.after = {"close own"}]
ProbesPanel == RegionsCardAdd

\* Subscribers and plant.
ReferenceToggle == [Dialog EXCEPT !.after = {"close own"}]
ContactForm == [Plain EXCEPT !.after = {"close any"}]
ReferenceOnuDialog ==
    [Dialog EXCEPT !.copies = "value", !.needs = "something",
                   !.after = {"close own"}]
AttachDropsDialog == DevicePicker
PlantCreateDialog ==
    [Dialog EXCEPT !.needs = "something", !.parts = 2,
                   !.after = {"close any"}]
AttachCustomerDialog ==
    [Dialog EXCEPT !.copies = "never", !.needs = "something", !.parts = 2,
                   !.after = {"close any"}]
CoreDetail ==
    [Plain EXCEPT !.handsOver = {TRUE}, !.after = {"at once"}]

Forms ==
    {OrgSettingsCard, RegionsCard, RegionsCardAdd, ResetPasswordDialog,
     WhatsappField, MyWhatsappCard, UsersCard, OrganizationsPage,
     EnableDialog, DisableDialog, RegenerateDialog, PanelRow, PanelRowNew,
     DevicePicker,
     GponProfileForm, SnmpProfileForm, WebOpticsProfileForm, GoogleMapsCard,
     MapDetailCard, PaymentsCard, WhatsAppCard, AppearanceCard, OrgDrawer,
     PaymentDialog, DeactivateDialog, PortBandwidthForm, DeviceForm,
     WebUiCredentialsButton, AssignmentPanel, AssignOutage, ProbesPanel,
     ReferenceToggle, ContactForm, AttachDropsDialog, PlantCreateDialog,
     AttachCustomerDialog, CoreDetail, ProbeRow, PortsPanel,
     FieldTrackingCard, ShiftButton, LinkRow, ConnectionPanel, OutageCard,
     ReferenceOnuDialog, SplitRatioField, OnuRow}

VARIABLES
    form,    \* which form this behaviour is about
    stored,  \* what the server has for each target
    noise,   \* something else in the same answer has changed
    seen,    \* the browser's copy: the values and the rest
    shown,   \* the target the form is open on
    draft,   \* for each target: a value, and whether it was typed
    unread,  \* the targets whose own copy the browser has never had
    reading, \* the reads that openings have started
    call,    \* the save under way
    next     \* the next new value

vars ==
    <<form, stored, noise, seen, shown, draft, unread, reading, call, next>>

Values == (0..MaxValues) \X (0..MaxValues)

TypeOK ==
    /\ form \in Forms
    /\ stored \in [Targets -> Values] /\ noise \in BOOLEAN
    /\ seen \in [val : [Targets -> Values], rest : BOOLEAN]
    /\ shown \in Targets \cup {None}
    /\ draft \in [Targets -> [val : Values, typed : BOOLEAN]]
    /\ unread \subseteq Targets /\ reading \subseteq Targets
    /\ call \in {None} \cup [to : Targets, val : Values, part : 1..2]
    /\ next \in 1..(MaxValues + 1)

\* A draft that nobody has typed into.
Untouched(t, copy) ==
    [val |-> IF form.copies = "never" THEN Empty ELSE copy.val[t],
     typed |-> FALSE]
NoDrafts == [t \in Targets |-> [val |-> Empty, typed |-> FALSE]]

Init ==
    /\ form \in Forms
    /\ stored = [t \in Targets |-> Empty] /\ noise = FALSE
    /\ seen = [val |-> stored, rest |-> noise]
    /\ shown = None
    /\ draft = NoDrafts
    /\ unread = IF form.reads = "never" THEN {} ELSE Targets
    /\ reading = {} /\ call = None /\ next = 1

(***************************************************************************)
(* The operator.                                                           *)
(***************************************************************************)
\* The card has nothing of t to show yet.
Blind(t) == form.reads = "first" /\ t \in unread

\* What a form holds when it is opened on t: the draft it had before, if that is
\* handed over or there is nothing yet to put in its place.
Opened(t, over) ==
    IF shown # None /\ (over \/ Blind(t)) THEN draft[shown]
    ELSE IF Blind(t) THEN NoDrafts[t]
    ELSE IF form.reads = "always"
    THEN [val |-> <<seen.val[t][1], 0>>, typed |-> FALSE]
    ELSE Untouched(t, seen)

Show(t) ==
    /\ shown # t /\ (form.modal => shown = None)
    /\ shown' = t
    /\ \E over \in form.handsOver :
           draft' = IF form.rows THEN draft
                    ELSE [NoDrafts EXCEPT ![t] = Opened(t, over)]
    /\ reading' = reading \cup
                     (IF form.reads = "always" THEN {t} ELSE {t} \cap unread)
    /\ UNCHANGED <<form, stored, noise, seen, unread, call, next>>

\* Closing.  The form of a row may keep what was typed; one that starts empty
\* keeps it (Cancel) or drops it (Escape).
Close ==
    /\ shown # None
    /\ shown' = None
    /\ \/ form.rows /\ UNCHANGED draft
       \/ ~form.rows /\ draft' = NoDrafts
       \/ /\ form.rows /\ form.copies = "never"
          /\ draft' = [draft EXCEPT ![shown] = NoDrafts[shown]]
    /\ UNCHANGED <<form, stored, noise, seen, unread, reading, call, next>>

\* Instead of the form a skeleton, until its first read has ended.
Waits == Blind(shown) /\ shown \in reading

Type ==
    /\ shown # None /\ ~Waits /\ next <= MaxValues
    /\ draft' = [draft EXCEPT ![shown].val = <<next, next>>,
                              ![shown].typed = TRUE]
    /\ next' = next + 1
    /\ UNCHANGED <<form, stored, noise, seen, shown, unread, reading, call>>

Ready(t) ==
    CASE form.needs = "nothing" -> TRUE
      [] form.needs = "something" -> draft[t].val # Empty
      [] form.needs = "change" -> draft[t].val # seen.val[t]

\* One save at a time: the button is off while a call is under way.
Save ==
    /\ shown # None /\ ~Waits /\ call = None /\ Ready(shown)
    /\ call' = [to |-> shown, val |-> draft[shown].val, part |-> 1]
    /\ shown' = IF "at once" \in form.after THEN None ELSE shown
    /\ UNCHANGED <<form, stored, noise, seen, draft, unread, reading, next>>

(***************************************************************************)
(* The answers.                                                            *)
(***************************************************************************)
\* One call of the save has been stored.
Stores ==
    stored' = [stored EXCEPT ![call.to] =
                   IF form.parts = 1 THEN call.val
                   ELSE [@ EXCEPT ![call.part] = call.val[call.part]]]

FirstPartStored ==
    /\ call # None /\ call.part < form.parts
    /\ Stores
    /\ call' = [call EXCEPT !.part = 2]
    /\ UNCHANGED <<form, noise, seen, shown, draft, unread, reading, next>>

\* The form whose draft a success clears: its own, or the one form there is.
Cleared == IF form.rows \/ shown = None THEN call.to ELSE shown

Saved ==
    /\ call # None /\ call.part = form.parts
    /\ Stores
    /\ shown' = IF \/ "close any" \in form.after
                   \/ "close own" \in form.after /\ shown = call.to
                THEN None ELSE shown
    /\ draft' = IF "clear" \in form.after
                THEN [draft EXCEPT ![Cleared] = Untouched(Cleared, seen)]
                ELSE IF form.reverts  \* the number field takes the answer
                THEN [draft EXCEPT ![call.to].val = call.val,
                                   ![call.to].typed = FALSE]
                ELSE draft
    /\ call' = None
    /\ UNCHANGED <<form, noise, seen, unread, reading, next>>

\* Nothing, or only the first part, has been stored.
Refused ==
    /\ call # None
    /\ draft' = IF form.reverts
                THEN [draft EXCEPT ![call.to] = Untouched(call.to, seen)]
                ELSE draft
    /\ call' = None
    /\ UNCHANGED <<form, stored, noise, seen, shown, unread, reading, next>>

\* The read of t that an opening has started has its answer, or has failed.
ReadAnswered(t) ==
    /\ seen' = [seen EXCEPT !.val[t] = IF form.reads = "first" THEN stored[t]
                                      ELSE <<@[1], stored[t][2]>>]
    /\ unread' = unread \ {t}
ReadFailed == UNCHANGED <<seen, unread>>

\* An answer makes the card whose first it is start again.  The login dialog
\* fills its blank half when any of its reads has ended, a failed one or an
\* earlier device's, with the copy of the device that is shown by then.
ReadEnds(t) ==
    /\ t \in reading
    /\ reading' = reading \ {t}
    /\ ReadAnswered(t) \/ ReadFailed
    /\ draft' =
           IF form.reads = "always" /\ shown # None
           THEN [draft EXCEPT ![shown].val[2] =
                     IF shown \in unread' THEN 0 ELSE seen'.val[shown][2]]
           ELSE IF shown = t /\ t \notin unread'
           THEN [draft EXCEPT ![t] = Untouched(t, seen')]
           ELSE draft
    /\ UNCHANGED <<form, stored, noise, shown, call, next>>

\* MUTANT: the effect hangs on the identity of the answer.
MovedUnderIt(t) ==
    \/ form.copies \in {"value", "answer"} /\ seen' # seen
    \/ form.copies = "live" /\ ~draft[t].typed

\* The copy that a form follows has moved, as its effect sees it.
Moved(t) ==
    \/ form.copies = "value" /\ seen'.val[t] # seen.val[t]
    \/ form.copies = "answer" /\ seen' # seen
    \/ form.copies = "live" /\ ~draft[t].typed

\* A read in the background brings what has changed; of a login, only that of
\* the dialog that is open.
Refetch ==
    /\ seen' = [val |-> stored, rest |-> noise] /\ seen' # seen
    /\ draft' = [t \in Targets |->
                    IF /\ form.rows \/ t = shown
                       /\ t \notin unread /\ Moved(t)
                    THEN Untouched(t, seen') ELSE draft[t]]
    /\ unread' = IF form.reads = "always" THEN unread \ {shown} ELSE unread
    /\ UNCHANGED <<form, stored, noise, shown, reading, call, next>>

\* What a failed read left empty is read again.
ReadAgain ==
    /\ Blind(shown) /\ shown \notin reading
    /\ reading' = reading \cup {shown}
    /\ UNCHANGED <<form, stored, noise, seen, shown, draft, unread, call, next>>

\* Another operator stores a value, or something beside it changes, which only
\* a form that follows a copy could tell.
Elsewhere ==
    /\ \/ \E t \in Targets :
              /\ next <= MaxValues
              /\ stored' = [stored EXCEPT ![t] = <<next, next>>]
              /\ next' = next + 1
              /\ UNCHANGED noise
       \/ /\ ~noise /\ form.copies \notin {"never", "open"}
          /\ noise' = TRUE
          /\ UNCHANGED <<stored, next>>
    /\ UNCHANGED <<form, seen, shown, draft, unread, reading, call>>

Next ==
    \/ \E t \in Targets : Show(t) \/ ReadEnds(t)
    \/ Close \/ Type \/ Save
    \/ FirstPartStored \/ Saved \/ Refused
    \/ ReadAgain \/ Refetch \/ Elsewhere

Spec == Init /\ [][Next]_vars

(***************************************************************************)
(* Properties.                                                             *)
(***************************************************************************)
\* What an operator is halfway through typing is not taken away by answers
\* about something else: only by the operator, by the answer to a save, or
\* because the stored value itself has moved.  The cards that follow a whole
\* answer and the login dialog do not promise it.
TypingIsKept ==
    [][ \A t \in Targets :
            /\ shown = t /\ shown' = t /\ draft[t].typed
            /\ form.copies # "answer" /\ form.reads = "never"
            => \/ draft'[t] = draft[t]
               \/ draft'[t].typed
               \/ call' # call
               \/ seen'.val[t] # seen.val[t] ]_vars
===============================================================================
