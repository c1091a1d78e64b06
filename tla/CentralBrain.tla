---------------------------- MODULE CentralBrain -----------------------------
(***************************************************************************)
(* The core of central: the report handler (central/api/edge.py report),   *)
(* the engine registry and run_cycle (central/engine.py), the outages and  *)
(* escalations tables (central/store_outages.py), the dispatcher           *)
(* (central/dispatch.py) and the send pool (egress/notifiers.py), for one  *)
(* organisation whose reports are handled by concurrent threads.           *)
(*                                                                         *)
(* Every step of a handler is one store transaction or one read of shared  *)
(* state, so that handlers, operators' edits, the send pool and crashes    *)
(* interleave as they do in the program.  The org lock covers a handler    *)
(* from the topology read to the write of the device states, not the       *)
(* dispatch after it.                                                      *)
(*                                                                         *)
(* Left out: messages, recipients and timestamps (an escalation is due     *)
(* when Tick says so); the ingestion of ports, optics and SNMP, which      *)
(* touches none of this state.  A send that finds the queue full, or       *)
(* nobody to send to, is over before the handler goes on: a Deliver right  *)
(* after its Page.                                                         *)
(***************************************************************************)
EXTENDS EngineCycle, Integers, FiniteSets, Sequences

CONSTANTS
    Devices,    \* device ids, numbered parents first
    Parents,    \* the parents of each device
    Threads,    \* the handler threads of the organisation's reports
    NoThread,
    Observed,   \* the samples a probe may return
    MaxOutages, \* bound: outages opened in one behaviour
    MaxUpsets,  \* bound: crashes, failed store calls and operators' edits
    UpsetsApart \* bound: handlers race only as long as none of those has been

ASSUME BrainAssumption ==
    /\ Devices \subseteq Nat /\ IsFiniteSet(Devices)
    /\ Parents \in [Devices -> SUBSET Devices]
    /\ \A d \in Devices : \A p \in Parents[d] : p < d
    /\ NoThread \notin Threads
    /\ Observed \subseteq Samples
    /\ {MaxOutages, MaxUpsets} \subseteq Nat /\ UpsetsApart \in BOOLEAN

VARIABLES
    \* the database
    maintenance, \* org_devices.maintenance
    assigned,    \* org_devices.assigned_node_id is set
    states,      \* device_states.state, "none" without a row
    outages,     \* the outages table, each with what is kept under its id
    \* memory of the central process
    built,       \* the registry holds an engine
    engine,      \* its state machines, over the devices it was built for
    lock,        \* who holds the org lock
    pc,          \* where each handler thread is
    full,        \* it handles a full report, not a recheck
    wanted,      \* the topology it read, if the engine must be built for it
    rows,        \* the devices whose state its cycle returned
    event,       \* the event of each device in its cycle, until dispatched
    left,        \* the devices whose event apply_events has yet to enter
    oid,         \* the outage it is about to page
    \* history, read by no action but for the bounds
    torn,        \* devices a fault or an edit may have left inconsistent
    missed,      \* devices with a page or an escalation lost to a fault
    upsets       \* faults and edits so far

db      == <<maintenance, assigned, states, outages>>
memory  == <<built, engine, lock, pc, full, wanted, rows, event, left, oid>>
history == <<torn, missed, upsets>>
vars    == <<db, memory, history>>

-----------------------------------------------------------------------------
\* An outage row, and under its id: its escalation, the pages for it in the send
\* pool and whether alert_log has a 'sent' row; for the properties, whether the
\* dispatcher saw to its page, and whether it was ever DOWN, a proven root cause.
NewOutage(d, cat) ==
    [dev |-> d, cat |-> cat, open |-> TRUE, esc |-> "none", queued |-> 0,
     logged |-> FALSE, paged |-> FALSE, proven |-> cat = "DOWN"]

Escalations == {"none", "waiting", "due", "done"}

OpenOf(d) == {o \in DOMAIN outages : outages[o].dev = d /\ outages[o].open}

\* The row operator of the UPDATE statements: f applied to the rows in S.
Updated(S, f(_)) ==
    [o \in DOMAIN outages |-> IF o \in S THEN f(outages[o]) ELSE outages[o]]

NextOf(S) == CHOOSE d \in S : \A e \in S : d <= e

NoEvents == [d \in Devices |-> NoEvent]

Pending(events) == {d \in Devices : events[d].kind # "none"}

Init ==
    /\ maintenance = {} /\ assigned = Devices
    /\ states = [d \in Devices |-> "none"]
    /\ outages = <<>>
    /\ built = FALSE /\ engine = <<>>
    /\ lock = NoThread
    /\ pc = [t \in Threads |-> "idle"]
    /\ full = [t \in Threads |-> FALSE]
    /\ wanted = [t \in Threads |-> {}]
    /\ rows = [t \in Threads |-> {}]
    /\ event = [t \in Threads |-> NoEvents]
    /\ left = [t \in Threads |-> {}]
    /\ oid = [t \in Threads |-> 0]
    /\ torn = {} /\ missed = {} /\ upsets = 0

-----------------------------------------------------------------------------
AtWork == {t \in Threads : pc[t] # "idle"}

\* A report is accepted: the org lock, and the topology without the devices in
\* maintenance.  An unchanged fingerprint keeps the engine.
Begin(t, isFull) ==
    LET ids == Devices \ maintenance
    IN  /\ pc[t] = "idle" /\ lock = NoThread
        /\ UpsetsApart /\ upsets > 0 => AtWork = {}
        /\ lock' = t
        /\ full' = [full EXCEPT ![t] = isFull]
        /\ IF built /\ DOMAIN engine = ids
           THEN /\ pc' = [pc EXCEPT ![t] = "process"]
                /\ UNCHANGED wanted
           ELSE /\ pc' = [pc EXCEPT ![t] = "build"]
                /\ wanted' = [wanted EXCEPT ![t] = ids]
        /\ UNCHANGED <<db, built, engine, rows, event, left, oid, history>>

\* MUTANT: the engine is rebuilt with every device up.
BuildUnprimed(t) ==
    /\ pc[t] = "build"
    /\ engine' = [d \in wanted[t] |-> Prime("UP")]
    /\ built' = TRUE
    /\ wanted' = [wanted EXCEPT ![t] = {}]
    /\ pc' = [pc EXCEPT ![t] = "process"]
    /\ UNCHANGED <<db, lock, full, rows, event, left, oid, history>>

\* EngineRegistry.get: a new engine, primed from device_states.
Build(t) ==
    /\ pc[t] = "build"
    /\ engine' = [d \in wanted[t] |->
                    Prime(IF states[d] = "none" THEN "UP" ELSE states[d])]
    /\ built' = TRUE
    /\ wanted' = [wanted EXCEPT ![t] = {}]
    /\ pc' = [pc EXCEPT ![t] = "process"]
    /\ UNCHANGED <<db, lock, full, rows, event, left, oid, history>>

\* process_cycle over the devices in S.
Process(t, S, res) ==
    LET new    == Cycle(Parents, engine, res, S)
        events == [d \in Devices |->
                     IF d \in S THEN EventOf(engine[d].state, new[d].state)
                     ELSE NoEvent]
    IN  /\ pc[t] = "process"
        /\ S \subseteq DOMAIN engine
        /\ full[t] => S \subseteq assigned \ maintenance
        /\ Len(outages)
             + Cardinality({d \in S : events[d].kind = "opened" /\ OpenOf(d) = {}})
               <= MaxOutages
        /\ engine' = new
        /\ rows' = [rows EXCEPT ![t] = S]
        /\ event' = [event EXCEPT ![t] = events]
        /\ left' = [left EXCEPT ![t] = Pending(events)]
        /\ pc' = [pc EXCEPT ![t] = "apply"]
        /\ UNCHANGED <<db, built, lock, full, wanted, oid, history>>

\* process_cycle of a full report whose canary is down: no device is scored,
\* the states of all of them are returned.
Frozen(t) ==
    /\ pc[t] = "process" /\ full[t]
    /\ rows' = [rows EXCEPT ![t] = DOMAIN engine]
    /\ event' = [event EXCEPT ![t] = NoEvents]
    /\ left' = [left EXCEPT ![t] = {}]
    /\ pc' = [pc EXCEPT ![t] = "apply"]
    /\ UNCHANGED <<db, built, engine, lock, full, wanted, oid, history>>

\* MUTANT: open_outage without its NOT EXISTS.
EnteredAgain(d, ev) ==
    CASE ev.kind = "opened" -> Append(outages, NewOutage(d, ev.state))
      [] ev.kind = "recategorized" ->
             Updated(OpenOf(d), LAMBDA r : [r EXCEPT !.cat = ev.state,
                                                  !.proven = @ \/ ev.state = "DOWN"])
      [] ev.kind = "resolved" ->
             Updated(OpenOf(d), LAMBDA r : [r EXCEPT !.open = FALSE])

\* open_outage_if_absent, recategorize_outage, resolve_outage.
Entered(d, ev) ==
    CASE ev.kind = "opened" ->
             IF OpenOf(d) = {} THEN Append(outages, NewOutage(d, ev.state)) ELSE outages
      [] ev.kind = "recategorized" ->
             Updated(OpenOf(d), LAMBDA r : [r EXCEPT !.cat = ev.state,
                                                  !.proven = @ \/ ev.state = "DOWN"])
      [] ev.kind = "resolved" ->
             Updated(OpenOf(d), LAMBDA r : [r EXCEPT !.open = FALSE])

\* apply_events, one transaction per event.
Apply(t) ==
    /\ pc[t] = "apply" /\ left[t] # {}
    /\ LET d == NextOf(left[t])
       IN  /\ outages' = Entered(d, event[t][d])
           /\ left' = [left EXCEPT ![t] = @ \ {d}]
    /\ UNCHANGED <<maintenance, assigned, states, built, engine, lock, pc, full,
                   wanted, rows, event, oid, history>>

\* write_device_states, and the org lock is released.
Write(t) ==
    /\ pc[t] = "apply" /\ left[t] = {}
    /\ states' = [d \in Devices |->
                    IF d \in rows[t] THEN engine[d].state ELSE states[d]]
    /\ lock' = NoThread
    /\ rows' = [rows EXCEPT ![t] = {}]
    /\ pc' = [pc EXCEPT ![t] = "dispatch"]
    /\ UNCHANGED <<maintenance, assigned, outages, built, engine, full, wanted,
                   event, left, oid, history>>

-----------------------------------------------------------------------------
\* dispatch() goes on to the next event.
Handled(t, d) ==
    /\ event' = [event EXCEPT ![t][d] = NoEvent]
    /\ oid' = [oid EXCEPT ![t] = 0]
    /\ pc' = [pc EXCEPT ![t] = "dispatch"]

\* MUTANT: a recategorization never pages.
PagesOnOpenOnly(ev) == ev.kind = "opened" /\ ev.state = "DOWN"

\* MUTANT: the suppressed outages page like the others.
PagesAlways(ev) == ev.kind \in {"opened", "recategorized"}

\* The events that page: a confirmed root cause, at once or after the parent
\* that hid it came back.
Pages(ev) == ev.kind \in {"opened", "recategorized"} /\ ev.state = "DOWN"

\* _on_open of a DOWN device: open_outage_id.
FindOutage(t) ==
    /\ pc[t] = "dispatch" /\ Pending(event[t]) # {}
    /\ LET d == NextOf(Pending(event[t]))
       IN  /\ Pages(event[t][d])
           /\ IF OpenOf(d) = {}
              THEN Handled(t, d)
              ELSE /\ oid' = [oid EXCEPT ![t] = CHOOSE o \in OpenOf(d) :
                                                   \A p \in OpenOf(d) : p <= o]
                   /\ pc' = [pc EXCEPT ![t] = "page"]
                   /\ UNCHANGED event
    /\ UNCHANGED <<db, built, engine, lock, full, wanted, rows, left, history>>

\* MUTANT: a device that was paged before is not paged again.
PageOncePerDevice(t) ==
    /\ pc[t] = "page"
    /\ LET o == oid[t]
           d == NextOf(Pending(event[t]))
       IN  IF \E p \in DOMAIN outages : outages[p].dev = d /\ outages[p].logged
           THEN /\ Handled(t, d)
                /\ UNCHANGED outages
           ELSE /\ outages' = [outages EXCEPT ![o].queued = @ + 1, ![o].paged = TRUE]
                /\ pc' = [pc EXCEPT ![t] = "schedule"]
                /\ UNCHANGED <<event, oid>>
    /\ UNCHANGED <<maintenance, assigned, states, built, engine, lock, full,
                   wanted, rows, left, history>>

\* already_paged(): the outage has a 'sent' row.  Otherwise the page is queued.
Page(t) ==
    /\ pc[t] = "page"
    /\ LET o == oid[t]
           d == NextOf(Pending(event[t]))
       IN  IF outages[o].logged
           THEN /\ outages' = [outages EXCEPT ![o].paged = TRUE]
                /\ Handled(t, d)
           ELSE /\ outages' = [outages EXCEPT ![o].queued = @ + 1, ![o].paged = TRUE]
                /\ pc' = [pc EXCEPT ![t] = "schedule"]
                /\ UNCHANGED <<event, oid>>
    /\ UNCHANGED <<maintenance, assigned, states, built, engine, lock, full,
                   wanted, rows, left, history>>

\* schedule_escalation: INSERT OR IGNORE on the outage's one escalation row.
Schedule(t) ==
    /\ pc[t] = "schedule"
    /\ outages' = [outages EXCEPT ![oid[t]].esc = IF @ = "none" THEN "waiting" ELSE @]
    /\ Handled(t, NextOf(Pending(event[t])))
    /\ UNCHANGED <<maintenance, assigned, states, built, engine, lock, full,
                   wanted, rows, left, history>>

\* _on_open of an UNREACHABLE device: an alert_log row, no page.
Suppress(t) ==
    /\ pc[t] = "dispatch" /\ Pending(event[t]) # {}
    /\ LET d == NextOf(Pending(event[t]))
       IN  /\ event[t][d].kind # "resolved" /\ ~Pages(event[t][d])
           /\ Handled(t, d)
    /\ UNCHANGED <<db, built, engine, lock, full, wanted, rows, left, history>>

\* _on_resolved: the escalations of the device's resolved outages are cancelled.
Cancel(t) ==
    /\ pc[t] = "dispatch" /\ Pending(event[t]) # {}
    /\ LET d == NextOf(Pending(event[t]))
       IN  /\ event[t][d].kind = "resolved"
           /\ outages' = Updated({o \in DOMAIN outages :
                                    /\ outages[o].dev = d /\ ~outages[o].open
                                    /\ outages[o].esc \in {"waiting", "due"}},
                                 LAMBDA r : [r EXCEPT !.esc = "done"])
           /\ Handled(t, d)
    /\ UNCHANGED <<maintenance, assigned, states, built, engine, lock, full,
                   wanted, rows, left, history>>

\* MUTANT: what is due and resolved is put off like the rest.
SweptAgain == Updated({o \in DOMAIN outages : outages[o].esc = "due"},
                      LAMBDA r : [r EXCEPT !.esc = "waiting"])

\* sweep(): of the due escalations, those of resolved outages are executed and
\* the others put off by escalate_every_min.
Swept ==
    Updated({o \in DOMAIN outages : outages[o].esc = "due"},
            LAMBDA r : [r EXCEPT !.esc = IF r.open THEN "waiting" ELSE "done"])

\* The handler is through with its events; a full report sweeps, then ends.
Finish(t) ==
    /\ pc[t] = "dispatch" /\ Pending(event[t]) = {}
    /\ outages' = IF full[t] THEN Swept ELSE outages
    /\ pc' = [pc EXCEPT ![t] = "idle"]
    /\ full' = [full EXCEPT ![t] = FALSE]
    /\ UNCHANGED <<maintenance, assigned, states, built, engine, lock, wanted, rows,
                   event, left, oid, history>>

-----------------------------------------------------------------------------
\* A worker of the send pool is through with a page, attempts and all; only a
\* success leaves a row that already_paged sees.
Deliver(o, ok) ==
    /\ outages[o].queued > 0
    /\ outages' = [outages EXCEPT
                      ![o].queued = @ - 1,
                      ![o].logged = @ \/ ok]
    /\ UNCHANGED <<maintenance, assigned, states, memory, history>>

\* escalate_every_min has gone by.
Tick(o) ==
    /\ outages[o].esc = "waiting"
    /\ outages' = [outages EXCEPT ![o].esc = "due"]
    /\ UNCHANGED <<maintenance, assigned, states, memory, history>>

\* A fault or an edit, after which the threads in working are at work.
Upset(working) ==
    /\ upsets < MaxUpsets /\ upsets' = upsets + 1
    /\ UpsetsApart => Cardinality(working) <= 1

Edit == Upset(AtWork) /\ UNCHANGED <<memory, missed>>

\* set_org_device_maintenance.
SetMaintenance(d) ==
    /\ Edit
    /\ maintenance' = IF d \in maintenance THEN maintenance \ {d}
                      ELSE maintenance \cup {d}
    /\ UNCHANGED <<assigned, states, outages, torn>>

\* update_org_device with an edge node.
Assign(d) ==
    /\ Edit
    /\ d \notin assigned
    /\ assigned' = assigned \cup {d}
    /\ UNCHANGED <<maintenance, states, outages, torn>>

\* update_org_device without one: the device loses its state row, its open
\* outage and that outage's escalation.  Neither the org lock nor the engine is
\* involved.
Unassign(d) ==
    /\ Edit
    /\ assigned' = assigned \ {d}
    /\ states' = [states EXCEPT ![d] = "none"]
    /\ outages' = Updated(OpenOf(d),
                          LAMBDA r : [r EXCEPT !.open = FALSE, !.esc = "none"])
    /\ torn' = torn \cup {d}
    /\ UNCHANGED maintenance

\* What thread t leaves half done: events without their rows or the other way
\* round while it holds the lock, pages and escalations in dispatch.
HalfWritten(t) == IF pc[t] = "apply" THEN Pending(event[t]) ELSE {}
HalfSent(t) == IF pc[t] \in {"apply", "dispatch", "page", "schedule"}
               THEN Pending(event[t]) ELSE {}

\* A store call of thread t raises: the handler gives up, and the lock it holds
\* is released.
Fail(t) ==
    /\ Upset(AtWork \ {t})
    /\ pc[t] # "idle"
    /\ torn' = torn \cup HalfWritten(t)
    /\ missed' = missed \cup HalfSent(t)
    /\ lock' = IF lock = t THEN NoThread ELSE lock
    /\ pc' = [pc EXCEPT ![t] = "idle"]
    /\ full' = [full EXCEPT ![t] = FALSE]
    /\ wanted' = [wanted EXCEPT ![t] = {}]
    /\ rows' = [rows EXCEPT ![t] = {}]
    /\ event' = [event EXCEPT ![t] = NoEvents]
    /\ left' = [left EXCEPT ![t] = {}]
    /\ oid' = [oid EXCEPT ![t] = 0]
    /\ UNCHANGED <<db, built, engine>>

\* The process dies and starts again: the database is what is left.
Crash ==
    /\ Upset({})
    /\ torn' = torn \cup UNION {HalfWritten(t) : t \in Threads}
    /\ missed' = missed
                 \cup {outages[o].dev : o \in {p \in DOMAIN outages : outages[p].queued > 0}}
                 \cup UNION {HalfSent(t) : t \in Threads}
    /\ outages' = Updated(DOMAIN outages, LAMBDA r : [r EXCEPT !.queued = 0])
    /\ built' = FALSE /\ engine' = <<>>
    /\ lock' = NoThread
    /\ pc' = [t \in Threads |-> "idle"]
    /\ full' = [t \in Threads |-> FALSE]
    /\ wanted' = [t \in Threads |-> {}]
    /\ rows' = [t \in Threads |-> {}]
    /\ event' = [t \in Threads |-> NoEvents]
    /\ left' = [t \in Threads |-> {}]
    /\ oid' = [t \in Threads |-> 0]
    /\ UNCHANGED <<maintenance, assigned, states>>

-----------------------------------------------------------------------------
Results(S) == [S -> Observed]

\* The steps of a handler once its report is accepted.
Step(t) ==
    \/ Build(t)
    \/ \E S \in SUBSET Devices : \E res \in Results(S) : Process(t, S, res)
    \/ Frozen(t)
    \/ Apply(t) \/ Write(t)
    \/ FindOutage(t) \/ Page(t) \/ Schedule(t) \/ Suppress(t) \/ Cancel(t)
    \/ Finish(t)

Next ==
    \/ \E t \in Threads : (\E isFull \in BOOLEAN : Begin(t, isFull)) \/ Step(t) \/ Fail(t)
    \/ \E o \in DOMAIN outages : Tick(o) \/ \E ok \in BOOLEAN : Deliver(o, ok)
    \/ \E d \in Devices : SetMaintenance(d) \/ Assign(d) \/ Unassign(d)
    \/ Crash

Spec == Init /\ [][Next]_vars

\* Threads run, time passes, and a node keeps posting full reports between its
\* rechecks (the main loop of apps/daemon/main.py); nothing makes an operator
\* edit, a send succeed or a fault happen.
Fairness ==
    /\ \A t \in Threads : WF_vars(Step(t))
    /\ SF_vars(\E t \in Threads : Begin(t, TRUE))
    /\ \A o \in 1..MaxOutages : WF_vars(o \in DOMAIN outages /\ Tick(o))

FairSpec == Spec /\ Fairness

-----------------------------------------------------------------------------
Handlers == {"idle", "build", "process", "apply", "dispatch", "page", "schedule"}

Outages == [dev : Devices, cat : DownFamily, open : BOOLEAN, esc : Escalations,
            queued : Nat, logged : BOOLEAN, paged : BOOLEAN, proven : BOOLEAN]

TypeOK ==
    /\ maintenance \in SUBSET Devices /\ assigned \in SUBSET Devices
    /\ states \in [Devices -> States \cup {"none"}]
    /\ outages \in Seq(Outages)
    /\ built \in BOOLEAN
    /\ DOMAIN engine \in SUBSET Devices /\ engine \in [DOMAIN engine -> FSM]
    /\ lock \in Threads \cup {NoThread}
    /\ pc \in [Threads -> Handlers]
    /\ full \in [Threads -> BOOLEAN]
    /\ wanted \in [Threads -> SUBSET Devices]
    /\ rows \in [Threads -> SUBSET Devices]
    /\ event \in [Threads -> [Devices -> Events]]
    /\ left \in [Threads -> SUBSET Devices]
    /\ oid \in [Threads -> 0..Len(outages)]
    /\ torn \in SUBSET Devices /\ missed \in SUBSET Devices
    /\ upsets \in Nat

\* What a state says of an outage, and what the ledger says of one.
Category(state) == IF state \in DownFamily THEN state ELSE "none"

Entry(d) == IF OpenOf(d) = {} THEN "none"
            ELSE outages[CHOOSE o \in OpenOf(d) : TRUE].cat

\* The engine, the persisted states it would be rebuilt from and the outages
\* table agree on every device whenever the org lock is free, except on those
\* that a fault in the middle of a cycle or an unassignment touched: crashes
\* elsewhere, rebuilds, maintenance windows and frozen cycles are harmless.
LedgerAgrees ==
    lock = NoThread =>
        \A d \in Devices \ torn :
            /\ Entry(d) = Category(states[d])
            /\ d \in DOMAIN engine => Category(engine[d].state) = Category(states[d])

\* The outages table is the append-only ledger of OutageLedger, whatever
\* crashes, edits and handlers interleave.
Ledger == INSTANCE OutageLedger WITH
    Categories <- DownFamily,
    rows <- [o \in DOMAIN outages |->
                [dev |-> outages[o].dev, cat |-> outages[o].cat, open |-> outages[o].open]]

ImplementsLedger == Ledger!Spec

AtRest == \A t \in Threads : pc[t] = "idle"

\* No confirmed outage goes unnoticed: when the handlers are through, the page
\* of every open DOWN outage was queued (or found sent), however the reports
\* that opened, hid and uncovered it were interleaved.
OpenDownIsPaged ==
    AtRest =>
        \A o \in DOMAIN outages :
            /\ outages[o].open /\ outages[o].cat = "DOWN"
            /\ outages[o].dev \notin missed
            => outages[o].paged

\* The hourly escalation of a paged outage lives until the outage is resolved:
\* the recovery of an earlier outage of the device, dispatched late, does not
\* take it away.
PagedOutageEscalates ==
    AtRest =>
        \A o \in DOMAIN outages :
            /\ outages[o].open /\ outages[o].paged
            /\ outages[o].dev \notin missed
            => outages[o].esc \in {"waiting", "due"}

\* However the reports are interleaved, an open outage is paged and stays on the
\* escalation clock.
OpenOutagesAreSeenTo == OpenDownIsPaged /\ PagedOutageEscalates

\* A child pages only when a live parent proves the fault is real: an outage is
\* paged only if its device was DOWN, the proven root cause, in it or in an
\* earlier outage.  It may be an earlier one, because the page of a handler that is
\* overtaken lands in the outage then open.  Where a fault or an edit came between
\* an engine and its ledger, the outage may keep its category although the engine
\* found the device DOWN and had it paged.
OnlyRootCausesPage ==
    \A o \in DOMAIN outages :
        outages[o].paged /\ outages[o].dev \notin torn =>
            \E p \in 1..o : outages[p].dev = outages[o].dev /\ outages[p].proven

\* What README.md:54 says of a page: the outage it is about is that of a proven
\* fault.
PagedOutageIsProven == \A o \in DOMAIN outages : outages[o].paged => outages[o].proven

\* The escalation of a resolved outage does not stay pending for ever, even if
\* it was scheduled after the recovery had cancelled what there was.
ResolvedEscalationsEnd ==
    \A o \in 1..MaxOutages :
        (/\ o \in DOMAIN outages /\ ~outages[o].open
         /\ outages[o].esc \in {"waiting", "due"})
        ~> (o \in DOMAIN outages /\ outages[o].esc \in {"none", "done"})

\* A confirmed outage is paged in the end, unless it ends or is hidden first or
\* a fault strikes.
DownOutageIsPagedInTheEnd ==
    \A o \in 1..MaxOutages :
        (o \in DOMAIN outages /\ outages[o].open /\ outages[o].cat = "DOWN")
        ~> /\ o \in DOMAIN outages
           /\ \/ outages[o].paged
              \/ ~outages[o].open \/ outages[o].cat # "DOWN"
              \/ outages[o].dev \in missed
=============================================================================
