# Wisp, verified: a TLA+ development beside the code

Wisp watches the network of a small internet provider. Edge daemons ping
devices, a central server decides which of them are down, keeps a ledger of
outages and pages people, and a dashboard in the browser shows the network and
edits the record of it. This project models the parts that have to be right when
nobody looks: what central makes of a stream of samples, what it stores and whom
it pages; how the edge software replaces itself; how a month is charged and paid;
and what the dashboard does between a click, the answer to it and the five other
things that happen meanwhile.

The modules are translated from the code under `src/`. Paths below are relative
to the repository; `wisp/` stands for `src/wisp/` and `web/` for `web/src/`.
`PROJECT.json` maps every definition to its lines.

## 1. The system

### 1.1 Components, their state and their operations

| component | state | operations |
|---|---|---|
| device state machine, `wisp/core/state_machine.py` `DeviceFSM` | state (UP, DEGRADED, DOWN, UNREACHABLE) and the streaks lost / not lost / healthy / degraded | `feed`, `prime`, `reclassify` by the engine |
| monitor engine, same file | one machine per device, the walk order, the uplink flag | `_topological_order`, `process_cycle` |
| engine registry, `wisp/central/engine.py` | one engine and one lock per organisation | `get` (rebuild on a changed fingerprint), `run_cycle`, `apply_events`, `compute_recheck` |
| report handler, `wisp/central/api/edge.py` | handler threads | `report`, `devices`, `heartbeat_reply` |
| outages, `wisp/central/store_outages.py` | tables outages, escalations, alert_log, device_states | open, recategorize, resolve, schedule, cancel, due, uplink_active |
| dispatcher and send pool, `wisp/central/dispatch.py`, `wisp/egress/notifiers.py` | a queue, worker threads | `_on_open`, `_on_resolved`, `sweep`, submit, deliver and log |
| edge daemon, `apps/daemon/main.py` | device list, recheck loop | refresh, probe, report, recheck, heartbeat |
| rollout, `wisp/central/rollout.py`, `store_fleet.py` | releases, nodes, one rollout per organisation | auto-arm, arm, evaluate, direct |
| supervisor, `wisp/runtime/supervisor.py`, `apps/supervisor/main.py` | agent file, backup, request file, child process | apply, health gate, roll back |
| live ping, `wisp/central/liveping.py`, `ingress/liveping.py`, `web/components/live-ping.tsx` | sessions in memory, the edge's tasks, the panel's cursor | start, poll, samples, deadlines, release |
| device web proxy, `wisp/central/proxy.py`, `api/proxy.py`, `ingress/webproxy.py`, `web/components/web-proxy.tsx` | sessions in memory and on record, parked requests, the tunnel's workers, the browser's tabs | open, request, wait for a slot, poll, answer, time out, expire, sweep closed tabs |
| billing, `wisp/central/billing.py`, `store_billing.py`, `api/billing.py` | daily accruals, invoices, payments, credit, exemption and lock | sweep (accrue, issue, settle, lock), webhook, administrator's edits |
| paying, `web/components/billing/pay-dialog.tsx`, `billing-lock.tsx` | phase of the dialog, the gateway's window, a poll | order, open, verify, wait, dismiss |
| replay, `wisp/central/store_replay.py`, `web/lib/replay.ts` | outages and floors of a window | reconstruct a moment, step, play |
| fibre record, `wisp/central/store_devices.py` | cables, joints, points | lay, cut, join, connect, move, clear, remove |
| web session, `web/hooks/use-auth.tsx`, `web/lib/api.ts` | cookie, user, organisation scope, requests under way | sign in, probe, sign out, expire |
| live tab, `web/hooks/use-event-stream.ts`, `web/lib/build-refresh.ts`, `web/routes/lazy.tsx` | stream, view, build, chunk, sessionStorage | reconnect, refetch, reload |
| map, `web/routes/map-page.tsx` | mode, menus, popups, draft of a cable, replay | place, drag, trace, save, enter and leave replay |
| network tree, `web/routes/topology-page.tsx` | inventory, folding, filters, focus | fold, filter, search, move, open |
| forms, settings, platform, device and billing panels | drafts, the call under way | open, type, save, refetch |
| fibre tray, `web/components/coupler-tray.tsx` | a copy of the record, expanded rows | fold, expand, join, clear, drop |
| survey, `web/routes/survey-page.tsx` | the sheet, the fix, the pin, the call | pick, fix, drag, save |
| split view, `web/hooks/use-split-view.tsx`, `web/components/layout/split-view.tsx` | the pane, its router, the box, the stored layout | open, swap, resize, guard, persist |
| node watchdog, digests, redundancy, ports, PON and ONU alarms, walks, assignment, RADIUS, NVR, scrapers, users | their tables | see section 6 |

### 1.2 How they interact

An edge daemon fetches its devices, pings them and posts a *full report*.
The handler takes the organisation's lock, gets the engine (built anew if
the topology changed), runs `process_cycle`, enters its events in the outages
table, writes the states and releases the lock. Then, without the lock, it
dispatches the events: pages go to the send pool, escalations to their table.
The answer carries a recheck directive, which the daemon follows with rounds of
*partial* reports until central has no more doubts. The daemon ends its cycle with a
heartbeat, whose handler drives the rollout and whose answer may carry an update
directive; the daemon leaves that in a file for the supervisor. Besides, the edge
keeps long polls open for what is asked for now: live pings and web proxy requests.

The dashboard holds copies. Every write is a call whose answer invalidates some of
them; an event stream invalidates the rest; a refetch replaces a copy as a whole, under
whatever form, tray or mode the user has open. Billing reaches both ends: a
deactivated organisation is stood down at the edge and locked in the browser.

### 1.3 What is hard

* Flap suppression: streaks that reset each other, and a machine that is rebuilt
  from the database between two polls.
* Suppression: a device behind a dead parent must not page, must not be lost, and
  must page as soon as its parent is back and it is not. Cycles are partial.
* The dispatch runs after the lock is released: it sees outages that have moved on.
* Crashes and failed store calls between the writes of one cycle, and between the
  steps of the billing sweep.
* Lost reports and lost answers; a device missing in a report counts as lost.
* Rollouts, and invoices, are read, judged and written by concurrent threads without a
  lock. The power fails while the supervisor replaces the agent.
* Three parties with three ideas of one session (live ping, web proxy), none of which is
  told when another gives up.
* Answers that come after the user has moved on: signed out, closed the sheet, chosen
  another core, entered replay, closed the gateway's window.
* Copies: a gesture is chosen from what a tray showed and applied to what is there now.
* Effects that repair each other: reload guards, the split view's guard, location and
  storage.

### 1.4 What makes each component correct

Device: an outage exactly on a run of lost polls, a recovery exactly on a run of
answers. Engine: blame on root causes only, nothing hidden, events that tell all.
Central: engine, stored states and ledger agree; every confirmed outage is paged,
none is paged that was never a root cause, escalations end with their outage.
Uplink: one page per loss. Daemon: every death and return is noticed. Rollout: canaries
first, every rollout ends that nobody blocks. Supervisor: a whole agent on disk, a working one running.
Live ping: no sample skipped, what is over stays over. Web proxy: a tab shows the answers
to its own requests. Billing: an invoice is the sum of its days, whoever has paid is
unlocked. Paying: nobody is asked twice, waiting ends. Session: signing out is final.
Live tab: the view catches up, nothing reloads for ever. Map and replay: the past is read
only and is what it was. Fibre: two fibres meet at a point, a tray shows each core once.
Forms: what is typed is not wiped by a refetch. Split view: what is shown, stored and
allowed are one.

## 2. The modules

| module | models | uses |
|---|---|---|
| `DeviceFSM` | `feed`, `prime`, the reclassification, as operators | |
| `DeviceWatch`, `DeviceWatchProofs` | one device over time, with the history of its samples | DeviceFSM |
| `TopologyOrder`, `TopologyOrderProofs` | `_topological_order`, one loop iteration per step | |
| `EngineCycle` | `process_cycle` as a function of results, and the event of each device | DeviceFSM |
| `MonitorEngine`, `MonitorEngineProofs` | `process_cycle` as the loop it is, device by device, with partial cycles, rebuilds and edits of the topology | EngineCycle |
| `OutageLedger`, `OutageLedgerProofs` | the abstract specification of the outages table | |
| `CentralBrain`, `MCCentralBrain`, `CentralBrainProofs` | registry, report handlers, store writes, dispatcher, escalations, send pool, crashes, failed calls, edits | EngineCycle, OutageLedger |
| `Uplink` | the uplink flag and its pages | |
| `EdgeProbe` | the daemon's loop against central over a lossy network | EngineCycle |
| `Rollout` | heartbeats, rollout, nodes and what they do with a directive | |
| `Supervisor` | the supervisor's loop and its files | |
| `LivePing` | panel, hub and edge of a live ping | |
| `WebProxy` | tabs, sessions, parked requests and workers of the device web proxy | |
| `BillingLedger` | days, invoices, payments and the lock; sweep, webhook and administrator as threads | |
| `PayFlow` | the dialog, the gateway's window, its webhook and the lock screen | |
| `WebSession` | the session as the tab and as central have it, with a late answer of each kind | |
| `LiveTab` | the event stream, the refetches, builds and reload guards of a tab | |
| `MapModes` | modes, menus, popups, selection and calls of the map, replay among them | |
| `CableTrace` | the tracing of a cable and the calls that save it | |
| `Replay` | outages and floors, and the picture the client computes of a moment | |
| `NetworkTree` | the rows of the inventory page under folding, filters and detaching | |
| `Drafts` | the forms of the dashboard: one machine and a record of traits for each form | |
| `FibreRecord` | cables and joints, and the gestures that reach them late | |
| `FibreTray` | the rows a tray makes of the record, folded or not | |
| `Survey` | the sheet of the survey, its fix, its saves and their answers | |
| `SplitView` | the second pane; every effect of React a step | |
| `MCMonitorEngine`, `MCEdgeSide`, `MCCentralParts`, `MCWebLive`, `MCDashboard` | several of the above side by side, for one run | |
| `EdgeSideProofs` | the proofs about `Uplink`, `EdgeProbe`, `Supervisor` and `Rollout` | MCEdgeSide |
| `CentralPartsProofs` | the proofs about `BillingLedger`, `FibreRecord`, `Survey`, `WebProxy`, `PayFlow`, `Replay` and `FibreTray` | MCCentralParts |
| `DashboardProofs` | the proofs about `Drafts`, `MapModes`, `LiveTab`, `WebSession`, `CableTrace`, `NetworkTree` and `SplitView` | MCDashboard |

How state corresponds to code:

* A machine is a record of the state and its four streaks. The code's counters grow
  without end; the model saturates them at `StreakCap`, which is at least every
  threshold, so every comparison comes out the same. Samples are `lost`, `poor`
  (loss or latency over the limit) and `good`.
* `MonitorEngine` walks devices in ascending order, and its devices are numbered
  parents first: that an order with this property is what
  `_topological_order` computes is `TopologyOrder`. `lone` is a twin of every
  machine that has no parents; it is read by no action.
* In `CentralBrain` a step is one transaction, or one region of code between two
  points where another thread can get in: `Begin` (lock, fingerprint),
  `Build`, `Process`, one `Apply` per event, `Write` (states, unlock), then per
  event `FindOutage`, `Page`, `Schedule`, or `Suppress`, or `Cancel`, and `Finish`
  (the sweep). `Deliver` is a worker of the send pool. `Fail` is a store call that raises,
  `Crash` the end of the process.
* An outage row carries, under its id, its escalation row and its rows of the alert log.
  `paged` and `proven` are history.
* `Rollout`: a version is a number; each store call of `heartbeat_reply` is a
  step. Operators arm at any moment, nodes may run a release that was installed by hand, and may be
  switched off for good (`Retire`), with or without their row (`Forget`). `chosen` (armed for that node first) and
  `overtaken` (the row got a verdict on another rollout) are history.
  `Supervisor`: the copy of the agent is two steps with a torn file between them;
  `os.replace` is one. A release may exit at once (not in `Works`), not tell its version (not in `Speaks`), or be refused
  by the system, so that `Popen` raises (not in `Starts`): then `consume_request` gives the update up without a rollback
  (`RestartRaises`, `RollbackRaises`), and the loop, whose `runner.start()` is in no `try`, starts nothing any more.
* `BillingLedger`: a day is a number, a month a few of them; each statement that commits
  is a step of the thread that runs it, and a crash stops the sweep at any of them. A request for the two flags that suppress
  charging is two steps (`ReadFlags` outside the write lock, `WriteFlags` in it), and several superadmins may be
  between them; `misanchored` is history: charging was resumed with an anchor that is not the day it was resumed on.
* In the browser a handler or an effect is one step, because JavaScript is not
  interrupted; a call is two, the sending and what its answer does. What react-query does
  with a copy is a refetch that may come at any time.
* `WebProxy` and `LivePing` have the network as sets of calls under way; `life`, the starts of
  central, is not part of what is sent.
* `Drafts` says of each form when its draft is copied from the stored value (`copies`),
  whether every row has its own (`rows`), whether it outlives a change of target
  (`handsOver`: never, always, or depending on where in its card it is open), what its button waits for (`needs`), what an
  answer does (`after`, `reverts`) and which reads its opening starts (`reads`): the organisation's settings wait for the first
  copy and keep the fields of the organisation before when that read fails; the login dialog blanks the login and fills it in
  when a read ends, whichever device that was for, and saves the blanks if it is sent before. The trait records are read
  off the components; the machine is common.
* `NetworkTree`: rows are hidden by `effectiveCollapsed`, which a search empties; the chip "+n" goes by `collapsed` itself
  (`DeviceIdentityChips`).
* `SplitView` has lengths and shares as small integers, with the floor and the grip of the
  code in proportion; the least share, a fraction in the code, is rounded up. Each effect has its guard as a
  definition (`Unmeasured`, `Astray`, ...), and the view is at rest when none of them holds (`Busy`).
* `Replay` and `FibreTray` sort by choosing a sequence that is in order, and walk it with a recursive function: what the
  code's loops do, in a form that can be reasoned about.

The composites put parts side by side that share no state: `part` is chosen at the start and only
its component moves. Nothing is proved by that which the parts do not have; it keeps the number of
runs small. Composition of components that do interact is within the modules: `CentralBrain`
(handlers, engine, ledger, pool), `EdgeProbe` (daemon and central), `LivePing`, `WebProxy` (three
processes each), `FibreRecord` (trays and store), `BillingLedger` (three threads).

## 3. The runs

| run | instance | states | shows |
|---|---|---|---|
| `MonitorEngine` | all acyclic topologies of 3 devices, edited at will; `LivePing`: 2 sessions, a packet each, a fault | 2.17 million | suppression relabels only, events are complete; no sample is skipped, what is over stays over |
| `CentralBrain` | tower and child; 2 threads, or 1 with a fault or an edit | 1.22 million | late dispatches miss nothing and page root causes, the stores agree after crashes, the table is an `OutageLedger` |
| `CentralBrainLive` | 1 device, 1 thread, two faults or edits | 67,349 | pages go out, escalations end |
| `CentralParts` | `DeviceWatch` with the thresholds as shipped, 7 samples; `TopologyOrder` of 3 devices; `BillingLedger` 4 days in months of 2, 2 superadmins, a crash, no payment of the gateway's; `Replay` of 4 moments and 2 outages; `FibreRecord` 2 boxes, 2 closures, 3 cables, 3 gestures; `FibreTray` a drum of 3 cores; `Survey` 3 targets, a fix; `WebProxy` a tab that is closed and opened again, 2 sessions, 2 requests, 2 workers; `PayFlow` 2 attempts | 1.15 million | safety of parts without a partner |
| `EdgeSide` | `Uplink` 1 node, 3 losses; `EdgeProbe` 2 devices; `Supervisor` 6 releases, 2 power failures; `Rollout` 2 nodes, 1 release and a newer one by hand, a trouble and a rollout armed by an operator or two of the latter | 220,680 | the edge side, safety and liveness |
| `WebLive` | `LiveTab` 2 versions, a deployment, a reload; `BillingLedger` with a crash and an edit; `PayFlow` 2 attempts | 88,003 | what must happen in the dashboard in the end |
| `Dashboard` | `LiveTab` 2 deployments; `WebSession` 2 users, 2 sessions; `MapModes` 2 modes, 1 call; `CableTrace` 2 points; `NetworkTree` 3 devices; `Drafts` every form on 2 targets; `SplitView` 4 windows, 2 roles, 5 moves | 2.32 million | the screens, each by itself |
| `UplinkTwoNodes` | 2 nodes, 1 loss | violation | see 4 |
| `EdgeProbeDeactivated` | 1 device, 2 edits | violation | see 4 |
| `ChunkReloadLoop` | 1 build with a broken chunk, 2 routes | violation | see 4 |
| `FibrePlumbing` | 2 boxes, 2 closures, 3 cables, 3 gestures | violation | see 4 |
| `OvertakenPage` | tower and child, 2 threads | violation | see 4 |

What the properties say, beyond the names: `PROJECT.json` lists for every hazard the property that is
about it, and for every property a mutant, a plausible bug in the mapped code, under which TLC finds
the property violated in that very run.

Why the bounds are enough. Streaks saturate, so `MonitorEngine` and `EdgeProbe` need
no bound on cycles. `MonitorEngine` with three devices has chains, forks and
a child of two parents; what TLC finds there is proved for every topology. The
thresholds of `CentralBrain` are 1: longer streaks only delay its events,
and `DeviceWatch` has the streaks. Its run races two threads as long as nothing fails and has one at a time after
a fault or an edit (`UpsetsApart`); the safety it checks is proved for any number of both, at once. Two outages per behaviour let an outage be
followed by another of the same device, which is what late dispatches confuse, and
two threads are one more than the lock admits. Seven samples are twice the longest
threshold and one. A trouble lets a rollout be hit and recover, two rollouts one be armed while the other is
judged, and a release installed by hand lets one wait for a node that is ahead of it. Two superadmins are the least that can
cross; what is paid meets an invoice's status only, so adjustments of either sign stand for every payment there, and
the gateway's own come in `WebLive`. Two months of two days
have a month's end with a day before and after it, and a backfill of two days reaches across it. Two
targets, two cores, two sessions or two attempts are the least that can be confused, and confusion of
two things is all that the properties of the dashboard are about. Three gestures cut a cable, join
its halves and disturb one of them. Four windows have no room, room one way, the other way, and both.

Fairness, and why the code justifies it:

* `CentralBrainLive`: handler threads run (`WF` of each step), time passes (`Tick`),
  and full reports are accepted again and again (`SF` of `Begin`): the lock is free again
  and again, and a daemon posts a report every cycle. Nothing makes a send
  succeed, an operator edit or a fault happen.
* `Uplink`: nodes report and the pool works. `EdgeProbe`: the daemon's loop runs, and a report
  and a fetch get through again and again (`SF`): a network that loses everything for ever
  reports nothing.
* `Rollout`: nodes send heartbeats, handlers and supervisors run, the health window
  passes. Replies may be lost, gates may fail and nodes go, a bounded number of times.
  `Prompt` is a timing assumption: a handler writes what it decided within
  milliseconds, before a gate, the staleness of a node or the window, all of them
  seconds at least, run out. `Supervisor`: its loop runs, and an agent that does not work exits.
* `WebLive`: the browser reconnects, the server pushes, a fetch is answered and shown again and again
  (`SF`, because a broken stream or a hidden tab interrupts them); the sweeper, which is on a timer, and the
  second half of the webhook and of the administrator's request go on (`WF`); the gateway
  repeats a webhook until it is answered; a waiting screen polls. Nobody has to pay.

Deadlock is not checked where a bound stops the system (samples, outages, gestures,
edits) or one part of a composite is at rest while the others stand still, and that is every run.

## 4. Where code and documents disagree

Five disagreements are runs of their own, each of which TLC refutes:

* `UplinkTwoNodes`. The uplink flag belongs to the organisation, the canary to
  the node that reports. With two nodes, one of them offline, each
  report of the online one clears the flag and each of the offline one
  sets it: a page per report, where `README.md:53` promises "one page, not a storm".
* `EdgeProbeDeactivated`. `api/edge.py:31` says of a deactivated organisation that
  "the edge probes nothing and pages nobody". The handler scores the whole topology all the same, and
  what is missing in a report counts as lost (`state_machine.py:220`). In the trace a daemon with an empty
  list does not get the device its node has been given; two reports without it are two losses, the organisation is
  deactivated, and the third takes the healthy device DOWN and opens its outage. No restart is needed. A daemon that is restarted while the organisation
  is deactivated, and so starts with an empty list, does the same in as many steps.
* `ChunkReloadLoop`. The guards of `build-refresh.ts` and `lazy.tsx` share one key of sessionStorage and
  undo each other's mark: a chunk that is gone for good reloads the page for ever, which both
  files say cannot happen.
* `FibrePlumbing`. "A CABLE NOBODY LAID GOES WHEN THE LAST FIBRE COMES OFF IT"
  (`store_devices.py:1205`): it does when the joint is cleared under its own id, and stays when the closure or the
  trunk is deleted, or the joint is cleared under the trunk's id.

* `OvertakenPage`. The dispatcher looks the outage to page up by its device (`dispatch.py:99`), after the lock is
  released. Two later reports may have closed the outage that was proven and opened one that is hidden behind
  its parent: the page is booked on that one, and when its parent comes back it counts as paged already
  (`dispatch.py:105`). `README.md:53` has "a child pages only when a live parent proves the fault is real". That
  overtaking is the only way to this is proved (`SoleHandlerPagesProven`, section 5).

Others came up while modelling and are kept out of what the runs claim, by name or by an exception in
the property:

* Monitoring. A device taken from its probe and given back while DOWN has no outage (`LedgerAgrees` excepts
  `torn` devices). An outage hidden and uncovered while its page is still in the pool is paged
  twice. A rollout armed while a heartbeat judges the previous one gets that verdict, and is promoted on it
  (`overtaken`). A promoted rollout waits for ever for a node that runs a newer release, which `rollout.py:50` never directs
  back while `:90` asks for the very version, or that is gone and has its row still (`Stuck`).
  A power failure before the health gate of a bad agent is over leaves that agent for good (`untried`), and so does a
  release that the system refuses to execute, or any other call that raises between the swap and the end of the
  rollback (`raised`): `README.md:72` has "health-gated, auto-rollback", `WorkingAgentComesBack` excepts both. `WISP_ESCALATE_EVERY_MIN` is documented
  as re-pages; the escalation of an open outage is put off and logged as suppressed.
* Billing. `store_billing.py:57-63` has the request that clears the last suppressing flag anchor charging to its day, and the
  drawer promises that deactivated days "stay a hole in the ledger and are never billed later" (`org-drawer.tsx:298`). But the
  flags are read before the write lock is taken (`api/billing.py:331`): of two requests that each clear one flag, having read both
  set, neither anchors; one that reads before midnight anchors to the day before. The sweep then fills the hole in, even
  into a month that has its invoice, which is no longer "the sum of these rows" (`store_billing.py:130`).
  `InvoiceIsTheSumOfItsDays` excepts what follows such a race (`misanchored`); without the exception TLC refutes it.
* Network page. While there is a search every row is laid open, and a folded row keeps its chip: "+n", "Children hidden by this
  collapsed branch" (`topology-page.tsx:784`), over children that are shown. `RowsAccountForAll` has the chips count
  only while there is none.
* Live ping. A restart of central keeps the cursor of the session before for one poll, and samples below it
  are not shown (`RestartIsClean` of `LivePing` does not hold).
* Web proxy. Numbers of requests begin anew with central and an answer is matched by number, organisation and
  node only (`proxy.py:385`, `:422`): after a restart a late answer of the edge can answer another request.
  Two operators at once leave two sessions of a node open, or a row that is open without a session.
  A session that was forgotten because somebody looked is not marked expired. A second tab of a
  session replaces the first in the watch list, and closing it closes the session under the first.
* Web session. The 401 of a probe does not land on the login page, as `use-event-stream.ts:17` says: the handler's
  `setQueryData(["me"], undefined)` leaves the cache as it is (`A401LandsOnLogin` does not hold). The late answer
  of a focus probe signs the old user in again, which `LogoutIsFinal` excepts.
* Paying. The lock screen goes back to its button on any dismissal, also one that comes after the success;
  `NotAskedTwice` is about the dialog.
* Map. Pins can be dropped from the search during replay and the cable list writes there (`NoPinDropsInReplay`);
  a cable can be recorded between other
  points than the two that were clicked, which its form denies (`RunsBetweenItsEnds`).
* Forms. A note typed for one core is stored on the next (`CoreDetail`). What was typed under one organisation is
  still there under the next in the cards for users, regions (a new name; a rename, if the next has a region of that name), probes, a
  first billing panel, new recipes (`GponProfileForm`, `SnmpProfileForm`) and in the form of a new device; the organisation's settings keep the fields of the one
  before when the read of the next fails, and Save sends them to it. The module shows each; that no form saves to one what was typed for
  another is therefore no property here. The platform's cards wipe each other's typing; a read of a stored login that ends late overwrites what was
  typed, and a save before it stores a blank login; an answered save closes whichever editor is open; a link gives up its port before it has
  the new one; the split ratio is saved with the rest of the device as the browser's copy has it.
* Fibre record. The number of cores is checked outside the write lock (`api/devices.py:1448`); a stale tray's
  Clear clears whatever joint is there now; what a move was announced to discard can differ at its confirmation.
* Survey. A PON chosen on the suggested feeder stays when the suggestion moves; "Same spot" is ignored while a pin
  stands; a late success closes another target's sheet; a lost reply makes a second splitter on the retry.
* Split view. The layout comes back at the view the pane was opened on, not where it had been
  (`split-view.tsx:282` says it is kept); `/account` has an element and no entry the guard accepts; a swap from a page
  without a pane view loses that page.

## 5. The proofs

Each theorem holds for every value of the constants, under the module's
assumptions only.

* `DeviceWatchProofs`. Assumes that thresholds are positive and at most `StreakCap`. The
  invariant `IInv` says what the streaks *mean*: while the device is not down its lost
  streak is the length of a suffix of lost samples (`StreaksAreRuns`); conversely a
  suffix scored since the engine was built is counted in full (`RunsAreCounted`);
  and the streaks decide the state (`StreaksDecideState`). The promises say nothing of
  streaks, so they are not inductive by themselves. Proved: `TypeCorrect`,
  `FlapSuppression`, `RecoverySuppression`, `DegradedSuppression`,
  `PromptDetection`, `PromptRecovery`, and from them `NoBlipCounts` (every change of family ends
  a run as long as its threshold) and `RunsCount` (`RunsAreHeeded`).
* `TopologyOrderProofs`. Any finite set of devices. `Counting` says that the in-degree of a
  device that was not placed is the number of its edges from such devices, and that
  the ready ones are those with none. Proved: `WalkIsAPermutation`,
  `TopologicalOrder` and both together, `WalkOrder` (`OrderIsTopological`).
* `MonitorEngineProofs`. Any finite set of numbered devices, any acyclic topology, any
  sequence of partial cycles, edits and rebuilds. The invariant relates each machine to
  its twin (same streaks, same family), each pending event to the change it reports,
  and the walked part of a cycle to the cycle as a function. Proved: `TypeCorrect`,
  `Neutrality`, `EventsAreComplete`, `LoopIsTheCycle`, `RootCauses`, `ShadowsLift`, `ExactBlame`.
  The live ping beside it, for any number of sessions, packets and faults: `PacketsShow` (`NothingSkipped`) and `OverStays`
  (`OverIsOver`). Packets come in above those a session has (`RingGrows`), so what is at or below a number it has come to is
  settled; the cursor is such a number, a request under way carries the panel's cursor, and an answer tells all there was after it
  (`AnswerInv`), so it may be appended however long it took.
* `OutageLedgerProofs`. Any devices and categories. `OneOpen` (a device never has two open
  outages) needs only the types beside it; `ResolvedIsFinal` says that a row is never
  removed and a resolved one never changed. Both hold of the outages of `CentralBrain`, which implements
  this ledger.
* `CentralBrainProofs`. Any finite set of numbered devices with any parents, any thresholds, any number of handler threads,
  outages, faults and edits, in any interleaving. The argument has layers:
  1. `Base` is what everything stands on: the types; the lock is held by exactly the handler that is
     between its topology read and its write; which events a handler can have in hand; the outage it is about to
     page belongs to the device whose event it dispatches. A lemma for each action that writes the table says what it does to
     a row (`PageEffect`, ..., `ApplyEffect`), and the rest of the proofs use only those.
  2. `LatestOutageIsTheOpenOne`: the open outage of a device is its latest row, so the store's
     "ORDER BY id DESC LIMIT 1" finds the one there is. With it, `BrainImplementsLedger`: every step of the brain is a
     step of `OutageLedger` or none (`ImplementsLedger`).
  3. `LedgerAgreement` (`LedgerAgrees`). The property speaks of moments when the lock is free; its inductive form, `Agreement`,
     says what holds in between: engine, ledger and states tell the same of a device unless a handler is entering an event
     of it, and then the engine is ahead of the states by this event and the ledger follows once it is entered. It is
     inductive because only one handler can be in that region.
  4. `RootCausesPage` (`OnlyRootCausesPage`): an event that pages was entered, as a proof that the device is a root
     cause, before its handler can look for the outage (`ProvenEvents`), and no step forgets a proof.
  5. `OutagesAreSeenTo` (`OpenOutagesAreSeenTo`): an open DOWN outage was paged or some handler still owes the page (`PageOwed`),
     and a paged one is on the escalation clock or its handler is about to put it there (`OnTheClock`). Overtaken handlers
     owe nothing they do not deliver: each of them pages whatever outage is open by then.
  6. `SoleHandlerPagesProven`: with a single handler thread a page is always for an outage that was itself proven, faults and
     edits included. Two threads break it (run `OvertakenPage`), so the overtaking is the whole cause.

* `EdgeSideProofs`. Any nodes, devices, releases and thresholds; any number of losses, deaths, power failures, rollouts
  and troubles. A step of `MCEdgeSide` is a step of one part, so each part has its own invariant:
  1. `OnePage` (`OnePagePerUplinkLoss`): the pages sent, and the one that the next report would send, are at most the losses and
     the rebuilds. It supposes one node, which is what the run `UplinkTwoNodes` shows to be necessary.
  2. `RechecksSettle` (`RecheckSettles`): during the rechecks of a device that stands still, what is left of the doubt is
     counted: a dead device that is not down has lost at least as many samples as there were rounds, and fewer than the
     threshold (`Dying`), a live one that is down has answered as many (`Rising`). So no doubt outlives the cap.
  3. `SoundDisk` (`DiskIsSound`): what stands in for the agent at each step of a swap is whole, and unless the power failed on a
     trial the agent works or the backup does (`SomethingWorks`).
  4. `CanariesFirst` (`CanariesGoFirst`): every verdict on its way to the rollout's row has the canaries of the rollout that
     was judged behind it, and every directive a node was given is for a release that was armed for it first or proved
     (`RolloutInv`). Nothing is supposed of who arms, or when: a verdict that finds another rollout in the row is the case the property excepts
     (`overtaken`), and the proof shows it to be the only one.

* `CentralPartsProofs`. The parts of `MCCentralParts`, each with an inductive invariant of its own:
  1. `InvoicesSumTheirDays` (`InvoiceIsTheSumOfItsDays`). Any rates, any months of equal length, any backfill limit. What has to be
     shown is that the days of a month that has its invoice, or that the sweep is about to close, are `Sealed`: past, and
     either days are not charged now, or the anchor is past them, or a later day has its row. `StartIsLate` says
     that catching up begins after each of these; `SealedStays`
     that midnight, rows and flags leave a sealed day sealed; of the flags, that a request which clears the last one anchors to
     the day it writes on, which is so unless it is the race of section 4 (`FlagsKeep`, `Switches`). The sum
     itself is never computed: it is of the same rows (`SumStays`).
  2. `FibresAreJoinedOnce` (`FibresMeet`). Any points, cables, cores and ports; two boxes and a closure at least, and a port is no core.
     Beside the property the invariant says that a cable has two ends at most (so that what shares a fibre with a joint that
     travels is on a cable that would run from a point to itself, and goes), that nothing ends at a closure
     nobody has opened, that ids of cables are not used twice, and what a gesture on its way can be about (`GesturesAreSound`).
     `Room` is what the store's refusals leave: all gestures that add joints go through `RoomIsApart`.
  3. `RecordsOwn` (`RecordsAreTheirOwn`). The sheet, what is chosen and typed on it, the save under way and the browser's copy are
     of the same target, step by step (`SheetIsItsOwn`, `SaveIsItsOwn`); splitters are numbered, so a reference on its way finds its own.
  4. `AnswersOwn` (`AnswersAreTheirOwn`). Whatever is under way under the number of a request that waits *is* that request, as long as it is of
     this life of central (`NumbersAreTheirOwn`): numbers grow in a life, and what the edge still has of an earlier one is of an
     earlier life. Then answers, cached assets and pages follow (`RequestsAreAnswered`, `CachesAreTheirOwn`, `TabsShowTheirOwn`).
  5. `AskedOnce` (`NotAskedTwice`). Of the attempts an open dialog still hears of, only the one its phase is about has a call under
     way or is owed (`Follows`), so a late closing or decline of another finds nothing to undo; and what is owed is owed by a screen
     that is there to hear of it (`PayInv`).
  6. `PictureTellsTheRecord` (`PictureIsTheMoment`). Any outages, silences, windows and lengths. The reconstruction on the screen is always
     that of some reply the server could give (`ReconIsKnown`); the rest is about `merge`, `covers` and `eventFloorAt`. A finite
     set can be put in order (`LastExists`, `SortedExists`, by induction on its size); the walk over it keeps the intervals apart and
     they hold the same moments (`MergedTells`, `MergeTells`); then the last interval that has begun is the only one that can hold
     a moment (`CoversHolds`), and between the event the picture snaps to and the moment itself no interval begins or ends
     (`HoldsUntilAnEvent`).
  7. `TrayTells` (`TrayTellsAll`). Three cables, two of them of any number of cores; any tubes and least lengths of folds; of the ports nothing is used but that they are a list. Of the state it needs little
     (`TrayInv`): the open cable ends here, and a joint is of one fibre, or of two and of no port. The server's order is one
     (`BeforeOrders`), so the list of cables exists; the halves of a drum are each other's (`HalvesAreMates`), so each cable
     is picked in one way. A run of cores ends somewhere (`RunEnds`), what is told of the rest follows it (`ThenTells`), and so the rows tell
     the cable, from the last core to the first (`ScheduleTells`), the ports from the first to the last (`PortsTell`). That what is said of a core is so
     (`StraightIsSo`, `CutIsSo`) is read off the joints.

* `DashboardProofs`. The parts of `MCDashboard`. Assumed of the constants is only that "nobody" and "nothing" are no user, device
  or dialog, that there is a point to start a cable at, that points are no numbers (closures are), that the listed devices are
  finitely many, and of the split view that home is a view for everyone, lengths are numbers and a half is a share.
  1. `TypedIsKept` (`TypingIsKept`). Drafts keep their fields, and a form that does not read on opening never has a read under way
     (`FormInv`). That typing is kept is then read off each step: the form's traits say when it copies.
  2. `ReplayApart` (`ReplayStandsApart`). What is selected, which mode is armed and what is open each have their own invariant
     (`SelStands`, `ModeStands`, `NothingIsOpen`), since each is closed by another effect and answers come in late.
  3. `NoLoop` (`NoReloadLoop`). A reload that is due, or that the next answer can make due, is for a deployment the tab has not
     reloaded for (`TabInv`): the build it would be for differs both from its own and from the one it reloaded for.
  4. `LogoutLasts` (`LogoutIsFinal`). While nobody is signed in, whatever answer is under way is fresh: it shows nobody, or a session
     opened since the logout; so is the cookie's, and only a tab that shows its user is logging out (`SessionInv`).
  5. `ClosuresStand` (`ClosuresStandAtTheEnds`). What a save has made so far, step by step, belongs to this save and to the path
     it was begun with (`SaveStands`); closures are numbered, so no two cables share one (`CableInv`).
  6. `RowsCountAll` (`RowsAccountForAll`). The property follows chains of parents and says where they end, so this is
     induction over data, done by hand: the page's step by step definitions stop growing after as many steps as there are devices
     (`GrowthStops`: else the set would have more elements than there are), and come to the least set that is closed under the
     step (`ChainIsLeast`, `RowsAreLeast`). A device that is not accounted for, with the least above it, then cannot
     be: its parent has less above it and is accounted for, and so is the child, as a row, by the fold that counts the parent, or by
     the parent itself (`ParentsAccountFor`). Of the state only the filter matters: while there is a search nothing is
     folded for the rows (`effectiveCollapsed`) whatever the chips tell (`collapsed`); the tree may be anything, loops included,
     which the property excepts.

  7. `SplitComesTogether` (`SplitStands`): with the types (`SplitTypes`), that no guard of an effect holds is enough for what is shown, stored and
     allowed to agree, and the least share leaves both panes the floor (`LowestIsEnough`). `EffectsComeToRest` says that it comes
     to that: each effect lowers `Rank`, a number below 128 that weighs what is due by what it can bring back. So the effects
     do not chase each other, whatever the role, the size and the page; that they are run at all is React's.

Induction over data, which the library's theorems cannot be instantiated for here, is done by the least counterexample
(`LeastExists`, `UpToBound`), and a recursive function is shown to exist by building it step by step.

Only model-checked: all liveness and what is said with fairness, which is out of the prover's reach. Every invariant of a passing run
is the subject of a theorem.

## 6. What is not modelled

`PROJECT.json` lists every part with the reason. In short: parsing, vendor
protocols, cryptography, documents and layout have little of what a
model checker is for; charts, tables and analytics are arithmetic over stored rows. Of the parts with
control worth a model these are left, each with the hazard it would be about:

* the digest (`notify_policy.py:149`) marks as sent every row unsent when the send completes, not the rows it composed;
* the watchdog (`watchdog.py:37`) latches an alarm only when its page went out, and a recovery always;
* the redundancy verdict (`redundancy.py:20`) is stored before its page is sent;
* a diagnostics walk (`store_snmp.py:1356`) is superseded while the edge runs it;
* counters of ports (`ports.py:58`) read backwards or wrap;
* acknowledging and assigning an outage against its resolution;
* the narrowing of a failing device in the web proxy, the daemon's SNMP and GPON sweeps.

Simplifications of what is modelled: the wording and audience of pages; the ingestion
of ports, optics and health that shares the report handler (it touches none of
the state here); SQLite's own atomicity, taken as it is documented; timestamps, which become
actions (`Tick`, `Expire`, `Silent`, `RunOut`); in the browser drawing, distances, wording and
validation of single fields; libraries (react-query, the gateway's window, the router) by what the code relies on.

## 7. Plan

1. Proofs: abstract specifications beyond `OutageLedger`, each with its refinement: a log that only grows for `LivePing`, a request
   and its answer for `WebProxy`.
2. `Digest`, `Watchdog` with the redundancy verdicts, `WalkQueue`.
3. `PortCounters`; then the PON and ONU alarms.
4. Acknowledge, assign and accept as actions beside `CentralBrain`'s ledger.
