-------------------------------- MODULE LivePing ------------------------------
(***************************************************************************)
(* Watching one device packet by packet: the panel of the dashboard        *)
(* (src/web/src/components/live-ping.tsx), the sessions central holds in   *)
(* memory (central/liveping.py, central/api/liveping.py) and the probe     *)
(* that sends the packets (ingress/liveping.py).                           *)
(*                                                                         *)
(* The probe keeps one exchange with central going: packets up, the set of *)
(* live sessions down.  The panel polls with a cursor.  One device and one *)
(* panel; a colleague starts and stops sessions too.  The probe is new     *)
(* enough and the organisation is below its limit of sessions; whether a   *)
(* packet was answered, and the wording of the headline, are left out.     *)
(***************************************************************************)
EXTENDS Naturals, FiniteSets, FiniteSetsExt

CONSTANTS
    MaxSessions,  \* bound: sessions ever started
    MaxPackets,   \* the packet budget of a session
    MaxFaults     \* bound: exchanges lost and restarts, together

\* The bounds are numbers.
PingAssumption == {MaxSessions, MaxPackets} \subseteq Nat

VARIABLES
    stage,     \* LiveSession: its life, see Live
    ring,      \* LiveSession.samples: the packets central has
    worker,    \* LivePingTunnel: its loop runs
    fresh,     \* LivePingTunnel._deadline is ahead
    task,      \* LivePingTunnel._sessions
    next,      \* the number ping_stream gives the next packet
    spent,     \* LivePingTunnel._spent
    outbox, refusals,   \* LivePingTunnel._outbox, ._refusals
    call,      \* the exchange under way
    data,      \* status.data: the session of the last answer the panel has
    poll,      \* the status request under way
    sidRef, cursor, shown,   \* the panel: sidRef, cursor, samples
    pending,   \* what a start or stop of the panel was answered
    faults

hub == <<stage, ring>>
edge == <<worker, fresh, task, next, spent, outbox, refusals, call>>
panel == <<data, poll, sidRef, cursor, shown, pending>>
vars == <<hub, edge, panel, faults>>

Sids == 1..MaxSessions
Numbers == 1..MaxPackets
None == 0
Stopped == MaxSessions + 1   \* a stop was answered

\* LiveSession.live.  A session past its deadline, not yet reaped, is "missed"
\* when the probe never came for it and "late" otherwise.
Live(s) == stage[s] \in {"arming", "pinging"}
LiveSids == {s \in Sids : Live(s)}
Overdue(s) == stage[s] \in {"missed", "late"}
High(s) == Max({0} \cup ring[s])

Idle == [at |-> "edge"]
NoPoll == [at |-> "idle"]
NoData == [sid |-> None, live |-> FALSE]
NoAnswer == [sid |-> None, live |-> FALSE, samples |-> {}, cursor |-> 0]

TypeOK ==
    /\ stage \in [Sids -> {"new", "arming", "pinging", "missed", "late",
                      "over", "gone"}]
    /\ ring \in [Sids -> SUBSET Numbers]
    /\ {worker, fresh} \subseteq BOOLEAN
    /\ task \in [Sids -> {"none", "running", "done"}]
    /\ next \in [Sids -> 1..MaxPackets + 1]
    /\ spent \subseteq Sids /\ refusals \subseteq Sids
    /\ outbox \subseteq Sids \X Numbers
    /\ call.at \in {"edge", "wire", "central", "back"}
    /\ poll.at \in {"idle", "wire", "back"}
    /\ data.sid \in Sids \cup {None} /\ sidRef \in Sids \cup {None}
    /\ cursor \in 0..MaxPackets /\ shown \subseteq Numbers
    /\ pending \in Sids \cup {None, Stopped}
    /\ faults \in 0..MaxFaults

Init ==
    /\ stage = [s \in Sids |-> "new"]
    /\ ring = [s \in Sids |-> {}]
    /\ worker = FALSE /\ fresh = FALSE
    /\ task = [s \in Sids |-> "none"] /\ next = [s \in Sids |-> 1]
    /\ spent = {} /\ outbox = {} /\ refusals = {} /\ call = Idle
    /\ data = NoData /\ poll = NoPoll
    /\ sidRef = None /\ cursor = 0 /\ shown = {} /\ pending = None
    /\ faults = 0

(***************************************************************************)
(* The hub.  Every operation but ingest reaps first: a session past its    *)
(* deadline is stopped.  Why one was stopped, and the token that lets an   *)
(* exchange return early, are left out.                                    *)
(***************************************************************************)
Reaped == [s \in Sids |-> IF Overdue(s) THEN "over" ELSE stage[s]]
Reap == stage' = Reaped /\ UNCHANGED ring

\* start joins the running session of the device, or opens a new one.
Unused == {s \in Sids : stage[s] = "new"}
Joined == IF LiveSids # {} THEN Max(LiveSids) ELSE Min(Unused)
HubStart ==
    /\ LiveSids # {} \/ Unused # {}
    /\ IF LiveSids # {} THEN Reap
       ELSE /\ stage' = [Reaped EXCEPT ![Joined] = "arming"]
            /\ UNCHANGED ring

HubStop(s) ==
    IF Live(s)
    THEN /\ stage' = [Reaped EXCEPT ![s] = "over"]
         /\ UNCHANGED ring
    ELSE Reap

\* for_device and read, under their locks: the newest session that is still
\* readable, its packets after the cursor, and the cursor to ask with next.
Read(after) ==
    LET readable == {s \in Sids : stage[s] \notin {"new", "gone"}}
        s == Max(readable)
    IN IF readable = {} THEN NoAnswer
       ELSE [sid |-> s, live |-> Live(s),
             samples |-> {n \in ring[s] : n > after}, cursor |-> High(s)]

\* Time: the arming deadline (3 min) or the budget (5 min) passes, and 90 s
\* later the session is forgotten.
Elapse(s) ==
    /\ Live(s)
    /\ stage' = [stage EXCEPT ![s] = IF @ = "arming" THEN "missed" ELSE "late"]
    /\ UNCHANGED <<ring, edge, panel, faults>>

Forget(s) ==
    /\ stage[s] = "over"
    /\ stage' = [stage EXCEPT ![s] = "gone"]
    /\ UNCHANGED <<ring, edge, panel, faults>>

\* A colleague's panel.
ColleagueStarts == HubStart /\ UNCHANGED <<edge, panel, faults>>
ColleagueStops(s) ==
    /\ Live(s) /\ HubStop(s)
    /\ UNCHANGED <<edge, panel, faults>>

(***************************************************************************)
(* The probe.                                                              *)
(***************************************************************************)
\* The answer to a report carries the flag while a session is live.
Notify ==
    /\ LiveSids # {} /\ ~(worker /\ fresh)
    /\ Reap
    /\ worker' = TRUE /\ fresh' = TRUE
    /\ UNCHANGED <<task, next, spent, outbox, refusals, call, panel,
                   faults>>

Ping(s) ==
    /\ task[s] = "running" /\ next[s] \in Numbers
    /\ outbox' = outbox \cup {<<s, next[s]>>}
    /\ next' = [next EXCEPT ![s] = @ + 1]
    /\ UNCHANGED <<hub, worker, fresh, task, spent, refusals, call,
                   panel, faults>>

\* The packet budget has run out, the probe's own being possibly shorter.
PingerEnds(s) ==
    /\ task[s] = "running"
    /\ task' = [task EXCEPT ![s] = "done"]
    /\ UNCHANGED <<hub, worker, fresh, next, spent, outbox, refusals, call, panel, faults>>

\* Not a target of this probe, or the socket failed.
Refuse(s) ==
    /\ task[s] = "running"
    /\ task' = [task EXCEPT ![s] = "done"]
    /\ refusals' = refusals \cup {s}
    /\ UNCHANGED <<hub, worker, fresh, next, spent, outbox, call,
                   panel, faults>>

\* _reconcile: what runs is what central declared.  A pinger that has finished
\* is remembered, so that it is not started over.
Reconcile(wanted) ==
    LET running == {s \in Sids : task[s] # "none"}
        finished == {s \in running \cap wanted : task[s] = "done"}
        spent_ == (spent \cup finished) \cap wanted
        started == (wanted \ running) \ spent_
    IN /\ spent' = spent_
       /\ task' = [s \in Sids |->
                     IF s \in started THEN "running"
                     ELSE IF s \in wanted /\ s \notin finished THEN task[s]
                     ELSE "none"]
       /\ next' = [s \in Sids |-> IF s \in started THEN 1
                                  ELSE IF s \in wanted THEN next[s] ELSE 1]
       /\ outbox' = {p \in outbox : p[1] \in wanted \/ p[1] \notin running}

Exchange ==
    /\ worker /\ fresh /\ call = Idle
    /\ call' = [at |-> "wire", batch |-> outbox,
                refused |-> refusals]
    /\ outbox' = {} /\ refusals' = {}
    /\ UNCHANGED <<hub, worker, fresh, task, next, spent, panel, faults>>

\* _arrived: the five minutes start with the first contact, and a session
\* past its arming deadline is not one that can be contacted.
ArrivedUnguarded(s) == stage[s] \in {"arming", "missed"}
Arrived(s) == stage[s] = "arming"

\* ingest of each batch, then the refusals (which reap), then mark_picked_up.
Ingested(s) ==
    LET batch == {p[2] : p \in {q \in call.batch : q[1] = s}}
        heard == batch # {} /\ Arrived(s)
    IN IF heard \/ Live(s) THEN {n \in batch : n > High(s)} ELSE {}

EdgeExchange ==
    /\ call.at = "wire"
    /\ LET contacted == {s \in Sids : Arrived(s)
                                      /\ (Live(s) \/ \E p \in call.batch : p[1] = s)}
           held == [s \in Sids |-> IF s \in contacted THEN "pinging" ELSE stage[s]]
           reaps == call.refused # {}
           stopped == {s \in call.refused : held[s] = "pinging"}
           late == {s \in Sids : reaps /\ held[s] \in {"missed", "late"}}
       IN /\ ring' = [s \in Sids |-> ring[s] \cup Ingested(s)]
          /\ stage' = [s \in Sids |-> IF s \in stopped \cup late THEN "over"
                                      ELSE held[s]]
    /\ call' = [call EXCEPT !.at = "central"]
    /\ UNCHANGED <<worker, fresh, task, next, spent, outbox, refusals,
                   panel, faults>>

\* exchange: the answer is the set of live sessions as it is now.  It waits,
\* at most for as long as the probe asked, while there is no news.
Answer ==
    /\ call.at = "central"
    /\ Reap
    /\ call' = [at |-> "back", sessions |-> LiveSids,
                batch |-> call.batch, refused |-> call.refused]
    /\ UNCHANGED <<worker, fresh, task, next, spent, outbox, refusals,
                   panel, faults>>

ExchangeEnds ==
    /\ call.at = "back"
    /\ fresh' = (call.sessions # {})
    /\ Reconcile(call.sessions)
    /\ call' = Idle
    /\ UNCHANGED <<hub, worker, refusals, panel, faults>>

\* The exchange failed, whether central had seen it or not: everything is put
\* back.
ExchangeLost ==
    /\ call # Idle /\ faults < MaxFaults
    /\ faults' = faults + 1
    /\ outbox' = outbox \cup call.batch
    /\ refusals' = refusals \cup call.refused
    /\ fresh' \in {fresh, FALSE}
    /\ call' = Idle
    /\ UNCHANGED <<hub, worker, task, next, spent, panel>>

\* Two minutes without a session: the loop ends and stops what runs.
StandDown ==
    /\ worker /\ ~fresh /\ call = Idle
    /\ worker' = FALSE
    /\ Reconcile({})
    /\ UNCHANGED <<hub, fresh, refusals, call, panel, faults>>

EdgeRestarts ==
    /\ faults < MaxFaults /\ faults' = faults + 1
    /\ worker' = FALSE /\ fresh' = FALSE
    /\ task' = [s \in Sids |-> "none"] /\ next' = [s \in Sids |-> 1]
    /\ spent' = {} /\ outbox' = {} /\ refusals' = {} /\ call' = Idle
    /\ UNCHANGED <<hub, panel>>

CentralRestarts ==
    /\ faults < MaxFaults /\ faults' = faults + 1
    /\ stage' = [s \in Sids |-> IF stage[s] = "new" THEN "new" ELSE "gone"]
    /\ UNCHANGED <<ring, edge, panel>>

(***************************************************************************)
(* The panel.                                                              *)
(***************************************************************************)
\* A status request carries the cursor of the moment it is made; another one made
\* by hand takes its place, and its answer is dropped.
Asked(c) == [at |-> "wire", after |-> c]

Poll ==
    /\ poll = NoPoll
    /\ poll' = Asked(cursor)
    /\ UNCHANGED <<hub, edge, data, sidRef, cursor, shown, pending, faults>>

PollServed ==
    /\ poll.at = "wire"
    /\ Reap
    /\ poll' = [at |-> "back", after |-> poll.after, answer |-> Read(poll.after)]
    /\ UNCHANGED <<edge, data, sidRef, cursor, shown, pending, faults>>

\* The effect on status.data, which runs with the answer: another session starts
\* the list over and waits for the next answer.
BeginUnrewound(s) == sidRef' = s /\ cursor' = cursor /\ shown' = {}
Begin(s) == sidRef' = s /\ cursor' = 0 /\ shown' = {}
Continue(answer) ==
    /\ UNCHANGED sidRef
    /\ cursor' = IF answer.samples # {} THEN answer.cursor ELSE cursor
    /\ shown' = shown \cup answer.samples
Effect ==
    /\ poll.at = "back"
    /\ IF poll.answer.sid # sidRef THEN Begin(poll.answer.sid) ELSE Continue(poll.answer)
    /\ data' = [sid |-> poll.answer.sid, live |-> poll.answer.live]
    /\ poll' = NoPoll
    /\ UNCHANGED <<hub, edge, pending, faults>>

\* The buttons, one call of this panel at a time.
Start ==
    /\ pending = None /\ ~data.live
    /\ HubStart
    /\ pending' = Joined
    /\ UNCHANGED <<edge, data, poll, sidRef, cursor, shown, faults>>

\* The answer; the status is asked for again, in place of what was under way.
StartLands ==
    /\ pending \in Sids
    /\ Begin(pending)
    /\ poll' = Asked(0) /\ pending' = None
    /\ UNCHANGED <<hub, edge, data, faults>>

Stop ==
    /\ pending = None /\ data.live
    /\ HubStop(data.sid)
    /\ pending' = Stopped
    /\ UNCHANGED <<edge, data, poll, sidRef, cursor, shown, faults>>

StopLands ==
    /\ pending = Stopped
    /\ poll' = Asked(cursor) /\ pending' = None
    /\ UNCHANGED <<hub, edge, data, sidRef, cursor, shown, faults>>

\* A call fails: a toast, or nothing at all.
CallFails ==
    /\ pending # None /\ pending' = None
    /\ UNCHANGED <<hub, edge, data, poll, sidRef, cursor, shown, faults>>

Next ==
    \/ \E s \in Sids :
         \/ Elapse(s) \/ Forget(s) \/ ColleagueStops(s)
         \/ Ping(s) \/ PingerEnds(s) \/ Refuse(s)
    \/ ColleagueStarts
    \/ Notify \/ Exchange \/ EdgeExchange \/ Answer \/ ExchangeEnds
    \/ ExchangeLost \/ StandDown \/ EdgeRestarts \/ CentralRestarts
    \/ Poll \/ PollServed \/ Effect
    \/ Start \/ StartLands \/ Stop \/ StopLands \/ CallFails

Spec == Init /\ [][Next]_vars

(***************************************************************************)
(* Properties.                                                             *)
(***************************************************************************)
\* A session that has run out is over: no packet, however late, and no
\* restart of either end makes it live again.
OverIsOver ==
    [][\A s \in Sids : stage[s] \in {"missed", "late", "over", "gone"} => ~Live(s)']_vars

\* Every packet central holds up to the cursor the panel will ask with is on the
\* screen, and only packets of the session the list is headed by are: whoever
\* starts and stops sessions meanwhile, and whichever answers cross.
NothingSkipped ==
    sidRef # None => /\ {n \in ring[sidRef] : n <= cursor} \subseteq shown
                     /\ shown \subseteq ring[sidRef]

\* api/liveping.py:282: a restart of either end is "a clean end to a live
\* session rather than a stuck one": what a probe still sends for a live
\* session is news to central.
RestartIsClean ==
    \A s \in Sids : task[s] = "running" /\ Live(s) => next[s] > High(s)
===============================================================================
