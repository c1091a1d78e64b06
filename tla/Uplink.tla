------------------------------- MODULE Uplink --------------------------------
(***************************************************************************)
(* The uplink canary of an organisation: process_cycle's freeze and the    *)
(* UPLINK_DOWN / UPLINK_RESTORED pair (src/wisp/core/state_machine.py),    *)
(* their pages (central/dispatch.py _send_owner), and the flag's           *)
(* rehydration from alert_log when the registry builds a new engine        *)
(* (central/engine.py, central/store_outages.py uplink_active).            *)
(*                                                                         *)
(* The flag belongs to the organisation's engine, the canary to the node   *)
(* that probes it.  A page is written to alert_log by the send pool once   *)
(* its delivery is over, whether it succeeded or not; until then a new     *)
(* engine does not know of it.                                             *)
(***************************************************************************)
EXTENDS Naturals, FiniteSets

CONSTANTS
    Nodes,       \* the organisation's edge nodes
    MaxLosses,   \* bound: uplink losses in one behaviour
    MaxRebuilds  \* bound: engine rebuilds (restarts, topology edits)

UplinkAssumption ==
    /\ IsFiniteSet(Nodes) /\ Nodes # {}
    /\ {MaxLosses, MaxRebuilds} \subseteq Nat

VARIABLES
    offline,   \* the nodes whose own internet is down
    active,    \* MonitorEngine._uplink_active
    logged,    \* the last UPLINK_* row of alert_log
    sending,   \* the pages in the send pool, by kind
    pages,     \* UPLINK_DOWN pages so far
    losses,    \* uplink losses so far
    rebuilds   \* engine rebuilds so far

vars == <<offline, active, logged, sending, pages, losses, rebuilds>>

Kinds == {"UPLINK_DOWN", "UPLINK_RESTORED"}

Init ==
    /\ offline = {} /\ active = FALSE
    /\ logged = "none"
    /\ sending = [k \in Kinds |-> 0]
    /\ pages = 0 /\ losses = 0 /\ rebuilds = 0

\* A page enters the send pool.
Publish(kind) == sending' = [sending EXCEPT ![kind] = @ + 1]

\* MUTANT: the flag is never set, so every frozen cycle pages.
ReportDownUnlatched(n) ==
    /\ n \in offline
    /\ ~active
    /\ sending["UPLINK_DOWN"] < 3
    /\ Publish("UPLINK_DOWN")
    /\ pages' = pages + 1
    /\ UNCHANGED <<offline, active, logged, losses, rebuilds>>

\* A full report of node n whose canary is lost.
ReportDown(n) ==
    /\ n \in offline
    /\ IF active
       THEN UNCHANGED <<active, sending, pages>>
       ELSE /\ active' = TRUE
            /\ Publish("UPLINK_DOWN")
            /\ pages' = pages + 1
    /\ UNCHANGED <<offline, logged, losses, rebuilds>>

\* MUTANT: the restored uplink is announced, the flag left standing.
ReportUpSticky(n) ==
    /\ n \notin offline
    /\ active /\ sending["UPLINK_RESTORED"] < 2
    /\ Publish("UPLINK_RESTORED")
    /\ UNCHANGED <<offline, active, logged, pages, losses, rebuilds>>

\* A full report of node n whose canary answers.
ReportUp(n) ==
    /\ n \notin offline
    /\ active
    /\ active' = FALSE
    /\ Publish("UPLINK_RESTORED")
    /\ UNCHANGED <<offline, logged, pages, losses, rebuilds>>

\* A worker is through with a page, sent or failed: on_result logs it.
Finish(kind) ==
    /\ sending[kind] > 0
    /\ sending' = [sending EXCEPT ![kind] = @ - 1]
    /\ logged' = kind
    /\ UNCHANGED <<offline, active, pages, losses, rebuilds>>

\* The registry builds a new engine: a restart of central (the pages in the
\* pool are gone) or an edit of the topology.
Rebuild(restart) ==
    /\ rebuilds < MaxRebuilds
    /\ rebuilds' = rebuilds + 1
    /\ active' = (logged = "UPLINK_DOWN")
    /\ sending' = IF restart THEN [k \in Kinds |-> 0] ELSE sending
    /\ UNCHANGED <<offline, logged, pages, losses>>

Lose(n) ==
    /\ n \notin offline /\ losses < MaxLosses
    /\ offline' = offline \cup {n}
    /\ losses' = losses + 1
    /\ UNCHANGED <<active, logged, sending, pages, rebuilds>>

Regain(n) ==
    /\ n \in offline
    /\ offline' = offline \ {n}
    /\ UNCHANGED <<active, logged, sending, pages, losses, rebuilds>>

Report(n) == ReportDown(n) \/ ReportUp(n)

Next ==
    \/ \E n \in Nodes : Report(n) \/ Lose(n) \/ Regain(n)
    \/ \E kind \in Kinds : Finish(kind)
    \/ \E restart \in BOOLEAN : Rebuild(restart)

\* Nodes keep reporting and the send pool keeps working.
Fairness ==
    /\ \A n \in Nodes : WF_vars(Report(n))
    /\ \A kind \in Kinds : WF_vars(Finish(kind))

Spec == Init /\ [][Next]_vars /\ Fairness

-----------------------------------------------------------------------------
TypeOK ==
    /\ offline \in SUBSET Nodes
    /\ active \in BOOLEAN
    /\ logged \in Kinds \cup {"none"}
    /\ sending \in [Kinds -> Nat]
    /\ {pages, losses, rebuilds} \subseteq Nat

\* "The edge's own internet down freezes the cycle (one page, not a storm)"
\* (README.md:53): a page for every loss of an uplink, and at most one more
\* for every engine rebuilt before the send pool had logged the page.
OnePagePerUplinkLoss == pages <= losses + rebuilds

\* Whatever a rebuild made the organisation believe of its uplink, the belief
\* becomes true again, and the freeze with it.
FlagRecovers ==
    /\ <>[](offline = {}) => <>[](~active)
    /\ <>[](offline = Nodes) => <>[]active
=============================================================================
