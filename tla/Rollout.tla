------------------------------- MODULE Rollout -------------------------------
(***************************************************************************)
(* Fleet self-update of one organisation: the rollout row and its state    *)
(* machine (central/rollout.py), the heartbeat handlers that drive it from *)
(* concurrent threads (central/api/edge.py heartbeat_reply), the operator  *)
(* who arms rollouts (central/admin.py start-rollout), and the edge agents *)
(* with their supervisors (runtime/supervisor.py), each of which swaps,    *)
(* gates and rolls back.                                                   *)
(*                                                                         *)
(* No lock is held between the reads and the writes of a handler: each of  *)
(* its store transactions is a step.  A version is a number; release 0 is  *)
(* what the fleet starts with.  Every release has an artifact for every    *)
(* platform.                                                               *)
(***************************************************************************)
EXTENDS Naturals, FiniteSets

CONSTANTS
    Nodes,
    MaxRelease,  \* bound: releases published
    ByHand,      \* the releases that nodes were installed with by hand
    MaxTroubles, \* bound: failed gates and downloads, lost replies, silences,
                 \* nodes switched off
    MaxUpsets,   \* bound: troubles and rollouts armed by operators, together
    Modes,       \* orgs.auto_update: the settings to look at
    Mixed        \* bound: operators also arm where updates are automatic

RolloutAssumption ==
    /\ IsFiniteSet(Nodes)
    /\ {MaxRelease, MaxTroubles, MaxUpsets} \subseteq Nat /\ ByHand \subseteq Nat
    /\ Modes \subseteq BOOLEAN /\ Mixed \in BOOLEAN

VARIABLES
    \* the database of central
    latest,   \* list_releases()[0]
    auto,     \* orgs.auto_update
    rollout,  \* the organisation's row of rollouts
    heard,    \* the nodes that have a row in nodes
    version,  \* nodes.version
    fresh,    \* the nodes whose last_seen is recent enough
    \* the heartbeat handlers, one per node
    pc,       \* where the handler is
    reported, \* the version in the heartbeat
    verdict,  \* what the handler is about to write
    \* the nodes
    agent,    \* the version installed
    trial,    \* the nodes whose supervisor waits for the health gate
    backup,   \* the last known good version
    request,  \* update_request.json, 0 without one
    retired,  \* the nodes that were switched off for good
    \* history and bounds
    proven,    \* the targets whose every canary was seen alive on them
    chosen,    \* <<node, target>>: armed for that node first, or for all at once
    overtaken, \* the targets whose row got a verdict on the rollout before
    arms, troubles

fleetdb == <<latest, auto, rollout, heard, version, fresh>>
handler == <<pc, reported, verdict>>
node    == <<agent, trial, backup, request, retired>>
history == <<proven, chosen, overtaken, arms, troubles>>
vars    == <<fleetdb, handler, node, history>>

Releases == 0..MaxRelease \cup ByHand
Terminal == {"none", "done", "halted"}

NoRollout == [state |-> "none", target |-> 0, canary |-> {}, late |-> FALSE]
Armed(target, canary) ==
    [state |-> "canary", target |-> target, canary |-> canary, late |-> FALSE]

\* The nodes a rollout may reach before it is proved: all, if it has no canaries.
FirstOnes(ro) == {<<n, ro.target>> : n \in IF ro.canary = {} THEN Nodes ELSE ro.canary}

Init ==
    /\ latest = 0 /\ auto \in Modes /\ rollout = NoRollout
    /\ heard \in SUBSET Nodes /\ fresh = heard
    /\ agent \in [Nodes -> {0} \cup ByHand]
    /\ version = [n \in Nodes |-> IF n \in heard THEN agent[n] ELSE 0]
    /\ pc = [n \in Nodes |-> "idle"]
    /\ reported = [n \in Nodes |-> 0]
    /\ verdict = [n \in Nodes |-> NoRollout]
    /\ trial = {}
    /\ backup = [n \in Nodes |-> 0] /\ request = [n \in Nodes |-> 0]
    /\ retired = {}
    /\ proven = {} /\ chosen = {} /\ overtaken = {} /\ arms = 0 /\ troubles = 0

-----------------------------------------------------------------------------
\* record_heartbeat.
Heartbeat(n) ==
    /\ pc[n] = "idle" /\ n \notin retired
    /\ heard' = heard \cup {n} /\ fresh' = fresh \cup {n}
    /\ version' = [version EXCEPT ![n] = agent[n]]
    /\ reported' = [reported EXCEPT ![n] = agent[n]]
    /\ pc' = [pc EXCEPT ![n] = IF auto THEN "auto" ELSE "evaluate"]
    /\ UNCHANGED <<latest, auto, rollout, verdict, node, history>>

\* maybe_auto_rollout: the node is behind, no rollout is under way, and the
\* release is not one that was halted.
ArmsItself(n) ==
    /\ latest > reported[n]
    /\ rollout.state \in Terminal
    /\ ~(rollout.state = "halted" /\ rollout.target = latest)

AutoCheck(n) ==
    /\ pc[n] = "auto"
    /\ IF ArmsItself(n)
       THEN /\ verdict' = [verdict EXCEPT ![n] = Armed(latest, {n})]
            /\ pc' = [pc EXCEPT ![n] = "arm"]
       ELSE /\ pc' = [pc EXCEPT ![n] = "evaluate"]
            /\ UNCHANGED verdict
    /\ UNCHANGED <<fleetdb, reported, node, history>>

\* set_rollout, the canary being the node that asked.
AutoArm(n) ==
    /\ pc[n] = "arm"
    /\ rollout' = verdict[n]
    /\ chosen' = chosen \cup FirstOnes(verdict[n])
    /\ verdict' = [verdict EXCEPT ![n] = NoRollout]
    /\ pc' = [pc EXCEPT ![n] = "evaluate"]
    /\ UNCHANGED <<latest, auto, heard, version, fresh, reported, node, proven,
                   overtaken, arms, troubles>>

\* _on_target_alive.
OnTargetAlive(m) == m \in heard /\ m \in fresh /\ version[m] = rollout.target

\* MUTANT: one healthy canary is enough.
AdvanceOnAny ==
    CASE rollout.state = "canary" /\ (\E m \in rollout.canary : OnTargetAlive(m)) -> "promoted"
      [] rollout.state = "canary" /\ rollout.late -> "halted"
      [] rollout.state = "promoted" /\ heard # {}
         /\ (\A m \in heard : OnTargetAlive(m)) -> "done"
      [] OTHER -> rollout.state

\* The state evaluate finds the rollout should be in.
Advance ==
    CASE rollout.state = "canary" /\ (\A m \in rollout.canary : OnTargetAlive(m)) -> "promoted"
      [] rollout.state = "canary" /\ rollout.late -> "halted"
      [] rollout.state = "promoted" /\ heard # {}
         /\ (\A m \in heard : OnTargetAlive(m)) -> "done"
      [] OTHER -> rollout.state

\* evaluate() reads the rollout and the nodes.
Evaluate(n) ==
    /\ pc[n] = "evaluate"
    /\ IF Advance = rollout.state
       THEN /\ pc' = [pc EXCEPT ![n] = "direct"]
            /\ UNCHANGED verdict
       ELSE /\ pc' = [pc EXCEPT ![n] = "advance"]
            /\ verdict' = [verdict EXCEPT ![n] = [rollout EXCEPT !.state = Advance]]
    /\ proven' = IF /\ rollout.state = "canary" /\ rollout.canary # {}
                    /\ \A m \in rollout.canary : OnTargetAlive(m)
                 THEN proven \cup {rollout.target} ELSE proven
    /\ UNCHANGED <<fleetdb, reported, node, chosen, overtaken, arms, troubles>>

\* MUTANT: the verdict is not recorded.
RecordStateNot(n) ==
    /\ pc[n] = "advance"
    /\ verdict' = [verdict EXCEPT ![n] = NoRollout]
    /\ pc' = [pc EXCEPT ![n] = "direct"]
    /\ UNCHANGED <<fleetdb, reported, node, history>>

\* update_rollout_state: the state, whatever rollout the row holds by now.
RecordState(n) ==
    /\ pc[n] = "advance"
    /\ rollout' = [rollout EXCEPT !.state = verdict[n].state]
    /\ overtaken' =
          IF <<verdict[n].target, verdict[n].canary>> = <<rollout.target, rollout.canary>>
          THEN overtaken ELSE overtaken \cup {rollout.target}
    /\ verdict' = [verdict EXCEPT ![n] = NoRollout]
    /\ pc' = [pc EXCEPT ![n] = "direct"]
    /\ UNCHANGED <<latest, auto, heard, version, fresh, reported, node, proven,
                   chosen, arms, troubles>>

\* Timing assumption: a handler writes what it decided (milliseconds) before a
\* gate, the staleness of a node or the health window (at least 15 s) runs out.
Prompt == \A n \in Nodes : pc[n] \notin {"arm", "advance"}

Trouble ==
    /\ troubles < MaxTroubles /\ arms + troubles < MaxUpsets
    /\ troubles' = troubles + 1

\* directive_for: what the reply tells node n to install, 0 for nothing.
Directive(n) ==
    IF /\ rollout.state \notin Terminal
       /\ rollout.target > reported[n]
       /\ rollout.state = "promoted" \/ n \in rollout.canary
    THEN rollout.target ELSE 0

\* The reply.  It reaches the agent that sent the heartbeat, unless it is lost
\* or the agent was swapped meanwhile.
Direct(n) ==
    /\ pc[n] = "direct"
    /\ \/ /\ request' = IF Directive(n) # 0 /\ agent[n] = reported[n]
                        THEN [request EXCEPT ![n] = Directive(n)] ELSE request
          /\ UNCHANGED troubles
       \/ Trouble /\ UNCHANGED request
    /\ pc' = [pc EXCEPT ![n] = "idle"]
    /\ reported' = [reported EXCEPT ![n] = 0]
    /\ UNCHANGED <<fleetdb, verdict, agent, trial, backup, retired, proven, chosen,
                   overtaken, arms>>

-----------------------------------------------------------------------------
\* Supervisor.apply: the artifact is verified, the running agent kept as the
\* last known good one, and the new one started.
Swap(n) ==
    /\ n \notin trial \cup retired /\ request[n] > agent[n]
    /\ backup' = [backup EXCEPT ![n] = agent[n]]
    /\ agent' = [agent EXCEPT ![n] = request[n]]
    /\ trial' = trial \cup {n}
    /\ UNCHANGED <<fleetdb, handler, request, retired, history>>

\* The request is not for a newer version, or its download or verification
\* fails: it is discarded.
Discard(n) ==
    /\ n \notin trial \cup retired /\ request[n] # 0
    /\ IF request[n] > agent[n] THEN Trouble ELSE UNCHANGED troubles
    /\ request' = [request EXCEPT ![n] = 0]
    /\ UNCHANGED <<fleetdb, handler, agent, trial, backup, retired, proven, chosen,
                   overtaken, arms>>

\* The new agent stays up for stable_polls: it is kept.
PassGate(n) ==
    /\ n \in trial \ retired /\ Prompt
    /\ trial' = trial \ {n}
    /\ request' = [request EXCEPT ![n] = 0]
    /\ UNCHANGED <<fleetdb, handler, agent, backup, retired, history>>

\* It does not: the last known good agent comes back.
FailGate(n) ==
    /\ n \in trial \ retired /\ Prompt /\ Trouble
    /\ trial' = trial \ {n}
    /\ agent' = [agent EXCEPT ![n] = backup[n]]
    /\ request' = [request EXCEPT ![n] = 0]
    /\ UNCHANGED <<fleetdb, handler, backup, retired, proven, chosen, overtaken, arms>>

\* Nothing is heard of node n for central_node_stale_s.
Silent(n) ==
    /\ n \in fresh /\ Prompt /\ Trouble
    /\ fresh' = fresh \ {n}
    /\ UNCHANGED <<latest, auto, rollout, heard, version, handler, node, proven, chosen,
                   overtaken, arms>>

\* A node is switched off for good: it sends no heartbeat and installs nothing any
\* more.  Its row in nodes stays.
Retire(n) ==
    /\ n \notin retired /\ Trouble
    /\ retired' = retired \cup {n}
    /\ UNCHANGED <<fleetdb, handler, agent, trial, backup, request, proven, chosen,
                   overtaken, arms>>

\* delete_node_token: the row goes with the token.
Forget(n) ==
    /\ n \in retired \cap heard /\ pc[n] = "idle"
    /\ heard' = heard \ {n} /\ fresh' = fresh \ {n}
    /\ version' = [version EXCEPT ![n] = 0]
    /\ UNCHANGED <<latest, auto, rollout, handler, node, history>>

\* rollout_health_window_s has gone by.
Expire ==
    /\ rollout.state = "canary" /\ ~rollout.late /\ Prompt
    /\ rollout' = [rollout EXCEPT !.late = TRUE]
    /\ UNCHANGED <<latest, auto, heard, version, fresh, handler, node, history>>

\* A release is published.
Publish ==
    /\ latest < MaxRelease
    /\ latest' = latest + 1
    /\ UNCHANGED <<auto, rollout, heard, version, fresh, handler, node, history>>

\* start-rollout: any published release, any canary.
OperatorArms(target, canary) ==
    /\ arms + troubles < MaxUpsets /\ arms' = arms + 1
    /\ Mixed \/ ~auto
    /\ target \in 1..latest
    /\ rollout' = Armed(target, canary)
    /\ chosen' = chosen \cup FirstOnes(Armed(target, canary))
    /\ UNCHANGED <<latest, auto, heard, version, fresh, handler, node, proven, overtaken,
                   troubles>>

Handle(n) == AutoCheck(n) \/ AutoArm(n) \/ Evaluate(n) \/ RecordState(n) \/ Direct(n)

Next ==
    \/ \E n \in Nodes :
          \/ Heartbeat(n) \/ Handle(n)
          \/ Swap(n) \/ Discard(n) \/ PassGate(n) \/ FailGate(n) \/ Silent(n)
          \/ Retire(n) \/ Forget(n)
    \/ Expire \/ Publish
    \/ \E target \in Releases, canary \in SUBSET Nodes : OperatorArms(target, canary)

Spec == Init /\ [][Next]_vars

\* Nodes send heartbeats, handlers and supervisors run, time passes.
Fairness ==
    /\ \A n \in Nodes : WF_vars(Heartbeat(n) \/ Handle(n))
    /\ \A n \in Nodes : WF_vars(Swap(n) \/ PassGate(n))
    /\ WF_vars(Expire)

FairSpec == Spec /\ Fairness

-----------------------------------------------------------------------------
Rollouts == [state : Terminal \cup {"canary", "promoted"}, target : Releases,
             canary : SUBSET Nodes, late : BOOLEAN]

TypeOK ==
    /\ latest \in Releases /\ auto \in BOOLEAN
    /\ rollout \in Rollouts
    /\ heard \in SUBSET Nodes /\ fresh \in SUBSET heard
    /\ pc \in [Nodes -> {"idle", "auto", "arm", "evaluate", "advance", "direct"}]
    /\ verdict \in [Nodes -> Rollouts]
    /\ {version, reported, agent, backup, request} \subseteq [Nodes -> Releases]
    /\ trial \in SUBSET Nodes /\ proven \in SUBSET Releases
    /\ retired \in SUBSET Nodes
    /\ chosen \in SUBSET (Nodes \X Releases) /\ overtaken \in SUBSET Releases
    /\ arms \in Nat /\ troubles \in Nat

\* The fleet follows the canaries: no release that has any is promoted, or called
\* done, before every canary of it was seen alive on it (README.md:72 "staged,
\* canary-first, health-gated").
CanaryFirst ==
    rollout.state \in {"promoted", "done"} /\ rollout.canary # {}
    => rollout.target \in proven \cup overtaken

\* Whatever the delays and whoever arms, no node is told to install a release that
\* was neither armed for it first nor proved by those it was armed for.
OnlyCanariesTryIt ==
    \A n \in Nodes :
        \/ request[n] = 0
        \/ <<n, request[n]>> \in chosen
        \/ request[n] \in proven \cup overtaken

\* Staged and canary-first, in what the organisation is told and in what its
\* nodes install.  The one way around is a verdict that is written when another
\* rollout has taken the row (update_rollout_state looks at none).
CanariesGoFirst == CanaryFirst /\ OnlyCanariesTryIt

\* Nobody is left to evaluate the rollout; or it waits for a node that will never
\* say it runs the target: one that is gone and has its row still, or one that
\* runs a newer release and is never told to go back (directive_for).
Stuck ==
    \/ retired = Nodes
    \/ /\ rollout.state = "promoted"
       /\ \E m \in heard : m \in retired \/ agent[m] > rollout.target

\* A rollout comes to an end, in success or halted, however its first attempts
\* went and whatever release is armed next, unless it is stuck: the directive is
\* repeated until the last node has followed it.
RolloutEnds ==
    rollout.state \in {"canary", "promoted"}
    ~> rollout.state \in {"done", "halted"} \/ Stuck
=============================================================================
