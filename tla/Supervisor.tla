----------------------------- MODULE Supervisor ------------------------------
(***************************************************************************)
(* The agent supervisor of one edge node: the loop of                      *)
(* apps/supervisor/main.py and Supervisor.consume_request, apply and       *)
(* _await_health (runtime/supervisor.py), over the files it shares with    *)
(* the agent.  The power may fail between any two steps and in the middle  *)
(* of the copy of the last known good agent; os.replace is atomic.         *)
(*                                                                         *)
(* A release is a number; 1 is the one installed first.  A release that    *)
(* does not work exits before the health gate, which only asks whether the *)
(* process is alive, is passed; or the system refuses to execute it at all *)
(* (Popen raises).                                                         *)
(***************************************************************************)
EXTENDS Naturals

CONSTANTS
    MaxRelease, \* releases 1..MaxRelease
    Works,      \* the releases that stay up
    Speaks,     \* those that answer --version
    Starts,     \* those the system can execute
    MaxLosses   \* bound: power losses

SupervisorAssumption ==
    /\ {MaxRelease, MaxLosses} \subseteq Nat
    /\ Works \subseteq Speaks /\ Speaks \subseteq Starts /\ Starts \subseteq 1..MaxRelease
    /\ 1 \in Works

VARIABLES
    \* files
    agent,    \* agent_path
    lkg,      \* backup_path
    download, \* agent.download
    request,  \* the target of update_request.json, None without one
    \* processes
    running,  \* what AgentRunner.proc runs
    pc,       \* where the supervisor is
    \* history and bound
    untried,  \* the power failed on an update that was not through its gate
    raised,   \* a call raised between the swap and the end of a rollback
    losses

bounds == <<untried, raised, losses>>
vars == <<agent, lkg, download, request, running, pc, bounds>>

Releases == 1..MaxRelease
Torn == 0     \* a file that is no release: cut short or tampered with
None == MaxRelease + 1

Init ==
    /\ agent = 1 /\ lkg = None /\ download = None /\ request = None
    /\ running = None /\ pc = "loop"
    /\ untried = FALSE /\ raised = FALSE /\ losses = 0

-----------------------------------------------------------------------------
\* The loop finds the agent gone and starts it.  An agent that cannot be executed
\* takes the supervisor with it (runner.start() is in no try), and again when the
\* service manager has restarted that: nothing changes any more.
StartAgent ==
    /\ pc = "loop" /\ running = None /\ agent \in Starts
    /\ running' = agent
    /\ UNCHANGED <<agent, lkg, download, request, pc, bounds>>

\* _current_version(): "", older than any release, if the agent cannot tell.
CurrentVersion == IF agent \in Speaks THEN agent ELSE 0

\* A request is found; needs_update decides.
ReadRequest ==
    /\ pc = "loop" /\ running # None /\ request # None
    /\ pc' = IF request > CurrentVersion THEN "download" ELSE "unlink"
    /\ UNCHANGED <<agent, lkg, download, request, running, bounds>>

\* The artifact arrives, whole or not; or the request fails.
Download ==
    /\ pc = "download"
    /\ \/ download' \in {request, Torn} /\ pc' = "verify"
       \/ UNCHANGED download /\ pc' = "unlink"
    /\ UNCHANGED <<agent, lkg, request, running, bounds>>

\* MUTANT: the digest is not compared.
VerifyNothing ==
    /\ pc = "verify"
    /\ pc' = "copy"
    /\ UNCHANGED <<agent, lkg, download, request, running, bounds>>

\* verify_sha256.
Verify ==
    /\ pc = "verify"
    /\ IF download = Torn
       THEN download' = None /\ pc' = "unlink"
       ELSE UNCHANGED download /\ pc' = "copy"
    /\ UNCHANGED <<agent, lkg, request, running, bounds>>

\* shutil.copy2 begins to overwrite the last known good agent.
Copy ==
    /\ pc = "copy"
    /\ lkg' = Torn
    /\ pc' = "copying"
    /\ UNCHANGED <<agent, download, request, running, bounds>>

\* The copy is complete; or it failed, and with it the update.
Copied ==
    /\ pc = "copying"
    /\ \/ lkg' = agent /\ pc' = "swap"
       \/ UNCHANGED lkg /\ pc' = "unlink"
    /\ UNCHANGED <<agent, download, request, running, bounds>>

\* The agent is stopped and replaced; or it is in use and stays, stopped.
Swap ==
    /\ pc = "swap"
    /\ \/ agent' = download /\ download' = None /\ pc' = "restart"
       \/ UNCHANGED <<agent, download>> /\ pc' = "unlink"
    /\ running' = None
    /\ UNCHANGED <<lkg, request, bounds>>

Restart ==
    /\ pc \in {"restart", "restart_old"} /\ agent \in Starts
    /\ running' = agent
    /\ pc' = IF pc = "restart" THEN "gate" ELSE "unlink"
    /\ UNCHANGED <<agent, lkg, download, request, bounds>>

\* Popen raises: consume_request calls the update FAILED, without a rollback.
RestartRaises ==
    /\ pc \in {"restart", "restart_old"} /\ agent \notin Starts
    /\ raised' = TRUE
    /\ pc' = "unlink"
    /\ UNCHANGED <<agent, lkg, download, request, running, untried, losses>>

\* stable_polls in a row saw the agent alive.
GatePassed ==
    /\ pc = "gate" /\ running \in Works
    /\ pc' = "unlink"
    /\ UNCHANGED <<agent, lkg, download, request, running, bounds>>

\* The deadline passed without.
GateFailed ==
    /\ pc = "gate" /\ running = None
    /\ pc' = "rollback"
    /\ UNCHANGED <<agent, lkg, download, request, running, bounds>>

\* MUTANT: the bad agent is restarted instead of being replaced.
RollbackNot ==
    /\ pc = "rollback"
    /\ pc' = "restart_old"
    /\ UNCHANGED <<agent, lkg, download, request, running, bounds>>

\* os.replace(backup_path, agent_path).
Rollback ==
    /\ pc = "rollback"
    /\ IF lkg = None THEN UNCHANGED <<agent, lkg>>
                     ELSE agent' = lkg /\ lkg' = None
    /\ pc' = "restart_old"
    /\ UNCHANGED <<download, request, running, bounds>>

\* It raises: the update is FAILED as well, and the bad agent stays.
RollbackRaises ==
    /\ pc = "rollback"
    /\ raised' = TRUE
    /\ pc' = "unlink"
    /\ UNCHANGED <<agent, lkg, download, request, running, untried, losses>>

Unlink ==
    /\ pc = "unlink"
    /\ request' = None
    /\ pc' = "loop"
    /\ UNCHANGED <<agent, lkg, download, running, bounds>>

-----------------------------------------------------------------------------
\* An agent that does not work exits.
Exit ==
    /\ running # None /\ running \notin Works
    /\ running' = None
    /\ UNCHANGED <<agent, lkg, download, request, pc, bounds>>

\* A working agent reports its version to central and is told to install a
\* newer one.
Directed(target) ==
    /\ running \in Works /\ target > running
    /\ request' = target
    /\ UNCHANGED <<agent, lkg, download, running, pc, bounds>>

\* The power fails.  Nothing on disk says that a new agent is on trial.
PowerLoss ==
    /\ losses < MaxLosses /\ losses' = losses + 1
    /\ untried' = (untried \/ raised \/ pc \in {"restart", "gate", "rollback"})
    /\ running' = None /\ pc' = "loop"
    /\ UNCHANGED <<agent, lkg, download, request, raised>>

Loop == \/ StartAgent \/ ReadRequest \/ Download \/ Verify \/ Copy \/ Copied \/ Swap
        \/ Restart \/ RestartRaises \/ GatePassed \/ GateFailed
        \/ Rollback \/ RollbackRaises \/ Unlink

Next == Loop \/ Exit \/ (\E target \in Releases : Directed(target)) \/ PowerLoss

Spec == Init /\ [][Next]_vars

FairSpec == Spec /\ WF_vars(Loop) /\ WF_vars(Exit)

-----------------------------------------------------------------------------
Files == Releases \cup {Torn, None}

TypeOK ==
    /\ {agent, lkg, download, running} \subseteq Files /\ agent # None
    /\ request \in Releases \cup {None}
    /\ pc \in {"loop", "download", "verify", "copy", "copying", "swap", "restart",
               "gate", "rollback", "restart_old", "unlink"}
    /\ {untried, raised} \subseteq BOOLEAN /\ losses \in Nat

\* Wherever the power fails, the agent on disk is a whole and verified release:
\* neither a download nor a copy that was cut short is ever put in its place.
AgentIsIntact == agent # Torn

\* What a rollback restores works, unless a power failure had cut a gate short.
RollbackRestoresAWorkingAgent == pc = "rollback" => lkg \in Works \/ untried

\* What is on disk can be started, and what is kept beside it can be fallen back
\* on.
DiskIsSound == AgentIsIntact /\ RollbackRestoresAWorkingAgent

\* Whatever releases are tried, whatever step of an update fails before the swap
\* and wherever else the power fails, a working agent comes back ("health-gated,
\* auto-rollback", README.md:72).  Two things keep it from coming back: a power
\* failure while the new agent is on trial, and a call that raises between the
\* swap and the end of the rollback, of which a release that cannot be executed
\* is one.
WorkingAgentComesBack == []<>(running \in Works \/ untried \/ raised)
=============================================================================
