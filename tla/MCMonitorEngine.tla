---------------------------- MODULE MCMonitorEngine ----------------------------
(***************************************************************************)
(* The engine that walks its devices one by one, and the sessions, the     *)
(* probe and a panel of live ping: two parts for one run.  A behaviour is  *)
(* a behaviour of one of them, the other stands still; they share no       *)
(* state.                                                                  *)
(***************************************************************************)
EXTENDS MonitorEngine

CONSTANTS
    MaxSessions, MaxPackets, MaxFaults

VARIABLES
    part,
    stage, ring, worker, fresh, task, next, spent, outbox, refusals, call,
    data, poll, sidRef, cursor, shown, pending, faults

L == INSTANCE LivePing

ASSUME PingAssumption == L!PingAssumption

pingVars ==
    <<stage, ring, worker, fresh, task, next, spent, outbox, refusals, call,
      data, poll, sidRef, cursor, shown, pending, faults>>

WatchInit ==
    /\ part \in {"engine", "ping"}
    /\ Init /\ (part # "engine" => parents = [d \in Devices |-> {}])
    /\ L!Init

EngineMoves == part = "engine" /\ Next /\ UNCHANGED pingVars

PingMoves == part = "ping" /\ L!Next /\ UNCHANGED vars

WatchNext ==
    /\ EngineMoves \/ PingMoves
    /\ UNCHANGED part

WatchSpec == WatchInit /\ [][WatchNext]_<<part, vars, pingVars>>

-----------------------------------------------------------------------------
(***************************************************************************)
(* Properties: those of MonitorEngine, and those of LivePing.              *)
(***************************************************************************)

\* The panel shows every packet it can still learn of.
NothingSkipped == L!NothingSkipped

\* A ping that is over stays over.
OverIsOver == L!OverIsOver
=============================================================================
