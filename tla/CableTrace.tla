------------------------------ MODULE CableTrace ------------------------------
(***************************************************************************)
(* Laying a cable on the map (web/src/routes/map-page.tsx): the line the   *)
(* operator clicks, the ends it snaps to, the form that names it, and the  *)
(* calls that record it one after another.                                 *)
(*                                                                         *)
(* A spot is a pin, which a click there snaps to, or a place on open       *)
(* ground.  The cable's name and its fibre count, pixels and metres, and   *)
(* the drop of a subscriber (traced the same way, without ends) are left   *)
(* out; what else the page does meanwhile is MapModes.                     *)
(***************************************************************************)
EXTENDS Naturals, Sequences, SequencesExt

CONSTANTS
    Pins, Ground,   \* the spots
    Near,           \* the places on the ground nearMiss finds a pin for
    None,
    MaxPoints,      \* bound: points of a trace
    MaxCables       \* bound: cables, and closures, recorded

\* A closure is told from a pin, and from no end, by being a number.
CableAssumption == Pins # {} /\ (Pins \cup {None}) \cap Nat = {}

VARIABLES
    trace,     \* routeEdit: points, endA, endB and the cable, 0 for a new one
    form,      \* cableForm: path, ends, near
    call,      \* saveCable or setCablePath under way, at a step
    closures,  \* org_devices: the closures, each where it is or None
    cables     \* org_cables: ends and path

trip == <<trace, form, call>>
vars == <<trip, closures, cables>>

Spots == Pins \cup Ground
Point == CHOOSE p \in Pins : TRUE       \* the pin nearMiss finds
Paths == UNION {[1..n -> Spots] : n \in 0..MaxPoints}
Ends  == Pins \cup Nat \cup {None}      \* a closure is its number

TypeOK ==
    /\ trace # None => /\ trace.points \in Paths /\ trace.cable \in 0..MaxCables
                       /\ {trace.endA, trace.endB} \subseteq Pins \cup {None}
    /\ form # None => form.path \in Paths /\ form.ends \in [1..2 -> Ends]
    /\ call # None => call.step \in {"a", "aAt", "b", "bAt", "cable", "path"}
    /\ closures \in Seq(Spots \cup {None})
    /\ \A i \in DOMAIN cables : cables[i].ends \in [1..2 -> Ends]

Init ==
    /\ trace = None /\ form = None /\ call = None
    /\ closures = <<>>
    /\ cables = <<>>

-----------------------------------------------------------------------------
(***************************************************************************)
(* Tracing.                                                                *)
(***************************************************************************)
\* A new cable, or the path of a recorded one over again.
Begin(c) ==
    /\ trace = None /\ form = None /\ c \in 0..Len(cables)
    /\ trace' = [cable |-> c, endA |-> None, endB |-> None,
                 points |-> IF c = 0 THEN <<>> ELSE cables[c].path]
    /\ UNCHANGED <<form, call, closures, cables>>

snapToPoint(s) == IF s \in Pins THEN s ELSE None

Tracing == trace # None /\ form = None

\* The first click is where it starts; every other one where it ends so far.
Click(s) ==
    /\ Tracing /\ Len(trace.points) < MaxPoints
    /\ trace' = [trace EXCEPT
          !.points = Append(@, s),
          !.endA = IF trace.points = <<>> THEN snapToPoint(s) ELSE @,
          !.endB = IF trace.points = <<>> THEN @ ELSE snapToPoint(s)]
    /\ UNCHANGED <<form, call, closures, cables>>

Drag(i, s) ==
    /\ Tracing /\ i \in DOMAIN trace.points
    /\ trace' = [trace EXCEPT !.points[i] = s]
    /\ UNCHANGED <<form, call, closures, cables>>

\* A double click on a vertex, Undo and Ctrl+Z, Straighten.
RemoveVertex(i) ==
    /\ Tracing /\ i \in DOMAIN trace.points
    /\ trace' = [trace EXCEPT !.points = RemoveAt(@, i)]
    /\ UNCHANGED <<form, call, closures, cables>>

Straighten ==
    /\ Tracing /\ trace.points # <<>>
    /\ trace' = [trace EXCEPT !.points = <<>>]
    /\ UNCHANGED <<form, call, closures, cables>>

Leave ==
    /\ Tracing /\ trace' = None
    /\ UNCHANGED <<form, call, closures, cables>>

-----------------------------------------------------------------------------
(***************************************************************************)
(* Naming it, and recording it.                                            *)
(***************************************************************************)
nearMiss(end, s) == IF end = None /\ s \in Near THEN Point ELSE None

\* The trace stays on the map under the form.
NameIt ==
    /\ Tracing /\ trace.cable = 0 /\ Len(trace.points) >= 2
    /\ call # None => call.cable = 0
    /\ form' = [path |-> trace.points, ends |-> <<trace.endA, trace.endB>>,
                near |-> <<nearMiss(trace.endA, Head(trace.points)),
                           nearMiss(trace.endB, Last(trace.points))>>]
    /\ UNCHANGED <<trace, call, closures, cables>>

\* "Starts 12 m from there: land it there."
Land(i) ==
    /\ form # None /\ form.near[i] # None
    /\ form' = [form EXCEPT !.ends[i] = form.near[i], !.near[i] = None]
    /\ UNCHANGED <<trace, call, closures, cables>>

CloseForm ==
    /\ form # None /\ form' = None
    /\ UNCHANGED <<trace, call, closures, cables>>

SaveForm ==
    /\ form # None /\ call = None
    /\ call' = [cable |-> 0, step |-> "a", path |-> form.path,
                ends |-> form.ends]
    /\ UNCHANGED <<trace, form, closures, cables>>

\* A path of its own may be cleared, but not be one point.
Retrace ==
    /\ Tracing /\ trace.cable # 0 /\ call = None
    /\ call' = [cable |-> trace.cable, step |-> "path", path |-> trace.points,
                ends |-> cables[trace.cable].ends]
    /\ UNCHANGED <<trace, form, closures, cables>>

Side == IF call.step \in {"a", "aAt"} THEN 1 ELSE 2
EndOf(path, i) == IF i = 1 THEN Head(path) ELSE Last(path)

\* MUTANT: both closures are put where the trace starts.
PutAtStart ==
    /\ call # None /\ call.step \in {"aAt", "bAt"}
    /\ closures' = [closures EXCEPT ![call.ends[Side]] = Head(call.path)]
    /\ call' = [call EXCEPT !.step = IF Side = 1 THEN "b" ELSE "cable"]
    /\ UNCHANGED <<trace, form, cables>>

\* coupler: an end on open ground is a closure, created and then put there.
Create ==
    /\ call # None /\ call.step \in {"a", "b"}
    /\ IF call.ends[Side] = None
       THEN /\ Len(closures) < 2 * MaxCables
            /\ closures' = Append(closures, None)
            /\ call' = [call EXCEPT !.ends[Side] = Len(closures) + 1,
                                    !.step = IF Side = 1 THEN "aAt" ELSE "bAt"]
       ELSE /\ call' = [call EXCEPT !.step = IF Side = 1 THEN "b" ELSE "cable"]
            /\ UNCHANGED closures
    /\ UNCHANGED <<trace, form, cables>>

PutIt ==
    /\ call # None /\ call.step \in {"aAt", "bAt"}
    /\ closures' = [closures EXCEPT ![call.ends[Side]] = EndOf(call.path, Side)]
    /\ call' = [call EXCEPT !.step = IF Side = 1 THEN "b" ELSE "cable"]
    /\ UNCHANGED <<trace, form, cables>>

Record ==
    /\ call # None /\ call.step = "cable" /\ Len(cables) < MaxCables
    /\ cables' = Append(cables, [ends |-> call.ends, path |-> <<>>])
    /\ call' = [call EXCEPT !.step = "path", !.cable = Len(cables) + 1]
    /\ UNCHANGED <<trace, form, closures>>

\* The answer closes the form and whatever is being traced by then.
SetPath ==
    /\ call # None /\ call.step = "path" /\ Len(call.path) # 1
    /\ cables' = [cables EXCEPT ![call.cable].path = call.path]
    /\ call' = None
    /\ form' = None
    /\ trace' = None
    /\ UNCHANGED closures

\* Any of the calls may fail: what is recorded by then stays, and so do the
\* form and the trace.
Fails ==
    /\ call # None /\ call' = None
    /\ UNCHANGED <<trace, form, closures, cables>>

Next ==
    \/ \E c \in 0..MaxCables : Begin(c)
    \/ \E s \in Spots : Click(s) \/ \E i \in 1..MaxPoints : Drag(i, s)
    \/ \E i \in 1..MaxPoints : RemoveVertex(i)
    \/ Straighten \/ Leave \/ NameIt \/ CloseForm \/ SaveForm \/ Retrace
    \/ \E i \in 1..2 : Land(i)
    \/ Create \/ PutIt \/ Record \/ SetPath \/ Fails

Spec == Init /\ [][Next]_vars

-----------------------------------------------------------------------------
(***************************************************************************)
(* Properties.                                                             *)
(***************************************************************************)
\* An end left on open ground becomes a closure that stands where the line
\* ends, and no two cables share one, whatever was dragged, undone or tried
\* again before: the steps of a save that failed half way are not taken up by
\* the next one.
ClosuresStandAtTheEnds ==
    [][\A c \in DOMAIN cables' : c \notin DOMAIN cables =>
          \A i \in 1..2 : cables'[c].ends[i] \in Nat =>
             /\ closures[cables'[c].ends[i]] = EndOf(call.path, i)
             /\ \A d \in DOMAIN cables, j \in 1..2 :
                   cables[d].ends[j] # cables'[c].ends[i]]_vars

\* What the form says of a cable both of whose ends snapped (map-page.tsx
\* 3938): it runs between the two points that were clicked.
RunsBetweenItsEnds ==
    [][\A c \in DOMAIN cables' : c \notin DOMAIN cables =>
          \A i \in 1..2 :
             cables'[c].ends[i] \in Pins /\ EndOf(call.path, i) \in Pins =>
                cables'[c].ends[i] = EndOf(call.path, i)]_vars
=============================================================================
