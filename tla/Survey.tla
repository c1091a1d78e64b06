--------------------------------- MODULE Survey --------------------------------
(***************************************************************************)
(* The survey page of a technician's handset: one sheet records where a    *)
(* device, a new splitter or a subscriber's ONU stands.  The position it   *)
(* saves is the pin if one is set, else the spot of another device, else   *)
(* the best fix of the GPS; what it knows of a subscriber is a snapshot of *)
(* the browser's lists, and others place and rename things meanwhile.      *)
(*                                                                         *)
(* A spot stands for a position and also for the feeder nearest to it and  *)
(* that feeder's PON.  Details are a subscriber's name and phone number.   *)
(* Whatever is measured, chosen or typed bears the target whose sheet was  *)
(* open then.                                                              *)
(***************************************************************************)
EXTENDS Naturals, FiniteSets

CONSTANTS
    Gear, Onus, Spots, Details,
    None,
    MaxFixes,  \* bound: fixes that improve while a sheet is open
    MaxCalls,  \* bound: saves
    MaxDesk    \* bound: changes others make

Plant == "new plant"
Targets == Gear \cup Onus \cup {Plant}

\* What is surveyed is an ONU or the plant, not both.
SurveyAssumption == Plant \notin Onus

\* A fix within 8 m ends the search.  (Beyond 25 m another button saves it.)
Excellent == 1
Loose == 2

VARIABLES
    places,    \* the server: where each device and subscriber stands
    details,   \* the server: each subscriber's contact
    witness,   \* the server: the subscribers that are references
    plants,    \* the server: the splitters created here
    lists,     \* the browser's copy of places and contacts
    owner,     \* whether the user may wire plant into the network
    sheet,     \* the target it is open on, with the copy it was opened with
               \* and, for a splitter, its feeder and its PON
    typed,     \* the contact in its fields
    fix, phase,
    pin, moved,
    sameAs,    \* the spot of another device
    call,      \* the save under way
    fixes, calls, desk

server == <<places, details, witness, plants>>
gps == <<fix, phase>>
fields == <<typed, pin, moved, sameAs>>
bounds == <<fixes, calls, desk>>
vars == <<server, lists, owner, sheet, gps, fields, call, bounds>>

Place(s, t) == [spot |-> s, for |-> t]
Contact(d, t) == [what |-> d, for |-> t]
Untouched == "untouched"

Init ==
    /\ \E at \in [Gear \cup Onus -> Spots \cup {None}] :
           places = [t \in Gear \cup Onus |->
                        IF at[t] = None THEN None ELSE Place(at[t], t)]
    /\ details = [t \in Onus |-> None]
    /\ witness = {}
    /\ plants = {}
    /\ lists = [at |-> places, details |-> details]
    /\ owner \in BOOLEAN
    /\ sheet = None
    /\ typed = None
    /\ fix = None
    /\ phase = "idle"
    /\ pin = None
    /\ moved = FALSE
    /\ sameAs = None
    /\ call = None
    /\ fixes = 0
    /\ calls = 0
    /\ desk = 0

--------------------------------------------------------------------------------
IsOnu == sheet # None /\ sheet.of \in Onus

\* The position a save sends.
coords ==
    CASE pin # None -> pin
      [] pin = None /\ sameAs # None -> sameAs
      [] pin = None /\ sameAs = None /\ fix # None -> fix.at
      [] OTHER -> None

\* The pin is where the subscriber was recorded: saving only renames.
renameOnly == IsOnu /\ sheet.at # None /\ pin # None /\ ~moved

suggestedFeeder == IF owner /\ coords # None THEN coords.spot ELSE None
effectiveFeeder ==
    IF sheet.feeder = Untouched THEN suggestedFeeder ELSE sheet.feeder
effectivePon == IF sheet.pon = Untouched THEN effectiveFeeder ELSE sheet.pon

canSave ==
    /\ call = None
    /\ IF renameOnly
       THEN typed # None /\ typed # sheet.details
       ELSE coords # None /\ (IsOnu => typed # None)

--------------------------------------------------------------------------------
\* useGpsFix.
reset == fix' = None /\ phase' = "idle"
start == fix' = None /\ phase' = "acquiring"

\* The receiver reports a position; the sheet keeps the best one.
Measured(s, accuracy) ==
    /\ phase = "acquiring"
    /\ fixes < MaxFixes
    /\ fix # None => accuracy < fix.accuracy
    /\ fix' = [at |-> Place(s, sheet.of), accuracy |-> accuracy]
    /\ phase' = IF accuracy = Excellent THEN "settled" ELSE phase
    /\ fixes' = fixes + 1
    /\ UNCHANGED <<server, lists, owner, sheet, fields, call, calls, desk>>

\* It took too long, or the receiver failed.
Settled ==
    /\ phase = "acquiring"
    /\ phase' = IF fix # None THEN "settled" ELSE "error"
    /\ UNCHANGED <<server, lists, owner, sheet, fix, fields, call, bounds>>

\* The button is hidden while a pin or another device's spot is used.
Retry ==
    /\ sheet # None
    /\ pin = None /\ sameAs = None
    /\ phase # "acquiring"
    /\ start
    /\ UNCHANGED <<server, lists, owner, sheet, fields, call, bounds>>

--------------------------------------------------------------------------------
Refetched ==
    /\ lists' = [at |-> places, details |-> details]
    /\ lists' # lists
    /\ UNCHANGED <<server, owner, sheet, gps, fields, call, bounds>>

\* Mutant: only what the lists say of the new target is put in.
FreshOnlyPin(t, at) ==
    /\ pin' = IF t \in Onus THEN at ELSE pin
    /\ moved' = FALSE
    /\ UNCHANGED sameAs

\* Opening the sheet starts it afresh.
Fresh(t, at) ==
    /\ pin' = IF t \in Onus THEN at ELSE None
    /\ moved' = FALSE
    /\ sameAs' = None

\* What the browser's lists say of a target, as the sheet takes it over.
Listed(t) ==
    [of |-> t,
     at |-> IF t = Plant THEN None ELSE lists.at[t],
     details |-> IF t \in Onus THEN lists.details[t] ELSE None,
     feeder |-> Untouched, pon |-> Untouched]

Pick(t) ==
    /\ sheet = None
    /\ sheet' = Listed(t)
    /\ Fresh(t, Listed(t).at)
    /\ typed' = Listed(t).details
    /\ start
    /\ UNCHANGED <<server, lists, owner, call, bounds>>

\* The sheet may be closed while its save is under way.
Close ==
    /\ sheet # None
    /\ sheet' = None
    /\ reset
    /\ UNCHANGED <<server, lists, owner, fields, call, bounds>>

DragPin(s) ==
    /\ sheet # None
    /\ coords # None
    /\ pin' = Place(s, sheet.of)
    /\ moved' = TRUE
    /\ UNCHANGED <<server, lists, owner, sheet, gps, typed, sameAs, call,
                   bounds>>

BackToGps ==
    /\ sheet # None
    /\ pin # None
    /\ pin' = None
    /\ moved' = FALSE
    /\ UNCHANGED <<server, lists, owner, sheet, gps, typed, sameAs, call,
                   bounds>>

SameSpot(d) ==
    /\ sheet # None
    /\ sameAs = None
    /\ lists.at[d] # None
    /\ sameAs' = Place(lists.at[d].spot, sheet.of)
    /\ UNCHANGED <<server, lists, owner, sheet, gps, typed, pin, moved, call,
                   bounds>>

OwnFix ==
    /\ sheet # None
    /\ sameAs # None
    /\ sameAs' = None
    /\ UNCHANGED <<server, lists, owner, sheet, gps, typed, pin, moved, call,
                   bounds>>

Type(d) ==
    /\ IsOnu
    /\ typed' = IF d = None THEN None ELSE Contact(d, sheet.of)
    /\ UNCHANGED <<server, lists, owner, sheet, gps, pin, moved, sameAs, call,
                   bounds>>

\* Choosing the feeder forgets the PON; a suggestion that moves does not.
PickFeeder(f) ==
    /\ sheet # None /\ sheet.of = Plant
    /\ owner
    /\ sheet' = [sheet EXCEPT !.feeder = f, !.pon = Untouched]
    /\ UNCHANGED <<server, lists, owner, gps, fields, call, bounds>>

PickPon(p) ==
    /\ sheet # None /\ sheet.of = Plant
    /\ owner
    /\ effectiveFeeder # None
    /\ p \in {None, effectiveFeeder}
    /\ sheet' = [sheet EXCEPT !.pon = p]
    /\ UNCHANGED <<server, lists, owner, gps, fields, call, bounds>>

--------------------------------------------------------------------------------
Save ==
    /\ sheet # None
    /\ canSave
    /\ calls < MaxCalls
    /\ call' = [of |-> sheet.of,
                rename |-> renameOnly,
                to |-> coords,
                details |-> typed,
                feeder |-> effectiveFeeder,
                pon |-> effectivePon,
                stage |-> "sent"]
    /\ calls' = calls + 1
    /\ UNCHANGED <<server, lists, owner, sheet, gps, fields, fixes, desk>>

Handled(stage) == call' = [call EXCEPT !.stage = stage]

PlaceInField ==
    /\ call # None /\ call.stage = "sent" /\ call.of \in Gear
    /\ places' = [places EXCEPT ![call.of] = call.to]
    /\ Handled("done")
    /\ UNCHANGED <<details, witness, plants>>

\* Whether the subscriber is a reference is read before the row is written.
LocateReads ==
    /\ call # None /\ call.stage = "sent" /\ call.of \in Onus /\ ~call.rename
    /\ Handled(IF call.of \in witness THEN "read: reference" ELSE "read")
    /\ UNCHANGED server

LocateWrites ==
    /\ call # None /\ call.stage \in {"read", "read: reference"}
    /\ places' = [places EXCEPT ![call.of] = call.to]
    /\ details' = [details EXCEPT ![call.of] = call.details]
    /\ witness' = IF call.stage = "read" THEN witness \ {call.of}
                  ELSE witness \cup {call.of}
    /\ Handled("done")
    /\ UNCHANGED plants

\* A subscriber nobody has placed cannot be renamed.
NameOnu ==
    /\ call # None /\ call.stage = "sent" /\ call.rename
    /\ IF places[call.of] # None
       THEN /\ details' = [details EXCEPT ![call.of] = call.details]
            /\ Handled("done")
       ELSE details' = details /\ Handled("refused")
    /\ UNCHANGED <<places, witness, plants>>

\* The splitter is created without its feeder, which a second call sets.
CreatePassive ==
    /\ call # None /\ call.stage = "sent" /\ call.of = Plant
    /\ plants' = plants \cup {[n |-> Cardinality(plants), at |-> call.to,
                               feeder |-> None, pon |-> call.pon]}
    /\ Handled(IF call.feeder = None THEN "done" ELSE "created")
    /\ UNCHANGED <<places, details, witness>>

WirePassive ==
    /\ call # None /\ call.stage = "created"
    /\ LET new == CHOOSE p \in plants : p.n = Cardinality(plants) - 1
       IN  plants' \in {plants,
                        (plants \ {new}) \cup {[new EXCEPT !.feeder = call.feeder]}}
    /\ Handled("done")
    /\ UNCHANGED <<places, details, witness>>

Handle ==
    /\ \/ PlaceInField
       \/ LocateReads
       \/ LocateWrites
       \/ NameOnu
       \/ CreatePassive
       \/ WirePassive
    /\ UNCHANGED <<lists, owner, sheet, gps, fields, bounds>>

\* Success closes whichever sheet is open.
Answered ==
    /\ call # None /\ call.stage = "done"
    /\ call' = None
    /\ sheet' = None
    /\ reset
    /\ UNCHANGED <<server, lists, owner, fields, bounds>>

\* A refusal, a request that never arrived or an answer that was lost.
Failed ==
    /\ call # None /\ call.stage \in {"sent", "done", "refused"}
    /\ call' = None
    /\ UNCHANGED <<server, lists, owner, sheet, gps, fields, bounds>>

\* Others place, rename and clear things and choose the references.
Desk ==
    /\ desk < MaxDesk
    /\ desk' = desk + 1
    /\ \/ \E t \in Gear \cup Onus, s \in Spots \cup {None} :
              /\ places' = [places EXCEPT ![t] =
                                IF s = None THEN None ELSE Place(s, t)]
              /\ UNCHANGED <<details, witness>>
       \/ \E t \in Onus, d \in Details :
              /\ details' = [details EXCEPT ![t] = Contact(d, t)]
              /\ UNCHANGED <<places, witness>>
       \/ \E t \in Onus :
              /\ witness' = (witness \cup {t}) \ (witness \cap {t})
              /\ UNCHANGED <<places, details>>
    /\ UNCHANGED <<plants, lists, owner, sheet, gps, fields, call, fixes, calls>>

Next ==
    \/ \E s \in Spots, accuracy \in Excellent .. Loose : Measured(s, accuracy)
    \/ Settled \/ Retry \/ Refetched \/ Close \/ BackToGps \/ OwnFix
    \/ \E t \in Targets : Pick(t)
    \/ \E s \in Spots : DragPin(s)
    \/ \E d \in Gear : SameSpot(d)
    \/ \E d \in Details \cup {None} : Type(d)
    \/ \E f \in Spots \cup {None} : PickFeeder(f)
    \/ \E p \in Spots \cup {None} : PickPon(p)
    \/ Save \/ Handle \/ Answered \/ Failed
    \/ Desk

Spec == Init /\ [][Next]_vars

--------------------------------------------------------------------------------
(***************************************************************************)
(* What is on record of a target was measured, chosen or typed on a sheet  *)
(* that was open on that target, whatever was open before it, whenever it  *)
(* was closed and whenever the save arrives: one sheet serves every target *)
(* (survey-page.tsx, CaptureSheet).                                        *)
(***************************************************************************)
RecordsAreTheirOwn ==
    /\ \A t \in Gear \cup Onus : places[t] = None \/ places[t].for = t
    /\ \A t \in Onus : details[t] = None \/ details[t].for = t
    /\ \A p \in plants : p.at.for = Plant
================================================================================
