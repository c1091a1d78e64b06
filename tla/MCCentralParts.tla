------------------------------ MODULE MCCentralParts ------------------------------
(***************************************************************************)
(* Parts of the central server, three views the dashboard has of its       *)
(* record and its way of paying, whose promises are safety, next to each   *)
(* other for one run: a behaviour is a behaviour of one of them, the       *)
(* others stand still.  They share no state; TopologyOrder and DeviceWatch *)
(* are extended, the others are instances.                                 *)
(***************************************************************************)
EXTENDS TopologyOrder, DeviceWatch

CONSTANTS
    LastDay, DaysPerMonth, Rates, BannerDays, BackfillMax, PaymentIds, Admins,
    MaxFlagEdits, MaxCrashes, EndOfTime, Grace, Day, Early, MaxRows, Cabinets, Closures,
    Splitters, Ports, Inlet, MaxCount, MaxLaid, MaxChanges, DrumCores, TubeSize,
    MinRun, MinPortRun, InTheBox, MaxFacts, Gear, Onus, Spots, Details, MaxFixes,
    MaxCalls, MaxDesk, Managed, WebPorts, Tabs, Workers, Slots, MaxInflight,
    MaxSids, MaxRequests, MaxMoves, Attempts, MaxTicks, MaxReloads

VARIABLES
    part,
    today, accrued, invoice, gateway, manual, exempt, deactivated, anchor, sweep,
    captured, unanswered, hook, admin, switching, edits, crashes, misanchored,
    rows, silences, created, clock, on, at, playing, days, recon,
    stands, spare, cables, made, joints, asked, changes,
    ending, name, feed, trayJoints, drops, openCable, schedOpen, expanded, openRuns,
    facts,
    places, details, witness, plants, lists, owner, sheet, typed, fix, phase, pin,
    moved, sameAs, fieldSave, fixes, fieldSaves, desk,
    flag, hub, ran, sessionRows, requests, inbox, seq, life, sent, workers, opening,
    tabs, watched, listed, lastPort, moves,
    screen, payPhase, paying, dormant, ticks, doc, step, heard, taken, recorded,
    overdue, enabled, left, reloads

\* The ports of the box whose tray is open.
TrayPorts == <<"pon", "pon", "port">>

B == INSTANCE BillingLedger
       WITH Ids <- PaymentIds, MaxEdits <- MaxFlagEdits
H == INSTANCE Replay
F == INSTANCE FibreRecord
       WITH Boxes <- Cabinets, MaxCables <- MaxLaid, points <- stands
Y == INSTANCE FibreTray
       WITH PortKinds <- TrayPorts, Here <- InTheBox, joints <- trayJoints
S == INSTANCE Survey
       WITH call <- fieldSave, calls <- fieldSaves
X == INSTANCE WebProxy
       WITH Devices <- Managed, Ports <- WebPorts, rows <- sessionRows
P == INSTANCE PayFlow
       WITH Ids <- Attempts, phase <- payPhase, captured <- taken

ASSUME PartsAssumption ==
    /\ B!LedgerAssumption /\ F!RecordAssumption
    /\ S!SurveyAssumption /\ X!ProxyAssumption /\ H!ReplayAssumption
    /\ Y!TrayAssumption

watchVars == vars
ledgerVars ==
    <<today, accrued, invoice, gateway, manual, exempt, deactivated, anchor, sweep,
      captured, unanswered, hook, admin, switching, edits,
      crashes, misanchored>>
replayVars ==
    <<rows, silences, created, clock, on, at, playing, days, recon>>
recordVars ==
    <<stands, spare, cables, made, joints, asked, changes>>
trayVars ==
    <<ending, name, feed, trayJoints, drops, openCable, schedOpen, expanded,
      openRuns, facts>>
surveyVars ==
    <<places, details, witness, plants, lists, owner, sheet, typed, fix, phase, pin,
      moved, sameAs, fieldSave, fixes, fieldSaves, desk>>
proxyVars ==
    <<flag, hub, ran, sessionRows, requests, inbox, seq, life, sent, workers,
      opening, tabs, watched, listed, lastPort, moves>>
payVars ==
    <<screen, payPhase, paying, dormant, ticks, doc, step, heard, taken, recorded,
      overdue, enabled, left, reloads>>
allVars ==
    <<part, orderVars, watchVars, ledgerVars, replayVars, recordVars, trayVars,
      surveyVars, proxyVars, payVars>>

\* A part that does not move has no state to speak of, or a fixed one.
PartsInit ==
    /\ part \in {"order", "watch", "ledger", "replay", "record", "tray", "survey",
                  "proxy", "pay"}
    /\ Init /\ (part # "watch" => fsm = Prime("UP"))
    /\ B!Init
    /\ IF part = "replay"
         THEN H!Init
         ELSE /\ rows = None /\ silences = None /\ created = None /\ clock = None
              /\ on = None /\ at = None /\ playing = None /\ days = None
              /\ recon = None
    /\ F!Init
    /\ IF part = "tray"
         THEN Y!Init
         ELSE /\ ending = None /\ name = None /\ feed = None /\ trayJoints = None
              /\ drops = None /\ openCable = None /\ schedOpen = None /\ expanded = None
              /\ openRuns = None /\ facts = None
    /\ S!Init /\ (part # "survey" => ~owner /\ places = [t \in Gear \cup Onus |-> None])
    /\ IF part = "proxy"
         THEN X!Init
         ELSE /\ flag = None /\ hub = None /\ ran = None /\ sessionRows = None
              /\ requests = None /\ inbox = None /\ seq = None /\ life = None
              /\ sent = None /\ workers = None /\ opening = None /\ tabs = None
              /\ watched = None /\ listed = None /\ lastPort = None /\ moves = None
    /\ P!Init /\ (part # "pay" => enabled)
    /\ IF part = "order"
         THEN OrderInit
         ELSE /\ ids = {} /\ primary = <<>> /\ backups = <<>> /\ indeg = <<>>
              /\ ready = {} /\ order = <<>> /\ done = FALSE

OrderMoves ==
    /\ part = "order" /\ OrderNext
    /\ UNCHANGED
           <<watchVars, ledgerVars, replayVars, recordVars, trayVars, surveyVars,
             proxyVars, payVars>>
WatchMoves ==
    /\ part = "watch" /\ Next
    /\ UNCHANGED
           <<orderVars, ledgerVars, replayVars, recordVars, trayVars, surveyVars,
             proxyVars, payVars>>
LedgerMoves ==
    /\ part = "ledger" /\ B!Next
    /\ UNCHANGED
           <<orderVars, watchVars, replayVars, recordVars, trayVars, surveyVars,
             proxyVars, payVars>>
ReplayMoves ==
    /\ part = "replay" /\ H!Next
    /\ UNCHANGED
           <<orderVars, watchVars, ledgerVars, recordVars, trayVars, surveyVars,
             proxyVars, payVars>>
RecordMoves ==
    /\ part = "record" /\ F!Next
    /\ UNCHANGED
           <<orderVars, watchVars, ledgerVars, replayVars, trayVars, surveyVars,
             proxyVars, payVars>>
TrayMoves ==
    /\ part = "tray" /\ Y!Next
    /\ UNCHANGED
           <<orderVars, watchVars, ledgerVars, replayVars, recordVars, surveyVars,
             proxyVars, payVars>>
SurveyMoves ==
    /\ part = "survey" /\ S!Next
    /\ UNCHANGED
           <<orderVars, watchVars, ledgerVars, replayVars, recordVars, trayVars,
             proxyVars, payVars>>
ProxyMoves ==
    /\ part = "proxy" /\ X!Next
    /\ UNCHANGED
           <<orderVars, watchVars, ledgerVars, replayVars, recordVars, trayVars,
             surveyVars, payVars>>
PayMoves ==
    /\ part = "pay" /\ P!Next
    /\ UNCHANGED
           <<orderVars, watchVars, ledgerVars, replayVars, recordVars, trayVars,
             surveyVars, proxyVars>>

PartsNext ==
    /\ UNCHANGED part
    /\ \/ OrderMoves \/ WatchMoves \/ LedgerMoves \/ ReplayMoves \/ RecordMoves
       \/ TrayMoves \/ SurveyMoves \/ ProxyMoves \/ PayMoves

PartsSpec == PartsInit /\ [][PartsNext]_allVars

-----------------------------------------------------------------------------
(***************************************************************************)
(* Properties: those of the parts, told in their modules.                  *)
(***************************************************************************)

\* An invoice is the sum of its days, through crashes and backfills.
InvoiceIsTheSumOfItsDays == B!InvoiceIsTheSumOfItsDays

\* What the replay shows at a moment is what the record says of it.
PictureIsTheMoment == part = "replay" => H!PictureIsTheMoment

\* The fibres of a joint end where it is, and are joined once.
FibresMeet == F!FibresMeet

\* The fibre tray tells every core and every port once.
TrayTellsAll == part = "tray" => Y!TrayTellsAll

\* What is on record of a target of the survey came from its own sheet.
RecordsAreTheirOwn == S!RecordsAreTheirOwn

\* A tab of a device shows the answers to its own requests.
AnswersAreTheirOwn == part = "proxy" => X!AnswersAreTheirOwn

\* Nobody is asked to pay what the dialog saw paid.
NotAskedTwice == P!NotAskedTwice
=============================================================================
