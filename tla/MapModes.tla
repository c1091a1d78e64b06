------------------------------ MODULE MapModes ------------------------------
(***************************************************************************)
(* The map page as an editor (web/src/routes/map-page.tsx): what the next  *)
(* click means, what is selected, which card, menu or dialog is open, and  *)
(* the replay of the past that the same page shows.                        *)
(*                                                                         *)
(* Each handler is one action, and React's effects on what it changed run  *)
(* with it.  A write is a call under way until its answer, and the         *)
(* operator goes on working meanwhile.  The operator may write; zoom,      *)
(* drawing, wording and the fibre tray's own calls are left out, and so is *)
(* what a traced line looks like (CableTrace).                             *)
(***************************************************************************)
EXTENDS Naturals, FiniteSets

CONSTANTS
    Devs,      \* the devices of the organisation
    Boxes,     \* those that are passive plant
    None,
    MaxModes,  \* bound: modes on at once
    MaxCalls   \* bound: writes under way at once

VARIABLES
    replay,    \* replayOn
    mode,      \* what the next click is for: see Idle
    menu,      \* plantMenu: None, "ground" or the device under it
    dialog,    \* the modal dialog: a draft, the cable form, a confirmation
    card,      \* cableOpen / cableList: None, "list" or "cable"
    sel,       \* selectedId, panelFor, selectedOnuMac
    light,     \* what draws the subscribers: refOnus at this zoom or onuScope
               \* ("marks"), focusFlying ("flight"), or nothing ("dark")
    placed,    \* inventory: the devices that have a pin
    located,   \* onu-places: the subscriber has one
    calls      \* the writes under way

cursor == <<mode, menu, dialog>>
server == <<placed, located>>
vars   == <<replay, cursor, card, sel, light, server, calls>>

Idle == [place |-> None, placeOnu |-> FALSE, arm |-> None, add |-> FALSE,
         trace |-> None, split |-> FALSE, pins |-> FALSE]

Nothing == [device |-> None, panel |-> None, onu |-> FALSE]

Dialogs == {"box", "customer", "cable", "delete", "unpin", "cut", "move"}
\* No menu, no dialog: told from every one there is.
MapAssumption == None \notin Devs \cup {"ground"} \cup Dialogs

TypeOK ==
    /\ {replay, located} \subseteq BOOLEAN /\ light \in {"dark", "marks", "flight"}
    /\ mode \in [place : Devs \cup {None}, placeOnu : BOOLEAN,
                 arm : {None, "box", "customer"}, add : BOOLEAN,
                 trace : {None, "drop", "new", "path"}, split : BOOLEAN,
                 pins : BOOLEAN]
    /\ menu \in Devs \cup {None, "ground"}
    /\ dialog \in Dialogs \cup {None}
    /\ card \in {None, "list", "cable"}
    /\ sel \in [device : Devs \cup {None}, panel : Devs \cup {None},
                onu : BOOLEAN]
    /\ placed \subseteq Devs
    /\ \A c \in calls : c.do \in {"pin", "onu", "drop", "path", "lay", "split",
                                 "box", "customer", "delete", "cut", "move"}

Init ==
    /\ replay \in BOOLEAN             \* ?replay= opens the page in the past
    /\ mode \in {Idle, [Idle EXCEPT !.placeOnu = ~replay]}
    /\ menu = None /\ dialog = None /\ card = None
    /\ sel = Nothing
    /\ light \in {"dark", "marks"}
    /\ placed \in SUBSET Devs /\ located \in BOOLEAN
    /\ calls = {}

-----------------------------------------------------------------------------
(***************************************************************************)
(* Selection.                                                              *)
(***************************************************************************)
\* Subscriber marks tell today's light: replay takes them away.
RefVisible == ~replay /\ (light = "marks" \/ mode.placeOnu)

\* The effects on the selection: a subscriber that is not drawn, or is
\* selected beside a device, is let go.
Settled(s) ==
    [s EXCEPT !.onu = /\ s.onu /\ s.device = None
                      /\ located /\ (RefVisible' \/ light' = "flight")]

\* selectDevice: in replay the panel stays shut.
Selected(d) ==
    [device |-> d, panel |-> IF replay THEN None ELSE d, onu |-> sel.onu]

\* The modes that are on; several can be.
Armed(m) == {f \in DOMAIN m : m[f] # Idle[f]}
Turn(m) == Cardinality(Armed(m)) <= MaxModes /\ mode' = m

Free == menu = None /\ dialog = None
Sends(c) == Cardinality(calls) < MaxCalls /\ calls' = calls \cup {c}
Pin(d) == [do |-> "pin", dev |-> d]

(***************************************************************************)
(* Replay.                                                                 *)
(***************************************************************************)
\* MUTANT: what was armed with a click outlives the step into the past.
EnterReplayArmed ==
    /\ Free /\ ~replay
    /\ replay' = TRUE
    /\ mode' = [Idle EXCEPT !.arm = mode.arm]
    /\ card' = None
    /\ sel' = [device |-> sel.device, panel |-> None, onu |-> FALSE]
    /\ UNCHANGED <<menu, dialog, light, server, calls>>

EnterReplay ==
    /\ Free /\ ~replay
    /\ replay' = TRUE
    /\ mode' = Idle
    /\ card' = None
    /\ sel' = [device |-> sel.device, panel |-> None, onu |-> FALSE]
    /\ UNCHANGED <<menu, dialog, light, server, calls>>

ExitReplay ==
    /\ Free /\ replay
    /\ replay' = FALSE
    /\ UNCHANGED <<cursor, card, light>>
    /\ sel' = Settled(sel)
    /\ UNCHANGED <<server, calls>>

(***************************************************************************)
(* Finding things: the search box, the Marey rows, the list of devices     *)
(* without a pin, the trouble button.                                      *)
(***************************************************************************)
\* focusDevice: the pin and its subscribers, without the panel.
Focus(d) ==
    /\ light' \in {light, "marks"}   \* those who have located subscribers
    /\ sel' = [device |-> d, panel |-> None, onu |-> FALSE]
    /\ UNCHANGED mode

\* A device without a pin is placed by the next click: not from the past.
SearchDevice(d) ==
    /\ Free
    /\ \/ d \in placed /\ Focus(d)
       \/ /\ d \in placed
          /\ sel' = Selected(d) /\ UNCHANGED <<mode, light>>
       \/ /\ d \notin placed /\ ~replay
          /\ Turn([mode EXCEPT !.place = d])
          /\ sel' = Selected(None) /\ UNCHANGED light
    /\ UNCHANGED <<replay, menu, dialog, card, server, calls>>

SearchOnu ==
    /\ Free /\ located
    /\ light' = "flight"
    /\ UNCHANGED <<replay, cursor, card>>
    /\ sel' = Settled([Selected(None) EXCEPT !.onu = TRUE])
    /\ UNCHANGED <<server, calls>>

\* The Marey's rows select without a panel; the trouble button opens one.
PickRow(d) ==
    /\ Free /\ replay
    /\ sel' = Settled([sel EXCEPT !.device = d])
    /\ UNCHANGED <<replay, cursor, card, light, server, calls>>

CycleTrouble(d) ==
    /\ Free /\ d \in placed
    /\ sel' = [Selected(d) EXCEPT !.onu = FALSE]
    /\ UNCHANGED <<replay, cursor, card, light, server, calls>>

OpenPlaceList ==
    /\ Free /\ placed # Devs
    /\ mode' = [mode EXCEPT !.place = None]
    /\ UNCHANGED <<replay, menu, dialog, card, sel, light, server, calls>>

\* The list of devices without a pin, or "move" on a site's card.
PickFromList(d) ==
    /\ Free /\ (d \notin placed \/ mode.pins)
    /\ Turn([mode EXCEPT !.place = d])
    /\ sel' = Selected(None)
    /\ UNCHANGED <<replay, menu, dialog, card, light, server, calls>>

\* Zooming drops the flight; the layers' toggles and the scope's cross turn the marks on and off.
Zoom ==
    /\ light' \in {"dark", "marks"}
    /\ UNCHANGED <<replay, cursor, card>>
    /\ sel' = Settled(sel)
    /\ UNCHANGED <<server, calls>>

-----------------------------------------------------------------------------
(***************************************************************************)
(* The plant menu.                                                         *)
(***************************************************************************)
MenuAllowed ==
    /\ ~replay
    /\ mode.place = None /\ ~mode.placeOnu /\ mode.trace = None /\ ~mode.pins

OpenMenu(t) ==
    /\ dialog = None /\ MenuAllowed
    /\ t \in placed \cup {"ground"}
    /\ menu' = t
    /\ UNCHANGED <<replay, mode, dialog, card, sel, light, server, calls>>

CloseMenu ==
    /\ menu # None /\ menu' = None
    /\ UNCHANGED <<replay, mode, dialog, card, sel, light, server, calls>>

\* "New splitter" arms a click; "New splitter here" and "Customer here" ask.
MenuArm(k) ==
    /\ menu \in Devs
    /\ k = "customer" => menu \in Boxes
    /\ menu' = None /\ Turn([mode EXCEPT !.arm = k])
    /\ sel' = Selected(None)
    /\ UNCHANGED <<replay, dialog, card, light, server, calls>>

MenuDraft(k) ==
    /\ menu = "ground"
    /\ menu' = None /\ dialog' = k
    /\ UNCHANGED <<replay, mode, card, sel, light, server, calls>>

MenuCable ==
    /\ menu # None
    /\ menu' = None
    /\ Turn([mode EXCEPT !.place = None, !.trace = "new"])
    /\ sel' = Selected(None)
    /\ UNCHANGED <<replay, dialog, card, light, server, calls>>

MenuCut ==
    /\ menu = "ground"
    /\ menu' = None /\ Turn([mode EXCEPT !.split = TRUE])
    /\ UNCHANGED <<replay, dialog, card, sel, light, server, calls>>

MenuOpenPanel ==
    /\ menu \in Devs
    /\ menu' = None
    /\ sel' = [Selected(menu) EXCEPT !.onu = FALSE]
    /\ UNCHANGED <<replay, mode, dialog, card, light, server, calls>>

\* From the menu of a box or from its panel.
AskDelete ==
    /\ dialog = None
    /\ menu \in Boxes \/ (menu = None /\ sel.panel \in Boxes)
    /\ menu' = None /\ dialog' = "delete"
    /\ UNCHANGED <<replay, mode, card, sel, light, server, calls>>

-----------------------------------------------------------------------------
(***************************************************************************)
(* Clicks: one click is for one thing.                                     *)
(***************************************************************************)
\* The armed click names the place of a draft.
Drafted ==
    /\ dialog' = IF mode.arm = "customer" THEN "customer" ELSE "box"
    /\ mode' = [mode EXCEPT !.arm = None]
    /\ UNCHANGED <<menu, sel, light, calls>>

\* "+" is the plant menu at the next click, if it may open.
Added(t) ==
    /\ mode' = [mode EXCEPT !.add = FALSE]
    /\ menu' = IF MenuAllowed THEN t ELSE menu
    /\ UNCHANGED <<dialog, sel, light, calls>>

OnuPlacedHere ==
    /\ Sends([do |-> "onu"])
    /\ light' = "marks"
    /\ mode' = [mode EXCEPT !.placeOnu = FALSE]
    /\ UNCHANGED <<menu, dialog, replay>>
    /\ sel' = Settled([sel EXCEPT !.onu = TRUE])

DevicePlacedHere ==
    /\ Sends(Pin(mode.place))
    /\ sel' = [Selected(mode.place) EXCEPT !.onu = FALSE]
    /\ mode' = [mode EXCEPT !.place = None]
    /\ UNCHANGED <<menu, dialog, light>>

ClickMap ==
    /\ Free /\ mode.trace = None
    /\ IF mode.split
       THEN Sends([do |-> "split"]) /\ UNCHANGED <<cursor, sel, light>>
       ELSE IF mode.arm # None THEN Drafted
       ELSE IF mode.add        THEN Added("ground")
       ELSE IF mode.placeOnu   THEN OnuPlacedHere
       ELSE IF mode.place # None THEN DevicePlacedHere
       ELSE sel' = Nothing /\ UNCHANGED <<cursor, light, calls>>
    /\ UNCHANGED <<replay, card, server>>

ClickPin(d) ==
    /\ Free /\ mode.trace = None /\ d \in placed
    /\ IF mode.add THEN Added(d)
       ELSE IF mode.arm # None THEN Drafted
       ELSE IF mode.placeOnu   THEN OnuPlacedHere
       ELSE IF mode.place \notin {None, d} THEN DevicePlacedHere
       ELSE IF mode.place = d
       THEN /\ mode' = [mode EXCEPT !.place = None]
            /\ UNCHANGED <<menu, dialog, sel, light, calls>>
       ELSE /\ sel' = IF sel.device = d /\ sel.panel = d THEN Selected(None)
                      ELSE [Selected(d) EXCEPT !.onu = FALSE]
            /\ UNCHANGED <<cursor, light, calls>>
    /\ UNCHANGED <<replay, card, server>>

ClickSubscriber ==
    /\ Free /\ RefVisible /\ located
    /\ mode.trace = None /\ mode.place = None /\ ~mode.placeOnu
    /\ UNCHANGED <<replay, cursor, card, light>>
    /\ sel' = Settled([Selected(None) EXCEPT !.onu = ~sel.onu])
    /\ UNCHANGED <<server, calls>>

\* A badge of several pins takes a placement; else it opens (not modelled).
ClickCluster ==
    /\ Free /\ mode.trace = None /\ mode.place # None /\ placed # {}
    /\ DevicePlacedHere
    /\ UNCHANGED <<replay, card, server>>

DragPin(d) ==
    /\ Free /\ mode.pins /\ d \in placed
    /\ Sends(Pin(d))
    /\ UNCHANGED <<replay, cursor, card, sel, light, server>>

\* The label of a link opens the panel of an end.
ClickLabel(d) ==
    /\ Free /\ mode.place = None /\ mode.trace = None /\ ~mode.pins
    /\ d \in placed
    /\ sel' = [Selected(d) EXCEPT !.onu = FALSE]
    /\ UNCHANGED <<replay, cursor, card, light, server, calls>>

\* Escape leaves every mode but the dragging of pins, and the past with them:
\* two handlers hear the key.
Escape ==
    /\ dialog # "cable"
    /\ replay \/ [mode EXCEPT !.pins = FALSE] # Idle
    /\ replay' = FALSE
    /\ mode' = [Idle EXCEPT !.pins = mode.pins]
    /\ UNCHANGED <<menu, dialog, card, light>>
    /\ sel' = Settled(sel)
    /\ UNCHANGED <<server, calls>>

\* The cross on a banner leaves what the banner is about.
Cancel ==
    /\ Free
    /\ mode' \in {[mode EXCEPT !.arm = None, !.add = FALSE],
                  [mode EXCEPT !.place = None],
                  [mode EXCEPT !.placeOnu = FALSE],
                  [mode EXCEPT !.trace = None],
                  [mode EXCEPT !.split = FALSE]} \ {mode}
    /\ UNCHANGED <<replay, menu, dialog, card, light>>
    /\ sel' = Settled(sel)
    /\ UNCHANGED <<server, calls>>

TogglePins ==
    /\ Free /\ ~replay
    /\ \/ Turn([mode EXCEPT !.pins = ~mode.pins])
       \/ Turn([mode EXCEPT !.add = ~mode.add, !.pins = FALSE])
    /\ UNCHANGED <<replay, menu, dialog, card, sel, light, server, calls>>

-----------------------------------------------------------------------------
(***************************************************************************)
(* The card: cables, a subscriber, a device.                              *)
(***************************************************************************)
CardShown == card # None /\ mode.trace = None

CableButton ==
    /\ Free
    /\ card' = IF card = None THEN "list" ELSE None
    /\ UNCHANGED <<replay, cursor, sel, light, server, calls>>

OpenCable ==
    /\ Free /\ CardShown
    /\ card' \in {"list", "cable", None}
    /\ UNCHANGED <<replay, cursor, sel, light, server, calls>>

LayCable ==
    /\ Free /\ CardShown /\ card = "list"
    /\ card' = None /\ Turn([mode EXCEPT !.trace = "new"])
    /\ UNCHANGED <<replay, menu, dialog, sel, light, server, calls>>

\* Retrace, open a closure on it, move an end, delete.
WorkOnCable ==
    /\ Free /\ CardShown /\ card = "cable"
    /\ \/ Turn([mode EXCEPT !.trace = "path"]) /\ UNCHANGED <<dialog, calls>>
       \/ Turn([mode EXCEPT !.split = TRUE]) /\ UNCHANGED <<dialog, calls>>
       \/ dialog' \in {"cut", "move"} /\ UNCHANGED <<mode, calls>>
    /\ UNCHANGED <<replay, menu, card, sel, light, server>>

\* Save on the trace's banner; a new cable is named first.
SaveTrace ==
    /\ Free /\ mode.trace # None
    /\ [do |-> mode.trace] \notin calls
    /\ IF mode.trace = "new"
       THEN dialog' = "cable" /\ UNCHANGED calls
       ELSE Sends([do |-> mode.trace]) /\ UNCHANGED dialog
    /\ UNCHANGED <<replay, mode, menu, card, sel, light, server>>

SubscriberShown == sel.onu /\ mode.trace = None /\ located

OnSubscriberCard ==
    /\ Free /\ SubscriberShown
    /\ \/ Turn([mode EXCEPT !.placeOnu = TRUE])
       \/ Turn([mode EXCEPT !.place = None, !.placeOnu = FALSE,
                              !.trace = "drop"])
    /\ sel' = [sel EXCEPT !.onu = FALSE]
    /\ UNCHANGED <<replay, menu, dialog, card, light, server, calls>>

OpenFromSubscriber(d) ==
    /\ Free /\ SubscriberShown
    /\ sel' = [Selected(d) EXCEPT !.onu = FALSE]
    /\ UNCHANGED <<replay, cursor, card, light, server, calls>>

PanelShown == sel.panel # None /\ mode.trace = None /\ card = None

\* The panel's coordinates: typed, or taken away after a question.
TypeCoords ==
    /\ Free /\ PanelShown
    /\ \/ Sends(Pin(sel.panel)) /\ UNCHANGED dialog
       \/ sel.panel \in placed /\ dialog' = "unpin" /\ UNCHANGED calls
    /\ UNCHANGED <<replay, mode, menu, card, sel, light, server>>

-----------------------------------------------------------------------------
(***************************************************************************)
(* Dialogs and answers.                                                    *)
(***************************************************************************)
CloseDialog ==
    /\ dialog # None /\ dialog' = None
    /\ UNCHANGED <<replay, mode, menu, card, sel, light, server, calls>>

\* Which call a dialog makes, and whether it stays open for the answer.
Submit(again) ==
    /\ dialog # None
    /\ LET do == IF dialog = "cable" THEN "lay" ELSE dialog
           stays == dialog \in {"box", "customer", "cable"}
       IN /\ \A c \in calls : c.do # do
          /\ Sends(CASE do = "box"   -> [do |-> "box", again |-> again]
                     [] do = "unpin" -> [do |-> "pin", dev |-> None]
                     [] OTHER        -> [do |-> do])
          /\ dialog' = IF stays THEN dialog ELSE None
          /\ sel' = IF do = "unpin" THEN Selected(None) ELSE sel
    /\ UNCHANGED <<replay, mode, menu, card, light, server>>

Answered(do) == \E c \in calls : c.do = do /\ calls' = calls \ {c}

Refused ==
    /\ \E c \in calls : calls' = calls \ {c}
    /\ UNCHANGED <<replay, cursor, card, sel, light, server>>

AnswerPin ==
    /\ \E c \in calls :
          /\ c.do = "pin" /\ calls' = calls \ {c}
          /\ placed' \in IF c.dev = None THEN {placed \ {d} : d \in Devs}
                         ELSE {placed \cup {c.dev}}
    /\ UNCHANGED <<replay, cursor, card, sel, light, located>>

AnswerOnu ==
    /\ Answered("onu")
    /\ located' = TRUE
    /\ UNCHANGED <<replay, cursor, card, sel, light, placed>>

\* Whatever is being traced by then is closed.
AnswerTrace ==
    /\ Answered("drop") \/ Answered("path")
    /\ mode' = [mode EXCEPT !.trace = None]
    /\ UNCHANGED <<replay, menu, dialog, card, sel, light, server>>

AnswerLay ==
    /\ Answered("lay")
    /\ mode' = [mode EXCEPT !.trace = None]
    /\ dialog' = IF dialog = "cable" THEN None ELSE dialog
    /\ card' = IF card = "list" THEN None ELSE card
    /\ UNCHANGED <<replay, menu, sel, light, server>>

AnswerSplit ==
    /\ Answered("split")
    /\ mode' = [mode EXCEPT !.split = FALSE]
    /\ UNCHANGED <<replay, menu, dialog, card, sel, light, server>>

\* onPlantCreated: "add another" arms the next click if the draft is still
\* there to say of what.
AnswerBox ==
    /\ \E c \in calls :
          /\ c.do = "box" /\ calls' = calls \ {c}
          /\ IF c.again /\ dialog = "box"
             THEN Turn([mode EXCEPT !.arm = "box"]) /\ UNCHANGED sel
             ELSE \E d \in Boxes : /\ sel' = [Selected(d) EXCEPT !.onu = FALSE]
                                   /\ UNCHANGED mode
    /\ dialog' = IF dialog = "box" THEN None ELSE dialog
    /\ UNCHANGED <<replay, menu, card, light, server>>

\* onCustomerAttached: the subscriber is selected, and let go again by the
\* effects when the places on hand do not have it yet.
AnswerCustomer ==
    /\ Answered("customer")
    /\ dialog' = IF dialog = "customer" THEN None ELSE dialog
    /\ light' = "marks"
    /\ UNCHANGED <<replay, mode, menu, card>>
    /\ sel' = Settled([Selected(None) EXCEPT !.onu = TRUE])
    /\ located' = TRUE
    /\ UNCHANGED placed

AnswerDelete ==
    /\ \/ Answered("delete") /\ sel' \in {sel, Selected(None)} /\ UNCHANGED card
       \/ Answered("cut") /\ card' = (IF card = "cable" THEN None ELSE card)
                          /\ UNCHANGED sel
       \/ Answered("move") /\ UNCHANGED <<sel, card>>
    /\ UNCHANGED <<replay, cursor, light, server>>

Next ==
    \/ EnterReplay \/ ExitReplay
    \/ SearchOnu \/ OpenPlaceList \/ Zoom
    \/ CloseMenu \/ MenuCable \/ MenuCut \/ MenuOpenPanel \/ AskDelete
    \/ \E k \in {"box", "customer"} : MenuArm(k) \/ MenuDraft(k)
    \/ \E t \in Devs \cup {"ground"} : OpenMenu(t)
    \/ \E d \in Devs :
          \/ SearchDevice(d) \/ PickRow(d) \/ CycleTrouble(d)
          \/ PickFromList(d) \/ ClickPin(d) \/ DragPin(d) \/ ClickLabel(d)
          \/ OpenFromSubscriber(d)
    \/ ClickMap \/ ClickSubscriber \/ ClickCluster
    \/ Escape \/ Cancel \/ TogglePins
    \/ CableButton \/ OpenCable \/ LayCable \/ WorkOnCable \/ SaveTrace
    \/ OnSubscriberCard \/ TypeCoords
    \/ CloseDialog \/ \E again \in BOOLEAN : Submit(again)
    \/ Refused \/ AnswerPin \/ AnswerOnu \/ AnswerTrace \/ AnswerLay
    \/ AnswerSplit \/ AnswerBox \/ AnswerCustomer \/ AnswerDelete

Spec == Init /\ [][Next]_vars

-----------------------------------------------------------------------------
(***************************************************************************)
(* Properties.                                                             *)
(***************************************************************************)
\* While the map shows the past, the panel of today's readings is shut, no
\* click is armed to make plant, no pin can be dragged, and neither the plant
\* menu nor a draft is open: whatever was under way when replay began, and
\* whichever answers come in after it.
ReplayStandsApart ==
    replay => /\ sel.panel = None
              /\ mode.arm = None /\ ~mode.add /\ ~mode.pins
              /\ menu = None /\ dialog \notin {"box", "customer"}

\* What searchDevice's comment says of placements (map-page.tsx 1256-1258): a
\* historical view is not where a pin gets dropped, and every way in is closed.
NoPinDropsInReplay ==
    [][\A c \in calls' \ calls : c.do \in {"pin", "onu"} => ~replay]_vars
=============================================================================
