--------------------------- MODULE DashboardProofs ---------------------------
(***************************************************************************)
(* Parts of the dashboard, proved: the forms, the map, the tab and its     *)
(* builds, the session, the laying of cables, the network page and the     *)
(* split view, for any targets, devices, order of builds, accounts, pins   *)
(* and views and for any number of steps.  Each has an invariant of its    *)
(* own; they share no state.                                               *)
(***************************************************************************)
EXTENDS MCDashboard, Sequences, FiniteSetTheorems, TLAPS

-----------------------------------------------------------------------------
\* A step of the whole is a step of each part, or leaves it alone.
LEMMA PartsMove ==
    ASSUME [DashNext]_allVars
    PROVE  /\ [T!Next]_tabVars /\ [A!Next]_sessionVars /\ [M!Next]_mapVars
           /\ [C!Next]_cableVars /\ [D!Next]_formVars /\ [V!Next]_splitVars
BY DEF DashNext, allVars, TabMoves, SessionMoves, MapMoves, CableMoves, TreeMoves, FormMoves,
       SplitMoves

-----------------------------------------------------------------------------
(***************************************************************************)
(* The forms.                                                              *)
(***************************************************************************)
\* Every draft has its field, and only the forms that say so read on opening.
Drafted ==
    /\ DOMAIN draftOf = Targets
    /\ \A t \in Targets : "typed" \in DOMAIN draftOf[t]
ReadsAreTold ==
    draftForm.reads = "never" => unreadOf = {} /\ readingOf = {}

\* The inductive invariant of the forms.
FormInv == shownTarget \in Targets \cup {None} /\ Drafted /\ ReadsAreTold

\* In the beginning nothing is drafted.
LEMMA FormInit ==
    ASSUME D!Init
    PROVE  FormInv
BY DEF D!Init, D!NoDrafts, FormInv, Drafted, ReadsAreTold

\* An action that puts another draft in the place of t's.
LEMMA PutIsDrafted ==
    ASSUME Drafted, NEW t, NEW d, "typed" \in DOMAIN d,
           draftOf' = [draftOf EXCEPT ![t] = d]
    PROVE  Drafted'
BY DEF Drafted

\* Something is typed into the draft of t, or it takes the answer to a save.
LEMMA EditedIsDrafted ==
    ASSUME Drafted, NEW t, NEW v, NEW b,
           draftOf' = [draftOf EXCEPT ![t].val = v, ![t].typed = b]
    PROVE  Drafted' /\ (t \in Targets => draftOf'[t].typed = b)
<1>1. \A d : "typed" \in DOMAIN d =>
               /\ "typed" \in DOMAIN [d EXCEPT !.val = v, !.typed = b]
               /\ [d EXCEPT !.val = v, !.typed = b].typed = b
  OBVIOUS
<1>2. draftOf' = [draftOf EXCEPT ![t] = [draftOf[t] EXCEPT !.val = v, !.typed = b]]
  OBVIOUS
<1> QED BY <1>1, <1>2 DEF Drafted

\* Every step of the forms keeps the invariant.
LEMMA FormKeeps ==
    ASSUME FormInv, [D!Next]_formVars
    PROVE  FormInv'
<1> DEFINE Puts(t, d) == draftOf' = [draftOf EXCEPT ![t] = d] /\ "typed" \in DOMAIN d
<1>1. UNCHANGED draftOf => Drafted'
  BY DEF FormInv, Drafted
<1>2. ASSUME UNCHANGED <<draftForm, unreadOf, readingOf>>,
             shownTarget' \in {shownTarget, None}, Drafted'
      PROVE  FormInv'
  BY <1>2 DEF FormInv, ReadsAreTold
<1>3. ASSUME NEW t, NEW d, Puts(t, d) PROVE Drafted'
  BY <1>3, PutIsDrafted DEF FormInv
<1>4. \A t, copy : "typed" \in DOMAIN D!Untouched(t, copy)
  BY DEF D!Untouched
<1>5. /\ DOMAIN D!NoDrafts = Targets
      /\ \A t \in Targets : "typed" \in DOMAIN D!NoDrafts[t]
  BY DEF D!NoDrafts
<1> HIDE DEF Puts
<1>6. CASE UNCHANGED formVars
  BY <1>1, <1>2, <1>6 DEF formVars
<1>7. ASSUME NEW t \in Targets, D!Show(t) PROVE FormInv'
  <2>1. PICK over \in draftForm.handsOver :
           draftOf' = IF draftForm.rows THEN draftOf
                      ELSE [D!NoDrafts EXCEPT ![t] = D!Opened(t, over)]
    BY <1>7 DEF D!Show
  <2>2. "typed" \in DOMAIN D!Opened(t, over)
    <3>1. shownTarget # None => "typed" \in DOMAIN draftOf[shownTarget]
      BY DEF FormInv, Drafted
    <3> QED BY <1>4, <1>5, <3>1 DEF D!Opened
  <2>3. Drafted'
    BY <1>1, <1>5, <2>1, <2>2 DEF Drafted
  <2> QED BY <1>7, <2>3 DEF D!Show, FormInv, ReadsAreTold
<1>8. CASE D!Close
  <2>1. CASE UNCHANGED draftOf
    BY <1>1, <1>2, <1>8, <2>1 DEF D!Close
  <2>2. CASE draftOf' = D!NoDrafts
    <3>1. Drafted'
      BY <1>5, <2>2 DEF Drafted
    <3> QED BY <1>2, <1>8, <3>1 DEF D!Close
  <2>3. CASE draftOf' = [draftOf EXCEPT ![shownTarget] = D!NoDrafts[shownTarget]]
    <3>1. Puts(shownTarget, D!NoDrafts[shownTarget])
      BY <1>5, <1>8, <2>3 DEF Puts, FormInv, D!Close
    <3> QED BY <1>2, <1>3, <1>8, <3>1 DEF D!Close
  <2> QED BY <1>8, <2>1, <2>2, <2>3 DEF D!Close
<1>9. CASE D!Type
  <2>1. Drafted'
    BY <1>9, EditedIsDrafted DEF D!Type, FormInv
  <2> QED BY <1>2, <1>9, <2>1 DEF D!Type
<1>10. CASE D!Save \/ D!FirstPartStored \/ D!Elsewhere
  BY <1>1, <1>2, <1>10 DEF D!Save, D!FirstPartStored, D!Elsewhere
<1>11. CASE D!Saved
  <2>1. CASE "clear" \in draftForm.after
    <3>1. Puts(D!Cleared, D!Untouched(D!Cleared, seenValue))
      BY <1>4, <1>11, <2>1 DEF D!Saved, Puts
    <3> QED BY <1>2, <1>3, <1>11, <3>1 DEF D!Saved
  <2>2. CASE "clear" \notin draftForm.after /\ draftForm.reverts
    <3>1. Drafted'
      BY <1>11, <2>2, EditedIsDrafted DEF D!Saved, FormInv
    <3> QED BY <1>2, <1>11, <3>1 DEF D!Saved
  <2>3. CASE "clear" \notin draftForm.after /\ ~draftForm.reverts
    BY <1>1, <1>2, <1>11, <2>3 DEF D!Saved
  <2> QED BY <2>1, <2>2, <2>3
<1>12. CASE D!Refused
  <2>1. CASE draftForm.reverts
    <3>1. Puts(saveCall.to, D!Untouched(saveCall.to, seenValue))
      BY <1>4, <1>12, <2>1 DEF D!Refused, Puts
    <3> QED BY <1>2, <1>3, <1>12, <3>1 DEF D!Refused
  <2>2. CASE ~draftForm.reverts
    BY <1>1, <1>2, <1>12, <2>2 DEF D!Refused
  <2> QED BY <2>1, <2>2
<1>13. ASSUME NEW t \in Targets, D!ReadEnds(t) PROVE FormInv'
  <2>1. draftForm.reads # "never" /\ UNCHANGED <<draftForm, shownTarget>>
    BY <1>13 DEF D!ReadEnds, FormInv, ReadsAreTold
  <2>2. CASE draftForm.reads = "always" /\ shownTarget # None
    <3>1. PICK x : draftOf' = [draftOf EXCEPT ![shownTarget].val[2] = x]
      BY <1>13, <2>2 DEF D!ReadEnds
    <3>2. "typed" \in DOMAIN draftOf[shownTarget]
      BY <2>2 DEF FormInv, Drafted
    <3>3. Puts(shownTarget, [draftOf[shownTarget] EXCEPT !.val[2] = x])
      BY <3>1, <3>2 DEF Puts
    <3>4. Drafted'
      BY <1>3, <3>3
    <3> QED BY <2>1, <3>4 DEF FormInv, ReadsAreTold
  <2>3. CASE ~(draftForm.reads = "always" /\ shownTarget # None)
    <3>1. CASE draftOf' = [draftOf EXCEPT ![t] = D!Untouched(t, seenValue')]
      <4>1. Puts(t, D!Untouched(t, seenValue'))
        BY <1>4, <3>1 DEF Puts
      <4> QED BY <1>3, <2>1, <4>1 DEF FormInv, ReadsAreTold
    <3>2. CASE UNCHANGED draftOf
      BY <1>1, <2>1, <3>2 DEF FormInv, ReadsAreTold
    <3> QED BY <1>13, <2>3, <3>1, <3>2 DEF D!ReadEnds
  <2> QED BY <2>2, <2>3
<1>14. CASE D!ReadAgain
  <2>1. draftForm.reads # "never" /\ UNCHANGED <<draftForm, draftOf, shownTarget>>
    BY <1>14 DEF D!ReadAgain, D!Blind
  <2> QED BY <1>1, <2>1 DEF FormInv, ReadsAreTold
<1>15. CASE D!Refetch
  <2>1. ASSUME NEW t \in Targets
        PROVE  draftOf'[t] \in {D!Untouched(t, seenValue'), draftOf[t]}
    BY <1>15 DEF D!Refetch
  <2>2. DOMAIN draftOf' = Targets
    BY <1>15 DEF D!Refetch
  <2>3. Drafted'
    BY <1>4, <2>1, <2>2 DEF FormInv, Drafted
  <2>4. draftForm.reads = "never" => unreadOf' = unreadOf
    BY <1>15 DEF D!Refetch
  <2> QED BY <1>15, <2>3, <2>4 DEF D!Refetch, FormInv, ReadsAreTold
<1> QED BY <1>6, <1>7, <1>8, <1>9, <1>10, <1>11, <1>12, <1>13, <1>14, <1>15 DEF D!Next

\* What a step does to a form halfway typed.
StepKeepsTyping ==
    \A t \in Targets :
        /\ shownTarget = t /\ shownTarget' = t /\ draftOf[t].typed
        /\ draftForm.copies # "answer" /\ draftForm.reads = "never"
        => \/ draftOf'[t] = draftOf[t]
           \/ draftOf'[t].typed
           \/ saveCall' # saveCall
           \/ seenValue'.val[t] # seenValue.val[t]

\* No step of the forms takes away what is typed, but those that may.
LEMMA EveryStepKeepsTyping ==
    ASSUME FormInv, [D!Next]_formVars
    PROVE  [StepKeepsTyping]_formVars
<1>1. SUFFICES ASSUME D!Next, NEW t \in Targets, shownTarget = t, shownTarget' = t,
                      draftOf[t].typed, draftForm.copies # "answer",
                      draftForm.reads = "never"
               PROVE  \/ draftOf'[t] = draftOf[t]
                      \/ draftOf'[t].typed
                      \/ saveCall' # saveCall
                      \/ seenValue'.val[t] # seenValue.val[t]
  BY DEF StepKeepsTyping
<1>2. \A s \in Targets : ~D!Show(s)
  BY <1>1 DEF D!Show
<1>3. ~D!Close
  BY <1>1 DEF D!Close
<1>4. CASE D!Type
  <2>1. draftOf'[t].typed = TRUE
    BY <1>1, <1>4, EditedIsDrafted DEF D!Type, FormInv
  <2> QED BY <2>1
<1>5. CASE D!Save \/ D!FirstPartStored \/ D!Elsewhere
  BY <1>5 DEF D!Save, D!FirstPartStored, D!Elsewhere
<1>6. CASE D!Saved \/ D!Refused
  BY <1>6 DEF D!Saved, D!Refused
<1>7. ~D!ReadAgain /\ \A s \in Targets : ~D!ReadEnds(s)
  BY <1>1 DEF FormInv, ReadsAreTold, D!ReadAgain, D!ReadEnds, D!Blind
<1>8. CASE D!Refetch
  <2>1. draftOf'[t] # draftOf[t] => D!Moved(t)
    BY <1>8 DEF D!Refetch
  <2>2. D!Moved(t) => seenValue'.val[t] # seenValue.val[t]
    BY <1>1 DEF D!Moved
  <2> QED BY <2>1, <2>2
<1> QED BY <1>1, <1>2, <1>3, <1>4, <1>5, <1>6, <1>7, <1>8 DEF D!Next

\* What is typed is taken away by nothing but its user, the answer to a save or a stored
\* value that has moved, for any targets, values and forms that promise it.
THEOREM TypedIsKept == DashSpec => TypingIsKept
<1>1. DashInit => FormInv
  BY FormInit DEF DashInit
<1>2. FormInv /\ [DashNext]_allVars => FormInv'
  BY FormKeeps, PartsMove
<1>3. FormInv /\ [DashNext]_allVars => [StepKeepsTyping]_formVars
  BY EveryStepKeepsTyping, PartsMove
<1>4. TypingIsKept <=> [][StepKeepsTyping]_formVars
  BY DEF TypingIsKept, D!TypingIsKept, StepKeepsTyping, formVars, D!vars
<1> QED BY <1>1, <1>2, <1>3, <1>4, PTL DEF DashSpec

-----------------------------------------------------------------------------
(***************************************************************************)
(* The map.                                                                *)
(***************************************************************************)
\* The inductive invariant of the map: what is selected and what a click is for have
\* their fields, and nothing that writes is at hand in the past.
SelFields == {"device", "panel", "onu"}
ModeFields == {"place", "placeOnu", "arm", "add", "trace", "split", "pins"}

SelStands == DOMAIN sel = SelFields /\ (replay => sel.panel = None)
ModeStands ==
    /\ DOMAIN mode = ModeFields
    /\ replay => mode.arm = None /\ mode.add = FALSE /\ mode.pins = FALSE
NothingIsOpen == replay => menu = None /\ popup \notin {"box", "customer"}

MapInv == SelStands /\ ModeStands /\ NothingIsOpen

\* In the beginning nothing is open; a page opened in the past has nothing armed.
LEMMA MapInit ==
    ASSUME M!Init
    PROVE  MapInv
<1>1. DOMAIN M!Idle = ModeFields
      /\ M!Idle.arm = None /\ M!Idle.add = FALSE /\ M!Idle.pins = FALSE
  BY DEF M!Idle, ModeFields
<1>2. mode = M!Idle \/ mode = [M!Idle EXCEPT !.placeOnu = ~replay]
  BY DEF M!Init
<1>3. ModeStands
  <2>1. CASE mode = M!Idle
    BY <1>1, <2>1 DEF ModeStands
  <2>2. CASE mode = [M!Idle EXCEPT !.placeOnu = ~replay]
    <3> DEFINE b == ~replay
    <3>1. mode = [M!Idle EXCEPT !.placeOnu = b]
      BY <2>2
    <3> HIDE DEF b
    <3> QED BY <1>1, <3>1 DEF ModeStands, ModeFields
  <2> QED BY <1>2, <2>1, <2>2
<1> QED
  BY <1>3, DashAssumption
     DEF M!MapAssumption, M!Dialogs, M!Init, M!Nothing, MapInv, SelStands,
         SelFields, NothingIsOpen

\* What an effect or a selection leaves selected.
LEMMA SettledSel ==
    ASSUME NEW s, DOMAIN s = SelFields, sel' = M!Settled(s)
    PROVE  DOMAIN sel' = SelFields /\ sel'.panel = s.panel
BY DEF M!Settled, SelFields

\* selectDevice, and what goes with it: in the past the panel stays shut.
LEMMA SelectedSel ==
    ASSUME NEW d, NEW b
    PROVE  /\ DOMAIN M!Selected(d) = SelFields
           /\ DOMAIN [M!Selected(d) EXCEPT !.onu = b] = SelFields
           /\ replay => M!Selected(d).panel = None
                        /\ [M!Selected(d) EXCEPT !.onu = b].panel = None
BY DEF M!Selected, SelFields

\* The selection: in the past no step opens the panel.
LEMMA SelKeeps ==
    ASSUME MapInv, [M!Next]_mapVars
    PROVE  SelStands'
<1>1. ASSUME UNCHANGED <<sel, replay>> PROVE SelStands'
  BY <1>1 DEF MapInv, SelStands
<1>2. ASSUME NEW d, NEW b, replay' = replay,
             sel' \in {M!Selected(d), [M!Selected(d) EXCEPT !.onu = b], sel}
      PROVE  SelStands'
  BY <1>2, SelectedSel DEF MapInv, SelStands
<1>3. ASSUME NEW d, NEW b, replay' = replay,
             sel' = M!Settled([M!Selected(d) EXCEPT !.onu = b])
      PROVE  SelStands'
  BY <1>3, SelectedSel, SettledSel DEF SelStands
<1>4. ASSUME NEW b, replay' = replay, sel' = [sel EXCEPT !.onu = b]
      PROVE  SelStands'
  BY <1>4 DEF MapInv, SelStands, SelFields
<1>5. ASSUME NEW s, replay' => replay, DOMAIN s = SelFields, s.panel = sel.panel,
             sel' = M!Settled(s)
      PROVE  SelStands'
  BY <1>5, SettledSel DEF MapInv, SelStands
<1>6. CASE UNCHANGED mapVars
  BY <1>1, <1>6 DEF mapVars
<1>7. CASE M!EnterReplay
  BY <1>7 DEF M!EnterReplay, SelStands, SelFields
<1>8. CASE M!ExitReplay \/ M!Zoom \/ M!Escape \/ M!Cancel
  BY <1>5, <1>8 DEF M!ExitReplay, M!Zoom, M!Escape, M!Cancel, MapInv, SelStands
<1>9. CASE M!SearchOnu \/ M!ClickSubscriber \/ M!AnswerCustomer
  BY <1>3, <1>9 DEF M!SearchOnu, M!ClickSubscriber, M!AnswerCustomer
<1>10. CASE M!OpenPlaceList \/ M!CloseMenu \/ M!MenuCut \/ M!AskDelete \/ M!TogglePins
            \/ M!CableButton \/ M!OpenCable \/ M!LayCable \/ M!WorkOnCable \/ M!SaveTrace
            \/ M!TypeCoords \/ M!CloseDialog \/ M!Refused \/ M!AnswerPin \/ M!AnswerOnu
            \/ M!AnswerTrace \/ M!AnswerLay \/ M!AnswerSplit
  BY <1>1, <1>10
     DEF M!OpenPlaceList, M!CloseMenu, M!MenuCut, M!AskDelete, M!TogglePins, M!CableButton,
         M!OpenCable, M!LayCable, M!WorkOnCable, M!SaveTrace, M!TypeCoords, M!CloseDialog,
         M!Refused, M!AnswerPin, M!AnswerOnu, M!AnswerTrace, M!AnswerLay, M!AnswerSplit,
         M!cursor, M!server
<1>11. CASE M!MenuCable \/ M!MenuOpenPanel \/ M!AnswerBox \/ M!AnswerDelete
  BY <1>2, <1>11, Zenon
     DEF M!MenuCable, M!MenuOpenPanel, M!AnswerBox, M!AnswerDelete
<1>12. ASSUME NEW k, M!MenuArm(k) \/ M!MenuDraft(k) PROVE SelStands'
  BY <1>1, <1>2, <1>12 DEF M!MenuArm, M!MenuDraft
<1>13. ASSUME NEW t, M!OpenMenu(t) PROVE SelStands'
  BY <1>1, <1>13 DEF M!OpenMenu
<1>14. ASSUME NEW d, M!SearchDevice(d) PROVE SelStands'
  <2>1. CASE M!Focus(d)
    BY <1>14, <2>1 DEF M!SearchDevice, M!Focus, SelStands, SelFields
  <2> QED BY <1>2, <1>14, <2>1 DEF M!SearchDevice
<1>15. ASSUME NEW d, M!PickRow(d) PROVE SelStands'
  <2>1. DOMAIN [sel EXCEPT !.device = d] = SelFields
        /\ [sel EXCEPT !.device = d].panel = sel.panel
    BY DEF MapInv, SelStands, SelFields
  <2> QED BY <1>5, <1>15, <2>1 DEF M!PickRow
<1>16. ASSUME NEW d,
              M!CycleTrouble(d) \/ M!PickFromList(d) \/ M!ClickLabel(d)
              \/ M!OpenFromSubscriber(d) \/ M!DragPin(d)
       PROVE  SelStands'
  BY <1>1, <1>2, <1>16
     DEF M!CycleTrouble, M!PickFromList, M!ClickLabel, M!OpenFromSubscriber, M!DragPin
<1>17. ASSUME replay' = replay, M!OnuPlacedHere PROVE SelStands'
  <2>1. DOMAIN [sel EXCEPT !.onu = TRUE] = SelFields
        /\ [sel EXCEPT !.onu = TRUE].panel = sel.panel
    BY DEF MapInv, SelStands, SelFields
  <2>2. sel' = M!Settled([sel EXCEPT !.onu = TRUE])
    BY <1>17, Zenon DEF M!OnuPlacedHere
  <2> QED BY <1>5, <1>17, <2>1, <2>2, Zenon
<1>18. ASSUME NEW t, replay' = replay,
              M!Drafted \/ M!Added(t) \/ M!OnuPlacedHere \/ M!DevicePlacedHere
       PROVE  SelStands'
  BY <1>1, <1>2, <1>17, <1>18 DEF M!Drafted, M!Added, M!DevicePlacedHere
<1>19. CASE M!ClickMap
  <2>1. CASE sel' = M!Nothing
    BY <1>19, <2>1 DEF M!ClickMap, M!Nothing, SelStands, SelFields
  <2> QED BY <1>1, <1>18, <1>19, <2>1, Zenon DEF M!ClickMap
<1>20. ASSUME NEW d, M!ClickPin(d) PROVE SelStands'
  BY <1>1, <1>2, <1>18, <1>20, Zenon DEF M!ClickPin
<1>21. CASE M!ClickCluster
  BY <1>18, <1>21 DEF M!ClickCluster
<1>22. CASE M!OnSubscriberCard
  BY <1>4, <1>22 DEF M!OnSubscriberCard
<1>23. ASSUME NEW again, M!Submit(again) PROVE SelStands'
  BY <1>1, <1>2, <1>23, Zenon DEF M!Submit
<1> QED
  BY <1>6, <1>7, <1>8, <1>9, <1>10, <1>11, <1>12, <1>13, <1>14, <1>15, <1>16, <1>19, <1>20,
     <1>21, <1>22, <1>23
     DEF M!Next

\* What the next click is for: in the past nothing is armed.
LEMMA ModeKeeps ==
    ASSUME MapInv, [M!Next]_mapVars
    PROVE  ModeStands'
<1> USE DEF ModeFields
<1>1. ASSUME UNCHANGED <<mode, replay>> PROVE ModeStands'
  BY <1>1 DEF MapInv, ModeStands
<1>2. ASSUME NEW v, replay' = replay,
             \/ mode' = [mode EXCEPT !.place = v]
             \/ mode' = [mode EXCEPT !.placeOnu = v]
             \/ mode' = [mode EXCEPT !.trace = v]
             \/ mode' = [mode EXCEPT !.split = v]
      PROVE  ModeStands'
  BY <1>2 DEF MapInv, ModeStands
<1>3. ASSUME NEW v, ~replay', mode' = [mode EXCEPT !.arm = v] PROVE ModeStands'
  BY <1>3 DEF MapInv, ModeStands
<1>4. ASSUME replay' = replay,
             mode' \in {[mode EXCEPT !.arm = None], [mode EXCEPT !.add = FALSE],
                        [mode EXCEPT !.arm = None, !.add = FALSE]}
      PROVE  ModeStands'
  BY <1>4 DEF MapInv, ModeStands
<1>5. CASE UNCHANGED mapVars
  BY <1>1, <1>5 DEF mapVars
<1>6. CASE M!EnterReplay
  BY <1>6 DEF M!EnterReplay, M!Idle, ModeStands
<1>7. CASE M!ExitReplay
  BY <1>7 DEF M!ExitReplay, M!cursor, MapInv, ModeStands
<1>8. CASE M!Escape
  <2>1. mode' = [M!Idle EXCEPT !.pins = mode.pins] /\ ~replay'
    BY <1>8 DEF M!Escape
  <2> QED BY <2>1 DEF M!Idle, ModeStands
<1>9. CASE M!SearchOnu \/ M!Zoom \/ M!CloseMenu \/ M!MenuOpenPanel \/ M!AskDelete
           \/ M!ClickSubscriber \/ M!CableButton \/ M!OpenCable \/ M!SaveTrace
           \/ M!TypeCoords \/ M!CloseDialog \/ M!Refused \/ M!AnswerPin \/ M!AnswerOnu
           \/ M!AnswerCustomer \/ M!AnswerDelete
  BY <1>1, <1>9
     DEF M!SearchOnu, M!Zoom, M!CloseMenu, M!MenuOpenPanel, M!AskDelete, M!ClickSubscriber,
         M!CableButton, M!OpenCable, M!SaveTrace, M!TypeCoords, M!CloseDialog, M!Refused,
         M!AnswerPin, M!AnswerOnu, M!AnswerCustomer, M!AnswerDelete, M!cursor
<1>10. CASE M!OpenPlaceList \/ M!MenuCut \/ M!LayCable \/ M!WorkOnCable \/ M!AnswerTrace
            \/ M!AnswerLay \/ M!AnswerSplit
  BY <1>1, <1>2, <1>10, Zenon
     DEF M!OpenPlaceList, M!MenuCut, M!LayCable, M!WorkOnCable, M!AnswerTrace, M!AnswerLay,
         M!AnswerSplit, M!Turn
<1>11. CASE M!MenuCable
  <2>1. mode' = [mode EXCEPT !.place = None, !.trace = "new"] /\ replay' = replay
    BY <1>11 DEF M!MenuCable, M!Turn
  <2> QED BY <2>1 DEF MapInv, ModeStands
<1>12. CASE M!OnSubscriberCard
  <2>1. CASE mode' = [mode EXCEPT !.placeOnu = TRUE]
    BY <1>2, <1>12, <2>1 DEF M!OnSubscriberCard
  <2>2. CASE mode' = [mode EXCEPT !.place = None, !.placeOnu = FALSE, !.trace = "drop"]
    BY <1>12, <2>2 DEF M!OnSubscriberCard, MapInv, ModeStands
  <2> QED BY <1>12, <2>1, <2>2 DEF M!OnSubscriberCard, M!Turn
<1>13. CASE M!AnswerBox
  <2>1. CASE UNCHANGED mode
    BY <1>1, <1>13, <2>1 DEF M!AnswerBox
  <2>2. CASE mode' = [mode EXCEPT !.arm = "box"] /\ popup = "box"
    BY <1>3, <1>13, <2>2 DEF M!AnswerBox, MapInv, NothingIsOpen
  <2> QED BY <1>13, <2>1, <2>2, Zenon DEF M!AnswerBox, M!Turn
<1>14. ASSUME NEW k, M!MenuArm(k) \/ M!MenuDraft(k) PROVE ModeStands'
  <2>1. ASSUME M!MenuArm(k) PROVE ~replay' /\ mode' = [mode EXCEPT !.arm = k]
    BY <2>1, DashAssumption DEF M!MapAssumption, M!MenuArm, M!Turn, MapInv, NothingIsOpen
  <2> QED BY <1>1, <1>3, <1>14, <2>1 DEF M!MenuDraft
<1>15. ASSUME NEW t, M!OpenMenu(t) PROVE ModeStands'
  BY <1>1, <1>15 DEF M!OpenMenu
<1>16. ASSUME NEW d,
              M!SearchDevice(d) \/ M!PickRow(d) \/ M!CycleTrouble(d) \/ M!PickFromList(d)
              \/ M!ClickLabel(d) \/ M!OpenFromSubscriber(d) \/ M!DragPin(d)
       PROVE  ModeStands'
  BY <1>1, <1>2, <1>16, Zenon
     DEF M!SearchDevice, M!Focus, M!PickRow, M!CycleTrouble, M!PickFromList, M!ClickLabel,
         M!OpenFromSubscriber, M!DragPin, M!Turn, M!cursor
<1>17. ASSUME NEW t, replay' = replay,
              M!Drafted \/ M!Added(t) \/ M!OnuPlacedHere \/ M!DevicePlacedHere
       PROVE  ModeStands'
  BY <1>2, <1>4, <1>17, Zenon DEF M!Drafted, M!Added, M!OnuPlacedHere, M!DevicePlacedHere
<1>18. CASE M!ClickMap \/ M!ClickCluster
  BY <1>1, <1>17, <1>18, Zenon DEF M!ClickMap, M!ClickCluster, M!cursor
<1>19. ASSUME NEW d, M!ClickPin(d) PROVE ModeStands'
  BY <1>1, <1>2, <1>17, <1>19, Zenon DEF M!ClickPin, M!cursor
<1>20. CASE M!Cancel
  BY <1>2, <1>4, <1>20, Zenon DEF M!Cancel
<1>21. CASE M!TogglePins
  <2>1. replay' = FALSE
    BY <1>21 DEF M!TogglePins
  <2>2. DOMAIN mode' = ModeFields
    BY <1>21 DEF M!TogglePins, M!Turn, MapInv, ModeStands
  <2> QED BY <2>1, <2>2 DEF ModeStands
<1>22. ASSUME NEW again, M!Submit(again) PROVE ModeStands'
  BY <1>1, <1>22, Zenon DEF M!Submit
<1> QED
  BY <1>5, <1>6, <1>7, <1>8, <1>9, <1>10, <1>11, <1>12, <1>13, <1>14, <1>15, <1>16, <1>18,
     <1>19, <1>20, <1>21, <1>22
     DEF M!Next

\* Menu and dialogs: in the past neither the plant menu nor a draft is opened.
LEMMA OpenKeeps ==
    ASSUME MapInv, [M!Next]_mapVars
    PROVE  NothingIsOpen'
<1>1. ASSUME UNCHANGED replay, menu' \in {menu, None},
             popup' \in {popup, None, "cable", "delete", "unpin", "cut", "move"}
      PROVE  NothingIsOpen'
  BY <1>1, DashAssumption DEF M!MapAssumption, M!Dialogs, MapInv, NothingIsOpen
<1>2. ASSUME ~replay' PROVE NothingIsOpen'
  BY <1>2 DEF NothingIsOpen
<1>3. CASE UNCHANGED mapVars
  BY <1>1, <1>3 DEF mapVars
<1>4. CASE M!EnterReplay
  BY <1>4, DashAssumption
     DEF M!EnterReplay, M!Free, M!MapAssumption, M!Dialogs, NothingIsOpen
<1>5. CASE M!ExitReplay \/ M!Escape
  BY <1>2, <1>5 DEF M!ExitReplay, M!Escape
<1>6. CASE M!SearchOnu \/ M!Zoom \/ M!CloseMenu \/ M!MenuOpenPanel \/ M!AskDelete
           \/ M!ClickSubscriber \/ M!CableButton \/ M!OpenCable \/ M!SaveTrace
           \/ M!TypeCoords \/ M!CloseDialog \/ M!Refused \/ M!AnswerPin \/ M!AnswerOnu
           \/ M!AnswerDelete
  BY <1>1, <1>6
     DEF M!SearchOnu, M!Zoom, M!CloseMenu, M!MenuOpenPanel, M!AskDelete, M!ClickSubscriber,
         M!CableButton, M!OpenCable, M!SaveTrace, M!TypeCoords, M!CloseDialog, M!Refused,
         M!AnswerPin, M!AnswerOnu, M!AnswerDelete, M!cursor
<1>7. CASE M!OpenPlaceList \/ M!MenuCut \/ M!LayCable \/ M!WorkOnCable \/ M!AnswerTrace
           \/ M!AnswerLay \/ M!AnswerSplit \/ M!MenuCable \/ M!OnSubscriberCard
           \/ M!AnswerBox \/ M!AnswerCustomer \/ M!Cancel \/ M!TogglePins
  BY <1>1, <1>7
     DEF M!OpenPlaceList, M!MenuCut, M!LayCable, M!WorkOnCable, M!AnswerTrace, M!AnswerLay,
         M!AnswerSplit, M!MenuCable, M!OnSubscriberCard, M!AnswerBox, M!AnswerCustomer,
         M!Cancel, M!TogglePins
<1>8. ASSUME NEW k, M!MenuArm(k) \/ M!MenuDraft(k) PROVE NothingIsOpen'
  <2>1. ASSUME M!MenuDraft(k) PROVE ~replay'
    BY <2>1, DashAssumption DEF M!MapAssumption, M!MenuDraft, MapInv, NothingIsOpen
  <2> QED BY <1>1, <1>2, <1>8, <2>1 DEF M!MenuArm
<1>9. ASSUME NEW t, M!OpenMenu(t) PROVE NothingIsOpen'
  BY <1>2, <1>9 DEF M!OpenMenu, M!MenuAllowed
<1>10. ASSUME NEW d,
              M!SearchDevice(d) \/ M!PickRow(d) \/ M!CycleTrouble(d) \/ M!PickFromList(d)
              \/ M!ClickLabel(d) \/ M!OpenFromSubscriber(d) \/ M!DragPin(d)
       PROVE  NothingIsOpen'
  BY <1>1, <1>10
     DEF M!SearchDevice, M!PickRow, M!CycleTrouble, M!PickFromList, M!ClickLabel,
         M!OpenFromSubscriber, M!DragPin, M!cursor
<1>11. ASSUME NEW t, replay' = replay,
              \/ mode.arm # None /\ M!Drafted
              \/ mode.add = TRUE /\ M!Added(t)
              \/ M!OnuPlacedHere \/ M!DevicePlacedHere
       PROVE  NothingIsOpen'
  <2>1. (mode.arm # None /\ M!Drafted) \/ (mode.add = TRUE /\ M!Added(t)) => ~replay'
    BY <1>11 DEF MapInv, ModeStands
  <2> QED BY <1>1, <1>2, <1>11, <2>1 DEF M!OnuPlacedHere, M!DevicePlacedHere
<1>12. ASSUME mode.add PROVE ~replay
  BY <1>12 DEF MapInv, ModeStands
<1>13. CASE M!ClickMap
  <2>1. CASE mode.add
    BY <1>2, <1>12, <1>13, <2>1 DEF M!ClickMap
  <2>2. CASE ~mode.add
    BY <1>1, <1>11, <1>13, <2>2, Zenon DEF M!ClickMap, M!cursor
  <2> QED BY <2>1, <2>2
<1>14. ASSUME NEW d, M!ClickPin(d) PROVE NothingIsOpen'
  <2>1. CASE mode.add
    BY <1>2, <1>12, <1>14, <2>1 DEF M!ClickPin
  <2>2. CASE ~mode.add
    BY <1>1, <1>11, <1>14, <2>2, Zenon DEF M!ClickPin, M!cursor
  <2> QED BY <2>1, <2>2
<1>15. CASE M!ClickCluster
  BY <1>11, <1>15 DEF M!ClickCluster
<1>16. ASSUME NEW again, M!Submit(again) PROVE NothingIsOpen'
  <2>1. UNCHANGED <<replay, menu>> /\ popup' \in {popup, None}
    BY <1>16, Zenon DEF M!Submit
  <2> QED BY <1>1, <2>1
<1> QED
  BY <1>3, <1>4, <1>5, <1>6, <1>7, <1>8, <1>9, <1>10, <1>13, <1>14, <1>15, <1>16 DEF M!Next

\* While the map shows the past nothing of today's is open and no click makes or moves
\* plant, for any devices and number of steps and whichever answers come in meanwhile
\* (map-page.tsx enterReplay).
THEOREM ReplayApart == DashSpec => []ReplayStandsApart
<1>1. DashInit => MapInv
  BY MapInit DEF DashInit
<1>2. MapInv /\ [DashNext]_allVars => MapInv'
  BY SelKeeps, ModeKeeps, OpenKeeps, PartsMove DEF MapInv
<1>3. MapInv => ReplayStandsApart
  BY DEF MapInv, SelStands, ModeStands, NothingIsOpen, ReplayStandsApart,
         M!ReplayStandsApart
<1> QED BY <1>1, <1>2, <1>3, PTL DEF DashSpec

-----------------------------------------------------------------------------
(***************************************************************************)
(* The tab and its builds.                                                 *)
(***************************************************************************)
\* The build that is served is news to this page.
IsNews == served # own /\ served # reloadedFor

\* The inductive invariant of the tab: a reload that is due, or would be as soon as the
\* stream says so, is for a deployment that has not been reloaded for.
TabInv ==
    /\ own \in T!Builds /\ served \in T!Builds /\ reloads \in Nat /\ deploys \in Nat
    /\ pending # 0 => pending \in T!Builds /\ pending # own /\ pending # reloadedFor
    /\ reloads <= deploys
    /\ pending # 0 \/ IsNews => reloads < deploys

\* A reload, for the build b that was waiting for one.
LEMMA ReloadCounts ==
    ASSUME TabInv, NEW b \in T!Builds, b # own, b = pending \/ (b = served /\ IsNews),
           pending # 0 \/ IsNews,
           served' = served, deploys' = deploys, own' \in {own, served}, pending' = 0,
           reloadedFor' = b, reloads' = reloads + 1
    PROVE  TabInv'
BY DEF TabInv, T!Builds, IsNews

\* Every step of the tab keeps the invariant.
LEMMA TabKeeps ==
    ASSUME TabInv, [T!Next]_tabVars
    PROVE  TabInv'
<1>1. ASSUME UNCHANGED <<own, served, pending, reloadedFor, reloads, deploys>>
      PROVE  TabInv'
  BY <1>1 DEF TabInv, T!Builds, IsNews
<1>2. ASSUME pending # 0, T!ReloadNow, served' = served, deploys' = deploys PROVE TabInv'
  BY <1>2, ReloadCounts DEF T!ReloadNow, T!Load, TabInv
<1>3. CASE UNCHANGED tabVars
  BY <1>1, <1>3 DEF tabVars
<1>4. CASE T!Accept \/ T!Refuse \/ T!Drop \/ T!PushChanged \/ T!AnswerFetch \/ T!Show
           \/ T!Return \/ T!Dialog \/ T!ChunkLoads \/ T!Change
  BY <1>1, <1>4
     DEF T!Accept, T!Refuse, T!Drop, T!PushChanged, T!AnswerFetch, T!Show, T!Return,
         T!Dialog, T!ChunkLoads, T!Change, T!counters
<1>5. CASE T!PushBuild
  <2>1. CASE T!News(served) /\ hidden /\ ~dialog
    <3>1. T!Load /\ reloadedFor' = served /\ reloads' = reloads + 1 /\ IsNews
          /\ served' = served /\ deploys' = deploys
      BY <1>5, <2>1 DEF T!PushBuild, T!News, IsNews
    <3> QED BY <3>1, ReloadCounts DEF T!Load, TabInv, IsNews
  <2>2. CASE ~(T!News(served) /\ hidden /\ ~dialog)
    <3>1. /\ pending' = IF IsNews THEN served ELSE pending
          /\ UNCHANGED <<own, served, reloadedFor, reloads, deploys>>
      BY <1>5, <2>2 DEF T!PushBuild, T!News, IsNews
    <3> QED BY <3>1 DEF TabInv, T!Builds, IsNews
  <2> QED BY <2>1, <2>2
<1>6. CASE T!Hide
  <2>1. CASE pending # 0 /\ ~dialog
    BY <1>2, <1>6, <2>1 DEF T!Hide
  <2>2. CASE ~(pending # 0 /\ ~dialog)
    BY <1>1, <1>6, <2>2 DEF T!Hide
  <2> QED BY <2>1, <2>2
<1>7. ASSUME NEW r, T!Navigate(r) PROVE TabInv'
  <2>1. CASE pending # 0
    BY <1>2, <1>7, <2>1 DEF T!Navigate
  <2>2. CASE pending = 0
    BY <1>1, <1>7, <2>2 DEF T!Navigate
  <2> QED BY <2>1, <2>2
<1>8. CASE T!ChunkFails
  <2>1. /\ UNCHANGED <<served, reloadedFor, reloads, deploys>>
        /\ own' \in {own, served} /\ pending' = 0
    BY <1>8 DEF T!ChunkFails, T!Load
  <2> QED BY <2>1 DEF TabInv, T!Builds, IsNews
<1>9. ASSUME NEW b \in T!Builds, T!Deploy(b) PROVE TabInv'
  BY <1>9 DEF T!Deploy, TabInv, T!Builds, IsNews
<1> QED BY <1>3, <1>4, <1>5, <1>6, <1>7, <1>8, <1>9 DEF T!Next

\* The build watcher reloads a page at most once for each deployment, however many there
\* are, roll-backs among them, and though a cached index may bring the old build back
\* (build-refresh.ts reloadNow).
THEOREM NoLoop == DashSpec => []NoReloadLoop
<1>1. DashInit => TabInv
  BY DEF DashInit, T!Init, TabInv, T!Builds, IsNews
<1>2. TabInv /\ [DashNext]_allVars => TabInv'
  BY TabKeeps, PartsMove
<1>3. TabInv => NoReloadLoop
  BY DEF TabInv, NoReloadLoop, T!NoReloadLoop
<1> QED BY <1>1, <1>2, <1>3, PTL DEF DashSpec

-----------------------------------------------------------------------------
(***************************************************************************)
(* The session.                                                            *)
(***************************************************************************)
\* A user whose session was opened after the last logout.
Alive(who) == who # NoUser => who.n \in Nat /\ who.n > dead /\ who.n <= serial

\* An answer on its way that would be believed.
Fresh(asker) == probe[asker].st = "answered" => Alive(probe[asker].who)

\* The inductive invariant of the session.  Only a tab that shows its user is logging
\* out, and only one that shows the login page is logging in.
SessionInv ==
    /\ serial \in Nat /\ dead \in Nat /\ dead <= serial
    /\ probe = [a \in A!Askers |-> probe[a]]
    /\ Alive(cookie)
    /\ leaving # "none" => me # NoUser /\ page = "app"
    /\ login.st # "none" => page = "login"
    /\ login.st = "ok" => login.who # NoUser /\ Alive(login.who)
    /\ me = NoUser => Fresh("query") /\ ("focus" \in late \/ Fresh("focus"))

\* Every step of the session keeps the invariant.
LEMMA SessionKeeps ==
    ASSUME SessionInv, [A!Next]_sessionVars
    PROVE  SessionInv'
<1> USE DEF SessionInv, Alive, Fresh, A!Askers
<1>1. CASE UNCHANGED sessionVars
  BY <1>1 DEF sessionVars
<1>2. ASSUME NEW a \in A!Askers, A!Ask(a) PROVE SessionInv'
  BY <1>2 DEF A!Ask, A!Sent, A!scopeVars
<1>3. ASSUME NEW a \in A!Askers, A!AnswerProbe(a) PROVE SessionInv'
  BY <1>3 DEF A!AnswerProbe, A!Answered, A!scopeVars
<1>4. ASSUME NEW a \in A!Askers, A!Learn(a) PROVE SessionInv'
  BY <1>4 DEF A!Learn, A!Idle, A!Unauthorized, A!Guarded, A!scopeVars
<1>5. CASE A!Submit
  BY <1>5 DEF A!Submit, A!NotAsked, A!scopeVars
<1>6. CASE A!AnswerLogin
  <2>1. CASE UNCHANGED <<cookie, serial, me>>
    BY <1>6, <2>1 DEF A!AnswerLogin, A!Unauthorized, A!NotAsked, A!scopeVars
  <2>2. ASSUME NEW u \in A!Users, serial' = serial + 1,
               cookie' = [user |-> u, n |-> serial + 1], login' = [st |-> "ok", who |-> cookie']
        PROVE  SessionInv'
    <3>1. cookie' \in [user : A!Users, n : Nat]
      BY <2>2
    <3>2. cookie' # NoUser
      BY <3>1, DashAssumption DEF A!SessionAssumption
    <3> QED BY <1>6, <2>2, <3>2 DEF A!AnswerLogin, A!NotAsked, A!scopeVars
  <2> QED BY <1>6, <2>1, <2>2 DEF A!AnswerLogin, A!Unauthorized
<1>7. CASE A!AskForCode \/ A!SessionEnds
  BY <1>7 DEF A!AskForCode, A!SessionEnds, A!scopeVars
<1>8. CASE A!LoggedIn
  BY <1>8 DEF A!LoggedIn, A!NotAsked, A!scopeVars
<1>9. CASE A!Logout \/ A!LoseLogout
  BY <1>9 DEF A!Logout, A!LoseLogout, A!scopeVars
<1>10. CASE A!AnswerLogout
  BY <1>10 DEF A!AnswerLogout, A!scopeVars
<1>11. CASE A!LoggedOut
  <2>1. "focus" \in late' \/ probe["focus"] = A!Idle
    BY <1>11 DEF A!LoggedOut
  <2>2. /\ probe' = [probe EXCEPT !["query"] = A!Idle]
        /\ UNCHANGED <<cookie, serial, dead>> /\ login' = A!NotAsked /\ leaving' = "none"
    BY <1>11 DEF A!LoggedOut, A!SignedOut
  <2>3. probe'["query"] = A!Idle /\ probe'["focus"] = probe["focus"]
        /\ probe' = [a \in A!Askers |-> probe'[a]]
    BY <2>2
  <2>4. A!Idle.st = "idle" /\ A!NotAsked.st = "none"
    BY DEF A!Idle, A!NotAsked
  <2> QED BY <2>1, <2>2, <2>3, <2>4
<1>12. CASE A!ResolveScope
  BY <1>12 DEF A!ResolveScope
<1>13. ASSUME NEW org, A!SetScopeOrg(org) PROVE SessionInv'
  BY <1>13 DEF A!SetScopeOrg
<1>14. ASSUME NEW u, A!OtherTabSignsIn(u) PROVE SessionInv'
  BY <1>14 DEF A!OtherTabSignsIn, A!scopeVars
<1>15. CASE A!Reload
  BY <1>15 DEF A!Reload, A!Sent, A!Idle, A!NotAsked
<1> QED
  BY <1>1, <1>2, <1>3, <1>4, <1>5, <1>6, <1>7, <1>8, <1>9, <1>10, <1>11, <1>12, <1>13, <1>14,
     <1>15
     DEF A!Next

\* What may bring a user back to a tab that shows none.
StepKeepsOut == me = NoUser /\ me' # NoUser => me'.n > dead \/ "focus" \in late

\* No step of the session brings a user back, but those that may.
LEMMA EveryStepKeepsOut ==
    ASSUME SessionInv, [A!Next]_sessionVars
    PROVE  [StepKeepsOut]_sessionVars
<1>1. SUFFICES ASSUME A!Next, me = NoUser, me' # NoUser
               PROVE  me'.n > dead \/ "focus" \in late
  BY DEF StepKeepsOut
<1>2. ASSUME NEW a \in A!Askers, A!Learn(a)
      PROVE  me'.n > dead \/ "focus" \in late
  BY <1>1, <1>2 DEF A!Learn, A!Unauthorized, SessionInv, Alive, Fresh, A!Askers
<1>3. CASE A!LoggedIn
  BY <1>1, <1>3 DEF A!LoggedIn, SessionInv, Alive
<1>4. ASSUME me' # me
      PROVE  (\E a \in A!Askers : A!Learn(a)) \/ A!LoggedIn \/ me' = NoUser
  BY <1>1, <1>4
     DEF A!Next, A!Ask, A!AnswerProbe, A!Submit, A!AnswerLogin, A!Unauthorized, A!AskForCode,
         A!Logout, A!AnswerLogout, A!LoseLogout, A!LoggedOut, A!SignedOut, A!ResolveScope,
         A!SetScopeOrg, A!SessionEnds, A!OtherTabSignsIn, A!Reload
<1> QED BY <1>1, <1>2, <1>3, <1>4

\* After a logout the tab shows a user again only for a session opened since, for any
\* accounts and number of sessions and tabs, however late the answers come; but for the
\* focus probe that was under way (use-auth.tsx).
THEOREM LogoutLasts == DashSpec => LogoutIsFinal
<1>1. DashInit => SessionInv
  <2> SUFFICES ASSUME DashInit PROVE SessionInv
    OBVIOUS
  <2>1. A!Init
    BY DEF DashInit
  <2>2. /\ cookie # NoUser => cookie.n = 1 /\ serial = 1
        /\ serial \in {0, 1} /\ dead = 0 /\ leaving = "none" /\ login.st = "none"
        /\ probe = [a \in A!Askers |-> IF a = "query" THEN A!Sent ELSE A!Idle]
    BY <2>1 DEF A!Init, A!NotAsked
  <2> QED BY <2>2 DEF SessionInv, Alive, Fresh, A!Askers, A!Sent, A!Idle
<1>2. SessionInv /\ [DashNext]_allVars => SessionInv'
  BY SessionKeeps, PartsMove
<1>3. SessionInv /\ [DashNext]_allVars => [StepKeepsOut]_sessionVars
  BY EveryStepKeepsOut, PartsMove
<1>4. LogoutIsFinal <=> [][StepKeepsOut]_sessionVars
  BY DEF LogoutIsFinal, A!LogoutIsFinal, StepKeepsOut, sessionVars, A!vars, A!scopeVars
<1> QED BY <1>1, <1>2, <1>3, <1>4, PTL DEF DashSpec

-----------------------------------------------------------------------------
(***************************************************************************)
(* Laying a cable.                                                         *)
(***************************************************************************)
Snapped == Pins \cup {None}
Sequence(s) == \E values : s \in Seq(values)

\* A trace, and the form over it, end at pins or on open ground.
TraceEnds ==
    trace # None => /\ DOMAIN trace = {"cable", "endA", "endB", "points"}
                    /\ trace.endA \in Snapped /\ trace.endB \in Snapped
FormEnds ==
    form # None => /\ DOMAIN form = {"path", "ends", "near"}
                   /\ form.ends \in [1..2 -> Snapped] /\ form.near \in [1..2 -> Snapped]

\* What is on record: a cable's closures are there.
Laid ==
    /\ Sequence(closures) /\ Sequence(cables)
    /\ \A c \in DOMAIN cables :
          /\ DOMAIN cables[c] = {"ends", "path"}
          /\ \A j \in 1..2 : cables[c].ends[j] \in Nat => cables[c].ends[j] <= Len(closures)

\* A closure no cable ends at yet; one that also stands where its line ends.
Unused(n) ==
    /\ n \in 1..Len(closures)
    /\ \A c \in DOMAIN cables, j \in 1..2 : cables[c].ends[j] # n
Stands(i) ==
    cableCall.ends[i] \in Nat =>
        /\ Unused(cableCall.ends[i])
        /\ closures[cableCall.ends[i]] = C!EndOf(cableCall.path, i)

\* How far a save has come, by its step.
SaveStands ==
    /\ DOMAIN cableCall = {"cable", "step", "path", "ends"}
    /\ cableCall.step \in {"a", "aAt", "b", "bAt", "cable", "path"}
    /\ cableCall.step # "path" => DOMAIN cableCall.ends = 1..2
    /\ cableCall.step = "a" => cableCall.ends[1] \notin Nat
    /\ cableCall.step = "aAt" => Unused(cableCall.ends[1])
    /\ cableCall.step \in {"a", "aAt", "b"} => cableCall.ends[2] \notin Nat
    /\ cableCall.step \in {"b", "bAt", "cable"} => Stands(1)
    /\ cableCall.step = "bAt" =>
          Unused(cableCall.ends[2]) /\ cableCall.ends[2] # cableCall.ends[1]
    /\ cableCall.step = "cable" => Stands(2)

\* The inductive invariant of the cables.
CableInv == TraceEnds /\ FormEnds /\ Laid /\ (cableCall # None => SaveStands)

\* A sequence with one more value.
LEMMA OneMore ==
    ASSUME NEW s, Sequence(s), NEW e
    PROVE  /\ Sequence(Append(s, e)) /\ Len(s) \in Nat /\ Len(Append(s, e)) = Len(s) + 1
           /\ DOMAIN s = 1..Len(s) /\ DOMAIN Append(s, e) = 1..(Len(s) + 1)
           /\ \A i \in 1..Len(s) : Append(s, e)[i] = s[i]
           /\ Append(s, e)[Len(s) + 1] = e
<1>1. PICK values : s \in Seq(values)
  BY DEF Sequence
<1> DEFINE wider == values \cup {e}
<1>2. s \in Seq(wider)
  BY <1>1
<1>3. e \in wider
  OBVIOUS
<1> HIDE DEF wider
<1>4. Append(s, e) \in Seq(wider)
  BY <1>2, <1>3
<1>5. Sequence(Append(s, e))
  BY <1>4 DEF Sequence
<1> QED BY <1>2, <1>3, <1>4, <1>5

\* A sequence one value of which is replaced.
LEMMA OneOther ==
    ASSUME NEW s, Sequence(s), NEW k, NEW e
    PROVE  /\ Sequence([s EXCEPT ![k] = e]) /\ Len([s EXCEPT ![k] = e]) = Len(s)
           /\ DOMAIN [s EXCEPT ![k] = e] = DOMAIN s /\ DOMAIN s = 1..Len(s)
           /\ \A i \in DOMAIN s : [s EXCEPT ![k] = e][i] = IF i = k THEN e ELSE s[i]
<1>1. PICK values : s \in Seq(values)
  BY DEF Sequence
<1> DEFINE wider == values \cup {e}
           new == [s EXCEPT ![k] = e]
<1>2. s \in Seq(wider) /\ e \in wider
  BY <1>1
<1>3. new = [i \in 1..Len(s) |-> IF i = k THEN e ELSE s[i]] /\ Len(s) \in Nat
  BY <1>1
<1> HIDE DEF wider, new
<1>4. new \in [1..Len(s) -> wider]
  BY <1>2, <1>3
<1>5. new \in Seq(wider) /\ Len(new) = Len(s)
  BY <1>3, <1>4
<1>6. Sequence(new)
  BY <1>5 DEF Sequence
<1> QED BY <1>2, <1>5, <1>6, <1>3 DEF new

\* Tracing, naming and landing.
LEMMA TraceKeeps ==
    ASSUME CableInv, [C!Next]_cableVars
    PROVE  TraceEnds' /\ FormEnds'
<1> DEFINE Goal == TraceEnds' /\ FormEnds'
<1>1. ASSUME trace' \in {trace, None}, form' \in {form, None} PROVE Goal
  BY <1>1 DEF CableInv, TraceEnds, FormEnds
<1>2. CASE UNCHANGED cableVars
  BY <1>1, <1>2 DEF cableVars
<1>3. CASE C!Leave \/ C!CloseForm \/ C!SaveForm \/ C!Retrace \/ C!Create \/ C!PutIt
           \/ C!Record \/ C!SetPath \/ C!Fails
  BY <1>1, <1>3
     DEF C!Leave, C!CloseForm, C!SaveForm, C!Retrace, C!Create, C!PutIt, C!Record, C!SetPath,
         C!Fails
<1>4. ASSUME NEW c, C!Begin(c) PROVE Goal
  BY <1>4 DEF C!Begin, CableInv, TraceEnds, FormEnds, Snapped
<1>5. ASSUME NEW s, C!Click(s) PROVE Goal
  <2> DEFINE points == Append(trace.points, s)
             a == IF trace.points = <<>> THEN C!snapToPoint(s) ELSE trace.endA
             b == IF trace.points = <<>> THEN trace.endB ELSE C!snapToPoint(s)
  <2>1. trace' = [trace EXCEPT !.points = points, !.endA = a, !.endB = b]
        /\ UNCHANGED form /\ trace # None
    BY <1>5 DEF C!Click, C!Tracing
  <2>2. a \in Snapped /\ b \in Snapped
    BY <2>1 DEF C!snapToPoint, CableInv, TraceEnds, Snapped
  <2> HIDE DEF points, a, b
  <2>3. TraceEnds'
    BY <2>1, <2>2 DEF CableInv, TraceEnds
  <2> QED BY <2>1, <2>3 DEF CableInv, FormEnds
<1>6. ASSUME NEW v, trace # None, trace' = [trace EXCEPT !.points = v], UNCHANGED form
      PROVE  Goal
  BY <1>6 DEF CableInv, TraceEnds, FormEnds
<1>7. ASSUME NEW i, NEW s, C!Drag(i, s) PROVE Goal
  <2>1. trace' = [trace EXCEPT !.points = [trace.points EXCEPT ![i] = s]]
        /\ trace # None /\ UNCHANGED form
    BY <1>7 DEF C!Drag, C!Tracing
  <2> QED BY <1>6, <2>1
<1>8. ASSUME NEW i, C!RemoveVertex(i) PROVE Goal
  BY <1>6, <1>8 DEF C!RemoveVertex, C!Tracing
<1>9. CASE C!Straighten
  BY <1>6, <1>9 DEF C!Straighten, C!Tracing
<1>10. CASE C!NameIt
  <2>1. C!Point \in Pins
    BY DashAssumption DEF C!CableAssumption, C!Point
  <2>2. /\ trace.endA \in Snapped /\ trace.endB \in Snapped
        /\ \A e, s : C!nearMiss(e, s) \in Snapped
    BY <1>10, <2>1 DEF C!NameIt, C!Tracing, C!nearMiss, CableInv, TraceEnds, Snapped
  <2>3. PICK s, e :
           form' = [path |-> trace.points, ends |-> <<trace.endA, trace.endB>>,
                    near |-> <<C!nearMiss(trace.endA, s), C!nearMiss(trace.endB, e)>>]
           /\ UNCHANGED trace
    BY <1>10 DEF C!NameIt
  <2>4. FormEnds'
    BY <2>2, <2>3 DEF FormEnds
  <2> QED BY <2>3, <2>4 DEF CableInv, TraceEnds
<1>11. ASSUME NEW i \in 1..2, C!Land(i) PROVE Goal
  <2> DEFINE ends == [form.ends EXCEPT ![i] = form.near[i]]
             near == [form.near EXCEPT ![i] = None]
  <2>1. form' = [form EXCEPT !.ends = ends, !.near = near] /\ form # None /\ UNCHANGED trace
    BY <1>11 DEF C!Land, CableInv, FormEnds
  <2>2. ends \in [1..2 -> Snapped] /\ near \in [1..2 -> Snapped]
    BY <2>1 DEF CableInv, FormEnds, Snapped
  <2> HIDE DEF ends, near
  <2>3. FormEnds'
    BY <2>1, <2>2 DEF CableInv, FormEnds
  <2> QED BY <2>1, <2>3 DEF CableInv, TraceEnds
<1> QED
  BY <1>2, <1>3, <1>4, <1>5, <1>7, <1>8, <1>9, <1>10, <1>11 DEF C!Next

\* An end at a pin, or on open ground, is not a closure's number.
LEMMA SnappedIsNoClosure == \A e \in Snapped : e \notin Nat
BY DashAssumption DEF C!CableAssumption, Snapped

\* The save goes on while what is on record stays.
LEMMA SaveWaits ==
    ASSUME CableInv, UNCHANGED <<closures, cables>>, cableCall' \in {cableCall, None}
    PROVE  Laid' /\ (cableCall' # None => SaveStands')
<1>1. Laid'
  BY DEF CableInv, Laid, Sequence
<1>2. cableCall' # None => cableCall' = cableCall
  OBVIOUS
<1>3. cableCall' = cableCall /\ SaveStands => SaveStands'
  BY DEF SaveStands, Stands, Unused, C!EndOf
<1> QED BY <1>1, <1>2, <1>3 DEF CableInv

\* A closure is made for an end on open ground.
LEMMA CreateKeeps ==
    ASSUME CableInv, C!Create
    PROVE  Laid' /\ SaveStands'
<1>0. PICK i \in 1..2, n \in {Len(closures) + 1} :
         i = (IF cableCall.step = "a" THEN 1 ELSE 2)
  OBVIOUS
<1>1. C!Side = i /\ cableCall # None /\ cableCall.step \in {"a", "b"} /\ UNCHANGED cables
      /\ SaveStands
  BY <1>0 DEF C!Create, C!Side, CableInv
<1>2. CASE cableCall.ends[i] = None
  <2>0. PICK ends, step : ends = [cableCall.ends EXCEPT ![i] = n]
                          /\ step = (IF i = 1 THEN "aAt" ELSE "bAt")
    OBVIOUS
  <2>1. /\ closures' = Append(closures, None)
        /\ cableCall' = [cableCall EXCEPT !.ends = ends, !.step = step]
    BY <1>0, <1>1, <1>2, <2>0 DEF C!Create, SaveStands
  <2>2. /\ Sequence(closures') /\ Len(closures) \in Nat /\ Len(closures') = n
        /\ \A k \in 1..Len(closures) : closures'[k] = closures[k]
    BY <1>0, <2>1, OneMore DEF CableInv, Laid
  <2>3. Laid'
    BY <1>0, <1>1, <2>2 DEF CableInv, Laid, Sequence
  <2>4. \A c \in DOMAIN cables, j \in 1..2 : cables[c].ends[j] # n
    BY <1>0, <2>2 DEF CableInv, Laid
  <2>5. /\ DOMAIN cableCall' = {"cable", "step", "path", "ends"}
        /\ cableCall'.step = step /\ cableCall'.path = cableCall.path
        /\ cableCall'.ends = ends
    BY <1>1, <2>1 DEF SaveStands
  <2>6. DOMAIN ends = 1..2 /\ ends[i] = n /\ \A j \in 1..2 : j # i => ends[j] = cableCall.ends[j]
    BY <1>1, <2>0 DEF SaveStands
  <2>7. \A m : Unused(m) => Unused(m)' /\ closures'[m] = closures[m] /\ m # n
    BY <1>0, <1>1, <2>2 DEF Unused
  <2>8. Unused(n)'
    BY <1>0, <1>1, <2>2, <2>4 DEF Unused
  <2>9. Stands(1) /\ i = 2 => Stands(1)' /\ ends[1] # n
    BY <2>2, <2>5, <2>6, <2>7 DEF Stands, C!EndOf
  <2> QED
    BY <1>0, <1>1, <2>0, <2>3, <2>5, <2>6, <2>8, <2>9 DEF SaveStands
<1>3. CASE cableCall.ends[i] # None
  <2>1. /\ UNCHANGED closures
        /\ cableCall' = [cableCall EXCEPT !.step = IF i = 1 THEN "b" ELSE "cable"]
    BY <1>1, <1>3 DEF C!Create
  <2>2. /\ DOMAIN cableCall' = {"cable", "step", "path", "ends"}
        /\ cableCall'.step = (IF i = 1 THEN "b" ELSE "cable")
        /\ cableCall'.path = cableCall.path /\ cableCall'.ends = cableCall.ends
    BY <1>1, <2>1 DEF SaveStands
  <2>3. Laid' /\ (Stands(1) => Stands(1)')
    BY <1>1, <2>1, <2>2 DEF CableInv, Laid, Sequence, Stands, Unused, C!EndOf
  <2>4. cableCall.ends[i] \notin Nat => Stands(i)'
    BY <2>2 DEF Stands
  <2> QED BY <1>0, <1>1, <2>2, <2>3, <2>4 DEF SaveStands
<1> QED BY <1>2, <1>3

\* It is put where the line ends.
LEMMA PutKeeps ==
    ASSUME CableInv, C!PutIt
    PROVE  Laid' /\ SaveStands'
<1>0. PICK i \in 1..2, n \in {cableCall.ends[IF cableCall.step = "aAt" THEN 1 ELSE 2]} :
         i = (IF cableCall.step = "aAt" THEN 1 ELSE 2)
  OBVIOUS
<1>1. /\ C!Side = i /\ cableCall # None /\ cableCall.step \in {"aAt", "bAt"}
      /\ n = cableCall.ends[i] /\ UNCHANGED cables /\ SaveStands
  BY <1>0 DEF C!PutIt, C!Side, CableInv
<1>2. /\ closures' = [closures EXCEPT ![n] = C!EndOf(cableCall.path, i)]
      /\ cableCall' = [cableCall EXCEPT !.step = IF i = 1 THEN "b" ELSE "cable"]
  BY <1>1 DEF C!PutIt
<1>3. /\ Sequence(closures') /\ Len(closures') = Len(closures)
      /\ DOMAIN closures = 1..Len(closures)
      /\ \A k \in DOMAIN closures :
            closures'[k] = IF k = n THEN C!EndOf(cableCall.path, i) ELSE closures[k]
  <2> DEFINE e == C!EndOf(cableCall.path, i)
  <2>1. closures' = [closures EXCEPT ![n] = e] /\ Sequence(closures)
    BY <1>2 DEF CableInv, Laid
  <2> HIDE DEF e
  <2>2. /\ Sequence(closures') /\ Len(closures') = Len(closures)
        /\ DOMAIN closures = 1..Len(closures)
        /\ \A k \in DOMAIN closures : closures'[k] = IF k = n THEN e ELSE closures[k]
    BY <2>1, OneOther
  <2> QED BY <2>2 DEF e
<1>4. /\ DOMAIN cableCall' = {"cable", "step", "path", "ends"}
      /\ cableCall'.step = (IF i = 1 THEN "b" ELSE "cable")
      /\ cableCall'.path = cableCall.path /\ cableCall'.ends = cableCall.ends
  BY <1>1, <1>2 DEF SaveStands
<1>5. Laid'
  BY <1>1, <1>3 DEF CableInv, Laid, Sequence
<1>6. Unused(n)
  BY <1>0, <1>1 DEF SaveStands
<1>7. \A m : Unused(m) => Unused(m)'
  BY <1>1, <1>3 DEF Unused
<1>8. cableCall'.ends[i] = n /\ closures'[n] = C!EndOf(cableCall'.path, i)
  BY <1>1, <1>3, <1>4, <1>6 DEF Unused
<1>9. Stands(1) /\ i = 2 => Stands(1)'
  BY <1>0, <1>1, <1>3, <1>4, <1>7 DEF Stands, SaveStands, Unused, C!EndOf
<1>10. Unused(n)'
  BY <1>6, <1>7
<1>11. CASE i = 1
  <2>1. Stands(1)'
    BY <1>8, <1>10, <1>11 DEF Stands, C!EndOf
  <2> QED BY <1>0, <1>1, <1>4, <1>5, <1>11, <2>1 DEF SaveStands
<1>12. CASE i = 2
  <2>1. Stands(2)'
    BY <1>8, <1>10, <1>12 DEF Stands, C!EndOf
  <2> QED BY <1>0, <1>1, <1>4, <1>5, <1>9, <1>12, <2>1 DEF SaveStands
<1> QED BY <1>11, <1>12

\* The cable is recorded, then its path.
LEMMA RecordKeepsCables ==
    ASSUME CableInv, C!Record
    PROVE  Laid' /\ SaveStands'
<1> DEFINE row == [ends |-> cableCall.ends, path |-> <<>>]
<1>1. /\ cableCall.step = "cable" /\ cableCall # None /\ UNCHANGED closures
      /\ cables' = Append(cables, row) /\ SaveStands
      /\ cableCall' = [cableCall EXCEPT !.step = "path", !.cable = Len(cables) + 1]
  BY DEF C!Record, CableInv
<1>2. /\ Sequence(cables') /\ Len(cables) \in Nat
      /\ DOMAIN cables = 1..Len(cables) /\ DOMAIN cables' = 1..(Len(cables) + 1)
      /\ \A c \in DOMAIN cables : cables'[c] = cables[c]
      /\ cables'[Len(cables) + 1] = row
  <2> HIDE DEF row
  <2> QED BY <1>1, OneMore DEF CableInv, Laid
<1>3. DOMAIN row = {"ends", "path"} /\ row.ends = cableCall.ends
  OBVIOUS
<1>4. \A j \in 1..2 : cableCall.ends[j] \in Nat => cableCall.ends[j] <= Len(closures)
  BY <1>1 DEF SaveStands, Stands, Unused
<1> HIDE DEF row
<1>5. Laid'
  BY <1>1, <1>2, <1>3, <1>4 DEF CableInv, Laid, Sequence
<1>6. SaveStands'
  BY <1>1 DEF SaveStands
<1> QED BY <1>5, <1>6

\* Every other step of a save, and what begins one.
LEMMA SaveGoesOn ==
    ASSUME CableInv, [C!Next]_cableVars
    PROVE  Laid' /\ (cableCall' # None => SaveStands')
<1>1. CASE UNCHANGED cableVars
  BY <1>1, SaveWaits DEF cableVars
<1>2. CASE C!Straighten \/ C!Leave \/ C!NameIt \/ C!CloseForm \/ C!Fails
  BY <1>2, SaveWaits DEF C!Straighten, C!Leave, C!NameIt, C!CloseForm, C!Fails
<1>3. ASSUME NEW c, NEW s, NEW i,
             C!Begin(c) \/ C!Click(s) \/ C!Drag(i, s) \/ C!RemoveVertex(i) \/ C!Land(i)
      PROVE  Laid' /\ (cableCall' # None => SaveStands')
  BY <1>3, SaveWaits DEF C!Begin, C!Click, C!Drag, C!RemoveVertex, C!Land
<1>4. CASE C!SaveForm \/ C!Retrace
  <2>1. UNCHANGED <<closures, cables>>
    BY <1>4 DEF C!SaveForm, C!Retrace
  <2>2. Laid'
    BY <2>1 DEF CableInv, Laid, Sequence
  <2>3. CASE C!SaveForm
    <3>1. cableCall' = [cable |-> 0, step |-> "a", path |-> form.path, ends |-> form.ends]
          /\ form.ends \in [1..2 -> Snapped]
      BY <2>3 DEF C!SaveForm, CableInv, FormEnds
    <3> QED BY <2>2, <3>1, SnappedIsNoClosure DEF SaveStands
  <2>4. CASE C!Retrace
    BY <2>2, <2>4 DEF C!Retrace, SaveStands
  <2> QED BY <1>4, <2>3, <2>4
<1>5. CASE C!SetPath
  <2>1. /\ cables' = [cables EXCEPT ![cableCall.cable].path = cableCall.path]
        /\ cableCall' = None /\ UNCHANGED closures
    BY <1>5 DEF C!SetPath
  <2> DEFINE k == cableCall.cable
             new == [cables[k] EXCEPT !.path = cableCall.path]
  <2>2. cables' = [cables EXCEPT ![k] = new]
    BY <2>1
  <2>3. k \in DOMAIN cables => DOMAIN new = {"ends", "path"} /\ new.ends = cables[k].ends
    BY DEF CableInv, Laid
  <2> HIDE DEF k, new
  <2>4. /\ Sequence(cables') /\ DOMAIN cables' = DOMAIN cables
        /\ \A c \in DOMAIN cables : cables'[c] = IF c = k THEN new ELSE cables[c]
    BY <2>2, OneOther DEF CableInv, Laid
  <2>5. Laid'
    BY <2>1, <2>3, <2>4 DEF CableInv, Laid, Sequence
  <2> QED BY <2>1, <2>5
<1> QED
  BY <1>1, <1>2, <1>3, <1>4, <1>5, CreateKeeps, PutKeeps, RecordKeepsCables DEF C!Next

\* Where the closures of a new cable stand.
StepStands ==
    \A c \in DOMAIN cables' : c \notin DOMAIN cables =>
       \A i \in 1..2 : cables'[c].ends[i] \in Nat =>
          /\ closures[cables'[c].ends[i]] = C!EndOf(cableCall.path, i)
          /\ \A d \in DOMAIN cables, j \in 1..2 : cables[d].ends[j] # cables'[c].ends[i]

\* A step that adds a cable finds its closures in place.
LEMMA EveryStepStands ==
    ASSUME CableInv, [C!Next]_cableVars
    PROVE  [StepStands]_(C!vars)
<1>1. CASE DOMAIN cables' = DOMAIN cables
  BY <1>1 DEF StepStands
<1>2. CASE C!Record
  <2>1. /\ SaveStands /\ cableCall.step = "cable"
        /\ cables' = Append(cables, [ends |-> cableCall.ends, path |-> <<>>])
    BY <1>2 DEF C!Record, CableInv
  <2>2. \A c \in DOMAIN cables' : c \notin DOMAIN cables =>
           cables'[c].ends = cableCall.ends
    BY <2>1, OneMore DEF CableInv, Laid
  <2>3. \A i \in 1..2 : cableCall.ends[i] \in Nat =>
           /\ closures[cableCall.ends[i]] = C!EndOf(cableCall.path, i)
           /\ \A d \in DOMAIN cables, j \in 1..2 : cables[d].ends[j] # cableCall.ends[i]
    BY <2>1 DEF SaveStands, Stands, Unused
  <2> QED BY <2>2, <2>3 DEF StepStands
<1>3. CASE C!SetPath
  BY <1>1, <1>3 DEF C!SetPath
<1>4. CASE UNCHANGED cables
  BY <1>1, <1>4
<1>5. C!Next => C!Record \/ C!SetPath \/ UNCHANGED cables
  BY DEF C!Next, C!Begin, C!Click, C!Drag, C!RemoveVertex, C!Straighten, C!Leave, C!NameIt,
         C!CloseForm, C!SaveForm, C!Retrace, C!Land, C!Create, C!PutIt, C!Fails
<1>6. UNCHANGED cableVars => UNCHANGED cables
  BY DEF cableVars
<1> QED BY <1>2, <1>3, <1>4, <1>5, <1>6

\* A closure made for an end on open ground stands where the line ends, and is no other
\* cable's, for any pins, points and cables, whatever was dragged, undone or tried before
\* (map-page.tsx coupler).
THEOREM ClosuresStand == DashSpec => ClosuresStandAtTheEnds
<1>1. DashInit => CableInv
  <2> SUFFICES ASSUME DashInit PROVE CableInv
    OBVIOUS
  <2>1. /\ trace = None /\ form = None /\ cableCall = None /\ closures = <<>>
        /\ cables = <<>>
    BY DEF DashInit, C!Init
  <2>2. Sequence(<<>>)
    <3>1. <<>> \in Seq({})
      OBVIOUS
    <3> QED BY <3>1 DEF Sequence
  <2> QED BY <2>1, <2>2 DEF CableInv, TraceEnds, FormEnds, Laid
<1>2. CableInv /\ [DashNext]_allVars => CableInv'
  BY TraceKeeps, SaveGoesOn, PartsMove DEF CableInv
<1>3. CableInv /\ [DashNext]_allVars => [StepStands]_(C!vars)
  BY EveryStepStands, PartsMove
<1>4. ClosuresStandAtTheEnds <=> [][StepStands]_(C!vars)
  BY DEF ClosuresStandAtTheEnds, C!ClosuresStandAtTheEnds, StepStands, C!vars, C!trip
<1> QED BY <1>1, <1>2, <1>3, <1>4, PTL DEF DashSpec

-----------------------------------------------------------------------------
(***************************************************************************)
(* The network page.  What a step by step definition comes to is shown by  *)
(* its least counterexample: the least number of steps after which it      *)
(* would fail, or the device with the least above it.                      *)
(***************************************************************************)
\* The tree moves by its own steps, and only when it is its turn.
LEMMA TreeMovesAlone ==
    ASSUME [DashNext]_allVars
    PROVE  part' = part /\ (part = "tree" => [N!Next]_treeVars)
BY DEF DashNext, allVars, TabMoves, SessionMoves, MapMoves, CableMoves, TreeMoves, FormMoves,
       SplitMoves, treeVars

-----------------------------------------------------------------------------
\* Cardinality and finiteness are the same word in every module.
LEMMA SameWords ==
    /\ \A set : N!Cardinality(set) = Cardinality(set)
    /\ N!IsFiniteSet(Listed) = IsFiniteSet(Listed)
<1>1. ASSUME NEW set PROVE N!Cardinality(set) = Cardinality(set)
  BY DEF N!Cardinality, Cardinality
<1>2. N!IsFiniteSet(Listed) = IsFiniteSet(Listed)
  BY DEF N!IsFiniteSet, IsFiniteSet
<1> QED BY <1>1, <1>2

LEMMA FewListed ==
    IsFiniteSet(Listed) /\ None \notin Listed /\ Cardinality(Listed) \in Nat
BY DashAssumption, SameWords, FS_CardinalityType DEF N!TreeAssumption

LEMMA LeastExists ==
    ASSUME NEW set \in SUBSET Nat, set # {}
    PROVE  \E m \in set : \A k \in set : m <= k
<1> DEFINE R == StrictSubsetOrdering(Nat)
           cuts == {0..k : k \in set}
<1>1. IsWellFoundedOn(R, FiniteSubsetsOf(Nat))
  BY FS_StrictSubsetOrderingWellFounded
<1>2. cuts \subseteq FiniteSubsetsOf(Nat) /\ cuts # {}
  <2>1. ASSUME NEW k \in set PROVE 0..k \in SUBSET Nat /\ IsFiniteSet(0..k)
    BY FS_Interval
  <2> QED BY <2>1 DEF FiniteSubsetsOf
<1> HIDE DEF R
<1>3. PICK x \in cuts : \A y \in cuts : ~(<<y, x>> \in R)
  <2> HIDE DEF cuts
  <2> QED BY <1>1, <1>2, WFMin
<1>4. PICK m \in set : x = 0..m
  OBVIOUS
<1>5. ASSUME NEW k \in set PROVE m <= k
  <2> SUFFICES ASSUME k < m PROVE FALSE
    OBVIOUS
  <2>1. 0..k \subseteq 0..m /\ 0..k # 0..m
    OBVIOUS
  <2>2. <<0..k, 0..m>> \in R
    BY <2>1 DEF R, StrictSubsetOrdering
  <2>3. 0..k \in cuts
    OBVIOUS
  <2> QED BY <1>3, <1>4, <2>2, <2>3
<1> QED BY <1>5

\* Induction up to a bound, by the least counterexample.
LEMMA UpToBound ==
    ASSUME NEW bound \in Nat, NEW good \in SUBSET (0..bound),
           0 \in good, \A n \in 0..bound : n > 0 /\ n - 1 \in good => n \in good
    PROVE  good = 0..bound
<1> DEFINE bad == (0..bound) \ good
<1> SUFFICES ASSUME bad # {} PROVE FALSE
  OBVIOUS
<1>1. bad \in SUBSET Nat
  OBVIOUS
<1>2. PICK m \in bad : \A k \in bad : m <= k
  <2> HIDE DEF bad
  <2> QED BY <1>1, LeastExists
<1>3. m \in 0..bound /\ m # 0 /\ m \notin good
  OBVIOUS
<1>4. m - 1 \in 0..bound /\ ~(m <= m - 1) /\ m > 0
  BY <1>3
<1>5. m - 1 \in good
  BY <1>2, <1>4
<1> QED BY <1>3, <1>4, <1>5

-----------------------------------------------------------------------------
\* Steps by which a set grows within a finite one, and what they come to: after as
\* many steps as the whole has elements, the least set that they do not lead out of.
Stepping(whole, bound, first, step) ==
    /\ IsFiniteSet(whole) /\ bound = Cardinality(whole) /\ bound \in Nat
    /\ first \in SUBSET whole /\ step \in [SUBSET whole -> SUBSET whole]
    /\ \A set \in SUBSET whole : set \subseteq step[set]

Grown(whole, bound, first, step, g) ==
    /\ g \in [0..bound -> SUBSET whole] /\ g[0] = first
    /\ \A n \in 1..bound : g[n] = step[g[n - 1]]

Least(whole, first, step, last) ==
    /\ last \in SUBSET whole /\ first \subseteq last /\ step[last] = last
    /\ \A goal \in SUBSET whole :
          first \subseteq goal /\ (\A set \in SUBSET goal : step[set] \subseteq goal)
             => last \subseteq goal

\* A function of numbers that is defined step by step exists.
LEMMA StepsExist ==
    ASSUME NEW whole, NEW bound, NEW first, NEW step, Stepping(whole, bound, first, step)
    PROVE  \E g : Grown(whole, bound, first, step, g)
<1> USE DEF Stepping
<1> DEFINE Upto(g, k) == /\ g \in [0..k -> SUBSET whole] /\ g[0] = first
                         /\ \A n \in 1..k : g[n] = step[g[n - 1]]
           good == {k \in 0..bound : \E g : Upto(g, k)}
<1>1. 0 \in good
  <2> DEFINE h == [n \in 0..0 |-> first]
  <2>1. h \in [0..0 -> SUBSET whole] /\ h[0] = first
    OBVIOUS
  <2>2. \A n \in 1..0 : h[n] = step[h[n - 1]]
    OBVIOUS
  <2>3. Upto(h, 0)
    <3> HIDE DEF h
    <3> QED BY <2>1, <2>2
  <2>4. 0 \in 0..bound
    OBVIOUS
  <2> HIDE DEF h, Upto
  <2> QED BY <2>3, <2>4
<1>2. ASSUME NEW n \in 0..bound, n > 0, n - 1 \in good PROVE n \in good
  <2>1. PICK g : Upto(g, n - 1)
    BY <1>2
  <2> DEFINE h == [k \in 0..n |-> IF k = n THEN step[g[n - 1]] ELSE g[k]]
  <2>2. n - 1 \in 0..(n - 1) /\ \A k \in 0..n : k = n \/ k \in 0..(n - 1)
    BY <1>2
  <2>3. g[n - 1] \in SUBSET whole
    BY <2>1, <2>2
  <2>4. h \in [0..n -> SUBSET whole]
    BY <2>1, <2>2, <2>3
  <2>5. h[0] = first
    BY <1>2, <2>1
  <2>6. ASSUME NEW k \in 1..n PROVE h[k] = step[h[k - 1]]
    <3>1. k - 1 \in 0..n /\ k - 1 # n /\ k \in 0..n
      OBVIOUS
    <3>2. h[k - 1] = g[k - 1]
      BY <3>1
    <3>3. CASE k = n
      BY <3>1, <3>2, <3>3
    <3>4. CASE k # n
      <4>1. k \in 1..(n - 1)
        BY <3>4
      <4> QED BY <2>1, <3>1, <3>2, <3>4, <4>1
    <3> QED BY <3>3, <3>4
  <2>7. Upto(h, n)
    BY <2>4, <2>5, <2>6
  <2> QED BY <2>7
<1>3. good = 0..bound
  <2> HIDE DEF good
  <2>1. good \in SUBSET (0..bound)
    BY DEF good
  <2> QED BY <1>1, <1>2, <2>1, UpToBound
<1>4. PICK g : Upto(g, bound)
  <2>1. bound \in good
    BY <1>3
  <2> QED BY <2>1
<1> QED BY <1>4 DEF Grown

\* A set that grows step by step within a finite one has stopped growing after as many
\* steps as that has elements, and is then the least that the steps lead to.
LEMMA GrowthStops ==
    ASSUME NEW whole, NEW bound, NEW first, NEW step, Stepping(whole, bound, first, step),
           NEW g, Grown(whole, bound, first, step, g)
    PROVE  Least(whole, first, step, g[bound])
<1> USE DEF Stepping, Grown
<1>1. bound \in Nat
  OBVIOUS
<1>2. first \subseteq g[bound]
  <2> DEFINE good == {n \in 0..bound : first \subseteq g[n]}
  <2>1. 0 \in good
    BY <1>1
  <2>2. ASSUME NEW n \in 0..bound, n > 0, n - 1 \in good PROVE n \in good
    <3>1. n \in 1..bound /\ n - 1 \in 0..bound
      BY <1>1, <2>2
    <3>2. g[n - 1] \in SUBSET whole /\ g[n] = step[g[n - 1]]
      BY <3>1
    <3> QED BY <2>2, <3>2
  <2>3. good = 0..bound
    <3> HIDE DEF good
    <3>1. good \in SUBSET (0..bound)
      BY DEF good
    <3> QED BY <1>1, <2>1, <2>2, <3>1, UpToBound
  <2> QED BY <1>1, <2>3
<1>3. ASSUME NEW goal \in SUBSET whole, first \subseteq goal,
             \A set \in SUBSET goal : step[set] \subseteq goal
      PROVE  g[bound] \subseteq goal
  <2> DEFINE good == {n \in 0..bound : g[n] \subseteq goal}
  <2>1. 0 \in good
    BY <1>1, <1>3
  <2>2. ASSUME NEW n \in 0..bound, n > 0, n - 1 \in good PROVE n \in good
    <3>1. n \in 1..bound /\ n - 1 \in 0..bound
      BY <1>1, <2>2
    <3>2. g[n - 1] \in SUBSET goal /\ g[n] = step[g[n - 1]]
      BY <2>2, <3>1
    <3> QED BY <1>3, <2>2, <3>2
  <2>3. good = 0..bound
    <3> HIDE DEF good
    <3>1. good \in SUBSET (0..bound)
      BY DEF good
    <3> QED BY <1>1, <2>1, <2>2, <3>1, UpToBound
  <2> QED BY <1>1, <2>3
<1>4. step[g[bound]] = g[bound]
  <2> SUFFICES ASSUME step[g[bound]] # g[bound] PROVE FALSE
    OBVIOUS
  \* Then it has grown in every step,
  <2>1. \A n \in 0..bound : step[g[n]] # g[n]
    <3> SUFFICES ASSUME NEW k \in 0..bound, step[g[k]] = g[k] PROVE FALSE
      OBVIOUS
    <3> DEFINE good == {n \in 0..bound : n < k \/ g[n] = g[k]}
    <3>1. 0 \in good
      BY <1>1
    <3>2. ASSUME NEW n \in 0..bound, n > 0, n - 1 \in good PROVE n \in good
      <4>1. n \in 1..bound /\ n - 1 \in 0..bound
        BY <1>1, <3>2
      <4>2. g[n] = step[g[n - 1]]
        BY <4>1
      <4>3. n < k \/ n = k \/ g[n - 1] = g[k]
        BY <3>2, <4>1
      <4> QED BY <4>2, <4>3
    <3>3. good = 0..bound
      <4> HIDE DEF good
      <4>1. good \in SUBSET (0..bound)
        BY DEF good
      <4> QED BY <1>1, <3>1, <3>2, <4>1, UpToBound
    <3>4. bound \in good
      BY <1>1, <3>3
    <3>5. g[bound] = g[k]
      BY <1>1, <3>4
    <3> QED BY <3>5
  \* and has more elements than there are.
  <2>2. ASSUME NEW n \in 0..bound
        PROVE  /\ IsFiniteSet(g[n]) /\ IsFiniteSet(step[g[n]])
               /\ Cardinality(g[n]) \in Nat /\ Cardinality(step[g[n]]) \in Nat
               /\ Cardinality(step[g[n]]) > Cardinality(g[n])
    <3>1. g[n] \in SUBSET whole /\ step[g[n]] \in SUBSET whole /\ g[n] \subseteq step[g[n]]
      OBVIOUS
    <3>2. IsFiniteSet(g[n]) /\ IsFiniteSet(step[g[n]])
      BY <3>1, FS_Subset
    <3>3. Cardinality(g[n]) \in Nat /\ Cardinality(step[g[n]]) \in Nat
      BY <3>2, FS_CardinalityType
    <3>4. Cardinality(g[n]) <= Cardinality(step[g[n]])
          /\ (Cardinality(g[n]) = Cardinality(step[g[n]]) => g[n] = step[g[n]])
      BY <3>1, <3>2, FS_Subset
    <3>5. step[g[n]] # g[n]
      BY <2>1
    <3> QED BY <3>2, <3>3, <3>4, <3>5
  <2> DEFINE good == {n \in 0..bound : Cardinality(g[n]) >= n}
  <2>3. 0 \in good
    BY <1>1, <2>2
  <2>4. ASSUME NEW n \in 0..bound, n > 0, n - 1 \in good PROVE n \in good
    <3>1. n \in 1..bound /\ n - 1 \in 0..bound
      BY <1>1, <2>4
    <3>2. g[n] = step[g[n - 1]] /\ Cardinality(g[n - 1]) >= n - 1
      BY <2>4, <3>1
    <3>3. Cardinality(g[n]) > Cardinality(g[n - 1]) /\ Cardinality(g[n]) \in Nat
          /\ Cardinality(g[n - 1]) \in Nat
      BY <2>2, <3>1, <3>2
    <3>4. Cardinality(g[n]) >= n
      BY <3>2, <3>3
    <3> QED BY <3>4
  <2>5. good = 0..bound
    <3> HIDE DEF good
    <3>1. good \in SUBSET (0..bound)
      BY DEF good
    <3> QED BY <1>1, <2>3, <2>4, <3>1, UpToBound
  <2>6. bound \in 0..bound /\ bound \in good
    BY <1>1, <2>5
  <2>7. Cardinality(g[bound]) >= bound
    BY <2>6
  <2>8. step[g[bound]] \in SUBSET whole
    BY <2>6
  <2>9. Cardinality(step[g[bound]]) <= bound
    BY <2>8, FS_Subset
  <2>10. Cardinality(step[g[bound]]) > Cardinality(g[bound])
         /\ Cardinality(step[g[bound]]) \in Nat /\ Cardinality(g[bound]) \in Nat
    BY <2>2, <2>6
  <2> HIDE DEF good
  <2> QED BY <1>1, <2>7, <2>9, <2>10
<1>5. g[bound] \in SUBSET whole
  BY <1>1
<1> QED BY <1>2, <1>3, <1>4, <1>5 DEF Least

\* What is defined step by step stays within the whole.
LEMMA StepsStay ==
    ASSUME NEW whole, NEW bound, NEW first, NEW step, Stepping(whole, bound, first, step),
           NEW g, g = [n \in 0..bound |-> g[n]], g[0] = first,
           \A n \in 1..bound : g[n - 1] \in SUBSET whole => g[n] = step[g[n - 1]]
    PROVE  Grown(whole, bound, first, step, g)
<1> USE DEF Stepping
<1> DEFINE good == {n \in 0..bound : g[n] \in SUBSET whole}
<1>1. 0 \in good
  OBVIOUS
<1>2. ASSUME NEW n \in 0..bound, n > 0, n - 1 \in good PROVE n \in good
  <2>1. n \in 1..bound /\ n - 1 \in 0..bound
    BY <1>2
  <2>2. g[n - 1] \in SUBSET whole
    BY <1>2
  <2>3. g[n] = step[g[n - 1]]
    BY <2>1, <2>2
  <2> QED BY <2>2, <2>3
<1>3. good = 0..bound
  <2> HIDE DEF good
  <2>1. good \in SUBSET (0..bound)
    BY DEF good
  <2> QED BY <1>1, <1>2, <2>1, UpToBound
<1>4. g \in [0..bound -> SUBSET whole]
  BY <1>3
<1>5. ASSUME NEW n \in 1..bound PROVE g[n] = step[g[n - 1]]
  <2>1. n - 1 \in 0..bound
    OBVIOUS
  <2> QED BY <1>4, <2>1
<1> QED BY <1>4, <1>5 DEF Grown

-----------------------------------------------------------------------------
\* What is above a device: the least set with it and the parents of its own.
LEMMA ChainIsLeast ==
    ASSUME NEW up \in [Listed -> Listed \cup {None}], NEW d \in Listed
    PROVE  /\ d \in N!Chain(up, d) /\ N!Chain(up, d) \subseteq Listed
           /\ \A x \in N!Chain(up, d) : up[x] # None => up[x] \in N!Chain(up, d)
           /\ \A goal \in SUBSET Listed :
                 d \in goal /\ (\A x \in goal : up[x] # None => up[x] \in goal)
                    => N!Chain(up, d) \subseteq goal
<1> DEFINE bound == Cardinality(Listed)
           first == {d}
           Next1(set) == set \cup ({up[x] : x \in set} \ {None})
           step == [set \in SUBSET Listed |-> Next1(set)]
           Unfolds(g) == g = [n \in 0..bound |-> IF n = 0 THEN {d} ELSE Next1(g[n - 1])]
           ch == CHOOSE g : Unfolds(g)
<1>1. Stepping(Listed, bound, first, step)
  BY FewListed DEF Stepping
<1>2. bound \in Nat
  BY FewListed
<1>3. N!Chain(up, d) = ch[bound]
  BY SameWords DEF N!Chain
<1>4. \E g : Unfolds(g)
  <2>1. PICK g : Grown(Listed, bound, first, step, g)
    <3> HIDE DEF step, bound, first
    <3> QED BY <1>1, StepsExist
  <2>2. ASSUME NEW n \in 0..bound
        PROVE  g[n] = IF n = 0 THEN {d} ELSE Next1(g[n - 1])
    <3>1. CASE n = 0
      BY <2>1, <3>1 DEF Grown
    <3>2. CASE n # 0
      <4>1. n \in 1..bound /\ n - 1 \in 0..bound
        BY <1>2, <3>2
      <4>2. g[n] = step[g[n - 1]] /\ g[n - 1] \in SUBSET Listed
        <5> HIDE DEF step, bound
        <5> QED BY <2>1, <4>1 DEF Grown
      <4> QED BY <3>2, <4>2
    <3> QED BY <3>1, <3>2
  <2>3. Unfolds(g)
    <3> HIDE DEF Next1, bound
    <3> QED BY <2>1, <2>2 DEF Grown
  <2> QED BY <2>3
<1>5. Unfolds(ch)
  BY <1>4
<1>6. /\ ch = [n \in 0..bound |-> ch[n]] /\ ch[0] = first
      /\ \A n \in 1..bound : ch[n - 1] \in SUBSET Listed => ch[n] = step[ch[n - 1]]
  <2> HIDE DEF ch
  <2>1. \A n \in 0..bound : ch[n] = IF n = 0 THEN {d} ELSE Next1(ch[n - 1])
    <3> HIDE DEF Next1, bound
    <3> QED BY <1>5
  <2>2. ch = [n \in 0..bound |-> ch[n]]
    <3> HIDE DEF Next1, bound
    <3> QED BY <1>5
  <2>3. 0 \in 0..bound /\ \A n \in 1..bound : n \in 0..bound /\ n # 0
    BY <1>2
  <2>4. ch[0] = {d}
    BY <2>1, <2>3
  <2>5. ASSUME NEW n \in 1..bound, ch[n - 1] \in SUBSET Listed
        PROVE  ch[n] = step[ch[n - 1]]
    BY <2>1, <2>3, <2>5
  <2> QED BY <2>2, <2>4, <2>5
<1>7. Grown(Listed, bound, first, step, ch)
  <2> HIDE DEF ch, step, bound, first
  <2> QED BY <1>1, <1>6, StepsStay
<1>8. Least(Listed, first, step, ch[bound])
  <2> HIDE DEF ch, step, bound, first
  <2> QED BY <1>1, <1>7, GrowthStops
<1>9. d \in ch[bound] /\ ch[bound] \in SUBSET Listed /\ step[ch[bound]] = ch[bound]
  <2> HIDE DEF ch, step, bound
  <2> QED BY <1>8 DEF Least
<1>10. ASSUME NEW x \in ch[bound], up[x] # None PROVE up[x] \in ch[bound]
  <2>1. up[x] \in step[ch[bound]]
    <3> HIDE DEF ch
    <3> QED BY <1>9, <1>10
  <2> QED BY <1>9, <2>1
<1>11. ASSUME NEW goal \in SUBSET Listed, d \in goal,
              \A x \in goal : up[x] # None => up[x] \in goal
       PROVE  ch[bound] \subseteq goal
  <2>1. ASSUME NEW set \in SUBSET goal PROVE step[set] \subseteq goal
    <3>1. set \in SUBSET Listed
      OBVIOUS
    <3> QED BY <1>11, <3>1
  <2>2. first \subseteq goal
    BY <1>11
  <2> HIDE DEF ch, step, bound, first
  <2> QED BY <1>8, <2>1, <2>2 DEF Least
<1> HIDE DEF ch, step, bound
<1> QED BY <1>3, <1>9, <1>10, <1>11

\* The rows: the least set with the top ones and what is below one that is not folded.
LEMMA RowsAreLeast ==
    ASSUME NEW up \in [Listed -> Listed \cup {None}], NEW left \in SUBSET Listed
    PROVE  LET rows == N!Emitted(up, left)
               below(set) == {d \in left : up[d] \in set \ N!effectiveCollapsed}
           IN  /\ rows \subseteq Listed /\ N!Tops(up, left) \subseteq rows
               /\ below(rows) \subseteq rows
               /\ \A goal \in SUBSET Listed :
                     N!Tops(up, left) \subseteq goal /\ below(goal) \subseteq goal
                        => rows \subseteq goal
<1> DEFINE bound == Cardinality(Listed)
           first == N!Tops(up, left)
           folds == N!effectiveCollapsed
           Next1(set) == set \cup {d \in left : up[d] \in set \ folds}
           step == [set \in SUBSET Listed |-> Next1(set)]
           Unfolds(g) == g = [n \in 0..bound |-> IF n = 0 THEN first ELSE Next1(g[n - 1])]
           ch == CHOOSE g : Unfolds(g)
<1>1. Stepping(Listed, bound, first, step)
  <2>1. first \in SUBSET Listed
    BY DEF N!Tops
  <2> HIDE DEF first, folds
  <2> QED BY <2>1, FewListed DEF Stepping
<1>2. bound \in Nat
  BY FewListed
<1>3. N!Emitted(up, left) = ch[bound]
  BY SameWords DEF N!Emitted
<1> HIDE DEF folds, first
<1>4. \E g : Unfolds(g)
  <2>1. PICK g : Grown(Listed, bound, first, step, g)
    <3> HIDE DEF step, bound
    <3> QED BY <1>1, StepsExist
  <2>2. ASSUME NEW n \in 0..bound
        PROVE  g[n] = IF n = 0 THEN first ELSE Next1(g[n - 1])
    <3>1. CASE n = 0
      BY <2>1, <3>1 DEF Grown
    <3>2. CASE n # 0
      <4>1. n \in 1..bound /\ n - 1 \in 0..bound
        BY <1>2, <3>2
      <4>2. g[n] = step[g[n - 1]] /\ g[n - 1] \in SUBSET Listed
        <5> HIDE DEF step, bound
        <5> QED BY <2>1, <4>1 DEF Grown
      <4> QED BY <3>2, <4>2
    <3> QED BY <3>1, <3>2
  <2>3. Unfolds(g)
    <3> HIDE DEF Next1, bound
    <3> QED BY <2>1, <2>2 DEF Grown
  <2> QED BY <2>3
<1>5. Unfolds(ch)
  BY <1>4
<1>6. /\ ch = [n \in 0..bound |-> ch[n]] /\ ch[0] = first
      /\ \A n \in 1..bound : ch[n - 1] \in SUBSET Listed => ch[n] = step[ch[n - 1]]
  <2> HIDE DEF ch
  <2>1. \A n \in 0..bound : ch[n] = IF n = 0 THEN first ELSE Next1(ch[n - 1])
    <3> HIDE DEF Next1, bound
    <3> QED BY <1>5
  <2>2. ch = [n \in 0..bound |-> ch[n]]
    <3> HIDE DEF Next1, bound
    <3> QED BY <1>5
  <2>3. 0 \in 0..bound /\ \A n \in 1..bound : n \in 0..bound /\ n # 0
    BY <1>2
  <2>4. ch[0] = first
    BY <2>1, <2>3
  <2>5. ASSUME NEW n \in 1..bound, ch[n - 1] \in SUBSET Listed
        PROVE  ch[n] = step[ch[n - 1]]
    BY <2>1, <2>3, <2>5
  <2> QED BY <2>2, <2>4, <2>5
<1>7. Grown(Listed, bound, first, step, ch)
  <2> HIDE DEF ch, step, bound
  <2> QED BY <1>1, <1>6, StepsStay
<1>8. Least(Listed, first, step, ch[bound])
  <2> HIDE DEF ch, step, bound
  <2> QED BY <1>1, <1>7, GrowthStops
<1>9. first \subseteq ch[bound] /\ ch[bound] \in SUBSET Listed /\ step[ch[bound]] = ch[bound]
  <2> HIDE DEF ch, step, bound
  <2> QED BY <1>8 DEF Least
<1>10. {d \in left : up[d] \in ch[bound] \ folds} \subseteq ch[bound]
  <2>1. step[ch[bound]] = Next1(ch[bound])
    <3> HIDE DEF ch
    <3> QED BY <1>9
  <2> HIDE DEF ch, step, bound
  <2> QED BY <1>9, <2>1
<1>11. ASSUME NEW goal \in SUBSET Listed, first \subseteq goal,
              {d \in left : up[d] \in goal \ folds} \subseteq goal
       PROVE  ch[bound] \subseteq goal
  <2>1. ASSUME NEW set \in SUBSET goal PROVE step[set] \subseteq goal
    <3>1. set \in SUBSET Listed
      OBVIOUS
    <3> QED BY <1>11, <3>1
  <2> HIDE DEF ch, step, bound
  <2> QED BY <1>8, <1>11, <2>1 DEF Least
<1> HIDE DEF ch, step, bound
<1> QED BY <1>3, <1>9, <1>10, <1>11 DEF first, folds

-----------------------------------------------------------------------------
\* What is above a device is it and what is above its parent.
LEMMA ChainOfParent ==
    ASSUME NEW up \in [Listed -> Listed \cup {None}], NEW d \in Listed
    PROVE  /\ up[d] = None => N!Chain(up, d) = {d}
           /\ up[d] # None => /\ up[d] \in Listed
                              /\ N!Chain(up, d) = {d} \cup N!Chain(up, up[d])
<1>1. CASE up[d] = None
  <2> DEFINE goal == {d}
  <2>1. goal \in SUBSET Listed /\ d \in goal /\ \A x \in goal : up[x] = None
    BY <1>1
  <2>2. N!Chain(up, d) \subseteq goal
    <3> HIDE DEF goal
    <3> QED BY <2>1, ChainIsLeast
  <2>3. d \in N!Chain(up, d)
    BY ChainIsLeast
  <2> QED BY <1>1, <2>2, <2>3
<1>2. CASE up[d] # None
  <2> DEFINE mine == N!Chain(up, d)
             its == N!Chain(up, up[d])
  <2>1. up[d] \in Listed
    BY <1>2
  <2>2. /\ d \in mine /\ mine \in SUBSET Listed
        /\ \A x \in mine : up[x] # None => up[x] \in mine
    BY ChainIsLeast
  <2>3. /\ up[d] \in its /\ its \in SUBSET Listed
        /\ \A x \in its : up[x] # None => up[x] \in its
    BY <2>1, ChainIsLeast
  <2>4. its \subseteq mine
    <3>1. up[d] \in mine
      BY <1>2, <2>2
    <3> HIDE DEF mine
    <3> QED BY <2>1, <2>2, <3>1, ChainIsLeast
  <2>5. mine \subseteq {d} \cup its
    <3>1. /\ {d} \cup its \in SUBSET Listed /\ d \in {d} \cup its
          /\ \A x \in {d} \cup its : up[x] # None => up[x] \in {d} \cup its
      BY <2>3
    <3> HIDE DEF its
    <3> QED BY <3>1, ChainIsLeast
  <2> QED BY <1>2, <2>1, <2>2, <2>4, <2>5
<1> QED BY <1>1, <1>2

\* A row that is not a top one is below a row that is not folded.
LEMMA RowsAreBelowRows ==
    ASSUME NEW up \in [Listed -> Listed \cup {None}], NEW left \in SUBSET Listed,
           NEW d \in N!Emitted(up, left)
    PROVE  up[d] = None \/ up[d] \in N!Emitted(up, left) \ N!effectiveCollapsed
<1> DEFINE rows == N!Emitted(up, left)
           folds == N!effectiveCollapsed
           goal == {r \in rows : up[r] = None \/ up[r] \in rows \ folds}
<1>1. /\ rows \subseteq Listed /\ N!Tops(up, left) \subseteq rows
      /\ {r \in left : up[r] \in rows \ folds} \subseteq rows
  BY RowsAreLeast
<1>2. \A r \in N!Tops(up, left) : up[r] = None
  BY DEF N!Tops
<1>3. goal \in SUBSET Listed /\ N!Tops(up, left) \subseteq goal
  <2> HIDE DEF rows, folds
  <2> QED BY <1>1, <1>2
<1>4. {r \in left : up[r] \in goal \ folds} \subseteq goal
  <2> HIDE DEF rows, folds
  <2> QED BY <1>1
<1>5. rows \subseteq goal
  <2> HIDE DEF goal
  <2> QED BY <1>3, <1>4, RowsAreLeast
<1> QED BY <1>5

\* The devices left, and their parents in the tree, are devices.
LEMMA TreeIsOfDevices ==
    ASSUME filter \in ListFilters
    PROVE  /\ N!Kept \in SUBSET Listed
           /\ N!treeOrder.up \in [Listed -> Listed \cup {None}]
           /\ \A d \in Listed : N!treeOrder.up[d] \in N!Kept \cup {None}
           /\ \A d \in Listed : d \notin N!Kept => N!treeOrder.up[d] = None
<1>1. filter \subseteq Listed
  BY DEF ListFilters
<1>2. N!Kept \in SUBSET Listed
  <2> DEFINE up == [d \in Listed |-> IF parent[d] \in filter THEN parent[d] ELSE None]
  <2>1. up \in [Listed -> Listed \cup {None}]
    BY <1>1
  <2>2. \A d \in filter : N!Chain(up, d) \subseteq Listed
    <3> HIDE DEF up
    <3> QED BY <1>1, <2>1, ChainIsLeast
  <2>3. N!Kept = IF hits = None THEN filter ELSE UNION {N!Chain(up, d) : d \in filter \cap hits}
    BY DEF N!Kept
  <2> HIDE DEF up
  <2> QED BY <1>1, <2>2, <2>3
<1>3. N!treeOrder.up = [d \in Listed |-> IF d \in N!Kept THEN N!Nested(d, N!Kept) ELSE None]
  BY DEF N!treeOrder
<1>4. \A d \in Listed : N!Nested(d, N!Kept) \in N!Kept \cup {None}
  BY DEF N!Nested
<1> HIDE DEF N!Kept
<1> QED BY <1>2, <1>3, <1>4

-----------------------------------------------------------------------------
\* The devices above which the chain closes are those of a loop and below it.
LEMMA LoopsReachDown ==
    ASSUME NEW up \in [Listed -> Listed \cup {None}], NEW d \in Listed,
           up[d] # None, N!Loops(up, up[d])
    PROVE  N!Loops(up, d)
<1>1. N!Chain(up, d) = {d} \cup N!Chain(up, up[d])
  BY ChainOfParent
<1> QED BY <1>1 DEF N!Loops

LEMMA NoLoopNoReturn ==
    ASSUME NEW up \in [Listed -> Listed \cup {None}], NEW d \in Listed,
           up[d] # None, ~N!Loops(up, d)
    PROVE  d \notin N!Chain(up, up[d])
<1>1. d \in N!Chain(up, d)
  BY ChainIsLeast
<1> QED BY <1>1 DEF N!Loops

\* Nobody is left out: by what is above.  A device that does not hang below a loop is
\* accounted for when its parent is, and what is above its parent is less.
LEMMA ParentsAccountFor ==
    ASSUME NEW up \in [Listed -> Listed \cup {None}], NEW left \in SUBSET Listed,
           \A d \in Listed : up[d] \in left \cup {None}
    PROVE  LET rows      == N!Emitted(up, left)
               folds     == N!effectiveCollapsed
               folded(d) == {r \in rows \cap folds : r # d /\ r \in N!Chain(up, d)}
           IN  \A d \in left :
                   \/ N!Loops(up, d)
                   \/ d \in rows /\ folded(d) = {}
                   \/ d \notin rows /\ Cardinality(folded(d)) = 1
<1> DEFINE rows      == N!Emitted(up, left)
           folds     == N!effectiveCollapsed
           folded(d) == {r \in rows \cap folds : r # d /\ r \in N!Chain(up, d)}
           Fine(d)   == \/ N!Loops(up, d)
                        \/ d \in rows /\ folded(d) = {}
                        \/ d \notin rows /\ Cardinality(folded(d)) = 1
           bad       == {d \in left : ~Fine(d)}
           chains    == {N!Chain(up, d) : d \in bad}
           order     == StrictSubsetOrdering(Listed)
<1> SUFFICES ASSUME bad # {} PROVE FALSE
  OBVIOUS
<1>1. chains \subseteq FiniteSubsetsOf(Listed) /\ chains # {}
  <2>1. \A d \in Listed : N!Chain(up, d) \in SUBSET Listed
    BY ChainIsLeast
  <2>2. \A set \in SUBSET Listed : IsFiniteSet(set)
    BY FewListed, FS_Subset
  <2> HIDE DEF Fine
  <2> QED BY <2>1, <2>2 DEF FiniteSubsetsOf
<1>2. PICK c \in chains : \A b \in chains : ~(<<b, c>> \in order)
  <2>1. IsWellFoundedOn(order, FiniteSubsetsOf(Listed))
    BY FS_StrictSubsetOrderingWellFounded
  <2> HIDE DEF order, chains
  <2> QED BY <1>1, <2>1, WFMin
<1>3. PICK d \in bad : c = N!Chain(up, d)
  <2> HIDE DEF bad
  <2> QED BY <1>2
<1>4. d \in left /\ d \in Listed /\ ~Fine(d) /\ ~N!Loops(up, d)
  BY <1>3
<1>5. /\ rows \subseteq Listed /\ N!Tops(up, left) \subseteq rows
      /\ {r \in left : up[r] \in rows \ folds} \subseteq rows
  BY RowsAreLeast
<1>6. CASE up[d] = None
  <2>1. d \in N!Tops(up, left)
    BY <1>4, <1>6 DEF N!Tops
  <2>2. N!Chain(up, d) = {d}
    BY <1>4, <1>6, ChainOfParent
  <2>3. folded(d) = {}
    <3> HIDE DEF rows, folds
    <3> QED BY <2>2
  <2> HIDE DEF rows, folds, folded
  <2> QED BY <1>4, <1>5, <2>1, <2>3
<1>7. CASE up[d] # None
  <2>1. up[d] \in left /\ up[d] \in Listed
    BY <1>4, <1>7
  <2>2. d \notin N!Chain(up, up[d]) /\ N!Chain(up, d) = {d} \cup N!Chain(up, up[d])
    BY <1>4, <1>7, ChainOfParent, NoLoopNoReturn
  <2>3. up[d] \in N!Chain(up, up[d]) /\ up[d] # d
    BY <2>1, <2>2, ChainIsLeast
  \* What is above the parent is less, so that it is accounted for,
  <2>4. Fine(up[d])
    <3> SUFFICES ASSUME ~Fine(up[d]) PROVE FALSE
      OBVIOUS
    <3>1. N!Chain(up, up[d]) \in chains
      <4> HIDE DEF Fine
      <4> QED BY <2>1
    <3>2. N!Chain(up, d) \in SUBSET Listed
      BY <1>4, ChainIsLeast
    <3>3. <<N!Chain(up, up[d]), N!Chain(up, d)>> \in order
      BY <2>2, <3>2 DEF StrictSubsetOrdering
    <3> HIDE DEF order, chains
    <3> QED BY <1>2, <1>3, <3>1, <3>3
  <2>5. ~N!Loops(up, up[d])
    BY <1>4, <1>7, LoopsReachDown
  \* and its child is a row, or counted where the parent is or by the parent.
  <2>6. d \in rows => up[d] \in rows \ folds
    BY <1>7, RowsAreBelowRows
  <2>7. folded(d) = folded(up[d]) \cup (IF up[d] \in rows \cap folds THEN {up[d]} ELSE {})
    <3> HIDE DEF rows, folds
    <3> QED BY <2>2, <2>3
  <2> HIDE DEF rows, folds, folded
  <2>8. CASE up[d] \in rows /\ folded(up[d]) = {}
    <3>1. CASE up[d] \in folds
      <4>1. d \notin rows /\ folded(d) = {up[d]}
        BY <2>6, <2>7, <2>8, <3>1
      <4>2. Cardinality(folded(d)) = 1
        BY <4>1, FS_Singleton
      <4> QED BY <1>4, <4>1, <4>2
    <3>2. CASE up[d] \notin folds
      <4>1. d \in rows /\ folded(d) = {}
        BY <1>4, <1>5, <2>7, <2>8, <3>2
      <4> QED BY <1>4, <4>1
    <3> QED BY <3>1, <3>2
  <2>9. CASE up[d] \notin rows /\ Cardinality(folded(up[d])) = 1
    <3>1. d \notin rows /\ folded(d) = folded(up[d])
      BY <2>6, <2>7, <2>9
    <3> QED BY <1>4, <2>9, <3>1
  <2> QED BY <2>4, <2>5, <2>8, <2>9
<1> QED BY <1>6, <1>7

-----------------------------------------------------------------------------
\* The filter is one of those there are: that is all the rows need.
Filtered == part = "tree" => filter \in ListFilters

LEMMA FilterKeeps ==
    ASSUME Filtered, [DashNext]_allVars
    PROVE  Filtered'
<1>1. CASE part = "tree" /\ [N!Next]_treeVars
  <2>1. filter' = filter \/ filter' \in ListFilters
    BY <1>1
       DEF N!Next, N!Look, N!look, N!toggleCollapse, N!onToggle, N!toggleDetached, N!Save,
           N!Elsewhere, N!Navigate, treeVars
  <2> QED BY <1>1, <2>1, TreeMovesAlone DEF Filtered, ListFilters
<1>2. CASE part # "tree"
  BY <1>2, TreeMovesAlone DEF Filtered
<1> QED BY <1>1, <1>2, TreeMovesAlone

LEMMA RowsFollow ==
    ASSUME Filtered
    PROVE  RowsAccountForAll
<1> SUFFICES ASSUME part = "tree" PROVE N!RowsAccountForAll
  BY DEF RowsAccountForAll
<1> DEFINE left == N!Kept
           up   == N!treeOrder.up
           folds == N!effectiveCollapsed
           chips(d) == {r \in N!treeOrder.rows :
                          N!DeviceIdentityChips(r) /\ d \in N!treeOrder.under[r]}
           counted(d) == {r \in N!Emitted(up, left) \cap folds :
                             r # d /\ r \in N!Chain(up, d)}
<1>1. filter \in ListFilters
  BY DEF Filtered
<1>2. /\ left \in SUBSET Listed /\ up \in [Listed -> Listed \cup {None}]
      /\ \A d \in Listed : up[d] \in left \cup {None}
  BY <1>1, TreeIsOfDevices
<1>3. N!treeOrder.left = left /\ N!treeOrder.rows = N!Emitted(up, left)
  BY DEF N!treeOrder
<1>4. N!treeOrder.under = [d \in Listed |-> {k \in left \ {d} : d \in N!Chain(up, k)}]
  BY <1>2 DEF N!treeOrder
<1>5. N!RowsAccountForAll = \A d \in N!treeOrder.left :
            \/ N!Loops(N!treeOrder.up, d)
            \/ d \in N!treeOrder.rows /\ (hits # None \/ chips(d) = {})
            \/ /\ d \notin N!treeOrder.rows /\ hits = None
               /\ N!Cardinality(chips(d)) = 1
  BY DEF N!RowsAccountForAll
<1>6. hits # None => folds = {}
  BY DEF N!effectiveCollapsed
<1>7. hits = None => \A r \in Listed : N!DeviceIdentityChips(r) <=> r \in folds
  BY DEF N!effectiveCollapsed, N!DeviceIdentityChips
<1> HIDE DEF left, up, folds
<1>8. N!Emitted(up, left) \subseteq Listed
  BY <1>2, RowsAreLeast
<1>9. hits = None => \A d \in left : chips(d) = counted(d)
  BY <1>2, <1>3, <1>4, <1>7, <1>8
<1>10. \A d \in left : \/ N!Loops(up, d)
                       \/ d \in N!Emitted(up, left) /\ counted(d) = {}
                       \/ d \notin N!Emitted(up, left) /\ Cardinality(counted(d)) = 1
  BY <1>2, ParentsAccountFor DEF folds
\* While there is a search nothing is folded, so that every device is a row.
<1>11. hits # None => \A d \in left : Cardinality(counted(d)) # 1
  <2>1. hits # None => \A d \in left : counted(d) = {}
    BY <1>6
  <2> HIDE DEF counted
  <2> QED BY <2>1, FS_EmptySet
<1>12. hits = None => \A d \in left : N!Cardinality(chips(d)) = Cardinality(counted(d))
  <2> HIDE DEF chips, counted
  <2> QED BY <1>9, SameWords
<1>13. up = N!treeOrder.up
  BY DEF up
<1> HIDE DEF chips, counted
<1>14. ASSUME NEW d \in left
       PROVE  \/ N!Loops(N!treeOrder.up, d)
              \/ d \in N!treeOrder.rows /\ (hits # None \/ chips(d) = {})
              \/ /\ d \notin N!treeOrder.rows /\ hits = None
                 /\ N!Cardinality(chips(d)) = 1
  BY <1>3, <1>9, <1>10, <1>11, <1>12, <1>13
<1> QED BY <1>3, <1>5, <1>14

\* Every device that is left is a row or counted by exactly one row's "+n", and while there
\* is a search a row, but in a loop and below it: for any devices, any tree and any moves
\* in it, and whatever is folded (topology-page.tsx treeOrder, DeviceIdentityChips).
THEOREM RowsCountAll == DashSpec => []RowsAccountForAll
<1>1. DashInit => Filtered
  BY DEF DashInit, N!Init, Filtered
<1>2. Filtered /\ [DashNext]_allVars => Filtered'
  BY FilterKeeps
<1>3. Filtered => RowsAccountForAll
  BY RowsFollow
<1> QED BY <1>1, <1>2, <1>3, PTL DEF DashSpec

-----------------------------------------------------------------------------
(***************************************************************************)
(* The split view.                                                         *)
(***************************************************************************)

\* Where a pane can be, and what the browser keeps of it.
Places == Views \cup MainOnly
PaneRows == [entry : Places, live : Places, fresh : BOOLEAN]
StoredRows == [view : Places, axis : V!Axes, fraction : Int]

SplitTypes ==
    /\ mainPage \in Places /\ window \in SplitSizes
    /\ pane \in PaneRows \cup {None} /\ inner \in Places \cup {None}
    /\ axis \in V!Axes /\ fraction \in Int
    /\ box \in SplitSizes \cup {None}
    /\ storedSplit \in StoredRows \cup {None}

\* The assumptions, told of this instance.
LEMMA SplitConstants ==
    /\ Home \in Places /\ Home \notin MainOnly /\ Home \in V!paneViewsFor
    /\ None \notin Places /\ None \notin SplitSizes /\ None \notin PaneRows
    /\ \A size \in SplitSizes, a \in V!Axes : V!Extent(size, a) \in Nat
    /\ Floor \in Nat /\ Floor > 0 /\ Grip \in Nat
    /\ Parts \in Nat /\ Parts \div 2 \in Nat /\ Parts = 2 * (Parts \div 2) /\ Parts > 0
BY DashAssumption DEF V!SplitAssumption, Places, PaneRows, V!paneViewsFor, V!Axes, V!Extent

\* The least share: no more than a half, and no less than the least length.
LEMMA LowestIsEnough ==
    ASSUME SplitTypes, V!roomFor(axis)
    PROVE  LET span == V!Extent(box, axis) - Grip
           IN  /\ span \in Nat /\ span > 0
               /\ V!Lowest \in Nat /\ V!Lowest + V!Lowest <= Parts
               /\ V!Lowest * span >= Floor * Parts
<1> DEFINE span == V!Extent(box, axis) - Grip
           half == Parts \div 2
           need == Floor * Parts
           least == (need + span - 1) \div span
<1>1. /\ Floor \in Nat /\ Floor > 0 /\ Grip \in Nat
      /\ Parts \in Nat /\ half \in Nat /\ Parts = half + half
  BY SplitConstants
<1>2. V!Extent(box, axis) \in Nat /\ V!Extent(box, axis) >= 2 * Floor + Grip
  BY SplitConstants DEF SplitTypes, V!roomFor, V!Fits
<1>3. span \in Nat /\ span > 0 /\ span >= 2 * Floor
  BY <1>1, <1>2
<1>4. need \in Nat /\ need = 2 * (Floor * half)
  BY <1>1
<1>5. V!Lowest = IF least < half THEN least ELSE half
  BY DEF V!Lowest
<1> HIDE DEF span, half, need
<1>6. least \in Int /\ least * span >= need /\ least >= 0
  <2>1. \A x \in Nat : (x + span - 1) \div span \in Int
                       /\ span * ((x + span - 1) \div span) >= x
                       /\ (x + span - 1) \div span >= 0
    BY <1>3
  <2>2. \A k \in Int : span * k = k * span
    BY <1>3
  <2> QED BY <1>4, <2>1, <2>2
<1>7. half * span >= need
  <2>1. half * span >= half * (2 * Floor)
    BY <1>1, <1>3
  <2>2. half * (2 * Floor) = 2 * (Floor * half)
    BY <1>1
  <2>3. half * span \in Int
    BY <1>1, <1>3
  <2> QED BY <1>4, <2>1, <2>2, <2>3
<1> HIDE DEF least
<1>8. V!Lowest \in Nat /\ V!Lowest + V!Lowest <= Parts /\ V!Lowest * span >= need
  <2>1. CASE least < half
    BY <1>1, <1>5, <1>6, <2>1
  <2>2. CASE ~(least < half)
    BY <1>1, <1>5, <1>7, <2>2
  <2> QED BY <2>1, <2>2
<1> QED BY <1>3, <1>8 DEF span, need

\* It starts so,
LEMMA SplitInit ==
    ASSUME V!Init
    PROVE  SplitTypes
BY SplitConstants DEF V!Init, SplitTypes, Places, V!Axes

\* an effect keeps it so,
LEMMA EffectKeepsTypes ==
    ASSUME SplitTypes, V!Effect
    PROVE  SplitTypes'
<1> USE DEF V!layout
<1>1. V!Effect => UNCHANGED <<mainPage, window, axis, fraction>>
  BY DEF V!Effect, V!Measure, V!Mount, V!Unmount, V!Redirect, V!PaneLocationSync,
         V!PaneViewGuard, V!Persist
<1>2. /\ pane' \in PaneRows \cup {None} /\ inner' \in Places \cup {None}
      /\ box' \in SplitSizes \cup {None}
      /\ storedSplit' \in StoredRows \cup {None}
  <2>1. CASE V!Measure
    BY <2>1 DEF V!Measure, SplitTypes
  <2>2. CASE V!Mount
    BY <2>2 DEF V!Mount, V!Unmounted, SplitTypes, PaneRows
  <2>3. CASE V!Unmount
    BY <2>3 DEF V!Unmount, SplitTypes
  <2>4. CASE V!Redirect
    BY <2>4, SplitConstants DEF V!Redirect, SplitTypes
  <2>5. CASE V!PaneLocationSync
    BY <2>5 DEF V!PaneLocationSync, V!Behind, SplitTypes, PaneRows
  <2>6. CASE V!PaneViewGuard
    BY <2>6, SplitConstants DEF V!PaneViewGuard, V!Opened, SplitTypes, PaneRows
  <2>7. CASE V!Persist
    BY <2>7 DEF V!Persist, V!toStore, SplitTypes, PaneRows, StoredRows
  <2> QED BY <2>1, <2>2, <2>3, <2>4, <2>5, <2>6, <2>7 DEF V!Effect
<1> QED BY <1>1, <1>2 DEF SplitTypes

\* A share between the least and the greatest is a number.
LEMMA SharesAreNumbers ==
    ASSUME SplitTypes, V!roomFor(axis), NEW f \in Int
    PROVE  /\ V!Within(f) \in Int
           /\ V!Lowest <= V!Within(f) /\ V!Lowest <= Parts - V!Within(f)
<1> DEFINE lo == V!Lowest
<1>1. lo \in Nat /\ lo + lo <= Parts /\ Parts \in Nat
  BY LowestIsEnough, SplitConstants
<1>2. V!Within(f) = IF f < lo THEN lo ELSE IF f > Parts - lo THEN Parts - lo ELSE f
  BY DEF V!Within
<1> HIDE DEF lo
<1>3. V!Within(f) \in Int /\ lo <= V!Within(f) /\ lo <= Parts - V!Within(f)
  BY <1>1, <1>2
<1> QED BY <1>3 DEF lo

\* and so does all else.
LEMMA SplitKeepsTypes ==
    ASSUME SplitTypes, [V!Next]_splitVars
    PROVE  SplitTypes'
<1> USE DEF V!layout
<1>1. CASE V!Effect
  BY <1>1, EffectKeepsTypes
<1>2. CASE V!User
  <2>1. V!Settled
    BY <1>2 DEF V!User
  <2>2. CASE \E p \in Views \cup MainOnly : V!Navigate(p) \/ V!NavigatePane(p)
    BY <2>2 DEF V!Navigate, V!NavigatePane, SplitTypes, Places
  <2>3. ASSUME NEW v \in Views, V!SplitControl(v) \/ V!PaneBar(v) PROVE SplitTypes'
    <3>1. V!Opened(v) \in PaneRows
      BY DEF V!Opened, PaneRows, Places
    <3>2. /\ pane' = V!Opened(v) /\ axis' \in V!Axes
          /\ UNCHANGED <<mainPage, window, inner, fraction, box, storedSplit>>
      BY <2>3 DEF V!SplitControl, V!PaneBar, SplitTypes, V!Axes
    <3> QED BY <3>1, <3>2 DEF SplitTypes
  <2>4. ASSUME NEW a \in V!Axes, V!SetAxis(a) PROVE SplitTypes'
    BY <2>4 DEF V!SetAxis, SplitTypes
  <2>5. CASE V!SetFraction
    <3>1. V!roomFor(axis)
      BY <2>1, <2>5 DEF V!Settled, V!SetFraction
    <3>2. /\ V!Lowest \in Int /\ Parts - V!Lowest \in Int /\ Parts \div 2 \in Int
          /\ V!Shared \in Int
      BY <3>1, LowestIsEnough, SharesAreNumbers, SplitConstants DEF V!Shared, SplitTypes
    <3>3. V!Within(V!Shared - 1) \in Int /\ V!Within(V!Shared + 1) \in Int
      BY <3>1, <3>2, SharesAreNumbers
    <3>4. fraction' \in Int
      BY <2>5, <3>2, <3>3 DEF V!SetFraction
    <3>5. UNCHANGED <<mainPage, window, pane, inner, axis, box, storedSplit>>
      BY <2>5 DEF V!SetFraction
    <3> QED BY <3>4, <3>5 DEF SplitTypes
  <2>6. CASE V!Swap
    BY <2>6 DEF V!Swap, V!Opened, SplitTypes, PaneRows
  <2>7. CASE V!ClosePane
    BY <2>7 DEF V!ClosePane, SplitTypes
  <2> QED BY <1>2, <2>2, <2>3, <2>4, <2>5, <2>6, <2>7 DEF V!User
<1>3. CASE V!Resize
  BY <1>3 DEF V!Resize, SplitTypes
<1>4. CASE V!ChangeRole
  BY <1>4 DEF V!ChangeRole, SplitTypes
<1>5. CASE V!Reload
  <2>1. axis' \in V!Axes /\ fraction' \in Int
    BY <1>5, SplitConstants DEF V!Reload, SplitTypes, StoredRows, V!Axes
  <2>2. pane' \in PaneRows \cup {None}
    BY <1>5 DEF V!Reload, V!Opened, SplitTypes, StoredRows, PaneRows
  <2> QED BY <1>5, <2>1, <2>2 DEF V!Reload, SplitTypes
<1>6. CASE UNCHANGED splitVars
  BY <1>6 DEF splitVars, SplitTypes
<1> QED BY <1>1, <1>2, <1>3, <1>4, <1>5, <1>6 DEF V!Next, V!Visit

\* With nothing left to do, everything is where it should be.
LEMMA RestIsSettled ==
    ASSUME SplitTypes
    PROVE  SplitStands
<1> SUFFICES ASSUME ~V!Busy
             PROVE  /\ V!Settled
                    /\ inner # None =>
                         LET span == V!Extent(box, axis) - Grip
                         IN  /\ V!Shared * span >= Floor * Parts
                             /\ (Parts - V!Shared) * span >= Floor * Parts
  BY DEF SplitStands, V!SplitStands
<1>1. V!Settled
  <2>1. pane # None => box = window /\ ~(V!roomFor(axis) /\ pane.fresh)
    BY DEF V!Busy, V!Unmeasured, V!Unmounted
  <2>2. (inner # None) = (pane # None /\ V!roomFor(axis))
    BY DEF V!Busy, V!Unmounted, V!Orphaned
  <2>3. inner # None => inner \in Views /\ inner = pane.live
    BY <2>1, <2>2 DEF V!Busy, V!Astray, V!Behind, SplitTypes, Places
  <2>4. pane # None => pane.live \in V!paneViewsFor
    BY DEF V!Busy, V!Forbidden
  <2>5. storedSplit = V!toStore
    BY DEF V!Busy, V!Unsaved
  <2> QED BY <2>1, <2>2, <2>3, <2>4, <2>5 DEF V!Settled
<1>2. ASSUME inner # None
      PROVE  /\ V!Shared * (V!Extent(box, axis) - Grip) >= Floor * Parts
             /\ (Parts - V!Shared) * (V!Extent(box, axis) - Grip) >= Floor * Parts
  <2> DEFINE span == V!Extent(box, axis) - Grip
  <2>1. V!roomFor(axis)
    BY <1>1, <1>2 DEF V!Settled
  <2>2. /\ span \in Nat /\ V!Lowest \in Nat /\ V!Lowest * span >= Floor * Parts
        /\ Floor * Parts \in Int
    BY <2>1, LowestIsEnough, SplitConstants
  <2>3. /\ V!Shared \in Int /\ V!Lowest <= V!Shared /\ V!Lowest <= Parts - V!Shared
    BY <2>1, SharesAreNumbers DEF V!Shared, SplitTypes
  <2>4. \A n \in Int : V!Lowest <= n => n * span >= V!Lowest * span
    <3> HIDE DEF span
    <3> QED BY <2>2
  <2> HIDE DEF span
  <2>5. Parts - V!Shared \in Int
    BY <2>3, SplitConstants
  <2>6. \A n \in Int : n * span \in Int
    BY <2>2
  <2>7. V!Shared * span >= V!Lowest * span /\ (Parts - V!Shared) * span >= V!Lowest * span
    BY <2>3, <2>4, <2>5
  <2>8. /\ V!Shared * span \in Int /\ (Parts - V!Shared) * span \in Int
        /\ V!Lowest * span \in Int
    BY <2>2, <2>3, <2>5, <2>6
  <2>9. \A a, b, c \in Int : a >= b /\ b >= c => a >= c
    OBVIOUS
  <2>10. V!Shared * span >= Floor * Parts /\ (Parts - V!Shared) * span >= Floor * Parts
    BY <2>2, <2>7, <2>8, <2>9
  <2> QED BY <2>10 DEF span
<1> QED BY <1>1, <1>2

\* When no effect has anything left to do, the pane shows what its user may see, is
\* where the provider and the next load believe it is, and both halves have their
\* least size, whatever happened before.
THEOREM SplitComesTogether == DashSpec => []SplitStands
<1>1. DashInit => SplitTypes
  BY SplitInit DEF DashInit
<1>2. SplitTypes /\ [DashNext]_allVars => SplitTypes'
  BY PartsMove, SplitKeepsTypes
<1>3. SplitTypes => SplitStands
  BY RestIsSettled
<1> QED BY <1>1, <1>2, <1>3, PTL DEF DashSpec

-----------------------------------------------------------------------------
\* A pane that the guard need not look at again.
AtHome ==
    \/ pane = None
    \/ pane.entry = Home /\ pane.live = Home /\ (pane.fresh \/ inner \in {Home, None})

\* What the effects have left to do, the first that can bring back others first:
\* a measure, a pane put back to "/", a router mounted or unmounted, redirected,
\* heard by the provider, and stored.
Rank ==
    (IF V!Unmeasured THEN 64 ELSE 0) + (IF AtHome THEN 0 ELSE 32)
    + (IF V!Unmounted THEN 16 ELSE 0) + (IF V!Orphaned THEN 8 ELSE 0)
    + (IF V!Astray THEN 4 ELSE 0) + (IF V!Behind THEN 2 ELSE 0)
    + (IF V!Unsaved THEN 1 ELSE 0)

\* Every effect leaves less to do.
LEMMA EffectsLowerRank ==
    ASSUME SplitTypes, V!Effect
    PROVE  Rank' < Rank
<1> USE DEF V!layout
<1> DEFINE U == V!Unmeasured
           W == ~AtHome
           K == V!Unmounted
           O == V!Orphaned
           E == V!Astray
           B == V!Behind
           S == V!Unsaved
\* Each effect ends what it is there for, and brings back none before it.
<1>1. CASE V!Measure
  <2>1. U /\ ~U' /\ (W' => W)
    BY <1>1 DEF V!Measure, V!Unmeasured, AtHome
  <2> HIDE DEF U, W, K, O, E, B, S
  <2> QED BY <2>1 DEF Rank, U, W
<1>2. CASE V!PaneViewGuard
  <2>1. pane # None /\ pane.live \notin V!paneViewsFor /\ pane' = V!Opened(Home)
        /\ UNCHANGED <<box, window, inner>>
    BY <1>2 DEF V!PaneViewGuard, V!Forbidden
  <2>2. W /\ ~W'
    BY <2>1, SplitConstants DEF AtHome, V!Opened
  <2>3. U' => U
    BY <2>1 DEF V!Unmeasured
  <2> QED BY <2>2, <2>3 DEF Rank
<1>3. CASE V!Mount
  <2>1. /\ K /\ pane \in PaneRows /\ inner' = pane.entry
        /\ pane' = [pane EXCEPT !.fresh = FALSE]
        /\ UNCHANGED <<box, window, axis>>
    BY <1>3 DEF V!Mount, V!Unmounted, SplitTypes
  <2>2. pane.entry # None /\ pane'.entry = pane.entry /\ pane'.live = pane.live /\ ~pane'.fresh
    BY <2>1, SplitConstants DEF PaneRows
  <2>3. ~K'
    BY <2>1, <2>2 DEF V!Unmounted
  <2>4. (U' => U) /\ (W' => W)
    BY <2>1, <2>2 DEF V!Unmounted, V!Unmeasured, AtHome
  <2> QED BY <2>1, <2>3, <2>4 DEF Rank
<1>4. CASE V!Unmount
  <2>1. O /\ inner' = None /\ UNCHANGED <<pane, box, window, axis>>
    BY <1>4 DEF V!Unmount
  <2>2. ~O' /\ (U' => U) /\ (W' => W)
    BY <2>1 DEF V!Orphaned, V!Unmeasured, AtHome
  <2>3. K' => K
    BY <2>1 DEF V!Unmounted, V!Orphaned, V!roomFor
  <2> QED BY <2>1, <2>2, <2>3 DEF Rank
<1>5. CASE V!Redirect
  <2>1. E /\ inner' = Home /\ inner # None /\ UNCHANGED <<pane, box, window, axis>>
    BY <1>5, SplitConstants DEF V!Redirect, V!Astray, Places
  <2>2. Home # None /\ ~E'
    BY <2>1, SplitConstants DEF V!Astray
  <2>3. (U' => U) /\ (W' => W) /\ (K' => K) /\ (O' => O)
    BY <2>1, <2>2 DEF V!Orphaned, V!Unmeasured, V!Unmounted, V!roomFor, AtHome
  <2> QED BY <2>1, <2>2, <2>3 DEF Rank
<1>6. CASE V!PaneLocationSync
  <2>1. /\ B /\ pane \in PaneRows /\ pane' = [pane EXCEPT !.live = inner]
        /\ UNCHANGED <<inner, box, window, axis>> /\ ~pane.fresh /\ inner # None
    BY <1>6 DEF V!PaneLocationSync, V!Behind, SplitTypes
  <2>2. pane'.entry = pane.entry /\ pane'.live = inner /\ pane'.fresh = pane.fresh
    BY <2>1 DEF PaneRows
  <2>3. pane' # None
    <3>1. pane' \in PaneRows
      BY <2>1 DEF PaneRows, SplitTypes
    <3> QED BY <3>1, SplitConstants
  <2>4. ~B' /\ (W' => W)
    BY <2>1, <2>2 DEF V!Behind, AtHome
  <2>5. (U' => U) /\ (K' => K) /\ (O' => O) /\ (E' => E)
    BY <2>1, <2>2, <2>3 DEF V!Orphaned, V!Unmeasured, V!Unmounted, V!Astray, V!roomFor, V!Behind
  <2> QED BY <2>1, <2>4, <2>5 DEF Rank
<1>7. CASE V!Persist
  <2>1. S /\ storedSplit' = V!toStore /\ UNCHANGED <<pane, inner, axis, fraction, box, window>>
    BY <1>7 DEF V!Persist
  <2>2. ~S'
    BY <2>1 DEF V!Unsaved, V!toStore
  <2>3. (U' => U) /\ (W' => W) /\ (K' => K) /\ (O' => O) /\ (E' => E) /\ (B' => B)
    BY <2>1 DEF V!Orphaned, V!Unmeasured, V!Unmounted, V!Astray, V!roomFor, V!Behind, AtHome
  <2> QED BY <2>1, <2>2, <2>3 DEF Rank
<1> QED BY <1>1, <1>2, <1>3, <1>4, <1>5, <1>6, <1>7 DEF V!Effect

\* The effects never chase each other: a number of 128 falls with every one of them,
\* so they come to rest as soon as the user, the window and the session leave them.
THEOREM EffectsComeToRest == DashSpec => [][V!Effect => Rank' < Rank]_splitVars
<1>1. DashInit => SplitTypes
  BY SplitInit DEF DashInit
<1>2. SplitTypes /\ [DashNext]_allVars => SplitTypes'
  BY PartsMove, SplitKeepsTypes
<1>3. SplitTypes /\ [DashNext]_allVars => [V!Effect => Rank' < Rank]_splitVars
  BY EffectsLowerRank
<1> QED BY <1>1, <1>2, <1>3, PTL DEF DashSpec
====
