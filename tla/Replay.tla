-------------------------------- MODULE Replay --------------------------------
(***************************************************************************)
(* The time machine: what the map shows of a moment in the past.           *)
(*                                                                         *)
(* The server answers with intervals (central/api/replay.py): the outage   *)
(* rows of a device, and the windows in which its probe was silent, folded *)
(* from the watchdog's marks.  The page merges them into a reconstruction  *)
(* (web/src/lib/replay.ts) and draws the fleet at the last event before    *)
(* its cursor, which the dock moves, a clock plays, and a refetched window *)
(* clamps (web/src/routes/map-page.tsx).                                   *)
(*                                                                         *)
(* One device stands for the fleet, with one probe assigned to it.  Times  *)
(* are small numbers; the whole record is drawn at the start and the       *)
(* server tells the part of it that lies before its own clock.             *)
(***************************************************************************)
EXTENDS Integers, FiniteSets, FiniteSetsExt, SequencesExt

CONSTANTS
    EndOfTime,  \* bound: the last moment
    Grace,      \* central_node_stale_s
    Day,        \* the length of the shorter window; the longer one is all
    Early,      \* how long before the end of time the page is opened
    MaxRows,    \* bound: outage rows
    None

\* Times are whole numbers, and so are lengths of time.
ReplayAssumption == {EndOfTime, Grace, Day, Early} \subseteq Nat

Open == EndOfTime + 2              \* an interval that has not ended

VARIABLES
    rows,      \* outages: the rows of the device
    silences,  \* node_alerts: [at, back], NODE_STALE and the NODE_OK after it
    created,   \* org_devices.created_at
    clock,     \* the server's time
    on,        \* replayOn
    at,        \* replayAt: the cursor
    playing,
    days,      \* "day" or "week"
    recon      \* the reconstruction, None while the record is being read

record == <<rows, silences, created>>
page   == <<on, at, playing, days, recon>>
vars   == <<record, clock, page>>

Times == 0..EndOfTime
Spans == {s \in Times \X (Times \cup {Open}) : s[1] < s[2]}

TypeOK ==
    /\ rows \subseteq Spans /\ silences \subseteq Spans
    /\ created \in Times /\ clock \in Times
    /\ on \in BOOLEAN /\ playing \in BOOLEAN /\ days \in {"day", "week"}
    /\ at \in Times
    /\ recon # None => recon.since <= recon.until

-----------------------------------------------------------------------------
(***************************************************************************)
(* The server.                                                             *)
(***************************************************************************)
\* What has been written by now of an interval.
Known(ivs) ==
    {<<iv[1], IF iv[2] > clock THEN Open ELSE iv[2]>> :
        iv \in {i \in ivs : i[1] <= clock}}

Since == IF days = "day" THEN Max({0, clock - Day}) ELSE 0

\* The silence began before the watchdog could call it one.  The probe's last
\* mark from before the window is read too, or a silence under way at its
\* start would not be known.
stale_intervals(since) ==
    {<<Max({since, m[1] - Grace}), m[2]>> :
        m \in {s \in Known(silences) : s[2] > since}}

Reply ==
    [since |-> Since, until |-> clock, floor |-> created,
     spans |-> {iv \in Known(rows) : iv[2] >= Since},
     blind |-> stale_intervals(Since)]

-----------------------------------------------------------------------------
(***************************************************************************)
(* lib/replay.ts: a walk over sorted intervals.                            *)
(***************************************************************************)
Earlier(a, b) == a[1] < b[1] \/ (a[1] = b[1] /\ a[2] <= b[2])

\* Touching intervals become one.
Merged(out, iv) ==
    IF out # <<>> /\ iv[1] <= Last(out)[2]
    THEN Append(Front(out), <<Last(out)[1], Max({Last(out)[2], iv[2]})>>)
    ELSE Append(out, iv)

Sorted(ivs) ==
    CHOOSE s \in [1..Cardinality(ivs) -> ivs] :
        ToSet(s) = ivs /\ \A i, j \in DOMAIN s : i < j => Earlier(s[i], s[j])

merge(ivs) ==
    LET raw == Sorted(ivs)
        out[i \in 0..Len(raw)] == IF i = 0 THEN <<>> ELSE Merged(out[i - 1], raw[i])
    IN  out[Len(raw)]

\* The search of covers: the last interval that has begun is the only one
\* that can hold t.
covers(ivs, t) ==
    LET begun == {i \in DOMAIN ivs : ivs[i][1] <= t}
    IN  begun # {} /\ t < ivs[Max(begun)][2]

clip(ivs, since, until) ==
    {<<Max({iv[1], since}), Min({iv[2], until})>> :
        iv \in {i \in ToSet(ivs) : Min({i[2], until}) > Max({i[1], since})}}

\* MUTANT: an interval's end is not an event.
EventsAtStarts(r, down, blind) ==
    {t \in {r.floor} \cup {iv[1] : iv \in ToSet(down) \cup ToSet(blind)} :
        r.since < t /\ t < r.until}

\* mark: an event lies strictly inside the window.
Events(r, down, blind) ==
    LET ivs == ToSet(down) \cup ToSet(blind)
    IN  {t \in {r.floor} \cup {iv[1] : iv \in ivs}
                         \cup {iv[2] : iv \in {i \in ivs : i[2] # Open}} :
            r.since < t /\ t < r.until}

buildReconstruction(r) ==
    LET down == merge(r.spans)
        blind == merge(r.blind)
    IN  [since |-> r.since, until |-> r.until, floor |-> r.floor,
         down |-> down, blind |-> blind, events |-> Events(r, down, blind)]

stateAt(t) ==
    IF t < recon.floor THEN "unknown"
    ELSE IF covers(recon.down, t) THEN "down"
    ELSE IF covers(recon.blind, t) THEN "unknown"
    ELSE "up"

eventFloorAt(t) == Max({recon.since} \cup {e \in recon.events : e <= t})

downBars == clip(recon.down, recon.since, recon.until)

unknownBars ==
    clip(recon.blind, recon.since, recon.until)
      \cup (IF recon.floor > recon.since
            THEN {<<recon.since, Min({recon.floor, recon.until})>>} ELSE {})

\* projectDevices: without a reconstruction nothing can be claimed.
Picture == IF recon = None THEN "unknown" ELSE stateAt(eventFloorAt(at))

-----------------------------------------------------------------------------
(***************************************************************************)
(* The page.                                                               *)
(***************************************************************************)
\* The effects on the cursor: it is held in the window, and playback stops at
\* its end.
Cursor(t, plays) ==
    IF recon' = None THEN at' = t /\ playing' = plays
    ELSE /\ at' = Min({recon'.until, Max({recon'.since, t})})
         /\ playing' = (plays /\ t < recon'.until)

Init ==
    /\ rows \in kSubset(MaxRows, Spans)
    /\ \E s \in {{}} \cup {{iv} : iv \in Spans} : silences = s
    /\ created \in {0, 1}
    /\ clock = EndOfTime - Early
    /\ on \in BOOLEAN                   \* ?replay= opens the page in the past
    /\ at \in 0..clock
    /\ playing = FALSE
    /\ days \in {"day", "week"}
    /\ recon = None

Passes ==
    /\ clock < EndOfTime /\ clock' = clock + 1
    /\ UNCHANGED <<record, page>>

\* The query's answer: the first for this window, or a later one.
Read ==
    /\ on
    /\ recon' = buildReconstruction(Reply)
    /\ Cursor(at, playing)
    /\ UNCHANGED <<record, clock, on, days>>

\* The cursor stays where it was the last time.
Enter ==
    /\ ~on /\ on' = TRUE /\ playing' = FALSE
    /\ UNCHANGED <<record, clock, at, days, recon>>

Exit ==
    /\ on /\ on' = FALSE /\ playing' = FALSE
    /\ UNCHANGED <<record, clock, at, days, recon>>

\* Another window is another query: until it is read there is no record.
PickDays ==
    /\ on
    /\ days' = IF days = "day" THEN "week" ELSE "day"
    /\ recon' = None
    /\ Cursor(at, FALSE)
    /\ UNCHANGED <<record, clock, on>>

\* The slider and the Marey's track.
Scrub(t) ==
    /\ on /\ recon # None /\ t \in recon.since..recon.until
    /\ UNCHANGED <<on, days, recon>>
    /\ Cursor(t, FALSE)
    /\ UNCHANGED <<record, clock>>

\* nextEventAfter and prevEventBefore.
Step ==
    /\ on /\ recon # None
    /\ UNCHANGED <<on, days, recon>>
    /\ LET later == {e \in recon.events : e > at}
           before == {e \in recon.events : e < at}
       IN  \/ later # {} /\ Cursor(Min(later), FALSE)
           \/ before # {} /\ Cursor(Max(before), FALSE)
    /\ UNCHANGED <<record, clock>>

\* The button waits for the record; the space bar does not.
Play ==
    /\ on
    /\ UNCHANGED <<on, days, recon>>
    /\ Cursor(at, ~playing)
    /\ UNCHANGED <<record, clock>>

Tick ==
    /\ playing /\ on /\ recon # None
    /\ UNCHANGED <<on, days, recon>>
    /\ Cursor(Min({recon.until, at + 1}), playing)
    /\ UNCHANGED <<record, clock>>

Next ==
    \/ Passes \/ Read \/ Enter \/ Exit \/ PickDays \/ Step \/ Play \/ Tick
    \/ \E t \in Times : Scrub(t)

Spec == Init /\ [][Next]_vars

-----------------------------------------------------------------------------
(***************************************************************************)
(* Properties.                                                             *)
(***************************************************************************)
\* What the record says of a moment, read row by row.
Said(t) ==
    IF t < created THEN "unknown"
    ELSE IF \E iv \in Known(rows) : iv[1] <= t /\ t < iv[2] THEN "down"
    ELSE IF \E m \in Known(silences) : m[1] - Grace <= t /\ t < m[2]
         THEN "unknown"
    ELSE "up"

Within(bars) == \E iv \in bars : iv[1] <= at /\ at < iv[2]

\* The map and the Marey tell what the record says of the moment under the
\* cursor: neither the merging, nor the search, nor drawing the picture of the
\* last event instead of the moment, nor a window that has moved shows an up
\* device over an outage or over a silence.
PictureIsTheMoment ==
    on /\ recon # None /\ recon.until = clock /\ at < recon.until =>
        /\ Picture = Said(at)
        /\ Within(downBars) <=> Said(at) = "down" \/ (at < created /\ Within(downBars))
        /\ Said(at) = "unknown" => Within(unknownBars)
=============================================================================
