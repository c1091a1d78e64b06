-------------------------------- MODULE WebProxy --------------------------------
(***************************************************************************)
(* The device web proxy: a browser tab looks at the web UI of a device of  *)
(* the operator's network through a session central holds in memory and on *)
(* record.  A request of the tab waits at central for one of the few slots *)
(* of the device, is parked until a worker of the node's tunnel polls for  *)
(* it, and is answered under its number; it can time out at every stage,   *)
(* and the edge does not learn of that.                                    *)
(*                                                                         *)
(* `life` counts the starts of central and is not part of what is sent.    *)
(***************************************************************************)
EXTENDS Naturals, Sequences, FiniteSets

CONSTANTS
    Devices, Ports,        \* of one node
    Tabs, Workers,
    None,
    Slots,                 \* requests a device is sent at a time
    MaxInflight,           \* requests a session may have at central
    MaxSids, MaxRequests,  \* bounds
    MaxMoves               \* bound: clicks, calls that fail, sessions that run out, restarts

Sids == 1 .. MaxSids

ProxyAssumption == MaxSids \in Nat

VARIABLES
    flag,      \* whether the organisation has the capability
    hub,       \* central's sessions: a device and a port, and a cached asset
    ran,       \* those whose time has run out
    rows,      \* the record of the sessions
    requests,  \* what the browser's calls wait for at central
    inbox,     \* requests parked for the node, those that timed out included
    seq, life, sent,
    workers,   \* the request a worker of the tunnel has, or its answer
    opening,   \* sessions that are being created, and for which tab
    tabs,      \* what a tab shows, None when it is closed
    watched,   \* _openTabs: the tab that is watched for a session
    listed,    \* the sessions the dashboard believes to be live
    lastPort,  \* the port each device was opened with last
    moves      \* bound

central == <<hub, ran, requests, inbox, seq, life, sent>>
browser == <<opening, tabs, watched, listed, lastPort>>
vars == <<flag, rows, central, workers, browser, moves>>

\* A tab with the session it is opened on, the page it shows and the request
\* that page was the answer to (0 for a cached one).
Tab(s) == [sid |-> s, page |-> None, asked |-> 0]
Page(r) == [sid |-> r.sid, k |-> r.k, life |-> r.life]
Error == [sid |-> 0, k |-> 0, life |-> 0]

Init ==
    /\ flag = TRUE
    /\ hub = [s \in Sids |-> None]
    /\ ran = {}
    /\ rows = [s \in Sids |-> "none"]
    /\ requests = {}
    /\ inbox = <<>>
    /\ seq = 0
    /\ life = 0
    /\ sent = 0
    /\ workers = [w \in Workers |-> None]
    /\ opening = {}
    /\ tabs = [t \in Tabs |-> None]
    /\ watched = [s \in Sids |-> None]
    /\ listed = {}
    /\ lastPort = [d \in Devices |-> None]
    /\ moves = 0

--------------------------------------------------------------------------------
(* Sessions. *)

Known(s) == hub[s] # None
has_session(s) == Known(s) /\ s \notin ran
Taken == {s \in Sids : rows[s] # "none" \/ Known(s) \/ \E o \in opening : o.sid = s}

Closed(S) == [s \in Sids |-> IF s \in S THEN None ELSE hub[s]]
Recorded(S, status) ==
    [s \in Sids |-> IF s \in S /\ rows[s] = "open" THEN status ELSE rows[s]]

\* openDeviceWebUi: the tab is there before the session is.
WebUiButton(t, d, p) ==
    /\ tabs[t] = None
    /\ Taken # Sids
    /\ LET s == CHOOSE s \in Sids \ Taken : \A u \in Sids \ Taken : s <= u
       IN  /\ opening' = opening \cup {[sid |-> s, tab |-> t, device |-> d,
                                        asked |-> p, port |-> p, step |-> "preflight"]}
           /\ tabs' = [tabs EXCEPT ![t] = Tab(None)]
    /\ UNCHANGED <<flag, rows, central, workers, watched, listed, lastPort>>

Becomes(o, new) == opening' = (opening \ {o}) \cup new

\* The preflight goes through the tunnel too; all it does is to choose the port.
session_create(o) ==
    /\ \/ /\ o.step = "preflight" /\ flag
          /\ \E p \in Ports : Becomes(o, {[o EXCEPT !.port = p, !.step = "replace"]})
          /\ UNCHANGED <<hub, rows>>
       \/ /\ o.step = "replace"
          /\ hub' = [s \in Sids |-> None]
          /\ Becomes(o, {[o EXCEPT !.step = "replace rows"]})
          /\ UNCHANGED rows
       \/ /\ o.step = "replace rows"
          /\ rows' = Recorded(Sids, "closed")
          /\ Becomes(o, {[o EXCEPT !.step = "open"]})
          /\ UNCHANGED hub
       \/ /\ o.step = "open"
          /\ hub' = [hub EXCEPT ![o.sid] =
                         [device |-> o.device, port |-> o.port, cached |-> None]]
          /\ Becomes(o, {[o EXCEPT !.step = "record"]})
          /\ UNCHANGED rows
       \/ /\ o.step = "record"
          /\ rows' = [rows EXCEPT ![o.sid] = "open"]
          /\ Becomes(o, {[o EXCEPT !.step = "reply"]})
          /\ UNCHANGED hub
    /\ UNCHANGED <<flag, ran, requests, inbox, seq, life, sent, workers, tabs,
                   watched, listed, lastPort>>

\* A tab the user has closed meanwhile is watched all the same.
Opened(o) ==
    /\ o.step = "reply"
    /\ Becomes(o, {})
    /\ tabs' = IF tabs[o.tab] = Tab(None) THEN [tabs EXCEPT ![o.tab] = Tab(o.sid)]
               ELSE tabs
    /\ watched' = [watched EXCEPT ![o.sid] = o.tab]
    /\ lastPort' = [lastPort EXCEPT ![o.device] = o.asked]
    /\ UNCHANGED <<flag, rows, central, workers, listed>>

\* Refused, nothing answered the preflight, or the call was lost.
OpenFailed(o) ==
    /\ o.step \in {"preflight", "reply"}
    /\ Becomes(o, {})
    /\ tabs' = IF tabs[o.tab] = Tab(None) THEN [tabs EXCEPT ![o.tab] = None]
               ELSE tabs
    /\ UNCHANGED <<flag, rows, central, workers, watched, listed, lastPort>>

\* From the list of sessions, in a tab of its own.
OpenListed(t, s) ==
    /\ tabs[t] = None
    /\ s \in listed
    /\ \A o \in opening \cup requests : o.tab # t
    /\ tabs' = [tabs EXCEPT ![t] = Tab(s)]
    /\ watched' = [watched EXCEPT ![s] = t]
    /\ UNCHANGED <<flag, rows, central, workers, opening, listed, lastPort>>

CloseTab(t) ==
    /\ tabs[t] # None
    /\ tabs' = [tabs EXCEPT ![t] = None]
    /\ UNCHANGED <<flag, rows, central, workers, opening, watched, listed, lastPort>>

session_close(s) ==
    /\ rows[s] # "none"
    /\ hub' = Closed({s})
    /\ rows' = Recorded({s}, "closed")

\* The call that closes the session may be lost.
SweepClosedTabs(s) ==
    /\ watched[s] # None /\ tabs[watched[s]] = None
    /\ watched' = [watched EXCEPT ![s] = None]
    /\ \/ session_close(s)
       \/ UNCHANGED <<hub, rows>>
    /\ UNCHANGED <<flag, ran, requests, inbox, seq, life, sent, workers, opening,
                   tabs, listed, lastPort>>

CloseListed(s) ==
    /\ s \in listed
    /\ session_close(s)
    /\ UNCHANGED <<flag, ran, requests, inbox, seq, life, sent, workers, browser>>

\* Looking at the sessions forgets those that have run out; their rows stay.
sessions_list ==
    /\ hub' = Closed(ran)
    /\ listed' = {s \in Sids : rows[s] = "open" /\ has_session(s)}
    /\ listed' # listed \/ hub' # hub
    /\ UNCHANGED <<flag, rows, ran, requests, inbox, seq, life, sent, workers,
                   opening, tabs, watched, lastPort>>

reap_expired ==
    /\ \E s \in ran : Known(s)
    /\ hub' = Closed(ran)
    /\ rows' = Recorded({s \in ran : Known(s)}, "expired")
    /\ UNCHANGED <<flag, ran, requests, inbox, seq, life, sent, workers, browser>>

RunOut(s) ==
    /\ has_session(s)
    /\ ran' = ran \cup {s}
    /\ UNCHANGED <<flag, hub, rows, requests, inbox, seq, life, sent, workers,
                   browser>>

--------------------------------------------------------------------------------
(* Requests. *)

Shows(t, k, p) == tabs' = [tabs EXCEPT ![t].page = p, ![t].asked = k]
StillThere(r) == tabs[r.tab] # None /\ tabs[r.tab].sid = r.sid
ShowsIfThere(r, p) == IF StillThere(r) THEN Shows(r.tab, r.k, p) ELSE tabs' = tabs
InflightOf(s) == {r \in requests : r.sid = s /\ r.stage = "parked"}

\* The page asks for something; an asset may be in the session's cache.
browser_request(t, asset) ==
    /\ tabs[t] # None /\ tabs[t].sid # None
    /\ sent < MaxRequests
    /\ sent' = sent + 1
    /\ LET s == tabs[t].sid IN
       \/ /\ ~has_session(s)
          /\ hub' = Closed({s})
          /\ rows' = Recorded({s}, "expired")
          /\ Shows(t, 0, None)
          /\ UNCHANGED requests
       \/ /\ has_session(s) /\ ~flag
          /\ hub' = Closed({s})
          /\ rows' = Recorded({s}, "closed")
          /\ Shows(t, 0, None)
          /\ UNCHANGED requests
       \/ /\ has_session(s) /\ flag
          /\ IF asset /\ hub[s].cached # None
             THEN Shows(t, 0, hub[s].cached) /\ UNCHANGED requests
             ELSE IF Cardinality(InflightOf(s)) >= MaxInflight
             THEN Shows(t, 0, None) /\ UNCHANGED requests
             ELSE /\ requests' = requests \cup
                         {[k |-> sent', sid |-> s, tab |-> t, asset |-> asset,
                           device |-> hub[s].device, life |-> life,
                           n |-> 0, stage |-> "waiting", answer |-> None]}
                  /\ UNCHANGED tabs
          /\ UNCHANGED <<hub, rows>>
    /\ UNCHANGED <<flag, ran, inbox, seq, life, workers, opening, watched, listed,
                   lastPort>>

Advanced(r, new) == requests' = (requests \ {r}) \cup new
Busy(d) == {r \in requests : r.device = d /\ r.stage = "parked"}

\* Mutant: a number is free again when its request has ended.
NumberReused == Cardinality({r \in requests : r.stage = "parked"}) + 1
\* The number a request goes by.
Number == seq + 1

\* A slot of the device is free.  Numbers begin anew when central does.
submit(r) ==
    /\ r.stage = "waiting"
    /\ Cardinality(Busy(r.device)) < Slots
    /\ LET parked == [r EXCEPT !.n = Number, !.stage = "parked"]
       IN  Advanced(r, {parked}) /\ inbox' = Append(inbox, parked)
    /\ seq' = seq + 1
    /\ UNCHANGED <<flag, hub, ran, rows, life, sent, workers, browser>>

\* Its slot is released; what is parked stays parked.
TimedOut(r) ==
    /\ Advanced(r, {})
    /\ ShowsIfThere(r, None)
    /\ UNCHANGED <<flag, hub, ran, rows, inbox, seq, life, sent, workers, opening,
                   watched, listed, lastPort>>

\* The answer may have been lost on its way to the edge.
next_request(w) ==
    /\ workers[w] = None
    /\ inbox # <<>>
    /\ inbox' = Tail(inbox)
    /\ workers' \in {workers, [workers EXCEPT ![w] = Head(inbox)]}
    /\ UNCHANGED <<flag, hub, ran, rows, requests, seq, life, sent, browser>>

\* The device answers, or the worker reports why not.
Serve(w) ==
    /\ workers[w] # None /\ workers[w].answer = None
    /\ \E a \in {Page(workers[w]), Error} :
           workers' = [workers EXCEPT ![w].answer = a]
    /\ UNCHANGED <<flag, rows, central, browser>>

\* The worker's reply reaches central, or does not.
deliver(w) ==
    /\ workers[w] # None /\ workers[w].answer # None
    /\ workers' = [workers EXCEPT ![w] = None]
    /\ \/ \E r \in requests :
              /\ r.stage = "parked" /\ r.n = workers[w].n
              /\ Advanced(r, {[r EXCEPT !.answer = workers[w].answer]})
       \/ UNCHANGED requests
    /\ UNCHANGED <<flag, hub, ran, rows, inbox, seq, life, sent, browser>>

\* The edge restarts.
Dropped(w) ==
    /\ workers[w] # None
    /\ workers' = [workers EXCEPT ![w] = None]
    /\ UNCHANGED <<flag, rows, central, browser>>

\* The browser's call goes on with the answer.
Answered(r) ==
    /\ r.answer # None
    /\ Advanced(r, {})
    /\ IF r.answer = Error
       THEN ShowsIfThere(r, None) /\ UNCHANGED hub
       ELSE /\ ShowsIfThere(r, r.answer)
            /\ hub' = IF r.asset /\ Known(r.sid)
                      THEN [hub EXCEPT ![r.sid].cached = r.answer]
                      ELSE hub
    /\ UNCHANGED <<flag, ran, rows, inbox, seq, life, sent, workers, opening,
                   watched, listed, lastPort>>

--------------------------------------------------------------------------------
set_org_web_proxy ==
    /\ flag' = ~flag
    /\ UNCHANGED <<rows, central, workers, browser>>

\* Central starts anew; the calls that wait fail, and the edge goes on.
Restart ==
    /\ life' = life + 1
    /\ hub' = [s \in Sids |-> None]
    /\ ran' = {}
    /\ requests' = {}
    /\ inbox' = <<>>
    /\ seq' = 0
    /\ tabs' = [t \in Tabs |->
                   IF tabs[t] = None \/ \E o \in opening : o.tab = t
                   THEN None ELSE [tabs[t] EXCEPT !.page = None, !.asked = 0]]
    /\ opening' = {}
    /\ UNCHANGED <<flag, rows, sent, workers, watched, listed, lastPort>>

Moves ==
    \/ \E t \in Tabs : CloseTab(t)
    \/ \E s \in Sids : CloseListed(s) \/ RunOut(s)
    \/ \E w \in Workers : Dropped(w)
    \/ \E o \in opening : OpenFailed(o)
    \/ set_org_web_proxy
    \/ Restart

Works ==
    \/ \E t \in Tabs :
           \/ \E d \in Devices, p \in Ports : WebUiButton(t, d, p)
           \/ \E asset \in BOOLEAN : browser_request(t, asset)
    \/ \E o \in opening : session_create(o) \/ Opened(o)
    \/ \E r \in requests : submit(r) \/ TimedOut(r) \/ Answered(r)
    \/ \E w \in Workers : next_request(w) \/ Serve(w) \/ deliver(w)
    \/ \E s \in Sids : SweepClosedTabs(s)
    \/ \E t \in Tabs, s \in Sids : OpenListed(t, s)
    \/ sessions_list \/ reap_expired

Next ==
    \/ Works /\ UNCHANGED moves
    \/ moves < MaxMoves /\ moves' = moves + 1 /\ Moves

Spec == Init /\ [][Next]_vars

--------------------------------------------------------------------------------
(***************************************************************************)
(* A page is the answer to the very request of the tab, or an asset of its *)
(* own session, although requests that timed out are fetched and answered  *)
(* all the same, sessions replace each other and answers are lost; as far  *)
(* as central was not started anew since it was asked (proxy.py, deliver). *)
(***************************************************************************)
AnswersAreTheirOwn ==
    \A t \in Tabs :
        tabs[t] # None /\ tabs[t].page # None /\ tabs[t].page.life = life
        => /\ tabs[t].page.sid = tabs[t].sid
           /\ tabs[t].asked \in {0, tabs[t].page.k}
================================================================================
