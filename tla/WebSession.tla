------------------------------ MODULE WebSession -----------------------------
(***************************************************************************)
(* Who a browser tab of the dashboard believes is signed in: AuthProvider  *)
(* (src/web/src/hooks/use-auth.tsx), the login page, RequireAuth, the      *)
(* probes of /api/me, and the 401 event that lib/api.ts raises; at the     *)
(* other end the session cookie (src/src/wisp/central/server.py, auth.py). *)
(*                                                                         *)
(* A session has a serial number, so that the model can tell the answer to *)
(* a question asked before a logout from one asked after it.  A request is *)
(* three steps: it is sent, the server answers, the answer arrives.        *)
(*                                                                         *)
(* The query cache is a library (react-query 5); what the model takes from *)
(* it: setQueryData(key, undefined) does nothing, clear() drops the        *)
(* queries under way, and a refetch that fails keeps the data it had.      *)
(***************************************************************************)
EXTENDS Naturals

CONSTANTS
    Owners,      \* accounts of organisations
    Supers,      \* superadmins
    Orgs,        \* what a superadmin can scope to
    FirstOrg,    \* the first organisation of /api/orgs
    NoUser, NoOrg,
    MaxSessions  \* bound: sessions opened in one behaviour

VARIABLES
    me,        \* the cache entry ["me"]: a session's user and serial, or NoUser
    cookie,    \* what the browser's cookie is worth at the server, same form
    serial,    \* the sessions opened so far
    probe,     \* the requests of /api/me, by who asked
    login,     \* the login form: what was asked of the server, or its answer
    code,      \* LoginPage totpRequired
    leaving,   \* the logout request
    page,      \* the route: the login page or the application
    expired,   \* SESSION_EXPIRED_KEY in sessionStorage
    scope,     \* superadminScope
    stored,    \* SCOPE_STORAGE_KEY in localStorage
    resolved,  \* scopeResolved
    dead,      \* history: the newest session when the server last logged out
    late       \* history: the probes under way when the last logout completed

vars == <<me, cookie, serial, probe, login, code, leaving, page, expired,
          scope, stored, resolved, dead, late>>
scopeVars == <<scope, stored, resolved>>

Users == Owners \cup Supers
\* Nobody is told from the user of a session.
SessionAssumption == NoUser \notin [user : Users, n : Nat]
Someone == [user : Users, n : 1..MaxSessions]
Who == Someone \cup {NoUser}

\* "query" is the cached query's own refetch on focus, "focus" the window
\* focus probe of AuthProvider, "stream" the probe of a dying event stream.
Askers == {"query", "focus", "stream"}

\* A request under way has no answer yet; NoUser is the answer 401.
Idle == [st |-> "idle", who |-> NoUser]
Sent == [st |-> "sent", who |-> NoUser]
Answered(who) == [st |-> "answered", who |-> who]

TypeOK ==
    /\ {me, cookie} \subseteq Who
    /\ serial \in 0..MaxSessions
    /\ probe \in [Askers -> [st : {"idle", "sent", "answered"}, who : Who]]
    /\ login \in [st : {"none", "sent", "wrong", "totp", "ok"}, who : Who]
    /\ leaving \in {"none", "sent", "answered"}
    /\ page \in {"login", "app"}
    /\ {code, expired, resolved} \subseteq BOOLEAN
    /\ {scope, stored} \subseteq Orgs \cup {NoOrg}
    /\ dead \in 0..MaxSessions
    /\ late \subseteq Askers

\* The login form has asked nothing, waits, was refused, was asked for the
\* second factor, or has its user.
NotAsked == [st |-> "none", who |-> NoUser]

\* RequireAuth: without a user the application is the login page.
Guarded(who) == IF who = NoUser THEN "login" ELSE page

(***************************************************************************)
(* A page load: nothing in memory, the cached query fetches at once.       *)
(***************************************************************************)
Init ==
    /\ me = NoUser /\ page = "app"
    /\ \/ cookie = NoUser /\ serial = 0
       \/ \E u \in Users : cookie = [user |-> u, n |-> 1] /\ serial = 1
    /\ probe = [a \in Askers |-> IF a = "query" THEN Sent ELSE Idle]
    /\ login = NotAsked /\ code = FALSE /\ leaving = "none"
    /\ expired = FALSE
    /\ stored \in Orgs \cup {NoOrg} /\ scope = stored /\ resolved = FALSE
    /\ dead = 0 /\ late = {}

(***************************************************************************)
(* The probes.                                                             *)
(***************************************************************************)
\* A stream lives under RequireAuth whoever is signed in; the focus probe
\* asks only for a known user; a focused window always refetches the query.
MayAsk(asker) == asker = "focus" => me # NoUser

Ask(asker) ==
    /\ probe[asker] = Idle
    /\ MayAsk(asker)
    /\ probe' = [probe EXCEPT ![asker] = Sent]
    /\ UNCHANGED <<me, cookie, serial, login, code, leaving, page, expired,
                   scopeVars, dead, late>>

\* The server answers with the session's user, or 401.
AnswerProbe(asker) ==
    /\ probe[asker] = Sent
    /\ probe' = [probe EXCEPT ![asker] = Answered(cookie)]
    /\ UNCHANGED <<me, cookie, serial, login, code, leaving, page, expired,
                   scopeVars, dead, late>>

\* A 401 anywhere raises wisp:unauthorized.  The handler notes that a session
\* has expired; its setQueryData(["me"], undefined) leaves the cache alone.
Unauthorized ==
    /\ expired' = (expired \/ me # NoUser)
    /\ UNCHANGED me

\* The answer arrives.  The stream's probe ignores what it says.
Learn(asker) ==
    LET who == probe[asker].who IN
    /\ probe[asker].st = "answered"
    /\ probe' = [probe EXCEPT ![asker] = Idle]
    /\ late' = late \ {asker}
    /\ IF who = NoUser
       THEN Unauthorized
       ELSE /\ me' = IF asker = "stream" THEN me ELSE who
            /\ UNCHANGED expired
    /\ page' = IF asker = "query" THEN Guarded(me') ELSE page
    /\ UNCHANGED <<cookie, serial, login, code, leaving, scopeVars, dead>>

(***************************************************************************)
(* The login page.                                                         *)
(***************************************************************************)
Submit ==
    /\ page = "login" /\ login.st \in {"none", "wrong", "totp"}
    /\ login.st = "totp" => code
    /\ login' = [NotAsked EXCEPT !.st = "sent"]
    /\ UNCHANGED <<me, cookie, serial, probe, code, leaving, page, expired,
                   scopeVars, dead, late>>

\* The server opens a session, or asks for the second factor, or refuses; the
\* last two are a 401 like any other.
AnswerLogin ==
    /\ login.st = "sent"
    /\ \/ /\ login' \in {[NotAsked EXCEPT !.st = "totp"],
                        [NotAsked EXCEPT !.st = "wrong"]}
          /\ Unauthorized
          /\ UNCHANGED <<cookie, serial>>
       \/ /\ serial < MaxSessions
          /\ serial' = serial + 1
          /\ \E u \in Users : cookie' = [user |-> u, n |-> serial + 1]
          /\ login' = [st |-> "ok", who |-> cookie']
          /\ UNCHANGED <<me, expired>>
    /\ UNCHANGED <<probe, code, leaving, page, scopeVars, dead, late>>

\* The second factor stays asked for once it has been.
AskForCode ==
    /\ login.st = "totp" /\ ~code
    /\ code' = TRUE
    /\ UNCHANGED <<me, cookie, serial, probe, login, leaving, page, expired,
                   scopeVars, dead, late>>

\* A success is the user, and the way back to the page.
LoggedIn ==
    /\ login.st = "ok"
    /\ me' = login.who
    /\ login' = NotAsked /\ code' = FALSE /\ page' = "app"
    /\ UNCHANGED <<cookie, serial, probe, leaving, expired, scopeVars, dead,
                   late>>

(***************************************************************************)
(* Logging out.                                                            *)
(***************************************************************************)
Logout ==
    /\ page = "app" /\ me # NoUser /\ leaving = "none"
    /\ leaving' = "sent"
    /\ UNCHANGED <<me, cookie, serial, probe, login, code, page, expired,
                   scopeVars, dead, late>>

\* The server ends the session and clears the cookie, whoever it belongs to.
AnswerLogout ==
    /\ leaving = "sent"
    /\ leaving' = "answered"
    /\ cookie' = NoUser
    /\ dead' = serial
    /\ UNCHANGED <<me, serial, probe, login, code, page, expired, scopeVars,
                   late>>

\* logout() rejects when its request or the answer is lost: nothing is undone.
LoseLogout ==
    /\ leaving # "none"
    /\ leaving' = "none"
    /\ UNCHANGED <<me, cookie, serial, probe, login, code, page, expired,
                   scopeVars, dead, late>>

\* What the tab forgets.
SignedOut ==
    /\ leaving = "answered"
    /\ leaving' = "none"
    /\ me' = NoUser /\ page' = "login" /\ code' = FALSE /\ login' = NotAsked
    /\ expired' = FALSE
    /\ scope' = NoOrg /\ stored' = NoOrg /\ resolved' = FALSE
    /\ UNCHANGED <<cookie, serial, dead>>

\* MUTANT: the queries under way survive the logout.
LoggedOutUncleared ==
    /\ SignedOut
    /\ late' = {a \in {"focus"} : probe[a] # Idle}
    /\ UNCHANGED probe

\* clear() drops the cached query's request; a focus probe is a bare promise
\* and goes on.  The login page takes the note of expiry away with it.
LoggedOut ==
    /\ SignedOut
    /\ probe' = [probe EXCEPT !["query"] = Idle]
    /\ late' = {a \in {"focus"} : probe[a] # Idle}

(***************************************************************************)
(* A superadmin's organisation.                                            *)
(***************************************************************************)
IsSuper == me # NoUser /\ me.user \in Supers

\* The effect of the first answer: a stored scope stands, else the first
\* organisation is taken, once.
ResolveScope ==
    /\ IsSuper /\ ~resolved
    /\ resolved' = TRUE
    /\ IF stored # NoOrg
       THEN UNCHANGED <<scope, stored>>
       ELSE scope' = FirstOrg /\ stored' = FirstOrg
    /\ UNCHANGED <<me, cookie, serial, probe, login, code, leaving, page,
                   expired, dead, late>>

SetScopeOrg(org) ==
    /\ IsSuper /\ page = "app"
    /\ scope' = org /\ stored' = org
    /\ UNCHANGED <<me, cookie, serial, probe, login, code, leaving, page,
                   expired, resolved, dead, late>>

\* The organisation the whole dashboard asks for.
ScopeOrg ==
    CASE me = NoUser -> NoOrg
      [] IsSuper -> scope
      [] OTHER -> "own"

(***************************************************************************)
(* The world: the session ends, or another tab signs in, or a reload.      *)
(***************************************************************************)
SessionEnds ==
    /\ cookie # NoUser
    /\ cookie' = NoUser
    /\ UNCHANGED <<me, serial, probe, login, code, leaving, page, expired,
                   scopeVars, dead, late>>

OtherTabSignsIn(u) ==
    /\ serial < MaxSessions
    /\ serial' = serial + 1
    /\ cookie' = [user |-> u, n |-> serial + 1]
    /\ UNCHANGED <<me, probe, login, code, leaving, page, expired, scopeVars,
                   dead, late>>

Reload ==
    /\ me' = NoUser /\ page' = "app"
    /\ probe' = [a \in Askers |-> IF a = "query" THEN Sent ELSE Idle]
    /\ login' = NotAsked /\ code' = FALSE /\ leaving' = "none"
    /\ scope' = stored /\ resolved' = FALSE /\ late' = {}
    /\ UNCHANGED <<cookie, serial, expired, stored, dead>>

Next ==
    \/ \E a \in Askers : Ask(a) \/ AnswerProbe(a) \/ Learn(a)
    \/ Submit \/ AnswerLogin \/ AskForCode \/ LoggedIn
    \/ Logout \/ AnswerLogout \/ LoseLogout \/ LoggedOut
    \/ ResolveScope
    \/ \E org \in Orgs \cup {NoOrg} : SetScopeOrg(org)
    \/ SessionEnds
    \/ \E u \in Users : OtherTabSignsIn(u)
    \/ Reload

Spec == Init /\ [][Next]_vars

(***************************************************************************)
(* Properties.                                                             *)
(***************************************************************************)
\* A logged-out tab shows a user again only for a session opened after the
\* session it left.  The one exception is a focus probe the server answered
\* before the logout and the network delivered after it: its `then` writes
\* the user into the cleared cache (hooks/use-auth.tsx:61).
LogoutIsFinal ==
    [][me = NoUser /\ me' # NoUser => me'.n > dead \/ "focus" \in late]_vars

\* use-event-stream.ts:17 says that a 401 "dispatches wisp:unauthorized and
\* lands on the login page": whoever was signed in when a probe's 401 arrives
\* is not any more.
A401LandsOnLogin ==
    [][\A a \in {"stream", "focus"} :
         (probe[a] = Answered(NoUser) /\ probe'[a] = Idle /\ me # NoUser
            /\ leaving = "none")
           => page' = "login" \/ me' = NoUser]_vars
=============================================================================
