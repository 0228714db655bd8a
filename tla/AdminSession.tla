----------------------------- MODULE AdminSession -----------------------------
(* The administrator's sessions: the center's table of them, kept in memory  *)
(* only, the cookies of the browsers, and the pages that send a browser from *)
(* one to the other.  A request carries the cookie of the moment it is sent; *)
(* its handler reads the clock, then takes the table's mutex, then acts, and *)
(* the answer may change the cookie of another moment.  Passwords, wrong     *)
(* ones included, are BanStore's.                                            *)
EXTENDS Integers, Sequences, FiniteSets, Functions

CONSTANTS Browsers,
          Requests,   \* requests at a time, tabs and pages of all browsers
          TTL,        \* adminSessionTTL, 24 h
          MaxTime, MaxLogins, MaxRestarts    \* bounds

ASSUME SessionAssumption == {TTL, MaxTime, MaxLogins, MaxRestarts} \subseteq Nat

VARIABLES
    clock,
    sessions,   \* s.adminSessions: when each expires
    cookie,     \* of each browser
    req,        \* what each request has come to
    \* what happened so far
    expiry,     \* when each session ever made ends
    over,       \* sessions that were logged out, or lost by a restart
    restarts

vars == <<clock, sessions, cookie, req, expiry, over, restarts>>

NoSession == 0
Free == [at |-> "free"]

Init ==
    /\ clock = 0 /\ sessions = [s \in {} |-> 0]
    /\ cookie = [b \in Browsers |-> NoSession]
    /\ req = [r \in Requests |-> Free]
    /\ expiry = << >> /\ over = {} /\ restarts = 0

-----------------------------------------------------------------------------
LoggingIn(r) == req[r].at = "sent" /\ req[r].kind = "in"

\* A browser opens /admin or /admin/login, calls the API, logs in or out.
Send(r, b, kind) ==
    /\ req[r] = Free
    /\ kind = "in" => Len(expiry) + Cardinality({q \in Requests : LoggingIn(q)}) < MaxLogins
    /\ req' = [req EXCEPT ![r] = [at |-> "sent", of |-> b, kind |-> kind, sid |-> cookie[b]]]
    /\ UNCHANGED <<clock, sessions, cookie, expiry, over, restarts>>

\* The handler reads the clock.
Arrive(r) ==
    /\ req[r].at = "sent" /\ req[r].kind \in {"admin", "gate", "api"}
    /\ req' = [req EXCEPT ![r] = [at |-> "timed", of |-> @.of, kind |-> @.kind, sid |-> @.sid,
                                  now |-> clock, dead |-> @.sid \in over]]
    /\ UNCHANGED <<clock, sessions, cookie, expiry, over, restarts>>

\* Mutant of Live: a tick early.
LiveShort(sid, now) == sid \in DOMAIN sessions /\ now < sessions[sid]

\* "now.After(sess.ExpiresAt)" ends a session.
Live(sid, now) == sid \in DOMAIN sessions /\ now <= sessions[sid]

\* isAdminAuthedBySession deletes what it finds expired; handleAdminSession does
\* the same.
Pruned(sid, now) == IF Live(sid, now) THEN sessions ELSE Restrict(sessions, DOMAIN sessions \ {sid})

\* Mutant of Gate: the login page trusts any cookie.
GateAny(q) == q.sid # NoSession

\* Whether the login page lets a browser pass on to /admin.
Gate(q) == Live(q.sid, q.now)

To(q, kind, why) == [at |-> "redirect", of |-> q.of, kind |-> kind, why |-> why, sid |-> q.sid]

\* /admin: the page, or a redirect to the login page.  An API call that is
\* refused makes the page go there too.
Check(r) ==
    LET q == req[r]
    IN  /\ q.at = "timed" /\ q.kind \in {"admin", "api"}
        /\ req' = [req EXCEPT ![r] = IF Live(q.sid, q.now) THEN [q EXCEPT !.at = "act"]
                                     ELSE To(q, "gate", "refused")]
        /\ sessions' = Pruned(q.sid, q.now)
        /\ UNCHANGED <<clock, cookie, expiry, over, restarts>>

\* /admin/login: the form, or a redirect to /admin.
LoginPage(r) ==
    LET q == req[r]
    IN  /\ q.at = "timed" /\ q.kind = "gate"
        /\ req' = [req EXCEPT ![r] = IF Gate(q) THEN To(q, "admin", "moved") ELSE Free]
        /\ sessions' = Pruned(q.sid, q.now)
        /\ UNCHANGED <<clock, cookie, expiry, over, restarts>>

\* The browser follows with the cookie it has then.
Follow(r) ==
    /\ req[r].at = "redirect"
    /\ req' = [req EXCEPT ![r] = [at |-> "sent", of |-> @.of, kind |-> @.kind, sid |-> cookie[@.of]]]
    /\ UNCHANGED <<clock, sessions, cookie, expiry, over, restarts>>

\* The page is served, or the call has read its body and does its work.
Act(r) ==
    /\ req[r].at = "act" /\ req' = [req EXCEPT ![r] = Free]
    /\ UNCHANGED <<clock, sessions, cookie, expiry, over, restarts>>

\* newAdminSession: a random id; the answer sets the cookie.
SignIn(r) ==
    LET sid == Len(expiry) + 1
        until == clock + TTL
    IN  /\ LoggingIn(r)
        /\ sessions' = [s \in DOMAIN sessions \cup {sid} |-> IF s = sid THEN until ELSE sessions[s]]
        /\ expiry' = Append(expiry, until)
        /\ req' = [req EXCEPT ![r] = [at |-> "answer", of |-> @.of, kind |-> "in", sid |-> sid]]
        /\ UNCHANGED <<clock, cookie, over, restarts>>

\* Mutant of Ended: logging out only clears the cookie.
EndedNone(sid) == sessions

\* deleteAdminSession
Ended(sid) == Restrict(sessions, DOMAIN sessions \ {sid})

SignOut(r) ==
    LET sid == req[r].sid
    IN  /\ req[r].at = "sent" /\ req[r].kind = "out"
        /\ sessions' = Ended(sid)
        /\ over' = IF sid = NoSession THEN over ELSE over \cup {sid}
        /\ req' = [req EXCEPT ![r] = [at |-> "answer", of |-> @.of, kind |-> "out", sid |-> NoSession]]
        /\ UNCHANGED <<clock, cookie, expiry, restarts>>

\* The answer sets or clears whatever cookie there is by then, and the page
\* moves on.
Answer(r) ==
    LET q == req[r]
    IN  /\ q.at = "answer"
        /\ cookie' = [cookie EXCEPT ![q.of] = q.sid]
        /\ req' = [req EXCEPT ![r] = To(q, IF q.kind = "in" THEN "admin" ELSE "gate", "moved")]
        /\ UNCHANGED <<clock, sessions, expiry, over, restarts>>

\* An answer is lost, or its page was closed.
Lose(r) ==
    /\ req[r].at \in {"redirect", "answer"} /\ req' = [req EXCEPT ![r] = Free]
    /\ UNCHANGED <<clock, sessions, cookie, expiry, over, restarts>>

\* A cookie ends with its session, or earlier.
Forget(b) ==
    /\ cookie[b] # NoSession /\ cookie' = [cookie EXCEPT ![b] = NoSession]
    /\ UNCHANGED <<clock, sessions, req, expiry, over, restarts>>

\* The table is not persisted.
Restart ==
    /\ restarts < MaxRestarts /\ restarts' = restarts + 1
    /\ sessions' = [s \in {} |-> 0] /\ over' = DOMAIN expiry
    /\ req' = [r \in Requests |-> IF req[r].at \in {"timed", "act"} THEN Free ELSE req[r]]
    /\ UNCHANGED <<clock, cookie, expiry>>

Tick ==
    /\ clock < MaxTime /\ clock' = clock + 1
    /\ UNCHANGED <<sessions, cookie, req, expiry, over, restarts>>

Kinds == {"admin", "gate", "api", "in", "out"}

Handle(r) ==
    \/ Arrive(r) \/ Check(r) \/ LoginPage(r) \/ Act(r)
    \/ SignIn(r) \/ SignOut(r) \/ Follow(r) \/ Answer(r)

Next ==
    \/ \E r \in Requests, b \in Browsers, kind \in Kinds : Send(r, b, kind)
    \/ \E r \in Requests : Handle(r) \/ Lose(r)
    \/ \E b \in Browsers : Forget(b)
    \/ Restart \/ Tick

Spec == Init /\ [][Next]_vars

\* Handlers run and browsers follow redirects; nobody has to log in or out.
FairSpec == Spec /\ \A r \in Requests : WF_vars(Handle(r))

-----------------------------------------------------------------------------
Sids == DOMAIN expiry

Request ==
    [at : {"sent"}, of : Browsers, kind : Kinds, sid : Sids \cup {NoSession}]
    \cup [at : {"timed", "act"}, of : Browsers, kind : {"admin", "gate", "api"},
          sid : Sids \cup {NoSession}, now : Nat, dead : BOOLEAN]
    \cup [at : {"redirect"}, of : Browsers, kind : {"admin", "gate"}, why : {"refused", "moved"},
          sid : Sids \cup {NoSession}]
    \cup [at : {"answer"}, of : Browsers, kind : {"in", "out"}, sid : Sids \cup {NoSession}]

\* Every variable stays in its type, and the table holds nothing that was not
\* issued, that was ended, or with another expiry.
TypeOK ==
    /\ clock \in Nat /\ expiry \in Seq(Nat) /\ restarts \in Nat
    /\ over \subseteq Sids /\ DOMAIN sessions \subseteq Sids \ over
    /\ \A s \in DOMAIN sessions : sessions[s] = expiry[s]
    /\ cookie \in [Browsers -> Sids \cup {NoSession}]
    /\ req \in [Requests -> Request \cup {Free}]

\* Nothing that arrives after a logout was handled is let in with its session,
\* from no tab and with no copy of the cookie; a restart ends every session.
LogoutIsFinal == \A r \in Requests : req[r].at = "act" => req[r].sid # NoSession /\ ~req[r].dead

\* A request is refused only when its session was ended or has expired by then:
\* no login, logout or expiry of another session disturbs it.
RefusedForCause ==
    \A r \in Requests :
        LET q == req[r]
        IN  q.at = "redirect" /\ q.why = "refused" =>
                q.sid = NoSession \/ q.sid \in over \/ clock > expiry[q.sid]

\* /admin and /admin/login do not send a browser back and forth for ever, not
\* even when its session ends between the two.
RedirectsEnd == \A r \in Requests : req[r].at = "redirect" ~> req[r].at \in {"free", "act"}
===============================================================================
