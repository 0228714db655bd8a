-------------------------- MODULE AdminSessionProofs --------------------------
(* What holds of the administrator's sessions for any number of browsers and *)
(* requests, any time to live, any number of logins, logouts and restarts.   *)
EXTENDS AdminSession, TLAPS

\* What a request may be depends on nothing but the sessions issued.
LEMMA RequestGrows == ASSUME Sids \subseteq Sids' PROVE Request \subseteq Request'
  BY DEF Request

TableOK ==
    /\ DOMAIN sessions \subseteq Sids \ over
    /\ \A s \in DOMAIN sessions : sessions[s] = expiry[s]

ReqOK == req \in [Requests -> Request \cup {Free}]

RestOK ==
    /\ clock \in Nat /\ expiry \in Seq(Nat) /\ restarts \in Nat /\ over \subseteq Sids
    /\ cookie \in [Browsers -> Sids \cup {NoSession}]

\* Deleting what has expired leaves the other entries as they are.
LEMMA PrunedKeeps ==
    ASSUME NEW sid, NEW now
    PROVE  /\ DOMAIN Pruned(sid, now) \subseteq DOMAIN sessions
           /\ \A s \in DOMAIN Pruned(sid, now) : Pruned(sid, now)[s] = sessions[s]
           /\ \A s \in DOMAIN sessions : s \in DOMAIN Pruned(sid, now) \/ (s = sid /\ ~Live(sid, now))
<1>1. CASE Live(sid, now)
  <2>1. Pruned(sid, now) = sessions
    BY <1>1 DEF Pruned
  <2> QED
    BY <2>1
<1>2. CASE ~Live(sid, now)
  <2>1. Pruned(sid, now) = [s \in DOMAIN sessions \ {sid} |-> sessions[s]]
    BY <1>2 DEF Pruned, Restrict
  <2> QED
    BY <1>2, <2>1
<1> QED
  BY <1>1, <1>2

\* One request moves on to another of its forms.
LEMMA ReqMoves ==
    ASSUME ReqOK, Sids \subseteq Sids', NEW r \in Requests, NEW q,
           req' = [req EXCEPT ![r] = q], q = Free \/ q \in Request'
    PROVE  ReqOK'
  BY RequestGrows DEF ReqOK

LEMMA ReqStays == ASSUME ReqOK, UNCHANGED <<req, expiry>> PROVE ReqOK'
  BY DEF ReqOK, Request, Sids

LEMMA TableStays == ASSUME TableOK, UNCHANGED <<sessions, expiry, over>> PROVE TableOK'
  BY DEF TableOK, Sids

LEMMA TablePruned ==
    ASSUME TableOK, NEW sid, NEW now, sessions' = Pruned(sid, now), UNCHANGED <<expiry, over>>
    PROVE  TableOK'
  BY PrunedKeeps DEF TableOK, Sids

LEMMA RestStays == ASSUME RestOK, UNCHANGED <<clock, expiry, restarts, over, cookie>> PROVE RestOK'
  BY DEF RestOK, Sids

\* No session is the number that stands for none.
LEMMA SidsType == ASSUME RestOK PROVE Sids = 1 .. Len(expiry) /\ Len(expiry) \in Nat /\ NoSession \notin Sids
  BY DEF RestOK, Sids, NoSession

\* A request at a place has the form of that place.
LEMMA FormAt ==
    ASSUME ReqOK, NEW r \in Requests, req[r].at # "free"
    PROVE  /\ req[r] \in Request
           /\ req[r].at = "sent" =>
                req[r] \in [at : {"sent"}, of : Browsers, kind : Kinds, sid : Sids \cup {NoSession}]
           /\ req[r].at \in {"timed", "act"} =>
                req[r] \in [at : {"timed", "act"}, of : Browsers, kind : {"admin", "gate", "api"},
                            sid : Sids \cup {NoSession}, now : Nat, dead : BOOLEAN]
           /\ req[r].at = "redirect" =>
                req[r] \in [at : {"redirect"}, of : Browsers, kind : {"admin", "gate"},
                            why : {"refused", "moved"}, sid : Sids \cup {NoSession}]
           /\ req[r].at = "answer" =>
                req[r] \in [at : {"answer"}, of : Browsers, kind : {"in", "out"},
                            sid : Sids \cup {NoSession}]
<1>1. req[r] \in Request
  BY DEF ReqOK, Free
<1> QED
  BY <1>1 DEF Request

\* Every variable of AdminSession stays in its type, and the table holds only
\* sessions that stand, each with the expiry it was given.
THEOREM TypeCorrect == Spec => []TypeOK
<1>1. Init => TypeOK
  BY DEF Init, TypeOK, Sids
<1>2. TypeOK /\ [Next]_vars => TypeOK'
  <2> SUFFICES ASSUME TableOK, ReqOK, RestOK, [Next]_vars PROVE TableOK' /\ ReqOK' /\ RestOK'
    BY DEF TypeOK, TableOK, ReqOK, RestOK
  <2>1. ASSUME NEW r \in Requests, NEW b \in Browsers, NEW kind \in Kinds, Send(r, b, kind)
        PROVE  TableOK' /\ ReqOK' /\ RestOK'
    <3> DEFINE q == [at |-> "sent", of |-> b, kind |-> kind, sid |-> cookie[b]]
    <3>1. UNCHANGED <<clock, sessions, cookie, expiry, over, restarts>> /\ req' = [req EXCEPT ![r] = q]
      BY <2>1 DEF Send
    <3>2. q \in Request /\ Sids' = Sids
      BY <3>1 DEF RestOK, Request, Sids
    <3>3. q \in Request'
      BY <3>2, RequestGrows
    <3> HIDE DEF q
    <3> QED
      BY <3>1, <3>2, <3>3, ReqMoves, TableStays, RestStays
  <2>2. ASSUME NEW r \in Requests, Arrive(r) PROVE TableOK' /\ ReqOK' /\ RestOK'
    <3> DEFINE p == req[r]
               q == [at |-> "timed", of |-> p.of, kind |-> p.kind, sid |-> p.sid,
                     now |-> clock, dead |-> p.sid \in over]
    <3>1. /\ UNCHANGED <<clock, sessions, cookie, expiry, over, restarts>>
          /\ req' = [req EXCEPT ![r] = q] /\ p.at = "sent" /\ p.kind \in {"admin", "gate", "api"}
      BY <2>2 DEF Arrive
    <3>2. p \in [at : {"sent"}, of : Browsers, kind : Kinds, sid : Sids \cup {NoSession}]
      BY <3>1, FormAt
    <3>3. q \in Request /\ Sids' = Sids
      BY <3>1, <3>2 DEF RestOK, Request, Sids
    <3>4. q \in Request'
      BY <3>3, RequestGrows
    <3> HIDE DEF q
    <3> QED
      BY <3>1, <3>3, <3>4, ReqMoves, TableStays, RestStays
  <2>3. ASSUME NEW r \in Requests, Check(r) PROVE TableOK' /\ ReqOK' /\ RestOK'
    <3> DEFINE p == req[r]
               q == IF Live(p.sid, p.now) THEN [p EXCEPT !.at = "act"] ELSE To(p, "gate", "refused")
    <3>1. /\ UNCHANGED <<clock, cookie, expiry, over, restarts>> /\ sessions' = Pruned(p.sid, p.now)
          /\ req' = [req EXCEPT ![r] = q] /\ p.at = "timed" /\ p.kind \in {"admin", "api"}
      BY <2>3 DEF Check
    <3>2. p \in [at : {"timed", "act"}, of : Browsers, kind : {"admin", "gate", "api"},
                 sid : Sids \cup {NoSession}, now : Nat, dead : BOOLEAN]
      BY <3>1, FormAt
    <3>3. q \in Request /\ Sids' = Sids
      BY <3>1, <3>2 DEF Request, To, Sids
    <3>4. q \in Request'
      BY <3>3, RequestGrows
    <3> HIDE DEF q
    <3> QED
      BY <3>1, <3>3, <3>4, ReqMoves, TablePruned, RestStays
  <2>4. ASSUME NEW r \in Requests, LoginPage(r) PROVE TableOK' /\ ReqOK' /\ RestOK'
    <3> DEFINE p == req[r]
               q == IF Gate(p) THEN To(p, "admin", "moved") ELSE Free
    <3>1. /\ UNCHANGED <<clock, cookie, expiry, over, restarts>> /\ sessions' = Pruned(p.sid, p.now)
          /\ req' = [req EXCEPT ![r] = q] /\ p.at = "timed"
      BY <2>4 DEF LoginPage
    <3>2. p \in [at : {"timed", "act"}, of : Browsers, kind : {"admin", "gate", "api"},
                 sid : Sids \cup {NoSession}, now : Nat, dead : BOOLEAN]
      BY <3>1, FormAt
    <3>3. (q = Free \/ q \in Request) /\ Sids' = Sids
      BY <3>1, <3>2 DEF Request, To, Sids
    <3>4. q = Free \/ q \in Request'
      BY <3>3, RequestGrows
    <3> HIDE DEF q
    <3> QED
      BY <3>1, <3>3, <3>4, ReqMoves, TablePruned, RestStays
  <2>5. ASSUME NEW r \in Requests, Follow(r) PROVE TableOK' /\ ReqOK' /\ RestOK'
    <3> DEFINE p == req[r]
               q == [at |-> "sent", of |-> p.of, kind |-> p.kind, sid |-> cookie[p.of]]
    <3>1. /\ UNCHANGED <<clock, sessions, cookie, expiry, over, restarts>>
          /\ req' = [req EXCEPT ![r] = q] /\ p.at = "redirect"
      BY <2>5 DEF Follow
    <3>2. p \in [at : {"redirect"}, of : Browsers, kind : {"admin", "gate"},
                 why : {"refused", "moved"}, sid : Sids \cup {NoSession}]
      BY <3>1, FormAt
    <3>3. q \in Request /\ Sids' = Sids
      BY <3>1, <3>2 DEF RestOK, Request, Sids, Kinds
    <3>4. q \in Request'
      BY <3>3, RequestGrows
    <3> HIDE DEF q
    <3> QED
      BY <3>1, <3>3, <3>4, ReqMoves, TableStays, RestStays
  <2>6. ASSUME NEW r \in Requests, Act(r) \/ Lose(r) PROVE TableOK' /\ ReqOK' /\ RestOK'
    <3>1. UNCHANGED <<clock, sessions, cookie, expiry, over, restarts>> /\ req' = [req EXCEPT ![r] = Free]
      BY <2>6 DEF Act, Lose
    <3>2. Sids' = Sids
      BY <3>1 DEF Sids
    <3> QED
      BY <3>1, <3>2, ReqMoves, TableStays, RestStays
  <2>7. ASSUME NEW r \in Requests, SignIn(r) PROVE TableOK' /\ ReqOK' /\ RestOK'
    <3> DEFINE p == req[r]
               sid == Len(expiry) + 1
               until == clock + TTL
               q == [at |-> "answer", of |-> p.of, kind |-> "in", sid |-> sid]
    <3>1. /\ UNCHANGED <<clock, cookie, over, restarts>> /\ expiry' = Append(expiry, until)
          /\ sessions' = [s \in DOMAIN sessions \cup {sid} |-> IF s = sid THEN until ELSE sessions[s]]
          /\ req' = [req EXCEPT ![r] = q] /\ p.at = "sent"
      BY <2>7 DEF SignIn, LoggingIn
    <3>2. p \in [at : {"sent"}, of : Browsers, kind : Kinds, sid : Sids \cup {NoSession}]
      BY <3>1, FormAt
    <3>3. until \in Nat
      BY SessionAssumption DEF RestOK
    <3>4. /\ Sids' = Sids \cup {sid} /\ sid \notin Sids /\ expiry' \in Seq(Nat)
          /\ expiry'[sid] = until /\ \A s \in Sids : expiry'[s] = expiry[s]
      BY <3>1, <3>3, SidsType DEF RestOK, Sids
    <3>5. q \in Request'
      BY <3>2, <3>4 DEF Request
    <3> HIDE DEF q, until, sid
    <3>6. TableOK'
      BY <3>1, <3>4 DEF TableOK, RestOK
    <3>7. RestOK'
      BY <3>1, <3>4 DEF RestOK
    <3> QED
      BY <3>1, <3>4, <3>5, <3>6, <3>7, ReqMoves
  <2>8. ASSUME NEW r \in Requests, SignOut(r) PROVE TableOK' /\ ReqOK' /\ RestOK'
    <3> DEFINE p == req[r]
               q == [at |-> "answer", of |-> p.of, kind |-> "out", sid |-> NoSession]
    <3>1. /\ UNCHANGED <<clock, cookie, expiry, restarts>> /\ p.at = "sent"
          /\ sessions' = Restrict(sessions, DOMAIN sessions \ {p.sid})
          /\ over' = IF p.sid = NoSession THEN over ELSE over \cup {p.sid}
          /\ req' = [req EXCEPT ![r] = q]
      BY <2>8 DEF SignOut, Ended
    <3>2. p \in [at : {"sent"}, of : Browsers, kind : Kinds, sid : Sids \cup {NoSession}]
      BY <3>1, FormAt
    <3>3. q \in Request /\ Sids' = Sids
      BY <3>1, <3>2 DEF Request, Sids
    <3>4. q \in Request'
      BY <3>3, RequestGrows
    <3> HIDE DEF q
    <3>5. /\ DOMAIN sessions' = DOMAIN sessions \ {p.sid}
          /\ \A s \in DOMAIN sessions' : sessions'[s] = sessions[s]
      BY <3>1 DEF Restrict
    <3>6. TableOK'
      BY <3>1, <3>3, <3>5 DEF TableOK
    <3>7. RestOK'
      BY <3>1, <3>2, <3>3 DEF RestOK
    <3> QED
      BY <3>1, <3>3, <3>4, <3>6, <3>7, ReqMoves
  <2>9. ASSUME NEW r \in Requests, Answer(r) PROVE TableOK' /\ ReqOK' /\ RestOK'
    <3> DEFINE p == req[r]
               q == To(p, IF p.kind = "in" THEN "admin" ELSE "gate", "moved")
    <3>1. /\ UNCHANGED <<clock, sessions, expiry, over, restarts>> /\ p.at = "answer"
          /\ cookie' = [cookie EXCEPT ![p.of] = p.sid] /\ req' = [req EXCEPT ![r] = q]
      BY <2>9 DEF Answer
    <3>2. p \in [at : {"answer"}, of : Browsers, kind : {"in", "out"}, sid : Sids \cup {NoSession}]
      BY <3>1, FormAt
    <3>3. q \in Request /\ Sids' = Sids
      BY <3>1, <3>2 DEF Request, To, Sids
    <3>4. q \in Request'
      BY <3>3, RequestGrows
    <3> HIDE DEF q
    <3>5. RestOK'
      BY <3>1, <3>2, <3>3 DEF RestOK
    <3> QED
      BY <3>1, <3>3, <3>4, <3>5, ReqMoves, TableStays
  <2>10. ASSUME NEW b \in Browsers, Forget(b) PROVE TableOK' /\ ReqOK' /\ RestOK'
    <3>1. /\ UNCHANGED <<clock, sessions, req, expiry, over, restarts>>
          /\ cookie' = [cookie EXCEPT ![b] = NoSession]
      BY <2>10 DEF Forget
    <3>2. RestOK'
      BY <3>1 DEF RestOK, Sids
    <3> QED
      BY <3>1, <3>2, ReqStays, TableStays
  <2>11. CASE Restart
    <3>1. /\ UNCHANGED <<clock, cookie, expiry>> /\ sessions' = [s \in {} |-> 0]
          /\ over' = Sids /\ restarts' = restarts + 1 /\ Sids' = Sids
          /\ req' = [r \in Requests |-> IF req[r].at \in {"timed", "act"} THEN Free ELSE req[r]]
      BY <2>11 DEF Restart, Sids
    <3>2. ReqOK'
      BY <3>1, RequestGrows DEF ReqOK
    <3>3. TableOK'
      BY <3>1 DEF TableOK
    <3>4. RestOK'
      BY <3>1 DEF RestOK
    <3> QED
      BY <3>2, <3>3, <3>4
  <2>12. CASE Tick
    <3>1. UNCHANGED <<sessions, cookie, req, expiry, over, restarts>> /\ clock' = clock + 1
      BY <2>12 DEF Tick
    <3>2. RestOK'
      BY <3>1 DEF RestOK, Sids
    <3> QED
      BY <3>1, <3>2, ReqStays, TableStays
  <2>13. CASE UNCHANGED vars
    BY <2>13, ReqStays, TableStays, RestStays DEF vars
  <2> QED
    BY <2>1, <2>2, <2>3, <2>4, <2>5, <2>6, <2>7, <2>8, <2>9, <2>10, <2>11, <2>12, <2>13
    DEF Next, Handle
<1> QED
  BY <1>1, <1>2, PTL DEF Spec
-----------------------------------------------------------------------------
\* A session that was issued and not ended is in the table or has expired.
Standing == \A s \in Sids \ over : s \in DOMAIN sessions \/ clock > expiry[s]

\* What is let in, and what is refused, each for its cause.
Cause(q) ==
    /\ q.at = "timed" => q.now <= clock /\ (q.dead => q.sid \in over)
    /\ q.at = "act" => q.sid \in Sids /\ ~q.dead
    /\ q.at = "redirect" /\ q.why = "refused" =>
         q.sid = NoSession \/ q.sid \in over \/ clock > expiry[q.sid]

Judged == \A r \in Requests : Cause(req[r])

\* Nothing that a judgement rests on is taken back.
LEMMA Onward ==
    ASSUME TypeOK, [Next]_vars
    PROVE  /\ clock \in Nat /\ clock' \in Nat /\ clock <= clock' /\ over \subseteq over'
           /\ Sids \subseteq Sids'
           /\ \A s \in Sids : expiry[s] \in Nat /\ expiry'[s] = expiry[s]
<1>1. clock \in Nat /\ expiry \in Seq(Nat) /\ over \subseteq Sids /\ Sids = 1 .. Len(expiry)
      /\ \A s \in Sids : expiry[s] \in Nat
  BY DEF TypeOK, Sids
<1>2. clock' = clock \/ clock' = clock + 1
  BY DEF Next, Handle, Send, Arrive, Check, LoginPage, Follow, Act, SignIn, SignOut, Answer, Lose,
         Forget, Restart, Tick, vars
<1>3. over \subseteq over'
  BY <1>1 DEF Next, Handle, Send, Arrive, Check, LoginPage, Follow, Act, SignIn, SignOut, Answer, Lose,
         Forget, Restart, Tick, vars, Sids
<1>4. expiry' = expiry \/ expiry' = Append(expiry, clock + TTL)
  BY DEF Next, Handle, Send, Arrive, Check, LoginPage, Follow, Act, SignIn, SignOut, Answer, Lose,
         Forget, Restart, Tick, vars
<1>5. Sids \subseteq Sids' /\ \A s \in Sids : expiry'[s] = expiry[s]
  BY <1>1, <1>4, SessionAssumption DEF Sids
<1> QED
  BY <1>1, <1>2, <1>3, <1>5

LEMMA StandingStep == TypeOK /\ Standing /\ Judged /\ [Next]_vars => Standing'
<1> SUFFICES ASSUME TypeOK, Standing, Judged, [Next]_vars, NEW s \in Sids' \ over'
             PROVE  s \in DOMAIN sessions' \/ clock' > expiry'[s]
  BY DEF Standing
<1>0. TableOK /\ ReqOK /\ RestOK
  BY DEF TypeOK, TableOK, ReqOK, RestOK
<1>1. CASE s \in Sids /\ clock > expiry[s]
  BY <1>1, Onward
<1>2. CASE s \in Sids /\ s \in DOMAIN sessions
  <2>1. CASE sessions' = sessions
    BY <1>2, <2>1
  <2>2. ASSUME NEW r \in Requests, Check(r) \/ LoginPage(r) PROVE s \in DOMAIN sessions' \/ clock' > expiry'[s]
    <3>1. sessions' = Pruned(req[r].sid, req[r].now) /\ req[r].at = "timed"
      BY <2>2 DEF Check, LoginPage
    <3>2. CASE s \in DOMAIN sessions'
      BY <3>2
    <3>3. CASE s \notin DOMAIN sessions'
      <4>1. s = req[r].sid /\ ~Live(s, req[r].now)
        BY <1>2, <3>1, <3>3, PrunedKeeps
      <4>2. sessions[s] = expiry[s] /\ expiry[s] \in Nat /\ req[r].now \in Nat
        BY <1>0, <1>2, <3>1, FormAt, Onward DEF TableOK
      <4> QED
        BY <4>1, <4>2, <3>1, <1>2, Onward DEF Live, Judged, Cause
    <3> QED
      BY <3>2, <3>3
  <2>3. ASSUME NEW r \in Requests, SignIn(r) PROVE s \in DOMAIN sessions'
    BY <1>2, <2>3 DEF SignIn
  <2>4. ASSUME NEW r \in Requests, SignOut(r) PROVE s \in DOMAIN sessions'
    <3>1. s # req[r].sid
      BY <1>0, <1>2, <2>4, SidsType DEF SignOut
    <3> QED
      BY <1>2, <2>4, <3>1 DEF SignOut, Ended, Restrict
  <2>5. ~Restart
    BY <1>2 DEF Restart, Sids
  <2> QED
    BY <2>1, <2>2, <2>3, <2>4, <2>5 DEF Next, Handle, Send, Arrive, Follow, Act, Answer, Lose,
       Forget, Tick, vars
<1>3. CASE s \notin Sids
  <2>1. PICK r \in Requests : SignIn(r)
    BY <1>3 DEF Next, Handle, Send, Arrive, Check, LoginPage, Follow, Act, SignOut, Answer, Lose,
         Forget, Restart, Tick, vars, Sids
  <2>2. s = Len(expiry) + 1
    BY <1>0, <1>3, <2>1, SessionAssumption DEF SignIn, RestOK, Sids
  <2> QED
    BY <2>1, <2>2 DEF SignIn
<1> QED
  BY <1>1, <1>2, <1>3, Onward DEF Standing

LEMMA CauseStays ==
    ASSUME TypeOK, [Next]_vars, NEW r \in Requests, Cause(req[r]), req'[r] = req[r]
    PROVE  Cause(req[r])'
<1>0. TableOK /\ ReqOK /\ RestOK
  BY DEF TypeOK, TableOK, ReqOK, RestOK
<1> DEFINE q == req[r]
<1>1. CASE q.at = "timed"
  <2>1. q.now \in Nat
    BY <1>0, <1>1, FormAt
  <2> QED
    BY <1>1, <2>1, Onward DEF Cause
<1>2. CASE q.at = "act"
  BY <1>2, Onward DEF Cause
<1>3. CASE q.at = "redirect" /\ q.why = "refused"
  <2>1. q.sid \in Sids \/ q.sid = NoSession
    BY <1>0, <1>3, FormAt
  <2> QED
    BY <1>3, <2>1, Onward DEF Cause
<1>4. CASE q.at \notin {"timed", "act"} /\ ~(q.at = "redirect" /\ q.why = "refused")
  BY <1>4 DEF Cause
<1> QED
  BY <1>1, <1>2, <1>3, <1>4

LEMMA JudgedStep == TypeOK /\ Standing /\ Judged /\ [Next]_vars => Judged'
<1> SUFFICES ASSUME TypeOK, Standing, Judged, [Next]_vars, NEW r \in Requests
             PROVE  Cause(req[r])'
  BY DEF Judged
<1>0. TableOK /\ ReqOK /\ RestOK /\ Cause(req[r])
  BY DEF TypeOK, TableOK, ReqOK, RestOK, Judged
<1>1. CASE req'[r] = req[r]
  BY <1>0, <1>1, CauseStays
<1>2. CASE req'[r].at \notin {"timed", "act"} /\ ~(req'[r].at = "redirect" /\ req'[r].why = "refused")
  BY <1>2 DEF Cause
<1>3. CASE Arrive(r)
  <2> DEFINE p == req[r]
             q == [at |-> "timed", of |-> p.of, kind |-> p.kind, sid |-> p.sid,
                   now |-> clock, dead |-> p.sid \in over]
  <2>1. req'[r] = q /\ UNCHANGED <<clock, over>> /\ clock \in Nat
    BY <1>0, <1>3 DEF Arrive, ReqOK, TypeOK
  <2>2. q.at = "timed" /\ q.now = clock /\ (q.dead => q.sid \in over)
    OBVIOUS
  <2> HIDE DEF q
  <2> QED
    BY <2>1, <2>2 DEF Cause
<1>4. CASE Check(r)
  <2> DEFINE q == req[r]
  <2>1. /\ UNCHANGED <<clock, expiry, over>> /\ q.at = "timed"
        /\ req'[r] = IF Live(q.sid, q.now) THEN [q EXCEPT !.at = "act"] ELSE To(q, "gate", "refused")
    BY <1>0, <1>4 DEF Check, ReqOK
  <2>2. q \in [at : {"timed", "act"}, of : Browsers, kind : {"admin", "gate", "api"},
               sid : Sids \cup {NoSession}, now : Nat, dead : BOOLEAN]
    BY <1>0, <2>1, FormAt
  <2>3. q.now <= clock /\ (q.dead => q.sid \in over) /\ clock \in Nat
    BY <1>0, <2>1 DEF Cause, TypeOK
  <2>4. CASE Live(q.sid, q.now)
    <3>1. q.sid \in Sids /\ ~q.dead
      BY <1>0, <2>3, <2>4 DEF Live, TableOK
    <3>2. req'[r].at = "act" /\ req'[r].sid = q.sid /\ req'[r].dead = q.dead /\ req'[r].now = q.now
      BY <2>1, <2>2, <2>4
    <3> QED
      BY <2>1, <3>1, <3>2 DEF Cause, Sids
  <2>5. CASE ~Live(q.sid, q.now)
    <3>1. q.sid = NoSession \/ q.sid \in over \/ clock > expiry[q.sid]
      <4>1. CASE q.sid \in DOMAIN sessions
        <5>1. sessions[q.sid] = expiry[q.sid] /\ expiry[q.sid] \in Nat
          BY <1>0, <4>1, Onward DEF TableOK
        <5> QED
          BY <2>2, <2>3, <2>5, <4>1, <5>1 DEF Live
      <4>2. CASE q.sid \notin DOMAIN sessions
        BY <2>2, <4>2 DEF Standing
      <4> QED
        BY <4>1, <4>2
    <3>2. req'[r].at = "redirect" /\ req'[r].sid = q.sid
      BY <2>1, <2>5 DEF To
    <3> QED
      BY <2>1, <3>1, <3>2 DEF Cause
  <2> QED
    BY <2>4, <2>5
<1>5. CASE \E s \in Requests : Handle(s) \/ Lose(s)
  <2>1. PICK s \in Requests : Handle(s) \/ Lose(s)
    BY <1>5
  <2>2. CASE s # r
    <3>1. req'[r] = req[r]
      BY <1>0, <2>1, <2>2 DEF ReqOK, Handle, Arrive, Check, LoginPage, Act, SignIn, SignOut, Follow, Answer, Lose
    <3> QED
      BY <3>1, <1>1
  <2>3. CASE s = r
    <3>1. CASE Arrive(r) \/ Check(r)
      BY <3>1, <1>3, <1>4
    <3>2. CASE LoginPage(r) \/ Follow(r) \/ Answer(r)
      <4>1. req'[r].at \notin {"timed", "act"} /\ (req'[r].at = "redirect" => req'[r].why # "refused")
        BY <1>0, <3>2 DEF ReqOK, LoginPage, Follow, Answer, To, Free
      <4> QED
        BY <4>1, <1>2
    <3>3. CASE Act(r) \/ SignIn(r) \/ SignOut(r) \/ Lose(r)
      <4>1. req'[r].at \notin {"timed", "act", "redirect"}
        BY <1>0, <3>3 DEF ReqOK, Act, SignIn, SignOut, Lose, Free
      <4> QED
        BY <4>1, <1>2
    <3> QED
      BY <2>1, <2>3, <3>1, <3>2, <3>3 DEF Handle
  <2> QED
    BY <2>2, <2>3
<1>6. ASSUME NEW s \in Requests, NEW b \in Browsers, NEW kind \in Kinds, Send(s, b, kind)
      PROVE  Cause(req[r])'
  BY <1>0, <1>1, <1>2, <1>6 DEF Send, ReqOK
<1>7. CASE Restart
  BY <1>1, <1>2, <1>7 DEF Restart, Free
<1>8. CASE UNCHANGED req
  BY <1>8, <1>1
<1> QED
  BY <1>5, <1>6, <1>7, <1>8 DEF Next, Forget, Tick, vars

LEMMA SessionInvariant == Spec => [](TypeOK /\ Standing /\ Judged)
<1>1. Init => Standing /\ Judged
  BY DEF Init, Standing, Judged, Cause, Sids, Free
<1>2. TypeOK /\ Standing /\ Judged /\ [Next]_vars => Standing' /\ Judged'
  BY StandingStep, JudgedStep
<1> QED
  BY <1>1, <1>2, TypeCorrect, PTL DEF Spec

\* No request that arrives after a logout was handled is let in with its session,
\* nor with a session that a restart lost (isAdminAuthedBySession).
THEOREM LogoutsAreFinal == Spec => []LogoutIsFinal
<1>1. TypeOK /\ Standing /\ Judged => LogoutIsFinal
  BY SidsType DEF TypeOK, RestOK, Judged, Cause, LogoutIsFinal
<1> QED
  BY <1>1, SessionInvariant, PTL

\* A request is refused only when its own session was ended or has expired.
THEOREM RefusalsHaveACause == Spec => []RefusedForCause
<1>1. TypeOK /\ Standing /\ Judged => RefusedForCause
  BY DEF Judged, Cause, RefusedForCause
<1> QED
  BY <1>1, SessionInvariant, PTL
===============================================================================
