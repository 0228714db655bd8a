---------------------------- MODULE IngestProofs ----------------------------
(* Proofs about Ingest for any time to live, delay, traffic and bounds.      *)
EXTENDS Ingest, TLAPS

Stages == {"network", "arrived", "body"}

\* A request that goes on to another stage stays a request.
LEMMA BecomesType ==
    ASSUME requests \subseteq Request, NEW q \in requests, NEW stage \in Stages,
           NEW now \in Nat, NEW dup \in BOOLEAN, Becomes(q, stage, now, dup)
    PROVE  requests' \subseteq Request
BY DEF Becomes, Request, Stages

\* A copy of a report is a request.
LEMMA CopyType ==
    ASSUME NEW no \in Nat, NEW r \in Report, NEW n \in Nat
    PROVE  Copy(no, r, n) \in Request
BY DEF Copy, Request, Report, Never

\* Looking a message up keeps the table of seen messages typed.
LEMMA SeenType ==
    ASSUME TypeOK, NEW q \in requests, Seen(q)
    PROVE  SeenOK'
<1>1. q.now \in Nat /\ q.no \in Nat
  BY DEF TypeOK, RequestsOK, Request
<1>2. q.now + Ttl \in Nat /\ q.now + CleanupEvery \in Nat
  BY <1>1, IngestAssumption
<1> DEFINE kept == Cleaned(q.now)
           dup == q.no \in DOMAIN kept /\ kept[q.no] >= q.now
<1>3. DOMAIN kept \subseteq Nat /\ kept \in [DOMAIN kept -> Nat]
  BY DEF Cleaned, TypeOK, SeenOK
<1>4. seen' = IF dup THEN kept
              ELSE [m \in DOMAIN kept \cup {q.no} |-> IF m = q.no THEN q.now + Ttl ELSE kept[m]]
  BY DEF Seen
<1>5. nextCleanup' \in {nextCleanup, q.now + CleanupEvery}
  BY DEF Seen
<1> HIDE DEF kept, dup
<1> DEFINE Good == DOMAIN seen' \subseteq Nat /\ seen' \in [DOMAIN seen' -> Nat]
<1>6. dup => Good
  BY <1>3, <1>4
<1>7. ASSUME ~dup PROVE Good
  <2>1. DOMAIN seen' = DOMAIN kept \cup {q.no}
    BY <1>4, <1>7
  <2>2. \A m \in DOMAIN seen' : seen'[m] \in Nat
    BY <1>1, <1>2, <1>3, <1>4, <1>7
  <2> QED BY <1>1, <1>3, <1>4, <1>7, <2>1, <2>2
<1> QED BY <1>2, <1>5, <1>6, <1>7 DEF TypeOK, SeenOK

\* Every reachable state is typed.
THEOREM TypeCorrect == Spec => []TypeOK
<1>1. Init => TypeOK
  <2> SUFFICES ASSUME Init PROVE TypeOK
    OBVIOUS
  <2>1. SeenOK
    BY DEF Init, SeenOK, Nothing, Never
  <2>2. RequestsOK /\ AppliedOK
    BY DEF Init, RequestsOK, AppliedOK
  <2>3. {clock, carried, counter, reboots, restarts, totals, counted, lastNo, lastAt, firstAt}
           \subseteq Nat
    BY DEF Init
  <2>4. known \in BOOLEAN /\ haveTotals \in BOOLEAN /\ again = 0
    BY DEF Init
  <2> QED BY <2>1, <2>2, <2>3, <2>4 DEF TypeOK
<1>2. TypeOK /\ [Next]_vars => TypeOK'
  <2> SUFFICES ASSUME TypeOK, [Next]_vars PROVE TypeOK'
    OBVIOUS
  <2> USE DEF machine, dedup, state, history
  <2>a. UNCHANGED dedup => SeenOK'
    BY DEF TypeOK, SeenOK
  <2>b. UNCHANGED <<reports, requests>> => RequestsOK'
    BY DEF TypeOK, RequestsOK
  <2>c. UNCHANGED applied => AppliedOK'
    BY DEF TypeOK, AppliedOK
  <2>d. UNCHANGED reports /\ requests' \subseteq requests => RequestsOK'
    BY DEF TypeOK, RequestsOK
  <2>1. CASE Carry
    BY <2>1, <2>a, <2>b, <2>c DEF Carry, TypeOK
  <2>2. CASE Reboot
    BY <2>2, <2>a, <2>b, <2>c DEF Reboot, TypeOK
  <2>3. CASE Created
    BY <2>3, <2>a, <2>b, <2>c DEF Created, TypeOK
  <2>4. CASE CenterRestart
    <3>1. SeenOK'
      BY <2>4 DEF CenterRestart, SeenOK, Nothing, Never
    <3>2. AppliedOK' /\ RequestsOK'
      BY <2>4, <2>d DEF CenterRestart, AppliedOK
    <3>3. {totals', counted', firstAt', lastNo', lastAt'} \subseteq Nat
      BY <2>4 DEF CenterRestart, TypeOK
    <3>4. {clock', carried', counter', reboots', restarts'} \subseteq Nat
      BY <2>4 DEF CenterRestart, TypeOK
    <3>5. known' \in BOOLEAN /\ haveTotals' \in BOOLEAN /\ again' = 0
      BY <2>4 DEF CenterRestart, TypeOK
    <3> QED BY <3>1, <3>2, <3>3, <3>4, <3>5 DEF TypeOK
  <2>5. CASE Tick
    BY <2>5, <2>a, <2>b, <2>c DEF Tick, TypeOK
  <2>6. ASSUME NEW enc \in Encodings, Send(enc) PROVE TypeOK'
    <3>1. [total |-> counter, at |-> carried, enc |-> enc, copies |-> 1] \in Report
      BY IngestAssumption DEF TypeOK, Report
    <3>2. reports' \in Seq(Report) /\ Len(reports') \in Nat /\ reports'[Len(reports')] \in Report
      BY <2>6, <3>1 DEF Send, TypeOK, RequestsOK
    <3>3. RequestsOK'
      BY <2>6, <3>2, CopyType DEF Send, TypeOK, RequestsOK
    <3> QED BY <2>6, <2>a, <2>c, <3>3 DEF Send, TypeOK
  <2>7. ASSUME NEW no \in DOMAIN reports, Resend(no) PROVE TypeOK'
    <3>1. reports[no] \in Report /\ no \in Nat
      BY DEF TypeOK, RequestsOK
    <3>2. reports[no].copies + 1 \in Nat
      BY <3>1 DEF Report
    <3> DEFINE new == [reports[no] EXCEPT !.copies = @ + 1]
    <3>3. new \in Report /\ new.copies \in Nat
      BY <3>1, <3>2 DEF Report
    <3>4. reports' = [reports EXCEPT ![no] = new]
      BY <2>7 DEF Resend
    <3> HIDE DEF new
    <3>5. reports' \in Seq(Report) /\ reports'[no] = new
      BY <3>3, <3>4 DEF TypeOK, RequestsOK
    <3>6. requests' \subseteq Request
      BY <2>7, <3>1, <3>3, <3>5, CopyType DEF Resend, TypeOK, RequestsOK
    <3>7. RequestsOK'
      BY <3>5, <3>6 DEF RequestsOK
    <3> QED BY <2>7, <2>a, <2>c, <3>7 DEF Resend, TypeOK
  <2>8. ASSUME NEW q \in requests, Arrive(q) PROVE TypeOK'
    <3>1. RequestsOK'
      BY <2>8, BecomesType DEF Arrive, TypeOK, RequestsOK, Stages
    <3> QED BY <2>8, <2>a, <2>c, <3>1 DEF Arrive, TypeOK
  <2>9. ASSUME NEW q \in requests, CheckToken(q) PROVE TypeOK'
    <3>1. q.now \in Nat
      BY DEF TypeOK, RequestsOK, Request
    <3>2. RequestsOK'
      BY <2>9, <3>1, BecomesType DEF CheckToken, TypeOK, RequestsOK, Stages
    <3> QED BY <2>9, <2>a, <2>c, <3>2 DEF CheckToken, TypeOK
  <2>10. ASSUME NEW q \in requests, Seen(q) PROVE TypeOK'
    <3>1. q.now \in Nat
      BY DEF TypeOK, RequestsOK, Request
    <3>2. PICK dup \in BOOLEAN : Becomes(q, "body", q.now, dup)
      BY <2>10 DEF Seen
    <3>3. RequestsOK'
      BY <2>10, <3>1, <3>2, BecomesType DEF Seen, TypeOK, RequestsOK, Stages
    <3> QED BY <2>10, <2>c, <3>3, SeenType DEF Seen, TypeOK
  <2>11. ASSUME NEW q \in requests,
                Lost(q) \/ Reject(q) \/ AnswerDuplicate(q) \/ UnknownAgent(q)
         PROVE  TypeOK'
    <3>1. requests' \subseteq requests /\ UNCHANGED <<clock, machine, dedup, state, history, restarts>>
      BY <2>11 DEF Lost, Reject, AnswerDuplicate, UnknownAgent
    <3> QED BY <3>1, <2>a, <2>c, <2>d DEF TypeOK
  <2>12. ASSUME NEW q \in requests, Apply(q) PROVE TypeOK'
    <3>1. /\ q.total \in Nat /\ q.no \in Nat /\ q.at \in Nat /\ q.copy \in Nat
          /\ q.now \in Nat
      BY DEF TypeOK, RequestsOK, Request
    <3>2. Delta(q.total) \in Nat /\ Again(q) \in Int
      BY <3>1 DEF Delta, Again, TypeOK
    <3>3. AppliedOK'
      BY <2>12, <3>1 DEF Apply, TypeOK, AppliedOK
    <3>4. RequestsOK' /\ SeenOK'
      BY <2>12, <2>a, <2>d DEF Apply
    <3>5. /\ {totals', counted', lastNo', lastAt', firstAt'} \subseteq Nat
          /\ known' \in BOOLEAN /\ haveTotals' \in BOOLEAN /\ again' \in Int
      BY <2>12, <3>1, <3>2 DEF Apply, TypeOK
    <3> QED BY <2>12, <3>3, <3>4, <3>5 DEF Apply, TypeOK
  <2>13. CASE UNCHANGED vars
    BY <2>13, <2>a, <2>b, <2>c DEF vars, TypeOK
  <2> QED
    BY <2>1, <2>2, <2>3, <2>4, <2>5, <2>6, <2>7, <2>8, <2>9, <2>10, <2>11, <2>12,
       <2>13 DEF Next
<1> QED BY <1>1, <1>2, PTL DEF Spec
-----------------------------------------------------------------------------
\* Duplicates.

\* Encrypted copies that were not taken for duplicates.
Taken ==
    applied \cup {[no |-> q.no, copy |-> q.copy, now |-> q.now] :
                     q \in {r \in requests : r.stage = "body" /\ r.enc /\ ~r.dup}}

\* A handler's time is not ahead of the clock, nor far behind before Seen.
TimesInv ==
    /\ \A q \in requests : q.stage # "network" => q.now <= clock
    /\ \A q \in requests : q.stage = "arrived" /\ q.enc => clock <= q.now + Delay

\* A copy taken stays among the messages seen until its time to live is over.
SeenInv ==
    \A x \in Taken : \/ x.no \in DOMAIN seen /\ x.now + Ttl <= seen[x.no]
                    \/ x.now + Ttl < clock

\* Copies of one report are taken a time to live apart.
TakenInv ==
    \A x, y \in Taken :
        x.no = y.no /\ x.copy # y.copy /\ x.now <= y.now => y.now + Delay > x.now + Ttl

DedupInv == TimesInv /\ SeenInv /\ TakenInv

\* What is taken carries numbers.
LEMMA TakenType ==
    ASSUME TypeOK PROVE Taken \subseteq [no : Nat, copy : Nat, now : Nat]
BY DEF TypeOK, Taken, RequestsOK, AppliedOK, Request

\* Looking a message up forgets only what is over, and never shortens a stay.
LEMMA SeenKeeps ==
    ASSUME TypeOK, NEW q \in requests, Seen(q),
           NEW no \in DOMAIN seen
    PROVE  \/ no \in DOMAIN seen' /\ seen[no] <= seen'[no]
           \/ seen[no] < q.now
<1>1. q.now \in Nat /\ q.no \in Nat /\ seen[no] \in Nat
  <2>1. q.now \in Nat /\ q.no \in Nat
    BY DEF TypeOK, RequestsOK, Request
  <2>2. seen[no] \in Nat
    BY DEF TypeOK, SeenOK
  <2> QED BY <2>1, <2>2
<1> DEFINE kept == Cleaned(q.now)
           dup == q.no \in DOMAIN kept /\ kept[q.no] >= q.now
<1>2. \/ no \in DOMAIN kept /\ kept[no] = seen[no]
      \/ seen[no] < q.now
  BY <1>1 DEF Cleaned
<1>3. seen' = IF dup THEN kept
              ELSE [m \in DOMAIN kept \cup {q.no} |-> IF m = q.no THEN q.now + Ttl ELSE kept[m]]
  BY DEF Seen
<1>4. CASE dup
  BY <1>1, <1>2, <1>3, <1>4
<1>5. CASE ~dup /\ no # q.no
  BY <1>1, <1>2, <1>3, <1>5
<1>6. CASE ~dup /\ no = q.no
  BY <1>1, <1>2, <1>6
<1> QED BY <1>4, <1>5, <1>6

\* A message not taken for a duplicate is seen until its time to live is over,
\* and what was known of it before is over.
LEMMA SeenAdds ==
    ASSUME TypeOK, NEW q \in requests, Seen(q),
           NEW r, r \in requests' \ requests, ~r.dup
    PROVE  /\ q.no \in DOMAIN seen' /\ seen'[q.no] = q.now + Ttl
           /\ q.no \in DOMAIN seen => seen[q.no] < q.now
           /\ r.no = q.no /\ r.copy = q.copy /\ r.now = q.now
<1>1. q.now \in Nat /\ q.no \in Nat /\ q \in Request
  BY DEF TypeOK, RequestsOK, Request
<1> DEFINE kept == Cleaned(q.now)
           dup == q.no \in DOMAIN kept /\ kept[q.no] >= q.now
<1>2. r = [q EXCEPT !.stage = "body", !.now = q.now, !.dup = dup]
  BY DEF Seen, Becomes
<1>3. r.dup = dup /\ r.no = q.no /\ r.copy = q.copy /\ r.now = q.now
  BY <1>1, <1>2 DEF Request
<1>4. seen' = IF dup THEN kept
              ELSE [m \in DOMAIN kept \cup {q.no} |-> IF m = q.no THEN q.now + Ttl ELSE kept[m]]
  BY DEF Seen
<1>5. ~dup
  BY <1>3
<1>6. q.no \in DOMAIN seen => seen[q.no] < q.now
  BY <1>1, <1>5 DEF Cleaned, TypeOK, SeenOK
<1> QED BY <1>3, <1>4, <1>5, <1>6

\* A step that takes nothing, forgets nothing and keeps the clock.
LEMMA DedupKept ==
    ASSUME SeenInv, TakenInv, UNCHANGED <<clock, seen>>, Taken' \subseteq Taken
    PROVE  SeenInv' /\ TakenInv'
BY DEF SeenInv, TakenInv

\* The deduplication works whatever the order of the steps.
THEOREM DuplicatesAreApart == Spec => []AppliedOnce
<1>1. Init => DedupInv
  BY DEF Init, DedupInv, TimesInv, SeenInv, TakenInv, Taken
<1>2. TypeOK /\ DedupInv /\ [Next]_vars => DedupInv'
  <2> SUFFICES ASSUME TypeOK, DedupInv, [Next]_vars PROVE DedupInv'
    OBVIOUS
  <2> USE DEF machine, dedup, state, history
  <2>0. /\ clock \in Nat /\ Ttl \in Nat /\ Delay \in Nat
        /\ \A q \in requests : q \in Request /\ q.now \in Nat /\ q.no \in Nat
        /\ \A x \in Taken : x.now \in Nat /\ x.no \in Nat
    BY TakenType, IngestAssumption DEF TypeOK, RequestsOK, Request
  <2>k. ASSUME UNCHANGED <<clock, seen, applied>>, requests' \subseteq requests PROVE DedupInv'
    <3>1. Taken' \subseteq Taken
      BY <2>k DEF Taken
    <3> QED BY <3>1, <2>k, DedupKept DEF DedupInv, TimesInv
  <2>1. CASE Carry \/ Reboot \/ Created \/ UNCHANGED vars
    BY <2>1, <2>k DEF Carry, Reboot, Created, vars
  <2>2. CASE CenterRestart
    <3>1. Taken' = {}
      BY <2>2 DEF CenterRestart, Taken
    <3>2. TimesInv'
      BY <2>2 DEF CenterRestart, DedupInv, TimesInv
    <3> QED BY <3>1, <3>2 DEF DedupInv, SeenInv, TakenInv
  <2>3. CASE Tick
    <3>1. Taken' = Taken /\ clock' = clock + 1 /\ UNCHANGED <<requests, seen>>
      BY <2>3 DEF Tick, Taken
    <3>2. TimesInv'
      BY <2>3, <2>0, <3>1 DEF Tick, DedupInv, TimesInv
    <3>3. SeenInv'
      BY <2>0, <3>1 DEF DedupInv, SeenInv
    <3> QED BY <3>1, <3>2, <3>3 DEF DedupInv, TakenInv
  <2>4. ASSUME NEW no, NEW r, NEW n, requests' = requests \cup {Copy(no, r, n)},
               UNCHANGED <<clock, seen, applied>>
        PROVE  DedupInv'
    <3>1. Copy(no, r, n).stage = "network"
      BY DEF Copy
    <3>2. Taken' \subseteq Taken
      BY <2>4, <3>1 DEF Taken
    <3>3. TimesInv'
      BY <2>4, <3>1 DEF DedupInv, TimesInv
    <3> QED BY <2>4, <3>2, <3>3, DedupKept DEF DedupInv
  <2>5. ASSUME NEW enc \in Encodings, Send(enc) PROVE DedupInv'
    BY <2>4, <2>5 DEF Send
  <2>6. ASSUME NEW no \in DOMAIN reports, Resend(no) PROVE DedupInv'
    BY <2>4, <2>6 DEF Resend
  <2>7. ASSUME NEW q \in requests, Arrive(q) PROVE DedupInv'
    <3> DEFINE r == [q EXCEPT !.stage = "arrived", !.now = clock, !.dup = FALSE]
    <3>1. r.stage = "arrived" /\ r.now = clock
      BY <2>0 DEF Request
    <3>2. requests' = (requests \ {q}) \cup {r} /\ UNCHANGED <<clock, seen, applied>>
      BY <2>7 DEF Arrive, Becomes
    <3> HIDE DEF r
    <3>3. Taken' \subseteq Taken
      BY <3>1, <3>2 DEF Taken
    <3>4. TimesInv'
      BY <2>0, <3>1, <3>2 DEF DedupInv, TimesInv
    <3> QED BY <3>2, <3>3, <3>4, DedupKept DEF DedupInv
  <2>8. ASSUME NEW q \in requests, CheckToken(q) PROVE DedupInv'
    <3> DEFINE r == [q EXCEPT !.stage = "body", !.now = q.now, !.dup = FALSE]
    <3>1. r.stage = "body" /\ r.now = q.now /\ ~r.enc
      BY <2>0, <2>8 DEF Request, CheckToken
    <3>2. /\ requests' = (requests \ {q}) \cup {r} /\ UNCHANGED <<clock, seen, applied>>
          /\ q.stage = "arrived"
      BY <2>8 DEF CheckToken, Becomes
    <3> HIDE DEF r
    <3>3. Taken' \subseteq Taken
      BY <3>1, <3>2 DEF Taken
    <3>4. TimesInv'
      BY <2>0, <3>1, <3>2 DEF DedupInv, TimesInv
    <3> QED BY <3>2, <3>3, <3>4, DedupKept DEF DedupInv
  <2>9. ASSUME NEW q \in requests, Seen(q) PROVE DedupInv'
    <3>1. q.now <= clock /\ clock <= q.now + Delay /\ clock' = clock /\ applied' = applied
      BY <2>9 DEF Seen, DedupInv, TimesInv
    <3>2. PICK dup \in BOOLEAN : Becomes(q, "body", q.now, dup)
      BY <2>9 DEF Seen
    <3> DEFINE r == [q EXCEPT !.stage = "body", !.now = q.now, !.dup = dup]
               x == [no |-> q.no, copy |-> q.copy, now |-> q.now]
    <3>3. /\ r.stage = "body" /\ r.now = q.now /\ r.no = q.no /\ r.copy = q.copy
          /\ r.dup = dup /\ q.stage = "arrived"
      BY <2>0, <2>9 DEF Request, Seen
    <3>4. requests' = (requests \ {q}) \cup {r}
      BY <3>2 DEF Becomes
    <3>5. r \in requests' \ requests \/ r \in requests
      BY <3>4
    <3> HIDE DEF r
    <3>6. TimesInv'
      BY <2>0, <3>1, <3>3, <3>4 DEF DedupInv, TimesInv
    <3>7. \A y \in Taken : \/ y.no \in DOMAIN seen' /\ y.now + Ttl <= seen'[y.no]
                          \/ y.now + Ttl < clock
      <4> SUFFICES ASSUME NEW y \in Taken, ~(y.now + Ttl < clock)
                   PROVE  y.no \in DOMAIN seen' /\ y.now + Ttl <= seen'[y.no]
        OBVIOUS
      <4>1. y.no \in DOMAIN seen /\ y.now + Ttl <= seen[y.no]
        BY DEF DedupInv, SeenInv
      <4>2. \/ y.no \in DOMAIN seen' /\ seen[y.no] <= seen'[y.no]
            \/ seen[y.no] < q.now
        BY <2>9, <4>1, SeenKeeps
      <4>3. seen[y.no] \in Nat
        BY <4>1 DEF TypeOK, SeenOK
      <4>4. SeenOK'
        BY <2>9, SeenType
      <4>5. y.no \in DOMAIN seen' => seen'[y.no] \in Nat
        BY <4>4 DEF SeenOK
      <4> QED BY <2>0, <3>1, <4>1, <4>2, <4>3, <4>5
    <3>8. CASE r \in requests \/ r.dup
      <4>1. Taken' \subseteq Taken
        BY <3>1, <3>4, <3>8 DEF Taken
      <4>2. SeenInv' /\ TakenInv'
        BY <3>1, <3>7, <4>1 DEF SeenInv, TakenInv, DedupInv
      <4> QED BY <3>6, <4>2 DEF DedupInv
    <3>9. CASE r \in requests' \ requests /\ ~r.dup
      <4>1. Taken' \subseteq Taken \cup {x}
        BY <3>1, <3>3, <3>4 DEF Taken
      <4>2. /\ q.no \in DOMAIN seen' /\ seen'[q.no] = q.now + Ttl
            /\ q.no \in DOMAIN seen => seen[q.no] < q.now
        BY <2>9, <3>9, SeenAdds
      <4>3. SeenInv'
        BY <2>0, <3>1, <3>7, <4>1, <4>2 DEF SeenInv
      <4>4. \A y \in Taken : y.no = q.no => y.now + Ttl < q.now \/ y.now + Ttl < clock
        <5> SUFFICES ASSUME NEW y \in Taken, y.no = q.no, ~(y.now + Ttl < clock)
                     PROVE  y.now + Ttl < q.now
          OBVIOUS
        <5>1. y.no \in DOMAIN seen /\ y.now + Ttl <= seen[y.no]
          BY DEF DedupInv, SeenInv
        <5>2. seen[y.no] \in Nat
          BY <5>1 DEF TypeOK, SeenOK
        <5> QED BY <2>0, <4>2, <5>1, <5>2
      <4>5. TakenInv'
        <5> SUFFICES ASSUME NEW y \in Taken', NEW z \in Taken', y.no = z.no,
                            y.copy # z.copy, y.now <= z.now
                     PROVE  z.now + Delay > y.now + Ttl
          BY DEF TakenInv
        <5>1. CASE y \in Taken /\ z \in Taken
          BY <5>1 DEF DedupInv, TakenInv
        <5>2. CASE y \in Taken /\ z = x
          BY <2>0, <3>1, <4>4, <5>2
        <5>3. CASE y = x /\ z \in Taken
          BY <2>0, <3>1, <4>4, <5>3
        <5> QED BY <4>1, <5>1, <5>2, <5>3
      <4> QED BY <3>6, <4>3, <4>5 DEF DedupInv
    <3> QED BY <3>5, <3>8, <3>9
  <2>10. ASSUME NEW q \in requests,
                Lost(q) \/ Reject(q) \/ AnswerDuplicate(q) \/ UnknownAgent(q)
         PROVE  DedupInv'
    BY <2>10, <2>k DEF Lost, Reject, AnswerDuplicate, UnknownAgent
  <2>11. ASSUME NEW q \in requests, Apply(q) PROVE DedupInv'
    <3>1. /\ requests' = requests \ {q} /\ UNCHANGED <<clock, seen>>
          /\ q.stage = "body" /\ ~q.dup
          /\ applied' = IF q.enc THEN applied \cup {[no |-> q.no, copy |-> q.copy, now |-> q.now]}
                        ELSE applied
      BY <2>11 DEF Apply
    <3>2. Taken' \subseteq Taken
      BY <3>1 DEF Taken
    <3>3. TimesInv'
      BY <3>1 DEF DedupInv, TimesInv
    <3> QED BY <3>1, <3>2, <3>3, DedupKept DEF DedupInv
  <2> QED
    BY <2>1, <2>2, <2>3, <2>5, <2>6, <2>7, <2>8, <2>9, <2>10, <2>11 DEF Next
<1>3. DedupInv => AppliedOnce
  BY DEF DedupInv, TakenInv, Taken, AppliedOnce
<1> QED BY <1>1, <1>2, <1>3, TypeCorrect, PTL DEF Spec

-----------------------------------------------------------------------------
\* Traffic.

\* What the interface carried before the boot a report was made in only grows:
\* it is never negative, no larger now than later, and zero before any reboot.
FitsCounter(i) ==
    /\ reports[i].total <= reports[i].at
    /\ reports[i].at <= carried
    /\ reports[i].at + counter <= carried + reports[i].total
FitsLater(i, j) ==
    /\ reports[i].at <= reports[j].at
    /\ reports[i].at + reports[j].total <= reports[j].at + reports[i].total
CounterFits == \A i \in DOMAIN reports : FitsCounter(i)
ReportsFit == \A i, j \in DOMAIN reports : i <= j => FitsLater(i, j)
OneBoot == reboots = 0 => counter = carried /\ \A i \in DOMAIN reports : reports[i].total = reports[i].at
CounterInv == counter <= carried /\ CounterFits /\ ReportsFit /\ OneBoot

\* ReportsFit and FitsCounter speak of the reports alone, or of them and the
\* two counters: steps that keep these keep CounterInv.
LEMMA CounterKept ==
    ASSUME CounterInv, UNCHANGED machine
    PROVE  CounterInv'
<1>1. UNCHANGED <<carried, counter, reports, reboots>>
  BY DEF machine
<1>2. counter' <= carried'
  BY <1>1 DEF CounterInv
<1>3. CounterFits'
  BY <1>1 DEF CounterInv, CounterFits, FitsCounter
<1>4. ReportsFit'
  BY <1>1 DEF CounterInv, ReportsFit, FitsLater
<1>5. OneBoot'
  BY <1>1 DEF CounterInv, OneBoot
<1> QED BY <1>2, <1>3, <1>4, <1>5 DEF CounterInv

\* Requests copy reports, and the center keeps the total of the last one.
CopiesInv ==
    /\ \A q \in requests : /\ q.no \in DOMAIN reports
                          /\ q.total = reports[q.no].total /\ q.at = reports[q.no].at
    /\ haveTotals => /\ lastNo \in DOMAIN reports
                     /\ totals = reports[lastNo].total /\ lastAt = reports[lastNo].at
    /\ ~haveTotals => counted = 0 /\ firstAt = lastAt

TrafficInv == CounterInv /\ CopiesInv /\ NoOvercount /\ NothingLost

\* A step of the network and the handlers that neither makes a report nor
\* applies one.
LEMMA TrafficKept ==
    ASSUME TrafficInv, UNCHANGED <<machine, haveTotals, totals, counted, history>>,
           \A r \in requests' : \E q \in requests : r.no = q.no /\ r.total = q.total /\ r.at = q.at
    PROVE  TrafficInv'
<1>1. CounterInv'
  BY CounterKept DEF TrafficInv
<1>2. CopiesInv'
  BY DEF TrafficInv, CopiesInv, machine, history
<1>3. NoOvercount' /\ NothingLost'
  BY DEF TrafficInv, NoOvercount, NothingLost, machine, history
<1> QED BY <1>1, <1>2, <1>3 DEF TrafficInv

\* The strengthened invariant of the traffic counted (handleIngest's difference).
THEOREM TrafficInvariant == Spec => []TrafficInv
<1>1. Init => TrafficInv
  <2> SUFFICES ASSUME Init PROVE TrafficInv
    OBVIOUS
  <2>1. CounterInv
    BY DEF Init, CounterInv, CounterFits, ReportsFit, OneBoot
  <2>2. CopiesInv /\ NoOvercount /\ NothingLost
    BY DEF Init, CopiesInv, NoOvercount, NothingLost
  <2> QED BY <2>1, <2>2 DEF TrafficInv
<1>2. TypeOK /\ TrafficInv /\ [Next]_vars => TrafficInv'
  <2> SUFFICES ASSUME TypeOK, TrafficInv, [Next]_vars PROVE TrafficInv'
    OBVIOUS
  <2>0. /\ {carried, counter, totals, counted, lastNo, lastAt, firstAt} \subseteq Nat
        /\ \A q \in requests : q \in Request /\ q.no \in Nat /\ q.total \in Nat /\ q.at \in Nat
        /\ reports \in Seq(Report) /\ DOMAIN reports = 1..Len(reports) /\ Len(reports) \in Nat
        /\ \A i \in DOMAIN reports : reports[i].total \in Nat /\ reports[i].at \in Nat
    <3>1. \A q \in requests : q \in Request /\ q.no \in Nat /\ q.total \in Nat /\ q.at \in Nat
      BY DEF TypeOK, RequestsOK, Request
    <3>2. reports \in Seq(Report) /\ DOMAIN reports = 1..Len(reports) /\ Len(reports) \in Nat
      BY DEF TypeOK, RequestsOK
    <3>3. \A i \in DOMAIN reports : reports[i] \in Report
      BY <3>2
    <3>4. \A i \in DOMAIN reports : reports[i].total \in Nat /\ reports[i].at \in Nat
      BY <3>3 DEF Report
    <3> QED BY <3>1, <3>2, <3>4 DEF TypeOK
  <2>1. CASE Carry
    <3>1. /\ carried' = carried + 1 /\ counter' = counter + 1 /\ reboots' = reboots
          /\ UNCHANGED <<reports, requests, haveTotals, totals, counted, lastNo,
                         lastAt, firstAt, again>>
      BY <2>1 DEF Carry, state, history
    <3>2. counter' <= carried' /\ carried <= carried'
      BY <2>0, <3>1 DEF TrafficInv, CounterInv
    <3>3. CounterFits'
      <4> SUFFICES ASSUME NEW i \in DOMAIN reports PROVE FitsCounter(i)'
        BY <3>1 DEF CounterFits
      <4>1. /\ reports[i].total <= reports[i].at /\ reports[i].at <= carried
            /\ reports[i].at + counter <= carried + reports[i].total
        BY DEF TrafficInv, CounterInv, CounterFits, FitsCounter
      <4>2. /\ reports[i].total \in Nat /\ reports[i].at \in Nat
            /\ carried \in Nat /\ counter \in Nat
        BY <2>0
      <4>3. /\ reports[i].at <= carried'
            /\ reports[i].at + counter' <= carried' + reports[i].total
        BY <3>1, <4>1, <4>2
      <4> QED BY <3>1, <4>1, <4>3 DEF FitsCounter
    <3>4. ReportsFit'
      BY <3>1 DEF TrafficInv, CounterInv, ReportsFit, FitsLater
    <3>5. OneBoot'
      BY <2>0, <3>1 DEF TrafficInv, CounterInv, OneBoot
    <3>6. CounterInv'
      BY <3>2, <3>3, <3>4, <3>5 DEF CounterInv
    <3>7. CopiesInv'
      BY <3>1 DEF TrafficInv, CopiesInv
    <3>8. NoOvercount' /\ NothingLost'
      BY <3>1 DEF TrafficInv, NoOvercount, NothingLost
    <3> QED BY <3>6, <3>7, <3>8 DEF TrafficInv
  <2>2. CASE Reboot
    <3>1. /\ carried' = carried /\ counter' = 0 /\ reboots' # 0
          /\ UNCHANGED <<reports, requests, haveTotals, totals, counted, lastNo,
                         lastAt, firstAt, again>>
      BY <2>2 DEF Reboot, TypeOK, state, history
    <3>2. counter' <= carried' /\ carried <= carried'
      BY <2>0, <3>1 DEF TrafficInv, CounterInv
    <3>3. CounterFits'
      <4> SUFFICES ASSUME NEW i \in DOMAIN reports PROVE FitsCounter(i)'
        BY <3>1 DEF CounterFits
      <4>1. /\ reports[i].total <= reports[i].at /\ reports[i].at <= carried
            /\ reports[i].at + counter <= carried + reports[i].total
        BY DEF TrafficInv, CounterInv, CounterFits, FitsCounter
      <4>2. /\ reports[i].total \in Nat /\ reports[i].at \in Nat
            /\ carried \in Nat /\ counter \in Nat
        BY <2>0
      <4>3. /\ reports[i].at <= carried'
            /\ reports[i].at + counter' <= carried' + reports[i].total
        BY <3>1, <4>1, <4>2
      <4> QED BY <3>1, <4>1, <4>3 DEF FitsCounter
    <3>4. ReportsFit'
      BY <3>1 DEF TrafficInv, CounterInv, ReportsFit, FitsLater
    <3>5. OneBoot'
      BY <3>1 DEF OneBoot
    <3>6. CounterInv'
      BY <3>2, <3>3, <3>4, <3>5 DEF CounterInv
    <3>7. CopiesInv'
      BY <3>1 DEF TrafficInv, CopiesInv
    <3>8. NoOvercount' /\ NothingLost'
      BY <3>1 DEF TrafficInv, NoOvercount, NothingLost
    <3> QED BY <3>6, <3>7, <3>8 DEF TrafficInv
  <2>3. CASE Created \/ Tick \/ UNCHANGED vars
    BY <2>3, TrafficKept DEF Created, Tick, vars, state
  <2>4. CASE CenterRestart
    <3>1. /\ ~haveTotals' /\ counted' = 0 /\ firstAt' = lastAt /\ lastAt' = lastAt
          /\ requests' \subseteq requests /\ UNCHANGED <<carried, counter, reports, reboots>>
      BY <2>4 DEF CenterRestart, machine
    <3>2. CounterInv'
      BY <3>1, CounterKept DEF TrafficInv, machine
    <3>3. CopiesInv'
      BY <3>1 DEF TrafficInv, CopiesInv
    <3>4. NoOvercount' /\ NothingLost'
      <4>1. again' = 0 /\ lastAt \in Nat
        BY <2>0, <2>4 DEF CenterRestart
      <4> QED
        BY <2>0, <3>1, <4>1 DEF NoOvercount, NothingLost
    <3> QED BY <3>2, <3>3, <3>4 DEF TrafficInv
  <2>5. ASSUME NEW enc \in Encodings, Send(enc) PROVE TrafficInv'
    <3> DEFINE new == [total |-> counter, at |-> carried, enc |-> enc, copies |-> 1]
               n == Len(reports) + 1
    <3>1. new \in Report /\ new.total = counter /\ new.at = carried
      BY <2>0, IngestAssumption DEF Report
    <3>2. reports' = Append(reports, new)
      BY <2>5 DEF Send
    <3> HIDE DEF new
    <3>3. /\ DOMAIN reports' = 1..n /\ Len(reports') = n /\ reports'[n] = new
          /\ \A i \in 1..Len(reports) : reports'[i] = reports[i]
      BY <2>0, <3>1, <3>2
    <3>4. /\ requests' = requests \cup {Copy(n, new, 1)}
          /\ UNCHANGED <<carried, counter, reboots, haveTotals, totals, counted, lastNo,
                         lastAt, firstAt, again>>
      BY <2>5, <3>3 DEF Send, state, history
    <3>5. CounterInv'
      <4>1. \A i \in DOMAIN reports : i \in 1..Len(reports) /\ i # n
        BY <2>0
      <4>2. \A i \in 1..n : i = n \/ i \in DOMAIN reports
        BY <2>0
      <4>0. counter <= carried /\ CounterFits /\ ReportsFit /\ OneBoot
        BY DEF TrafficInv, CounterInv
      <4>3. CounterFits'
        <5> SUFFICES ASSUME NEW i \in 1..n PROVE FitsCounter(i)'
          BY <3>3 DEF CounterFits
        <5>1. CASE i = n
          BY <2>0, <3>1, <3>3, <3>4, <4>0, <5>1 DEF FitsCounter
        <5>2. CASE i \in DOMAIN reports
          <6>1. FitsCounter(i) /\ reports'[i] = reports[i]
            BY <2>0, <3>3, <4>0, <5>2 DEF CounterFits
          <6> QED BY <3>4, <6>1 DEF FitsCounter
        <5> QED BY <4>2, <5>1, <5>2
      <4>4. ReportsFit'
        <5> SUFFICES ASSUME NEW i \in 1..n, NEW j \in 1..n, i <= j PROVE FitsLater(i, j)'
          BY <3>3 DEF ReportsFit
        <5>1. CASE i = n
          BY <2>0, <3>1, <3>3, <5>1 DEF FitsLater
        <5>2. CASE i # n /\ j = n
          <6>1. i \in DOMAIN reports /\ reports'[i] = reports[i]
            BY <2>0, <3>3, <4>2, <5>2
          <6>2. FitsCounter(i) /\ reports[i].total \in Nat /\ reports[i].at \in Nat
            BY <2>0, <4>0, <6>1 DEF CounterFits
          <6>3. reports'[j].total = counter /\ reports'[j].at = carried
            BY <3>1, <3>3, <5>2
          <6> QED BY <6>1, <6>2, <6>3 DEF FitsCounter, FitsLater
        <5>3. CASE i # n /\ j # n
          <6>1. i \in DOMAIN reports /\ j \in DOMAIN reports
            BY <4>2, <5>3
          <6>2. reports'[i] = reports[i] /\ reports'[j] = reports[j]
            BY <2>0, <3>3, <6>1
          <6>3. FitsLater(i, j)
            BY <4>0, <6>1 DEF ReportsFit
          <6> QED BY <6>2, <6>3 DEF FitsLater
        <5> QED BY <5>1, <5>2, <5>3
      <4>5. OneBoot'
        BY <2>0, <3>1, <3>3, <3>4, <4>0, <4>2 DEF OneBoot
      <4> QED BY <3>4, <4>0, <4>3, <4>4, <4>5 DEF CounterInv
    <3>6. CopiesInv'
      <4>1. /\ Copy(n, new, 1).no = n /\ Copy(n, new, 1).total = new.total
            /\ Copy(n, new, 1).at = new.at
        BY DEF Copy
      <4>2. \A q \in requests' : /\ q.no \in DOMAIN reports'
                               /\ q.total = reports'[q.no].total /\ q.at = reports'[q.no].at
        BY <2>0, <3>3, <3>4, <4>1 DEF TrafficInv, CopiesInv
      <4>3. haveTotals => /\ lastNo \in DOMAIN reports'
                         /\ totals = reports'[lastNo].total /\ lastAt = reports'[lastNo].at
        BY <2>0, <3>3 DEF TrafficInv, CopiesInv
      <4> QED BY <3>4, <4>2, <4>3 DEF TrafficInv, CopiesInv
    <3> QED BY <3>4, <3>5, <3>6 DEF TrafficInv, NoOvercount, NothingLost
  <2>6. ASSUME NEW no \in DOMAIN reports, Resend(no) PROVE TrafficInv'
    <3> DEFINE new == [reports[no] EXCEPT !.copies = @ + 1]
    <3>1. new.total = reports[no].total /\ new.at = reports[no].at
      BY <2>0 DEF Report
    <3>2. reports' = [reports EXCEPT ![no] = new]
      BY <2>6 DEF Resend
    <3> HIDE DEF new
    <3>3. /\ DOMAIN reports' = DOMAIN reports /\ reports'[no] = new
          /\ \A i \in DOMAIN reports : /\ reports'[i].total = reports[i].total
                                     /\ reports'[i].at = reports[i].at
      BY <2>0, <3>1, <3>2
    <3>4. /\ requests' = requests \cup {Copy(no, reports'[no], reports'[no].copies)}
          /\ UNCHANGED <<carried, counter, reboots, haveTotals, totals, counted, lastNo,
                         lastAt, firstAt, again>>
      BY <2>6 DEF Resend, state, history
    <3>5. CounterInv'
      <4>1. counter' <= carried'
        BY <3>4 DEF TrafficInv, CounterInv
      <4>2. CounterFits'
        BY <3>3, <3>4 DEF TrafficInv, CounterInv, CounterFits, FitsCounter
      <4>3. ReportsFit'
        BY <3>3, <3>4 DEF TrafficInv, CounterInv, ReportsFit, FitsLater
      <4>4. OneBoot'
        BY <3>3, <3>4 DEF TrafficInv, CounterInv, OneBoot
      <4> QED BY <4>1, <4>2, <4>3, <4>4 DEF CounterInv
    <3>6. CopiesInv'
      <4>1. /\ Copy(no, reports'[no], reports'[no].copies).no = no
            /\ Copy(no, reports'[no], reports'[no].copies).total = reports'[no].total
            /\ Copy(no, reports'[no], reports'[no].copies).at = reports'[no].at
        BY DEF Copy
      <4> QED BY <3>3, <3>4, <4>1 DEF TrafficInv, CopiesInv
    <3> QED BY <3>4, <3>5, <3>6 DEF TrafficInv, NoOvercount, NothingLost
  <2>7. ASSUME NEW q \in requests, NEW stage, NEW now, NEW dup, Becomes(q, stage, now, dup),
               UNCHANGED <<machine, haveTotals, totals, counted, history>>
        PROVE  TrafficInv'
    <3> DEFINE r == [q EXCEPT !.stage = stage, !.now = now, !.dup = dup]
    <3>1. r.no = q.no /\ r.total = q.total /\ r.at = q.at
      BY <2>0 DEF Request
    <3>2. requests' = (requests \ {q}) \cup {r}
      BY <2>7 DEF Becomes
    <3> HIDE DEF r
    <3> QED BY <2>7, <3>1, <3>2, TrafficKept
  <2>8. ASSUME NEW q \in requests, Arrive(q) \/ CheckToken(q) \/ Seen(q) PROVE TrafficInv'
    BY <2>7, <2>8 DEF Arrive, CheckToken, Seen, state
  <2>9. ASSUME NEW q \in requests,
               Lost(q) \/ Reject(q) \/ AnswerDuplicate(q) \/ UnknownAgent(q)
        PROVE  TrafficInv'
    <3>1. requests' \subseteq requests /\ UNCHANGED <<machine, state, history>>
      BY <2>9 DEF Lost, Reject, AnswerDuplicate, UnknownAgent
    <3> QED BY <3>1, TrafficKept DEF state
  <2>10. ASSUME NEW q \in requests, Apply(q) PROVE TrafficInv'
    <3>1. /\ counted' = counted + Delta(q.total)
          /\ haveTotals' = TRUE /\ totals' = q.total
          /\ lastNo' = q.no /\ lastAt' = q.at
          /\ firstAt' = IF haveTotals THEN firstAt ELSE q.at
          /\ again' = again + Again(q)
          /\ requests' = requests \ {q}
          /\ UNCHANGED <<carried, counter, reports, reboots>>
      BY <2>10 DEF Apply, machine
    <3>2. /\ q.no \in DOMAIN reports /\ q.total = reports[q.no].total /\ q.at = reports[q.no].at
          /\ q.no \in Nat /\ q.total \in Nat /\ q.at \in Nat
      BY <2>0 DEF TrafficInv, CopiesInv
    <3>3. CounterInv'
      BY <3>1, CounterKept DEF TrafficInv, machine
    <3>4. CopiesInv'
      BY <3>1, <3>2 DEF TrafficInv, CopiesInv
    <3>5. CASE ~haveTotals
      <4>1. counted' = 0 /\ firstAt' = q.at /\ lastAt' = q.at
        BY <3>1, <3>5 DEF Delta, TrafficInv, CopiesInv
      <4>2. again \in Int /\ again >= 0
        BY <2>0, <3>5 DEF TypeOK, TrafficInv, CopiesInv, NoOvercount
      <4>3. again' = again
        BY <3>1, <3>5, <4>2 DEF Again
      <4> QED
        BY <3>2, <3>3, <3>4, <4>1, <4>2, <4>3 DEF TrafficInv, NoOvercount, NothingLost
    <3>6. CASE haveTotals
      <4>1. /\ lastNo \in DOMAIN reports /\ lastNo \in Nat
            /\ totals = reports[lastNo].total /\ lastAt = reports[lastNo].at
            /\ totals \in Nat /\ lastAt \in Nat /\ counted \in Nat /\ firstAt \in Nat
        BY <2>0, <3>6 DEF TrafficInv, CopiesInv
      <4>2. lastNo <= q.no =>
              lastAt <= q.at /\ lastAt + q.total <= q.at + totals
        BY <3>2, <4>1 DEF TrafficInv, CounterInv, ReportsFit, FitsLater
      <4>3. counted' = counted + (IF q.total >= totals THEN q.total - totals ELSE 0)
        BY <3>1, <3>6 DEF Delta
      <4>4. NoOvercount'
        <5>0. again \in Int /\ counted + firstAt <= lastAt + again
          BY DEF TypeOK, TrafficInv, NoOvercount
        <5>1. CASE lastNo <= q.no
          <6>1. Again(q) = 0
            BY <3>2, <4>1, <5>1 DEF Again
          <6>2. counted' + firstAt <= q.at + again
            BY <3>2, <4>1, <4>2, <4>3, <5>0, <5>1
          <6> QED
            BY <3>1, <3>6, <5>0, <6>1, <6>2 DEF NoOvercount
        <5>2. CASE q.no < lastNo
          <6>1. q.at <= lastAt /\ q.at + totals <= lastAt + q.total
            BY <3>2, <4>1, <5>2 DEF TrafficInv, CounterInv, ReportsFit, FitsLater
          <6>2. Again(q) = (lastAt - q.at) + IF q.at - q.total = lastAt - totals THEN 0 ELSE q.total
            BY <3>6, <5>2 DEF Again
          <6>3. CASE q.at - q.total = lastAt - totals
            <7>1. Again(q) = lastAt - q.at /\ counted' = counted
              BY <3>2, <4>1, <4>3, <6>1, <6>2, <6>3
            <7> QED
              BY <3>1, <3>2, <3>6, <4>1, <5>0, <7>1 DEF NoOvercount
          <6>4. CASE q.at - q.total # lastAt - totals
            <7>1. Again(q) = lastAt - q.at + q.total /\ counted' <= counted + q.total
              BY <3>2, <4>1, <4>3, <6>2, <6>4
            <7>2. counted' \in Nat
              BY <3>2, <4>1, <4>3
            <7> QED
              BY <3>1, <3>2, <3>6, <4>1, <5>0, <7>1, <7>2 DEF NoOvercount
          <6> QED
            BY <6>3, <6>4
        <5> QED
          BY <3>2, <4>1, <5>1, <5>2
      <4>5. NothingLost'
        <5> SUFFICES ASSUME reboots = 0 PROVE q.at <= counted' + firstAt
          BY <3>1, <3>6 DEF NothingLost
        <5>1. q.total = q.at /\ totals = lastAt
          BY <3>2, <4>1 DEF TrafficInv, CounterInv, OneBoot
        <5>2. lastAt <= counted + firstAt
          BY DEF TrafficInv, NothingLost
        <5> QED BY <3>2, <4>1, <4>3, <5>1, <5>2
      <4> QED BY <3>3, <3>4, <4>4, <4>5 DEF TrafficInv
    <3> QED BY <3>5, <3>6
  <2> QED
    BY <2>1, <2>2, <2>3, <2>4, <2>5, <2>6, <2>8, <2>9, <2>10 DEF Next
<1> QED BY <1>1, <1>2, TypeCorrect, PTL DEF Spec

\* The traffic counted is never more than what went through the interface, but for
\* what reports applied after newer ones make count again.
THEOREM TrafficIsRight == Spec => []NoOvercount
<1>1. TrafficInv => NoOvercount
  BY DEF TrafficInv
<1> QED BY <1>1, TrafficInvariant, PTL

\* Lost reports lose no traffic while the machine stays up.
THEOREM TrafficIsComplete == Spec => []NothingLost
<1>1. TrafficInv => NothingLost
  BY DEF TrafficInv
<1> QED BY <1>1, TrafficInvariant, PTL
=============================================================================
