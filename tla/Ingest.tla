------------------------------- MODULE Ingest -------------------------------
(* How the reports of one server reach its state at the center.  A report    *)
(* carries the total of an interface's byte counter; the center adds up the  *)
(* differences.  handleIngest takes the time first, then looks the message   *)
(* up among those seen (encrypted reports only), then reads the body, which  *)
(* may take any time, and only then locks the service and applies the        *)
(* report: requests overtake each other between any two of these steps.      *)
(* The agent of this repository sends plain reports and never repeats one;   *)
(* the senders of encrypted reports, which do, are external.                 *)
EXTENDS Integers, Sequences

CONSTANTS Ttl,          \* how long a message counts as seen, 10 min
          CleanupEvery, \* 1 min
          Delay,        \* the scheduler's: from taking the time to Seen
          Encodings,    \* TRUE for encrypted reports, FALSE for plain ones
          AllowAutoRegister,
          MaxTime, MaxTraffic, MaxReports, MaxCopies, MaxReboots, MaxRestarts  \* bounds

ASSUME IngestAssumption ==
    /\ {Ttl, CleanupEvery, Delay} \subseteq Nat
    /\ {MaxTime, MaxTraffic, MaxReports, MaxCopies, MaxReboots, MaxRestarts} \subseteq Nat
    /\ Encodings \subseteq BOOLEAN /\ AllowAutoRegister \in BOOLEAN

VARIABLES
    clock,
    \* the server's machine
    carried,    \* bytes its interface ever carried
    counter,    \* the same since it booted: what /proc/net/dev shows
    reports,    \* the reports it made, by number, with the copies it sent
    requests,   \* their copies on the way to the center and in its handlers
    \* the center
    known,      \* s.servers has the server
    seen,       \* dedup: message id -> until when it is a duplicate
    nextCleanup,
    haveTotals, totals,     \* haveNetTotals, lastNetRXTotal
    counted,    \* bytes added to the rolling window
    \* what happened so far
    applied,    \* encrypted copies applied since the center started
    lastNo, lastAt,     \* number of the last applied report, carried at that time
    firstAt,    \* carried at the time of the first applied report
    again,      \* bytes that reports applied after newer ones make count again
    reboots, restarts

machine == <<carried, counter, reports, reboots>>
dedup   == <<seen, nextCleanup>>
state   == <<known, haveTotals, totals, counted>>
history == <<applied, lastNo, lastAt, firstAt, again>>
vars == <<clock, machine, requests, dedup, state, history, restarts>>

Nothing == [m \in {} |-> 0]
Never == 0      \* the zero time: nothing was ever cleaned up

Init ==
    /\ clock = 1
    /\ carried \in 0..1 /\ counter = carried
    /\ reports = << >> /\ requests = {}
    /\ known \in BOOLEAN
    /\ seen = Nothing /\ nextCleanup = Never
    /\ haveTotals = FALSE /\ totals = 0 /\ counted = 0
    /\ applied = {}
    /\ lastNo = 0 /\ lastAt = carried /\ firstAt = carried /\ again = 0
    /\ reboots = 0 /\ restarts = 0

-----------------------------------------------------------------------------
\* The machine and the network.

Carry ==
    /\ carried < MaxTraffic
    /\ carried' = carried + 1 /\ counter' = counter + 1
    /\ UNCHANGED <<clock, reports, reboots, requests, dedup, state, history, restarts>>

Reboot ==
    /\ reboots < MaxReboots
    /\ reboots' = reboots + 1
    /\ counter' = 0
    /\ UNCHANGED <<clock, carried, reports, requests, dedup, state, history, restarts>>

Copy(no, r, n) ==
    [no |-> no, total |-> r.total, at |-> r.at, enc |-> r.enc, copy |-> n,
     stage |-> "network", now |-> Never, dup |-> FALSE]

\* pushOnce, or an external sender: the report's number stands for its X-Msg-ID.
Send(enc) ==
    /\ Len(reports) < MaxReports
    /\ reports' = Append(reports, [total |-> counter, at |-> carried, enc |-> enc, copies |-> 1])
    /\ requests' = requests \cup {Copy(Len(reports'), reports'[Len(reports')], 1)}
    /\ UNCHANGED <<clock, carried, counter, reboots, dedup, state, history, restarts>>

\* An external sender repeats an encrypted report it has no answer to.
Resend(no) ==
    /\ reports[no].enc /\ reports[no].copies < MaxCopies
    /\ reports' = [reports EXCEPT ![no].copies = @ + 1]
    /\ requests' = requests \cup {Copy(no, reports'[no], reports'[no].copies)}
    /\ UNCHANGED <<clock, carried, counter, reboots, dedup, state, history, restarts>>

Lost(q) ==
    /\ q \in requests /\ q.stage = "network"
    /\ requests' = requests \ {q}
    /\ UNCHANGED <<clock, machine, dedup, state, history, restarts>>

-----------------------------------------------------------------------------
\* handleIngest.

Becomes(q, stage, now, dup) ==
    requests' = (requests \ {q}) \cup {[q EXCEPT !.stage = stage, !.now = now, !.dup = dup]}

\* The handler starts and takes the time.
Arrive(q) ==
    /\ q \in requests /\ q.stage = "network"
    /\ Becomes(q, "arrived", clock, FALSE)
    /\ UNCHANGED <<clock, machine, dedup, state, history, restarts>>

\* A plain report needs a good token, checked before the body is read.
CheckToken(q) ==
    /\ q \in requests /\ q.stage = "arrived" /\ ~q.enc
    /\ Becomes(q, "body", q.now, FALSE)
    /\ UNCHANGED <<clock, machine, dedup, state, history, restarts>>

\* cleanupLocked, once a minute at most
Cleaned(now) ==
    IF nextCleanup = Never \/ now > nextCleanup
    THEN [m \in {k \in DOMAIN seen : seen[k] >= now} |-> seen[m]]
    ELSE seen

\* Mutant of Seen: what is cleaned up is what expires soon.
SeenEarly(q) ==
    /\ q \in requests /\ q.stage = "arrived" /\ q.enc
    /\ LET now == q.now
           no == q.no
           kept == {k \in DOMAIN seen : seen[k] >= now + CleanupEvery}
           dup == no \in kept
       IN  /\ seen' = [m \in kept \cup {no} |-> IF m = no /\ ~dup THEN now + Ttl ELSE seen[m]]
           /\ nextCleanup' = now + CleanupEvery
           /\ Becomes(q, "body", now, dup)
    /\ UNCHANGED <<clock, machine, state, history, restarts>>

\* dedupStore.Seen
Seen(q) ==
    /\ q \in requests /\ q.stage = "arrived" /\ q.enc
    /\ LET now == q.now
           no == q.no
           kept == Cleaned(now)
           dup == no \in DOMAIN kept /\ kept[no] >= now
       IN  /\ seen' = IF dup THEN kept
                      ELSE [m \in DOMAIN kept \cup {no} |-> IF m = no THEN now + Ttl ELSE kept[m]]
           /\ nextCleanup' = IF nextCleanup = Never \/ now > nextCleanup
                             THEN now + CleanupEvery ELSE nextCleanup
           /\ Becomes(q, "body", now, dup)
    /\ UNCHANGED <<clock, machine, state, history, restarts>>

\* The body cannot be read, decrypted or decoded; a plain report may also have
\* a bad token.  The message stays among those seen.
Reject(q) ==
    /\ q \in requests /\ (q.stage = "body" \/ (q.stage = "arrived" /\ ~q.enc))
    /\ requests' = requests \ {q}
    /\ UNCHANGED <<clock, machine, dedup, state, history, restarts>>

\* A duplicate is answered with the configuration and dropped.
AnswerDuplicate(q) ==
    /\ q \in requests /\ q.stage = "body" /\ q.dup
    /\ requests' = requests \ {q}
    /\ UNCHANGED <<clock, machine, dedup, state, history, restarts>>

\* Mutants of Delta: the first report after a start counts from zero; a counter
\* that fell is subtracted as if it had not; a large difference is a fault.
DeltaAlways(new) == IF new >= totals THEN new - totals ELSE 0
DeltaUnguarded(new) == IF haveTotals THEN new - totals ELSE 0
DeltaCapped(new) == IF haveTotals /\ new \in totals..(totals + 1) THEN new - totals ELSE 0

\* What a report adds: nothing without a total before it, or if the counter fell.
Delta(new) == IF haveTotals /\ new >= totals THEN new - totals ELSE 0

\* A report applied after a newer one makes the next one count again what was
\* carried between the two; and all that was carried before a boot, if the
\* machine booted between them, since the counter then seems to have grown.
Again(q) ==
    IF haveTotals /\ q.no < lastNo
    THEN (lastAt - q.at) + IF q.at - q.total = lastAt - totals THEN 0 ELSE q.total
    ELSE 0

\* The locked part: register the server if need be, add what the counter grew
\* by, keep its total, and answer.
Apply(q) ==
    /\ q \in requests /\ q.stage = "body" /\ ~q.dup
    /\ known \/ AllowAutoRegister
    /\ known' = TRUE
    /\ counted' = counted + Delta(q.total)
    /\ haveTotals' = TRUE /\ totals' = q.total
    /\ lastNo' = q.no /\ lastAt' = q.at
    /\ firstAt' = IF haveTotals THEN firstAt ELSE q.at
    /\ again' = again + Again(q)
    /\ applied' = IF q.enc THEN applied \cup {[no |-> q.no, copy |-> q.copy, now |-> q.now]}
                  ELSE applied
    /\ requests' = requests \ {q}
    /\ UNCHANGED <<clock, machine, dedup, restarts>>

\* 403 unless servers register by themselves.
UnknownAgent(q) ==
    /\ q \in requests /\ q.stage = "body" /\ ~q.dup
    /\ ~known /\ ~AllowAutoRegister
    /\ requests' = requests \ {q}
    /\ UNCHANGED <<clock, machine, dedup, state, history, restarts>>

\* Enrollment, a token issued or a server added by hand.
Created ==
    /\ ~known
    /\ known' = TRUE
    /\ UNCHANGED <<clock, machine, requests, dedup, haveTotals, totals, counted, history, restarts>>

\* Only the list of servers is on disk.
CenterRestart ==
    /\ restarts < MaxRestarts
    /\ restarts' = restarts + 1
    /\ seen' = Nothing /\ nextCleanup' = Never
    /\ haveTotals' = FALSE /\ totals' = 0 /\ counted' = 0
    /\ requests' = {q \in requests : q.stage = "network"}
    /\ applied' = {} /\ firstAt' = lastAt /\ again' = 0
    /\ UNCHANGED <<clock, machine, known, lastNo, lastAt>>

Tick ==
    /\ clock < MaxTime
    /\ \A q \in requests : q.stage = "arrived" /\ q.enc => clock < q.now + Delay
    /\ clock' = clock + 1
    /\ UNCHANGED <<machine, requests, dedup, state, history, restarts>>

Next ==
    \/ Carry \/ Reboot \/ Created \/ CenterRestart \/ Tick
    \/ \E enc \in Encodings : Send(enc)
    \/ \E no \in DOMAIN reports : Resend(no)
    \/ \E q \in requests :
          Lost(q) \/ Arrive(q) \/ CheckToken(q) \/ Seen(q) \/ Reject(q)
          \/ AnswerDuplicate(q) \/ Apply(q) \/ UnknownAgent(q)

Spec == Init /\ [][Next]_vars

-----------------------------------------------------------------------------
Report == [total : Nat, at : Nat, enc : BOOLEAN, copies : Nat]
Request == [no : Nat, total : Nat, at : Nat, enc : BOOLEAN, copy : Nat,
            stage : {"network", "arrived", "body"}, now : Nat, dup : BOOLEAN]

RequestsOK == reports \in Seq(Report) /\ requests \subseteq Request
SeenOK == DOMAIN seen \subseteq Nat /\ seen \in [DOMAIN seen -> Nat] /\ nextCleanup \in Nat
AppliedOK == applied \subseteq [no : Nat, copy : Nat, now : Nat]

\* Every variable stays in its type; no difference of counters is negative.
TypeOK ==
    /\ {clock, carried, counter, reboots, restarts} \subseteq Nat
    /\ known \in BOOLEAN /\ haveTotals \in BOOLEAN
    /\ {totals, counted, lastNo, lastAt, firstAt} \subseteq Nat /\ again \in Int
    /\ RequestsOK /\ SeenOK /\ AppliedOK

\* Two copies of an encrypted report are both applied only if one came a whole
\* time to live after the other, give or take the delay of the scheduler,
\* however their bodies, other reports and cleanups interleave (dedupStore).
AppliedOnce ==
    \A x, y \in applied :
        x.no = y.no /\ x.copy # y.copy /\ x.now <= y.now => y.now + Delay > x.now + Ttl

\* The traffic counted since the center started is no more than what the
\* interface carried from one report to another, over reboots, lost reports and
\* repeated ones, but for what reports that are applied after newer ones make
\* count again: each no more than what was carried since it was made, and what
\* it shows itself if the machine booted since.
NoOvercount == counted + firstAt <= lastAt + again

\* A lost report loses nothing: while the machine stays up, the next one makes
\* up for it, also when reports overtake each other.
NothingLost == reboots = 0 => lastAt <= counted + firstAt

\* "Drop duplicates silently" (ingest_handler.go:126): what is dropped is a
\* duplicate of a report that was applied, or is about to be.
DroppedIsDuplicate ==
    \A q \in requests :
        q.stage = "body" /\ q.dup =>
            \/ \E x \in applied : x.no = q.no
            \/ \E r \in requests : r.no = q.no /\ r.stage = "body" /\ ~r.dup
=============================================================================
