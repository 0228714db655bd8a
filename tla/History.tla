------------------------------- MODULE History -------------------------------
(* What the series store promises, as if the history of one metric were one  *)
(* set of points: a point that was written is there until it is older than   *)
(* the horizon, and a query that ends has found whatever was there when it   *)
(* began and has not passed the horizon meanwhile.                           *)
EXTENDS Integers

VARIABLES horizon,  \* points from before it may go; it never moves back
          written,  \* points written so far
          points,   \* those that are there
          reading   \* the query under way: its range, what was there, what it found

Nobody == [at |-> "none"]
Before(p, time) == p.ts < time
InRange(p, from, to) == from <= p.ts /\ p.ts <= to

\* A query that is answered misses nothing that has not passed the horizon.
Complete(q, time) == q.at = "answered" => \A p \in q.there : p \in q.got \/ Before(p, time)

HInit ==
    /\ horizon \in Int
    /\ written = {} /\ points = {}
    /\ reading = Nobody

\* Time passes, or the retention is changed.
HAdvance ==
    /\ horizon' \in Int /\ horizon <= horizon'
    /\ UNCHANGED <<written, points, reading>>

\* A point that comes too late may never be seen.
HWrite ==
    /\ \E p \in written' :
          /\ written' = written \cup {p}
          /\ \/ points' = points \cup {p}
             \/ points' = points /\ Before(p, horizon)
    /\ UNCHANGED <<horizon, reading>>

\* Nothing but what has passed the horizon goes.
HExpire ==
    /\ points' \subseteq points
    /\ \A p \in points \ points' : Before(p, horizon)
    /\ UNCHANGED <<horizon, written, reading>>

\* A query begins; where there is nothing to read it is answered at once.
HAsk ==
    /\ reading = Nobody /\ reading' # Nobody
    /\ reading'.there = {p \in points : InRange(p, reading'.from, reading'.to)}
    /\ reading'.got = {}
    /\ Complete(reading', horizon)
    /\ UNCHANGED <<horizon, written, points>>

\* It finds points of its range, a few at a time, and none that are not there.
HFind ==
    /\ reading # Nobody /\ reading.at = "reading"
    /\ \E found \in SUBSET {p \in points : InRange(p, reading.from, reading.to)},
          at \in {"reading", "answered"} :
          reading' = [at |-> at, from |-> reading.from, to |-> reading.to,
                      there |-> reading.there, got |-> reading.got \cup found]
    /\ Complete(reading', horizon)
    /\ UNCHANGED <<horizon, written, points>>

\* The answer is sent, or the program stops before it is.
HLeave ==
    /\ reading # Nobody
    /\ reading' = Nobody
    /\ UNCHANGED <<horizon, written, points>>

HNext == HAdvance \/ HWrite \/ HExpire \/ HAsk \/ HFind \/ HLeave
HSpec == HInit /\ [][HNext]_<<horizon, written, points, reading>>
==============================================================================
