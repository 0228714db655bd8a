------------------------------- MODULE Rolling -------------------------------
(* globalRolling of internal/center/rolling.go: a ring of minute buckets     *)
(* tagged with the minute they belong to, one for all servers and one for    *)
(* each.  Received and sent bytes are added alike, so one amount stands for  *)
(* both.  Add and SumLastMinutes run under the service's lock, but with a    *)
(* time that the request read before it took the lock.                       *)
EXTENDS Integers, Functions

CONSTANTS MinuteMS, Size, Amounts, MaxNow,
          MaxBytes    \* bound: bytes in one bucket

ASSUME RollingAssumption ==
    /\ MinuteMS \in Nat \ {0} /\ Size \in Nat \ {0}
    /\ Amounts \subseteq Nat /\ MaxNow \in Nat \ {0} /\ MaxBytes \in Nat

VARIABLES now,       \* the center's clock
          buckets,   \* g.buckets
          answer     \* the last sum a snapshot showed

vars == <<now, buckets, answer>>

MinuteOf(ts) == ts \div MinuteMS
Within(m, t) == m > MinuteOf(t) - Size
Index(minute) == minute % Size

Empty == [i \in 0 .. Size - 1 |-> [minute |-> 0, bytes |-> 0]]

Init == now = 1 /\ buckets = Empty /\ answer = 0

\* What a bucket contributes to the minute that is looked up.
Read(minute) ==
    IF minute >= 0 /\ buckets[Index(minute)].minute = minute
    THEN buckets[Index(minute)].bytes ELSE 0

\* Mutant of Fresh: the bucket is reused without being cleared.
FreshUncleared(b, minute) == [b EXCEPT !.minute = minute]

\* The bucket of a minute, cleared when it still holds an older one.
Fresh(b, minute) ==
    IF b.minute # minute THEN [minute |-> minute, bytes |-> 0] ELSE b

Add(ts, bytes) ==
    LET minute == MinuteOf(ts)
        b == Fresh(buckets[Index(minute)], minute)
    IN  /\ ts \in 1 .. now /\ Within(minute, now)
        /\ b.bytes + bytes <= MaxBytes
        /\ buckets' = [buckets EXCEPT ![Index(minute)] = [b EXCEPT !.bytes = @ + bytes]]
        /\ UNCHANGED <<now, answer>>

SumLastMinutes(asOf, n) == SumFunction([i \in 0 .. n - 1 |-> Read(MinuteOf(asOf) - i)])

\* handleSnapshot asks for windows of at most monthMinFor minutes, as of a time
\* it read before it took the lock.
Snapshot(asOf, n) ==
    /\ asOf \in 1 .. now
    /\ answer' = SumLastMinutes(asOf, n)
    /\ UNCHANGED <<now, buckets>>

Tick == now < MaxNow /\ now' = now + 1 /\ UNCHANGED <<buckets, answer>>

\* newGlobalRolling after a restart.
Restart == buckets' = Empty /\ UNCHANGED <<now, answer>>

Next ==
    \/ \E ts \in 1 .. MaxNow, bytes \in Amounts : Add(ts, bytes)
    \/ \E asOf \in 1 .. MaxNow, n \in 1 .. Size : Snapshot(asOf, n)
    \/ Tick
    \/ Restart

Spec == Init /\ [][Next]_vars

-----------------------------------------------------------------------------
Bucket == [minute : Nat, bytes : Nat]

TypeOK ==
    /\ now \in Nat
    /\ buckets \in [0 .. Size - 1 -> Bucket]

\* A bucket that holds bytes sits at its minute's place and is not from the
\* future, so two minutes of one window never share it.
BucketsInPlace ==
    \A i \in 0 .. Size - 1 :
        /\ buckets[i].bytes > 0 => Index(buckets[i].minute) = i
        /\ buckets[i].minute <= MinuteOf(now)

\* The ring, read minute by minute, is the log of the abstract specification.
Log == [m \in 0 .. MinuteOf(MaxNow) |-> Read(m)]

Window == INSTANCE TrafficWindow WITH log <- Log

\* Reading and reusing the ring loses and invents nothing (rolling.go:20-52).
ImplementsWindow == Window!WSpec
==============================================================================
