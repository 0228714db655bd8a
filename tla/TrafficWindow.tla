---------------------------- MODULE TrafficWindow ----------------------------
(* What the dashboard's traffic windows promise: every byte credited to a    *)
(* minute counts in each window that holds the minute, for as long as the    *)
(* longest window reaches back, and in no other.  A minute the longest       *)
(* window has left may be forgotten when traffic is added, and not before.   *)
EXTENDS Integers, Functions

CONSTANTS MinuteMS,   \* length of a minute in clock units (60000 ms)
          Size,       \* the longest window in minutes (43200: 30 days)
          Amounts,    \* bytes one report adds
          MaxNow      \* bound: the clock stops here

VARIABLES now, log, answer

MinuteOf(ts) == ts \div MinuteMS
Minutes == 0 .. MinuteOf(MaxNow)

\* The minutes the longest window still holds at time t.
Within(m, t) == m > MinuteOf(t) - Size

\* A request reads the clock before it takes the lock, so it may be late, but
\* by less than the longest window.
Late(ts) == ts \in 1 .. now /\ Within(MinuteOf(ts), now)

Logged(m) == IF m \in Minutes THEN log[m] ELSE 0

WInit ==
    /\ now = 1
    /\ log = [m \in Minutes |-> 0]
    /\ answer = 0

WAdd(ts, bytes) ==
    /\ Late(ts)
    /\ UNCHANGED <<now, answer>>
    /\ log' \in [Minutes -> Nat]
    /\ log'[MinuteOf(ts)] = log[MinuteOf(ts)] + bytes
    /\ \A m \in Minutes \ {MinuteOf(ts)} :
          log'[m] = log[m] \/ (~Within(m, now) /\ log'[m] = 0)

\* The bytes of the last n minutes as of a time that may be past.
WQuery(asOf, n) ==
    /\ asOf \in 1 .. now
    /\ UNCHANGED <<now, log>>
    /\ answer' = SumFunction([i \in 0 .. n - 1 |-> Logged(MinuteOf(asOf) - i)])

WTick ==
    /\ now < MaxNow
    /\ now' = now + 1
    /\ UNCHANGED <<log, answer>>

\* Traffic is not persisted: a restarted center starts from nothing.
WRestart ==
    /\ log' = [m \in Minutes |-> 0]
    /\ UNCHANGED <<now, answer>>

WNext ==
    \/ \E ts \in 1 .. MaxNow, bytes \in Amounts : WAdd(ts, bytes)
    \/ \E asOf \in 1 .. MaxNow, n \in 1 .. Size : WQuery(asOf, n)
    \/ WTick
    \/ WRestart

WSpec == WInit /\ [][WNext]_<<now, log, answer>>
==============================================================================
