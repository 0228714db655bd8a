------------------------------ MODULE Presence ------------------------------
(* One server on the dashboard: its agent's loop in time, the handlers of    *)
(* its reports, which credit traffic to the minute of their arrival and set  *)
(* lastSeenMS back to it (ingest_handler.go), and what a snapshot makes of   *)
(* the two: online or not, and the traffic used since the renewal date       *)
(* (snapshot_handler.go).  The ring of buckets is Rolling.                   *)
EXTENDS Rolling, Sequences, FiniteSets

CONSTANTS Intervals,   \* collection intervals
          Floor,       \* the shortest silence that means offline, 30 s
          Patience,    \* the agent's timeout of a push, 8 s
          Ports, Dial, \* ports probed before a push, and the longest a probe takes, 500 ms
          Shut,        \* the longest the agent's control server takes to stop, 2 s
          Hold,        \* the longest a handler waits for the service's lock
          Day, Renewals, MonthMin    \* renewal dates, 0 for none; monthMinFor

\* probePorts skips what is no port.
Valid == 1 .. 65535
Probed == {i \in DOMAIN Ports : Ports[i] \in Valid}

\* The longest turn of the agent's loop up to the answer.
Turn == Dial * Cardinality(Probed) + Patience

Longer(a, b) == IF a > b THEN a ELSE b

\* Mutant of Threshold: without the floor.
ThresholdBare(interval) == 3 * interval

\* handleSnapshot's thresholdSec
Threshold(interval) == Longer(3 * interval, Floor)

\* Short intervals leave time for a slow turn; see ShownOnline.
ASSUME PresenceAssumption ==
    /\ Intervals \subseteq Nat \ {0}
    /\ {Floor, Patience, Dial, Shut, Hold} \subseteq Nat /\ Ports \in Seq(Int)
    /\ Hold <= (Size - 1) * MinuteMS
    /\ \A e \in Intervals : Hold + Shut + e + Turn <= Longer(3 * e, Floor)
    /\ Day \in Nat \ {0} /\ Day % MinuteMS = 0
    /\ Renewals \subseteq Nat /\ \A d \in Renewals : d % Day = 0
    /\ MonthMin \in 1 .. Size

VARIABLES
    interval,  \* the server's effective interval in the center
    lastSeen,  \* ss.lastSeenMS
    requests,  \* times of arrival of the reports that wait for the lock
    agent,     \* its loop: the ticker's interval, the next tick, the turn under way
    heard,     \* when the last report arrived
    steady     \* the last report was answered in time, by this process

pvars == <<interval, lastSeen, requests, agent, heard, steady>>

Idle(every, due) == [at |-> "idle", every |-> every, due |-> due]

PInit ==
    /\ Init
    /\ interval \in Intervals /\ lastSeen = 0 /\ requests = {} /\ heard = 0 /\ steady = FALSE
    /\ \E e \in Intervals : agent = Idle(e, now + e)

-----------------------------------------------------------------------------
\* An administrator changes the server's interval or the default one.
SetInterval(e) ==
    /\ interval' = e
    /\ UNCHANGED <<vars, lastSeen, requests, agent, heard, steady>>

\* The ticker keeps one tick for a loop that is late, and drops the rest.
NextDue(due, every) == now + every - ((now - due) % every)

Fire ==
    /\ agent.at = "idle" /\ now >= agent.due
    /\ agent' = [at |-> "turn", every |-> agent.every, since |-> now,
                 due |-> NextDue(agent.due, agent.every)]
    /\ UNCHANGED <<vars, interval, lastSeen, requests, heard, steady>>

\* The collection is done and the request reaches handleIngest, which reads the
\* clock.
Arrive ==
    /\ agent.at = "turn"
    /\ agent' = [agent EXCEPT !.at = "waits"]
    /\ requests' = requests \cup {now} /\ heard' = now
    /\ UNCHANGED <<vars, interval, lastSeen, steady>>

\* The push times out or its connection breaks, or the collection failed; the
\* handler goes on.
GiveUp ==
    /\ agent.at \in {"turn", "waits"}
    /\ agent' = Idle(agent.every, agent.due) /\ steady' = FALSE
    /\ UNCHANGED <<vars, interval, lastSeen, requests, heard>>

\* Mutant of SeenAt: the report was seen when it is applied.
SeenAtOnce(ts) == now

SeenAt(ts) == ts

\* The answer is taken over; what it says of the control port comes last.
Answered ==
    [at |-> "settles", every |-> agent.every, next |-> interval, since |-> now, due |-> agent.due]

\* handleIngest under the lock.
Apply(ts, bytes) ==
    /\ ts \in requests /\ requests' = requests \ {ts}
    /\ Add(ts, bytes) /\ lastSeen' = SeenAt(ts)
    /\ IF agent.at = "waits" /\ ts = heard
       THEN agent' = Answered /\ steady' = TRUE
       ELSE UNCHANGED <<agent, steady>>
    /\ UNCHANGED <<interval, heard>>

\* SetDesired returns, which may have had to stop the control server first.  Then
\* the ticker is reset if the answer changed the interval; a tick that is already
\* waiting is not lost.
Settle ==
    /\ agent.at = "settles"
    /\ agent' = IF agent.next = agent.every THEN Idle(agent.every, agent.due)
                ELSE Idle(agent.next, IF agent.due <= now THEN now ELSE now + agent.next)
    /\ UNCHANGED <<vars, interval, lastSeen, requests, heard, steady>>

\* The agent stops, or starts with the interval of its file.
AgentStop ==
    /\ agent' = [at |-> "down"] /\ steady' = FALSE
    /\ UNCHANGED <<vars, interval, lastSeen, requests, heard>>

AgentStart(e) ==
    /\ agent.at = "down" /\ agent' = Idle(e, now + e)
    /\ UNCHANGED <<vars, interval, lastSeen, requests, heard, steady>>

\* Neither the times nor the traffic are persisted.
CenterRestart ==
    /\ Restart
    /\ lastSeen' = 0 /\ requests' = {} /\ steady' = FALSE
    /\ agent' = IF agent.at = "waits" THEN Idle(agent.every, agent.due) ELSE agent
    /\ UNCHANGED <<interval, heard>>

\* Time does not pass a tick that is due, the end of a turn, of a stop or of a wait.
TimePasses ==
    /\ Tick
    /\ agent.at = "idle" => now < agent.due
    /\ agent.at \in {"turn", "waits"} => now < agent.since + Turn
    /\ agent.at = "settles" => now < agent.since + Shut
    /\ \A ts \in requests : now < ts + Hold
    /\ UNCHANGED pvars

PNext ==
    \/ \E e \in Intervals : SetInterval(e) \/ AgentStart(e)
    \/ Fire \/ Arrive \/ GiveUp \/ Settle
    \/ \E ts \in requests, bytes \in Amounts : Apply(ts, bytes)
    \/ \E asOf \in 1 .. MaxNow, n \in {1, MonthMin} : Snapshot(asOf, n) /\ UNCHANGED pvars
    \/ AgentStop \/ CenterRestart \/ TimePasses

PSpec == PInit /\ [][PNext]_<<vars, pvars>>

-----------------------------------------------------------------------------
\* handleSnapshot at the time asOf
Online(asOf) == lastSeen > 0 /\ asOf - lastSeen <= Threshold(interval)

\* An agent whose last report was answered and that has the center's interval
\* is shown online at every moment until it stops or a report fails, though a
\* turn of its loop may take longer than the interval and an abandoned report
\* that waited for the lock may have set lastSeenMS back.
ShownOnline == steady /\ agent.every = interval => Online(now)

\* A server is shown online only when a report arrived lately: one that is
\* applied late does not make a dead agent look alive.
ShownOnlyIfHeard == Online(now) => now - heard <= Threshold(interval)

-----------------------------------------------------------------------------
\* Mutant of UsedMinutes: the first minute is not special.
UsedMinutesNone(asOf, start) ==
    IF 0 < start /\ start < asOf
    THEN LET minutes == (asOf - start) \div MinuteMS
         IN  IF minutes > MonthMin THEN MonthMin ELSE minutes
    ELSE MonthMin

\* serverTrafficUsedBytes: since a renewal date that has passed, at least one
\* minute and at most the longest window; else the longest window.
UsedMinutes(asOf, start) ==
    IF 0 < start /\ start < asOf
    THEN LET minutes == (asOf - start) \div MinuteMS
         IN  IF minutes <= 0 THEN 1 ELSE IF minutes > MonthMin THEN MonthMin ELSE minutes
    ELSE MonthMin

Used(asOf, start) == SumLastMinutes(asOf, UsedMinutes(asOf, start))

\* computeTrafficRenew's days
RenewDays(asOf, date) == (date - (asOf - (asOf % Day))) \div Day

\* The bytes of the log from a minute on.
Since(m) == SumFunction([k \in Longer(0, m) .. MinuteOf(now) |-> Log[k]])

\* The traffic shown as used is what was carried since the renewal date, as far
\* back as the longest window reaches, and nothing of the time before; only its
\* first minute is left out once that is over.  It starts anew when the days
\* shown reach zero.
UsedSinceRenewal ==
    \A date \in Renewals :
        LET oldest == MinuteOf(now) - MonthMin + 1
            first == MinuteOf(date)
            begun == date > 0 /\ RenewDays(now, date) <= 0 /\ now # date
        IN  IF begun
            THEN /\ Used(now, date) <= Since(Longer(first, oldest))
                 /\ Used(now, date) >= Since(Longer(first + 1, oldest))
                 /\ first = MinuteOf(now) => Used(now, date) = Since(first)
            ELSE Used(now, date) = Since(oldest)
=============================================================================
