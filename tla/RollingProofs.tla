---------------------------- MODULE RollingProofs ----------------------------
(* The ring of minute buckets implements TrafficWindow, for any ring size,   *)
(* any length of a minute and any amounts; and a server is shown online when *)
(* it should be, for any intervals, timeouts and ports within the assumption.*)
EXTENDS Presence, FiniteSetTheorems, TLAPS

\* Minutes are counted in order.
LEMMA MinuteOrder ==
    ASSUME NEW s \in Nat, NEW t \in Nat, s <= t
    PROVE  MinuteOf(s) \in Nat /\ MinuteOf(t) \in Nat /\ MinuteOf(s) <= MinuteOf(t)
BY RollingAssumption DEF MinuteOf

\* Every minute has a place in the ring.
LEMMA IndexRange == ASSUME NEW m \in Nat PROVE Index(m) \in 0 .. Size - 1
BY RollingAssumption DEF Index

\* Two minutes that share a bucket are a whole ring apart.
LEMMA SharedBucket ==
    ASSUME NEW a \in Nat, NEW b \in Nat, a < b, Index(a) = Index(b)
    PROVE  b - a >= Size
<1> DEFINE qa == a \div Size
           qb == b \div Size
<1>1. /\ a = Size * qa + (a % Size) /\ b = Size * qb + (b % Size)
      /\ qa \in Int /\ qb \in Int
  BY RollingAssumption
<1>2. a % Size = b % Size
  BY DEF Index
<1> HIDE DEF qa, qb
<1>3. b - a = Size * (qb - qa)
  BY <1>1, <1>2, RollingAssumption
<1>4. qb - qa > 0
  BY <1>1, <1>3, RollingAssumption
<1> QED BY <1>1, <1>3, <1>4, RollingAssumption

RingInv == TypeOK /\ BucketsInPlace

\* The bucket an Add works on belongs to its minute and was typed before.
LEMMA FreshBucket ==
    ASSUME RingInv, NEW m \in Nat
    PROVE  LET b == Fresh(buckets[Index(m)], m)
           IN  b \in Bucket /\ b.minute = m /\ b.bytes = Read(m)
<1>1. Index(m) \in 0 .. Size - 1 /\ buckets[Index(m)] \in Bucket
  BY IndexRange DEF RingInv, TypeOK
<1>2. CASE buckets[Index(m)].minute = m
  BY <1>1, <1>2 DEF Fresh, Read, Bucket
<1>3. CASE buckets[Index(m)].minute # m
  BY <1>1, <1>3 DEF Fresh, Read, Bucket
<1> QED BY <1>2, <1>3

\* An empty ring is in place at any time.
LEMMA EmptyInPlace ==
    ASSUME now' \in Nat, buckets' = Empty
    PROVE  RingInv'
BY RollingAssumption, MinuteOrder DEF RingInv, TypeOK, BucketsInPlace, Empty, Bucket

\* Every step keeps the buckets typed and in place.
LEMMA RingStep ==
    ASSUME RingInv, [Next]_vars PROVE RingInv'
<1>1. ASSUME NEW ts \in 1 .. MaxNow, NEW bytes \in Amounts, Add(ts, bytes)
      PROVE  RingInv'
  <2> DEFINE m == MinuteOf(ts)
             b == Fresh(buckets[Index(m)], m)
  <2>1. m \in Nat /\ m <= MinuteOf(now) /\ Index(m) \in 0 .. Size - 1
    BY <1>1, MinuteOrder, IndexRange, RollingAssumption DEF Add, RingInv, TypeOK
  <2>2. b \in Bucket /\ b.minute = m
    BY <2>1, FreshBucket
  <2>3. buckets' = [buckets EXCEPT ![Index(m)] = [b EXCEPT !.bytes = @ + bytes]]
    BY <1>1 DEF Add
  <2>4. [b EXCEPT !.bytes = @ + bytes] \in Bucket
    BY <2>2, RollingAssumption DEF Bucket
  <2>5. [b EXCEPT !.bytes = @ + bytes].minute = m
    BY <2>2 DEF Bucket
  <2> HIDE DEF b
  <2>6. TypeOK'
    BY <1>1, <2>1, <2>3, <2>4 DEF RingInv, TypeOK, Add
  <2>7. BucketsInPlace'
    <3> SUFFICES ASSUME NEW i \in 0 .. Size - 1
                 PROVE  /\ buckets'[i].bytes > 0 => Index(buckets'[i].minute) = i
                        /\ buckets'[i].minute <= MinuteOf(now)
      BY <1>1 DEF BucketsInPlace, Add, Index, MinuteOf
    <3>1. CASE i = Index(m)
      BY <3>1, <2>1, <2>3, <2>5 DEF RingInv, TypeOK
    <3>2. CASE i # Index(m)
      BY <3>2, <2>1, <2>3 DEF RingInv, TypeOK, BucketsInPlace
    <3> QED BY <3>1, <3>2
  <2> QED BY <2>6, <2>7 DEF RingInv
<1>2. ASSUME NEW asOf \in 1 .. MaxNow, NEW n \in 1 .. Size, Snapshot(asOf, n)
      PROVE  RingInv'
  BY <1>2 DEF Snapshot, RingInv, TypeOK, BucketsInPlace
<1>3. CASE Tick
  <2>1. now' \in Nat /\ MinuteOf(now) <= MinuteOf(now') /\ MinuteOf(now) \in Nat
        /\ MinuteOf(now') \in Nat
    BY <1>3, MinuteOrder DEF Tick, RingInv, TypeOK
  <2> QED BY <1>3, <2>1 DEF Tick, RingInv, TypeOK, BucketsInPlace, Bucket
<1>4. CASE Restart
  BY <1>4, EmptyInPlace DEF Restart, RingInv, TypeOK
<1>5. CASE UNCHANGED vars
  BY <1>5 DEF vars, RingInv, TypeOK, BucketsInPlace
<1> QED BY <1>1, <1>2, <1>3, <1>4, <1>5 DEF Next

\* Every bucket stays typed and in place.
THEOREM RingInvariant == Spec => []RingInv
<1>1. Init => RingInv
  <2> SUFFICES ASSUME Init PROVE RingInv
    OBVIOUS
  <2>1. MinuteOf(now) \in Nat
    BY MinuteOrder DEF Init
  <2> QED BY <2>1 DEF Init, RingInv, TypeOK, BucketsInPlace, Empty, Bucket
<1>2. RingInv /\ [Next]_vars => RingInv'
  BY RingStep
<1> QED BY <1>1, <1>2, PTL DEF Spec

\* A bucket that holds bytes is at its own minute's place, and no bucket is from
\* the future: two minutes of one window never share one (rolling.go:20-32).
THEOREM RingStaysInPlace == Spec => []BucketsInPlace
BY RingInvariant, PTL DEF RingInv

-----------------------------------------------------------------------------
\* A minute of the window whose bucket is reused for another minute of the
\* window is that minute.
LEMMA WindowBuckets ==
    ASSUME NEW t \in Nat, NEW a \in Nat, NEW b \in Nat,
           Within(a, t), Within(b, t), a <= MinuteOf(t), b <= MinuteOf(t),
           Index(a) = Index(b)
    PROVE  a = b
BY SharedBucket, MinuteOrder, RollingAssumption DEF Within

\* Nothing is read for a minute that has not begun.
LEMMA FutureReadsZero ==
    ASSUME RingInv, NEW m \in Nat, m > MinuteOf(now)
    PROVE  Read(m) = 0
BY IndexRange, MinuteOrder DEF RingInv, TypeOK, BucketsInPlace, Read, Bucket

\* What the ring and its log hold is a number of bytes.
LEMMA ReadType ==
    ASSUME RingInv, NEW m \in Int
    PROVE  Read(m) \in Nat /\ (m < 0 => Read(m) = 0)
<1>1. CASE m < 0
  BY <1>1 DEF Read
<1>2. CASE m >= 0
  <2>1. Index(m) \in 0 .. Size - 1
    BY <1>2, IndexRange
  <2> QED
    BY <1>2, <2>1 DEF RingInv, TypeOK, Bucket, Read
<1> QED
  BY <1>1, <1>2

\* The ring of minute buckets never loses or invents a byte of a window:
\* globalRolling implements the log of the last Size minutes.
THEOREM RingImplementsWindow == Spec => ImplementsWindow
<1>1. Init => Window!WInit
  BY IndexRange DEF Init, Window!WInit, Log, Window!Minutes, Window!MinuteOf,
     MinuteOf, Read, Empty
<1>2. RingInv /\ [Next]_vars => [Window!WNext]_<<now, Log, answer>>
  <2> SUFFICES ASSUME RingInv, [Next]_vars
               PROVE  Window!WNext \/ UNCHANGED <<now, Log, answer>>
    OBVIOUS
  <2> USE DEF Window!MinuteOf, Window!Within, Window!Minutes
  <2>1. ASSUME NEW ts \in 1 .. MaxNow, NEW bytes \in Amounts, Add(ts, bytes)
        PROVE  Window!WAdd(ts, bytes)
    <3> DEFINE m == MinuteOf(ts)
               b == Fresh(buckets[Index(m)], m)
    <3>1. /\ m \in Nat /\ m <= MinuteOf(now) /\ m <= MinuteOf(MaxNow)
          /\ Index(m) \in 0 .. Size - 1 /\ Within(m, now) /\ now \in Nat
      BY <2>1, MinuteOrder, IndexRange, RollingAssumption DEF Add, RingInv, TypeOK
    <3>2. b \in Bucket /\ b.minute = m /\ b.bytes = Read(m)
      BY <3>1, FreshBucket
    <3>3. buckets' = [buckets EXCEPT ![Index(m)] = [b EXCEPT !.bytes = @ + bytes]]
          /\ now' = now /\ answer' = answer
      BY <2>1 DEF Add
    <3> HIDE DEF b
    <3>4. buckets'[Index(m)] = [minute |-> m, bytes |-> Read(m) + bytes]
      BY <3>1, <3>2, <3>3 DEF RingInv, TypeOK, Bucket
    <3>5. Read(m)' = Read(m) + bytes
      BY <3>1, <3>3, <3>4 DEF Read
    <3>6. ASSUME NEW k \in 0 .. MinuteOf(MaxNow), k # m
          PROVE  Read(k)' = Read(k) \/ (~Within(k, now) /\ Read(k)' = 0)
      <4>1. CASE Index(k) # Index(m)
        BY <4>1, <3>1, <3>3, IndexRange, MinuteOrder, RollingAssumption
           DEF Read, RingInv, TypeOK
      <4>2. CASE Index(k) = Index(m)
        <5>1. ~Within(k, now) \/ k > MinuteOf(now)
          BY <3>6, <4>2, <3>1, WindowBuckets, MinuteOrder, RollingAssumption
        <5>2. Read(k)' = 0
          BY <3>6, <4>2, <3>1, <3>3, <3>4 DEF Read
        <5>3. k \in Nat
          BY MinuteOrder, RollingAssumption
        <5>4. k > MinuteOf(now) => Read(k) = 0
          BY <5>3, FutureReadsZero
        <5> QED BY <5>1, <5>2, <5>4
      <4> QED BY <4>1, <4>2
    <3>7. ASSUME NEW k \in 0 .. MinuteOf(MaxNow)
          PROVE  Read(k)' \in Nat
      <4>1. Read(k) \in Nat /\ Read(m) \in Nat
        BY <3>1, ReadType
      <4>2. bytes \in Nat
        BY RollingAssumption
      <4>3. CASE k = m
        BY <3>5, <4>1, <4>2, <4>3
      <4>4. CASE k # m
        BY <3>6, <4>1, <4>4
      <4> QED
        BY <4>3, <4>4
    <3>8. Log' \in [0 .. MinuteOf(MaxNow) -> Nat]
      <4>1. Log' = [k \in 0 .. MinuteOf(MaxNow) |-> Read(k)']
        BY DEF Log
      <4> QED
        BY <3>7, <4>1
    <3>9. /\ Log'[m] = Log[m] + bytes
          /\ \A k \in 0 .. MinuteOf(MaxNow) :
                k # m => Log'[k] = Log[k] \/ (~Within(k, now) /\ Log'[k] = 0)
      <4>1. \A k \in 0 .. MinuteOf(MaxNow) : Log[k] = Read(k) /\ Log'[k] = Read(k)'
        BY DEF Log
      <4>2. m \in 0 .. MinuteOf(MaxNow)
        BY <3>1, MinuteOrder, RollingAssumption
      <4> QED
        BY <3>5, <3>6, <4>1, <4>2
    <3>10. ts \in 1 .. now
      BY <2>1 DEF Add
    <3> HIDE DEF m
    <3>11. m = ts \div MinuteMS
      BY DEF m, MinuteOf
    <3> QED
      BY <3>1, <3>3, <3>8, <3>9, <3>10, <3>11 DEF Window!WAdd, Window!Late, MinuteOf, Within
  <2>2. ASSUME NEW asOf \in 1 .. MaxNow, NEW n \in 1 .. Size, Snapshot(asOf, n)
        PROVE  Window!WQuery(asOf, n)
    <3>1. /\ MinuteOf(asOf) \in Nat /\ MinuteOf(asOf) <= MinuteOf(MaxNow)
          /\ now \in Nat /\ MinuteOf(now) \in Nat
      BY <2>2, MinuteOrder, RollingAssumption DEF Snapshot, RingInv, TypeOK
    <3>2. \A i \in 0 .. n - 1 : Read(MinuteOf(asOf) - i) = Window!Logged(MinuteOf(asOf) - i)
      BY <3>1, RollingAssumption DEF Window!Logged, Log, Read, MinuteOf
    <3>3. [i \in 0 .. n - 1 |-> Read(MinuteOf(asOf) - i)]
            = [i \in 0 .. n - 1 |-> Window!Logged(MinuteOf(asOf) - i)]
      BY <3>2
    <3>4. answer' = SumFunction([i \in 0 .. n - 1 |-> Window!Logged(MinuteOf(asOf) - i)])
      BY <2>2, <3>3 DEF Snapshot, SumLastMinutes
    <3>5. UNCHANGED <<now, Log>>
      BY <2>2 DEF Snapshot, Log, Read
    <3>6. \A f : Window!SumFunction(f) = SumFunction(f)
      BY DEF Window!SumFunction, Window!SumFunctionOnSet, Window!FoldFunctionOnSet,
             Window!MapThenFoldSet, SumFunction, SumFunctionOnSet,
             FoldFunctionOnSet, MapThenFoldSet
    <3> QED BY <3>6, <2>2, <3>4, <3>5 DEF Snapshot, Window!WQuery, MinuteOf
  <2>3. CASE Tick
    <3>1. Log' = Log
      BY <2>3 DEF Tick, Log, Read
    <3> QED BY <2>3, <3>1 DEF Tick, Window!WNext, Window!WTick
  <2>4. CASE Restart
    <3>1. Log' = [k \in 0 .. MinuteOf(MaxNow) |-> 0]
      BY <2>4, IndexRange, MinuteOrder, RollingAssumption DEF Restart, Log, Read, Empty
    <3> QED BY <2>4, <3>1 DEF Restart, Window!WNext, Window!WRestart, MinuteOf
  <2>5. CASE UNCHANGED vars
    BY <2>5 DEF vars, Log, Read
  <2> QED BY <2>1, <2>2, <2>3, <2>4, <2>5 DEF Next, Window!WNext
<1> QED
  BY <1>1, <1>2, RingInvariant, PTL DEF Spec, ImplementsWindow, Window!WSpec
-----------------------------------------------------------------------------
\* A turn of the agent's loop has a length.
LEMMA TurnType == Turn \in Nat
<1>1. Ports \in Seq(Int) /\ DOMAIN Ports = 1 .. Len(Ports) /\ Len(Ports) \in Nat
  BY PresenceAssumption
<1>2. IsFiniteSet(DOMAIN Ports)
  <2>1. IsFiniteSet(1 .. Len(Ports))
    BY <1>1, FS_Interval
  <2> QED
    BY <1>1, <2>1
<1>3. Probed \subseteq DOMAIN Ports
  BY DEF Probed
<1>4. IsFiniteSet(Probed)
  BY <1>2, <1>3, FS_Subset
<1>5. Cardinality(Probed) \in Nat
  BY <1>4, FS_CardinalityType
<1> QED
  BY <1>5, PresenceAssumption DEF Turn

\* The silence that is tolerated lasts longer than an interval, a turn, a stop of
\* the control server and a wait.
LEMMA ThresholdBound ==
    ASSUME NEW e \in Intervals
    PROVE  Threshold(e) \in Nat /\ Hold + Shut + e + Turn <= Threshold(e)
  BY PresenceAssumption, TurnType DEF Threshold, Longer

\* A tick comes within an interval.
LEMMA NextDueBound ==
    ASSUME NEW e \in Intervals, NEW due \in Int, now \in Nat
    PROVE  NextDue(due, e) \in Int /\ NextDue(due, e) <= now + e
<1>1. e \in Nat \ {0}
  BY PresenceAssumption
<1>2. (now - due) % e \in 0 .. e - 1
  BY <1>1
<1> QED
  BY <1>1, <1>2 DEF NextDue

\* Every step of Presence is one of Rolling, or leaves the ring and its clock alone.
LEMMA PresenceSteps ==
    ASSUME now \in 1 .. MaxNow, [PNext]_<<vars, pvars>>
    PROVE  [Next]_vars /\ now' \in 1 .. MaxNow
<1>1. ASSUME NEW ts \in requests, NEW bytes \in Amounts, Apply(ts, bytes)
      PROVE  Add(ts, bytes) /\ ts \in 1 .. MaxNow /\ now' = now
  BY <1>1, RollingAssumption DEF Apply, Add
<1>2. ASSUME NEW asOf \in 1 .. MaxNow, NEW n \in {1, MonthMin}, Snapshot(asOf, n)
      PROVE  n \in 1 .. Size /\ now' = now
  BY <1>2, PresenceAssumption, RollingAssumption DEF Snapshot
<1>3. CASE CenterRestart
  BY <1>3 DEF CenterRestart, Restart, Next
<1>4. CASE TimePasses
  BY <1>4, RollingAssumption DEF TimePasses, Tick, Next
<1>5. CASE UNCHANGED vars
  BY <1>5 DEF vars
<1> QED
  BY <1>1, <1>2, <1>3, <1>4, <1>5 DEF PNext, Next, SetInterval, AgentStart, Fire, Arrive, GiveUp,
     AgentStop, Settle

LEMMA InsideRolling == PSpec => Spec /\ [](now \in 1 .. MaxNow)
<1>1. PInit => Init /\ now \in 1 .. MaxNow
  BY RollingAssumption DEF PInit, Init
<1>2. now \in 1 .. MaxNow /\ [PNext]_<<vars, pvars>> => [Next]_vars /\ (now \in 1 .. MaxNow)'
  BY PresenceSteps
<1> QED
  BY <1>1, <1>2, PTL DEF PSpec, Spec

\* The dashboard's ring stays in place beside agents, restarts and late handlers.
THEOREM DashboardRingInPlace == PSpec => []BucketsInPlace
  BY InsideRolling, RingStaysInPlace, PTL

\* What snapshots show is the abstract traffic window, with the agent's loop and
\* the handlers of ingest_handler.go as the source of what is added.
THEOREM DashboardImplementsWindow == PSpec => ImplementsWindow
  BY InsideRolling, RingImplementsWindow
-----------------------------------------------------------------------------
\* The loop that has its answer settles within Shut.
Settling ==
    /\ agent \in [at : {"settles"}, every : Intervals, next : Intervals, since : Int, due : Int]
    /\ agent.due <= agent.since + agent.every
    /\ agent.since <= now /\ now <= agent.since + Shut

\* The loop of the agent: nothing is due later than an interval from now, and a
\* turn is not longer than Turn.
LoopInv ==
    \/ agent = [at |-> "down"]
    \/ /\ agent \in [at : {"idle"}, every : Intervals, due : Int]
       /\ agent.due <= now + agent.every
    \/ /\ agent \in [at : {"turn", "waits"}, every : Intervals, since : Int, due : Int]
       /\ agent.due <= now + agent.every
       /\ agent.since <= now /\ now <= agent.since + Turn
    \/ Settling

\* The reports that wait arrived at most Hold ago.
WaitInv ==
    /\ requests \subseteq Nat \ {0} /\ heard \in Nat /\ lastSeen \in Nat
    /\ heard <= now /\ lastSeen <= heard
    /\ \A ts \in requests : ts <= now /\ now <= ts + Hold /\ ts <= heard

\* While the agent is in step, its last turn began within Hold, Shut and an interval
\* of lastSeenMS, whatever older report was applied since.
SteadyInv ==
    steady =>
        /\ lastSeen > 0 /\ agent.at # "down"
        /\ agent.at = "idle" =>
              /\ agent.due <= lastSeen + Hold + Shut + agent.every
              /\ now <= lastSeen + Hold + Shut + agent.every
        /\ agent.at \in {"turn", "waits"} => agent.since <= lastSeen + Hold + Shut + agent.every
        /\ agent.at = "settles" => agent.since <= lastSeen + Hold

PresenceInv ==
    /\ now \in 1 .. MaxNow /\ interval \in Intervals /\ steady \in BOOLEAN
    /\ LoopInv /\ WaitInv /\ SteadyInv

LEMMA IdleType ==
    ASSUME NEW e \in Intervals, NEW due \in Int
    PROVE  /\ Idle(e, due) \in [at : {"idle"}, every : Intervals, due : Int]
           /\ Idle(e, due).at = "idle" /\ Idle(e, due).every = e /\ Idle(e, due).due = due
  BY DEF Idle

LEMMA PresenceInit == PInit => PresenceInv
<1> SUFFICES ASSUME PInit PROVE PresenceInv
  OBVIOUS
<1>1. now = 1 /\ now \in 1 .. MaxNow /\ interval \in Intervals
  BY RollingAssumption DEF PInit, Init
<1>2. PICK e \in Intervals : agent = Idle(e, now + e)
  BY DEF PInit
<1>3. LoopInv
  <2>1. e \in Nat /\ now + e \in Int
    BY <1>1, PresenceAssumption
  <2>2. /\ agent \in [at : {"idle"}, every : Intervals, due : Int]
        /\ agent.every = e /\ agent.due = now + e
    BY <1>2, <2>1, IdleType
  <2> QED
    BY <2>1, <2>2 DEF LoopInv
<1>4. WaitInv /\ SteadyInv /\ steady \in BOOLEAN
  <2>1. lastSeen = 0 /\ requests = {} /\ heard = 0 /\ steady = FALSE
    BY DEF PInit
  <2>2. WaitInv
    BY <1>1, <2>1 DEF WaitInv
  <2> QED
    BY <2>1, <2>2 DEF SteadyInv
<1> QED
  BY <1>1, <1>3, <1>4 DEF PresenceInv

LEMMA PresenceStep == PresenceInv /\ [PNext]_<<vars, pvars>> => PresenceInv'
<1> SUFFICES ASSUME PresenceInv, [PNext]_<<vars, pvars>> PROVE PresenceInv'
  OBVIOUS
<1>0. /\ now \in Nat \ {0} /\ now' \in 1 .. MaxNow /\ Hold \in Nat /\ Shut \in Nat
      /\ Turn \in Nat /\ Intervals \subseteq Nat \ {0} /\ LoopInv /\ WaitInv /\ SteadyInv
      /\ interval \in Intervals /\ steady \in BOOLEAN
  BY PresenceSteps, PresenceAssumption, RollingAssumption, TurnType DEF PresenceInv
<1>1. ASSUME NEW e \in Intervals, SetInterval(e) PROVE PresenceInv'
  <2>1. interval' = e /\ UNCHANGED <<now, lastSeen, requests, agent, heard, steady>>
    BY <1>1 DEF SetInterval, vars
  <2> QED
    BY <1>0, <2>1 DEF PresenceInv, LoopInv, Settling, WaitInv, SteadyInv
<1>2. ASSUME NEW e \in Intervals, AgentStart(e) PROVE PresenceInv'
  <2>1. /\ agent.at = "down" /\ agent' = Idle(e, now + e)
        /\ UNCHANGED <<now, interval, lastSeen, requests, heard, steady>>
    BY <1>2 DEF AgentStart, vars
  <2>2. LoopInv'
    BY <1>0, <2>1, IdleType DEF LoopInv, Settling
  <2>3. WaitInv' /\ SteadyInv'
    BY <1>0, <2>1 DEF WaitInv, SteadyInv
  <2> QED
    BY <1>0, <2>1, <2>2, <2>3 DEF PresenceInv
<1>3. CASE Fire
  <2>1. /\ agent.at = "idle" /\ UNCHANGED <<now, interval, lastSeen, requests, heard, steady>>
        /\ agent' = [at |-> "turn", every |-> agent.every, since |-> now,
                     due |-> NextDue(agent.due, agent.every)]
    BY <1>3 DEF Fire, vars
  <2>2. agent.every \in Intervals /\ agent.due \in Int
    BY <1>0, <2>1 DEF LoopInv, Settling
  <2>3. NextDue(agent.due, agent.every) \in Int /\ NextDue(agent.due, agent.every) <= now + agent.every
    BY <1>0, <2>2, NextDueBound
  <2>4. LoopInv'
    BY <1>0, <2>1, <2>2, <2>3 DEF LoopInv
  <2>5. WaitInv' /\ SteadyInv'
    BY <1>0, <2>1 DEF WaitInv, SteadyInv
  <2> QED
    BY <1>0, <2>1, <2>4, <2>5 DEF PresenceInv
<1>4. CASE Arrive
  <2>1. /\ agent.at = "turn" /\ agent' = [agent EXCEPT !.at = "waits"]
        /\ requests' = requests \cup {now} /\ heard' = now
        /\ UNCHANGED <<now, interval, lastSeen, steady>>
    BY <1>4 DEF Arrive, vars
  <2>2. /\ agent \in [at : {"turn", "waits"}, every : Intervals, since : Int, due : Int]
        /\ agent.due <= now + agent.every /\ agent.since <= now /\ now <= agent.since + Turn
    BY <1>0, <2>1 DEF LoopInv, Settling
  <2>3. /\ agent' \in [at : {"turn", "waits"}, every : Intervals, since : Int, due : Int]
        /\ agent'.at = "waits" /\ agent'.every = agent.every /\ agent'.since = agent.since
        /\ agent'.due = agent.due
    BY <2>1, <2>2
  <2>4. LoopInv'
    BY <2>1, <2>2, <2>3 DEF LoopInv
  <2>5. WaitInv'
    BY <1>0, <2>1 DEF WaitInv
  <2>6. SteadyInv'
    BY <1>0, <2>1, <2>3 DEF SteadyInv
  <2> QED
    BY <1>0, <2>1, <2>4, <2>5, <2>6 DEF PresenceInv
<1>5. CASE GiveUp
  <2>1. /\ agent.at \in {"turn", "waits"} /\ agent' = Idle(agent.every, agent.due) /\ steady' = FALSE
        /\ UNCHANGED <<now, interval, lastSeen, requests, heard>>
    BY <1>5 DEF GiveUp, vars
  <2>2. agent.every \in Intervals /\ agent.due \in Int /\ agent.due <= now + agent.every
    BY <1>0, <2>1 DEF LoopInv, Settling
  <2>3. LoopInv'
    BY <2>1, <2>2, IdleType DEF LoopInv
  <2>4. WaitInv' /\ SteadyInv'
    BY <1>0, <2>1 DEF WaitInv, SteadyInv
  <2> QED
    BY <1>0, <2>1, <2>3, <2>4 DEF PresenceInv
<1>6. ASSUME NEW ts \in requests, NEW bytes \in Amounts, Apply(ts, bytes) PROVE PresenceInv'
  <2>1. /\ requests' = requests \ {ts} /\ lastSeen' = ts
        /\ UNCHANGED <<now, interval, heard>>
    BY <1>6 DEF Apply, Add, SeenAt
  <2>2. ts \in Nat \ {0} /\ ts <= now /\ now <= ts + Hold /\ ts <= heard /\ heard \in Nat
    BY <1>0 DEF WaitInv
  <2>3. WaitInv'
    BY <1>0, <2>1, <2>2 DEF WaitInv
  <2>4. CASE agent.at = "waits" /\ ts = heard
    <3>1. agent' = Answered /\ steady' = TRUE
      BY <1>6, <2>4 DEF Apply
    <3>2. agent.every \in Intervals /\ agent.due \in Int /\ agent.due <= now + agent.every
      BY <1>0, <2>4 DEF LoopInv, Settling
    <3>3. /\ agent' \in [at : {"settles"}, every : Intervals, next : Intervals, since : Int,
                          due : Int]
          /\ agent'.at = "settles" /\ agent'.since = now /\ agent'.every = agent.every
          /\ agent'.due = agent.due
      BY <1>0, <3>1, <3>2 DEF Answered
    <3>4. LoopInv'
      BY <1>0, <2>1, <3>2, <3>3 DEF LoopInv, Settling
    <3>5. SteadyInv'
      BY <1>0, <2>1, <2>2, <3>1, <3>3 DEF SteadyInv
    <3> QED
      BY <1>0, <2>1, <2>3, <3>1, <3>4, <3>5 DEF PresenceInv
  <2>5. CASE ~(agent.at = "waits" /\ ts = heard)
    <3>1. UNCHANGED <<agent, steady>>
      BY <1>6, <2>5 DEF Apply
    <3>2. LoopInv'
      BY <1>0, <2>1, <3>1 DEF LoopInv, Settling
    <3>3. SteadyInv'
      <4>1. CASE agent = [at |-> "down"]
        BY <1>0, <3>1, <4>1 DEF SteadyInv
      <4>2. CASE agent \in [at : {"idle"}, every : Intervals, due : Int] /\ agent.due <= now + agent.every
        <5>1. agent.at = "idle" /\ agent.every \in Nat /\ agent.due \in Int
          BY <1>0, <4>2
        <5>2. /\ agent.due <= ts + Hold + Shut + agent.every
              /\ now <= ts + Hold + Shut + agent.every /\ ts > 0
          BY <1>0, <2>2, <4>2, <5>1
        <5> QED
          BY <2>1, <3>1, <5>1, <5>2 DEF SteadyInv
      <4>3. CASE /\ agent \in [at : {"turn", "waits"}, every : Intervals, since : Int, due : Int]
                 /\ agent.since <= now
        <5>1. agent.at \notin {"idle", "down", "settles"} /\ agent.every \in Nat /\ agent.since \in Int
          BY <1>0, <4>3
        <5>2. agent.since <= ts + Hold + Shut + agent.every /\ ts > 0
          BY <1>0, <2>2, <4>3, <5>1
        <5> QED
          BY <2>1, <3>1, <5>1, <5>2 DEF SteadyInv
      <4>4. CASE Settling
        <5>1. agent.at = "settles" /\ agent.since <= ts + Hold /\ ts > 0
          BY <1>0, <2>2, <4>4 DEF Settling
        <5> QED
          BY <2>1, <3>1, <5>1 DEF SteadyInv
      <4> QED
        BY <1>0, <4>1, <4>2, <4>3, <4>4 DEF LoopInv
    <3> QED
      BY <1>0, <2>1, <2>3, <3>1, <3>2, <3>3 DEF PresenceInv
  <2> QED
    BY <2>4, <2>5
<1>7. ASSUME NEW asOf \in 1 .. MaxNow, NEW n \in {1, MonthMin}, Snapshot(asOf, n), UNCHANGED pvars
      PROVE  PresenceInv'
  BY <1>7 DEF Snapshot, pvars, PresenceInv, LoopInv, Settling, WaitInv, SteadyInv
<1>8. CASE AgentStop
  <2>1. /\ agent' = [at |-> "down"] /\ steady' = FALSE
        /\ UNCHANGED <<now, interval, lastSeen, requests, heard>>
    BY <1>8 DEF AgentStop, vars
  <2> QED
    BY <1>0, <2>1 DEF PresenceInv, LoopInv, WaitInv, SteadyInv
<1>9. CASE CenterRestart
  <2>1. /\ lastSeen' = 0 /\ requests' = {} /\ steady' = FALSE /\ UNCHANGED <<now, interval, heard>>
        /\ agent' = IF agent.at = "waits" THEN Idle(agent.every, agent.due) ELSE agent
    BY <1>9 DEF CenterRestart, Restart
  <2>2. WaitInv' /\ SteadyInv'
    BY <1>0, <2>1 DEF WaitInv, SteadyInv
  <2>3. CASE agent.at = "waits"
    <3>1. agent.every \in Intervals /\ agent.due \in Int /\ agent.due <= now + agent.every
      BY <1>0, <2>3 DEF LoopInv, Settling
    <3>2. LoopInv'
      BY <2>1, <2>3, <3>1, IdleType DEF LoopInv
    <3> QED
      BY <1>0, <2>1, <2>2, <3>2 DEF PresenceInv
  <2>4. CASE agent.at # "waits"
    <3>1. LoopInv'
      BY <1>0, <2>1, <2>4 DEF LoopInv, Settling
    <3> QED
      BY <1>0, <2>1, <2>2, <3>1 DEF PresenceInv
  <2> QED
    BY <2>3, <2>4
<1>10. CASE TimePasses
  <2>1. /\ now' = now + 1 /\ UNCHANGED <<interval, lastSeen, requests, agent, heard, steady>>
        /\ agent.at = "idle" => now < agent.due
        /\ agent.at \in {"turn", "waits"} => now < agent.since + Turn
        /\ agent.at = "settles" => now < agent.since + Shut
        /\ \A ts \in requests : now < ts + Hold
    BY <1>10 DEF TimePasses, Tick, pvars
  <2>2. WaitInv'
    BY <1>0, <2>1 DEF WaitInv
  <2>3. LoopInv' /\ SteadyInv'
    <3>1. CASE agent = [at |-> "down"]
      BY <1>0, <2>1, <3>1 DEF LoopInv, SteadyInv
    <3>2. CASE agent \in [at : {"idle"}, every : Intervals, due : Int] /\ agent.due <= now + agent.every
      <4>1. agent.at = "idle" /\ agent.every \in Nat /\ agent.due \in Int /\ lastSeen \in Nat
        BY <1>0, <3>2 DEF WaitInv
      <4>2. agent.due <= now' + agent.every /\ now' <= agent.due
        BY <1>0, <2>1, <3>2, <4>1
      <4>3. LoopInv'
        BY <2>1, <3>2, <4>2 DEF LoopInv
      <4>4. steady => /\ lastSeen > 0 /\ agent.due <= lastSeen + Hold + Shut + agent.every
                      /\ now' <= lastSeen + Hold + Shut + agent.every
        BY <1>0, <4>1, <4>2 DEF SteadyInv
      <4>5. SteadyInv'
        BY <2>1, <4>1, <4>4 DEF SteadyInv
      <4> QED
        BY <4>3, <4>5
    <3>3. CASE /\ agent \in [at : {"turn", "waits"}, every : Intervals, since : Int, due : Int]
               /\ agent.due <= now + agent.every
               /\ agent.since <= now /\ now <= agent.since + Turn
      <4>1. agent.at \in {"turn", "waits"} /\ agent.every \in Nat /\ agent.since \in Int
        BY <1>0, <3>3
      <4>2. /\ agent.due <= now' + agent.every /\ agent.since <= now'
            /\ now' <= agent.since + Turn
        BY <1>0, <2>1, <3>3, <4>1
      <4>3. LoopInv'
        BY <2>1, <3>3, <4>2 DEF LoopInv
      <4>4. SteadyInv'
        BY <1>0, <2>1, <4>1 DEF SteadyInv
      <4> QED
        BY <4>3, <4>4
    <3>4. CASE Settling
      <4>1. /\ agent.at = "settles" /\ agent.since \in Int /\ agent.since <= now'
            /\ now' <= agent.since + Shut
        BY <1>0, <2>1, <3>4 DEF Settling
      <4>2. LoopInv'
        BY <2>1, <3>4, <4>1 DEF LoopInv, Settling
      <4>3. SteadyInv'
        BY <1>0, <2>1, <4>1 DEF SteadyInv
      <4> QED
        BY <4>2, <4>3
    <3> QED
      BY <1>0, <3>1, <3>2, <3>3, <3>4 DEF LoopInv
  <2> QED
    BY <1>0, <2>1, <2>2, <2>3 DEF PresenceInv
<1>11. CASE UNCHANGED <<vars, pvars>>
  BY <1>11 DEF vars, pvars, PresenceInv, LoopInv, Settling, WaitInv, SteadyInv
<1>12. CASE Settle
  <2>1. /\ agent.at = "settles" /\ UNCHANGED <<now, interval, lastSeen, requests, heard, steady>>
        /\ agent' = IF agent.next = agent.every THEN Idle(agent.every, agent.due)
                    ELSE Idle(agent.next, IF agent.due <= now THEN now ELSE now + agent.next)
    BY <1>12 DEF Settle, vars
  <2>2. Settling
    BY <1>0, <2>1 DEF LoopInv
  <2>3. /\ agent.every \in Intervals /\ agent.next \in Intervals /\ agent.since \in Int
        /\ agent.due \in Int /\ agent.due <= agent.since + agent.every
        /\ agent.since <= now /\ now <= agent.since + Shut
    BY <2>2 DEF Settling
  <2>4. PICK e \in Intervals, due \in Int :
            agent' = Idle(e, due) /\ due <= now + e /\ due <= agent.since + Shut + e
    <3>1. agent.every \in Nat /\ agent.next \in Nat /\ now \in Nat /\ now + agent.next \in Int
      <4>1. \A e \in Intervals : e \in Nat
        BY <1>0
      <4>2. agent.every \in Nat /\ agent.next \in Nat
        BY <2>3, <4>1
      <4> QED
        BY <1>0, <4>2
    <3>2. CASE agent.next = agent.every
      <4>1. /\ agent' = Idle(agent.every, agent.due)
            /\ agent.due <= now + agent.every /\ agent.due <= agent.since + Shut + agent.every
        BY <1>0, <2>1, <2>3, <3>1, <3>2
      <4> QED
        BY <2>3, <4>1
    <3>3. CASE agent.next # agent.every
      <4> DEFINE due == IF agent.due <= now THEN now ELSE now + agent.next
      <4>1. agent' = Idle(agent.next, due)
        BY <2>1, <3>3
      <4>2. due \in Int /\ due <= now + agent.next /\ due <= agent.since + Shut + agent.next
        <5>1. now + agent.next <= agent.since + Shut + agent.next /\ now <= now + agent.next
          BY <1>0, <2>3, <3>1
        <5>2. CASE agent.due <= now
          BY <1>0, <2>3, <3>1, <5>1, <5>2
        <5>3. CASE ~(agent.due <= now)
          BY <1>0, <3>1, <5>1, <5>3
        <5> QED
          BY <5>2, <5>3
      <4> HIDE DEF due
      <4> QED
        BY <2>3, <4>1, <4>2
    <3> QED
      BY <3>2, <3>3
  <2>5. LoopInv'
    BY <2>1, <2>4, IdleType DEF LoopInv
  <2>6. SteadyInv'
    <3>1. steady => lastSeen > 0 /\ agent.since <= lastSeen + Hold
      BY <1>0, <2>1 DEF SteadyInv
    <3>2. steady => /\ lastSeen > 0 /\ due <= lastSeen + Hold + Shut + e
                    /\ now <= lastSeen + Hold + Shut + e
      BY <1>0, <2>3, <2>4, <3>1 DEF WaitInv
    <3> QED
      BY <2>1, <2>4, <3>2, IdleType DEF SteadyInv
  <2>7. WaitInv'
    BY <1>0, <2>1 DEF WaitInv
  <2> QED
    BY <1>0, <2>1, <2>5, <2>6, <2>7 DEF PresenceInv
<1> QED
  BY <1>1, <1>2, <1>3, <1>4, <1>5, <1>6, <1>7, <1>8, <1>9, <1>10, <1>11, <1>12 DEF PNext

\* An agent whose last report was answered and that has the center's interval is
\* shown online at every moment, for all intervals, timeouts, ports and waits
\* that PresenceAssumption relates (handleSnapshot's threshold).
THEOREM AgentShownOnline == PSpec => []ShownOnline
<1>1. PresenceInv => ShownOnline
  <2> SUFFICES ASSUME PresenceInv, steady, agent.every = interval PROVE Online(now)
    BY DEF ShownOnline
  <2>1. /\ now \in Nat /\ Hold \in Nat /\ Turn \in Nat /\ lastSeen \in Nat
        /\ interval \in Nat /\ Threshold(interval) \in Nat
        /\ Shut \in Nat /\ Hold + Shut + interval + Turn <= Threshold(interval)
        /\ LoopInv /\ SteadyInv
    BY PresenceAssumption, TurnType, ThresholdBound DEF PresenceInv, WaitInv
  <2>2. CASE agent \in [at : {"idle"}, every : Intervals, due : Int]
    BY <2>1, <2>2 DEF SteadyInv, Online
  <2>3. CASE /\ agent \in [at : {"turn", "waits"}, every : Intervals, since : Int, due : Int]
             /\ now <= agent.since + Turn
    BY <2>1, <2>3 DEF SteadyInv, Online
  <2>4. CASE agent = [at |-> "down"]
    BY <2>1, <2>4 DEF SteadyInv
  <2>5. CASE Settling
    BY <2>1, <2>5 DEF Settling, SteadyInv, Online
  <2> QED
    BY <2>1, <2>2, <2>3, <2>4, <2>5 DEF LoopInv
<1> QED
  BY <1>1, PresenceInit, PresenceStep, PTL DEF PSpec

\* A server is shown online only if a report arrived lately: lastSeenMS is the
\* arrival of a report, however late it is applied (ingest_handler.go:180).
THEOREM OnlineMeansHeard == PSpec => []ShownOnlyIfHeard
<1>1. PresenceInv => ShownOnlyIfHeard
  <2> SUFFICES ASSUME PresenceInv, Online(now) PROVE now - heard <= Threshold(interval)
    BY DEF ShownOnlyIfHeard
  <2>1. now \in Nat /\ heard \in Nat /\ lastSeen \in Nat /\ lastSeen <= heard
        /\ Threshold(interval) \in Nat
    BY ThresholdBound DEF PresenceInv, WaitInv
  <2> QED
    BY <2>1 DEF Online
<1> QED
  BY <1>1, PresenceInit, PresenceStep, PTL DEF PSpec

-----------------------------------------------------------------------------
(* Sums.  SumFunction is a recursive fold; a sum of naturals is also the     *)
(* number of units it is made of, which needs no recursion and so can be     *)
(* compared by maps between sets.                                            *)
Part(f, s) == {u \in s \X Nat : u[2] < f[u[1]]}

\* The recursion of SumFunction, as a step from one candidate to the next.
SumStep(f, S, h) ==
    [s \in SUBSET S |-> IF s = {} THEN 0
                        ELSE LET x == CHOOSE x \in s : TRUE IN f[x] + h[s \ {x}]]

LEMMA SumUnfolds ==
    ASSUME NEW S, NEW f, DOMAIN f = S
    PROVE  SumFunction(f) = (CHOOSE h : h = SumStep(f, S, h))[S]
  BY DEF SumFunction, SumFunctionOnSet, FoldFunctionOnSet, MapThenFoldSet, SumStep

\* Among parts of a finite set there is one with no smaller one.
LEMMA SmallestPart ==
    ASSUME NEW S, IsFiniteSet(S), NEW P, P \subseteq SUBSET S, P # {}
    PROVE  \E U \in P : \A V \in P : ~(V \subseteq U /\ V # U)
<1>1. P \subseteq FiniteSubsetsOf(S)
  BY FS_FiniteSubsetsOfFinite
<1>2. PICK U \in P : \A V \in P : <<V, U>> \notin StrictSubsetOrdering(S)
  BY <1>1, FS_StrictSubsetOrderingWellFounded, WFMin
<1> QED
  BY <1>2 DEF StrictSubsetOrdering

\* One index more adds its value.
LEMMA PartStep ==
    ASSUME NEW S, NEW f \in [S -> Nat], NEW s \in SUBSET S, NEW x \in s,
           IsFiniteSet(Part(f, s \ {x}))
    PROVE  /\ IsFiniteSet(Part(f, s))
           /\ Cardinality(Part(f, s)) = f[x] + Cardinality(Part(f, s \ {x}))
<1> DEFINE own == {x} \X (0 .. f[x] - 1)
           rest == Part(f, s \ {x})
<1>1. f[x] \in Nat
  OBVIOUS
<1>2. Part(f, s) = rest \cup own /\ rest \cap own = {}
  <2>1. \A k \in s \ {x} : \A j : <<k, j>> \notin own
    OBVIOUS
  <2>2. \A u : u \in Part(f, s) <=> u \in rest \/ u \in own
    BY <1>1 DEF Part
  <2>3. \A u \in rest : u \notin own
    BY DEF Part
  <2> QED
    BY <2>2, <2>3
<1>3. IsFiniteSet(own) /\ Cardinality(own) = f[x]
  <2>1. IsFiniteSet({x}) /\ Cardinality({x}) = 1
    BY FS_Singleton
  <2>2. IsFiniteSet(0 .. f[x] - 1) /\ Cardinality(0 .. f[x] - 1) = f[x]
    <3>1. 0 \in Int /\ f[x] - 1 \in Int
      BY <1>1
    <3>2. /\ IsFiniteSet(0 .. f[x] - 1)
          /\ Cardinality(0 .. f[x] - 1) = IF 0 > f[x] - 1 THEN 0 ELSE f[x] - 1 - 0 + 1
      BY <3>1, FS_Interval
    <3> QED
      BY <1>1, <3>2
  <2>3. \A A, B : IsFiniteSet(A) /\ IsFiniteSet(B) =>
                     IsFiniteSet(A \X B) /\ Cardinality(A \X B) = Cardinality(A) * Cardinality(B)
    BY FS_Product
  <2>4. IsFiniteSet(own) /\ Cardinality(own) = Cardinality({x}) * Cardinality(0 .. f[x] - 1)
    BY <2>1, <2>2, <2>3, Zenon
  <2> HIDE DEF own
  <2> QED
    BY <1>1, <2>1, <2>2, <2>4
<1> HIDE DEF own, rest
<1>4. /\ IsFiniteSet(rest \cup own)
      /\ Cardinality(rest \cup own) = Cardinality(rest) + Cardinality(own) - Cardinality({})
  BY <1>2, <1>3, FS_Union DEF rest
<1>5. Cardinality({}) = 0 /\ Cardinality(rest) \in Nat
  BY FS_EmptySet, FS_CardinalityType DEF rest
<1> QED
  BY <1>1, <1>2, <1>3, <1>4, <1>5 DEF rest

LEMMA PartFinite ==
    ASSUME NEW S, IsFiniteSet(S), NEW f \in [S -> Nat]
    PROVE  \A s \in SUBSET S : IsFiniteSet(Part(f, s))
<1> DEFINE Bad == {s \in SUBSET S : ~IsFiniteSet(Part(f, s))}
<1>1. ASSUME Bad # {} PROVE FALSE
  <2>1. PICK U \in Bad : \A V \in Bad : ~(V \subseteq U /\ V # U)
    <3>1. Bad \subseteq SUBSET S
      OBVIOUS
    <3> HIDE DEF Bad
    <3> QED
      BY <1>1, <3>1, SmallestPart
  <2>2. CASE U = {}
    <3>1. Part(f, U) = {}
      BY <2>2 DEF Part
    <3> QED
      BY <2>1, <3>1, FS_EmptySet
  <2>3. ASSUME NEW x \in U PROVE FALSE
    <3>1. IsFiniteSet(Part(f, U \ {x}))
      BY <2>1
    <3> QED
      BY <2>1, <3>1, PartStep
  <2> QED
    BY <2>2, <2>3
<1> QED
  BY <1>1

LEMMA SumCounts ==
    ASSUME NEW S, IsFiniteSet(S), NEW f \in [S -> Nat]
    PROVE  /\ IsFiniteSet(Part(f, S))
           /\ SumFunction(f) = Cardinality(Part(f, S))
<1> DEFINE card == [s \in SUBSET S |-> Cardinality(Part(f, s))]
           iter == CHOOSE h : h = SumStep(f, S, h)
<1>1. card[{}] = 0
  <2>1. Part(f, {}) = {}
    BY DEF Part
  <2> QED
    BY <2>1, FS_EmptySet
<1>2. ASSUME NEW s \in SUBSET S, NEW x \in s PROVE card[s] = f[x] + card[s \ {x}]
  BY <1>2, PartStep, PartFinite
<1>3. card = SumStep(f, S, card)
  <2> HIDE DEF card
  <2>1. \A s \in SUBSET S : s # {} => (CHOOSE x \in s : TRUE) \in s
    OBVIOUS
  <2>2. ASSUME NEW s \in SUBSET S
        PROVE  card[s] = IF s = {} THEN 0
                         ELSE LET x == CHOOSE x \in s : TRUE IN f[x] + card[s \ {x}]
    BY <1>1, <1>2, <2>1
  <2>3. card = [s \in SUBSET S |-> card[s]]
    BY DEF card
  <2> QED
    BY <2>2, <2>3 DEF SumStep
<1> HIDE DEF card
<1>4. iter = SumStep(f, S, iter)
  BY <1>3
<1> HIDE DEF iter
<1>5. ASSUME NEW s \in SUBSET S
      PROVE  iter[s] = IF s = {} THEN 0
                       ELSE LET x == CHOOSE x \in s : TRUE IN f[x] + iter[s \ {x}]
  BY <1>4 DEF SumStep
<1> DEFINE Bad == {s \in SUBSET S : iter[s] # card[s]}
<1>6. ASSUME Bad # {} PROVE FALSE
  <2>1. PICK U \in Bad : \A V \in Bad : ~(V \subseteq U /\ V # U)
    <3>1. Bad \subseteq SUBSET S
      OBVIOUS
    <3> HIDE DEF Bad
    <3> QED
      BY <1>6, <3>1, SmallestPart
  <2>2. U # {}
    BY <1>1, <1>5, <2>1
  <2> DEFINE x == CHOOSE x \in U : TRUE
  <2>3. x \in U
    BY <2>2
  <2>4. iter[U \ {x}] = card[U \ {x}]
    BY <2>1, <2>3
  <2>5. iter[U] = f[x] + iter[U \ {x}]
    BY <1>5, <2>2
  <2>6. card[U] = f[x] + card[U \ {x}]
    BY <1>2, <2>3
  <2> QED
    BY <2>1, <2>4, <2>5, <2>6
<1>7. iter[S] = card[S]
  BY <1>6
<1>8. card[S] = Cardinality(Part(f, S))
  BY DEF card
<1> QED
  BY <1>7, <1>8, SumUnfolds, PartFinite DEF iter

\* A sum is no larger than another whose terms cover its own, one by one.
LEMMA SumCovered ==
    ASSUME NEW S, IsFiniteSet(S), NEW f \in [S -> Nat],
           NEW T, IsFiniteSet(T), NEW g \in [T -> Nat], NEW h,
           \A i \in S : f[i] > 0 => h[i] \in T /\ f[i] <= g[h[i]],
           \A i, j \in S : f[i] > 0 /\ f[j] > 0 /\ h[i] = h[j] => i = j
    PROVE  SumFunction(f) \in Nat /\ SumFunction(g) \in Nat /\ SumFunction(f) <= SumFunction(g)
<1> DEFINE carry == [u \in Part(f, S) |-> <<h[u[1]], u[2]>>]
<1>1. ASSUME NEW u \in Part(f, S)
      PROVE  u[1] \in S /\ u[2] \in Nat /\ u = <<u[1], u[2]>> /\ u[2] < f[u[1]] /\ f[u[1]] > 0
  BY DEF Part
<1>2. ASSUME NEW u \in Part(f, S) PROVE carry[u] \in Part(g, T)
  <2>1. h[u[1]] \in T /\ u[2] < g[h[u[1]]] /\ u[2] \in Nat
    BY <1>1
  <2> QED
    BY <2>1 DEF Part
<1>3. ASSUME NEW u \in Part(f, S), NEW v \in Part(f, S), carry[u] = carry[v] PROVE u = v
  <2>1. h[u[1]] = h[v[1]] /\ u[2] = v[2]
    BY <1>3
  <2>2. u[1] = v[1]
    BY <1>1, <2>1
  <2> QED
    BY <1>1, <2>1, <2>2
<1>4. carry \in Injection(Part(f, S), Part(g, T))
  BY <1>2, <1>3 DEF Injection, IsInjective
<1> HIDE DEF carry
<1>5. Cardinality(Part(f, S)) <= Cardinality(Part(g, T))
  BY <1>4, SumCounts, FS_Injection
<1> QED
  BY <1>5, SumCounts, FS_CardinalityType

-----------------------------------------------------------------------------
\* In the longest window the log is what the ring reads.
LEMMA LogReads ==
    ASSUME RingInv, now \in 1 .. MaxNow
    PROVE  /\ MinuteOf(now) \in Nat
           /\ \A k \in 0 .. MinuteOf(now) : Log[k] \in Nat /\ (Within(k, now) => Log[k] = Read(k))
<1>1. MinuteOf(now) \in Nat /\ MinuteOf(now) <= MinuteOf(MaxNow) /\ MinuteOf(MaxNow) \in Nat
  BY MinuteOrder, RollingAssumption
<1>2. ASSUME NEW k \in 0 .. MinuteOf(now)
      PROVE  Log[k] \in Nat /\ (Within(k, now) => Log[k] = Read(k))
  <2>1. k \in 0 .. MinuteOf(MaxNow) /\ k \in Int
    BY <1>1
  <2>2. Log[k] = Read(k)
    BY <2>1 DEF Log
  <2> QED
    BY <2>1, <2>2, ReadType
<1> QED
  BY <1>1, <1>2

\* A sum over the last minutes is the log's from the first of them on.
LEMMA SumIsSince ==
    ASSUME RingInv, now \in 1 .. MaxNow, NEW n \in 1 .. Size
    PROVE  SumLastMinutes(now, n) = Since(MinuteOf(now) - n + 1)
<1> DEFINE M == MinuteOf(now)
           low == Longer(0, M - n + 1)
           f == [i \in 0 .. n - 1 |-> Read(M - i)]
           g == [k \in low .. M |-> Log[k]]
           back == [i \in Int |-> M - i]
<1>1. M \in Nat /\ n \in Nat \ {0} /\ n <= Size /\ Size \in Nat /\ low \in Nat
  BY LogReads, RollingAssumption DEF Longer
<1>2. /\ low >= M - n + 1
      /\ \A k \in 0 .. M : k >= M - n + 1 => k >= low
  BY <1>1 DEF Longer
<1>3. \A k \in low .. M : Log[k] = Read(k) /\ Log[k] \in Nat /\ M - k \in 0 .. n - 1
  <2> SUFFICES ASSUME NEW k \in low .. M
               PROVE  Log[k] = Read(k) /\ Log[k] \in Nat /\ M - k \in 0 .. n - 1
    OBVIOUS
  <2>1. k \in 0 .. M /\ k >= M - n + 1 /\ k \in Int
    BY <1>1, <1>2
  <2>2. Within(k, now)
    BY <1>1, <2>1 DEF Within
  <2> QED
    BY <1>1, <2>1, <2>2, LogReads
<1>4. \A i \in 0 .. n - 1 : /\ M - i \in Int /\ Read(M - i) \in Nat
                            /\ Read(M - i) > 0 => M - i \in low .. M
  <2> SUFFICES ASSUME NEW i \in 0 .. n - 1
               PROVE  /\ M - i \in Int /\ Read(M - i) \in Nat
                      /\ Read(M - i) > 0 => M - i \in low .. M
    OBVIOUS
  <2>1. M - i \in Int /\ M - i <= M /\ M - i >= M - n + 1
    BY <1>1
  <2>2. Read(M - i) \in Nat /\ (M - i < 0 => Read(M - i) = 0)
    BY <2>1, ReadType
  <2> QED
    BY <1>1, <1>2, <2>1, <2>2
<1> HIDE DEF M, low
<1>5. f \in [0 .. n - 1 -> Nat] /\ g \in [low .. M -> Nat]
  BY <1>3, <1>4
<1>6. IsFiniteSet(0 .. n - 1) /\ IsFiniteSet(low .. M)
  BY <1>1, FS_Interval
<1>7. SumFunction(f) \in Nat /\ SumFunction(g) \in Nat /\ SumFunction(f) <= SumFunction(g)
  <2>1. ASSUME NEW i \in 0 .. n - 1, f[i] > 0
        PROVE  back[i] \in low .. M /\ f[i] <= g[back[i]] /\ back[i] = M - i
    <3>1. f[i] = Read(M - i) /\ back[i] = M - i
      OBVIOUS
    <3>2. M - i \in low .. M /\ Read(M - i) \in Nat
      BY <1>4, <2>1, <3>1
    <3>3. g[M - i] = Read(M - i)
      BY <1>3, <3>2
    <3> QED
      BY <3>1, <3>2, <3>3
  <2>2. \A i, j \in 0 .. n - 1 : f[i] > 0 /\ f[j] > 0 /\ back[i] = back[j] => i = j
    BY <1>1, <2>1
  <2>3. \A i \in 0 .. n - 1 : f[i] > 0 => back[i] \in low .. M /\ f[i] <= g[back[i]]
    BY <2>1
  <2> HIDE DEF f, g, back
  <2> QED
    BY <1>5, <1>6, <2>2, <2>3, SumCovered
<1>8. SumFunction(g) <= SumFunction(f)
  <2>1. ASSUME NEW k \in low .. M
        PROVE  back[k] \in 0 .. n - 1 /\ g[k] <= f[back[k]] /\ back[k] = M - k
    <3>1. g[k] = Read(k) /\ back[k] = M - k /\ M - k \in 0 .. n - 1 /\ Read(k) \in Nat
      BY <1>1, <1>3
    <3>2. f[M - k] = Read(M - (M - k)) /\ M - (M - k) = k
      BY <1>1, <3>1
    <3> QED
      BY <3>1, <3>2
  <2>2. \A i, j \in low .. M : back[i] = back[j] => i = j
    BY <1>1, <2>1
  <2>3. \A k \in low .. M : g[k] > 0 => back[k] \in 0 .. n - 1 /\ g[k] <= f[back[k]]
    BY <2>1
  <2>4. \A i, j \in low .. M : g[i] > 0 /\ g[j] > 0 /\ back[i] = back[j] => i = j
    BY <2>2
  <2> HIDE DEF f, g, back
  <2> QED
    BY <1>5, <1>6, <2>3, <2>4, SumCovered
<1>9. SumLastMinutes(now, n) = SumFunction(f) /\ Since(M - n + 1) = SumFunction(g)
  BY DEF SumLastMinutes, Since, M, low
<1> HIDE DEF f, g
<1> QED
  BY <1>7, <1>8, <1>9 DEF M

\* The later a sum begins, the less it holds.
LEMMA SinceShrinks ==
    ASSUME RingInv, now \in 1 .. MaxNow, NEW a \in Int, NEW b \in Int, a <= b
    PROVE  Since(a) \in Nat /\ Since(b) \in Nat /\ Since(b) <= Since(a)
<1> DEFINE M == MinuteOf(now)
           f == [k \in Longer(0, b) .. M |-> Log[k]]
           g == [k \in Longer(0, a) .. M |-> Log[k]]
           same == [k \in Int |-> k]
<1>1. M \in Nat /\ Longer(0, a) \in Nat /\ Longer(0, b) \in Nat /\ Longer(0, a) <= Longer(0, b)
  BY LogReads DEF Longer
<1>2. Longer(0, b) .. M \subseteq Longer(0, a) .. M /\ Longer(0, a) .. M \subseteq 0 .. M
  BY <1>1
<1>3. \A k \in 0 .. M : Log[k] \in Nat
  BY LogReads
<1>4. f \in [Longer(0, b) .. M -> Nat] /\ g \in [Longer(0, a) .. M -> Nat]
  BY <1>2, <1>3
<1>5. \A k \in Longer(0, b) .. M : same[k] = k /\ k \in Longer(0, a) .. M /\ f[k] = g[k] /\ f[k] \in Nat
  BY <1>1, <1>2, <1>4
<1>6. IsFiniteSet(Longer(0, b) .. M) /\ IsFiniteSet(Longer(0, a) .. M)
  BY <1>1, FS_Interval
<1>7. SumFunction(f) \in Nat /\ SumFunction(g) \in Nat /\ SumFunction(f) <= SumFunction(g)
  <2>1. \A k \in Longer(0, b) .. M : f[k] > 0 => same[k] \in Longer(0, a) .. M /\ f[k] <= g[same[k]]
    BY <1>5
  <2>2. \A i, j \in Longer(0, b) .. M : f[i] > 0 /\ f[j] > 0 /\ same[i] = same[j] => i = j
    BY <1>5
  <2> HIDE DEF f, g, same, M
  <2> QED
    BY <1>4, <1>6, <2>1, <2>2, SumCovered
<1>8. Since(b) = SumFunction(f) /\ Since(a) = SumFunction(g)
  BY DEF Since
<1> QED
  BY <1>7, <1>8

\* Division with remainder.
LEMMA Divided ==
    ASSUME NEW m \in Int, NEW c \in Nat \ {0}
    PROVE  /\ m \div c \in Int /\ m % c \in 0 .. c - 1
           /\ m = c * (m \div c) + (m % c)
           /\ m >= 0 => m \div c >= 0
  OBVIOUS

\* A quotient is known by its bounds.
LEMMA QuotientIs ==
    ASSUME NEW m \in Int, NEW c \in Nat \ {0}, NEW q \in Int, c * q <= m, m < c * q + c
    PROVE  m \div c = q
<1> DEFINE p == m \div c
<1>1. p \in Int /\ c * p <= m /\ m < c * p + c
  BY Divided
<1> HIDE DEF p
<1>2. ASSUME p > q PROVE FALSE
  <2>1. c * (p - q - 1) >= 0
    BY <1>1, <1>2
  <2>2. c * (p - q - 1) = c * p - c * q - c
    BY <1>1
  <2>3. c * p \in Int /\ c * q \in Int
    BY <1>1
  <2> QED
    BY <1>1, <2>1, <2>2, <2>3
<1>3. ASSUME p < q PROVE FALSE
  <2>1. c * (q - p - 1) >= 0
    BY <1>1, <1>3
  <2>2. c * (q - p - 1) = c * q - c * p - c
    BY <1>1
  <2>3. c * p \in Int /\ c * q \in Int
    BY <1>1
  <2> QED
    BY <1>1, <2>1, <2>2, <2>3
<1> QED
  BY <1>1, <1>2, <1>3 DEF p

\* Renewal dates are the starts of days, and so of minutes.
LEMMA DateMinutes ==
    ASSUME NEW date \in Renewals, now \in 1 .. MaxNow
    PROVE  /\ MinuteOf(date) \in Nat /\ date = MinuteMS * MinuteOf(date)
           /\ date <= now => (now - date) \div MinuteMS = MinuteOf(now) - MinuteOf(date)
<1>1. date \in Nat /\ now \in Nat /\ MinuteMS \in Nat \ {0} /\ Day \in Nat \ {0}
  BY PresenceAssumption, RollingAssumption
<1> DEFINE d == date \div Day
           k == Day \div MinuteMS
<1>2. d \in Int /\ k \in Int /\ date = Day * d /\ Day = MinuteMS * k
  <2>1. date % Day = 0 /\ Day % MinuteMS = 0
    BY PresenceAssumption
  <2>2. d \in Int /\ date = Day * d + (date % Day)
    BY <1>1, Divided
  <2>3. k \in Int /\ Day = MinuteMS * k + (Day % MinuteMS)
    BY <1>1, Divided
  <2> HIDE DEF d, k
  <2> QED
    BY <1>1, <2>1, <2>2, <2>3
<1> HIDE DEF d, k
<1>3. date = MinuteMS * (k * d) /\ k * d \in Int
  BY <1>1, <1>2
<1>4. MinuteOf(date) = k * d
  <2> DEFINE q == k * d
  <2>1. q \in Int /\ date = MinuteMS * q
    BY <1>3
  <2> HIDE DEF q
  <2>2. MinuteMS * q <= date /\ date < MinuteMS * q + MinuteMS
    BY <1>1, <2>1
  <2>3. date \div MinuteMS = q
    BY <1>1, <2>1, <2>2, QuotientIs
  <2> QED
    BY <2>3 DEF MinuteOf, q
<1>5. MinuteOf(date) \in Nat /\ date = MinuteMS * MinuteOf(date)
  BY <1>1, <1>3, <1>4, MinuteOrder
<1>6. ASSUME date <= now PROVE (now - date) \div MinuteMS = MinuteOf(now) - MinuteOf(date)
  <2> DEFINE M == MinuteOf(now)
             D == MinuteOf(date)
  <2>1. M \in Int /\ MinuteMS * M <= now /\ now < MinuteMS * M + MinuteMS
    BY <1>1, Divided DEF MinuteOf
  <2>2. D \in Int /\ date = MinuteMS * D
    BY <1>5
  <2> HIDE DEF M, D
  <2>3. MinuteMS * (M - D) = MinuteMS * M - MinuteMS * D
    BY <1>1, <2>1, <2>2
  <2>4. MinuteMS * M \in Int /\ MinuteMS * D \in Int /\ M - D \in Int
    BY <1>1, <2>1, <2>2
  <2>5. MinuteMS * (M - D) <= now - date /\ now - date < MinuteMS * (M - D) + MinuteMS
    BY <1>1, <2>1, <2>2, <2>3, <2>4
  <2>6. (now - date) \div MinuteMS = M - D
    BY <1>1, <2>4, <2>5, QuotientIs
  <2> QED
    BY <2>6 DEF M, D
<1> QED
  BY <1>5, <1>6

\* The days shown have run out exactly when the date has come.
LEMMA DaysRunOut ==
    ASSUME NEW date \in Renewals, now \in 1 .. MaxNow
    PROVE  RenewDays(now, date) <= 0 <=> date <= now
<1>1. date \in Nat /\ now \in Nat /\ Day \in Nat \ {0}
  BY PresenceAssumption, RollingAssumption
<1> DEFINE d == date \div Day
           today == now \div Day
           q == RenewDays(now, date)
<1>2. d \in Int /\ date = Day * d
  <2>1. date % Day = 0
    BY PresenceAssumption
  <2>2. d \in Int /\ date = Day * d + (date % Day)
    BY <1>1, Divided
  <2> HIDE DEF d
  <2> QED
    BY <1>1, <2>1, <2>2
<1>3. today \in Int /\ now % Day \in 0 .. Day - 1 /\ now = Day * today + (now % Day)
  BY <1>1, Divided
<1> HIDE DEF d, today
<1>4. /\ now - (now % Day) = Day * today
      /\ Day * today \in Int /\ Day * d \in Int /\ Day * (d - today) = Day * d - Day * today
  BY <1>1, <1>2, <1>3
<1>5. date - (now - (now % Day)) = Day * (d - today) /\ d - today \in Int /\ Day * (d - today) \in Int
  BY <1>1, <1>2, <1>3, <1>4
<1>6. q = d - today
  <2> DEFINE m == Day * (d - today)
  <2>1. m \in Int /\ m <= m /\ m < m + Day
    BY <1>1, <1>5
  <2>2. m \div Day = d - today
    BY <1>1, <1>5, <2>1, QuotientIs
  <2> QED
    BY <1>5, <2>2 DEF RenewDays
<1> HIDE DEF q
<1>7. CASE d <= today
  <2>1. Day * (today - d) >= 0 /\ Day * (today - d) = Day * today - Day * d
    BY <1>1, <1>2, <1>3, <1>7
  <2> QED
    BY <1>1, <1>2, <1>3, <1>4, <1>6, <1>7, <2>1 DEF q
<1>8. CASE d > today
  <2>1. Day * (d - today - 1) >= 0 /\ Day * (d - today - 1) = Day * d - Day * today - Day
    BY <1>1, <1>2, <1>3, <1>8
  <2> QED
    BY <1>1, <1>2, <1>3, <1>4, <1>6, <1>8, <2>1 DEF q
<1> QED
  BY <1>2, <1>3, <1>7, <1>8

LEMMA UsedFits == RingInv /\ now \in 1 .. MaxNow => UsedSinceRenewal
<1> SUFFICES ASSUME RingInv, now \in 1 .. MaxNow, NEW date \in Renewals
             PROVE  LET oldest == MinuteOf(now) - MonthMin + 1
                        first == MinuteOf(date)
                        begun == date > 0 /\ RenewDays(now, date) <= 0 /\ now # date
                    IN  IF begun
                        THEN /\ Used(now, date) <= Since(Longer(first, oldest))
                             /\ Used(now, date) >= Since(Longer(first + 1, oldest))
                             /\ first = MinuteOf(now) => Used(now, date) = Since(first)
                        ELSE Used(now, date) = Since(oldest)
  BY DEF UsedSinceRenewal
<1> DEFINE M == MinuteOf(now)
           oldest == M - MonthMin + 1
           first == MinuteOf(date)
           n == UsedMinutes(now, date)
<1>1. /\ M \in Nat /\ first \in Nat /\ MonthMin \in 1 .. Size /\ MonthMin \in Nat /\ Size \in Nat
      /\ date \in Nat /\ now \in Nat /\ oldest \in Int
  BY LogReads, DateMinutes, PresenceAssumption, RollingAssumption
<1>2. CASE ~(0 < date /\ date < now)
  <2>1. n = MonthMin
    BY <1>2 DEF UsedMinutes
  <2>2. Used(now, date) = Since(oldest)
    BY <1>1, <2>1, SumIsSince DEF Used
  <2>3. ~(date > 0 /\ RenewDays(now, date) <= 0 /\ now # date)
    BY <1>1, <1>2, DaysRunOut
  <2> QED
    BY <2>2, <2>3
<1>3. CASE 0 < date /\ date < now
  <2>1. RenewDays(now, date) <= 0 /\ date > 0 /\ now # date
    BY <1>1, <1>3, DaysRunOut
  <2>2. (now - date) \div MinuteMS = M - first /\ first <= M
    BY <1>1, <1>3, DateMinutes, MinuteOrder
  <2>3. n = IF M - first <= 0 THEN 1 ELSE IF M - first > MonthMin THEN MonthMin ELSE M - first
    BY <1>3, <2>2 DEF UsedMinutes
  <2> HIDE DEF M, first, n
  <2>4. n \in 1 .. Size
    BY <1>1, <2>2, <2>3
  <2>5. Used(now, date) = Since(M - n + 1)
    BY <2>4, SumIsSince DEF Used, n, M
  <2>6. /\ M - n + 1 \in Int /\ Longer(first, oldest) \in Int /\ Longer(first + 1, oldest) \in Int
        /\ Longer(first, oldest) <= M - n + 1
    BY <1>1, <2>2, <2>3 DEF Longer
  <2>7. M - n + 1 <= Longer(first + 1, oldest)
    BY <1>1, <2>2, <2>3 DEF Longer
  <2>8. first = M => M - n + 1 = first
    BY <1>1, <2>3
  <2>9. /\ Since(M - n + 1) <= Since(Longer(first, oldest))
        /\ Since(M - n + 1) >= Since(Longer(first + 1, oldest))
    BY <2>6, <2>7, SinceShrinks
  <2> QED
    BY <2>1, <2>5, <2>8, <2>9 DEF M, first
<1> QED
  BY <1>2, <1>3

\* What a snapshot shows as used since the renewal date (serverTrafficUsedBytes)
\* is what the log holds of that time, for any minute, ring, month and dates:
\* never a byte from before the date, and all since but those of its first
\* minute, however reports are late and the center restarts.
THEOREM UsedIsRight == PSpec => []UsedSinceRenewal
<1>1. RingInv /\ now \in 1 .. MaxNow => UsedSinceRenewal
  BY UsedFits
<1> QED
  BY <1>1, InsideRolling, RingInvariant, PTL
==============================================================================
