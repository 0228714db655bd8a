---------------------------- MODULE AgentProofs ----------------------------
(* Proofs about the agent's two parts: the hand-over of its interval, for any *)
(* number of control handlers and any intervals, and its collector, for any  *)
(* interfaces and whatever happens to their counters.                        *)
EXTENDS AgentInterval, Collector, FiniteSetTheorems, TLAPS

\* The lock section writes an interval of the configuration, if any.
LEMMA SetEveryStep ==
    ASSUME TypeOK, NEW w \in Writers, NEW d \in Intervals \cup {0}, SetEvery(w, d)
    PROVE  \/ UNCHANGED <<every, next, latest>> /\ Goto(w, "idle")
           \/ /\ d \in Intervals /\ every' = d /\ next' = [next EXCEPT ![w] = d]
              /\ latest' = {d} \cup IF NobodyElse(w) THEN {} ELSE latest
              /\ Goto(w, "send")
BY IntervalAssumption DEF SetEvery, TypeOK

LEMMA SetEveryType ==
    ASSUME TypeOK, NEW w \in Writers, NEW d \in Intervals \cup {0}, SetEvery(w, d)
    PROVE  /\ every' \in Intervals /\ next' \in [Writers -> Intervals]
           /\ latest' \in SUBSET Intervals
           /\ pc' \in [Writers -> {"idle", "report"} \cup Notifying]
<1>1. CASE UNCHANGED <<every, next, latest>> /\ Goto(w, "idle")
  BY <1>1 DEF TypeOK, Goto
<1>2. CASE /\ d \in Intervals /\ every' = d /\ next' = [next EXCEPT ![w] = d]
           /\ latest' = {d} \cup IF NobodyElse(w) THEN {} ELSE latest
           /\ Goto(w, "send")
  BY <1>2 DEF TypeOK, Goto, Notifying
<1> QED BY <1>1, <1>2, SetEveryStep

\* Every reachable state is typed; in particular one interval at most is queued.
THEOREM TypeCorrect == Spec => []TypeOK
<1>1. Init => TypeOK
  BY DEF Init, TypeOK
<1>2. TypeOK /\ [Next]_vars => TypeOK'
  <2> SUFFICES ASSUME TypeOK, [Next]_vars PROVE TypeOK'
    OBVIOUS
  <2>1. ASSUME NEW w \in Writers, Send(w) PROVE TypeOK'
    BY <2>1 DEF Send, Goto, TypeOK, Notifying
  <2>2. ASSUME NEW w \in Writers, Drain(w) PROVE TypeOK'
    BY <2>2 DEF Drain, Goto, TypeOK, Notifying
  <2>3. ASSUME NEW w \in Writers, Resend(w) PROVE TypeOK'
    BY <2>3 DEF Resend, Goto, TypeOK, Notifying
  <2>4. CASE Receive
    BY <2>4 DEF Receive, TypeOK
  <2>5. CASE Fire
    BY <2>5 DEF Fire, Goto, TypeOK
  <2>6. ASSUME NEW d \in Intervals \cup {0}, Answered(d) PROVE TypeOK'
    BY <2>6, SetEveryType DEF Answered, TypeOK, Writers
  <2>7. CASE PushFailed
    BY <2>7 DEF PushFailed, Goto, TypeOK
  <2>8. ASSUME NEW h \in Handlers, NEW d \in Intervals \cup {0}, HandleConfig(h, d)
        PROVE  TypeOK'
    BY <2>8, SetEveryType DEF HandleConfig, TypeOK, Writers
  <2>9. CASE UNCHANGED vars
    BY <2>9 DEF vars, TypeOK
  <2> QED
    BY <2>1, <2>2, <2>3, <2>4, <2>5, <2>6, <2>7, <2>8, <2>9 DEF Next
<1> QED BY <1>1, <1>2, PTL DEF Spec

-----------------------------------------------------------------------------
\* The lock section begins anew with its change, adds it to those it overlaps, or
\* changes nothing; each keeps the invariant.
LEMMA SetEveryKeeps ==
    ASSUME TypeOK, ChangeInv, NEW w \in Writers, pc[w] \notin Notifying,
           NEW d \in Intervals \cup {0}, SetEvery(w, d), UNCHANGED <<ticker, ch>>
    PROVE  ChangeInv'
<1>0. pc \in [Writers -> {"idle", "report"} \cup Notifying] /\ next \in [Writers -> Intervals]
  BY DEF TypeOK
<1>1. CASE UNCHANGED <<every, next, latest>> /\ Goto(w, "idle")
  BY <1>0, <1>1 DEF ChangeInv, Goto, Notifying
<1>2. CASE /\ d \in Intervals /\ every' = d /\ next' = [next EXCEPT ![w] = d]
           /\ latest' = {d} \cup IF NobodyElse(w) THEN {} ELSE latest
           /\ Goto(w, "send")
  <2>1. /\ pc'[w] = "send" /\ next'[w] = d /\ d \in latest'
        /\ \A v \in Writers \ {w} : pc'[v] = pc[v] /\ next'[v] = next[v]
    BY <1>0, <1>2 DEF Goto
  <2>2. \A v \in Writers \ {w} : pc[v] \in Notifying => latest \subseteq latest'
    BY <1>2 DEF NobodyElse
  <2> QED
    BY <1>2, <2>1, <2>2 DEF ChangeInv, Notifying
<1> QED BY <1>1, <1>2, SetEveryStep

\* notifyInterval delivers the last change or one that overlapped it: it is on its
\* way, on the channel, or the ticker's period.
THEOREM ChangesAreKept == Spec => [](ChangeInv /\ ChangeKept)
<1>1. Init => ChangeInv
  BY DEF Init, ChangeInv, Notifying
<1>2. TypeOK /\ ChangeInv /\ [Next]_vars => ChangeInv'
  <2> SUFFICES ASSUME TypeOK, ChangeInv, [Next]_vars PROVE ChangeInv'
    OBVIOUS
  <2>1. ASSUME NEW w \in Writers, Send(w) PROVE ChangeInv'
    BY <2>1 DEF Send, Goto, TypeOK, Notifying, ChangeInv
  <2>2. ASSUME NEW w \in Writers, Drain(w) PROVE ChangeInv'
    BY <2>2 DEF Drain, Goto, TypeOK, Notifying, ChangeInv
  <2>3. ASSUME NEW w \in Writers, Resend(w) PROVE ChangeInv'
    BY <2>3 DEF Resend, Goto, TypeOK, Notifying, ChangeInv
  <2>4. CASE Receive
    BY <2>4 DEF Receive, TypeOK, Notifying, ChangeInv, Writers
  <2>5. CASE Fire
    BY <2>5 DEF Fire, Goto, TypeOK, Notifying, ChangeInv, Writers
  <2>6. ASSUME NEW d \in Intervals \cup {0}, Answered(d) PROVE ChangeInv'
    BY <2>6, SetEveryKeeps DEF Answered, Writers, Notifying
  <2>7. CASE PushFailed
    BY <2>7 DEF PushFailed, Goto, TypeOK, Notifying, ChangeInv, Writers
  <2>8. ASSUME NEW h \in Handlers, NEW d \in Intervals \cup {0}, HandleConfig(h, d)
        PROVE  ChangeInv'
    BY <2>8, SetEveryKeeps DEF HandleConfig, Writers, Notifying
  <2>9. CASE UNCHANGED vars
    BY <2>9 DEF vars, ChangeInv
  <2> QED
    BY <2>1, <2>2, <2>3, <2>4, <2>5, <2>6, <2>7, <2>8, <2>9 DEF Next
<1>3. ChangeInv => ChangeKept
  BY DEF ChangeInv, ChangeKept, Quiet
<1> QED BY <1>1, <1>2, <1>3, TypeCorrect, PTL DEF Spec

\* An agent in passive mode serves no control request: its report loop alone
\* changes the interval, and then the comment on notifyInterval is true.
THEOREM PassiveAgentKeepsLatest ==
    ASSUME Handlers = {} PROVE Spec => []LatestIntervalKept
<1>1. Init => latest = {every}
  BY DEF Init
<1>2. TypeOK /\ latest = {every} /\ [Next]_vars => (latest = {every})'
  <2> SUFFICES ASSUME TypeOK, latest = {every}, [Next]_vars PROVE latest' = {every'}
    OBVIOUS
  <2>1. \A w \in Writers : NobodyElse(w)
    BY DEF Writers, NobodyElse
  <2>2. ASSUME NEW w \in Writers, NEW d, SetEvery(w, d) PROVE latest' = {every'}
    BY <2>1, <2>2 DEF SetEvery
  <2> QED
    BY <2>2 DEF Next, vars, Writers, Send, Drain, Resend, Receive, Fire,
                Answered, PushFailed, HandleConfig
<1>3. latest = {every} /\ ChangeKept => LatestIntervalKept
  BY DEF ChangeKept, LatestIntervalKept
<1> QED BY <1>1, <1>2, <1>3, ChangesAreKept, TypeCorrect, PTL DEF Spec

-----------------------------------------------------------------------------
\* A finite set has a largest element, by any measure: of the subsets without
\* one, take a smallest; it has one after all.
LEMMA LargestExists ==
    ASSUME NEW S, IsFiniteSet(S), S # {}, NEW f \in [S -> Int]
    PROVE  \E x \in S : \A y \in S : f[y] <= f[x]
<1> DEFINE Bare == {U \in SUBSET S : U # {} /\ ~ \E x \in U : \A y \in U : f[y] <= f[x]}
<1>1. ASSUME Bare # {} PROVE FALSE
  <2>1. Bare \subseteq FiniteSubsetsOf(S)
    BY FS_FiniteSubsetsOfFinite
  <2>2. PICK U \in Bare : \A V \in Bare : <<V, U>> \notin StrictSubsetOrdering(S)
    BY <1>1, <2>1, FS_StrictSubsetOrderingWellFounded, WFMin
  <2>3. PICK x \in U : TRUE
    OBVIOUS
  <2>4. U \ {x} \notin Bare
    BY <2>2, <2>3 DEF StrictSubsetOrdering
  <2>5. CASE U \ {x} = {}
    BY <2>3, <2>5
  <2>6. CASE U \ {x} # {}
    <3>1. PICK m \in U \ {x} : \A y \in U \ {x} : f[y] <= f[m]
      BY <2>4, <2>6
    <3>2. f[m] \in Int /\ f[x] \in Int /\ \A y \in U : f[y] \in Int
      OBVIOUS
    <3> QED
      BY <2>3, <3>1, <3>2
  <2> QED
    BY <2>5, <2>6
<1> QED
  BY <1>1

LEMMA LargestOfTwo == \A x \in Int : Max({0, x}) = IF x > 0 THEN x ELSE 0
<1> TAKE x \in Int
<1>1. \E m \in {0, x} : \A y \in {0, x} : m >= y
  OBVIOUS
<1>2. Max({0, x}) \in {0, x} /\ \A y \in {0, x} : Max({0, x}) >= y
  BY <1>1 DEF Max
<1> QED
  BY <1>2

\* readNetBytes finds an interface among those it may take, and none has more.
LEMMA BusiestLeads ==
    ASSUME CTypeOK, Eligible # {}
    PROVE  Busiest \in Eligible /\ \A j \in Eligible : Total(dev[j]) <= Total(dev[Busiest])
<1> DEFINE sums == [i \in Eligible |-> Total(dev[i])]
           Leaders == {i \in Eligible : \A j \in Eligible : Total(dev[j]) <= Total(dev[i])}
           numbers == [i \in Leaders |-> i]
<1>1. Eligible \subseteq Ifaces /\ IsFiniteSet(Eligible) /\ Eligible \subseteq DOMAIN dev
  <2>1. Eligible \subseteq Ifaces /\ Eligible \subseteq DOMAIN dev
    BY DEF Eligible, CTypeOK
  <2> QED
    BY <2>1, CollectorAssumption, FS_Subset
<1>2. \A i \in Eligible : Total(dev[i]) \in Int
  BY <1>1 DEF CTypeOK, Counters, Total
<1>3. sums \in [Eligible -> Int]
  BY <1>2
<1>4. PICK i \in Eligible : \A j \in Eligible : sums[j] <= sums[i]
  BY <1>1, <1>3, LargestExists
<1>5. i \in Leaders
  BY <1>4
<1>6. Leaders \subseteq Int /\ IsFiniteSet(Leaders)
  <2>1. Leaders \in SUBSET Eligible
    OBVIOUS
  <2>2. \A k \in Ifaces : k \in Int
    BY CollectorAssumption
  <2> HIDE DEF Leaders
  <2> QED
    BY <1>1, <2>1, <2>2, FS_Subset, Zenon
<1>7. numbers \in [Leaders -> Int]
  BY <1>6
<1>8. PICK m \in Leaders : \A j \in Leaders : numbers[j] <= numbers[m]
  BY <1>5, <1>6, <1>7, LargestExists
<1>9. \E k \in Leaders : \A j \in Leaders : k >= j
  BY <1>6, <1>8
<1>10. Busiest = Max(Leaders)
  BY DEF Busiest
<1>11. Max(Leaders) \in Leaders
  <2> HIDE DEF Leaders
  <2> QED
    BY <1>9 DEF Max
<1> QED
  BY <1>10, <1>11

-----------------------------------------------------------------------------
\* How much a reading has grown, each direction by itself.
Grown(n, r) == Max({0, n.rx - r.rx}) + Max({0, n.tx - r.tx})

\* The agent's clamp and the center's guarded difference agree.
LEMMA GrownIsDifference ==
    ASSUME NEW n, NEW r, {n.rx, n.tx, r.rx, r.tx} \subseteq Nat
    PROVE  /\ Grown(n, r) = Difference(n.rx, r.rx) + Difference(n.tx, r.tx)
           /\ Difference(n.rx, r.rx) \in Nat /\ Difference(n.tx, r.tx) \in Nat
<1>1. n.rx \in Nat /\ n.tx \in Nat /\ r.rx \in Nat /\ r.tx \in Nat
  OBVIOUS
<1>2. Max({0, n.rx - r.rx}) = Difference(n.rx, r.rx) /\ Difference(n.rx, r.rx) \in Nat
  <2> DEFINE d == n.rx - r.rx
  <2>1. d \in Int /\ Max({0, d}) = IF d > 0 THEN d ELSE 0
    BY <1>1, LargestOfTwo
  <2> QED
    BY <1>1, <2>1 DEF Difference
<1>3. Max({0, n.tx - r.tx}) = Difference(n.tx, r.tx) /\ Difference(n.tx, r.tx) \in Nat
  <2> DEFINE d == n.tx - r.tx
  <2>1. d \in Int /\ Max({0, d}) = IF d > 0 THEN d ELSE 0
    BY <1>1, LargestOfTwo
  <2> QED
    BY <1>1, <2>1 DEF Difference
<1> QED
  BY <1>2, <1>3 DEF Grown

\* The times collectCPU keeps belong together.
CpuInv ==
    prevCPU # None =>
        /\ prevCPU.total = prevCPU.busy + prevCPU.idle
        /\ prevCPU.busy <= MaxJiffies /\ prevCPU.idle <= MaxJiffies

\* A counter shows nothing that was not carried, and all of it while no
\* interface was made again.
CountersInv ==
    \A i \in DOMAIN dev :
        /\ Total(dev[i]) <= carried[i]
        /\ ~fallen => Total(dev[i]) = carried[i]

\* A reading that is kept, by the agent or as the last report: whichever
\* interface is read next, it has grown by no more than its credit.
ReadingInv(r) ==
    r # None =>
        /\ configured \in {AnyIface, r.iface}
        /\ \A i \in Ifaces : r.carried[i] <= carried[i]
        /\ \A i \in Eligible : Grown(dev[i], r) <= Credit(i, r)
        /\ ~fallen => /\ Total(r) = r.carried[r.iface]
                      /\ r.iface \in DOMAIN dev =>
                             r.rx <= dev[r.iface].rx /\ r.tx <= dev[r.iface].tx

\* A report shows the machine as it is, at the leading interface.
ReportInv ==
    attempt.at = "report" =>
        /\ attempt.iface \in Eligible
        /\ attempt.net = dev[attempt.iface] /\ attempt.sent = carried
        /\ \A i \in Eligible : Total(dev[i]) <= Total(attempt.net)

CollectorInv ==
    /\ CTypeOK /\ CpuInv /\ CountersInv
    /\ ReadingInv(prevNet) /\ ReadingInv(last) /\ ReportInv
    /\ CpuHonest /\ RateHonest /\ NoOvercount /\ NoUndercount

\* What a step leaves alone when it moves neither the machine nor a reading.
Kept == UNCHANGED <<machine, configured, prevNet, last>>

LEMMA KeptReadings ==
    ASSUME CollectorInv, Kept
    PROVE  CountersInv' /\ ReadingInv(prevNet)' /\ ReadingInv(last)'
<1>1. Eligible' = Eligible
  BY DEF Kept, machine, Eligible
<1> QED
  BY <1>1 DEF CollectorInv, Kept, machine, CountersInv, ReadingInv, Credit, Grown

\* A counter moves by one, with what its interface carried.
LEMMA CarryKeeps ==
    ASSUME CollectorInv, NEW i \in Ifaces, NEW way \in {"rx", "tx"}, Carry(i, way)
    PROVE  CollectorInv'
<1> USE DEF CollectorInv
<1>1. /\ attempt = None /\ attempt' = None /\ i \in DOMAIN dev
      /\ UNCHANGED <<fallen, configured, prevCPU, prevNet, last, counted, owed, excused, faults>>
      /\ dev' = [dev EXCEPT ![i][way] = @ + 1] /\ carried' = [carried EXCEPT ![i] = @ + 1]
  BY DEF Carry, Apart, agent, center
<1>2. /\ DOMAIN dev' = DOMAIN dev /\ Eligible' = Eligible /\ Eligible \subseteq DOMAIN dev
      /\ \A j \in DOMAIN dev : /\ dev[j] \in Counters /\ j \in Ifaces
                               /\ dev'[j] \in Counters
                               /\ j # i => dev'[j] = dev[j] /\ carried'[j] = carried[j]
      /\ Total(dev'[i]) = Total(dev[i]) + 1 /\ carried'[i] = carried[i] + 1
      /\ dev'[i].rx \in {dev[i].rx, dev[i].rx + 1} /\ dev'[i].tx \in {dev[i].tx, dev[i].tx + 1}
  BY <1>1 DEF CTypeOK, Eligible, Counters, Total
<1>3. CTypeOK'
  <2>1. carried' \in [Ifaces -> Nat]
    BY <1>1 DEF CTypeOK
  <2>2. dev' \in [DOMAIN dev' -> Counters]
    BY <1>1, <1>2 DEF CTypeOK
  <2> QED
    BY <1>1, <1>2, <2>1, <2>2 DEF CTypeOK
<1>4. CountersInv'
  BY <1>1, <1>2 DEF CountersInv, CTypeOK, Counters, Total
<1>5. ASSUME NEW r \in Reading, ReadingInv(r), r # None
      PROVE  /\ configured' \in {AnyIface, r.iface}
             /\ \A j \in Ifaces : r.carried[j] <= carried'[j]
             /\ \A j \in Eligible' : Grown(dev'[j], r) <= carried'[j] - r.carried[j]
                                         + IF j = r.iface THEN 0 ELSE Total(r)
             /\ ~fallen' => /\ Total(r) = r.carried[r.iface]
                            /\ r.iface \in DOMAIN dev' =>
                                   r.rx <= dev'[r.iface].rx /\ r.tx <= dev'[r.iface].tx
  <2>1. \A j \in Ifaces : r.carried[j] \in Nat /\ carried[j] \in Nat /\ r.carried[j] <= carried'[j]
    BY <1>1, <1>5 DEF CTypeOK, Reading, ReadingInv
  <2>2. \A j \in Eligible : Grown(dev[j], r) <= carried[j] - r.carried[j]
                                + IF j = r.iface THEN 0 ELSE Total(r)
    BY <1>5 DEF ReadingInv, Credit
  <2>3. r.rx \in Nat /\ r.tx \in Nat /\ Total(r) \in Nat
    BY DEF Reading, Total
  <2>4. /\ Grown(dev[i], r) \in Nat /\ Grown(dev'[i], r) \in Nat
        /\ Grown(dev'[i], r) <= Grown(dev[i], r) + 1
    <3>1. dev[i].rx \in Nat /\ dev[i].tx \in Nat /\ dev'[i].rx \in Nat /\ dev'[i].tx \in Nat
      BY <1>1, <1>2 DEF Counters
    <3>2. /\ Grown(dev[i], r) = Difference(dev[i].rx, r.rx) + Difference(dev[i].tx, r.tx)
          /\ Grown(dev'[i], r) = Difference(dev'[i].rx, r.rx) + Difference(dev'[i].tx, r.tx)
      BY <2>3, <3>1, GrownIsDifference
    <3>3. dev'[i].rx + dev'[i].tx = dev[i].rx + dev[i].tx + 1
      BY <1>2 DEF Total
    <3>4. \A m, n, k \in Nat : m <= n =>
             /\ Difference(m, k) \in Nat /\ Difference(n, k) \in Nat
             /\ Difference(n, k) <= Difference(m, k) + n - m
      BY DEF Difference
    <3>5. dev[i].rx <= dev'[i].rx /\ dev[i].tx <= dev'[i].tx
      BY <1>2, <3>1
    <3>6. /\ Difference(dev[i].rx, r.rx) \in Nat /\ Difference(dev'[i].rx, r.rx) \in Nat
          /\ Difference(dev'[i].rx, r.rx) <= Difference(dev[i].rx, r.rx) + dev'[i].rx - dev[i].rx
      BY <2>3, <3>1, <3>4, <3>5
    <3>7. /\ Difference(dev[i].tx, r.tx) \in Nat /\ Difference(dev'[i].tx, r.tx) \in Nat
          /\ Difference(dev'[i].tx, r.tx) <= Difference(dev[i].tx, r.tx) + dev'[i].tx - dev[i].tx
      BY <2>3, <3>1, <3>4, <3>5
    <3> QED
      BY <3>1, <3>2, <3>3, <3>6, <3>7
  <2>5. \A j \in Eligible : Grown(dev'[j], r) <= carried'[j] - r.carried[j]
                                + IF j = r.iface THEN 0 ELSE Total(r)
    <3> SUFFICES ASSUME NEW j \in Eligible
                 PROVE  Grown(dev'[j], r) <= carried'[j] - r.carried[j]
                                + IF j = r.iface THEN 0 ELSE Total(r)
      OBVIOUS
    <3>1. CASE j # i
      BY <1>2, <2>2, <3>1
    <3>2. CASE j = i
      BY <1>2, <2>1, <2>2, <2>3, <2>4, <3>2
    <3> QED
      BY <3>1, <3>2
  <2>6. ~fallen => /\ Total(r) = r.carried[r.iface]
                   /\ r.iface \in DOMAIN dev =>
                          r.rx <= dev'[r.iface].rx /\ r.tx <= dev'[r.iface].tx
    BY <1>2, <1>5, <2>3 DEF ReadingInv, Counters
  <2> QED
    BY <1>1, <1>2, <1>5, <2>1, <2>5, <2>6 DEF ReadingInv
<1>6. ReadingInv(prevNet)' /\ ReadingInv(last)'
  BY <1>1, <1>5 DEF ReadingInv, Credit, CTypeOK, Grown, Total
<1> QED
  BY <1>1, <1>3, <1>4, <1>6
    DEF CpuInv, ReportInv, CpuHonest, RateHonest, NoOvercount, NoUndercount, None

\* An interface goes: fewer may lead.
LEMMA VanishKeeps ==
    ASSUME CollectorInv, NEW i \in Ifaces, Vanish(i)
    PROVE  CollectorInv'
<1> USE DEF CollectorInv
<1>1. /\ attempt = None /\ attempt' = None /\ faults \in Nat /\ faults' = faults + 1
      /\ UNCHANGED <<carried, fallen, configured, prevCPU, prevNet, last, counted, owed, excused>>
      /\ dev' = [j \in DOMAIN dev \ {i} |-> dev[j]]
  BY DEF Vanish, Apart, Fault, agent, center, CTypeOK
<1>2. /\ DOMAIN dev' \subseteq DOMAIN dev /\ Eligible' \subseteq Eligible
      /\ Eligible' \subseteq DOMAIN dev'
      /\ \A j \in DOMAIN dev' : dev'[j] = dev[j]
  BY <1>1 DEF Eligible
<1>3. CTypeOK'
  <2>1. dev' \in [DOMAIN dev' -> Counters] /\ DOMAIN dev' \subseteq Ifaces
    BY <1>1, <1>2 DEF CTypeOK
  <2> QED
    BY <1>1, <2>1 DEF CTypeOK
<1>4. CountersInv'
  BY <1>1, <1>2 DEF CountersInv
<1>5. ReadingInv(prevNet)' /\ ReadingInv(last)'
  BY <1>1, <1>2 DEF ReadingInv, Credit, Grown
<1> QED
  BY <1>1, <1>3, <1>4, <1>5
    DEF CpuInv, ReportInv, CpuHonest, RateHonest, NoOvercount, NoUndercount, None

\* An interface comes with counters of zero: it shows nothing, and from now on
\* counters may have fallen.
LEMMA AppearKeeps ==
    ASSUME CollectorInv, NEW i \in Ifaces, Appear(i)
    PROVE  CollectorInv'
<1> USE DEF CollectorInv
<1>1. /\ attempt = None /\ attempt' = None /\ fallen' = TRUE
      /\ UNCHANGED <<carried, configured, prevCPU, prevNet, last, counted, owed, excused, faults>>
      /\ dev' = [j \in DOMAIN dev \cup {i} |->
                     IF j = i THEN [rx |-> 0, tx |-> 0] ELSE dev[j]]
  BY DEF Appear, Apart, agent, center
<1>2. /\ DOMAIN dev' = DOMAIN dev \cup {i} /\ Eligible' \subseteq DOMAIN dev'
      /\ \A j \in DOMAIN dev' :
            j # i => dev'[j] = dev[j] /\ (j \in Eligible' => j \in Eligible)
      /\ dev'[i].rx = 0 /\ dev'[i].tx = 0
  BY <1>1 DEF Eligible
<1>3. CTypeOK'
  <2>1. dev' \in [DOMAIN dev' -> Counters] /\ DOMAIN dev' \subseteq Ifaces
    BY <1>1, <1>2 DEF CTypeOK, Counters
  <2> QED
    BY <1>1, <2>1 DEF CTypeOK
<1>4. CountersInv'
  BY <1>1, <1>2 DEF CountersInv, CTypeOK, Total
<1>5. ASSUME NEW r \in Reading, ReadingInv(r), r # None
      PROVE  \A j \in Eligible' : Grown(dev'[j], r) <= carried'[j] - r.carried[j]
                                      + IF j = r.iface THEN 0 ELSE Total(r)
  <2> SUFFICES ASSUME NEW j \in Eligible'
               PROVE  Grown(dev'[j], r) <= carried'[j] - r.carried[j]
                                      + IF j = r.iface THEN 0 ELSE Total(r)
    OBVIOUS
  <2>1. CASE j # i
    BY <1>1, <1>2, <1>5, <2>1 DEF ReadingInv, Credit
  <2>2. CASE j = i
    <3>1. r.rx \in Nat /\ r.tx \in Nat /\ Total(r) \in Nat
      BY DEF Reading, Total
    <3>2. Grown(dev'[i], r) = 0
      BY <1>2, <3>1, GrownIsDifference DEF Difference
    <3>3. carried[i] \in Nat /\ r.carried[i] \in Nat /\ r.carried[i] <= carried[i]
      BY <1>5 DEF CTypeOK, Reading, ReadingInv
    <3> QED
      BY <1>1, <2>2, <3>1, <3>2, <3>3
  <2> QED
    BY <2>1, <2>2
<1>6. ReadingInv(prevNet)' /\ ReadingInv(last)'
  BY <1>1, <1>5 DEF ReadingInv, Credit, CTypeOK, Grown, Total
<1> QED
  BY <1>1, <1>3, <1>4, <1>6
    DEF CpuInv, ReportInv, CpuHonest, RateHonest, NoOvercount, NoUndercount, None

-----------------------------------------------------------------------------
\* The unsigned difference of two times that are not far apart.
LEMMA UnsignedDifference ==
    ASSUME NEW m \in 0 .. MaxJiffies, NEW n \in 0 .. MaxJiffies
    PROVE  (m - n) % Width = IF m >= n THEN m - n ELSE m - n + Width
<1>1. Width \in Nat /\ MaxJiffies \in Nat /\ Width > 2 * MaxJiffies
  BY CollectorAssumption
<1>2. CASE m >= n
  BY <1>1, <1>2
<1>3. CASE m < n
  BY <1>1, <1>3
<1> QED
  BY <1>2, <1>3

\* What collectCPU shows is the busy time, or nothing.
LEMMA UsageIsSpent ==
    ASSUME CollectorInv, NEW busy \in 0 .. MaxJiffies, NEW idle \in 0 .. MaxJiffies,
           prevCPU # None => busy >= prevCPU.busy
    PROVE  LET share == Usage(busy + idle, idle)
               spent == IF prevCPU = None THEN 0 ELSE busy - prevCPU.busy
           IN  /\ share \in Share /\ spent \in Nat
               /\ share # None /\ share.of > 0 => share.busy = spent /\ spent <= share.of
<1>1. CASE prevCPU = None
  BY <1>1 DEF Usage, Share
<1>2. CASE prevCPU # None
  <2> DEFINE dTotal == busy + idle - prevCPU.total
             dIdle == (idle - prevCPU.idle) % Width
             spent == busy - prevCPU.busy
  <2>1. /\ prevCPU.busy \in 0 .. MaxJiffies /\ prevCPU.idle \in 0 .. MaxJiffies
        /\ prevCPU.total = prevCPU.busy + prevCPU.idle
    BY <1>2 DEF CollectorInv, CTypeOK, CpuInv
  <2>2. Width \in Nat /\ MaxJiffies \in Nat /\ Width > 2 * MaxJiffies
    BY CollectorAssumption
  <2>3. dTotal = spent + (idle - prevCPU.idle) /\ spent \in 0 .. MaxJiffies
    BY <1>2, <2>1, <2>2
  <2>4. dIdle = IF idle >= prevCPU.idle THEN idle - prevCPU.idle
                ELSE idle - prevCPU.idle + Width
    BY <2>1, UnsignedDifference
  <2>5. CASE dTotal <= 0
    BY <1>2, <2>1, <2>3, <2>5 DEF Usage, Share
  <2>6. CASE dTotal > 0 /\ idle >= prevCPU.idle
    <3>1. dIdle <= dTotal /\ dTotal - dIdle = spent /\ dTotal \in Nat /\ spent <= dTotal
      BY <2>1, <2>3, <2>4, <2>6
    <3>2. Usage(busy + idle, idle) = [busy |-> spent, of |-> dTotal]
      BY <1>2, <2>1, <2>6, <3>1 DEF Usage
    <3> QED
      BY <1>2, <2>3, <3>1, <3>2 DEF Share
  <2>7. CASE dTotal > 0 /\ idle < prevCPU.idle
    <3>1. ~(dIdle <= dTotal)
      BY <2>1, <2>2, <2>3, <2>4, <2>7
    <3>2. Usage(busy + idle, idle) = None
      BY <1>2, <2>1, <2>7, <3>1 DEF Usage
    <3> QED
      BY <1>2, <2>3, <3>2 DEF Share
  <2> QED
    BY <2>1, <2>3, <2>5, <2>6, <2>7
<1> QED
  BY <1>1, <1>2

LEMMA CollectCPUKeeps ==
    ASSUME CollectorInv, NEW busy \in 0 .. MaxJiffies, NEW idle \in 0 .. MaxJiffies,
           CollectCPU(busy, idle)
    PROVE  CollectorInv'
<1> DEFINE share == Usage(busy + idle, idle)
           spent == IF prevCPU = None THEN 0 ELSE busy - prevCPU.busy
<1>1. /\ attempt' = [at |-> "rest", cpu |-> share, spent |-> spent]
      /\ prevCPU' = [at |-> "prev", total |-> busy + idle, idle |-> idle, busy |-> busy]
      /\ UNCHANGED <<machine, configured, prevNet, last, counted, owed, excused, faults>>
      /\ prevCPU # None => busy >= prevCPU.busy
  BY DEF CollectCPU, center
<1>2. /\ share \in Share /\ spent \in Nat
      /\ share # None /\ share.of > 0 => share.busy = spent /\ spent <= share.of
  BY <1>1, UsageIsSpent
<1> HIDE DEF share, spent
<1>3. CTypeOK'
  <2>1. attempt' \in Attempt
    BY <1>1, <1>2 DEF Attempt
  <2>2. MaxJiffies \in Nat /\ busy \in Nat /\ idle \in Nat /\ busy + idle \in Nat
    BY CollectorAssumption
  <2>3. prevCPU' \in [at : {"prev"}, total : Nat, idle : Nat, busy : Nat]
    BY <1>1, <2>2
  <2> QED
    BY <1>1, <2>1, <2>3 DEF CollectorInv, CTypeOK, machine
<1>4. CountersInv' /\ ReadingInv(prevNet)' /\ ReadingInv(last)'
  BY <1>1, KeptReadings DEF Kept
<1>5. CpuInv'
  BY <1>1 DEF CpuInv
<1>6. CpuHonest'
  BY <1>1, <1>2 DEF CpuHonest
<1>7. ReportInv' /\ RateHonest'
  BY <1>1 DEF ReportInv, RateHonest
<1>8. NoOvercount' /\ NoUndercount'
  BY <1>1 DEF CollectorInv, NoOvercount, NoUndercount, machine
<1> QED
  BY <1>3, <1>4, <1>5, <1>6, <1>7, <1>8 DEF CollectorInv

\* The attempt goes on past the memory and the disks, or ends.
LEMMA CollectRestKeeps ==
    ASSUME CollectorInv, CollectRest
    PROVE  CollectorInv'
<1> USE DEF CollectorInv
<1>1. /\ attempt.at = "rest" /\ attempt' = [attempt EXCEPT !.at = "net"]
      /\ UNCHANGED <<machine, configured, prevCPU, prevNet, last, counted, owed, excused, faults>>
  BY DEF CollectRest, center
<1>2. attempt \in [at : {"rest", "net"}, cpu : Share, spent : Nat]
  BY <1>1 DEF CTypeOK, Attempt, None
<1>3. /\ attempt' \in [at : {"rest", "net"}, cpu : Share, spent : Nat] /\ attempt'.at = "net"
      /\ attempt'.cpu = attempt.cpu /\ attempt'.spent = attempt.spent /\ attempt # None
  BY <1>1, <1>2 DEF None
<1>4. CTypeOK'
  BY <1>1, <1>3 DEF CTypeOK, Attempt, machine
<1>5. CountersInv' /\ ReadingInv(prevNet)' /\ ReadingInv(last)'
  BY <1>1, KeptReadings DEF Kept
<1>6. CpuInv' /\ CpuHonest' /\ ReportInv' /\ RateHonest'
  BY <1>1, <1>3 DEF CpuInv, CpuHonest, ReportInv, RateHonest
<1> QED
  BY <1>1, <1>4, <1>5, <1>6 DEF NoOvercount, NoUndercount, machine

LEMMA AttemptEndsKeeps ==
    ASSUME CollectorInv, attempt' = None, faults' \in Nat,
           UNCHANGED <<machine, configured, prevCPU, prevNet, center>>
    PROVE  CollectorInv'
<1>1. CTypeOK'
  BY DEF CollectorInv, CTypeOK, machine, center
<1>2. CountersInv' /\ ReadingInv(prevNet)' /\ ReadingInv(last)'
  BY KeptReadings DEF Kept, center
<1> QED
  BY <1>1, <1>2 DEF CollectorInv, CpuInv, ReportInv, CpuHonest, RateHonest,
                    NoOvercount, NoUndercount, None, machine, center

\* The reading that is kept is the leader's: no other interface has carried
\* more by its counters than the leader has.
LEMMA LeaderIsKept ==
    ASSUME CollectorInv, NEW b \in Eligible, NEW r \in Reading,
           \A j \in Eligible : Total(dev[j]) <= Total(dev[b]),
           r.rx = dev[b].rx, r.tx = dev[b].tx, r.iface = b, r.carried = carried
    PROVE  ReadingInv(r)
<1> USE DEF CollectorInv
<1>1. /\ b \in DOMAIN dev /\ configured \in {AnyIface, b} /\ Total(r) = Total(dev[b])
      /\ carried \in [Ifaces -> Nat] /\ Eligible \subseteq Ifaces
      /\ \A j \in Eligible : dev[j].rx \in Nat /\ dev[j].tx \in Nat
  <2>1. b \in DOMAIN dev /\ configured \in {AnyIface, b} /\ Eligible \subseteq DOMAIN dev
    BY DEF Eligible
  <2>2. \A j \in DOMAIN dev : dev[j] \in Counters /\ j \in Ifaces
    BY DEF CTypeOK
  <2>3. \A j \in Eligible : dev[j].rx \in Nat /\ dev[j].tx \in Nat
    BY <2>1, <2>2 DEF Counters
  <2> QED
    BY <2>1, <2>2, <2>3 DEF CTypeOK, Total
<1>2. ASSUME NEW j \in Eligible PROVE Grown(dev[j], r) <= Credit(j, r)
  <2>1. /\ Grown(dev[j], r) = Difference(dev[j].rx, r.rx) + Difference(dev[j].tx, r.tx)
        /\ r.rx \in Nat /\ r.tx \in Nat
    BY <1>1, GrownIsDifference DEF Reading
  <2>2. CASE j = b
    <3>1. Grown(dev[j], r) = 0
      BY <1>1, <2>1, <2>2 DEF Difference
    <3> QED
      BY <1>1, <2>2, <3>1 DEF Credit
  <2>3. CASE j # b
    <3>1. Credit(j, r) = Total(dev[b])
      <4>1. Credit(j, r) = carried[j] - carried[j] + Total(r)
        BY <2>3 DEF Credit
      <4>2. carried[j] \in Nat /\ Total(dev[b]) \in Nat
        BY <1>1 DEF Total
      <4> QED
        BY <1>1, <4>1, <4>2
    <3>2. Grown(dev[j], r) <= Total(dev[j])
      BY <1>1, <2>1 DEF Difference, Total
    <3>3. Total(dev[j]) \in Nat /\ Total(dev[b]) \in Nat /\ Grown(dev[j], r) \in Nat
      BY <1>1, <2>1 DEF Total, Difference
    <3> QED
      BY <3>1, <3>2, <3>3
  <2> QED
    BY <2>2, <2>3
<1>3. /\ ~fallen => Total(r) = r.carried[r.iface]
      /\ r.rx <= dev[r.iface].rx /\ r.tx <= dev[r.iface].tx
  BY <1>1 DEF CountersInv
<1>4. \A i \in Ifaces : r.carried[i] <= carried[i]
  BY <1>1
<1> QED
  BY <1>1, <1>2, <1>3, <1>4 DEF ReadingInv

LEMMA CollectNetKeeps ==
    ASSUME CollectorInv, CollectNet
    PROVE  CollectorInv'
<1> USE DEF CollectorInv
<1> DEFINE b == Busiest
           n == dev[Busiest]
<1>1. /\ attempt.at = "net" /\ Eligible # {}
      /\ attempt' = [at |-> "report", cpu |-> attempt.cpu, spent |-> attempt.spent,
                     iface |-> b, net |-> n, moved |-> Moved(n), sent |-> carried,
                     carried |-> IF prevNet = None THEN 0 ELSE Credit(b, prevNet)]
      /\ prevNet' = [at |-> "prev", rx |-> n.rx, tx |-> n.tx, iface |-> b, carried |-> carried]
      /\ UNCHANGED <<machine, configured, prevCPU, last, counted, owed, excused, faults>>
  BY DEF CollectNet, center
<1>2. b \in Eligible /\ \A j \in Eligible : Total(dev[j]) <= Total(dev[b])
  BY <1>1, BusiestLeads
<1>3. /\ Eligible \subseteq DOMAIN dev /\ b \in Ifaces /\ carried \in [Ifaces -> Nat]
      /\ n \in Counters /\ n.rx \in Nat /\ n.tx \in Nat
  BY <1>2 DEF CTypeOK, Eligible, Counters
<1>4. attempt # None /\ attempt.cpu \in Share /\ attempt.spent \in Nat
  BY <1>1 DEF CTypeOK, Attempt, None
<1> HIDE DEF b, n
<1>5. /\ Moved(n) \in Nat
      /\ prevNet # None => Moved(n) <= Credit(b, prevNet) /\ Credit(b, prevNet) \in Int
  <2>1. CASE prevNet = None
    BY <2>1 DEF Moved
  <2>2. CASE prevNet # None
    <3>1. /\ prevNet \in Reading /\ Moved(n) = Grown(n, prevNet)
          /\ prevNet.rx \in Nat /\ prevNet.tx \in Nat
      BY <2>2 DEF Moved, Grown, CTypeOK, Reading
    <3>2. Moved(n) \in Nat
      BY <1>3, <3>1, GrownIsDifference
    <3>3. Grown(n, prevNet) <= Credit(b, prevNet)
      BY <1>2, <2>2 DEF ReadingInv, n, b
    <3>4. Credit(b, prevNet) \in Int
      BY <1>3, <3>1 DEF Credit, Reading, Total
    <3> QED
      BY <2>2, <3>1, <3>2, <3>3, <3>4
  <2> QED
    BY <2>1, <2>2
<1>6. prevNet' \in Reading /\ attempt' \in Attempt
  <2>1. prevNet' \in Reading
    BY <1>1, <1>3 DEF Reading
  <2>2. attempt' \in [at : {"report"}, cpu : Share, spent : Nat, iface : Ifaces, net : Counters,
                      moved : Nat, sent : [Ifaces -> Nat], carried : Int]
    BY <1>1, <1>3, <1>4, <1>5
  <2> QED
    BY <2>1, <2>2 DEF Attempt
<1>7. CTypeOK'
  BY <1>1, <1>6 DEF CTypeOK, machine
<1>8. Eligible' = Eligible /\ CountersInv' /\ ReadingInv(last)'
  BY <1>1 DEF Eligible, CountersInv, ReadingInv, Credit, Grown, machine
<1>9. ReadingInv(prevNet)'
  <2>1. ReadingInv(prevNet')
    BY <1>1, <1>2, <1>6, LeaderIsKept DEF n, b
  <2> QED
    BY <1>1, <1>8, <2>1 DEF ReadingInv, Credit, Grown, machine
<1>10. ReportInv'
  <2>1. /\ attempt'.iface = b /\ attempt'.net = dev[b] /\ attempt'.sent = carried
        /\ UNCHANGED <<dev, carried>>
    BY <1>1 DEF machine, n, b
  <2> QED
    BY <1>2, <1>8, <2>1 DEF ReportInv
<1>11. CpuInv' /\ CpuHonest'
  BY <1>1, <1>4 DEF CpuInv, CpuHonest
<1>12. RateHonest'
  <2>1. /\ attempt'.moved = Moved(n)
        /\ attempt'.carried = IF prevNet = None THEN 0 ELSE Credit(b, prevNet)
    BY <1>1
  <2>2. prevNet = None => Moved(n) = 0
    BY DEF Moved
  <2> QED
    BY <1>5, <2>1, <2>2 DEF RateHonest
<1> QED
  BY <1>1, <1>7, <1>8, <1>9, <1>10, <1>11, <1>12 DEF NoOvercount, NoUndercount, machine

-----------------------------------------------------------------------------
\* What the center adds for a report is within what it owes and excuses, and
\* makes up for it while no counter fell.
LEMMA ReportIsCounted ==
    ASSUME CollectorInv, attempt.at = "report", last # None
    PROVE  LET added == Difference(attempt.net.rx, last.rx) + Difference(attempt.net.tx, last.tx)
               due == carried[attempt.iface] - last.carried[attempt.iface]
               spared == IF attempt.iface = last.iface THEN 0 ELSE Total(last)
           IN  /\ added \in Nat /\ due \in Nat /\ spared \in Nat
               /\ added <= due + spared
               /\ ~fallen => due <= added + spared
<1> USE DEF CollectorInv
<1> DEFINE i == attempt.iface
           n == attempt.net
           added == Difference(n.rx, last.rx) + Difference(n.tx, last.tx)
           due == carried[i] - last.carried[i]
           spared == IF i = last.iface THEN 0 ELSE Total(last)
<1>1. i \in Eligible /\ i \in DOMAIN dev /\ i \in Ifaces /\ n = dev[i]
  BY DEF ReportInv, Eligible, CTypeOK
<1>2. /\ n.rx \in Nat /\ n.tx \in Nat /\ last.rx \in Nat /\ last.tx \in Nat
      /\ Total(last) = last.rx + last.tx /\ Total(last) \in Nat
      /\ last.carried[i] \in Nat /\ carried[i] \in Nat
  BY <1>1 DEF CTypeOK, Counters, Reading, Total
<1>3. added = Grown(n, last) /\ added \in Nat
  BY <1>2, GrownIsDifference
<1>4. added <= due + spared
  <2>1. Grown(dev[i], last) <= Credit(i, last)
    BY <1>1 DEF ReadingInv
  <2> QED
    BY <1>1, <1>3, <2>1 DEF Credit
<1>5. due \in Nat
  BY <1>1, <1>2 DEF ReadingInv
<1>6. ASSUME ~fallen PROVE due <= added + spared
  <2>1. carried[i] = n.rx + n.tx
    BY <1>1, <1>6 DEF CountersInv, Total
  <2>2. CASE i = last.iface
    <3>1. last.rx <= n.rx /\ last.tx <= n.tx /\ last.carried[i] = last.rx + last.tx
      BY <1>1, <1>2, <1>6, <2>2 DEF ReadingInv
    <3> QED
      BY <1>2, <2>1, <2>2, <3>1 DEF Difference
  <2>3. CASE i # last.iface
    BY <1>2, <2>1, <2>3 DEF Difference
  <2> QED
    BY <2>2, <2>3
<1> QED
  BY <1>2, <1>3, <1>4, <1>5, <1>6

LEMMA ApplyKeeps ==
    ASSUME CollectorInv, Apply
    PROVE  CollectorInv'
<1> USE DEF CollectorInv
<1>1. /\ attempt.at = "report" /\ attempt' = None
      /\ last' = [at |-> "last", rx |-> attempt.net.rx, tx |-> attempt.net.tx,
                  iface |-> attempt.iface, carried |-> attempt.sent]
      /\ UNCHANGED <<machine, configured, prevCPU, prevNet, faults>>
  BY DEF Apply
<1>2. /\ attempt.iface \in Eligible /\ attempt.net = dev[attempt.iface]
      /\ attempt.sent = carried
      /\ \A j \in Eligible : Total(dev[j]) <= Total(dev[attempt.iface])
  BY <1>1 DEF ReportInv
<1>3. last' \in Reading
  <2>1. attempt.net \in Counters /\ attempt.iface \in Ifaces /\ carried \in [Ifaces -> Nat]
    BY <1>1, <1>2 DEF CTypeOK, Eligible
  <2> QED
    BY <1>1, <1>2, <2>1 DEF Reading, Counters
<1>4. /\ {counted', owed', excused'} \subseteq Nat
      /\ counted' <= owed' + excused'
      /\ ~fallen => owed' <= counted' + excused'
  <2>1. counted \in Nat /\ owed \in Nat /\ excused \in Nat
    BY DEF CTypeOK
  <2>2. CASE last = None
    BY <2>1, <2>2 DEF Apply, NoOvercount, NoUndercount
  <2>3. CASE last # None
    <3> DEFINE first == Difference(attempt.net.rx, last.rx)
               second == Difference(attempt.net.tx, last.tx)
               due == carried[attempt.iface] - last.carried[attempt.iface]
               spared == IF attempt.iface = last.iface THEN 0 ELSE Total(last)
    <3>1. /\ counted' = counted + first + second
          /\ owed' = owed + carried[attempt.iface] - last.carried[attempt.iface]
          /\ excused' = excused + spared
      BY <1>2, <2>3 DEF Apply
    <3>2. /\ first + second \in Nat /\ due \in Nat /\ spared \in Nat
          /\ first + second <= due + spared
          /\ ~fallen => due <= first + second + spared
      BY <1>1, <2>3, ReportIsCounted
    <3>3. first \in Nat /\ second \in Nat
      BY <1>1, <1>2, <2>3 DEF CTypeOK, Attempt, None, Counters, Reading, Difference
    <3>4. carried[attempt.iface] \in Nat /\ last.carried[attempt.iface] \in Nat
      BY <1>2, <2>3 DEF CTypeOK, Eligible, Reading
    <3>5. owed' = owed + due
      BY <2>1, <3>1, <3>4
    <3> HIDE DEF first, second, due, spared
    <3> QED
      BY <2>1, <3>1, <3>2, <3>3, <3>5 DEF NoOvercount, NoUndercount
  <2> QED
    BY <2>2, <2>3
<1>5. CTypeOK'
  BY <1>1, <1>3, <1>4 DEF CTypeOK, machine
<1>6. Eligible' = Eligible /\ CountersInv' /\ ReadingInv(prevNet)'
  BY <1>1 DEF Eligible, CountersInv, ReadingInv, Credit, Grown, machine
<1>7. ReadingInv(last)'
  <2>1. ReadingInv(last')
    BY <1>1, <1>2, <1>3, LeaderIsKept
  <2> QED
    BY <1>1, <1>6, <2>1 DEF ReadingInv, Credit, Grown, machine
<1> QED
  BY <1>1, <1>4, <1>5, <1>6, <1>7
    DEF CpuInv, ReportInv, CpuHonest, RateHonest, NoOvercount, NoUndercount, None, machine

\* The agent or the center starts again, with nothing kept.
LEMMA RestartsKeep ==
    ASSUME CollectorInv, AgentRestart \/ CenterRestart
    PROVE  CollectorInv'
<1> USE DEF CollectorInv
<1>1. /\ faults' \in Nat /\ UNCHANGED <<machine, configured>>
      /\ Eligible' = Eligible /\ CountersInv'
  <2>1. faults \in Nat /\ faults' = faults + 1 /\ UNCHANGED <<machine, configured>>
    BY DEF AgentRestart, CenterRestart, Fault, CTypeOK, agent
  <2> QED
    BY <2>1 DEF machine, Eligible, CountersInv
<1>2. CASE AgentRestart
  <2>1. /\ prevCPU' = None /\ prevNet' = None /\ attempt' = None
        /\ UNCHANGED <<last, counted, owed, excused>>
    BY <1>2 DEF AgentRestart, center
  <2>2. CTypeOK'
    BY <1>1, <2>1 DEF CTypeOK, machine
  <2>3. ReadingInv(last)'
    BY <1>1, <2>1 DEF ReadingInv, Credit, Grown, machine
  <2>4. ReadingInv(prevNet)' /\ CpuInv' /\ ReportInv' /\ CpuHonest' /\ RateHonest'
    BY <2>1 DEF ReadingInv, CpuInv, ReportInv, CpuHonest, RateHonest, None
  <2> QED
    BY <1>1, <2>1, <2>2, <2>3, <2>4 DEF NoOvercount, NoUndercount, machine
<1>3. CASE CenterRestart
  <2>1. last' = None /\ counted' = 0 /\ owed' = 0 /\ excused' = 0 /\ UNCHANGED agent
    BY <1>3 DEF CenterRestart
  <2>2. CTypeOK'
    BY <1>1, <2>1 DEF CTypeOK, machine, agent
  <2>3. ReadingInv(prevNet)' /\ CpuInv'
    BY <1>1, <2>1 DEF ReadingInv, Credit, Grown, CpuInv, machine, agent
  <2>4. ReportInv' /\ CpuHonest' /\ RateHonest'
    BY <1>1, <2>1 DEF ReportInv, CpuHonest, RateHonest, machine, agent
  <2>5. ReadingInv(last)' /\ NoOvercount' /\ NoUndercount'
    BY <2>1 DEF ReadingInv, NoOvercount, NoUndercount
  <2> QED
    BY <1>1, <2>2, <2>3, <2>4, <2>5
<1> QED
  BY <1>2, <1>3

-----------------------------------------------------------------------------
LEMMA CollectorInvInit == CInit => CollectorInv
<1> SUFFICES ASSUME CInit PROVE CollectorInv
  OBVIOUS
<1>1. CTypeOK
  <2>1. dev \in [DOMAIN dev -> Counters] /\ DOMAIN dev = Ifaces
    BY DEF CInit, Counters
  <2>2. carried \in [Ifaces -> Nat]
    BY DEF CInit
  <2>3. /\ prevCPU = None /\ prevNet = None /\ attempt = None /\ last = None
        /\ counted = 0 /\ owed = 0 /\ excused = 0 /\ faults = 0 /\ fallen = FALSE
        /\ configured \in Ifaces \cup {AnyIface}
    BY DEF CInit
  <2>4. {counted, owed, excused, faults} \subseteq Nat
    BY <2>3
  <2>5. fallen \in BOOLEAN
    BY <2>3
  <2> QED
    BY <2>1, <2>2, <2>3, <2>4, <2>5 DEF CTypeOK
<1>2. CountersInv
  BY DEF CInit, CountersInv, Total
<1> QED
  BY <1>1, <1>2 DEF CInit, CollectorInv, CpuInv, ReadingInv, ReportInv, CpuHonest, RateHonest,
                    NoOvercount, NoUndercount, None

LEMMA CollectorInvStep == CollectorInv /\ [CNext]_cvars => CollectorInv'
<1> SUFFICES ASSUME CollectorInv, [CNext]_cvars PROVE CollectorInv'
  OBVIOUS
<1>1. ASSUME NEW i \in Ifaces, Vanish(i) PROVE CollectorInv'
  BY <1>1, VanishKeeps
<1>2. ASSUME NEW i \in Ifaces, Appear(i) PROVE CollectorInv'
  BY <1>2, AppearKeeps
<1>3. ASSUME NEW i \in Ifaces, NEW way \in {"rx", "tx"}, Carry(i, way) PROVE CollectorInv'
  BY <1>3, CarryKeeps
<1>4. ASSUME NEW busy \in 0 .. MaxJiffies, NEW idle \in 0 .. MaxJiffies, CollectCPU(busy, idle)
      PROVE  CollectorInv'
  BY <1>4, CollectCPUKeeps
<1>5. CASE CollectRest
  BY <1>5, CollectRestKeeps
<1>6. CASE CollectFails \/ CollectNetFails \/ Lost
  <2>1. faults' \in Nat
    BY <1>6 DEF CollectFails, CollectNetFails, Lost, Fault, center, CollectorInv, CTypeOK
  <2> QED
    BY <1>6, <2>1, AttemptEndsKeeps DEF CollectFails, CollectNetFails, Lost
<1>7. CASE CollectNet
  BY <1>7, CollectNetKeeps
<1>8. CASE Apply
  BY <1>8, ApplyKeeps
<1>9. CASE AgentRestart \/ CenterRestart
  BY <1>9, RestartsKeep
<1>10. CASE UNCHANGED cvars
  <2>1. UNCHANGED <<machine, agent, center, faults>>
    BY <1>10 DEF cvars
  <2>2. CTypeOK'
    BY <2>1 DEF CollectorInv, CTypeOK, machine, agent, center
  <2>3. CountersInv' /\ ReadingInv(prevNet)' /\ ReadingInv(last)' /\ Eligible' = Eligible
    BY <2>1, KeptReadings DEF Kept, machine, agent, center, Eligible
  <2> QED
    BY <2>1, <2>2, <2>3 DEF CollectorInv, CpuInv, ReportInv, CpuHonest, RateHonest,
                            NoOvercount, NoUndercount, machine, agent, center
<1> QED
  BY <1>1, <1>2, <1>3, <1>4, <1>5, <1>6, <1>7, <1>8, <1>9, <1>10 DEF CNext

\* Every reachable state of collector and center is typed; in particular what
\* is counted, what is owed and what is excused never fall below zero.
THEOREM CollectorTypeCorrect == CSpec => []CTypeOK
<1>1. CollectorInv => CTypeOK
  BY DEF CollectorInv
<1> QED BY <1>1, CollectorInvInit, CollectorInvStep, PTL DEF CSpec

\* collectCPU shows the time spent since the last attempt or nothing, however
\* iowait is corrected and whatever failed in between.
THEOREM CpuShareIsHonest == CSpec => []CpuHonest
<1>1. CollectorInv => CpuHonest
  BY DEF CollectorInv
<1> QED BY <1>1, CollectorInvInit, CollectorInvStep, PTL DEF CSpec

\* collectNet shows as a rate only what its interface carried since the last
\* reading and, when the lead changed, at most what the old leader had carried.
THEOREM RatesAreHonest == CSpec => []RateHonest
<1>1. CollectorInv => RateHonest
  BY DEF CollectorInv
<1> QED BY <1>1, CollectorInvInit, CollectorInvStep, PTL DEF CSpec

\* The differences handleIngest takes of the reported totals count no byte that
\* was not carried, beyond the excuse of each change of the lead.
THEOREM NothingCountedTwice == CSpec => []NoOvercount
<1>1. CollectorInv => NoOvercount
  BY DEF CollectorInv
<1> QED BY <1>1, CollectorInvInit, CollectorInvStep, PTL DEF CSpec

\* And they miss none while no interface came back with new counters.
THEOREM NothingMissed == CSpec => []NoUndercount
<1>1. CollectorInv => NoUndercount
  BY DEF CollectorInv
<1> QED BY <1>1, CollectorInvInit, CollectorInvStep, PTL DEF CSpec

\* An agent with net_iface set reads one interface only: then nothing is
\* excused, and what is counted is at most what that interface carried.
THEOREM ConfiguredCountsExactly ==
    CSpec => [](configured # AnyIface =>
                    excused = 0 /\ counted <= owed /\ (~fallen => counted = owed))
<1> DEFINE OneIface == configured # AnyIface => excused = 0
<1>1. CInit => OneIface
  BY DEF CInit
<1>2. CollectorInv /\ OneIface /\ [CNext]_cvars => OneIface'
  <2> SUFFICES ASSUME CollectorInv, OneIface, [CNext]_cvars, configured' # AnyIface
               PROVE  excused' = 0
    OBVIOUS
  <2>1. UNCHANGED configured
    BY DEF CNext, Vanish, Appear, Carry, CollectCPU, CollectRest, CollectFails, CollectNet,
           CollectNetFails, Apply, Lost, AgentRestart, CenterRestart, agent, cvars
  <2>2. CASE Apply
    <3>1. CASE last = None
      BY <2>1, <2>2, <3>1 DEF Apply
    <3>2. CASE last # None
      <4>1. last.iface = configured
        BY <2>1, <3>2 DEF CollectorInv, ReadingInv
      <4>2. attempt.iface = configured
        BY <2>1, <2>2 DEF Apply, CollectorInv, ReportInv, Eligible
      <4>3. excused' = excused + 0
        BY <2>2, <3>2, <4>1, <4>2 DEF Apply
      <4> QED
        BY <2>1, <4>3
    <3> QED
      BY <3>1, <3>2
  <2>3. CASE CenterRestart
    BY <2>3 DEF CenterRestart
  <2>4. CASE ~Apply /\ ~CenterRestart
    BY <2>1, <2>4 DEF CNext, Vanish, Appear, Carry, CollectCPU, CollectRest, CollectFails,
           CollectNet, CollectNetFails, Lost, AgentRestart, center, cvars
  <2> QED
    BY <2>2, <2>3, <2>4
<1>3. CollectorInv /\ OneIface =>
          (configured # AnyIface =>
               excused = 0 /\ counted <= owed /\ (~fallen => counted = owed))
  BY DEF CollectorInv, CTypeOK, NoOvercount, NoUndercount
<1> QED BY <1>1, <1>2, <1>3, CollectorInvInit, CollectorInvStep, PTL DEF CSpec
=============================================================================
