------------------------------ MODULE Collector ------------------------------
(* The agent's collector (internal/agent/collect_linux.go) over counters     *)
(* that move under it: what it reads in one attempt, in order, what it keeps *)
(* for the next one, and what the center counts from the totals it reports.  *)
(* An attempt fails at the first file it cannot read and reports nothing.    *)
EXTENDS Integers, FiniteSetsExt

CONSTANTS Ifaces,   \* interfaces other than lo, in the order of /proc/net/dev
          Width,    \* the CPU's counters are computed modulo 2^64
          MaxBytes, MaxJiffies, MaxFaults    \* bounds

ASSUME CollectorAssumption ==
    /\ Ifaces \subseteq Nat \ {0} /\ IsFiniteSet(Ifaces)
    /\ {Width, MaxBytes, MaxJiffies, MaxFaults} \subseteq Nat
    /\ Width > 2 * MaxJiffies

VARIABLES
    \* the machine
    dev,         \* rx and tx of each interface there is
    \* the agent
    configured,  \* net_iface, AnyIface when it is empty
    prevCPU, prevNet,
    attempt,     \* the collection under way, or its report
    \* the center
    last,        \* the totals of the last report
    counted,     \* traffic added to the rolling windows
    \* what happened so far
    carried,     \* bytes each interface carried, in both directions
    owed,        \* bytes the reported interfaces carried from report to report
    excused,     \* what earlier leaders had carried when the lead changed
    fallen,      \* an interface came back with new counters
    faults

machine == <<dev, carried, fallen>>
agent == <<configured, prevCPU, prevNet, attempt>>
center == <<last, counted, owed, excused>>
cvars == <<machine, agent, center, faults>>

AnyIface == 0
None == [at |-> "none"]
Total(n) == n.rx + n.tx

CInit ==
    /\ dev = [i \in Ifaces |-> [rx |-> 0, tx |-> 0]]
    /\ configured \in Ifaces \cup {AnyIface}
    /\ prevCPU = None /\ prevNet = None /\ attempt = None
    /\ last = None /\ counted = 0
    /\ carried = [i \in Ifaces |-> 0] /\ owed = 0 /\ excused = 0
    /\ fallen = FALSE /\ faults = 0

-----------------------------------------------------------------------------
\* /proc is read at once, so that what happens during an attempt can as well
\* happen before or after it.
Apart == attempt = None

Carry(i, way) ==
    /\ Apart
    /\ SumFunction(carried) < MaxBytes
    /\ i \in DOMAIN dev
    /\ dev' = [dev EXCEPT ![i][way] = @ + 1]
    /\ carried' = [carried EXCEPT ![i] = @ + 1]
    /\ UNCHANGED <<fallen, agent, center, faults>>

Fault == faults < MaxFaults /\ faults' = faults + 1

\* An interface is removed, or made again with counters of zero.
Vanish(i) ==
    /\ Apart /\ Fault /\ i \in DOMAIN dev
    /\ dev' = [j \in DOMAIN dev \ {i} |-> dev[j]]
    /\ UNCHANGED <<carried, fallen, agent, center>>

Appear(i) ==
    /\ Apart /\ i \notin DOMAIN dev
    /\ dev' = [j \in DOMAIN dev \cup {i} |-> IF j = i THEN [rx |-> 0, tx |-> 0] ELSE dev[j]]
    /\ fallen' = TRUE
    /\ UNCHANGED <<carried, agent, center, faults>>

-----------------------------------------------------------------------------
\* Mutant of Usage: a fall of the idle time is not noticed.
UsageUnguarded(total, idle) ==
    IF prevCPU # None /\ total > prevCPU.total
    THEN [busy |-> Max({0, total - prevCPU.total - ((idle - prevCPU.idle) % Width)}),
          of |-> total - prevCPU.total]
    ELSE [busy |-> 0, of |-> 0]

\* cpu_pct, as busy time of all time; None when the difference of the idle
\* time, taken as an unsigned number, does not fit.
Usage(total, idle) ==
    LET dTotal == total - prevCPU.total
        dIdle == (idle - prevCPU.idle) % Width
    IN  IF prevCPU = None THEN [busy |-> 0, of |-> 0]
        ELSE IF total <= prevCPU.total THEN [busy |-> 0, of |-> 0]
        ELSE IF dIdle <= dTotal THEN [busy |-> dTotal - dIdle, of |-> dTotal]
        ELSE None

\* /proc/stat has grown to these busy and idle times; iowait, which counts as
\* idle, may have been corrected downwards.  collectCPU moves on whatever fails
\* after it.
CollectCPU(busy, idle) ==
    /\ attempt = None
    /\ prevCPU # None => busy >= prevCPU.busy
    /\ attempt' = [at |-> "rest", cpu |-> Usage(busy + idle, idle),
                   spent |-> IF prevCPU = None THEN 0 ELSE busy - prevCPU.busy]
    /\ prevCPU' = [at |-> "prev", total |-> busy + idle, idle |-> idle, busy |-> busy]
    /\ UNCHANGED <<machine, configured, prevNet, center, faults>>

\* collectMem and collectDisk: /proc/meminfo or statfs may fail.
CollectRest ==
    /\ attempt.at = "rest"
    /\ attempt' = [attempt EXCEPT !.at = "net"]
    /\ UNCHANGED <<machine, configured, prevCPU, prevNet, center, faults>>

CollectFails ==
    /\ Fault /\ attempt.at = "rest"
    /\ attempt' = None
    /\ UNCHANGED <<machine, configured, prevCPU, prevNet, center>>

\* The lines of /proc/net/dev that readNetBytes looks at.
Eligible == IF configured = AnyIface THEN DOMAIN dev ELSE DOMAIN dev \cap {configured}

\* Mutant of Busiest: the first interface there is.
BusiestFirst == Min(Eligible)

\* The last line with the largest sum.
Busiest == Max({i \in Eligible : \A j \in Eligible : Total(dev[j]) <= Total(dev[i])})

\* Mutant of Moved: the first attempt takes the totals for what was carried.
MovedFirst(n) ==
    IF prevNet = None THEN n.rx + n.tx
    ELSE Max({0, n.rx - prevNet.rx}) + Max({0, n.tx - prevNet.tx})

\* The bytes behind net_rx_bps and net_tx_bps.  They are divided by the time
\* between two attempts, which the ticker keeps apart.
Moved(n) ==
    IF prevNet = None THEN 0
    ELSE Max({0, n.rx - prevNet.rx}) + Max({0, n.tx - prevNet.tx})

\* What an interface carried since a reading, and, when another was read then,
\* what that one had carried.
Credit(i, reading) ==
    carried[i] - reading.carried[i] + IF i = reading.iface THEN 0 ELSE Total(reading)

CollectNet ==
    /\ attempt.at = "net" /\ Eligible # {}
    /\ LET n == dev[Busiest]
       IN  /\ attempt' = [at |-> "report", cpu |-> attempt.cpu, spent |-> attempt.spent,
                        iface |-> Busiest, net |-> n, moved |-> Moved(n), sent |-> carried,
                        carried |-> IF prevNet = None THEN 0 ELSE Credit(Busiest, prevNet)]
           /\ prevNet' = [at |-> "prev", rx |-> n.rx, tx |-> n.tx, iface |-> Busiest, carried |-> carried]
    /\ UNCHANGED <<machine, configured, prevCPU, center, faults>>

\* "no net iface found", or not the configured one.
CollectNetFails ==
    /\ attempt.at = "net" /\ Eligible = {}
    /\ attempt' = None
    /\ UNCHANGED <<machine, configured, prevCPU, prevNet, center, faults>>

-----------------------------------------------------------------------------
\* Mutants of Difference: without its guard, and with its operands swapped.
DifferenceUnguarded(new, old) == new - old
DifferenceSwapped(new, old) == IF old >= new THEN old - new ELSE 0

Difference(new, old) == IF new >= old THEN new - old ELSE 0

\* handleIngest
Apply ==
    /\ attempt.at = "report"
    /\ last' = [at |-> "last", rx |-> attempt.net.rx, tx |-> attempt.net.tx,
                iface |-> attempt.iface, carried |-> attempt.sent]
    /\ IF last = None
       THEN UNCHANGED <<counted, owed, excused>>
       ELSE /\ counted' = counted + Difference(attempt.net.rx, last.rx)
                                  + Difference(attempt.net.tx, last.tx)
            /\ owed' = owed + attempt.sent[attempt.iface] - last.carried[attempt.iface]
            /\ excused' = excused + IF attempt.iface = last.iface THEN 0 ELSE Total(last)
    /\ attempt' = None
    /\ UNCHANGED <<machine, configured, prevCPU, prevNet, faults>>

Lost ==
    /\ Fault /\ attempt.at = "report"
    /\ attempt' = None
    /\ UNCHANGED <<machine, configured, prevCPU, prevNet, center>>

AgentRestart ==
    /\ Fault
    /\ prevCPU' = None /\ prevNet' = None /\ attempt' = None
    /\ UNCHANGED <<machine, configured, center>>

\* Totals and windows are kept in memory only.
CenterRestart ==
    /\ Fault
    /\ last' = None /\ counted' = 0 /\ owed' = 0 /\ excused' = 0
    /\ UNCHANGED <<machine, agent>>

CNext ==
    \/ \E i \in Ifaces : Vanish(i) \/ Appear(i) \/ \E way \in {"rx", "tx"} : Carry(i, way)
    \/ \E busy, idle \in 0 .. MaxJiffies : CollectCPU(busy, idle)
    \/ CollectRest \/ CollectFails \/ CollectNet \/ CollectNetFails
    \/ Apply \/ Lost \/ AgentRestart \/ CenterRestart

CSpec == CInit /\ [][CNext]_cvars
-----------------------------------------------------------------------------
Counters == [rx : Nat, tx : Nat]
Share == [busy : Nat, of : Nat] \cup {None}
Reading == [at : {"prev", "last"}, rx : Nat, tx : Nat, iface : Ifaces, carried : [Ifaces -> Nat]]
Attempt ==
    [at : {"rest", "net"}, cpu : Share, spent : Nat]
    \cup [at : {"report"}, cpu : Share, spent : Nat, iface : Ifaces, net : Counters,
          moved : Nat, sent : [Ifaces -> Nat], carried : Int]

\* Every variable stays in its type; no rate and no difference is negative.
CTypeOK ==
    /\ DOMAIN dev \subseteq Ifaces /\ dev \in [DOMAIN dev -> Counters]
    /\ carried \in [Ifaces -> Nat] /\ fallen \in BOOLEAN
    /\ configured \in Ifaces \cup {AnyIface}
    /\ prevCPU \in [at : {"prev"}, total : Nat, idle : Nat, busy : Nat] \cup {None}
    /\ prevNet \in Reading \cup {None} /\ last \in Reading \cup {None}
    /\ attempt \in Attempt \cup {None}
    /\ {counted, owed, excused, faults} \subseteq Nat

\* A busy share that is shown is the time spent since the last attempt, the
\* failed ones included, though iowait, and with it all time, may shrink.
CpuHonest ==
    attempt # None /\ attempt.cpu # None /\ attempt.cpu.of > 0 =>
        attempt.cpu.busy = attempt.spent /\ attempt.spent <= attempt.cpu.of

\* No rate shows bytes that were not carried since the last reading, except
\* that a new leader shows at most what the old one had carried.
RateHonest == attempt.at = "report" => attempt.moved <= attempt.carried

\* The center counts no byte that the reported interface did not carry between
\* two reports, whatever interfaces come, go and take the lead; a change of the
\* lead counts at most once more what the old leader had carried.  Without one,
\* as with a configured interface, nothing is excused.
NoOvercount == counted <= owed + excused

\* And it misses none while no interface came back with new counters, except at
\* a change of the lead.
NoUndercount == ~fallen => owed <= counted + excused
==============================================================================
