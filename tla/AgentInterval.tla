---------------------------- MODULE AgentInterval ----------------------------
(* How a new collection interval reaches the agent's ticker                  *)
(* (internal/agent/agent.go, control.go).  The report loop and every         *)
(* /api/control/config handler write runtimeConfig.collectEvery under its    *)
(* lock and then, outside it, run notifyInterval: three selects on a channel *)
(* of capacity one.  Only the report loop receives, and a value it does not  *)
(* see as a change of collectEvery is never sent again.                      *)
EXTENDS Naturals, Sequences

CONSTANTS Handlers,   \* control requests being served at the same time
          Intervals   \* collection intervals, in seconds

ASSUME IntervalAssumption ==
    /\ Intervals \subseteq Nat \ {0} /\ Intervals # {}
    /\ "loop" \notin Handlers

VARIABLES every,   \* rc.collectEvery
          ticker,  \* the period the ticker really has
          ch,      \* intervalCh
          pc,      \* where each goroutine is
          next,    \* its nextEvery
          latest   \* history: the last change of collectEvery, and those it overlapped

vars == <<every, ticker, ch, pc, next, latest>>

Writers == {"loop"} \cup Handlers
Notifying == {"send", "drain", "resend"}

Init ==
    /\ every \in Intervals
    /\ ticker = every
    /\ ch = <<>>
    /\ pc = [w \in Writers |-> "idle"]
    /\ next = [w \in Writers |-> every]
    /\ latest = {every}

Goto(w, l) == pc' = [pc EXCEPT ![w] = l]
NobodyElse(w) == \A v \in Writers \ {w} : pc[v] \notin Notifying

-----------------------------------------------------------------------------
\* The lock section shared by the loop (agent.go:91-108) and handleConfig
\* (control.go:185-206); 0 stands for an interval that is absent or not positive.
SetEvery(w, d) ==
    LET nextEvery == IF d > 0 THEN d ELSE every
    IN  IF nextEvery # every
        THEN /\ every' = nextEvery
             /\ next' = [next EXCEPT ![w] = nextEvery]
             /\ latest' = {nextEvery} \cup IF NobodyElse(w) THEN {} ELSE latest
             /\ Goto(w, "send")
        ELSE /\ Goto(w, "idle")
             /\ UNCHANGED <<every, next, latest>>

\* Mutant of Send: the channel has no capacity.
SendAlways(w) ==
    /\ pc[w] = "send"
    /\ ch' = Append(ch, next[w])
    /\ Goto(w, "idle")
    /\ UNCHANGED <<every, ticker, next, latest>>

\* case ch <- d: return
Send(w) ==
    /\ pc[w] = "send"
    /\ IF ch = <<>> THEN ch' = <<next[w]>> /\ Goto(w, "idle")
                    ELSE Goto(w, "drain") /\ UNCHANGED ch
    /\ UNCHANGED <<every, ticker, next, latest>>

\* Mutant of Drain: the second select is missing.
DrainNothing(w) ==
    /\ pc[w] = "drain"
    /\ Goto(w, "resend")
    /\ UNCHANGED <<every, ticker, ch, next, latest>>

\* case <-ch: default:
Drain(w) ==
    /\ pc[w] = "drain"
    /\ ch' = <<>>
    /\ Goto(w, "resend")
    /\ UNCHANGED <<every, ticker, next, latest>>

\* Mutant of Resend: a plain blocking send in place of the third select.
ResendBlocking(w) ==
    /\ pc[w] = "resend"
    /\ ch = <<>>
    /\ ch' = <<next[w]>>
    /\ Goto(w, "idle")
    /\ UNCHANGED <<every, ticker, next, latest>>

\* case ch <- d: default:
Resend(w) ==
    /\ pc[w] = "resend"
    /\ ch' = IF ch = <<>> THEN <<next[w]>> ELSE ch
    /\ Goto(w, "idle")
    /\ UNCHANGED <<every, ticker, next, latest>>

\* Mutant of Receive: the value is taken and the ticker left alone.
ReceiveOnly ==
    /\ pc["loop"] = "idle" /\ ch # <<>>
    /\ ch' = <<>>
    /\ UNCHANGED <<every, ticker, pc, next, latest>>

\* The loop takes an interval off the channel; every value sent is positive.
Receive ==
    /\ pc["loop"] = "idle" /\ ch # <<>>
    /\ ticker' = Head(ch) /\ ch' = <<>>
    /\ UNCHANGED <<every, pc, next, latest>>

\* The ticker fires: collect and push.
Fire ==
    /\ pc["loop"] = "idle"
    /\ Goto("loop", "report")
    /\ UNCHANGED <<every, ticker, ch, next, latest>>

\* The push is answered, with or without an interval, or fails.
Answered(d) == pc["loop"] = "report" /\ SetEvery("loop", d) /\ UNCHANGED <<ticker, ch>>
PushFailed ==
    /\ pc["loop"] = "report"
    /\ Goto("loop", "idle")
    /\ UNCHANGED <<every, ticker, ch, next, latest>>

\* A control request reaches handleConfig.
HandleConfig(h, d) == pc[h] = "idle" /\ SetEvery(h, d) /\ UNCHANGED <<ticker, ch>>

NotifyStep(w) == Send(w) \/ Drain(w) \/ Resend(w)

Next ==
    \/ \E w \in Writers : Send(w) \/ Drain(w) \/ Resend(w)
    \/ Receive
    \/ Fire
    \/ \E d \in Intervals \cup {0} : Answered(d)
    \/ PushFailed
    \/ \E h \in Handlers, d \in Intervals \cup {0} : HandleConfig(h, d)

\* The loop keeps running: its push is cut off after 8 s, its select takes a
\* ready channel sooner or later (Go chooses among ready cases at random), and
\* a goroutine in notifyInterval is scheduled again.
Fairness ==
    /\ SF_vars(Receive)
    /\ WF_vars((\E d \in Intervals \cup {0} : Answered(d)) \/ PushFailed)
    /\ \A w \in Writers : WF_vars(NotifyStep(w))

Spec == Init /\ [][Next]_vars
FairSpec == Spec /\ Fairness

-----------------------------------------------------------------------------
\* Every variable stays in its type; the channel holds at most one interval.
TypeOK ==
    /\ every \in Intervals /\ ticker \in Intervals
    /\ ch \in {<<>>} \cup {<<d>> : d \in Intervals}
    /\ pc \in [Writers -> {"idle", "report"} \cup Notifying]
    /\ next \in [Writers -> Intervals]
    /\ latest \in SUBSET Intervals

Quiet == ch = <<>> /\ \A w \in Writers : pc[w] \notin Notifying

\* "Best-effort: keep only the latest interval" (agent.go:120): when nothing
\* is under way any more, the ticker has the latest interval.  Two changes that
\* overlap can break this; an agent without control handlers keeps it.
LatestIntervalKept == Quiet => ticker = every

\* When nothing is under way any more, the ticker has the last change or one
\* that overlapped it, never an older one, whatever was on the channel before:
\* of changes that overlap at least one gets through, and a change that no
\* other overlaps is not lost.
ChangeKept == Quiet => ticker \in latest

\* Whoever is under way carries one of these changes, and what can no longer
\* be drained is one of them, on the channel or in the ticker.
ChangeInv ==
    /\ every \in latest
    /\ \A w \in Writers : pc[w] \in Notifying => next[w] \in latest
    /\ \A w \in Writers : pc[w] = "resend" => ch = <<>> \/ Head(ch) \in latest
    /\ (\A w \in Writers : pc[w] \notin Notifying) =>
           IF ch = <<>> THEN ticker \in latest ELSE Head(ch) \in latest

\* The loop is the only receiver and a sender too, and still it never waits for
\* itself: it is always back for the next report.
LoopComesBack == []<>(pc["loop"] = "idle")

\* When the changes end, the last one, or one that overlapped it, becomes the
\* ticker's period for good.
ChangeArrives == <>[][every' = every]_vars => <>[](ticker \in latest)
=============================================================================
