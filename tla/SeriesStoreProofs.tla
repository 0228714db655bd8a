-------------------------- MODULE SeriesStoreProofs --------------------------
(* What holds of the history for every size of hour, day and queue, every    *)
(* set of retentions and every number of points, queries and cleanups.       *)
EXTENDS SeriesStore, FiniteSetTheorems, TLAPS

\* A point lies in the hour of its file.
LEMMA HourBounds ==
    \A t \in Nat : HourOf(t) \in Nat /\ Start(HourOf(t)) <= t /\ t < End(HourOf(t))
  BY SeriesAssumption DEF HourOf, Start, End

\* What the cleanup subtracts is a whole number of ticks.
LEMMA RetainedType == \A d \in Retentions : Retained(d) \in Int
  BY SeriesAssumption DEF Retained, Wrapped

\* A step that leaves a part's variables alone leaves the part true.
LEMMA SettingsKept ==
    ASSUME SettingsOK, UNCHANGED <<clock, retention, least>> PROVE SettingsOK'
  BY DEF SettingsOK
LEMMA QueueKept == ASSUME QueueOK, UNCHANGED queue PROVE QueueOK'
  BY DEF QueueOK
LEMMA FilesKept == ASSUME FilesOK, UNCHANGED files PROVE FilesOK'
  BY DEF FilesOK
LEMMA WriterKept == ASSUME WriterOK, UNCHANGED <<writer, files>> PROVE WriterOK'
  BY DEF WriterOK
LEMMA CleanerKept == ASSUME CleanerOK, UNCHANGED cleaner PROVE CleanerOK'
  BY DEF CleanerOK
LEMMA QueryKept == ASSUME QueryOK, UNCHANGED query PROVE QueryOK'
  BY DEF QueryOK
LEMMA CountersKept == ASSUME CountersOK, UNCHANGED <<written, made, changes, queries>> PROVE CountersOK'
  BY DEF CountersOK

\* Every variable of SeriesStore stays in its type, files, cleanup and query included.
THEOREM TypeCorrect == Spec => []TypeOK
<1>1. Init => TypeOK
  <2> SUFFICES ASSUME Init PROVE TypeOK
    OBVIOUS
  <2>1. SettingsOK
    BY RetainedType DEF Init, SettingsOK
  <2>2. QueueOK
    BY SeriesAssumption DEF Init, QueueOK
  <2>3. WriterOK /\ FilesOK /\ CleanerOK /\ QueryOK /\ CountersOK
    BY DEF Init, WriterOK, FilesOK, CleanerOK, QueryOK, CountersOK
  <2> QED
    BY <2>1, <2>2, <2>3 DEF TypeOK
<1>2. TypeOK /\ [Next]_vars => TypeOK'
  <2> SUFFICES ASSUME TypeOK, [Next]_vars PROVE TypeOK'
    OBVIOUS
  <2> USE DEF TypeOK
  <2>1. ASSUME NEW d \in 0..MaxDelay, d <= clock, Append1(clock - d) PROVE TypeOK'
    <3>1. clock - d \in Nat /\ made \in Nat /\ made + 1 \in Nat
      BY <2>1, SeriesAssumption DEF SettingsOK, CountersOK
    <3>2. [ts |-> clock - d, no |-> made] \in Point
      BY <3>1 DEF Point
    <3>3. QueueOK'
      BY <2>1, <3>2, SeriesAssumption DEF Append1, QueueOK
    <3>4. CountersOK'
      BY <2>1, <3>1 DEF Append1, CountersOK
    <3> QED
      BY <2>1, <3>3, <3>4, SettingsKept, WriterKept, FilesKept, CleanerKept, QueryKept DEF Append1
  <2>2. CASE Open
    <3> DEFINE p == Head(queue)
    <3>1. p \in Point /\ Tail(queue) \in Seq(Point) /\ Len(Tail(queue)) <= Capacity
      BY <2>2, SeriesAssumption DEF Open, QueueOK
    <3>2. HourOf(p.ts) \in Nat
      BY <3>1, HourBounds DEF Point
    <3>3. QueueOK'
      BY <2>2, <3>1 DEF Open, QueueOK
    <3>4. FilesOK'
      BY <2>2, <3>2 DEF Open, FilesOK
    <3>5. WriterOK'
      BY <2>2, <3>1 DEF Open, WriterOK
    <3> QED
      BY <2>2, <3>3, <3>4, <3>5, SettingsKept, CleanerKept, QueryKept, CountersKept DEF Open, counters
  <2>3. CASE Write
    <3>1. writer.point \in Point /\ writer.linked \in BOOLEAN
      BY <2>3 DEF Write, WriterOK
    <3>2. FilesOK'
      BY <2>3, <3>1 DEF Write, FilesOK
    <3>3. CountersOK' /\ WriterOK'
      BY <2>3, <3>1 DEF Write, CountersOK, WriterOK
    <3> QED
      BY <2>3, <3>2, <3>3, SettingsKept, QueueKept, CleanerKept, QueryKept DEF Write
  <2>4. ASSUME NEW d \in Retentions, SetRetention(d) PROVE TypeOK'
    <3>1. SettingsOK'
      BY <2>4, RetainedType DEF SetRetention, SettingsOK
    <3>2. CountersOK'
      BY <2>4 DEF SetRetention, CountersOK
    <3> QED
      BY <2>4, <3>1, <3>2, QueueKept, WriterKept, FilesKept, CleanerKept, QueryKept DEF SetRetention
  <2>5. CASE CleanupStart
    <3>1. Retained(retention) \in Int /\ clock \in Int
      BY RetainedType DEF SettingsOK
    <3>2. CleanerOK'
      BY <2>5, <3>1 DEF CleanupStart, CleanerOK, FilesOK
    <3> QED
      BY <2>5, <3>2, SettingsKept, QueueKept, WriterKept, FilesKept, QueryKept, CountersKept
      DEF CleanupStart, counters
  <2>6. CASE CleanupNext
    <3>1. CleanerOK'
      BY <2>6 DEF CleanupNext, CleanerOK
    <3>2. FilesOK'
      <4>1. CASE files' = files
        BY <4>1, FilesKept
      <4>2. ASSUME NEW h \in cleaner.left, files' = [g \in DOMAIN files \ {h} |-> files[g]]
            PROVE  FilesOK'
        <5>1. DOMAIN files' \subseteq DOMAIN files /\ \A g \in DOMAIN files' : files'[g] = files[g]
          BY <4>2
        <5> QED
          BY <5>1 DEF FilesOK
      <4> QED
        BY <2>6, <4>1, <4>2 DEF CleanupNext
    <3>3. WriterOK'
      <4>1. CASE UNCHANGED <<writer, files>>
        BY <4>1, WriterKept
      <4>2. ASSUME NEW h \in cleaner.left,
                   files' = [g \in DOMAIN files \ {h} |-> files[g]],
                   writer' = IF writer # None /\ HourOf(writer.point.ts) = h
                             THEN [writer EXCEPT !.linked = FALSE] ELSE writer
            PROVE  WriterOK'
        <5>1. CASE writer # None /\ HourOf(writer.point.ts) = h
          BY <4>2, <5>1 DEF WriterOK
        <5>2. CASE writer # None /\ HourOf(writer.point.ts) # h
          <6>1. writer' = writer /\ DOMAIN files' = DOMAIN files \ {h}
            BY <4>2, <5>2
          <6> QED
            BY <5>2, <6>1 DEF WriterOK
        <5>3. CASE writer = None
          BY <4>2, <5>3 DEF WriterOK
        <5> QED
          BY <5>1, <5>2, <5>3
      <4> QED
        BY <2>6, <4>1, <4>2 DEF CleanupNext
    <3> QED
      BY <2>6, <3>1, <3>2, <3>3, SettingsKept, QueueKept, QueryKept, CountersKept
      DEF CleanupNext, counters
  <2>7. ASSUME NEW d \in Retentions, QueryStart(d * Day) PROVE TypeOK'
    <3>1. d * Day \in Int /\ clock \in Nat
      BY SeriesAssumption DEF SettingsOK
    <3>2. Stored \subseteq Point
      BY DEF Stored, FilesOK
    <3>3. QueryOK'
      BY <2>7, <3>1, <3>2 DEF QueryStart, QueryOK, FilesOK
    <3>4. CountersOK'
      BY <2>7 DEF QueryStart, CountersOK
    <3> QED
      BY <2>7, <3>3, <3>4, SettingsKept, QueueKept, WriterKept, FilesKept, CleanerKept DEF QueryStart
  <2>8. CASE QueryNext
    <3>1. PICK h \in query.left :
            query' = [query EXCEPT !.left = @ \ {h},
                         !.got = @ \cup IF h \in DOMAIN files /\ ~Skipped(h, query.from, query.to)
                                        THEN {p \in files[h] : Within(p, query.from, query.to)}
                                        ELSE {}]
      BY <2>8 DEF QueryNext
    <3>2. \A p \in query'.got : p \in Point
      BY <2>8, <3>1 DEF QueryNext, QueryOK, FilesOK
    <3>3. QueryOK'
      BY <2>8, <3>1, <3>2 DEF QueryNext, QueryOK
    <3> QED
      BY <2>8, <3>3, SettingsKept, QueueKept, WriterKept, FilesKept, CleanerKept, CountersKept
      DEF QueryNext, counters
  <2>9. CASE QueryDone
    <3>1. QueryOK'
      BY <2>9 DEF QueryDone, QueryOK
    <3> QED
      BY <2>9, <3>1, SettingsKept, QueueKept, WriterKept, FilesKept, CleanerKept, CountersKept
      DEF QueryDone, counters
  <2>10. CASE Restart
    <3>1. QueueOK' /\ WriterOK' /\ CleanerOK' /\ QueryOK' /\ CountersOK'
      BY <2>10, SeriesAssumption DEF Restart, QueueOK, WriterOK, CleanerOK, QueryOK, CountersOK
    <3> QED
      BY <2>10, <3>1, SettingsKept, FilesKept DEF Restart
  <2>11. CASE Tick
    <3>1. SettingsOK'
      BY <2>11 DEF Tick, SettingsOK, counters
    <3> QED
      BY <2>11, <3>1, QueueKept, WriterKept, FilesKept, CleanerKept, QueryKept, CountersKept
      DEF Tick, counters
  <2>12. CASE UNCHANGED vars
    BY <2>12, SettingsKept, QueueKept, WriterKept, FilesKept, CleanerKept, QueryKept, CountersKept
    DEF vars, counters
  <2> QED
    BY <2>1, <2>2, <2>3, <2>4, <2>5, <2>6, <2>7, <2>8, <2>9, <2>10, <2>11, <2>12 DEF Next
<1> QED
  BY <1>1, <1>2, PTL DEF Spec

-----------------------------------------------------------------------------
\* The cleanup under way removes nothing younger than the shortest time kept.
CleanerHonest == cleaner # None => cleaner.cutoff <= clock - least

\* The writer holds a file that was removed only for a point that has expired.
UnlinkedExpired == writer # None /\ ~writer.linked => Expired(writer.point)

\* The files hold nothing that was not written.
StoredWritten == Stored \subseteq written

\* A point of the query's range is found, has expired, or its file is ahead.
QueryAhead ==
    query # None =>
        \A p \in query.there :
            /\ p \in written /\ Within(p, query.from, query.to)
            /\ p \in query.got \/ Expired(p) \/ HourOf(p.ts) \in query.left

HistoryInv ==
    CleanerHonest /\ UnlinkedExpired /\ StoredWritten /\ KeptUntilRetention /\ QueryAhead

\* The horizon, clock - least, never goes back: what has expired stays expired.
LEMMA HorizonMoves ==
    ASSUME TypeOK, [Next]_vars
    PROVE  clock - least \in Int /\ (clock - least)' \in Int /\ clock - least <= (clock - least)'
<1>1. clock \in Nat /\ least \in Int
  BY DEF TypeOK, SettingsOK
<1>2. CASE clock' = clock /\ least' = least
  BY <1>1, <1>2
<1>3. ASSUME NEW d \in Retentions, SetRetention(d) PROVE clock' = clock /\ least' \in Int /\ least' <= least
  BY <1>1, <1>3, RetainedType DEF SetRetention
<1>4. CASE Tick
  <2>1. clock' = clock + 1 /\ least' = least
    BY <1>4 DEF Tick, counters
  <2> QED
    BY <1>1, <2>1
<1>5. CASE ~Tick /\ \A d \in Retentions : ~SetRetention(d)
  <2>1. clock' = clock /\ least' = least
    BY <1>5 DEF Next, Append1, Open, Write, CleanupStart, CleanupNext, QueryStart, QueryNext,
                QueryDone, Restart, vars, counters
  <2> QED
    BY <2>1, <1>2
<1> QED
  BY <1>1, <1>3, <1>4, <1>5

LEMMA ExpiredStays ==
    ASSUME TypeOK, [Next]_vars, NEW p \in Point, Expired(p) PROVE Expired(p)'
<1>1. p.ts \in Nat
  BY DEF Point
<1> QED
  BY <1>1, HorizonMoves DEF Expired

\* A stored point is in the file of its hour.
LEMMA StoredAt ==
    ASSUME TypeOK, NEW p \in Stored
    PROVE  p \in Point /\ HourOf(p.ts) \in DOMAIN files /\ p \in files[HourOf(p.ts)]
  BY DEF TypeOK, FilesOK, Stored

\* A step removes only what has expired and adds only what it writes.
LEMMA StoredStep ==
    ASSUME TypeOK, CleanerHonest, [Next]_vars
    PROVE  /\ \A p \in Stored : p \in Stored' \/ Expired(p)
           /\ \A p \in Stored' : p \in Stored \/ p \in written'
<1>1. CASE files' = files
  BY <1>1 DEF Stored
<1>2. CASE Open
  <2>1. DOMAIN files \subseteq DOMAIN files' /\ \A h \in DOMAIN files : files'[h] = files[h]
    BY <1>2 DEF Open
  <2>2. \A h \in DOMAIN files' : h \in DOMAIN files \/ files'[h] = {}
    BY <1>2 DEF Open
  <2> QED
    BY <2>1, <2>2 DEF Stored
<1>3. CASE Write
  <2> DEFINE w == writer.point
  <2>1. DOMAIN files' = DOMAIN files /\ w \in written'
    BY <1>3 DEF Write
  <2>2. \A h \in DOMAIN files : files[h] \subseteq files'[h] /\ files'[h] \subseteq files[h] \cup {w}
    BY <1>3 DEF Write
  <2> QED
    BY <2>1, <2>2 DEF Stored
<1>4. CASE CleanupNext
  <2>1. ASSUME NEW h \in cleaner.left, Past(h, cleaner.cutoff),
               files' = [g \in DOMAIN files \ {h} |-> files[g]]
        PROVE  /\ \A p \in Stored : p \in Stored' \/ Expired(p)
               /\ \A p \in Stored' : p \in Stored
    <3>1. ASSUME NEW p \in Stored, HourOf(p.ts) # h PROVE p \in Stored'
      BY <2>1, <3>1, StoredAt DEF Stored
    <3>2. ASSUME NEW p \in Stored, HourOf(p.ts) = h PROVE Expired(p)
      <4>1. p.ts \in Nat /\ p.ts < End(h)
        BY <3>2, StoredAt, HourBounds DEF Point
      <4>2. cleaner.cutoff \in Int /\ cleaner.cutoff <= clock - least /\ h \in Nat
        BY <1>4, <2>1 DEF CleanupNext, CleanerHonest, TypeOK, CleanerOK
      <4>3. End(h) \in Int /\ clock - least \in Int
        BY <4>2, SeriesAssumption, HorizonMoves DEF End
      <4> QED
        BY <2>1, <4>1, <4>2, <4>3 DEF Past, Expired
    <3>3. \A p \in Stored' : p \in Stored
      BY <2>1 DEF Stored
    <3> QED
      BY <3>1, <3>2, <3>3
  <2> QED
    BY <1>1, <1>4, <2>1 DEF CleanupNext
<1> QED
  BY <1>1, <1>2, <1>3, <1>4 DEF Next, Append1, SetRetention, CleanupStart, QueryStart, QueryNext,
     QueryDone, Restart, Tick, vars

LEMMA HistoryInit == Init => HistoryInv
  BY DEF Init, HistoryInv, CleanerHonest, UnlinkedExpired, StoredWritten, KeptUntilRetention,
         QueryAhead, Stored

LEMMA HistoryStep == TypeOK /\ TypeOK' /\ HistoryInv /\ [Next]_vars => HistoryInv'
<1> SUFFICES ASSUME TypeOK, TypeOK', HistoryInv, [Next]_vars PROVE HistoryInv'
  OBVIOUS
<1> USE DEF HistoryInv
<1>1. CleanerHonest'
  <2>1. CASE cleaner' = cleaner
    <3>1. cleaner # None => cleaner.cutoff \in Int
      BY DEF TypeOK, CleanerOK
    <3> QED
      BY <2>1, <3>1, HorizonMoves DEF CleanerHonest
  <2>2. CASE CleanupStart
    <3>1. cleaner'.cutoff = clock - Retained(retention) /\ clock' = clock /\ least' = least
      BY <2>2 DEF CleanupStart, counters
    <3>2. clock \in Int /\ least \in Int /\ Retained(retention) \in Int /\ least <= Retained(retention)
      BY RetainedType DEF TypeOK, SettingsOK
    <3> QED
      BY <3>1, <3>2 DEF CleanerHonest
  <2>3. CASE CleanupNext
    <3>1. cleaner' # None => cleaner # None /\ cleaner'.cutoff = cleaner.cutoff
      BY <2>3 DEF CleanupNext, TypeOK, CleanerOK
    <3>2. cleaner # None => cleaner.cutoff \in Int
      BY DEF TypeOK, CleanerOK
    <3> QED
      BY <3>1, <3>2, HorizonMoves DEF CleanerHonest
  <2>4. CASE cleaner' = None
    BY <2>4 DEF CleanerHonest
  <2> QED
    BY <2>1, <2>2, <2>3, <2>4 DEF Next, Append1, Open, Write, SetRetention, QueryStart, QueryNext,
       QueryDone, Restart, Tick, vars
<1>2. UnlinkedExpired'
  <2>1. CASE writer' = writer
    <3>1. writer # None => writer.point \in Point
      BY DEF TypeOK, WriterOK
    <3> QED
      BY <2>1, <3>1, ExpiredStays DEF UnlinkedExpired
  <2>2. CASE writer' = None
    BY <2>2 DEF UnlinkedExpired
  <2>3. CASE Open
    BY <2>3 DEF Open, UnlinkedExpired
  <2>4. CASE CleanupNext /\ writer' # writer
    <3>1. PICK h \in cleaner.left :
            /\ cleaner # None /\ Past(h, cleaner.cutoff)
            /\ writer # None /\ HourOf(writer.point.ts) = h
            /\ writer' = [writer EXCEPT !.linked = FALSE]
      BY <2>4 DEF CleanupNext
    <3>2. writer'.point = writer.point /\ writer.point \in Point /\ h \in Nat
      BY <3>1 DEF TypeOK, WriterOK, CleanerOK
    <3>3. writer.point.ts \in Nat /\ writer.point.ts < End(h)
      BY <3>1, <3>2, HourBounds DEF Point
    <3>4. cleaner.cutoff \in Int /\ cleaner.cutoff <= clock - least /\ End(h) \in Int
      BY <3>1, <3>2, SeriesAssumption DEF TypeOK, CleanerOK, CleanerHonest, End
    <3>5. Expired(writer.point)
      BY <3>1, <3>3, <3>4, HorizonMoves DEF Past, Expired
    <3> QED
      BY <3>2, <3>5, ExpiredStays DEF UnlinkedExpired
  <2> QED
    BY <2>1, <2>2, <2>3, <2>4 DEF Next, Append1, Write, SetRetention, CleanupStart, QueryStart,
       QueryNext, QueryDone, Restart, Tick, vars
<1>3. written \subseteq written' /\ \A p \in written' : p \in written \/ p \in Stored' \/ Expired(p)
  <2>1. CASE written' = written
    BY <2>1
  <2>2. CASE Write
    <3> DEFINE w == writer.point
    <3>1. written' = written \cup {w}
      BY <2>2 DEF Write
    <3>2. CASE writer.linked
      <4>1. HourOf(w.ts) \in DOMAIN files /\ files' = [files EXCEPT ![HourOf(w.ts)] = @ \cup {w}]
        BY <2>2, <3>2 DEF Write, TypeOK, WriterOK
      <4>2. w \in Stored'
        BY <4>1 DEF Stored
      <4> QED
        BY <3>1, <4>2
    <3>3. CASE ~writer.linked
      BY <2>2, <3>1, <3>3 DEF Write, UnlinkedExpired
    <3> QED
      BY <3>2, <3>3
  <2> QED
    BY <2>1, <2>2 DEF Next, Append1, Open, SetRetention, CleanupStart, CleanupNext, QueryStart,
       QueryNext, QueryDone, Restart, Tick, vars, counters
<1>4. StoredWritten'
  BY <1>3, StoredStep DEF StoredWritten
<1>5. KeptUntilRetention'
  <2> SUFFICES ASSUME NEW p \in written' PROVE p \in Stored' \/ Expired(p)'
    BY DEF KeptUntilRetention
  <2>1. p \in Point
    BY DEF TypeOK, CountersOK
  <2>2. p \in Stored' \/ Expired(p)
    BY <1>3, StoredStep DEF KeptUntilRetention
  <2> QED
    BY <2>1, <2>2, ExpiredStays
<1>6. QueryAhead'
  <2>1. CASE query' = query
    <3> SUFFICES ASSUME query # None, NEW p \in query.there
                 PROVE  /\ p \in written' /\ Within(p, query.from, query.to)
                        /\ p \in query.got \/ Expired(p)' \/ HourOf(p.ts) \in query.left
      BY <2>1 DEF QueryAhead, Within
    <3>1. p \in Point
      BY DEF TypeOK, QueryOK
    <3> QED
      BY <1>3, <3>1, ExpiredStays DEF QueryAhead
  <2>2. CASE query' = None
    BY <2>2 DEF QueryAhead
  <2>3. ASSUME NEW d \in Retentions, QueryStart(d * Day) PROVE QueryAhead'
    <3>1. /\ query'.left = DOMAIN files /\ written' = written
          /\ query'.there = {p \in Stored : Within(p, query'.from, query'.to)}
      BY <2>3 DEF QueryStart
    <3>2. \A p \in query'.there : p \in written /\ Within(p, query'.from, query'.to)
      BY <3>1 DEF StoredWritten
    <3>3. \A p \in query'.there : HourOf(p.ts) \in query'.left
      BY <3>1, StoredAt
    <3> QED
      BY <3>1, <3>2, <3>3 DEF QueryAhead, Within
  <2>4. CASE QueryNext
    <3>1. PICK h \in query.left :
            query' = [query EXCEPT !.left = @ \ {h},
                         !.got = @ \cup IF h \in DOMAIN files /\ ~Skipped(h, query.from, query.to)
                                        THEN {p \in files[h] : Within(p, query.from, query.to)}
                                        ELSE {}]
      BY <2>4 DEF QueryNext
    <3>2. /\ query # None /\ query'.there = query.there /\ query'.from = query.from
          /\ query'.to = query.to /\ query'.left = query.left \ {h}
          /\ query'.got = query.got \cup IF h \in DOMAIN files /\ ~Skipped(h, query.from, query.to)
                                        THEN {p \in files[h] : Within(p, query.from, query.to)}
                                        ELSE {}
      BY <2>4, <3>1 DEF QueryNext, TypeOK, QueryOK
    <3> SUFFICES ASSUME NEW p \in query.there
                 PROVE  /\ p \in written' /\ Within(p, query.from, query.to)
                        /\ p \in query'.got \/ Expired(p)' \/ HourOf(p.ts) \in query'.left
      BY <3>2 DEF QueryAhead, Within
    <3>3. /\ p \in Point /\ p \in written /\ Within(p, query.from, query.to)
          /\ p \in query.got \/ Expired(p) \/ HourOf(p.ts) \in query.left
      BY <3>2 DEF TypeOK, QueryOK, QueryAhead
    <3>4. CASE HourOf(p.ts) = h /\ p \in Stored
      <4>1. h \in DOMAIN files /\ p \in files[h]
        BY <3>4, StoredAt
      <4>2. p.ts \in Nat /\ Start(h) <= p.ts /\ p.ts < End(h) /\ h \in Nat
        BY <3>3, <3>4, HourBounds DEF Point
      <4>3. query.from \in Int /\ query.to \in Int /\ Start(h) \in Int /\ End(h) \in Int
        BY <3>2, <4>2, SeriesAssumption DEF TypeOK, QueryOK, Start, End
      <4>4. ~Skipped(h, query.from, query.to)
        BY <3>3, <4>2, <4>3 DEF Skipped, Within
      <4> QED
        BY <1>3, <3>2, <3>3, <4>1, <4>4
    <3>5. CASE HourOf(p.ts) = h /\ p \notin Stored
      BY <1>3, <3>3, <3>5, ExpiredStays DEF KeptUntilRetention
    <3>6. CASE HourOf(p.ts) # h
      BY <1>3, <3>2, <3>3, <3>6, ExpiredStays
    <3> QED
      BY <3>4, <3>5, <3>6
  <2> QED
    BY <2>1, <2>2, <2>3, <2>4 DEF Next, Append1, Open, Write, SetRetention, CleanupStart,
       CleanupNext, QueryDone, Restart, Tick, vars
<1> QED
  BY <1>1, <1>2, <1>4, <1>5, <1>6

\* What was written stays until it is older than the shortest retention set so
\* far: HourFiles removed by cleanupOnce, the writer's open file and changes of
\* the retention in any order.
THEOREM PointsAreKept == Spec => []KeptUntilRetention
<1>1. TypeOK /\ TypeOK' /\ HistoryInv /\ [Next]_vars => HistoryInv'
  BY HistoryStep
<1>2. HistoryInv => KeptUntilRetention
  BY DEF HistoryInv
<1> QED
  BY <1>1, <1>2, HistoryInit, TypeCorrect, PTL DEF Spec

\* A query that read every file it listed has found every point of its range,
\* but for those that expired: Query beside the writer and the cleanup.
THEOREM QueriesAreComplete == Spec => []QueryComplete
<1>1. TypeOK /\ TypeOK' /\ HistoryInv /\ [Next]_vars => HistoryInv'
  BY HistoryStep
<1>2. HistoryInv => QueryComplete
  BY DEF HistoryInv, QueryAhead, QueryComplete
<1> QED
  BY <1>1, <1>2, HistoryInit, TypeCorrect, PTL DEF Spec

-----------------------------------------------------------------------------
\* Division by a positive number never decreases, and keeps the sign.
LEMMA DivisionMonotone ==
    ASSUME NEW m \in Nat, NEW n \in Nat, NEW c \in Nat \ {0}, m <= n
    PROVE  m \div c \in Nat /\ n \div c \in Nat /\ m \div c <= n \div c
<1> DEFINE q == m \div c
           r == n \div c
<1>1. q \in Nat /\ m = c * q + (m % c) /\ m % c \in 0 .. c - 1
  OBVIOUS
<1>2. r \in Nat /\ n = c * r + (n % c) /\ n % c \in 0 .. c - 1
  OBVIOUS
<1>3. ASSUME q > r PROVE FALSE
  <2>1. q - r - 1 \in Nat
    BY <1>1, <1>2, <1>3
  <2>2. c * (q - r - 1) >= 0
    BY <2>1
  <2>3. c * (q - r - 1) = c * q - c * r - c
    BY <1>1, <1>2
  <2> HIDE DEF q, r
  <2> QED
    BY <1>1, <1>2, <2>2, <2>3
<1> QED
  BY <1>1, <1>2, <1>3

\* The bucket of a time is one of those there are, and a later time is in no
\* earlier bucket.
LEMMA BucketMonotone ==
    ASSUME NEW from \in Int, NEW to \in Int, from < to,
           NEW s \in from .. to, NEW t \in from .. to, s <= t
    PROVE  /\ Bucket(s, from, to, MaxShown) \in 0 .. MaxShown - 1
           /\ Bucket(t, from, to, MaxShown) \in 0 .. MaxShown - 1
           /\ Bucket(s, from, to, MaxShown) <= Bucket(t, from, to, MaxShown)
<1> DEFINE m == (s - from) * MaxShown
           n == (t - from) * MaxShown
           c == to - from
<1>1. MaxShown \in Nat /\ MaxShown > 0
  BY SeriesAssumption
<1>2. m \in Nat /\ n \in Nat /\ m <= n /\ c \in Nat \ {0}
  <2>1. s - from \in Nat /\ t - s \in Nat /\ c \in Nat \ {0}
    OBVIOUS
  <2>2. (t - s) * MaxShown \in Nat /\ m \in Nat
    BY <1>1, <2>1
  <2>3. n = m + (t - s) * MaxShown
    BY <1>1
  <2> HIDE DEF m, n
  <2> QED
    BY <2>1, <2>2, <2>3
<1> HIDE DEF m, n, c
<1>3. m \div c \in Nat /\ n \div c \in Nat /\ m \div c <= n \div c
  BY <1>2, DivisionMonotone
<1> QED
  BY <1>1, <1>3 DEF Bucket, m, n, c

\* What downsampleBuckets makes of any finite set of points of a range.
LEMMA DownsampledFits ==
    ASSUME NEW from \in Int, NEW to \in Int, from < to,
           NEW S, IsFiniteSet(S), \A p \in S : p.ts \in from .. to
    PROVE  LET shown == Downsampled(S, from, to)
           IN  /\ Cardinality(shown) <= MaxShown
               /\ UNION shown = S
               /\ \A A, B \in shown : A # B =>
                     /\ A \cap B = {}
                     /\ \/ \A p \in A, q \in B : p.ts <= q.ts
                        \/ \A p \in A, q \in B : q.ts <= p.ts
<1> DEFINE shown == Downsampled(S, from, to)
<1>1. MaxShown \in Nat /\ MaxShown > 0 /\ ~(MaxShown < MinBuckets) /\ Cardinality(S) \in Nat
  BY SeriesAssumption, FS_CardinalityType
<1>2. CASE Cardinality(S) <= MaxShown
  <2>1. shown = {{p} : p \in S}
    BY <1>2 DEF Downsampled
  <2> DEFINE single == [p \in S |-> {p}]
  <2>2. single \in Surjection(S, shown)
    BY <2>1 DEF Surjection
  <2> HIDE DEF shown, single
  <2>3. IsFiniteSet(shown) /\ Cardinality(shown) <= Cardinality(S)
    BY <2>2, FS_Surjection
  <2>4. Cardinality(shown) <= MaxShown
    BY <1>1, <1>2, <2>3, FS_CardinalityType
  <2>5. UNION shown = S
    BY <2>1
  <2>6. ASSUME NEW A \in shown, NEW B \in shown, A # B
        PROVE  /\ A \cap B = {}
               /\ \/ \A p \in A, q \in B : p.ts <= q.ts
                  \/ \A p \in A, q \in B : q.ts <= p.ts
    <3>1. PICK a \in S, b \in S : A = {a} /\ B = {b}
      BY <2>1
    <3>2. a.ts \in Int /\ b.ts \in Int
      OBVIOUS
    <3> QED
      BY <2>6, <3>1, <3>2
  <2> QED
    BY <2>4, <2>5, <2>6 DEF shown
<1>3. CASE Cardinality(S) > MaxShown
  <2> DEFINE buckets == IF MaxShown < MinBuckets THEN MinBuckets ELSE MaxShown
             idx(p) == Bucket(p.ts, from, to, buckets)
             acc(i) == {p \in S : idx(p) = i}
             filled == {idx(p) : p \in S}
  <2>1. shown = {acc(i) : i \in Kept(filled)}
    <3>1. ~(Cardinality(S) <= MaxShown)
      BY <1>1, <1>3
    <3> QED
      BY <3>1 DEF Downsampled
  <2> buckets = MaxShown
    BY <1>1
  <2> HIDE DEF buckets
  <2>2. \A p \in S : idx(p) \in 0 .. MaxShown - 1
    BY BucketMonotone
  <2>3. \A p, q \in S : p.ts <= q.ts => idx(p) <= idx(q)
    BY BucketMonotone
  <2> HIDE DEF idx, shown
  <2>4. filled \subseteq 0 .. MaxShown - 1
    BY <2>2
  <2>5. IsFiniteSet(filled) /\ Cardinality(filled) <= MaxShown
    <3>1. IsFiniteSet(0 .. MaxShown - 1) /\ Cardinality(0 .. MaxShown - 1) = MaxShown
      <4>1. 0 \in Int /\ MaxShown - 1 \in Int /\ ~(0 > MaxShown - 1)
        BY <1>1
      <4>2. IsFiniteSet(0 .. MaxShown - 1) /\ Cardinality(0 .. MaxShown - 1) = MaxShown - 1 - 0 + 1
        BY <4>1, FS_Interval
      <4> QED
        BY <1>1, <4>2
    <3> HIDE DEF filled
    <3> QED
      BY <2>4, <3>1, FS_Subset
  <2>6. Kept(filled) = filled
    <3> SUFFICES ASSUME NEW i \in filled
                 PROVE  Cardinality({j \in filled : j > i}) < MaxShown
      BY DEF Kept
    <3> DEFINE above == {j \in filled : j > i}
    <3> HIDE DEF filled
    <3>1. above \subseteq 1 .. MaxShown - 1
      <4>1. \A k \in filled : k \in 0 .. MaxShown - 1
        BY <2>4
      <4>2. i \in 0 .. MaxShown - 1
        BY <4>1
      <4>3. \A j \in filled : j > i => j \in 1 .. MaxShown - 1
        BY <1>1, <4>1, <4>2
      <4> QED
        BY <4>3
    <3>2. IsFiniteSet(1 .. MaxShown - 1) /\ Cardinality(1 .. MaxShown - 1) = MaxShown - 1
      <4>1. 1 \in Int /\ MaxShown - 1 \in Int
        BY <1>1
      <4>2. /\ IsFiniteSet(1 .. MaxShown - 1)
            /\ Cardinality(1 .. MaxShown - 1) = IF 1 > MaxShown - 1 THEN 0 ELSE MaxShown - 1 - 1 + 1
        BY <4>1, FS_Interval
      <4> QED
        BY <1>1, <4>2
    <3> HIDE DEF above
    <3>3. IsFiniteSet(above) /\ Cardinality(above) <= MaxShown - 1
      BY <3>1, <3>2, FS_Subset
    <3>4. Cardinality(above) \in Nat
      BY <3>3, FS_CardinalityType
    <3> QED
      BY <1>1, <3>3, <3>4 DEF above
  <2> DEFINE bucket == [i \in filled |-> acc(i)]
  <2>7. bucket \in Surjection(filled, shown)
    BY <2>1, <2>6 DEF Surjection
  <2>8. Cardinality(shown) <= MaxShown
    <3> HIDE DEF bucket, filled
    <3>1. IsFiniteSet(shown) /\ Cardinality(shown) <= Cardinality(filled)
      BY <2>5, <2>7, FS_Surjection
    <3>2. Cardinality(shown) \in Nat /\ Cardinality(filled) \in Nat
      BY <2>5, <3>1, FS_CardinalityType
    <3> QED
      BY <1>1, <2>5, <3>1, <3>2
  <2>9. UNION shown = S
    <3>1. shown = {acc(i) : i \in filled}
      BY <2>1, <2>6
    <3>2. \A p \in S : idx(p) \in filled /\ p \in acc(idx(p))
      OBVIOUS
    <3> HIDE DEF filled
    <3> QED
      BY <3>1, <3>2
  <2>10. ASSUME NEW A \in shown, NEW B \in shown, A # B
         PROVE  /\ A \cap B = {}
                /\ \/ \A p \in A, q \in B : p.ts <= q.ts
                   \/ \A p \in A, q \in B : q.ts <= p.ts
    <3>1. PICK i \in filled, j \in filled : A = acc(i) /\ B = acc(j)
      BY <2>1, <2>6
    <3>2. i # j /\ i \in Int /\ j \in Int
      BY <2>4, <2>10, <3>1
    <3>3. A \cap B = {}
      BY <3>1, <3>2
    <3>4. ASSUME i < j, NEW p \in A, NEW q \in B PROVE p.ts <= q.ts
      <4>1. p \in S /\ q \in S /\ idx(p) = i /\ idx(q) = j
        BY <3>1, <3>4
      <4>2. p.ts \in Int /\ q.ts \in Int
        BY <4>1
      <4> QED
        BY <2>3, <3>2, <3>4, <4>1, <4>2
    <3>5. ASSUME j < i, NEW p \in A, NEW q \in B PROVE q.ts <= p.ts
      <4>1. p \in S /\ q \in S /\ idx(p) = i /\ idx(q) = j
        BY <3>1, <3>5
      <4>2. p.ts \in Int /\ q.ts \in Int
        BY <4>1
      <4> QED
        BY <2>3, <3>2, <3>5, <4>1, <4>2
    <3> QED
      BY <3>2, <3>3, <3>4, <3>5
  <2> QED
    BY <2>8, <2>9, <2>10 DEF shown
<1> QED
  BY <1>1, <1>2, <1>3

\* A query asks for a stretch of time, and finds written points within it, of
\* which there are finitely many.
FoundInv ==
    /\ IsFiniteSet(written)
    /\ query # None =>
           /\ query.from < query.to /\ query.got \subseteq written
           /\ \A p \in query.got : Within(p, query.from, query.to)

LEMMA FoundStep == TypeOK /\ HistoryInv /\ FoundInv /\ [Next]_vars => FoundInv'
<1> SUFFICES ASSUME TypeOK, HistoryInv, FoundInv, [Next]_vars PROVE FoundInv'
  OBVIOUS
<1> USE DEF FoundInv
<1>1. IsFiniteSet(written') /\ written \subseteq written'
  <2>1. CASE Write
    <3>1. written' = written \cup {writer.point}
      BY <2>1 DEF Write
    <3> QED
      BY <3>1, FS_AddElement
  <2>2. CASE ~Write
    BY <2>2 DEF Next, Append1, Open, SetRetention, CleanupStart, CleanupNext, QueryStart, QueryNext,
                QueryDone, Restart, Tick, vars, counters
  <2> QED
    BY <2>1, <2>2
<1>2. CASE query' = query
  BY <1>1, <1>2 DEF Within
<1>3. CASE query' = None
  BY <1>1, <1>3
<1>4. ASSUME NEW d \in Retentions, QueryStart(d * Day) PROVE FoundInv'
  <2>1. query'.from = clock - d * Day /\ query'.to = clock /\ query'.got = {}
    BY <1>4 DEF QueryStart
  <2>2. clock \in Nat /\ d \in Nat \ {0} /\ Day \in Nat \ {0}
    BY SeriesAssumption DEF TypeOK, SettingsOK
  <2>3. d * Day > 0 /\ d * Day \in Nat
    BY <2>2
  <2>4. clock - d * Day < clock
    BY <2>2, <2>3
  <2> QED
    BY <1>1, <2>1, <2>4
<1>5. CASE QueryNext
  <2>1. PICK h \in query.left :
          query' = [query EXCEPT !.left = @ \ {h},
                       !.got = @ \cup IF h \in DOMAIN files /\ ~Skipped(h, query.from, query.to)
                                      THEN {p \in files[h] : Within(p, query.from, query.to)}
                                      ELSE {}]
    BY <1>5 DEF QueryNext
  <2>2. /\ query # None /\ query'.from = query.from /\ query'.to = query.to
        /\ \A p \in query'.got : \/ p \in query.got
                                 \/ p \in Stored /\ Within(p, query.from, query.to)
    BY <1>5, <2>1 DEF QueryNext, TypeOK, QueryOK, Stored
  <2> QED
    BY <1>1, <2>2 DEF HistoryInv, StoredWritten, Within
<1> QED
  BY <1>2, <1>3, <1>4, <1>5 DEF Next, Append1, Open, Write, SetRetention, CleanupStart,
     CleanupNext, QueryDone, Restart, Tick, vars

LEMMA AnswersFit == TypeOK /\ FoundInv => ShownFits
<1> SUFFICES ASSUME TypeOK, FoundInv, query # None,
                    NEW S \in {query.got} \cup SUBSET [ts : query.from .. query.to, no : {0}]
             PROVE  LET shown == Downsampled(S, query.from, query.to)
                    IN  /\ Cardinality(shown) <= MaxShown
                        /\ UNION shown = S
                        /\ \A A, B \in shown : A # B =>
                              /\ A \cap B = {}
                              /\ \/ \A p \in A, q \in B : p.ts <= q.ts
                                 \/ \A p \in A, q \in B : q.ts <= p.ts
  BY DEF ShownFits
<1>1. query.from \in Int /\ query.to \in Int /\ query.from < query.to
  BY DEF TypeOK, QueryOK, FoundInv
<1>2. IsFiniteSet(S) /\ \A p \in S : p.ts \in query.from .. query.to
  <2>1. CASE S = query.got
    <3>1. IsFiniteSet(S)
      BY <2>1, FS_Subset DEF FoundInv
    <3>2. \A p \in S : p \in Point /\ Within(p, query.from, query.to)
      BY <2>1 DEF FoundInv, TypeOK, QueryOK
    <3> QED
      BY <1>1, <3>1, <3>2 DEF Point, Within
  <2>2. CASE S \in SUBSET [ts : query.from .. query.to, no : {0}]
    <3> DEFINE time == [p \in S |-> p.ts]
    <3>1. time \in Injection(S, query.from .. query.to)
      BY <2>2 DEF Injection, IsInjective
    <3>2. IsFiniteSet(query.from .. query.to)
      BY <1>1, FS_Interval
    <3> HIDE DEF time
    <3> QED
      BY <2>2, <3>1, <3>2, FS_Injection
  <2> QED
    BY <2>1, <2>2
<1> QED
  BY <1>1, <1>2, DownsampledFits

\* The answer to a query has no more points than were asked for, counts every
\* point that was found once, and each point stands for a stretch of time of its
\* own: downsampleBuckets, for any range, any points and any number asked for.
THEOREM AnswersAreComplete == Spec => []ShownFits
<1>1. Init => FoundInv
  BY FS_EmptySet DEF Init, FoundInv
<1>2. TypeOK /\ HistoryInv /\ FoundInv /\ [Next]_vars => FoundInv'
  BY FoundStep
<1>3. TypeOK /\ FoundInv => ShownFits
  BY AnswersFit
<1>4. TypeOK /\ TypeOK' /\ HistoryInv /\ [Next]_vars => HistoryInv'
  BY HistoryStep
<1> QED
  BY <1>1, <1>2, <1>3, <1>4, HistoryInit, TypeCorrect, PTL DEF Spec

-----------------------------------------------------------------------------
\* What a query shows of itself: its range, what was there, what it has found,
\* and whether it is at its end.
LEMMA ReadingIs ==
    /\ query = None => Reading = OneHistory!Nobody
    /\ query # None =>
           /\ Reading # OneHistory!Nobody
           /\ Reading.at = (IF query.left = {} THEN "answered" ELSE "reading")
           /\ Reading.from = query.from /\ Reading.to = query.to
           /\ Reading.there = query.there /\ Reading.got = query.got
  BY DEF Reading, None, OneHistory!Nobody

\* A step of the store is a step of its history, or does not show.
LEMMA HistorySteps ==
    ASSUME TypeOK, TypeOK', HistoryInv, HistoryInv', [Next]_vars
    PROVE  OneHistory!HNext \/ UNCHANGED <<Horizon, written, Stored, Reading>>
<1> DEFINE Same == UNCHANGED <<Horizon, written, Stored, Reading>>
<1>1. ASSUME UNCHANGED <<clock, least, written, files, query>> PROVE Same
  BY <1>1 DEF Horizon, Stored, Reading
<1>2. ASSUME UNCHANGED <<written, files, query>> PROVE OneHistory!HAdvance
  <2>1. UNCHANGED <<written, Stored, Reading>>
    BY <1>2 DEF Stored, Reading
  <2> QED
    BY <2>1, HorizonMoves DEF OneHistory!HAdvance, Horizon
<1>3. CASE Open
  <2>1. UNCHANGED <<clock, least, written, query>>
    BY <1>3 DEF Open, counters
  <2>2. /\ DOMAIN files \subseteq DOMAIN files'
        /\ \A h \in DOMAIN files : files'[h] = files[h]
        /\ \A h \in DOMAIN files' : h \in DOMAIN files \/ files'[h] = {}
    BY <1>3 DEF Open
  <2>3. Stored' = Stored
    BY <2>2 DEF Stored
  <2> QED
    BY <2>1, <2>3 DEF Horizon, Reading
<1>4. CASE Write
  <2> DEFINE w == writer.point
  <2>1. /\ written' = written \cup {w} /\ writer # None
        /\ UNCHANGED <<clock, least, query>>
    BY <1>4 DEF Write
  <2>2. UNCHANGED <<Horizon, Reading>>
    BY <2>1 DEF Horizon, Reading
  <2>3. CASE writer.linked
    <3>1. HourOf(w.ts) \in DOMAIN files
      BY <2>1, <2>3 DEF TypeOK, WriterOK
    <3>2. files' = [files EXCEPT ![HourOf(w.ts)] = @ \cup {w}]
      BY <1>4, <2>3 DEF Write
    <3>3. /\ DOMAIN files' = DOMAIN files
          /\ files'[HourOf(w.ts)] = files[HourOf(w.ts)] \cup {w}
          /\ \A h \in DOMAIN files : h # HourOf(w.ts) => files'[h] = files[h]
      BY <3>1, <3>2
    <3> HIDE DEF w
    <3>4. Stored' = Stored \cup {w}
      BY <3>1, <3>3 DEF Stored
    <3> QED
      BY <2>1, <2>2, <3>4 DEF OneHistory!HNext, OneHistory!HWrite
  <2>4. CASE ~writer.linked
    <3>1. Stored' = Stored
      BY <1>4, <2>4 DEF Write, Stored
    <3>2. OneHistory!Before(w, Horizon)
      BY <2>1, <2>4 DEF HistoryInv, UnlinkedExpired, Expired, OneHistory!Before, Horizon
    <3> HIDE DEF w
    <3> QED
      BY <2>1, <2>2, <3>1, <3>2 DEF OneHistory!HNext, OneHistory!HWrite
  <2> QED
    BY <2>3, <2>4
<1>5. CASE CleanupNext
  <2>1. UNCHANGED <<clock, least, written, query>>
    BY <1>5 DEF CleanupNext, counters
  <2>2. UNCHANGED <<Horizon, written, Reading>>
    BY <2>1 DEF Horizon, Reading
  <2>3. \A p \in Stored : p \in Stored' \/ Expired(p)
    BY StoredStep DEF HistoryInv
  <2>4. Stored' \subseteq Stored
    BY <1>5 DEF CleanupNext, Stored
  <2>5. OneHistory!HExpire
    BY <2>2, <2>3, <2>4 DEF OneHistory!HExpire, OneHistory!Before, Horizon, Expired
  <2> QED
    BY <2>5 DEF OneHistory!HNext
<1>6. ASSUME NEW d \in Retentions, QueryStart(d * Day) PROVE OneHistory!HAsk
  <2>1. /\ query = None /\ UNCHANGED <<clock, least, written, files>>
        /\ query' = [at |-> "reading", from |-> clock - d * Day, to |-> clock,
                     left |-> DOMAIN files, got |-> {},
                     there |-> {p \in Stored : Within(p, clock - d * Day, clock)}]
    BY <1>6 DEF QueryStart
  <2>2. query' # None
    BY <2>1 DEF None
  <2>3. /\ Reading' # OneHistory!Nobody
        /\ Reading'.from = query'.from /\ Reading'.to = query'.to
        /\ Reading'.there = query'.there /\ Reading'.got = query'.got
        /\ Reading'.at = (IF query'.left = {} THEN "answered" ELSE "reading")
    BY <2>2 DEF Reading, OneHistory!Nobody
  <2>4. UNCHANGED <<Horizon, written, Stored>>
    BY <2>1 DEF Horizon, Stored
  <2>5. OneHistory!Complete(Reading', Horizon)
    BY <2>2, <2>3, <2>4 DEF HistoryInv, QueryAhead, OneHistory!Complete, OneHistory!Before,
                            Expired, Horizon
  <2>6. /\ Reading'.there = {p \in Stored : OneHistory!InRange(p, Reading'.from, Reading'.to)}
        /\ Reading'.got = {}
    BY <2>1, <2>3 DEF Within, OneHistory!InRange
  <2> QED
    BY <2>1, <2>3, <2>4, <2>5, <2>6, ReadingIs DEF OneHistory!HAsk
<1>7. CASE QueryNext
  <2>1. PICK h \in query.left :
          query' = [query EXCEPT !.left = @ \ {h},
                       !.got = @ \cup IF h \in DOMAIN files /\ ~Skipped(h, query.from, query.to)
                                      THEN {p \in files[h] : Within(p, query.from, query.to)}
                                      ELSE {}]
    BY <1>7 DEF QueryNext
  <2>2. query # None /\ query.left # {} /\ UNCHANGED <<clock, least, written, files>>
    BY <1>7 DEF QueryNext, counters
  <2>3. PICK found \in SUBSET {p \in Stored : Within(p, query.from, query.to)} :
          /\ query' # None
          /\ query'.got = query.got \cup found /\ query'.there = query.there
          /\ query'.from = query.from /\ query'.to = query.to
    <3> DEFINE new == IF h \in DOMAIN files /\ ~Skipped(h, query.from, query.to)
                      THEN {p \in files[h] : Within(p, query.from, query.to)} ELSE {}
    <3>1. new \in SUBSET {p \in Stored : Within(p, query.from, query.to)}
      BY DEF Stored
    <3>2. query' = [query EXCEPT !.left = @ \ {h}, !.got = @ \cup new]
      BY <2>1
    <3> HIDE DEF new
    <3>3. query \in [at : {"reading"}, from : Int, to : Int, left : SUBSET Nat,
                     got : SUBSET Point, there : SUBSET Point]
      BY <2>2 DEF TypeOK, QueryOK
    <3>4. /\ query'.at = "reading" /\ query'.got = query.got \cup new
          /\ query'.there = query.there /\ query'.from = query.from /\ query'.to = query.to
      BY <3>2, <3>3
    <3> QED
      BY <3>1, <3>4 DEF None
  <2> DEFINE end == IF query'.left = {} THEN "answered" ELSE "reading"
  <2>4. Reading = [at |-> "reading", from |-> query.from, to |-> query.to,
                   there |-> query.there, got |-> query.got]
    BY <2>2 DEF Reading
  <2>5. Reading' = [at |-> end, from |-> query'.from, to |-> query'.to,
                    there |-> query'.there, got |-> query'.got]
    BY <2>3 DEF Reading
  <2>6. UNCHANGED <<Horizon, written, Stored>>
    BY <2>2 DEF Horizon, Stored
  <2>7. end = "answered" => query'.left = {}
    OBVIOUS
  <2>8. end \in {"reading", "answered"}
    OBVIOUS
  <2> HIDE DEF end
  <2>9. OneHistory!Complete(Reading', Horizon)
    BY <2>3, <2>5, <2>6, <2>7 DEF HistoryInv, QueryAhead, OneHistory!Complete,
       OneHistory!Before, Expired, Horizon
  <2>10. Reading' = [at |-> end, from |-> Reading.from, to |-> Reading.to,
                     there |-> Reading.there, got |-> Reading.got \cup found]
    BY <2>3, <2>4, <2>5
  <2>11. found \in SUBSET {p \in Stored : OneHistory!InRange(p, Reading.from, Reading.to)}
    BY <2>4 DEF Within, OneHistory!InRange
  <2>12. Reading # OneHistory!Nobody /\ Reading.at = "reading"
    BY <2>2, <2>4, ReadingIs
  <2>13. OneHistory!HFind
    BY <2>6, <2>8, <2>9, <2>10, <2>11, <2>12 DEF OneHistory!HFind
  <2> QED
    BY <2>13 DEF OneHistory!HNext
<1>8. ASSUME query' = None, UNCHANGED <<clock, least, written, files>>
      PROVE  OneHistory!HLeave \/ Same
  <2>1. UNCHANGED <<Horizon, written, Stored>> /\ Reading' = OneHistory!Nobody
    BY <1>8 DEF Horizon, Stored, Reading, None, OneHistory!Nobody
  <2>2. CASE query = None
    BY <2>1, <2>2, ReadingIs
  <2>3. CASE query # None
    BY <2>1, <2>3, ReadingIs DEF OneHistory!HLeave
  <2> QED
    BY <2>2, <2>3
<1> USE DEF OneHistory!HNext
<1>9. ASSUME NEW d \in Retentions, SetRetention(d) PROVE OneHistory!HAdvance
  BY <1>2, <1>9 DEF SetRetention
<1>10. CASE Tick
  BY <1>2, <1>10 DEF Tick, counters
<1>11. CASE QueryDone \/ Restart
  BY <1>8, <1>11 DEF QueryDone, Restart, counters
<1>12. CASE CleanupStart \/ UNCHANGED vars \/ \E d \in 0..MaxDelay : Append1(clock - d)
  BY <1>1, <1>12 DEF CleanupStart, Append1, vars, counters
<1> QED
  BY <1>3, <1>4, <1>5, <1>6, <1>7, <1>9, <1>10, <1>11, <1>12 DEF Next

\* The store implements the history it promises: whatever the writer, the cleanup
\* and a query do file by file, with changes of the retention and crashes between
\* any two steps, the points go in once, go out only when they have expired, and a
\* query that ends has missed none that was there and still counts.
THEOREM StoreImplementsHistory == Spec => ImplementsHistory
<1>1. Init => OneHistory!HInit
  <2> SUFFICES ASSUME Init PROVE OneHistory!HInit
    OBVIOUS
  <2>1. Horizon \in Int
    BY RetainedType DEF Init, Horizon
  <2>2. Stored = {} /\ Reading = OneHistory!Nobody
    BY ReadingIs DEF Init, Stored
  <2> QED
    BY <2>1, <2>2 DEF Init, OneHistory!HInit
<1>2. /\ TypeOK /\ TypeOK' /\ HistoryInv /\ HistoryInv' /\ [Next]_vars
      => [OneHistory!HNext]_<<Horizon, written, Stored, Reading>>
  BY HistorySteps
<1>3. TypeOK /\ TypeOK' /\ HistoryInv /\ [Next]_vars => HistoryInv'
  BY HistoryStep
<1> QED
  BY <1>1, <1>2, <1>3, HistoryInit, TypeCorrect, PTL DEF Spec, ImplementsHistory, OneHistory!HSpec
=============================================================================
