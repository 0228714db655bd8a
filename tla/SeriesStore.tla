---------------------------- MODULE SeriesStore ----------------------------
(* The history of one metric of one server (SeriesStore): reports append     *)
(* points to a queue without waiting, one goroutine writes them to a file    *)
(* per hour, a cleanup every six hours removes files past the retention, and *)
(* queries read the files, none of them under a lock.  Time is in ticks.     *)
EXTENDS Integers, Sequences, FiniteSets

CONSTANTS Hour, Day,    \* ticks of an hour (a file) and of a day
          Span,         \* a time.Duration lies in -Span..Span - 1
          Capacity,     \* of the queue, 8192
          Retentions,   \* the retentions, in days, an administrator may set
          MaxDelay,     \* from taking the time of a report to its Append
          MaxShown, MinBuckets,    \* points of an answer; buckets, 10
          MaxTime, MaxPoints, MaxChanges, MaxQueries    \* bounds

ASSUME SeriesAssumption ==
    /\ {Hour, Day, Span, Capacity, MaxShown, MinBuckets} \subseteq Nat \ {0}
    /\ MinBuckets <= MaxShown    \* handleSeries asks for more than ten points
    /\ Retentions \subseteq Nat \ {0}
    /\ {MaxDelay, MaxTime, MaxPoints, MaxChanges, MaxQueries} \subseteq Nat

VARIABLES
    clock,
    retention,  \* settings.RetentionDays
    queue,      \* s.ch
    writer,     \* the point runWriter holds, and whether its file is open
    files,      \* the points of each hour that has a file
    cleaner,    \* the cleanup under way: its cutoff and the files it found
    query,      \* the query under way: its range, the files it found, its points
    \* what happened so far
    made,       \* points made
    written,    \* points written
    least,      \* the shortest time kept so far, as the cleanup computes it
    changes,    \* of the retention, and restarts
    queries

counters == <<made, written, least, changes, queries>>
vars == <<clock, retention, queue, writer, files, cleaner, query, counters>>

None == [at |-> "none"]
HourOf(t) == t \div Hour
Start(h) == h * Hour
End(h) == (h + 1) * Hour

\* time.Duration(retDays) * 24 * time.Hour, which wraps beyond 106751 days
Wrapped(n) == ((n + Span) % (2 * Span)) - Span
Retained(days) == Wrapped(days * Day)

Init ==
    /\ clock = 0
    /\ retention \in Retentions /\ least = Retained(retention)
    /\ queue = << >> /\ writer = None /\ files = [h \in {} |-> {}]
    /\ cleaner = None /\ query = None
    /\ made = 0 /\ written = {} /\ changes = 0 /\ queries = 0

-----------------------------------------------------------------------------
\* Mutant of Append1: the queue takes one point too many.
Append1Over(ts) ==
    /\ made < MaxPoints
    /\ made' = made + 1
    /\ queue' = IF Len(queue) <= Capacity THEN Append(queue, [ts |-> ts, no |-> made]) ELSE queue
    /\ UNCHANGED <<clock, retention, writer, files, cleaner, query, written, least, changes, queries>>

\* Append, from handleIngest: a full queue drops the point.
Append1(ts) ==
    /\ made < MaxPoints
    /\ made' = made + 1
    /\ queue' = IF Len(queue) < Capacity THEN Append(queue, [ts |-> ts, no |-> made]) ELSE queue
    /\ UNCHANGED <<clock, retention, writer, files, cleaner, query, written, least, changes, queries>>

\* runWriter: take a point and open, or create, the file of its hour.
Open ==
    /\ writer = None /\ queue # << >>
    /\ LET p == Head(queue)
           h == HourOf(p.ts)
       IN  /\ writer' = [at |-> "open", point |-> p, linked |-> TRUE]
           /\ files' = [g \in DOMAIN files \cup {h} |-> IF g \in DOMAIN files THEN files[g] ELSE {}]
    /\ queue' = Tail(queue)
    /\ UNCHANGED <<clock, retention, cleaner, query, counters>>

\* The write goes to the open file, even one that was removed meanwhile.
Write ==
    /\ writer # None
    /\ LET p == writer.point
           h == HourOf(p.ts)
       IN  /\ files' = IF writer.linked THEN [files EXCEPT ![h] = @ \cup {p}] ELSE files
           /\ written' = written \cup {p}
    /\ writer' = None
    /\ UNCHANGED <<clock, retention, queue, cleaner, query, made, least, changes, queries>>

-----------------------------------------------------------------------------
\* handleAdminSettings
SetRetention(d) ==
    /\ changes < MaxChanges
    /\ changes' = changes + 1
    /\ retention' = d
    /\ least' = IF Retained(d) < least THEN Retained(d) ELSE least
    /\ UNCHANGED <<clock, queue, writer, files, cleaner, query, made, written, queries>>

\* The cleanup reads the retention, takes the time and lists the directory.
CleanupStart ==
    /\ cleaner = None
    /\ cleaner' = [at |-> "cleaning", cutoff |-> clock - Retained(retention), left |-> DOMAIN files]
    /\ UNCHANGED <<clock, retention, queue, writer, files, query, counters>>

\* Mutants of Past: by the hour's start, and an hour late.
PastStart(h, cutoff) == Start(h) < cutoff
PastLate(h, cutoff) == End(h + 1) < cutoff

\* "remove if the hour ends before cutoff"
Past(h, cutoff) == End(h) < cutoff

\* One file after the other.
CleanupNext ==
    /\ cleaner # None
    /\ IF cleaner.left = {}
       THEN /\ cleaner' = None
            /\ UNCHANGED <<files, writer>>
       ELSE \E h \in cleaner.left :
              /\ cleaner' = [cleaner EXCEPT !.left = @ \ {h}]
              /\ IF Past(h, cleaner.cutoff)
                 THEN /\ files' = [g \in DOMAIN files \ {h} |-> files[g]]
                      /\ writer' = IF writer # None /\ HourOf(writer.point.ts) = h
                                   THEN [writer EXCEPT !.linked = FALSE] ELSE writer
                 ELSE UNCHANGED <<files, writer>>
    /\ UNCHANGED <<clock, retention, queue, query, counters>>

-----------------------------------------------------------------------------
Stored == UNION {files[h] : h \in DOMAIN files}
Within(p, from, to) == from <= p.ts /\ p.ts <= to

\* handleSeries and Query: the files are listed once.
QueryStart(length) ==
    /\ query = None /\ queries < MaxQueries
    /\ queries' = queries + 1
    /\ query' = [at |-> "reading", from |-> clock - length, to |-> clock, left |-> DOMAIN files,
                 got |-> {}, there |-> {p \in Stored : Within(p, clock - length, clock)}]
    /\ UNCHANGED <<clock, retention, queue, writer, files, cleaner, made, written, least, changes>>

\* Mutant of Skipped: an hour that began before the range is skipped.
SkippedEarly(h, from, to) == Start(h) < from \/ Start(h) > to

\* The quick filter by the segment's hour.
Skipped(h, from, to) == End(h) < from \/ Start(h) > to

\* readAllPoints of one file, which may be gone; the points are sorted at the end.
QueryNext ==
    /\ query # None /\ query.left # {}
    /\ \E h \in query.left :
          query' = [query EXCEPT !.left = @ \ {h},
                       !.got = @ \cup IF h \in DOMAIN files /\ ~Skipped(h, query.from, query.to)
                                      THEN {p \in files[h] : Within(p, query.from, query.to)}
                                      ELSE {}]
    /\ UNCHANGED <<clock, retention, queue, writer, files, cleaner, counters>>

\* Mutant of Bucket: the end of the range gets a bucket of its own.
BucketUnclamped(ts, from, to, buckets) == ((ts - from) * buckets) \div (to - from)

\* The end of the range belongs to the last bucket.
Bucket(ts, from, to, buckets) ==
    LET i == ((ts - from) * buckets) \div (to - from)
    IN  IF i >= buckets THEN buckets - 1 ELSE i

\* Of too many buckets the last are kept.
Kept(filled) == {i \in filled : Cardinality({j \in filled : j > i}) < MaxShown}

\* downsampleBuckets: each set of points becomes one, their mean at the time of
\* the last.
Downsampled(points, from, to) ==
    LET buckets == IF MaxShown < MinBuckets THEN MinBuckets ELSE MaxShown
        idx(p) == Bucket(p.ts, from, to, buckets)
        acc(i) == {p \in points : idx(p) = i}
    IN  IF Cardinality(points) <= MaxShown THEN {{p} : p \in points}
        ELSE {acc(i) : i \in Kept({idx(p) : p \in points})}

QueryDone ==
    /\ query # None /\ query.left = {}
    /\ query' = None
    /\ UNCHANGED <<clock, retention, queue, writer, files, cleaner, counters>>

\* The program stops or crashes: what is queued or half done is lost.
Restart ==
    /\ changes < MaxChanges
    /\ changes' = changes + 1
    /\ queue' = << >> /\ writer' = None /\ cleaner' = None /\ query' = None
    /\ UNCHANGED <<clock, retention, files, made, written, least, queries>>

Tick ==
    /\ clock < MaxTime
    /\ clock' = clock + 1
    /\ UNCHANGED <<retention, queue, writer, files, cleaner, query, counters>>

Next ==
    \/ \E d \in 0..MaxDelay : d <= clock /\ Append1(clock - d)
    \/ Open \/ Write
    \/ \E d \in Retentions : SetRetention(d)
    \/ CleanupStart \/ CleanupNext
    \/ \E d \in Retentions : QueryStart(d * Day)
    \/ QueryNext \/ QueryDone \/ Restart
    \/ Tick

\* The writer's loop and the cleanup's ticker go on for ever.
Fairness == WF_vars(Open) /\ WF_vars(Write) /\ WF_vars(CleanupStart) /\ WF_vars(CleanupNext)
Spec == Init /\ [][Next]_vars
FairSpec == Spec /\ Fairness

-----------------------------------------------------------------------------
Point == [ts : Nat, no : Nat]

SettingsOK ==
    /\ clock \in Nat /\ retention \in Retentions
    /\ least \in Int /\ least <= Retained(retention)
QueueOK == queue \in Seq(Point) /\ Len(queue) <= Capacity
WriterOK ==
    writer # None =>
        /\ writer \in [at : {"open"}, point : Point, linked : BOOLEAN]
        /\ writer.linked => HourOf(writer.point.ts) \in DOMAIN files
FilesOK ==
    /\ DOMAIN files \subseteq Nat
    /\ \A h \in DOMAIN files : \A p \in files[h] : p \in Point /\ HourOf(p.ts) = h
CleanerOK == cleaner # None => cleaner \in [at : {"cleaning"}, cutoff : Int, left : SUBSET Nat]
QueryOK ==
    query # None =>
        query \in [at : {"reading"}, from : Int, to : Int, left : SUBSET Nat,
                   got : SUBSET Point, there : SUBSET Point]
CountersOK == written \subseteq Point /\ made \in Nat /\ changes \in Nat /\ queries \in Nat

\* Every variable stays in its type, a file holds the points of its hour, and a
\* removed file is no longer written to.
TypeOK ==
    SettingsOK /\ QueueOK /\ WriterOK /\ FilesOK /\ CleanerOK /\ QueryOK /\ CountersOK

Expired(p) == p.ts < clock - least

\* A point that was written stays until it is older than the shortest time kept
\* so far, however cleanups, writes and settings interleave.
KeptUntilRetention == \A p \in written : p \in Stored \/ Expired(p)

\* A query finds every point of its range that was stored when it began, except
\* for those that expire meanwhile.
QueryComplete ==
    query # None /\ query.left = {} => \A p \in query.there : p \in query.got \/ Expired(p)

\* Whatever points a query finds in its range, its answer has no more than were
\* asked for, counts every one it found once, and each of them stands for a
\* stretch of time of its own.
ShownFits ==
    query # None /\ query.left = {} =>
        \A S \in {query.got} \cup SUBSET [ts : query.from .. query.to, no : {0}] :
            LET shown == Downsampled(S, query.from, query.to)
            IN  /\ Cardinality(shown) <= MaxShown
                /\ UNION shown = S
                /\ \A A, B \in shown : A # B =>
                      /\ A \cap B = {}
                      /\ \/ \A p \in A, q \in B : p.ts <= q.ts
                         \/ \A p \in A, q \in B : q.ts <= p.ts

\* A file past every retention ever set does not stay, not even one that a
\* late point brings back.
OldFilesGo ==
    \A h \in 0..(MaxTime \div Hour) :
        (h \in DOMAIN files /\ \A d \in Retentions : End(h) < clock - Retained(d))
            ~> (h \notin DOMAIN files)

\* The files, the writer, the cleanup and the query together are one history.
Horizon == clock - least
Reading ==
    IF query = None THEN None
    ELSE [at |-> IF query.left = {} THEN "answered" ELSE "reading",
          from |-> query.from, to |-> query.to, there |-> query.there, got |-> query.got]

OneHistory == INSTANCE History WITH horizon <- Horizon, points <- Stored, reading <- Reading

\* The store implements its abstract history: no interleaving of the writer, the
\* cleanup and a query, file by file, shows.
ImplementsHistory == OneHistory!HSpec
=============================================================================
