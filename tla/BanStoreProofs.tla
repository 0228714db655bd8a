--------------------------- MODULE BanStoreProofs ---------------------------
(* Proofs about BanStore for any addresses, requests, limits and bounds.     *)
EXTENDS BanStore, FiniteSetTheorems, TLAPS

\* A zero entry is an entry and satisfies the ban rule at any time.
LEMMA ZeroEntryFits ==
    ASSUME TypeOK PROVE ZeroEntry \in Entry /\ BanFits(ZeroEntry)
BY BanAssumption DEF TypeOK, ZeroEntry, Entry, BanFits

\* A counted failure keeps an entry an entry.
LEMMA FailedType ==
    ASSUME NEW e \in Entry, NEW now \in Nat PROVE Failed(e, now) \in Entry
BY BanAssumption DEF Failed, Entry

\* A failure counted for a request that arrived in the past restores the rule.
LEMMA FailedFits ==
    ASSUME NEW e \in Entry, BanFits(e), clock \in Nat,
           NEW now \in Nat, now <= clock
    PROVE  BanFits(Failed(e, now))
BY BanAssumption DEF Failed, Entry, BanFits

\* Reset keeps the types of everything it writes.
LEMMA ResetType ==
    ASSUME TypeOK, NEW ip \in IPs, Reset(ip)
    PROVE  /\ entries' = [entries EXCEPT ![ip] = ZeroEntry]
           /\ entries' \in [IPs -> Entry] /\ disk' \in [IPs -> Entry]
           /\ lastSave' \in {"ok", "failed"} /\ saveFails' \in Nat
           /\ disk' \in {disk, entries'} /\ (lastSave' = "ok" => disk' = entries')
           /\ overrun' \in [IPs -> Nat]
<1>1. entries' \in [IPs -> Entry]
  BY ZeroEntryFits DEF TypeOK, Reset
<1> QED BY <1>1 DEF Reset, SaveLocked, TypeOK

\* RegisterFail keeps the types of everything it writes.
LEMMA RegisterFailType ==
    ASSUME TypeOK, NEW ip \in IPs, NEW now \in Nat, RegisterFail(ip, now)
    PROVE  /\ entries' = [entries EXCEPT ![ip] = Failed(entries[ip], now)]
           /\ entries' \in [IPs -> Entry] /\ disk' \in [IPs -> Entry]
           /\ lastSave' \in {"ok", "failed"} /\ saveFails' \in Nat
           /\ disk' \in {disk, entries'} /\ (lastSave' = "ok" => disk' = entries')
           /\ overrun' \in [IPs -> Nat]
<1>1. entries' \in [IPs -> Entry]
  BY FailedType DEF TypeOK, RegisterFail
<1>2. overrun' \in [IPs -> Nat]
  BY DEF TypeOK, RegisterFail
<1> QED BY <1>1, <1>2 DEF RegisterFail, SaveLocked, TypeOK

\* A request in flight is typed; an Idle slot is not one in flight.
LEMMA InFlightType ==
    ASSUME TypeOK, NEW r \in Requests, inflight[r] # Idle
    PROVE  inflight[r] \in InFlight
BY DEF TypeOK

-----------------------------------------------------------------------------
\* Every reachable state is typed.
THEOREM TypeCorrect == Spec => []TypeOK
<1>1. Init => TypeOK
  BY BanAssumption DEF Init, TypeOK, ZeroEntry, Entry, Idle, Answer
<1>2. TypeOK /\ [Next]_vars => TypeOK'
  <2> SUFFICES ASSUME TypeOK, [Next]_vars PROVE TypeOK'
    OBVIOUS
  <2>1. ASSUME NEW r \in Requests, NEW ip \in IPs, NEW door \in Doors,
               NEW cred \in Creds, Arrive(r, ip, door, cred)
        PROVE  TypeOK'
    BY <2>1 DEF Arrive, TypeOK, InFlight
  <2>2. ASSUME NEW ip \in IPs, NEW door \in Doors, NEW cred \in Creds,
               Refuse(ip, door, cred)
        PROVE  TypeOK'
    BY <2>2 DEF Refuse, TypeOK, Reply, Answer
  <2>3. ASSUME NEW r \in Requests, Malformed(r) PROVE TypeOK'
    BY <2>3, InFlightType DEF Malformed, TypeOK, Leave, Reply, Answer, InFlight, Creds
  <2>4. ASSUME NEW r \in Requests, Wrong(r) PROVE TypeOK'
    <3>1. inflight[r] \in InFlight
      BY <2>4, InFlightType DEF Wrong
    <3>2. /\ entries' \in [IPs -> Entry] /\ disk' \in [IPs -> Entry]
          /\ lastSave' \in {"ok", "failed"} /\ saveFails' \in Nat /\ overrun' \in [IPs -> Nat]
      BY <2>4, <3>1, RegisterFailType DEF Wrong, InFlight
    <3>3. answer' \in Answer /\ inflight' \in [Requests -> InFlight \cup {Idle}]
      BY <2>4, <3>1 DEF Wrong, TypeOK, Leave, Reply, Answer, InFlight, Creds
    <3> QED BY <2>4, <3>2, <3>3 DEF Wrong, TypeOK
  <2>5. ASSUME NEW r \in Requests, Right(r) PROVE TypeOK'
    <3>1. inflight[r] \in InFlight
      BY <2>5, InFlightType DEF Right
    <3>2. /\ entries' \in [IPs -> Entry] /\ disk' \in [IPs -> Entry]
          /\ lastSave' \in {"ok", "failed"} /\ saveFails' \in Nat /\ overrun' \in [IPs -> Nat]
      BY <2>5, <3>1, ResetType DEF Right, InFlight
    <3>3. answer' \in Answer /\ inflight' \in [Requests -> InFlight \cup {Idle}]
      BY <2>5, <3>1 DEF Right, TypeOK, Leave, Reply, Answer, InFlight, Creds
    <3> QED BY <2>5, <3>2, <3>3 DEF Right, TypeOK
  <2>6. ASSUME NEW ip \in IPs, HeaderRight(ip) PROVE TypeOK'
    BY <2>6, ResetType DEF HeaderRight, TypeOK, Reply, Answer, Creds
  <2>7. ASSUME NEW ip \in IPs, Unban(ip) PROVE TypeOK'
    BY <2>7, ResetType DEF Unban, TypeOK
  <2>8. CASE Restart
    BY <2>8 DEF Restart, TypeOK
  <2>9. CASE Tick
    BY <2>9 DEF Tick, TypeOK
  <2>10. CASE UNCHANGED vars
    BY <2>10 DEF vars, TypeOK
  <2> QED
    BY <2>1, <2>2, <2>3, <2>4, <2>5, <2>6, <2>7, <2>8, <2>9, <2>10 DEF Next
<1> QED BY <1>1, <1>2, PTL DEF Spec

-----------------------------------------------------------------------------
\* Whatever Reset or RegisterFail put in the map fits, and so does the file.
LEMMA SavedFits ==
    ASSUME TypeOK, BansFit, clock' = clock, disk' \in {disk, entries'},
           \A ip \in IPs : BanFits(entries'[ip])
    PROVE  BansFit'
BY DEF TypeOK, BansFit, BanFits

\* A reset leaves every entry fitting.
LEMMA ResetFits ==
    ASSUME TypeOK, BansFit, clock' = clock, NEW ip \in IPs, Reset(ip)
    PROVE  BansFit'
<1>1. /\ entries' = [entries EXCEPT ![ip] = ZeroEntry]
      /\ disk' \in {disk, entries'}
  BY ResetType
<1>2. \A i \in IPs : BanFits(entries'[i])
  BY <1>1, ZeroEntryFits DEF TypeOK, BansFit
<1> QED BY <1>1, <1>2, SavedFits

\* A ban fits its entry, in the map and in the file, in every reachable state.
THEOREM BansAlwaysFit == Spec => [](BansFit /\ ArrivedBefore)
<1> DEFINE IInv == BansFit /\ ArrivedBefore
<1>1. Init => IInv
  BY BanAssumption DEF Init, BansFit, BanFits, ArrivedBefore, ZeroEntry
<1>2. TypeOK /\ IInv /\ [Next]_vars => IInv'
  <2> SUFFICES ASSUME TypeOK, BansFit, ArrivedBefore, [Next]_vars
               PROVE  BansFit' /\ ArrivedBefore'
    OBVIOUS
  <2>1. ASSUME NEW r \in Requests, NEW ip \in IPs, NEW door \in Doors,
               NEW cred \in Creds, Arrive(r, ip, door, cred)
        PROVE  BansFit' /\ ArrivedBefore'
    BY <2>1 DEF Arrive, TypeOK, BansFit, BanFits, ArrivedBefore
  <2>2. ASSUME NEW ip \in IPs, NEW door \in Doors, NEW cred \in Creds,
               Refuse(ip, door, cred)
        PROVE  BansFit' /\ ArrivedBefore'
    BY <2>2 DEF Refuse, BansFit, BanFits, ArrivedBefore
  <2>3. ASSUME NEW r \in Requests, Malformed(r) PROVE BansFit' /\ ArrivedBefore'
    BY <2>3 DEF Malformed, Leave, TypeOK, BansFit, BanFits, ArrivedBefore
  <2>4. ASSUME NEW r \in Requests, Wrong(r) PROVE BansFit' /\ ArrivedBefore'
    <3> DEFINE ip == inflight[r].ip
               now == inflight[r].now
    <3>1. ip \in IPs /\ now \in Nat /\ now <= clock /\ clock' = clock
      BY <2>4, InFlightType DEF Wrong, InFlight, ArrivedBefore
    <3>2. RegisterFail(ip, now)
      BY <2>4 DEF Wrong
    <3>3. /\ entries' = [entries EXCEPT ![ip] = Failed(entries[ip], now)]
          /\ disk' \in {disk, entries'}
      BY <3>1, <3>2, RegisterFailType
    <3>4. entries[ip] \in Entry /\ BanFits(entries[ip]) /\ clock \in Nat
      BY <3>1 DEF TypeOK, BansFit
    <3>5. BanFits(Failed(entries[ip], now))
      BY <3>1, <3>4, FailedFits
    <3>6. \A i \in IPs : BanFits(entries'[i])
      BY <3>1, <3>3, <3>5 DEF TypeOK, BansFit
    <3>7. BansFit'
      BY <3>1, <3>3, <3>6, SavedFits
    <3> QED BY <2>4, <3>7 DEF Wrong, Leave, TypeOK, ArrivedBefore
  <2>5. ASSUME NEW r \in Requests, Right(r) PROVE BansFit' /\ ArrivedBefore'
    <3>1. inflight[r].ip \in IPs
      BY <2>5, InFlightType DEF Right, InFlight
    <3> QED BY <2>5, <3>1, ResetFits DEF Right, Leave, TypeOK, ArrivedBefore
  <2>6. ASSUME NEW ip \in IPs, HeaderRight(ip) PROVE BansFit' /\ ArrivedBefore'
    BY <2>6, ResetFits DEF HeaderRight, ArrivedBefore
  <2>7. ASSUME NEW ip \in IPs, Unban(ip) PROVE BansFit' /\ ArrivedBefore'
    BY <2>7, ResetFits DEF Unban, ArrivedBefore
  <2>8. CASE Restart
    BY <2>8 DEF Restart, BansFit, BanFits, ArrivedBefore
  <2>9. CASE Tick
    BY <2>9 DEF Tick, TypeOK, Entry, InFlight, BansFit, BanFits, ArrivedBefore
  <2>10. CASE UNCHANGED vars
    BY <2>10 DEF vars, BansFit, BanFits, ArrivedBefore
  <2> QED
    BY <2>1, <2>2, <2>3, <2>4, <2>5, <2>6, <2>7, <2>8, <2>9, <2>10 DEF Next
<1> QED BY <1>1, <1>2, TypeCorrect, PTL DEF Spec

-----------------------------------------------------------------------------
\* The slots are counted by a positive number.
LEMMA RequestsCount == Cardinality(Requests) \in Nat \ {0}
BY BanAssumption, FS_CardinalityType, FS_EmptySet

\* Requests let in are counted, and never outnumber the slots.
LEMMA LetInCount ==
    ASSUME NEW ip
    PROVE  /\ IsFiniteSet(LetIn(ip)) /\ Cardinality(LetIn(ip)) \in Nat
           /\ Cardinality(LetIn(ip)) <= Cardinality(Requests)
BY BanAssumption, FS_Subset, FS_CardinalityType DEF LetIn

\* The request that leaves its slot leaves LetIn of its own address only.
LEMMA LeaveCount ==
    ASSUME TypeOK, NEW r \in Requests, inflight[r] # Idle, Leave(r), NEW ip \in IPs
    PROVE  /\ ip = inflight[r].ip =>
                 Cardinality(LetIn(ip)') = Cardinality(LetIn(ip)) - 1
           /\ ip # inflight[r].ip => LetIn(ip)' = LetIn(ip)
           /\ Cardinality(LetIn(ip)') <= Cardinality(LetIn(ip))
           /\ Cardinality(LetIn(ip)') \in Nat
<1>1. LetIn(ip)' = LetIn(ip) \ {r}
  BY DEF Leave, LetIn, TypeOK
<1>2. r \in LetIn(ip) <=> ip = inflight[r].ip
  BY DEF LetIn
<1>3. IsFiniteSet(LetIn(ip))
  BY LetInCount
<1>4. Cardinality(LetIn(ip) \ {r}) = IF r \in LetIn(ip) THEN Cardinality(LetIn(ip)) - 1
                                                       ELSE Cardinality(LetIn(ip))
  BY <1>3, FS_RemoveElement
<1>5. Cardinality(LetIn(ip) \ {r}) \in Nat /\ Cardinality(LetIn(ip)) \in Nat
  BY <1>3, FS_RemoveElement, FS_CardinalityType
<1> QED BY <1>1, <1>2, <1>4, <1>5

\* Where nobody is let in and nothing is counted, a smaller set of bans and
\* no more guesses keep the bound.
LEMMA OverrunKept ==
    ASSUME TypeOK, OverrunInv,
           \A ip \in IPs : /\ overrun'[ip] \in {0, overrun[ip]}
                           /\ IsBanned(ip, clock)' => IsBanned(ip, clock)
                           /\ Cardinality(LetIn(ip)') <= Cardinality(LetIn(ip))
                           /\ Cardinality(LetIn(ip)') \in Nat
    PROVE  OverrunInv'
<1>1. \A ip \in IPs : Cardinality(LetIn(ip)) \in Nat
  BY LetInCount
<1>2. \A ip \in IPs : overrun[ip] \in Nat
  BY DEF TypeOK
<1> QED BY <1>1, <1>2, RequestsCount DEF OverrunInv, OverrunBounded

\* A reset clears the ban and the history, and lets nobody in.
LEMMA ResetOverrun ==
    ASSUME TypeOK, OverrunInv, clock' = clock, NEW ip \in IPs, Reset(ip),
           \A i \in IPs : /\ Cardinality(LetIn(i)') <= Cardinality(LetIn(i))
                          /\ Cardinality(LetIn(i)') \in Nat
    PROVE  OverrunInv'
<1>1. \A i \in IPs : IsBanned(i, clock)' => IsBanned(i, clock)
  BY ResetType DEF IsBanned, TypeOK, ZeroEntry
<1>2. \A i \in IPs : overrun'[i] \in {0, overrun[i]}
  BY DEF Reset, TypeOK
<1> QED BY <1>1, <1>2, OverrunKept

\* However requests overlap, a ban leaves at most one further guess to each
\* other request.
THEOREM OverrunInvariant == Spec => []OverrunInv
<1>1. Init => OverrunInv
  BY RequestsCount DEF Init, OverrunInv, OverrunBounded, IsBanned, ZeroEntry
<1>2. TypeOK /\ OverrunInv /\ [Next]_vars => OverrunInv'
  <2> SUFFICES ASSUME TypeOK, OverrunInv, [Next]_vars PROVE OverrunInv'
    OBVIOUS
  <2>a. \A ip \in IPs : Cardinality(LetIn(ip)) \in Nat
    BY LetInCount
  <2>1. ASSUME NEW r \in Requests, NEW ip \in IPs, NEW door \in Doors,
               NEW cred \in Creds, Arrive(r, ip, door, cred)
        PROVE  OverrunInv'
    <3>1. ~IsBanned(ip, clock)'
      BY <2>1 DEF Arrive, IsBanned
    <3>2. \A i \in IPs \ {ip} : LetIn(i)' = LetIn(i)
      BY <2>1 DEF Arrive, LetIn, TypeOK
    <3>3. \A i \in IPs : IsBanned(i, clock)' <=> IsBanned(i, clock)
      BY <2>1 DEF Arrive, IsBanned
    <3> QED BY <2>1, <3>1, <3>2, <3>3 DEF Arrive, OverrunInv, OverrunBounded
  <2>2. ASSUME NEW ip \in IPs, NEW door \in Doors, NEW cred \in Creds,
               Refuse(ip, door, cred)
        PROVE  OverrunInv'
    BY <2>2 DEF Refuse, OverrunInv, OverrunBounded, IsBanned, LetIn
  <2>3. ASSUME NEW r \in Requests, Malformed(r) PROVE OverrunInv'
    <3>1. \A ip \in IPs : /\ Cardinality(LetIn(ip)') <= Cardinality(LetIn(ip))
                          /\ Cardinality(LetIn(ip)') \in Nat
      BY <2>3, LeaveCount DEF Malformed
    <3> QED BY <2>3, <3>1, OverrunKept DEF Malformed, IsBanned
  <2>4. ASSUME NEW r \in Requests, Wrong(r) PROVE OverrunInv'
    <3>0. inflight[r].ip \in IPs
      BY <2>4, InFlightType DEF Wrong, InFlight
    <3> PICK ip \in IPs : ip = inflight[r].ip
      BY <3>0
    <3>1. inflight[r] # Idle /\ Leave(r) /\ clock' = clock
      BY <2>4 DEF Wrong
    <3>2. RegisterFail(ip, inflight[r].now)
      BY <2>4 DEF Wrong
    <3>3. \A i \in IPs \ {ip} : /\ LetIn(i)' = LetIn(i) /\ overrun'[i] = overrun[i]
                                /\ IsBanned(i, clock)' <=> IsBanned(i, clock)
      BY <3>1, <3>2, LeaveCount DEF RegisterFail, IsBanned, TypeOK
    <3>4. Cardinality(LetIn(ip)') = Cardinality(LetIn(ip)) - 1
      BY <3>1, LeaveCount
    <3>5. overrun'[ip] = IF IsBanned(ip, clock) THEN overrun[ip] + 1 ELSE 0
      BY <3>1, <3>2 DEF RegisterFail, TypeOK
    <3>6. Cardinality(LetIn(ip)) \in Nat /\ Cardinality(LetIn(ip)) <= Cardinality(Requests)
      BY LetInCount
    <3>7. Cardinality(LetIn(ip)') \in Nat
      BY <3>1, LeaveCount
    <3>8. /\ overrun'[ip] <= Cardinality(Requests) - 1
          /\ overrun'[ip] + Cardinality(LetIn(ip)') <= Cardinality(Requests) - 1
      BY <3>1, <3>4, <3>5, <3>6, <3>7, RequestsCount DEF OverrunInv, TypeOK
    <3> QED BY <3>3, <3>8 DEF OverrunInv, OverrunBounded
  <2>5. ASSUME NEW r \in Requests, Right(r) PROVE OverrunInv'
    <3>1. inflight[r].ip \in IPs
      BY <2>5, InFlightType DEF Right, InFlight
    <3>2. \A i \in IPs : /\ Cardinality(LetIn(i)') <= Cardinality(LetIn(i))
                         /\ Cardinality(LetIn(i)') \in Nat
      BY <2>5, LeaveCount DEF Right
    <3> QED BY <2>5, <3>1, <3>2, ResetOverrun DEF Right
  <2>6. ASSUME NEW ip \in IPs, HeaderRight(ip) \/ Unban(ip) PROVE OverrunInv'
    <3>1. \A i \in IPs : LetIn(i)' = LetIn(i)
      BY <2>6 DEF HeaderRight, Unban, LetIn
    <3> QED BY <2>6, <2>a, <3>1, ResetOverrun DEF HeaderRight, Unban
  <2>7. CASE Restart
    <3>1. \A ip \in IPs : LetIn(ip)' = {}
      BY <2>7 DEF Restart, LetIn
    <3>2. \A ip \in IPs : Cardinality(LetIn(ip)') = 0
      BY <3>1, FS_EmptySet
    <3>3. \A ip \in IPs : overrun'[ip] = overrun[ip] /\ overrun[ip] \in Nat
      BY <2>7 DEF Restart, TypeOK
    <3> QED BY <3>2, <3>3, RequestsCount DEF OverrunInv, OverrunBounded
  <2>8. CASE Tick
    <3>1. \A ip \in IPs : IsBanned(ip, clock)' => IsBanned(ip, clock)
      BY <2>8 DEF Tick, IsBanned, TypeOK, Entry
    <3>2. \A ip \in IPs : LetIn(ip)' = LetIn(ip)
      BY <2>8 DEF Tick, LetIn
    <3> QED BY <2>8, <2>a, <3>1, <3>2, OverrunKept DEF Tick
  <2>9. CASE UNCHANGED vars
    BY <2>9 DEF vars, OverrunInv, OverrunBounded, IsBanned, LetIn
  <2> QED
    BY <2>1, <2>2, <2>3, <2>4, <2>5, <2>6, <2>7, <2>8, <2>9 DEF Next
<1> QED BY <1>1, <1>2, TypeCorrect, PTL DEF Spec

\* However many requests run, all but one of them at most are counted as failures
\* while a ban is in force (IsBanned and RegisterFail, bans.go:104-144).
THEOREM OverrunAlwaysBounded == Spec => []OverrunBounded
<1>1. OverrunInv => OverrunBounded
  BY DEF OverrunInv
<1> QED BY <1>1, OverrunInvariant, PTL


\* Once a save succeeds the file is the map again, whatever failed before.
THEOREM SavedAlwaysCurrent == Spec => []SavedIsCurrent
<1>1. Init => SavedIsCurrent
  BY DEF Init, SavedIsCurrent
<1>2. TypeOK /\ SavedIsCurrent /\ [Next]_vars => SavedIsCurrent'
  <2> SUFFICES ASSUME TypeOK, SavedIsCurrent, [Next]_vars PROVE SavedIsCurrent'
    OBVIOUS
  <2>1. ASSUME NEW ip, NEW now, Reset(ip) \/ RegisterFail(ip, now)
        PROVE  SavedIsCurrent'
    BY <2>1 DEF Reset, RegisterFail, SaveLocked, SavedIsCurrent
  <2>2. CASE \E r \in Requests : Wrong(r) \/ Right(r)
    BY <2>1, <2>2 DEF Wrong, Right
  <2>3. CASE \E ip \in IPs : HeaderRight(ip) \/ Unban(ip)
    BY <2>1, <2>3 DEF HeaderRight, Unban
  <2>4. CASE Restart
    BY <2>4 DEF Restart, SavedIsCurrent
  <2>5. CASE UNCHANGED <<entries, disk, lastSave>>
    BY <2>5 DEF SavedIsCurrent
  <2>6. \/ \E r \in Requests : Wrong(r) \/ Right(r)
        \/ \E ip \in IPs : HeaderRight(ip) \/ Unban(ip)
        \/ Restart
        \/ UNCHANGED <<entries, disk, lastSave>>
    BY DEF Next, vars, Arrive, Refuse, Malformed, Tick
  <2> QED BY <2>2, <2>3, <2>4, <2>5, <2>6
<1> QED BY <1>1, <1>2, TypeCorrect, PTL DEF Spec
=============================================================================
