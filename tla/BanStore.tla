------------------------------ MODULE BanStore ------------------------------
(* One banStore of the center (internal/center/bans.go) together with the    *)
(* handlers that drive it: the enrollment form (handleEnroll), the login     *)
(* form (handleAdminLogin), the X-Admin-Token header (authorizeAdmin) and    *)
(* the administrator's unban buttons.  A form reads the clock and asks       *)
(* IsBanned when it arrives, but decides only after it has read the body,    *)
(* which the client may hold back for as long as it likes; the header path   *)
(* compares first and asks IsBanned, then RegisterFail, under two separate   *)
(* acquisitions of the store's mutex.                                        *)
EXTENDS Integers, FiniteSets

CONSTANTS IPs,          \* client addresses, as clientIP returns them
          Requests,     \* slots for requests being handled at the same time
          Doors,        \* the paths that guard themselves with this store
          MaxFails,     \* enroll_max_fails
          BanFor,       \* enroll_ban_hours, in clock units
          MaxClock,     \* bound: the clock stops here
          MaxCount,     \* bound: failures counted for one address
          MaxSaveFails  \* bound: saves that fail (disk full, I/O error)

ASSUME BanAssumption ==
    /\ IsFiniteSet(Requests) /\ Requests # {}
    /\ Doors \subseteq {"form", "header"}
    /\ MaxFails \in Nat \ {0} /\ BanFor \in Nat \ {0}
    /\ MaxClock \in Nat /\ MaxCount \in Nat /\ MaxSaveFails \in Nat

VARIABLES clock,      \* time.Now() of the center
          entries,    \* b.entries; an absent entry is the zero banEntry
          disk,       \* the entries in enroll_bans.json / admin_bans.json
          inflight,   \* requests past their first ban check
          saveFails,  \* failed saves so far
          lastSave,   \* history: what became of the last SaveLocked
          overrun,    \* history: failures counted while the ban was in force
          answer      \* history: the last reply, and the credentials it was for

vars == <<clock, entries, disk, inflight, saveFails, lastSave, overrun, answer>>

Creds == {"right", "wrong", "malformed"}
ZeroEntry == [failCount |-> 0, bannedUntil |-> 0, lastFail |-> 0]
Entry == [failCount : Nat, bannedUntil : Nat, lastFail : Nat]
Idle == [ip |-> "none", now |-> 0, door |-> "none", cred |-> "none"]
InFlight == [ip : IPs, now : Nat, door : Doors, cred : Creds]
Answer == [cred : Creds \cup {"none"}, door : Doors \cup {"none"},
           reply : {"none", "ok", "unauthorized", "bad", "banned"}]

Reply(c, d, r) == answer' = [cred |-> c, door |-> d, reply |-> r]

IsBanned(ip, now) == entries[ip].bannedUntil > 0 /\ now < entries[ip].bannedUntil

\* Mutant of Failed: == for >=, so a failure past the limit renews no ban.
FailedAtLimitOnly(e, now) ==
    [failCount   |-> e.failCount + 1,
     lastFail    |-> now,
     bannedUntil |-> IF e.failCount + 1 = MaxFails THEN now + BanFor
                                                   ELSE e.bannedUntil]

\* Mutant of Failed: the ban is counted back from now instead of forward.
FailedBackwards(e, now) ==
    [failCount   |-> e.failCount + 1,
     lastFail    |-> now,
     bannedUntil |-> IF e.failCount + 1 >= MaxFails THEN now - BanFor
                                                    ELSE e.bannedUntil]

\* RegisterFail's effect on the entry: the count, the time, and the ban.
Failed(e, now) ==
    [failCount   |-> e.failCount + 1,
     lastFail    |-> now,
     bannedUntil |-> IF e.failCount + 1 >= MaxFails THEN now + BanFor
                                                    ELSE e.bannedUntil]

\* Mutant of SaveLocked: only what changed since the last save is written.
SaveChanged(e) ==
    \/ /\ disk' = [ip \in IPs |-> IF e[ip] # entries[ip] THEN e[ip] ELSE disk[ip]]
       /\ lastSave' = "ok" /\ UNCHANGED saveFails
    \/ /\ saveFails < MaxSaveFails
       /\ saveFails' = saveFails + 1 /\ lastSave' = "failed" /\ UNCHANGED disk

\* SaveLocked writes every entry to a temporary file and renames it; its
\* error is dropped by every caller.
SaveLocked(e) ==
    \/ disk' = e /\ lastSave' = "ok" /\ UNCHANGED saveFails
    \/ /\ saveFails < MaxSaveFails
       /\ saveFails' = saveFails + 1 /\ lastSave' = "failed" /\ UNCHANGED disk

Reset(ip) ==
    /\ entries' = [entries EXCEPT ![ip] = ZeroEntry]
    /\ SaveLocked(entries')
    /\ overrun' = [overrun EXCEPT ![ip] = 0]

RegisterFail(ip, now) ==
    /\ entries[ip].failCount < MaxCount
    /\ entries' = [entries EXCEPT ![ip] = Failed(@, now)]
    /\ SaveLocked(entries')
    /\ overrun' = [overrun EXCEPT ![ip] = IF IsBanned(ip, clock) THEN @ + 1 ELSE 0]

Init ==
    /\ clock = 0
    /\ entries = [ip \in IPs |-> ZeroEntry]
    /\ disk = entries
    /\ inflight = [r \in Requests |-> Idle]
    /\ saveFails = 0 /\ lastSave = "ok"
    /\ overrun = [ip \in IPs |-> 0]
    /\ answer = [cred |-> "none", door |-> "none", reply |-> "none"]

-----------------------------------------------------------------------------
\* Mutant of Arrive: no ban check.
ArriveUnchecked(r, ip, door, cred) ==
    /\ inflight[r] = Idle
    /\ door = "header" => cred = "wrong"
    /\ inflight' = [inflight EXCEPT
           ![r] = [ip |-> ip, now |-> clock, door |-> door, cred |-> cred]]
    /\ UNCHANGED <<clock, entries, disk, saveFails, lastSave, overrun, answer>>

\* The first ban check lets the request in: it keeps the address and the time.
Arrive(r, ip, door, cred) ==
    /\ inflight[r] = Idle
    /\ door = "header" => cred = "wrong"
    /\ ~IsBanned(ip, clock)
    /\ inflight' = [inflight EXCEPT
           ![r] = [ip |-> ip, now |-> clock, door |-> door, cred |-> cred]]
    /\ UNCHANGED <<clock, entries, disk, saveFails, lastSave, overrun, answer>>

\* 429: the body of a form, or the count for a header, is never looked at.
Refuse(ip, door, cred) ==
    /\ door = "header" => cred = "wrong"
    /\ IsBanned(ip, clock)
    /\ Reply(cred, door, "banned")
    /\ UNCHANGED <<clock, entries, disk, inflight, saveFails, lastSave, overrun>>

Leave(r) == inflight' = [inflight EXCEPT ![r] = Idle]

\* Bad JSON, no agent_id, an empty user name or password: nothing is counted.
Malformed(r) ==
    /\ inflight[r] # Idle /\ inflight[r].cred = "malformed"
    /\ Leave(r)
    /\ Reply("malformed", inflight[r].door, "bad")
    /\ UNCHANGED <<clock, entries, disk, saveFails, lastSave, overrun>>

Wrong(r) ==
    /\ inflight[r] # Idle /\ inflight[r].cred = "wrong"
    /\ RegisterFail(inflight[r].ip, inflight[r].now)
    /\ Leave(r)
    /\ Reply("wrong", inflight[r].door,
             IF entries'[inflight[r].ip].failCount >= MaxFails THEN "banned"
                                                               ELSE "unauthorized")
    /\ UNCHANGED clock

Right(r) ==
    /\ inflight[r] # Idle /\ inflight[r].cred = "right"
    /\ Reset(inflight[r].ip)
    /\ Leave(r)
    /\ Reply("right", inflight[r].door, "ok")
    /\ UNCHANGED clock

\* authorizeAdmin compares the header before it looks at any ban.
HeaderRight(ip) ==
    /\ "header" \in Doors
    /\ Reset(ip)
    /\ Reply("right", "header", "ok")
    /\ UNCHANGED <<clock, inflight>>

\* POST /api/admin/bans or /api/admin/admin_bans.
Unban(ip) == Reset(ip) /\ UNCHANGED <<clock, inflight, answer>>

\* The process dies and NewService loads the file into an empty map.
Restart ==
    /\ entries' = disk
    /\ inflight' = [r \in Requests |-> Idle]
    /\ lastSave' = "ok"
    /\ UNCHANGED <<clock, disk, saveFails, overrun, answer>>

Tick ==
    /\ clock < MaxClock
    /\ clock' = clock + 1
    /\ UNCHANGED <<entries, disk, inflight, saveFails, lastSave, overrun, answer>>

Next ==
    \/ \E r \in Requests, ip \in IPs, door \in Doors, cred \in Creds :
           Arrive(r, ip, door, cred)
    \/ \E ip \in IPs, door \in Doors, cred \in Creds : Refuse(ip, door, cred)
    \/ \E r \in Requests : Malformed(r) \/ Wrong(r) \/ Right(r)
    \/ \E ip \in IPs : HeaderRight(ip) \/ Unban(ip)
    \/ Restart
    \/ Tick

Spec == Init /\ [][Next]_vars

-----------------------------------------------------------------------------
\* Every variable stays in its type.
TypeOK ==
    /\ clock \in Nat
    /\ entries \in [IPs -> Entry] /\ disk \in [IPs -> Entry]
    /\ inflight \in [Requests -> InFlight \cup {Idle}]
    /\ saveFails \in Nat /\ lastSave \in {"ok", "failed"}
    /\ overrun \in [IPs -> Nat]
    /\ answer \in Answer

\* An address is banned exactly when it reached the limit, and its ban runs
\* from its last failure and no further into the future: in the map and in
\* the file alike, so also after a restart (RegisterFail, bans.go:134-141).
BanFits(e) ==
    /\ e.bannedUntil > 0 <=> e.failCount >= MaxFails
    /\ e.bannedUntil > 0 => e.bannedUntil = e.lastFail + BanFor
    /\ e.lastFail <= clock
BansFit == \A ip \in IPs : BanFits(entries[ip]) /\ BanFits(disk[ip])

\* A request in flight arrived in the past.
ArrivedBefore == \A r \in Requests : inflight[r] # Idle => inflight[r].now <= clock

\* One failed save loses nothing for good: the next one that succeeds, for any
\* address, brings the whole file up to date (SaveLocked writes every entry).
SavedIsCurrent == lastSave = "ok" => disk = entries

\* While a ban is in force only requests that had passed the check before it
\* began can still spend a guess, so at most one per other concurrent request.
OverrunBounded == \A ip \in IPs : overrun[ip] <= Cardinality(Requests) - 1

\* The requests for ip that have passed the ban check.
LetIn(ip) == {r \in Requests : inflight[r] # Idle /\ inflight[r].ip = ip}

\* The inductive form of OverrunBounded: what has been spent during a ban and
\* what can still be spent never exceed the other requests.
OverrunInv ==
    /\ OverrunBounded
    /\ \A ip \in IPs : IsBanned(ip, clock) =>
           overrun[ip] + Cardinality(LetIn(ip)) <= Cardinality(Requests) - 1

\* The admin page says that the right password lifts a ban by itself.
RightPasswordNeverRefused ==
    ~(answer.cred = "right" /\ answer.reply = "banned")
=============================================================================
