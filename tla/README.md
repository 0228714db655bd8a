# Lulynx server monitor: specifications, model checking and proofs

This directory holds TLA+ modules for the program in `src/`, the TLC
configurations that check them, and the proofs that TLAPS checks. `PROJECT.json`
maps every definition to the source lines it stands for. In the modules, a
definition introduced as "Mutant of X" is a plausible bug in X that is not part
of any specification; it shows that a property notices that bug.

`center` stands for `src/internal/center`, `agent` for `src/internal/agent`.

## 1. The system

A *center* (one process, Go's `net/http`) collects reports from *agents*, one
per monitored machine, keeps the state and the history of each server, and serves
a public dashboard and an admin page.

| component | state it keeps | operations |
|---|---|---|
| ban stores (`center/bans.go`), one for enrollment and one for logins | failures and ban of each address, a file each | `IsBanned`, `RegisterFail`, `Reset`, `Load`; used by `handleEnroll`, `handleAdminLogin`, `authorizeAdmin`, the unban endpoints |
| report loop (`agent/agent.go`) | `runtimeConfig` (interval, ports, switches), the ticker, a channel of capacity one | collect and push; apply the answer; `notifyInterval` |
| control manager (`agent/control.go`) | the mode and port it listens on | `SetDesired`, ping, configuration |
| configuration (`center/admin_handlers.go`, `control_push.go`, `control_probe.go`) | each server's configuration, its last address, whether its control port answers | upsert, patch, settings; answer reports; push; probe every 12 s |
| ingestion (`center/ingest_handler.go`, `dedup.go`) | messages seen, last totals, metrics, last seen | authenticate, drop duplicates, register, apply |
| rolling window (`center/rolling.go`) | a ring of minute buckets, overall and for each server | `Add`, `SumLastMinutes` |
| series store (`center/series_store.go`) | a queue, a file per server, metric and hour | `Append`, the writer, cleanup every 6 h, `Query` |
| tokens and registry (`center/secrets.go`, `persist.go`, `enroll_handler.go`, `admin_issue_token.go`; `agent/enroll.go`) | tokens and servers in memory and in two files; the agent's file | enroll, issue a token, register by report, restart |
| admin sessions (`center/service.go:393-447`) | session ids with an expiry | log in, check, log out |
| snapshot, listing, validation (`snapshot_handler.go`, `http_helpers.go`, `validate.go`) | none | read-only projections and normalisation |
| collector (`agent/collect_linux.go`) | the previous CPU and network counters | read `/proc`, make rates |
| web pages, site, `run.sh` | none the center depends on | |

How they interact: an agent posts a report, the center answers with the server's
configuration, and the agent applies it. When an administrator edits an *active*
server, the center also posts the configuration to the agent's control port,
provided its last probe of that port succeeded. A report feeds the registry,
the rolling windows (under the service's lock) and the series store (through a
queue, without waiting). Nearly all state of the center is behind one
`RWMutex`; the ban stores, the duplicates and the sessions have mutexes of their
own.

### What is hard here

* **Copies that outlive their truth.** Probes, pushes and answers work on copies
  made under the lock and are finished later, in any order.
* **Times taken early.** A handler reads the clock first, then the body, which may
  take any time (no `ReadTimeout`, `src/cmd/center/main.go:37-41`), and uses the
  old time for bans, duplicates, minutes and points.
* **Decisions in two steps.** Ban checks, the duplicate mark and the interval
  hand-over each happen apart from the action they guard.
* **Two files, no transaction, errors dropped.** `secrets.json` and
  `servers.json` are saved one after the other, and every save's error is
  ignored.
* **Counters that do not only grow.** Interfaces vanish and come back, another one
  takes the lead, iowait is corrected downwards, either side restarts: differences
  are taken across all of these.
* **Two clocks and a cookie.** The agent's ticker runs by the interval of its last
  answer, the dashboard judges it by the center's; a browser sends the cookie of
  one moment and gets the answer at another.
* **Unlocked files.** The writer, the cleanup and the queries of the series store
  meet only in the file system.

`PROJECT.json` lists these hazards at their lines, with the properties that
would catch each going wrong.

## 2. The modules

Order of the work: the guarded core first (bans, interval, configuration), then
ingestion, registry and history, then the dashboard's view of an agent, the
collector and the administrator's sessions.

| module | models | state and actions in the code |
|---|---|---|
| `BanStore` (`MCBanStore`) | one ban store and its handlers | `entries`/`disk` are the map and its file; `Arrive` is the first ban check, `Wrong`, `Right`, `Malformed` the decision after the body, `HeaderRight` the header that is compared first, `Restart` is `Load` |
| `AgentInterval` (`MCAgentInterval`) | the interval's way to the ticker | `ch` is `intervalCh`; `Send`, `Drain`, `Resend` are the three selects of `notifyInterval`; `SetEvery` is the lock section shared by the loop and `handleConfig`; the history `latest` has the last change and those it overlapped |
| `ConfigSync` (`MCConfigSync`) | one server's configuration from the admin page to its agent | `files` is what `servers.json` and `settings.json` hold, which an `Edit` or a later `SaveAgain` writes; `exchange` is the report the agent waits for, `late` those it gave up, `probes`, `pushJobs`, `pushes` the work under way; `rc` and `ctl` are the agent |
| `Ingest` | reports of one server | `requests` are handlers between their steps: `Arrive` (time taken), `Seen` or `CheckToken`, `Reject`, `AnswerDuplicate`, `Apply`; the history `again` adds up the bytes that reports applied after newer ones make count again |
| `TrafficWindow` | what the traffic windows promise: a log of bytes per minute, of which only minutes past the longest window may be forgotten | abstract specification |
| `Rolling` | the ring | `Add`, `SumLastMinutes`; implements `TrafficWindow` under `log <- Log` |
| `Presence` (`MCPresence`) | one server on the dashboard | composes `Rolling` with the agent's loop (`Fire`, `Arrive`, `GiveUp`, `Settle`) and the handlers that wait for the lock (`requests`); `Apply` is `handleIngest` from `lastSeenMS` to the buckets; `Online`, `Used`, `RenewDays` are what a snapshot computes |
| `Registry` | tokens and servers, center and agents, and the tokens of the control channel | `servers` has each known server's control mode; `job` is the handler inside the lock, cut at its saves; the history `unsaved` has the agents for whom a save failed; `fileToken`, `canEnroll` are the agent's file; `ProbeStart`/`ProbeEnd` sign and check by `Signed` and `Accepts` |
| `History` | what the series store promises: one set of points, from which points go only past a horizon, and queries that miss nothing else | abstract specification |
| `SeriesStore` | one metric of one server | `Open`/`Write` are the writer's two system calls that matter, `CleanupStart`/`CleanupNext` and `QueryStart`/`QueryNext` go file by file; `Downsampled` is `downsampleBuckets`; implements `History` with `Stored`, the points of all files, as its points |
| `Collector` | what an agent reads, keeps and reports, and what the center counts from it | `attempt` is one `Collect`, cut where it may fail (`CollectCPU`, `CollectRest`, `CollectNet`); `prevCPU`, `prevNet` are what it keeps for the next; `Apply` is the difference taken by `handleIngest` |
| `AdminSession` | the session table, the browsers' cookies, the redirects | a request is `sent` with the cookie of that moment, `timed` when its handler reads the clock, judged under the mutex (`Check`, `LoginPage`), acts or is redirected; `SignIn`, `SignOut` change the table and `Answer` the cookie |
| `...Proofs` | theorems | see section 5 |

What the abstractions leave out, by module:

* `BanStore`: `expires`-style housekeeping does not exist in the code, so none is
  modelled; `clientIP` is a member of `IPs`. The clock does not run backwards.
* `AgentInterval`: the loop is not ended (`ctx.Done`).
* `ConfigSync`: the switches that travel with the ports (probe enabled, host, TCP)
  are applied by the same statements as the interval and are not told apart.
  The control mode `""` of the code is `passive`. A probe round is skipped for a
  server that is not online; here the agent's reports are fair, so it is online.
  Tokens are left to `Registry`, the online rule to `Presence`. A save writes a whole file:
  `SaveAgain` stands for those that edits of other servers and settings make.
* `Presence`: the agent's loop runs in the time of the model's ticks. When an answer has
  been taken over, `SetDesired` may have to stop the control server (at most 2 s,
  `control.go:59`) before the loop goes on; `Settle` is the end of that, and resets the
  ticker. How a new interval gets there is `AgentInterval`'s. `Hold` bounds the wait for
  the service's lock. Late answers to a report the agent gave up are not applied, as in
  the code. `handleAdminServers` uses the same online rule.
* `Ingest`: one server, RX and TX as one counter, one interface; several interfaces
  and both directions are `Collector`'s. The agent of this
  repository sends plain reports and never repeats one; senders of encrypted
  reports, which the center supports, are external, and so are their retries. A report without
  network totals counts as a total of 0 in the code (`ingest_handler.go:195-196`); the
  agent of this repository always sends them.
* `Registry`: names and other fields of a server are left out; a save that a changed
  name causes (`ingest_handler.go:175-178`, `enroll_handler.go:116-119`) is that of an
  `Upsert` with the mode as it was. What an edit of the mode does to the last probe
  is `ConfigSync`'s, the ban that `handleEnroll` checks first (`enroll_handler.go:44-50`)
  `BanStore`'s.
* `SeriesStore`: values are left out, a point is a time and a number. Failing
  `open` or `write` calls are left out: such a point was never written. A write that ends
  in the middle of a record (a full disk) is left out as well; its error is ignored
  (`series_store.go:84`), and it would shift every later 16-byte record of the file.
  `CleanupStart` takes the retention, the clock and the list of files in one step
  (`service.go:304-308`, `series_store.go:113`). Bucket
  numbers are exact where the code divides floating-point numbers; a rounding may
  put a point into the neighbouring bucket, which changes nothing the property
  says. `handleSeries` asks for more than ten points, so neither the floor of ten
  buckets nor the cut at the end of `downsampleBuckets` ever applies; both are in
  `Downsampled`, and `ShownFits` shows that nothing is cut.
* `Collector`: one direction of time: an attempt reads `/proc` at once. CPU times are
  busy and idle, as the code adds them up: busy is the sum of all columns but two, so the
  time of guests, which the kernel counts in `user` too, counts twice
  (`collect_linux.go:85-94`), and `CpuHonest` is about that sum; iowait is part of the idle time, and is what can fall. Memory,
  disk, load, uptime and TCP figures keep no state; reading memory or disk may fail,
  which ends the attempt after `collectCPU` has moved on (`CollectFails`). Rates are bytes
  per attempt, the division by the time between two attempts is left out.
* `AdminSession`: a session id is the number of its login (256 random bits).
  Passwords and bans are `BanStore`'s. A browser's cookie may end at any time. What an
  authorised request does is left out, and so is how long after its check it does it.

## 3. The runs

| run | question | result |
|---|---|---|
| `ban_store` | do bans fit the failures that earned them, in memory and on disk; how many guesses slip past a ban | holds |
| `ban_login` | does the right password lift a ban, as the admin page says | violated: the login form refuses before it reads the password |
| `agent_interval` | does the last change of the interval, or one that overlapped it, reach the ticker; can the loop block itself | holds |
| `config_sync` | does the agent end up with the last configuration and stay there, over edits, saved or not, losses, restarts and a new address; is the control state corrected | holds |
| `config_ports` | does every port list reach the agent | violated: an empty one never does |
| `ingest` | is a copy applied twice within its time to live; does the traffic counted match what was carried | holds |
| `ingest_acked` | is what is dropped a duplicate of something applied | violated: the retry of a rejected report is dropped |
| `registry` | does every answered token stand; is one lost only after a failed save; does enrollment end well; does the control channel follow the tokens | holds |
| `presence` | does the ring implement the log of bytes per minute; is a healthy agent shown online throughout, a dead one offline in time; does the traffic shown as used begin with the renewal date | holds |
| `collector` | do CPU share and rates show only what happened since the last reading; does the traffic counted match what the reported interfaces carried | holds |
| `admin_session` | does a logout end a session for good; is nobody refused without a cause; do the redirects end | holds |
| `series_store` | is a point removed early, missed by a query or lost in its summary; do expired files go | holds |

### Properties worth a second look

* `OverrunBounded`: a ban is checked when a request arrives and counted when its
  body has been read. With `n` requests at a time at most `n - 1` failures are
  counted while the ban is in force.
* `SettledStays`: when the agent is in sync and no stale copy is under way, no
  probe, push or report in any order disturbs it. `ConfigConverges` needs no such
  premise: after the last edit, the agent ends up in sync whatever was under way.
  `InSync` excuses an empty port list, which `config_ports` shows never to arrive.
* `StaleOKHeals`, `ControlComesUp`: the control state may be wrong for a while, in
  both directions, and is corrected.
* `NoOvercount` of `Ingest`: a report applied after a newer one lowers the stored total, so
  the code counts again what lies between the two; the history `again` adds that up
  as it happens, and nothing beyond it is counted. `NothingLost` excuses nothing but a
  reboot of the machine.
* `TokensStand` excuses agents whose token a restart lost, and `LossNeedsFailure` says when
  that can be: only after a save for this very agent failed, never by a crash between
  the two files or by what was done for another agent. The error of that save is
  dropped (`secrets.go:51`), the token is answered and works until the center restarts. The token is made, saved, and answered in steps, and the agent
  may have gone before the answer; retries get the same token.
* `ChangeKept`: `notifyInterval` runs outside the lock, so of two changes that overlap
  the older may be sent last and stay. One of them gets through, though, whatever older
  value was on the channel, and a change that no other overlaps always does.
* `ControlFollowsToken`: a token issued for an agent that runs with the shared one
  makes the center sign with a token the agent refuses; its probe then fails, so the
  center stops pushing, and the channel comes back when the tokens agree again.
* `ShownOnline`: needs a stop of the control server, the agent's slowest turn (its port
  probes and the push timeout), one interval and a wait for the lock to fit into the
  threshold; that is the assumption `PresenceAssumption`, and the code leaves the room to
  the floor of 30 s and to three intervals. With the 8 s timeout, 2 s for the stop and
  500 ms for a port that does not answer, it fails first at an interval of 10 s, from about
  twenty such ports on. An abandoned report that got the lock late may set `lastSeenMS`
  back, but not by more than the assumption allows.
* `UsedSinceRenewal`: the window counts whole minutes back from now, so its oldest
  minute drops out as soon as it is over; nothing of the time before the renewal
  date is counted.
* `NoOvercount` of `Collector`: with interfaces that come and go, a change of the lead
  may count what the old leader had carried once more, and nothing beyond that; with a
  configured interface there is no such change and nothing is excused.
* `RateHonest`, `CpuHonest`: an attempt that failed half way has moved the CPU's
  window on and not the network's, and both still show what they say.
* `LogoutIsFinal` judges a request by the time it arrived: one that was authorised
  before the logout and waits for its body or the lock acts after it.
* `RefusedForCause` with `LogoutIsFinal`: the answer to an old logout may clear a newer
  login's cookie, but its session lives on in the table and disturbs no other.
* `BansFit`: a form decided by an old clock may shorten a ban that is in force; the ban
  still fits the last failure counted, and how many guesses that lets through is
  `OverrunBounded`'s question.
* `KeptUntilRetention`: the retention is counted as the code computes it: beyond
  106751 days (`service.go:307`) it wraps, the cutoff lies in the future and everything
  goes, which the property excuses. The cleanup works with an old cutoff and an old list of
  files, and may unlink a file that the writer has open; no point is lost early.

### Bounds, and why they are enough

* `BanStore`: two addresses, two requests, limit 2, ban of 2 ticks, clock to 3: an
  old request can be decided during and after a ban, and before and after a
  restart. Counts stop at 3, one past the limit. Symmetry in addresses and requests
  is sound, since only invariants are checked.
* `AgentInterval`: two handlers and the loop, three intervals: all three writers
  can be in `notifyInterval` with different values.
* `ConfigSync`: `MaxEvents` = 3 of up to two edits, a loss, a move and a restart, so
  two edits race with any one of the others and one edit with any two. An edit whose save
  fails counts as an edit and a loss, so a restart after it fits in. Two
  control ports and two addresses, one of which the center cannot connect to
  (`Hidden`: NAT or a firewall, where a probe can go stale for good); one edit activates a port that is not the
  default, the other makes the server passive. Losses are bounded by `MaxLosses`,
  which stands for "from some point on messages arrive".
* `Ingest`: two reports of two copies each, a time to live of one tick and a clock of
  three, so entries expire, are cleaned up and are entered again while an older
  copy is on its way to the look-up. `Delay` is the most time that passes between
  the handler's clock and the look-up, with no input or lock in between but the
  store's own. Two bytes, a reboot and a restart of the center between any
  two steps. Runs end when the bounds are used up, hence `CHECK_DEADLOCK FALSE`.
  What longer histories could add is settled by the proofs of section 5.
* `Registry`: one agent, of either kind (enrolled or with the shared token) and in either control
  mode, three crashes (of either side), two failed saves and two lost answers or
  probes, so a crash falls between any two steps and again during the recovery.
* `Presence`: a ring of 3 minutes of 2 ticks and a clock to 10, so the ring goes
  round and a bucket is reused; intervals of 1 and 2 on either side of the floor
  of 5 ticks, a turn of up to 2 (one valid port of two, one tick each for the port
  and the push), so that a turn outlasts the shorter interval; a stop of the control server and a wait for the lock
  of one tick each, so that reports overtake each other; two renewal dates, one before
  and one in the middle of the longest window. The floor of 5 sets the threshold for the
  shorter interval, where the assumption is met to the tick, and three intervals
  for the longer one, where it is met to the tick as well. `MaxBytes` lies above the largest amount, so
  that bytes left in a reused bucket cannot pass for bytes just added.
* `Collector`: two interfaces, three bytes, two faults (a vanished interface, a
  failed attempt, a lost report, a restart of either side) in any order: the lead
  changes and changes back, and an interface comes back with new counters while
  the other leads. `Width` is above twice the CPU times, as 2^64 is.
* `AdminSession`: two requests at a time of one browser (two tabs with one
  cookie), two logins, sessions of one tick and a clock of two, so a request is
  judged before, at and after the expiry; one restart. The proofs cover any
  number of all of these.
* `SeriesStore`: files of two ticks, retentions of one and two ticks, so that cutoffs
  fall inside and on the edge of a file, and a clock past the longer one; a queue of
  one, two points, one change of the retention or restart. `Span` is the range of a
  `time.Duration`, large enough not to matter here. `ShownFits` is checked for the
  points of the query and, on top, for every set of points at the times of its
  range, of which there may be three where two may be shown.

### Fairness

* `AgentInterval`: a push ends within its 8 s timeout; a goroutine in
  `notifyInterval` has no wait and is scheduled; `Receive` is strongly fair because
  Go's `select` picks among ready cases at random, so a value on the channel is not
  passed over for ever in favour of the ticker.
* `ConfigSync`: tickers drive reports and probes, each request ends in an answer or
  a timeout, goroutines run. Edits, moves, restarts and losses are never fair.
* `Registry`: handlers run on (`EnsureServer`, `Answer`), systemd starts the agent
  again (`Restart=always`, `run.sh:1545`), and `Enroll`, `Report` and `ProbeStart` are strongly
  fair: the lock is free again and again and Go's mutex does not starve a waiter.
  The center probes every 12 s, and a probe ends with an answer or a timeout.
  Nothing is assumed of the administrator.
* `AdminSession`: a handler that has begun goes on, and a browser follows a redirect.
  Nobody has to log in or out.
* `SeriesStore`: the writer's loop and the cleanup's ticker go on. The first
  cleanup comes six hours after the start (`service.go:296`); a center that is
  restarted more often than that never cleans up, which the bound on restarts
  excludes.

## 4. Findings

The runs that end in a violation, each a disagreement between the code and what a
page, a comment or the README says of it, are listed in `PROJECT.json` under
`findings`: `ban_login`, `config_ports`, `ingest_acked`. Two more things the code does and
a reader may not expect show in what the properties promise: of changes of the interval
that overlap, any one may stay (`ChangeKept`), and a retention beyond 106751 days wraps
(`Retained`).

## 5. The proofs

Every theorem holds for all values of the constants that satisfy the module's
named assumption.

| module | theorems | the argument |
|---|---|---|
| `BanStoreProofs` | `TypeCorrect`, `BansAlwaysFit`, `OverrunInvariant`, `OverrunAlwaysBounded`, `SavedAlwaysCurrent` | `BansFit` needs `ArrivedBefore`: a request in flight carries a time in the past, so the ban it earns does not reach further ahead than one counted now. `OverrunInv` adds up what was spent during a ban and what can still be spent: the requests let in. Its step uses the cardinality of the set of requests for an address |
| `AgentProofs`, the interval | `TypeCorrect`, `ChangesAreKept`, `PassiveAgentKeepsLatest` | `ChangeInv`: whoever is in `notifyInterval` carries the last change or one that overlapped it; before the third select the channel is empty or has one of these, and once nobody is left, so has the channel or the ticker |
| `AgentProofs`, the collector | `CollectorTypeCorrect`, `CpuShareIsHonest`, `RatesAreHonest`, `NothingCountedTwice`, `NothingMissed`, `ConfiguredCountsExactly` | `CollectorInv`. `CpuInv`: the total kept is the busy and the idle time kept, so the difference of the idle times, taken modulo `Width`, is either what idled or, when iowait fell, larger than any total, and is refused. `ReadingInv` holds of every reading that is kept, the agent's `prevNet` and the center's `last`: whichever interface is read next has grown by no more than its `Credit`, what it carried since plus, after a change of the lead, what the old leader had carried; the invariant speaks of all interfaces at once because the next leader is not known. `LeaderIsKept` establishes it for a new reading: the leader's counters are the largest. `ReportInv`: a report shows the machine as it is |
| `RollingProofs` | `RingInvariant`, `RingStaysInPlace`, `RingImplementsWindow`, `DashboardRingInPlace`, `DashboardImplementsWindow`, `AgentShownOnline`, `OnlineMeansHeard`, `UsedIsRight` | a step of the ring maps to a step of the log. `Add` needs that two minutes of one window never share a bucket, a lemma about remainders; `Tick` that a minute that leaves the window reads as zero in `Log`. A step of `Presence` is a step of the ring or leaves it alone, so both results carry over. `AgentShownOnline` follows the agent's loop: `LoopInv` says when the next tick and the end of a turn come, `WaitInv` how old a waiting report can be, and `SteadyInv` that the turn under way began at most a wait for the lock, a stop of the control server and an interval after `lastSeen`. `UsedIsRight` compares sums: `SumCounts` says that the sum of a finite function of naturals is the number of its units, the pairs of an index and a number below its value, so that a sum is no greater than another whose units those of the first map into. The window that is read goes back in minutes, the log it is compared with forward; the map between them turns one into the other |
| `ConfigSyncProofs` | `TypeCorrect`, `SettledAgentStays`, `OutdatedRunOut`, `AnswerSettles` | action by action from the type invariant, which says that a passive server has no control port; a copy equal to the current configuration is applied without effect. The last two say why an agent gets settled at all: copies of a former configuration under way only run out until the next edit (a step adds none but one of the present configuration), and once there are none, the next answer applied brings the agent in sync from whatever it ran with |
| `IngestProofs` | `TypeCorrect`, `DuplicatesAreApart`, `TrafficInvariant`, `TrafficIsRight`, `TrafficIsComplete` | for duplicates: an entry lives until its copy's time plus the time to live, and requests between the clock and the look-up are at most `Delay` old, so a cleanup or an expiry that a second copy profits from came late enough. For traffic: the sum and the last total are tied to what was carried at the last report, and any two reports differ in their totals by no more than in what was carried; a report applied after a newer one spoils that for the next difference by what `again` grows by |
| `RegistryProofs` | `TypeCorrect`, `TokensStandAlways`, `LossNeedsFailureAlways`, `TokensAreApart`, `RunningIsServed` | an issued token is the one in memory; in steps where memory changes, the agent had no token, or a restart put it into `lost`. `UnsavedInv`: outside `unsaved` the token in memory is the one in the file and a server in memory is in the file too, after every step of every handler, so a restart loses nothing of those agents. `TokensInv` adds that every token made is new (`ApartInv`), that what an agent holds was answered to it or is the shared token (`HeldInv`), and that whoever was answered is a known server (`KnownInv`) |
| `SeriesStoreProofs` | `TypeCorrect`, `PointsAreKept`, `QueriesAreComplete`, `AnswersAreComplete`, `StoreImplementsHistory` | `HistoryInv`: a cleanup under way has a cutoff no later than any it could compute now from the shortest time kept (`CleanerHonest`); a file the writer holds open without a name was past that cutoff, and so is its point (`UnlinkedExpired`); what a query has not read yet lies in files it has not come to (`QueryAhead`). The last hour before the cutoff needs the bounds of `Start` and `End` by division. `AnswersAreComplete`: `Bucket` is monotone in the time and below the number of buckets, so the buckets that are filled are at most `MaxShown`, `Kept` cuts none, and each is a stretch of time. `StoreImplementsHistory` maps every step of the store to one of `History`, or shows that it leaves it alone, from the same invariant |
| `AdminSessionProofs` | `TypeCorrect`, `LogoutsAreFinal`, `RefusalsHaveACause` | `SessionInvariant`: a session that was issued and not ended is in the table unless it has expired (`Standing`), and what a handler decided fits the time and the state it read (`Judged`) |

How the proofs are laid out: each module first proves its type invariant, then an
inductive invariant made of named parts, one lemma for its step with a case for each
action, and the theorems as consequences. The parts were checked by TLC on the
constants of the runs before they were proved. The assumptions on constants are those
named `...Assumption` in the models; `CollectorAssumption` says that a machine has
finitely many interfaces and that `Width`, 2^64 in the code, is above twice the CPU
times that can come up.

Sums and cardinalities: the library's folds are recursive, and the prover has no
induction over them. `SumCounts` is proved instead by taking a smallest part of the
index set for which it would fail, since strict inclusion of finite sets is well
founded.

`StoreImplementsHistory`, `TokensAreApart`, `RunningIsServed`, `OutdatedRunOut`, `AnswerSettles`, `RingStaysInPlace`,
`PassiveAgentKeepsLatest` and `ConfiguredCountsExactly` state something that is not a property of
any run. TLC found nothing against the first five either: the
refinement on the constants of `SeriesStore.cfg`, the tokens with two agents, the
last two on those of `ConfigSync.cfg`.

Only model-checked: every property under fairness (`LoopComesBack`,
`ChangeArrives`, `ConfigConverges`, `ControlComesUp`, `StaleOKHeals`,
`EnrollmentSucceeds`, `ControlFollowsToken`, `OldFilesGo`, `RedirectsEnd`), since liveness
and `ENABLED` are out of the prover's reach. Each violated property is refuted by its
run. Every other property of the runs is a theorem.

## 6. Not modelled, and the plan

Not modelled:

* the browser code, the site, the installer and the build scripts: they keep no state
  the center or an agent depends on;
* the cipher and JSON (libraries), formatting, sorting;
* `normalizeTags`, `normalizeKnownList` and the defaults of the two configuration
  files: functions of strings without state. What is hard about them is a matter
  of bytes and characters (`validate.go:57`), and is listed as a hazard;
* memory, disk, load, uptime and TCP figures, which are read and reported as they are;
* the order of `Shutdown`, `Close` and the end of `main`: whatever is queued is lost, as in
  the crashes that the models have.

What could come next:

1. The control channel's tokens in `ConfigSync` itself, in place of its premise
   that both sides hold the same one.
2. The safety halves of the remaining liveness properties, as `RunningIsServed` is
   that of `EnrollmentSucceeds` and `AnswerSettles` that of `ConfigConverges`: for
   `ControlComesUp`, which probe results can still be written once nothing changes.
3. `TrafficWindow` for the sums of all servers together, which the code keeps in a
   ring of its own, filled by the same calls.
