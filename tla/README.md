# vm_watcher: verification project

TLA+ specifications of the per-VM bandwidth monitor and limiter in this
repository, model-checked with TLC and in part proved with TLAPS. The source under
`src/` is the reference: every definition that models code is listed with its lines
in `PROJECT.json` ("map").

## 1. The system

`vm-bandwidth` is a daemon that attaches one pair of eBPF classifiers to every TAP
of a bridge, counts the traffic of configured IPv4 addresses, and puts a flow (an
address and a direction) under a policer for a while when its average exceeds a
trigger line.

| Component | State | Operations | Talks to |
| --- | --- | --- | --- |
| Data path (`vm-bandwidth-ebpf`) | eight BPF maps: whitelist trie, TRAFFIC, TRAFFIC6, LIMIT_POLICIES, LIMIT_STATE, SWL_LOG, POLICER_STATS, OVERSIZED | `count`, `count6`, `police` on every packet, on every CPU | the maps only |
| Limit-map transactions (`txmaps.rs`) | a journal per transaction | `install_limit`, `remove_limit`, whitelist steps, `rollback_journal` | the maps, one system call per operation |
| Engine (`daemon.rs`) | all control-plane state, owned by one task | `collect_tick`, `rescan_taps`, `reload`, IPC requests, metrics push | everything; clients and watchers over bounded channels |
| Limiter (`limiter.rs`, `window.rs`) | phase, rolling window and byte baseline of every flow | `tick`, `plan_reload`, `commit_reload`, `revert_failed_action` | returns limit actions to the engine |
| Collector (`collector.rs`) | previous samples, totals, idle counts | `poll`, `prune_ips` | reads the counter maps, reports idle keys |
| Attachment (`tc.rs`, `interface.rs`) | links per TAP, backoff per ifindex | `reconcile`, `attach`, `detach` | netlink, TCX |
| Configuration (`config.rs`, `policy.rs`, `ip_range.rs`, `units.rs`) | none (pure) | `parse`, `resolve`, `cidrs` | the engine |
| IPC server (`daemon.rs`, `ipc.rs`) | connections, permits | accept, read a request, send a reply | the engine over a bounded channel, clients over a socket |
| UI client (`ui.rs`, `tui.rs`) | `UiState`, one connection, trend queries | `poll`, `handle_key`, `fetch_trend` | the IPC server, VictoriaMetrics |
| Metrics push (`metrics.rs`) | a single-flight guard | one push per interval | the engine's snapshot |

What is hard here, and what makes each component correct:

* **Transactions.** The data path runs between any two map operations. An armed
  policy must always have its algorithm's state, and must become armed on state that
  was zeroed after the displaced policy had gone (a packet that copied that policy
  before may still reach it, section 6); a failed action concerns its own flow, a
  failed reload changes nothing, and this must survive errors *of the rollback*, full
  maps included.
* **Limiter.** Samples come from counters that vanish, restart and reappear;
  configurations change under LIMITED flows; actions can be refused. No flow may be
  limited without the traffic for it, and every limit must end.
* **Collector.** Keys are created by packets and removed by the engine (idle
  eviction, TAP prune, retries) while packets flow and reads fail. No byte may count
  twice, none may get lost while its key exists, nothing may leak.
* **Policing.** CPUs read the clock before they take the lock of a flow, so the
  algorithms see time go backwards. What passes must keep to burst, rate and window
  all the same, and a flow must recover when it has been idle.
* **Attachment.** TAPs vanish and come back under the same name between two system
  calls of a scan, and the calls take names. No hook may carry a program twice, none
  may be left behind, and every TAP must end up with both. (With another tool's
  `ingress` qdisc on an older kernel both end up on one hook, which the code documents
  as beyond its means, section 6.)
* **Engine loop.** Edits, signals, errors and timers meet in one task over a bounded
  channel, from the first moment of the startup. No edit may be lost silently, no timer
  may starve, and a metrics push that hangs may neither overlap the next nor end the
  pushing.

* **Configuration.** A chain of checks with early returns, over ranges in file order
  and overrides that inherit. It must accept exactly the well-formed documents, cut
  ranges into prefixes that cover no other address, and let nothing through that the
  data path cannot enforce.
* **IPC and UI.** The client blocks on one request at a time with a timeout, while the
  daemon reloads, crashes or answers late, and trend queries answer on a channel of
  their own. No reply may be taken for that of another request, nothing may be shown
  under another's name, and no connection or permit may be lost for ever.

The full list, line by line, is under "hazards" in `PROJECT.json`.

## 2. Modules

| Module | Models | Code |
| --- | --- | --- |
| `LimitTx` | the transactions, one map operation per step, with packets in police() in between | `txmaps.rs`; `apply_tick_actions`, `apply_config`, `apply_and_commit`, `run_limit_actions`, `EngineMaps` in `daemon.rs` |
| `AtomicLimits` | what the transactions promise: abstract specification | `apply_tick_actions`, `apply_and_commit` |
| `LimitTxProofs`, `LimitTxAtomicProofs` | theorems about `LimitTx`: the hard invariant; the implementation of `AtomicLimits`, no entry leaks and rollbacks find room | |
| `RollingWindow` | the sample ring, as operators | `window.rs` |
| `Limiter` | the NORMAL/LIMITED lifecycle under ticks and reloads | `limiter.rs`; `collect_tick`, `reload` in `daemon.rs` |
| `Collector` | the life of the counter keys | `collector.rs`; eviction and `rescan_taps` in `daemon.rs`; `count`, `count6`, `record_verdict` |
| `Policer` | the six policing algorithms, fed by CPUs that race for the lock and by packets that hold a displaced policy | `police` and what it calls in `vm-bandwidth-ebpf`; `swc_carried_bytes` |
| `Attach` | the scans that attach and detach the programs, one system call per step | `tc.rs` |
| `EngineLoop` | the branches of the engine task, the watcher, signals, timers, the push | `run_daemon`, `reload`, `spawn_watcher`, `run_metrics_push` in `daemon.rs` |
| `IpRanges` | ranges of addresses and their prefixes, as operators | `ip_range.rs` |
| `Policy` | merge and completeness of policies, as operators | `policy.rs` |
| `Config` | the loading of a document, and what the limiter and the whitelist make of it | `config.rs`, `units.rs`; `build_index` in `limiter.rs`, `prefix_set` in `daemon.rs` |
| `Ui` | the UI client, the IPC server and the engine's answers | `ui.rs`, the state of `tui.rs`, the IPC part of `daemon.rs` |
| `LimiterProofs`, `CollectorProofs`, `PolicerProofs`, `AttachProofs`, `ConfigProofs`, `UiProofs` | theorems about the modules of these names | |
| `MCLimitTx`, `MCLimiter`, `MCCollector`, `MCPolicer`, `MCEngineLoop`, `MCConfig`, `MCUi` | small instances | |

How they fit together: `LimitTx` leaves *when* a flow enters or leaves LIMITED open,
`Limiter` decides it as the code does. `Limiter` in turn takes each limit action as
applied or refused, which is what `AtomicLimits` says of the transactions as long as
no rollback has failed, and takes the collector's totals as an input that may grow,
stay or vanish, which is what `Collector` produces. `Policer` is what happens inside
`ReadPolicy` and `Judge` of `LimitTx`. `EngineLoop` shows that the handlers of the other modules
keep being called: its `Fire` is the tick of `Limiter` and `Collector` and the scan of
`Attach` and `Collector`, its `Reload` their reload. `Config` produces what the others
take as given: the configurations of `Limiter`, the prefixes of `LimitTx`, policies
within the bounds that `Policer` assumes. `Ui` reads what `collect_tick` and `reload`
leave behind.

### LimitTx

State: the four maps (`limit_policies`, `artifacts` for LIMIT_STATE and SWL_LOG,
`policer_stats`, `monitored`), the limiter's view (`limited`, `expired`), the visible
`prefixes`, `degraded`, and the running transaction: `pc` names its next map
operation, `journal` is the `TxJournal`. `install_limit` is InstallLookup, DisarmOld,
ClearOld, WriteState, Arm; `remove_limit` is RemoveLookup, Disarm, ClearState,
ClearPolicer; the whitelist loops are WhitelistAdd and WhitelistRemove. Every
operation may fail (`Fail`): for lack of room, or with one of `MaxFaults` injected
errors. `rollback_journal` plays records back in reverse (UndoNext to UndoDone), and
its operations may fail as well (`UndoFail`). A removal of an absent key succeeds
(`map_gone`). A packet takes three steps, on any CPU and with any of the engine's in
between, as in `police`: `ReadPolicy` copies the policy, `Judge` looks the state up and
runs the critical section on it, `RecordVerdict` increments the policer entry or creates
it. What a packet does to an artifact is kept apart by whether its policy is still the
armed one (`Touched`): "used" if so, "late" if the artifact was fresh. The lookup of the
artifact and the critical section are one step; that the engine replaces the element in
between, and the packet then writes to memory that no lookup finds any more, is left out,
as it changes no map. `recreated` remembers the entries that `RecordVerdict` made for a
flow without a policy. `recreated`, `before`, `clean` and `undoFaults` are observations,
not program state.
The engine surfaces the reports of a tick after its last action; the model sets
`degraded` at the end of each rollback, which only shows earlier.

### Limiter

One step is one handler of the engine: `Tick` is `collect_tick` (poll, limiter tick,
application of the actions, revert of the refused ones), `Reload` a successful reload
including the tick it ends with. Instead of the instants `limited_since` and
`limited_until` a LIMITED flow carries its age and its duration, so time is relative
and the state space finite. `seen` and `observed` record, for the properties only,
the bytes and the time since the observation of a flow (re)started.

### Collector

`Packet` creates or increments a counter; `Poll` is `collect_tick` up to the eviction,
over the keys the poll could read; `Evict` removes one idle key, packets may come
first; `Rescan` is `rescan_taps` with the set of attached TAPs as input. The verdict
counters of a flow come and go with its limit: `Arm`, `remove_limit`, and
`record_verdict`, which a packet in flight may execute once more after the removal.
`sent`, `counted`, `baseline`, `removed` and `quiet` are observations. Values are
packet counts; per-CPU sums, rates and the aggregates of a range, which are functions
of one poll, are left out. The module covers the IPv6 aggregate (`Ipv6`), the instance
has no key of it.

### Policer

`ReadClock` copies the policy and takes a packet's timestamp, `Judge` is the critical
section; between them the clock and the other CPUs go on. `ReadClockLate` is a packet
that has copied a policy which a re-install then displaces: it runs the old algorithm,
with the old parameters, on the new state if both algorithms share a map (`SameMap`).
The algorithms are operators from policy, state, timestamp and length to a verdict and
a new state; all six judge the same packets, so that they can be compared. `judged` is
the history the properties speak about. Time and bytes are scaled (`NsPerSec`), numbers
are naturals: under the bounds of `check_policy_bounds` (1 Tbps, 1 GiB, 60 s) no product
of the code reaches 2^64.

### Attach

`Scan` is the discovery and the plan of `reconcile`; `Detach`, `EnsureClsact`,
`AttachIngress`, `AttachEgress` and `DetachIngress` are its system calls, each of which
may fail; `Create` and `Destroy` are the hypervisor, between any two of them.
`Shutdown` is the `Drop` of the manager. Kernels with TCX need no qdisc; on older ones an
attach without one is refused (`Answer`) and another tool may have put a `clsact` or an
`ingress` qdisc there. The latter accepts the egress parent too, as tc.rs:16-19 says, and
runs that filter on its one ingress block: `links` says which programs were attached,
`Running` which hooks run them. An ifindex is not given out twice, as in the kernel (short
of a wrap of its counter).

### EngineLoop

Startup is two steps after parsing, `SpawnWatcher` and `Compare`; then every branch of
`select!` is an action. The watcher is the debouncer (`noticed`), its thread, which
waits in `blocking_send` (`sending`), and the channel (`queue`). Deadlines are relative
to the clock. A push that is due becomes a task (`push_metrics`), which takes the
single-flight slot when it runs (`RunPush`, `try_start`) or is skipped; `PushEnds` drops
its guard, whether the push was answered, failed, timed out or panicked (`Released`).
`posting` counts the tasks inside `metrics::push`. `owed` records a signal that has had no
reload yet, `lost` that the loop found the channel full of watcher errors when it
received one. Requests of clients
only read and are left out here: the engine answers on a oneshot channel and never
waits for a client, and 16 connections with one request each cannot fill the 32 slots
of the channel.

### Config, IpRanges, Policy

`load` is one step, `parse` an operator from a document to the validated configuration
or the first error: each `Require` is one check of the code, `FirstError` the early
return. The document is a record, a quantity a number with a unit, a range the parts
between its dashes; multipliers and bounds are constants of which only the order
matters. Addresses have `Width` bits. The properties compare with `WellFormed`, which
says address by address what a document should be, without an order of checks, without
sorting and without inheritance rules: what governs an address is found by looking the
text up. For the settings that are single numbers there is no second way to say what is
legal than the bound itself, and `WellFormed` reuses their checks: what `AcceptsExactly`
can catch are errors in ranges, overrides and inheritance, and in the order of checks.

### Ui

`Iterate` is one turn of the loop of `run_ui`: draw (which clamps the cursor), one key
or none, the emptying of the trend channel, and a poll if it is due or the key asked for
one. A poll runs up to its request and blocks (`pc`); `OverviewReply`, `DetailReply`,
`EndOfStream` and `Timeout` end it. `Accept`, `handle_connection` and `send_response`
are the server's side of a connection, `collect_tick`, `reload`, `Crash` and `Restart`
the engine's. `FetchDone` ends a trend query and `TrendAges` makes a trend due after
thirty seconds. A reply carries the daemon's version of its data, so that "older than
the last poll" can be said (`asked`).

## 3. Runs

| Run | Checks |
| --- | --- |
| `limit_tx` | two flows, two policies (one in LIMIT_STATE, one in SWL_LOG), one ring slot, a packet in flight, two faults: the invariants of the transactions and the refinement of `AtomicLimits` |
| `limit_tx_whitelist` | one flow, two policies that share LIMIT_STATE, a packet in flight, four prefixes (a /31, the two /32 in it, a stranger), a trie of three, two faults: no coverage gap, policies become armed on fresh state, and the refinement, which includes the rollback of the prefixes |
| `limiter` | both directions of an address, reloads, late ticks, two refused actions: no false trigger, LIMITED flows are governed by the configuration, the data path agrees with the phases, limits end |
| `limiter_short_window` | **violation**, see section 6 |
| `collector` | one address behind two TAPs and one limited flow, one fault: accounting, idle eviction, pruning, late verdicts, reclaiming of dead keys |
| `policer` | two CPUs, four packets, three policies (one exact, two that round), four displaced ones, from three ticks after boot on: what passes, agreement of the buckets, admissible frames |
| `attach` | two TAPs, three interfaces, both kinds of kernel, every foreign qdisc, two faults: ownership of the programs, wholeness, backoff, convergence |
| `attach_half` | **violation**, see section 6 |
| `engine_loop` | three versions of the file, a channel of one slot, the push timer, two tasks that have not run yet: no edit is silently lost, signals are served unless errors fill the channel, timers recur, there is at most one push and pushing goes on |
| `config` | 32,617 documents over eight addresses: which are accepted, what the whitelist covers, what reaches the data path |
| `ui` | three keys, two connections with one permit, one fault, one change of the data: nothing stale without an error, everything under its own name, recovery, trends settle |
| `ui_stale_trend` | **violation**, see section 6 |

Every property of a passing run has a mutant: a variant of a mapped definition that a
plausible bug would give (a dropped early return, a forgotten reset, a swapped
order), under which TLC finds the property violated. The type invariants are not among
them: `LimitTx` and `Limiter` are proved to keep theirs (section 4).

**Bounds.** Two flows suffice for the transactions because operations on different flows
meet only in the capacities of the maps and in the order of the journal; a ring capacity
of one makes a full map reachable with two flows, and two faults cover a forward failure
and a failing rollback step (a forward failure for lack of room costs none). One CPU has
one packet in flight at a time; it may be at any of its steps across a whole transaction
and into the next. Two packets in flight would share only the contents of an artifact and a
policer entry; the proofs cover any number of them. The trie of three cannot hold arbitrary old and
new prefixes together, so both the refusal before the first operation and reloads at the
limit occur. The limiter's windows are two or three ticks (one to three where a
violation is sought) and durations one to three seconds: long enough for a ring to wrap,
for a limit to outlive a window and for a reload to shorten or lengthen a running limit.
`MaxBytes` lets a flow fill its window more than once. In the collector one key has two
packets, so that a re-created counter can be below and at the sample it had before, one
slot of TRAFFIC makes the map full, and `IDLE_EVICT_POLLS` is 2, the smallest value with
a partial count. In the policer four packets overflow a log of two entries, burst and
window are exceeded, and eight ticks span two windows; the clock starts at three, before a
window of four has passed since boot and with buckets that are full by then and others
that are not; a CPU waits up to one tick for
the lock, which is enough for a timestamp to be overtaken by one that rolls the window.
Three interfaces let one name be recreated while another is attached, and two faults
cover an egress failure and a failing rollback of the ingress program. A channel of one
slot is filled by a reload or by an error, which are the two ways in which a signal can
meet a full one. The timers share nothing but the loop, so one stands for all: the push
timer, whose period a reload may shorten and lengthen. The documents of `config` differ from a good one in their settings, in
the geometry of one range of any text, two of any intervals and names or three in any
order, in up to two missing fields of a range with an override of up to two fields, in
every unit and bound, or in the place of two overrides; three bits are enough for every
alignment of three ranges and for the last address. Three keys open any screen, select
and come back; one change of the data and one fault per behaviour, restarts aside, give
a late reply, a crash in any state of a request and a reload that moves a range to
another row. The runs of `Policer`, `Attach`, `EngineLoop`, `Config` and `Ui` switch the
deadlock check off: packets and keys run out, a document is loaded once, a process can
be shut down.

**Fairness.** `Limiter` assumes only that the engine keeps ticking (the collect deadline
of the loop in `run_daemon` is never pushed out), `Collector` that polls, scans and the
removals of a running handler go on, the TAPs need not change for it. Reloads and
packets are never assumed. `Attach` assumes that scans are started and go on.
`EngineLoop` assumes weak fairness of each branch (`select!` picks at random among the
ready ones), of the debouncer, of a spawned push task and of its end (the HTTP
client has a timeout) and of the clock, and strong fairness of the watcher's send: the channel serves waiting
senders in order, so one that waits gets a slot although `try_send` competes for it.
Edits, signals, errors, TAPs, reloads and shutdowns are never assumed. `Ui` assumes weak
fairness of the loop of the UI (it polls every second, and a reply that lies in the
socket is read), of the server's tasks, of the collector's tick, of a restart by the
service manager (`Restart=on-failure` in dist/vm-bandwidth-monitor.service) and of the
end of a query (the HTTP client has a timeout of five seconds). Nothing is assumed of
the operator, and nothing of the thirty seconds after which a trend is fetched again.
Refused operations, crashes and timeouts are bounded in number, so "retried until it
works" does not rest on a fairness assumption about the kernel.

`LimitsEnd` is checked with windows longer than one tick. With a window of a single
tick, the tick that ends a reload may limit a flow again in the same handler that
released it, so the release is not visible between two handlers.

## 4. Proofs

Every theorem holds for all values of the constants that satisfy the assumptions named
below: any number of flows, keys, TAPs, CPUs, packets, connections and faults, any map
capacities, any policies and documents. Each module of proofs states its inductive
invariant, shows with a lemma per action that it is preserved, and derives its theorems
from it. The configurations of section 3 give the constants values that satisfy the
assumptions, and TLC evaluates these on every run.

**`LimitTxProofs`**: `TypeCorrect` (`TypeOK`) and `HardInvariant` (`ArmedHasState`, the
invariant that `txmaps.rs` calls hard: an armed policy always has the state artifact of
its algorithm). `ArmedHasState` is not inductive: whether a clear may hit an armed flow
depends on where the engine is. The inductive invariant `IInv` adds what each program
point knows about the action (`ActionInv`), about the maps (`MapInv`: a flow whose
artifact is about to be cleared is unarmed, one about to be armed has its artifact),
about the record being played back (`UndoInv`) and about the journal (`JournalInv`: only
the last install may be half done, and a half-done install that has written its state
has left its flow unarmed). `JournalInv` is what the rollback rests on: it clears the
state of a record that never armed without disarming first. Assumptions:
`PolicyAssumption` (sentinel values are no policies) and `BoundAssumption` (capacities
are natural numbers, flows and prefixes finitely many, as IPv4 addresses are).

**`LimitTxAtomicProofs`** goes from the safety of the maps to their meaning, under the
same assumptions. `Refines` is `ImplementsAtomicLimits`: every step of the transactions is
a step of `AtomicLimits` or a stutter, under the mapping that shows a running transaction
the maps as they were when it began. This needs to know at every program point in what
the maps differ from that state. `TxInv` says it: a record of the journal tells what its
step has confirmed (`RecordInv`), a flow without a record has not changed unless a
rollback failed (`UntouchedInv`), the trie is the old one plus and minus the prefixes in
the journal (`TrieInv`), and what is still to be done is exactly what separates the
maps from the goal (`PlanInv`, `DoneInv`). `AgreeInv` is the outcome: without degradation
the data path and the limiter agree. `Meaning` states all of it. From it follow
`NormalNeverPoliced` (`NormalIsUnpoliced`), `MapsFollowControl`
(`DataPlaneMatchesControl`), `SwapKeepsCoverage` (`NoCoverageGap`) and `ArmsFreshly`
(`ArmsOnFreshState`, an action property: between the write of a state and the arming it is
touched by no packet but those that had copied a policy before it was disarmed). The packets
in flight need no invariant of their own beyond their type: a packet that finds no policy at
its lookup leaves, so whatever is judged while the flow is unarmed read its policy before, and
makes a fresh artifact late but never used (`FreshInv`).

Its second part accounts for every entry of the maps. `NoEntryLeaks` is `NoOrphans`. The
invariant `OrphanInv` says whose each artifact and each policer entry is (`Tidy`): that of a
packet which recorded its verdict when the policy had gone (policer entries only,
`recreated`), the armed policy's, the action's under way (which has disarmed a policy and not
yet cleared its state, or written a state and not yet armed), or, in a rollback, that of a
record still to be played back, which will clear it or arm over it. `Tidy` is claimed as
long as no rollback step has failed. It needs `AgreeInv` in one place: a reload installs
only over an armed policy, so when a rollback takes the new policy away the displaced one
comes back and keeps the flow's policer entry. `RollbackFits` is `RollbackNeedsNoRoom`. A
reload may install into room that an earlier record of the same journal has freed, so the
entries that are to come back do not fit next to those that are there now: what makes
the rollback succeed is the reverse order. `RoomInv` therefore speaks of the states that
playback goes through: for each i, the entries that the maps hold once the installs from
the i-th on are undone are no more than the maps' capacities. `Restored`, which rests on
`OrphanInv` and `TxInv`, shows that playing back a record leads from one of these states to
the next. The steps for removals and prefixes compare with the maps as they were when
the journal was new. Counting needs the finiteness in `BoundAssumption`.

**`LimiterProofs`**: `TypeCorrect` (`TypeOK`, which bounds the ring, its head and
`observed` by the window's size), `TotalsAreSums` (the running total of a ring is the
sum of its samples, however often it wrapped, was reset or changed its size; the sum is
given by a function of prefix sums, which each sample shifts from its place on),
`ReloadGovernsLimits` (`LimitedIsGoverned`), `MapsMatchPhases` (`ArmedMatchesPhase`) and
`NoLimitOverstays` (`OverdueOnlyIfRefused`, an action property). A step is a whole handler
that computes in stages, so the invariant is stated as a predicate of the values
(`StatesOK`, `WindowsOK`) that one stage hands to the next, and each stage has a lemma.
`LimitsHaveCause` is `NoFalseTrigger`: no flow becomes limited unless the bytes of its last
polls reach the trigger line over the window, whatever counters vanished or restarted,
whatever was reloaded and refused before. Its invariant `SeenInv` connects the ring with
the polls: `HistoryOK` says that the sample `d` places back from the head is no more than
the bytes of the `d`-th last poll, for as many polls as the ring has observed, and that a
window has the size of the policy in force; `BaselineOK` that no total is above its
baseline, so that the difference the limiter samples is no more than the poll brought. At the trigger the
ring's total, a sum over places (`TotalsAreSums`), is compared with the sum over polls; the
prefix sums of the one, taken from the head on, stay below those of the other.
Assumptions: `WindowAssumption` (ticks and rings are positive) and `LimiterAssumption`
(policies are policies, gaps of ticks positive, finitely many addresses).

**`CollectorProofs`**: `CountsAtMostOnce` (`NeverOvercounts`), `LosesNothingInPlace`
(`NothingLostInPlace`), `TotalsAreBounded` (`TotalsOwnKeys`), `ReportsOnlyIdleKeys`
(`IdleMeansIdle`) and `PrunesOnlyDeadTaps` (`LiveCountersKept`), the last two action
properties. That nothing is counted twice is not inductive, because a poll may add a
whole difference at once: `Ahead` accounts for what the next poll would add, whatever was
removed before it. `InPlace` says that a key which stayed in the map is never sampled
above its value, `IdleLags` that the count of idle polls of a key at rest is below the
number of polls without a packet. Assumption: `CollectorAssumption` (flows and counters
are different keys, bounds are natural numbers).

**`PolicerProofs`** relates each algorithm's state to the history of the packets it has
judged, for any policy within `check_policy_bounds`, any lengths and any interleaving of
the CPUs, overtaken timestamps included. `NoMoreThanTheBurst` (`BurstBound`) rests on
`BucketOk` (what passed since a packet is still in the bucket or has had the time to leave
it, up to what the divisions round away; a token bucket is a leaky one upside down, so both
have one proof) and `GcraOk` (it lies between that packet and the theoretical arrival
time). `WindowsAreKept` (`WindowBound`) rests on `WindowOk` (what passed since a packet was
used in windows that began less than a window before it; the sliding counter carries part
of the previous one, `CounterOk`) and on `LogOk` (the last packets that passed are in the
ring, one to a slot back from its head). `TheBucketsAgree` (`SameDecisions`) has the
invariant that the levels of token and leaky bucket add up to the capacity, and that GCRA's
arrival time is the time at which the leaky bucket will be empty; `WarningsTellTheTruth`
(`AdmissibleFrames`) derives from the states what passes after a pause. The history's sums
are folds of the library, which it defines by a CHOOSE over recursive functions: that they
add up is proved from a minimal finite set on which they would not. Assumption:
`PolicerAssumption` (policies within the bounds of the configuration, positive units). Scope:
`BurstBound` and `WindowBound` are proved for flows without a packet of a displaced policy
(`displaced = None`); with one they stay with TLC. The theorems hold from boot on, with no
assumption on how long the host has been up: where the program depends on that, the
properties say so of the history. The log is claimed to be exact for stretches whose
packets come a window after boot or later (`SinceBoot`), the two buckets to agree on every
packet if the first came when a bucket had had the time to fill, and a pause counts as
such (`IdleBefore`) only while the host was up. Section 6 shows what happens before.

**`AttachProofs`**: `ProgramsOwnedOnce` (`OwnedOnce`), `AttachedMeansBoth`
(`AttachedIsWhole`) and `EveryTapIsAttempted` (`RecreatedIsAttempted`, an action
property). The system calls take names, so the invariant says where the interfaces that
the manager remembers can still be (`HomeInv`), what a scan still has to do about each
TAP it found (`ScanInv`), that an ifindex is given out once (`NetInv`), and that the programs
attached to a live interface are exactly those that the manager holds there, as long as no
rollback has leaked one (`LinkInv`). From that it is counted which hook runs them (`RunningIs`):
one program on each, or, on a foreign `ingress` qdisc, the pair on one. Assumption: `AttachAssumption` (bounds are natural
numbers, sentinels differ from values).

**`ConfigProofs`**: `AcceptsTheWellFormed` (`AcceptsExactly`): `parse`, with its checks in the
order of the code, accepts exactly the documents that `WellFormed` describes address by
address. Each check with early returns is turned into the condition that it decides (the
lemmas named `...Iff`: the first error is one of least index), from the fields of a policy
up to the document. What is not a matter of order has arguments of its own: that sorted
neighbours do not overlap means that no address is in two ranges (if two ranges share an
address, so do the first of them and its successor in the order), that the number of
distinct names is the number of ranges means that no two are equal, and a direction that is
merged from a range and an override has the shape of the text that governs it.
`AcceptedIsEnforceable` (`EffectiveIsEnforceable`) follows through the fields: every policy
that the index yields for an address is within the data path's bounds, and one that admits
no whole frame has its warning. Assumptions: `IpRangesAssumption`, `ConfigAssumption` (units
and bounds are positive, the least rate at least 100 bps, sentinels differ from values) and
`DocumentAssumption` (documents have the shape that the deserializer gives them).

**`UiProofs`**: `ShowsNothingStale` (`StaleIsFlagged`) and `NamesAreRight`
(`ShownUnderItsName`, an action property). The protocol matches replies to requests only by
order, so the invariant says what lies in the client's connection (`ClientInv`): one
request or one reply, never both, nothing while no poll waits, and a reply is no older
than the poll that waits for it; further that a snapshot is of the configuration in
force (`DaemonInv`), which screen may hold which view (`Coherent`), and what the poll under
way has established (`PollInv`). Assumptions: `UiAssumption` and `NameAssumption`
(`validate_ranges` accepts no range with the name of the aggregate row; sentinels differ
from values).

**What stays with TLC**, and why:

* all liveness (`LimitsEnd`, `DeadKeysReclaimed`, `Converges`, `SignalsServed`,
  `TimersRecur`, `PushesGoOn`, `NeverSilentlyStale`, `UiRecovers`, `TrendSettles`): fairness and ENABLED
  are beyond the prover;
* `OnePush`, whose argument is one atomic swap;
* `BurstBound` and `WindowBound` for flows with a packet of a displaced policy: the
  invariants above do not hold in the states that such a packet can leave;
* `WhitelistIsExact`: `cidrs` cuts a range by a loop whose steps are powers of two. What a
  recursion computes for every input needs induction over data, and of powers the
  provers know nothing.

## 5. Not modelled

The replacement of a state element between a packet's lookup of it and the lock, after
which the packet writes to memory that no lookup finds any more. Rendering (columns,
header lines, sparklines), formatting, the sort order and the row cursor of the detail
table, the TOML and URL syntax, the parsing of frames, terminal and HTTP I/O, the texts
of the metrics push and the JSON encoding: functions from data to text without state of
their own. Malformed and oversized requests, which only another
client could send. The counter of oversized packets, which never influences a verdict.
Rates and range aggregates of the collector. The loading of the eBPF object and the
instance lock, which precede every step modelled here. A shutdown ends the process and
its maps; nothing is persisted, so there is no recovery of data to model, and the restart
of the daemon is one action of `Ui`.

## 6. What the checks showed

The properties of section 3 hold. Three statements of the documentation do not:

* *"Only after a full `window` has been observed"* (README.md:173). The ring counts
  ticks, and a successful reload adds one at once (daemon.rs:477): a 2 s window can be
  full after 1 s. Run `limiter_short_window`.
* *"nothing half-attached escapes this function"* (tc.rs:170-171). Both attaches name
  the TAP: when it is recreated between them, the ingress link is on the old interface,
  the egress link on the new one, and the function returns success (tc.rs:194). Run
  `attach_half`. `AttachedIsWhole` and `Converges` show that the next scan notices and
  repairs it, because the manager recorded the ifindex it had discovered.
* *"it belongs to the previous selection and must not appear under the new title"*
  (tui.rs:78-79). The loop handles the key, empties the trend channel and only then
  polls; the sequence number that marks older queries as superseded is taken in that
  poll (ui.rs:541). A result that is in the channel when the key is handled therefore
  passes for current and is shown under the new title, until the new query answers. Run
  `ui_stale_trend`. `TrendSettles` shows that it does not stay.

Three more are contradicted where a property of section 3 makes an exception, and only
there. Each exception is named in the property, and TLC finds a counterexample without it:

* *"`SIGHUP` triggers one config reload"* (README.md:98-99; daemon.rs:1421-1423 says that it
  does without a working watcher, too). The loop passes the signal on with `try_send` and
  drops the result (daemon.rs:1460). If the eight slots of the channel are full of watcher
  errors the reload is lost without a trace. `SignalsServed` excuses just that (`lost`) and
  shows that it is the only way to lose one, with or without a watcher.
* *"Wrapping subtraction is harmless"* (ebpf main.rs:664-665) and *"Exact window bytes"*
  (README.md:200). While the clock, which starts at boot, is below `limit_window` (60 s at
  most), the lower end of the window wraps around and not only the zeroed entries but the
  real ones lie outside: the log limits nothing until then. `WindowBound` excuses these
  packets (`SinceBoot`) and shows that the log is exact from then on.
* *"for equal `burst` and limit they make the same decisions"* (README.md:203-205). A zeroed
  state says that its last update was at boot. To the leaky bucket and GCRA that means that
  the whole burst is free, to the token bucket that it has earned what the rate gives since
  boot: until `capacity / per_ns` has passed (ebpf main.rs:483) it may drop what they pass,
  for hours if the burst is large and the rate low. `SameDecisions` compares the buckets
  where a bucket could have filled since boot (`FullNs`) and shows that they agree then.
  GCRA makes their decisions only as long as timestamps arrive in order: an overtaken packet
  is judged by its own timestamp and therefore more strictly.

Remarks without a run:

* README.md:324-326 says "an entry created since the last poll (... evicted key coming
  back) counts from zero". A key that is evicted and re-created before the next poll
  still has its old sample (collector.rs:340) and is compared with it, so part of its
  new traffic may not be counted. `NeverOvercounts` shows that the error is on the safe
  side.
* A verdict recorded after `remove_limit` leaves a POLICER_STATS entry (ebpf main.rs:433)
  that nothing removes until the flow is limited again and released. It is counted once
  (`NeverOvercounts`), there is at most one per flow, and no other entry is left behind
  (`NoOrphans`).
* On an older kernel with another tool's `ingress` qdisc on a TAP the attach succeeds, both
  programs run on the ingress block and the TAP is recorded as attached: both see what the
  VM sends (`tc_egress` takes it for the traffic of its destination), neither what it
  receives. tc.rs:16-19 documents it as undetectable and asks to
  remove such a qdisc; `AttachedIsWhole` and `OwnedOnce` state it. The comment in `attach_flow`
  (tc.rs:196-198) still counts such a qdisc among the reasons for which the egress attach is
  refused; if that header is right, the retry after `ensure_clsact` and its `conflict` report
  (tc.rs:208-217) are left for a qdisc that vanishes between the two attaches and for other
  causes of the same error.
* A packet that holds a displaced policy (ebpf main.rs:342) may leave a state that GCRA
  reads as a theoretical arrival time in the future, or a token bucket as more tokens
  than the new burst. (To `LimitTx` its touch makes the state "late": `ArmsOnFreshState`
  allows this and nothing worse.) `BurstBound` and `WindowBound` show that each such packet
  is worth at most one more burst or window, for the token bucket and GCRA as long as no timestamp
  is overtaken: what the packet leaves in their states lets an overtaken one pass that the
  burst no longer covers. (The attempt to prove it for GCRA in any order failed for this
  reason; TLC finds the case with three CPUs and six packets.) In the other direction the
  new policy may drop until the clock has passed the value, which is why
  `AdmissibleFrames` and `SameDecisions` are claimed only without such a packet.
* The detail view is requested by the index of its range (ui.rs:271): after a reload that
  reorders the ranges it shows another range, under that range's name.
* The comment at daemon.rs:886-889 says a reused key has "absent prev => zero delta";
  `apply_poll` counts the whole value of a key without a previous sample once it is
  primed.

## 7. Plan

What would be worth adding, in this order:

1. An instance of `Collector` with an IPv6 key, and of `Ui` with two clients, once the
   state spaces allow it.
2. Proofs: that no product of the policers reaches 2^64 under the bounds of the
   configuration, which so far is only said of the model's naturals; `BurstBound` with a
   packet of a displaced policy in flight.
