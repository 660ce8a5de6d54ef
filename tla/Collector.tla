----------------------------- MODULE Collector -----------------------------
(***************************************************************************)
(* The life of the counter-map keys: the data path creates and increments  *)
(* TRAFFIC, TRAFFIC6 and POLICER_STATS entries, the collector turns them   *)
(* into deltas and totals and reports idle keys (collector.rs),            *)
(* collect_tick evicts those, rescan_taps prunes the keys of vanished      *)
(* TAPs, keeping failed removals for a retry (daemon.rs), and the removal  *)
(* of a limit clears its verdict counters.  Packets run between the poll   *)
(* that finds a key idle and the removal of that key, and record a verdict *)
(* after the limit they copied is gone.                                    *)
(*                                                                         *)
(* Abstractions.  A counter value is one number, every packet counts one;  *)
(* rates and range aggregates are left out.  A key belongs to an owner,    *)
(* its IPv4 address or Ipv6, the grand total of TRAFFIC6, whose keys are   *)
(* TAPs; a POLICER_STATS key (a flow) has no TAP.  Which TAPs the attach   *)
(* manager has attached after a scan, and when limits come and go, are     *)
(* inputs.                                                                 *)
(***************************************************************************)
EXTENDS Naturals, FiniteSets, FiniteSetsExt

CONSTANTS
    Counters,       \* TrafficKey and TRAFFIC6 keys
    Flows,          \* the keys of POLICER_STATS
    OwnerOf,        \* the IPv4 address of a key, or Ipv6
    TapOf,          \* the ifindex of a counter
    TapSets,        \* the sets of TAPs a scan may leave attached
    Ipv6,
    None,
    IdleEvictPolls, \* IDLE_EVICT_POLLS
    MapMaxEntries,  \* max_entries of TRAFFIC
    MaxSent,        \* bound: packets of each key
    MaxFaults       \* bound: incomplete polls, refused removals, keys a scan misses

Keys == Counters \cup Flows

ASSUME CollectorAssumption ==
    /\ \A k \in Flows : k \notin Counters /\ OwnerOf[k] # Ipv6
    /\ IdleEvictPolls \in Nat \ {0}
    /\ TapSets \subseteq SUBSET {TapOf[k] : k \in Counters}
    /\ {MapMaxEntries, MaxFaults} \subseteq Nat
    /\ MaxSent \in [Keys -> Nat]
    /\ None \notin Nat

Owners == {OwnerOf[k] : k \in Keys}
Ips == Owners \ {Ipv6}

VARIABLES
    traffic,        \* TRAFFIC, TRAFFIC6, POLICER_STATS: the value of a key, or None
    limit,          \* of a flow: "armed", "late" (gone, a packet may hold a copy) or "none"
    ips,            \* the configured addresses, those in MONITORED_IPS
    taps,           \* ifindexes of the attached TAPs
    prev,           \* Collector.prev, prev6, prev_policer: previous sample of a key, or None
    totals,         \* Collector.totals, ipv6: the entry of an owner, or None
    counts,         \* IdleTracker.counts; an untracked key has 0
    primed,         \* the first poll has recorded its baseline
    stale,          \* idle keys that the running collect_tick has yet to remove
    pending,        \* PendingRemovals.traffic
    faults,
    sent,           \* auxiliary: packets of a key the data path counted
    counted,        \* auxiliary: deltas of a key the collector added up
    baseline,       \* auxiliary: value of a key at the first poll
    removed,        \* auxiliary: keys that were removed at least once
    quiet           \* auxiliary: polls since the last packet of a counter

aux == <<sent, counted, baseline, removed, quiet>>
vars == <<traffic, limit, ips, taps, prev, totals, counts, primed, stale, pending, faults, aux>>

Value(v) == IF v = None THEN 0 ELSE v

-----------------------------------------------------------------------------
(* Data path *)

\* A full TRAFFIC map takes no new key; TRAFFIC6 holds every TAP.
Room(k) ==
    \/ OwnerOf[k] = Ipv6
    \/ Cardinality({j \in Counters : OwnerOf[j] # Ipv6 /\ traffic[j] # None}) < MapMaxEntries

Counted(k) ==
    /\ sent[k] < MaxSent[k]
    /\ traffic' = [traffic EXCEPT ![k] = Value(@) + 1]
    /\ sent' = [sent EXCEPT ![k] = @ + 1]
    /\ quiet' = [quiet EXCEPT ![k] = 0]
    /\ UNCHANGED <<ips, taps, prev, totals, counts, primed, stale, pending, faults,
                   counted, baseline, removed>>

\* count and count6: a packet of a configured address, or IPv6, at an attached TAP.
Packet(k) ==
    /\ TapOf[k] \in taps
    /\ OwnerOf[k] \in ips \cup {Ipv6}
    /\ traffic[k] = None => Room(k)
    /\ Counted(k)
    /\ UNCHANGED limit

\* A packet that copied the policy of a flow records its verdict, be the policy gone
\* or not, and creates the entry if there is none.
record_verdict(k) ==
    /\ limit[k] # "none"
    /\ limit' = [limit EXCEPT ![k] = IF @ = "late" THEN "none" ELSE @]
    /\ Counted(k)

-----------------------------------------------------------------------------
(* Limits come and go *)

Arm(k) ==
    /\ limit[k] # "armed" /\ OwnerOf[k] \in ips
    /\ limit' = [limit EXCEPT ![k] = "armed"]
    /\ UNCHANGED <<traffic, ips, taps, prev, totals, counts, primed, stale, pending, faults, aux>>

\* remove_limit: the policy is disarmed, then the verdicts are cleared.
remove_limit(k) ==
    /\ limit[k] = "armed"
    /\ limit' = [limit EXCEPT ![k] = "late"]
    /\ traffic' = [traffic EXCEPT ![k] = None]
    /\ removed' = removed \cup {k}
    /\ UNCHANGED <<ips, taps, prev, totals, counts, primed, stale, pending, faults,
                   sent, counted, baseline, quiet>>

-----------------------------------------------------------------------------
(* Collector::apply_poll over the keys that the poll could read *)

\* A counter that went backwards is a zero delta; a key without a previous sample
\* started at zero; the first poll is a baseline.
Delta(k) ==
    LET p == Value(prev[k]) IN
    IF primed /\ traffic[k] > p THEN traffic[k] - p ELSE 0

\* Variant: every key that was read counts as changed.
ChangedAll(read) == read
Changed(read) == {k \in read \cap Counters : traffic[k] # prev[k]}

Saturated(n) == IF n > IdleEvictPolls THEN IdleEvictPolls ELSE n

\* Variant: traffic does not restart the idle count.
ObservedKept(read) ==
    [k \in Keys |-> IF k \in Changed(read) THEN counts[k]
                   ELSE IF k \in read \cap Counters THEN Saturated(counts[k] + 1) ELSE 0]

\* IdleTracker::observe: unchanged polls in a row; keys that are gone are dropped, and
\* the verdicts of flows are not tracked.
Observed(read) ==
    [k \in Keys |-> IF k \in (read \cap Counters) \ Changed(read) THEN Saturated(counts[k] + 1) ELSE 0]

\* Variant: the samples of the keys a poll could not see are forgotten.
carry_forward_nothing(read, incomplete) == [k \in Keys |-> IF k \in read THEN traffic[k] ELSE None]

carry_forward(read, incomplete) ==
    [k \in Keys |-> IF k \in read THEN traffic[k] ELSE IF incomplete THEN prev[k] ELSE None]

\* Variant: totals stay for good.
RetainedAlways(o, read, incomplete) == TRUE

\* Totals stay for owners that still own a key, and for all after a failed read.
Retained(o, read, incomplete) ==
    o = Ipv6 \/ incomplete \/ \E k \in read \cap Counters : OwnerOf[k] = o

Entry(bytes, verdicts) == [bytes |-> bytes, verdicts |-> verdicts]

\* The totals after a poll, for the owners that the configuration keeps.
Accumulated(kept, read, incomplete) ==
    [o \in Owners |->
       LET old == IF o \in kept \cup {Ipv6} /\ Retained(o, read, incomplete) THEN totals[o] ELSE None
           moved == {k \in read : OwnerOf[k] = o /\ Delta(k) # 0}
           base == IF old = None THEN Entry(0, 0) ELSE old
       IN  IF old = None /\ moved = {} THEN None
           ELSE Entry(base.bytes + MapThenSumSet(Delta, moved \cap Counters),
                      base.verdicts + MapThenSumSet(Delta, moved \cap Flows))]

\* collect_tick up to the eviction, after prune_ips(kept) if a reload calls it.
Poll(kept) ==
    /\ stale = {}
    /\ \E read \in SUBSET {k \in Keys : traffic[k] # None}, incomplete \in BOOLEAN :
         /\ (\E k \in Keys : traffic[k] # None /\ k \notin read) => incomplete
         /\ faults' = IF incomplete THEN faults + 1 ELSE faults
         /\ faults' <= MaxFaults
         /\ prev' = carry_forward(read, incomplete)
         /\ totals' = Accumulated(kept, read, incomplete)
         /\ counts' = Observed(read)
         /\ stale' = {k \in (read \cap Counters) \ Changed(read) : Observed(read)[k] >= IdleEvictPolls}
         /\ counted' = [k \in Keys |-> IF k \in read THEN counted[k] + Delta(k) ELSE counted[k]]
         /\ baseline' = IF primed THEN baseline
                        ELSE [k \in Keys |-> IF k \in read THEN traffic[k] ELSE 0]
    /\ primed' = TRUE
    /\ quiet' = [k \in Keys |-> IF k \in Flows \/ quiet[k] > IdleEvictPolls THEN quiet[k] ELSE quiet[k] + 1]
    /\ ips' = kept
    /\ UNCHANGED <<traffic, limit, taps, pending, sent, removed>>

Tick == Poll(ips)

\* A committed reload: the limits of the addresses it drops are gone, then prune_ips, the
\* new configuration, and the tick that ends it.
Reload(newIps) ==
    /\ \A k \in Flows : limit[k] = "armed" => OwnerOf[k] \in newIps
    /\ Poll(newIps)

\* remove_counter_keys on the idle keys of this tick: a refused removal is left to
\* the next poll.
Evict(k) ==
    /\ k \in stale
    /\ stale' = stale \ {k}
    /\ \/ /\ traffic' = [traffic EXCEPT ![k] = None]
          /\ removed' = removed \cup {k}
          /\ UNCHANGED faults
       \/ /\ faults < MaxFaults
          /\ faults' = faults + 1
          /\ UNCHANGED <<traffic, removed>>
    /\ UNCHANGED <<limit, ips, taps, prev, totals, counts, primed, pending,
                   sent, counted, baseline, quiet>>

-----------------------------------------------------------------------------
(* rescan_taps *)

\* Variant: pending removals go ahead although the ifindex is live again.
ToRetryAll(live) == pending

\* PendingRemovals::retry_traffic cancels the keys whose ifindex is live again.
ToRetry(live) == {k \in pending : TapOf[k] \notin live}

\* The prune runs when the set of TAPs changed, over keys that are not pending.
ToPrune(live, stillPending) ==
    IF live = taps THEN {}
    ELSE {k \in Counters : /\ OwnerOf[k] # Ipv6 /\ traffic[k] # None
                           /\ TapOf[k] \notin live /\ k \notin stillPending}

\* A scan that left `live` attached; `failed` removals are refused, and the
\* iteration over the map misses the keys in `missed`.
Rescan(live) ==
    /\ stale = {}
    /\ \E failed \in SUBSET {k \in Counters : traffic[k] # None}, missed \in SUBSET Counters :
         LET retried == ToRetry(live)
             stillPending == retried \cap failed
             pruned == ToPrune(live, stillPending) \ missed
         IN
         /\ failed \subseteq retried \cup pruned
         /\ missed \subseteq ToPrune(live, stillPending)
         /\ faults' = faults + Cardinality(failed) + Cardinality(missed)
         /\ faults' <= MaxFaults
         /\ pending' = stillPending \cup (pruned \cap failed)
         /\ LET gone == (retried \cup pruned) \ failed IN
            /\ traffic' = [k \in Keys |-> IF k \in gone THEN None ELSE traffic[k]]
            /\ removed' = removed \cup {k \in gone : traffic[k] # None}
    /\ taps' = live
    /\ UNCHANGED <<limit, ips, prev, totals, counts, primed, stale,
                   sent, counted, baseline, quiet>>

-----------------------------------------------------------------------------
Init ==
    /\ traffic = [k \in Keys |-> None]
    /\ ips \in SUBSET Ips
    /\ taps \in TapSets
    /\ prev = [k \in Keys |-> None]
    /\ totals = [o \in Owners |-> None]
    /\ counts = [k \in Keys |-> 0]
    /\ primed = FALSE
    /\ stale = {} /\ pending = {}
    /\ faults = 0
    /\ sent = [k \in Keys |-> 0] /\ counted = [k \in Keys |-> 0] /\ baseline = [k \in Keys |-> 0]
    /\ removed = {}
    /\ limit = [k \in Flows |-> "none"]
    /\ quiet = [k \in Keys |-> 0]

Evicting == \E k \in Keys : Evict(k)
Rescanning == \E live \in TapSets : Rescan(live)

Next ==
    \/ \E k \in Counters : Packet(k)
    \/ \E k \in Flows : Arm(k) \/ record_verdict(k) \/ remove_limit(k)
    \/ Tick
    \/ \E newIps \in SUBSET Ips : Reload(newIps)
    \/ Evicting
    \/ Rescanning

Spec == Init /\ [][Next]_vars

\* The engine keeps polling and scanning on its deadlines, and finishes a handler. TAPs
\* need not come or go for that.
FairSpec == Spec /\ WF_vars(Tick) /\ WF_vars(Evicting) /\ WF_vars(Rescan(taps))

-----------------------------------------------------------------------------
(* Properties *)

\* No byte and no verdict counts twice: whatever polls failed, keys were evicted, TAPs
\* vanished, limits or ranges came and went, the collector has added up no more than the
\* data path has counted.
NeverOvercounts == \A k \in Keys : counted[k] <= sent[k]

\* No byte or verdict is lost while a key stays in the map: what the collector added up for it,
\* with its baseline, is its latest sample.
NothingLostInPlace ==
    \A k \in Keys \ removed : counted[k] + baseline[k] = Value(prev[k])

\* The collector keeps nothing for addresses without a key: its totals are bounded by the
\* counter maps, even where verdicts come late or for traffic a full map did not count.
TotalsOwnKeys ==
    \A o \in Ips : totals[o] # None => \E k \in Keys : OwnerOf[k] = o /\ prev[k] # None

\* A key that was never removed is reported idle only if no packet came in any of
\* the IDLE_EVICT_POLLS intervals between the latest polls.
IdleMeansIdle ==
    [][\A k \in (stale' \ stale) \ removed : quiet'[k] > IdleEvictPolls]_vars

\* A pending removal never hits live counters: the only keys of attached TAPs that
\* leave the map are those the collector found idle.
LiveCountersKept ==
    [][\A k \in Counters : traffic[k] # None /\ traffic'[k] = None /\ TapOf[k] \in taps' =>
         k \in stale]_vars

\* Every key of a vanished TAP leaves the counter map and the pending set, or its
\* ifindex is attached again.
DeadKeysReclaimed ==
    \A k \in Counters :
        TapOf[k] \notin taps /\ (traffic[k] # None \/ k \in pending)
          ~> TapOf[k] \in taps \/ (traffic[k] = None /\ k \notin pending)

=============================================================================
