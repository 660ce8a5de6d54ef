-------------------------- MODULE CollectorProofs --------------------------
(***************************************************************************)
(* Proofs about Collector for any keys, TAPs, map sizes, idle limits and   *)
(* number of faults.  What the collector added up stays below what the     *)
(* data path counted because the delta of the next poll is accounted for   *)
(* in advance (Ahead); a key that never left the map only grows and is     *)
(* never sampled above its value (InPlace); and a count of idle polls      *)
(* lags the polls without a packet (IdleLags).                             *)
(***************************************************************************)
EXTENDS Collector, TLAPS

Values == Nat \cup {None}

TypeInv ==
    /\ traffic \in [Keys -> Values] /\ prev \in [Keys -> Values]
    /\ sent \in [Keys -> Nat] /\ counted \in [Keys -> Nat] /\ baseline \in [Keys -> Nat]
    /\ counts \in [Keys -> Nat] /\ quiet \in [Keys -> Nat]
    /\ primed \in BOOLEAN
    /\ stale \subseteq Counters /\ pending \subseteq Counters

\* What the next poll would add for a key, were it primed.
Due(k) ==
    IF Value(traffic[k]) > Value(prev[k]) THEN Value(traffic[k]) - Value(prev[k]) ELSE 0

\* No poll can overcount, whatever was removed before it.
Ahead == \A k \in Keys : counted[k] + Due(k) <= sent[k]

\* Nothing was added up before the baseline.
Unprimed ==
    ~primed => \A k \in Keys : counted[k] = 0 /\ baseline[k] = 0 /\ Value(prev[k]) = 0

\* A key that stayed in the map never went backwards.
InPlace == \A k \in Keys \ removed : Value(prev[k]) <= Value(traffic[k])

\* Idle polls of a key at rest are fewer than the polls without a packet.
IdleLags ==
    \A k \in Counters \ removed :
        traffic[k] = prev[k] /\ traffic[k] # None => quiet[k] > counts[k]

IInv ==
    /\ TypeInv /\ Ahead /\ Unprimed /\ InPlace /\ IdleLags
    /\ NothingLostInPlace /\ TotalsOwnKeys

-----------------------------------------------------------------------------
(* Samples *)

LEMMA ValueType ==
    ASSUME NEW v \in Values
    PROVE  /\ Value(v) \in Nat
           /\ v = None => Value(v) = 0
           /\ v # None => v \in Nat /\ Value(v) = v
  BY CollectorAssumption DEF Value, Values

\* The delta of a key that a primed poll reads is what was due.
LEMMA DeltaIsDue ==
    ASSUME TypeInv, NEW k \in Keys, traffic[k] # None
    PROVE  /\ Delta(k) \in Nat /\ Due(k) \in Nat
           /\ primed => Delta(k) = Due(k)
           /\ ~primed => Delta(k) = 0
  <1>1. traffic[k] \in Values /\ prev[k] \in Values
    BY DEF TypeInv
  <1> QED  BY <1>1, ValueType DEF Delta, Due

LEMMA Initially == Init => IInv
  <1> SUFFICES ASSUME Init PROVE IInv
    OBVIOUS
  <1>1. TypeInv
    BY DEF Init, TypeInv, Values
  <1>2. Ahead /\ Unprimed /\ InPlace /\ IdleLags /\ NothingLostInPlace /\ TotalsOwnKeys
    BY DEF Init, Ahead, Due, Value, Unprimed, InPlace, IdleLags, NothingLostInPlace, TotalsOwnKeys,
           Keys, Ips
  <1> QED  BY <1>1, <1>2 DEF IInv

-----------------------------------------------------------------------------
(* Packets, and keys that leave the map *)

\* A packet makes one more byte due, and moves its key away from the latest sample.
LEMMA CountedKeeps ==
    ASSUME IInv, NEW k \in Keys, Counted(k)
    PROVE  IInv'
  <1> USE DEF IInv
  <1>1. TypeInv'
    <2>1. Value(traffic[k]) \in Nat
      BY ValueType DEF TypeInv
    <2>2. Value(traffic[k]) + 1 \in Values
      BY <2>1 DEF Values
    <2> QED  BY <2>2 DEF TypeInv, Counted
  <1>2. /\ Value(traffic'[k]) = Value(traffic[k]) + 1 /\ traffic'[k] # None
        /\ \A j \in Keys \ {k} : traffic'[j] = traffic[j] /\ sent'[j] = sent[j] /\ quiet'[j] = quiet[j]
        /\ sent'[k] = sent[k] + 1
    BY CollectorAssumption, ValueType DEF TypeInv, Counted, Value, Values
  <1>3. \A j \in Keys : Value(traffic[j]) \in Nat /\ Value(prev[j]) \in Nat
    BY ValueType DEF TypeInv
  <1>4. Ahead'
    BY <1>2, <1>3 DEF Ahead, Due, Counted, TypeInv
  <1>5. InPlace' /\ NothingLostInPlace' /\ Unprimed' /\ TotalsOwnKeys'
    BY <1>2, <1>3 DEF InPlace, NothingLostInPlace, Unprimed, TotalsOwnKeys, Counted, TypeInv
  <1>6. IdleLags'
    <2> SUFFICES ASSUME NEW j \in Counters \ removed, traffic'[j] = prev[j], traffic'[j] # None
                 PROVE  quiet'[j] > counts[j]
      BY DEF IdleLags, Counted
    <2>1. CASE j = k
      BY <2>1, <1>2, <1>3 DEF InPlace, Keys
    <2>2. CASE j # k
      BY <2>2, <1>2 DEF IdleLags, Keys
    <2> QED  BY <2>1, <2>2
  <1> QED  BY <1>1, <1>4, <1>5, <1>6

\* A key that leaves the map, and is marked so, owes nothing.
LEMMA RemovalKeeps ==
    ASSUME IInv, NEW gone \in SUBSET Keys,
           traffic' = [k \in Keys |-> IF k \in gone THEN None ELSE traffic[k]],
           removed' = removed \cup {k \in gone : traffic[k] # None},
           UNCHANGED <<prev, totals, counts, primed, sent, counted, baseline, quiet>>,
           stale' \subseteq Counters, pending' \subseteq Counters
    PROVE  IInv'
  <1> USE DEF IInv
  <1>1. TypeInv'
    BY DEF TypeInv, Values
  <1>2. \A k \in Keys : /\ Value(traffic[k]) \in Nat /\ Value(prev[k]) \in Nat
                        /\ Value(traffic'[k]) \in Nat
                        /\ Value(traffic'[k]) = Value(traffic[k]) \/ Value(traffic'[k]) = 0
                        /\ k \notin removed' => k \notin removed /\ traffic'[k] = traffic[k]
    BY ValueType DEF TypeInv, Value
  <1>3. Ahead'
    BY <1>2 DEF Ahead, Due, TypeInv
  <1>4. InPlace' /\ NothingLostInPlace' /\ Unprimed' /\ TotalsOwnKeys' /\ IdleLags'
    BY <1>2 DEF InPlace, NothingLostInPlace, Unprimed, TotalsOwnKeys, IdleLags, Keys
  <1> QED  BY <1>1, <1>3, <1>4

-----------------------------------------------------------------------------
(* Polls *)

\* What a poll that read `read` leaves of a key: its value as the sample with what was due
\* added up, or, for a key it could not see, what there was.
LEMMA PollOfKey ==
    ASSUME IInv, NEW kept, Poll(kept), NEW read \in SUBSET {k \in Keys : traffic[k] # None},
           NEW incomplete \in BOOLEAN,
           (\E k \in Keys : traffic[k] # None /\ k \notin read) => incomplete,
           prev' = carry_forward(read, incomplete),
           counted' = [k \in Keys |-> IF k \in read THEN counted[k] + Delta(k) ELSE counted[k]],
           NEW k \in Keys
    PROVE  /\ k \in read => /\ prev'[k] = traffic[k] /\ traffic[k] # None
                            /\ counted'[k] = counted[k] + Delta(k)
           /\ k \notin read => /\ counted'[k] = counted[k]
                               /\ \/ prev'[k] = prev[k]
                                  \/ prev'[k] = None /\ traffic[k] = None
  BY DEF carry_forward

\* An owner keeps its totals only while a key of it is sampled.
LEMMA PollTotals ==
    ASSUME IInv, NEW kept, NEW read \in SUBSET {k \in Keys : traffic[k] # None},
           NEW incomplete \in BOOLEAN,
           prev' = carry_forward(read, incomplete),
           totals' = Accumulated(kept, read, incomplete)
    PROVE  TotalsOwnKeys'
  <1> SUFFICES ASSUME NEW o \in Ips, totals'[o] # None
               PROVE  \E k \in Keys : OwnerOf[k] = o /\ prev'[k] # None
    BY DEF TotalsOwnKeys
  <1>1. o \in Owners /\ o # Ipv6
    BY DEF Ips
  <1>2. \A k \in read : prev'[k] # None
    BY DEF carry_forward
  <1>3. CASE \E k \in read : OwnerOf[k] = o
    BY <1>2, <1>3
  <1>4. CASE ~\E k \in read : OwnerOf[k] = o
    <2>1. totals[o] # None /\ incomplete
      BY <1>1, <1>4 DEF Accumulated, Retained
    <2>2. PICK k \in Keys : OwnerOf[k] = o /\ prev[k] # None
      BY <2>1 DEF IInv, TotalsOwnKeys
    <2> QED  BY <2>1, <2>2, <1>2 DEF carry_forward
  <1> QED  BY <1>3, <1>4

LEMMA ObservedLags ==
    ASSUME TypeInv, NEW read \in SUBSET Keys, NEW k \in Keys
    PROVE  /\ Observed(read)[k] \in Nat
           /\ Observed(read)[k] <= IdleEvictPolls
           /\ Observed(read)[k] <= counts[k] + 1
           /\ k \notin read \/ traffic[k] # prev[k] => Observed(read)[k] = 0
  BY CollectorAssumption DEF TypeInv, Observed, Saturated, Changed

LEMMA PollKeeps ==
    ASSUME IInv, NEW kept, Poll(kept)
    PROVE  /\ IInv'
           /\ \A k \in (stale' \ stale) \ removed : quiet'[k] > IdleEvictPolls
  <1> USE DEF IInv
  <1>1. PICK read \in SUBSET {k \in Keys : traffic[k] # None}, incomplete \in BOOLEAN :
          /\ (\E k \in Keys : traffic[k] # None /\ k \notin read) => incomplete
          /\ prev' = carry_forward(read, incomplete)
          /\ totals' = Accumulated(kept, read, incomplete)
          /\ counts' = Observed(read)
          /\ stale' = {k \in (read \cap Counters) \ Changed(read) :
                         Observed(read)[k] >= IdleEvictPolls}
          /\ counted' = [k \in Keys |-> IF k \in read THEN counted[k] + Delta(k) ELSE counted[k]]
          /\ baseline' = IF primed THEN baseline
                         ELSE [k \in Keys |-> IF k \in read THEN traffic[k] ELSE 0]
    BY DEF Poll
  <1>2. /\ primed' = TRUE /\ UNCHANGED <<traffic, taps, pending, sent, removed>>
        /\ quiet' = [k \in Keys |-> IF k \in Flows \/ quiet[k] > IdleEvictPolls
                                    THEN quiet[k] ELSE quiet[k] + 1]
    BY DEF Poll
  <1>3. \A k \in Keys : /\ k \in read => /\ prev'[k] = traffic[k] /\ traffic[k] # None
                                         /\ counted'[k] = counted[k] + Delta(k)
                        /\ k \notin read => /\ counted'[k] = counted[k]
                                            /\ \/ prev'[k] = prev[k]
                                               \/ prev'[k] = None /\ traffic[k] = None
    BY <1>1, PollOfKey
  <1>4. \A k \in Keys : /\ traffic[k] \in Values /\ prev[k] \in Values
                        /\ counted[k] \in Nat /\ baseline[k] \in Nat /\ sent[k] \in Nat
                        /\ Value(traffic[k]) \in Nat /\ Value(prev[k]) \in Nat
                        /\ traffic[k] = None => Value(traffic[k]) = 0
                        /\ traffic[k] # None => traffic[k] \in Nat /\ Value(traffic[k]) = traffic[k]
                        /\ Value(None) = 0
    BY ValueType DEF TypeInv, Value
  <1>5. \A k \in read : Delta(k) \in Nat /\ (primed => Delta(k) = Due(k)) /\ (~primed => Delta(k) = 0)
    BY DeltaIsDue
  <1>6. TypeInv'
    <2>1. prev' \in [Keys -> Values] /\ traffic' \in [Keys -> Values]
      BY <1>1, <1>2 DEF TypeInv, carry_forward, Values
    <2>2. counted' \in [Keys -> Nat] /\ sent' \in [Keys -> Nat]
      BY <1>1, <1>2, <1>4, <1>5 DEF TypeInv
    <2>3. baseline' \in [Keys -> Nat]
      BY <1>1, <1>4 DEF TypeInv
    <2>4. counts' \in [Keys -> Nat]
      <3>1. \A k \in Keys : Observed(read)[k] \in Nat
        BY ObservedLags
      <3> QED  BY <1>1, <3>1 DEF Observed
    <2>5. quiet' \in [Keys -> Nat]
      BY <1>2 DEF TypeInv
    <2>6. primed' \in BOOLEAN /\ stale' \subseteq Counters /\ pending' \subseteq Counters
      BY <1>1, <1>2 DEF TypeInv
    <2> QED  BY <2>1, <2>2, <2>3, <2>4, <2>5, <2>6 DEF TypeInv
  <1>7. Ahead'
    <2> SUFFICES ASSUME NEW k \in Keys
                 PROVE  counted'[k] + Due(k)' <= sent[k]
      BY <1>2 DEF Ahead
    <2>1. CASE k \in read
      BY <2>1, <1>2, <1>3, <1>4, <1>5 DEF Ahead, Due
    <2>2. CASE k \notin read
      BY <2>2, <1>2, <1>3, <1>4 DEF Ahead, Due
    <2> QED  BY <2>1, <2>2
  <1>8. Unprimed'
    BY <1>2 DEF Unprimed
  <1>9. InPlace'
    BY <1>2, <1>3, <1>4 DEF InPlace
  <1>10. NothingLostInPlace'
    <2> SUFFICES ASSUME NEW k \in Keys \ removed
                 PROVE  counted'[k] + baseline'[k] = Value(prev'[k])
      BY <1>2 DEF NothingLostInPlace
    <2>1. Value(prev[k]) <= Value(traffic[k]) /\ counted[k] + baseline[k] = Value(prev[k])
      BY DEF InPlace, NothingLostInPlace
    <2>2. CASE primed
      <3>1. CASE k \in read
        BY <2>1, <2>2, <3>1, <1>1, <1>3, <1>4, <1>5 DEF Due
      <3>2. CASE k \notin read
        BY <2>1, <2>2, <3>2, <1>1, <1>3, <1>4
      <3> QED  BY <3>1, <3>2
    <2>3. CASE ~primed
      <3>1. counted[k] = 0 /\ Value(prev[k]) = 0
        BY <2>3 DEF Unprimed
      <3>2. CASE k \in read
        BY <2>3, <3>1, <3>2, <1>1, <1>3, <1>4, <1>5
      <3>3. CASE k \notin read
        BY <2>3, <3>1, <3>3, <1>1, <1>3, <1>4
      <3> QED  BY <3>2, <3>3
    <2> QED  BY <2>2, <2>3
  <1>11. TotalsOwnKeys'
    BY <1>1, PollTotals
  <1>12. ASSUME NEW k \in Counters \ removed, traffic[k] = prev'[k], traffic[k] # None
         PROVE  quiet'[k] > counts'[k]
    <2>1. k \in Keys /\ k \notin Flows /\ quiet[k] \in Nat /\ counts[k] \in Nat
      BY CollectorAssumption DEF Keys, TypeInv
    <2>2. /\ counts'[k] \in Nat /\ counts'[k] <= IdleEvictPolls /\ counts'[k] <= counts[k] + 1
          /\ k \notin read \/ traffic[k] # prev[k] => counts'[k] = 0
      BY <1>1, <2>1, ObservedLags
    <2>3. quiet'[k] = IF quiet[k] > IdleEvictPolls THEN quiet[k] ELSE quiet[k] + 1
      BY <1>2, <2>1
    <2>4. CASE k \in read /\ traffic[k] = prev[k]
      <3>1. quiet[k] > counts[k]
        BY <2>4, <1>12 DEF IdleLags
      <3> QED  BY <2>1, <2>2, <2>3, <3>1, CollectorAssumption
    <2>5. CASE k \notin read \/ traffic[k] # prev[k]
      BY <2>1, <2>2, <2>3, <2>5, CollectorAssumption
    <2> QED  BY <2>4, <2>5
  <1>13. IdleLags'
    BY <1>2, <1>12 DEF IdleLags
  <1>14. ASSUME NEW k \in (stale' \ stale) \ removed
         PROVE  quiet'[k] > IdleEvictPolls
    <2>1. /\ k \in read \cap Counters /\ counts'[k] >= IdleEvictPolls
      BY <1>1, <1>14
    <2>2. quiet'[k] > counts'[k]
      BY <2>1, <1>3, <1>12 DEF Keys
    <2> QED  BY <2>1, <2>2, <1>6, CollectorAssumption DEF TypeInv, Keys
  <1> QED  BY <1>6, <1>7, <1>8, <1>9, <1>10, <1>11, <1>13, <1>14

-----------------------------------------------------------------------------
(* The invariant and the action properties *)

\* Evictions and the prune of vanished TAPs remove keys, and mark them removed.
LEMMA EvictKeeps ==
    ASSUME IInv, NEW k \in Keys, Evict(k)
    PROVE  IInv'
  <1>1. stale' \subseteq Counters /\ pending' \subseteq Counters
    BY DEF IInv, TypeInv, Evict
  <1>2. CASE traffic' = [traffic EXCEPT ![k] = None] /\ removed' = removed \cup {k}
    <2>1. traffic[k] # None \/ traffic' = traffic
      BY <1>2 DEF IInv, TypeInv
    <2>2. CASE traffic[k] # None
      <3>1. traffic' = [j \in Keys |-> IF j \in {k} THEN None ELSE traffic[j]]
        BY <1>2 DEF IInv, TypeInv
      <3>2. removed' = removed \cup {j \in {k} : traffic[j] # None}
        BY <1>2, <2>2
      <3> QED  BY <1>1, <3>1, <3>2, RemovalKeeps DEF Evict
    <2>3. CASE traffic' = traffic
      BY <1>1, <1>2, <2>3
         DEF Evict, IInv, TypeInv, Ahead, Due, Unprimed, InPlace, IdleLags, NothingLostInPlace, TotalsOwnKeys
    <2> QED  BY <2>1, <2>2, <2>3
  <1>3. CASE UNCHANGED <<traffic, removed>>
    BY <1>1, <1>3
       DEF Evict, IInv, TypeInv, Ahead, Due, Unprimed, InPlace, IdleLags, NothingLostInPlace, TotalsOwnKeys
  <1> QED  BY <1>2, <1>3 DEF Evict

LEMMA RescanKeeps ==
    ASSUME IInv, NEW live, Rescan(live)
    PROVE  /\ IInv'
           /\ \A k \in Keys : traffic[k] # None /\ traffic'[k] = None => TapOf[k] \notin taps'
  <1>1. PICK failed \in SUBSET {k \in Counters : traffic[k] # None}, missed \in SUBSET Counters :
          LET retried == ToRetry(live)
              stillPending == retried \cap failed
              pruned == ToPrune(live, stillPending) \ missed
              gone == (retried \cup pruned) \ failed
          IN
          /\ pending' = stillPending \cup (pruned \cap failed)
          /\ traffic' = [k \in Keys |-> IF k \in gone THEN None ELSE traffic[k]]
          /\ removed' = removed \cup {k \in gone : traffic[k] # None}
    BY DEF Rescan
  <1> DEFINE retried == ToRetry(live)
             stillPending == retried \cap failed
             pruned == ToPrune(live, stillPending) \ missed
             gone == (retried \cup pruned) \ failed
  <1>2. gone \subseteq Keys /\ pending' \subseteq Counters
    BY <1>1 DEF ToRetry, ToPrune, IInv, TypeInv, Keys
  <1>3. \A k \in gone : TapOf[k] \notin live
    BY DEF ToRetry, ToPrune
  <1>4. stale' \subseteq Counters
    BY DEF Rescan, IInv, TypeInv
  <1>5. IInv'
    BY <1>1, <1>2, <1>4, RemovalKeeps DEF Rescan
  <1>6. taps' = live
    BY DEF Rescan
  <1> QED  BY <1>1, <1>3, <1>5, <1>6

LEMMA remove_limitKeeps ==
    ASSUME IInv, NEW k \in Flows, remove_limit(k)
    PROVE  IInv'
  <1>1. stale' \subseteq Counters /\ pending' \subseteq Counters
    BY DEF IInv, TypeInv, remove_limit
  <1>2. CASE traffic[k] # None
    <2>1. /\ {k} \in SUBSET Keys
          /\ traffic' = [j \in Keys |-> IF j \in {k} THEN None ELSE traffic[j]]
      BY DEF remove_limit, IInv, TypeInv, Keys
    <2>2. removed' = removed \cup {j \in {k} : traffic[j] # None}
      BY <1>2 DEF remove_limit
    <2> QED  BY <1>1, <2>1, <2>2, RemovalKeeps DEF remove_limit
  <1>3. CASE traffic[k] = None
    <2>1. traffic' = traffic
      BY <1>3 DEF remove_limit, IInv, TypeInv, Keys
    <2> QED  BY <1>1, <2>1
         DEF remove_limit, IInv, TypeInv, Ahead, Due, Unprimed, InPlace, IdleLags, NothingLostInPlace, TotalsOwnKeys
  <1> QED  BY <1>2, <1>3

LEMMA Stutters ==
    ASSUME IInv, UNCHANGED <<traffic, prev, totals, counts, primed, stale, pending, aux>>
    PROVE  IInv'
  BY DEF aux, IInv, TypeInv, Ahead, Due, Unprimed, InPlace, IdleLags, NothingLostInPlace, TotalsOwnKeys

LEMMA Inductive == IInv /\ [Next]_vars => IInv'
  <1> SUFFICES ASSUME IInv, [Next]_vars PROVE IInv'
    OBVIOUS
  <1>1. ASSUME NEW k \in Counters, Packet(k) PROVE IInv'
    BY <1>1, CountedKeeps DEF Packet, Keys
  <1>2. ASSUME NEW k \in Flows, Arm(k) PROVE IInv'
    BY <1>2, Stutters DEF Arm
  <1>3. ASSUME NEW k \in Flows, record_verdict(k) PROVE IInv'
    BY <1>3, CountedKeeps DEF record_verdict, Keys
  <1>4. ASSUME NEW k \in Flows, remove_limit(k) PROVE IInv'
    BY <1>4, remove_limitKeeps
  <1>5. ASSUME Tick PROVE IInv'
    BY <1>5, PollKeeps DEF Tick
  <1>6. ASSUME NEW newIps \in SUBSET Ips, Reload(newIps) PROVE IInv'
    BY <1>6, PollKeeps DEF Reload
  <1>7. ASSUME NEW k \in Keys, Evict(k) PROVE IInv'
    BY <1>7, EvictKeeps
  <1>8. ASSUME NEW live \in TapSets, Rescan(live) PROVE IInv'
    BY <1>8, RescanKeeps
  <1>9. CASE UNCHANGED vars
    BY <1>9, Stutters DEF vars
  <1> QED  BY <1>1, <1>2, <1>3, <1>4, <1>5, <1>6, <1>7, <1>8, <1>9 DEF Next, Evicting, Rescanning

LEMMA Invariance == Spec => []IInv
  BY Initially, Inductive, PTL DEF Spec

\* Bytes and verdicts are never counted twice: over any sequence of failed polls, evictions,
\* vanished TAPs, removed limits and reloads, what Collector::apply_poll added up for a key
\* is at most what the data path counted for it.
THEOREM CountsAtMostOnce == Spec => []NeverOvercounts
  <1>1. IInv => NeverOvercounts
    <2> SUFFICES ASSUME IInv, NEW k \in Keys PROVE counted[k] <= sent[k]
      BY DEF NeverOvercounts
    <2>1. Value(traffic[k]) \in Nat /\ Value(prev[k]) \in Nat
      BY ValueType DEF IInv, TypeInv
    <2>2. Due(k) \in Nat
      BY <2>1 DEF Due
    <2> QED  BY <2>2 DEF IInv, TypeInv, Ahead
  <1> QED  BY <1>1, Invariance, PTL

\* Nothing is lost either, for a key that stayed in its map: apply_poll added up all that it
\* sampled, however many reads of the map failed.
THEOREM LosesNothingInPlace == Spec => []NothingLostInPlace
  <1>1. IInv => NothingLostInPlace
    BY DEF IInv
  <1> QED  BY <1>1, Invariance, PTL

\* The totals of apply_poll stay bounded by the counter maps: an address without a sampled
\* key has none.
THEOREM TotalsAreBounded == Spec => []TotalsOwnKeys
  <1>1. IInv => TotalsOwnKeys
    BY DEF IInv
  <1> QED  BY <1>1, Invariance, PTL

\* IdleTracker::observe reports a key that stayed in its map only after enough polls without
\* a packet, whichever polls were incomplete.
THEOREM ReportsOnlyIdleKeys == Spec => IdleMeansIdle
  <1>1. IInv /\ [Next]_vars =>
          [\A k \in (stale' \ stale) \ removed : quiet'[k] > IdleEvictPolls]_vars
    <2> SUFFICES ASSUME IInv, Next
                 PROVE  \A k \in (stale' \ stale) \ removed : quiet'[k] > IdleEvictPolls
      OBVIOUS
    <2>1. CASE stale' \subseteq stale
      BY <2>1
    <2>2. ASSUME NEW kept, Poll(kept)
          PROVE  \A k \in (stale' \ stale) \ removed : quiet'[k] > IdleEvictPolls
      BY <2>2, PollKeeps
    <2>3. \/ stale' \subseteq stale
          \/ \E kept \in SUBSET Ips : Poll(kept)
          \/ Poll(ips)
      BY DEF Next, Packet, Counted, Arm, record_verdict, remove_limit, Tick, Reload, Evicting, Evict,
             Rescanning, Rescan
    <2> QED  BY <2>1, <2>2, <2>3
  <1> QED  BY <1>1, Invariance, PTL DEF Spec, IdleMeansIdle

\* rescan_taps and its retries never remove a counter of an attached TAP: only the idle keys of
\* the running collect_tick leave the map under one.
THEOREM PrunesOnlyDeadTaps == Spec => LiveCountersKept
  <1> DEFINE Kept == \A k \in Counters :
                       traffic[k] # None /\ traffic'[k] = None /\ TapOf[k] \in taps' => k \in stale
  <1>1. IInv /\ [Next]_vars => [Kept]_vars
    <2> SUFFICES ASSUME IInv, Next PROVE Kept
      OBVIOUS
    <2>1. ASSUME NEW k \in Keys, Counted(k) PROVE Kept
      <3>1. Value(traffic[k]) \in Nat
        BY ValueType DEF IInv, TypeInv
      <3> QED  BY <2>1, <3>1, CollectorAssumption DEF Counted, IInv, TypeInv, Keys
    <2>2. ASSUME NEW k \in Flows, remove_limit(k) PROVE Kept
      BY <2>2, CollectorAssumption DEF remove_limit, IInv, TypeInv, Keys
    <2>3. ASSUME NEW k \in Keys, Evict(k) PROVE Kept
      BY <2>3 DEF Evict, IInv, TypeInv, Keys
    <2>4. ASSUME NEW live \in TapSets, Rescan(live) PROVE Kept
      BY <2>4, RescanKeeps DEF Keys
    <2>5. CASE traffic' = traffic
      BY <2>5
    <2> QED  BY <2>1, <2>2, <2>3, <2>4, <2>5
             DEF Next, Packet, record_verdict, Arm, Tick, Reload, Poll, Evicting, Rescanning, Keys
  <1> QED  BY <1>1, Invariance, PTL DEF Spec, LiveCountersKept

=============================================================================
