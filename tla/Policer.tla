------------------------------ MODULE Policer ------------------------------
(***************************************************************************)
(* The six policing algorithms of the data path (police and what it calls  *)
(* in the eBPF program), fed by several CPUs.  A CPU reads the clock, then *)
(* waits for the lock of the flow's state: packets are judged in an order  *)
(* that need not be the order of their timestamps.                         *)
(*                                                                         *)
(* All six judge the same packets, each on a flow of its own with the same *)
(* rate, burst and window, so that their verdicts can be compared.         *)
(*                                                                         *)
(* Abstractions.  Time and bytes are scaled: a second has NsPerSec ticks   *)
(* and a byte as many nbytes, as in the code, where both are 10^9.         *)
(* Numbers are naturals: the bounds of check_policy_bounds keep every      *)
(* product below 2^64.  A packet that police does not judge (no length, or *)
(* more than MAX_POLICED_LEN) passes and leaves no trace here.             *)
(*                                                                         *)
(* police copies the policy before it looks the state up: a packet that    *)
(* copied the policy that an install displaces may reach the state which   *)
(* that install has reset, and leave there what its own algorithm keeps.   *)
(***************************************************************************)
EXTENDS Naturals, Sequences, FiniteSets, FiniteSetsExt

CONSTANTS
    Cpus,
    Policies,       \* [rate_bps, burst_bytes, window_ns] that validation accepts
    Displaced,      \* [algorithm, policy, len]: packets in flight under a displaced policy
    Lens,           \* lengths of policed packets
    NsPerSec,       \* ticks of a second
    NsPerMs,        \* ticks of a millisecond
    SwlLogCap,      \* SWL_LOG_CAP
    Boot,           \* the clock, which counts from 0 at boot, when the policies are armed
    None,
    MaxTicks,       \* bound: ticks after Boot
    MaxPackets,     \* bound: packets judged
    MaxStale        \* bound: ticks a CPU may wait before a clock reading, or for the lock

BitsPerByte == 8

\* What validation accepts, as far as the algorithms rely on it: a rate of at least a
\* byte a second, some burst, windows of whole seconds.  The upper bounds are those
\* that keep every product below 2^64.
check_policy_bounds(p) ==
    /\ p.rate_bps \in Nat /\ p.rate_bps >= BitsPerByte
    /\ p.burst_bytes \in Nat \ {0}
    /\ p.window_ns \in Nat \ {0} /\ p.window_ns % NsPerSec = 0

ASSUME PolicerAssumption ==
    /\ {NsPerSec, NsPerMs, SwlLogCap, Boot} \subseteq Nat \ {0}
    /\ {MaxTicks, MaxPackets, MaxStale} \subseteq Nat
    /\ Lens \subseteq Nat \ {0}
    /\ \A p \in Policies : check_policy_bounds(p)
    /\ \A d \in Displaced : check_policy_bounds(d.policy) /\ d.len \in Nat \ {0}

VARIABLES
    policy,         \* the LimitPolicy, but for its algorithm
    displaced,      \* the policy and packet that were in flight at the install, or None
    state,          \* the value in LIMIT_STATE or SWL_LOG, of every algorithm
    clock,          \* bpf_ktime_get_ns
    waiting,        \* the packet a CPU holds, with the timestamp it read, or None
    judged          \* auxiliary: the packets so far and who passed them

vars == <<policy, displaced, state, clock, waiting, judged>>

Smaller(x, y) == IF x <= y THEN x ELSE y
Later(x, y) == IF x >= y THEN x ELSE y
Excess(x, y) == IF x >= y THEN x - y ELSE 0

Verdict(conform, s) == [conform |-> conform, state |-> s]

-----------------------------------------------------------------------------
(* Buckets: a is the level in nbytes, b the time of the last update. *)

Capacity(p) == p.burst_bytes * NsPerSec
PerNs(p) == p.rate_bps \div BitsPerByte
FullNs(p) == Capacity(p) \div PerNs(p)
Cost(len) == len * NsPerSec

Refilled(p, s, now) ==
    IF now < s.b THEN s.a
    ELSE IF now - s.b >= FullNs(p) THEN Capacity(p)
    ELSE Smaller(s.a + (now - s.b) * PerNs(p), Capacity(p))

\* Variant: the bucket takes over a timestamp older than the one it has.
token_bucket_rewound(p, s, now, len) ==
    LET tokens == Refilled(p, s, now)
        conform == tokens >= Cost(len)
    IN  Verdict(conform, [s EXCEPT !.a = IF conform THEN tokens - Cost(len) ELSE tokens,
                                   !.b = now])

token_bucket(p, s, now, len) ==
    LET tokens == Refilled(p, s, now)
        conform == tokens >= Cost(len)
    IN  Verdict(conform, [s EXCEPT !.a = IF conform THEN tokens - Cost(len) ELSE tokens,
                                   !.b = Later(now, @)])

Drained(p, s, now) ==
    IF now < s.b THEN s.a
    ELSE IF now - s.b >= FullNs(p) THEN 0
    ELSE Excess(s.a, (now - s.b) * PerNs(p))

\* Variant: a packet that fills the bucket to the brim is dropped.
leaky_bucket_strict(p, s, now, len) ==
    LET level == Drained(p, s, now)
        conform == level + Cost(len) < Capacity(p)
    IN  Verdict(conform, [s EXCEPT !.a = IF conform THEN level + Cost(len) ELSE level,
                                   !.b = Later(now, @)])

leaky_bucket(p, s, now, len) ==
    LET level == Drained(p, s, now)
        conform == Capacity(p) >= Cost(len) /\ level <= Capacity(p) - Cost(len)
    IN  Verdict(conform, [s EXCEPT !.a = IF conform THEN level + Cost(len) ELSE level,
                                   !.b = Later(now, @)])

\* a is the theoretical arrival time.
Emission(p, bytes) == (bytes * BitsPerByte * NsPerSec) \div p.rate_bps

gcra(p, s, now, len) ==
    LET tat == Later(now, s.a) + Emission(p, len)
        conform == tat <= now + Emission(p, p.burst_bytes)
    IN  Verdict(conform, IF conform THEN [s EXCEPT !.a = tat] ELSE s)

-----------------------------------------------------------------------------
(* Windows *)

window_allowance(p) == (p.rate_bps \div BitsPerByte) * (p.window_ns \div NsPerSec)

\* Variant: a new window starts with the bytes of the old one.
fixed_window_keeps(p, s, now, len) ==
    LET fresh == s.b = 0 \/ now >= s.b + p.window_ns
        conform == s.a + len <= window_allowance(p)
    IN  Verdict(conform, [s EXCEPT !.a = IF conform THEN @ + len ELSE @,
                                   !.b = IF fresh THEN now ELSE @])

\* a: bytes used in the window that started at b, 0 before the first packet.
fixed_window(p, s, now, len) ==
    LET fresh == s.b = 0 \/ now >= s.b + p.window_ns
        used == IF fresh THEN 0 ELSE s.a
        conform == used + len <= window_allowance(p)
    IN  Verdict(conform, [s EXCEPT !.a = IF conform THEN used + len ELSE used,
                                   !.b = IF fresh THEN now ELSE @])

\* Variant: the weight is that of the time gone by, not of the time left.
swc_carried_elapsed(prev_bytes, window_ns, elapsed_ns) ==
    LET window_ms == window_ns \div NsPerMs
    IN  IF window_ms = 0 THEN 0
        ELSE (prev_bytes * (Smaller(elapsed_ns, window_ns) \div NsPerMs)) \div window_ms

\* What counts of the previous window, weighted in whole milliseconds.
swc_carried_bytes(prev_bytes, window_ns, elapsed_ns) ==
    LET window_ms == window_ns \div NsPerMs
        remaining_ms == (window_ns - Smaller(elapsed_ns, window_ns)) \div NsPerMs
    IN  IF window_ms = 0 THEN 0 ELSE (prev_bytes * remaining_ms) \div window_ms

\* a: bytes of the previous window, b: of this one, which started at c.
Rolled(p, s, now) ==
    IF s.c = 0 THEN [s EXCEPT !.c = now]
    ELSE IF now >= s.c + 2 * p.window_ns THEN [a |-> 0, b |-> 0, c |-> now]
    ELSE IF now >= s.c + p.window_ns THEN [a |-> s.b, b |-> 0, c |-> s.c + p.window_ns]
    ELSE s

sliding_window_counter(p, s, now, len) ==
    LET r == Rolled(p, s, now)
        carried == swc_carried_bytes(r.a, p.window_ns, Smaller(Excess(now, r.c), p.window_ns))
        conform == carried + r.b + len <= window_allowance(p)
    IN  Verdict(conform, IF conform THEN [r EXCEPT !.b = @ + len] ELSE r)

Slots == 0..SwlLogCap - 1

\* The bound now - window wraps to a huge number before the clock reaches window.
InWindow(p, ts, now) == now >= p.window_ns /\ ts > now - p.window_ns

swl_police(p, ring, now, len) ==
    LET used == MapThenSumSet(LAMBDA i : ring.entries[i].len,
                              {i \in Slots : InWindow(p, ring.entries[i].ts_ns, now)})
        conform == used + len <= window_allowance(p)
        head == ring.head % SwlLogCap
    IN  Verdict(conform,
                IF conform THEN [entries |-> [ring.entries EXCEPT ![head] = [ts_ns |-> now, len |-> len]],
                                 head |-> head + 1]
                ELSE ring)

-----------------------------------------------------------------------------
BucketAlgorithms == {"token_bucket", "leaky_bucket", "gcra"}
WindowAlgorithms == {"fixed_window", "sliding_window_counter", "sliding_window_log"}
Algorithms == BucketAlgorithms \cup WindowAlgorithms

police(alg, p, s, now, len) ==
    CASE alg = "token_bucket" -> token_bucket(p, s, now, len)
      [] alg = "leaky_bucket" -> leaky_bucket(p, s, now, len)
      [] alg = "gcra" -> gcra(p, s, now, len)
      [] alg = "fixed_window" -> fixed_window(p, s, now, len)
      [] alg = "sliding_window_counter" -> sliding_window_counter(p, s, now, len)
      [] alg = "sliding_window_log" -> swl_police(p, s, now, len)

\* What an install writes: zeroes.
Fresh(alg) ==
    IF alg = "sliding_window_log"
    THEN [entries |-> [i \in Slots |-> [ts_ns |-> 0, len |-> 0]], head |-> 0]
    ELSE [a |-> 0, b |-> 0, c |-> 0]

Packet(t, len, late) == [read |-> t, len |-> len, late |-> late]

\* A CPU takes the timestamp of a packet and goes for the lock.
ReadClock(cpu, len) ==
    /\ waiting[cpu] = None
    /\ Len(judged) + Cardinality({x \in Cpus : waiting[x] # None}) < MaxPackets
    /\ waiting' = [waiting EXCEPT ![cpu] = Packet(clock, len, FALSE)]
    /\ UNCHANGED <<policy, displaced, state, clock, judged>>

\* So does the CPU whose packet has copied the displaced policy.
ReadClockLate(cpu) ==
    /\ waiting[cpu] # None /\ waiting[cpu].read = None
    /\ waiting' = [waiting EXCEPT ![cpu].read = clock]
    /\ UNCHANGED <<policy, displaced, state, clock, judged>>

\* The log is a map of its own: no other algorithm's packet reaches it.
SameMap(alg, other) == (alg = "sliding_window_log") = (other = "sliding_window_log")

\* What a packet finds and leaves in the state of a flow now policed by alg.
Treated(alg, w) ==
    IF ~w.late THEN police(alg, policy, state[alg], w.read, w.len)
    ELSE IF SameMap(alg, displaced.algorithm)
    THEN police(displaced.algorithm, displaced.policy, state[alg], w.read, w.len)
    ELSE Verdict(FALSE, state[alg])

\* The critical section.
Judge(cpu) ==
    /\ waiting[cpu] # None /\ waiting[cpu].read # None
    /\ LET w == waiting[cpu]
           v == [alg \in Algorithms |-> Treated(alg, w)]
       IN  /\ state' = [alg \in Algorithms |-> v[alg].state]
           /\ judged' = Append(judged,
                [read |-> w.read, at |-> clock, len |-> w.len, late |-> w.late,
                 pass |-> IF w.late THEN {} ELSE {alg \in Algorithms : v[alg].conform}])
    /\ waiting' = [waiting EXCEPT ![cpu] = None]
    /\ UNCHANGED <<policy, displaced, clock>>

Elapse ==
    /\ clock < Boot + MaxTicks /\ Len(judged) < MaxPackets
    /\ \A cpu \in Cpus : waiting[cpu] # None =>
         clock < MaxStale + IF waiting[cpu].read = None THEN Boot ELSE waiting[cpu].read
    /\ clock' = clock + 1
    /\ UNCHANGED <<policy, displaced, state, waiting, judged>>

Init ==
    /\ policy \in Policies
    /\ displaced \in Displaced \cup {None}
    /\ state = [alg \in Algorithms |-> Fresh(alg)]
    /\ clock = Boot
    /\ \E cpu \in Cpus :
         waiting = [x \in Cpus |-> IF x = cpu /\ displaced # None
                                  THEN Packet(None, displaced.len, TRUE) ELSE None]
    /\ judged = <<>>

Next ==
    \/ \E cpu \in Cpus :
         Judge(cpu) \/ ReadClockLate(cpu) \/ \E len \in Lens : ReadClock(cpu, len)
    \/ Elapse

Spec == Init /\ [][Next]_vars

-----------------------------------------------------------------------------
(* Properties *)

\* The packets from i on that an algorithm let through.
Passed(alg, i) == {k \in i..Len(judged) : alg \in judged[k].pass}
Bytes(alg, i) == MapThenSumSet(LAMBDA k : judged[k].len, Passed(alg, i))

Last == judged[Len(judged)]

\* Packets of the displaced policy among those from i on.
LatePackets(i) == Cardinality({k \in i..Len(judged) : judged[k].late})

InOrder == \A i \in 1..Len(judged) - 1 : judged[i].read <= judged[i + 1].read

\* The time in which they arrived and were judged.
Span(alg, i) == Last.at - Min({judged[k].read : k \in Passed(alg, i)})

\* No division of the bucket algorithms loses anything.
Exact == policy.rate_bps % BitsPerByte = 0 /\ NsPerSec % PerNs(policy) = 0

\* The bucket algorithms never let a flow send more than its burst plus its rate
\* over any stretch of time, whatever the order in which the CPUs got the lock. Where
\* the integer divisions are not exact they give away up to a tick of rate per packet.
\* A packet of the displaced policy costs at most one more burst; in a token bucket and
\* in GCRA only as long as no timestamp is overtaken: what such a packet leaves in their
\* states lets an overtaken one pass that the burst no longer covers.
BurstBound ==
    \A alg \in BucketAlgorithms : \A i \in 1..Len(judged) :
        alg \in judged[i].pass /\ (alg = "leaky_bucket" \/ displaced = None \/ InOrder) =>
            Bytes(alg, i) * BitsPerByte * NsPerSec <=
                (1 + LatePackets(i)) * policy.burst_bytes * BitsPerByte * NsPerSec
                  + policy.rate_bps * Span(alg, i)
                  + (IF Exact THEN 0 ELSE policy.rate_bps * Cardinality(Passed(alg, i)))

\* Two windows and one more for each that passes; README: "Up to 2x rate across a
\* window boundary".
TwoWindows(alg, i) ==
    Bytes(alg, i) * policy.window_ns <=
        window_allowance(policy) * (Span(alg, i) + (2 + LatePackets(i)) * policy.window_ns)

\* README: "no boundary burst": within one window the excess over the allowance grows
\* with the time, but for the millisecond and the byte that the weight rounds away.
NoBoundaryBurst(alg, i) ==
    Span(alg, i) <= policy.window_ns =>
        Bytes(alg, i) * policy.window_ns <=
            window_allowance(policy)
                * ((1 + LatePackets(i)) * policy.window_ns + Span(alg, i) + NsPerMs - 1)
              + policy.window_ns - 1

\* README: "Exact window bytes", as far as the ring reaches back.
ExactWindow(alg, i) ==
    Span(alg, i) < policy.window_ns /\ Cardinality(Passed(alg, i)) + LatePackets(i) <= SwlLogCap + 1 =>
        Bytes(alg, i) <= window_allowance(policy)

\* Packets of the first window_ns after boot: to them the log looks empty.
SinceBoot(alg, i) == \E k \in Passed(alg, i) : judged[k].read < policy.window_ns

\* What each window algorithm lets through in any stretch of time is what the
\* documentation says of it, also when packets with older timestamps are judged
\* after a window has been rolled by newer ones; the log's only from a window after
\* boot on.
WindowBound ==
    \A i \in 1..Len(judged) : \A alg \in judged[i].pass \cap WindowAlgorithms :
        CASE alg = "fixed_window" -> TwoWindows(alg, i)
          [] alg = "sliding_window_counter" -> TwoWindows(alg, i) /\ NoBoundaryBurst(alg, i)
          [] alg = "sliding_window_log" -> SinceBoot(alg, i) \/ ExactWindow(alg, i)

Says(alg) == alg \in Last.pass

\* README: token bucket, leaky bucket and GCRA "make the same decisions (up to integer
\* rounding)": the two buckets do where the first packet comes when boot is longer ago
\* than a bucket takes to fill, the leaky bucket and GCRA as long as no timestamp is
\* overtaken.
SameDecisions ==
    judged # <<>> /\ displaced = None =>
        /\ FullNs(policy) <= judged[1].read => Says("token_bucket") = Says("leaky_bucket")
        /\ Exact /\ InOrder => Says("gcra") = Says("leaky_bucket")

max_admissible_frame_bytes(alg) ==
    IF alg \in WindowAlgorithms THEN window_allowance(policy) ELSE policy.burst_bytes

Admissible == {alg \in Algorithms : Last.len <= max_admissible_frame_bytes(alg)}

\* Nothing was judged, and the host was up, for two windows and for longer than a bucket
\* takes to fill.
IdleBefore ==
    LET pause == Later(2 * policy.window_ns, FullNs(policy) + 1)
    IN  /\ pause <= Last.read
        /\ \A i \in 1..Len(judged) - 1 : judged[i].at + pause <= Last.read

\* max_admissible_frame_bytes, which the configuration warnings go by, tells the truth
\* about the data path: a frame above it never passes (GCRA may round up to one tick),
\* and one up to it passes after an idle stretch, whatever came before.
AdmissibleFrames ==
    judged # <<>> /\ displaced = None =>
        /\ Last.pass \subseteq Admissible \cup (IF Exact THEN {} ELSE {"gcra"})
        /\ IdleBefore => Admissible \subseteq Last.pass

=============================================================================
