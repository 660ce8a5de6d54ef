----------------------------- MODULE MCPolicer -----------------------------
(* Small instances of Policer: a rate that divides evenly, one whose byte rate is *)
(* rounded and one whose refill time is.                                          *)
EXTENDS Policer, TLC

Policy(rate, burst, window) == [rate_bps |-> rate, burst_bytes |-> burst, window_ns |-> window]

MCPolicies ==
    {Policy(16, 3, 2 * NsPerSec), Policy(12, 2, 2 * NsPerSec), Policy(24, 2, NsPerSec)}

\* A token bucket much larger than the new policies allow, a slow GCRA, a window and a log.
MCDisplaced ==
    {[algorithm |-> "token_bucket", policy |-> Policy(16, 8, 2 * NsPerSec), len |-> 1],
     [algorithm |-> "gcra", policy |-> Policy(8, 3, NsPerSec), len |-> 3],
     [algorithm |-> "fixed_window", policy |-> Policy(16, 1, 2 * NsPerSec), len |-> 3],
     [algorithm |-> "sliding_window_log", policy |-> Policy(16, 1, 2 * NsPerSec), len |-> 3]}

CpuSymmetry == Permutations(Cpus)

=============================================================================
