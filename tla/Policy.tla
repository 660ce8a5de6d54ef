------------------------------- MODULE Policy -------------------------------
(***************************************************************************)
(* Effective limit policies (policy.rs): the fields of a range and of an   *)
(* override are merged, then each direction must be complete or absent.    *)
(***************************************************************************)
EXTENDS Integers, Sequences

CONSTANT Absent     \* Option::None of a field or a direction

Dirs == {"rx", "tx"}

threshold == [rx |-> "rx_threshold", tx |-> "tx_threshold"]
limit == [rx |-> "rx_limit", tx |-> "tx_limit"]

RateFields == {"rx_threshold", "tx_threshold", "rx_limit", "tx_limit"}
DurationFields == {"window", "limit_duration", "limit_window"}

\* PolicyFields is a function from Fields, each Absent or a number; the algorithm is
\* one of the names below.
Fields == RateFields \cup DurationFields \cup {"trigger_ratio", "burst", "algorithm"}

BucketAlgos == {"token_bucket", "leaky_bucket", "gcra"}
WindowAlgos == {"fixed_window", "sliding_window_counter", "sliding_window_log"}

NoFields == [f \in Fields |-> Absent]

merged_with(range, over) ==
    [f \in Fields |-> IF over[f] # Absent THEN over[f] ELSE range[f]]

algorithm(m) == IF m["algorithm"] = Absent THEN "gcra" ELSE m["algorithm"]

\* The field that only this kind of algorithm needs.
AlgorithmField(m) == IF algorithm(m) \in BucketAlgos THEN "burst" ELSE "limit_window"

Required(m, d) ==
    {threshold[d], limit[d], "window", "trigger_ratio", "limit_duration", AlgorithmField(m)}

\* Variant: fields of the other kind of algorithm are kept.
DirPolicyLeaky(m, d) ==
    [threshold_bps |-> m[threshold[d]], limit_bps |-> m[limit[d]],
     window_secs |-> m["window"], trigger_ratio_pct |-> m["trigger_ratio"],
     limit_duration_secs |-> m["limit_duration"], algorithm |-> algorithm(m),
     burst_bytes |-> IF m["burst"] = Absent THEN 0 ELSE m["burst"],
     limit_window_secs |-> IF m["limit_window"] = Absent THEN 0 ELSE m["limit_window"]]

\* The field that does not apply to the algorithm is zero.
DirPolicy(m, d) ==
    [threshold_bps |-> m[threshold[d]], limit_bps |-> m[limit[d]],
     window_secs |-> m["window"], trigger_ratio_pct |-> m["trigger_ratio"],
     limit_duration_secs |-> m["limit_duration"], algorithm |-> algorithm(m),
     burst_bytes |-> IF algorithm(m) \in WindowAlgos THEN 0 ELSE m["burst"],
     limit_window_secs |-> IF algorithm(m) \in WindowAlgos THEN m["limit_window"] ELSE 0]

\* Not policed, refused as incomplete, or fully specified.
build_dir(m, d) ==
    IF m[threshold[d]] = Absent /\ m[limit[d]] = Absent THEN [ok |-> Absent]
    ELSE IF \E f \in Required(m, d) : m[f] = Absent THEN [error |-> "incomplete"]
    ELSE [ok |-> DirPolicy(m, d)]

\* Both directions of an EffectivePolicy, or the first error.
resolve(range, over) ==
    LET m == merged_with(range, over)
        rx == build_dir(m, "rx")
        tx == build_dir(m, "tx")
    IN  IF "error" \in DOMAIN rx THEN rx
        ELSE IF "error" \in DOMAIN tx THEN tx
        ELSE [ok |-> [rx |-> rx.ok, tx |-> tx.ok]]

DirPolicies ==
    [threshold_bps : Nat, limit_bps : Nat, window_secs : Nat, trigger_ratio_pct : Nat,
     limit_duration_secs : Nat, algorithm : BucketAlgos \cup WindowAlgos, burst_bytes : Nat,
     limit_window_secs : Nat]

BitsPerByte == 8

max_admissible_frame_bytes(p) ==
    IF p.algorithm \in WindowAlgos THEN (p.limit_bps \div BitsPerByte) * p.limit_window_secs
    ELSE p.burst_bytes

trigger_bps(p) == (p.threshold_bps * p.trigger_ratio_pct) \div 100

=============================================================================
