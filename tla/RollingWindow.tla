--------------------------- MODULE RollingWindow ---------------------------
(***************************************************************************)
(* The ring buffer of per-tick byte samples behind the trigger decision    *)
(* (window.rs).  Byte counts are unbounded here: the u64 saturation of     *)
(* `total` and the rounding of the f64 average are not modelled, the       *)
(* average is compared by cross-multiplication.                            *)
(***************************************************************************)
EXTENDS Naturals

CONSTANTS
    TickSecs,       \* seconds represented by one tick
    MaxSamples      \* MAX_SAMPLES: upper bound on the ring size

ASSUME WindowAssumption == TickSecs \in Nat \ {0} /\ MaxSamples \in Nat \ {0}

\* Ring size of a window of that many seconds: whole ticks, at least one, capped.
samples(secs) ==
    LET n == secs \div TickSecs IN
    IF n = 0 THEN 1 ELSE IF n > MaxSamples THEN MaxSamples ELSE n

new(secs) ==
    [ring |-> [i \in 0..samples(secs) - 1 |-> 0], head |-> 0, total |-> 0,
     observed |-> 0, window_secs |-> secs]

\* The new sample overwrites the oldest one.
add(w, delta) ==
    LET n == samples(w.window_secs) IN
    [w EXCEPT !.ring[w.head] = delta,
              !.total = (@ - w.ring[w.head]) + delta,
              !.head = (@ + 1) % n,
              !.observed = IF @ < n THEN @ + 1 ELSE @]

is_full(w) == w.observed >= samples(w.window_secs)

\* average_bps() >= bps, once something has been observed.
average_at_least(w, bps) == w.total * 8 >= bps * w.observed * TickSecs

reset(w) == new(w.window_secs)

\* The values of the struct for a window of that many seconds.
RollingWindows(secs) ==
    [ring : [0..samples(secs) - 1 -> Nat], head : 0..samples(secs) - 1, total : Nat,
     observed : 0..samples(secs), window_secs : {secs}]

=============================================================================
