----------------------------- MODULE MCLimiter -----------------------------
(* Small instances of Limiter: one address in a range or on its own override, *)
(* policies that differ in one field each.                                    *)
EXTENDS Limiter

P(trigger, limit, window, duration) ==
    [trigger_bps |-> trigger, limit |-> limit, window_secs |-> window, limit_duration |-> duration]

Base == P(8, "slow", 2, 2)
Longer == P(8, "slow", 2, 3)
Short == P(8, "fast", 1, 1)
Wide == P(8, "fast", 3, 1)

MCDirPolicies == {Base, Longer, Short, Wide}

Both(p) == [d \in Dirs |-> p]
RxOnly(p) == [d \in Dirs |-> IF d = "rx" THEN p ELSE None]

Ranged(p) == [ranges |-> {[ips |-> Ips, policy |-> p]}, overrides |-> <<>>]
Overridden(p, q) ==
    [ranges |-> {[ips |-> Ips, policy |-> p]}, overrides |-> [ip \in Ips |-> q]]
NoRange == [ranges |-> {}, overrides |-> <<>>]

\* Without a range; with rx and tx; with an override that polices rx alone, by
\* another limit, with a shorter window and duration.
MCConfigs == {NoRange, Ranged(Both(Base)), Overridden(Both(Base), RxOnly(Short))}

TxOnly(p) == [d \in Dirs |-> IF d = "tx" THEN p ELSE None]

\* Windows of more than one tick: without a range, with rx policed, by an override with
\* a wider window and another limit, or with a longer duration in a range that polices
\* the other direction.
MCMixedConfigs ==
    {NoRange, Ranged(RxOnly(Base)), Overridden(RxOnly(Base), RxOnly(Wide)),
     Overridden(TxOnly(Base), RxOnly(Longer))}

=============================================================================
