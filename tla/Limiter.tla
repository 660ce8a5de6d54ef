------------------------------ MODULE Limiter ------------------------------
(***************************************************************************)
(* The NORMAL / LIMITED lifecycle of every (IP, direction) flow            *)
(* (limiter.rs), driven by the engine's sampling tick and by hot reloads   *)
(* (collect_tick and reload in daemon.rs).  A handler of the engine is one *)
(* step: the engine task runs one at a time.                               *)
(*                                                                         *)
(* Abstractions.  Time is relative: a LIMITED flow carries the seconds     *)
(* since limited_since instead of the instant, so limited_until - now is   *)
(* limited_for - age.  The enforced part of a policy (rate, burst,         *)
(* algorithm, limit window) is one value, `limit`.  A map transaction      *)
(* either applies an action or leaves its flow as it was, which is what    *)
(* LimitTx shows as long as no rollback fails.  The collector's totals are *)
(* an input: a total grows, stays, or is gone with its counter keys.       *)
(***************************************************************************)
EXTENDS RollingWindow, FiniteSets, SequencesExt

CONSTANTS
    Ips,
    Dirs,           \* DIR_RX, DIR_TX
    DirPolicies,    \* records [trigger_bps, limit, window_secs,
                    \* limit_duration]
    Configs,        \* records [ranges, overrides], see lookup
    None,
    Deltas,         \* byte increments of one poll
    TickGaps,       \* seconds a scheduled tick comes after the last handler
    ReloadGaps,     \* seconds a reload comes after the last handler: it may come
                    \* right behind a tick
    MaxAge,         \* cap: no limit_duration is longer
    MaxObserved,    \* cap of the auxiliary clock `observed`
    MaxBytes,       \* bound: byte total of a flow
    MaxFaults       \* bound: limit actions that the maps refuse

Flows == Ips \X Dirs

ASSUME LimiterAssumption ==
    /\ \A p \in DirPolicies :
          p # None /\ p.limit_duration \in 1..MaxAge /\ {p.window_secs, p.trigger_bps} \subseteq Nat
    /\ \A cfg \in Configs :
          LET policies == [Dirs -> DirPolicies \cup {None}] IN
          /\ \A r \in cfg.ranges : r.policy \in policies
          /\ \A ip \in DOMAIN cfg.overrides : cfg.overrides[ip] \in policies
    /\ IsFiniteSet(Ips) /\ IsFiniteSet(Dirs)
    /\ {MaxAge, MaxObserved, MaxBytes, MaxFaults} \subseteq Nat
    /\ TickGaps \subseteq Nat \ {0} /\ ReloadGaps \subseteq Nat /\ Deltas \subseteq Nat

VARIABLES
    config,         \* ranges and overrides of the limiter's policy index
    windows,        \* a rolling window per flow, or None
    states,         \* DirState per flow
    prev_totals,    \* baseline per IP, or None
    totals,         \* Collector.totals per IP, or None
    armed,          \* the limit enforced by the data path, or None
    faults,         \* refused limit actions so far
    seen,           \* auxiliary: bytes of the polls since observation (re)started
    observed        \* auxiliary: seconds since observation (re)started

lim == <<config, windows, states, prev_totals>>
vars == <<lim, totals, armed, faults, seen, observed>>

-----------------------------------------------------------------------------
(* Policy lookup *)

NoPolicy == [d \in Dirs |-> None]

\* An override first, then the range that holds the address if it polices anything.
lookup(cfg, ip) ==
    IF ip \in DOMAIN cfg.overrides THEN cfg.overrides[ip]
    ELSE LET hits == {r \in cfg.ranges : ip \in r.ips /\ r.policy # NoPolicy} IN
         IF hits = {} THEN None ELSE (CHOOSE r \in hits : TRUE).policy

build_index == [cfg \in Configs |-> [ip \in Ips |-> lookup(cfg, ip)]]

DirPolicy(cfg, f) ==
    LET p == build_index[cfg][f[1]] IN IF p = None THEN None ELSE p[f[2]]

Configured(cfg, ip) == \E r \in cfg.ranges : ip \in r.ips

-----------------------------------------------------------------------------
(* DirState *)

Normal == [phase |-> "Normal", age |-> 0, limited_for |-> 0, applied |-> None]

LimitedBy(np) ==
    [phase |-> "Limited", age |-> 0, limited_for |-> np.limit_duration, applied |-> np]

\* The clock moves on: limited_since lies further back.
Aged(s, gap) ==
    IF s.phase = "Normal" THEN s
    ELSE [s EXCEPT !.age = IF @ + gap > MaxAge THEN MaxAge ELSE @ + gap]

Clock(st, gap) == [f \in Flows |-> Aged(st[f], gap)]

-----------------------------------------------------------------------------
(* The collector's totals, an input of the limiter *)

Zero == [d \in Dirs |-> 0]

\* One poll: the counters of an IP grew by inc, or its last counter key is gone.
Polled(tot, gone, inc) ==
    [ip \in Ips |->
       IF ip \in gone \/ (tot[ip] = None /\ inc[ip] = Zero) THEN None
       ELSE [d \in Dirs |-> (IF tot[ip] = None THEN 0 ELSE tot[ip][d]) + inc[ip][d]]]

prune_ips(tot, cfg) == [ip \in Ips |-> IF Configured(cfg, ip) THEN tot[ip] ELSE None]

-----------------------------------------------------------------------------
(* Limiter::tick, as a function of the limiter L = [config, windows, states, *)
(* prev_totals] and the totals of this poll                                  *)

\* Variant: addresses without totals are not evaluated.
EvaluatedWithTraffic(L, tot) == {ip \in Ips : build_index[L.config][ip] # None /\ tot[ip] # None}

\* IPs with traffic, a window or a LIMITED flow, and a policy.
Evaluated(L, tot) ==
    {ip \in Ips :
       /\ build_index[L.config][ip] # None
       /\ \/ tot[ip] # None
          \/ \E d \in Dirs : L.windows[<<ip, d>>] # None \/ L.states[<<ip, d>>].phase = "Limited"}

Cur(tot, ip) == IF tot[ip] = None THEN Zero ELSE tot[ip]

\* Variant: a first observation counts from zero instead of being a baseline.
DeltaFromZero(L, tot, f) ==
    LET prev == IF L.prev_totals[f[1]] = None THEN 0 ELSE L.prev_totals[f[1]][f[2]]
        cur == Cur(tot, f[1])[f[2]]
    IN  IF cur > prev THEN cur - prev ELSE 0

\* A first observation is a baseline, a counter that went backwards a zero delta.
Delta(L, tot, f) ==
    LET prev == L.prev_totals[f[1]]
        cur == Cur(tot, f[1])[f[2]]
    IN  IF prev = None \/ cur < prev[f[2]] THEN 0 ELSE cur - prev[f[2]]

\* The flows eval_dir gets past its early return.
Active(L, evaluated) ==
    {f \in Flows : f[1] \in evaluated /\ DirPolicy(L.config, f) # None}

\* The window of an active flow with this tick's sample.
Sampled(L, tot, f) ==
    LET np == DirPolicy(L.config, f) IN
    add(IF L.windows[f] = None THEN new(np.window_secs) ELSE L.windows[f], Delta(L, tot, f))

Triggers(w, np) == is_full(w) /\ average_at_least(w, np.trigger_bps)

\* The flows that eval_dir takes into and out of LIMITED; w holds the windows of the
\* active flows.
Entering(L, w) ==
    {f \in DOMAIN w :
       L.states[f].phase = "Normal" /\ Triggers(w[f], DirPolicy(L.config, f))}

Leaving(L, w) ==
    {f \in DOMAIN w :
       L.states[f].phase = "Limited" /\ L.states[f].age >= L.states[f].limited_for}

\* Variant: a refused removal is forgotten.
RevertedForgets(old, entering) == Normal

\* Limiter::revert_failed_action: a refused install leaves the flow NORMAL, a
\* refused removal puts the LIMITED state back that just expired.
Reverted(old, entering) == IF entering THEN Normal ELSE old

-----------------------------------------------------------------------------
(* Limiter::plan_reload and commit_reload *)

\* LIMITED flows that a reload releases: no policy any more, or already overdue
\* when the new duration is counted from the original limited_since.
Released(s, np) == s.phase = "Limited" /\ (np = None \/ np.limit_duration <= s.age)

\* Variants: a changed duration is ignored; the duration starts again at the reload.
UpdatedKeepsDuration(s, np) == [s EXCEPT !.applied = np]
UpdatedReanchored(s, np) == [s EXCEPT !.age = 0, !.limited_for = np.limit_duration, !.applied = np]
Updated(s, np) == [s EXCEPT !.limited_for = np.limit_duration, !.applied = np]

CommittedState(s, np, released) ==
    IF released THEN Normal ELSE IF s.phase = "Limited" THEN Updated(s, np) ELSE s

CommittedWindow(w, np, released) ==
    IF np = None \/ w = None THEN None
    ELSE IF np.window_secs # w.window_secs THEN new(np.window_secs)
    ELSE IF released THEN reset(w) ELSE w

Reinstalled(s, np) == s.phase = "Limited" /\ np.limit # s.applied.limit

CommittedBaseline(cfg, ip) == IF build_index[cfg][ip] = None THEN None ELSE prev_totals[ip]

-----------------------------------------------------------------------------
(* Engine handlers *)

Init ==
    /\ config \in Configs
    /\ windows = [f \in Flows |-> None]
    /\ states = [f \in Flows |-> Normal]
    /\ prev_totals = [ip \in Ips |-> None]
    /\ totals = [ip \in Ips |-> None]
    /\ armed = [f \in Flows |-> None]
    /\ faults = 0
    /\ seen = [f \in Flows |-> <<>>]
    /\ observed = [f \in Flows |-> 0]

LastFew(s) == IF Len(s) > MaxSamples THEN Tail(s) ELSE s

\* collect_tick from the limiter state L on: poll, tick, apply the actions one by
\* one, revert the refused ones.
CollectTick(L, tot, arm, restarted, gap, gone, inc) ==
    LET now == Polled(tot, gone, inc)
        evaluated == Evaluated(L, now)
        np == [f \in Flows |-> DirPolicy(L.config, f)]
        w == [f \in Active(L, evaluated) |-> Sampled(L, now, f)]
        entering == Entering(L, w)
        leaving == Leaving(L, w)
    IN
    \E failed \in SUBSET (entering \cup leaving) :
    /\ faults' = faults + Cardinality(failed)
    /\ faults' <= MaxFaults
    /\ config' = L.config
    /\ windows' = [f \in Flows |-> IF f \in leaving THEN reset(w[f])
                                   ELSE IF f \in DOMAIN w THEN w[f] ELSE L.windows[f]]
    /\ states' = [f \in Flows |->
                    IF f \in failed THEN Reverted(L.states[f], f \in entering)
                    ELSE IF f \in entering THEN LimitedBy(np[f])
                    ELSE IF f \in leaving THEN Normal ELSE L.states[f]]
    /\ prev_totals' = [ip \in Ips |-> IF ip \in evaluated THEN Cur(now, ip) ELSE L.prev_totals[ip]]
    /\ totals' = now
    /\ armed' = [f \in Flows |-> IF f \in entering \ failed THEN np[f].limit
                                 ELSE IF f \in leaving \ failed THEN None ELSE arm[f]]
    /\ seen' = [f \in Flows |->
                  IF np[f] = None \/ f \in leaving THEN <<>>
                  ELSE LastFew(Append(IF restarted[f] THEN <<>> ELSE seen[f], inc[f[1]][f[2]]))]
    /\ observed' = [f \in Flows |->
                      IF np[f] = None \/ f \in leaving \/ restarted[f] THEN 0
                      ELSE IF observed[f] + gap > MaxObserved THEN MaxObserved ELSE observed[f] + gap]

Tick(gap, gone, inc) ==
    LET L == [config |-> config, windows |-> windows, states |-> Clock(states, gap),
              prev_totals |-> prev_totals] IN
    CollectTick(L, totals, armed, [f \in Flows |-> FALSE], gap, gone, inc)

\* A reload whose map operations succeeded, with the tick that ends the handler.
\* A rejected one leaves the limiter untouched.
Reload(cfg, gap, gone, inc) ==
    LET st == Clock(states, gap)
        np == [f \in Flows |-> DirPolicy(cfg, f)]
        released == {f \in Flows : Released(st[f], np[f])}
        L == [config |-> cfg,
              windows |-> [f \in Flows |-> CommittedWindow(windows[f], np[f], f \in released)],
              states |-> [f \in Flows |-> CommittedState(st[f], np[f], f \in released)],
              prev_totals |-> [ip \in Ips |-> CommittedBaseline(cfg, ip)]]
        arm == [f \in Flows |-> IF f \in released THEN None
                                ELSE IF Reinstalled(st[f], np[f]) THEN np[f].limit ELSE armed[f]]
        restarted == [f \in Flows |->
                        LET old == DirPolicy(config, f) IN
                        f \in released \/ old = None \/ np[f] = None
                          \/ old.window_secs # np[f].window_secs]
    IN  CollectTick(L, prune_ips(totals, cfg), arm, restarted, gap, gone, inc)

Inc == [Ips -> [Dirs -> Deltas]]

\* The byte totals stay within their bound.
Bounded(inc) == \A ip \in Ips, d \in Dirs : Cur(totals, ip)[d] + inc[ip][d] <= MaxBytes

Ticking ==
    \E inc \in Inc : Bounded(inc) /\ \E gap \in TickGaps, gone \in SUBSET Ips : Tick(gap, gone, inc)

Reloading ==
    \E inc \in Inc : Bounded(inc) /\
        \E cfg \in Configs, gap \in ReloadGaps, gone \in SUBSET Ips : Reload(cfg, gap, gone, inc)

Next == Ticking \/ Reloading

Spec == Init /\ [][Next]_vars

\* The engine keeps ticking on its collect deadline.
FairSpec == Spec /\ WF_vars(Ticking)

-----------------------------------------------------------------------------
(* Properties *)

DirStates ==
    {Normal} \cup [phase : {"Limited"}, age : 0..MaxAge, limited_for : 1..MaxAge, applied : DirPolicies]

\* The limiter's tables have the types of their Rust declarations: a ring has the size of
\* its window, head is a place in it and observed no more than its size.
TypeOK ==
    /\ config \in Configs
    /\ \A f \in Flows :
          windows[f] = None \/ \E p \in DirPolicies : windows[f] \in RollingWindows(p.window_secs)
    /\ states \in [Flows -> DirStates]
    /\ totals \in [Ips -> [Dirs -> 0..MaxBytes] \cup {None}]
    /\ prev_totals \in [Ips -> [Dirs -> 0..MaxBytes] \cup {None}]
    /\ faults \in 0..MaxFaults

\* A LIMITED flow is governed by the visible configuration: it still has a policy
\* (otherwise no tick would ever look at it again), that policy is the applied
\* one, and the flow ends after that policy's duration.
LimitedIsGoverned ==
    \A f \in Flows : states[f].phase = "Limited" =>
        /\ states[f].applied = DirPolicy(config, f)
        /\ states[f].limited_for = states[f].applied.limit_duration

\* The data path enforces exactly the limits of the LIMITED flows, whatever
\* actions the maps refused.
ArmedMatchesPhase ==
    \A f \in Flows :
        armed[f] = IF states[f].phase = "Limited" THEN states[f].applied.limit ELSE None

\* A flow is LIMITED past its duration only while the maps refuse its removal: a
\* handler that ends with an overdue flow is one in which a removal was refused.
OverdueOnlyIfRefused ==
    [][\A f \in Flows :
         states'[f].phase = "Limited" /\ states'[f].age >= states'[f].limited_for
           => faults' > faults]_vars

Bits(s) ==
    LET sum[i \in 0..Len(s)] == IF i = 0 THEN 0 ELSE sum[i - 1] + s[i]
    IN  sum[Len(s)] * 8

\* No false trigger: a flow becomes LIMITED only after a full ring of samples since
\* its observation (re)started, and only if the bytes of those polls reach the
\* trigger line.  Neither a baseline, a counter reset, an address that was gone,
\* nor samples from before a release or a window change can trip it.
NoFalseTrigger ==
    [][\A f \in Flows :
         states[f].phase = "Normal" /\ states'[f].phase = "Limited" =>
           LET p == states'[f].applied  n == samples(p.window_secs) IN
           /\ Len(seen'[f]) >= n
           /\ Bits(SubSeq(seen'[f], Len(seen'[f]) - n + 1, Len(seen'[f])))
                >= p.trigger_bps * n * TickSecs]_vars

\* Every limit ends, even if the configuration is reloaded again and again and the
\* maps refuse some of the removals.  (With a window of a single tick the tick that
\* ends a reload may limit a flow again that the reload has just released; with
\* longer windows the release is visible between two handlers.)
LimitsEnd ==
    \A f \in Flows : states[f].phase = "Limited" ~> states[f].phase = "Normal"

\* README.md: "Only after a **full** `window` has been observed, average >= trigger
\* line": a flow becomes LIMITED no earlier than one window length after its
\* observation (re)started.
FullWindowObserved ==
    [][\A f \in Flows :
         states[f].phase = "Normal" /\ states'[f].phase = "Limited" =>
           observed'[f] >= states'[f].applied.window_secs]_vars

=============================================================================
