--------------------------- MODULE LimiterProofs ---------------------------
(***************************************************************************)
(* Proofs about Limiter for any addresses, configurations, windows, gaps   *)
(* between handlers and number of refused actions.  Every handler is a     *)
(* reload's part or none, then CollectTick, so the invariant is stated of  *)
(* the values that one hands to the other (StatesOK, WindowsOK).  That a   *)
(* ring's total is the sum of its samples is said by its prefix sums       *)
(* (IsSummed), which each sample shifts from its place on.  That no limit  *)
(* comes without the traffic for it compares, for every window, each       *)
(* sample with the poll that it was taken in (SeenInv).                    *)
(***************************************************************************)
EXTENDS Limiter, FiniteSetTheorems, WellFoundedInduction, TLAPS

\* s holds the sums of the first samples of a ring, from none of them to all n.
ArePrefixSums(s, ring, n) ==
    /\ s \in [0..n -> Nat] /\ s[0] = 0
    /\ \A i \in 0..n - 1 : s[i + 1] = s[i] + ring[i]
    /\ \A i, j \in 0..n : i <= j => s[i] <= s[j]

IsSummed(w) ==
    LET n == samples(w.window_secs) IN
    \E s : ArePrefixSums(s, w.ring, n) /\ w.total = s[n]

Windows == UNION {RollingWindows(p.window_secs) : p \in DirPolicies}

WindowsOK(win) ==
    /\ win \in [Flows -> Windows \cup {None}]
    /\ \A f \in Flows : win[f] # None => IsSummed(win[f])

StatesOK(cfg, st, arm) ==
    /\ cfg \in Configs
    /\ st \in [Flows -> DirStates]
    /\ \A f \in Flows : st[f].phase = "Limited" =>
         st[f].applied = DirPolicy(cfg, f) /\ st[f].limited_for = st[f].applied.limit_duration
    /\ \A f \in Flows : arm[f] = IF st[f].phase = "Limited" THEN st[f].applied.limit ELSE None

Totals == [Ips -> [Dirs -> 0..MaxBytes] \cup {None}]

IInv ==
    /\ StatesOK(config, states, armed)
    /\ WindowsOK(windows)
    /\ totals \in Totals /\ prev_totals \in Totals
    /\ faults \in 0..MaxFaults

-----------------------------------------------------------------------------
(* The rolling window *)

LEMMA SamplesType ==
    ASSUME NEW secs \in Nat
    PROVE  samples(secs) \in Nat \ {0}
  <1>1. secs \div TickSecs \in Nat
    BY WindowAssumption
  <1> QED  BY <1>1, WindowAssumption DEF samples

LEMMA NewWindow ==
    ASSUME NEW secs \in Nat
    PROVE  new(secs) \in RollingWindows(secs) /\ IsSummed(new(secs))
  <1> DEFINE n == samples(secs)
  <1>1. n \in Nat \ {0}
    BY SamplesType
  <1> HIDE DEF n
  <1>2. new(secs) = [ring |-> [i \in 0..n - 1 |-> 0], head |-> 0, total |-> 0,
                     observed |-> 0, window_secs |-> secs]
    BY DEF new, n
  <1>3. new(secs) \in RollingWindows(secs)
    BY <1>1, <1>2 DEF RollingWindows, n
  <1>4. IsSummed(new(secs))
    <2> DEFINE s == [i \in 0..n |-> 0]
    <2>1. /\ s[n] = 0
          /\ ArePrefixSums(s, [i \in 0..n - 1 |-> 0], n)
      BY <1>1 DEF ArePrefixSums
    <2> HIDE DEF s
    <2>2. /\ new(secs).window_secs = secs /\ new(secs).total = 0
          /\ new(secs).ring = [i \in 0..n - 1 |-> 0]
      BY <1>2
    <2> QED  BY <2>1, <2>2 DEF IsSummed, n
  <1> QED  BY <1>3, <1>4

Overwrites(over, ring, n, h, delta) ==
    /\ n \in Nat \ {0} /\ ring \in [0..n - 1 -> Nat] /\ h \in 0..n - 1 /\ delta \in Nat
    /\ \A i \in 0..n - 1 : over[i] = IF i = h THEN delta ELSE ring[i]

\* Overwriting one sample shifts the sums behind it.
LEMMA ShiftedSums ==
    ASSUME NEW n, NEW ring, NEW s, NEW h, NEW delta, NEW over,
           ArePrefixSums(s, ring, n), Overwrites(over, ring, n, h, delta)
    PROVE  \E u : ArePrefixSums(u, over, n) /\ u[n] = (s[n] - ring[h]) + delta
  <1> DEFINE u == [i \in 0..n |-> IF i <= h THEN s[i] ELSE (s[i] - ring[h]) + delta]
             old == ring[h]
             low == s[h]
             Shifted(i) == /\ s[i] \in Nat
                           /\ i <= h => u[i] = s[i] /\ s[i] <= low
                           /\ i > h => u[i] = (s[i] - old) + delta /\ low + old <= s[i]
  <1>1. /\ n \in Nat \ {0} /\ delta \in Nat
        /\ h \in 0..n /\ h + 1 \in 0..n /\ h \in Nat /\ h < n
        /\ old \in Nat /\ low \in Nat /\ s[h + 1] = low + old
    BY DEF ArePrefixSums, Overwrites
  <1>2. ASSUME NEW i \in 0..n PROVE Shifted(i)
    <2>1. s[i] \in Nat
      BY DEF ArePrefixSums
    <2>2. i <= h => u[i] = s[i] /\ s[i] <= low
      BY <1>1 DEF ArePrefixSums
    <2>3. i > h => u[i] = (s[i] - old) + delta /\ s[h + 1] <= s[i]
      BY <1>1 DEF ArePrefixSums
    <2> QED  BY <2>1, <2>2, <2>3, <1>1
  <1>3. u = [i \in 0..n |-> u[i]]
    OBVIOUS
  <1> HIDE DEF u, old, low
  <1>4. ASSUME NEW i \in 0..n PROVE u[i] \in Nat
    <2>1. Shifted(i)
      BY <1>2
    <2> QED  BY <2>1, <1>1
  <1>5. u \in [0..n -> Nat]
    BY <1>3, <1>4
  <1>6. u[0] = 0 /\ u[n] = (s[n] - old) + delta
    <2>1. Shifted(0) /\ Shifted(n)
      BY <1>1, <1>2
    <2>2. s[0] = 0
      BY DEF ArePrefixSums
    <2> QED  BY <2>1, <2>2, <1>1
  <1>7. ASSUME NEW i \in 0..n, NEW j \in 0..n, i <= j PROVE u[i] <= u[j]
    <2>1. s[i] <= s[j]
      BY <1>7 DEF ArePrefixSums
    <2>2. Shifted(i) /\ Shifted(j)
      BY <1>2
    <2> QED  BY <2>1, <2>2, <1>1, <1>7
  <1>8. ASSUME NEW i \in 0..n - 1 PROVE u[i + 1] = u[i] + over[i]
    <2> DEFINE k == i + 1
    <2>1. /\ i \in 0..n /\ k \in 0..n
          /\ i >= h => k > h
          /\ i < h => k <= h
      BY <1>1
    <2>2. ring[i] \in Nat /\ s[k] = s[i] + ring[i]
      BY DEF ArePrefixSums, Overwrites
    <2>3. over[i] = IF i = h THEN delta ELSE ring[i]
      BY DEF Overwrites
    <2> HIDE DEF k
    <2>4. Shifted(i) /\ Shifted(k)
      BY <2>1, <1>2
    <2>5. CASE i # h
      BY <2>1, <2>2, <2>3, <2>4, <2>5, <1>1 DEF k
    <2>6. CASE i = h
      BY <2>1, <2>2, <2>3, <2>4, <2>6, <1>1 DEF k, old
    <2> QED  BY <2>5, <2>6
  <1>9. ArePrefixSums(u, over, n)
    BY <1>5, <1>6, <1>7, <1>8 DEF ArePrefixSums
  <1> QED  BY <1>6, <1>9 DEF old

\* A sample overwrites the oldest one, and the total follows.
LEMMA AddSample ==
    ASSUME NEW secs \in Nat, NEW w \in RollingWindows(secs), IsSummed(w), NEW delta \in Nat
    PROVE  add(w, delta) \in RollingWindows(secs) /\ IsSummed(add(w, delta))
  <1> DEFINE n == samples(secs)
             h == w.head
             t == add(w, delta)
             ring == [w.ring EXCEPT ![h] = delta]
  <1>1. n \in Nat \ {0}
    BY SamplesType
  <1>2. /\ w.ring \in [0..n - 1 -> Nat] /\ h \in 0..n - 1 /\ w.total \in Nat
        /\ w.observed \in 0..n /\ w.window_secs = secs
    BY DEF RollingWindows
  <1>3. t = [w EXCEPT !.ring = ring,
                      !.total = (w.total - w.ring[h]) + delta,
                      !.head = (h + 1) % n,
                      !.observed = IF w.observed < n THEN w.observed + 1 ELSE w.observed]
    BY <1>2 DEF add
  <1>4. /\ t.ring = ring /\ t.total = (w.total - w.ring[h]) + delta
        /\ t.head = (h + 1) % n /\ t.window_secs = secs
        /\ t.observed = IF w.observed < n THEN w.observed + 1 ELSE w.observed
        /\ t = [ring |-> t.ring, head |-> t.head, total |-> t.total,
                observed |-> t.observed, window_secs |-> t.window_secs]
    BY <1>2, <1>3 DEF RollingWindows
  <1> HIDE DEF n, h, t, ring
  <1>5. PICK s : ArePrefixSums(s, w.ring, n) /\ w.total = s[n]
    BY <1>2 DEF IsSummed, n
  <1>6. PICK u : ArePrefixSums(u, ring, n) /\ u[n] = (s[n] - w.ring[h]) + delta
    <2>1. Overwrites(ring, w.ring, n, h, delta)
      BY <1>1, <1>2 DEF Overwrites, ring
    <2> QED  BY <2>1, <1>5, ShiftedSums
  <1>7. t.total = u[n] /\ t.total \in Nat
    BY <1>1, <1>4, <1>5, <1>6 DEF ArePrefixSums
  <1>8. IsSummed(t)
    BY <1>4, <1>6, <1>7 DEF IsSummed, n
  <1>9. t \in RollingWindows(secs)
    <2>1. t.ring \in [0..n - 1 -> Nat]
      BY <1>2, <1>4 DEF ring
    <2>2. t.head \in 0..n - 1
      BY <1>1, <1>2, <1>4
    <2>3. t.observed \in 0..n
      BY <1>1, <1>2, <1>4, SMTT(30)
    <2> QED  BY <2>1, <2>2, <2>3, <1>4, <1>7 DEF RollingWindows, n
  <1> QED  BY <1>8, <1>9 DEF t

-----------------------------------------------------------------------------
(* Policies and states *)

\* A flow has no policy or one of the configuration.
LEMMA DirPolicyType ==
    ASSUME NEW cfg \in Configs, NEW f \in Flows
    PROVE  /\ DirPolicy(cfg, f) \in DirPolicies \cup {None}
           /\ DirPolicy(cfg, f) # None => build_index[cfg][f[1]] # None
  <1> DEFINE policies == [Dirs -> DirPolicies \cup {None}]
  <1>1. f[1] \in Ips /\ f[2] \in Dirs
    BY DEF Flows
  <1>2. lookup(cfg, f[1]) \in policies \cup {None}
    <2>1. CASE f[1] \in DOMAIN cfg.overrides
      BY <2>1, LimiterAssumption DEF lookup
    <2>2. CASE f[1] \notin DOMAIN cfg.overrides
      <3> DEFINE hits == {r \in cfg.ranges : f[1] \in r.ips /\ r.policy # NoPolicy}
      <3>1. CASE hits = {}
        BY <2>2, <3>1 DEF lookup
      <3>2. CASE hits # {}
        <4>1. (CHOOSE r \in hits : TRUE) \in hits
          BY <3>2
        <4>2. \A r \in hits : r.policy \in policies
          BY LimiterAssumption
        <4>3. lookup(cfg, f[1]) = (CHOOSE r \in hits : TRUE).policy
          BY <2>2, <3>2 DEF lookup
        <4> QED  BY <4>1, <4>2, <4>3
      <3> QED  BY <3>1, <3>2
    <2> QED  BY <2>1, <2>2
  <1>3. build_index[cfg][f[1]] = lookup(cfg, f[1])
    BY <1>1 DEF build_index
  <1> QED  BY <1>1, <1>2, <1>3 DEF DirPolicy

LEMMA StateTypes ==
    ASSUME NEW s \in DirStates
    PROVE  /\ s.phase \in {"Normal", "Limited"}
           /\ s.phase = "Normal" => s = Normal
           /\ s.phase = "Limited" =>
                /\ s.age \in Nat /\ s.age <= MaxAge /\ s.limited_for \in 1..MaxAge
                /\ s.applied \in DirPolicies /\ s.applied # None
  BY LimiterAssumption DEF DirStates, Normal

LEMMA NormalType == Normal \in DirStates /\ Normal.phase = "Normal"
  BY DEF DirStates, Normal

LEMMA LimitedByType ==
    ASSUME NEW np \in DirPolicies
    PROVE  /\ LimitedBy(np) \in DirStates /\ LimitedBy(np).phase = "Limited"
           /\ LimitedBy(np).applied = np /\ LimitedBy(np).limited_for = np.limit_duration
           /\ LimitedBy(np).age = 0
  BY LimiterAssumption DEF LimitedBy, DirStates

\* The clock ages a limit and changes nothing else of it.
LEMMA AgedType ==
    ASSUME NEW s \in DirStates, NEW gap \in Nat
    PROVE  /\ Aged(s, gap) \in DirStates /\ Aged(s, gap).phase = s.phase
           /\ s.phase = "Limited" => /\ Aged(s, gap).applied = s.applied
                                     /\ Aged(s, gap).limited_for = s.limited_for
  <1>1. CASE s.phase = "Normal"
    BY <1>1, StateTypes DEF Aged
  <1>2. CASE s.phase = "Limited"
    <2>1. s \in [phase : {"Limited"}, age : 0..MaxAge, limited_for : 1..MaxAge, applied : DirPolicies]
      BY <1>2 DEF DirStates, Normal
    <2>2. MaxAge \in Nat
      BY LimiterAssumption
    <2> QED  BY <1>2, <2>1, <2>2 DEF Aged, DirStates
  <1> QED  BY <1>1, <1>2, StateTypes

\* A reload updates the duration and the policy of a limit it keeps.
LEMMA UpdatedType ==
    ASSUME NEW s \in DirStates, s.phase = "Limited", NEW np \in DirPolicies
    PROVE  /\ Updated(s, np) \in DirStates /\ Updated(s, np).phase = "Limited"
           /\ Updated(s, np).applied = np /\ Updated(s, np).limited_for = np.limit_duration
  <1>1. s \in [phase : {"Limited"}, age : 0..MaxAge, limited_for : 1..MaxAge, applied : DirPolicies]
    BY DEF DirStates, Normal
  <1>2. np.limit_duration \in 1..MaxAge
    BY LimiterAssumption
  <1> QED  BY <1>1, <1>2 DEF Updated, DirStates

-----------------------------------------------------------------------------
(* What the tick is handed *)

\* Time passes before every handler.
LEMMA ClockKeeps ==
    ASSUME NEW cfg, NEW st, NEW arm, StatesOK(cfg, st, arm), NEW gap \in Nat
    PROVE  StatesOK(cfg, Clock(st, gap), arm)
  <1>1. \A f \in Flows : st[f] \in DirStates /\ Clock(st, gap)[f] = Aged(st[f], gap)
    BY DEF StatesOK, Clock
  <1>2. Clock(st, gap) \in [Flows -> DirStates]
    BY <1>1, AgedType DEF Clock
  <1>3. \A f \in Flows :
          /\ Clock(st, gap)[f].phase = st[f].phase
          /\ st[f].phase = "Limited" => /\ Clock(st, gap)[f].applied = st[f].applied
                                        /\ Clock(st, gap)[f].limited_for = st[f].limited_for
    BY <1>1, AgedType
  <1> QED  BY <1>2, <1>3 DEF StatesOK

\* The part of a reload before its tick: what is LIMITED stays so under its new policy, and
\* the maps follow.
LEMMA CommitStates ==
    ASSUME NEW cfg, NEW st, NEW arm, StatesOK(cfg, st, arm), NEW new_cfg \in Configs,
           NEW committed, NEW rearm,
           \A f \in Flows :
             LET np == DirPolicy(new_cfg, f) IN
             /\ committed[f] = CommittedState(st[f], np, Released(st[f], np))
             /\ rearm[f] = IF Released(st[f], np) THEN None
                           ELSE IF Reinstalled(st[f], np) THEN np.limit ELSE arm[f],
           committed = [f \in Flows |-> committed[f]]
    PROVE  StatesOK(new_cfg, committed, rearm)
  <1> DEFINE Good(f) ==
        /\ committed[f] \in DirStates
        /\ committed[f].phase = "Limited" => /\ committed[f].applied = DirPolicy(new_cfg, f)
                                             /\ committed[f].limited_for = committed[f].applied.limit_duration
        /\ rearm[f] = IF committed[f].phase = "Limited" THEN committed[f].applied.limit ELSE None
  <1>1. ASSUME NEW f \in Flows PROVE Good(f)
    <2> DEFINE np == DirPolicy(new_cfg, f)
               s == st[f]
    <2>1. s \in DirStates /\ arm[f] = IF s.phase = "Limited" THEN s.applied.limit ELSE None
      BY DEF StatesOK
    <2>2. np \in DirPolicies \cup {None}
      BY DirPolicyType
    <2>3. /\ committed[f] = CommittedState(s, np, Released(s, np))
          /\ rearm[f] = IF Released(s, np) THEN None
                        ELSE IF Reinstalled(s, np) THEN np.limit ELSE arm[f]
      OBVIOUS
    <2> HIDE DEF np, s
    <2>4. CASE Released(s, np)
      <3>1. committed[f] = Normal /\ rearm[f] = None
        BY <2>3, <2>4 DEF CommittedState
      <3> QED  BY <3>1, NormalType
    <2>5. CASE ~Released(s, np) /\ s.phase = "Limited"
      <3>1. np # None /\ committed[f] = Updated(s, np)
        BY <2>3, <2>5 DEF Released, CommittedState
      <3>2. /\ Updated(s, np) \in DirStates /\ Updated(s, np).phase = "Limited"
            /\ Updated(s, np).applied = np /\ Updated(s, np).limited_for = np.limit_duration
        BY <2>1, <2>2, <2>5, <3>1, UpdatedType
      <3>3. rearm[f] = np.limit
        BY <2>1, <2>3, <2>5 DEF Reinstalled
      <3> QED  BY <3>1, <3>2, <3>3 DEF np
    <2>6. CASE s.phase = "Normal"
      <3>1. committed[f] = s /\ rearm[f] = None
        BY <2>1, <2>3, <2>6 DEF Released, Reinstalled, CommittedState
      <3> QED  BY <3>1, <2>1, <2>6
    <2> QED  BY <2>1, <2>4, <2>5, <2>6, StateTypes
  <1>2. committed \in [Flows -> DirStates]
    BY <1>1
  <1> QED  BY <1>1, <1>2 DEF StatesOK

\* Windows survive a reload, are reset or start anew.
LEMMA CommitWindow ==
    ASSUME NEW w \in Windows \cup {None}, w # None => IsSummed(w),
           NEW np \in DirPolicies \cup {None}, NEW released \in BOOLEAN,
           NEW c, c = CommittedWindow(w, np, released)
    PROVE  c \in Windows \cup {None} /\ (c # None => IsSummed(c))
  <1>1. ASSUME NEW p \in DirPolicies
        PROVE  new(p.window_secs) \in Windows /\ IsSummed(new(p.window_secs))
    BY NewWindow, LimiterAssumption DEF Windows
  <1>2. ASSUME w # None PROVE reset(w) \in Windows /\ IsSummed(reset(w))
    <2>1. PICK p \in DirPolicies : w \in RollingWindows(p.window_secs)
      BY <1>2 DEF Windows
    <2>2. w.window_secs = p.window_secs
      BY <2>1 DEF RollingWindows
    <2> QED  BY <2>2, <1>1 DEF reset
  <1> QED  BY <1>1, <1>2 DEF CommittedWindow

LEMMA IncType ==
    ASSUME NEW inc \in Inc, NEW ip \in Ips, NEW d \in Dirs
    PROVE  inc[ip][d] \in Nat
  BY LimiterAssumption, ZenonT(40) DEF Inc

\* Totals that shrink with the configuration, or lose keys, keep their bound.
LEMMA PolledType ==
    ASSUME NEW tot \in Totals, NEW inc \in Inc, NEW gone \in SUBSET Ips,
           \A ip \in Ips, d \in Dirs : Cur(tot, ip)[d] + inc[ip][d] <= MaxBytes
    PROVE  Polled(tot, gone, inc) \in Totals
  <1>1. ASSUME NEW ip \in Ips PROVE Polled(tot, gone, inc)[ip] \in [Dirs -> 0..MaxBytes] \cup {None}
    <2>1. ASSUME NEW d \in Dirs
          PROVE  (IF tot[ip] = None THEN 0 ELSE tot[ip][d]) + inc[ip][d] \in 0..MaxBytes
      <3>1. inc[ip][d] \in Nat /\ MaxBytes \in Nat
        BY IncType, LimiterAssumption
      <3>2. Cur(tot, ip)[d] + inc[ip][d] <= MaxBytes
        OBVIOUS
      <3>3. CASE tot[ip] = None
        BY <3>1, <3>2, <3>3 DEF Cur, Zero
      <3>4. CASE tot[ip] # None
        <4>1. tot[ip][d] \in 0..MaxBytes
          BY <3>4 DEF Totals
        <4> QED  BY <4>1, <3>1, <3>2, <3>4 DEF Cur
      <3> QED  BY <3>3, <3>4
    <2>2. [d \in Dirs |-> (IF tot[ip] = None THEN 0 ELSE tot[ip][d]) + inc[ip][d]]
            \in [Dirs -> 0..MaxBytes]
      BY <2>1
    <2> QED  BY <2>2 DEF Polled
  <1> QED  BY <1>1 DEF Polled, Totals

LEMMA CurType ==
    ASSUME NEW tot \in Totals, NEW ip \in Ips
    PROVE  Cur(tot, ip) \in [Dirs -> 0..MaxBytes]
  <1>1. Zero \in [Dirs -> 0..MaxBytes]
    BY LimiterAssumption DEF Zero
  <1> QED  BY <1>1 DEF Cur, Totals

\* A sample is never negative, also when a counter went backwards.
LEMMA SampledType ==
    ASSUME NEW L, L.config \in Configs, WindowsOK(L.windows), L.prev_totals \in Totals,
           NEW tot \in Totals, NEW f \in Flows, DirPolicy(L.config, f) # None
    PROVE  Sampled(L, tot, f) \in Windows /\ IsSummed(Sampled(L, tot, f))
  <1> DEFINE np == DirPolicy(L.config, f)
             delta == Delta(L, tot, f)
             w == IF L.windows[f] = None THEN new(np.window_secs) ELSE L.windows[f]
  <1>1. np \in DirPolicies /\ np.window_secs \in Nat
    BY DirPolicyType, LimiterAssumption
  <1>2. delta \in Nat
    <2>1. f[1] \in Ips /\ f[2] \in Dirs
      BY DEF Flows
    <2>2. Cur(tot, f[1])[f[2]] \in Nat
      BY <2>1, CurType, LimiterAssumption
    <2>3. L.prev_totals[f[1]] # None => L.prev_totals[f[1]][f[2]] \in Nat
      BY <2>1, LimiterAssumption DEF Totals
    <2> QED  BY <2>2, <2>3 DEF Delta
  <1>3. w \in Windows /\ IsSummed(w)
    <2>1. CASE L.windows[f] = None
      <3>1. new(np.window_secs) \in Windows /\ IsSummed(new(np.window_secs))
        BY <1>1, NewWindow DEF Windows
      <3> QED  BY <2>1, <3>1
    <2>2. CASE L.windows[f] # None
      BY <2>2 DEF WindowsOK
    <2> QED  BY <2>1, <2>2
  <1>4. Sampled(L, tot, f) = add(w, delta)
    BY DEF Sampled
  <1> HIDE DEF w, delta, np
  <1>5. PICK p \in DirPolicies : w \in RollingWindows(p.window_secs)
    BY <1>3 DEF Windows
  <1>6. p.window_secs \in Nat
    BY LimiterAssumption
  <1>7. add(w, delta) \in RollingWindows(p.window_secs) /\ IsSummed(add(w, delta))
    BY <1>2, <1>3, <1>5, <1>6, AddSample
  <1> QED  BY <1>4, <1>7 DEF Windows

-----------------------------------------------------------------------------
(* The tick *)

\* The tick takes flows into and out of LIMITED and leaves the maps in step, whichever
\* actions they refuse.  A flow that is overdue afterwards is one whose removal they refused.
LEMMA TickStates ==
    ASSUME NEW L, NEW tot, NEW arm, NEW restarted, NEW gap, NEW gone, NEW inc,
           StatesOK(L.config, L.states, arm), faults \in Nat,
           CollectTick(L, tot, arm, restarted, gap, gone, inc)
    PROVE  /\ StatesOK(config', states', armed')
           /\ faults' \in 0..MaxFaults
           /\ \A f \in Flows : states'[f].phase = "Limited" /\ states'[f].age >= states'[f].limited_for
                => faults' > faults
  <1> DEFINE now == Polled(tot, gone, inc)
             evaluated == Evaluated(L, now)
             np == [f \in Flows |-> DirPolicy(L.config, f)]
             w == [f \in Active(L, evaluated) |-> Sampled(L, now, f)]
             entering == Entering(L, w)
             leaving == Leaving(L, w)
  <1>1. PICK failed \in SUBSET (entering \cup leaving) :
          /\ faults' = faults + Cardinality(failed)
          /\ faults' <= MaxFaults
          /\ config' = L.config
          /\ states' = [f \in Flows |->
                          IF f \in failed THEN Reverted(L.states[f], f \in entering)
                          ELSE IF f \in entering THEN LimitedBy(np[f])
                          ELSE IF f \in leaving THEN Normal ELSE L.states[f]]
          /\ armed' = [f \in Flows |-> IF f \in entering \ failed THEN np[f].limit
                                       ELSE IF f \in leaving \ failed THEN None ELSE arm[f]]
    BY DEF CollectTick
  <1>2. \A f \in Flows :
          /\ f \in entering => /\ L.states[f].phase = "Normal" /\ np[f] # None
          /\ f \in leaving <=> /\ L.states[f].phase = "Limited" /\ f \in Active(L, evaluated)
                               /\ L.states[f].age >= L.states[f].limited_for
          /\ np[f] = DirPolicy(L.config, f)
    BY DEF Entering, Leaving, Active
  <1>3. entering \subseteq Flows /\ leaving \subseteq Flows
    BY DEF Entering, Leaving, Active
  <1> HIDE DEF np, entering, leaving, w
  <1> DEFINE Good(f) ==
        /\ states'[f] \in DirStates
        /\ states'[f].phase = "Limited" => /\ states'[f].applied = DirPolicy(L.config, f)
                                           /\ states'[f].limited_for = states'[f].applied.limit_duration
        /\ armed'[f] = IF states'[f].phase = "Limited" THEN states'[f].applied.limit ELSE None
        /\ states'[f].phase = "Limited" /\ states'[f].age >= states'[f].limited_for => f \in failed
  <1>4. ASSUME NEW f \in Flows PROVE Good(f)
    <2>1. /\ L.states[f] \in DirStates
          /\ L.states[f].phase = "Limited" =>
               /\ L.states[f].applied = DirPolicy(L.config, f)
               /\ L.states[f].limited_for = L.states[f].applied.limit_duration
          /\ arm[f] = IF L.states[f].phase = "Limited" THEN L.states[f].applied.limit ELSE None
      BY DEF StatesOK
    <2>2. CASE f \in entering \ failed
      <3>1. states'[f] = LimitedBy(np[f]) /\ armed'[f] = np[f].limit
        BY <1>1, <2>2
      <3>2. np[f] \in DirPolicies
        BY <1>2, <2>2, DirPolicyType DEF StatesOK
      <3>3. LimitedBy(np[f]).limited_for > LimitedBy(np[f]).age
        BY <3>2, LimitedByType, LimiterAssumption
      <3>4. ~(LimitedBy(np[f]).age >= LimitedBy(np[f]).limited_for)
        BY <3>2, <3>3, LimitedByType, LimiterAssumption
      <3> QED  BY <3>1, <3>2, <3>4, LimitedByType, <1>2
    <2>3. CASE f \in leaving \ failed
      <3>1. states'[f] = Normal /\ armed'[f] = None
        BY <1>1, <1>2, <2>3
      <3> QED  BY <3>1, NormalType
    <2>4. CASE f \in failed /\ f \in entering
      <3>1. states'[f] = Normal /\ armed'[f] = None
        BY <1>1, <1>2, <2>1, <2>4 DEF Reverted
      <3> QED  BY <3>1, NormalType
    <2>5. CASE f \in failed /\ f \notin entering
      <3>1. states'[f] = L.states[f] /\ armed'[f] = arm[f]
        BY <1>1, <2>5 DEF Reverted
      <3> QED  BY <3>1, <2>1, <2>5
    <2>6. CASE f \notin entering \cup leaving
      <3>1. states'[f] = L.states[f] /\ armed'[f] = arm[f]
        BY <1>1, <2>6
      <3>2. ASSUME L.states[f].phase = "Limited" PROVE f \in Active(L, evaluated)
        <4>1. DirPolicy(L.config, f) # None
          BY <2>1, <3>2, StateTypes
        <4>2. f = <<f[1], f[2]>> /\ f[1] \in Ips /\ f[2] \in Dirs
          BY DEF Flows
        <4>3. build_index[L.config][f[1]] # None
          BY <4>1, DirPolicyType DEF StatesOK
        <4>4. f[1] \in evaluated
          BY <3>2, <4>2, <4>3 DEF Evaluated
        <4> QED  BY <4>1, <4>4 DEF Active
      <3>3. ~(L.states[f].phase = "Limited" /\ L.states[f].age >= L.states[f].limited_for)
        BY <1>2, <2>6, <3>2
      <3> QED  BY <3>1, <3>3, <2>1
    <2> QED  BY <2>2, <2>3, <2>4, <2>5, <2>6
  <1>5. StatesOK(config', states', armed')
    <2>1. states' \in [Flows -> DirStates]
      BY <1>1, <1>4
    <2> QED  BY <1>1, <1>4, <2>1 DEF StatesOK
  <1>6. IsFiniteSet(failed)
    <2>1. IsFiniteSet(Flows)
      BY FS_Product, LimiterAssumption DEF Flows
    <2> QED  BY <1>3, <2>1, FS_Subset
  <1>7. Cardinality(failed) \in Nat /\ (failed # {} => Cardinality(failed) > 0)
    BY <1>6, FS_CardinalityType, FS_EmptySet
  <1>8. faults' \in 0..MaxFaults
    BY <1>1, <1>7, LimiterAssumption
  <1>9. ASSUME NEW f \in Flows, states'[f].phase = "Limited", states'[f].age >= states'[f].limited_for
        PROVE  faults' > faults
    <2>1. f \in failed
      BY <1>4, <1>9
    <2> QED  BY <2>1, <1>1, <1>7
  <1> QED  BY <1>5, <1>8, <1>9

\* Samples go into the windows of the flows that are evaluated, and the totals of this poll
\* are the baseline of the next.
LEMMA TickWindows ==
    ASSUME NEW L, NEW tot \in Totals, NEW arm, NEW restarted, NEW gap, NEW gone \in SUBSET Ips,
           NEW inc \in Inc,
           \A ip \in Ips, d \in Dirs : Cur(tot, ip)[d] + inc[ip][d] <= MaxBytes,
           L.config \in Configs, WindowsOK(L.windows), L.prev_totals \in Totals,
           CollectTick(L, tot, arm, restarted, gap, gone, inc)
    PROVE  WindowsOK(windows') /\ totals' \in Totals /\ prev_totals' \in Totals
  <1> DEFINE now == Polled(tot, gone, inc)
             evaluated == Evaluated(L, now)
             w == [f \in Active(L, evaluated) |-> Sampled(L, now, f)]
             leaving == Leaving(L, w)
  <1>1. /\ windows' = [f \in Flows |-> IF f \in leaving THEN reset(w[f])
                                       ELSE IF f \in DOMAIN w THEN w[f] ELSE L.windows[f]]
        /\ prev_totals' = [ip \in Ips |-> IF ip \in evaluated THEN Cur(now, ip) ELSE L.prev_totals[ip]]
        /\ totals' = now
    BY DEF CollectTick
  <1>2. now \in Totals
    BY PolledType
  <1>3. prev_totals' \in Totals
    BY <1>1, <1>2, CurType DEF Totals
  <1>4. ASSUME NEW f \in DOMAIN w PROVE w[f] \in Windows /\ IsSummed(w[f])
    <2>1. f \in Flows /\ DirPolicy(L.config, f) # None /\ w[f] = Sampled(L, now, f)
      BY <1>4 DEF Active
    <2> QED  BY <2>1, <1>2, SampledType
  <1>5. leaving \subseteq DOMAIN w
    BY DEF Leaving
  <1> HIDE DEF w, leaving
  <1>6. ASSUME NEW f \in Flows PROVE windows'[f] \in Windows \cup {None} /\ (windows'[f] # None => IsSummed(windows'[f]))
    <2>1. CASE f \in leaving
      <3>1. w[f] \in Windows
        BY <2>1, <1>4, <1>5
      <3>2. PICK p \in DirPolicies : w[f] \in RollingWindows(p.window_secs)
        BY <3>1 DEF Windows
      <3>3. w[f].window_secs = p.window_secs /\ p.window_secs \in Nat
        BY <3>2, LimiterAssumption DEF RollingWindows
      <3>4. reset(w[f]) \in Windows /\ IsSummed(reset(w[f]))
        BY <3>3, NewWindow DEF reset, Windows
      <3> QED  BY <2>1, <3>4, <1>1
    <2>2. CASE f \notin leaving
      BY <2>2, <1>1, <1>4 DEF WindowsOK
    <2> QED  BY <2>1, <2>2
  <1>7. windows' \in [Flows -> Windows \cup {None}]
    BY <1>1, <1>6
  <1> QED  BY <1>1, <1>2, <1>3, <1>6, <1>7 DEF WindowsOK

-----------------------------------------------------------------------------
(* The handlers *)

Overdue(f) == states'[f].phase = "Limited" /\ states'[f].age >= states'[f].limited_for

LEMMA Initially == Init => IInv
  <1> SUFFICES ASSUME Init PROVE IInv
    OBVIOUS
  <1>1. StatesOK(config, states, armed)
    BY NormalType DEF Init, StatesOK
  <1>2. WindowsOK(windows)
    BY DEF Init, WindowsOK
  <1>3. totals \in Totals /\ prev_totals \in Totals /\ faults \in 0..MaxFaults
    BY LimiterAssumption DEF Init, Totals
  <1> QED  BY <1>1, <1>2, <1>3 DEF IInv

LEMMA TickKeeps ==
    ASSUME IInv, NEW inc \in Inc, Bounded(inc), NEW gap \in TickGaps, NEW gone \in SUBSET Ips,
           Tick(gap, gone, inc)
    PROVE  IInv' /\ \A f \in Flows : Overdue(f) => faults' > faults
  <1> DEFINE L == [config |-> config, windows |-> windows, states |-> Clock(states, gap),
                   prev_totals |-> prev_totals]
             never == [f \in Flows |-> FALSE]
  <1>1. /\ L.config = config /\ L.windows = windows /\ L.states = Clock(states, gap)
        /\ L.prev_totals = prev_totals
    OBVIOUS
  <1>2. CollectTick(L, totals, armed, never, gap, gone, inc)
    BY DEF Tick
  <1> HIDE DEF L, never
  <1>3. gap \in Nat /\ faults \in Nat
    BY LimiterAssumption DEF IInv
  <1>4. StatesOK(L.config, L.states, armed)
    BY <1>1, <1>3, ClockKeeps DEF IInv
  <1>5. /\ StatesOK(config', states', armed') /\ faults' \in 0..MaxFaults
        /\ \A f \in Flows : Overdue(f) => faults' > faults
    BY <1>2, <1>3, <1>4, TickStates DEF Overdue
  <1>6. \A ip \in Ips, d \in Dirs : Cur(totals, ip)[d] + inc[ip][d] <= MaxBytes
    BY DEF Bounded
  <1>7. /\ WindowsOK(L.windows) /\ L.prev_totals \in Totals /\ totals \in Totals /\ L.config \in Configs
    BY <1>1 DEF IInv, StatesOK
  <1>8. WindowsOK(windows') /\ totals' \in Totals /\ prev_totals' \in Totals
    BY <1>2, <1>6, <1>7, TickWindows
  <1> QED  BY <1>5, <1>8 DEF IInv

\* A reload takes totals away and adds none.
LEMMA PrunedTotals ==
    ASSUME IInv, NEW inc \in Inc, Bounded(inc), NEW cfg \in Configs,
           NEW tot, tot = prune_ips(totals, cfg)
    PROVE  /\ tot \in Totals
           /\ \A ip \in Ips, d \in Dirs : Cur(tot, ip)[d] + inc[ip][d] <= MaxBytes
  <1>a. tot \in Totals
    BY DEF IInv, prune_ips, Totals
  <1> SUFFICES ASSUME NEW ip \in Ips, NEW d \in Dirs PROVE Cur(tot, ip)[d] + inc[ip][d] <= MaxBytes
    BY <1>a
  <1>1. Cur(totals, ip)[d] + inc[ip][d] <= MaxBytes
    BY DEF Bounded
  <1>2. Cur(totals, ip)[d] \in Nat /\ inc[ip][d] \in Nat /\ MaxBytes \in Nat
    <2>1. Cur(totals, ip) \in [Dirs -> 0..MaxBytes]
      BY CurType DEF IInv
    <2>2. Cur(totals, ip)[d] \in 0..MaxBytes
      BY <2>1
    <2>3. inc[ip][d] \in Nat
      BY IncType
    <2>4. MaxBytes \in Nat
      BY LimiterAssumption
    <2> QED  BY <2>2, <2>3, <2>4
  <1>3. tot[ip] = totals[ip] \/ tot[ip] = None
    BY DEF prune_ips
  <1>4. Cur(tot, ip)[d] = Cur(totals, ip)[d] \/ Cur(tot, ip)[d] = 0
    BY <1>3 DEF Cur, Zero
  <1> QED  BY <1>1, <1>2, <1>4

LEMMA ReloadKeeps ==
    ASSUME IInv, NEW inc \in Inc, Bounded(inc), NEW cfg \in Configs, NEW gap \in ReloadGaps,
           NEW gone \in SUBSET Ips, Reload(cfg, gap, gone, inc)
    PROVE  IInv' /\ \A f \in Flows : Overdue(f) => faults' > faults
  <1> DEFINE st == Clock(states, gap)
             np == [f \in Flows |-> DirPolicy(cfg, f)]
             released == {f \in Flows : Released(st[f], np[f])}
             win == [f \in Flows |-> CommittedWindow(windows[f], np[f], f \in released)]
             com == [f \in Flows |-> CommittedState(st[f], np[f], f \in released)]
             base == [ip \in Ips |-> CommittedBaseline(cfg, ip)]
             L == [config |-> cfg, windows |-> win, states |-> com, prev_totals |-> base]
             arm == [f \in Flows |-> IF f \in released THEN None
                                     ELSE IF Reinstalled(st[f], np[f]) THEN np[f].limit ELSE armed[f]]
             restarted == [f \in Flows |->
                             LET old == DirPolicy(config, f) IN
                             f \in released \/ old = None \/ np[f] = None
                               \/ old.window_secs # np[f].window_secs]
             tot == prune_ips(totals, cfg)
  <1>1. CollectTick(L, tot, arm, restarted, gap, gone, inc)
    BY DEF Reload
  <1>2. gap \in Nat /\ faults \in Nat
    BY LimiterAssumption DEF IInv
  <1>3. StatesOK(config, st, armed)
    BY <1>2, ClockKeeps DEF IInv
  <1>4. \A f \in Flows : LET p == DirPolicy(cfg, f) IN
          /\ com[f] = CommittedState(st[f], p, Released(st[f], p))
          /\ arm[f] = IF Released(st[f], p) THEN None
                      ELSE IF Reinstalled(st[f], p) THEN p.limit ELSE armed[f]
    <2> SUFFICES ASSUME NEW f \in Flows
                 PROVE  LET p == DirPolicy(cfg, f) IN
                        /\ com[f] = CommittedState(st[f], p, Released(st[f], p))
                        /\ arm[f] = IF Released(st[f], p) THEN None
                                    ELSE IF Reinstalled(st[f], p) THEN p.limit ELSE armed[f]
      OBVIOUS
    <2>1. np[f] = DirPolicy(cfg, f) /\ (f \in released <=> Released(st[f], np[f]))
      OBVIOUS
    <2>2. com[f] = CommittedState(st[f], np[f], f \in released)
      OBVIOUS
    <2> HIDE DEF com, np, st, released
    <2>3. com[f] = CommittedState(st[f], np[f], Released(st[f], np[f]))
      BY <2>1, <2>2 DEF CommittedState
    <2>4. arm[f] = IF Released(st[f], np[f]) THEN None
                   ELSE IF Reinstalled(st[f], np[f]) THEN np[f].limit ELSE armed[f]
      BY <2>1
    <2> QED  BY <2>1, <2>3, <2>4
  <1>5. /\ L.config = cfg /\ L.windows = win /\ L.states = com /\ L.prev_totals = base
        /\ com = [f \in Flows |-> com[f]]
    OBVIOUS
  <1>6. WindowsOK(win)
    <2>1. ASSUME NEW f \in Flows
          PROVE  win[f] \in Windows \cup {None} /\ (win[f] # None => IsSummed(win[f]))
      <3>1. windows[f] \in Windows \cup {None} /\ (windows[f] # None => IsSummed(windows[f]))
        BY DEF IInv, WindowsOK
      <3>2. np[f] \in DirPolicies \cup {None}
        BY DirPolicyType
      <3>3. win[f] = CommittedWindow(windows[f], np[f], f \in released)
        OBVIOUS
      <3> HIDE DEF win, np, released
      <3>4. CASE f \in released
        <4>1. win[f] = CommittedWindow(windows[f], np[f], TRUE)
          BY <3>3, <3>4 DEF CommittedWindow
        <4> QED  BY <3>1, <3>2, <4>1, CommitWindow
      <3>5. CASE f \notin released
        <4>1. win[f] = CommittedWindow(windows[f], np[f], FALSE)
          BY <3>3, <3>5 DEF CommittedWindow
        <4> QED  BY <3>1, <3>2, <4>1, CommitWindow
      <3> QED  BY <3>4, <3>5
    <2> QED  BY <2>1 DEF WindowsOK
  <1>7. base \in Totals
    BY DEF IInv, CommittedBaseline, Totals
  <1>8. tot \in Totals
    BY PrunedTotals
  <1>9. \A ip \in Ips, d \in Dirs : Cur(tot, ip)[d] + inc[ip][d] <= MaxBytes
    BY PrunedTotals
  <1> HIDE DEF L, win, com, base, arm, restarted, tot, st, np, released
  <1>10. StatesOK(L.config, L.states, arm)
    BY <1>3, <1>4, <1>5, CommitStates
  <1>11. /\ StatesOK(config', states', armed') /\ faults' \in 0..MaxFaults
         /\ \A f \in Flows : Overdue(f) => faults' > faults
    BY <1>1, <1>2, <1>10, TickStates DEF Overdue
  <1>12. WindowsOK(windows') /\ totals' \in Totals /\ prev_totals' \in Totals
    BY <1>1, <1>5, <1>6, <1>7, <1>8, <1>9, TickWindows
  <1> QED  BY <1>11, <1>12 DEF IInv

LEMMA NextKeeps ==
    ASSUME IInv, Next
    PROVE  IInv' /\ \A f \in Flows : Overdue(f) => faults' > faults
  <1>1. CASE Ticking
    BY <1>1, TickKeeps DEF Ticking
  <1>2. CASE Reloading
    BY <1>2, ReloadKeeps DEF Reloading
  <1> QED  BY <1>1, <1>2 DEF Next

LEMMA Inductive == IInv /\ [Next]_vars => IInv'
  <1> SUFFICES ASSUME IInv, [Next]_vars PROVE IInv'
    OBVIOUS
  <1>1. CASE Next
    BY <1>1, NextKeeps
  <1>2. CASE UNCHANGED vars
    BY <1>2 DEF vars, lim, IInv, StatesOK, WindowsOK
  <1> QED  BY <1>1, <1>2

LEMMA Invariance == Spec => []IInv
  BY Initially, Inductive, PTL DEF Spec

-----------------------------------------------------------------------------
(* Sums of polls *)

\* A nonempty set of naturals has a least element.
LEMMA LeastNat ==
    ASSUME NEW B, B \subseteq Nat, B # {}
    PROVE  \E k \in B : \A j \in B : k <= j
  <1>1. PICK k \in B : \A j \in B : ~ (<<j, k>> \in OpToRel(<, Nat))
    BY NatLessThanWellFounded, WFMin, Zenon
  <1>2. ASSUME NEW j \in B PROVE k <= j
    <2>1. j \in Nat /\ k \in Nat
      OBVIOUS
    <2>2. ~ (<<j, k>> \in OpToRel(<, Nat))
      BY <1>1
    <2>3. ~ (j < k)
      BY <2>1, <2>2, Zenon DEF OpToRel
    <2> QED
      BY <2>1, <2>3
  <1> QED
    BY <1>2

SumStep(q, f, i) == IF i = 0 THEN 0 ELSE f[i - 1] + q[i]
Sums(q) == CHOOSE f : f = [i \in 0..Len(q) |-> SumStep(q, f, i)]

LEMMA BitsAreSums == ASSUME NEW q PROVE Bits(q) = Sums(q)[Len(q)] * 8
  BY DEF Bits, Sums, SumStep

\* Every sequence of numbers has its sums: a shortest part that had none would be one
\* element longer than one that has them.
LEMMA SumsExist ==
    ASSUME NEW q \in Seq(Nat)
    PROVE  Sums(q) \in [0..Len(q) -> Nat] /\ \A i \in 0..Len(q) : Sums(q)[i] = SumStep(q, Sums(q), i)
  <1> DEFINE Has(k, f) == f \in [0..k -> Nat] /\ \A i \in 0..k : f[i] = SumStep(q, f, i)
             B == {k \in 0..Len(q) : ~ \E f : Has(k, f)}
  <1>1. ASSUME B # {} PROVE FALSE
    <2>1. PICK k \in B : \A j \in B : k <= j
      <3>1. B \subseteq Nat
        OBVIOUS
      <3> HIDE DEF B
      <3> QED BY <1>1, <3>1, LeastNat
    <2>2. k # 0
      <3>1. Has(0, [i \in 0..0 |-> 0])
        BY DEF SumStep
      <3> QED
        BY <3>1
    <2>3. k \in 1..Len(q) /\ k - 1 \in 0..Len(q) /\ k - 1 \notin B
      <3>1. k \in 0..Len(q) /\ Len(q) \in Nat
        OBVIOUS
      <3> HIDE DEF B
      <3> QED BY <3>1, <2>1, <2>2
    <2>4. PICK g : Has(k - 1, g)
      BY <2>3
    <2> DEFINE f == [i \in 0..k |-> IF i = k THEN g[k - 1] + q[k] ELSE g[i]]
    <2>5. q[k] \in Nat /\ g[k - 1] \in Nat
      BY <2>3, <2>4
    <2>6. f \in [0..k -> Nat]
      BY <2>3, <2>4, <2>5
    <2>7. ASSUME NEW i \in 0..k PROVE f[i] = SumStep(q, f, i)
      <3>1. CASE i = k
        <4>1. f[k - 1] = g[k - 1] /\ f[k] = g[k - 1] + q[k]
          BY <2>3
        <4> HIDE DEF f
        <4> QED BY <4>1, <3>1, <2>2 DEF SumStep
      <3>2. CASE i # k
        <4>1. i \in 0..k - 1
          BY <2>3, <3>2
        <4>2. g[i] = SumStep(q, g, i) /\ f[i] = g[i]
          BY <2>4, <4>1
        <4>3. i # 0 => f[i - 1] = g[i - 1]
          BY <4>1
        <4> HIDE DEF f
        <4> QED BY <4>2, <4>3 DEF SumStep
      <3> QED BY <3>1, <3>2
    <2> HIDE DEF f
    <2>8. \E h : Has(k, h)
      BY <2>6, <2>7
    <2> QED
      BY <2>8, <2>1
  <1>2. Len(q) \notin B /\ Len(q) \in 0..Len(q)
    BY <1>1, SMTT(30)
  <1>3. PICK f : Has(Len(q), f)
    BY <1>2
  <1>4. f = [i \in 0..Len(q) |-> SumStep(q, f, i)]
    BY <1>3
  <1>5. Sums(q) = [i \in 0..Len(q) |-> SumStep(q, Sums(q), i)]
    BY <1>4 DEF Sums
  <1>6. \A i \in 0..Len(q) : Sums(q)[i] = SumStep(q, Sums(q), i)
    <2> SUFFICES ASSUME NEW i \in 0..Len(q), NEW s, s = Sums(q) PROVE s[i] = SumStep(q, s, i)
      OBVIOUS
    <2>1. s = [j \in 0..Len(q) |-> SumStep(q, s, j)]
      BY <1>5
    <2> QED
      BY <2>1
  <1>7. ASSUME NEW i \in 0..Len(q) PROVE Sums(q)[i] = f[i]
    <2> DEFINE C == {j \in 0..Len(q) : Sums(q)[j] # f[j]}
    <2>1. SUFFICES ASSUME C # {} PROVE FALSE
      OBVIOUS
    <2>2. PICK j \in C : \A l \in C : j <= l
      <3>1. C \subseteq Nat
        OBVIOUS
      <3> HIDE DEF C
      <3> QED BY <2>1, <3>1, LeastNat
    <2>3. Sums(q)[j] = SumStep(q, Sums(q), j) /\ f[j] = SumStep(q, f, j)
      BY <1>3, <1>6
    <2>4. j # 0 => j - 1 \in 0..Len(q) /\ j - 1 \notin C
      BY <2>2
    <2>5. j # 0 => Sums(q)[j - 1] = f[j - 1]
      BY <2>4
    <2> QED
      BY <2>2, <2>3, <2>5 DEF SumStep
  <1>8. Sums(q) = [i \in 0..Len(q) |-> Sums(q)[i]]
    <2> SUFFICES ASSUME NEW s, s = Sums(q) PROVE s = [i \in 0..Len(q) |-> s[i]]
      OBVIOUS
    <2>1. s = [j \in 0..Len(q) |-> SumStep(q, s, j)]
      BY <1>5
    <2> QED
      BY <2>1
  <1> QED
    BY <1>3, <1>6, <1>7, <1>8

\* A sequence sums to no less than numbers that grow by no more at each of its elements.
LEMMA SumsAtLeast ==
    ASSUME NEW q \in Seq(Nat), NEW v \in [0..Len(q) -> Nat], v[0] = 0,
           \A i \in 1..Len(q) : v[i] <= v[i - 1] + q[i]
    PROVE  Bits(q) \in Nat /\ v[Len(q)] * 8 <= Bits(q)
  <1> DEFINE n == Len(q)
             f == Sums(q)
             B == {i \in 0..n : ~(v[i] <= f[i])}
  <1>1. n \in Nat /\ f \in [0..n -> Nat] /\ \A i \in 0..n : f[i] = SumStep(q, f, i)
    BY SumsExist
  <1> HIDE DEF f
  <1>2. ASSUME B # {} PROVE FALSE
    <2>1. PICK k \in B : \A j \in B : k <= j
      <3>1. B \subseteq Nat
        OBVIOUS
      <3> HIDE DEF B
      <3> QED BY <1>2, <3>1, LeastNat
    <2>2. f[k] = SumStep(q, f, k) /\ v[k] \in Nat /\ k \in 0..n /\ ~(v[k] <= f[k])
      BY <1>1, <2>1
    <2>3. k # 0
      BY <2>2 DEF SumStep
    <2>4. k \in 1..n /\ k - 1 \in 0..n /\ k - 1 \notin B
      <3>1. k \in 0..n
        OBVIOUS
      <3> HIDE DEF B, n
      <3> QED BY <3>1, <1>1, <2>1, <2>3
    <2>5. v[k - 1] <= f[k - 1]
      BY <2>4
    <2>6. v[k - 1] \in Nat /\ f[k - 1] \in Nat /\ q[k] \in Nat
      <3>1. f[k - 1] \in Nat
        BY <2>4, <1>1
      <3>2. q[k] \in Nat
        BY <2>4
      <3>3. v[k - 1] \in Nat
        <4>1. \A i \in 0..n : v[i] \in Nat
          OBVIOUS
        <4> HIDE DEF B, n
        <4> QED BY <4>1, <2>4
      <3> QED BY <3>1, <3>2, <3>3
    <2>7. v[k] <= v[k - 1] + q[k] /\ f[k] = f[k - 1] + q[k]
      BY <2>2, <2>3, <2>4 DEF SumStep
    <2>8. v[k] <= f[k - 1] + q[k]
      <3> HIDE DEF B, n
      <3> QED BY <2>2, <2>5, <2>6, <2>7
    <2> QED
      BY <2>2, <2>7, <2>8
  <1>3. n \in 0..n /\ n \notin B
    BY <1>1, <1>2
  <1>4. v[n] <= f[n] /\ v[n] \in Nat /\ f[n] \in Nat
    BY <1>1, <1>3
  <1>5. Bits(q) = f[n] * 8
    <2>1. Bits(q) = Sums(q)[Len(q)] * 8
      BY BitsAreSums
    <2> QED
      BY <2>1 DEF f
  <1> QED
    BY <1>4, <1>5

-----------------------------------------------------------------------------
(* The samples of a window and the polls they come from *)

\* The place of the sample d ticks back.
Place(w, d) == IF d <= w.head THEN w.head - d ELSE (w.head + samples(w.window_secs)) - d

\* No sample is more than the poll that it was taken in.
Watched(w, q) ==
    /\ w.observed <= Len(q)
    /\ \A d \in 1..w.observed : w.ring[Place(w, d)] <= q[(Len(q) + 1) - d]

\* r is q with x at its end, and perhaps without its first.
KeepsPolls(q, x, r) ==
    /\ r \in Seq(Nat) /\ Len(r) <= MaxSamples
    /\ Len(r) = Len(q) + 1 \/ (Len(r) = Len(q) /\ Len(r) = MaxSamples)
    /\ Len(r) > 0 /\ r[Len(r)] = x
    /\ \A d \in 1..Len(r) - 1 : r[Len(r) - d] = q[(Len(q) + 1) - d]

\* The polls that `seen` keeps, counted from the last.
LEMMA KeptPolls ==
    ASSUME NEW q \in Seq(Nat), Len(q) <= MaxSamples, NEW x \in Nat, NEW r, r = LastFew(Append(q, x))
    PROVE  KeepsPolls(q, x, r)
  <1> DEFINE a == Append(q, x)
  <1>1. /\ a \in Seq(Nat) /\ Len(a) = Len(q) + 1 /\ a[Len(q) + 1] = x /\ Len(q) \in Nat
        /\ \A i \in 1..Len(q) : a[i] = q[i]
    OBVIOUS
  <1>2. MaxSamples \in Nat \ {0}
    BY WindowAssumption
  <1>3. r = IF Len(a) > MaxSamples THEN Tail(a) ELSE a
    BY DEF LastFew
  <1> HIDE DEF a
  <1>4. CASE Len(a) > MaxSamples
    <2>1. r = Tail(a) /\ a # <<>>
      BY <1>1, <1>3, <1>4
    <2>2. r \in Seq(Nat) /\ Len(r) = Len(q) /\ \A i \in 1..Len(r) : r[i] = a[i + 1]
      BY <1>1, <2>1
    <2>3. Len(r) = MaxSamples
      BY <1>1, <1>2, <1>4, <2>2
    <2>4. r[Len(r)] = x
      BY <1>1, <1>2, <2>2, <2>3
    <2>5. ASSUME NEW d \in 1..Len(r) - 1 PROVE r[Len(r) - d] = q[(Len(q) + 1) - d]
      <3>1. Len(r) - d \in 1..Len(r) /\ (Len(r) - d) + 1 \in 1..Len(q) /\ (Len(r) - d) + 1 = (Len(q) + 1) - d
        BY <1>1, <2>2, SMTT(30)
      <3>2. r[Len(r) - d] = a[(Len(r) - d) + 1]
        BY <3>1, <2>2
      <3>3. a[(Len(r) - d) + 1] = q[(Len(r) - d) + 1]
        BY <3>1, <1>1
      <3> QED BY <3>1, <3>2, <3>3, Zenon
    <2> QED BY <1>2, <2>2, <2>3, <2>4, <2>5 DEF KeepsPolls
  <1>5. CASE ~(Len(a) > MaxSamples)
    <2>1. r = a
      BY <1>3, <1>5
    <2>2. Len(r) <= MaxSamples
      BY <1>1, <1>2, <1>5, <2>1
    <2>3. ASSUME NEW d \in 1..Len(r) - 1 PROVE r[Len(r) - d] = q[(Len(q) + 1) - d]
      <3>1. Len(r) - d \in 1..Len(q) /\ Len(r) - d = (Len(q) + 1) - d
        BY <1>1, <2>1
      <3> QED BY <3>1, <1>1, <2>1
    <2>4. r \in Seq(Nat) /\ Len(r) = Len(q) + 1 /\ r[Len(r)] = x
      BY <1>1, <2>1
    <2>5. Len(r) > 0
      BY <1>1, <2>4
    <2> QED BY <2>2, <2>3, <2>4, <2>5 DEF KeepsPolls
  <1> QED BY <1>4, <1>5

LEMMA NextPlace ==
    ASSUME NEW n \in Nat \ {0}, NEW h \in 0..n - 1
    PROVE  (h + 1) % n = IF h + 1 = n THEN 0 ELSE h + 1
  <1>1. ASSUME NEW a \in Nat, a < n PROVE a % n = a
    BY <1>1
  <1>2. n % n = 0
    OBVIOUS
  <1> QED BY <1>1, <1>2

\* A new sample keeps the window in step with the polls.
LEMMA AddWatched ==
    ASSUME NEW secs \in Nat, NEW w \in RollingWindows(secs), NEW q \in Seq(Nat), Watched(w, q),
           Len(q) <= MaxSamples, NEW delta \in Nat, NEW x \in Nat, delta <= x,
           NEW r, r = LastFew(Append(q, x)), NEW t, t = add(w, delta)
    PROVE  Watched(t, r)
  <1> DEFINE n == samples(secs)
             h == w.head
             g == t.head
             o == w.observed
  <1>1. n \in Nat \ {0} /\ n <= MaxSamples /\ MaxSamples \in Nat
    BY SamplesType, WindowAssumption, SMTT(30) DEF samples
  <1>2. /\ w.ring \in [0..n - 1 -> Nat] /\ h \in 0..n - 1 /\ o \in 0..n /\ w.window_secs = secs
    BY DEF RollingWindows
  <1>3. /\ t.ring = [w.ring EXCEPT ![h] = delta] /\ t.window_secs = secs
        /\ g = (h + 1) % n /\ t.observed = IF o < n THEN o + 1 ELSE o
    BY <1>2 DEF add, RollingWindows
  <1>4. o <= Len(q) /\ \A d \in 1..o : w.ring[Place(w, d)] <= q[(Len(q) + 1) - d]
    BY DEF Watched
  <1>5. /\ \A d \in Int : Place(w, d) = IF d <= h THEN h - d ELSE (h + n) - d
        /\ \A d \in Int : Place(t, d) = IF d <= g THEN g - d ELSE (g + n) - d
    BY <1>2, <1>3 DEF Place
  <1> HIDE DEF n, h, g, o
  <1>a. \A y \in 0..n - 1 : y # h => t.ring[y] = w.ring[y]
    BY <1>2, <1>3
  <1>6. g = IF h + 1 = n THEN 0 ELSE h + 1
    BY <1>1, <1>2, <1>3, NextPlace
  <1>7. /\ r \in Seq(Nat) /\ Len(r) <= MaxSamples
        /\ Len(r) = Len(q) + 1 \/ (Len(r) = Len(q) /\ Len(r) = MaxSamples)
        /\ Len(r) > 0 /\ r[Len(r)] = x
        /\ \A d \in 1..Len(r) - 1 : r[Len(r) - d] = q[(Len(q) + 1) - d]
    <2>1. KeepsPolls(q, x, r)
      BY KeptPolls
    <2> QED  BY <2>1 DEF KeepsPolls
  <1>8. Len(q) \in Nat /\ Len(r) \in Nat
    BY <1>7
  <1>9. t.observed <= Len(r) /\ t.observed \in 0..n /\ t.observed <= o + 1
    <2>1. t.observed = IF o < n THEN o + 1 ELSE o
      BY <1>3
    <2>2. o \in 0..n /\ o <= Len(q)
      BY <1>2, <1>4
    <2>3. t.observed \in 0..n /\ t.observed <= o + 1
      BY <1>1, <2>1, <2>2
    <2>4. CASE Len(r) = Len(q) + 1
      BY <1>8, <2>2, <2>3, <2>4
    <2>5. CASE Len(r) = MaxSamples
      BY <1>1, <1>8, <2>3, <2>5
    <2> QED BY <1>7, <2>3, <2>4, <2>5
  <1>10. ASSUME NEW d \in 1..t.observed PROVE t.ring[Place(t, d)] <= r[(Len(r) + 1) - d]
    <2>1. d \in Nat /\ 1 <= d /\ d <= n /\ d <= Len(r) /\ d - 1 <= o
      BY <1>1, <1>2, <1>8, <1>9
    <2>2. CASE d = 1
      <3>1. Place(t, d) = h
        BY <1>1, <1>2, <1>5, <1>6, <2>2
      <3>2. t.ring[h] = delta
        BY <1>2, <1>3
      <3>3. (Len(r) + 1) - d = Len(r)
        BY <1>8, <2>2
      <3> QED BY <3>1, <3>2, <3>3, <1>7
    <2>3. CASE d # 1
      <3> DEFINE c == d - 1
      <3>1. c \in 1..o /\ c < n /\ c \in Int /\ c >= 1 /\ d = c + 1
        BY <1>1, <1>2, <2>1, <2>3
      <3>2. c \in 1..Len(r) - 1 /\ (Len(r) + 1) - d = Len(r) - c
        BY <1>8, <2>1, <2>3
      <3>a. Place(w, c) = IF c <= h THEN h - c ELSE (h + n) - c
        BY <1>5, <3>1
      <3>b. Place(t, d) = IF d <= g THEN g - d ELSE (g + n) - d
        BY <1>5, <2>1
      <3>c. Place(t, d) = Place(w, c) /\ Place(w, c) # h /\ Place(w, c) \in 0..n - 1
        <4> HIDE DEF c
        <4>1. h \in Nat /\ n \in Nat /\ h < n /\ c \in Nat /\ 1 <= c /\ c < n /\ d = c + 1
          BY <1>1, <1>2, <3>1
        <4>2. CASE h + 1 = n
          <5>1. g = 0 /\ c <= h
            BY <1>6, <4>1, <4>2
          <5>2. Place(w, c) = h - c
            BY <3>a, <5>1
          <5>3. Place(t, d) = n - d
            BY <3>b, <4>1, <5>1
          <5> QED BY <4>1, <4>2, <5>2, <5>3
        <4>3. CASE h + 1 # n /\ c <= h
          <5>1. g = h + 1 /\ d <= g
            BY <1>6, <4>1, <4>3
          <5>2. Place(w, c) = h - c /\ Place(t, d) = g - d
            BY <3>a, <3>b, <4>3, <5>1
          <5> QED BY <4>1, <5>1, <5>2
        <4>4. CASE h + 1 # n /\ ~(c <= h)
          <5>1. g = h + 1 /\ ~(d <= g)
            BY <1>6, <4>1, <4>4
          <5>2. Place(w, c) = (h + n) - c /\ Place(t, d) = (g + n) - d
            BY <3>a, <3>b, <4>4, <5>1
          <5> QED BY <4>1, <4>4, <5>1, <5>2
        <4> QED BY <4>2, <4>3, <4>4
      <3> HIDE DEF c
      <3>3. t.ring[Place(w, c)] = w.ring[Place(w, c)]
        BY <1>a, <3>c
      <3>4. w.ring[Place(w, c)] <= q[(Len(q) + 1) - c] /\ r[Len(r) - c] = q[(Len(q) + 1) - c]
        <4>1. w.ring[Place(w, c)] <= q[(Len(q) + 1) - c]
          BY <1>4, <3>1
        <4>2. r[Len(r) - c] = q[(Len(q) + 1) - c]
          BY <1>7, <3>2
        <4> QED BY <4>1, <4>2
      <3>5. t.ring[Place(t, d)] = w.ring[Place(w, c)]
        BY <3>3, <3>c, Zenon
      <3>6. r[(Len(r) + 1) - d] = r[Len(r) - c]
        BY <3>2, Zenon
      <3> QED BY <3>4, <3>5, <3>6, Zenon
    <2> QED BY <2>2, <2>3
  <1> QED BY <1>9, <1>10 DEF Watched

\* The bytes of the polls behind a full ring are no less than the ring's total.  From the
\* head on, its samples have the sums v.
LEMMA FullRing ==
    ASSUME NEW secs \in Nat, NEW w \in RollingWindows(secs), IsSummed(w), NEW q \in Seq(Nat),
           Watched(w, q), is_full(w)
    PROVE  LET n == samples(secs)
               last == Bits(SubSeq(q, Len(q) - n + 1, Len(q)))
           IN  Len(q) >= n /\ last \in Nat /\ w.total * 8 <= last /\ w.observed = n
  <1> DEFINE n == samples(secs)
             h == w.head
             o == w.observed
             t == SubSeq(q, Len(q) - n + 1, Len(q))
  <1>1. n \in Nat \ {0} /\ Len(q) \in Nat
    BY SamplesType
  <1>2. /\ w.ring \in [0..n - 1 -> Nat] /\ h \in 0..n - 1 /\ o \in 0..n /\ w.window_secs = secs
        /\ w.total \in Nat
    BY DEF RollingWindows
  <1>3. o >= n
    BY <1>2 DEF is_full
  <1>4. o = n /\ n <= Len(q) /\ \A d \in 1..n : w.ring[Place(w, d)] <= q[(Len(q) + 1) - d]
    BY <1>1, <1>2, <1>3 DEF Watched
  <1>5. \A d \in Int : Place(w, d) = IF d <= h THEN h - d ELSE (h + n) - d
    BY <1>2 DEF Place
  <1>6. PICK s : ArePrefixSums(s, w.ring, n) /\ w.total = s[n]
    BY <1>2 DEF IsSummed
  <1>7. /\ s \in [0..n -> Nat] /\ s[0] = 0
        /\ \A i \in 0..n - 1 : s[i + 1] = s[i] + w.ring[i]
        /\ \A i, j \in 0..n : i <= j => s[i] <= s[j]
    BY <1>6 DEF ArePrefixSums
  <1>8. t \in Seq(Nat) /\ Len(t) = n /\ \A i \in 1..n : t[i] = q[(Len(q) - n) + i]
    <2> HIDE DEF n
    <2>1. Len(q) - n + 1 \in 1..Len(q) + 1
      BY <1>1, <1>4
    <2>2. Len(t) = n
      BY <1>1, <1>4
    <2>3. \A i \in 1..n : t[i] = q[(Len(q) - n) + i]
      BY <1>1, <1>4
    <2>4. t \in Seq(Nat)
      BY <1>1, <1>4, <2>1
    <2> QED BY <2>2, <2>3, <2>4
  <1> DEFINE v == [i \in 0..n |-> IF h + i <= n THEN s[h + i] - s[h]
                                  ELSE (s[n] - s[h]) + s[(h + i) - n]]
  <1> HIDE DEF n, h, o, t
  <1>9. ASSUME NEW i \in 0..n
        PROVE  v[i] \in Nat /\ v[i] = IF h + i <= n THEN s[h + i] - s[h] ELSE (s[n] - s[h]) + s[(h + i) - n]
    <2>1. v[i] = IF h + i <= n THEN s[h + i] - s[h] ELSE (s[n] - s[h]) + s[(h + i) - n]
      OBVIOUS
    <2> HIDE DEF v
    <2>2. h \in 0..n /\ n \in 0..n /\ s[h] \in Nat /\ s[n] \in Nat /\ s[h] <= s[n]
      BY <1>1, <1>2, <1>7
    <2>3. CASE h + i <= n
      <3>1. h + i \in 0..n /\ h <= h + i
        BY <1>1, <1>2, <2>3
      <3>2. s[h + i] \in Nat /\ s[h] <= s[h + i]
        BY <1>7, <2>2, <3>1
      <3> QED BY <2>1, <2>2, <2>3, <3>2
    <2>4. CASE ~(h + i <= n)
      <3>1. (h + i) - n \in 0..n
        BY <1>1, <1>2, <2>4
      <3>2. s[(h + i) - n] \in Nat
        BY <1>7, <3>1
      <3> QED BY <2>1, <2>2, <2>4, <3>2
    <2> QED BY <2>1, <2>3, <2>4
  <1>10. v \in [0..n -> Nat]
    <2>1. v = [i \in 0..n |-> v[i]]
      OBVIOUS
    <2> HIDE DEF v
    <2> QED BY <1>9, <2>1
  <1> HIDE DEF v
  <1>11. v[0] = 0 /\ v[n] = s[n]
    <2>1. 0 \in 0..n /\ n \in 0..n /\ h \in 0..n /\ h + 0 = h /\ (h + n) - n = h
      BY <1>1, <1>2
    <2>2. s[h] \in Nat /\ s[n] \in Nat
      BY <1>7, <2>1
    <2>3. v[0] = 0
      <3>1. v[0] = s[h] - s[h]
        BY <1>1, <1>2, <1>9, <2>1
      <3> QED BY <3>1, <2>2
    <2>4. CASE h = 0
      <3>1. v[n] = s[n] - s[0]
        BY <1>1, <1>9, <2>1, <2>4
      <3> QED BY <3>1, <1>7, <2>2, <2>3
    <2>5. CASE h # 0
      <3>1. ~(h + n <= n)
        BY <1>1, <1>2, <2>5
      <3>2. v[n] = (s[n] - s[h]) + s[h]
        BY <1>9, <2>1, <3>1
      <3> QED BY <3>2, <2>2, <2>3
    <2> QED BY <2>4, <2>5
  <1>12. ASSUME NEW i \in 1..n PROVE v[i] <= v[i - 1] + t[i]
    <2> DEFINE j == IF h + i <= n THEN (h + i) - 1 ELSE ((h + i) - 1) - n
               d == (n + 1) - i
    <2>1. d \in 1..n /\ d \in Int /\ (Len(q) + 1) - d = (Len(q) - n) + i
      BY <1>1
    <2>2. Place(w, d) = j /\ j \in 0..n - 1
      BY <1>1, <1>2, <1>5
    <2> HIDE DEF d
    <2>3. w.ring[j] <= t[i]
      BY <1>4, <1>8, <2>1, <2>2
    <2> HIDE DEF j
    <2>4. w.ring[j] \in Nat /\ t[i] \in Nat /\ s[j] \in Nat /\ s[j + 1] = s[j] + w.ring[j]
      <3>1. j \in 0..n
        BY <1>1, <2>2
      <3>2. t[i] \in Nat
        BY <1>8
      <3>3. w.ring[j] \in Nat /\ s[j] \in Nat
        BY <1>2, <1>7, <2>2, <3>1
      <3> QED BY <1>7, <2>2, <3>2, <3>3
    <2>5. i \in 0..n /\ i - 1 \in 0..n /\ v[i - 1] \in Nat /\ v[i] \in Nat
      <3>1. i \in 0..n /\ i - 1 \in 0..n
        BY <1>1
      <3> QED BY <3>1, <1>9
    <2>6. s[h] \in Nat /\ s[n] \in Nat
      BY <1>1, <1>2, <1>7
    <2>7. CASE h + i <= n
      <3>1. j = h + (i - 1) /\ j + 1 = h + i /\ h + (i - 1) <= n
        BY <1>1, <1>2, <2>7 DEF j
      <3>2. v[i] = s[j + 1] - s[h] /\ v[i - 1] = s[j] - s[h]
        BY <1>9, <2>5, <2>7, <3>1
      <3> QED BY <2>3, <2>4, <2>5, <2>6, <3>2
    <2>8. CASE h + i = n + 1
      <3>1. j = 0 /\ h + (i - 1) = n /\ (h + i) - n = j + 1 /\ ~(h + i <= n)
        BY <1>1, <1>2, <2>8 DEF j
      <3>2. v[i] = (s[n] - s[h]) + s[j + 1]
        BY <1>9, <2>5, <3>1
      <3>3. v[i - 1] = s[n] - s[h]
        BY <1>1, <1>9, <2>5, <3>1
      <3> QED BY <1>7, <2>3, <2>4, <2>5, <2>6, <3>1, <3>2, <3>3, SMTT(30)
    <2>9. CASE h + i > n + 1
      <3>1. /\ (h + i) - n = j + 1 /\ (h + (i - 1)) - n = j
            /\ ~(h + i <= n) /\ ~(h + (i - 1) <= n)
        BY <1>1, <1>2, <2>9 DEF j
      <3>2. v[i] = (s[n] - s[h]) + s[j + 1] /\ v[i - 1] = (s[n] - s[h]) + s[j]
        BY <1>9, <2>5, <3>1
      <3>3. v[i] = v[i - 1] + w.ring[j]
        BY <2>4, <2>6, <3>2
      <3> QED BY <2>3, <2>4, <2>5, <3>3
    <2> QED BY <1>1, <1>2, <2>7, <2>8, <2>9
  <1>13. Bits(t) \in Nat /\ v[n] * 8 <= Bits(t)
    BY <1>8, <1>10, <1>11, <1>12, SumsAtLeast
  <1> QED
    BY <1>4, <1>6, <1>11, <1>13 DEF t, n, o

-----------------------------------------------------------------------------
(* No false trigger *)

HistoryOK(cfg, win, hist) ==
    /\ hist \in [Flows -> Seq(Nat)]
    /\ \A f \in Flows :
         /\ Len(hist[f]) <= MaxSamples
         /\ win[f] # None => /\ DirPolicy(cfg, f) # None
                             /\ win[f].window_secs = DirPolicy(cfg, f).window_secs
                             /\ Watched(win[f], hist[f])

\* A baseline is that of an address with a policy, and no total has passed it.
BaselineOK(cfg, tot, prev) ==
    \A ip \in Ips :
      /\ build_index[cfg][ip] = None => prev[ip] = None
      /\ tot[ip] # None /\ prev[ip] # None => \A d \in Dirs : tot[ip][d] <= prev[ip][d]

SeenInv == HistoryOK(config, windows, seen) /\ BaselineOK(config, totals, prev_totals)

\* A poll adds to a window no more than it read.
LEMMA DeltaAtMost ==
    ASSUME NEW L, L.prev_totals \in Totals, NEW tot \in Totals, BaselineOK(L.config, tot, L.prev_totals),
           NEW gone \in SUBSET Ips, NEW inc \in Inc,
           \A ip \in Ips, d \in Dirs : Cur(tot, ip)[d] + inc[ip][d] <= MaxBytes,
           NEW f \in Flows
    PROVE  LET delta == Delta(L, Polled(tot, gone, inc), f) IN delta \in Nat /\ delta <= inc[f[1]][f[2]]
  <1> DEFINE ip == f[1]
             d == f[2]
             now == Polled(tot, gone, inc)
             prev == L.prev_totals[ip]
             cur == Cur(now, ip)[d]
             x == inc[ip][d]
  <1>1. ip \in Ips /\ d \in Dirs
    BY DEF Flows
  <1>2. x \in Nat
    BY <1>1, IncType
  <1>3. prev # None => prev[d] \in Nat
    BY <1>1, LimiterAssumption DEF Totals
  <1>4. tot[ip] # None => tot[ip][d] \in Nat
    BY <1>1, LimiterAssumption DEF Totals
  <1>5. tot[ip] # None /\ prev # None => tot[ip][d] <= prev[d]
    BY <1>1 DEF BaselineOK
  <1>6. \/ cur = 0
        \/ cur = (IF tot[ip] = None THEN 0 ELSE tot[ip][d]) + x
    <2>1. CASE now[ip] = None
      BY <1>1, <2>1 DEF Cur, Zero
    <2>2. CASE now[ip] # None
      <3>1. now[ip] = [e \in Dirs |-> (IF tot[ip] = None THEN 0 ELSE tot[ip][e]) + inc[ip][e]]
        BY <1>1, <2>2 DEF Polled
      <3>2. cur = now[ip][d]
        BY <2>2 DEF Cur
      <3> HIDE DEF cur, now
      <3> QED BY <1>1, <3>1, <3>2
    <2> QED BY <2>1, <2>2
  <1>7. Delta(L, now, f) = IF prev = None \/ cur < prev[d] THEN 0 ELSE cur - prev[d]
    BY DEF Delta
  <1> HIDE DEF ip, d, now, prev, cur, x
  <1>8. Delta(L, now, f) \in Nat /\ Delta(L, now, f) <= x
    <2>1. CASE prev = None
      BY <1>2, <1>7, <2>1
    <2>2. CASE prev # None /\ cur = 0
      BY <1>2, <1>3, <1>7, <2>2
    <2>3. CASE prev # None /\ tot[ip] = None /\ cur = 0 + x
      BY <1>2, <1>3, <1>7, <2>3
    <2>4. CASE prev # None /\ tot[ip] # None /\ cur = tot[ip][d] + x
      <3>1. prev[d] \in Nat /\ tot[ip][d] \in Nat /\ tot[ip][d] <= prev[d] /\ cur \in Nat
        BY <1>2, <1>3, <1>4, <1>5, <2>4
      <3>2. CASE cur < prev[d]
        BY <1>2, <1>7, <3>2
      <3>3. CASE ~(cur < prev[d])
        <4>1. Delta(L, now, f) = cur - prev[d]
          BY <1>7, <2>4, <3>3
        <4> QED BY <1>2, <2>4, <3>1, <3>3, <4>1
      <3> QED BY <3>2, <3>3
    <2> QED BY <1>6, <2>1, <2>2, <2>3, <2>4
  <1> QED BY <1>8 DEF now, x, ip, d

\* What a poll leaves as the baseline of an address is its total.
LEMMA TickBaseline ==
    ASSUME NEW L, NEW tot \in Totals, NEW arm, NEW restarted, NEW gap, NEW gone \in SUBSET Ips,
           NEW inc \in Inc,
           \A ip \in Ips, d \in Dirs : Cur(tot, ip)[d] + inc[ip][d] <= MaxBytes,
           L.prev_totals \in Totals, BaselineOK(L.config, tot, L.prev_totals),
           CollectTick(L, tot, arm, restarted, gap, gone, inc)
    PROVE  BaselineOK(config', totals', prev_totals')
  <1> DEFINE now == Polled(tot, gone, inc)
             evaluated == Evaluated(L, now)
  <1>1. /\ config' = L.config /\ totals' = now
        /\ prev_totals' = [ip \in Ips |-> IF ip \in evaluated THEN Cur(now, ip) ELSE L.prev_totals[ip]]
    BY DEF CollectTick
  <1>2. now \in Totals
    BY PolledType
  <1>3. \A ip \in Ips : /\ ip \in evaluated => build_index[L.config][ip] # None
                        /\ ip \notin evaluated => build_index[L.config][ip] = None \/ now[ip] = None
    BY DEF Evaluated
  <1> HIDE DEF now, evaluated
  <1>4. ASSUME NEW ip \in Ips, build_index[L.config][ip] = None PROVE prev_totals'[ip] = None
    BY <1>1, <1>3, <1>4 DEF BaselineOK
  <1>5. ASSUME NEW ip \in Ips, NEW d \in Dirs, now[ip] # None, prev_totals'[ip] # None
        PROVE  now[ip][d] <= prev_totals'[ip][d]
    <2>1. CASE ip \in evaluated
      <3>1. prev_totals'[ip] = now[ip]
        BY <1>1, <1>5, <2>1 DEF Cur
      <3>2. now[ip][d] \in Nat
        BY <1>2, <1>5, LimiterAssumption DEF Totals
      <3> QED BY <3>1, <3>2
    <2>2. CASE ip \notin evaluated
      BY <1>1, <1>3, <1>5, <2>2 DEF BaselineOK
    <2> QED BY <2>1, <2>2
  <1> QED BY <1>1, <1>4, <1>5 DEF BaselineOK

\* The flow turned LIMITED with a full ring of polls that reach its trigger line.
Justified(f) ==
    LET p == states'[f].applied  n == samples(p.window_secs) IN
    /\ Len(seen'[f]) >= n
    /\ Bits(SubSeq(seen'[f], Len(seen'[f]) - n + 1, Len(seen'[f]))) >= p.trigger_bps * n * TickSecs

LEMMA TriggerJustified ==
    ASSUME NEW np \in DirPolicies, NEW w \in RollingWindows(np.window_secs), IsSummed(w),
           NEW q \in Seq(Nat), Watched(w, q), Triggers(w, np)
    PROVE  LET n == samples(np.window_secs) IN
           /\ Len(q) >= n
           /\ Bits(SubSeq(q, Len(q) - n + 1, Len(q))) >= np.trigger_bps * n * TickSecs
  <1> DEFINE n == samples(np.window_secs)
             last == Bits(SubSeq(q, Len(q) - n + 1, Len(q)))
  <1>1. np.window_secs \in Nat /\ np.trigger_bps \in Nat /\ TickSecs \in Nat
    BY LimiterAssumption, WindowAssumption
  <1>2. is_full(w) /\ w.total * 8 >= np.trigger_bps * w.observed * TickSecs
    BY DEF Triggers, average_at_least
  <1>3. Len(q) >= n /\ last \in Nat /\ w.total * 8 <= last /\ w.observed = n
    BY <1>1, <1>2, FullRing
  <1>4. n \in Nat /\ w.total \in Nat
    BY <1>1, SamplesType DEF RollingWindows
  <1> DEFINE line == np.trigger_bps * n * TickSecs
  <1>5. line \in Nat
    <2> HIDE DEF n
    <2>1. np.trigger_bps * n \in Nat
      BY <1>1, <1>4
    <2> QED BY <1>1, <2>1
  <1>6. w.total * 8 >= line
    BY <1>2, <1>3
  <1> HIDE DEF line, last, n
  <1>7. last >= line
    BY <1>3, <1>4, <1>5, <1>6
  <1> QED BY <1>3, <1>7 DEF line, last, n

\* After a tick every window still shows no more than the polls did, and the flows that it
\* limited had a reason.
LEMMA TickSeen ==
    ASSUME NEW L, NEW tot \in Totals, NEW arm, NEW restarted, NEW gap, NEW gone \in SUBSET Ips,
           NEW inc \in Inc,
           \A ip \in Ips, d \in Dirs : Cur(tot, ip)[d] + inc[ip][d] <= MaxBytes,
           L.config \in Configs, WindowsOK(L.windows), L.prev_totals \in Totals,
           BaselineOK(L.config, tot, L.prev_totals),
           NEW hist, hist = [f \in Flows |-> IF restarted[f] THEN <<>> ELSE seen[f]],
           HistoryOK(L.config, L.windows, hist),
           CollectTick(L, tot, arm, restarted, gap, gone, inc)
    PROVE  /\ HistoryOK(config', windows', seen')
           /\ \A f \in Flows :
                L.states[f].phase = "Normal" /\ states'[f].phase = "Limited" => Justified(f)
  <1> DEFINE now == Polled(tot, gone, inc)
             evaluated == Evaluated(L, now)
             np == [f \in Flows |-> DirPolicy(L.config, f)]
             w == [f \in Active(L, evaluated) |-> Sampled(L, now, f)]
             entering == Entering(L, w)
             leaving == Leaving(L, w)
             Kept(f) == LastFew(Append(hist[f], inc[f[1]][f[2]]))
  <1>1. PICK failed \in SUBSET (entering \cup leaving) :
          /\ config' = L.config
          /\ windows' = [f \in Flows |-> IF f \in leaving THEN reset(w[f])
                                         ELSE IF f \in DOMAIN w THEN w[f] ELSE L.windows[f]]
          /\ states' = [f \in Flows |->
                          IF f \in failed THEN Reverted(L.states[f], f \in entering)
                          ELSE IF f \in entering THEN LimitedBy(np[f])
                          ELSE IF f \in leaving THEN Normal ELSE L.states[f]]
          /\ seen' = [f \in Flows |->
                        IF np[f] = None \/ f \in leaving THEN <<>>
                        ELSE LastFew(Append(IF restarted[f] THEN <<>> ELSE seen[f], inc[f[1]][f[2]]))]
    BY DEF CollectTick
  <1>2. now \in Totals
    BY PolledType
  <1>3. \A f \in Flows :
          /\ np[f] = DirPolicy(L.config, f) /\ np[f] \in DirPolicies \cup {None}
          /\ f \in entering => L.states[f].phase = "Normal" /\ f \in DOMAIN w /\ Triggers(w[f], np[f])
          /\ f \in leaving => L.states[f].phase = "Limited" /\ f \in DOMAIN w
    BY DirPolicyType DEF Entering, Leaving, Active
  <1>4. ASSUME NEW f \in DOMAIN w
        PROVE  /\ f \in Flows /\ np[f] # None
               /\ w[f] \in RollingWindows(np[f].window_secs) /\ IsSummed(w[f])
               /\ Watched(w[f], Kept(f))
    <2> DEFINE secs == np[f].window_secs
               old == IF L.windows[f] = None THEN new(secs) ELSE L.windows[f]
               delta == Delta(L, now, f)
               x == inc[f[1]][f[2]]
    <2>1. f \in Flows /\ np[f] # None /\ w[f] = Sampled(L, now, f) /\ np[f] = DirPolicy(L.config, f)
      BY <1>4 DEF Active
    <2>2. np[f] \in DirPolicies /\ secs \in Nat
      BY <1>3, <2>1, LimiterAssumption
    <2>3. w[f] = add(old, delta)
      BY <2>1 DEF Sampled
    <2>4. delta \in Nat /\ delta <= x /\ x \in Nat
      <3>1. f[1] \in Ips /\ f[2] \in Dirs
        BY <2>1 DEF Flows
      <3> QED BY <2>1, <3>1, DeltaAtMost, IncType
    <2>5. hist[f] \in Seq(Nat) /\ Len(hist[f]) <= MaxSamples
      BY <2>1 DEF HistoryOK
    <2>6. old \in RollingWindows(secs) /\ IsSummed(old) /\ Watched(old, hist[f])
      <3>1. CASE L.windows[f] = None
        <4>1. new(secs) \in RollingWindows(secs) /\ IsSummed(new(secs))
          BY <2>2, NewWindow
        <4>2. Watched(new(secs), hist[f])
          <5>1. new(secs).observed = 0 /\ Len(hist[f]) \in Nat
            BY <2>5 DEF new
          <5> QED BY <5>1 DEF Watched
        <4> QED BY <3>1, <4>1, <4>2
      <3>2. CASE L.windows[f] # None
        <4>1. L.windows[f] \in Windows /\ IsSummed(L.windows[f])
          BY <2>1, <3>2 DEF WindowsOK
        <4>2. L.windows[f].window_secs = secs /\ Watched(L.windows[f], hist[f])
          BY <2>1, <3>2 DEF HistoryOK
        <4>3. PICK p \in DirPolicies : L.windows[f] \in RollingWindows(p.window_secs)
          BY <4>1 DEF Windows
        <4>4. p.window_secs = secs
          BY <4>2, <4>3 DEF RollingWindows
        <4> QED BY <3>2, <4>1, <4>2, <4>3, <4>4
      <3> QED BY <3>1, <3>2
    <2> HIDE DEF old, delta, x, secs, w, np
    <2>7. add(old, delta) \in RollingWindows(secs) /\ IsSummed(add(old, delta))
      BY <2>2, <2>4, <2>6, AddSample
    <2>8. Watched(add(old, delta), LastFew(Append(hist[f], x)))
      BY <2>2, <2>4, <2>5, <2>6, AddWatched
    <2> QED BY <2>1, <2>3, <2>7, <2>8 DEF secs, x
  <1>5. \A f \in Flows : L.windows[f] # None => f \in DOMAIN w
    <2> SUFFICES ASSUME NEW f \in Flows, L.windows[f] # None PROVE f \in Active(L, evaluated)
      OBVIOUS
    <2>1. DirPolicy(L.config, f) # None
      BY DEF HistoryOK
    <2>2. f = <<f[1], f[2]>> /\ f[1] \in Ips /\ f[2] \in Dirs
      BY DEF Flows
    <2>3. build_index[L.config][f[1]] # None
      BY <2>1, DirPolicyType
    <2>4. f[1] \in evaluated
      BY <2>2, <2>3 DEF Evaluated
    <2> QED BY <2>1, <2>4 DEF Active
  <1> HIDE DEF w, np, entering, leaving, now, evaluated
  <1>6. ASSUME NEW f \in Flows
        PROVE  /\ Kept(f) \in Seq(Nat) /\ Len(Kept(f)) <= MaxSamples
               /\ seen'[f] = IF np[f] = None \/ f \in leaving THEN <<>> ELSE Kept(f)
    <2>1. f[1] \in Ips /\ f[2] \in Dirs
      BY DEF Flows
    <2>2. inc[f[1]][f[2]] \in Nat /\ hist[f] \in Seq(Nat) /\ Len(hist[f]) <= MaxSamples
      BY <2>1, IncType DEF HistoryOK
    <2>3. hist[f] = IF restarted[f] THEN <<>> ELSE seen[f]
      OBVIOUS
    <2> QED BY <1>1, <2>2, <2>3, KeptPolls DEF KeepsPolls
  <1> HIDE DEF Kept
  <1>7. HistoryOK(config', windows', seen')
    <2>1. ASSUME NEW f \in Flows
          PROVE  /\ seen'[f] \in Seq(Nat) /\ Len(seen'[f]) <= MaxSamples
                 /\ windows'[f] # None => /\ np[f] # None /\ windows'[f].window_secs = np[f].window_secs
                                          /\ Watched(windows'[f], seen'[f])
      <3>1. seen'[f] \in Seq(Nat) /\ Len(seen'[f]) <= MaxSamples
        <4>1. <<>> \in Seq(Nat) /\ Len(<<>>) <= MaxSamples
          BY WindowAssumption
        <4> QED BY <1>6, <4>1
      <3>2. CASE f \in leaving
        <4>1. windows'[f] = reset(w[f]) /\ np[f] # None /\ w[f].window_secs = np[f].window_secs
          BY <1>1, <1>3, <1>4, <3>2 DEF RollingWindows
        <4>2. windows'[f].window_secs = np[f].window_secs /\ windows'[f].observed = 0
          BY <4>1 DEF reset, new
        <4>3. Watched(windows'[f], seen'[f])
          <5>1. Len(seen'[f]) \in Nat
            BY <3>1
          <5> QED BY <4>2, <5>1 DEF Watched
        <4> QED BY <3>1, <4>1, <4>2, <4>3
      <3>3. CASE f \notin leaving /\ f \in DOMAIN w
        <4>1. windows'[f] = w[f] /\ np[f] # None /\ seen'[f] = Kept(f)
          BY <1>1, <1>4, <1>6, <3>3
        <4>2. w[f].window_secs = np[f].window_secs
          BY <1>4, <3>3 DEF RollingWindows
        <4> QED BY <1>4, <3>1, <3>3, <4>1, <4>2
      <3>4. CASE f \notin leaving /\ f \notin DOMAIN w
        <4>1. windows'[f] = None
          BY <1>1, <1>5, <3>4
        <4> QED BY <3>1, <4>1
      <3> QED BY <3>2, <3>3, <3>4
    <2>2. seen' \in [Flows -> Seq(Nat)]
      BY <1>1, <2>1
    <2> QED BY <1>1, <1>3, <2>1, <2>2 DEF HistoryOK
  <1>8. ASSUME NEW f \in Flows, L.states[f].phase = "Normal", states'[f].phase = "Limited"
        PROVE  Justified(f)
    <2>1. f \in entering /\ f \notin failed
      <3>1. f \notin leaving
        BY <1>3, <1>8
      <3>2. Normal.phase = "Normal"
        BY NormalType
      <3> QED BY <1>1, <1>8, <3>1, <3>2 DEF Reverted
    <2>2. states'[f] = LimitedBy(np[f])
      BY <1>1, <2>1
    <2>3. f \in DOMAIN w /\ Triggers(w[f], np[f]) /\ f \notin leaving
      BY <1>3, <1>8, <2>1
    <2>4. np[f] # None /\ np[f] \in DirPolicies
      BY <1>3, <1>4, <2>3
    <2>5. states'[f].applied = np[f]
      BY <2>2, <2>4, LimitedByType
    <2>6. seen'[f] = Kept(f) /\ Kept(f) \in Seq(Nat)
      BY <1>6, <2>3, <2>4
    <2>7. w[f] \in RollingWindows(np[f].window_secs) /\ IsSummed(w[f]) /\ Watched(w[f], Kept(f))
      BY <1>4, <2>3
    <2> HIDE DEF np, w, Kept
    <2> QED BY <2>3, <2>4, <2>5, <2>6, <2>7, TriggerJustified DEF Justified
  <1> QED BY <1>7, <1>8

\* The flows that a handler limits had a reason.
AllJustified ==
    \A f \in Flows : states[f].phase = "Normal" /\ states'[f].phase = "Limited" => Justified(f)

LEMMA SeenInit == Init => SeenInv
  <1> SUFFICES ASSUME Init PROVE SeenInv
    OBVIOUS
  <1>1. HistoryOK(config, windows, seen)
    <2>1. <<>> \in Seq(Nat) /\ Len(<<>>) <= MaxSamples
      BY WindowAssumption
    <2> QED BY <2>1 DEF Init, HistoryOK
  <1>2. BaselineOK(config, totals, prev_totals)
    BY DEF Init, BaselineOK
  <1> QED BY <1>1, <1>2 DEF SeenInv

LEMMA TickKeepsSeen ==
    ASSUME IInv, SeenInv, NEW inc \in Inc, Bounded(inc), NEW gap \in TickGaps,
           NEW gone \in SUBSET Ips, Tick(gap, gone, inc)
    PROVE  SeenInv' /\ AllJustified
  <1> DEFINE L == [config |-> config, windows |-> windows, states |-> Clock(states, gap),
                   prev_totals |-> prev_totals]
             never == [f \in Flows |-> FALSE]
             hist == [f \in Flows |-> IF never[f] THEN <<>> ELSE seen[f]]
  <1>1. /\ L.config = config /\ L.windows = windows /\ L.states = Clock(states, gap)
        /\ L.prev_totals = prev_totals
    OBVIOUS
  <1>2. CollectTick(L, totals, armed, never, gap, gone, inc)
    BY DEF Tick
  <1>3. hist = seen
    BY DEF SeenInv, HistoryOK
  <1> HIDE DEF L, never
  <1>4. /\ WindowsOK(L.windows) /\ L.prev_totals \in Totals /\ totals \in Totals
        /\ L.config \in Configs /\ states \in [Flows -> DirStates]
    BY <1>1 DEF IInv, StatesOK
  <1>5. HistoryOK(L.config, L.windows, hist) /\ BaselineOK(L.config, totals, L.prev_totals)
    BY <1>1, <1>3 DEF SeenInv
  <1>6. \A ip \in Ips, d \in Dirs : Cur(totals, ip)[d] + inc[ip][d] <= MaxBytes
    BY DEF Bounded
  <1>7. ASSUME NEW f \in Flows, states[f].phase = "Normal" PROVE L.states[f].phase = "Normal"
    BY <1>1, <1>7 DEF Clock, Aged
  <1>8. BaselineOK(config', totals', prev_totals')
    BY <1>2, <1>4, <1>5, <1>6, TickBaseline
  <1>9. /\ HistoryOK(config', windows', seen')
        /\ \A f \in Flows :
             L.states[f].phase = "Normal" /\ states'[f].phase = "Limited" => Justified(f)
    BY <1>2, <1>4, <1>5, <1>6, TickSeen
  <1> QED BY <1>7, <1>8, <1>9 DEF SeenInv, AllJustified

\* A reload keeps the samples of a window only if it keeps the history.
LEMMA CommitSeen ==
    ASSUME IInv, SeenInv, NEW cfg \in Configs, NEW f \in Flows, NEW released \in BOOLEAN,
           NEW w, w = CommittedWindow(windows[f], DirPolicy(cfg, f), released), w # None,
           NEW q, q = (LET np == DirPolicy(cfg, f)  old == DirPolicy(config, f) IN
                       IF released \/ old = None \/ np = None \/ old.window_secs # np.window_secs
                       THEN <<>> ELSE seen[f])
    PROVE  /\ DirPolicy(cfg, f) # None /\ w.window_secs = DirPolicy(cfg, f).window_secs
           /\ Watched(w, q)
  <1> DEFINE np == DirPolicy(cfg, f)
             old == DirPolicy(config, f)
  <1>1. np # None /\ windows[f] # None
    BY DEF CommittedWindow
  <1>2. old # None /\ windows[f].window_secs = old.window_secs /\ Watched(windows[f], seen[f])
    BY <1>1 DEF SeenInv, HistoryOK
  <1>3. Len(q) \in Nat
    <2>1. seen[f] \in Seq(Nat) /\ <<>> \in Seq(Nat)
      BY DEF SeenInv, HistoryOK
    <2> QED BY <2>1
  <1>4. CASE np.window_secs # old.window_secs \/ released
    <2>1. w = new(np.window_secs)
      BY <1>1, <1>2, <1>4 DEF CommittedWindow, reset
    <2>2. w.window_secs = np.window_secs /\ w.observed = 0
      BY <2>1 DEF new
    <2> QED BY <1>1, <1>3, <2>2 DEF Watched
  <1>5. CASE ~(np.window_secs # old.window_secs \/ released)
    <2>1. w = windows[f]
      BY <1>1, <1>2, <1>5 DEF CommittedWindow
    <2>2. q = seen[f]
      BY <1>1, <1>2, <1>5
    <2> QED BY <1>1, <1>2, <1>5, <2>1, <2>2
  <1> QED BY <1>4, <1>5

LEMMA ReloadKeepsSeen ==
    ASSUME IInv, SeenInv, NEW inc \in Inc, Bounded(inc), NEW cfg \in Configs, NEW gap \in ReloadGaps,
           NEW gone \in SUBSET Ips, Reload(cfg, gap, gone, inc)
    PROVE  SeenInv' /\ AllJustified
  <1> DEFINE st == Clock(states, gap)
             np == [f \in Flows |-> DirPolicy(cfg, f)]
             released == {f \in Flows : Released(st[f], np[f])}
             win == [f \in Flows |-> CommittedWindow(windows[f], np[f], f \in released)]
             com == [f \in Flows |-> CommittedState(st[f], np[f], f \in released)]
             base == [ip \in Ips |-> CommittedBaseline(cfg, ip)]
             L == [config |-> cfg, windows |-> win, states |-> com, prev_totals |-> base]
             arm == [f \in Flows |-> IF f \in released THEN None
                                     ELSE IF Reinstalled(st[f], np[f]) THEN np[f].limit ELSE armed[f]]
             restarted == [f \in Flows |->
                             LET old == DirPolicy(config, f) IN
                             f \in released \/ old = None \/ np[f] = None
                               \/ old.window_secs # np[f].window_secs]
             hist == [f \in Flows |-> IF restarted[f] THEN <<>> ELSE seen[f]]
             tot == prune_ips(totals, cfg)
  <1>1. CollectTick(L, tot, arm, restarted, gap, gone, inc)
    BY DEF Reload
  <1>2. L.config = cfg /\ L.windows = win /\ L.states = com /\ L.prev_totals = base
    OBVIOUS
  <1>3. ASSUME NEW f \in Flows, states[f].phase = "Normal" PROVE com[f].phase = "Normal"
    <2>1. st[f].phase = "Normal"
      BY <1>3 DEF Clock, Aged
    <2>2. com[f] = Normal \/ com[f] = st[f]
      <3>1. com[f] = CommittedState(st[f], np[f], f \in released)
        OBVIOUS
      <3> HIDE DEF com, st, np, released
      <3> QED BY <2>1, <3>1 DEF CommittedState
    <2>3. Normal.phase = "Normal"
      BY NormalType
    <2> HIDE DEF com, st
    <2> QED BY <2>1, <2>2, <2>3
  <1>4. WindowsOK(win)
    <2>1. ASSUME NEW f \in Flows
          PROVE  win[f] \in Windows \cup {None} /\ (win[f] # None => IsSummed(win[f]))
      <3>1. windows[f] \in Windows \cup {None} /\ (windows[f] # None => IsSummed(windows[f]))
        BY DEF IInv, WindowsOK
      <3>2. np[f] \in DirPolicies \cup {None}
        BY DirPolicyType
      <3>3. win[f] = CommittedWindow(windows[f], np[f], f \in released)
        OBVIOUS
      <3> HIDE DEF win, np, released
      <3>4. CASE f \in released
        <4>1. win[f] = CommittedWindow(windows[f], np[f], TRUE)
          BY <3>3, <3>4 DEF CommittedWindow
        <4> QED  BY <3>1, <3>2, <4>1, CommitWindow
      <3>5. CASE f \notin released
        <4>1. win[f] = CommittedWindow(windows[f], np[f], FALSE)
          BY <3>3, <3>5 DEF CommittedWindow
        <4> QED  BY <3>1, <3>2, <4>1, CommitWindow
      <3> QED  BY <3>4, <3>5
    <2> QED  BY <2>1 DEF WindowsOK
  <1>5. HistoryOK(cfg, win, hist)
    <2>1. ASSUME NEW f \in Flows
          PROVE  /\ hist[f] \in Seq(Nat) /\ Len(hist[f]) <= MaxSamples
                 /\ win[f] # None => /\ DirPolicy(cfg, f) # None
                                     /\ win[f].window_secs = DirPolicy(cfg, f).window_secs
                                     /\ Watched(win[f], hist[f])
      <3>1. seen[f] \in Seq(Nat) /\ Len(seen[f]) <= MaxSamples
        BY DEF SeenInv, HistoryOK
      <3>2. <<>> \in Seq(Nat) /\ Len(<<>>) <= MaxSamples
        BY WindowAssumption
      <3>3. /\ win[f] = CommittedWindow(windows[f], DirPolicy(cfg, f), f \in released)
            /\ (f \in released) \in BOOLEAN
        OBVIOUS
      <3>4. hist[f] = LET p == DirPolicy(cfg, f)  old == DirPolicy(config, f) IN
                      IF f \in released \/ old = None \/ p = None \/ old.window_secs # p.window_secs
                      THEN <<>> ELSE seen[f]
        OBVIOUS
      <3> HIDE DEF win, hist, released
      <3> QED BY <3>1, <3>2, <3>3, <3>4, CommitSeen
    <2>2. hist \in [Flows -> Seq(Nat)]
      <3>1. hist = [f \in Flows |-> hist[f]]
        OBVIOUS
      <3> HIDE DEF hist
      <3> QED BY <2>1, <3>1
    <2> QED BY <2>1, <2>2 DEF HistoryOK
  <1>6. base \in Totals /\ tot \in Totals
    <2>1. base \in Totals
      BY DEF IInv, CommittedBaseline, Totals
    <2>2. tot \in Totals
      BY PrunedTotals
    <2> QED BY <2>1, <2>2
  <1>7. BaselineOK(cfg, tot, base)
    BY DEF SeenInv, BaselineOK, CommittedBaseline, prune_ips
  <1>8. \A ip \in Ips, d \in Dirs : Cur(tot, ip)[d] + inc[ip][d] <= MaxBytes
    BY PrunedTotals
  <1> HIDE DEF L, win, com, base, arm, restarted, tot, st, np, released
  <1>9. BaselineOK(config', totals', prev_totals')
    BY <1>1, <1>2, <1>6, <1>7, <1>8, TickBaseline
  <1>10. /\ HistoryOK(config', windows', seen')
         /\ \A f \in Flows :
              L.states[f].phase = "Normal" /\ states'[f].phase = "Limited" => Justified(f)
    BY <1>1, <1>2, <1>4, <1>5, <1>6, <1>7, <1>8, TickSeen
  <1> QED BY <1>2, <1>3, <1>9, <1>10 DEF SeenInv, AllJustified

LEMMA NextKeepsSeen ==
    ASSUME IInv, SeenInv, Next
    PROVE  SeenInv' /\ AllJustified
  <1>1. CASE Ticking
    BY <1>1, TickKeepsSeen DEF Ticking
  <1>2. CASE Reloading
    BY <1>2, ReloadKeepsSeen DEF Reloading
  <1> QED  BY <1>1, <1>2 DEF Next

LEMMA SeenInvariance == Spec => [](IInv /\ SeenInv)
  <1>1. IInv /\ SeenInv /\ [Next]_vars => (IInv /\ SeenInv)'
    <2> SUFFICES ASSUME IInv, SeenInv, [Next]_vars PROVE (IInv /\ SeenInv)'
      OBVIOUS
    <2>1. CASE Next
      BY <2>1, Inductive, NextKeepsSeen
    <2>2. CASE UNCHANGED vars
      <3>1. SeenInv'
        BY <2>2 DEF vars, lim, SeenInv, HistoryOK, BaselineOK
      <3> QED BY <2>2, <3>1, Inductive
    <2> QED  BY <2>1, <2>2
  <1> QED BY <1>1, Initially, SeenInit, PTL DEF Spec

-----------------------------------------------------------------------------
(* Theorems *)

\* The limiter's tables keep their types, the rings their sizes, through every tick, release
\* and reload.
THEOREM TypeCorrect == Spec => []TypeOK
  <1>1. IInv => TypeOK
    <2> SUFFICES ASSUME IInv PROVE TypeOK
      OBVIOUS
    <2>1. ASSUME NEW f \in Flows
          PROVE  windows[f] = None \/ \E p \in DirPolicies : windows[f] \in RollingWindows(p.window_secs)
      BY DEF IInv, WindowsOK, Windows
    <2> QED  BY <2>1 DEF IInv, StatesOK, Totals, TypeOK
  <1> QED  BY <1>1, Invariance, PTL

\* The running total that the trigger decision averages is the sum of the ring, however often
\* the ring wrapped around, was reset or changed its size.
THEOREM TotalsAreSums == Spec => [](\A f \in Flows : windows[f] # None => IsSummed(windows[f]))
  <1>1. IInv => \A f \in Flows : windows[f] # None => IsSummed(windows[f])
    BY DEF IInv, WindowsOK
  <1> QED  BY <1>1, Invariance, PTL

\* plan_reload and commit_reload leave no LIMITED flow behind without a policy, under an old
\* policy or with an old duration.
THEOREM ReloadGovernsLimits == Spec => []LimitedIsGoverned
  <1>1. IInv => LimitedIsGoverned
    BY DEF IInv, StatesOK, LimitedIsGoverned
  <1> QED  BY <1>1, Invariance, PTL

\* The data path and the limiter agree on every flow after every handler, whichever actions
\* the maps refused: revert_failed_action undoes exactly the refused ones.
THEOREM MapsMatchPhases == Spec => []ArmedMatchesPhase
  <1>1. IInv => ArmedMatchesPhase
    BY DEF IInv, StatesOK, ArmedMatchesPhase
  <1> QED  BY <1>1, Invariance, PTL

\* No handler ends with an overdue limit unless a removal was refused in it: eval_dir and
\* plan_reload miss none, even of an address without traffic.
THEOREM NoLimitOverstays == Spec => OverdueOnlyIfRefused
  <1>1. IInv /\ [Next]_vars =>
          [\A f \in Flows :
             states'[f].phase = "Limited" /\ states'[f].age >= states'[f].limited_for
               => faults' > faults]_vars
    BY NextKeeps DEF Overdue
  <1> QED  BY <1>1, Invariance, PTL DEF Spec, OverdueOnlyIfRefused

\* Every handler that limits a flow has a full ring of its polls that reach the trigger line:
\* no baseline, no counter that restarted or reappeared, and no sample from before a release
\* or a change of the window counts towards it.
THEOREM LimitsHaveCause == Spec => NoFalseTrigger
  <1>1. IInv /\ SeenInv /\ [Next]_vars =>
          [\A f \in Flows :
             states[f].phase = "Normal" /\ states'[f].phase = "Limited" => Justified(f)]_vars
    BY NextKeepsSeen DEF AllJustified
  <1>2. IInv /\ SeenInv /\ [Next]_vars =>
          [\A f \in Flows :
             states[f].phase = "Normal" /\ states'[f].phase = "Limited" =>
               LET p == states'[f].applied  n == samples(p.window_secs) IN
               /\ Len(seen'[f]) >= n
               /\ Bits(SubSeq(seen'[f], Len(seen'[f]) - n + 1, Len(seen'[f])))
                    >= p.trigger_bps * n * TickSecs]_vars
    BY <1>1 DEF Justified
  <1> QED  BY <1>2, SeenInvariance, PTL DEF Spec, NoFalseTrigger

=============================================================================
