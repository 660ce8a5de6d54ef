------------------------------- MODULE Config -------------------------------
(***************************************************************************)
(* Loading config.toml (config.rs, with units.rs, ip_range.rs, policy.rs)  *)
(* and the policy index the limiter builds from it (Limiter::build_index). *)
(* The loader reads a file once and either accepts it, with the validated  *)
(* configuration everything downstream consumes, or refuses it at the      *)
(* first check that fails.                                                 *)
(*                                                                         *)
(* Abstractions.  The TOML document is a record; a document that is not    *)
(* TOML or has an unknown key is Bad.  A quantity is the record of its     *)
(* number and its unit.  Multipliers and bounds are constants, so that the *)
(* numbers stay small: only their order matters.  A URL is its scheme and  *)
(* the kind of its host.                                                   *)
(***************************************************************************)
EXTENDS IpRanges, Policy

CONSTANTS
    Files,              \* the documents to load
    Kilo, Kibi,         \* 1000 and 1024
    U64Max,             \* the largest product that does not overflow
    MinRate, MaxRate,   \* MIN_RATE_BPS, MAX_RATE_BPS
    MaxBurst,           \* MAX_BURST_BYTES
    MaxLimitWindow,     \* MAX_LIMIT_WINDOW_SECS
    MaxInterval,        \* MAX_COLLECTOR_INTERVAL_SECS
    MaxSwlEntries,      \* MAX_SWL_MAP_ENTRIES
    MaxPolicedLen,      \* MAX_POLICED_LEN
    Pending             \* no outcome yet

MinLimitWindow == 1

\* A rate of at least 100 bps keeps one percent of it above zero.
ASSUME ConfigAssumption ==
    /\ {Kilo, Kibi, U64Max, MinRate, MaxRate, MaxBurst, MaxLimitWindow, MaxInterval,
        MaxSwlEntries, MaxPolicedLen} \subseteq Nat \ {0}
    /\ MinRate >= 100
    /\ Bad # Absent
    /\ \A x \in {Bad, Absent} : x \notin Int /\ x \notin BucketAlgos \cup WindowAlgos
    /\ Absent \notin DirPolicies

\* A list, as TOML has them.
IsList(s) == s \in Seq({s[i] : i \in DOMAIN s})

\* A quantity is a natural number, if it is one, and a unit.
IsText(f, text) == text # Absent /\ f # "algorithm" => text.num \in Nat \cup {Bad}

IsEntry(entry) ==
    /\ entry = [f \in Fields |-> entry[f]]
    /\ \A f \in Fields : IsText(f, entry[f])

\* The shape that the TOML parser gives to a document.  The text of a range has at least
\* one part.
IsDocument(f) ==
    /\ IsList(f.ip_ranges) /\ f.enable_swl \in BOOLEAN
    /\ \A i \in DOMAIN f.ip_ranges :
         LET e == f.ip_ranges[i] IN
         /\ e.range # <<>> /\ e.range \in Seq(Addresses \cup {Bad})
         /\ e.policy = Absent \/ IsEntry(e.policy)
         /\ IsList(e.overrides)
         /\ \A k \in DOMAIN e.overrides :
              e.overrides[k].ip \in Addresses \cup {Bad} /\ IsEntry(e.overrides[k].policy)

ASSUME DocumentAssumption == \A f \in Files : f # Bad => IsDocument(f)

VARIABLES
    file,           \* the document on disk
    outcome         \* what load returned

vars == <<file, outcome>>

-----------------------------------------------------------------------------
(* Units *)

RateUnits == [bps |-> 1, Kbps |-> Kilo, Mbps |-> Kilo * Kilo, Gbps |-> Kilo * Kilo * Kilo]
DurationUnits == [s |-> 1, m |-> 60, h |-> 3600]
ByteUnits == [B |-> 1, KB |-> Kilo, MB |-> Kilo * Kilo, GB |-> Kilo * Kilo * Kilo,
              KiB |-> Kibi, MiB |-> Kibi * Kibi, GiB |-> Kibi * Kibi * Kibi]

\* A whole number with a known unit, whose product is neither zero nor too large.  A
\* rate with an upper-case B (MBps) has no unit here: it is refused.
Scaled(units, text) ==
    IF text.num = Bad \/ text.unit \notin DOMAIN units THEN Bad
    ELSE LET value == text.num * units[text.unit] IN
         IF value = 0 \/ value > U64Max THEN Bad ELSE value

parse_rate_bps(text) == Scaled(RateUnits, text)
parse_duration_secs(text) == Scaled(DurationUnits, text)
parse_bytes(text) == Scaled(ByteUnits, text)

parse_percent(text) ==
    IF text.unit = "%" /\ text.num \in 1..100 THEN text.num ELSE Bad

parse_algorithm(text) == IF text \in BucketAlgos \cup WindowAlgos THEN text ELSE Bad

-----------------------------------------------------------------------------
(* Policy entries: a function from Fields to text or Absent *)

is_empty(entry) == \A f \in Fields : entry[f] = Absent

ParsedField(f, text) ==
    IF text = Absent THEN Absent
    ELSE IF f \in RateFields THEN parse_rate_bps(text)
    ELSE IF f \in DurationFields THEN parse_duration_secs(text)
    ELSE IF f = "trigger_ratio" THEN parse_percent(text)
    ELSE IF f = "burst" THEN parse_bytes(text)
    ELSE parse_algorithm(text)

into_fields(entry) ==
    LET fields == [f \in Fields |-> ParsedField(f, entry[f])] IN
    IF \E f \in Fields : fields[f] = Bad THEN Error("units") ELSE Ok(fields)

check_policy_bounds(fields) ==
    FirstError(
      <<Require(\A f \in RateFields : fields[f] # Absent => fields[f] \in MinRate..MaxRate, "rate"),
        Require(fields["burst"] # Absent => fields["burst"] <= MaxBurst, "burst"),
        Require(fields["limit_window"] # Absent =>
                  fields["limit_window"] \in MinLimitWindow..MaxLimitWindow, "limit_window")>>)

check_swl_enabled(eff, enabled) ==
    Require(enabled \/ \A d \in Dirs :
              eff[d] # Absent => eff[d].algorithm # "sliding_window_log", "swl")

\* Resolved against the range, complete, and allowed.
CheckResolved(policy, fields, enabled) ==
    LET eff == resolve(policy, fields) IN
    IF IsErr(eff) THEN eff ELSE check_swl_enabled(eff.ok, enabled)

\* The fields of an entry once they parse and are in bounds.
CheckedFields(entry) ==
    LET fields == into_fields(entry) IN
    IF IsErr(fields) THEN fields
    ELSE LET bounds == check_policy_bounds(fields.ok) IN
         IF IsErr(bounds) THEN bounds ELSE fields

-----------------------------------------------------------------------------
(* Ranges and overrides *)

RangePolicy(entry) ==
    IF entry.policy = Absent THEN Ok(NoFields)
    ELSE IF is_empty(entry.policy) THEN Ok(NoFields)
    ELSE CheckedFields(entry.policy)

\* One iteration of the loop over a range's overrides.
CheckOverride(entry, range, policy, enabled, i) ==
    LET ov == entry.overrides[i]
        placed == FirstError(
          <<Require(ov.ip # Bad, "override ip"),
            Require(ov.ip # Bad => contains(range, ov.ip), "override outside"),
            Require(~is_empty(ov.policy), "override empty")>>)
    IN  IF IsErr(placed) THEN placed
        ELSE LET fields == CheckedFields(ov.policy) IN
             IF IsErr(fields) THEN fields
             ELSE FirstError(
                    <<CheckResolved(policy, fields.ok, enabled),
                      Require(\A j \in 1..(i - 1) : entry.overrides[j].ip # ov.ip,
                              "override twice")>>)

\* One iteration of the loop over the ranges: the ValidatedRange or an error.
CheckRange(entry, range, enabled) ==
    LET policy == RangePolicy(entry) IN
    IF IsErr(policy) THEN policy
    ELSE LET refused == FirstError(
               <<CheckResolved(policy.ok, NoFields, enabled)>> \o
               [i \in DOMAIN entry.overrides |->
                  CheckOverride(entry, range, policy.ok, enabled, i)])
         IN  IF IsErr(refused) THEN refused
             ELSE Ok([inner |-> range, policy |-> policy.ok,
                      overrides |->
                        [ip \in {entry.overrides[i].ip : i \in DOMAIN entry.overrides} |->
                           LET i == CHOOSE k \in DOMAIN entry.overrides :
                                      entry.overrides[k].ip = ip
                           IN  into_fields(entry.overrides[i].policy).ok]])

-----------------------------------------------------------------------------
(* The document *)

LoopbackHosts == {"localhost", "127.0.0.1", "::1"}

validate_metrics_url(url, allow_insecure_http) ==
    FirstError(<<Require(url # Bad, "url"),
                 Require(url # Bad => url.host # Absent, "url host"),
                 Require(url # Bad => \/ url.scheme = "https"
                                      \/ /\ url.scheme = "http"
                                         /\ url.host \in LoopbackHosts \/ allow_insecure_http,
                         "url scheme")>>)

CheckMetrics(m) ==
    IF ~m.enabled THEN Ok(TRUE)
    ELSE FirstError(<<validate_metrics_url(m.url, m.allow_insecure_http),
                      Require(m.push_interval_secs \in 5..3600, "push interval")>>)

CheckSettings(f) ==
    FirstError(
      <<Require(f.bridge \notin BlankNames, "bridge"),
        Require(/\ f.refresh_interval_ms \in 1000..(MaxInterval * 1000)
                /\ f.refresh_interval_ms % 1000 = 0, "refresh interval"),
        Require(f.interface_scan_interval_secs \in 1..MaxInterval, "scan interval"),
        Require(f.map_max_entries > 0, "map_max_entries"),
        Require(f.swl_map_max_entries \in 1..MaxSwlEntries, "swl_map_max_entries"),
        Require(f.default_sort \in {"ip", "rx", "tx", "total"}, "sort"),
        CheckMetrics(f.metrics)>>)

parse(f) ==
    LET settings == CheckSettings(f) IN
    IF IsErr(settings) THEN settings
    ELSE LET ranges == validate_ranges(f.ip_ranges) IN
    IF IsErr(ranges) THEN ranges
    ELSE LET checked == [i \in DOMAIN f.ip_ranges |->
                           CheckRange(f.ip_ranges[i], ranges.ok[i], f.enable_swl)]
             refused == FirstError(checked)
         IN  IF IsErr(refused) THEN refused
             ELSE Ok([tick_secs |-> f.refresh_interval_ms \div 1000,
                      ranges |-> [i \in DOMAIN checked |-> checked[i].ok]])

\* Directions whose policy cannot admit the largest frame the policer judges whole.
small_burst_warnings(cfg) ==
    {w \in UNION {{i} \X ({Absent} \cup DOMAIN cfg.ranges[i].overrides) \X Dirs :
                    i \in DOMAIN cfg.ranges} :
       LET vr == cfg.ranges[w[1]]
           over == IF w[2] = Absent THEN NoFields ELSE vr.overrides[w[2]]
           p == resolve(vr.policy, over).ok[w[3]]
       IN  p # Absent /\ max_admissible_frame_bytes(p) < MaxPolicedLen}

\* CIDR prefixes of all ranges: what goes into the whitelist.
prefix_set(cfg) == UNION {Range(cidrs(cfg.ranges[i].inner)) : i \in DOMAIN cfg.ranges}

\* Limiter::build_index followed by a lookup: override, then the containing range.
effective_policy(cfg, ip) ==
    LET hits == {i \in DOMAIN cfg.ranges : contains(cfg.ranges[i].inner, ip)} IN
    IF hits = {} THEN [d \in Dirs |-> Absent]
    ELSE LET vr == cfg.ranges[CHOOSE i \in hits : TRUE] IN
         resolve(vr.policy, IF ip \in DOMAIN vr.overrides THEN vr.overrides[ip] ELSE NoFields).ok

-----------------------------------------------------------------------------
Init == file \in Files /\ outcome = Pending

\* Startup or a reload reads the file and validates it.
load ==
    /\ outcome = Pending
    /\ outcome' = IF file = Bad THEN Error("unreadable or not TOML") ELSE parse(file)
    /\ UNCHANGED file

Next == load

Spec == Init /\ [][Next]_vars

-----------------------------------------------------------------------------
(* What a legal document is, said address by address and without an order of *)
(* checks.                                                                   *)

Legal(entry) ==
    \A f \in Fields : entry[f] # Absent =>
      LET v == ParsedField(f, entry[f]) IN
      /\ v # Bad
      /\ f \in RateFields => MinRate <= v /\ v <= MaxRate
      /\ f = "burst" => v <= MaxBurst
      /\ f = "limit_window" => v <= MaxLimitWindow

\* The text that governs address a of a range: the override's, where it has one.
Governing(entry, a) ==
    [f \in Fields |->
       LET own == {entry.overrides[i].policy[f] :
                     i \in {k \in DOMAIN entry.overrides : entry.overrides[k].ip = a}} \ {Absent}
       IN  IF own # {} THEN CHOOSE t \in own : TRUE
           ELSE IF entry.policy = Absent THEN Absent ELSE entry.policy[f]]

Policed(text, d) == text[threshold[d]] # Absent \/ text[limit[d]] # Absent

CompleteOrAbsent(text, swl) ==
    \A d \in Dirs : Policed(text, d) =>
      /\ Absent \notin {text[threshold[d]], text[limit[d]], text["window"],
                        text["trigger_ratio"], text["limit_duration"]}
      /\ text["algorithm"] \in WindowAlgos => text["limit_window"] # Absent
      /\ text["algorithm"] \notin WindowAlgos => text["burst"] # Absent
      /\ text["algorithm"] = "sliding_window_log" => swl

NowhereGoverned == -1   \* an address no override names: the range's own policy

WellFormedRange(entry, swl) ==
    LET s == entry.range[1]
        e == entry.range[2]
        ips == {entry.overrides[i].ip : i \in DOMAIN entry.overrides}
    IN  /\ entry.policy # Absent => Legal(entry.policy)
        /\ \A i \in DOMAIN entry.overrides :
              Legal(entry.overrides[i].policy) /\ entry.overrides[i].policy # NoFields
        /\ Cardinality(ips) = Len(entry.overrides) /\ ips \subseteq s..e
        /\ \A a \in ips \cup {NowhereGoverned} : CompleteOrAbsent(Governing(entry, a), swl)

WellFormed(f) ==
    LET n == Len(f.ip_ranges)
        names == {f.ip_ranges[i].name : i \in 1..n}
        texts == {f.ip_ranges[i].range : i \in 1..n}
    IN  /\ ~IsErr(CheckSettings(f))
        /\ n > 0
        /\ Cardinality(names) = n /\ names \cap (BlankNames \cup {IPV6_RANGE_NAME}) = {}
        /\ \A t \in texts : Len(t) = 2 /\ Bad \notin {t[1], t[2]}
        /\ \A t \in texts : t[1] <= t[2]
        /\ \A a \in Addresses :
              Cardinality({i \in 1..n : a \in f.ip_ranges[i].range[1] .. f.ip_ranges[i].range[2]})
                <= 1
        /\ \A i \in 1..n : WellFormedRange(f.ip_ranges[i], f.enable_swl)

-----------------------------------------------------------------------------
(* Properties *)

Accepted == outcome # Pending /\ ~IsErr(outcome)

\* The chain of checks with early returns in parse accepts a document exactly if it is
\* well-formed, whatever the order of its ranges and overrides: every address belongs to
\* at most one range, every override to its range and to one address, and what governs
\* an address after inheritance is complete, in bounds and allowed.
AcceptsExactly == outcome # Pending => (Accepted <=> file # Bad /\ WellFormed(file))

\* The prefixes that cidrs puts into the whitelist trie cover the configured addresses
\* and no other, each of them once, are aligned to their length, and are as few as they
\* can be: no two of one range are the halves of a longer prefix.
WhitelistIsExact ==
    Accepted =>
      LET cfg == outcome.ok
          prefixes == prefix_set(cfg)
      IN  /\ \A a \in Addresses :
                Cardinality({c \in prefixes : a \in span(c)}) =
                Cardinality({i \in DOMAIN cfg.ranges : contains(cfg.ranges[i].inner, a)})
          /\ \A c \in prefixes : c.network % 2^(Width - c.prefix_len) = 0
          /\ \A i \in DOMAIN cfg.ranges :
                \A c, d \in Range(cidrs(cfg.ranges[i].inner)) :
                  /\ c.prefix_len = d.prefix_len /\ c.prefix_len > 0
                  /\ c.network < d.network /\ c.network % 2^(Width - c.prefix_len + 1) = 0
                  => d.network # c.network + 2^(Width - c.prefix_len)

\* What the limiter's index hands to the data path for any address is enforceable: a
\* rate, a duration and a trigger line above zero, the one capacity its algorithm needs
\* and not the other's, and a policy too small for a whole frame was warned about.
EffectiveIsEnforceable ==
    Accepted =>
      LET cfg == outcome.ok IN
      \A a \in Addresses, d \in Dirs :
        LET p == effective_policy(cfg, a)[d] IN
        p # Absent =>
          /\ p.limit_bps \in MinRate..MaxRate /\ p.limit_duration_secs > 0
          /\ p.window_secs > 0 /\ trigger_bps(p) > 0
          /\ p.algorithm \in BucketAlgos =>
                p.burst_bytes \in 1..MaxBurst /\ p.limit_window_secs = 0
          /\ p.algorithm \notin BucketAlgos =>
                p.burst_bytes = 0 /\ p.limit_window_secs \in 1..MaxLimitWindow
          /\ \/ max_admissible_frame_bytes(p) >= MaxPolicedLen
             \/ \E w \in small_burst_warnings(cfg) :
                  /\ contains(cfg.ranges[w[1]].inner, a) /\ w[3] = d
                  /\ w[2] = IF a \in DOMAIN cfg.ranges[w[1]].overrides THEN a ELSE Absent

=============================================================================
