---------------------------- MODULE ConfigProofs ----------------------------
(***************************************************************************)
(* The chain of checks of Config accepts exactly the well-formed           *)
(* documents, and what it accepts is enforceable, for any documents and    *)
(* any bounds.  Each check with early returns is first turned into the     *)
(* condition that it decides (lemmas named ...Iff), which frees the rest   *)
(* of the argument from their order.                                       *)
(***************************************************************************)
EXTENDS Config, FiniteSetTheorems, WellFoundedInduction, TLAPS

-----------------------------------------------------------------------------
(* Checks and their verdicts *)

LEMMA Verdicts ==
    /\ \A x : IsErr(Error(x)) /\ ~IsErr(Ok(x)) /\ Ok(x).ok = x
    /\ \A c, at : IsErr(Require(c, at)) <=> ~c
  BY DEF IsErr, Error, Ok, Require

LEMMA LeastNat ==
    ASSUME NEW B, B \subseteq Nat, B # {}
    PROVE  \E k \in B : \A j \in B : k <= j
  <1>1. PICK k \in B : \A j \in B : ~ (<<j, k>> \in OpToRel(<, Nat))
    BY NatLessThanWellFounded, WFMin, Zenon
  <1>2. ASSUME NEW j \in B PROVE k <= j
    <2>1. j \in Nat /\ k \in Nat
      OBVIOUS
    <2>2. ~ (<<j, k>> \in OpToRel(<, Nat))
      BY <1>1
    <2>3. ~ (j < k)
      BY <2>1, <2>2, Zenon DEF OpToRel
    <2> QED  BY <2>1, <2>3
  <1> QED  BY <1>1, <1>2

\* A chain of checks refuses if one of them does, and accepts with TRUE.
LEMMA ChainIff ==
    ASSUME NEW checks, DOMAIN checks \subseteq Nat
    PROVE  /\ IsErr(FirstError(checks)) <=> \E i \in DOMAIN checks : IsErr(checks[i])
           /\ ~IsErr(FirstError(checks)) => FirstError(checks) = Ok(TRUE)
  <1> DEFINE failed == {i \in DOMAIN checks : IsErr(checks[i])}
  <1>1. FirstError(checks) = IF failed = {} THEN Ok(TRUE)
                             ELSE checks[CHOOSE i \in failed : \A j \in failed : i <= j]
    BY DEF FirstError
  <1>2. CASE failed = {}
    BY <1>1, <1>2, Verdicts
  <1>3. CASE failed # {}
    <2>1. \E i \in failed : \A j \in failed : i <= j
      BY <1>3, LeastNat
    <2>2. (CHOOSE i \in failed : \A j \in failed : i <= j) \in failed
      BY <2>1
    <2> QED  BY <1>1, <1>3, <2>2
  <1> QED  BY <1>2, <1>3

LEMMA Chain3Iff ==
    ASSUME NEW a, NEW b, NEW c
    PROVE  /\ IsErr(FirstError(<<a, b, c>>)) <=> IsErr(a) \/ IsErr(b) \/ IsErr(c)
           /\ ~IsErr(FirstError(<<a, b, c>>)) => FirstError(<<a, b, c>>) = Ok(TRUE)
  <1> DEFINE s == <<a, b, c>>
  <1>1. DOMAIN s = {1, 2, 3} /\ s[1] = a /\ s[2] = b /\ s[3] = c
    OBVIOUS
  <1> HIDE DEF s
  <1>2. DOMAIN s \subseteq Nat
    BY <1>1
  <1>3. /\ IsErr(FirstError(s)) <=> \E i \in DOMAIN s : IsErr(s[i])
        /\ ~IsErr(FirstError(s)) => FirstError(s) = Ok(TRUE)
    BY <1>2, ChainIff
  <1>4. (\E i \in DOMAIN s : IsErr(s[i])) <=> IsErr(a) \/ IsErr(b) \/ IsErr(c)
    BY <1>1
  <1> QED  BY <1>3, <1>4 DEF s

LEMMA Chain2Iff ==
    ASSUME NEW a, NEW b
    PROVE  /\ IsErr(FirstError(<<a, b>>)) <=> IsErr(a) \/ IsErr(b)
           /\ ~IsErr(FirstError(<<a, b>>)) => FirstError(<<a, b>>) = Ok(TRUE)
  <1> DEFINE s == <<a, b>>
  <1>1. DOMAIN s = {1, 2} /\ s[1] = a /\ s[2] = b
    OBVIOUS
  <1> HIDE DEF s
  <1>2. DOMAIN s \subseteq Nat
    BY <1>1
  <1>3. /\ IsErr(FirstError(s)) <=> \E i \in DOMAIN s : IsErr(s[i])
        /\ ~IsErr(FirstError(s)) => FirstError(s) = Ok(TRUE)
    BY <1>2, ChainIff
  <1>4. (\E i \in DOMAIN s : IsErr(s[i])) <=> IsErr(a) \/ IsErr(b)
    BY <1>1
  <1> QED  BY <1>3, <1>4 DEF s

LEMMA Chain4Iff ==
    ASSUME NEW a, NEW b, NEW c, NEW d
    PROVE  IsErr(FirstError(<<a, b, c, d>>)) <=> IsErr(a) \/ IsErr(b) \/ IsErr(c) \/ IsErr(d)
  <1> DEFINE s == <<a, b, c, d>>
  <1>1. DOMAIN s = {1, 2, 3, 4} /\ s[1] = a /\ s[2] = b /\ s[3] = c /\ s[4] = d
    OBVIOUS
  <1> HIDE DEF s
  <1>2. DOMAIN s \subseteq Nat
    BY <1>1
  <1>3. /\ IsErr(FirstError(s)) <=> \E i \in DOMAIN s : IsErr(s[i])
        /\ ~IsErr(FirstError(s)) => FirstError(s) = Ok(TRUE)
    BY <1>2, ChainIff
  <1>4. (\E i \in DOMAIN s : IsErr(s[i])) <=> IsErr(a) \/ IsErr(b) \/ IsErr(c) \/ IsErr(d)
    BY <1>1
  <1> QED  BY <1>3, <1>4 DEF s

LEMMA Chain5Iff ==
    ASSUME NEW a, NEW b, NEW c, NEW d, NEW e
    PROVE  IsErr(FirstError(<<a, b, c, d, e>>))
             <=> IsErr(a) \/ IsErr(b) \/ IsErr(c) \/ IsErr(d) \/ IsErr(e)
  <1> DEFINE s == <<a, b, c, d, e>>
  <1>1. DOMAIN s = {1, 2, 3, 4, 5} /\ s[1] = a /\ s[2] = b /\ s[3] = c /\ s[4] = d /\ s[5] = e
    OBVIOUS
  <1> HIDE DEF s
  <1>2. DOMAIN s \subseteq Nat
    BY <1>1
  <1>3. /\ IsErr(FirstError(s)) <=> \E i \in DOMAIN s : IsErr(s[i])
        /\ ~IsErr(FirstError(s)) => FirstError(s) = Ok(TRUE)
    BY <1>2, ChainIff
  <1>4. (\E i \in DOMAIN s : IsErr(s[i])) <=> IsErr(a) \/ IsErr(b) \/ IsErr(c) \/ IsErr(d) \/ IsErr(e)
    BY <1>1
  <1> QED  BY <1>3, <1>4 DEF s

\* A check before a list of checks.
LEMMA ChainListIff ==
    ASSUME NEW a, NEW n \in Nat, NEW s, s = [i \in 1..n |-> s[i]]
    PROVE  IsErr(FirstError(<<a>> \o s)) <=> IsErr(a) \/ \E i \in 1..n : IsErr(s[i])
  <1> DEFINE all == <<a>> \o s
  <1>1. DOMAIN s = 1..n /\ Len(s) = n /\ s \in Seq({s[i] : i \in 1..n})
    OBVIOUS
  <1>2. all = [i \in 1..(1 + n) |-> IF i <= 1 THEN <<a>>[i] ELSE s[i - 1]]
    BY <1>1
  <1>3. DOMAIN all = 1..(1 + n) /\ all[1] = a /\ \A i \in 1..n : all[i + 1] = s[i]
    BY <1>2
  <1>4. \A j \in 1..(1 + n) : j = 1 \/ \E i \in 1..n : j = i + 1
    <2>1. \A j \in 1..(1 + n) : j # 1 => j - 1 \in 1..n /\ j = (j - 1) + 1
      OBVIOUS
    <2> QED  BY <2>1
  <1>5. 1 \in 1..(1 + n) /\ \A i \in 1..n : i + 1 \in 1..(1 + n)
    OBVIOUS
  <1> HIDE DEF all
  <1>6. IsErr(FirstError(all)) <=> \E j \in DOMAIN all : IsErr(all[j])
    <2>1. DOMAIN all \subseteq Nat
      BY <1>3
    <2> QED  BY <2>1, ChainIff
  <1>7. (\E j \in 1..(1 + n) : IsErr(all[j])) <=> IsErr(a) \/ \E i \in 1..n : IsErr(s[i])
    BY <1>3, <1>4, <1>5
  <1> QED  BY <1>3, <1>6, <1>7 DEF all

-----------------------------------------------------------------------------
(* Fields *)

\* What a field can hold once it is parsed.
FieldValues(f) ==
    IF f = "trigger_ratio" THEN 1..100
    ELSE IF f = "algorithm" THEN BucketAlgos \cup WindowAlgos
    ELSE Nat \ {0}

InBounds(f, v) ==
    /\ f \in RateFields => MinRate <= v /\ v <= MaxRate
    /\ f = "burst" => v <= MaxBurst
    /\ f = "limit_window" => v <= MaxLimitWindow

LegalFields(m) ==
    /\ m = [f \in Fields |-> m[f]]
    /\ \A f \in Fields : m[f] # Absent => m[f] \in FieldValues(f) /\ InBounds(f, m[f])

Parsed(entry) == [f \in Fields |-> ParsedField(f, entry[f])]

LEMMA ProductIsNat ==
    ASSUME NEW x \in Nat, NEW y \in Nat  PROVE x * y \in Nat
  OBVIOUS

LEMMA ScaledIs ==
    ASSUME NEW units, \A u \in DOMAIN units : units[u] \in Nat,
           NEW text, text.num \in Nat \cup {Bad}
    PROVE  Scaled(units, text) = Bad \/ Scaled(units, text) \in Nat \ {0}
  <1>1. CASE text.num = Bad \/ text.unit \notin DOMAIN units
    BY <1>1 DEF Scaled
  <1>2. CASE text.num # Bad /\ text.unit \in DOMAIN units
    <2> DEFINE value == text.num * units[text.unit]
    <2>1. value \in Nat
      BY <1>2, ProductIsNat
    <2> HIDE DEF value
    <2>2. Scaled(units, text) = IF value = 0 \/ value > U64Max THEN Bad ELSE value
      BY <1>2 DEF Scaled, value
    <2> QED  BY <2>1, <2>2
  <1> QED  BY <1>1, <1>2

LEMMA UnitsAreNumbers ==
    /\ \A u \in DOMAIN RateUnits : RateUnits[u] \in Nat
    /\ \A u \in DOMAIN DurationUnits : DurationUnits[u] \in Nat
    /\ \A u \in DOMAIN ByteUnits : ByteUnits[u] \in Nat
  <1> DEFINE k2 == Kilo * Kilo  k3 == k2 * Kilo  b2 == Kibi * Kibi  b3 == b2 * Kibi
  <1>1. {Kilo, Kibi} \subseteq Nat
    BY ConfigAssumption
  <1>2. {k2, b2} \subseteq Nat
    BY <1>1, ProductIsNat
  <1>3. {k3, b3} \subseteq Nat
    BY <1>1, <1>2, ProductIsNat
  <1>4. /\ RateUnits = [bps |-> 1, Kbps |-> Kilo, Mbps |-> k2, Gbps |-> k3]
        /\ ByteUnits = [B |-> 1, KB |-> Kilo, MB |-> k2, GB |-> k3,
                        KiB |-> Kibi, MiB |-> b2, GiB |-> b3]
    BY DEF RateUnits, ByteUnits
  <1> HIDE DEF k2, k3, b2, b3
  <1> QED  BY <1>1, <1>2, <1>3, <1>4 DEF DurationUnits

LEMMA SentinelsDiffer ==
    /\ Bad # Absent
    /\ \A n \in Int : n # Bad /\ n # Absent
    /\ \A a \in BucketAlgos \cup WindowAlgos : a # Bad /\ a # Absent
  BY ConfigAssumption

\* A field is absent exactly if its text is, and otherwise refused or a proper value.
LEMMA ParsedIs ==
    ASSUME NEW f \in Fields, NEW text, IsText(f, text)
    PROVE  /\ ParsedField(f, text) = Absent <=> text = Absent
           /\ text # Absent =>
                ParsedField(f, text) = Bad \/ ParsedField(f, text) \in FieldValues(f)
           /\ f = "algorithm" /\ ParsedField(f, text) # Bad => ParsedField(f, text) = text
  <1>1. CASE text = Absent
    BY <1>1 DEF ParsedField
  <1>2. CASE text # Absent /\ f \in RateFields \cup DurationFields \cup {"burst"}
    <2>1. text.num \in Nat \cup {Bad}
      BY <1>2 DEF IsText, RateFields, DurationFields
    <2>2. ParsedField(f, text) \in {Scaled(RateUnits, text), Scaled(DurationUnits, text), Scaled(ByteUnits, text)}
      BY <1>2 DEF ParsedField, RateFields, DurationFields, parse_rate_bps, parse_duration_secs,
                  parse_bytes
    <2>3. ParsedField(f, text) = Bad \/ ParsedField(f, text) \in Nat \ {0}
      BY <2>1, <2>2, ScaledIs, UnitsAreNumbers
    <2>4. FieldValues(f) = Nat \ {0} /\ f # "algorithm"
      BY <1>2 DEF FieldValues, RateFields, DurationFields
    <2> QED  BY <1>2, <2>3, <2>4, SentinelsDiffer
  <1>3. CASE text # Absent /\ f = "trigger_ratio"
    <2>1. ParsedField(f, text) = parse_percent(text) /\ FieldValues(f) = 1..100
      BY <1>3 DEF ParsedField, RateFields, DurationFields, FieldValues
    <2>2. parse_percent(text) = Bad \/ parse_percent(text) \in 1..100
      BY DEF parse_percent
    <2>3. 1..100 \subseteq Int
      OBVIOUS
    <2> QED  BY <1>3, <2>1, <2>2, <2>3, SentinelsDiffer
  <1>4. CASE text # Absent /\ f = "algorithm"
    <2>1. /\ ParsedField(f, text) = parse_algorithm(text)
          /\ FieldValues(f) = BucketAlgos \cup WindowAlgos
      BY <1>4 DEF ParsedField, RateFields, DurationFields, FieldValues
    <2>2. parse_algorithm(text) = IF text \in BucketAlgos \cup WindowAlgos THEN text ELSE Bad
      BY DEF parse_algorithm
    <2> QED  BY <1>4, <2>1, <2>2, SentinelsDiffer
  <1> QED  BY <1>1, <1>2, <1>3, <1>4 DEF Fields

LEMMA ParsedFields ==
    ASSUME NEW entry, IsEntry(entry)
    PROVE  /\ Parsed(entry) = [f \in Fields |-> Parsed(entry)[f]]
           /\ \A f \in Fields :
                /\ Parsed(entry)[f] = ParsedField(f, entry[f])
                /\ Parsed(entry)[f] = Absent <=> entry[f] = Absent
                /\ entry[f] # Absent => Parsed(entry)[f] = Bad \/ Parsed(entry)[f] \in FieldValues(f)
                /\ f = "algorithm" /\ Parsed(entry)[f] # Bad => Parsed(entry)[f] = entry[f]
  <1>1. \A f \in Fields : Parsed(entry)[f] = ParsedField(f, entry[f])
    BY DEF Parsed
  <1>2. \A f \in Fields : IsText(f, entry[f])
    BY DEF IsEntry
  <1> QED  BY <1>1, <1>2, ParsedIs DEF Parsed

LEMMA IntoFieldsIff ==
    ASSUME NEW entry
    PROVE  /\ IsErr(into_fields(entry)) <=> \E f \in Fields : Parsed(entry)[f] = Bad
           /\ ~IsErr(into_fields(entry)) => into_fields(entry).ok = Parsed(entry)
  <1>1. into_fields(entry) =
          IF \E f \in Fields : Parsed(entry)[f] = Bad THEN Error("units") ELSE Ok(Parsed(entry))
    BY DEF into_fields, Parsed
  <1> QED  BY <1>1, Verdicts

LEMMA BoundsIff ==
    ASSUME NEW m, \A f \in Fields : m[f] # Absent => m[f] \in FieldValues(f)
    PROVE  IsErr(check_policy_bounds(m)) <=> ~ \A f \in Fields : m[f] # Absent => InBounds(f, m[f])
  <1> DEFINE rates == \A f \in RateFields : m[f] # Absent => m[f] \in MinRate..MaxRate
             burst == m["burst"] # Absent => m["burst"] <= MaxBurst
             lwin == m["limit_window"] # Absent => m["limit_window"] \in MinLimitWindow..MaxLimitWindow
  <1>1. IsErr(check_policy_bounds(m)) <=> ~rates \/ ~burst \/ ~lwin
    <2> DEFINE a == Require(rates, "rate")  b == Require(burst, "burst")
               c == Require(lwin, "limit_window")
    <2>1. check_policy_bounds(m) = FirstError(<<a, b, c>>)
      BY DEF check_policy_bounds
    <2> HIDE DEF rates, burst, lwin
    <2>2. (IsErr(a) <=> ~rates) /\ (IsErr(b) <=> ~burst) /\ (IsErr(c) <=> ~lwin)
      BY Verdicts DEF Require
    <2> HIDE DEF a, b, c
    <2>3. IsErr(FirstError(<<a, b, c>>)) <=> IsErr(a) \/ IsErr(b) \/ IsErr(c)
      BY Chain3Iff
    <2> QED  BY <2>1, <2>2, <2>3
  <1>2. /\ \A f \in RateFields \cup {"burst", "limit_window"} :
             f \in Fields /\ (m[f] # Absent => m[f] \in Nat \ {0})
        /\ RateFields \cap {"burst", "limit_window"} = {}
    BY DEF Fields, RateFields, DurationFields, FieldValues
  <1>3. {MinRate, MaxRate, MaxBurst, MaxLimitWindow} \subseteq Nat
    BY ConfigAssumption
  <1>4. rates <=> \A f \in RateFields : m[f] # Absent => InBounds(f, m[f])
    BY <1>2, <1>3 DEF InBounds
  <1>5. burst <=> (m["burst"] # Absent => InBounds("burst", m["burst"]))
    BY <1>2 DEF InBounds
  <1>6. lwin <=> (m["limit_window"] # Absent => InBounds("limit_window", m["limit_window"]))
    BY <1>2, <1>3 DEF InBounds, MinLimitWindow
  <1>7. \A v : \A f \in Fields \ (RateFields \cup {"burst", "limit_window"}) : InBounds(f, v)
    BY DEF InBounds
  <1> HIDE DEF rates, burst, lwin
  <1>8. rates /\ burst /\ lwin <=> \A f \in Fields : m[f] # Absent => InBounds(f, m[f])
    BY <1>2, <1>4, <1>5, <1>6, <1>7
  <1> QED  BY <1>1, <1>8

\* The fields of an entry are accepted exactly if the entry is legal.
LEMMA CheckedIff ==
    ASSUME NEW entry, IsEntry(entry)
    PROVE  /\ IsErr(CheckedFields(entry)) <=> ~Legal(entry)
           /\ Legal(entry) => /\ CheckedFields(entry).ok = Parsed(entry)
                              /\ into_fields(entry).ok = Parsed(entry)
                              /\ LegalFields(Parsed(entry))
  <1> DEFINE m == Parsed(entry)
  <1>1. Legal(entry) <=> \A f \in Fields : entry[f] # Absent => m[f] # Bad /\ InBounds(f, m[f])
    BY ParsedFields DEF Legal, InBounds
  <1>2. CASE \E f \in Fields : m[f] = Bad
    <2>1. IsErr(CheckedFields(entry))
      BY <1>2, IntoFieldsIff DEF CheckedFields
    <2>2. ~Legal(entry)
      BY <1>1, <1>2, ParsedFields, SentinelsDiffer
    <2> QED  BY <2>1, <2>2
  <1>3. CASE ~ \E f \in Fields : m[f] = Bad
    <2>1. ~IsErr(into_fields(entry)) /\ into_fields(entry).ok = m
      BY <1>3, IntoFieldsIff
    <2>2. \A f \in Fields : m[f] # Absent => m[f] \in FieldValues(f)
      BY <1>3, ParsedFields
    <2>3. Legal(entry) <=> \A f \in Fields : m[f] # Absent => InBounds(f, m[f])
      BY <1>1, <1>3, ParsedFields
    <2>4. IsErr(check_policy_bounds(m)) <=> ~Legal(entry)
      BY <2>2, <2>3, BoundsIff
    <2>5. CheckedFields(entry) = IF IsErr(check_policy_bounds(m)) THEN check_policy_bounds(m)
                                 ELSE into_fields(entry)
      BY <2>1 DEF CheckedFields
    <2>6. Legal(entry) => LegalFields(m)
      BY <2>2, <2>3, ParsedFields DEF LegalFields
    <2> QED  BY <2>1, <2>4, <2>5, <2>6
  <1> QED  BY <1>2, <1>3

-----------------------------------------------------------------------------
(* Resolving *)

LEMMA NoFieldsIsLegal ==
    LegalFields(NoFields) /\ \A f \in Fields : NoFields[f] = Absent
  BY DEF NoFields, LegalFields

LEMMA MergedIs ==
    ASSUME NEW r, NEW o
    PROVE  \A f \in Fields : merged_with(r, o)[f] = IF o[f] # Absent THEN o[f] ELSE r[f]
  BY DEF merged_with

LEMMA MergedIsLegal ==
    ASSUME NEW r, NEW o, LegalFields(r), LegalFields(o)
    PROVE  LegalFields(merged_with(r, o))
  <1>1. merged_with(r, o) = [f \in Fields |-> merged_with(r, o)[f]]
    BY DEF merged_with
  <1> QED  BY <1>1, MergedIs DEF LegalFields

LEMMA DirFields ==
    ASSUME NEW d \in Dirs
    PROVE  /\ threshold[d] \in RateFields /\ limit[d] \in RateFields
           /\ RateFields \subseteq Fields
           /\ {"window", "trigger_ratio", "limit_duration", "burst", "limit_window",
               "algorithm"} \subseteq Fields
  BY DEF Dirs, threshold, limit, RateFields, DurationFields, Fields

LEMMA AlgorithmIs ==
    ASSUME NEW m, LegalFields(m)
    PROVE  /\ algorithm(m) \in BucketAlgos \cup WindowAlgos
           /\ algorithm(m) \in WindowAlgos <=> m["algorithm"] \in WindowAlgos
           /\ algorithm(m) \in BucketAlgos <=> algorithm(m) \notin WindowAlgos
           /\ algorithm(m) = "sliding_window_log" <=> m["algorithm"] = "sliding_window_log"
  <1>1. m["algorithm"] = Absent \/ m["algorithm"] \in BucketAlgos \cup WindowAlgos
    BY DEF LegalFields, FieldValues, Fields
  <1>2. Absent \notin WindowAlgos /\ "sliding_window_log" \in WindowAlgos
        /\ BucketAlgos \cap WindowAlgos = {} /\ "gcra" \in BucketAlgos
        /\ "gcra" # "sliding_window_log"
    BY SentinelsDiffer DEF BucketAlgos, WindowAlgos
  <1>3. algorithm(m) = IF m["algorithm"] = Absent THEN "gcra" ELSE m["algorithm"]
    BY DEF algorithm
  <1> HIDE DEF BucketAlgos, WindowAlgos
  <1> QED  BY <1>1, <1>2, <1>3

\* A direction that is policed must have all that its algorithm needs.
CompleteDir(m, d) ==
    /\ Absent \notin {m[threshold[d]], m[limit[d]], m["window"], m["trigger_ratio"],
                      m["limit_duration"]}
    /\ m["algorithm"] \in WindowAlgos => m["limit_window"] # Absent
    /\ m["algorithm"] \notin WindowAlgos => m["burst"] # Absent

LEMMA RequiredIff ==
    ASSUME NEW m, LegalFields(m), NEW d \in Dirs
    PROVE  (\E f \in Required(m, d) : m[f] = Absent) <=> ~CompleteDir(m, d)
  <1>1. AlgorithmField(m) = IF m["algorithm"] \in WindowAlgos THEN "limit_window" ELSE "burst"
    BY AlgorithmIs DEF AlgorithmField
  <1> QED  BY <1>1 DEF Required, CompleteDir

LEMMA BuildDirIff ==
    ASSUME NEW m, LegalFields(m), NEW d \in Dirs
    PROVE  /\ IsErr(build_dir(m, d)) <=> Policed(m, d) /\ ~CompleteDir(m, d)
           /\ ~IsErr(build_dir(m, d)) =>
                build_dir(m, d).ok = IF Policed(m, d) THEN DirPolicy(m, d) ELSE Absent
  <1>1. build_dir(m, d) = IF ~Policed(m, d) THEN Ok(Absent)
                          ELSE IF ~CompleteDir(m, d) THEN Error("incomplete")
                          ELSE Ok(DirPolicy(m, d))
    BY RequiredIff DEF build_dir, Policed, Ok, Error
  <1> QED  BY <1>1, Verdicts

\* What a complete direction resolves to.
LEMMA DirPolicyIs ==
    ASSUME NEW m, LegalFields(m), NEW d \in Dirs, CompleteDir(m, d)
    PROVE  LET p == DirPolicy(m, d) IN
           /\ p \in DirPolicies /\ p # Absent
           /\ p.limit_bps \in MinRate..MaxRate /\ p.threshold_bps \in MinRate..MaxRate
           /\ p.limit_duration_secs > 0 /\ p.window_secs > 0
           /\ p.trigger_ratio_pct \in 1..100 /\ p.algorithm = algorithm(m)
           /\ p.algorithm \in BucketAlgos =>
                p.burst_bytes \in 1..MaxBurst /\ p.limit_window_secs = 0
           /\ p.algorithm \notin BucketAlgos =>
                p.burst_bytes = 0 /\ p.limit_window_secs \in 1..MaxLimitWindow
  <1> DEFINE a == algorithm(m)
             b == IF a \in WindowAlgos THEN 0 ELSE m["burst"]
             w == IF a \in WindowAlgos THEN m["limit_window"] ELSE 0
             th == m[threshold[d]]
             li == m[limit[d]]
             wi == m["window"]
             tr == m["trigger_ratio"]
             du == m["limit_duration"]
  <1>1. \A f \in Fields : m[f] # Absent => m[f] \in FieldValues(f) /\ InBounds(f, m[f])
    BY DEF LegalFields
  <1>2. Absent \notin {th, li, wi, tr, du}
    BY DEF CompleteDir
  <1>3. {MinRate, MaxRate, MaxBurst, MaxLimitWindow} \subseteq Nat
    BY ConfigAssumption
  <1>4. \A f \in RateFields : f \in Fields /\ FieldValues(f) = Nat \ {0}
    BY DEF RateFields, Fields, FieldValues
  <1>5. th \in MinRate..MaxRate /\ li \in MinRate..MaxRate
    BY <1>1, <1>2, <1>3, <1>4, DirFields DEF InBounds
  <1>6. wi \in Nat \ {0} /\ tr \in 1..100 /\ du \in Nat \ {0}
    BY <1>1, <1>2, DirFields DEF FieldValues
  <1>7. a \in BucketAlgos \cup WindowAlgos /\ (a \in BucketAlgos <=> a \notin WindowAlgos)
    BY AlgorithmIs
  <1>8. CASE a \in WindowAlgos
    <2>1. m["limit_window"] # Absent
      BY <1>8, AlgorithmIs DEF CompleteDir
    <2>2. m["limit_window"] \in 1..MaxLimitWindow
      BY <1>1, <1>3, <2>1, DirFields DEF FieldValues, InBounds
    <2>3. b = 0 /\ w \in 1..MaxLimitWindow
      BY <1>8, <2>2
    <2> QED  BY <1>3, <1>5, <1>6, <1>7, <1>8, <2>3, ConfigAssumption DEF DirPolicy, DirPolicies
  <1>9. CASE a \notin WindowAlgos
    <2>1. m["burst"] # Absent
      BY <1>9, AlgorithmIs DEF CompleteDir
    <2>2. m["burst"] \in 1..MaxBurst
      BY <1>1, <1>3, <2>1, DirFields DEF FieldValues, InBounds
    <2>3. w = 0 /\ b \in 1..MaxBurst
      BY <1>9, <2>2
    <2> QED  BY <1>3, <1>5, <1>6, <1>7, <1>9, <2>3, ConfigAssumption DEF DirPolicy, DirPolicies
  <1> QED  BY <1>8, <1>9

Complete(m, swl) ==
    \A d \in Dirs : Policed(m, d) =>
      /\ CompleteDir(m, d)
      /\ m["algorithm"] = "sliding_window_log" => swl

LEMMA CompleteMeans ==
    ASSUME NEW m, NEW swl
    PROVE  Complete(m, swl) <=> CompleteOrAbsent(m, swl)
  BY DEF Complete, CompleteOrAbsent, CompleteDir

\* Completeness asks which fields are there, and for the algorithm.
LEMMA CompleteIsShape ==
    ASSUME NEW m, NEW text, NEW swl,
           \A f \in Fields : m[f] = Absent <=> text[f] = Absent,
           m["algorithm"] = text["algorithm"]
    PROVE  Complete(m, swl) <=> Complete(text, swl)
  <1>1. ASSUME NEW d \in Dirs
        PROVE  /\ Policed(m, d) <=> Policed(text, d)
               /\ CompleteDir(m, d) <=> CompleteDir(text, d)
    BY DirFields DEF Policed, CompleteDir
  <1> QED  BY <1>1 DEF Complete

LEMMA ResolveIff ==
    ASSUME NEW r, NEW o, LegalFields(r), LegalFields(o), NEW m, m = merged_with(r, o)
    PROVE  /\ IsErr(resolve(r, o)) <=> \E d \in Dirs : Policed(m, d) /\ ~CompleteDir(m, d)
           /\ ~IsErr(resolve(r, o)) => \A d \in Dirs :
                resolve(r, o).ok[d] = IF Policed(m, d) THEN DirPolicy(m, d) ELSE Absent
  <1> DEFINE rx == build_dir(m, "rx")
             tx == build_dir(m, "tx")
  <1>1. resolve(r, o) = IF IsErr(rx) THEN rx ELSE IF IsErr(tx) THEN tx
                        ELSE Ok([rx |-> rx.ok, tx |-> tx.ok])
    BY DEF resolve, IsErr, Ok
  <1>2. LegalFields(m) /\ Dirs = {"rx", "tx"}
    BY MergedIsLegal DEF Dirs
  <1>3. /\ IsErr(rx) <=> Policed(m, "rx") /\ ~CompleteDir(m, "rx")
        /\ ~IsErr(rx) => rx.ok = IF Policed(m, "rx") THEN DirPolicy(m, "rx") ELSE Absent
        /\ IsErr(tx) <=> Policed(m, "tx") /\ ~CompleteDir(m, "tx")
        /\ ~IsErr(tx) => tx.ok = IF Policed(m, "tx") THEN DirPolicy(m, "tx") ELSE Absent
    BY <1>2, BuildDirIff
  <1> HIDE DEF rx, tx
  <1>4. IsErr(resolve(r, o)) <=> IsErr(rx) \/ IsErr(tx)
    BY <1>1, Verdicts
  <1>5. ~IsErr(resolve(r, o)) => resolve(r, o).ok = [rx |-> rx.ok, tx |-> tx.ok]
    BY <1>1, <1>4, Verdicts
  <1> QED  BY <1>2, <1>3, <1>4, <1>5

\* Resolving accepts exactly the complete and allowed merges.
LEMMA CheckResolvedIff ==
    ASSUME NEW r, NEW o, LegalFields(r), LegalFields(o), NEW m, m = merged_with(r, o),
           NEW swl \in BOOLEAN
    PROVE  IsErr(CheckResolved(r, o, swl)) <=> ~Complete(m, swl)
  <1> DEFINE eff == resolve(r, o)
             allowed == \A d \in Dirs :
                          eff.ok[d] # Absent => eff.ok[d].algorithm # "sliding_window_log"
  <1>1. LegalFields(m)
    BY MergedIsLegal
  <1>2. CASE IsErr(eff)
    <2>1. IsErr(CheckResolved(r, o, swl))
      BY <1>2 DEF CheckResolved
    <2> QED  BY <1>2, <2>1, ResolveIff DEF Complete
  <1>3. CASE ~IsErr(eff)
    <2>1. IsErr(CheckResolved(r, o, swl)) <=> ~(swl \/ allowed)
      <3>1. CheckResolved(r, o, swl) = IF swl \/ allowed THEN Ok(TRUE) ELSE Error("swl")
        BY <1>3 DEF CheckResolved, check_swl_enabled, Require
      <3> HIDE DEF allowed
      <3> QED  BY <3>1, Verdicts
    <2>2. \A d \in Dirs : Policed(m, d) => CompleteDir(m, d)
      BY <1>3, ResolveIff
    <2>3. ASSUME NEW d \in Dirs
          PROVE  (eff.ok[d] # Absent => eff.ok[d].algorithm # "sliding_window_log")
                   <=> (Policed(m, d) => m["algorithm"] # "sliding_window_log")
      <3>1. eff.ok[d] = IF Policed(m, d) THEN DirPolicy(m, d) ELSE Absent
        BY <1>3, ResolveIff
      <3>2. Policed(m, d) => /\ DirPolicy(m, d) # Absent
                             /\ DirPolicy(m, d).algorithm = algorithm(m)
        BY <1>1, <2>2, DirPolicyIs
      <3> QED  BY <1>1, <3>1, <3>2, AlgorithmIs
    <2>4. allowed <=> \A d \in Dirs : Policed(m, d) => m["algorithm"] # "sliding_window_log"
      BY <2>3
    <2> HIDE DEF allowed
    <2> QED  BY <2>1, <2>2, <2>4 DEF Complete
  <1> QED  BY <1>2, <1>3

-----------------------------------------------------------------------------
(* Ranges *)

LEMMA AddressesAreNumbers ==
    /\ Addresses \subseteq Nat
    /\ Bad \notin Addresses /\ Absent \notin Addresses /\ NowhereGoverned \notin Addresses
  <1>1. Addresses \subseteq Nat
    BY DEF Addresses
  <1>2. Bad \notin Nat /\ Absent \notin Nat
    <2>1. Bad \notin Int /\ Absent \notin Int
      BY ConfigAssumption
    <2> QED  BY <2>1
  <1>3. NowhereGoverned \notin Nat
    BY DEF NowhereGoverned
  <1> QED  BY <1>1, <1>2, <1>3

\* The text of a range has two addresses in order.
WellFormedText(t) == Len(t) = 2 /\ Bad \notin {t[1], t[2]} /\ t[1] <= t[2]

LEMMA ParseRangeIff ==
    ASSUME NEW t \in Seq(Addresses \cup {Bad}), t # <<>>
    PROVE  IsErr(parse_range(t)) <=> ~WellFormedText(t)
  <1> DEFINE oneDash == Len(t) # 1
             atMost == Len(t) <= 2
             start == t[1] \in Addresses
             end == Len(t) = 2 => t[2] \in Addresses
             order == Len(t) = 2 /\ Bad \notin {t[1], t[2]} => t[1] <= t[2]
             a == Require(oneDash, "no dash")
             b == Require(atMost, "more than one dash")
             c == Require(start, "start is no address")
             d == Require(end, "end is no address")
             e == Require(order, "reversed")
             refused == FirstError(<<a, b, c, d, e>>)
  <1>1. IsErr(parse_range(t)) <=> IsErr(refused)
    <2>1. parse_range(t) = IF IsErr(refused) THEN refused ELSE Ok([start |-> t[1], end |-> t[2]])
      BY DEF parse_range
    <2> HIDE DEF refused
    <2> QED  BY <2>1, Verdicts
  <1>2. oneDash /\ atMost /\ start /\ end /\ order <=> WellFormedText(t)
    <2>1. Len(t) \in Nat \ {0} /\ \A i \in 1..Len(t) : t[i] \in Addresses \cup {Bad}
      OBVIOUS
    <2>2. t[1] \in Addresses \cup {Bad} /\ (Len(t) = 2 => t[2] \in Addresses \cup {Bad})
      BY <2>1
    <2>3. CASE Len(t) = 2
      <3>1. (t[1] \in Addresses <=> t[1] # Bad) /\ (t[2] \in Addresses <=> t[2] # Bad)
        BY <2>2, <2>3, AddressesAreNumbers
      <3>2. oneDash /\ atMost
        BY <2>3
      <3>3. WellFormedText(t) <=> t[1] # Bad /\ t[2] # Bad /\ t[1] <= t[2]
        BY <2>3 DEF WellFormedText
      <3>4. order <=> (t[1] # Bad /\ t[2] # Bad => t[1] <= t[2])
        BY <2>3
      <3>5. start /\ end <=> t[1] # Bad /\ t[2] # Bad
        BY <2>3, <3>1
      <3> HIDE DEF oneDash, atMost, start, end, order
      <3> QED  BY <3>2, <3>3, <3>4, <3>5
    <2>4. CASE Len(t) # 2
      <3>1. ~WellFormedText(t)
        BY <2>4 DEF WellFormedText
      <3>2. ~(oneDash /\ atMost)
        <4>1. \A k \in Nat \ {0} : k # 2 => ~(k # 1 /\ k <= 2)
          OBVIOUS
        <4> QED  BY <2>1, <2>4, <4>1, Zenon
      <3> HIDE DEF oneDash, atMost, start, end, order
      <3> QED  BY <3>1, <3>2
    <2> QED  BY <2>3, <2>4
  <1> HIDE DEF oneDash, atMost, start, end, order
  <1>3. /\ IsErr(a) <=> ~oneDash
        /\ IsErr(b) <=> ~atMost
        /\ IsErr(c) <=> ~start
        /\ IsErr(d) <=> ~end
        /\ IsErr(e) <=> ~order
    BY Verdicts DEF Require
  <1> HIDE DEF a, b, c, d, e
  <1>4. IsErr(refused) <=> IsErr(a) \/ IsErr(b) \/ IsErr(c) \/ IsErr(d) \/ IsErr(e)
    BY Chain5Iff
  <1> HIDE DEF refused
  <1> QED  BY <1>1, <1>2, <1>3, <1>4

\* A list has as many different items as places exactly if no two places have the same.
LEMMA DistinctIff ==
    ASSUME NEW n \in Nat, NEW g, g = [i \in 1..n |-> g[i]]
    PROVE  /\ Cardinality({g[i] : i \in 1..n}) = n <=> \A i, j \in 1..n : g[i] = g[j] => i = j
           /\ (\A i, j \in 1..n : g[i] = g[j] => i = j)
                <=> \A i \in 1..n : \A j \in 1..(i - 1) : g[j] # g[i]
  <1> DEFINE T == {g[i] : i \in 1..n}
  <1>1. g \in Surjection(1..n, T)
    BY DEF Surjection
  <1>2. IsFiniteSet(1..n) /\ Cardinality(1..n) = n
    BY FS_Interval
  <1>3. Cardinality(T) = n <=> g \in Injection(1..n, T)
    BY <1>1, <1>2, FS_Surjection
  <1>4. g \in Injection(1..n, T) <=> \A i, j \in 1..n : g[i] = g[j] => i = j
    BY <1>1 DEF Surjection, Injection, IsInjective
  <1>5. ASSUME \A i \in 1..n : \A j \in 1..(i - 1) : g[j] # g[i],
               NEW i \in 1..n, NEW j \in 1..n, g[i] = g[j]
        PROVE  i = j
    <2>1. i < j \/ i = j \/ j < i
      OBVIOUS
    <2>2. i < j => i \in 1..(j - 1)
      OBVIOUS
    <2>3. j < i => j \in 1..(i - 1)
      OBVIOUS
    <2> QED  BY <1>5, <2>1, <2>2, <2>3
  <1>6. ASSUME \A i, j \in 1..n : g[i] = g[j] => i = j, NEW i \in 1..n, NEW j \in 1..(i - 1)
        PROVE  g[j] # g[i]
    <2>1. j \in 1..n /\ j # i
      OBVIOUS
    <2> QED  BY <1>6, <2>1
  <1> QED  BY <1>3, <1>4, <1>5, <1>6

LEMMA AtMostOne ==
    ASSUME NEW S, IsFiniteSet(S)
    PROVE  Cardinality(S) <= 1 <=> \A x, y \in S : x = y
  <1>1. Cardinality(S) \in Nat
    BY FS_CardinalityType
  <1>2. CASE S = {}
    BY <1>2, FS_EmptySet
  <1>3. CASE S # {}
    <2>1. Cardinality(S) # 0
      BY <1>3, FS_EmptySet
    <2>2. Cardinality(S) <= 1 <=> Cardinality(S) = 1
      BY <1>1, <2>1
    <2>3. Cardinality(S) = 1 <=> \E x : S = {x}
      BY FS_Singleton
    <2>4. (\E x : S = {x}) <=> \A x, y \in S : x = y
      BY <1>3
    <2> QED  BY <2>2, <2>3, <2>4
  <1> QED  BY <1>2, <1>3

\* The ranges of validate_ranges, once their texts are well-formed.
AreRanges(rs) ==
    /\ \E n \in Nat : DOMAIN rs = 1..n
    /\ \A i \in DOMAIN rs : /\ rs[i].start \in Addresses /\ rs[i].end \in Addresses
                            /\ rs[i].start <= rs[i].end

LEMMA RangeFacts ==
    ASSUME NEW rs, AreRanges(rs)
    PROVE  /\ DOMAIN rs \subseteq Nat /\ IsFiniteSet(DOMAIN rs)
           /\ \A i \in DOMAIN rs : /\ rs[i].start \in Addresses /\ rs[i].start \in Nat
                                   /\ rs[i].end \in Nat /\ rs[i].start <= rs[i].end
  <1>1. PICK n \in Nat : DOMAIN rs = 1..n
    BY DEF AreRanges
  <1>2. IsFiniteSet(1..n) /\ 1..n \subseteq Nat
    BY FS_Interval
  <1>3. \A i \in DOMAIN rs : /\ rs[i].start \in Addresses /\ rs[i].end \in Addresses
                             /\ rs[i].start <= rs[i].end
    BY DEF AreRanges
  <1> QED  BY <1>1, <1>2, <1>3, AddressesAreNumbers

LEMMA SortIsTotal ==
    ASSUME NEW rs, AreRanges(rs), NEW i \in DOMAIN rs, NEW j \in DOMAIN rs
    PROVE  /\ i = j \/ SortedBefore(rs, i, j) \/ SortedBefore(rs, j, i)
           /\ SortedBefore(rs, i, j) => i # j /\ rs[i].start <= rs[j].start
  <1>1. i \in Nat /\ j \in Nat /\ rs[i].start \in Nat /\ rs[j].start \in Nat
    BY RangeFacts
  <1> QED  BY <1>1 DEF SortedBefore

\* Whatever is sorted after i has a first.
LEMMA SortHasFirst ==
    ASSUME NEW rs, AreRanges(rs), NEW i \in DOMAIN rs, NEW j \in DOMAIN rs, SortedBefore(rs, i, j)
    PROVE  \E k \in DOMAIN rs : /\ Consecutive(rs, i, k)
                                /\ k = j \/ SortedBefore(rs, k, j)
  <1> DEFINE K == {k \in DOMAIN rs : SortedBefore(rs, i, k)}
             B == {rs[k].start : k \in K}
  <1>0. DOMAIN rs \subseteq Nat /\ \A k \in DOMAIN rs : rs[k].start \in Nat
    BY RangeFacts
  <1>1. B \subseteq Nat /\ B # {} /\ j \in K
    <2>1. j \in K
      OBVIOUS
    <2> QED  BY <1>0, <2>1
  <1>2. PICK b \in B : \A c \in B : b <= c
    BY <1>1, LeastNat
  <1> DEFINE M == {k \in K : rs[k].start = b}
  <1>3. M \subseteq Nat /\ M # {}
    BY <1>0, <1>2
  <1>4. PICK k \in M : \A c \in M : k <= c
    BY <1>3, LeastNat
  <1>5. ASSUME NEW c \in K, SortedBefore(rs, c, k)  PROVE FALSE
    <2>1. rs[c].start \in Nat /\ rs[k].start = b /\ b <= rs[c].start /\ c \in Nat /\ k \in Nat /\ b \in Nat
      BY <1>0, <1>1, <1>2, <1>4
    <2>2. rs[c].start = b /\ c < k
      BY <1>5, <2>1 DEF SortedBefore
    <2>3. c \in M
      BY <2>2
    <2> QED  BY <1>4, <2>1, <2>2, <2>3
  <1>6. k \in DOMAIN rs /\ Consecutive(rs, i, k)
    BY <1>4, <1>5 DEF Consecutive
  <1>7. k = j \/ SortedBefore(rs, k, j)
    BY <1>1, <1>5, <1>6, SortIsTotal
  <1> QED  BY <1>6, <1>7

Holding(rs, a) == {i \in DOMAIN rs : a \in rs[i].start .. rs[i].end}

\* Comparing neighbours in the sorted list is enough: no address is in two ranges.
LEMMA NoOverlapIff ==
    ASSUME NEW rs, AreRanges(rs)
    PROVE  NoOverlap(rs) <=> \A a \in Addresses : Cardinality(Holding(rs, a)) <= 1
  <1>0. /\ \A i \in DOMAIN rs : /\ rs[i].start \in Addresses /\ rs[i].start \in Nat
                                /\ rs[i].end \in Nat /\ rs[i].start <= rs[i].end
        /\ IsFiniteSet(DOMAIN rs) /\ Addresses \subseteq Nat
    BY RangeFacts, AddressesAreNumbers
  <1>1. ASSUME NEW a \in Addresses
        PROVE  Cardinality(Holding(rs, a)) <= 1 <=> \A x, y \in Holding(rs, a) : x = y
    <2>1. IsFiniteSet(Holding(rs, a))
      BY <1>0, FS_Subset DEF Holding
    <2> QED  BY <2>1, AtMostOne
  <1>2. ASSUME NoOverlap(rs), NEW a \in Addresses, NEW x \in Holding(rs, a), NEW y \in Holding(rs, a),
               SortedBefore(rs, x, y)
        PROVE  FALSE
    <2>1. /\ x \in DOMAIN rs /\ y \in DOMAIN rs /\ a \in Nat
          /\ a <= rs[x].end /\ rs[y].start <= a
      BY <1>0, <1>2 DEF Holding
    <2>2. PICK k \in DOMAIN rs : Consecutive(rs, x, k) /\ (k = y \/ SortedBefore(rs, k, y))
      BY <1>2, <2>1, SortHasFirst
    <2>3. rs[k].start > rs[x].end
      BY <1>2, <2>1, <2>2 DEF NoOverlap
    <2>4. rs[k].start <= rs[y].start
      BY <1>0, <2>1, <2>2, SortIsTotal
    <2> QED  BY <1>0, <2>1, <2>2, <2>3, <2>4
  <1>3. ASSUME NoOverlap(rs), NEW a \in Addresses, NEW x \in Holding(rs, a), NEW y \in Holding(rs, a)
        PROVE  x = y
    <2>1. x \in DOMAIN rs /\ y \in DOMAIN rs
      BY DEF Holding
    <2> QED  BY <1>2, <1>3, <2>1, SortIsTotal
  <1>4. ASSUME \A a \in Addresses : \A x, y \in Holding(rs, a) : x = y,
               NEW i \in DOMAIN rs, NEW j \in DOMAIN rs, Consecutive(rs, i, j)
        PROVE  rs[j].start > rs[i].end
    <2>1. i # j /\ rs[i].start <= rs[j].start
      BY <1>4, SortIsTotal DEF Consecutive
    <2>2. SUFFICES ASSUME rs[j].start <= rs[i].end  PROVE FALSE
      BY <1>0
    <2>3. i \in Holding(rs, rs[j].start) /\ j \in Holding(rs, rs[j].start)
      BY <1>0, <2>1, <2>2 DEF Holding
    <2> QED  BY <1>0, <1>4, <2>1, <2>3
  <1> QED  BY <1>1, <1>3, <1>4 DEF NoOverlap

LEMMA ListFacts ==
    ASSUME NEW s, IsList(s)
    PROVE  /\ Len(s) \in Nat /\ DOMAIN s = 1..Len(s)
           /\ s = [i \in 1..Len(s) |-> s[i]]
           /\ s = <<>> <=> Len(s) = 0
  BY DEF IsList

NameOK(es, i) ==
    /\ es[i].name \notin BlankNames \cup {IPV6_RANGE_NAME}
    /\ \A j \in 1..(i - 1) : es[j].name # es[i].name

RangesOf(es) ==
    [i \in DOMAIN es |-> [name |-> es[i].name, start |-> es[i].range[1], end |-> es[i].range[2]]]

LEMMA CheckEntryIff ==
    ASSUME NEW es, NEW i \in DOMAIN es, es[i].range \in Seq(Addresses \cup {Bad}),
           es[i].range # <<>>
    PROVE  IsErr(CheckEntry(es, i)) <=> ~(NameOK(es, i) /\ WellFormedText(es[i].range))
  <1> DEFINE notBlank == es[i].name \notin BlankNames
             notReserved == es[i].name # IPV6_RANGE_NAME
             new == \A j \in 1..(i - 1) : es[j].name # es[i].name
             a == Require(notBlank, "blank name")
             b == Require(notReserved, "reserved name")
             c == Require(new, "name used twice")
             d == parse_range(es[i].range)
  <1>1. CheckEntry(es, i) = FirstError(<<a, b, c, d>>)
    BY DEF CheckEntry
  <1>2. NameOK(es, i) <=> notBlank /\ notReserved /\ new
    BY DEF NameOK
  <1>3. IsErr(d) <=> ~WellFormedText(es[i].range)
    BY ParseRangeIff
  <1> HIDE DEF notBlank, notReserved, new
  <1>4. (IsErr(a) <=> ~notBlank) /\ (IsErr(b) <=> ~notReserved) /\ (IsErr(c) <=> ~new)
    BY Verdicts DEF Require
  <1> HIDE DEF a, b, c, d
  <1>5. IsErr(FirstError(<<a, b, c, d>>)) <=> IsErr(a) \/ IsErr(b) \/ IsErr(c) \/ IsErr(d)
    BY Chain4Iff
  <1> QED  BY <1>1, <1>2, <1>3, <1>4, <1>5

\* The list of ranges is accepted, and becomes RangesOf, if every entry is good and no
\* two ranges overlap.
LEMMA ValidateRangesIff ==
    ASSUME NEW es, IsList(es),
           \A i \in DOMAIN es : es[i].range \in Seq(Addresses \cup {Bad}) /\ es[i].range # <<>>
    PROVE  /\ IsErr(validate_ranges(es)) <=>
                ~ (/\ es # <<>>
                   /\ \A i \in DOMAIN es : NameOK(es, i) /\ WellFormedText(es[i].range)
                   /\ NoOverlap(RangesOf(es)))
           /\ ~IsErr(validate_ranges(es)) => validate_ranges(es).ok = RangesOf(es)
  <1> DEFINE checks == [i \in DOMAIN es |-> CheckEntry(es, i)]
             refused == FirstError(checks)
             good == \A i \in DOMAIN es : NameOK(es, i) /\ WellFormedText(es[i].range)
             apart == NoOverlap(RangesOf(es))
  <1>1. validate_ranges(es) = IF es = <<>> THEN Error("no ranges")
                              ELSE IF IsErr(refused) THEN refused
                              ELSE IF apart THEN Ok(RangesOf(es)) ELSE Error("overlap")
    BY DEF validate_ranges, RangesOf
  <1>2. DOMAIN checks = DOMAIN es /\ DOMAIN es \subseteq Nat
        /\ \A i \in DOMAIN es : checks[i] = CheckEntry(es, i)
    BY ListFacts
  <1>3. \A i \in DOMAIN es : IsErr(CheckEntry(es, i)) <=> ~(NameOK(es, i) /\ WellFormedText(es[i].range))
    BY CheckEntryIff
  <1> HIDE DEF checks
  <1>4. IsErr(refused) <=> \E i \in DOMAIN checks : IsErr(checks[i])
    BY <1>2, ChainIff
  <1>5. IsErr(refused) <=> ~good
    BY <1>2, <1>3, <1>4
  <1> HIDE DEF refused, good, apart
  <1>6. IsErr(validate_ranges(es)) <=> ~(es # <<>> /\ good /\ apart)
    BY <1>1, <1>5, Verdicts
  <1>7. ~IsErr(validate_ranges(es)) => validate_ranges(es).ok = RangesOf(es)
    BY <1>1, <1>5, <1>6, Verdicts
  <1> QED  BY <1>6, <1>7 DEF good, apart

\* The same for what WellFormed says of a list of ranges.
LEMMA RangesWellFormed ==
    ASSUME NEW es, IsList(es),
           \A i \in DOMAIN es : es[i].range \in Seq(Addresses \cup {Bad}) /\ es[i].range # <<>>,
           NEW n, n = Len(es)
    PROVE  (/\ es # <<>>
            /\ \A i \in DOMAIN es : NameOK(es, i) /\ WellFormedText(es[i].range)
            /\ NoOverlap(RangesOf(es)))
           <=> LET names == {es[i].name : i \in 1..n}
                   texts == {es[i].range : i \in 1..n}
               IN  /\ n > 0
                   /\ Cardinality(names) = n /\ names \cap (BlankNames \cup {IPV6_RANGE_NAME}) = {}
                   /\ \A t \in texts : Len(t) = 2 /\ Bad \notin {t[1], t[2]}
                   /\ \A t \in texts : t[1] <= t[2]
                   /\ \A a \in Addresses :
                         Cardinality({i \in 1..n : a \in es[i].range[1] .. es[i].range[2]}) <= 1
  <1> DEFINE names == {es[i].name : i \in 1..n}
             texts == {es[i].range : i \in 1..n}
             distinct == \A i \in 1..n : \A j \in 1..(i - 1) : es[j].name # es[i].name
             proper == \A i \in 1..n : es[i].name \notin BlankNames \cup {IPV6_RANGE_NAME}
             good == \A i \in 1..n : WellFormedText(es[i].range)
             apart == \A a \in Addresses :
                        Cardinality({i \in 1..n : a \in es[i].range[1] .. es[i].range[2]}) <= 1
  <1>1. n \in Nat /\ DOMAIN es = 1..n /\ (es = <<>> <=> n = 0)
    BY ListFacts
  <1>2. es # <<>> <=> n > 0
    BY <1>1
  <1>3. (\A i \in DOMAIN es : NameOK(es, i) /\ WellFormedText(es[i].range))
          <=> distinct /\ proper /\ good
    BY <1>1 DEF NameOK
  <1>4. distinct <=> Cardinality(names) = n
    <2> DEFINE g == [i \in 1..n |-> es[i].name]
    <2>1. g = [i \in 1..n |-> g[i]] /\ {g[i] : i \in 1..n} = names
      OBVIOUS
    <2>2. distinct <=> \A i \in 1..n : \A j \in 1..(i - 1) : g[j] # g[i]
      <3>1. \A i \in 1..n : \A j \in 1..(i - 1) : j \in 1..n
        BY <1>1
      <3> QED  BY <3>1
    <2> HIDE DEF g, names, distinct
    <2>3. /\ Cardinality({g[i] : i \in 1..n}) = n <=> \A i, j \in 1..n : g[i] = g[j] => i = j
          /\ (\A i, j \in 1..n : g[i] = g[j] => i = j)
                <=> \A i \in 1..n : \A j \in 1..(i - 1) : g[j] # g[i]
      <3>1. n \in Nat /\ g = [i \in 1..n |-> g[i]]
        BY <1>1, <2>1
      <3> QED  BY <3>1, DistinctIff, ZenonT(40)
    <2> QED  BY <2>1, <2>2, <2>3
  <1>5. proper <=> names \cap (BlankNames \cup {IPV6_RANGE_NAME}) = {}
    OBVIOUS
  <1>6. good <=> /\ \A t \in texts : Len(t) = 2 /\ Bad \notin {t[1], t[2]}
                 /\ \A t \in texts : t[1] <= t[2]
    BY DEF WellFormedText
  <1>7. good => (NoOverlap(RangesOf(es)) <=> apart)
    <2> DEFINE rs == RangesOf(es)
    <2>1. SUFFICES ASSUME good  PROVE NoOverlap(rs) <=> apart
      OBVIOUS
    <2>2. /\ DOMAIN rs = 1..n
          /\ \A i \in 1..n : rs[i].start = es[i].range[1] /\ rs[i].end = es[i].range[2]
      BY <1>1 DEF RangesOf
    <2>3. ASSUME NEW i \in 1..n
          PROVE  /\ rs[i].start \in Addresses /\ rs[i].end \in Addresses
                 /\ rs[i].start <= rs[i].end
      <3> DEFINE t == es[i].range
      <3>1. t \in Seq(Addresses \cup {Bad}) /\ WellFormedText(t)
        BY <1>1, <2>1
      <3> HIDE DEF t
      <3>2. t[1] \in Addresses \cup {Bad} /\ t[2] \in Addresses \cup {Bad}
        <4>1. Len(t) = 2
          BY <3>1 DEF WellFormedText
        <4>2. \A k \in 1..Len(t) : t[k] \in Addresses \cup {Bad}
          BY <3>1
        <4> QED  BY <4>1, <4>2
      <3>3. t[1] \in Addresses /\ t[2] \in Addresses /\ t[1] <= t[2]
        BY <3>1, <3>2 DEF WellFormedText
      <3> QED  BY <2>2, <3>3 DEF t
    <2>4. \A a \in Addresses : Holding(rs, a) = {i \in 1..n : a \in es[i].range[1] .. es[i].range[2]}
      BY <2>2 DEF Holding
    <2> HIDE DEF rs
    <2>5. AreRanges(rs)
      BY <1>1, <2>2, <2>3 DEF AreRanges
    <2>6. NoOverlap(rs) <=> \A a \in Addresses : Cardinality(Holding(rs, a)) <= 1
      BY <2>5, NoOverlapIff
    <2> QED  BY <2>4, <2>6
  <1> HIDE DEF distinct, proper, good, apart
  <1> QED  BY <1>2, <1>3, <1>4, <1>5, <1>6, <1>7 DEF apart

-----------------------------------------------------------------------------
(* Policies of ranges and overrides *)

IsRange(e) ==
    /\ e.range # <<>> /\ e.range \in Seq(Addresses \cup {Bad})
    /\ e.policy = Absent \/ IsEntry(e.policy)
    /\ IsList(e.overrides)
    /\ \A k \in DOMAIN e.overrides :
         e.overrides[k].ip \in Addresses \cup {Bad} /\ IsEntry(e.overrides[k].policy)

PolicyOf(e) == IF e.policy = Absent THEN NoFields ELSE Parsed(e.policy)

LegalOrAbsent(e) == e.policy # Absent => Legal(e.policy)

LEMMA IsEmptyIff ==
    ASSUME NEW entry, IsEntry(entry)
    PROVE  /\ is_empty(entry) <=> entry = NoFields
           /\ is_empty(entry) => Legal(entry) /\ Parsed(entry) = NoFields
  <1>1. entry = [f \in Fields |-> entry[f]]
    BY DEF IsEntry
  <1>2. is_empty(entry) <=> entry = NoFields
    BY <1>1 DEF is_empty, NoFields
  <1>3. is_empty(entry) => Legal(entry)
    BY DEF is_empty, Legal
  <1>4. is_empty(entry) => Parsed(entry) = NoFields
    BY ParsedFields DEF is_empty, NoFields
  <1> QED  BY <1>2, <1>3, <1>4

LEMMA RangePolicyIff ==
    ASSUME NEW e, IsRange(e)
    PROVE  /\ IsErr(RangePolicy(e)) <=> ~LegalOrAbsent(e)
           /\ ~IsErr(RangePolicy(e)) => RangePolicy(e).ok = PolicyOf(e)
           /\ LegalOrAbsent(e) => LegalFields(PolicyOf(e))
  <1>1. CASE e.policy = Absent
    BY <1>1, Verdicts, NoFieldsIsLegal DEF RangePolicy, PolicyOf, LegalOrAbsent
  <1>2. CASE e.policy # Absent
    <2>1. IsEntry(e.policy)
      BY <1>2 DEF IsRange
    <2>2. PolicyOf(e) = Parsed(e.policy) /\ (LegalOrAbsent(e) <=> Legal(e.policy))
      BY <1>2 DEF PolicyOf, LegalOrAbsent
    <2>3. /\ IsErr(CheckedFields(e.policy)) <=> ~Legal(e.policy)
          /\ Legal(e.policy) => /\ CheckedFields(e.policy).ok = Parsed(e.policy)
                                /\ LegalFields(Parsed(e.policy))
      BY <2>1, CheckedIff
    <2>4. CASE is_empty(e.policy)
      <3>1. RangePolicy(e) = Ok(NoFields)
        BY <1>2, <2>4 DEF RangePolicy
      <3>2. Legal(e.policy) /\ Parsed(e.policy) = NoFields
        BY <2>1, <2>4, IsEmptyIff
      <3> QED  BY <2>2, <2>3, <3>1, <3>2, Verdicts
    <2>5. CASE ~is_empty(e.policy)
      <3>1. RangePolicy(e) = CheckedFields(e.policy)
        BY <1>2, <2>5 DEF RangePolicy
      <3> QED  BY <2>2, <2>3, <3>1
    <2> QED  BY <2>4, <2>5
  <1> QED  BY <1>1, <1>2

DistinctIps(e) ==
    \A i, j \in DOMAIN e.overrides : e.overrides[i].ip = e.overrides[j].ip => i = j

BaseText(e, f) == IF e.policy = Absent THEN Absent ELSE e.policy[f]

\* The text that governs the address of an override, and any other.
LEMMA GoverningIs ==
    ASSUME NEW e, IsRange(e), DistinctIps(e), NEW f \in Fields
    PROVE  /\ Governing(e, NowhereGoverned)[f] = BaseText(e, f)
           /\ \A i \in DOMAIN e.overrides :
                LET t == e.overrides[i].policy[f] IN
                Governing(e, e.overrides[i].ip)[f] = IF t # Absent THEN t ELSE BaseText(e, f)
  <1> DEFINE own(a) == {e.overrides[i].policy[f] :
                          i \in {k \in DOMAIN e.overrides : e.overrides[k].ip = a}} \ {Absent}
  <1>1. \A a : Governing(e, a)[f] = IF own(a) # {} THEN CHOOSE t \in own(a) : TRUE
                                    ELSE BaseText(e, f)
    BY DEF Governing, BaseText
  <1>2. own(NowhereGoverned) = {}
    <2>1. NowhereGoverned \notin Addresses \cup {Bad}
      BY AddressesAreNumbers, SentinelsDiffer DEF NowhereGoverned
    <2> QED  BY <2>1 DEF IsRange
  <1>3. ASSUME NEW i \in DOMAIN e.overrides
        PROVE  own(e.overrides[i].ip) = {e.overrides[i].policy[f]} \ {Absent}
    <2>1. {k \in DOMAIN e.overrides : e.overrides[k].ip = e.overrides[i].ip} = {i}
      BY DEF DistinctIps
    <2> QED  BY <2>1
  <1>4. \A t : t # Absent => (CHOOSE x \in {t} \ {Absent} : TRUE) = t
    OBVIOUS
  <1>5. ASSUME NEW i \in DOMAIN e.overrides, NEW t, t = e.overrides[i].policy[f]
        PROVE  Governing(e, e.overrides[i].ip)[f] = IF t # Absent THEN t ELSE BaseText(e, f)
    <2>1. own(e.overrides[i].ip) = {t} \ {Absent}
      BY <1>3, <1>5
    <2>2. Governing(e, e.overrides[i].ip)[f] =
            IF {t} \ {Absent} # {} THEN CHOOSE x \in {t} \ {Absent} : TRUE ELSE BaseText(e, f)
      BY <1>1, <2>1
    <2> HIDE DEF own
    <2> QED  BY <1>4, <2>2
  <1> HIDE DEF own
  <1> QED  BY <1>1, <1>2, <1>5

\* Parsing keeps the shape of a text, and so does merging.
LEMMA PolicyShape ==
    ASSUME NEW e, IsRange(e), LegalOrAbsent(e), NEW f \in Fields
    PROVE  /\ PolicyOf(e)[f] = Absent <=> BaseText(e, f) = Absent
           /\ f = "algorithm" => PolicyOf(e)[f] = BaseText(e, f)
  <1>1. CASE e.policy = Absent
    BY <1>1, NoFieldsIsLegal DEF PolicyOf, BaseText
  <1>2. CASE e.policy # Absent
    <2>1. IsEntry(e.policy) /\ PolicyOf(e) = Parsed(e.policy) /\ BaseText(e, f) = e.policy[f]
      BY <1>2 DEF IsRange, PolicyOf, BaseText
    <2>2. Parsed(e.policy)[f] # Bad
      BY <1>2, <2>1, ParsedFields, SentinelsDiffer DEF LegalOrAbsent, Legal
    <2> QED  BY <2>1, <2>2, ParsedFields
  <1> QED  BY <1>1, <1>2

LEMMA RangeIsComplete ==
    ASSUME NEW e, IsRange(e), LegalOrAbsent(e), DistinctIps(e), NEW swl
    PROVE  Complete(merged_with(PolicyOf(e), NoFields), swl)
             <=> CompleteOrAbsent(Governing(e, NowhereGoverned), swl)
  <1> DEFINE m == merged_with(PolicyOf(e), NoFields)
             t == Governing(e, NowhereGoverned)
  <1>1. \A f \in Fields : m[f] = PolicyOf(e)[f] /\ t[f] = BaseText(e, f)
    BY MergedIs, NoFieldsIsLegal, GoverningIs
  <1>2. \A f \in Fields : m[f] = Absent <=> t[f] = Absent
    BY <1>1, PolicyShape
  <1>3. m["algorithm"] = t["algorithm"]
    BY <1>1, PolicyShape DEF Fields
  <1> HIDE DEF m, t
  <1>4. Complete(m, swl) <=> Complete(t, swl)
    BY <1>2, <1>3, CompleteIsShape
  <1> QED  BY <1>4, CompleteMeans DEF m, t

LEMMA OverrideIsComplete ==
    ASSUME NEW e, IsRange(e), LegalOrAbsent(e), DistinctIps(e), NEW swl,
           NEW i \in DOMAIN e.overrides, NEW ov, ov = e.overrides[i], Legal(ov.policy)
    PROVE  Complete(merged_with(PolicyOf(e), Parsed(ov.policy)), swl)
             <=> CompleteOrAbsent(Governing(e, ov.ip), swl)
  <1> DEFINE q == Parsed(ov.policy)
             m == merged_with(PolicyOf(e), q)
             t == Governing(e, ov.ip)
  <1>1. IsEntry(ov.policy)
    BY DEF IsRange
  <1>2. \A f \in Fields : (q[f] = Absent <=> ov.policy[f] = Absent) /\ q[f] # Bad
    BY <1>1, ParsedFields, SentinelsDiffer DEF Legal
  <1>3. \A f \in Fields : m[f] = IF q[f] # Absent THEN q[f] ELSE PolicyOf(e)[f]
    BY MergedIs
  <1>4. \A f \in Fields : t[f] = IF ov.policy[f] # Absent THEN ov.policy[f] ELSE BaseText(e, f)
    BY GoverningIs
  <1>5. q["algorithm"] = ov.policy["algorithm"] /\ "algorithm" \in Fields
    <2>1. "algorithm" \in Fields
      BY DEF Fields
    <2> QED  BY <1>1, <1>2, <2>1, ParsedFields
  <1> HIDE DEF q, m, t
  <1>6. \A f \in Fields : m[f] = Absent <=> t[f] = Absent
    BY <1>2, <1>3, <1>4, PolicyShape
  <1>7. m["algorithm"] = t["algorithm"]
    BY <1>2, <1>3, <1>4, <1>5, PolicyShape
  <1>8. Complete(m, swl) <=> Complete(t, swl)
    BY <1>6, <1>7, CompleteIsShape
  <1> QED  BY <1>8, CompleteMeans DEF m, t, q

PlacedIn(e, r, i) ==
    LET ov == e.overrides[i] IN ov.ip \in r.start .. r.end /\ ov.policy # NoFields

OverrideOK(e, r, swl, i) ==
    LET ov == e.overrides[i] IN
    /\ PlacedIn(e, r, i) /\ Legal(ov.policy)
    /\ Complete(merged_with(PolicyOf(e), Parsed(ov.policy)), swl)
    /\ \A j \in 1..(i - 1) : e.overrides[j].ip # ov.ip

LEMMA CheckOverrideIff ==
    ASSUME NEW e, IsRange(e), LegalOrAbsent(e), NEW r, NEW swl \in BOOLEAN,
           NEW i \in DOMAIN e.overrides
    PROVE  IsErr(CheckOverride(e, r, PolicyOf(e), swl, i)) <=> ~OverrideOK(e, r, swl, i)
  <1> DEFINE ov == e.overrides[i]
             known == ov.ip # Bad
             inside == known => contains(r, ov.ip)
             some == ~is_empty(ov.policy)
             new == \A j \in 1..(i - 1) : e.overrides[j].ip # ov.ip
             a == Require(known, "override ip")
             b == Require(inside, "override outside")
             c == Require(some, "override empty")
             g == Require(new, "override twice")
             placed == FirstError(<<a, b, c>>)
             fields == CheckedFields(ov.policy)
             res == CheckResolved(PolicyOf(e), fields.ok, swl)
             last == FirstError(<<res, g>>)
             check == CheckOverride(e, r, PolicyOf(e), swl, i)
  <1>1. IsEntry(ov.policy)
    BY DEF IsRange
  <1>2. check = IF IsErr(placed) THEN placed ELSE IF IsErr(fields) THEN fields ELSE last
    BY DEF CheckOverride
  <1>3. known /\ inside /\ some <=> PlacedIn(e, r, i)
    <2>1. ov.ip \in r.start .. r.end => ov.ip # Bad
      BY SentinelsDiffer
    <2>2. some <=> ov.policy # NoFields
      BY <1>1, IsEmptyIff
    <2> HIDE DEF some
    <2> QED  BY <2>1, <2>2 DEF PlacedIn, contains
  <1>4. IsErr(fields) <=> ~Legal(ov.policy)
    BY <1>1, CheckedIff
  <1>5. ~IsErr(fields) => (IsErr(res) <=> ~Complete(merged_with(PolicyOf(e), Parsed(ov.policy)), swl))
    <2>1. SUFFICES ASSUME Legal(ov.policy)
                   PROVE  IsErr(res) <=> ~Complete(merged_with(PolicyOf(e), Parsed(ov.policy)), swl)
      BY <1>4
    <2>2. fields.ok = Parsed(ov.policy) /\ LegalFields(Parsed(ov.policy))
      BY <1>1, <2>1, CheckedIff
    <2>3. LegalFields(PolicyOf(e))
      BY RangePolicyIff
    <2> DEFINE q == Parsed(ov.policy)
    <2> HIDE DEF q
    <2>4. IsErr(CheckResolved(PolicyOf(e), q, swl)) <=> ~Complete(merged_with(PolicyOf(e), q), swl)
      BY <2>2, <2>3, CheckResolvedIff DEF q
    <2> QED  BY <2>2, <2>4 DEF q
  <1>6. OverrideOK(e, r, swl, i) <=>
          /\ PlacedIn(e, r, i) /\ Legal(ov.policy)
          /\ Complete(merged_with(PolicyOf(e), Parsed(ov.policy)), swl) /\ new
    BY DEF OverrideOK
  <1> HIDE DEF known, inside, some, new, fields, res, check
  <1>7. (IsErr(a) <=> ~known) /\ (IsErr(b) <=> ~inside) /\ (IsErr(c) <=> ~some)
        /\ (IsErr(g) <=> ~new)
    BY Verdicts DEF Require
  <1> HIDE DEF a, b, c, g
  <1>8. /\ IsErr(placed) <=> IsErr(a) \/ IsErr(b) \/ IsErr(c)
        /\ IsErr(last) <=> IsErr(res) \/ IsErr(g)
    BY Chain2Iff, Chain3Iff
  <1> HIDE DEF placed, last, ov
  <1>9. IsErr(check) <=> IsErr(placed) \/ IsErr(fields) \/ IsErr(last)
    BY <1>2
  <1> QED  BY <1>3, <1>4, <1>5, <1>6, <1>7, <1>8, <1>9 DEF check, ov

\* What a range that is accepted becomes.
Validated(e, r) ==
    [inner |-> r, policy |-> PolicyOf(e),
     overrides |->
       [ip \in {e.overrides[i].ip : i \in DOMAIN e.overrides} |->
          Parsed(e.overrides[CHOOSE k \in DOMAIN e.overrides : e.overrides[k].ip = ip].policy)]]

RangeOK(e, r, swl) ==
    /\ LegalOrAbsent(e)
    /\ Complete(merged_with(PolicyOf(e), NoFields), swl)
    /\ \A i \in DOMAIN e.overrides : OverrideOK(e, r, swl, i)

LEMMA CheckRangeIff ==
    ASSUME NEW e, IsRange(e), NEW r, NEW swl \in BOOLEAN
    PROVE  /\ IsErr(CheckRange(e, r, swl)) <=> ~RangeOK(e, r, swl)
           /\ ~IsErr(CheckRange(e, r, swl)) => CheckRange(e, r, swl).ok = Validated(e, r)
  <1> DEFINE pol == RangePolicy(e)
             n == Len(e.overrides)
             first == CheckResolved(pol.ok, NoFields, swl)
             rest == [i \in DOMAIN e.overrides |-> CheckOverride(e, r, pol.ok, swl, i)]
             refused == FirstError(<<first>> \o rest)
             vr == [inner |-> r, policy |-> pol.ok,
                    overrides |->
                      [ip \in {e.overrides[i].ip : i \in DOMAIN e.overrides} |->
                         LET i == CHOOSE k \in DOMAIN e.overrides : e.overrides[k].ip = ip
                         IN  into_fields(e.overrides[i].policy).ok]]
             check == CheckRange(e, r, swl)
  <1>1. check = IF IsErr(pol) THEN pol ELSE IF IsErr(refused) THEN refused ELSE Ok(vr)
    BY DEF CheckRange
  <1>2. CASE ~LegalOrAbsent(e)
    <2>1. IsErr(pol)
      BY <1>2, RangePolicyIff
    <2> HIDE DEF pol, check, refused, vr
    <2>2. IsErr(check)
      BY <1>1, <2>1
    <2> QED  BY <1>2, <2>2 DEF RangeOK, check
  <1>3. CASE LegalOrAbsent(e)
    <2>1. ~IsErr(pol) /\ pol.ok = PolicyOf(e) /\ LegalFields(PolicyOf(e))
      BY <1>3, RangePolicyIff
    <2>2. IsErr(first) <=> ~Complete(merged_with(PolicyOf(e), NoFields), swl)
      BY <2>1, NoFieldsIsLegal, CheckResolvedIff
    <2>3. IsList(e.overrides)
      BY DEF IsRange
    <2>4. n \in Nat /\ DOMAIN e.overrides = 1..n
      BY <2>3, ListFacts
    <2>5. rest = [i \in 1..n |-> rest[i]] /\ \A i \in 1..n : rest[i] = CheckOverride(e, r, PolicyOf(e), swl, i)
      BY <2>1, <2>4
    <2>6. \A i \in 1..n : IsErr(rest[i]) <=> ~OverrideOK(e, r, swl, i)
      BY <1>3, <2>4, <2>5, CheckOverrideIff
    <2> HIDE DEF rest, first, n
    <2>7. IsErr(refused) <=> IsErr(first) \/ \E i \in 1..n : IsErr(rest[i])
      BY <2>4, <2>5, ChainListIff
    <2> HIDE DEF refused, pol, vr, check
    <2>8. IsErr(refused) <=> ~RangeOK(e, r, swl)
      BY <1>3, <2>2, <2>4, <2>6, <2>7 DEF RangeOK
    <2>9. check = IF IsErr(refused) THEN refused ELSE Ok(vr)
      BY <1>1, <2>1
    <2>10. IsErr(check) <=> ~RangeOK(e, r, swl)
      BY <2>8, <2>9, Verdicts
    <2>11. ~IsErr(check) => check.ok = vr
      BY <2>8, <2>9, <2>10, Verdicts
    <2>12. ASSUME RangeOK(e, r, swl)  PROVE vr = Validated(e, r)
      <3>1. \A i \in DOMAIN e.overrides :
              into_fields(e.overrides[i].policy).ok = Parsed(e.overrides[i].policy)
        BY <2>12, CheckedIff DEF RangeOK, OverrideOK, IsRange
      <3>2. \A ip \in {e.overrides[i].ip : i \in DOMAIN e.overrides} :
              (CHOOSE k \in DOMAIN e.overrides : e.overrides[k].ip = ip) \in DOMAIN e.overrides
        OBVIOUS
      <3> DEFINE ips == {e.overrides[i].ip : i \in DOMAIN e.overrides}
                 k(ip) == CHOOSE k \in DOMAIN e.overrides : e.overrides[k].ip = ip
                 over == [ip \in ips |-> into_fields(e.overrides[k(ip)].policy).ok]
                 want == [ip \in ips |-> Parsed(e.overrides[k(ip)].policy)]
      <3>3. vr = [inner |-> r, policy |-> pol.ok, overrides |-> over]
        BY DEF vr
      <3>4. Validated(e, r) = [inner |-> r, policy |-> PolicyOf(e), overrides |-> want]
        BY DEF Validated
      <3>5. over = want
        <4>1. \A ip \in ips : k(ip) \in DOMAIN e.overrides
          BY <3>2
        <4> HIDE DEF k, ips
        <4>2. \A ip \in ips : into_fields(e.overrides[k(ip)].policy).ok = Parsed(e.overrides[k(ip)].policy)
          BY <3>1, <4>1
        <4> QED  BY <4>2
      <3> HIDE DEF over, want
      <3> QED  BY <2>1, <3>3, <3>4, <3>5
    <2> QED  BY <2>10, <2>11, <2>12 DEF check
  <1> QED  BY <1>2, <1>3

LEMMA DistinctIpsIff ==
    ASSUME NEW e, IsRange(e)
    PROVE  /\ DistinctIps(e) <=> Cardinality({e.overrides[i].ip : i \in DOMAIN e.overrides}) = Len(e.overrides)
           /\ DistinctIps(e) <=> \A i \in DOMAIN e.overrides :
                                   \A j \in 1..(i - 1) : e.overrides[j].ip # e.overrides[i].ip
  <1> DEFINE n == Len(e.overrides)
             g == [i \in 1..n |-> e.overrides[i].ip]
  <1>1. n \in Nat /\ DOMAIN e.overrides = 1..n
    BY ListFacts DEF IsRange
  <1>2. g = [i \in 1..n |-> g[i]] /\ \A i \in 1..n : g[i] = e.overrides[i].ip
    OBVIOUS
  <1>3. \A i \in 1..n : \A j \in 1..(i - 1) : j \in 1..n
    BY <1>1
  <1> HIDE DEF n, g
  <1>4. /\ Cardinality({g[i] : i \in 1..n}) = n <=> \A i, j \in 1..n : g[i] = g[j] => i = j
        /\ (\A i, j \in 1..n : g[i] = g[j] => i = j)
              <=> \A i \in 1..n : \A j \in 1..(i - 1) : g[j] # g[i]
    BY <1>1, <1>2, DistinctIff
  <1>5. {g[i] : i \in 1..n} = {e.overrides[i].ip : i \in DOMAIN e.overrides}
    BY <1>1, <1>2
  <1>6. DistinctIps(e) <=> \A i, j \in 1..n : g[i] = g[j] => i = j
    BY <1>1, <1>2 DEF DistinctIps
  <1>7. (\A i \in 1..n : \A j \in 1..(i - 1) : g[j] # g[i])
          <=> \A i \in DOMAIN e.overrides :
                \A j \in 1..(i - 1) : e.overrides[j].ip # e.overrides[i].ip
    BY <1>1, <1>2, <1>3
  <1> QED  BY <1>4, <1>5, <1>6, <1>7 DEF n

\* The loop over a range and its overrides accepts what WellFormedRange describes.
LEMMA RangeOKIff ==
    ASSUME NEW e, IsRange(e), NEW r, r.start = e.range[1], r.end = e.range[2], NEW swl
    PROVE  RangeOK(e, r, swl) <=> WellFormedRange(e, swl)
  <1> DEFINE ips == {e.overrides[i].ip : i \in DOMAIN e.overrides}
             legal == \A i \in DOMAIN e.overrides :
                        Legal(e.overrides[i].policy) /\ e.overrides[i].policy # NoFields
             inside == ips \subseteq e.range[1] .. e.range[2]
             complete == \A a \in ips \cup {NowhereGoverned} : CompleteOrAbsent(Governing(e, a), swl)
             base == Complete(merged_with(PolicyOf(e), NoFields), swl)
             over == \A i \in DOMAIN e.overrides :
                       Complete(merged_with(PolicyOf(e), Parsed(e.overrides[i].policy)), swl)
  <1>1. WellFormedRange(e, swl) <=> LegalOrAbsent(e) /\ legal /\ DistinctIps(e) /\ inside /\ complete
    BY DistinctIpsIff DEF WellFormedRange, LegalOrAbsent
  <1>2. RangeOK(e, r, swl) <=> LegalOrAbsent(e) /\ legal /\ DistinctIps(e) /\ inside /\ base /\ over
    <2>1. \A i \in DOMAIN e.overrides : PlacedIn(e, r, i) <=>
            /\ e.overrides[i].ip \in e.range[1] .. e.range[2]
            /\ e.overrides[i].policy # NoFields
      BY DEF PlacedIn
    <2> DEFINE in(i) == e.overrides[i].ip \in e.range[1] .. e.range[2]
    <2>2. inside <=> \A i \in DOMAIN e.overrides : in(i)
      OBVIOUS
    <2>3. \A i \in DOMAIN e.overrides : PlacedIn(e, r, i) <=> in(i) /\ e.overrides[i].policy # NoFields
      BY <2>1
    <2> HIDE DEF inside, in
    <2> QED  BY <2>2, <2>3, DistinctIpsIff DEF RangeOK, OverrideOK
  <1>3. ASSUME LegalOrAbsent(e), legal, DistinctIps(e)
        PROVE  complete <=> base /\ over
    <2>1. base <=> CompleteOrAbsent(Governing(e, NowhereGoverned), swl)
      BY <1>3, RangeIsComplete
    <2>2. ASSUME NEW i \in DOMAIN e.overrides
          PROVE  Complete(merged_with(PolicyOf(e), Parsed(e.overrides[i].policy)), swl)
                   <=> CompleteOrAbsent(Governing(e, e.overrides[i].ip), swl)
      BY <1>3, OverrideIsComplete
    <2>3. over <=> \A i \in DOMAIN e.overrides :
                     CompleteOrAbsent(Governing(e, e.overrides[i].ip), swl)
      BY <2>2
    <2> HIDE DEF base, over
    <2>4. complete <=> /\ CompleteOrAbsent(Governing(e, NowhereGoverned), swl)
                       /\ \A i \in DOMAIN e.overrides :
                            CompleteOrAbsent(Governing(e, e.overrides[i].ip), swl)
      OBVIOUS
    <2> QED  BY <2>1, <2>3, <2>4
  <1> HIDE DEF legal, inside, complete, base, over
  <1> QED  BY <1>1, <1>2, <1>3

-----------------------------------------------------------------------------
(* Documents *)

LEMMA DocumentFacts ==
    ASSUME NEW f, IsDocument(f)
    PROVE  /\ IsList(f.ip_ranges) /\ f.enable_swl \in BOOLEAN
           /\ \A i \in DOMAIN f.ip_ranges : IsRange(f.ip_ranges[i])
  BY DEF IsDocument, IsRange

\* What an accepted document becomes.
Config(f) ==
    [tick_secs |-> f.refresh_interval_ms \div 1000,
     ranges |-> [i \in DOMAIN f.ip_ranges |-> Validated(f.ip_ranges[i], RangesOf(f.ip_ranges)[i])]]

RangesOK(f) ==
    /\ f.ip_ranges # <<>>
    /\ \A i \in DOMAIN f.ip_ranges :
         NameOK(f.ip_ranges, i) /\ WellFormedText(f.ip_ranges[i].range)
    /\ NoOverlap(RangesOf(f.ip_ranges))

DocumentOK(f) ==
    /\ ~IsErr(CheckSettings(f))
    /\ RangesOK(f)
    /\ \A i \in DOMAIN f.ip_ranges :
         RangeOK(f.ip_ranges[i], RangesOf(f.ip_ranges)[i], f.enable_swl)

LEMMA ParseIff ==
    ASSUME NEW f, IsDocument(f)
    PROVE  /\ IsErr(parse(f)) <=> ~DocumentOK(f)
           /\ ~IsErr(parse(f)) => parse(f).ok = Config(f)
  <1> DEFINE es == f.ip_ranges
             settings == CheckSettings(f)
             ranges == validate_ranges(es)
             checked == [i \in DOMAIN es |-> CheckRange(es[i], ranges.ok[i], f.enable_swl)]
             refused == FirstError(checked)
             cfg == [tick_secs |-> f.refresh_interval_ms \div 1000,
                     ranges |-> [i \in DOMAIN checked |-> checked[i].ok]]
             all == \A i \in DOMAIN es : RangeOK(es[i], RangesOf(es)[i], f.enable_swl)
             result == parse(f)
  <1>1. result = IF IsErr(settings) THEN settings ELSE IF IsErr(ranges) THEN ranges
                 ELSE IF IsErr(refused) THEN refused ELSE Ok(cfg)
    BY DEF parse
  <1>2. IsList(es) /\ \A i \in DOMAIN es : IsRange(es[i])
    BY DocumentFacts
  <1>3. \A i \in DOMAIN es : es[i].range \in Seq(Addresses \cup {Bad}) /\ es[i].range # <<>>
    BY <1>2 DEF IsRange
  <1>4. IsErr(ranges) <=> ~RangesOK(f)
    BY <1>2, <1>3, ValidateRangesIff DEF RangesOK
  <1>5. ~IsErr(ranges) => ranges.ok = RangesOf(es)
    BY <1>2, <1>3, ValidateRangesIff
  <1>6. ASSUME ~IsErr(ranges)
        PROVE  /\ IsErr(refused) <=> ~all
               /\ all => cfg = Config(f)
    <2>1. /\ DOMAIN checked = DOMAIN es /\ DOMAIN es \subseteq Nat
          /\ \A i \in DOMAIN es : checked[i] = CheckRange(es[i], RangesOf(es)[i], f.enable_swl)
      BY <1>2, <1>5, <1>6, ListFacts
    <2>2. \A i \in DOMAIN es :
            /\ IsErr(checked[i]) <=> ~RangeOK(es[i], RangesOf(es)[i], f.enable_swl)
            /\ ~IsErr(checked[i]) => checked[i].ok = Validated(es[i], RangesOf(es)[i])
      <3>1. f.enable_swl \in BOOLEAN
        BY DocumentFacts
      <3>2. \A i \in DOMAIN es :
              /\ IsErr(CheckRange(es[i], RangesOf(es)[i], f.enable_swl))
                   <=> ~RangeOK(es[i], RangesOf(es)[i], f.enable_swl)
              /\ ~IsErr(CheckRange(es[i], RangesOf(es)[i], f.enable_swl)) =>
                   CheckRange(es[i], RangesOf(es)[i], f.enable_swl).ok = Validated(es[i], RangesOf(es)[i])
        BY <1>2, <3>1, CheckRangeIff
      <3> HIDE DEF checked
      <3> QED  BY <2>1, <3>2
    <2> HIDE DEF checked
    <2>3. IsErr(refused) <=> \E i \in DOMAIN checked : IsErr(checked[i])
      BY <2>1, ChainIff
    <2>4. IsErr(refused) <=> ~all
      BY <2>1, <2>2, <2>3
    <2>5. ASSUME all  PROVE cfg = Config(f)
      <3>1. [i \in DOMAIN checked |-> checked[i].ok] = [i \in DOMAIN es |-> Validated(es[i], RangesOf(es)[i])]
        BY <2>1, <2>2, <2>5
      <3> QED  BY <3>1 DEF Config
    <2> QED  BY <2>4, <2>5
  <1>7. DocumentOK(f) <=> ~IsErr(settings) /\ RangesOK(f) /\ all
    BY DEF DocumentOK
  <1> HIDE DEF settings, ranges, refused, cfg, all, result
  <1>8. IsErr(result) <=> ~DocumentOK(f)
    BY <1>1, <1>4, <1>6, <1>7, Verdicts
  <1>9. ~IsErr(result) => result.ok = Config(f)
    BY <1>1, <1>4, <1>6, <1>7, <1>8, Verdicts
  <1> QED  BY <1>8, <1>9 DEF result

LEMMA DocumentOKIff ==
    ASSUME NEW f, IsDocument(f)
    PROVE  DocumentOK(f) <=> WellFormed(f)
  <1> DEFINE es == f.ip_ranges
             n == Len(es)
             names == {es[i].name : i \in 1..n}
             texts == {es[i].range : i \in 1..n}
             listed == /\ n > 0
                       /\ Cardinality(names) = n /\ names \cap (BlankNames \cup {IPV6_RANGE_NAME}) = {}
                       /\ \A t \in texts : Len(t) = 2 /\ Bad \notin {t[1], t[2]}
                       /\ \A t \in texts : t[1] <= t[2]
                       /\ \A a \in Addresses :
                             Cardinality({i \in 1..n : a \in es[i].range[1] .. es[i].range[2]}) <= 1
             each == \A i \in 1..n : WellFormedRange(es[i], f.enable_swl)
  <1>1. IsList(es) /\ \A i \in DOMAIN es : IsRange(es[i])
    BY DocumentFacts
  <1>2. \A i \in DOMAIN es : es[i].range \in Seq(Addresses \cup {Bad}) /\ es[i].range # <<>>
    BY <1>1 DEF IsRange
  <1>3. RangesOK(f) <=> listed
    BY <1>1, <1>2, RangesWellFormed, ZenonT(40) DEF RangesOK
  <1>4. (\A i \in DOMAIN es : RangeOK(es[i], RangesOf(es)[i], f.enable_swl)) <=> each
    <2>1. DOMAIN es = 1..n
      BY <1>1, ListFacts
    <2>2. \A i \in DOMAIN es : /\ RangesOf(es)[i].start = es[i].range[1]
                               /\ RangesOf(es)[i].end = es[i].range[2]
      BY DEF RangesOf
    <2>3. \A i \in DOMAIN es : RangeOK(es[i], RangesOf(es)[i], f.enable_swl)
                                 <=> WellFormedRange(es[i], f.enable_swl)
      BY <1>1, <2>2, RangeOKIff
    <2> QED  BY <2>1, <2>3
  <1>5. WellFormed(f) <=> ~IsErr(CheckSettings(f)) /\ listed /\ each
    BY DEF WellFormed
  <1> HIDE DEF listed, each
  <1> QED  BY <1>3, <1>4, <1>5 DEF DocumentOK

-----------------------------------------------------------------------------
(* What an accepted configuration enforces *)

\* The fields that are laid over the policy of range k for address a.
OverOf(cfg, k, a) ==
    IF a \in DOMAIN cfg.ranges[k].overrides THEN cfg.ranges[k].overrides[a] ELSE NoFields

LEMMA ConfigFacts ==
    ASSUME NEW f, IsDocument(f), DocumentOK(f), NEW cfg, cfg = Config(f), NEW k \in DOMAIN cfg.ranges,
           NEW a \in Addresses, NEW r, r = cfg.ranges[k].policy, NEW o, o = OverOf(cfg, k, a)
    PROVE  LegalFields(r) /\ LegalFields(o) /\ Complete(merged_with(r, o), f.enable_swl)
  <1> DEFINE e == f.ip_ranges[k]
             rs == RangesOf(f.ip_ranges)[k]
             vr == cfg.ranges[k]
             ips == {e.overrides[i].ip : i \in DOMAIN e.overrides}
             at == CHOOSE i \in DOMAIN e.overrides : e.overrides[i].ip = a
  <1>1. k \in DOMAIN f.ip_ranges /\ vr = Validated(e, rs)
    BY DEF Config
  <1>2. IsRange(e) /\ RangeOK(e, rs, f.enable_swl)
    BY <1>1, DocumentFacts DEF DocumentOK
  <1>3. /\ r = PolicyOf(e) /\ DOMAIN vr.overrides = ips
        /\ a \in ips => vr.overrides[a] = Parsed(e.overrides[at].policy)
    <2> DEFINE F == [ip \in ips |->
                       Parsed(e.overrides[CHOOSE i \in DOMAIN e.overrides : e.overrides[i].ip = ip].policy)]
    <2>1. vr.policy = PolicyOf(e) /\ vr.overrides = F
      BY <1>1, SMTT(30) DEF Validated
    <2>2. DOMAIN F = ips /\ (a \in ips => F[a] = Parsed(e.overrides[at].policy))
      OBVIOUS
    <2> HIDE DEF F, ips, at, e
    <2>3. r = vr.policy
      OBVIOUS
    <2> HIDE DEF vr
    <2> QED  BY <2>1, <2>2, <2>3, SMTT(30)
  <1>4. LegalFields(r)
    BY <1>2, <1>3, RangePolicyIff DEF RangeOK
  <1>5. CASE a \in ips
    <2>1. at \in DOMAIN e.overrides
      BY <1>5
    <2>2. OverrideOK(e, rs, f.enable_swl, at) /\ IsEntry(e.overrides[at].policy)
      BY <1>2, <2>1 DEF RangeOK, IsRange
    <2>3. o = Parsed(e.overrides[at].policy)
      BY <1>3, <1>5 DEF OverOf
    <2> HIDE DEF at, e
    <2>4. Legal(e.overrides[at].policy) /\ Complete(merged_with(r, o), f.enable_swl)
      BY <1>3, <2>2, <2>3 DEF OverrideOK
    <2> QED  BY <1>4, <2>2, <2>3, <2>4, CheckedIff
  <1>6. CASE a \notin ips
    <2>1. o = NoFields
      BY <1>3, <1>6 DEF OverOf
    <2> QED  BY <1>2, <1>3, <1>4, <2>1, NoFieldsIsLegal DEF RangeOK
  <1> QED  BY <1>5, <1>6

LEMMA TriggerIsPositive ==
    ASSUME NEW p \in DirPolicies, p.threshold_bps >= MinRate, p.trigger_ratio_pct \in 1..100
    PROVE  trigger_bps(p) > 0
  <1> DEFINE x == p.threshold_bps  y == p.trigger_ratio_pct
  <1>1. x \in Nat /\ x >= 100 /\ y \in Nat /\ y >= 1
    BY ConfigAssumption DEF DirPolicies
  <1>2. trigger_bps(p) = (x * y) \div 100
    BY DEF trigger_bps
  <1> HIDE DEF x, y
  <1>3. x * y \in Nat /\ x * y >= 100
    <2>1. \A z \in Nat : x * (z + 1) = x * z + x
      BY <1>1
    <2>2. y - 1 \in Nat /\ y = (y - 1) + 1 /\ x * (y - 1) \in Nat
      BY <1>1, ProductIsNat
    <2> QED  BY <1>1, <2>1, <2>2
  <1>4. \A z \in Nat : z >= 100 => z \div 100 > 0
    OBVIOUS
  <1> QED  BY <1>2, <1>3, <1>4

LEMMA AdmissibleIsNumber ==
    ASSUME NEW p \in DirPolicies  PROVE max_admissible_frame_bytes(p) \in Int
  <1>1. p.limit_bps \div BitsPerByte \in Nat
    BY DEF DirPolicies, BitsPerByte
  <1>2. (p.limit_bps \div BitsPerByte) * p.limit_window_secs \in Nat
    BY <1>1, ProductIsNat DEF DirPolicies
  <1> QED  BY <1>2 DEF max_admissible_frame_bytes, DirPolicies

Enforceable(cfg, a, d, p) ==
    /\ p.limit_bps \in MinRate..MaxRate /\ p.limit_duration_secs > 0
    /\ p.window_secs > 0 /\ trigger_bps(p) > 0
    /\ p.algorithm \in BucketAlgos =>
          p.burst_bytes \in 1..MaxBurst /\ p.limit_window_secs = 0
    /\ p.algorithm \notin BucketAlgos =>
          p.burst_bytes = 0 /\ p.limit_window_secs \in 1..MaxLimitWindow
    /\ \/ max_admissible_frame_bytes(p) >= MaxPolicedLen
       \/ \E w \in small_burst_warnings(cfg) :
            /\ contains(cfg.ranges[w[1]].inner, a) /\ w[3] = d
            /\ w[2] = IF a \in DOMAIN cfg.ranges[w[1]].overrides THEN a ELSE Absent

LEMMA EffectiveEnforceable ==
    ASSUME NEW f, IsDocument(f), DocumentOK(f), NEW cfg, cfg = Config(f),
           NEW a \in Addresses, NEW d \in Dirs, NEW p, p = effective_policy(cfg, a)[d], p # Absent
    PROVE  Enforceable(cfg, a, d, p)
  <1> DEFINE hits == {i \in DOMAIN cfg.ranges : contains(cfg.ranges[i].inner, a)}
             k == CHOOSE i \in hits : TRUE
             r == cfg.ranges[k].policy
             o == OverOf(cfg, k, a)
             m == merged_with(r, o)
  <1>1. hits # {} /\ p = resolve(r, o).ok[d]
    <2>1. effective_policy(cfg, a) = IF hits = {} THEN [x \in Dirs |-> Absent] ELSE resolve(r, o).ok
      BY ZenonT(40) DEF effective_policy, OverOf
    <2> DEFINE none == [x \in Dirs |-> Absent]
               some == resolve(r, o).ok
    <2>2. none[d] = Absent
      BY SMTT(30)
    <2>3. effective_policy(cfg, a) = IF hits = {} THEN none ELSE some
      BY <2>1, ZenonT(40)
    <2> HIDE DEF hits, none, some
    <2>4. hits # {} /\ p = some[d]
      BY <2>2, <2>3
    <2> QED  BY <2>4, SMTT(30) DEF some
  <1>2. k \in DOMAIN cfg.ranges /\ contains(cfg.ranges[k].inner, a)
    <2>1. k \in hits
      <3> HIDE DEF hits
      <3> QED  BY <1>1
    <2> HIDE DEF k
    <2> QED  BY <2>1
  <1> HIDE DEF hits, k
  <1>3. LegalFields(r) /\ LegalFields(o) /\ Complete(m, f.enable_swl)
    BY <1>2, ConfigFacts
  <1>4. ~IsErr(resolve(r, o)) /\ \A x \in Dirs : Policed(m, x) => CompleteDir(m, x)
    BY <1>3, ResolveIff DEF Complete
  <1>5. p = DirPolicy(m, d) /\ CompleteDir(m, d) /\ LegalFields(m)
    <2>1. p = IF Policed(m, d) THEN DirPolicy(m, d) ELSE Absent
      BY <1>1, <1>3, <1>4, ResolveIff
    <2>2. LegalFields(m)
      BY <1>3, MergedIsLegal
    <2> HIDE DEF m
    <2> QED  BY <1>4, <2>1, <2>2
  <1> HIDE DEF m
  <1>6. /\ p \in DirPolicies
        /\ p.limit_bps \in MinRate..MaxRate /\ p.threshold_bps \in MinRate..MaxRate
        /\ p.limit_duration_secs > 0 /\ p.window_secs > 0
        /\ p.trigger_ratio_pct \in 1..100
        /\ p.algorithm \in BucketAlgos =>
             p.burst_bytes \in 1..MaxBurst /\ p.limit_window_secs = 0
        /\ p.algorithm \notin BucketAlgos =>
             p.burst_bytes = 0 /\ p.limit_window_secs \in 1..MaxLimitWindow
    BY <1>5, DirPolicyIs
  <1>7. trigger_bps(p) > 0
    <2>1. p.threshold_bps >= MinRate
      BY <1>6, ConfigAssumption
    <2> QED  BY <1>6, <2>1, TriggerIsPositive
  <1>8. ASSUME ~(max_admissible_frame_bytes(p) >= MaxPolicedLen)
        PROVE  \E w \in small_burst_warnings(cfg) :
                 /\ contains(cfg.ranges[w[1]].inner, a) /\ w[3] = d
                 /\ w[2] = IF a \in DOMAIN cfg.ranges[w[1]].overrides THEN a ELSE Absent
    <2> DEFINE scope == IF a \in DOMAIN cfg.ranges[k].overrides THEN a ELSE Absent
               w == <<k, scope, d>>
               over(x) == IF x[2] = Absent THEN NoFields ELSE cfg.ranges[x[1]].overrides[x[2]]
               q(x) == resolve(cfg.ranges[x[1]].policy, over(x)).ok[x[3]]
               all == UNION {{i} \X ({Absent} \cup DOMAIN cfg.ranges[i].overrides) \X Dirs :
                               i \in DOMAIN cfg.ranges}
    <2>1. small_burst_warnings(cfg) =
            {x \in all : q(x) # Absent /\ max_admissible_frame_bytes(q(x)) < MaxPolicedLen}
      BY DEF small_burst_warnings
    <2>2. w[1] = k /\ w[2] = scope /\ w[3] = d
      OBVIOUS
    <2>3. w \in all
      <3>1. scope \in {Absent} \cup DOMAIN cfg.ranges[k].overrides
        OBVIOUS
      <3> HIDE DEF scope
      <3>2. w \in {k} \X ({Absent} \cup DOMAIN cfg.ranges[k].overrides) \X Dirs
        BY <3>1
      <3> HIDE DEF w
      <3> QED  BY <1>2, <3>2
    <2>4. over(w) = o
      BY <2>2, AddressesAreNumbers DEF OverOf
    <2>5. q(w) = p
      <3> HIDE DEF over, w
      <3> QED  BY <1>1, <2>2, <2>4
    <2>6. max_admissible_frame_bytes(p) < MaxPolicedLen
      BY <1>6, <1>8, AdmissibleIsNumber, ConfigAssumption
    <2> HIDE DEF all, q, w, over
    <2>7. w \in small_burst_warnings(cfg)
      BY <2>1, <2>3, <2>5, <2>6
    <2> QED  BY <1>2, <2>2, <2>7
  <1> QED  BY <1>6, <1>7, <1>8 DEF Enforceable

-----------------------------------------------------------------------------
(* The theorems *)

\* The outcome is that of the document on disk.
Loaded ==
    /\ file \in Files
    /\ outcome = Pending \/ outcome = IF file = Bad THEN Error("unreadable or not TOML") ELSE parse(file)

LEMMA Invariance == Spec => []Loaded
  <1>1. Init => Loaded
    BY DEF Init, Loaded
  <1>2. Loaded /\ [Next]_vars => Loaded'
    BY DEF Loaded, Next, load, vars
  <1> QED  BY <1>1, <1>2, PTL DEF Spec

LEMMA LoadedIs ==
    ASSUME Loaded, outcome # Pending
    PROVE  /\ Accepted <=> file # Bad /\ WellFormed(file)
           /\ Accepted => IsDocument(file) /\ DocumentOK(file) /\ outcome.ok = Config(file)
  <1>1. CASE file = Bad
    BY <1>1, Verdicts DEF Loaded, Accepted
  <1>2. CASE file # Bad
    <2>1. IsDocument(file) /\ outcome = parse(file)
      BY <1>2, DocumentAssumption DEF Loaded
    <2>2. /\ IsErr(parse(file)) <=> ~DocumentOK(file)
          /\ ~IsErr(parse(file)) => parse(file).ok = Config(file)
          /\ DocumentOK(file) <=> WellFormed(file)
      BY <2>1, ParseIff, DocumentOKIff
    <2> QED  BY <1>2, <2>1, <2>2 DEF Accepted
  <1> QED  BY <1>1, <1>2

\* The loader's checks, in their order and with their early returns, accept exactly the
\* documents that are well-formed address by address: none that is ambiguous, incomplete
\* or out of bounds slips through, and none that is fine is refused.
THEOREM AcceptsTheWellFormed == Spec => []AcceptsExactly
  <1>1. Loaded => AcceptsExactly
    BY LoadedIs DEF AcceptsExactly
  <1> QED  BY <1>1, Invariance, PTL

\* Whatever policy the index of an accepted configuration gives to the data path for an
\* address is one the policer can enforce, and a policy that admits no whole frame was
\* warned about when the file was loaded.
THEOREM AcceptedIsEnforceable == Spec => []EffectiveIsEnforceable
  <1>1. ASSUME Loaded, Accepted, NEW cfg, cfg = outcome.ok, NEW a \in Addresses, NEW d \in Dirs,
               NEW p, p = effective_policy(cfg, a)[d], p # Absent
        PROVE  Enforceable(cfg, a, d, p)
    <2>1. outcome # Pending
      BY <1>1 DEF Accepted
    <2>2. IsDocument(file) /\ DocumentOK(file) /\ cfg = Config(file)
      BY <1>1, <2>1, LoadedIs
    <2> QED  BY <1>1, <2>2, EffectiveEnforceable
  <1>2. Loaded => EffectiveIsEnforceable
    BY <1>1 DEF EffectiveIsEnforceable, Enforceable
  <1> QED  BY <1>2, Invariance, PTL

=============================================================================
