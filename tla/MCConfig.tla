------------------------------ MODULE MCConfig ------------------------------
(* Documents that differ from a good one in their settings, in the geometry of  *)
(* up to three ranges, or in the policies of a range and its overrides.         *)
EXTENDS Config

Q(n, u) == [num |-> n, unit |-> u]

\* The base policy polices both directions by GCRA; w adds what a window needs.
Full ==
    [f \in Fields |->
       IF f \in RateFields THEN Q(2, "Mbps")
       ELSE IF f \in {"window", "limit_duration"} THEN Q(1, "m")
       ELSE IF f = "limit_window" THEN Q(20, "s")
       ELSE IF f = "trigger_ratio" THEN Q(80, "%")
       ELSE IF f = "burst" THEN Q(1, "MiB")
       ELSE "fixed_window"]

\* The fields of text in S, and no others.
Only(text, S) == [f \in Fields |-> IF f \in S THEN text[f] ELSE Absent]

\* The documents that are good but for their ranges, and the entries of a list of ranges,
\* as sets of records: TLC enumerates them without building them.
Documents(swl, lists) ==
    [bridge : {"br0"}, refresh_interval_ms : {1000}, interface_scan_interval_secs : {5},
     map_max_entries : {8}, swl_map_max_entries : {2}, default_sort : {"ip"},
     metrics : [enabled : {FALSE}, url : {[scheme |-> "http", host |-> "127.0.0.1"]},
                allow_insecure_http : {FALSE}, push_interval_secs : {60}],
     enable_swl : swl, ip_ranges : lists]

Entries(names, ranges, policies, overrides) ==
    [name : names, range : ranges, policy : policies, overrides : overrides]

Bare(names, ranges) == Entries(names, ranges, {Absent}, {<<>>})

Good == CHOOSE f \in Documents({FALSE}, [1..1 -> Bare({"a"}, {<<0, 3>>})]) : TRUE

SettingsFiles ==
    {Bad, Good}
    \cup {[Good EXCEPT !.bridge = b] : b \in {"", " "}}
    \cup {[Good EXCEPT !.refresh_interval_ms = v] : v \in {0, 999, 1500, 2000, 10000, 11000}}
    \cup {[Good EXCEPT !.interface_scan_interval_secs = v] : v \in {0, 1, 10, 11}}
    \cup {[Good EXCEPT !.map_max_entries = 0], [Good EXCEPT !.default_sort = "name"]}
    \cup {[Good EXCEPT !.swl_map_max_entries = v] : v \in {0, MaxSwlEntries, MaxSwlEntries + 1}}
    \cup {[Good EXCEPT !.metrics = m] :
            m \in [enabled : BOOLEAN, allow_insecure_http : BOOLEAN,
                   push_interval_secs : {4, 5, 3600, 3601},
                   url : {Bad} \cup [scheme : {"http", "https", "ftp"},
                                     host : {"localhost", "::1", "vm", Absent}]]}

\* One range of any text, two of any names, three of any order.
RangeTexts == {<<Bad>>, <<0, 1, 2>>, <<Bad, 1>>, <<1, Bad>>} \cup (Addresses \X Addresses)
Intervals == {r \in Addresses \X Addresses : r[1] <= r[2]}
Coarse == {r \in Intervals : r[1] % 2 = 0 \/ r[1] = r[2]}

GeometryFiles ==
    Documents({FALSE}, {<<>>} \cup [1..1 -> Bare({"a", "", " ", "IPv6"}, RangeTexts)])
    \cup Documents({FALSE}, Bare({"a"}, Intervals) \X Bare({"a", "b", "IPv6"}, Intervals))
    \cup Documents({FALSE}, Bare({"c"}, Coarse) \X Bare({"b"}, Coarse) \X Bare({"a"}, Coarse))

\* Range policies that lack up to two fields, with and without an override that sets
\* one or two fields or all that a direction needs.
Lacking == {Fields \ S : S \in kSubset(0, Fields) \cup kSubset(1, Fields) \cup kSubset(2, Fields)}
Algorithms == BucketAlgos \cup WindowAlgos \cup {"tail_drop"}
Alg(text, a) == [text EXCEPT !["algorithm"] = IF @ = Absent THEN Absent ELSE a]

Overriding(text) ==
    {<<>>} \cup {<<[ip |-> 1, policy |-> Only(text, S)]>> :
                   S \in kSubset(1, Fields) \cup kSubset(2, Fields)}

InheritanceFiles ==
    Documents(BOOLEAN,
      [1..1 -> Entries({"a"}, {<<0, 3>>},
                 {Alg(Only(Full, S), a) :
                    S \in Lacking \cup {{}, {"burst"}}, a \in {"gcra", "sliding_window_log"}},
                 Overriding(Alg(Full, "sliding_window_log")) \cup Overriding(Alg(Full, "gcra")))])

\* Every unit and bound, in the range's policy and in the override's.
Texts(f) ==
    IF f \in RateFields
    THEN {Q(99, "bps"), Q(10, "Kbps"), Q(2, "Gbps"), Q(3, "Gbps"), Q(1, "MBps"), Q(0, "Kbps"),
          Q(2000, "Gbps"), Q(Bad, "bps")}
    ELSE IF f \in DurationFields
    THEN {Q(0, "s"), Q(1, "s"), Q(60, "s"), Q(61, "s"), Q(1, "m"), Q(1, "h"), Q(1, "d")}
    ELSE IF f = "trigger_ratio" THEN {Q(0, "%"), Q(1, "%"), Q(100, "%"), Q(101, "%"), Q(80, "s")}
    ELSE IF f = "burst"
    THEN {Q(0, "B"), Q(1, "B"), Q(254, "B"), Q(255, "B"), Q(25, "KB"), Q(1, "GiB"), Q(5, "GB"),
          Q(2, "GiB"), Q(1, "TB")}
    ELSE Algorithms

UnitFiles ==
    Documents({FALSE},
      [1..1 -> Entries({"a"}, {<<0, 3>>},
                 UNION {{Alg([Full EXCEPT ![f] = t], a) : t \in Texts(f), a \in Algorithms} :
                          f \in Fields}, {<<>>})]
      \cup [1..1 -> Entries({"a"}, {<<0, 3>>}, {Only(Full, Fields \ {"algorithm"})},
                      UNION {{<<[ip |-> 3, policy |-> [NoFields EXCEPT ![f] = t]]>> :
                                t \in Texts(f)} : f \in Fields})])

\* Where overrides lie, which share an address, and which set nothing.
PlacementFiles ==
    Documents({FALSE},
      [1..1 -> Entries({"a"}, {<<1, 3>>}, {Full},
                 [ip : {Bad} \cup 0..4, policy : {NoFields, Only(Full, {"burst"})}]
                 \X [ip : {Bad} \cup 0..4, policy : {NoFields, Only(Full, {"window"})}])])

MCFiles ==
    SettingsFiles \cup GeometryFiles \cup InheritanceFiles \cup UnitFiles \cup PlacementFiles

=============================================================================
