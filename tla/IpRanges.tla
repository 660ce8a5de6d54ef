----------------------------- MODULE IpRanges ------------------------------
(***************************************************************************)
(* Address ranges (ip_range.rs): parsing START-END, validating the list of *)
(* ranges, and cutting a range into the CIDR prefixes that go into the     *)
(* whitelist trie.  Addresses have Width bits, 32 in the code.             *)
(*                                                                         *)
(* Abstractions.  The text of a range is the sequence of its parts between *)
(* the dashes, each an address or Bad.  A failed step is an error record   *)
(* that names the check that refused; its wording is left out.             *)
(***************************************************************************)
EXTENDS Integers, Sequences, FiniteSets, FiniteSetsExt

CONSTANTS
    Width,          \* bits of an address
    Bad             \* a piece of text that does not parse

ASSUME IpRangesAssumption == Width \in Nat \ {0}

Addresses == 0..(2^Width - 1)

IPV6_RANGE_NAME == "IPv6"

\* Names that are empty once trimmed.
BlankNames == {"", " "}

Error(at) == [error |-> at]
Ok(value) == [ok |-> value]
IsErr(r) == "error" \in DOMAIN r

\* What a sequence of checks with early returns yields: its first error, or TRUE.
FirstError(checks) ==
    LET failed == {i \in DOMAIN checks : IsErr(checks[i])} IN
    IF failed = {} THEN Ok(TRUE)
    ELSE checks[CHOOSE i \in failed : \A j \in failed : i <= j]

Require(condition, at) == IF condition THEN Ok(TRUE) ELSE Error(at)

-----------------------------------------------------------------------------
(* Prefixes *)

span(c) == c.network .. (c.network + 2^(Width - c.prefix_len) - 1)

contains(r, ip) == ip \in r.start .. r.end

\* Variant: a block may start anywhere, as long as it ends inside the range.
BlockBitsUnaligned(cur, end) == Max({b \in 0..Width : cur + 2^b - 1 <= end})

\* The largest power-of-two block at cur: aligned, and inside the range.
BlockBits(cur, end) ==
    Max({b \in 0..Width : cur % 2^b = 0 /\ cur + 2^b - 1 <= end})

\* The cursor is wider than an address: it may step past the last one.
cidrs(r) ==
    LET from[cur \in 0..2^Width] ==
          IF cur > r.end THEN <<>>
          ELSE LET bits == BlockBits(cur, r.end)
               IN  <<[prefix_len |-> Width - bits, network |-> cur]>> \o from[cur + 2^bits]
    IN  from[r.start]

-----------------------------------------------------------------------------
(* Validation *)

parse_range(raw) ==
    LET refused == FirstError(
          <<Require(Len(raw) # 1, "no dash"),
            Require(Len(raw) <= 2, "more than one dash"),
            Require(raw[1] \in Addresses, "start is no address"),
            Require(Len(raw) = 2 => raw[2] \in Addresses, "end is no address"),
            Require(Len(raw) = 2 /\ Bad \notin {raw[1], raw[2]} => raw[1] <= raw[2], "reversed")>>)
    IN  IF IsErr(refused) THEN refused ELSE Ok([start |-> raw[1], end |-> raw[2]])

\* One iteration of the loop over the entries; names holds the ones before it.
CheckEntry(entries, i) ==
    LET e == entries[i] IN
    FirstError(<<Require(e.name \notin BlankNames, "blank name"),
                 Require(e.name # IPV6_RANGE_NAME, "reserved name"),
                 Require(\A j \in 1..(i - 1) : entries[j].name # e.name, "name used twice"),
                 parse_range(e.range)>>)

\* The order that a stable sort by start address gives.
SortedBefore(rs, i, j) ==
    \/ rs[i].start < rs[j].start
    \/ rs[i].start = rs[j].start /\ i < j

Consecutive(rs, i, j) ==
    /\ SortedBefore(rs, i, j)
    /\ \A k \in DOMAIN rs : ~(SortedBefore(rs, i, k) /\ SortedBefore(rs, k, j))

\* Variant: neighbours in the file are compared, not neighbours by address.
NoOverlapInFileOrder(rs) ==
    \A i \in DOMAIN rs \ {1} : rs[i].start > rs[i - 1].end \/ rs[i].end < rs[i - 1].start

NoOverlap(rs) ==
    \A i, j \in DOMAIN rs : Consecutive(rs, i, j) => rs[j].start > rs[i].end

validate_ranges(entries) ==
    IF entries = <<>> THEN Error("no ranges")
    ELSE LET refused == FirstError([i \in DOMAIN entries |-> CheckEntry(entries, i)]) IN
         IF IsErr(refused) THEN refused
         ELSE LET ranges == [i \in DOMAIN entries |->
                               [name |-> entries[i].name, start |-> entries[i].range[1],
                                end |-> entries[i].range[2]]]
              IN  IF NoOverlap(ranges) THEN Ok(ranges) ELSE Error("overlap")

=============================================================================
