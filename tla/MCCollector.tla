---------------------------- MODULE MCCollector ----------------------------
(* A small instance of Collector: counters named by TAP and owner, flows by owner. *)
EXTENDS Collector

\* One address behind two TAPs, and a limited direction of it.
MCCounters == {<<"tap1", "ip1">>, <<"tap2", "ip1">>}
MCFlows == {<<"rx", "ip1">>}

MCOwnerOf == [k \in MCCounters \cup MCFlows |-> k[2]]
MCTapOf == [k \in MCCounters |-> k[1]]

\* More packets of the TAP that comes and goes: its counter can go backwards.
MCMaxSent == [k \in MCCounters \cup MCFlows |-> IF k = <<"tap1", "ip1">> THEN 2 ELSE 1]

MCTapSets == {{"tap2"}, {"tap1", "tap2"}}

=============================================================================
