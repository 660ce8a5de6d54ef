------------------------------ MODULE MCLimitTx ------------------------------
(* Small instances of LimitTx.  GCRA and the token bucket keep their state   *)
(* in LIMIT_STATE, the sliding-window log in SWL_LOG, which has room for one *)
(* flow.                                                                     *)
EXTENDS LimitTx, TLC

MCAlgorithms == {"token_bucket", "gcra", "sliding_window_log"}
MCAlgoOf == [p \in Policies |-> IF p = "log" THEN "sliding_window_log" ELSE p]

\* A /31 and the two /32 inside it, and an unrelated prefix.
MCIpsOf == [c \in Cidrs |->
              CASE c = "a/31" -> {1, 2} [] c = "a/32" -> {1} [] c = "b/32" -> {2}
                [] OTHER -> {3}]

Symmetry == Permutations(Flows)

=============================================================================
