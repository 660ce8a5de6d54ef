----------------------------- MODULE AtomicLimits -----------------------------
(***************************************************************************)
(* What the limit-map transactions promise the rest of the engine: every   *)
(* tick action is applied to its own flow or not at all, a reload is       *)
(* applied as a whole or not at all, and only a rollback that failed (the  *)
(* degraded flag) leaves anything else behind.  LimitTx, whose steps are   *)
(* single map operations, implements this specification.                   *)
(***************************************************************************)
CONSTANTS Flows, Cidrs, Policies, None

VARIABLES
    armed,      \* the policy the data path enforces on a flow, or None
    monitored,  \* the prefixes the data path counts
    limited,    \* the policy the limiter believes applied, or None
    prefixes,   \* the prefixes of the visible configuration
    degraded    \* a rollback has failed

vars == <<armed, monitored, limited, prefixes, degraded>>

Phases == [Flows -> Policies \cup {None}]

Init ==
    /\ armed = [f \in Flows |-> None]
    /\ limited = [f \in Flows |-> None]
    /\ prefixes \in SUBSET Cidrs
    /\ monitored = prefixes
    /\ degraded = FALSE

\* One action of a limiter tick enters or leaves LIMITED.
TickApplied(f, p) ==
    /\ (limited[f] = None) # (p = None)
    /\ armed' = [armed EXCEPT ![f] = p]
    /\ limited' = [limited EXCEPT ![f] = p]
    /\ UNCHANGED <<monitored, prefixes, degraded>>

\* A failed action whose rollback failed too may leave its own flow unarmed.
TickDegraded(f) ==
    /\ armed' \in {armed, [armed EXCEPT ![f] = None]}
    /\ degraded' = TRUE
    /\ UNCHANGED <<monitored, limited, prefixes>>

\* A reload replaces policies of LIMITED flows, releases others, swaps prefixes.
ReloadApplied(next, P) ==
    /\ \A f \in Flows : limited[f] = None => next[f] = None
    /\ armed' = [f \in Flows |-> IF next[f] = limited[f] THEN armed[f] ELSE next[f]]
    /\ monitored' = (monitored \cup (P \ prefixes)) \ (prefixes \ P)
    /\ limited' = next
    /\ prefixes' = P
    /\ UNCHANGED degraded

\* A rejected reload changes nothing.  On the way it may heal what an earlier
\* failed rollback left: a stray prefix goes, a configured one comes back.
ReloadRejected(M) ==
    /\ monitored \cap prefixes \subseteq M
    /\ M \subseteq monitored \cup prefixes
    /\ monitored' = M
    /\ UNCHANGED <<armed, limited, prefixes, degraded>>

\* A rejected reload whose rollback failed: flows that were LIMITED may be left
\* unarmed or with the new policy, prefixes may be missing or left over.
ReloadDegraded(next, M) ==
    /\ \A f \in Flows : limited[f] = None => next[f] = armed[f]
    /\ armed' = next
    /\ monitored' = M
    /\ degraded' = TRUE
    /\ UNCHANGED <<limited, prefixes>>

Next ==
    \/ \E M \in SUBSET Cidrs : ReloadRejected(M)
    \/ \E f \in Flows :
        \/ \E p \in Policies \cup {None} : TickApplied(f, p)
        \/ TickDegraded(f)
    \/ \E next \in Phases, P \in SUBSET Cidrs :
        \/ ReloadApplied(next, P)
        \/ ReloadDegraded(next, P)

Spec == Init /\ [][Next]_vars

=============================================================================
