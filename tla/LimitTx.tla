------------------------------- MODULE LimitTx -------------------------------
(***************************************************************************)
(* The transactional updates of the eBPF limit maps: install_limit,        *)
(* remove_limit, the whitelist steps, the journal and its rollback         *)
(* (txmaps.rs), driven by apply_tick_actions and by apply_and_commit       *)
(* (daemon.rs).  One step of the engine is one map operation.  A packet in *)
(* police() takes three: it copies the policy, is judged on the state of   *)
(* its flow, and records its verdict; any number of the engine's map       *)
(* operations may fall in between.                                         *)
(*                                                                         *)
(* Abstractions.  A policy is a value with an algorithm; its rate, burst   *)
(* and window are told apart only by being another policy.  A state        *)
(* artifact (LIMIT_STATE entry, SWL_LOG ring) is absent, zeroed ("fresh"), *)
(* touched by nothing but packets whose policy had gone ("late"), or by a  *)
(* packet of the armed policy ("used").  A packet's lookup of the artifact *)
(* and its critical section are one step.  When the limiter enters or      *)
(* leaves LIMITED is a free choice here; module Limiter makes that choice  *)
(* the way the code does.                                                  *)
(***************************************************************************)
EXTENDS Naturals, Sequences, FiniteSets, SequencesExt

CONSTANTS
    Flows,          \* LimitKey: (IPv4, direction)
    Cidrs,          \* whitelist CIDRs
    IpsOf,          \* the addresses a CIDR covers
    Policies,       \* LimitPolicy values
    Algorithms,     \* ALGO_* constants
    AlgoOf,         \* the algorithm of a policy
    RingAlgo,       \* ALGO_SLIDING_WINDOW_LOG
    None,           \* no policy, no record, no packet
    Cpus,           \* each has at most one packet in police()
    PolicyCap,      \* max_entries of LIMIT_POLICIES
    StateCap,       \* max_entries of LIMIT_STATE
    RingCap,        \* max_entries of SWL_LOG
    WhitelistCap,   \* max_entries of MONITORED_IPS
    MaxFaults       \* bound: injected map errors in one behaviour

ASSUME PolicyAssumption ==
    /\ None \notin Policies
    /\ None \notin Algorithms
    /\ RingAlgo \in Algorithms
    /\ AlgoOf \in [Policies -> Algorithms]

ASSUME BoundAssumption ==
    /\ {PolicyCap, StateCap, RingCap, WhitelistCap, MaxFaults} \subseteq Nat
    /\ IsFiniteSet(Flows) /\ IsFiniteSet(Cidrs)

VARIABLES
    limit_policies, \* LIMIT_POLICIES: the armed policy of a flow, or None
    artifacts,      \* LIMIT_STATE and SWL_LOG: an artifact per flow and map
    policer_stats,  \* POLICER_STATS: the flows that own an entry
    monitored,      \* MONITORED_IPS: the prefixes in the trie
    limited,        \* limiter: the applied policy of a LIMITED flow, else None
    expired,        \* limiter: pre-expiry policy of the latest tick
    prefixes,       \* prefix set of the visible configuration
    degraded,       \* RollbackHealth.degraded
    mode,           \* "tick" or "reload": what the running transaction is for
    pc,             \* the next map operation of the engine
    todo,           \* limit actions not started yet
    cur,            \* the limit action being executed
    target,         \* what a reload commits: phases and prefixes
    journal,        \* TxJournal
    clean,          \* no rollback step of this journal has failed
    faults,         \* map errors injected so far
    undoFaults,     \* map errors injected in this transaction's rollbacks
    before,         \* limit_policies and monitored when the journal was new
    inflight,       \* the packet a CPU has in police(), or None
    recreated       \* auxiliary: policer entries made for a flow with no policy

maps == <<limit_policies, artifacts, policer_stats, monitored>>
control == <<limited, expired, prefixes, degraded>>
drive == <<mode, todo, cur, target, before>>
tx == <<journal, clean, faults, undoFaults>>
packets == <<inflight, recreated>>
vars == <<maps, control, drive, pc, tx, packets>>

-----------------------------------------------------------------------------
(* Maps *)

Stores == {"LIMIT_STATE", "SWL_LOG"}

Store(algo) == IF algo = RingAlgo THEN "SWL_LOG" ELSE "LIMIT_STATE"

StoreCap(s) == IF s = "SWL_LOG" THEN RingCap ELSE StateCap

\* A hash map accepts an overwrite always and a new key while it has room.
PolicyRoom(f) ==
    \/ limit_policies[f] # None
    \/ Cardinality({g \in Flows : limit_policies[g] # None}) < PolicyCap

StateRoom(f, algo) ==
    LET s == Store(algo) IN
    \/ artifacts[s][f] # "absent"
    \/ Cardinality({g \in Flows : artifacts[s][g] # "absent"}) < StoreCap(s)

TrieRoom(c) == c \in monitored \/ Cardinality(monitored) < WhitelistCap

arm_policy(f, p) ==
    /\ limit_policies' = [limit_policies EXCEPT ![f] = p]
    /\ UNCHANGED <<artifacts, policer_stats, monitored>>

disarm_policy(f) == arm_policy(f, None)

SetArtifact(f, algo, content) ==
    /\ artifacts' = [artifacts EXCEPT ![Store(algo)][f] = content]
    /\ UNCHANGED <<limit_policies, policer_stats, monitored>>

write_fresh_state(f, algo) == SetArtifact(f, algo, "fresh")
clear_state(f, algo) == SetArtifact(f, algo, "absent")

clear_policer(f) ==
    /\ policer_stats' = policer_stats \ {f}
    /\ UNCHANGED <<limit_policies, artifacts, monitored>>

SetTrie(P) ==
    /\ monitored' = P
    /\ UNCHANGED <<limit_policies, artifacts, policer_stats>>

wl_insert(c) == SetTrie(monitored \cup {c})
wl_remove(c) == SetTrie(monitored \ {c})

\* A map operation fails for a reason other than a full map.
Fault == faults < MaxFaults /\ faults' = faults + 1

-----------------------------------------------------------------------------
(* Journal *)

InstallRecord(f, old) ==
    [key |-> f, old |-> old, old_disarmed |-> FALSE,
     new_algorithm |-> None, armed |-> FALSE]

RemoveRecord(f, old) == [key |-> f, old |-> old, disarmed |-> FALSE]

EmptyJournal ==
    [installs |-> <<>>, removes |-> <<>>, wl_added |-> <<>>, wl_removed |-> <<>>]

\* A new record, progress of the last record, the last record played back.
Push(list, rec) == [journal EXCEPT ![list] = Append(@, rec)]
Mark(list, rec) == [journal EXCEPT ![list] = Append(Front(@), rec)]
Drop(list) == [journal EXCEPT ![list] = Front(@)]

-----------------------------------------------------------------------------
(* Limit actions *)

InstallOf(f, p) == [op |-> "install", flow |-> f, policy |-> p]
RemoveOf(f) == [op |-> "remove", flow |-> f, policy |-> None]
NoAction == [op |-> "none", flow |-> None, policy |-> None]

\* What the maps must do for the phases to go from old to new.
Actions(old, new) ==
    {RemoveOf(f) : f \in {g \in Flows : old[g] # None /\ new[g] = None}}
    \cup {InstallOf(f, new[f]) : f \in {g \in Flows : new[g] \notin {None, old[g]}}}

Phases == [Flows -> Policies \cup {None}]
AllNormal == [f \in Flows |-> None]

\* prefix_set: the ranges of a configuration are disjoint, and so are their CIDRs.
PrefixSets ==
    {P \in SUBSET Cidrs : \A c, d \in P : c # d => IpsOf[c] \cap IpsOf[d] = {}}

NoTarget == [limited |-> AllNormal, prefixes |-> {}]
NoSnapshot == [limit_policies |-> AllNormal, monitored |-> {}]

Init ==
    /\ limit_policies = AllNormal
    /\ artifacts = [s \in Stores |-> [f \in Flows |-> "absent"]]
    /\ policer_stats = {}
    /\ prefixes \in {P \in PrefixSets : Cardinality(P) <= WhitelistCap}
    /\ monitored = prefixes
    /\ limited = AllNormal /\ expired = AllNormal
    /\ degraded = FALSE
    /\ mode = "tick" /\ pc = "idle"
    /\ todo = {} /\ cur = NoAction /\ target = NoTarget /\ before = NoSnapshot
    /\ journal = EmptyJournal /\ clean = TRUE
    /\ faults = 0 /\ undoFaults = 0
    /\ inflight = [c \in Cpus |-> None] /\ recreated = {}

\* A transaction starts with an empty journal.
NewJournal ==
    /\ journal' = EmptyJournal /\ clean' = TRUE /\ undoFaults' = 0
    /\ before' = [limit_policies |-> limit_policies, monitored |-> monitored]

\* The journal and the plan go out of scope with the handler.
EndTx ==
    /\ pc' = "idle" /\ mode' = "tick"
    /\ todo' = {} /\ cur' = NoAction /\ target' = NoTarget /\ before' = NoSnapshot
    /\ journal' = EmptyJournal /\ clean' = TRUE /\ undoFaults' = 0
    /\ UNCHANGED faults

\* Limiter::tick moves flows into and out of LIMITED, then hands the actions over.
BeginTick(next) ==
    /\ pc = "idle"
    /\ \A f \in Flows : next[f] = limited[f] \/ next[f] = None \/ limited[f] = None
    /\ limited' = next
    /\ expired' = [f \in Flows |-> IF next[f] = None THEN limited[f] ELSE None]
    /\ todo' = Actions(limited, next)
    /\ mode' = "tick"
    /\ pc' = "act"
    /\ UNCHANGED <<maps, prefixes, degraded, cur, target, before, tx>>

\* apply_config: a reload touches LIMITED flows only, and is refused before any
\* map operation when the trie could not hold old and new prefixes together.
BeginReload(next, newPrefixes) ==
    /\ pc = "idle"
    /\ \A f \in Flows : limited[f] = None => next[f] = None
    /\ Cardinality(prefixes \cup newPrefixes) <= WhitelistCap
    /\ target' = [limited |-> next, prefixes |-> newPrefixes]
    /\ todo' = Actions(limited, next)
    /\ mode' = "reload"
    /\ pc' = "wlAdd"
    /\ NewJournal
    /\ UNCHANGED <<maps, control, cur, faults>>

-----------------------------------------------------------------------------
(* Forward steps: each map operation when it succeeds *)

Goto(label) ==
    pc' = label /\ UNCHANGED <<control, drive, clean, faults, undoFaults>>

Pending(wanted, done) == wanted \ Range(done)

\* Variant: every prefix of the new configuration counts as added.
ToAddAll == Pending(target.prefixes, journal.wl_added)
ToAdd == Pending(target.prefixes \ prefixes, journal.wl_added)

ToRemove == Pending(prefixes \ target.prefixes, journal.wl_removed)

WhitelistAdd ==
    /\ pc = "wlAdd"
    /\ \/ \E c \in ToAdd :
            /\ TrieRoom(c)
            /\ wl_insert(c)
            /\ journal' = Push("wl_added", c)
            /\ Goto("wlAdd")
       \/ ToAdd = {} /\ Goto("act") /\ UNCHANGED <<maps, journal>>

\* Removes before installs; a tick gives every action a journal of its own.
StartAction ==
    /\ pc = "act"
    /\ \E a \in todo :
         /\ a.op = "install" => \A b \in todo : b.op = "install"
         /\ cur' = a
         /\ todo' = todo \ {a}
         /\ pc' = a.op
    /\ IF mode = "tick" THEN NewJournal ELSE UNCHANGED <<journal, clean, undoFaults, before>>
    /\ UNCHANGED <<maps, control, mode, target, faults>>

ActionsDone ==
    /\ pc = "act"
    /\ todo = {}
    /\ \/ mode = "tick" /\ EndTx /\ UNCHANGED control
       \/ mode = "reload" /\ Goto("wlDel") /\ UNCHANGED journal
    /\ UNCHANGED maps

\* Variant: the displaced policy stays armed while its state is rewritten.
AfterLookupArmed(old) == "writeState"
AfterLookup(old) == IF old = None THEN "writeState" ELSE "disarmOld"

InstallLookup ==
    /\ pc = "install"
    /\ journal' = Push("installs", InstallRecord(cur.flow, limit_policies[cur.flow]))
    /\ Goto(AfterLookup(limit_policies[cur.flow]))
    /\ UNCHANGED maps

\* Variant: the displaced algorithm's artifact is left behind.
AfterDisarmKeeps(old) == "writeState"
AfterDisarm(old) == IF AlgoOf[old] # AlgoOf[cur.policy] THEN "clearOld" ELSE "writeState"

DisarmOld ==
    /\ pc = "disarmOld"
    /\ LET rec == Last(journal.installs) IN
       /\ disarm_policy(cur.flow)
       /\ journal' = Mark("installs", [rec EXCEPT !.old_disarmed = TRUE])
       /\ Goto(AfterDisarm(rec.old))

ClearOld ==
    /\ pc = "clearOld"
    /\ clear_state(cur.flow, AlgoOf[Last(journal.installs).old])
    /\ Goto("writeState")
    /\ UNCHANGED journal

WriteState ==
    /\ pc = "writeState"
    /\ LET algo == AlgoOf[cur.policy] IN
       /\ StateRoom(cur.flow, algo)
       /\ write_fresh_state(cur.flow, algo)
       /\ journal' = Mark("installs", [Last(journal.installs) EXCEPT !.new_algorithm = algo])
    /\ Goto("arm")

Arm ==
    /\ pc = "arm"
    /\ PolicyRoom(cur.flow)
    /\ arm_policy(cur.flow, cur.policy)
    /\ journal' = Mark("installs", [Last(journal.installs) EXCEPT !.armed = TRUE])
    /\ Goto("act")

RemoveLookup ==
    /\ pc = "remove"
    /\ LET old == limit_policies[cur.flow] IN
       \/ old = None /\ Goto("act") /\ UNCHANGED journal
       \/ old # None /\ Goto("disarm") /\ journal' = Push("removes", RemoveRecord(cur.flow, old))
    /\ UNCHANGED maps

Disarm ==
    /\ pc = "disarm"
    /\ disarm_policy(cur.flow)
    /\ journal' = Mark("removes", [Last(journal.removes) EXCEPT !.disarmed = TRUE])
    /\ Goto("clearState")

ClearState ==
    /\ pc = "clearState"
    /\ clear_state(cur.flow, AlgoOf[Last(journal.removes).old])
    /\ Goto("clearPolicer")
    /\ UNCHANGED journal

ClearPolicer ==
    /\ pc = "clearPolicer"
    /\ clear_policer(cur.flow)
    /\ Goto("act")
    /\ UNCHANGED journal

WhitelistRemove ==
    /\ pc = "wlDel"
    /\ \E c \in ToRemove : wl_remove(c) /\ journal' = Push("wl_removed", c)
    /\ Goto("wlDel")

\* apply_and_commit after every map operation succeeded.
Commit ==
    /\ pc = "wlDel"
    /\ ToRemove = {}
    /\ limited' = target.limited
    /\ prefixes' = target.prefixes
    /\ EndTx
    /\ UNCHANGED <<maps, expired, degraded>>

\* `?` after a map operation that found no room or failed: rollback starts.
NoRoom ==
    \/ pc = "wlAdd" /\ \E c \in ToAdd : ~TrieRoom(c)
    \/ pc = "writeState" /\ ~StateRoom(cur.flow, AlgoOf[cur.policy])
    \/ pc = "arm" /\ ~PolicyRoom(cur.flow)

MapOpPending ==
    \/ pc = "wlAdd" /\ ToAdd # {}
    \/ pc = "wlDel" /\ ToRemove # {}
    \/ pc \in {"install", "disarmOld", "clearOld", "writeState", "arm",
               "remove", "disarm", "clearState", "clearPolicer"}

Fail ==
    /\ \/ NoRoom /\ UNCHANGED faults
       \/ MapOpPending /\ Fault
    /\ pc' = "undo"
    /\ UNCHANGED <<maps, control, drive, journal, clean, undoFaults>>

-----------------------------------------------------------------------------
(* rollback_journal: records in reverse, each one popped once played back. *)

FirstNonempty(a, b, c, d) ==
    IF journal[a] # <<>> THEN a ELSE IF journal[b] # <<>> THEN b
    ELSE IF journal[c] # <<>> THEN c ELSE d

\* Variants: removes are undone before the installs that took their room; added
\* prefixes go before removed ones are back.
RemovesFirst == FirstNonempty("removes", "installs", "wl_removed", "wl_added")
AddedFirst == FirstNonempty("installs", "removes", "wl_added", "wl_removed")

\* The list whose last record is being played back.
UndoList == FirstNonempty("installs", "removes", "wl_removed", "wl_added")
Undoing == Last(journal[UndoList])

UndoGoto(label) == pc' = label /\ UNCHANGED <<control, drive>>

UndoEntry ==
    CASE UndoList = "installs" ->
           IF Undoing.armed THEN "undoDisarm"
           ELSE IF Undoing.new_algorithm # None THEN "undoClear" ELSE "undoRestore"
      [] UndoList = "removes" -> "undoRestore"
      [] UndoList = "wl_removed" -> "undoReadd"
      [] UndoList = "wl_added" -> "undoUnadd"

UndoNext ==
    /\ pc = "undo"
    /\ journal # EmptyJournal
    /\ UndoGoto(UndoEntry)
    /\ UNCHANGED <<maps, tx>>

UndoDisarm ==
    /\ pc = "undoDisarm"
    /\ disarm_policy(Undoing.key)
    /\ UndoGoto("undoClear")
    /\ UNCHANGED tx

UndoClear ==
    /\ pc = "undoClear"
    /\ clear_state(Undoing.key, Undoing.new_algorithm)
    /\ UndoGoto("undoRestore")
    /\ UNCHANGED tx

\* Variant: rollback takes the new state away and forgets the displaced policy.
RestoreRemovedOnly(rec) == UndoList = "removes" /\ rec.disarmed

\* The displaced or removed policy left LIMIT_POLICIES: it must come back.
MustRestore(rec) ==
    IF UndoList = "installs" THEN rec.old_disarmed ELSE rec.disarmed

Played ==
    journal' = Drop(UndoList) /\ UndoGoto("undo") /\ UNCHANGED <<clean, faults, undoFaults>>

UndoRestore ==
    /\ pc = "undoRestore"
    /\ \/ ~MustRestore(Undoing) /\ Played /\ UNCHANGED maps
       \/ /\ MustRestore(Undoing)
          /\ StateRoom(Undoing.key, AlgoOf[Undoing.old])
          /\ write_fresh_state(Undoing.key, AlgoOf[Undoing.old])
          /\ UndoGoto("undoArm")
          /\ UNCHANGED tx

UndoArm ==
    /\ pc = "undoArm"
    /\ PolicyRoom(Undoing.key)
    /\ arm_policy(Undoing.key, Undoing.old)
    /\ Played

UndoWhitelist ==
    /\ \/ pc = "undoReadd" /\ TrieRoom(Undoing) /\ wl_insert(Undoing)
       \/ pc = "undoUnadd" /\ wl_remove(Undoing)
    /\ Played

\* Variant: a failed disarm does not stop the record's playback.
PressesOn == pc \notin {"undoClear", "undoDisarm"}

\* A failed step ends its record's playback, except that an artifact that cannot
\* be cleared is left as an orphan.
GivesUp == pc # "undoClear"
NextIfKept == IF pc = "undoDisarm" THEN "undoClear" ELSE "undoRestore"

NoRoomToRestore ==
    \/ pc = "undoRestore" /\ MustRestore(Undoing) /\ ~StateRoom(Undoing.key, AlgoOf[Undoing.old])
    \/ pc = "undoArm" /\ ~PolicyRoom(Undoing.key)
    \/ pc = "undoReadd" /\ ~TrieRoom(Undoing)

UndoOpPending ==
    \/ pc \in {"undoDisarm", "undoClear", "undoArm", "undoReadd", "undoUnadd"}
    \/ pc = "undoRestore" /\ MustRestore(Undoing)

UndoFail ==
    /\ \/ NoRoomToRestore /\ UNCHANGED <<faults, undoFaults>>
       \/ UndoOpPending /\ Fault /\ undoFaults' = undoFaults + 1
    /\ clean' = FALSE
    /\ IF GivesUp THEN UndoGoto("undo") /\ journal' = Drop(UndoList)
                  ELSE UndoGoto(NextIfKept) /\ UNCHANGED journal
    /\ UNCHANGED maps

\* Variant: the limiter forgets a flow whose removal failed.
revert_forgets(a) == limited' = [limited EXCEPT ![a.flow] = None]

\* Limiter::revert_failed_action
revert_failed_action(a) ==
    limited' = [limited EXCEPT ![a.flow] = IF a.op = "install" THEN None ELSE expired[a.flow]]

\* Variant: the first failed action of a tick ends the tick.
StopsTick == TRUE

\* A reload ends with its rollback, a tick goes on with the next action.
LastRollback == mode = "reload"

\* apply_tick_actions and apply_and_commit after rollback_journal, and
\* RollbackHealth::record.
UndoDone ==
    /\ pc = "undo"
    /\ journal = EmptyJournal
    /\ degraded' = (degraded \/ ~clean)
    /\ \/ /\ mode = "tick"
          /\ revert_failed_action(cur)
          /\ expired' = [expired EXCEPT ![cur.flow] = None]
       \/ mode = "reload" /\ UNCHANGED <<limited, expired>>
    /\ IF LastRollback THEN EndTx ELSE pc' = "act" /\ UNCHANGED <<drive, tx>>
    /\ UNCHANGED <<maps, prefixes>>

-----------------------------------------------------------------------------
(* police() in the data path.  A packet keeps the policy it copied until it *)
(* has been judged (policy = None), whatever the engine does meanwhile.      *)

FlowPacket(f, p) == [flow |-> f, policy |-> p]
Leaves(c) == inflight' = [inflight EXCEPT ![c] = None]

ReadPolicy(c, f) ==
    /\ inflight[c] = None
    /\ limit_policies[f] # None
    /\ inflight' = [inflight EXCEPT ![c] = FlowPacket(f, limit_policies[f])]
    /\ UNCHANGED <<maps, recreated>>

\* A packet is late when the policy it copied is no longer the armed one.
Touched(f, p, content) ==
    IF limit_policies[f] = p THEN "used" ELSE IF content = "fresh" THEN "late" ELSE content

\* Without the flow's artifact the packet passes and nothing is recorded.
Judge(c) ==
    /\ inflight[c] # None
    /\ inflight[c].policy # None
    /\ LET f == inflight[c].flow
           p == inflight[c].policy
           s == Store(AlgoOf[p]) IN
       IF artifacts[s][f] = "absent" THEN Leaves(c) /\ UNCHANGED artifacts
       ELSE /\ artifacts' = [artifacts EXCEPT ![s][f] = Touched(f, p, artifacts[s][f])]
            /\ inflight' = [inflight EXCEPT ![c] = FlowPacket(f, None)]
    /\ UNCHANGED <<limit_policies, policer_stats, monitored, recreated>>

\* record_verdict inserts the entry it does not find, or skips it when it cannot.
RecordVerdict(c) ==
    /\ inflight[c] # None
    /\ inflight[c].policy = None
    /\ LET f == inflight[c].flow IN
       \/ /\ policer_stats' = policer_stats \cup {f}
          /\ recreated' = IF f \notin policer_stats /\ limit_policies[f] = None
                             THEN recreated \cup {f} ELSE recreated
       \/ f \notin policer_stats /\ UNCHANGED <<policer_stats, recreated>>
    /\ Leaves(c)
    /\ UNCHANGED <<limit_policies, artifacts, monitored>>

-----------------------------------------------------------------------------
Forward ==
    \/ WhitelistAdd \/ StartAction \/ ActionsDone
    \/ InstallLookup \/ DisarmOld \/ ClearOld \/ WriteState \/ Arm
    \/ RemoveLookup \/ Disarm \/ ClearState \/ ClearPolicer
    \/ WhitelistRemove \/ Commit \/ Fail

Undo ==
    \/ UndoNext \/ UndoDisarm \/ UndoClear \/ UndoRestore \/ UndoArm
    \/ UndoWhitelist \/ UndoFail \/ UndoDone

\* A re-created entry is no longer one once it is deleted or its flow armed again.
Engine ==
    /\ \/ \E next \in Phases : BeginTick(next)
       \/ \E next \in Phases, P \in PrefixSets : BeginReload(next, P)
       \/ Forward
       \/ Undo
    /\ recreated' = {f \in recreated \cap policer_stats' : limit_policies'[f] = None}
    /\ UNCHANGED inflight

DataPath ==
    /\ \E c \in Cpus : (\E f \in Flows : ReadPolicy(c, f)) \/ Judge(c) \/ RecordVerdict(c)
    /\ UNCHANGED <<control, drive, pc, tx>>

Next == Engine \/ DataPath

Spec == Init /\ [][Next]_vars

-----------------------------------------------------------------------------
(* Properties *)

ActionSet ==
    [op : {"install"}, flow : Flows, policy : Policies]
    \cup [op : {"remove"}, flow : Flows, policy : {None}]

InstallRecords ==
    [key : Flows, old : Policies \cup {None}, old_disarmed : BOOLEAN,
     new_algorithm : Algorithms \cup {None}, armed : BOOLEAN]

RemoveRecords == [key : Flows, old : Policies, disarmed : BOOLEAN]

Contents == {"absent", "fresh", "late", "used"}
FlowPackets == [flow : Flows, policy : Policies \cup {None}]

Labels ==
    {"idle", "wlAdd", "act", "install", "disarmOld", "clearOld", "writeState", "arm",
     "remove", "disarm", "clearState", "clearPolicer", "wlDel",
     "undo", "undoDisarm", "undoClear", "undoRestore", "undoArm", "undoReadd", "undoUnadd"}

EngineTypeOK ==
    /\ limit_policies \in Phases
    /\ artifacts \in [Stores -> [Flows -> Contents]]
    /\ policer_stats \subseteq Flows
    /\ monitored \subseteq Cidrs
    /\ limited \in Phases
    /\ expired \in Phases
    /\ prefixes \subseteq Cidrs
    /\ degraded \in BOOLEAN
    /\ mode \in {"tick", "reload"}
    /\ pc \in Labels
    /\ todo \subseteq ActionSet
    /\ cur \in ActionSet \cup {NoAction}
    /\ target \in [limited : Phases, prefixes : SUBSET Cidrs]
    /\ journal \in [installs : Seq(InstallRecords), removes : Seq(RemoveRecords),
                    wl_added : Seq(Cidrs), wl_removed : Seq(Cidrs)]
    /\ clean \in BOOLEAN
    /\ faults \in Nat
    /\ undoFaults \in Nat
    /\ before \in [limit_policies : Phases, monitored : SUBSET Cidrs]

PacketTypeOK ==
    /\ inflight \in [Cpus -> FlowPackets \cup {None}]
    /\ recreated \subseteq Flows

\* The maps, the limiter's view, the journal of the engine and the packets have the
\* types of their Rust declarations.
TypeOK == EngineTypeOK /\ PacketTypeOK

\* The hard invariant of txmaps.rs: an armed policy always has the state artifact
\* of its algorithm, in every intermediate state of an install, a remove and a
\* rollback, whatever map operations failed.
ArmedHasState ==
    \A f \in Flows : limit_policies[f] # None =>
        artifacts[Store(AlgoOf[limit_policies[f]])][f] # "absent"

\* A flow that the limiter holds NORMAL has no armed policy between transactions,
\* not even after a rollback that failed halfway.
NormalIsUnpoliced ==
    pc = "idle" => \A f \in Flows : limited[f] = None => limit_policies[f] = None

\* Unless a rollback has failed, the data path enforces between transactions
\* exactly the policies the limiter believes applied, and counts exactly the
\* prefixes of the visible configuration.
DataPlaneMatchesControl ==
    pc = "idle" /\ ~degraded => limit_policies = limited /\ monitored = prefixes

\* Unless a rollback has failed, no transaction leaks a map entry: an artifact
\* exists only in the store of the armed policy, and a policer entry only for an
\* armed flow or because a packet that was past its policy lookup made it anew
\* after the policy had gone (record_verdict).
NoOrphans ==
    pc = "idle" /\ ~degraded =>
        \A f \in Flows :
            /\ \A s \in Stores : artifacts[s][f] # "absent" =>
                   limit_policies[f] # None /\ s = Store(AlgoOf[limit_policies[f]])
            /\ f \in policer_stats /\ limit_policies[f] = None => f \in recreated

\* Full maps alone never make a rollback fail: undoing in reverse order gives
\* every restored entry the room it had before.
RollbackNeedsNoRoom ==
    ~clean => degraded \/ undoFaults > 0

\* An address that the old and the new configuration both monitor is monitored at
\* every step of the reload that swaps its prefixes, and of that reload's rollback.
Covered(P) == UNION {IpsOf[c] : c \in P}

NoCoverageGap ==
    mode = "reload" /\ clean /\ ~degraded =>
        Covered(prefixes) \cap Covered(target.prefixes) \subseteq Covered(monitored)

\* A policy becomes armed only on an artifact that was zeroed after the displaced
\* policy had gone: nothing but packets that had copied a policy before it was
\* disarmed can have touched it since.
ArmsOnFreshState ==
    [][\A f \in Flows : limit_policies'[f] \notin {None, limit_policies[f]} =>
         artifacts[Store(AlgoOf[limit_policies'[f]])][f] \in {"fresh", "late"}]_vars

(* Refinement: the transactions are atomic to the rest of the engine. *)

\* The maps have a transaction's writes under way.
InTx == pc \notin {"idle", "act"} \/ (pc = "act" /\ mode = "reload")

\* The tick's actions whose outcome is still open.
Open(f) ==
    /\ mode = "tick"
    /\ \/ InTx /\ cur.flow = f
       \/ \E a \in todo : a.flow = f

Atomic == INSTANCE AtomicLimits WITH
    armed <- IF InTx THEN before.limit_policies ELSE limit_policies,
    monitored <- IF InTx THEN before.monitored ELSE monitored,
    limited <- [f \in Flows |-> IF Open(f) THEN expired[f] ELSE limited[f]]

\* Every behaviour of the step-by-step transactions is one of atomic tick
\* actions and atomic reloads: a failed action is confined to its flow, a failed
\* reload leaves the phases, the configuration and the data path as they were.
ImplementsAtomicLimits == Atomic!Spec

=============================================================================
