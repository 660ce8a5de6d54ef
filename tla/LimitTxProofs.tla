---------------------------- MODULE LimitTxProofs ----------------------------
(***************************************************************************)
(* Proofs about LimitTx for any flows, prefixes, policies, map sizes and   *)
(* number of map errors.  The hard invariant ArmedHasState is not          *)
(* inductive by itself: that a clear never hits an armed flow depends on   *)
(* where the engine is (ActionInv, MapInv, UndoInv) and on how far each    *)
(* journaled install got (JournalInv).                                     *)
(***************************************************************************)
EXTENDS LimitTx, SequenceTheorems, TLAPS

Mid == {"disarmOld", "clearOld", "writeState", "arm"}

UndoLabels ==
    {"undo", "undoDisarm", "undoClear", "undoRestore", "undoArm", "undoReadd", "undoUnadd"}

Present(f, algo) == artifacts[Store(algo)][f] # "absent"

\* Where the engine is says what it acts on ...
ActionInv ==
    /\ pc \in {"install"} \cup Mid => cur \in ActionSet /\ cur.policy \in Policies
    /\ pc \in {"remove", "disarm", "clearState", "clearPolicer"} => cur \in ActionSet
    /\ pc \in Mid => /\ journal.installs # <<>>
                     /\ Last(journal.installs).key = cur.flow
                     /\ ~Last(journal.installs).armed
    /\ pc = "disarmOld" => Last(journal.installs).old \in Policies
    /\ pc \in Mid \ {"arm"} => Last(journal.installs).new_algorithm = None
    /\ pc \in {"disarm", "clearState", "clearPolicer"} => journal.removes # <<>>

\* ... that a flow whose artifacts are about to change is not armed, and that an
\* artifact was just written for a flow about to be armed.
MapInv ==
    /\ pc \in Mid \ {"disarmOld"} => limit_policies[cur.flow] = None
    /\ pc = "arm" => Present(cur.flow, AlgoOf[cur.policy])
    /\ pc = "clearState" => limit_policies[cur.flow] = None
    /\ pc = "undoClear" => limit_policies[Last(journal.installs).key] = None
    /\ pc = "undoArm" => Present(Undoing.key, AlgoOf[Undoing.old])

\* Which record rollback is playing back.
UndoInv ==
    /\ pc \in {"undoDisarm", "undoClear"} => journal.installs # <<>>
    /\ pc \in {"undoRestore", "undoArm"} =>
           journal.installs # <<>> \/ journal.removes # <<>>
    /\ pc = "undoArm" => MustRestore(Undoing)
    /\ pc = "undoReadd" => /\ journal.installs = <<>> /\ journal.removes = <<>>
                           /\ journal.wl_removed # <<>>
    /\ pc = "undoUnadd" => /\ journal.installs = <<>> /\ journal.removes = <<>>
                           /\ journal.wl_removed = <<>> /\ journal.wl_added # <<>>

\* What the journal says about the installs it recorded: only the last one may
\* have stopped halfway, and a half-done install has left its flow unarmed.
JournalInv ==
    \A i \in 1..Len(journal.installs) :
        LET rec == journal.installs[i] IN
        /\ rec.old_disarmed => rec.old \in Policies
        /\ ~rec.armed => i = Len(journal.installs) /\ pc \in Mid \cup UndoLabels
        /\ ~rec.armed /\ rec.new_algorithm # None => limit_policies[rec.key] = None

IInv == EngineTypeOK /\ ActionInv /\ MapInv /\ UndoInv /\ JournalInv /\ ArmedHasState

-----------------------------------------------------------------------------
(* Sequences as journal lists *)

\* Taking the last record of a journal list leaves the others in place.
LEMMA FrontLast ==
    ASSUME NEW S, NEW s \in Seq(S), s # <<>>
    PROVE  /\ Len(s) \in Nat /\ Len(s) > 0
           /\ Last(s) \in S /\ Last(s) = s[Len(s)]
           /\ Front(s) \in Seq(S)
           /\ Len(Front(s)) = Len(s) - 1
           /\ \A i \in 1..Len(s) - 1 : Front(s)[i] = s[i]
  <1>1. Len(s) \in Nat \ {0} /\ s \in [1..Len(s) -> S]
    BY EmptySeq, LenProperties
  <1>2. \A i \in 1..Len(s) - 1 : s[i] \in S
    BY <1>1
  <1>3. /\ SubSeq(s, 1, Len(s) - 1) \in Seq(S)
        /\ Len(SubSeq(s, 1, Len(s) - 1)) = Len(s) - 1
        /\ \A i \in 1..Len(s) - 1 : SubSeq(s, 1, Len(s) - 1)[i] = s[i]
    BY <1>1, <1>2, SubSeqProperties
  <1> QED  BY <1>1, <1>3 DEF Front, Last

\* Marking progress replaces the last record of a journal list and nothing else.
LEMMA MarkLast ==
    ASSUME NEW S, NEW s \in Seq(S), s # <<>>, NEW r \in S
    PROVE  LET t == Append(Front(s), r) IN
           /\ t \in Seq(S) /\ t # <<>>
           /\ Len(t) = Len(s)
           /\ Last(t) = r /\ t[Len(s)] = r
           /\ \A i \in 1..Len(s) - 1 : t[i] = s[i]
  <1>1. /\ Front(s) \in Seq(S) /\ Len(Front(s)) = Len(s) - 1
        /\ \A i \in 1..Len(s) - 1 : Front(s)[i] = s[i]
    BY FrontLast
  <1>2. Len(s) \in Nat /\ Len(s) > 0
    BY FrontLast
  <1> QED  BY <1>1, <1>2, AppendProperties DEF Last

\* A new record goes to the end of its journal list.
LEMMA AppendLast ==
    ASSUME NEW S, NEW s \in Seq(S), NEW r \in S
    PROVE  LET t == Append(s, r) IN
           /\ t \in Seq(S) /\ t # <<>>
           /\ Len(s) \in Nat /\ Len(t) = Len(s) + 1
           /\ Last(t) = r /\ t[Len(s) + 1] = r
           /\ \A i \in 1..Len(s) : t[i] = s[i]
  BY AppendProperties, LenProperties DEF Last


\* Playback takes installs first, then removes, then the whitelist.
LEMMA UndoListCases ==
    /\ journal.installs # <<>> => UndoList = "installs" /\ Undoing = Last(journal.installs)
    /\ journal.installs = <<>> /\ journal.removes # <<>> =>
           UndoList = "removes" /\ Undoing = Last(journal.removes)
    /\ journal.installs = <<>> /\ journal.removes = <<>> /\ journal.wl_removed # <<>> =>
           UndoList = "wl_removed" /\ Undoing = Last(journal.wl_removed)
    /\ journal.installs = <<>> /\ journal.removes = <<>> /\ journal.wl_removed = <<>> =>
           UndoList = "wl_added" /\ Undoing = Last(journal.wl_added)
  BY DEF UndoList, Undoing, FirstNonempty

-----------------------------------------------------------------------------
(* The map operations *)

ArtifactMaps == [Stores -> [Flows -> Contents]]

JournalType ==
    [installs : Seq(InstallRecords), removes : Seq(RemoveRecords),
     wl_added : Seq(Cidrs), wl_removed : Seq(Cidrs)]

\* Disarming is always safe and touches one flow.
LEMMA DisarmKeeps ==
    ASSUME EngineTypeOK, ArmedHasState, NEW f \in Flows, disarm_policy(f)
    PROVE  /\ limit_policies' \in Phases /\ limit_policies'[f] = None
           /\ \A g \in Flows : limit_policies[g] = None => limit_policies'[g] = None
           /\ UNCHANGED <<artifacts, policer_stats, monitored>>
           /\ ArmedHasState'
  BY DEF EngineTypeOK, ArmedHasState, disarm_policy, arm_policy, Phases

\* Arming is safe once the algorithm's artifact is in place.
LEMMA ArmKeeps ==
    ASSUME EngineTypeOK, ArmedHasState, NEW f \in Flows, NEW p \in Policies,
           Present(f, AlgoOf[p]), arm_policy(f, p)
    PROVE  /\ limit_policies' \in Phases
           /\ UNCHANGED <<artifacts, policer_stats, monitored>>
           /\ ArmedHasState'
  BY DEF EngineTypeOK, ArmedHasState, Present, arm_policy, Phases

\* Writing fresh state never takes an artifact away.
LEMMA WriteKeeps ==
    ASSUME EngineTypeOK, ArmedHasState, NEW f \in Flows, NEW algo, write_fresh_state(f, algo)
    PROVE  /\ artifacts' \in ArtifactMaps /\ artifacts'[Store(algo)][f] = "fresh"
           /\ UNCHANGED <<limit_policies, policer_stats, monitored>>
           /\ ArmedHasState'
  <1>1. Store(algo) \in Stores
    BY DEF Store, Stores
  <1>2. /\ artifacts' = [artifacts EXCEPT ![Store(algo)][f] = "fresh"]
        /\ UNCHANGED <<limit_policies, policer_stats, monitored>>
    BY DEF write_fresh_state, SetArtifact
  <1>3. \A s \in Stores, g \in Flows :
            artifacts'[s][g] = IF s = Store(algo) /\ g = f THEN "fresh" ELSE artifacts[s][g]
    BY <1>1, <1>2 DEF EngineTypeOK
  <1>4. artifacts' \in ArtifactMaps
    BY <1>1, <1>2 DEF EngineTypeOK, ArtifactMaps, Contents
  <1>5. \A p : Store(AlgoOf[p]) \in Stores
    BY DEF Store, Stores
  <1>6. ArmedHasState'
    BY <1>2, <1>3, <1>5 DEF ArmedHasState
  <1> QED  BY <1>1, <1>2, <1>3, <1>4, <1>6

\* Clearing state is safe on a flow that is not armed.
LEMMA ClearKeeps ==
    ASSUME EngineTypeOK, ArmedHasState, NEW f \in Flows, NEW algo, limit_policies[f] = None,
           clear_state(f, algo)
    PROVE  /\ artifacts' \in ArtifactMaps
           /\ UNCHANGED <<limit_policies, policer_stats, monitored>>
           /\ ArmedHasState'
  <1>1. Store(algo) \in Stores
    BY DEF Store, Stores
  <1>2. /\ artifacts' = [artifacts EXCEPT ![Store(algo)][f] = "absent"]
        /\ UNCHANGED <<limit_policies, policer_stats, monitored>>
    BY DEF clear_state, SetArtifact
  <1>3. \A s \in Stores, g \in Flows \ {f} : artifacts'[s][g] = artifacts[s][g]
    BY <1>1, <1>2 DEF EngineTypeOK
  <1>4. artifacts' \in ArtifactMaps
    BY <1>1, <1>2 DEF EngineTypeOK, ArtifactMaps, Contents
  <1>5. \A p : Store(AlgoOf[p]) \in Stores
    BY DEF Store, Stores
  <1>6. ArmedHasState'
    BY <1>2, <1>3, <1>5 DEF ArmedHasState
  <1> QED  BY <1>2, <1>4, <1>6

-----------------------------------------------------------------------------
(* The initial states *)

\* The daemon starts with empty limit maps and an empty journal.
LEMMA InitIInv == Init => IInv
  <1> SUFFICES ASSUME Init PROVE IInv
    OBVIOUS
  <1> USE PolicyAssumption DEF Init, EmptyJournal
  <1>1. EngineTypeOK
    <2>1. AllNormal \in Phases
      BY DEF AllNormal, Phases
    <2>2. artifacts \in ArtifactMaps
      BY DEF ArtifactMaps, Contents
    <2>3. monitored \subseteq Cidrs /\ prefixes \subseteq Cidrs
      BY DEF PrefixSets
    <2>4. journal \in JournalType
      BY DEF JournalType
    <2>5. target \in [limited : Phases, prefixes : SUBSET Cidrs]
      BY <2>1 DEF NoTarget
    <2>6. before \in [limit_policies : Phases, monitored : SUBSET Cidrs]
      BY <2>1 DEF NoSnapshot
    <2> QED  BY <2>1, <2>2, <2>3, <2>4, <2>5, <2>6 DEF EngineTypeOK, Labels, ArtifactMaps, JournalType
  <1>2. ActionInv /\ MapInv /\ UndoInv
    BY DEF ActionInv, MapInv, UndoInv, Mid
  <1>3. JournalInv
    BY DEF JournalInv
  <1>4. ArmedHasState
    BY DEF ArmedHasState, AllNormal
  <1> QED  BY <1>1, <1>2, <1>3, <1>4 DEF IInv

-----------------------------------------------------------------------------
(* Every step preserves the invariant: transactions begin and end *)

Calm == {"idle", "wlAdd", "act", "wlDel"}

\* Between actions only the types, the artifacts and the finished installs matter.
LEMMA CalmKeeps ==
    ASSUME IInv, EngineTypeOK', ArmedHasState', pc' \in Calm,
           \/ journal'.installs = <<>>
           \/ journal'.installs = journal.installs /\ pc \notin Mid \cup UndoLabels
    PROVE  IInv'
  <1>1. ActionInv' /\ MapInv' /\ UndoInv'
    BY DEF ActionInv, MapInv, UndoInv, Mid, Calm
  <1>2. JournalInv'
    <2>1. CASE journal'.installs = <<>>
      BY <2>1 DEF JournalInv
    <2>2. CASE journal'.installs = journal.installs /\ pc \notin Mid \cup UndoLabels
      BY <2>2 DEF IInv, JournalInv
    <2> QED  BY <2>1, <2>2
  <1> QED  BY <1>1, <1>2 DEF IInv

\* Nothing but the phases and the plan changes when the maps stay.
LEMMA MapsStay ==
    ASSUME IInv, UNCHANGED maps
    PROVE  /\ ArmedHasState'
           /\ limit_policies' \in Phases /\ artifacts' \in ArtifactMaps
           /\ policer_stats' \subseteq Flows /\ monitored' \subseteq Cidrs
  BY DEF IInv, EngineTypeOK, ArmedHasState, maps, ArtifactMaps

\* Appending to a journal list.
LEMMA PushType ==
    ASSUME journal \in JournalType
    PROVE  /\ \A r \in InstallRecords :
                  /\ Push("installs", r) \in JournalType
                  /\ Push("installs", r).installs = Append(journal.installs, r)
           /\ \A r \in RemoveRecords :
                  /\ Push("removes", r) \in JournalType
                  /\ Push("removes", r).installs = journal.installs
                  /\ Push("removes", r).removes = Append(journal.removes, r)
           /\ \A c \in Cidrs : /\ Push("wl_added", c) \in JournalType
                               /\ Push("wl_added", c).installs = journal.installs
           /\ \A c \in Cidrs : /\ Push("wl_removed", c) \in JournalType
                               /\ Push("wl_removed", c).installs = journal.installs
  <1> USE DEF JournalType, Push
  <1>1. ASSUME NEW r \in InstallRecords
        PROVE  /\ Push("installs", r) \in JournalType
               /\ Push("installs", r).installs = Append(journal.installs, r)
    BY AppendProperties
  <1>2. ASSUME NEW r \in RemoveRecords
        PROVE  /\ Push("removes", r) \in JournalType
               /\ Push("removes", r).installs = journal.installs
               /\ Push("removes", r).removes = Append(journal.removes, r)
    BY AppendProperties
  <1>3. ASSUME NEW c \in Cidrs
        PROVE  /\ Push("wl_added", c) \in JournalType
               /\ Push("wl_added", c).installs = journal.installs
    BY AppendProperties
  <1>4. ASSUME NEW c \in Cidrs
        PROVE  /\ Push("wl_removed", c) \in JournalType
               /\ Push("wl_removed", c).installs = journal.installs
    BY AppendProperties
  <1> HIDE DEF JournalType, Push
  <1> QED  BY <1>1, <1>2, <1>3, <1>4

\* TxJournal::default() is a journal, without installs.
LEMMA EmptyJournalType == EmptyJournal \in JournalType /\ EmptyJournal.installs = <<>>
  BY DEF JournalType, EmptyJournal

\* The plan and the journal are back to their initial values.
LEMMA EndTxKeeps ==
    ASSUME IInv, EndTx, UNCHANGED maps, limited' \in Phases, expired' \in Phases,
           prefixes' \subseteq Cidrs, degraded' \in BOOLEAN
    PROVE  IInv'
  <1>1. AllNormal \in Phases
    BY DEF AllNormal, Phases
  <1>2. target' \in [limited : Phases, prefixes : SUBSET Cidrs]
    BY <1>1 DEF EndTx, NoTarget
  <1>3. before' \in [limit_policies : Phases, monitored : SUBSET Cidrs]
    BY <1>1 DEF EndTx, NoSnapshot
  <1>4. journal' \in JournalType /\ journal'.installs = <<>>
    BY EmptyJournalType DEF EndTx
  <1>5. faults' \in Nat
    BY DEF EndTx, IInv, EngineTypeOK
  <1>6. /\ pc' = "idle" /\ mode' = "tick" /\ todo' = {} /\ cur' = NoAction
        /\ clean' = TRUE /\ undoFaults' = 0
    BY DEF EndTx
  <1>7. EngineTypeOK'
    BY <1>2, <1>3, <1>4, <1>5, <1>6, MapsStay DEF EngineTypeOK, Labels, JournalType, ArtifactMaps
  <1> QED  BY <1>4, <1>6, <1>7, MapsStay, CalmKeeps DEF Calm

\* The actions that lead from some phases to others are install and remove actions.
LEMMA ActionsType ==
    ASSUME NEW old \in Phases, NEW new \in Phases
    PROVE  Actions(old, new) \subseteq ActionSet
  BY DEF Actions, ActionSet, InstallOf, RemoveOf, Phases

\* Limiter::tick touches phases only: maps and journal stay.
LEMMA BeginTickIInv ==
    ASSUME IInv, NEW next \in Phases, BeginTick(next)  PROVE IInv'
  <1> USE DEF BeginTick, IInv, maps, tx
  <1>1. EngineTypeOK'
    <2>1. expired' \in Phases
      BY DEF EngineTypeOK, Phases
    <2> QED  BY <2>1, ActionsType DEF EngineTypeOK, Labels
  <1> QED  BY <1>1, MapsStay, CalmKeeps DEF Calm, Mid, UndoLabels

\* A reload starts with an empty journal and has touched no map.
LEMMA BeginReloadIInv ==
    ASSUME IInv, NEW next \in Phases, NEW P \in PrefixSets, BeginReload(next, P)  PROVE IInv'
  <1> USE DEF BeginReload, IInv, NewJournal
  <1>1. EngineTypeOK'
    <2>1. P \subseteq Cidrs
      BY DEF PrefixSets
    <2>2. target' \in [limited : Phases, prefixes : SUBSET Cidrs]
      BY <2>1
    <2>3. before' \in [limit_policies : Phases, monitored : SUBSET Cidrs]
      BY DEF EngineTypeOK
    <2>4. Actions(limited, next) \subseteq ActionSet
      BY ActionsType DEF EngineTypeOK
    <2>5. journal' \in JournalType
      BY EmptyJournalType
    <2> QED  BY <2>2, <2>3, <2>4, <2>5, MapsStay
             DEF EngineTypeOK, Labels, control, JournalType, ArtifactMaps
  <1> QED  BY <1>1, MapsStay, CalmKeeps, EmptyJournalType DEF Calm

\* Adding a prefix leaves limit maps and install records alone.
LEMMA WhitelistAddIInv ==
    ASSUME IInv, WhitelistAdd  PROVE IInv'
  <1>1. pc' \in {"wlAdd", "act"} /\ UNCHANGED <<control, drive, clean, faults, undoFaults>>
    BY DEF WhitelistAdd, Goto
  <1>2. /\ UNCHANGED <<limit_policies, artifacts, policer_stats>>
        /\ monitored' \subseteq Cidrs
        /\ journal' \in JournalType /\ journal'.installs = journal.installs
    <2>1. CASE UNCHANGED <<maps, journal>>
      BY <2>1 DEF IInv, EngineTypeOK, maps, JournalType
    <2>2. CASE \E c \in ToAdd : wl_insert(c) /\ journal' = Push("wl_added", c)
      <3>1. PICK c \in ToAdd : wl_insert(c) /\ journal' = Push("wl_added", c)
        BY <2>2
      <3>2. c \in Cidrs
        BY DEF ToAdd, Pending, IInv, EngineTypeOK
      <3> QED  BY <3>1, <3>2, PushType DEF IInv, EngineTypeOK, wl_insert, SetTrie, JournalType
    <2> QED  BY <2>1, <2>2 DEF WhitelistAdd
  <1>3. ArmedHasState'
    BY <1>2 DEF IInv, ArmedHasState
  <1>4. EngineTypeOK'
    BY <1>1, <1>2 DEF IInv, EngineTypeOK, control, drive, Labels, JournalType
  <1> QED  BY <1>1, <1>2, <1>3, <1>4, CalmKeeps DEF Calm, Mid, UndoLabels, WhitelistAdd

\* Removing a prefix leaves limit maps and install records alone.
LEMMA WhitelistRemoveIInv ==
    ASSUME IInv, WhitelistRemove  PROVE IInv'
  <1>1. PICK c \in ToRemove : wl_remove(c) /\ journal' = Push("wl_removed", c)
    BY DEF WhitelistRemove
  <1>2. c \in Cidrs
    BY DEF ToRemove, Pending, IInv, EngineTypeOK
  <1>3. /\ UNCHANGED <<limit_policies, artifacts, policer_stats>>
        /\ monitored' \subseteq Cidrs
        /\ journal' \in JournalType /\ journal'.installs = journal.installs
    BY <1>1, <1>2, PushType DEF IInv, EngineTypeOK, wl_remove, SetTrie, JournalType
  <1>4. pc = "wlDel" /\ pc' = "wlDel" /\ UNCHANGED <<control, drive, clean, faults, undoFaults>>
    BY DEF WhitelistRemove, Goto
  <1>5. ArmedHasState'
    BY <1>3 DEF IInv, ArmedHasState
  <1>6. EngineTypeOK'
    BY <1>3, <1>4 DEF IInv, EngineTypeOK, control, drive, Labels, JournalType
  <1> QED  BY <1>3, <1>4, <1>5, <1>6, CalmKeeps DEF Calm, Mid, UndoLabels

\* The end of the limit actions touches no map.
LEMMA ActionsDoneIInv ==
    ASSUME IInv, ActionsDone  PROVE IInv'
  <1>0. EngineTypeOK
    BY DEF IInv
  <1>1. CASE EndTx /\ UNCHANGED control
    BY <1>0, <1>1, EndTxKeeps DEF ActionsDone, EngineTypeOK, control
  <1>2. CASE Goto("wlDel") /\ UNCHANGED journal
    <2>1. EngineTypeOK'
      BY <1>0, <1>2 DEF ActionsDone, Goto, EngineTypeOK, control, drive, maps, Labels
    <2> QED  BY <1>2, <2>1, MapsStay, CalmKeeps DEF ActionsDone, Goto, Calm, Mid, UndoLabels
  <1> QED  BY <1>1, <1>2 DEF ActionsDone

\* The commit of a reload touches no map.
LEMMA CommitIInv ==
    ASSUME IInv, Commit  PROVE IInv'
  <1>0. EngineTypeOK
    BY DEF IInv
  <1> QED  BY <1>0, EndTxKeeps DEF Commit, EngineTypeOK

\* Fetching the next action touches no map; a tick drops the old journal.
LEMMA StartActionIInv ==
    ASSUME IInv, StartAction  PROVE IInv'
  <1>0. EngineTypeOK /\ pc = "act"
    BY DEF IInv, StartAction
  <1>1. PICK a \in todo : cur' = a /\ todo' = todo \ {a} /\ pc' = a.op
    BY DEF StartAction
  <1>2. /\ a \in ActionSet /\ a.op \in {"install", "remove"}
        /\ a.op = "install" => a.policy \in Policies
    BY <1>0 DEF EngineTypeOK, ActionSet
  <1>3. /\ journal' \in JournalType
        /\ journal'.installs = <<>> \/ journal'.installs = journal.installs
        /\ before' \in [limit_policies : Phases, monitored : SUBSET Cidrs]
        /\ clean' \in BOOLEAN /\ undoFaults' \in Nat
    <2>1. CASE NewJournal
      BY <1>0, <2>1, EmptyJournalType DEF NewJournal, EngineTypeOK
    <2>2. CASE UNCHANGED <<journal, clean, undoFaults, before>>
      BY <1>0, <2>2 DEF EngineTypeOK, JournalType
    <2> QED  BY <2>1, <2>2 DEF StartAction
  <1>4. UNCHANGED <<maps, control, mode, target, faults>>
    BY DEF StartAction
  <1>5. EngineTypeOK'
    BY <1>0, <1>1, <1>2, <1>3, <1>4 DEF EngineTypeOK, maps, control, Labels, JournalType
  <1>6. ActionInv' /\ MapInv' /\ UndoInv'
    BY <1>1, <1>2 DEF ActionInv, MapInv, UndoInv, Mid
  <1>7. JournalInv'
    BY <1>0, <1>3 DEF IInv, JournalInv, Mid, UndoLabels
  <1> QED  BY <1>4, <1>5, <1>6, <1>7, MapsStay DEF IInv

\* A failed map operation leaves the maps and the journal to the rollback.
LEMMA FailIInv ==
    ASSUME IInv, Fail  PROVE IInv'
  <1>0. EngineTypeOK
    BY DEF IInv
  <1>1. /\ pc' = "undo" /\ faults' \in Nat
        /\ UNCHANGED <<maps, control, drive, journal, clean, undoFaults>>
    BY <1>0 DEF Fail, Fault, EngineTypeOK
  <1>2. EngineTypeOK'
    BY <1>0, <1>1 DEF EngineTypeOK, maps, control, drive, Labels
  <1>3. ActionInv' /\ MapInv' /\ UndoInv'
    BY <1>1 DEF ActionInv, MapInv, UndoInv, Mid
  <1>4. JournalInv'
    BY <1>1 DEF IInv, JournalInv, Mid, UndoLabels, maps
  <1> QED  BY <1>1, <1>2, <1>3, <1>4, MapsStay DEF IInv

-----------------------------------------------------------------------------
(* Install and remove *)

\* A map step of an install: the flow and the last record of the journal.
LEMMA InstallFacts ==
    ASSUME IInv, pc \in Mid
    PROVE  LET s == journal.installs IN
           /\ cur \in ActionSet /\ cur.flow \in Flows /\ cur.policy \in Policies
           /\ s \in Seq(InstallRecords) /\ s # <<>>
           /\ Len(s) \in Nat /\ Len(s) > 0
           /\ Last(s) \in InstallRecords /\ Last(s) = s[Len(s)]
           /\ Last(s).key = cur.flow /\ ~Last(s).armed
           /\ Last(s).old_disarmed => Last(s).old \in Policies
           /\ \A i \in 1..Len(s) - 1 : s[i].armed
  <1>1. /\ journal.installs \in Seq(InstallRecords) /\ journal.installs # <<>>
        /\ Last(journal.installs).key = cur.flow /\ ~Last(journal.installs).armed
        /\ cur \in ActionSet /\ cur.policy \in Policies
    BY DEF IInv, ActionInv, EngineTypeOK
  <1>2. cur.flow \in Flows
    BY <1>1 DEF ActionSet
  <1>3. /\ Len(journal.installs) \in Nat /\ Len(journal.installs) > 0
        /\ Last(journal.installs) \in InstallRecords
        /\ Last(journal.installs) = journal.installs[Len(journal.installs)]
    BY <1>1, FrontLast
  <1>4. /\ Last(journal.installs).old_disarmed => Last(journal.installs).old \in Policies
        /\ \A i \in 1..Len(journal.installs) - 1 : journal.installs[i].armed
    BY <1>3 DEF IInv, JournalInv
  <1> QED  BY <1>1, <1>2, <1>3, <1>4

\* Recording the progress of the install under way.
LEMMA MarkInstall ==
    ASSUME IInv, pc \in Mid, NEW r \in InstallRecords, journal' = Mark("installs", r)
    PROVE  LET s == journal.installs  t == journal'.installs IN
           /\ journal' \in JournalType /\ t # <<>>
           /\ Len(t) = Len(s) /\ Last(t) = r /\ t[Len(s)] = r
           /\ \A i \in 1..Len(s) - 1 : t[i] = s[i]
  <1>1. journal \in JournalType
    BY DEF IInv, EngineTypeOK, JournalType
  <1>2. journal.installs \in Seq(InstallRecords) /\ journal.installs # <<>>
    BY InstallFacts
  <1>3. Append(Front(journal.installs), r) \in Seq(InstallRecords)
    BY <1>2, MarkLast
  <1>4. journal' \in JournalType /\ journal'.installs = Append(Front(journal.installs), r)
    BY <1>1, <1>3 DEF JournalType, Mark
  <1>5. LET s == journal.installs  t == Append(Front(s), r) IN
        /\ t # <<>> /\ Len(t) = Len(s) /\ Last(t) = r /\ t[Len(s)] = r
        /\ \A i \in 1..Len(s) - 1 : t[i] = s[i]
    BY <1>2, MarkLast
  <1> QED  BY <1>4, <1>5

\* A step of an install that leaves the record under way well formed.
LEMMA InstallStep ==
    ASSUME IInv, pc \in Mid, pc' \in Mid \cup {"act"}, EngineTypeOK', ArmedHasState', UNCHANGED cur,
           limit_policies'[cur.flow] = None \/ pc' = "act",
           pc' \in {"clearOld", "writeState", "arm", "act"},
           pc' = "arm" => Present(cur.flow, AlgoOf[cur.policy])',
           NEW r \in InstallRecords,
           r.key = cur.flow, r.old_disarmed => r.old \in Policies,
           r.armed <=> pc' = "act", pc' \in {"clearOld", "writeState"} => r.new_algorithm = None,
           \/ journal' = Mark("installs", r)
           \/ journal' = journal /\ r = Last(journal.installs)
    PROVE  IInv'
  <1> DEFINE s == journal.installs
             t == journal'.installs
  <1>1. /\ Len(s) \in Nat /\ Len(s) > 0 /\ \A i \in 1..Len(s) - 1 : s[i].armed
        /\ Last(s) = s[Len(s)] /\ s # <<>>
        /\ cur \in ActionSet /\ cur.policy \in Policies /\ cur.flow \in Flows
    BY InstallFacts
  <1>2. /\ t # <<>> /\ Len(t) = Len(s) /\ Last(t) = r /\ t[Len(s)] = r
        /\ \A i \in 1..Len(s) - 1 : t[i] = s[i]
    BY <1>1, MarkInstall
  <1>3. \A i \in 1..Len(s) - 1 : s[i].old_disarmed => s[i].old \in Policies
    BY <1>1 DEF IInv, JournalInv
  <1> HIDE DEF s, t
  <1>4. \A i \in 1..Len(t) :
            /\ t[i].old_disarmed => t[i].old \in Policies
            /\ ~t[i].armed => i = Len(t) /\ pc' \in Mid \cup UndoLabels
            /\ ~t[i].armed /\ t[i].new_algorithm # None => limit_policies'[t[i].key] = None
    <2> SUFFICES ASSUME NEW i \in 1..Len(t)
                 PROVE  /\ t[i].old_disarmed => t[i].old \in Policies
                        /\ ~t[i].armed => i = Len(t) /\ pc' \in Mid \cup UndoLabels
                        /\ ~t[i].armed /\ t[i].new_algorithm # None => limit_policies'[t[i].key] = None
      OBVIOUS
    <2>1. CASE i = Len(s)
      BY <1>2, <2>1
    <2>2. CASE i \in 1..Len(s) - 1
      BY <1>1, <1>2, <1>3, <2>2
    <2> QED  BY <1>1, <1>2, <2>1, <2>2
  <1>5. JournalInv'
    BY <1>4 DEF JournalInv, t
  <1>6. ActionInv'
    BY <1>1, <1>2 DEF ActionInv, Mid, t
  <1>7. MapInv' /\ UndoInv'
    BY DEF MapInv, UndoInv, Mid
  <1> QED  BY <1>5, <1>6, <1>7 DEF IInv

\* install_limit journals the displaced policy before its first write.
LEMMA InstallLookupIInv ==
    ASSUME IInv, InstallLookup  PROVE IInv'
  <1> DEFINE s == journal.installs
             t == journal'.installs
             r == InstallRecord(cur.flow, limit_policies[cur.flow])
  <1>0. EngineTypeOK /\ pc = "install" /\ journal \in JournalType /\ s \in Seq(InstallRecords)
    BY DEF IInv, InstallLookup, EngineTypeOK, JournalType
  <1>1. cur \in ActionSet /\ cur.flow \in Flows /\ cur.policy \in Policies
    BY <1>0 DEF IInv, ActionInv, ActionSet
  <1>2. /\ r \in InstallRecords /\ r.key = cur.flow /\ ~r.armed /\ r.new_algorithm = None
        /\ r.old = limit_policies[cur.flow] /\ ~r.old_disarmed
    BY <1>0, <1>1 DEF InstallRecord, InstallRecords, EngineTypeOK, Phases
  <1> HIDE DEF r
  <1>3. journal' \in JournalType /\ t = Append(s, r)
    BY <1>0, <1>2, PushType DEF InstallLookup, r
  <1>4. /\ t # <<>> /\ Len(s) \in Nat /\ Len(t) = Len(s) + 1 /\ Last(t) = r
        /\ t[Len(s) + 1] = r /\ \A i \in 1..Len(s) : t[i] = s[i]
    BY <1>0, <1>2, <1>3, AppendLast
  <1>5. \A i \in 1..Len(s) : s[i].armed /\ (s[i].old_disarmed => s[i].old \in Policies)
    BY <1>0 DEF IInv, JournalInv, Mid, UndoLabels
  <1>6. /\ pc' = IF limit_policies[cur.flow] = None THEN "writeState" ELSE "disarmOld"
        /\ UNCHANGED <<maps, control, drive, clean, faults, undoFaults>>
    BY DEF InstallLookup, Goto, AfterLookup
  <1>7. EngineTypeOK'
    BY <1>0, <1>3, <1>6 DEF EngineTypeOK, maps, control, drive, Labels, JournalType
  <1>8. ActionInv'
    BY <1>0, <1>1, <1>2, <1>4, <1>6 DEF ActionInv, Mid, drive, EngineTypeOK, Phases
  <1>9. MapInv' /\ UndoInv'
    BY <1>6 DEF MapInv, UndoInv, Mid, maps, drive
  <1> HIDE DEF s, t
  <1>10. \A i \in 1..Len(t) :
            /\ t[i].old_disarmed => t[i].old \in Policies
            /\ ~t[i].armed => i = Len(t) /\ pc' \in Mid \cup UndoLabels
            /\ ~t[i].armed /\ t[i].new_algorithm # None => limit_policies'[t[i].key] = None
    BY <1>2, <1>4, <1>5, <1>6 DEF Mid
  <1>11. JournalInv'
    BY <1>10 DEF JournalInv, t
  <1> QED  BY <1>6, <1>7, <1>8, <1>9, <1>11, MapsStay DEF IInv

\* Disarming the displaced policy: the record says so once it is confirmed.
LEMMA DisarmOldIInv ==
    ASSUME IInv, DisarmOld  PROVE IInv'
  <1> DEFINE r == [Last(journal.installs) EXCEPT !.old_disarmed = TRUE]
  <1>0. EngineTypeOK /\ ArmedHasState /\ pc = "disarmOld" /\ pc \in Mid
    BY DEF IInv, DisarmOld, Mid
  <1>1. cur.flow \in Flows /\ disarm_policy(cur.flow)
    BY <1>0, InstallFacts DEF DisarmOld
  <1>2. /\ r \in InstallRecords /\ r.key = cur.flow /\ ~r.armed /\ r.old \in Policies
        /\ r.new_algorithm = None
    BY <1>0, InstallFacts DEF InstallRecords, IInv, ActionInv, Mid
  <1>3. /\ journal' = Mark("installs", r) /\ pc' \in {"clearOld", "writeState"}
        /\ UNCHANGED <<control, drive, clean, faults, undoFaults>>
    BY DEF DisarmOld, Goto, AfterDisarm
  <1>4. journal' \in JournalType
    BY <1>0, <1>2, <1>3, MarkInstall
  <1>5. EngineTypeOK'
    BY <1>0, <1>1, <1>3, <1>4, DisarmKeeps DEF EngineTypeOK, control, drive, Labels, JournalType
  <1> HIDE DEF r
  <1> QED  BY <1>0, <1>1, <1>2, <1>3, <1>5, DisarmKeeps, InstallStep DEF Mid, drive

\* The displaced artifact goes only after its policy is disarmed.
LEMMA ClearOldIInv ==
    ASSUME IInv, ClearOld  PROVE IInv'
  <1> DEFINE r == Last(journal.installs)
  <1>0. EngineTypeOK /\ ArmedHasState /\ pc = "clearOld" /\ pc \in Mid
    BY DEF IInv, ClearOld, Mid
  <1>1. cur.flow \in Flows /\ limit_policies[cur.flow] = None /\ clear_state(cur.flow, AlgoOf[r.old])
    BY <1>0, InstallFacts DEF ClearOld, IInv, MapInv, Mid
  <1>2. /\ r \in InstallRecords /\ r.key = cur.flow /\ ~r.armed /\ (r.old_disarmed => r.old \in Policies)
        /\ r.new_algorithm = None
    BY <1>0, InstallFacts DEF IInv, ActionInv, Mid
  <1>3. pc' = "writeState" /\ UNCHANGED <<control, drive, journal, clean, faults, undoFaults>>
    BY DEF ClearOld, Goto
  <1>4. /\ artifacts' \in ArtifactMaps /\ ArmedHasState'
        /\ UNCHANGED <<limit_policies, policer_stats, monitored>>
    BY <1>0, <1>1, ClearKeeps
  <1>5. EngineTypeOK'
    BY <1>0, <1>3, <1>4 DEF EngineTypeOK, control, drive, Labels, ArtifactMaps
  <1> HIDE DEF r
  <1> QED  BY <1>0, <1>1, <1>2, <1>3, <1>4, <1>5, InstallStep DEF Mid, drive, r

\* The fresh artifact is there before anything is armed on it.
LEMMA WriteStateIInv ==
    ASSUME IInv, WriteState  PROVE IInv'
  <1> DEFINE algo == AlgoOf[cur.policy]
             r == [Last(journal.installs) EXCEPT !.new_algorithm = algo]
  <1>0. EngineTypeOK /\ ArmedHasState /\ pc = "writeState" /\ pc \in Mid
    BY DEF IInv, WriteState, Mid
  <1>1. cur.flow \in Flows /\ limit_policies[cur.flow] = None /\ algo \in Algorithms
        /\ write_fresh_state(cur.flow, algo)
    BY <1>0, InstallFacts, PolicyAssumption DEF WriteState, IInv, MapInv, Mid
  <1>2. /\ r \in InstallRecords /\ r.key = cur.flow /\ ~r.armed /\ (r.old_disarmed => r.old \in Policies)
    BY <1>0, <1>1, InstallFacts DEF InstallRecords
  <1>3. /\ journal' = Mark("installs", r) /\ pc' = "arm"
        /\ UNCHANGED <<control, drive, clean, faults, undoFaults>>
    BY DEF WriteState, Goto
  <1>4. /\ artifacts' \in ArtifactMaps /\ ArmedHasState' /\ artifacts'[Store(algo)][cur.flow] = "fresh"
        /\ UNCHANGED <<limit_policies, policer_stats, monitored>>
    BY <1>0, <1>1, WriteKeeps
  <1>5. journal' \in JournalType
    BY <1>0, <1>2, <1>3, MarkInstall
  <1>6. EngineTypeOK'
    BY <1>0, <1>3, <1>4, <1>5 DEF EngineTypeOK, control, drive, Labels, ArtifactMaps, JournalType
  <1>7. Present(cur.flow, AlgoOf[cur.policy])'
    BY <1>3, <1>4 DEF Present, drive
  <1> HIDE DEF r, algo
  <1> QED  BY <1>0, <1>1, <1>2, <1>3, <1>4, <1>6, <1>7, InstallStep DEF Mid, drive

\* Arming comes last: the artifact of the new algorithm is in place.
LEMMA ArmIInv ==
    ASSUME IInv, Arm  PROVE IInv'
  <1> DEFINE r == [Last(journal.installs) EXCEPT !.armed = TRUE]
  <1>0. EngineTypeOK /\ ArmedHasState /\ pc = "arm" /\ pc \in Mid
    BY DEF IInv, Arm, Mid
  <1>1. /\ cur.flow \in Flows /\ cur.policy \in Policies /\ Present(cur.flow, AlgoOf[cur.policy])
        /\ arm_policy(cur.flow, cur.policy)
    BY <1>0, InstallFacts DEF Arm, IInv, MapInv
  <1>2. /\ r \in InstallRecords /\ r.key = cur.flow /\ r.armed /\ (r.old_disarmed => r.old \in Policies)
    BY <1>0, InstallFacts DEF InstallRecords
  <1>3. /\ journal' = Mark("installs", r) /\ pc' = "act"
        /\ UNCHANGED <<control, drive, clean, faults, undoFaults>>
    BY DEF Arm, Goto
  <1>4. /\ limit_policies' \in Phases /\ ArmedHasState'
        /\ UNCHANGED <<artifacts, policer_stats, monitored>>
    BY <1>0, <1>1, ArmKeeps
  <1>5. journal' \in JournalType
    BY <1>0, <1>2, <1>3, MarkInstall
  <1>6. EngineTypeOK'
    BY <1>0, <1>3, <1>4, <1>5 DEF EngineTypeOK, control, drive, Labels, JournalType
  <1> HIDE DEF r
  <1> QED  BY <1>0, <1>2, <1>3, <1>4, <1>6, InstallStep DEF Mid, drive

\* A step of a removal leaves the installs of the journal alone.
LEMMA RemoveStep ==
    ASSUME IInv, pc \in {"remove", "disarm", "clearState", "clearPolicer"},
           pc' \in {"disarm", "clearState", "clearPolicer", "act"}, EngineTypeOK', ArmedHasState',
           UNCHANGED cur, journal'.installs = journal.installs,
           pc' # "act" => journal'.removes # <<>>,
           pc' = "clearState" => limit_policies'[cur.flow] = None
    PROVE  IInv'
  <1>1. ActionInv' /\ MapInv' /\ UndoInv'
    BY DEF IInv, ActionInv, MapInv, UndoInv, Mid
  <1>2. JournalInv'
    BY DEF IInv, JournalInv, Mid, UndoLabels
  <1> QED  BY <1>1, <1>2 DEF IInv

\* What the remove steps know of their action and their record.
LEMMA RemoveFacts ==
    ASSUME IInv, pc \in {"remove", "disarm", "clearState", "clearPolicer"}
    PROVE  /\ EngineTypeOK /\ ArmedHasState /\ journal \in JournalType
           /\ cur \in ActionSet /\ cur.flow \in Flows
           /\ pc # "remove" => journal.removes # <<>> /\ Last(journal.removes) \in RemoveRecords
  <1>1. EngineTypeOK /\ ArmedHasState /\ journal \in JournalType /\ cur \in ActionSet
    BY DEF IInv, EngineTypeOK, ActionInv, JournalType
  <1>2. cur.flow \in Flows
    BY <1>1 DEF ActionSet
  <1>3. pc # "remove" => journal.removes # <<>>
    BY DEF IInv, ActionInv
  <1>4. journal.removes \in Seq(RemoveRecords)
    BY <1>1 DEF JournalType
  <1> QED  BY <1>1, <1>2, <1>3, <1>4, FrontLast

\* remove_limit journals the armed policy, or returns early.
LEMMA RemoveLookupIInv ==
    ASSUME IInv, RemoveLookup  PROVE IInv'
  <1> DEFINE old == limit_policies[cur.flow]
  <1>0. pc = "remove" /\ UNCHANGED maps
    BY DEF RemoveLookup
  <1>1. EngineTypeOK /\ journal \in JournalType /\ cur.flow \in Flows /\ old \in Policies \cup {None}
    BY <1>0, RemoveFacts DEF EngineTypeOK, Phases
  <1>2. CASE Goto("act") /\ UNCHANGED journal
    <2>1. EngineTypeOK'
      BY <1>0, <1>1, <1>2 DEF Goto, EngineTypeOK, maps, control, drive, Labels
    <2> QED  BY <1>0, <1>2, <2>1, MapsStay, RemoveStep DEF Goto, drive
  <1>3. CASE old # None /\ Goto("disarm") /\ journal' = Push("removes", RemoveRecord(cur.flow, old))
    <2>1. RemoveRecord(cur.flow, old) \in RemoveRecords
      BY <1>1, <1>3 DEF RemoveRecord, RemoveRecords
    <2>2. /\ journal' \in JournalType /\ journal'.installs = journal.installs
          /\ journal'.removes = Append(journal.removes, RemoveRecord(cur.flow, old))
      BY <1>1, <1>3, <2>1, PushType
    <2>3. journal'.removes # <<>>
      <3>1. journal.removes \in Seq(RemoveRecords)
        BY <1>1 DEF JournalType
      <3>2. Append(journal.removes, RemoveRecord(cur.flow, old)) # <<>>
        BY <2>1, <3>1, AppendLast
      <3> QED  BY <2>2, <3>2
    <2>4. EngineTypeOK'
      BY <1>0, <1>1, <1>3, <2>2 DEF Goto, EngineTypeOK, maps, control, drive, Labels, JournalType
    <2> QED  BY <1>0, <1>3, <2>2, <2>3, <2>4, MapsStay, RemoveStep DEF Goto, drive
  <1> QED  BY <1>2, <1>3 DEF RemoveLookup

\* Disarming a removed policy: the record says so once it is confirmed.
LEMMA DisarmIInv ==
    ASSUME IInv, Disarm  PROVE IInv'
  <1> DEFINE r == [Last(journal.removes) EXCEPT !.disarmed = TRUE]
  <1>0. /\ pc = "disarm" /\ EngineTypeOK /\ ArmedHasState /\ journal \in JournalType /\ cur.flow \in Flows
        /\ journal.removes # <<>> /\ Last(journal.removes) \in RemoveRecords
    BY RemoveFacts DEF Disarm
  <1>1. /\ disarm_policy(cur.flow) /\ journal' = Mark("removes", r) /\ pc' = "clearState"
        /\ UNCHANGED <<control, drive, clean, faults, undoFaults>>
    BY DEF Disarm, Goto
  <1>2. r \in RemoveRecords /\ journal.removes \in Seq(RemoveRecords)
    BY <1>0 DEF RemoveRecords, JournalType
  <1> HIDE DEF r
  <1>3. /\ Append(Front(journal.removes), r) \in Seq(RemoveRecords)
        /\ Append(Front(journal.removes), r) # <<>>
    BY <1>0, <1>2, MarkLast
  <1>4. /\ journal' \in JournalType /\ journal'.installs = journal.installs
        /\ journal'.removes # <<>>
    BY <1>0, <1>1, <1>3 DEF JournalType, Mark
  <1>5. EngineTypeOK'
    BY <1>0, <1>1, <1>4, DisarmKeeps DEF EngineTypeOK, control, drive, Labels, JournalType
  <1> QED  BY <1>0, <1>1, <1>4, <1>5, DisarmKeeps, RemoveStep DEF drive

\* The artifact of a removed policy goes only after the disarm.
LEMMA ClearStateIInv ==
    ASSUME IInv, ClearState  PROVE IInv'
  <1>0. /\ pc = "clearState" /\ EngineTypeOK /\ ArmedHasState /\ cur.flow \in Flows
        /\ journal.removes # <<>> /\ limit_policies[cur.flow] = None
    BY RemoveFacts DEF ClearState, IInv, MapInv
  <1>1. /\ clear_state(cur.flow, AlgoOf[Last(journal.removes).old]) /\ pc' = "clearPolicer"
        /\ UNCHANGED <<journal, control, drive, clean, faults, undoFaults>>
    BY DEF ClearState, Goto
  <1>2. /\ artifacts' \in ArtifactMaps /\ ArmedHasState'
        /\ UNCHANGED <<limit_policies, policer_stats, monitored>>
    BY <1>0, <1>1, ClearKeeps
  <1>3. EngineTypeOK'
    BY <1>0, <1>1, <1>2 DEF EngineTypeOK, control, drive, Labels, ArtifactMaps
  <1> QED  BY <1>0, <1>1, <1>2, <1>3, RemoveStep DEF drive

\* Clearing the policer counters touches neither policies nor artifacts.
LEMMA ClearPolicerIInv ==
    ASSUME IInv, ClearPolicer  PROVE IInv'
  <1>0. pc = "clearPolicer" /\ EngineTypeOK /\ ArmedHasState
    BY RemoveFacts DEF ClearPolicer
  <1>1. /\ clear_policer(cur.flow) /\ pc' = "act"
        /\ UNCHANGED <<journal, control, drive, clean, faults, undoFaults>>
    BY DEF ClearPolicer, Goto
  <1>2. ArmedHasState'
    BY <1>0, <1>1 DEF clear_policer, ArmedHasState
  <1>3. EngineTypeOK'
    BY <1>0, <1>1 DEF EngineTypeOK, control, drive, Labels, clear_policer
  <1> QED  BY <1>0, <1>1, <1>2, <1>3, RemoveStep DEF drive

-----------------------------------------------------------------------------
(* Rollback *)

\* The record that a map step of the rollback works on.
LEMMA UndoFacts ==
    ASSUME IInv, pc \in {"undoDisarm", "undoClear", "undoRestore", "undoArm"}
    PROVE  /\ EngineTypeOK /\ ArmedHasState
           /\ \/ journal.installs # <<>> /\ UndoList = "installs"
              \/ journal.installs = <<>> /\ journal.removes # <<>> /\ UndoList = "removes"
           /\ Undoing.key \in Flows
           /\ MustRestore(Undoing) => Undoing.old \in Policies
           /\ pc \in {"undoDisarm", "undoClear"} => Undoing = Last(journal.installs)
  <1>1. /\ EngineTypeOK /\ ArmedHasState
        /\ journal.installs \in Seq(InstallRecords) /\ journal.removes \in Seq(RemoveRecords)
    BY DEF IInv, EngineTypeOK
  <1>2. \/ journal.installs # <<>>
        \/ journal.installs = <<>> /\ journal.removes # <<>> /\ pc \in {"undoRestore", "undoArm"}
    BY DEF IInv, UndoInv
  <1>3. CASE journal.installs # <<>>
    <2>1. UndoList = "installs" /\ Undoing = Last(journal.installs)
      BY <1>3, UndoListCases
    <2>2. /\ Len(journal.installs) \in Nat /\ Len(journal.installs) > 0
          /\ Undoing \in InstallRecords
          /\ Undoing = journal.installs[Len(journal.installs)]
      BY <1>1, <1>3, <2>1, FrontLast
    <2>3. Undoing.old_disarmed => Undoing.old \in Policies
      BY <2>2 DEF IInv, JournalInv
    <2>4. Undoing.key \in Flows
      BY <2>2 DEF InstallRecords
    <2> QED  BY <1>1, <1>3, <2>1, <2>3, <2>4 DEF MustRestore
  <1>4. CASE journal.installs = <<>> /\ journal.removes # <<>> /\ pc \in {"undoRestore", "undoArm"}
    <2>1. UndoList = "removes" /\ Undoing = Last(journal.removes)
      BY <1>4, UndoListCases
    <2>2. Undoing \in RemoveRecords
      BY <1>1, <1>4, <2>1, FrontLast
    <2> QED  BY <1>1, <1>4, <2>1, <2>2 DEF RemoveRecords
  <1> QED  BY <1>2, <1>3, <1>4

\* Every label of the playback but "undo" has a record to play back.
LEMMA UndoListFacts ==
    ASSUME IInv, pc \in UndoLabels \ {"undo"}
    PROVE  /\ UndoList \in {"installs", "removes", "wl_removed", "wl_added"}
           /\ UndoList # "installs" => journal.installs = <<>>
           /\ journal[UndoList] # <<>>
  BY UndoListCases DEF IInv, UndoInv, UndoLabels

\* A record played back leaves a well-formed journal.
LEMMA DropType ==
    ASSUME IInv, pc \in UndoLabels \ {"undo"}, journal' = Drop(UndoList)
    PROVE  /\ journal' \in JournalType
           /\ \/ /\ journal.installs # <<>>
                 /\ journal'.installs = Front(journal.installs)
              \/ /\ journal'.installs = <<>>
  <1>0. journal \in JournalType
    BY DEF IInv, EngineTypeOK, JournalType
  <1>1. CASE UndoList = "installs"
    <2>1. journal.installs \in Seq(InstallRecords) /\ journal.installs # <<>>
      BY <1>0, <1>1, UndoListFacts DEF JournalType
    <2>2. Front(journal.installs) \in Seq(InstallRecords)
      BY <2>1, FrontLast
    <2> QED  BY <1>0, <1>1, <2>1, <2>2 DEF JournalType, Drop
  <1>2. CASE UndoList = "removes"
    <2>1. journal.removes \in Seq(RemoveRecords) /\ journal.removes # <<>>
      BY <1>0, <1>2, UndoListFacts DEF JournalType
    <2>2. Front(journal.removes) \in Seq(RemoveRecords)
      BY <2>1, FrontLast
    <2>3. journal.installs = <<>>
      BY <1>2, UndoListFacts
    <2> QED  BY <1>0, <1>2, <2>2, <2>3 DEF JournalType, Drop
  <1>3. CASE UndoList = "wl_removed"
    <2>1. journal.wl_removed \in Seq(Cidrs) /\ journal.wl_removed # <<>>
      BY <1>0, <1>3, UndoListFacts DEF JournalType
    <2>2. Front(journal.wl_removed) \in Seq(Cidrs)
      BY <2>1, FrontLast
    <2>3. journal.installs = <<>>
      BY <1>3, UndoListFacts
    <2> QED  BY <1>0, <1>3, <2>2, <2>3 DEF JournalType, Drop
  <1>4. CASE UndoList = "wl_added"
    <2>1. journal.wl_added \in Seq(Cidrs) /\ journal.wl_added # <<>>
      BY <1>0, <1>4, UndoListFacts DEF JournalType
    <2>2. Front(journal.wl_added) \in Seq(Cidrs)
      BY <2>1, FrontLast
    <2>3. journal.installs = <<>>
      BY <1>4, UndoListFacts
    <2> QED  BY <1>0, <1>4, <2>2, <2>3 DEF JournalType, Drop
  <1> QED  BY <1>1, <1>2, <1>3, <1>4, UndoListFacts

\* Playing a record back: the records that remain are those of finished installs.
LEMMA DropKeeps ==
    ASSUME IInv, pc \in UndoLabels \ {"undo"}, journal' = Drop(UndoList), pc' = "undo",
           EngineTypeOK', ArmedHasState'
    PROVE  IInv'
  <1> DEFINE s == journal.installs
             t == journal'.installs
  <1>1. ActionInv' /\ MapInv' /\ UndoInv'
    BY DEF ActionInv, MapInv, UndoInv, Mid
  <1>2. JournalInv'
    <2>1. CASE t = <<>>
      BY <2>1 DEF JournalInv
    <2>2. CASE s # <<>> /\ t = Front(s)
      <3>1. s \in Seq(InstallRecords)
        BY DEF IInv, EngineTypeOK
      <3>2. Len(s) \in Nat /\ Len(t) = Len(s) - 1 /\ \A i \in 1..Len(s) - 1 : t[i] = s[i]
        BY <2>2, <3>1, FrontLast
      <3>3. \A i \in 1..Len(s) - 1 : s[i].armed /\ (s[i].old_disarmed => s[i].old \in Policies)
        BY <3>2 DEF IInv, JournalInv
      <3> HIDE DEF s, t
      <3>4. \A i \in 1..Len(t) : t[i].armed /\ (t[i].old_disarmed => t[i].old \in Policies)
        BY <3>2, <3>3
      <3> QED  BY <3>4 DEF JournalInv, t
    <2> QED  BY <2>1, <2>2, DropType
  <1> QED  BY <1>1, <1>2 DEF IInv

\* A step within a record: the journal stays.
LEMMA UndoStep ==
    ASSUME IInv, pc \in {"undoDisarm", "undoClear", "undoRestore"},
           pc' \in {"undoClear", "undoRestore", "undoArm"}, UNCHANGED journal,
           EngineTypeOK', ArmedHasState',
           \A f \in Flows : limit_policies[f] = None => limit_policies'[f] = None,
           pc' = "undoClear" => /\ journal.installs # <<>>
                                /\ limit_policies'[Last(journal.installs).key] = None,
           pc' = "undoArm" => /\ MustRestore(Undoing)
                              /\ artifacts'[Store(AlgoOf[Undoing.old])][Undoing.key] # "absent"
    PROVE  IInv'
  <1>1. UndoList' = UndoList /\ Undoing' = Undoing /\ MustRestore(Undoing)' = MustRestore(Undoing)
    BY DEF UndoList, Undoing, FirstNonempty, MustRestore
  <1>2. ActionInv'
    BY DEF ActionInv, Mid
  <1>3. MapInv'
    BY <1>1 DEF MapInv, Mid, Present
  <1>4. UndoInv'
    BY <1>1 DEF IInv, UndoInv
  <1>5. JournalInv'
    <2>1. \A i \in 1..Len(journal.installs) : journal.installs[i].key \in Flows
      <3>1. journal.installs \in Seq(InstallRecords)
        BY DEF IInv, EngineTypeOK
      <3>2. \A i \in 1..Len(journal.installs) : journal.installs[i] \in InstallRecords
        BY <3>1
      <3> QED  BY <3>2 DEF InstallRecords
    <2> QED  BY <2>1 DEF IInv, JournalInv, Mid, UndoLabels
  <1> QED  BY <1>2, <1>3, <1>4, <1>5 DEF IInv

\* Rollback turns to the last record left and to the step it needs.
LEMMA UndoNextIInv ==
    ASSUME IInv, UndoNext  PROVE IInv'
  <1>0. EngineTypeOK /\ pc = "undo" /\ journal # EmptyJournal /\ pc' = UndoEntry /\ UNCHANGED <<maps, control, drive, tx>>
    BY DEF IInv, UndoNext, UndoGoto
  <1>1. \/ journal.installs # <<>> \/ journal.removes # <<>>
        \/ journal.wl_removed # <<>> \/ journal.wl_added # <<>>
    BY <1>0 DEF EngineTypeOK, EmptyJournal
  <1>2. \/ journal.installs # <<>> /\ pc' \in {"undoDisarm", "undoClear", "undoRestore"}
        \/ journal.installs = <<>> /\ journal.removes # <<>> /\ pc' = "undoRestore"
        \/ /\ journal.installs = <<>> /\ journal.removes = <<>>
           /\ journal.wl_removed # <<>> /\ pc' = "undoReadd"
        \/ /\ journal.installs = <<>> /\ journal.removes = <<>> /\ journal.wl_removed = <<>>
           /\ journal.wl_added # <<>> /\ pc' = "undoUnadd"
    BY <1>0, <1>1, UndoListCases DEF UndoEntry
  <1>3. EngineTypeOK'
    BY <1>0, <1>2 DEF EngineTypeOK, maps, control, drive, tx, Labels
  <1>4. pc' = "undoClear" => limit_policies[Last(journal.installs).key] = None
    <2> SUFFICES ASSUME pc' = "undoClear" PROVE limit_policies[Last(journal.installs).key] = None
      OBVIOUS
    <2>1. journal.installs # <<>> /\ journal.installs \in Seq(InstallRecords)
      BY <1>0, <1>2 DEF EngineTypeOK
    <2>2. ~Last(journal.installs).armed /\ Last(journal.installs).new_algorithm # None
      BY <1>0, <2>1, UndoListCases DEF UndoEntry
    <2>3. /\ Len(journal.installs) \in Nat /\ Len(journal.installs) > 0
          /\ Last(journal.installs) = journal.installs[Len(journal.installs)]
      BY <2>1, FrontLast
    <2>4. Len(journal.installs) \in 1..Len(journal.installs)
      BY <2>3
    <2> QED  BY <2>2, <2>3, <2>4 DEF IInv, JournalInv
  <1>5. ActionInv' /\ MapInv' /\ UndoInv'
    BY <1>0, <1>2, <1>4 DEF ActionInv, MapInv, UndoInv, Mid, tx, maps
  <1>6. JournalInv'
    BY <1>0, <1>2 DEF IInv, JournalInv, Mid, UndoLabels, tx, maps
  <1> QED  BY <1>0, <1>3, <1>5, <1>6, MapsStay DEF IInv

\* Rollback disarms the new policy before it clears its artifact.
LEMMA UndoDisarmIInv ==
    ASSUME IInv, UndoDisarm  PROVE IInv'
  <1>0. /\ pc = "undoDisarm" /\ pc' = "undoClear" /\ disarm_policy(Undoing.key)
        /\ UNCHANGED <<control, drive, tx>>
    BY DEF UndoDisarm, UndoGoto
  <1>1. /\ EngineTypeOK /\ ArmedHasState /\ Undoing.key \in Flows /\ journal.installs # <<>>
        /\ Undoing = Last(journal.installs)
    BY <1>0, UndoFacts DEF IInv, UndoInv
  <1>2. EngineTypeOK'
    BY <1>0, <1>1, DisarmKeeps DEF EngineTypeOK, control, drive, tx, Labels
  <1> QED  BY <1>0, <1>1, <1>2, DisarmKeeps, UndoStep DEF tx

\* Rollback clears the new artifact of a flow that is not armed.
LEMMA UndoClearIInv ==
    ASSUME IInv, UndoClear  PROVE IInv'
  <1>0. /\ pc = "undoClear" /\ pc' = "undoRestore" /\ clear_state(Undoing.key, Undoing.new_algorithm)
        /\ UNCHANGED <<control, drive, tx>>
    BY DEF UndoClear, UndoGoto
  <1>1. /\ EngineTypeOK /\ ArmedHasState /\ Undoing.key \in Flows /\ limit_policies[Undoing.key] = None
    BY <1>0, UndoFacts DEF IInv, MapInv
  <1>2. /\ artifacts' \in ArtifactMaps /\ ArmedHasState'
        /\ UNCHANGED <<limit_policies, policer_stats, monitored>>
    BY <1>0, <1>1, ClearKeeps
  <1>3. EngineTypeOK'
    BY <1>0, <1>1, <1>2 DEF EngineTypeOK, control, drive, tx, Labels, ArtifactMaps
  <1> QED  BY <1>0, <1>2, <1>3, UndoStep DEF tx

\* Rollback writes the restored artifact before it arms the old policy.
LEMMA UndoRestoreIInv ==
    ASSUME IInv, UndoRestore  PROVE IInv'
  <1>0. pc = "undoRestore" /\ EngineTypeOK /\ ArmedHasState
    BY UndoFacts DEF UndoRestore
  <1>1. CASE Played /\ UNCHANGED maps
    <2>1. pc' = "undo" /\ journal' = Drop(UndoList) /\ UNCHANGED <<control, drive, clean, faults, undoFaults>>
      BY <1>1 DEF Played, UndoGoto
    <2>2. journal' \in JournalType
      BY <1>0, <2>1, DropType DEF UndoLabels
    <2>3. EngineTypeOK'
      BY <1>0, <1>1, <2>1, <2>2 DEF EngineTypeOK, maps, control, drive, Labels, JournalType
    <2> QED  BY <1>0, <1>1, <2>1, <2>3, MapsStay, DropKeeps DEF UndoLabels
  <1>2. CASE /\ MustRestore(Undoing)
             /\ write_fresh_state(Undoing.key, AlgoOf[Undoing.old])
             /\ UndoGoto("undoArm") /\ UNCHANGED tx
    <2>1. Undoing.key \in Flows /\ pc' = "undoArm" /\ UNCHANGED <<control, drive, tx>>
      BY <1>0, <1>2, UndoFacts DEF UndoGoto
    <2>2. /\ artifacts' \in ArtifactMaps /\ ArmedHasState'
          /\ artifacts'[Store(AlgoOf[Undoing.old])][Undoing.key] = "fresh"
          /\ UNCHANGED <<limit_policies, policer_stats, monitored>>
      BY <1>0, <1>2, <2>1, WriteKeeps
    <2>3. EngineTypeOK'
      BY <1>0, <2>1, <2>2 DEF EngineTypeOK, control, drive, tx, Labels, ArtifactMaps
    <2> QED  BY <1>0, <1>2, <2>1, <2>2, <2>3, UndoStep DEF tx
  <1> QED  BY <1>1, <1>2 DEF UndoRestore

\* Rollback arms the old policy on the artifact it has just written.
LEMMA UndoArmIInv ==
    ASSUME IInv, UndoArm  PROVE IInv'
  <1>0. /\ pc = "undoArm" /\ arm_policy(Undoing.key, Undoing.old)
        /\ pc' = "undo" /\ journal' = Drop(UndoList)
        /\ UNCHANGED <<control, drive, clean, faults, undoFaults>>
    BY DEF UndoArm, Played, UndoGoto
  <1>1. /\ EngineTypeOK /\ ArmedHasState /\ Undoing.key \in Flows /\ Undoing.old \in Policies
        /\ Present(Undoing.key, AlgoOf[Undoing.old])
    BY <1>0, UndoFacts DEF IInv, UndoInv, MapInv
  <1>2. /\ limit_policies' \in Phases /\ ArmedHasState'
        /\ UNCHANGED <<artifacts, policer_stats, monitored>>
    BY <1>0, <1>1, ArmKeeps
  <1>3. journal' \in JournalType
    BY <1>0, DropType DEF UndoLabels
  <1>4. EngineTypeOK'
    BY <1>0, <1>1, <1>2, <1>3 DEF EngineTypeOK, control, drive, Labels, JournalType
  <1> QED  BY <1>0, <1>2, <1>4, DropKeeps DEF UndoLabels

\* Rolling prefixes back leaves limit maps and install records alone.
LEMMA UndoWhitelistIInv ==
    ASSUME IInv, UndoWhitelist  PROVE IInv'
  <1>0. /\ pc \in {"undoReadd", "undoUnadd"} /\ pc' = "undo" /\ journal' = Drop(UndoList)
        /\ UNCHANGED <<limit_policies, artifacts, policer_stats>>
        /\ UNCHANGED <<control, drive, clean, faults, undoFaults>>
    BY DEF UndoWhitelist, Played, UndoGoto, wl_insert, wl_remove, SetTrie
  <1>1. EngineTypeOK /\ ArmedHasState
    BY DEF IInv
  <1>2. monitored' \subseteq Cidrs
    <2>1. pc = "undoReadd" => Undoing \in Cidrs
      <3>1. journal.wl_removed \in Seq(Cidrs)
        BY <1>1 DEF EngineTypeOK
      <3> QED  BY <3>1, UndoListCases, FrontLast DEF IInv, UndoInv
    <2> QED  BY <1>1, <2>1 DEF UndoWhitelist, wl_insert, wl_remove, SetTrie, EngineTypeOK
  <1>3. journal' \in JournalType
    BY <1>0, DropType DEF UndoLabels
  <1>4. EngineTypeOK'
    BY <1>0, <1>1, <1>2, <1>3 DEF EngineTypeOK, control, drive, Labels, JournalType
  <1>5. ArmedHasState'
    BY <1>0, <1>1 DEF ArmedHasState
  <1> QED  BY <1>0, <1>4, <1>5, DropKeeps DEF UndoLabels

\* A failed rollback step writes nothing; after a failed disarm its record is given up.
LEMMA UndoFailIInv ==
    ASSUME IInv, UndoFail  PROVE IInv'
  <1>0. /\ EngineTypeOK /\ UNCHANGED <<maps, control, drive>> /\ clean' = FALSE
        /\ faults' \in Nat /\ undoFaults' \in Nat
        /\ pc \in UndoLabels \ {"undo"}
    BY DEF IInv, UndoFail, UndoGoto, Fault, EngineTypeOK, NoRoomToRestore, UndoOpPending, UndoLabels
  <1>1. CASE pc # "undoClear"
    <2>1. pc' = "undo" /\ journal' = Drop(UndoList)
      BY <1>1 DEF UndoFail, GivesUp, UndoGoto
    <2>2. journal' \in JournalType
      BY <1>0, <2>1, DropType
    <2>3. EngineTypeOK'
      BY <1>0, <2>1, <2>2 DEF EngineTypeOK, maps, control, drive, Labels, JournalType
    <2> QED  BY <1>0, <2>1, <2>3, MapsStay, DropKeeps
  <1>2. CASE pc = "undoClear"
    <2>1. pc' = "undoRestore" /\ UNCHANGED journal
      BY <1>2 DEF UndoFail, GivesUp, UndoGoto, NextIfKept
    <2>2. EngineTypeOK'
      BY <1>0, <2>1 DEF EngineTypeOK, maps, control, drive, Labels
    <2> QED  BY <1>0, <1>2, <2>1, <2>2, MapsStay, UndoStep DEF maps
  <1> QED  BY <1>1, <1>2

\* The end of a rollback touches no map.
LEMMA UndoDoneIInv ==
    ASSUME IInv, UndoDone  PROVE IInv'
  <1>0. /\ EngineTypeOK /\ pc = "undo" /\ journal = EmptyJournal /\ UNCHANGED <<maps, prefixes>>
        /\ degraded' = (degraded \/ ~clean)
    BY DEF IInv, UndoDone
  <1>1. degraded' \in BOOLEAN
    BY <1>0
  <1>2. limited' \in Phases /\ expired' \in Phases
    <2>1. CASE UNCHANGED <<limited, expired>>
      BY <1>0, <2>1 DEF EngineTypeOK
    <2>2. CASE revert_failed_action(cur) /\ expired' = [expired EXCEPT ![cur.flow] = None]
      BY <1>0, <2>2 DEF EngineTypeOK, revert_failed_action, Phases
    <2> QED  BY <2>1, <2>2 DEF UndoDone
  <1>3. CASE EndTx
    BY <1>0, <1>1, <1>2, <1>3, EndTxKeeps DEF EngineTypeOK
  <1>4. CASE pc' = "act" /\ UNCHANGED <<drive, tx>>
    <2>1. EngineTypeOK'
      BY <1>0, <1>1, <1>2, <1>4 DEF EngineTypeOK, maps, drive, tx, Labels
    <2>2. journal'.installs = <<>>
      BY <1>0, <1>4, EmptyJournalType DEF tx
    <2> QED  BY <1>0, <1>4, <2>1, <2>2, MapsStay, CalmKeeps DEF Calm
  <1> QED  BY <1>3, <1>4 DEF UndoDone

-----------------------------------------------------------------------------
(* Packets and stuttering *)

\* What a packet in flight can do, whatever policy it copied: it touches artifacts
\* that are there, and those of a flow without a policy only as a late packet; a
\* policer entry it makes for such a flow counts as re-created.
LEMMA DataPathFacts ==
    ASSUME IInv, PacketTypeOK, DataPath
    PROVE  /\ UNCHANGED <<limit_policies, monitored, control, drive, pc, tx>>
           /\ artifacts' \in ArtifactMaps
           /\ \A s \in Stores, g \in Flows : (artifacts'[s][g] = "absent") <=> (artifacts[s][g] = "absent")
           /\ \A s \in Stores, g \in Flows : limit_policies[g] = None /\ artifacts[s][g] \in {"fresh", "late"} =>
                  artifacts'[s][g] \in {"fresh", "late"}
           /\ policer_stats' \subseteq Flows
           /\ \A g \in policer_stats' : g \in policer_stats \/ limit_policies[g] # None \/ g \in recreated'
           /\ recreated \subseteq recreated'
           /\ PacketTypeOK'
  <1>1. PICK c \in Cpus : (\E f \in Flows : ReadPolicy(c, f)) \/ Judge(c) \/ RecordVerdict(c)
    BY DEF DataPath
  <1>0. /\ UNCHANGED <<control, drive, pc, tx>> /\ artifacts \in ArtifactMaps /\ policer_stats \subseteq Flows
        /\ limit_policies \in Phases /\ inflight \in [Cpus -> FlowPackets \cup {None}] /\ recreated \subseteq Flows
    BY DEF DataPath, IInv, EngineTypeOK, PacketTypeOK, ArtifactMaps
  <1>2. CASE \E f \in Flows : ReadPolicy(c, f)
    <2>1. PICK f \in Flows : ReadPolicy(c, f)
      BY <1>2
    <2>2. UNCHANGED <<maps, recreated>> /\ inflight' = [inflight EXCEPT ![c] = FlowPacket(f, limit_policies[f])]
      BY <2>1 DEF ReadPolicy
    <2>3. FlowPacket(f, limit_policies[f]) \in FlowPackets
      BY <1>0 DEF FlowPacket, FlowPackets, Phases
    <2>4. inflight' \in [Cpus -> FlowPackets \cup {None}]
      BY <1>0, <2>2, <2>3
    <2> QED  BY <1>0, <2>2, <2>4 DEF maps, PacketTypeOK
  <1>3. CASE Judge(c)
    <2> DEFINE f == inflight[c].flow
               p == inflight[c].policy
               st == Store(AlgoOf[p])
    <2>1. /\ inflight[c] # None /\ p # None /\ inflight[c] \in FlowPackets
          /\ UNCHANGED <<limit_policies, policer_stats, monitored, recreated>>
      BY <1>0, <1>3 DEF Judge
    <2>2. f \in Flows /\ p \in Policies
      BY <2>1 DEF FlowPackets
    <2>3. st \in Stores
      BY DEF Store, Stores
    <2>4. \/ artifacts' = artifacts /\ inflight' = [inflight EXCEPT ![c] = None]
          \/ /\ artifacts[st][f] # "absent"
             /\ artifacts' = [artifacts EXCEPT ![st][f] = Touched(f, p, artifacts[st][f])]
             /\ inflight' = [inflight EXCEPT ![c] = FlowPacket(f, None)]
      BY <1>3 DEF Judge, Leaves
    <2>5. FlowPacket(f, None) \in FlowPackets
      BY <2>2 DEF FlowPacket, FlowPackets
    <2> HIDE DEF f, p, st
    <2>6. inflight' \in [Cpus -> FlowPackets \cup {None}]
      BY <1>0, <2>4, <2>5
    <2>7. CASE artifacts' = artifacts
      BY <1>0, <2>1, <2>6, <2>7 DEF PacketTypeOK
    <2>8. CASE /\ artifacts[st][f] # "absent"
               /\ artifacts' = [artifacts EXCEPT ![st][f] = Touched(f, p, artifacts[st][f])]
      <3>1. artifacts[st][f] \in Contents
        BY <1>0, <2>2, <2>3 DEF ArtifactMaps
      <3>2. /\ Touched(f, p, artifacts[st][f]) \in {"late", "used"}
            /\ limit_policies[f] = None /\ artifacts[st][f] \in {"fresh", "late"} =>
                 Touched(f, p, artifacts[st][f]) = "late"
        BY <2>1, <2>8, <3>1 DEF Touched, Contents
      <3>3. artifacts' \in ArtifactMaps
        BY <1>0, <2>2, <2>3, <2>8, <3>2 DEF ArtifactMaps, Contents
      <3>4. \A s \in Stores, g \in Flows :
               artifacts'[s][g] = IF s = st /\ g = f THEN Touched(f, p, artifacts[st][f]) ELSE artifacts[s][g]
        BY <1>0, <2>2, <2>3, <2>8 DEF ArtifactMaps
      <3> QED  BY <1>0, <2>1, <2>6, <2>8, <3>2, <3>3, <3>4 DEF PacketTypeOK
    <2> QED  BY <2>4, <2>7, <2>8
  <1>4. CASE RecordVerdict(c)
    <2> DEFINE f == inflight[c].flow
    <2>1. /\ inflight[c] \in FlowPackets /\ UNCHANGED <<limit_policies, artifacts, monitored>>
          /\ inflight' = [inflight EXCEPT ![c] = None]
          /\ \/ /\ policer_stats' = policer_stats \cup {f}
                /\ recreated' = IF f \notin policer_stats /\ limit_policies[f] = None
                                   THEN recreated \cup {f} ELSE recreated
             \/ UNCHANGED <<policer_stats, recreated>>
      BY <1>0, <1>4 DEF RecordVerdict, Leaves
    <2>2. f \in Flows
      BY <2>1 DEF FlowPackets
    <2> HIDE DEF f
    <2>3. inflight' \in [Cpus -> FlowPackets \cup {None}]
      BY <1>0, <2>1
    <2> QED  BY <1>0, <2>1, <2>2, <2>3 DEF PacketTypeOK
  <1> QED  BY <1>1, <1>2, <1>3, <1>4

\* A packet only uses an artifact that is there.
LEMMA PacketIInv ==
    ASSUME IInv, PacketTypeOK, DataPath  PROVE IInv'
  <1>0. EngineTypeOK /\ ArmedHasState /\ UNCHANGED <<limit_policies, monitored, control, drive, pc, tx>>
    BY DataPathFacts DEF IInv
  <1>3. artifacts' \in ArtifactMaps /\ policer_stats' \subseteq Flows
    BY DataPathFacts
  <1>4. \A s \in Stores, g \in Flows : artifacts[s][g] # "absent" => artifacts'[s][g] # "absent"
    BY DataPathFacts
  <1>5. \A algo : Store(algo) \in Stores
    BY DEF Store, Stores
  <1>6. ArmedHasState'
    BY <1>0, <1>4, <1>5 DEF ArmedHasState
  <1>7. EngineTypeOK'
    BY <1>0, <1>3 DEF EngineTypeOK, control, drive, tx, ArtifactMaps
  <1>8. UndoList' = UndoList /\ Undoing' = Undoing /\ MustRestore(Undoing)' = MustRestore(Undoing)
    BY <1>0 DEF UndoList, Undoing, FirstNonempty, MustRestore, tx
  <1>9. ActionInv' /\ UndoInv' /\ JournalInv'
    BY <1>0, <1>8 DEF IInv, ActionInv, UndoInv, JournalInv, drive, tx
  <1>10. MapInv'
    <2>1. pc = "arm" => cur.flow \in Flows
      BY InstallFacts DEF Mid
    <2>2. pc = "undoArm" => Undoing.key \in Flows
      BY UndoFacts
    <2> QED  BY <1>0, <1>4, <1>5, <1>8, <2>1, <2>2 DEF IInv, MapInv, Present, drive, tx
  <1> QED  BY <1>6, <1>7, <1>9, <1>10 DEF IInv

\* A step that changes nothing keeps the invariant.
LEMMA StutterIInv ==
    ASSUME IInv, UNCHANGED vars  PROVE IInv'
  <1> USE DEF vars, maps, control, drive, tx
  <1>1. UndoList' = UndoList /\ Undoing' = Undoing /\ MustRestore(Undoing)' = MustRestore(Undoing)
    BY DEF UndoList, Undoing, FirstNonempty, MustRestore
  <1>2. EngineTypeOK' /\ ArmedHasState'
    BY DEF IInv, EngineTypeOK, ArmedHasState
  <1>3. ActionInv' /\ UndoInv' /\ JournalInv'
    BY <1>1 DEF IInv, ActionInv, UndoInv, JournalInv
  <1>4. MapInv'
    BY <1>1 DEF IInv, MapInv, Present
  <1> QED  BY <1>2, <1>3, <1>4 DEF IInv

-----------------------------------------------------------------------------
(* The theorems *)

\* Every step of the engine and of the data path keeps the invariant.
LEMMA NextIInv ==
    ASSUME IInv, PacketTypeOK, [Next]_vars  PROVE IInv'
  <1>1. CASE Forward
    BY <1>1, WhitelistAddIInv, StartActionIInv, ActionsDoneIInv, InstallLookupIInv,
       DisarmOldIInv, ClearOldIInv, WriteStateIInv, ArmIInv, RemoveLookupIInv, DisarmIInv,
       ClearStateIInv, ClearPolicerIInv, WhitelistRemoveIInv, CommitIInv, FailIInv DEF Forward
  <1>2. CASE Undo
    BY <1>2, UndoNextIInv, UndoDisarmIInv, UndoClearIInv, UndoRestoreIInv, UndoArmIInv,
       UndoWhitelistIInv, UndoFailIInv, UndoDoneIInv DEF Undo
  <1>3. CASE \E next \in Phases : BeginTick(next)
    BY <1>3, BeginTickIInv
  <1>4. CASE \E next \in Phases, P \in PrefixSets : BeginReload(next, P)
    BY <1>4, BeginReloadIInv
  <1>5. CASE DataPath
    BY <1>5, PacketIInv
  <1>6. CASE UNCHANGED vars
    BY <1>6, StutterIInv
  <1> QED  BY <1>1, <1>2, <1>3, <1>4, <1>5, <1>6 DEF Next, Engine

LEMMA NextPackets ==
    ASSUME IInv, PacketTypeOK, [Next]_vars  PROVE PacketTypeOK'
  <1>1. CASE Engine
    <2>1. inflight' = inflight /\ recreated' \subseteq recreated
      BY <1>1 DEF Engine
    <2> QED  BY <2>1 DEF PacketTypeOK
  <1>2. CASE DataPath
    BY <1>2, DataPathFacts
  <1>3. CASE UNCHANGED vars
    BY <1>3 DEF vars, packets, PacketTypeOK
  <1> QED  BY <1>1, <1>2, <1>3 DEF Next

\* The strengthened invariant holds in every behaviour of the transactions.
THEOREM Inductive == Spec => [](IInv /\ PacketTypeOK)
  <1>1. Init => IInv /\ PacketTypeOK
    BY InitIInv DEF Init, PacketTypeOK
  <1>2. IInv /\ PacketTypeOK /\ [Next]_vars => (IInv /\ PacketTypeOK)'
    BY NextIInv, NextPackets
  <1> QED  BY <1>1, <1>2, PTL DEF Spec

\* Every map, phase, journal and packet keeps its declared type, for any number of
\* flows, prefixes, policies, CPUs and map errors (txmaps.rs, daemon.rs, police).
THEOREM TypeCorrect == Spec => []TypeOK
  <1>1. IInv /\ PacketTypeOK => TypeOK
    BY DEF IInv, TypeOK
  <1> QED  BY <1>1, Inductive, PTL

\* The hard invariant of txmaps.rs for any number of flows and map errors: a policy
\* is never armed without the state artifact of its algorithm, not even while a
\* rollback is failing.
THEOREM HardInvariant == Spec => []ArmedHasState
  <1>1. IInv => ArmedHasState
    BY DEF IInv
  <1> QED  BY <1>1, Inductive, PTL

=============================================================================
