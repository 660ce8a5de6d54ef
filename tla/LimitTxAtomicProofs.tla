------------------------- MODULE LimitTxAtomicProofs -------------------------
(***************************************************************************)
(* The step-by-step transactions of LimitTx implement AtomicLimits, for    *)
(* any flows, prefixes, policies, map sizes and number of map errors.      *)
(* Beyond LimitTxProofs the argument needs what the journal means: the     *)
(* maps differ from what they were when the transaction began exactly by   *)
(* the steps that the records of the journal say were confirmed            *)
(* (RecordInv, UntouchedInv, TrieInv), and the actions not yet taken are   *)
(* what still separates the maps from the goal (PlanInv, DoneInv).         *)
(***************************************************************************)
EXTENDS LimitTxProofs, FiniteSetTheorems

RemoveLabels == {"disarm", "clearState", "clearPolicer"}
Acting == {"install", "remove"} \cup Mid \cup RemoveLabels

Installs == Range(journal.installs)
Removes == Range(journal.removes)

DistinctKeys(s) == \A i, j \in DOMAIN s : s[i].key = s[j].key => i = j

\* A record of the journal is about this flow.
Keyed(f) == \E r \in Installs \cup Removes : r.key = f

\* cur is the action that the transaction is about.
CurOpen == pc \in Acting \/ (pc \in UndoLabels /\ mode = "tick")

LabelInv ==
    /\ pc = "idle" => mode = "tick"
    /\ pc \in {"idle", "wlDel"} => todo = {}
    /\ pc \in {"wlAdd", "wlDel"} => mode = "reload"
    /\ InTx /\ pc \notin UndoLabels => clean
    /\ ~clean => degraded \/ pc \in UndoLabels

\* What an action changes, and from what.
Goal(f) == IF mode = "tick" THEN limited[f] ELSE target.limited[f]
Past(f) == IF mode = "tick" THEN expired[f] ELSE limited[f]

Planned(a) ==
    /\ a \in ActionSet
    /\ a.policy = Goal(a.flow)
    /\ mode = "tick" => (Past(a.flow) = None <=> a.policy # None)
    /\ mode = "reload" => Past(a.flow) \notin {None, a.policy}

\* The actions to be taken lead to the goal, one for each flow.
PlanInv ==
    /\ \A a \in todo : Planned(a)
    /\ \A a, b \in todo : a.flow = b.flow => a = b
    /\ CurOpen => Planned(cur) /\ \A a \in todo : a.flow # cur.flow
    /\ mode = "reload" => \A f \in Flows : limited[f] = None => target.limited[f] = None

\* What a record is about.
RecordOf(r) ==
    /\ r.old = before.limit_policies[r.key]
    /\ \A a \in todo : a.flow # r.key
    /\ mode = "tick" => r.key = cur.flow
    /\ mode = "reload" => limited[r.key] # None

\* How far the step it records got.
InstallOK(r) ==
    /\ mode = "tick" => ~r.armed
    /\ ~r.armed /\ ~r.old_disarmed => limit_policies[r.key] = r.old
    /\ ~r.armed /\ r.old_disarmed => limit_policies[r.key] = None
    /\ r.armed /\ ~r.old_disarmed => r.old = None

RemoveOK(r) == limit_policies[r.key] = IF r.disarmed THEN None ELSE r.old

KeysInv ==
    /\ DistinctKeys(journal.installs) /\ DistinctKeys(journal.removes)
    /\ \A r \in Installs, q \in Removes : r.key # q.key

RecordInv ==
    InTx => /\ \A r \in Installs : RecordOf(r) /\ InstallOK(r)
            /\ \A r \in Removes : RecordOf(r) /\ RemoveOK(r)
            /\ KeysInv

\* Which record the step under way belongs to, and what it has changed.
StepInv ==
    /\ pc \in {"install", "remove"} => ~Keyed(cur.flow)
    /\ pc \in {"remove"} \cup RemoveLabels => cur.policy = None
    /\ pc \in RemoveLabels => Last(journal.removes).key = cur.flow
    /\ pc = "disarm" => ~Last(journal.removes).disarmed
    /\ pc \in {"clearState", "clearPolicer"} => Last(journal.removes).disarmed
    /\ pc = "undoDisarm" => Last(journal.installs).armed
    /\ /\ pc \in {"undoClear", "undoRestore", "undoArm"} /\ journal.installs # <<>>
       /\ Last(journal.installs).armed
       => limit_policies[Last(journal.installs).key] = None

\* Only a failed rollback leaves a flow without a record changed.
Lost(f) == IF mode = "tick" THEN f = cur.flow /\ limit_policies[f] = None ELSE limited[f] # None

UntouchedInv ==
    InTx => \A f \in Flows : ~Keyed(f) =>
        limit_policies[f] = before.limit_policies[f] \/ (~clean /\ Lost(f))

\* What a reload has done of its plan.
DoneInv ==
    mode = "reload" /\ pc \notin UndoLabels =>
        \A f \in Flows :
            IF target.limited[f] = limited[f] THEN limit_policies[f] = before.limit_policies[f]
            ELSE \/ \E a \in todo : a.flow = f
                 \/ pc \in Acting /\ cur.flow = f
                 \/ limit_policies[f] = target.limited[f]

TrieInv ==
    /\ InTx /\ mode = "tick" =>
         /\ before.monitored = monitored
         /\ journal.wl_added = <<>> /\ journal.wl_removed = <<>>
    /\ mode = "reload" =>
         /\ Range(journal.wl_added) \subseteq target.prefixes \ prefixes
         /\ Range(journal.wl_removed) \subseteq prefixes \ target.prefixes
         /\ pc \notin UndoLabels \cup {"wlAdd"} => ToAdd = {}
         /\ pc \notin UndoLabels =>
              monitored = (before.monitored \cup Range(journal.wl_added)) \ Range(journal.wl_removed)
         /\ clean =>
              /\ before.monitored \cap prefixes \subseteq monitored \cup Range(journal.wl_removed)
              /\ monitored \subseteq before.monitored \cup prefixes \cup Range(journal.wl_added)
              /\ journal.wl_removed # <<>> => target.prefixes \ (prefixes \ before.monitored) \subseteq monitored

\* Only late packets touch the artifact between its write and the arming.
FreshInv ==
    /\ pc = "arm" => artifacts[Store(AlgoOf[cur.policy])][cur.flow] \in {"fresh", "late"}
    /\ pc = "undoArm" => artifacts[Store(AlgoOf[Undoing.old])][Undoing.key] \in {"fresh", "late"}

TxInv ==
    LabelInv /\ PlanInv /\ RecordInv /\ StepInv /\ UntouchedInv /\ DoneInv /\ TrieInv /\ FreshInv

\* What AtomicLimits sees.
AbsArmed == IF InTx THEN before.limit_policies ELSE limit_policies
AbsMonitored == IF InTx THEN before.monitored ELSE monitored
AbsLimited == [f \in Flows |-> IF Open(f) THEN expired[f] ELSE limited[f]]

\* The data path and the limiter agree up to what a failed rollback has left.
AgreeInv ==
    /\ \A f \in Flows : AbsLimited[f] = None => AbsArmed[f] = None
    /\ ~degraded => AbsArmed = AbsLimited /\ AbsMonitored = prefixes

-----------------------------------------------------------------------------
(* Journal lists as sets of records *)

\* A new record with a key of its own.
LEMMA PushedRecords ==
    ASSUME NEW S, NEW s \in Seq(S), NEW r \in S, DistinctKeys(s), \A q \in Range(s) : q.key # r.key
    PROVE  Range(Append(s, r)) = Range(s) \cup {r} /\ DistinctKeys(Append(s, r))
  <1> DEFINE t == Append(s, r)
  <1>1. /\ Len(s) \in Nat /\ DOMAIN s = 1..Len(s) /\ DOMAIN t = 1..Len(s) + 1
        /\ t[Len(s) + 1] = r /\ \A i \in 1..Len(s) : t[i] = s[i]
    BY AppendProperties, LenProperties
  <1> HIDE DEF t
  <1>2. Range(t) = Range(s) \cup {r}
    BY <1>1 DEF Range
  <1>3. \A i \in 1..Len(s) : s[i].key # r.key
    BY <1>1 DEF Range
  <1>4. DistinctKeys(t)
    BY <1>1, <1>3 DEF DistinctKeys
  <1> QED  BY <1>2, <1>4 DEF t

\* The last record, and the ones before it.
LEMMA LastRecord ==
    ASSUME NEW S, NEW s \in Seq(S), s # <<>>
    PROVE  /\ Range(s) = Range(Front(s)) \cup {Last(s)}
           /\ Last(s) \in Range(s) /\ Range(Front(s)) \subseteq S
           /\ DistinctKeys(s) => /\ DistinctKeys(Front(s))
                                 /\ \A q \in Range(Front(s)) : q.key # Last(s).key
  <1> DEFINE t == Front(s)
  <1>1. /\ Len(s) \in Nat /\ Len(s) > 0 /\ DOMAIN s = 1..Len(s) /\ DOMAIN t = 1..Len(s) - 1
        /\ Last(s) = s[Len(s)] /\ \A i \in 1..Len(s) - 1 : t[i] = s[i]
        /\ \A i \in 1..Len(s) : s[i] \in S
    <2>1. /\ Len(s) \in Nat /\ Len(s) > 0 /\ t \in Seq(S) /\ Len(t) = Len(s) - 1
          /\ Last(s) = s[Len(s)] /\ \A i \in 1..Len(s) - 1 : t[i] = s[i]
      BY FrontLast
    <2>2. DOMAIN s = 1..Len(s) /\ DOMAIN t = 1..Len(t) /\ s \in [1..Len(s) -> S]
      BY <2>1, LenProperties
    <2> QED  BY <2>1, <2>2
  <1> HIDE DEF t
  <1>2. Range(s) = Range(t) \cup {Last(s)} /\ Last(s) \in Range(s) /\ Range(t) \subseteq S
    BY <1>1 DEF Range
  <1>3. ASSUME DistinctKeys(s)
        PROVE  DistinctKeys(t) /\ \A q \in Range(t) : q.key # Last(s).key
    <2>1. DistinctKeys(t)
      BY <1>1, <1>3 DEF DistinctKeys
    <2>2. ASSUME NEW i \in 1..Len(s) - 1  PROVE s[i].key # s[Len(s)].key
      BY <1>1, <1>3 DEF DistinctKeys
    <2> QED  BY <1>1, <2>1, <2>2 DEF Range
  <1> QED  BY <1>2, <1>3 DEF t

\* Progress of the last record.
LEMMA MarkedRecords ==
    ASSUME NEW S, NEW s \in Seq(S), s # <<>>, NEW r \in S, DistinctKeys(s), r.key = Last(s).key
    PROVE  LET t == Append(Front(s), r) IN
           Range(t) = Range(Front(s)) \cup {r} /\ DistinctKeys(t) /\ Last(t) = r
  <1>1. /\ Front(s) \in Seq(S) /\ DistinctKeys(Front(s))
        /\ \A q \in Range(Front(s)) : q.key # Last(s).key
    BY FrontLast, LastRecord
  <1>2. Last(Append(Front(s), r)) = r
    BY MarkLast
  <1> QED  BY <1>1, <1>2, PushedRecords

-----------------------------------------------------------------------------
(* What a step leaves alone *)

\* A map operation changes neither the limiter nor the plan.
Steady == UNCHANGED <<limited, expired, prefixes, degraded, mode, todo, cur, target, before>>

LEMMA PlanStays ==
    ASSUME PlanInv, Steady, CurOpen' => CurOpen
    PROVE  PlanInv'
  <1>1. \A a : Planned(a)' <=> Planned(a)
    BY DEF Planned, Goal, Past, Steady
  <1> QED  BY <1>1 DEF PlanInv, Steady

LEMMA TrieStays ==
    ASSUME TrieInv, Steady, UNCHANGED monitored,
           journal'.wl_added = journal.wl_added, journal'.wl_removed = journal.wl_removed,
           InTx' => InTx, pc \in UndoLabels => pc' \in UndoLabels,
           pc = "wlAdd" => pc' \in UndoLabels \cup {"wlAdd"}, clean' => clean
    PROVE  TrieInv'
  <1>1. ToAdd' = ToAdd
    BY DEF ToAdd, Pending, Steady
  <1> QED  BY <1>1 DEF TrieInv, Steady

\* A record says the same of a flow whose policy stays.
LEMMA RecordStays ==
    ASSUME Steady, NEW r, limit_policies'[r.key] = limit_policies[r.key]
    PROVE  /\ RecordOf(r) => RecordOf(r)'
           /\ InstallOK(r) => InstallOK(r)'
           /\ RemoveOK(r) => RemoveOK(r)'
  BY DEF Steady, RecordOf, InstallOK, RemoveOK

LEMMA RecordsStay ==
    ASSUME RecordInv, UntouchedInv, Steady, UNCHANGED limit_policies, InTx' => InTx, clean' => clean,
           journal'.installs = journal.installs, journal'.removes = journal.removes
    PROVE  RecordInv' /\ UntouchedInv'
  <1>1. Installs' = Installs /\ Removes' = Removes /\ (KeysInv' <=> KeysInv)
    BY DEF Installs, Removes, KeysInv
  <1>2. \A f : (Keyed(f)' <=> Keyed(f)) /\ (Lost(f)' <=> Lost(f))
    BY <1>1 DEF Keyed, Lost, Steady
  <1>3. RecordInv'
    BY <1>1, RecordStays DEF RecordInv
  <1>4. UntouchedInv'
    BY <1>2 DEF UntouchedInv, Steady
  <1> QED  BY <1>3, <1>4

\* A step about one flow and its records.
LEMMA RecordsStep ==
    ASSUME RecordInv, UntouchedInv, InTx, Steady, clean' => clean,
           NEW k \in Flows, \A g \in Flows : g # k => limit_policies'[g] = limit_policies[g],
           \A r \in Installs' \cup Removes' : r.key \in Flows,
           \A r \in Installs' : r.key # k => r \in Installs,
           \A r \in Removes' : r.key # k => r \in Removes,
           \A r \in Installs \cup Removes : r.key # k => r \in Installs' \cup Removes',
           \A r \in Installs' : r.key = k => RecordOf(r)' /\ InstallOK(r)',
           \A r \in Removes' : r.key = k => RecordOf(r)' /\ RemoveOK(r)',
           Keyed(k)' \/ limit_policies'[k] = before.limit_policies[k] \/ (~clean' /\ Lost(k)'),
           KeysInv'
    PROVE  RecordInv' /\ UntouchedInv'
  <1>1. ASSUME NEW r \in Installs', r.key # k  PROVE RecordOf(r)' /\ InstallOK(r)'
    BY <1>1, RecordStays DEF RecordInv
  <1>2. ASSUME NEW r \in Removes', r.key # k  PROVE RecordOf(r)' /\ RemoveOK(r)'
    BY <1>2, RecordStays DEF RecordInv
  <1>3. RecordInv'
    BY <1>1, <1>2 DEF RecordInv
  <1>4. ASSUME NEW f \in Flows, f # k, ~Keyed(f)'
        PROVE  limit_policies'[f] = before'.limit_policies[f] \/ (~clean' /\ Lost(f)')
    <2>1. ~Keyed(f)
      BY <1>4 DEF Keyed
    <2>2. Lost(f)' <=> Lost(f)
      BY <1>4 DEF Lost, Steady
    <2>3. limit_policies[f] = before.limit_policies[f] \/ (~clean /\ Lost(f))
      BY <2>1 DEF UntouchedInv
    <2> QED  BY <1>4, <2>2, <2>3 DEF Steady
  <1>5. UntouchedInv'
    BY <1>4 DEF UntouchedInv, Steady
  <1> QED  BY <1>3, <1>5

\* A step of the action under way, or one that has no part in a reload's plan.
LEMMA DoneStays ==
    ASSUME DoneInv, PlanInv, Steady, pc' \in UndoLabels \/ pc \notin UndoLabels,
           \/ pc' \in UndoLabels
           \/ UNCHANGED limit_policies /\ (pc \in Acting => pc' \in Acting)
           \/ /\ pc \in Acting /\ \A g \in Flows : g # cur.flow => limit_policies'[g] = limit_policies[g]
              /\ pc' \in Acting \/ limit_policies'[cur.flow] = cur.policy
    PROVE  DoneInv'
  <1> SUFFICES ASSUME mode = "reload", pc' \notin UndoLabels, pc \notin UndoLabels
               PROVE  DoneInv'
    BY DEF DoneInv, Steady
  <1>1. CASE UNCHANGED limit_policies /\ (pc \in Acting => pc' \in Acting)
    BY <1>1 DEF DoneInv, Steady
  <1>2. CASE /\ pc \in Acting /\ \A g \in Flows : g # cur.flow => limit_policies'[g] = limit_policies[g]
             /\ pc' \in Acting \/ limit_policies'[cur.flow] = cur.policy
    <2>1. cur.policy = target.limited[cur.flow] /\ limited[cur.flow] # target.limited[cur.flow]
      BY <1>2 DEF PlanInv, CurOpen, Planned, Goal, Past
    <2> QED  BY <1>2, <2>1 DEF DoneInv, Steady
  <1> QED  BY <1>1, <1>2

-----------------------------------------------------------------------------
(* Steps that leave policies, prefixes and journal alone *)

\* The labels at which the engine works on a transaction with cur, and where it goes on.
Follows(from, to) ==
    \/ from = to
    \/ from \in Acting /\ to \in Acting \ {"install", "remove", "arm", "disarm", "clearState"}
         /\ (to \in RemoveLabels => from \in {"clearState", "clearPolicer"})
    \/ to = "undo" /\ from \in {"wlAdd", "wlDel"} \cup Acting
    \/ from = "undo" /\ to \in {"undoDisarm", "undoClear", "undoRestore", "undoReadd", "undoUnadd"}
    \/ from = "undoClear" /\ to = "undoRestore"

LEMMA QuietStep ==
    ASSUME IInv, TxInv, Steady, UNCHANGED <<limit_policies, monitored, journal>>,
           clean' = clean \/ (clean' = FALSE /\ pc' \in UndoLabels), Follows(pc, pc'), pc' = pc => FreshInv',
           pc = "undo" =>
             /\ pc' = "undoDisarm" => Last(journal.installs).armed
             /\ pc' \in {"undoClear", "undoRestore"} /\ journal.installs # <<>> =>
                  ~Last(journal.installs).armed
    PROVE  TxInv'
  <1> USE DEF TxInv
  <1>1. /\ InTx' <=> InTx
        /\ CurOpen' => CurOpen
        /\ pc \in UndoLabels => pc' \in UndoLabels
        /\ pc = "wlAdd" => pc' \in UndoLabels \cup {"wlAdd"}
        /\ pc \in Acting => pc' \in Acting \cup UndoLabels
        /\ clean' => clean
    <2>1. CASE pc' = pc
      BY <2>1 DEF InTx, CurOpen, Steady
    <2>2. CASE pc \in Acting /\ pc' \in Acting
      BY <2>2 DEF InTx, CurOpen, UndoLabels, Acting, Mid, RemoveLabels
    <2>3. CASE pc' \in UndoLabels /\ pc \in {"wlAdd", "wlDel"} \cup Acting
      BY <2>3 DEF InTx, CurOpen, UndoLabels, Acting, Mid, RemoveLabels, LabelInv, Steady
    <2>4. CASE pc' \in UndoLabels /\ pc \in UndoLabels
      BY <2>4 DEF InTx, CurOpen, UndoLabels, Acting, Mid, RemoveLabels, LabelInv, Steady
    <2> QED  BY <2>1, <2>2, <2>3, <2>4 DEF Follows, UndoLabels
  <1>2. PlanInv' /\ TrieInv'
    BY <1>1, PlanStays, TrieStays
  <1>3. RecordInv' /\ UntouchedInv'
    BY <1>1, RecordsStay
  <1>4. DoneInv'
    BY <1>1, DoneStays
  <1>5. LabelInv'
    BY <1>1 DEF LabelInv, Follows, Steady, Acting, Mid, RemoveLabels, UndoLabels, InTx
  <1>6. \A f : Keyed(f)' <=> Keyed(f)
    BY DEF Keyed, Installs, Removes
  <1>7. StepInv'
    BY <1>6 DEF StepInv, Follows, Steady, Acting, Mid, RemoveLabels
  <1>8. FreshInv'
    BY DEF FreshInv, Follows, Acting, Mid, RemoveLabels
  <1> QED  BY <1>2, <1>3, <1>4, <1>5, <1>7, <1>8

LEMMA ControlSteady ==
    ASSUME UNCHANGED <<control, drive>>  PROVE Steady
  BY DEF control, drive, Steady

LEMMA ClearOldTx ==
    ASSUME IInv, TxInv, ClearOld  PROVE TxInv'
  <1>1. /\ pc = "clearOld" /\ pc' = "writeState" /\ UNCHANGED <<limit_policies, monitored, journal, clean>>
        /\ Steady
    BY ControlSteady DEF ClearOld, clear_state, SetArtifact, Goto
  <1>2. Follows(pc, pc')
    BY <1>1 DEF Follows, Acting, Mid, RemoveLabels
  <1> QED  BY <1>1, <1>2, QuietStep

LEMMA ClearStateTx ==
    ASSUME IInv, TxInv, ClearState  PROVE TxInv'
  <1>1. /\ pc = "clearState" /\ pc' = "clearPolicer" /\ UNCHANGED <<limit_policies, monitored, journal, clean>>
        /\ Steady
    BY ControlSteady DEF ClearState, clear_state, SetArtifact, Goto
  <1>2. Follows(pc, pc')
    BY <1>1 DEF Follows, Acting, Mid, RemoveLabels
  <1> QED  BY <1>1, <1>2, QuietStep

LEMMA FailTx ==
    ASSUME IInv, TxInv, Fail  PROVE TxInv'
  <1>1. /\ pc' = "undo" /\ UNCHANGED <<limit_policies, monitored, journal, clean>> /\ Steady
    BY ControlSteady DEF Fail, maps
  <1>2. pc \in {"wlAdd", "wlDel"} \cup Acting
    BY DEF Fail, NoRoom, MapOpPending, Acting, Mid, RemoveLabels
  <1>3. Follows(pc, pc') /\ pc # "undo"
    BY <1>1, <1>2 DEF Follows, Acting, Mid, RemoveLabels
  <1> QED  BY <1>1, <1>3, QuietStep

LEMMA UndoNextTx ==
    ASSUME IInv, TxInv, UndoNext  PROVE TxInv'
  <1>1. /\ pc = "undo" /\ pc' = UndoEntry /\ UNCHANGED <<limit_policies, monitored, journal, clean>> /\ Steady
    BY ControlSteady DEF UndoNext, UndoGoto, maps, tx
  <1>2. /\ UndoEntry \in {"undoDisarm", "undoClear", "undoRestore", "undoReadd", "undoUnadd"}
        /\ UndoEntry = "undoDisarm" => Last(journal.installs).armed
        /\ UndoEntry \in {"undoClear", "undoRestore"} /\ journal.installs # <<>> =>
             ~Last(journal.installs).armed
    BY UndoListCases DEF UndoEntry
  <1>3. Follows(pc, pc') /\ pc # pc'
    BY <1>1, <1>2 DEF Follows
  <1> QED  BY <1>1, <1>2, <1>3, QuietStep

LEMMA UndoClearTx ==
    ASSUME IInv, TxInv, UndoClear  PROVE TxInv'
  <1>1. /\ pc = "undoClear" /\ pc' = "undoRestore" /\ UNCHANGED <<limit_policies, monitored, journal, clean>>
        /\ Steady
    BY ControlSteady DEF UndoClear, UndoGoto, clear_state, SetArtifact, tx
  <1>2. Follows(pc, pc')
    BY <1>1 DEF Follows
  <1> QED  BY <1>1, <1>2, QuietStep

\* A flow that is about to be armed is not policed yet.
LEMMA ArmedLater ==
    ASSUME IInv, TxInv, pc \in {"arm", "undoArm"}
    PROVE  /\ pc = "arm" => cur.flow \in Flows /\ limit_policies[cur.flow] = None
           /\ pc = "undoArm" => Undoing.key \in Flows /\ limit_policies[Undoing.key] = None
  <1>1. CASE pc = "arm"
    BY <1>1, InstallFacts DEF IInv, MapInv, Mid
  <1>2. CASE pc = "undoArm"
    <2>0. /\ Undoing.key \in Flows /\ MustRestore(Undoing) /\ InTx
          /\ journal.installs \in Seq(InstallRecords) /\ journal.removes \in Seq(RemoveRecords)
      BY <1>2, UndoFacts DEF IInv, UndoInv, InTx, EngineTypeOK
    <2>1. CASE journal.installs # <<>> /\ UndoList = "installs"
      <3>1. Undoing = Last(journal.installs) /\ Undoing \in Installs
        BY <2>0, <2>1, LastRecord, UndoListCases DEF Installs
      <3>2. InstallOK(Undoing)
        BY <2>0, <3>1 DEF TxInv, RecordInv
      <3> QED  BY <1>2, <2>0, <2>1, <3>1, <3>2 DEF InstallOK, MustRestore, TxInv, StepInv
    <2>2. CASE journal.installs = <<>> /\ journal.removes # <<>> /\ UndoList = "removes"
      <3>1. Undoing = Last(journal.removes) /\ Undoing \in Removes
        BY <2>0, <2>2, LastRecord, UndoListCases DEF Removes
      <3>2. RemoveOK(Undoing)
        BY <2>0, <3>1 DEF TxInv, RecordInv
      <3> QED  BY <1>2, <2>0, <2>2, <3>2 DEF RemoveOK, MustRestore
    <2> QED  BY <1>2, <2>1, <2>2, UndoFacts
  <1> QED  BY <1>1, <1>2

LEMMA PacketTx ==
    ASSUME IInv, PacketTypeOK, TxInv, DataPath  PROVE TxInv'
  <1>1. /\ UNCHANGED <<limit_policies, monitored, journal, clean, pc>> /\ Steady
    BY DataPathFacts, ControlSteady DEF tx
  <1>2. \A s \in Stores, g \in Flows : limit_policies[g] = None /\ artifacts[s][g] \in {"fresh", "late"} =>
            artifacts'[s][g] \in {"fresh", "late"}
    BY DataPathFacts
  <1>3. \A algo : Store(algo) \in Stores
    BY DEF Store, Stores
  <1>4. Undoing' = Undoing
    BY <1>1 DEF Undoing, UndoList, FirstNonempty
  <1>5. FreshInv'
    BY <1>1, <1>2, <1>3, <1>4, ArmedLater DEF TxInv, FreshInv, Steady
  <1>6. Follows(pc, pc')
    BY <1>1 DEF Follows
  <1> QED  BY <1>1, <1>5, <1>6, QuietStep

LEMMA StutterTx ==
    ASSUME IInv, TxInv, UNCHANGED vars  PROVE TxInv'
  <1>1. /\ UNCHANGED <<limit_policies, monitored, journal, clean, pc, artifacts>> /\ Steady
    BY ControlSteady DEF vars, maps, tx
  <1>2. Undoing' = Undoing
    BY <1>1 DEF Undoing, UndoList, FirstNonempty
  <1>3. FreshInv'
    BY <1>1, <1>2 DEF TxInv, FreshInv, Steady
  <1>4. Follows(pc, pc')
    BY <1>1 DEF Follows
  <1> QED  BY <1>1, <1>3, <1>4, QuietStep

-----------------------------------------------------------------------------
(* Whitelist steps *)

\* A journal operation on one list leaves the others.
LEMMA OtherLists ==
    ASSUME journal \in JournalType, NEW rec, NEW list \in {"installs", "removes", "wl_added", "wl_removed"}
    PROVE  \A other \in {"installs", "removes", "wl_added", "wl_removed"} :
             /\ Push(list, rec)[other] = IF other = list THEN Append(journal[list], rec) ELSE journal[other]
             /\ Mark(list, rec)[other] = IF other = list THEN Append(Front(journal[list]), rec) ELSE journal[other]
             /\ Drop(list)[other] = IF other = list THEN Front(journal[list]) ELSE journal[other]
  BY DEF JournalType, Push, Mark, Drop

LEMMA PushedPrefix ==
    ASSUME NEW S, NEW s \in Seq(S), NEW c \in S
    PROVE  Range(Append(s, c)) = Range(s) \cup {c}
  <1> DEFINE t == Append(s, c)
  <1>1. /\ Len(s) \in Nat /\ DOMAIN s = 1..Len(s) /\ DOMAIN t = 1..Len(s) + 1
        /\ t[Len(s) + 1] = c /\ \A i \in 1..Len(s) : t[i] = s[i]
    BY AppendProperties, LenProperties
  <1> HIDE DEF t
  <1>2. Range(t) = Range(s) \cup {c}
    BY <1>1 DEF Range
  <1> QED  BY <1>2 DEF t

\* A prefix is added or removed: limit maps and their records stay.
LEMMA WhitelistStep ==
    ASSUME IInv, TxInv, Steady, UNCHANGED <<limit_policies, clean>>,
           journal'.installs = journal.installs, journal'.removes = journal.removes,
           \/ pc = "wlAdd" /\ pc' \in {"wlAdd", "act"}
           \/ pc = "wlDel" /\ pc' = "wlDel"
           \/ pc = "act" /\ pc' = "wlDel" /\ mode = "reload" /\ todo = {}
           \/ pc \in {"undoReadd", "undoUnadd"} /\ pc' = "undo",
           TrieInv'
    PROVE  TxInv'
  <1> USE DEF TxInv
  <1>1. /\ InTx' => InTx
        /\ CurOpen' => CurOpen
        /\ pc \in UndoLabels <=> pc' \in UndoLabels
        /\ pc \notin Acting /\ pc' \notin Acting
        /\ InTx /\ InTx'
    BY DEF InTx, CurOpen, UndoLabels, Acting, Mid, RemoveLabels, LabelInv, Steady
  <1>2. PlanInv'
    BY <1>1, PlanStays
  <1>3. RecordInv' /\ UntouchedInv'
    BY <1>1, RecordsStay
  <1>4. DoneInv'
    BY <1>1, DoneStays
  <1>5. LabelInv'
    BY <1>1 DEF LabelInv, Steady, UndoLabels
  <1>6. StepInv' /\ FreshInv'
    BY <1>1 DEF StepInv, FreshInv, Acting, RemoveLabels, Mid
  <1> QED  BY <1>2, <1>3, <1>4, <1>5, <1>6

LEMMA JournalTypes ==
    ASSUME IInv
    PROVE  /\ journal \in JournalType
           /\ journal.installs \in Seq(InstallRecords) /\ journal.removes \in Seq(RemoveRecords)
           /\ journal.wl_added \in Seq(Cidrs) /\ journal.wl_removed \in Seq(Cidrs)
           /\ prefixes \subseteq Cidrs /\ target.prefixes \subseteq Cidrs
  BY DEF IInv, EngineTypeOK, JournalType

LEMMA WhitelistAddTx ==
    ASSUME IInv, TxInv, WhitelistAdd  PROVE TxInv'
  <1> USE JournalTypes
  <1>1. /\ pc = "wlAdd" /\ pc' \in {"wlAdd", "act"} /\ UNCHANGED <<limit_policies, clean>> /\ Steady
    BY ControlSteady DEF WhitelistAdd, Goto, wl_insert, SetTrie, maps
  <1>2. mode = "reload" /\ "wlAdd" \notin UndoLabels /\ "act" \notin UndoLabels
    BY <1>1 DEF TxInv, LabelInv, UndoLabels
  <1>3. CASE \E c \in ToAdd : wl_insert(c) /\ journal' = Push("wl_added", c) /\ pc' = "wlAdd"
    <2>1. PICK c \in ToAdd : wl_insert(c) /\ journal' = Push("wl_added", c) /\ pc' = "wlAdd"
      BY <1>3
    <2>2. c \in target.prefixes \ prefixes /\ c \in Cidrs /\ monitored' = monitored \cup {c}
      BY <2>1 DEF ToAdd, Pending, wl_insert, SetTrie
    <2>3. /\ journal'.installs = journal.installs /\ journal'.removes = journal.removes
          /\ journal'.wl_added = Append(journal.wl_added, c) /\ journal'.wl_removed = journal.wl_removed
      BY <2>1, OtherLists
    <2>4. Range(journal'.wl_added) = Range(journal.wl_added) \cup {c}
      BY <2>2, <2>3, PushedPrefix
    <2>5. TrieInv'
      BY <1>1, <1>2, <2>1, <2>2, <2>3, <2>4 DEF TxInv, TrieInv, Steady
    <2> QED  BY <1>1, <2>3, <2>1, <2>5, WhitelistStep
  <1>4. CASE ToAdd = {} /\ pc' = "act" /\ UNCHANGED <<maps, journal>>
    <2>1. TrieInv'
      <3>1. ToAdd' = ToAdd
        BY <1>1, <1>4 DEF ToAdd, Pending, Steady
      <3> QED  BY <1>1, <1>2, <1>4, <3>1 DEF TxInv, TrieInv, Steady, maps
    <2> QED  BY <1>1, <1>4, <2>1, WhitelistStep
  <1> QED  BY <1>3, <1>4 DEF WhitelistAdd, Goto

LEMMA WhitelistRemoveTx ==
    ASSUME IInv, TxInv, WhitelistRemove  PROVE TxInv'
  <1> USE JournalTypes
  <1>1. /\ pc = "wlDel" /\ pc' = "wlDel" /\ UNCHANGED <<limit_policies, clean>> /\ Steady
    BY ControlSteady DEF WhitelistRemove, Goto, wl_remove, SetTrie, maps
  <1>2. mode = "reload" /\ "wlDel" \notin UndoLabels
    BY <1>1 DEF TxInv, LabelInv, UndoLabels
  <1>3. PICK c \in ToRemove : wl_remove(c) /\ journal' = Push("wl_removed", c)
    BY DEF WhitelistRemove
  <1>4. c \in prefixes \ target.prefixes /\ c \in Cidrs /\ monitored' = monitored \ {c}
    BY <1>3 DEF ToRemove, Pending, wl_remove, SetTrie
  <1>5. /\ journal'.installs = journal.installs /\ journal'.removes = journal.removes
        /\ journal'.wl_added = journal.wl_added /\ journal'.wl_removed = Append(journal.wl_removed, c)
    BY <1>3, OtherLists
  <1>6. Range(journal'.wl_removed) = Range(journal.wl_removed) \cup {c}
    BY <1>4, <1>5, PushedPrefix
  <1>7. target.prefixes \subseteq prefixes \cup Range(journal.wl_added)
    BY <1>1, <1>2 DEF TxInv, TrieInv, ToAdd, Pending
  <1>8. TrieInv'
    <2>1. ToAdd' = ToAdd
      BY <1>1, <1>5 DEF ToAdd, Pending, Steady
    <2>2. monitored = (before.monitored \cup Range(journal.wl_added)) \ Range(journal.wl_removed)
      BY <1>1, <1>2 DEF TxInv, TrieInv
    <2> QED  BY <1>1, <1>2, <1>4, <1>5, <1>6, <1>7, <2>1, <2>2 DEF TxInv, TrieInv, Steady
  <1> QED  BY <1>1, <1>5, <1>8, WhitelistStep

-----------------------------------------------------------------------------
(* Install and remove *)

\* What is known while an action is under way.
LEMMA ActingFacts ==
    ASSUME IInv, TxInv, pc \in Acting
    PROVE  /\ InTx /\ clean /\ CurOpen /\ pc \notin UndoLabels /\ Planned(cur) /\ KeysInv
           /\ cur.flow \in Flows /\ cur.policy \in Policies \cup {None}
           /\ \A a \in todo : a.flow # cur.flow
           /\ mode = "reload" => limited[cur.flow] # None
           /\ ~Keyed(cur.flow) => limit_policies[cur.flow] = before.limit_policies[cur.flow]
           /\ \A r \in Installs : r \in InstallRecords /\ r.key \in Flows
           /\ \A r \in Removes : r \in RemoveRecords /\ r.key \in Flows
  <1>1. InTx /\ clean /\ CurOpen /\ pc \notin UndoLabels /\ KeysInv
    BY DEF TxInv, LabelInv, RecordInv, InTx, CurOpen, Acting, Mid, RemoveLabels, UndoLabels
  <1>2. Planned(cur) /\ \A a \in todo : a.flow # cur.flow
    BY <1>1 DEF TxInv, PlanInv
  <1>3. cur.flow \in Flows /\ cur.policy \in Policies \cup {None} /\ (mode = "reload" => limited[cur.flow] # None)
    BY <1>2 DEF Planned, ActionSet, Past
  <1>4. ~Keyed(cur.flow) => limit_policies[cur.flow] = before.limit_policies[cur.flow]
    BY <1>1, <1>3 DEF TxInv, UntouchedInv
  <1>5. \A r \in Installs : r \in InstallRecords /\ r.key \in Flows
    <2>1. \A r \in Installs : r \in InstallRecords
      BY JournalTypes DEF Installs, Range
    <2> QED  BY <2>1 DEF InstallRecords
  <1>6. \A r \in Removes : r \in RemoveRecords /\ r.key \in Flows
    <2>1. \A r \in Removes : r \in RemoveRecords
      BY JournalTypes DEF Removes, Range
    <2> QED  BY <2>1 DEF RemoveRecords
  <1> QED  BY <1>1, <1>2, <1>3, <1>4, <1>5, <1>6

\* A step of the action under way on its own flow: the journal has one record of it.
LEMMA ActionStep ==
    ASSUME IInv, TxInv, pc \in Acting, Steady, UNCHANGED <<monitored, clean>>,
           pc' \in Acting \cup {"act"},
           journal'.wl_added = journal.wl_added, journal'.wl_removed = journal.wl_removed,
           \A g \in Flows : g # cur.flow => limit_policies'[g] = limit_policies[g],
           pc' = "act" => limit_policies'[cur.flow] = cur.policy,
           InTx' => RecordInv' /\ UntouchedInv',
           StepInv', FreshInv'
    PROVE  TxInv'
  <1> USE DEF TxInv
  <1>1. /\ InTx /\ clean /\ CurOpen /\ pc \notin UndoLabels
    BY ActingFacts
  <1>2. pc' \notin UndoLabels /\ pc' # "wlAdd" /\ pc # "wlAdd" /\ pc' # "idle" /\ pc' # "wlDel"
    BY DEF UndoLabels, Acting, Mid, RemoveLabels
  <1>3. PlanInv'
    BY <1>1, PlanStays
  <1>4. TrieInv'
    BY <1>1, <1>2, TrieStays
  <1>5. DoneInv'
    BY <1>1, <1>2, DoneStays
  <1>6. LabelInv'
    BY <1>1, <1>2 DEF LabelInv
  <1>7. RecordInv' /\ UntouchedInv'
    BY DEF RecordInv, UntouchedInv
  <1> QED  BY <1>3, <1>4, <1>5, <1>6, <1>7

\* The records of an install step.
LEMMA InstallRecordsStep ==
    ASSUME IInv, TxInv, pc \in Acting, Steady, UNCHANGED clean,
           NEW base \in SUBSET Installs, \A q \in Installs : q.key # cur.flow => q \in base,
           \A q \in base : q.key # cur.flow, \A q \in Removes : q.key # cur.flow,
           NEW r \in InstallRecords, r.key = cur.flow, Installs' = base \cup {r}, Removes' = Removes,
           DistinctKeys(journal'.installs), DistinctKeys(journal'.removes),
           \A g \in Flows : g # cur.flow => limit_policies'[g] = limit_policies[g],
           r.old = before.limit_policies[cur.flow], InstallOK(r)'
    PROVE  RecordInv' /\ UntouchedInv'
  <1>1. RecordOf(r)'
    BY ActingFacts DEF RecordOf, Steady
  <1>2. Keyed(cur.flow)'
    BY DEF Keyed, Steady
  <1>3. KeysInv'
    BY ActingFacts DEF KeysInv
  <1>4. \A q \in Installs' \cup Removes' : q.key \in Flows
    BY ActingFacts
  <1>5. RecordInv /\ UntouchedInv /\ InTx /\ cur.flow \in Flows /\ (clean' => clean)
    BY ActingFacts DEF TxInv
  <1>6. /\ \A q \in Installs' : q.key = cur.flow => RecordOf(q)' /\ InstallOK(q)'
        /\ \A q \in Removes' : q.key = cur.flow => RecordOf(q)' /\ RemoveOK(q)'
    BY <1>1
  <1>7. Keyed(cur.flow)' \/ limit_policies'[cur.flow] = before.limit_policies[cur.flow]
    BY <1>2
  <1> HIDE DEF Keyed
  <1>8. /\ \A q \in Installs' : q.key # cur.flow => q \in Installs
        /\ \A q \in Removes' : q.key # cur.flow => q \in Removes
        /\ \A q \in Installs \cup Removes : q.key # cur.flow => q \in Installs' \cup Removes'
    OBVIOUS
  <1>9. \A k \in Flows : k = cur.flow => Keyed(k)'
    BY DEF Keyed
  <1> QED  BY <1>3, <1>4, <1>5, <1>6, <1>8, <1>9, RecordsStep

LEMMA InstallLookupTx ==
    ASSUME IInv, TxInv, InstallLookup  PROVE TxInv'
  <1> SUFFICES ASSUME NEW r, r = InstallRecord(cur.flow, limit_policies[cur.flow])
               PROVE  TxInv'
    OBVIOUS
  <1>0. /\ pc = "install" /\ pc \in Acting /\ journal' = Push("installs", r)
        /\ pc' = AfterLookup(limit_policies[cur.flow]) /\ Steady
        /\ UNCHANGED <<limit_policies, artifacts, monitored, clean>>
    BY ControlSteady DEF InstallLookup, Goto, Acting, maps
  <1>1. /\ r \in InstallRecords /\ r.key = cur.flow /\ r.old = limit_policies[cur.flow]
        /\ r.armed = FALSE /\ r.old_disarmed = FALSE
    BY <1>0, ActingFacts DEF InstallRecord, InstallRecords, IInv, EngineTypeOK, Phases
  <1>2. /\ journal'.installs = Append(journal.installs, r) /\ journal'.removes = journal.removes
        /\ journal'.wl_added = journal.wl_added /\ journal'.wl_removed = journal.wl_removed
    BY <1>0, JournalTypes, OtherLists
  <1>3. /\ ~Keyed(cur.flow) /\ limit_policies[cur.flow] = before.limit_policies[cur.flow]
        /\ \A q \in Installs \cup Removes : q.key # cur.flow
    BY <1>0, ActingFacts DEF TxInv, StepInv, Keyed
  <1>4. Installs' = Installs \cup {r} /\ Removes' = Removes /\ DistinctKeys(journal'.installs)
        /\ DistinctKeys(journal'.removes)
    <2>1. journal.installs \in Seq(InstallRecords) /\ DistinctKeys(journal.installs) /\ DistinctKeys(journal.removes)
      BY <1>0, ActingFacts, JournalTypes DEF KeysInv
    <2>2. \A q \in Range(journal.installs) : q.key # r.key
      BY <1>1, <1>3 DEF Installs
    <2>3. /\ Range(Append(journal.installs, r)) = Range(journal.installs) \cup {r}
          /\ DistinctKeys(Append(journal.installs, r))
      BY <1>1, <2>1, <2>2, PushedRecords
    <2> QED  BY <1>2, <2>1, <2>3 DEF Installs, Removes
  <1>5. InstallOK(r)'
    BY <1>0, <1>1 DEF InstallOK
  <1>6. RecordInv' /\ UntouchedInv'
    BY <1>0, <1>1, <1>3, <1>4, <1>5, InstallRecordsStep
  <1>7. pc' \in {"writeState", "disarmOld"} /\ pc' \in Acting \ {"act"}
    BY <1>0 DEF AfterLookup, Acting, Mid
  <1>8. StepInv' /\ FreshInv'
    BY <1>7 DEF StepInv, FreshInv, RemoveLabels
  <1> QED  BY <1>0, <1>2, <1>6, <1>7, <1>8, ActionStep

\* The record of the install under way.
LEMMA MarkFacts ==
    ASSUME IInv, TxInv, pc \in Mid, NEW r \in InstallRecords, r.key = cur.flow,
           journal' = Mark("installs", r)
    PROVE  /\ journal'.wl_added = journal.wl_added /\ journal'.wl_removed = journal.wl_removed
           /\ Installs' = Range(Front(journal.installs)) \cup {r} /\ Removes' = Removes
           /\ Range(Front(journal.installs)) \subseteq Installs
           /\ \A q \in Installs : q.key # cur.flow => q \in Range(Front(journal.installs))
           /\ \A q \in Range(Front(journal.installs)) \cup Removes : q.key # cur.flow
           /\ DistinctKeys(journal'.installs) /\ DistinctKeys(journal'.removes)
           /\ Last(journal.installs) \in Installs /\ Last(journal.installs).key = cur.flow
           /\ Last(journal.installs) \in InstallRecords
           /\ RecordOf(Last(journal.installs)) /\ InstallOK(Last(journal.installs))
           /\ pc \in Acting
  <1>0. pc \in Acting
    BY DEF Acting
  <1>1. /\ journal.installs \in Seq(InstallRecords) /\ journal.installs # <<>>
        /\ Last(journal.installs).key = cur.flow /\ Last(journal.installs) \in InstallRecords
    BY InstallFacts
  <1>2. /\ journal'.installs = Append(Front(journal.installs), r) /\ journal'.removes = journal.removes
        /\ journal'.wl_added = journal.wl_added /\ journal'.wl_removed = journal.wl_removed
    BY JournalTypes, OtherLists
  <1>3. KeysInv /\ RecordInv /\ InTx
    BY <1>0, ActingFacts DEF TxInv
  <1>4. /\ Installs = Range(Front(journal.installs)) \cup {Last(journal.installs)}
        /\ \A q \in Range(Front(journal.installs)) : q.key # cur.flow
    BY <1>1, <1>3, LastRecord DEF Installs, KeysInv
  <1>5. Installs' = Range(Front(journal.installs)) \cup {r} /\ DistinctKeys(journal'.installs)
    <2>1. DistinctKeys(journal.installs) /\ r.key = Last(journal.installs).key
      BY <1>1, <1>3 DEF KeysInv
    <2>2. /\ Range(Append(Front(journal.installs), r)) = Range(Front(journal.installs)) \cup {r}
          /\ DistinctKeys(Append(Front(journal.installs), r))
      BY <1>1, <2>1, MarkedRecords
    <2> QED  BY <1>2, <2>2 DEF Installs
  <1>6. Removes' = Removes /\ DistinctKeys(journal'.removes) /\ \A q \in Removes : q.key # cur.flow
    BY <1>1, <1>2, <1>3, <1>4 DEF Removes, KeysInv
  <1>7. RecordOf(Last(journal.installs)) /\ InstallOK(Last(journal.installs))
    BY <1>3, <1>4 DEF RecordInv
  <1> QED  BY <1>0, <1>1, <1>2, <1>4, <1>5, <1>6, <1>7

LEMMA DisarmOldTx ==
    ASSUME IInv, TxInv, DisarmOld  PROVE TxInv'
  <1> SUFFICES ASSUME NEW l, l = Last(journal.installs), NEW r, r = [l EXCEPT !.old_disarmed = TRUE]
               PROVE  TxInv'
    OBVIOUS
  <1>0. /\ pc = "disarmOld" /\ pc \in Mid /\ journal' = Mark("installs", r)
        /\ pc' \in {"clearOld", "writeState"} /\ Steady /\ UNCHANGED <<artifacts, monitored, clean>>
        /\ limit_policies' = [limit_policies EXCEPT ![cur.flow] = None]
    BY ControlSteady DEF DisarmOld, Goto, AfterDisarm, disarm_policy, arm_policy, Mid
  <1>1. /\ l \in InstallRecords /\ l.key = cur.flow /\ ~l.armed /\ cur.flow \in Flows
    BY <1>0, InstallFacts
  <1>2. /\ r \in InstallRecords /\ r.key = cur.flow /\ r.old = l.old /\ r.old_disarmed /\ r.armed = l.armed
    BY <1>1 DEF InstallRecords
  <1>3. /\ limit_policies'[cur.flow] = None
        /\ \A g \in Flows : g # cur.flow => limit_policies'[g] = limit_policies[g]
    BY <1>0, <1>1 DEF IInv, EngineTypeOK, Phases
  <1>4. InstallOK(r)'
    BY <1>1, <1>2, <1>3 DEF InstallOK
  <1>5. r.old = before.limit_policies[cur.flow]
    BY <1>0, <1>1, <1>2, MarkFacts DEF RecordOf
  <1>6. RecordInv' /\ UntouchedInv'
    BY <1>0, <1>2, <1>3, <1>4, <1>5, MarkFacts, InstallRecordsStep
  <1>7. StepInv' /\ FreshInv'
    BY <1>0 DEF StepInv, FreshInv, RemoveLabels
  <1>8. pc \in Acting /\ pc' \in Acting /\ pc' # "act"
    BY <1>0 DEF Acting, Mid
  <1> QED  BY <1>0, <1>2, <1>3, <1>6, <1>7, <1>8, MarkFacts, ActionStep

LEMMA WriteStateTx ==
    ASSUME IInv, TxInv, WriteState  PROVE TxInv'
  <1> SUFFICES ASSUME NEW l, l = Last(journal.installs), NEW algo, algo = AlgoOf[cur.policy],
                      NEW r, r = [l EXCEPT !.new_algorithm = algo]
               PROVE  TxInv'
    OBVIOUS
  <1>0. /\ pc = "writeState" /\ pc \in Mid /\ journal' = Mark("installs", r)
        /\ pc' = "arm" /\ Steady /\ UNCHANGED <<limit_policies, monitored, clean>>
        /\ write_fresh_state(cur.flow, algo)
    BY ControlSteady DEF WriteState, Goto, write_fresh_state, SetArtifact, Mid
  <1>1. /\ l \in InstallRecords /\ l.key = cur.flow /\ cur.flow \in Flows /\ algo \in Algorithms
    BY <1>0, InstallFacts, PolicyAssumption
  <1>2. /\ r \in InstallRecords /\ r.key = cur.flow /\ r.old = l.old /\ r.old_disarmed = l.old_disarmed
        /\ r.armed = l.armed
    BY <1>1 DEF InstallRecords
  <1>3. artifacts'[Store(algo)][cur.flow] = "fresh"
    BY <1>0, <1>1, WriteKeeps DEF IInv
  <1>4. InstallOK(l) /\ RecordOf(l)
    BY <1>0, <1>2, MarkFacts
  <1>5. InstallOK(r)'
    BY <1>0, <1>1, <1>2, <1>4 DEF InstallOK, Steady
  <1>6. r.old = before.limit_policies[cur.flow]
    BY <1>1, <1>2, <1>4 DEF RecordOf
  <1>7. RecordInv' /\ UntouchedInv'
    BY <1>0, <1>2, <1>5, <1>6, MarkFacts, InstallRecordsStep
  <1>8. StepInv' /\ FreshInv'
    BY <1>0, <1>3 DEF StepInv, FreshInv, RemoveLabels, Steady
  <1>9. pc \in Acting /\ pc' \in Acting /\ pc' # "act"
    BY <1>0 DEF Acting, Mid
  <1> QED  BY <1>0, <1>2, <1>7, <1>8, <1>9, MarkFacts, ActionStep

LEMMA ArmTx ==
    ASSUME IInv, TxInv, Arm  PROVE TxInv'
  <1> SUFFICES ASSUME NEW l, l = Last(journal.installs), NEW r, r = [l EXCEPT !.armed = TRUE]
               PROVE  TxInv'
    OBVIOUS
  <1>0. /\ pc = "arm" /\ pc \in Mid /\ journal' = Mark("installs", r)
        /\ pc' = "act" /\ Steady /\ UNCHANGED <<artifacts, monitored, clean>>
        /\ limit_policies' = [limit_policies EXCEPT ![cur.flow] = cur.policy]
    BY ControlSteady DEF Arm, Goto, arm_policy, Mid
  <1>1. /\ l \in InstallRecords /\ l.key = cur.flow /\ cur.flow \in Flows /\ ~l.armed
        /\ limit_policies[cur.flow] = None
    BY <1>0, InstallFacts DEF IInv, MapInv, Mid
  <1>2. /\ r \in InstallRecords /\ r.key = cur.flow /\ r.old = l.old /\ r.old_disarmed = l.old_disarmed
        /\ r.armed = TRUE
    BY <1>1 DEF InstallRecords
  <1>3. /\ limit_policies'[cur.flow] = cur.policy
        /\ \A g \in Flows : g # cur.flow => limit_policies'[g] = limit_policies[g]
    BY <1>0, <1>1 DEF IInv, EngineTypeOK, Phases
  <1>4. InstallOK(l) /\ RecordOf(l)
    BY <1>0, <1>2, MarkFacts
  <1>5. mode = "reload" => InstallOK(r)'
    BY <1>0, <1>1, <1>2, <1>4 DEF InstallOK, Steady
  <1>6. r.old = before.limit_policies[cur.flow]
    BY <1>1, <1>2, <1>4 DEF RecordOf
  <1>7. InTx' => mode = "reload"
    BY <1>0 DEF InTx, Steady
  <1>8. InTx' => RecordInv' /\ UntouchedInv'
    BY <1>0, <1>2, <1>3, <1>5, <1>6, <1>7, MarkFacts, InstallRecordsStep
  <1>9. StepInv' /\ FreshInv'
    BY <1>0 DEF StepInv, FreshInv, RemoveLabels
  <1>10. pc \in Acting
    BY <1>0 DEF Acting
  <1> QED  BY <1>0, <1>2, <1>3, <1>8, <1>9, <1>10, MarkFacts, ActionStep

\* The records of a remove step.
LEMMA RemoveRecordsStep ==
    ASSUME IInv, TxInv, pc \in Acting, Steady, UNCHANGED clean,
           NEW base \in SUBSET Removes, \A q \in Removes : q.key # cur.flow => q \in base,
           \A q \in base : q.key # cur.flow, \A q \in Installs : q.key # cur.flow,
           NEW r \in RemoveRecords, r.key = cur.flow, Removes' = base \cup {r}, Installs' = Installs,
           DistinctKeys(journal'.installs), DistinctKeys(journal'.removes),
           \A g \in Flows : g # cur.flow => limit_policies'[g] = limit_policies[g],
           r.old = before.limit_policies[cur.flow], RemoveOK(r)'
    PROVE  RecordInv' /\ UntouchedInv'
  <1>1. RecordOf(r)'
    BY ActingFacts DEF RecordOf, Steady
  <1>2. KeysInv'
    BY ActingFacts DEF KeysInv
  <1>3. \A q \in Installs' \cup Removes' : q.key \in Flows
    BY ActingFacts
  <1>4. RecordInv /\ UntouchedInv /\ InTx /\ cur.flow \in Flows /\ (clean' => clean)
    BY ActingFacts DEF TxInv
  <1>5. /\ \A q \in Installs' : q.key = cur.flow => RecordOf(q)' /\ InstallOK(q)'
        /\ \A q \in Removes' : q.key = cur.flow => RecordOf(q)' /\ RemoveOK(q)'
    BY <1>1
  <1>6. /\ \A q \in Installs' : q.key # cur.flow => q \in Installs
        /\ \A q \in Removes' : q.key # cur.flow => q \in Removes
        /\ \A q \in Installs \cup Removes : q.key # cur.flow => q \in Installs' \cup Removes'
    OBVIOUS
  <1>7. \A k \in Flows : k = cur.flow => Keyed(k)'
    BY DEF Keyed
  <1> QED  BY <1>2, <1>3, <1>4, <1>5, <1>6, <1>7, RecordsStep

LEMMA RemoveLookupTx ==
    ASSUME IInv, TxInv, RemoveLookup  PROVE TxInv'
  <1> SUFFICES ASSUME NEW r, r = RemoveRecord(cur.flow, limit_policies[cur.flow])
               PROVE  TxInv'
    OBVIOUS
  <1>0. /\ pc = "remove" /\ pc \in Acting /\ Steady
        /\ UNCHANGED <<limit_policies, artifacts, monitored, clean>>
        /\ \/ limit_policies[cur.flow] = None /\ pc' = "act" /\ UNCHANGED journal
           \/ limit_policies[cur.flow] # None /\ pc' = "disarm" /\ journal' = Push("removes", r)
    BY ControlSteady DEF RemoveLookup, Goto, Acting, maps
  <1>1. cur.policy = None
    BY <1>0 DEF TxInv, StepInv
  <1>2. CASE limit_policies[cur.flow] = None /\ pc' = "act" /\ UNCHANGED journal
    <2>1. InTx' => RecordInv' /\ UntouchedInv'
      BY <1>0, <1>2, ActingFacts, RecordsStay DEF TxInv
    <2>2. StepInv' /\ FreshInv'
      BY <1>2 DEF StepInv, FreshInv, RemoveLabels
    <2> QED  BY <1>0, <1>1, <1>2, <2>1, <2>2, ActionStep
  <1>3. CASE limit_policies[cur.flow] # None /\ pc' = "disarm" /\ journal' = Push("removes", r)
    <2>1. /\ r \in RemoveRecords /\ r.key = cur.flow /\ r.old = limit_policies[cur.flow] /\ r.disarmed = FALSE
      BY <1>0, <1>3, ActingFacts DEF RemoveRecord, RemoveRecords, IInv, EngineTypeOK, Phases
    <2>2. /\ journal'.removes = Append(journal.removes, r) /\ journal'.installs = journal.installs
          /\ journal'.wl_added = journal.wl_added /\ journal'.wl_removed = journal.wl_removed
      BY <1>3, JournalTypes, OtherLists
    <2>3. /\ limit_policies[cur.flow] = before.limit_policies[cur.flow]
          /\ \A q \in Installs \cup Removes : q.key # cur.flow
      BY <1>0, ActingFacts DEF TxInv, StepInv, Keyed
    <2>4. journal.removes \in Seq(RemoveRecords) /\ DistinctKeys(journal.installs) /\ DistinctKeys(journal.removes)
      BY <1>0, ActingFacts, JournalTypes DEF KeysInv
    <2>5. /\ Range(Append(journal.removes, r)) = Range(journal.removes) \cup {r}
          /\ DistinctKeys(Append(journal.removes, r)) /\ Last(Append(journal.removes, r)) = r
      <3>1. \A q \in Range(journal.removes) : q.key # r.key
        BY <2>1, <2>3 DEF Removes
      <3> QED  BY <2>1, <2>4, <3>1, PushedRecords, AppendLast
    <2>6. Removes' = Removes \cup {r} /\ Installs' = Installs /\ DistinctKeys(journal'.installs)
          /\ DistinctKeys(journal'.removes) /\ Last(journal'.removes) = r
      BY <2>2, <2>4, <2>5 DEF Installs, Removes
    <2>7. RemoveOK(r)'
      BY <1>0, <2>1 DEF RemoveOK
    <2>8. RecordInv' /\ UntouchedInv'
      BY <1>0, <2>1, <2>3, <2>6, <2>7, RemoveRecordsStep
    <2>9. StepInv' /\ FreshInv'
      BY <1>0, <1>1, <1>3, <2>1, <2>6 DEF StepInv, FreshInv, RemoveLabels, Steady
    <2>10. pc' \in Acting /\ pc' # "act"
      BY <1>3 DEF Acting, RemoveLabels
    <2> QED  BY <1>0, <2>2, <2>8, <2>9, <2>10, ActionStep
  <1> QED  BY <1>0, <1>2, <1>3

\* The record of the remove under way.
LEMMA RemovingFacts ==
    ASSUME IInv, TxInv, pc \in RemoveLabels
    PROVE  /\ journal.removes \in Seq(RemoveRecords) /\ journal.removes # <<>>
           /\ Last(journal.removes) \in Removes /\ Last(journal.removes) \in RemoveRecords
           /\ Last(journal.removes).key = cur.flow /\ cur.flow \in Flows /\ cur.policy = None
           /\ RecordOf(Last(journal.removes)) /\ RemoveOK(Last(journal.removes))
           /\ Removes = Range(Front(journal.removes)) \cup {Last(journal.removes)}
           /\ \A q \in Range(Front(journal.removes)) \cup Installs : q.key # cur.flow
           /\ DistinctKeys(journal.installs) /\ DistinctKeys(journal.removes)
           /\ pc \in Acting
  <1>0. pc \in Acting
    BY DEF Acting
  <1>1. /\ journal.removes \in Seq(RemoveRecords) /\ journal.removes # <<>>
        /\ Last(journal.removes).key = cur.flow /\ cur.policy = None
        /\ Last(journal.removes) \in RemoveRecords
    BY JournalTypes, RemoveFacts DEF RemoveLabels, TxInv, StepInv
  <1>2. KeysInv /\ RecordInv /\ InTx /\ cur.flow \in Flows
    BY <1>0, ActingFacts DEF TxInv
  <1>3. DistinctKeys(journal.installs) /\ DistinctKeys(journal.removes)
    BY <1>2 DEF KeysInv
  <1>4. /\ Removes = Range(Front(journal.removes)) \cup {Last(journal.removes)}
        /\ \A q \in Range(Front(journal.removes)) : q.key # cur.flow
    BY <1>1, <1>3, LastRecord DEF Removes
  <1>5. \A q \in Installs : q.key # cur.flow
    BY <1>1, <1>2, <1>4 DEF KeysInv
  <1>6. RecordOf(Last(journal.removes)) /\ RemoveOK(Last(journal.removes))
    BY <1>2, <1>4 DEF RecordInv
  <1> QED  BY <1>0, <1>1, <1>2, <1>3, <1>4, <1>5, <1>6

LEMMA DisarmTx ==
    ASSUME IInv, TxInv, Disarm  PROVE TxInv'
  <1>a. SUFFICES ASSUME NEW l, l = Last(journal.removes), NEW r, r = [l EXCEPT !.disarmed = TRUE]
                 PROVE  TxInv'
    OBVIOUS
  <1>0. /\ pc = "disarm" /\ pc \in RemoveLabels /\ journal' = Mark("removes", r)
        /\ pc' = "clearState" /\ Steady /\ UNCHANGED <<artifacts, monitored, clean>>
        /\ limit_policies' = [limit_policies EXCEPT ![cur.flow] = None]
    BY <1>a, ControlSteady DEF Disarm, Goto, disarm_policy, arm_policy, RemoveLabels
  <1>1. /\ l \in RemoveRecords /\ l.key = cur.flow /\ cur.flow \in Flows /\ pc \in Acting /\ cur.policy = None
        /\ RecordOf(l) /\ RemoveOK(l) /\ l \in Removes
    BY <1>a, <1>0, RemovingFacts
  <1>2. /\ r \in RemoveRecords /\ r.key = cur.flow /\ r.old = l.old /\ r.disarmed = TRUE
    BY <1>a, <1>1 DEF RemoveRecords
  <1>3. /\ limit_policies'[cur.flow] = None
        /\ \A g \in Flows : g # cur.flow => limit_policies'[g] = limit_policies[g]
    BY <1>0, <1>1 DEF IInv, EngineTypeOK, Phases
  <1>4. RemoveOK(r)'
    BY <1>2, <1>3 DEF RemoveOK
  <1>5. r.old = before.limit_policies[cur.flow]
    BY <1>1, <1>2 DEF RecordOf
  <1>6. /\ journal'.removes = Append(Front(journal.removes), r) /\ journal'.installs = journal.installs
        /\ journal'.wl_added = journal.wl_added /\ journal'.wl_removed = journal.wl_removed
    BY <1>0, JournalTypes, OtherLists
  <1>7. /\ Range(Append(Front(journal.removes), r)) = Range(Front(journal.removes)) \cup {r}
        /\ DistinctKeys(Append(Front(journal.removes), r)) /\ Last(Append(Front(journal.removes), r)) = r
    <2>1. /\ journal.removes \in Seq(RemoveRecords) /\ journal.removes # <<>>
          /\ DistinctKeys(journal.removes) /\ r.key = Last(journal.removes).key
      BY <1>a, <1>0, <1>1, <1>2, RemovingFacts
    <2> QED  BY <1>2, <2>1, MarkedRecords
  <1>8. /\ Removes' = Range(Front(journal.removes)) \cup {r} /\ Installs' = Installs
        /\ DistinctKeys(journal'.installs) /\ DistinctKeys(journal'.removes) /\ Last(journal'.removes) = r
    BY <1>0, <1>6, <1>7, RemovingFacts DEF Installs, Removes
  <1>9. /\ Range(Front(journal.removes)) \subseteq Removes
        /\ \A q \in Removes : q.key # cur.flow => q \in Range(Front(journal.removes))
        /\ \A q \in Range(Front(journal.removes)) : q.key # cur.flow
        /\ \A q \in Installs : q.key # cur.flow
    BY <1>0, RemovingFacts
  <1>10. RecordInv' /\ UntouchedInv'
    BY <1>0, <1>1, <1>2, <1>3, <1>4, <1>5, <1>8, <1>9, RemoveRecordsStep
  <1>11. StepInv' /\ FreshInv'
    BY <1>0, <1>1, <1>2, <1>8 DEF StepInv, FreshInv, RemoveLabels, Steady
  <1>12. pc' \in Acting /\ pc' # "act"
    BY <1>0 DEF Acting, RemoveLabels
  <1> QED  BY <1>0, <1>1, <1>3, <1>6, <1>10, <1>11, <1>12, ActionStep

LEMMA ClearPolicerTx ==
    ASSUME IInv, TxInv, ClearPolicer  PROVE TxInv'
  <1>0. /\ pc = "clearPolicer" /\ pc \in RemoveLabels /\ pc' = "act" /\ Steady
        /\ UNCHANGED <<limit_policies, monitored, clean, journal>>
    BY ControlSteady DEF ClearPolicer, clear_policer, Goto, RemoveLabels
  <1>1. limit_policies[cur.flow] = cur.policy /\ pc \in Acting
    BY <1>0, RemovingFacts DEF RemoveOK, TxInv, StepInv
  <1>2. InTx' => RecordInv' /\ UntouchedInv'
    BY <1>0, <1>1, ActingFacts, RecordsStay DEF TxInv
  <1>3. StepInv' /\ FreshInv'
    BY <1>0 DEF StepInv, FreshInv, RemoveLabels
  <1> QED  BY <1>0, <1>1, <1>2, <1>3, ActionStep

-----------------------------------------------------------------------------
(* Rollback *)

RecordUndo == {"undoDisarm", "undoClear", "undoRestore", "undoArm"}

\* A rollback step that keeps the prefixes.
LEMMA RollbackStep ==
    ASSUME IInv, TxInv, pc \in UndoLabels, pc' \in UndoLabels, Steady, UNCHANGED monitored, clean' => clean,
           journal'.wl_added = journal.wl_added, journal'.wl_removed = journal.wl_removed,
           RecordInv', UntouchedInv', StepInv', FreshInv'
    PROVE  TxInv'
  <1> USE DEF TxInv
  <1>1. /\ InTx' <=> InTx
        /\ CurOpen' => CurOpen
        /\ pc # "wlAdd" /\ InTx
    BY DEF InTx, CurOpen, UndoLabels, Acting, Mid, RemoveLabels, Steady
  <1>2. PlanInv' /\ TrieInv'
    BY <1>1, PlanStays, TrieStays
  <1>3. DoneInv'
    BY DoneStays
  <1>4. LabelInv'
    BY DEF LabelInv, UndoLabels
  <1> QED  BY <1>2, <1>3, <1>4

\* The record being played back.
LEMMA UndoingFacts ==
    ASSUME IInv, TxInv, pc \in RecordUndo
    PROVE  /\ InTx /\ pc \in UndoLabels \ {"undo"} /\ KeysInv /\ Undoing.key \in Flows /\ RecordOf(Undoing)
           /\ \/ /\ UndoList = "installs" /\ journal.installs # <<>> /\ Undoing = Last(journal.installs)
                 /\ Undoing \in Installs /\ InstallOK(Undoing) /\ Undoing \in InstallRecords
              \/ /\ UndoList = "removes" /\ journal.removes # <<>> /\ Undoing = Last(journal.removes)
                 /\ Undoing \in Removes /\ RemoveOK(Undoing) /\ Undoing \in RemoveRecords
                 /\ journal.installs = <<>> /\ pc \in {"undoRestore", "undoArm"}
           /\ \A r \in Installs : r \in InstallRecords /\ r.key \in Flows
           /\ \A r \in Removes : r \in RemoveRecords /\ r.key \in Flows
  <1>1. InTx /\ pc \in UndoLabels \ {"undo"} /\ RecordInv
    BY DEF InTx, RecordUndo, UndoLabels, TxInv
  <1>2. /\ Undoing.key \in Flows
        /\ \/ journal.installs # <<>> /\ UndoList = "installs"
           \/ journal.installs = <<>> /\ journal.removes # <<>> /\ UndoList = "removes"
    BY UndoFacts DEF RecordUndo
  <1>3. journal.installs \in Seq(InstallRecords) /\ journal.removes \in Seq(RemoveRecords)
    BY JournalTypes
  <1>4. /\ \A r \in Installs : r \in InstallRecords
        /\ \A r \in Removes : r \in RemoveRecords
    BY <1>3 DEF Installs, Removes, Range
  <1>5. /\ \A r \in Installs : r.key \in Flows
        /\ \A r \in Removes : r.key \in Flows
    BY <1>4 DEF InstallRecords, RemoveRecords
  <1>6. pc \in {"undoDisarm", "undoClear"} => journal.installs # <<>>
    BY DEF IInv, UndoInv
  <1>7. CASE journal.installs # <<>> /\ UndoList = "installs"
    <2>1. Undoing = Last(journal.installs) /\ Undoing \in Installs
      BY <1>3, <1>7, LastRecord, UndoListCases DEF Installs
    <2> QED  BY <1>1, <1>2, <1>4, <1>5, <1>7, <2>1 DEF RecordInv
  <1>8. CASE journal.installs = <<>> /\ journal.removes # <<>> /\ UndoList = "removes"
    <2>1. Undoing = Last(journal.removes) /\ Undoing \in Removes
      BY <1>3, <1>8, LastRecord, UndoListCases DEF Removes
    <2> QED  BY <1>1, <1>2, <1>4, <1>5, <1>6, <1>8, <2>1 DEF RecordInv, RecordUndo
  <1> QED  BY <1>2, <1>7, <1>8

\* The records that are left when one has been played back.
LEMMA DroppedRecords ==
    ASSUME IInv, TxInv, pc \in RecordUndo, journal' = Drop(UndoList)
    PROVE  /\ journal'.wl_added = journal.wl_added /\ journal'.wl_removed = journal.wl_removed
           /\ Installs' \subseteq Installs /\ Removes' \subseteq Removes
           /\ \A r \in Installs' \cup Removes' : r.key # Undoing.key
           /\ \A r \in Installs \cup Removes : r.key # Undoing.key => r \in Installs' \cup Removes'
           /\ KeysInv'
  <1>0. KeysInv /\ journal \in JournalType
        /\ journal.installs \in Seq(InstallRecords) /\ journal.removes \in Seq(RemoveRecords)
    BY UndoingFacts, JournalTypes
  <1>1. DistinctKeys(journal.installs) /\ DistinctKeys(journal.removes) /\ \A r \in Installs, q \in Removes : r.key # q.key
    BY <1>0 DEF KeysInv
  <1>2. CASE /\ UndoList = "installs" /\ journal.installs # <<>> /\ Undoing = Last(journal.installs)
             /\ Undoing \in Installs
    <2>1. /\ journal'.installs = Front(journal.installs) /\ journal'.removes = journal.removes
          /\ journal'.wl_added = journal.wl_added /\ journal'.wl_removed = journal.wl_removed
      BY <1>0, <1>2, OtherLists
    <2>2. /\ Installs = Range(Front(journal.installs)) \cup {Undoing} /\ DistinctKeys(Front(journal.installs))
          /\ \A q \in Range(Front(journal.installs)) : q.key # Undoing.key
      BY <1>0, <1>1, <1>2, LastRecord DEF Installs
    <2>3. /\ Installs' = Range(Front(journal.installs)) /\ Removes' = Removes
          /\ DistinctKeys(journal'.installs) /\ DistinctKeys(journal'.removes)
      BY <1>1, <2>1, <2>2 DEF Installs, Removes
    <2>4. KeysInv'
      BY <1>1, <2>2, <2>3 DEF KeysInv
    <2> QED  BY <1>1, <1>2, <2>1, <2>2, <2>3, <2>4
  <1>3. CASE /\ UndoList = "removes" /\ journal.removes # <<>> /\ Undoing = Last(journal.removes)
             /\ Undoing \in Removes
    <2>1. /\ journal'.installs = journal.installs /\ journal'.removes = Front(journal.removes)
          /\ journal'.wl_added = journal.wl_added /\ journal'.wl_removed = journal.wl_removed
      BY <1>0, <1>3, OtherLists
    <2>2. /\ Removes = Range(Front(journal.removes)) \cup {Undoing} /\ DistinctKeys(Front(journal.removes))
          /\ \A q \in Range(Front(journal.removes)) : q.key # Undoing.key
      BY <1>0, <1>1, <1>3, LastRecord DEF Removes
    <2>3. /\ Removes' = Range(Front(journal.removes)) /\ Installs' = Installs
          /\ DistinctKeys(journal'.installs) /\ DistinctKeys(journal'.removes)
      BY <1>1, <2>1, <2>2 DEF Installs, Removes
    <2>4. KeysInv'
      BY <1>1, <2>2, <2>3 DEF KeysInv
    <2> QED  BY <1>1, <1>3, <2>1, <2>2, <2>3, <2>4
  <1> QED  BY <1>2, <1>3, UndoingFacts

\* The record's flow is back to what it was, or the rollback has failed for it.
LEMMA DropStep ==
    ASSUME IInv, TxInv, pc \in RecordUndo, journal' = Drop(UndoList), pc' = "undo", Steady,
           UNCHANGED monitored, clean' => clean, NEW k \in Flows, k = Undoing.key,
           \A g \in Flows : g # k => limit_policies'[g] = limit_policies[g],
           limit_policies'[k] = before.limit_policies[k] \/ (~clean' /\ Lost(k)')
    PROVE  TxInv'
  <1>1. RecordInv /\ UntouchedInv /\ InTx /\ pc \in UndoLabels /\ pc' \in UndoLabels
    BY UndoingFacts DEF TxInv, UndoLabels
  <1>2. /\ \A r \in Installs' \cup Removes' : r.key \in Flows
        /\ \A r \in Installs' : r \in Installs
        /\ \A r \in Removes' : r \in Removes
        /\ \A r \in Installs \cup Removes : r.key # k => r \in Installs' \cup Removes'
        /\ \A r \in Installs' : r.key # k
        /\ \A r \in Removes' : r.key # k
        /\ KeysInv'
    BY UndoingFacts, DroppedRecords
  <1>3. RecordInv' /\ UntouchedInv'
    BY <1>1, <1>2, RecordsStep
  <1>4. StepInv' /\ FreshInv'
    BY DEF StepInv, FreshInv, RemoveLabels
  <1> QED  BY <1>1, <1>3, <1>4, DroppedRecords, RollbackStep

LEMMA UndoDisarmTx ==
    ASSUME IInv, TxInv, UndoDisarm  PROVE TxInv'
  <1>a. SUFFICES ASSUME NEW r, r = Undoing  PROVE TxInv'
    OBVIOUS
  <1>0. /\ pc = "undoDisarm" /\ pc \in RecordUndo /\ pc' = "undoClear" /\ Steady
        /\ UNCHANGED <<monitored, clean, journal>>
        /\ limit_policies' = [limit_policies EXCEPT ![r.key] = None]
    BY <1>a, ControlSteady DEF UndoDisarm, UndoGoto, disarm_policy, arm_policy, tx, RecordUndo
  <1>1. /\ r.key \in Flows /\ InTx /\ pc \in UndoLabels /\ KeysInv /\ RecordOf(r) /\ InstallOK(r)
        /\ r \in Installs /\ r.armed /\ r = Last(journal.installs)
    BY <1>a, <1>0, UndoingFacts DEF TxInv, StepInv
  <1>2. /\ limit_policies'[r.key] = None
        /\ \A g \in Flows : g # r.key => limit_policies'[g] = limit_policies[g]
    BY <1>0, <1>1 DEF IInv, EngineTypeOK, Phases
  <1>3. Installs' = Installs /\ Removes' = Removes /\ (KeysInv' <=> KeysInv)
    BY <1>0 DEF Installs, Removes, KeysInv
  <1>4. \A q \in Installs : q.key = r.key => q = r
    <2>1. DistinctKeys(journal.installs)
      BY <1>1 DEF KeysInv
    <2> QED  BY <1>1, <2>1 DEF Installs, Range, DistinctKeys
  <1>5. \A q \in Removes : q.key # r.key
    BY <1>1 DEF KeysInv
  <1>6. RecordOf(r)' /\ InstallOK(r)'
    BY <1>0, <1>1 DEF RecordOf, InstallOK, Steady
  <1>7. \A k \in Flows : k = r.key => Keyed(k)'
    BY <1>1, <1>3 DEF Keyed
  <1>8. RecordInv' /\ UntouchedInv'
    <2>1. RecordInv /\ UntouchedInv
      BY DEF TxInv
    <2>2. \A q \in Installs' \cup Removes' : q.key \in Flows
      BY <1>0, <1>3, UndoingFacts
    <2>3. KeysInv' /\ clean' = clean
      BY <1>0, <1>1, <1>3
    <2> QED  BY <1>0, <1>1, <1>2, <1>3, <1>4, <1>5, <1>6, <1>7, <2>1, <2>2, <2>3, RecordsStep
  <1>9. StepInv' /\ FreshInv'
    BY <1>0, <1>1, <1>2 DEF StepInv, FreshInv, RemoveLabels
  <1>10. pc' \in UndoLabels
    BY <1>0 DEF UndoLabels
  <1> QED  BY <1>0, <1>1, <1>8, <1>9, <1>10, RollbackStep

LEMMA UndoRestoreTx ==
    ASSUME IInv, TxInv, UndoRestore  PROVE TxInv'
  <1>a. SUFFICES ASSUME NEW k, k = Undoing.key  PROVE TxInv'
    OBVIOUS
  <1>0. pc = "undoRestore" /\ pc \in RecordUndo /\ k \in Flows
    BY <1>a, UndoingFacts DEF UndoRestore, RecordUndo
  <1>1. CASE ~MustRestore(Undoing) /\ Played /\ UNCHANGED maps
    <2>1. /\ journal' = Drop(UndoList) /\ pc' = "undo" /\ Steady
          /\ UNCHANGED <<monitored, clean, limit_policies>>
      BY <1>1, ControlSteady DEF Played, UndoGoto, maps
    <2>2. limit_policies[k] = before.limit_policies[k]
      <3>1. Undoing.old = before.limit_policies[k]
        BY <1>a, <1>0, UndoingFacts DEF RecordOf
      <3>2. CASE UndoList = "installs"
        BY <1>a, <1>0, <1>1, <3>1, <3>2, UndoingFacts DEF MustRestore, InstallOK, TxInv, StepInv
      <3>3. CASE UndoList = "removes"
        BY <1>a, <1>0, <1>1, <3>1, <3>3, UndoingFacts DEF MustRestore, RemoveOK
      <3> QED  BY <1>0, <3>2, <3>3, UndoingFacts
    <2> QED  BY <1>a, <1>0, <2>1, <2>2, DropStep
  <1>2. CASE /\ MustRestore(Undoing) /\ write_fresh_state(Undoing.key, AlgoOf[Undoing.old])
             /\ UndoGoto("undoArm") /\ UNCHANGED tx
    <2>1. /\ pc' = "undoArm" /\ Steady /\ UNCHANGED <<monitored, clean, limit_policies, journal>>
      BY <1>2, ControlSteady DEF UndoGoto, write_fresh_state, SetArtifact, tx
    <2>2. /\ RecordInv' /\ UntouchedInv'
      BY <1>0, <2>1, UndoingFacts, RecordsStay DEF TxInv
    <2>3. Undoing' = Undoing
      BY <2>1 DEF Undoing, UndoList, FirstNonempty
    <2>4. artifacts'[Store(AlgoOf[Undoing.old])][Undoing.key] = "fresh"
      BY <1>a, <1>0, <1>2, WriteKeeps DEF IInv
    <2>5. StepInv' /\ FreshInv'
      BY <1>0, <2>1, <2>3, <2>4 DEF TxInv, StepInv, FreshInv, RemoveLabels
    <2>6. pc \in UndoLabels /\ pc' \in UndoLabels
      BY <1>0, <2>1 DEF UndoLabels
    <2> QED  BY <2>1, <2>2, <2>5, <2>6, RollbackStep
  <1> QED  BY <1>1, <1>2 DEF UndoRestore

LEMMA UndoArmTx ==
    ASSUME IInv, TxInv, UndoArm  PROVE TxInv'
  <1>a. SUFFICES ASSUME NEW k, k = Undoing.key  PROVE TxInv'
    OBVIOUS
  <1>0. /\ pc = "undoArm" /\ pc \in RecordUndo /\ journal' = Drop(UndoList) /\ pc' = "undo" /\ Steady
        /\ UNCHANGED <<monitored, clean>>
        /\ limit_policies' = [limit_policies EXCEPT ![k] = Undoing.old]
    BY <1>a, ControlSteady DEF UndoArm, Played, UndoGoto, arm_policy, RecordUndo
  <1>1. k \in Flows /\ Undoing.old = before.limit_policies[k]
    BY <1>a, <1>0, UndoingFacts DEF RecordOf
  <1>2. /\ limit_policies'[k] = before.limit_policies[k]
        /\ \A g \in Flows : g # k => limit_policies'[g] = limit_policies[g]
    BY <1>0, <1>1 DEF IInv, EngineTypeOK, Phases
  <1> QED  BY <1>a, <1>0, <1>1, <1>2, DropStep

\* Playing back a whitelist record.
LEMMA PrefixRollbackStep ==
    ASSUME IInv, TxInv, pc \in {"undoReadd", "undoUnadd"}, pc' = "undo", Steady, UNCHANGED limit_policies,
           journal'.installs = journal.installs, journal'.removes = journal.removes, clean' => clean,
           TrieInv'
    PROVE  TxInv'
  <1> USE DEF TxInv
  <1>1. /\ InTx /\ InTx'
        /\ CurOpen' => CurOpen
        /\ pc \in UndoLabels /\ pc' \in UndoLabels
    BY DEF InTx, CurOpen, UndoLabels, Acting, Mid, RemoveLabels, Steady
  <1>2. PlanInv'
    BY <1>1, PlanStays
  <1>3. RecordInv' /\ UntouchedInv'
    BY <1>1, RecordsStay
  <1>4. DoneInv'
    BY <1>1, DoneStays
  <1>5. LabelInv'
    BY <1>1 DEF LabelInv, UndoLabels
  <1>6. StepInv' /\ FreshInv'
    BY DEF StepInv, FreshInv, RemoveLabels
  <1> QED  BY <1>2, <1>3, <1>4, <1>5, <1>6

\* The whitelist record being played back, and the ones left after it.
LEMMA UndoingPrefix ==
    ASSUME IInv, TxInv, pc \in {"undoReadd", "undoUnadd"}, journal' = Drop(UndoList)
    PROVE  /\ mode = "reload" /\ pc \in UndoLabels /\ Undoing \in Cidrs
           /\ journal'.installs = journal.installs /\ journal'.removes = journal.removes
           /\ pc = "undoReadd" =>
                /\ journal.wl_removed # <<>> /\ journal'.wl_added = journal.wl_added
                /\ Range(journal.wl_removed) = Range(journal'.wl_removed) \cup {Undoing}
                /\ Undoing \in prefixes \ target.prefixes
           /\ pc = "undoUnadd" =>
                /\ journal.wl_removed = <<>> /\ journal'.wl_removed = <<>>
                /\ Range(journal.wl_added) = Range(journal'.wl_added) \cup {Undoing}
                /\ Undoing \in target.prefixes \ prefixes
  <1>0. /\ journal \in JournalType
        /\ journal.wl_added \in Seq(Cidrs) /\ journal.wl_removed \in Seq(Cidrs)
        /\ journal.installs = <<>> /\ journal.removes = <<>> /\ InTx /\ pc \in UndoLabels
        /\ mode \in {"tick", "reload"}
    BY JournalTypes DEF IInv, UndoInv, InTx, UndoLabels, EngineTypeOK
  <1>1. CASE pc = "undoReadd"
    <2>1. journal.wl_removed # <<>> /\ UndoList = "wl_removed" /\ Undoing = Last(journal.wl_removed)
      BY <1>0, <1>1, UndoListCases DEF IInv, UndoInv
    <2>2. /\ journal'.installs = journal.installs /\ journal'.removes = journal.removes
          /\ journal'.wl_added = journal.wl_added /\ journal'.wl_removed = Front(journal.wl_removed)
      BY <1>0, <2>1, OtherLists
    <2>3. /\ Range(journal.wl_removed) = Range(Front(journal.wl_removed)) \cup {Undoing} /\ Undoing \in Cidrs
          /\ Undoing \in Range(journal.wl_removed)
      BY <1>0, <2>1, LastRecord, FrontLast
    <2>4. mode = "reload"
      BY <1>0, <2>1 DEF TxInv, TrieInv
    <2>5. Undoing \in prefixes \ target.prefixes
      BY <2>3, <2>4 DEF TxInv, TrieInv
    <2> QED  BY <1>0, <1>1, <2>1, <2>2, <2>3, <2>4, <2>5
  <1>2. CASE pc = "undoUnadd"
    <2>1. /\ journal.wl_added # <<>> /\ journal.wl_removed = <<>> /\ UndoList = "wl_added"
          /\ Undoing = Last(journal.wl_added)
      BY <1>0, <1>2, UndoListCases DEF IInv, UndoInv
    <2>2. /\ journal'.installs = journal.installs /\ journal'.removes = journal.removes
          /\ journal'.wl_removed = journal.wl_removed /\ journal'.wl_added = Front(journal.wl_added)
      BY <1>0, <2>1, OtherLists
    <2>3. /\ Range(journal.wl_added) = Range(Front(journal.wl_added)) \cup {Undoing} /\ Undoing \in Cidrs
          /\ Undoing \in Range(journal.wl_added)
      BY <1>0, <2>1, LastRecord, FrontLast
    <2>4. mode = "reload"
      BY <1>0, <2>1 DEF TxInv, TrieInv
    <2>5. Undoing \in target.prefixes \ prefixes
      BY <2>3, <2>4 DEF TxInv, TrieInv
    <2> QED  BY <1>0, <1>2, <2>1, <2>2, <2>3, <2>4, <2>5
  <1> QED  BY <1>1, <1>2

LEMMA UndoWhitelistTx ==
    ASSUME IInv, TxInv, UndoWhitelist  PROVE TxInv'
  <1>0. /\ pc \in {"undoReadd", "undoUnadd"} /\ journal' = Drop(UndoList) /\ pc' = "undo" /\ Steady
        /\ UNCHANGED <<limit_policies, clean>> /\ "undo" \in UndoLabels
        /\ pc = "undoReadd" => monitored' = monitored \cup {Undoing}
        /\ pc = "undoUnadd" => monitored' = monitored \ {Undoing}
    BY ControlSteady DEF UndoWhitelist, Played, UndoGoto, wl_insert, wl_remove, SetTrie, UndoLabels
  <1>1. CASE pc = "undoReadd"
    <2>1. TrieInv'
      BY <1>0, <1>1, UndoingPrefix DEF TxInv, TrieInv, Steady
    <2> QED  BY <1>0, <2>1, UndoingPrefix, PrefixRollbackStep
  <1>2. CASE pc = "undoUnadd"
    <2>1. TrieInv'
      BY <1>0, <1>2, UndoingPrefix DEF TxInv, TrieInv, Steady
    <2> QED  BY <1>0, <2>1, UndoingPrefix, PrefixRollbackStep
  <1> QED  BY <1>0, <1>1, <1>2

LEMMA UndoFailTx ==
    ASSUME IInv, TxInv, UndoFail  PROVE TxInv'
  <1>0. /\ Steady /\ UNCHANGED <<limit_policies, monitored>> /\ clean' = FALSE
        /\ pc \in RecordUndo \cup {"undoReadd", "undoUnadd"}
        /\ IF pc # "undoClear" THEN pc' = "undo" /\ journal' = Drop(UndoList)
                               ELSE pc' = "undoRestore" /\ UNCHANGED journal
    BY ControlSteady
       DEF UndoFail, GivesUp, NextIfKept, UndoGoto, NoRoomToRestore, UndoOpPending, RecordUndo, maps
  <1>1. CASE pc = "undoClear"
    <2>1. Follows(pc, pc') /\ pc' \in UndoLabels
      BY <1>0, <1>1 DEF Follows, UndoLabels
    <2> QED  BY <1>0, <1>1, <2>1, QuietStep
  <1>2. CASE pc \in {"undoReadd", "undoUnadd"}
    <2>0. journal' = Drop(UndoList) /\ pc' = "undo" /\ "undo" \in UndoLabels
      BY <1>0, <1>2 DEF UndoLabels
    <2>1. TrieInv'
      BY <1>0, <1>2, <2>0, UndoingPrefix DEF TxInv, TrieInv, Steady
    <2> QED  BY <1>0, <1>2, <2>0, <2>1, UndoingPrefix, PrefixRollbackStep
  <1>3. CASE pc \in RecordUndo /\ pc # "undoClear"
    <2>a. SUFFICES ASSUME NEW k, k = Undoing.key  PROVE TxInv'
      OBVIOUS
    <2>1. k \in Flows /\ Undoing.old = before.limit_policies[k] /\ mode \in {"tick", "reload"}
          /\ (mode = "tick" => k = cur.flow) /\ (mode = "reload" => limited[k] # None)
      BY <2>a, <1>3, UndoingFacts DEF RecordOf, IInv, EngineTypeOK
    <2>2. mode = "tick" => limit_policies[k] \in {None, before.limit_policies[k]}
      BY <2>a, <2>1, <1>3, UndoingFacts DEF InstallOK, RemoveOK
    <2>3. limit_policies'[k] = before.limit_policies[k] \/ Lost(k)'
      BY <1>0, <2>1, <2>2 DEF Lost, Steady
    <2> QED  BY <2>a, <1>0, <1>3, <2>1, <2>3, DropStep
  <1> QED  BY <1>0, <1>1, <1>2, <1>3

-----------------------------------------------------------------------------
(* Beginning and end of a transaction *)

\* Nothing is under way.
LEMMA EndTxTx ==
    ASSUME EndTx  PROVE TxInv'
  <1>1. pc' = "idle" /\ mode' = "tick" /\ todo' = {} /\ clean'
    BY DEF EndTx
  <1>2. ~InTx' /\ ~CurOpen' /\ "idle" \notin UndoLabels
    BY <1>1 DEF InTx, CurOpen, Acting, Mid, RemoveLabels, UndoLabels
  <1>3. LabelInv' /\ PlanInv'
    BY <1>1, <1>2 DEF LabelInv, PlanInv
  <1>4. RecordInv' /\ UntouchedInv' /\ DoneInv' /\ TrieInv'
    BY <1>1, <1>2 DEF RecordInv, UntouchedInv, DoneInv, TrieInv
  <1>5. StepInv' /\ FreshInv'
    BY <1>1 DEF StepInv, FreshInv, RemoveLabels
  <1> QED  BY <1>3, <1>4, <1>5 DEF TxInv

LEMMA InitTx ==
    ASSUME Init  PROVE TxInv
  <1>1. pc = "idle" /\ mode = "tick" /\ todo = {} /\ clean
    BY DEF Init
  <1>2. ~InTx /\ ~CurOpen /\ "idle" \notin UndoLabels
    BY <1>1 DEF InTx, CurOpen, Acting, Mid, RemoveLabels, UndoLabels
  <1>3. LabelInv /\ PlanInv
    BY <1>1, <1>2 DEF LabelInv, PlanInv
  <1>4. RecordInv /\ UntouchedInv /\ DoneInv /\ TrieInv
    BY <1>1, <1>2 DEF RecordInv, UntouchedInv, DoneInv, TrieInv
  <1>5. StepInv /\ FreshInv
    BY <1>1 DEF StepInv, FreshInv, RemoveLabels
  <1> QED  BY <1>3, <1>4, <1>5 DEF TxInv

\* An action of the plan takes its flow from the old phase to the new one.
LEMMA ActionsPlan ==
    ASSUME NEW old \in Phases, NEW new \in Phases
    PROVE  /\ \A a \in Actions(old, new) :
                /\ a \in ActionSet /\ a.flow \in Flows /\ a.policy = new[a.flow]
                /\ a.policy = None => old[a.flow] # None
                /\ a.policy # None => a.policy # old[a.flow]
           /\ \A a, b \in Actions(old, new) : a.flow = b.flow => a = b
           /\ \A f \in Flows : new[f] # old[f] => \E a \in Actions(old, new) : a.flow = f
  <1>1. \A a \in Actions(old, new) : a \in ActionSet
    BY ActionsType
  <1>2. ASSUME NEW a \in Actions(old, new)
        PROVE  /\ a.flow \in Flows /\ a.policy = new[a.flow]
               /\ a.policy = None => old[a.flow] # None
               /\ a.policy # None => a.policy # old[a.flow]
               /\ a = IF a.policy = None THEN RemoveOf(a.flow) ELSE InstallOf(a.flow, a.policy)
    BY PolicyAssumption DEF Actions, RemoveOf, InstallOf, Phases
  <1>3. ASSUME NEW f \in Flows, new[f] # old[f]  PROVE \E a \in Actions(old, new) : a.flow = f
    <2>1. CASE new[f] = None
      <3>1. RemoveOf(f) \in Actions(old, new) /\ RemoveOf(f).flow = f
        BY <1>3, <2>1 DEF Actions, RemoveOf
      <3> QED  BY <3>1
    <2>2. CASE new[f] # None
      <3>1. InstallOf(f, new[f]) \in Actions(old, new) /\ InstallOf(f, new[f]).flow = f
        BY <1>3, <2>2 DEF Actions, InstallOf
      <3> QED  BY <3>1
    <2> QED  BY <2>1, <2>2
  <1> QED  BY <1>1, <1>2, <1>3

LEMMA BeginTickTx ==
    ASSUME IInv, TxInv, NEW next \in Phases, BeginTick(next)  PROVE TxInv'
  <1>0. /\ pc = "idle" /\ pc' = "act" /\ mode' = "tick" /\ limited' = next /\ todo' = Actions(limited, next)
        /\ expired' = [f \in Flows |-> IF next[f] = None THEN limited[f] ELSE None]
        /\ \A f \in Flows : next[f] = limited[f] \/ next[f] = None \/ limited[f] = None
        /\ UNCHANGED <<degraded, clean>>
    BY DEF BeginTick, tx
  <1>1. ~InTx' /\ ~CurOpen' /\ pc' \notin UndoLabels
    BY <1>0 DEF InTx, CurOpen, Acting, Mid, RemoveLabels, UndoLabels
  <1>2. LabelInv'
    BY <1>0, <1>1 DEF TxInv, LabelInv, UndoLabels
  <1>3. limited \in Phases
    BY DEF IInv, EngineTypeOK
  <1>4. \A f \in Flows : expired'[f] = IF next[f] = None THEN limited[f] ELSE None
    BY <1>0
  <1>5. ASSUME NEW a \in Actions(limited, next)  PROVE Planned(a)'
    BY <1>0, <1>3, <1>4, <1>5, ActionsPlan DEF Planned, Goal, Past
  <1>6. PlanInv'
    BY <1>0, <1>1, <1>3, <1>5, ActionsPlan DEF PlanInv
  <1>7. RecordInv' /\ UntouchedInv' /\ DoneInv' /\ TrieInv'
    BY <1>0, <1>1 DEF RecordInv, UntouchedInv, DoneInv, TrieInv
  <1>8. StepInv' /\ FreshInv'
    BY <1>0 DEF StepInv, FreshInv, RemoveLabels
  <1> QED  BY <1>2, <1>6, <1>7, <1>8 DEF TxInv

\* An empty journal of maps that have not been touched.
LEMMA NewJournalFacts ==
    ASSUME NewJournal, UNCHANGED maps
    PROVE  /\ RecordInv' /\ UntouchedInv' /\ clean' /\ \A f : ~Keyed(f)'
           /\ before'.monitored = monitored' /\ before'.limit_policies = limit_policies'
           /\ journal'.wl_added = <<>> /\ journal'.wl_removed = <<>>
           /\ Range(journal'.wl_added) = {} /\ Range(journal'.wl_removed) = {}
  <1>1. /\ journal'.installs = <<>> /\ journal'.removes = <<>>
        /\ journal'.wl_added = <<>> /\ journal'.wl_removed = <<>>
        /\ before'.monitored = monitored' /\ before'.limit_policies = limit_policies' /\ clean'
    BY DEF NewJournal, EmptyJournal, maps
  <1>2. Range(<<>>) = {} /\ DistinctKeys(<<>>)
    BY DEF Range, DistinctKeys
  <1>3. Installs' = {} /\ Removes' = {} /\ KeysInv'
    BY <1>1, <1>2 DEF Installs, Removes, KeysInv
  <1>4. RecordInv' /\ UntouchedInv' /\ \A f : ~Keyed(f)'
    BY <1>1, <1>3 DEF RecordInv, UntouchedInv, Keyed
  <1> QED  BY <1>1, <1>2, <1>4

LEMMA BeginReloadTx ==
    ASSUME IInv, TxInv, NEW next \in Phases, NEW P \in PrefixSets, BeginReload(next, P)  PROVE TxInv'
  <1>0. /\ pc' = "wlAdd" /\ mode' = "reload" /\ todo' = Actions(limited, next)
        /\ target'.limited = next /\ target'.prefixes = P /\ UNCHANGED <<limited, prefixes, degraded>>
        /\ \A f \in Flows : limited[f] = None => next[f] = None
        /\ NewJournal /\ UNCHANGED maps
    BY DEF BeginReload, control
  <1>1. ~CurOpen' /\ pc' \notin UndoLabels /\ pc' \notin Acting
    BY <1>0 DEF CurOpen, Acting, Mid, RemoveLabels, UndoLabels
  <1>2. LabelInv'
    BY <1>0, <1>1, NewJournalFacts DEF LabelInv
  <1>3. limited \in Phases
    BY DEF IInv, EngineTypeOK
  <1>4. ASSUME NEW a \in Actions(limited, next)  PROVE Planned(a)'
    BY <1>0, <1>3, <1>4, ActionsPlan DEF Planned, Goal, Past
  <1>5. PlanInv'
    BY <1>0, <1>1, <1>3, <1>4, ActionsPlan DEF PlanInv
  <1>6. DoneInv'
    BY <1>0, <1>3, ActionsPlan, NewJournalFacts DEF DoneInv
  <1>7. TrieInv'
    BY <1>0, NewJournalFacts DEF TrieInv
  <1>8. StepInv' /\ FreshInv'
    BY <1>0 DEF StepInv, FreshInv, RemoveLabels
  <1> QED  BY <1>0, <1>2, <1>5, <1>6, <1>7, <1>8, NewJournalFacts DEF TxInv

LEMMA StartActionTx ==
    ASSUME IInv, TxInv, StartAction  PROVE TxInv'
  <1>0. /\ pc = "act" /\ UNCHANGED <<limited, expired, prefixes, degraded, mode, target>> /\ UNCHANGED maps
        /\ mode \in {"tick", "reload"} /\ InTx'
        /\ mode = "tick" => NewJournal
        /\ mode = "reload" => InTx /\ UNCHANGED <<journal, clean, before>>
    BY DEF StartAction, control, IInv, EngineTypeOK, InTx, ActionSet
  <1>1. PICK a \in todo : cur' = a /\ todo' = todo \ {a} /\ pc' = a.op
    BY DEF StartAction
  <1>2. /\ a \in ActionSet /\ a.op \in {"install", "remove"} /\ (a.op = "remove" => a.policy = None)
        /\ Planned(a) /\ \A b \in todo \ {a} : b.flow # a.flow
    BY DEF IInv, EngineTypeOK, ActionSet, TxInv, PlanInv
  <1>3. pc' \in Acting /\ pc' \notin UndoLabels /\ pc' \notin Mid \cup RemoveLabels /\ pc \notin UndoLabels
        /\ pc' \notin {"wlAdd", "wlDel", "idle"}
    BY <1>0, <1>1, <1>2 DEF Acting, Mid, RemoveLabels, UndoLabels
  <1>4. PlanInv'
    <2>1. \A b : Planned(b)' <=> Planned(b)
      BY <1>0 DEF Planned, Goal, Past
    <2> QED  BY <1>0, <1>1, <1>2, <2>1 DEF TxInv, PlanInv
  <1>5. CASE mode = "tick"
    <2>1. NewJournal
      BY <1>0, <1>5
    <2>2. LabelInv' /\ DoneInv' /\ TrieInv'
      BY <1>0, <1>3, <1>5, <2>1, NewJournalFacts DEF LabelInv, DoneInv, TrieInv
    <2>3. StepInv' /\ FreshInv'
      BY <1>0, <1>1, <1>2, <2>1, NewJournalFacts DEF StepInv, FreshInv, RemoveLabels
    <2> QED  BY <1>0, <1>4, <2>1, <2>2, <2>3, NewJournalFacts DEF TxInv
  <1>6. CASE mode = "reload"
    <2>0. InTx /\ UNCHANGED <<journal, clean, before, limit_policies, monitored>> /\ clean
      BY <1>0, <1>3, <1>6 DEF maps, TxInv, LabelInv
    <2>1. /\ Installs' = Installs /\ Removes' = Removes /\ (KeysInv' <=> KeysInv)
          /\ \A f : Keyed(f)' <=> Keyed(f)
      BY <2>0 DEF Installs, Removes, KeysInv, Keyed
    <2>2. /\ \A r : RecordOf(r) => RecordOf(r)'
          /\ \A r : InstallOK(r)' <=> InstallOK(r)
          /\ \A r : RemoveOK(r)' <=> RemoveOK(r)
      BY <1>0, <1>1, <1>6, <2>0 DEF RecordOf, InstallOK, RemoveOK
    <2>3. RecordInv' /\ UntouchedInv'
      BY <1>0, <1>6, <2>0, <2>1, <2>2 DEF TxInv, RecordInv, UntouchedInv
    <2>4. ~Keyed(a.flow)
      BY <1>1, <2>0 DEF TxInv, RecordInv, RecordOf, Keyed
    <2>5. StepInv' /\ FreshInv'
      <3>1. \A f : f = a.flow => ~Keyed(f)'
        BY <2>1, <2>4
      <3> QED  BY <1>1, <1>2, <3>1 DEF StepInv, FreshInv, RemoveLabels
    <2>6. DoneInv'
      BY <1>0, <1>1, <1>3, <1>6, <2>0 DEF TxInv, DoneInv, Acting, Mid, RemoveLabels
    <2>7. TrieInv'
      <3>1. ToAdd' = ToAdd
        BY <1>0, <2>0 DEF ToAdd, Pending
      <3> QED  BY <1>0, <1>3, <1>6, <2>0, <3>1 DEF TxInv, TrieInv
    <2>8. LabelInv'
      BY <1>0, <1>3, <1>6, <2>0 DEF LabelInv
    <2> QED  BY <1>4, <2>3, <2>5, <2>6, <2>7, <2>8 DEF TxInv
  <1> QED  BY <1>0, <1>5, <1>6

LEMMA ActionsDoneTx ==
    ASSUME IInv, TxInv, ActionsDone  PROVE TxInv'
  <1>1. CASE EndTx
    BY <1>1, EndTxTx
  <1>2. CASE pc = "act" /\ mode = "reload" /\ todo = {} /\ Goto("wlDel") /\ UNCHANGED journal /\ UNCHANGED maps
    <2>1. /\ pc' = "wlDel" /\ Steady /\ UNCHANGED <<limit_policies, monitored, clean>> /\ InTx /\ InTx'
          /\ pc \notin UndoLabels
      BY <1>2, ControlSteady DEF Goto, maps, InTx, UndoLabels
    <2>2. TrieInv'
      BY <1>2, <2>1, TrieStays DEF TxInv
    <2> QED  BY <1>2, <2>1, <2>2, WhitelistStep
  <1> QED  BY <1>1, <1>2 DEF ActionsDone

\* The limiter takes back the action that failed: the other actions of the tick stay.
LEMMA UndoDoneTx ==
    ASSUME IInv, TxInv, UndoDone  PROVE TxInv'
  <1>1. CASE mode = "reload"
    BY <1>1, EndTxTx DEF UndoDone, LastRollback
  <1>2. CASE mode = "tick"
    <2>0. /\ pc = "undo" /\ pc' = "act" /\ UNCHANGED <<mode, todo, cur, clean>>
          /\ degraded' = (degraded \/ ~clean) /\ revert_failed_action(cur)
          /\ expired' = [expired EXCEPT ![cur.flow] = None]
      BY <1>2 DEF UndoDone, LastRollback, drive, tx
    <2>1. ~InTx' /\ ~CurOpen' /\ pc' \notin UndoLabels /\ CurOpen
      BY <1>2, <2>0 DEF InTx, CurOpen, Acting, Mid, RemoveLabels, UndoLabels
    <2>2. LabelInv'
      BY <2>0, <2>1 DEF LabelInv
    <2>3. \A a \in todo : a \in ActionSet /\ a.flow # cur.flow /\ Planned(a)
      BY <2>1 DEF TxInv, PlanInv, Planned
    <2>4. \A f \in Flows : f # cur.flow => limited'[f] = limited[f] /\ expired'[f] = expired[f]
      BY <2>0 DEF revert_failed_action, IInv, EngineTypeOK, Phases
    <2>5. ASSUME NEW a \in todo  PROVE Planned(a)'
      <3>1. a.flow \in Flows
        BY <2>3 DEF ActionSet
      <3>2. limited'[a.flow] = limited[a.flow] /\ expired'[a.flow] = expired[a.flow]
        BY <2>3, <2>4, <3>1
      <3> QED  BY <1>2, <2>0, <2>3, <3>2 DEF Planned, Goal, Past
    <2>6. PlanInv'
      BY <1>2, <2>0, <2>1, <2>5 DEF TxInv, PlanInv
    <2>7. RecordInv' /\ UntouchedInv' /\ DoneInv' /\ TrieInv'
      BY <1>2, <2>0, <2>1 DEF RecordInv, UntouchedInv, DoneInv, TrieInv
    <2>8. StepInv' /\ FreshInv'
      BY <2>0 DEF StepInv, FreshInv, RemoveLabels
    <2> QED  BY <2>2, <2>6, <2>7, <2>8 DEF TxInv
  <1> QED  BY <1>1, <1>2 DEF UndoDone

\* What the journal means is kept by every step.
LEMMA NextTx ==
    ASSUME IInv, PacketTypeOK, TxInv, [Next]_vars  PROVE TxInv'
  <1>1. CASE Forward
    <2>1. CASE Commit
      BY <2>1, EndTxTx DEF Commit
    <2> QED
      BY <1>1, <2>1, WhitelistAddTx, StartActionTx, ActionsDoneTx, InstallLookupTx, DisarmOldTx, ClearOldTx,
         WriteStateTx, ArmTx, RemoveLookupTx, DisarmTx, ClearStateTx, ClearPolicerTx, WhitelistRemoveTx,
         FailTx DEF Forward
  <1>2. CASE Undo
    BY <1>2, UndoNextTx, UndoDisarmTx, UndoClearTx, UndoRestoreTx, UndoArmTx, UndoWhitelistTx,
       UndoFailTx, UndoDoneTx DEF Undo
  <1>3. CASE \E next \in Phases : BeginTick(next)
    BY <1>3, BeginTickTx
  <1>4. CASE \E next \in Phases, P \in PrefixSets : BeginReload(next, P)
    BY <1>4, BeginReloadTx
  <1>5. CASE DataPath
    BY <1>5, PacketTx
  <1>6. CASE UNCHANGED vars
    BY <1>6, StutterTx
  <1> QED  BY <1>1, <1>2, <1>3, <1>4, <1>5, <1>6 DEF Next, Engine

-----------------------------------------------------------------------------
(* What AtomicLimits sees of a step *)

Unseen == AbsArmed' = AbsArmed /\ AbsMonitored' = AbsMonitored /\ AbsLimited' = AbsLimited
          /\ UNCHANGED <<prefixes, degraded>>

LEMMA UnseenStutters ==
    ASSUME Unseen  PROVE UNCHANGED Atomic!vars
  BY DEF Unseen, AbsArmed, AbsMonitored, AbsLimited, Atomic!vars

\* A step inside a transaction is not seen.
LEMMA InnerUnseen ==
    ASSUME Steady, InTx, InTx'  PROVE Unseen
  <1>1. \A f : Open(f)' <=> Open(f)
    BY DEF Open, Steady
  <1>2. AbsLimited' = AbsLimited
    BY <1>1 DEF AbsLimited, Steady
  <1> QED  BY <1>2 DEF Unseen, AbsArmed, AbsMonitored, Steady

\* Nor is one that leaves the policies, the prefixes and the engine's place alone.
LEMMA QuietUnseen ==
    ASSUME Steady, UNCHANGED <<pc, limit_policies, monitored>>  PROVE Unseen
  <1>1. (InTx' <=> InTx) /\ \A f : Open(f)' <=> Open(f)
    BY DEF InTx, Open, Steady
  <1>2. AbsLimited' = AbsLimited
    BY <1>1 DEF AbsLimited, Steady
  <1> QED  BY <1>1, <1>2 DEF Unseen, AbsArmed, AbsMonitored, Steady

LEMMA BeginTickUnseen ==
    ASSUME IInv, TxInv, NEW next \in Phases, BeginTick(next)  PROVE Unseen
  <1>0. /\ pc = "idle" /\ pc' = "act" /\ mode' = "tick" /\ limited' = next /\ todo' = Actions(limited, next)
        /\ expired' = [f \in Flows |-> IF next[f] = None THEN limited[f] ELSE None]
        /\ \A f \in Flows : next[f] = limited[f] \/ next[f] = None \/ limited[f] = None
        /\ UNCHANGED <<limit_policies, monitored, prefixes, degraded>>
    BY DEF BeginTick, maps
  <1>1. ~InTx /\ ~InTx' /\ mode = "tick" /\ todo = {} /\ limited \in Phases
    BY <1>0 DEF InTx, TxInv, LabelInv, IInv, EngineTypeOK
  <1>2. ASSUME NEW f \in Flows
        PROVE  (IF Open(f)' THEN expired'[f] ELSE next[f]) = limited[f]
    <2>1. Open(f)' => next[f] # limited[f]
      BY <1>0, <1>1, ActionsPlan DEF Open
    <2>2. next[f] # limited[f] => Open(f)'
      BY <1>0, <1>1, ActionsPlan DEF Open
    <2>3. expired'[f] = IF next[f] = None THEN limited[f] ELSE None
      BY <1>0
    <2> QED  BY <1>0, <2>1, <2>2, <2>3
  <1>3. \A f \in Flows : ~Open(f)
    BY <1>1 DEF Open
  <1>4. AbsLimited' = AbsLimited
    BY <1>0, <1>2, <1>3 DEF AbsLimited
  <1> QED  BY <1>0, <1>1, <1>4 DEF Unseen, AbsArmed, AbsMonitored

LEMMA BeginReloadUnseen ==
    ASSUME IInv, TxInv, NEW next \in Phases, NEW P \in PrefixSets, BeginReload(next, P)  PROVE Unseen
  <1>0. /\ pc = "idle" /\ pc' = "wlAdd" /\ mode' = "reload"
        /\ UNCHANGED <<limit_policies, monitored, limited, prefixes, degraded>>
        /\ NewJournal /\ UNCHANGED maps
    BY DEF BeginReload, maps, control
  <1>1. ~InTx /\ InTx' /\ mode = "tick" /\ todo = {}
    BY <1>0 DEF InTx, TxInv, LabelInv
  <1>2. AbsLimited' = AbsLimited
    BY <1>0, <1>1 DEF AbsLimited, Open
  <1> QED  BY <1>0, <1>1, <1>2, NewJournalFacts DEF Unseen, AbsArmed, AbsMonitored

LEMMA StartActionUnseen ==
    ASSUME IInv, TxInv, StartAction  PROVE Unseen
  <1>0. /\ pc = "act" /\ UNCHANGED <<limited, expired, prefixes, degraded, mode, limit_policies, monitored>>
        /\ UNCHANGED maps /\ mode \in {"tick", "reload"} /\ InTx'
        /\ mode = "tick" => NewJournal /\ ~InTx
        /\ mode = "reload" => InTx /\ UNCHANGED before
    BY DEF StartAction, control, maps, IInv, EngineTypeOK, InTx, ActionSet
  <1>1. PICK a \in todo : cur' = a /\ todo' = todo \ {a}
    BY DEF StartAction
  <1>2. \A f : Open(f)' <=> Open(f)
    BY <1>0, <1>1 DEF Open
  <1>3. AbsLimited' = AbsLimited
    BY <1>0, <1>2 DEF AbsLimited
  <1> QED  BY <1>0, <1>3, NewJournalFacts DEF Unseen, AbsArmed, AbsMonitored

LEMMA ActionsDoneUnseen ==
    ASSUME IInv, TxInv, ActionsDone  PROVE Unseen
  <1>1. CASE mode = "tick"
    <2>0. /\ pc = "act" /\ pc' = "idle" /\ todo = {} /\ todo' = {}
          /\ UNCHANGED <<limited, prefixes, degraded, limit_policies, monitored>>
      BY <1>1 DEF ActionsDone, EndTx, control, maps
    <2>1. ~InTx /\ ~InTx'
      BY <1>1, <2>0 DEF InTx
    <2>2. AbsLimited' = AbsLimited
      BY <2>0, <2>1 DEF AbsLimited, Open
    <2> QED  BY <2>0, <2>1, <2>2 DEF Unseen, AbsArmed, AbsMonitored
  <1>2. CASE mode = "reload"
    <2>1. Steady /\ InTx /\ InTx'
      BY <1>2, ControlSteady DEF ActionsDone, Goto, InTx
    <2> QED  BY <2>1, InnerUnseen
  <1> QED  BY <1>1, <1>2 DEF ActionsDone

\* The last step of a tick action.
LEMMA FinishApplies ==
    ASSUME IInv, TxInv, pc \in Acting, Steady, UNCHANGED monitored, mode = "tick", pc' = "act",
           \A g \in Flows : g # cur.flow => limit_policies'[g] = limit_policies[g],
           limit_policies'[cur.flow] = cur.policy, limit_policies' \in Phases,
           NEW f0, f0 = cur.flow, NEW p0, p0 = cur.policy
    PROVE  Atomic!TickApplied(f0, p0)
  <1>0. /\ InTx /\ ~InTx' /\ clean /\ cur.flow \in Flows /\ Planned(cur) /\ \A a \in todo : a.flow # cur.flow
    BY ActingFacts DEF InTx, Steady
  <1>1. /\ Open(cur.flow) /\ \A f : f = cur.flow => ~Open(f)'
        /\ \A f : f # cur.flow => (Open(f)' <=> Open(f))
    BY <1>0 DEF Open, Steady
  <1>2. /\ expired[cur.flow] = None <=> cur.policy # None
        /\ cur.policy = limited[cur.flow]
    BY <1>0 DEF Planned, Past, Goal
  <1>3. (AbsLimited[cur.flow] = None) # (cur.policy = None)
    <2>1. AbsLimited[cur.flow] = expired[cur.flow]
      BY <1>0, <1>1 DEF AbsLimited
    <2> QED  BY <1>2, <2>1
  <1>4. limit_policies' = [before.limit_policies EXCEPT ![cur.flow] = cur.policy]
    <2>1. \A g \in Flows : g # cur.flow => limit_policies[g] = before.limit_policies[g]
      BY <1>0 DEF TxInv, UntouchedInv, RecordInv, RecordOf, Keyed
    <2>2. before.limit_policies \in Phases
      BY DEF IInv, EngineTypeOK
    <2> QED  BY <1>0, <2>1, <2>2 DEF Phases
  <1>5. AbsArmed' = [AbsArmed EXCEPT ![cur.flow] = cur.policy]
    BY <1>0, <1>4 DEF AbsArmed
  <1>6. AbsLimited' = [AbsLimited EXCEPT ![cur.flow] = cur.policy]
    <2>1. AbsLimited' = [f \in Flows |-> IF Open(f)' THEN expired'[f] ELSE limited'[f]]
      BY DEF AbsLimited
    <2>2. \A f \in Flows : AbsLimited'[f] = IF f = cur.flow THEN cur.policy ELSE AbsLimited[f]
      BY <1>1, <1>2, <2>1 DEF Steady, AbsLimited
    <2> QED  BY <2>1, <2>2 DEF AbsLimited
  <1>7. AbsMonitored' = AbsMonitored /\ UNCHANGED <<prefixes, degraded>>
    BY <1>0 DEF AbsMonitored, TxInv, TrieInv, Steady
  <1> QED  BY <1>3, <1>5, <1>6, <1>7 DEF Atomic!TickApplied, AbsArmed, AbsMonitored, AbsLimited

\* Every step that AtomicLimits allows.
Seen == [Atomic!Next]_(Atomic!vars)

LEMMA AppliedSeen ==
    ASSUME NEW f \in Flows, NEW p \in Policies \cup {None}, Atomic!TickApplied(f, p)  PROVE Seen
  BY DEF Seen, Atomic!Next

LEMMA FinishSeen ==
    ASSUME IInv, TxInv, pc \in Acting, Steady, UNCHANGED monitored, pc' = "act",
           \A g \in Flows : g # cur.flow => limit_policies'[g] = limit_policies[g],
           limit_policies'[cur.flow] = cur.policy, limit_policies' \in Phases
    PROVE  Seen
  <1>0. mode \in {"tick", "reload"} /\ InTx /\ cur.flow \in Flows /\ cur.policy \in Policies \cup {None}
    BY ActingFacts DEF IInv, EngineTypeOK
  <1>1. CASE mode = "tick"
    <2>1. SUFFICES ASSUME NEW f, f = cur.flow, NEW p, p = cur.policy  PROVE Seen
      OBVIOUS
    <2>2. Atomic!TickApplied(f, p)
      BY <1>1, <2>1, FinishApplies
    <2> QED  BY <1>0, <2>1, <2>2, AppliedSeen
  <1>2. CASE mode = "reload"
    <2>1. InTx'
      BY <1>2 DEF InTx, Steady
    <2> QED  BY <1>0, <2>1, InnerUnseen, UnseenStutters DEF Seen
  <1> QED  BY <1>0, <1>1, <1>2

LEMMA ArmSeen ==
    ASSUME IInv, TxInv, Arm  PROVE Seen
  <1>0. /\ pc = "arm" /\ pc \in Mid /\ pc \in Acting /\ pc' = "act" /\ Steady /\ UNCHANGED monitored
        /\ limit_policies' = [limit_policies EXCEPT ![cur.flow] = cur.policy]
    BY ControlSteady DEF Arm, Goto, arm_policy, Mid, Acting
  <1>1. cur.flow \in Flows /\ cur.policy \in Policies
    BY <1>0, InstallFacts
  <1>2. /\ limit_policies'[cur.flow] = cur.policy /\ limit_policies' \in Phases
        /\ \A g \in Flows : g # cur.flow => limit_policies'[g] = limit_policies[g]
    BY <1>0, <1>1 DEF IInv, EngineTypeOK, Phases
  <1>3. Steady /\ pc \in Acting /\ pc' = "act" /\ UNCHANGED monitored
    BY <1>0
  <1> QED  BY <1>2, <1>3, FinishSeen

LEMMA RemoveSeen ==
    ASSUME IInv, TxInv, RemoveLookup \/ ClearPolicer  PROVE Seen
  <1>0. /\ pc \in {"remove", "clearPolicer"} /\ pc \in Acting /\ Steady /\ UNCHANGED <<limit_policies, monitored>>
        /\ pc = "remove" => pc' = "disarm" \/ (pc' = "act" /\ limit_policies[cur.flow] = None)
        /\ pc = "clearPolicer" => pc' = "act" /\ pc \in RemoveLabels
    BY ControlSteady DEF RemoveLookup, ClearPolicer, clear_policer, Goto, Acting, RemoveLabels, maps
  <1>1. CASE pc' = "disarm"
    <2>1. InTx /\ InTx'
      BY <1>0, <1>1 DEF InTx
    <2> QED  BY <1>0, <2>1, InnerUnseen, UnseenStutters DEF Seen
  <1>2. CASE pc' = "act"
    <2>1. cur.policy = None /\ limit_policies[cur.flow] = None
      BY <1>0, <1>2, RemovingFacts DEF TxInv, StepInv, RemoveOK
    <2>2. limit_policies \in Phases
      BY DEF IInv, EngineTypeOK
    <2> QED  BY <1>0, <1>2, <2>1, <2>2, FinishSeen
  <1> QED  BY <1>0, <1>1, <1>2

LEMMA ReloadAppliedSeen ==
    ASSUME NEW next \in Phases, NEW P \in SUBSET Cidrs, Atomic!ReloadApplied(next, P)  PROVE Seen
  BY DEF Seen, Atomic!Next, Atomic!Phases, Phases

LEMMA CommitSeen ==
    ASSUME IInv, TxInv, Commit  PROVE Seen
  <1>a. SUFFICES ASSUME NEW next, next = target.limited, NEW P, P = target.prefixes  PROVE Seen
    OBVIOUS
  <1>0. /\ pc = "wlDel" /\ ToRemove = {} /\ limited' = next /\ prefixes' = P /\ pc' = "idle" /\ mode' = "tick"
        /\ todo' = {} /\ UNCHANGED <<limit_policies, monitored, degraded>>
    BY <1>a DEF Commit, EndTx, maps
  <1>1. /\ mode = "reload" /\ todo = {} /\ InTx /\ ~InTx' /\ pc \notin UndoLabels /\ pc \notin Acting
        /\ next \in Phases /\ P \subseteq Cidrs /\ limited \in Phases
        /\ limit_policies \in Phases
    BY <1>a, <1>0 DEF TxInv, LabelInv, InTx, UndoLabels, Acting, Mid, RemoveLabels, IInv, EngineTypeOK
  <1>2. \A f \in Flows : limit_policies[f] = IF next[f] = limited[f] THEN before.limit_policies[f] ELSE next[f]
    BY <1>a, <1>1 DEF TxInv, DoneInv
  <1>3. AbsArmed' = [f \in Flows |-> IF next[f] = AbsLimited[f] THEN AbsArmed[f] ELSE next[f]]
    <2>1. \A f \in Flows : AbsLimited[f] = limited[f]
      BY <1>1 DEF AbsLimited, Open
    <2>2. AbsArmed' = limit_policies /\ AbsArmed = before.limit_policies
      BY <1>0, <1>1 DEF AbsArmed
    <2> QED  BY <1>1, <1>2, <2>1, <2>2 DEF Phases
  <1>4. monitored = (before.monitored \cup (P \ prefixes)) \ (prefixes \ P)
    <2>1. /\ Range(journal.wl_added) = P \ prefixes
          /\ monitored = (before.monitored \cup Range(journal.wl_added)) \ Range(journal.wl_removed)
      BY <1>a, <1>0, <1>1 DEF TxInv, TrieInv, ToAdd, Pending
    <2>2. Range(journal.wl_removed) = prefixes \ P
      BY <1>a, <1>0, <1>1 DEF TxInv, TrieInv, ToRemove, Pending
    <2> QED  BY <2>1, <2>2
  <1>5. AbsMonitored' = (AbsMonitored \cup (P \ prefixes)) \ (prefixes \ P)
    BY <1>0, <1>1, <1>4 DEF AbsMonitored
  <1>6. AbsLimited' = next
    BY <1>0, <1>1 DEF AbsLimited, Open, Phases
  <1>7. \A f \in Flows : AbsLimited[f] = None => next[f] = None
    BY <1>a, <1>1 DEF AbsLimited, Open, TxInv, PlanInv
  <1>8. Atomic!ReloadApplied(next, P)
    BY <1>0, <1>3, <1>5, <1>6, <1>7 DEF Atomic!ReloadApplied, AbsArmed, AbsMonitored, AbsLimited
  <1> QED  BY <1>1, <1>8, ReloadAppliedSeen

\* A failed action that has been taken back.
LEMMA TickUndone ==
    ASSUME IInv, TxInv, UndoDone, mode = "tick"  PROVE Seen
  <1>a. SUFFICES ASSUME NEW k, k = cur.flow  PROVE Seen
    OBVIOUS
  <1>0. /\ pc = "undo" /\ pc' = "act" /\ UNCHANGED <<mode, todo, cur, before, prefixes, limit_policies, monitored>>
        /\ journal = EmptyJournal
        /\ degraded' = (degraded \/ ~clean) /\ revert_failed_action(cur)
        /\ expired' = [expired EXCEPT ![cur.flow] = None]
    BY DEF UndoDone, LastRollback, drive, tx, maps
  <1>1. /\ InTx /\ ~InTx' /\ CurOpen /\ limited \in Phases /\ expired \in Phases /\ limit_policies \in Phases
        /\ before.limit_policies \in Phases /\ clean \in BOOLEAN /\ degraded \in BOOLEAN
    BY <1>0 DEF InTx, CurOpen, UndoLabels, IInv, EngineTypeOK
  <1>2. Planned(cur) /\ (\A a \in todo : a.flow # cur.flow) /\ k \in Flows
    BY <1>a, <1>1 DEF TxInv, PlanInv, Planned, ActionSet
  <1>3. /\ limited'[k] = IF cur.op = "install" THEN None ELSE expired[k]
        /\ \A f \in Flows : f # k => limited'[f] = limited[f] /\ expired'[f] = expired[f]
    BY <1>a, <1>0, <1>1, <1>2 DEF revert_failed_action, Phases
  <1>4. cur.op = "install" => expired[k] = None
    BY <1>a, <1>2, PolicyAssumption DEF Planned, Past, ActionSet
  <1>5. AbsLimited' = AbsLimited
    <2>1. Open(k) /\ ~Open(k)' /\ \A f \in Flows : f # k => (Open(f)' <=> Open(f))
      BY <1>a, <1>0, <1>1, <1>2 DEF Open
    <2>2. \A f \in Flows : (IF Open(f)' THEN expired'[f] ELSE limited'[f]) = (IF Open(f) THEN expired[f] ELSE limited[f])
      BY <1>3, <1>4, <2>1
    <2> QED  BY <2>2 DEF AbsLimited
  <1>6. AbsMonitored' = AbsMonitored
    BY <1>0, <1>1 DEF AbsMonitored, TxInv, TrieInv
  <1>7. \A f \in Flows : limit_policies[f] = before.limit_policies[f] \/ (~clean /\ f = k /\ limit_policies[f] = None)
    <2>1. \A f : ~Keyed(f)
      BY <1>0 DEF Keyed, Installs, Removes, EmptyJournal, Range
    <2> QED  BY <1>a, <1>1, <2>1 DEF TxInv, UntouchedInv, Lost
  <1>8. CASE clean
    <2>1. AbsArmed' = AbsArmed
      BY <1>0, <1>1, <1>7, <1>8 DEF AbsArmed, Phases
    <2>2. degraded' = degraded
      BY <1>0, <1>1, <1>8
    <2> QED  BY <1>0, <1>5, <1>6, <2>1, <2>2, UnseenStutters DEF Unseen, Seen
  <1>9. CASE ~clean
    <2>1. AbsArmed' \in {AbsArmed, [AbsArmed EXCEPT ![k] = None]}
      <3>1. AbsArmed' = limit_policies /\ AbsArmed = before.limit_policies
        BY <1>0, <1>1 DEF AbsArmed
      <3>2. limit_policies = before.limit_policies \/ limit_policies = [before.limit_policies EXCEPT ![k] = None]
        BY <1>1, <1>2, <1>7 DEF Phases
      <3> QED  BY <3>1, <3>2
    <2>2. degraded' = TRUE
      BY <1>0, <1>1, <1>9
    <2>3. Atomic!TickDegraded(k)
      BY <1>0, <1>5, <1>6, <2>1, <2>2 DEF Atomic!TickDegraded, AbsArmed, AbsMonitored, AbsLimited
    <2> QED  BY <1>2, <2>3 DEF Seen, Atomic!Next
  <1> QED  BY <1>8, <1>9

LEMMA RejectedSeen ==
    ASSUME NEW M \in SUBSET Cidrs, Atomic!ReloadRejected(M)  PROVE Seen
  BY DEF Seen, Atomic!Next

LEMMA DegradedSeen ==
    ASSUME NEW next \in Phases, NEW M \in SUBSET Cidrs, Atomic!ReloadDegraded(next, M)  PROVE Seen
  BY DEF Seen, Atomic!Next, Atomic!Phases, Phases

\* A failed reload that has been rolled back.
LEMMA ReloadUndone ==
    ASSUME IInv, TxInv, UndoDone, mode = "reload"  PROVE Seen
  <1>a. SUFFICES ASSUME NEW next, next = limit_policies, NEW M, M = monitored  PROVE Seen
    OBVIOUS
  <1>0. /\ pc = "undo" /\ pc' = "idle" /\ mode' = "tick" /\ todo' = {} /\ journal = EmptyJournal
        /\ UNCHANGED <<limited, prefixes, limit_policies, monitored>>
        /\ degraded' = (degraded \/ ~clean)
    BY DEF UndoDone, LastRollback, EndTx, maps
  <1>1. /\ InTx /\ ~InTx' /\ limited \in Phases /\ limit_policies \in Phases /\ monitored \subseteq Cidrs
        /\ before.limit_policies \in Phases /\ clean \in BOOLEAN /\ degraded \in BOOLEAN
    BY <1>0 DEF InTx, IInv, EngineTypeOK
  <1>2. AbsLimited' = AbsLimited /\ \A f \in Flows : AbsLimited[f] = limited[f]
    BY <1>0, <1>1 DEF AbsLimited, Open
  <1>3. \A f \in Flows : limit_policies[f] = before.limit_policies[f] \/ (~clean /\ limited[f] # None)
    <2>1. \A f : ~Keyed(f)
      BY <1>0 DEF Keyed, Installs, Removes, EmptyJournal, Range
    <2> QED  BY <1>1, <2>1 DEF TxInv, UntouchedInv, Lost
  <1>4. /\ AbsArmed = before.limit_policies /\ AbsArmed' = limit_policies
        /\ AbsMonitored = before.monitored /\ AbsMonitored' = monitored
    BY <1>0, <1>1 DEF AbsArmed, AbsMonitored
  <1>5. CASE clean
    <2>1. AbsArmed' = AbsArmed /\ degraded' = degraded
      BY <1>0, <1>1, <1>3, <1>4, <1>5 DEF Phases
    <2>2. before.monitored \cap prefixes \subseteq monitored /\ monitored \subseteq before.monitored \cup prefixes
      <3>1. Range(journal.wl_removed) = {} /\ Range(journal.wl_added) = {}
        BY <1>0 DEF EmptyJournal, Range
      <3> QED  BY <1>5, <3>1 DEF TxInv, TrieInv
    <2>3. Atomic!ReloadRejected(M)
      BY <1>a, <1>0, <1>2, <1>4, <2>1, <2>2 DEF Atomic!ReloadRejected, AbsArmed, AbsMonitored, AbsLimited
    <2> QED  BY <1>a, <1>1, <2>3, RejectedSeen
  <1>6. CASE ~clean
    <2>1. degraded' = TRUE
      BY <1>0, <1>1, <1>6
    <2>2. \A f \in Flows : AbsLimited[f] = None => next[f] = AbsArmed[f]
      BY <1>a, <1>2, <1>3, <1>4
    <2>3. Atomic!ReloadDegraded(next, M)
      BY <1>a, <1>0, <1>2, <1>4, <2>1, <2>2 DEF Atomic!ReloadDegraded, AbsArmed, AbsMonitored, AbsLimited
    <2> QED  BY <1>a, <1>1, <2>3, DegradedSeen
  <1> QED  BY <1>5, <1>6

\* The steps in between.
LEMMA InnerSteps ==
    ASSUME IInv, TxInv,
           \/ WhitelistAdd \/ InstallLookup \/ DisarmOld \/ ClearOld \/ WriteState \/ Disarm \/ ClearState
           \/ WhitelistRemove \/ Fail
           \/ UndoNext \/ UndoDisarm \/ UndoClear \/ UndoRestore \/ UndoArm \/ UndoWhitelist \/ UndoFail
    PROVE  Seen
  <1>1. CASE WhitelistAdd
    <2>1. pc = "wlAdd" /\ pc' \in {"wlAdd", "act"} /\ Steady
      BY <1>1, ControlSteady DEF WhitelistAdd, Goto
    <2> QED  BY <2>1, InnerUnseen, UnseenStutters DEF Seen, InTx, Steady, TxInv, LabelInv
  <1>2. CASE InstallLookup \/ DisarmOld \/ ClearOld \/ WriteState \/ Disarm \/ ClearState \/ WhitelistRemove
    <2>1. /\ pc \in Acting \cup {"wlDel"} /\ pc' \in Acting \cup {"wlDel"} /\ Steady
      BY <1>2, ControlSteady
         DEF InstallLookup, DisarmOld, ClearOld, WriteState, Disarm, ClearState, WhitelistRemove, Goto,
             AfterLookup, AfterDisarm, Acting, Mid, RemoveLabels
    <2>2. InTx /\ InTx'
      BY <2>1 DEF InTx, Acting, Mid, RemoveLabels
    <2> QED  BY <2>1, <2>2, InnerUnseen, UnseenStutters DEF Seen
  <1>3. CASE Fail
    <2>1. Steady /\ pc' = "undo" /\ pc \in Acting \cup {"wlAdd", "wlDel"}
      BY <1>3, ControlSteady DEF Fail, NoRoom, MapOpPending, Acting, Mid, RemoveLabels
    <2>2. InTx /\ InTx'
      BY <2>1 DEF InTx, Acting, Mid, RemoveLabels
    <2> QED  BY <2>1, <2>2, InnerUnseen, UnseenStutters DEF Seen
  <1>4. CASE UndoNext \/ UndoDisarm \/ UndoClear \/ UndoRestore \/ UndoArm \/ UndoWhitelist \/ UndoFail
    <2>1. Steady /\ pc \in UndoLabels /\ pc' \in UndoLabels
      BY <1>4, ControlSteady, UndoListCases
         DEF UndoNext, UndoDisarm, UndoClear, UndoRestore, UndoArm, UndoWhitelist, UndoFail, UndoGoto, Played,
             UndoEntry, NoRoomToRestore, UndoOpPending, NextIfKept, UndoLabels
    <2>2. InTx /\ InTx'
      BY <2>1 DEF InTx, UndoLabels
    <2> QED  BY <2>1, <2>2, InnerUnseen, UnseenStutters DEF Seen
  <1> QED  BY <1>1, <1>2, <1>3, <1>4

LEMMA NextSeen ==
    ASSUME IInv, PacketTypeOK, TxInv, [Next]_vars  PROVE Seen
  <1>1. CASE Forward
    <2>1. CASE StartAction \/ ActionsDone
      BY <2>1, StartActionUnseen, ActionsDoneUnseen, UnseenStutters DEF Seen
    <2> QED  BY <1>1, <2>1, ArmSeen, RemoveSeen, CommitSeen, InnerSteps DEF Forward
  <1>2. CASE Undo
    <2>1. CASE UndoDone
      BY <2>1, TickUndone, ReloadUndone DEF UndoDone
    <2> QED  BY <1>2, <2>1, InnerSteps DEF Undo
  <1>3. CASE \E next \in Phases : BeginTick(next)
    BY <1>3, BeginTickUnseen, UnseenStutters DEF Seen
  <1>4. CASE \E next \in Phases, P \in PrefixSets : BeginReload(next, P)
    BY <1>4, BeginReloadUnseen, UnseenStutters DEF Seen
  <1>5. CASE DataPath \/ UNCHANGED vars
    <2>1. Steady /\ UNCHANGED <<pc, limit_policies, monitored>>
      BY <1>5, DataPathFacts, ControlSteady DEF vars, maps
    <2> QED  BY <2>1, QuietUnseen, UnseenStutters DEF Seen
  <1> QED  BY <1>1, <1>2, <1>3, <1>4, <1>5 DEF Next, Engine

LEMMA InitSeen ==
    ASSUME Init  PROVE Atomic!Init /\ AgreeInv
  <1>1. /\ ~InTx /\ \A f \in Flows : ~Open(f)
    BY DEF Init, InTx, Open
  <1>2. /\ AbsArmed = [f \in Flows |-> None] /\ AbsLimited = [f \in Flows |-> None]
        /\ AbsMonitored = prefixes /\ prefixes \in SUBSET Cidrs /\ degraded = FALSE
    BY <1>1 DEF AbsArmed, AbsLimited, AbsMonitored, Init, AllNormal, PrefixSets
  <1>3. Atomic!Init
    BY <1>2 DEF Atomic!Init, AbsArmed, AbsLimited, AbsMonitored
  <1>4. AgreeInv
    BY <1>2 DEF AgreeInv
  <1> QED  BY <1>3, <1>4

-----------------------------------------------------------------------------
(* Agreement of data path and limiter *)

LEMMA AbsTypes ==
    ASSUME IInv  PROVE AbsArmed \in Phases /\ AbsLimited \in Phases
  BY DEF IInv, EngineTypeOK, AbsArmed, AbsLimited, Phases

\* Agreement is a matter of the atomic steps alone.
LEMMA AgreeStep ==
    ASSUME IInv, IInv', AgreeInv, Seen  PROVE AgreeInv'
  <1> DEFINE A == AbsArmed
             L == AbsLimited
             M == AbsMonitored
  <1>0. A \in Phases /\ L \in Phases /\ A' \in Phases /\ L' \in Phases
    <2>1. AbsArmed' \in Phases /\ AbsLimited' \in Phases
      BY DEF IInv, EngineTypeOK, AbsArmed, AbsLimited, Phases
    <2> QED  BY <2>1, AbsTypes
  <1>1. CASE \E f \in Flows, p \in Policies \cup {None} : Atomic!TickApplied(f, p)
    <2>1. PICK f \in Flows, p \in Policies \cup {None} :
            A' = [A EXCEPT ![f] = p] /\ L' = [L EXCEPT ![f] = p] /\ M' = M /\ UNCHANGED <<prefixes, degraded>>
      BY <1>1 DEF Atomic!TickApplied, AbsArmed, AbsMonitored, AbsLimited
    <2> HIDE DEF A, L, M
    <2>2. \A g \in Flows : L'[g] = None => A'[g] = None
      BY <1>0, <2>1 DEF Phases, AgreeInv, A, L
    <2>3. ~degraded' => A' = L' /\ M' = prefixes'
      BY <2>1 DEF AgreeInv, A, L, M
    <2> QED  BY <2>2, <2>3 DEF AgreeInv, A, L, M
  <1>2. CASE \E f \in Flows : Atomic!TickDegraded(f)
    <2>1. PICK f \in Flows : A' \in {A, [A EXCEPT ![f] = None]} /\ L' = L /\ degraded' = TRUE
      BY <1>2 DEF Atomic!TickDegraded, AbsArmed, AbsLimited
    <2> QED  BY <1>0, <2>1 DEF Phases, AgreeInv
  <1>3. CASE \E next \in Phases, P \in SUBSET Cidrs : Atomic!ReloadApplied(next, P)
    <2>1. PICK next \in Phases, P \in SUBSET Cidrs :
            /\ A' = [f \in Flows |-> IF next[f] = L[f] THEN A[f] ELSE next[f]]
            /\ M' = (M \cup (P \ prefixes)) \ (prefixes \ P)
            /\ L' = next /\ prefixes' = P /\ UNCHANGED degraded
      BY <1>3 DEF Atomic!ReloadApplied, AbsArmed, AbsMonitored, AbsLimited
    <2> HIDE DEF A, L, M
    <2>2. \A g \in Flows : A'[g] = IF next[g] = L[g] THEN A[g] ELSE next[g]
      BY <2>1
    <2>3. \A g \in Flows : L'[g] = None => A'[g] = None
      BY <2>1, <2>2 DEF AgreeInv, A, L
    <2>4. ASSUME ~degraded'  PROVE A' = L' /\ M' = prefixes'
      <3>1. A = L /\ M = prefixes
        BY <2>1, <2>4 DEF AgreeInv, A, L, M
      <3>2. M' = prefixes'
        BY <2>1, <3>1
      <3>3. \A g \in Flows : A'[g] = L'[g]
        BY <2>1, <2>2, <3>1
      <3>4. A' = L'
        BY <1>0, <3>3 DEF Phases
      <3> QED  BY <3>2, <3>4
    <2> QED  BY <2>3, <2>4 DEF AgreeInv, A, L, M
  <1>4. CASE \E N \in SUBSET Cidrs : Atomic!ReloadRejected(N)
    <2>1. PICK N \in SUBSET Cidrs : /\ M \cap prefixes \subseteq N /\ N \subseteq M \cup prefixes /\ M' = N
                                    /\ A' = A /\ L' = L /\ UNCHANGED <<prefixes, degraded>>
      BY <1>4 DEF Atomic!ReloadRejected, AbsArmed, AbsMonitored, AbsLimited
    <2> QED  BY <2>1 DEF AgreeInv
  <1>5. CASE \E next \in Phases, P \in SUBSET Cidrs : Atomic!ReloadDegraded(next, P)
    <2>1. PICK next \in Phases : /\ \A f \in Flows : L[f] = None => next[f] = A[f]
                                 /\ A' = next /\ L' = L /\ degraded' = TRUE
      BY <1>5 DEF Atomic!ReloadDegraded, AbsArmed, AbsMonitored, AbsLimited
    <2> QED  BY <2>1 DEF AgreeInv
  <1>6. CASE UNCHANGED Atomic!vars
    <2>1. A' = A /\ L' = L /\ M' = M /\ UNCHANGED <<prefixes, degraded>>
      BY <1>6 DEF Atomic!vars, AbsArmed, AbsMonitored, AbsLimited
    <2> QED  BY <2>1 DEF AgreeInv
  <1> QED  BY <1>1, <1>2, <1>3, <1>4, <1>5, <1>6 DEF Seen, Atomic!Next, Atomic!Phases, Phases

THEOREM Meaning == Spec => [](IInv /\ TxInv /\ AgreeInv)
  <1>1. Init => IInv /\ TxInv /\ AgreeInv
    BY InitIInv, InitTx, InitSeen
  <1>2. IInv /\ PacketTypeOK /\ TxInv /\ AgreeInv /\ [Next]_vars => (IInv /\ TxInv /\ AgreeInv)'
    BY NextIInv, NextTx, NextSeen, AgreeStep
  <1> QED  BY <1>1, <1>2, Inductive, PTL DEF Spec

\* Every behaviour of the map-by-map transactions of txmaps.rs is a behaviour of
\* atomic tick actions and atomic reloads.
THEOREM Refines == Spec => ImplementsAtomicLimits
  <1>1. Init => Atomic!Init
    BY InitSeen
  <1>2. IInv /\ PacketTypeOK /\ TxInv /\ [Next]_vars => [Atomic!Next]_(Atomic!vars)
    BY NextSeen DEF Seen
  <1> QED  BY <1>1, <1>2, Meaning, Inductive, PTL DEF Spec, Atomic!Spec, ImplementsAtomicLimits

\* The abstraction between transactions.
LEMMA IdleView ==
    ASSUME IInv, TxInv, pc = "idle"
    PROVE  AbsArmed = limit_policies /\ AbsLimited = limited /\ AbsMonitored = monitored
  <1>1. ~InTx /\ todo = {} /\ limited \in Phases
    BY DEF TxInv, LabelInv, InTx, IInv, EngineTypeOK
  <1>2. \A f : ~Open(f)
    BY <1>1 DEF Open
  <1> QED  BY <1>1, <1>2 DEF AbsArmed, AbsLimited, AbsMonitored, Phases

\* No rollback, however it fails, leaves a NORMAL flow policed (rollback_journal,
\* revert_failed_action).
THEOREM NormalNeverPoliced == Spec => []NormalIsUnpoliced
  <1>1. IInv /\ TxInv /\ AgreeInv => NormalIsUnpoliced
    BY IdleView DEF AgreeInv, NormalIsUnpoliced
  <1> QED  BY <1>1, Meaning, PTL

\* As long as no rollback has failed the maps hold what the limiter and the
\* configuration say, after any sequence of ticks, reloads and map errors.
THEOREM MapsFollowControl == Spec => []DataPlaneMatchesControl
  <1>1. IInv /\ TxInv /\ AgreeInv => DataPlaneMatchesControl
    BY IdleView DEF AgreeInv, DataPlaneMatchesControl
  <1> QED  BY <1>1, Meaning, PTL

\* A reload that swaps prefixes never leaves an address uncovered that both the
\* old and the new configuration monitor (apply_and_commit adds before it removes).
THEOREM SwapKeepsCoverage == Spec => []NoCoverageGap
  <1>1. ASSUME IInv, TxInv, AgreeInv, mode = "reload", clean, ~degraded
        PROVE  Covered(prefixes) \cap Covered(target.prefixes) \subseteq Covered(monitored)
    <2>1. InTx
      BY <1>1 DEF TxInv, LabelInv, InTx
    <2>2. before.monitored = prefixes
      BY <1>1, <2>1 DEF AgreeInv, AbsMonitored
    <2>3. Range(<<>>) = {}
      BY DEF Range
    <2>4. prefixes \subseteq monitored \/ target.prefixes \subseteq monitored
      BY <1>1, <2>2, <2>3 DEF TxInv, TrieInv
    <2> QED  BY <2>4 DEF Covered
  <1>2. IInv /\ TxInv /\ AgreeInv => NoCoverageGap
    BY <1>1 DEF NoCoverageGap
  <1> QED  BY <1>2, Meaning, PTL

\* Only the arming steps arm a policy, and both find an artifact that no packet of
\* an armed policy has touched.
LEMMA ArmsFresh ==
    ASSUME IInv, PacketTypeOK, TxInv, [Next]_vars, NEW f \in Flows,
           limit_policies'[f] \notin {None, limit_policies[f]}
    PROVE  artifacts[Store(AlgoOf[limit_policies'[f]])][f] \in {"fresh", "late"}
  <1>0. limit_policies \in Phases /\ limit_policies' # limit_policies
    BY DEF IInv, EngineTypeOK
  <1>1. CASE Arm
    <2>1. pc = "arm" /\ limit_policies' = [limit_policies EXCEPT ![cur.flow] = cur.policy]
      BY <1>1 DEF Arm, arm_policy
    <2>2. f = cur.flow /\ limit_policies'[f] = cur.policy
      BY <1>0, <2>1 DEF Phases
    <2> QED  BY <2>1, <2>2 DEF TxInv, FreshInv
  <1>2. CASE UndoArm
    <2>1. pc = "undoArm" /\ limit_policies' = [limit_policies EXCEPT ![Undoing.key] = Undoing.old]
      BY <1>2 DEF UndoArm, arm_policy
    <2>2. f = Undoing.key /\ limit_policies'[f] = Undoing.old
      BY <1>0, <2>1 DEF Phases
    <2> QED  BY <2>1, <2>2 DEF TxInv, FreshInv
  <1>3. ASSUME NEW k, disarm_policy(k)  PROVE FALSE
    BY <1>0, <1>3 DEF disarm_policy, arm_policy, Phases
  <1>4. CASE \/ WhitelistAdd \/ StartAction \/ ActionsDone \/ InstallLookup \/ ClearOld \/ WriteState
             \/ RemoveLookup \/ ClearState \/ ClearPolicer \/ WhitelistRemove \/ Commit \/ Fail
    BY <1>0, <1>4
       DEF WhitelistAdd, StartAction, ActionsDone, InstallLookup, ClearOld, WriteState, RemoveLookup, ClearState,
           ClearPolicer, WhitelistRemove, Commit, Fail, maps, wl_insert, wl_remove, SetTrie, clear_state,
           write_fresh_state, SetArtifact, clear_policer
  <1>5. CASE UndoNext \/ UndoClear \/ UndoRestore \/ UndoWhitelist \/ UndoFail \/ UndoDone
    BY <1>0, <1>5
       DEF UndoNext, UndoClear, UndoRestore, UndoWhitelist, UndoFail, UndoDone, maps, wl_insert, wl_remove,
           SetTrie, clear_state, write_fresh_state, SetArtifact
  <1>6. CASE \/ \E next \in Phases : BeginTick(next)
             \/ \E next \in Phases, P \in PrefixSets : BeginReload(next, P)
             \/ DataPath
             \/ UNCHANGED vars
    BY <1>0, <1>6, DataPathFacts DEF BeginTick, BeginReload, vars, maps
  <1>7. CASE DisarmOld \/ Disarm \/ UndoDisarm
    BY <1>3, <1>7 DEF DisarmOld, Disarm, UndoDisarm
  <1> QED  BY <1>1, <1>2, <1>4, <1>5, <1>6, <1>7 DEF Next, Engine, Forward, Undo

\* A policy is armed on state zeroed after the displaced policy had gone: between
\* that write and the arming only packets that had copied a policy before it was
\* disarmed can touch it (install_limit, the restore of rollback_journal, police).
THEOREM ArmsFreshly == Spec => ArmsOnFreshState
  <1>1. IInv /\ PacketTypeOK /\ TxInv /\ [Next]_vars =>
          [\A f \in Flows : limit_policies'[f] \notin {None, limit_policies[f]} =>
             artifacts[Store(AlgoOf[limit_policies'[f]])][f] \in {"fresh", "late"}]_vars
    BY ArmsFresh
  <1> QED  BY <1>1, Meaning, Inductive, PTL DEF Spec, ArmsOnFreshState

-----------------------------------------------------------------------------
(* The entries of the maps.  Transactions leak none: every artifact and      *)
(* policer entry belongs to an armed policy, to the action under way, or, in *)
(* a rollback, to a record that is still to be played back, unless it is a   *)
(* policer entry that a packet in flight re-created (Tidy).  And every entry *)
(* that a rollback writes back has room (RoomInv).                           *)

Installing == Last(journal.installs)
Removing == Last(journal.removes)

\* Between the disarming of a policy and the end of the action that displaces it.
Displacing == {"clearOld", "writeState", "arm", "clearState", "clearPolicer"}

\* The artifact that the action under way has yet to clear, to overwrite or to arm.
Midway(s) ==
    \/ pc = "clearOld" /\ Installing.old # None /\ s = Store(AlgoOf[Installing.old])
    \/ /\ pc = "writeState" /\ Installing.old # None /\ AlgoOf[Installing.old] = AlgoOf[cur.policy]
       /\ s = Store(AlgoOf[cur.policy])
    \/ pc = "arm" /\ s = Store(AlgoOf[cur.policy])
    \/ pc = "clearState" /\ s = Store(AlgoOf[Removing.old])

MeteredMidway ==
    \/ pc \in {"clearOld", "writeState", "arm"} /\ Installing.old # None
    \/ pc \in {"clearState", "clearPolicer"}

\* Policy p of flow f, which the transaction has disarmed, will come back.
Returns(f, p) ==
    \/ \E r \in Removes : r.key = f /\ r.disarmed /\ p = r.old
    \/ \E r \in Installs : r.key = f /\ r.old_disarmed /\ p = r.old

\* The rollback has not cleared the artifact of the new policy of f yet.
Clearable(f, s) ==
    /\ pc \in {"undoRestore", "undoArm"} => f # Undoing.key
    /\ \E r \in Installs : r.key = f /\ r.new_algorithm # None /\ s = Store(r.new_algorithm)

Owned(f, s) ==
    \/ limit_policies[f] # None /\ s = Store(AlgoOf[limit_policies[f]])
    \/ pc \notin UndoLabels /\ cur.flow = f /\ Midway(s)
    \/ pc \in UndoLabels /\ (Clearable(f, s) \/ \E p \in Policies : Returns(f, p) /\ s = Store(AlgoOf[p]))

Metered(f) ==
    \/ limit_policies[f] # None
    \/ pc \notin UndoLabels /\ cur.flow = f /\ MeteredMidway
    \/ pc \in UndoLabels /\ \E p \in Policies : Returns(f, p)

Tidy(f) ==
    /\ \A s \in Stores : artifacts[s][f] # "absent" => Owned(f, s)
    /\ f \in policer_stats => Metered(f) \/ f \in recreated

\* An install's record names the algorithm it armed.
AlgoInv ==
    /\ \A r \in Installs : r.armed /\ limit_policies[r.key] # None =>
           r.new_algorithm = AlgoOf[limit_policies[r.key]]
    /\ pc = "arm" => Installing.new_algorithm = AlgoOf[cur.policy]

OrphanInv == AlgoInv /\ (~degraded /\ clean => \A f \in Flows : Tidy(f))

-----------------------------------------------------------------------------
(* What a step leaves alone *)

\* A re-created entry counts as one until it is deleted or its flow is armed.
KeepsStrays ==
    \A f \in recreated : f \in policer_stats' /\ limit_policies'[f] = None => f \in recreated'

\* The entries of one flow stay, go, or are disarmed.
FlowStays(g) ==
    /\ limit_policies'[g] = limit_policies[g]
    /\ \A s \in Stores : artifacts'[s][g] # "absent" => artifacts[s][g] # "absent"
    /\ g \in policer_stats' => g \in policer_stats

\* A flow that the step and the action under way are not about.
LEMMA OthersForward ==
    ASSUME KeepsStrays, pc \notin UndoLabels, pc' \notin UndoLabels, NEW g \in Flows, Tidy(g), FlowStays(g),
           pc \in Displacing => cur.flow # g
    PROVE  Tidy(g)'
  <1>1. pc \notin UndoLabels /\ cur.flow = g => \A s : ~Midway(s) /\ ~MeteredMidway
    BY DEF Midway, MeteredMidway, Displacing
  <1> QED  BY <1>1 DEF KeepsStrays, Tidy, FlowStays, Owned, Metered

\* A flow that the record being played back is not about.
LEMMA OthersUndo ==
    ASSUME KeepsStrays, pc \in UndoLabels, pc' \in UndoLabels, NEW g \in Flows, Tidy(g), FlowStays(g),
           \A r \in Installs : r.key = g => r \in Installs',
           \A r \in Removes : r.key = g => r \in Removes',
           pc' \in {"undoRestore", "undoArm"} => Undoing'.key # g
    PROVE  Tidy(g)'
  <1>1. \A p : Returns(g, p) => Returns(g, p)'
    BY DEF Returns
  <1>2. \A s : Clearable(g, s) => Clearable(g, s)'
    BY DEF Clearable
  <1> QED  BY <1>1, <1>2 DEF KeepsStrays, Tidy, FlowStays, Owned, Metered

LEMMA AlgoStays ==
    ASSUME AlgoInv, pc' # "arm",
           \A r \in Installs' : r.armed =>
               r \in Installs /\ limit_policies'[r.key] \in {limit_policies[r.key], None}
    PROVE  AlgoInv'
  BY DEF AlgoInv

\* Before a rollback nothing has failed.
LEMMA CleanForward ==
    ASSUME IInv, TxInv, pc \notin UndoLabels, ~degraded
    PROVE  clean
  BY DEF TxInv, LabelInv

\* Steps that leave the maps of the limits alone, and displace no policy.
LEMMA CalmTidy ==
    ASSUME IInv, TxInv, OrphanInv, KeepsStrays, pc \notin UndoLabels \cup Displacing, pc' \notin UndoLabels \cup {"arm"},
           UNCHANGED <<limit_policies, artifacts, policer_stats>>, degraded' = degraded,
           \A r \in Installs' : r.armed => r \in Installs
    PROVE  OrphanInv'
  <1>1. AlgoInv'
    BY AlgoStays DEF OrphanInv
  <1>2. ASSUME ~degraded', NEW g \in Flows
        PROVE  Tidy(g)'
    <2>1. Tidy(g)
      BY <1>2, CleanForward DEF OrphanInv
    <2>2. FlowStays(g)
      BY DEF FlowStays
    <2> QED  BY <2>1, <2>2, OthersForward
  <1> QED  BY <1>1, <1>2 DEF OrphanInv

LEMMA EmptyInstalls == Range(EmptyJournal.installs) = {} /\ Range(EmptyJournal.removes) = {}
  BY DEF EmptyJournal, Range

LEMMA InitOrphan == Init => OrphanInv
  <1> SUFFICES ASSUME Init PROVE OrphanInv
    OBVIOUS
  <1>1. AlgoInv
    BY EmptyInstalls DEF Init, AlgoInv, Installs
  <1>2. \A f \in Flows : Tidy(f)
    BY DEF Init, Tidy
  <1> QED  BY <1>1, <1>2 DEF OrphanInv

LEMMA BeginTickOrphan ==
    ASSUME IInv, TxInv, OrphanInv, KeepsStrays, NEW next \in Phases, BeginTick(next)  PROVE OrphanInv'
  <1>1. /\ pc = "idle" /\ pc' = "act" /\ degraded' = degraded /\ Installs' = Installs
        /\ UNCHANGED <<limit_policies, artifacts, policer_stats>>
    BY DEF BeginTick, maps, tx, Installs
  <1> QED  BY <1>1, CalmTidy DEF UndoLabels, Displacing

LEMMA BeginReloadOrphan ==
    ASSUME IInv, TxInv, OrphanInv, KeepsStrays, NEW next \in Phases, NEW P \in PrefixSets, BeginReload(next, P)
    PROVE  OrphanInv'
  <1>1. /\ pc = "idle" /\ pc' = "wlAdd" /\ degraded' = degraded /\ Installs' = {}
        /\ UNCHANGED <<limit_policies, artifacts, policer_stats>>
    BY EmptyInstalls DEF BeginReload, NewJournal, maps, control, Installs
  <1> QED  BY <1>1, CalmTidy DEF UndoLabels, Displacing

LEMMA WhitelistAddOrphan ==
    ASSUME IInv, TxInv, OrphanInv, KeepsStrays, WhitelistAdd  PROVE OrphanInv'
  <1>1. /\ pc = "wlAdd" /\ pc' \in {"wlAdd", "act"} /\ degraded' = degraded
        /\ UNCHANGED <<limit_policies, artifacts, policer_stats>>
    BY DEF WhitelistAdd, Goto, maps, control, wl_insert, SetTrie
  <1>2. Installs' = Installs
    BY JournalTypes, OtherLists DEF WhitelistAdd, Installs
  <1> QED  BY <1>1, <1>2, CalmTidy DEF UndoLabels, Displacing

LEMMA WhitelistRemoveOrphan ==
    ASSUME IInv, TxInv, OrphanInv, KeepsStrays, WhitelistRemove  PROVE OrphanInv'
  <1>1. /\ pc = "wlDel" /\ pc' = "wlDel" /\ degraded' = degraded
        /\ UNCHANGED <<limit_policies, artifacts, policer_stats>>
    BY DEF WhitelistRemove, Goto, maps, control, wl_remove, SetTrie
  <1>2. Installs' = Installs
    BY JournalTypes, OtherLists DEF WhitelistRemove, Installs
  <1> QED  BY <1>1, <1>2, CalmTidy DEF UndoLabels, Displacing

LEMMA StartActionOrphan ==
    ASSUME IInv, TxInv, OrphanInv, KeepsStrays, StartAction  PROVE OrphanInv'
  <1>1. /\ pc = "act" /\ degraded' = degraded
        /\ UNCHANGED <<limit_policies, artifacts, policer_stats>>
    BY DEF StartAction, maps, control
  <1>2. pc' \in {"install", "remove"}
    BY DEF StartAction, IInv, EngineTypeOK, ActionSet
  <1>3. Installs' \subseteq Installs
    BY EmptyInstalls DEF StartAction, NewJournal, Installs
  <1> QED  BY <1>1, <1>2, <1>3, CalmTidy DEF UndoLabels, Displacing

LEMMA ActionsDoneOrphan ==
    ASSUME IInv, TxInv, OrphanInv, KeepsStrays, ActionsDone  PROVE OrphanInv'
  <1>1. /\ pc = "act" /\ pc' \in {"idle", "wlDel"} /\ degraded' = degraded
        /\ UNCHANGED <<limit_policies, artifacts, policer_stats>>
        /\ Installs' \subseteq Installs
    BY EmptyInstalls DEF ActionsDone, EndTx, Goto, maps, control, Installs
  <1> QED  BY <1>1, CalmTidy DEF UndoLabels, Displacing

LEMMA CommitOrphan ==
    ASSUME IInv, TxInv, OrphanInv, KeepsStrays, Commit  PROVE OrphanInv'
  <1>1. /\ pc = "wlDel" /\ pc' = "idle" /\ degraded' = degraded
        /\ UNCHANGED <<limit_policies, artifacts, policer_stats>>
        /\ Installs' \subseteq Installs
    BY EmptyInstalls DEF Commit, EndTx, maps, Installs
  <1> QED  BY <1>1, CalmTidy DEF UndoLabels, Displacing

LEMMA InstallLookupOrphan ==
    ASSUME IInv, TxInv, OrphanInv, KeepsStrays, InstallLookup  PROVE OrphanInv'
  <1> SUFFICES ASSUME NEW r, r = InstallRecord(cur.flow, limit_policies[cur.flow])
               PROVE  OrphanInv'
    OBVIOUS
  <1>0. /\ pc = "install" /\ pc \in Acting /\ journal' = Push("installs", r)
        /\ pc' \in {"writeState", "disarmOld"} /\ degraded' = degraded
        /\ UNCHANGED <<limit_policies, artifacts, policer_stats>>
    BY DEF InstallLookup, Goto, Acting, maps, control, AfterLookup
  <1>1. r \in InstallRecords /\ r.armed = FALSE
    BY <1>0, ActingFacts DEF InstallRecord, InstallRecords, IInv, EngineTypeOK, Phases
  <1>2. journal'.installs = Append(journal.installs, r) /\ journal.installs \in Seq(InstallRecords)
    BY <1>0, JournalTypes, OtherLists
  <1>3. Installs' \subseteq Installs \cup {r}
    <2>1. Range(Append(journal.installs, r)) \subseteq Range(journal.installs) \cup {r}
      BY <1>1, <1>2, AppendProperties, LenProperties DEF Range
    <2> QED  BY <1>2, <2>1 DEF Installs
  <1> QED  BY <1>0, <1>1, <1>3, CalmTidy DEF UndoLabels, Displacing

LEMMA RemoveLookupOrphan ==
    ASSUME IInv, TxInv, OrphanInv, KeepsStrays, RemoveLookup  PROVE OrphanInv'
  <1> SUFFICES ASSUME NEW r, r = RemoveRecord(cur.flow, limit_policies[cur.flow])
               PROVE  OrphanInv'
    OBVIOUS
  <1>0. /\ pc = "remove" /\ pc \in Acting /\ pc' \in {"act", "disarm"} /\ degraded' = degraded
        /\ UNCHANGED <<limit_policies, artifacts, policer_stats>>
        /\ \/ UNCHANGED journal
           \/ limit_policies[cur.flow] # None /\ journal' = Push("removes", r)
    BY DEF RemoveLookup, Goto, Acting, maps, control
  <1>1. limit_policies[cur.flow] # None => r \in RemoveRecords
    BY <1>0, ActingFacts DEF RemoveRecord, RemoveRecords, IInv, EngineTypeOK, Phases
  <1>2. Installs' = Installs
    BY <1>0, <1>1, JournalTypes, OtherLists DEF Installs
  <1> QED  BY <1>0, <1>2, CalmTidy DEF UndoLabels, Displacing

-----------------------------------------------------------------------------
(* The steps of an action *)

\* One entry of one map changes.
LEMMA ArtifactSet ==
    ASSUME EngineTypeOK, NEW f \in Flows, NEW algo, NEW content, SetArtifact(f, algo, content)
    PROVE  \A s \in Stores, g \in Flows :
               artifacts'[s][g] = IF s = Store(algo) /\ g = f THEN content ELSE artifacts[s][g]
  <1>1. Store(algo) \in Stores
    BY DEF Store, Stores
  <1>2. artifacts' = [artifacts EXCEPT ![Store(algo)][f] = content]
    BY DEF SetArtifact
  <1> QED  BY <1>1, <1>2 DEF EngineTypeOK

\* A step of the action under way keeps the other flows tidy.
LEMMA ActionTidy ==
    ASSUME IInv, TxInv, OrphanInv, KeepsStrays, pc \in Acting, pc' \notin UndoLabels, degraded' = degraded,
           \A g \in Flows : g # cur.flow => FlowStays(g),
           ~degraded /\ clean /\ Tidy(cur.flow) => Tidy(cur.flow)', AlgoInv', cur' = cur
    PROVE  OrphanInv'
  <1>1. pc \notin UndoLabels /\ cur.flow \in Flows /\ clean
    BY ActingFacts
  <1>2. ASSUME ~degraded', NEW g \in Flows
        PROVE  Tidy(g)'
    <2>1. Tidy(g) /\ Tidy(cur.flow)
      BY <1>1, <1>2 DEF OrphanInv
    <2>2. CASE g = cur.flow
      BY <1>1, <1>2, <2>1, <2>2
    <2>3. CASE g # cur.flow
      BY <1>1, <2>1, <2>3, OthersForward
    <2> QED  BY <2>2, <2>3
  <1> QED  BY <1>2 DEF OrphanInv

\* The install under way: its record says whether a policy was displaced.
LEMMA InstallingFacts ==
    ASSUME IInv, TxInv, pc \in Mid
    PROVE  /\ Installing \in Installs /\ Installing.key = cur.flow /\ Installing \in InstallRecords
           /\ ~Installing.armed /\ cur.flow \in Flows /\ cur.policy \in Policies
           /\ pc # "disarmOld" => limit_policies[cur.flow] = None
           /\ pc # "disarmOld" /\ Installing.old # None => Installing.old_disarmed /\ Installing.old \in Policies
           /\ pc = "disarmOld" => Installing.old \in Policies
           /\ pc = "disarmOld" => limit_policies[cur.flow] \in {None, Installing.old}
  <1>1. /\ journal.installs \in Seq(InstallRecords) /\ journal.installs # <<>>
        /\ Installing \in InstallRecords /\ Installing.key = cur.flow /\ ~Installing.armed
        /\ cur.flow \in Flows /\ cur.policy \in Policies
        /\ Installing.old_disarmed => Installing.old \in Policies
    BY InstallFacts DEF Installing
  <1>2. Installing \in Installs
    BY <1>1, LastRecord DEF Installs, Installing
  <1>3. InTx /\ InstallOK(Installing)
    BY <1>2, ActingFacts DEF TxInv, RecordInv, Acting
  <1>4. pc # "disarmOld" => limit_policies[cur.flow] = None
    BY DEF IInv, MapInv
  <1>5. pc = "disarmOld" => Installing.old \in Policies
    BY DEF IInv, ActionInv, Installing
  <1> QED  BY <1>1, <1>2, <1>3, <1>4, <1>5 DEF InstallOK

\* Marking the progress of an install changes its record only.
LEMMA InstallMarked ==
    ASSUME IInv, TxInv, pc \in Mid, NEW r \in InstallRecords, r.key = cur.flow, journal' = Mark("installs", r)
    PROVE  /\ Installing' = r /\ Installs' \subseteq Installs \cup {r}
           /\ \A q \in Installs' : q = r \/ q.key # cur.flow
  <1>1. /\ journal.installs \in Seq(InstallRecords) /\ journal.installs # <<>>
    BY InstallFacts
  <1>2. journal'.installs = Append(Front(journal.installs), r)
    BY JournalTypes, OtherLists
  <1>3. Last(Append(Front(journal.installs), r)) = r
    BY <1>1, MarkLast
  <1> QED  BY <1>2, <1>3, MarkFacts DEF Installing

LEMMA DisarmOldOrphan ==
    ASSUME IInv, TxInv, OrphanInv, KeepsStrays, DisarmOld  PROVE OrphanInv'
  <1>a. SUFFICES ASSUME NEW l, l = Installing, NEW r, r = [l EXCEPT !.old_disarmed = TRUE]
                 PROVE  OrphanInv'
    OBVIOUS
  <1>0. /\ pc = "disarmOld" /\ pc \in Mid /\ pc \in Acting /\ journal' = Mark("installs", r)
        /\ pc' = AfterDisarm(l.old) /\ UNCHANGED <<artifacts, policer_stats, degraded, cur>>
        /\ limit_policies' = [limit_policies EXCEPT ![cur.flow] = None]
    BY <1>a DEF DisarmOld, Goto, disarm_policy, arm_policy, Mid, Acting, Installing, control, drive
  <1>1. /\ l \in InstallRecords /\ l.key = cur.flow /\ ~l.armed /\ cur.flow \in Flows
        /\ l.old \in Policies /\ l.old # None /\ limit_policies[cur.flow] \in {None, l.old}
    BY <1>a, <1>0, InstallingFacts, PolicyAssumption
  <1>2. /\ r \in InstallRecords /\ r.key = cur.flow /\ r.old = l.old /\ ~r.armed
    BY <1>a, <1>1 DEF InstallRecords
  <1>3. /\ limit_policies'[cur.flow] = None
        /\ \A g \in Flows : g # cur.flow => limit_policies'[g] = limit_policies[g]
    BY <1>0, <1>1 DEF IInv, EngineTypeOK, Phases
  <1>4. /\ Installing' = r /\ Installs' \subseteq Installs \cup {r}
        /\ \A q \in Installs' : q = r \/ q.key # cur.flow
    BY <1>0, <1>2, InstallMarked
  <1>5. pc' \in {"clearOld", "writeState"} /\ (pc' = "writeState" => AlgoOf[l.old] = AlgoOf[cur.policy])
        /\ pc' \notin UndoLabels /\ pc \notin UndoLabels /\ pc \notin Displacing
    BY <1>0 DEF AfterDisarm, UndoLabels, Displacing
  <1>6. AlgoInv'
    <2>1. \A q \in Installs' : q.armed => q \in Installs /\ q.key \in Flows
      BY <1>0, <1>2, <1>4, ActingFacts
    <2>2. \A q \in Installs' : q.armed => limit_policies'[q.key] \in {limit_policies[q.key], None}
      BY <1>3, <2>1
    <2> QED  BY <1>5, <2>1, <2>2, AlgoStays DEF OrphanInv
  <1>7. ASSUME Tidy(cur.flow)  PROVE Tidy(cur.flow)'
    <2>1. \A s : ~Midway(s) /\ ~MeteredMidway
      BY <1>5 DEF Midway, MeteredMidway, Displacing
    <2>2. \A s \in Stores : artifacts[s][cur.flow] # "absent" => Midway(s)'
      BY <1>0, <1>1, <1>2, <1>4, <1>5, <1>7, <2>1 DEF KeepsStrays, Tidy, Owned, Midway
    <2>3. MeteredMidway'
      BY <1>1, <1>2, <1>4, <1>5 DEF MeteredMidway
    <2> QED  BY <1>0, <1>5, <2>2, <2>3 DEF KeepsStrays, Tidy, Owned, Metered
  <1>8. \A g \in Flows : g # cur.flow => FlowStays(g)
    BY <1>0, <1>3 DEF FlowStays
  <1> QED  BY <1>0, <1>5, <1>6, <1>7, <1>8, ActionTidy

LEMMA ClearOldOrphan ==
    ASSUME IInv, TxInv, OrphanInv, KeepsStrays, ClearOld  PROVE OrphanInv'
  <1>0. /\ pc = "clearOld" /\ pc \in Mid /\ pc \in Acting /\ pc' = "writeState" /\ pc' \notin UndoLabels
        /\ UNCHANGED <<limit_policies, policer_stats, degraded, cur, journal>>
        /\ SetArtifact(cur.flow, AlgoOf[Installing.old], "absent")
    BY DEF ClearOld, clear_state, SetArtifact, Goto, Mid, Acting, UndoLabels, Installing, control, drive
  <1>1. cur.flow \in Flows /\ limit_policies[cur.flow] = None
    BY <1>0, InstallingFacts
  <1>2. \A s \in Stores, g \in Flows : artifacts'[s][g] =
            IF s = Store(AlgoOf[Installing.old]) /\ g = cur.flow THEN "absent" ELSE artifacts[s][g]
    BY <1>0, <1>1, ArtifactSet DEF IInv
  <1>3. AlgoInv'
    BY <1>0, AlgoStays DEF OrphanInv, Installs
  <1>4. ASSUME Tidy(cur.flow)  PROVE Tidy(cur.flow)'
    <2>1. \A s \in Stores : artifacts'[s][cur.flow] = "absent"
      BY <1>0, <1>1, <1>2, <1>4 DEF KeepsStrays, Tidy, Owned, Midway, UndoLabels
    <2>2. cur.flow \in policer_stats => MeteredMidway \/ cur.flow \in recreated
      BY <1>0, <1>1, <1>4 DEF KeepsStrays, Tidy, Metered, UndoLabels
    <2>3. MeteredMidway => MeteredMidway'
      BY <1>0 DEF MeteredMidway, Installing
    <2> QED  BY <1>0, <2>1, <2>2, <2>3 DEF KeepsStrays, Tidy, Metered
  <1>5. \A g \in Flows : g # cur.flow => FlowStays(g)
    BY <1>0, <1>2 DEF FlowStays
  <1> QED  BY <1>0, <1>3, <1>4, <1>5, ActionTidy

LEMMA WriteStateOrphan ==
    ASSUME IInv, TxInv, OrphanInv, KeepsStrays, WriteState  PROVE OrphanInv'
  <1>a. SUFFICES ASSUME NEW l, l = Installing, NEW algo, algo = AlgoOf[cur.policy],
                        NEW r, r = [l EXCEPT !.new_algorithm = algo]
                 PROVE  OrphanInv'
    OBVIOUS
  <1>0. /\ pc = "writeState" /\ pc \in Mid /\ pc \in Acting /\ journal' = Mark("installs", r)
        /\ pc' = "arm" /\ pc' \notin UndoLabels
        /\ UNCHANGED <<limit_policies, policer_stats, degraded, cur>>
        /\ SetArtifact(cur.flow, algo, "fresh")
    BY <1>a DEF WriteState, Goto, write_fresh_state, SetArtifact, Mid, Acting, UndoLabels, Installing, control, drive
  <1>1. /\ l \in InstallRecords /\ l.key = cur.flow /\ ~l.armed /\ cur.flow \in Flows
        /\ limit_policies[cur.flow] = None /\ algo \in Algorithms
    BY <1>a, <1>0, InstallingFacts, PolicyAssumption
  <1>2. /\ r \in InstallRecords /\ r.key = cur.flow /\ r.old = l.old /\ ~r.armed /\ r.new_algorithm = algo
    BY <1>a, <1>1 DEF InstallRecords
  <1>3. \A s \in Stores, g \in Flows :
            artifacts'[s][g] = IF s = Store(algo) /\ g = cur.flow THEN "fresh" ELSE artifacts[s][g]
    BY <1>0, <1>1, ArtifactSet DEF IInv
  <1>4. /\ Installing' = r /\ Installs' \subseteq Installs \cup {r}
    BY <1>0, <1>2, InstallMarked
  <1>5. AlgoInv'
    BY <1>a, <1>0, <1>2, <1>4 DEF OrphanInv, AlgoInv
  <1>6. ASSUME Tidy(cur.flow)  PROVE Tidy(cur.flow)'
    <2>1. \A s \in Stores : artifacts'[s][cur.flow] # "absent" => s = Store(algo)
      BY <1>a, <1>0, <1>1, <1>3, <1>6 DEF KeepsStrays, Tidy, Owned, Midway, UndoLabels
    <2>2. \A s \in Stores : artifacts'[s][cur.flow] # "absent" => Midway(s)'
      BY <1>a, <1>0, <2>1 DEF Midway
    <2>3. cur.flow \in policer_stats => MeteredMidway \/ cur.flow \in recreated
      BY <1>0, <1>1, <1>6 DEF KeepsStrays, Tidy, Metered, UndoLabels
    <2>4. MeteredMidway => MeteredMidway'
      BY <1>a, <1>0, <1>2, <1>4 DEF MeteredMidway
    <2> QED  BY <1>0, <2>2, <2>3, <2>4 DEF KeepsStrays, Tidy, Owned, Metered
  <1>7. \A g \in Flows : g # cur.flow => FlowStays(g)
    BY <1>0, <1>3 DEF FlowStays
  <1> QED  BY <1>0, <1>5, <1>6, <1>7, ActionTidy

LEMMA ArmOrphan ==
    ASSUME IInv, TxInv, OrphanInv, KeepsStrays, Arm  PROVE OrphanInv'
  <1>a. SUFFICES ASSUME NEW l, l = Installing, NEW r, r = [l EXCEPT !.armed = TRUE]
                 PROVE  OrphanInv'
    OBVIOUS
  <1>0. /\ pc = "arm" /\ pc \in Mid /\ pc \in Acting /\ journal' = Mark("installs", r)
        /\ pc' = "act" /\ pc' \notin UndoLabels
        /\ UNCHANGED <<artifacts, policer_stats, degraded, cur>>
        /\ limit_policies' = [limit_policies EXCEPT ![cur.flow] = cur.policy]
    BY <1>a DEF Arm, Goto, arm_policy, Mid, Acting, UndoLabels, Installing, control, drive
  <1>1. /\ l \in InstallRecords /\ l.key = cur.flow /\ cur.flow \in Flows
        /\ limit_policies[cur.flow] = None /\ cur.policy \in Policies /\ cur.policy # None
    BY <1>a, <1>0, InstallingFacts, PolicyAssumption
  <1>2. /\ r \in InstallRecords /\ r.key = cur.flow /\ r.new_algorithm = l.new_algorithm
    BY <1>a, <1>1 DEF InstallRecords
  <1>3. /\ limit_policies'[cur.flow] = cur.policy
        /\ \A g \in Flows : g # cur.flow => limit_policies'[g] = limit_policies[g]
    BY <1>0, <1>1 DEF IInv, EngineTypeOK, Phases
  <1>4. /\ Installs' \subseteq Installs \cup {r} /\ \A q \in Installs' : q = r \/ q.key # cur.flow
    BY <1>0, <1>2, InstallMarked
  <1>5. AlgoInv'
    <2>1. r.new_algorithm = AlgoOf[cur.policy]
      BY <1>a, <1>0, <1>2 DEF OrphanInv, AlgoInv
    <2>2. ASSUME NEW q \in Installs', q.armed, limit_policies'[q.key] # None
          PROVE  q.new_algorithm = AlgoOf[limit_policies'[q.key]]
      <3>1. CASE q = r
        BY <1>2, <1>3, <2>1, <3>1
      <3>2. CASE q # r
        <4>1. q \in Installs /\ q.key \in Flows /\ q.key # cur.flow
          BY <1>0, <1>4, <3>2, ActingFacts
        <4> QED  BY <1>3, <2>2, <4>1 DEF OrphanInv, AlgoInv
      <3> QED  BY <3>1, <3>2
    <2> QED  BY <1>0, <2>2 DEF AlgoInv
  <1>6. ASSUME Tidy(cur.flow)  PROVE Tidy(cur.flow)'
    <2>1. \A s \in Stores : artifacts[s][cur.flow] # "absent" => s = Store(AlgoOf[cur.policy])
      BY <1>0, <1>1, <1>6 DEF KeepsStrays, Tidy, Owned, Midway, UndoLabels
    <2> QED  BY <1>0, <1>1, <1>3, <2>1 DEF KeepsStrays, Tidy, Owned, Metered
  <1>7. \A g \in Flows : g # cur.flow => FlowStays(g)
    BY <1>0, <1>3 DEF FlowStays
  <1> QED  BY <1>0, <1>5, <1>6, <1>7, ActionTidy

LEMMA DisarmOrphan ==
    ASSUME IInv, TxInv, OrphanInv, KeepsStrays, Disarm  PROVE OrphanInv'
  <1>a. SUFFICES ASSUME NEW l, l = Removing, NEW r, r = [l EXCEPT !.disarmed = TRUE]
                 PROVE  OrphanInv'
    OBVIOUS
  <1>0. /\ pc = "disarm" /\ pc \in RemoveLabels /\ pc \in Acting /\ journal' = Mark("removes", r)
        /\ pc' = "clearState" /\ pc' \notin UndoLabels /\ pc \notin Displacing
        /\ UNCHANGED <<artifacts, policer_stats, degraded, cur>>
        /\ limit_policies' = [limit_policies EXCEPT ![cur.flow] = None]
    BY <1>a DEF Disarm, Goto, disarm_policy, arm_policy, RemoveLabels, Acting, UndoLabels, Displacing,
                Removing, control, drive
  <1>1. /\ l \in RemoveRecords /\ cur.flow \in Flows /\ l.key = cur.flow /\ RemoveOK(l) /\ ~l.disarmed
        /\ journal.removes \in Seq(RemoveRecords) /\ journal.removes # <<>>
    BY <1>a, <1>0, RemovingFacts DEF Removing, TxInv, StepInv
  <1>2. r \in RemoveRecords /\ r.old = l.old
    BY <1>a, <1>1 DEF RemoveRecords
  <1>3. /\ limit_policies[cur.flow] = l.old /\ limit_policies'[cur.flow] = None
        /\ \A g \in Flows : g # cur.flow => limit_policies'[g] = limit_policies[g]
    BY <1>0, <1>1 DEF IInv, EngineTypeOK, Phases, RemoveOK
  <1>4. Removing' = r /\ Installs' = Installs
    <2>1. journal'.removes = Append(Front(journal.removes), r) /\ journal'.installs = journal.installs
      BY <1>0, JournalTypes, OtherLists
    <2>2. Last(Append(Front(journal.removes), r)) = r
      BY <1>1, <1>2, MarkLast
    <2> QED  BY <2>1, <2>2 DEF Removing, Installs
  <1>5. AlgoInv'
    <2>1. \A q \in Installs : limit_policies'[q.key] \in {limit_policies[q.key], None}
      BY <1>0, <1>3, ActingFacts
    <2> QED  BY <1>0, <1>4, <2>1, AlgoStays DEF OrphanInv
  <1>6. ASSUME Tidy(cur.flow)  PROVE Tidy(cur.flow)'
    <2>1. \A s : ~Midway(s)
      BY <1>0 DEF Midway, Displacing
    <2>2. \A s \in Stores : artifacts[s][cur.flow] # "absent" => Midway(s)'
      BY <1>0, <1>2, <1>3, <1>4, <1>6, <2>1, ActingFacts DEF KeepsStrays, Tidy, Owned, Midway
    <2>3. MeteredMidway'
      BY <1>0 DEF MeteredMidway
    <2> QED  BY <1>0, <2>2, <2>3 DEF KeepsStrays, Tidy, Owned, Metered
  <1>7. \A g \in Flows : g # cur.flow => FlowStays(g)
    BY <1>0, <1>3 DEF FlowStays
  <1> QED  BY <1>0, <1>5, <1>6, <1>7, ActionTidy

\* A flow whose removal is under way is unarmed from the disarming on.
LEMMA RemovingUnarmed ==
    ASSUME IInv, TxInv, pc \in {"clearState", "clearPolicer"}
    PROVE  /\ limit_policies[cur.flow] = None /\ cur.flow \in Flows /\ pc \in Acting
           /\ Removing \in Removes /\ Removing.key = cur.flow /\ Removing.disarmed
           /\ Removing.old \in Policies
  <1>1. pc \in RemoveLabels /\ pc \in Acting /\ Removing.disarmed
    BY DEF RemoveLabels, Acting, TxInv, StepInv, Removing
  <1>2. /\ Removing \in Removes /\ Removing \in RemoveRecords /\ Removing.key = cur.flow
        /\ cur.flow \in Flows /\ RemoveOK(Removing)
    BY <1>1, RemovingFacts DEF Removing
  <1> QED  BY <1>1, <1>2 DEF RemoveOK, RemoveRecords

LEMMA ClearStateOrphan ==
    ASSUME IInv, TxInv, OrphanInv, KeepsStrays, ClearState  PROVE OrphanInv'
  <1>0. /\ pc = "clearState" /\ pc' = "clearPolicer" /\ pc' \notin UndoLabels /\ pc \notin UndoLabels
        /\ UNCHANGED <<limit_policies, policer_stats, degraded, cur, journal>>
        /\ SetArtifact(cur.flow, AlgoOf[Removing.old], "absent")
    BY DEF ClearState, clear_state, SetArtifact, Goto, UndoLabels, Removing, control, drive
  <1>1. cur.flow \in Flows /\ limit_policies[cur.flow] = None /\ pc \in Acting
    BY <1>0, RemovingUnarmed
  <1>2. \A s \in Stores, g \in Flows : artifacts'[s][g] =
            IF s = Store(AlgoOf[Removing.old]) /\ g = cur.flow THEN "absent" ELSE artifacts[s][g]
    BY <1>0, <1>1, ArtifactSet DEF IInv
  <1>3. AlgoInv'
    BY <1>0, AlgoStays DEF OrphanInv, Installs
  <1>4. ASSUME Tidy(cur.flow)  PROVE Tidy(cur.flow)'
    <2>1. \A s \in Stores : artifacts'[s][cur.flow] = "absent"
      BY <1>0, <1>1, <1>2, <1>4 DEF KeepsStrays, Tidy, Owned, Midway
    <2> QED  BY <1>0, <2>1 DEF KeepsStrays, Tidy, Metered, MeteredMidway
  <1>5. \A g \in Flows : g # cur.flow => FlowStays(g)
    BY <1>0, <1>2 DEF FlowStays
  <1> QED  BY <1>0, <1>1, <1>3, <1>4, <1>5, ActionTidy

LEMMA ClearPolicerOrphan ==
    ASSUME IInv, TxInv, OrphanInv, KeepsStrays, ClearPolicer  PROVE OrphanInv'
  <1>0. /\ pc = "clearPolicer" /\ pc' = "act" /\ pc' \notin UndoLabels /\ pc \notin UndoLabels
        /\ UNCHANGED <<limit_policies, artifacts, degraded, cur, journal>>
        /\ policer_stats' = policer_stats \ {cur.flow}
    BY DEF ClearPolicer, clear_policer, Goto, UndoLabels, control, drive
  <1>1. cur.flow \in Flows /\ limit_policies[cur.flow] = None /\ pc \in Acting
    BY <1>0, RemovingUnarmed
  <1>2. AlgoInv'
    BY <1>0, AlgoStays DEF OrphanInv, Installs
  <1>3. ASSUME Tidy(cur.flow)  PROVE Tidy(cur.flow)'
    BY <1>0, <1>1, <1>3 DEF KeepsStrays, Tidy, Owned, Midway
  <1>4. \A g \in Flows : g # cur.flow => FlowStays(g)
    BY <1>0 DEF FlowStays
  <1> QED  BY <1>0, <1>1, <1>2, <1>3, <1>4, ActionTidy

\* What the action under way holds is what its record will give back or clear.
LEMMA FailOrphan ==
    ASSUME IInv, TxInv, OrphanInv, KeepsStrays, Fail  PROVE OrphanInv'
  <1>a. SUFFICES ASSUME NEW k, k = cur.flow, NEW a, a = AlgoOf[cur.policy],
                        NEW old, old = IF pc \in {"clearState", "clearPolicer"} THEN Removing.old ELSE Installing.old
                 PROVE  OrphanInv'
    OBVIOUS
  <1>0. /\ pc' = "undo" /\ pc' \in UndoLabels /\ pc' # "arm" /\ pc' \notin {"undoRestore", "undoArm"}
        /\ pc \in {"wlAdd", "wlDel"} \cup Acting
        /\ UNCHANGED <<limit_policies, artifacts, policer_stats, degraded, clean, journal>>
    BY DEF Fail, NoRoom, MapOpPending, maps, control, UndoLabels, Acting, Mid, RemoveLabels
  <1>1. Installs' = Installs /\ Removes' = Removes /\ pc \notin UndoLabels
    BY <1>0 DEF Installs, Removes, UndoLabels, Acting, Mid, RemoveLabels
  <1>2. AlgoInv'
    BY <1>0, <1>1, AlgoStays DEF OrphanInv
  <1>3. (\A g \in Flows : Tidy(g) => Tidy(g)') => OrphanInv'
    BY <1>0, <1>2 DEF OrphanInv
  <1>4. CASE pc \in {"clearOld", "writeState", "arm"}
    <2>0. pc \in Mid /\ pc # "disarmOld" /\ old = Installing.old
      BY <1>a, <1>4 DEF Mid
    <2>1. /\ Installing \in Installs /\ Installing.key = k
          /\ old # None => Installing.old_disarmed /\ old \in Policies
          /\ pc = "arm" => Installing.new_algorithm = a /\ a # None
      BY <1>a, <2>0, InstallingFacts, PolicyAssumption DEF OrphanInv, AlgoInv
    <2>2. old # None => Returns(k, old)'
      BY <1>1, <2>0, <2>1 DEF Returns
    <2>3. ASSUME NEW s, Midway(s)
          PROVE  Clearable(k, s)' \/ (old \in Policies /\ Returns(k, old)' /\ s = Store(AlgoOf[old]))
      <3>1. CASE pc = "arm"
        BY <1>a, <1>0, <1>1, <2>1, <2>3, <3>1 DEF Midway, Clearable
      <3>2. CASE pc # "arm"
        BY <1>a, <1>4, <2>0, <2>1, <2>2, <2>3, <3>2 DEF Midway
      <3> QED  BY <3>1, <3>2
    <2>4. \A g \in Flows : Tidy(g) => Tidy(g)'
      BY <1>a, <1>0, <1>1, <1>4, <2>0, <2>1, <2>2, <2>3 DEF KeepsStrays, Tidy, Owned, Metered, MeteredMidway
    <2> QED  BY <1>3, <2>4
  <1>5. CASE pc \in {"clearState", "clearPolicer"}
    <2>1. old \in Policies /\ Returns(k, old)'
      BY <1>a, <1>1, <1>5, RemovingUnarmed DEF Returns
    <2>2. \A s : Midway(s) => s = Store(AlgoOf[old])
      BY <1>a, <1>5 DEF Midway
    <2>3. \A g \in Flows : Tidy(g) => Tidy(g)'
      BY <1>a, <1>0, <1>1, <2>1, <2>2 DEF KeepsStrays, Tidy, Owned, Metered
    <2> QED  BY <1>3, <2>3
  <1>6. CASE pc \notin Displacing
    <2>1. \A s : ~Midway(s) /\ ~MeteredMidway
      BY <1>6 DEF Midway, MeteredMidway, Displacing
    <2>2. \A g \in Flows : Tidy(g) => Tidy(g)'
      BY <1>0, <1>1, <2>1 DEF KeepsStrays, Tidy, Owned, Metered
    <2> QED  BY <1>3, <2>2
  <1> QED  BY <1>4, <1>5, <1>6 DEF Displacing

\* Where the engine is stays the same.
EngineStays ==
    UNCHANGED <<limit_policies, pc, cur, journal, degraded, clean>>

LEMMA EngineStaysTidy ==
    ASSUME EngineStays, NEW g \in Flows, Tidy(g),
           \A s \in Stores : artifacts'[s][g] # "absent" => artifacts[s][g] # "absent",
           g \in policer_stats' => g \in policer_stats \/ limit_policies[g] # None \/ g \in recreated',
           recreated \subseteq recreated'
    PROVE  Tidy(g)'
  <1>1. Undoing' = Undoing /\ Installing' = Installing /\ Removing' = Removing
        /\ Installs' = Installs /\ Removes' = Removes
    BY DEF EngineStays, Undoing, UndoList, FirstNonempty, Installing, Removing, Installs, Removes
  <1>2. \A s : Owned(g, s) => Owned(g, s)'
    BY <1>1 DEF EngineStays, Owned, Midway, Clearable, Returns
  <1>3. Metered(g) => Metered(g)'
    BY <1>1 DEF EngineStays, Metered, MeteredMidway, Returns
  <1>4. limit_policies[g] # None => Metered(g)'
    BY DEF EngineStays, Metered
  <1> QED  BY <1>2, <1>3, <1>4 DEF Tidy

LEMMA EngineStaysAlgo ==
    ASSUME EngineStays, AlgoInv  PROVE AlgoInv'
  BY DEF EngineStays, AlgoInv, Installs, Installing

\* The data path uses the artifacts it finds; the policer entry it makes belongs to an
\* armed policy or counts as re-created.
LEMMA PacketOrphan ==
    ASSUME IInv, PacketTypeOK, TxInv, OrphanInv, DataPath  PROVE OrphanInv'
  <1>0. EngineStays
    BY DataPathFacts DEF EngineStays, control, drive, tx
  <1>1. /\ \A s \in Stores, g \in Flows : artifacts'[s][g] # "absent" => artifacts[s][g] # "absent"
        /\ \A g \in policer_stats' : g \in policer_stats \/ limit_policies[g] # None \/ g \in recreated'
        /\ recreated \subseteq recreated'
    BY DataPathFacts
  <1>2. \A g \in Flows : Tidy(g) => Tidy(g)'
    BY <1>0, <1>1, EngineStaysTidy
  <1> QED  BY <1>0, <1>2, EngineStaysAlgo DEF OrphanInv, EngineStays

LEMMA StutterOrphan ==
    ASSUME IInv, TxInv, OrphanInv, UNCHANGED vars  PROVE OrphanInv'
  <1>0. EngineStays /\ UNCHANGED <<artifacts, policer_stats, recreated>>
    BY DEF vars, maps, control, drive, tx, packets, EngineStays
  <1>1. \A g \in Flows : Tidy(g) => Tidy(g)'
    BY <1>0, EngineStaysTidy
  <1> QED  BY <1>0, <1>1, EngineStaysAlgo DEF OrphanInv, EngineStays

-----------------------------------------------------------------------------
(* The steps of a rollback *)

LEMMA RollbackTidy ==
    ASSUME IInv, TxInv, OrphanInv, KeepsStrays, pc \in UndoLabels, pc' \in UndoLabels,
           degraded' = degraded, clean' => clean,
           NEW k \in Flows, \A g \in Flows : g # k => FlowStays(g),
           \A r \in Installs : r.key # k => r \in Installs',
           \A r \in Removes : r.key # k => r \in Removes',
           pc' \in {"undoRestore", "undoArm"} => Undoing'.key = k,
           ~degraded /\ clean /\ Tidy(k) => Tidy(k)', AlgoInv'
    PROVE  OrphanInv'
  <1>1. ASSUME ~degraded', clean', NEW g \in Flows
        PROVE  Tidy(g)'
    <2>1. Tidy(g) /\ Tidy(k)
      BY <1>1 DEF OrphanInv
    <2>2. CASE g = k
      BY <1>1, <2>1, <2>2
    <2>3. CASE g # k
      BY <2>1, <2>3, OthersUndo
    <2> QED  BY <2>2, <2>3
  <1> QED  BY <1>1 DEF OrphanInv

\* No other record is about the flow whose record is played back.
LEMMA OnlyUndoing ==
    ASSUME IInv, TxInv, pc \in RecordUndo
    PROVE  /\ \A r \in Installs : r.key = Undoing.key => r = Undoing /\ UndoList = "installs"
           /\ \A r \in Removes : r.key = Undoing.key => r = Undoing /\ UndoList = "removes"
  <1>1. DistinctKeys(journal.installs) /\ DistinctKeys(journal.removes) /\ \A r \in Installs, q \in Removes : r.key # q.key
    BY UndoingFacts DEF KeysInv
  <1>2. /\ \A r, q \in Installs : r.key = q.key => r = q
        /\ \A r, q \in Removes : r.key = q.key => r = q
    BY <1>1 DEF Installs, Removes, Range, DistinctKeys
  <1>3. \/ UndoList = "installs" /\ Undoing \in Installs
        \/ UndoList = "removes" /\ Undoing \in Removes
    BY UndoingFacts
  <1> QED  BY <1>1, <1>2, <1>3

\* The flow whose record is played back is tidy for one of three reasons.
LEMMA UndoingTidy ==
    ASSUME IInv, TxInv, pc \in RecordUndo, NEW k, k = Undoing.key, NEW s, Owned(k, s)
    PROVE  \/ limit_policies[k] # None /\ s = Store(AlgoOf[limit_policies[k]])
           \/ /\ UndoList = "installs" /\ Undoing \in Installs /\ pc \in {"undoDisarm", "undoClear"}
              /\ Undoing.new_algorithm # None /\ s = Store(Undoing.new_algorithm)
           \/ MustRestore(Undoing) /\ Undoing.old \in Policies /\ s = Store(AlgoOf[Undoing.old])
  <1>1. pc \in UndoLabels
    BY UndoingFacts
  <1>2. \A p : Returns(k, p) => MustRestore(Undoing) /\ p = Undoing.old
    BY OnlyUndoing DEF Returns, MustRestore
  <1>3. Clearable(k, s) => /\ UndoList = "installs" /\ Undoing \in Installs /\ pc \in {"undoDisarm", "undoClear"}
                           /\ Undoing.new_algorithm # None /\ s = Store(Undoing.new_algorithm)
    BY OnlyUndoing DEF Clearable, RecordUndo
  <1> QED  BY <1>1, <1>2, <1>3 DEF Owned

LEMMA UndoingMetered ==
    ASSUME IInv, TxInv, pc \in RecordUndo, NEW k, k = Undoing.key, Metered(k)
    PROVE  limit_policies[k] # None \/ MustRestore(Undoing)
  <1>1. pc \in UndoLabels
    BY UndoingFacts
  <1>2. \A p : Returns(k, p) => MustRestore(Undoing)
    BY OnlyUndoing DEF Returns, MustRestore
  <1> QED  BY <1>1, <1>2 DEF Metered

\* A record that will restore a policy says so.
LEMMA UndoingReturns ==
    ASSUME IInv, TxInv, pc \in RecordUndo, MustRestore(Undoing)
    PROVE  Undoing.old \in Policies /\ Returns(Undoing.key, Undoing.old)
  <1>1. Undoing.old \in Policies
    BY UndoFacts DEF RecordUndo
  <1> QED  BY <1>1, UndoingFacts DEF Returns, MustRestore

LEMMA UndoNextOrphan ==
    ASSUME IInv, TxInv, OrphanInv, KeepsStrays, UndoNext  PROVE OrphanInv'
  <1>0. /\ pc = "undo" /\ pc \in UndoLabels /\ pc' = UndoEntry
        /\ UNCHANGED <<limit_policies, artifacts, policer_stats, degraded, clean, journal>>
    BY DEF UndoNext, UndoGoto, maps, tx, control, UndoLabels
  <1>1. Installs' = Installs /\ Removes' = Removes /\ Undoing' = Undoing
    BY <1>0 DEF Installs, Removes, Undoing, UndoList, FirstNonempty
  <1>2. pc' \in UndoLabels /\ pc' \notin {"arm", "undoArm"}
    BY <1>0, UndoListCases DEF UndoEntry, UndoLabels
  <1>3. pc' = "undoRestore" /\ journal.installs # <<>> =>
            Undoing = Last(journal.installs) /\ Undoing.new_algorithm = None
    BY <1>0, UndoListCases DEF UndoEntry
  <1>4. pc' = "undoRestore" => \A r \in Installs : r.key = Undoing.key => r.new_algorithm = None
    <2>1. journal.installs = <<>> => Installs = {}
      BY DEF Installs, Range
    <2>2. journal.installs # <<>> => Last(journal.installs) \in Installs
      BY JournalTypes, LastRecord DEF Installs
    <2>3. DistinctKeys(journal.installs)
      BY <1>0 DEF TxInv, RecordInv, KeysInv, InTx
    <2>4. \A r, q \in Installs : r.key = q.key => r = q
      BY <2>3 DEF Installs, Range, DistinctKeys
    <2> QED  BY <1>3, <2>1, <2>2, <2>4
  <1>5. \A g, s : Clearable(g, s) => Clearable(g, s)'
    BY <1>0, <1>1, <1>2, <1>4 DEF Clearable
  <1>6. \A g, p : Returns(g, p) => Returns(g, p)'
    BY <1>1 DEF Returns
  <1>7. \A g \in Flows : Tidy(g) => Tidy(g)'
    BY <1>0, <1>2, <1>5, <1>6 DEF KeepsStrays, Tidy, Owned, Metered
  <1>8. AlgoInv'
    BY <1>0, <1>1, <1>2, AlgoStays DEF OrphanInv
  <1> QED  BY <1>0, <1>7, <1>8 DEF OrphanInv

\* A new policy that is taken back leaves its artifact to be cleared, and displaced another.
LEMMA UndoDisarmOrphan ==
    ASSUME IInv, TxInv, AgreeInv, OrphanInv, KeepsStrays, UndoDisarm  PROVE OrphanInv'
  <1>a. SUFFICES ASSUME NEW r, r = Undoing, NEW k, k = r.key  PROVE OrphanInv'
    OBVIOUS
  <1>0. /\ pc = "undoDisarm" /\ pc \in RecordUndo /\ pc \in UndoLabels /\ pc' = "undoClear" /\ pc' \in UndoLabels
        /\ UNCHANGED <<artifacts, policer_stats, degraded, clean, journal>>
        /\ limit_policies' = [limit_policies EXCEPT ![k] = None]
    BY <1>a DEF UndoDisarm, UndoGoto, disarm_policy, arm_policy, tx, control, RecordUndo, UndoLabels
  <1>1. /\ k \in Flows /\ RecordOf(r) /\ InstallOK(r) /\ r \in Installs /\ r.armed /\ InTx
        /\ UndoList = "installs"
    BY <1>a, <1>0, UndoingFacts DEF TxInv, StepInv
  <1>2. /\ limit_policies'[k] = None
        /\ \A g \in Flows : g # k => limit_policies'[g] = limit_policies[g]
        /\ \A g \in Flows : limit_policies[g] \in Policies \cup {None}
    BY <1>0, <1>1 DEF IInv, EngineTypeOK, Phases
  <1>3. Installs' = Installs /\ Removes' = Removes
    BY <1>0 DEF Installs, Removes
  <1>4. AlgoInv'
    <2>1. \A q \in Installs : limit_policies'[q.key] \in {limit_policies[q.key], None}
      BY <1>0, <1>2, UndoingFacts
    <2> QED  BY <1>0, <1>3, <2>1, AlgoStays DEF OrphanInv
  <1>5. ~degraded => r.old # None
    <2>1. mode = "reload" /\ limited[k] # None /\ r.old = before.limit_policies[k]
      BY <1>a, <1>1 DEF RecordOf, InstallOK, IInv, EngineTypeOK
    <2>2. AbsLimited[k] = limited[k] /\ AbsArmed = before.limit_policies
      BY <1>1, <2>1 DEF AbsLimited, AbsArmed, Open
    <2> QED  BY <2>1, <2>2 DEF AgreeInv
  <1>6. \A p : Returns(k, p) => Returns(k, p)'
    BY <1>3 DEF Returns
  <1>7. ASSUME ~degraded, Tidy(k)  PROVE Tidy(k)'
    <2>1. MustRestore(r)
      BY <1>5, <1>7, <1>1 DEF InstallOK, MustRestore
    <2>2. \E p \in Policies : Returns(k, p)' /\ p = Undoing.old
      BY <1>a, <1>0, <1>6, <2>1, UndoingReturns
    <2>3. ASSUME NEW s \in Stores, artifacts[s][k] # "absent"
          PROVE  Clearable(k, s)' \/ \E p \in Policies : Returns(k, p)' /\ s = Store(AlgoOf[p])
      <3>1. Owned(k, s)
        BY <1>7, <2>3 DEF Tidy
      <3>2. ASSUME r.new_algorithm # None, s = Store(r.new_algorithm)  PROVE Clearable(k, s)'
        BY <1>a, <1>0, <1>1, <1>3, <3>2 DEF Clearable
      <3>3. CASE limit_policies[k] # None /\ s = Store(AlgoOf[limit_policies[k]])
        <4>1. r.new_algorithm = AlgoOf[limit_policies[k]] /\ r.new_algorithm # None
          BY <1>a, <1>1, <1>2, <3>3, PolicyAssumption DEF OrphanInv, AlgoInv
        <4> QED  BY <3>2, <3>3, <4>1
      <3> QED  BY <1>a, <1>0, <2>2, <3>1, <3>2, <3>3, UndoingTidy
    <2>4. Metered(k)'
      BY <1>0, <2>2 DEF Metered
    <2>5. \A s \in Stores : artifacts'[s][k] # "absent" => Owned(k, s)'
      BY <1>0, <2>3 DEF Owned
    <2> QED  BY <2>4, <2>5 DEF Tidy
  <1>8. \A g \in Flows : g # k => FlowStays(g)
    BY <1>0, <1>2 DEF FlowStays
  <1> QED  BY <1>0, <1>1, <1>3, <1>4, <1>7, <1>8, RollbackTidy

LEMMA UndoClearOrphan ==
    ASSUME IInv, TxInv, OrphanInv, KeepsStrays, UndoClear  PROVE OrphanInv'
  <1>a. SUFFICES ASSUME NEW r, r = Undoing, NEW k, k = r.key, NEW a, a = r.new_algorithm  PROVE OrphanInv'
    OBVIOUS
  <1>0. /\ pc = "undoClear" /\ pc \in RecordUndo /\ pc \in UndoLabels /\ pc' = "undoRestore" /\ pc' \in UndoLabels
        /\ UNCHANGED <<limit_policies, policer_stats, degraded, clean, journal>>
        /\ SetArtifact(k, a, "absent")
    BY <1>a DEF UndoClear, UndoGoto, clear_state, SetArtifact, tx, control, RecordUndo, UndoLabels
  <1>1. k \in Flows /\ EngineTypeOK /\ limit_policies[k] = None
    BY <1>a, <1>0, UndoFacts DEF IInv, MapInv
  <1>2. Installs' = Installs /\ Removes' = Removes /\ Undoing' = Undoing
    BY <1>0 DEF Installs, Removes, Undoing, UndoList, FirstNonempty
  <1>3. AlgoInv'
    BY <1>0, <1>2, AlgoStays DEF OrphanInv
  <1>4. \A s \in Stores, g \in Flows :
            artifacts'[s][g] = IF s = Store(a) /\ g = k THEN "absent" ELSE artifacts[s][g]
    BY <1>0, <1>1, ArtifactSet
  <1>5. \A p : Returns(k, p) => Returns(k, p)'
    BY <1>2 DEF Returns
  <1>6. ASSUME Tidy(k)  PROVE Tidy(k)'
    <2>1. MustRestore(r) => r.old \in Policies /\ Returns(k, r.old)'
      BY <1>a, <1>0, <1>5, UndoingReturns
    <2>2. ASSUME NEW s \in Stores, artifacts'[s][k] # "absent"
          PROVE  \E p \in Policies : Returns(k, p)' /\ s = Store(AlgoOf[p])
      <3>1. artifacts[s][k] # "absent" /\ s # Store(a)
        BY <1>1, <1>4, <2>2
      <3>2. Owned(k, s)
        BY <1>6, <3>1 DEF Tidy
      <3>3. MustRestore(r) /\ s = Store(AlgoOf[r.old])
        BY <1>a, <1>0, <1>1, <3>1, <3>2, UndoingTidy
      <3> QED  BY <2>1, <3>3
    <2>3. k \in policer_stats => MustRestore(r) \/ k \in recreated
      BY <1>a, <1>0, <1>1, <1>6, UndoingMetered DEF Tidy
    <2>4. \A s \in Stores : artifacts'[s][k] # "absent" => Owned(k, s)'
      BY <1>0, <2>2 DEF Owned
    <2>5. MustRestore(r) => Metered(k)'
      BY <1>0, <2>1 DEF Metered
    <2>6. k \in policer_stats' => Metered(k)' \/ k \in recreated'
      BY <1>0, <1>1, <1>6, <2>3, <2>5 DEF KeepsStrays
    <2> QED  BY <2>4, <2>6 DEF Tidy
  <1>7. \A g \in Flows : g # k => FlowStays(g)
    BY <1>0, <1>4 DEF FlowStays
  <1> QED  BY <1>a, <1>0, <1>1, <1>2, <1>3, <1>6, <1>7, RollbackTidy

\* A record played back takes no other record with it.
LEMMA DroppedTidy ==
    ASSUME IInv, TxInv, OrphanInv, KeepsStrays, pc \in RecordUndo, journal' = Drop(UndoList), pc' = "undo",
           degraded' = degraded, clean' = clean, NEW k, k = Undoing.key,
           \A g \in Flows : g # k => FlowStays(g),
           ~degraded /\ clean /\ Tidy(k) => Tidy(k)'
    PROVE  OrphanInv'
  <1>1. /\ k \in Flows /\ pc \in UndoLabels /\ pc' \in UndoLabels
        /\ \A r \in Installs : r \in InstallRecords /\ r.key \in Flows
        /\ \A r \in Installs, q \in Removes : r.key # q.key
    BY UndoingFacts DEF UndoLabels, KeysInv
  <1>2. /\ Installs' \subseteq Installs /\ Removes' \subseteq Removes
        /\ \A r \in Installs' \cup Removes' : r.key # k
        /\ \A r \in Installs \cup Removes : r.key # k => r \in Installs' \cup Removes'
    BY DroppedRecords
  <1>3. /\ \A r \in Installs : r.key # k => r \in Installs'
        /\ \A r \in Removes : r.key # k => r \in Removes'
    BY <1>1, <1>2
  <1>4. AlgoInv'
    <2>1. \A r \in Installs' : r \in Installs /\ limit_policies'[r.key] = limit_policies[r.key]
      BY <1>1, <1>2 DEF FlowStays
    <2> QED  BY <2>1, AlgoStays DEF OrphanInv
  <1> QED  BY <1>1, <1>3, <1>4, RollbackTidy

LEMMA UndoRestoreOrphan ==
    ASSUME IInv, TxInv, OrphanInv, KeepsStrays, UndoRestore  PROVE OrphanInv'
  <1>a. SUFFICES ASSUME NEW r, r = Undoing, NEW k, k = r.key  PROVE OrphanInv'
    OBVIOUS
  <1>0. pc = "undoRestore" /\ pc \in RecordUndo /\ pc \in UndoLabels /\ k \in Flows /\ EngineTypeOK
    BY <1>a, UndoFacts DEF UndoRestore, RecordUndo, UndoLabels
  <1>1. CASE ~MustRestore(r) /\ Played /\ UNCHANGED maps
    <2>0. /\ journal' = Drop(UndoList) /\ pc' = "undo"
          /\ UNCHANGED <<limit_policies, artifacts, policer_stats, degraded, clean>>
      BY <1>1 DEF Played, UndoGoto, maps, control
    <2>1. \A g \in Flows : FlowStays(g)
      BY <2>0 DEF FlowStays
    <2>2. ASSUME Tidy(k)  PROVE Tidy(k)'
      <3>1. \A s : Owned(k, s) => limit_policies[k] # None /\ s = Store(AlgoOf[limit_policies[k]])
        BY <1>a, <1>0, <1>1, UndoingTidy
      <3>2. Metered(k) => limit_policies[k] # None
        BY <1>a, <1>0, <1>1, UndoingMetered
      <3> QED  BY <2>0, <2>2, <3>1, <3>2 DEF KeepsStrays, Tidy, Owned, Metered
    <2> QED  BY <1>a, <1>0, <2>0, <2>1, <2>2, DroppedTidy
  <1>2. CASE /\ MustRestore(r) /\ write_fresh_state(k, AlgoOf[r.old])
             /\ UndoGoto("undoArm") /\ UNCHANGED tx
    <2>a. SUFFICES ASSUME NEW a, a = AlgoOf[r.old]  PROVE OrphanInv'
      OBVIOUS
    <2>0. /\ pc' = "undoArm" /\ pc' \in UndoLabels /\ SetArtifact(k, a, "fresh")
          /\ UNCHANGED <<limit_policies, policer_stats, degraded, clean, journal>>
      BY <1>2, <2>a DEF UndoGoto, write_fresh_state, SetArtifact, tx, control, UndoLabels
    <2>1. Installs' = Installs /\ Removes' = Removes /\ Undoing' = Undoing
      BY <2>0 DEF Installs, Removes, Undoing, UndoList, FirstNonempty
    <2>2. AlgoInv'
      BY <2>0, <2>1, AlgoStays DEF OrphanInv
    <2>3. \A s \in Stores, g \in Flows :
              artifacts'[s][g] = IF s = Store(a) /\ g = k THEN "fresh" ELSE artifacts[s][g]
      BY <1>0, <2>0, ArtifactSet
    <2>4. \A p : Returns(k, p) => Returns(k, p)'
      BY <2>1 DEF Returns
    <2>5. ASSUME Tidy(k)  PROVE Tidy(k)'
      <3>1. r.old \in Policies /\ Returns(k, r.old)'
        BY <1>a, <1>0, <1>2, <2>4, UndoingReturns
      <3>2. \A s \in Stores : artifacts'[s][k] # "absent" => s = Store(a) \/ artifacts[s][k] # "absent"
        BY <1>0, <2>3
      <3>3. \A s : Owned(k, s) => \/ limit_policies[k] # None /\ s = Store(AlgoOf[limit_policies[k]])
                                  \/ s = Store(a)
        BY <1>a, <1>0, <2>a, UndoingTidy
      <3>4. \A s \in Stores : artifacts'[s][k] # "absent" =>
                \/ limit_policies[k] # None /\ s = Store(AlgoOf[limit_policies[k]])
                \/ s = Store(a)
        BY <2>5, <3>2, <3>3 DEF Tidy
      <3> QED  BY <2>a, <2>0, <3>1, <3>4 DEF KeepsStrays, Tidy, Owned, Metered
    <2>6. \A g \in Flows : g # k => FlowStays(g)
      BY <2>0, <2>3 DEF FlowStays
    <2> QED  BY <1>a, <1>0, <2>0, <2>1, <2>2, <2>5, <2>6, RollbackTidy
  <1> QED  BY <1>a, <1>1, <1>2 DEF UndoRestore

LEMMA UndoArmOrphan ==
    ASSUME IInv, TxInv, OrphanInv, KeepsStrays, UndoArm  PROVE OrphanInv'
  <1>a. SUFFICES ASSUME NEW r, r = Undoing, NEW k, k = r.key, NEW old, old = r.old  PROVE OrphanInv'
    OBVIOUS
  <1>0. /\ pc = "undoArm" /\ pc \in RecordUndo /\ journal' = Drop(UndoList) /\ pc' = "undo"
        /\ UNCHANGED <<artifacts, policer_stats, degraded, clean>>
        /\ limit_policies' = [limit_policies EXCEPT ![k] = old]
    BY <1>a DEF UndoArm, Played, UndoGoto, arm_policy, control, RecordUndo
  <1>1. k \in Flows /\ MustRestore(r) /\ old \in Policies /\ limit_policies[k] = None
    BY <1>a, <1>0, UndoFacts, ArmedLater DEF IInv, UndoInv
  <1>2. /\ limit_policies'[k] = old /\ old # None
        /\ \A g \in Flows : g # k => limit_policies'[g] = limit_policies[g]
    BY <1>0, <1>1, PolicyAssumption DEF IInv, EngineTypeOK, Phases
  <1>3. ASSUME Tidy(k)  PROVE Tidy(k)'
    <2>1. \A s : Owned(k, s) => s = Store(AlgoOf[old])
      BY <1>a, <1>0, <1>1, UndoingTidy
    <2> QED  BY <1>0, <1>2, <1>3, <2>1 DEF KeepsStrays, Tidy, Owned, Metered
  <1>4. \A g \in Flows : g # k => FlowStays(g)
    BY <1>0, <1>2 DEF FlowStays
  <1> QED  BY <1>a, <1>0, <1>3, <1>4, DroppedTidy

LEMMA UndoWhitelistOrphan ==
    ASSUME IInv, TxInv, OrphanInv, KeepsStrays, UndoWhitelist  PROVE OrphanInv'
  <1>0. /\ pc \in {"undoReadd", "undoUnadd"} /\ pc' = "undo" /\ journal' = Drop(UndoList)
        /\ UNCHANGED <<limit_policies, artifacts, policer_stats, degraded, clean>>
    BY DEF UndoWhitelist, Played, UndoGoto, wl_insert, wl_remove, SetTrie, control
  <1>1. pc \in UndoLabels /\ pc' \in UndoLabels /\ Installs' = Installs /\ Removes' = Removes
    BY <1>0, UndoingPrefix DEF Installs, Removes, UndoLabels
  <1>2. AlgoInv'
    BY <1>0, <1>1, AlgoStays DEF OrphanInv
  <1>3. \A g \in Flows : Tidy(g) => Tidy(g)'
    BY <1>0, <1>1, OthersUndo DEF FlowStays
  <1> QED  BY <1>0, <1>2, <1>3 DEF OrphanInv

\* A rollback step that fails may leave entries behind, and says so.
LEMMA UndoFailOrphan ==
    ASSUME IInv, TxInv, OrphanInv, KeepsStrays, UndoFail  PROVE OrphanInv'
  <1>0. /\ clean' = FALSE /\ UNCHANGED limit_policies /\ pc' # "arm"
        /\ \/ pc = "undoClear" /\ UNCHANGED journal
           \/ pc \in RecordUndo \cup {"undoReadd", "undoUnadd"} /\ journal' = Drop(UndoList)
    BY DEF UndoFail, GivesUp, NextIfKept, UndoGoto, NoRoomToRestore, UndoOpPending, RecordUndo, maps
  <1>1. Installs' \subseteq Installs
    <2>1. CASE UNCHANGED journal
      BY <2>1 DEF Installs
    <2>2. CASE pc \in RecordUndo /\ journal' = Drop(UndoList)
      BY <2>2, DroppedRecords
    <2>3. CASE pc \in {"undoReadd", "undoUnadd"} /\ journal' = Drop(UndoList)
      BY <2>3, UndoingPrefix DEF Installs
    <2> QED  BY <1>0, <2>1, <2>2, <2>3
  <1>2. AlgoInv'
    BY <1>0, <1>1, AlgoStays DEF OrphanInv
  <1> QED  BY <1>0, <1>2 DEF OrphanInv

\* A rollback that has played every record back owes nothing any more.
LEMMA UndoDoneOrphan ==
    ASSUME IInv, TxInv, OrphanInv, KeepsStrays, UndoDone  PROVE OrphanInv'
  <1>0. /\ pc = "undo" /\ journal = EmptyJournal /\ journal' = EmptyJournal /\ pc' \in {"idle", "act"}
        /\ degraded' = (degraded \/ ~clean)
        /\ UNCHANGED <<limit_policies, artifacts, policer_stats>>
    BY DEF UndoDone, EndTx, tx, maps
  <1>1. Installs = {} /\ Installs' = {} /\ Removes = {}
    BY <1>0, EmptyInstalls DEF Installs, Removes
  <1>2. AlgoInv'
    BY <1>0, <1>1, AlgoStays DEF OrphanInv
  <1>3. ASSUME ~degraded', NEW g \in Flows
        PROVE  Tidy(g)'
    <2>1. Tidy(g) /\ pc \in UndoLabels
      BY <1>0, <1>3 DEF OrphanInv, UndoLabels
    <2>2. \A s, p : ~Clearable(g, s) /\ ~Returns(g, p)
      BY <1>1 DEF Clearable, Returns
    <2> QED  BY <1>0, <2>1, <2>2 DEF KeepsStrays, Tidy, Owned, Metered
  <1> QED  BY <1>2, <1>3 DEF OrphanInv

\* Every step keeps every entry accounted for.
LEMMA NextOrphan ==
    ASSUME IInv, PacketTypeOK, TxInv, AgreeInv, OrphanInv, [Next]_vars  PROVE OrphanInv'
  <1>0. Engine => KeepsStrays
    BY DEF Engine, KeepsStrays
  <1>1. CASE Engine /\ Forward
    BY <1>0, <1>1, WhitelistAddOrphan, StartActionOrphan, ActionsDoneOrphan, InstallLookupOrphan, DisarmOldOrphan,
       ClearOldOrphan, WriteStateOrphan, ArmOrphan, RemoveLookupOrphan, DisarmOrphan, ClearStateOrphan,
       ClearPolicerOrphan, WhitelistRemoveOrphan, CommitOrphan, FailOrphan DEF Forward
  <1>2. CASE Engine /\ Undo
    BY <1>0, <1>2, UndoNextOrphan, UndoDisarmOrphan, UndoClearOrphan, UndoRestoreOrphan, UndoArmOrphan,
       UndoWhitelistOrphan, UndoFailOrphan, UndoDoneOrphan DEF Undo
  <1>3. CASE Engine /\ \E next \in Phases : BeginTick(next)
    BY <1>0, <1>3, BeginTickOrphan
  <1>4. CASE Engine /\ \E next \in Phases, P \in PrefixSets : BeginReload(next, P)
    BY <1>0, <1>4, BeginReloadOrphan
  <1>5. CASE DataPath
    BY <1>5, PacketOrphan
  <1>6. CASE UNCHANGED vars
    BY <1>6, StutterOrphan
  <1> QED  BY <1>1, <1>2, <1>3, <1>4, <1>5, <1>6 DEF Next, Engine

\* As long as no rollback has failed, install_limit, remove_limit and
\* rollback_journal leave no LIMIT_STATE or SWL_LOG entry behind that no armed policy
\* uses, whatever map operations failed on the way, and no POLICER_STATS entry but
\* those that a packet already past its policy lookup made anew (record_verdict).
THEOREM NoEntryLeaks == Spec => []NoOrphans
  <1>1. Init => OrphanInv
    BY InitOrphan
  <1>2. IInv /\ PacketTypeOK /\ TxInv /\ AgreeInv /\ OrphanInv /\ [Next]_vars => OrphanInv'
    BY NextOrphan
  <1>3. IInv /\ TxInv /\ OrphanInv => NoOrphans
    <2>1. SUFFICES ASSUME IInv, TxInv, OrphanInv, pc = "idle", ~degraded, NEW f \in Flows
                   PROVE  /\ \A s \in Stores : artifacts[s][f] # "absent" =>
                                 limit_policies[f] # None /\ s = Store(AlgoOf[limit_policies[f]])
                          /\ f \in policer_stats /\ limit_policies[f] = None => f \in recreated
      BY DEF NoOrphans
    <2>2. pc \notin UndoLabels /\ \A s : ~Midway(s) /\ ~MeteredMidway
      BY <2>1 DEF UndoLabels, Midway, MeteredMidway
    <2>3. Tidy(f)
      BY <2>1, <2>2, CleanForward DEF OrphanInv
    <2> QED  BY <2>2, <2>3 DEF Tidy, Owned, Metered
  <1> QED  BY <1>1, <1>2, <1>3, Meaning, Inductive, PTL DEF Spec

-----------------------------------------------------------------------------
(***************************************************************************)
(* A rollback finds room for every entry that it writes back.  Playback in *)
(* reverse order leads through the states that the maps have been in, and  *)
(* each of them fitted.  RoomInv counts the entries of these states: a     *)
(* flow whose record has been played back has the entries it had before.   *)
(***************************************************************************)

Tables == Stores \cup {"LIMIT_POLICIES"}

CapOf(m) == IF m = "LIMIT_POLICIES" THEN PolicyCap ELSE StoreCap(m)

Has(m, f) == IF m = "LIMIT_POLICIES" THEN limit_policies[f] # None ELSE artifacts[m][f] # "absent"

\* The entries of a flow when the journal was new.
Had(m, f) ==
    LET old == before.limit_policies[f] IN old # None /\ m \in {"LIMIT_POLICIES", Store(AlgoOf[old])}

InstalledFrom(i, f) == \E j \in i..Len(journal.installs) : journal.installs[j].key = f

Entries(m) == {f \in Flows : Has(m, f)}
EntriesBefore(m) == {f \in Flows : Had(m, f)}

\* The entries once the installs from the i-th on have been undone.
EntriesUndone(i, m) == {f \in Flows : IF InstalledFrom(i, f) THEN Had(m, f) ELSE Has(m, f)}

RoomInv ==
    /\ \A m \in Tables : Cardinality(Entries(m)) <= CapOf(m)
    /\ InTx => \A m \in Tables : Cardinality(EntriesBefore(m)) <= CapOf(m)
    /\ InTx /\ clean /\ ~degraded =>
           \A m \in Tables : \A i \in 1..Len(journal.installs) : Cardinality(EntriesUndone(i, m)) <= CapOf(m)
    /\ mode = "reload" => Cardinality(prefixes \cup target.prefixes) <= WhitelistCap

(* Counting *)

LEMMA Tighter ==
    ASSUME NEW T \in SUBSET Flows, NEW S \in SUBSET T, NEW c \in Nat, Cardinality(T) <= c
    PROVE  Cardinality(S) <= c /\ (S # T => Cardinality(S) < c)
  <1>1. IsFiniteSet(T)
    BY BoundAssumption, FS_Subset
  <1>2. Cardinality(T) \in Nat /\ Cardinality(S) \in Nat
    BY <1>1, FS_Subset, FS_CardinalityType
  <1>3. Cardinality(S) <= Cardinality(T) /\ (Cardinality(T) = Cardinality(S) => S = T)
    BY <1>1, FS_Subset
  <1> QED  BY <1>2, <1>3

\* A hash map that accepts a key is not full.
LEMMA OneMore ==
    ASSUME NEW S \in SUBSET Flows, NEW k, NEW T \in SUBSET (S \cup {k}), NEW c \in Nat,
           Cardinality(S) <= c, k \in S \/ Cardinality(S) < c
    PROVE  Cardinality(T) <= c
  <1>1. IsFiniteSet(S) /\ Cardinality(S) \in Nat
    BY BoundAssumption, FS_Subset, FS_CardinalityType
  <1>2. IsFiniteSet(S \cup {k}) /\ Cardinality(S \cup {k}) <= c
    <2>1. /\ IsFiniteSet(S \cup {k})
          /\ Cardinality(S \cup {k}) = IF k \in S THEN Cardinality(S) ELSE Cardinality(S) + 1
      BY <1>1, FS_AddElement
    <2>2. CASE k \in S
      BY <2>1, <2>2
    <2>3. CASE k \notin S
      BY <1>1, <2>1, <2>3
    <2> QED  BY <2>2, <2>3
  <1>3. Cardinality(T) <= Cardinality(S \cup {k}) /\ Cardinality(T) \in Nat /\ Cardinality(S \cup {k}) \in Nat
    BY <1>2, FS_Subset, FS_CardinalityType
  <1> QED  BY <1>2, <1>3

LEMMA CapType == \A m \in Tables : CapOf(m) \in Nat
  BY BoundAssumption DEF CapOf, StoreCap

LEMMA TableFacts ==
    /\ \A m \in Tables \ {"LIMIT_POLICIES"} : m \in Stores
    /\ "LIMIT_POLICIES" \in Tables /\ "LIMIT_POLICIES" \notin Stores
    /\ \A algo : Store(algo) \in Stores /\ Store(algo) \in Tables /\ CapOf(Store(algo)) = StoreCap(Store(algo))
  BY DEF Tables, Stores, Store, CapOf

\* What lookup and room mean to the maps of the limits.
LEMMA RoomMeans ==
    /\ \A k : PolicyRoom(k) <=> \/ Has("LIMIT_POLICIES", k)
                                \/ Cardinality(Entries("LIMIT_POLICIES")) < CapOf("LIMIT_POLICIES")
    /\ \A k, algo : StateRoom(k, algo) <=> \/ Has(Store(algo), k)
                                           \/ Cardinality(Entries(Store(algo))) < CapOf(Store(algo))
  <1>1. \A algo : Store(algo) # "LIMIT_POLICIES"
    BY TableFacts
  <1> QED  BY <1>1, TableFacts DEF PolicyRoom, StateRoom, Has, Entries, CapOf

LEMMA EntriesShrink ==
    ASSUME RoomInv, \A m \in Tables, f \in Flows : Has(m, f)' => Has(m, f)
    PROVE  \A m \in Tables : Cardinality(Entries(m)') <= CapOf(m)
  <1> TAKE m \in Tables
  <1>1. Entries(m) \in SUBSET Flows /\ Entries(m)' \in SUBSET Entries(m)
    BY DEF Entries
  <1>2. Cardinality(Entries(m)) <= CapOf(m)
    BY DEF RoomInv
  <1> QED  BY <1>1, <1>2, CapType, Tighter

\* One entry of flow k may be new in a map with room for it.
LEMMA EntriesGrow ==
    ASSUME RoomInv, NEW k \in Flows, NEW t \in Tables,
           Has(t, k) \/ Cardinality(Entries(t)) < CapOf(t),
           \A m \in Tables, f \in Flows : Has(m, f)' => Has(m, f) \/ (m = t /\ f = k)
    PROVE  \A m \in Tables : Cardinality(Entries(m)') <= CapOf(m)
  <1> TAKE m \in Tables
  <1>1. Entries(m) \in SUBSET Flows /\ Cardinality(Entries(m)) <= CapOf(m)
    BY DEF Entries, RoomInv
  <1>2. CASE m = t
    <2>1. k \in Entries(m) \/ Cardinality(Entries(m)) < CapOf(m)
      BY <1>2 DEF Entries
    <2>2. Entries(m)' \in SUBSET (Entries(m) \cup {k})
      BY DEF Entries
    <2> QED  BY <1>1, <2>1, <2>2, CapType, OneMore
  <1>3. CASE m # t
    <2>1. Entries(m)' \in SUBSET Entries(m)
      BY <1>3 DEF Entries
    <2> QED  BY <1>1, <2>1, CapType, Tighter
  <1> QED  BY <1>2, <1>3

\* Steps that keep the records of the installs change entries of the last one only.
LEMMA RoomKept ==
    ASSUME RoomInv, InTx' => InTx, UNCHANGED <<before, mode, prefixes, target, degraded>>,
           \A m \in Tables : Cardinality(Entries(m)') <= CapOf(m),
           clean' => /\ clean
                     /\ Len(journal'.installs) = Len(journal.installs) /\ Len(journal.installs) \in Nat
                     /\ \A j \in 1..Len(journal.installs) : journal'.installs[j].key = journal.installs[j].key
                     /\ \A m \in Tables, f \in Flows : Has(m, f)' =>
                            \/ Has(m, f) \/ Len(journal.installs) = 0
                            \/ f = journal.installs[Len(journal.installs)].key
    PROVE  RoomInv'
  <1>1. \A m, f : Had(m, f)' <=> Had(m, f)
    BY DEF Had
  <1>2. InTx' => \A m \in Tables : Cardinality(EntriesBefore(m)') <= CapOf(m)
    <2>1. \A m : EntriesBefore(m)' = EntriesBefore(m)
      BY <1>1 DEF EntriesBefore
    <2> QED  BY <2>1 DEF RoomInv
  <1>3. ASSUME InTx', clean', ~degraded', NEW m \in Tables, NEW i \in 1..Len(journal'.installs)
        PROVE  Cardinality(EntriesUndone(i, m)') <= CapOf(m)
    <2>1. i \in 1..Len(journal.installs) /\ Len(journal.installs) \in i..Len(journal.installs)
      BY <1>3
    <2>2. \A f : InstalledFrom(i, f)' <=> InstalledFrom(i, f)
      BY <1>3, <2>1 DEF InstalledFrom
    <2>3. ASSUME NEW f \in Flows, ~InstalledFrom(i, f), Has(m, f)'  PROVE Has(m, f)
      BY <1>3, <2>1, <2>3 DEF InstalledFrom
    <2>4. EntriesUndone(i, m)' \in SUBSET EntriesUndone(i, m) /\ EntriesUndone(i, m) \in SUBSET Flows
      BY <1>1, <2>2, <2>3 DEF EntriesUndone
    <2>5. Cardinality(EntriesUndone(i, m)) <= CapOf(m)
      BY <1>3, <2>1 DEF RoomInv
    <2> QED  BY <2>4, <2>5, CapType, Tighter
  <1>4. (mode = "reload" => Cardinality(prefixes \cup target.prefixes) <= WhitelistCap)'
    BY DEF RoomInv
  <1> QED  BY <1>2, <1>3, <1>4 DEF RoomInv

\* Steps that add no entry.
LEMMA RoomQuiet ==
    ASSUME IInv, RoomInv, InTx' => InTx, UNCHANGED <<before, mode, prefixes, target, degraded>>,
           \A m \in Tables, f \in Flows : Has(m, f)' => Has(m, f),
           clean' => clean /\ journal'.installs = journal.installs
    PROVE  RoomInv'
  <1>1. \A m \in Tables : Cardinality(Entries(m)') <= CapOf(m)
    BY EntriesShrink
  <1>2. Len(journal.installs) \in Nat
    BY JournalTypes, LenProperties
  <1> QED  BY <1>1, <1>2, RoomKept

\* Steps that write no limit map.
LEMMA SameEntries ==
    ASSUME UNCHANGED <<limit_policies, artifacts>>
    PROVE  \A m \in Tables, f \in Flows : Has(m, f)' => Has(m, f)
  BY DEF Has

LEMMA DisarmShrinks ==
    ASSUME IInv, NEW k \in Flows, disarm_policy(k)
    PROVE  \A m \in Tables, f \in Flows : Has(m, f)' => Has(m, f)
  <1>1. \A f \in Flows : limit_policies'[f] = IF f = k THEN None ELSE limit_policies[f]
    BY DEF disarm_policy, arm_policy, IInv, EngineTypeOK, Phases
  <1> QED  BY <1>1 DEF Has, disarm_policy, arm_policy

LEMMA ArmGrows ==
    ASSUME IInv, NEW k \in Flows, NEW p, arm_policy(k, p)
    PROVE  \A m \in Tables, f \in Flows : Has(m, f)' => Has(m, f) \/ (m = "LIMIT_POLICIES" /\ f = k)
  <1>1. \A f \in Flows : limit_policies'[f] = IF f = k THEN p ELSE limit_policies[f]
    BY DEF arm_policy, IInv, EngineTypeOK, Phases
  <1> QED  BY <1>1 DEF Has, arm_policy

LEMMA WriteGrows ==
    ASSUME IInv, NEW k \in Flows, NEW algo, NEW content, SetArtifact(k, algo, content)
    PROVE  /\ \A m \in Tables, f \in Flows : Has(m, f)' => Has(m, f) \/ (m = Store(algo) /\ f = k)
           /\ content = "absent" => \A m \in Tables, f \in Flows : Has(m, f)' => Has(m, f)
  <1>1. \A s \in Stores, f \in Flows :
            artifacts'[s][f] = IF s = Store(algo) /\ f = k THEN content ELSE artifacts[s][f]
    BY ArtifactSet DEF IInv
  <1> QED  BY <1>1, TableFacts DEF Has, SetArtifact

LEMMA MarkedInstalls ==
    ASSUME IInv, pc \in Mid, NEW r \in InstallRecords, r.key = cur.flow, journal' = Mark("installs", r)
    PROVE  /\ Len(journal'.installs) = Len(journal.installs) /\ Len(journal.installs) \in Nat
           /\ \A j \in 1..Len(journal.installs) : journal'.installs[j].key = journal.installs[j].key
           /\ journal.installs[Len(journal.installs)].key = cur.flow
  <1>a. SUFFICES ASSUME NEW s, s = journal.installs, NEW t, t = Append(Front(s), r)
                 PROVE  /\ Len(t) = Len(s) /\ Len(s) \in Nat
                        /\ \A j \in 1..Len(s) : t[j].key = s[j].key
                        /\ s[Len(s)].key = cur.flow
    BY JournalTypes, OtherLists, ZenonT(40)
  <1>1. s \in Seq(InstallRecords) /\ s # <<>> /\ s[Len(s)].key = cur.flow /\ Len(s) \in Nat
    BY <1>a, InstallFacts
  <1>2. Len(t) = Len(s) /\ t[Len(s)] = r /\ \A j \in 1..Len(s) - 1 : t[j] = s[j]
    BY <1>a, <1>1, MarkLast
  <1> QED  BY <1>1, <1>2

\* Between transactions only the sizes of the maps matter.
LEMMA OutsideRoom ==
    ASSUME RoomInv, ~InTx', mode' = "tick", UNCHANGED <<limit_policies, artifacts>>
    PROVE  RoomInv'
  <1>1. \A m \in Tables : Cardinality(Entries(m)') <= CapOf(m)
    BY EntriesShrink, SameEntries
  <1> QED  BY <1>1 DEF RoomInv

\* Every armed flow has its entries when a transaction begins.
LEMMA NewJournalRoom ==
    ASSUME IInv, RoomInv, NewJournal, UNCHANGED <<limit_policies, artifacts>>,
           mode' = "reload" => Cardinality(prefixes' \cup target'.prefixes) <= WhitelistCap
    PROVE  RoomInv'
  <1>1. \A m \in Tables : Cardinality(Entries(m)') <= CapOf(m)
    BY EntriesShrink, SameEntries
  <1>2. ASSUME NEW m \in Tables  PROVE Cardinality(EntriesBefore(m)') <= CapOf(m)
    <2>1. \A f \in Flows : Had(m, f)' => Has(m, f)'
      <3>1. before'.limit_policies = limit_policies'
        BY DEF NewJournal
      <3>2. \A f \in Flows : limit_policies'[f] # None => artifacts'[Store(AlgoOf[limit_policies'[f]])][f] # "absent"
        BY DEF IInv, ArmedHasState
      <3> QED  BY <3>1, <3>2, TableFacts DEF Had, Has
    <2>2. EntriesBefore(m)' \in SUBSET (Entries(m)') /\ Entries(m)' \in SUBSET Flows
      BY <2>1 DEF EntriesBefore, Entries
    <2> QED  BY <1>1, <2>2, CapType, Tighter
  <1>3. Len(journal'.installs) = 0
    BY DEF NewJournal, EmptyJournal
  <1> QED  BY <1>1, <1>2, <1>3 DEF RoomInv

-----------------------------------------------------------------------------
(* Room is kept: the steps forward *)

LEMMA BeginTickRoom ==
    ASSUME IInv, TxInv, RoomInv, NEW next \in Phases, BeginTick(next)  PROVE RoomInv'
  BY OutsideRoom DEF BeginTick, maps, InTx

LEMMA BeginReloadRoom ==
    ASSUME IInv, TxInv, RoomInv, NEW next \in Phases, NEW P \in PrefixSets, BeginReload(next, P)  PROVE RoomInv'
  BY NewJournalRoom DEF BeginReload, maps, control

LEMMA StartActionRoom ==
    ASSUME IInv, TxInv, RoomInv, StartAction  PROVE RoomInv'
  <1>0. pc = "act" /\ mode' = mode /\ mode \in {"tick", "reload"}
        /\ UNCHANGED <<limit_policies, artifacts, prefixes, target, degraded>>
    BY DEF StartAction, maps, control, IInv, EngineTypeOK
  <1>1. CASE mode = "tick"
    BY <1>0, <1>1, NewJournalRoom DEF StartAction
  <1>2. CASE mode = "reload"
    <2>1. InTx /\ UNCHANGED <<journal, clean, before>>
      BY <1>0, <1>2 DEF StartAction, InTx
    <2> QED  BY <1>0, <1>2, <2>1, SameEntries, RoomQuiet
  <1> QED  BY <1>0, <1>1, <1>2

LEMMA ActionsDoneRoom ==
    ASSUME IInv, TxInv, RoomInv, ActionsDone  PROVE RoomInv'
  <1>1. CASE EndTx
    BY <1>1, OutsideRoom DEF ActionsDone, EndTx, maps, InTx
  <1>2. CASE mode = "reload" /\ Goto("wlDel") /\ UNCHANGED journal
    <2>1. InTx /\ UNCHANGED <<before, mode, prefixes, target, degraded, clean, limit_policies, artifacts>>
      BY <1>2 DEF ActionsDone, Goto, control, drive, maps, InTx
    <2> QED  BY <1>2, <2>1, SameEntries, RoomQuiet
  <1> QED  BY <1>1, <1>2 DEF ActionsDone

LEMMA CommitRoom ==
    ASSUME IInv, TxInv, RoomInv, Commit  PROVE RoomInv'
  BY OutsideRoom DEF Commit, EndTx, maps, InTx

LEMMA WhitelistRoom ==
    ASSUME IInv, TxInv, RoomInv, WhitelistAdd \/ WhitelistRemove  PROVE RoomInv'
  <1>1. InTx /\ UNCHANGED <<before, mode, prefixes, target, degraded, clean, limit_policies, artifacts>>
    BY DEF WhitelistAdd, WhitelistRemove, Goto, control, drive, maps, InTx, wl_insert, wl_remove, SetTrie
  <1>2. \/ UNCHANGED journal
        \/ \E c : journal' = Push("wl_added", c) \/ journal' = Push("wl_removed", c)
    BY DEF WhitelistAdd, WhitelistRemove
  <1>3. journal'.installs = journal.installs
    BY <1>2, JournalTypes, OtherLists
  <1> QED  BY <1>1, <1>3, SameEntries, RoomQuiet

\* The steps of a removal, the clearing of a displaced state and a failure.
LEMMA ShrinkingRoom ==
    ASSUME IInv, TxInv, RoomInv, RemoveLookup \/ Disarm \/ ClearState \/ ClearPolicer \/ ClearOld \/ Fail
    PROVE  RoomInv'
  <1>1. InTx /\ UNCHANGED <<before, mode, prefixes, target, degraded, clean>>
    BY DEF RemoveLookup, Disarm, ClearState, ClearPolicer, ClearOld, Fail, NoRoom, MapOpPending, Goto,
           control, drive, InTx
  <1>2. journal'.installs = journal.installs
    <2>1. UNCHANGED journal \/ \E r : journal' = Push("removes", r) \/ journal' = Mark("removes", r)
      BY DEF RemoveLookup, Disarm, ClearState, ClearPolicer, ClearOld, Fail
    <2> QED  BY <2>1, JournalTypes, OtherLists
  <1>3. \A m \in Tables, f \in Flows : Has(m, f)' => Has(m, f)
    <2>1. CASE RemoveLookup \/ ClearPolicer \/ Fail
      BY <2>1, SameEntries DEF RemoveLookup, ClearPolicer, Fail, clear_policer, maps
    <2>2. CASE Disarm
      <3>1. cur.flow \in Flows
        BY <2>2, ActingFacts DEF Disarm, Acting, RemoveLabels
      <3> QED  BY <2>2, <3>1, DisarmShrinks DEF Disarm
    <2>3. CASE ClearState \/ ClearOld
      <3>1. cur.flow \in Flows
        BY <2>3, ActingFacts DEF ClearState, ClearOld, Acting, RemoveLabels, Mid
      <3>2. \E algo : SetArtifact(cur.flow, algo, "absent")
        BY <2>3 DEF ClearState, ClearOld, clear_state
      <3> QED  BY <3>1, <3>2, WriteGrows
    <2> QED  BY <2>1, <2>2, <2>3
  <1> QED  BY <1>1, <1>2, <1>3, RoomQuiet

\* The maps as they are fit; undoing the new record changes nothing.
LEMMA InstallLookupRoom ==
    ASSUME IInv, TxInv, RoomInv, InstallLookup  PROVE RoomInv'
  <1>a. SUFFICES ASSUME NEW k, k = cur.flow, NEW s, s = journal.installs, NEW n, n = Len(s),
                        NEW r, r = InstallRecord(k, limit_policies[k])
                 PROVE  RoomInv'
    OBVIOUS
  <1>0. /\ pc = "install" /\ pc \in Acting /\ journal' = Push("installs", r)
        /\ UNCHANGED <<before, mode, prefixes, target, degraded, clean, limit_policies, artifacts>>
    BY <1>a DEF InstallLookup, Goto, control, drive, maps, Acting
  <1>1. /\ k \in Flows /\ InTx /\ ~Keyed(k) /\ limit_policies[k] = before.limit_policies[k]
        /\ s \in Seq(InstallRecords) /\ n \in Nat
    BY <1>a, <1>0, ActingFacts, JournalTypes, LenProperties DEF TxInv, StepInv
  <1>2. r \in InstallRecords /\ r.key = k
    BY <1>0, <1>1, <1>a DEF InstallRecord, InstallRecords, IInv, EngineTypeOK, Phases
  <1>3. /\ Len(journal'.installs) = n + 1 /\ journal'.installs[n + 1].key = k
        /\ \A j \in 1..n : journal'.installs[j] = s[j]
    <2>1. journal'.installs = Append(s, r)
      BY <1>a, <1>0, JournalTypes, OtherLists
    <2> QED  BY <1>a, <1>1, <1>2, <2>1, AppendProperties
  <1>4. \A m \in Tables : Cardinality(Entries(m)') <= CapOf(m)
    BY <1>0, EntriesShrink, SameEntries
  <1>5. \A m, f : Had(m, f)' = Had(m, f)
    BY <1>0 DEF Had
  <1>6. \A m \in Tables, f \in Flows : Has(m, f)' = Has(m, f)
    BY <1>0 DEF Has
  <1>7. \A m \in Tables : Had(m, k) => Has(m, k)
    BY <1>1, TableFacts DEF Had, Has, IInv, ArmedHasState
  <1>8. InTx' => \A m \in Tables : Cardinality(EntriesBefore(m)') <= CapOf(m)
    <2>1. \A m : EntriesBefore(m)' = EntriesBefore(m)
      BY <1>5 DEF EntriesBefore
    <2> QED  BY <1>1, <2>1 DEF RoomInv
  <1>9. ASSUME clean', ~degraded', NEW m \in Tables, NEW i \in 1..Len(journal'.installs)
        PROVE  Cardinality(EntriesUndone(i, m)') <= CapOf(m)
    <2>1. CASE i = n + 1
      <3>1. EntriesUndone(i, m)' \in SUBSET Entries(m) /\ Entries(m) \in SUBSET Flows
        <4>1. \A f : InstalledFrom(i, f)' => f = k
          BY <1>1, <1>3, <2>1 DEF InstalledFrom
        <4> QED  BY <1>5, <1>6, <1>7, <4>1 DEF EntriesUndone, Entries
      <3> QED  BY <3>1, CapType, Tighter DEF RoomInv
    <2>2. CASE i # n + 1
      <3>1. i \in 1..n
        BY <1>1, <1>3, <1>9, <2>2
      <3>2. \A f : f # k => (InstalledFrom(i, f)' <=> InstalledFrom(i, f))
        <4>1. /\ Len(journal'.installs) = n + 1 /\ Len(journal.installs) = n
              /\ i \in 1..n /\ n \in Nat
          BY <1>a, <1>1, <1>3, <3>1
        <4>2. \A j \in i..n : journal'.installs[j] = journal.installs[j]
          BY <1>a, <1>3, <4>1
        <4>3. i..(n + 1) = (i..n) \cup {n + 1}
          BY <4>1
        <4> QED  BY <1>3, <4>1, <4>2, <4>3 DEF InstalledFrom
      <3>3. ~InstalledFrom(i, k)
        <4>1. \A j \in 1..n : s[j] \in Installs
          BY <1>a, <1>1, LenProperties DEF Installs, Range
        <4> QED  BY <1>a, <1>1, <3>1, <4>1 DEF Keyed, InstalledFrom
      <3>4. InstalledFrom(i, k)'
        BY <1>1, <1>3, <3>1 DEF InstalledFrom
      <3>5. EntriesUndone(i, m)' \in SUBSET EntriesUndone(i, m) /\ EntriesUndone(i, m) \in SUBSET Flows
        BY <1>5, <1>6, <1>7, <3>2, <3>3, <3>4 DEF EntriesUndone
      <3>6. Cardinality(EntriesUndone(i, m)) <= CapOf(m)
        BY <1>a, <1>0, <1>1, <1>9, <3>1 DEF RoomInv
      <3> QED  BY <3>5, <3>6, CapType, Tighter
    <2> QED  BY <2>1, <2>2
  <1> QED  BY <1>0, <1>4, <1>8, <1>9 DEF RoomInv

LEMMA DisarmOldRoom ==
    ASSUME IInv, TxInv, RoomInv, DisarmOld  PROVE RoomInv'
  <1>a. SUFFICES ASSUME NEW l, l = Installing, NEW r, r = [l EXCEPT !.old_disarmed = TRUE]
                 PROVE  RoomInv'
    OBVIOUS
  <1>0. /\ pc = "disarmOld" /\ pc \in Mid /\ journal' = Mark("installs", r) /\ disarm_policy(cur.flow)
        /\ UNCHANGED <<before, mode, prefixes, target, degraded, clean>> /\ InTx
    BY <1>a DEF DisarmOld, Goto, control, drive, Mid, Installing, InTx
  <1>1. cur.flow \in Flows /\ r \in InstallRecords /\ r.key = cur.flow
    BY <1>a, <1>0, InstallFacts DEF Installing, InstallRecords
  <1>2. \A m \in Tables, f \in Flows : Has(m, f)' => Has(m, f)
    BY <1>0, <1>1, DisarmShrinks
  <1>3. \A m \in Tables : Cardinality(Entries(m)') <= CapOf(m)
    BY <1>2, EntriesShrink
  <1> QED  BY <1>0, <1>1, <1>2, <1>3, MarkedInstalls, RoomKept

LEMMA WriteStateRoom ==
    ASSUME IInv, TxInv, RoomInv, WriteState  PROVE RoomInv'
  <1>a. SUFFICES ASSUME NEW l, l = Installing, NEW a, a = AlgoOf[cur.policy],
                        NEW r, r = [l EXCEPT !.new_algorithm = a], NEW k, k = cur.flow
                 PROVE  RoomInv'
    OBVIOUS
  <1>0. /\ pc = "writeState" /\ pc \in Mid /\ journal' = Mark("installs", r)
        /\ StateRoom(k, a) /\ SetArtifact(k, a, "fresh")
        /\ UNCHANGED <<before, mode, prefixes, target, degraded, clean>> /\ InTx
    BY <1>a DEF WriteState, write_fresh_state, Goto, control, drive, Mid, Installing, InTx
  <1>1. k \in Flows /\ r \in InstallRecords /\ r.key = cur.flow
    BY <1>a, <1>0, InstallFacts, PolicyAssumption DEF Installing, InstallRecords
  <1>2. \A m \in Tables, f \in Flows : Has(m, f)' => Has(m, f) \/ (m = Store(a) /\ f = k)
    BY <1>0, <1>1, WriteGrows
  <1>3. \A m \in Tables : Cardinality(Entries(m)') <= CapOf(m)
    BY <1>0, <1>1, <1>2, RoomMeans, TableFacts, EntriesGrow
  <1> QED  BY <1>a, <1>0, <1>1, <1>2, <1>3, MarkedInstalls, RoomKept

LEMMA ArmRoom ==
    ASSUME IInv, TxInv, RoomInv, Arm  PROVE RoomInv'
  <1>a. SUFFICES ASSUME NEW l, l = Installing, NEW r, r = [l EXCEPT !.armed = TRUE], NEW k, k = cur.flow
                 PROVE  RoomInv'
    OBVIOUS
  <1>0. /\ pc = "arm" /\ pc \in Mid /\ journal' = Mark("installs", r)
        /\ PolicyRoom(k) /\ arm_policy(k, cur.policy)
        /\ UNCHANGED <<before, mode, prefixes, target, degraded, clean>> /\ InTx
    BY <1>a DEF Arm, Goto, control, drive, Mid, Installing, InTx
  <1>1. k \in Flows /\ r \in InstallRecords /\ r.key = cur.flow
    BY <1>a, <1>0, InstallFacts DEF Installing, InstallRecords
  <1>2. \A m \in Tables, f \in Flows : Has(m, f)' => Has(m, f) \/ (m = "LIMIT_POLICIES" /\ f = k)
    BY <1>0, <1>1, ArmGrows
  <1>3. \A m \in Tables : Cardinality(Entries(m)') <= CapOf(m)
    BY <1>0, <1>1, <1>2, RoomMeans, TableFacts, EntriesGrow
  <1> QED  BY <1>a, <1>0, <1>1, <1>2, <1>3, MarkedInstalls, RoomKept

LEMMA PacketRoom ==
    ASSUME IInv, PacketTypeOK, TxInv, RoomInv, DataPath  PROVE RoomInv'
  <1>1. /\ UNCHANGED <<before, mode, prefixes, target, degraded, clean, journal, limit_policies, pc>>
        /\ \A s \in Stores, g \in Flows : artifacts'[s][g] # "absent" => artifacts[s][g] # "absent"
    BY DataPathFacts DEF control, drive, tx
  <1>2. \A m \in Tables, g \in Flows : Has(m, g)' => Has(m, g)
    BY <1>1 DEF Has, Tables
  <1>3. InTx' => InTx
    BY <1>1 DEF InTx
  <1> QED  BY <1>1, <1>2, <1>3, RoomQuiet

LEMMA StutterRoom ==
    ASSUME IInv, TxInv, RoomInv, UNCHANGED vars  PROVE RoomInv'
  <1>1. UNCHANGED <<before, mode, prefixes, target, degraded, clean, journal, limit_policies, artifacts, pc>>
    BY DEF vars, maps, control, drive, tx
  <1>2. InTx' => InTx
    BY <1>1 DEF InTx
  <1> QED  BY <1>1, <1>2, SameEntries, RoomQuiet

-----------------------------------------------------------------------------
(* Room is kept: the steps of a rollback *)

\* A record of an install that is played back is the last one of its list.
LEMMA LastInstall ==
    ASSUME IInv, TxInv, pc \in RecordUndo, UndoList = "installs"
    PROVE  /\ Len(journal.installs) \in Nat \ {0}
           /\ journal.installs[Len(journal.installs)].key = Undoing.key
           /\ \A i \in 1..Len(journal.installs) : InstalledFrom(i, Undoing.key)
           /\ \A f : InstalledFrom(Len(journal.installs), f) => f = Undoing.key
  <1>1. journal.installs # <<>> /\ Undoing = Last(journal.installs) /\ journal.installs \in Seq(InstallRecords)
    BY UndoingFacts, JournalTypes
  <1>2. /\ Len(journal.installs) \in Nat /\ Len(journal.installs) > 0
        /\ Last(journal.installs) = journal.installs[Len(journal.installs)]
    BY <1>1, FrontLast
  <1>3. Len(journal.installs) \in Nat \ {0} /\ journal.installs[Len(journal.installs)].key = Undoing.key
    BY <1>1, <1>2
  <1> QED  BY <1>3 DEF InstalledFrom

\* While a removal is played back no install is left.
LEMMA NoInstall ==
    ASSUME IInv, TxInv, pc \in RecordUndo, UndoList = "removes"
    PROVE  journal.installs = <<>> /\ Installs = {} /\ Len(journal.installs) = 0
  <1>1. journal.installs = <<>>
    BY UndoingFacts
  <1> QED  BY <1>1 DEF Installs, Range

\* A flow whose record has been played back has no entry that it did not have before.
LEMMA Restored ==
    ASSUME IInv, TxInv, pc \in RecordUndo, journal' = Drop(UndoList), pc' = "undo", before' = before,
           TxInv', OrphanInv', clean', ~degraded', NEW k, k = Undoing.key
    PROVE  k \in Flows /\ \A m \in Tables : Has(m, k)' => Had(m, k)
  <1>1. k \in Flows /\ InTx' /\ pc' \in UndoLabels
    BY UndoingFacts DEF InTx, UndoLabels
  <1>2. \A r \in Installs' \cup Removes' : r.key # k
    BY DroppedRecords
  <1>3. limit_policies'[k] = before.limit_policies[k]
    BY <1>1, <1>2 DEF TxInv, UntouchedInv, Keyed
  <1>4. Tidy(k)'
    BY <1>1 DEF OrphanInv
  <1>5. ASSUME NEW s, Owned(k, s)'
        PROVE  limit_policies'[k] # None /\ s = Store(AlgoOf[limit_policies'[k]])
    BY <1>1, <1>2, <1>5 DEF Owned, Clearable, Returns
  <1>6. \A s \in Stores : artifacts'[s][k] # "absent" =>
            before.limit_policies[k] # None /\ s = Store(AlgoOf[before.limit_policies[k]])
    BY <1>3, <1>4, <1>5 DEF Tidy
  <1> QED  BY <1>1, <1>3, <1>6, TableFacts DEF Has, Had

\* A record is played back: one install less is left to be undone.
LEMMA DroppedRoom ==
    ASSUME IInv, TxInv, RoomInv, pc \in RecordUndo, journal' = Drop(UndoList), pc' = "undo", TxInv', OrphanInv',
           UNCHANGED <<before, mode, prefixes, target, degraded, clean>>, NEW k, k = Undoing.key,
           \A m \in Tables : Cardinality(Entries(m)') <= CapOf(m),
           \A m \in Tables, f \in Flows : f # k => (Has(m, f)' => Has(m, f))
    PROVE  RoomInv'
  <1>a. SUFFICES ASSUME NEW s, s = journal.installs, NEW n, n = Len(s)  PROVE RoomInv'
    OBVIOUS
  <1>0. InTx
    BY UndoingFacts
  <1>1. \A m, f : Had(m, f)' = Had(m, f)
    BY DEF Had
  <1>2. \A m \in Tables : Cardinality(EntriesBefore(m)') <= CapOf(m)
    <2>1. \A m : EntriesBefore(m)' = EntriesBefore(m)
      BY <1>1 DEF EntriesBefore
    <2> QED  BY <1>0, <2>1 DEF RoomInv
  <1>3. ASSUME clean', ~degraded', NEW m \in Tables, NEW i \in 1..Len(journal'.installs)
        PROVE  Cardinality(EntriesUndone(i, m)') <= CapOf(m)
    <2>1. UndoList = "installs"
      <3>1. CASE UndoList = "removes"
        <4>1. journal'.installs = journal.installs
          BY <3>1, JournalTypes, OtherLists
        <4> QED  BY <1>3, <3>1, <4>1, NoInstall
      <3> QED  BY <3>1, UndoingFacts
    <2>2. s \in Seq(InstallRecords) /\ s # <<>> /\ n \in Nat \ {0} /\ s[n].key = k
      BY <1>a, <2>1, LastInstall, UndoingFacts, JournalTypes
    <2>3. Len(journal'.installs) = n - 1 /\ \A j \in 1..n - 1 : journal'.installs[j] = s[j]
      <3>1. journal'.installs = Front(s)
        BY <1>a, <2>1, JournalTypes, OtherLists
      <3>2. /\ Len(Front(s)) = Len(s) - 1
            /\ \A j \in 1..Len(s) - 1 : Front(s)[j] = s[j]
        BY <2>2, FrontLast
      <3> QED  BY <1>a, <3>1, <3>2
    <2>4. i \in 1..n
      BY <1>3, <2>2, <2>3
    <2>5. \A f : f # k => (InstalledFrom(i, f)' <=> InstalledFrom(i, f))
      <3>1. \A f : InstalledFrom(i, f)' <=> \E j \in i..n - 1 : s[j].key = f
        BY <2>2, <2>3, <2>4 DEF InstalledFrom
      <3>2. \A f : InstalledFrom(i, f) <=> \E j \in i..n : s[j].key = f
        BY <1>a DEF InstalledFrom
      <3>3. \A j \in i..n : j = n \/ j \in i..n - 1
        BY <2>2, <2>4
      <3>4. \A j \in i..n - 1 : j \in i..n
        BY <2>2, <2>4
      <3> QED  BY <2>2, <3>1, <3>2, <3>3, <3>4
    <2>6. InstalledFrom(i, k)
      BY <1>a, <2>1, <2>4, LastInstall
    <2>7. k \in Flows /\ (Has(m, k)' => Had(m, k))
      BY <1>3, Restored
    <2>8. ASSUME NEW f \in EntriesUndone(i, m)'  PROVE f \in EntriesUndone(i, m)
      <3>1. CASE f = k
        BY <1>1, <2>6, <2>7, <2>8, <3>1 DEF EntriesUndone
      <3>2. CASE f # k
        BY <1>1, <2>5, <2>8, <3>2 DEF EntriesUndone
      <3> QED  BY <3>1, <3>2
    <2>9. EntriesUndone(i, m)' \in SUBSET EntriesUndone(i, m) /\ EntriesUndone(i, m) \in SUBSET Flows
      BY <2>8 DEF EntriesUndone
    <2>10. Cardinality(EntriesUndone(i, m)) <= CapOf(m)
      BY <1>a, <1>0, <1>3, <2>4 DEF RoomInv
    <2> QED  BY <2>9, <2>10, CapType, Tighter
  <1> QED  BY <1>2, <1>3 DEF RoomInv

LEMMA UndoNextRoom ==
    ASSUME IInv, TxInv, RoomInv, UndoNext  PROVE RoomInv'
  <1>1. /\ UNCHANGED <<before, mode, prefixes, target, degraded, clean, journal, limit_policies, artifacts>> /\ InTx
    BY DEF UndoNext, UndoGoto, control, drive, tx, maps, InTx
  <1> QED  BY <1>1, SameEntries, RoomQuiet

LEMMA UndoTakeBackRoom ==
    ASSUME IInv, TxInv, RoomInv, UndoDisarm \/ UndoClear  PROVE RoomInv'
  <1>1. /\ UNCHANGED <<before, mode, prefixes, target, degraded, clean, journal>> /\ InTx
        /\ pc \in RecordUndo
    BY DEF UndoDisarm, UndoClear, UndoGoto, control, drive, tx, InTx, RecordUndo
  <1>2. Undoing.key \in Flows
    BY <1>1, UndoingFacts
  <1>3. \A m \in Tables, f \in Flows : Has(m, f)' => Has(m, f)
    BY <1>2, DisarmShrinks, WriteGrows DEF UndoDisarm, UndoClear, clear_state
  <1> QED  BY <1>1, <1>3, RoomQuiet

LEMMA UndoRestoreRoom ==
    ASSUME IInv, TxInv, RoomInv, TxInv', OrphanInv', UndoRestore  PROVE RoomInv'
  <1>a. SUFFICES ASSUME NEW k, k = Undoing.key, NEW a, a = AlgoOf[Undoing.old]  PROVE RoomInv'
    OBVIOUS
  <1>0. /\ pc = "undoRestore" /\ pc \in RecordUndo /\ InTx /\ k \in Flows
        /\ UNCHANGED <<before, mode, prefixes, target, degraded, clean>>
    BY <1>a, UndoingFacts DEF UndoRestore, Played, UndoGoto, control, drive, tx, RecordUndo
  <1>1. CASE Played /\ UNCHANGED maps
    <2>1. journal' = Drop(UndoList) /\ pc' = "undo" /\ UNCHANGED <<limit_policies, artifacts>>
      BY <1>1 DEF Played, UndoGoto, maps
    <2>2. \A m \in Tables : Cardinality(Entries(m)') <= CapOf(m)
      BY <2>1, SameEntries, EntriesShrink
    <2> QED  BY <1>a, <1>0, <2>1, <2>2, SameEntries, DroppedRoom
  <1>2. CASE StateRoom(k, a) /\ write_fresh_state(k, a) /\ UNCHANGED tx
    <2>1. journal' = journal /\ SetArtifact(k, a, "fresh")
      BY <1>2 DEF tx, write_fresh_state
    <2>2. \A m \in Tables, f \in Flows : Has(m, f)' => Has(m, f) \/ (m = Store(a) /\ f = k)
      BY <1>0, <2>1, WriteGrows
    <2>3. \A m \in Tables : Cardinality(Entries(m)') <= CapOf(m)
      BY <1>0, <1>2, <2>2, RoomMeans, TableFacts, EntriesGrow
    <2>4. Len(journal.installs) = 0 \/ k = journal.installs[Len(journal.installs)].key
      BY <1>a, <1>0, LastInstall, NoInstall, UndoingFacts
    <2>5. Len(journal.installs) \in Nat
      BY JournalTypes, LenProperties
    <2> QED  BY <1>0, <2>1, <2>2, <2>3, <2>4, <2>5, RoomKept
  <1> QED  BY <1>a, <1>1, <1>2 DEF UndoRestore

LEMMA UndoArmRoom ==
    ASSUME IInv, TxInv, RoomInv, TxInv', OrphanInv', UndoArm  PROVE RoomInv'
  <1>a. SUFFICES ASSUME NEW k, k = Undoing.key, NEW old, old = Undoing.old  PROVE RoomInv'
    OBVIOUS
  <1>0. /\ pc = "undoArm" /\ pc \in RecordUndo /\ journal' = Drop(UndoList) /\ pc' = "undo"
        /\ PolicyRoom(k) /\ arm_policy(k, old)
        /\ UNCHANGED <<before, mode, prefixes, target, degraded, clean>>
    BY <1>a DEF UndoArm, Played, UndoGoto, control, drive, RecordUndo
  <1>1. k \in Flows
    BY <1>a, <1>0, UndoingFacts
  <1>2. \A m \in Tables, f \in Flows : Has(m, f)' => Has(m, f) \/ (m = "LIMIT_POLICIES" /\ f = k)
    BY <1>0, <1>1, ArmGrows
  <1>3. \A m \in Tables : Cardinality(Entries(m)') <= CapOf(m)
    BY <1>0, <1>1, <1>2, RoomMeans, TableFacts, EntriesGrow
  <1> QED  BY <1>a, <1>0, <1>2, <1>3, DroppedRoom

LEMMA UndoWhitelistRoom ==
    ASSUME IInv, TxInv, RoomInv, UndoWhitelist  PROVE RoomInv'
  <1>1. /\ pc \in {"undoReadd", "undoUnadd"} /\ journal' = Drop(UndoList) /\ InTx
        /\ UNCHANGED <<before, mode, prefixes, target, degraded, clean, limit_policies, artifacts>>
    BY DEF UndoWhitelist, Played, UndoGoto, wl_insert, wl_remove, SetTrie, control, drive, InTx
  <1>2. journal'.installs = journal.installs
    BY <1>1, UndoingPrefix
  <1> QED  BY <1>1, <1>2, SameEntries, RoomQuiet

LEMMA UndoFailRoom ==
    ASSUME IInv, TxInv, RoomInv, UndoFail  PROVE RoomInv'
  <1>1. /\ clean' = FALSE /\ InTx
        /\ UNCHANGED <<before, mode, prefixes, target, degraded, limit_policies, artifacts>>
    BY DEF UndoFail, NoRoomToRestore, UndoOpPending, UndoGoto, control, drive, maps, InTx
  <1> QED  BY <1>1, SameEntries, RoomQuiet

LEMMA UndoDoneRoom ==
    ASSUME IInv, TxInv, RoomInv, UndoDone  PROVE RoomInv'
  <1>1. ~InTx' /\ mode' = "tick" /\ UNCHANGED <<limit_policies, artifacts>>
    BY DEF UndoDone, LastRollback, EndTx, drive, maps, InTx, IInv, EngineTypeOK
  <1> QED  BY <1>1, OutsideRoom

LEMMA InitRoom ==
    ASSUME Init  PROVE RoomInv
  <1>1. \A m \in Tables : Entries(m) = {}
    <2>1. \A m \in Tables, f \in Flows : ~Has(m, f)
      BY TableFacts DEF Init, AllNormal, Has
    <2> QED  BY <2>1 DEF Entries
  <1>2. \A m \in Tables : Cardinality(Entries(m)) <= CapOf(m)
    BY <1>1, CapType, FS_EmptySet
  <1> QED  BY <1>2 DEF Init, RoomInv, InTx

LEMMA NextRoom ==
    ASSUME IInv, PacketTypeOK, TxInv, RoomInv, TxInv', OrphanInv', [Next]_vars  PROVE RoomInv'
  <1>1. CASE Forward
    BY <1>1, WhitelistRoom, StartActionRoom, ActionsDoneRoom, InstallLookupRoom, DisarmOldRoom, WriteStateRoom,
       ArmRoom, ShrinkingRoom, CommitRoom DEF Forward
  <1>2. CASE Undo
    BY <1>2, UndoNextRoom, UndoTakeBackRoom, UndoRestoreRoom, UndoArmRoom, UndoWhitelistRoom, UndoFailRoom,
       UndoDoneRoom DEF Undo
  <1>3. CASE \E next \in Phases : BeginTick(next)
    BY <1>3, BeginTickRoom
  <1>4. CASE \E next \in Phases, P \in PrefixSets : BeginReload(next, P)
    BY <1>4, BeginReloadRoom
  <1>5. CASE DataPath
    BY <1>5, PacketRoom
  <1>6. CASE UNCHANGED vars
    BY <1>6, StutterRoom
  <1> QED  BY <1>1, <1>2, <1>3, <1>4, <1>5, <1>6 DEF Next, Engine

-----------------------------------------------------------------------------
(* A rollback that nothing disturbs never fails *)

\* In the map that lost an entry of the flow being restored there is room for it.
LEMMA RestoreRoom ==
    ASSUME IInv, TxInv, OrphanInv, RoomInv, pc \in RecordUndo, clean, ~degraded, NEW k, k = Undoing.key,
           NEW m \in Tables, Had(m, k), ~Has(m, k)
    PROVE  Cardinality(Entries(m)) < CapOf(m)
  <1>0. k \in Flows /\ InTx /\ pc \in UndoLabels
    BY UndoingFacts
  <1>1. CASE UndoList = "installs"
    <2>a. SUFFICES ASSUME NEW n, n = Len(journal.installs)  PROVE Cardinality(Entries(m)) < CapOf(m)
      OBVIOUS
    <2>1. n \in Nat \ {0} /\ InstalledFrom(n, k) /\ \A f : InstalledFrom(n, f) => f = k
      BY <1>1, <2>a, LastInstall
    <2>2. k \in EntriesUndone(n, m) /\ k \notin Entries(m)
      BY <1>0, <2>1 DEF EntriesUndone, Entries
    <2>3. Entries(m) \in SUBSET EntriesUndone(n, m) /\ EntriesUndone(n, m) \in SUBSET Flows
      BY <2>1 DEF EntriesUndone, Entries
    <2>4. Cardinality(EntriesUndone(n, m)) <= CapOf(m)
      BY <1>0, <2>a, <2>1 DEF RoomInv
    <2> QED  BY <2>2, <2>3, <2>4, CapType, Tighter
  <1>2. CASE UndoList = "removes"
    <2>1. Installs = {}
      BY <1>2, NoInstall
    <2>2. \A r \in Removes : r.old = before.limit_policies[r.key] /\ limit_policies[r.key] \in {None, r.old}
      BY <1>0 DEF TxInv, RecordInv, RecordOf, RemoveOK
    <2>3. \A f \in Flows : limit_policies[f] \in {None, before.limit_policies[f]}
      BY <1>0, <2>1, <2>2 DEF TxInv, UntouchedInv, Keyed
    <2>4. \A f, p : Returns(f, p) => p = before.limit_policies[f]
      BY <2>1, <2>2 DEF Returns
    <2>5. ASSUME NEW f \in Flows, Has(m, f)  PROVE Had(m, f)
      <3>1. CASE m = "LIMIT_POLICIES"
        BY <2>3, <2>5, <3>1 DEF Has, Had
      <3>2. CASE m \in Stores
        <4>1. Owned(f, m)
          BY <1>0, <2>5, <3>2, TableFacts DEF Has, OrphanInv, Tidy
        <4>2. ~Clearable(f, m)
          BY <2>1 DEF Clearable
        <4>3. CASE limit_policies[f] # None /\ m = Store(AlgoOf[limit_policies[f]])
          BY <2>3, <4>3 DEF Had
        <4>4. CASE \E p \in Policies : Returns(f, p) /\ m = Store(AlgoOf[p])
          BY <2>4, <4>4, PolicyAssumption DEF Had
        <4> QED  BY <1>0, <4>1, <4>2, <4>3, <4>4 DEF Owned
      <3> QED  BY <3>1, <3>2, TableFacts
    <2>6. Entries(m) \in SUBSET EntriesBefore(m) /\ EntriesBefore(m) \in SUBSET Flows
      BY <2>5 DEF Entries, EntriesBefore
    <2>7. k \in EntriesBefore(m) /\ k \notin Entries(m)
      BY <1>0 DEF Entries, EntriesBefore
    <2> QED  BY <1>0, <2>6, <2>7, CapType, Tighter DEF RoomInv
  <1> QED  BY <1>1, <1>2, UndoingFacts

\* The trie holds the old and the new prefixes together.
LEMMA PrefixRoom ==
    ASSUME IInv, TxInv, AgreeInv, RoomInv, pc = "undoReadd", clean, ~degraded
    PROVE  TrieRoom(Undoing)
  <1>a. SUFFICES ASSUME NEW c, c = Undoing, c \notin monitored  PROVE Cardinality(monitored) < WhitelistCap
    BY DEF TrieRoom
  <1>1. journal.installs = <<>> /\ journal.removes = <<>> /\ journal.wl_removed # <<>> /\ InTx
    BY DEF IInv, UndoInv, InTx
  <1>2. mode = "reload"
    BY <1>1 DEF TxInv, TrieInv, IInv, EngineTypeOK
  <1>3. c \in prefixes
    <2>1. c = Last(journal.wl_removed) /\ journal.wl_removed \in Seq(Cidrs)
      BY <1>a, <1>1, UndoListCases, JournalTypes
    <2>2. c \in Range(journal.wl_removed)
      BY <1>1, <2>1, LastRecord
    <2> QED  BY <1>2, <2>2 DEF TxInv, TrieInv
  <1>4. before.monitored = prefixes
    BY <1>1 DEF AgreeInv, AbsMonitored
  <1>5. monitored \subseteq prefixes \cup target.prefixes
    BY <1>2, <1>4 DEF TxInv, TrieInv
  <1>6. IsFiniteSet(prefixes \cup target.prefixes)
    <2>1. prefixes \cup target.prefixes \in SUBSET Cidrs
      BY JournalTypes
    <2> QED  BY <2>1, BoundAssumption, FS_Subset
  <1>7. /\ Cardinality(monitored) <= Cardinality(prefixes \cup target.prefixes)
        /\ Cardinality(monitored) # Cardinality(prefixes \cup target.prefixes)
        /\ Cardinality(monitored) \in Nat /\ Cardinality(prefixes \cup target.prefixes) \in Nat
    <2>1. monitored \in SUBSET (prefixes \cup target.prefixes) /\ monitored # prefixes \cup target.prefixes
      BY <1>a, <1>3, <1>5
    <2> QED  BY <1>6, <2>1, FS_Subset, FS_CardinalityType
  <1>8. Cardinality(prefixes \cup target.prefixes) <= WhitelistCap
    BY <1>2 DEF RoomInv
  <1> QED  BY <1>7, <1>8, BoundAssumption

LEMMA NeverFull ==
    ASSUME IInv, TxInv, AgreeInv, OrphanInv, RoomInv, clean, ~degraded
    PROVE  ~NoRoomToRestore
  <1>1. CASE pc = "undoRestore" /\ MustRestore(Undoing)
    <2>a. SUFFICES ASSUME NEW k, k = Undoing.key, NEW old, old = Undoing.old, NEW s, s = Store(AlgoOf[old])
                   PROVE  StateRoom(k, AlgoOf[old])
      BY <1>1 DEF NoRoomToRestore
    <2>1. pc \in RecordUndo /\ old = before.limit_policies[k] /\ old \in Policies
      BY <1>1, <2>a, UndoingFacts, UndoFacts DEF RecordUndo, RecordOf
    <2>2. Had(s, k) /\ s \in Tables
      BY <2>a, <2>1, PolicyAssumption, TableFacts DEF Had
    <2>3. Has(s, k) \/ Cardinality(Entries(s)) < CapOf(s)
      BY <2>a, <2>1, <2>2, RestoreRoom
    <2> QED  BY <2>a, <2>3, RoomMeans
  <1>2. CASE pc = "undoArm"
    <2>a. SUFFICES ASSUME NEW k, k = Undoing.key  PROVE PolicyRoom(k)
      BY <1>2 DEF NoRoomToRestore
    <2>1. pc \in RecordUndo /\ Undoing.old = before.limit_policies[k] /\ Undoing.old \in Policies
      BY <1>2, <2>a, UndoingFacts, UndoFacts DEF RecordUndo, RecordOf, IInv, UndoInv
    <2>2. Had("LIMIT_POLICIES", k) /\ "LIMIT_POLICIES" \in Tables
      BY <2>1, PolicyAssumption, TableFacts DEF Had
    <2>3. Has("LIMIT_POLICIES", k) \/ Cardinality(Entries("LIMIT_POLICIES")) < CapOf("LIMIT_POLICIES")
      BY <2>a, <2>1, <2>2, RestoreRoom
    <2> QED  BY <2>3, RoomMeans
  <1>3. CASE pc = "undoReadd"
    BY <1>3, PrefixRoom DEF NoRoomToRestore
  <1> QED  BY <1>1, <1>2, <1>3 DEF NoRoomToRestore

\* No other step makes a rollback fail, and none forgets that a map error did.
LEMMA NextFits ==
    ASSUME IInv, PacketTypeOK, TxInv, AgreeInv, OrphanInv, RoomInv, RollbackNeedsNoRoom, [Next]_vars
    PROVE  RollbackNeedsNoRoom'
  <1>1. CASE UndoFail
    <2>1. clean /\ ~degraded => undoFaults' = undoFaults + 1
      BY <1>1, NeverFull DEF UndoFail
    <2>2. degraded' = degraded /\ undoFaults \in Nat /\ undoFaults' \in {undoFaults, undoFaults + 1}
      BY <1>1 DEF UndoFail, UndoGoto, control, IInv, EngineTypeOK
    <2> QED  BY <2>1, <2>2 DEF RollbackNeedsNoRoom
  <1>2. ASSUME clean' \/ (clean' = clean /\ undoFaults' = undoFaults /\ (degraded => degraded'))
        PROVE  RollbackNeedsNoRoom'
    BY <1>2 DEF RollbackNeedsNoRoom
  <1>3. CASE Forward
    <2>1. CASE StartAction
      BY <1>2, <2>1 DEF StartAction, NewJournal, control
    <2>2. CASE ActionsDone \/ Commit
      BY <1>2, <2>2 DEF ActionsDone, Commit, EndTx, Goto, control
    <2>3. CASE Fail
      BY <1>2, <2>3 DEF Fail, control
    <2>4. CASE ~(StartAction \/ ActionsDone \/ Commit \/ Fail)
      BY <1>2, <1>3, <2>4 DEF Forward, WhitelistAdd, InstallLookup, DisarmOld, ClearOld, WriteState, Arm,
         RemoveLookup, Disarm, ClearState, ClearPolicer, WhitelistRemove, Goto, control
    <2> QED  BY <2>1, <2>2, <2>3, <2>4
  <1>4. CASE Undo /\ ~UndoFail
    <2>1. CASE UndoDone
      BY <1>2, <2>1 DEF UndoDone, EndTx, LastRollback, tx
    <2>2. CASE UndoNext \/ UndoDisarm \/ UndoClear
      BY <1>2, <2>2 DEF UndoNext, UndoDisarm, UndoClear, UndoGoto, tx, control
    <2>3. CASE UndoRestore
      BY <1>2, <2>3 DEF UndoRestore, Played, UndoGoto, tx, control
    <2>4. CASE UndoArm \/ UndoWhitelist
      BY <1>2, <2>4 DEF UndoArm, UndoWhitelist, Played, UndoGoto, control
    <2> QED  BY <1>4, <2>1, <2>2, <2>3, <2>4 DEF Undo
  <1>5. CASE \E next \in Phases : BeginTick(next)
    BY <1>2, <1>5 DEF BeginTick, tx
  <1>6. CASE \E next \in Phases, P \in PrefixSets : BeginReload(next, P)
    BY <1>2, <1>6 DEF BeginReload, NewJournal
  <1>7. CASE DataPath \/ UNCHANGED vars
    <2>1. UNCHANGED <<clean, undoFaults, degraded>>
      BY <1>7, DataPathFacts DEF vars, tx, control
    <2> QED  BY <1>2, <2>1
  <1> QED  BY <1>1, <1>3, <1>4, <1>5, <1>6, <1>7 DEF Next, Engine

\* What the rollback of a transaction rests on.
THEOREM EntriesAccounted == Spec => [](OrphanInv /\ RoomInv)
  <1>1. Init => OrphanInv /\ RoomInv
    BY InitOrphan, InitRoom
  <1>2. /\ IInv /\ PacketTypeOK /\ TxInv /\ AgreeInv /\ OrphanInv /\ RoomInv /\ [Next]_vars /\ TxInv'
        => (OrphanInv /\ RoomInv)'
    BY NextOrphan, NextRoom
  <1> QED  BY <1>1, <1>2, Meaning, Inductive, PTL DEF Spec

\* rollback_journal, which plays the records back in reverse order, finds room in
\* LIMIT_POLICIES, LIMIT_STATE, SWL_LOG and MONITORED_IPS for all it restores,
\* however full they are: only a map error, or the leftovers of an earlier failed
\* rollback, can make it fail.
THEOREM RollbackFits == Spec => []RollbackNeedsNoRoom
  <1>1. Init => RollbackNeedsNoRoom
    BY DEF Init, RollbackNeedsNoRoom
  <1>2. /\ IInv /\ PacketTypeOK /\ TxInv /\ AgreeInv /\ OrphanInv /\ RoomInv /\ RollbackNeedsNoRoom
        /\ [Next]_vars
        => RollbackNeedsNoRoom'
    BY NextFits
  <1> QED  BY <1>1, <1>2, Meaning, Inductive, EntriesAccounted, PTL DEF Spec

=============================================================================
