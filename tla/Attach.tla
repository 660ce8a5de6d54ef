------------------------------- MODULE Attach -------------------------------
(***************************************************************************)
(* The attachment of the two classifiers to the TAPs of the bridge         *)
(* (tc.rs): every scan discovers the TAPs, detaches what is gone, attaches *)
(* what is new, and backs off from a TAP whose attach failed.  TAPs come   *)
(* and go between any two system calls of a scan; the calls name a TAP,    *)
(* not an ifindex.                                                         *)
(*                                                                         *)
(* Abstractions.  An interface is its ifindex, which the kernel does not   *)
(* give out twice.  A link is known by the interface it was attached to    *)
(* and disappears with it.  The discovery reads all of sysfs in one step.  *)
(* Instead of the instant retry_at a backoff carries the time left to it.  *)
(***************************************************************************)
EXTENDS Naturals, FiniteSets

CONSTANTS
    Names,          \* TAP names
    MaxIfindex,     \* bound: interfaces ever created
    Kernels,        \* subset of {"tcx", "legacy"}: kernel >= 6.6 or older
    None,
    BaseDelay,      \* the first retry delay
    MaxShift,       \* the delay doubles at most that often
    MaxDelay,       \* MAX_RETRY_BACKOFF_SECS
    ScanGaps,       \* seconds between two scans
    MaxFaults       \* bound: system calls that fail for reasons of their own

ASSUME AttachAssumption ==
    /\ {MaxIfindex, BaseDelay, MaxShift, MaxDelay, MaxFaults} \subseteq Nat
    /\ ScanGaps \subseteq Nat \ {0}
    /\ Kernels \subseteq {"tcx", "legacy"}
    /\ None \notin Nat /\ None \notin [ifindex : Nat, ingress : Nat, egress : Nat]

Ifindexes == 1..MaxIfindex
Hooks == {"ingress", "egress"}

VARIABLES
    kernel,         \* how this kernel attaches
    ifs,            \* the interface of a TAP on the bridge, or None
    created,        \* interfaces created so far
    qdisc,          \* what owns an interface's ffff: slot
    links,          \* how many links an interface has of the program named by a hook
    attached,       \* AttachManager.attached: an AttachedTap, or None
    backoff,        \* AttachManager.retry_backoff: a Backoff, or None
    pc,             \* where the scan is
    found,          \* what the scan discovered
    to_detach,      \* names the scan has yet to detach
    to_add,         \* names the scan has yet to look at
    tap,            \* the TAP being attached: name, discovered ifindex
    origin,         \* QdiscOrigin of the attach under way
    ingress,        \* the interface its ingress link is on
    faults,
    leaked,         \* auxiliary: a detach has failed and left its link
    failed          \* auxiliary: interfaces on which an attach failed

net == <<kernel, ifs, created, qdisc>>
scan == <<found, to_detach, to_add, tap, origin, ingress>>
aux == <<leaked, failed>>
vars == <<net, links, attached, backoff, pc, scan, faults, aux>>

Fault == faults < MaxFaults /\ faults' = faults + 1

\* The ingress qdisc of another tool, which puts every filter on its one ingress block.
OneBlock(i) == kernel = "legacy" /\ qdisc[i] = "ingress"

\* How many of our programs see the packets of a hook.
Running(h, i) ==
    IF ~OneBlock(i) THEN links[h][i]
    ELSE IF h = "ingress" THEN links["ingress"][i] + links["egress"][i]
    ELSE 0

-----------------------------------------------------------------------------
(* The bridge *)

\* A TAP appears; on an older kernel another tool may have given it a qdisc.
Create(n) ==
    /\ ifs[n] = None
    /\ created < MaxIfindex
    /\ created' = created + 1
    /\ ifs' = [ifs EXCEPT ![n] = created + 1]
    /\ \E q \in {"none", "clsact", "ingress"} :
         /\ kernel = "tcx" => q = "none"
         /\ qdisc' = [qdisc EXCEPT ![created + 1] = q]
    /\ UNCHANGED <<kernel, links, attached, backoff, pc, scan, faults, aux>>

\* A TAP vanishes, its qdisc and the programs on it too.
Destroy(n) ==
    /\ ifs[n] # None
    /\ ifs' = [ifs EXCEPT ![n] = None]
    /\ qdisc' = [qdisc EXCEPT ![ifs[n]] = "none"]
    /\ links' = [h \in Hooks |-> [links[h] EXCEPT ![ifs[n]] = 0]]
    /\ UNCHANGED <<kernel, created, attached, backoff, pc, scan, faults, aux>>

-----------------------------------------------------------------------------
(* Backoff *)

\* Variant: a TAP is its name.
SameName(b, i) == TRUE

\* The failures were seen on this very interface.
SameInterface(b, i) == b.ifindex = i

should_attempt(b, i) == b = None \/ ~SameInterface(b, i) \/ b.wait = 0

Delay(failures) ==
    LET shift == IF failures - 1 > MaxShift THEN MaxShift ELSE failures - 1
        delay == BaseDelay * 2^shift
    IN  IF delay > MaxDelay THEN MaxDelay ELSE delay

\* Counted up to where the delay stops growing.
record_failure(b, i) ==
    LET past == IF b = None \/ ~SameInterface(b, i) THEN 0 ELSE b.failures
        n == IF past > MaxShift THEN past ELSE past + 1
    IN  [ifindex |-> i, failures |-> n, wait |-> Delay(n)]

prune_backoff(b, i) == IF b = None \/ i = None \/ ~SameInterface(b, i) THEN None ELSE b

Waited(b, gap) ==
    IF b = None THEN None ELSE [b EXCEPT !.wait = IF @ > gap THEN @ - gap ELSE 0]

-----------------------------------------------------------------------------
(* reconcile *)

NoTap == [name |-> None, ifindex |-> None]

\* Variant: a recreated TAP is taken for the attached one.
CurrentByName(n, f) == attached[n] # None /\ f[n] # None

\* The TAP is attached as it was found.
Current(n, f) == attached[n] # None /\ attached[n].ifindex = f[n]

\* discover_taps and reconcile_plan; a scan that cannot read the bridge does nothing.
Scan(gap) ==
    /\ pc = "idle"
    /\ found' = ifs
    /\ to_detach' = {n \in Names : attached[n] # None /\ ~Current(n, ifs)}
    /\ to_add' = {n \in Names : ifs[n] # None /\ ~Current(n, ifs)}
    /\ backoff' = [n \in Names |-> prune_backoff(Waited(backoff[n], gap), ifs[n])]
    /\ pc' = "detach"
    /\ UNCHANGED <<net, links, attached, tap, origin, ingress, faults, aux>>

\* The links of a hook without the one on interface i.
Less(h, i) == [links[h] EXCEPT ![i] = IF @ > 0 THEN @ - 1 ELSE 0]

\* AttachManager::detach: a program that cannot be taken off is only logged.
Detach(n) ==
    /\ pc \in {"detach", "drop"}
    /\ n \in to_detach
    /\ to_detach' = to_detach \ {n}
    /\ attached' = [attached EXCEPT ![n] = None]
    /\ backoff' = [backoff EXCEPT ![n] = None]
    /\ \E kept \in SUBSET Hooks :
         /\ faults' = faults + Cardinality(kept)
         /\ faults' <= MaxFaults
         /\ links' = [h \in Hooks |-> IF h \in kept THEN links[h] ELSE Less(h, attached[n][h])]
         /\ leaked' = (leaked \/ \E h \in kept : links[h][attached[n][h]] > 0)
    /\ UNCHANGED <<net, pc, found, to_add, tap, origin, ingress, failed>>

DetachesDone ==
    /\ pc \in {"detach", "drop"}
    /\ to_detach = {}
    /\ pc' = IF pc = "drop" THEN "stopped" ELSE "attach"
    /\ UNCHANGED <<net, links, attached, backoff, scan, faults, aux>>

NextTap(n) ==
    /\ pc = "attach"
    /\ n \in to_add
    /\ to_add' = to_add \ {n}
    /\ IF should_attempt(backoff[n], found[n])
       THEN /\ tap' = [name |-> n, ifindex |-> found[n]]
            /\ origin' = "NotRequired"
            /\ pc' = "ingress"
       ELSE UNCHANGED <<tap, origin, pc>>
    /\ UNCHANGED <<net, links, attached, backoff, found, to_detach, ingress, faults, aux>>

ScanDone ==
    /\ pc = "attach"
    /\ to_add = {}
    /\ pc' = "idle"
    /\ found' = [n \in Names |-> None]
    /\ UNCHANGED <<net, links, attached, backoff, to_detach, to_add, tap, origin, ingress,
                   faults, aux>>

-----------------------------------------------------------------------------
(* attach_flow *)

Dev == ifs[tap.name]

\* What the kernel answers to an attach that no fault disturbs, whichever the hook: an
\* ingress qdisc accepts the egress parent too.
Answer ==
    IF Dev = None THEN "Other"
    ELSE IF kernel = "tcx" \/ qdisc[Dev] # "none" THEN "Ok"
    ELSE "QdiscMissing"

Answers(a) ==
    \/ a = Answer /\ UNCHANGED faults
    \/ a # "Ok" /\ (kernel = "tcx" => a = "Other") /\ Fault

\* The attach is over: without success the TAP backs off.
Over ==
    /\ tap' = NoTap /\ origin' = "NotRequired" /\ ingress' = None
    /\ pc' = "attach"

GaveUp ==
    /\ backoff' = [backoff EXCEPT ![tap.name] = record_failure(@, tap.ifindex)]
    /\ failed' = failed \cup {tap.ifindex}
    /\ Over
    /\ UNCHANGED <<attached, found, to_detach, to_add, leaked>>

Onward(label) ==
    pc' = label /\ UNCHANGED <<attached, backoff, found, to_detach, to_add, tap, aux>>

\* The first attach and the one retry after clsact was ensured.
AttachIngress ==
    /\ pc \in {"ingress", "ingressAgain"}
    /\ \E a \in {"Ok", "QdiscMissing", "Other"} :
         /\ Answers(a)
         /\ \/ /\ a = "Ok"
               /\ links' = [links EXCEPT !["ingress"][Dev] = @ + 1]
               /\ ingress' = Dev
               /\ Onward("egress")
               /\ UNCHANGED origin
            \/ /\ a = "QdiscMissing" /\ pc = "ingress"
               /\ Onward("clsactIngress")
               /\ UNCHANGED <<links, origin, ingress>>
            \/ /\ a = "Other" \/ (a = "QdiscMissing" /\ pc = "ingressAgain")
               /\ GaveUp
               /\ UNCHANGED links
    /\ UNCHANGED net

\* ensure_clsact; an interface that is gone or a fault makes it fail.
EnsureClsact ==
    /\ pc \in {"clsactIngress", "clsactEgress"}
    /\ \/ /\ Dev # None
          /\ origin' = IF qdisc[Dev] = "none" THEN "CreatedByUs" ELSE "ReusedExisting"
          /\ qdisc' = [qdisc EXCEPT ![Dev] = IF @ = "none" THEN "clsact" ELSE @]
          /\ Onward(IF pc = "clsactIngress" THEN "ingressAgain" ELSE "egressAgain")
          /\ UNCHANGED <<faults, ingress>>
       \/ /\ \/ Dev = None /\ UNCHANGED faults
             \/ Dev # None /\ Fault
          /\ IF pc = "clsactIngress" THEN GaveUp
             ELSE Onward("rollback") /\ UNCHANGED <<origin, ingress>>
          /\ UNCHANGED qdisc
    /\ UNCHANGED <<kernel, ifs, created, links>>

\* Variant: the ifindex is read again when both programs are on.
RecordedLate == [ifindex |-> Dev, ingress |-> ingress, egress |-> Dev]

\* AttachedTap: the ifindex is the discovered one.
Recorded == [ifindex |-> tap.ifindex, ingress |-> ingress, egress |-> Dev]

AttachEgress ==
    /\ pc \in {"egress", "egressAgain"}
    /\ \E a \in {"Ok", "QdiscMissing", "Other"} :
         /\ Answers(a)
         /\ \/ /\ a = "Ok"
               /\ links' = [links EXCEPT !["egress"][Dev] = @ + 1]
               /\ attached' = [attached EXCEPT ![tap.name] = Recorded]
               /\ backoff' = [backoff EXCEPT ![tap.name] = None]
               /\ Over
               /\ UNCHANGED <<found, to_detach, to_add, aux>>
            \/ /\ a = "QdiscMissing" /\ pc = "egress" /\ origin = "NotRequired"
               /\ Onward("clsactEgress")
               /\ UNCHANGED <<links, origin, ingress>>
            \/ /\ a # "Ok" /\ ~(a = "QdiscMissing" /\ pc = "egress" /\ origin = "NotRequired")
               /\ Onward("rollback")
               /\ UNCHANGED <<links, origin, ingress>>
    /\ UNCHANGED net

\* Variant: the ingress program stays when egress cannot be attached.
RolledBackNot == links

\* The ingress link is taken off again.
RolledBack == [links EXCEPT !["ingress"] = Less("ingress", ingress)]

DetachIngress ==
    /\ pc = "rollback"
    /\ backoff' = [backoff EXCEPT ![tap.name] = record_failure(@, tap.ifindex)]
    /\ failed' = failed \cup {tap.ifindex}
    /\ Over
    /\ \/ links' = RolledBack /\ UNCHANGED <<faults, leaked>>
       \/ Fault /\ leaked' = TRUE /\ UNCHANGED links
    /\ UNCHANGED <<net, attached, found, to_detach, to_add>>

\* Drop for AttachManager, when the daemon shuts down.
Shutdown ==
    /\ pc = "idle"
    /\ pc' = "drop"
    /\ to_detach' = {n \in Names : attached[n] # None}
    /\ UNCHANGED <<net, links, attached, backoff, found, to_add, tap, origin, ingress,
                   faults, aux>>

-----------------------------------------------------------------------------
Init ==
    /\ kernel \in Kernels
    /\ ifs = [n \in Names |-> None] /\ created = 0
    /\ qdisc = [i \in Ifindexes |-> "none"]
    /\ links = [h \in Hooks |-> [i \in Ifindexes |-> 0]]
    /\ attached = [n \in Names |-> None]
    /\ backoff = [n \in Names |-> None]
    /\ pc = "idle"
    /\ found = [n \in Names |-> None] /\ to_detach = {} /\ to_add = {}
    /\ tap = NoTap /\ origin = "NotRequired" /\ ingress = None
    /\ faults = 0 /\ leaked = FALSE /\ failed = {}

Bridge == \E n \in Names : Create(n) \/ Destroy(n)

Scanning == \E gap \in ScanGaps : Scan(gap)

Reconcile ==
    \/ \E n \in Names : Detach(n) \/ NextTap(n)
    \/ DetachesDone \/ ScanDone
    \/ AttachIngress \/ EnsureClsact \/ AttachEgress \/ DetachIngress

Next == Bridge \/ Scanning \/ Reconcile \/ Shutdown

Spec == Init /\ [][Next]_vars

\* The engine keeps scanning on its deadline and finishes a scan.
FairSpec == Spec /\ WF_vars(Scanning) /\ WF_vars(Reconcile)

-----------------------------------------------------------------------------
(* Properties *)

Owners(h, i) ==
    Cardinality({n \in Names : attached[n] # None /\ attached[n][h] = i})
      + (IF h = "ingress" /\ ingress = i THEN 1 ELSE 0)

\* Unless a detach failed, every program of ours on an interface is one the manager
\* can take off again, and no hook runs two: no packet counts twice, and a shutdown
\* leaves nothing behind.  On another tool's ingress qdisc, which tc.rs documents as the
\* one case it cannot detect, the ingress hook runs both programs, but not a third.
OwnedOnce ==
    ~leaked =>
        \A n \in Names : ifs[n] # None =>
            \A h \in Hooks :
                /\ links[h][ifs[n]] = Owners(h, ifs[n])
                /\ Running(h, ifs[n]) <= IF OneBlock(ifs[n]) THEN 2 ELSE 1

\* A TAP that the manager holds attached under its present ifindex is counted in both
\* directions, whatever happened to the interface during the scan.  On another tool's
\* ingress qdisc it is not: there both programs run on the ingress block, see what the VM
\* sends and nothing of what it receives.
AttachedIsWhole ==
    \A n \in Names :
        attached[n] # None /\ attached[n].ifindex = ifs[n] =>
            IF OneBlock(ifs[n]) THEN Running("ingress", ifs[n]) >= 2
            ELSE \A h \in Hooks : Running(h, ifs[n]) >= 1

\* A TAP that was recreated does not wait for the backoff of its predecessor: after
\* a scan every TAP it found is attached, or an attach failed on that interface.
RecreatedIsAttempted ==
    [][pc = "attach" /\ pc' = "idle" =>
         \A n \in Names : found[n] # None =>
             Current(n, found) \/ found[n] \in failed]_vars

\* Once the bridge and the kernel are quiet, both programs are on every TAP for good: no
\* backoff lasts for ever, no TAP is left half attached.
Converges ==
    <>[](pc \notin {"drop", "stopped"}) =>
        <>[](\A n \in Names : ifs[n] # None => \A h \in Hooks : links[h][ifs[n]] >= 1)

\* tc.rs: "nothing half-attached escapes this function": after a scan in which every
\* call did what it should, an interface carries both programs or none.
NothingHalfAttached ==
    pc = "idle" /\ faults = 0 =>
        \A n \in Names : ifs[n] # None =>
            links["ingress"][ifs[n]] = links["egress"][ifs[n]]

=============================================================================
