---------------------------- MODULE AttachProofs ----------------------------
(***************************************************************************)
(* Proofs about Attach for any TAPs, interfaces, kernels and number of     *)
(* faults.  The system calls name a TAP and not an ifindex, so the         *)
(* invariant says where the interfaces that the manager remembers can      *)
(* still be (HomeInv), what a scan still has to do about a TAP it found    *)
(* (ScanInv), and how many of the programs on a live interface are held    *)
(* (LinkInv).                                                              *)
(***************************************************************************)
EXTENDS Attach, FiniteSetTheorems, TLAPS

HasIngress == {"egress", "clsactEgress", "egressAgain", "rollback"}
Attaching == {"ingress", "clsactIngress", "ingressAgain"} \cup HasIngress
Labels == {"idle", "detach", "attach", "drop", "stopped"} \cup Attaching

AttachedTaps == [ifindex : Ifindexes, ingress : Ifindexes, egress : Ifindexes]

TypeInv ==
    /\ ifs \in [Names -> Ifindexes \cup {None}] /\ created \in Nat
    /\ links \in [Hooks -> [Ifindexes -> Nat]]
    /\ attached \in [Names -> AttachedTaps \cup {None}]
    /\ backoff = [n \in Names |-> backoff[n]]
    /\ pc \in Labels
    /\ found \in [Names -> Ifindexes \cup {None}]
    /\ to_detach \subseteq Names /\ to_add \subseteq Names
    /\ pc \in Attaching => tap.name \in Names /\ tap.ifindex \in Ifindexes
    /\ ingress \in Ifindexes \cup {None}
    /\ ingress # None <=> pc \in HasIngress
    /\ leaked \in BOOLEAN

\* An ifindex is given out once, and nothing refers to one that was not.
NetInv ==
    /\ \A n \in Names :
         /\ ifs[n] # None => ifs[n] <= created
         /\ found[n] # None => found[n] <= created
         /\ attached[n] # None =>
              attached[n].ifindex <= created /\ \A h \in Hooks : attached[n][h] <= created
    /\ pc \in Attaching => tap.ifindex <= created
    /\ ingress # None => ingress <= created
    /\ \A m, n \in Names : ifs[m] # None /\ ifs[m] = ifs[n] => m = n
    /\ \A h \in Hooks, i \in Ifindexes : i > created => links[h][i] = 0

\* An interface with a program of the manager that is still there has the name that it was
\* attached under, and a TAP that still has the discovered ifindex has had it all along.
HomeInv ==
    /\ \A n \in Names : attached[n] # None =>
         /\ \A h \in Hooks, m \in Names : ifs[m] = attached[n][h] => m = n
         /\ attached[n].ifindex = ifs[n] => \A h \in Hooks : attached[n][h] = ifs[n]
    /\ ingress # None =>
         /\ \A m \in Names : ifs[m] = ingress => m = tap.name
         /\ tap.ifindex = ifs[tap.name] => ingress = tap.ifindex

\* A scan detaches before it attaches, and every TAP that it found is attached, is yet to be
\* attached, is being attached, or has failed.
ScanInv ==
    /\ pc \in {"idle", "drop", "stopped"} => \A n \in Names : found[n] = None
    /\ pc = "detach" => \A n \in to_add : attached[n] # None => n \in to_detach
    /\ pc = "detach" => \A n \in to_detach : ~Current(n, found)
    /\ pc \in {"detach", "drop"} => \A n \in to_detach : attached[n] # None
    /\ pc \in {"attach"} \cup Attaching => \A n \in to_add : attached[n] = None
    /\ pc \in Attaching => /\ attached[tap.name] = None /\ tap.name \notin to_add
                           /\ found[tap.name] = tap.ifindex
    /\ \A n \in to_add : found[n] # None
    /\ \A n \in Names : found[n] # None =>
         \/ Current(n, found) \/ n \in to_add \/ found[n] \in failed
         \/ pc \in Attaching /\ tap.name = n

BackoffInv ==
    \A n \in Names : backoff[n] # None =>
        /\ backoff[n] = [ifindex |-> backoff[n].ifindex, failures |-> backoff[n].failures,
                         wait |-> backoff[n].wait]
        /\ backoff[n].ifindex \in failed

\* The manager holds a program at this hook of the TAP's interface.
Holds(n, h) ==
    \/ attached[n] # None /\ attached[n][h] = ifs[n]
    \/ h = "ingress" /\ ingress = ifs[n]

LinkInv ==
    \A n \in Names, h \in Hooks : ifs[n] # None =>
        /\ Holds(n, h) => links[h][ifs[n]] >= 1
        /\ ~leaked => links[h][ifs[n]] = IF Holds(n, h) THEN 1 ELSE 0

IInv == TypeInv /\ NetInv /\ HomeInv /\ ScanInv /\ BackoffInv /\ LinkInv

LEMMA NoneIsNoIfindex == /\ None \notin Ifindexes /\ None \notin AttachedTaps
                         /\ \A i \in Ifindexes : i \in Nat
  BY AttachAssumption DEF Ifindexes, AttachedTaps

LEMMA Initially == Init => IInv
  <1> SUFFICES ASSUME Init PROVE IInv
    OBVIOUS
  <1> USE NoneIsNoIfindex DEF Init
  <1>1. TypeInv
    BY DEF TypeInv, Labels, HasIngress, Attaching
  <1>2. NetInv
    BY DEF NetInv, HasIngress, Attaching
  <1>3. HomeInv /\ ScanInv /\ BackoffInv /\ LinkInv
    BY DEF HomeInv, ScanInv, BackoffInv, LinkInv, HasIngress, Attaching
  <1> QED  BY <1>1, <1>2, <1>3 DEF IInv

\* Steps that are not the scan's.
LEMMA ScanStays ==
    ASSUME ScanInv, BackoffInv,
           UNCHANGED <<attached, backoff, pc, found, to_detach, to_add, tap, failed>>
    PROVE  ScanInv' /\ BackoffInv'
  <1>1. BackoffInv'
    BY DEF BackoffInv
  <1>2. \A n : Current(n, found)' <=> Current(n, found)
    BY DEF Current
  <1>3. ScanInv'
    BY <1>2 DEF ScanInv
  <1> QED  BY <1>1, <1>3

-----------------------------------------------------------------------------
(* The bridge *)

LEMMA RecordedFields ==
    ASSUME TypeInv, NEW n \in Names, attached[n] # None
    PROVE  /\ attached[n] \in AttachedTaps /\ attached[n].ifindex \in Ifindexes
           /\ \A h \in Hooks : attached[n][h] \in Ifindexes
  BY DEF TypeInv, AttachedTaps, Hooks

LEMMA CreateKeeps ==
    ASSUME IInv, NEW n \in Names, Create(n)
    PROVE  IInv'
  <1> USE NoneIsNoIfindex DEF IInv
  <1>0. /\ created + 1 \in Ifindexes /\ created \in Nat
        /\ created' = created + 1
        /\ ifs' = [ifs EXCEPT ![n] = created + 1]
        /\ UNCHANGED <<links, attached, backoff, pc, scan, faults, aux>>
    BY AttachAssumption DEF Create, TypeInv, Ifindexes
  <1> USE DEF scan, aux
  <1>1. TypeInv'
    BY <1>0 DEF TypeInv
  <1>2. NetInv'
    <2>1. \A m \in Names : /\ ifs'[m] = IF m = n THEN created + 1 ELSE ifs[m]
                           /\ ifs[m] \in Ifindexes \cup {None} /\ found[m] \in Ifindexes \cup {None}
      BY <1>0 DEF TypeInv
    <2>2. ASSUME NEW m \in Names
          PROVE  /\ ifs'[m] # None => ifs'[m] <= created + 1
                 /\ found[m] # None => found[m] <= created + 1
                 /\ attached[m] # None =>
                      attached[m].ifindex <= created + 1 /\ \A h \in Hooks : attached[m][h] <= created + 1
      BY <1>0, <2>1, RecordedFields DEF NetInv
    <2>3. /\ pc \in Attaching => tap.ifindex <= created + 1
          /\ ingress # None => ingress <= created + 1
          /\ \A h \in Hooks, i \in Ifindexes : i > created + 1 => links[h][i] = 0
      BY <1>0 DEF NetInv, TypeInv
    <2>4. \A m, o \in Names : ifs'[m] # None /\ ifs'[m] = ifs'[o] => m = o
      BY <1>0, <2>1 DEF NetInv
    <2> QED  BY <1>0, <2>2, <2>3, <2>4 DEF NetInv
  <1>3. HomeInv'
    <2>1. \A m \in Names : ifs'[m] = IF m = n THEN created + 1 ELSE ifs[m]
      BY <1>0 DEF TypeInv
    <2>2. ASSUME NEW o \in Names, attached[o] # None
          PROVE  /\ \A h \in Hooks, m \in Names : ifs'[m] = attached[o][h] => m = o
                 /\ attached[o].ifindex = ifs'[o] => \A h \in Hooks : attached[o][h] = ifs'[o]
      <3>1. /\ attached[o].ifindex # created + 1
            /\ \A h \in Hooks : attached[o][h] # created + 1
        BY <1>0, <2>2, RecordedFields DEF NetInv
      <3> QED  BY <2>1, <2>2, <3>1 DEF HomeInv
    <2>3. ASSUME ingress # None
          PROVE  /\ \A m \in Names : ifs'[m] = ingress => m = tap.name
                 /\ tap.ifindex = ifs'[tap.name] => ingress = tap.ifindex
      <3>1. pc \in Attaching /\ tap.name \in Names
        BY <2>3 DEF TypeInv, Attaching
      <3>2. ingress # created + 1 /\ tap.ifindex # created + 1
        BY <1>0, <2>3, <3>1 DEF NetInv, TypeInv
      <3> QED  BY <2>1, <2>3, <3>1, <3>2 DEF HomeInv
    <2> QED  BY <1>0, <2>2, <2>3 DEF HomeInv
  <1>4. ScanInv' /\ BackoffInv'
    BY <1>0, ScanStays
  <1>6. LinkInv'
    <2> SUFFICES ASSUME NEW m \in Names, NEW h \in Hooks, ifs'[m] # None
                 PROVE  /\ Holds(m, h)' => links[h][ifs'[m]] >= 1
                        /\ ~leaked => links[h][ifs'[m]] = IF Holds(m, h)' THEN 1 ELSE 0
      BY <1>0 DEF LinkInv
    <2>1. CASE m = n
      <3>1. ifs'[m] = created + 1 /\ links[h][created + 1] = 0
        BY <2>1, <1>0 DEF TypeInv, NetInv
      <3>2. ~Holds(m, h)'
        BY <3>1, <2>1, <1>0, RecordedFields DEF Holds, TypeInv, NetInv
      <3> QED  BY <3>1, <3>2
    <2>2. CASE m # n
      <3>1. ifs'[m] = ifs[m] /\ (Holds(m, h)' <=> Holds(m, h))
        BY <2>2, <1>0 DEF Holds, TypeInv
      <3> QED  BY <3>1 DEF LinkInv
    <2> QED  BY <2>1, <2>2
  <1> QED  BY <1>1, <1>2, <1>3, <1>4, <1>6

LEMMA DestroyKeeps ==
    ASSUME IInv, NEW n \in Names, Destroy(n)
    PROVE  IInv'
  <1> USE NoneIsNoIfindex DEF IInv
  <1>0. /\ ifs[n] \in Ifindexes /\ ifs' = [ifs EXCEPT ![n] = None]
        /\ links' = [h \in Hooks |-> [links[h] EXCEPT ![ifs[n]] = 0]]
        /\ UNCHANGED <<created, attached, backoff, pc, scan, faults, aux>>
    BY DEF Destroy, TypeInv
  <1> USE DEF scan, aux
  <1>1. TypeInv'
    BY <1>0 DEF TypeInv
  <1>2. NetInv'
    BY <1>0 DEF NetInv, TypeInv
  <1>3. HomeInv'
    <2>1. \A m \in Names : ifs'[m] = IF m = n THEN None ELSE ifs[m]
      BY <1>0 DEF TypeInv
    <2>2. ASSUME NEW o \in Names, attached[o] # None
          PROVE  /\ \A h \in Hooks, m \in Names : ifs'[m] = attached[o][h] => m = o
                 /\ attached[o].ifindex = ifs'[o] => \A h \in Hooks : attached[o][h] = ifs'[o]
      <3>1. /\ attached[o].ifindex # None
            /\ \A h \in Hooks : attached[o][h] # None
        BY <2>2, RecordedFields
      <3> QED  BY <2>1, <2>2, <3>1 DEF HomeInv
    <2>3. ASSUME ingress # None
          PROVE  /\ \A m \in Names : ifs'[m] = ingress => m = tap.name
                 /\ tap.ifindex = ifs'[tap.name] => ingress = tap.ifindex
      <3>1. pc \in Attaching /\ tap.name \in Names /\ tap.ifindex # None
        BY <2>3 DEF TypeInv, Attaching
      <3> QED  BY <2>1, <2>3, <3>1 DEF HomeInv
    <2> QED  BY <1>0, <2>2, <2>3 DEF HomeInv
  <1>4. ScanInv' /\ BackoffInv'
    BY <1>0, ScanStays
  <1>6. LinkInv'
    <2> SUFFICES ASSUME NEW m \in Names, NEW h \in Hooks, ifs'[m] # None
                 PROVE  /\ Holds(m, h)' => links'[h][ifs'[m]] >= 1
                        /\ ~leaked => links'[h][ifs'[m]] = IF Holds(m, h)' THEN 1 ELSE 0
      BY <1>0 DEF LinkInv
    <2>1. m # n /\ ifs'[m] = ifs[m] /\ ifs[m] # ifs[n]
      BY <1>0 DEF TypeInv, NetInv
    <2>2. links'[h][ifs[m]] = links[h][ifs[m]]
      BY <2>1, <1>0 DEF TypeInv
    <2>3. Holds(m, h)' <=> Holds(m, h)
      BY <2>1, <1>0 DEF Holds
    <2> QED  BY <2>1, <2>2, <2>3 DEF LinkInv
  <1> QED  BY <1>1, <1>2, <1>3, <1>4, <1>6

-----------------------------------------------------------------------------
(* The scan *)

\* Steps that neither attach nor detach.
LEMMA LinksStay ==
    ASSUME IInv, UNCHANGED <<ifs, links, attached, ingress, leaked>>
    PROVE  LinkInv'
  BY DEF IInv, LinkInv, Holds

LEMMA ScanKeeps ==
    ASSUME IInv, NEW gap, Scan(gap)
    PROVE  IInv'
  <1> USE NoneIsNoIfindex DEF IInv, Scan, net, aux
  <1>1. TypeInv'
    BY DEF TypeInv, Labels, Attaching, HasIngress
  <1>2. NetInv'
    BY DEF NetInv, TypeInv, Attaching, HasIngress
  <1>3. HomeInv'
    BY DEF HomeInv, TypeInv
  <1>4. ScanInv'
    BY DEF ScanInv, Current, TypeInv, Attaching, HasIngress
  <1>5. BackoffInv'
    <2> SUFFICES ASSUME NEW n \in Names, backoff'[n] # None
                 PROVE  /\ backoff'[n] = [ifindex |-> backoff'[n].ifindex,
                                          failures |-> backoff'[n].failures, wait |-> backoff'[n].wait]
                        /\ backoff'[n].ifindex \in failed
      BY DEF BackoffInv
    <2>1. backoff'[n] = Waited(backoff[n], gap) /\ backoff[n] # None
      BY DEF prune_backoff, Waited
    <2> QED  BY <2>1 DEF BackoffInv, Waited
  <1>6. LinkInv'
    BY LinksStay
  <1> QED  BY <1>1, <1>2, <1>3, <1>4, <1>5, <1>6

\* Taking a program off frees the hook that the TAP held, if its interface is still there.
LEMMA DetachKeeps ==
    ASSUME IInv, NEW n \in Names, Detach(n)
    PROVE  IInv'
  <1> USE NoneIsNoIfindex DEF IInv
  <1>0. PICK kept \in SUBSET Hooks :
          /\ links' = [h \in Hooks |-> IF h \in kept THEN links[h] ELSE Less(h, attached[n][h])]
          /\ leaked' = (leaked \/ \E h \in kept : links[h][attached[n][h]] > 0)
    BY DEF Detach
  <1>1. /\ pc \in {"detach", "drop"} /\ n \in to_detach /\ to_detach' = to_detach \ {n}
        /\ attached' = [attached EXCEPT ![n] = None] /\ backoff' = [backoff EXCEPT ![n] = None]
        /\ UNCHANGED <<ifs, created, pc, found, to_add, tap, ingress, failed>>
    BY DEF Detach, net
  <1>2. attached[n] \in AttachedTaps /\ \A h \in Hooks : attached[n][h] \in Ifindexes
    BY <1>1 DEF TypeInv, ScanInv, AttachedTaps, Hooks
  <1>3. ASSUME NEW h \in Hooks, NEW i \in Ifindexes
        PROVE  /\ links'[h][i] \in Nat
               /\ i # attached[n][h] => links'[h][i] = links[h][i]
               /\ links'[h][i] = links[h][i] \/ links'[h][i] = IF links[h][i] > 0 THEN links[h][i] - 1 ELSE 0
               /\ h \notin kept /\ i = attached[n][h] =>
                    links'[h][i] = IF links[h][i] > 0 THEN links[h][i] - 1 ELSE 0
    BY <1>0, <1>2 DEF Less, TypeInv
  <1>4. TypeInv'
    <2>1. links' \in [Hooks -> [Ifindexes -> Nat]]
      <3>1. \A h \in Hooks : Less(h, attached[n][h]) \in [Ifindexes -> Nat]
        BY <1>2 DEF Less, TypeInv
      <3> QED  BY <3>1, <1>0 DEF TypeInv
    <2>2. leaked' \in BOOLEAN
      BY <1>0 DEF TypeInv
    <2> QED  BY <1>1, <2>1, <2>2 DEF TypeInv
  <1>5. NetInv'
    <2>1. \A h \in Hooks, i \in Ifindexes : i > created => links'[h][i] = 0
      BY <1>3 DEF NetInv, TypeInv
    <2> QED  BY <1>1, <2>1 DEF NetInv, TypeInv
  <1>6. HomeInv'
    BY <1>1 DEF HomeInv, TypeInv
  <1>7. ScanInv'
    BY <1>1 DEF ScanInv, Current, TypeInv, Attaching, HasIngress
  <1>8. BackoffInv'
    BY <1>1 DEF BackoffInv, TypeInv
  <1>9. LinkInv'
    <2> SUFFICES ASSUME NEW m \in Names, NEW h \in Hooks, ifs[m] # None
                 PROVE  /\ Holds(m, h)' => links'[h][ifs[m]] >= 1
                        /\ ~leaked' => links'[h][ifs[m]] = IF Holds(m, h)' THEN 1 ELSE 0
      BY <1>1 DEF LinkInv
    <2>0. ifs[m] \in Ifindexes /\ ingress = None
      BY <1>1 DEF TypeInv, HasIngress
    <2>1. CASE ifs[m] # attached[n][h]
      <3>1. links'[h][ifs[m]] = links[h][ifs[m]]
        BY <2>0, <2>1, <1>3
      <3>2. Holds(m, h)' <=> Holds(m, h)
        BY <1>1, <2>1, <2>0 DEF Holds, TypeInv
      <3>3. ~leaked' => ~leaked
        BY <1>0 DEF TypeInv
      <3> QED  BY <3>1, <3>2, <3>3 DEF LinkInv
    <2>2. CASE ifs[m] = attached[n][h]
      <3>1. m = n
        BY <2>2, <1>1 DEF HomeInv, ScanInv
      <3>2. ~Holds(m, h)' /\ Holds(m, h)
        BY <1>1, <2>0, <2>2, <3>1 DEF Holds, TypeInv, ScanInv
      <3>3. ~leaked' => ~leaked /\ links'[h][ifs[m]] = 0
        <4>1. links[h][ifs[m]] >= 1 /\ (~leaked => links[h][ifs[m]] = 1)
          BY <3>2 DEF LinkInv
        <4>2. links[h][ifs[m]] \in Nat
          BY <2>0 DEF TypeInv
        <4>3. h \in kept => leaked'
          <5>1. links[h][attached[n][h]] > 0
            BY <2>2, <4>1, <4>2
          <5> QED  BY <5>1, <1>0, Zenon
        <4>4. leaked => leaked'
          BY <1>0
        <4> QED  BY <4>1, <4>2, <4>3, <4>4, <1>3, <2>0, <2>2
      <3> QED  BY <3>2, <3>3
    <2> QED  BY <2>1, <2>2
  <1> QED  BY <1>4, <1>5, <1>6, <1>7, <1>8, <1>9

LEMMA DetachesDoneKeeps ==
    ASSUME IInv, DetachesDone
    PROVE  IInv'
  <1> USE NoneIsNoIfindex DEF IInv, DetachesDone, net, scan, aux
  <1>1. TypeInv'
    BY DEF TypeInv, Labels, Attaching, HasIngress
  <1>2. NetInv'
    BY DEF NetInv, Attaching, HasIngress
  <1>3. HomeInv' /\ BackoffInv'
    BY DEF HomeInv, BackoffInv
  <1>4. ScanInv'
    BY DEF ScanInv, Current, Attaching, HasIngress
  <1>5. LinkInv'
    BY LinksStay
  <1> QED  BY <1>1, <1>2, <1>3, <1>4, <1>5

LEMMA NextTapKeeps ==
    ASSUME IInv, NEW n \in Names, NextTap(n)
    PROVE  IInv'
  <1> USE NoneIsNoIfindex DEF IInv, net, aux
  <1>1. /\ pc = "attach" /\ n \in to_add /\ to_add' = to_add \ {n}
        /\ UNCHANGED <<ifs, created, links, attached, backoff, found, to_detach, ingress, leaked, failed>>
    BY DEF NextTap
  <1>2. ingress = None /\ found[n] \in Ifindexes \cup {None}
    BY <1>1 DEF TypeInv, HasIngress
  <1>3. LinkInv' /\ BackoffInv'
    BY <1>1, LinksStay DEF BackoffInv
  <1>4. HomeInv'
    BY <1>1, <1>2 DEF HomeInv
  <1>5. CASE tap' = [name |-> n, ifindex |-> found[n]] /\ pc' = "ingress" /\ found[n] # None
    <2>1. TypeInv'
      BY <1>1, <1>2, <1>5 DEF TypeInv, Labels, Attaching, HasIngress
    <2>2. NetInv'
      BY <1>1, <1>2, <1>5 DEF NetInv
    <2>3. ScanInv'
      BY <1>1, <1>5 DEF ScanInv, Current, Attaching, HasIngress
    <2> QED  BY <1>3, <1>4, <2>1, <2>2, <2>3
  <1>6. CASE ~should_attempt(backoff[n], found[n]) /\ UNCHANGED <<tap, pc>>
    <2>1. backoff[n] # None /\ found[n] = backoff[n].ifindex
      BY <1>6 DEF should_attempt, SameInterface
    <2>2. found[n] \in failed
      BY <2>1 DEF BackoffInv
    <2>3. TypeInv' /\ NetInv'
      BY <1>1, <1>6 DEF TypeInv, NetInv
    <2>4. ScanInv'
      BY <1>1, <1>6, <2>2 DEF ScanInv, Current, Attaching, HasIngress
    <2> QED  BY <1>3, <1>4, <2>3, <2>4
  <1>7. found[n] # None
    BY <1>1 DEF ScanInv
  <1> QED  BY <1>5, <1>6, <1>7 DEF NextTap

LEMMA ScanDoneKeeps ==
    ASSUME IInv, ScanDone
    PROVE  IInv'
  <1> USE NoneIsNoIfindex DEF IInv, ScanDone, net, aux
  <1>1. TypeInv'
    BY DEF TypeInv, Labels, Attaching, HasIngress
  <1>2. NetInv'
    BY DEF NetInv, Attaching, HasIngress
  <1>3. HomeInv' /\ BackoffInv'
    BY DEF HomeInv, BackoffInv
  <1>4. ScanInv'
    BY DEF ScanInv, Attaching, HasIngress
  <1>5. LinkInv'
    BY LinksStay
  <1> QED  BY <1>1, <1>2, <1>3, <1>4, <1>5

LEMMA ShutdownKeeps ==
    ASSUME IInv, Shutdown
    PROVE  IInv'
  <1> USE NoneIsNoIfindex DEF IInv, Shutdown, net, aux
  <1>1. TypeInv'
    BY DEF TypeInv, Labels, Attaching, HasIngress
  <1>2. NetInv'
    BY DEF NetInv, Attaching, HasIngress
  <1>3. HomeInv' /\ BackoffInv'
    BY DEF HomeInv, BackoffInv
  <1>4. ScanInv'
    BY DEF ScanInv, Attaching, HasIngress
  <1>5. LinkInv'
    BY LinksStay
  <1> QED  BY <1>1, <1>2, <1>3, <1>4, <1>5

-----------------------------------------------------------------------------
(* attach_flow *)

\* An attach that ends without success remembers the interface it failed on.
LEMMA FailureKeeps ==
    ASSUME IInv, pc \in Attaching, Over,
           UNCHANGED <<ifs, created, attached, found, to_detach, to_add>>,
           backoff' = [backoff EXCEPT ![tap.name] = record_failure(@, tap.ifindex)],
           failed' = failed \cup {tap.ifindex}, leaked' \in BOOLEAN,
           links' \in [Hooks -> [Ifindexes -> Nat]],
           \A h \in Hooks, i \in Ifindexes : i > created => links'[h][i] = 0
    PROVE  TypeInv' /\ NetInv' /\ HomeInv' /\ ScanInv' /\ BackoffInv'
  <1> USE NoneIsNoIfindex DEF IInv
  <1>1. pc' = "attach" /\ ingress' = None /\ pc' \notin Attaching /\ pc' \in Labels
    BY DEF Over, Attaching, HasIngress, Labels
  <1>2. TypeInv'
    BY <1>1 DEF TypeInv, Attaching
  <1>3. NetInv'
    BY <1>1 DEF NetInv
  <1>4. HomeInv'
    BY <1>1 DEF HomeInv
  <1>5. ScanInv'
    <2>1. \A n : Current(n, found)' <=> Current(n, found)
      BY DEF Current
    <2> QED  BY <1>1, <2>1 DEF ScanInv, Attaching
  <1>6. BackoffInv'
    <2> SUFFICES ASSUME NEW n \in Names, backoff'[n] # None
                 PROVE  /\ backoff'[n] = [ifindex |-> backoff'[n].ifindex,
                                          failures |-> backoff'[n].failures, wait |-> backoff'[n].wait]
                        /\ backoff'[n].ifindex \in failed'
      BY DEF BackoffInv
    <2>1. CASE n = tap.name
      <3>1. backoff'[n] = record_failure(backoff[n], tap.ifindex)
        BY <2>1 DEF TypeInv
      <3> QED  BY <3>1 DEF record_failure
    <2>2. CASE n # tap.name
      <3>1. backoff'[n] = backoff[n]
        BY <2>2 DEF TypeInv
      <3> QED  BY <3>1 DEF BackoffInv
    <2> QED  BY <2>1, <2>2
  <1> QED  BY <1>2, <1>3, <1>4, <1>5, <1>6

\* Before its ingress program is on, an attach that gives up leaves nothing behind.
LEMMA GaveUpKeeps ==
    ASSUME IInv, pc \in Attaching \ HasIngress, GaveUp, UNCHANGED <<ifs, created, links>>
    PROVE  IInv'
  <1>1. /\ Over /\ UNCHANGED <<attached, found, to_detach, to_add, leaked>>
        /\ backoff' = [backoff EXCEPT ![tap.name] = record_failure(@, tap.ifindex)]
        /\ failed' = failed \cup {tap.ifindex}
    BY DEF GaveUp
  <1>2. ingress = None /\ ingress' = None
    BY <1>1 DEF IInv, TypeInv, Over
  <1>3. LinkInv'
    BY <1>1, <1>2, LinksStay
  <1>4. /\ leaked' \in BOOLEAN /\ links' \in [Hooks -> [Ifindexes -> Nat]]
        /\ \A h \in Hooks, i \in Ifindexes : i > created => links'[h][i] = 0
    BY <1>1 DEF IInv, TypeInv, NetInv
  <1> QED  BY <1>1, <1>3, <1>4, FailureKeeps DEF IInv

\* Steps within an attach that touch no program.
LEMMA OnwardKeeps ==
    ASSUME IInv, pc \in Attaching, NEW label \in Attaching, Onward(label),
           pc \in HasIngress <=> label \in HasIngress,
           UNCHANGED <<ifs, created, links, ingress>>
    PROVE  IInv'
  <1> USE NoneIsNoIfindex DEF IInv, Onward, aux
  <1>1. TypeInv'
    BY DEF TypeInv, Labels
  <1>2. NetInv' /\ HomeInv' /\ BackoffInv'
    BY DEF NetInv, HomeInv, BackoffInv
  <1>3. ScanInv'
    <2>1. \A n : Current(n, found)' <=> Current(n, found)
      BY DEF Current
    <2> QED  BY <2>1 DEF ScanInv, Attaching, HasIngress
  <1>4. LinkInv'
    BY LinksStay
  <1> QED  BY <1>1, <1>2, <1>3, <1>4

\* One more program on an interface that is there.
OneMore(h, i) == links' = [links EXCEPT ![h][i] = @ + 1]

LEMMA OneMoreCounts ==
    ASSUME TypeInv, NEW h \in Hooks, NEW i \in Ifindexes, OneMore(h, i)
    PROVE  /\ links' \in [Hooks -> [Ifindexes -> Nat]]
           /\ links'[h][i] = links[h][i] + 1
           /\ \A g \in Hooks, j \in Ifindexes : g # h \/ j # i => links'[g][j] = links[g][j]
  BY DEF TypeInv, OneMore

LEMMA IngressOnKeeps ==
    ASSUME IInv, pc \in {"ingress", "ingressAgain"}, Dev # None,
           OneMore("ingress", Dev), ingress' = Dev, Onward("egress"),
           UNCHANGED <<ifs, created>>
    PROVE  IInv'
  <1> USE NoneIsNoIfindex DEF IInv
  <1>1. /\ pc \in Attaching /\ pc \notin HasIngress /\ "egress" \in HasIngress /\ "egress" \in Attaching
        /\ HasIngress \subseteq Attaching /\ Attaching \subseteq Labels
    BY DEF Attaching, HasIngress, Labels
  <1>2. /\ tap.name \in Names /\ Dev = ifs[tap.name] /\ Dev \in Ifindexes /\ ingress = None
        /\ attached[tap.name] = None /\ Dev <= created /\ "ingress" \in Hooks
    BY <1>1 DEF TypeInv, Dev, ScanInv, NetInv, Hooks
  <1>3. /\ pc' = "egress" /\ UNCHANGED <<attached, backoff, found, to_detach, to_add, tap, leaked, failed>>
    BY DEF Onward, aux
  <1>4. /\ links' \in [Hooks -> [Ifindexes -> Nat]]
        /\ links'["ingress"][Dev] = links["ingress"][Dev] + 1
        /\ \A g \in Hooks, j \in Ifindexes : g # "ingress" \/ j # Dev => links'[g][j] = links[g][j]
    BY <1>2, OneMoreCounts
  <1> HIDE DEF Dev
  <1>5. TypeInv'
    BY <1>1, <1>2, <1>3, <1>4 DEF TypeInv
  <1>6. NetInv'
    <2>1. \A h \in Hooks, i \in Ifindexes : i > created => links'[h][i] = 0
      BY <1>2, <1>4 DEF NetInv, TypeInv
    <2> QED  BY <2>1, <1>1, <1>2, <1>3 DEF NetInv
  <1>7. HomeInv'
    BY <1>2, <1>3 DEF HomeInv, NetInv
  <1>8. ScanInv'
    <2>1. \A n : Current(n, found)' <=> Current(n, found)
      BY <1>3 DEF Current
    <2> QED  BY <2>1, <1>1, <1>3 DEF ScanInv
  <1>9. BackoffInv'
    BY <1>3 DEF BackoffInv
  <1>10. LinkInv'
    <2> SUFFICES ASSUME NEW m \in Names, NEW h \in Hooks, ifs[m] # None
                 PROVE  /\ Holds(m, h)' => links'[h][ifs[m]] >= 1
                        /\ ~leaked => links'[h][ifs[m]] = IF Holds(m, h)' THEN 1 ELSE 0
      BY <1>3 DEF LinkInv
    <2>1. ifs[m] \in Ifindexes /\ links[h][ifs[m]] \in Nat
      BY DEF TypeInv
    <2>2. CASE m = tap.name /\ h = "ingress"
      <3>1. Holds(m, h)' /\ ~Holds(m, h)
        BY <2>2, <1>2, <1>3 DEF Holds
      <3>2. links'[h][ifs[m]] = links[h][ifs[m]] + 1
        BY <2>2, <1>2, <1>4
      <3> QED  BY <2>1, <3>1, <3>2 DEF LinkInv
    <2>3. CASE ~(m = tap.name /\ h = "ingress")
      <3>1. h # "ingress" \/ ifs[m] # Dev
        BY <2>3, <1>2 DEF NetInv
      <3>2. links'[h][ifs[m]] = links[h][ifs[m]]
        BY <2>1, <3>1, <1>4
      <3>3. Holds(m, h)' <=> Holds(m, h)
        BY <3>1, <1>2, <1>3 DEF Holds
      <3> QED  BY <3>2, <3>3 DEF LinkInv
    <2> QED  BY <2>2, <2>3
  <1> QED  BY <1>5, <1>6, <1>7, <1>8, <1>9, <1>10

LEMMA AttachIngressKeeps ==
    ASSUME IInv, AttachIngress
    PROVE  IInv'
  <1>1. /\ UNCHANGED <<ifs, created>>
        /\ pc \in {"ingress", "ingressAgain"}
    BY DEF AttachIngress, net
  <1>2. pc \in Attaching \ HasIngress /\ "clsactIngress" \in Attaching \ HasIngress
    BY <1>1 DEF Attaching, HasIngress
  <1>3. \/ /\ Dev # None /\ OneMore("ingress", Dev)
           /\ ingress' = Dev /\ Onward("egress")
        \/ Onward("clsactIngress") /\ UNCHANGED <<links, ingress>>
        \/ GaveUp /\ UNCHANGED links
    BY DEF AttachIngress, Answers, Answer, OneMore
  <1>4. CASE /\ Dev # None /\ OneMore("ingress", Dev)
             /\ ingress' = Dev /\ Onward("egress")
    BY <1>1, <1>4, IngressOnKeeps
  <1>5. CASE Onward("clsactIngress") /\ UNCHANGED <<links, ingress>>
    BY <1>1, <1>2, <1>5, OnwardKeeps
  <1>6. CASE GaveUp /\ UNCHANGED links
    BY <1>1, <1>2, <1>6, GaveUpKeeps
  <1> QED  BY <1>3, <1>4, <1>5, <1>6

LEMMA EnsureClsactKeeps ==
    ASSUME IInv, EnsureClsact
    PROVE  IInv'
  <1>1. /\ UNCHANGED <<ifs, created, links>>
        /\ pc \in {"clsactIngress", "clsactEgress"}
    BY DEF EnsureClsact
  <1>2. CASE pc = "clsactIngress"
    <2>1. pc \in Attaching \ HasIngress /\ "ingressAgain" \in Attaching \ HasIngress
      BY <1>2 DEF Attaching, HasIngress
    <2>2. CASE Onward("ingressAgain") /\ UNCHANGED ingress
      BY <1>1, <2>1, <2>2, OnwardKeeps
    <2>3. CASE GaveUp
      BY <1>1, <2>1, <2>3, GaveUpKeeps
    <2> QED  BY <1>2, <2>2, <2>3 DEF EnsureClsact
  <1>3. CASE pc = "clsactEgress"
    <2>1. pc \in HasIngress /\ pc \in Attaching /\ {"egressAgain", "rollback"} \subseteq HasIngress \cap Attaching
      BY <1>3 DEF Attaching, HasIngress
    <2>2. \E label \in {"egressAgain", "rollback"} : Onward(label) /\ UNCHANGED ingress
      BY <1>3 DEF EnsureClsact
    <2> QED  BY <1>1, <2>1, <2>2, OnwardKeeps
  <1> QED  BY <1>1, <1>2, <1>3

\* Both programs are on: the manager's entry takes over what the attach under way held.
LEMMA EgressOnKeeps ==
    ASSUME IInv, pc \in {"egress", "egressAgain"}, Dev # None,
           OneMore("egress", Dev),
           attached' = [attached EXCEPT ![tap.name] = Recorded],
           backoff' = [backoff EXCEPT ![tap.name] = None], Over,
           UNCHANGED <<ifs, created, found, to_detach, to_add, leaked, failed>>
    PROVE  IInv'
  <1> USE NoneIsNoIfindex DEF IInv
  <1>1. /\ pc \in Attaching /\ pc \in HasIngress /\ pc' = "attach" /\ ingress' = None
        /\ pc' \notin Attaching /\ pc' \notin HasIngress /\ pc' \in Labels
    BY DEF Attaching, HasIngress, Labels, Over
  <1>2. /\ tap.name \in Names /\ Dev = ifs[tap.name] /\ Dev \in Ifindexes /\ ingress \in Ifindexes
        /\ attached[tap.name] = None /\ Dev <= created /\ "egress" \in Hooks
        /\ tap.ifindex \in Ifindexes /\ found[tap.name] = tap.ifindex
        /\ tap.ifindex <= created /\ ingress <= created
    BY <1>1 DEF TypeInv, Dev, ScanInv, NetInv, Hooks
  <1>3. /\ Recorded \in AttachedTaps /\ Recorded.ifindex = tap.ifindex
        /\ Recorded["ingress"] = ingress /\ Recorded["egress"] = Dev
    BY <1>2 DEF Recorded, AttachedTaps
  <1>4. /\ links' \in [Hooks -> [Ifindexes -> Nat]]
        /\ links'["egress"][Dev] = links["egress"][Dev] + 1
        /\ \A g \in Hooks, j \in Ifindexes : g # "egress" \/ j # Dev => links'[g][j] = links[g][j]
    BY <1>2, OneMoreCounts
  <1> HIDE DEF Dev, Recorded
  <1>5. \A n \in Names : attached'[n] = IF n = tap.name THEN Recorded ELSE attached[n]
    BY <1>2 DEF TypeInv
  <1>6. Recorded # None
    BY <1>3, NoneIsNoIfindex
  <1>7. TypeInv'
    BY <1>1, <1>2, <1>3, <1>4 DEF TypeInv
  <1>8. NetInv'
    <2>1. \A h \in Hooks, i \in Ifindexes : i > created => links'[h][i] = 0
      BY <1>2, <1>4 DEF NetInv, TypeInv
    <2>2. \A h \in Hooks : Recorded[h] <= created
      BY <1>2, <1>3 DEF Hooks
    <2> QED  BY <2>1, <2>2, <1>1, <1>2, <1>3, <1>5 DEF NetInv
  <1>9. HomeInv'
    <2>1. \A h \in Hooks, m \in Names : ifs[m] = Recorded[h] => m = tap.name
      BY <1>2, <1>3 DEF HomeInv, NetInv, Hooks
    <2>2. tap.ifindex = ifs[tap.name] => \A h \in Hooks : Recorded[h] = ifs[tap.name]
      BY <1>2, <1>3 DEF HomeInv, Hooks
    <2> QED  BY <1>1, <1>3, <1>5, <2>1, <2>2 DEF HomeInv
  <1>10. ScanInv'
    <2>1. \A n \in Names : n # tap.name => (Current(n, found)' <=> Current(n, found))
      BY <1>5 DEF Current
    <2>2. \A n \in Names : n = tap.name => Current(n, found)'
      BY <1>2, <1>3, <1>5, <1>6 DEF Current
    <2>3. \A n \in to_add : attached'[n] = None
      BY <1>1, <1>5 DEF ScanInv, TypeInv
    <2>4. pc' = "attach" /\ pc' \notin Attaching
      BY <1>1
    <2>5. \A n \in Names : found[n] # None =>
            Current(n, found)' \/ n \in to_add \/ found[n] \in failed
      BY <2>1, <2>2 DEF ScanInv
    <2> QED  BY <2>3, <2>4, <2>5 DEF ScanInv
  <1>11. BackoffInv'
    BY <1>2 DEF BackoffInv, TypeInv
  <1>12. LinkInv'
    <2> SUFFICES ASSUME NEW m \in Names, NEW h \in Hooks, ifs[m] # None
                 PROVE  /\ Holds(m, h)' => links'[h][ifs[m]] >= 1
                        /\ ~leaked => links'[h][ifs[m]] = IF Holds(m, h)' THEN 1 ELSE 0
      BY DEF LinkInv
    <2>1. ifs[m] \in Ifindexes /\ links[h][ifs[m]] \in Nat
      BY DEF TypeInv
    <2>2. CASE m = tap.name /\ h = "egress"
      <3>1. Holds(m, h)' /\ ~Holds(m, h)
        BY <2>2, <1>2, <1>3, <1>5, <1>6 DEF Holds
      <3>2. links'[h][ifs[m]] = links[h][ifs[m]] + 1
        BY <2>2, <1>2, <1>4
      <3> QED  BY <2>1, <3>1, <3>2 DEF LinkInv
    <2>3. CASE ~(m = tap.name /\ h = "egress")
      <3>1. h # "egress" \/ ifs[m] # Dev
        BY <2>3, <1>2 DEF NetInv
      <3>2. links'[h][ifs[m]] = links[h][ifs[m]]
        BY <2>1, <3>1, <1>4
      <3>3. Holds(m, h)' <=> Holds(m, h)
        <4>1. CASE m = tap.name
          <5>1. h = "ingress"
            BY <4>1, <2>3 DEF Hooks
          <5> QED  BY <4>1, <5>1, <1>1, <1>2, <1>3, <1>5, <1>6 DEF Holds
        <4>2. CASE m # tap.name
          <5>1. ingress # ifs[m]
            BY <4>2, <1>2 DEF HomeInv
          <5> QED  BY <4>2, <5>1, <1>1, <1>5 DEF Holds
        <4> QED  BY <4>1, <4>2
      <3> QED  BY <3>2, <3>3 DEF LinkInv
    <2> QED  BY <2>2, <2>3
  <1> QED  BY <1>7, <1>8, <1>9, <1>10, <1>11, <1>12

LEMMA AttachEgressKeeps ==
    ASSUME IInv, AttachEgress
    PROVE  IInv'
  <1>1. /\ UNCHANGED <<ifs, created>>
        /\ pc \in {"egress", "egressAgain"}
    BY DEF AttachEgress, net
  <1>2. pc \in HasIngress /\ pc \in Attaching /\ {"clsactEgress", "rollback"} \subseteq HasIngress \cap Attaching
    BY <1>1 DEF Attaching, HasIngress
  <1>3. \/ /\ Dev # None /\ OneMore("egress", Dev)
           /\ attached' = [attached EXCEPT ![tap.name] = Recorded]
           /\ backoff' = [backoff EXCEPT ![tap.name] = None] /\ Over
           /\ UNCHANGED <<found, to_detach, to_add, leaked, failed>>
        \/ \E label \in {"clsactEgress", "rollback"} : Onward(label) /\ UNCHANGED <<links, ingress>>
    BY DEF AttachEgress, Answers, Answer, OneMore, aux
  <1>4. CASE /\ Dev # None /\ OneMore("egress", Dev)
             /\ attached' = [attached EXCEPT ![tap.name] = Recorded]
             /\ backoff' = [backoff EXCEPT ![tap.name] = None] /\ Over
             /\ UNCHANGED <<found, to_detach, to_add, leaked, failed>>
    BY <1>1, <1>4, EgressOnKeeps
  <1>5. CASE \E label \in {"clsactEgress", "rollback"} : Onward(label) /\ UNCHANGED <<links, ingress>>
    BY <1>1, <1>2, <1>5, OnwardKeeps
  <1> QED  BY <1>3, <1>4, <1>5

LEMMA DetachIngressKeeps ==
    ASSUME IInv, DetachIngress
    PROVE  IInv'
  <1> USE NoneIsNoIfindex
  <1>1. /\ pc \in Attaching /\ pc \in HasIngress /\ pc = "rollback"
    BY DEF DetachIngress, Attaching, HasIngress
  <1>2. /\ Over /\ UNCHANGED <<ifs, created, attached, found, to_detach, to_add>>
        /\ backoff' = [backoff EXCEPT ![tap.name] = record_failure(@, tap.ifindex)]
        /\ failed' = failed \cup {tap.ifindex}
        /\ \/ links' = RolledBack /\ UNCHANGED leaked
           \/ leaked' = TRUE /\ UNCHANGED links
    BY DEF DetachIngress, net
  <1>3. /\ ingress \in Ifindexes /\ ingress <= created /\ "ingress" \in Hooks /\ ingress' = None
        /\ attached[tap.name] = None /\ tap.name \in Names
    BY <1>1, <1>2 DEF IInv, TypeInv, NetInv, ScanInv, Over, Hooks
  <1>4. /\ RolledBack \in [Hooks -> [Ifindexes -> Nat]]
        /\ \A h \in Hooks, i \in Ifindexes :
             RolledBack[h][i] = IF h = "ingress" /\ i = ingress
                                THEN IF links[h][i] > 0 THEN links[h][i] - 1 ELSE 0
                                ELSE links[h][i]
    <2>1. /\ Less("ingress", ingress) \in [Ifindexes -> Nat]
          /\ \A i \in Ifindexes : Less("ingress", ingress)[i] =
               IF i = ingress THEN IF links["ingress"][i] > 0 THEN links["ingress"][i] - 1 ELSE 0
               ELSE links["ingress"][i]
      BY <1>3 DEF IInv, TypeInv, Less
    <2> HIDE DEF Less
    <2> QED  BY <1>3, <2>1 DEF IInv, TypeInv, RolledBack
  <1>5. /\ leaked' \in BOOLEAN /\ links' \in [Hooks -> [Ifindexes -> Nat]]
        /\ \A h \in Hooks, i \in Ifindexes : i > created => links'[h][i] = 0
    <2>1. CASE links' = RolledBack /\ UNCHANGED leaked
      BY <1>4, <2>1 DEF IInv, TypeInv, NetInv
    <2>2. CASE leaked' = TRUE /\ UNCHANGED links
      BY <2>2 DEF IInv, TypeInv, NetInv
    <2> QED  BY <1>2, <2>1, <2>2
  <1>6. TypeInv' /\ NetInv' /\ HomeInv' /\ ScanInv' /\ BackoffInv'
    BY <1>1, <1>2, <1>5, FailureKeeps
  <1>7. LinkInv'
    <2> SUFFICES ASSUME NEW m \in Names, NEW h \in Hooks, ifs[m] # None
                 PROVE  /\ Holds(m, h)' => links'[h][ifs[m]] >= 1
                        /\ ~leaked' => links'[h][ifs[m]] = IF Holds(m, h)' THEN 1 ELSE 0
      BY <1>2 DEF LinkInv
    <2>1. ifs[m] \in Ifindexes /\ links[h][ifs[m]] \in Nat
      BY DEF IInv, TypeInv
    <2>2. /\ Holds(m, h) => links[h][ifs[m]] >= 1
          /\ ~leaked => links[h][ifs[m]] = IF Holds(m, h) THEN 1 ELSE 0
      BY DEF IInv, LinkInv
    <2>3. CASE h = "ingress" /\ ifs[m] = ingress
      <3>1. m = tap.name
        BY <2>3, <1>3 DEF IInv, HomeInv
      <3>2. Holds(m, h) /\ ~Holds(m, h)'
        BY <2>3, <3>1, <1>2, <1>3 DEF Holds
      <3>3. CASE links' = RolledBack /\ UNCHANGED leaked
        <4>1. links'[h][ifs[m]] = IF links[h][ifs[m]] > 0 THEN links[h][ifs[m]] - 1 ELSE 0
          BY <1>4, <2>1, <2>3, <3>3
        <4> QED  BY <2>1, <2>2, <3>2, <3>3, <4>1
      <3>4. CASE leaked' = TRUE /\ UNCHANGED links
        BY <3>2, <3>4
      <3> QED  BY <1>2, <3>3, <3>4
    <2>4. CASE ~(h = "ingress" /\ ifs[m] = ingress)
      <3>1. Holds(m, h)' <=> Holds(m, h)
        BY <2>4, <1>2, <1>3 DEF Holds
      <3>2. links'[h][ifs[m]] = links[h][ifs[m]]
        BY <1>2, <1>4, <2>1, <2>4
      <3>3. ~leaked' => ~leaked
        BY <1>2
      <3> QED  BY <2>2, <3>1, <3>2, <3>3
    <2> QED  BY <2>3, <2>4
  <1> QED  BY <1>6, <1>7 DEF IInv

-----------------------------------------------------------------------------
LEMMA Inductive ==
    ASSUME IInv, [Next]_vars
    PROVE  IInv'
  <1>1. CASE Bridge
    BY <1>1, CreateKeeps, DestroyKeeps DEF Bridge
  <1>2. CASE Scanning
    BY <1>2, ScanKeeps DEF Scanning
  <1>3. CASE Reconcile
    BY <1>3, DetachKeeps, NextTapKeeps, DetachesDoneKeeps, ScanDoneKeeps, AttachIngressKeeps,
       EnsureClsactKeeps, AttachEgressKeeps, DetachIngressKeeps DEF Reconcile
  <1>4. CASE Shutdown
    BY <1>4, ShutdownKeeps
  <1>5. CASE UNCHANGED vars
    <2>1. /\ UNCHANGED <<ifs, created, links, attached, backoff, pc, found, to_detach, to_add, tap>>
          /\ UNCHANGED <<ingress, leaked, failed>>
      BY <1>5 DEF vars, net, scan, aux
    <2>2. TypeInv' /\ NetInv' /\ HomeInv'
      BY <2>1 DEF IInv, TypeInv, NetInv, HomeInv
    <2> QED  BY <2>1, <2>2, ScanStays, LinksStay DEF IInv
  <1> QED  BY <1>1, <1>2, <1>3, <1>4, <1>5 DEF Next

LEMMA Invariance == Spec => []IInv
  BY Initially, Inductive, PTL DEF Spec

\* The programs that the manager holds on a TAP's interface are counted by Holds.
LEMMA OwnersAreHolders ==
    ASSUME IInv, NEW n \in Names, ifs[n] # None, NEW h \in Hooks
    PROVE  Owners(h, ifs[n]) = IF Holds(n, h) THEN 1 ELSE 0
  <1> DEFINE Of == {m \in Names : attached[m] # None /\ attached[m][h] = ifs[n]}
             Pending == IF h = "ingress" /\ ingress = ifs[n] THEN 1 ELSE 0
  <1>1. Of = IF attached[n] # None /\ attached[n][h] = ifs[n] THEN {n} ELSE {}
    BY DEF IInv, HomeInv
  <1>2. Cardinality(Of) = IF attached[n] # None /\ attached[n][h] = ifs[n] THEN 1 ELSE 0
    BY <1>1, FS_EmptySet, FS_Singleton
  <1>3. ~(attached[n] # None /\ ingress = ifs[n])
    <2> SUFFICES ASSUME ingress = ifs[n] PROVE attached[n] = None
      OBVIOUS
    <2>1. pc \in Attaching /\ ingress # None
      BY DEF IInv, TypeInv, Attaching
    <2> QED  BY <2>1 DEF IInv, HomeInv, ScanInv
  <1>4. Owners(h, ifs[n]) = Cardinality(Of) + Pending
    BY DEF Owners
  <1> QED  BY <1>2, <1>3, <1>4 DEF Holds

\* What runs at a hook, from the links that the manager holds.
LEMMA RunningIs ==
    ASSUME IInv, NEW n \in Names, ifs[n] # None, NEW h \in Hooks
    PROVE  /\ \A g \in Hooks : links[g][ifs[n]] \in Nat
           /\ ~OneBlock(ifs[n]) => Running(h, ifs[n]) = links[h][ifs[n]]
           /\ OneBlock(ifs[n]) =>
                Running(h, ifs[n]) = IF h = "ingress"
                                     THEN links["ingress"][ifs[n]] + links["egress"][ifs[n]] ELSE 0
  <1>1. ifs[n] \in Ifindexes
    BY DEF IInv, TypeInv
  <1>2. \A g \in Hooks : links[g][ifs[n]] \in Nat
    BY <1>1 DEF IInv, TypeInv
  <1> QED  BY <1>2 DEF Running

\* As long as no detach fails, every program on a TAP's interface is one that the manager
\* can take off again, whatever comes and goes during a scan, and a hook runs one; the
\* ingress hook runs two where another tool's ingress qdisc takes both programs.
THEOREM ProgramsOwnedOnce == Spec => []OwnedOnce
  <1>1. ASSUME IInv, ~leaked, NEW n \in Names, ifs[n] # None, NEW h \in Hooks
        PROVE  /\ links[h][ifs[n]] = Owners(h, ifs[n])
               /\ OneBlock(ifs[n]) => Running(h, ifs[n]) <= 2
               /\ ~OneBlock(ifs[n]) => Running(h, ifs[n]) <= 1
    <2>1. \A g \in Hooks : /\ links[g][ifs[n]] = IF Holds(n, g) THEN 1 ELSE 0
                           /\ links[g][ifs[n]] \in Nat /\ links[g][ifs[n]] <= 1
      BY <1>1 DEF IInv, LinkInv
    <2>2. links[h][ifs[n]] = Owners(h, ifs[n])
      BY <1>1, <2>1, OwnersAreHolders
    <2>3. "ingress" \in Hooks /\ "egress" \in Hooks
      BY DEF Hooks
    <2>4. ASSUME OneBlock(ifs[n]) PROVE Running(h, ifs[n]) <= 2
      <3>1. Running(h, ifs[n]) = IF h = "ingress"
                                 THEN links["ingress"][ifs[n]] + links["egress"][ifs[n]] ELSE 0
        BY <1>1, <2>4, RunningIs
      <3> QED  BY <2>1, <2>3, <3>1
    <2>5. ASSUME ~OneBlock(ifs[n]) PROVE Running(h, ifs[n]) <= 1
      <3>1. Running(h, ifs[n]) = links[h][ifs[n]]
        BY <1>1, <2>5, RunningIs
      <3> QED  BY <2>1, <3>1
    <2> QED  BY <2>2, <2>4, <2>5
  <1>2. IInv => OwnedOnce
    BY <1>1 DEF OwnedOnce
  <1> QED  BY <1>2, Invariance, PTL

\* A TAP that the manager holds attached under its present ifindex runs the program of each
\* hook, or both on the ingress block of another tool's ingress qdisc.
THEOREM AttachedMeansBoth == Spec => []AttachedIsWhole
  <1>1. ASSUME IInv, NEW n \in Names, attached[n] # None, attached[n].ifindex = ifs[n]
        PROVE  IF OneBlock(ifs[n]) THEN Running("ingress", ifs[n]) >= 2
               ELSE \A h \in Hooks : Running(h, ifs[n]) >= 1
    <2>1. ifs[n] # None
      BY <1>1, NoneIsNoIfindex, RecordedFields DEF IInv
    <2>2. \A h \in Hooks : links[h][ifs[n]] >= 1
      BY <1>1, <2>1 DEF IInv, LinkInv, HomeInv, Holds
    <2>3. "ingress" \in Hooks /\ "egress" \in Hooks
      BY DEF Hooks
    <2>4. CASE OneBlock(ifs[n])
      <3>1. Running("ingress", ifs[n]) = links["ingress"][ifs[n]] + links["egress"][ifs[n]]
        BY <1>1, <2>1, <2>3, <2>4, RunningIs
      <3>2. links["ingress"][ifs[n]] \in Nat /\ links["egress"][ifs[n]] \in Nat
        BY <1>1, <2>1, <2>3, RunningIs
      <3>3. Running("ingress", ifs[n]) >= 2
        BY <2>2, <2>3, <3>1, <3>2
      <3> QED  BY <2>4, <3>3
    <2>5. CASE ~OneBlock(ifs[n])
      <3>1. \A h \in Hooks : Running(h, ifs[n]) = links[h][ifs[n]]
        BY <1>1, <2>1, <2>5, RunningIs
      <3> QED  BY <2>2, <2>5, <3>1
    <2> QED  BY <2>4, <2>5
  <1>2. IInv => AttachedIsWhole
    BY <1>1 DEF AttachedIsWhole
  <1> QED  BY <1>2, Invariance, PTL

\* No scan ends with a TAP it found passed over: it is attached, or an attach failed on it.
THEOREM EveryTapIsAttempted == Spec => RecreatedIsAttempted
  <1>1. ASSUME IInv, [Next]_vars, pc = "attach", pc' = "idle"
        PROVE  \A n \in Names : found[n] # None => Current(n, found) \/ found[n] \in failed
    <2>1. to_add = {}
      BY <1>1 DEF Next, Bridge, Scanning, Reconcile, Create, Destroy, Scan, Detach, NextTap,
         DetachesDone, ScanDone, AttachIngress, EnsureClsact, AttachEgress, DetachIngress,
         Shutdown, vars
    <2> QED  BY <1>1, <2>1 DEF IInv, ScanInv, Attaching, HasIngress
  <1> QED  BY <1>1, Invariance, PTL DEF Spec, RecreatedIsAttempted

=============================================================================
