--------------------------- MODULE PolicerProofs ---------------------------
(***************************************************************************)
(* Proofs about Policer for any number of CPUs, policies, packet lengths,  *)
(* tick lengths, ring size and run length.  They are about flows whose     *)
(* install displaced no packet (displaced = None), but for SameDecisions   *)
(* and AdmissibleFrames, which say so themselves.                          *)
(*                                                                         *)
(* Each invariant relates an algorithm's state to the history of packets:  *)
(* what passed since a packet is still in the bucket or has had the time   *)
(* to leave it (BucketOk), lies between that packet and the arrival time   *)
(* (GcraOk), was used in windows that began less than a window before      *)
(* (WindowOk), and is in the ring one packet to a slot (LogOk).            *)
(*                                                                         *)
(* The library defines its sums by CHOOSE over recursive functions; that   *)
(* they add up is proved from a minimal subset that would not.             *)
(***************************************************************************)
EXTENDS Policer, FiniteSetTheorems, WellFoundedInduction, TLAPS

-----------------------------------------------------------------------------
(* Sums of packet lengths *)

LenSum(J, T) == MapThenSumSet(LAMBDA k : J[k].len, T)

Chosen(s) == CHOOSE x \in s : TRUE
Step(J, f, s) == IF s = {} THEN 0 ELSE J[Chosen(s)].len + f[s \ {Chosen(s)}]
Sums(J, S) == CHOOSE f : f = [s \in SUBSET S |-> Step(J, f, s)]
Adds(J, f, S) == \A s \in SUBSET S : f[s] = Step(J, f, s)

\* The sum as the library folds it: a function on subsets that is defined by itself.
LEMMA LenSumIsSums ==
    ASSUME NEW J, NEW S PROVE LenSum(J, S) = Sums(J, S)[S]
  BY DEF LenSum, MapThenSumSet, MapThenFoldSet, Sums, Step, Chosen

LEMMA ChosenIn == ASSUME NEW s, s # {} PROVE Chosen(s) \in s
  BY DEF Chosen

\* A set of subsets of a finite set has a minimal one.
LEMMA Minimal ==
    ASSUME NEW S, IsFiniteSet(S), NEW B, B \subseteq SUBSET S, B # {}
    PROVE  \E T \in B : \A U \in B : U \subseteq T => U = T
  <1>1. B \subseteq FiniteSubsetsOf(S)
    BY FS_FiniteSubsetsOfFinite
  <1>2. IsWellFoundedOn(StrictSubsetOrdering(S), FiniteSubsetsOf(S))
    BY FS_StrictSubsetOrderingWellFounded
  <1>3. PICK T \in B : \A U \in B : ~ (<<U, T>> \in StrictSubsetOrdering(S))
    BY <1>1, <1>2, WFMin
  <1>4. ASSUME NEW U \in B, U \subseteq T PROVE U = T
    <2>1. U \in SUBSET S /\ T \in SUBSET S
      OBVIOUS
    <2>2. U # T => <<U, T>> \in StrictSubsetOrdering(S)
      BY <2>1, <1>4 DEF StrictSubsetOrdering
    <2> QED
      BY <2>2, <1>3
  <1> QED
    BY <1>4

\* Two functions that add up agree on a finite set: a smallest set where they do not has
\* an element less, where they do.
LEMMA AddsUnique ==
    ASSUME NEW J, NEW U, NEW V, NEW f, NEW g, NEW S, IsFiniteSet(S), S \subseteq U, S \subseteq V,
           Adds(J, f, U), Adds(J, g, V)
    PROVE  \A s \in SUBSET S : f[s] = g[s]
  <1> DEFINE B == {s \in SUBSET S : f[s] # g[s]}
  <1>1. SUFFICES ASSUME B # {} PROVE FALSE
    OBVIOUS
  <1>2. PICK T \in B : \A s \in B : s \subseteq T => s = T
    <2>1. B \subseteq SUBSET S
      OBVIOUS
    <2> HIDE DEF B
    <2> QED BY <1>1, <2>1, Minimal
  <1>3. T \in SUBSET S /\ f[T] = Step(J, f, T) /\ g[T] = Step(J, g, T)
    BY DEF Adds
  <1>4. CASE T = {}
    BY <1>2, <1>3, <1>4 DEF Step
  <1>5. CASE T # {}
    <2>1. Chosen(T) \in T
      BY <1>5, ChosenIn
    <2>2. T \ {Chosen(T)} \in SUBSET S /\ T \ {Chosen(T)} # T /\ T \ {Chosen(T)} \subseteq T
      BY <2>1, <1>3
    <2>3. T \ {Chosen(T)} \notin B
      BY <2>2, <1>2
    <2>4. f[T \ {Chosen(T)}] = g[T \ {Chosen(T)}]
      BY <2>2, <2>3
    <2> QED
      BY <2>4, <1>2, <1>3, <1>5 DEF Step
  <1> QED
    BY <1>4, <1>5

Total(J, s) == (CHOOSE f : Adds(J, f, s))[s]

\* A finite set has a function that adds up.
LEMMA AddsExists ==
    ASSUME NEW J, NEW S, IsFiniteSet(S)
    PROVE  \E f : Adds(J, f, S)
  <1> DEFINE B == {s \in SUBSET S : ~ \E f : Adds(J, f, s)}
  <1>1. SUFFICES ASSUME B # {} PROVE FALSE
    OBVIOUS
  <1>2. PICK T \in B : \A s \in B : s \subseteq T => s = T
    <2>1. B \subseteq SUBSET S
      OBVIOUS
    <2> HIDE DEF B
    <2> QED BY <1>1, <2>1, Minimal
  <1>3. \A s \in SUBSET T : s # T => Adds(J, CHOOSE f : Adds(J, f, s), s)
    BY <1>2
  <1> DEFINE sub(s) == s \ {Chosen(s)}
             g == [s \in SUBSET T |->
                     IF s = {} THEN 0 ELSE J[Chosen(s)].len + Total(J, sub(s))]
  <1>4. ASSUME NEW s \in SUBSET T, s # T PROVE g[s] = Total(J, s)
    <2>1. Total(J, s) = Step(J, CHOOSE f : Adds(J, f, s), s)
      BY <1>3, <1>4 DEF Total, Adds
    <2>2. CASE s = {}
      BY <2>1, <2>2 DEF Step
    <2>3. CASE s # {}
      <3>1. sub(s) \in SUBSET s /\ sub(s) \in SUBSET T /\ sub(s) # T /\ IsFiniteSet(sub(s))
        BY <2>3, ChosenIn, FS_Subset
      <3>2. Adds(J, CHOOSE f : Adds(J, f, s), s)
        BY <1>3, <1>4
      <3>3. Adds(J, CHOOSE f : Adds(J, f, sub(s)), sub(s))
        BY <1>3, <3>1
      <3>4. (CHOOSE f : Adds(J, f, s))[sub(s)] = Total(J, sub(s))
        <4> DEFINE f1 == CHOOSE f : Adds(J, f, s)
                   f2 == CHOOSE f : Adds(J, f, sub(s))
                   V == sub(s)
        <4>1. Adds(J, f1, s) /\ Adds(J, f2, V) /\ V \subseteq s /\ IsFiniteSet(V)
          BY <3>1, <3>2, <3>3
        <4>2. f1[V] = f2[V]
          <5> HIDE DEF f1, f2, V
          <5> QED BY <4>1, AddsUnique
        <4> QED
          BY <4>2 DEF Total
      <3> QED
        BY <2>1, <2>3, <3>4 DEF Step
    <2> QED
      BY <2>2, <2>3
  <1>5. Adds(J, g, T)
    <2>1. SUFFICES ASSUME NEW s \in SUBSET T PROVE g[s] = Step(J, g, s)
      BY DEF Adds
    <2>2. CASE s = {}
      BY <2>2 DEF Step
    <2>3. CASE s # {}
      <3>1. sub(s) \in SUBSET T /\ sub(s) # T
        BY <2>3, ChosenIn
      <3>2. g[sub(s)] = Total(J, sub(s))
        BY <3>1, <1>4
      <3>3. g[s] = J[Chosen(s)].len + Total(J, sub(s))
        BY <2>3
      <3> HIDE DEF g
      <3> QED
        BY <3>2, <3>3, <2>3 DEF Step
    <2> QED
      BY <2>2, <2>3
  <1> QED
    BY <1>2, <1>5

\* Totals do what the functions they come from do, one element at a time.
LEMMA TotalStep ==
    ASSUME NEW J, NEW S, IsFiniteSet(S)
    PROVE  Total(J, S) = IF S = {} THEN 0 ELSE J[Chosen(S)].len + Total(J, S \ {Chosen(S)})
  <1> DEFINE f1 == CHOOSE f : Adds(J, f, S)
             V == S \ {Chosen(S)}
             f2 == CHOOSE f : Adds(J, f, V)
  <1>1. Adds(J, f1, S)
    BY AddsExists
  <1>2. V \subseteq S /\ IsFiniteSet(V)
    BY FS_Subset
  <1>3. Adds(J, f2, V)
    BY <1>2, AddsExists
  <1>4. f1[V] = f2[V]
    <2> HIDE DEF f1, f2, V
    <2> QED BY <1>1, <1>2, <1>3, AddsUnique
  <1>5. f1[S] = IF S = {} THEN 0 ELSE J[Chosen(S)].len + f1[V]
    <2> HIDE DEF f1
    <2> QED BY <1>1 DEF Adds, Step
  <1>6. Total(J, S) = f1[S] /\ Total(J, V) = f2[V]
    BY DEF Total
  <1> QED
    <2> HIDE DEF f1, f2
    <2> QED BY <1>4, <1>5, <1>6

\* The library's sum is the total.
LEMMA LenSumIsTotal ==
    ASSUME NEW J, NEW S, IsFiniteSet(S)
    PROVE  LenSum(J, S) = Total(J, S)
  <1> DEFINE f == Sums(J, S)
             h == [s \in SUBSET S |-> Total(J, s)]
             g == CHOOSE x : Adds(J, x, S)
  <1>1. h = [s \in SUBSET S |-> Step(J, h, s)]
    <2>1. ASSUME NEW s \in SUBSET S PROVE h[s] = Step(J, h, s)
      <3>1. IsFiniteSet(s) /\ s \ {Chosen(s)} \in SUBSET S
        BY FS_Subset
      <3>2. Total(J, s) = IF s = {} THEN 0 ELSE J[Chosen(s)].len + Total(J, s \ {Chosen(s)})
        BY <3>1, TotalStep
      <3> QED
        BY <3>1, <3>2 DEF Step
    <2> QED
      BY <2>1
  <1>2. f = [s \in SUBSET S |-> Step(J, f, s)]
    <2> HIDE DEF h
    <2> QED BY <1>1 DEF Sums
  <1>3. Adds(J, f, S)
    <2> HIDE DEF f
    <2> QED BY <1>2 DEF Adds
  <1>4. Adds(J, g, S)
    BY AddsExists
  <1>5. f[S] = g[S]
    <2> HIDE DEF f, g
    <2> QED BY <1>3, <1>4, AddsUnique
  <1> QED
    BY <1>5, LenSumIsSums DEF Total

\* The sum of the lengths of a finite set of packets is a number.
LEMMA TotalNat ==
    ASSUME NEW J, NEW S, IsFiniteSet(S), \A k \in S : J[k].len \in Nat
    PROVE  Total(J, S) \in Nat
  <1> DEFINE B == {s \in SUBSET S : Total(J, s) \notin Nat}
  <1>1. SUFFICES ASSUME B # {} PROVE FALSE
    OBVIOUS
  <1>2. PICK T \in B : \A s \in B : s \subseteq T => s = T
    <2>1. B \subseteq SUBSET S
      OBVIOUS
    <2> HIDE DEF B
    <2> QED BY <1>1, <2>1, Minimal
  <1>3. IsFiniteSet(T) /\ T \subseteq S
    BY FS_Subset
  <1>4. Total(J, T) = IF T = {} THEN 0 ELSE J[Chosen(T)].len + Total(J, T \ {Chosen(T)})
    BY <1>3, TotalStep
  <1>5. T # {}
    BY <1>4
  <1>6. Chosen(T) \in T
    BY <1>5, ChosenIn
  <1>7. T \ {Chosen(T)} \notin B
    BY <1>6, <1>2
  <1>8. Total(J, T \ {Chosen(T)}) \in Nat
    BY <1>7, <1>3
  <1>9. Total(J, T) \in Nat
    BY <1>4, <1>5, <1>6, <1>8, <1>3
  <1> QED
    BY <1>9

\* Any packet may be taken out of the sum first.
LEMMA TotalRemove ==
    ASSUME NEW J, NEW S, IsFiniteSet(S), \A k \in S : J[k].len \in Nat, NEW x \in S
    PROVE  Total(J, S) = J[x].len + Total(J, S \ {x})
  <1> DEFINE B == {s \in SUBSET S : \E y \in s : Total(J, s) # J[y].len + Total(J, s \ {y})}
  <1>1. SUFFICES ASSUME B # {} PROVE FALSE
    <2>1. S \notin B
      OBVIOUS
    <2> QED BY <2>1
  <1>2. PICK T \in B : \A s \in B : s \subseteq T => s = T
    <2>1. B \subseteq SUBSET S
      OBVIOUS
    <2> HIDE DEF B
    <2> QED BY <1>1, <2>1, Minimal
  <1>3. IsFiniteSet(T) /\ T \subseteq S
    BY FS_Subset
  <1>4. PICK y \in T : Total(J, T) # J[y].len + Total(J, T \ {y})
    OBVIOUS
  <1>a. SUFFICES ASSUME NEW c, c = Chosen(T) PROVE FALSE
    OBVIOUS
  <1>5. c \in T /\ Total(J, T) = J[c].len + Total(J, T \ {c})
    BY <1>3, <1>4, <1>a, TotalStep, ChosenIn
  <1>6. c # y
    BY <1>4, <1>5
  <1>7. T \ {c} \notin B /\ T \ {y} \notin B
    BY <1>5, <1>4, <1>2
  <1>8. Total(J, T \ {c}) = J[y].len + Total(J, (T \ {c}) \ {y})
    BY <1>7, <1>6, <1>5, <1>3
  <1>9. Total(J, T \ {y}) = J[c].len + Total(J, (T \ {y}) \ {c})
    BY <1>7, <1>6, <1>5, <1>3
  <1>10. (T \ {c}) \ {y} = (T \ {y}) \ {c}
    OBVIOUS
  <1>11. Total(J, (T \ {y}) \ {c}) \in Nat
    <2>1. IsFiniteSet((T \ {y}) \ {c}) /\ \A k \in (T \ {y}) \ {c} : J[k].len \in Nat
      BY <1>3, FS_Subset
    <2> QED BY <2>1, TotalNat
  <1>12. J[c].len \in Nat /\ J[y].len \in Nat
    BY <1>3, <1>5
  <1> QED
    <2>a. SUFFICES ASSUME NEW t1, t1 = Total(J, (T \ {y}) \ {c}), NEW t2, t2 = Total(J, T \ {y}),
                         NEW t3, t3 = Total(J, T \ {c}), NEW t, t = Total(J, T) PROVE FALSE
      OBVIOUS
    <2>1. t3 = J[y].len + t1 /\ t2 = J[c].len + t1 /\ t = J[c].len + t3 /\ t # J[y].len + t2 /\ t1 \in Nat
      BY <1>4, <1>5, <1>8, <1>9, <1>10, <1>11, <2>a
    <2> QED BY <2>1, <1>12

\* Sums that agree on every packet are the same.
LEMMA TotalSame ==
    ASSUME NEW J, NEW K, NEW S, IsFiniteSet(S), \A k \in S : J[k].len = K[k].len
    PROVE  Total(J, S) = Total(K, S)
  <1> DEFINE B == {s \in SUBSET S : Total(J, s) # Total(K, s)}
  <1>1. SUFFICES ASSUME B # {} PROVE FALSE
    <2>1. S \notin B
      OBVIOUS
    <2> QED BY <2>1
  <1>2. PICK T \in B : \A s \in B : s \subseteq T => s = T
    <2>1. B \subseteq SUBSET S
      OBVIOUS
    <2> HIDE DEF B
    <2> QED BY <1>1, <2>1, Minimal
  <1>3. IsFiniteSet(T) /\ T \subseteq S
    BY FS_Subset
  <1>4. /\ Total(J, T) = IF T = {} THEN 0 ELSE J[Chosen(T)].len + Total(J, T \ {Chosen(T)})
        /\ Total(K, T) = IF T = {} THEN 0 ELSE K[Chosen(T)].len + Total(K, T \ {Chosen(T)})
    BY <1>3, TotalStep
  <1>5. T # {}
    BY <1>4
  <1>6. Chosen(T) \in T
    BY <1>5, ChosenIn
  <1>7. T \ {Chosen(T)} \notin B
    BY <1>6, <1>2
  <1>8. Total(J, T \ {Chosen(T)}) = Total(K, T \ {Chosen(T)})
    BY <1>7, <1>3
  <1>9. Total(J, T) = Total(K, T)
    BY <1>4, <1>5, <1>6, <1>8, <1>3
  <1> QED
    BY <1>9

\* What the proofs below know of sums.
LEMMA LenSumEmpty ==
    ASSUME NEW J PROVE LenSum(J, {}) = 0
  <1>1. IsFiniteSet({})
    BY FS_EmptySet
  <1> QED
    BY <1>1, LenSumIsTotal, TotalStep

LEMMA LenSumNat ==
    ASSUME NEW J, NEW S, IsFiniteSet(S), \A k \in S : J[k].len \in Nat
    PROVE  LenSum(J, S) \in Nat
  BY LenSumIsTotal, TotalNat

LEMMA LenSumAdd ==
    ASSUME NEW J, NEW S, IsFiniteSet(S), NEW x, x \notin S,
           \A k \in S \cup {x} : J[k].len \in Nat
    PROVE  LenSum(J, S \cup {x}) = LenSum(J, S) + J[x].len
  <1>1. IsFiniteSet(S \cup {x}) /\ (S \cup {x}) \ {x} = S
    BY FS_AddElement
  <1>2. Total(J, S \cup {x}) = J[x].len + Total(J, S)
    BY <1>1, TotalRemove
  <1>3. Total(J, S) \in Nat /\ J[x].len \in Nat
    BY TotalNat
  <1> QED
    BY <1>1, <1>2, <1>3, LenSumIsTotal

LEMMA LenSumSame ==
    ASSUME NEW J, NEW K, NEW S, IsFiniteSet(S), \A k \in S : J[k].len = K[k].len
    PROVE  LenSum(J, S) = LenSum(K, S)
  BY LenSumIsTotal, TotalSame

\* A part of a set sums to no more than the whole.
LEMMA LenSumPart ==
    ASSUME NEW J, NEW S, IsFiniteSet(S), NEW T, T \subseteq S, \A k \in S : J[k].len \in Nat
    PROVE  LenSum(J, T) <= LenSum(J, S)
  <1> DEFINE B == {s \in SUBSET (S \ T) : ~(LenSum(J, T) <= LenSum(J, T \cup s))}
  <1>1. IsFiniteSet(S \ T) /\ IsFiniteSet(T)
    BY FS_Subset, FS_Difference
  <1>2. S = T \cup (S \ T)
    OBVIOUS
  <1>3. SUFFICES ASSUME B # {} PROVE FALSE
    <2>1. S \ T \notin B
      BY <1>3
    <2> QED
      BY <2>1, <1>2
  <1>4. PICK D \in B : \A s \in B : s \subseteq D => s = D
    <2>1. B \subseteq SUBSET (S \ T)
      OBVIOUS
    <2> HIDE DEF B
    <2> QED BY <1>1, <1>3, <2>1, Minimal
  <1>5. D \subseteq S \ T /\ ~(LenSum(J, T) <= LenSum(J, T \cup D))
    OBVIOUS
  <1>6. LenSum(J, T) \in Nat
    BY <1>1, LenSumNat
  <1>7. D # {}
    <2>1. CASE D = {}
      <3>1. T \cup D = T
        BY <2>1
      <3> QED
        BY <3>1, <1>5, <1>6
    <2> QED
      BY <2>1
  <1>8. PICK x \in D : TRUE
    BY <1>7
  <1>b. SUFFICES ASSUME NEW d, d = D \ {x} PROVE FALSE
    OBVIOUS
  <1>9. LenSum(J, T) <= LenSum(J, T \cup d)
    <2>1. d \notin B /\ d \in SUBSET (S \ T)
      BY <1>b, <1>4, <1>5, <1>8
    <2> QED
      BY <2>1
  <1>10. T \cup D = (T \cup d) \cup {x} /\ x \notin T \cup d /\ T \cup d \subseteq S /\ x \in S
    BY <1>b, <1>5, <1>8
  <1>11. IsFiniteSet(T \cup d)
    BY <1>10, FS_Subset
  <1>12. LenSum(J, (T \cup d) \cup {x}) = LenSum(J, T \cup d) + J[x].len
    <2>1. \A k \in (T \cup d) \cup {x} : J[k].len \in Nat
      BY <1>10
    <2> QED
      BY <2>1, <1>10, <1>11, LenSumAdd
  <1>13. LenSum(J, T \cup d) \in Nat /\ J[x].len \in Nat
    BY <1>10, <1>11, LenSumNat
  <1>14. LenSum(J, T \cup D) = LenSum(J, T \cup d) + J[x].len
    BY <1>10, <1>12
  <1> QED
    BY <1>5, <1>6, <1>9, <1>13, <1>14

\* So do packets as the entries they are kept in, one for each.
LEMMA LenSumImage ==
    ASSUME NEW J, NEW E, NEW S, IsFiniteSet(S), NEW R, IsFiniteSet(R),
           NEW f, \A x \in S : f[x] \in R,
           \A x, y \in S : f[x] = f[y] => x = y,
           \A x \in S : J[x].len \in Nat /\ E[f[x]].len = J[x].len
    PROVE  LenSum(J, S) = LenSum(E, {f[x] : x \in S})
  <1> DEFINE Im(s) == {f[x] : x \in s}
             B == {s \in SUBSET S : LenSum(J, s) # LenSum(E, Im(s))}
  <1>1. SUFFICES ASSUME B # {} PROVE FALSE
    <2>1. S \notin B
      BY <1>1
    <2> QED
      BY <2>1
  <1>2. PICK D \in B : \A s \in B : s \subseteq D => s = D
    <2>1. B \subseteq SUBSET S
      OBVIOUS
    <2> HIDE DEF B
    <2> QED BY <1>1, <2>1, Minimal
  <1>3. D \subseteq S /\ LenSum(J, D) # LenSum(E, Im(D))
    OBVIOUS
  <1>4. D # {}
    <2>1. CASE D = {}
      <3>1. Im(D) = {}
        BY <2>1
      <3> QED
        BY <2>1, <3>1, <1>3, LenSumEmpty
    <2> QED
      BY <2>1
  <1>5. PICK x \in D : TRUE
    BY <1>4
  <1>b. SUFFICES ASSUME NEW d, d = D \ {x}, NEW m, m = Im(d) PROVE FALSE
    OBVIOUS
  <1>6. LenSum(J, d) = LenSum(E, m)
    <2>1. d \notin B /\ d \in SUBSET S
      BY <1>b, <1>2, <1>3, <1>5
    <2> QED
      BY <2>1, <1>b
  <1>7. D = d \cup {x} /\ x \notin d /\ IsFiniteSet(d) /\ d \subseteq S /\ x \in S
    <2>1. D = d \cup {x} /\ x \notin d /\ d \subseteq S /\ x \in S
      BY <1>b, <1>3, <1>5
    <2> QED
      BY <2>1, FS_Subset
  <1>8. Im(D) = m \cup {f[x]}
    BY <1>b, <1>7
  <1>9. f[x] \notin m
    BY <1>b, <1>7
  <1>10. IsFiniteSet(m)
    <2>1. m \subseteq R
      BY <1>b, <1>7
    <2> QED
      BY <2>1, FS_Subset
  <1>11. \A k \in m \cup {f[x]} : E[k].len \in Nat
    BY <1>b, <1>7
  <1>12. \A k \in d \cup {x} : J[k].len \in Nat
    BY <1>7
  <1> HIDE DEF Im
  <1>13. LenSum(J, D) = LenSum(J, d) + J[x].len
    BY <1>7, <1>12, LenSumAdd
  <1>14. LenSum(E, Im(D)) = LenSum(E, m) + E[f[x]].len
    BY <1>8, <1>9, <1>10, <1>11, LenSumAdd
  <1>15. E[f[x]].len = J[x].len
    BY <1>7
  <1> QED
    BY <1>3, <1>6, <1>13, <1>14, <1>15

-----------------------------------------------------------------------------
(* Numbers.  The provers need the products named. *)

\* A nonempty set of naturals has a least element.
LEMMA LeastNat ==
    ASSUME NEW S, S \subseteq Nat, S # {}
    PROVE  Min(S) \in S /\ \A n \in S : Min(S) <= n
  <1>1. PICK m \in S : \A n \in S : ~ (<<n, m>> \in OpToRel(<, Nat))
    BY NatLessThanWellFounded, WFMin, Zenon
  <1>2. ASSUME NEW n \in S PROVE m <= n
    <2>1. n \in Nat /\ m \in Nat
      OBVIOUS
    <2>2. ~ (<<n, m>> \in OpToRel(<, Nat))
      BY <1>1
    <2>3. ~ (n < m)
      BY <2>1, <2>2, Zenon DEF OpToRel
    <2> QED
      BY <2>1, <2>3
  <1>3. \E x \in S : \A y \in S : x <= y
    BY <1>2
  <1> QED
    BY <1>3 DEF Min

\* Monotonicity and distributivity of products.
LEMMA TimesNat == \A x, y \in Nat : x * y \in Nat
  OBVIOUS

LEMMA TimesMono ==
    ASSUME NEW k \in Nat, NEW x \in Nat, NEW y \in Nat, x <= y
    PROVE  k * x <= k * y
  OBVIOUS

LEMMA TimesStrict ==
    ASSUME NEW k \in Nat \ {0}, NEW x \in Nat, NEW y \in Nat, k * x <= k * y
    PROVE  x <= y
  OBVIOUS

LEMMA TimesDiff ==
    ASSUME NEW k \in Nat, NEW x \in Int, NEW y \in Int
    PROVE  k * (x - y) = k * x - k * y
  OBVIOUS

LEMMA TimesSum ==
    ASSUME NEW k \in Nat, NEW x \in Int, NEW y \in Int
    PROVE  k * (x + y) = k * x + k * y
  OBVIOUS

\* What a division rounds away.
LEMMA DivBounds ==
    ASSUME NEW x \in Nat, NEW k \in Nat \ {0}
    PROVE  /\ x \div k \in Nat
           /\ k * (x \div k) <= x
           /\ x < k * (x \div k) + k
           /\ x % k = 0 => k * (x \div k) = x
  OBVIOUS

\* Rates, capacities and times of a policy that validation accepts.
LEMMA Rates ==
    ASSUME NEW p, check_policy_bounds(p)
    PROVE  /\ p.rate_bps \in Nat \ {0} /\ PerNs(p) \in Nat \ {0}
           /\ 8 * PerNs(p) <= p.rate_bps
           /\ Capacity(p) \in Nat /\ FullNs(p) \in Nat
           /\ PerNs(p) * FullNs(p) <= Capacity(p)
           /\ Capacity(p) < PerNs(p) * FullNs(p) + PerNs(p)
  <1>1. p.rate_bps \in Nat /\ p.rate_bps >= 8 /\ p.burst_bytes \in Nat /\ NsPerSec \in Nat
    BY PolicerAssumption DEF check_policy_bounds, BitsPerByte
  <1>2. PerNs(p) \in Nat \ {0} /\ 8 * PerNs(p) <= p.rate_bps
    BY <1>1, DivBounds DEF PerNs, BitsPerByte
  <1>3. Capacity(p) \in Nat
    BY <1>1, TimesNat DEF Capacity
  <1> QED
    BY <1>1, <1>2, <1>3, DivBounds DEF FullNs

LEMMA CostNat == ASSUME NEW len \in Nat PROVE Cost(len) \in Nat
  BY PolicerAssumption, TimesNat DEF Cost

\* A packet's emission interval is its cost in time, rounded down.
LEMMA Emissions ==
    ASSUME NEW p, check_policy_bounds(p), NEW len \in Nat
    PROVE  /\ Emission(p, len) \in Nat
           /\ p.rate_bps * Emission(p, len) <= 8 * Cost(len)
           /\ 8 * Cost(len) < p.rate_bps * Emission(p, len) + p.rate_bps
  <1>1. p.rate_bps \in Nat \ {0} /\ NsPerSec \in Nat
    BY Rates, PolicerAssumption
  <1>2. len * 8 * NsPerSec = 8 * Cost(len) /\ 8 * Cost(len) \in Nat
    BY <1>1, TimesNat DEF Cost
  <1>3. Emission(p, len) = (8 * Cost(len)) \div p.rate_bps
    BY <1>2 DEF Emission, BitsPerByte
  <1> QED
    BY <1>1, <1>2, <1>3, DivBounds

\* The divisions of the policy are exact: what Exact says of the flow's policy.
ExactFor(p) == p.rate_bps % 8 = 0 /\ NsPerSec % PerNs(p) = 0

\* Without remainders the bucket algorithms' divisions lose nothing.
LEMMA ExactRates ==
    ASSUME NEW p, check_policy_bounds(p), ExactFor(p)
    PROVE  /\ 8 * PerNs(p) = p.rate_bps
           /\ PerNs(p) * FullNs(p) = Capacity(p)
           /\ FullNs(p) = Emission(p, p.burst_bytes)
           /\ \A len \in Nat : /\ p.rate_bps * Emission(p, len) = 8 * Cost(len)
                               /\ PerNs(p) * Emission(p, len) = Cost(len)
  <1>a. SUFFICES ASSUME NEW r, r = PerNs(p), NEW k, k = NsPerSec \div PerNs(p),
                        NEW rate, rate = p.rate_bps
                 PROVE  /\ 8 * r = rate
                        /\ r * FullNs(p) = Capacity(p)
                        /\ FullNs(p) = Emission(p, p.burst_bytes)
                        /\ \A len \in Nat : /\ rate * Emission(p, len) = 8 * Cost(len)
                                            /\ r * Emission(p, len) = Cost(len)
    OBVIOUS
  <1>1. rate \in Nat \ {0} /\ r \in Nat \ {0} /\ NsPerSec \in Nat /\ p.burst_bytes \in Nat
    BY <1>a, Rates, PolicerAssumption DEF check_policy_bounds
  <1>2. 8 * r = rate
    BY <1>a, <1>1, DivBounds DEF PerNs, ExactFor, BitsPerByte
  <1>3. k \in Nat /\ r * k = NsPerSec
    BY <1>a, <1>1, DivBounds DEF ExactFor
  <1>4. ASSUME NEW len \in Nat
        PROVE  /\ Cost(len) = r * (len * k) /\ Emission(p, len) = len * k
               /\ Cost(len) \div r = len * k
    <2>0. len * k \in Nat
      BY <1>3, TimesNat
    <2>a. SUFFICES ASSUME NEW m, m = len * k PROVE Cost(len) = r * m /\ Emission(p, len) = m /\ Cost(len) \div r = m
      OBVIOUS
    <2>1. Cost(len) = r * m
      <3>1. len * (r * k) = r * (len * k)
        BY <1>1, <1>3
      <3> QED
        BY <1>3, <3>1, <2>a DEF Cost
    <2>2. m \in Nat /\ Cost(len) \in Nat /\ len * 8 * NsPerSec = 8 * Cost(len)
      BY <2>0, <2>a, <1>1, CostNat DEF Cost
    <2>3. 8 * Cost(len) = rate * m
      BY <2>1, <2>2, <1>1, <1>2
    <2>4. (rate * m) \div rate = m /\ (r * m) \div r = m
      BY <2>2, <1>1
    <2> QED
      BY <2>1, <2>2, <2>3, <2>4, <1>a DEF Emission, BitsPerByte
  <1>5. Capacity(p) = Cost(p.burst_bytes) /\ FullNs(p) = Capacity(p) \div r
    BY <1>a DEF Capacity, Cost, FullNs
  <1>6. FullNs(p) = p.burst_bytes * k
    BY <1>1, <1>4, <1>5
  <1>7. ASSUME NEW len \in Nat PROVE rate * Emission(p, len) = 8 * Cost(len)
    <2>0. len * k \in Nat
      BY <1>3, TimesNat
    <2>a. SUFFICES ASSUME NEW m, m = len * k, m \in Nat PROVE rate * Emission(p, len) = 8 * Cost(len)
      BY <2>0
    <2>1. Cost(len) = r * m /\ Emission(p, len) = m
      BY <1>4, <2>a
    <2> QED
      BY <2>1, <1>1, <1>2, <2>a
  <1> QED
    BY <1>1, <1>2, <1>4, <1>5, <1>6, <1>7

\* What a bucket loses until now: at most its rate, but for the rounding.
LEMMA Drains ==
    ASSUME NEW p, check_policy_bounds(p), NEW s, s.a \in Nat, s.a <= Capacity(p), s.b \in Nat,
           NEW now \in Nat
    PROVE  /\ Drained(p, s, now) \in Nat /\ Drained(p, s, now) <= s.a
           /\ Later(now, s.b) \in Nat /\ now <= Later(now, s.b) /\ s.b <= Later(now, s.b)
           /\ 8 * s.a <= 8 * Drained(p, s, now) + p.rate_bps * (Later(now, s.b) - s.b)
                + IF ExactFor(p) \/ Drained(p, s, now) > 0 \/ s.a = 0 THEN 0 ELSE p.rate_bps
  <1>a. SUFFICES ASSUME NEW r, r = PerNs(p), NEW full, full = FullNs(p), NEW cap, cap = Capacity(p),
                        NEW rate, rate = p.rate_bps, NEW L, L = s.a, NEW b, b = s.b
                 PROVE  /\ Drained(p, s, now) \in Nat /\ Drained(p, s, now) <= L
                        /\ Later(now, b) \in Nat /\ now <= Later(now, b) /\ b <= Later(now, b)
                        /\ 8 * L <= 8 * Drained(p, s, now) + rate * (Later(now, b) - b)
                             + IF ExactFor(p) \/ Drained(p, s, now) > 0 \/ L = 0 THEN 0 ELSE rate
    OBVIOUS
  <1>1. /\ rate \in Nat \ {0} /\ r \in Nat \ {0} /\ 8 * r <= rate /\ cap \in Nat /\ full \in Nat
        /\ r * full <= cap /\ cap < r * full + r /\ L \in Nat /\ L <= cap /\ b \in Nat
    BY <1>a, Rates
  <1>2. ExactFor(p) => r * full = cap
    BY <1>a, ExactRates
  <1>3. CASE now < b
    BY <1>1, <1>3, <1>a DEF Drained, Later
  <1>4. CASE now >= b
    <2>a. SUFFICES ASSUME NEW t \in Nat, t = now - b
                   PROVE  /\ Drained(p, s, now) \in Nat /\ Drained(p, s, now) <= L
                          /\ 8 * L <= 8 * Drained(p, s, now) + rate * t
                               + IF ExactFor(p) \/ Drained(p, s, now) > 0 \/ L = 0 THEN 0 ELSE rate
      BY <1>1, <1>4 DEF Later
    <2>1. 8 * (r * t) <= rate * t /\ r * t \in Nat /\ rate * t \in Nat
      <3>1. (8 * r) * t <= rate * t
        BY <1>1
      <3> QED
        BY <1>1, <3>1
    <2>2. CASE t >= full
      <3>1. Drained(p, s, now) = 0
        BY <2>2, <2>a, <1>4, <1>1, <1>a DEF Drained
      <3>2. r * full <= r * t
        BY <2>2, <1>1
      <3>b. SUFFICES ASSUME NEW rf, rf = r * full, NEW rt, rt = r * t, NEW x, x = rate * t
                     PROVE  8 * L <= x + IF ExactFor(p) \/ L = 0 THEN 0 ELSE rate
        BY <3>1, <1>1
      <3>3. rf \in Nat /\ rt \in Nat /\ x \in Nat /\ rf <= rt /\ 8 * rt <= x /\ cap < rf + r
        BY <3>b, <1>1, <2>1, <3>2, TimesNat
      <3>4. CASE ExactFor(p)
        BY <3>4, <3>3, <3>b, <1>1, <1>2
      <3>5. CASE ~ExactFor(p) /\ L = 0
        BY <3>5, <3>3, <3>b, <1>1
      <3>6. CASE ~ExactFor(p) /\ L # 0
        BY <3>6, <3>3, <3>b, <1>1
      <3> QED
        BY <3>4, <3>5, <3>6
    <2>3. CASE t < full
      <3>1. Drained(p, s, now) = Excess(L, t * r)
        BY <2>3, <2>a, <1>4, <1>1, <1>a DEF Drained
      <3>2. t * r = r * t
        BY <1>1
      <3>b. SUFFICES ASSUME NEW rt, rt = r * t, NEW x, x = rate * t, NEW D, D = Drained(p, s, now)
                     PROVE  D \in Nat /\ D <= L /\ 8 * L <= 8 * D + x
                              + IF ExactFor(p) \/ D > 0 \/ L = 0 THEN 0 ELSE rate
        BY <1>1
      <3>3. rt \in Nat /\ x \in Nat /\ 8 * rt <= x /\ D = IF L >= rt THEN L - rt ELSE 0
        BY <3>b, <2>1, <3>1, <3>2 DEF Excess
      <3>4. D \in Nat /\ D <= L /\ 8 * L <= 8 * D + x
        BY <3>3, <1>1
      <3> QED
        BY <3>4, <1>1, <3>3
    <2> QED
      BY <2>2, <2>3, <1>1
  <1> QED
    BY <1>3, <1>4, <1>1

-----------------------------------------------------------------------------
(* The two buckets as one: a token bucket is filled to what its tokens leave *)
(* of the capacity.                                                          *)

FlowState == [a : Nat, b : Nat, c : Nat]
Buckets == {"token_bucket", "leaky_bucket"}

Level(alg, p, s) == IF alg = "leaky_bucket" THEN s.a ELSE Capacity(p) - s.a
Leveled(alg, p, s) == [a |-> Level(alg, p, s), b |-> s.b, c |-> s.c]

\* The level a packet finds.
Found(alg, p, s, now) == Drained(p, Leveled(alg, p, s), now)

\* A token bucket's tokens are what the level leaves of the capacity.
LEMMA Refills ==
    ASSUME NEW p, check_policy_bounds(p), NEW s \in FlowState, s.a <= Capacity(p), NEW now \in Nat
    PROVE  Refilled(p, s, now) = Capacity(p) - Found("token_bucket", p, s, now)
  <1>a. SUFFICES ASSUME NEW r, r = PerNs(p), NEW full, full = FullNs(p), NEW cap, cap = Capacity(p),
                        NEW a, a = s.a, NEW b, b = s.b
                 PROVE  Refilled(p, s, now) = cap - Found("token_bucket", p, s, now)
    OBVIOUS
  <1>1. /\ r \in Nat \ {0} /\ cap \in Nat /\ full \in Nat /\ a \in Nat /\ a <= cap /\ b \in Nat
    BY <1>a, Rates DEF FlowState
  <1>2. /\ Leveled("token_bucket", p, s).a = cap - a
        /\ Leveled("token_bucket", p, s).b = b
    BY <1>a DEF Leveled, Level
  <1>3. CASE now < b
    BY <1>1, <1>2, <1>3, <1>a DEF Found, Drained, Refilled
  <1>4. CASE now >= b /\ now - b >= full
    BY <1>1, <1>2, <1>4, <1>a DEF Found, Drained, Refilled
  <1>5. CASE now >= b /\ now - b < full
    <2>1. Found("token_bucket", p, s, now) = Excess(cap - a, (now - b) * r)
      BY <1>1, <1>2, <1>5, <1>a DEF Found, Drained
    <2>2. Refilled(p, s, now) = Smaller(a + (now - b) * r, cap)
      BY <1>1, <1>5, <1>a DEF Refilled
    <2>3. (now - b) * r \in Nat
      BY <1>1, <1>5, TimesNat
    <2>b. SUFFICES ASSUME NEW x \in Nat, x = (now - b) * r
                   PROVE  Smaller(a + x, cap) = cap - Excess(cap - a, x)
      BY <2>1, <2>2, <2>3
    <2> QED
      BY <1>1 DEF Smaller, Excess
  <1> QED
    BY <1>1, <1>3, <1>4, <1>5

\* Both buckets pass a packet that fits on top of the level it finds, and keep the
\* latest time.
LEMMA BucketVerdict ==
    ASSUME NEW alg \in Buckets, NEW p, check_policy_bounds(p),
           NEW s \in FlowState, s.a <= Capacity(p), NEW now \in Nat, NEW len \in Nat
    PROVE  LET v == police(alg, p, s, now, len)
               D == Found(alg, p, s, now)
           IN  /\ D \in Nat /\ D <= Level(alg, p, s)
               /\ v.conform = (D + Cost(len) <= Capacity(p))
               /\ v.state \in FlowState /\ v.state.a <= Capacity(p)
               /\ v.state.b = Later(now, s.b)
               /\ Level(alg, p, v.state) = IF v.conform THEN D + Cost(len) ELSE D
  <1>a. SUFFICES ASSUME NEW cap, cap = Capacity(p), NEW cost, cost = Cost(len),
                        NEW D, D = Found(alg, p, s, now), NEW v, v = police(alg, p, s, now, len)
                 PROVE  /\ D \in Nat /\ D <= Level(alg, p, s)
                        /\ v.conform = (D + cost <= cap)
                        /\ v.state \in FlowState /\ v.state.a <= cap
                        /\ v.state.b = Later(now, s.b)
                        /\ Level(alg, p, v.state) = IF v.conform THEN D + cost ELSE D
    OBVIOUS
  <1>1. cap \in Nat /\ cost \in Nat /\ s.a \in Nat /\ s.b \in Nat /\ s.a <= cap
    BY <1>a, Rates, CostNat DEF FlowState
  <1>2. Level(alg, p, s) \in Nat /\ Level(alg, p, s) <= cap
    BY <1>1, <1>a DEF Level
  <1>3. D \in Nat /\ D <= Level(alg, p, s)
    <2>1. /\ Leveled(alg, p, s).a \in Nat /\ Leveled(alg, p, s).a <= Capacity(p)
          /\ Leveled(alg, p, s).b \in Nat /\ Leveled(alg, p, s).a = Level(alg, p, s)
      BY <1>1, <1>2, <1>a DEF Leveled
    <2>2. Drained(p, Leveled(alg, p, s), now) \in Nat
          /\ Drained(p, Leveled(alg, p, s), now) <= Leveled(alg, p, s).a
      BY <2>1, Drains
    <2> QED
      BY <2>1, <2>2, <1>a DEF Found
  <1>4. Later(now, s.b) \in Nat
    BY <1>1 DEF Later
  <1>5. CASE alg = "leaky_bucket"
    <2>1. Drained(p, s, now) = D
      BY <1>5, <1>a DEF Found, Leveled, Level, Drained
    <2>2. v = leaky_bucket(p, s, now, len)
      BY <1>5, <1>a DEF police
    <2>b. SUFFICES ASSUME NEW c \in BOOLEAN, c = (cap >= cost /\ D <= cap - cost),
                          NEW x, x = (IF c THEN D + cost ELSE D), NEW m, m = Later(now, s.b)
                   PROVE  /\ D \in Nat /\ D <= Level(alg, p, s)
                          /\ v.conform = (D + cost <= cap)
                          /\ v.state \in FlowState /\ v.state.a <= cap
                          /\ v.state.b = Later(now, s.b)
                          /\ Level(alg, p, v.state) = IF v.conform THEN D + cost ELSE D
      OBVIOUS
    <2>c. c <=> (cap >= cost /\ D <= cap - cost)
      BY <2>b
    <2>3. v = [conform |-> c, state |-> [s EXCEPT !.a = x, !.b = m]]
      BY <2>1, <2>2, <2>b, <1>a DEF leaky_bucket, Verdict
    <2>4. v.conform = c /\ (c <=> D + cost <= cap)
      BY <2>3, <2>c, <1>1, <1>3
    <2>5. x \in Nat /\ m \in Nat
      BY <2>b, <1>1, <1>3, <1>4
    <2>6. v.state.a = x /\ v.state.b = m /\ v.state \in FlowState
      BY <2>3, <2>5 DEF FlowState
    <2>x. x = IF c THEN D + cost ELSE D
      BY <2>b
    <2>7. x <= cap
      BY <2>x, <2>4, <1>1, <1>2, <1>3
    <2>8. Level(alg, p, v.state) = IF c THEN D + cost ELSE D
      BY <2>6, <2>b, <1>5 DEF Level
    <2>9. v.conform = (D + cost <= cap)
      BY <2>4
    <2>10. v.state \in FlowState /\ v.state.a <= cap /\ v.state.b = Later(now, s.b)
      BY <2>6, <2>7, <2>b
    <2> QED
      BY <2>4, <2>8, <2>9, <2>10, <1>3, Zenon
  <1>6. CASE alg = "token_bucket"
    <2>1. Refilled(p, s, now) = cap - D
      BY <1>6, <1>a, Refills
    <2>2. v = token_bucket(p, s, now, len)
      BY <1>6, <1>a DEF police
    <2>b. SUFFICES ASSUME NEW c \in BOOLEAN, c = (cap - D >= cost /\ TRUE),
                          NEW x, x = (IF c THEN (cap - D) - cost ELSE cap - D),
                          NEW m, m = Later(now, s.b)
                   PROVE  /\ D \in Nat /\ D <= Level(alg, p, s)
                          /\ v.conform = (D + cost <= cap)
                          /\ v.state \in FlowState /\ v.state.a <= cap
                          /\ v.state.b = Later(now, s.b)
                          /\ Level(alg, p, v.state) = IF v.conform THEN D + cost ELSE D
      OBVIOUS
    <2>c. c <=> (cap - D >= cost)
      BY <2>b
    <2>e. (cap - D >= cost) = c
      BY <2>c, <1>1, <1>3
    <2>3. v = [conform |-> c, state |-> [s EXCEPT !.a = x, !.b = m]]
      <3>1. v = Verdict((cap - D) >= cost,
                        [s EXCEPT !.a = IF (cap - D) >= cost THEN (cap - D) - cost ELSE cap - D,
                                  !.b = Later(now, @)])
        BY <2>1, <2>2, <1>a DEF token_bucket
      <3> QED
        BY <3>1, <2>e, <2>b, Zenon DEF Verdict
    <2>4. v.conform = c /\ (c <=> D + cost <= cap)
      BY <2>3, <2>c, <1>1, <1>2, <1>3
    <2>x. x = IF c THEN (cap - D) - cost ELSE cap - D
      BY <2>b
    <2>m. m \in Nat
      BY <2>b, <1>4
    <2>5. x \in Nat /\ m \in Nat /\ x <= cap
      BY <2>x, <2>m, <2>c, <1>1, <1>2, <1>3, <1>4
    <2>6. v.state.a = x /\ v.state.b = m /\ v.state \in FlowState
      BY <2>3, <2>5 DEF FlowState
    <2>7. cap - x = IF c THEN D + cost ELSE D
      BY <2>x, <1>1, <1>2, <1>3
    <2>8. Level(alg, p, v.state) = IF c THEN D + cost ELSE D
      BY <2>6, <2>7, <1>6, <1>a DEF Level
    <2>9. v.conform = (D + cost <= cap)
      BY <2>4
    <2>10. v.state \in FlowState /\ v.state.a <= cap /\ v.state.b = Later(now, s.b)
      BY <2>5, <2>6, <2>b
    <2> QED
      BY <2>4, <2>8, <2>9, <2>10, <1>3, Zenon
  <1> QED
    BY <1>5, <1>6 DEF Buckets

-----------------------------------------------------------------------------
(* The history of judged packets *)

Entry == [read : Nat, at : Nat, len : Nat, late : BOOLEAN, pass : SUBSET Algorithms]

PassedOf(J, alg, i) == {k \in i..Len(J) : alg \in J[k].pass}
BytesOf(J, alg, i) == LenSum(J, PassedOf(J, alg, i))
CountOf(J, alg, i) == Cardinality(PassedOf(J, alg, i))

\* What passed since a packet is a finite set of packets with a sum and a count.
LEMMA PassedFacts ==
    ASSUME NEW J \in Seq(Entry), NEW alg, NEW i \in 1..Len(J)
    PROVE  /\ IsFiniteSet(PassedOf(J, alg, i))
           /\ BytesOf(J, alg, i) \in Nat /\ CountOf(J, alg, i) \in Nat
           /\ \A k \in PassedOf(J, alg, i) : k \in 1..Len(J) /\ k >= i /\ J[k] \in Entry
  <1>1. Len(J) \in Nat /\ i \in Nat
    OBVIOUS
  <1>2. IsFiniteSet(i..Len(J))
    BY <1>1, FS_Interval
  <1>3. IsFiniteSet(PassedOf(J, alg, i))
    BY <1>2, FS_Subset DEF PassedOf
  <1>4. \A k \in PassedOf(J, alg, i) : k \in 1..Len(J) /\ k >= i /\ J[k] \in Entry
    BY <1>1 DEF PassedOf
  <1>5. \A k \in PassedOf(J, alg, i) : J[k].len \in Nat
    BY <1>4 DEF Entry
  <1> QED
    BY <1>3, <1>4, <1>5, LenSumNat, FS_CardinalityType DEF BytesOf, CountOf

\* One more packet adds its length where it passed.
LEMMA PassedAppend ==
    ASSUME NEW J \in Seq(Entry), NEW e \in Entry, NEW alg, NEW i \in 1..Len(J)
    PROVE  LET K == Append(J, e) IN
           /\ alg \in e.pass => /\ PassedOf(K, alg, i) = PassedOf(J, alg, i) \cup {Len(J) + 1}
                                /\ BytesOf(K, alg, i) = BytesOf(J, alg, i) + e.len
                                /\ CountOf(K, alg, i) = CountOf(J, alg, i) + 1
           /\ alg \notin e.pass => /\ PassedOf(K, alg, i) = PassedOf(J, alg, i)
                                   /\ BytesOf(K, alg, i) = BytesOf(J, alg, i)
                                   /\ CountOf(K, alg, i) = CountOf(J, alg, i)
  <1>a. SUFFICES ASSUME NEW K, K = Append(J, e), NEW n, n = Len(J)
        PROVE
           /\ alg \in e.pass => /\ PassedOf(K, alg, i) = PassedOf(J, alg, i) \cup {n + 1}
                                /\ BytesOf(K, alg, i) = BytesOf(J, alg, i) + e.len
                                /\ CountOf(K, alg, i) = CountOf(J, alg, i) + 1
           /\ alg \notin e.pass => /\ PassedOf(K, alg, i) = PassedOf(J, alg, i)
                                   /\ BytesOf(K, alg, i) = BytesOf(J, alg, i)
                                   /\ CountOf(K, alg, i) = CountOf(J, alg, i)
    OBVIOUS
  <1>1. n \in Nat /\ i \in Nat /\ i >= 1 /\ i <= n /\ Len(K) = n + 1 /\ K[n + 1] = e
        /\ \A k \in 1..n : K[k] = J[k]
    BY <1>a
  <1>2. alg \in e.pass => PassedOf(K, alg, i) = PassedOf(J, alg, i) \cup {n + 1}
    BY <1>1, <1>a DEF PassedOf
  <1>3. alg \notin e.pass => PassedOf(K, alg, i) = PassedOf(J, alg, i)
    BY <1>1, <1>a DEF PassedOf
  <1>b. SUFFICES ASSUME NEW S, S = PassedOf(J, alg, i)
        PROVE  /\ LenSum(K, S) = LenSum(J, S)
               /\ LenSum(K, S \cup {n + 1}) = LenSum(J, S) + e.len
               /\ Cardinality(S \cup {n + 1}) = Cardinality(S) + 1
    BY <1>2, <1>3 DEF BytesOf, CountOf
  <1>4. IsFiniteSet(S) /\ \A k \in S : k \in 1..n /\ J[k] \in Entry
    BY <1>b, <1>a, PassedFacts
  <1>5. n + 1 \notin S /\ e.len \in Nat /\ \A k \in S : J[k].len \in Nat /\ K[k] = J[k]
    <2>1. n + 1 \notin S
      BY <1>4, <1>1
    <2>2. \A k \in S : K[k] = J[k]
      BY <1>4, <1>1
    <2>3. e.len \in Nat /\ \A k \in S : J[k].len \in Nat
      BY <1>4 DEF Entry
    <2> QED
      BY <2>1, <2>2, <2>3
  <1>6. LenSum(K, S) = LenSum(J, S)
    BY <1>4, <1>5, LenSumSame
  <1>7. \A k \in S \cup {n + 1} : K[k].len \in Nat
    BY <1>5, <1>1
  <1>8. LenSum(K, S \cup {n + 1}) = LenSum(K, S) + K[n + 1].len
    BY <1>4, <1>5, <1>7, LenSumAdd
  <1>9. Cardinality(S \cup {n + 1}) = Cardinality(S) + 1
    BY <1>4, <1>5, FS_AddElement
  <1> QED
    BY <1>1, <1>6, <1>8, <1>9

\* The packet just judged is all that passed since itself.
LEMMA PassedNew ==
    ASSUME NEW J \in Seq(Entry), NEW e \in Entry, NEW alg, alg \in e.pass
    PROVE  LET K == Append(J, e)
               n == Len(J) + 1
           IN  PassedOf(K, alg, n) = {n} /\ BytesOf(K, alg, n) = e.len /\ CountOf(K, alg, n) = 1
  <1>a. SUFFICES ASSUME NEW K, K = Append(J, e), NEW n, n = Len(J) + 1
        PROVE  PassedOf(K, alg, n) = {n} /\ BytesOf(K, alg, n) = e.len /\ CountOf(K, alg, n) = 1
    OBVIOUS
  <1>1. n \in Nat /\ Len(K) = n /\ K[n] = e /\ e.len \in Nat
    BY <1>a DEF Entry
  <1>2. PassedOf(K, alg, n) = {n}
    BY <1>1 DEF PassedOf
  <1>3. LenSum(K, {} \cup {n}) = LenSum(K, {}) + K[n].len
    <2>1. IsFiniteSet({}) /\ n \notin {} /\ \A k \in {} \cup {n} : K[k].len \in Nat
      BY <1>1, FS_EmptySet
    <2> QED
      BY <2>1, LenSumAdd
  <1>4. LenSum(K, {}) = 0 /\ {} \cup {n} = {n}
    BY LenSumEmpty
  <1>5. LenSum(K, {n}) = e.len
    BY <1>1, <1>3, <1>4
  <1> QED
    BY <1>2, <1>5, FS_Singleton DEF BytesOf, CountOf

\* The properties speak of the history so far.
LEMMA PassedIsOf ==
    \A alg, i : Passed(alg, i) = PassedOf(judged, alg, i) /\ Bytes(alg, i) = BytesOf(judged, alg, i)
  BY DEF Passed, Bytes, PassedOf, BytesOf, LenSum

-----------------------------------------------------------------------------
(* A flow whose install displaced nothing: who waits and what has been judged *)

Waits(w) ==
    /\ w.late = FALSE /\ w.len \in Nat \ {0}
    /\ w.read \in Nat /\ Boot <= w.read /\ w.read <= clock

HistoryOk ==
    /\ policy \in Policies
    /\ clock \in Nat /\ Boot <= clock
    /\ waiting = [cpu \in Cpus |-> waiting[cpu]]
    /\ \A cpu \in Cpus : waiting[cpu] # None => Waits(waiting[cpu])
    /\ judged \in Seq(Entry)
    /\ \A i \in 1..Len(judged) :
         /\ Boot <= judged[i].read /\ judged[i].read <= judged[i].at /\ judged[i].at <= clock
         /\ judged[i].late = FALSE /\ judged[i].len > 0

HInv == displaced = None => HistoryOk

\* What Judge does with a packet of the flow's own policy.
JudgedAs(now, len, e) ==
    /\ now \in Nat /\ Boot <= now /\ now <= clock /\ len \in Nat \ {0}
    /\ e = [read |-> now, at |-> clock, len |-> len, late |-> FALSE,
            pass |-> {alg \in Algorithms : police(alg, policy, state[alg], now, len).conform}]
    /\ e \in Entry
    /\ judged' = Append(judged, e)
    /\ state' = [alg \in Algorithms |-> police(alg, policy, state[alg], now, len).state]

Unjudged == UNCHANGED <<state, judged>>

\* Judge, for a packet of the flow's own policy.
LEMMA JudgeIs ==
    ASSUME HistoryOk, displaced = None, NEW cpu \in Cpus, Judge(cpu)
    PROVE  \E now, len, e : JudgedAs(now, len, e)
  <1>a. SUFFICES ASSUME NEW w, w = waiting[cpu] PROVE \E now, len, e : JudgedAs(now, len, e)
    OBVIOUS
  <1>1. Waits(w) /\ clock \in Nat
    BY <1>a DEF Judge, HistoryOk
  <1> DEFINE pass == {alg \in Algorithms : police(alg, policy, state[alg], w.read, w.len).conform}
             e == [read |-> w.read, at |-> clock, len |-> w.len, late |-> FALSE, pass |-> pass]
  <1>2. \A alg : Treated(alg, w) = police(alg, policy, state[alg], w.read, w.len)
    BY <1>1 DEF Treated, Waits
  <1>3. /\ state' = [alg \in Algorithms |-> [a \in Algorithms |-> Treated(a, w)][alg].state]
        /\ judged' = Append(judged,
             [read |-> w.read, at |-> clock, len |-> w.len, late |-> w.late,
              pass |-> IF w.late THEN {}
                       ELSE {alg \in Algorithms : [a \in Algorithms |-> Treated(a, w)][alg].conform}])
    BY <1>a DEF Judge
  <1>4. state' = [alg \in Algorithms |-> police(alg, policy, state[alg], w.read, w.len).state]
    BY <1>2, <1>3
  <1>5. w.late = FALSE
    BY <1>1 DEF Waits
  <1>6. pass = {alg \in Algorithms : [a \in Algorithms |-> Treated(a, w)][alg].conform}
    BY <1>2
  <1>7. judged' = Append(judged, e)
    <2> HIDE DEF pass
    <2> QED BY <1>3, <1>5, <1>6
  <1>8. e \in Entry
    <2>1. pass \in SUBSET Algorithms
      OBVIOUS
    <2> HIDE DEF pass
    <2> QED BY <2>1, <1>1 DEF Entry, Waits
  <1>9. JudgedAs(w.read, w.len, e)
    BY <1>1, <1>4, <1>7, <1>8, Zenon DEF JudgedAs, Waits
  <1> QED
    <2> HIDE DEF e
    <2> QED BY <1>9

LEMMA HistoryInit == Init => HInv
  <1>1. SUFFICES ASSUME Init, displaced = None PROVE HistoryOk
    BY DEF HInv
  <1>2. waiting = [x \in Cpus |-> None]
    BY <1>1 DEF Init
  <1>3. judged = <<>> /\ clock = Boot /\ policy \in Policies /\ Boot \in Nat
    BY <1>1, PolicerAssumption DEF Init
  <1>4. judged \in Seq(Entry) /\ Len(judged) = 0
    BY <1>3
  <1> QED
    BY <1>2, <1>3, <1>4 DEF HistoryOk

\* A step either judges a packet of the flow's own policy or nothing.
LEMMA HistoryStep ==
    ASSUME HistoryOk, displaced = None, [Next]_vars
    PROVE  /\ HistoryOk' /\ displaced' = None /\ policy' = policy
           /\ Unjudged \/ \E now, len, e : JudgedAs(now, len, e)
  <1>1. CASE UNCHANGED vars
    BY <1>1 DEF vars, HistoryOk, Waits, Unjudged
  <1>2. ASSUME NEW cpu \in Cpus, NEW len \in Lens, ReadClock(cpu, len)
        PROVE  HistoryOk' /\ displaced' = None /\ policy' = policy /\ Unjudged
    <2>1. waiting' = [waiting EXCEPT ![cpu] = Packet(clock, len, FALSE)]
          /\ UNCHANGED <<policy, displaced, state, clock, judged>>
      BY <1>2 DEF ReadClock
    <2>2. len \in Nat \ {0}
      BY PolicerAssumption
    <2>3. waiting' = [x \in Cpus |-> waiting'[x]]
      BY <2>1 DEF HistoryOk
    <2>4. ASSUME NEW x \in Cpus, waiting'[x] # None PROVE Waits(waiting[x])'
      <3>1. CASE x = cpu
        <4>1. waiting'[x] = [read |-> clock, len |-> len, late |-> FALSE]
          BY <2>1, <3>1 DEF HistoryOk, Packet
        <4> QED
          BY <4>1, <2>1, <2>2 DEF HistoryOk, Waits
      <3>2. CASE x # cpu
        BY <2>1, <2>4, <3>2 DEF HistoryOk, Waits
      <3> QED
        BY <3>1, <3>2
    <2> QED
      BY <2>1, <2>3, <2>4 DEF HistoryOk, Unjudged
  <1>3. ASSUME NEW cpu \in Cpus, ReadClockLate(cpu)
        PROVE  HistoryOk' /\ displaced' = None /\ policy' = policy /\ Unjudged
    <2>1. waiting' = [waiting EXCEPT ![cpu].read = clock] /\ waiting[cpu] # None
          /\ UNCHANGED <<policy, displaced, state, clock, judged>>
      BY <1>3 DEF ReadClockLate
    <2>3. waiting' = [x \in Cpus |-> waiting'[x]]
      BY <2>1 DEF HistoryOk
    <2>4. ASSUME NEW x \in Cpus, waiting'[x] # None PROVE Waits(waiting[x])'
      <3>1. CASE x = cpu
        <4>0. waiting'[x] = [waiting[cpu] EXCEPT !.read = clock]
          BY <2>1, <3>1 DEF HistoryOk
        <4>1. waiting'[x].late = waiting[cpu].late /\ waiting'[x].len = waiting[cpu].len
              /\ (waiting'[x].read = clock \/ waiting'[x].read = waiting[cpu].read)
          BY <4>0
        <4> QED
          BY <4>1, <2>1 DEF HistoryOk, Waits
      <3>2. CASE x # cpu
        BY <2>1, <2>4, <3>2 DEF HistoryOk, Waits
      <3> QED
        BY <3>1, <3>2
    <2> QED
      BY <2>1, <2>3, <2>4 DEF HistoryOk, Unjudged
  <1>4. ASSUME NEW cpu \in Cpus, Judge(cpu)
        PROVE  HistoryOk' /\ displaced' = None /\ policy' = policy
               /\ \E now, len, e : JudgedAs(now, len, e)
    <2>1. PICK now, len, e : JudgedAs(now, len, e)
      BY <1>4, JudgeIs
    <2>2. /\ waiting' = [waiting EXCEPT ![cpu] = None]
          /\ UNCHANGED <<policy, displaced, clock>>
      BY <1>4 DEF Judge
    <2>3. /\ now \in Nat /\ Boot <= now /\ now <= clock /\ len \in Nat \ {0}
          /\ e.read = now /\ e.at = clock /\ e.len = len /\ e.late = FALSE /\ e \in Entry
          /\ judged' = Append(judged, e)
      BY <2>1, Zenon DEF JudgedAs
    <2>4. judged \in Seq(Entry) /\ clock \in Nat
      BY DEF HistoryOk
    <2>5. /\ judged' \in Seq(Entry) /\ Len(judged') = Len(judged) + 1
          /\ judged'[Len(judged) + 1] = e /\ \A i \in 1..Len(judged) : judged'[i] = judged[i]
      BY <2>3, <2>4
    <2>6. \A i \in 1..Len(judged') :
            /\ Boot <= judged'[i].read /\ judged'[i].read <= judged'[i].at /\ judged'[i].at <= clock
            /\ judged'[i].late = FALSE /\ judged'[i].len > 0
      <3>1. ASSUME NEW i \in 1..Len(judged') PROVE i \in 1..Len(judged) \/ i = Len(judged) + 1
        BY <2>4, <2>5
      <3> QED
        BY <2>3, <2>5, <3>1 DEF HistoryOk
    <2>7. waiting' = [x \in Cpus |-> waiting'[x]]
      BY <2>2 DEF HistoryOk
    <2>8. ASSUME NEW x \in Cpus, waiting'[x] # None PROVE Waits(waiting[x])'
      BY <2>2, <2>8 DEF HistoryOk, Waits
    <2> QED
      BY <2>1, <2>2, <2>5, <2>6, <2>7, <2>8 DEF HistoryOk
  <1>5. CASE Elapse
    <2>1. clock' = clock + 1 /\ UNCHANGED <<policy, displaced, state, waiting, judged>>
      BY <1>5 DEF Elapse
    <2>2. clock \in Nat /\ Boot \in Nat /\ judged \in Seq(Entry)
      BY PolicerAssumption DEF HistoryOk
    <2>3. ASSUME NEW i \in 1..Len(judged)
          PROVE  judged[i].at \in Nat
      <3>1. judged[i] \in Entry
        BY <2>2
      <3> QED
        BY <3>1 DEF Entry
    <2>4. \A x \in Cpus : waiting[x] # None => Waits(waiting[x])'
      BY <2>1, <2>2 DEF HistoryOk, Waits
    <2>5. \A i \in 1..Len(judged) : judged[i].at <= clock'
      BY <2>1, <2>2, <2>3 DEF HistoryOk
    <2> QED
      BY <2>1, <2>2, <2>4, <2>5 DEF HistoryOk, Unjudged
  <1> QED
    BY <1>1, <1>2, <1>3, <1>4, <1>5 DEF Next

-----------------------------------------------------------------------------
(* The two buckets: what passed since a packet is in the bucket or has had the *)
(* time to leave it.                                                           *)

\* A bucket that is not empty has not yet lost the tick that a rounded refill time
\* may cost it.
Slack(p, level) == IF ExactFor(p) \/ level = 0 THEN 0 ELSE p.rate_bps
Waste(p, n) == IF ExactFor(p) THEN 0 ELSE p.rate_bps * n

\* The latest time at which a packet was judged.
JudgedUpTo(J) == IF J = <<>> THEN 0 ELSE J[Len(J)].at

BucketHolds(alg, p, s, J, i) ==
    8 * Cost(BytesOf(J, alg, i)) + Slack(p, Level(alg, p, s)) <=
        8 * Level(alg, p, s) + p.rate_bps * (s.b - J[i].read) + Waste(p, CountOf(J, alg, i))

BucketOk(alg, p, s, J) ==
    /\ s \in FlowState /\ s.a <= Capacity(p) /\ s.b <= JudgedUpTo(J)
    /\ \A i \in 1..Len(J) :
         J[i].read <= s.b /\ (alg \in J[i].pass => BucketHolds(alg, p, s, J, i))

\* The arithmetic of one packet.
LEMMA BucketSums ==
    ASSUME NEW exact \in BOOLEAN, NEW rate \in Nat, NEW C \in Nat, NEW L \in Nat, NEW D \in Nat,
           NEW x \in Int, NEW y \in Int, NEW w \in Int, NEW cost \in Nat,
           8 * C + (IF exact \/ L = 0 THEN 0 ELSE rate) <= 8 * L + x + w,
           8 * L <= 8 * D + y + (IF exact \/ D > 0 \/ L = 0 THEN 0 ELSE rate), D <= L
    PROVE  /\ 8 * C + (IF exact \/ D = 0 THEN 0 ELSE rate) <= 8 * D + (x + y) + w
           /\ 8 * (C + cost) + (IF exact \/ D + cost = 0 THEN 0 ELSE rate) <=
                8 * (D + cost) + (x + y) + (w + IF exact THEN 0 ELSE rate)
  <1>1. CASE exact
    BY <1>1
  <1>2. CASE ~exact /\ L = 0
    BY <1>2
  <1>3. CASE ~exact /\ L > 0 /\ D = 0
    BY <1>3
  <1>4. CASE ~exact /\ D > 0
    BY <1>4
  <1> QED
    BY <1>1, <1>2, <1>3, <1>4

LEMMA CostSum == ASSUME NEW x \in Nat, NEW y \in Nat PROVE Cost(x + y) = Cost(x) + Cost(y)
  BY PolicerAssumption DEF Cost

\* Each packet may waste a tick of rate.
LEMMA WasteSum ==
    ASSUME NEW p, check_policy_bounds(p), NEW n \in Nat
    PROVE  Waste(p, n) \in Nat /\ Waste(p, n + 1) = Waste(p, n) + IF ExactFor(p) THEN 0 ELSE p.rate_bps
  <1>a. SUFFICES ASSUME NEW r \in Nat, r = p.rate_bps, NEW x \in BOOLEAN, x = ExactFor(p)
        PROVE  Waste(p, n) \in Nat /\ Waste(p, n + 1) = Waste(p, n) + IF x THEN 0 ELSE r
    BY Rates DEF ExactFor
  <1> QED
    BY <1>a DEF Waste

\* A judged packet keeps a bucket's invariant.
LEMMA BucketStep ==
    ASSUME NEW alg \in Buckets, NEW p, check_policy_bounds(p), NEW s, NEW J \in Seq(Entry),
           BucketOk(alg, p, s, J), JudgedUpTo(J) <= clock, clock \in Nat,
           NEW e \in Entry, e.at = clock, e.read <= clock, alg \in Algorithms,
           alg \in e.pass <=> police(alg, p, s, e.read, e.len).conform
    PROVE  BucketOk(alg, p, police(alg, p, s, e.read, e.len).state, Append(J, e))
  <1>a. SUFFICES ASSUME NEW now, now = e.read, NEW len, len = e.len, NEW K, K = Append(J, e),
                        NEW v, v = police(alg, p, s, now, len), NEW t, t = v.state,
                        NEW L, L = Level(alg, p, s), NEW D, D = Found(alg, p, s, now),
                        NEW rate, rate = p.rate_bps, NEW x, x = ExactFor(p),
                        NEW cost, cost = Cost(len), NEW b, b = s.b, NEW bb, bb = Later(now, s.b),
                        NEW n, n = Len(J)
                 PROVE  BucketOk(alg, p, t, K)
    OBVIOUS
  <1>1. now \in Nat /\ len \in Nat /\ cost \in Nat /\ rate \in Nat /\ n \in Nat /\ x \in BOOLEAN
    <2>1. now \in Nat /\ len \in Nat
      BY <1>a DEF Entry
    <2>2. x \in BOOLEAN
      BY <1>a, Zenon DEF ExactFor
    <2>3. cost \in Nat
      BY <1>a, <2>1, CostNat
    <2>4. rate \in Nat /\ n \in Nat
      BY <1>a, Rates
    <2> QED
      BY <2>1, <2>2, <2>3, <2>4
  <1>2. s \in FlowState /\ s.a <= Capacity(p) /\ s.a \in Nat /\ b \in Nat /\ Capacity(p) \in Nat
        /\ b <= JudgedUpTo(J)
    BY <1>a, Rates DEF BucketOk, FlowState
  <1>3. /\ D \in Nat /\ D <= L
        /\ v.conform = (D + cost <= Capacity(p))
        /\ t \in FlowState /\ t.a <= Capacity(p) /\ t.b = bb
        /\ Level(alg, p, t) = IF v.conform THEN D + cost ELSE D
    <2>1. LET u == police(alg, p, s, now, len)
              F == Found(alg, p, s, now)
          IN  /\ F \in Nat /\ F <= Level(alg, p, s)
              /\ u.conform = (F + Cost(len) <= Capacity(p))
              /\ u.state \in FlowState /\ u.state.a <= Capacity(p)
              /\ u.state.b = Later(now, s.b)
              /\ Level(alg, p, u.state) = IF u.conform THEN F + Cost(len) ELSE F
      <3>1. now \in Nat /\ len \in Nat /\ s \in FlowState /\ s.a <= Capacity(p)
        BY <1>1, <1>2
      <3> QED
        BY <3>1, BucketVerdict
    <2> QED
      BY <2>1, <1>a, Zenon
  <1>4. L \in Nat /\ L <= Capacity(p)
    BY <1>2, <1>a DEF Level
  <1>5. /\ bb \in Nat /\ now <= bb /\ b <= bb
        /\ 8 * L <= 8 * D + rate * (bb - b) + IF x \/ D > 0 \/ L = 0 THEN 0 ELSE rate
    <2>1. /\ Leveled(alg, p, s).a = L /\ Leveled(alg, p, s).b = b
      BY <1>a DEF Leveled
    <2>2. D = Drained(p, Leveled(alg, p, s), now)
      BY <1>a DEF Found
    <2>b. SUFFICES ASSUME NEW z, z = Leveled(alg, p, s), z.a = L, z.b = b
                   PROVE  /\ bb \in Nat /\ now <= bb /\ b <= bb
                          /\ 8 * L <= 8 * D + rate * (bb - b)
                               + IF x \/ D > 0 \/ L = 0 THEN 0 ELSE rate
      BY <2>1
    <2>3. z.a \in Nat /\ z.a <= Capacity(p) /\ z.b \in Nat /\ now \in Nat
      BY <2>b, <1>1, <1>2, <1>4
    <2>4. /\ Later(now, z.b) \in Nat /\ now <= Later(now, z.b) /\ z.b <= Later(now, z.b)
          /\ 8 * z.a <= 8 * Drained(p, z, now) + p.rate_bps * (Later(now, z.b) - z.b)
               + IF ExactFor(p) \/ Drained(p, z, now) > 0 \/ z.a = 0 THEN 0 ELSE p.rate_bps
      BY <2>3, Drains
    <2>5. Later(now, z.b) = bb /\ Drained(p, z, now) = D
      BY <2>2, <2>b, <1>a
    <2>6. p.rate_bps = rate /\ ExactFor(p) = x
      BY <1>a, Zenon
    <2> QED
      BY <2>4, <2>5, <2>6, <2>b, Zenon
  <1>6. /\ Len(K) = n + 1 /\ K[n + 1] = e /\ \A i \in 1..n : K[i] = J[i] /\ K # <<>>
        /\ \A i \in 1..Len(K) : i \in 1..n \/ i = n + 1
    BY <1>1, <1>a, SMTT(30)
  <1>7. t.b <= JudgedUpTo(K)
    <2>1. JudgedUpTo(K) = clock
      BY <1>6, <1>a DEF JudgedUpTo
    <2>2. bb = now \/ bb = b
      BY <1>a DEF Later
    <2>3. JudgedUpTo(J) \in Nat
      <3>1. CASE J = <<>>
        BY <3>1 DEF JudgedUpTo
      <3>2. CASE J # <<>>
        <4>1. J[Len(J)] \in Entry
          BY <3>2
        <4> QED
          BY <4>1, <3>2 DEF JudgedUpTo, Entry
      <3> QED
        BY <3>1, <3>2
    <2> QED
      BY <2>1, <2>2, <2>3, <1>1, <1>2, <1>3, <1>a, SMTT(30)
  <1>8. \A i \in 1..Len(K) : K[i].read <= t.b
    <2>1. ASSUME NEW i \in 1..n PROVE J[i].read \in Nat /\ J[i].read <= b
      <3>1. J[i] \in Entry
        BY <1>a
      <3> QED
        BY <3>1, <1>a DEF BucketOk, Entry
    <2>2. \A r \in Nat : r <= b => r <= bb
      BY <1>2, <1>5
    <2>3. \A i \in 1..n : K[i].read <= bb
      BY <2>1, <2>2, <1>6
    <2>4. K[n + 1].read <= bb
      BY <1>5, <1>6, <1>a
    <2> QED
      BY <2>3, <2>4, <1>3, <1>6
  <1>9. ASSUME NEW i \in 1..n, alg \in K[i].pass PROVE BucketHolds(alg, p, t, K, i)
    <2>1. J[i] = K[i] /\ J[i] \in Entry /\ J[i].read \in Nat /\ BucketHolds(alg, p, s, J, i)
          /\ J[i].read <= b
      <3>1. J[i] \in Entry /\ J[i] = K[i]
        BY <1>6, <1>a
      <3> QED
        BY <3>1, <1>9, <1>a DEF BucketOk, Entry
    <2>b. SUFFICES ASSUME NEW B, B = BytesOf(J, alg, i), NEW k, k = CountOf(J, alg, i),
                          NEW r, r = J[i].read, NEW y1, y1 = rate * (b - r),
                          NEW y2, y2 = rate * (bb - b)
                   PROVE  BucketHolds(alg, p, t, K, i)
      OBVIOUS
    <2>2. B \in Nat /\ k \in Nat /\ Cost(B) \in Nat /\ r \in Nat
      BY <2>1, <2>b, <1>a, PassedFacts, CostNat
    <2>3. y1 \in Int /\ y2 \in Int /\ y1 + y2 = rate * (bb - r)
      <3>1. rate * ((b - r) + (bb - b)) = rate * (b - r) + rate * (bb - b)
        BY <2>2, <1>1, <1>2, <1>5, TimesSum
      <3>2. (b - r) + (bb - b) = bb - r
        BY <2>2, <1>2, <1>5
      <3>3. y1 \in Int /\ y2 \in Int
        BY <2>2, <2>b, <1>1, <1>2, <1>5, SMTT(30)
      <3> QED
        BY <3>1, <3>2, <3>3, <2>b
    <2>4. 8 * Cost(B) + (IF x \/ L = 0 THEN 0 ELSE rate) <= 8 * L + y1 + Waste(p, k)
      BY <2>1, <2>b, <1>a DEF BucketHolds, Slack
    <2>5. Waste(p, k) \in Nat /\ Waste(p, k + 1) = Waste(p, k) + IF x THEN 0 ELSE rate
      BY <2>2, <1>a, WasteSum
    <2>6. /\ 8 * Cost(B) + (IF x \/ D = 0 THEN 0 ELSE rate) <= 8 * D + (y1 + y2) + Waste(p, k)
          /\ 8 * (Cost(B) + cost) + (IF x \/ D + cost = 0 THEN 0 ELSE rate) <=
               8 * (D + cost) + (y1 + y2) + (Waste(p, k) + IF x THEN 0 ELSE rate)
      <3>1. 8 * L <= 8 * D + y2 + (IF x \/ D > 0 \/ L = 0 THEN 0 ELSE rate)
        BY <1>5, <2>b
      <3>2. /\ x \in BOOLEAN /\ rate \in Nat /\ Cost(B) \in Nat /\ L \in Nat /\ D \in Nat
            /\ y1 \in Int /\ y2 \in Int /\ Waste(p, k) \in Int /\ cost \in Nat /\ D <= L
        BY <2>2, <2>3, <2>5, <1>1, <1>3, <1>4
      <3> QED
        BY <3>1, <3>2, <2>4, BucketSums, ZenonT(40)
    <2>7. CASE v.conform
      <3>1. alg \in e.pass
        BY <2>7, <1>a
      <3>2. BytesOf(K, alg, i) = B + len /\ CountOf(K, alg, i) = k + 1
        BY <3>1, <1>a, <2>b, PassedAppend
      <3>3. Cost(B + len) = Cost(B) + cost
        BY <2>2, <1>1, <1>a, CostSum
      <3>4. Level(alg, p, t) = D + cost
        BY <2>7, <1>3
      <3>5. /\ 8 * Cost(BytesOf(K, alg, i)) + (IF x \/ Level(alg, p, t) = 0 THEN 0 ELSE rate) <=
                 8 * Level(alg, p, t) + rate * (bb - r) + Waste(p, CountOf(K, alg, i))
        BY <3>2, <3>3, <3>4, <2>3, <2>5, <2>6
      <3> QED
        BY <3>5, <2>1, <2>b, <1>3, <1>a DEF BucketHolds, Slack
    <2>8. CASE ~v.conform
      <3>1. alg \notin e.pass
        BY <2>8, <1>a
      <3>2. BytesOf(K, alg, i) = B /\ CountOf(K, alg, i) = k
        BY <3>1, <1>a, <2>b, PassedAppend
      <3>4. Level(alg, p, t) = D
        BY <2>8, <1>3
      <3>5. /\ 8 * Cost(BytesOf(K, alg, i)) + (IF x \/ Level(alg, p, t) = 0 THEN 0 ELSE rate) <=
                 8 * Level(alg, p, t) + rate * (bb - r) + Waste(p, CountOf(K, alg, i))
        BY <3>2, <3>4, <2>3, <2>6
      <3> QED
        BY <3>5, <2>1, <2>b, <1>3, <1>a DEF BucketHolds, Slack
    <2> QED
      BY <2>7, <2>8
  <1>10. ASSUME alg \in K[n + 1].pass PROVE BucketHolds(alg, p, t, K, n + 1)
    <2>1. alg \in e.pass
      BY <1>10, <1>6
    <2>2. BytesOf(K, alg, n + 1) = len /\ CountOf(K, alg, n + 1) = 1
      BY <2>1, <1>a, PassedNew
    <2>3. Level(alg, p, t) = D + cost
      BY <2>1, <1>3, <1>a
    <2>4. Waste(p, 1) = IF x THEN 0 ELSE rate
      BY <1>1, <1>a DEF Waste
    <2>5. rate * (bb - now) \in Nat
      BY <1>1, <1>5
    <2>b. SUFFICES ASSUME NEW y, y = rate * (bb - now) PROVE BucketHolds(alg, p, t, K, n + 1)
      OBVIOUS
    <2>6. 8 * cost + (IF x \/ D + cost = 0 THEN 0 ELSE rate) <= 8 * (D + cost) + y + IF x THEN 0 ELSE rate
      <3>1. CASE x
        BY <3>1, <2>5, <2>b, <1>1, <1>3
      <3>2. CASE ~x
        BY <3>2, <2>5, <2>b, <1>1, <1>3
      <3> QED
        BY <3>1, <3>2, <1>1
    <2> QED
      BY <2>2, <2>3, <2>4, <2>6, <2>b, <1>3, <1>6, <1>a DEF BucketHolds, Slack
  <1> QED
    BY <1>3, <1>6, <1>7, <1>8, <1>9, <1>10 DEF BucketOk

-----------------------------------------------------------------------------
(* GCRA: what passed since a packet lies between its time and the arrival time. *)

GcraHolds(p, s, J, i) ==
    /\ J[i].read <= s.a
    /\ 8 * Cost(BytesOf(J, "gcra", i)) <=
         p.rate_bps * (s.a - J[i].read) + Waste(p, CountOf(J, "gcra", i))

GcraOk(p, s, J) ==
    /\ s \in FlowState /\ s.a <= JudgedUpTo(J) + Emission(p, p.burst_bytes)
    /\ \A i \in 1..Len(J) : "gcra" \in J[i].pass => GcraHolds(p, s, J, i)

Tat(p, s, now, len) == Later(now, s.a) + Emission(p, len)

\* What gcra decides, and the arrival time it leaves.
LEMMA GcraVerdict ==
    ASSUME NEW p, check_policy_bounds(p), NEW s \in FlowState, NEW now \in Nat, NEW len \in Nat
    PROVE  /\ Tat(p, s, now, len) \in Nat
           /\ police("gcra", p, s, now, len).conform <=>
                Tat(p, s, now, len) <= now + Emission(p, p.burst_bytes)
           /\ police("gcra", p, s, now, len).conform =>
                /\ police("gcra", p, s, now, len).state \in FlowState
                /\ police("gcra", p, s, now, len).state.a = Tat(p, s, now, len)
           /\ ~police("gcra", p, s, now, len).conform =>
                police("gcra", p, s, now, len).state = s
  <1>1. s.a \in Nat /\ Emission(p, len) \in Nat /\ Later(now, s.a) \in Nat
    BY Emissions DEF FlowState, Later
  <1>2. Tat(p, s, now, len) \in Nat
    BY <1>1 DEF Tat
  <1>3. police("gcra", p, s, now, len) = gcra(p, s, now, len)
    BY DEF police
  <1>4. police("gcra", p, s, now, len) =
          Verdict(Tat(p, s, now, len) <= now + Emission(p, p.burst_bytes),
                  IF Tat(p, s, now, len) <= now + Emission(p, p.burst_bytes)
                  THEN [s EXCEPT !.a = Tat(p, s, now, len)] ELSE s)
    BY <1>3, Zenon DEF gcra, Tat
  <1>a. SUFFICES ASSUME NEW t \in Nat, t = Tat(p, s, now, len),
                        NEW m, m = now + Emission(p, p.burst_bytes),
                        NEW v, v = police("gcra", p, s, now, len)
                 PROVE  /\ v.conform <=> t <= m
                        /\ v.conform => v.state \in FlowState /\ v.state.a = t
                        /\ ~v.conform => v.state = s
    BY <1>2
  <1>5. v = [conform |-> t <= m, state |-> IF t <= m THEN [s EXCEPT !.a = t] ELSE s]
    BY <1>4, <1>a, Zenon DEF Verdict
  <1>6. v.conform <=> t <= m
    BY <1>5
  <1>7. CASE t <= m
    <2>1. v.state = [s EXCEPT !.a = t]
      BY <1>5, <1>7
    <2>2. v.state \in FlowState /\ v.state.a = t
      BY <2>1 DEF FlowState
    <2> QED
      BY <2>2, <1>6, <1>7
  <1>8. CASE ~(t <= m)
    BY <1>5, <1>6, <1>8
  <1> QED
    BY <1>6, <1>7, <1>8

LEMMA UpToNat == ASSUME NEW J \in Seq(Entry) PROVE JudgedUpTo(J) \in Nat
  <1>1. CASE J = <<>>
    BY <1>1 DEF JudgedUpTo
  <1>2. CASE J # <<>>
    <2>1. J[Len(J)] \in Entry
      BY <1>2
    <2> QED
      BY <2>1, <1>2 DEF JudgedUpTo, Entry
  <1> QED
    BY <1>1, <1>2

\* A judged packet keeps GCRA's invariant.
LEMMA GcraStep ==
    ASSUME NEW p, check_policy_bounds(p), NEW s, NEW J \in Seq(Entry),
           GcraOk(p, s, J), JudgedUpTo(J) <= clock, clock \in Nat,
           NEW e \in Entry, e.at = clock, e.read <= clock,
           "gcra" \in e.pass <=> police("gcra", p, s, e.read, e.len).conform
    PROVE  GcraOk(p, police("gcra", p, s, e.read, e.len).state, Append(J, e))
  <1>a. SUFFICES ASSUME NEW now, now = e.read, NEW len, len = e.len, NEW K, K = Append(J, e),
                        NEW v, v = police("gcra", p, s, now, len), NEW t, t = v.state,
                        NEW tat, tat = Tat(p, s, now, len), NEW rate, rate = p.rate_bps,
                        NEW em, em = Emission(p, len), NEW eb, eb = Emission(p, p.burst_bytes),
                        NEW n, n = Len(J), NEW a, a = s.a
                 PROVE  GcraOk(p, t, K)
    OBVIOUS
  <1>1. now \in Nat /\ len \in Nat /\ n \in Nat
    BY <1>a DEF Entry
  <1>2. rate \in Nat /\ em \in Nat /\ eb \in Nat /\ Cost(len) \in Nat
        /\ rate * em <= 8 * Cost(len) /\ 8 * Cost(len) < rate * em + rate
        /\ rate * em \in Nat
    <2>1. p.burst_bytes \in Nat
      BY DEF check_policy_bounds
    <2> QED
      BY <2>1, <1>1, <1>a, Emissions, CostNat, Rates, TimesNat
  <1>3. ExactFor(p) => rate * em = 8 * Cost(len)
    BY <1>1, <1>a, ExactRates
  <1>4. s \in FlowState /\ a \in Nat /\ a <= JudgedUpTo(J) + eb /\ JudgedUpTo(J) \in Nat
    BY <1>a, UpToNat DEF GcraOk, FlowState
  <1>5. /\ tat \in Nat /\ (v.conform <=> tat <= now + eb)
        /\ (v.conform => t \in FlowState /\ t.a = tat) /\ (~v.conform => t = s)
    <2>1. /\ Tat(p, s, now, len) \in Nat
          /\ police("gcra", p, s, now, len).conform <=>
               Tat(p, s, now, len) <= now + Emission(p, p.burst_bytes)
          /\ police("gcra", p, s, now, len).conform =>
               /\ police("gcra", p, s, now, len).state \in FlowState
               /\ police("gcra", p, s, now, len).state.a = Tat(p, s, now, len)
          /\ ~police("gcra", p, s, now, len).conform =>
               police("gcra", p, s, now, len).state = s
      BY <1>1, <1>4, GcraVerdict
    <2> QED
      BY <2>1, <1>a, Zenon
  <1>6. tat >= now + em /\ tat >= a + em
    <2>1. tat = Later(now, a) + em
      BY <1>a DEF Tat
    <2>2. Later(now, a) \in Nat /\ Later(now, a) >= now /\ Later(now, a) >= a
      BY <1>1, <1>4 DEF Later
    <2> QED
      BY <2>1, <2>2, <1>1, <1>2, <1>4, SMTT(30)
  <1>7. /\ Len(K) = n + 1 /\ K[n + 1] = e /\ \A i \in 1..n : K[i] = J[i] /\ K # <<>>
        /\ \A i \in 1..Len(K) : i \in 1..n \/ i = n + 1
    BY <1>1, <1>a
  <1>8. t \in FlowState /\ t.a <= JudgedUpTo(K) + eb
    <2>1. JudgedUpTo(K) = clock
      BY <1>7, <1>a DEF JudgedUpTo
    <2>0. now <= clock /\ JudgedUpTo(J) <= clock /\ clock \in Nat
      BY <1>a
    <2>2. CASE v.conform
      <3>1. t.a = tat /\ t \in FlowState
        BY <2>2, <1>5
      <3>2. tat <= clock + eb
        BY <2>0, <2>2, <1>1, <1>2, <1>5
      <3> QED
        BY <3>1, <3>2, <2>1
    <2>3. CASE ~v.conform
      <3>1. t.a = a /\ t \in FlowState
        BY <2>3, <1>4, <1>5, <1>a
      <3>2. a <= clock + eb
        BY <2>0, <1>2, <1>4
      <3> QED
        BY <3>1, <3>2, <2>1
    <2> QED
      BY <2>2, <2>3
  <1>9. ASSUME NEW i \in 1..n, "gcra" \in K[i].pass PROVE GcraHolds(p, t, K, i)
    <2>1. J[i] = K[i] /\ J[i].read \in Nat /\ GcraHolds(p, s, J, i)
      <3>1. J[i] \in Entry /\ J[i] = K[i]
        BY <1>7, <1>a
      <3> QED
        BY <3>1, <1>9, <1>a DEF GcraOk, Entry
    <2>b. SUFFICES ASSUME NEW B, B = BytesOf(J, "gcra", i), NEW k, k = CountOf(J, "gcra", i),
                          NEW r, r = J[i].read
                   PROVE  GcraHolds(p, t, K, i)
      OBVIOUS
    <2>2. B \in Nat /\ k \in Nat /\ Cost(B) \in Nat /\ r \in Nat
      BY <2>1, <2>b, <1>a, PassedFacts, CostNat
    <2>3. r <= a /\ 8 * Cost(B) <= rate * (a - r) + Waste(p, k)
      BY <2>1, <2>b, <1>a DEF GcraHolds
    <2>5. Waste(p, k) \in Nat /\ Waste(p, k + 1) = Waste(p, k) + IF ExactFor(p) THEN 0 ELSE rate
      BY <2>2, <1>a, WasteSum
    <2>7. CASE v.conform
      <3>1. "gcra" \in e.pass
        BY <2>7, <1>a
      <3>2. BytesOf(K, "gcra", i) = B + len /\ CountOf(K, "gcra", i) = k + 1
        BY <3>1, <1>a, <2>b, PassedAppend
      <3>3. Cost(B + len) = Cost(B) + Cost(len)
        BY <2>2, <1>1, CostSum
      <3>4. rate * (a - r) + rate * em <= rate * (tat - r)
        <4>1. rate * ((a - r) + em) = rate * (a - r) + rate * em
          BY <2>2, <1>2, <1>4, TimesSum
        <4>2. (a - r) + em <= tat - r /\ (a - r) + em \in Nat /\ tat - r \in Nat
          BY <2>2, <2>3, <1>2, <1>4, <1>5, <1>6, SMTT(30)
        <4>3. rate * ((a - r) + em) <= rate * (tat - r)
          BY <4>2, <1>2, TimesMono
        <4> QED
          BY <4>1, <4>3
      <3>5. r <= tat
        BY <2>2, <2>3, <1>2, <1>4, <1>5, <1>6
      <3>b. SUFFICES ASSUME NEW y1, y1 = rate * (a - r), NEW y2, y2 = rate * (tat - r),
                            NEW ye, ye = rate * em
                     PROVE  GcraHolds(p, t, K, i)
        OBVIOUS
      <3>6. y1 \in Int /\ y2 \in Int /\ ye \in Nat
        BY <3>b, <2>2, <1>2, <1>4, <1>5
      <3>7. 8 * (Cost(B) + Cost(len)) <= y2 + Waste(p, k + 1)
        <4>1. y1 + ye <= y2 /\ 8 * Cost(B) <= y1 + Waste(p, k)
          BY <3>4, <3>b, <2>3
        <4>c. SUFFICES ASSUME NEW c1, c1 = Cost(B), NEW c2, c2 = Cost(len), NEW w, w = Waste(p, k)
                       PROVE  8 * (c1 + c2) <= y2 + Waste(p, k + 1)
          OBVIOUS
        <4>2. c1 \in Nat /\ c2 \in Nat /\ w \in Nat /\ 8 * c1 <= y1 + w
          BY <4>1, <4>c, <2>2, <2>5, <1>2
        <4>3. CASE ExactFor(p)
          <5>1. 8 * c2 = ye /\ Waste(p, k + 1) = w
            BY <4>3, <4>c, <4>2, <3>b, <2>5, <1>3
          <5> QED
            BY <5>1, <4>1, <4>2, <3>6, SMTT(30)
        <4>4. CASE ~ExactFor(p)
          <5>1. 8 * c2 < ye + rate /\ Waste(p, k + 1) = w + rate
            BY <4>4, <4>c, <4>2, <3>b, <2>5, <1>2
          <5>b. SUFFICES ASSUME NEW w1, w1 = w + rate PROVE 8 * (c1 + c2) <= y2 + w1
            BY <5>1
          <5>2. rate \in Nat
            BY <1>2
          <5>3. 8 * c1 + 8 * c2 <= y2 + w1
            BY <5>1, <5>2, <5>b, <4>1, <4>2, <3>6
          <5> QED
            BY <5>3, <4>2
        <4> QED
          BY <4>3, <4>4
      <3>8. t.a = tat /\ K[i].read = r
        BY <2>7, <1>5, <2>1, <2>b
      <3> QED
        BY <3>2, <3>3, <3>5, <3>7, <3>8, <3>b, <1>a DEF GcraHolds
    <2>8. CASE ~v.conform
      <3>1. "gcra" \notin e.pass
        BY <2>8, <1>a
      <3>2. BytesOf(K, "gcra", i) = B /\ CountOf(K, "gcra", i) = k
        BY <3>1, <1>a, <2>b, PassedAppend
      <3> QED
        BY <3>2, <2>1, <2>3, <2>8, <2>b, <1>5, <1>a DEF GcraHolds
    <2> QED
      BY <2>7, <2>8
  <1>10. ASSUME "gcra" \in K[n + 1].pass PROVE GcraHolds(p, t, K, n + 1)
    <2>1. "gcra" \in e.pass /\ v.conform
      BY <1>10, <1>7, <1>a
    <2>2. BytesOf(K, "gcra", n + 1) = len /\ CountOf(K, "gcra", n + 1) = 1
      BY <2>1, <1>a, PassedNew
    <2>3. t.a = tat /\ K[n + 1].read = now
      BY <2>1, <1>5, <1>7, <1>a
    <2>4. Waste(p, 1) = IF ExactFor(p) THEN 0 ELSE rate
      BY <1>2, <1>a DEF Waste
    <2>5. rate * em <= rate * (tat - now)
      <3>1. em <= tat - now /\ tat - now \in Nat
        BY <1>1, <1>2, <1>5, <1>6
      <3> QED
        BY <3>1, <1>2, TimesMono
    <2>b. SUFFICES ASSUME NEW y, y = rate * (tat - now), NEW ye, ye = rate * em
                   PROVE  GcraHolds(p, t, K, n + 1)
      OBVIOUS
    <2>6. y \in Int /\ ye \in Nat
      BY <2>b, <1>1, <1>2, <1>5
    <2>7. 8 * Cost(len) <= y + Waste(p, 1)
      <3>1. CASE ExactFor(p)
        BY <3>1, <2>4, <2>5, <2>6, <2>b, <1>2, <1>3
      <3>2. CASE ~ExactFor(p)
        BY <3>2, <2>4, <2>5, <2>6, <2>b, <1>2
      <3> QED
        BY <3>1, <3>2
    <2>8. now <= tat
      BY <1>1, <1>2, <1>5, <1>6
    <2> QED
      BY <2>2, <2>3, <2>7, <2>8, <2>b, <1>a DEF GcraHolds
  <1> QED
    BY <1>7, <1>8, <1>9, <1>10, <1>a DEF GcraOk

-----------------------------------------------------------------------------
(* The burst bound *)

BurstInv ==
    displaced = None =>
      /\ HistoryOk
      /\ \A alg \in Buckets : BucketOk(alg, policy, state[alg], judged)
      /\ GcraOk(policy, state["gcra"], judged)

LEMMA PolicyOk == ASSUME HistoryOk PROVE check_policy_bounds(policy)
  BY PolicerAssumption DEF HistoryOk

LEMMA UpToClock == ASSUME HistoryOk PROVE JudgedUpTo(judged) <= clock /\ clock \in Nat
  <1>1. clock \in Nat /\ judged \in Seq(Entry)
    BY DEF HistoryOk
  <1>2. CASE judged = <<>>
    BY <1>1, <1>2 DEF JudgedUpTo
  <1>3. CASE judged # <<>>
    <2>1. Len(judged) \in 1..Len(judged)
      BY <1>1, <1>3
    <2> QED
      BY <2>1, <1>1, <1>3 DEF JudgedUpTo, HistoryOk
  <1> QED
    BY <1>1, <1>2, <1>3

LEMMA FreshFlow ==
    ASSUME Init, NEW alg \in Algorithms \ {"sliding_window_log"}
    PROVE  state[alg] = [a |-> 0, b |-> 0, c |-> 0] /\ judged = <<>>
  BY DEF Init, Fresh

LEMMA BurstInit == Init => BurstInv
  <1>1. SUFFICES ASSUME Init, displaced = None
                 PROVE  /\ HistoryOk
                        /\ \A alg \in Buckets : BucketOk(alg, policy, state[alg], judged)
                        /\ GcraOk(policy, state["gcra"], judged)
    BY DEF BurstInv
  <1>2. HistoryOk
    BY <1>1, HistoryInit DEF HInv
  <1>3. check_policy_bounds(policy) /\ judged = <<>>
    BY <1>1, <1>2, PolicyOk DEF Init
  <1>4. Capacity(policy) \in Nat /\ Emission(policy, policy.burst_bytes) \in Nat
    BY <1>3, Rates, Emissions DEF check_policy_bounds
  <1>5. [a |-> 0, b |-> 0, c |-> 0] \in FlowState /\ JudgedUpTo(<<>>) = 0
    BY DEF FlowState, JudgedUpTo
  <1>6. ASSUME NEW alg \in Buckets PROVE BucketOk(alg, policy, state[alg], judged)
    <2>1. state[alg] = [a |-> 0, b |-> 0, c |-> 0]
      BY <1>1, FreshFlow DEF Buckets, Algorithms, BucketAlgorithms
    <2> QED
      BY <2>1, <1>3, <1>4, <1>5 DEF BucketOk
  <1>7. GcraOk(policy, state["gcra"], judged)
    <2>1. state["gcra"] = [a |-> 0, b |-> 0, c |-> 0]
      BY <1>1, FreshFlow DEF Algorithms, BucketAlgorithms
    <2> QED
      BY <2>1, <1>3, <1>4, <1>5 DEF GcraOk
  <1> QED
    BY <1>2, <1>6, <1>7

\* What a judged packet does to one algorithm's state and verdict.
LEMMA JudgedEach ==
    ASSUME NEW now, NEW len, NEW e, JudgedAs(now, len, e), NEW alg \in Algorithms
    PROVE  /\ state'[alg] = police(alg, policy, state[alg], e.read, e.len).state
           /\ alg \in e.pass <=> police(alg, policy, state[alg], e.read, e.len).conform
           /\ e \in Entry /\ e.at = clock /\ e.read <= clock /\ Boot <= e.read /\ e.len > 0
           /\ judged' = Append(judged, e)
  <1>1. e.read = now /\ e.len = len /\ e.at = clock
        /\ e.pass = {x \in Algorithms : police(x, policy, state[x], now, len).conform}
    BY Zenon DEF JudgedAs
  <1>2. state' = [x \in Algorithms |-> police(x, policy, state[x], now, len).state]
        /\ e \in Entry /\ now <= clock /\ Boot <= now /\ len \in Nat \ {0} /\ judged' = Append(judged, e)
    BY Zenon DEF JudgedAs
  <1>3. state'[alg] = police(alg, policy, state[alg], now, len).state
    BY <1>2
  <1>4. alg \in e.pass <=> police(alg, policy, state[alg], now, len).conform
    BY <1>1
  <1>5. len > 0
    BY <1>2
  <1> QED
    BY <1>1, <1>2, <1>3, <1>4, <1>5, Zenon

LEMMA BurstStep == ASSUME BurstInv, [Next]_vars PROVE BurstInv'
  <1>0. CASE displaced # None
    <2>1. displaced' = displaced
      BY DEF Next, vars, Judge, ReadClock, ReadClockLate, Elapse
    <2> QED
      BY <2>1, <1>0 DEF BurstInv
  <1>1. SUFFICES ASSUME displaced = None, HistoryOk,
                        \A alg \in Buckets : BucketOk(alg, policy, state[alg], judged),
                        GcraOk(policy, state["gcra"], judged)
                 PROVE  BurstInv'
    BY <1>0 DEF BurstInv
  <1>2. /\ HistoryOk' /\ displaced' = None /\ policy' = policy
        /\ Unjudged \/ \E now, len, e : JudgedAs(now, len, e)
    BY <1>1, HistoryStep
  <1>3. CASE Unjudged
    BY <1>1, <1>2, <1>3 DEF BurstInv, Unjudged
  <1>4. CASE \E now, len, e : JudgedAs(now, len, e)
    <2>1. PICK now, len, e : JudgedAs(now, len, e)
      BY <1>4
    <2>2. check_policy_bounds(policy) /\ JudgedUpTo(judged) <= clock /\ clock \in Nat
          /\ judged \in Seq(Entry)
      BY <1>1, PolicyOk, UpToClock DEF HistoryOk
    <2>3. ASSUME NEW alg \in Buckets PROVE BucketOk(alg, policy', state'[alg], judged')
      <3>0. alg \in Algorithms
        BY DEF Buckets, Algorithms, BucketAlgorithms
      <3>1. /\ state'[alg] = police(alg, policy, state[alg], e.read, e.len).state
            /\ alg \in e.pass <=> police(alg, policy, state[alg], e.read, e.len).conform
            /\ e \in Entry /\ e.at = clock /\ e.read <= clock
            /\ judged' = Append(judged, e)
        BY <2>1, <3>0, JudgedEach
      <3>2. BucketOk(alg, policy, police(alg, policy, state[alg], e.read, e.len).state,
                     Append(judged, e))
        BY <3>0, <3>1, <2>2, <1>1, BucketStep
      <3> QED
        BY <3>1, <3>2, <1>2
    <2>4. GcraOk(policy', state'["gcra"], judged')
      <3>0. "gcra" \in Algorithms
        BY DEF Algorithms, BucketAlgorithms
      <3>1. /\ state'["gcra"] = police("gcra", policy, state["gcra"], e.read, e.len).state
            /\ "gcra" \in e.pass <=> police("gcra", policy, state["gcra"], e.read, e.len).conform
            /\ e \in Entry /\ e.at = clock /\ e.read <= clock
            /\ judged' = Append(judged, e)
        BY <2>1, <3>0, JudgedEach
      <3>2. GcraOk(policy, police("gcra", policy, state["gcra"], e.read, e.len).state,
                   Append(judged, e))
        BY <3>1, <2>2, <1>1, GcraStep
      <3> QED
        BY <3>1, <3>2, <1>2
    <2> QED
      BY <2>3, <2>4, <1>2 DEF BurstInv
  <1> QED
    BY <1>2, <1>3, <1>4

\* A stretch that begins with a packet that passed lasts at least since that packet.
LEMMA SpanBounds ==
    ASSUME HistoryOk, NEW alg, NEW i \in 1..Len(judged), alg \in judged[i].pass
    PROVE  /\ Span(alg, i) \in Int /\ Last.at - judged[i].read <= Span(alg, i)
           /\ Last.at = JudgedUpTo(judged) /\ Last.at \in Nat /\ judged[i].read \in Nat
           /\ LatePackets(i) = 0
           /\ \A k \in Passed(alg, i) : Last.at - judged[k].read <= Span(alg, i)
           /\ \E k \in Passed(alg, i) : Span(alg, i) = Last.at - judged[k].read
  <1>1. judged \in Seq(Entry) /\ Len(judged) \in Nat /\ i \in Nat /\ i >= 1
    BY DEF HistoryOk
  <1>2. \A k \in 1..Len(judged) : judged[k].read \in Nat /\ judged[k].at \in Nat /\ judged[k].late = FALSE
                                  /\ judged[k].read <= judged[k].at
    <2>1. \A k \in 1..Len(judged) : judged[k] \in Entry
      BY <1>1
    <2> QED
      BY <2>1 DEF Entry, HistoryOk
  <1> DEFINE S == {judged[k].read : k \in Passed(alg, i)}
  <1>3. S \subseteq Nat /\ judged[i].read \in S /\ \A k \in Passed(alg, i) : judged[k].read \in S
    BY <1>1, <1>2 DEF Passed
  <1>4. Min(S) \in S /\ \A n \in S : Min(S) <= n
    <2> HIDE DEF S
    <2> QED BY <1>3, LeastNat
  <1>5. Last.at \in Nat /\ Last.at = JudgedUpTo(judged)
    BY <1>1, <1>2 DEF Last, JudgedUpTo
  <1>6. Span(alg, i) = Last.at - Min(S)
    BY DEF Span
  <1>7. PICK k \in Passed(alg, i) : Min(S) = judged[k].read
    BY <1>4
  <1>9. LatePackets(i) = 0
    <2>1. {x \in i..Len(judged) : judged[x].late} = {}
      BY <1>1, <1>2
    <2> QED
      BY <2>1, FS_EmptySet DEF LatePackets
  <1>a. SUFFICES ASSUME NEW m \in Nat, m = Min(S), NEW l \in Nat, l = Last.at,
                        NEW sp, sp = Span(alg, i), sp = l - m
                 PROVE  /\ sp \in Int /\ l - judged[i].read <= sp /\ judged[i].read \in Nat
                        /\ \A x \in Passed(alg, i) : l - judged[x].read <= sp
                        /\ \E x \in Passed(alg, i) : sp = l - judged[x].read
    BY <1>2, <1>3, <1>4, <1>5, <1>6, <1>9
  <1>10. \A x \in Passed(alg, i) : judged[x].read \in Nat /\ m <= judged[x].read
    BY <1>3, <1>4, <1>a
  <1>11. judged[i].read \in Nat /\ m <= judged[i].read
    BY <1>3, <1>4, <1>a
  <1>12. sp \in Int /\ l - judged[i].read <= sp
    BY <1>11, <1>a
  <1>13. \A x \in Passed(alg, i) : l - judged[x].read <= sp
    BY <1>10, <1>a, SMTT(30)
  <1>14. sp = l - judged[k].read
    BY <1>7, <1>a
  <1> QED
    BY <1>7, <1>11, <1>12, <1>13, <1>14

\* A bucket's invariant bounds what passed since a packet, over the span since.
LEMMA BucketBurst ==
    ASSUME HistoryOk, NEW alg \in Buckets, BucketOk(alg, policy, state[alg], judged),
           NEW i \in 1..Len(judged), alg \in judged[i].pass
    PROVE  8 * Cost(Bytes(alg, i)) <=
             8 * Capacity(policy) + policy.rate_bps * Span(alg, i)
               + Waste(policy, Cardinality(Passed(alg, i)))
  <1>a. SUFFICES ASSUME NEW p, p = policy, NEW s, s = state[alg], NEW L, L = Level(alg, policy, state[alg]),
                        NEW rate, rate = policy.rate_bps, NEW r, r = judged[i].read,
                        NEW sp, sp = Span(alg, i), NEW C, C = Cost(Bytes(alg, i)),
                        NEW w, w = Waste(policy, Cardinality(Passed(alg, i)))
                 PROVE  8 * C <= 8 * Capacity(p) + rate * sp + w
    BY Zenon
  <1>1. judged \in Seq(Entry) /\ check_policy_bounds(p)
    BY <1>a, PolicyOk DEF HistoryOk
  <1>2. /\ s \in FlowState /\ s.a <= Capacity(p) /\ s.b <= JudgedUpTo(judged)
        /\ r <= s.b /\ BucketHolds(alg, p, s, judged, i)
    BY <1>a DEF BucketOk
  <1>3. s.a \in Nat /\ s.b \in Nat /\ Capacity(p) \in Nat /\ rate \in Nat
    BY <1>1, <1>2, <1>a, Rates DEF FlowState
  <1>4. L \in Nat /\ L <= Capacity(p)
    BY <1>2, <1>3, <1>a DEF Level
  <1>5. sp \in Int /\ JudgedUpTo(judged) - r <= sp /\ r \in Nat /\ JudgedUpTo(judged) \in Nat
    BY <1>a, SpanBounds
  <1>6. C \in Nat /\ w \in Nat
    <2>1. BytesOf(judged, alg, i) \in Nat /\ CountOf(judged, alg, i) \in Nat
      BY <1>1, PassedFacts
    <2> QED
      BY <2>1, <1>1, <1>a, CostNat, WasteSum, PassedIsOf DEF CountOf
  <1>7. 8 * C <= 8 * L + rate * (s.b - r) + w
    <2>1. 8 * C + Slack(p, L) <= 8 * L + rate * (s.b - r) + w
      BY <1>2, <1>a, PassedIsOf DEF BucketHolds, CountOf
    <2>2. Slack(p, L) \in Nat
      BY <1>3, <1>a DEF Slack
    <2>3. rate * (s.b - r) \in Int
      BY <1>3, <1>5
    <2>b. SUFFICES ASSUME NEW y \in Int, y = rate * (s.b - r) PROVE 8 * C <= 8 * L + y + w
      BY <2>3
    <2> QED
      BY <2>1, <2>2, <2>b, <1>4, <1>6
  <1>8. rate * (s.b - r) <= rate * sp
    <2>1. s.b - r \in Nat /\ sp \in Nat /\ s.b - r <= sp
      BY <1>2, <1>3, <1>5
    <2> QED
      BY <2>1, <1>3, TimesMono
  <1>b. SUFFICES ASSUME NEW y1, y1 = rate * (s.b - r), NEW y2, y2 = rate * sp
                 PROVE  8 * C <= 8 * Capacity(p) + y2 + w
    OBVIOUS
  <1>9. y1 \in Int /\ y2 \in Int
    BY <1>b, <1>3, <1>5
  <1>10. 8 * C <= 8 * L + y1 + w /\ y1 <= y2
    BY <1>7, <1>8, <1>b
  <1> QED
    BY <1>3, <1>4, <1>6, <1>9, <1>10

\* So does GCRA's.
LEMMA GcraBurst ==
    ASSUME HistoryOk, GcraOk(policy, state["gcra"], judged),
           NEW i \in 1..Len(judged), "gcra" \in judged[i].pass
    PROVE  8 * Cost(Bytes("gcra", i)) <=
             8 * Capacity(policy) + policy.rate_bps * Span("gcra", i)
               + Waste(policy, Cardinality(Passed("gcra", i)))
  <1>a. SUFFICES ASSUME NEW p, p = policy, NEW a, a = state["gcra"].a, NEW eb, eb = Emission(policy, policy.burst_bytes),
                        NEW rate, rate = policy.rate_bps, NEW r, r = judged[i].read,
                        NEW sp, sp = Span("gcra", i), NEW C, C = Cost(Bytes("gcra", i)),
                        NEW w, w = Waste(policy, Cardinality(Passed("gcra", i))),
                        NEW u, u = JudgedUpTo(judged)
                 PROVE  8 * C <= 8 * Capacity(p) + rate * sp + w
    BY Zenon
  <1>1. judged \in Seq(Entry) /\ check_policy_bounds(p) /\ p.burst_bytes \in Nat
    BY <1>a, PolicyOk DEF HistoryOk, check_policy_bounds
  <1>2. a \in Nat /\ a <= u + eb /\ GcraHolds(p, state["gcra"], judged, i)
    BY <1>a DEF GcraOk, FlowState
  <1>3. rate \in Nat /\ eb \in Nat /\ rate * eb <= 8 * Cost(p.burst_bytes) /\ Cost(p.burst_bytes) = Capacity(p)
        /\ Capacity(p) \in Nat
    BY <1>1, <1>a, Rates, Emissions DEF Cost, Capacity
  <1>5. sp \in Int /\ u - r <= sp /\ r \in Nat /\ u \in Nat
    BY <1>a, SpanBounds
  <1>6. C \in Nat /\ w \in Nat
    <2>1. BytesOf(judged, "gcra", i) \in Nat /\ CountOf(judged, "gcra", i) \in Nat
      BY <1>1, PassedFacts
    <2> QED
      BY <2>1, <1>1, <1>a, CostNat, WasteSum, PassedIsOf DEF CountOf
  <1>7. 8 * C <= rate * (a - r) + w /\ r <= a
    BY <1>2, <1>a, PassedIsOf DEF GcraHolds, CountOf
  <1>8. rate * (a - r) <= rate * sp + rate * eb
    <2>1. a - r \in Nat /\ sp + eb \in Nat /\ a - r <= sp + eb
      BY <1>2, <1>3, <1>5, <1>7
    <2>2. rate * (a - r) <= rate * (sp + eb)
      BY <2>1, <1>3, TimesMono
    <2> QED
      BY <2>2, <1>3, <1>5, TimesSum
  <1>b. SUFFICES ASSUME NEW y1, y1 = rate * (a - r), NEW y2, y2 = rate * sp, NEW y3, y3 = rate * eb
                 PROVE  8 * C <= 8 * Capacity(p) + y2 + w
    OBVIOUS
  <1>9. y1 \in Int /\ y2 \in Int /\ y3 \in Int
    BY <1>b, <1>2, <1>3, <1>5
  <1> QED
    BY <1>3, <1>6, <1>7, <1>8, <1>9, <1>b, SMTT(30)

LEMMA BurstBoundHolds == ASSUME BurstInv, displaced = None PROVE BurstBound
  <1>1. HistoryOk /\ (\A alg \in Buckets : BucketOk(alg, policy, state[alg], judged))
        /\ GcraOk(policy, state["gcra"], judged)
    BY DEF BurstInv
  <1>2. SUFFICES ASSUME NEW alg \in BucketAlgorithms, NEW i \in 1..Len(judged), alg \in judged[i].pass
                 PROVE  Bytes(alg, i) * BitsPerByte * NsPerSec <=
                          (1 + LatePackets(i)) * policy.burst_bytes * BitsPerByte * NsPerSec
                            + policy.rate_bps * Span(alg, i)
                            + (IF Exact THEN 0 ELSE policy.rate_bps * Cardinality(Passed(alg, i)))
    BY DEF BurstBound
  <1>3. 8 * Cost(Bytes(alg, i)) <=
          8 * Capacity(policy) + policy.rate_bps * Span(alg, i)
            + Waste(policy, Cardinality(Passed(alg, i)))
    <2>1. CASE alg = "gcra"
      BY <2>1, <1>1, <1>2, GcraBurst
    <2>2. CASE alg \in Buckets
      BY <2>2, <1>1, <1>2, BucketBurst
    <2> QED
      BY <2>1, <2>2 DEF BucketAlgorithms, Buckets
  <1>a. SUFFICES ASSUME NEW B, B = Bytes(alg, i), NEW q, q = policy.burst_bytes, NEW N, N = NsPerSec,
                        NEW y, y = policy.rate_bps * Span(alg, i),
                        NEW w, w = (IF Exact THEN 0 ELSE policy.rate_bps * Cardinality(Passed(alg, i)))
                 PROVE  B * 8 * N <= (1 + LatePackets(i)) * q * 8 * N + y + w
    BY DEF BitsPerByte
  <1>4. B \in Nat /\ q \in Nat /\ N \in Nat
    <2>1. judged \in Seq(Entry) /\ check_policy_bounds(policy)
      BY <1>1, PolicyOk DEF HistoryOk
    <2>2. BytesOf(judged, alg, i) \in Nat
      BY <2>1, PassedFacts
    <2> QED
      BY <2>1, <2>2, <1>a, PassedIsOf, PolicerAssumption DEF check_policy_bounds
  <1>5. LatePackets(i) = 0
    BY <1>1, <1>2, SpanBounds
  <1>6. w = Waste(policy, Cardinality(Passed(alg, i)))
    BY <1>a DEF Waste, Exact, ExactFor, BitsPerByte
  <1>7. 8 * (B * N) <= 8 * (q * N) + y + w
    BY <1>3, <1>6, <1>a DEF Cost, Capacity
  <1>8. B * 8 * N = 8 * (B * N) /\ (1 + LatePackets(i)) * q * 8 * N = 8 * (q * N)
    BY <1>4, <1>5
  <1> QED
    BY <1>7, <1>8

\* BurstBound, for a flow whose install displaced no policy: in any stretch of time the
\* token bucket, the leaky bucket and GCRA of police (vm-bandwidth-ebpf) let at most the
\* burst and the rate times that time pass, whatever the policy, the packets and the
\* order in which the CPUs got the lock.
THEOREM NoMoreThanTheBurst == Spec => [](displaced = None => BurstBound)
  <1>1. BurstInv => (displaced = None => BurstBound)
    BY BurstBoundHolds
  <1> QED
    BY <1>1, BurstInit, BurstStep, PTL DEF Spec

-----------------------------------------------------------------------------
(* The three bucket algorithms agree *)

Token == state["token_bucket"]
Leaky == state["leaky_bucket"]
Gcra == state["gcra"]

\* The tokens and the level add up to the capacity once the token bucket has been full.
Mirrored ==
    /\ judged = <<>> => Token = Fresh("token_bucket") /\ Leaky = Fresh("leaky_bucket")
    /\ judged # <<>> => Token.b = Leaky.b
    /\ judged # <<>> /\ FullNs(policy) <= judged[1].read =>
         Level("token_bucket", policy, Token) = Level("leaky_bucket", policy, Leaky)

\* The level is what the rate makes of the time until the arrival time.
Timed ==
    /\ Leaky.a = PerNs(policy) * Excess(Gcra.a, Leaky.b)
    /\ Gcra.a <= Leaky.b + FullNs(policy)
    /\ judged # <<>> => Leaky.b = Last.read

SameInv ==
    BurstInv /\ (displaced = None => Mirrored /\ (Exact /\ InOrder => Timed) /\ SameDecisions)

\* Buckets that mirror each other find the same level.
LEMMA FoundSame ==
    ASSUME BurstInv, Mirrored, displaced = None, NEW now \in Nat,
           FullNs(policy) <= IF judged = <<>> THEN now ELSE judged[1].read
    PROVE  Found("token_bucket", policy, Token, now) = Found("leaky_bucket", policy, Leaky, now)
  <1>1. CASE judged = <<>>
    <2>1. Token = [a |-> 0, b |-> 0, c |-> 0] /\ Leaky = [a |-> 0, b |-> 0, c |-> 0]
      BY <1>1 DEF Mirrored, Fresh
    <2>2. FullNs(policy) <= now /\ FullNs(policy) \in Nat
      BY <1>1, PolicyOk, Rates DEF BurstInv
    <2>3. now - 0 >= FullNs(policy) /\ now >= 0
      BY <2>2
    <2>4. ASSUME NEW s, s.b = 0 PROVE Drained(policy, s, now) = 0
      BY <2>3, <2>4 DEF Drained
    <2> QED
      BY <2>1, <2>4 DEF Found, Leveled
  <1>2. CASE judged # <<>>
    <2>1. FullNs(policy) <= judged[1].read
      BY <1>2
    <2> QED
      BY <1>2, <2>1 DEF Mirrored, Found, Leveled, Drained
  <1> QED
    BY <1>1, <1>2

\* What a packet finds in the leaky bucket is what GCRA still has to wait for.
LEMMA FoundTimed ==
    ASSUME NEW p, check_policy_bounds(p), NEW s \in FlowState, NEW g \in Nat, NEW now \in Nat,
           s.a = PerNs(p) * Excess(g, s.b), g <= s.b + FullNs(p), s.b <= now
    PROVE  Found("leaky_bucket", p, s, now) = PerNs(p) * Excess(g, now)
  <1>a. SUFFICES ASSUME NEW r, r = PerNs(p), NEW full, full = FullNs(p), NEW b, b = s.b, NEW a, a = s.a,
                        NEW D, D = Found("leaky_bucket", p, s, now)
                 PROVE  D = r * Excess(g, now)
    OBVIOUS
  <1>1. r \in Nat \ {0} /\ full \in Nat /\ b \in Nat /\ a \in Nat
    BY <1>a, Rates DEF FlowState
  <1>2. a = r * Excess(g, b) /\ g <= b + full /\ b <= now
    BY <1>a
  <1>3. D = IF now - b >= full THEN 0 ELSE Excess(a, (now - b) * r)
    BY <1>1, <1>2, <1>a DEF Found, Leveled, Level, Drained
  <1>4. CASE now - b >= full
    <2>1. Excess(g, now) = 0
      BY <1>1, <1>2, <1>4 DEF Excess
    <2> QED
      BY <2>1, <1>1, <1>3, <1>4
  <1>5. CASE now - b < full /\ g >= now
    <2>1. Excess(g, now) = g - now /\ Excess(g, b) = g - b
      BY <1>1, <1>2, <1>5 DEF Excess
    <2>2. r * ((g - now) + (now - b)) = r * (g - now) + r * (now - b)
      BY <1>1, TimesSum
    <2>3. (g - now) + (now - b) = g - b /\ (now - b) * r = r * (now - b)
      BY <1>1
    <2>4. r * (g - now) \in Nat /\ r * (now - b) \in Nat
      BY <1>1, <1>2, <1>5, TimesNat
    <2>b. SUFFICES ASSUME NEW x \in Nat, x = r * (g - now), NEW y \in Nat, y = r * (now - b) PROVE D = x
      BY <2>1, <2>4
    <2>5. a = x + y /\ D = Excess(a, y)
      <3>1. now - b \in Nat /\ ~(now - b >= full)
        BY <1>1, <1>2, <1>5
      <3> QED
        BY <3>1, <2>1, <2>2, <2>3, <2>b, <1>2, <1>3
    <2> QED
      BY <2>5, <2>b DEF Excess
  <1>6. CASE now - b < full /\ g < now
    <2>1. Excess(g, now) = 0 /\ Excess(g, b) \in Nat /\ Excess(g, b) <= now - b /\ now - b \in Nat
      BY <1>1, <1>2, <1>6 DEF Excess
    <2>2. r * Excess(g, b) <= r * (now - b) /\ r * 0 = 0 /\ (now - b) * r = r * (now - b)
      BY <2>1, <1>1, TimesMono
    <2>3. r * (now - b) \in Nat
      BY <2>1, <1>1, TimesNat
    <2>b. SUFFICES ASSUME NEW y \in Nat, y = r * (now - b) PROVE D = 0
      BY <2>1, <2>2, <2>3
    <2>4. D = Excess(a, y) /\ a <= y
      <3>1. ~(now - b >= full)
        BY <2>1, <1>1, <1>6
      <3> QED
        BY <3>1, <2>2, <2>b, <1>2, <1>3
    <2> QED
      BY <2>4, <2>b, <1>1 DEF Excess
  <1> QED
    BY <1>1, <1>2, <1>4, <1>5, <1>6

\* On exact divisions GCRA and the leaky bucket give the same verdict and stay in step.
LEMMA TimedStep ==
    ASSUME NEW p, check_policy_bounds(p), ExactFor(p), NEW s \in FlowState, s.a <= Capacity(p),
           NEW g \in FlowState, NEW now \in Nat, NEW len \in Nat,
           s.a = PerNs(p) * Excess(g.a, s.b), g.a <= s.b + FullNs(p), s.b <= now
    PROVE  LET v == police("leaky_bucket", p, s, now, len)
               w == police("gcra", p, g, now, len)
           IN  /\ v.conform <=> w.conform
               /\ v.state.b = now
               /\ v.state.a = PerNs(p) * Excess(w.state.a, now)
               /\ w.state.a <= now + FullNs(p)
  <1>a. SUFFICES ASSUME NEW v, v = police("leaky_bucket", p, s, now, len),
                        NEW w, w = police("gcra", p, g, now, len),
                        NEW r, r = PerNs(p), NEW full, full = FullNs(p), NEW D, D = Found("leaky_bucket", p, s, now),
                        NEW x, x = Excess(g.a, now), NEW em, em = Emission(p, len),
                        NEW tat, tat = Tat(p, g, now, len), NEW cost, cost = Cost(len),
                        NEW cap, cap = Capacity(p)
                 PROVE  /\ v.conform <=> w.conform
                        /\ v.state.b = now
                        /\ v.state.a = r * Excess(w.state.a, now)
                        /\ w.state.a <= now + full
    OBVIOUS
  <1>1. r \in Nat \ {0} /\ full \in Nat /\ cap \in Nat /\ em \in Nat /\ cost \in Nat /\ g.a \in Nat /\ s.b \in Nat
    BY <1>a, Rates, Emissions, CostNat DEF FlowState
  <1>2. r * em = cost /\ r * full = cap /\ full = Emission(p, p.burst_bytes)
    BY <1>a, ExactRates
  <1>3. D = r * x /\ x \in Nat
    <2>1. x \in Nat
      BY <1>1, <1>a DEF Excess
    <2> QED
      BY <2>1, <1>1, <1>a, FoundTimed
  <1>4. /\ D \in Nat /\ (v.conform <=> D + cost <= cap)
        /\ v.state.b = Later(now, s.b)
        /\ v.state.a = IF v.conform THEN D + cost ELSE D
    <2>1. "leaky_bucket" \in Buckets
      BY DEF Buckets
    <2>2. LET u == police("leaky_bucket", p, s, now, len)
              F == Found("leaky_bucket", p, s, now)
          IN  /\ F \in Nat
              /\ u.conform = (F + Cost(len) <= Capacity(p))
              /\ u.state.b = Later(now, s.b)
              /\ Level("leaky_bucket", p, u.state) = IF u.conform THEN F + Cost(len) ELSE F
      BY <2>1, BucketVerdict
    <2>3. /\ D \in Nat
          /\ v.conform = (D + cost <= cap)
          /\ v.state.b = Later(now, s.b)
          /\ Level("leaky_bucket", p, v.state) = IF v.conform THEN D + cost ELSE D
      BY <2>2, <1>a, Zenon
    <2> QED
      BY <2>3 DEF Level
  <1>5. /\ w.conform <=> tat <= now + full
        /\ w.conform => w.state.a = tat
        /\ ~w.conform => w.state = g
    <2>1. /\ police("gcra", p, g, now, len).conform <=>
               Tat(p, g, now, len) <= now + Emission(p, p.burst_bytes)
          /\ police("gcra", p, g, now, len).conform =>
               police("gcra", p, g, now, len).state.a = Tat(p, g, now, len)
          /\ ~police("gcra", p, g, now, len).conform => police("gcra", p, g, now, len).state = g
      BY GcraVerdict
    <2> QED
      BY <2>1, <1>2, <1>a, Zenon
  <1>6. tat = now + x + em
    BY <1>1, <1>a DEF Tat, Later, Excess
  <1>7. r * (x + em) = D + cost
    BY <1>1, <1>2, <1>3, TimesSum
  <1>8. w.conform <=> x + em <= full
    BY <1>1, <1>3, <1>5, <1>6
  <1>9. x + em <= full <=> r * (x + em) <= r * full
    <2>1. x + em \in Nat
      BY <1>1, <1>3
    <2> QED
      BY <2>1, <1>1, TimesMono, TimesStrict
  <1>10. v.conform <=> w.conform
    BY <1>2, <1>4, <1>7, <1>8, <1>9
  <1>11. v.state.b = now
    BY <1>1, <1>4 DEF Later
  <1>12. CASE w.conform
    <2>1. w.state.a = now + x + em /\ Excess(now + x + em, now) = x + em
      BY <1>1, <1>3, <1>5, <1>6, <1>12 DEF Excess
    <2>2. v.state.a = r * (x + em)
      BY <1>4, <1>7, <1>10, <1>12
    <2>3. w.state.a <= now + full
      BY <1>5, <1>12
    <2> QED
      BY <2>1, <2>2, <2>3, <1>10, <1>11
  <1>13. CASE ~w.conform
    <2>1. w.state = g /\ v.state.a = D
      BY <1>4, <1>5, <1>10, <1>13
    <2>2. g.a <= now + full
      BY <1>1, <1>a
    <2> QED
      BY <2>1, <2>2, <1>3, <1>10, <1>11, <1>a
  <1> QED
    BY <1>12, <1>13

\* BucketVerdict with names for the verdict and for the level found.
BucketJudged(alg, p, s, now, len, v, D) ==
    /\ D \in Nat /\ D <= Level(alg, p, s)
    /\ v.conform = (D + Cost(len) <= Capacity(p))
    /\ v.state \in FlowState /\ v.state.a <= Capacity(p)
    /\ v.state.b = Later(now, s.b)
    /\ Level(alg, p, v.state) = IF v.conform THEN D + Cost(len) ELSE D

\* BucketVerdict, for a verdict and a level that have names.
LEMMA BucketNamed ==
    ASSUME NEW alg \in Buckets, NEW p, check_policy_bounds(p),
           NEW s \in FlowState, s.a <= Capacity(p), NEW now \in Nat, NEW len \in Nat,
           NEW v, v = police(alg, p, s, now, len), NEW D, D = Found(alg, p, s, now)
    PROVE  BucketJudged(alg, p, s, now, len, v, D)
  <1>1. LET u == police(alg, p, s, now, len)
            F == Found(alg, p, s, now)
        IN  /\ F \in Nat /\ F <= Level(alg, p, s)
            /\ u.conform = (F + Cost(len) <= Capacity(p))
            /\ u.state \in FlowState /\ u.state.a <= Capacity(p)
            /\ u.state.b = Later(now, s.b)
            /\ Level(alg, p, u.state) = IF u.conform THEN F + Cost(len) ELSE F
    BY BucketVerdict
  <1> QED
    BY <1>1, Zenon DEF BucketJudged

LEMMA SameInit == Init => SameInv
  <1>1. SUFFICES ASSUME Init, displaced = None
                 PROVE  Mirrored /\ Timed /\ SameDecisions
    BY BurstInit DEF SameInv, BurstInv, Init
  <1>2. /\ Token = [a |-> 0, b |-> 0, c |-> 0] /\ Leaky = [a |-> 0, b |-> 0, c |-> 0]
        /\ Gcra = [a |-> 0, b |-> 0, c |-> 0] /\ judged = <<>>
    BY <1>1, FreshFlow DEF Token, Leaky, Gcra, Algorithms, BucketAlgorithms
  <1>3. check_policy_bounds(policy)
    BY <1>1, HistoryInit, PolicyOk DEF HInv
  <1>4. Mirrored /\ SameDecisions
    BY <1>2 DEF Mirrored, Fresh, SameDecisions
  <1>5. PerNs(policy) \in Nat /\ FullNs(policy) \in Nat
    BY <1>3, Rates
  <1>6. Timed
    BY <1>2, <1>5 DEF Timed, Excess
  <1> QED
    BY <1>4, <1>6

\* What JudgedEach and Append say of the packet just judged.
LEMMA JudgedLast ==
    ASSUME HistoryOk, NEW now, NEW len, NEW e, JudgedAs(now, len, e)
    PROVE  /\ judged' # <<>> /\ Last' = e /\ e \in Entry /\ e.read \in Nat /\ e.len \in Nat
           /\ Boot <= e.read /\ e.read <= clock /\ e.at = clock /\ e.len > 0
           /\ Len(judged') = Len(judged) + 1 /\ judged'[Len(judged) + 1] = e
           /\ \A i \in 1..Len(judged) : judged'[i] = judged[i]
           /\ judged # <<>> => Last = judged[Len(judged)] /\ Len(judged) \in 1..Len(judged)
  <1>1. e \in Entry /\ e.at = clock /\ e.read <= clock /\ Boot <= e.read /\ e.len > 0
        /\ judged' = Append(judged, e)
    <2>1. "gcra" \in Algorithms
      BY DEF Algorithms, BucketAlgorithms
    <2> QED
      BY <2>1, JudgedEach
  <1>2. judged \in Seq(Entry)
    BY DEF HistoryOk
  <1>3. judged' # <<>> /\ Len(judged') = Len(judged) + 1 /\ judged'[Len(judged) + 1] = e
        /\ \A i \in 1..Len(judged) : judged'[i] = judged[i]
    BY <1>1, <1>2
  <1>4. Last' = e
    BY <1>3 DEF Last
  <1>5. judged # <<>> => Last = judged[Len(judged)] /\ Len(judged) \in 1..Len(judged)
    BY <1>2 DEF Last
  <1>6. e.read \in Nat /\ e.len \in Nat
    BY <1>1 DEF Entry
  <1> QED
    BY <1>1, <1>3, <1>4, <1>5, <1>6

\* An ordered history was ordered before its last packet.
LEMMA OrderedBefore ==
    ASSUME HistoryOk, NEW now, NEW len, NEW e, JudgedAs(now, len, e), InOrder'
    PROVE  InOrder /\ (judged # <<>> => Last.read <= e.read)
  <1>1. /\ Len(judged') = Len(judged) + 1 /\ judged'[Len(judged) + 1] = e
        /\ \A i \in 1..Len(judged) : judged'[i] = judged[i]
        /\ judged # <<>> => Last = judged[Len(judged)] /\ Len(judged) \in 1..Len(judged)
    BY JudgedLast
  <1>2. judged \in Seq(Entry) /\ Len(judged) \in Nat
    BY DEF HistoryOk
  <1>3. \A i \in 1..Len(judged) : judged'[i].read <= judged'[i + 1].read
    BY <1>1, <1>2 DEF InOrder
  <1>4. ASSUME NEW i \in 1..Len(judged) - 1 PROVE judged[i].read <= judged[i + 1].read
    <2>1. i \in 1..Len(judged) /\ i + 1 \in 1..Len(judged)
      BY <1>2
    <2> QED
      BY <2>1, <1>1, <1>3
  <1>5. judged # <<>> => Last.read <= e.read
    BY <1>1, <1>3
  <1> QED
    BY <1>4, <1>5 DEF InOrder

\* A judged packet keeps the buckets mirrored and, in order, GCRA in time with them.
LEMMA SameStep == ASSUME SameInv, [Next]_vars PROVE SameInv'
  <1>0. BurstInv'
    BY BurstStep DEF SameInv
  <1>z. CASE displaced # None
    <2>1. displaced' = displaced
      BY DEF Next, vars, Judge, ReadClock, ReadClockLate, Elapse
    <2> QED
      BY <2>1, <1>0, <1>z DEF SameInv
  <1>1. SUFFICES ASSUME displaced = None
                 PROVE  SameInv'
    BY <1>z
  <1>2. /\ HistoryOk /\ BurstInv /\ Mirrored /\ (Exact /\ InOrder => Timed) /\ SameDecisions
        /\ \A alg \in Buckets : BucketOk(alg, policy, state[alg], judged)
        /\ GcraOk(policy, Gcra, judged)
    BY <1>1 DEF SameInv, BurstInv, Gcra
  <1>3. /\ HistoryOk' /\ displaced' = None /\ policy' = policy
        /\ Unjudged \/ \E now, len, e : JudgedAs(now, len, e)
    BY <1>1, <1>2, HistoryStep
  <1>4. CASE Unjudged
    <2>1. UNCHANGED <<state, judged, policy, displaced>>
      BY <1>1, <1>3, <1>4 DEF Unjudged
    <2>2. Mirrored' /\ (SameDecisions' <=> SameDecisions)
      BY <2>1, <1>2 DEF Mirrored, Token, Leaky, SameDecisions, Says, Exact, InOrder, Last
    <2>3. Exact' /\ InOrder' => Timed'
      BY <2>1, <1>2 DEF Timed, Leaky, Gcra, Exact, InOrder, Last
    <2> QED
      BY <2>2, <2>3, <1>0, <1>2 DEF SameInv
  <1>5. CASE \E now, len, e : JudgedAs(now, len, e)
    <2>1. PICK now, len, e : JudgedAs(now, len, e)
      BY <1>5
    <2>2. /\ judged' # <<>> /\ Last' = e /\ e.read \in Nat /\ e.len \in Nat /\ Boot <= e.read
      BY <2>1, <1>2, JudgedLast
    <2>3. check_policy_bounds(policy)
      BY <1>2, PolicyOk
    <2>4. {"token_bucket", "leaky_bucket", "gcra"} \subseteq Algorithms
          /\ "token_bucket" \in Buckets /\ "leaky_bucket" \in Buckets
      BY DEF Algorithms, BucketAlgorithms, Buckets
    <2>5. /\ Token \in FlowState /\ Leaky \in FlowState /\ Gcra \in FlowState
          /\ Token.a <= Capacity(policy) /\ Leaky.a <= Capacity(policy)
      BY <2>4, <1>2 DEF BucketOk, GcraOk, Token, Leaky
    <2>a. SUFFICES ASSUME NEW u, u = police("token_bucket", policy, Token, e.read, e.len),
                          NEW v, v = police("leaky_bucket", policy, Leaky, e.read, e.len),
                          NEW w, w = police("gcra", policy, Gcra, e.read, e.len)
                   PROVE  SameInv'
      OBVIOUS
    <2>6. /\ Token' = u.state /\ Leaky' = v.state /\ Gcra' = w.state
          /\ "token_bucket" \in e.pass <=> u.conform
          /\ "leaky_bucket" \in e.pass <=> v.conform
          /\ "gcra" \in e.pass <=> w.conform
      <3>1. \A alg \in Algorithms :
              /\ state'[alg] = police(alg, policy, state[alg], e.read, e.len).state
              /\ alg \in e.pass <=> police(alg, policy, state[alg], e.read, e.len).conform
        BY <2>1, JudgedEach
      <3> QED
        BY <3>1, <2>4, <2>a DEF Token, Leaky, Gcra
    <2>b. SUFFICES ASSUME NEW D, D = Found("leaky_bucket", policy, Leaky, e.read),
                          NEW U, U = Found("token_bucket", policy, Token, e.read)
                   PROVE  SameInv'
      OBVIOUS
    <2>7. ASSUME FullNs(policy) <= judged'[1].read PROVE U = D
      <3>1. FullNs(policy) <= IF judged = <<>> THEN e.read ELSE judged[1].read
        <4>1. judged'[Len(judged) + 1] = e /\ \A i \in 1..Len(judged) : judged'[i] = judged[i]
          BY <2>1, <1>2, JudgedLast
        <4>2. judged \in Seq(Entry)
          BY <1>2 DEF HistoryOk
        <4>3. CASE judged = <<>>
          BY <4>1, <4>3, <2>7
        <4>4. CASE judged # <<>>
          <5>1. 1 \in 1..Len(judged)
            BY <4>2, <4>4
          <5> QED
            BY <5>1, <4>1, <4>4, <2>7
        <4> QED
          BY <4>3, <4>4
      <3> QED
        BY <3>1, <2>2, <2>b, <1>1, <1>2, FoundSame
    <2>10. /\ u.conform = (U + Cost(e.len) <= Capacity(policy))
           /\ u.state.b = Later(e.read, Token.b)
           /\ Level("token_bucket", policy, u.state) = IF u.conform THEN U + Cost(e.len) ELSE U
      <3>1. U = Found("token_bucket", policy, Token, e.read)
            /\ u = police("token_bucket", policy, Token, e.read, e.len)
        BY <2>a, <2>b
      <3>2. e.read \in Nat /\ e.len \in Nat
        BY <2>2
      <3> QED
        <4>1. "token_bucket" \in Buckets /\ Token \in FlowState /\ Token.a <= Capacity(policy)
          BY <2>4, <2>5
        <4>2. BucketJudged("token_bucket", policy, Token, e.read, e.len, u, U)
          BY <4>1, <3>1, <3>2, <2>3, BucketNamed
        <4> QED
          BY <4>2, Zenon DEF BucketJudged
    <2>11. /\ v.conform = (D + Cost(e.len) <= Capacity(policy))
           /\ v.state.b = Later(e.read, Leaky.b)
           /\ Level("leaky_bucket", policy, v.state) = IF v.conform THEN D + Cost(e.len) ELSE D
      <3>1. BucketJudged("leaky_bucket", policy, Leaky, e.read, e.len, v, D)
        BY <2>2, <2>3, <2>4, <2>5, <2>a, <2>b, BucketNamed
      <3> QED
        BY <3>1, Zenon DEF BucketJudged
    <2>12. FullNs(policy) <= judged'[1].read => u.conform = v.conform
      BY <2>7, <2>10, <2>11, Zenon
    <2>13. Token.b = Leaky.b
      <3>1. CASE judged = <<>>
        BY <3>1, <1>2 DEF Mirrored, Fresh
      <3>2. CASE judged # <<>>
        BY <3>2, <1>2 DEF Mirrored
      <3> QED
        BY <3>1, <3>2
    <2>14. Mirrored'
      <3>1. Token'.b = Leaky'.b
        BY <2>6, <2>10, <2>11, <2>13
      <3>2. ASSUME FullNs(policy) <= judged'[1].read
            PROVE  Level("token_bucket", policy', Token') = Level("leaky_bucket", policy', Leaky')
        <4>1. Level("token_bucket", policy, u.state) = Level("leaky_bucket", policy, v.state)
          BY <3>2, <2>7, <2>10, <2>11, <2>12
        <4> QED
          BY <4>1, <2>6, <1>3
      <3>3. FullNs(policy)' = FullNs(policy')
        OBVIOUS
      <3> QED
        BY <3>1, <3>2, <2>2, <1>3 DEF Mirrored
    <2>15. ASSUME Exact', InOrder'
           PROVE  Timed' /\ (v.conform <=> w.conform)
      <3>1. InOrder /\ (judged # <<>> => Last.read <= e.read)
        BY <2>1, <2>15, <1>2, OrderedBefore
      <3>2. Exact /\ ExactFor(policy)
        BY <2>15, <1>3 DEF Exact, ExactFor, BitsPerByte
      <3>3. Timed
        BY <3>1, <3>2, <1>2
      <3>4. Leaky.b <= e.read
        <4>1. CASE judged = <<>>
          BY <4>1, <2>2, <1>2 DEF Mirrored, Fresh
        <4>2. CASE judged # <<>>
          BY <4>2, <3>1, <3>3 DEF Timed
        <4> QED
          BY <4>1, <4>2
      <3>5. LET x == police("leaky_bucket", policy, Leaky, e.read, e.len)
                y == police("gcra", policy, Gcra, e.read, e.len)
            IN  /\ x.conform <=> y.conform
                /\ x.state.b = e.read
                /\ x.state.a = PerNs(policy) * Excess(y.state.a, e.read)
                /\ y.state.a <= e.read + FullNs(policy)
        BY <3>2, <3>3, <3>4, <2>2, <2>3, <2>5, TimedStep DEF Timed
      <3>6. /\ v.conform <=> w.conform
            /\ v.state.b = e.read
            /\ v.state.a = PerNs(policy) * Excess(w.state.a, e.read)
            /\ w.state.a <= e.read + FullNs(policy)
        BY <3>5, <2>a, Zenon
      <3>7. Timed'
        BY <3>6, <2>2, <2>6, <1>3 DEF Timed
      <3> QED
        BY <3>6, <3>7
    <2>16. SameDecisions'
      <3>1. ASSUME FullNs(policy) <= judged'[1].read
            PROVE  "token_bucket" \in Last'.pass <=> "leaky_bucket" \in Last'.pass
        BY <3>1, <2>2, <2>6, <2>12
      <3>2. Exact' /\ InOrder' => ("gcra" \in Last'.pass <=> "leaky_bucket" \in Last'.pass)
        BY <2>2, <2>6, <2>15
      <3> QED
        BY <3>1, <3>2, <1>3 DEF SameDecisions, Says
    <2> QED
      BY <2>14, <2>15, <2>16, <1>0 DEF SameInv
  <1> QED
    BY <1>3, <1>4, <1>5

\* SameDecisions: the token bucket and the leaky bucket of police (vm-bandwidth-ebpf)
\* give the same verdict from the first packet on, if by then the host has been up for
\* as long as a bucket takes to fill, and GCRA the same as the leaky bucket as long as no
\* division rounds and no timestamp is overtaken, whatever the policies and the packets.
THEOREM TheBucketsAgree == Spec => []SameDecisions
  <1>1. SameInv => SameDecisions
    BY DEF SameInv, SameDecisions
  <1>2. SameInv /\ [Next]_vars => SameInv'
    BY SameStep
  <1> QED
    BY <1>1, <1>2, SameInit, PTL DEF Spec

-----------------------------------------------------------------------------
(* Windows.  A window has a start and the bytes used since; what passed since a *)
(* packet was used in windows that began less than a window before it.          *)

LEMMA Allowances ==
    ASSUME NEW p, check_policy_bounds(p)
    PROVE  p.window_ns \in Nat \ {0} /\ window_allowance(p) \in Nat
  <1>1. p.window_ns \in Nat \ {0} /\ PerNs(p) \in Nat /\ NsPerSec \in Nat \ {0}
    BY Rates, PolicerAssumption DEF check_policy_bounds
  <1>2. p.window_ns \div NsPerSec \in Nat
    BY <1>1, DivBounds
  <1> QED
    BY <1>1, <1>2, TimesNat DEF window_allowance, PerNs

WindowHolds(alg, p, start, used, J, i) ==
    /\ J[i].read < start + p.window_ns
    /\ p.window_ns * BytesOf(J, alg, i) <=
         window_allowance(p) * (start + p.window_ns - J[i].read) + p.window_ns * used

WindowOk(alg, p, start, used, J) ==
    /\ start \in Nat /\ used \in Nat /\ used <= window_allowance(p)
    /\ start <= JudgedUpTo(J) /\ (start = 0 => J = <<>>)
    /\ \A i \in 1..Len(J) : alg \in J[i].pass => WindowHolds(alg, p, start, used, J, i)

\* The window goes on, or a new one begins where the old one has ended.
GoesOn(p, start, used, now, add, start2, used2) ==
    start # 0 /\ now < start + p.window_ns /\ start2 = start /\ used2 = used + add
Begins(p, start, now, add, start2, used2) ==
    /\ start = 0 \/ start2 >= start + p.window_ns
    /\ start2 \in Nat \ {0} /\ start2 <= now /\ now < start2 + p.window_ns
    /\ used2 = add

\* A window that goes on or begins anew keeps its invariant.
LEMMA WindowStep ==
    ASSUME NEW alg, NEW p, check_policy_bounds(p), NEW start, NEW used, NEW J \in Seq(Entry),
           WindowOk(alg, p, start, used, J), JudgedUpTo(J) <= clock, clock \in Nat,
           NEW e \in Entry, e.at = clock, e.read <= clock,
           NEW add \in Nat, add = (IF alg \in e.pass THEN e.len ELSE 0),
           NEW start2, NEW used2, used2 <= window_allowance(p),
           \/ GoesOn(p, start, used, e.read, add, start2, used2)
           \/ Begins(p, start, e.read, add, start2, used2)
    PROVE  WindowOk(alg, p, start2, used2, Append(J, e))
  <1>a. SUFFICES ASSUME NEW now, now = e.read, NEW len, len = e.len, NEW K, K = Append(J, e),
                        NEW A, A = window_allowance(p), NEW W, W = p.window_ns, NEW n, n = Len(J)
                 PROVE  WindowOk(alg, p, start2, used2, K)
    OBVIOUS
  <1>1. /\ now \in Nat /\ len \in Nat /\ n \in Nat /\ A \in Nat /\ W \in Nat \ {0}
        /\ start \in Nat /\ used \in Nat /\ used <= A
    BY <1>a, Allowances DEF Entry, WindowOk
  <1>2. /\ start2 \in Nat \ {0} /\ used2 \in Nat /\ used2 <= A /\ now < start2 + W /\ add <= used2
        /\ start2 <= clock
    <2>1. CASE GoesOn(p, start, used, now, add, start2, used2)
      <3>1. start2 = start /\ start # 0 /\ now < start + W /\ used2 = used + add
        BY <2>1, <1>a DEF GoesOn
      <3>2. start <= JudgedUpTo(J) /\ JudgedUpTo(J) \in Nat
        BY UpToNat DEF WindowOk
      <3>3. used2 <= A
        BY <1>a
      <3> QED
        BY <3>1, <3>2, <3>3, <1>1, SMTT(30)
    <2>2. CASE Begins(p, start, now, add, start2, used2)
      BY <2>2, <1>1, <1>a, SMTT(30) DEF Begins
    <2> QED
      BY <2>1, <2>2, <1>a
  <1>3. /\ Len(K) = n + 1 /\ K[n + 1] = e /\ \A i \in 1..n : K[i] = J[i] /\ K # <<>>
        /\ \A i \in 1..Len(K) : i \in 1..n \/ i = n + 1
    BY <1>1, <1>a, SMTT(30)
  <1>4. JudgedUpTo(K) = clock
    BY <1>3, <1>a DEF JudgedUpTo
  <1>5. ASSUME NEW i \in 1..n, alg \in K[i].pass PROVE WindowHolds(alg, p, start2, used2, K, i)
    <2>1. J[i] = K[i] /\ J[i].read \in Nat /\ WindowHolds(alg, p, start, used, J, i) /\ J # <<>>
      <3>1. J[i] \in Entry /\ J[i] = K[i] /\ J # <<>>
        BY <1>3, <1>a
      <3> QED
        BY <3>1, <1>5, <1>a DEF WindowOk, Entry
    <2>b. SUFFICES ASSUME NEW B, B = BytesOf(J, alg, i), NEW r, r = J[i].read
                   PROVE  WindowHolds(alg, p, start2, used2, K, i)
      OBVIOUS
    <2>2. B \in Nat /\ r \in Nat /\ start # 0
      BY <2>1, <2>b, <1>a, PassedFacts DEF WindowOk
    <2>3. BytesOf(K, alg, i) = B + add
      <3>1. CASE alg \in e.pass
        BY <3>1, <1>a, <2>b, PassedAppend
      <3>2. CASE alg \notin e.pass
        BY <3>2, <2>2, <1>a, <2>b, PassedAppend
      <3> QED
        BY <3>1, <3>2
    <2>4. W * (B + add) = W * B + W * add
      BY <2>2, <1>1, TimesSum
    <2>5. r < start + W /\ W * B <= A * (start + W - r) + W * used
      BY <2>1, <2>b, <1>a DEF WindowHolds
    <2>6. CASE GoesOn(p, start, used, now, add, start2, used2)
      <3>1. W * (used + add) = W * used + W * add
        BY <1>1, TimesSum
      <3>2. start2 = start /\ used2 = used + add
        BY <2>6 DEF GoesOn
      <3>c. SUFFICES ASSUME NEW y1, y1 = W * B, NEW y2, y2 = W * add, NEW y3, y3 = W * used,
                            NEW y4, y4 = A * (start + W - r)
                     PROVE  WindowHolds(alg, p, start2, used2, K, i)
        OBVIOUS
      <3>3. y1 \in Nat /\ y2 \in Nat /\ y3 \in Nat /\ y4 \in Int
        BY <3>c, <2>2, <1>1
      <3>4. y1 + y2 <= y4 + (y3 + y2)
        BY <3>3, <2>5, <3>c, SMTT(30)
      <3>5. W * BytesOf(K, alg, i) = y1 + y2 /\ W * used2 = y3 + y2
        BY <3>1, <3>2, <3>c, <2>3, <2>4
      <3> QED
        BY <3>2, <3>4, <3>5, <3>c, <2>1, <2>5, <2>b, <1>a DEF WindowHolds
    <2>7. CASE Begins(p, start, now, add, start2, used2)
      <3>2. start2 >= start + W /\ used2 = add
        BY <2>7, <2>2, <1>a DEF Begins
      <3>3. A * (start2 + W - r) >= A * (start + W - r) + W * used
        <4>1. start2 - start \in Nat /\ W <= start2 - start
          BY <3>2, <1>1, <1>2
        <4>2. A * ((start + W - r) + (start2 - start)) = A * (start + W - r) + A * (start2 - start)
          BY <1>1, <1>2, <2>2, TimesSum
        <4>3. (start + W - r) + (start2 - start) = start2 + W - r
          BY <1>1, <1>2, <2>2
        <4>4. A * W <= A * (start2 - start)
          BY <4>1, <1>1, TimesMono
        <4>5. W * used <= W * A /\ W * A = A * W
          BY <1>1, TimesMono
        <4>c. SUFFICES ASSUME NEW y1, y1 = A * (start + W - r), NEW y2, y2 = A * (start2 - start),
                              NEW y3, y3 = A * W, NEW y4, y4 = W * used,
                              NEW y5, y5 = A * (start2 + W - r)
                       PROVE  y5 >= y1 + y4
          OBVIOUS
        <4>6. y1 \in Int /\ y2 \in Int /\ y3 \in Nat /\ y4 \in Nat
          BY <4>c, <1>1, <1>2, <2>2
        <4>7. y5 = y1 + y2 /\ y3 <= y2 /\ y4 <= y3
          BY <4>2, <4>3, <4>4, <4>5, <4>c
        <4> QED
          BY <4>6, <4>7
      <3>c. SUFFICES ASSUME NEW y1, y1 = W * B, NEW y2, y2 = W * add, NEW y3, y3 = W * used,
                            NEW y4, y4 = A * (start + W - r), NEW y5, y5 = A * (start2 + W - r)
                     PROVE  WindowHolds(alg, p, start2, used2, K, i)
        OBVIOUS
      <3>4. y1 \in Nat /\ y2 \in Nat /\ y3 \in Nat /\ y4 \in Int /\ y5 \in Int
        BY <3>c, <2>2, <1>1, <1>2
      <3>5. y1 <= y4 + y3 /\ y5 >= y4 + y3
        BY <3>3, <3>c, <2>5
      <3>6. y1 + y2 <= y5 + y2
        BY <3>4, <3>5
      <3>7. W * BytesOf(K, alg, i) = y1 + y2 /\ W * used2 = y2
        BY <3>2, <3>c, <2>3, <2>4
      <3>8. r < start2 + W
        BY <3>2, <2>2, <2>5, <1>1, <1>2
      <3> QED
        BY <3>6, <3>7, <3>8, <3>c, <2>1, <2>b, <1>a DEF WindowHolds
    <2> QED
      BY <2>6, <2>7, <1>a
  <1>6. ASSUME alg \in K[n + 1].pass PROVE WindowHolds(alg, p, start2, used2, K, n + 1)
    <2>1. alg \in e.pass /\ add = len
      BY <1>6, <1>3, <1>a
    <2>2. BytesOf(K, alg, n + 1) = len
      BY <2>1, <1>a, PassedNew
    <2>3. start2 + W - now \in Nat
      BY <1>1, <1>2
    <2>4. A * (start2 + W - now) \in Nat /\ W * len <= W * used2 /\ W * len \in Nat /\ W * used2 \in Nat
      BY <2>1, <2>3, <1>1, <1>2, TimesNat, TimesMono
    <2>c. SUFFICES ASSUME NEW y1 \in Nat, y1 = A * (start2 + W - now), NEW y2 \in Nat, y2 = W * len,
                          NEW y3 \in Nat, y3 = W * used2
                   PROVE  WindowHolds(alg, p, start2, used2, K, n + 1)
      BY <2>4
    <2>5. y2 <= y1 + y3
      BY <2>4, <2>c
    <2> QED
      <3>1. K[n + 1].read = now /\ now < start2 + W
        BY <1>2, <1>3, <1>a
      <3>2. W * BytesOf(K, alg, n + 1) <= A * (start2 + W - K[n + 1].read) + W * used2
        BY <3>1, <2>2, <2>5, <2>c
      <3> QED
        BY <3>1, <3>2, <1>a DEF WindowHolds
  <1> QED
    BY <1>2, <1>3, <1>4, <1>5, <1>6, <1>a DEF WindowOk

\* What passed since a packet in two windows and the time since.
LEMMA WindowsBound ==
    ASSUME HistoryOk, NEW alg, NEW start, NEW used, WindowOk(alg, policy, start, used, judged),
           NEW i \in 1..Len(judged), alg \in judged[i].pass
    PROVE  TwoWindows(alg, i)
  <1>a. SUFFICES ASSUME NEW A, A = window_allowance(policy), NEW W, W = policy.window_ns,
                        NEW B, B = Bytes(alg, i), NEW sp, sp = Span(alg, i),
                        NEW r, r = judged[i].read
                 PROVE  B * W <= A * (sp + (2 + LatePackets(i)) * W)
    BY DEF TwoWindows
  <1>1. judged \in Seq(Entry) /\ check_policy_bounds(policy)
    BY PolicyOk DEF HistoryOk
  <1>2. A \in Nat /\ W \in Nat \ {0} /\ B \in Nat /\ B = BytesOf(judged, alg, i)
    BY <1>1, <1>a, Allowances, PassedFacts, PassedIsOf
  <1>3. /\ start \in Nat /\ used \in Nat /\ used <= A /\ start <= JudgedUpTo(judged)
        /\ r < start + W /\ W * B <= A * (start + W - r) + W * used
    BY <1>2, <1>a DEF WindowOk, WindowHolds
  <1>4. /\ sp \in Int /\ JudgedUpTo(judged) - r <= sp /\ r \in Nat /\ JudgedUpTo(judged) \in Nat
        /\ LatePackets(i) = 0
    BY <1>a, SpanBounds
  <1>5. A * (start + W - r) <= A * (sp + W)
    <2>0. start \in Nat /\ start <= JudgedUpTo(judged) /\ r < start + W
      BY <1>3
    <2>b. SUFFICES ASSUME NEW x \in Int, x = start + W - r, NEW y \in Int, y = sp + W
                   PROVE  A * x <= A * y
      BY <2>0, <1>2, <1>4
    <2>1. x \in Nat /\ y \in Nat /\ x <= y
      BY <2>0, <2>b, <1>2, <1>4
    <2> QED
      BY <2>1, <1>2, TimesMono
  <1>6. W * used <= W * A /\ W * A = A * W
    BY <1>2, <1>3, TimesMono
  <1>7. A * ((sp + W) + W) = A * (sp + W) + A * W
    BY <1>2, <1>4, TimesSum
  <1>8. (sp + W) + W = sp + (2 + LatePackets(i)) * W
    BY <1>2, <1>4
  <1>9. B * W = W * B
    BY <1>2
  <1>c. SUFFICES ASSUME NEW y1, y1 = W * B, NEW y2, y2 = A * (start + W - r), NEW y3, y3 = W * used,
                        NEW y4, y4 = A * (sp + W), NEW y5, y5 = A * W
                 PROVE  y1 <= y4 + y5
    BY <1>7, <1>8, <1>9
  <1>10. y1 \in Nat /\ y2 \in Int /\ y3 \in Nat /\ y4 \in Int /\ y5 \in Nat
    BY <1>c, <1>2, <1>3, <1>4
  <1>11. y1 <= y2 + y3 /\ y2 <= y4 /\ y3 <= y5
    BY <1>3, <1>5, <1>6, <1>c
  <1> QED
    BY <1>10, <1>11

\* What fixed_window decides, and the window it leaves.
LEMMA FixedVerdict ==
    ASSUME NEW p, check_policy_bounds(p), NEW s \in FlowState, s.a <= window_allowance(p),
           NEW now \in Nat \ {0}, NEW len \in Nat,
           NEW v, v = police("fixed_window", p, s, now, len),
           NEW add, v.conform => add = len, ~v.conform => add = 0
    PROVE  /\ v.state \in FlowState /\ v.state.a <= window_allowance(p)
           /\ \/ GoesOn(p, s.b, s.a, now, add, v.state.b, v.state.a)
              \/ Begins(p, s.b, now, add, v.state.b, v.state.a)
           /\ v.conform => len <= window_allowance(p)
           /\ (s.b = 0 \/ now >= s.b + p.window_ns) /\ len <= window_allowance(p) => v.conform
  <1>a. SUFFICES ASSUME NEW A, A = window_allowance(p), NEW W, W = p.window_ns, NEW b, b = s.b
                 PROVE  /\ v.state \in FlowState /\ v.state.a <= A
                        /\ \/ GoesOn(p, b, s.a, now, add, v.state.b, v.state.a)
                           \/ Begins(p, b, now, add, v.state.b, v.state.a)
                        /\ v.conform => len <= A
                        /\ (b = 0 \/ now >= b + W) /\ len <= A => v.conform
    OBVIOUS
  <1>1. A \in Nat /\ W \in Nat \ {0} /\ b \in Nat /\ s.a \in Nat /\ s.a <= A /\ now # 0
    BY <1>a, Allowances DEF FlowState
  <1>b. SUFFICES ASSUME NEW used, used = (IF b = 0 \/ now >= b + W THEN 0 ELSE s.a),
                        NEW start, start = (IF b = 0 \/ now >= b + W THEN now ELSE b),
                        NEW x, x = (IF used + len <= A THEN used + len ELSE used)
                 PROVE  /\ v.state \in FlowState /\ v.state.a <= A
                        /\ \/ GoesOn(p, b, s.a, now, add, v.state.b, v.state.a)
                           \/ Begins(p, b, now, add, v.state.b, v.state.a)
                        /\ v.conform => len <= A
                        /\ (b = 0 \/ now >= b + W) /\ len <= A => v.conform
    OBVIOUS
  <1>2. v = Verdict(used + len <= A, [s EXCEPT !.a = x, !.b = start])
    <2>1. v = fixed_window(p, s, now, len)
      BY DEF police
    <2>2. fixed_window(p, s, now, len) =
            LET fresh == b = 0 \/ now >= b + W
                u == IF fresh THEN 0 ELSE s.a
                conform == u + len <= A
            IN  Verdict(conform, [s EXCEPT !.a = IF conform THEN u + len ELSE u,
                                           !.b = IF fresh THEN now ELSE @])
      BY <1>a DEF fixed_window
    <2>3. [s EXCEPT !.a = x, !.b = IF b = 0 \/ now >= b + W THEN now ELSE @] = [s EXCEPT !.a = x, !.b = start]
      BY <1>a, <1>b DEF FlowState
    <2>4. fixed_window(p, s, now, len) =
            Verdict(used + len <= A, [s EXCEPT !.a = x, !.b = IF b = 0 \/ now >= b + W THEN now ELSE @])
      BY <2>2, <1>b, Zenon
    <2> QED
      BY <2>1, <2>3, <2>4, Zenon
  <1>3. used \in Nat /\ used <= A /\ start \in Nat /\ x \in Nat /\ x <= A
    BY <1>1, <1>b
  <1>4. (v.conform <=> used + len <= A) /\ v.state = [s EXCEPT !.a = x, !.b = start]
    <2>b. SUFFICES ASSUME NEW c \in BOOLEAN, c <=> used + len <= A
                   PROVE  (v.conform <=> used + len <= A) /\ v.state = [s EXCEPT !.a = x, !.b = start]
      OBVIOUS
    <2>0. (used + len <= A) = c
      BY <2>b, <1>1, <1>3
    <2>1. v = [conform |-> c, state |-> [s EXCEPT !.a = x, !.b = start]]
      BY <1>2, <2>0, Zenon DEF Verdict
    <2>2. v.conform <=> used + len <= A
      BY <2>1, <2>b
    <2>3. v.state = [s EXCEPT !.a = x, !.b = start]
      BY <2>1
    <2> QED
      BY <2>2, <2>3
  <1>5. v.state \in FlowState /\ v.state.a = x /\ v.state.b = start
    BY <1>3, <1>4 DEF FlowState
  <1>6. x = used + add
    BY <1>1, <1>3, <1>4, <1>b
  <1>7. CASE b = 0 \/ now >= b + W
    <2>1. start = now /\ used = 0
      BY <1>7, <1>b
    <2>2. add \in Nat /\ x = add
      BY <2>1, <1>3, <1>6, <1>b
    <2>3. Begins(p, b, now, add, start, x)
      BY <2>1, <2>2, <1>1, <1>7, <1>a DEF Begins
    <2> QED
      BY <2>1, <2>3, <1>3, <1>4, <1>5
  <1>8. CASE ~(b = 0 \/ now >= b + W)
    <2>1. start = b /\ used = s.a
      BY <1>8, <1>b
    <2>2. GoesOn(p, b, s.a, now, add, start, x)
      BY <2>1, <1>1, <1>6, <1>8, <1>a DEF GoesOn
    <2> QED
      BY <2>1, <2>2, <1>1, <1>3, <1>4, <1>5, <1>8
  <1> QED
    BY <1>7, <1>8

FixedOk(p, s, J) == s \in FlowState /\ WindowOk("fixed_window", p, s.b, s.a, J)

\* A judged packet keeps the fixed window's invariant.
LEMMA FixedStep ==
    ASSUME NEW p, check_policy_bounds(p), NEW s, NEW J \in Seq(Entry),
           FixedOk(p, s, J), JudgedUpTo(J) <= clock, clock \in Nat,
           NEW e \in Entry, e.at = clock, e.read <= clock, e.read # 0,
           "fixed_window" \in e.pass <=> police("fixed_window", p, s, e.read, e.len).conform
    PROVE  FixedOk(p, police("fixed_window", p, s, e.read, e.len).state, Append(J, e))
  <1>a. SUFFICES ASSUME NEW now, now = e.read, NEW len, len = e.len,
                        NEW v, v = police("fixed_window", p, s, now, len),
                        NEW add, add = IF "fixed_window" \in e.pass THEN len ELSE 0
                 PROVE  FixedOk(p, v.state, Append(J, e))
    OBVIOUS
  <1>1. s \in FlowState /\ s.a <= window_allowance(p) /\ now \in Nat \ {0} /\ len \in Nat
    <2>1. now \in Nat \ {0} /\ len \in Nat
      BY <1>a DEF Entry
    <2> QED
      BY <2>1 DEF FixedOk, WindowOk
  <1>2. (v.conform => add = len) /\ (~v.conform => add = 0)
    BY <1>a
  <1>3. /\ v.state \in FlowState /\ v.state.a <= window_allowance(p)
        /\ \/ GoesOn(p, s.b, s.a, now, add, v.state.b, v.state.a)
           \/ Begins(p, s.b, now, add, v.state.b, v.state.a)
    <2>1. v = police("fixed_window", p, s, now, len)
      BY <1>a
    <2> QED
      BY <1>1, <1>2, <2>1, FixedVerdict, ZenonT(40)
  <1>4. add \in Nat /\ add = IF "fixed_window" \in e.pass THEN e.len ELSE 0
    BY <1>1, <1>a
  <1>5. WindowOk("fixed_window", p, s.b, s.a, J)
    BY DEF FixedOk
  <1>6. WindowOk("fixed_window", p, v.state.b, v.state.a, Append(J, e))
    <2>1. v.state.a <= window_allowance(p)
      BY <1>3
    <2>2. \/ GoesOn(p, s.b, s.a, e.read, add, v.state.b, v.state.a)
          \/ Begins(p, s.b, e.read, add, v.state.b, v.state.a)
      BY <1>3, <1>a
    <2> QED
      BY <2>1, <2>2, <1>4, <1>5, WindowStep
  <1> QED
    BY <1>3, <1>6 DEF FixedOk

-----------------------------------------------------------------------------
(* The sliding counter.  What passed since a packet is in the current window, in *)
(* it and the previous one, or began more than a window ago.                     *)

InTwoWindows(p, s, J, i) ==
    LET B == BytesOf(J, "sliding_window_counter", i)
    IN  \/ B <= s.b
        \/ B <= s.a + s.b /\ J[i].read < s.c
        \/ J[i].read + p.window_ns < s.c

\* The last packet that passed in the current window found room beside what counted of
\* the previous window then.
Carried(p, s, J) ==
    s.b > 0 => \E t \in Nat : /\ t <= p.window_ns /\ t <= Excess(JudgedUpTo(J), s.c)
                              /\ swc_carried_bytes(s.a, p.window_ns, t) + s.b <= window_allowance(p)

CounterOk(p, s, J) ==
    /\ s \in FlowState /\ s.a <= window_allowance(p) /\ (s.c = 0 => s.a = 0 /\ s.b = 0)
    /\ WindowOk("sliding_window_counter", p, s.c, s.b, J)
    /\ Carried(p, s, J)
    /\ \A i \in 1..Len(J) : "sliding_window_counter" \in J[i].pass => InTwoWindows(p, s, J, i)

\* The three things that a packet can do to the windows.
Stays(p, s, now, r) == s.c # 0 /\ now < s.c + p.window_ns /\ r = s
Slides(p, s, now, r) ==
    /\ s.c # 0 /\ now >= s.c + p.window_ns /\ now < (s.c + p.window_ns) + p.window_ns
    /\ r = [a |-> s.b, b |-> 0, c |-> s.c + p.window_ns]
Restarts(p, s, now, r) ==
    /\ s.c = 0 \/ now >= (s.c + p.window_ns) + p.window_ns
    /\ r = [a |-> 0, b |-> 0, c |-> now]

\* The counter's windows stay, slide or restart.
LEMMA RolledIs ==
    ASSUME NEW p, check_policy_bounds(p), NEW s \in FlowState, s.c = 0 => s.a = 0 /\ s.b = 0,
           NEW now \in Nat, NEW r, r = Rolled(p, s, now)
    PROVE  r \in FlowState /\ (Stays(p, s, now, r) \/ Slides(p, s, now, r) \/ Restarts(p, s, now, r))
  <1>1. p.window_ns \in Nat \ {0} /\ s.a \in Nat /\ s.b \in Nat /\ s.c \in Nat
    BY Allowances DEF FlowState
  <1>2. s.c + 2 * p.window_ns = (s.c + p.window_ns) + p.window_ns
    BY <1>1
  <1>3. CASE s.c = 0
    <2>1. r = [s EXCEPT !.c = now]
      BY <1>3 DEF Rolled
    <2>2. r = [a |-> 0, b |-> 0, c |-> now]
      BY <2>1, <1>3 DEF FlowState
    <2> QED
      BY <2>2, <1>3 DEF Restarts, FlowState
  <1>4. CASE s.c # 0 /\ now >= (s.c + p.window_ns) + p.window_ns
    <2>1. r = [a |-> 0, b |-> 0, c |-> now]
      BY <1>2, <1>4 DEF Rolled
    <2> QED
      BY <2>1, <1>4 DEF Restarts, FlowState
  <1>5. CASE s.c # 0 /\ now < (s.c + p.window_ns) + p.window_ns /\ now >= s.c + p.window_ns
    <2>1. r = [a |-> s.b, b |-> 0, c |-> s.c + p.window_ns]
      <3>1. ~(now >= s.c + 2 * p.window_ns)
        BY <1>1, <1>2, <1>5
      <3> QED
        BY <3>1, <1>5 DEF Rolled
    <2> QED
      BY <2>1, <1>1, <1>5 DEF Slides, FlowState
  <1>6. CASE s.c # 0 /\ now < s.c + p.window_ns
    <2>1. ~(now >= s.c + 2 * p.window_ns) /\ ~(now >= s.c + p.window_ns)
      BY <1>1, <1>2, <1>6
    <2>2. r = s
      BY <2>1, <1>6 DEF Rolled
    <2> QED
      BY <2>2, <1>6 DEF Stays
  <1> QED
    BY <1>1, <1>3, <1>4, <1>5, <1>6

\* What counts of the previous window is its share in the time left, but for the
\* millisecond and the byte that the divisions round away.
LEMMA CarriedBounds ==
    ASSUME NEW prev \in Nat, NEW W \in Nat \ {0}, NEW t \in Nat, t <= W,
           NEW q, q = swc_carried_bytes(prev, W, t)
    PROVE  /\ q \in Nat /\ (prev = 0 => q = 0)
           /\ prev * (W - t) <= W * q + prev * (NsPerMs - 1) + (W - 1)
  <1>a. SUFFICES ASSUME NEW ms, ms = NsPerMs, NEW m, m = W \div ms, NEW rem, rem = (W - t) \div ms
                 PROVE  /\ q \in Nat /\ (prev = 0 => q = 0)
                        /\ prev * (W - t) <= W * q + prev * (ms - 1) + (W - 1)
    OBVIOUS
  <1>1. ms \in Nat \ {0} /\ W - t \in Nat
    BY <1>a, PolicerAssumption
  <1>2. m \in Nat /\ ms * m <= W /\ W < ms * m + ms
    BY <1>1, <1>a, DivBounds
  <1>3. rem \in Nat /\ ms * rem <= W - t /\ W - t < ms * rem + ms
    BY <1>1, <1>a, DivBounds
  <1>4. Smaller(t, W) = t
    BY DEF Smaller
  <1>5. q = IF m = 0 THEN 0 ELSE (prev * rem) \div m
    BY <1>4, <1>a DEF swc_carried_bytes
  <1>6. prev * (ms - 1) \in Nat /\ prev * (W - t) \in Nat /\ prev * rem \in Nat
    BY <1>1, <1>3, TimesNat
  <1>7. CASE m = 0
    <2>1. q = 0
      BY <1>5, <1>7
    <2>2. W - t <= ms - 1 /\ ms - 1 \in Nat
      BY <1>1, <1>2, <1>7
    <2>3. prev * (W - t) <= prev * (ms - 1)
      BY <2>2, <1>1, TimesMono
    <2>b. SUFFICES ASSUME NEW y1 \in Nat, y1 = prev * (W - t), NEW y2 \in Nat, y2 = prev * (ms - 1)
                   PROVE  y1 <= W * q + y2 + (W - 1)
      BY <2>1, <1>6
    <2> QED
      BY <2>1, <2>3, <2>b
  <1>8. CASE m # 0
    <2>1. q = (prev * rem) \div m /\ m \in Nat \ {0}
      BY <1>2, <1>5, <1>8
    <2>2. q \in Nat /\ m * q <= prev * rem /\ prev * rem < m * q + m
      BY <2>1, <1>6, DivBounds
    <2>3. prev = 0 => q = 0
      <3>1. SUFFICES ASSUME prev = 0 PROVE q = 0
        OBVIOUS
      <3>2. prev * rem = 0 /\ m * q <= 0
        BY <3>1, <2>2, <1>3
      <3> QED
        BY <3>2, <2>1, <2>2
    <2>4. prev * (W - t) <= prev * (ms * rem) + prev * (ms - 1)
      <3>0. ms * rem \in Nat
        BY <1>1, <1>3, TimesNat
      <3>b. SUFFICES ASSUME NEW x \in Nat, x = ms * rem, NEW d \in Nat, d = W - t
                     PROVE  prev * d <= prev * x + prev * (ms - 1)
        BY <3>0, <1>1
      <3>1. d <= x + (ms - 1) /\ x + (ms - 1) \in Nat
        BY <3>b, <1>1, <1>3
      <3>2. prev * d <= prev * (x + (ms - 1))
        BY <3>1, TimesMono
      <3>3. prev * (x + (ms - 1)) = prev * x + prev * (ms - 1)
        BY <1>1, TimesSum
      <3> QED
        BY <3>2, <3>3
    <2>5. prev * (ms * rem) = ms * (prev * rem)
      BY <1>1, <1>3
    <2>6. ms * (prev * rem) <= W * q + (W - 1)
      <3>0. m * q \in Nat
        BY <2>1, <2>2, TimesNat
      <3>b. SUFFICES ASSUME NEW x \in Nat, x = prev * rem, NEW z \in Nat, z = m * q
                     PROVE  ms * x <= W * q + (W - 1)
        BY <3>0, <1>6
      <3>1. x <= z + (m - 1) /\ m - 1 \in Nat /\ z + (m - 1) \in Nat
        BY <3>b, <2>1, <2>2
      <3>2. ms * x <= ms * (z + (m - 1))
        BY <3>1, <1>1, TimesMono
      <3>3. ms * (z + (m - 1)) = ms * z + ms * (m - 1)
        BY <3>1, <1>1, TimesSum
      <3>4. ms * (m - 1) = ms * m - ms
        BY <1>1, <2>1
      <3>5. ms * z <= W * q
        <4>1. ms * z = q * (ms * m)
          BY <3>b, <1>1, <2>1, <2>2
        <4>2. ms * m \in Nat
          BY <1>1, <1>2, TimesNat
        <4>3. q * (ms * m) <= q * W
          BY <4>2, <1>2, <2>2, TimesMono
        <4> QED
          BY <4>1, <4>3, <2>2
      <3>6. ms * z \in Nat /\ W * q \in Nat /\ ms * m \in Nat /\ ms * x \in Nat
        BY <1>1, <1>2, <2>2, TimesNat
      <3>c. SUFFICES ASSUME NEW y1 \in Nat, y1 = ms * z, NEW y2 \in Nat, y2 = W * q,
                            NEW y3 \in Nat, y3 = ms * m, NEW y4 \in Nat, y4 = ms * x
                     PROVE  y4 <= y2 + (W - 1)
        BY <3>6
      <3>7. y4 <= y1 + (y3 - ms) /\ y1 <= y2 /\ y3 <= W
        BY <3>2, <3>3, <3>4, <3>5, <3>c, <1>2
      <3> QED
        BY <3>7, <1>1
    <2>b. SUFFICES ASSUME NEW y1 \in Nat, y1 = prev * (W - t), NEW y2 \in Nat, y2 = prev * (ms - 1),
                          NEW y3, y3 = ms * (prev * rem), NEW y4, y4 = W * q
                   PROVE  y1 <= y4 + y2 + (W - 1)
      BY <2>2, <2>3, <1>6
    <2>7. y3 \in Nat /\ y4 \in Nat
      BY <2>b, <2>2, <1>1, <1>6, TimesNat
    <2>8. y1 <= y3 + y2 /\ y3 <= y4 + (W - 1)
      BY <2>4, <2>5, <2>6, <2>b
    <2> QED
      BY <2>7, <2>8
  <1> QED
    BY <1>7, <1>8

CounterJudged(p, now, len, v, r, t, q) ==
    /\ r \in FlowState /\ v.state \in FlowState
    /\ t \in Nat /\ t <= p.window_ns /\ t <= Excess(now, r.c) /\ q \in Nat
    /\ v.conform <=> q + r.b + len <= window_allowance(p)
    /\ v.state.a = r.a /\ v.state.c = r.c
    /\ v.conform => v.state.b = r.b + len
    /\ ~v.conform => v.state.b = r.b

\* What sliding_window_counter decides, and the windows it leaves.
LEMMA CounterVerdict ==
    ASSUME NEW p, check_policy_bounds(p), NEW s \in FlowState, s.c = 0 => s.a = 0 /\ s.b = 0,
           NEW now \in Nat, NEW len \in Nat,
           NEW v, v = police("sliding_window_counter", p, s, now, len),
           NEW r, r = Rolled(p, s, now),
           NEW t, t = Smaller(Excess(now, r.c), p.window_ns),
           NEW q, q = swc_carried_bytes(r.a, p.window_ns, t)
    PROVE  CounterJudged(p, now, len, v, r, t, q)
  <1>1. r \in FlowState
    BY RolledIs
  <1>2. r.a \in Nat /\ r.b \in Nat /\ r.c \in Nat /\ p.window_ns \in Nat \ {0} /\ window_allowance(p) \in Nat
    BY <1>1, Allowances DEF FlowState
  <1>3. t \in Nat /\ t <= p.window_ns /\ t <= Excess(now, r.c)
    BY <1>2 DEF Smaller, Excess
  <1>4. q \in Nat
    BY <1>2, <1>3, CarriedBounds
  <1>5. v = sliding_window_counter(p, s, now, len)
    BY DEF police
  <1>b. SUFFICES ASSUME NEW c \in BOOLEAN, c <=> q + r.b + len <= window_allowance(p)
                 PROVE  /\ v.state \in FlowState
                        /\ v.conform <=> c
                        /\ v.state.a = r.a /\ v.state.c = r.c
                        /\ v.conform => v.state.b = r.b + len
                        /\ ~v.conform => v.state.b = r.b
    BY <1>1, <1>3, <1>4 DEF CounterJudged
  <1>6. (q + r.b + len <= window_allowance(p)) = c
    BY <1>b, <1>2, <1>4
  <1>7. v = Verdict(c, IF c THEN [r EXCEPT !.b = @ + len] ELSE r)
    BY <1>5, <1>6, Zenon DEF sliding_window_counter
  <1>8. v = [conform |-> c, state |-> IF c THEN [r EXCEPT !.b = @ + len] ELSE r]
    BY <1>7, Zenon DEF Verdict
  <1>9. CASE c
    <2>1. v = [conform |-> TRUE, state |-> [r EXCEPT !.b = r.b + len]]
      BY <1>8, <1>9
    <2>2. v.state = [r EXCEPT !.b = r.b + len] /\ v.conform
      BY <2>1
    <2> QED
      BY <2>2, <1>1, <1>2, <1>9 DEF FlowState
  <1>10. CASE ~c
    <2>1. v = [conform |-> FALSE, state |-> r]
      BY <1>8, <1>10
    <2> QED
      BY <2>1, <1>1, <1>10
  <1> QED
    BY <1>9, <1>10

\* A judged packet keeps the sliding counter's invariant.
LEMMA CounterStep ==
    ASSUME NEW p, check_policy_bounds(p), NEW s, NEW J \in Seq(Entry),
           CounterOk(p, s, J), JudgedUpTo(J) <= clock, clock \in Nat,
           NEW e \in Entry, e.at = clock, e.read <= clock, e.read # 0,
           "sliding_window_counter" \in e.pass <=>
             police("sliding_window_counter", p, s, e.read, e.len).conform
    PROVE  CounterOk(p, police("sliding_window_counter", p, s, e.read, e.len).state, Append(J, e))
  <1>a. SUFFICES ASSUME NEW now, now = e.read, NEW len, len = e.len, NEW K, K = Append(J, e),
                        NEW v, v = police("sliding_window_counter", p, s, now, len),
                        NEW r, r = Rolled(p, s, now), NEW A, A = window_allowance(p),
                        NEW W, W = p.window_ns, NEW n, n = Len(J), NEW st, st = v.state,
                        NEW t, t = Smaller(Excess(now, r.c), W),
                        NEW q, q = swc_carried_bytes(r.a, W, t),
                        NEW alg, alg = "sliding_window_counter",
                        NEW add, add = IF alg \in e.pass THEN len ELSE 0
                 PROVE  CounterOk(p, st, K)
    OBVIOUS
  <1>1. now \in Nat \ {0} /\ len \in Nat /\ n \in Nat /\ A \in Nat /\ W \in Nat \ {0} /\ JudgedUpTo(J) \in Nat
    <2>1. now \in Nat \ {0} /\ len \in Nat
      BY <1>a DEF Entry
    <2> QED
      BY <2>1, <1>a, Allowances, UpToNat
  <1>2. /\ s \in FlowState /\ s.a <= A /\ (s.c = 0 => s.a = 0 /\ s.b = 0)
        /\ WindowOk(alg, p, s.c, s.b, J) /\ s.b <= A
        /\ s.a \in Nat /\ s.b \in Nat /\ s.c \in Nat
    BY <1>a DEF CounterOk, WindowOk, FlowState
  <1>3. r \in FlowState /\ (Stays(p, s, now, r) \/ Slides(p, s, now, r) \/ Restarts(p, s, now, r))
    BY <1>1, <1>2, <1>a, RolledIs
  <1>4. /\ st \in FlowState
        /\ t \in Nat /\ t <= W /\ t <= Excess(now, r.c) /\ q \in Nat
        /\ v.conform <=> q + r.b + len <= A
        /\ st.a = r.a /\ st.c = r.c
        /\ v.conform => st.b = r.b + len
        /\ ~v.conform => st.b = r.b
    <2>0. check_policy_bounds(p) /\ s \in FlowState /\ (s.c = 0 => s.a = 0 /\ s.b = 0)
          /\ now \in Nat /\ len \in Nat /\ r = Rolled(p, s, now)
          /\ v = police("sliding_window_counter", p, s, now, len)
          /\ t = Smaller(Excess(now, r.c), p.window_ns) /\ q = swc_carried_bytes(r.a, p.window_ns, t)
      BY <1>1, <1>2, <1>a
    <2>1. CounterJudged(p, now, len, v, r, t, q)
      BY <2>0, CounterVerdict
    <2> QED
      BY <2>1, <1>a DEF CounterJudged
  <1>5. v.conform <=> alg \in e.pass
    BY <1>a
  <1>6. r.a \in Nat /\ r.b \in Nat /\ r.c \in Nat /\ r.c # 0 /\ r.a <= A /\ r.b <= A
        /\ st.a \in Nat /\ st.b \in Nat
    <2>0. r.a \in Nat /\ r.b \in Nat /\ r.c \in Nat /\ st.a \in Nat /\ st.b \in Nat
      BY <1>3, <1>4 DEF FlowState
    <2>1. CASE Stays(p, s, now, r)
      BY <2>0, <2>1, <1>2 DEF Stays
    <2>2. CASE Slides(p, s, now, r)
      BY <2>0, <2>2, <1>1, <1>2, <1>a DEF Slides
    <2>3. CASE Restarts(p, s, now, r)
      BY <2>0, <2>3, <1>1, <1>2, <1>a DEF Restarts
    <2> QED
      BY <2>1, <2>2, <2>3, <1>3
  <1>7. add \in Nat /\ st.b = r.b + add /\ st.b <= A
    <2>1. CASE v.conform
      <3>1. add = len
        BY <2>1, <1>5, <1>a
      <3>2. st.b = r.b + len /\ q + r.b + len <= A /\ q \in Nat
        BY <2>1, <1>4
      <3> QED
        BY <3>1, <3>2, <1>1, <1>6
    <2>2. CASE ~v.conform
      <3>1. add = 0
        BY <2>2, <1>5, <1>a
      <3> QED
        BY <2>2, <3>1, <1>4, <1>6
    <2> QED
      BY <2>1, <2>2
  <1>8. /\ Len(K) = n + 1 /\ K[n + 1] = e /\ \A i \in 1..n : K[i] = J[i] /\ K # <<>>
        /\ \A i \in 1..Len(K) : i \in 1..n \/ i = n + 1
    <2>1. K = Append(J, e) /\ n = Len(J)
      BY <1>a
    <2>2. n \in Nat /\ Len(K) = n + 1 /\ K[n + 1] = e /\ (\A i \in 1..n : K[i] = J[i]) /\ K # <<>>
      BY <2>1
    <2> QED
      BY <2>2
  <1>9. JudgedUpTo(K) = clock
    BY <1>8, <1>a DEF JudgedUpTo
  <1>10. WindowOk(alg, p, st.c, st.b, K)
    <2>1. \/ GoesOn(p, s.c, s.b, now, add, st.c, st.b)
          \/ Begins(p, s.c, now, add, st.c, st.b)
      <3>1. CASE Stays(p, s, now, r)
        BY <3>1, <1>4, <1>7 DEF Stays, GoesOn
      <3>2. CASE Slides(p, s, now, r)
        <4>1. r.b = 0 /\ r.c = s.c + W /\ now >= s.c + W /\ now < (s.c + W) + W
          BY <3>2, <1>a DEF Slides
        <4>2. st.c = s.c + W /\ st.b = add
          BY <4>1, <1>4, <1>7
        <4>3. st.c \in Nat \ {0} /\ st.c <= now /\ now < st.c + W
          BY <4>1, <4>2, <1>1, <1>2
        <4> QED
          BY <4>2, <4>3, <1>1, <1>2, <1>a DEF Begins
      <3>3. CASE Restarts(p, s, now, r)
        <4>1. r.b = 0 /\ r.c = now /\ (s.c = 0 \/ now >= (s.c + W) + W)
          BY <3>3, <1>a DEF Restarts
        <4>2. s.c = 0 \/ now >= s.c + W
          BY <4>1, <1>1, <1>2
        <4>3. st.c = now /\ st.b = add
          BY <4>1, <1>4, <1>7
        <4>4. now < now + W /\ W = p.window_ns
          BY <1>1, <1>a
        <4> QED
          BY <4>2, <4>3, <4>4, <1>1 DEF Begins
      <3> QED
        BY <3>1, <3>2, <3>3, <1>3
    <2>2. st.b <= window_allowance(p) /\ add = (IF alg \in e.pass THEN e.len ELSE 0)
      BY <1>7, <1>a
    <2>3. \/ GoesOn(p, s.c, s.b, e.read, add, st.c, st.b)
          \/ Begins(p, s.c, e.read, add, st.c, st.b)
      BY <2>1, <1>a
    <2>4. WindowOk(alg, p, st.c, st.b, Append(J, e))
      BY <2>2, <2>3, <1>2, <1>7, WindowStep
    <2> QED
      BY <2>4, <1>a
  <1>11. Carried(p, st, K)
    <2>1. SUFFICES ASSUME st.b > 0
                   PROVE  \E x \in Nat : /\ x <= W /\ x <= Excess(clock, st.c)
                                         /\ swc_carried_bytes(st.a, W, x) + st.b <= A
      BY <1>9, <1>a DEF Carried
    <2>2. CASE v.conform
      <3>1. t <= Excess(clock, st.c)
        <4>1. Excess(now, r.c) <= Excess(clock, r.c)
          BY <1>1, <1>6, <1>a DEF Excess
        <4>2. Excess(now, r.c) \in Nat /\ Excess(clock, r.c) \in Nat
          BY <1>1, <1>6 DEF Excess
        <4> QED
          BY <4>1, <4>2, <1>4
      <3>2. q + st.b <= A
        BY <2>2, <1>1, <1>4, <1>6
      <3>3. q = swc_carried_bytes(st.a, W, t)
        BY <1>4, <1>a
      <3> QED
        BY <3>1, <3>2, <3>3, <1>4
    <2>3. CASE ~v.conform
      <3>1. st.b = r.b /\ r.b > 0
        BY <2>1, <2>3, <1>4
      <3>2. Stays(p, s, now, r)
        BY <3>1, <1>3 DEF Slides, Restarts
      <3>3. r = s
        BY <3>2 DEF Stays
      <3>4. PICK x \in Nat : /\ x <= W /\ x <= Excess(JudgedUpTo(J), s.c)
                             /\ swc_carried_bytes(s.a, W, x) + s.b <= A
        BY <3>1, <3>3, <1>a DEF CounterOk, Carried
      <3>5. x <= Excess(clock, s.c)
        <4>1. Excess(JudgedUpTo(J), s.c) <= Excess(clock, s.c)
              /\ Excess(JudgedUpTo(J), s.c) \in Nat /\ Excess(clock, s.c) \in Nat
          BY <1>1, <1>2 DEF Excess
        <4> QED
          BY <4>1, <3>4
      <3> QED
        BY <3>1, <3>3, <3>4, <3>5, <1>4
    <2> QED
      BY <2>2, <2>3
  <1>12. ASSUME NEW i \in 1..n, alg \in K[i].pass PROVE InTwoWindows(p, st, K, i)
    <2>1. J[i] = K[i] /\ J[i].read \in Nat /\ InTwoWindows(p, s, J, i) /\ s.c # 0
          /\ J[i].read < s.c + W
      <3>1. J[i] \in Entry /\ J[i] = K[i] /\ J # <<>>
        BY <1>8, <1>a
      <3>2. WindowHolds(alg, p, s.c, s.b, J, i) /\ s.c # 0
        BY <3>1, <1>12, <1>2, <1>a DEF WindowOk
      <3>3. InTwoWindows(p, s, J, i)
        BY <3>1, <1>12, <1>a DEF CounterOk
      <3> QED
        BY <3>1, <3>2, <3>3, <1>a DEF WindowHolds, Entry
    <2>b. SUFFICES ASSUME NEW B, B = BytesOf(J, alg, i), NEW rd, rd = J[i].read
                   PROVE  InTwoWindows(p, st, K, i)
      OBVIOUS
    <2>2. B \in Nat /\ rd \in Nat
      BY <2>1, <2>b, <1>a, PassedFacts
    <2>3. BytesOf(K, alg, i) = B + add
      <3>1. CASE alg \in e.pass
        BY <3>1, <1>a, <2>b, PassedAppend
      <3>2. CASE alg \notin e.pass
        BY <3>2, <2>2, <1>a, <2>b, PassedAppend
      <3> QED
        BY <3>1, <3>2
    <2>4. B <= s.b \/ (B <= s.a + s.b /\ rd < s.c) \/ rd + W < s.c
      BY <2>1, <2>b, <1>a DEF InTwoWindows
    <2>5. B + add <= st.b \/ (B + add <= st.a + st.b /\ rd < st.c) \/ rd + W < st.c
      <3>1. CASE Stays(p, s, now, r)
        <4>1. st.a = s.a /\ st.b = s.b + add /\ st.c = s.c
          BY <3>1, <1>4, <1>7 DEF Stays
        <4> QED
          BY <4>1, <2>2, <2>4, <1>2, <1>7
      <3>2. CASE Slides(p, s, now, r)
        <4>1. st.a = s.b /\ st.b = add /\ st.c = s.c + W
          BY <3>2, <1>4, <1>7, <1>a DEF Slides
        <4>2. rd < s.c + W
          BY <2>1, <2>b
        <4>3. CASE B <= s.b
          BY <4>1, <4>2, <4>3, <2>2, <1>1, <1>2, <1>7
        <4>4. CASE rd < s.c
          BY <4>1, <4>4, <2>2, <1>1, <1>2
        <4>5. CASE rd + W < s.c
          BY <4>1, <4>5, <2>2, <1>1, <1>2
        <4> QED
          BY <4>3, <4>4, <4>5, <2>4
      <3>3. CASE Restarts(p, s, now, r)
        <4>1. st.c = now /\ now >= (s.c + W) + W
          BY <3>3, <2>1, <1>4, <1>a DEF Restarts
        <4>2. rd < s.c + W /\ rd \in Nat
          BY <2>1, <2>2, <2>b
        <4>3. rd + W < st.c
          BY <4>1, <4>2, <1>1, <1>2
        <4> QED
          BY <4>3
      <3> QED
        BY <3>1, <3>2, <3>3, <1>3
    <2>6. K[i].read = rd
      BY <2>1, <2>b
    <2> QED
      BY <2>3, <2>5, <2>6, <1>a DEF InTwoWindows
  <1>13. ASSUME alg \in K[n + 1].pass PROVE InTwoWindows(p, st, K, n + 1)
    <2>1. alg \in e.pass /\ add = len
      BY <1>13, <1>8, <1>a
    <2>2. BytesOf(K, alg, n + 1) = len
      BY <2>1, <1>a, PassedNew
    <2>3. len <= st.b
      BY <2>1, <1>1, <1>6, <1>7
    <2> QED
      BY <2>2, <2>3, <1>a DEF InTwoWindows
  <1>14. st \in FlowState /\ st.a <= window_allowance(p) /\ (st.c = 0 => st.a = 0 /\ st.b = 0)
    BY <1>4, <1>6, <1>a
  <1> QED
    BY <1>8, <1>10, <1>11, <1>12, <1>13, <1>14, <1>a DEF CounterOk

\* The sliding counter's invariant bounds what passed within a window.
LEMMA CounterBound ==
    ASSUME HistoryOk, CounterOk(policy, state["sliding_window_counter"], judged),
           NEW i \in 1..Len(judged), "sliding_window_counter" \in judged[i].pass,
           judged[i].read <= JudgedUpTo(judged)
    PROVE  NoBoundaryBurst("sliding_window_counter", i)
  <1>a. SUFFICES ASSUME NEW A, A = window_allowance(policy), NEW W, W = policy.window_ns,
                        NEW B, B = Bytes("sliding_window_counter", i),
                        NEW sp, sp = Span("sliding_window_counter", i), sp <= W,
                        NEW r, r = judged[i].read, NEW s, s = state["sliding_window_counter"],
                        NEW ms, ms = NsPerMs, NEW T, T = JudgedUpTo(judged),
                        NEW a, a = s.a, NEW b, b = s.b, NEW c, c = s.c
                 PROVE  B * W <= A * ((1 + LatePackets(i)) * W + sp + ms - 1) + W - 1
    BY DEF NoBoundaryBurst
  <1>1. judged \in Seq(Entry) /\ check_policy_bounds(policy)
    BY PolicyOk DEF HistoryOk
  <1>2. /\ A \in Nat /\ W \in Nat \ {0} /\ B \in Nat /\ B = BytesOf(judged, "sliding_window_counter", i)
        /\ ms \in Nat \ {0}
    BY <1>1, <1>a, Allowances, PassedFacts, PassedIsOf, PolicerAssumption
  <1>3. /\ sp \in Int /\ T - r <= sp /\ r \in Nat /\ T \in Nat /\ LatePackets(i) = 0 /\ r <= T
        /\ sp <= W
    BY <1>a, SpanBounds
  <1>4. /\ a \in Nat /\ b \in Nat /\ c \in Nat /\ a <= A /\ b <= A /\ c <= T
    BY <1>a DEF CounterOk, WindowOk, FlowState
  <1>5. B <= b \/ (B <= a + b /\ r < c) \/ r + W < c
    BY <1>2, <1>a DEF CounterOk, InTwoWindows
  <1>6. W * B \in Nat /\ A * W \in Nat /\ sp \in Nat /\ A * (sp + ms - 1) \in Nat
        /\ B * W = W * B /\ W * A = A * W
    <2>1. sp \in Nat /\ sp + ms - 1 \in Nat
      BY <1>2, <1>3
    <2> QED
      BY <2>1, <1>2, TimesNat
  <1>7. A * ((1 + LatePackets(i)) * W + sp + ms - 1) = A * W + A * (sp + ms - 1)
    <2>1. A * (W + (sp + ms - 1)) = A * W + A * (sp + ms - 1)
      BY <1>2, <1>3, TimesSum
    <2>2. (1 + LatePackets(i)) * W + sp + ms - 1 = W + (sp + ms - 1)
      BY <1>2, <1>3
    <2> QED
      BY <2>1, <2>2
  <1>b. SUFFICES ASSUME NEW y1 \in Nat, y1 = W * B, NEW y2 \in Nat, y2 = A * W,
                        NEW y3 \in Nat, y3 = A * (sp + ms - 1)
                 PROVE  y1 <= y2 + y3 + (W - 1)
    BY <1>2, <1>6, <1>7
  <1>8. CASE B <= A
    <2>1. y1 <= y2
      BY <1>2, <1>6, <1>8, <1>b, TimesMono
    <2> QED
      BY <2>1, <1>2
  <1>9. CASE B <= a + b /\ r < c /\ b > 0
    <2>1. PICK t \in Nat : /\ t <= W /\ t <= Excess(T, c)
                           /\ swc_carried_bytes(a, W, t) + b <= A
      BY <1>9, <1>a DEF CounterOk, Carried
    <2>b. SUFFICES ASSUME NEW q, q = swc_carried_bytes(a, W, t)
                   PROVE  y1 <= y2 + y3 + (W - 1)
      OBVIOUS
    <2>2. q \in Nat /\ a * (W - t) <= W * q + a * (ms - 1) + (W - 1)
      <3>1. /\ q \in Nat /\ (a = 0 => q = 0)
            /\ a * (W - t) <= W * q + a * (NsPerMs - 1) + (W - 1)
        BY <2>1, <2>b, <1>2, <1>4, CarriedBounds
      <3> QED
        BY <3>1, <1>a
    <2>3. t <= sp
      <3>1. Excess(T, c) = T - c
        BY <1>3, <1>4 DEF Excess
      <3> QED
        BY <3>1, <2>1, <1>3, <1>4, <1>9
    <2>4. B <= a + (A - q) /\ A - q \in Nat
      <3>1. q \in Nat /\ q + b <= A
        BY <2>1, <2>2, <2>b
      <3> QED
        BY <3>1, <1>2, <1>4, <1>9
    <2>5. W * B <= W * a + (W * A - W * q)
      <3>1. W * B <= W * (a + (A - q))
        <4>1. a + (A - q) \in Nat
          BY <2>4, <1>4
        <4> QED
          BY <4>1, <2>4, <1>2, TimesMono
      <3>2. W * (a + (A - q)) = W * a + W * (A - q)
        BY <2>4, <1>2, <1>4, TimesSum
      <3>3. W * (A - q) = W * A - W * q
        BY <2>2, <1>2, TimesDiff
      <3> QED
        BY <3>1, <3>2, <3>3
    <2>6. a * (W - t) = a * W - a * t /\ W * a = a * W
      BY <2>1, <1>2, <1>4, TimesDiff
    <2>7. a * t + a * (ms - 1) <= A * (sp + ms - 1)
      <3>0. ms - 1 \in Nat /\ t + (ms - 1) \in Nat /\ sp + ms - 1 \in Nat /\ t + (ms - 1) <= sp + ms - 1
        BY <2>1, <2>3, <1>2, <1>3, <1>6
      <3>1. a * (t + (ms - 1)) = a * t + a * (ms - 1)
        BY <2>1, <3>0, <1>4, TimesSum
      <3>c. SUFFICES ASSUME NEW x \in Nat, x = t + (ms - 1), NEW y \in Nat, y = sp + ms - 1
                     PROVE  a * x <= A * y
        BY <3>0, <3>1
      <3>2. a * x <= a * y
        BY <3>0, <3>c, <1>4, TimesMono
      <3>3. y * a <= y * A /\ y * a = a * y /\ y * A = A * y
        <4>1. y * a <= y * A
          BY <1>2, <1>4, TimesMono
        <4>2. y * a = a * y /\ y * A = A * y
          BY <1>2, <1>4
        <4> QED
          BY <4>1, <4>2
      <3>4. a * x \in Nat /\ a * y \in Nat /\ A * y \in Nat
        BY <1>2, <1>4, TimesNat
      <3>d. SUFFICES ASSUME NEW z1 \in Nat, z1 = a * x, NEW z2 \in Nat, z2 = a * y,
                            NEW z3 \in Nat, z3 = A * y
                     PROVE  z1 <= z3
        BY <3>4
      <3>5. z1 <= z2 /\ z2 <= z3
        BY <3>2, <3>3, <3>d
      <3> QED
        BY <3>5
    <2>8. /\ W * q \in Nat /\ a * W \in Nat /\ a * t \in Nat /\ a * (ms - 1) \in Nat
      <3>1. ms - 1 \in Nat
        BY <1>2
      <3> QED
        BY <3>1, <2>2, <1>2, <1>4, TimesNat
    <2>c. SUFFICES ASSUME NEW z1 \in Nat, z1 = W * q, NEW z2 \in Nat, z2 = a * W,
                          NEW z3 \in Nat, z3 = a * t, NEW z4 \in Nat, z4 = a * (ms - 1)
                   PROVE  y1 <= y2 + y3 + (W - 1)
      BY <2>8
    <2>9. y1 <= z2 + (y2 - z1) /\ z2 - z3 <= z1 + z4 + (W - 1) /\ z3 + z4 <= y3
      <3>1. y1 <= z2 + (y2 - z1)
        BY <2>5, <2>6, <2>c, <1>6, <1>b
      <3>2. a * (W - t) = z2 - z3
        BY <2>6, <2>c
      <3>3. z2 - z3 <= z1 + z4 + (W - 1)
        BY <3>2, <2>2, <2>c
      <3>4. z3 + z4 <= y3
        BY <2>7, <2>c, <1>b
      <3> QED
        BY <3>1, <3>3, <3>4
    <2>10. W \in Nat /\ z2 <= z1 + z4 + (W - 1) + z3
      BY <2>9, <1>2
    <2>11. z2 + (y2 - z1) <= y2 + y3 + (W - 1)
      BY <2>9, <2>10
    <2> QED
      BY <2>9, <2>10, <2>11
  <1>10. CASE r + W < c
    BY <1>2, <1>3, <1>4, <1>10
  <1>11. B <= A \/ (B <= a + b /\ r < c /\ b > 0) \/ r + W < c
    BY <1>2, <1>4, <1>5
  <1> QED
    BY <1>8, <1>9, <1>10, <1>11

-----------------------------------------------------------------------------
(* The sliding log.  The ring holds the last packets that passed, one in each slot *)
(* going back from its head.                                                      *)

LogEntry == [ts_ns : Nat, len : Nat]
RingState == [entries : [Slots -> LogEntry], head : Nat]
NextSlot(ring) == ring.head % SwlLogCap
Back(h, d) == IF h >= d THEN h - d ELSE h + SwlLogCap - d
LogUsed(p, ring, now) ==
    LenSum(ring.entries, {x \in Slots : InWindow(p, ring.entries[x].ts_ns, now)})
Logged(ring, now, len) ==
    [entries |-> [ring.entries EXCEPT ![NextSlot(ring)] = [ts_ns |-> now, len |-> len]],
     head |-> NextSlot(ring) + 1]
AsLogged(e) == [ts_ns |-> e.read, len |-> e.len]

LEMMA SlotMod ==
    ASSUME NEW h \in Nat
    PROVE  h % SwlLogCap \in Slots
  <1>1. SwlLogCap \in Nat \ {0}
    BY PolicerAssumption
  <1> QED
    BY <1>1 DEF Slots

\* The head goes round the ring.
LEMMA NextMod ==
    ASSUME NEW h \in Slots
    PROVE  (h + 1) % SwlLogCap = IF h + 1 = SwlLogCap THEN 0 ELSE h + 1
  <1>a. SUFFICES ASSUME NEW C \in Nat \ {0}, C = SwlLogCap,
                        NEW q, q = (h + 1) \div C, NEW m, m = (h + 1) % C
                 PROVE  m = IF h + 1 = C THEN 0 ELSE h + 1
    BY PolicerAssumption
  <1>1. h \in Nat /\ h < C
    BY <1>a DEF Slots
  <1>2. q \in Nat /\ m \in Nat /\ m < C /\ h + 1 = C * q + m
    BY <1>1, <1>a
  <1>3. CASE q = 0
    <2>1. C * q = 0
      BY <1>3
    <2> QED
      BY <2>1, <1>1, <1>2
  <1>4. CASE q # 0
    <2>1. C * 1 <= C * q
      <3>1. 1 \in Nat /\ 1 <= q
        BY <1>2, <1>4
      <3> QED
        BY <3>1, <1>2, TimesMono
    <2>b. SUFFICES ASSUME NEW y, y = C * q PROVE m = IF h + 1 = C THEN 0 ELSE h + 1
      OBVIOUS
    <2>2. y \in Nat /\ C <= y /\ h + 1 = y + m
      BY <2>1, <2>b, <1>2
    <2> QED
      BY <2>2, <1>1, <1>2
  <1> QED
    BY <1>2, <1>3, <1>4

\* Going back from the head, a packet stays in its slot while the head moves on.
LEMMA BackFacts ==
    ASSUME NEW h \in Slots, NEW g, g = IF h + 1 = SwlLogCap THEN 0 ELSE h + 1
    PROVE  /\ g \in Slots /\ Back(g, 1) = h
           /\ \A d \in 1..SwlLogCap : Back(h, d) \in Slots
           /\ \A d \in 1..SwlLogCap : d < SwlLogCap => Back(g, d + 1) = Back(h, d) /\ Back(h, d) # h
           /\ \A c, d \in 1..SwlLogCap : Back(h, c) = Back(h, d) => c = d
  <1>a. SUFFICES ASSUME NEW C \in Nat \ {0}, C = SwlLogCap
        PROVE  /\ g \in 0..C-1 /\ Back(g, 1) = h
               /\ \A d \in 1..C : Back(h, d) \in 0..C-1
               /\ \A d \in 1..C : d < C => Back(g, d + 1) = Back(h, d) /\ Back(h, d) # h
               /\ \A c, d \in 1..C : Back(h, c) = Back(h, d) => c = d
    BY PolicerAssumption DEF Slots
  <1>1. h \in Nat /\ h < C /\ g = IF h + 1 = C THEN 0 ELSE h + 1
    BY <1>a DEF Slots
  <1>2. g \in Nat /\ g < C /\ g \in 0..C-1 /\ Back(g, 1) = h
    BY <1>1, <1>a DEF Back
  <1>3. ASSUME NEW d \in 1..C PROVE Back(h, d) \in 0..C-1
    BY <1>1, <1>a DEF Back
  <1>4. ASSUME NEW d \in 1..C, d < C PROVE Back(g, d + 1) = Back(h, d) /\ Back(h, d) # h
    BY <1>1, <1>2, <1>4, <1>a DEF Back
  <1>5. ASSUME NEW c \in 1..C, NEW d \in 1..C, Back(h, c) = Back(h, d) PROVE c = d
    BY <1>1, <1>5, <1>a DEF Back
  <1> QED
    BY <1>2, <1>3, <1>4, <1>5

\* A later packet has fewer since it.
LEMMA CountFacts ==
    ASSUME NEW J \in Seq(Entry), NEW alg, NEW i \in 1..Len(J), NEW k \in PassedOf(J, alg, i)
    PROVE  /\ k \in 1..Len(J) /\ alg \in J[k].pass
           /\ CountOf(J, alg, k) \in Nat \ {0} /\ CountOf(J, alg, i) \in Nat
           /\ CountOf(J, alg, k) <= CountOf(J, alg, i)
           /\ alg \in J[i].pass /\ CountOf(J, alg, k) = CountOf(J, alg, i) => k = i
  <1>a. SUFFICES ASSUME NEW S, S = PassedOf(J, alg, i), NEW T, T = PassedOf(J, alg, k)
                 PROVE  /\ k \in 1..Len(J) /\ alg \in J[k].pass
                        /\ Cardinality(T) \in Nat \ {0} /\ Cardinality(S) \in Nat
                        /\ Cardinality(T) <= Cardinality(S)
                        /\ alg \in J[i].pass /\ Cardinality(T) = Cardinality(S) => k = i
    BY DEF CountOf
  <1>1. Len(J) \in Nat /\ i \in Nat /\ i >= 1 /\ i <= Len(J)
    OBVIOUS
  <1>2. k \in 1..Len(J) /\ alg \in J[k].pass /\ k >= i
    BY <1>1 DEF PassedOf
  <1>3. IsFiniteSet(S)
    BY <1>a, PassedFacts
  <1>4. k \in T /\ T \subseteq S
    BY <1>1, <1>2, <1>a DEF PassedOf
  <1>5. IsFiniteSet(T) /\ Cardinality(T) <= Cardinality(S) /\ (Cardinality(T) = Cardinality(S) => T = S)
    BY <1>3, <1>4, FS_Subset
  <1>6. Cardinality(T) \in Nat /\ Cardinality(S) \in Nat
    BY <1>3, <1>5, FS_CardinalityType
  <1>7. Cardinality(T) # 0
    BY <1>4, <1>5, FS_EmptySet
  <1>8. ASSUME alg \in J[i].pass, T = S PROVE k = i
    <2>1. i \in S
      BY <1>1, <1>8, <1>a DEF PassedOf
    <2>2. i >= k
      BY <2>1, <1>8, <1>1, <1>2, <1>a DEF PassedOf
    <2> QED
      BY <2>2, <1>1, <1>2
  <1> QED
    BY <1>2, <1>5, <1>6, <1>7, <1>8

LEMMA SlotsFinite == IsFiniteSet(Slots)
  BY PolicerAssumption, FS_Interval DEF Slots

RingJudged(p, s, now, len, v) ==
    /\ LogUsed(p, s, now) \in Nat
    /\ v.conform <=> LogUsed(p, s, now) + len <= window_allowance(p)
    /\ ~v.conform => v.state = s
    /\ v.conform => v.state = Logged(s, now, len)
    /\ NextSlot(s) \in Slots

\* What swl_police decides, and the ring it leaves.
LEMMA RingVerdict ==
    ASSUME NEW p, check_policy_bounds(p), NEW s \in RingState, NEW now \in Nat, NEW len \in Nat,
           NEW v, v = police("sliding_window_log", p, s, now, len)
    PROVE  RingJudged(p, s, now, len, v)
  <1>a. SUFFICES ASSUME NEW A, A = window_allowance(p), NEW used, used = LogUsed(p, s, now),
                        NEW n, n = Logged(s, now, len)
                 PROVE  /\ used \in Nat /\ (v.conform <=> used + len <= A)
                        /\ ~v.conform => v.state = s
                        /\ v.conform => v.state = n
                        /\ NextSlot(s) \in Slots
    BY DEF RingJudged
  <1>1. A \in Nat
    BY <1>a, Allowances
  <1>2. used \in Nat
    <2>b. SUFFICES ASSUME NEW T, T = {x \in Slots : InWindow(p, s.entries[x].ts_ns, now)}
                   PROVE  LenSum(s.entries, T) \in Nat
      BY <1>a DEF LogUsed
    <2>1. IsFiniteSet(T) /\ T \subseteq Slots
      BY <2>b, SlotsFinite, FS_Subset
    <2>2. \A x \in T : s.entries[x].len \in Nat
      BY <2>1 DEF RingState, LogEntry
    <2> QED
      BY <2>1, <2>2, LenSumNat
  <1>3. v = Verdict(used + len <= A, IF used + len <= A THEN n ELSE s)
    <2>1. v = swl_police(p, s, now, len)
      BY DEF police
    <2> QED
      BY <2>1, <1>a DEF swl_police, LogUsed, LenSum, NextSlot, Logged
  <1>4. (v.conform <=> used + len <= A) /\ (~v.conform => v.state = s) /\ (v.conform => v.state = n)
    <2>b. SUFFICES ASSUME NEW c \in BOOLEAN, c <=> used + len <= A
                   PROVE  (v.conform <=> used + len <= A) /\ (~v.conform => v.state = s) /\ (v.conform => v.state = n)
      OBVIOUS
    <2>0. (used + len <= A) = c
      BY <2>b, <1>1, <1>2
    <2>1. v = [conform |-> c, state |-> IF c THEN n ELSE s]
      BY <1>3, <2>0, Zenon DEF Verdict
    <2>2. v.conform = c /\ v.state = IF c THEN n ELSE s
      BY <2>1
    <2> QED
      BY <2>2, <2>b
  <1>5. NextSlot(s) \in Slots
    BY SlotMod DEF NextSlot, RingState
  <1> QED
    BY <1>2, <1>4, <1>5

LogHolds(s, J) ==
    \A k \in 1..Len(J) :
        "sliding_window_log" \in J[k].pass /\ CountOf(J, "sliding_window_log", k) <= SwlLogCap =>
            s.entries[Back(NextSlot(s), CountOf(J, "sliding_window_log", k))] = AsLogged(J[k])

ExactOf(p, J, i) ==
    /\ \A k \in PassedOf(J, "sliding_window_log", i) :
         p.window_ns <= J[k].read /\ JudgedUpTo(J) < J[k].read + p.window_ns
    /\ CountOf(J, "sliding_window_log", i) <= SwlLogCap + 1
    => BytesOf(J, "sliding_window_log", i) <= window_allowance(p)

LogOk(p, s, J) ==
    /\ s \in RingState /\ \A x \in Slots : s.entries[x].ts_ns <= JudgedUpTo(J)
    /\ LogHolds(s, J)
    /\ \A i \in 1..Len(J) : "sliding_window_log" \in J[i].pass => ExactOf(p, J, i)

\* What the log counts is no less than what it still holds.
LEMMA LogHasAll ==
    ASSUME NEW p, NEW now \in Nat, NEW J \in Seq(Entry), NEW s \in RingState, LogHolds(s, J),
           NEW i \in 1..Len(J), "sliding_window_log" \in J[i].pass,
           CountOf(J, "sliding_window_log", i) <= SwlLogCap,
           \A k \in PassedOf(J, "sliding_window_log", i) : InWindow(p, J[k].read, now)
    PROVE  BytesOf(J, "sliding_window_log", i) <= LogUsed(p, s, now)
  <1>a. SUFFICES ASSUME NEW alg, alg = "sliding_window_log", NEW S, S = PassedOf(J, alg, i),
                        NEW h, h = NextSlot(s), NEW E, E = s.entries,
                        NEW R, R = {x \in Slots : InWindow(p, E[x].ts_ns, now)}
                 PROVE  LenSum(J, S) <= LenSum(E, R)
    BY DEF BytesOf, LogUsed
  <1>b. SUFFICES ASSUME NEW f, f = [k \in S |-> Back(h, CountOf(J, alg, k))]
                 PROVE  LenSum(J, S) <= LenSum(E, R)
    OBVIOUS
  <1>1. h \in Slots /\ SwlLogCap \in Nat \ {0} /\ E \in [Slots -> LogEntry]
    BY <1>a, SlotMod, PolicerAssumption DEF NextSlot, RingState
  <1>2. IsFiniteSet(S) /\ \A k \in S : k \in 1..Len(J) /\ J[k] \in Entry /\ J[k].len \in Nat
    <2>1. IsFiniteSet(S) /\ \A k \in S : k \in 1..Len(J) /\ J[k] \in Entry
      BY <1>a, PassedFacts
    <2> QED
      BY <2>1 DEF Entry
  <1>3. \A k \in S : CountOf(J, alg, k) \in 1..SwlLogCap /\ alg \in J[k].pass
    <2>1. ASSUME NEW k \in S PROVE CountOf(J, alg, k) \in 1..SwlLogCap /\ alg \in J[k].pass
      <3>1. CountOf(J, alg, k) \in Nat \ {0} /\ CountOf(J, alg, k) <= CountOf(J, alg, i)
            /\ alg \in J[k].pass /\ CountOf(J, alg, i) \in Nat
        BY <1>a, CountFacts
      <3>2. CountOf(J, alg, i) <= SwlLogCap
        BY <1>a
      <3> QED
        BY <3>1, <3>2, <1>1
    <2> QED
      BY <2>1
  <1>4. \A k \in S : E[f[k]] = AsLogged(J[k])
    <2>1. ASSUME NEW k \in S PROVE E[f[k]] = AsLogged(J[k])
      <3>1. k \in 1..Len(J) /\ "sliding_window_log" \in J[k].pass
            /\ CountOf(J, "sliding_window_log", k) <= SwlLogCap
        BY <1>2, <1>3, <1>1, <1>a
      <3>2. s.entries[Back(NextSlot(s), CountOf(J, "sliding_window_log", k))] = AsLogged(J[k])
        BY <3>1 DEF LogHolds
      <3> QED
        BY <3>2, <1>a, <1>b
    <2> QED
      BY <2>1
  <1>5. \A k \in S : f[k] \in Slots
    <2>1. \A d \in 1..SwlLogCap : Back(h, d) \in Slots
      BY <1>1, BackFacts
    <2> QED
      BY <2>1, <1>3, <1>b
  <1>6. ASSUME NEW x \in S, NEW y \in S, f[x] = f[y] PROVE x = y
    <2>1. \A c, d \in 1..SwlLogCap : Back(h, c) = Back(h, d) => c = d
      BY <1>1, BackFacts
    <2>2. Back(h, CountOf(J, alg, x)) = Back(h, CountOf(J, alg, y))
      BY <1>6, <1>b
    <2>3. CountOf(J, alg, x) = CountOf(J, alg, y)
      BY <2>1, <2>2, <1>3
    <2>4. ASSUME NEW c \in S, NEW d \in S, CountOf(J, alg, c) = CountOf(J, alg, d), c <= d PROVE c = d
      <3>1. c \in 1..Len(J) /\ d \in 1..Len(J) /\ alg \in J[c].pass /\ alg \in J[d].pass
        BY <1>2, <1>3
      <3>2. d \in PassedOf(J, alg, c)
        BY <3>1, <2>4 DEF PassedOf
      <3>3. alg \in J[c].pass /\ CountOf(J, alg, d) = CountOf(J, alg, c) => d = c
        BY <3>1, <3>2, CountFacts
      <3> QED
        BY <3>1, <3>3, <2>4
    <2>5. x <= y \/ y <= x
      BY <1>2
    <2> QED
      BY <2>3, <2>4, <2>5
  <1>7. \A k \in S : E[f[k]].len = J[k].len /\ E[f[k]].ts_ns = J[k].read
    <2>1. ASSUME NEW k \in S PROVE E[f[k]].len = J[k].len /\ E[f[k]].ts_ns = J[k].read
      <3>1. E[f[k]] = [ts_ns |-> J[k].read, len |-> J[k].len]
        BY <1>4, Zenon DEF AsLogged
      <3>b. SUFFICES ASSUME NEW y, y = E[f[k]] PROVE y.len = J[k].len /\ y.ts_ns = J[k].read
        BY Zenon
      <3> QED
        BY <3>1, <3>b
    <2> QED
      BY <2>1, Zenon
  <1>c. SUFFICES ASSUME NEW I, I = {f[x] : x \in S} PROVE LenSum(J, S) <= LenSum(E, R)
    OBVIOUS
  <1>8. LenSum(J, S) = LenSum(E, I)
    BY <1>2, <1>5, <1>6, <1>7, <1>c, SlotsFinite, LenSumImage
  <1>9. I \subseteq R
    <2>1. ASSUME NEW k \in S PROVE InWindow(p, E[f[k]].ts_ns, now)
      <3>1. InWindow(p, J[k].read, now)
        BY <1>a
      <3> QED
        BY <3>1, <1>7
    <2> QED
      BY <2>1, <1>5, <1>a, <1>c
  <1>10. IsFiniteSet(R) /\ \A k \in R : E[k].len \in Nat
    <2>1. R \subseteq Slots
      BY <1>a
    <2> QED
      BY <2>1, <1>1, SlotsFinite, FS_Subset DEF LogEntry
  <1>11. LenSum(E, I) <= LenSum(E, R)
    BY <1>9, <1>10, LenSumPart
  <1> QED
    BY <1>8, <1>11

\* A judged packet keeps the log's invariant.
LEMMA LogStep ==
    ASSUME NEW p, check_policy_bounds(p),
           NEW s, NEW J \in Seq(Entry), LogOk(p, s, J), JudgedUpTo(J) <= clock, clock \in Nat,
           NEW e \in Entry, e.at = clock, e.read <= clock, Boot <= e.read,
           "sliding_window_log" \in e.pass <=> police("sliding_window_log", p, s, e.read, e.len).conform
    PROVE  LogOk(p, police("sliding_window_log", p, s, e.read, e.len).state, Append(J, e))
  <1>a. SUFFICES ASSUME NEW alg, alg = "sliding_window_log",
                        NEW now, now = e.read, NEW len, len = e.len, NEW A, A = window_allowance(p),
                        NEW v, v = police("sliding_window_log", p, s, now, len),
                        NEW used, used = LogUsed(p, s, now), NEW h, h = NextSlot(s),
                        NEW n, n = Len(J), NEW K, K = Append(J, e)
                 PROVE  LogOk(p, v.state, K)
    OBVIOUS
  <1>1. /\ now \in Nat /\ len \in Nat /\ s \in RingState /\ A \in Nat /\ p.window_ns \in Nat \ {0}
        /\ Boot \in Nat /\ SwlLogCap \in Nat \ {0}
    <2>1. now \in Nat /\ len \in Nat
      BY <1>a DEF Entry
    <2> QED
      BY <2>1, <1>a, Allowances, PolicerAssumption DEF LogOk
  <1>2. /\ used \in Nat /\ (v.conform <=> used + len <= A)
        /\ ~v.conform => v.state = s
        /\ v.conform => v.state = [entries |-> [s.entries EXCEPT ![h] = [ts_ns |-> now, len |-> len]],
                                   head |-> h + 1]
        /\ h \in Slots
    <2>1. v = police("sliding_window_log", p, s, now, len)
      BY <1>a
    <2>2. RingJudged(p, s, now, len, v)
      BY <1>1, <2>1, RingVerdict
    <2> QED
      BY <2>2, <1>a DEF RingJudged, Logged
  <1>3. /\ \A x \in Slots : s.entries[x].ts_ns <= JudgedUpTo(J)
        /\ LogHolds(s, J) /\ s.entries \in [Slots -> LogEntry]
        /\ \A i \in 1..n : alg \in J[i].pass => ExactOf(p, J, i)
    BY <1>a, <1>1 DEF LogOk, RingState
  <1>4. /\ n \in Nat /\ K \in Seq(Entry) /\ Len(K) = n + 1 /\ K[n + 1] = e /\ \A k \in 1..n : K[k] = J[k]
        /\ JudgedUpTo(K) = clock /\ JudgedUpTo(J) \in Nat
    <2>1. n \in Nat /\ K \in Seq(Entry) /\ Len(K) = n + 1 /\ K[n + 1] = e /\ \A k \in 1..n : K[k] = J[k]
      BY <1>a
    <2>2. K # <<>>
      BY <2>1
    <2> QED
      BY <2>1, <2>2, UpToNat DEF JudgedUpTo
  <1>5. alg \in e.pass <=> v.conform
    BY <1>a
  <1>6. v.state \in RingState /\ \A x \in Slots : v.state.entries[x].ts_ns <= clock
    <2>0. ASSUME NEW x \in Slots PROVE s.entries[x].ts_ns <= clock
      <3>1. s.entries[x].ts_ns \in Nat /\ s.entries[x].ts_ns <= JudgedUpTo(J)
        BY <1>3 DEF LogEntry
      <3> QED
        BY <3>1, <1>4
    <2>1. CASE ~v.conform
      BY <2>0, <2>1, <1>1, <1>2
    <2>2. CASE v.conform
      <3>b. SUFFICES ASSUME NEW E, E = [s.entries EXCEPT ![h] = [ts_ns |-> now, len |-> len]]
                     PROVE  v.state \in RingState /\ \A x \in Slots : v.state.entries[x].ts_ns <= clock
        OBVIOUS
      <3>1. [ts_ns |-> now, len |-> len] \in LogEntry
        BY <1>1 DEF LogEntry
      <3>2. E \in [Slots -> LogEntry] /\ E[h] = [ts_ns |-> now, len |-> len]
            /\ \A x \in Slots : x # h => E[x] = s.entries[x]
        BY <3>1, <3>b, <1>2, <1>3
      <3>3. \A x \in Slots : E[x].ts_ns <= clock
        <4>1. ASSUME NEW x \in Slots, x = h PROVE E[x].ts_ns <= clock
          BY <4>1, <3>2, <1>a
        <4>2. ASSUME NEW x \in Slots, x # h PROVE E[x].ts_ns <= clock
          BY <4>2, <3>2, <2>0
        <4> QED
          BY <4>1, <4>2
      <3>4. v.state = [entries |-> E, head |-> h + 1] /\ h + 1 \in Nat
        BY <2>2, <3>b, <1>2 DEF Slots
      <3> QED
        BY <3>2, <3>3, <3>4 DEF RingState
    <2> QED
      BY <2>1, <2>2
  <1>7. ASSUME NEW i \in 1..n
        PROVE  /\ alg \in e.pass => /\ PassedOf(K, alg, i) = PassedOf(J, alg, i) \cup {n + 1}
                                    /\ BytesOf(K, alg, i) = BytesOf(J, alg, i) + len
                                    /\ CountOf(K, alg, i) = CountOf(J, alg, i) + 1
               /\ alg \notin e.pass => /\ PassedOf(K, alg, i) = PassedOf(J, alg, i)
                                       /\ BytesOf(K, alg, i) = BytesOf(J, alg, i)
                                       /\ CountOf(K, alg, i) = CountOf(J, alg, i)
               /\ K[i] = J[i] /\ BytesOf(J, alg, i) \in Nat /\ CountOf(J, alg, i) \in Nat
    BY <1>4, <1>a, PassedAppend, PassedFacts
  <1>8. alg \in e.pass => PassedOf(K, alg, n + 1) = {n + 1} /\ BytesOf(K, alg, n + 1) = len
                          /\ CountOf(K, alg, n + 1) = 1
    BY <1>a, PassedNew
  <1>9. LogHolds(v.state, K)
    <2>1. SUFFICES ASSUME NEW k \in 1..n + 1, alg \in K[k].pass, CountOf(K, alg, k) <= SwlLogCap
                   PROVE  v.state.entries[Back(NextSlot(v.state), CountOf(K, alg, k))] = AsLogged(K[k])
      BY <1>4, <1>a DEF LogHolds
    <2>2. CASE ~v.conform
      <3>1. k \in 1..n
        BY <2>1, <2>2, <1>4, <1>5
      <3>2. K[k] = J[k] /\ CountOf(K, alg, k) = CountOf(J, alg, k)
        BY <3>1, <2>2, <1>5, <1>7
      <3>3. s.entries[Back(NextSlot(s), CountOf(J, alg, k))] = AsLogged(J[k])
        <4>1. "sliding_window_log" \in J[k].pass /\ CountOf(J, "sliding_window_log", k) <= SwlLogCap
              /\ k \in 1..Len(J)
          BY <3>1, <3>2, <2>1, <1>a
        <4> QED
          BY <4>1, <1>3, <1>a DEF LogHolds
      <3> QED
        BY <3>2, <3>3, <2>2, <1>2
    <2>3. CASE v.conform
      <3>b. SUFFICES ASSUME NEW E, E = [s.entries EXCEPT ![h] = [ts_ns |-> now, len |-> len]],
                            NEW g, g = IF h + 1 = SwlLogCap THEN 0 ELSE h + 1
                     PROVE  v.state.entries[Back(NextSlot(v.state), CountOf(K, alg, k))] = AsLogged(K[k])
        OBVIOUS
      <3>1. v.state = [entries |-> E, head |-> h + 1]
        BY <2>3, <3>b, <1>2
      <3>2. v.state.entries = E /\ NextSlot(v.state) = g
        <4>1. (h + 1) % SwlLogCap = g
          BY <1>2, <3>b, NextMod
        <4> QED
          BY <3>1, <4>1 DEF NextSlot
      <3>3. /\ g \in Slots /\ Back(g, 1) = h
            /\ \A d \in 1..SwlLogCap : Back(h, d) \in Slots
            /\ \A d \in 1..SwlLogCap : d < SwlLogCap => Back(g, d + 1) = Back(h, d) /\ Back(h, d) # h
        BY <1>2, <3>b, BackFacts
      <3>4. E[h] = [ts_ns |-> now, len |-> len] /\ \A x \in Slots : x # h => E[x] = s.entries[x]
        BY <3>b, <1>2, <1>3
      <3>5. CASE k = n + 1
        <4>1. CountOf(K, alg, k) = 1 /\ K[k] = e
          BY <3>5, <2>3, <1>4, <1>5, <1>8
        <4>2. AsLogged(K[k]) = [ts_ns |-> now, len |-> len]
          BY <4>1, <1>a DEF AsLogged
        <4> QED
          BY <4>1, <4>2, <3>2, <3>3, <3>4
      <3>6. CASE k # n + 1
        <4>1. k \in 1..n
          BY <3>6, <2>1, <1>4
        <4>b. SUFFICES ASSUME NEW d, d = CountOf(J, alg, k)
                       PROVE  v.state.entries[Back(NextSlot(v.state), CountOf(K, alg, k))] = AsLogged(K[k])
          OBVIOUS
        <4>2. CountOf(K, alg, k) = d + 1 /\ K[k] = J[k] /\ d \in Nat
          BY <4>1, <4>b, <2>3, <1>5, <1>7
        <4>3. alg \in J[k].pass
          BY <4>2, <2>1
        <4>4. d \in Nat \ {0}
          <5>1. k \in PassedOf(J, alg, k)
            BY <4>1, <4>3, <1>4, <1>a DEF PassedOf
          <5>2. k \in 1..Len(J)
            BY <4>1, <1>a
          <5> QED
            BY <5>1, <5>2, <4>b, CountFacts
        <4>5. d \in 1..SwlLogCap /\ d < SwlLogCap
          BY <4>2, <4>4, <2>1, <1>1
        <4>6. Back(g, d + 1) = Back(h, d) /\ Back(h, d) # h /\ Back(h, d) \in Slots
          BY <4>5, <3>3
        <4>7. s.entries[Back(NextSlot(s), d)] = AsLogged(J[k])
          <5>1. "sliding_window_log" \in J[k].pass /\ CountOf(J, "sliding_window_log", k) <= SwlLogCap
                /\ k \in 1..Len(J)
            BY <4>1, <4>3, <4>5, <4>b, <1>1, <1>a
          <5> QED
            BY <5>1, <4>b, <1>3, <1>a DEF LogHolds
        <4>8. E[Back(g, d + 1)] = AsLogged(J[k])
          BY <4>6, <4>7, <3>4, <1>a
        <4> QED
          BY <4>2, <4>8, <3>2
      <3> QED
        BY <3>5, <3>6
    <2> QED
      BY <2>2, <2>3
  <1>10. ASSUME NEW i \in 1..n + 1, alg \in K[i].pass PROVE ExactOf(p, K, i)
    <2>1. SUFFICES ASSUME \A k \in PassedOf(K, alg, i) :
                            p.window_ns <= K[k].read /\ clock < K[k].read + p.window_ns,
                          CountOf(K, alg, i) <= SwlLogCap + 1
                   PROVE  BytesOf(K, alg, i) <= A
      BY <1>4, <1>a DEF ExactOf
    <2>2. CASE i = n + 1
      <3>1. v.conform
        BY <2>2, <1>4, <1>5, <1>10
      <3>2. BytesOf(K, alg, i) = len
        BY <2>2, <3>1, <1>5, <1>8
      <3> QED
        BY <3>1, <3>2, <1>1, <1>2
    <2>3. CASE i # n + 1
      <3>1. i \in 1..n
        BY <2>3, <1>4, <1>10
      <3>2. alg \in J[i].pass /\ i \in 1..Len(J) /\ "sliding_window_log" \in J[i].pass
        BY <3>1, <1>7, <1>10, <1>a
      <3>3. PassedOf(J, alg, i) \subseteq PassedOf(K, alg, i)
        BY <3>1, <1>7
      <3>4. ASSUME NEW k \in PassedOf(J, alg, i)
            PROVE  /\ p.window_ns <= J[k].read /\ clock < J[k].read + p.window_ns
                   /\ J[k].read \in Nat /\ K[k] = J[k]
        <4>1. k \in 1..Len(J) /\ J[k] \in Entry
          BY <3>2, PassedFacts
        <4>2. K[k] = J[k] /\ J[k].read \in Nat
          BY <4>1, <1>4, <1>a DEF Entry
        <4> QED
          BY <4>2, <3>3, <2>1
      <3>5. CASE ~v.conform
        <4>1. BytesOf(K, alg, i) = BytesOf(J, alg, i) /\ CountOf(K, alg, i) = CountOf(J, alg, i)
          BY <3>1, <3>5, <1>5, <1>7
        <4>2. \A k \in PassedOf(J, alg, i) :
                p.window_ns <= J[k].read /\ JudgedUpTo(J) < J[k].read + p.window_ns
          <5>1. ASSUME NEW k \in PassedOf(J, alg, i)
                PROVE  p.window_ns <= J[k].read /\ JudgedUpTo(J) < J[k].read + p.window_ns
            BY <3>4, <1>1, <1>4
          <5> QED
            BY <5>1
        <4>3. ExactOf(p, J, i)
          BY <3>1, <3>2, <1>3
        <4> QED
          BY <4>1, <4>2, <4>3, <2>1, <1>a DEF ExactOf
      <3>6. CASE v.conform
        <4>1. BytesOf(K, alg, i) = BytesOf(J, alg, i) + len /\ CountOf(K, alg, i) = CountOf(J, alg, i) + 1
              /\ BytesOf(J, alg, i) \in Nat /\ CountOf(J, alg, i) \in Nat
          BY <3>1, <3>6, <1>5, <1>7
        <4>2. CountOf(J, alg, i) <= SwlLogCap
          BY <4>1, <2>1, <1>1
        <4>0. p.window_ns <= now
          <5>1. n + 1 \in PassedOf(K, alg, i)
            BY <3>1, <3>6, <1>5, <1>7
          <5> QED
            BY <5>1, <2>1, <1>4, <1>a
        <4>3. ASSUME NEW k \in PassedOf(J, alg, i) PROVE InWindow(p, J[k].read, now)
          BY <4>0, <3>4, <1>1, <1>a, SMTT(30) DEF InWindow
        <4>4. BytesOf(J, alg, i) <= LogUsed(p, s, now)
          <5>1. s \in RingState /\ LogHolds(s, J) /\ now \in Nat
            BY <1>1, <1>3
          <5>2. CountOf(J, "sliding_window_log", i) <= SwlLogCap
                /\ \A k \in PassedOf(J, "sliding_window_log", i) : InWindow(p, J[k].read, now)
            BY <4>2, <4>3, <1>a
          <5> QED
            BY <5>1, <5>2, <3>2, <1>a, LogHasAll
        <4>5. BytesOf(J, alg, i) <= used /\ used + len <= A
          BY <4>4, <3>6, <1>2, <1>a
        <4> QED
          BY <4>1, <4>5, <1>1, <1>2
      <3> QED
        BY <3>5, <3>6
    <2> QED
      BY <2>2, <2>3
  <1> QED
    BY <1>4, <1>6, <1>9, <1>10, <1>a DEF LogOk

\* Within a window the log lets an allowance through, as far as the ring reaches back.
LEMMA LogBound ==
    ASSUME HistoryOk, NEW s, LogOk(policy, s, judged),
           NEW i \in 1..Len(judged), "sliding_window_log" \in judged[i].pass,
           ~SinceBoot("sliding_window_log", i)
    PROVE  ExactWindow("sliding_window_log", i)
  <1>a. SUFFICES ASSUME NEW alg, alg = "sliding_window_log", NEW W, W = policy.window_ns,
                        Span(alg, i) < W, Cardinality(Passed(alg, i)) + LatePackets(i) <= SwlLogCap + 1
                 PROVE  Bytes(alg, i) <= window_allowance(policy)
    BY DEF ExactWindow
  <1>1. judged \in Seq(Entry) /\ check_policy_bounds(policy)
    BY PolicyOk DEF HistoryOk
  <1>2. W \in Nat /\ Last.at = JudgedUpTo(judged) /\ Last.at \in Nat /\ LatePackets(i) = 0
    BY <1>1, <1>a, SpanBounds, Allowances
  <1>3. CountOf(judged, alg, i) <= SwlLogCap + 1
    <2>1. Cardinality(Passed(alg, i)) = CountOf(judged, alg, i)
      BY PassedIsOf DEF CountOf
    <2>2. CountOf(judged, alg, i) \in Nat
      BY <1>1, PassedFacts
    <2> QED
      BY <2>1, <2>2, <1>2, <1>a
  <1>4. ASSUME NEW k \in PassedOf(judged, alg, i)
        PROVE  W <= judged[k].read /\ JudgedUpTo(judged) < judged[k].read + W
    <2>1. k \in 1..Len(judged) /\ judged[k] \in Entry
      BY <1>1, PassedFacts
    <2>2. judged[k].read \in Nat
      BY <2>1 DEF Entry
    <2>3. Last.at - judged[k].read <= Span(alg, i) /\ Span(alg, i) \in Int
      <3>1. k \in Passed(alg, i)
        BY <1>4, PassedIsOf
      <3> QED
        BY <3>1, <1>a, SpanBounds
    <2>4. ~(judged[k].read < W)
      <3>1. k \in Passed(alg, i)
        BY <1>4, PassedIsOf
      <3> QED
        BY <3>1, <1>a DEF SinceBoot
    <2> QED
      BY <2>2, <2>3, <2>4, <1>2, <1>a
  <1>5. ExactOf(policy, judged, i)
    BY <1>a DEF LogOk
  <1>6. BytesOf(judged, alg, i) <= window_allowance(policy)
    BY <1>3, <1>4, <1>5, <1>a DEF ExactOf
  <1> QED
    BY <1>6, PassedIsOf

-----------------------------------------------------------------------------
(* The three window algorithms *)

WindowInv ==
    /\ BurstInv
    /\ displaced = None =>
         /\ FixedOk(policy, state["fixed_window"], judged)
         /\ CounterOk(policy, state["sliding_window_counter"], judged)
         /\ LogOk(policy, state["sliding_window_log"], judged)

LEMMA WindowInit == Init => WindowInv
  <1>1. SUFFICES ASSUME Init, displaced = None
                 PROVE  /\ FixedOk(policy, state["fixed_window"], judged)
                        /\ CounterOk(policy, state["sliding_window_counter"], judged)
                        /\ LogOk(policy, state["sliding_window_log"], judged)
    BY BurstInit DEF WindowInv
  <1>2. judged = <<>> /\ policy \in Policies /\ JudgedUpTo(<<>>) = 0 /\ Len(<<>>) = 0
    BY <1>1 DEF Init, JudgedUpTo
  <1>3. window_allowance(policy) \in Nat
    BY <1>2, Allowances, PolicerAssumption
  <1>4. state["fixed_window"] = [a |-> 0, b |-> 0, c |-> 0]
        /\ state["sliding_window_counter"] = [a |-> 0, b |-> 0, c |-> 0]
    BY <1>1, FreshFlow DEF Algorithms, WindowAlgorithms
  <1>5. [a |-> 0, b |-> 0, c |-> 0] \in FlowState
    BY DEF FlowState
  <1>6. FixedOk(policy, state["fixed_window"], judged)
    BY <1>2, <1>3, <1>4, <1>5 DEF FixedOk, WindowOk
  <1>7. CounterOk(policy, state["sliding_window_counter"], judged)
    BY <1>2, <1>3, <1>4, <1>5 DEF CounterOk, WindowOk, Carried
  <1>8. LogOk(policy, state["sliding_window_log"], judged)
    <2>1. state["sliding_window_log"] = Fresh("sliding_window_log")
      BY <1>1 DEF Init, Algorithms, WindowAlgorithms
    <2>b. SUFFICES ASSUME NEW z, z = [ts_ns |-> 0, len |-> 0], NEW E, E = [i \in Slots |-> z],
                          NEW s, s = state["sliding_window_log"]
                   PROVE  LogOk(policy, s, judged)
      OBVIOUS
    <2>2. s = [entries |-> E, head |-> 0]
      BY <2>1, <2>b DEF Fresh
    <2>3. z \in LogEntry /\ z.ts_ns = 0
      BY <2>b DEF LogEntry
    <2>4. E \in [Slots -> LogEntry] /\ \A x \in Slots : E[x] = z
      BY <2>3, <2>b
    <2>5. s \in RingState /\ \A x \in Slots : s.entries[x].ts_ns <= 0
      BY <2>2, <2>3, <2>4 DEF RingState
    <2> QED
      BY <2>5, <1>2 DEF LogOk, LogHolds
  <1> QED
    BY <1>6, <1>7, <1>8

\* Every step keeps the invariants of the window algorithms.
LEMMA WindowInvStep == ASSUME WindowInv, [Next]_vars PROVE WindowInv'
  <1>0. BurstInv'
    BY BurstStep DEF WindowInv
  <1>1. CASE displaced # None
    <2>1. displaced' = displaced
      BY DEF Next, vars, Judge, ReadClock, ReadClockLate, Elapse
    <2> QED
      BY <2>1, <1>0, <1>1 DEF WindowInv
  <1>2. CASE displaced = None
    <2>1. /\ HistoryOk
          /\ FixedOk(policy, state["fixed_window"], judged)
          /\ CounterOk(policy, state["sliding_window_counter"], judged)
          /\ LogOk(policy, state["sliding_window_log"], judged)
      BY <1>2 DEF WindowInv, BurstInv
    <2>2. /\ HistoryOk' /\ displaced' = None /\ policy' = policy
          /\ Unjudged \/ \E now, len, e : JudgedAs(now, len, e)
      BY <1>2, <2>1, HistoryStep
    <2>3. CASE Unjudged
      BY <1>0, <2>1, <2>2, <2>3 DEF WindowInv, Unjudged
    <2>4. CASE \E now, len, e : JudgedAs(now, len, e)
      <3>1. PICK now, len, e : JudgedAs(now, len, e)
        BY <2>4
      <3>2. check_policy_bounds(policy) /\ JudgedUpTo(judged) <= clock /\ clock \in Nat
            /\ judged \in Seq(Entry)
        BY <2>1, PolicyOk, UpToClock DEF HistoryOk
      <3>3. Boot \in Nat \ {0}
        BY PolicerAssumption
      <3>4. {"fixed_window", "sliding_window_counter", "sliding_window_log"} \subseteq Algorithms
        BY DEF Algorithms, WindowAlgorithms
      <3>5. ASSUME NEW alg \in Algorithms
            PROVE  /\ state'[alg] = police(alg, policy, state[alg], e.read, e.len).state
                   /\ alg \in e.pass <=> police(alg, policy, state[alg], e.read, e.len).conform
                   /\ e \in Entry /\ e.at = clock /\ e.read <= clock /\ Boot <= e.read
                   /\ judged' = Append(judged, e)
        BY <3>1, JudgedEach
      <3>6. e \in Entry /\ e.at = clock /\ e.read <= clock /\ Boot <= e.read
            /\ judged' = Append(judged, e)
        BY <3>4, <3>5
      <3>7. e.read # 0
        <4>1. e.read \in Nat
          BY <3>6 DEF Entry
        <4> QED
          BY <4>1, <3>3, <3>6
      <3>8. FixedOk(policy', state'["fixed_window"], judged')
        <4>1. state'["fixed_window"] =
                police("fixed_window", policy, state["fixed_window"], e.read, e.len).state
              /\ ("fixed_window" \in e.pass <=>
                   police("fixed_window", policy, state["fixed_window"], e.read, e.len).conform)
          BY <3>4, <3>5
        <4>2. FixedOk(policy, police("fixed_window", policy, state["fixed_window"], e.read, e.len).state,
                      Append(judged, e))
          BY <4>1, <2>1, <3>2, <3>6, <3>7, FixedStep
        <4> QED
          BY <4>1, <4>2, <2>2, <3>6
      <3>9. CounterOk(policy', state'["sliding_window_counter"], judged')
        <4> DEFINE alg == "sliding_window_counter"
        <4>1. state'[alg] = police(alg, policy, state[alg], e.read, e.len).state
              /\ (alg \in e.pass <=> police(alg, policy, state[alg], e.read, e.len).conform)
          BY <3>4, <3>5
        <4>2. CounterOk(policy, police(alg, policy, state[alg], e.read, e.len).state, Append(judged, e))
          BY <4>1, <2>1, <3>2, <3>6, <3>7, CounterStep
        <4> QED
          BY <4>1, <4>2, <2>2, <3>6
      <3>10. LogOk(policy', state'["sliding_window_log"], judged')
        <4> DEFINE alg == "sliding_window_log"
        <4>1. state'[alg] = police(alg, policy, state[alg], e.read, e.len).state
              /\ (alg \in e.pass <=> police(alg, policy, state[alg], e.read, e.len).conform)
          BY <3>4, <3>5
        <4>2. LogOk(policy, police(alg, policy, state[alg], e.read, e.len).state, Append(judged, e))
          BY <4>1, <2>1, <3>2, <3>6, LogStep
        <4> QED
          BY <4>1, <4>2, <2>2, <3>6
      <3> QED
        BY <1>0, <2>2, <3>8, <3>9, <3>10 DEF WindowInv
    <2> QED
      BY <2>2, <2>3, <2>4
  <1> QED
    BY <1>1, <1>2

LEMMA WindowBoundHolds == ASSUME WindowInv, displaced = None PROVE WindowBound
  <1>1. /\ HistoryOk /\ BucketOk("leaky_bucket", policy, state["leaky_bucket"], judged)
        /\ FixedOk(policy, state["fixed_window"], judged)
        /\ CounterOk(policy, state["sliding_window_counter"], judged)
        /\ LogOk(policy, state["sliding_window_log"], judged)
    BY DEF WindowInv, BurstInv, Buckets
  <1>2. ASSUME NEW i \in 1..Len(judged), "fixed_window" \in judged[i].pass
        PROVE  TwoWindows("fixed_window", i)
    <2>1. WindowOk("fixed_window", policy, state["fixed_window"].b, state["fixed_window"].a, judged)
      BY <1>1 DEF FixedOk
    <2> QED
      BY <2>1, <1>1, <1>2, WindowsBound
  <1>3. ASSUME NEW i \in 1..Len(judged), "sliding_window_counter" \in judged[i].pass
        PROVE  TwoWindows("sliding_window_counter", i) /\ NoBoundaryBurst("sliding_window_counter", i)
    <2>1. WindowOk("sliding_window_counter", policy, state["sliding_window_counter"].c,
                   state["sliding_window_counter"].b, judged)
      BY <1>1 DEF CounterOk
    <2>2. TwoWindows("sliding_window_counter", i)
      BY <2>1, <1>1, <1>3, WindowsBound
    <2>3. judged[i].read <= JudgedUpTo(judged)
      <3>1. judged[i].read <= state["leaky_bucket"].b
            /\ state["leaky_bucket"].b <= JudgedUpTo(judged) /\ state["leaky_bucket"].b \in Nat
        BY <1>1 DEF BucketOk, FlowState
      <3>2. judged[i].read \in Nat /\ JudgedUpTo(judged) \in Nat
        BY <1>1, <1>3, SpanBounds
      <3> QED
        BY <3>1, <3>2
    <2> QED
      BY <2>2, <2>3, <1>1, <1>3, CounterBound
  <1>4. ASSUME NEW i \in 1..Len(judged), "sliding_window_log" \in judged[i].pass
        PROVE  SinceBoot("sliding_window_log", i) \/ ExactWindow("sliding_window_log", i)
    BY <1>1, <1>4, LogBound
  <1>5. SUFFICES ASSUME NEW i \in 1..Len(judged), NEW alg \in judged[i].pass \cap WindowAlgorithms
                 PROVE  CASE alg = "fixed_window" -> TwoWindows(alg, i)
                          [] alg = "sliding_window_counter" -> TwoWindows(alg, i) /\ NoBoundaryBurst(alg, i)
                          [] alg = "sliding_window_log" -> SinceBoot(alg, i) \/ ExactWindow(alg, i)
    BY DEF WindowBound
  <1>6. CASE alg = "fixed_window"
    BY <1>2, <1>6
  <1>7. CASE alg = "sliding_window_counter"
    BY <1>3, <1>7
  <1>8. CASE alg = "sliding_window_log"
    BY <1>4, <1>8
  <1> QED
    BY <1>6, <1>7, <1>8 DEF WindowAlgorithms

\* WindowBound, for a flow whose install displaced no policy: fixed_window and
\* sliding_window_counter of police (vm-bandwidth-ebpf) let at most two windows and the
\* time since pass, the counter no burst at a window's boundary, and swl_police, from a
\* window after boot on, no more than an allowance within a window as far as the ring of
\* SWL_LOG_CAP entries reaches back, in whatever order the CPUs got the lock.
THEOREM WindowsAreKept == Spec => [](displaced = None => WindowBound)
  <1>1. WindowInv => (displaced = None => WindowBound)
    BY WindowBoundHolds
  <1>2. WindowInv /\ [Next]_vars => WindowInv'
    BY WindowInvStep
  <1> QED
    BY <1>1, <1>2, WindowInit, PTL DEF Spec

-----------------------------------------------------------------------------
(* Which frames pass at all, and which pass after a pause *)

\* A longer packet costs more.
LEMMA CostOrder == ASSUME NEW x \in Nat, NEW y \in Nat PROVE Cost(x) <= Cost(y) <=> x <= y
  <1>1. NsPerSec \in Nat \ {0}
    BY PolicerAssumption
  <1>2. ASSUME x <= y PROVE NsPerSec * x <= NsPerSec * y
    BY <1>1, <1>2, TimesMono
  <1>3. ASSUME y + 1 <= x PROVE NsPerSec * y + NsPerSec <= NsPerSec * x
    <2>1. NsPerSec * (y + 1) <= NsPerSec * x
      BY <1>1, <1>3, TimesMono
    <2>2. NsPerSec * (y + 1) = NsPerSec * y + NsPerSec
      BY <1>1
    <2> QED
      BY <2>1, <2>2
  <1>4. Cost(x) = NsPerSec * x /\ Cost(y) = NsPerSec * y
    BY <1>1 DEF Cost
  <1>b. SUFFICES ASSUME NEW cx, cx = NsPerSec * x, NEW cy, cy = NsPerSec * y
                 PROVE  cx <= cy <=> x <= y
    BY <1>4
  <1>5. cx \in Nat /\ cy \in Nat
    BY <1>1, <1>b, TimesNat
  <1>6. CASE x <= y
    BY <1>2, <1>6, <1>b
  <1>7. CASE y + 1 <= x
    BY <1>1, <1>3, <1>5, <1>7, <1>b
  <1> QED
    BY <1>6, <1>7

\* A bucket lets no more than its burst pass, and that once it has had the time to drain.
LEMMA BucketAdmits ==
    ASSUME NEW alg \in Buckets, NEW p, check_policy_bounds(p),
           NEW s \in FlowState, s.a <= Capacity(p), NEW now \in Nat, NEW len \in Nat,
           NEW c, c <=> police(alg, p, s, now, len).conform
    PROVE  /\ c => len <= p.burst_bytes
           /\ s.b + FullNs(p) <= now /\ len <= p.burst_bytes => c
  <1>a. SUFFICES ASSUME NEW v, v = police(alg, p, s, now, len), NEW D, D = Found(alg, p, s, now)
                 PROVE  /\ v.conform => len <= p.burst_bytes
                        /\ s.b + FullNs(p) <= now /\ len <= p.burst_bytes => v.conform
    OBVIOUS
  <1>1. D \in Nat /\ v.conform = (D + Cost(len) <= Capacity(p))
    <2>1. BucketJudged(alg, p, s, now, len, v, D)
      BY <1>a, BucketNamed
    <2> QED
      BY <2>1, Zenon DEF BucketJudged
  <1>2. Cost(len) \in Nat /\ Capacity(p) \in Nat /\ Capacity(p) = Cost(p.burst_bytes)
        /\ p.burst_bytes \in Nat
    BY CostNat, Rates DEF Capacity, Cost, check_policy_bounds
  <1>3. Cost(len) <= Capacity(p) <=> len <= p.burst_bytes
    BY <1>2, CostOrder
  <1>4. ASSUME s.b + FullNs(p) <= now PROVE D = 0
    <2>1. s.b \in Nat /\ FullNs(p) \in Nat
      BY Rates DEF FlowState
    <2>2. ~(now < s.b) /\ now - s.b >= FullNs(p)
      BY <2>1, <1>4
    <2>3. Leveled(alg, p, s).b = s.b
      BY DEF Leveled
    <2> QED
      BY <2>2, <2>3, <1>a DEF Found, Drained
  <1>5. ASSUME v.conform PROVE len <= p.burst_bytes
    <2>1. D + Cost(len) <= Capacity(p)
      BY <1>1, <1>5
    <2> QED
      BY <2>1, <1>1, <1>2, <1>3
  <1>6. ASSUME s.b + FullNs(p) <= now, len <= p.burst_bytes PROVE v.conform
    <2>1. D + Cost(len) <= Capacity(p)
      BY <1>2, <1>3, <1>4, <1>6
    <2> QED
      BY <2>1, <1>1
  <1> QED
    BY <1>5, <1>6

\* A frame no longer than the burst takes no more time than it, and a burst none more
\* than a bucket takes to fill.
LEMMA EmissionOrder ==
    ASSUME NEW p, check_policy_bounds(p), NEW len \in Nat, len <= p.burst_bytes
    PROVE  Emission(p, len) <= Emission(p, p.burst_bytes) /\ Emission(p, p.burst_bytes) <= FullNs(p)
  <1>a. SUFFICES ASSUME NEW x, x = Emission(p, len), NEW y, y = Emission(p, p.burst_bytes),
                        NEW F, F = FullNs(p), NEW R, R = p.rate_bps, NEW G, G = PerNs(p),
                        NEW cl, cl = Cost(len), NEW cb, cb = Cost(p.burst_bytes)
                 PROVE  x <= y /\ y <= F
    OBVIOUS
  <1>0. p.burst_bytes \in Nat
    BY DEF check_policy_bounds
  <1>1. /\ x \in Nat /\ y \in Nat /\ F \in Nat /\ R \in Nat \ {0} /\ G \in Nat \ {0} /\ 8 * G <= R
        /\ cl \in Nat /\ cb \in Nat /\ cl <= cb /\ Capacity(p) = cb
    BY <1>0, <1>a, Rates, Emissions, CostNat, CostOrder DEF Capacity, Cost
  <1>2. R * x <= 8 * cl /\ 8 * cb < R * y + R /\ R * y <= 8 * cb
    BY <1>0, <1>a, Emissions
  <1>3. cb < G * F + G
    BY <1>1, <1>a, Rates
  <1>4. x <= y
    <2>1. SUFFICES ASSUME y + 1 <= x PROVE FALSE
      BY <1>1
    <2>2. R * (y + 1) <= R * x
      BY <2>1, <1>1, TimesMono
    <2>3. R * (y + 1) = R * y + R
      BY <1>1
    <2>b. SUFFICES ASSUME NEW u, u = R * x, NEW w, w = R * y PROVE FALSE
      OBVIOUS
    <2>4. u \in Nat /\ w \in Nat /\ w + R <= u /\ u <= 8 * cl /\ 8 * cb < w + R
      BY <2>2, <2>3, <2>b, <1>1, <1>2, TimesNat
    <2> QED
      BY <2>4, <1>1
  <1>5. y <= F
    <2>1. SUFFICES ASSUME F + 1 <= y PROVE FALSE
      BY <1>1
    <2>2. R * (F + 1) <= R * y
      BY <2>1, <1>1, TimesMono
    <2>3. (F + 1) * (8 * G) <= (F + 1) * R
      <3>1. F + 1 \in Nat /\ 8 * G \in Nat
        BY <1>1
      <3> QED
        BY <3>1, <1>1, TimesMono
    <2>4. (F + 1) * (8 * G) = 8 * (G * F) + 8 * G /\ (F + 1) * R = R * (F + 1)
      BY <1>1
    <2>b. SUFFICES ASSUME NEW u, u = R * (F + 1), NEW w, w = R * y, NEW z, z = G * F PROVE FALSE
      OBVIOUS
    <2>5. u \in Nat /\ w \in Nat /\ z \in Nat
      BY <2>b, <1>1, TimesNat
    <2>6. u <= w /\ 8 * z + 8 * G <= u /\ w <= 8 * cb /\ cb < z + G
      BY <2>2, <2>3, <2>4, <2>b, <1>2, <1>3
    <2> QED
      BY <2>5, <2>6, <1>1
  <1> QED
    BY <1>4, <1>5

\* GCRA does the same where its divisions are exact.
LEMMA GcraAdmits ==
    ASSUME NEW p, check_policy_bounds(p), NEW s \in FlowState, NEW T \in Nat,
           s.a <= T + Emission(p, p.burst_bytes), NEW now \in Nat, NEW len \in Nat,
           NEW c, c <=> police("gcra", p, s, now, len).conform
    PROVE  /\ ExactFor(p) /\ c => len <= p.burst_bytes
           /\ T + FullNs(p) <= now /\ len <= p.burst_bytes => c
  <1>a. SUFFICES ASSUME NEW E, E = Emission(p, p.burst_bytes), NEW m, m = Emission(p, len),
                        NEW a, a = s.a, NEW F, F = FullNs(p)
                 PROVE  /\ ExactFor(p) /\ c => len <= p.burst_bytes
                        /\ T + F <= now /\ len <= p.burst_bytes => c
    OBVIOUS
  <1>0. p.burst_bytes \in Nat
    BY DEF check_policy_bounds
  <1>1. E \in Nat /\ m \in Nat /\ a \in Nat /\ F \in Nat /\ a <= T + E
    BY <1>0, <1>a, Emissions, Rates DEF FlowState
  <1>2. c <=> Later(now, a) + m <= now + E
    <2>1. police("gcra", p, s, now, len).conform <=>
            Tat(p, s, now, len) <= now + Emission(p, p.burst_bytes)
      BY GcraVerdict
    <2>2. Tat(p, s, now, len) = Later(now, a) + m
      BY <1>a DEF Tat
    <2> QED
      BY <2>1, <2>2, <1>a
  <1>3. ASSUME ExactFor(p), c PROVE len <= p.burst_bytes
    <2>1. m <= E
      BY <1>1, <1>2, <1>3 DEF Later
    <2>2. p.rate_bps * m <= p.rate_bps * E
      <3>1. p.rate_bps \in Nat
        BY DEF check_policy_bounds
      <3> QED
        BY <3>1, <2>1, <1>1, TimesMono
    <2>3. p.rate_bps * m = 8 * Cost(len) /\ p.rate_bps * E = 8 * Cost(p.burst_bytes)
      BY <1>0, <1>3, <1>a, ExactRates
    <2>4. Cost(len) \in Nat /\ Cost(p.burst_bytes) \in Nat
      BY <1>0, CostNat
    <2>5. Cost(len) <= Cost(p.burst_bytes)
      <3>1. 8 * Cost(len) <= 8 * Cost(p.burst_bytes)
        BY <2>2, <2>3
      <3> QED
        BY <3>1, <2>4
    <2> QED
      BY <2>5, <1>0, CostOrder
  <1>4. ASSUME T + F <= now, len <= p.burst_bytes PROVE c
    <2>1. m <= E /\ E <= F
      BY <1>4, <1>a, EmissionOrder
    <2>2. Later(now, a) + m <= now + E
      BY <2>1, <1>1, <1>4 DEF Later
    <2> QED
      BY <2>2, <1>2
  <1> QED
    BY <1>3, <1>4

\* The sliding counter lets no more than an allowance pass, and that two windows later.
LEMMA CounterAdmits ==
    ASSUME NEW p, check_policy_bounds(p), NEW s \in FlowState, s.c = 0 => s.a = 0 /\ s.b = 0,
           NEW now \in Nat, NEW len \in Nat,
           NEW c, c <=> police("sliding_window_counter", p, s, now, len).conform
    PROVE  /\ c => len <= window_allowance(p)
           /\ (s.c = 0 \/ s.c + 2 * p.window_ns <= now) /\ len <= window_allowance(p) => c
  <1>a. SUFFICES ASSUME NEW A, A = window_allowance(p), NEW W, W = p.window_ns,
                        NEW v, v = police("sliding_window_counter", p, s, now, len),
                        NEW r, r = Rolled(p, s, now),
                        NEW t, t = Smaller(Excess(now, r.c), W),
                        NEW q, q = swc_carried_bytes(r.a, W, t)
                 PROVE  /\ v.conform => len <= A
                        /\ (s.c = 0 \/ s.c + 2 * W <= now) /\ len <= A => v.conform
    OBVIOUS
  <1>1. A \in Nat /\ W \in Nat \ {0} /\ s.c \in Nat
    BY <1>a, Allowances DEF FlowState
  <1>2. /\ r \in FlowState /\ t \in Nat /\ t <= W /\ q \in Nat
        /\ v.conform <=> q + r.b + len <= A
    <2>1. /\ t = Smaller(Excess(now, r.c), p.window_ns)
          /\ q = swc_carried_bytes(r.a, p.window_ns, t)
      BY <1>a
    <2>2. CounterJudged(p, now, len, v, r, t, q)
      BY <2>1, <1>a, CounterVerdict
    <2> QED
      BY <2>2, <1>a DEF CounterJudged
  <1>3. r.a \in Nat /\ r.b \in Nat
    BY <1>2 DEF FlowState
  <1>4. ASSUME v.conform PROVE len <= A
    <2>1. q + r.b + len <= A
      BY <1>2, <1>4
    <2> QED
      BY <2>1, <1>1, <1>2, <1>3
  <1>5. ASSUME s.c = 0 \/ s.c + 2 * W <= now, len <= A PROVE v.conform
    <2>1. Stays(p, s, now, r) \/ Slides(p, s, now, r) \/ Restarts(p, s, now, r)
      BY <1>a, RolledIs
    <2>2. Restarts(p, s, now, r)
      BY <2>1, <1>1, <1>5, <1>a DEF Stays, Slides
    <2>3. r.a = 0 /\ r.b = 0
      BY <2>2 DEF Restarts
    <2>4. q = 0
      <3>b. SUFFICES ASSUME NEW prev, prev = r.a PROVE q = 0
        OBVIOUS
      <3>1. prev \in Nat /\ prev = 0 /\ q = swc_carried_bytes(prev, W, t)
        BY <3>b, <2>3, <1>a
      <3>2. /\ q \in Nat /\ (prev = 0 => q = 0)
            /\ prev * (W - t) <= W * q + prev * (NsPerMs - 1) + (W - 1)
        BY <3>1, <1>1, <1>2, CarriedBounds
      <3> QED
        BY <3>1, <3>2
    <2>5. q + r.b + len <= A
      BY <2>3, <2>4, <1>1, <1>5
    <2> QED
      BY <2>5, <1>2
  <1> QED
    BY <1>4, <1>5

\* So does the log, a window later.
LEMMA LogAdmits ==
    ASSUME NEW p, check_policy_bounds(p), NEW s \in RingState, NEW now \in Nat, NEW len \in Nat,
           NEW T \in Nat, \A x \in Slots : s.entries[x].ts_ns <= T,
           NEW c, c <=> police("sliding_window_log", p, s, now, len).conform
    PROVE  /\ c => len <= window_allowance(p)
           /\ T + p.window_ns <= now /\ len <= window_allowance(p) => c
  <1>a. SUFFICES ASSUME NEW A, A = window_allowance(p), NEW W, W = p.window_ns,
                        NEW v, v = police("sliding_window_log", p, s, now, len),
                        NEW used, used = LogUsed(p, s, now)
                 PROVE  /\ v.conform => len <= A
                        /\ T + W <= now /\ len <= A => v.conform
    OBVIOUS
  <1>1. A \in Nat /\ W \in Nat \ {0}
    BY <1>a, Allowances
  <1>2. RingJudged(p, s, now, len, v)
    BY <1>a, RingVerdict
  <1>3. used \in Nat /\ (v.conform <=> used + len <= A)
    BY <1>2, <1>a DEF RingJudged
  <1>4. ASSUME T + W <= now PROVE used = 0
    <2>1. ASSUME NEW x \in Slots PROVE ~InWindow(p, s.entries[x].ts_ns, now)
      <3>1. s.entries[x].ts_ns \in Nat /\ s.entries[x].ts_ns <= T
        BY DEF RingState, LogEntry
      <3> QED
        BY <3>1, <1>1, <1>4, <1>a DEF InWindow
    <2>2. {x \in Slots : InWindow(p, s.entries[x].ts_ns, now)} = {}
      BY <2>1
    <2> QED
      BY <2>2, <1>a, LenSumEmpty DEF LogUsed
  <1>5. ASSUME v.conform PROVE len <= A
    <2>1. used + len <= A
      BY <1>3, <1>5
    <2> QED
      BY <2>1, <1>1, <1>3
  <1>6. ASSUME T + W <= now, len <= A PROVE v.conform
    <2>1. used + len <= A
      BY <1>1, <1>4, <1>6
    <2> QED
      BY <2>1, <1>3
  <1> QED
    BY <1>5, <1>6

AdmissibleInv == WindowInv /\ AdmissibleFrames

\* A pause that the property speaks of, for each of the states.
LEMMA PauseIs ==
    ASSUME WindowInv, displaced = None, NEW now \in Nat,
           Later(2 * policy.window_ns, FullNs(policy) + 1) <= now,
           \A i \in 1..Len(judged) :
               judged[i].at + Later(2 * policy.window_ns, FullNs(policy) + 1) <= now
    PROVE  /\ \A alg \in Buckets : state[alg].b + FullNs(policy) <= now
           /\ JudgedUpTo(judged) + FullNs(policy) <= now
           /\ JudgedUpTo(judged) + policy.window_ns <= now
           /\ state["fixed_window"].b = 0 \/ now >= state["fixed_window"].b + policy.window_ns
           /\ \/ state["sliding_window_counter"].c = 0
              \/ state["sliding_window_counter"].c + 2 * policy.window_ns <= now
  <1>1. /\ HistoryOk /\ \A alg \in Buckets : BucketOk(alg, policy, state[alg], judged)
        /\ FixedOk(policy, state["fixed_window"], judged)
        /\ CounterOk(policy, state["sliding_window_counter"], judged)
    BY DEF WindowInv, BurstInv
  <1>a. SUFFICES ASSUME NEW T, T = JudgedUpTo(judged), NEW F, F = FullNs(policy),
                        NEW W, W = policy.window_ns,
                        NEW b, b = state["fixed_window"].b, NEW c, c = state["sliding_window_counter"].c
                 PROVE  /\ \A alg \in Buckets : state[alg].b + F <= now
                        /\ T + F <= now /\ T + W <= now
                        /\ b = 0 \/ now >= b + W
                        /\ c = 0 \/ c + 2 * W <= now
    OBVIOUS
  <1>2. T \in Nat /\ F \in Nat /\ W \in Nat \ {0} /\ F <= now /\ W <= now
    <2>1. policy \in Policies /\ judged \in Seq(Entry) /\ check_policy_bounds(policy)
      BY <1>1, PolicyOk DEF HistoryOk
    <2> QED
      BY <2>1, <1>a, UpToNat, Rates, Allowances DEF Later
  <1>3. b \in Nat /\ b <= T /\ c \in Nat /\ c <= T
    BY <1>1, <1>a DEF FixedOk, CounterOk, WindowOk, FlowState
  <1>4. \A alg \in Buckets : state[alg].b \in Nat /\ state[alg].b <= T
    BY <1>1, <1>a DEF BucketOk, FlowState
  <1>5. (T + F <= now /\ T + W <= now) /\ (T = 0 \/ T + 2 * W <= now)
    <2>1. CASE judged = <<>>
      <3>1. T = 0
        BY <2>1, <1>a DEF JudgedUpTo
      <3> QED
        BY <3>1, <1>2
    <2>2. CASE judged # <<>>
      <3>1. judged \in Seq(Entry)
        BY <1>1 DEF HistoryOk
      <3>2. Len(judged) \in 1..Len(judged) /\ T = judged[Len(judged)].at
        BY <3>1, <2>2, <1>a DEF JudgedUpTo
      <3>3. T + Later(2 * W, F + 1) <= now
        BY <3>2, <1>a
      <3> QED
        BY <3>3, <1>2 DEF Later
    <2> QED
      BY <2>1, <2>2
  <1>6. \A alg \in Buckets : state[alg].b + F <= now
    BY <1>2, <1>4, <1>5
  <1>7. (b = 0 \/ now >= b + W) /\ (c = 0 \/ c + 2 * W <= now)
    BY <1>2, <1>3, <1>5
  <1> QED
    BY <1>5, <1>6, <1>7

\* A judged packet, for each algorithm: no frame above max_admissible_frame_bytes passes,
\* and one up to it does after a pause.
LEMMA AdmissibleOne ==
    ASSUME WindowInv, displaced = None, NEW now, NEW len, NEW e, JudgedAs(now, len, e),
           NEW alg \in Algorithms
    PROVE  /\ alg \in e.pass =>
                e.len <= max_admissible_frame_bytes(alg) \/ (alg = "gcra" /\ ~ExactFor(policy))
           /\ /\ Later(2 * policy.window_ns, FullNs(policy) + 1) <= e.read
              /\ \A i \in 1..Len(judged) :
                   judged[i].at + Later(2 * policy.window_ns, FullNs(policy) + 1) <= e.read
              /\ e.len <= max_admissible_frame_bytes(alg)
              => alg \in e.pass
  <1>1. /\ HistoryOk /\ (\A x \in Buckets : BucketOk(x, policy, state[x], judged))
        /\ GcraOk(policy, state["gcra"], judged)
        /\ FixedOk(policy, state["fixed_window"], judged)
        /\ CounterOk(policy, state["sliding_window_counter"], judged)
        /\ LogOk(policy, state["sliding_window_log"], judged)
    BY DEF WindowInv, BurstInv
  <1>2. check_policy_bounds(policy) /\ JudgedUpTo(judged) \in Nat
    BY <1>1, PolicyOk, UpToNat DEF HistoryOk
  <1>3. e.read \in Nat /\ e.len \in Nat /\ Boot <= e.read /\ e.read # 0
    <2>1. e \in Entry /\ Boot <= e.read
      BY JudgedEach
    <2>2. e.read \in Nat /\ e.len \in Nat
      BY <2>1 DEF Entry
    <2> QED
      BY <2>1, <2>2, PolicerAssumption
  <1>4. alg \in e.pass <=> police(alg, policy, state[alg], e.read, e.len).conform
    BY JudgedEach
  <1>a. SUFFICES ASSUME NEW r, r = e.read, NEW l, l = e.len, NEW M, M = max_admissible_frame_bytes(alg),
                        NEW c, c <=> alg \in e.pass,
                        NEW Idle, Idle <=>
                          /\ Later(2 * policy.window_ns, FullNs(policy) + 1) <= r
                          /\ \A i \in 1..Len(judged) :
                            judged[i].at + Later(2 * policy.window_ns, FullNs(policy) + 1) <= r
                 PROVE  /\ c => l <= M \/ (alg = "gcra" /\ ~ExactFor(policy))
                        /\ Idle /\ l <= M => c
    BY Zenon
  <1>5. r \in Nat /\ l \in Nat /\ Boot <= r /\ r # 0
        /\ (c <=> police(alg, policy, state[alg], r, l).conform)
    BY <1>3, <1>4, <1>a
  <1>6. Idle => /\ \A x \in Buckets : state[x].b + FullNs(policy) <= r
                /\ JudgedUpTo(judged) + FullNs(policy) <= r
                /\ JudgedUpTo(judged) + policy.window_ns <= r
                /\ state["fixed_window"].b = 0 \/ r >= state["fixed_window"].b + policy.window_ns
                /\ \/ state["sliding_window_counter"].c = 0
                   \/ state["sliding_window_counter"].c + 2 * policy.window_ns <= r
    BY <1>5, <1>a, PauseIs
  <1>7. CASE alg \in Buckets
    <2>1. M = policy.burst_bytes
      BY <1>7, <1>a DEF max_admissible_frame_bytes, WindowAlgorithms, Buckets
    <2>2. state[alg] \in FlowState /\ state[alg].a <= Capacity(policy)
      BY <1>1, <1>7 DEF BucketOk
    <2>3. /\ c => l <= policy.burst_bytes
          /\ state[alg].b + FullNs(policy) <= r /\ l <= policy.burst_bytes => c
      BY <1>2, <1>5, <1>7, <2>2, BucketAdmits
    <2> QED
      BY <2>1, <2>3, <1>6, <1>7
  <1>8. CASE alg = "gcra"
    <2>1. M = policy.burst_bytes
      BY <1>8, <1>a DEF max_admissible_frame_bytes, WindowAlgorithms
    <2>2. state["gcra"] \in FlowState
          /\ state["gcra"].a <= JudgedUpTo(judged) + Emission(policy, policy.burst_bytes)
      BY <1>1 DEF GcraOk
    <2>3. /\ ExactFor(policy) /\ c => l <= policy.burst_bytes
          /\ JudgedUpTo(judged) + FullNs(policy) <= r /\ l <= policy.burst_bytes => c
      BY <1>2, <1>5, <1>8, <2>2, GcraAdmits
    <2> QED
      BY <2>1, <2>3, <1>6, <1>8
  <1>9. CASE alg = "fixed_window"
    <2>1. M = window_allowance(policy)
      BY <1>9, <1>a DEF max_admissible_frame_bytes, WindowAlgorithms
    <2>2. state["fixed_window"] \in FlowState /\ state["fixed_window"].a <= window_allowance(policy)
      BY <1>1 DEF FixedOk, WindowOk
    <2>3. /\ c => l <= window_allowance(policy)
          /\ (state["fixed_window"].b = 0 \/ r >= state["fixed_window"].b + policy.window_ns)
             /\ l <= window_allowance(policy) => c
      <3>b. SUFFICES ASSUME NEW s, s = state["fixed_window"],
                            NEW v, v = police("fixed_window", policy, s, r, l)
                     PROVE  /\ v.conform => l <= window_allowance(policy)
                            /\ (s.b = 0 \/ r >= s.b + policy.window_ns)
                               /\ l <= window_allowance(policy) => v.conform
        BY <1>5, <1>9
      <3>1. s \in FlowState /\ s.a <= window_allowance(policy) /\ r \in Nat \ {0} /\ l \in Nat
        BY <3>b, <2>2, <1>5
      <3>2. PICK add : (v.conform => add = l) /\ (~v.conform => add = 0)
        <4>1. CASE v.conform
          BY <4>1
        <4>2. CASE ~v.conform
          BY <4>2
        <4> QED
          BY <4>1, <4>2
      <3>3. v = police("fixed_window", policy, s, r, l)
        BY <3>b
      <3>4. /\ v.state \in FlowState /\ v.state.a <= window_allowance(policy)
            /\ \/ GoesOn(policy, s.b, s.a, r, add, v.state.b, v.state.a)
               \/ Begins(policy, s.b, r, add, v.state.b, v.state.a)
            /\ v.conform => l <= window_allowance(policy)
            /\ (s.b = 0 \/ r >= s.b + policy.window_ns) /\ l <= window_allowance(policy) => v.conform
        BY <3>1, <3>2, <3>3, <1>2, FixedVerdict
      <3> QED
        BY <3>4
    <2> QED
      BY <2>1, <2>3, <1>6, <1>9
  <1>10. CASE alg = "sliding_window_counter"
    <2>1. M = window_allowance(policy)
      BY <1>10, <1>a DEF max_admissible_frame_bytes, WindowAlgorithms
    <2>b. SUFFICES ASSUME NEW s, s = state["sliding_window_counter"]
                   PROVE  /\ c => l <= window_allowance(policy)
                          /\ (s.c = 0 \/ s.c + 2 * policy.window_ns <= r)
                             /\ l <= window_allowance(policy) => c
      BY <2>1, <1>6, <1>10
    <2>2. s \in FlowState /\ (s.c = 0 => s.a = 0 /\ s.b = 0)
      BY <2>b, <1>1 DEF CounterOk
    <2>3. c <=> police("sliding_window_counter", policy, s, r, l).conform
      BY <2>b, <1>5, <1>10
    <2> QED
      BY <2>2, <2>3, <1>2, <1>5, CounterAdmits
  <1>11. CASE alg = "sliding_window_log"
    <2>1. M = window_allowance(policy)
      BY <1>11, <1>a DEF max_admissible_frame_bytes, WindowAlgorithms
    <2>b. SUFFICES ASSUME NEW s, s = state["sliding_window_log"], NEW T, T = JudgedUpTo(judged)
                   PROVE  /\ c => l <= window_allowance(policy)
                          /\ T + policy.window_ns <= r /\ l <= window_allowance(policy) => c
      BY <2>1, <1>6, <1>11
    <2>2. s \in RingState /\ (\A x \in Slots : s.entries[x].ts_ns <= T) /\ T \in Nat
      BY <2>b, <1>1, <1>2 DEF LogOk
    <2>3. c <=> police("sliding_window_log", policy, s, r, l).conform
      BY <2>b, <1>5, <1>11
    <2> QED
      BY <2>2, <2>3, <1>2, <1>5, LogAdmits
  <1> QED
    BY <1>7, <1>8, <1>9, <1>10, <1>11 DEF Algorithms, BucketAlgorithms, WindowAlgorithms, Buckets

LEMMA AdmissibleStep ==
    ASSUME AdmissibleInv, [Next]_vars PROVE AdmissibleInv'
  <1>0. WindowInv /\ WindowInv' /\ AdmissibleFrames
    BY WindowInvStep DEF AdmissibleInv
  <1>1. CASE displaced # None
    <2>1. displaced' = displaced
      BY DEF Next, vars, Judge, ReadClock, ReadClockLate, Elapse
    <2> QED
      BY <2>1, <1>0, <1>1 DEF AdmissibleInv, AdmissibleFrames
  <1>2. CASE displaced = None
    <2>1. HistoryOk
      BY <1>0, <1>2 DEF WindowInv, BurstInv
    <2>2. /\ HistoryOk' /\ displaced' = None /\ policy' = policy
          /\ Unjudged \/ \E now, len, e : JudgedAs(now, len, e)
      BY <1>2, <2>1, HistoryStep
    <2>3. CASE Unjudged
      <3>1. judged' = judged /\ policy' = policy /\ displaced' = displaced
        BY <2>2, <2>3, <1>2 DEF Unjudged
      <3>2. AdmissibleFrames'
        BY <3>1, <1>0
           DEF AdmissibleFrames, Admissible, max_admissible_frame_bytes, Exact, IdleBefore, Last
      <3> QED
        BY <3>2, <1>0 DEF AdmissibleInv
    <2>4. CASE \E now, len, e : JudgedAs(now, len, e)
      <3>1. PICK now, len, e : JudgedAs(now, len, e)
        BY <2>4
      <3>2. /\ judged' # <<>> /\ Last' = e /\ e \in Entry
            /\ Len(judged') = Len(judged) + 1
            /\ \A i \in 1..Len(judged) : judged'[i] = judged[i]
        BY <3>1, <2>1, JudgedLast
      <3>3. Len(judged) \in Nat /\ e.pass \subseteq Algorithms
        BY <2>1, <3>2 DEF HistoryOk, Entry
      <3>4. Exact' <=> ExactFor(policy)
        BY <2>2 DEF Exact, ExactFor, BitsPerByte
      <3>5. \A alg : max_admissible_frame_bytes(alg)' = max_admissible_frame_bytes(alg)
        BY <2>2 DEF max_admissible_frame_bytes
      <3>6. ASSUME NEW alg \in Last'.pass PROVE alg \in Admissible' \cup (IF Exact' THEN {} ELSE {"gcra"})
        <4>1. alg \in e.pass /\ alg \in Algorithms
          BY <3>2, <3>3, <3>6
        <4>2. e.len <= max_admissible_frame_bytes(alg) \/ (alg = "gcra" /\ ~ExactFor(policy))
          BY <4>1, <3>1, <1>0, <1>2, AdmissibleOne
        <4>3. CASE e.len <= max_admissible_frame_bytes(alg)
          BY <4>1, <4>3, <3>2, <3>5 DEF Admissible
        <4>4. CASE alg = "gcra" /\ ~ExactFor(policy)
          BY <4>4, <3>4
        <4> QED
          BY <4>2, <4>3, <4>4
      <3>7. ASSUME IdleBefore', NEW alg \in Admissible' PROVE alg \in Last'.pass
        <4>1. alg \in Algorithms /\ e.len <= max_admissible_frame_bytes(alg)
          BY <3>7, <3>2, <3>5 DEF Admissible
        <4>2. /\ Later(2 * policy.window_ns, FullNs(policy) + 1) <= e.read
              /\ \A i \in 1..Len(judged) :
                   judged[i].at + Later(2 * policy.window_ns, FullNs(policy) + 1) <= e.read
          <5>1. /\ Later(2 * policy.window_ns, FullNs(policy) + 1) <= e.read
                /\ \A i \in 1..Len(judged') - 1 :
                     judged'[i].at + Later(2 * policy.window_ns, FullNs(policy) + 1) <= e.read
            BY <3>7, <3>2, <2>2 DEF IdleBefore
          <5>2. \A i \in 1..Len(judged) : i \in 1..Len(judged') - 1
            BY <3>2, <3>3
          <5> QED
            BY <5>1, <5>2, <3>2
        <4>3. alg \in e.pass
          BY <4>1, <4>2, <3>1, <1>0, <1>2, AdmissibleOne
        <4> QED
          BY <4>3, <3>2
      <3>8. AdmissibleFrames'
        BY <3>6, <3>7 DEF AdmissibleFrames
      <3> QED
        BY <3>8, <1>0 DEF AdmissibleInv
    <2> QED
      BY <2>2, <2>3, <2>4
  <1> QED
    BY <1>1, <1>2

\* AdmissibleFrames: max_admissible_frame_bytes (vm-bandwidth-common) is the bound of
\* police (vm-bandwidth-ebpf).  No algorithm ever lets a longer frame pass, but for GCRA
\* where its divisions round, and each lets every frame up to it pass after a pause in
\* which the host was up, whatever the policies, the packets before and the order in which they were judged.
THEOREM WarningsTellTheTruth == Spec => []AdmissibleFrames
  <1>1. Init => AdmissibleInv
    BY WindowInit DEF AdmissibleInv, AdmissibleFrames, Init
  <1>2. AdmissibleInv /\ [Next]_vars => AdmissibleInv'
    BY AdmissibleStep
  <1>3. AdmissibleInv => AdmissibleFrames
    BY DEF AdmissibleInv
  <1> QED
    BY <1>1, <1>2, <1>3, PTL DEF Spec

=============================================================================
