---------------------------- MODULE KernelLemmas ----------------------------
(***************************************************************************)
(* Facts about sequences and finite sets that several proofs rest on: wait *)
(* queues are sequences of tasks, and the counters of the locks are        *)
(* cardinalities of sets of tasks.                                         *)
(***************************************************************************)
EXTENDS Integers, Sequences, FiniteSets, SequencesExt, SequenceTheorems,
        FiniteSetTheorems, WellFoundedInduction, TLAPS

(* Removing an element of a sequence leaves a sequence over the same set   *)
(* (mutex_remove_waiter).                                                  *)
LEMMA RemoveAtType ==
  ASSUME NEW S, NEW s \in Seq(S), NEW i \in 1..Len(s)
  PROVE  RemoveAt(s, i) \in Seq(S)
<1>1. SubSeq(s, 1, i-1) \in Seq(S)
  BY SubSeqProperties
<1>2. SubSeq(s, i+1, Len(s)) \in Seq(S)
  BY SubSeqProperties
<1> QED
  BY <1>1, <1>2, ConcatProperties DEF RemoveAt

(* A sequence without duplicates over S: no two positions hold the same    *)
(* element, the shape of every intrusive list of the kernel.               *)
Unique(s) == \A i, j \in 1..Len(s) : s[i] = s[j] => i = j

(* The elements of a sequence.                                             *)
LEMMA ToSetElems ==
  ASSUME NEW S, NEW s \in Seq(S)
  PROVE  /\ ToSet(s) = {s[i] : i \in 1..Len(s)}
         /\ ToSet(s) \subseteq S
         /\ ToSet(s) = {} <=> s = <<>>
         /\ IsInjective(s) <=> Unique(s)
<1>1. DOMAIN s = 1..Len(s) /\ \A i \in 1..Len(s) : s[i] \in S
  BY LenProperties, ElementOfSeq
<1>2. s = <<>> <=> Len(s) = 0
  BY EmptySeq
<1>3. Len(s) \in Nat
  BY LenProperties
<1>4. s # <<>> => s[1] \in ToSet(s)
  BY <1>1, <1>2, <1>3 DEF ToSet
<1> QED
  BY <1>1, <1>2, <1>3, <1>4 DEF ToSet, IsInjective, Unique

LEMMA ToSetEmpty == ToSet(<<>>) = {} /\ Unique(<<>>)
<1>1. <<>> \in Seq({}) /\ Len(<<>>) = 0
  OBVIOUS
<1>2. ToSet(<<>>) = {}
  BY <1>1, ToSetElems
<1> QED
  BY <1>1, <1>2 DEF Unique

(* list_add: the new element comes in front.                               *)
LEMMA PrependElems ==
  ASSUME NEW S, NEW s \in Seq(S), NEW x \in S
  PROVE  /\ <<x>> \o s \in Seq(S)
         /\ ToSet(<<x>> \o s) = ToSet(s) \cup {x}
         /\ Unique(s) /\ x \notin ToSet(s) => Unique(<<x>> \o s)
<1> DEFINE r == <<x>> \o s
<1>1. r \in Seq(S) /\ Len(r) = Len(s) + 1 /\ r[1] = x
      /\ \A i \in 2..Len(r) : r[i] = s[i-1]
  BY ConcatProperties
<1>2. Len(s) \in Nat
  BY LenProperties
<1>3. \A i \in 1..Len(s) : r[i+1] = s[i]
  BY <1>1, <1>2
<1> HIDE DEF r
<1>4. ToSet(r) = {r[i] : i \in 1..Len(r)} /\ ToSet(s) = {s[i] : i \in 1..Len(s)}
  BY <1>1, ToSetElems
<1>5. ToSet(r) = ToSet(s) \cup {x}
  <2>1. ASSUME NEW i \in 1..Len(r) PROVE r[i] \in ToSet(s) \cup {x}
    <3>1. CASE i = 1
      BY <1>1, <3>1
    <3>2. CASE i # 1
      <4>1. r[i] = s[i-1] /\ i-1 \in 1..Len(s)
        BY <1>1, <1>2, <3>2
      <4> QED
        BY <4>1, <1>4
    <3> QED
      BY <3>1, <3>2
  <2>2. ASSUME NEW i \in 1..Len(s) PROVE s[i] \in ToSet(r)
    <3>1. i+1 \in 1..Len(r)
      BY <1>1, <1>2
    <3> QED
      BY <3>1, <1>3, <1>4
  <2>3. x \in ToSet(r)
    BY <1>1, <1>2, <1>4
  <2> QED
    BY <1>4, <2>1, <2>2, <2>3
<1>6. ASSUME Unique(s), x \notin ToSet(s) PROVE Unique(r)
  <2>1. SUFFICES ASSUME NEW i \in 1..Len(r), NEW j \in 1..Len(r), r[i] = r[j] PROVE i = j
    BY DEF Unique
  <2>2. \A k \in 1..Len(r) : k = 1 \/ (k-1 \in 1..Len(s) /\ r[k] = s[k-1] /\ r[k] # x)
    BY <1>1, <1>2, <1>4, <1>6
  <2>3. CASE i = 1 \/ j = 1
    BY <1>1, <2>1, <2>2, <2>3
  <2>4. CASE i # 1 /\ j # 1
    <3>1. i-1 \in 1..Len(s) /\ j-1 \in 1..Len(s) /\ s[i-1] = s[j-1]
      BY <2>1, <2>2, <2>4
    <3>2. i-1 = j-1
      BY <1>6, <3>1 DEF Unique
    <3> QED
      BY <3>2
  <2> QED
    BY <2>3, <2>4
<1> QED
  BY <1>1, <1>5, <1>6 DEF r

(* The first element is taken off.                                         *)
LEMMA TailElems ==
  ASSUME NEW S, NEW s \in Seq(S), s # <<>>
  PROVE  /\ Tail(s) \in Seq(S)
         /\ Head(s) \in ToSet(s)
         /\ ToSet(Tail(s)) \subseteq ToSet(s)
         /\ ToSet(s) = ToSet(Tail(s)) \cup {Head(s)}
         /\ Unique(s) => Head(s) \notin ToSet(Tail(s)) /\ Unique(Tail(s))
<1> DEFINE r == Tail(s)
<1>1. Head(s) = s[1] /\ r \in Seq(S) /\ Len(r) = Len(s) - 1
      /\ \A i \in 1..Len(r) : r[i] = s[i+1]
  BY HeadTailProperties
<1>2. Len(s) \in Nat /\ Len(s) # 0
  BY LenProperties, EmptySeq
<1> HIDE DEF r
<1>3. ToSet(r) = {r[i] : i \in 1..Len(r)} /\ ToSet(s) = {s[i] : i \in 1..Len(s)}
  BY <1>1, ToSetElems
<1>4. \A i \in 1..Len(r) : i+1 \in 1..Len(s) /\ r[i] = s[i+1]
  BY <1>1, <1>2
<1>5. \A i \in 1..Len(s) : i = 1 \/ (i-1 \in 1..Len(r) /\ s[i] = r[i-1])
  BY <1>1, <1>2
<1>6. 1 \in 1..Len(s)
  BY <1>2
<1>7. ToSet(s) = ToSet(r) \cup {Head(s)}
  BY <1>1, <1>3, <1>4, <1>5, <1>6
<1>8. ASSUME Unique(s) PROVE Head(s) \notin ToSet(r) /\ Unique(r)
  <2>1. Head(s) \notin ToSet(r)
    <3>1. SUFFICES ASSUME NEW i \in 1..Len(r), r[i] = s[1] PROVE FALSE
      BY <1>1, <1>3
    <3> QED
      BY <1>4, <1>6, <1>8, <3>1 DEF Unique
  <2>2. Unique(r)
    BY <1>4, <1>8 DEF Unique
  <2> QED
    BY <2>1, <2>2
<1> QED
  BY <1>1, <1>7, <1>8 DEF r

(* list_add_tail: the new element comes last.                              *)
LEMMA AppendElems ==
  ASSUME NEW S, NEW s \in Seq(S), NEW x \in S
  PROVE  /\ Append(s, x) \in Seq(S)
         /\ Append(s, x) # <<>>
         /\ ToSet(Append(s, x)) = ToSet(s) \cup {x}
         /\ Unique(s) /\ x \notin ToSet(s) => Unique(Append(s, x))
         /\ Head(Append(s, x)) = IF s = <<>> THEN x ELSE Head(s)
<1> DEFINE r == Append(s, x)
<1>1. r \in Seq(S) /\ Len(r) = Len(s) + 1 /\ r[Len(s)+1] = x
      /\ \A i \in 1..Len(s) : r[i] = s[i]
  BY AppendProperties
<1>2. Len(s) \in Nat /\ (s = <<>> <=> Len(s) = 0) /\ (r = <<>> <=> Len(r) = 0)
  BY LenProperties, EmptySeq, <1>1
<1>7. Head(r) = r[1] /\ (s # <<>> => Head(s) = s[1])
  BY <1>1, <1>2, HeadTailProperties
<1> HIDE DEF r
<1>3. ToSet(r) = {r[i] : i \in 1..Len(r)} /\ ToSet(s) = {s[i] : i \in 1..Len(s)}
  BY <1>1, ToSetElems
<1>4. \A i \in 1..Len(r) : (i = Len(s)+1 /\ r[i] = x) \/ (i \in 1..Len(s) /\ r[i] = s[i])
  BY <1>1, <1>2
<1>5. \A i \in 1..Len(s) : i \in 1..Len(r)
  BY <1>1, <1>2
<1>6. Len(s)+1 \in 1..Len(r)
  BY <1>1, <1>2
<1>8. ToSet(r) = ToSet(s) \cup {x}
  BY <1>1, <1>3, <1>4, <1>5, <1>6
<1>9. ASSUME Unique(s), x \notin ToSet(s) PROVE Unique(r)
  <2>1. \A i \in 1..Len(s) : s[i] # x
    BY <1>3, <1>9
  <2> QED
    BY <1>4, <1>9, <2>1 DEF Unique
<1>10. Head(r) = IF s = <<>> THEN x ELSE Head(s)
  BY <1>1, <1>2, <1>7
<1> QED
  BY <1>1, <1>2, <1>8, <1>9, <1>10 DEF r

(* What is where after one element has left a list.                        *)
LEMMA RemoveAtIndex ==
  ASSUME NEW S, NEW s \in Seq(S), NEW i \in 1..Len(s)
  PROVE  /\ RemoveAt(s, i) \in Seq(S) /\ Len(RemoveAt(s, i)) = Len(s) - 1
         /\ \A k \in 1..(Len(s) - 1) : RemoveAt(s, i)[k] = IF k < i THEN s[k] ELSE s[k+1]
<1> DEFINE r == RemoveAt(s, i)
           a == SubSeq(s, 1, i-1)
           b == SubSeq(s, i+1, Len(s))
<1>0. Len(s) \in Nat
  BY LenProperties
<1>1. a \in Seq(S) /\ Len(a) = i-1 /\ \A k \in 1..(i-1) : a[k] = s[k]
  BY <1>0, SubSeqProperties
<1>2. b \in Seq(S) /\ Len(b) = Len(s) - i /\ \A k \in 1..(Len(s)-i) : b[k] = s[i+k]
  BY <1>0, SubSeqProperties
<1> HIDE DEF a, b
<1>3. r = a \o b
  BY DEF r, RemoveAt, a, b
<1> HIDE DEF r
<1>4. r \in Seq(S) /\ Len(r) = Len(s) - 1
  <2>1. r \in Seq(S) /\ Len(r) = Len(a) + Len(b)
    BY <1>1, <1>2, <1>3, ConcatProperties
  <2> QED
    BY <1>0, <1>1, <1>2, <2>1
<1>5. \A k \in 1..Len(r) : r[k] = IF k < i THEN s[k] ELSE s[k+1]
  <2>1. \A k \in 1..(Len(a)+Len(b)) : r[k] = IF k <= Len(a) THEN a[k] ELSE b[k-Len(a)]
    BY <1>1, <1>2, <1>3, ConcatProperties
  <2> QED
    <3> TAKE k \in 1..Len(r)
    <3>1. k \in 1..(Len(a)+Len(b)) /\ k \in Nat /\ i \in Nat
      BY <1>0, <1>1, <1>2, <1>4
    <3>2. CASE k < i
      BY <1>0, <1>1, <2>1, <3>1, <3>2
    <3>3. CASE ~(k < i)
      <4>1. k-Len(a) \in 1..(Len(s)-i) /\ i + (k-Len(a)) = k+1 /\ ~(k <= Len(a))
        BY <1>0, <1>1, <1>2, <3>1, <3>3
      <4> QED
        BY <1>2, <2>1, <3>1, <3>3, <4>1
    <3> QED
      BY <3>2, <3>3
<1> QED
  BY <1>4, <1>5 DEF r

(* list_del: one element leaves a list without duplicates.                 *)
LEMMA RemoveAtElems ==
  ASSUME NEW S, NEW s \in Seq(S), NEW i \in 1..Len(s), Unique(s)
  PROVE  /\ RemoveAt(s, i) \in Seq(S)
         /\ ToSet(RemoveAt(s, i)) = ToSet(s) \ {s[i]}
         /\ Unique(RemoveAt(s, i))
<1> DEFINE r == RemoveAt(s, i)
<1>0. Len(s) \in Nat
  BY LenProperties
<1>1. r \in Seq(S) /\ Len(r) = Len(s) - 1 /\ \A k \in 1..(Len(s) - 1) : r[k] = IF k < i THEN s[k] ELSE s[k+1]
  BY RemoveAtIndex
<1> HIDE DEF r
<1>4. r \in Seq(S) /\ Len(r) = Len(s) - 1
  BY <1>1
<1>5. \A k \in 1..Len(r) : r[k] = IF k < i THEN s[k] ELSE s[k+1]
  BY <1>1
<1>6. ToSet(r) = {r[k] : k \in 1..Len(r)} /\ ToSet(s) = {s[k] : k \in 1..Len(s)}
  BY <1>4, ToSetElems
<1>7. Unique(r)
  <2> DEFINE at(k) == IF k < i THEN k ELSE k+1
  <2>1. \A k \in 1..Len(r) : at(k) \in 1..Len(s) /\ r[k] = s[at(k)]
    BY <1>0, <1>4, <1>5
  <2>2. \A k, l \in 1..Len(r) : at(k) = at(l) => k = l
    BY <1>0, <1>4
  <2> HIDE DEF at
  <2> QED
    BY <2>1, <2>2 DEF Unique
<1>8. ToSet(r) = ToSet(s) \ {s[i]}
  <2>1. ASSUME NEW k \in 1..Len(r) PROVE r[k] \in ToSet(s) \ {s[i]}
    <3>1. CASE k < i
      BY <1>0, <1>4, <1>5, <1>6, <3>1 DEF Unique
    <3>2. CASE ~(k < i)
      <4>1. k+1 \in 1..Len(s) /\ k+1 # i /\ r[k] = s[k+1]
        BY <1>0, <1>4, <1>5, <3>2
      <4> QED
        BY <4>1, <1>6 DEF Unique
    <3> QED
      BY <3>1, <3>2
  <2>2. ASSUME NEW k \in 1..Len(s), k # i PROVE s[k] \in ToSet(r)
    <3>1. CASE k < i
      BY <1>0, <1>4, <1>5, <1>6, <3>1
    <3>2. CASE ~(k < i)
      <4>1. k-1 \in 1..Len(r) /\ r[k-1] = s[k]
        BY <1>0, <1>4, <1>5, <2>2, <3>2
      <4> QED
        BY <4>1, <1>6
    <3> QED
      BY <3>1, <3>2
  <2> QED
    BY <1>6, <2>1, <2>2
<1> QED
  BY <1>4, <1>7, <1>8 DEF r

(* A finite set grows by one with a new element ...                        *)
LEMMA CardAdd ==
  ASSUME NEW S, IsFiniteSet(S), NEW x, x \notin S
  PROVE  /\ IsFiniteSet(S \cup {x})
         /\ Cardinality(S \cup {x}) = Cardinality(S) + 1
BY FS_AddElement

(* ... and shrinks by one without one of its elements.                     *)
LEMMA CardRemove ==
  ASSUME NEW S, IsFiniteSet(S), NEW x \in S
  PROVE  /\ IsFiniteSet(S \ {x})
         /\ Cardinality(S \ {x}) = Cardinality(S) - 1
BY FS_RemoveElement

(* A set of naturals that is not empty has a least element.                *)
LEMMA LeastNat ==
  ASSUME NEW T, T \subseteq Nat, T # {}
  PROVE  \E x \in T : \A y \in T : x <= y
<1> DEFINE R == OpToRel(<, Nat)
<1>1. IsWellFoundedOn(R, Nat)
  BY NatLessThanWellFounded, Zenon
<1>2. \A x, y \in Nat : x < y => <<x, y>> \in R
  BY DEF OpToRel
<1> HIDE DEF R
<1>3. PICK x \in T : \A y \in T : ~(<<y, x>> \in R)
  BY <1>1, WFMin
<1>4. \A y \in T : ~(y < x)
  BY <1>2, <1>3
<1> QED
  BY <1>4

-----------------------------------------------------------------------------
(* Arithmetic of counters that wrap at M.                                  *)

LEMMA ModRange ==
  ASSUME NEW M \in Nat \ {0}, NEW a \in Int
  PROVE  a % M \in 0..(M-1)
OBVIOUS

LEMMA ModIdentity ==
  ASSUME NEW M \in Nat \ {0}, NEW a \in 0..(M-1)
  PROVE  a % M = a
OBVIOUS

LEMMA DivMod ==
  ASSUME NEW M \in Nat \ {0}, NEW a \in Int
  PROVE  a = M * (a \div M) + (a % M) /\ a \div M \in Int
OBVIOUS

LEMMA RemainderUnique ==
  ASSUME NEW M \in Nat \ {0}, NEW q \in Int, NEW s \in Int,
         NEW x \in 0..(M-1), NEW y \in 0..(M-1),
         M*q + x = M*s + y
  PROVE  x = y
OBVIOUS

LEMMA Distributes ==
  ASSUME NEW M \in Int, NEW x \in Int, NEW y \in Int
  PROVE  M*(x+y) = M*x + M*y
OBVIOUS

(* Adding to a counter that has wrapped is adding and then wrapping.       *)
LEMMA ModAdd ==
  ASSUME NEW M \in Nat \ {0}, NEW a \in Int, NEW b \in Int
  PROVE  ((a % M) + b) % M = (a + b) % M
<1> DEFINE qa == a \div M
           ra == a % M
           q == ((a % M) + b) \div M
           x == ((a % M) + b) % M
           s == (a + b) \div M
           y == (a + b) % M
           k == qa + q
<1>1. a = M*qa + ra /\ qa \in Int /\ ra \in Int
  BY DivMod, ModRange
<1>2. ra + b = M*q + x /\ q \in Int
  BY <1>1, DivMod
<1>3. a + b = M*s + y /\ s \in Int
  BY DivMod
<1>4. x \in 0..(M-1) /\ y \in 0..(M-1)
  BY <1>1, ModRange
<1>5. k \in Int
  BY <1>1, <1>2
<1> HIDE DEF qa, q, s, x, y, ra
<1>6. M*k = M*qa + M*q /\ M*qa \in Int /\ M*q \in Int /\ M*s \in Int
  BY <1>1, <1>2, <1>3, Distributes
<1> HIDE DEF k
<1>7. M*k + x = M*s + y
  BY <1>1, <1>2, <1>3, <1>4, <1>6
<1>8. x = y
  BY <1>7, <1>4, <1>3, <1>5, RemainderUnique
<1> QED
  BY <1>8 DEF x, y

LEMMA ModAddMod ==
  ASSUME NEW M \in Nat \ {0}, NEW a \in Int, NEW b \in Int
  PROVE  ((a % M) + (b % M)) % M = (a + b) % M
<1>1. b % M \in Int /\ a % M \in Int
  BY ModRange
<1>2. ((a % M) + (b % M)) % M = (a + (b % M)) % M
  BY <1>1, ModAdd
<1>3. ((b % M) + a) % M = (b + a) % M
  BY <1>1, ModAdd
<1>4. a + (b % M) = (b % M) + a /\ a + b = b + a
  BY <1>1
<1> QED
  BY <1>2, <1>3, <1>4

(* A counter of 2K values: how it goes up by one, and that its parity      *)
(* changes with every step, also where it wraps.                           *)
LEMMA EvenModStep ==
  ASSUME NEW K \in Nat \ {0}, NEW x \in 0..(2*K - 1)
  PROVE  /\ (x + 1) % (2*K) = IF x = 2*K - 1 THEN 0 ELSE x + 1
         /\ ((x + 1) % (2*K)) % 2 = 1 - (x % 2)
<1> DEFINE y == (x + 1) % (2*K)
<1>1. y = IF x = 2*K - 1 THEN 0 ELSE x + 1
  OBVIOUS
<1> HIDE DEF y
<1>2. y % 2 = 1 - (x % 2)
  BY <1>1
<1> QED
  BY <1>1, <1>2 DEF y
=============================================================================
