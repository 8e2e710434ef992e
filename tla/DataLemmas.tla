----------------------------- MODULE DataLemmas -----------------------------
(***************************************************************************)
(* What the proofs need to know of data: what pushing, popping and         *)
(* replacing the top do to a sequence used as a stack (calls of apply,     *)
(* dispatch loops, checks in progress), and what a loop that grows a set   *)
(* until nothing changes arrives at (the validator's two searches).        *)
(***************************************************************************)
EXTENDS EventLog, Integers, SequenceTheorems, FiniteSetTheorems, WellFoundedInduction, TLAPS

-----------------------------------------------------------------------------
(* Stacks.                                                                 *)

(* An element of a sequence is in the set the sequence is over.            *)
LEMMA StackElement ==
  ASSUME NEW S, NEW s \in Seq(S), NEW i \in DOMAIN s
  PROVE  s[i] \in S
BY LenProperties, ElementOfSeq

(* A call pushed on the stack is its last element, the others stay.        *)
LEMMA StackPush ==
  ASSUME NEW S, NEW s \in Seq(S), NEW e \in S, NEW i \in DOMAIN Append(s, e)
  PROVE  Append(s, e)[i] = e \/ (i \in DOMAIN s /\ Append(s, e)[i] = s[i])
<1>1. DOMAIN s = 1 .. Len(s) /\ Len(s) \in Nat
  BY LenProperties
<1>2. i \in 1 .. Len(s) + 1
  BY <1>1, AppendProperties, LenProperties
<1> QED
  BY <1>1, <1>2, AppendProperties

(* Taking the innermost call off the stack leaves a stack.                 *)
LEMMA StackPop ==
  ASSUME NEW S, NEW s \in Seq(S), s # << >>
  PROVE  /\ Front(s) \in Seq(S)
         /\ Last(s) \in S
         /\ Last(s) = s[Len(s)]
         /\ Len(s) \in DOMAIN s
         /\ Len(Front(s)) = Len(s) - 1
         /\ \A i \in DOMAIN Front(s) : i \in DOMAIN s /\ Front(s)[i] = s[i]
<1>1. Len(s) \in Nat \ {0} /\ DOMAIN s = 1 .. Len(s)
  BY EmptySeq, LenProperties
<1>2. /\ Front(s) \in Seq(S)
      /\ Len(Front(s)) = Len(s) - 1
      /\ \A i \in 1 .. Len(s) - 1 : Front(s)[i] = s[i]
  BY <1>1, SubSeqProperties DEF Front
<1>3. DOMAIN Front(s) = 1 .. Len(s) - 1
  BY <1>2, LenProperties
<1> QED
  BY <1>1, <1>2, <1>3 DEF Last

(* Replacing the innermost call: the others stay where they are.           *)
LEMMA StackReplace ==
  ASSUME NEW S, NEW s \in Seq(S), s # << >>, NEW e \in S
  PROVE  LET t == Append(Front(s), e)
         IN  /\ t \in Seq(S)
             /\ Len(t) = Len(s)
             /\ DOMAIN t = DOMAIN s
             /\ Last(t) = e
             /\ t[Len(s)] = e
             /\ \A i \in DOMAIN s : i < Len(s) => t[i] = s[i]
<1> DEFINE f == Front(s)
           t == Append(f, e)
<1>1. Len(s) \in Nat \ {0} /\ DOMAIN s = 1 .. Len(s)
  BY EmptySeq, LenProperties
<1>2. /\ f \in Seq(S)
      /\ Len(f) = Len(s) - 1
      /\ \A i \in DOMAIN f : f[i] = s[i]
  BY StackPop
<1>3. DOMAIN f = 1 .. Len(s) - 1
  BY <1>2, LenProperties
<1> HIDE DEF f
<1>4. /\ t \in Seq(S)
      /\ Len(t) = Len(s)
      /\ t[Len(s)] = e
      /\ \A i \in 1 .. Len(s) - 1 : t[i] = f[i]
  <2>1. /\ t \in Seq(S)
        /\ Len(t) = Len(f) + 1
        /\ \A i \in 1 .. Len(f) : t[i] = f[i]
        /\ t[Len(f) + 1] = e
    BY <1>2, AppendProperties
  <2> QED
    BY <1>1, <1>2, <2>1
<1>5. DOMAIN t = 1 .. Len(s)
  BY <1>4, LenProperties
<1>6. Last(t) = e
  BY <1>4 DEF Last
<1>7. ASSUME NEW i \in DOMAIN s, i < Len(s) PROVE t[i] = s[i]
  <2>1. i \in 1 .. Len(s) - 1
    BY <1>1, <1>7
  <2> QED
    BY <1>2, <1>3, <1>4, <2>1
<1>8. DOMAIN t = DOMAIN s
  BY <1>1, <1>5
<1> HIDE DEF t
<1>9. /\ t \in Seq(S)
      /\ Len(t) = Len(s)
      /\ DOMAIN t = DOMAIN s
      /\ Last(t) = e
      /\ t[Len(s)] = e
      /\ \A i \in DOMAIN s : i < Len(s) => t[i] = s[i]
  BY <1>4, <1>6, <1>7, <1>8
<1> QED
  BY <1>9 DEF t, f

-----------------------------------------------------------------------------
(* Induction, and sets that grow.                                          *)

(* A set of naturals has a least element: the induction principle for a    *)
(* property given as the set of its counterexamples.                       *)
LEMMA SmallestNumber ==
  ASSUME NEW S \in SUBSET Nat, S # {}
  PROVE  \E n \in S : \A m \in S : n <= m
<1> DEFINE R == {p \in Nat \X Nat : p[1] < p[2]}
<1>1. IsWellFoundedOn(R, Nat)
  BY NatLessThanWellFounded DEF OpToRel
<1> HIDE DEF R
<1>2. PICK x \in S : \A y \in S : ~(<<y, x>> \in R)
  BY <1>1, WFMin
<1>3. \A y \in S : y \in Nat /\ x \in Nat /\ ~(y < x)
  BY <1>2 DEF R
<1> QED
  BY <1>3

(* So has a bounded one a greatest.                                        *)
LEMMA LargestNumber ==
  ASSUME NEW n \in Nat, NEW S \in SUBSET (1 .. n), S # {}
  PROVE  \E l \in S : \A m \in S : m <= l
<1> DEFINE B == {b \in 0 .. n : \A m \in S : m <= b}
<1>1. B \in SUBSET Nat /\ n \in B
  OBVIOUS
<1>2. PICK b \in B : \A m \in B : b <= m
  BY <1>1, SmallestNumber
<1>3. b \in 0 .. n /\ \A m \in S : m <= b /\ m \in 1 .. n
  OBVIOUS
<1>4. ASSUME b \notin S PROVE FALSE
  <2>1. \A m \in S : m <= b - 1
    BY <1>3, <1>4
  <2>2. b - 1 \in 0 .. n
    <3>1. PICK m \in S : TRUE
      OBVIOUS
    <3>2. m <= b /\ m \in 1 .. n
      BY <1>3, <3>1
    <3> QED
      BY <1>3, <3>2
  <2>3. b - 1 \in B
    BY <2>1, <2>2
  <2> HIDE DEF B
  <2> QED
    BY <1>2, <1>3, <2>3
<1> QED
  BY <1>3, <1>4

(* The least set that holds S and that F, a function on the subsets of U,  *)
(* adds nothing to.                                                        *)
Closed(U, F, S) == {T \in SUBSET U : S \subseteq T /\ F[T] \subseteq T}
Closure(U, F, S) == {x \in U : \A T \in Closed(U, F, S) : x \in T}

Monotone(U, F) ==
  /\ F \in [SUBSET U -> SUBSET U]
  /\ \A S, T \in SUBSET U : S \subseteq T => F[S] \subseteq F[T]

GrowsBy(G, U, F) ==
  G = [S \in SUBSET U |-> IF F[S] \subseteq S THEN S ELSE G[S \cup F[S]]]

(* It is closed itself, and one of the closed sets.                        *)
LEMMA ClosureClosed ==
  ASSUME NEW U, NEW F, Monotone(U, F), NEW S \in SUBSET U
  PROVE  Closure(U, F, S) \in Closed(U, F, S)
<1> DEFINE C == Closure(U, F, S)
<1>1. C \in SUBSET U /\ S \subseteq C
  BY DEF Closure, Closed
<1>2. ASSUME NEW T \in Closed(U, F, S) PROVE F[C] \subseteq T
  <2>1. C \subseteq T /\ T \in SUBSET U /\ F[T] \subseteq T
    BY DEF Closure, Closed
  <2> HIDE DEF C
  <2> QED
    BY <1>1, <2>1 DEF Monotone
<1>3. F[C] \subseteq U
  <2> HIDE DEF C
  <2> QED
    BY <1>1 DEF Monotone
<1>4. F[C] \subseteq C
  BY <1>2, <1>3 DEF Closure
<1> HIDE DEF C
<1>5. C \in Closed(U, F, S)
  BY <1>1, <1>4 DEF Closed
<1> QED
  BY <1>5 DEF C

(* A closed set is its own closure, and growing a set by one step does not *)
(* change its closure.                                                     *)
LEMMA ClosureSteps ==
  ASSUME NEW U, NEW F, Monotone(U, F), NEW S \in SUBSET U
  PROVE  /\ F[S] \subseteq S => Closure(U, F, S) = S
         /\ Closure(U, F, S) = Closure(U, F, S \cup F[S])
<1>1. ASSUME F[S] \subseteq S PROVE Closure(U, F, S) = S
  <2>1. S \in Closed(U, F, S)
    BY <1>1 DEF Closed
  <2>2. \A T \in Closed(U, F, S) : S \subseteq T
    BY DEF Closed
  <2> QED
    BY <2>1, <2>2 DEF Closure
<1>2. Closed(U, F, S) = Closed(U, F, S \cup F[S])
  <2>1. \A T \in SUBSET U : F[T] \subseteq T => (S \subseteq T <=> S \cup F[S] \subseteq T)
    BY DEF Monotone
  <2> QED
    BY <2>1 DEF Closed
<1> QED
  BY <1>1, <1>2 DEF Closure

(* Whatever function grows sets by F until nothing changes returns the     *)
(* closure: by induction on the number of elements not yet reached.        *)
LEMMA GrowsToClosure ==
  ASSUME NEW U, IsFiniteSet(U), NEW F, Monotone(U, F), NEW G, GrowsBy(G, U, F),
         NEW S \in SUBSET U
  PROVE  G[S] = Closure(U, F, S)
<1> DEFINE Bad == {X \in SUBSET U : G[X] # Closure(U, F, X)}
           D == {Cardinality(U \ X) : X \in Bad}
<1>1. \A X \in SUBSET U : IsFiniteSet(U \ X) /\ Cardinality(U \ X) \in Nat
  BY FS_Difference, FS_CardinalityType
<1>2. SUFFICES ASSUME Bad # {} PROVE FALSE
  OBVIOUS
<1>3. D \in SUBSET Nat /\ D # {}
  BY <1>1, <1>2
<1>4. PICK n \in D : \A m \in D : n <= m
  BY <1>3, SmallestNumber
<1>5. PICK X \in Bad : n = Cardinality(U \ X)
  BY <1>4
<1> DEFINE Y == X \cup F[X]
<1>6. X \in SUBSET U /\ G[X] = (IF F[X] \subseteq X THEN X ELSE G[Y])
  BY DEF GrowsBy
<1>7. ~(F[X] \subseteq X)
  BY <1>5, <1>6, ClosureSteps
<1>8. Y \in SUBSET U /\ U \ Y \subseteq U \ X /\ U \ Y # U \ X
  BY <1>6, <1>7 DEF Monotone
<1> HIDE DEF Y
<1>9. Cardinality(U \ Y) < Cardinality(U \ X)
  <2>1. IsFiniteSet(U \ X) /\ Cardinality(U \ X) \in Nat /\ Cardinality(U \ Y) \in Nat
    BY <1>1, <1>6, <1>8
  <2>2. /\ Cardinality(U \ Y) <= Cardinality(U \ X)
        /\ Cardinality(U \ X) = Cardinality(U \ Y) => U \ X = U \ Y
    BY <1>8, <2>1, FS_Subset
  <2> QED
    BY <1>8, <2>1, <2>2
<1>10. Y \notin Bad
  <2> SUFFICES ASSUME Y \in Bad PROVE FALSE
    OBVIOUS
  <2>1. Cardinality(U \ Y) \in D
    OBVIOUS
  <2>2. Cardinality(U \ Y) \in Nat /\ Cardinality(U \ X) \in Nat
    BY <1>1, <1>6, <1>8
  <2>3. n <= Cardinality(U \ Y)
    BY <1>4, <2>1
  <2> QED
    BY <1>5, <1>9, <2>2, <2>3
<1>11. G[Y] = Closure(U, F, Y) /\ Closure(U, F, Y) = Closure(U, F, X)
  <2>1. G[Y] = Closure(U, F, Y)
    BY <1>8, <1>10
  <2>2. Closure(U, F, X) = Closure(U, F, X \cup F[X])
    BY <1>6, ClosureSteps
  <2> QED
    BY <2>1, <2>2 DEF Y
<1>12. G[X] # Closure(U, F, X)
  BY <1>5
<1> HIDE DEF Bad, D
<1> QED
  BY <1>6, <1>7, <1>11, <1>12

(* There is such a function.                                               *)
LEMMA GrowthExists ==
  ASSUME NEW U, NEW F, Monotone(U, F)
  PROVE  \E G : GrowsBy(G, U, F)
<1> DEFINE G == [S \in SUBSET U |-> Closure(U, F, S)]
<1>1. ASSUME NEW S \in SUBSET U
      PROVE  Closure(U, F, S) = IF F[S] \subseteq S THEN S ELSE G[S \cup F[S]]
  <2>1. S \cup F[S] \in SUBSET U
    BY DEF Monotone
  <2>2. G[S \cup F[S]] = Closure(U, F, S \cup F[S])
    BY <2>1
  <2> HIDE DEF G
  <2>3. /\ F[S] \subseteq S => Closure(U, F, S) = S
        /\ Closure(U, F, S) = Closure(U, F, S \cup F[S])
    BY ClosureSteps
  <2> QED
    BY <2>2, <2>3
<1>2. GrowsBy(G, U, F)
  BY <1>1 DEF GrowsBy
<1> HIDE DEF G
<1> QED
  BY <1>2

(* A sequence from which the element at k has been taken out.              *)
LEMMA RemovedAt ==
  ASSUME NEW S, NEW s \in Seq(S), NEW t \in Seq(S), NEW k \in 1 .. Len(s),
         Len(s) = Len(t) + 1,
         \A l \in 1 .. Len(t) : l < k => s[l] = t[l],
         \A l \in 1 .. Len(t) : k <= l => s[l + 1] = t[l]
  PROVE  t = RemoveAt(s, k)
<1> DEFINE before == SubSeq(s, 1, k - 1)
           after == SubSeq(s, k + 1, Len(s))
<1>1. Len(s) \in Nat /\ Len(t) \in Nat /\ k \in Nat /\ k >= 1 /\ k <= Len(s)
  BY LenProperties
<1>2. \A i \in 1 .. Len(s) : s[i] \in S
  BY ElementOfSeq
<1>3. /\ before \in Seq(S) /\ Len(before) = k - 1
      /\ \A i \in 1 .. k - 1 : before[i] = s[i]
  <2>1. \A i \in 1 .. k - 1 : s[i] \in S
    BY <1>1, <1>2
  <2>2. /\ before \in Seq(S)
        /\ Len(before) = IF 1 <= k - 1 THEN k - 1 - 1 + 1 ELSE 0
        /\ \A i \in 1 .. k - 1 - 1 + 1 : before[i] = s[1 + i - 1]
    BY <1>1, <2>1, SubSeqProperties
  <2> HIDE DEF before
  <2> QED
    BY <1>1, <2>2
<1>4. /\ after \in Seq(S) /\ Len(after) = Len(s) - k
      /\ \A i \in 1 .. Len(s) - k : after[i] = s[k + i]
  <2>1. \A i \in k + 1 .. Len(s) : s[i] \in S
    BY <1>1, <1>2
  <2>2. /\ after \in Seq(S)
        /\ Len(after) = IF k + 1 <= Len(s) THEN Len(s) - (k + 1) + 1 ELSE 0
        /\ \A i \in 1 .. Len(s) - (k + 1) + 1 : after[i] = s[k + 1 + i - 1]
    BY <1>1, <2>1, SubSeqProperties
  <2> HIDE DEF after
  <2>3. \A i \in 1 .. Len(s) - k : i \in 1 .. Len(s) - (k + 1) + 1 /\ k + 1 + i - 1 = k + i
    BY <1>1
  <2> QED
    BY <1>1, <2>2, <2>3
<1> HIDE DEF before, after
<1>5. /\ before \o after \in Seq(S)
      /\ Len(before \o after) = Len(t)
      /\ \A i \in 1 .. Len(t) : (before \o after)[i] = IF i <= k - 1 THEN before[i] ELSE after[i - (k - 1)]
  <2>1. Len(before) + Len(after) = Len(t)
    BY <1>1, <1>3, <1>4
  <2> QED
    BY <1>3, <1>4, <2>1, ConcatProperties
<1>6. ASSUME NEW i \in 1 .. Len(t) PROVE t[i] = (before \o after)[i]
  <2>1. CASE i < k
    <3>1. i <= k - 1 /\ i \in 1 .. k - 1
      BY <1>1, <2>1
    <3> QED
      BY <1>3, <1>5, <2>1, <3>1
  <2>2. CASE k <= i
    <3>1. ~(i <= k - 1) /\ i - (k - 1) \in 1 .. Len(s) - k /\ k + (i - (k - 1)) = i + 1
      BY <1>1, <2>2
    <3>2. (before \o after)[i] = after[i - (k - 1)]
      BY <1>5, <3>1
    <3>3. after[i - (k - 1)] = s[k + (i - (k - 1))]
      BY <1>4, <3>1
    <3> QED
      BY <2>2, <3>1, <3>2, <3>3
  <2>3. i < k \/ k <= i
    BY <1>1
  <2> QED
    BY <2>1, <2>2, <2>3
<1>7. t = before \o after
  BY <1>5, <1>6, SeqEqual
<1> QED
  BY <1>7 DEF RemoveAt, before, after

-----------------------------------------------------------------------------
(* Reading an event log in order.                                          *)

(* Positions of rows that can be ordered.                                  *)
ReadableRows(rows, at) ==
  /\ at \subseteq Nat
  /\ IsFiniteSet(at)
  /\ \A i \in at : rows[i].ts \in Nat

(* Reading order is a strict and total order on them.                      *)
LEMMA EarlierOrders ==
  ASSUME NEW rows, NEW at, ReadableRows(rows, at), NEW i \in at, NEW j \in at
  PROVE  /\ ~Earlier(rows, i, i)
         /\ i = j \/ Earlier(rows, i, j) \/ Earlier(rows, j, i)
         /\ \A k \in at : Earlier(rows, i, j) /\ Earlier(rows, j, k) => Earlier(rows, i, k)
<1>1. /\ i \in Nat /\ j \in Nat /\ rows[i].ts \in Nat /\ rows[j].ts \in Nat
      /\ \A k \in at : k \in Nat /\ rows[k].ts \in Nat
  BY DEF ReadableRows
<1>2. ASSUME NEW k \in at, Earlier(rows, i, j), Earlier(rows, j, k) PROVE Earlier(rows, i, k)
  <2>1. k \in Nat /\ rows[k].ts \in Nat
    BY <1>1
  <2> QED
    BY <1>1, <1>2, <2>1 DEF Earlier
<1> QED
  BY <1>1, <1>2 DEF Earlier

(* What is read before a row is read before every row that comes after it, *)
(* and there is one more of it.                                            *)
LEMMA PlaceBound ==
  ASSUME NEW rows, NEW at, ReadableRows(rows, at), NEW i \in at
  PROVE  Place(rows, at, i) \in 1 .. Cardinality(at)
<1> DEFINE before == {j \in at : Earlier(rows, j, i)}
<1>1. before \subseteq at \ {i}
  BY EarlierOrders
<1>2. /\ IsFiniteSet(at \ {i}) /\ Cardinality(at \ {i}) = Cardinality(at) - 1
      /\ Cardinality(at) \in Nat
  BY FS_RemoveElement, FS_CardinalityType DEF ReadableRows
<1>3. Cardinality(before) <= Cardinality(at \ {i}) /\ Cardinality(before) \in Nat
  BY <1>1, <1>2, FS_Subset, FS_CardinalityType
<1> HIDE DEF before
<1>4. Cardinality(before) + 1 \in 1 .. Cardinality(at)
  BY <1>2, <1>3
<1> QED
  BY <1>4 DEF Place, before

LEMMA PlaceGrows ==
  ASSUME NEW rows, NEW at, ReadableRows(rows, at), NEW i \in at, NEW j \in at, Earlier(rows, i, j)
  PROVE  Place(rows, at, i) < Place(rows, at, j)
<1> DEFINE beforeI == {k \in at : Earlier(rows, k, i)}
           beforeJ == {k \in at : Earlier(rows, k, j)}
<1>1. i \notin beforeI /\ beforeI \cup {i} \subseteq beforeJ
  BY EarlierOrders
<1>2. IsFiniteSet(beforeI) /\ IsFiniteSet(beforeJ)
  BY FS_Subset DEF ReadableRows
<1> HIDE DEF beforeI, beforeJ
<1>3. Cardinality(beforeI) \in Nat /\ Cardinality(beforeJ) \in Nat
  BY <1>2, FS_CardinalityType
<1>4. Cardinality(beforeI \cup {i}) = Cardinality(beforeI) + 1
  BY <1>1, <1>2, FS_AddElement
<1>5. Cardinality(beforeI \cup {i}) <= Cardinality(beforeJ)
  BY <1>1, <1>2, FS_Subset
<1> QED
  BY <1>3, <1>4, <1>5 DEF Place, beforeI, beforeJ

(* Reading lists every row once, and each in its place.                    *)
LEMMA ListingPlaces ==
  ASSUME NEW rows, NEW at, ReadableRows(rows, at)
  PROVE  /\ Cardinality(at) \in Nat
         /\ Listing(rows, at) \in [1 .. Cardinality(at) -> at]
         /\ \A k \in 1 .. Cardinality(at) : Place(rows, at, Listing(rows, at)[k]) = k
         /\ \A i \in at : /\ Place(rows, at, i) \in 1 .. Cardinality(at)
                         /\ Listing(rows, at)[Place(rows, at, i)] = i
<1> DEFINE n == Cardinality(at)
           g == [i \in at |-> Place(rows, at, i)]
<1>1. n \in Nat
  BY FS_CardinalityType DEF ReadableRows
<1>2. g \in [at -> 1 .. n]
  BY PlaceBound
<1>3. ASSUME NEW i \in at, NEW j \in at, g[i] = g[j] PROVE i = j
  <2>1. i = j \/ Earlier(rows, i, j) \/ Earlier(rows, j, i)
    BY EarlierOrders
  <2>2. g[i] = Place(rows, at, i) /\ g[j] = Place(rows, at, j)
    OBVIOUS
  <2>3. g[i] \in 1 .. n /\ g[j] \in 1 .. n
    BY <1>2
  <2> HIDE DEF g, n
  <2>4. Earlier(rows, i, j) => g[i] < g[j]
    BY <2>2, PlaceGrows
  <2>5. Earlier(rows, j, i) => g[j] < g[i]
    BY <2>2, PlaceGrows
  <2> QED
    BY <1>1, <1>3, <2>1, <2>3, <2>4, <2>5
<1>4. g \in Injection(at, 1 .. n)
  <2> HIDE DEF g
  <2> QED
    BY <1>2, <1>3 DEF Injection, IsInjective
<1>5. IsFiniteSet(1 .. n) /\ Cardinality(1 .. n) = n
  BY <1>1, FS_Interval
<1>6. g \in Surjection(at, 1 .. n)
  <2> HIDE DEF g
  <2>1. Cardinality(at) = Cardinality(1 .. n)
    BY <1>5
  <2> QED
    BY <1>4, <1>5, <2>1, FS_Injection
<1>7. \A k \in 1 .. n : \E i \in at : g[i] = k
  <2> HIDE DEF g
  <2> QED
    BY <1>6 DEF Surjection
<1>8. ASSUME NEW k \in 1 .. n
      PROVE  Listing(rows, at)[k] \in at /\ Place(rows, at, Listing(rows, at)[k]) = k
  <2>1. \E i \in at : Place(rows, at, i) = k
    BY <1>7
  <2>2. Listing(rows, at)[k] = CHOOSE i \in at : Place(rows, at, i) = k
    BY DEF Listing
  <2> QED
    BY <2>1, <2>2
<1>9. Listing(rows, at) \in [1 .. n -> at]
  BY <1>8 DEF Listing
<1>10. ASSUME NEW i \in at
       PROVE  Place(rows, at, i) \in 1 .. n /\ Listing(rows, at)[Place(rows, at, i)] = i
  <2>1. Place(rows, at, i) \in 1 .. n
    BY PlaceBound
  <2> DEFINE j == Listing(rows, at)[Place(rows, at, i)]
  <2>2. j \in at /\ Place(rows, at, j) = Place(rows, at, i)
    BY <1>8, <2>1
  <2> HIDE DEF j
  <2>3. g[j] = g[i]
    BY <2>2
  <2> HIDE DEF g
  <2>4. j = i
    BY <1>3, <2>2, <2>3
  <2> QED
    BY <2>1, <2>4 DEF j
<1> QED
  BY <1>1, <1>8, <1>9, <1>10

(* Rows are read in order.                                                 *)
LEMMA ListingOrder ==
  ASSUME NEW rows, NEW at, ReadableRows(rows, at),
         NEW k \in 1 .. Cardinality(at), NEW l \in 1 .. Cardinality(at), k < l
  PROVE  Earlier(rows, Listing(rows, at)[k], Listing(rows, at)[l])
<1> DEFINE i == Listing(rows, at)[k]
           j == Listing(rows, at)[l]
<1>1. i \in at /\ j \in at /\ Place(rows, at, i) = k /\ Place(rows, at, j) = l
  BY ListingPlaces
<1>2. Cardinality(at) \in Nat /\ ~(l < k) /\ l # k
  BY ListingPlaces
<1> HIDE DEF i, j
<1>3. i = j \/ Earlier(rows, i, j) \/ Earlier(rows, j, i)
  BY <1>1, EarlierOrders
<1>4. Earlier(rows, j, i) => l < k
  BY <1>1, PlaceGrows
<1> QED
  BY <1>1, <1>2, <1>3, <1>4 DEF i, j

(* The last row read is the one nothing comes after.                       *)
LEMMA LastRead ==
  ASSUME NEW rows, NEW at, ReadableRows(rows, at), NEW i \in at,
         \A j \in at : j = i \/ Earlier(rows, j, i)
  PROVE  /\ IterRows(rows, at) # << >>
         /\ Last(IterRows(rows, at)) = rows[i]
<1> DEFINE n == Cardinality(at)
<1>1. {j \in at : Earlier(rows, j, i)} = at \ {i}
  BY EarlierOrders
<1>2. n \in Nat /\ Cardinality(at \ {i}) = n - 1
  BY FS_RemoveElement, FS_CardinalityType DEF ReadableRows
<1>3. Place(rows, at, i) = n
  <2>1. PICK c : c = Cardinality(at)
    OBVIOUS
  <2>2. Place(rows, at, i) = Cardinality(at \ {i}) + 1
    BY <1>1, Zenon DEF Place
  <2>3. c \in Nat /\ Place(rows, at, i) = (c - 1) + 1
    BY <1>2, <2>1, <2>2
  <2>4. (c - 1) + 1 = c
    BY <2>3
  <2> QED
    BY <2>1, <2>3, <2>4
<1>4. n \in 1 .. n /\ Listing(rows, at)[n] = i
  BY <1>3, ListingPlaces
<1> DEFINE s == IterRows(rows, at)
<1>5. s[n] = rows[i] /\ DOMAIN s = 1 .. n
  BY <1>4 DEF IterRows
<1> HIDE DEF s
<1>6. Len(s) = n
  BY <1>2, <1>5 DEF IterRows
<1> QED
  BY <1>2, <1>4, <1>5, <1>6 DEF Last, s

(* The rows read depend on nothing but the rows at those positions.        *)
LEMMA ReadSame ==
  ASSUME NEW rows, NEW at, ReadableRows(rows, at), NEW more, \A i \in at : more[i] = rows[i]
  PROVE  /\ ReadableRows(more, at)
         /\ IterRows(more, at) = IterRows(rows, at)
<1>1. ReadableRows(more, at)
  BY DEF ReadableRows
<1> DEFINE n == Cardinality(at)
<1>2. ASSUME NEW i \in at PROVE Place(more, at, i) = Place(rows, at, i)
  BY DEF Place, Earlier
<1>3. ASSUME NEW k \in 1 .. n PROVE more[Listing(more, at)[k]] = rows[Listing(rows, at)[k]]
  <2> DEFINE i == Listing(more, at)[k]
  <2>1. i \in at /\ Place(more, at, i) = k
    <3>1. /\ Listing(more, at) \in [1 .. Cardinality(at) -> at]
          /\ \A j \in 1 .. Cardinality(at) : Place(more, at, Listing(more, at)[j]) = j
      BY <1>1, ListingPlaces
    <3> QED
      BY <3>1
  <2> HIDE DEF i
  <2>2. Place(rows, at, i) = k
    BY <1>2, <2>1
  <2>3. Listing(rows, at)[k] = i
    BY <2>1, <2>2, ListingPlaces
  <2> QED
    BY <2>1, <2>3 DEF i
<1>4. IterRows(more, at) = IterRows(rows, at)
  BY <1>3 DEF IterRows
<1> QED
  BY <1>1, <1>4

(* A list of all positions that is in reading order is the listing.        *)
LEMMA ListedInOrder ==
  ASSUME NEW rows, NEW at, ReadableRows(rows, at), NEW n \in Nat, NEW g \in [1 .. n -> at],
         \A i \in at : \E k \in 1 .. n : g[k] = i,
         \A k, l \in 1 .. n : k < l => Earlier(rows, g[k], g[l])
  PROVE  /\ Cardinality(at) = n
         /\ \A k \in 1 .. n : Listing(rows, at)[k] = g[k]
<1>1. ASSUME NEW k \in 1 .. n, NEW l \in 1 .. n, Earlier(rows, g[k], g[l]) PROVE k < l
  <2>1. k = l \/ k < l \/ l < k
    OBVIOUS
  <2>2. k # l
    BY <1>1, EarlierOrders
  <2>3. ~(l < k)
    BY <1>1, EarlierOrders
  <2> QED
    BY <2>1, <2>2, <2>3
<1>2. ASSUME NEW k \in 1 .. n, NEW l \in 1 .. n, g[k] = g[l] PROVE k = l
  <2>1. k = l \/ k < l \/ l < k
    OBVIOUS
  <2>2. k < l => Earlier(rows, g[k], g[k])
    BY <1>2
  <2>3. l < k => Earlier(rows, g[k], g[k])
    BY <1>2
  <2> QED
    BY <2>1, <2>2, <2>3, EarlierOrders
<1>3. IsFiniteSet(1 .. n) /\ Cardinality(1 .. n) = n
  BY FS_Interval
<1>4. g \in Bijection(1 .. n, at)
  BY <1>2 DEF Bijection, Injection, IsInjective, Surjection
<1>5. Cardinality(at) = n
  BY <1>3, <1>4, FS_Bijection DEF ExistsBijection
<1>6. ASSUME NEW k \in 1 .. n PROVE Place(rows, at, g[k]) = k
  <2> DEFINE before == {j \in at : Earlier(rows, j, g[k])}
             h == [l \in 1 .. k - 1 |-> g[l]]
  <2>1. \A l \in 1 .. k - 1 : l \in 1 .. n /\ l < k /\ g[l] \in before
    OBVIOUS
  <2>2. \A j \in before : \E l \in 1 .. k - 1 : g[l] = j
    <3> SUFFICES ASSUME NEW j \in at, Earlier(rows, j, g[k])
                 PROVE  \E l \in 1 .. k - 1 : g[l] = j
      OBVIOUS
    <3>1. PICK l \in 1 .. n : g[l] = j
      OBVIOUS
    <3>2. l < k
      BY <1>1, <3>1
    <3> QED
      BY <3>1, <3>2
  <2> HIDE DEF before
  <2>3. h \in Bijection(1 .. k - 1, before)
    BY <1>2, <2>1, <2>2 DEF Bijection, Injection, IsInjective, Surjection
  <2>4. IsFiniteSet(1 .. k - 1) /\ Cardinality(1 .. k - 1) = k - 1
    BY FS_Interval
  <2>5. Cardinality(before) = k - 1
    <3> HIDE DEF h
    <3> QED
      BY <2>3, <2>4, FS_Bijection DEF ExistsBijection
  <2> QED
    BY <2>5 DEF Place, before
<1>7. ASSUME NEW k \in 1 .. n PROVE Listing(rows, at)[k] = g[k]
  BY <1>6, ListingPlaces
<1> QED
  BY <1>5, <1>7

(* Counting along a list of all positions, none of them twice.             *)
LEMMA ListedCount ==
  ASSUME NEW n \in Nat, NEW at, NEW h \in [1 .. n -> at],
         \A k, l \in 1 .. n : h[k] = h[l] => k = l,
         \A i \in at : \E k \in 1 .. n : h[k] = i,
         NEW B, B \subseteq at
  PROVE  /\ Cardinality({k \in 1 .. n : h[k] \in B}) = Cardinality(B)
         /\ IsFiniteSet(B)
<1> DEFINE K == {k \in 1 .. n : h[k] \in B}
           f == [k \in K |-> h[k]]
<1>1. IsFiniteSet(1 .. n)
  BY FS_Interval
<1>2. IsFiniteSet(K)
  BY <1>1, FS_Subset
<1>3. f \in Bijection(K, B)
  BY DEF Bijection, Injection, IsInjective, Surjection
<1> HIDE DEF K, f
<1>4. ExistsBijection(K, B)
  BY <1>3 DEF ExistsBijection
<1> QED
  BY <1>2, <1>4, FS_Bijection DEF K

(* One more row: those read before it keep their place, the others move by *)
(* one.                                                                    *)
LEMMA ReadOneMore ==
  ASSUME NEW rows, NEW at, ReadableRows(rows, at), NEW more, NEW m \in Nat \ at,
         more[m].ts \in Nat, \A i \in at : more[i] = rows[i]
  PROVE  LET n == Cardinality(at)
             new == at \cup {m}
             k == Place(more, new, m)
         IN  /\ n \in Nat
             /\ Cardinality(new) = n + 1
             /\ k \in 1 .. n + 1
             /\ IterRows(more, new)[k] = more[m]
             /\ \A l \in 1 .. n : l < k => IterRows(more, new)[l] = IterRows(rows, at)[l]
             /\ \A l \in 1 .. n : k <= l => IterRows(more, new)[l + 1] = IterRows(rows, at)[l]
<1> DEFINE n == Cardinality(at)
           new == at \cup {m}
           k == Place(more, new, m)
<1>1. n \in Nat /\ Cardinality(new) = n + 1 /\ IsFiniteSet(new)
  BY FS_AddElement, FS_CardinalityType DEF ReadableRows
<1>2. ReadableRows(more, new) /\ at \subseteq new /\ m \in new
  BY <1>1 DEF ReadableRows
<1>3. ASSUME NEW i \in at
      PROVE  Place(more, new, i) = IF Earlier(more, m, i) THEN Place(rows, at, i) + 1
                                   ELSE Place(rows, at, i)
  <2> DEFINE before == {j \in at : Earlier(rows, j, i)}
  <2>1. IsFiniteSet(before) /\ m \notin before
    BY FS_Subset DEF ReadableRows
  <2>2. {j \in new : Earlier(more, j, i)} = IF Earlier(more, m, i) THEN before \cup {m} ELSE before
    BY DEF Earlier
  <2> HIDE DEF before
  <2>3. /\ Cardinality(before \cup {m}) = Cardinality(before) + 1
        /\ Cardinality(before) \in Nat
    BY <2>1, FS_AddElement, FS_CardinalityType
  <2> QED
    BY <2>2, <2>3 DEF Place, before
<1>4. k \in 1 .. n + 1 /\ Listing(more, new)[k] = m
  BY <1>1, <1>2, ListingPlaces
<1> HIDE DEF new, k
<1>5. IterRows(more, new)[k] = more[m]
  BY <1>1, <1>4 DEF IterRows
<1>6. ASSUME NEW l \in 1 .. n, l < k PROVE IterRows(more, new)[l] = IterRows(rows, at)[l]
  <2> DEFINE i == Listing(more, new)[l]
  <2>1. l \in 1 .. n + 1
    BY <1>1
  <2>2. i \in new /\ Place(more, new, i) = l
    BY <1>1, <1>2, <2>1, ListingPlaces
  <2>3. l # k
    BY <1>1, <1>4, <1>6
  <2> HIDE DEF i
  <2>4. i \in at
    BY <2>2, <2>3 DEF new, k
  <2>5. ~Earlier(more, m, i)
    <3>1. Earlier(more, m, i) => k < l
      BY <1>2, <2>2, PlaceGrows DEF k
    <3> QED
      BY <1>1, <1>4, <1>6, <3>1
  <2>6. Place(rows, at, i) = l
    BY <1>3, <2>2, <2>4, <2>5
  <2>7. Listing(rows, at)[l] = i
    BY <2>4, <2>6, ListingPlaces
  <2>8. IterRows(more, new)[l] = more[i]
    BY <1>1, <2>1 DEF IterRows, i
  <2> QED
    BY <2>4, <2>7, <2>8 DEF IterRows
<1>7. ASSUME NEW l \in 1 .. n, k <= l PROVE IterRows(more, new)[l + 1] = IterRows(rows, at)[l]
  <2> DEFINE i == Listing(more, new)[l + 1]
  <2>1. l + 1 \in 1 .. n + 1 /\ k < l + 1 /\ k # l + 1 /\ ~(l + 1 < k)
    BY <1>1, <1>4, <1>7
  <2>2. i \in new /\ Place(more, new, i) = l + 1
    <3>1. /\ Listing(more, new) \in [1 .. n + 1 -> new]
          /\ \A j \in 1 .. n + 1 : Place(more, new, Listing(more, new)[j]) = j
      BY <1>1, <1>2, ListingPlaces
    <3> QED
      BY <2>1, <3>1
  <2> HIDE DEF i
  <2>3. i \in at /\ i # m
    BY <2>1, <2>2 DEF new, k
  <2>4. Earlier(more, m, i)
    <3>1. i = m \/ Earlier(more, i, m) \/ Earlier(more, m, i)
      BY <1>2, <2>2, EarlierOrders
    <3>2. Earlier(more, i, m) => l + 1 < k
      BY <1>2, <2>2, PlaceGrows DEF k
    <3> QED
      BY <2>1, <2>3, <3>1, <3>2
  <2>5. Place(rows, at, i) + 1 = l + 1 /\ Place(rows, at, i) \in Nat
    <3>1. Place(rows, at, i) \in 1 .. n
      BY <2>3, ListingPlaces
    <3> QED
      BY <1>1, <1>3, <2>2, <2>3, <2>4, <3>1
  <2>6. Place(rows, at, i) = l
    BY <2>5
  <2>7. Listing(rows, at)[l] = i
    BY <2>3, <2>6, ListingPlaces
  <2>8. IterRows(more, new)[l + 1] = more[i]
    BY <1>1, <2>1 DEF IterRows, i
  <2> QED
    BY <2>3, <2>7, <2>8 DEF IterRows
<1> QED
  BY <1>1, <1>4, <1>5, <1>6, <1>7 DEF new, k
=============================================================================
