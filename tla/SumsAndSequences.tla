-------------------------- MODULE SumsAndSequences --------------------------
(***************************************************************************)
(* Facts about the data of the models that the proofs share: what is left  *)
(* of a sequence without one of its elements, and the sum of a function's  *)
(* values over a finite set, as FiniteSetsExt and Functions define it by a *)
(* fold.                                                                   *)
(*                                                                         *)
(* Induction is over a set of naturals instead of an operator: the set of  *)
(* the numbers for which a claim holds is all of Nat.                      *)
(***************************************************************************)
EXTENDS Integers, SequencesExt, SequenceTheorems, FiniteSetsExt, FiniteSetTheorems,
        WellFoundedInduction, TLAPS

\* What is left of a sequence without its i-th element.
LEMMA RemoveAtProperties ==
    ASSUME NEW S, NEW s \in Seq(S), NEW i \in 1..Len(s)
    PROVE  /\ RemoveAt(s, i) \in Seq(S)
           /\ Len(RemoveAt(s, i)) = Len(s) - 1
           /\ \A j \in 1..(Len(s) - 1) :
                 RemoveAt(s, i)[j] = IF j < i THEN s[j] ELSE s[j + 1]
<1> DEFINE front == SubSeq(s, 1, i - 1)
           back == SubSeq(s, i + 1, Len(s))
<1>1. Len(s) \in Nat
  BY LenProperties
<1>2. /\ front \in Seq(S)
      /\ Len(front) = i - 1
      /\ \A j \in 1..(i - 1) : front[j] = s[j]
  <2>1. \A j \in 1..(i - 1) : s[j] \in S
    BY <1>1, ElementOfSeq
  <2> QED
    BY <1>1, <2>1, SubSeqProperties, Z3
<1>3. /\ back \in Seq(S)
      /\ Len(back) = Len(s) - i
      /\ \A j \in 1..(Len(s) - i) : back[j] = s[j + i]
  <2>1. \A j \in (i + 1)..Len(s) : s[j] \in S
    BY <1>1, ElementOfSeq
  <2>2. /\ back \in Seq(S)
        /\ Len(back) = IF i + 1 <= Len(s) THEN Len(s) - (i + 1) + 1 ELSE 0
        /\ \A j \in 1..(Len(s) - (i + 1) + 1) : back[j] = s[i + 1 + j - 1]
    BY <1>1, <2>1, SubSeqProperties
  <2> QED
    BY <1>1, <2>2
<1>4. /\ front \o back \in Seq(S)
      /\ Len(front \o back) = Len(front) + Len(back)
      /\ \A j \in 1..(Len(front) + Len(back)) :
            (front \o back)[j] = IF j <= Len(front) THEN front[j] ELSE back[j - Len(front)]
  BY <1>2, <1>3, ConcatProperties
<1> HIDE DEF front, back
<1>5. RemoveAt(s, i) = front \o back
  BY DEF RemoveAt, front, back
<1>6. \A j \in 1..(Len(s) - 1) :
          (front \o back)[j] = IF j < i THEN s[j] ELSE s[j + 1]
  <2> SUFFICES ASSUME NEW j \in 1..(Len(s) - 1)
               PROVE  (front \o back)[j] = IF j < i THEN s[j] ELSE s[j + 1]
    OBVIOUS
  <2>1. CASE j < i
    BY <1>1, <1>2, <1>3, <1>4, <2>1
  <2>2. CASE ~(j < i)
    <3>1. (front \o back)[j] = back[j - (i - 1)]
      BY <1>1, <1>2, <1>3, <1>4, <2>2
    <3>2. j - (i - 1) \in 1..(Len(s) - i)
      BY <1>1, <2>2
    <3>3. back[j - (i - 1)] = s[j - (i - 1) + i]
      BY <1>3, <3>2
    <3> QED
      BY <1>1, <2>2, <3>1, <3>3
  <2> QED
    BY <2>1, <2>2
<1> QED
  BY <1>1, <1>2, <1>3, <1>4, <1>5, <1>6

-----------------------------------------------------------------------------
(* Induction.                                                              *)

\* The naturals for which a claim holds are all of them.
LEMMA NaturalInduction ==
    ASSUME NEW P \in SUBSET Nat, 0 \in P, \A n \in P : n + 1 \in P
    PROVE  P = Nat
<1> DEFINE LessThan == OpToRel(<, Nat)
<1>1. /\ IsWellFoundedOn(LessThan, Nat)
      /\ \A x, y \in Nat : x < y => <<x, y>> \in LessThan
  BY NatLessThanWellFounded DEF OpToRel
<1> HIDE DEF LessThan
<1>2. ASSUME Nat \ P # {}
      PROVE  FALSE
  <2>1. PICK n \in Nat \ P : \A m \in Nat \ P : ~(<<m, n>> \in LessThan)
    BY <1>1, <1>2, WFMin
  <2>2. n # 0 /\ n - 1 \in Nat /\ n - 1 < n
    BY <2>1
  <2>3. n - 1 \in P
    BY <1>1, <2>1, <2>2
  <2>4. (n - 1) + 1 \in P
    BY <2>3
  <2> QED
    BY <2>1, <2>4
<1> QED
  BY <1>2

-----------------------------------------------------------------------------
(* The function that a sum is defined with: from the sums of smaller sets. *)

Chosen(s) == CHOOSE x \in s : TRUE

\* The sum of the set s, given those of smaller sets.
SumStep(g, f, s) == IF s = {} THEN 0 ELSE f[Chosen(s)] + g[s \ {Chosen(s)}]

IntValued(f, S) == \A x \in S : f[x] \in Int

IsSum(g, f, S) == g = [s \in SUBSET S |-> SumStep(g, f, s)]

\* A subset without its chosen element is a smaller subset.
LEMMA WithoutChosen ==
    ASSUME NEW S, IsFiniteSet(S), NEW s \in SUBSET S, NEW x \in s
    PROVE  /\ Chosen(s) \in s
           /\ s \ {x} \in SUBSET S
           /\ IsFiniteSet(s)
           /\ Cardinality(s) \in Nat \ {0}
           /\ Cardinality(s \ {x}) = Cardinality(s) - 1
<1>1. IsFiniteSet(s)
  BY FS_Subset
<1>2. Cardinality(s) \in Nat /\ Cardinality(s) # 0
  BY <1>1, FS_CardinalityType, FS_EmptySet
<1> QED
  BY <1>1, <1>2, FS_RemoveElement DEF Chosen

\* There is such a function.
LEMMA SumExists ==
    ASSUME NEW S, IsFiniteSet(S), NEW f
    PROVE  \E g : IsSum(g, f, S)
<1> DEFINE Upto(g, n) ==
               \A s \in SUBSET S : Cardinality(s) <= n => g[s] = SumStep(g, f, s)
           P == {n \in Nat : \E g : Upto(g, n)}
<1>1. 0 \in P
  <2>1. \A s \in SUBSET S : Cardinality(s) <= 0 => s = {}
    <3> TAKE s \in SUBSET S
    <3> QED
      BY FS_Subset, FS_CardinalityType, FS_EmptySet
  <2>2. Upto([s \in SUBSET S |-> 0], 0)
    BY <2>1 DEF SumStep
  <2> QED
    BY <2>2
<1>2. \A n \in P : n + 1 \in P
  <2> SUFFICES ASSUME NEW n \in Nat, NEW g, Upto(g, n)
               PROVE  \E h : Upto(h, n + 1)
    OBVIOUS
  <2> DEFINE h == [s \in SUBSET S |-> SumStep(g, f, s)]
  <2>1. ASSUME NEW s \in SUBSET S, Cardinality(s) <= n + 1
        PROVE  h[s] = SumStep(h, f, s)
    <3>1. CASE s = {}
      BY <3>1 DEF SumStep
    <3>2. CASE s # {}
      <4> DEFINE rest == s \ {Chosen(s)}
      <4>1. Chosen(s) \in s
        BY <3>2 DEF Chosen
      <4>2. rest \in SUBSET S /\ Cardinality(rest) <= n
        BY <2>1, <4>1, WithoutChosen
      <4>3. g[rest] = SumStep(g, f, rest)
        BY <4>2
      <4>4. h[rest] = g[rest]
        BY <4>2, <4>3
      <4>5. h[s] = f[Chosen(s)] + g[rest]
        BY <3>2 DEF SumStep
      <4> HIDE DEF h, rest
      <4>6. SumStep(h, f, s) = f[Chosen(s)] + h[rest]
        BY <3>2 DEF SumStep, rest
      <4> QED
        BY <4>4, <4>5, <4>6
    <3> QED
      BY <3>1, <3>2
  <2> HIDE DEF h
  <2> QED
    BY <2>1
<1>3. P = Nat
  <2> HIDE DEF P
  <2>1. P \in SUBSET Nat
    BY DEF P
  <2> QED
    BY <1>1, <1>2, <2>1, NaturalInduction
<1>4. Cardinality(S) \in P
  BY <1>3, FS_CardinalityType
<1>5. PICK g : Upto(g, Cardinality(S))
  BY <1>4
<1>6. \A s \in SUBSET S : g[s] = SumStep(g, f, s)
  <2>1. \A s \in SUBSET S : Cardinality(s) <= Cardinality(S)
    BY FS_Subset
  <2> QED
    BY <1>5, <2>1
<1> DEFINE h == [s \in SUBSET S |-> g[s]]
<1>7. \A s \in SUBSET S : SumStep(h, f, s) = SumStep(g, f, s)
  <2> TAKE s \in SUBSET S
  <2>1. CASE s # {}
    <3>1. s \ {Chosen(s)} \in SUBSET S
      OBVIOUS
    <3>2. h[s \ {Chosen(s)}] = g[s \ {Chosen(s)}]
      BY <3>1
    <3> HIDE DEF h
    <3> QED
      BY <2>1, <3>2 DEF SumStep
  <2>2. CASE s = {}
    BY <2>2 DEF SumStep
  <2> QED
    BY <2>1, <2>2
<1>8. IsSum(h, f, S)
  BY <1>6, <1>7 DEF IsSum
<1> QED
  BY <1>8

\* Sums of integers are integers.
LEMMA SumFunctionIsTyped ==
    ASSUME NEW S, IsFiniteSet(S), NEW f, IntValued(f, S),
           NEW g, IsSum(g, f, S)
    PROVE  \A s \in SUBSET S : g[s] \in Int
<1> DEFINE Upto(n) == \A s \in SUBSET S : Cardinality(s) <= n => g[s] \in Int
           P == {n \in Nat : Upto(n)}
<1>1. \A s \in SUBSET S : g[s] = SumStep(g, f, s)
  BY DEF IsSum
<1>2. 0 \in P
  <2>1. \A s \in SUBSET S : Cardinality(s) <= 0 => s = {}
    <3> TAKE s \in SUBSET S
    <3> QED
      BY FS_Subset, FS_CardinalityType, FS_EmptySet
  <2>2. g[{}] = 0
    BY DEF IsSum, SumStep
  <2> QED
    BY <2>1, <2>2
<1>3. \A n \in P : n + 1 \in P
  <2> SUFFICES ASSUME NEW n \in Nat, Upto(n), NEW s \in SUBSET S, Cardinality(s) <= n + 1
               PROVE  g[s] \in Int
    OBVIOUS
  <2>1. CASE s = {}
    <3>1. g[{}] = 0
      BY DEF IsSum, SumStep
    <3> QED
      BY <2>1, <3>1
  <2>2. CASE s # {}
    <3>1. Chosen(s) \in s
      BY <2>2 DEF Chosen
    <3>2. s \ {Chosen(s)} \in SUBSET S /\ Cardinality(s \ {Chosen(s)}) <= n
      BY <3>1, WithoutChosen
    <3>3. g[s \ {Chosen(s)}] \in Int /\ f[Chosen(s)] \in Int
      BY <3>1, <3>2 DEF IntValued
    <3> QED
      BY <1>1, <2>2, <3>3, SMTT(30) DEF SumStep
  <2> QED
    BY <2>1, <2>2
<1>4. P = Nat
  <2> HIDE DEF P
  <2>1. P \in SUBSET Nat
    BY DEF P
  <2> QED
    BY <1>2, <1>3, <2>1, NaturalInduction
<1> SUFFICES ASSUME NEW s \in SUBSET S PROVE g[s] \in Int
  OBVIOUS
<1>5. Cardinality(s) \in Nat
  BY FS_Subset, FS_CardinalityType
<1>6. Upto(Cardinality(s))
  BY <1>4, <1>5
<1> QED
  BY <1>5, <1>6

\* The order in which the elements are chosen does not matter.
LEMMA SumInAnyOrder ==
    ASSUME NEW S, IsFiniteSet(S), NEW f, IntValued(f, S),
           NEW g, IsSum(g, f, S), NEW s \in SUBSET S, NEW x \in s
    PROVE  g[s] = f[x] + g[s \ {x}]
<1> DEFINE AnyOrder(t) == \A y \in t : g[t] = f[y] + g[t \ {y}]
           Upto(n) == \A t \in SUBSET S : Cardinality(t) <= n => AnyOrder(t)
           P == {n \in Nat : Upto(n)}
<1>1. \A t \in SUBSET S : g[t] = SumStep(g, f, t) /\ g[t] \in Int
  BY SumFunctionIsTyped DEF IsSum
<1>2. 0 \in P
  <2>1. \A t \in SUBSET S : Cardinality(t) <= 0 => t = {}
    <3> TAKE t \in SUBSET S
    <3> QED
      BY FS_Subset, FS_CardinalityType, FS_EmptySet
  <2> QED
    BY <2>1
<1>3. \A n \in P : n + 1 \in P
  <2>1. ASSUME NEW n \in Nat, Upto(n)
        PROVE  Upto(n + 1)
    <3> SUFFICES ASSUME NEW t \in SUBSET S, Cardinality(t) <= n + 1, NEW y \in t
                 PROVE  g[t] = f[y] + g[t \ {y}]
      OBVIOUS
    <3> DEFINE c == Chosen(t)
    <3>1. c \in t
      BY DEF Chosen
    <3>2. g[t] = f[c] + g[t \ {c}]
      BY <1>1 DEF SumStep
    <3>3. CASE y = c
      BY <3>2, <3>3
    <3>4. CASE y # c
      <4> HIDE DEF c
      <4>1. /\ t \ {c} \in SUBSET S /\ Cardinality(t \ {c}) <= n /\ y \in t \ {c}
            /\ t \ {y} \in SUBSET S /\ Cardinality(t \ {y}) <= n /\ c \in t \ {y}
        BY <3>1, <3>4, WithoutChosen
      <4> DEFINE rest == (t \ {c}) \ {y}
      <4>2. rest = (t \ {y}) \ {c} /\ rest \in SUBSET S
        OBVIOUS
      <4>3. /\ g[t \ {c}] = f[y] + g[rest]
            /\ g[t \ {y}] = f[c] + g[(t \ {y}) \ {c}]
        BY <2>1, <4>1
      <4>4. g[t \ {y}] = f[c] + g[rest]
        BY <4>2, <4>3
      <4>5. g[rest] \in Int /\ f[c] \in Int /\ f[y] \in Int
        BY <1>1, <3>1, <4>2 DEF IntValued
      <4>6. \A i, j, k \in Int : i + (j + k) = j + (i + k)
        OBVIOUS
      <4>7. f[c] + (f[y] + g[rest]) = f[y] + (f[c] + g[rest])
        BY <4>5, <4>6
      <4>8. g[t] = f[c] + (f[y] + g[rest])
        BY <3>2, <4>3
      <4> HIDE DEF Upto, rest
      <4> QED
        BY <4>4, <4>7, <4>8
    <3> QED
      BY <3>3, <3>4
  <2> HIDE DEF Upto
  <2> QED
    BY <2>1
<1>4. P = Nat
  <2> HIDE DEF P
  <2>1. P \in SUBSET Nat
    BY DEF P
  <2> QED
    BY <1>2, <1>3, <2>1, NaturalInduction
<1>5. Cardinality(s) \in Nat
  BY FS_Subset, FS_CardinalityType
<1>6. Upto(Cardinality(s))
  BY <1>4, <1>5
<1>7. AnyOrder(s)
  BY <1>5, <1>6
<1> QED
  BY <1>7

\* The sum depends on nothing but the values of the elements, under whatever
\* names they are summed up: b renames the elements of S.
LEMMA SumFunctionRenamed ==
    ASSUME NEW S, IsFiniteSet(S), NEW e, IntValued(e, S),
           NEW T, IsFiniteSet(T), NEW f, IntValued(f, T),
           NEW b, \A x \in S : b[x] \in T /\ e[x] = f[b[x]],
           \A x1, x2 \in S : b[x1] = b[x2] => x1 = x2,
           NEW g, IsSum(g, e, S), NEW h, IsSum(h, f, T)
    PROVE  \A s \in SUBSET S : g[s] = h[{b[x] : x \in s}]
<1> DEFINE Image(s) == {b[x] : x \in s}
           Upto(n) == \A s \in SUBSET S : Cardinality(s) <= n => g[s] = h[Image(s)]
           P == {n \in Nat : Upto(n)}
<1>1. 0 \in P
  <2>1. \A s \in SUBSET S : Cardinality(s) <= 0 => s = {}
    <3> TAKE s \in SUBSET S
    <3> QED
      BY FS_Subset, FS_CardinalityType, FS_EmptySet
  <2>2. g[{}] = 0 /\ h[{}] = 0
    BY DEF IsSum, SumStep
  <2> QED
    BY <2>1, <2>2
<1>2. \A n \in P : n + 1 \in P
  <2>1. ASSUME NEW n \in Nat, Upto(n)
        PROVE  Upto(n + 1)
    <3> SUFFICES ASSUME NEW s \in SUBSET S, Cardinality(s) <= n + 1
                 PROVE  g[s] = h[Image(s)]
      OBVIOUS
    <3>1. CASE s = {}
      <4>1. Image(s) = {} /\ g[{}] = 0 /\ h[{}] = 0
        BY <3>1 DEF IsSum, SumStep
      <4> QED
        BY <3>1, <4>1
    <3>2. CASE s # {}
      <4>1. PICK x : x \in s
        BY <3>2
      <4>2. s \ {x} \in SUBSET S /\ Cardinality(s \ {x}) <= n
        BY <4>1, WithoutChosen
      <4>3. g[s \ {x}] = h[Image(s \ {x})]
        BY <2>1, <4>2
      <4>4. Image(s) \in SUBSET T /\ b[x] \in Image(s) /\ Image(s \ {x}) = Image(s) \ {b[x]}
        BY <4>1
      <4>5. g[s] = e[x] + g[s \ {x}]
        BY <4>1, SumInAnyOrder
      <4>6. ASSUME NEW t \in SUBSET T, NEW y \in t
            PROVE  h[t] = f[y] + h[t \ {y}]
        BY SumInAnyOrder
      <4> HIDE DEF Image
      <4>7. h[Image(s)] = f[b[x]] + h[Image(s) \ {b[x]}]
        BY <4>4, <4>6
      <4>8. e[x] = f[b[x]]
        BY <4>1
      <4> QED
        BY <4>3, <4>4, <4>5, <4>7, <4>8
    <3> QED
      BY <3>1, <3>2
  <2> HIDE DEF Upto
  <2> QED
    BY <2>1
<1>3. P = Nat
  <2> HIDE DEF P
  <2>1. P \in SUBSET Nat
    BY DEF P
  <2> QED
    BY <1>1, <1>2, <2>1, NaturalInduction
<1> SUFFICES ASSUME NEW s \in SUBSET S PROVE g[s] = h[Image(s)]
  OBVIOUS
<1>4. Cardinality(s) \in Nat
  BY FS_Subset, FS_CardinalityType
<1>5. Upto(Cardinality(s))
  BY <1>3, <1>4
<1> QED
  BY <1>4, <1>5

-----------------------------------------------------------------------------
(* The sums of the community modules.                                      *)

\* The fold is defined by such a function.
LEMMA FoldIsSum ==
    ASSUME NEW S, IsFiniteSet(S), NEW f
    PROVE  \E g : IsSum(g, f, S) /\ SumFunctionOnSet(f, S) = g[S]
<1> DEFINE g == CHOOSE g : IsSum(g, f, S)
<1>1. IsSum(g, f, S)
  BY SumExists
<1>2. SumFunctionOnSet(f, S) = g[S]
  BY DEF SumFunctionOnSet, FoldFunctionOnSet, MapThenFoldSet, IsSum, SumStep, Chosen
<1> QED
  BY <1>1, <1>2

\* All such functions agree.
LEMMA SumIsUnique ==
    ASSUME NEW S, IsFiniteSet(S), NEW f, IntValued(f, S),
           NEW g, IsSum(g, f, S), NEW h, IsSum(h, f, S)
    PROVE  g[S] = h[S]
<1> DEFINE b == [x \in S |-> x]
<1>1. /\ \A x \in S : b[x] \in S /\ f[x] = f[b[x]]
      /\ \A x1, x2 \in S : b[x1] = b[x2] => x1 = x2
      /\ S = {b[x] : x \in S}
  OBVIOUS
<1> HIDE DEF b
<1>2. \A s \in SUBSET S : g[s] = h[{b[x] : x \in s}]
  BY <1>1, SumFunctionRenamed
<1> QED
  BY <1>1, <1>2

\* A sum of integers is an integer, and that of none is 0.
LEMMA SumIsInteger ==
    ASSUME NEW S, IsFiniteSet(S), NEW f, IntValued(f, S)
    PROVE  /\ SumFunctionOnSet(f, S) \in Int
           /\ S = {} => SumFunctionOnSet(f, S) = 0
<1>1. PICK g : IsSum(g, f, S) /\ SumFunctionOnSet(f, S) = g[S]
  BY FoldIsSum
<1>2. g[S] \in Int
  BY <1>1, SumFunctionIsTyped
<1>3. g[{}] = 0
  BY <1>1 DEF IsSum, SumStep
<1> QED
  BY <1>1, <1>2, <1>3

\* The same values have the same sum, whatever their names.
LEMMA SumRenamed ==
    ASSUME NEW S, IsFiniteSet(S), NEW e, IntValued(e, S),
           NEW T, IsFiniteSet(T), NEW f, IntValued(f, T),
           NEW b, \A x \in S : b[x] \in T /\ e[x] = f[b[x]],
           \A x1, x2 \in S : b[x1] = b[x2] => x1 = x2,
           T = {b[x] : x \in S}
    PROVE  SumFunctionOnSet(e, S) = SumFunctionOnSet(f, T)
<1>1. PICK g : IsSum(g, e, S) /\ SumFunctionOnSet(e, S) = g[S]
  BY FoldIsSum
<1>2. PICK h : IsSum(h, f, T) /\ SumFunctionOnSet(f, T) = h[T]
  BY FoldIsSum
<1>3. \A s \in SUBSET S : g[s] = h[{b[x] : x \in s}]
  BY <1>1, <1>2, SumFunctionRenamed
<1> QED
  BY <1>1, <1>2, <1>3

\* The sum depends on the values in the set only.
LEMMA SumOfEqualValues ==
    ASSUME NEW S, IsFiniteSet(S), NEW e, IntValued(e, S), NEW f, \A x \in S : e[x] = f[x]
    PROVE  SumFunctionOnSet(e, S) = SumFunctionOnSet(f, S)
<1> DEFINE b == [x \in S |-> x]
<1>1. IntValued(f, S)
  BY DEF IntValued
<1>2. /\ \A x \in S : b[x] \in S /\ e[x] = f[b[x]]
      /\ \A x1, x2 \in S : b[x1] = b[x2] => x1 = x2
      /\ S = {b[x] : x \in S}
  OBVIOUS
<1> HIDE DEF b
<1> QED
  BY <1>1, <1>2, SumRenamed

\* One element more or less.
LEMMA SumWithout ==
    ASSUME NEW S, IsFiniteSet(S), NEW f, IntValued(f, S), NEW x \in S
    PROVE  /\ SumFunctionOnSet(f, S) = f[x] + SumFunctionOnSet(f, S \ {x})
           /\ SumFunctionOnSet(f, S \ {x}) \in Int
<1> DEFINE T == S \ {x}
           b == [y \in T |-> y]
<1>1. IsFiniteSet(T) /\ IntValued(f, T)
  BY FS_RemoveElement DEF IntValued
<1>2. PICK g : IsSum(g, f, S) /\ SumFunctionOnSet(f, S) = g[S]
  BY FoldIsSum
<1>3. PICK h : IsSum(h, f, T) /\ SumFunctionOnSet(f, T) = h[T]
  BY <1>1, FoldIsSum
<1>4. h[T] = g[{b[y] : y \in T}]
  <2>1. /\ \A y \in T : b[y] \in S /\ f[y] = f[b[y]]
        /\ \A y1, y2 \in T : b[y1] = b[y2] => y1 = y2
    OBVIOUS
  <2> HIDE DEF b, T
  <2>2. \A t \in SUBSET T : h[t] = g[{b[y] : y \in t}]
    BY <1>1, <1>2, <1>3, <2>1, SumFunctionRenamed
  <2> QED
    BY <2>2
<1>5. {b[y] : y \in T} = T
  OBVIOUS
<1>6. g[S] = f[x] + g[S \ {x}]
  BY <1>2, SumInAnyOrder
<1> HIDE DEF b
<1>7. SumFunctionOnSet(f, T) = g[S \ {x}]
  BY <1>3, <1>4, <1>5
<1> QED
  BY <1>1, <1>2, <1>6, <1>7, SumIsInteger

\* A sum of naturals is a natural, none of which is larger.
LEMMA SumOfNaturals ==
    ASSUME NEW S, IsFiniteSet(S), NEW f, \A x \in S : f[x] \in Nat
    PROVE  /\ SumFunctionOnSet(f, S) \in Nat
           /\ \A x \in S : f[x] <= SumFunctionOnSet(f, S)
<1>1. IntValued(f, S)
  BY DEF IntValued
<1> DEFINE P == {n \in Nat : \A s \in SUBSET S : Cardinality(s) <= n =>
                                 SumFunctionOnSet(f, s) \in Nat}
<1>2. \A s \in SUBSET S : IsFiniteSet(s) /\ Cardinality(s) \in Nat /\ IntValued(f, s)
  BY <1>1, FS_Subset, FS_CardinalityType DEF IntValued
<1>3. 0 \in P
  <2>1. \A s \in SUBSET S : Cardinality(s) <= 0 => s = {}
    BY <1>2, FS_EmptySet
  <2>2. SumFunctionOnSet(f, {}) = 0
    BY <1>2, SumIsInteger
  <2> QED
    BY <2>1, <2>2
<1>4. \A n \in P : n + 1 \in P
  <2> SUFFICES ASSUME NEW n \in P, NEW s \in SUBSET S, Cardinality(s) <= n + 1
               PROVE  SumFunctionOnSet(f, s) \in Nat
    OBVIOUS
  <2>1. CASE s = {}
    BY <1>2, <2>1, SumIsInteger
  <2>2. ASSUME NEW x \in s
        PROVE  SumFunctionOnSet(f, s) \in Nat
    <3>1. s \ {x} \in SUBSET S /\ Cardinality(s \ {x}) <= n
      BY <2>2, WithoutChosen
    <3>2. SumFunctionOnSet(f, s \ {x}) \in Nat /\ f[x] \in Nat
      BY <3>1
    <3>3. SumFunctionOnSet(f, s) = f[x] + SumFunctionOnSet(f, s \ {x})
      BY <1>2, SumWithout
    <3> QED
      BY <3>2, <3>3
  <2> QED
    BY <2>1, <2>2
<1>5. P = Nat
  <2> HIDE DEF P
  <2>1. P \in SUBSET Nat
    BY DEF P
  <2> QED
    BY <1>3, <1>4, <2>1, NaturalInduction
<1>6. \A s \in SUBSET S : SumFunctionOnSet(f, s) \in Nat
  <2> TAKE s \in SUBSET S
  <2>1. Cardinality(s) \in P
    BY <1>2, <1>5
  <2> QED
    BY <1>2, <2>1
<1>7. ASSUME NEW x \in S
      PROVE  f[x] <= SumFunctionOnSet(f, S)
  <2>1. SumFunctionOnSet(f, S) = f[x] + SumFunctionOnSet(f, S \ {x})
    BY <1>1, SumWithout
  <2>2. SumFunctionOnSet(f, S \ {x}) \in Nat /\ f[x] \in Nat
    BY <1>6
  <2> QED
    BY <2>1, <2>2
<1> QED
  BY <1>6, <1>7

=============================================================================
