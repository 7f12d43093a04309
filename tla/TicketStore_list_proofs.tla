---------------------- MODULE TicketStore_list_proofs -----------------------
(***************************************************************************)
(* Theorems about the lists of TicketStore, as printForward and            *)
(* printBackward walk them.                                                *)
(***************************************************************************)
EXTENDS TicketStore_proofs

-----------------------------------------------------------------------------
(* Walk.                                                                   *)

\* walk of the operator Walk is such a function.
WalkStep(g, link, n) ==
    [t \in Nat |->
        IF t \notin Tickets \/ n = 0
        THEN <<>>
        ELSE <<t>> \o g[n - 1][mem.ticket[t][link]]]

IsWalk(g, link) == g = [n \in 0..(MaxTickets + 1) |-> WalkStep(g, link, n)]

\* There is one: the recursion goes down to 0.
LEMMA WalkExists ==
    ASSUME NEW link
    PROVE  \E g : IsWalk(g, link)
<1> DEFINE Upto(g, n) == \A k \in 0..n : g[k] = WalkStep(g, link, k)
           P == {n \in Nat : \E g : Upto(g, n)}
<1>1. 0 \in P
  <2> DEFINE g == [k \in {0} |-> [t \in Nat |-> <<>>]]
  <2>1. g[0] = WalkStep(g, link, 0)
    BY DEF WalkStep
  <2> HIDE DEF g
  <2> QED
    BY <2>1
<1>2. \A n \in P : n + 1 \in P
  <2> SUFFICES ASSUME NEW n \in Nat, NEW g, Upto(g, n)
               PROVE  \E h : Upto(h, n + 1)
    OBVIOUS
  <2> DEFINE h == [k \in 0..(n + 1) |-> WalkStep(g, link, k)]
  <2>1. ASSUME NEW k \in 0..(n + 1)
        PROVE  h[k] = WalkStep(h, link, k)
    <3>1. CASE k = 0
      BY <3>1 DEF WalkStep
    <3>2. CASE k # 0
      <4>1. k - 1 \in 0..n /\ k - 1 \in 0..(n + 1)
        BY <3>2
      <4>2. h[k - 1] = g[k - 1] /\ h[k] = WalkStep(g, link, k)
        BY <4>1
      <4> HIDE DEF h
      <4> QED
        BY <3>2, <4>2 DEF WalkStep
    <3> QED
      BY <3>1, <3>2
  <2> HIDE DEF h
  <2> QED
    BY <2>1
<1>3. P = Nat
  <2> HIDE DEF P
  <2>1. P \in SUBSET Nat
    BY DEF P
  <2> QED
    BY <1>1, <1>2, <2>1, NaturalInduction
<1>4. MaxTickets + 1 \in P
  <2> HIDE DEF P
  <2> QED
    BY <1>3, MaxTicketsIsNatural
<1>5. PICK g : Upto(g, MaxTickets + 1)
  BY <1>4
<1> DEFINE N == 0..(MaxTickets + 1)
           h == [n \in N |-> g[n]]
<1>6. \A n \in N : WalkStep(h, link, n) = WalkStep(g, link, n)
  <2> TAKE n \in N
  <2>1. CASE n # 0
    <3>1. n - 1 \in N
      BY <2>1, MaxTicketsIsNatural
    <3>2. h[n - 1] = g[n - 1]
      BY <3>1
    <3> HIDE DEF h
    <3> QED
      BY <2>1, <3>2 DEF WalkStep
  <2>2. CASE n = 0
    BY <2>2 DEF WalkStep
  <2> QED
    BY <2>1, <2>2
<1>7. IsWalk(h, link)
  <2>1. \A n \in N : h[n] = WalkStep(h, link, n)
    BY <1>5, <1>6
  <2>2. h = [n \in N |-> h[n]]
    OBVIOUS
  <2> HIDE DEF h
  <2> QED
    BY <2>1, <2>2 DEF IsWalk
<1> QED
  BY <1>7

\* The recursion is such a walk.
LEMMA WalkIsOne ==
    ASSUME NEW first, NEW link
    PROVE  \E g : IsWalk(g, link) /\ Walk(first, link) = g[MaxTickets + 1][first]
<1> DEFINE g == CHOOSE h : IsWalk(h, link)
<1>1. IsWalk(g, link)
  BY WalkExists
<1>2. Walk(first, link) = g[MaxTickets + 1][first]
  BY DEF Walk, IsWalk, WalkStep
<1> QED
  BY <1>1, <1>2

\* A walk along a list is the list, whichever way it is linked.
LEMMA WalkFollowsList ==
    ASSUME NEW link, NEW first, NEW s \in Seq(Tickets), Null \notin Tickets, Tickets \subseteq Nat,
           Len(s) <= MaxTickets,
           first = IF Len(s) = 0 THEN Null ELSE s[1],
           \A i \in 1..Len(s) :
              mem.ticket[s[i]][link] = IF i = Len(s) THEN Null ELSE s[i + 1]
    PROVE  Walk(first, link) = s
<1> DEFINE M == MaxTickets + 1
           L == Len(s)
           Rest(i) == [j \in 1..(L - i + 1) |-> s[i + j - 1]]
<1>1. PICK g : IsWalk(g, link) /\ Walk(first, link) = g[M][first]
  BY WalkIsOne
<1>2. /\ L \in Nat /\ M \in Nat /\ L < M
      /\ \A i \in 1..L : s[i] \in Tickets /\ s[i] \in Nat
  <2>1. L \in Nat /\ \A i \in 1..L : s[i] \in Tickets
    OBVIOUS
  <2>2. M \in Nat /\ L < M
    BY <2>1, MaxTicketsIsNatural
  <2> QED
    BY <2>1, <2>2
<1> HIDE DEF M
<1>3. /\ \A n \in 0..M : g[n][Null] = <<>>
      /\ \A n \in 0..M, t \in Tickets :
            n # 0 => g[n][t] = <<t>> \o g[n - 1][mem.ticket[t][link]]
  <2>1. \A n \in 0..M : g[n] = WalkStep(g, link, n)
    BY <1>1 DEF IsWalk, M
  <2>2. Null \in Nat
    BY DEF Null
  <2>3. ASSUME NEW n \in 0..M
        PROVE  g[n][Null] = <<>>
    BY <2>1, <2>2 DEF WalkStep
  <2>4. ASSUME NEW n \in 0..M, NEW t \in Tickets, n # 0
        PROVE  g[n][t] = <<t>> \o g[n - 1][mem.ticket[t][link]]
    <3>1. t \in Nat
      OBVIOUS
    <3> QED
      BY <2>1, <2>4, <3>1 DEF WalkStep
  <2> QED
    BY <2>3, <2>4
<1>4. \A i \in 1..L : Rest(i) \in Seq(Tickets) /\ Len(Rest(i)) = L - i + 1
  <2> SUFFICES ASSUME NEW i \in 1..L
               PROVE  Rest(i) \in Seq(Tickets) /\ Len(Rest(i)) = L - i + 1
    OBVIOUS
  <2>1. L - i + 1 \in Nat /\ \A j \in 1..(L - i + 1) : i + j - 1 \in 1..L
    BY <1>2
  <2> DEFINE n == L - i + 1
             r == Rest(i)
  <2>2. r \in [1..n -> Tickets]
    BY <1>2, <2>1
  <2>3. n \in Nat
    BY <2>1
  <2> HIDE DEF n, r
  <2>4. r \in Seq(Tickets)
    BY <2>2, <2>3, SeqDef
  <2>5. Len(r) = n
    BY <2>2, <2>3, <2>4, LenProperties
  <2> QED
    BY <2>4, <2>5 DEF n, r
<1>5. \A i \in 1..L : i # L => <<s[i]>> \o Rest(i + 1) = Rest(i)
  <2> SUFFICES ASSUME NEW i \in 1..L, i # L
               PROVE  <<s[i]>> \o Rest(i + 1) = Rest(i)
    OBVIOUS
  <2> DEFINE a == <<s[i]>>
             b == Rest(i + 1)
  <2>1. a \in Seq(Tickets) /\ Len(a) = 1 /\ a[1] = s[i]
    BY <1>2
  <2>2. i + 1 \in 1..L
    BY <1>2
  <2>3. b \in Seq(Tickets) /\ Len(b) = L - i
    BY <1>2, <1>4, <2>2
  <2>4. \A j \in 1..(L - i) : b[j] = s[i + j]
    BY <1>2
  <2> HIDE DEF a, b, L
  <2>5. /\ a \o b \in Seq(Tickets) /\ Len(a \o b) = 1 + (L - i)
        /\ \A j \in 1..(1 + (L - i)) : (a \o b)[j] = IF j <= 1 THEN a[j] ELSE b[j - 1]
    <3>1. /\ a \o b \in Seq(Tickets) /\ Len(a \o b) = Len(a) + Len(b)
          /\ \A j \in 1..(Len(a) + Len(b)) :
                (a \o b)[j] = IF j <= Len(a) THEN a[j] ELSE b[j - Len(a)]
      BY <2>1, <2>3, ConcatProperties
    <3> QED
      BY <2>1, <2>3, <3>1
  <2>6. a \o b = [j \in 1..(1 + (L - i)) |-> (a \o b)[j]]
    <3> DEFINE c == a \o b
    <3>1. c \in Seq(Tickets) /\ Len(c) = 1 + (L - i)
      BY <2>5
    <3> HIDE DEF c
    <3>2. c = [j \in 1..Len(c) |-> c[j]]
      BY <3>1
    <3> QED
      BY <3>1, <3>2 DEF c
  <2>7. \A j \in 1..(1 + (L - i)) : (a \o b)[j] = s[i + j - 1]
    <3> TAKE j \in 1..(1 + (L - i))
    <3>1. CASE j = 1
      BY <1>2, <2>1, <2>5, <3>1
    <3>2. CASE j # 1
      <4>1. j - 1 \in 1..(L - i) /\ i + (j - 1) = i + j - 1 /\ ~(j <= 1)
        BY <1>2, <3>2
      <4> QED
        BY <2>4, <2>5, <4>1
    <3> QED
      BY <3>1, <3>2
  <2>8. 1 + (L - i) = L - i + 1
    BY <1>2
  <2> QED
    BY <2>6, <2>7, <2>8 DEF a, b
<1> DEFINE Follows(n) == n <= M => \A i \in 1..L : L - i < n => g[n][s[i]] = Rest(i)
           P == {n \in Nat : Follows(n)}
<1>6. 0 \in P
  BY <1>2
<1>7. \A n \in P : n + 1 \in P
  <2> HIDE DEF Follows, Rest, L
  <2> SUFFICES ASSUME NEW n \in Nat, Follows(n)
               PROVE  Follows(n + 1)
    OBVIOUS
  <2> USE DEF Follows
  <2> SUFFICES ASSUME n + 1 <= M, NEW i \in 1..L, L - i < n + 1
               PROVE  g[n + 1][s[i]] = Rest(i)
    OBVIOUS
  <2> USE DEF Rest, L
  <2>1. n \in 0..M /\ n + 1 \in 0..M /\ n + 1 # 0 /\ (n + 1) - 1 = n
    BY <1>2
  <2>2. g[n + 1][s[i]] = <<s[i]>> \o g[n][mem.ticket[s[i]][link]]
    <3>1. g[n + 1][s[i]] = <<s[i]>> \o g[(n + 1) - 1][mem.ticket[s[i]][link]]
      BY <1>2, <1>3, <2>1
    <3> QED
      BY <2>1, <3>1
  <2>3. CASE i = L
    <3>1. g[n][mem.ticket[s[i]][link]] = <<>>
      BY <1>3, <2>1, <2>3
    <3>2. <<s[i]>> \o <<>> = <<s[i]>>
      BY <1>2
    <3>3. Rest(i) = <<s[i]>>
      BY <1>2, <2>3
    <3> QED
      BY <2>2, <3>1, <3>2, <3>3
  <2>4. CASE i # L
    <3>1. i + 1 \in 1..L /\ L - (i + 1) < n /\ n <= M
      BY <1>2, <2>1, <2>4
    <3>2. g[n][s[i + 1]] = Rest(i + 1)
      BY <3>1
    <3>3. mem.ticket[s[i]][link] = s[i + 1]
      BY <2>4
    <3> HIDE DEF Rest
    <3> QED
      BY <1>5, <2>2, <2>4, <3>2, <3>3
  <2> QED
    BY <2>3, <2>4
<1>8. M \in P
  <2> HIDE DEF P
  <2>1. P \in SUBSET Nat
    BY DEF P
  <2> QED
    BY <1>2, <1>6, <1>7, <2>1, NaturalInduction
<1>9. CASE L = 0
  <2>1. g[M][first] = <<>>
    BY <1>2, <1>3, <1>9
  <2> QED
    BY <1>1, <1>9, <2>1, EmptySeq
<1>10. CASE L # 0
  <2>1. 1 \in 1..L /\ L - 1 < M
    BY <1>2, <1>10
  <2>2. g[M][s[1]] = Rest(1)
    BY <1>2, <1>8, <2>1
  <2>3. Rest(1) = s
    <3>1. s = [j \in 1..L |-> s[j]]
      OBVIOUS
    <3> QED
      BY <1>2, <3>1
  <2> QED
    BY <1>1, <1>10, <2>2, <2>3
<1> QED
  BY <1>9, <1>10

-----------------------------------------------------------------------------
(* Lists are no longer than there are tickets.                             *)

Bounded == IsFiniteSet(Tickets) /\ Cardinality(Tickets) <= MaxTickets

\* Only submit adds a ticket, and only while there is room.
LEMMA TicketsAreFew == Spec => []Bounded
<1>1. Init => Bounded
  <2> SUFFICES ASSUME Init PROVE Bounded
    OBVIOUS
  <2>1. Tickets = {}
    BY DEF Init, Tickets
  <2> QED
    BY <2>1, FS_EmptySet, MaxTicketsIsNatural DEF Bounded
<1>2. SInv /\ Bounded /\ [Next]_vars => Bounded'
  <2> SUFFICES ASSUME SInv, Bounded, [Next]_vars PROVE Bounded'
    OBVIOUS
  <2>1. ASSUME Tickets' \subseteq Tickets
        PROVE  Bounded'
    <3>1. IsFiniteSet(Tickets') /\ Cardinality(Tickets') <= Cardinality(Tickets)
      BY <2>1, FS_Subset DEF Bounded
    <3>2. Cardinality(Tickets) \in Nat /\ Cardinality(Tickets') \in Nat
      BY <3>1, FS_CardinalityType DEF Bounded
    <3> QED
      BY <3>1, <3>2, MaxTicketsIsNatural DEF Bounded
  <2>2. ASSUME NEW id \in Ids, NEW shares \in Quantities, NEW key \in Keys,
               submit(id, shares, key)
        PROVE  Bounded'
    <3>1. Cardinality(Tickets) < MaxTickets /\ \E t : Tickets' = Tickets \cup {t}
      BY <2>2, SubmitKeepsStore
    <3>2. PICK t : Tickets' = Tickets \cup {t}
      BY <3>1
    <3>3. /\ IsFiniteSet(Tickets')
          /\ Cardinality(Tickets')
                = IF t \in Tickets THEN Cardinality(Tickets) ELSE Cardinality(Tickets) + 1
      BY <3>2, FS_AddElement DEF Bounded
    <3>4. Cardinality(Tickets) \in Nat
      BY FS_CardinalityType DEF Bounded
    <3> QED
      BY <3>1, <3>3, <3>4, MaxTicketsIsNatural DEF Bounded
  <2>3. CASE Client
    BY <2>1, <2>2, <2>3, CancelTicketKeepsStore, ModifyTicketKeepsStore DEF Client
  <2>4. CASE Matching
    BY <2>1, <2>4, ExecuteHeadKeepsStore, PartiallyFillKeepsStore DEF Matching
  <2>5. CASE Converting
    <3>1. CASE \E key \in StopKeys \cap DOMAIN mem.levelMap : TriggerStopLimit(key)
      BY <2>1, <3>1, TriggerKeepsStore
    <3>2. CASE ConvertedIsFilled
      BY <2>1, <3>2, FilledKeepsStore
    <3>3. CASE \E key \in LimitKeys, shares \in Quantities : ConvertedRests(key, shares)
      BY <2>1, <3>3, RestsKeepsStore
    <3> QED
      BY <2>5, <3>1, <3>2, <3>3 DEF Converting
  <2>6. CASE UNCHANGED vars
    BY <2>1, <2>6 DEF vars, Tickets
  <2> QED
    BY <2>3, <2>4, <2>5, <2>6 DEF Next
<1> QED
  BY <1>1, <1>2, StoreInvariant, PTL DEF Spec

\* A sequence without repetitions is no longer than the set it is over is large.
LEMMA ListIsShort ==
    ASSUME Bounded, NEW s \in Seq(Tickets), \A i, j \in 1..Len(s) : s[i] = s[j] => i = j
    PROVE  Len(s) <= MaxTickets
<1>1. Len(s) \in Nat /\ s \in [1..Len(s) -> Tickets]
  OBVIOUS
<1>2. s \in Injection(1..Len(s), Tickets)
  BY <1>1 DEF Injection, IsInjective
<1>3. Cardinality(1..Len(s)) <= Cardinality(Tickets)
  BY <1>2, FS_Injection DEF Bounded
<1>4. Cardinality(1..Len(s)) = Len(s)
  BY <1>1, FS_Interval
<1>5. Cardinality(Tickets) \in Nat
  BY FS_CardinalityType DEF Bounded
<1> QED
  BY <1>1, <1>3, <1>4, <1>5, MaxTicketsIsNatural DEF Bounded

\* Read forward a list is what the invariant says it is, read backward it is
\* the reverse.
LEMMA WalksAreLists ==
    ASSUME NEW q, Store(mem, q, Out), Bounded, NEW l \in Levels
    PROVE  /\ q[l] \in Seq(Tickets \ Out)
           /\ Forward(l) = q[l]
           /\ Backward(l) = Reverse(q[l])
<1> DEFINE s == q[l]
           n == Len(s)
           b == Reverse(s)
<1>1. IsList(mem, l, s, Tickets \ Out)
  BY DEF Store, Linked, Levels, Tickets
<1>2. Tickets \subseteq Nat /\ Null \notin Tickets
  BY ObjectsAreCells DEF Store, Accounted, Null, Tickets
<1>3. s \in Seq(Tickets \ Out) /\ \A i, j \in 1..n : s[i] = s[j] => i = j
  BY <1>1 DEF IsList
<1>4. n \in Nat /\ s \in Seq(Tickets) /\ \A i \in 1..n : s[i] \in Tickets
  <2>1. Tickets \ Out \subseteq Tickets
    OBVIOUS
  <2>2. n \in Nat /\ \A i \in 1..n : s[i] \in Tickets \ Out
    BY <1>3
  <2> QED
    BY <1>3, <2>1, <2>2, SeqMonotonic
<1>5. n <= MaxTickets
  BY <1>3, <1>4, ListIsShort
<1>6. Forward(l) = s
  <2>1. /\ mem.level[l].headOrder = IF n = 0 THEN Null ELSE s[1]
        /\ \A i \in 1..n :
              mem.ticket[s[i]].nextOrder = IF i = n THEN Null ELSE s[i + 1]
    BY <1>1 DEF IsList
  <2>2. \A i \in 1..n :
           mem.ticket[s[i]]["nextOrder"] = IF i = n THEN Null ELSE s[i + 1]
    BY <2>1
  <2> HIDE DEF s
  <2> QED
    BY <1>2, <1>4, <1>5, <2>1, <2>2, WalkFollowsList DEF Forward
<1>7. Backward(l) = b
  <2>1. /\ mem.level[l].tailOrder = IF n = 0 THEN Null ELSE s[n]
        /\ \A i \in 1..n :
              mem.ticket[s[i]]["prevOrder"] = IF i = 1 THEN Null ELSE s[i - 1]
    BY <1>1 DEF IsList
  <2> HIDE DEF s
  <2>2. b \in Seq(Tickets) /\ Len(b) = n /\ \A i \in 1..n : b[i] = s[n - i + 1]
    BY <1>4 DEF Reverse
  <2> HIDE DEF b, n
  <2>3. mem.level[l].tailOrder = IF n = 0 THEN Null ELSE b[1]
    BY <1>4, <2>1, <2>2
  <2>4. ASSUME NEW i \in 1..n
        PROVE  mem.ticket[b[i]]["prevOrder"] = IF i = n THEN Null ELSE b[i + 1]
    <3>1. n - i + 1 \in 1..n /\ b[i] = s[n - i + 1] /\ (i = n <=> n - i + 1 = 1)
      BY <1>4, <2>2
    <3>2. i # n => b[i + 1] = s[(n - i + 1) - 1]
      <4>1. i # n => i + 1 \in 1..n /\ n - (i + 1) + 1 = (n - i + 1) - 1
        BY <1>4
      <4> QED
        BY <2>2, <4>1
    <3> QED
      BY <2>1, <3>1, <3>2
  <2> QED
    BY <1>2, <1>5, <2>2, <2>3, <2>4, WalkFollowsList, ZenonT(40) DEF Backward
<1> QED
  BY <1>3, <1>6, <1>7

-----------------------------------------------------------------------------
(* The shares of a list.                                                   *)

\* The sum of the shares of a set of tickets, as the property takes it, is that
\* of the function of all shares.
LEMMA SharesAreSummed ==
    ASSUME NEW S, IsFiniteSet(S), S \subseteq Tickets
    PROVE  MapThenSumSet(LAMBDA t : mem.ticket[t].quantity, S) = SumFunctionOnSet(Shares(mem), S)
<1> DEFINE f == Shares(mem)
           Step(g, s) == IF s = {} THEN 0
                         ELSE mem.ticket[Chosen(s)].quantity + g[s \ {Chosen(s)}]
           IsOne(g) == g = [s \in SUBSET S |-> Step(g, s)]
           h == CHOOSE g : IsOne(g)
<1>1. MapThenSumSet(LAMBDA t : mem.ticket[t].quantity, S) = h[S]
  BY DEF MapThenSumSet, MapThenFoldSet, Chosen
<1>2. SumFunctionOnSet(f, S) = (CHOOSE g : IsSum(g, f, S))[S]
  BY DEF SumFunctionOnSet, FoldFunctionOnSet, MapThenFoldSet, IsSum, SumStep, Chosen
<1>3. ASSUME NEW g
      PROVE  IsOne(g) <=> IsSum(g, f, S)
  <2>1. ASSUME NEW s \in SUBSET S
        PROVE  Step(g, s) = SumStep(g, f, s)
    <3>1. s # {} => Chosen(s) \in s
      BY DEF Chosen
    <3>2. \A t \in S : f[t] = mem.ticket[t].quantity
      BY DEF Shares, Tickets
    <3> HIDE DEF f
    <3> QED
      BY <3>1, <3>2 DEF SumStep
  <2> HIDE DEF Step, f
  <2>2. [s \in SUBSET S |-> Step(g, s)] = [s \in SUBSET S |-> SumStep(g, f, s)]
    BY <2>1
  <2> QED
    BY <2>2 DEF IsSum
<1> HIDE DEF IsOne, f
<1>4. h = CHOOSE g : IsSum(g, f, S)
  BY <1>3, Zenon
<1> QED
  BY <1>1, <1>2, <1>4 DEF f

-----------------------------------------------------------------------------
(* The theorems.                                                           *)

\* The list of a level read backward is the list read forward, size is its
\* length, and its tickets know their level.
THEOREM ListsReadBothWays == Spec => []ListsAreLinked
<1>1. SInv /\ Bounded => ListsAreLinked
  <2> SUFFICES ASSUME SInv, Bounded, NEW l \in Levels
               PROVE  /\ Backward(l) = Reverse(Forward(l))
                      /\ mem.level[l].size = Len(Forward(l))
                      /\ \A t \in Range(Forward(l)) : mem.ticket[t].parentLevel = l
    BY DEF ListsAreLinked
  <2>1. PICK q : Store(mem, q, Out)
    BY DEF SInv
  <2>2. /\ q[l] \in Seq(Tickets \ Out)
        /\ Forward(l) = q[l] /\ Backward(l) = Reverse(q[l])
    BY <2>1, WalksAreLists
  <2>3. /\ mem.level[l].size = Len(q[l])
        /\ \A i \in 1..Len(q[l]) : mem.ticket[q[l][i]].parentLevel = l
    BY <2>1 DEF Store, Linked, IsList, Levels
  <2>4. \A t \in Range(q[l]) : \E i \in 1..Len(q[l]) : q[l][i] = t
    BY <2>2 DEF Range
  <2> QED
    BY <2>2, <2>3, <2>4
<1> QED
  BY <1>1, StoreInvariant, TicketsAreFew, PTL

\* A ticket's cell is in a list, being converted or on the free list, and a
\* level's is in one of the maps or on the free list of its pool.
THEOREM NoCellIsLost == Spec => []CellsAreAccounted
<1>1. SInv /\ Bounded => CellsAreAccounted
  <2> SUFFICES ASSUME SInv, Bounded PROVE CellsAreAccounted
    OBVIOUS
  <2>1. PICK q : Store(mem, q, Out)
    BY DEF SInv
  <2>2. \A l \in Levels : q[l] \in Seq(Tickets \ Out) /\ Forward(l) = q[l]
    BY <2>1, WalksAreLists
  <2>3. Queued = Tickets \ Out
    <3>1. ASSUME NEW t \in Queued
          PROVE  t \in Tickets \ Out
      <4>1. PICK l \in Levels : t \in Range(Forward(l))
        BY DEF Queued
      <4>2. q[l] \in Seq(Tickets \ Out) /\ t \in Range(q[l])
        BY <2>2, <4>1
      <4>3. PICK i \in 1..Len(q[l]) : q[l][i] = t
        BY <4>2 DEF Range
      <4> QED
        BY <4>2, <4>3
    <3>2. ASSUME NEW t \in Tickets \ Out
          PROVE  t \in Queued
      <4> DEFINE l == mem.ticket[t].parentLevel
      <4>1. l \in Levels /\ \E i \in 1..Len(q[l]) : q[l][i] = t
        BY <2>1, TicketIsListed DEF Levels, Tickets
      <4> HIDE DEF l
      <4>2. Forward(l) = q[l] /\ DOMAIN q[l] = 1..Len(q[l])
        BY <2>2, <4>1
      <4>3. t \in Range(Forward(l))
        BY <4>1, <4>2 DEF Range
      <4> QED
        BY <4>1, <4>3 DEF Queued
    <3> QED
      BY <3>1, <3>2
  <2>4. Queued \cup ({converting} \ {Null}) = Tickets
    BY <2>3 DEF SInv, Out
  <2>5. Range(mem.levelMap) = Levels /\ IsInjective(mem.levelMap)
    <3>1. Indexed(mem)
      BY <2>1 DEF Store
    <3>2. Range(mem.levelMap) = Levels
      BY <3>1 DEF Indexed, Range, Levels
    <3>3. IsInjective(mem.levelMap)
      BY <3>1 DEF Indexed, IsInjective
    <3> QED
      BY <3>2, <3>3
  <2>6. Accounts(mem.orderPool, Tickets) /\ Accounts(mem.limitPool, Levels)
    BY <2>1 DEF Store, Accounted, ArenaOK, Tickets, Levels
  <2> QED
    BY <2>4, <2>5, <2>6 DEF CellsAreAccounted
<1> QED
  BY <1>1, StoreInvariant, TicketsAreFew, PTL

\* totalVolume is the sum of the shares of the tickets in the level's list,
\* however often the differences that append, cancel, execute and
\* partiallyFillOrder take in an int have overflowed on the way.
THEOREM VolumesWrap == Spec => []VolumeUpToWidth
<1>1. SInv /\ Bounded => VolumeUpToWidth
  <2> SUFFICES ASSUME SInv, Bounded, NEW l \in Levels
               PROVE  mem.level[l].totalVolume =
                         Wrap(MapThenSumSet(LAMBDA t : mem.ticket[t].quantity,
                                            Range(Forward(l))))
    BY DEF VolumeUpToWidth
  <2>1. PICK q : Store(mem, q, Out)
    BY DEF SInv
  <2>2. q[l] \in Seq(Tickets \ Out) /\ Forward(l) = q[l]
    BY <2>1, WalksAreLists
  <2>3. l \in DOMAIN mem.level /\ Linked(mem, q, Out) /\ Summed(mem, Out)
    BY <2>1 DEF Store, Levels
  <2>4. /\ Members(mem, Out, l) = {q[l][i] : i \in 1..Len(q[l])}
        /\ IsFiniteSet(Members(mem, Out, l))
    BY <2>3, MembersAreListed
  <2>5. Range(Forward(l)) = Members(mem, Out, l)
    <3>1. DOMAIN q[l] = 1..Len(q[l])
      BY <2>2
    <3> QED
      BY <2>2, <2>4, <3>1 DEF Range
  <2>6. Members(mem, Out, l) \subseteq Tickets
    BY DEF Members, Tickets
  <2>7. SharesOf(mem, Out, l)
           = MapThenSumSet(LAMBDA t : mem.ticket[t].quantity, Members(mem, Out, l))
    BY <2>4, <2>6, SharesAreSummed DEF SharesOf
  <2>8. mem.level[l].totalVolume = Wrap(SharesOf(mem, Out, l))
    BY <2>3 DEF Summed
  <2> QED
    BY <2>5, <2>7, <2>8
<1> QED
  BY <1>1, StoreInvariant, TicketsAreFew, PTL

-----------------------------------------------------------------------------
(* The refinement.                                                         *)

\* What the property reads off the pointers are the lines of the lists.
LinesAreLists == \A q : Store(mem, q, Out) => Lines = LinesOf(mem, q)

LEMMA LinesAreRead == SInv /\ Bounded => LinesAreLists
<1> SUFFICES ASSUME Bounded, NEW q, Store(mem, q, Out)
             PROVE  Lines = LinesOf(mem, q)
  BY DEF LinesAreLists
<1>1. ASSUME NEW key \in Keys, key \in DOMAIN mem.levelMap
      PROVE  LineOf[mem.levelMap[key]] = Entries(mem, q[mem.levelMap[key]])
  <2> DEFINE l == mem.levelMap[key]
  <2>1. l \in Levels
    BY <1>1 DEF Store, Indexed, Levels
  <2> HIDE DEF l
  <2>2. Forward(l) = q[l]
    BY <2>1, WalksAreLists
  <2>3. LineOf[l] = Entries(mem, q[l])
    BY <2>1, <2>2 DEF LineOf, Entries, Entry
  <2> QED
    BY <2>3 DEF l
<1>2. \A key \in Keys :
         (IF key \in DOMAIN mem.levelMap THEN LineOf[mem.levelMap[key]] ELSE <<>>)
            = (IF key \in DOMAIN mem.levelMap THEN Entries(mem, q[mem.levelMap[key]]) ELSE <<>>)
  BY <1>1
<1> QED
  BY <1>2 DEF Lines, LinesOf

\* Who is appended is the last one.
LEMMA LastAppended ==
    ASSUME NEW S, NEW s \in Seq(S), NEW e
    PROVE  Append(s, e) # <<>> /\ Last(Append(s, e)) = e
<1>1. s \in Seq(S \cup {e}) /\ e \in S \cup {e}
  BY SeqMonotonic
<1>2. Len(Append(s, e)) = Len(s) + 1 /\ Append(s, e)[Len(s) + 1] = e /\ Len(s) \in Nat
  BY <1>1
<1> QED
  BY <1>2 DEF Last

\* The steps of the lines are those of the queues without pointers.
LEMMA LineStepIsAllowed ==
    ASSUME NEW E, Lines \in [Keys -> Seq(E)],
           \A e \in E : e = [ticket |-> e.ticket, shares |-> e.shares],
           LineStep(Lines, Lines')
    PROVE  Queues!QueuesNext \/ Lines' = Lines
<1>0. /\ \A s, i : Queues!RemoveAt(s, i) = RemoveAt(s, i)
      /\ \A s : Queues!Last(s) = Last(s)
  BY DEF Queues!RemoveAt, RemoveAt, Queues!Last, Last
<1>1. CASE Joined(Lines, Lines')
  <2>0. PICK e : \E key \in Keys :
           /\ \A k \in Keys : \A i \in DOMAIN Lines[k] : Lines[k][i].ticket # e.ticket
           /\ Lines' = Longer(Lines, key, e)
    BY <1>1 DEF Joined
  <2>1. PICK key \in Keys :
           /\ \A k \in Keys : \A i \in DOMAIN Lines[k] : Lines[k][i].ticket # e.ticket
           /\ Lines' = Longer(Lines, key, e)
    BY <2>0
  <2>2. ~Queues!InLine(e.ticket)
    BY <2>1 DEF Queues!InLine
  <2>3. Lines'[key] = Append(Lines[key], e)
    BY <2>1 DEF Longer
  <2>4. Lines'[key] # <<>> /\ Last(Lines'[key]) = e
    BY <2>3, LastAppended
  <2>5. Queues!Join(key, e)
    BY <2>1, <2>2 DEF Queues!Join, Longer
  <2> QED
    BY <1>0, <2>4, <2>5 DEF Queues!QueuesNext
<1>2. CASE Moved(Lines, Lines')
  <2>0. PICK e : \E from, key \in Keys : \E i \in DOMAIN Lines[from] :
           /\ Lines[from][i].ticket = e.ticket
           /\ Lines' = Longer(Shorter(Lines, from, i), key, e)
    BY <1>2 DEF Moved
  <2>1. PICK from \in Keys, key \in Keys : \E i \in DOMAIN Lines[from] :
           /\ Lines[from][i].ticket = e.ticket
           /\ Lines' = Longer(Shorter(Lines, from, i), key, e)
    BY <2>0
  <2>2. PICK i \in DOMAIN Lines[from] :
           /\ Lines[from][i].ticket = e.ticket
           /\ Lines' = Longer(Shorter(Lines, from, i), key, e)
    BY <2>1
  <2> DEFINE between == Shorter(Lines, from, i)
  <2>3. between \in [Keys -> Seq(E)]
    <3>1. RemoveAt(Lines[from], i) \in Seq(E)
      <4>1. Lines[from] \in Seq(E) /\ i \in 1..Len(Lines[from])
        OBVIOUS
      <4> QED
        BY <4>1, RemoveAtProperties
    <3> QED
      BY <3>1 DEF Shorter
  <2> HIDE DEF between
  <2>4. Lines'[key] = Append(between[key], e)
    BY <2>2, <2>3 DEF Longer, between
  <2>5. Lines'[key] # <<>> /\ Last(Lines'[key]) = e
    BY <2>3, <2>4, LastAppended
  <2>6. Queues!Move(key, e)
    BY <1>0, <2>2 DEF Queues!Move, Queues!Without, Longer, Shorter
  <2> QED
    BY <1>0, <2>5, <2>6 DEF Queues!QueuesNext
<1>3. CASE Left(Lines, Lines')
  <2>1. PICK key \in Keys : \E i \in DOMAIN Lines[key] : Lines' = Shorter(Lines, key, i)
    BY <1>3 DEF Left
  <2>2. \E i \in DOMAIN Lines[key] : Queues!Leave(key, i)
    BY <1>0, <2>1 DEF Queues!Leave, Queues!Without, Shorter
  <2> QED
    BY <2>2 DEF Queues!QueuesNext
<1>4. CASE GaveAway(Lines, Lines')
  <2>1. PICK key \in Keys, n \in Int :
           /\ 1 \in DOMAIN Lines[key] /\ n < Lines[key][1].shares
           /\ Lines' = Given(Lines, key, 1, n)
    BY <1>4 DEF GaveAway
  <2> DEFINE s == Lines[key]
             after == [s EXCEPT ![1].shares = n]
  <2>2. s \in Seq(E) /\ 1 \in DOMAIN s
    BY <2>1
  <2>3. Lines'[key] = after
    BY <2>1 DEF Given
  <2> HIDE DEF s
  <2>4. s[1] \in E
    BY <2>2
  <2>5. s[1] = [ticket |-> s[1].ticket, shares |-> s[1].shares]
    BY <2>4
  <2>6. after[1].shares = n /\ 1 \in DOMAIN after
    BY <2>2, <2>5
  <2>7. s # <<>> /\ after # <<>>
    BY <2>2, <2>6
  <2> HIDE DEF after
  <2>8. Queues!GiveAway(key, n)
    BY <2>1 DEF Queues!GiveAway, Given
  <2>9. Lines'[key] # <<>> /\ Lines'[key][1].shares = n /\ Lines[key] # <<>>
    BY <2>3, <2>6, <2>7 DEF s
  <2> QED
    BY <2>8, <2>9 DEF Queues!QueuesNext
<1> QED
  BY <1>1, <1>2, <1>3, <1>4 DEF LineStep

\* The pointers implement lines of tickets: whoever joins comes behind all
\* others, whoever leaves, from any place, does not change the order of those
\* who stay, and only the first one's shares are filled.
THEOREM ListsImplementQueues == Spec => ImplementsTicketQueues
<1>1. Init => Queues!QueuesInit
  <2> SUFFICES ASSUME Init PROVE Queues!QueuesInit
    OBVIOUS
  <2>1. DOMAIN mem.levelMap = {}
    BY DEF Init
  <2> QED
    BY <2>1 DEF Queues!QueuesInit, Lines
<1>2. SInv /\ LinesAreLists /\ LinesAreLists' /\ StoreStep => [Queues!QueuesNext]_Lines
  <2> SUFFICES ASSUME LinesAreLists, LinesAreLists', StoreStep
               PROVE  [Queues!QueuesNext]_Lines
    OBVIOUS
  <2>1. PICK q, p : /\ Store(mem, q, Out) /\ Store(mem', p, Out')
                    /\ LineStep(LinesOf(mem, q), LinesOf(mem', p))
    BY DEF StoreStep
  <2>2. Lines = LinesOf(mem, q)
    BY <2>1 DEF LinesAreLists
  <2>3. Lines' = LinesOf(mem', p)
    BY <2>1 DEF LinesAreLists
  <2> DEFINE E == {Entry(mem, x) : x \in DOMAIN mem.ticket \ Out}
  <2>4. LinesOf(mem, q) \in [Keys -> Seq(E)]
    BY <2>1, LinesHoldTickets DEF Store
  <2>5. \A e \in E : e = [ticket |-> e.ticket, shares |-> e.shares]
    BY DEF Entry
  <2> HIDE DEF E
  <2>6. LineStep(Lines, Lines')
    BY <2>1, <2>2, <2>3
  <2>7. Lines \in [Keys -> Seq(E)]
    BY <2>2, <2>4
  <2>8. Queues!QueuesNext \/ Lines' = Lines
    BY <2>5, <2>6, <2>7, LineStepIsAllowed
  <2> QED
    BY <2>8
<1>3. SInv /\ [Next]_vars => StoreStep
  BY StoreIsKept
<1> QED
  BY <1>1, <1>2, <1>3, LinesAreRead, StoreInvariant, TicketsAreFew, PTL
     DEF Spec, ImplementsTicketQueues, Queues!QueuesSpec

=============================================================================
