----------------------- MODULE EnginePriority_proofs ------------------------
(***************************************************************************)
(* The engine implements PriceTimePriority, for every set of ids, every    *)
(* largest price and every set of positive quantities.                     *)
(***************************************************************************)
EXTENDS EnginePriority, MatchingEngine_proofs

-----------------------------------------------------------------------------
(* Lines and queues.                                                       *)

\* a is the members of R in some order, each once.
LinedUp(a, R) ==
    /\ a \in Seq(R)
    /\ \A id \in R : \E i \in DOMAIN a : a[i] = id
    /\ \A i, j \in DOMAIN a : a[i] = a[j] => i = j

Precedes(a, x, y) == \E i, j \in DOMAIN a : i < j /\ a[i] = x /\ a[j] = y

\* The queue s has its members in the order of a.
Behind(s, a) == \A i, j \in DOMAIN s : i < j => Precedes(a, s[i], s[j])

\* All queues of the limit books are in the order of a.
InLine(ls, a) == \A k \in DOMAIN ls : k[1] \in LimitBooks => Behind(ls[k].orders, a)

\* What a sequence is when one is appended to it.
LEMMA Appended ==
    ASSUME NEW S, NEW s \in Seq(S), NEW x
    PROVE  /\ DOMAIN s = 1..Len(s) /\ Len(s) \in Nat
           /\ Append(s, x) \in Seq(S \cup {x})
           /\ DOMAIN Append(s, x) = 1..(Len(s) + 1)
           /\ \A i \in 1..Len(s) : Append(s, x)[i] = s[i]
           /\ Append(s, x)[Len(s) + 1] = x
<1>1. s \in Seq(S \cup {x}) /\ x \in S \cup {x}
  BY SeqMonotonic
<1> QED
  BY <1>1, AppendProperties, LenProperties

\* ... and when the n-th is taken out of it.
LEMMA Removed ==
    ASSUME NEW S, NEW s \in Seq(S), NEW n \in DOMAIN s
    PROVE  /\ DOMAIN s = 1..Len(s) /\ Len(s) \in Nat
           /\ RemoveAt(s, n) \in Seq(S)
           /\ DOMAIN RemoveAt(s, n) = 1..(Len(s) - 1)
           /\ \A i \in 1..(Len(s) - 1) :
                 RemoveAt(s, n)[i] = IF i < n THEN s[i] ELSE s[i + 1]
<1>1. DOMAIN s = 1..Len(s) /\ Len(s) \in Nat /\ n \in 1..Len(s)
  BY LenProperties
<1>2. /\ RemoveAt(s, n) \in Seq(S)
      /\ Len(RemoveAt(s, n)) = Len(s) - 1
      /\ \A i \in 1..(Len(s) - 1) :
            RemoveAt(s, n)[i] = IF i < n THEN s[i] ELSE s[i + 1]
  BY <1>1, RemoveAtProperties
<1> QED
  BY <1>1, <1>2, LenProperties

\* Those who stay keep their order: the i-th of s is the j-th of r.
Stay(s, n, r) ==
    /\ \A i \in DOMAIN s \ {n} :
          LET j == IF i < n THEN i ELSE i - 1
          IN  j \in DOMAIN r /\ r[j] = s[i]
    /\ \A j \in DOMAIN r :
          LET i == IF j < n THEN j ELSE j + 1
          IN  i \in DOMAIN s \ {n} /\ r[j] = s[i]

LEMMA StayInOrder ==
    ASSUME NEW S, NEW s \in Seq(S), NEW n \in DOMAIN s
    PROVE  Stay(s, n, RemoveAt(s, n))
<1> DEFINE r == RemoveAt(s, n)
<1>1. /\ DOMAIN s = 1..Len(s) /\ Len(s) \in Nat
      /\ DOMAIN r = 1..(Len(s) - 1)
      /\ \A i \in 1..(Len(s) - 1) : r[i] = IF i < n THEN s[i] ELSE s[i + 1]
  BY Removed
<1>2. n \in 1..Len(s)
  BY <1>1
<1> HIDE DEF r
<1>3. ASSUME NEW i \in DOMAIN s \ {n}
      PROVE  LET j == IF i < n THEN i ELSE i - 1
             IN  j \in DOMAIN r /\ r[j] = s[i]
  <2>1. CASE i < n
    BY <1>1, <1>2, <2>1
  <2>2. CASE ~(i < n)
    <3>1. i - 1 \in 1..(Len(s) - 1) /\ ~(i - 1 < n) /\ (i - 1) + 1 = i
      BY <1>1, <1>2, <2>2
    <3>2. r[i - 1] = s[(i - 1) + 1]
      BY <1>1, <3>1
    <3> QED
      BY <1>1, <2>2, <3>1, <3>2
  <2> QED
    BY <2>1, <2>2
<1>4. ASSUME NEW j \in DOMAIN r
      PROVE  LET i == IF j < n THEN j ELSE j + 1
             IN  i \in DOMAIN s \ {n} /\ r[j] = s[i]
  BY <1>1, <1>2
<1> QED
  BY <1>3, <1>4 DEF Stay, r

\* Whoever comes joins the end of the line.
LEMMA LineGrows ==
    ASSUME NEW R, NEW a, LinedUp(a, R), NEW z, z \notin R
    PROVE  LinedUp(Append(a, z), R \cup {z})
<1> DEFINE b == Append(a, z)
<1>1. /\ DOMAIN a = 1..Len(a) /\ Len(a) \in Nat
      /\ b \in Seq(R \cup {z})
      /\ DOMAIN b = 1..(Len(a) + 1)
      /\ \A i \in 1..Len(a) : b[i] = a[i]
      /\ b[Len(a) + 1] = z
  BY Appended DEF LinedUp
<1> HIDE DEF b
<1>2. \A i \in 1..Len(a) : a[i] \in R
  BY <1>1 DEF LinedUp
<1>3. ASSUME NEW id \in R \cup {z}
      PROVE  \E i \in DOMAIN b : b[i] = id
  <2>1. CASE id = z
    BY <1>1, <2>1
  <2>2. CASE id \in R
    <3>1. PICK i \in 1..Len(a) : a[i] = id
      BY <1>1, <2>2 DEF LinedUp
    <3>2. i \in DOMAIN b /\ b[i] = id
      BY <1>1, <3>1
    <3> QED
      BY <3>2
  <2> QED
    BY <2>1, <2>2
<1>4. ASSUME NEW i \in DOMAIN b, NEW j \in DOMAIN b, b[i] = b[j]
      PROVE  i = j
  <2>1. \A l \in DOMAIN b : l = Len(a) + 1 \/ l \in 1..Len(a)
    BY <1>1
  <2>2. \A l \in 1..Len(a) : b[l] # z
    BY <1>1, <1>2
  <2>3. \A l, m \in 1..Len(a) : a[l] = a[m] => l = m
    BY <1>1 DEF LinedUp
  <2> QED
    BY <1>1, <1>4, <2>1, <2>2, <2>3
<1> QED
  BY <1>1, <1>3, <1>4 DEF LinedUp, b

\* Whoever leaves goes out of the line.
LEMMA LineShrinks ==
    ASSUME NEW R, NEW a, LinedUp(a, R), NEW n \in DOMAIN a
    PROVE  /\ LinedUp(RemoveAt(a, n), R \ {a[n]})
           /\ a[n] \in R
<1> DEFINE b == RemoveAt(a, n)
<1>1. /\ a \in Seq(R) /\ DOMAIN a = 1..Len(a)
      /\ b \in Seq(R)
  BY Removed DEF LinedUp
<1>2. /\ \A i \in DOMAIN a \ {n} :
            LET j == IF i < n THEN i ELSE i - 1
            IN  j \in DOMAIN b /\ b[j] = a[i]
      /\ \A j \in DOMAIN b :
            LET i == IF j < n THEN j ELSE j + 1
            IN  i \in DOMAIN a \ {n} /\ b[j] = a[i]
  <2>1. a \in Seq(R)
    BY DEF LinedUp
  <2>2. Stay(a, n, b)
    BY <2>1, StayInOrder
  <2> HIDE DEF b
  <2> QED
    BY <2>2 DEF Stay
<1> HIDE DEF b
<1>3. \A i \in DOMAIN a : a[i] \in R /\ (a[i] = a[n] => i = n)
  BY <1>1 DEF LinedUp
<1>4. \A j \in DOMAIN b : b[j] \in R \ {a[n]}
  BY <1>2, <1>3
<1>5. b \in Seq(R \ {a[n]})
  <2>1. DOMAIN b = 1..Len(b) /\ Len(b) \in Nat /\ b = [j \in 1..Len(b) |-> b[j]]
    BY <1>1, LenProperties
  <2>2. \A j \in 1..Len(b) : b[j] \in R \ {a[n]}
    BY <1>4, <2>1
  <2> QED
    BY <2>1, <2>2, SeqDef
<1>6. ASSUME NEW id \in R \ {a[n]}
      PROVE  \E j \in DOMAIN b : b[j] = id
  <2>1. PICK i \in DOMAIN a \ {n} : a[i] = id
    BY DEF LinedUp
  <2> QED
    BY <1>2, <2>1
<1>7. ASSUME NEW i \in DOMAIN b, NEW j \in DOMAIN b, b[i] = b[j]
      PROVE  i = j
  <2> DEFINE Was(l) == IF l < n THEN l ELSE l + 1
  <2>1. Was(i) \in DOMAIN a /\ Was(j) \in DOMAIN a /\ a[Was(i)] = a[Was(j)]
    BY <1>2, <1>7
  <2>2. Was(i) = Was(j)
    <3> HIDE DEF Was
    <3> QED
      BY <2>1 DEF LinedUp
  <2>3. i \in Nat /\ j \in Nat /\ n \in Nat
    BY <1>1, LenProperties
  <2> QED
    BY <2>2, <2>3
<1> QED
  BY <1>3, <1>5, <1>6, <1>7 DEF LinedUp, b

\* The order of a line does not change when someone comes or leaves.
LEMMA OrderGrows ==
    ASSUME NEW R, NEW a \in Seq(R), NEW x, NEW y, NEW z
    PROVE  /\ Precedes(a, x, y) => Precedes(Append(a, z), x, y)
           /\ (\E i \in DOMAIN a : a[i] = x) => Precedes(Append(a, z), x, z)
<1> DEFINE b == Append(a, z)
<1>1. /\ DOMAIN a = 1..Len(a) /\ Len(a) \in Nat
      /\ DOMAIN b = 1..(Len(a) + 1)
      /\ \A i \in 1..Len(a) : b[i] = a[i]
      /\ b[Len(a) + 1] = z
  BY Appended
<1> HIDE DEF b
<1>2. \A i \in DOMAIN a : i \in DOMAIN b /\ b[i] = a[i] /\ i < Len(a) + 1
  BY <1>1
<1>3. Len(a) + 1 \in DOMAIN b
  BY <1>1
<1>4. Precedes(a, x, y) => Precedes(b, x, y)
  BY <1>2 DEF Precedes
<1>5. (\E i \in DOMAIN a : a[i] = x) => Precedes(b, x, z)
  BY <1>1, <1>2, <1>3 DEF Precedes
<1> QED
  BY <1>4, <1>5 DEF b

LEMMA OrderShrinks ==
    ASSUME NEW R, NEW a \in Seq(R), NEW n \in DOMAIN a,
           NEW x, NEW y, Precedes(a, x, y), x # a[n], y # a[n]
    PROVE  Precedes(RemoveAt(a, n), x, y)
<1> DEFINE b == RemoveAt(a, n)
           Now(i) == IF i < n THEN i ELSE i - 1
<1>1. \A i \in DOMAIN a \ {n} : Now(i) \in DOMAIN b /\ b[Now(i)] = a[i]
  BY StayInOrder DEF Stay
<1>2. PICK i \in DOMAIN a, j \in DOMAIN a : i < j /\ a[i] = x /\ a[j] = y
  BY DEF Precedes
<1>3. i # n /\ j # n
  BY <1>2
<1>4. Now(i) < Now(j)
  <2>1. i \in Nat /\ j \in Nat /\ n \in Nat
    BY LenProperties
  <2> QED
    BY <1>2, <1>3, <2>1
<1>5. /\ Now(i) \in DOMAIN b /\ b[Now(i)] = x
      /\ Now(j) \in DOMAIN b /\ b[Now(j)] = y
  BY <1>1, <1>2, <1>3
<1> HIDE DEF b, Now
<1>6. Precedes(b, x, y)
  BY <1>4, <1>5 DEF Precedes
<1> QED
  BY <1>6 DEF b

\* A ticket that comes to the end of a queue and of the line.
LEMMA QueueGrows ==
    ASSUME NEW R, NEW a \in Seq(R), NEW T, NEW s \in Seq(T), Behind(s, a),
           \A i \in DOMAIN s : \E j \in DOMAIN a : a[j] = s[i],
           NEW z
    PROVE  Behind(Append(s, z), Append(a, z))
<1> DEFINE r == Append(s, z)
           b == Append(a, z)
<1>1. /\ DOMAIN s = 1..Len(s) /\ Len(s) \in Nat
      /\ DOMAIN r = 1..(Len(s) + 1)
      /\ \A i \in 1..Len(s) : r[i] = s[i]
      /\ r[Len(s) + 1] = z
  BY Appended
<1> HIDE DEF r
<1> SUFFICES ASSUME NEW i \in DOMAIN r, NEW j \in DOMAIN r, i < j
             PROVE  Precedes(b, r[i], r[j])
  BY DEF Behind, r
<1>2. i \in DOMAIN s /\ r[i] = s[i]
  BY <1>1
<1>3. CASE j \in DOMAIN s
  <2>1. r[j] = s[j]
    BY <1>1, <1>3
  <2>2. Precedes(a, s[i], s[j])
    BY <1>2, <1>3 DEF Behind
  <2> QED
    BY <1>2, <2>1, <2>2, OrderGrows
<1>4. CASE j = Len(s) + 1
  <2>1. r[j] = z
    BY <1>1, <1>4
  <2>2. \E l \in DOMAIN a : a[l] = s[i]
    BY <1>2
  <2> QED
    BY <1>2, <2>1, <2>2, OrderGrows
<1> QED
  BY <1>1, <1>3, <1>4

\* Other queues are not disturbed by who comes or leaves.
LEMMA OtherQueue ==
    ASSUME NEW R, NEW a \in Seq(R), NEW s, Behind(s, a)
    PROVE  /\ \A z : Behind(s, Append(a, z))
           /\ \A n \in DOMAIN a :
                 (\A i \in DOMAIN s : s[i] # a[n]) => Behind(s, RemoveAt(a, n))
BY OrderGrows, OrderShrinks DEF Behind

\* A queue from which a ticket is taken.
LEMMA QueueShrinks ==
    ASSUME NEW a, NEW T, NEW s \in Seq(T), Behind(s, a), NEW n \in DOMAIN s
    PROVE  Behind(RemoveAt(s, n), a)
<1> DEFINE r == RemoveAt(s, n)
           Was(j) == IF j < n THEN j ELSE j + 1
<1>1. \A j \in DOMAIN r : Was(j) \in DOMAIN s /\ r[j] = s[Was(j)]
  BY StayInOrder DEF Stay
<1> SUFFICES ASSUME NEW i \in DOMAIN r, NEW j \in DOMAIN r, i < j
             PROVE  Precedes(a, r[i], r[j])
  BY DEF Behind
<1>2. Was(i) < Was(j)
  <2>1. DOMAIN r = 1..(Len(s) - 1) /\ Len(s) \in Nat /\ n \in Nat
    BY Removed, LenProperties
  <2> QED
    BY <2>1
<1> HIDE DEF r, Was
<1> QED
  BY <1>1, <1>2 DEF Behind

-----------------------------------------------------------------------------
(* The queues of the books.                                                *)

\* What cancel and execute do to the queues.
LEMMA UnlinkShape ==
    ASSUME LevelsOK(levels), NEW k \in DOMAIN levels, NEW i \in DOMAIN levels[k].orders
    PROVE  LET ls == Unlink(levels, k, i)
           IN  /\ DOMAIN ls \subseteq DOMAIN levels
               /\ \A kk \in DOMAIN ls \ {k} : ls[kk] = levels[kk]
               /\ k \in DOMAIN ls => ls[k].orders = RemoveAt(levels[k].orders, i)
<1> DEFINE left == [levels[k] EXCEPT
                       !.orders = RemoveAt(@, i),
                       !.totalVolume = @ - orderMap[levels[k].orders[i]].quantity]
<1>1. levels[k] \in Level
  BY DEF LevelsOK, FunctionInto
<1>2. left.orders = RemoveAt(levels[k].orders, i)
  BY <1>1 DEF Level
<1>3. Unlink(levels, k, i) =
          IF left.orders = <<>> THEN Without(levels, k) ELSE [levels EXCEPT ![k] = left]
  BY DEF Unlink
<1> HIDE DEF left
<1> QED
  BY <1>2, <1>3 DEF Without, Restrict

\* What append does to them: id is at the end of the queue of k in new.
Enqueued(new, ls, k, id) ==
    /\ DOMAIN new = DOMAIN ls \cup {k}
    /\ \A kk \in DOMAIN ls \ {k} : new[kk] = ls[kk]
    /\ k \in DOMAIN ls => new[k].orders = Append(ls[k].orders, id)
    /\ k \notin DOMAIN ls => new[k].orders = Append(<<>>, id)

LEMMA EnqueueShape ==
    ASSUME NEW ls, LevelsOK(ls), NEW k, NEW isBid, NEW id, NEW quantity
    PROVE  Enqueued(Enqueue(ls, k, isBid, id, quantity), ls, k, id)
<1> DEFINE level == IF k \in DOMAIN ls
                    THEN ls[k]
                    ELSE [isBid |-> isBid, orders |-> <<>>, totalVolume |-> 0]
           longer == [level EXCEPT !.orders = Append(@, id),
                                   !.totalVolume = @ + quantity]
           new == Enqueue(ls, k, isBid, id, quantity)
<1>1. /\ k \in DOMAIN ls => level.orders = ls[k].orders
      /\ k \notin DOMAIN ls => level.orders = <<>>
  OBVIOUS
<1>2. longer.orders = Append(level.orders, id)
  <2>1. k \in DOMAIN ls => ls[k] \in Level
    BY DEF LevelsOK, FunctionInto
  <2> QED
    BY <2>1 DEF Level
<1>3. new = With(ls, k, longer)
  BY DEF Enqueue
<1> HIDE DEF level, longer, new
<1>4. /\ DOMAIN new = DOMAIN ls \cup {k}
      /\ new[k] = longer
      /\ \A kk \in DOMAIN ls \ {k} : new[kk] = ls[kk]
  BY <1>3 DEF With
<1> QED
  BY <1>1, <1>2, <1>4 DEF Enqueued, new

\* The queues stay in line when a ticket is taken from one of them ...
LEMMA UnlinkedInLine ==
    ASSUME LevelsOK(levels), NEW a, InLine(levels, a),
           NEW k \in DOMAIN levels, NEW i \in DOMAIN levels[k].orders
    PROVE  InLine(Unlink(levels, k, i), a)
<1> DEFINE ls == Unlink(levels, k, i)
<1>1. /\ DOMAIN ls \subseteq DOMAIN levels
      /\ \A kk \in DOMAIN ls \ {k} : ls[kk] = levels[kk]
      /\ k \in DOMAIN ls => ls[k].orders = RemoveAt(levels[k].orders, i)
  BY UnlinkShape, Zenon
<1>2. levels[k].orders \in Seq(Ids)
  BY DEF LevelsOK, FunctionInto, Level
<1> HIDE DEF ls
<1>3. ASSUME NEW kk \in DOMAIN ls, kk[1] \in LimitBooks
      PROVE  Behind(ls[kk].orders, a)
  <2>1. kk \in DOMAIN levels /\ Behind(levels[kk].orders, a)
    BY <1>1, <1>3 DEF InLine
  <2>2. CASE kk = k
    BY <1>1, <1>2, <2>1, <2>2, QueueShrinks
  <2>3. CASE kk # k
    BY <1>1, <2>1, <2>3
  <2> QED
    BY <2>2, <2>3
<1>4. InLine(ls, a)
  BY <1>3 DEF InLine
<1> QED
  BY <1>4 DEF ls

\* ... and from the line as well ...
LEMMA LeftTheLine ==
    ASSUME LevelsOK(levels), NEW out, QueuesOK(levels, orderMap, out),
           NEW R, NEW a \in Seq(R), InLine(levels, a),
           NEW k \in DOMAIN levels, NEW i \in DOMAIN levels[k].orders,
           NEW n \in DOMAIN a, a[n] = levels[k].orders[i]
    PROVE  InLine(Unlink(levels, k, i), RemoveAt(a, n))
<1> DEFINE ls == Unlink(levels, k, i)
           gone == out \cup {levels[k].orders[i]}
<1>1. InLine(ls, a)
  BY UnlinkedInLine
<1>2. QueuesOK(ls, orderMap, gone)
  <2>1. DOMAIN orderMap \ gone = (DOMAIN orderMap \ out) \ {levels[k].orders[i]}
    OBVIOUS
  <2> HIDE DEF gone
  <2> QED
    BY <2>1, UnlinkQueues
<1>3. \A kk \in DOMAIN ls : \A j \in DOMAIN ls[kk].orders : ls[kk].orders[j] # a[n]
  <2> HIDE DEF ls
  <2> QED
    BY <1>2 DEF QueuesOK
<1> HIDE DEF ls
<1>4. ASSUME NEW kk \in DOMAIN ls, kk[1] \in LimitBooks
      PROVE  Behind(ls[kk].orders, RemoveAt(a, n))
  <2>1. Behind(ls[kk].orders, a)
    BY <1>1, <1>4 DEF InLine
  <2> QED
    BY <1>3, <2>1, OtherQueue
<1>5. InLine(ls, RemoveAt(a, n))
  BY <1>4 DEF InLine
<1> QED
  BY <1>5 DEF ls

\* ... when one comes to a stop level, and does not join the line ...
LEMMA StopInLine ==
    ASSUME NEW ls, LevelsOK(ls), NEW a, InLine(ls, a),
           NEW k, k[1] \notin LimitBooks, NEW isBid, NEW id, NEW quantity
    PROVE  InLine(Enqueue(ls, k, isBid, id, quantity), a)
<1> DEFINE new == Enqueue(ls, k, isBid, id, quantity)
<1>1. Enqueued(new, ls, k, id)
  BY EnqueueShape
<1> HIDE DEF new
<1>2. InLine(new, a)
  BY <1>1 DEF InLine, Enqueued
<1> QED
  BY <1>2 DEF new

\* ... and when one comes to the ends of a queue and of the line.
LEMMA JoinsTheLine ==
    ASSUME NEW ls, LevelsOK(ls), NEW R, NEW a \in Seq(R), InLine(ls, a),
           \A kk \in DOMAIN ls : kk[1] \in LimitBooks =>
              \A i \in DOMAIN ls[kk].orders : \E j \in DOMAIN a : a[j] = ls[kk].orders[i],
           NEW k, NEW isBid, NEW id, NEW quantity
    PROVE  InLine(Enqueue(ls, k, isBid, id, quantity), Append(a, id))
<1> DEFINE new == Enqueue(ls, k, isBid, id, quantity)
<1>1. Enqueued(new, ls, k, id)
  BY EnqueueShape
<1> HIDE DEF new
<1>2. ASSUME NEW kk \in DOMAIN new, kk[1] \in LimitBooks
      PROVE  Behind(new[kk].orders, Append(a, id))
  <2>1. CASE kk = k
    <3>1. PICK old \in Seq(Ids) :
             /\ new[k].orders = Append(old, id)
             /\ k \in DOMAIN ls => old = ls[k].orders
             /\ k \notin DOMAIN ls => old = <<>>
      <4>1. k \in DOMAIN ls => ls[k].orders \in Seq(Ids)
        BY DEF LevelsOK, FunctionInto, Level
      <4> QED
        BY <1>1, <4>1, EmptySeq DEF Enqueued
    <3>2. Behind(old, a) /\ \A i \in DOMAIN old : \E j \in DOMAIN a : a[j] = old[i]
      <4>1. CASE k \in DOMAIN ls
        BY <1>2, <2>1, <3>1, <4>1 DEF InLine
      <4>2. CASE k \notin DOMAIN ls
        BY <3>1, <4>2 DEF Behind
      <4> QED
        BY <4>1, <4>2
    <3>3. Behind(Append(old, id), Append(a, id))
      BY <3>2, QueueGrows
    <3> QED
      BY <2>1, <3>1, <3>3
  <2>2. CASE kk # k
    <3>1. kk \in DOMAIN ls /\ new[kk] = ls[kk] /\ Behind(ls[kk].orders, a)
      BY <1>1, <1>2, <2>2 DEF InLine, Enqueued
    <3> QED
      BY <3>1, OtherQueue
  <2> QED
    BY <2>1, <2>2
<1>3. InLine(new, Append(a, id))
  BY <1>2 DEF InLine
<1> QED
  BY <1>3 DEF new


-----------------------------------------------------------------------------
(* Who rests.  A step changes one ticket at most.                          *)

\* Resting and RestingOrders, for any tickets om.
Waiting(om) == {id \in DOMAIN om : om[id].parentLevel[1] \in LimitBooks}

OrdersOf(om) ==
    [id \in Waiting(om) |->
        [isBid |-> om[id].parentLevel[1] = "buy",
         price |-> om[id].parentLevel[2],
         quantity |-> om[id].quantity]]

Orders == [isBid : BOOLEAN, price : Prices, quantity : Nat]

\* Between om and new no ticket but id has come, left or changed.
OnlyTicket(om, new, id) ==
    /\ DOMAIN new \ {id} = DOMAIN om \ {id}
    /\ \A other \in DOMAIN om \ {id} : new[other] = om[other]

LEMMA RestingRestated ==
    /\ Resting = Waiting(orderMap) /\ Resting' = Waiting(orderMap')
    /\ RestingOrders = OrdersOf(orderMap) /\ RestingOrders' = OrdersOf(orderMap')
BY DEF Resting, RestingOrders, Waiting, OrdersOf

\* What is known of a resting order.
LEMMA OrdersAreTyped ==
    ASSUME NEW om, FunctionInto(om, Ids, Ticket)
    PROVE  /\ DOMAIN OrdersOf(om) = Waiting(om)
           /\ Waiting(om) \subseteq Ids
           /\ \A id \in Waiting(om) :
                 /\ OrdersOf(om)[id] \in Orders
                 /\ om[id].parentLevel[1] \in LimitBooks /\ om[id].parentLevel[2] \in Prices
                 /\ om[id].quantity \in Nat
<1>1. ASSUME NEW id \in Waiting(om)
      PROVE  /\ id \in Ids
             /\ OrdersOf(om)[id] \in Orders
             /\ om[id].parentLevel[1] \in LimitBooks /\ om[id].parentLevel[2] \in Prices
             /\ om[id].quantity \in Nat
  <2>1. id \in Ids /\ om[id] \in Ticket
    BY DEF Waiting, FunctionInto
  <2>2. om[id].parentLevel[2] \in Prices /\ om[id].quantity \in Nat
    BY <2>1 DEF Ticket
  <2> QED
    BY <2>1, <2>2 DEF OrdersOf, Orders, Waiting
<1> QED
  BY <1>1 DEF OrdersOf

\* The orders of the tickets that a step leaves alone.
LEMMA OtherOrders ==
    ASSUME NEW om, NEW new, NEW id, OnlyTicket(om, new, id)
    PROVE  /\ DOMAIN OrdersOf(om) = Waiting(om) /\ DOMAIN OrdersOf(new) = Waiting(new)
           /\ Waiting(new) \ {id} = Waiting(om) \ {id}
           /\ \A other \in Waiting(om) \ {id} : OrdersOf(new)[other] = OrdersOf(om)[other]
BY DEF OnlyTicket, Waiting, OrdersOf

\* A ticket that waits for its stop is no order of the limit books.
LEMMA NoOrderChanges ==
    ASSUME NEW om, NEW new, NEW id, OnlyTicket(om, new, id),
           id \notin Waiting(om), id \notin Waiting(new)
    PROVE  OrdersOf(new) = OrdersOf(om)
<1>1. Waiting(new) = Waiting(om)
  BY OtherOrders
<1>2. \A other \in Waiting(om) : OrdersOf(new)[other] = OrdersOf(om)[other]
  BY OtherOrders
<1> QED
  BY <1>1, <1>2 DEF OrdersOf

\* Whoever is in a limit queue is in line.
LEMMA QueuedAreInLine ==
    ASSUME NEW ls, NEW om, NEW out, QueuesOK(ls, om, out),
           NEW R, NEW a, LinedUp(a, R), Waiting(om) \ out \subseteq R,
           NEW k \in DOMAIN ls, k[1] \in LimitBooks, NEW i \in DOMAIN ls[k].orders
    PROVE  \E j \in DOMAIN a : a[j] = ls[k].orders[i]
<1>1. ls[k].orders[i] \in Waiting(om) \ out
  BY DEF QueuesOK, Waiting
<1> QED
  BY <1>1 DEF LinedUp

LEMMA ComesToTheEnds ==
    ASSUME NEW ls, LevelsOK(ls), NEW om, NEW out, QueuesOK(ls, om, out),
           NEW R, NEW a, LinedUp(a, R), Waiting(om) \ out \subseteq R, InLine(ls, a),
           NEW k, NEW isBid, NEW id, NEW quantity
    PROVE  InLine(Enqueue(ls, k, isBid, id, quantity), Append(a, id))
<1>1. a \in Seq(R)
  BY DEF LinedUp
<1>2. \A kk \in DOMAIN ls : kk[1] \in LimitBooks =>
         \A i \in DOMAIN ls[kk].orders : \E j \in DOMAIN a : a[j] = ls[kk].orders[i]
  BY QueuedAreInLine
<1> QED
  BY <1>1, <1>2, JoinsTheLine

-----------------------------------------------------------------------------
(* A stop-limit order that is being converted is not yet an order of the   *)
(* limit books.                                                            *)

ConvertedIsStop ==
    \A id \in Converting : orderMap[id].parentLevel[1] \notin LimitBooks

\* The tickets that are being converted stay so, and in the stop book.
LEMMA StaysConverted ==
    ASSUME ConvertedIsStop, Converting' \subseteq Converting,
           \A id \in Converting : orderMap'[id].parentLevel = orderMap[id].parentLevel
    PROVE  ConvertedIsStop'
BY DEF ConvertedIsStop

LEMMA SweepConverts ==
    ASSUME IInv, ConvertedIsStop, FillHead \/ PartiallyFillHead \/ EndSweep
    PROVE  ConvertedIsStop'
<1>1. CASE FillHead
  <2>1. PICK p \in Prices :
            /\ Fits(p)
            /\ orderMap' = Without(orderMap, Head1(Maker(p)))
            /\ \E sweep, executed :
                  taker' = [taker EXCEPT !.sweep = sweep, !.executed = executed]
    BY <1>1 DEF FillHead
  <2>2. Head1(Maker(p)) \in DOMAIN orderMap \ Converting
    BY <2>1, EdgeIsLevel, HeadIsMapped DEF IInv, Fits
  <2>3. Converting' = Converting
    <3>1. ASSUME NEW t \in Taker, NEW sweep, NEW executed
          PROVE  LET new == [t EXCEPT !.sweep = sweep, !.executed = executed]
                 IN  new.id = t.id /\ new.then = t.then
      BY DEF Taker
    <3>2. taker \in Taker
      BY DEF IInv, TypeOK
    <3>3. taker'.id = taker.id /\ taker'.then = taker.then
      BY <2>1, <3>1, <3>2
    <3> QED
      BY <1>1, <3>3 DEF FillHead, Converting
  <2>4. Converting \subseteq DOMAIN orderMap
    BY DEF IInv, TakerFitsBooks, InLoop, Converting
  <2>5. \A id \in Converting : orderMap'[id] = orderMap[id]
    BY <2>1, <2>2, <2>4 DEF Without, Restrict
  <2> QED
    BY <2>3, <2>5, StaysConverted
<1>2. CASE PartiallyFillHead
  <2>1. PICK p \in Prices :
            /\ IsEdge(taker.isBid, p)
            /\ orderMap' = [orderMap EXCEPT ![Head1(Maker(p))].quantity = @ - taker.sweep]
    BY <1>2 DEF PartiallyFillHead
  <2>2. Head1(Maker(p)) \in DOMAIN orderMap \ Converting
    BY <2>1, EdgeIsLevel, HeadIsMapped DEF IInv
  <2>3. Converting' = Converting
    BY <1>2, SweepReturnsConverting DEF PartiallyFillHead
  <2>4. \A id \in Converting : orderMap'[id] = orderMap[id]
    <3>1. Converting \subseteq DOMAIN orderMap
      BY DEF IInv, TakerFitsBooks, InLoop, Converting
    <3> QED
      BY <2>1, <2>2, <3>1
  <2> QED
    BY <2>3, <2>4, StaysConverted
<1>3. CASE EndSweep
  <2>1. Converting' = Converting /\ orderMap' = orderMap
    BY <1>3, SweepReturnsConverting DEF EndSweep
  <2> QED
    BY <2>1, StaysConverted
<1> QED
  BY <1>1, <1>2, <1>3

LEMMA RoundConverts ==
    ASSUME IInv, ConvertedIsStop, limitOrderAsMarketOrder \/ existingOrderAsMarketOrder
    PROVE  ConvertedIsStop'
<1>1. taker \in Taker /\ LevelsOK(levels)
  BY CountedBooks DEF IInv, TypeOK
<1>2. PICK p \in Prices :
          /\ IsEdge(taker.isBid, p)
          /\ \/ SweepRest(p)
             \/ SweepLevel(p) /\ orderMap' = orderMap
  BY DEF limitOrderAsMarketOrder, existingOrderAsMarketOrder, AcceptsEdge
<1>3. pc \in {"limit", "convert"} /\ pc \in Loops \ {"sweep"}
  BY DEF limitOrderAsMarketOrder, existingOrderAsMarketOrder, Loops
<1>4. CASE SweepRest(p)
  <2>1. Converting' = {}
    BY <1>1, <1>4, SweepRestTaker DEF Converting
  <2> QED
    BY <2>1 DEF ConvertedIsStop
<1>5. CASE SweepLevel(p) /\ orderMap' = orderMap
  <2>1. /\ pc' = "sweep" /\ taker'.then = pc /\ taker'.id = taker.id
    BY <1>1, <1>2, <1>3, <1>5, EdgeIsLevel, SweepLevelTaker
  <2>2. Converting' = Converting
    BY <1>3, <2>1 DEF Converting
  <2> QED
    BY <1>5, <2>2, StaysConverted
<1> QED
  BY <1>2, <1>4, <1>5

LEMMA NextConverts ==
    ASSUME IInv, ConvertedIsStop, [Next]_vars
    PROVE  ConvertedIsStop'
<1>1. CASE Submit \/ Cancels \/ ModifyLimit \/ ModifyStop
  BY <1>1, CallsConvertNothing DEF ConvertedIsStop
<1>2. CASE LimitLoopEnds \/ ConvertLoopEnds \/ StopsDone
  <2>1. Converting' = {}
    BY <1>2 DEF LimitLoopEnds, ConvertLoopEnds, StopsDone, Return, Run, Converting
  <2> QED
    BY <2>1 DEF ConvertedIsStop
<1>3. CASE TriggerStop
  <2>1. PICK p \in Prices :
            /\ Triggered(p)
            /\ Run("sweep", MarketTaker(taker.isBid, orderMap[Head1(<<"stop", p>>)].quantity))
    BY <1>3 DEF TriggerStop
  <2>2. orderMap[Head1(<<"stop", p>>)].quantity \in Nat /\ taker.isBid \in BOOLEAN
    BY <2>1, StopEdgeIsLevel, HeadIsMapped DEF IInv, TypeOK, Taker, Ticket
  <2>3. Converting' = {}
    BY <2>1, <2>2, SweepForMarketOrder
  <2> QED
    BY <2>3 DEF ConvertedIsStop
<1>4. CASE TriggerStopLimit
  <2>1. PICK p \in Prices :
            /\ Triggered(p)
            /\ pc' = "convert" /\ taker'.id = Head1(<<"stop", p>>)
    BY <1>4 DEF TriggerStopLimit, Run, LimitTaker, NoTaker
  <2>2. orderMap[Head1(<<"stop", p>>)].parentLevel = <<"stop", p>>
    BY <2>1, StopEdgeIsLevel, HeadIsMapped DEF IInv
  <2>3. Converting' = {Head1(<<"stop", p>>)} /\ orderMap' = orderMap
    BY <1>4, <2>1 DEF TriggerStopLimit, Converting
  <2> QED
    BY <2>2, <2>3 DEF ConvertedIsStop, LimitBooks
<1>5. CASE UNCHANGED vars
  BY <1>5 DEF vars, ConvertedIsStop, Converting
<1> QED
  BY <1>1, <1>2, <1>3, <1>4, <1>5, SweepConverts, RoundConverts DEF Next, Engine

-----------------------------------------------------------------------------
(* What each step does to the orders of the limit books.                   *)

BooksInLine ==
    /\ IInv /\ ConvertedIsStop
    /\ LinedUp(arrivals, Resting)
    /\ InLine(levels, arrivals)

\* The orders o become new: id comes, goes, or is another order than before.
Comes(o, new, id) ==
    /\ id \in Ids \ DOMAIN o
    /\ DOMAIN new = DOMAIN o \cup {id} /\ new[id] \in Orders
    /\ \A other \in DOMAIN o : new[other] = o[other]

Goes(o, new, id) ==
    /\ id \in DOMAIN o
    /\ DOMAIN new = DOMAIN o \ {id}
    /\ \A other \in DOMAIN new : new[other] = o[other]

Alters(o, new, id) ==
    /\ id \in DOMAIN o
    /\ DOMAIN new = DOMAIN o /\ new[id] \in Orders
    /\ \A other \in DOMAIN o \ {id} : new[other] = o[other]

\* The queues are in line once id has left it, and once it has rejoined it.
InLineWithout(ls, a, id) ==
    \A n \in DOMAIN a : a[n] = id => InLine(ls, RemoveAt(a, n))

InLineBehind(ls, a, id) ==
    \A n \in DOMAIN a : a[n] = id => InLine(ls, Append(RemoveAt(a, n), id))

\* No order is concerned.
Quiet == RestingOrders' = RestingOrders /\ InLine(levels', arrivals)

LEMMA UnchangedIsQuiet ==
    ASSUME BooksInLine, UNCHANGED <<levels, orderMap>>
    PROVE  Quiet
BY RestingRestated DEF Quiet, BooksInLine

\* cancel and execute: a ticket leaves its queue and orderMap.
LEMMA TicketLeaves ==
    ASSUME BooksInLine, NEW k \in DOMAIN levels, NEW i \in DOMAIN levels[k].orders,
           levels' = Unlink(levels, k, i),
           orderMap' = Without(orderMap, levels[k].orders[i])
    PROVE  IF k[1] \in LimitBooks
           THEN /\ Goes(RestingOrders, RestingOrders', levels[k].orders[i])
                /\ InLineWithout(levels', arrivals, levels[k].orders[i])
           ELSE Quiet
<1> DEFINE id == levels[k].orders[i]
<1>1. LevelsOK(levels) /\ QueuesOK(levels, orderMap, Converting)
  BY CountedBooks DEF BooksInLine
<1>2. id \in DOMAIN orderMap /\ orderMap[id].parentLevel = k
  BY <1>1 DEF QueuesOK
<1> HIDE DEF id
<1>3. orderMap' = Without(orderMap, id)
  BY DEF id
<1>4. OnlyTicket(orderMap, orderMap', id) /\ id \notin Waiting(orderMap')
  BY <1>3 DEF Without, Restrict, OnlyTicket, Waiting
<1>5. CASE k[1] \in LimitBooks
  <2>1. id \in Waiting(orderMap)
    BY <1>2, <1>5 DEF Waiting
  <2>2. Waiting(orderMap') = Waiting(orderMap) \ {id}
    BY <1>4, OtherOrders
  <2>3. Goes(OrdersOf(orderMap), OrdersOf(orderMap'), id)
    BY <1>4, <2>1, <2>2, OtherOrders DEF Goes
  <2>4. InLineWithout(levels', arrivals, id)
    <3>1. arrivals \in Seq(Resting) /\ InLine(levels, arrivals)
      BY DEF BooksInLine, LinedUp
    <3> QED
      BY <1>1, <3>1, LeftTheLine DEF InLineWithout, id
  <2> QED
    BY <1>5, <2>3, <2>4, RestingRestated DEF id
<1>6. CASE k[1] \notin LimitBooks
  <2>1. OrdersOf(orderMap') = OrdersOf(orderMap)
    BY <1>2, <1>4, <1>6, NoOrderChanges DEF Waiting
  <2>2. InLine(levels', arrivals)
    BY <1>1, UnlinkedInLine DEF BooksInLine
  <2> QED
    BY <1>6, <2>1, <2>2, RestingRestated DEF Quiet
<1> QED
  BY <1>5, <1>6

\* A submission that rests waits for its stop.
LEMMA SubmitIsQuiet ==
    ASSUME BooksInLine, Submit
    PROVE  Quiet
<1>1. \/ UNCHANGED <<levels, orderMap>>
      \/ \E id \in Ids \ DOMAIN orderMap, isBid \in BOOLEAN, quantity \in Quantities,
            limit \in Prices \cup {0}, stopPrice \in Prices :
            Rest(id, isBid, quantity, limit, StopLevel(isBid, stopPrice))
  BY DEF Submit, submitMarketTicket, submitLimitTicket, submitStopTicket,
         submitStopLimitTicket, Fresh
<1>2. ASSUME NEW id \in Ids \ DOMAIN orderMap, NEW isBid, NEW quantity, NEW limit,
             NEW k, k[1] \notin LimitBooks, Rest(id, isBid, quantity, limit, k)
      PROVE  Quiet
  <2>1. orderMap' = With(orderMap, id, NewTicket(isBid, quantity, limit, k))
    BY <1>2 DEF Rest
  <2>2. OnlyTicket(orderMap, orderMap', id) /\ orderMap'[id].parentLevel = k
    BY <2>1 DEF With, OnlyTicket, NewTicket
  <2>3. OrdersOf(orderMap') = OrdersOf(orderMap)
    BY <1>2, <2>2, NoOrderChanges DEF Waiting
  <2>4. levels' = Enqueue(levels, k, isBid, id, quantity)
    BY <1>2 DEF Rest
  <2>5. InLine(levels', arrivals)
    BY <1>2, <2>4, CountedBooks, StopInLine DEF BooksInLine
  <2> QED
    BY <2>3, <2>5, RestingRestated DEF Quiet
<1>3. \A isBid, stopPrice : StopLevel(isBid, stopPrice)[1] \notin LimitBooks
  BY DEF StopLevel, LimitBooks
<1> QED
  BY <1>1, <1>2, <1>3, UnchangedIsQuiet

\* A cancelled ticket leaves the line if it was in it.
LEMMA CancelsLeave ==
    ASSUME BooksInLine, Cancels
    PROVE  \/ Quiet
           \/ \E id \in DOMAIN RestingOrders :
                 /\ Goes(RestingOrders, RestingOrders', id)
                 /\ InLineWithout(levels', arrivals, id)
<1>1. PICK id \in DOMAIN orderMap : Idle /\ Cancel(id)
  BY DEF Cancels, cancelLimitTicket, cancelStopTicket, cancelStopLimitTicket
<1> DEFINE k == orderMap[id].parentLevel
<1>2. PICK i \in DOMAIN levels[k].orders :
          k \in DOMAIN levels /\ levels[k].orders[i] = id
          /\ Cancelled(id) = Unlink(levels, k, i)
  BY <1>1, IdleIsFree, CancelledIsUnlink DEF BooksInLine, IInv
<1> HIDE DEF k
<1>3. IF k[1] \in LimitBooks
      THEN /\ Goes(RestingOrders, RestingOrders', id)
           /\ InLineWithout(levels', arrivals, id)
      ELSE Quiet
  BY <1>1, <1>2, TicketLeaves DEF Cancel
<1> QED
  BY <1>3 DEF Goes

\* What modify does to the books.
LEMMA MovedTicket ==
    ASSUME BooksInLine, Idle, NEW id \in DOMAIN orderMap, NEW quantity, NEW limit, NEW to,
           Move(id, quantity, limit, to)
    PROVE  LET k == orderMap[id].parentLevel
           IN  /\ OnlyTicket(orderMap, orderMap', id)
               /\ id \in DOMAIN orderMap'
               /\ orderMap'[id] = NewTicket(orderMap[id].isBid, quantity, limit, to)
               /\ LevelsOK(Cancelled(id)) /\ QueuesOK(Cancelled(id), orderMap, {id})
               /\ k \in DOMAIN levels
               /\ \E i \in DOMAIN levels[k].orders :
                     levels[k].orders[i] = id /\ Cancelled(id) = Unlink(levels, k, i)
<1> DEFINE k == orderMap[id].parentLevel
<1>1. BooksOK /\ TypeOK /\ EveryTicketQueuedOnce /\ Converting = {}
  BY IdleIsFree, InvariantInParts DEF BooksInLine, IInv
<1>2. PICK i \in DOMAIN levels[k].orders :
          k \in DOMAIN levels /\ levels[k].orders[i] = id
          /\ Cancelled(id) = Unlink(levels, k, i)
  BY <1>1, CancelledIsUnlink
<1>3. LevelsOK(Cancelled(id)) /\ QueuesOK(Cancelled(id), orderMap, {id})
  BY <1>1, <1>2, UnlinkOut
<1>4. orderMap' = [orderMap EXCEPT ![id] = NewTicket(orderMap[id].isBid, quantity, limit, to)]
  BY DEF Move
<1> QED
  BY <1>2, <1>3, <1>4 DEF OnlyTicket

\* A modified stop waits on.
LEMMA ModifyStopIsQuiet ==
    ASSUME BooksInLine, ModifyStop
    PROVE  Quiet
<1>1. PICK id, quantity, limit, to :
          /\ id \in DOMAIN orderMap
          /\ Idle /\ orderMap[id].parentLevel[1] \notin LimitBooks
          /\ to[1] \notin LimitBooks
          /\ Move(id, quantity, limit, to)
  <2>1. \A isBid, stopPrice : StopLevel(isBid, stopPrice)[1] \notin LimitBooks
    BY DEF StopLevel, LimitBooks
  <2> QED
    BY <2>1 DEF ModifyStop, modifyStopTicket, modifyStopLimitTicket, IsStop, IsStopLimit,
                IsLimit
<1> DEFINE k == orderMap[id].parentLevel
<1>2. /\ OnlyTicket(orderMap, orderMap', id)
      /\ orderMap'[id] = NewTicket(orderMap[id].isBid, quantity, limit, to)
      /\ LevelsOK(Cancelled(id))
  <2>1. id \in DOMAIN orderMap /\ Idle /\ Move(id, quantity, limit, to)
    BY <1>1
  <2>2. OnlyTicket(orderMap, orderMap', id)
    BY <2>1, MovedTicket
  <2>3. orderMap'[id] = NewTicket(orderMap[id].isBid, quantity, limit, to)
    BY <2>1 DEF Move
  <2>4. LevelsOK(Cancelled(id))
    BY <2>1, MovedTicket
  <2> QED
    BY <2>2, <2>3, <2>4
<1>3. OrdersOf(orderMap') = OrdersOf(orderMap)
  <2>1. id \notin Waiting(orderMap) /\ id \notin Waiting(orderMap')
    BY <1>1, <1>2 DEF Waiting, NewTicket
  <2> QED
    BY <1>2, <2>1, NoOrderChanges
<1>4. InLine(Cancelled(id), arrivals)
  <2>1. PICK i \in DOMAIN levels[k].orders :
            k \in DOMAIN levels /\ levels[k].orders[i] = id
            /\ Cancelled(id) = Unlink(levels, k, i)
    BY <1>1, MovedTicket
  <2> QED
    BY <2>1, CountedBooks, UnlinkedInLine DEF BooksInLine
<1>5. levels' = Enqueue(Cancelled(id), to, orderMap[id].isBid, id, quantity)
  BY <1>1 DEF Move
<1>6. InLine(levels', arrivals)
  BY <1>1, <1>2, <1>4, <1>5, StopInLine
<1> QED
  BY <1>3, <1>6, RestingRestated DEF Quiet

\* A modified limit ticket rejoins the line.
LEMMA ModifyLimitRejoins ==
    ASSUME BooksInLine, NEW id \in DOMAIN orderMap, NEW quantity \in Nat, NEW price \in Prices,
           modifyLimitTicket(id, quantity, price)
    PROVE  /\ Alters(RestingOrders, RestingOrders', id)
           /\ InLineBehind(levels', arrivals, id)
<1> DEFINE k == orderMap[id].parentLevel
           to == LimitLevel(orderMap[id].isBid, price)
<1>1. Idle /\ k[1] \in LimitBooks /\ Move(id, quantity, price, to)
  BY DEF modifyLimitTicket, IsLimit
<1>2. to[1] \in LimitBooks /\ to[2] = price
  BY DEF LimitLevel, LimitBook, LimitBooks
<1> HIDE DEF to
<1>3. /\ OnlyTicket(orderMap, orderMap', id)
      /\ id \in DOMAIN orderMap'
      /\ orderMap'[id] = NewTicket(orderMap[id].isBid, quantity, price, to)
      /\ LevelsOK(Cancelled(id)) /\ QueuesOK(Cancelled(id), orderMap, {id})
  BY <1>1, MovedTicket
<1>4. Alters(OrdersOf(orderMap), OrdersOf(orderMap'), id)
  <2>1. /\ orderMap'[id].parentLevel = to
        /\ orderMap'[id].quantity = quantity
    BY <1>3 DEF NewTicket
  <2>2. id \in Waiting(orderMap) /\ id \in Waiting(orderMap')
    BY <1>1, <1>2, <1>3, <2>1 DEF Waiting
  <2>3. OrdersOf(orderMap')[id] \in Orders
    BY <1>2, <2>1, <2>2 DEF OrdersOf, Orders
  <2>4. Waiting(orderMap') = Waiting(orderMap)
    BY <1>3, <2>2, OtherOrders
  <2> QED
    BY <1>3, <2>2, <2>3, <2>4, OtherOrders DEF Alters
<1>5. ASSUME NEW n \in DOMAIN arrivals, arrivals[n] = id
      PROVE  InLine(levels', Append(RemoveAt(arrivals, n), id))
  <2>1. PICK i \in DOMAIN levels[k].orders :
            k \in DOMAIN levels /\ levels[k].orders[i] = id
            /\ Cancelled(id) = Unlink(levels, k, i)
    BY <1>1, MovedTicket
  <2>2. /\ LevelsOK(levels) /\ QueuesOK(levels, orderMap, Converting)
        /\ arrivals \in Seq(Resting) /\ InLine(levels, arrivals)
        /\ LinedUp(arrivals, Resting)
    BY CountedBooks DEF BooksInLine, LinedUp
  <2>3. InLine(Cancelled(id), RemoveAt(arrivals, n))
    BY <1>5, <2>1, <2>2, LeftTheLine
  <2>4. LinedUp(RemoveAt(arrivals, n), Resting \ {id})
    BY <1>5, <2>2, LineShrinks
  <2>5. Waiting(orderMap) \ {id} \subseteq Resting \ {id}
    BY RestingRestated
  <2>6. levels' = Enqueue(Cancelled(id), to, orderMap[id].isBid, id, quantity)
    BY <1>1 DEF Move
  <2> QED
    BY <1>3, <2>3, <2>4, <2>5, <2>6, ComesToTheEnds
<1> QED
  BY <1>4, <1>5, RestingRestated DEF InLineBehind

-----------------------------------------------------------------------------
(* The orders that marketOrderHelper takes from.                           *)

\* id is the first of its side by price and then by arrival.
First(o, a, id) ==
    \A other \in DOMAIN o \ {id} :
        o[other].isBid = o[id].isBid =>
            \/ IF o[id].isBid THEN o[id].price > o[other].price
                              ELSE o[id].price < o[other].price
            \/ o[id].price = o[other].price /\ Precedes(a, id, other)

\* The head of the edge level is.
LEMMA HeadIsFirst ==
    ASSUME BooksInLine, NEW p \in Prices, IsEdge(taker.isBid, p)
    PROVE  /\ Maker(p)[1] \in LimitBooks
           /\ Head1(Maker(p)) \in Waiting(orderMap)
           /\ First(OrdersOf(orderMap), arrivals, Head1(Maker(p)))
<1> DEFINE k == Maker(p)
           head == Head1(k)
           o == OrdersOf(orderMap)
<1>1. /\ TypeOK /\ EveryTicketQueuedOnce
      /\ LevelsOK(levels) /\ QueuesOK(levels, orderMap, Converting)
      /\ InLine(levels, arrivals)
  BY CountedBooks DEF BooksInLine, IInv
<1>2. k \in DOMAIN levels
  BY EdgeIsLevel
<1>3. taker.isBid \in BOOLEAN /\ k = <<IF taker.isBid THEN "sell" ELSE "buy", p>>
  BY <1>1 DEF TypeOK, Taker, Maker, MakerBook, LimitBook
<1>4. k[1] \in LimitBooks /\ k[2] = p /\ (k[1] = "buy" <=> ~taker.isBid)
  BY <1>3 DEF LimitBooks
<1>5. /\ 1 \in DOMAIN levels[k].orders /\ head = levels[k].orders[1]
      /\ head \in DOMAIN orderMap /\ orderMap[head].parentLevel = k
  BY <1>1, <1>2, HeadIsMapped
<1>6. head \in Waiting(orderMap)
  BY <1>4, <1>5 DEF Waiting
<1>7. o[head].isBid = (k[1] = "buy") /\ o[head].price = p
  BY <1>4, <1>5, <1>6 DEF OrdersOf
<1> HIDE DEF head
<1>8. ASSUME NEW other \in Waiting(orderMap) \ {head}, o[other].isBid = o[head].isBid
      PROVE  \/ IF o[head].isBid THEN o[head].price > o[other].price
                                 ELSE o[head].price < o[other].price
             \/ o[head].price = o[other].price /\ Precedes(arrivals, head, other)
  <2> DEFINE l == orderMap[other].parentLevel
             q == l[2]
  <2>1. l[1] \in LimitBooks /\ other \in DOMAIN orderMap \ Converting
    BY DEF Waiting, BooksInLine, ConvertedIsStop
  <2>2. /\ l \in DOMAIN levels /\ \E j \in DOMAIN levels[l].orders : levels[l].orders[j] = other
    BY <1>1, <2>1 DEF QueuesOK
  <2>3. l = <<l[1], q>> /\ q \in Prices
    BY <1>1, <2>2 DEF LevelsOK, FunctionInto
  <2>4. o[other].isBid = (l[1] = "buy") /\ o[other].price = q
    BY DEF OrdersOf
  <2>5. l[1] = k[1]
    BY <1>4, <1>7, <1>8, <2>1, <2>4 DEF LimitBooks
  <2>6. k[1] = MakerBook(taker.isBid)
    BY <1>3 DEF MakerBook, LimitBook
  <2> HIDE DEF l, q, k, o
  <2>7. q \in BookPrices(MakerBook(taker.isBid))
    BY <2>2, <2>3, <2>5, <2>6 DEF BookPrices
  <2>8. IF taker.isBid THEN p <= q ELSE p >= q
    BY <2>7 DEF IsEdge
  <2>9. p \in Int /\ q \in Int
    BY <2>3, MaxPriceIsNatural DEF Prices
  <2>10. CASE q # p
    <3>1. o[head].price = p /\ o[other].price = q
      BY <1>7, <2>4
    <3>2. o[head].isBid <=> ~taker.isBid
      BY <1>4, <1>7
    <3>3. IF taker.isBid THEN p < q ELSE p > q
      BY <1>3, <2>8, <2>9, <2>10
    <3> QED
      BY <1>3, <3>1, <3>2, <3>3
  <2>11. CASE q = p
    <3>1. l = k
      BY <1>3, <1>4, <2>3, <2>5, <2>11
    <3>2. PICK j \in DOMAIN levels[k].orders : levels[k].orders[j] = other
      BY <2>2, <3>1
    <3>3. levels[k].orders \in Seq(Ids)
      BY <1>1, <1>2 DEF LevelsOK, FunctionInto, Level
    <3>4. j \in Nat /\ j >= 1 /\ j # 1
      BY <1>5, <3>2, <3>3, LenProperties
    <3>5. Precedes(arrivals, head, other)
      <4>1. Behind(levels[k].orders, arrivals)
        BY <1>1, <1>2, <1>4 DEF InLine
      <4>2. 1 < j
        BY <3>4
      <4> QED
        BY <1>5, <3>2, <4>1, <4>2 DEF Behind
    <3> QED
      BY <1>7, <2>4, <2>11, <3>5
  <2> QED
    BY <2>10, <2>11
<1>9. DOMAIN o = Waiting(orderMap)
  BY DEF OrdersOf
<1> HIDE DEF o
<1>10. First(o, arrivals, head)
  BY <1>8, <1>9 DEF First
<1> QED
  BY <1>4, <1>6, <1>10 DEF head, o

\* A filled head leaves.
LEMMA FilledIsFirst ==
    ASSUME BooksInLine, FillHead
    PROVE  \E id \in DOMAIN RestingOrders :
              /\ First(RestingOrders, arrivals, id)
              /\ Goes(RestingOrders, RestingOrders', id)
              /\ InLineWithout(levels', arrivals, id)
<1>1. PICK p \in Prices :
          /\ IsEdge(taker.isBid, p)
          /\ levels' = Unlink(levels, Maker(p), 1)
          /\ orderMap' = Without(orderMap, Head1(Maker(p)))
  BY DEF FillHead, Fits
<1> DEFINE k == Maker(p)
           head == Head1(k)
<1>2. k \in DOMAIN levels /\ 1 \in DOMAIN levels[k].orders /\ head = levels[k].orders[1]
  BY <1>1, EdgeIsLevel, HeadIsMapped DEF BooksInLine, IInv
<1>3. /\ k[1] \in LimitBooks
      /\ First(RestingOrders, arrivals, head)
  BY <1>1, HeadIsFirst, RestingRestated
<1> HIDE DEF k, head
<1>4. levels' = Unlink(levels, k, 1) /\ orderMap' = Without(orderMap, levels[k].orders[1])
  BY <1>1, <1>2 DEF head, k
<1>5. Goes(RestingOrders, RestingOrders', head) /\ InLineWithout(levels', arrivals, head)
  BY <1>2, <1>3, <1>4, TicketLeaves
<1> QED
  BY <1>3, <1>5 DEF Goes

\* A head that is filled in part keeps its place with fewer shares.
Lessened(o, new, id) ==
    /\ Alters(o, new, id)
    /\ new[id] = [o[id] EXCEPT !.quantity = new[id].quantity]
    /\ new[id].quantity < o[id].quantity

LEMMA PartlyFilledIsFirst ==
    ASSUME BooksInLine, TInv, PartiallyFillHead
    PROVE  \E id \in DOMAIN RestingOrders :
              /\ First(RestingOrders, arrivals, id)
              /\ Lessened(RestingOrders, RestingOrders', id)
              /\ InLine(levels', arrivals)
<1>1. PICK p \in Prices :
          /\ IsEdge(taker.isBid, p)
          /\ ~Fits(p)
          /\ orderMap' = [orderMap EXCEPT ![Head1(Maker(p))].quantity = @ - taker.sweep]
          /\ levels' = [levels EXCEPT ![Maker(p)].totalVolume = @ - taker.sweep]
  BY DEF PartiallyFillHead
<1> DEFINE k == Maker(p)
           head == Head1(k)
           left == orderMap[head].quantity - taker.sweep
<1>2. k \in DOMAIN levels /\ head \in DOMAIN orderMap /\ orderMap[head] \in Ticket
  BY <1>1, EdgeIsLevel, HeadIsMapped DEF BooksInLine, IInv
<1>3. head \in Waiting(orderMap) /\ First(OrdersOf(orderMap), arrivals, head)
  BY <1>1, HeadIsFirst
<1>4. taker.sweep \in Int /\ taker.sweep > 0
  BY DEF BooksInLine, IInv, TypeOK, Taker, TInv, SweepFitsEdge, PartiallyFillHead
<1>5. left \in Nat /\ left < orderMap[head].quantity
  <2>1. ~(orderMap[head].quantity <= taker.sweep) /\ orderMap[head].quantity \in Nat
    BY <1>1, <1>2 DEF Fits, Ticket
  <2> QED
    BY <1>4, <2>1
<1> HIDE DEF k, head
<1>6. orderMap' = [orderMap EXCEPT ![head] = [orderMap[head] EXCEPT !.quantity = left]]
  BY <1>1 DEF head, k
<1> HIDE DEF left
<1>7. /\ OnlyTicket(orderMap, orderMap', head)
      /\ head \in DOMAIN orderMap'
      /\ orderMap'[head].parentLevel = orderMap[head].parentLevel
      /\ orderMap'[head].quantity = left
  <2>1. ASSUME NEW ticket \in Ticket, NEW n
        PROVE  LET new == [ticket EXCEPT !.quantity = n]
               IN  new.parentLevel = ticket.parentLevel /\ new.quantity = n
    BY DEF Ticket
  <2> QED
    BY <1>2, <1>6, <2>1 DEF OnlyTicket
<1>8. head \in Waiting(orderMap') /\ Waiting(orderMap') = Waiting(orderMap)
  <2>1. head \in Waiting(orderMap')
    BY <1>3, <1>7 DEF Waiting
  <2> QED
    BY <1>3, <1>7, <2>1, OtherOrders
<1> DEFINE o == OrdersOf(orderMap)
           new == OrdersOf(orderMap')
<1>9. o[head] \in Orders /\ o[head].quantity = orderMap[head].quantity
  BY <1>3, OrdersAreTyped DEF BooksInLine, IInv, TypeOK, OrdersOf
<1>10. /\ new[head].quantity = left
       /\ new[head] = [o[head] EXCEPT !.quantity = left]
  BY <1>3, <1>7, <1>8 DEF OrdersOf
<1>11. Alters(o, new, head)
  <2>1. new[head] \in Orders
    BY <1>5, <1>9, <1>10 DEF Orders
  <2> HIDE DEF o, new
  <2> QED
    BY <1>3, <1>7, <1>8, <2>1, OtherOrders DEF Alters, o, new
<1>12. InLine(levels', arrivals)
  <2>1. levels[k] \in Level
    BY <1>2 DEF BooksInLine, IInv, TypeOK, FunctionInto
  <2>2. \A kk \in DOMAIN levels : levels'[kk].orders = levels[kk].orders
    BY <1>1, <2>1 DEF Level, k
  <2>3. DOMAIN levels' = DOMAIN levels
    BY <1>1
  <2> QED
    BY <2>2, <2>3 DEF InLine, BooksInLine
<1> HIDE DEF o, new
<1>13. Lessened(o, new, head)
  BY <1>5, <1>9, <1>10, <1>11 DEF Lessened
<1> QED
  BY <1>3, <1>12, <1>13, RestingRestated DEF o, new, Lessened, Alters

-----------------------------------------------------------------------------
(* The other steps of the engine.                                          *)

\* Rounds of the loops; a converted ticket that is unmapped was not in line.
LEMMA RoundIsQuiet ==
    ASSUME BooksInLine,
           EndSweep \/ limitOrderAsMarketOrder \/ existingOrderAsMarketOrder \/ StopsDone
    PROVE  Quiet
<1>1. CASE UNCHANGED <<levels, orderMap>>
  BY <1>1, UnchangedIsQuiet
<1>2. CASE pc = "convert" /\ levels' = levels /\ orderMap' = Without(orderMap, taker.id)
  <2>1. taker.id \notin Waiting(orderMap)
    BY <1>2 DEF Waiting, BooksInLine, ConvertedIsStop, Converting
  <2>2. OnlyTicket(orderMap, orderMap', taker.id) /\ taker.id \notin Waiting(orderMap')
    BY <1>2 DEF Without, Restrict, OnlyTicket, Waiting
  <2>3. OrdersOf(orderMap') = OrdersOf(orderMap)
    BY <2>1, <2>2, NoOrderChanges
  <2> QED
    BY <1>2, <2>3, RestingRestated DEF Quiet, BooksInLine
<1> QED
  BY <1>1, <1>2 DEF EndSweep, limitOrderAsMarketOrder, existingOrderAsMarketOrder, StopsDone

\* The residual of a limit order and the converted ticket get to the end.
LEMMA ResidualComes ==
    ASSUME BooksInLine, LimitLoopEnds \/ ConvertLoopEnds
    PROVE  \/ Quiet
           \/ \E id \in Ids :
                 /\ Comes(RestingOrders, RestingOrders', id)
                 /\ InLine(levels', Append(arrivals, id))
<1> DEFINE id == taker.id
           k == LimitLevel(taker.isBid, taker.limit)
<1>1. taker \in Taker /\ taker.rest \in Nat /\ TakerFitsBooks
  BY DEF BooksInLine, IInv, TypeOK, Taker
<1>2. ASSUME taker.limit \in Prices, id \in Ids, id \notin Waiting(orderMap),
             OnlyTicket(orderMap, orderMap', id), id \in DOMAIN orderMap',
             orderMap'[id].parentLevel = k, orderMap'[id].quantity = taker.rest,
             levels' = Enqueue(levels, k, taker.isBid, id, taker.rest)
      PROVE  /\ Comes(RestingOrders, RestingOrders', id)
             /\ InLine(levels', Append(arrivals, id))
  <2>1. k[1] \in LimitBooks /\ k[2] \in Prices
    BY <1>2 DEF LimitLevel, LimitBook, LimitBooks
  <2> HIDE DEF id, k
  <2>2. id \in Waiting(orderMap')
    BY <1>2, <2>1 DEF Waiting
  <2>3. Waiting(orderMap') = Waiting(orderMap) \cup {id}
    BY <1>2, <2>2, OtherOrders
  <2>4. OrdersOf(orderMap')[id] \in Orders
    BY <1>1, <1>2, <2>1, <2>2 DEF OrdersOf, Orders
  <2>5. Comes(OrdersOf(orderMap), OrdersOf(orderMap'), id)
    BY <1>2, <2>3, <2>4, OtherOrders DEF Comes
  <2>6. /\ LevelsOK(levels) /\ QueuesOK(levels, orderMap, Converting)
        /\ InLine(levels, arrivals) /\ LinedUp(arrivals, Resting)
        /\ Waiting(orderMap) \ Converting \subseteq Resting
    BY CountedBooks, RestingRestated DEF BooksInLine
  <2>7. InLine(levels', Append(arrivals, id))
    BY <1>2, <2>6, ComesToTheEnds
  <2> QED
    BY <2>5, <2>7, RestingRestated
<1>3. CASE LimitLoopEnds /\ taker.rest = 0
  BY <1>3, UnchangedIsQuiet DEF LimitLoopEnds
<1>4. CASE LimitLoopEnds /\ taker.rest # 0
  <2>1. id \in Ids \ DOMAIN orderMap /\ taker.limit \in Prices
    BY <1>1, <1>4 DEF LimitLoopEnds, TakerFitsBooks, InLoop
  <2>2. Rest(id, taker.isBid, taker.rest, taker.limit, k)
    BY <1>4 DEF LimitLoopEnds
  <2> HIDE DEF id, k
  <2>3. /\ OnlyTicket(orderMap, orderMap', id) /\ id \in DOMAIN orderMap'
        /\ orderMap'[id] = NewTicket(taker.isBid, taker.rest, taker.limit, k)
        /\ levels' = Enqueue(levels, k, taker.isBid, id, taker.rest)
    BY <2>2 DEF Rest, With, OnlyTicket
  <2>4. orderMap'[id].parentLevel = k /\ orderMap'[id].quantity = taker.rest
    BY <2>3 DEF NewTicket
  <2>5. id \notin Waiting(orderMap)
    BY <2>1 DEF Waiting
  <2> QED
    BY <1>2, <2>1, <2>3, <2>4, <2>5
<1>5. CASE ConvertLoopEnds
  <2>1. pc = "convert" /\ Converting = {id}
    BY <1>5 DEF ConvertLoopEnds, Converting
  <2>2. id \in DOMAIN orderMap /\ taker.limit \in Prices /\ taker.rest # 0
    BY <1>1, <2>1 DEF TakerFitsBooks, InLoop
  <2>3. /\ levels' = Enqueue(levels, k, taker.isBid, id, taker.rest)
        /\ orderMap' = [orderMap EXCEPT ![id].quantity = taker.rest, ![id].parentLevel = k]
    BY <1>5, <2>2 DEF ConvertLoopEnds
  <2>4. id \in Ids /\ orderMap[id] \in Ticket
    BY <2>2 DEF BooksInLine, IInv, TypeOK, FunctionInto
  <2>5. id \notin Waiting(orderMap)
    BY <2>1 DEF Waiting, BooksInLine, ConvertedIsStop
  <2> DEFINE new == [orderMap[id] EXCEPT !.quantity = taker.rest, !.parentLevel = k]
  <2>6. orderMap' = [orderMap EXCEPT ![id] = new]
    BY <2>2, <2>3
  <2>7. new.quantity = taker.rest /\ new.parentLevel = k
    <3>1. ASSUME NEW ticket \in Ticket, NEW n, NEW kk
          PROVE  LET t == [ticket EXCEPT !.quantity = n, !.parentLevel = kk]
                 IN  t.quantity = n /\ t.parentLevel = kk
      BY DEF Ticket
    <3> QED
      BY <2>4, <3>1
  <2> HIDE DEF new, id, k
  <2>8. OnlyTicket(orderMap, orderMap', id) /\ id \in DOMAIN orderMap' /\ orderMap'[id] = new
    BY <2>2, <2>6 DEF OnlyTicket
  <2> QED
    BY <1>2, <2>2, <2>3, <2>4, <2>5, <2>7, <2>8
<1> QED
  BY <1>3, <1>4, <1>5

\* A triggered ticket was in a queue of the stop book.
LEMMA TriggerIsQuiet ==
    ASSUME BooksInLine, TriggerStop \/ TriggerStopLimit
    PROVE  Quiet
<1>1. PICK p \in Prices :
          /\ Triggered(p)
          /\ levels' = Unlink(levels, <<"stop", p>>, 1)
          /\ \/ orderMap' = Without(orderMap, Head1(<<"stop", p>>))
             \/ orderMap' = orderMap
  BY DEF TriggerStop, TriggerStopLimit
<1> DEFINE k == <<"stop", p>>
<1>2. k[1] \notin LimitBooks
  BY DEF LimitBooks
<1>3. k \in DOMAIN levels
  BY <1>1, StopEdgeIsLevel
<1> HIDE DEF k
<1>4. /\ 1 \in DOMAIN levels[k].orders /\ Head1(k) = levels[k].orders[1]
      /\ levels' = Unlink(levels, k, 1)
  BY <1>1, <1>3, HeadIsMapped DEF BooksInLine, IInv, k
<1>5. CASE orderMap' = Without(orderMap, Head1(k))
  BY <1>2, <1>3, <1>4, <1>5, TicketLeaves
<1>6. CASE orderMap' = orderMap
  <2>1. InLine(levels', arrivals)
    BY <1>3, <1>4, CountedBooks, UnlinkedInLine DEF BooksInLine
  <2> QED
    BY <1>6, <2>1, RestingRestated DEF Quiet
<1> QED
  BY <1>1, <1>5, <1>6 DEF k

-----------------------------------------------------------------------------
(* The line.  LineUp follows the orders, and so they stay lined up.        *)

LEMMA QuietLine ==
    ASSUME LinedUp(arrivals, Resting), LineUp, RestingOrders' = RestingOrders
    PROVE  arrivals' = arrivals /\ LinedUp(arrivals', Resting')
<1>1. Resting' = Resting
  <2>1. Waiting(orderMap') = Waiting(orderMap)
    BY RestingRestated DEF OrdersOf
  <2> QED
    BY <2>1, RestingRestated
<1>2. \A i \in DOMAIN arrivals : arrivals[i] \in Resting => Resting # Resting \ {arrivals[i]}
  OBVIOUS
<1>3. arrivals' = arrivals
  BY <1>1, <1>2 DEF LineUp, Follows
<1> QED
  BY <1>1, <1>3

LEMMA LongerLine ==
    ASSUME LinedUp(arrivals, Resting), LineUp, NEW id, Comes(RestingOrders, RestingOrders', id)
    PROVE  arrivals' = Append(arrivals, id) /\ LinedUp(arrivals', Resting')
<1>1. id \in Ids \ Resting /\ Resting' = Resting \cup {id}
  BY RestingRestated DEF Comes, OrdersOf
<1>2. arrivals' = Append(arrivals, id)
  <2>1. ~(Resting' = Resting)
    BY <1>1
  <2>2. \A other \in Ids \ Resting : Resting' = Resting \cup {other} => other = id
    BY <1>1
  <2>3. \A i \in DOMAIN arrivals : ~(Resting' = Resting \ {arrivals[i]})
    BY <1>1
  <2> QED
    BY <2>1, <2>2, <2>3 DEF LineUp, Follows
<1>3. LinedUp(Append(arrivals, id), Resting \cup {id})
  BY <1>1, LineGrows
<1> QED
  BY <1>1, <1>2, <1>3

LEMMA ShorterLine ==
    ASSUME LinedUp(arrivals, Resting), LineUp, NEW id, Goes(RestingOrders, RestingOrders', id)
    PROVE  /\ \E i \in DOMAIN arrivals : arrivals[i] = id /\ arrivals' = RemoveAt(arrivals, i)
           /\ LinedUp(arrivals', Resting')
<1>1. id \in Resting /\ Resting' = Resting \ {id}
  BY RestingRestated DEF Goes, OrdersOf
<1>2. PICK i \in DOMAIN arrivals : arrivals[i] = id /\ arrivals' = RemoveAt(arrivals, i)
  <2>1. ~(Resting' = Resting)
    BY <1>1
  <2>2. \A other \in Ids \ Resting : ~(Resting' = Resting \cup {other})
    BY <1>1
  <2>3. \A i \in DOMAIN arrivals :
            arrivals[i] \in Resting /\ Resting' = Resting \ {arrivals[i]} => arrivals[i] = id
    BY <1>1
  <2> QED
    BY <2>1, <2>2, <2>3 DEF LineUp, Follows
<1>3. LinedUp(RemoveAt(arrivals, i), Resting \ {id})
  BY <1>2, LineShrinks
<1> QED
  BY <1>1, <1>2, <1>3

LEMMA RejoinedLine ==
    ASSUME LinedUp(arrivals, Resting), NEW id, Alters(RestingOrders, RestingOrders', id),
           Rejoins(id)
    PROVE  LinedUp(arrivals', Resting')
<1>1. id \in Resting /\ Resting' = Resting
  BY RestingRestated DEF Alters, OrdersOf
<1>2. PICK i \in DOMAIN arrivals :
          arrivals[i] = id /\ arrivals' = Append(RemoveAt(arrivals, i), id)
  BY DEF Rejoins
<1>3. LinedUp(RemoveAt(arrivals, i), Resting \ {id})
  BY <1>2, LineShrinks
<1>4. LinedUp(Append(RemoveAt(arrivals, i), id), (Resting \ {id}) \cup {id})
  BY <1>3, LineGrows
<1>5. (Resting \ {id}) \cup {id} = Resting
  BY <1>1
<1> QED
  BY <1>1, <1>2, <1>4, <1>5

-----------------------------------------------------------------------------
(* The steps of PriceTimePriority.                                         *)

LEMMA FirstRestated ==
    ASSUME NEW id, First(RestingOrders, arrivals, id)
    PROVE  Priority!IsFirst(id)
BY DEF First, Precedes, Priority!IsFirst, Priority!Better

LEMMA Arrives ==
    ASSUME NEW id, Comes(RestingOrders, RestingOrders', id), arrivals' = Append(arrivals, id)
    PROVE  Priority!Arrive(id)
BY DEF Comes, Orders, Priority!Arrive, Priority!Changes, Priority!Order

LEMMA Leaves ==
    ASSUME NEW id, Goes(RestingOrders, RestingOrders', id),
           \E i \in DOMAIN arrivals : arrivals[i] = id /\ arrivals' = RemoveAt(arrivals, i)
    PROVE  Priority!Leave(id)
<1>1. RestingOrders' = [other \in DOMAIN RestingOrders' |-> RestingOrders'[other]]
  BY RestingRestated DEF OrdersOf
<1>2. RestingOrders' = Restrict(RestingOrders, DOMAIN RestingOrders \ {id})
  BY <1>1 DEF Goes, Restrict
<1> QED
  BY <1>2 DEF Priority!Leave, Priority!RemoveAt, RemoveAt, Priority!Restrict, Restrict

LEMMA RejoinsLine ==
    ASSUME NEW id, Alters(RestingOrders, RestingOrders', id), Rejoins(id)
    PROVE  Priority!Rejoin(id)
BY DEF Alters, Rejoins, Orders, RemoveAt, Priority!Rejoin, Priority!RemoveAt, Priority!Changes,
       Priority!Order

LEMMA Trades ==
    ASSUME NEW id, First(RestingOrders, arrivals, id)
    PROVE  /\ Priority!Leave(id) => Priority!Trade(id)
           /\ Lessened(RestingOrders, RestingOrders', id) /\ arrivals' = arrivals
                 => Priority!Trade(id)
<1>1. Priority!IsFirst(id)
  BY FirstRestated
<1>2. Priority!Leave(id) => Priority!Trade(id)
  BY <1>1 DEF Priority!Trade
<1>3. ASSUME Lessened(RestingOrders, RestingOrders', id), arrivals' = arrivals
      PROVE  Priority!Trade(id)
  <2>1. Priority!Changes(id, DOMAIN RestingOrders)
    BY <1>3 DEF Lessened, Alters, Orders, Priority!Changes, Priority!Order
  <2> QED
    BY <1>1, <1>3, <2>1 DEF Lessened, Priority!Trade
<1> QED
  BY <1>2, <1>3

-----------------------------------------------------------------------------
(* The refinement.                                                         *)

\* A call runs while nothing is being swept, and only a sweep fills orders.
LEMMA CallsAreIdle ==
    ASSUME Submit \/ Cancels \/ ModifyLimit \/ ModifyStop
    PROVE  pc # "sweep"
BY DEF Idle, Submit, submitMarketTicket, submitLimitTicket, submitStopTicket,
       submitStopLimitTicket, Cancels, cancelLimitTicket, cancelStopTicket,
       cancelStopLimitTicket, ModifyLimit, modifyLimitTicket, ModifyStop,
       modifyStopTicket, modifyStopLimitTicket

PriorityStep ==
    /\ LinedUp(arrivals', Resting') /\ InLine(levels', arrivals')
    /\ Priority!PriorityNext

LEMMA QuietStep ==
    ASSUME BooksInLine, LineUp, Quiet
    PROVE  PriorityStep
<1>1. arrivals' = arrivals /\ LinedUp(arrivals', Resting')
  BY QuietLine DEF BooksInLine, Quiet
<1>2. Priority!PriorityNext
  BY <1>1 DEF Quiet, Priority!PriorityNext
<1> QED
  BY <1>1, <1>2 DEF Quiet, PriorityStep

LEMMA ArriveStep ==
    ASSUME BooksInLine, LineUp, pc # "sweep",
           NEW id \in Ids, Comes(RestingOrders, RestingOrders', id),
           InLine(levels', Append(arrivals, id))
    PROVE  PriorityStep
<1>1. arrivals' = Append(arrivals, id) /\ LinedUp(arrivals', Resting')
  BY LongerLine DEF BooksInLine
<1>2. Priority!Arrive(id)
  BY <1>1, Arrives
<1>3. Priority!PriorityNext
  BY <1>2 DEF Priority!PriorityNext
<1> QED
  BY <1>1, <1>3 DEF PriorityStep

LEMMA LeaveStep ==
    ASSUME BooksInLine, LineUp,
           NEW id \in DOMAIN RestingOrders, Goes(RestingOrders, RestingOrders', id),
           InLineWithout(levels', arrivals, id),
           pc = "sweep" => First(RestingOrders, arrivals, id)
    PROVE  PriorityStep
<1>1. /\ \E i \in DOMAIN arrivals : arrivals[i] = id /\ arrivals' = RemoveAt(arrivals, i)
      /\ LinedUp(arrivals', Resting')
  BY ShorterLine DEF BooksInLine
<1>2. InLine(levels', arrivals')
  BY <1>1 DEF InLineWithout
<1>3. Priority!Leave(id)
  BY <1>1, Leaves
<1>4. CASE pc = "sweep"
  <2>1. Priority!Trade(id)
    BY <1>3, <1>4, Trades
  <2>2. Priority!PriorityNext
    BY <1>4, <2>1 DEF Priority!PriorityNext
  <2> QED
    BY <1>1, <1>2, <2>2 DEF PriorityStep
<1>5. CASE pc # "sweep"
  <2>1. Priority!PriorityNext
    BY <1>3, <1>5 DEF Priority!PriorityNext
  <2> QED
    BY <1>1, <1>2, <2>1 DEF PriorityStep
<1> QED
  BY <1>4, <1>5

LEMMA LessenStep ==
    ASSUME BooksInLine, LineUp, pc = "sweep",
           NEW id \in DOMAIN RestingOrders, First(RestingOrders, arrivals, id),
           Lessened(RestingOrders, RestingOrders', id), InLine(levels', arrivals)
    PROVE  PriorityStep
<1>1. Resting' = Resting /\ arrivals' = arrivals
  <2>1. Resting' = Resting
    BY RestingRestated DEF Lessened, Alters, OrdersOf
  <2>2. \A i \in DOMAIN arrivals : arrivals[i] \in Resting => Resting # Resting \ {arrivals[i]}
    OBVIOUS
  <2> QED
    BY <2>1, <2>2 DEF LineUp, Follows
<1>2. Priority!Trade(id)
  BY <1>1, Trades
<1>3. Priority!PriorityNext
  BY <1>2 DEF Priority!PriorityNext
<1> QED
  BY <1>1, <1>3 DEF PriorityStep, BooksInLine

LEMMA RejoinStep ==
    ASSUME BooksInLine, pc # "sweep", NEW id,
           Alters(RestingOrders, RestingOrders', id), Rejoins(id),
           InLineBehind(levels', arrivals, id)
    PROVE  PriorityStep
<1>1. LinedUp(arrivals', Resting')
  BY RejoinedLine DEF BooksInLine
<1>2. InLine(levels', arrivals')
  BY DEF InLineBehind, Rejoins
<1>3. Priority!Rejoin(id) /\ id \in DOMAIN RestingOrders
  BY RejoinsLine DEF Alters
<1>4. Priority!PriorityNext
  BY <1>3 DEF Priority!PriorityNext
<1> QED
  BY <1>1, <1>2, <1>4 DEF PriorityStep

\* Every step of the engine and its history is one of PriceTimePriority.
LEMMA StepsOfPriority ==
    ASSUME BooksInLine, TInv, HistoryNext
    PROVE  PriorityStep
<1>1. CASE (Submit \/ ModifyStop) /\ LineUp
  BY <1>1, SubmitIsQuiet, ModifyStopIsQuiet, QuietStep
<1>2. CASE Cancels /\ LineUp
  <2>1. pc # "sweep"
    BY <1>2, CallsAreIdle
  <2> QED
    BY <1>2, <2>1, CancelsLeave, QuietStep, LeaveStep
<1>3. CASE Engine /\ LineUp
  <2>1. CASE FillHead
    BY <1>3, <2>1, FilledIsFirst, LeaveStep
  <2>2. CASE PartiallyFillHead
    <3>1. pc = "sweep"
      BY <2>2 DEF PartiallyFillHead
    <3> QED
      BY <1>3, <2>2, <3>1, PartlyFilledIsFirst, LessenStep
  <2>3. CASE LimitLoopEnds \/ ConvertLoopEnds
    <3>1. pc # "sweep"
      BY <2>3 DEF LimitLoopEnds, ConvertLoopEnds
    <3> QED
      BY <1>3, <2>3, <3>1, ResidualComes, QuietStep, ArriveStep
  <2>4. CASE EndSweep \/ limitOrderAsMarketOrder \/ existingOrderAsMarketOrder \/ StopsDone
    BY <1>3, <2>4, RoundIsQuiet, QuietStep
  <2>5. CASE TriggerStop \/ TriggerStopLimit
    BY <1>3, <2>5, TriggerIsQuiet, QuietStep
  <2> QED
    BY <1>3, <2>1, <2>2, <2>3, <2>4, <2>5 DEF Engine
<1>4. ASSUME NEW id \in DOMAIN orderMap, NEW newShares \in Quantities, NEW newLimit \in Prices,
             modifyLimitTicket(id, newShares, newLimit), Rejoins(id)
      PROVE  PriorityStep
  <2>1. newShares \in Nat /\ pc # "sweep"
    BY <1>4, QuantitiesAreNatural DEF modifyLimitTicket, Idle
  <2> QED
    BY <1>4, <2>1, ModifyLimitRejoins, RejoinStep
<1> QED
  BY <1>1, <1>2, <1>3, <1>4 DEF HistoryNext

\* A step of the history is a step of the engine.
LEMMA HistoryOfNext ==
    ASSUME HistoryNext
    PROVE  Next
BY DEF HistoryNext, Next, ModifyLimit

HistoryInv == BooksInLine /\ Counted /\ TInv

LEMMA HistoryInitInvariant ==
    ASSUME HistoryInit
    PROVE  HistoryInv /\ Priority!PriorityInit
<1>1. Init /\ DOMAIN levels = {} /\ DOMAIN orderMap = {} /\ arrivals = <<>> /\ pc = "idle"
  BY DEF HistoryInit, Init
<1>2. IInv
  BY <1>1, InitInvariant
<1>3. Counted /\ TInv
  <2>1. SweepFitsEdge /\ TakerAccounted
    BY <1>1, TakersBeginAccounted DEF Init, SweepFitsEdge, TakerAccounted, AtRest
  <2> QED
    BY <1>1, <2>1 DEF Counted, VolumesOK, TInv
<1>4. ConvertedIsStop
  BY <1>1 DEF ConvertedIsStop, Converting
<1>5. LinedUp(arrivals, Resting)
  <2>1. Resting = {}
    BY <1>1 DEF Resting
  <2> QED
    BY <1>1, <2>1, EmptySeq DEF LinedUp
<1>6. InLine(levels, arrivals)
  BY <1>1 DEF InLine
<1>7. RestingOrders = [id \in {} |-> 0]
  BY <1>1 DEF RestingOrders, Resting
<1> QED
  BY <1>1, <1>2, <1>3, <1>4, <1>5, <1>6, <1>7
     DEF HistoryInv, BooksInLine, Priority!PriorityInit

LEMMA HistoryStepInvariant ==
    ASSUME HistoryInv, PositiveQuantities, [HistoryNext]_<<vars, arrivals>>
    PROVE  HistoryInv' /\ [Priority!PriorityNext]_(Priority!priorityVars)
<1>1. CASE HistoryNext
  <2>1. Next
    BY <1>1, HistoryOfNext
  <2>2. IInv' /\ Counted' /\ TInv' /\ ConvertedIsStop'
    BY <2>1, NextInvariant, NextVolumes, NextAccounts, NextConverts
       DEF HistoryInv, BooksInLine
  <2>3. PriorityStep
    BY <1>1, StepsOfPriority DEF HistoryInv
  <2> QED
    BY <2>2, <2>3 DEF HistoryInv, BooksInLine, PriorityStep
<1>2. CASE UNCHANGED <<vars, arrivals>>
  <2>1. UNCHANGED vars
    BY <1>2
  <2>2. IInv' /\ Counted' /\ TInv' /\ ConvertedIsStop'
    BY <2>1, NextInvariant, NextVolumes, NextAccounts, NextConverts
       DEF HistoryInv, BooksInLine
  <2>3. /\ arrivals' = arrivals /\ Resting' = Resting /\ levels' = levels
        /\ RestingOrders' = RestingOrders /\ pc' = pc
    BY <1>2, RestingRestated DEF vars
  <2> QED
    BY <2>2, <2>3 DEF HistoryInv, BooksInLine, Priority!priorityVars
<1> QED
  BY <1>1, <1>2

\* The history follows whatever the engine does: in every state that HistoryInv
\* describes there is a line for each step of Next, so that HistorySpec has all the
\* behaviours of the engine.
THEOREM HistoryBlocksNoStep ==
    ASSUME HistoryInv, Next
    PROVE  \/ \E line : Follows(arrivals, Resting, line, Resting')
           \/ \E id \in DOMAIN orderMap, newShares \in Quantities, newLimit \in Prices :
                 /\ modifyLimitTicket(id, newShares, newLimit)
                 /\ \E i \in DOMAIN arrivals : arrivals[i] = id
<1>1. BooksInLine /\ TInv /\ LinedUp(arrivals, Resting)
  BY DEF HistoryInv, BooksInLine
<1>2. CASE ModifyLimit
  <2>1. PICK id \in DOMAIN orderMap, newShares \in Quantities, newLimit \in Prices :
            modifyLimitTicket(id, newShares, newLimit)
    BY <1>2 DEF ModifyLimit
  <2>2. id \in Resting
    BY <2>1 DEF modifyLimitTicket, IsLimit, Resting
  <2> QED
    BY <1>1, <2>1, <2>2 DEF LinedUp
<1>3. CASE Quiet
  <2>1. Resting' = Resting
    BY <1>3, RestingRestated DEF Quiet, OrdersOf
  <2> QED
    BY <2>1 DEF Follows
<1>4. ASSUME NEW id \in Ids, Comes(RestingOrders, RestingOrders', id)
      PROVE  \E line : Follows(arrivals, Resting, line, Resting')
  <2>1. id \in Ids \ Resting /\ Resting' = Resting \cup {id}
    BY <1>4, RestingRestated DEF Comes, OrdersOf
  <2> QED
    BY <2>1 DEF Follows
<1>5. ASSUME NEW id, Goes(RestingOrders, RestingOrders', id)
      PROVE  \E line : Follows(arrivals, Resting, line, Resting')
  <2>1. id \in Resting /\ Resting' = Resting \ {id}
    BY <1>5, RestingRestated DEF Goes, OrdersOf
  <2>2. PICK i \in DOMAIN arrivals : arrivals[i] = id
    BY <1>1, <2>1 DEF LinedUp
  <2> QED
    BY <2>1, <2>2 DEF Follows
<1>6. ASSUME NEW id, Lessened(RestingOrders, RestingOrders', id)
      PROVE  \E line : Follows(arrivals, Resting, line, Resting')
  <2>1. Resting' = Resting
    BY <1>6, RestingRestated DEF Lessened, Alters, OrdersOf
  <2> QED
    BY <2>1 DEF Follows
<1>7. CASE Engine
  BY <1>1, <1>3, <1>4, <1>5, <1>6, <1>7, FilledIsFirst, PartlyFilledIsFirst,
     ResidualComes, RoundIsQuiet, TriggerIsQuiet DEF Engine
<1> QED
  BY <1>1, <1>2, <1>3, <1>5, <1>7, SubmitIsQuiet, CancelsLeave, ModifyStopIsQuiet DEF Next

\* If no ticket is submitted or modified with 0 shares, then the engine fills
\* resting orders in strict price-time priority, as README.md:74 says: every fill,
\* whole or in part, takes from the order of its side that is first by price and,
\* at that price, by arrival, and nothing but cancels, modifications and the ends of
\* the limit loops moves an order in the line.
THEOREM FillsByPriority ==
    ASSUME PositiveQuantities
    PROVE  HistorySpec => PriceTimePriority
<1>1. HistoryInit => HistoryInv /\ Priority!PriorityInit
  BY HistoryInitInvariant
<1>2. HistoryInv /\ [HistoryNext]_<<vars, arrivals>>
         => HistoryInv' /\ [Priority!PriorityNext]_(Priority!priorityVars)
  BY HistoryStepInvariant
<1> QED
  BY <1>1, <1>2, PTL DEF HistorySpec, PriceTimePriority, Priority!PrioritySpec

=============================================================================
