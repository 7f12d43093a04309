------------------------- MODULE TicketStore_proofs --------------------------
(***************************************************************************)
(* Theorems about TicketStore, for every set of ids, of keys and of        *)
(* quantities, every width of int and every number of tickets.             *)
(***************************************************************************)
EXTENDS TicketStore, SumsAndSequences

-----------------------------------------------------------------------------
(* The arenas.                                                             *)

ArenaOK(arena, objects) ==
    /\ arena \in Arena
    /\ Accounts(arena, objects)

\* The first cells of a new block follow those of the blocks before.
LEMMA CellsGrow ==
    ASSUME NEW arena \in Arena
    PROVE  /\ arena.blocks * BlockSize \in Nat
           /\ (arena.blocks + 1) * BlockSize = arena.blocks * BlockSize + BlockSize
           /\ Cells(arena) \subseteq Nat \ {0}
<1>1. arena.blocks \in Nat /\ BlockSize \in Nat
  BY BlockSizeIsPositive DEF Arena
<1>2. ASSUME NEW a \in Nat, NEW b \in Nat
      PROVE  a * b \in Nat /\ (a + 1) * b = a * b + b
  OBVIOUS
<1>3. /\ arena.blocks * BlockSize \in Nat
      /\ (arena.blocks + 1) * BlockSize = arena.blocks * BlockSize + BlockSize
  BY <1>1, <1>2
<1> QED
  BY <1>3 DEF Cells

\* grow keeps the account, and afterwards there is a free cell.
LEMMA GrowAccounts ==
    ASSUME NEW arena, NEW objects, ArenaOK(arena, objects)
    PROVE  /\ ArenaOK(grow(arena), objects)
           /\ grow(arena).freeList # <<>>
<1> DEFINE base == arena.blocks * BlockSize
           old == arena.freeList
           new == [i \in 1..BlockSize |-> base + i]
<1>1. /\ base \in Nat /\ arena.blocks \in Nat /\ BlockSize \in Nat \ {0}
      /\ (arena.blocks + 1) * BlockSize = base + BlockSize
      /\ old \in Seq(Nat)
  BY BlockSizeIsPositive, CellsGrow DEF ArenaOK, Arena
<1>2. new \in Seq(Nat) /\ Len(new) = BlockSize
  <2> HIDE DEF base
  <2>1. \A i \in 1..BlockSize : base + i \in Nat
    BY <1>1
  <2> QED
    BY <1>1, <2>1
<1>3. /\ old \o new \in Seq(Nat)
      /\ Len(old \o new) = Len(old) + BlockSize
      /\ \A i \in 1..(Len(old) + BlockSize) :
            (old \o new)[i] = IF i <= Len(old) THEN old[i] ELSE base + (i - Len(old))
  <2>1. /\ old \o new \in Seq(Nat)
        /\ Len(old \o new) = Len(old) + Len(new)
        /\ \A i \in 1..(Len(old) + Len(new)) :
              (old \o new)[i] = IF i <= Len(old) THEN old[i] ELSE new[i - Len(old)]
    BY <1>1, <1>2, ConcatProperties
  <2>2. Len(old) \in Nat
    BY <1>1
  <2>3. \A i \in 1..(Len(old) + BlockSize) :
            ~(i <= Len(old)) => new[i - Len(old)] = base + (i - Len(old))
    <3> HIDE DEF base, old
    <3> QED
      BY <1>1, <2>2
  <2> HIDE DEF old, new, base
  <2> QED
    BY <1>2, <2>1, <2>3
<1>4. grow(arena) = [blocks |-> arena.blocks + 1, freeList |-> old \o new]
  BY DEF grow
<1>5. grow(arena) \in Arena
  <2> HIDE DEF old, new
  <2> QED
    BY <1>1, <1>3, <1>4 DEF Arena
<1>6. Cells(arena) = 1..base /\ Cells(grow(arena)) = 1..(base + BlockSize)
  BY <1>1, <1>4 DEF Cells
<1> DEFINE list == old \o new
<1>7. grow(arena).freeList = list
  <2> HIDE DEF old, new
  <2> QED
    BY <1>4
<1>8. Range(list) = Range(old) \cup (base + 1)..(base + BlockSize)
  <2>1. Len(old) \in Nat /\ DOMAIN old = 1..Len(old)
        /\ DOMAIN list = 1..(Len(old) + BlockSize)
    BY <1>1, <1>3, LenProperties
  <2> HIDE DEF old, list, base
  <2>2. ASSUME NEW x \in Range(list)
        PROVE  x \in Range(old) \cup (base + 1)..(base + BlockSize)
    <3>1. PICK i \in DOMAIN list : x = list[i]
      BY DEF Range
    <3> QED
      BY <1>1, <1>3, <2>1, <3>1 DEF Range, list
  <2>3. ASSUME NEW x \in Range(old)
        PROVE  x \in Range(list)
    <3>1. PICK i \in DOMAIN old : x = old[i]
      BY DEF Range
    <3>2. i \in DOMAIN list /\ list[i] = old[i]
      BY <1>1, <1>3, <2>1 DEF list
    <3> QED
      BY <3>1, <3>2 DEF Range
  <2>4. ASSUME NEW x \in (base + 1)..(base + BlockSize)
        PROVE  x \in Range(list)
    <3> DEFINE i == Len(old) + (x - base)
    <3>1. i \in DOMAIN list /\ list[i] = x
      BY <1>1, <1>3, <2>1 DEF list
    <3> QED
      BY <3>1 DEF Range
  <2> QED
    BY <2>2, <2>3, <2>4
<1>9. IsInjective(old) /\ Range(old) \cap objects = {} /\ Range(old) \cup objects = 1..base
  BY <1>6 DEF ArenaOK, Accounts
<1>10. IsInjective(list)
  <2>1. /\ Len(old) \in Nat /\ DOMAIN old = 1..Len(old)
        /\ DOMAIN list = 1..(Len(old) + BlockSize)
    BY <1>1, <1>3, LenProperties
  <2>2. \A i \in DOMAIN old : old[i] \in 1..base
    BY <1>9 DEF Range
  <2>3. \A i, j \in DOMAIN old : old[i] = old[j] => i = j
    BY <1>9 DEF IsInjective
  <2> HIDE DEF old, list, base
  <2>4. ASSUME NEW i \in DOMAIN list
        PROVE  \/ i \in DOMAIN old /\ list[i] = old[i] /\ list[i] \in 1..base
               \/ i \in Nat /\ ~(i <= Len(old)) /\ list[i] = base + (i - Len(old))
    BY <1>1, <1>3, <2>1, <2>2, SMTT(30) DEF list
  <2>5. ASSUME NEW i \in Nat, ~(i <= Len(old))
        PROVE  base + (i - Len(old)) \notin 1..base
    BY <1>1, <2>1, <2>5
  <2>6. ASSUME NEW i \in Nat, NEW j \in Nat,
               base + (i - Len(old)) = base + (j - Len(old))
        PROVE  i = j
    BY <1>1, <2>1, <2>6
  <2>7. ASSUME NEW i \in DOMAIN list, NEW j \in DOMAIN list, list[i] = list[j]
        PROVE  i = j
    <3>1. CASE i \in DOMAIN old /\ list[i] = old[i] /\ list[i] \in 1..base
      BY <2>3, <2>4, <2>5, <2>7, <3>1
    <3>2. CASE i \in Nat /\ ~(i <= Len(old)) /\ list[i] = base + (i - Len(old))
      BY <2>4, <2>5, <2>6, <2>7, <3>2
    <3> QED
      BY <2>4, <3>1, <3>2
  <2> QED
    BY <2>7 DEF IsInjective
<1>11. Accounts(grow(arena), objects)
  <2>1. Range(list) \cap objects = {}
    <3> HIDE DEF list, old, base
    <3> QED
      BY <1>1, <1>8, <1>9
  <2>2. Range(list) \cup objects = 1..(base + BlockSize)
    <3> HIDE DEF list, old, base
    <3> QED
      BY <1>1, <1>8, <1>9
  <2> QED
    BY <1>6, <1>7, <1>10, <2>1, <2>2 DEF Accounts
<1>12. list # <<>>
  <2> HIDE DEF old, list
  <2>1. Len(list) # 0
    BY <1>1, <1>3 DEF list
  <2> QED
    BY <2>1
<1> QED
  BY <1>5, <1>7, <1>11, <1>12 DEF ArenaOK

\* What alloc hands out was nobody's, and is accounted for as an object.
LEMMA AllocAccounts ==
    ASSUME NEW arena, NEW objects, ArenaOK(arena, objects)
    PROVE  /\ NextCell(arena) \in Nat \ {0}
           /\ NextCell(arena) \notin objects
           /\ ArenaOK(alloc(arena), objects \cup {NextCell(arena)})
<1> DEFINE w == WithFreeCell(arena)
           list == w.freeList
           cell == NextCell(arena)
<1>1. ArenaOK(w, objects) /\ list # <<>>
  BY GrowAccounts DEF WithFreeCell
<1>2. w \in Arena /\ list \in Seq(Nat) /\ w.blocks \in Nat
  BY <1>1 DEF ArenaOK, Arena
<1>3. /\ IsInjective(list) /\ Range(list) \cap objects = {}
      /\ Range(list) \cup objects = Cells(w)
  BY <1>1 DEF ArenaOK, Accounts
<1>4. cell = list[Len(list)]
  BY DEF NextCell, Last
<1> DEFINE front == SubSeq(list, 1, Len(list) - 1)
<1>5. alloc(arena) = [w EXCEPT !.freeList = front]
  BY DEF alloc, Front
<1>6. Cells(w) \subseteq Nat \ {0}
  BY <1>2, CellsGrow
<1> HIDE DEF w, list
<1>7. Len(list) \in Nat \ {0} /\ DOMAIN list = 1..Len(list)
  BY <1>1, <1>2
<1>8. /\ front \in Seq(Nat) /\ Len(front) = Len(list) - 1
      /\ DOMAIN front = 1..(Len(list) - 1)
      /\ \A i \in 1..(Len(list) - 1) : front[i] = list[i]
  <2>1. \A i \in 1..(Len(list) - 1) : list[i] \in Nat
    BY <1>2, <1>7
  <2> QED
    BY <1>7, <2>1, SubSeqProperties
<1> HIDE DEF front, cell
<1>9. cell \in Range(list)
  BY <1>4, <1>7 DEF Range
<1>10. \A i, j \in DOMAIN list : list[i] = list[j] => i = j
  BY <1>3 DEF IsInjective
<1>11. Range(front) = Range(list) \ {cell}
  <2>1. \A i \in DOMAIN front : front[i] \in Range(list) \ {cell}
    <3> SUFFICES ASSUME NEW i \in DOMAIN front
                 PROVE  front[i] \in Range(list) \ {cell}
      OBVIOUS
    <3>1. i \in DOMAIN list /\ Len(list) \in DOMAIN list /\ i # Len(list) /\ front[i] = list[i]
      BY <1>7, <1>8
    <3>2. list[i] # cell
      BY <1>4, <1>10, <3>1
    <3> QED
      BY <3>1, <3>2 DEF Range
  <2>2. ASSUME NEW x \in Range(list) \ {cell}
        PROVE  x \in Range(front)
    <3>1. PICK i \in DOMAIN list : x = list[i]
      BY DEF Range
    <3>2. i \in DOMAIN front /\ front[i] = x
      BY <1>4, <1>7, <1>8, <3>1
    <3> QED
      BY <3>2 DEF Range
  <2> QED
    BY <2>1, <2>2 DEF Range
<1>12. IsInjective(front)
  BY <1>7, <1>8, <1>10 DEF IsInjective
<1>13. /\ alloc(arena) \in Arena
       /\ alloc(arena).freeList = front /\ alloc(arena).blocks = w.blocks
  BY <1>2, <1>5, <1>8 DEF Arena
<1>14. Cells(alloc(arena)) = Cells(w)
  BY <1>13 DEF Cells
<1>15. Accounts(alloc(arena), objects \cup {cell})
  BY <1>3, <1>9, <1>11, <1>12, <1>13, <1>14 DEF Accounts
<1>16. cell \in Nat \ {0} /\ cell \notin objects
  BY <1>3, <1>6, <1>9
<1> QED
  BY <1>13, <1>15, <1>16 DEF ArenaOK, cell

\* A cell that is given back is nobody's.
LEMMA FreeAccounts ==
    ASSUME NEW arena, NEW objects, ArenaOK(arena, objects), NEW cell \in objects
    PROVE  ArenaOK(free(arena, cell), objects \ {cell})
<1> DEFINE list == arena.freeList
           longer == Append(list, cell)
<1>1. arena \in Arena /\ list \in Seq(Nat) /\ arena.blocks \in Nat
  BY DEF ArenaOK, Arena
<1>2. /\ IsInjective(list) /\ Range(list) \cap objects = {}
      /\ Range(list) \cup objects = Cells(arena)
  BY DEF ArenaOK, Accounts
<1>3. cell \in Nat
  BY <1>1, <1>2, CellsGrow
<1>4. free(arena, cell) = [arena EXCEPT !.freeList = longer]
  BY DEF free
<1> HIDE DEF list
<1>5. Len(list) \in Nat /\ DOMAIN list = 1..Len(list)
  BY <1>1
<1>6. /\ longer \in Seq(Nat) /\ Len(longer) = Len(list) + 1
      /\ DOMAIN longer = 1..(Len(list) + 1)
      /\ \A i \in 1..Len(list) : longer[i] = list[i]
      /\ longer[Len(list) + 1] = cell
  BY <1>1, <1>3, <1>5, AppendProperties
<1> HIDE DEF longer
<1>7. cell \notin Range(list)
  BY <1>2
<1>8. \A i, j \in DOMAIN list : list[i] = list[j] => i = j
  BY <1>2 DEF IsInjective
<1>9. \A i \in DOMAIN list : list[i] # cell
  BY <1>7 DEF Range
<1>10. IsInjective(longer)
  BY <1>5, <1>6, <1>8, <1>9 DEF IsInjective
<1>11. Range(longer) = Range(list) \cup {cell}
  <2>1. \A i \in DOMAIN longer : longer[i] \in Range(list) \cup {cell}
    BY <1>5, <1>6 DEF Range
  <2>2. \A i \in DOMAIN list : list[i] \in Range(longer)
    BY <1>5, <1>6 DEF Range
  <2>3. cell \in Range(longer)
    BY <1>5, <1>6 DEF Range
  <2> QED
    BY <2>1, <2>2, <2>3 DEF Range
<1>12. /\ free(arena, cell) \in Arena
       /\ free(arena, cell).freeList = longer
       /\ free(arena, cell).blocks = arena.blocks
  BY <1>1, <1>4, <1>6 DEF Arena
<1>13. Cells(free(arena, cell)) = Cells(arena)
  BY <1>12 DEF Cells
<1>14. Accounts(free(arena, cell), objects \ {cell})
  BY <1>2, <1>10, <1>11, <1>12, <1>13 DEF Accounts
<1> QED
  BY <1>12, <1>14 DEF ArenaOK

\* The constructor makes an arena without objects.
LEMMA NewArenaAccounts == ArenaOK(NewArena, {})
<1> DEFINE none == [blocks |-> 0, freeList |-> <<>>]
<1>1. none \in Arena
  BY DEF Arena
<1>2. Cells(none) = {}
  BY BlockSizeIsPositive DEF Cells
<1>3. Accounts(none, {})
  BY <1>2 DEF Accounts, IsInjective, Range
<1>4. ArenaOK(none, {})
  BY <1>1, <1>3 DEF ArenaOK
<1> HIDE DEF none
<1> QED
  BY <1>4, GrowAccounts DEF NewArena, none


-----------------------------------------------------------------------------
(* Memories.  What an operation leaves is described by its cells and their *)
(* fields.                                                                 *)

IsMemory(m) ==
    m \in [orderPool : {m.orderPool}, limitPool : {m.limitPool},
           ticket : {m.ticket}, level : {m.level},
           orderMap : {m.orderMap}, levelMap : {m.levelMap}]

IsTicket(a) ==
    a \in [idNumber : {a.idNumber}, quantity : {a.quantity}, nextOrder : {a.nextOrder},
           prevOrder : {a.prevOrder}, parentLevel : {a.parentLevel}]

IsLevel(a) ==
    a \in [levelPrice : {a.levelPrice}, size : {a.size}, totalVolume : {a.totalVolume},
           headOrder : {a.headOrder}, tailOrder : {a.tailOrder}]

\* A memory has the fields of one, and so have the objects in it.
Shaped(m) ==
    /\ IsMemory(m)
    /\ m.ticket = [x \in DOMAIN m.ticket |-> m.ticket[x]]
    /\ m.level = [k \in DOMAIN m.level |-> m.level[k]]
    /\ \A x \in DOMAIN m.ticket : IsTicket(m.ticket[x])
    /\ \A k \in DOMAIN m.level : IsLevel(m.level[k])

\* m and r have the same objects and maps, and the objects their identities.
SameObjects(m, r) ==
    /\ r.orderPool = m.orderPool /\ r.limitPool = m.limitPool
    /\ r.orderMap = m.orderMap /\ r.levelMap = m.levelMap
    /\ DOMAIN r.ticket = DOMAIN m.ticket /\ DOMAIN r.level = DOMAIN m.level
    /\ \A x \in DOMAIN m.ticket : r.ticket[x].idNumber = m.ticket[x].idNumber
    /\ \A k \in DOMAIN m.level : r.level[k].levelPrice = m.level[k].levelPrice

\* r is m but for the ticket in cell x, or but for the level in cell l.
OtherTicket(m, r, x) ==
    /\ Shaped(r) /\ SameObjects(m, r)
    /\ r.level = m.level
    /\ \A y \in DOMAIN m.ticket \ {x} : r.ticket[y] = m.ticket[y]

OtherLevel(m, r, l) ==
    /\ Shaped(r) /\ SameObjects(m, r)
    /\ r.ticket = m.ticket
    /\ \A k \in DOMAIN m.level \ {l} : r.level[k] = m.level[k]

\* The assignment of a ticket.
LEMMA TicketIsSet ==
    ASSUME NEW m, Shaped(m), NEW x \in DOMAIN m.ticket,
           NEW ticket, IsTicket(ticket), ticket.idNumber = m.ticket[x].idNumber
    PROVE  LET r == [m EXCEPT !.ticket[x] = ticket]
           IN  OtherTicket(m, r, x) /\ r.ticket[x] = ticket
<1> DEFINE r == [m EXCEPT !.ticket[x] = ticket]
<1>1. IsMemory(m)
  BY DEF Shaped
<1>2. IsMemory(r)
  BY <1>1 DEF IsMemory
<1>3. r.ticket = [m.ticket EXCEPT ![x] = ticket]
  BY <1>1 DEF IsMemory
<1>4. /\ r.level = m.level
      /\ r.orderPool = m.orderPool /\ r.limitPool = m.limitPool
      /\ r.orderMap = m.orderMap /\ r.levelMap = m.levelMap
  BY <1>1 DEF IsMemory
<1> HIDE DEF r
<1>5. /\ \A y \in DOMAIN m.ticket \ {x} : r.ticket[y] = m.ticket[y]
      /\ r.ticket[x] = ticket /\ DOMAIN r.ticket = DOMAIN m.ticket
      /\ r.ticket = [y \in DOMAIN r.ticket |-> r.ticket[y]]
  BY <1>3
<1>6. Shaped(r)
  BY <1>2, <1>4, <1>5 DEF Shaped
<1>7. SameObjects(m, r)
  BY <1>4, <1>5 DEF SameObjects
<1> QED
  BY <1>4, <1>5, <1>6, <1>7 DEF OtherTicket, r

\* The assignment of a level.
LEMMA LevelIsSet ==
    ASSUME NEW m, Shaped(m), NEW l \in DOMAIN m.level,
           NEW level, IsLevel(level), level.levelPrice = m.level[l].levelPrice
    PROVE  LET r == [m EXCEPT !.level[l] = level]
           IN  OtherLevel(m, r, l) /\ r.level[l] = level
<1> DEFINE r == [m EXCEPT !.level[l] = level]
<1>1. IsMemory(m)
  BY DEF Shaped
<1>2. IsMemory(r)
  BY <1>1 DEF IsMemory
<1>3. r.level = [m.level EXCEPT ![l] = level]
  BY <1>1 DEF IsMemory
<1>4. /\ r.ticket = m.ticket
      /\ r.orderPool = m.orderPool /\ r.limitPool = m.limitPool
      /\ r.orderMap = m.orderMap /\ r.levelMap = m.levelMap
  BY <1>1 DEF IsMemory
<1> HIDE DEF r
<1>5. /\ \A k \in DOMAIN m.level \ {l} : r.level[k] = m.level[k]
      /\ r.level[l] = level /\ DOMAIN r.level = DOMAIN m.level
      /\ r.level = [k \in DOMAIN r.level |-> r.level[k]]
  BY <1>3
<1>6. Shaped(r)
  BY <1>2, <1>4, <1>5 DEF Shaped
<1>7. SameObjects(m, r)
  BY <1>4, <1>5 DEF SameObjects
<1> QED
  BY <1>4, <1>5, <1>6, <1>7 DEF OtherLevel, r



\* Assignments of single fields.
SetTicket(m, x, f, v) == [m EXCEPT !.ticket[x][f] = v]
SetLevel(m, l, f, v) == [m EXCEPT !.level[l][f] = v]

\* The assignment of one field of a ticket leaves its other fields.
LEMMA TicketFieldIsSet ==
    ASSUME NEW m, Shaped(m), NEW x \in DOMAIN m.ticket,
           NEW f \in {"quantity", "nextOrder", "prevOrder", "parentLevel"}, NEW v
    PROVE  LET r == SetTicket(m, x, f, v)
               Now(g) == IF f = g THEN v ELSE m.ticket[x][g]
           IN  /\ OtherTicket(m, r, x)
               /\ r.ticket[x].quantity = Now("quantity")
               /\ r.ticket[x].nextOrder = Now("nextOrder")
               /\ r.ticket[x].prevOrder = Now("prevOrder")
               /\ r.ticket[x].parentLevel = Now("parentLevel")
<1> DEFINE ticket == [m.ticket[x] EXCEPT ![f] = v]
           Now(g) == IF f = g THEN v ELSE m.ticket[x][g]
<1>1. SetTicket(m, x, f, v) = [m EXCEPT !.ticket[x] = ticket]
  BY DEF SetTicket
<1>2. IsTicket(m.ticket[x])
  BY DEF Shaped
<1>3. /\ IsTicket(ticket)
      /\ ticket.idNumber = m.ticket[x].idNumber
  BY <1>2 DEF IsTicket
<1>4. /\ ticket.quantity = Now("quantity") /\ ticket.nextOrder = Now("nextOrder")
      /\ ticket.prevOrder = Now("prevOrder") /\ ticket.parentLevel = Now("parentLevel")
  BY <1>2 DEF IsTicket
<1> HIDE DEF ticket
<1>5. LET r == [m EXCEPT !.ticket[x] = ticket]
      IN  OtherTicket(m, r, x) /\ r.ticket[x] = ticket
  BY <1>3, TicketIsSet
<1> QED
  BY <1>1, <1>4, <1>5

\* The assignment of one field of a level leaves its other fields.
LEMMA LevelFieldIsSet ==
    ASSUME NEW m, Shaped(m), NEW l \in DOMAIN m.level,
           NEW f \in {"size", "totalVolume", "headOrder", "tailOrder"}, NEW v
    PROVE  LET r == SetLevel(m, l, f, v)
               Now(g) == IF f = g THEN v ELSE m.level[l][g]
           IN  /\ OtherLevel(m, r, l)
               /\ r.level[l].size = Now("size")
               /\ r.level[l].totalVolume = Now("totalVolume")
               /\ r.level[l].headOrder = Now("headOrder")
               /\ r.level[l].tailOrder = Now("tailOrder")
<1> DEFINE level == [m.level[l] EXCEPT ![f] = v]
           Now(g) == IF f = g THEN v ELSE m.level[l][g]
<1>1. SetLevel(m, l, f, v) = [m EXCEPT !.level[l] = level]
  BY DEF SetLevel
<1>2. IsLevel(m.level[l])
  BY DEF Shaped
<1>3. /\ IsLevel(level)
      /\ level.levelPrice = m.level[l].levelPrice
  BY <1>2 DEF IsLevel
<1>4. /\ level.size = Now("size") /\ level.totalVolume = Now("totalVolume")
      /\ level.headOrder = Now("headOrder") /\ level.tailOrder = Now("tailOrder")
  BY <1>2 DEF IsLevel
<1> HIDE DEF level
<1>5. LET r == [m EXCEPT !.level[l] = level]
      IN  OtherLevel(m, r, l) /\ r.level[l] = level
  BY <1>3, LevelIsSet
<1> QED
  BY <1>1, <1>4, <1>5

-----------------------------------------------------------------------------
(* append, cancel and execute.                                             *)

SameLinks(m, r, x) ==
    /\ r.ticket[x].nextOrder = m.ticket[x].nextOrder
    /\ r.ticket[x].prevOrder = m.ticket[x].prevOrder

SameShares(m, r, x) ==
    /\ r.ticket[x].quantity = m.ticket[x].quantity
    /\ r.ticket[x].parentLevel = m.ticket[x].parentLevel

SameCount(m, r, k) ==
    /\ r.level[k].size = m.level[k].size
    /\ r.level[k].totalVolume = m.level[k].totalVolume

\* The tickets keep their shares, all but t their levels, and the levels but l
\* all they have.
OneListChanges(m, r, l, t) ==
    /\ Shaped(r) /\ SameObjects(m, r)
    /\ \A x \in DOMAIN m.ticket : r.ticket[x].quantity = m.ticket[x].quantity
    /\ \A x \in DOMAIN m.ticket \ {t} : r.ticket[x].parentLevel = m.ticket[x].parentLevel
    /\ \A k \in DOMAIN m.level \ {l} : r.level[k] = m.level[k]

\* What append does: t is behind the tail of level l.
Appends(m, r, l, t) ==
    LET tail == m.level[l].tailOrder
    IN  /\ OneListChanges(m, r, l, t)
        /\ r.ticket[t].parentLevel = l
        /\ r.level[l].size = m.level[l].size + 1
        /\ r.level[l].totalVolume = Wrap(m.level[l].totalVolume + m.ticket[t].quantity)
        /\ r.level[l].tailOrder = t
        /\ m.level[l].headOrder = Null =>
              /\ r.level[l].headOrder = t
              /\ \A x \in DOMAIN m.ticket : SameLinks(m, r, x)
        /\ m.level[l].headOrder # Null =>
              /\ r.level[l].headOrder = m.level[l].headOrder
              /\ r.ticket[t].prevOrder = tail /\ r.ticket[t].nextOrder = Null
              /\ r.ticket[tail].nextOrder = t
              /\ r.ticket[tail].prevOrder = m.ticket[tail].prevOrder
              /\ \A x \in DOMAIN m.ticket \ {t, tail} : SameLinks(m, r, x)

\* append sets the fields of the ticket, of the tail and of the level, no others.
LEMMA AppendFields ==
    ASSUME NEW m, Shaped(m), NEW l \in DOMAIN m.level, NEW t \in DOMAIN m.ticket,
           m.level[l].headOrder # Null => m.level[l].tailOrder \in DOMAIN m.ticket \ {t}
    PROVE  Appends(m, append(m, l, t), l, t)
<1> DEFINE tail == m.level[l].tailOrder
           a == SetTicket(m, tail, "nextOrder", t)
           b == SetTicket(a, t, "prevOrder", tail)
           c == SetTicket(b, t, "nextOrder", Null)
           linked == IF m.level[l].headOrder = Null THEN SetLevel(m, l, "headOrder", t) ELSE c
           d == SetLevel(linked, l, "tailOrder", t)
           e == SetLevel(d, l, "size", linked.level[l].size + 1)
           volume == Wrap(linked.level[l].totalVolume + m.ticket[t].quantity)
           f == SetLevel(e, l, "totalVolume", volume)
           r == SetTicket(f, t, "parentLevel", l)
<1>1. append(m, l, t) = r
  BY ZenonT(40) DEF append, SetTicket, SetLevel
<1>2. /\ Shaped(linked) /\ SameObjects(m, linked)
      /\ \A x \in DOMAIN m.ticket :
            /\ linked.ticket[x].quantity = m.ticket[x].quantity
            /\ linked.ticket[x].parentLevel = m.ticket[x].parentLevel
      /\ \A k \in DOMAIN m.level \ {l} : linked.level[k] = m.level[k]
      /\ linked.level[l].size = m.level[l].size
      /\ linked.level[l].totalVolume = m.level[l].totalVolume
      /\ m.level[l].headOrder = Null =>
            /\ linked.level[l].headOrder = t
            /\ \A x \in DOMAIN m.ticket : SameLinks(m, linked, x)
      /\ m.level[l].headOrder # Null =>
            /\ linked.level[l].headOrder = m.level[l].headOrder
            /\ linked.ticket[t].prevOrder = tail /\ linked.ticket[t].nextOrder = Null
            /\ linked.ticket[tail].nextOrder = t
            /\ linked.ticket[tail].prevOrder = m.ticket[tail].prevOrder
            /\ \A x \in DOMAIN m.ticket \ {t, tail} : SameLinks(m, linked, x)
  <2>1. CASE m.level[l].headOrder = Null
    <3>1. linked = SetLevel(m, l, "headOrder", t)
      BY <2>1
    <3> HIDE DEF linked
    <3> QED
      BY <2>1, <3>1, LevelFieldIsSet DEF OtherLevel, SameObjects, SameLinks
  <2>2. CASE m.level[l].headOrder # Null
    <3>1. linked = c /\ tail \in DOMAIN m.ticket \ {t}
      BY <2>2
    <3> HIDE DEF linked, c, tail
    <3>2. /\ OtherTicket(m, a, tail)
          /\ a.ticket[tail].quantity = m.ticket[tail].quantity
          /\ a.ticket[tail].parentLevel = m.ticket[tail].parentLevel
          /\ a.ticket[tail].nextOrder = t
          /\ a.ticket[tail].prevOrder = m.ticket[tail].prevOrder
      BY <3>1, TicketFieldIsSet
    <3> HIDE DEF a
    <3>3. /\ OtherTicket(a, b, t)
          /\ b.ticket[t].quantity = a.ticket[t].quantity
          /\ b.ticket[t].parentLevel = a.ticket[t].parentLevel
          /\ b.ticket[t].prevOrder = tail
      BY <3>2, TicketFieldIsSet DEF OtherTicket, SameObjects
    <3> HIDE DEF b
    <3>4. /\ OtherTicket(b, c, t)
          /\ c.ticket[t].quantity = b.ticket[t].quantity
          /\ c.ticket[t].parentLevel = b.ticket[t].parentLevel
          /\ c.ticket[t].prevOrder = tail
          /\ c.ticket[t].nextOrder = Null
      BY <3>2, <3>3, TicketFieldIsSet DEF OtherTicket, SameObjects, c
    <3> QED
      BY <2>2, <3>1, <3>2, <3>3, <3>4 DEF OtherTicket, SameObjects, SameLinks
  <2> QED
    BY <2>1, <2>2, ZenonT(40)
<1> HIDE DEF linked, tail
<1>3. /\ OtherLevel(linked, d, l)
      /\ d.level[l].size = linked.level[l].size
      /\ d.level[l].totalVolume = linked.level[l].totalVolume
      /\ d.level[l].headOrder = linked.level[l].headOrder
      /\ d.level[l].tailOrder = t
  BY <1>2, LevelFieldIsSet, SMTT(30) DEF SameObjects
<1> HIDE DEF d
<1>4. /\ OtherLevel(d, e, l)
      /\ e.level[l].size = linked.level[l].size + 1
      /\ e.level[l].totalVolume = linked.level[l].totalVolume
      /\ e.level[l].headOrder = linked.level[l].headOrder
      /\ e.level[l].tailOrder = t
  BY <1>2, <1>3, LevelFieldIsSet, SMTT(30) DEF OtherLevel, SameObjects
<1> HIDE DEF e, volume
<1>5. /\ OtherLevel(e, f, l)
      /\ f.level[l].size = linked.level[l].size + 1
      /\ f.level[l].totalVolume = volume
      /\ f.level[l].headOrder = linked.level[l].headOrder
      /\ f.level[l].tailOrder = t
  BY <1>2, <1>3, <1>4, LevelFieldIsSet, SMTT(30) DEF OtherLevel, SameObjects
<1> HIDE DEF f
<1>6. /\ OtherTicket(f, r, t)
      /\ r.ticket[t].quantity = f.ticket[t].quantity
      /\ r.ticket[t].parentLevel = l
      /\ SameLinks(f, r, t)
  BY <1>2, <1>3, <1>4, <1>5, TicketFieldIsSet, SMTT(30) DEF OtherLevel, SameObjects, SameLinks
<1> HIDE DEF r
<1>7. OneListChanges(m, r, l, t)
  BY <1>2, <1>3, <1>4, <1>5, <1>6, SMTT(30)
     DEF OneListChanges, OtherLevel, OtherTicket, SameObjects
<1>8. \A x \in DOMAIN m.ticket : SameLinks(linked, r, x)
  BY <1>2, <1>3, <1>4, <1>5, <1>6 DEF OtherLevel, OtherTicket, SameObjects, SameLinks
<1>9. r.level = f.level
  BY <1>6 DEF OtherTicket
<1>10. m.level[l].headOrder # Null => tail \in DOMAIN m.ticket
  BY DEF tail
<1>11. /\ r.ticket[t].parentLevel = l
       /\ r.level[l].size = m.level[l].size + 1
       /\ r.level[l].totalVolume = Wrap(m.level[l].totalVolume + m.ticket[t].quantity)
       /\ r.level[l].tailOrder = t
       /\ r.level[l].headOrder = linked.level[l].headOrder
  <2>1. /\ linked.level[l].size = m.level[l].size
        /\ linked.level[l].totalVolume = m.level[l].totalVolume
    BY <1>2
  <2> QED
    BY <1>5, <1>6, <1>9, <2>1 DEF volume
<1>12. ASSUME m.level[l].headOrder = Null
       PROVE  /\ r.level[l].headOrder = t
              /\ \A x \in DOMAIN m.ticket : SameLinks(m, r, x)
  BY <1>2, <1>8, <1>11, <1>12 DEF SameLinks
<1>13. ASSUME m.level[l].headOrder # Null
       PROVE  /\ r.level[l].headOrder = m.level[l].headOrder
              /\ r.ticket[t].prevOrder = tail /\ r.ticket[t].nextOrder = Null
              /\ r.ticket[tail].nextOrder = t
              /\ r.ticket[tail].prevOrder = m.ticket[tail].prevOrder
              /\ \A x \in DOMAIN m.ticket \ {t, tail} : SameLinks(m, r, x)
  BY <1>2, <1>8, <1>10, <1>11, <1>13 DEF SameLinks
<1>14. Appends(m, r, l, t)
  BY <1>7, <1>11, <1>12, <1>13 DEF Appends, tail
<1> QED
  BY <1>1, <1>14

\* What cancel does, and for the head of a level execute: the tickets before
\* and behind t are linked with each other.
Unlinks(m, r, t) ==
    LET l == m.ticket[t].parentLevel
        next == m.ticket[t].nextOrder
        prev == m.ticket[t].prevOrder
    IN  /\ OneListChanges(m, r, l, t)
        /\ r.ticket[t].parentLevel = l
        /\ r.level[l].size = m.level[l].size - 1
        /\ r.level[l].totalVolume = Wrap(m.level[l].totalVolume - m.ticket[t].quantity)
        /\ r.level[l].headOrder = IF prev = Null THEN next ELSE m.level[l].headOrder
        /\ r.level[l].tailOrder = IF next = Null THEN prev ELSE m.level[l].tailOrder
        /\ \A x \in DOMAIN m.ticket \ {t, next, prev} : SameLinks(m, r, x)
        /\ prev # Null => /\ r.ticket[prev].nextOrder = next
                          /\ r.ticket[prev].prevOrder = m.ticket[prev].prevOrder
        /\ next # Null => /\ r.ticket[next].prevOrder = prev
                          /\ r.ticket[next].nextOrder = m.ticket[next].nextOrder

\* Discount touches the counts of the ticket's level.
LEMMA DiscountFields ==
    ASSUME NEW m, Shaped(m), NEW t \in DOMAIN m.ticket,
           m.ticket[t].parentLevel \in DOMAIN m.level
    PROVE  LET r == Discount(m, t)
               l == m.ticket[t].parentLevel
           IN  /\ OtherLevel(m, r, l)
               /\ r.level[l].headOrder = m.level[l].headOrder
               /\ r.level[l].tailOrder = m.level[l].tailOrder
               /\ r.level[l].size = m.level[l].size - 1
               /\ r.level[l].totalVolume
                      = Wrap(m.level[l].totalVolume - m.ticket[t].quantity)
<1> DEFINE l == m.ticket[t].parentLevel
           volume == Wrap(m.level[l].totalVolume - m.ticket[t].quantity)
           a == SetLevel(m, l, "totalVolume", volume)
           r == SetLevel(a, l, "size", m.level[l].size - 1)
<1>1. Discount(m, t) = r
  BY Zenon DEF Discount, SetLevel
<1> HIDE DEF volume, l
<1>2. l \in DOMAIN m.level
  BY DEF l
<1>3. /\ OtherLevel(m, a, l)
      /\ a.level[l].size = m.level[l].size
      /\ a.level[l].totalVolume = volume
      /\ a.level[l].headOrder = m.level[l].headOrder
      /\ a.level[l].tailOrder = m.level[l].tailOrder
  BY <1>2, LevelFieldIsSet, SMTT(30)
<1> HIDE DEF a
<1>4. /\ OtherLevel(a, r, l)
      /\ r.level[l].size = m.level[l].size - 1
      /\ r.level[l].totalVolume = volume
      /\ r.level[l].headOrder = m.level[l].headOrder
      /\ r.level[l].tailOrder = m.level[l].tailOrder
  BY <1>2, <1>3, LevelFieldIsSet, SMTT(30) DEF OtherLevel, SameObjects
<1> HIDE DEF r
<1>5. OtherLevel(m, r, l)
  BY <1>2, <1>3, <1>4 DEF OtherLevel, SameObjects
<1> QED
  BY <1>1, <1>4, <1>5 DEF volume, l

\* cancel does so for any ticket of a list, which keeps its own links.
LEMMA CancelFields ==
    ASSUME NEW m, Shaped(m), NEW t \in DOMAIN m.ticket,
           m.ticket[t].parentLevel \in DOMAIN m.level,
           NEW next, next = m.ticket[t].nextOrder, NEW prev, prev = m.ticket[t].prevOrder,
           next # Null => next \in DOMAIN m.ticket \ {t, prev},
           prev # Null => prev \in DOMAIN m.ticket \ {t, next},
           t # Null
    PROVE  /\ Unlinks(m, cancel(m, t), t)
           /\ SameLinks(m, cancel(m, t), t)
<1> DEFINE l == m.ticket[t].parentLevel
           a == IF prev = Null THEN SetLevel(m, l, "headOrder", next)
                ELSE SetTicket(m, prev, "nextOrder", next)
           b == IF next = Null THEN SetLevel(a, l, "tailOrder", prev)
                ELSE SetTicket(a, next, "prevOrder", prev)
           r == Discount(b, t)
<1>1. cancel(m, t) = r
  BY ZenonT(40) DEF cancel, SetTicket, SetLevel
<1> HIDE DEF l
<1>2. l \in DOMAIN m.level
  BY DEF l
<1>3. /\ OneListChanges(m, a, l, t)
      /\ SameShares(m, a, t) /\ SameCount(m, a, l)
      /\ a.level[l].headOrder = IF prev = Null THEN next ELSE m.level[l].headOrder
      /\ a.level[l].tailOrder = m.level[l].tailOrder
      /\ \A x \in DOMAIN m.ticket \ {prev} : SameLinks(m, a, x)
      /\ prev # Null => /\ a.ticket[prev].nextOrder = next
                        /\ a.ticket[prev].prevOrder = m.ticket[prev].prevOrder
  <2>1. CASE prev = Null
    <3>1. a = SetLevel(m, l, "headOrder", next)
      BY <2>1
    <3> HIDE DEF a
    <3> QED
      BY <1>2, <2>1, <3>1, LevelFieldIsSet, SMTT(30)
         DEF OneListChanges, OtherLevel, SameObjects, SameLinks, SameShares, SameCount
  <2>2. CASE prev # Null
    <3>1. a = SetTicket(m, prev, "nextOrder", next) /\ prev \in DOMAIN m.ticket \ {t}
      BY <2>2
    <3> HIDE DEF a
    <3>2. /\ OtherTicket(m, a, prev) /\ SameShares(m, a, prev)
          /\ a.ticket[prev].nextOrder = next
          /\ a.ticket[prev].prevOrder = m.ticket[prev].prevOrder
      BY <3>1, TicketFieldIsSet, SMTT(30) DEF SameShares
    <3> QED
      BY <1>2, <2>2, <3>1, <3>2, ZenonT(40)
         DEF OneListChanges, OtherTicket, SameObjects, SameLinks, SameShares, SameCount
  <2> QED
    BY <2>1, <2>2, ZenonT(40)
<1> HIDE DEF a
<1>4. /\ OneListChanges(a, b, l, t)
      /\ SameShares(a, b, t) /\ SameCount(a, b, l)
      /\ b.level[l].headOrder = a.level[l].headOrder
      /\ b.level[l].tailOrder = IF next = Null THEN prev ELSE a.level[l].tailOrder
      /\ \A x \in DOMAIN m.ticket \ {next} : SameLinks(a, b, x)
      /\ next # Null => /\ b.ticket[next].prevOrder = prev
                        /\ b.ticket[next].nextOrder = a.ticket[next].nextOrder
  <2>1. Shaped(a) /\ DOMAIN a.ticket = DOMAIN m.ticket /\ DOMAIN a.level = DOMAIN m.level
    BY <1>3 DEF OneListChanges, SameObjects
  <2>2. CASE next = Null
    <3>1. b = SetLevel(a, l, "tailOrder", prev)
      BY <2>2
    <3> HIDE DEF b
    <3>2. /\ OtherLevel(a, b, l) /\ SameCount(a, b, l)
          /\ b.level[l].headOrder = a.level[l].headOrder
          /\ b.level[l].tailOrder = prev
      BY <1>2, <2>1, <3>1, LevelFieldIsSet DEF SameCount
    <3> QED
      BY <1>2, <2>1, <2>2, <3>2
         DEF OneListChanges, OtherLevel, SameObjects, SameLinks, SameShares, SameCount
  <2>3. CASE next # Null
    <3>1. b = SetTicket(a, next, "prevOrder", prev) /\ next \in DOMAIN m.ticket \ {t}
      BY <2>3
    <3> HIDE DEF b
    <3>2. /\ OtherTicket(a, b, next) /\ SameShares(a, b, next)
          /\ b.ticket[next].prevOrder = prev
          /\ b.ticket[next].nextOrder = a.ticket[next].nextOrder
      BY <2>1, <3>1, TicketFieldIsSet, SMTT(30) DEF SameShares
    <3> QED
      BY <1>2, <2>1, <2>3, <3>1, <3>2, ZenonT(40)
         DEF OneListChanges, OtherTicket, SameObjects, SameLinks, SameShares, SameCount
  <2> QED
    BY <2>2, <2>3
<1> HIDE DEF b
<1>5. /\ OneListChanges(m, b, l, t)
      /\ SameShares(m, b, t) /\ SameCount(m, b, l)
  BY <1>2, <1>3, <1>4, SMTT(30) DEF OneListChanges, SameObjects, SameShares, SameCount
<1>6. /\ SameLinks(m, b, t)
      /\ \A x \in DOMAIN m.ticket \ {t, next, prev} : SameLinks(m, b, x)
      /\ prev # Null => /\ b.ticket[prev].nextOrder = next
                        /\ b.ticket[prev].prevOrder = m.ticket[prev].prevOrder
      /\ next # Null => /\ b.ticket[next].prevOrder = prev
                        /\ b.ticket[next].nextOrder = m.ticket[next].nextOrder
  <2>1. /\ \A x \in DOMAIN m.ticket \ {prev} : SameLinks(m, a, x)
        /\ \A x \in DOMAIN m.ticket \ {next} : SameLinks(a, b, x)
        /\ prev # Null => /\ a.ticket[prev].nextOrder = next
                          /\ a.ticket[prev].prevOrder = m.ticket[prev].prevOrder
        /\ next # Null => /\ b.ticket[next].prevOrder = prev
                          /\ b.ticket[next].nextOrder = a.ticket[next].nextOrder
    BY <1>3, <1>4
  <2>2. /\ t # prev /\ t # next
        /\ prev # Null => prev \in DOMAIN m.ticket \ {next}
        /\ next # Null => next \in DOMAIN m.ticket \ {prev}
    OBVIOUS
  <2> QED
    BY <2>1, <2>2 DEF SameLinks
<1>7. /\ b.level[l].headOrder = IF prev = Null THEN next ELSE m.level[l].headOrder
      /\ b.level[l].tailOrder = IF next = Null THEN prev ELSE m.level[l].tailOrder
  BY <1>3, <1>4
<1>8. /\ OtherLevel(b, r, l)
      /\ r.level[l].headOrder = b.level[l].headOrder
      /\ r.level[l].tailOrder = b.level[l].tailOrder
      /\ r.level[l].size = m.level[l].size - 1
      /\ r.level[l].totalVolume = Wrap(m.level[l].totalVolume - m.ticket[t].quantity)
  <2>1. /\ Shaped(b) /\ t \in DOMAIN b.ticket
        /\ b.ticket[t].parentLevel = l /\ l \in DOMAIN b.level
        /\ b.ticket[t].quantity = m.ticket[t].quantity
        /\ SameCount(m, b, l)
    BY <1>2, <1>5 DEF OneListChanges, SameObjects, SameShares, l
  <2> QED
    BY <2>1, DiscountFields, SMTT(30) DEF SameCount
<1> HIDE DEF r
<1>9. OneListChanges(m, r, l, t)
  BY <1>2, <1>5, <1>8 DEF OneListChanges, OtherLevel, SameObjects
<1>10. r.ticket = b.ticket
  BY <1>8 DEF OtherLevel
<1>11. r.ticket[t].parentLevel = l
  BY <1>5, <1>10 DEF SameShares, l
<1>12. /\ SameLinks(m, r, t)
       /\ \A x \in DOMAIN m.ticket \ {t, next, prev} : SameLinks(m, r, x)
       /\ prev # Null => /\ r.ticket[prev].nextOrder = next
                         /\ r.ticket[prev].prevOrder = m.ticket[prev].prevOrder
       /\ next # Null => /\ r.ticket[next].prevOrder = prev
                         /\ r.ticket[next].nextOrder = m.ticket[next].nextOrder
  BY <1>6, <1>10, SMTT(30) DEF SameLinks
<1>13. Unlinks(m, r, t)
  BY <1>7, <1>8, <1>9, <1>11, <1>12 DEF Unlinks, l
<1> QED
  BY <1>1, <1>12, <1>13

\* execute does so for the head of a level, whose own links it clears.
LEMMA ExecuteFields ==
    ASSUME NEW m, Shaped(m), NEW t \in DOMAIN m.ticket,
           m.ticket[t].parentLevel \in DOMAIN m.level,
           m.ticket[t].prevOrder = Null,
           NEW next, next = m.ticket[t].nextOrder,
           next # Null => next \in DOMAIN m.ticket \ {t},
           t # Null
    PROVE  /\ Unlinks(m, execute(m, t), t)
           /\ execute(m, t).ticket[t].nextOrder = Null
           /\ execute(m, t).ticket[t].prevOrder = Null
<1> DEFINE l == m.ticket[t].parentLevel
           h == SetLevel(m, l, "headOrder", next)
           a == IF next = Null THEN SetLevel(h, l, "tailOrder", Null)
                ELSE SetTicket(h, next, "prevOrder", Null)
           b == SetTicket(a, t, "nextOrder", Null)
           c == SetTicket(b, t, "prevOrder", Null)
           r == Discount(c, t)
<1>1. execute(m, t) = r
  BY ZenonT(40) DEF execute, SetTicket, SetLevel
<1> HIDE DEF l
<1>2. l \in DOMAIN m.level
  BY DEF l
<1>3. /\ OneListChanges(m, a, l, t)
      /\ SameShares(m, a, t) /\ SameCount(m, a, l)
      /\ a.level[l].headOrder = next
      /\ a.level[l].tailOrder = IF next = Null THEN Null ELSE m.level[l].tailOrder
      /\ \A x \in DOMAIN m.ticket \ {next} : SameLinks(m, a, x)
      /\ next # Null => /\ a.ticket[next].prevOrder = Null
                        /\ a.ticket[next].nextOrder = m.ticket[next].nextOrder
  <2>1. /\ OtherLevel(m, h, l) /\ SameCount(m, h, l)
        /\ h.level[l].headOrder = next
        /\ h.level[l].tailOrder = m.level[l].tailOrder
    BY <1>2, LevelFieldIsSet DEF SameCount
  <2> HIDE DEF h
  <2>2. CASE next = Null
    <3>1. a = SetLevel(h, l, "tailOrder", Null)
      BY <2>2
    <3> HIDE DEF a
    <3>2. /\ OtherLevel(h, a, l) /\ SameCount(h, a, l)
          /\ a.level[l].headOrder = next
          /\ a.level[l].tailOrder = Null
      BY <1>2, <2>1, <3>1, LevelFieldIsSet DEF OtherLevel, SameObjects, SameCount
    <3> QED
      BY <1>2, <2>1, <2>2, <3>2
         DEF OneListChanges, OtherLevel, SameObjects, SameLinks, SameShares, SameCount
  <2>3. CASE next # Null
    <3>1. a = SetTicket(h, next, "prevOrder", Null) /\ next \in DOMAIN m.ticket \ {t}
      BY <2>3
    <3> HIDE DEF a
    <3>2. /\ OtherTicket(h, a, next) /\ SameShares(h, a, next)
          /\ a.ticket[next].prevOrder = Null
          /\ a.ticket[next].nextOrder = h.ticket[next].nextOrder
      BY <2>1, <3>1, TicketFieldIsSet, SMTT(30) DEF OtherLevel, SameObjects, SameShares
    <3>3. SameShares(m, a, t) /\ SameCount(m, a, l)
      BY <2>1, <3>1, <3>2, ZenonT(40)
         DEF OtherLevel, OtherTicket, SameObjects, SameShares, SameCount
    <3>4. SameObjects(m, a)
      BY <2>1, <3>2 DEF OtherLevel, OtherTicket, SameObjects
    <3>5. \A x \in DOMAIN m.ticket : SameShares(m, a, x)
      BY <2>1, <3>1, <3>2, ZenonT(40) DEF OtherLevel, OtherTicket, SameObjects, SameShares
    <3>6. Shaped(a) /\ a.level = h.level
      BY <3>2 DEF OtherTicket
    <3>7. OneListChanges(m, a, l, t)
      BY <2>1, <3>4, <3>5, <3>6 DEF OneListChanges, OtherLevel, SameShares
    <3> QED
      BY <1>2, <2>1, <2>3, <3>1, <3>2, <3>3, <3>7, ZenonT(40)
         DEF OtherLevel, OtherTicket, SameObjects, SameLinks
  <2> QED
    BY <2>2, <2>3
<1> HIDE DEF a
<1>4. /\ OtherTicket(a, b, t) /\ SameShares(a, b, t)
      /\ b.ticket[t].nextOrder = Null
  BY <1>3, TicketFieldIsSet DEF OneListChanges, SameObjects, SameShares
<1> HIDE DEF b
<1>5. /\ OtherTicket(b, c, t) /\ SameShares(b, c, t)
      /\ c.ticket[t].nextOrder = Null /\ c.ticket[t].prevOrder = Null
  BY <1>3, <1>4, TicketFieldIsSet, SMTT(30) DEF OneListChanges, OtherTicket, SameObjects, SameShares
<1> HIDE DEF c
<1>6. OneListChanges(m, c, l, t) /\ SameShares(m, c, t)
  BY <1>3, <1>4, <1>5 DEF OneListChanges, OtherTicket, SameObjects, SameShares
<1>7. c.level = a.level
  BY <1>4, <1>5 DEF OtherTicket
<1>8. \A x \in DOMAIN m.ticket \ {t} : c.ticket[x] = a.ticket[x]
  BY <1>3, <1>4, <1>5, SMTT(30) DEF OtherTicket, OneListChanges, SameObjects
<1>9. /\ OtherLevel(c, r, l)
      /\ r.level[l].headOrder = a.level[l].headOrder
      /\ r.level[l].tailOrder = a.level[l].tailOrder
      /\ r.level[l].size = m.level[l].size - 1
      /\ r.level[l].totalVolume = Wrap(m.level[l].totalVolume - m.ticket[t].quantity)
  <2>1. /\ Shaped(c) /\ t \in DOMAIN c.ticket
        /\ c.ticket[t].parentLevel = l /\ l \in DOMAIN c.level
        /\ c.ticket[t].quantity = m.ticket[t].quantity
    BY <1>2, <1>6 DEF OneListChanges, SameObjects, SameShares, l
  <2>2. SameCount(m, c, l)
    BY <1>3, <1>7 DEF SameCount
  <2> QED
    BY <1>7, <2>1, <2>2, DiscountFields, SMTT(30) DEF SameCount
<1> HIDE DEF r
<1>10. OneListChanges(m, r, l, t)
  BY <1>2, <1>6, <1>9 DEF OneListChanges, OtherLevel, SameObjects
<1>11. r.ticket = c.ticket
  BY <1>9 DEF OtherLevel
<1>12. r.ticket[t].parentLevel = l
  BY <1>6, <1>11 DEF SameShares, l
<1>13. /\ \A x \in DOMAIN m.ticket \ {t, next} : SameLinks(m, r, x)
       /\ next # Null => /\ r.ticket[next].prevOrder = Null
                         /\ r.ticket[next].nextOrder = m.ticket[next].nextOrder
  BY <1>3, <1>8, <1>11 DEF SameLinks
<1>14. /\ r.level[l].headOrder = next
       /\ r.level[l].tailOrder = IF next = Null THEN Null ELSE m.level[l].tailOrder
  BY <1>3, <1>9, SMTT(30)
<1>15. Unlinks(m, r, t)
  BY <1>9, <1>10, <1>12, <1>13, <1>14 DEF Unlinks, l
<1> QED
  BY <1>1, <1>5, <1>11, <1>15

-----------------------------------------------------------------------------
(* Lists.  A memory holds lists q when the pointers of each level l lead   *)
(* through the sequence q[l].                                              *)

\* The pointers of level l lead through s, whose elements are in S.
IsList(m, l, s, S) ==
    /\ s \in Seq(S)
    /\ \A i, j \in 1..Len(s) : s[i] = s[j] => i = j
    /\ m.level[l].size = Len(s)
    /\ m.level[l].headOrder = IF Len(s) = 0 THEN Null ELSE s[1]
    /\ m.level[l].tailOrder = IF Len(s) = 0 THEN Null ELSE s[Len(s)]
    /\ \A i \in 1..Len(s) :
          /\ m.ticket[s[i]].parentLevel = l
          /\ m.ticket[s[i]].nextOrder = IF i = Len(s) THEN Null ELSE s[i + 1]
          /\ m.ticket[s[i]].prevOrder = IF i = 1 THEN Null ELSE s[i - 1]

\* A list is not touched by what is done to other levels and tickets.
LEMMA ListIsKept ==
    ASSUME NEW m, NEW r, NEW l, NEW s, NEW S, IsList(m, l, s, S),
           r.level[l].size = m.level[l].size,
           r.level[l].headOrder = m.level[l].headOrder,
           r.level[l].tailOrder = m.level[l].tailOrder,
           \A i \in 1..Len(s) :
              /\ r.ticket[s[i]].parentLevel = l
              /\ SameLinks(m, r, s[i]),
           NEW T, \A i \in 1..Len(s) : s[i] \in T
    PROVE  IsList(r, l, s, T)
<1>1. Len(s) \in Nat /\ s = [i \in 1..Len(s) |-> s[i]]
  BY DEF IsList
<1>2. s \in Seq(T)
  BY <1>1, SeqDef
<1> QED
  BY <1>2 DEF IsList, SameLinks

\* append makes the list of a level longer at its end.
LEMMA AppendedList ==
    ASSUME NEW m, NEW r, NEW l, NEW s, NEW S, IsList(m, l, s, S), S \subseteq DOMAIN m.ticket,
           Null \notin DOMAIN m.ticket,
           NEW t \in DOMAIN m.ticket \ S, Appends(m, r, l, t),
           m.ticket[t].nextOrder = Null, m.ticket[t].prevOrder = Null
    PROVE  IsList(r, l, Append(s, t), S \cup {t})
<1> DEFINE T == S \cup {t}
           n == Len(s)
           longer == Append(s, t)
           tail == m.level[l].tailOrder
<1>1. /\ s \in Seq(S) /\ n \in Nat /\ DOMAIN s = 1..n
      /\ \A i \in 1..n : s[i] \in S
  BY DEF IsList
<1>2. /\ longer \in Seq(T) /\ Len(longer) = n + 1
      /\ \A i \in 1..n : longer[i] = s[i]
      /\ longer[n + 1] = t
  <2>1. s \in Seq(T)
    BY <1>1, SeqDef
  <2> QED
    BY <1>1, <2>1, AppendProperties
<1> HIDE DEF longer
<1>3. /\ \A i, j \in 1..n : s[i] = s[j] => i = j
      /\ m.level[l].size = n
      /\ m.level[l].headOrder = IF n = 0 THEN Null ELSE s[1]
      /\ tail = IF n = 0 THEN Null ELSE s[n]
      /\ \A i \in 1..n :
          /\ m.ticket[s[i]].parentLevel = l
          /\ m.ticket[s[i]].nextOrder = IF i = n THEN Null ELSE s[i + 1]
          /\ m.ticket[s[i]].prevOrder = IF i = 1 THEN Null ELSE s[i - 1]
  BY DEF IsList
<1> HIDE DEF n
<1>4. /\ \A x \in DOMAIN m.ticket \ {t} : r.ticket[x].parentLevel = m.ticket[x].parentLevel
      /\ r.ticket[t].parentLevel = l
      /\ r.level[l].size = n + 1
      /\ r.level[l].tailOrder = t
  BY <1>3 DEF Appends, OneListChanges
<1>5. ASSUME n = 0
      PROVE  /\ r.level[l].headOrder = t
             /\ r.ticket[t].nextOrder = Null
             /\ r.ticket[t].prevOrder = Null
  BY <1>3, <1>5 DEF Appends, SameLinks
<1>6. ASSUME n # 0
      PROVE  /\ r.level[l].headOrder = s[1]
             /\ r.ticket[t].nextOrder = Null
             /\ r.ticket[t].prevOrder = s[n]
             /\ r.ticket[s[n]].nextOrder = t
             /\ r.ticket[s[n]].prevOrder = m.ticket[s[n]].prevOrder
             /\ \A i \in 1..(n - 1) : SameLinks(m, r, s[i])
  <2>1. m.level[l].headOrder # Null /\ tail = s[n]
    BY <1>1, <1>3, <1>6
  <2>2. \A i \in 1..(n - 1) : s[i] # t /\ s[i] # s[n] /\ s[i] \in DOMAIN m.ticket
    <3>1. \A i, j \in 1..n : s[i] = s[j] => i = j
      BY <1>3
    <3>2. \A i \in 1..(n - 1) : i \in 1..n /\ n \in 1..n /\ i # n
      BY <1>1
    <3> QED
      BY <1>1, <3>1, <3>2
  <2>3. m.level[l].headOrder = s[1]
    BY <1>3, <1>6
  <2> QED
    BY <2>1, <2>2, <2>3 DEF Appends
<1>7. ASSUME NEW i \in 1..n
      PROVE  /\ r.ticket[s[i]].parentLevel = l
             /\ r.ticket[s[i]].nextOrder = IF i = n THEN t ELSE s[i + 1]
             /\ r.ticket[s[i]].prevOrder = IF i = 1 THEN Null ELSE s[i - 1]
  <2>1. n # 0 /\ s[i] \in DOMAIN m.ticket \ {t}
    BY <1>1
  <2>2. CASE i = n
    BY <1>3, <1>4, <1>6, <2>1, <2>2
  <2>3. CASE i # n
    <3>1. i \in 1..(n - 1)
      BY <1>1, <2>3
    <3>2. SameLinks(m, r, s[i])
      BY <1>6, <2>1, <3>1
    <3> QED
      BY <1>3, <1>4, <2>1, <2>3, <3>2 DEF SameLinks
  <2> QED
    BY <2>2, <2>3
<1>8. \A i, j \in 1..(n + 1) : longer[i] = longer[j] => i = j
  <2>1. \A i \in 1..(n + 1) : i \in 1..n \/ i = n + 1
    BY <1>1
  <2>2. \A i \in 1..n : s[i] # t
    BY <1>1
  <2> QED
    BY <1>2, <1>3, <2>1, <2>2
<1>9. ASSUME NEW i \in 1..(n + 1)
      PROVE  /\ r.ticket[longer[i]].parentLevel = l
             /\ r.ticket[longer[i]].nextOrder = IF i = n + 1 THEN Null ELSE longer[i + 1]
             /\ r.ticket[longer[i]].prevOrder = IF i = 1 THEN Null ELSE longer[i - 1]
  <2>1. CASE i \in 1..n
    <3>1. longer[i] = s[i] /\ i # n + 1
      BY <1>1, <1>2, <2>1
    <3>2. i = n => longer[i + 1] = t
      BY <1>2
    <3>3. i # n => i + 1 \in 1..n
      BY <1>1, <2>1
    <3>4. i # 1 => i - 1 \in 1..n
      BY <1>1, <2>1
    <3> QED
      BY <1>2, <1>7, <2>1, <3>1, <3>2, <3>3, <3>4
  <2>2. CASE i = n + 1
    <3>1. longer[i] = t
      BY <1>2, <2>2
    <3>2. i # 1 => n # 0 /\ i - 1 = n /\ longer[i - 1] = s[n]
      BY <1>1, <1>2, <2>2
    <3>3. i = 1 => n = 0
      BY <1>1, <2>2
    <3> QED
      BY <1>4, <1>5, <1>6, <2>2, <3>1, <3>2, <3>3
  <2> QED
    BY <1>1, <2>1, <2>2
<1>10. longer[1] = IF n = 0 THEN t ELSE s[1]
  BY <1>1, <1>2
<1>11. r.level[l].headOrder = longer[1]
  BY <1>5, <1>6, <1>10
<1>12. n + 1 # 0
  BY <1>1
<1> QED
  BY <1>2, <1>4, <1>8, <1>9, <1>11, <1>12 DEF IsList, longer

\* The links of a ticket in a list.
LEMMA NeighboursInList ==
    ASSUME NEW m, NEW l, NEW s, NEW S, IsList(m, l, s, S), Null \notin S,
           NEW i \in 1..Len(s)
    PROVE  LET t == s[i]
               next == m.ticket[t].nextOrder
               prev == m.ticket[t].prevOrder
           IN  /\ t \in S /\ t # Null /\ m.ticket[t].parentLevel = l
               /\ next = IF i = Len(s) THEN Null ELSE s[i + 1]
               /\ prev = IF i = 1 THEN Null ELSE s[i - 1]
               /\ i # Len(s) => next # Null
               /\ i # 1 => prev # Null
               /\ next # Null => next \in S \ {t, prev}
               /\ prev # Null => prev \in S \ {t, next}
<1> DEFINE n == Len(s)
           t == s[i]
           next == m.ticket[t].nextOrder
           prev == m.ticket[t].prevOrder
<1>1. /\ s \in Seq(S) /\ n \in Nat
      /\ \A j \in 1..n : s[j] \in S
  BY DEF IsList
<1>2. /\ m.ticket[t].parentLevel = l
      /\ next = IF i = n THEN Null ELSE s[i + 1]
      /\ prev = IF i = 1 THEN Null ELSE s[i - 1]
      /\ \A j, k \in 1..n : s[j] = s[k] => j = k
  BY DEF IsList
<1> HIDE DEF n
<1>3. i \in 1..n
  BY DEF n
<1> HIDE DEF next, prev
<1>4. i # n => i + 1 \in 1..n
  BY <1>1, <1>3
<1>5. i # 1 => i - 1 \in 1..n
  BY <1>1, <1>3
<1>6. i - 1 # i /\ i + 1 # i /\ i - 1 # i + 1
  BY <1>1, <1>3
<1>7. /\ i # n => next \in S \ {t}
      /\ i # 1 => prev \in S \ {t}
      /\ i # n /\ i # 1 => next # prev
  BY <1>1, <1>2, <1>3, <1>4, <1>5, <1>6
<1>8. t \in S
  BY <1>1, <1>3
<1> QED
  BY <1>2, <1>7, <1>8 DEF n, next, prev

\* What is left of a list without one of its tickets.
LEMMA UnlinkedList ==
    ASSUME NEW m, NEW r, NEW l, NEW s, NEW S, IsList(m, l, s, S), S \subseteq DOMAIN m.ticket,
           Null \notin DOMAIN m.ticket,
           NEW i \in 1..Len(s), Unlinks(m, r, s[i])
    PROVE  IsList(r, l, RemoveAt(s, i), S \ {s[i]})
<1> DEFINE n == Len(s)
           t == s[i]
           next == m.ticket[t].nextOrder
           prev == m.ticket[t].prevOrder
           rest == RemoveAt(s, i)
           T == S \ {t}
<1>1. /\ s \in Seq(S) /\ n \in Nat
      /\ \A j \in 1..n : s[j] \in S
  BY DEF IsList
<1>2. \A j, k \in 1..n : s[j] = s[k] => j = k
  BY DEF IsList
<1>3. /\ m.level[l].size = n
      /\ m.level[l].headOrder = s[1]
      /\ m.level[l].tailOrder = s[n]
  BY DEF IsList
<1>4. \A j \in 1..n :
          /\ m.ticket[s[j]].parentLevel = l
          /\ m.ticket[s[j]].nextOrder = IF j = n THEN Null ELSE s[j + 1]
          /\ m.ticket[s[j]].prevOrder = IF j = 1 THEN Null ELSE s[j - 1]
  BY DEF IsList
<1>5. /\ t \in S /\ t # Null /\ m.ticket[t].parentLevel = l
      /\ next = IF i = n THEN Null ELSE s[i + 1]
      /\ prev = IF i = 1 THEN Null ELSE s[i - 1]
      /\ i # n => next # Null
      /\ i # 1 => prev # Null
  BY NeighboursInList
<1>6. /\ rest \in Seq(S) /\ Len(rest) = n - 1
      /\ \A j \in 1..(n - 1) : rest[j] = IF j < i THEN s[j] ELSE s[j + 1]
  BY <1>1, RemoveAtProperties
<1> HIDE DEF n, rest
<1>7. i \in 1..n
  BY DEF n
<1> HIDE DEF next, prev
<1>8. /\ \A x \in DOMAIN m.ticket \ {t} : r.ticket[x].parentLevel = m.ticket[x].parentLevel
      /\ r.level[l].size = n - 1
      /\ r.level[l].headOrder = IF prev = Null THEN next ELSE s[1]
      /\ r.level[l].tailOrder = IF next = Null THEN prev ELSE s[n]
  BY <1>3, <1>5 DEF Unlinks, OneListChanges, next, prev
<1>9. /\ \A x \in DOMAIN m.ticket \ {t, next, prev} : SameLinks(m, r, x)
      /\ prev # Null => /\ r.ticket[prev].nextOrder = next
                        /\ r.ticket[prev].prevOrder = m.ticket[prev].prevOrder
      /\ next # Null => /\ r.ticket[next].prevOrder = prev
                        /\ r.ticket[next].nextOrder = m.ticket[next].nextOrder
  BY ZenonT(40) DEF Unlinks, next, prev
\* The links of the tickets that stay.
<1>10. ASSUME NEW j \in 1..n, j # i
       PROVE  /\ s[j] \in T
              /\ r.ticket[s[j]].parentLevel = l
              /\ r.ticket[s[j]].nextOrder = IF j = n THEN Null
                                            ELSE IF j = i - 1 THEN next ELSE s[j + 1]
              /\ r.ticket[s[j]].prevOrder = IF j = 1 THEN Null
                                            ELSE IF j = i + 1 THEN prev ELSE s[j - 1]
  <2>1. s[j] \in S \ {t} /\ s[j] \in DOMAIN m.ticket
    BY <1>1, <1>2, <1>7, <1>10
  <2>2. r.ticket[s[j]].parentLevel = l
    BY <1>4, <1>8, <2>1
  <2>3. i # 1 => i - 1 \in 1..n
    BY <1>1, <1>7
  <2>4. i # n => i + 1 \in 1..n
    BY <1>1, <1>7
  <2>5. /\ m.ticket[s[j]].nextOrder = IF j = n THEN Null ELSE s[j + 1]
        /\ m.ticket[s[j]].prevOrder = IF j = 1 THEN Null ELSE s[j - 1]
    BY <1>4
  <2>6. CASE j = i - 1
    <3>1. i # 1 /\ j # n /\ j # i + 1 /\ s[j] = prev /\ prev # Null
      BY <1>1, <1>5, <1>7, <2>6
    <3> QED
      BY <1>9, <2>1, <2>2, <2>5, <2>6, <3>1
  <2>7. CASE j = i + 1
    <3>1. i # n /\ j # 1 /\ j # i - 1 /\ s[j] = next /\ next # Null
      BY <1>1, <1>5, <1>7, <2>7
    <3> QED
      BY <1>9, <2>1, <2>2, <2>5, <2>7, <3>1
  <2>8. CASE j # i - 1 /\ j # i + 1
    <3>1. s[j] # prev
      BY <1>1, <1>2, <1>5, <2>1, <2>3, <2>8
    <3>2. s[j] # next
      BY <1>1, <1>2, <1>5, <2>1, <2>4, <2>8
    <3>3. SameLinks(m, r, s[j])
      BY <1>9, <2>1, <3>1, <3>2
    <3> QED
      BY <2>1, <2>2, <2>5, <2>8, <3>3 DEF SameLinks
  <2> QED
    BY <2>6, <2>7, <2>8
<1>11. ASSUME NEW j \in 1..(n - 1)
       PROVE  /\ rest[j] \in T
              /\ r.ticket[rest[j]].parentLevel = l
              /\ r.ticket[rest[j]].nextOrder = IF j = n - 1 THEN Null ELSE rest[j + 1]
              /\ r.ticket[rest[j]].prevOrder = IF j = 1 THEN Null ELSE rest[j - 1]
  <2>1. /\ j # n - 1 => j + 1 \in 1..(n - 1)
        /\ j # 1 => j - 1 \in 1..(n - 1)
    BY <1>1
  <2>2. CASE j < i
    <3>1. j \in 1..n /\ j # i /\ j # n /\ j # i + 1 /\ rest[j] = s[j]
      BY <1>1, <1>6, <1>7, <2>2
    <3>2. j # 1 => rest[j - 1] = s[j - 1]
      BY <1>1, <1>6, <1>7, <2>1, <2>2
    <3>3. CASE j = i - 1
      <4>1. j = n - 1 <=> i = n
        BY <1>1, <1>7, <3>3
      <4>2. j # n - 1 => rest[j + 1] = s[i + 1]
        <5>1. j + 1 = i /\ ~(i < i)
          BY <1>1, <1>7, <3>3
        <5>2. j # n - 1 => rest[i] = s[i + 1]
          BY <1>6, <2>1, <5>1
        <5> QED
          BY <5>1, <5>2
      <4> QED
        BY <1>5, <1>10, <3>1, <3>2, <3>3, <4>1, <4>2
    <3>4. CASE j # i - 1
      <4>1. j # n - 1 /\ rest[j + 1] = s[j + 1]
        BY <1>1, <1>6, <1>7, <2>1, <2>2, <3>4, SMTT(30)
      <4> QED
        BY <1>10, <3>1, <3>2, <3>4, <4>1, ZenonT(40)
    <3> QED
      BY <3>3, <3>4
  <2>3. CASE ~(j < i)
    <3> DEFINE k == j + 1
    <3>1. k \in 1..n /\ k # i /\ k # 1 /\ k # i - 1 /\ rest[j] = s[k]
      BY <1>1, <1>6, <1>7, <2>3
    <3>2. /\ k = n <=> j = n - 1
          /\ j # n - 1 => rest[j + 1] = s[k + 1]
      BY <1>1, <1>6, <1>7, <2>1, <2>3
    <3>3. CASE j = i
      <4>1. k = i + 1 /\ j # 1 => rest[j - 1] = s[i - 1]
        BY <1>1, <1>6, <1>7, <2>1, <3>3
      <4>2. k = i + 1
        BY <3>3
      <4> HIDE DEF k
      <4>3. /\ r.ticket[s[k]].parentLevel = l /\ s[k] \in T
            /\ r.ticket[s[k]].nextOrder = IF k = n THEN Null ELSE s[k + 1]
            /\ r.ticket[s[k]].prevOrder = prev
        BY <1>10, <3>1, <4>2
      <4>4. prev = IF j = 1 THEN Null ELSE rest[j - 1]
        BY <1>5, <3>3, <4>1, <4>2
      <4> QED
        BY <3>1, <3>2, <4>3, <4>4
    <3>4. CASE j # i
      <4>1. j # 1 /\ k # i + 1 /\ rest[j - 1] = s[k - 1]
        BY <1>1, <1>6, <1>7, <2>1, <2>3, <3>4, SMTT(30)
      <4> HIDE DEF k
      <4> QED
        BY <1>10, <3>1, <3>2, <3>4, <4>1
    <3> QED
      BY <3>3, <3>4
  <2> QED
    BY <2>2, <2>3
<1>12. \A j, k \in 1..(n - 1) : rest[j] = rest[k] => j = k
  <2> SUFFICES ASSUME NEW j \in 1..(n - 1), NEW k \in 1..(n - 1), rest[j] = rest[k]
               PROVE  j = k
    OBVIOUS
  <2> DEFINE At(x) == IF x < i THEN x ELSE x + 1
  <2>1. /\ At(j) \in 1..n /\ At(k) \in 1..n
        /\ rest[j] = s[At(j)] /\ rest[k] = s[At(k)]
    BY <1>1, <1>6, <1>7
  <2>2. At(j) = At(k)
    BY <1>2, <2>1
  <2> QED
    BY <1>1, <1>7, <2>2
<1>13. rest \in Seq(T)
  <2>1. rest = [j \in 1..(n - 1) |-> rest[j]] /\ n - 1 \in Nat
    BY <1>1, <1>6, <1>7
  <2>2. \A j \in 1..(n - 1) : rest[j] \in T
    BY <1>11
  <2> QED
    BY <2>1, <2>2, SeqDef
<1>14. /\ r.level[l].headOrder = IF n - 1 = 0 THEN Null ELSE rest[1]
       /\ r.level[l].tailOrder = IF n - 1 = 0 THEN Null ELSE rest[n - 1]
  <2>1. CASE n = 1
    BY <1>5, <1>7, <1>8, <2>1
  <2>2. CASE n # 1
    <3>1. 1 \in 1..(n - 1) /\ n - 1 \in 1..(n - 1)
      BY <1>1, <1>7, <2>2
    <3>2. rest[1] = IF i = 1 THEN s[2] ELSE s[1]
      BY <1>1, <1>6, <1>7, <3>1
    <3>3. rest[n - 1] = IF i = n THEN s[n - 1] ELSE s[n]
      BY <1>1, <1>6, <1>7, <3>1
    <3>4. r.level[l].headOrder = rest[1]
      BY <1>5, <1>8, <2>2, <3>2
    <3>5. r.level[l].tailOrder = rest[n - 1]
      BY <1>5, <1>8, <2>2, <3>3
    <3> QED
      BY <1>1, <2>2, <3>4, <3>5
  <2> QED
    BY <2>1, <2>2
<1> QED
  BY <1>6, <1>8, <1>11, <1>12, <1>13, <1>14 DEF IsList, rest

-----------------------------------------------------------------------------
(* Stores: memories that hold lists q, and tickets out that are in none.   *)

Linked(m, q, out) ==
    /\ Shaped(m)
    /\ q = [l \in DOMAIN m.level |-> q[l]]
    /\ \A l \in DOMAIN m.level : IsList(m, l, q[l], DOMAIN m.ticket \ out)
    /\ \A t \in DOMAIN m.ticket \ out :
          /\ m.ticket[t].parentLevel \in DOMAIN m.level
          /\ \E i \in 1..Len(q[m.ticket[t].parentLevel]) :
                q[m.ticket[t].parentLevel][i] = t

\* The arenas know which cells hold objects.
Accounted(m) ==
    /\ ArenaOK(m.orderPool, DOMAIN m.ticket)
    /\ ArenaOK(m.limitPool, DOMAIN m.level)

\* levelMap has every level under its price.
Indexed(m) ==
    /\ m.levelMap = [key \in DOMAIN m.levelMap |-> m.levelMap[key]]
    /\ DOMAIN m.levelMap \subseteq Keys
    /\ \A key \in DOMAIN m.levelMap :
          /\ m.levelMap[key] \in DOMAIN m.level
          /\ m.level[m.levelMap[key]].levelPrice = key
    /\ \A l \in DOMAIN m.level :
          /\ m.level[l].levelPrice \in DOMAIN m.levelMap
          /\ m.levelMap[m.level[l].levelPrice] = l

\* orderMap has tickets under their ids, though not every ticket.
Mapped(m) ==
    /\ m.orderMap = [id \in DOMAIN m.orderMap |-> m.orderMap[id]]
    /\ DOMAIN m.orderMap \subseteq Ids
    /\ \A id \in DOMAIN m.orderMap :
          /\ m.orderMap[id] \in DOMAIN m.ticket
          /\ m.ticket[m.orderMap[id]].idNumber = id

Valued(m) ==
    /\ \A t \in DOMAIN m.ticket :
          /\ m.ticket[t].idNumber \in Ids
          /\ m.ticket[t].quantity \in 1..IntMax
          /\ m.ticket[t].parentLevel \in Nat
    /\ \A l \in DOMAIN m.level : m.level[l].totalVolume \in Ints

\* The shares of a level's tickets, which are those that have it as their level.
Shares(m) == [t \in DOMAIN m.ticket |-> m.ticket[t].quantity]
Members(m, out, l) == {t \in DOMAIN m.ticket \ out : m.ticket[t].parentLevel = l}
SharesOf(m, out, l) == SumFunctionOnSet(Shares(m), Members(m, out, l))

\* totalVolume is their sum, up to the width of an int.
Summed(m, out) == \A l \in DOMAIN m.level : m.level[l].totalVolume = Wrap(SharesOf(m, out, l))

Store(m, q, out) ==
    /\ Linked(m, q, out)
    /\ Accounted(m) /\ Indexed(m) /\ Mapped(m)
    /\ Valued(m) /\ Summed(m, out)

\* No level but those of E is without tickets.
Full(m, E) == \A l \in DOMAIN m.level \ E : m.level[l].size # 0

Unlinked(m, t) == m.ticket[t].nextOrder = Null /\ m.ticket[t].prevOrder = Null

\* The lists when t comes to the end of that of l, and when the i-th leaves it.
Appended(q, l, t) == [q EXCEPT ![l] = Append(q[l], t)]
Removed(q, l, i) == [q EXCEPT ![l] = RemoveAt(q[l], i)]

\* Cells are not null.
LEMMA ObjectsAreCells ==
    ASSUME NEW arena, NEW objects, ArenaOK(arena, objects)
    PROVE  objects \subseteq Nat \ {0}
BY CellsGrow DEF ArenaOK, Accounts

\* totalVolume stays an int.
LEMMA WrappedIsInt ==
    ASSUME NEW n \in Int
    PROVE  Wrap(n) \in Ints
BY IntMaxIsNatural DEF Wrap, Ints

\* The values of an int are integers.
LEMMA IntsAreIntegers == Ints \subseteq Int /\ 0 \in Ints
BY IntMaxIsNatural DEF Ints

-----------------------------------------------------------------------------
(* Sums that are taken in an int.                                          *)

\* A remainder is unchanged when multiples of the divisor are added.
LEMMA SameRemainder ==
    ASSUME NEW k \in Nat \ {0}, NEW x \in Int, NEW q \in Int
    PROVE  (x + k * q) % k = x % k
<1> DEFINE r == x % k
           s == (x + k * q) % k
           a == x \div k
           b == (x + k * q) \div k
<1>1. /\ k * q \in Int /\ x + k * q \in Int
      /\ a \in Int /\ b \in Int
  OBVIOUS
<1>2. r \in 0..(k - 1) /\ x = k * a + r
  OBVIOUS
<1>3. s \in 0..(k - 1) /\ x + k * q = k * b + s
  BY <1>1
<1> HIDE DEF r, s, a, b
<1> DEFINE d == (b - q) - a
<1>4. d \in Int
  BY <1>1
<1>5. k * d = r - s
  <2>1. k * d = k * b - k * q - k * a
    BY <1>1
  <2>2. k * b \in Int /\ k * a \in Int
    BY <1>1
  <2> QED
    BY <1>1, <1>2, <1>3, <2>1, <2>2
<1> HIDE DEF d
<1>6. d >= 1 => k * d >= k
  BY <1>4
<1>7. d <= -1 => k * d <= -k
  BY <1>4
<1>8. d = 0
  BY <1>2, <1>3, <1>4, <1>5, <1>6, <1>7
<1>9. r = s
  BY <1>2, <1>3, <1>5, <1>8
<1> QED
  BY <1>9 DEF r, s

\* A difference that is taken in an int is that of the unbounded sum, wrapped.
LEMMA WrapsOnce ==
    ASSUME NEW n \in Int, NEW d \in Int
    PROVE  Wrap(Wrap(n) + d) = Wrap(n + d)
<1> DEFINE h == IntMax + 1
           k == 2 * h
           a == (n + h) \div k
<1>1. h \in Nat \ {0} /\ k \in Nat \ {0}
  BY IntMaxIsNatural
<1>2. Wrap(n) = n + k * (-a)
  <2>1. a \in Int /\ n + h = k * a + ((n + h) % k)
    <3>1. ASSUME NEW x \in Int, NEW y \in Nat \ {0}
          PROVE  x \div y \in Int /\ x = y * (x \div y) + (x % y)
      OBVIOUS
    <3>2. n + h \in Int
      BY <1>1
    <3> HIDE DEF k, h
    <3> QED
      BY <1>1, <3>1, <3>2
  <2>2. (n + h) % k = n + h - k * a
    BY <1>1, <2>1
  <2>3. Wrap(n) = ((n + h) % k) - h
    BY IntMaxIsNatural DEF Wrap
  <2> QED
    BY <1>1, <2>1, <2>2, <2>3
<1>3. a \in Int
  BY <1>1
<1> HIDE DEF a
<1>4. \A x \in Int : Wrap(x) = ((x + h) % k) - h
  BY IntMaxIsNatural DEF Wrap
<1> HIDE DEF k, h
<1>5. Wrap(n) + d + h = (n + d + h) + k * (-a)
  <2>1. k * (-a) \in Int
    BY <1>1, <1>3
  <2>2. ASSUME NEW v \in Int, Wrap(n) = n + v
        PROVE  Wrap(n) + d + h = (n + d + h) + v
    BY <1>1, <2>2
  <2> QED
    BY <1>2, <2>1, <2>2
<1>6. (Wrap(n) + d + h) % k = (n + d + h) % k
  <2>1. n + d + h \in Int /\ -a \in Int
    BY <1>1, <1>3
  <2> QED
    BY <1>1, <1>5, <2>1, SameRemainder
<1>7. Wrap(n) + d \in Int
  BY <1>1, <1>2, <1>3
<1> QED
  BY <1>4, <1>6, <1>7

\* The tickets that have a level as theirs are those of its list.
LEMMA MembersAreListed ==
    ASSUME NEW m, NEW q, NEW out, Linked(m, q, out), NEW l \in DOMAIN m.level
    PROVE  /\ Members(m, out, l) = {q[l][i] : i \in 1..Len(q[l])}
           /\ IsFiniteSet(Members(m, out, l))
<1> DEFINE s == q[l]
           T == {s[i] : i \in 1..Len(s)}
           f == [i \in 1..Len(s) |-> s[i]]
<1>1. /\ IsList(m, l, s, DOMAIN m.ticket \ out)
      /\ \A t \in DOMAIN m.ticket \ out :
            \E i \in 1..Len(q[m.ticket[t].parentLevel]) : q[m.ticket[t].parentLevel][i] = t
  BY DEF Linked
<1>2. Members(m, out, l) = T
  BY <1>1 DEF Members, IsList
<1>3. Len(s) \in Nat
  BY <1>1 DEF IsList
<1>4. IsFiniteSet(1..Len(s))
  BY <1>3, FS_Interval
<1>5. f \in Surjection(1..Len(s), T)
  BY DEF Surjection
<1> HIDE DEF f, T, s
<1>6. IsFiniteSet(T)
  BY <1>4, <1>5, FS_Surjection DEF ExistsSurjection
<1> QED
  BY <1>2, <1>6 DEF T, s

\* Shares are integers.
LEMMA SharesAreIntegers ==
    ASSUME NEW m, Valued(m), NEW out, NEW l
    PROVE  /\ IntValued(Shares(m), Members(m, out, l))
           /\ \A t \in DOMAIN m.ticket :
                 Shares(m)[t] = m.ticket[t].quantity /\ m.ticket[t].quantity \in Int
BY IntMaxIsNatural DEF Valued, Shares, Members, IntValued

\* Nothing is in a level that comes, and what is done to levels that go and to
\* tickets that are out does not touch the others.
LEMMA SumsAreKept ==
    ASSUME NEW m, NEW q, NEW out, Linked(m, q, out), Valued(m), Summed(m, out),
           NEW r, NEW others,
           DOMAIN r.ticket \ others = DOMAIN m.ticket \ out,
           \A x \in DOMAIN m.ticket \ out : r.ticket[x] = m.ticket[x],
           \A k \in DOMAIN r.level :
              \/ k \in DOMAIN m.level /\ r.level[k] = m.level[k]
              \/ k \notin DOMAIN m.level /\ r.level[k].totalVolume = 0
    PROVE  Summed(r, others)
<1> SUFFICES ASSUME NEW k \in DOMAIN r.level
             PROVE  r.level[k].totalVolume = Wrap(SharesOf(r, others, k))
  BY DEF Summed
<1>1. /\ Members(r, others, k) = Members(m, out, k)
      /\ \A t \in Members(m, out, k) : Shares(m)[t] = Shares(r)[t]
  BY DEF Members, Shares
<1>2. CASE k \in DOMAIN m.level /\ r.level[k] = m.level[k]
  <2>1. IsFiniteSet(Members(m, out, k)) /\ IntValued(Shares(m), Members(m, out, k))
    BY <1>2, MembersAreListed, SharesAreIntegers
  <2>2. SharesOf(r, others, k) = SharesOf(m, out, k)
    BY <1>1, <2>1, SumOfEqualValues DEF SharesOf
  <2> QED
    BY <1>2, <2>2 DEF Summed
<1>3. CASE k \notin DOMAIN m.level /\ r.level[k].totalVolume = 0
  <2>1. Members(m, out, k) = {}
    BY <1>3 DEF Members, Linked
  <2>2. IntValued(Shares(r), {}) /\ IsFiniteSet({})
    BY FS_EmptySet DEF IntValued
  <2>3. SharesOf(r, others, k) = 0
    BY <1>1, <2>1, <2>2, SumIsInteger DEF SharesOf
  <2>4. Wrap(0) = 0
    <3>1. ASSUME NEW h \in Nat \ {0}
          PROVE  h % (2 * h) = h
      OBVIOUS
    <3> QED
      BY <3>1, IntMaxIsNatural DEF Wrap
  <2> QED
    BY <1>3, <2>3, <2>4
<1> QED
  BY <1>2, <1>3

\* A ticket joins.
LEMMA SumAppended ==
    ASSUME NEW m, NEW q, NEW out, Linked(m, q, out), Valued(m), Summed(m, out),
           NEW l \in DOMAIN m.level, NEW t \in DOMAIN m.ticket, t \in out,
           NEW r, Appends(m, r, l, t)
    PROVE  Summed(r, out \ {t})
<1> DEFINE now == out \ {t}
           n == m.ticket[t].quantity
<1>1. /\ DOMAIN r.ticket = DOMAIN m.ticket /\ DOMAIN r.level = DOMAIN m.level
      /\ \A x \in DOMAIN m.ticket : r.ticket[x].quantity = m.ticket[x].quantity
      /\ \A x \in DOMAIN m.ticket \ {t} : r.ticket[x].parentLevel = m.ticket[x].parentLevel
      /\ \A k \in DOMAIN m.level \ {l} : r.level[k] = m.level[k]
      /\ r.ticket[t].parentLevel = l
      /\ r.level[l].totalVolume = Wrap(m.level[l].totalVolume + n)
  BY DEF Appends, OneListChanges, SameObjects
<1>2. Shares(r) = Shares(m)
  BY <1>1 DEF Shares
<1>3. ASSUME NEW k \in DOMAIN m.level \ {l}
      PROVE  Members(r, now, k) = Members(m, out, k)
  BY <1>1 DEF Members
<1>4. /\ Members(r, now, l) = Members(m, out, l) \cup {t}
      /\ t \notin Members(m, out, l)
  BY <1>1 DEF Members
<1>5. SharesOf(r, now, l) = SharesOf(m, out, l) + n /\ SharesOf(m, out, l) \in Int
  <2>1. IsFiniteSet(Members(m, out, l)) /\ IsFiniteSet(Members(r, now, l))
    <3>1. IsFiniteSet(Members(m, out, l))
      BY MembersAreListed
    <3>2. IsFiniteSet(Members(m, out, l) \cup {t})
      BY <3>1, FS_AddElement
    <3> QED
      BY <1>4, <3>1, <3>2
  <2>2. /\ IntValued(Shares(m), Members(m, out, l))
        /\ Shares(m)[t] = n /\ n \in Int
    BY SharesAreIntegers
  <2>3. IntValued(Shares(m), Members(r, now, l))
    BY <1>4, <2>2 DEF IntValued
  <2>4. Members(r, now, l) \ {t} = Members(m, out, l) /\ t \in Members(r, now, l)
    BY <1>4
  <2>5. /\ SumFunctionOnSet(Shares(m), Members(r, now, l))
               = Shares(m)[t] + SumFunctionOnSet(Shares(m), Members(m, out, l))
        /\ SumFunctionOnSet(Shares(m), Members(m, out, l)) \in Int
    <3> DEFINE f == Shares(m)
               S == Members(r, now, l)
    <3>1. IsFiniteSet(S) /\ IntValued(f, S) /\ t \in S
      BY <2>1, <2>3, <2>4
    <3> HIDE DEF f, S
    <3>2. /\ SumFunctionOnSet(f, S) = f[t] + SumFunctionOnSet(f, S \ {t})
          /\ SumFunctionOnSet(f, S \ {t}) \in Int
      BY <3>1, SumWithout
    <3> QED
      BY <2>4, <3>2 DEF f, S
  <2> QED
    BY <1>2, <2>2, <2>5 DEF SharesOf
<1>6. n \in Int
  BY IntMaxIsNatural DEF Valued
<1>7. r.level[l].totalVolume = Wrap(SharesOf(r, now, l))
  BY <1>1, <1>5, <1>6, WrapsOnce DEF Summed
<1>8. ASSUME NEW k \in DOMAIN m.level \ {l}
      PROVE  r.level[k].totalVolume = Wrap(SharesOf(r, now, k))
  BY <1>1, <1>2, <1>3 DEF Summed, SharesOf
<1> QED
  BY <1>1, <1>7, <1>8 DEF Summed

\* A ticket leaves.
LEMMA SumUnlinked ==
    ASSUME NEW m, NEW q, NEW out, Linked(m, q, out), Valued(m), Summed(m, out),
           NEW t \in DOMAIN m.ticket \ out,
           NEW r, Unlinks(m, r, t)
    PROVE  Summed(r, out \cup {t})
<1> DEFINE now == out \cup {t}
           n == m.ticket[t].quantity
           l == m.ticket[t].parentLevel
<1>1. /\ DOMAIN r.ticket = DOMAIN m.ticket /\ DOMAIN r.level = DOMAIN m.level
      /\ \A x \in DOMAIN m.ticket : r.ticket[x].quantity = m.ticket[x].quantity
      /\ \A x \in DOMAIN m.ticket \ {t} : r.ticket[x].parentLevel = m.ticket[x].parentLevel
      /\ \A k \in DOMAIN m.level \ {l} : r.level[k] = m.level[k]
      /\ r.level[l].totalVolume = Wrap(m.level[l].totalVolume - n)
  BY DEF Unlinks, OneListChanges, SameObjects
<1>2. Shares(r) = Shares(m) /\ l \in DOMAIN m.level
  BY <1>1 DEF Shares, Linked
<1>3. ASSUME NEW k \in DOMAIN m.level \ {l}
      PROVE  Members(r, now, k) = Members(m, out, k)
  BY <1>1 DEF Members
<1>4. /\ Members(r, now, l) = Members(m, out, l) \ {t}
      /\ t \in Members(m, out, l)
  BY <1>1 DEF Members
<1> HIDE DEF l
<1>5. /\ SharesOf(m, out, l) = SharesOf(r, now, l) + n
      /\ SharesOf(r, now, l) \in Int /\ n \in Int
  <2>1. IsFiniteSet(Members(m, out, l))
    BY <1>2, MembersAreListed
  <2>2. /\ IntValued(Shares(m), Members(m, out, l))
        /\ Shares(m)[t] = n /\ n \in Int
    BY SharesAreIntegers
  <2>3. /\ SumFunctionOnSet(Shares(m), Members(m, out, l))
               = Shares(m)[t] + SumFunctionOnSet(Shares(m), Members(r, now, l))
        /\ SumFunctionOnSet(Shares(m), Members(r, now, l)) \in Int
    <3> DEFINE f == Shares(m)
               S == Members(m, out, l)
    <3>1. IsFiniteSet(S) /\ IntValued(f, S) /\ t \in S
      BY <1>4, <2>1, <2>2
    <3> HIDE DEF f, S
    <3>2. /\ SumFunctionOnSet(f, S) = f[t] + SumFunctionOnSet(f, S \ {t})
          /\ SumFunctionOnSet(f, S \ {t}) \in Int
      BY <3>1, SumWithout
    <3> QED
      BY <1>4, <3>2 DEF f, S
  <2> QED
    BY <1>2, <2>2, <2>3 DEF SharesOf
<1>6. r.level[l].totalVolume = Wrap(SharesOf(r, now, l))
  <2>1. /\ SharesOf(m, out, l) \in Int /\ -n \in Int
        /\ SharesOf(m, out, l) + (-n) = SharesOf(r, now, l)
    BY <1>5
  <2>2. m.level[l].totalVolume = Wrap(SharesOf(m, out, l))
    BY <1>2 DEF Summed
  <2>3. m.level[l].totalVolume - n = m.level[l].totalVolume + (-n)
    BY <1>2, <1>5, IntMaxIsNatural DEF Valued, Ints
  <2> QED
    BY <1>1, <2>1, <2>2, <2>3, WrapsOnce
<1>7. ASSUME NEW k \in DOMAIN m.level \ {l}
      PROVE  r.level[k].totalVolume = Wrap(SharesOf(r, now, k))
  BY <1>1, <1>2, <1>3 DEF Summed, SharesOf
<1> QED
  BY <1>1, <1>6, <1>7 DEF Summed

\* A ticket stays and gives away n shares.
LEMMA SumFilled ==
    ASSUME NEW m, NEW q, NEW out, Linked(m, q, out), Valued(m), Summed(m, out),
           NEW t \in DOMAIN m.ticket \ out, NEW n \in Int, NEW r,
           DOMAIN r.ticket = DOMAIN m.ticket, DOMAIN r.level = DOMAIN m.level,
           \A x \in DOMAIN m.ticket :
              /\ r.ticket[x].parentLevel = m.ticket[x].parentLevel
              /\ r.ticket[x].quantity = IF x = t THEN m.ticket[t].quantity - n
                                        ELSE m.ticket[x].quantity,
           \A k \in DOMAIN m.level :
              r.level[k].totalVolume = IF k = m.ticket[t].parentLevel
                                       THEN Wrap(m.level[k].totalVolume - n)
                                       ELSE m.level[k].totalVolume
    PROVE  Summed(r, out)
<1> SUFFICES ASSUME NEW k \in DOMAIN m.level
             PROVE  r.level[k].totalVolume = Wrap(SharesOf(r, out, k))
  BY DEF Summed
<1> DEFINE S == Members(m, out, k)
           f == Shares(m)
           g == Shares(r)
<1>1. Members(r, out, k) = S
  BY DEF Members
<1>2. /\ IsFiniteSet(S) /\ IntValued(f, S)
      /\ f[t] = m.ticket[t].quantity /\ f[t] \in Int
  BY MembersAreListed, SharesAreIntegers, IntMaxIsNatural DEF Valued
<1>3. /\ \A x \in S \ {t} : f[x] = g[x]
      /\ g[t] = f[t] - n
  BY DEF Shares, Members
<1>4. m.level[k].totalVolume = Wrap(SumFunctionOnSet(f, S)) /\ m.level[k].totalVolume \in Int
  BY IntMaxIsNatural DEF Summed, SharesOf, Valued, Ints
<1>5. t \in S <=> k = m.ticket[t].parentLevel
  BY DEF Members
<1> HIDE DEF S, f, g
<1>6. CASE k = m.ticket[t].parentLevel
  <2>1. /\ IntValued(g, S) /\ IsFiniteSet(S \ {t}) /\ IntValued(f, S \ {t})
    BY <1>2, <1>3, FS_RemoveElement DEF IntValued
  <2>2. /\ SumFunctionOnSet(f, S) = f[t] + SumFunctionOnSet(f, S \ {t})
        /\ SumFunctionOnSet(f, S \ {t}) \in Int
        /\ SumFunctionOnSet(g, S) = g[t] + SumFunctionOnSet(g, S \ {t})
    BY <1>2, <1>5, <1>6, <2>1, SumWithout
  <2>3. SumFunctionOnSet(f, S \ {t}) = SumFunctionOnSet(g, S \ {t})
    BY <1>3, <2>1, SumOfEqualValues
  <2>4. /\ SumFunctionOnSet(g, S) = SumFunctionOnSet(f, S) + (-n)
        /\ SumFunctionOnSet(f, S) \in Int /\ -n \in Int
    BY <1>2, <1>3, <2>2, <2>3
  <2>5. m.level[k].totalVolume - n = m.level[k].totalVolume + (-n)
    BY <1>4
  <2>6. r.level[k].totalVolume = Wrap(m.level[k].totalVolume + (-n))
    BY <1>6, <2>5
  <2>7. r.level[k].totalVolume = Wrap(SumFunctionOnSet(g, S))
    BY <1>4, <2>4, <2>6, WrapsOnce
  <2> QED
    BY <1>1, <2>7 DEF SharesOf, g
<1>7. CASE k # m.ticket[t].parentLevel
  <2>1. \A x \in S : f[x] = g[x]
    BY <1>3, <1>5, <1>7
  <2>2. SumFunctionOnSet(f, S) = SumFunctionOnSet(g, S)
    BY <1>2, <2>1, SumOfEqualValues
  <2> QED
    BY <1>1, <1>4, <1>7, <2>2 DEF SharesOf, g
<1> QED
  BY <1>6, <1>7

-----------------------------------------------------------------------------
(* Lines: the lists as TicketQueues has them.                              *)

Entry(m, t) == [ticket |-> t, shares |-> m.ticket[t].quantity]
Entries(m, s) == [i \in DOMAIN s |-> Entry(m, s[i])]

LinesOf(m, q) ==
    [key \in Keys |->
        IF key \in DOMAIN m.levelMap THEN Entries(m, q[m.levelMap[key]]) ELSE <<>>]

\* The lines when e has come to the end of one, and when the i-th has left it.
Longer(lines, key, e) == [lines EXCEPT ![key] = Append(@, e)]
Shorter(lines, key, i) == [lines EXCEPT ![key] = RemoveAt(@, i)]

\* The i-th of a line gives away shares, and has n left.
Given(lines, key, i, n) == [lines EXCEPT ![key][i].shares = n]

\* What an unlinked ticket does to the lines.
LeftLine(m, q, r, l, i) ==
    LinesOf(r, Removed(q, l, i)) = Shorter(LinesOf(m, q), m.level[l].levelPrice, i)

\* A step of the lines is one of these.
Joined(lines, next) ==
    \E e : \E key \in Keys :
        /\ \A k \in Keys : \A i \in DOMAIN lines[k] : lines[k][i].ticket # e.ticket
        /\ next = Longer(lines, key, e)

Moved(lines, next) ==
    \E e : \E from, key \in Keys : \E i \in DOMAIN lines[from] :
        /\ lines[from][i].ticket = e.ticket
        /\ next = Longer(Shorter(lines, from, i), key, e)

Left(lines, next) ==
    \E key \in Keys : \E i \in DOMAIN lines[key] : next = Shorter(lines, key, i)

GaveAway(lines, next) ==
    \E key \in Keys, n \in Int :
        /\ 1 \in DOMAIN lines[key] /\ n < lines[key][1].shares
        /\ next = Given(lines, key, 1, n)

LineStep(lines, next) ==
    \/ Joined(lines, next) \/ Moved(lines, next)
    \/ Left(lines, next) \/ GaveAway(lines, next)
    \/ next = lines

\* Each level has a key of its own, and a list of tickets.
LEMMA KeyOfLevel ==
    ASSUME NEW m, NEW q, NEW out, Linked(m, q, out), Indexed(m), NEW l \in DOMAIN m.level
    PROVE  /\ m.level[l].levelPrice \in Keys
           /\ m.level[l].levelPrice \in DOMAIN m.levelMap
           /\ m.levelMap[m.level[l].levelPrice] = l
           /\ q[l] \in Seq(DOMAIN m.ticket \ out)
           /\ \A key \in Keys \ {m.level[l].levelPrice} :
                 key \in DOMAIN m.levelMap => /\ m.levelMap[key] \in DOMAIN m.level \ {l}
                                              /\ q[m.levelMap[key]] \in Seq(DOMAIN m.ticket \ out)
<1>1. \A k \in DOMAIN m.level : q[k] \in Seq(DOMAIN m.ticket \ out)
  BY DEF Linked, IsList
<1>2. /\ m.level[l].levelPrice \in Keys
      /\ m.level[l].levelPrice \in DOMAIN m.levelMap
      /\ m.levelMap[m.level[l].levelPrice] = l
  BY DEF Indexed
<1>3. \A key \in Keys \ {m.level[l].levelPrice} :
         key \in DOMAIN m.levelMap => m.levelMap[key] \in DOMAIN m.level \ {l}
  BY <1>2 DEF Indexed
<1> QED
  BY <1>1, <1>2, <1>3

\* The entries of a list depend on the shares of its tickets only.
LEMMA SameEntries ==
    ASSUME NEW m, NEW r, NEW S, NEW s \in Seq(S),
           \A x \in S : r.ticket[x].quantity = m.ticket[x].quantity
    PROVE  Entries(r, s) = Entries(m, s)
<1>1. \A i \in DOMAIN s : s[i] \in S
  OBVIOUS
<1>2. \A i \in DOMAIN s : Entry(r, s[i]) = Entry(m, s[i])
  BY <1>1 DEF Entry
<1> QED
  BY <1>2 DEF Entries

\* There is an entry for every ticket of a list.
LEMMA EntriesOfList ==
    ASSUME NEW m, NEW S, NEW s \in Seq(S)
    PROVE  /\ Entries(m, s) \in Seq({Entry(m, x) : x \in S})
           /\ Len(Entries(m, s)) = Len(s)
           /\ Entries(m, s) = [i \in 1..Len(s) |-> Entry(m, s[i])]
<1> DEFINE b == Entries(m, s)
           E == {Entry(m, x) : x \in S}
           n == Len(s)
<1>1. n \in Nat /\ DOMAIN s = 1..n /\ \A i \in 1..n : s[i] \in S
  OBVIOUS
<1>2. b = [i \in 1..n |-> Entry(m, s[i])]
  BY <1>1 DEF Entries
<1>3. \A i \in 1..n : Entry(m, s[i]) \in E
  BY <1>1
<1> HIDE DEF b, E, n
<1>4. b \in [1..n -> E]
  BY <1>2, <1>3
<1>5. b \in Seq(E)
  BY <1>1, <1>4, SeqDef
<1>6. Len(b) = n
  BY <1>1, <1>4, <1>5, LenProperties
<1> QED
  BY <1>2, <1>5, <1>6 DEF b, E, n

\* The entries of a list that a ticket has joined.
LEMMA AppendedEntries ==
    ASSUME NEW m, NEW S, NEW s \in Seq(S), NEW t \in S
    PROVE  Entries(m, Append(s, t)) = Append(Entries(m, s), Entry(m, t))
<1> DEFINE a == Append(s, t)
           b == Entries(m, s)
           e == Entry(m, t)
           E == {Entry(m, x) : x \in S}
           c == Append(b, e)
           n == Len(s)
<1>1. /\ n \in Nat /\ DOMAIN a = 1..(n + 1) /\ a[n + 1] = t
      /\ \A i \in 1..n : a[i] = s[i]
  BY AppendProperties
<1>2. /\ b \in Seq(E) /\ Len(b) = n
      /\ b = [i \in 1..n |-> Entry(m, s[i])]
  BY EntriesOfList
<1>3. e \in E
  OBVIOUS
<1> HIDE DEF a, b, e, E, n
<1>4. /\ c \in Seq(E) /\ Len(c) = n + 1 /\ c[n + 1] = e
      /\ \A i \in 1..n : c[i] = b[i]
  <2>1. b \in Seq(E) /\ Len(b) = n
    BY <1>2
  <2> QED
    BY <1>3, <2>1, AppendProperties
<1> HIDE DEF c
<1>5. c = [i \in 1..(n + 1) |-> c[i]]
  BY <1>4
<1>6. ASSUME NEW i \in 1..(n + 1)
      PROVE  Entry(m, a[i]) = c[i]
  <2>1. i = n + 1 \/ i \in 1..n
    BY <1>1
  <2>2. \A j \in 1..n : c[j] = Entry(m, s[j])
    BY <1>2, <1>4
  <2> QED
    BY <1>1, <1>4, <2>1, <2>2 DEF e
<1>7. Entries(m, a) = [i \in 1..(n + 1) |-> Entry(m, a[i])]
  BY <1>1 DEF Entries
<1>8. Entries(m, a) = c
  BY <1>5, <1>6, <1>7
<1> QED
  BY <1>8 DEF a, b, c, e

\* The entries of a list that a ticket has left.
LEMMA RemovedEntries ==
    ASSUME NEW m, NEW S, NEW s \in Seq(S), NEW i \in 1..Len(s)
    PROVE  Entries(m, RemoveAt(s, i)) = RemoveAt(Entries(m, s), i)
<1> DEFINE a == RemoveAt(s, i)
           b == Entries(m, s)
           E == {Entry(m, x) : x \in S}
           c == RemoveAt(b, i)
           n == Len(s)
<1>1. /\ n \in Nat /\ DOMAIN a = 1..(n - 1)
      /\ \A j \in 1..(n - 1) : a[j] = IF j < i THEN s[j] ELSE s[j + 1]
  <2>1. a \in Seq(S) /\ Len(a) = n - 1
    BY RemoveAtProperties
  <2>2. \A j \in 1..(n - 1) : a[j] = IF j < i THEN s[j] ELSE s[j + 1]
    BY RemoveAtProperties
  <2> HIDE DEF a
  <2> QED
    BY <2>1, <2>2
<1>2. /\ b \in Seq(E) /\ Len(b) = n
      /\ b = [j \in 1..n |-> Entry(m, s[j])]
  BY EntriesOfList
<1> HIDE DEF a, b, E
<1>3. /\ c \in Seq(E) /\ Len(c) = n - 1
      /\ \A j \in 1..(n - 1) : c[j] = IF j < i THEN b[j] ELSE b[j + 1]
  BY <1>2, RemoveAtProperties
<1> HIDE DEF c, n
<1>4. c = [j \in 1..(n - 1) |-> c[j]]
  BY <1>3
<1>5. ASSUME NEW j \in 1..(n - 1)
      PROVE  Entry(m, a[j]) = c[j]
  <2>1. j \in 1..n /\ j + 1 \in 1..n
    BY <1>1
  <2>2. b[j] = Entry(m, s[j]) /\ b[j + 1] = Entry(m, s[j + 1])
    BY <1>2, <2>1
  <2> QED
    BY <1>1, <1>3, <2>2
<1>6. Entries(m, a) = [j \in 1..(n - 1) |-> Entry(m, a[j])]
  BY <1>1 DEF Entries
<1>7. Entries(m, a) = c
  BY <1>4, <1>5, <1>6
<1> QED
  BY <1>7 DEF a, b, c

\* An empty list has none.
LEMMA NoEntries == ASSUME NEW m PROVE Entries(m, <<>>) = <<>>
<1>1. DOMAIN <<>> = {}
  OBVIOUS
<1>2. Entries(m, <<>>) = [i \in {} |-> Entry(m, <<>>[i])]
  BY <1>1, Zenon DEF Entries
<1> QED
  BY <1>2

\* Nobody joins, leaves or gives away: not in lists that stay, nor by levels
\* that come or go without tickets.
LEMMA LinesAreKept ==
    ASSUME NEW m, NEW q, NEW out, Linked(m, q, out), Indexed(m),
           NEW r, NEW p,
           \A x \in DOMAIN m.ticket \ out : r.ticket[x].quantity = m.ticket[x].quantity,
           \A key \in Keys :
              \/ /\ key \in DOMAIN m.levelMap /\ key \in DOMAIN r.levelMap
                 /\ p[r.levelMap[key]] = q[m.levelMap[key]]
              \/ /\ key \in DOMAIN m.levelMap => q[m.levelMap[key]] = <<>>
                 /\ key \in DOMAIN r.levelMap => p[r.levelMap[key]] = <<>>
    PROVE  LinesOf(r, p) = LinesOf(m, q)
<1>1. ASSUME NEW key \in Keys
      PROVE  LinesOf(r, p)[key] = LinesOf(m, q)[key]
  <2>1. CASE /\ key \in DOMAIN m.levelMap /\ key \in DOMAIN r.levelMap
             /\ p[r.levelMap[key]] = q[m.levelMap[key]]
    <3>1. m.levelMap[key] \in DOMAIN m.level
      BY <2>1 DEF Indexed
    <3>2. q[m.levelMap[key]] \in Seq(DOMAIN m.ticket \ out)
      BY <3>1 DEF Linked, IsList
    <3>3. Entries(r, q[m.levelMap[key]]) = Entries(m, q[m.levelMap[key]])
      BY <3>2, SameEntries
    <3> QED
      BY <2>1, <3>3 DEF LinesOf
  <2>2. CASE /\ key \in DOMAIN m.levelMap => q[m.levelMap[key]] = <<>>
             /\ key \in DOMAIN r.levelMap => p[r.levelMap[key]] = <<>>
    BY <2>2, NoEntries DEF LinesOf
  <2> QED
    BY <2>1, <2>2
<1> QED
  BY <1>1 DEF LinesOf

\* The same, when no level comes or goes.
LEMMA SameLines ==
    ASSUME NEW m, NEW q, NEW out, Linked(m, q, out), Indexed(m),
           NEW r, r.levelMap = m.levelMap,
           \A x \in DOMAIN m.ticket \ out : r.ticket[x].quantity = m.ticket[x].quantity
    PROVE  LinesOf(r, q) = LinesOf(m, q)
<1>1. \A key \in Keys :
         \/ /\ key \in DOMAIN m.levelMap /\ key \in DOMAIN r.levelMap
            /\ q[r.levelMap[key]] = q[m.levelMap[key]]
         \/ key \notin DOMAIN m.levelMap /\ key \notin DOMAIN r.levelMap
  OBVIOUS
<1> QED
  BY <1>1, LinesAreKept

\* What is done to the list of one level, and to its tickets, concerns its
\* line only.
LEMMA OneLineChanges ==
    ASSUME NEW m, NEW q, NEW out, Linked(m, q, out), Indexed(m),
           NEW l \in DOMAIN m.level,
           NEW r, r.levelMap = m.levelMap, NEW p,
           \A k \in DOMAIN m.level \ {l} : Entries(r, p[k]) = Entries(m, q[k]),
           NEW line, Entries(r, p[l]) = line
    PROVE  /\ m.level[l].levelPrice \in Keys
           /\ LinesOf(m, q) = [key \in Keys |-> LinesOf(m, q)[key]]
           /\ LinesOf(m, q)[m.level[l].levelPrice] = Entries(m, q[l])
           /\ LinesOf(r, p) = [LinesOf(m, q) EXCEPT ![m.level[l].levelPrice] = line]
<1> DEFINE at == m.level[l].levelPrice
           before == LinesOf(m, q)
           after == LinesOf(r, p)
<1>1. at \in Keys /\ at \in DOMAIN m.levelMap /\ m.levelMap[at] = l
  BY KeyOfLevel
<1>2. \A key \in Keys \ {at} : key \in DOMAIN m.levelMap => m.levelMap[key] \in DOMAIN m.level \ {l}
  BY KeyOfLevel
<1> HIDE DEF at
<1>3. \A key \in Keys \ {at} : after[key] = before[key]
  BY <1>2 DEF LinesOf
<1>4. before[at] = Entries(m, q[l]) /\ after[at] = line
  BY <1>1 DEF LinesOf
<1>5. before = [key \in Keys |-> before[key]] /\ after = [key \in Keys |-> after[key]]
  BY DEF LinesOf
<1> HIDE DEF before, after
<1>6. after = [before EXCEPT ![at] = line]
  BY <1>1, <1>3, <1>4, <1>5
<1> QED
  BY <1>1, <1>4, <1>5, <1>6 DEF at, before, after

\* An appended ticket joins the line of its level at the end.
LEMMA LineGrows ==
    ASSUME NEW m, NEW q, NEW out, Linked(m, q, out), Indexed(m),
           NEW l \in DOMAIN m.level, NEW t \in DOMAIN m.ticket,
           NEW r, r.levelMap = m.levelMap,
           \A x \in DOMAIN m.ticket : r.ticket[x].quantity = m.ticket[x].quantity
    PROVE  LinesOf(r, Appended(q, l, t))
              = Longer(LinesOf(m, q), m.level[l].levelPrice, Entry(m, t))
<1> DEFINE p == Appended(q, l, t)
           line == Append(Entries(m, q[l]), Entry(m, t))
           before == LinesOf(m, q)
           at == m.level[l].levelPrice
<1>1. \A k \in DOMAIN m.level :
         q[k] \in Seq(DOMAIN m.ticket \ out) /\ Entries(r, q[k]) = Entries(m, q[k])
  <2>1. \A k \in DOMAIN m.level : q[k] \in Seq(DOMAIN m.ticket \ out)
    BY DEF Linked, IsList
  <2> QED
    BY <2>1, SameEntries
<1>2. DOMAIN q = DOMAIN m.level
  BY DEF Linked
<1>3. p[l] = Append(q[l], t) /\ \A k \in DOMAIN m.level \ {l} : p[k] = q[k]
  BY <1>2 DEF Appended
<1> HIDE DEF p
<1>4. Entries(r, p[l]) = line
  <2>1. q[l] \in Seq(DOMAIN m.ticket)
    <3>1. DOMAIN m.ticket \ out \subseteq DOMAIN m.ticket
      OBVIOUS
    <3> QED
      BY <1>1, <3>1, SeqMonotonic
  <2>2. Entries(r, Append(q[l], t)) = Append(Entries(r, q[l]), Entry(r, t))
    BY <2>1, AppendedEntries
  <2>3. Entry(r, t) = Entry(m, t)
    BY DEF Entry
  <2> QED
    BY <1>1, <1>3, <2>2, <2>3
<1> HIDE DEF line
<1>5. before[at] = Entries(m, q[l]) /\ LinesOf(r, p) = [before EXCEPT ![at] = line]
  <2>1. \A k \in DOMAIN m.level \ {l} : Entries(r, p[k]) = Entries(m, q[k])
    BY <1>1, <1>3
  <2> QED
    BY <1>4, <2>1, OneLineChanges
<1> HIDE DEF before, at
<1>6. LinesOf(r, p) = [before EXCEPT ![at] = Append(before[at], Entry(m, t))]
  BY <1>5 DEF line
<1> QED
  BY <1>6 DEF Longer, p, at, before

\* An unlinked ticket leaves the line of its level, from any place.
LEMMA LineShrinks ==
    ASSUME NEW m, NEW q, NEW out, Linked(m, q, out), Indexed(m),
           NEW l \in DOMAIN m.level, NEW i \in 1..Len(q[l]),
           NEW r, r.levelMap = m.levelMap,
           \A x \in DOMAIN m.ticket : r.ticket[x].quantity = m.ticket[x].quantity
    PROVE  LinesOf(r, Removed(q, l, i)) = Shorter(LinesOf(m, q), m.level[l].levelPrice, i)
<1> DEFINE p == Removed(q, l, i)
           line == RemoveAt(Entries(m, q[l]), i)
           before == LinesOf(m, q)
           at == m.level[l].levelPrice
<1>1. \A k \in DOMAIN m.level :
         q[k] \in Seq(DOMAIN m.ticket \ out) /\ Entries(r, q[k]) = Entries(m, q[k])
  <2>1. \A k \in DOMAIN m.level : q[k] \in Seq(DOMAIN m.ticket \ out)
    BY DEF Linked, IsList
  <2> QED
    BY <2>1, SameEntries
<1>2. DOMAIN q = DOMAIN m.level
  BY DEF Linked
<1>3. p[l] = RemoveAt(q[l], i) /\ \A k \in DOMAIN m.level \ {l} : p[k] = q[k]
  BY <1>2 DEF Removed
<1> HIDE DEF p
<1>4. Entries(r, p[l]) = line
  <2>1. Entries(r, RemoveAt(q[l], i)) = RemoveAt(Entries(r, q[l]), i)
    BY <1>1, RemovedEntries
  <2> QED
    BY <1>1, <1>3, <2>1
<1> HIDE DEF line
<1>5. before[at] = Entries(m, q[l]) /\ LinesOf(r, p) = [before EXCEPT ![at] = line]
  <2>1. \A k \in DOMAIN m.level \ {l} : Entries(r, p[k]) = Entries(m, q[k])
    BY <1>1, <1>3
  <2> QED
    BY <1>4, <2>1, OneLineChanges
<1> HIDE DEF before, at
<1>6. LinesOf(r, p) = [before EXCEPT ![at] = RemoveAt(before[at], i)]
  BY <1>5 DEF line
<1> QED
  BY <1>6 DEF Shorter, p, at, before

\* In r the ticket t has n shares, and nothing else of a line has changed.
Refilled(m, r, t, n) ==
    /\ r.levelMap = m.levelMap
    /\ \A x \in DOMAIN m.ticket :
          r.ticket[x].quantity = IF x = t THEN n ELSE m.ticket[x].quantity

\* A ticket that is filled partially keeps its place.
LEMMA LineGives ==
    ASSUME NEW m, NEW q, NEW out, Linked(m, q, out), Indexed(m),
           NEW l \in DOMAIN m.level, NEW i \in 1..Len(q[l]), NEW n,
           NEW r, Refilled(m, r, q[l][i], n)
    PROVE  LinesOf(r, q) = Given(LinesOf(m, q), m.level[l].levelPrice, i, n)
<1> DEFINE s == q[l]
           t == s[i]
           S == DOMAIN m.ticket \ out
           before == LinesOf(m, q)
           at == m.level[l].levelPrice
           b == Entries(m, s)
           line == [b EXCEPT ![i].shares = n]
<1>0. /\ r.levelMap = m.levelMap
      /\ \A x \in DOMAIN m.ticket :
            r.ticket[x].quantity = IF x = t THEN n ELSE m.ticket[x].quantity
  BY DEF Refilled
<1>1. /\ \A k \in DOMAIN m.level : q[k] \in Seq(S)
      /\ \A k \in DOMAIN m.level : \A j \in 1..Len(q[k]) : m.ticket[q[k][j]].parentLevel = k
      /\ \A j \in 1..Len(s) : s[j] = t => j = i
  BY DEF Linked, IsList
<1>2. t \in S /\ m.ticket[t].parentLevel = l
  BY <1>1
<1>3. \A k \in DOMAIN m.level \ {l} : Entries(r, q[k]) = Entries(m, q[k])
  <2> SUFFICES ASSUME NEW k \in DOMAIN m.level \ {l}
               PROVE  Entries(r, q[k]) = Entries(m, q[k])
    OBVIOUS
  <2>1. q[k] \in Seq(S) /\ \A j \in 1..Len(q[k]) : q[k][j] \in S /\ q[k][j] # t
    BY <1>1, <1>2
  <2>2. q[k] \in Seq(S \ {t})
    <3>1. q[k] = [j \in 1..Len(q[k]) |-> q[k][j]] /\ Len(q[k]) \in Nat
      BY <2>1
    <3>2. \A j \in 1..Len(q[k]) : q[k][j] \in S \ {t}
      BY <2>1
    <3> HIDE DEF S, t
    <3> QED
      BY <3>1, <3>2, SeqDef
  <2> QED
    BY <1>0, <2>2, SameEntries
<1>4. Entries(r, s) = line
  <2>1. /\ b = [j \in 1..Len(s) |-> Entry(m, s[j])]
        /\ Entries(r, s) = [j \in 1..Len(s) |-> Entry(r, s[j])]
    <3>1. s \in Seq(S)
      BY <1>1
    <3>2. DOMAIN s = 1..Len(s)
      BY <3>1
    <3> HIDE DEF s
    <3> QED
      BY <3>2 DEF Entries
  <2>2. ASSUME NEW j \in 1..Len(s)
        PROVE  line[j] = Entry(r, s[j])
    <3>1. s[j] \in DOMAIN m.ticket
      BY <1>1
    <3>2. CASE j = i
      <4>1. line[j] = [b[j] EXCEPT !.shares = n]
        BY <2>1, <3>2
      <4> QED
        BY <1>0, <2>1, <3>1, <3>2, <4>1 DEF Entry
    <3>3. CASE j # i
      <4>1. line[j] = b[j] /\ s[j] # t
        BY <1>1, <2>1, <3>3
      <4> QED
        BY <1>0, <2>1, <3>1, <4>1 DEF Entry
    <3> QED
      BY <3>2, <3>3
  <2>3. line = [j \in 1..Len(s) |-> line[j]]
    BY <2>1
  <2> HIDE DEF line
  <2> QED
    BY <2>1, <2>2, <2>3
<1> HIDE DEF line
<1>5. before[at] = b /\ LinesOf(r, q) = [before EXCEPT ![at] = line]
  BY <1>0, <1>3, <1>4, OneLineChanges
<1> HIDE DEF before, at, b
<1>6. LinesOf(r, q) = [before EXCEPT ![at] = [before[at] EXCEPT ![i].shares = n]]
  BY <1>5 DEF line
<1> QED
  BY <1>6 DEF Given, at, before

\* The i-th of a line is the i-th of the list.
LEMMA TicketInLine ==
    ASSUME NEW m, NEW q, NEW out, Linked(m, q, out), Indexed(m),
           NEW l \in DOMAIN m.level, NEW i \in 1..Len(q[l])
    PROVE  /\ m.level[l].levelPrice \in Keys
           /\ i \in DOMAIN LinesOf(m, q)[m.level[l].levelPrice]
           /\ LinesOf(m, q)[m.level[l].levelPrice][i] = Entry(m, q[l][i])
<1> DEFINE at == m.level[l].levelPrice
           s == q[l]
<1>1. at \in Keys /\ at \in DOMAIN m.levelMap /\ m.levelMap[at] = l /\ s \in Seq(DOMAIN m.ticket \ out)
  BY KeyOfLevel
<1> HIDE DEF at
<1>2. LinesOf(m, q)[at] = Entries(m, s)
  BY <1>1 DEF LinesOf
<1>3. i \in DOMAIN Entries(m, s) /\ Entries(m, s)[i] = Entry(m, s[i])
  <2>1. DOMAIN s = 1..Len(s)
    BY <1>1
  <2> QED
    BY <2>1 DEF Entries
<1> QED
  BY <1>1, <1>2, <1>3 DEF at

\* Lines are of tickets that are not out.
LEMMA LinesHoldTickets ==
    ASSUME NEW m, NEW q, NEW out, Linked(m, q, out), Indexed(m)
    PROVE  /\ LinesOf(m, q) \in [Keys -> Seq({Entry(m, x) : x \in DOMAIN m.ticket \ out})]
           /\ \A k \in Keys : \A i \in DOMAIN LinesOf(m, q)[k] :
                 LinesOf(m, q)[k][i].ticket \in DOMAIN m.ticket \ out
<1> DEFINE S == DOMAIN m.ticket \ out
           E == {Entry(m, x) : x \in S}
           lines == LinesOf(m, q)
<1>1. ASSUME NEW k \in Keys
      PROVE  lines[k] \in Seq(E)
  <2>1. CASE k \in DOMAIN m.levelMap
    <3>1. q[m.levelMap[k]] \in Seq(S)
      BY <2>1 DEF Indexed, Linked, IsList
    <3>2. Entries(m, q[m.levelMap[k]]) \in Seq(E)
      BY <3>1, EntriesOfList
    <3> QED
      BY <2>1, <3>2 DEF LinesOf
  <2>2. CASE k \notin DOMAIN m.levelMap
    <3>1. lines[k] = <<>>
      BY <2>2 DEF LinesOf
    <3> QED
      BY <3>1
  <2> QED
    BY <2>1, <2>2
<1>2. \A e \in E : e.ticket \in S
  BY DEF Entry
<1>3. lines = [k \in Keys |-> lines[k]]
  BY DEF LinesOf
<1> HIDE DEF E, lines
<1>4. \A k \in Keys : \A i \in DOMAIN lines[k] : lines[k][i] \in E
  BY <1>1
<1> QED
  BY <1>1, <1>2, <1>3, <1>4 DEF E, lines

\* A ticket that was in no line comes to the end of one.
LEMMA TicketJoins ==
    ASSUME NEW m, NEW q, NEW out, Store(m, q, out), NEW key \in Keys,
           NEW e, e.ticket \notin DOMAIN m.ticket \ out,
           NEW next, next = Longer(LinesOf(m, q), key, e)
    PROVE  LineStep(LinesOf(m, q), next)
<1>1. \A k \in Keys : \A i \in DOMAIN LinesOf(m, q)[k] :
         LinesOf(m, q)[k][i].ticket \in DOMAIN m.ticket \ out
  BY LinesHoldTickets DEF Store
<1> DEFINE lines == LinesOf(m, q)
<1> HIDE DEF lines
<1>2. \A k \in Keys : \A i \in DOMAIN lines[k] : lines[k][i].ticket # e.ticket
  BY <1>1 DEF lines
<1>3. Joined(lines, next)
  BY <1>2 DEF Joined, lines
<1> QED
  BY <1>3 DEF LineStep, lines

\* The i-th ticket of a list leaves.
LEMMA TicketLeaves ==
    ASSUME NEW m, NEW q, NEW out, Store(m, q, out),
           NEW l \in DOMAIN m.level, NEW i \in 1..Len(q[l]),
           NEW next, next = Shorter(LinesOf(m, q), m.level[l].levelPrice, i)
    PROVE  LineStep(LinesOf(m, q), next)
<1> DEFINE at == m.level[l].levelPrice
           lines == LinesOf(m, q)
<1>1. at \in Keys /\ i \in DOMAIN lines[at]
  BY TicketInLine DEF Store
<1> HIDE DEF at, lines
<1>2. Left(lines, next)
  BY <1>1 DEF Left, lines, at
<1> QED
  BY <1>2 DEF LineStep, lines

\* The i-th ticket of a list goes to the end of another one or of the same.
LEMMA TicketMoves ==
    ASSUME NEW m, NEW q, NEW out, Store(m, q, out),
           NEW l \in DOMAIN m.level, NEW i \in 1..Len(q[l]), NEW key \in Keys,
           NEW e, e.ticket = q[l][i],
           NEW next, next = Longer(Shorter(LinesOf(m, q), m.level[l].levelPrice, i), key, e)
    PROVE  LineStep(LinesOf(m, q), next)
<1> DEFINE at == m.level[l].levelPrice
           lines == LinesOf(m, q)
<1>1. at \in Keys /\ i \in DOMAIN lines[at] /\ lines[at][i] = Entry(m, q[l][i])
  BY TicketInLine DEF Store
<1> HIDE DEF at, lines
<1>2. lines[at][i].ticket = e.ticket
  BY <1>1 DEF Entry
<1>3. Moved(lines, next)
  BY <1>1, <1>2 DEF Moved, lines, at
<1> QED
  BY <1>3 DEF LineStep, lines

\* The head of a list has fewer shares than before.
LEMMA HeadGives ==
    ASSUME NEW m, NEW q, NEW out, Store(m, q, out),
           NEW l \in DOMAIN m.level, 1 \in 1..Len(q[l]),
           NEW n \in Int, n < m.ticket[q[l][1]].quantity,
           NEW next, next = Given(LinesOf(m, q), m.level[l].levelPrice, 1, n)
    PROVE  LineStep(LinesOf(m, q), next)
<1> DEFINE at == m.level[l].levelPrice
           lines == LinesOf(m, q)
<1>1. at \in Keys /\ 1 \in DOMAIN lines[at] /\ lines[at][1] = Entry(m, q[l][1])
  BY TicketInLine DEF Store
<1> HIDE DEF at, lines
<1>2. n < lines[at][1].shares
  BY <1>1 DEF Entry
<1>3. GaveAway(lines, next)
  BY <1>1, <1>2 DEF GaveAway, lines, at
<1> QED
  BY <1>3 DEF LineStep, lines

-----------------------------------------------------------------------------
(* The operations on a list.                                               *)

\* Nothing of a store is moved but the lists and counts.
LEMMA SameObjectsSameMaps ==
    ASSUME NEW m, NEW r, SameObjects(m, r), Accounted(m), Indexed(m), Mapped(m)
    PROVE  Accounted(r) /\ Indexed(r) /\ Mapped(r)
<1>1. Accounted(r)
  BY DEF SameObjects, Accounted
<1>2. Indexed(r)
  BY DEF SameObjects, Indexed
<1>3. Mapped(r)
  BY DEF SameObjects, Mapped
<1> QED
  BY <1>1, <1>2, <1>3

\* append puts a ticket that is in no list at the end of one.
LEMMA AppendKeepsStore ==
    ASSUME NEW m, NEW q, NEW out, Store(m, q, out),
           NEW l \in DOMAIN m.level, NEW t \in DOMAIN m.ticket, t \in out, Unlinked(m, t),
           NEW E, Full(m, E)
    PROVE  LET r == append(m, l, t)
           IN  /\ Appends(m, r, l, t)
               /\ Store(r, Appended(q, l, t), out \ {t})
               /\ Full(r, E \ {l})
<1> DEFINE r == append(m, l, t)
           S == DOMAIN m.ticket \ out
           T == DOMAIN m.ticket \ (out \ {t})
           p == Appended(q, l, t)
<1>1. /\ Shaped(m) /\ Accounted(m) /\ Indexed(m) /\ Mapped(m) /\ Valued(m)
      /\ q = [k \in DOMAIN m.level |-> q[k]]
      /\ \A k \in DOMAIN m.level : IsList(m, k, q[k], S)
      /\ \A x \in S :
            /\ m.ticket[x].parentLevel \in DOMAIN m.level
            /\ \E i \in 1..Len(q[m.ticket[x].parentLevel]) :
                  q[m.ticket[x].parentLevel][i] = x
  BY DEF Store, Linked
<1>2. Null \notin DOMAIN m.ticket
  BY <1>1, ObjectsAreCells DEF Accounted, Null
<1>3. T = S \cup {t} /\ S \subseteq DOMAIN m.ticket /\ t \notin S
  OBVIOUS
<1> HIDE DEF S, T
<1>4. \A k \in DOMAIN m.level :
         /\ q[k] \in Seq(S) /\ Len(q[k]) \in Nat
         /\ \A i \in 1..Len(q[k]) : q[k][i] \in S
  <2>1. \A k \in DOMAIN m.level : q[k] \in Seq(S)
    BY <1>1 DEF IsList
  <2> QED
    BY <2>1
<1>5. m.level[l].headOrder # Null => m.level[l].tailOrder \in DOMAIN m.ticket \ {t}
  <2>1. /\ m.level[l].headOrder = IF Len(q[l]) = 0 THEN Null ELSE q[l][1]
        /\ m.level[l].tailOrder = IF Len(q[l]) = 0 THEN Null ELSE q[l][Len(q[l])]
    BY <1>1 DEF IsList
  <2>2. Len(q[l]) # 0 => q[l][Len(q[l])] \in S
    BY <1>4
  <2> QED
    BY <1>3, <2>1, <2>2
<1>6. Appends(m, r, l, t)
  BY <1>1, <1>5, AppendFields
<1> HIDE DEF r
<1>7. OneListChanges(m, r, l, t)
  BY <1>6 DEF Appends
<1>8. IsList(r, l, Append(q[l], t), T)
  BY <1>1, <1>2, <1>3, <1>6, AppendedList DEF Unlinked
<1>9. ASSUME NEW k \in DOMAIN m.level \ {l}
      PROVE  IsList(r, k, q[k], T)
  <2>1. IsList(m, k, q[k], S) /\ r.level[k] = m.level[k]
    BY <1>1, <1>7 DEF OneListChanges
  <2>2. ASSUME NEW i \in 1..Len(q[k])
        PROVE  /\ r.ticket[q[k][i]].parentLevel = k
               /\ SameLinks(m, r, q[k][i])
    <3> DEFINE x == q[k][i]
    <3>1. x \in S /\ x \in DOMAIN m.ticket \ {t} /\ m.ticket[x].parentLevel = k
      BY <1>3, <1>4, <2>1 DEF IsList
    <3>2. m.level[l].headOrder # Null => x # m.level[l].tailOrder
      <4>1. Len(q[l]) # 0 => m.ticket[q[l][Len(q[l])]].parentLevel = l
        <5>1. IsList(m, l, q[l], S) /\ Len(q[l]) \in Nat
          BY <1>1, <1>4
        <5>2. Len(q[l]) # 0 => Len(q[l]) \in 1..Len(q[l])
          BY <5>1
        <5> QED
          BY <5>1, <5>2 DEF IsList
      <4>2. m.level[l].headOrder # Null =>
              Len(q[l]) # 0 /\ m.level[l].tailOrder = q[l][Len(q[l])]
        BY <1>1 DEF IsList
      <4> QED
        BY <3>1, <4>1, <4>2
    <3> HIDE DEF x
    <3>3. SameLinks(m, r, x)
      BY <1>6, <3>1, <3>2 DEF Appends
    <3>4. r.ticket[x].parentLevel = k
      BY <1>7, <3>1 DEF OneListChanges
    <3> QED
      BY <3>3, <3>4 DEF x
  <2>3. \A i \in 1..Len(q[k]) : q[k][i] \in T
    BY <1>3, <1>4
  <2> QED
    BY <2>1, <2>2, <2>3, ListIsKept
<1>10. SameObjects(m, r) /\ Shaped(r)
  BY <1>7 DEF OneListChanges
<1>11. /\ DOMAIN r.level = DOMAIN m.level /\ DOMAIN r.ticket = DOMAIN m.ticket
       /\ DOMAIN q = DOMAIN m.level
  BY <1>1, <1>10 DEF SameObjects
<1>12. /\ p = [k \in DOMAIN r.level |-> p[k]]
       /\ p[l] = Append(q[l], t)
       /\ \A k \in DOMAIN m.level \ {l} : p[k] = q[k]
  BY <1>11 DEF Appended
<1>13. \A k \in DOMAIN r.level : IsList(r, k, p[k], T)
  BY <1>8, <1>9, <1>11, <1>12
<1>14. ASSUME NEW x \in T
       PROVE  /\ r.ticket[x].parentLevel \in DOMAIN r.level
              /\ \E i \in 1..Len(p[r.ticket[x].parentLevel]) :
                    p[r.ticket[x].parentLevel][i] = x
  <2>1. /\ Len(p[l]) = Len(q[l]) + 1 /\ Len(q[l]) \in Nat
        /\ \A i \in 1..Len(q[l]) : p[l][i] = q[l][i]
        /\ p[l][Len(q[l]) + 1] = t
    <3>1. q[l] \in Seq(T)
      <4>1. q[l] = [i \in 1..Len(q[l]) |-> q[l][i]]
        BY <1>4
      <4> QED
        BY <1>3, <1>4, <4>1, SeqDef
    <3> QED
      BY <1>4, <1>12, <3>1, AppendProperties
  <2>2. CASE x = t
    <3>1. r.ticket[x].parentLevel = l
      BY <1>6, <2>2 DEF Appends
    <3>2. Len(q[l]) + 1 \in 1..Len(p[l])
      BY <2>1
    <3> QED
      BY <1>11, <2>1, <2>2, <3>1, <3>2
  <2>3. CASE x # t
    <3> DEFINE k == m.ticket[x].parentLevel
    <3>1. x \in S /\ x \in DOMAIN m.ticket \ {t}
      BY <1>3, <2>3
    <3>2. k \in DOMAIN m.level
      BY <1>1, <3>1
    <3>3. PICK i \in 1..Len(q[k]) : q[k][i] = x
      BY <1>1, <3>1
    <3>4. r.ticket[x].parentLevel = k
      BY <1>7, <3>1 DEF OneListChanges
    <3> HIDE DEF k
    <3>5. i \in 1..Len(p[k]) /\ p[k][i] = x
      <4>1. CASE k = l
        BY <2>1, <3>3, <4>1
      <4>2. CASE k # l
        BY <1>12, <3>2, <3>3, <4>2
      <4> QED
        BY <4>1, <4>2
    <3> QED
      BY <1>11, <3>2, <3>4, <3>5
  <2> QED
    BY <2>2, <2>3
<1>15. Linked(r, p, out \ {t})
  BY <1>10, <1>11, <1>12, <1>13, <1>14 DEF Linked, T
<1>16. Accounted(r) /\ Indexed(r) /\ Mapped(r)
  BY <1>1, <1>10, SameObjectsSameMaps
<1>17. /\ r.level[l].totalVolume \in Ints
       /\ l \in Nat
  <2>1. m.level[l].totalVolume + m.ticket[t].quantity \in Int
    BY <1>1, IntsAreIntegers DEF Valued
  <2>2. r.level[l].totalVolume = Wrap(m.level[l].totalVolume + m.ticket[t].quantity)
    BY <1>6 DEF Appends
  <2>3. l \in Nat
    BY <1>1, ObjectsAreCells DEF Accounted
  <2> QED
    BY <2>1, <2>2, <2>3, WrappedIsInt
<1>18. Valued(r)
  <2>1. \A x \in DOMAIN m.ticket :
           /\ r.ticket[x].idNumber = m.ticket[x].idNumber
           /\ r.ticket[x].quantity = m.ticket[x].quantity
           /\ r.ticket[x].parentLevel = m.ticket[x].parentLevel \/ r.ticket[x].parentLevel = l
    BY <1>6, <1>7, <1>10 DEF Appends, OneListChanges, SameObjects
  <2>2. \A k \in DOMAIN m.level \ {l} : r.level[k] = m.level[k]
    BY <1>7 DEF OneListChanges
  <2> QED
    BY <1>1, <1>11, <1>17, <2>1, <2>2 DEF Valued
<1>19. Full(r, E \ {l})
  <2>1. r.level[l].size # 0
    <3>1. r.level[l].size = Len(q[l]) + 1
      BY <1>1, <1>6 DEF Appends, IsList
    <3> QED
      BY <1>4, <3>1, SMTT(30)
  <2>2. \A k \in DOMAIN m.level \ {l} : r.level[k] = m.level[k]
    BY <1>7 DEF OneListChanges
  <2> QED
    BY <1>11, <2>1, <2>2 DEF Full
<1>20. Summed(r, out \ {t})
  BY <1>1, <1>6, SumAppended DEF Store
<1> QED
  BY <1>6, <1>15, <1>16, <1>18, <1>19, <1>20 DEF Store, r, p

\* A ticket leaves its list, from any place of it.
LEMMA UnlinkKeepsStore ==
    ASSUME NEW m, NEW q, NEW out, Store(m, q, out), Full(m, {}),
           NEW l \in DOMAIN m.level, NEW i \in 1..Len(q[l]),
           NEW r, Unlinks(m, r, q[l][i])
    PROVE  /\ Store(r, Removed(q, l, i), out \cup {q[l][i]})
           /\ Full(r, {l})
           /\ r.ticket[q[l][i]].parentLevel = l
           /\ SameObjects(m, r)
           /\ \A x \in DOMAIN m.ticket \cap out : SameLinks(m, r, x)
           /\ LeftLine(m, q, r, l, i)
<1> DEFINE t == q[l][i]
           S == DOMAIN m.ticket \ out
           T == DOMAIN m.ticket \ (out \cup {t})
           p == Removed(q, l, i)
           next == m.ticket[t].nextOrder
           prev == m.ticket[t].prevOrder
<1>1. /\ Shaped(m) /\ Accounted(m) /\ Indexed(m) /\ Mapped(m) /\ Valued(m)
      /\ q = [k \in DOMAIN m.level |-> q[k]]
      /\ \A k \in DOMAIN m.level : IsList(m, k, q[k], S)
      /\ \A x \in S :
            /\ m.ticket[x].parentLevel \in DOMAIN m.level
            /\ \E j \in 1..Len(q[m.ticket[x].parentLevel]) :
                  q[m.ticket[x].parentLevel][j] = x
  BY DEF Store, Linked
<1>2. Null \notin DOMAIN m.ticket
  BY <1>1, ObjectsAreCells DEF Accounted, Null
<1>3. T = S \ {t} /\ S \subseteq DOMAIN m.ticket
  OBVIOUS
<1> HIDE DEF S, T
<1>4. \A k \in DOMAIN m.level :
         /\ q[k] \in Seq(S) /\ Len(q[k]) \in Nat
         /\ \A j \in 1..Len(q[k]) : q[k][j] \in S
  <2>1. \A k \in DOMAIN m.level : q[k] \in Seq(S)
    BY <1>1 DEF IsList
  <2> QED
    BY <2>1, SMTT(30)
<1>5. IsList(m, l, q[l], S) /\ Null \notin S
  BY <1>1, <1>2, <1>3
<1>6. /\ t \in S /\ t # Null /\ m.ticket[t].parentLevel = l
      /\ next = IF i = Len(q[l]) THEN Null ELSE q[l][i + 1]
      /\ prev = IF i = 1 THEN Null ELSE q[l][i - 1]
  BY <1>5, NeighboursInList
<1> HIDE DEF next, prev, t
<1>7. /\ OneListChanges(m, r, l, t)
      /\ r.ticket[t].parentLevel = l
      /\ r.level[l].totalVolume = Wrap(m.level[l].totalVolume - m.ticket[t].quantity)
      /\ \A x \in DOMAIN m.ticket \ {t, next, prev} : SameLinks(m, r, x)
  BY <1>6 DEF Unlinks, next, prev, t
<1>8. IsList(r, l, RemoveAt(q[l], i), T)
  BY <1>2, <1>3, <1>5, UnlinkedList DEF t
<1>9. ASSUME NEW k \in DOMAIN m.level \ {l}
      PROVE  IsList(r, k, q[k], T)
  <2>1. IsList(m, k, q[k], S) /\ r.level[k] = m.level[k]
    BY <1>1, <1>7 DEF OneListChanges
  <2>2. ASSUME NEW j \in 1..Len(q[k])
        PROVE  /\ r.ticket[q[k][j]].parentLevel = k
               /\ SameLinks(m, r, q[k][j])
               /\ q[k][j] \in T
    <3> DEFINE x == q[k][j]
    <3>1. x \in S /\ m.ticket[x].parentLevel = k
      BY <1>4, <2>1 DEF IsList
    <3> HIDE DEF x
    <3>2. \A h \in 1..Len(q[l]) : m.ticket[q[l][h]].parentLevel = l
      BY <1>5 DEF IsList
    <3>3. next # Null => m.ticket[next].parentLevel = l
      <4>1. next # Null => i + 1 \in 1..Len(q[l]) /\ next = q[l][i + 1]
        BY <1>4, <1>6
      <4> QED
        BY <3>2, <4>1
    <3>4. prev # Null => m.ticket[prev].parentLevel = l
      <4>1. prev # Null => i - 1 \in 1..Len(q[l]) /\ prev = q[l][i - 1]
        BY <1>4, <1>6
      <4> QED
        BY <3>2, <4>1
    <3>5. x \in DOMAIN m.ticket \ {t, next, prev}
      BY <1>2, <1>3, <1>6, <3>1, <3>3, <3>4
    <3>6. r.ticket[x].parentLevel = k /\ SameLinks(m, r, x)
      BY <1>7, <3>1, <3>5 DEF OneListChanges
    <3> QED
      BY <1>3, <3>1, <3>5, <3>6 DEF x
  <2> QED
    BY <2>1, <2>2, ListIsKept
<1>10. SameObjects(m, r) /\ Shaped(r)
  BY <1>7 DEF OneListChanges
<1>11. /\ DOMAIN r.level = DOMAIN m.level /\ DOMAIN r.ticket = DOMAIN m.ticket
       /\ DOMAIN q = DOMAIN m.level
  BY <1>1, <1>10 DEF SameObjects
<1>12. /\ p = [k \in DOMAIN r.level |-> p[k]]
       /\ p[l] = RemoveAt(q[l], i)
       /\ \A k \in DOMAIN m.level \ {l} : p[k] = q[k]
  BY <1>11 DEF Removed
<1> HIDE DEF p
<1>13. \A k \in DOMAIN r.level : IsList(r, k, p[k], T)
  BY <1>8, <1>9, <1>11, <1>12
<1>14. ASSUME NEW x \in T
       PROVE  /\ r.ticket[x].parentLevel \in DOMAIN r.level
              /\ \E j \in 1..Len(p[r.ticket[x].parentLevel]) :
                    p[r.ticket[x].parentLevel][j] = x
  <2> DEFINE k == m.ticket[x].parentLevel
  <2>1. x \in S /\ x # t /\ x \in DOMAIN m.ticket \ {t}
    BY <1>3
  <2>2. k \in DOMAIN m.level /\ r.ticket[x].parentLevel = k
    BY <1>1, <1>7, <2>1 DEF OneListChanges
  <2>3. PICK j \in 1..Len(q[k]) : q[k][j] = x
    BY <1>1, <2>1
  <2> HIDE DEF k
  <2>4. CASE k = l
    <3>1. j # i /\ j \in 1..Len(q[l]) /\ Len(q[l]) \in Nat /\ q[l][j] = x
      BY <1>4, <2>1, <2>3, <2>4 DEF t
    <3>2. /\ Len(p[l]) = Len(q[l]) - 1
          /\ \A h \in 1..(Len(q[l]) - 1) : p[l][h] = IF h < i THEN q[l][h] ELSE q[l][h + 1]
      BY <1>4, <1>12, RemoveAtProperties, ZenonT(40)
    <3>3. \E h \in 1..Len(p[l]) : p[l][h] = x
      <4>1. CASE j < i
        BY <3>1, <3>2, <4>1
      <4>2. CASE j > i
        <5>1. j - 1 \in 1..Len(p[l]) /\ ~(j - 1 < i) /\ (j - 1) + 1 = j
          BY <3>1, <3>2, <4>2
        <5>2. p[l][j - 1] = q[l][(j - 1) + 1]
          BY <3>2, <5>1
        <5> QED
          BY <3>1, <5>1, <5>2
      <4> QED
        BY <3>1, <4>1, <4>2
    <3> QED
      BY <1>11, <2>2, <2>4, <3>3
  <2>5. CASE k # l
    BY <1>11, <1>12, <2>2, <2>3, <2>5
  <2> QED
    BY <2>4, <2>5
<1>15. Linked(r, p, out \cup {t})
  BY <1>10, <1>11, <1>12, <1>13, <1>14 DEF Linked, T
<1>16. Accounted(r) /\ Indexed(r) /\ Mapped(r)
  BY <1>1, <1>10, SameObjectsSameMaps
<1>17. r.level[l].totalVolume \in Ints
  <2>1. m.level[l].totalVolume - m.ticket[t].quantity \in Int
    BY <1>1, <1>3, <1>6, IntsAreIntegers DEF Valued
  <2> QED
    BY <1>7, <2>1, WrappedIsInt
<1>18. Valued(r)
  <2>1. \A x \in DOMAIN m.ticket :
           /\ r.ticket[x].idNumber = m.ticket[x].idNumber
           /\ r.ticket[x].quantity = m.ticket[x].quantity
           /\ r.ticket[x].parentLevel = m.ticket[x].parentLevel
    BY <1>6, <1>7, <1>10 DEF OneListChanges, SameObjects
  <2>2. \A k \in DOMAIN m.level \ {l} : r.level[k] = m.level[k]
    BY <1>7 DEF OneListChanges
  <2> QED
    BY <1>1, <1>11, <1>17, <2>1, <2>2 DEF Valued
<1>19. Full(r, {l})
  <2>1. \A k \in DOMAIN m.level \ {l} : r.level[k] = m.level[k]
    BY <1>7 DEF OneListChanges
  <2> QED
    BY <1>11, <2>1 DEF Full
\* The tickets beside t are in the list.
<1>20. ASSUME NEW x \in DOMAIN m.ticket \cap out
       PROVE  SameLinks(m, r, x)
  <2>1. x \notin S /\ x # Null
    BY <1>2 DEF S
  <2>2. next # Null => next \in S
    BY <1>4, <1>6
  <2>3. prev # Null => prev \in S
    BY <1>4, <1>6
  <2>4. x \in DOMAIN m.ticket \ {t, next, prev}
    BY <1>6, <2>1, <2>2, <2>3
  <2> QED
    BY <1>7, <2>4
<1>21. Summed(r, out \cup {t})
  <2>1. t \in DOMAIN m.ticket \ out /\ Unlinks(m, r, t)
    BY <1>6 DEF S, t
  <2> QED
    BY <1>1, <2>1, SumUnlinked DEF Store
<1>22. LeftLine(m, q, r, l, i)
  <2>1. /\ r.levelMap = m.levelMap
        /\ \A x \in DOMAIN m.ticket : r.ticket[x].quantity = m.ticket[x].quantity
    BY <1>7, <1>10 DEF OneListChanges, SameObjects
  <2>2. Linked(m, q, out) /\ Indexed(m)
    BY DEF Store
  <2> QED
    BY <2>1, <2>2, LineShrinks DEF LeftLine
<1> QED
  BY <1>7, <1>10, <1>15, <1>16, <1>18, <1>19, <1>20, <1>21, <1>22 DEF Store, p, t

\* A ticket that is not out is in the list of its level.
LEMMA TicketIsListed ==
    ASSUME NEW m, NEW q, NEW out, Store(m, q, out), NEW t \in DOMAIN m.ticket, t \notin out
    PROVE  LET l == m.ticket[t].parentLevel
           IN  /\ l \in DOMAIN m.level
               /\ \E i \in 1..Len(q[l]) : q[l][i] = t
BY DEF Store, Linked

\* cancel takes a ticket out of its list, wherever it is.
LEMMA CancelKeepsStore ==
    ASSUME NEW m, NEW q, NEW out, Store(m, q, out), Full(m, {}),
           NEW t \in DOMAIN m.ticket, t \notin out
    PROVE  LET r == cancel(m, t)
               l == m.ticket[t].parentLevel
           IN  /\ l \in DOMAIN m.level
               /\ \E i \in 1..Len(q[l]) :
                     /\ q[l][i] = t
                     /\ Store(r, Removed(q, l, i), out \cup {t})
                     /\ LeftLine(m, q, r, l, i)
               /\ Full(r, {l})
               /\ r.ticket[t].parentLevel = l
               /\ SameObjects(m, r)
<1> DEFINE r == cancel(m, t)
           l == m.ticket[t].parentLevel
           next == m.ticket[t].nextOrder
           prev == m.ticket[t].prevOrder
           S == DOMAIN m.ticket \ out
<1>1. l \in DOMAIN m.level
  BY TicketIsListed
<1>2. PICK i \in 1..Len(q[l]) : q[l][i] = t
  BY TicketIsListed
<1>3. Shaped(m) /\ IsList(m, l, q[l], S)
  BY <1>1 DEF Store, Linked
<1>4. Null \notin DOMAIN m.ticket
  BY ObjectsAreCells DEF Store, Accounted, Null
<1>5. /\ t # Null
      /\ next # Null => next \in S \ {t, prev}
      /\ prev # Null => prev \in S \ {t, next}
  BY <1>2, <1>3, <1>4, NeighboursInList
<1>6. Unlinks(m, r, t)
  <2>1. /\ next # Null => next \in DOMAIN m.ticket \ {t, prev}
        /\ prev # Null => prev \in DOMAIN m.ticket \ {t, next}
    BY <1>5
  <2> QED
    BY <1>1, <1>3, <1>5, <2>1, CancelFields
<1> HIDE DEF r, l, next, prev, S
<1>7. /\ Store(r, Removed(q, l, i), out \cup {t}) /\ LeftLine(m, q, r, l, i)
      /\ Full(r, {l}) /\ r.ticket[t].parentLevel = l /\ SameObjects(m, r)
  <2>1. t = q[l][i] /\ Unlinks(m, r, q[l][i])
    BY <1>2, <1>6
  <2>2. /\ Store(r, Removed(q, l, i), out \cup {q[l][i]})
        /\ Full(r, {l})
        /\ r.ticket[q[l][i]].parentLevel = l
        /\ SameObjects(m, r)
        /\ \A x \in DOMAIN m.ticket \cap out : SameLinks(m, r, x)
        /\ LeftLine(m, q, r, l, i)
    BY <1>1, <2>1, UnlinkKeepsStore
  <2> QED
    BY <2>1, <2>2
<1> QED
  BY <1>1, <1>2, <1>7 DEF r, l

\* execute takes the head of a level out, and it keeps no links.
LEMMA ExecuteKeepsStore ==
    ASSUME NEW m, NEW q, NEW out, Store(m, q, out), Full(m, {}),
           NEW l \in DOMAIN m.level
    PROVE  LET t == m.level[l].headOrder
               r == execute(m, t)
           IN  /\ t \in DOMAIN m.ticket \ out
               /\ m.ticket[t].parentLevel = l
               /\ 1 \in 1..Len(q[l]) /\ q[l][1] = t
               /\ Store(r, Removed(q, l, 1), out \cup {t})
               /\ LeftLine(m, q, r, l, 1)
               /\ Full(r, {l})
               /\ r.ticket[t].parentLevel = l
               /\ Unlinked(r, t)
               /\ SameObjects(m, r)
               /\ \A x \in DOMAIN m.ticket \cap out : SameLinks(m, r, x)
<1> DEFINE t == m.level[l].headOrder
           r == execute(m, t)
           next == m.ticket[t].nextOrder
           prev == m.ticket[t].prevOrder
           S == DOMAIN m.ticket \ out
<1>1. Shaped(m) /\ IsList(m, l, q[l], S)
  BY DEF Store, Linked
<1>2. Null \notin DOMAIN m.ticket
  BY ObjectsAreCells DEF Store, Accounted, Null
<1>3. 1 \in 1..Len(q[l]) /\ q[l][1] = t
  <2>1. Len(q[l]) # 0 /\ Len(q[l]) \in Nat
    BY <1>1 DEF IsList, Full
  <2> QED
    BY <1>1, <2>1 DEF IsList
<1>4. /\ t \in S /\ t # Null /\ m.ticket[t].parentLevel = l
      /\ prev = Null
      /\ next # Null => next \in S \ {t, prev}
  BY <1>1, <1>2, <1>3, NeighboursInList, SMTT(30)
<1>5. /\ Unlinks(m, r, t)
      /\ r.ticket[t].nextOrder = Null
      /\ r.ticket[t].prevOrder = Null
  <2>1. next # Null => next \in DOMAIN m.ticket \ {t}
    BY <1>4
  <2> QED
    BY <1>1, <1>4, <2>1, ExecuteFields
<1>6. t \in DOMAIN m.ticket \ out
  BY <1>4
<1> HIDE DEF r, t, next, prev, S
<1>7. /\ Store(r, Removed(q, l, 1), out \cup {t}) /\ LeftLine(m, q, r, l, 1)
      /\ Full(r, {l}) /\ r.ticket[t].parentLevel = l /\ SameObjects(m, r)
      /\ \A x \in DOMAIN m.ticket \cap out : SameLinks(m, r, x)
  <2>1. t = q[l][1] /\ Unlinks(m, r, q[l][1])
    BY <1>3, <1>5
  <2>2. /\ Store(r, Removed(q, l, 1), out \cup {q[l][1]})
        /\ Full(r, {l})
        /\ r.ticket[q[l][1]].parentLevel = l
        /\ SameObjects(m, r)
        /\ \A x \in DOMAIN m.ticket \cap out : SameLinks(m, r, x)
        /\ LeftLine(m, q, r, l, 1)
    BY <1>3, <2>1, UnlinkKeepsStore
  <2> QED
    BY <2>1, <2>2
<1> QED
  BY <1>3, <1>4, <1>5, <1>6, <1>7 DEF r, t, Unlinked

\* The lists are those of the levels that stay, whose tickets are not touched;
\* levels that come have none, and those that go have an empty one.
LEMMA ListsAreKept ==
    ASSUME NEW m, NEW q, NEW out, Linked(m, q, out),
           NEW r, NEW p, NEW others, Shaped(r),
           p = [l \in DOMAIN r.level |-> p[l]],
           DOMAIN r.ticket \ others = DOMAIN m.ticket \ out,
           \A x \in DOMAIN m.ticket \ out : r.ticket[x] = m.ticket[x],
           \A k \in DOMAIN r.level :
              \/ k \in DOMAIN m.level /\ r.level[k] = m.level[k] /\ p[k] = q[k]
              \/ /\ p[k] = <<>> /\ r.level[k].size = 0
                 /\ r.level[k].headOrder = Null /\ r.level[k].tailOrder = Null,
           \A k \in DOMAIN m.level :
              Len(q[k]) = 0 \/ (k \in DOMAIN r.level /\ p[k] = q[k])
    PROVE  Linked(r, p, others)
<1> DEFINE S == DOMAIN m.ticket \ out
<1>1. DOMAIN r.ticket \ others = S /\ \A x \in S : r.ticket[x] = m.ticket[x]
  OBVIOUS
<1> HIDE DEF S
<1>2. ASSUME NEW k \in DOMAIN r.level
      PROVE  IsList(r, k, p[k], S)
  <2>1. CASE k \in DOMAIN m.level /\ r.level[k] = m.level[k] /\ p[k] = q[k]
    <3>1. IsList(m, k, q[k], S)
      BY <2>1 DEF Linked, S
    <3>2. \A i \in 1..Len(q[k]) : q[k][i] \in S
      BY <3>1 DEF IsList
    <3>3. IsList(r, k, q[k], S)
      BY <1>1, <2>1, <3>1, <3>2 DEF IsList
    <3> QED
      BY <2>1, <3>3
  <2>2. CASE /\ p[k] = <<>> /\ r.level[k].size = 0
             /\ r.level[k].headOrder = Null /\ r.level[k].tailOrder = Null
    <3>1. <<>> \in Seq(S) /\ Len(<<>>) = 0 /\ 1..0 = {}
      OBVIOUS
    <3>2. IsList(r, k, <<>>, S)
      BY <2>2, <3>1, Zenon DEF IsList
    <3> QED
      BY <2>2, <3>2
  <2> QED
    BY <2>1, <2>2
<1>3. ASSUME NEW x \in S
      PROVE  /\ r.ticket[x].parentLevel \in DOMAIN r.level
             /\ \E i \in 1..Len(p[r.ticket[x].parentLevel]) :
                   p[r.ticket[x].parentLevel][i] = x
  <2> DEFINE k == m.ticket[x].parentLevel
  <2>1. k \in DOMAIN m.level /\ \E i \in 1..Len(q[k]) : q[k][i] = x
    BY DEF Linked, S
  <2>2. r.ticket[x].parentLevel = k
    BY <1>1
  <2> HIDE DEF k
  <2>3. Len(q[k]) # 0
    BY <2>1
  <2>4. k \in DOMAIN r.level /\ p[k] = q[k]
    BY <2>1, <2>3
  <2> QED
    BY <2>1, <2>2, <2>4
<1> QED
  BY <1>1, <1>2, <1>3 DEF Linked

\* What a ticket that is out is set to does not touch the lists.
LEMMA OutsideKeepsStore ==
    ASSUME NEW m, NEW q, NEW out, Store(m, q, out),
           NEW t \in DOMAIN m.ticket, t \in out, NEW r, OtherTicket(m, r, t),
           r.ticket[t].quantity \in 1..IntMax, r.ticket[t].parentLevel \in Nat,
           NEW E, Full(m, E)
    PROVE  Store(r, q, out) /\ Full(r, E) /\ LinesOf(r, q) = LinesOf(m, q)
<1>1. /\ Shaped(r) /\ SameObjects(m, r) /\ r.level = m.level
      /\ DOMAIN r.ticket = DOMAIN m.ticket
      /\ \A x \in DOMAIN m.ticket \ {t} : r.ticket[x] = m.ticket[x]
  BY DEF OtherTicket, SameObjects
<1>2. Linked(r, q, out)
  <2>1. \A x \in DOMAIN m.ticket \ out : r.ticket[x] = m.ticket[x]
    BY <1>1
  <2>2. Linked(m, q, out) /\ q = [l \in DOMAIN r.level |-> q[l]]
    BY <1>1 DEF Store, Linked
  <2> QED
    BY <1>1, <2>1, <2>2, ListsAreKept
<1>3. Accounted(r) /\ Indexed(r) /\ Mapped(r)
  BY <1>1, SameObjectsSameMaps DEF Store
<1>4. Valued(r)
  <2>1. r.ticket[t].idNumber \in Ids
    BY <1>1 DEF Store, Valued, SameObjects
  <2> QED
    BY <1>1, <2>1 DEF Store, Valued
<1>5. Summed(r, out)
  BY <1>1, SumsAreKept DEF Store
<1>6. LinesOf(r, q) = LinesOf(m, q)
  <2>1. r.levelMap = m.levelMap /\ \A x \in DOMAIN m.ticket \ out : r.ticket[x] = m.ticket[x]
    BY <1>1 DEF SameObjects
  <2> QED
    BY <2>1, SameLines DEF Store
<1> QED
  BY <1>1, <1>2, <1>3, <1>4, <1>5, <1>6 DEF Store, Full

\* setShares for the converting ticket.
LEMMA SetSharesKeepsStore ==
    ASSUME NEW m, NEW q, NEW out, Store(m, q, out), NEW E, Full(m, E),
           NEW t \in DOMAIN m.ticket, t \in out, Unlinked(m, t), NEW n \in 1..IntMax
    PROVE  LET r == setShares(m, t, n)
           IN  /\ Store(r, q, out) /\ Full(r, E) /\ Unlinked(r, t) /\ SameObjects(m, r)
               /\ LinesOf(r, q) = LinesOf(m, q)
<1> DEFINE r == SetTicket(m, t, "quantity", n)
<1>1. setShares(m, t, n) = r
  BY Zenon DEF setShares, SetTicket
<1>2. Shaped(m) /\ m.ticket[t].parentLevel \in Nat
  BY DEF Store, Linked, Valued
<1>3. /\ OtherTicket(m, r, t)
      /\ r.ticket[t].quantity = n
      /\ r.ticket[t].nextOrder = m.ticket[t].nextOrder
      /\ r.ticket[t].prevOrder = m.ticket[t].prevOrder
      /\ r.ticket[t].parentLevel = m.ticket[t].parentLevel
  BY <1>2, TicketFieldIsSet
<1> HIDE DEF r
<1>4. Store(r, q, out) /\ Full(r, E) /\ LinesOf(r, q) = LinesOf(m, q)
  BY <1>2, <1>3, OutsideKeepsStore
<1> QED
  BY <1>1, <1>3, <1>4 DEF Unlinked, OtherTicket

\* modifyOrder for a cancelled ticket, which then keeps no links.
LEMMA ModifyKeepsStore ==
    ASSUME NEW m, NEW q, NEW out, Store(m, q, out), NEW E, Full(m, E),
           NEW t \in DOMAIN m.ticket, t \in out, NEW n \in 1..IntMax
    PROVE  LET r == modifyOrder(m, t, n)
           IN  /\ Store(r, q, out) /\ Full(r, E) /\ Unlinked(r, t) /\ SameObjects(m, r)
               /\ LinesOf(r, q) = LinesOf(m, q)
<1> DEFINE ticket == NewTicket(m.ticket[t].idNumber, n)
           r == [m EXCEPT !.ticket[t] = ticket]
<1>1. modifyOrder(m, t, n) = r
  BY Zenon DEF modifyOrder
<1>2. /\ ticket.idNumber = m.ticket[t].idNumber /\ ticket.quantity = n
      /\ ticket.nextOrder = Null /\ ticket.prevOrder = Null /\ ticket.parentLevel = Null
      /\ IsTicket(ticket)
  BY DEF NewTicket, IsTicket
<1> HIDE DEF ticket
<1>3. Shaped(m)
  BY DEF Store, Linked
<1>4. OtherTicket(m, r, t) /\ r.ticket[t] = ticket
  BY <1>2, <1>3, TicketIsSet
<1> HIDE DEF r
<1>5. Store(r, q, out) /\ Full(r, E) /\ LinesOf(r, q) = LinesOf(m, q)
  BY <1>2, <1>4, OutsideKeepsStore DEF Null
<1> QED
  BY <1>1, <1>2, <1>4, <1>5 DEF Unlinked, OtherTicket

-----------------------------------------------------------------------------
(* Objects come and go.                                                    *)

\* The memory when submit has its ticket, in the cell t.
Submitted(m, t, id, shares) ==
    [m EXCEPT !.orderPool = alloc(@),
              !.ticket = With(@, t, NewTicket(id, shares)),
              !.orderMap = IF id \in DOMAIN @ THEN @ ELSE With(@, id, t)]

\* A submitted ticket is in no list, has no links, and takes the id only when
\* no other ticket has it.
LEMMA SubmittedKeepsStore ==
    ASSUME NEW m, NEW q, NEW out, Store(m, q, out), NEW E, Full(m, E),
           NEW id \in Ids, NEW shares \in 1..IntMax,
           NEW t, t = NextCell(m.orderPool)
    PROVE  LET r == Submitted(m, t, id, shares)
           IN  /\ t \in DOMAIN r.ticket /\ Unlinked(r, t)
               /\ DOMAIN r.ticket = DOMAIN m.ticket \cup {t} /\ t \notin DOMAIN m.ticket
               /\ Store(r, q, out \cup {t}) /\ Full(r, E)
               /\ LinesOf(r, q) = LinesOf(m, q)
<1> DEFINE r == Submitted(m, t, id, shares)
           pool == alloc(m.orderPool)
           tickets == With(m.ticket, t, NewTicket(id, shares))
           map == IF id \in DOMAIN m.orderMap THEN m.orderMap ELSE With(m.orderMap, id, t)
<1>1. Shaped(m) /\ Linked(m, q, out)
  BY DEF Store, Linked
<1>2. /\ t \in Nat \ {0} /\ t \notin DOMAIN m.ticket
      /\ ArenaOK(pool, DOMAIN m.ticket \cup {t})
  BY AllocAccounts DEF Store, Accounted
<1>3. /\ r.orderPool = pool /\ r.limitPool = m.limitPool
      /\ r.ticket = tickets /\ r.level = m.level
      /\ r.orderMap = map /\ r.levelMap = m.levelMap
      /\ IsMemory(r)
  <2>1. r = [m EXCEPT !.orderPool = pool, !.ticket = tickets, !.orderMap = map]
    BY Zenon DEF Submitted
  <2> HIDE DEF r, pool, tickets, map
  <2>2. IsMemory(m)
    BY <1>1 DEF Shaped
  <2> QED
    BY <2>1, <2>2 DEF IsMemory
<1>4. /\ DOMAIN tickets = DOMAIN m.ticket \cup {t}
      /\ tickets = [x \in DOMAIN tickets |-> tickets[x]]
      /\ tickets[t] = NewTicket(id, shares)
      /\ \A x \in DOMAIN m.ticket : tickets[x] = m.ticket[x]
  BY <1>2 DEF With
<1>5. /\ map = [i \in DOMAIN map |-> map[i]]
      /\ DOMAIN map \subseteq DOMAIN m.orderMap \cup {id}
      /\ \A i \in DOMAIN map :
            \/ i = id /\ map[i] = t
            \/ i \in DOMAIN m.orderMap /\ map[i] = m.orderMap[i]
  <2>1. m.orderMap = [i \in DOMAIN m.orderMap |-> m.orderMap[i]]
    BY DEF Store, Mapped
  <2>2. CASE id \in DOMAIN m.orderMap
    BY <2>1, <2>2
  <2>3. CASE id \notin DOMAIN m.orderMap
    BY <2>3 DEF With
  <2> QED
    BY <2>2, <2>3
<1> HIDE DEF r, pool, tickets, map
<1>6. /\ tickets[t].idNumber = id /\ tickets[t].quantity = shares
      /\ tickets[t].nextOrder = Null /\ tickets[t].prevOrder = Null
      /\ tickets[t].parentLevel = Null /\ IsTicket(tickets[t])
  BY <1>4 DEF NewTicket, IsTicket
<1>7. Shaped(r)
  BY <1>1, <1>3, <1>4, <1>6 DEF Shaped
<1>8. Linked(r, q, out \cup {t})
  <2>1. /\ q = [l \in DOMAIN r.level |-> q[l]]
        /\ DOMAIN r.ticket \ (out \cup {t}) = DOMAIN m.ticket \ out
        /\ \A x \in DOMAIN m.ticket \ out : r.ticket[x] = m.ticket[x]
    BY <1>1, <1>2, <1>3, <1>4 DEF Linked
  <2> QED
    BY <1>1, <1>3, <1>7, <2>1, ListsAreKept
<1>9. Accounted(r) /\ Indexed(r)
  BY <1>2, <1>3, <1>4 DEF Store, Accounted, Indexed
<1>10. Mapped(r)
  <2>1. DOMAIN map \subseteq Ids
    BY <1>5 DEF Store, Mapped
  <2>2. ASSUME NEW i \in DOMAIN map
        PROVE  map[i] \in DOMAIN tickets /\ tickets[map[i]].idNumber = i
    BY <1>4, <1>5, <1>6 DEF Store, Mapped
  <2> QED
    BY <1>3, <1>5, <2>1, <2>2 DEF Mapped
<1>11. Valued(r)
  BY <1>3, <1>4, <1>6 DEF Store, Valued, Null
<1>12. Summed(r, out \cup {t})
  <2>1. /\ DOMAIN r.ticket \ (out \cup {t}) = DOMAIN m.ticket \ out
        /\ \A x \in DOMAIN m.ticket \ out : r.ticket[x] = m.ticket[x]
    BY <1>2, <1>3, <1>4
  <2> QED
    BY <1>3, <2>1, SumsAreKept DEF Store
<1>13. LinesOf(r, q) = LinesOf(m, q)
  <2>1. r.levelMap = m.levelMap /\ \A x \in DOMAIN m.ticket \ out : r.ticket[x] = m.ticket[x]
    BY <1>3, <1>4
  <2> QED
    BY <2>1, SameLines DEF Store
<1> QED
  BY <1>2, <1>3, <1>4, <1>6, <1>8, <1>9, <1>10, <1>11, <1>12, <1>13
     DEF Store, Full, Unlinked, r

\* A level that a key has not had comes with an empty list.
LEMMA AddLevelKeepsStore ==
    ASSUME NEW m, NEW q, NEW out, Store(m, q, out), Full(m, {}),
           NEW key \in Keys, key \notin DOMAIN m.levelMap
    PROVE  LET r == addLevel(m, key)
               l == NextCell(m.limitPool)
           IN  /\ key \in DOMAIN r.levelMap /\ r.levelMap[key] = l /\ l \in DOMAIN r.level
               /\ r.ticket = m.ticket
               /\ Store(r, With(q, l, <<>>), out) /\ Full(r, {l})
               /\ LinesOf(r, With(q, l, <<>>)) = LinesOf(m, q)
<1> DEFINE r == addLevel(m, key)
           l == NextCell(m.limitPool)
           pool == alloc(m.limitPool)
           levels == With(m.level, l, NewLevel(key))
           map == With(m.levelMap, key, l)
           p == With(q, l, <<>>)
<1>1. Shaped(m) /\ Linked(m, q, out)
  BY DEF Store, Linked
<1>2. /\ l \in Nat \ {0} /\ l \notin DOMAIN m.level
      /\ ArenaOK(pool, DOMAIN m.level \cup {l})
  BY AllocAccounts DEF Store, Accounted
<1>3. /\ r.orderPool = m.orderPool /\ r.limitPool = pool
      /\ r.ticket = m.ticket /\ r.level = levels
      /\ r.orderMap = m.orderMap /\ r.levelMap = map
      /\ IsMemory(r)
  <2>1. r = [m EXCEPT !.limitPool = pool, !.level = levels, !.levelMap = map]
    BY Zenon DEF addLevel
  <2> HIDE DEF r, pool, levels, map
  <2>2. IsMemory(m)
    BY <1>1 DEF Shaped
  <2> QED
    BY <2>1, <2>2 DEF IsMemory
<1> HIDE DEF l
<1>4. /\ DOMAIN levels = DOMAIN m.level \cup {l}
      /\ levels = [k \in DOMAIN levels |-> levels[k]]
      /\ levels[l] = NewLevel(key)
      /\ \A k \in DOMAIN m.level : levels[k] = m.level[k]
  BY <1>2 DEF With
<1>5. /\ DOMAIN map = DOMAIN m.levelMap \cup {key}
      /\ map = [k \in DOMAIN map |-> map[k]]
      /\ map[key] = l
      /\ \A k \in DOMAIN m.levelMap : map[k] = m.levelMap[k]
  BY DEF With
<1>6. /\ p = [k \in DOMAIN m.level \cup {l} |-> p[k]]
      /\ p[l] = <<>>
      /\ \A k \in DOMAIN m.level : p[k] = q[k]
  <2>1. DOMAIN q = DOMAIN m.level
    BY <1>1 DEF Linked
  <2> QED
    BY <1>2, <2>1 DEF With
<1> HIDE DEF r, pool, levels, map, p
<1>7. /\ levels[l].levelPrice = key /\ levels[l].size = 0 /\ levels[l].totalVolume = 0
      /\ levels[l].headOrder = Null /\ levels[l].tailOrder = Null
      /\ IsLevel(levels[l])
  BY <1>4 DEF NewLevel, IsLevel
<1>8. Shaped(r)
  BY <1>1, <1>3, <1>4, <1>7 DEF Shaped
<1>9. Linked(r, p, out)
  <2>1. \A k \in DOMAIN r.level :
           \/ k \in DOMAIN m.level /\ r.level[k] = m.level[k] /\ p[k] = q[k]
           \/ /\ p[k] = <<>> /\ r.level[k].size = 0
              /\ r.level[k].headOrder = Null /\ r.level[k].tailOrder = Null
    BY <1>3, <1>4, <1>6, <1>7
  <2>2. /\ p = [k \in DOMAIN r.level |-> p[k]]
        /\ \A k \in DOMAIN m.level : k \in DOMAIN r.level /\ p[k] = q[k]
    BY <1>3, <1>4, <1>6
  <2> QED
    BY <1>1, <1>3, <1>8, <2>1, <2>2, ListsAreKept
<1>10. Accounted(r) /\ Mapped(r)
  BY <1>2, <1>3, <1>4 DEF Store, Accounted, Mapped
<1>11. Indexed(r)
  <2>1. DOMAIN map \subseteq Keys
    BY <1>5 DEF Store, Indexed
  <2>2. \A k \in DOMAIN map : map[k] \in DOMAIN levels /\ levels[map[k]].levelPrice = k
    BY <1>4, <1>5, <1>7 DEF Store, Indexed
  <2>3. \A k \in DOMAIN levels :
           levels[k].levelPrice \in DOMAIN map /\ map[levels[k].levelPrice] = k
    BY <1>4, <1>5, <1>7 DEF Store, Indexed
  <2> QED
    BY <1>3, <1>5, <2>1, <2>2, <2>3 DEF Indexed
<1>12. Valued(r)
  BY <1>3, <1>4, <1>7, IntsAreIntegers DEF Store, Valued
<1>13. Full(r, {l})
  BY <1>3, <1>4 DEF Full
<1>14. Summed(r, out)
  <2>1. \A k \in DOMAIN r.level :
           \/ k \in DOMAIN m.level /\ r.level[k] = m.level[k]
           \/ k \notin DOMAIN m.level /\ r.level[k].totalVolume = 0
    BY <1>2, <1>3, <1>4, <1>7
  <2> QED
    BY <1>3, <2>1, SumsAreKept DEF Store
<1>15. LinesOf(r, p) = LinesOf(m, q)
  <2>1. ASSUME NEW k \in Keys
        PROVE  \/ /\ k \in DOMAIN m.levelMap /\ k \in DOMAIN r.levelMap
                  /\ p[r.levelMap[k]] = q[m.levelMap[k]]
               \/ /\ k \notin DOMAIN m.levelMap
                  /\ k \in DOMAIN r.levelMap => p[r.levelMap[k]] = <<>>
    <3>1. k \in DOMAIN m.levelMap => m.levelMap[k] \in DOMAIN m.level
      BY DEF Store, Indexed
    <3> QED
      BY <1>3, <1>5, <1>6, <3>1
  <2> QED
    BY <1>3, <2>1, LinesAreKept DEF Store
<1> QED
  BY <1>3, <1>4, <1>5, <1>9, <1>10, <1>11, <1>12, <1>13, <1>14, <1>15 DEF Store, r, l, p

\* The lists when level l has been deleted, if it was without tickets.
Deleted(m, q, l) == IF m.level[l].size # 0 THEN q ELSE Without(q, l)

\* A level without tickets goes, from the arena and from the map.
LEMMA DeleteKeepsStore ==
    ASSUME NEW m, NEW q, NEW out, Store(m, q, out), NEW l \in DOMAIN m.level, Full(m, {l})
    PROVE  LET r == deleteIfEmpty(m, l)
           IN  /\ Store(r, Deleted(m, q, l), out) /\ Full(r, {})
               /\ LinesOf(r, Deleted(m, q, l)) = LinesOf(m, q)
               /\ r.ticket = m.ticket
<1> DEFINE r == deleteIfEmpty(m, l)
           pool == free(m.limitPool, l)
           levels == Without(m.level, l)
           price == m.level[l].levelPrice
           map == Without(m.levelMap, price)
           p == Without(q, l)
<1>1. CASE m.level[l].size # 0
  <2>1. r = m /\ Deleted(m, q, l) = q
    BY <1>1, Zenon DEF deleteIfEmpty, Deleted
  <2>2. Full(m, {})
    BY <1>1 DEF Full
  <2> QED
    BY <2>1, <2>2
<1>2. CASE m.level[l].size = 0
  <2>1. Shaped(m) /\ Linked(m, q, out)
    BY DEF Store, Linked
  <2>2. ArenaOK(pool, DOMAIN m.level \ {l})
    BY FreeAccounts DEF Store, Accounted
  <2>3. /\ r.orderPool = m.orderPool /\ r.limitPool = pool
        /\ r.ticket = m.ticket /\ r.level = levels
        /\ r.orderMap = m.orderMap /\ r.levelMap = map
        /\ IsMemory(r)
    <3>1. r = [m EXCEPT !.levelMap = map, !.level = levels, !.limitPool = pool]
      BY <1>2, Zenon DEF deleteIfEmpty
    <3> HIDE DEF r, pool, levels, map
    <3>2. IsMemory(m)
      BY <2>1 DEF Shaped
    <3> QED
      BY <3>1, <3>2 DEF IsMemory
  <2>4. /\ levels = [k \in DOMAIN m.level \ {l} |-> m.level[k]]
        /\ map = [k \in DOMAIN m.levelMap \ {price} |-> m.levelMap[k]]
        /\ p = [k \in DOMAIN q \ {l} |-> q[k]]
    BY DEF Without, Restrict
  <2>5. Deleted(m, q, l) = p
    BY <1>2, Zenon DEF Deleted
  <2> HIDE DEF r, pool, levels, map, p, price
  <2>6. /\ levels = [k \in DOMAIN levels |-> levels[k]]
        /\ DOMAIN levels = DOMAIN m.level \ {l}
        /\ \A k \in DOMAIN levels : levels[k] = m.level[k]
    BY <2>4
  <2>7. Shaped(r)
    BY <2>1, <2>3, <2>6 DEF Shaped
  <2>8. Linked(r, p, out)
    <3>1. /\ DOMAIN q = DOMAIN m.level
          /\ Len(q[l]) = 0
      BY <1>2, <2>1 DEF Linked, IsList
    <3>2. /\ p = [k \in DOMAIN r.level |-> p[k]]
          /\ \A k \in DOMAIN r.level :
                k \in DOMAIN m.level /\ r.level[k] = m.level[k] /\ p[k] = q[k]
      BY <2>3, <2>4, <2>6, <3>1
    <3>3. \A k \in DOMAIN m.level :
             Len(q[k]) = 0 \/ (k \in DOMAIN r.level /\ p[k] = q[k])
      BY <2>3, <2>6, <3>1, <3>2
    <3>4. /\ DOMAIN r.ticket \ out = DOMAIN m.ticket \ out
          /\ \A x \in DOMAIN m.ticket \ out : r.ticket[x] = m.ticket[x]
      BY <2>3
    <3> QED
      BY <2>1, <2>7, <3>2, <3>3, <3>4, ListsAreKept
  <2>9. Accounted(r) /\ Mapped(r)
    BY <2>2, <2>3, <2>6 DEF Store, Accounted, Mapped
  <2>10. Indexed(r)
    <3>1. /\ DOMAIN map = DOMAIN m.levelMap \ {price}
          /\ map = [k \in DOMAIN map |-> map[k]]
          /\ \A k \in DOMAIN map : map[k] = m.levelMap[k]
      BY <2>4
    <3>2. price \in DOMAIN m.levelMap /\ m.levelMap[price] = l
      BY DEF Store, Indexed, price
    <3>3. \A k \in DOMAIN map : map[k] \in DOMAIN levels /\ levels[map[k]].levelPrice = k
      BY <2>6, <3>1 DEF Store, Indexed, price
    <3>4. \A k \in DOMAIN levels :
             levels[k].levelPrice \in DOMAIN map /\ map[levels[k].levelPrice] = k
      BY <2>6, <3>1, <3>2 DEF Store, Indexed
    <3>5. DOMAIN map \subseteq Keys
      BY <3>1 DEF Store, Indexed
    <3> QED
      BY <2>3, <3>1, <3>3, <3>4, <3>5 DEF Indexed
  <2>11. Valued(r)
    BY <2>3, <2>6 DEF Store, Valued
  <2>12. Full(r, {})
    <3>1. \A k \in DOMAIN m.level \ {l} : m.level[k].size # 0
      BY DEF Full
    <3>2. \A k \in DOMAIN r.level : k \in DOMAIN m.level \ {l} /\ r.level[k] = m.level[k]
      BY <2>3, <2>6
    <3> QED
      BY <3>1, <3>2, Zenon DEF Full
  <2>13. Summed(r, out)
    <3>1. \A k \in DOMAIN r.level : k \in DOMAIN m.level /\ r.level[k] = m.level[k]
      BY <2>3, <2>6
    <3> QED
      BY <2>3, <3>1, SumsAreKept DEF Store
  <2>14. LinesOf(r, p) = LinesOf(m, q)
    <3>1. q[l] = <<>> /\ DOMAIN q = DOMAIN m.level
      <4>1. q[l] \in Seq(DOMAIN m.ticket \ out) /\ Len(q[l]) = 0 /\ DOMAIN q = DOMAIN m.level
        BY <1>2, <2>1 DEF Linked, IsList
      <4> QED
        BY <4>1, EmptySeq
    <3>2. ASSUME NEW k \in Keys
          PROVE  \/ /\ k \in DOMAIN m.levelMap /\ k \in DOMAIN r.levelMap
                    /\ p[r.levelMap[k]] = q[m.levelMap[k]]
                 \/ /\ k \in DOMAIN m.levelMap => q[m.levelMap[k]] = <<>>
                    /\ k \notin DOMAIN r.levelMap
      <4>1. k \in DOMAIN m.levelMap =>
               m.levelMap[k] \in DOMAIN m.level /\ m.level[m.levelMap[k]].levelPrice = k
        BY DEF Store, Indexed
      <4>2. price \in DOMAIN m.levelMap /\ m.levelMap[price] = l
        BY DEF Store, Indexed, price
      <4> QED
        BY <2>3, <2>4, <3>1, <4>1, <4>2 DEF price
    <3> QED
      BY <2>1, <2>3, <3>2, LinesAreKept DEF Store
  <2> QED
    BY <2>3, <2>5, <2>8, <2>9, <2>10, <2>11, <2>12, <2>13, <2>14 DEF Store, r
<1>3. QED
  BY <1>1, <1>2

\* A ticket that is out goes, from the arena, and from the map if it is there
\* under its id.
LEMMA DiscardKeepsStore ==
    ASSUME NEW m, NEW q, NEW out, Store(m, q, out), NEW E, Full(m, E),
           NEW t \in DOMAIN m.ticket, t \in out
    PROVE  LET r == discard(m, t)
           IN  /\ Store(r, q, out \ {t}) /\ Full(r, E)
               /\ LinesOf(r, q) = LinesOf(m, q)
               /\ r.ticket = Without(m.ticket, t)
<1> DEFINE r == discard(m, t)
           id == m.ticket[t].idNumber
           pool == free(m.orderPool, t)
           tickets == Without(m.ticket, t)
           map == Without(m.orderMap, id)
<1>1. Shaped(m) /\ Linked(m, q, out)
  BY DEF Store, Linked
<1>2. ArenaOK(pool, DOMAIN m.ticket \ {t})
  BY FreeAccounts DEF Store, Accounted
<1>3. /\ r.orderPool = pool /\ r.limitPool = m.limitPool
      /\ r.ticket = tickets /\ r.level = m.level
      /\ r.orderMap = map /\ r.levelMap = m.levelMap
      /\ IsMemory(r)
  <2> DEFINE a == [m EXCEPT !.orderMap = map]
  <2>1. IsMemory(m)
    BY <1>1 DEF Shaped
  <2>2. r = [a EXCEPT !.ticket = Without(a.ticket, t), !.orderPool = free(a.orderPool, t)]
    BY Zenon DEF discard, freeTicket, deleteFromOrderMap
  <2> HIDE DEF map
  <2>3. /\ a.orderPool = m.orderPool /\ a.limitPool = m.limitPool
        /\ a.ticket = m.ticket /\ a.level = m.level
        /\ a.orderMap = map /\ a.levelMap = m.levelMap
        /\ IsMemory(a)
    BY <2>1 DEF IsMemory
  <2> HIDE DEF a
  <2>4. r = [a EXCEPT !.ticket = tickets, !.orderPool = pool]
    BY <2>2, <2>3, Zenon
  <2> HIDE DEF r, pool, tickets
  <2> QED
    BY <2>3, <2>4 DEF IsMemory
<1>4. /\ tickets = [x \in DOMAIN m.ticket \ {t} |-> m.ticket[x]]
      /\ map = [i \in DOMAIN m.orderMap \ {id} |-> m.orderMap[i]]
  BY DEF Without, Restrict
<1> HIDE DEF r, pool, tickets, map
<1>5. /\ tickets = [x \in DOMAIN tickets |-> tickets[x]]
      /\ DOMAIN tickets = DOMAIN m.ticket \ {t}
      /\ \A x \in DOMAIN tickets : tickets[x] = m.ticket[x]
  BY <1>4
<1>6. Shaped(r)
  BY <1>1, <1>3, <1>5 DEF Shaped
<1>7. Linked(r, q, out \ {t})
  <2>1. /\ q = [l \in DOMAIN r.level |-> q[l]]
        /\ DOMAIN r.ticket \ (out \ {t}) = DOMAIN m.ticket \ out
        /\ \A x \in DOMAIN m.ticket \ out : r.ticket[x] = m.ticket[x]
    BY <1>1, <1>3, <1>5 DEF Linked
  <2> QED
    BY <1>1, <1>3, <1>6, <2>1, ListsAreKept
<1>8. Accounted(r) /\ Indexed(r)
  BY <1>2, <1>3, <1>5 DEF Store, Accounted, Indexed
<1>9. Mapped(r)
  <2>1. /\ map = [i \in DOMAIN map |-> map[i]]
        /\ DOMAIN map = DOMAIN m.orderMap \ {id}
        /\ \A i \in DOMAIN map : map[i] = m.orderMap[i]
    BY <1>4
  <2>2. DOMAIN map \subseteq Ids
    BY <2>1 DEF Store, Mapped
  <2>3. \A i \in DOMAIN map : map[i] \in DOMAIN tickets /\ tickets[map[i]].idNumber = i
    BY <1>5, <2>1 DEF Store, Mapped
  <2> QED
    BY <1>3, <2>1, <2>2, <2>3 DEF Mapped
<1>10. Valued(r) /\ Full(r, E)
  BY <1>3, <1>5 DEF Store, Valued, Full
<1>11. Summed(r, out \ {t})
  <2>1. /\ DOMAIN r.ticket \ (out \ {t}) = DOMAIN m.ticket \ out
        /\ \A x \in DOMAIN m.ticket \ out : r.ticket[x] = m.ticket[x]
    BY <1>3, <1>5
  <2> QED
    BY <1>3, <2>1, SumsAreKept DEF Store
<1>12. LinesOf(r, q) = LinesOf(m, q)
  <2>1. r.levelMap = m.levelMap /\ \A x \in DOMAIN m.ticket \ out : r.ticket[x] = m.ticket[x]
    BY <1>3, <1>5
  <2> QED
    BY <2>1, SameLines DEF Store
<1> QED
  BY <1>3, <1>7, <1>8, <1>9, <1>10, <1>11, <1>12 DEF Store, r, tickets

-----------------------------------------------------------------------------
(* What MatchingEngine.cpp makes of them.                                  *)

\* The lists when a ticket has come behind the others of its key.
AppendedAt(m, q, key, t) ==
    IF key \in DOMAIN m.levelMap
    THEN Appended(q, m.levelMap[key], t)
    ELSE Appended(With(q, NextCell(m.limitPool), <<>>), NextCell(m.limitPool), t)

\* A ticket comes behind all others of a key, whether there is a level or not.
LEMMA AppendAtKeepsStore ==
    ASSUME NEW m, NEW q, NEW out, Store(m, q, out), Full(m, {}),
           NEW key \in Keys, NEW t \in DOMAIN m.ticket, t \in out, Unlinked(m, t)
    PROVE  LET r == appendAt(m, key, t)
           IN  /\ Store(r, AppendedAt(m, q, key, t), out \ {t}) /\ Full(r, {})
               /\ LinesOf(r, AppendedAt(m, q, key, t)) = Longer(LinesOf(m, q), key, Entry(m, t))
               /\ DOMAIN r.ticket = DOMAIN m.ticket
<1>1. CASE key \in DOMAIN m.levelMap
  <2> DEFINE l == m.levelMap[key]
             r == append(m, l, t)
             p == Appended(q, l, t)
  <2>1. appendAt(m, key, t) = r /\ AppendedAt(m, q, key, t) = p
    BY <1>1, Zenon DEF appendAt, AppendedAt
  <2>2. l \in DOMAIN m.level
    BY <1>1 DEF Store, Indexed
  <2> HIDE DEF l
  <2>3. Appends(m, r, l, t) /\ Store(r, p, out \ {t}) /\ Full(r, {} \ {l})
    BY <2>2, AppendKeepsStore
  <2> HIDE DEF r, p
  <2>4. DOMAIN r.ticket = DOMAIN m.ticket
    BY <2>3 DEF Appends, OneListChanges, SameObjects
  <2>5. {} \ {l} = {}
    OBVIOUS
  <2>6. Full(r, {})
    BY <2>3, <2>5, Zenon
  <2>7. LinesOf(r, p) = Longer(LinesOf(m, q), key, Entry(m, t))
    <3>1. m.level[l].levelPrice = key
      BY <1>1 DEF Store, Indexed, l
    <3>2. /\ r.levelMap = m.levelMap
          /\ \A x \in DOMAIN m.ticket : r.ticket[x].quantity = m.ticket[x].quantity
      BY <2>3 DEF Appends, OneListChanges, SameObjects
    <3>3. Linked(m, q, out) /\ Indexed(m)
      BY DEF Store
    <3>4. LinesOf(r, p) = Longer(LinesOf(m, q), m.level[l].levelPrice, Entry(m, t))
      BY <2>2, <3>2, <3>3, LineGrows DEF p
    <3> QED
      BY <3>1, <3>4
  <2> QED
    BY <2>1, <2>3, <2>4, <2>6, <2>7
<1>2. CASE key \notin DOMAIN m.levelMap
  <2> DEFINE l == NextCell(m.limitPool)
             w == addLevel(m, key)
             s == With(q, l, <<>>)
             r == append(w, l, t)
             p == Appended(s, l, t)
  <2>1. /\ key \in DOMAIN w.levelMap /\ w.levelMap[key] = l /\ l \in DOMAIN w.level
        /\ w.ticket = m.ticket
        /\ Store(w, s, out) /\ Full(w, {l})
        /\ LinesOf(w, s) = LinesOf(m, q)
    BY <1>2, AddLevelKeepsStore
  <2>2. appendAt(m, key, t) = r /\ AppendedAt(m, q, key, t) = p
    BY <1>2, <2>1, Zenon DEF appendAt, AppendedAt
  <2> HIDE DEF l, w, s
  <2>3. t \in DOMAIN w.ticket /\ Unlinked(w, t)
    BY <2>1 DEF Unlinked
  <2>4. Appends(w, r, l, t) /\ Store(r, p, out \ {t}) /\ Full(r, {l} \ {l})
    BY <2>1, <2>3, AppendKeepsStore
  <2> HIDE DEF r, p
  <2>5. DOMAIN r.ticket = DOMAIN m.ticket
    BY <2>1, <2>4 DEF Appends, OneListChanges, SameObjects
  <2>6. {l} \ {l} = {}
    OBVIOUS
  <2>7. Full(r, {})
    BY <2>4, <2>6, Zenon
  <2>8. LinesOf(r, p) = Longer(LinesOf(m, q), key, Entry(m, t))
    <3>1. Linked(w, s, out) /\ Indexed(w)
      BY <2>1 DEF Store
    <3>2. w.level[l].levelPrice = key
      BY <2>1, <3>1 DEF Indexed
    <3>3. /\ r.levelMap = w.levelMap
          /\ \A x \in DOMAIN w.ticket : r.ticket[x].quantity = w.ticket[x].quantity
      BY <2>4 DEF Appends, OneListChanges, SameObjects
    <3>4. LinesOf(r, p) = Longer(LinesOf(w, s), w.level[l].levelPrice, Entry(w, t))
      BY <2>1, <2>3, <3>1, <3>3, LineGrows DEF p
    <3>5. Entry(w, t) = Entry(m, t)
      BY <2>1 DEF Entry
    <3> QED
      BY <2>1, <3>2, <3>4, <3>5
  <2> QED
    BY <2>2, <2>4, <2>5, <2>7, <2>8
<1> QED
  BY <1>1, <1>2

\* A partial fill leaves all lists as they are.
LEMMA FillKeepsStore ==
    ASSUME NEW m, NEW q, NEW out, Store(m, q, out), NEW E, Full(m, E),
           NEW t \in DOMAIN m.ticket, t \notin out,
           NEW n \in Int, m.ticket[t].quantity - n \in 1..IntMax
    PROVE  LET r == partiallyFillOrder(m, t, n)
           IN  /\ Store(r, q, out) /\ Full(r, E)
               /\ \A l \in DOMAIN m.level : \A i \in 1..Len(q[l]) :
                     q[l][i] = t => LinesOf(r, q) = Given(LinesOf(m, q), m.level[l].levelPrice, i,
                                                          m.ticket[t].quantity - n)
               /\ \A x \in DOMAIN m.ticket : SameLinks(m, r, x)
               /\ DOMAIN r.ticket = DOMAIN m.ticket
<1> DEFINE l == m.ticket[t].parentLevel
           a == SetTicket(m, t, "quantity", m.ticket[t].quantity - n)
           volume == Wrap(m.level[l].totalVolume - n)
           r == SetLevel(a, l, "totalVolume", volume)
<1>1. Shaped(m) /\ l \in DOMAIN m.level
  BY TicketIsListed DEF Store, Linked
<1>2. partiallyFillOrder(m, t, n) = r
  BY Zenon DEF partiallyFillOrder, SetTicket, SetLevel
<1>3. /\ OtherTicket(m, a, t)
      /\ a.ticket[t].quantity = m.ticket[t].quantity - n
      /\ a.ticket[t].nextOrder = m.ticket[t].nextOrder
      /\ a.ticket[t].prevOrder = m.ticket[t].prevOrder
      /\ a.ticket[t].parentLevel = m.ticket[t].parentLevel
  BY <1>1, TicketFieldIsSet
<1> HIDE DEF a, l, volume
<1>4. Shaped(a) /\ l \in DOMAIN a.level
  BY <1>1, <1>3 DEF OtherTicket
<1>5. /\ OtherLevel(a, r, l)
      /\ r.level[l].size = a.level[l].size
      /\ r.level[l].totalVolume = volume
      /\ r.level[l].headOrder = a.level[l].headOrder
      /\ r.level[l].tailOrder = a.level[l].tailOrder
  BY <1>4, LevelFieldIsSet
<1> HIDE DEF r
<1>6. /\ Shaped(r) /\ SameObjects(m, r)
      /\ DOMAIN r.ticket = DOMAIN m.ticket /\ DOMAIN r.level = DOMAIN m.level
  <2>1. Shaped(r)
    BY <1>5 DEF OtherLevel
  <2>2. SameObjects(m, r)
    BY <1>3, <1>5 DEF OtherTicket, OtherLevel, SameObjects
  <2> QED
    BY <2>1, <2>2 DEF SameObjects
<1>7. \A x \in DOMAIN m.ticket : SameLinks(m, r, x) /\ r.ticket[x].parentLevel = m.ticket[x].parentLevel
  BY <1>3, <1>5 DEF OtherTicket, OtherLevel, SameLinks
<1>8. \A k \in DOMAIN m.level :
         /\ r.level[k].size = m.level[k].size
         /\ r.level[k].headOrder = m.level[k].headOrder
         /\ r.level[k].tailOrder = m.level[k].tailOrder
         /\ r.level[k].totalVolume = IF k = l THEN volume ELSE m.level[k].totalVolume
  BY <1>3, <1>4, <1>5 DEF OtherTicket, OtherLevel
<1> DEFINE S == DOMAIN m.ticket \ out
<1>9. ASSUME NEW k \in DOMAIN m.level
      PROVE  IsList(r, k, q[k], S)
  <2>1. IsList(m, k, q[k], S)
    BY DEF Store, Linked
  <2>2. \A i \in 1..Len(q[k]) : q[k][i] \in S /\ q[k][i] \in DOMAIN m.ticket
    BY <2>1 DEF IsList
  <2>3. \A i \in 1..Len(q[k]) : m.ticket[q[k][i]].parentLevel = k
    BY <2>1 DEF IsList
  <2> HIDE DEF S
  <2>4. \A i \in 1..Len(q[k]) :
           r.ticket[q[k][i]].parentLevel = k /\ SameLinks(m, r, q[k][i])
    BY <1>7, <2>2, <2>3
  <2> QED
    BY <1>8, <2>1, <2>2, <2>4, ListIsKept
<1>10. Linked(r, q, out)
  <2>1. \A x \in S :
           /\ r.ticket[x].parentLevel \in DOMAIN m.level
           /\ \E i \in 1..Len(q[r.ticket[x].parentLevel]) :
                 q[r.ticket[x].parentLevel][i] = x
    BY <1>7 DEF Store, Linked
  <2> QED
    BY <1>6, <1>9, <2>1 DEF Linked, Store
<1>11. Accounted(r) /\ Indexed(r) /\ Mapped(r)
  BY <1>6, SameObjectsSameMaps DEF Store
<1>12. Valued(r)
  <2>1. volume \in Ints
    <3>1. m.level[l].totalVolume \in Ints
      BY <1>1 DEF Store, Valued
    <3>2. \A v \in Ints : v - n \in Int
      BY IntMaxIsNatural DEF Ints
    <3> QED
      BY <3>1, <3>2, WrappedIsInt DEF volume
  <2>2. \A x \in DOMAIN m.ticket :
           /\ r.ticket[x].idNumber = m.ticket[x].idNumber
           /\ r.ticket[x].quantity = IF x = t THEN m.ticket[t].quantity - n
                                     ELSE m.ticket[x].quantity
    BY <1>3, <1>5, <1>6 DEF OtherTicket, OtherLevel, SameObjects
  <2> QED
    BY <1>6, <1>7, <1>8, <2>1, <2>2 DEF Store, Valued
<1>13. Full(r, E)
  BY <1>6, <1>8 DEF Full
<1>14. Summed(r, out)
  <2>1. \A x \in DOMAIN m.ticket :
           /\ r.ticket[x].parentLevel = m.ticket[x].parentLevel
           /\ r.ticket[x].quantity = IF x = t THEN m.ticket[t].quantity - n
                                     ELSE m.ticket[x].quantity
    BY <1>3, <1>5, <1>7 DEF OtherTicket, OtherLevel
  <2>2. \A k \in DOMAIN m.level :
           r.level[k].totalVolume = IF k = m.ticket[t].parentLevel
                                    THEN Wrap(m.level[k].totalVolume - n)
                                    ELSE m.level[k].totalVolume
    BY <1>8 DEF volume, l
  <2> QED
    BY <1>6, <2>1, <2>2, SumFilled DEF Store
<1>15. ASSUME NEW k \in DOMAIN m.level, NEW i \in 1..Len(q[k]), q[k][i] = t
       PROVE  LinesOf(r, q) = Given(LinesOf(m, q), m.level[k].levelPrice, i,
                                    m.ticket[t].quantity - n)
  <2>0. r.levelMap = m.levelMap
    BY <1>6 DEF SameObjects
  <2>1. \A x \in DOMAIN m.ticket :
           r.ticket[x].quantity = IF x = q[k][i] THEN m.ticket[t].quantity - n
                                  ELSE m.ticket[x].quantity
    BY <1>3, <1>5, <1>6, <1>15 DEF OtherTicket, OtherLevel, SameObjects
  <2>2. Linked(m, q, out) /\ Indexed(m)
    BY DEF Store
  <2> DEFINE left == m.ticket[t].quantity - n
  <2> HIDE DEF left
  <2>3. \A x \in DOMAIN m.ticket :
           r.ticket[x].quantity = IF x = q[k][i] THEN left ELSE m.ticket[x].quantity
    BY <2>1 DEF left
  <2>4. LinesOf(r, q) = Given(LinesOf(m, q), m.level[k].levelPrice, i, left)
    <3>1. Refilled(m, r, q[k][i], left)
      BY <2>0, <2>3 DEF Refilled
    <3> HIDE DEF r, S
    <3>2. \A l0 \in DOMAIN m.level : \A j \in 1..Len(q[l0]) : \A v, m0 :
             Refilled(m, m0, q[l0][j], v)
                => LinesOf(m0, q) = Given(LinesOf(m, q), m.level[l0].levelPrice, j, v)
      BY <2>2, LineGives, Zenon
    <3>3. k \in DOMAIN m.level /\ i \in 1..Len(q[k])
      OBVIOUS
    <3> QED
      BY <3>1, <3>2, <3>3, Zenon
  <2> QED
    BY <2>4 DEF left
<1> QED
  BY <1>2, <1>6, <1>7, <1>10, <1>11, <1>12, <1>13, <1>14, <1>15 DEF Store

-----------------------------------------------------------------------------
(* The inductive invariant.  The lists q are not part of the state: they   *)
(* are what the pointers describe, and there is one for every memory that  *)
(* the operations make.                                                    *)

Out == {converting} \ {Null}

SInv ==
    /\ \E q : Store(mem, q, Out)
    /\ Full(mem, {})
    /\ converting # Null => converting \in Tickets /\ Unlinked(mem, converting)

\* A step is one of the lines that the lists stand for.
StoreStep ==
    \E q, p : /\ Store(mem, q, Out) /\ Store(mem', p, Out')
              /\ LineStep(LinesOf(mem, q), LinesOf(mem', p))

\* In the beginning there are no objects, and all cells of the first blocks are free.
LEMMA InitStore == Init => SInv
<1> SUFFICES ASSUME Init PROVE SInv
  OBVIOUS
<1>1. /\ mem.orderPool = NewArena /\ mem.limitPool = NewArena
      /\ mem.ticket = <<>> /\ mem.level = <<>>
      /\ mem.orderMap = <<>> /\ mem.levelMap = <<>>
      /\ IsMemory(mem)
      /\ converting = Null
  BY DEF Init, IsMemory
<1>2. /\ DOMAIN <<>> = {}
      /\ <<>> = [x \in {} |-> <<>>[x]]
  OBVIOUS
<1>3. Linked(mem, <<>>, Out)
  BY <1>1, <1>2 DEF Linked, Shaped
<1>4. Accounted(mem)
  BY <1>1, <1>2, NewArenaAccounts DEF Accounted
<1>5. Indexed(mem) /\ Mapped(mem) /\ Valued(mem) /\ Full(mem, {})
  BY <1>1, <1>2 DEF Indexed, Mapped, Valued, Full
<1>6. Summed(mem, Out)
  BY <1>1, <1>2 DEF Summed
<1> QED
  BY <1>1, <1>3, <1>4, <1>5, <1>6 DEF SInv, Store

\* submit adds a ticket, and only while there is room for it.
LEMMA SubmitKeepsStore ==
    ASSUME SInv, NEW id \in Ids, NEW shares \in Quantities, NEW key \in Keys,
           submit(id, shares, key)
    PROVE  /\ SInv' /\ StoreStep
           /\ Cardinality(Tickets) < MaxTickets
           /\ \E t : Tickets' = Tickets \cup {t}
<1> DEFINE t == NextCell(mem.orderPool)
           m == Submitted(mem, t, id, shares)
           r == appendAt(m, key, t)
<1>1. converting = Null /\ converting' = Null /\ Out = {}
  BY DEF submit, Idle, Out
<1>2. PICK q : Store(mem, q, {})
  BY <1>1 DEF SInv
<1>3. Full(mem, {}) /\ shares \in 1..IntMax
  BY QuantitiesArePositive DEF SInv
<1>4. /\ t \in DOMAIN m.ticket /\ Unlinked(m, t)
      /\ Store(m, q, {} \cup {t}) /\ Full(m, {})
      /\ DOMAIN m.ticket = DOMAIN mem.ticket \cup {t} /\ t \notin DOMAIN mem.ticket
      /\ LinesOf(m, q) = LinesOf(mem, q)
  BY <1>2, <1>3, SubmittedKeepsStore
<1>5. mem' = r
  BY Zenon DEF submit, Submitted
<1> HIDE DEF t, m
<1>6. /\ Store(r, AppendedAt(m, q, key, t), ({} \cup {t}) \ {t}) /\ Full(r, {})
      /\ LinesOf(r, AppendedAt(m, q, key, t)) = Longer(LinesOf(m, q), key, Entry(m, t))
      /\ DOMAIN r.ticket = DOMAIN m.ticket
  BY <1>4, AppendAtKeepsStore
<1>7. ({} \cup {t}) \ {t} = {}
  OBVIOUS
<1> HIDE DEF r
<1>8. Store(mem', AppendedAt(m, q, key, t), Out')
  <2>1. Out' = {}
    BY <1>1 DEF Out
  <2> QED
    BY <1>5, <1>6, <1>7, <2>1, Zenon
<1>9. Cardinality(Tickets) < MaxTickets
  BY Zenon DEF submit, Tickets
<1>10. Tickets' = Tickets \cup {t}
  <2>1. DOMAIN r.ticket = DOMAIN mem.ticket \cup {t}
    BY <1>4, <1>6, Zenon
  <2> QED
    BY <1>5, <2>1, Zenon DEF Tickets
<1>11. StoreStep
  <2> DEFINE p == AppendedAt(m, q, key, t)
             e == Entry(m, t)
             next == LinesOf(mem', p)
  <2>1. e.ticket \notin DOMAIN mem.ticket \ {}
    BY <1>4 DEF Entry
  <2> HIDE DEF e, p
  <2>2. next = Longer(LinesOf(mem, q), key, e)
    BY <1>4, <1>5, <1>6, Zenon DEF p, e
  <2> HIDE DEF next
  <2>3. LineStep(LinesOf(mem, q), next)
    BY <1>2, <2>1, <2>2, TicketJoins
  <2>4. Store(mem, q, Out) /\ Store(mem', p, Out')
    BY <1>1, <1>2, <1>8 DEF p
  <2> QED
    BY <2>3, <2>4, Zenon DEF StoreStep, next
<1> QED
  BY <1>1, <1>5, <1>6, <1>8, <1>9, <1>10, <1>11 DEF SInv

\* A cancelled ticket leaves its list and the arena, its level too if it was the
\* last one.
LEMMA CancelTicketKeepsStore ==
    ASSUME SInv, NEW id \in DOMAIN mem.orderMap, cancelTicket(id)
    PROVE  SInv' /\ StoreStep /\ Tickets' \subseteq Tickets
<1> DEFINE t == mem.orderMap[id]
           l == mem.ticket[t].parentLevel
           m == cancel(mem, t)
           d == deleteIfEmpty(m, l)
           r == discard(d, t)
<1>1. converting = Null /\ converting' = Null /\ Out = {} /\ Out' = {}
  BY DEF cancelTicket, Idle, Out
<1>2. PICK q : Store(mem, q, {})
  BY <1>1 DEF SInv
<1>3. Full(mem, {}) /\ t \in DOMAIN mem.ticket
  BY <1>2 DEF SInv, Store, Mapped
<1> HIDE DEF t
<1>4. /\ l \in DOMAIN mem.level
      /\ \E i \in 1..Len(q[l]) :
            /\ q[l][i] = t
            /\ Store(m, Removed(q, l, i), {} \cup {t})
            /\ LeftLine(mem, q, m, l, i)
      /\ Full(m, {l})
      /\ m.ticket[t].parentLevel = l
      /\ SameObjects(mem, m)
  <2>1. t \notin {}
    OBVIOUS
  <2> QED
    BY <1>2, <1>3, <2>1, CancelKeepsStore
<1>5. mem' = r
  BY <1>4, Zenon DEF cancelTicket, t
<1> HIDE DEF l, m
<1>6. PICK i \in 1..Len(q[l]) :
         /\ q[l][i] = t
         /\ Store(m, Removed(q, l, i), {} \cup {t})
         /\ LeftLine(mem, q, m, l, i)
  BY <1>4
<1>7. l \in DOMAIN m.level /\ t \in DOMAIN m.ticket
  BY <1>3, <1>4 DEF SameObjects
<1> DEFINE p == Deleted(m, Removed(q, l, i), l)
<1>8. /\ Store(d, p, {} \cup {t}) /\ Full(d, {}) /\ d.ticket = m.ticket
      /\ LinesOf(d, p) = LinesOf(m, Removed(q, l, i))
  BY <1>4, <1>6, <1>7, DeleteKeepsStore
<1> HIDE DEF d, p
<1>9. t \in DOMAIN d.ticket /\ t \in {} \cup {t} /\ ({} \cup {t}) \ {t} = {}
  BY <1>7, <1>8
<1>10. /\ Store(r, p, ({} \cup {t}) \ {t}) /\ Full(r, {})
       /\ LinesOf(r, p) = LinesOf(d, p)
       /\ r.ticket = Without(d.ticket, t)
  BY <1>8, <1>9, DiscardKeepsStore, ZenonT(40)
<1> HIDE DEF r
<1>11. Store(mem', p, Out')
  BY <1>1, <1>5, <1>9, <1>10, Zenon
<1>12. DOMAIN r.ticket \subseteq DOMAIN mem.ticket
  BY <1>4, <1>8, <1>10 DEF Without, Restrict, SameObjects
<1>13. StoreStep
  <2> DEFINE next == LinesOf(mem', p)
  <2>1. next = Shorter(LinesOf(mem, q), mem.level[l].levelPrice, i)
    BY <1>5, <1>6, <1>8, <1>10, Zenon DEF LeftLine
  <2> HIDE DEF next
  <2>2. LineStep(LinesOf(mem, q), next)
    BY <1>2, <1>4, <2>1, TicketLeaves
  <2>3. Store(mem, q, Out) /\ Store(mem', p, Out')
    BY <1>1, <1>2, <1>11
  <2> QED
    BY <2>2, <2>3, Zenon DEF StoreStep, next
<1> QED
  BY <1>1, <1>5, <1>10, <1>11, <1>12, <1>13 DEF SInv, Tickets

\* A modified ticket leaves its list, perhaps with its level, and joins one again.
LEMMA ModifyTicketKeepsStore ==
    ASSUME SInv, NEW id \in DOMAIN mem.orderMap, NEW newShares \in Quantities,
           NEW key \in Keys, modifyTicket(id, newShares, key)
    PROVE  SInv' /\ StoreStep /\ Tickets' \subseteq Tickets
<1> DEFINE t == mem.orderMap[id]
           l == mem.ticket[t].parentLevel
           m == cancel(mem, t)
           d == deleteIfEmpty(m, l)
           w == modifyOrder(d, t, newShares)
           r == appendAt(w, key, t)
<1>1. converting = Null /\ converting' = Null /\ Out = {} /\ Out' = {}
  BY DEF modifyTicket, Idle, Out
<1>2. PICK q : Store(mem, q, {})
  BY <1>1 DEF SInv
<1>3. Full(mem, {}) /\ t \in DOMAIN mem.ticket /\ newShares \in 1..IntMax
  BY <1>2, QuantitiesArePositive DEF SInv, Store, Mapped
<1> HIDE DEF t
<1>4. /\ l \in DOMAIN mem.level
      /\ \E i \in 1..Len(q[l]) :
            /\ q[l][i] = t
            /\ Store(m, Removed(q, l, i), {} \cup {t})
            /\ LeftLine(mem, q, m, l, i)
      /\ Full(m, {l})
      /\ m.ticket[t].parentLevel = l
      /\ SameObjects(mem, m)
  <2>1. t \notin {}
    OBVIOUS
  <2> QED
    BY <1>2, <1>3, <2>1, CancelKeepsStore
<1>5. mem' = r
  BY <1>4, Zenon DEF modifyTicket, t
<1> HIDE DEF l, m
<1>6. PICK i \in 1..Len(q[l]) :
         /\ q[l][i] = t
         /\ Store(m, Removed(q, l, i), {} \cup {t})
         /\ LeftLine(mem, q, m, l, i)
  BY <1>4
<1>7. l \in DOMAIN m.level /\ t \in DOMAIN m.ticket
  BY <1>3, <1>4 DEF SameObjects
<1> DEFINE p == Deleted(m, Removed(q, l, i), l)
<1>8. /\ Store(d, p, {} \cup {t}) /\ Full(d, {}) /\ d.ticket = m.ticket
      /\ LinesOf(d, p) = LinesOf(m, Removed(q, l, i))
  BY <1>4, <1>6, <1>7, DeleteKeepsStore
<1> HIDE DEF d, p
<1>9. t \in DOMAIN d.ticket /\ t \in {} \cup {t} /\ ({} \cup {t}) \ {t} = {}
  BY <1>7, <1>8
<1>10. /\ Store(w, p, {} \cup {t}) /\ Full(w, {}) /\ Unlinked(w, t) /\ SameObjects(d, w)
       /\ LinesOf(w, p) = LinesOf(d, p)
  BY <1>3, <1>8, <1>9, ModifyKeepsStore
<1> HIDE DEF w
<1>11. t \in DOMAIN w.ticket
  BY <1>9, <1>10 DEF SameObjects
<1>12. /\ Store(r, AppendedAt(w, p, key, t), ({} \cup {t}) \ {t}) /\ Full(r, {})
       /\ LinesOf(r, AppendedAt(w, p, key, t)) = Longer(LinesOf(w, p), key, Entry(w, t))
       /\ DOMAIN r.ticket = DOMAIN w.ticket
  <2> DEFINE held == {} \cup {t}
  <2>1. Store(w, p, held) /\ t \in held /\ Full(w, {}) /\ Unlinked(w, t)
    BY <1>9, <1>10
  <2> HIDE DEF held
  <2>2. /\ Store(r, AppendedAt(w, p, key, t), held \ {t}) /\ Full(r, {})
        /\ LinesOf(r, AppendedAt(w, p, key, t)) = Longer(LinesOf(w, p), key, Entry(w, t))
        /\ DOMAIN r.ticket = DOMAIN w.ticket
    BY <1>11, <2>1, AppendAtKeepsStore
  <2> QED
    BY <2>2 DEF held
<1> HIDE DEF r
<1>13. Store(mem', AppendedAt(w, p, key, t), Out')
  BY <1>1, <1>5, <1>9, <1>12, Zenon
<1>14. DOMAIN r.ticket = DOMAIN mem.ticket
  BY <1>4, <1>8, <1>10, <1>12 DEF SameObjects
<1>15. StoreStep
  <2> DEFINE to == AppendedAt(w, p, key, t)
             e == Entry(w, t)
             next == LinesOf(mem', to)
             between == Shorter(LinesOf(mem, q), mem.level[l].levelPrice, i)
  <2>1. e.ticket = q[l][i]
    BY <1>6 DEF Entry
  <2>2. LinesOf(w, p) = between
    BY <1>6, <1>8, <1>10, Zenon DEF LeftLine
  <2> HIDE DEF e, to
  <2>3. next = Longer(between, key, e)
    BY <1>5, <1>12, <2>2, Zenon DEF to, e
  <2> HIDE DEF next
  <2>4. LineStep(LinesOf(mem, q), next)
    BY <1>2, <1>4, <2>1, <2>3, TicketMoves
  <2>5. Store(mem, q, Out) /\ Store(mem', to, Out')
    BY <1>1, <1>2, <1>13 DEF to
  <2> QED
    BY <2>4, <2>5, Zenon DEF StoreStep, next
<1> QED
  BY <1>1, <1>5, <1>12, <1>13, <1>14, <1>15 DEF SInv, Tickets

\* The head of a level is taken out and the level with it, if it was the last.
\* A ticket that is out stays so.
LEMMA HeadIsTaken ==
    ASSUME NEW q, Store(mem, q, Out), Full(mem, {}), NEW key \in DOMAIN mem.levelMap
    PROVE  LET l == mem.levelMap[key]
               t == mem.level[l].headOrder
               m == execute(mem, t)
               d == deleteIfEmpty(m, l)
           IN  /\ t \in Tickets \ Out
               /\ l \in DOMAIN mem.level /\ 1 \in 1..Len(q[l]) /\ q[l][1] = t
               /\ LinesOf(d, Deleted(m, Removed(q, l, 1), l))
                     = Shorter(LinesOf(mem, q), mem.level[l].levelPrice, 1)
               /\ m.ticket[t].parentLevel = l
               /\ Store(d, Deleted(m, Removed(q, l, 1), l), Out \cup {t}) /\ Full(d, {})
               /\ DOMAIN d.ticket = Tickets /\ Unlinked(d, t)
               /\ \A x \in Tickets \cap Out : SameLinks(mem, d, x)
<1> DEFINE l == mem.levelMap[key]
           t == mem.level[l].headOrder
           m == execute(mem, t)
           d == deleteIfEmpty(m, l)
           p == Removed(q, l, 1)
<1>1. l \in DOMAIN mem.level
  BY DEF Store, Indexed
<1> HIDE DEF l
<1>2. /\ t \in DOMAIN mem.ticket \ Out
      /\ 1 \in 1..Len(q[l]) /\ q[l][1] = t
      /\ Store(m, p, Out \cup {t}) /\ Full(m, {l})
      /\ LeftLine(mem, q, m, l, 1)
      /\ m.ticket[t].parentLevel = l
      /\ Unlinked(m, t) /\ SameObjects(mem, m)
      /\ \A x \in DOMAIN mem.ticket \cap Out : SameLinks(mem, m, x)
  <2> DEFINE out == Out
  <2>1. Store(mem, q, out) /\ Full(mem, {}) /\ l \in DOMAIN mem.level
    BY <1>1
  <2> HIDE DEF out
  <2>2. t \in DOMAIN mem.ticket \ out
    BY <2>1, ExecuteKeepsStore, Zenon
  <2>7. 1 \in 1..Len(q[l])
    BY <2>1, ExecuteKeepsStore, Zenon
  <2>8. q[l][1] = t
    <3>1. IsList(mem, l, q[l], DOMAIN mem.ticket \ out)
      BY <2>1 DEF Store, Linked
    <3> QED
      BY <2>7, <3>1 DEF IsList
  <2>5. Store(m, p, out \cup {t})
    BY <2>1, ExecuteKeepsStore, Zenon
  <2>6. Full(m, {l})
    BY <2>1, ExecuteKeepsStore
  <2>3. /\ LeftLine(mem, q, m, l, 1)
        /\ m.ticket[t].parentLevel = l
        /\ Unlinked(m, t) /\ SameObjects(mem, m)
    BY <2>1, ExecuteKeepsStore
  <2>4. \A x \in DOMAIN mem.ticket \cap out : SameLinks(mem, m, x)
    BY <2>1, ExecuteKeepsStore
  <2> QED
    BY <2>2, <2>3, <2>4, <2>5, <2>6, <2>7, <2>8 DEF out
<1> HIDE DEF t, m, p
<1>3. l \in DOMAIN m.level /\ DOMAIN m.ticket = DOMAIN mem.ticket
  BY <1>1, <1>2 DEF SameObjects
<1>4. /\ Store(d, Deleted(m, p, l), Out \cup {t}) /\ Full(d, {}) /\ d.ticket = m.ticket
      /\ LinesOf(d, Deleted(m, p, l)) = LinesOf(m, p)
  BY <1>2, <1>3, DeleteKeepsStore
<1> HIDE DEF d
<1>5. /\ Unlinked(d, t)
      /\ \A x \in DOMAIN mem.ticket \cap Out : SameLinks(mem, d, x)
  BY <1>2, <1>4 DEF Unlinked, SameLinks
<1>6. LinesOf(d, Deleted(m, p, l)) = Shorter(LinesOf(mem, q), mem.level[l].levelPrice, 1)
  BY <1>2, <1>4, Zenon DEF LeftLine, p
<1> QED
  BY <1>1, <1>2, <1>3, <1>4, <1>5, <1>6, ZenonT(40) DEF l, t, m, d, p, Tickets

\* A filled ticket is the head of its level; a ticket being converted is not
\* concerned.
LEMMA ExecuteHeadKeepsStore ==
    ASSUME SInv, NEW key \in DOMAIN mem.levelMap, executeHead(key)
    PROVE  SInv' /\ StoreStep /\ Tickets' \subseteq Tickets
<1> DEFINE l == mem.levelMap[key]
           t == mem.level[l].headOrder
           m == execute(mem, t)
           d == deleteIfEmpty(m, l)
           r == discard(d, t)
<1>1. PICK q : Store(mem, q, Out)
  BY DEF SInv
<1>2. Full(mem, {}) /\ (converting # Null => converting \in Tickets /\ Unlinked(mem, converting))
  BY DEF SInv
<1> DEFINE p == Deleted(m, Removed(q, l, 1), l)
<1>3. /\ t \in Tickets \ Out
      /\ l \in DOMAIN mem.level /\ 1 \in 1..Len(q[l])
      /\ LinesOf(d, p) = Shorter(LinesOf(mem, q), mem.level[l].levelPrice, 1)
      /\ m.ticket[t].parentLevel = l
      /\ Store(d, p, Out \cup {t}) /\ Full(d, {})
      /\ DOMAIN d.ticket = Tickets /\ Unlinked(d, t)
      /\ \A x \in Tickets \cap Out : SameLinks(mem, d, x)
  BY <1>1, <1>2, HeadIsTaken
<1>4. mem' = r /\ converting' = converting
  BY <1>3, Zenon DEF executeHead, HeadAt
<1> HIDE DEF l, t, m, d, p
<1>5. t \in DOMAIN d.ticket /\ t \in Out \cup {t} /\ (Out \cup {t}) \ {t} = Out
  BY <1>3
<1>6. /\ Store(r, p, (Out \cup {t}) \ {t}) /\ Full(r, {})
      /\ LinesOf(r, p) = LinesOf(d, p)
      /\ r.ticket = Without(d.ticket, t)
  BY <1>3, <1>5, DiscardKeepsStore
<1> HIDE DEF r
<1>7. Store(mem', p, Out')
  <2>1. Out' = Out
    BY <1>4 DEF Out
  <2> QED
    BY <1>4, <1>5, <1>6, <2>1, Zenon
<1>8. ASSUME converting # Null
      PROVE  converting \in DOMAIN r.ticket /\ Unlinked(r, converting)
  <2>1. /\ converting \in Tickets /\ converting \in Out /\ converting # t
        /\ Unlinked(mem, converting)
    BY <1>2, <1>3, <1>8 DEF Out
  <2>2. r.ticket = [x \in Tickets \ {t} |-> d.ticket[x]]
    BY <1>3, <1>6 DEF Without, Restrict
  <2>3. SameLinks(mem, d, converting)
    BY <1>3, <2>1
  <2> QED
    BY <2>1, <2>2, <2>3 DEF Unlinked, SameLinks
<1>9. DOMAIN r.ticket \subseteq Tickets
  BY <1>3, <1>6 DEF Without, Restrict
<1>10. StoreStep
  <2> DEFINE next == LinesOf(mem', p)
  <2>1. next = Shorter(LinesOf(mem, q), mem.level[l].levelPrice, 1)
    BY <1>3, <1>4, <1>6, Zenon
  <2> HIDE DEF next
  <2>2. LineStep(LinesOf(mem, q), next)
    BY <1>1, <1>3, <2>1, TicketLeaves
  <2> QED
    BY <1>1, <1>7, <2>2, Zenon DEF StoreStep, next
<1> QED
  BY <1>4, <1>6, <1>7, <1>8, <1>9, <1>10 DEF SInv, Tickets

\* A partial fill leaves a positive quantity.
LEMMA PartiallyFillKeepsStore ==
    ASSUME SInv, NEW key \in DOMAIN mem.levelMap, NEW shares \in Quantities,
           partiallyFillHead(key, shares)
    PROVE  SInv' /\ StoreStep /\ Tickets' \subseteq Tickets
<1> DEFINE l == mem.levelMap[key]
           t == mem.level[l].headOrder
           r == partiallyFillOrder(mem, t, shares)
<1>1. PICK q : Store(mem, q, Out)
  BY DEF SInv
<1>2. Full(mem, {}) /\ (converting # Null => converting \in Tickets /\ Unlinked(mem, converting))
  BY SMTT(30) DEF SInv
<1>3. /\ t \in DOMAIN mem.ticket /\ t \notin Out
      /\ l \in DOMAIN mem.level /\ 1 \in 1..Len(q[l]) /\ q[l][1] = t
  BY <1>1, <1>2, HeadIsTaken DEF Tickets
<1>4. mem' = r /\ converting' = converting /\ shares < mem.ticket[t].quantity
  BY Zenon DEF partiallyFillHead, HeadAt
<1>5. shares \in Int /\ mem.ticket[t].quantity - shares \in 1..IntMax
  <2>1. shares \in 1..IntMax
    BY QuantitiesArePositive, SMTT(30)
  <2>2. mem.ticket[t].quantity \in 1..IntMax
    BY <1>1, <1>3 DEF Store, Valued
  <2>3. \A v, n \in 1..IntMax : n < v => n \in Int /\ v - n \in 1..IntMax
    BY IntMaxIsNatural
  <2> HIDE DEF t
  <2> QED
    BY <1>4, <2>1, <2>2, <2>3
<1> HIDE DEF l, t
<1>6. /\ Store(r, q, Out) /\ Full(r, {})
      /\ \A k \in DOMAIN mem.level : \A i \in 1..Len(q[k]) :
            q[k][i] = t => LinesOf(r, q) = Given(LinesOf(mem, q), mem.level[k].levelPrice, i,
                                                 mem.ticket[t].quantity - shares)
      /\ \A x \in DOMAIN mem.ticket : SameLinks(mem, r, x)
      /\ DOMAIN r.ticket = DOMAIN mem.ticket
  BY <1>1, <1>2, <1>3, <1>5, FillKeepsStore
<1> HIDE DEF r
<1>7. Store(mem', q, Out')
  <2>1. Out' = Out
    BY <1>4 DEF Out
  <2> QED
    BY <1>4, <1>6, <2>1, Zenon
<1>8. converting # Null => converting \in DOMAIN r.ticket /\ Unlinked(r, converting)
  BY <1>2, <1>6 DEF Tickets, Unlinked, SameLinks
<1>9. StoreStep
  <2> DEFINE left == mem.ticket[t].quantity - shares
             next == LinesOf(mem', q)
  <2>1. left \in Int /\ left < mem.ticket[q[l][1]].quantity
    <3>1. mem.ticket[t].quantity \in 1..IntMax /\ shares \in 1..IntMax
      BY <1>1, <1>3, QuantitiesArePositive DEF Store, Valued
    <3>2. \A v, n \in 1..IntMax : v - n \in Int /\ v - n < v
      BY IntMaxIsNatural
    <3> QED
      BY <1>3, <3>1, <3>2
  <2> HIDE DEF left
  <2>2. next = Given(LinesOf(mem, q), mem.level[l].levelPrice, 1, left)
    BY <1>3, <1>4, <1>6 DEF left
  <2> HIDE DEF next
  <2>3. LineStep(LinesOf(mem, q), next)
    BY <1>1, <1>3, <2>1, <2>2, HeadGives
  <2> QED
    BY <1>1, <1>7, <2>3, Zenon DEF StoreStep, next
<1> QED
  BY <1>4, <1>6, <1>7, <1>8, <1>9 DEF SInv, Tickets

\* A triggered stop-limit ticket is out, with its cell and its entry of orderMap.
LEMMA TriggerKeepsStore ==
    ASSUME SInv, NEW key \in DOMAIN mem.levelMap, TriggerStopLimit(key)
    PROVE  SInv' /\ StoreStep /\ Tickets' \subseteq Tickets
<1> DEFINE l == mem.levelMap[key]
           t == mem.level[l].headOrder
           m == execute(mem, t)
           d == deleteIfEmpty(m, l)
<1>1. Out = {} /\ mem' = d /\ converting' = t
  BY DEF TriggerStopLimit, Idle, Out, HeadAt
<1>2. PICK q : Store(mem, q, Out)
  BY DEF SInv
<1>3. Full(mem, {})
  BY SMTT(30) DEF SInv
<1> DEFINE p == Deleted(m, Removed(q, l, 1), l)
<1>4. /\ t \in Tickets \ Out
      /\ l \in DOMAIN mem.level /\ 1 \in 1..Len(q[l])
      /\ LinesOf(d, p) = Shorter(LinesOf(mem, q), mem.level[l].levelPrice, 1)
      /\ Store(d, p, Out \cup {t}) /\ Full(d, {})
      /\ DOMAIN d.ticket = Tickets /\ Unlinked(d, t)
  BY <1>2, <1>3, HeadIsTaken
<1> HIDE DEF l, t, m, d, p
<1>5. Out' = Out \cup {t} /\ converting' \in Tickets'
  <2>1. Null \notin DOMAIN mem.ticket
    BY <1>2, ObjectsAreCells DEF Store, Accounted, Null
  <2>2. t # Null
    BY <1>4, <2>1 DEF Tickets
  <2> QED
    BY <1>1, <1>4, <2>2 DEF Out, Tickets
<1>6. Store(mem', p, Out')
  BY <1>1, <1>4, <1>5, Zenon
<1>7. StoreStep
  <2> DEFINE next == LinesOf(mem', p)
  <2>1. next = Shorter(LinesOf(mem, q), mem.level[l].levelPrice, 1)
    BY <1>1, <1>4, Zenon
  <2> HIDE DEF next
  <2>2. LineStep(LinesOf(mem, q), next)
    BY <1>2, <1>4, <2>1, TicketLeaves
  <2> QED
    BY <1>2, <1>6, <2>2, Zenon DEF StoreStep, next
<1> QED
  BY <1>1, <1>4, <1>5, <1>6, <1>7 DEF SInv, Tickets

\* A converted ticket that is filled is in no list when it is freed.
LEMMA FilledKeepsStore ==
    ASSUME SInv, ConvertedIsFilled
    PROVE  SInv' /\ StoreStep /\ Tickets' \subseteq Tickets
<1> DEFINE t == converting
           r == discard(mem, t)
<1>1. Out = {t} /\ mem' = r /\ converting' = Null /\ Out' = {} /\ t \in DOMAIN mem.ticket
  BY DEF ConvertedIsFilled, Idle, Out, SInv, Tickets
<1>2. PICK q : Store(mem, q, {t})
  BY <1>1 DEF SInv
<1>3. Full(mem, {})
  BY DEF SInv
<1>4. /\ Store(r, q, {t} \ {t}) /\ Full(r, {})
      /\ LinesOf(r, q) = LinesOf(mem, q)
      /\ r.ticket = Without(mem.ticket, t)
  BY <1>1, <1>2, <1>3, DiscardKeepsStore
<1> HIDE DEF r
<1>5. {t} \ {t} = {}
  OBVIOUS
<1>6. Store(mem', q, Out')
  BY <1>1, <1>4, <1>5, Zenon
<1>7. DOMAIN r.ticket \subseteq DOMAIN mem.ticket
  BY <1>4 DEF Without, Restrict
<1>8. StoreStep
  <2>1. LinesOf(mem', q) = LinesOf(mem, q)
    BY <1>1, <1>4, Zenon
  <2>2. Store(mem, q, Out)
    BY <1>1, <1>2
  <2>3. LineStep(LinesOf(mem, q), LinesOf(mem', q))
    BY <2>1, Zenon DEF LineStep
  <2> QED
    BY <1>6, <2>2, <2>3, Zenon DEF StoreStep
<1> QED
  BY <1>1, <1>4, <1>6, <1>7, <1>8 DEF SInv, Tickets

\* A converted ticket that rests comes to the end of a list, without old links.
LEMMA RestsKeepsStore ==
    ASSUME SInv, NEW key \in LimitKeys, NEW shares \in Quantities, ConvertedRests(key, shares)
    PROVE  SInv' /\ StoreStep /\ Tickets' \subseteq Tickets
<1> DEFINE t == converting
           w == setShares(mem, t, shares)
           r == appendAt(w, key, t)
<1>1. /\ Out = {t} /\ mem' = r /\ converting' = Null /\ Out' = {}
      /\ t \in DOMAIN mem.ticket /\ Unlinked(mem, t)
  BY DEF ConvertedRests, Idle, Out, SInv, Tickets
<1>2. PICK q : Store(mem, q, {t})
  BY <1>1 DEF SInv
<1>3. Full(mem, {}) /\ shares \in 1..IntMax /\ key \in Keys
  BY QuantitiesArePositive DEF SInv, Keys
<1>4. /\ Store(w, q, {t}) /\ Full(w, {}) /\ Unlinked(w, t) /\ SameObjects(mem, w)
      /\ LinesOf(w, q) = LinesOf(mem, q)
  BY <1>1, <1>2, <1>3, SetSharesKeepsStore
<1> HIDE DEF w
<1>5. t \in DOMAIN w.ticket
  BY <1>1, <1>4 DEF SameObjects
<1>6. /\ Store(r, AppendedAt(w, q, key, t), {t} \ {t}) /\ Full(r, {})
      /\ LinesOf(r, AppendedAt(w, q, key, t)) = Longer(LinesOf(w, q), key, Entry(w, t))
      /\ DOMAIN r.ticket = DOMAIN w.ticket
  BY <1>3, <1>4, <1>5, AppendAtKeepsStore
<1> HIDE DEF r
<1>7. {t} \ {t} = {}
  OBVIOUS
<1>8. Store(mem', AppendedAt(w, q, key, t), Out')
  BY <1>1, <1>6, <1>7, Zenon
<1>9. DOMAIN r.ticket = DOMAIN mem.ticket
  BY <1>4, <1>6 DEF SameObjects
<1>10. StoreStep
  <2> DEFINE p == AppendedAt(w, q, key, t)
             e == Entry(w, t)
             next == LinesOf(mem', p)
  <2>1. e.ticket \notin DOMAIN mem.ticket \ {t}
    BY DEF Entry
  <2> HIDE DEF e, p
  <2>2. next = Longer(LinesOf(mem, q), key, e)
    BY <1>1, <1>4, <1>6, Zenon DEF p, e
  <2> HIDE DEF next
  <2>3. LineStep(LinesOf(mem, q), next)
    BY <1>2, <1>3, <2>1, <2>2, TicketJoins
  <2>4. Store(mem, q, Out) /\ Store(mem', p, Out')
    BY <1>1, <1>2, <1>8 DEF p
  <2> QED
    BY <2>3, <2>4, Zenon DEF StoreStep, next
<1> QED
  BY <1>1, <1>6, <1>8, <1>9, <1>10 DEF SInv, Tickets

\* Every step keeps the invariant, and is one of the lines.
LEMMA StoreIsKept == SInv /\ [Next]_vars => SInv' /\ StoreStep
<1> SUFFICES ASSUME SInv, [Next]_vars PROVE SInv' /\ StoreStep
  OBVIOUS
<1>1. CASE Client
  BY <1>1, SubmitKeepsStore, CancelTicketKeepsStore, ModifyTicketKeepsStore DEF Client
<1>2. CASE Matching
  BY <1>2, ExecuteHeadKeepsStore, PartiallyFillKeepsStore DEF Matching
<1>3. CASE Converting
  <2>1. CASE \E key \in StopKeys \cap DOMAIN mem.levelMap : TriggerStopLimit(key)
    BY <2>1, TriggerKeepsStore
  <2>2. CASE ConvertedIsFilled
    BY <2>2, FilledKeepsStore
  <2>3. CASE \E key \in LimitKeys, shares \in Quantities : ConvertedRests(key, shares)
    BY <2>3, RestsKeepsStore
  <2> QED
    BY <1>3, <2>1, <2>2, <2>3 DEF Converting
<1>4. CASE UNCHANGED vars
  <2>1. SInv' /\ mem' = mem /\ Out' = Out
    BY <1>4 DEF vars, SInv, Out, Tickets
  <2>2. PICK q : Store(mem, q, Out)
    BY DEF SInv
  <2>3. Store(mem', q, Out') /\ LineStep(LinesOf(mem, q), LinesOf(mem', q))
    BY <2>1, <2>2, Zenon DEF LineStep
  <2> QED
    BY <2>1, <2>2, <2>3, Zenon DEF StoreStep
<1> QED
  BY <1>1, <1>2, <1>3, <1>4 DEF Next

\* The invariant holds always.
LEMMA StoreInvariant == Spec => []SInv
  BY InitStore, StoreIsKept, PTL DEF Spec

-----------------------------------------------------------------------------
(* What the invariant says.                                                *)

\* The links of a ticket in a list, and the ends of a list, are tickets.
LEMMA LinksAreTickets ==
    ASSUME NEW m, NEW q, NEW out, Store(m, q, out), Full(m, {})
    PROVE  /\ \A t \in DOMAIN m.ticket \ out :
                 /\ m.ticket[t].nextOrder \in DOMAIN m.ticket \cup {Null}
                 /\ m.ticket[t].prevOrder \in DOMAIN m.ticket \cup {Null}
                 /\ m.ticket[t].parentLevel \in DOMAIN m.level
           /\ \A l \in DOMAIN m.level :
                 /\ m.level[l].size \in Nat
                 /\ m.level[l].headOrder \in DOMAIN m.ticket
                 /\ m.level[l].tailOrder \in DOMAIN m.ticket
<1> DEFINE S == DOMAIN m.ticket \ out
<1>1. Null \notin DOMAIN m.ticket
  BY ObjectsAreCells DEF Store, Accounted, Null
<1>2. ASSUME NEW l \in DOMAIN m.level
      PROVE  IsList(m, l, q[l], S) /\ Null \notin S
  BY <1>1 DEF Store, Linked
<1>3. S \subseteq DOMAIN m.ticket
  OBVIOUS
<1>4. ASSUME NEW t \in S
      PROVE  /\ m.ticket[t].nextOrder \in DOMAIN m.ticket \cup {Null}
             /\ m.ticket[t].prevOrder \in DOMAIN m.ticket \cup {Null}
             /\ m.ticket[t].parentLevel \in DOMAIN m.level
  <2> DEFINE l == m.ticket[t].parentLevel
  <2>1. l \in DOMAIN m.level
    BY DEF Store, Linked
  <2>2. PICK i \in 1..Len(q[l]) : q[l][i] = t
    BY DEF Store, Linked
  <2>3. /\ m.ticket[t].nextOrder # Null => m.ticket[t].nextOrder \in S
        /\ m.ticket[t].prevOrder # Null => m.ticket[t].prevOrder \in S
    BY <1>2, <2>1, <2>2, NeighboursInList
  <2> QED
    BY <1>3, <2>1, <2>3
<1>5. ASSUME NEW l \in DOMAIN m.level
      PROVE  /\ m.level[l].size \in Nat
             /\ m.level[l].headOrder \in DOMAIN m.ticket
             /\ m.level[l].tailOrder \in DOMAIN m.ticket
  <2>1. /\ q[l] \in Seq(S) /\ m.level[l].size = Len(q[l]) /\ Len(q[l]) # 0
        /\ m.level[l].headOrder = IF Len(q[l]) = 0 THEN Null ELSE q[l][1]
        /\ m.level[l].tailOrder = IF Len(q[l]) = 0 THEN Null ELSE q[l][Len(q[l])]
    BY <1>2 DEF IsList, Full
  <2> HIDE DEF S
  <2>2. Len(q[l]) \in Nat /\ q[l][1] \in S /\ q[l][Len(q[l])] \in S
    BY <2>1
  <2> QED
    BY <1>3, <2>1, <2>2
<1> QED
  BY <1>4, <1>5

\* Objects have the fields of their classes, and no pointer leads to a freed
\* cell.
THEOREM PointersLeadToObjects == Spec => []TypeOK
<1>1. SInv => TypeOK
  <2> SUFFICES ASSUME SInv PROVE TypeOK
    OBVIOUS
  <2>1. PICK q : Store(mem, q, Out)
    BY DEF SInv
  <2>2. Full(mem, {}) /\ (converting # Null => converting \in Tickets /\ Unlinked(mem, converting))
    BY DEF SInv
  <2>3. mem.orderPool \in Arena /\ mem.limitPool \in Arena
    BY <2>1 DEF Store, Accounted, ArenaOK
  <2>4. /\ Tickets \subseteq Nat /\ Levels \subseteq Nat /\ Null \in Nat
    BY <2>1, ObjectsAreCells DEF Store, Accounted, Null, Tickets, Levels
  <2>5. ASSUME NEW t \in Tickets
        PROVE  /\ mem.ticket[t].nextOrder \in Tickets \cup {Null}
               /\ mem.ticket[t].prevOrder \in Tickets \cup {Null}
               /\ t # converting => mem.ticket[t].parentLevel \in Levels
    <3>1. CASE t \notin Out
      BY <2>1, <2>2, <3>1, LinksAreTickets DEF Tickets, Levels
    <3>2. CASE t \in Out
      BY <2>2, <3>2 DEF Out, Unlinked
    <3> QED
      BY <3>1, <3>2
  <2>6. ASSUME NEW t \in Tickets
        PROVE  mem.ticket[t] \in TradeTicket
    <3>1. IsTicket(mem.ticket[t])
      BY <2>1 DEF Store, Linked, Shaped, Tickets
    <3>2. /\ mem.ticket[t].idNumber \in Ids /\ mem.ticket[t].quantity \in 1..IntMax
          /\ mem.ticket[t].parentLevel \in Nat
      BY <2>1 DEF Store, Valued, Tickets
    <3>3. mem.ticket[t].nextOrder \in Nat /\ mem.ticket[t].prevOrder \in Nat
      BY <2>4, <2>5
    <3> DEFINE a == mem.ticket[t]
    <3> HIDE DEF a
    <3>4. a \in TradeTicket
      BY <3>1, <3>2, <3>3 DEF IsTicket, TradeTicket, a
    <3> QED
      BY <3>4 DEF a
  <2>7. ASSUME NEW l \in Levels
        PROVE  /\ mem.level[l] \in PriceLevel
               /\ mem.level[l].headOrder \in Tickets /\ mem.level[l].tailOrder \in Tickets
    <3>1. IsLevel(mem.level[l])
      BY <2>1 DEF Store, Linked, Shaped, Levels
    <3>2. mem.level[l].totalVolume \in Ints /\ mem.level[l].levelPrice \in Keys
      BY <2>1 DEF Store, Valued, Indexed, Levels
    <3>3. /\ mem.level[l].size \in Nat
          /\ mem.level[l].headOrder \in Tickets /\ mem.level[l].tailOrder \in Tickets
      BY <2>1, <2>2, LinksAreTickets DEF Tickets, Levels
    <3>4. mem.level[l].headOrder \in Nat /\ mem.level[l].tailOrder \in Nat
      BY <2>4, <3>3
    <3>5. mem.level[l] \in PriceLevel
      BY <3>1, <3>2, <3>3, <3>4 DEF IsLevel, PriceLevel
    <3> QED
      BY <3>3, <3>5
  <2> QED
    BY <2>2, <2>3, <2>5, <2>6, <2>7 DEF TypeOK
<1> QED
  BY <1>1, StoreInvariant, PTL

\* searchOrderMap never returns a freed ticket or one of another id, though an
\* id may be submitted again while it is in use.
THEOREM MapFindsLiveTickets == Spec => []FoundTicketsAreLive
<1>1. SInv => FoundTicketsAreLive
  BY DEF SInv, Store, Mapped, FoundTicketsAreLive, Tickets
<1> QED
  BY <1>1, StoreInvariant, PTL

=============================================================================
