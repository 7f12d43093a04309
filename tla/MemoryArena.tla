---------------------------- MODULE MemoryArena -----------------------------
(***************************************************************************)
(* include/MemoryArena.hpp: cells for objects of one type, in blocks that  *)
(* are never given back, and a stack of the cells that hold no object.     *)
(*                                                                         *)
(* An arena is a record, and its operations are functions of it, for the   *)
(* engine calls them in the middle of longer ones.  A cell is named by its *)
(* number: the i-th cell of block b is b * BlockSize + i.                  *)
(***************************************************************************)
EXTENDS Integers, Sequences, SequencesExt

CONSTANT BlockSize  \* blockSize_, 4096 for the program
ASSUME BlockSizeIsPositive == BlockSize \in Nat \ {0}

Cells(arena) == 1..(arena.blocks * BlockSize)

Arena == [blocks : Nat, freeList : Seq(Nat)]

grow(arena) ==
    [blocks |-> arena.blocks + 1,
     freeList |-> arena.freeList
                      \o [i \in 1..BlockSize |-> arena.blocks * BlockSize + i]]

\* The constructor makes the first block.
NewArena == grow([blocks |-> 0, freeList |-> <<>>])

\* alloc: the cell freed last, of a new block if there is no free cell.
WithFreeCell(arena) == IF arena.freeList = <<>> THEN grow(arena) ELSE arena
NextCell(arena) == Last(WithFreeCell(arena).freeList)
alloc(arena) == [WithFreeCell(arena) EXCEPT !.freeList = Front(@)]

free(arena, cell) == [arena EXCEPT !.freeList = Append(@, cell)]

\* Every cell is on the free list once or holds an object, never both: what
\* alloc hands out is nobody's, and no cell is lost.
Accounts(arena, objects) ==
    /\ IsInjective(arena.freeList)
    /\ Range(arena.freeList) \cap objects = {}
    /\ Range(arena.freeList) \cup objects = Cells(arena)

=============================================================================
