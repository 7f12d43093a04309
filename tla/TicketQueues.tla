---------------------------- MODULE TicketQueues ----------------------------
(***************************************************************************)
(* What the lists of tickets are for, without pointers: each price level   *)
(* has a line of tickets.  They join it at its end, the first one may give *)
(* away shares, and anyone may leave.                                      *)
(***************************************************************************)
EXTENDS Integers, Sequences, SequencesExt

CONSTANT LevelKeys

VARIABLE line  \* level -> the tickets in line, with their shares

InLine(t) == \E k \in LevelKeys : \E i \in DOMAIN line[k] : line[k][i].ticket = t

\* The lines when the i-th of line k has left.
Without(k, i) == [line EXCEPT ![k] = RemoveAt(@, i)]

QueuesInit == line = [k \in LevelKeys |-> <<>>]

Join(k, e) ==
    /\ ~InLine(e.ticket)
    /\ line' = [line EXCEPT ![k] = Append(@, e)]

\* A modified ticket goes to the end of a line, its own one perhaps.
Move(k, e) ==
    \E from \in LevelKeys : \E i \in DOMAIN line[from] :
        /\ line[from][i].ticket = e.ticket
        /\ line' = [Without(from, i) EXCEPT ![k] = Append(@, e)]

Leave(k, i) == line' = Without(k, i)

GiveAway(k, shares) ==
    /\ shares < line[k][1].shares
    /\ line' = [line EXCEPT ![k][1].shares = shares]

\* Who joins or moves is the last one of a line then.
QueuesNext ==
    \E k \in LevelKeys :
        \/ line'[k] # <<>> /\ (Join(k, Last(line'[k])) \/ Move(k, Last(line'[k])))
        \/ line[k] # <<>> /\ line'[k] # <<>> /\ GiveAway(k, line'[k][1].shares)
        \/ \E i \in DOMAIN line[k] : Leave(k, i)

QueuesSpec == QueuesInit /\ [][QueuesNext]_line

=============================================================================
