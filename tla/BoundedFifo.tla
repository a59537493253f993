---------------------------- MODULE BoundedFifo ----------------------------
(* What a ring buffer promises its two clients: a bounded FIFO of numbered    *)
(* items.  The writer puts 1, 2, 3, ...; the reader is given them in that      *)
(* order, each once.                                                          *)
EXTENDS Integers, Sequences

CONSTANT Capacity        \* how many items it holds

VARIABLES
    queue,               \* the items put and not taken
    given,               \* the next item the writer puts
    out                  \* what the reader was last handed

vars == <<queue, given, out>>

Init == queue = <<>> /\ given = 1 /\ out = <<>>

Put(k) ==
    /\ Len(queue) + k <= Capacity
    /\ queue' = queue \o [i \in 1 .. k |-> given + i - 1]
    /\ given' = given + k
    /\ UNCHANGED out

\* Hand out the first k items, without taking them (peek) ...
Look(k) ==
    /\ k <= Len(queue)
    /\ out' = SubSeq(queue, 1, k)
    /\ UNCHANGED <<queue, given>>

\* ... take them without looking (skip, or after a look) ...
Drop(k) ==
    /\ k <= Len(queue)
    /\ queue' = SubSeq(queue, k + 1, Len(queue))
    /\ UNCHANGED <<given, out>>

\* ... or both (read).
Take(k) ==
    /\ k <= Len(queue)
    /\ out' = SubSeq(queue, 1, k)
    /\ queue' = SubSeq(queue, k + 1, Len(queue))
    /\ UNCHANGED given

Next == \E k \in 1 .. Capacity : Put(k) \/ Look(k) \/ Drop(k) \/ Take(k)

Spec == Init /\ [][Next]_vars
=============================================================================
