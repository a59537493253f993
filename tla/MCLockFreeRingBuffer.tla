------------------------ MODULE MCLockFreeRingBuffer ------------------------
(* Instances of LockFreeRingBuffer for TLC.                                  *)
EXTENDS LockFreeRingBuffer

\* AudioStream and the analysis bus: every DropNewest call.
StreamClient ==
    [writes |-> {"write", "reserve"}, reads |-> {"read", "peek", "skip", "reserve"},
     resetters |-> {}, items |-> 6, resets |-> 0]

\* The queue of fade events: the audio thread writes one at a time and is the
\* one that resets; the engine reads.
FadeEventClient ==
    [writes |-> {"write"}, reads |-> {"read"}, resetters |-> {"writer"}, items |-> 5,
     resets |-> 1]

\* Overwriting copies and the writer's reservations, with requests from both
\* sides.  The class forbids to overwrite while the reader holds a reservation.
MixedClient ==
    [writes |-> {"overwrite", "reserve"}, reads |-> {"read"}, resetters |-> Sides,
     items |-> 3, resets |-> 2]

MCClients   == {StreamClient, MixedClient}
FadeClients == {FadeEventClient}

=============================================================================
