------------------------- MODULE LockFreeRingBuffer -------------------------
(***************************************************************************)
(* The single-producer single-consumer ring buffer between the decoder, the  *)
(* audio thread and the engine (include/utils/lockfreeringbuffer.h).         *)
(*                                                                         *)
(* One step is one access to an atomic, or one copy into or out of the       *)
(* slots; that two copies never touch a slot at the same time is NoRace.     *)
(* The data is numbered: the k-th element published is item k.              *)
(***************************************************************************)
EXTENDS Integers, Sequences, FiniteSets

CONSTANTS
    Slots,            \* m_capacity: one slot always stays empty
    Clients           \* how the two sides use a ring, with bounds: see ClientType

Sides == {"writer", "reader"}

ASSUME SlotsAssumption == Slots \in Nat \ {0, 1}

\* The calls that each side makes, the sides that call requestReset, and bounds:
\* the items written and the calls of requestReset in a behaviour.
ClientType ==
    [writes : SUBSET {"write", "overwrite", "reserve"},
     reads  : SUBSET {"read", "peek", "skip", "reserve"},
     resetters : SUBSET Sides, items : Nat, resets : Nat]

ASSUME ClientsAssumption == Clients \subseteq ClientType

VARIABLES
    client,           \* the member of Clients that uses this ring
    buffer,           \* m_buffer
    writePos,         \* m_writePos
    readPos,          \* m_readPos
    resetRequested,   \* m_resetRequested
    generation,       \* m_generation
    pc,               \* for each side, where it is in a call
    op, count,        \* the call and its element count
    pos, n, gen,      \* its locals: a position, elements to move, a generation
    held,             \* its reservation
    copied,           \* the reader's destination, while it reads
    out,              \* what the reader was last handed
    nextItem,         \* the next item the writer publishes
    resets            \* calls of requestReset so far

ring  == <<buffer, writePos, readPos, resetRequested, generation>>
calls == <<pc, op, count, pos, n, gen, held>>
vars  == <<client, ring, calls, copied, out, nextItem, resets>>

Indices == 0 .. (Slots - 1)
NoHold  == [index |-> -1, gen |-> 0, used |-> FALSE]

-----------------------------------------------------------------------------
(* Positions.                                                               *)

\* Mutant: positions run on past the last slot.
AdvanceMutant(p, k) == p + k

Advance(p, k) == (p + k) % Slots

\* distanceInternal, and readAvailable.
Distance(from, to) == IF to >= from THEN to - from ELSE Slots - from + to

\* Mutant: a full ring and an empty one are told apart by nothing.
SpaceMutant(w, r) == Slots - Distance(r, w)

\* writeAvailable.
Space(w, r) == IF w >= r THEN Slots - 1 - (w - r) ELSE r - w - 1

Chunk(p, k) == {Advance(p, i) : i \in 0 .. (k - 1)}

Available(s, w, r) == IF s = "writer" THEN Space(w, r) ELSE Distance(r, w)

Least(a, b) == IF a <= b THEN a ELSE b

-----------------------------------------------------------------------------
Init ==
    /\ client \in Clients
    /\ buffer = [i \in Indices |-> 0]
    /\ writePos = 0 /\ readPos = 0
    /\ resetRequested = FALSE /\ generation = 0
    /\ pc = [s \in Sides |-> "idle"]
    /\ op = [s \in Sides |-> "none"] /\ count = [s \in Sides |-> 0]
    /\ pos = [s \in Sides |-> 0] /\ n = [s \in Sides |-> 0]
    /\ gen = [s \in Sides |-> 0] /\ held = [s \in Sides |-> NoHold]
    /\ copied = <<>> /\ out = <<>>
    /\ nextItem = 1 /\ resets = 0

Goto(s, l) == pc' = [pc EXCEPT ![s] = l]

\* The first step of a call after applyResetIfNeeded.
Entry(s, o) ==
    CASE o = "overwrite"                 -> "room"
      [] o = "reserve" /\ s = "writer"   -> "loadGen"
      [] o = "reserve" /\ s = "reader"   -> "reserveLoad"
      [] o \in {"commit", "consume"}     -> "checkGen"
      [] OTHER                           -> "loadWrite"

\* Mutant: the request is read, and cleared only with the positions.
TakenMutant == resetRequested

\* What the exchange leaves in m_resetRequested.
Taken == FALSE

(* A call begins: applyResetIfNeeded takes the request with an exchange.      *)
(* Its caller is left to zero the positions, in three more steps.             *)
Begin(s, o, c) ==
    /\ pc[s] = "idle"
    /\ op' = [op EXCEPT ![s] = o]
    /\ count' = [count EXCEPT ![s] = c]
    /\ resetRequested' = Taken
    /\ Goto(s, IF resetRequested THEN "bump" ELSE Entry(s, o))
    /\ UNCHANGED <<client, buffer, writePos, readPos, generation, pos, n, gen, held,
                   copied, out, nextItem, resets>>

BeginWrite(o, c) ==
    /\ held["writer"] = NoHold
    /\ nextItem + c - 1 <= client.items
    /\ Begin("writer", o, c)

BeginRead(o, c) == held["reader"] = NoHold /\ Begin("reader", o, c)

\* commitOne and consumeOne, once the client has used the slot.
BeginRetire(s) ==
    /\ held[s].used
    /\ Begin(s, IF s = "writer" THEN "commit" ELSE "consume", 1)

ResetGeneration(s) ==
    /\ pc[s] = "bump"
    /\ generation' = generation + 1
    /\ Goto(s, "zeroWrite")
    /\ UNCHANGED <<client, buffer, writePos, readPos, resetRequested, op, count, pos, n, gen,
                   held, copied, out, nextItem, resets>>

ResetWritePos(s) ==
    /\ pc[s] = "zeroWrite"
    /\ writePos' = 0
    /\ Goto(s, "zeroRead")
    /\ UNCHANGED <<client, buffer, readPos, resetRequested, generation, op, count, pos, n, gen,
                   held, copied, out, nextItem, resets>>

ResetReadPos(s) ==
    /\ pc[s] = "zeroRead"
    /\ readPos' = 0
    /\ Goto(s, Entry(s, op[s]))
    /\ UNCHANGED <<client, buffer, writePos, resetRequested, generation, op, count, pos, n, gen,
                   held, copied, out, nextItem, resets>>

RequestReset(s) ==
    /\ s \in client.resetters /\ pc[s] = "idle"
    /\ resets < client.resets
    /\ resets' = resets + 1
    /\ resetRequested' = TRUE
    /\ UNCHANGED <<client, buffer, writePos, readPos, generation, calls, copied, out, nextItem>>

-----------------------------------------------------------------------------
(* write, read, peek, skip, and the writer's reserveOne: how many elements     *)
(* there are, then this side's own position.                                 *)

LoadWrite(s) ==
    /\ pc[s] = "loadWrite"
    /\ pos' = [pos EXCEPT ![s] = writePos]
    /\ Goto(s, "loadRead")
    /\ UNCHANGED <<client, ring, op, count, n, gen, held, copied, out, nextItem, resets>>

LoadRead(s) ==
    /\ pc[s] = "loadRead"
    /\ LET k == Least(count[s], Available(s, pos[s], readPos))
       IN  /\ n' = [n EXCEPT ![s] = k]
           /\ IF k # 0 /\ op[s] = "reserve"
              THEN held' = [held EXCEPT ![s] = [index |-> pos[s], gen |-> gen[s],
                                                used |-> FALSE]]
              ELSE UNCHANGED held
           /\ Goto(s, IF k = 0 \/ op[s] = "reserve" THEN "idle" ELSE "own")
    /\ UNCHANGED <<client, ring, op, count, pos, gen, copied, out, nextItem, resets>>

LoadOwn(s) ==
    /\ pc[s] = "own"
    /\ pos' = [pos EXCEPT ![s] = IF s = "writer" THEN writePos ELSE readPos]
    /\ Goto(s, IF op[s] = "skip" THEN "publish" ELSE "copy")
    /\ UNCHANGED <<client, ring, op, count, n, gen, held, copied, out, nextItem, resets>>

\* The memcpy of one or, around the end of the storage, two pieces.
CopyIn ==
    /\ pc["writer"] = "copy"
    /\ LET p == pos["writer"]
       IN  buffer' = [i \in Indices |->
               IF i \in Chunk(p, n["writer"]) THEN nextItem + Distance(p, i) ELSE buffer[i]]
    /\ Goto("writer", "publish")
    /\ UNCHANGED <<client, writePos, readPos, resetRequested, generation, op, count, pos, n, gen,
                   held, copied, out, nextItem, resets>>

\* Mutant: the second piece is read from where the first one ended.
CopyOutMutant ==
    /\ pc["reader"] = "copy"
    /\ LET got == [i \in 1 .. n["reader"] |-> buffer[Least(pos["reader"] + i - 1, Slots - 1)]]
       IN  IF op["reader"] = "peek"
           THEN out' = got /\ Goto("reader", "idle") /\ UNCHANGED copied
           ELSE copied' = got /\ Goto("reader", "publish") /\ UNCHANGED out
    /\ UNCHANGED <<client, ring, op, count, pos, n, gen, held, nextItem, resets>>

CopyOut ==
    /\ pc["reader"] = "copy"
    /\ LET got == [i \in 1 .. n["reader"] |-> buffer[Advance(pos["reader"], i - 1)]]
       IN  IF op["reader"] = "peek"
           THEN out' = got /\ Goto("reader", "idle") /\ UNCHANGED copied
           ELSE copied' = got /\ Goto("reader", "publish") /\ UNCHANGED out
    /\ UNCHANGED <<client, ring, op, count, pos, n, gen, held, nextItem, resets>>

PublishWrite ==
    /\ pc["writer"] = "publish"
    /\ writePos' = Advance(pos["writer"], n["writer"])
    /\ nextItem' = nextItem + n["writer"]
    /\ Goto("writer", "idle")
    /\ UNCHANGED <<client, buffer, readPos, resetRequested, generation, op, count, pos, n, gen,
                   held, copied, out, resets>>

PublishRead ==
    /\ pc["reader"] = "publish"
    /\ readPos' = Advance(pos["reader"], n["reader"])
    /\ out' = IF op["reader"] = "skip" THEN out ELSE copied
    /\ copied' = <<>>
    /\ Goto("reader", "idle")
    /\ UNCHANGED <<client, buffer, writePos, resetRequested, generation, op, count, pos, n, gen,
                   held, nextItem, resets>>

-----------------------------------------------------------------------------
(* Reservations: reserveOne, the client's use of the slot, and its retirement. *)

LoadGeneration(s) ==
    /\ pc[s] = "loadGen"
    /\ gen' = [gen EXCEPT ![s] = generation]
    /\ IF s = "writer"
       THEN Goto(s, "loadWrite") /\ UNCHANGED held
       ELSE /\ held' = [held EXCEPT ![s] = [index |-> pos[s], gen |-> generation,
                                            used |-> FALSE]]
            /\ Goto(s, "idle")
    /\ UNCHANGED <<client, ring, op, count, pos, n, copied, out, nextItem, resets>>

ReserveLoad ==
    /\ pc["reader"] = "reserveLoad"
    /\ pos' = [pos EXCEPT !["reader"] = readPos]
    /\ Goto("reader", "reserveCheck")
    /\ UNCHANGED <<client, ring, op, count, n, gen, held, copied, out, nextItem, resets>>

ReserveCheck ==
    /\ pc["reader"] = "reserveCheck"
    /\ Goto("reader", IF pos["reader"] = writePos THEN "idle" ELSE "loadGen")
    /\ UNCHANGED <<client, ring, op, count, pos, n, gen, held, copied, out, nextItem, resets>>

\* The client fills, or reads, the reserved slot.
UseSlot(s) ==
    /\ pc[s] = "idle" /\ held[s] # NoHold /\ ~held[s].used
    /\ held' = [held EXCEPT ![s].used = TRUE]
    /\ IF s = "writer"
       THEN buffer' = [buffer EXCEPT ![held[s].index] = nextItem] /\ UNCHANGED out
       ELSE out' = <<buffer[held[s].index]>> /\ UNCHANGED buffer
    /\ UNCHANGED <<client, writePos, readPos, resetRequested, generation, pc, op, count, pos, n,
                   gen, copied, nextItem, resets>>

\* A reservation from before a reset, or out of order, is dropped.
CheckGeneration(s) ==
    /\ pc[s] = "checkGen"
    /\ IF held[s].gen = generation
       THEN Goto(s, "checkPos") /\ UNCHANGED held
       ELSE Goto(s, "idle") /\ held' = [held EXCEPT ![s] = NoHold]
    /\ UNCHANGED <<client, ring, op, count, pos, n, gen, copied, out, nextItem, resets>>

CheckPosition(s) ==
    /\ pc[s] = "checkPos"
    /\ IF held[s].index = (IF s = "writer" THEN writePos ELSE readPos)
       THEN Goto(s, "retire") /\ UNCHANGED held
       ELSE Goto(s, "idle") /\ held' = [held EXCEPT ![s] = NoHold]
    /\ UNCHANGED <<client, ring, op, count, pos, n, gen, copied, out, nextItem, resets>>

Retire(s) ==
    /\ pc[s] = "retire"
    /\ IF s = "writer"
       THEN /\ writePos' = Advance(held[s].index, 1)
            /\ nextItem' = nextItem + 1
            /\ UNCHANGED readPos
       ELSE /\ readPos' = Advance(held[s].index, 1)
            /\ UNCHANGED <<writePos, nextItem>>
    /\ held' = [held EXCEPT ![s] = NoHold]
    /\ Goto(s, "idle")
    /\ UNCHANGED <<client, buffer, resetRequested, generation, op, count, pos, n, gen, copied,
                   out, resets>>

-----------------------------------------------------------------------------
(* write with OverwriteOldest first makes room: ensureWriteCapacityInternal    *)
(* and dropOldestInternal, which moves the reader's position.                *)

\* m_writePos is the writer's own here, so its loads take no step of their own
\* (that the reader applies a reset between two of them is left out).
Room ==
    /\ pc["writer"] = "room"
    /\ LET free == Space(writePos, readPos)
       IN  IF free >= count["writer"]
           THEN Goto("writer", "loadWrite") /\ UNCHANGED n
           ELSE /\ n' = [n EXCEPT !["writer"] = count["writer"] - free]
                /\ Goto("writer", "dropLoad")
    /\ UNCHANGED <<client, ring, op, count, pos, gen, held, copied, out, nextItem, resets>>

DropLoad ==
    /\ pc["writer"] = "dropLoad"
    /\ pos' = [pos EXCEPT !["writer"] = readPos]
    /\ Goto("writer", IF Distance(readPos, writePos) = 0 THEN "loadWrite" ELSE "dropSwap")
    /\ UNCHANGED <<client, ring, op, count, n, gen, held, copied, out, nextItem, resets>>

\* compare_exchange_weak: it may also fail for no reason, and is then retried.
DropSwap ==
    /\ pc["writer"] = "dropSwap"
    /\ LET p    == pos["writer"]
           step == Least(n["writer"], Distance(p, writePos))
       IN  IF readPos = p
           THEN /\ readPos' = Advance(p, step)
                /\ n' = [n EXCEPT !["writer"] = @ - step]
                /\ Goto("writer", IF n'["writer"] > 0 THEN "dropLoad" ELSE "room")
           ELSE Goto("writer", "dropLoad") /\ UNCHANGED <<readPos, n>>
    /\ UNCHANGED <<client, buffer, writePos, resetRequested, generation, op, count, pos, gen,
                   held, copied, out, nextItem, resets>>

-----------------------------------------------------------------------------
Count(o) == IF o = "reserve" THEN {1} ELSE 1 .. (Slots - 1)

ResetStep(s)   == ResetGeneration(s) \/ ResetWritePos(s) \/ ResetReadPos(s)
MoveStep(s)    == LoadWrite(s) \/ LoadRead(s) \/ LoadOwn(s)
ReserveStep(s) == LoadGeneration(s) \/ UseSlot(s)
RetireStep(s)  == CheckGeneration(s) \/ CheckPosition(s) \/ Retire(s)

WriterStep == CopyIn \/ PublishWrite \/ Room \/ DropLoad \/ DropSwap
ReaderStep == CopyOut \/ PublishRead \/ ReserveLoad \/ ReserveCheck

Next ==
    \/ \E o \in client.writes : \E c \in Count(o) : BeginWrite(o, c)
    \/ \E o \in client.reads : \E c \in Count(o) : BeginRead(o, c)
    \/ \E s \in Sides :
          BeginRetire(s) \/ ResetStep(s) \/ MoveStep(s) \/ ReserveStep(s) \/ RetireStep(s)
    \/ WriterStep
    \/ ReaderStep
    \/ \E s \in Sides : RequestReset(s)

Spec == Init /\ [][Next]_vars

-----------------------------------------------------------------------------
(* Properties.                                                              *)

\* The slots a side is copying from or into.
InUse(s) ==
    (IF pc[s] = "copy" THEN Chunk(pos[s], n[s]) ELSE {})
        \cup (IF held[s] = NoHold THEN {} ELSE {held[s].index})

\* Positions stay inside the storage, and locals have their types.
TypeOK ==
    /\ buffer \in [Indices -> Nat]
    /\ writePos \in Indices /\ readPos \in Indices
    /\ resetRequested \in BOOLEAN /\ generation \in Nat
    /\ pc \in [Sides -> {"idle", "bump", "zeroWrite", "zeroRead", "loadWrite", "loadRead",
                         "own", "copy", "publish", "loadGen", "reserveLoad",
                         "reserveCheck", "checkGen", "checkPos", "retire", "room",
                         "dropLoad", "dropSwap"}]
    /\ op \in [Sides -> {"none", "write", "overwrite", "read", "peek", "skip", "reserve",
                         "commit", "consume"}]
    /\ count \in [Sides -> Nat] /\ n \in [Sides -> Nat]
    /\ pos \in [Sides -> Indices] /\ gen \in [Sides -> Nat]
    /\ \A s \in Sides : held[s] = NoHold \/ held[s].index \in Indices
    /\ nextItem \in Nat \ {0}

\* What the class asks of its clients: no reset, and no write that overwrites.
StrictlyOneSided == client.resetters = {} /\ "overwrite" \notin client.writes

\* No data race: the reader and the writer never use a slot at the same time,
\* by copy or by reservation.
NoRace == StrictlyOneSided => InUse("reader") \cap InUse("writer") = {}

\* A request is applied by one side, once, however the two sides race for it.
ResetOnce ==
    generation + Cardinality({s \in Sides : pc[s] = "bump"})
               + (IF resetRequested THEN 1 ELSE 0) <= resets

\* Between the positions are the items put and not taken, as a sequence.
Content == [i \in 1 .. Distance(readPos, writePos) |-> buffer[Advance(readPos, i - 1)]]

\* The ring implements the bounded FIFO: the stores that publish a position are
\* the points where items enter and leave it.  (Of a ring that is reset or
\* overwritten the FIFO sees nothing.)
Fifo == INSTANCE BoundedFifo
            WITH Capacity <- Slots - 1,
                 queue    <- IF StrictlyOneSided THEN Content ELSE <<>>,
                 given    <- IF StrictlyOneSided THEN nextItem ELSE 1,
                 out      <- IF StrictlyOneSided THEN out ELSE <<>>

ImplementsFifo == Fifo!Spec

\* What the reader is handed by a read starts after everything it was handed
\* before: no item comes twice, and none out of order.
EachItemOnce ==
    [][(pc["reader"] = "publish" /\ out' # out /\ out # <<>>)
          => out'[1] > out[Len(out)]]_vars
=============================================================================
