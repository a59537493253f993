---------------------- MODULE LockFreeRingBufferProofs ----------------------
(* Proofs about LockFreeRingBuffer, for every capacity and every client.       *)
EXTENDS LockFreeRingBuffer, FiniteSetTheorems, SequenceTheorems, TLAPS

-----------------------------------------------------------------------------
(* Positions.                                                               *)

\* Advancing by at most the capacity wraps around at most once.
LEMMA AdvanceWraps ==
    ASSUME NEW p \in Indices, NEW k \in 0 .. Slots
    PROVE  Advance(p, k) = IF p + k < Slots THEN p + k ELSE p + k - Slots
<1>1. CASE p + k < Slots
  BY <1>1, SlotsAssumption DEF Advance, Indices
<1>2. CASE p + k >= Slots
  <2>1. p + k - Slots \in 0 .. (Slots - 1)
    BY <1>2, SlotsAssumption DEF Indices
  <2>2. (p + k - Slots) % Slots = p + k - Slots
    BY <2>1, SlotsAssumption
  <2>3. (p + k) % Slots = (p + k - Slots) % Slots
    BY <2>1, SlotsAssumption DEF Indices
  <2> QED BY <1>2, <2>2, <2>3, SlotsAssumption DEF Advance, Indices
<1> QED BY <1>1, <1>2, SlotsAssumption DEF Indices

\* A position stays inside the storage.
LEMMA AdvanceType ==
    ASSUME NEW p \in Int, NEW k \in Int
    PROVE  Advance(p, k) \in Indices
BY SlotsAssumption DEF Advance, Indices

\* What is between two positions, and the room that is left, are the capacity.
LEMMA DistanceSpace ==
    ASSUME NEW w \in Indices, NEW r \in Indices
    PROVE  /\ Distance(r, w) \in 0 .. (Slots - 1)
           /\ Space(w, r) = Slots - 1 - Distance(r, w)
           /\ Space(w, r) \in 0 .. (Slots - 1)
           /\ Distance(r, w) = 0 <=> r = w
BY SlotsAssumption DEF Distance, Space, Indices

\* The writer's move turns room into items ...
LEMMA WriterMoves ==
    ASSUME NEW w \in Indices, NEW r \in Indices, NEW k \in 0 .. Space(w, r)
    PROVE  /\ Advance(w, k) \in Indices
           /\ Distance(r, Advance(w, k)) = Distance(r, w) + k
<1>1. k \in 0 .. Slots /\ k <= Space(w, r) /\ Space(w, r) \in Nat
  BY DistanceSpace, SlotsAssumption
<1>2. Advance(w, k) = IF w + k < Slots THEN w + k ELSE w + k - Slots
  BY <1>1, AdvanceWraps
<1> QED BY <1>1, <1>2, SlotsAssumption DEF Distance, Space, Indices

\* ... and the reader's turns items into room.
LEMMA ReaderMoves ==
    ASSUME NEW w \in Indices, NEW r \in Indices, NEW k \in 0 .. Distance(r, w)
    PROVE  /\ Advance(r, k) \in Indices
           /\ Distance(Advance(r, k), w) = Distance(r, w) - k
           /\ Space(w, Advance(r, k)) = Space(w, r) + k
<1>1. k \in 0 .. Slots /\ k <= Distance(r, w) /\ Distance(r, w) \in Nat
  BY DistanceSpace, SlotsAssumption
<1>2. Advance(r, k) = IF r + k < Slots THEN r + k ELSE r + k - Slots
  BY <1>1, AdvanceWraps
<1> QED BY <1>1, <1>2, SlotsAssumption DEF Distance, Space, Indices

\* How far a slot is from where it was reached from.
LEMMA DistanceAdvance ==
    ASSUME NEW p \in Indices, NEW k \in 0 .. (Slots - 1)
    PROVE  Distance(p, Advance(p, k)) = k
<1>1. Advance(p, k) = IF p + k < Slots THEN p + k ELSE p + k - Slots
  BY AdvanceWraps, SlotsAssumption
<1> QED BY <1>1, SlotsAssumption DEF Distance, Indices

\* The slots of the room are not those of the items.
LEMMA RoomApart ==
    ASSUME NEW w \in Indices, NEW r \in Indices,
           NEW i \in 0 .. (Space(w, r) - 1), NEW j \in 0 .. (Distance(r, w) - 1)
    PROVE  Advance(w, i) # Advance(r, j)
BY DistanceSpace, AdvanceWraps, SlotsAssumption DEF Distance, Space, Indices

\* No move is no change.
LEMMA AdvanceZero == ASSUME NEW p \in Indices PROVE Advance(p, 0) = p
BY AdvanceWraps, SlotsAssumption DEF Indices

\* Two moves that together stay within the capacity are one.
LEMMA AdvanceTwice ==
    ASSUME NEW p \in Indices, NEW k \in Nat, NEW i \in Nat, k + i <= Slots
    PROVE  Advance(Advance(p, k), i) = Advance(p, k + i)
<1>1. /\ Advance(p, k) = IF p + k < Slots THEN p + k ELSE p + k - Slots
      /\ Advance(p, k) \in Indices
  BY AdvanceWraps, AdvanceType, SlotsAssumption DEF Indices
<1>2. Advance(Advance(p, k), i) =
         IF Advance(p, k) + i < Slots THEN Advance(p, k) + i ELSE Advance(p, k) + i - Slots
  BY <1>1, AdvanceWraps, SlotsAssumption
<1>3. Advance(p, k + i) = IF p + k + i < Slots THEN p + k + i ELSE p + k + i - Slots
  <2>1. k + i \in 0 .. Slots
    BY SlotsAssumption
  <2>2. Advance(p, k + i) = IF p + (k + i) < Slots THEN p + (k + i) ELSE p + (k + i) - Slots
    BY <2>1, AdvanceWraps
  <2> QED BY <2>2, SlotsAssumption DEF Indices
<1> QED BY <1>1, <1>2, <1>3, SlotsAssumption DEF Indices

-----------------------------------------------------------------------------
(* The inductive invariant.  Its second half is about clients that neither     *)
(* overwrite nor reset: only they are promised a FIFO.                        *)

Places == {"idle", "bump", "zeroWrite", "zeroRead", "loadWrite", "loadRead", "own", "copy",
           "publish", "loadGen", "reserveLoad", "reserveCheck", "checkGen", "checkPos",
           "retire", "room", "dropLoad", "dropSwap"}

Ops == {"none", "write", "overwrite", "read", "peek", "skip", "reserve", "commit", "consume"}

HeldType == [index : -1 .. (Slots - 1), gen : Nat, used : BOOLEAN]

Typed ==
    /\ client \in Clients
    /\ held \in [Sides -> HeldType]
    /\ TypeOK

\* Nothing of a reset or an overwriting write is under way.
Quiet ==
    /\ resetRequested = FALSE
    /\ pc["writer"] \in {"idle", "loadWrite", "loadRead", "own", "copy", "publish", "loadGen",
                         "checkGen", "checkPos", "retire"}
    /\ pc["reader"] \in {"idle", "loadWrite", "loadRead", "own", "copy", "publish",
                         "reserveLoad", "reserveCheck", "loadGen", "checkGen", "checkPos",
                         "retire"}

\* Which calls a side can be in, and when it holds a reservation.
WriterCalls ==
    /\ op["writer"] \in {"none", "write", "reserve", "commit"}
    /\ held["writer"] # NoHold => pc["writer"] \in {"idle", "checkGen", "checkPos", "retire"}
    /\ pc["writer"] \in {"checkGen", "checkPos", "retire"} => held["writer"].used

ReaderCalls ==
    /\ pc["reader"] \in {"loadWrite", "loadRead", "own", "copy", "publish"}
          => op["reader"] \in {"read", "peek", "skip"}
    /\ pc["reader"] = "copy" => op["reader"] # "skip"
    /\ pc["reader"] = "publish" => op["reader"] # "peek"
    /\ held["reader"] # NoHold => pc["reader"] \in {"idle", "checkGen", "checkPos", "retire"}
    /\ pc["reader"] \in {"checkGen", "checkPos", "retire"} => held["reader"].used

\* What the writer was told of the room it may use still holds ...
WriterRoom ==
    /\ pc["writer"] \in {"loadRead", "copy", "publish"} => pos["writer"] = writePos
    /\ pc["writer"] \in {"own", "copy", "publish"}
          => n["writer"] \in 1 .. Space(writePos, readPos)
    /\ held["writer"] # NoHold
          => held["writer"].index = writePos /\ Space(writePos, readPos) >= 1

\* ... and so does what the reader was told of the items.
ReaderItems ==
    /\ pc["reader"] = "loadRead"
          => Distance(readPos, pos["reader"]) <= Distance(readPos, writePos)
    /\ pc["reader"] \in {"copy", "publish", "reserveCheck", "loadGen"}
          => pos["reader"] = readPos
    /\ pc["reader"] \in {"own", "copy", "publish"}
          => n["reader"] \in 1 .. Distance(readPos, writePos)
    /\ pc["reader"] = "loadGen" => Distance(readPos, writePos) >= 1
    /\ held["reader"] # NoHold
          => held["reader"].index = readPos /\ Distance(readPos, writePos) >= 1

Sided == StrictlyOneSided => Quiet /\ WriterCalls /\ ReaderCalls /\ WriterRoom /\ ReaderItems

\* The slots between the positions are the items, and a side that is about to
\* publish has copied them.
WrittenItems ==
    /\ pc["writer"] = "publish" =>
          \A i \in 0 .. (n["writer"] - 1) : buffer[Advance(writePos, i)] = nextItem + i
    /\ held["writer"].used => buffer[writePos] = nextItem

CopiedItems ==
    pc["reader"] = "publish" /\ op["reader"] # "skip" =>
        copied = [i \in 1 .. n["reader"] |-> buffer[Advance(readPos, i - 1)]]

Moved == StrictlyOneSided => WrittenItems /\ CopiedItems

-----------------------------------------------------------------------------
(* Types.                                                                   *)

\* The types hold at the start.
LEMMA TypedInit == Init => Typed
<1> SUFFICES ASSUME Init PROVE Typed
  OBVIOUS
<1>1. 0 \in Indices /\ NoHold \in HeldType
  BY SlotsAssumption DEF Indices, NoHold, HeldType
<1>2. buffer \in [Indices -> Nat] /\ nextItem \in Nat \ {0}
  BY DEF Init
<1>3. held \in [Sides -> HeldType] /\ \A s \in Sides : held[s] = NoHold
  BY <1>1 DEF Init
<1> QED BY <1>1, <1>2, <1>3 DEF Init, Typed, TypeOK

\* Every step keeps them.
LEMMA TypedStep == Typed /\ [Next]_vars => Typed'
<1> SUFFICES ASSUME Typed, [Next]_vars PROVE Typed'
  OBVIOUS
<1> USE DEF Typed, TypeOK
<1>e. ASSUME NEW s \in Sides, NEW o \in Ops PROVE Entry(s, o) \in Places
  BY <1>e DEF Entry, Places, Ops
<1>1. ASSUME NEW s \in Sides, NEW o \in Ops, NEW c \in Nat, Begin(s, o, c) PROVE Typed'
  BY <1>1, <1>e DEF Begin, Taken, Goto, Places, Ops
<1>2. ASSUME NEW o \in client.writes, NEW c \in Count(o), BeginWrite(o, c) PROVE Typed'
  <2>1. o \in Ops /\ c \in Nat
    BY ClientsAssumption, SlotsAssumption DEF ClientType, Ops, Count
  <2> QED BY <2>1, <1>1, <1>2 DEF BeginWrite, Sides
<1>3. ASSUME NEW o \in client.reads, NEW c \in Count(o), BeginRead(o, c) PROVE Typed'
  <2>1. o \in Ops /\ c \in Nat
    BY ClientsAssumption, SlotsAssumption DEF ClientType, Ops, Count
  <2> QED BY <2>1, <1>1, <1>3 DEF BeginRead, Sides
<1>4. ASSUME NEW s \in Sides, BeginRetire(s) PROVE Typed'
  BY <1>4, <1>1 DEF BeginRetire, Ops
<1>5. ASSUME NEW s \in Sides, ResetStep(s) PROVE Typed'
  <2>1. CASE ResetGeneration(s)
    BY <2>1 DEF ResetGeneration, Goto
  <2>2. CASE ResetWritePos(s)
    BY <2>2, SlotsAssumption DEF ResetWritePos, Goto, Indices
  <2>3. CASE ResetReadPos(s)
    <3>0. op[s] \in Ops
      BY DEF Ops
    <3>1. 0 \in Indices /\ Entry(s, op[s]) \in Places
      BY <1>e, <3>0, SlotsAssumption DEF Indices
    <3> QED BY <2>3, <3>1 DEF ResetReadPos, Goto, Places
  <2> QED BY <1>5, <2>1, <2>2, <2>3 DEF ResetStep
<1>6. ASSUME NEW s \in Sides, MoveStep(s) PROVE Typed'
  <2>1. CASE LoadWrite(s)
    BY <2>1 DEF LoadWrite, Goto, ring
  <2>2. CASE LoadRead(s)
    <3>1. Least(count[s], Available(s, pos[s], readPos)) \in Nat
      BY DistanceSpace DEF Least, Available
    <3>2. [index |-> pos[s], gen |-> gen[s], used |-> FALSE] \in HeldType
      BY SlotsAssumption DEF HeldType, Indices
    <3>3. held' \in [Sides -> HeldType]
      BY <2>2, <3>2 DEF LoadRead
    <3>4. \A t \in Sides : held'[t] = NoHold \/ held'[t].index \in Indices
      BY <2>2 DEF LoadRead
    <3> QED BY <2>2, <3>1, <3>3, <3>4 DEF LoadRead, Goto, ring
  <2>3. CASE LoadOwn(s)
    BY <2>3 DEF LoadOwn, Goto, ring
  <2> QED BY <1>6, <2>1, <2>2, <2>3 DEF MoveStep
<1>7. ASSUME NEW s \in Sides, ReserveStep(s) PROVE Typed'
  <2>1. CASE LoadGeneration(s)
    <3>2. [index |-> pos[s], gen |-> generation, used |-> FALSE] \in HeldType
      BY SlotsAssumption DEF HeldType, Indices
    <3>3. held' \in [Sides -> HeldType]
      BY <2>1, <3>2 DEF LoadGeneration
    <3>4. \A t \in Sides : held'[t] = NoHold \/ held'[t].index \in Indices
      BY <2>1 DEF LoadGeneration
    <3> QED BY <2>1, <3>3, <3>4 DEF LoadGeneration, Goto, ring
  <2>2. CASE UseSlot(s)
    BY <2>2 DEF UseSlot, HeldType, Indices, NoHold
  <2> QED BY <1>7, <2>1, <2>2 DEF ReserveStep
<1>8. ASSUME NEW s \in Sides, RetireStep(s) PROVE Typed'
  <2>h. NoHold \in HeldType
    BY SlotsAssumption DEF NoHold, HeldType
  <2>1. CASE CheckGeneration(s)
    BY <2>1, <2>h DEF CheckGeneration, Goto, ring
  <2>2. CASE CheckPosition(s)
    BY <2>2, <2>h DEF CheckPosition, Goto, ring
  <2>3. CASE Retire(s)
    <3>1. Advance(held[s].index, 1) \in Indices
      BY AdvanceType, SlotsAssumption DEF HeldType
    <3> QED BY <2>3, <2>h, <3>1 DEF Retire, Goto
  <2> QED BY <1>8, <2>1, <2>2, <2>3 DEF RetireStep
<1>9. ASSUME WriterStep PROVE Typed'
  <2>1. CASE CopyIn
    <3>1. \A i \in Indices : nextItem + Distance(pos["writer"], i) \in Nat
      BY DistanceSpace, SlotsAssumption DEF Sides
    <3> QED BY <2>1, <3>1 DEF CopyIn, Goto, Sides
  <2>2. CASE PublishWrite
    <3>1. Advance(pos["writer"], n["writer"]) \in Indices
      BY AdvanceType DEF Sides, Indices
    <3> QED BY <2>2, <3>1 DEF PublishWrite, Goto, Sides
  <2>3. CASE Room
    BY <2>3, DistanceSpace DEF Room, Goto, ring, Sides
  <2>4. CASE DropLoad
    BY <2>4 DEF DropLoad, Goto, ring, Sides
  <2>5. CASE DropSwap
    <3>1. Distance(pos["writer"], writePos) \in Nat
      BY DistanceSpace DEF Sides
    <3>2. Least(n["writer"], Distance(pos["writer"], writePos)) \in Nat
          /\ n["writer"] - Least(n["writer"], Distance(pos["writer"], writePos)) \in Nat
      BY <3>1 DEF Least, Sides
    <3>3. Advance(pos["writer"], Least(n["writer"], Distance(pos["writer"], writePos)))
             \in Indices
      BY <3>2, AdvanceType DEF Sides, Indices
    <3> QED BY <2>5, <3>2, <3>3 DEF DropSwap, Goto, Sides
  <2> QED BY <1>9, <2>1, <2>2, <2>3, <2>4, <2>5 DEF WriterStep
<1>10. ASSUME ReaderStep PROVE Typed'
  <2>1. CASE CopyOut
    BY <2>1 DEF CopyOut, Goto, ring, Sides
  <2>2. CASE PublishRead
    <3>1. Advance(pos["reader"], n["reader"]) \in Indices
      BY AdvanceType DEF Sides, Indices
    <3> QED BY <2>2, <3>1 DEF PublishRead, Goto, Sides
  <2>3. CASE ReserveLoad
    BY <2>3 DEF ReserveLoad, Goto, ring, Sides
  <2>4. CASE ReserveCheck
    BY <2>4 DEF ReserveCheck, Goto, ring, Sides
  <2> QED BY <1>10, <2>1, <2>2, <2>3, <2>4 DEF ReaderStep
<1>11. ASSUME NEW s \in Sides, RequestReset(s) PROVE Typed'
  BY <1>11 DEF RequestReset, calls
<1>12. CASE UNCHANGED vars
  BY <1>12 DEF vars, ring, calls
<1> QED
  BY <1>2, <1>3, <1>4, <1>5, <1>6, <1>7, <1>8, <1>9, <1>10, <1>11, <1>12 DEF Next

-----------------------------------------------------------------------------
(* What each side knows of the other.                                        *)

Known == Quiet /\ WriterCalls /\ ReaderCalls /\ WriterRoom /\ ReaderItems

\* Who uses the ring, and how, does not change.
LEMMA ClientStays == [Next]_vars => UNCHANGED client
BY DEF vars, Next, BeginWrite, BeginRead, BeginRetire, Begin, ResetStep, ResetGeneration,
       ResetWritePos, ResetReadPos, MoveStep, LoadWrite, LoadRead, LoadOwn, ReserveStep,
       LoadGeneration, UseSlot, RetireStep, CheckGeneration, CheckPosition, Retire,
       WriterStep, CopyIn, PublishWrite, Room, DropLoad, DropSwap, ReaderStep, CopyOut,
       PublishRead, ReserveLoad, ReserveCheck, RequestReset

\* Nobody knows anything at the start.
LEMMA SidedInit == Init => Sided
BY DEF Init, Sided, Quiet, WriterCalls, ReaderCalls, WriterRoom, ReaderItems, Sides, NoHold

\* The writer's own steps, but those that move its position.
LEMMA WriterKnows ==
    ASSUME Typed, Typed', StrictlyOneSided, Known,
           \/ \E o \in client.writes : \E c \in Count(o) : BeginWrite(o, c)
           \/ BeginRetire("writer") \/ MoveStep("writer") \/ ReserveStep("writer")
           \/ CheckGeneration("writer") \/ CheckPosition("writer")
           \/ CopyIn
    PROVE  Known'
<1> USE DEF Known, Typed, TypeOK, Sides
<1>1. ASSUME NEW o \in client.writes, NEW c \in Count(o), BeginWrite(o, c) PROVE Known'
  <2>1. o \in {"write", "reserve"}
    BY ClientsAssumption DEF ClientType, StrictlyOneSided
  <2> QED
    BY <1>1, <2>1 DEF BeginWrite, Begin, Taken, Entry, Goto, Quiet, WriterCalls,
                      ReaderCalls, WriterRoom, ReaderItems
<1>2. CASE BeginRetire("writer")
  BY <1>2 DEF BeginRetire, Begin, Taken, Entry, Goto, Quiet, WriterCalls,
              ReaderCalls, WriterRoom, ReaderItems
<1>3. CASE LoadWrite("writer")
  BY <1>3 DEF LoadWrite, ring, Goto, Quiet, WriterCalls, ReaderCalls, WriterRoom, ReaderItems
<1>4. CASE LoadRead("writer")
  <2>1. /\ Space(writePos, readPos) \in Nat
        /\ pos["writer"] = writePos
    BY <1>4, DistanceSpace DEF LoadRead, WriterRoom
  <2>2. LET k == Least(count["writer"], Available("writer", pos["writer"], readPos))
        IN  k = 0 \/ k \in 1 .. Space(writePos, readPos)
    BY <2>1 DEF Least, Available
  <2> QED
    BY <1>4, <2>1, <2>2 DEF LoadRead, ring, Goto, Quiet, WriterCalls, ReaderCalls,
                            WriterRoom, ReaderItems, NoHold
<1>5. CASE LoadOwn("writer")
  BY <1>5 DEF LoadOwn, ring, Goto, Quiet, WriterCalls, ReaderCalls, WriterRoom, ReaderItems
<1>6. CASE LoadGeneration("writer")
  BY <1>6 DEF LoadGeneration, ring, Goto, Quiet, WriterCalls, ReaderCalls, WriterRoom, ReaderItems
<1>7. CASE UseSlot("writer")
  BY <1>7 DEF UseSlot, Quiet, WriterCalls, ReaderCalls, WriterRoom, ReaderItems, HeldType, NoHold
<1>8. CASE CheckGeneration("writer") \/ CheckPosition("writer")
  BY <1>8 DEF CheckGeneration, CheckPosition, ring, Goto, Quiet, WriterCalls, ReaderCalls,
              WriterRoom, ReaderItems, NoHold
<1>9. CASE CopyIn
  BY <1>9 DEF CopyIn, Goto, Quiet, WriterCalls, ReaderCalls, WriterRoom, ReaderItems
<1> QED
  BY <1>1, <1>2, <1>3, <1>4, <1>5, <1>6, <1>7, <1>8, <1>9 DEF MoveStep, ReserveStep

\* Its position moves over room it has, which leaves the reader at least as much
\* as it knew of.
LEMMA WriterPublishes ==
    ASSUME Typed, Typed', StrictlyOneSided, Known, PublishWrite \/ Retire("writer")
    PROVE  Known'
<1> USE DEF Known, Typed, TypeOK, Sides
<1> DEFINE k == IF pc["writer"] = "publish" THEN n["writer"] ELSE 1
<1>1. /\ k \in 0 .. Space(writePos, readPos)
      /\ writePos' = Advance(writePos, k) /\ readPos' = readPos
  <2>1. CASE PublishWrite
    BY <2>1, DistanceSpace DEF PublishWrite, WriterRoom
  <2>2. CASE Retire("writer")
    BY <2>2, DistanceSpace DEF Retire, WriterRoom, WriterCalls, NoHold
  <2> QED BY <2>1, <2>2
<1>2. Distance(readPos', writePos') = Distance(readPos, writePos) + k
  BY <1>1, WriterMoves
<1>3. pc' = [pc EXCEPT !["writer"] = "idle"] /\ held'["writer"] = NoHold
      /\ held'["reader"] = held["reader"] /\ UNCHANGED <<op, pos, n, resetRequested>>
  BY DEF PublishWrite, Retire, Goto, WriterCalls
<1>4. Distance(readPos, writePos) \in Nat /\ k \in Nat
  BY <1>1, DistanceSpace
<1>5. WriterRoom' /\ Quiet' /\ WriterCalls' /\ ReaderCalls'
  BY <1>3 DEF WriterRoom, Quiet, WriterCalls, ReaderCalls
<1>6. Distance(readPos, pos["reader"]) \in Nat
  BY DistanceSpace
<1>7. ReaderItems'
  BY <1>1, <1>2, <1>3, <1>4, <1>6 DEF ReaderItems
<1> QED BY <1>5, <1>7

\* The reader's own steps, but those that move its position.
LEMMA ReaderKnows ==
    ASSUME Typed, Typed', StrictlyOneSided, Known,
           \/ \E o \in client.reads : \E c \in Count(o) : BeginRead(o, c)
           \/ BeginRetire("reader") \/ MoveStep("reader") \/ ReserveStep("reader")
           \/ CheckGeneration("reader") \/ CheckPosition("reader")
           \/ CopyOut \/ ReserveLoad \/ ReserveCheck
    PROVE  Known'
<1> USE DEF Known, Typed, TypeOK, Sides
<1>1. ASSUME NEW o \in client.reads, NEW c \in Count(o), BeginRead(o, c) PROVE Known'
  <2>1. o \in {"read", "peek", "skip", "reserve"}
    BY ClientsAssumption DEF ClientType
  <2> QED
    BY <1>1, <2>1 DEF BeginRead, Begin, Taken, Entry, Goto, Quiet, WriterCalls,
                      ReaderCalls, WriterRoom, ReaderItems
<1>2. CASE BeginRetire("reader")
  BY <1>2 DEF BeginRetire, Begin, Taken, Entry, Goto, Quiet, WriterCalls,
              ReaderCalls, WriterRoom, ReaderItems
<1>3. CASE LoadWrite("reader")
  BY <1>3, DistanceSpace
     DEF LoadWrite, ring, Goto, Quiet, WriterCalls, ReaderCalls, WriterRoom, ReaderItems
<1>4. CASE LoadRead("reader")
  <2>1. /\ Distance(readPos, writePos) \in Nat /\ Distance(readPos, pos["reader"]) \in Nat
        /\ Distance(readPos, pos["reader"]) <= Distance(readPos, writePos)
    BY <1>4, DistanceSpace DEF LoadRead, ReaderItems
  <2>2. LET k == Least(count["reader"], Available("reader", pos["reader"], readPos))
        IN  k = 0 \/ k \in 1 .. Distance(readPos, writePos)
    BY <2>1 DEF Least, Available
  <2>3. op["reader"] # "reserve"
    BY <1>4 DEF LoadRead, ReaderCalls
  <2> QED
    BY <1>4, <2>1, <2>2, <2>3 DEF LoadRead, ring, Goto, Quiet, WriterCalls, ReaderCalls,
                                  WriterRoom, ReaderItems, NoHold
<1>5. CASE LoadOwn("reader")
  BY <1>5 DEF LoadOwn, ring, Goto, Quiet, WriterCalls, ReaderCalls, WriterRoom, ReaderItems
<1>6. CASE LoadGeneration("reader")
  BY <1>6 DEF LoadGeneration, ring, Goto, Quiet, WriterCalls, ReaderCalls, WriterRoom,
              ReaderItems, NoHold
<1>7. CASE UseSlot("reader")
  BY <1>7 DEF UseSlot, Quiet, WriterCalls, ReaderCalls, WriterRoom, ReaderItems, HeldType, NoHold
<1>8. CASE CheckGeneration("reader") \/ CheckPosition("reader")
  BY <1>8 DEF CheckGeneration, CheckPosition, ring, Goto, Quiet, WriterCalls, ReaderCalls,
              WriterRoom, ReaderItems, NoHold
<1>9. CASE CopyOut
  BY <1>9 DEF CopyOut, ring, Goto, Quiet, WriterCalls, ReaderCalls, WriterRoom, ReaderItems
<1>10. CASE ReserveLoad
  BY <1>10 DEF ReserveLoad, ring, Goto, Quiet, WriterCalls, ReaderCalls, WriterRoom, ReaderItems
<1>11. CASE ReserveCheck
  <2>1. pos["reader"] = writePos \/ Distance(readPos, writePos) >= 1
    BY <1>11, DistanceSpace DEF ReserveCheck, ReaderItems
  <2> QED
    BY <1>11, <2>1 DEF ReserveCheck, ring, Goto, Quiet, WriterCalls, ReaderCalls, WriterRoom,
                       ReaderItems
<1> QED
  BY <1>1, <1>2, <1>3, <1>4, <1>5, <1>6, <1>7, <1>8, <1>9, <1>10, <1>11
     DEF MoveStep, ReserveStep

\* Its position moves over items, which leaves the writer at least as much room
\* as it knew of.
LEMMA ReaderPublishes ==
    ASSUME Typed, Typed', StrictlyOneSided, Known, PublishRead \/ Retire("reader")
    PROVE  Known'
<1> USE DEF Known, Typed, TypeOK, Sides
<1> DEFINE k == IF pc["reader"] = "publish" THEN n["reader"] ELSE 1
<1>1. /\ k \in 0 .. Distance(readPos, writePos)
      /\ readPos' = Advance(readPos, k) /\ writePos' = writePos
  <2>1. CASE PublishRead
    BY <2>1, DistanceSpace DEF PublishRead, ReaderItems
  <2>2. CASE Retire("reader")
    BY <2>2, DistanceSpace DEF Retire, ReaderItems, ReaderCalls, NoHold
  <2> QED BY <2>1, <2>2
<1>2. Space(writePos', readPos') = Space(writePos, readPos) + k
  BY <1>1, ReaderMoves
<1>3. pc' = [pc EXCEPT !["reader"] = "idle"] /\ held'["reader"] = NoHold
      /\ held'["writer"] = held["writer"] /\ UNCHANGED <<op, pos, n, resetRequested>>
  BY DEF PublishRead, Retire, Goto, ReaderCalls
<1>4. Space(writePos, readPos) \in Nat /\ k \in Nat
  BY <1>1, DistanceSpace
<1>5. ReaderItems' /\ Quiet' /\ WriterCalls' /\ ReaderCalls'
  BY <1>3 DEF ReaderItems, Quiet, WriterCalls, ReaderCalls
<1>6. WriterRoom'
  BY <1>1, <1>2, <1>3, <1>4 DEF WriterRoom
<1> QED BY <1>5, <1>6

\* Every step keeps what the sides know.
LEMMA SidedStep == Typed /\ Sided /\ [Next]_vars => Sided'
<1> SUFFICES ASSUME Typed, Sided, [Next]_vars, StrictlyOneSided' PROVE Known'
  BY DEF Sided, Known
<1>1. StrictlyOneSided /\ Known
  BY ClientStays DEF StrictlyOneSided, Sided, Known
<1>2. Typed'
  BY TypedStep
<1> USE <1>1, <1>2
<1>3. ASSUME NEW s \in Sides, ResetStep(s) PROVE FALSE
  BY <1>3 DEF Known, Quiet, Sides, ResetStep, ResetGeneration, ResetWritePos, ResetReadPos
<1>4. ASSUME NEW s \in Sides, RequestReset(s) PROVE FALSE
  BY <1>4 DEF StrictlyOneSided, RequestReset
<1>5. ASSUME Room \/ DropLoad \/ DropSwap PROVE FALSE
  BY <1>5 DEF Known, Quiet, Room, DropLoad, DropSwap
<1>6. CASE \E o \in client.writes : \E c \in Count(o) : BeginWrite(o, c)
  BY <1>6, WriterKnows
<1>7. CASE \E o \in client.reads : \E c \in Count(o) : BeginRead(o, c)
  BY <1>7, ReaderKnows
<1>8. CASE BeginRetire("writer") \/ MoveStep("writer") \/ ReserveStep("writer")
           \/ RetireStep("writer")
  BY <1>8, WriterKnows, WriterPublishes DEF RetireStep
<1>9. CASE BeginRetire("reader") \/ MoveStep("reader") \/ ReserveStep("reader")
           \/ RetireStep("reader")
  BY <1>9, ReaderKnows, ReaderPublishes DEF RetireStep
<1>10. CASE WriterStep
  BY <1>10, <1>5, WriterKnows, WriterPublishes DEF WriterStep
<1>11. CASE ReaderStep
  BY <1>11, ReaderKnows, ReaderPublishes DEF ReaderStep
<1>12. CASE UNCHANGED vars
  BY <1>12 DEF vars, ring, calls, Known, Quiet, WriterCalls, ReaderCalls, WriterRoom,
               ReaderItems
<1> QED
  BY <1>3, <1>4, <1>6, <1>7, <1>8, <1>9, <1>10, <1>11, <1>12 DEF Next, Sides

\* Positions stay inside the storage, however the ring is reset, overwritten and
\* reserved: for every capacity and client.
THEOREM TypeCorrect == Spec => []TypeOK
<1>1. Typed => TypeOK
  BY DEF Typed
<1> QED BY TypedInit, TypedStep, <1>1, PTL DEF Spec

\* Reader and writer never use a slot at the same time, neither by copy nor by
\* reservation, in a ring of any capacity that is not reset or overwritten.
THEOREM SlotsAreNotShared == Spec => []NoRace
<1>1. Typed /\ Sided => NoRace
  <2> SUFFICES ASSUME Typed, Sided, StrictlyOneSided,
                      NEW x \in InUse("reader"), x \in InUse("writer")
               PROVE  FALSE
    BY DEF NoRace
  <2> USE DEF Typed, TypeOK, Sided, Sides
  <2>d. Distance(readPos, writePos) \in Nat /\ Space(writePos, readPos) \in Nat
    BY DistanceSpace
  <2>1. PICK j \in 0 .. (Distance(readPos, writePos) - 1) : x = Advance(readPos, j)
    <3>1. CASE pc["reader"] = "copy" /\ x \in Chunk(pos["reader"], n["reader"])
      BY <3>1, <2>d DEF ReaderItems, Chunk
    <3>2. CASE held["reader"] # NoHold /\ x = held["reader"].index
      BY <3>2, <2>d, AdvanceZero DEF ReaderItems
    <3> QED BY <3>1, <3>2 DEF InUse
  <2>2. PICK i \in 0 .. (Space(writePos, readPos) - 1) : x = Advance(writePos, i)
    <3>1. CASE pc["writer"] = "copy" /\ x \in Chunk(pos["writer"], n["writer"])
      BY <3>1, <2>d DEF WriterRoom, Chunk
    <3>2. CASE held["writer"] # NoHold /\ x = held["writer"].index
      BY <3>2, <2>d, AdvanceZero DEF WriterRoom
    <3> QED BY <3>1, <3>2 DEF InUse
  <2> QED BY <2>1, <2>2, RoomApart
<1> QED BY TypedInit, TypedStep, SidedInit, SidedStep, <1>1, PTL DEF Spec

-----------------------------------------------------------------------------
(* Resets.                                                                  *)

Bumps(s) == IF pc[s] = "bump" THEN 1 ELSE 0

\* ResetOnce, with the count written out.
ResetBalance ==
    /\ resets \in Nat
    /\ generation + Bumps("writer") + Bumps("reader") + (IF resetRequested THEN 1 ELSE 0)
          <= resets

\* The sides that apply a reset, counted.
LEMMA BumpCount ==
    Cardinality({s \in Sides : pc[s] = "bump"}) = Bumps("writer") + Bumps("reader")
<1> DEFINE S == {s \in Sides : pc[s] = "bump"}
<1>1. CASE pc["writer"] = "bump" /\ pc["reader"] = "bump"
  <2>1. S = {"reader"} \cup {"writer"} /\ "writer" \notin {"reader"}
    BY <1>1 DEF Sides
  <2>2. IsFiniteSet({"reader"}) /\ Cardinality({"reader"}) = 1
    BY FS_Singleton
  <2>3. Cardinality(S) = 1 + 1
    BY <2>1, <2>2, FS_AddElement
  <2> QED BY <1>1, <2>3 DEF Bumps
<1>2. CASE pc["writer"] = "bump" /\ pc["reader"] # "bump"
  <2>1. S = {"writer"}
    BY <1>2 DEF Sides
  <2>2. Cardinality(S) = 1
    BY <2>1, FS_Singleton
  <2> QED BY <1>2, <2>2 DEF Bumps
<1>3. CASE pc["writer"] # "bump" /\ pc["reader"] = "bump"
  <2>1. S = {"reader"}
    BY <1>3 DEF Sides
  <2>2. Cardinality(S) = 1
    BY <2>1, FS_Singleton
  <2> QED BY <1>3, <2>2 DEF Bumps
<1>4. CASE pc["writer"] # "bump" /\ pc["reader"] # "bump"
  <2>1. S = {}
    BY <1>4 DEF Sides
  <2> QED BY <1>4, <2>1, FS_EmptySet DEF Bumps
<1> QED BY <1>1, <1>2, <1>3, <1>4

\* No call starts at the step that bumps the generation, but by taking a request.
LEMMA EntryIsNoBump == ASSUME NEW s, NEW o PROVE Entry(s, o) # "bump"
BY DEF Entry

\* Every step keeps the balance.
LEMMA BalanceStep == Typed /\ ResetBalance /\ [Next]_vars => ResetBalance'
<1> SUFFICES ASSUME Typed, ResetBalance, [Next]_vars PROVE ResetBalance'
  OBVIOUS
<1> USE DEF Typed, TypeOK, ResetBalance, Bumps, Sides, Goto, ring
<1>1. ASSUME NEW s \in Sides, NEW o, NEW c, Begin(s, o, c) PROVE ResetBalance'
  BY <1>1, EntryIsNoBump DEF Begin, Taken
<1>2. CASE \E o \in client.writes : \E c \in Count(o) : BeginWrite(o, c)
  BY <1>1, <1>2 DEF BeginWrite
<1>3. CASE \E o \in client.reads : \E c \in Count(o) : BeginRead(o, c)
  BY <1>1, <1>3 DEF BeginRead
<1>4. ASSUME NEW s \in Sides, BeginRetire(s) PROVE ResetBalance'
  BY <1>1, <1>4 DEF BeginRetire
<1>5. ASSUME NEW s \in Sides, ResetStep(s) PROVE ResetBalance'
  BY <1>5, EntryIsNoBump DEF ResetStep, ResetGeneration, ResetWritePos, ResetReadPos
<1>6. ASSUME NEW s \in Sides, MoveStep(s) PROVE ResetBalance'
  BY <1>6 DEF MoveStep, LoadWrite, LoadRead, LoadOwn
<1>7. ASSUME NEW s \in Sides, ReserveStep(s) PROVE ResetBalance'
  BY <1>7 DEF ReserveStep, LoadGeneration, UseSlot
<1>8. ASSUME NEW s \in Sides, RetireStep(s) PROVE ResetBalance'
  BY <1>8 DEF RetireStep, CheckGeneration, CheckPosition, Retire
<1>9. CASE WriterStep
  BY <1>9 DEF WriterStep, CopyIn, PublishWrite, Room, DropLoad, DropSwap
<1>10. CASE ReaderStep
  <2>1. CASE CopyOut BY <2>1 DEF CopyOut
  <2>2. CASE PublishRead BY <2>2 DEF PublishRead
  <2>3. CASE ReserveLoad \/ ReserveCheck BY <2>3 DEF ReserveLoad, ReserveCheck
  <2> QED BY <1>10, <2>1, <2>2, <2>3 DEF ReaderStep
<1>11. ASSUME NEW s \in Sides, RequestReset(s) PROVE ResetBalance'
  BY <1>11 DEF RequestReset, calls
<1>12. CASE UNCHANGED vars
  BY <1>12 DEF vars, calls
<1> QED
  BY <1>2, <1>3, <1>4, <1>5, <1>6, <1>7, <1>8, <1>9, <1>10, <1>11, <1>12 DEF Next

\* However many calls race for it, a request of a reset is applied once, by one
\* side.
THEOREM ResetsAreApplied == Spec => []ResetOnce
<1>1. Init => ResetBalance
  BY DEF Init, ResetBalance, Bumps, Sides
<1>2. Typed /\ ResetBalance => ResetOnce
  BY BumpCount DEF Typed, TypeOK, ResetBalance, Bumps, ResetOnce
<1> QED BY TypedInit, TypedStep, BalanceStep, <1>1, <1>2, PTL DEF Spec

-----------------------------------------------------------------------------
(* The ring implements the bounded FIFO.                                     *)

\* Nothing is copied at the start.
LEMMA MovedInit == Init => Moved
BY DEF Init, Moved, WrittenItems, CopiedItems, Sides, NoHold

\* A copy into the room, or into a reserved slot, leaves the items alone.
LEMMA ItemsKept ==
    ASSUME Typed, Known, CopyIn \/ UseSlot("writer"),
           NEW j \in 0 .. (Distance(readPos, writePos) - 1)
    PROVE  buffer'[Advance(readPos, j)] = buffer[Advance(readPos, j)]
<1> USE DEF Typed, TypeOK, Known, Sides
<1>1. Advance(readPos, j) \in Indices /\ Space(writePos, readPos) \in Nat
  BY AdvanceType, DistanceSpace DEF Indices
<1>2. CASE CopyIn
  <2>1. Advance(readPos, j) \notin Chunk(writePos, n["writer"])
    BY <1>1, <1>2, RoomApart DEF Chunk, CopyIn, WriterRoom
  <2> QED BY <1>1, <1>2, <2>1 DEF CopyIn, WriterRoom
<1>3. CASE UseSlot("writer")
  <2>1. Advance(readPos, j) # held["writer"].index
    BY <1>1, <1>3, RoomApart, AdvanceZero DEF UseSlot, WriterRoom
  <2> QED BY <1>1, <1>3, <2>1 DEF UseSlot
<1> QED BY <1>2, <1>3

\* What a side has copied stays so until it publishes.
LEMMA MovedStep == Typed /\ Sided /\ Moved /\ [Next]_vars => Moved'
<1> SUFFICES ASSUME Typed, Sided, Moved, [Next]_vars, StrictlyOneSided'
             PROVE  (WrittenItems /\ CopiedItems)'
  BY DEF Moved
<1>1. /\ StrictlyOneSided /\ Known /\ Typed' /\ Known'
      /\ WrittenItems /\ CopiedItems
  BY ClientStays, TypedStep, SidedStep DEF StrictlyOneSided, Sided, Known, Moved
<1> USE <1>1 DEF Typed, TypeOK, Sides
<1>3. ASSUME NEW s \in Sides, ResetStep(s) PROVE FALSE
  BY <1>3 DEF Known, Quiet, ResetStep, ResetGeneration, ResetWritePos, ResetReadPos
<1>4. ASSUME NEW s \in Sides, RequestReset(s) PROVE FALSE
  BY <1>4 DEF StrictlyOneSided, RequestReset
<1>5. ASSUME Room \/ DropLoad \/ DropSwap PROVE FALSE
  BY <1>5 DEF Known, Quiet, Room, DropLoad, DropSwap
<1>6. ASSUME NEW s \in Sides, NEW o, NEW c, Begin(s, o, c)
      PROVE  (WrittenItems /\ CopiedItems)'
  <2>1. Entry(s, o) # "publish"
    BY DEF Entry
  <2> QED BY <1>6, <2>1 DEF Begin, Taken, Goto, WrittenItems, CopiedItems
<1>7. CASE \E o \in client.writes : \E c \in Count(o) : BeginWrite(o, c)
  BY <1>6, <1>7 DEF BeginWrite
<1>8. CASE \E o \in client.reads : \E c \in Count(o) : BeginRead(o, c)
  BY <1>6, <1>8 DEF BeginRead
<1>9. ASSUME NEW s \in Sides, BeginRetire(s) PROVE (WrittenItems /\ CopiedItems)'
  BY <1>6, <1>9 DEF BeginRetire
<1>10. ASSUME NEW s \in Sides, MoveStep(s) PROVE (WrittenItems /\ CopiedItems)'
  <2>1. CASE LoadWrite(s)
    BY <2>1 DEF LoadWrite, ring, Goto, WrittenItems, CopiedItems
  <2>2. CASE LoadRead(s)
    BY <2>2 DEF LoadRead, ring, Goto, WrittenItems, CopiedItems, NoHold
  <2>3. CASE LoadOwn(s)
    BY <2>3 DEF LoadOwn, ring, Goto, WrittenItems, CopiedItems, Known, WriterCalls, Quiet
  <2> QED BY <1>10, <2>1, <2>2, <2>3 DEF MoveStep
<1>11. ASSUME NEW s \in Sides, LoadGeneration(s) PROVE (WrittenItems /\ CopiedItems)'
  BY <1>11 DEF LoadGeneration, ring, Goto, WrittenItems, CopiedItems
<1>12. CASE UseSlot("writer")
  <2>1. WrittenItems'
    BY <1>12 DEF UseSlot, WrittenItems, Known, WriterRoom, HeldType
  <2>2. CopiedItems'
    <3>1. CASE pc["reader"] = "publish" /\ op["reader"] # "skip"
      <4>1. n["reader"] \in 1 .. Distance(readPos, writePos)
        BY <3>1 DEF Known, ReaderItems
      <4>2. \A i \in 1 .. n["reader"] : i - 1 \in 0 .. (Distance(readPos, writePos) - 1)
        BY <4>1, DistanceSpace
      <4>3. \A i \in 1 .. n["reader"] :
               buffer'[Advance(readPos, i - 1)] = buffer[Advance(readPos, i - 1)]
        BY <1>12, <4>2, ItemsKept
      <4>4. /\ copied' = copied /\ readPos' = readPos /\ n' = n
        BY <1>12 DEF UseSlot
      <4>5. copied = [i \in 1 .. n["reader"] |-> buffer[Advance(readPos, i - 1)]]
        BY <3>1 DEF CopiedItems
      <4>6. copied' = [i \in 1 .. n'["reader"] |-> buffer'[Advance(readPos', i - 1)]]
        BY <4>3, <4>4, <4>5
      <4> QED BY <4>6 DEF CopiedItems
    <3> QED BY <1>12, <3>1 DEF UseSlot, CopiedItems
  <2> QED BY <2>1, <2>2
<1>13. CASE UseSlot("reader")
  BY <1>13 DEF UseSlot, WrittenItems, CopiedItems
<1>14. ASSUME NEW s \in Sides, CheckGeneration(s) \/ CheckPosition(s)
       PROVE  (WrittenItems /\ CopiedItems)'
  <2>1. CASE CheckGeneration(s)
    BY <2>1 DEF CheckGeneration, ring, Goto, WrittenItems, CopiedItems, NoHold
  <2>2. CASE CheckPosition(s)
    BY <2>2 DEF CheckPosition, ring, Goto, WrittenItems, CopiedItems, NoHold
  <2> QED BY <1>14, <2>1, <2>2
<1>15. CASE Retire("writer")
  BY <1>15 DEF Retire, Goto, WrittenItems, CopiedItems, NoHold
<1>16. CASE Retire("reader")
  BY <1>16 DEF Retire, Goto, WrittenItems, CopiedItems, NoHold
<1>17. CASE CopyIn
  <2>1. WrittenItems'
    <3>1. n["writer"] \in 1 .. (Slots - 1) /\ pos["writer"] = writePos
      <4>1. Space(writePos, readPos) \in 0 .. (Slots - 1)
        BY DistanceSpace
      <4>2. pc["writer"] = "copy"
        BY <1>17 DEF CopyIn
      <4>3. n["writer"] \in 1 .. Space(writePos, readPos) /\ pos["writer"] = writePos
        BY <4>2 DEF Known, WriterRoom
      <4> QED BY <4>1, <4>3, SlotsAssumption
    <3>2. ASSUME NEW i \in 0 .. (n["writer"] - 1)
          PROVE  buffer'[Advance(writePos, i)] = nextItem + i
      <4>0. Advance(writePos, i) \in Chunk(writePos, n["writer"])
        BY <3>1 DEF Chunk
      <4>1. Advance(writePos, i) \in Indices
        BY <3>1, AdvanceType DEF Indices
      <4>2. Distance(writePos, Advance(writePos, i)) = i
        BY <3>1, DistanceAdvance, SlotsAssumption
      <4> QED BY <1>17, <3>1, <4>0, <4>1, <4>2 DEF CopyIn
    <3>3. ~held["writer"].used
      BY <1>17 DEF CopyIn, Known, WriterCalls, NoHold
    <3> QED BY <1>17, <3>2, <3>3 DEF CopyIn, WrittenItems
  <2>2. CopiedItems'
    <3>1. CASE pc["reader"] = "publish" /\ op["reader"] # "skip"
      <4>1. n["reader"] \in 1 .. Distance(readPos, writePos)
        BY <3>1 DEF Known, ReaderItems
      <4>2. \A i \in 1 .. n["reader"] : i - 1 \in 0 .. (Distance(readPos, writePos) - 1)
        BY <4>1, DistanceSpace
      <4>3. \A i \in 1 .. n["reader"] :
               buffer'[Advance(readPos, i - 1)] = buffer[Advance(readPos, i - 1)]
        BY <1>17, <4>2, ItemsKept
      <4> QED BY <1>17, <3>1, <4>3 DEF CopyIn, Goto, CopiedItems
    <3> QED BY <1>17, <3>1 DEF CopyIn, Goto, CopiedItems
  <2> QED BY <2>1, <2>2
<1>18. CASE PublishWrite
  BY <1>18 DEF PublishWrite, Goto, WrittenItems, CopiedItems, Known, WriterCalls, NoHold
<1>19. CASE CopyOut
  BY <1>19 DEF CopyOut, ring, Goto, WrittenItems, CopiedItems, Known, ReaderItems
<1>20. CASE PublishRead
  BY <1>20 DEF PublishRead, Goto, WrittenItems, CopiedItems
<1>21. CASE ReserveLoad \/ ReserveCheck
  BY <1>21 DEF ReserveLoad, ReserveCheck, ring, Goto, WrittenItems, CopiedItems
<1>22. CASE UNCHANGED vars
  BY <1>22 DEF vars, ring, calls, WrittenItems, CopiedItems
<1> QED
  BY <1>3, <1>4, <1>5, <1>7, <1>8, <1>9, <1>10, <1>11, <1>12, <1>13, <1>14, <1>15, <1>16,
     <1>17, <1>18, <1>19, <1>20, <1>21, <1>22
     DEF Next, WriterStep, ReaderStep, ReserveStep, RetireStep

\* The items between two positions are a sequence of their number ...
Items(b, r, w) == [i \in 1 .. Distance(r, w) |-> b[Advance(r, i - 1)]]

LEMMA ItemsAreSeq ==
    ASSUME NEW b \in [Indices -> Nat], NEW r \in Indices, NEW w \in Indices
    PROVE  /\ Items(b, r, w) \in Seq(Nat)
           /\ Len(Items(b, r, w)) = Distance(r, w)
           /\ \A i \in 1 .. Distance(r, w) : Items(b, r, w)[i] = b[Advance(r, i - 1)]
<1>1. Distance(r, w) \in Nat
  BY DistanceSpace, SlotsAssumption
<1>2. ASSUME NEW i \in 1 .. Distance(r, w) PROVE b[Advance(r, i - 1)] \in Nat
  <2>1. r \in Int /\ i - 1 \in Int
    BY <1>1 DEF Indices
  <2>2. Advance(r, i - 1) \in Indices
    BY <2>1, AdvanceType
  <2> QED BY <2>2
<1>3. Items(b, r, w) \in [1 .. Distance(r, w) -> Nat]
  BY <1>2 DEF Items
<1>4. Items(b, r, w) \in Seq(Nat)
  BY <1>1, <1>3, SeqDef
<1>5. DOMAIN Items(b, r, w) = 1 .. Distance(r, w)
  BY DEF Items
<1>6. Len(Items(b, r, w)) = Distance(r, w)
  BY <1>1, <1>4, <1>5, LenProperties
<1> QED BY <1>4, <1>6 DEF Items

\* ... which is what the ring holds.
LEMMA ContentIsSeq ==
    ASSUME Typed
    PROVE  /\ Content \in Seq(Nat)
           /\ Len(Content) = Distance(readPos, writePos)
           /\ Distance(readPos, writePos) \in 0 .. (Slots - 1)
           /\ \A i \in 1 .. Distance(readPos, writePos) :
                 Content[i] = buffer[Advance(readPos, i - 1)]
<1>1. Content = Items(buffer, readPos, writePos)
  BY DEF Content, Items
<1>2. buffer \in [Indices -> Nat] /\ readPos \in Indices /\ writePos \in Indices
  BY DEF Typed, TypeOK
<1>3. Distance(readPos, writePos) \in 0 .. (Slots - 1)
  BY <1>2, DistanceSpace
<1>4. /\ Items(buffer, readPos, writePos) \in Seq(Nat)
      /\ Len(Items(buffer, readPos, writePos)) = Distance(readPos, writePos)
      /\ \A i \in 1 .. Distance(readPos, writePos) :
            Items(buffer, readPos, writePos)[i] = buffer[Advance(readPos, i - 1)]
  BY <1>2, ItemsAreSeq
<1> QED BY <1>1, <1>3, <1>4

\* What is handed out from the read position on is the front of the content.
LEMMA HandedOut ==
    ASSUME Typed, NEW k \in 1 .. Distance(readPos, writePos)
    PROVE  [i \in 1 .. k |-> buffer[Advance(readPos, i - 1)]] = SubSeq(Content, 1, k)
<1> DEFINE got == [i \in 1 .. k |-> buffer[Advance(readPos, i - 1)]]
<1>1. /\ k \in Nat \ {0} /\ k <= Len(Content)
      /\ \A i \in 1 .. k : got[i] = Content[i] /\ Content[i] \in Nat
  BY ContentIsSeq
<1>2. got \in Seq(Nat) /\ Len(got) = k
  <2>1. \A i \in 1 .. k : buffer[Advance(readPos, i - 1)] \in Nat
    BY <1>1
  <2> QED BY <1>1, <2>1
<1>3. /\ SubSeq(Content, 1, k) \in Seq(Nat) /\ Len(SubSeq(Content, 1, k)) = k
      /\ \A i \in 1 .. k : SubSeq(Content, 1, k)[i] = Content[i]
  BY <1>1, SubSeqProperties
<1> HIDE DEF got
<1>4. got = SubSeq(Content, 1, k)
  BY <1>1, <1>2, <1>3, SeqEqual
<1> QED BY <1>4 DEF got

\* A move of the reader drops the front of the content.
LEMMA ReaderDrops ==
    ASSUME Typed, Typed', NEW k \in 1 .. Distance(readPos, writePos),
           readPos' = Advance(readPos, k), UNCHANGED <<writePos, buffer>>
    PROVE  Content' = SubSeq(Content, k + 1, Len(Content))
<1>0. buffer \in [Indices -> Nat] /\ readPos \in Indices /\ writePos \in Indices
  BY DEF Typed, TypeOK
<1> DEFINE d == Distance(readPos, writePos)
           rest == SubSeq(Content, k + 1, Len(Content))
<1>1. d \in 0 .. (Slots - 1) /\ k \in 1 .. d /\ k \in Nat /\ d \in Nat
  BY ContentIsSeq, SlotsAssumption
<1>2. Distance(readPos', writePos') = d - k
  BY <1>0, <1>1, ReaderMoves
<1>3. /\ Content' \in Seq(Nat) /\ Len(Content') = d - k
      /\ \A i \in 1 .. (d - k) : Content'[i] = buffer[Advance(Advance(readPos, k), i - 1)]
  <2> DEFINE next == Advance(readPos, k)
  <2>1. Content' = Items(buffer, next, writePos)
    BY DEF Content, Items
  <2>2. next \in Indices /\ Distance(next, writePos) = d - k
    BY <1>0, <1>1, ReaderMoves
  <2> HIDE DEF next
  <2>3. /\ Items(buffer, next, writePos) \in Seq(Nat)
        /\ Len(Items(buffer, next, writePos)) = Distance(next, writePos)
        /\ \A i \in 1 .. Distance(next, writePos) :
              Items(buffer, next, writePos)[i] = buffer[Advance(next, i - 1)]
    BY <1>0, <2>2, ItemsAreSeq
  <2> QED BY <2>1, <2>2, <2>3 DEF next
<1>4. \A i \in 1 .. (d - k) : Content'[i] = buffer[Advance(readPos, k + i - 1)]
  <2> SUFFICES ASSUME NEW i \in 1 .. (d - k)
               PROVE  Content'[i] = buffer[Advance(readPos, k + i - 1)]
    OBVIOUS
  <2>1. i - 1 \in Nat /\ k + (i - 1) <= Slots /\ k + (i - 1) = k + i - 1
    BY <1>1, SlotsAssumption
  <2>2. Advance(Advance(readPos, k), i - 1) = Advance(readPos, k + (i - 1))
    BY <1>0, <1>1, <2>1, AdvanceTwice
  <2> QED BY <1>3, <2>1, <2>2
<1>5. /\ rest \in Seq(Nat) /\ Len(rest) = d - k
      /\ \A i \in 1 .. (d - k) : rest[i] = Content[k + i]
  <2>1. Len(Content) = d /\ \A i \in (k + 1) .. d : Content[i] \in Nat
    <3>1. Content \in Seq(Nat) /\ Len(Content) = d
      BY ContentIsSeq
    <3>2. Content \in [1 .. d -> Nat]
      BY <3>1, LenProperties
    <3> QED BY <1>1, <3>1, <3>2
  <2>2. /\ SubSeq(Content, k + 1, d) \in Seq(Nat)
        /\ Len(SubSeq(Content, k + 1, d)) = IF k + 1 <= d THEN d - (k + 1) + 1 ELSE 0
        /\ \A i \in 1 .. (d - (k + 1) + 1) :
              SubSeq(Content, k + 1, d)[i] = Content[(k + 1) + i - 1]
    BY <1>1, <2>1, SubSeqProperties
  <2> QED BY <1>1, <2>1, <2>2
<1>6. \A i \in 1 .. (d - k) : Content[k + i] = buffer[Advance(readPos, k + i - 1)]
  BY <1>1, ContentIsSeq
<1> HIDE DEF rest
<1>7. Content' = rest
  BY <1>3, <1>4, <1>5, <1>6, SeqEqual
<1> QED BY <1>7 DEF rest

\* A move of the writer appends what it wrote.
LEMMA WriterAppends ==
    ASSUME Typed, Typed', NEW k \in 1 .. Space(writePos, readPos),
           writePos' = Advance(writePos, k), UNCHANGED <<readPos, buffer>>,
           \A i \in 0 .. (k - 1) : buffer[Advance(writePos, i)] = nextItem + i
    PROVE  Content' = Content \o [i \in 1 .. k |-> nextItem + i - 1]
<1>0. /\ buffer \in [Indices -> Nat] /\ readPos \in Indices /\ writePos \in Indices
      /\ nextItem \in Nat \ {0}
  BY DEF Typed, TypeOK
<1> DEFINE d == Distance(readPos, writePos)
           new == [i \in 1 .. k |-> nextItem + i - 1]
<1>1. /\ d \in Nat /\ Space(writePos, readPos) = Slots - 1 - d /\ k \in Nat \ {0}
      /\ d + k <= Slots - 1
  <2>1. d \in 0 .. (Slots - 1) /\ Space(writePos, readPos) = Slots - 1 - d
    BY <1>0, DistanceSpace
  <2> QED BY <2>1, SlotsAssumption
<1>2. Advance(writePos, k) \in Indices /\ Distance(readPos, Advance(writePos, k)) = d + k
  BY <1>0, <1>1, WriterMoves
<1>3. /\ Content' \in Seq(Nat) /\ Len(Content') = d + k
      /\ \A i \in 1 .. (d + k) : Content'[i] = buffer[Advance(readPos, i - 1)]
  <2> DEFINE next == Advance(writePos, k)
  <2>1. Content' = Items(buffer, readPos, next)
    BY DEF Content, Items
  <2>2. next \in Indices /\ Distance(readPos, next) = d + k
    BY <1>2
  <2> HIDE DEF next
  <2>3. /\ Items(buffer, readPos, next) \in Seq(Nat)
        /\ Len(Items(buffer, readPos, next)) = Distance(readPos, next)
        /\ \A i \in 1 .. Distance(readPos, next) :
              Items(buffer, readPos, next)[i] = buffer[Advance(readPos, i - 1)]
    BY <1>0, <2>2, ItemsAreSeq
  <2> QED BY <2>1, <2>2, <2>3
<1>4. /\ Content \in Seq(Nat) /\ Len(Content) = d
      /\ \A i \in 1 .. d : Content[i] = buffer[Advance(readPos, i - 1)]
  BY ContentIsSeq
<1>5. new \in Seq(Nat) /\ Len(new) = k /\ \A i \in 1 .. k : new[i] = nextItem + i - 1
  <2>1. new \in [1 .. k -> Nat]
    BY <1>0, <1>1
  <2>2. new \in Seq(Nat)
    BY <1>1, <2>1, SeqDef
  <2> QED BY <1>1, <2>1, <2>2, LenProperties
<1>6. \A i \in 1 .. k : buffer[Advance(readPos, d + i - 1)] = nextItem + i - 1
  <2> SUFFICES ASSUME NEW i \in 1 .. k
               PROVE  buffer[Advance(readPos, d + i - 1)] = nextItem + i - 1
    OBVIOUS
  <2>1. writePos = Advance(readPos, d)
    <3>1. d \in 0 .. Slots
      BY <1>1, SlotsAssumption
    <3>2. Advance(readPos, d) = IF readPos + d < Slots THEN readPos + d
                                ELSE readPos + d - Slots
      BY <1>0, <3>1, AdvanceWraps
    <3> QED BY <1>0, <3>2, SlotsAssumption DEF Distance, Indices
  <2>2. i - 1 \in Nat /\ d + (i - 1) <= Slots /\ d + (i - 1) = d + i - 1 /\ i - 1 \in 0 .. (k - 1)
    BY <1>1, SlotsAssumption
  <2>3. Advance(Advance(readPos, d), i - 1) = Advance(readPos, d + (i - 1))
    BY <1>0, <1>1, <2>2, AdvanceTwice
  <2>4. buffer[Advance(writePos, i - 1)] = nextItem + (i - 1)
    BY <2>2
  <2> QED BY <1>0, <2>1, <2>2, <2>3, <2>4
<1> HIDE DEF new
<1>7. /\ Content \o new \in Seq(Nat) /\ Len(Content \o new) = d + k
      /\ \A i \in 1 .. (d + k) : (Content \o new)[i] = IF i <= d THEN Content[i] ELSE new[i - d]
  <2>1. /\ Content \o new \in Seq(Nat) /\ Len(Content \o new) = Len(Content) + Len(new)
        /\ \A i \in 1 .. (Len(Content) + Len(new)) :
              (Content \o new)[i] = IF i <= Len(Content) THEN Content[i]
                                    ELSE new[i - Len(Content)]
    BY <1>4, <1>5, ConcatProperties
  <2> QED BY <1>4, <1>5, <2>1
<1>8. \A i \in 1 .. (d + k) : Content'[i] = (Content \o new)[i]
  <2> SUFFICES ASSUME NEW i \in 1 .. (d + k) PROVE Content'[i] = (Content \o new)[i]
    OBVIOUS
  <2>0. i \in Nat /\ d \in Nat
    BY <1>1
  <2>c. i <= d \/ i > d
    BY <2>0
  <2> HIDE DEF d
  <2>1. CASE i <= d
    <3>1. i \in 1 .. d
      BY <1>1, <2>1
    <3>2. (Content \o new)[i] = Content[i]
      BY <1>7, <2>1
    <3> QED BY <1>3, <1>4, <3>1, <3>2
  <2>2. CASE i > d
    <3>1. i - d \in 1 .. k /\ d + (i - d) - 1 = i - 1 /\ ~(i <= d)
      BY <1>1, <2>2
    <3>2. buffer[Advance(readPos, i - 1)] = nextItem + (i - d) - 1
      BY <1>6, <3>1
    <3> QED BY <1>3, <1>5, <1>7, <3>1, <3>2
  <2> QED BY <2>c, <2>1, <2>2
<1>9. Content' = Content \o new
  BY <1>1, <1>3, <1>7, <1>8, SeqEqual
<1> QED BY <1>9 DEF new

\* A step that neither moves a position, nor fills a slot of the items, nor hands
\* any out, is none of the FIFO.
LEMMA ContentStays ==
    ASSUME Typed, Known, UNCHANGED <<readPos, writePos>>,
           buffer' = buffer \/ CopyIn \/ UseSlot("writer")
    PROVE  Content' = Content
<1>1. Distance(readPos, writePos) \in Nat
  BY ContentIsSeq, SlotsAssumption
<1>2. ASSUME NEW i \in 1 .. Distance(readPos, writePos)
      PROVE  buffer'[Advance(readPos, i - 1)] = buffer[Advance(readPos, i - 1)]
  <2>1. i - 1 \in 0 .. (Distance(readPos, writePos) - 1)
    BY <1>1
  <2> QED BY <2>1, ItemsKept
<1> QED BY <1>2 DEF Content

\* Every step of a ring that is not reset or overwritten is one of the FIFO, or
\* none.
LEMMA OneSidedStep ==
    ASSUME Typed, Typed', Known, Moved, StrictlyOneSided, StrictlyOneSided', [Next]_vars
    PROVE  [Fifo!Next]_(Fifo!vars)
<1> USE DEF Sides
<1> DEFINE d == Distance(readPos, writePos)
<1>c. Moved => WrittenItems /\ CopiedItems
  BY DEF Moved
<1>0. /\ readPos \in Indices /\ writePos \in Indices /\ n \in [Sides -> Nat]
      /\ buffer \in [Indices -> Nat] /\ pc \in [Sides -> Places] /\ op \in [Sides -> Ops]
      /\ pos \in [Sides -> Indices] /\ held \in [Sides -> HeldType]
  BY DEF Typed, TypeOK, Places, Ops
<1>d. d \in 0 .. (Slots - 1) /\ Len(Content) = d /\ Space(writePos, readPos) = Slots - 1 - d
  BY <1>0, ContentIsSeq, DistanceSpace
<1>s. ASSUME UNCHANGED <<readPos, writePos, out, nextItem>>,
             buffer' = buffer \/ CopyIn \/ UseSlot("writer")
      PROVE  UNCHANGED Fifo!vars
  BY <1>s, ContentStays DEF Fifo!vars
<1>p. ASSUME NEW k \in 1 .. Space(writePos, readPos),
             writePos' = Advance(writePos, k), nextItem' = nextItem + k,
             UNCHANGED <<readPos, buffer, out>>,
             \A i \in 0 .. (k - 1) : buffer[Advance(writePos, i)] = nextItem + i
      PROVE  Fifo!Next
  <2>1. Content' = Content \o [i \in 1 .. k |-> nextItem + i - 1]
    BY <1>p, WriterAppends
  <2>2. k \in 1 .. (Slots - 1) /\ Len(Content) + k <= Slots - 1
    BY <1>d, SlotsAssumption
  <2>3. Fifo!Put(k)
    BY <1>p, <2>1, <2>2 DEF Fifo!Put
  <2> QED BY <2>2, <2>3 DEF Fifo!Next
<1>l. ASSUME NEW k \in 1 .. d, UNCHANGED <<readPos, writePos, buffer, nextItem>>,
             out' = [i \in 1 .. k |-> buffer[Advance(readPos, i - 1)]]
      PROVE  Fifo!Next
  <2>1. Content' = Content
    BY <1>l DEF Content
  <2>2. out' = SubSeq(Content, 1, k)
    BY <1>l, HandedOut
  <2>3. k \in 1 .. (Slots - 1) /\ k <= Len(Content)
    BY <1>d, SlotsAssumption
  <2>4. Fifo!Look(k)
    BY <1>l, <2>1, <2>2, <2>3 DEF Fifo!Look
  <2> QED BY <2>3, <2>4 DEF Fifo!Next
<1>t. ASSUME NEW k \in 1 .. d, readPos' = Advance(readPos, k),
             UNCHANGED <<writePos, buffer, nextItem>>,
             out' = out \/ out' = [i \in 1 .. k |-> buffer[Advance(readPos, i - 1)]]
      PROVE  Fifo!Next
  <2>1. Content' = SubSeq(Content, k + 1, Len(Content))
    BY <1>t, ReaderDrops
  <2>2. out' = out \/ out' = SubSeq(Content, 1, k)
    BY <1>t, HandedOut
  <2>3. k \in 1 .. (Slots - 1) /\ k <= Len(Content)
    BY <1>d, SlotsAssumption
  <2>4. Fifo!Drop(k) \/ Fifo!Take(k)
    BY <1>t, <2>1, <2>2, <2>3 DEF Fifo!Drop, Fifo!Take
  <2> QED BY <2>3, <2>4 DEF Fifo!Next
<1>3. ASSUME NEW s \in Sides, ResetStep(s) PROVE FALSE
  BY <1>3 DEF Known, Quiet, ResetStep, ResetGeneration, ResetWritePos, ResetReadPos
<1>4. ASSUME NEW s \in Sides, RequestReset(s) PROVE FALSE
  BY <1>4 DEF StrictlyOneSided, RequestReset
<1>5. ASSUME Room \/ DropLoad \/ DropSwap PROVE FALSE
  BY <1>5 DEF Known, Quiet, Room, DropLoad, DropSwap
<1>6. CASE (\E o \in client.writes : \E c \in Count(o) : BeginWrite(o, c))
           \/ (\E o \in client.reads : \E c \in Count(o) : BeginRead(o, c))
           \/ \E s \in Sides : BeginRetire(s)
  BY <1>6, <1>s DEF BeginWrite, BeginRead, BeginRetire, Begin
<1>7. ASSUME NEW s \in Sides, MoveStep(s) \/ LoadGeneration(s) \/ CheckGeneration(s)
                              \/ CheckPosition(s)
      PROVE  UNCHANGED Fifo!vars
  BY <1>7, <1>s DEF MoveStep, LoadWrite, LoadRead, LoadOwn, LoadGeneration,
                    CheckGeneration, CheckPosition, ring
<1>8. CASE UseSlot("writer")
  BY <1>8, <1>s DEF UseSlot
<1>9. CASE UseSlot("reader")
  <2>1. 1 \in 1 .. d
    BY <1>9, <1>d DEF UseSlot, Known, ReaderItems
  <2>2. out' = <<buffer[readPos]>>
    BY <1>9 DEF UseSlot, Known, ReaderItems
  <2>3. <<buffer[readPos]>> = [i \in 1 .. 1 |-> buffer[Advance(readPos, i - 1)]]
    BY <1>0, AdvanceZero
  <2> QED BY <1>9, <1>l, <2>1, <2>2, <2>3 DEF UseSlot
<1>10. CASE Retire("writer")
  <2>1. held["writer"].used /\ held["writer"] # NoHold
    BY <1>10 DEF Retire, Known, WriterCalls, NoHold
  <2>2. held["writer"].index = writePos /\ 1 \in 1 .. Space(writePos, readPos)
    BY <2>1, <1>d DEF Known, WriterRoom
  <2>3. \A i \in 0 .. (1 - 1) : buffer[Advance(writePos, i)] = nextItem + i
    BY <2>1, <2>2, <1>0, <1>c, AdvanceZero DEF WrittenItems
  <2> QED BY <1>10, <1>p, <2>2, <2>3 DEF Retire
<1>11. CASE Retire("reader")
  <2>1. held["reader"].used /\ held["reader"] # NoHold
    BY <1>11 DEF Retire, Known, ReaderCalls, NoHold
  <2>2. held["reader"].index = readPos /\ 1 \in 1 .. d
    BY <2>1, <1>d DEF Known, ReaderItems
  <2> QED BY <1>11, <1>t, <2>2 DEF Retire
<1>12. CASE CopyIn
  BY <1>12, <1>s DEF CopyIn
<1>13. CASE PublishWrite
  <2>1. n["writer"] \in 1 .. Space(writePos, readPos) /\ pos["writer"] = writePos
    BY <1>13 DEF PublishWrite, Known, WriterRoom
  <2>2. \A i \in 0 .. (n["writer"] - 1) : buffer[Advance(writePos, i)] = nextItem + i
    BY <1>13, <1>c DEF PublishWrite, WrittenItems
  <2> QED BY <1>13, <1>p, <2>1, <2>2 DEF PublishWrite
<1>14. CASE CopyOut
  <2>1. CASE op["reader"] = "peek"
    <3>1. n["reader"] \in 1 .. d /\ pos["reader"] = readPos
      BY <1>14 DEF CopyOut, Known, ReaderItems
    <3> QED BY <1>14, <1>l, <2>1, <3>1 DEF CopyOut, ring
  <2>2. CASE op["reader"] # "peek"
    BY <1>14, <1>s, <2>2 DEF CopyOut, ring
  <2> QED BY <2>1, <2>2
<1>15. CASE PublishRead
  <2>1. n["reader"] \in 1 .. d /\ pos["reader"] = readPos
    BY <1>15 DEF PublishRead, Known, ReaderItems
  <2>2. out' = out
        \/ out' = [i \in 1 .. n["reader"] |-> buffer[Advance(readPos, i - 1)]]
    BY <1>15, <1>c DEF PublishRead, CopiedItems
  <2> QED BY <1>15, <1>t, <2>1, <2>2 DEF PublishRead
<1>16. CASE ReserveLoad \/ ReserveCheck
  BY <1>16, <1>s DEF ReserveLoad, ReserveCheck, ring
<1>17. CASE UNCHANGED vars
  BY <1>17, <1>s DEF vars, ring, calls
<1> QED
  BY <1>3, <1>4, <1>5, <1>6, <1>7, <1>8, <1>9, <1>10, <1>11, <1>12, <1>13, <1>14, <1>15,
     <1>16, <1>17
     DEF Next, WriterStep, ReaderStep, ReserveStep, RetireStep

\* A ring of any capacity that is neither reset nor overwritten implements the
\* bounded FIFO: every store that publishes a position is one of its steps, and
\* what the reader is handed is what the FIFO hands out.
THEOREM RingIsFifo == Spec => ImplementsFifo
<1>1. Init => Fifo!Init
  <2> SUFFICES ASSUME Init PROVE Fifo!Init
    OBVIOUS
  <2>1. Content = <<>>
    <3>1. Content \in Seq(Nat) /\ Len(Content) = Distance(0, 0)
      BY TypedInit, ContentIsSeq DEF Init
    <3>2. Distance(0, 0) = 0
      BY DEF Distance
    <3> QED BY <3>1, <3>2, EmptySeq
  <2> QED BY <2>1 DEF Init, Fifo!Init
<1>2. Typed /\ Typed' /\ Sided /\ Moved /\ [Next]_vars => [Fifo!Next]_(Fifo!vars)
  <2> SUFFICES ASSUME Typed, Typed', Sided, Moved, [Next]_vars
               PROVE  [Fifo!Next]_(Fifo!vars)
    OBVIOUS
  <2>1. StrictlyOneSided' <=> StrictlyOneSided
    BY ClientStays DEF StrictlyOneSided
  <2>2. CASE StrictlyOneSided
    BY <2>1, <2>2, OneSidedStep DEF Sided, Known
  <2>3. CASE ~StrictlyOneSided
    BY <2>1, <2>3 DEF Fifo!vars
  <2> QED BY <2>2, <2>3
<1> QED
  BY <1>1, <1>2, TypedInit, TypedStep, SidedInit, SidedStep, MovedInit, MovedStep, PTL
     DEF Spec, ImplementsFifo, Fifo!Spec
=============================================================================
