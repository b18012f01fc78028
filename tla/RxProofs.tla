------------------------------- MODULE RxProofs -------------------------------
(***************************************************************************)
(* Proofs about RxRing for every number of slots, every set of transfer    *)
(* shapes and every bound.                                                 *)
(*                                                                         *)
(* That a buffer has one owner rests on the slot states (Marked): a slot   *)
(* with an outstanding request is PENDING, and the ring is only started    *)
(* when nothing is outstanding.  That frames keep the order of the wire    *)
(* rests on the order of the ring (OrderInv): counted from the slot the    *)
(* worker takes next, the completed transfers come first and in wire       *)
(* order, the requests behind them in the order UHS will fill them, and    *)
(* the slot that is submitted again is the last.                           *)
(*                                                                         *)
(* That the ring is a FIFO rests on both: the slots of completed transfers *)
(* are numbered by how many of them lie before them in the ring (Nth).     *)
(* A completion adds a last one, a take removes the first, and no other    *)
(* step changes their numbers.                                             *)
(*                                                                         *)
(* All three need StartNeverRefused.  A start that UHS refuses halfway     *)
(* leaves its first requests outstanding and rx_async_started FALSE, and   *)
(* the next start submits them again.                                      *)
(***************************************************************************)
EXTENDS RxRing, Integers, FiniteSetTheorems, TLAPS

\* The types of what the ring and the parser compute with.
RingTypes ==
  /\ state \in [Slots -> {"IDLE", "PENDING", "DONE"}]
  /\ buf \in [Slots -> Transfers \cup {NoTransfer}]
  /\ pending \in Seq(Slots)
  /\ callbacks \subseteq [slot : Slots, got : Transfers]
  /\ rx_consume \in Slots
  /\ index \in Slots
  /\ g_rx \in Transfers \cup {NoTransfer}
  /\ rx_frames \in Nat
  /\ rx_next \in Nat
  /\ wire \in Nat
  /\ delivered \in Nat \X Nat

\* A request for slot s is with UHS, or completed and its callback has not run.
Outstanding(s) ==
  \/ \E i \in 1 .. Len(pending) : pending[i] = s
  \/ \E c \in callbacks : c.slot = s

\* What the worker's control state says about the instance and the ring.
WorkerState ==
  /\ pc # "idle" => phase = "open"
  /\ phase # "open" => ~rx_async_started
  /\ pc = "start" => ~rx_async_started
  /\ pc \in {"arm", "submit", "take", "copy", "load", "wait"} => rx_async_started
  /\ starting => pc \in {"arm", "submit"}
  /\ pc = "copy" => took = "data"

\* No slot has two requests.
Distinct ==
  /\ \A i, j \in 1 .. Len(pending) : pending[i] = pending[j] => i = j
  /\ \A c, d \in callbacks : c.slot = d.slot => c = d
  /\ \A c \in callbacks : \A i \in 1 .. Len(pending) : pending[i] # c.slot

\* While the ring runs its outstanding slots are marked so; while the driver is
\* open or closed and the ring does not run, nothing is outstanding.
Marked ==
  /\ rx_async_started => \A s \in Slots : Outstanding(s) => state[s] = "PENDING"
  /\ ~rx_async_started /\ phase # "abandoned" => pending = << >> /\ callbacks = {}

\* The slot the worker is busy with, and those a start has not reached.
Working ==
  /\ pc = "arm" => state[index] = "IDLE"
  /\ pc = "submit" => state[index] = "PENDING" /\ ~Outstanding(index)
  /\ pc = "copy" => state[index] = "DONE"
  /\ starting => \A s \in Slots : s > index => state[s] = "IDLE"

\* Distance of a slot from the one the worker takes next.
Rank(s) == IF s >= rx_consume THEN s - rx_consume ELSE s - rx_consume + RX_ASYNC_SLOTS

\* A completed transfer waits in slot s.
Holds(s) ==
  /\ \/ state[s] = "DONE"
     \/ \E c \in callbacks : c.slot = s
  /\ ~(pc = "copy" /\ s = index)

\* The slot that is taken or submitted is the last of the ring.
LastInRing ==
  /\ pc \in {"arm", "submit", "copy"} /\ ~starting => Rank(index) = RX_ASYNC_SLOTS - 1
  /\ starting => rx_consume = 0

\* Requests lie in ring order.
PendingInOrder ==
  rx_async_started =>
    \A i, j \in 1 .. Len(pending) : i < j => Rank(pending[i]) < Rank(pending[j])

\* The completed transfers lie before the requests.
HeldFirst ==
  rx_async_started =>
    \A s \in Slots : Holds(s) =>
      \A i \in 1 .. Len(pending) : Rank(s) < Rank(pending[i])

\* The completed transfers lie in wire order.
HeldInOrder ==
  rx_async_started =>
    \A s, t \in Slots : Holds(s) /\ Holds(t) /\ Rank(s) < Rank(t) => buf[s].id < buf[t].id

\* They came after the one being parsed and the one being copied.
HeldIsNewer ==
  rx_async_started =>
    /\ \A s \in Slots : Holds(s) => g_rx.id < buf[s].id
    /\ pc = "copy" =>
         /\ g_rx.id < buf[index].id
         /\ \A s \in Slots : Holds(s) => buf[index].id < buf[s].id

\* Every number is that of a transfer already completed.
Numbered ==
  /\ \A s \in Slots : buf[s].id <= wire
  /\ g_rx.id <= wire

\* The order of the ring.
OrderInv ==
  /\ LastInRing
  /\ PendingInOrder
  /\ HeldFirst
  /\ HeldInOrder
  /\ HeldIsNewer
  /\ Numbered

\* g_rx has been replaced and its trailer has not been read.
Copied == pc \in {"arm", "submit", "load"} /\ ~starting /\ took = "data"

\* How far the parser is, and how far the frames handed to lwIP.
ParserState ==
  /\ rx_frames <= Len(g_rx.shape.descs) \/ Copied
  /\ pc \in {"start", "arm", "submit", "take", "copy", "load", "wait"} => rx_next >= rx_frames
  /\ delivered[1] <= g_rx.id
  /\ Copied => delivered[1] < g_rx.id
  /\ rx_next < rx_frames => delivered[1] < g_rx.id \/ delivered[2] <= rx_next

\* UHS accepts every request of ax_rx_start_async; it may refuse later ones.
StartNeverRefused == "start" \notin FailPoints

\* The part of the inductive invariant that needs StartNeverRefused, and what
\* it is built on.
RingInv ==
  /\ RingTypes
  /\ WorkerState
  /\ Distinct
  /\ Marked
  /\ Working
  /\ OrderInv
  /\ ParserState

-------------------------------------------------------------------------------
(* Slots, requests and transfers.                                          *)

\* Slots are numbers, and a start goes through them in order.
LEMMA SlotFacts ==
  /\ 0 \in Slots
  /\ Slots \subseteq Nat
  /\ \A s \in Slots : s + 1 < RX_ASYNC_SLOTS => s + 1 \in Slots
BY RingAssumption DEF Slots

\* The ring closes behind its last slot.
LEMMA NextSlot ==
  ASSUME NEW s \in Slots
  PROVE  /\ (s + 1) % RX_ASYNC_SLOTS = IF s + 1 = RX_ASYNC_SLOTS THEN 0 ELSE s + 1
         /\ (s + 1) % RX_ASYNC_SLOTS \in Slots
<1> USE RingAssumption DEF Slots
<1>1. ASSUME NEW n \in Nat \ {0} PROVE n % n = 0
  OBVIOUS
<1>2. ASSUME NEW n \in Nat \ {0}, NEW m \in Nat, m < n PROVE m % n = m
  <2>1. m % n \in 0 .. n - 1
    BY <1>2
  <2>2. m \div n \in Int /\ m = n * (m \div n) + (m % n)
    BY <1>2
  <2>3. ASSUME NEW q \in Int, q >= 1 PROVE n * q >= n
    BY <2>3
  <2>4. ASSUME NEW q \in Int, q <= -1 PROVE n * q <= -n
    BY <2>4
  <2>5. n * (m \div n) > -n /\ n * (m \div n) < n
    BY <1>2, <2>1, <2>2
  <2>6. m \div n = 0
    BY <2>2, <2>3, <2>4, <2>5
  <2> QED
    BY <2>2, <2>6
<1> QED
  BY <1>1, <1>2

\* UHS takes the oldest request.
LEMMA PendingTail ==
  ASSUME RingTypes, pending # << >>
  PROVE  /\ 1 \in 1 .. Len(pending)
         /\ Head(pending) = pending[1]
         /\ Head(pending) \in Slots
         /\ Len(Tail(pending)) = Len(pending) - 1
         /\ \A i \in 1 .. Len(Tail(pending)) :
              i + 1 \in 1 .. Len(pending) /\ Tail(pending)[i] = pending[i + 1]
BY DEF RingTypes

\* UHS queues a new request behind the others.
LEMMA PendingAppend ==
  ASSUME RingTypes
  PROVE  /\ Len(Append(pending, index)) = Len(pending) + 1
         /\ \A i \in 1 .. Len(pending) + 1 :
              \/ i \in 1 .. Len(pending) /\ Append(pending, index)[i] = pending[i]
              \/ i = Len(pending) + 1 /\ Append(pending, index)[i] = index
BY DEF RingTypes

\* The ranks of the slots are 0 .. RX_ASYNC_SLOTS - 1, from rx_consume on.
LEMMA RankFacts ==
  ASSUME RingTypes
  PROVE  /\ \A s \in Slots : Rank(s) \in 0 .. RX_ASYNC_SLOTS - 1
         /\ \A s, t \in Slots : Rank(s) = Rank(t) => s = t
         /\ Rank(rx_consume) = 0
BY RingAssumption DEF RingTypes, Slots, Rank

\* The number of a transfer, and of its descriptors.
LEMMA TransferFacts ==
  ASSUME NEW t \in Transfers \cup {NoTransfer}
  PROVE  t.id \in Nat /\ Len(t.shape.descs) \in Nat
BY ShapesAssumption, BoundsAssumption DEF Transfers, NoTransfer

\* The slots of requests.
LEMMA PendingFacts ==
  ASSUME RingTypes
  PROVE  /\ Len(pending) \in Nat
         /\ \A i \in 1 .. Len(pending) : pending[i] \in Slots /\ Outstanding(pending[i])
         /\ \A s \in Slots : Rank(s) \in Int
         /\ RX_ASYNC_SLOTS \in Int
BY RankFacts, RingAssumption DEF RingTypes, Outstanding

-------------------------------------------------------------------------------
(* Types, control state and wake-ups, whatever UHS refuses.                *)

\* Every step of the worker, of UHS and of the driver's life keeps the types.
LEMMA NextTypes ==
  ASSUME RingTypes, [Next]_vars
  PROVE  RingTypes'
<1> USE SlotFacts
<1> USE DEF RingTypes, slotVars, uhsVars, axVars, parseVars, workVars
<1>1. ASSUME NEW k \in 1 .. rx_frames, ReturnFrame(k) PROVE RingTypes'
  BY <1>1, TransferFacts, SMTT(30) DEF ReturnFrame, Harvest, Stops, Rest
<1>2. ASSUME NEW k \in 1 .. rx_frames, ReturnOverrun(k) PROVE RingTypes'
  BY <1>2 DEF ReturnOverrun, Goto, Stops, Rest
<1>3. CASE Exhausted
  BY <1>3, Zenon DEF Exhausted, Goto, AfterBuffered, Rest
<1>4. CASE StartRing
  BY <1>4, Zenon DEF StartRing
<1>5. CASE ArmSlot
  BY <1>5, Zenon DEF ArmSlot, Goto
<1>6. CASE Submit
  BY <1>6 DEF Submit
<1>7. CASE SubmitRefused
  BY <1>7, Zenon DEF SubmitRefused
<1>8. CASE TakeNothing
  BY <1>8, Zenon DEF TakeNothing, ReturnNothing
<1>9. CASE TakeCompleted
  BY <1>9, NextSlot, Zenon DEF TakeCompleted, TakeSlot
<1>10. CASE CopyAggregate
  BY <1>10, Zenon DEF CopyAggregate, Goto
<1>11. CASE LoadFailed
  BY <1>11, Zenon DEF LoadFailed, Goto
<1>12. CASE LoadZero
  BY <1>12, Zenon DEF LoadZero, ReturnNothing
<1>13. CASE LoadTrailer
  BY <1>13, TransferFacts, Zenon DEF LoadTrailer, Goto, ReturnNothing
<1>14. CASE WaitSignalled
  BY <1>14, Zenon DEF WaitSignalled
<1>15. CASE WaitTimeout
  BY <1>15, Zenon DEF WaitTimeout
<1>16. ASSUME NEW h \in Shapes, Complete(h) PROVE RingTypes'
  <2>1. Head(pending) \in Slots /\ Tail(pending) \in Seq(Slots)
    BY <1>16 DEF Complete
  <2>2. wire' \in Nat /\ wire + 1 \in 1 .. MaxWire
    BY <1>16, BoundsAssumption DEF Complete
  <2>3. PICK t : /\ t = [id |-> wire + 1, shape |-> h]
                 /\ buf' = [buf EXCEPT ![Head(pending)] = t]
                 /\ callbacks' = callbacks \cup {[slot |-> Head(pending), got |-> t]}
    BY <1>16, Zenon DEF Complete
  <2>4. t \in Transfers
    BY <2>2, <2>3, Zenon DEF Transfers
  <2>5. buf' \in [Slots -> Transfers \cup {NoTransfer}]
    BY <2>1, <2>3, <2>4, Zenon
  <2>6. callbacks' \subseteq [slot : Slots, got : Transfers]
    BY <2>1, <2>3, <2>4
  <2> QED
    BY <1>16, <2>1, <2>2, <2>5, <2>6, Zenon DEF Complete
<1>17. ASSUME NEW c \in callbacks, CallbackStore(c) PROVE RingTypes'
  <2>1. c.slot \in Slots
    BY <1>17, Zenon
  <2> QED
    BY <1>17, <2>1, Zenon DEF CallbackStore
<1>18. ASSUME NEW s \in signalling, CallbackSignal(s) PROVE RingTypes'
  BY <1>18, Zenon DEF CallbackSignal
<1>19. CASE Poll
  BY <1>19, Zenon DEF Poll
<1>20. CASE Open
  BY <1>20, Zenon DEF Open
<1>21. CASE Close
  BY <1>21 DEF Close
<1>22. CASE Abandon
  BY <1>22, Zenon DEF Abandon
<1>23. CASE Reclaim
  BY <1>23 DEF Reclaim
<1>24. CASE LinkDown
  BY <1>24, Zenon DEF LinkDown
<1>25. ASSUME NEW m \in Media, LinkUp(m) PROVE RingTypes'
  BY <1>25, Zenon DEF LinkUp
<1>26. CASE UNCHANGED vars
  BY <1>26, Zenon DEF vars
<1> HIDE DEF RingTypes, slotVars, uhsVars, axVars, parseVars, workVars
<1> QED
  BY <1>1, <1>2, <1>3, <1>4, <1>5, <1>6, <1>7, <1>8, <1>9, <1>10, <1>11, <1>12, <1>13,
    <1>14, <1>15, <1>16, <1>17, <1>18, <1>19, <1>20, <1>21, <1>22, <1>23, <1>24, <1>25,
    <1>26, ZenonT(30) DEF Next, Worker, Uhs

\* The control state of the worker fixes what the instance is doing.
LEMMA NextWorkerState ==
  ASSUME WorkerState, [Next]_vars
  PROVE  WorkerState'
<1> USE DEF WorkerState, slotVars, uhsVars, axVars, parseVars, workVars
<1>1. ASSUME NEW k \in 1 .. rx_frames, ReturnFrame(k) PROVE WorkerState'
  BY <1>1, Zenon DEF ReturnFrame, Harvest, Stops, Rest
<1>2. ASSUME NEW k \in 1 .. rx_frames, ReturnOverrun(k) PROVE WorkerState'
  BY <1>2, Zenon DEF ReturnOverrun, Goto, Stops, Rest
<1>3. CASE Exhausted
  BY <1>3, Zenon DEF Exhausted, Goto, AfterBuffered, Rest
<1>4. CASE StartRing
  BY <1>4, Zenon DEF StartRing
<1>5. CASE ArmSlot
  BY <1>5, Zenon DEF ArmSlot, Goto
<1>6. CASE Submit
  BY <1>6, Zenon DEF Submit
<1>7. CASE SubmitRefused
  BY <1>7, Zenon DEF SubmitRefused
<1>8. CASE TakeNothing
  BY <1>8, Zenon DEF TakeNothing, ReturnNothing
<1>9. CASE TakeCompleted
  BY <1>9, Zenon DEF TakeCompleted, TakeSlot
<1>10. CASE CopyAggregate
  BY <1>10, Zenon DEF CopyAggregate, Goto
<1>11. CASE LoadFailed
  BY <1>11, Zenon DEF LoadFailed, Goto
<1>12. CASE LoadZero
  BY <1>12, Zenon DEF LoadZero, ReturnNothing
<1>13. CASE LoadTrailer
  BY <1>13, Zenon DEF LoadTrailer, Goto, ReturnNothing
<1>14. CASE WaitSignalled
  BY <1>14, Zenon DEF WaitSignalled
<1>15. CASE WaitTimeout
  BY <1>15, Zenon DEF WaitTimeout
<1>16. ASSUME NEW h \in Shapes, Complete(h) PROVE WorkerState'
  BY <1>16, Zenon DEF Complete
<1>17. ASSUME NEW c \in callbacks, CallbackStore(c) PROVE WorkerState'
  BY <1>17, Zenon DEF CallbackStore
<1>18. ASSUME NEW s \in signalling, CallbackSignal(s) PROVE WorkerState'
  BY <1>18, Zenon DEF CallbackSignal
<1>19. CASE Poll
  BY <1>19, Zenon DEF Poll
<1>20. CASE Open
  BY <1>20, Zenon DEF Open
<1>21. CASE Close
  BY <1>21, Zenon DEF Close
<1>22. CASE Abandon
  BY <1>22, Zenon DEF Abandon
<1>23. CASE Reclaim
  BY <1>23, Zenon DEF Reclaim
<1>24. CASE LinkDown
  BY <1>24, Zenon DEF LinkDown
<1>25. ASSUME NEW m \in Media, LinkUp(m) PROVE WorkerState'
  BY <1>25, Zenon DEF LinkUp
<1>26. CASE UNCHANGED vars
  BY <1>26, Zenon DEF vars
<1> HIDE DEF WorkerState, slotVars, uhsVars, axVars, parseVars, workVars
<1> QED
  BY <1>1, <1>2, <1>3, <1>4, <1>5, <1>6, <1>7, <1>8, <1>9, <1>10, <1>11, <1>12, <1>13,
    <1>14, <1>15, <1>16, <1>17, <1>18, <1>19, <1>20, <1>21, <1>22, <1>23, <1>24, <1>25,
    <1>26, ZenonT(30) DEF Next, Worker, Uhs

\* A callback that completes the slot the worker waits for has yet to signal.
LEMMA NextWakeup ==
  ASSUME RingTypes, WorkerState, NoLostWakeup, [Next]_vars
  PROVE  NoLostWakeup'
<1> USE DEF WorkerState, NoLostWakeup, slotVars, uhsVars, axVars, parseVars, workVars
<1>1. ASSUME NEW k \in 1 .. rx_frames, ReturnFrame(k) PROVE NoLostWakeup'
  BY <1>1, Zenon DEF ReturnFrame, Harvest, Stops, Rest
<1>2. ASSUME NEW k \in 1 .. rx_frames, ReturnOverrun(k) PROVE NoLostWakeup'
  BY <1>2, Zenon DEF ReturnOverrun, Goto, Stops, Rest
<1>3. CASE Exhausted
  BY <1>3, Zenon DEF Exhausted, Goto, AfterBuffered, Rest
<1>4. CASE StartRing
  BY <1>4, Zenon DEF StartRing
<1>5. CASE ArmSlot
  BY <1>5, Zenon DEF ArmSlot, Goto
<1>6. CASE Submit
  BY <1>6, Zenon DEF Submit
<1>7. CASE SubmitRefused
  BY <1>7, Zenon DEF SubmitRefused
<1>8. CASE TakeNothing
  BY <1>8, Zenon DEF TakeNothing, ReturnNothing
<1>9. CASE TakeCompleted
  BY <1>9, Zenon DEF TakeCompleted, TakeSlot
<1>10. CASE CopyAggregate
  BY <1>10, Zenon DEF CopyAggregate, Goto
<1>11. CASE LoadFailed
  BY <1>11, Zenon DEF LoadFailed, Goto
<1>12. CASE LoadZero
  BY <1>12, Zenon DEF LoadZero, ReturnNothing
<1>13. CASE LoadTrailer
  BY <1>13, Zenon DEF LoadTrailer, Goto, ReturnNothing
<1>14. CASE WaitSignalled
  BY <1>14, Zenon DEF WaitSignalled
<1>15. CASE WaitTimeout
  BY <1>15, Zenon DEF WaitTimeout
<1>16. ASSUME NEW h \in Shapes, Complete(h) PROVE NoLostWakeup'
  BY <1>16, Zenon DEF Complete
<1>17. ASSUME NEW c \in callbacks, CallbackStore(c) PROVE NoLostWakeup'
  <2>1. signalling' /= {}
    BY <1>17, Zenon DEF CallbackStore
  <2> QED
    BY <2>1, Zenon
<1>18. ASSUME NEW s \in signalling, CallbackSignal(s) PROVE NoLostWakeup'
  BY <1>18, Zenon DEF CallbackSignal
<1>19. CASE Poll
  BY <1>19, Zenon DEF Poll
<1>20. CASE Open
  BY <1>20, Zenon DEF Open
<1>21. CASE Close
  BY <1>21, Zenon DEF Close
<1>22. CASE Abandon
  BY <1>22, Zenon DEF Abandon
<1>23. CASE Reclaim
  BY <1>23, Zenon DEF Reclaim
<1>24. CASE LinkDown
  BY <1>24, Zenon DEF LinkDown
<1>25. ASSUME NEW m \in Media, LinkUp(m) PROVE NoLostWakeup'
  BY <1>25, Zenon DEF LinkUp
<1>26. CASE UNCHANGED vars
  BY <1>26, Zenon DEF vars
<1> HIDE DEF WorkerState, NoLostWakeup, slotVars, uhsVars, axVars, parseVars, workVars
<1> QED
  BY <1>1, <1>2, <1>3, <1>4, <1>5, <1>6, <1>7, <1>8, <1>9, <1>10, <1>11, <1>12, <1>13,
    <1>14, <1>15, <1>16, <1>17, <1>18, <1>19, <1>20, <1>21, <1>22, <1>23, <1>24, <1>25,
    <1>26, ZenonT(30) DEF Next, Worker, Uhs

-------------------------------------------------------------------------------
(* One owner per buffer.                                                   *)

\* Steps that leave requests and slot states alone.
LEMMA OwnersFrame ==
  ASSUME Distinct, Marked, Working,
         UNCHANGED <<state, pending, callbacks, phase, rx_async_started>>,
         \/ UNCHANGED <<pc, index, starting>>
         \/ pc' \notin {"arm", "submit", "copy"} /\ ~starting'
  PROVE  Distinct' /\ Marked' /\ Working'
BY SMTT(30) DEF Distinct, Marked, Working, Outstanding

\* Requests, slot states and the slot in the worker's hands stay in step.
LEMMA NextOwners ==
  ASSUME StartNeverRefused, RingTypes, WorkerState, Distinct, Marked, Working, [Next]_vars
  PROVE  Distinct' /\ Marked' /\ Working'
<1> USE DEF WorkerState, slotVars, uhsVars, axVars, parseVars, workVars
<1>1. ASSUME NEW k \in 1 .. rx_frames, ReturnFrame(k)
      PROVE  Distinct' /\ Marked' /\ Working'
  BY <1>1, OwnersFrame, Zenon DEF ReturnFrame, Harvest, Stops, Rest
<1>2. ASSUME NEW k \in 1 .. rx_frames, ReturnOverrun(k)
      PROVE  Distinct' /\ Marked' /\ Working'
  BY <1>2, OwnersFrame, Zenon DEF ReturnOverrun, Goto, Stops, Rest
<1>3. CASE Exhausted
  BY <1>3, OwnersFrame, Zenon DEF Exhausted, Goto, AfterBuffered, Rest
<1>4. CASE TakeNothing
  BY <1>4, OwnersFrame, Zenon DEF TakeNothing, ReturnNothing
<1>5. CASE LoadFailed
  BY <1>5, OwnersFrame, Zenon DEF LoadFailed, Goto
<1>6. CASE LoadZero
  BY <1>6, OwnersFrame, Zenon DEF LoadZero, ReturnNothing
<1>7. CASE LoadTrailer
  BY <1>7, OwnersFrame, Zenon DEF LoadTrailer, Goto, ReturnNothing
<1>8. CASE WaitSignalled
  BY <1>8, OwnersFrame, Zenon DEF WaitSignalled
<1>9. CASE WaitTimeout
  BY <1>9, OwnersFrame, Zenon DEF WaitTimeout
<1>10. ASSUME NEW s \in signalling, CallbackSignal(s)
      PROVE  Distinct' /\ Marked' /\ Working'
  BY <1>10, OwnersFrame, Zenon DEF CallbackSignal
<1>11. CASE Poll
  BY <1>11, OwnersFrame, Zenon DEF Poll
<1>12. CASE LinkDown
  BY <1>12, OwnersFrame, Zenon DEF LinkDown
<1>13. ASSUME NEW m \in Media, LinkUp(m) PROVE Distinct' /\ Marked' /\ Working'
  BY <1>13, OwnersFrame, Zenon DEF LinkUp
<1> USE SlotFacts
<1> USE DEF RingTypes, Distinct, Marked, Working, Outstanding, StartNeverRefused
<1>14. CASE StartRing
  <2>1. Distinct'
    BY <1>14, SMTT(30) DEF StartRing
  <2>2. Marked'
    BY <1>14, SMTT(30) DEF StartRing
  <2>3. Working'
    BY <1>14, Zenon DEF StartRing
  <2> QED
    BY <2>1, <2>2, <2>3, Zenon
<1>15. CASE ArmSlot
  <2>1. Distinct'
    BY <1>15, SMTT(30) DEF ArmSlot, Goto
  <2>2. Marked'
    BY <1>15, ZenonT(30) DEF ArmSlot, Goto
  <2>3. Working'
    BY <1>15, SMTT(30) DEF ArmSlot, Goto
  <2> QED
    BY <2>1, <2>2, <2>3, Zenon
<1>16. CASE Submit
  <2>1. Distinct'
    BY <1>16, PendingAppend, SMTT(30) DEF Submit
  <2>2. Marked'
    BY <1>16, PendingAppend, SMTT(30) DEF Submit
  <2>3. Working'
    BY <1>16, PendingAppend, SMTT(30) DEF Submit
  <2> QED
    BY <2>1, <2>2, <2>3, Zenon
<1>17. CASE SubmitRefused
  <2>1. /\ ~starting /\ rx_async_started /\ rx_async_started' /\ index \in Slots
        /\ UNCHANGED <<pending, callbacks>> /\ state' = [state EXCEPT ![index] = "IDLE"]
    BY <1>17, Zenon DEF SubmitRefused
  <2>2. ~Outstanding(index)
    BY <1>17, Zenon DEF SubmitRefused
  <2>3. Distinct' /\ Working'
    BY <1>17, <2>1 DEF SubmitRefused
  <2>4. Marked'
    BY <2>1, <2>2, Zenon
  <2> QED
    BY <2>3, <2>4, Zenon
<1>18. CASE TakeCompleted
  <2>1. Distinct'
    BY <1>18 DEF TakeCompleted, TakeSlot
  <2>2. Marked'
    BY <1>18, ZenonT(30) DEF TakeCompleted, TakeSlot
  <2>3. Working'
    BY <1>18, Zenon DEF TakeCompleted, TakeSlot
  <2> QED
    BY <2>1, <2>2, <2>3, Zenon
<1>19. CASE CopyAggregate
  <2>1. Distinct'
    BY <1>19, SMTT(30) DEF CopyAggregate, Goto
  <2>2. Marked'
    BY <1>19, ZenonT(30) DEF CopyAggregate, Goto
  <2>3. Working'
    BY <1>19, Zenon DEF CopyAggregate, Goto
  <2> QED
    BY <2>1, <2>2, <2>3, Zenon
<1>20. ASSUME NEW h \in Shapes, Complete(h) PROVE Distinct' /\ Marked' /\ Working'
  <2> HIDE DEF RingTypes, WorkerState, Distinct, Marked, Working, Outstanding
  <2>1. PICK t : callbacks' = callbacks \cup {[slot |-> Head(pending), got |-> t]}
    BY <1>20, Zenon DEF Complete
  <2>2. /\ Head(pending) = pending[1] /\ 1 \in 1 .. Len(pending) /\ Len(pending) \in Nat
        /\ Head(pending) \in Slots
        /\ Len(pending') = Len(pending) - 1
        /\ \A i \in 1 .. Len(pending') :
             i + 1 \in 1 .. Len(pending) /\ pending'[i] = pending[i + 1]
    BY <1>20, PendingTail, PendingFacts, Zenon DEF Complete
  <2>3. \A s \in Slots : Outstanding(s)' => Outstanding(s)
    BY <2>1, <2>2 DEF Outstanding
  <2>4. UNCHANGED <<state, phase, rx_async_started, pc, index, starting>> /\ pending /= << >>
    BY <1>20, Zenon DEF Complete
  <2>5. Distinct'
    BY <2>1, <2>2, SMTT(30) DEF Distinct
  <2>6. Marked'
    BY <2>3, <2>4, Zenon DEF Marked
  <2>7. Working'
    BY <2>3, <2>4, Zenon DEF Working, RingTypes
  <2> QED
    BY <2>5, <2>6, <2>7, Zenon
<1>21. ASSUME NEW c \in callbacks, CallbackStore(c) PROVE Distinct' /\ Marked' /\ Working'
  <2>1. Distinct'
    BY <1>21, ZenonT(30) DEF CallbackStore
  <2>2. Marked'
    BY <1>21, SMTT(30) DEF CallbackStore
  <2>3. Working'
    BY <1>21, Zenon DEF CallbackStore
  <2> QED
    BY <2>1, <2>2, <2>3, Zenon
<1>22. CASE Open
  BY <1>22, SMTT(30) DEF Open
<1>23. CASE Close
  BY <1>23, SMTT(30) DEF Close
<1>24. CASE Abandon
  BY <1>24, SMTT(30) DEF Abandon
<1>25. CASE Reclaim
  BY <1>25, SMTT(30) DEF Reclaim
<1>26. CASE UNCHANGED vars
  BY <1>26 DEF vars
<1> HIDE DEF WorkerState, slotVars, uhsVars, axVars, parseVars, workVars
<1> HIDE DEF RingTypes, Distinct, Marked, Working, Outstanding, StartNeverRefused
<1> QED
  BY <1>1, <1>2, <1>3, <1>4, <1>5, <1>6, <1>7, <1>8, <1>9, <1>10, <1>11, <1>12, <1>13,
    <1>14, <1>15, <1>16, <1>17, <1>18, <1>19, <1>20, <1>21, <1>22, <1>23, <1>24, <1>25,
    <1>26, ZenonT(30) DEF Next, Worker, Uhs

-------------------------------------------------------------------------------
(* The order of the ring.                                                  *)

\* ax_rx_take_completed takes the oldest transfer and makes its slot the last.
LEMMA OrderTake ==
  ASSUME RingTypes, WorkerState, Distinct, Marked, Working, OrderInv,
         TakeCompleted
  PROVE  OrderInv'
<1> SUFFICES ASSUME LastInRing, PendingInOrder, HeldFirst, HeldInOrder, HeldIsNewer, Numbered
             PROVE  OrderInv'
  BY Zenon DEF OrderInv
<1>1. /\ state[rx_consume] = "DONE" /\ pc = "take" /\ ~starting /\ rx_async_started
      /\ rx_consume' = IF rx_consume + 1 = RX_ASYNC_SLOTS THEN 0 ELSE rx_consume + 1
      /\ rx_consume \in Slots
      /\ pc' \in {"arm", "copy"} /\ index' = rx_consume /\ ~starting'
      /\ pc' = "arm" => state' = [state EXCEPT ![rx_consume] = "IDLE"]
      /\ pc' = "copy" => state' = state
      /\ UNCHANGED <<buf, pending, callbacks, wire, rx_async_started, g_rx>>
  BY NextSlot, Zenon DEF TakeCompleted, TakeSlot, RingTypes, WorkerState, uhsVars,
    parseVars
<1>2. /\ \A s \in Slots : s # rx_consume => Rank(s)' = Rank(s) - 1
      /\ Rank(rx_consume) = 0
      /\ Rank(index)' = RX_ASYNC_SLOTS - 1
  BY <1>1, RingAssumption DEF Rank, Slots
<1>3. Holds(rx_consume) /\ ~Outstanding(rx_consume)
  BY <1>1, Zenon DEF Holds, Marked
<1>4. \A s \in Slots : Holds(s)' => Holds(s) /\ s # rx_consume
  BY <1>1, <1>3, Zenon DEF Holds, Outstanding, RingTypes
<1>5. LastInRing'
  BY <1>1, <1>2, Zenon DEF LastInRing
<1>6. PendingInOrder'
  <2>1. \A i \in 1 .. Len(pending) : pending[i] \in Slots /\ Rank(pending[i])' = Rank(pending[i]) - 1
    BY <1>1, <1>2, <1>3, PendingFacts, Zenon
  <2> QED
    BY <1>1, <2>1, PendingFacts, SMTT(30) DEF PendingInOrder
<1>7. HeldFirst'
  <2>1. \A i \in 1 .. Len(pending) : pending[i] \in Slots /\ Rank(pending[i])' = Rank(pending[i]) - 1
    BY <1>1, <1>2, <1>3, PendingFacts, Zenon
  <2> QED
    BY <1>1, <1>2, <1>4, <2>1, PendingFacts, SMTT(30) DEF HeldFirst
<1>8. HeldInOrder'
  BY <1>1, <1>2, <1>4, PendingFacts, SMTT(30) DEF HeldInOrder
<1>9. HeldIsNewer'
  <2>1. \A s \in Slots : Holds(s)' => Rank(rx_consume) < Rank(s)
    BY <1>1, <1>2, <1>4, RankFacts, SMTT(30)
  <2> QED
    BY <1>1, <1>3, <1>4, <2>1, Zenon DEF HeldIsNewer, HeldInOrder
<1>10. Numbered'
  BY <1>1, Zenon DEF Numbered
<1> QED
  BY <1>5, <1>6, <1>7, <1>8, <1>9, <1>10, Zenon DEF OrderInv

\* ax_rx_submit_slot queues the last slot of the ring.
LEMMA OrderSubmit ==
  ASSUME RingTypes, WorkerState, Distinct, Marked, Working, OrderInv,
         Submit
  PROVE  OrderInv'
<1> SUFFICES ASSUME LastInRing, PendingInOrder, HeldFirst, HeldInOrder, HeldIsNewer, Numbered
             PROVE  OrderInv'
  BY Zenon DEF OrderInv
<1>1. /\ pc = "submit" /\ pc' # "copy" /\ index \in Slots
      /\ pending' = Append(pending, index)
      /\ UNCHANGED <<state, buf, callbacks, wire, rx_consume, rx_async_started, g_rx>>
  BY Zenon DEF Submit, RingTypes, slotVars, axVars, parseVars
<1>2. \A s \in Slots : Outstanding(s) \/ Holds(s) => Rank(s) < Rank(index)
  <2>1. \A s \in Slots : Outstanding(s) \/ Holds(s) => s # index
    BY <1>1, Zenon DEF Holds, Working, Outstanding
  <2>2. CASE starting
    <3>1. \A s \in Slots : Outstanding(s) \/ Holds(s) => state[s] # "IDLE"
      BY <1>1, Zenon DEF Holds, Outstanding, Marked, WorkerState
    <3>2. rx_consume = 0 /\ \A s \in Slots : s > index => state[s] = "IDLE"
      BY <2>2, Zenon DEF LastInRing, Working
    <3> QED
      BY <1>1, <2>1, <3>1, <3>2, SMTT(30) DEF Rank, Slots
  <2>3. CASE ~starting
    BY <1>1, <2>1, <2>3, RankFacts, RingAssumption, SMTT(30) DEF LastInRing
  <2> QED
    BY <2>2, <2>3, Zenon
<1>3. \A s \in Slots : Rank(s)' = Rank(s) /\ (Holds(s)' => Holds(s))
  BY <1>1, Zenon DEF Rank, Holds
<1>4. LastInRing'
  BY <1>1, RingAssumption, Zenon DEF Submit, Rank, Slots, LastInRing, RingTypes
<1>5. /\ Len(pending') = Len(pending) + 1
      /\ \A i \in 1 .. Len(pending) + 1 :
           \/ i \in 1 .. Len(pending) /\ pending'[i] = pending[i] /\ pending[i] \in Slots
              /\ Rank(pending[i]) < Rank(index)
           \/ i = Len(pending) + 1 /\ pending'[i] = index
  BY <1>1, <1>2, PendingAppend, PendingFacts, Zenon
<1>6. PendingInOrder'
  BY <1>1, <1>3, <1>5, PendingFacts, SMTT(30) DEF PendingInOrder
<1>7. HeldFirst'
  BY <1>1, <1>2, <1>3, <1>5, PendingFacts, Zenon DEF HeldFirst
<1>8. HeldInOrder'
  BY <1>1, <1>3, Zenon DEF HeldInOrder
<1>9. HeldIsNewer'
  BY <1>1, <1>3, Zenon DEF HeldIsNewer
<1>10. Numbered'
  BY <1>1, Zenon DEF Numbered
<1> QED
  BY <1>4, <1>6, <1>7, <1>8, <1>9, <1>10, Zenon DEF OrderInv

\* UHS fills the slot right behind the completed ones.
LEMMA OrderComplete ==
  ASSUME RingTypes, WorkerState, Distinct, Marked, Working, OrderInv,
         NEW h \in Shapes, Complete(h)
  PROVE  OrderInv'
<1> SUFFICES ASSUME LastInRing, PendingInOrder, HeldFirst, HeldInOrder, HeldIsNewer, Numbered
             PROVE  OrderInv'
  BY Zenon DEF OrderInv
<1> DEFINE first == Head(pending)
<1> DEFINE t == [id |-> wire + 1, shape |-> h]
<1>1. /\ first \in Slots /\ first = pending[1] /\ 1 \in 1 .. Len(pending)
      /\ pending' = Tail(pending)
      /\ Len(pending') = Len(pending) - 1
      /\ \A i \in 1 .. Len(pending') :
           i + 1 \in 1 .. Len(pending) /\ pending'[i] = pending[i + 1]
  BY PendingTail, Zenon DEF Complete
<1>2. /\ buf' = [buf EXCEPT ![first] = t] /\ t.id = wire + 1
      /\ callbacks' = callbacks \cup {[slot |-> first, got |-> t]}
      /\ UNCHANGED <<state, rx_consume, rx_async_started, g_rx, pc, index, starting>>
  BY Zenon DEF Complete, axVars, parseVars, workVars
<1> HIDE DEF t
<1>3. \A s \in Slots : buf'[s].id = IF s = first THEN wire + 1 ELSE buf[s].id
  BY <1>1, <1>2, Zenon DEF RingTypes
<1>4. \A s \in Slots : Rank(s)' = Rank(s)
  BY <1>2, Zenon DEF Rank
<1>5. \A s \in Slots : Holds(s)' => Holds(s) \/ s = first
  BY <1>2, SMTT(30) DEF Holds
<1>6. rx_async_started => ~Holds(first) /\ (pc = "copy" => first # index)
  BY <1>1, PendingFacts, SMTT(30) DEF Holds, Marked, Distinct, Working
<1> HIDE DEF first
<1>7. LastInRing'
  BY <1>2, Zenon DEF Rank, LastInRing
<1>8. PendingInOrder'
  <2> SUFFICES ASSUME rx_async_started, NEW i \in 1 .. Len(pending'),
                      NEW j \in 1 .. Len(pending'), i < j
               PROVE  Rank(pending[i])' < Rank(pending[j])'
    BY <1>2, Zenon DEF PendingInOrder
  <2>1. /\ i + 1 \in 1 .. Len(pending) /\ pending'[i] = pending[i + 1]
        /\ j + 1 \in 1 .. Len(pending) /\ pending'[j] = pending[j + 1]
    BY <1>1, Zenon
  <2>2. i + 1 < j + 1
    BY <1>1, PendingFacts, SMTT(30)
  <2>3. Rank(pending[i + 1]) < Rank(pending[j + 1])
    BY <2>1, <2>2, Zenon DEF PendingInOrder
  <2>4. Rank(pending[i])' = Rank(pending[i + 1]) /\ Rank(pending[j])' = Rank(pending[j + 1])
    BY <1>2, <2>1, Zenon DEF Rank
  <2> QED
    BY <2>3, <2>4, Zenon
<1>9. HeldFirst'
  BY <1>1, <1>2, <1>4, <1>5, PendingFacts, SMTT(30) DEF HeldFirst, PendingInOrder
<1>10. wire \in Nat /\ wire' = wire + 1
  BY Zenon DEF Complete, RingTypes
<1>11. UNCHANGED <<g_rx, rx_async_started, pc, index>>
  BY <1>2, Zenon
<1>12. /\ \A s \in Slots : buf[s].id \in Nat /\ buf[s].id <= wire
       /\ g_rx.id \in Nat /\ g_rx.id <= wire
  <2>1. g_rx.id \in Nat /\ \A s \in Slots : buf[s].id \in Nat
    BY TransferFacts, Zenon DEF RingTypes
  <2> QED
    BY <2>1, Zenon DEF Numbered
<1>13. HeldInOrder'
  <2> SUFFICES ASSUME rx_async_started, NEW a \in Slots, NEW b \in Slots,
                      Holds(a)', Holds(b)', Rank(a) < Rank(b)
               PROVE  buf'[a].id < buf'[b].id
    BY <1>4, <1>11, Zenon DEF HeldInOrder
  <2>1. \A s \in Slots : Holds(s) => Rank(s) < Rank(first)
    BY <1>1, Zenon DEF HeldFirst
  <2>2. a # first /\ Holds(a)
    BY <1>1, <1>5, <2>1, PendingFacts, SMTT(30)
  <2>3. CASE b = first
    BY <1>3, <1>10, <1>12, <2>2, <2>3, SMTT(30)
  <2>4. CASE b # first
    BY <1>3, <1>5, <2>2, <2>4, Zenon DEF HeldInOrder
  <2> QED
    BY <2>3, <2>4, Zenon
<1>14. HeldIsNewer'
  <2> SUFFICES ASSUME rx_async_started
               PROVE  /\ \A s \in Slots : Holds(s)' => g_rx.id < buf'[s].id
                      /\ pc = "copy" =>
                           /\ g_rx.id < buf'[index].id
                           /\ \A s \in Slots : Holds(s)' => buf'[index].id < buf'[s].id
    BY <1>11, Zenon DEF HeldIsNewer
  <2>1. \A s \in Slots : Holds(s)' => g_rx.id < buf'[s].id
    BY <1>3, <1>5, <1>10, <1>12, SMTT(30) DEF HeldIsNewer
  <2>2. ASSUME pc = "copy"
        PROVE  /\ g_rx.id < buf'[index].id
               /\ \A s \in Slots : Holds(s)' => buf'[index].id < buf'[s].id
    <3>1. index \in Slots /\ buf'[index].id = buf[index].id
      BY <1>3, <1>6, <2>2, Zenon DEF RingTypes
    <3> QED
      BY <1>3, <1>5, <1>10, <1>12, <2>2, <3>1, SMTT(30) DEF HeldIsNewer
  <2> QED
    BY <2>1, <2>2, Zenon
<1>15. Numbered'
  <2>1. \A s \in Slots : buf'[s].id <= wire + 1
    BY <1>3, <1>10, <1>12, SMTT(30)
  <2> QED
    BY <1>10, <1>11, <1>12, <2>1, SMTT(30) DEF Numbered
<1> QED
  BY <1>7, <1>8, <1>9, <1>13, <1>14, <1>15, Zenon DEF OrderInv

\* Steps that leave the ring alone leave its order alone.
LEMMA OrderFrame ==
  ASSUME OrderInv,
         UNCHANGED <<state, buf, pending, callbacks, wire, rx_consume, rx_async_started, g_rx>>,
         \/ UNCHANGED <<pc, index, starting>>
         \/ pc \notin {"arm", "submit", "copy"} /\ pc' \notin {"arm", "submit", "copy"} /\ ~starting'
  PROVE  OrderInv'
<1>1. \A s : Rank(s)' = Rank(s)
  BY Zenon DEF Rank
<1>2. \A s : Holds(s)' = Holds(s)
  BY Zenon DEF Holds
<1>3. LastInRing'
  BY SMTT(30) DEF OrderInv, LastInRing, Rank
<1>4. PendingInOrder' /\ HeldFirst' /\ HeldInOrder'
  BY <1>1, <1>2, Zenon DEF OrderInv, PendingInOrder, HeldFirst, HeldInOrder
<1>5. HeldIsNewer' /\ Numbered'
  BY <1>2, Zenon DEF OrderInv, HeldIsNewer, Numbered
<1> QED
  BY <1>3, <1>4, <1>5, Zenon DEF OrderInv

\* A ring that stops has no order to keep.
LEMMA OrderStopped ==
  ASSUME Numbered, UNCHANGED <<buf, wire, g_rx>>,
         ~rx_async_started', pc' \notin {"arm", "submit", "copy"}, ~starting'
  PROVE  OrderInv'
BY Zenon DEF OrderInv, LastInRing, PendingInOrder, HeldFirst, HeldInOrder, HeldIsNewer,
  Numbered

\* Every step keeps the ring in order.
LEMMA NextOrder ==
  ASSUME StartNeverRefused, RingTypes, WorkerState, Distinct, Marked, Working, OrderInv,
         [Next]_vars
  PROVE  OrderInv'
<1> SUFFICES ASSUME LastInRing, PendingInOrder, HeldFirst, HeldInOrder, HeldIsNewer, Numbered
             PROVE  OrderInv'
  BY Zenon DEF OrderInv
<1> USE DEF WorkerState, slotVars, uhsVars, axVars, parseVars, workVars
<1>1. ASSUME NEW k \in 1 .. rx_frames, ReturnFrame(k) PROVE OrderInv'
  BY <1>1, OrderFrame, Zenon DEF ReturnFrame, Harvest, Stops, Rest
<1>2. ASSUME NEW k \in 1 .. rx_frames, ReturnOverrun(k) PROVE OrderInv'
  BY <1>2, OrderFrame, Zenon DEF ReturnOverrun, Goto, Stops, Rest
<1>3. CASE Exhausted
  BY <1>3, OrderFrame, Zenon DEF Exhausted, Goto, AfterBuffered, Rest
<1>4. CASE TakeNothing
  BY <1>4, OrderFrame, Zenon DEF TakeNothing, ReturnNothing
<1>5. CASE LoadFailed
  BY <1>5, OrderFrame, Zenon DEF LoadFailed, Goto
<1>6. CASE LoadZero
  BY <1>6, OrderFrame, Zenon DEF LoadZero, ReturnNothing
<1>7. CASE LoadTrailer
  BY <1>7, OrderFrame, Zenon DEF LoadTrailer, Goto, ReturnNothing
<1>8. CASE WaitSignalled
  BY <1>8, OrderFrame, Zenon DEF WaitSignalled
<1>9. CASE WaitTimeout
  BY <1>9, OrderFrame, Zenon DEF WaitTimeout
<1>10. ASSUME NEW s \in signalling, CallbackSignal(s) PROVE OrderInv'
  BY <1>10, OrderFrame, Zenon DEF CallbackSignal
<1>11. CASE Poll
  BY <1>11, OrderFrame, Zenon DEF Poll
<1>12. CASE LinkDown
  BY <1>12, OrderFrame, Zenon DEF LinkDown
<1>13. ASSUME NEW m \in Media, LinkUp(m) PROVE OrderInv'
  BY <1>13, OrderFrame, Zenon DEF LinkUp
<1>14. CASE StartRing
  <2>1. LastInRing'
    BY <1>14, SlotFacts, ZenonT(30)
      DEF StartRing, RingTypes, Marked, Working, Outstanding, Holds,
      Rank, StartNeverRefused, LastInRing
  <2>2. PendingInOrder'
    BY <1>14, SlotFacts, SMTT(30)
      DEF StartRing, RingTypes, Marked, Working, Outstanding, Holds,
      Rank, StartNeverRefused, PendingInOrder
  <2>3. HeldFirst'
    BY <1>14, SlotFacts, Zenon
      DEF StartRing, RingTypes, Marked, Working, Outstanding, Holds,
      Rank, StartNeverRefused, HeldFirst
  <2>4. HeldInOrder'
    BY <1>14, SlotFacts, Zenon
      DEF StartRing, RingTypes, Marked, Working, Outstanding, Holds,
      Rank, StartNeverRefused, HeldInOrder
  <2>5. HeldIsNewer'
    BY <1>14, SlotFacts, Zenon
      DEF StartRing, RingTypes, Marked, Working, Outstanding, Holds,
      Rank, StartNeverRefused, HeldIsNewer
  <2>6. Numbered'
    BY <1>14, SlotFacts, ZenonT(30)
      DEF StartRing, RingTypes, Marked, Working, Outstanding, Holds,
      Rank, StartNeverRefused, Numbered
  <2> QED
    BY <2>1, <2>2, <2>3, <2>4, <2>5, <2>6, Zenon DEF OrderInv
<1>15. CASE ArmSlot
  <2>1. LastInRing'
    BY <1>15, SlotFacts, Zenon DEF ArmSlot, Goto, RingTypes, Marked, Working, Outstanding,
      Holds, Rank, StartNeverRefused, LastInRing
  <2>2. PendingInOrder'
    BY <1>15, SlotFacts, Zenon DEF ArmSlot, Goto, RingTypes, Marked, Working, Outstanding,
      Holds, Rank, StartNeverRefused, PendingInOrder
  <2>3. HeldFirst'
    BY <1>15, SlotFacts, Zenon DEF ArmSlot, Goto, RingTypes, Marked, Working, Outstanding,
      Holds, Rank, StartNeverRefused, HeldFirst
  <2>4. HeldInOrder'
    BY <1>15, SlotFacts, ZenonT(30)
      DEF ArmSlot, Goto, RingTypes, Marked, Working, Outstanding,
      Holds, Rank, StartNeverRefused, HeldInOrder
  <2>5. HeldIsNewer'
    BY <1>15, SlotFacts, Zenon DEF ArmSlot, Goto, RingTypes, Marked, Working, Outstanding,
      Holds, Rank, StartNeverRefused, HeldIsNewer
  <2>6. Numbered'
    BY <1>15, SlotFacts, Zenon DEF ArmSlot, Goto, RingTypes, Marked, Working, Outstanding,
      Holds, Rank, StartNeverRefused, Numbered
  <2> QED
    BY <2>1, <2>2, <2>3, <2>4, <2>5, <2>6, Zenon DEF OrderInv
<1>16. CASE Submit
  BY <1>16, OrderSubmit, ZenonT(30)
<1>17. CASE SubmitRefused
  <2>1. LastInRing'
    BY <1>17, SlotFacts, Zenon DEF SubmitRefused, RingTypes, Marked, Working, Outstanding,
      Holds, Rank, StartNeverRefused, LastInRing
  <2>2. PendingInOrder'
    BY <1>17, SlotFacts, ZenonT(30)
      DEF SubmitRefused, RingTypes, Marked, Working, Outstanding,
      Holds, Rank, StartNeverRefused, PendingInOrder
  <2>3. HeldFirst'
    BY <1>17, SlotFacts, Zenon DEF SubmitRefused, RingTypes, Marked, Working, Outstanding,
      Holds, Rank, StartNeverRefused, HeldFirst
  <2>4. HeldInOrder'
    BY <1>17, SlotFacts, ZenonT(30)
      DEF SubmitRefused, RingTypes, Marked, Working, Outstanding,
      Holds, Rank, StartNeverRefused, HeldInOrder
  <2>5. HeldIsNewer'
    BY <1>17, SlotFacts, Zenon DEF SubmitRefused, RingTypes, Marked, Working, Outstanding,
      Holds, Rank, StartNeverRefused, HeldIsNewer
  <2>6. Numbered'
    BY <1>17, SlotFacts, Zenon DEF SubmitRefused, RingTypes, Marked, Working, Outstanding,
      Holds, Rank, StartNeverRefused, Numbered
  <2> QED
    BY <2>1, <2>2, <2>3, <2>4, <2>5, <2>6, Zenon DEF OrderInv
<1>18. CASE TakeCompleted
  BY <1>18, OrderTake, Zenon
<1>19. CASE CopyAggregate
  <2>1. LastInRing'
    BY <1>19, SlotFacts, Zenon
      DEF CopyAggregate, Goto, RingTypes, Marked, Working, Outstanding,
      Holds, Rank, StartNeverRefused, LastInRing
  <2>2. PendingInOrder'
    BY <1>19, SlotFacts, Zenon
      DEF CopyAggregate, Goto, RingTypes, Marked, Working, Outstanding,
      Holds, Rank, StartNeverRefused, PendingInOrder
  <2>3. HeldFirst'
    BY <1>19, SlotFacts, Zenon
      DEF CopyAggregate, Goto, RingTypes, Marked, Working, Outstanding,
      Holds, Rank, StartNeverRefused, HeldFirst
  <2>4. HeldInOrder'
    BY <1>19, SlotFacts, ZenonT(30)
      DEF CopyAggregate, Goto, RingTypes, Marked, Working, Outstanding,
      Holds, Rank, StartNeverRefused, HeldInOrder
  <2>5. HeldIsNewer'
    BY <1>19, SlotFacts, Zenon
      DEF CopyAggregate, Goto, RingTypes, Marked, Working, Outstanding,
      Holds, Rank, StartNeverRefused, HeldIsNewer
  <2>6. Numbered'
    BY <1>19, SlotFacts, Zenon
      DEF CopyAggregate, Goto, RingTypes, Marked, Working, Outstanding,
      Holds, Rank, StartNeverRefused, Numbered
  <2> QED
    BY <2>1, <2>2, <2>3, <2>4, <2>5, <2>6, Zenon DEF OrderInv
<1>20. ASSUME NEW h \in Shapes, Complete(h) PROVE OrderInv'
  BY <1>20, OrderComplete, Zenon
<1>21. ASSUME NEW c \in callbacks, CallbackStore(c) PROVE OrderInv'
  <2>1. LastInRing'
    BY <1>21, SlotFacts, Zenon DEF CallbackStore, RingTypes, Marked, Working, Outstanding,
      Holds, Rank, StartNeverRefused, LastInRing
  <2>2. PendingInOrder'
    BY <1>21, SlotFacts, Zenon DEF CallbackStore, RingTypes, Marked, Working, Outstanding,
      Holds, Rank, StartNeverRefused, PendingInOrder
  <2>3. HeldFirst'
    BY <1>21, SlotFacts, Zenon DEF CallbackStore, RingTypes, Marked, Working, Outstanding,
      Holds, Rank, StartNeverRefused, HeldFirst
  <2>4. HeldInOrder'
    BY <1>21, SlotFacts, ZenonT(30)
      DEF CallbackStore, RingTypes, Marked, Working, Outstanding,
      Holds, Rank, StartNeverRefused, HeldInOrder
  <2>5. HeldIsNewer'
    BY <1>21, SlotFacts, Zenon DEF CallbackStore, RingTypes, Marked, Working, Outstanding,
      Holds, Rank, StartNeverRefused, HeldIsNewer
  <2>6. Numbered'
    BY <1>21, SlotFacts, Zenon DEF CallbackStore, RingTypes, Marked, Working, Outstanding,
      Holds, Rank, StartNeverRefused, Numbered
  <2> QED
    BY <2>1, <2>2, <2>3, <2>4, <2>5, <2>6, Zenon DEF OrderInv
<1>22. CASE Open
  BY <1>22, OrderStopped, Zenon DEF Open
<1>23. CASE Close
  BY <1>23, OrderStopped, Zenon DEF Close
<1>24. CASE Abandon
  BY <1>24, OrderStopped, Zenon DEF Abandon
<1>25. CASE Reclaim
  BY <1>25, OrderStopped, Zenon DEF Reclaim
<1>26. CASE UNCHANGED vars
  BY <1>26, OrderFrame, Zenon DEF vars
<1> HIDE DEF WorkerState, slotVars, uhsVars, axVars, parseVars, workVars
<1> QED
  BY <1>1, <1>2, <1>3, <1>4, <1>5, <1>6, <1>7, <1>8, <1>9, <1>10, <1>11, <1>12, <1>13,
    <1>14, <1>15, <1>16, <1>17, <1>18, <1>19, <1>20, <1>21, <1>22, <1>23, <1>24, <1>25,
    <1>26, ZenonT(30) DEF Next, Worker, Uhs

\* The parser stays within its aggregate and behind what it has delivered.
LEMMA NextParser ==
  ASSUME StartNeverRefused, RingTypes, WorkerState, Working, OrderInv, ParserState, [Next]_vars
  PROVE  ParserState'
<1>0. /\ rx_frames \in Nat /\ rx_next \in Nat /\ g_rx.id \in Nat
      /\ Len(g_rx.shape.descs) \in Nat /\ buf[index].id \in Nat
      /\ delivered[1] \in Nat /\ delivered[2] \in Nat
      /\ pc = "copy" => g_rx.id < buf[index].id
  BY TransferFacts, Zenon DEF RingTypes, WorkerState, OrderInv, HeldIsNewer
<1> USE DEF WorkerState, ParserState, Copied, StartNeverRefused, slotVars, uhsVars, axVars, parseVars, workVars
<1>1. ASSUME NEW k \in 1 .. rx_frames, ReturnFrame(k) PROVE ParserState'
  BY <1>1, <1>0, SMTT(30) DEF ReturnFrame, Harvest, Stops, Rest
<1>2. ASSUME NEW k \in 1 .. rx_frames, ReturnOverrun(k) PROVE ParserState'
  BY <1>2, <1>0, SMTT(30) DEF ReturnOverrun, Goto, Stops, Rest
<1>3. CASE Exhausted
  BY <1>3, <1>0, SMTT(30) DEF Exhausted, Goto, AfterBuffered, Rest
<1>4. CASE StartRing
  BY <1>4, <1>0, Zenon DEF StartRing
<1>5. CASE ArmSlot
  BY <1>5, <1>0, Zenon DEF ArmSlot, Goto
<1>6. CASE Submit
  BY <1>6, <1>0, Zenon DEF Submit
<1>7. CASE SubmitRefused
  BY <1>7, <1>0, Zenon DEF SubmitRefused
<1>8. CASE TakeNothing
  BY <1>8, <1>0, Zenon DEF TakeNothing, ReturnNothing
<1>9. CASE TakeCompleted
  BY <1>9, <1>0, Zenon DEF TakeCompleted, TakeSlot
<1>10. CASE CopyAggregate
  BY <1>10, <1>0, SMTT(30) DEF CopyAggregate, Goto
<1>11. CASE LoadFailed
  BY <1>11, <1>0, Zenon DEF LoadFailed, Goto
<1>12. CASE LoadZero
  BY <1>12, <1>0, ZenonT(30) DEF LoadZero, ReturnNothing
<1>13. CASE LoadTrailer
  BY <1>13, <1>0, SMTT(30) DEF LoadTrailer, Goto, ReturnNothing
<1>14. CASE WaitSignalled
  BY <1>14, <1>0, Zenon DEF WaitSignalled
<1>15. CASE WaitTimeout
  BY <1>15, <1>0, Zenon DEF WaitTimeout
<1>16. ASSUME NEW h \in Shapes, Complete(h) PROVE ParserState'
  BY <1>16, <1>0, Zenon DEF Complete
<1>17. ASSUME NEW c \in callbacks, CallbackStore(c) PROVE ParserState'
  BY <1>17, <1>0, Zenon DEF CallbackStore
<1>18. ASSUME NEW s \in signalling, CallbackSignal(s) PROVE ParserState'
  BY <1>18, <1>0, Zenon DEF CallbackSignal
<1>19. CASE Poll
  BY <1>19, <1>0, ZenonT(30) DEF Poll
<1>20. CASE Open
  BY <1>20, <1>0, SMTT(30) DEF Open
<1>21. CASE Close
  BY <1>21, <1>0, SMTT(30) DEF Close
<1>22. CASE Abandon
  BY <1>22, <1>0, SMTT(30) DEF Abandon
<1>23. CASE Reclaim
  BY <1>23, <1>0, Zenon DEF Reclaim
<1>24. CASE LinkDown
  BY <1>24, <1>0, SMTT(30) DEF LinkDown
<1>25. ASSUME NEW m \in Media, LinkUp(m) PROVE ParserState'
  BY <1>25, <1>0, SMTT(30) DEF LinkUp
<1>26. CASE UNCHANGED vars
  BY <1>26, Zenon DEF vars
<1> HIDE DEF WorkerState, ParserState, Copied, StartNeverRefused, slotVars, uhsVars, axVars, parseVars, workVars
<1> QED
  BY <1>1, <1>2, <1>3, <1>4, <1>5, <1>6, <1>7, <1>8, <1>9, <1>10, <1>11, <1>12, <1>13,
    <1>14, <1>15, <1>16, <1>17, <1>18, <1>19, <1>20, <1>21, <1>22, <1>23, <1>24, <1>25,
    <1>26, Zenon DEF Next, Worker, Uhs

-------------------------------------------------------------------------------
(* The theorems.                                                            *)

\* Only receive_buffered_impl hands a frame to lwIP.
LEMMA WhoDelivers ==
  ASSUME Next
  PROVE  (\E k \in 1 .. rx_frames : ReturnFrame(k)) \/ UNCHANGED delivered
<1> USE DEF parseVars
<1>1. CASE Worker
  BY <1>1, Zenon DEF Worker, ReturnOverrun, Exhausted, StartRing, ArmSlot, Submit,
    SubmitRefused,
    TakeNothing, TakeCompleted, TakeSlot, CopyAggregate, LoadFailed, LoadZero, LoadTrailer,
    WaitSignalled, WaitTimeout
<1>2. ASSUME NEW h \in Shapes, Complete(h) PROVE UNCHANGED <<delivered, g_rx>>
  BY <1>2, Zenon DEF Complete
<1>3. ASSUME NEW c \in callbacks, CallbackStore(c) PROVE UNCHANGED <<delivered, g_rx>>
  BY <1>3, Zenon DEF CallbackStore
<1>4. ASSUME NEW s \in signalling, CallbackSignal(s) PROVE UNCHANGED <<delivered, g_rx>>
  BY <1>4, Zenon DEF CallbackSignal
<1>5. ASSUME NEW m \in Media, LinkUp(m) PROVE UNCHANGED <<delivered, g_rx>>
  BY <1>5, Zenon DEF LinkUp
<1>6. CASE Poll \/ Open \/ Close \/ Abandon \/ Reclaim \/ LinkDown
  BY <1>6, Zenon DEF Poll, Open, Close, Abandon, Reclaim, LinkDown
<1> HIDE DEF parseVars
<1> QED
  BY <1>1, <1>2, <1>3, <1>4, <1>5, <1>6, Zenon DEF Next, Uhs

\* Only ax_rx_take_completed replaces the aggregate, where it copies one out.
LEMMA WhoReplaces ==
  ASSUME Next
  PROVE  CopyAggregate \/ UNCHANGED g_rx
<1> USE DEF parseVars
<1>1. CASE Worker
  BY <1>1, ZenonT(30)
    DEF Worker, ReturnFrame, ReturnOverrun, Exhausted, StartRing, ArmSlot,
    Submit,
    SubmitRefused, TakeNothing, TakeCompleted, TakeSlot, LoadFailed, LoadZero, LoadTrailer,
    WaitSignalled, WaitTimeout
<1>2. ASSUME NEW h \in Shapes, Complete(h) PROVE UNCHANGED <<delivered, g_rx>>
  BY <1>2, Zenon DEF Complete
<1>3. ASSUME NEW c \in callbacks, CallbackStore(c) PROVE UNCHANGED <<delivered, g_rx>>
  BY <1>3, Zenon DEF CallbackStore
<1>4. ASSUME NEW s \in signalling, CallbackSignal(s) PROVE UNCHANGED <<delivered, g_rx>>
  BY <1>4, Zenon DEF CallbackSignal
<1>5. ASSUME NEW m \in Media, LinkUp(m) PROVE UNCHANGED <<delivered, g_rx>>
  BY <1>5, Zenon DEF LinkUp
<1>6. CASE Poll \/ Open \/ Close \/ Abandon \/ Reclaim \/ LinkDown
  BY <1>6, Zenon DEF Poll, Open, Close, Abandon, Reclaim, LinkDown
<1> HIDE DEF parseVars
<1> QED
  BY <1>1, <1>2, <1>3, <1>4, <1>5, <1>6, ZenonT(30) DEF Next, Uhs

\* Before the first open nothing is outstanding and nothing was delivered.
LEMMA InitInv == Init => RingInv /\ NoLostWakeup
<1> SUFFICES ASSUME Init PROVE RingInv /\ NoLostWakeup
  BY Zenon
<1> USE SlotFacts, RingAssumption, BoundsAssumption DEF Init
<1>1. RingTypes
  BY SMTT(30) DEF RingTypes
<1>2. WorkerState /\ Distinct /\ Marked /\ Working /\ NoLostWakeup
  BY SMTT(30) DEF WorkerState, Distinct, Marked, Working, Outstanding, NoLostWakeup
<1>3. OrderInv
  BY SMTT(30) DEF OrderInv, LastInRing, PendingInOrder, HeldFirst, HeldInOrder,
    HeldIsNewer,
    Numbered, NoTransfer
<1>4. ParserState
  <2>1. Len(NoTransfer.shape.descs) = 0 /\ NoTransfer.id = 0
    BY Zenon DEF NoTransfer
  <2>2. delivered[1] = 0
    BY Zenon
  <2> QED
    BY <2>1, <2>2, SMTT(30) DEF ParserState, Copied
<1> QED
  BY <1>1, <1>2, <1>3, <1>4, Zenon DEF RingInv

\* A worker that found its next slot incomplete (ax88179_receive) does not sleep
\* on after ax_rx_async_callback completed that slot: the event is set or the
\* callback is about to set it, whatever UHS refuses.
THEOREM WakeupNotLost == Spec => []NoLostWakeup
<1> DEFINE Inv == RingTypes /\ WorkerState /\ NoLostWakeup
<1>1. Init => Inv
  BY InitInv, Zenon DEF RingInv
<1>2. Inv /\ [Next]_vars => Inv'
  BY NextTypes, NextWorkerState, NextWakeup, Zenon
<1> QED
  BY <1>1, <1>2, PTL DEF Spec

\* The inductive invariant of the ring.
THEOREM RingInvariant ==
  ASSUME StartNeverRefused
  PROVE  Spec => []RingInv
<1>1. Init => RingInv
  BY InitInv, Zenon
<1>2. RingInv /\ [Next]_vars => RingInv'
  BY NextTypes, NextWorkerState, NextOwners, NextOrder, NextParser, Zenon DEF RingInv
<1> QED
  BY <1>1, <1>2, PTL DEF Spec

\* UHS, a callback and the worker never own the same receive buffer: UHS does not
\* write an aggregate that ax_rx_take_completed has yet to copy out.
THEOREM BufferHasOneOwner ==
  ASSUME StartNeverRefused
  PROVE  Spec => []OneOwnerPerBuffer
<1>1. RingInv => OneOwnerPerBuffer
  BY DEF RingInv, Distinct, Marked, Outstanding, OneOwnerPerBuffer, Requests, Completed
<1> QED
  BY <1>1, RingInvariant, PTL

\* Frames reach lwIP in wire order and once, none is dropped because its aggregate
\* is replaced too early, and receive_buffered_impl stays within the aggregate.
THEOREM FramesInOrder ==
  ASSUME StartNeverRefused
  PROVE  Spec => FramesArrive
<1> DEFINE Arrive == ParserInBounds /\ InOrder /\ (g_rx' # g_rx => rx_next >= rx_frames)
<1>1. RingInv /\ [Next]_vars => [Arrive]_vars
  <2> SUFFICES ASSUME RingInv, Next PROVE Arrive
    BY Zenon
  <2>1. ParserInBounds
    BY Zenon DEF RingInv, ParserState, Copied, ParserInBounds
  <2>2. InOrder
    <3>1. ASSUME NEW k \in 1 .. rx_frames, ReturnFrame(k) PROVE InOrder
      <4>1. /\ delivered' = <<g_rx.id, k>> /\ k > rx_next /\ rx_next < rx_frames
            /\ g_rx.id \in Nat /\ rx_next \in Nat /\ rx_frames \in Nat
            /\ delivered[1] \in Nat /\ delivered[2] \in Nat
        BY <3>1, TransferFacts, SMTT(30) DEF ReturnFrame, Stops, Rest, RingInv, RingTypes
      <4> QED
        BY <4>1, SMTT(30) DEF InOrder, RingInv, ParserState
    <3>2. CASE UNCHANGED delivered
      BY <3>2, Zenon DEF InOrder
    <3> QED
      BY <3>1, <3>2, WhoDelivers, Zenon
  <2>3. g_rx' # g_rx => pc = "copy"
    BY WhoReplaces, Zenon DEF CopyAggregate
  <2> QED
    BY <2>1, <2>2, <2>3, Zenon DEF RingInv, ParserState
<1> QED
  BY <1>1, RingInvariant, PTL DEF Spec, FramesArrive

\* ax_rx_take_completed copies the aggregates out in the order of the wire.
THEOREM AggregatesInOrder ==
  ASSUME StartNeverRefused
  PROVE  Spec => AggregateOrder
<1>1. RingInv /\ [Next]_vars => [g_rx' # g_rx => g_rx'.id > g_rx.id]_vars
  <2> SUFFICES ASSUME RingInv, Next PROVE g_rx' # g_rx => g_rx'.id > g_rx.id
    BY Zenon
  <2>1. CASE CopyAggregate
    <3>1. g_rx' = buf[index] /\ pc = "copy"
      BY <2>1, Zenon DEF CopyAggregate
    <3>2. g_rx.id < buf[index].id
      BY <3>1, Zenon DEF RingInv, OrderInv, HeldIsNewer, WorkerState
    <3>3. g_rx.id \in Nat /\ buf[index].id \in Nat
      BY TransferFacts, Zenon DEF RingInv, RingTypes
    <3> QED
      BY <3>1, <3>2, <3>3, Zenon
  <2> QED
    BY <2>1, WhoReplaces, Zenon
<1> QED
  BY <1>1, RingInvariant, PTL DEF Spec, AggregateOrder

-------------------------------------------------------------------------------
(* The members of a finite set in the order of their places.               *)

\* pos gives every member of S a place of its own.
Placed(S, pos) ==
  /\ IsFiniteSet(S)
  /\ \A s \in S : pos[s] \in Int
  /\ \A s, t \in S : pos[s] = pos[t] => s = t

\* A member with a larger place has more members before it.
LEMMA BeforeFacts ==
  ASSUME NEW S, NEW pos, Placed(S, pos)
  PROVE  /\ Cardinality(S) \in Nat
         /\ \A s \in S : /\ IsFiniteSet(Before(S, pos, s))
                         /\ Cardinality(Before(S, pos, s)) \in 0 .. Cardinality(S) - 1
         /\ \A s, t \in S :
              Cardinality(Before(S, pos, s)) = Cardinality(Before(S, pos, t)) => s = t
<1>1. IsFiniteSet(S) /\ Cardinality(S) \in Nat
  BY FS_CardinalityType, Zenon DEF Placed
<1>2. ASSUME NEW s \in S
      PROVE  /\ IsFiniteSet(Before(S, pos, s)) /\ Cardinality(Before(S, pos, s)) \in Nat
             /\ Cardinality(Before(S, pos, s)) < Cardinality(S)
  <2>1. Before(S, pos, s) \in SUBSET S /\ s \notin Before(S, pos, s)
    BY SMTT(30) DEF Before, Placed
  <2>2. /\ IsFiniteSet(Before(S, pos, s))
        /\ Cardinality(Before(S, pos, s)) <= Cardinality(S)
        /\ Cardinality(S) = Cardinality(Before(S, pos, s)) => S = Before(S, pos, s)
    BY <1>1, <2>1, FS_Subset, Zenon
  <2>3. Cardinality(Before(S, pos, s)) \in Nat
    BY <2>2, FS_CardinalityType, Zenon
  <2> QED
    BY <1>1, <2>1, <2>2, <2>3, SMTT(30)
<1>3. ASSUME NEW s \in S, NEW t \in S, pos[s] < pos[t]
      PROVE  Cardinality(Before(S, pos, s)) # Cardinality(Before(S, pos, t))
  <2>1. /\ Before(S, pos, s) \in SUBSET Before(S, pos, t)
        /\ s \in Before(S, pos, t) /\ s \notin Before(S, pos, s)
    BY <1>3 DEF Before, Placed
  <2> QED
    BY <1>2, <2>1, FS_Subset, Zenon
<1>4. ASSUME NEW s \in S, NEW t \in S,
             Cardinality(Before(S, pos, s)) = Cardinality(Before(S, pos, t))
      PROVE  s = t
  <2>1. ~(pos[s] < pos[t]) /\ ~(pos[t] < pos[s])
    BY <1>3, <1>4, Zenon
  <2>2. pos[s] \in Int /\ pos[t] \in Int
    BY Zenon DEF Placed
  <2> QED
    BY <2>1, <2>2, SMTT(30) DEF Placed
<1> QED
  BY <1>1, <1>2, <1>4, SMTT(30)

\* Every number up to the size of S is that of a member, and of one only.
LEMMA NthFacts ==
  ASSUME NEW S, NEW pos, Placed(S, pos)
  PROVE  \A k \in 1 .. Cardinality(S) :
           /\ Nth(S, pos, k) \in S
           /\ \A s \in S : s = Nth(S, pos, k) <=> Cardinality(Before(S, pos, s)) = k - 1
<1> DEFINE n == Cardinality(S)
<1> DEFINE f == [s \in S |-> Cardinality(Before(S, pos, s)) + 1]
<1>1. n \in Nat
  BY BeforeFacts, Zenon
<1>2. f \in [S -> 1 .. n] /\ \A s, t \in S : f[s] = f[t] => s = t
  BY <1>1, BeforeFacts
<1>3. f \in Injection(S, 1 .. n)
  BY <1>2, ZenonT(30) DEF Injection, IsInjective
<1>4. IsFiniteSet(1 .. n) /\ Cardinality(1 .. n) = n
  BY <1>1, FS_Interval, SMTT(30)
<1>5. f \in Surjection(S, 1 .. n)
  BY <1>3, <1>4, FS_Injection, Zenon
<1>6. \A k \in 1 .. n : \E s \in S : f[s] = k
  BY <1>5, Zenon DEF Surjection
<1>7. ASSUME NEW k \in 1 .. n
      PROVE  Nth(S, pos, k) \in S /\ Cardinality(Before(S, pos, Nth(S, pos, k))) = k - 1
  <2>1. \E s \in S : Cardinality(Before(S, pos, s)) = k - 1
    BY <1>6, BeforeFacts, SMTT(30)
  <2> QED
    BY <2>1, Zenon DEF Nth
<1> QED
  BY <1>7, BeforeFacts, Zenon

\* T has one member more than S, behind all others.
Follows(S, T, pos, x) ==
  /\ x \notin S
  /\ T = S \cup {x}
  /\ Placed(S, pos)
  /\ Placed(T, pos)
  /\ \A s \in S : pos[s] < pos[x]

\* The new member is the last; the others keep their numbers.
LEMMA NthAdd ==
  ASSUME NEW S, NEW T, NEW pos, NEW x, Follows(S, T, pos, x)
  PROVE  /\ Cardinality(T) = Cardinality(S) + 1
         /\ \A k \in 1 .. Cardinality(S) : Nth(T, pos, k) = Nth(S, pos, k)
         /\ Nth(T, pos, Cardinality(S) + 1) = x
<1>1. /\ Cardinality(S) \in Nat /\ Cardinality(T) = Cardinality(S) + 1
  BY BeforeFacts, FS_AddElement, Zenon DEF Follows, Placed
<1>2. \A s \in S : Before(T, pos, s) = Before(S, pos, s)
  BY DEF Follows, Before, Placed
<1>3. Before(T, pos, x) = S
  BY SMTT(30) DEF Follows, Before, Placed
<1>4. ASSUME NEW k \in 1 .. Cardinality(S) PROVE Nth(T, pos, k) = Nth(S, pos, k)
  <2>1. /\ Nth(S, pos, k) \in S
        /\ Cardinality(Before(S, pos, Nth(S, pos, k))) = k - 1
    BY NthFacts, Zenon DEF Follows
  <2>2. k \in 1 .. Cardinality(T)
    BY <1>1
  <2>3. Nth(S, pos, k) \in T /\ Cardinality(Before(T, pos, Nth(S, pos, k))) = k - 1
    BY <1>2, <2>1, Zenon DEF Follows
  <2> QED
    BY <2>2, <2>3, NthFacts, ZenonT(30) DEF Follows
<1>5. Nth(T, pos, Cardinality(S) + 1) = x
  <2>1. /\ Cardinality(S) + 1 \in 1 .. Cardinality(T)
        /\ Cardinality(Before(T, pos, x)) = (Cardinality(S) + 1) - 1
        /\ x \in T
    BY <1>1, <1>3, SMTT(30) DEF Follows
  <2> QED
    BY <2>1, NthFacts, ZenonT(30) DEF Follows
<1> QED
  BY <1>1, <1>4, <1>5, Zenon

\* Without its first member the others move up by one, whatever their places are
\* now, as long as they keep their order.
LEMMA NthRemove ==
  ASSUME NEW S, NEW pos, NEW new, NEW x \in S, Placed(S, pos), Placed(S \ {x}, new),
         \A s \in S \ {x} : pos[x] < pos[s],
         \A s, t \in S \ {x} : pos[s] < pos[t] <=> new[s] < new[t]
  PROVE  /\ Cardinality(S) = Cardinality(S \ {x}) + 1
         /\ Nth(S, pos, 1) = x
         /\ \A k \in 1 .. Cardinality(S \ {x}) : Nth(S \ {x}, new, k) = Nth(S, pos, k + 1)
<1> DEFINE T == S \ {x}
<1>1. /\ Cardinality(T) \in Nat /\ Cardinality(S) = Cardinality(T) + 1
  <2>1. IsFiniteSet(S) /\ x \in S
    BY Zenon DEF Placed
  <2>2. Cardinality(S) \in Nat
    BY BeforeFacts, Zenon
  <2>3. Cardinality(T) \in Nat
    BY BeforeFacts, Zenon
  <2>4. Cardinality(T) = IF x \in S THEN Cardinality(S) - 1 ELSE Cardinality(S)
    BY <2>1, FS_RemoveElement, Zenon
  <2> QED
    BY <2>1, <2>2, <2>3, <2>4
<1>2. Before(S, pos, x) = {}
  BY DEF Before, Placed
<1>3. ASSUME NEW s \in T
      PROVE  Cardinality(Before(S, pos, s)) = Cardinality(Before(T, new, s)) + 1
  <2>1. Before(S, pos, s) = Before(T, new, s) \cup {x} /\ x \notin Before(T, new, s)
    BY Zenon DEF Before
  <2>2. IsFiniteSet(Before(T, new, s))
    BY BeforeFacts, Zenon
  <2> QED
    BY <2>1, <2>2, FS_AddElement, ZenonT(30)
<1>4. Nth(S, pos, 1) = x
  <2>1. 1 \in 1 .. Cardinality(S) /\ Cardinality(Before(S, pos, x)) = 1 - 1
    BY <1>1, <1>2, FS_EmptySet, SMTT(30)
  <2> QED
    BY <2>1, NthFacts, Zenon
<1>5. ASSUME NEW k \in 1 .. Cardinality(T) PROVE Nth(T, new, k) = Nth(S, pos, k + 1)
  <2>1. Nth(T, new, k) \in T /\ Cardinality(Before(T, new, Nth(T, new, k))) = k - 1
    BY NthFacts, SMTT(30)
  <2>2. /\ k + 1 \in 1 .. Cardinality(S)
        /\ Cardinality(Before(S, pos, Nth(T, new, k))) = (k + 1) - 1
    <3>1. Cardinality(Before(S, pos, Nth(T, new, k)))
            = Cardinality(Before(T, new, Nth(T, new, k))) + 1
      BY <1>3, <2>1, ZenonT(30)
    <3> QED
      BY <1>1, <2>1, <3>1
  <2> QED
    BY <2>1, <2>2, NthFacts, SMTT(30)
<1> QED
  BY <1>1, <1>4, <1>5, ZenonT(30)

-------------------------------------------------------------------------------
(* The ring is a FIFO of transfers.                                        *)

\* What RxRing does to the FIFO in one step.
FifoStep == Fifo!FifoNext \/ UNCHANGED Fifo!fifoVars

\* The transfer that is being parsed, as the FIFO sees it.
Current == IF Parsing THEN g_rx ELSE NoTransfer

\* A sequence is a function on its positions.
LEMMA SeqIsFunction ==
  ASSUME NEW T, NEW q \in Seq(T)
  PROVE  q \in [1 .. Len(q) -> T]
OBVIOUS

\* While the ring runs, the completed transfers are those with their callback to
\* come and those the callback marked DONE.
FilledIsCompleted ==
  rx_async_started =>
    \A s : s \in Filled <=>
            s \in Slots /\ (state[s] = "DONE" \/ \E d \in callbacks : d.slot = s)

\* This holds before and after every step.
LEMMA FilledMembers == FilledIsCompleted
BY ZenonT(30) DEF FilledIsCompleted, Filled, Completed

\* Distances are places of their own, and the oldest slot has the smallest.
LEMMA DistanceFacts ==
  ASSUME RingTypes
  PROVE  /\ Oldest \in Slots /\ Distance[Oldest] = 0
         /\ \A s \in Slots : /\ Distance[s] \in 0 .. RX_ASYNC_SLOTS - 1
                             /\ s # Oldest => Distance[s] > 0
         /\ \A S \in SUBSET Slots : Placed(S, Distance)
<1>1. Oldest \in Slots
  BY Zenon DEF Oldest, RingTypes
<1>2. /\ Distance[Oldest] = 0
      /\ \A s \in Slots : /\ Distance[s] \in 0 .. RX_ASYNC_SLOTS - 1
                          /\ s # Oldest => Distance[s] > 0
      /\ \A s, t \in Slots : Distance[s] = Distance[t] => s = t
  BY <1>1, RingAssumption DEF Distance, Slots
<1>3. ASSUME NEW S \in SUBSET Slots PROVE IsFiniteSet(S)
  <2>1. 0 \in Int /\ RX_ASYNC_SLOTS - 1 \in Int
    BY RingAssumption
  <2>2. IsFiniteSet(Slots)
    BY <2>1, FS_Interval, Zenon DEF Slots
  <2> QED
    BY <2>2, FS_Subset, Zenon
<1>4. ASSUME NEW S \in SUBSET Slots PROVE Placed(S, Distance)
  <2>1. \A s \in S : Distance[s] \in Int
    BY <1>2, RingAssumption, SMTT(30)
  <2> QED
    BY <1>2, <1>3, <2>1, Zenon DEF Placed
<1> QED
  BY <1>1, <1>2, <1>4, Zenon

\* Distances count from the slot that is being copied, ranks from the next one.
LEMMA DistanceIsRank ==
  ASSUME RingTypes, WorkerState, LastInRing
  PROVE  /\ pc # "copy" => \A s \in Slots : Distance[s] = Rank(s)
         /\ pc = "copy" => \A s \in Slots : s # index => Distance[s] = Rank(s) + 1
<1>1. rx_consume \in Slots /\ index \in Slots
  BY Zenon DEF RingTypes
<1>2. CASE pc # "copy"
  BY <1>1, <1>2, RingAssumption, SMTT(30) DEF Distance, Oldest, Rank, Slots
<1>3. CASE pc = "copy"
  <2>1. Rank(index) = RX_ASYNC_SLOTS - 1
    BY <1>3, Zenon DEF LastInRing, WorkerState
  <2> QED
    BY <1>1, <1>3, <2>1, RingAssumption, SMTT(30) DEF Distance, Oldest, Rank, Slots
<1> QED
  BY <1>2, <1>3, Zenon

\* When the next slot becomes the oldest, the others come nearer by one.
LEMMA DistanceNext ==
  ASSUME Oldest \in Slots,
         Oldest' = IF Oldest + 1 = RX_ASYNC_SLOTS THEN 0 ELSE Oldest + 1
  PROVE  \A s \in Slots : s # Oldest => Distance'[s] = Distance[s] - 1
BY RingAssumption, SMTT(30) DEF Distance, Slots

\* The FIFO as a sequence.
LEMMA InFlightFacts ==
  ASSUME RingTypes
  PROVE  /\ Filled \in SUBSET Slots /\ Placed(Filled, Distance)
         /\ InFlight \in Seq(Transfers \cup {NoTransfer})
         /\ Len(InFlight) = Cardinality(Filled) /\ Cardinality(Filled) \in Nat
         /\ \A k \in 1 .. Cardinality(Filled) : InFlight[k] = buf[Nth(Filled, Distance, k)]
<1>1. Filled \in SUBSET Slots
  BY Zenon DEF Filled
<1>2. Placed(Filled, Distance)
  BY <1>1, DistanceFacts, Zenon
<1>3. Cardinality(Filled) \in Nat
  BY <1>2, BeforeFacts, Zenon
<1>4. \A k \in 1 .. Cardinality(Filled) : Nth(Filled, Distance, k) \in Slots
  BY <1>1, <1>2, NthFacts, Zenon
<1>5. \A k \in 1 .. Cardinality(Filled) : buf[Nth(Filled, Distance, k)] \in Transfers \cup {NoTransfer}
  BY <1>4, Zenon DEF RingTypes
<1> QED
  BY <1>1, <1>2, <1>3, <1>5, SMTT(30) DEF InFlight

\* Also after a step.
LEMMA FilledPlaced == RingTypes => Placed(Filled, Distance)
BY InFlightFacts, Zenon

\* A ring without completed transfers is an empty FIFO.
LEMMA NothingInFlight == Filled = {} => InFlight = << >>
BY FS_EmptySet, SMTT(30) DEF InFlight

\* Steps that leave the completed transfers alone, and after which no aggregate is
\* parsed that was not parsed before.
LEMMA QuietStep ==
  ASSUME Filled' = Filled, Oldest' = Oldest, buf' = buf, g_rx' = g_rx, Parsing' => Parsing
  PROVE  FifoStep
<1>1. Distance' = Distance
  BY Zenon DEF Distance
<1>2. InFlight' = InFlight
  BY <1>1, Zenon DEF InFlight
<1>3. Current' = Current \/ Current' = NoTransfer
  BY Zenon DEF Current
<1> QED
  BY <1>2, <1>3, Zenon DEF FifoStep, Fifo!FifoNext, Fifo!Done, Fifo!fifoVars, Current

\* Steps that start or stop the ring.
LEMMA FlushStep ==
  ASSUME Filled' = {}, ~Parsing'
  PROVE  FifoStep
<1>1. InFlight' = << >>
  BY FS_EmptySet, SMTT(30) DEF InFlight
<1> QED
  BY <1>1, Zenon DEF FifoStep, Fifo!FifoNext, Fifo!Flush

\* Steps that take the oldest slot out of the completed ones.
LEMMA DropOldest ==
  ASSUME RingTypes, RingTypes', Oldest \in Filled, Filled' = Filled \ {Oldest}, buf' = buf,
         Oldest' = IF Oldest + 1 = RX_ASYNC_SLOTS THEN 0 ELSE Oldest + 1
  PROVE  InFlight # << >> /\ Head(InFlight) = buf[Oldest] /\ InFlight' = Tail(InFlight)
<1>1. PICK old, F, pos, new : old = Oldest /\ F = Filled /\ pos = Distance /\ new = Distance'
  BY Zenon
<1>2. /\ F \in SUBSET Slots /\ Placed(F, pos) /\ Placed(F \ {old}, new) /\ old \in F
  <2>1. Placed(Filled, Distance)'
    BY FilledPlaced, PTL
  <2> QED
    BY <1>1, <2>1, InFlightFacts, Zenon
<1>3. \A s \in F \ {old} : pos[old] < pos[s] /\ new[s] = pos[s] - 1 /\ pos[s] \in Int
  BY <1>1, <1>2, DistanceFacts, DistanceNext, SMTT(30)
<1>4. /\ Cardinality(F) = Cardinality(F \ {old}) + 1
      /\ Nth(F, pos, 1) = old
      /\ \A k \in 1 .. Cardinality(F \ {old}) : Nth(F \ {old}, new, k) = Nth(F, pos, k + 1)
  BY <1>2, <1>3, NthRemove, SMTT(30)
<1>5. InFlight' = [k \in 1 .. Cardinality(F \ {old}) |-> buf[Nth(F, pos, k + 1)]]
  BY <1>1, <1>4, Zenon DEF InFlight
<1>6. /\ InFlight \in Seq(Transfers \cup {NoTransfer})
      /\ Len(InFlight) = Cardinality(F) /\ Cardinality(F) \in Nat
      /\ \A k \in 1 .. Cardinality(F) : InFlight[k] = buf[Nth(F, pos, k)]
  BY <1>1, InFlightFacts, Zenon
<1>7. Cardinality(F \ {old}) \in Nat
  BY <1>2, BeforeFacts, Zenon
<1>8. InFlight # << >> /\ Head(InFlight) = buf[old] /\ InFlight' = Tail(InFlight)
  <2>1. PICK n : n = Cardinality(F \ {old})
    BY Zenon
  <2>2. PICK item : item = [k \in 1 .. n + 1 |-> buf[Nth(F, pos, k)]]
    BY Zenon
  <2>3. n \in Nat /\ Cardinality(F) = n + 1 /\ 1 \in 1 .. n + 1
    BY <1>4, <1>7, <2>1, SMTT(30)
  <2>4. Len(InFlight) = n + 1 /\ \A k \in 1 .. n + 1 : InFlight[k] = item[k]
    BY <1>6, <2>2, <2>3, Zenon
  <2>5. item[1] = buf[old]
    BY <1>4, <2>2, <2>3, Zenon
  <2>6. InFlight' = [k \in 1 .. n |-> item[k + 1]]
    <3>1. \A k \in 1 .. n : item[k + 1] = buf[Nth(F, pos, k + 1)]
      BY <2>2, <2>3, SMTT(30)
    <3> QED
      BY <1>5, <2>1, <3>1, ZenonT(30)
  <2>7. InFlight # << >> /\ Head(InFlight) = item[1]
    BY <1>6, <2>3, <2>4, SMTT(30)
  <2>8. Tail(InFlight) = [k \in 1 .. n |-> item[k + 1]]
    <3>1. /\ Tail(InFlight) \in Seq(Transfers \cup {NoTransfer}) /\ Len(Tail(InFlight)) = n
          /\ \A k \in 1 .. n : Tail(InFlight)[k] = InFlight[k + 1]
      BY <1>6, <2>3, <2>4, <2>7, SMTT(30)
    <3>2. \A k \in 1 .. n : Tail(InFlight)[k] = item[k + 1]
      BY <2>3, <2>4, <3>1, SMTT(30)
    <3>3. Tail(InFlight) = [k \in 1 .. n |-> Tail(InFlight)[k]]
      <4>1. Tail(InFlight) \in [1 .. n -> Transfers \cup {NoTransfer}]
        BY <3>1, SeqIsFunction, Zenon
      <4> QED
        BY <4>1, Zenon
    <3> QED
      BY <3>2, <3>3, ZenonT(30)
  <2> QED
    BY <2>5, <2>6, <2>7, <2>8, ZenonT(30)
<1> QED
  BY <1>1, <1>8, Zenon

\* UHS completes the oldest request: its transfer is the last of the FIFO.
LEMMA CompleteStep ==
  ASSUME RingInv, NEW h \in Shapes, Complete(h)
  PROVE  FifoStep
<1>1. /\ UNCHANGED <<state, rx_async_started, rx_consume, g_rx, rx_next, rx_frames, pc, index,
                     starting, took>>
      /\ pending # << >>
  BY Zenon DEF Complete, axVars, parseVars, workVars
<1>2. Current' = Current /\ Oldest' = Oldest
  BY <1>1, Zenon DEF Current, Parsing, Oldest
<1>3. CASE ~rx_async_started
  <2>1. Filled = {} /\ Filled' = {}
    BY <1>1, <1>3, ZenonT(30) DEF Filled
  <2>2. InFlight = << >> /\ InFlight' = << >>
    BY <2>1, FS_EmptySet, SMTT(30) DEF InFlight
  <2> QED
    BY <1>2, <2>2, Zenon DEF FifoStep, Fifo!fifoVars, Current
<1>4. CASE rx_async_started
  <2>1. PICK x, t, F, G, pos : /\ x = Head(pending) /\ t = [id |-> wire + 1, shape |-> h]
                               /\ F = Filled /\ G = Filled \cup {x} /\ pos = Distance
    BY Zenon
  <2>2. /\ x \in Slots /\ x = pending[1] /\ 1 \in 1 .. Len(pending) /\ Outstanding(x)
        /\ state[x] = "PENDING"
    BY <1>1, <1>4, <2>1, PendingTail, PendingFacts, Zenon DEF RingInv, Marked
  <2>3. /\ buf' = [buf EXCEPT ![x] = t]
        /\ callbacks' = callbacks \cup {[slot |-> x, got |-> t]}
        /\ wire < MaxWire
    BY <2>1, ZenonT(30) DEF Complete
  <2>4. t \in Transfers
    BY <2>1, <2>3, BoundsAssumption, SMTT(30) DEF RingInv, RingTypes, Transfers
  <2>5. Filled' = G /\ G = F \cup {x}
    <3>1. \A s : s \in Filled <=>
                s \in Slots /\ (state[s] = "DONE" \/ \E d \in callbacks : d.slot = s)
      BY <1>4, FilledMembers, SMTT(30) DEF FilledIsCompleted
    <3>2. FilledIsCompleted'
      BY FilledMembers, PTL
    <3>3. \A s : s \in Filled' <=> s \in Filled \/ s = x
      <4>1. \A s : (\E c \in callbacks' : c.slot = s) <=> (\E d \in callbacks : d.slot = s) \/ s = x
        <5>1. [slot |-> x, got |-> t].slot = x
          BY Zenon
        <5>2. \A c : c \in callbacks' <=> c \in callbacks \/ c = [slot |-> x, got |-> t]
          BY <2>3, ZenonT(30)
        <5> QED
          BY <5>1, <5>2, Zenon
      <4> QED
        BY <1>1, <1>4, <2>2, <3>1, <3>2, <4>1, SMTT(30) DEF FilledIsCompleted
    <3> QED
      BY <2>1, <3>3, Zenon
  <2>6. x \notin F
    BY <1>4, <2>1, <2>2, Zenon DEF Filled, Completed, RingInv, Distinct
  <2>7. F \in SUBSET Slots /\ Placed(F, pos) /\ Placed(G, pos)
    BY <2>1, <2>2, <2>5, InFlightFacts, DistanceFacts, ZenonT(30) DEF RingInv
  <2>8. \A s \in F : pos[s] < pos[x]
    <3>1. /\ \A s \in Slots : Holds(s) => Rank(s) < Rank(x)
          /\ \A s \in Slots : Rank(s) \in Int
      BY <1>4, <2>2, PendingFacts, Zenon DEF RingInv, OrderInv, HeldFirst
    <3>2. \A s \in F : Holds(s) \/ (pc = "copy" /\ s = index)
      <4>1. \A s \in Filled : state[s] = "DONE" \/ \E d \in callbacks : d.slot = s
        BY <1>4, FilledMembers, Zenon DEF FilledIsCompleted
      <4>2. \A s \in Filled : Holds(s) \/ (pc = "copy" /\ s = index)
        BY <4>1, Zenon DEF Holds
      <4> QED
        BY <2>1, <4>2, Zenon
    <3>3. pc = "copy" => x # index
      BY <2>2, Zenon DEF RingInv, Working
    <3>4. CASE pc # "copy"
      BY <2>1, <2>2, <2>7, <3>1, <3>2, <3>4, DistanceIsRank, ZenonT(30)
        DEF RingInv, OrderInv
    <3>5. CASE pc = "copy"
      <4>1. index = Oldest /\ index \in Slots /\ pos[index] = 0 /\ pos[x] > 0
        BY <2>1, <2>2, <3>3, <3>5, DistanceFacts, ZenonT(30) DEF RingInv, Oldest
      <4>2. \A s \in Slots : s # index => pos[s] = Rank(s) + 1
        BY <2>1, <3>5, DistanceIsRank, Zenon DEF RingInv, OrderInv
      <4> QED
        BY <2>2, <2>7, <3>1, <3>2, <3>3, <3>5, <4>1, <4>2, SMTT(30)
    <3> QED
      BY <3>4, <3>5, Zenon
  <2>9. /\ Cardinality(G) = Cardinality(F) + 1
        /\ \A k \in 1 .. Cardinality(F) : Nth(G, pos, k) = Nth(F, pos, k)
        /\ Nth(G, pos, Cardinality(F) + 1) = x
    <3>1. Follows(F, G, pos, x)
      BY <2>5, <2>6, <2>7, <2>8, Zenon DEF Follows
    <3> QED
      BY <3>1, NthAdd, ZenonT(60)
  <2>10. /\ InFlight \in Seq(Transfers \cup {NoTransfer})
         /\ Len(InFlight) = Cardinality(F) /\ Cardinality(F) \in Nat
         /\ \A k \in 1 .. Cardinality(F) : InFlight[k] = buf[Nth(F, pos, k)]
    BY <2>1, InFlightFacts, Zenon DEF RingInv
  <2>11. Cardinality(F) < RX_ASYNC_SLOTS
    <3>1. 0 \in Int /\ RX_ASYNC_SLOTS - 1 \in Int /\ ~(0 > RX_ASYNC_SLOTS - 1)
          /\ (RX_ASYNC_SLOTS - 1) - 0 + 1 = RX_ASYNC_SLOTS
      BY RingAssumption
    <3>2. IsFiniteSet(Slots) /\ Cardinality(Slots) = RX_ASYNC_SLOTS
      BY <3>1, FS_Interval, ZenonT(30) DEF Slots
    <3>3. G \in SUBSET Slots
      BY <2>2, <2>5, <2>7, ZenonT(30)
    <3>4. Cardinality(G) <= RX_ASYNC_SLOTS
      BY <3>2, <3>3, FS_Subset, Zenon
    <3>5. Cardinality(G) = Cardinality(F) + 1 /\ Cardinality(F) \in Nat
      BY <2>9, <2>10, Zenon
    <3> QED
      BY <3>4, <3>5, RingAssumption
  <2>12. InFlight' = Append(InFlight, t)
    <3>1. PICK n : n = Cardinality(F)
      BY Zenon
    <3>2. Distance' = pos
      BY <1>2, <2>1, Zenon DEF Distance
    <3>3. \A k \in 1 .. n : buf'[Nth(F, pos, k)] = InFlight[k]
      <4>1. \A k \in 1 .. n : Nth(F, pos, k) \in F
        BY <2>7, <3>1, NthFacts, Zenon
      <4>2. \A s \in F : buf'[s] = buf[s]
        BY <2>3, <2>6, <2>7, Zenon DEF RingInv, RingTypes
      <4> QED
        BY <2>10, <3>1, <4>1, <4>2, ZenonT(30)
    <3>4. buf'[x] = t
      BY <2>2, <2>3, Zenon DEF RingInv, RingTypes
    <3>5. InFlight' = [k \in 1 .. n + 1 |-> buf'[Nth(G, pos, k)]]
      BY <2>5, <2>9, <3>1, <3>2, ZenonT(30) DEF InFlight
    <3>6. \A k \in 1 .. n + 1 :
            buf'[Nth(G, pos, k)] = IF k \in 1 .. n THEN InFlight[k] ELSE t
      <4>1. ASSUME NEW k \in 1 .. n
            PROVE  buf'[Nth(G, pos, k)] = InFlight[k]
        BY <2>9, <3>1, <3>3, Zenon
      <4>2. buf'[Nth(G, pos, n + 1)] = t
        BY <2>9, <3>1, <3>4, ZenonT(30)
      <4>3. \A k \in 1 .. n + 1 : k \in 1 .. n \/ k = n + 1
        BY <2>10, <3>1, SMTT(30)
      <4>4. n + 1 \notin 1 .. n
        BY <2>10, <3>1, SMTT(30)
      <4> QED
        BY <4>1, <4>2, <4>3, <4>4, ZenonT(30)
    <3>7. InFlight' = [k \in 1 .. n + 1 |-> IF k \in 1 .. n THEN InFlight[k] ELSE t]
      BY <3>5, <3>6, ZenonT(30)
    <3>8. /\ Append(InFlight, t) \in Seq(Transfers \cup {NoTransfer})
          /\ Len(Append(InFlight, t)) = n + 1 /\ n \in Nat
          /\ \A k \in 1 .. n + 1 :
               Append(InFlight, t)[k] = IF k \in 1 .. n THEN InFlight[k] ELSE t
      BY <2>4, <2>10, <3>1, SMTT(30)
    <3>9. Append(InFlight, t) \in [1 .. n + 1 -> Transfers \cup {NoTransfer}]
      BY <3>8, SeqIsFunction, Zenon
    <3> QED
      BY <3>7, <3>8, <3>9, ZenonT(30)
  <2>13. Fifo!Accept(t)
    BY <1>2, <2>10, <2>11, <2>12, Zenon DEF Fifo!Accept, Current
  <2> QED
    BY <2>4, <2>13, Zenon DEF FifoStep, Fifo!FifoNext
<1> QED
  BY <1>3, <1>4, Zenon

\* Steps that leave the slots, the requests and the aggregate alone.
LEMMA WorkStep ==
  ASSUME UNCHANGED <<state, buf, callbacks, rx_async_started, rx_consume, g_rx>>,
         pc # "copy", pc' # "copy", Parsing' => Parsing
  PROVE  FifoStep
<1>1. Filled' = Filled
  BY Zenon DEF Filled, Completed
<1>2. Oldest' = Oldest
  BY Zenon DEF Oldest
<1> QED
  BY <1>1, <1>2, QuietStep, Zenon

\* A slot that is marked PENDING or IDLE was not completed, before or after.
LEMMA MarkStep ==
  ASSUME RingTypes, rx_async_started, rx_async_started', index \in Slots,
         state[index] # "DONE", NEW m \in {"IDLE", "PENDING"},
         state' = [state EXCEPT ![index] = m],
         UNCHANGED <<buf, callbacks, rx_consume, g_rx>>,
         pc # "copy", pc' # "copy", Parsing' => Parsing
  PROVE  FifoStep
<1>1. \A s \in Slots : state'[s] = "DONE" <=> state[s] = "DONE"
  BY Zenon DEF RingTypes
<1>2. FilledIsCompleted'
  BY FilledMembers, PTL
<1>3. \A s : s \in Filled' <=> s \in Filled
  BY <1>1, <1>2, FilledMembers, SMTT(30) DEF FilledIsCompleted
<1>4. Oldest' = Oldest
  BY Zenon DEF Oldest
<1> QED
  BY <1>3, <1>4, QuietStep, Zenon

\* ax_rx_async_callback only changes how a completed slot is recorded.
LEMMA StoreStep ==
  ASSUME RingTypes, NEW c \in callbacks, CallbackStore(c)
  PROVE  FifoStep
<1>1. /\ state' = [state EXCEPT ![c.slot] = "DONE"] /\ callbacks' = callbacks \ {c}
      /\ UNCHANGED <<buf, rx_async_started, rx_consume, g_rx, rx_next, rx_frames, pc, index,
                     starting, took>>
  BY Zenon DEF CallbackStore, axVars, parseVars, workVars
<1>2. c.slot \in Slots
  BY Zenon DEF RingTypes
<1>3. Filled' = Filled
  <2>1. CASE ~rx_async_started
    BY <1>1, <2>1, Zenon DEF Filled
  <2>2. CASE rx_async_started
    <3>1. FilledIsCompleted'
      BY FilledMembers, PTL
    <3>2. \A s \in Slots : state'[s] = IF s = c.slot THEN "DONE" ELSE state[s]
      BY <1>1, <1>2, Zenon DEF RingTypes
    <3>3. \A s : (\E d \in callbacks : d.slot = s) <=>
                 (\E d \in callbacks' : d.slot = s) \/ c.slot = s
      <4>1. \A d : d \in callbacks <=> d \in callbacks' \/ d = c
        BY <1>1, Zenon
      <4> QED
        BY <4>1, Zenon
    <3>4. \A s : s \in Filled' <=> s \in Filled
      BY <1>1, <1>2, <2>2, <3>1, <3>2, <3>3, FilledMembers, SMTT(30) DEF FilledIsCompleted
    <3> QED
      BY <3>4, Zenon
  <2> QED
    BY <2>1, <2>2, Zenon
<1>4. Oldest' = Oldest /\ Parsing' = Parsing
  BY <1>1, Zenon DEF Oldest, Parsing
<1> QED
  BY <1>1, <1>3, <1>4, QuietStep, Zenon

\* ax_rx_take_completed gives a failed or empty transfer up, or starts to copy it.
LEMMA TakeStep ==
  ASSUME RingInv, RingInv', TakeCompleted
  PROVE  FifoStep
<1>1. /\ state[rx_consume] = "DONE" /\ pc = "take" /\ rx_async_started
      /\ rx_consume' = IF rx_consume + 1 = RX_ASYNC_SLOTS THEN 0 ELSE rx_consume + 1
      /\ rx_consume \in Slots /\ index' = rx_consume
      /\ UNCHANGED <<buf, callbacks, rx_async_started, g_rx, rx_frames, rx_next, starting>>
  BY NextSlot, ZenonT(30) DEF TakeCompleted, TakeSlot, RingInv, RingTypes, WorkerState,
    uhsVars, parseVars
<1>2. rx_frames \in Nat /\ rx_next \in Nat /\ rx_next >= rx_frames /\ ~Parsing
  BY <1>1, SMTT(30) DEF RingInv, RingTypes, ParserState, Parsing
<1>3. CASE pc' = "copy"
  <2>1. state' = state
    BY <1>3, Zenon DEF TakeCompleted, TakeSlot
  <2>2. Filled' = Filled
    BY <1>1, <2>1, Zenon DEF Filled, Completed
  <2>3. Oldest' = Oldest
    BY <1>1, <1>3, Zenon DEF Oldest
  <2>4. ~Parsing'
    BY <1>1, <1>2, <1>3, Zenon DEF Parsing
  <2> QED
    BY <1>1, <2>2, <2>3, <2>4, QuietStep, ZenonT(30)
<1>4. CASE pc' # "copy"
  <2>1. state' = [state EXCEPT ![rx_consume] = "IDLE"] /\ took' # "data" /\ pc' = "arm"
    BY <1>4, Zenon DEF TakeCompleted, TakeSlot
  <2>2. Oldest = rx_consume /\ Oldest' = rx_consume'
    BY <1>1, <1>4, Zenon DEF Oldest
  <2>3. Filled' = Filled \ {Oldest} /\ Oldest \in Filled
    <3>1. FilledIsCompleted'
      BY FilledMembers, PTL
    <3>2. \A s \in Slots : state'[s] = IF s = rx_consume THEN "IDLE" ELSE state[s]
      BY <1>1, <2>1, Zenon DEF RingInv, RingTypes
    <3>3. ~\E c \in callbacks : c.slot = rx_consume
      BY <1>1, Zenon DEF RingInv, Marked, Outstanding
    <3>4. \A s : s \in Filled' <=> s \in Filled /\ s # rx_consume
      BY <1>1, <3>1, <3>2, <3>3, FilledMembers, SMTT(30) DEF FilledIsCompleted
    <3>5. rx_consume \in Filled
      BY <1>1, FilledMembers, SMTT(30) DEF FilledIsCompleted
    <3> QED
      BY <2>2, <3>4, <3>5, Zenon
  <2>4. InFlight # << >> /\ InFlight' = Tail(InFlight)
    BY <1>1, <2>2, <2>3, DropOldest, ZenonT(30) DEF RingInv
  <2>5. ~Parsing'
    BY <1>1, <1>2, <2>1, ZenonT(30) DEF Parsing
  <2>6. Fifo!Skip
    BY <2>4, <2>5, Zenon DEF Fifo!Skip
  <2> QED
    BY <2>6, Zenon DEF FifoStep, Fifo!FifoNext
<1> QED
  BY <1>3, <1>4, Zenon

\* ax_rx_take_completed copies the oldest transfer out.
LEMMA CopyStep ==
  ASSUME RingInv, RingInv', CopyAggregate
  PROVE  FifoStep
<1>1. /\ pc = "copy" /\ pc' = "arm" /\ g_rx' = buf[index] /\ index \in Slots
      /\ state' = [state EXCEPT ![index] = "IDLE"] /\ state[index] = "DONE"
      /\ rx_async_started /\ ~starting' /\ took' = "data"
      /\ UNCHANGED <<buf, callbacks, rx_async_started, rx_consume>>
  BY Zenon DEF CopyAggregate, Goto, RingInv, RingTypes, WorkerState, Working, uhsVars,
    axVars
<1>2. Oldest = index /\ Oldest' = rx_consume
  BY <1>1, Zenon DEF Oldest
<1>3. rx_consume = IF index + 1 = RX_ASYNC_SLOTS THEN 0 ELSE index + 1
  <2>1. Rank(index) = RX_ASYNC_SLOTS - 1 /\ rx_consume \in Slots
    BY <1>1, Zenon DEF RingInv, OrderInv, LastInRing, WorkerState, RingTypes
  <2> QED
    BY <1>1, <2>1, RingAssumption, SMTT(30) DEF Rank, Slots
<1>4. Filled' = Filled \ {Oldest} /\ Oldest \in Filled
  <2>1. FilledIsCompleted'
    BY FilledMembers, PTL
  <2>2. \A s \in Slots : state'[s] = IF s = index THEN "IDLE" ELSE state[s]
    BY <1>1, Zenon DEF RingInv, RingTypes
  <2>3. ~\E c \in callbacks : c.slot = index
    BY <1>1, ZenonT(30) DEF RingInv, Marked, Outstanding
  <2>4. \A s : s \in Filled' <=> s \in Filled /\ s # index
    BY <1>1, <2>1, <2>2, <2>3, FilledMembers, SMTT(30) DEF FilledIsCompleted
  <2>5. index \in Filled
    BY <1>1, FilledMembers, SMTT(30) DEF FilledIsCompleted
  <2> QED
    BY <1>2, <2>4, <2>5, ZenonT(30)
<1>5. InFlight # << >> /\ Head(InFlight) = buf[index] /\ InFlight' = Tail(InFlight)
  BY <1>1, <1>2, <1>3, <1>4, DropOldest, ZenonT(30) DEF RingInv
<1>6. Parsing'
  BY <1>1, Zenon DEF Parsing
<1>7. Fifo!Take
  BY <1>1, <1>5, <1>6, ZenonT(30) DEF Fifo!Take
<1> QED
  BY <1>7, Zenon DEF FifoStep, Fifo!FifoNext

\* Every step of the ring is a step of the FIFO or leaves it alone.
LEMMA RingStep ==
  ASSUME StartNeverRefused, RingInv, RingInv', Next
  PROVE  FifoStep
<1>0. /\ rx_frames \in Nat /\ rx_next \in Nat /\ index \in Slots
      /\ RingTypes /\ WorkerState /\ Marked /\ Working /\ ParserState
  BY Zenon DEF RingInv, RingTypes
<1> USE DEF slotVars, uhsVars, axVars, parseVars, workVars
<1>1. ASSUME NEW k \in 1 .. rx_frames, ReturnFrame(k) PROVE FifoStep
  <2>1. k > rx_next
    BY <1>0, <1>1, SMTT(30) DEF ReturnFrame, Stops, Rest
  <2>2. Parsing' => Parsing
    BY <1>0, <1>1, <2>1, SMTT(30) DEF ReturnFrame, Harvest, Parsing
  <2> QED
    BY <1>1, <2>2, WorkStep, ZenonT(30) DEF ReturnFrame, Harvest
<1>2. ASSUME NEW k \in 1 .. rx_frames, ReturnOverrun(k) PROVE FifoStep
  <2>1. ~Parsing'
    BY <1>0, <1>2, SMTT(30) DEF ReturnOverrun, Goto, Parsing
  <2> QED
    BY <1>2, <2>1, WorkStep, ZenonT(30) DEF ReturnOverrun, Goto
<1>3. CASE Exhausted
  <2>1. ~Parsing'
    BY <1>0, <1>3, SMTT(30) DEF Exhausted, Goto, AfterBuffered, Parsing
  <2> QED
    BY <1>3, <2>1, WorkStep, ZenonT(30) DEF Exhausted, Goto, AfterBuffered
<1>4. CASE TakeNothing
  <2>1. Parsing' => Parsing
    BY <1>4, Zenon DEF TakeNothing, ReturnNothing, Parsing
  <2> QED
    BY <1>4, <2>1, WorkStep, ZenonT(30) DEF TakeNothing, ReturnNothing
<1>5. CASE LoadFailed
  <2>1. Parsing' => Parsing
    BY <1>5, Zenon DEF LoadFailed, Goto, Parsing
  <2> QED
    BY <1>5, <2>1, WorkStep, Zenon DEF LoadFailed, Goto
<1>6. CASE LoadZero
  <2>1. Parsing' => Parsing
    BY <1>6, Zenon DEF LoadZero, ReturnNothing, Parsing
  <2> QED
    BY <1>6, <2>1, WorkStep, Zenon DEF LoadZero, ReturnNothing
<1>7. CASE LoadTrailer
  <2>1. Parsing
    BY <1>0, <1>7, Zenon DEF LoadTrailer, WorkerState, Parsing
  <2>2. UNCHANGED <<state, buf, callbacks, rx_async_started, rx_consume, g_rx>>
    BY <1>7, Zenon DEF LoadTrailer
  <2>3. pc # "copy" /\ pc' # "copy"
    BY <1>7, Zenon DEF LoadTrailer, Goto, ReturnNothing
  <2> QED
    BY <2>1, <2>2, <2>3, WorkStep, ZenonT(30)
<1>8. CASE WaitSignalled
  <2>1. Parsing' => Parsing
    BY <1>8, Zenon DEF WaitSignalled, Parsing
  <2> QED
    BY <1>8, <2>1, WorkStep, Zenon DEF WaitSignalled
<1>9. CASE WaitTimeout
  <2>1. Parsing' => Parsing
    BY <1>9, Zenon DEF WaitTimeout, Parsing
  <2> QED
    BY <1>9, <2>1, WorkStep, Zenon DEF WaitTimeout
<1>10. ASSUME NEW s \in signalling, CallbackSignal(s) PROVE FifoStep
  <2>1. Filled' = Filled
    BY <1>10, Zenon DEF CallbackSignal, Filled, Completed
  <2>2. Oldest' = Oldest /\ Parsing' = Parsing /\ buf' = buf /\ g_rx' = g_rx
    BY <1>10, Zenon DEF CallbackSignal, Oldest, Parsing
  <2> QED
    BY <2>1, <2>2, QuietStep, Zenon
<1>11. CASE Poll
  <2>1. Parsing' => Parsing
    BY <1>11, Zenon DEF Poll, Parsing
  <2> QED
    BY <1>11, <2>1, WorkStep, Zenon DEF Poll
<1>12. CASE LinkDown
  <2>1. ~Parsing'
    BY <1>0, <1>12, SMTT(30) DEF LinkDown, Parsing
  <2> QED
    BY <1>12, <2>1, WorkStep, ZenonT(30) DEF LinkDown
<1>13. ASSUME NEW m \in Media, LinkUp(m) PROVE FifoStep
  <2>1. Parsing' => Parsing
    BY <1>0, <1>13, SMTT(30) DEF LinkUp, Parsing
  <2> QED
    BY <1>13, <2>1, WorkStep, ZenonT(30) DEF LinkUp
<1>14. CASE StartRing
  <2>1. ~Parsing'
    BY <1>0, <1>14, SMTT(30) DEF StartRing, ParserState, Parsing
  <2>2. callbacks' = {} /\ \A s \in Slots : state'[s] # "DONE"
    BY <1>0, <1>14, Zenon DEF StartRing, WorkerState, Marked
  <2>3. Filled' = {}
    BY <2>2, Zenon DEF Filled, Completed
  <2> QED
    BY <2>1, <2>3, FlushStep, ZenonT(30)
<1>15. CASE ArmSlot
  <2>1. Parsing' => Parsing
    BY <1>15, Zenon DEF ArmSlot, Goto, Parsing
  <2>2. rx_async_started /\ state[index] = "IDLE"
    BY <1>0, <1>15, Zenon DEF ArmSlot, WorkerState, Working
  <2> QED
    BY <1>0, <1>15, <2>1, <2>2, MarkStep, ZenonT(30) DEF ArmSlot, Goto
<1>16. CASE Submit
  <2>1. Parsing' => Parsing
    BY <1>16, Zenon DEF Submit, Parsing
  <2>2. pc # "copy" /\ pc' # "copy"
    BY <1>16, Zenon DEF Submit
  <2> QED
    BY <1>16, <2>1, <2>2, WorkStep, ZenonT(30) DEF Submit
<1>17. CASE SubmitRefused
  <2>1. ~starting /\ pc = "submit" /\ pc' = "load" /\ rx_async_started /\ rx_async_started'
    BY <1>0, <1>17, Zenon DEF SubmitRefused, StartNeverRefused, WorkerState
  <2>2. state[index] = "PENDING"
    BY <1>0, <2>1, Zenon DEF Working
  <2>3. Parsing' => Parsing
    BY <1>17, <2>1, Zenon DEF SubmitRefused, Parsing
  <2> QED
    BY <1>0, <1>17, <2>1, <2>2, <2>3, MarkStep, ZenonT(30) DEF SubmitRefused
<1>18. CASE TakeCompleted
  BY <1>18, TakeStep, Zenon
<1>19. CASE CopyAggregate
  BY <1>19, CopyStep, Zenon
<1>20. ASSUME NEW h \in Shapes, Complete(h) PROVE FifoStep
  BY <1>20, CompleteStep, Zenon
<1>21. ASSUME NEW c \in callbacks, CallbackStore(c) PROVE FifoStep
  BY <1>0, <1>21, StoreStep, Zenon
<1>22. CASE Open
  <2>1. Filled' = {}
    BY <1>22, ZenonT(30) DEF Open, Filled
  <2>2. ~Parsing'
    BY <1>0, <1>22, SMTT(30) DEF Open, WorkerState, Parsing
  <2> QED
    BY <2>1, <2>2, FlushStep, Zenon
<1>23. CASE Close
  <2>1. Filled' = {}
    BY <1>23, Zenon DEF Close, Filled
  <2>2. ~Parsing'
    BY <1>0, <1>23, SMTT(30) DEF Close, Parsing
  <2> QED
    BY <2>1, <2>2, FlushStep, Zenon
<1>24. CASE Abandon
  <2>1. Filled' = {}
    BY <1>24, Zenon DEF Abandon, Filled
  <2>2. ~Parsing'
    BY <1>0, <1>24, SMTT(30) DEF Abandon, Parsing
  <2> QED
    BY <2>1, <2>2, FlushStep, Zenon
<1>25. CASE Reclaim
  <2>1. ~rx_async_started /\ ~rx_async_started'
    BY <1>0, <1>25, Zenon DEF Reclaim, WorkerState
  <2>2. Filled = {} /\ Filled' = {}
    BY <2>1, Zenon DEF Filled
  <2>3. Oldest' = Oldest /\ buf' = buf /\ g_rx' = g_rx /\ (Parsing' => Parsing)
    BY <1>25, Zenon DEF Reclaim, Oldest, Parsing
  <2> QED
    BY <2>2, <2>3, QuietStep, Zenon
<1> HIDE DEF slotVars, uhsVars, axVars, parseVars, workVars
<1> QED
  BY <1>1, <1>2, <1>3, <1>4, <1>5, <1>6, <1>7, <1>8, <1>9, <1>10, <1>11, <1>12, <1>13,
    <1>14, <1>15, <1>16, <1>17, <1>18, <1>19, <1>20, <1>21, <1>22, <1>23, <1>24, <1>25,
    SMTT(30) DEF Next, Worker, Uhs

\* The ring of ax88179.c is a bounded FIFO of transfers: what UHS completes is
\* taken by ax_rx_take_completed once, unmodified and in order, or given up alone
\* when it failed or is empty, or given up with the rest when the driver stops.
THEOREM RingIsFifo ==
  ASSUME StartNeverRefused
  PROVE  Spec => ImplementsFifo
<1>1. Init => Fifo!FifoInit
  <2> SUFFICES ASSUME Init PROVE Fifo!FifoInit
    BY Zenon
  <2>1. Filled = {} /\ ~Parsing
    BY DEF Init, Filled, Parsing
  <2>2. InFlight = << >>
    BY <2>1, NothingInFlight, Zenon
  <2> QED
    BY <2>1, <2>2, Zenon DEF Fifo!FifoInit
<1>2. RingInv /\ RingInv' /\ [Next]_vars => [Fifo!FifoNext]_(Fifo!fifoVars)
  <2>1. ASSUME UNCHANGED vars PROVE FifoStep
    <3>1. Filled' = Filled
      BY <2>1, Zenon DEF vars, slotVars, uhsVars, axVars, Filled, Completed
    <3>2. Oldest' = Oldest /\ Parsing' = Parsing /\ buf' = buf /\ g_rx' = g_rx
      BY <2>1, Zenon DEF vars, slotVars, axVars, parseVars, workVars, Oldest, Parsing
    <3> QED
      BY <3>1, <3>2, QuietStep, Zenon
  <2> QED
    BY <2>1, RingStep, Zenon DEF FifoStep
<1> QED
  BY <1>1, <1>2, RingInvariant, PTL DEF Spec, ImplementsFifo, Fifo!FifoSpec

===============================================================================
