---------------------------- MODULE TxPoolProofs ----------------------------
(***************************************************************************)
(* Proofs about TxPool for every number of transmit buffers, every set of  *)
(* producers and every set of frames.                                      *)
(*                                                                         *)
(* SlotOwnership is not inductive by itself: that two producers never      *)
(* claim one buffer rests on the core lock (InCore), that ax_net_stop      *)
(* finds nobody in send_frame rests on the interface having been removed   *)
(* under that lock (QuietWhenUnlisted), and that a full scan means a full  *)
(* pool rests on what the scan has passed (ScanPassed).                    *)
(***************************************************************************)
EXTENDS TxPool, FiniteSetTheorems, TLAPS

\* A thread inside send_frame holds the core lock and has a frame to send.
InCore ==
  \A t \in Threads : spc[t] # "out" => core_lock = t /\ frame[t] \in Frames

\* What the worker's control state says about lock, stack and interface.
WorkerState ==
  /\ wpc \in {"setup", "stop"} => core_lock = Worker
  /\ wpc \notin {"idle", "dead"} => initialized
  /\ wpc \in {"drain", "discard"} => ~netif_listed

\* Nobody is in send_frame of an interface lwIP does not know.
QuietWhenUnlisted == ~netif_listed => \A t \in Threads : spc[t] = "out"

\* A buffer about to be posted holds the frame of its message.
PostReady == \A t \in Threads : spc[t] = "post" => tx_pool[slot[t]] = frame[t]

\* The scan has passed only buffers that were in use when it began, and what
\* was free then is free still.
ScanPassed ==
  \A t \in Threads : spc[t] = "scan" =>
    \A s \in freeAtStart[t] : ~tx_in_use[s] /\ s >= slot[t]

\* The inductive invariant.
IInv ==
  /\ TypeOK
  /\ InCore
  /\ WorkerState
  /\ QuietWhenUnlisted
  /\ SlotOwnership
  /\ NoLeak
  /\ PoolIntact
  /\ PostReady
  /\ ScanPassed

------------------------------------------------------------------------------
(* Facts about the queue.                                                   *)

\* The first message of a queue that is not empty.
LEMMA QueueHead ==
  ASSUME NEW q \in Seq(Message), q # << >>
  PROVE  /\ 1 \in 1 .. Len(q)
         /\ Head(q) = q[1]
         /\ Head(q) \in Message
OBVIOUS

\* OSReceiveMessage moves every message one place forward.
LEMMA QueueTail ==
  ASSUME NEW q \in Seq(Message), q # << >>
  PROVE  /\ Tail(q) \in Seq(Message)
         /\ Len(Tail(q)) = Len(q) - 1
         /\ \A i \in 1 .. Len(Tail(q)) : i + 1 \in 1 .. Len(q) /\ Tail(q)[i] = q[i + 1]
OBVIOUS

\* The buffers of a queue are the one of its head and those of its tail.
LEMMA QueueTailSlots ==
  ASSUME NEW q \in Seq(Message), q # << >>
  PROVE  SlotsOf(q) = SlotsOf(Tail(q)) \cup {Head(q).slot}
<1>1. ASSUME NEW s \in SlotsOf(q), s # Head(q).slot PROVE s \in SlotsOf(Tail(q))
  <2>1. PICK i \in 1 .. Len(q) : s = q[i].slot
    BY Zenon DEF SlotsOf
  <2>2. i # 1 /\ i - 1 \in 1 .. Len(Tail(q)) /\ Tail(q)[i - 1] = q[i]
    BY <1>1, <2>1, QueueHead, QueueTail
  <2> QED
    BY <2>1, <2>2, Zenon DEF SlotsOf
<1>2. ASSUME NEW s \in SlotsOf(Tail(q)) PROVE s \in SlotsOf(q)
  <2>1. PICK i \in 1 .. Len(Tail(q)) : s = Tail(q)[i].slot
    BY Zenon DEF SlotsOf
  <2>2. i + 1 \in 1 .. Len(q) /\ s = q[i + 1].slot
    BY <2>1, QueueTail, Zenon
  <2> QED
    BY <2>2, Zenon DEF SlotsOf
<1>3. Head(q).slot \in SlotsOf(q)
  BY QueueHead, Zenon DEF SlotsOf
<1> QED
  BY <1>1, <1>2, <1>3, Zenon

\* OSSendMessage adds one message behind the others.
LEMMA QueueAppend ==
  ASSUME NEW q \in Seq(Message), NEW m \in Message
  PROVE  /\ Append(q, m) \in Seq(Message)
         /\ Len(Append(q, m)) = Len(q) + 1
         /\ \A i \in 1 .. Len(q) : Append(q, m)[i] = q[i]
         /\ Append(q, m)[Len(q) + 1] = m
         /\ SlotsOf(Append(q, m)) = SlotsOf(q) \cup {m.slot}
<1>1. /\ Append(q, m) \in Seq(Message)
      /\ Len(Append(q, m)) = Len(q) + 1
      /\ \A i \in 1 .. Len(q) : Append(q, m)[i] = q[i]
      /\ Append(q, m)[Len(q) + 1] = m
  OBVIOUS
<1>2. 1 .. Len(q) + 1 = 1 .. Len(q) \cup {Len(q) + 1}
  OBVIOUS
<1> QED
  BY <1>1, <1>2 DEF SlotsOf

\* An injective list over a finite set is no longer than the set is large.
LEMMA InjectionLength ==
  ASSUME NEW n \in Nat, NEW S, IsFiniteSet(S), NEW f \in [1 .. n -> S],
         \A i, j \in 1 .. n : f[i] = f[j] => i = j
  PROVE  n <= Cardinality(S)
<1>1. IsFiniteSet(1 .. n) /\ Cardinality(1 .. n) = n
  BY FS_Interval
<1>2. Cardinality(S) \in Nat
  BY FS_CardinalityType, Zenon
<1>3. CASE Cardinality(S) < n
  <2>1. \E x, y \in 1 .. n : x # y /\ f[x] = f[y]
    BY <1>1, <1>3, FS_PigeonHole
  <2> QED
    BY <2>1, Zenon
<1> QED
  BY <1>2, <1>3

\* Pigeonhole: a queue of distinct buffers that leaves one buffer out is not
\* full.
LEMMA QueueRoom ==
  ASSUME NEW q \in Seq(Message), NEW s \in Slots, s \notin SlotsOf(q),
         \A i, j \in 1 .. Len(q) : q[i].slot = q[j].slot => i = j
  PROVE  Len(q) < TX_SLOTS
<1> DEFINE f == [i \in 1 .. Len(q) |-> q[i].slot]
<1>1. \A i \in 1 .. Len(q) : q[i].slot \in Slots \ {s}
  <2> TAKE i \in 1 .. Len(q)
  <2>1. q[i] \in Message
    OBVIOUS
  <2> QED
    BY <2>1, Zenon DEF SlotsOf, Message
<1>2. f \in [1 .. Len(q) -> Slots \ {s}]
  BY <1>1, Zenon
<1>3. IsFiniteSet(Slots \ {s}) /\ Cardinality(Slots \ {s}) = TX_SLOTS - 1
  <2>1. IsFiniteSet(Slots) /\ Cardinality(Slots) = TX_SLOTS
    BY SlotsAssumption, FS_Interval DEF Slots
  <2> QED
    BY <2>1, FS_RemoveElement, Zenon
<1>4. \A i, j \in 1 .. Len(q) : f[i] = f[j] => i = j
  BY Zenon
<1>5. Len(q) \in Nat
  OBVIOUS
<1> HIDE DEF f
<1>6. Len(q) <= TX_SLOTS - 1
  BY <1>2, <1>3, <1>4, <1>5, InjectionLength, ZenonT(30)
<1> QED
  BY <1>5, <1>6, SlotsAssumption

------------------------------------------------------------------------------
(* The invariant is inductive.                                              *)

\* The strengthened invariant holds before the worker first starts the network.
LEMMA InitIInv == Init => IInv
<1> USE SlotsAssumption, ThreadsAssumption
<1> SUFFICES ASSUME Init PROVE IInv
  BY Zenon
<1>1. TypeOK
  <2>1. 0 \in Slots
    BY DEF Slots
  <2>2. << >> \in Seq(Message)
    OBVIOUS
  <2> QED
    BY <2>1, <2>2, Zenon DEF Init, TypeOK
<1> QED
  BY <1>1 DEF Init, IInv, InCore, WorkerState, QuietWhenUnlisted, SlotOwnership,
    NoLeak, PoolIntact, PostReady, ScanPassed, Filling, WorkerHolds, QueuedSlots,
    SlotsOf

\* Every step of a sender, of the worker or of a title switch preserves it.
LEMMA NextIInv == IInv /\ [Next]_vars => IInv'
<1> SUFFICES ASSUME IInv, [Next]_vars PROVE IInv'
  BY Zenon
<1> USE SlotsAssumption, ThreadsAssumption, FramesAssumption
<1> USE DEF IInv, Threads, poolVars, sendVars, lifeVars
<1>1. ASSUME NEW t \in Threads, NEW f \in Frames, SendFrame(t, f) PROVE IInv'
  <2>1. TypeOK'
    BY <1>1 DEF SendFrame, TypeOK, Slots
  <2>2. InCore'
    BY <1>1, Zenon DEF SendFrame, InCore, WorkerState, TypeOK
  <2>3. ScanPassed'
    BY <1>1, SMTT(30) DEF SendFrame, ScanPassed, InCore, TypeOK, Slots
  <2>4. WorkerState' /\ QuietWhenUnlisted' /\ SlotOwnership' /\ NoLeak' /\
    PoolIntact' /\ PostReady'
    BY <1>1, SMTT(30) DEF SendFrame, WorkerState, InCore, TypeOK, QuietWhenUnlisted,
      SlotOwnership, Filling, WorkerHolds, QueuedSlots, SlotsOf, NoLeak,
      PoolIntact, PostReady
  <2> QED
    BY <2>1, <2>2, <2>3, <2>4, Zenon
<1>2. ASSUME NEW t \in Threads, ClaimSlot(t) PROVE IInv'
  <2>1. SlotOwnership'
    BY <1>2, SMTT(30) DEF ClaimSlot, SlotOwnership, Filling, WorkerHolds, QueuedSlots,
      SlotsOf, InCore, WorkerState, TypeOK
  <2>2. NoLeak'
    BY <1>2 DEF ClaimSlot, NoLeak, InCore, WorkerState, TypeOK, SlotOwnership,
      Filling, WorkerHolds, QueuedSlots
  <2>3. ScanPassed'
    BY <1>2, Zenon DEF ClaimSlot, ScanPassed, InCore, TypeOK, Slots
  <2>4. TypeOK' /\ InCore' /\ WorkerState' /\ QuietWhenUnlisted' /\
    PoolIntact' /\ PostReady'
    BY <1>2, Zenon DEF ClaimSlot, TypeOK, Slots, InCore, WorkerState,
      QuietWhenUnlisted, PoolIntact, PostReady, SlotsOf, SlotOwnership,
      Filling, WorkerHolds, QueuedSlots
  <2> QED
    BY <2>1, <2>2, <2>3, <2>4, Zenon
<1>3. ASSUME NEW t \in Threads, ScanNext(t) PROVE IInv'
  <2>1. TypeOK'
    BY <1>3 DEF ScanNext, TypeOK, Slots
  <2>2. ScanPassed'
    BY <1>3, SMTT(30) DEF ScanNext, ScanPassed, InCore, TypeOK, Slots
  <2>3. InCore' /\ WorkerState' /\ QuietWhenUnlisted' /\ SlotOwnership' /\
    NoLeak' /\ PoolIntact' /\ PostReady'
    BY <1>3 DEF ScanNext, InCore, WorkerState, TypeOK, QuietWhenUnlisted,
      SlotOwnership, Filling, WorkerHolds, QueuedSlots, SlotsOf, NoLeak,
      PoolIntact, PostReady
  <2> QED
    BY <2>1, <2>2, <2>3, Zenon
<1>4. ASSUME NEW t \in Threads, ScanFull(t) PROVE IInv'
  <2>1. TypeOK'
    BY <1>4, Zenon DEF ScanFull, TypeOK, Slots
  <2>2. InCore'
    BY <1>4, Zenon DEF ScanFull, InCore, WorkerState, TypeOK
  <2>3. QuietWhenUnlisted'
    BY <1>4, Zenon DEF ScanFull, QuietWhenUnlisted, InCore, WorkerState, TypeOK
  <2>4. SlotOwnership'
    BY <1>4, SMTT(30) DEF ScanFull, SlotOwnership, Filling, WorkerHolds, QueuedSlots,
      SlotsOf, InCore, WorkerState, TypeOK
  <2>5. NoLeak'
    BY <1>4, Zenon DEF ScanFull, NoLeak, InCore, WorkerState, TypeOK, SlotOwnership,
      Filling, WorkerHolds, QueuedSlots
  <2>6. WorkerState' /\ PoolIntact' /\ PostReady' /\ ScanPassed'
    BY <1>4, Zenon DEF ScanFull, WorkerState, InCore, TypeOK, PoolIntact, PostReady,
      SlotsOf, SlotOwnership, Filling, WorkerHolds, QueuedSlots, ScanPassed,
      Slots
  <2> QED
    BY <2>1, <2>2, <2>3, <2>4, <2>5, <2>6, Zenon
<1>5. ASSUME NEW t \in Threads, CopyFrame(t) PROVE IInv'
  <2>1. TypeOK'
    BY <1>5, Zenon DEF CopyFrame, TypeOK, Slots
  <2>2. SlotOwnership'
    BY <1>5, SMTT(30) DEF CopyFrame, SlotOwnership, Filling, WorkerHolds, QueuedSlots,
      SlotsOf, InCore, WorkerState, TypeOK
  <2>3. NoLeak'
    BY <1>5, Zenon DEF CopyFrame, NoLeak, InCore, WorkerState, TypeOK, SlotOwnership,
      Filling, WorkerHolds, QueuedSlots
  <2>4. PoolIntact'
    BY <1>5, SMTT(30) DEF CopyFrame, PoolIntact, PostReady, TypeOK, SlotsOf,
      SlotOwnership, Filling, WorkerHolds, QueuedSlots
  <2>5. PostReady'
    BY <1>5, Zenon DEF CopyFrame, PostReady, InCore, TypeOK, SlotOwnership, Filling,
      WorkerHolds, QueuedSlots
  <2>6. InCore' /\ WorkerState' /\ QuietWhenUnlisted' /\ ScanPassed'
    BY <1>5, Zenon DEF CopyFrame, InCore, WorkerState, TypeOK, QuietWhenUnlisted,
      ScanPassed, Slots
  <2> QED
    BY <2>1, <2>2, <2>3, <2>4, <2>5, <2>6, Zenon
<1>6. ASSUME NEW t \in Threads, CopyShort(t) PROVE IInv'
  <2>a. \A i \in 1 .. Len(tx_queue) : tx_queue[i].slot # slot[t]
    BY <1>6, Zenon DEF CopyShort, SlotOwnership, Filling, QueuedSlots, SlotsOf
  <2>1. SlotOwnership'
    BY <1>6, <2>a, SMTT(30) DEF CopyShort, SlotOwnership, Filling, WorkerHolds,
      QueuedSlots, SlotsOf, InCore, WorkerState, TypeOK
  <2>2. NoLeak'
    BY <1>6, SMTT(30) DEF CopyShort, NoLeak, InCore, WorkerState, TypeOK, SlotOwnership,
      Filling, WorkerHolds, QueuedSlots
  <2>3. ScanPassed'
    BY <1>6, Zenon DEF CopyShort, ScanPassed, InCore, TypeOK, Slots
  <2>4. TypeOK' /\ InCore' /\ WorkerState' /\ QuietWhenUnlisted' /\
    PoolIntact' /\ PostReady'
    BY <1>6, Zenon DEF CopyShort, TypeOK, Slots, InCore, WorkerState,
      QuietWhenUnlisted, PoolIntact, PostReady, SlotsOf, SlotOwnership,
      Filling, WorkerHolds, QueuedSlots
  <2> QED
    BY <2>1, <2>2, <2>3, <2>4, Zenon
<1>7. ASSUME NEW t \in Threads, PostMessage(t) PROVE IInv'
  <2>a. [slot |-> slot[t], len |-> frame[t]] \in Message
    BY <1>7, Zenon DEF PostMessage, Message, TypeOK, InCore
  <2>b. Len(tx_queue) < TX_SLOTS
    BY <1>7, QueueRoom, Zenon DEF PostMessage, TypeOK, SlotOwnership, Filling, QueuedSlots
  <2>c. tx_queue' = Append(tx_queue, [slot |-> slot[t], len |-> frame[t]]) /\ UNCHANGED tx_in_use
    BY <1>7, <2>b, Zenon DEF PostMessage
  <2>1. TypeOK'
    BY <1>7, <2>a, <2>c, QueueAppend, Zenon DEF PostMessage, TypeOK, Slots
  <2>2. SlotOwnership'
    <3> DEFINE n == Len(tx_queue)
    <3>1. /\ n \in Nat /\ n + 1 \notin 1 .. n
          /\ 1 .. n + 1 = 1 .. n \cup {n + 1}
      BY SMTT(30) DEF TypeOK
    <3>2. /\ Len(tx_queue') = n + 1
          /\ \A i \in 1 .. n : tx_queue'[i] = tx_queue[i]
          /\ tx_queue'[n + 1].slot = slot[t]
          /\ QueuedSlots' = QueuedSlots \cup {slot[t]}
      <4> DEFINE m == [slot |-> slot[t], len |-> frame[t]]
      <4>1. m.slot = slot[t] /\ tx_queue \in Seq(Message)
        BY Zenon DEF TypeOK
      <4>2. m \in Message /\ tx_queue' = Append(tx_queue, m)
        BY <2>a, <2>c, Zenon
      <4> HIDE DEF m
      <4>3. /\ Len(Append(tx_queue, m)) = n + 1
            /\ \A i \in 1 .. n : Append(tx_queue, m)[i] = tx_queue[i]
            /\ Append(tx_queue, m)[n + 1] = m
            /\ SlotsOf(Append(tx_queue, m)) = SlotsOf(tx_queue) \cup {m.slot}
        BY <4>1, <4>2, QueueAppend, Zenon
      <4>4. QueuedSlots' = SlotsOf(Append(tx_queue, m))
        BY <4>2, Zenon DEF QueuedSlots, SlotsOf
      <4> QED
        BY <4>1, <4>2, <4>3, <4>4, Zenon DEF QueuedSlots
    <3>3. /\ Filling(t) /\ ~Filling(t)'
          /\ \A u \in Threads \ {t} : Filling(u)' = Filling(u)
          /\ UNCHANGED <<slot, wslot, tx_in_use>> /\ WorkerHolds' = WorkerHolds
      BY <1>7, <2>c, ZenonT(30) DEF PostMessage, Filling, WorkerHolds, TypeOK
    <3>4. \A i \in 1 .. n : tx_queue[i].slot # slot[t]
      BY <3>3, Zenon DEF SlotOwnership, QueuedSlots, SlotsOf
    <3>5. \A u \in Threads : Filling(u)' =>
            /\ tx_in_use'[slot'[u]]
            /\ slot'[u] \notin QueuedSlots'
            /\ WorkerHolds' => slot'[u] # wslot'
            /\ \A v \in Threads \ {u} : Filling(v)' => slot'[v] # slot'[u]
      BY <3>2, <3>3, ZenonT(30) DEF SlotOwnership
    <3>6. \A i \in 1 .. n + 1 :
            /\ tx_in_use'[tx_queue'[i].slot]
            /\ WorkerHolds' => tx_queue'[i].slot # wslot'
      BY <3>1, <3>2, <3>3, ZenonT(30) DEF SlotOwnership
    <3>7. \A i, j \in 1 .. n + 1 : tx_queue'[i].slot = tx_queue'[j].slot => i = j
      BY <3>1, <3>2, <3>4, ZenonT(30) DEF SlotOwnership
    <3>8. WorkerHolds' => tx_in_use'[wslot']
      BY <3>3, Zenon DEF SlotOwnership
    <3> QED
      BY <3>2, <3>5, <3>6, <3>7, <3>8, ZenonT(30) DEF SlotOwnership
  <2>3. NoLeak'
    BY <1>7, <2>a, <2>c, QueueAppend, SMTT(30) DEF PostMessage, NoLeak, InCore,
      WorkerState, TypeOK, SlotOwnership, Filling, WorkerHolds, QueuedSlots
  <2>4. PoolIntact'
    BY <1>7, <2>a, <2>c, QueueAppend, SMTT(30) DEF PostMessage, PoolIntact, PostReady,
      TypeOK, SlotsOf, SlotOwnership, Filling, WorkerHolds, QueuedSlots
  <2>5. InCore' /\ WorkerState' /\ QuietWhenUnlisted' /\ PostReady' /\
    ScanPassed'
    BY <1>7, <2>c, Zenon DEF PostMessage, InCore, WorkerState, TypeOK,
      QuietWhenUnlisted, PostReady, SlotOwnership, Filling, WorkerHolds,
      QueuedSlots, ScanPassed, Slots
  <2> QED
    BY <2>1, <2>2, <2>3, <2>4, <2>5, Zenon
<1>8. ASSUME NEW p \in Producers, EnterCore(p) PROVE IInv'
  <2>1. InCore'
    BY <1>8, Zenon DEF EnterCore, InCore, WorkerState, TypeOK
  <2>2. WorkerState'
    BY <1>8, Zenon DEF EnterCore, WorkerState, InCore, TypeOK
  <2>3. TypeOK'
    BY <1>8, ZenonT(30) DEF EnterCore, TypeOK
  <2>4. SlotOwnership' /\ NoLeak'
    BY <1>8, ZenonT(30) DEF EnterCore, SlotOwnership, NoLeak, Filling,
      WorkerHolds, QueuedSlots
  <2>5. PoolIntact' /\ PostReady' /\ QuietWhenUnlisted' /\ ScanPassed'
    BY <1>8, ZenonT(30) DEF EnterCore, PoolIntact, PostReady,
      QuietWhenUnlisted, ScanPassed, Filling, WorkerHolds, QueuedSlots
  <2> QED
    BY <2>1, <2>2, <2>3, <2>4, <2>5, Zenon
<1>9. ASSUME NEW p \in Producers, LeaveCore(p) PROVE IInv'
  <2>1. InCore'
    BY <1>9, Zenon DEF LeaveCore, InCore, WorkerState, TypeOK
  <2>2. WorkerState'
    BY <1>9, Zenon DEF LeaveCore, WorkerState, InCore, TypeOK
  <2>3. TypeOK'
    BY <1>9, ZenonT(30) DEF LeaveCore, TypeOK
  <2>4. SlotOwnership' /\ NoLeak'
    BY <1>9, ZenonT(30) DEF LeaveCore, SlotOwnership, NoLeak, Filling,
      WorkerHolds, QueuedSlots
  <2>5. PoolIntact' /\ PostReady' /\ QuietWhenUnlisted' /\ ScanPassed'
    BY <1>9, ZenonT(30) DEF LeaveCore, PoolIntact, PostReady,
      QuietWhenUnlisted, ScanPassed, Filling, WorkerHolds, QueuedSlots
  <2> QED
    BY <2>1, <2>2, <2>3, <2>4, <2>5, Zenon
<1>10. CASE StartNet
  <2>a. tx_in_use' \in [Slots -> BOOLEAN] /\ tx_queue' \in Seq(Message)
    <3>1. CASE initialized
      BY <1>10, <3>1, Zenon DEF StartNet, TypeOK
    <3>2. CASE ~initialized
      <4>1. tx_in_use' = [s \in Slots |-> FALSE] /\ tx_queue' = << >>
        BY <1>10, <3>2, Zenon DEF StartNet
      <4>2. << >> \in Seq(Message)
        BY SMTT(30)
      <4> QED
        BY <4>1, <4>2, Zenon
    <3> QED
      BY <3>1, <3>2, Zenon
  <2>1. TypeOK'
    BY <1>10, <2>a, Zenon DEF StartNet, TypeOK
  <2>2. SlotOwnership'
    BY <1>10, SMTT(30) DEF StartNet, SlotOwnership, Filling, WorkerHolds, QueuedSlots,
      SlotsOf, InCore, WorkerState, TypeOK
  <2>3. NoLeak'
    BY <1>10, SMTT(30) DEF StartNet, NoLeak, InCore, WorkerState, TypeOK, SlotOwnership,
      Filling, WorkerHolds, QueuedSlots
  <2>4. ScanPassed'
    BY <1>10, Zenon DEF StartNet, ScanPassed, InCore, TypeOK, Slots
  <2>5. InCore' /\ WorkerState' /\ QuietWhenUnlisted' /\ PoolIntact' /\
    PostReady'
    BY <1>10 DEF StartNet, InCore, WorkerState, TypeOK, QuietWhenUnlisted,
      PoolIntact, PostReady, SlotsOf, SlotOwnership, Filling, WorkerHolds,
      QueuedSlots
  <2> QED
    BY <2>1, <2>2, <2>3, <2>4, <2>5, Zenon
<1>11. CASE StartDone
  <2>1. InCore'
    BY <1>11, Zenon DEF StartDone, InCore, WorkerState, TypeOK
  <2>2. TypeOK' /\ WorkerState' /\ QuietWhenUnlisted' /\ SlotOwnership' /\
    NoLeak' /\ PoolIntact' /\ PostReady' /\ ScanPassed'
    BY <1>11 DEF StartDone, TypeOK, Slots, WorkerState, InCore,
      QuietWhenUnlisted, SlotOwnership, Filling, WorkerHolds, QueuedSlots,
      SlotsOf, NoLeak, PoolIntact, PostReady, ScanPassed
  <2> QED
    BY <2>1, <2>2, Zenon
<1>12. CASE StartFailed
  <2>1. TypeOK'
    BY <1>12, Zenon DEF StartFailed, TypeOK, Slots
  <2>2. InCore'
    BY <1>12, Zenon DEF StartFailed, InCore, WorkerState, TypeOK
  <2>3. QuietWhenUnlisted'
    BY <1>12, Zenon DEF StartFailed, QuietWhenUnlisted, InCore, WorkerState, TypeOK
  <2>4. SlotOwnership'
    BY <1>12, Zenon DEF StartFailed, SlotOwnership, Filling, WorkerHolds,
      QueuedSlots, SlotsOf, InCore, WorkerState, TypeOK
  <2>5. NoLeak'
    BY <1>12, Zenon DEF StartFailed, NoLeak, InCore, WorkerState, TypeOK,
      SlotOwnership, Filling, WorkerHolds, QueuedSlots
  <2>6. WorkerState' /\ PoolIntact' /\ PostReady' /\ ScanPassed'
    BY <1>12, Zenon DEF StartFailed, WorkerState, InCore, TypeOK, PoolIntact,
      PostReady, SlotsOf, SlotOwnership, Filling, WorkerHolds, QueuedSlots,
      ScanPassed, Slots
  <2> QED
    BY <2>1, <2>2, <2>3, <2>4, <2>5, <2>6, Zenon
<1>13. CASE ReceiveMessage
  <2>1. TypeOK'
    BY <1>13, QueueHead, QueueTail, Zenon DEF ReceiveMessage, TypeOK, Message
  <2>2. SlotOwnership'
    BY <1>13, QueueHead, QueueTail DEF ReceiveMessage, SlotOwnership, Filling,
      WorkerHolds, QueuedSlots, SlotsOf, InCore, WorkerState, TypeOK
  <2>3. NoLeak'
    BY <1>13, QueueHead, QueueTailSlots DEF ReceiveMessage, NoLeak, InCore,
      WorkerState, TypeOK, SlotOwnership, Filling, WorkerHolds, QueuedSlots
  <2>4. PoolIntact'
    BY <1>13, QueueHead, QueueTail, SMTT(30) DEF ReceiveMessage, PoolIntact, PostReady,
      TypeOK, SlotsOf, SlotOwnership, Filling, WorkerHolds, QueuedSlots
  <2>5. InCore' /\ WorkerState' /\ QuietWhenUnlisted' /\ PostReady' /\
    ScanPassed'
    BY <1>13, Zenon DEF ReceiveMessage, InCore, WorkerState, TypeOK,
      QuietWhenUnlisted, PostReady, SlotOwnership, Filling, WorkerHolds,
      QueuedSlots, ScanPassed, Slots
  <2> QED
    BY <2>1, <2>2, <2>3, <2>4, <2>5, Zenon
<1>14. CASE SendDone
  <2>1. SlotOwnership'
    BY <1>14, SMTT(30) DEF SendDone, SlotOwnership, Filling, WorkerHolds, QueuedSlots,
      SlotsOf, InCore, WorkerState, TypeOK
  <2>2. NoLeak'
    BY <1>14, ZenonT(30) DEF SendDone, NoLeak, InCore, WorkerState, TypeOK, SlotOwnership,
      Filling, WorkerHolds, QueuedSlots
  <2>3. ScanPassed'
    BY <1>14, Zenon DEF SendDone, ScanPassed, InCore, TypeOK, Slots
  <2>4. TypeOK' /\ InCore' /\ WorkerState' /\ QuietWhenUnlisted' /\
    PoolIntact' /\ PostReady'
    BY <1>14, Zenon DEF SendDone, TypeOK, Slots, InCore, WorkerState,
      QuietWhenUnlisted, PoolIntact, PostReady, SlotsOf, SlotOwnership,
      Filling, WorkerHolds, QueuedSlots
  <2> QED
    BY <2>1, <2>2, <2>3, <2>4, Zenon
<1>15. CASE StopNet
  <2>1. InCore'
    BY <1>15, Zenon DEF StopNet, InCore, WorkerState, TypeOK
  <2>2. TypeOK' /\ WorkerState' /\ QuietWhenUnlisted' /\ SlotOwnership' /\
    NoLeak' /\ PoolIntact' /\ PostReady' /\ ScanPassed'
    BY <1>15, SMTT(30) DEF StopNet, TypeOK, Slots, WorkerState, InCore,
      QuietWhenUnlisted, SlotOwnership, Filling, WorkerHolds, QueuedSlots,
      SlotsOf, NoLeak, PoolIntact, PostReady, ScanPassed
  <2> QED
    BY <2>1, <2>2, Zenon
<1>16. CASE RemoveNetif
  <2>1. TypeOK'
    BY <1>16, Zenon DEF RemoveNetif, TypeOK, Slots
  <2>2. InCore'
    BY <1>16, Zenon DEF RemoveNetif, InCore, WorkerState, TypeOK
  <2>3. QuietWhenUnlisted'
    BY <1>16, Zenon DEF RemoveNetif, QuietWhenUnlisted, InCore, WorkerState, TypeOK
  <2>4. SlotOwnership'
    BY <1>16, Zenon DEF RemoveNetif, SlotOwnership, Filling, WorkerHolds,
      QueuedSlots, SlotsOf, InCore, WorkerState, TypeOK
  <2>5. NoLeak'
    BY <1>16, Zenon DEF RemoveNetif, NoLeak, InCore, WorkerState, TypeOK,
      SlotOwnership, Filling, WorkerHolds, QueuedSlots
  <2>6. WorkerState' /\ PoolIntact' /\ PostReady' /\ ScanPassed'
    BY <1>16, Zenon DEF RemoveNetif, WorkerState, InCore, TypeOK, PoolIntact,
      PostReady, SlotsOf, SlotOwnership, Filling, WorkerHolds, QueuedSlots,
      ScanPassed, Slots
  <2> QED
    BY <2>1, <2>2, <2>3, <2>4, <2>5, <2>6, Zenon
<1>17. CASE DiscardMessage
  <2>1. TypeOK'
    BY <1>17, QueueHead, QueueTail, Zenon DEF DiscardMessage, TypeOK, Message
  <2>2. SlotOwnership'
    BY <1>17, QueueHead, QueueTail DEF DiscardMessage, SlotOwnership, Filling,
      WorkerHolds, QueuedSlots, SlotsOf, InCore, WorkerState, TypeOK
  <2>3. NoLeak'
    BY <1>17, QueueHead, QueueTailSlots DEF DiscardMessage, NoLeak, InCore,
      WorkerState, TypeOK, SlotOwnership, Filling, WorkerHolds, QueuedSlots
  <2>4. PoolIntact'
    BY <1>17, QueueHead, QueueTail, SMTT(30) DEF DiscardMessage, PoolIntact, PostReady,
      TypeOK, SlotsOf, SlotOwnership, Filling, WorkerHolds, QueuedSlots
  <2>5. InCore' /\ WorkerState' /\ QuietWhenUnlisted' /\ PostReady' /\
    ScanPassed'
    BY <1>17, Zenon DEF DiscardMessage, InCore, WorkerState, TypeOK,
      QuietWhenUnlisted, PostReady, SlotOwnership, Filling, WorkerHolds,
      QueuedSlots, ScanPassed, Slots
  <2> QED
    BY <2>1, <2>2, <2>3, <2>4, <2>5, Zenon
<1>18. CASE DiscardDone
  <2>1. SlotOwnership'
    BY <1>18, SMTT(30) DEF DiscardDone, SlotOwnership, Filling, WorkerHolds,
      QueuedSlots, SlotsOf, InCore, WorkerState, TypeOK
  <2>2. NoLeak'
    BY <1>18, SMTT(30) DEF DiscardDone, NoLeak, InCore, WorkerState, TypeOK,
      SlotOwnership, Filling, WorkerHolds, QueuedSlots
  <2>3. ScanPassed'
    BY <1>18, Zenon DEF DiscardDone, ScanPassed, InCore, TypeOK, Slots
  <2>4. TypeOK' /\ InCore' /\ WorkerState' /\ QuietWhenUnlisted' /\
    PoolIntact' /\ PostReady'
    BY <1>18, Zenon DEF DiscardDone, TypeOK, Slots, InCore, WorkerState,
      QuietWhenUnlisted, PoolIntact, PostReady, SlotsOf, SlotOwnership,
      Filling, WorkerHolds, QueuedSlots
  <2> QED
    BY <2>1, <2>2, <2>3, <2>4, Zenon
<1>19. CASE StopDone
  <2>1. TypeOK'
    BY <1>19, Zenon DEF StopDone, TypeOK, Slots
  <2>2. WorkerState'
    BY <1>19, Zenon DEF StopDone, WorkerState, InCore, TypeOK
  <2>3. SlotOwnership'
    BY <1>19 DEF StopDone, SlotOwnership, Filling, WorkerHolds, QueuedSlots,
      SlotsOf, InCore, WorkerState, TypeOK
  <2>4. NoLeak'
    BY <1>19, Zenon DEF StopDone, NoLeak, InCore, WorkerState, TypeOK, SlotOwnership,
      Filling, WorkerHolds, QueuedSlots
  <2>5. InCore' /\ QuietWhenUnlisted' /\ PoolIntact' /\ PostReady' /\
    ScanPassed'
    BY <1>19, Zenon DEF StopDone, InCore, WorkerState, TypeOK, QuietWhenUnlisted,
      PoolIntact, PostReady, SlotsOf, SlotOwnership, Filling, WorkerHolds,
      QueuedSlots, ScanPassed, Slots
  <2> QED
    BY <2>1, <2>2, <2>3, <2>4, <2>5, Zenon
<1>20. CASE AbandonTitle
  <2>1. TypeOK'
    BY <1>20, Zenon DEF AbandonTitle, TypeOK, Slots
  <2>2. WorkerState'
    BY <1>20, Zenon DEF AbandonTitle, WorkerState, InCore, TypeOK
  <2>3. SlotOwnership'
    BY <1>20 DEF AbandonTitle, SlotOwnership, Filling, WorkerHolds,
      QueuedSlots, SlotsOf, InCore, WorkerState, TypeOK
  <2>4. NoLeak'
    BY <1>20, Zenon DEF AbandonTitle, NoLeak, InCore, WorkerState, TypeOK,
      SlotOwnership, Filling, WorkerHolds, QueuedSlots
  <2>5. InCore' /\ QuietWhenUnlisted' /\ PoolIntact' /\ PostReady' /\
    ScanPassed'
    BY <1>20, Zenon DEF AbandonTitle, InCore, WorkerState, TypeOK, QuietWhenUnlisted,
      PoolIntact, PostReady, SlotsOf, SlotOwnership, Filling, WorkerHolds,
      QueuedSlots, ScanPassed, Slots
  <2> QED
    BY <2>1, <2>2, <2>3, <2>4, <2>5, Zenon
<1>21. CASE NextTitle
  <2>1. TypeOK'
    BY <1>21, Zenon DEF NextTitle, TypeOK, Slots
  <2>2. SlotOwnership'
    BY <1>21, Zenon DEF NextTitle, SlotOwnership, Filling, WorkerHolds, QueuedSlots,
      SlotsOf, InCore, WorkerState, TypeOK
  <2>3. InCore' /\ WorkerState' /\ QuietWhenUnlisted' /\ NoLeak' /\
    PoolIntact' /\ PostReady' /\ ScanPassed'
    BY <1>21, Zenon DEF NextTitle, InCore, WorkerState, TypeOK, QuietWhenUnlisted,
      NoLeak, SlotOwnership, Filling, WorkerHolds, QueuedSlots, PoolIntact,
      PostReady, SlotsOf, ScanPassed, Slots
  <2> QED
    BY <2>1, <2>2, <2>3, Zenon
<1>22. CASE UNCHANGED vars
  BY <1>22 DEF vars, TypeOK, InCore, WorkerState, QuietWhenUnlisted,
    SlotOwnership, NoLeak, PoolIntact, PostReady, ScanPassed, Filling,
    WorkerHolds, QueuedSlots
<1> QED
  BY <1>1, <1>2, <1>3, <1>4, <1>5, <1>6, <1>7, <1>8, <1>9, <1>10, <1>11,
    <1>12, <1>13, <1>14, <1>15, <1>16, <1>17, <1>18, <1>19, <1>20, <1>21,
    <1>22, Zenon DEF Next, SendStep, WorkerStep

------------------------------------------------------------------------------
(* What follows from it.                                                    *)

\* The invariant holds in every reachable state of the transmit path.
THEOREM InvariantHolds == Spec => []IInv
BY InitIInv, NextIInv, PTL DEF Spec

\* Every variable of ax_net.c's transmit path keeps its type: in particular
\* send_frame's scan never leaves the pool and a message names a real buffer.
THEOREM TypeCorrect == Spec => []TypeOK
<1>1. IInv => TypeOK
  BY Zenon DEF IInv
<1> QED
  BY <1>1, InvariantHolds, PTL

\* Each buffer of tx_pool has at most one owner among the threads in
\* send_frame, the queue and the worker in drain_tx, and is marked in use.
THEOREM OwnershipCorrect == Spec => []SlotOwnership
<1>1. IInv => SlotOwnership
  BY Zenon DEF IInv
<1> QED
  BY <1>1, InvariantHolds, PTL

\* No buffer of tx_pool is lost while the stack runs.
THEOREM LeakFree == Spec => []NoLeak
<1>1. IInv => NoLeak
  BY Zenon DEF IInv
<1> QED
  BY <1>1, InvariantHolds, PTL

\* OSSendMessage in send_frame never finds tx_queue full.
THEOREM OverflowFree == Spec => []QueueNeverFull
<1>1. IInv => QueueNeverFull
  <2> SUFFICES ASSUME IInv, NEW t \in Threads, spc[t] = "post"
               PROVE  Len(tx_queue) < TX_SLOTS
    BY Zenon DEF QueueNeverFull
  <2>1. tx_queue \in Seq(Message) /\ slot[t] \in Slots
    BY Zenon DEF IInv, TypeOK
  <2>2. slot[t] \notin SlotsOf(tx_queue)
    BY Zenon DEF IInv, SlotOwnership, Filling, QueuedSlots
  <2>3. \A i, j \in 1 .. Len(tx_queue) :
          tx_queue[i].slot = tx_queue[j].slot => i = j
    BY Zenon DEF IInv, SlotOwnership
  <2> QED
    BY <2>1, <2>2, <2>3, QueueRoom, Zenon
<1> QED
  BY <1>1, InvariantHolds, PTL

\* send_frame drops a frame with ERR_MEM only when the pool was full when the
\* call began.
THEOREM DropsOnlyWhenFull == Spec => DropOnlyWhenFull
<1> DEFINE A == \A t \in Threads :
                  spc[t] = "scan" /\ spc'[t] = "out" /\ initialized'
                    => freeAtStart[t] = {}
<1>1. IInv /\ [Next]_vars => [A]_vars
  <2> SUFFICES ASSUME IInv, Next, NEW t \in Threads,
                      spc[t] = "scan", spc'[t] = "out", initialized'
               PROVE  freeAtStart[t] = {}
    BY Zenon
  <2>1. ScanFull(t)
    <3> USE DEF IInv, TypeOK, Threads
    <3>1. ASSUME NEW u \in Threads, SendStep(u) PROVE ScanFull(t)
      BY <3>1, Zenon DEF SendStep, ClaimSlot, ScanNext, ScanFull, CopyFrame, CopyShort,
        PostMessage
    <3>2. ASSUME NEW u \in Threads, NEW f \in Frames PROVE ~SendFrame(u, f)
      BY Zenon DEF SendFrame
    <3>3. ASSUME NEW p \in Producers PROVE ~EnterCore(p) /\ ~LeaveCore(p)
      BY Zenon DEF EnterCore, LeaveCore, sendVars
    <3>4. ~WorkerStep
      BY Zenon DEF WorkerStep, StartNet, StartDone, StartFailed, ReceiveMessage,
        SendDone, StopNet, RemoveNetif, DiscardMessage, DiscardDone, StopDone,
        AbandonTitle, NextTitle, sendVars
    <3> QED
      BY <3>1, <3>2, <3>3, <3>4, Zenon DEF Next
  <2>2. \A s \in freeAtStart[t] : s \in Slots /\ ~tx_in_use[s] /\ s >= slot[t]
    BY Zenon DEF IInv, ScanPassed, TypeOK
  <2> QED
    BY <2>1, <2>2, SlotsAssumption, SMTT(30) DEF ScanFull, IInv, TypeOK, Slots
<1> QED
  BY <1>1, InvariantHolds, PTL DEF Spec, DropOnlyWhenFull

\* When ax_net_stop returns, tx_queue is empty and every buffer is free.
THEOREM StopIsClean == Spec => StopLeavesNothing
<1> DEFINE A == wpc = "drain" /\ wpc' = "idle" /\ initialized' =>
                  /\ tx_queue' = << >>
                  /\ \A s \in Slots : ~tx_in_use'[s]
<1>1. IInv /\ [Next]_vars => [A]_vars
  <2> SUFFICES ASSUME IInv, Next, wpc = "drain", wpc' = "idle", initialized'
               PROVE  tx_queue' = << >> /\ \A s \in Slots : ~tx_in_use'[s]
    BY Zenon
  <2>1. StopDone
    BY Zenon DEF Next, SendFrame, SendStep, ClaimSlot, ScanNext, ScanFull, CopyFrame,
      CopyShort, PostMessage, EnterCore, LeaveCore, WorkerStep, StartNet,
      StartDone, StartFailed, ReceiveMessage, SendDone, StopNet, RemoveNetif,
      DiscardMessage, DiscardDone, AbandonTitle, NextTitle
  <2>2. tx_queue = << >> /\ UNCHANGED <<tx_queue, tx_in_use>>
    BY <2>1, Zenon DEF StopDone, poolVars
  <2>3. \A t \in Threads : ~Filling(t)
    BY Zenon DEF IInv, WorkerState, QuietWhenUnlisted, Filling
  <2>4. QueuedSlots = {} /\ ~WorkerHolds
    BY <2>2 DEF QueuedSlots, SlotsOf, WorkerHolds
  <2>5. \A s \in Slots : ~tx_in_use[s]
    BY <2>3, <2>4, Zenon DEF IInv, WorkerState, NoLeak
  <2> QED
    BY <2>2, <2>5, Zenon
<1> QED
  BY <1>1, InvariantHolds, PTL DEF Spec, StopLeavesNothing

------------------------------------------------------------------------------
(* The transmit path implements the FIFO.                                   *)

\* The frames of a queue are a list as long as the queue.
LEMMA ContentsType ==
  ASSUME NEW q \in Seq(Message), NEW pool
  PROVE  /\ Contents(q, pool) \in Seq({pool[s] : s \in Slots})
         /\ Len(Contents(q, pool)) = Len(q)
<1>1. \A i \in 1 .. Len(q) : pool[q[i].slot] \in {pool[s] : s \in Slots}
  <2> TAKE i \in 1 .. Len(q)
  <2>1. q[i] \in Message
    OBVIOUS
  <2> QED
    BY <2>1, Zenon DEF Message
<1> QED
  BY <1>1 DEF Contents

\* Queueing a message queues the frame of its buffer.
LEMMA ContentsAppend ==
  ASSUME NEW q \in Seq(Message), NEW m \in Message, NEW pool
  PROVE  Contents(Append(q, m), pool) = Append(Contents(q, pool), pool[m.slot])
<1>1. Len(Contents(q, pool)) = Len(q) /\ Contents(q, pool) \in Seq({pool[s] : s \in Slots})
  BY ContentsType, Zenon
<1>2. /\ Len(Append(q, m)) = Len(q) + 1
      /\ \A i \in 1 .. Len(q) : Append(q, m)[i] = q[i]
      /\ Append(q, m)[Len(q) + 1] = m
  BY QueueAppend, Zenon
<1> QED
  BY <1>1, <1>2 DEF Contents

\* Receiving a message takes the frame of the first buffer.
LEMMA ContentsTail ==
  ASSUME NEW q \in Seq(Message), q # << >>, NEW pool
  PROVE  /\ Contents(q, pool) # << >>
         /\ Head(Contents(q, pool)) = pool[Head(q).slot]
         /\ Contents(Tail(q), pool) = Tail(Contents(q, pool))
<1>1. Len(Contents(q, pool)) = Len(q) /\ Contents(q, pool) \in Seq({pool[s] : s \in Slots})
  BY ContentsType, Zenon
<1>2. Len(q) \in Nat /\ Len(q) > 0
  BY QueueHead
<1>3. Contents(q, pool) # << >>
  BY <1>1, <1>2
<1>4. Head(Contents(q, pool)) = pool[Head(q).slot]
  BY <1>1, <1>2, <1>3, QueueHead, SMTT(30) DEF Contents
<1>5. Contents(Tail(q), pool) = Tail(Contents(q, pool))
  BY <1>1, <1>2, <1>3, QueueTail, SMTT(30) DEF Contents
<1> QED
  BY <1>3, <1>4, <1>5, Zenon

\* The frame the worker is sending, as the FIFO sees it.
Sending == IF wpc = "send" THEN tx_pool[wslot] ELSE NoFrame

\* Every step of the transmit path is a step of the FIFO or leaves it alone.
LEMMA StepRefines ==
  ASSUME IInv, Next
  PROVE  Fifo!FifoNext \/ UNCHANGED Fifo!fifoVars
<1> USE DEF IInv
<1> DEFINE F == Contents(tx_queue, tx_pool)
<1>0. tx_queue \in Seq(Message)
  BY Zenon DEF TypeOK
<1>1. ASSUME UNCHANGED <<tx_queue, tx_pool, wslot>>, wpc' = "send" <=> wpc = "send"
      PROVE  UNCHANGED Fifo!fifoVars
  BY <1>1, Zenon DEF Fifo!fifoVars, Contents
<1>2. ASSUME NEW t \in Threads, CopyFrame(t) PROVE UNCHANGED Fifo!fifoVars
  <2>1. \A i \in 1 .. Len(tx_queue) : tx_queue[i].slot # slot[t]
    BY <1>2, Zenon DEF CopyFrame, SlotOwnership, Filling, QueuedSlots, SlotsOf
  <2>2. wpc = "send" => wslot # slot[t]
    BY <1>2, Zenon DEF CopyFrame, SlotOwnership, Filling, WorkerHolds
  <2>3. \A s \in Slots \ {slot[t]} : tx_pool'[s] = tx_pool[s]
    BY <1>2, Zenon DEF CopyFrame, TypeOK
  <2>4. \A i \in 1 .. Len(tx_queue) : tx_queue[i].slot \in Slots
    <3> TAKE i \in 1 .. Len(tx_queue)
    <3>1. tx_queue[i] \in Message
      BY <1>0, SMTT(30)
    <3> QED
      BY <3>1, Zenon DEF Message
  <2>5. F' = F
    BY <1>2, <2>1, <2>3, <2>4, Zenon DEF CopyFrame, Contents
  <2>6. Sending' = Sending
    BY <1>2, <2>2, <2>3, Zenon DEF CopyFrame, Sending, TypeOK
  <2> QED
    BY <2>5, <2>6, Zenon DEF Fifo!fifoVars, Sending
<1>3. ASSUME NEW t \in Threads, PostMessage(t)
      PROVE  Fifo!FifoNext \/ UNCHANGED Fifo!fifoVars
  <2>1. /\ [slot |-> slot[t], len |-> frame[t]] \in Message
        /\ frame[t] \in Frames
        /\ tx_pool[slot[t]] = frame[t]
    BY <1>3, Zenon DEF PostMessage, Message, TypeOK, InCore, PostReady
  <2>2. CASE Len(tx_queue) < TX_SLOTS
    <3>1. F' = Append(F, frame[t])
      BY <1>0, <1>3, <2>1, <2>2, ContentsAppend, Zenon DEF PostMessage
    <3>2. Len(F) < TX_SLOTS
      BY <1>0, <2>2, ContentsType, Zenon
    <3>3. Sending' = Sending
      BY <1>3, Zenon DEF PostMessage, Sending
    <3>4. Fifo!Accept(frame[t])
      BY <3>1, <3>2, <3>3, Zenon DEF Fifo!Accept, Sending
    <3> QED
      BY <2>1, <3>4, Zenon DEF Fifo!FifoNext
  <2>3. CASE ~(Len(tx_queue) < TX_SLOTS)
    BY <1>1, <1>3, <2>3, Zenon DEF PostMessage
  <2> QED
    BY <2>2, <2>3, Zenon
<1>4. CASE ReceiveMessage
  <2>1. /\ F # << >>
        /\ tx_pool'[wslot'] = Head(F)
        /\ F' = Tail(F)
    BY <1>0, <1>4, ContentsTail, Zenon DEF ReceiveMessage
  <2>2. Fifo!Take
    BY <1>4, <2>1, Zenon DEF ReceiveMessage, Fifo!Take
  <2> QED
    BY <2>2, Zenon DEF Fifo!FifoNext
<1>5. CASE DiscardMessage
  <2>1. F # << >> /\ F' = Tail(F)
    BY <1>0, <1>5, ContentsTail, Zenon DEF DiscardMessage
  <2>2. Fifo!Skip
    BY <1>5, <2>1, Zenon DEF DiscardMessage, Fifo!Skip
  <2> QED
    BY <2>2, Zenon DEF Fifo!FifoNext
<1>6. CASE SendDone \/ NextTitle
  <2>1. Fifo!Done
    BY <1>6, Zenon DEF SendDone, NextTitle, poolVars, Fifo!Done, Contents
  <2> QED
    BY <2>1, Zenon DEF Fifo!FifoNext
<1>7. CASE StartNet
  <2>1. CASE initialized
    BY <1>1, <1>7, <2>1, Zenon DEF StartNet
  <2>2. CASE ~initialized
    <3>1. F' = << >>
      BY <1>7, <2>2, SMTT(30) DEF StartNet, Contents
    <3>2. Fifo!Flush
      BY <1>7, <3>1, Zenon DEF StartNet, Fifo!Flush
    <3> QED
      BY <3>2, ZenonT(30) DEF Fifo!FifoNext
  <2> QED
    BY <2>1, <2>2, Zenon
<1>8. ASSUME NEW t \in Threads, NEW f \in Frames, SendFrame(t, f)
      PROVE  UNCHANGED Fifo!fifoVars
  BY <1>1, <1>8, Zenon DEF SendFrame, poolVars
<1>9. ASSUME NEW t \in Threads,
             ClaimSlot(t) \/ ScanNext(t) \/ ScanFull(t) \/ CopyShort(t)
      PROVE  UNCHANGED Fifo!fifoVars
  BY <1>1, <1>9, Zenon DEF ClaimSlot, ScanNext, ScanFull, CopyShort, poolVars
<1>10. ASSUME NEW p \in Producers, EnterCore(p) \/ LeaveCore(p)
       PROVE  UNCHANGED Fifo!fifoVars
  BY <1>1, <1>10, Zenon DEF EnterCore, LeaveCore, poolVars
<1>11. CASE StartDone \/ StartFailed \/ StopNet \/ RemoveNetif \/ DiscardDone
            \/ StopDone \/ AbandonTitle
  BY <1>1, <1>11, Zenon DEF StartDone, StartFailed, StopNet, RemoveNetif, DiscardDone,
    StopDone, AbandonTitle, poolVars
<1> QED
  BY <1>2, <1>3, <1>4, <1>5, <1>6, <1>7, <1>8, <1>9, <1>10, <1>11, Zenon
    DEF Next, SendStep, WorkerStep

\* What leaves through ax88179_send is what lwIP gave to send_frame: the same
\* frames, each once, in the same order, except those that are discarded.
THEOREM Refinement == Spec => ImplementsFifo
<1>1. Init => Fifo!FifoInit
  <2> SUFFICES ASSUME Init PROVE Fifo!FifoInit
    BY Zenon
  <2>1. Contents(tx_queue, tx_pool) = << >>
    BY DEF Init, Contents
  <2> QED
    BY <2>1, Zenon DEF Init, Fifo!FifoInit
<1>2. IInv /\ [Next]_vars => [Fifo!FifoNext]_(Fifo!fifoVars)
  <2>1. ASSUME UNCHANGED vars PROVE UNCHANGED Fifo!fifoVars
    BY <2>1, Zenon DEF vars, poolVars, Fifo!fifoVars, Contents
  <2> QED
    BY <2>1, StepRefines, Zenon
<1> QED
  BY <1>1, <1>2, InvariantHolds, PTL DEF Spec, ImplementsFifo, Fifo!FifoSpec

==============================================================================
