------------------------------- MODULE TxPool -------------------------------
(***************************************************************************)
(* The transmit path of src/net/ax_net.c: lwIP calls send_frame with the   *)
(* core lock held, the network worker empties the queue with drain_tx and  *)
(* without that lock.  The two meet in tx_in_use (one flag per buffer of   *)
(* tx_pool, claimed by compare-and-swap) and in tx_queue.                  *)
(*                                                                         *)
(* The worker's calls of ax_net_start, ax_net_poll, ax_net_stop and        *)
(* ax_net_abandon_title are its control states wpc; only their effect on   *)
(* the transmit path is kept.  A frame stands for its bytes and its        *)
(* tot_len.  Frames larger than a buffer are refused before anything is    *)
(* touched (ERR_BUF) and are left out.                                     *)
(***************************************************************************)
EXTENDS Naturals, Sequences, FiniteSets

CONSTANTS TX_SLOTS,   \* number of transmit buffers, 32 in the code
          Producers,  \* the tcpip thread and application threads in the core
          Worker,     \* the network worker, itself a producer in setup/stop
          NoThread,   \* the core lock is free
          Frames,     \* frames lwIP hands to the interface
          NoFrame     \* a buffer that was never written

ASSUME SlotsAssumption == TX_SLOTS \in Nat \ {0}
ASSUME ThreadsAssumption ==
  /\ Worker \notin Producers
  /\ NoThread \notin Producers \cup {Worker}
ASSUME FramesAssumption == NoFrame \notin Frames

Slots == 0 .. TX_SLOTS - 1

Threads == Producers \cup {Worker}

VARIABLES
  core_lock,       \* holder of LOCK_TCPIP_CORE, or NoThread
  tx_in_use,       \* one flag per buffer
  tx_pool,         \* contents of the buffers
  tx_queue,        \* messages [slot, len]; the frame stands for its length
  initialized,     \* tcpip_init has run in this title's process
  active,          \* ax_net_start succeeded and ax_net_stop did not run
  netif_listed,    \* iface is in lwIP's netif_list: frames reach send_frame
  spc,             \* where each thread is in send_frame
  slot,            \* its local variable slot, and the scan index before that
  frame,           \* the pbuf it is sending
  wpc,             \* the worker's place in ax_net_*
  wslot,           \* drain_tx's local variable slot
  freeAtStart      \* history: buffers free when the scan of a thread began

poolVars == <<tx_in_use, tx_pool, tx_queue>>

sendVars == <<spc, slot, frame, freeAtStart>>

lifeVars == <<initialized, active, netif_listed>>

vars == <<core_lock, poolVars, lifeVars, sendVars, wpc, wslot>>

Message == [slot : Slots, len : Frames]

TypeOK ==
  /\ core_lock \in Threads \cup {NoThread}
  /\ tx_in_use \in [Slots -> BOOLEAN]
  /\ tx_pool \in [Slots -> Frames \cup {NoFrame}]
  /\ tx_queue \in Seq(Message)
  /\ initialized \in BOOLEAN
  /\ active \in BOOLEAN
  /\ netif_listed \in BOOLEAN
  /\ spc \in [Threads -> {"out", "scan", "copy", "post"}]
  /\ slot \in [Threads -> Slots]
  /\ frame \in [Threads -> Frames \cup {NoFrame}]
  /\ wpc \in {"idle", "setup", "poll", "send", "stop", "drain", "discard", "dead"}
  /\ wslot \in Slots
  /\ freeAtStart \in [Threads -> SUBSET Slots]

Init ==
  /\ core_lock = NoThread
  /\ tx_in_use = [s \in Slots |-> FALSE]
  /\ tx_pool = [s \in Slots |-> NoFrame]
  /\ tx_queue = << >>
  /\ initialized = FALSE
  /\ active = FALSE
  /\ netif_listed = FALSE
  /\ spc = [t \in Threads |-> "out"]
  /\ slot = [t \in Threads |-> 0]
  /\ frame = [t \in Threads |-> NoFrame]
  /\ wpc = "idle"
  /\ wslot = 0
  /\ freeAtStart = [t \in Threads |-> {}]

------------------------------------------------------------------------------
(* send_frame, run by any thread that holds the core lock.                  *)

\* lwIP routes a frame to the interface: the call begins its scan.
SendFrame(t, f) ==
  /\ core_lock = t
  /\ netif_listed
  /\ spc[t] = "out"
  /\ spc' = [spc EXCEPT ![t] = "scan"]
  /\ slot' = [slot EXCEPT ![t] = 0]
  /\ frame' = [frame EXCEPT ![t] = f]
  /\ freeAtStart' = [freeAtStart EXCEPT ![t] = {s \in Slots : ~tx_in_use[s]}]
  /\ UNCHANGED <<core_lock, poolVars, lifeVars, wpc, wslot>>

\* Mutant of ClaimSlot: a plain store instead of the compare-and-swap.
ClaimWithoutTest(t) ==
  /\ spc[t] = "scan"
  /\ tx_in_use' = [tx_in_use EXCEPT ![slot[t]] = TRUE]
  /\ spc' = [spc EXCEPT ![t] = "copy"]
  /\ UNCHANGED <<core_lock, tx_pool, tx_queue, lifeVars, slot, frame,
                 freeAtStart, wpc, wslot>>

\* One compare-and-swap of the scan succeeds.
ClaimSlot(t) ==
  /\ spc[t] = "scan"
  /\ ~tx_in_use[slot[t]]
  /\ tx_in_use' = [tx_in_use EXCEPT ![slot[t]] = TRUE]
  /\ spc' = [spc EXCEPT ![t] = "copy"]
  /\ UNCHANGED <<core_lock, tx_pool, tx_queue, lifeVars, slot, frame,
                 freeAtStart, wpc, wslot>>

\* It fails and the scan goes on with the next buffer.
ScanNext(t) ==
  /\ spc[t] = "scan"
  /\ tx_in_use[slot[t]]
  /\ slot[t] + 1 < TX_SLOTS
  /\ slot' = [slot EXCEPT ![t] = @ + 1]
  /\ UNCHANGED <<core_lock, poolVars, lifeVars, spc, frame, freeAtStart,
                 wpc, wslot>>

\* It fails on the last buffer: the frame is dropped with ERR_MEM.
ScanFull(t) ==
  /\ spc[t] = "scan"
  /\ tx_in_use[slot[t]]
  /\ slot[t] + 1 = TX_SLOTS
  /\ spc' = [spc EXCEPT ![t] = "out"]
  /\ UNCHANGED <<core_lock, poolVars, lifeVars, slot, frame, freeAtStart,
                 wpc, wslot>>

\* pbuf_copy_partial copied the whole frame.
CopyFrame(t) ==
  /\ spc[t] = "copy"
  /\ tx_pool' = [tx_pool EXCEPT ![slot[t]] = frame[t]]
  /\ spc' = [spc EXCEPT ![t] = "post"]
  /\ UNCHANGED <<core_lock, tx_in_use, tx_queue, lifeVars, slot, frame,
                 freeAtStart, wpc, wslot>>

\* Mutant of CopyShort: the early return forgets the buffer.
CopyShortLeaks(t) ==
  /\ spc[t] = "copy"
  /\ spc' = [spc EXCEPT ![t] = "out"]
  /\ UNCHANGED <<core_lock, poolVars, lifeVars, slot, frame,
                 freeAtStart, wpc, wslot>>

\* pbuf_copy_partial came up short: the buffer is given back.
CopyShort(t) ==
  /\ spc[t] = "copy"
  /\ tx_in_use' = [tx_in_use EXCEPT ![slot[t]] = FALSE]
  /\ spc' = [spc EXCEPT ![t] = "out"]
  /\ UNCHANGED <<core_lock, tx_pool, tx_queue, lifeVars, slot, frame,
                 freeAtStart, wpc, wslot>>

\* Mutant of PostMessage: the buffer is freed as soon as it is queued.
PostFreesBuffer(t) ==
  /\ spc[t] = "post"
  /\ spc' = [spc EXCEPT ![t] = "out"]
  /\ tx_queue' = Append(tx_queue, [slot |-> slot[t], len |-> frame[t]])
  /\ Len(tx_queue) < TX_SLOTS
  /\ tx_in_use' = [tx_in_use EXCEPT ![slot[t]] = FALSE]
  /\ UNCHANGED <<core_lock, tx_pool, lifeVars, slot, frame, freeAtStart,
                 wpc, wslot>>

\* OSSendMessage without the blocking flag: refused when the queue is full.
PostMessage(t) ==
  /\ spc[t] = "post"
  /\ spc' = [spc EXCEPT ![t] = "out"]
  /\ IF Len(tx_queue) < TX_SLOTS
       THEN /\ tx_queue' = Append(tx_queue, [slot |-> slot[t], len |-> frame[t]])
            /\ UNCHANGED tx_in_use
       ELSE /\ tx_in_use' = [tx_in_use EXCEPT ![slot[t]] = FALSE]
            /\ UNCHANGED tx_queue
  /\ UNCHANGED <<core_lock, tx_pool, lifeVars, slot, frame, freeAtStart,
                 wpc, wslot>>

SendStep(t) ==
  \/ ClaimSlot(t)
  \/ ScanNext(t)
  \/ ScanFull(t)
  \/ CopyFrame(t)
  \/ CopyShort(t)
  \/ PostMessage(t)

\* A producer takes and releases the core lock around its work in lwIP.  The
\* lock exists from tcpip_init to the end of the process.
EnterCore(p) ==
  /\ initialized \/ wpc = "dead"
  /\ core_lock = NoThread
  /\ core_lock' = p
  /\ UNCHANGED <<poolVars, lifeVars, sendVars, wpc, wslot>>

LeaveCore(p) ==
  /\ core_lock = p
  /\ spc[p] = "out"
  /\ core_lock' = NoThread
  /\ UNCHANGED <<poolVars, lifeVars, sendVars, wpc, wslot>>

------------------------------------------------------------------------------
(* The worker's side.                                                       *)

\* ax_net_start up to netif_add: on the first start of a title the flags and
\* the queue are reset; the interface is added with the core lock held.
StartNet ==
  /\ wpc = "idle"
  /\ ~active
  /\ core_lock = NoThread
  /\ core_lock' = Worker
  /\ initialized' = TRUE
  /\ netif_listed' = TRUE
  /\ IF initialized
       THEN UNCHANGED <<tx_in_use, tx_queue>>
       ELSE /\ tx_in_use' = [s \in Slots |-> FALSE]
            /\ tx_queue' = << >>
  /\ wpc' = "setup"
  /\ UNCHANGED <<tx_pool, active, sendVars, wslot>>

\* setup_netif ends, after the frames that link-up and dhcp_start sent.
StartDone ==
  /\ wpc = "setup"
  /\ spc[Worker] = "out"
  /\ core_lock' = NoThread
  /\ active' = TRUE
  /\ wpc' = "poll"
  /\ UNCHANGED <<poolVars, initialized, netif_listed, sendVars, wslot>>

\* dhcp_start failed: the interface is removed again, nothing is drained.
StartFailed ==
  /\ wpc = "setup"
  /\ spc[Worker] = "out"
  /\ core_lock' = NoThread
  /\ netif_listed' = FALSE
  /\ wpc' = "idle"
  /\ UNCHANGED <<poolVars, initialized, active, sendVars, wslot>>

\* Mutant of ReceiveMessage: the buffer is freed before it is sent.
ReceiveFreesBuffer ==
  /\ wpc = "poll"
  /\ tx_queue # << >>
  /\ wslot' = Head(tx_queue).slot
  /\ tx_queue' = Tail(tx_queue)
  /\ tx_in_use' = [tx_in_use EXCEPT ![Head(tx_queue).slot] = FALSE]
  /\ wpc' = "send"
  /\ UNCHANGED <<core_lock, tx_pool, lifeVars, sendVars>>

\* drain_tx(ax, 1) from ax_net_poll: a message is received ...
ReceiveMessage ==
  /\ wpc = "poll"
  /\ tx_queue # << >>
  /\ wslot' = Head(tx_queue).slot
  /\ tx_queue' = Tail(tx_queue)
  /\ wpc' = "send"
  /\ UNCHANGED <<core_lock, tx_in_use, tx_pool, lifeVars, sendVars>>

\* ... and its buffer is freed once ax88179_send returned, sent or not.
SendDone ==
  /\ wpc = "send"
  /\ tx_in_use' = [tx_in_use EXCEPT ![wslot] = FALSE]
  /\ wpc' = "poll"
  /\ UNCHANGED <<core_lock, tx_pool, tx_queue, lifeVars, sendVars, wslot>>

\* ax_net_stop takes the core lock; dhcp_release may still send a frame.
StopNet ==
  /\ wpc = "poll"
  /\ active
  /\ core_lock = NoThread
  /\ core_lock' = Worker
  /\ wpc' = "stop"
  /\ UNCHANGED <<poolVars, lifeVars, sendVars, wslot>>

\* stop_netif removes the interface and the lock is released.
RemoveNetif ==
  /\ wpc = "stop"
  /\ spc[Worker] = "out"
  /\ netif_listed' = FALSE
  /\ core_lock' = NoThread
  /\ wpc' = "drain"
  /\ UNCHANGED <<poolVars, initialized, active, sendVars, wslot>>

\* drain_tx(ax, 0): receive without sending ...
DiscardMessage ==
  /\ wpc = "drain"
  /\ tx_queue # << >>
  /\ wslot' = Head(tx_queue).slot
  /\ tx_queue' = Tail(tx_queue)
  /\ wpc' = "discard"
  /\ UNCHANGED <<core_lock, tx_in_use, tx_pool, lifeVars, sendVars>>

\* ... free the buffer ...
DiscardDone ==
  /\ wpc = "discard"
  /\ tx_in_use' = [tx_in_use EXCEPT ![wslot] = FALSE]
  /\ wpc' = "drain"
  /\ UNCHANGED <<core_lock, tx_pool, tx_queue, lifeVars, sendVars, wslot>>

\* ... until the queue is empty.
StopDone ==
  /\ wpc = "drain"
  /\ tx_queue = << >>
  /\ active' = FALSE
  /\ wpc' = "idle"
  /\ UNCHANGED <<core_lock, poolVars, initialized, netif_listed, sendVars,
                 wslot>>

\* ax_net_abandon_title at the end of a title: nothing is drained and lwIP
\* keeps the interface, so the title's threads may still send.
AbandonTitle ==
  /\ wpc = "poll"
  /\ initialized' = FALSE
  /\ active' = FALSE
  /\ wpc' = "dead"
  /\ UNCHANGED <<core_lock, poolVars, netif_listed, sendVars, wslot>>

\* The process goes away, abandoned in good order or killed anywhere, with its
\* threads and its locks.  The module's static data stays, and the next
\* title's worker calls ax_net_forget before anything else.
NextTitle ==
  /\ initialized \/ wpc = "dead"
  /\ core_lock' = NoThread
  /\ spc' = [t \in Threads |-> "out"]
  /\ wpc' = "idle"
  /\ initialized' = FALSE
  /\ active' = FALSE
  /\ netif_listed' = FALSE
  /\ UNCHANGED <<poolVars, slot, frame, freeAtStart, wslot>>

WorkerStep ==
  \/ StartNet
  \/ StartDone
  \/ StartFailed
  \/ ReceiveMessage
  \/ SendDone
  \/ StopNet
  \/ RemoveNetif
  \/ DiscardMessage
  \/ DiscardDone
  \/ StopDone
  \/ AbandonTitle
  \/ NextTitle

Next ==
  \/ \E t \in Threads, f \in Frames : SendFrame(t, f)
  \/ \E t \in Threads : SendStep(t)
  \/ \E p \in Producers : EnterCore(p) \/ LeaveCore(p)
  \/ WorkerStep

Spec == Init /\ [][Next]_vars

\* The scheduler runs every thread, and the worker goes on with what it began.
\* One section under the core lock sends finitely many frames, so it ends even
\* though each frame postpones its end: strong fairness for those steps.
Fairness ==
  /\ \A t \in Threads : WF_vars(SendStep(t))
  /\ \A p \in Producers : SF_vars(LeaveCore(p))
  /\ SF_vars(StartDone \/ StartFailed)
  /\ SF_vars(RemoveNetif)
  /\ WF_vars(ReceiveMessage)
  /\ WF_vars(SendDone)
  /\ WF_vars(DiscardMessage)
  /\ WF_vars(DiscardDone)
  /\ WF_vars(StopDone)

FairSpec == Spec /\ Fairness

------------------------------------------------------------------------------
(* Properties.                                                              *)

\* A thread holds a buffer between its compare-and-swap and its post.
Filling(t) == spc[t] \in {"copy", "post"}

\* The worker holds a buffer between receiving its message and freeing it.
WorkerHolds == wpc \in {"send", "discard"}

SlotsOf(q) == {q[i].slot : i \in 1 .. Len(q)}

QueuedSlots == SlotsOf(tx_queue)

\* Every buffer a thread, the queue or the worker refers to is marked in use,
\* and no two of them refer to the same one: the producer's copy into
\* tx_pool never meets ax88179_send's read of it.
SlotOwnership ==
  /\ \A t \in Threads : Filling(t) =>
       /\ tx_in_use[slot[t]]
       /\ slot[t] \notin QueuedSlots
       /\ WorkerHolds => slot[t] # wslot
       /\ \A u \in Threads \ {t} : Filling(u) => slot[u] # slot[t]
  /\ \A i \in 1 .. Len(tx_queue) :
       /\ tx_in_use[tx_queue[i].slot]
       /\ WorkerHolds => tx_queue[i].slot # wslot
       /\ \A j \in 1 .. Len(tx_queue) :
            tx_queue[i].slot = tx_queue[j].slot => i = j
  /\ WorkerHolds => tx_in_use[wslot]

\* While the stack runs, a buffer marked in use has an owner that will free
\* it: no path of send_frame or drain_tx leaks a buffer.
NoLeak ==
  initialized =>
    \A s \in Slots : tx_in_use[s] =>
      \/ \E t \in Threads : Filling(t) /\ slot[t] = s
      \/ s \in QueuedSlots
      \/ WorkerHolds /\ wslot = s

\* "it cannot actually fill up": OSSendMessage in send_frame always finds
\* room, so its failure branch is dead code.
QueueNeverFull ==
  \A t \in Threads : spc[t] = "post" => Len(tx_queue) < TX_SLOTS

\* A message's length belongs to the frame in its buffer: from post to send
\* nobody rewrites the buffer.
PoolIntact ==
  \A i \in 1 .. Len(tx_queue) : tx_pool[tx_queue[i].slot] = tx_queue[i].len

\* A frame is dropped for want of a buffer only if every buffer was in use
\* when its send_frame began, even though the worker frees buffers behind
\* the scan.
DropOnlyWhenFull ==
  [][\A t \in Threads : spc[t] = "scan" /\ spc'[t] = "out" /\ initialized'
       => freeAtStart[t] = {}]_vars

\* ax_net_stop returns with the queue empty and every buffer free: "nothing
\* new can arrive in the queue" between its drain and active = 0.
StopLeavesNothing ==
  [][wpc = "drain" /\ wpc' = "idle" /\ initialized' =>
       /\ tx_queue' = << >>
       /\ \A s \in Slots : ~tx_in_use'[s]]_vars

\* A buffer in use is free again later unless the interface goes down.
BufferComesBack ==
  \A s \in Slots : (active /\ tx_in_use[s]) ~> (~active \/ ~tx_in_use[s])

\* The frames a queue refers to.
Contents(q, pool) == [i \in 1 .. Len(q) |-> pool[q[i].slot]]

\* The transmit path is a bounded FIFO of frames: what is sent on the wire is
\* what lwIP queued, in order and once, or it is discarded.
Fifo == INSTANCE FrameFifo WITH
  Items <- Frames,
  NoItem <- NoFrame,
  Capacity <- TX_SLOTS,
  fifo <- Contents(tx_queue, tx_pool),
  current <- IF wpc = "send" THEN tx_pool[wslot] ELSE NoFrame

\* ax_net.c's transmit path implements FrameFifo.
ImplementsFifo == Fifo!FifoSpec
==============================================================================
