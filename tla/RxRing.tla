-------------------------------- MODULE RxRing --------------------------------
(***************************************************************************)
(* The receive path of src/driver/ax88179.c: a ring of RX_ASYNC_SLOTS      *)
(* asynchronous bulk-IN requests, filled by UHS, consumed in order by the  *)
(* network worker, and the parser that walks the aggregate it copied out.  *)
(*                                                                         *)
(* Three actors: UHS completes the outstanding requests in the order they  *)
(* were submitted; the completion callbacks run on a thread of the UHS     *)
(* client, in any order among themselves; the worker runs ax_net_poll      *)
(* (src/net/ax_net.c), which calls ax88179_receive first with a timeout    *)
(* and then without one until it returns no frame.                         *)
(*                                                                         *)
(* A transfer is numbered in wire order.  Its contents are abstracted to   *)
(* what decides the control flow: how ax_rx_take_completed classifies it   *)
(* and what receive_buffered_impl does with each of its descriptors.       *)
(***************************************************************************)
EXTENDS Naturals, Sequences, FiniteSets

CONSTANTS RX_ASYNC_SLOTS,  \* requests kept in flight (3 in the code)
          Shapes,          \* what a completed transfer may look like
          Media,           \* the values ax->medium takes when the link is up
          MaxWire,         \* bound: transfers UHS completes
          FailPoints,      \* submissions UHS may refuse: "start", "rearm"
          MaxFails         \* bound: refused submissions

Statuses == {"error", "zero", "bad", "ok"}
Descs == {"frame", "skip", "overrun"}

ASSUME RingAssumption == RX_ASYNC_SLOTS \in Nat \ {0}
ASSUME ShapesAssumption ==
  \A h \in Shapes : h.status \in Statuses /\ h.descs \in Seq(Descs)
ASSUME MediaAssumption == 0 \notin Media
ASSUME BoundsAssumption ==
  MaxWire \in Nat /\ MaxFails \in Nat /\ FailPoints \subseteq {"start", "rearm"}

Slots == 0 .. RX_ASYNC_SLOTS - 1
Transfers == [id : 1 .. MaxWire, shape : Shapes]
NoTransfer == [id |-> 0, shape |-> [status |-> "zero", descs |-> << >>]]

VARIABLES
  state,             \* g_rx_slots[s].state: "IDLE", "PENDING" or "DONE"
  buf,               \* g_rx_async[s]: what the last DMA into the buffer wrote
  result,            \* g_rx_slots[s].ret and .actual: the status they encode
  event,             \* g_rx_event, auto-reset
  pending,           \* UHS: slots of the outstanding requests, oldest first
  callbacks,         \* UHS: completed requests whose callback has not run
  signalling,        \* callbacks between the store of DONE and OSSignalEvent
  phase,             \* "open", "closed", or "abandoned" until the process ends
  medium,            \* ax->medium, 0 while the link is down
  rx_async_started,  \* ax->rx_async_started
  rx_consume,        \* ax->rx_consume
  g_rx,              \* the aggregate the parser owns
  rx_frames,         \* ax->rx_frames
  rx_next,           \* ax->rx_next
  pc,                \* where the worker is
  call,              \* "first" or "second" take of the timed call, or "drain"
  index,             \* the slot being taken or submitted
  starting,          \* the submission belongs to ax_rx_start_async
  took,               \* what the take found: "pending", "error", "zero", "data",
                     \* or "empty" for an aggregate without frames
  delivered,         \* history: the last frame handed to lwIP
  wire,              \* history: transfers completed so far
  fails              \* history: submissions refused so far

slotVars == <<state, buf, result>>
uhsVars == <<pending, callbacks, signalling, wire>>
axVars == <<phase, medium, rx_async_started, rx_consume>>
parseVars == <<g_rx, rx_frames, rx_next, delivered>>
workVars == <<pc, call, index, starting, took>>
vars == <<slotVars, uhsVars, axVars, parseVars, workVars, event, fails>>

Init ==
  /\ state = [s \in Slots |-> "IDLE"]
  /\ buf = [s \in Slots |-> NoTransfer]
  /\ result = [s \in Slots |-> "zero"]
  /\ event = FALSE
  /\ pending = << >>
  /\ callbacks = {}
  /\ signalling = {}
  /\ phase = "closed"
  /\ medium = 0
  /\ rx_async_started = FALSE
  /\ rx_consume = 0
  /\ g_rx = NoTransfer
  /\ rx_frames = 0
  /\ rx_next = 0
  /\ pc = "idle"
  /\ call = "first"
  /\ index = 0
  /\ starting = FALSE
  /\ took = "pending"
  /\ delivered = <<0, 0>>
  /\ wire = 0
  /\ fails = 0

-------------------------------------------------------------------------------
(* UHS and the completion callback.                                         *)

\* UHS fills the buffer of the oldest outstanding request.
Complete(h) ==
  /\ pending # << >>
  /\ wire < MaxWire
  /\ LET t == [id |-> wire + 1, shape |-> h] IN
       /\ buf' = [buf EXCEPT ![Head(pending)] = t]
       /\ callbacks' = callbacks \cup {[slot |-> Head(pending), got |-> t]}
  /\ pending' = Tail(pending)
  /\ wire' = wire + 1
  /\ UNCHANGED <<state, result, signalling, axVars, parseVars, workVars, event, fails>>

\* ax_rx_async_callback stores the result and then DONE.
CallbackStore(c) ==
  /\ c \in callbacks
  /\ result' = [result EXCEPT ![c.slot] = c.got.shape.status]
  /\ state' = [state EXCEPT ![c.slot] = "DONE"]
  /\ callbacks' = callbacks \ {c}
  /\ signalling' = signalling \cup {c.slot}
  /\ UNCHANGED <<buf, pending, wire, axVars, parseVars, workVars, event, fails>>

\* A callback that leaves the worker asleep.
SignalForgotten(s) ==
  /\ s \in signalling
  /\ signalling' = signalling \ {s}
  /\ UNCHANGED <<slotVars, event, pending, callbacks, wire, axVars, parseVars, workVars,
                 fails>>

\* ... and then signals the event.
CallbackSignal(s) ==
  /\ s \in signalling
  /\ signalling' = signalling \ {s}
  /\ event' = TRUE
  /\ UNCHANGED <<slotVars, pending, callbacks, wire, axVars, parseVars, workVars, fails>>

-------------------------------------------------------------------------------
(* The life of the driver instance.                                         *)

\* ax88179_open, once it succeeds: a zeroed instance and a new UHS client.
Open ==
  /\ phase = "closed"
  /\ phase' = "open"
  /\ medium' = 0
  /\ rx_async_started' = FALSE
  /\ rx_consume' = 0
  /\ rx_frames' = 0
  /\ rx_next' = 0
  /\ UNCHANGED <<slotVars, uhsVars, g_rx, delivered, workVars, event, fails>>

\* A close that leaves the requests outstanding.
CloseWithoutCancel ==
  /\ phase = "open" /\ pc = "idle"
  /\ phase' = "closed"
  /\ rx_async_started' = FALSE
  /\ rx_frames' = 0
  /\ UNCHANGED <<slotVars, uhsVars, medium, rx_consume, g_rx, rx_next, delivered, workVars,
                 event, fails>>

\* ax88179_close cancels the endpoint and closes the client: UHS forgets the
\* outstanding requests and runs no callback after UhsClientClose returned.
Close ==
  /\ phase = "open" /\ pc = "idle"
  /\ phase' = "closed"
  /\ rx_async_started' = FALSE
  /\ pending' = << >>
  /\ callbacks' = {}
  /\ signalling' = {}
  /\ rx_frames' = 0
  /\ UNCHANGED <<slotVars, wire, medium, rx_consume, g_rx, rx_next, delivered, workVars,
                 event, fails>>

\* ax88179_abandon_title makes no UHS call: the requests stay outstanding.
Abandon ==
  /\ phase = "open" /\ pc = "idle"
  /\ phase' = "abandoned"
  /\ rx_async_started' = FALSE
  /\ rx_frames' = 0
  /\ UNCHANGED <<slotVars, uhsVars, medium, rx_consume, g_rx, rx_next, delivered,
                 workVars, event, fails>>

\* IOSU reclaims the client of the process that ended.
Reclaim ==
  /\ phase = "abandoned"
  /\ phase' = "closed"
  /\ pending' = << >>
  /\ callbacks' = {}
  /\ signalling' = {}
  /\ UNCHANGED <<slotVars, wire, medium, rx_async_started, rx_consume, parseVars,
                 workVars, event, fails>>

\* ax88179_link finds no carrier.
LinkDown ==
  /\ phase = "open" /\ pc = "idle"
  /\ medium' = 0
  /\ rx_frames' = 0
  /\ UNCHANGED <<slotVars, uhsVars, phase, rx_async_started, rx_consume, g_rx, rx_next,
                 delivered, workVars, event, fails>>

\* ax88179_link finds the carrier; a new medium also drops the aggregate.
LinkUp(m) ==
  /\ phase = "open" /\ pc = "idle"
  /\ medium' = m
  /\ rx_frames' = IF medium # m THEN 0 ELSE rx_frames
  /\ UNCHANGED <<slotVars, uhsVars, phase, rx_async_started, rx_consume, g_rx, rx_next,
                 delivered, workVars, event, fails>>

-------------------------------------------------------------------------------
(* ax88179_receive, as ax_net_poll calls it.                                *)

Goto(p) == pc' = p /\ UNCHANGED <<call, index, starting, took>>

\* ax_net_poll: the call with the 5 ms timeout.
Poll ==
  /\ phase = "open" /\ pc = "idle"
  /\ medium # 0
  /\ pc' = "receive" /\ call' = "first"
  /\ UNCHANGED <<slotVars, uhsVars, axVars, parseVars, index, starting, took, event,
                 fails>>

\* ... and, after each frame, the one without a timeout: the rest of the
\* aggregate and what has completed meanwhile is harvested before the poll ends.
Harvest == pc' = "receive" /\ call' = "drain"

\* The descriptors receive_buffered_impl has still to look at.
Rest == rx_next + 1 .. rx_frames

\* k is the next descriptor that does not merely skip data.
Stops(k) ==
  /\ k \in Rest
  /\ g_rx.shape.descs[k] # "skip"
  /\ \A j \in rx_next + 1 .. k - 1 : g_rx.shape.descs[j] = "skip"

\* A frame is handed to lwIP and ax_net_poll asks for more.
ReturnFrame(k) ==
  /\ pc \in {"receive", "parse"}
  /\ Stops(k) /\ g_rx.shape.descs[k] = "frame"
  /\ delivered' = <<g_rx.id, k>>
  /\ rx_next' = k
  /\ Harvest
  /\ UNCHANGED <<slotVars, uhsVars, axVars, g_rx, rx_frames, index, starting, took, event,
                 fails>>

\* A descriptor runs over the descriptor table: the aggregate is given up.
ReturnOverrun(k) ==
  /\ pc \in {"receive", "parse"}
  /\ Stops(k) /\ g_rx.shape.descs[k] = "overrun"
  /\ rx_next' = k
  /\ rx_frames' = 0
  /\ Goto("idle")
  /\ UNCHANGED <<slotVars, uhsVars, axVars, g_rx, delivered, event, fails>>

\* Where the call goes on once the buffered aggregate is used up.
AfterBuffered ==
  IF pc = "parse" THEN "idle" ELSE IF rx_async_started THEN "take" ELSE "start"

\* A receive that goes to the ring while frames are still buffered.
ReceiveSkipsBuffered ==
  /\ pc \in {"receive", "parse"}
  /\ Goto(AfterBuffered)
  /\ UNCHANGED <<slotVars, uhsVars, axVars, g_rx, rx_frames, rx_next, delivered, event,
                 fails>>

\* Nothing is left of the aggregate: after a load the call returns 0, at the
\* entry of ax88179_receive it goes on to the ring.
Exhausted ==
  /\ pc \in {"receive", "parse"}
  /\ \A k \in Rest : g_rx.shape.descs[k] = "skip"
  /\ rx_next' = IF rx_next < rx_frames THEN rx_frames ELSE rx_next
  /\ Goto(AfterBuffered)
  /\ UNCHANGED <<slotVars, uhsVars, axVars, g_rx, rx_frames, delivered, event, fails>>

\* ax_rx_start_async, up to its submission loop.
StartRing ==
  /\ pc = "start"
  /\ rx_consume' = 0
  /\ event' = FALSE
  /\ rx_async_started' = TRUE
  /\ result' = [s \in Slots |-> "zero"]
  /\ state' = [s \in Slots |-> "IDLE"]
  /\ pc' = "arm" /\ index' = 0 /\ starting' = TRUE
  /\ UNCHANGED <<buf, uhsVars, phase, medium, parseVars, call, took, fails>>

\* ax_rx_submit_slot marks the slot PENDING before it calls UHS.
ArmSlot ==
  /\ pc = "arm"
  /\ result' = [result EXCEPT ![index] = "zero"]
  /\ state' = [state EXCEPT ![index] = "PENDING"]
  /\ Goto("submit")
  /\ UNCHANGED <<buf, uhsVars, axVars, parseVars, event, fails>>

\* UHS accepts the request; ax_rx_start_async goes on to its next slot.
Submit ==
  /\ pc = "submit"
  /\ pending' = Append(pending, index)
  /\ IF starting /\ index + 1 < RX_ASYNC_SLOTS
       THEN /\ pc' = "arm" /\ index' = index + 1
            /\ UNCHANGED starting
       ELSE /\ pc' = IF starting THEN "take" ELSE "load"
            /\ starting' = FALSE
            /\ UNCHANGED index
  /\ UNCHANGED <<slotVars, callbacks, signalling, wire, axVars, parseVars, call, took,
                 event, fails>>

\* UHS refuses the request.  ax_rx_start_async gives up and ax88179_receive
\* returns -1; ax_rx_take_completed keeps the aggregate and ignores the failure.
SubmitRefused ==
  /\ pc = "submit"
  /\ (IF starting THEN "start" ELSE "rearm") \in FailPoints
  /\ fails < MaxFails
  /\ fails' = fails + 1
  /\ state' = [state EXCEPT ![index] = "IDLE"]
  /\ rx_async_started' = ~starting
  /\ starting' = FALSE
  /\ pc' = IF starting THEN "idle" ELSE "load"
  /\ UNCHANGED <<buf, result, uhsVars, phase, medium, rx_consume, parseVars, call, index,
                 took, event>>

\* A take that returned 0 ends the call, or lets the first take wait.
ReturnNothing(w) ==
  /\ took' = w
  /\ pc' = IF call = "first" THEN "wait" ELSE "idle"

\* ax_rx_take_completed: the next slot is not complete.
TakeNothing ==
  /\ pc = "take"
  /\ state[rx_consume] # "DONE"
  /\ ReturnNothing("pending")
  /\ UNCHANGED <<slotVars, uhsVars, axVars, parseVars, call, index, starting, event,
                 fails>>

\* Slot s is taken and the worker goes on to slot n.  A failed or too short
\* transfer is not copied, its slot is only submitted again.
TakeSlot(s, n) ==
  /\ pc = "take"
  /\ state[s] = "DONE"
  /\ index' = s
  /\ rx_consume' = n
  /\ IF result[s] \in {"error", "zero"}
       THEN /\ state' = [state EXCEPT ![s] = "IDLE"]
            /\ took' = result[s]
            /\ pc' = "arm"
       ELSE /\ took' = "data"
            /\ pc' = "copy"
            /\ UNCHANGED state
  /\ UNCHANGED <<buf, result, uhsVars, phase, medium, rx_async_started, parseVars, call,
                 starting, event, fails>>

\* A take that accepts any completed slot.
TakeAny == \E s \in Slots : TakeSlot(s, (s + 1) % RX_ASYNC_SLOTS)

\* A take that forgets to move on.
TakeNoAdvance == TakeSlot(rx_consume, rx_consume)

\* ax_rx_take_completed: the next slot is complete.
TakeCompleted == TakeSlot(rx_consume, (rx_consume + 1) % RX_ASYNC_SLOTS)

\* The aggregate is copied to g_rx, then its slot is free to be submitted.
CopyAggregate ==
  /\ pc = "copy"
  /\ g_rx' = buf[index]
  /\ state' = [state EXCEPT ![index] = "IDLE"]
  /\ Goto("arm")
  /\ UNCHANGED <<buf, result, uhsVars, axVars, rx_frames, rx_next, delivered, event,
                 fails>>

\* The end of ax_rx_take_completed: a failed transfer returns -1, an empty one
\* 0; otherwise the trailer is read, and it may be out of bounds (-1), announce
\* no frames (0), or announce the frames that are parsed next.
LoadFailed ==
  /\ pc = "load" /\ took = "error"
  /\ Goto("idle")
  /\ UNCHANGED <<slotVars, uhsVars, axVars, parseVars, event, fails>>

LoadZero ==
  /\ pc = "load" /\ took = "zero"
  /\ ReturnNothing("zero")
  /\ UNCHANGED <<slotVars, uhsVars, axVars, parseVars, call, index, starting, event,
                 fails>>

LoadTrailer ==
  /\ pc = "load" /\ took = "data"
  /\ rx_next' = 0
  /\ LET h == g_rx.shape IN
       IF h.status = "bad"
         THEN rx_frames' = 0 /\ Goto("idle")
         ELSE /\ rx_frames' = Len(h.descs)
              /\ IF h.descs = << >>
                   THEN ReturnNothing("empty") /\ UNCHANGED <<call, index, starting>>
                   ELSE Goto("parse")
  /\ UNCHANGED <<slotVars, uhsVars, axVars, g_rx, delivered, event, fails>>

\* OSWaitEventWithTimeout returns at once when the event is set and resets it.
WaitSignalled ==
  /\ pc = "wait"
  /\ event
  /\ event' = FALSE
  /\ pc' = "take" /\ call' = "second"
  /\ UNCHANGED <<slotVars, uhsVars, axVars, parseVars, index, starting, took, fails>>

\* ... and returns after the timeout otherwise.
WaitTimeout ==
  /\ pc = "wait"
  /\ ~event
  /\ pc' = "take" /\ call' = "second"
  /\ UNCHANGED <<slotVars, uhsVars, axVars, parseVars, index, starting, took, event,
                 fails>>

-------------------------------------------------------------------------------
Worker ==
  \/ \E k \in 1 .. rx_frames : ReturnFrame(k) \/ ReturnOverrun(k)
  \/ Exhausted
  \/ StartRing
  \/ ArmSlot
  \/ Submit
  \/ SubmitRefused
  \/ TakeNothing
  \/ TakeCompleted
  \/ CopyAggregate
  \/ LoadFailed
  \/ LoadZero
  \/ LoadTrailer
  \/ WaitSignalled
  \/ WaitTimeout

Uhs ==
  \/ \E h \in Shapes : Complete(h)
  \/ \E c \in callbacks : CallbackStore(c)
  \/ \E s \in signalling : CallbackSignal(s)

Next ==
  \/ Worker
  \/ Uhs
  \/ Poll
  \/ Open
  \/ Close
  \/ Abandon
  \/ Reclaim
  \/ LinkDown
  \/ \E m \in Media : LinkUp(m)

Spec == Init /\ [][Next]_vars

\* The worker keeps polling while the driver is open (run_network's loop), and
\* a completed request gets its callback.  Nothing obliges UHS to complete a
\* request: the wire may stay silent.
Fairness ==
  /\ WF_vars(Poll)
  /\ WF_vars(Worker)
  /\ WF_vars(\E c \in callbacks : CallbackStore(c))
  /\ WF_vars(\E s \in signalling : CallbackSignal(s))

FairSpec == Spec /\ Fairness

-------------------------------------------------------------------------------
(* Properties.                                                              *)

\* The type of the ring, of UHS, of the instance and of the worker.
TypeOK ==
  /\ state \in [Slots -> {"IDLE", "PENDING", "DONE"}]
  /\ buf \in [Slots -> Transfers \cup {NoTransfer}]
  /\ result \in [Slots -> Statuses]
  /\ event \in BOOLEAN
  /\ pending \in Seq(Slots)
  /\ callbacks \subseteq [slot : Slots, got : Transfers]
  /\ signalling \subseteq Slots
  /\ phase \in {"open", "closed", "abandoned"}
  /\ medium \in Media \cup {0}
  /\ rx_async_started \in BOOLEAN
  /\ rx_consume \in Slots
  /\ g_rx \in Transfers \cup {NoTransfer}
  /\ rx_frames \in Nat
  /\ rx_next \in Nat
  /\ pc \in {"idle", "receive", "parse", "start", "arm", "submit", "take", "copy", "load",
             "wait"}
  /\ call \in {"first", "second", "drain"}
  /\ index \in Slots
  /\ starting \in BOOLEAN
  /\ took \in {"pending", "error", "zero", "data", "empty"}
  /\ wire \in 0 .. MaxWire
  /\ fails \in 0 .. MaxFails

\* A buffer belongs to at most one party: UHS while a request for it is
\* outstanding, the callback until it ran, the worker while the slot is DONE.
\* So UHS never writes a buffer that holds an aggregate not yet copied out
\* (ax_rx_take_completed, ax_rx_submit_slot).
Requests(s) == {i \in 1 .. Len(pending) : pending[i] = s}
Completed(s) == {c \in callbacks : c.slot = s}

OneOwnerPerBuffer ==
  \A s \in Slots :
    /\ \A i, j \in Requests(s) : i = j
    /\ \A c, d \in Completed(s) : c = d
    /\ Requests(s) = {} \/ Completed(s) = {}
    /\ rx_async_started /\ state[s] = "DONE" => Requests(s) = {} /\ Completed(s) = {}

\* "There is no lost-wakeup race here" (ax88179_receive): a worker that found
\* its next slot incomplete does not sleep on while that slot is complete.
NoLostWakeup ==
  pc = "wait" /\ took = "pending" /\ state[rx_consume] = "DONE" =>
    event \/ signalling # {}

\* "one wake causes the worker to drain every completed slot currently
\* available" (g_rx_event): the worker never sleeps on a completed slot.
NeverSleepsOnCompleted ==
  pc = "wait" /\ state[rx_consume] = "DONE" => event \/ signalling # {}

\* receive_buffered_impl looks only at descriptors of the aggregate in g_rx,
\* whatever interrupted the previous one (end, overrun, link change, bad trailer).
ParserInBounds ==
  pc \in {"receive", "parse"} => rx_frames <= Len(g_rx.shape.descs)

\* Frames reach lwIP in the order they came over the wire, none of them twice.
InOrder ==
  delivered' # delivered =>
    \/ delivered'[1] > delivered[1]
    \/ delivered'[1] = delivered[1] /\ delivered'[2] > delivered[2]

\* receive_buffered_impl hands every frame of an aggregate to lwIP before
\* ax_rx_take_completed replaces the aggregate, in order and once, and never
\* looks past its descriptors, whatever interrupts the worker in between.
FramesArrive ==
  [][ParserInBounds /\ InOrder /\ (g_rx' # g_rx => rx_next >= rx_frames)]_vars

\* A completed transfer is taken from the ring in the end, unless the driver is
\* closed, the link stays down, or UHS refused to take a slot back.
CompletionConsumed ==
  \A s \in Slots :
    state[s] = "DONE" ~> state[s] # "DONE" \/ ~rx_async_started \/ medium = 0 \/ fails > 0

\* "A later poll may recover the idle slot" (ax_rx_take_completed).
IdleSlotRecovered ==
  \A s \in Slots :
    rx_async_started /\ state[s] = "IDLE"
      ~> state[s] # "IDLE" \/ ~rx_async_started \/ medium = 0

\* "Consume slots strictly in submission order ... so packet ordering is
\* preserved" (ax_rx_take_completed): aggregates leave in wire order.
AggregateOrder ==
  [][g_rx' # g_rx => g_rx'.id > g_rx.id]_vars

-------------------------------------------------------------------------------
(* The ring as a bounded FIFO of transfers.                                 *)

\* The slots that hold a completed transfer nobody has taken yet.
Filled ==
  IF rx_async_started
    THEN {s \in Slots : Completed(s) # {} \/ state[s] = "DONE"}
    ELSE {}

\* Their order is that of the ring, from the slot the worker takes next.
Oldest == IF pc = "copy" THEN index ELSE rx_consume

Distance ==
  [s \in Slots |-> IF s >= Oldest THEN s - Oldest ELSE s + RX_ASYNC_SLOTS - Oldest]

\* The members of S that pos places before s, and the n-th member of S.
Before(S, pos, s) == {t \in S : pos[t] < pos[s]}
Nth(S, pos, n) == CHOOSE s \in S : Cardinality(Before(S, pos, s)) = n - 1

InFlight == [k \in 1 .. Cardinality(Filled) |-> buf[Nth(Filled, Distance, k)]]

\* The aggregate the parser holds: copied and not yet loaded, or not finished.
Parsing ==
  \/ rx_next < rx_frames
  \/ pc \in {"arm", "submit", "load"} /\ ~starting /\ took = "data"

Fifo == INSTANCE FrameFifo WITH
  Items <- Transfers, NoItem <- NoTransfer, Capacity <- RX_ASYNC_SLOTS,
  fifo <- InFlight, current <- IF Parsing THEN g_rx ELSE NoTransfer

\* Transfers go through the ring in wire order, once each and unmodified.
ImplementsFifo == Fifo!FifoSpec

===============================================================================
