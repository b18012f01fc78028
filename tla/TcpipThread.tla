---------------------------- MODULE TcpipThread ----------------------------
(***************************************************************************)
(* lwIP's thread on coreinit: the mailboxes, semaphores and threads of     *)
(* src/net/port/sys_arch.c, under the loop of tcpip_thread, the timers it  *)
(* runs (beat_cb of src/net/ax_net.c among them), the frames the worker    *)
(* gives it, the threads of a title that wait for datagrams, and           *)
(* tcpip_shutdown.                                                         *)
(*                                                                         *)
(* Time passes in ticks that may fall between any two steps.               *)
(***************************************************************************)
EXTENDS Integers, Sequences, FiniteSets

CONSTANTS Callers,          \* threads of the title, each with a socket of its own
          Pbufs,            \* PBUF_POOL
          MboxSize,         \* TCPIP_MBOX_SIZE
          RecvMboxSize,     \* DEFAULT_UDP_RECVMBOX_SIZE
          Period,           \* ticks between two beats
          Timeout,          \* ticks of a timed wait
          Off               \* a timer that is not set

ASSUME TcpipAssumption ==
  /\ MboxSize \in Nat \ {0} /\ RecvMboxSize \in Nat \ {0}
  /\ Period \in Nat \ {0} /\ Timeout \in Nat \ {0}
  /\ "tcpip" \notin Callers /\ "worker" \notin Callers /\ Off \notin Nat

VARIABLES
  pc, box, got,             \* of "tcpip" and of every caller: its mailbox, the message it has
  timeout, waited,          \* of its fetch or wait: 0 is forever
  timers,                   \* timer -> ticks until it is due
  lock,                     \* lock_tcpip_core
  requested,                \* tcpip_shutdown_requested
  stack,                    \* "none", "init": after tcpip_init, "up": after ax_net_start
  heap,                     \* blocks of malloc in use
  pool, wpc, wgot,          \* free pbufs; the worker, and the pbuf it has
  dest,                     \* whose datagram the tcpip thread has queued
  rcvevent, scb, sem        \* of a caller's socket: events, its select's registration, its semaphore

boxVars == <<pc, box, got, timeout, waited>>
selVars == <<dest, rcvevent, scb, sem>>
workVars == <<pool, wpc, wgot>>
vars == <<boxVars, timers, lock, requested, stack, heap, workVars, selVars>>

Owners == Callers \cup {"tcpip"}
Timers == {"cyclic", "beat"}
NoMsg == "none"
NULL == "NULL"
Size(o) == IF o = "tcpip" THEN MboxSize ELSE RecvMboxSize
Sem(c) == <<"sem", c>>

Init ==
  /\ pc = [o \in Owners |-> IF o = "tcpip" THEN "none" ELSE "idle"]
  /\ box = [o \in Owners |-> <<>>] /\ got = [o \in Owners |-> NoMsg]
  /\ timeout = [o \in Owners |-> 0] /\ waited = [o \in Owners |-> 0]
  /\ timers = [cyclic |-> Off, beat |-> Off]
  /\ lock = "free" /\ requested = FALSE /\ stack = "none" /\ heap = {}
  /\ pool = Pbufs /\ wpc = "idle" /\ wgot = NoMsg
  /\ dest = NoMsg
  /\ rcvevent = [c \in Callers |-> 0] /\ scb = [c \in Callers |-> "none"]
  /\ sem = [c \in Callers |-> 0]

At(o, p) == pc[o] = p
Goto(o, p) == pc' = [pc EXCEPT ![o] = p]

-------------------------------------------------------------------------------
(* sys_arch: threads.                                                       *)

Blocks == {<<"thread">>, <<"stack">>, <<"start">>}

(* tcpip_init and sys_thread_new.  lwip_init sets lwIP's own cyclic timers  *)
(* and empties its pools.                                                   *)
ThreadNew ==
  /\ stack = "none"
  /\ stack' = "init"
  /\ heap' = heap \cup Blocks
  /\ timers' = [timers EXCEPT !.cyclic = Period]
  /\ Goto("tcpip", "created")
  /\ UNCHANGED <<box, got, timeout, waited, lock, requested, workVars, selVars>>

(* One of the three blocks, or the thread, cannot be had: the others are    *)
(* given back.  tcpip_init does not look at the result.                     *)
ThreadNewFails ==
  /\ stack = "none"
  /\ stack' = "init"
  /\ \E had \in SUBSET Blocks : heap' = (heap \cup had) \ Blocks
  /\ timers' = [timers EXCEPT !.cyclic = Period]
  /\ UNCHANGED <<boxVars, lock, requested, workVars, selVars>>

(* ax_thread_entry, up to tcpip_thread's first lock.                        *)
ThreadEntry ==
  /\ At("tcpip", "created")
  /\ heap' = heap \ {<<"start">>}
  /\ Goto("tcpip", "enter")
  /\ UNCHANGED <<box, got, timeout, waited, timers, lock, requested, stack, workVars, selVars>>

-------------------------------------------------------------------------------
(* sys_arch: mailboxes.                                                     *)

Room(o) == Len(box[o]) < Size(o)
Post(o, m) == box' = [box EXCEPT ![o] = Append(@, m)]

Timed(o, ticks) == timeout' = [timeout EXCEPT ![o] = ticks] /\ waited' = [waited EXCEPT ![o] = 0]
Expired(o) == waited[o] >= timeout[o]

Take(o, p) ==
  /\ box[o] # <<>>
  /\ got' = [got EXCEPT ![o] = Head(box[o])]
  /\ box' = [box EXCEPT ![o] = Tail(@)]
  /\ Goto(o, p)

(* sys_arch_mbox_fetch: forever with a timeout of 0, else it polls.         *)
FetchEnter(o, ticks) ==
  /\ Timed(o, ticks)
  /\ Goto(o, IF ticks = 0 THEN "block" ELSE "try")

FetchTake(o) ==
  /\ At(o, "block") \/ At(o, "try")
  /\ Take(o, "got") /\ Timed(o, 0)
  /\ UNCHANGED <<timers, lock, requested, stack, heap, workVars, selVars>>

FetchEmpty(o) ==
  /\ At(o, "try") /\ box[o] = <<>>
  /\ Goto(o, "elapsed")
  /\ UNCHANGED <<box, got, timeout, waited, timers, lock, requested, stack, heap, workVars, selVars>>

FetchElapsedAgain(o) ==
  /\ At(o, "elapsed")
  /\ Goto(o, "try") /\ Timed(o, timeout[o])
  /\ UNCHANGED <<box, got, timers, lock, requested, stack, heap, workVars, selVars>>

FetchElapsed(o) ==
  /\ At(o, "elapsed")
  /\ IF Expired(o) THEN Goto(o, "timeout") /\ Timed(o, 0)
                   ELSE Goto(o, "try") /\ UNCHANGED <<timeout, waited>>
  /\ UNCHANGED <<box, got, timers, lock, requested, stack, heap, workVars, selVars>>

-------------------------------------------------------------------------------
(* The tcpip thread.                                                        *)

EnterLoop ==
  /\ At("tcpip", "enter") /\ lock = "free"
  /\ lock' = "tcpip"
  /\ Goto("tcpip", "loop")
  /\ UNCHANGED <<box, got, timeout, waited, timers, requested, stack, heap, workVars, selVars>>

LoopTest ==
  /\ At("tcpip", "loop")
  /\ Goto("tcpip", IF requested THEN "exit" ELSE "sleeptime")
  /\ UNCHANGED <<box, got, timeout, waited, timers, lock, requested, stack, heap, workVars, selVars>>

Due == {n \in Timers : timers[n] = 0}
Armed == {n \in Timers : timers[n] # Off}

(* sys_check_timeouts: a timer's callback sets it again, as beat_cb does.   *)
CheckTimeouts ==
  timers' = [n \in Timers |-> IF n \in Due THEN Period ELSE timers[n]]

(* tcpip_mbox_fetch: a timer is due ...                                     *)
SleepNone ==
  /\ At("tcpip", "sleeptime") /\ Due # {}
  /\ CheckTimeouts
  /\ UNCHANGED <<boxVars, lock, requested, stack, heap, workVars, selVars>>

(* ... or the thread waits for a message until one is.                      *)
SleepTime ==
  /\ At("tcpip", "sleeptime") /\ Due = {}
  /\ lock' = "free"
  /\ \E n \in Armed : /\ \A k \in Armed : timers[n] <= timers[k]
                      /\ FetchEnter("tcpip", timers[n])
  /\ UNCHANGED <<box, got, timers, requested, stack, heap, workVars, selVars>>

FetchTimedOut ==
  /\ At("tcpip", "timeout") /\ lock = "free"
  /\ lock' = "tcpip"
  /\ CheckTimeouts
  /\ Goto("tcpip", "sleeptime")
  /\ UNCHANGED <<box, got, timeout, waited, requested, stack, heap, workVars, selVars>>

(* tcpip_thread looks at the flag before it looks at the message.           *)
Fetched ==
  /\ At("tcpip", "got") /\ lock = "free"
  /\ lock' = "tcpip"
  /\ Goto("tcpip", IF requested THEN "exit" ELSE "handle")
  /\ UNCHANGED <<box, got, timeout, waited, timers, requested, stack, heap, workVars, selVars>>

(* recv_udp: the datagram is queued on the socket of a caller ...           *)
Deliver(c) ==
  /\ At("tcpip", "handle") /\ got["tcpip"] \in Pbufs
  /\ Room(c)
  /\ Post(c, got["tcpip"])
  /\ got' = [got EXCEPT !["tcpip"] = NoMsg]
  /\ dest' = c
  /\ Goto("tcpip", "event")
  /\ UNCHANGED <<timeout, waited, timers, lock, requested, stack, heap, workVars, rcvevent, scb, sem>>

(* ... or is for none of them, or finds the mailbox full.                   *)
Discard ==
  /\ At("tcpip", "handle") /\ got["tcpip"] \in Pbufs
  /\ pool' = pool \cup {got["tcpip"]}
  /\ got' = [got EXCEPT !["tcpip"] = NoMsg]
  /\ Goto("tcpip", "loop")
  /\ UNCHANGED <<box, timeout, waited, timers, lock, requested, stack, heap, wpc, wgot, selVars>>

(* event_callback and select_check_waiters: sys_sem_signal once for a       *)
(* thread that waits in select.                                             *)
Event ==
  /\ At("tcpip", "event")
  /\ rcvevent' = [rcvevent EXCEPT ![dest] = @ + 1]
  /\ IF scb[dest] = "waiting" /\ rcvevent'[dest] > 0
       THEN /\ scb' = [scb EXCEPT ![dest] = "signalled"]
            /\ sem' = [sem EXCEPT ![dest] = @ + 1]
       ELSE UNCHANGED <<scb, sem>>
  /\ dest' = NoMsg
  /\ Goto("tcpip", "loop")
  /\ UNCHANGED <<box, got, timeout, waited, timers, lock, requested, stack, heap, workVars>>

(* The thread ends without the lock.                                        *)
Exit ==
  /\ At("tcpip", "exit")
  /\ lock' = "free"
  /\ Goto("tcpip", "gone")
  /\ UNCHANGED <<box, got, timeout, waited, timers, requested, stack, heap, workVars, selVars>>

-------------------------------------------------------------------------------
(* The worker.                                                              *)

(* setup_netif, under the core lock: the first beat is set.                 *)
SetupNetif ==
  /\ stack = "init" /\ lock = "free" /\ ~requested
  /\ stack' = "up"
  /\ timers' = [timers EXCEPT !.beat = Period]
  /\ UNCHANGED <<boxVars, lock, requested, heap, workVars, selVars>>

(* input_rx_frame: a pbuf for the frame ...                                 *)
InputAlloc ==
  /\ stack = "up" /\ wpc = "idle" /\ ~requested
  /\ \E p \in pool : wgot' = p /\ pool' = pool \ {p}
  /\ wpc' = "input"
  /\ UNCHANGED <<boxVars, timers, lock, requested, stack, heap, selVars>>

(* ... that tcpip_input posts, without waiting ...                          *)
InputPost ==
  /\ wpc = "input" /\ Room("tcpip")
  /\ Post("tcpip", wgot)
  /\ wgot' = NoMsg /\ wpc' = "idle"
  /\ UNCHANGED <<pc, got, timeout, waited, timers, lock, requested, stack, heap, pool, selVars>>

InputFullLeaks ==
  /\ wpc = "input" /\ ~Room("tcpip")
  /\ wgot' = NoMsg /\ wpc' = "idle"
  /\ UNCHANGED <<boxVars, timers, lock, requested, stack, heap, pool, selVars>>

(* ... or gives back when the mailbox is full.                              *)
InputFull ==
  /\ wpc = "input" /\ ~Room("tcpip")
  /\ pool' = pool \cup {wgot}
  /\ wgot' = NoMsg /\ wpc' = "idle"
  /\ UNCHANGED <<boxVars, timers, lock, requested, stack, heap, selVars>>

ShutdownSilent ==
  /\ stack # "none" /\ ~requested /\ wpc = "idle"
  /\ requested' = TRUE
  /\ UNCHANGED <<boxVars, timers, lock, stack, heap, workVars, selVars>>

(* tcpip_shutdown, when the worker polls no more: NULL wakes an idle thread. *)
Shutdown ==
  /\ stack # "none" /\ ~requested /\ wpc = "idle"
  /\ requested' = TRUE
  /\ box' = IF Room("tcpip") THEN [box EXCEPT !["tcpip"] = Append(@, NULL)] ELSE box
  /\ UNCHANGED <<pc, got, timeout, waited, timers, lock, stack, heap, workVars, selVars>>

(* The process ends, with its threads and its heap; the next one calls      *)
(* tcpip_init.                                                              *)
NextTitle ==
  /\ requested
  /\ pc' = [o \in Owners |-> IF o = "tcpip" THEN "none" ELSE "idle"]
  /\ box' = [o \in Owners |-> <<>>] /\ got' = [o \in Owners |-> NoMsg]
  /\ timeout' = [o \in Owners |-> 0] /\ waited' = [o \in Owners |-> 0]
  /\ timers' = [cyclic |-> Off, beat |-> Off]
  /\ lock' = "free" /\ requested' = FALSE /\ stack' = "none" /\ heap' = {}
  /\ pool' = Pbufs /\ wpc' = "idle" /\ wgot' = NoMsg
  /\ dest' = NoMsg /\ rcvevent' = [c \in Callers |-> 0]
  /\ scb' = [c \in Callers |-> "none"] /\ sem' = [c \in Callers |-> 0]

-------------------------------------------------------------------------------
(* A title's threads.                                                       *)

(* A call that works on the stack itself, such as sendto.                   *)
CoreEnter(c) ==
  /\ At(c, "idle") /\ stack = "up" /\ lock = "free"
  /\ lock' = c
  /\ Goto(c, "core")
  /\ UNCHANGED <<box, got, timeout, waited, timers, requested, stack, heap, workVars, selVars>>

CoreLeave(c) ==
  /\ At(c, "core")
  /\ lock' = "free"
  /\ Goto(c, "idle")
  /\ UNCHANGED <<box, got, timeout, waited, timers, requested, stack, heap, workVars, selVars>>

(* recv, with SO_RCVTIMEO or without.                                       *)
Recv(c, ticks) ==
  /\ At(c, "idle") /\ stack = "up"
  /\ FetchEnter(c, ticks)
  /\ UNCHANGED <<box, got, timers, lock, requested, stack, heap, workVars, selVars>>

RecvTimedOut(c) ==
  /\ At(c, "timeout")
  /\ Goto(c, "idle")
  /\ UNCHANGED <<box, got, timeout, waited, timers, lock, requested, stack, heap, workVars, selVars>>

(* The datagram is copied out and its pbuf freed.                           *)
RecvDone(c) ==
  /\ At(c, "got")
  /\ pool' = pool \cup {got[c]}
  /\ got' = [got EXCEPT ![c] = NoMsg]
  /\ rcvevent' = [rcvevent EXCEPT ![c] = @ - 1]
  /\ Goto(c, "idle")
  /\ UNCHANGED <<box, timeout, waited, timers, lock, requested, stack, heap, wpc, wgot, dest, scb, sem>>

(* sys_arch_mbox_tryfetch, of a recv that does not wait.                    *)
TryFetch(c) ==
  /\ At(c, "ready") \/ (At(c, "idle") /\ stack = "up")
  /\ IF box[c] # <<>> THEN Take(c, "got") ELSE Goto(c, "idle") /\ UNCHANGED <<box, got>>
  /\ UNCHANGED <<timeout, waited, timers, lock, requested, stack, heap, workVars, selVars>>

(* select: a socket with an event is ready at once; otherwise sys_sem_new   *)
(* (which may fail: nothing has changed) and lwip_link_select_cb ...        *)
Select(c, ticks) ==
  /\ At(c, "idle") /\ stack = "up"
  /\ IF rcvevent[c] > 0
       THEN Goto(c, "ready") /\ UNCHANGED <<timeout, waited, heap, scb, sem>>
       ELSE /\ lock = "free"
            /\ heap' = heap \cup {Sem(c)}
            /\ sem' = [sem EXCEPT ![c] = 0]
            /\ scb' = [scb EXCEPT ![c] = "waiting"]
            /\ Timed(c, ticks)
            /\ Goto(c, "scan")
  /\ UNCHANGED <<box, got, timers, lock, requested, stack, workVars, dest, rcvevent>>

(* ... a second look, and sys_arch_sem_wait.                                *)
SelectScan(c) ==
  /\ At(c, "scan")
  /\ IF rcvevent[c] > 0 THEN Goto(c, "woken") /\ Timed(c, 0)
       ELSE /\ Goto(c, IF timeout[c] = 0 THEN "sem_block" ELSE "sem_try")
            /\ UNCHANGED <<timeout, waited>>
  /\ UNCHANGED <<box, got, timers, lock, requested, stack, heap, workVars, selVars>>

SemTake(c) ==
  /\ At(c, "sem_block") \/ At(c, "sem_try")
  /\ sem[c] > 0
  /\ sem' = [sem EXCEPT ![c] = @ - 1]
  /\ Goto(c, "woken") /\ Timed(c, 0)
  /\ UNCHANGED <<box, got, timers, lock, requested, stack, heap, workVars, dest, rcvevent, scb>>

SemEmpty(c) ==
  /\ At(c, "sem_try") /\ sem[c] = 0
  /\ Goto(c, "sem_elapsed")
  /\ UNCHANGED <<box, got, timeout, waited, timers, lock, requested, stack, heap, workVars, selVars>>

SemElapsedAgain(c) ==
  /\ At(c, "sem_elapsed")
  /\ Goto(c, "sem_try") /\ Timed(c, timeout[c])
  /\ UNCHANGED <<box, got, timers, lock, requested, stack, heap, workVars, selVars>>

SemElapsed(c) ==
  /\ At(c, "sem_elapsed")
  /\ IF Expired(c) THEN Goto(c, "unready") /\ Timed(c, 0)
                   ELSE Goto(c, "sem_try") /\ UNCHANGED <<timeout, waited>>
  /\ UNCHANGED <<box, got, timers, lock, requested, stack, heap, workVars, selVars>>

(* lwip_unlink_select_cb and sys_sem_free.                                  *)
SelectEnd(c) ==
  /\ pc[c] \in {"woken", "unready"} /\ lock = "free"
  /\ scb' = [scb EXCEPT ![c] = "none"]
  /\ sem' = [sem EXCEPT ![c] = 0]
  /\ heap' = heap \ {Sem(c)}
  /\ Goto(c, IF At(c, "woken") THEN "ready" ELSE "idle")
  /\ UNCHANGED <<box, got, timeout, waited, timers, lock, requested, stack, workVars, dest, rcvevent>>

-------------------------------------------------------------------------------
(* sys_now and OSGetTime.  What the tcpip thread does under the core lock   *)
(* takes less than a tick: sys_thread_new puts it above the title's threads. *)
Waiting(o) == pc[o] \in {"try", "elapsed", "sem_try", "sem_elapsed"}

Tick ==
  /\ lock # "tcpip"
  /\ timers' = [n \in Timers |->
                  IF timers[n] \in {0, Off} THEN timers[n] ELSE timers[n] - 1]
  /\ waited' = [o \in Owners |->
                  IF Waiting(o) /\ waited[o] < timeout[o] THEN waited[o] + 1 ELSE waited[o]]
  /\ <<timers, waited>>' # <<timers, waited>>
  /\ UNCHANGED <<pc, box, got, timeout, lock, requested, stack, heap, workVars, selVars>>

TcpipRuns ==
  \/ ThreadEntry \/ EnterLoop \/ LoopTest \/ SleepNone \/ SleepTime
  \/ FetchTake("tcpip") \/ FetchEmpty("tcpip") \/ FetchElapsed("tcpip")
  \/ FetchTimedOut \/ Fetched \/ (\E c \in Callers : Deliver(c)) \/ Discard \/ Event \/ Exit

CallerRuns(c) ==
  \/ CoreLeave(c)
  \/ FetchTake(c) \/ FetchEmpty(c) \/ FetchElapsed(c) \/ RecvTimedOut(c) \/ RecvDone(c)
  \/ (At(c, "ready") /\ TryFetch(c)) \/ SelectScan(c) \/ SemTake(c) \/ SemEmpty(c) \/ SemElapsed(c)
  \/ SelectEnd(c)

CallerCalls(c) ==
  \/ CoreEnter(c) \/ TryFetch(c)
  \/ \E ticks \in {0, Timeout} : Recv(c, ticks) \/ Select(c, ticks)

Next ==
  \/ ThreadNew \/ ThreadNewFails \/ TcpipRuns
  \/ SetupNetif \/ InputAlloc \/ InputPost \/ InputFull \/ Shutdown \/ NextTitle
  \/ \E c \in Callers : CallerRuns(c) \/ CallerCalls(c)
  \/ Tick

(* Threads run, and get a lock that is free again and again: coreinit hands *)
(* a mutex to the thread that waits for it.                                 *)
Fairness ==
  /\ SF_vars(TcpipRuns) /\ SF_vars(Tick)
  /\ \A c \in Callers : SF_vars(CallerRuns(c))
Spec == Init /\ [][Next]_vars /\ Fairness

-------------------------------------------------------------------------------
(* Properties.                                                              *)

TypeOK ==
  /\ \A o \in Owners : Len(box[o]) <= Size(o) /\ waited[o] <= timeout[o]
  /\ pool \subseteq Pbufs /\ lock \in Owners \cup {"free"}
  /\ \A n \in Timers : timers[n] \in (0 .. Period) \cup {Off}
  /\ \A c \in Callers : scb[c] \in {"none", "waiting", "signalled"} /\ sem[c] \in {0, 1}

(* Every pbuf is free or in one place, whichever mailbox was full and       *)
(* whichever wait ended first; a semaphore and the block a thread starts    *)
(* from are in use exactly while select and the start last.                 *)
InBox(p) == {<<o, i>> \in Owners \X (1 .. MboxSize + RecvMboxSize) : i <= Len(box[o]) /\ box[o][i] = p}
Places(p) ==
  Cardinality(InBox(p)) + Cardinality({o \in Owners : got[o] = p})
    + (IF wgot = p THEN 1 ELSE 0) + (IF p \in pool THEN 1 ELSE 0)
NothingLeaks ==
  /\ \A p \in Pbufs : Places(p) = 1
  /\ (<<"start">> \in heap) <=> At("tcpip", "created")
  /\ At("tcpip", "none") => heap \cap Blocks = {}
  /\ \A c \in Callers : (Sem(c) \in heap) <=> scb[c] # "none"

(* A timer that is due runs, frames and other threads notwithstanding: the  *)
(* comment of beat_cb is about a stack whose timers stop.                   *)
TimersRun ==
  \A n \in Timers :
    (timers[n] = 0 /\ ~At("tcpip", "none")) ~> (timers[n] # 0 \/ requested)

(* A timed wait ends, and so does a wait for a datagram that has come.      *)
Waits(c) == pc[c] \in {"block", "try", "elapsed", "scan", "sem_block", "sem_try", "sem_elapsed"}
WaitEnds ==
  \A c \in Callers :
    (Waits(c) /\ (timeout[c] > 0 \/ (box[c] # <<>> /\ dest # c))) ~> ~Waits(c)

(* tcpip_shutdown ends the thread, idle or busy, started or not, and it     *)
(* does not take the core lock with it.                                     *)
ShutdownStops ==
  (requested /\ ~At("tcpip", "none")) ~> (pc["tcpip"] \in {"gone", "none"} /\ lock # "tcpip")

===============================================================================
