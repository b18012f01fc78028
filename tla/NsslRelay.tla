------------------------------ MODULE NsslRelay ------------------------------
(***************************************************************************)
(* The relay slots of the NSSL bridge, src/aroma_module/nsysnet_shim.c.    *)
(*                                                                         *)
(* NSSLCreateConnection turns an AX-backed socket into one end of a local  *)
(* tunnel: the public descriptor becomes native, and the lwIP socket moves *)
(* to a relay slot whose own thread copies bytes (BytePump) until one side *)
(* ends or somebody sets stop.  Slots are reserved, handed their sockets,  *)
(* stopped, reaped and reused by the title's threads and by the worker     *)
(* that ends a title, with single atomic accesses and no lock.  They are   *)
(* statics: they outlive the title, the relay threads do not.              *)
(*                                                                         *)
(* A socket is named by a serial number: s is at once the public socket,   *)
(* the lwIP socket that backed it, the private end of its tunnel and the   *)
(* NSSL connection made on it.  nsysnet's descriptors are recycled numbers *)
(* of one table, which the title's sockets and the private ends share.     *)
(*                                                                         *)
(* A title uses a descriptor from one thread at a time.  Without "overlap" *)
(* it also makes its NSSL connections one after the other, and calls       *)
(* NSSLFinish and socketclose_all while its other threads are in no call.  *)
(* The worker that ends the title, and the relays, wait for nobody.        *)
(***************************************************************************)
EXTENDS Naturals, FiniteSets

CONSTANTS Threads,         \* of the title
          Fds,             \* nsysnet's descriptors
          NoFd,            \* -1
          NSSL_RELAY_MAX,
          MaxSockets,      \* bound: AX-backed sockets ever made
          Calls            \* what the title and the worker do in this instance

AllCalls == {"destroy", "close", "closeall", "finish", "end", "overlap"}

ASSUME RelayAssumption ==
  /\ NSSL_RELAY_MAX \in Nat \ {0} /\ MaxSockets \in Nat
  /\ Calls \subseteq AllCalls
  /\ NoFd \notin Fds /\ "worker" \notin Threads

Slots == 1 .. NSSL_RELAY_MAX
Serials == 1 .. MaxSockets
Callers == Threads \cup {"worker"}

VARIABLES
  slot,             \* nssl_relays
  thread,           \* where each slot's OSThread is
  nssl_connection_by_fd,
  accepting_sockets, mapped_fd,
  public, private,  \* descriptor -> serial of the title's socket, or of the private end, or 0
  looped,           \* descriptors that are connected to 127.0.0.1
  lwOpen,           \* lwIP sockets that are open
  pc, loc,          \* the calls in progress
  made

sockets == <<public, private, looped, lwOpen, mapped_fd>>
vars == <<slot, thread, nssl_connection_by_fd, accepting_sockets, sockets, pc, loc, made>>

Empty == [allocated |-> FALSE, ready |-> FALSE, stop |-> FALSE, done |-> FALSE,
          public_fd |-> NoFd, native_fd |-> NoFd, lwfd |-> 0]
Nothing == [fd |-> NoFd, lw |-> 0, slot |-> 0, i |-> 1, then |-> "idle", mask |-> {}]
None == [fd \in Fds |-> 0]

Init ==
  /\ slot = [r \in Slots |-> Empty]
  /\ thread = [r \in Slots |-> "none"]
  /\ nssl_connection_by_fd = None /\ accepting_sockets = TRUE /\ mapped_fd = None
  /\ public = None /\ private = None /\ lwOpen = {}
  /\ pc = [c \in Callers |-> "idle"] /\ loc = [c \in Callers |-> Nothing]
  /\ looped = {} /\ made = 0

-------------------------------------------------------------------------------
At(c, p) == pc[c] = p
Goto(c, p) == pc' = [pc EXCEPT ![c] = p]
Return(c) == Goto(c, "idle") /\ loc' = [loc EXCEPT ![c] = Nothing]
\* The bits: a descriptor without its own has no entry either.
open_mask == {fd \in Fds : mapped_fd[fd] # 0}
nssl_public_mask == {fd \in Fds : nssl_connection_by_fd[fd] # 0}
is_foreign(fd) == ~accepting_sockets \/ fd \notin open_mask
Unused(fd) == \A c \in Callers : loc[c].fd # fd
Free(fd) == public[fd] = 0 /\ private[fd] = 0

\* In NSSLCreateConnection; in NSSLFinish or socketclose_all.
Creating(t) == loc[t].then = "reserve"
Whole(t) == loc[t].then \in {"finished", "closeall"}
Apart(P) == "overlap" \in Calls \/ P
Enter(t) == At(t, "idle") /\ Apart(\A u \in Threads : ~Whole(u))
EnterWhole(t) == At(t, "idle") /\ Apart(\A u \in Threads : At(u, "idle"))

\* OSIsThreadTerminated: a thread that died with its process never says so.
Terminated(r) == thread[r] = "terminated"
Running(r) == thread[r] \notin {"none", "terminated", "dead"}

\* The title makes a socket that the shim puts on lwIP, and connects it.
Open(t, fd) ==
  /\ Enter(t) /\ accepting_sockets /\ Free(fd) /\ made < MaxSockets
  /\ made' = made + 1
  /\ public' = [public EXCEPT ![fd] = made']
  /\ lwOpen' = lwOpen \cup {made'}
  /\ mapped_fd' = [mapped_fd EXCEPT ![fd] = made']
  /\ UNCHANGED <<slot, thread, nssl_connection_by_fd, accepting_sockets, private, pc, loc, looped>>

\* socket() of another domain, or when the shim does not accept.
OpenNative(t, fd) ==
  /\ Enter(t) /\ Free(fd) /\ made < MaxSockets
  /\ made' = made + 1
  /\ public' = [public EXCEPT ![fd] = made']
  /\ UNCHANGED <<slot, thread, nssl_connection_by_fd, accepting_sockets, private, lwOpen,
                 mapped_fd, pc, loc, looped>>

-------------------------------------------------------------------------------
(* nssl_relay_reap, a scan of the slots inside reserve and stop_all.         *)

\* The next slot, or what the scan was for.
Advance(c) ==
  IF loc[c].i = NSSL_RELAY_MAX THEN Goto(c, loc[c].then) /\ loc' = [loc EXCEPT ![c].i = 1]
  ELSE Goto(c, "reap") /\ loc' = [loc EXCEPT ![c].i = @ + 1]

\* A reap that frees the slot of a thread that is still running.
ReapLookUndone(c) ==
  LET r == loc[c].i IN
  /\ At(c, "reap")
  /\ IF slot[r].allocated /\ slot[r].done
     THEN slot' = [slot EXCEPT ![r].allocated = FALSE] ELSE UNCHANGED slot
  /\ Advance(c)
  /\ UNCHANGED <<thread, nssl_connection_by_fd, accepting_sockets, sockets, made>>

ReapLook(c) ==
  LET r == loc[c].i IN
  /\ At(c, "reap")
  /\ IF slot[r].allocated /\ slot[r].done /\ Terminated(r)
     THEN Goto(c, "join") /\ UNCHANGED loc
     ELSE Advance(c)
  /\ UNCHANGED <<slot, thread, nssl_connection_by_fd, accepting_sockets, sockets, made>>

\* OSJoinThread waits for whichever thread the slot has by now.
ReapClear(c) ==
  LET r == loc[c].i IN
  /\ At(c, "join") /\ Terminated(r)
  /\ slot' = [slot EXCEPT ![r].public_fd = NoFd, ![r].allocated = FALSE]
  /\ Advance(c)
  /\ UNCHANGED <<thread, nssl_connection_by_fd, accepting_sockets, sockets, made>>

-------------------------------------------------------------------------------
(* NSSLCreateConnection in bridge mode.                                      *)

\* The descriptor is the shim's and its lwIP socket is connected.
Create(t, fd) ==
  /\ Enter(t) /\ Apart(\A u \in Threads : ~Creating(u))
  /\ Unused(fd) /\ ~is_foreign(fd)
  /\ loc' = [loc EXCEPT ![t] = [Nothing EXCEPT !.fd = fd, !.lw = mapped_fd[fd], !.then = "reserve"]]
  /\ Goto(t, "reap")
  /\ UNCHANGED <<slot, thread, nssl_connection_by_fd, accepting_sockets, sockets, made>>

\* nssl_relay_reserve: the first slot whose compare-exchange succeeds.
ReserveTake(t, r) ==
  /\ At(t, "reserve")
  /\ ~slot[r].allocated /\ \A q \in 1 .. r - 1 : slot[q].allocated
  /\ slot' = [slot EXCEPT ![r].allocated = TRUE]
  /\ loc' = [loc EXCEPT ![t].slot = r]
  /\ Goto(t, "create")
  /\ UNCHANGED <<thread, nssl_connection_by_fd, accepting_sockets, sockets, made>>

\* Every slot is taken: bridge_ax_socket_to_nssl returns -3.
ReserveFull(t) ==
  /\ At(t, "reserve") /\ \A r \in Slots : slot[r].allocated
  /\ Return(t)
  /\ UNCHANGED <<slot, thread, nssl_connection_by_fd, accepting_sockets, sockets, made>>

\* A reserve that keeps the flags of the slot's last relay.
ReserveKeepsFlags(t) ==
  LET r == loc[t].slot IN
  /\ At(t, "create")
  /\ slot' = [slot EXCEPT ![r] = [Empty EXCEPT !.allocated = slot[r].allocated, !.stop = slot[r].stop]]
  /\ thread' = [thread EXCEPT ![r] = "wait"]
  /\ Goto(t, "tunnel")
  /\ UNCHANGED <<loc, nssl_connection_by_fd, accepting_sockets, sockets, made>>

\* The slot is reset and its thread made, or given back.
ReserveThread(t) ==
  LET r == loc[t].slot IN
  /\ At(t, "create")
  /\ \/ /\ slot' = [slot EXCEPT ![r] = [Empty EXCEPT !.allocated = slot[r].allocated]]
        /\ thread' = [thread EXCEPT ![r] = "wait"]
        /\ Goto(t, "tunnel")
        /\ UNCHANGED loc
     \/ /\ slot' = [slot EXCEPT ![r] = Empty]
        /\ Return(t)
        /\ UNCHANGED thread
  /\ UNCHANGED <<nssl_connection_by_fd, accepting_sockets, sockets, made>>

\* nssl_relay_stop_slot.
StopSlot(r) ==
  slot' = IF slot[r].allocated THEN [slot EXCEPT ![r].stop = TRUE] ELSE slot

\* Listener, bind, listen, getsockname, connect or accept fails.
TunnelFails(t) ==
  /\ At(t, "tunnel")
  /\ StopSlot(loc[t].slot)
  /\ Return(t)
  /\ UNCHANGED <<thread, nssl_connection_by_fd, accepting_sockets, sockets, made>>

\* The tunnel stands, and the slot is given its three descriptors ...
GiveSockets(t, p) ==
  LET s == public[loc[t].fd] IN
  /\ At(t, "tunnel") /\ s # 0 /\ Free(p)
  /\ private' = [private EXCEPT ![p] = s] /\ looped' = looped \cup {loc[t].fd, p}
  /\ slot' = [slot EXCEPT ![loc[t].slot].native_fd = p, ![loc[t].slot].lwfd = loc[t].lw,
                          ![loc[t].slot].public_fd = loc[t].fd]
  /\ Goto(t, "given")
  /\ UNCHANGED <<thread, nssl_connection_by_fd, accepting_sockets, public, lwOpen, mapped_fd,
                 loc, made>>

\* ... the public descriptor is native from here on, and the relay may start.
MakeReady(t) ==
  /\ At(t, "given")
  /\ mapped_fd' = [mapped_fd EXCEPT ![loc[t].fd] = 0]
  /\ slot' = [slot EXCEPT ![loc[t].slot].ready = TRUE]
  /\ Goto(t, "connect")
  /\ UNCHANGED <<thread, nssl_connection_by_fd, accepting_sockets, public, private, lwOpen, loc, looped, made>>

\* real_NSSLCreateConnection refuses: the relay is told to stop.
NsslRefuses(t) ==
  /\ At(t, "connect")
  /\ StopSlot(loc[t].slot)
  /\ Return(t)
  /\ UNCHANGED <<thread, nssl_connection_by_fd, accepting_sockets, sockets, made>>

\* It succeeds: nssl_track_public_connection.
NsslConnects(t) ==
  LET fd == loc[t].fd IN
  /\ At(t, "connect")
  /\ nssl_connection_by_fd' = [nssl_connection_by_fd EXCEPT ![fd] = public[fd]]
  /\ Return(t)
  /\ UNCHANGED <<slot, thread, accepting_sockets, sockets, made>>

-------------------------------------------------------------------------------
(* The ways a relay is told to stop.                                         *)

\* nssl_relay_detach_public_fd: the first allocated slot that has the number.
DetachedSlot(fd) == {r \in Slots : /\ slot[r].allocated /\ slot[r].public_fd = fd
                                   /\ \A q \in 1 .. r - 1 :
                                        ~(slot[q].allocated /\ slot[q].public_fd = fd)}


Detach(fd) ==
  slot' = [r \in Slots |-> IF r \in DetachedSlot(fd)
                           THEN [slot[r] EXCEPT !.public_fd = NoFd, !.stop = TRUE]
                           ELSE slot[r]]

\* nssl_untrack_public_fd.
Untrack(fd) == nssl_connection_by_fd' = [nssl_connection_by_fd EXCEPT ![fd] = 0]

\* NSSLDestroyConnection, after Nintendo's own: the descriptor of the connection.
Destroy(t, fd) ==
  /\ Enter(t) /\ "destroy" \in Calls /\ Unused(fd)
  /\ public[fd] # 0 /\ nssl_connection_by_fd[fd] = public[fd]
  /\ Detach(fd)
  /\ Untrack(fd)
  /\ UNCHANGED <<thread, accepting_sockets, sockets, pc, loc, made>>

\* nsysnet closes whatever has the number.
NativeClose(fd) ==
  /\ public' = [public EXCEPT ![fd] = 0] /\ private' = [private EXCEPT ![fd] = 0]
  /\ looped' = looped \ {fd}

\* socketclose of a descriptor the shim no longer has forgets it first ...
CloseForeign(t, fd) ==
  /\ Enter(t) /\ "close" \in Calls /\ Unused(fd) /\ public[fd] # 0 /\ is_foreign(fd)
  /\ Untrack(fd)
  /\ Detach(fd)
  /\ loc' = [loc EXCEPT ![t].fd = fd]
  /\ Goto(t, "release")
  /\ UNCHANGED <<thread, accepting_sockets, sockets, made>>

\* ... and then nsysnet closes it.
Release(t) ==
  /\ At(t, "release")
  /\ NativeClose(loc[t].fd)
  /\ Return(t)
  /\ UNCHANGED <<slot, thread, nssl_connection_by_fd, accepting_sockets, lwOpen, mapped_fd, made>>

\* socketclose of one that is still on lwIP.
CloseStack(t, fd) ==
  /\ Enter(t) /\ "close" \in Calls /\ Unused(fd) /\ ~is_foreign(fd)
  /\ lwOpen' = lwOpen \ {mapped_fd[fd]}
  /\ mapped_fd' = [mapped_fd EXCEPT ![fd] = 0]
  /\ NativeClose(fd)
  /\ UNCHANGED <<slot, thread, nssl_connection_by_fd, accepting_sockets, pc, loc, made>>

\* socketclose_all forgets the connections, but leaves their slots alone ...
CloseAll(t) ==
  /\ EnterWhole(t) /\ "closeall" \in Calls
  /\ nssl_connection_by_fd' = None
  /\ loc' = [loc EXCEPT ![t].then = "closeall"]
  /\ Goto(t, "closeall")
  /\ UNCHANGED <<slot, thread, accepting_sockets, sockets, made>>

\* ... closes what the shim still has on lwIP ...
CloseAllStack(t) ==
  /\ At(t, "closeall")
  /\ IF accepting_sockets
     THEN mapped_fd' = None /\ lwOpen' = lwOpen \ {mapped_fd[fd] : fd \in Fds}
     ELSE UNCHANGED <<mapped_fd, lwOpen>>
  /\ Goto(t, "closenative")
  /\ UNCHANGED <<slot, thread, nssl_connection_by_fd, accepting_sockets, public, private, loc,
                 looped, made>>

\* ... and every descriptor of nsysnet, the private ends included.
CloseAllNative(t) ==
  /\ At(t, "closenative")
  /\ public' = None /\ private' = None /\ looped' = {}
  /\ Return(t)
  /\ UNCHANGED <<slot, thread, nssl_connection_by_fd, accepting_sockets, lwOpen, mapped_fd, made>>

\* nssl_relay_stop_all: every allocated slot, then a reap, after at most 500 ms.
StopEvery == [r \in Slots |-> [slot[r] EXCEPT !.stop = @ \/ slot[r].allocated]]

StopAll(c, then) ==
  LET any == \E r \in Slots : slot[r].allocated IN
  /\ slot' = StopEvery
  /\ Goto(c, IF any THEN "reap" ELSE then)
  /\ loc' = [loc EXCEPT ![c].then = then]

\* NSSLFinish.
Finish(t) ==
  /\ EnterWhole(t) /\ "finish" \in Calls
  /\ StopAll(t, "finished")
  /\ UNCHANGED <<thread, nssl_connection_by_fd, accepting_sockets, sockets, made>>

Finished(t) ==
  /\ At(t, "finished")
  /\ nssl_connection_by_fd' = None
  /\ Return(t)
  /\ UNCHANGED <<slot, thread, accepting_sockets, sockets, made>>

-------------------------------------------------------------------------------
(* The end of a title: the worker runs nsysnet_shim_stop_accepting, wherever *)
(* the title's threads are, and the process dies after it.  APPLICATION_STARTS *)
(* runs it again, in nsysnet_shim_begin_title, before the next title does.   *)

EndTitle ==
  /\ At("worker", "idle") /\ "end" \in Calls
  /\ accepting_sockets' = FALSE
  /\ Goto("worker", "wake")
  /\ loc' = [loc EXCEPT !["worker"] = [Nothing EXCEPT !.then = "stopped", !.mask = nssl_public_mask]]
  /\ UNCHANGED <<slot, thread, nssl_connection_by_fd, sockets, made>>

\* nssl_shutdown_all_tracked: is this descriptor still connected to localhost?
WakeLook(fd) ==
  /\ At("worker", "wake") /\ loc["worker"].fd = NoFd /\ fd \in loc["worker"].mask
  /\ IF fd \in looped
     THEN loc' = [loc EXCEPT !["worker"].fd = fd] /\ UNCHANGED nssl_connection_by_fd
     ELSE loc' = [loc EXCEPT !["worker"].mask = @ \ {fd}] /\ Untrack(fd)
  /\ UNCHANGED <<slot, thread, accepting_sockets, sockets, pc, made>>

WakeShut ==
  LET fd == loc["worker"].fd IN
  /\ At("worker", "wake") /\ fd # NoFd
  /\ loc' = [loc EXCEPT !["worker"].fd = NoFd, !["worker"].mask = @ \ {fd}]
  /\ UNCHANGED <<slot, thread, nssl_connection_by_fd, accepting_sockets, sockets, pc, made>>

WakeEnd ==
  /\ At("worker", "wake") /\ loc["worker"].fd = NoFd /\ loc["worker"].mask = {}
  /\ StopAll("worker", loc["worker"].then)
  /\ UNCHANGED <<thread, nssl_connection_by_fd, accepting_sockets, sockets, made>>

\* The process dies: its sockets and threads are gone, the slots and the tracking
\* stay, less what only the dead thread would read.  The hook waits for the worker,
\* but for two seconds at most.  The next process stops, waits and reaps before it
\* resets the rest.
ProcessEnds ==
  /\ loc["worker"].then = "stopped"
  /\ thread' = [r \in Slots |-> IF Running(r) THEN "dead" ELSE thread[r]]
  /\ slot' = [r \in Slots |-> IF ~Running(r) THEN slot[r]
                              ELSE [Empty EXCEPT !.allocated = slot[r].allocated,
                                                 !.public_fd = slot[r].public_fd]]
  /\ public' = None /\ private' = None /\ looped' = {} /\ lwOpen' = {}
  /\ pc' = [c \in Callers |-> IF c = "worker" THEN "wake" ELSE "dead"]
  /\ loc' = [c \in Callers |-> IF c = "worker"
                               THEN [Nothing EXCEPT !.then = "begin", !.mask = nssl_public_mask]
                               ELSE Nothing]
  /\ UNCHANGED <<nssl_connection_by_fd, accepting_sockets, mapped_fd, made>>

BeginTitle ==
  /\ At("worker", "begin")
  /\ mapped_fd' = None
  /\ nssl_connection_by_fd' = None
  /\ pc' = [c \in Callers |-> IF c = "worker" THEN "booting" ELSE "idle"]
  /\ loc' = [loc EXCEPT !["worker"] = Nothing]
  /\ UNCHANGED <<slot, thread, accepting_sockets, public, private, lwOpen, looped, made>>

\* The new worker has the adapter up: nsysnet_shim_install.
Install ==
  /\ At("worker", "booting")
  /\ accepting_sockets' = TRUE
  /\ Goto("worker", "idle")
  /\ UNCHANGED <<slot, thread, nssl_connection_by_fd, sockets, loc, made>>

-------------------------------------------------------------------------------
(* nssl_relay_worker.                                                        *)

Run(r, from, to) == thread[r] = from /\ thread' = [thread EXCEPT ![r] = to]

\* It waits until it is given its sockets or told to stop.
RelayStarts(r) ==
  /\ Run(r, "wait", IF slot[r].stop THEN "out" ELSE "pump")
  /\ slot[r].stop \/ slot[r].ready
  /\ UNCHANGED <<slot, nssl_connection_by_fd, accepting_sockets, sockets, pc, loc, made>>

\* The copying ends: on stop, or because a side did.
RelayStops(r) ==
  /\ Run(r, "pump", "out") /\ slot[r].stop
  /\ UNCHANGED <<slot, nssl_connection_by_fd, accepting_sockets, sockets, pc, loc, made>>

RelayFinishes(r) ==
  /\ Run(r, "pump", "out") /\ ~slot[r].stop
  /\ UNCHANGED <<slot, nssl_connection_by_fd, accepting_sockets, sockets, pc, loc, made>>

\* real_recv of a descriptor that socketclose_all has closed.
RelayFails(r) == RelayFinishes(r) /\ Free(slot[r].native_fd)

\* The relay closes its two sockets.
RelayCloses(r) ==
  /\ Run(r, "out", "closed")
  /\ IF slot[r].native_fd # NoFd THEN NativeClose(slot[r].native_fd)
     ELSE UNCHANGED <<public, private, looped>>
  /\ lwOpen' = lwOpen \ {slot[r].lwfd}
  /\ slot' = [slot EXCEPT ![r].native_fd = NoFd, ![r].lwfd = 0]
  /\ UNCHANGED <<nssl_connection_by_fd, accepting_sockets, mapped_fd, pc, loc, made>>

\* "keeping this descriptor number is unsafe".
RelayDone(r) ==
  /\ Run(r, "closed", "exit")
  /\ slot' = [slot EXCEPT ![r].public_fd = NoFd, ![r].done = TRUE]
  /\ UNCHANGED <<nssl_connection_by_fd, accepting_sockets, sockets, pc, loc, made>>

RelayExits(r) ==
  /\ Run(r, "exit", "terminated")
  /\ UNCHANGED <<slot, nssl_connection_by_fd, accepting_sockets, sockets, pc, loc, made>>

Relay(r) ==
  \/ RelayStarts(r) \/ RelayStops(r) \/ RelayFinishes(r)
  \/ RelayCloses(r) \/ RelayDone(r) \/ RelayExits(r)

-------------------------------------------------------------------------------
Reap(c) == ReapLook(c) \/ ReapClear(c)

CreateConnection(t) ==
  \/ \E r \in Slots : ReserveTake(t, r)
  \/ ReserveFull(t) \/ ReserveThread(t)
  \/ TunnelFails(t) \/ (\E p \in Fds : GiveSockets(t, p)) \/ MakeReady(t)
  \/ NsslRefuses(t) \/ NsslConnects(t)

Title(t) ==
  \/ \E fd \in Fds : \/ Open(t, fd) \/ OpenNative(t, fd) \/ Create(t, fd)
                     \/ Destroy(t, fd) \/ CloseForeign(t, fd) \/ CloseStack(t, fd)
  \/ CreateConnection(t)
  \/ Release(t) \/ Finish(t) \/ Finished(t)
  \/ CloseAll(t) \/ CloseAllStack(t) \/ CloseAllNative(t)

Worker ==
  \/ \E fd \in Fds : WakeLook(fd)
  \/ WakeShut \/ WakeEnd \/ ProcessEnds \/ BeginTitle \/ Install

Next ==
  \/ \E t \in Threads : Title(t)
  \/ \E c \in Callers : Reap(c)
  \/ EndTitle \/ Worker
  \/ \E r \in Slots : Relay(r)

\* A relay thread keeps running: its socket calls do not block and it looks at
\* stop in every iteration.  How long a connection lasts is not its doing.  Nor
\* is there anything the calls below and the end of a title wait for without a
\* time limit.
Fairness ==
  /\ \A r \in Slots :
       WF_vars(RelayStarts(r) \/ RelayStops(r) \/ RelayFails(r) \/ RelayCloses(r)
                 \/ RelayDone(r) \/ RelayExits(r))
  /\ \A t \in Threads : WF_vars(CreateConnection(t))
  /\ \A c \in Callers : WF_vars(Reap(c))
  /\ WF_vars(Worker)

Spec == Init /\ [][Next]_vars /\ Fairness

-------------------------------------------------------------------------------
(* Properties.                                                               *)

\* The lwIP sockets that a slot's thread will close when it ends.
InSlot(r) == IF Running(r) THEN {slot[r].lwfd} ELSE {}

\* "Ownership moves from open_mask/mapped_fd to the relay slot": no lwIP socket is
\* lost on the way.  While the title runs, each one is tracked by the shim, being
\* handed over, or in a slot whose thread is going to close it.
HandedIsOwned ==
  accepting_sockets =>
    \A s \in lwOpen :
      \/ \E fd \in open_mask : mapped_fd[fd] = s
      \/ \E r \in Slots : s \in InSlot(r)

\* "nsysnet may recycle the number": the descriptor that a relay is going to close
\* is its private end, never a later socket with the same number.
NativeFdIsOwn ==
  \A r \in Slots :
    LET p == slot[r].native_fd IN
    Running(r) /\ p # NoFd => public[p] = 0 /\ private[p] \in {slot[r].lwfd, 0}

\* Nor does a relay's public descriptor stand in the slot of another.
PublicFdsDiffer ==
  \A q, r \in Slots :
    q # r /\ slot[q].allocated /\ slot[r].allocated /\ slot[q].public_fd # NoFd
      => slot[q].public_fd # slot[r].public_fd

\* As long as no relay closes a number that was recycled under it, no lwIP socket is
\* lost: not between open_mask and the slot, not when slots are stopped, reaped and
\* reused, and not by a title that ends at any point of a hand-over.
NoneLost == []NativeFdIsOwn => []HandedIsOwned

\* A slot serves one relay at a time: while its thread runs for the title it stays
\* allocated, and the lwIP sockets in two slots differ.
SlotServesOne ==
  /\ accepting_sockets => \A r \in Slots : Running(r) => slot[r].allocated
  /\ \A q, r \in Slots : q # r /\ slot[q].lwfd # 0 => slot[q].lwfd # slot[r].lwfd

\* "If the fd has already disappeared/recycled, never touch whatever now owns that
\* number": the end of a title shuts down sockets of the bridge only.
WakesOnlyOwn ==
  [][WakeShut => loc["worker"].fd \in looped \/ Free(loc["worker"].fd)]_vars


-------------------------------------------------------------------------------
(* Bounds.                                                                   *)

\* nsysnet's choice of a number and the name of a thread that calls while all are
\* idle are fixed; and a title ends before it has made the last of the sockets, so
\* that the next title has one.
Small ==
  /\ \A fd \in Fds : Free(fd) /\ ~Free(fd)' => fd = CHOOSE g \in Fds : Free(g)
  /\ (\A t \in Threads : At(t, "idle"))
       => \A t \in Threads : t = (CHOOSE u \in Threads : TRUE) \/ pc'[t] \in {"idle", "dead"}
  /\ accepting_sockets /\ ~accepting_sockets' => made < MaxSockets

===============================================================================
