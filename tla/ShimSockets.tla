----------------------------- MODULE ShimSockets -----------------------------
(***************************************************************************)
(* Who owns which descriptor: the socket calls of                          *)
(* src/aroma_module/nsysnet_shim.c.                                        *)
(*                                                                         *)
(* A title's public descriptor is always a native nsysnet descriptor.  For *)
(* a socket routed to the adapter that descriptor is a placeholder, and    *)
(* open_mask and mapped_fd lead from it to the lwIP descriptor behind it.  *)
(* Both number spaces are recycled by their own allocators, and the shim   *)
(* holds no lock: every call is a sequence of atomic accesses that other   *)
(* threads, the worker and the NSSL relays interleave with.                *)
(*                                                                         *)
(* A socket is identified by a serial number that the program never sees.  *)
(* A title's threads call the shim only on sockets that they hold, so that *)
(* a property that fails is not the title's own misuse.                    *)
(***************************************************************************)
EXTENDS Naturals, FiniteSets, TLC

CONSTANTS Threads,    \* of the title
          Fds,        \* nsysnet descriptors
          LwFds,      \* lwIP descriptors
          NoFd,       \* -1
          CallSets,   \* what a title and its worker may do: one of these sets
          MaxSockets  \* bound: sockets ever made

AllCalls == {"use", "setopt", "accept", "select", "close", "bind", "bridge", "promote",
             "closeall", "drain", "ftp", "probe", "title",
             "alone"}                      \* not a call: one thread makes them all

ASSUME ShimAssumption ==
  /\ CallSets \subseteq SUBSET AllCalls
  /\ MaxSockets \in Nat
  /\ NoFd \notin LwFds \cup Fds
  /\ Threads # {} /\ "none" \notin Threads /\ Fds # {}

Serials == 1 .. MaxSockets

\* Threads and descriptors are interchangeable: the program only compares them.
Interchangeable == Permutations(Threads) \cup Permutations(Fds) \cup Permutations(LwFds)

VARIABLES
  calls,              \* of CallSets
  (* nsysnet and lwIP *)
  native,             \* public descriptor -> serial of its native socket, or 0
  lw,                 \* lwIP descriptor -> serial of the socket it backs, or 0
  (* statics of the shim *)
  accepting_sockets, open_mask, mapped_fd,
  compat_sock,        \* 0, or the serial of the socket whose options it keeps
  ftp_restart_mask,
  probe_thread, probe_owns_accepting, probe_baseline_open_mask,
  (* the relays of the NSSL bridge *)
  relays,             \* set of <<lwIP descriptor, serial>>
  (* the title's threads *)
  pc, call,
  holds,              \* thread -> set of <<public descriptor, serial>>
  (* the worker *)
  wpc, scan, drained,
  (* history *)
  made,               \* sockets made so far
  axMade,             \* serials made by the shim on lwIP
  listeners           \* serials of native listeners on the FTP port

tables == <<open_mask, mapped_fd, compat_sock>>
probeVars == <<probe_thread, probe_owns_accepting, probe_baseline_open_mask>>
workVars == <<wpc, scan, drained>>
madeVars == <<calls, made, axMade, listeners>>
vars == <<native, lw, accepting_sockets, tables, ftp_restart_mask, probeVars, relays, pc,
          call, holds, workVars, madeVars>>

NoCall == [op |-> "none", fd |-> NoFd, s |-> 0, lwfd |-> NoFd, accepted |-> FALSE,
           mask |-> {}]

Init ==
  /\ calls \in CallSets
  /\ native = [f \in Fds |-> 0] /\ lw = [l \in LwFds |-> 0]
  /\ accepting_sockets = FALSE
  /\ open_mask = {} /\ mapped_fd = [f \in Fds |-> NoFd] /\ compat_sock = [f \in Fds |-> 0]
  /\ ftp_restart_mask = {}
  /\ probe_thread = "none" /\ probe_owns_accepting = FALSE
  /\ probe_baseline_open_mask = {}
  /\ relays = {}
  /\ pc = [t \in Threads |-> "idle"] /\ call = [t \in Threads |-> NoCall]
  /\ holds = [t \in Threads |-> {}]
  /\ wpc = "up" /\ scan = NoFd /\ drained = {}
  /\ made = 0 /\ axMade = {} /\ listeners = {}

-------------------------------------------------------------------------------
is_foreign(fd) == ~accepting_sockets \/ fd \notin open_mask

At(t, p) == pc[t] = p
Goto(t, p) == pc' = [pc EXCEPT ![t] = p]
Able(t) ==
  "alone" \in calls =>
    \A u \in Threads \ {t} : pc[u] = "idle" /\ holds[u] = {} /\ probe_thread # u
Return(t) == Goto(t, "idle") /\ call' = [call EXCEPT ![t] = NoCall]

\* lwip_close: fails on a descriptor that is not open.
LwOpen(l) == l \in LwFds /\ lw[l] # 0
lwip_close(l) == lw' = [lw EXCEPT ![l] = 0]

-------------------------------------------------------------------------------
(* socket() and accept().                                                   *)

\* socket() goes to nsysnet: another domain, no stack, or not accepting.
SocketNative(t, fd, ftp) ==
  /\ At(t, "idle") /\ Able(t) /\ made < MaxSockets
  /\ native[fd] = 0
  /\ ftp => "ftp" \in calls
  /\ made' = made + 1
  /\ native' = [native EXCEPT ![fd] = made']
  /\ listeners' = IF ftp THEN listeners \cup {made'} ELSE listeners
  /\ holds' = [holds EXCEPT ![t] = @ \cup {<<fd, made'>>}]
  /\ UNCHANGED <<lw, accepting_sockets, tables, ftp_restart_mask, probeVars, relays, pc,
                 call, workVars, calls, axMade>>

\* A new socket of lwIP in thread t's hands.
LwNew(t, op, l) ==
  /\ lw[l] = 0 /\ made < MaxSockets
  /\ made' = made + 1
  /\ axMade' = axMade \cup {made'}
  /\ lw' = [lw EXCEPT ![l] = made']
  /\ Goto(t, "placeholder")
  /\ call' = [call EXCEPT ![t] = [NoCall EXCEPT !.op = op, !.s = made', !.lwfd = l]]
  /\ UNCHANGED <<native, accepting_sockets, tables, ftp_restart_mask, probeVars, relays,
                 holds, workVars, calls, listeners>>

SocketAx(t, l) ==
  /\ At(t, "idle") /\ Able(t) /\ accepting_sockets
  /\ LwNew(t, "socket", l)

\* The native placeholder; without one the lwIP socket is closed again.
Placeholder(t, fd) ==
  /\ At(t, "placeholder")
  /\ native[fd] = 0
  /\ native' = [native EXCEPT ![fd] = call[t].s]
  /\ call' = [call EXCEPT ![t].fd = fd]
  /\ Goto(t, "track")
  /\ UNCHANGED <<lw, accepting_sockets, tables, ftp_restart_mask, probeVars, relays, holds,
                 workVars, madeVars>>

NoPlaceholder(t) ==
  /\ At(t, "placeholder")
  /\ lwip_close(call[t].lwfd)
  /\ Return(t)
  /\ UNCHANGED <<native, accepting_sockets, tables, ftp_restart_mask, probeVars, relays,
                 holds, workVars, madeVars>>

\* track_fd, and the call returns the public descriptor.
Track(t) ==
  /\ At(t, "track")
  /\ compat_sock' = [compat_sock EXCEPT ![call[t].fd] = 0]
  /\ mapped_fd' = [mapped_fd EXCEPT ![call[t].fd] = call[t].lwfd]
  /\ open_mask' = open_mask \cup {call[t].fd}
  /\ holds' = [holds EXCEPT ![t] = @ \cup {<<call[t].fd, call[t].s>>}]
  /\ Return(t)
  /\ UNCHANGED <<native, lw, accepting_sockets, ftp_restart_mask, probeVars, relays,
                 workVars, madeVars>>

-------------------------------------------------------------------------------
(* A call on a descriptor: which stack serves it is decided first.           *)

Decide(t, fd, s, op, foreign) ==
  /\ At(t, "idle") /\ <<fd, s>> \in holds[t]
  /\ op \in calls
  /\ call' = [call EXCEPT ![t] = [NoCall EXCEPT !.op = op, !.fd = fd, !.s = s,
                                                !.accepted = accepting_sockets]]
  /\ Goto(t, IF foreign THEN "foreign" ELSE "stack")
  /\ UNCHANGED <<native, lw, accepting_sockets, tables, ftp_restart_mask, probeVars, relays,
                 holds, workVars, madeVars>>

Enter(t, fd, s, op) ==
  /\ op \in {"use", "setopt", "accept", "close", "bind", "bridge", "promote"}
  /\ Decide(t, fd, s, op, is_foreign(fd))

\* select() asks open_mask alone, after the one-shot failure of a marked fd.
Select(t, fd, s) ==
  /\ fd \notin ftp_restart_mask
  /\ Decide(t, fd, s, "select", fd \notin open_mask)

SelectMarked(t, fd, s) ==
  /\ At(t, "idle") /\ <<fd, s>> \in holds[t]
  /\ "select" \in calls
  /\ fd \in ftp_restart_mask
  /\ ftp_restart_mask' = ftp_restart_mask \ {fd}
  /\ UNCHANGED <<native, lw, accepting_sockets, tables, probeVars, relays, pc, call, holds,
                 workVars, madeVars>>

\* Every call but close passes a foreign descriptor straight to nsysnet.
UseNative(t) ==
  /\ At(t, "foreign") /\ call[t].op # "close"
  /\ Return(t)
  /\ UNCHANGED <<native, lw, accepting_sockets, tables, ftp_restart_mask, probeVars, relays,
                 holds, workVars, madeVars>>

\* send*, recv*, connect, listen, shutdown, getsockname, getpeername, select.
UseStack(t) ==
  /\ At(t, "stack") /\ call[t].op \in {"use", "select"}
  /\ Return(t)
  /\ UNCHANGED <<native, lw, accepting_sockets, tables, ftp_restart_mask, probeVars, relays,
                 holds, workVars, madeVars>>

\* setsockopt, for an option the shim itself remembers.
SetOption(t) ==
  /\ At(t, "stack") /\ call[t].op = "setopt"
  /\ compat_sock' = [compat_sock EXCEPT ![call[t].fd] = call[t].s]
  /\ Return(t)
  /\ UNCHANGED <<native, lw, accepting_sockets, open_mask, mapped_fd, ftp_restart_mask,
                 probeVars, relays, holds, workVars, madeVars>>

\* lwip_accept returns a connection.
AcceptStack(t, l) ==
  /\ At(t, "stack") /\ call[t].op = "accept"
  /\ LwNew(t, "accept", l)

\* lwip_accept fails, or the bridge finds the socket not connected.
StackFails(t) ==
  /\ At(t, "stack") /\ call[t].op \in {"accept", "bridge", "promote"}
  /\ Return(t)
  /\ UNCHANGED <<native, lw, accepting_sockets, tables, ftp_restart_mask, probeVars, relays,
                 holds, workVars, madeVars>>

-------------------------------------------------------------------------------
(* socketclose(), and bind() to a port that stays native.                    *)

\* socketclose of a foreign descriptor first forgets what the shim knows of it.
CloseForeign(t) ==
  /\ At(t, "foreign") /\ call[t].op = "close"
  /\ ftp_restart_mask' = ftp_restart_mask \ {call[t].fd}
  /\ Goto(t, "release")
  /\ UNCHANGED <<native, lw, accepting_sockets, tables, probeVars, relays, call, holds,
                 workVars, madeVars>>

CloseStack(t) ==
  /\ At(t, "stack") /\ call[t].op \in {"close", "bind"} /\ LwOpen(mapped_fd[call[t].fd])
  /\ lwip_close(mapped_fd[call[t].fd])
  /\ Goto(t, "untrack")
  /\ UNCHANGED <<native, accepting_sockets, tables, ftp_restart_mask, probeVars, relays, call,
                 holds, workVars, madeVars>>

\* lwip_close fails: socketclose returns, bind does not look.
CloseStackFails(t) ==
  /\ At(t, "stack") /\ call[t].op \in {"close", "bind"} /\ ~LwOpen(mapped_fd[call[t].fd])
  /\ IF call[t].op = "close" THEN Return(t) ELSE Goto(t, "untrack") /\ UNCHANGED call
  /\ UNCHANGED <<native, lw, accepting_sockets, tables, ftp_restart_mask, probeVars, relays,
                 holds, workVars, madeVars>>

\* A close that forgets to untrack.
UntrackForgotten(t) ==
  /\ At(t, "untrack")
  /\ IF call[t].op = "close" THEN Goto(t, "release") /\ UNCHANGED call ELSE Return(t)
  /\ UNCHANGED <<native, lw, accepting_sockets, tables, ftp_restart_mask, probeVars, relays,
                 holds, workVars, madeVars>>

Untrack(t) ==
  /\ At(t, "untrack")
  /\ open_mask' = open_mask \ {call[t].fd}
  /\ IF call[t].op = "close" THEN Goto(t, "release") /\ UNCHANGED call ELSE Return(t)
  /\ UNCHANGED <<native, lw, accepting_sockets, mapped_fd, compat_sock, ftp_restart_mask,
                 probeVars, relays, holds, workVars, madeVars>>

\* real_socketclose.
Release(t) ==
  /\ At(t, "release")
  /\ native' = [native EXCEPT ![call[t].fd] = 0]
  /\ holds' = [holds EXCEPT ![t] = @ \ {<<call[t].fd, call[t].s>>}]
  /\ Return(t)
  /\ UNCHANGED <<lw, accepting_sockets, tables, ftp_restart_mask, probeVars, relays,
                 workVars, madeVars>>

-------------------------------------------------------------------------------
(* NSSLCreateConnection: the lwIP socket moves to a relay, or is given up.   *)

\* stack_fd is read; the tunnel or the native connection is set up.
ReadBacking(t) ==
  /\ At(t, "stack") /\ call[t].op \in {"bridge", "promote"}
  /\ mapped_fd[call[t].fd] # NoFd
  /\ call' = [call EXCEPT ![t].lwfd = mapped_fd[call[t].fd]]
  /\ Goto(t, call[t].op)
  /\ UNCHANGED <<native, lw, accepting_sockets, tables, ftp_restart_mask, probeVars, relays,
                 holds, workVars, madeVars>>

\* Setting up fails: the socket stays as it is.
SetupFails(t) ==
  /\ At(t, "bridge") \/ At(t, "promote")
  /\ Return(t)
  /\ UNCHANGED <<native, lw, accepting_sockets, tables, ftp_restart_mask, probeVars, relays,
                 holds, workVars, madeVars>>

\* The relay is given the lwIP socket ...
GiveToRelay(t) ==
  /\ At(t, "bridge")
  /\ relays' = relays \cup {<<call[t].lwfd, call[t].s>>}
  /\ Goto(t, "given")
  /\ UNCHANGED <<native, lw, accepting_sockets, tables, ftp_restart_mask, probeVars, call,
                 holds, workVars, madeVars>>

\* A handover after which the shim still routes the descriptor to lwIP.
HandOverTracked(t) ==
  /\ At(t, "given")
  /\ Return(t)
  /\ UNCHANGED <<native, lw, accepting_sockets, tables, ftp_restart_mask, probeVars, relays,
                 holds, workVars, madeVars>>

\* ... and the public descriptor is a native one from here on.
HandOver(t) ==
  /\ At(t, "given")
  /\ open_mask' = open_mask \ {call[t].fd}
  /\ mapped_fd' = [mapped_fd EXCEPT ![call[t].fd] = NoFd]
  /\ Return(t)
  /\ UNCHANGED <<native, lw, accepting_sockets, compat_sock, ftp_restart_mask, probeVars,
                 relays, holds, workVars, madeVars>>

\* A relay ends: its connection did, or somebody told it to stop.
RelayEnds(r) ==
  /\ r \in relays
  /\ relays' = relays \ {r}
  /\ lwip_close(r[1])
  /\ UNCHANGED <<native, accepting_sockets, tables, ftp_restart_mask, probeVars, pc, call,
                 holds, workVars, madeVars>>

\* promote_ax_socket_to_native: untrack, then close the lwIP socket.
PromoteUntrack(t) ==
  /\ At(t, "promote")
  /\ open_mask' = open_mask \ {call[t].fd}
  /\ mapped_fd' = [mapped_fd EXCEPT ![call[t].fd] = NoFd]
  /\ Goto(t, "promoted")
  /\ UNCHANGED <<native, lw, accepting_sockets, compat_sock, ftp_restart_mask, probeVars,
                 relays, call, holds, workVars, madeVars>>

\* A promotion that never closes the lwIP socket.
PromoteLeaks(t) ==
  /\ At(t, "promoted")
  /\ Return(t)
  /\ UNCHANGED <<native, lw, accepting_sockets, tables, ftp_restart_mask, probeVars, relays,
                 holds, workVars, madeVars>>

PromoteClose(t) ==
  /\ At(t, "promoted")
  /\ lwip_close(call[t].lwfd)
  /\ Return(t)
  /\ UNCHANGED <<native, accepting_sockets, tables, ftp_restart_mask, probeVars, relays,
                 holds, workVars, madeVars>>

-------------------------------------------------------------------------------
(* socketclose_all().                                                        *)

\* All masks are taken at once ...
CloseAll(t) ==
  /\ At(t, "idle") /\ Able(t) /\ "closeall" \in calls
  /\ ftp_restart_mask' = {}
  /\ call' = [call EXCEPT ![t] = [NoCall EXCEPT !.op = "closeall",
                                    !.mask = IF accepting_sockets THEN open_mask ELSE {}]]
  /\ open_mask' = IF accepting_sockets THEN {} ELSE open_mask
  /\ Goto(t, "closing")
  /\ UNCHANGED <<native, lw, accepting_sockets, mapped_fd, compat_sock, probeVars, relays,
                 holds, workVars, madeVars>>

\* ... the lwIP sockets are closed one by one ...
CloseOne(t, fd) ==
  /\ At(t, "closing") /\ fd \in call[t].mask
  /\ IF LwOpen(mapped_fd[fd]) THEN lwip_close(mapped_fd[fd]) ELSE UNCHANGED lw
  /\ call' = [call EXCEPT ![t].mask = @ \ {fd}]
  /\ UNCHANGED <<native, accepting_sockets, tables, ftp_restart_mask, probeVars, relays, pc,
                 holds, workVars, madeVars>>

\* ... and nsysnet closes every native descriptor.
CloseAllNative(t) ==
  /\ At(t, "closing") /\ call[t].mask = {}
  /\ native' = [f \in Fds |-> 0]
  /\ holds' = [u \in Threads |-> {}]
  /\ Return(t)
  /\ UNCHANGED <<lw, accepting_sockets, tables, ftp_restart_mask, probeVars, relays,
                 workVars, madeVars>>

-------------------------------------------------------------------------------
(* The worker: routing on and off, draining, the FTP handoff.                *)

\* nsysnet_shim_install; a refused function patcher leaves routing off.
Install(ok) ==
  /\ wpc = "up"
  /\ wpc' = "on"
  /\ accepting_sockets' = (accepting_sockets \/ ok)
  /\ UNCHANGED <<native, lw, tables, ftp_restart_mask, probeVars, relays, pc, call, holds,
                 scan, drained, madeVars>>

\* nsysnet_shim_stop_accepting, which ends the relays too.
Quiesce ==
  /\ wpc = "on" /\ scan = NoFd /\ {"drain", "title"} \cap calls # {}
  /\ accepting_sockets' = FALSE /\ probe_owns_accepting' = FALSE
  /\ wpc' = "quiet"
  /\ UNCHANGED <<native, lw, tables, ftp_restart_mask, probe_thread,
                 probe_baseline_open_mask, relays, pc, call, holds, scan, drained, madeVars>>

\* nsysnet_shim_drain_owned_sockets, on a stop that is not a title's end.
DrainTake ==
  /\ wpc = "quiet" /\ "drain" \in calls
  /\ drained' = open_mask
  /\ open_mask' = {}
  /\ wpc' = "drain"
  /\ UNCHANGED <<native, lw, accepting_sockets, mapped_fd, compat_sock, ftp_restart_mask,
                 probeVars, relays, pc, call, holds, scan, madeVars>>

\* A drain that closes the title's descriptors too.
DrainOneCloses(fd) ==
  /\ wpc = "drain" /\ fd \in drained
  /\ drained' = drained \ {fd}
  /\ mapped_fd' = [mapped_fd EXCEPT ![fd] = NoFd]
  /\ IF LwOpen(mapped_fd[fd]) THEN lwip_close(mapped_fd[fd]) ELSE UNCHANGED lw
  /\ native' = [native EXCEPT ![fd] = 0]
  /\ compat_sock' = [compat_sock EXCEPT ![fd] = 0]
  /\ UNCHANGED <<accepting_sockets, open_mask, ftp_restart_mask, probeVars, relays, pc, call,
                 holds, wpc, scan, madeVars>>

DrainOne(fd) ==
  /\ wpc = "drain" /\ fd \in drained
  /\ drained' = drained \ {fd}
  /\ mapped_fd' = [mapped_fd EXCEPT ![fd] = NoFd]
  /\ IF LwOpen(mapped_fd[fd]) THEN lwip_close(mapped_fd[fd]) ELSE UNCHANGED lw
  /\ compat_sock' = [compat_sock EXCEPT ![fd] = 0]
  /\ UNCHANGED <<native, accepting_sockets, open_mask, ftp_restart_mask, probeVars, relays,
                 pc, call, holds, wpc, scan, madeVars>>

\* The process dies and nsysnet_shim_begin_title runs in the next one, whose
\* worker brings the stack up again.
NextTitle ==
  /\ wpc = "quiet" /\ "title" \in calls
  /\ native' = [f \in Fds |-> 0] /\ lw' = [l \in LwFds |-> 0]
  /\ relays' = {}
  /\ pc' = [t \in Threads |-> "idle"] /\ call' = [t \in Threads |-> NoCall]
  /\ holds' = [t \in Threads |-> {}]
  /\ accepting_sockets' = FALSE
  /\ open_mask' = {} /\ mapped_fd' = [f \in Fds |-> NoFd]
  /\ compat_sock' = [f \in Fds |-> 0]
  /\ ftp_restart_mask' = {}
  /\ probe_thread' = "none" /\ probe_owns_accepting' = FALSE
  /\ probe_baseline_open_mask' = {}
  /\ wpc' = "up" /\ scan' = NoFd /\ drained' = {}
  /\ UNCHANGED madeVars

\* nsysnet_shim_request_ftp_handoff looks at a native descriptor ...
FtpCheck(fd) ==
  /\ wpc = "on" /\ scan = NoFd /\ "ftp" \in calls
  /\ accepting_sockets
  /\ is_foreign(fd) /\ fd \notin ftp_restart_mask
  /\ native[fd] \in listeners
  /\ scan' = fd
  /\ UNCHANGED <<native, lw, accepting_sockets, tables, ftp_restart_mask, probeVars, relays,
                 pc, call, holds, wpc, drained, madeVars>>

\* ... and then marks it.
FtpMark ==
  /\ scan # NoFd
  /\ ftp_restart_mask' = ftp_restart_mask \cup {scan}
  /\ scan' = NoFd
  /\ UNCHANGED <<native, lw, accepting_sockets, tables, probeVars, relays, pc, call, holds,
                 wpc, drained, madeVars>>

-------------------------------------------------------------------------------
(* AXShimBeginProbe and AXShimEndProbe, called by a thread of the title.     *)

BeginProbe(t) ==
  /\ At(t, "idle") /\ Able(t) /\ "probe" \in calls
  /\ probe_thread = "none" /\ wpc \in {"up", "on"}
  /\ probe_thread' = t
  /\ probe_owns_accepting' = ~accepting_sockets
  /\ accepting_sockets' = TRUE
  /\ probe_baseline_open_mask' = open_mask
  /\ UNCHANGED <<native, lw, tables, ftp_restart_mask, relays, pc, call, holds, workVars,
                 madeVars>>

\* It is refused while the probe's own sockets are open ...
EndProbeCheck(t) ==
  /\ At(t, "idle") /\ probe_thread = t
  /\ open_mask \subseteq probe_baseline_open_mask
  /\ Goto(t, "endprobe")
  /\ UNCHANGED <<native, lw, accepting_sockets, tables, ftp_restart_mask, probeVars, relays,
                 call, holds, workVars, madeVars>>

\* ... and gives back what the probe switched on.
EndProbe(t) ==
  /\ At(t, "endprobe")
  /\ accepting_sockets' = (accepting_sockets /\ ~probe_owns_accepting)
  /\ probe_owns_accepting' = FALSE /\ probe_thread' = "none"
  /\ probe_baseline_open_mask' = {}
  /\ Return(t)
  /\ UNCHANGED <<native, lw, tables, ftp_restart_mask, relays, holds, workVars, madeVars>>

-------------------------------------------------------------------------------
Title(t) ==
  \/ \E fd \in Fds, ftp \in BOOLEAN : SocketNative(t, fd, ftp)
  \/ \E l \in LwFds : SocketAx(t, l)
  \/ \E fd \in Fds : Placeholder(t, fd)
  \/ NoPlaceholder(t)
  \/ Track(t)
  \/ \E fd \in Fds, s \in Serials, op \in AllCalls : Enter(t, fd, s, op)
  \/ UseNative(t)
  \/ UseStack(t)
  \/ SetOption(t)
  \/ \E l \in LwFds : AcceptStack(t, l)
  \/ StackFails(t)
  \/ CloseForeign(t)
  \/ CloseStack(t)
  \/ CloseStackFails(t)
  \/ Untrack(t)
  \/ Release(t)

Nssl(t) ==
  \/ ReadBacking(t)
  \/ SetupFails(t)
  \/ GiveToRelay(t)
  \/ HandOver(t)
  \/ PromoteUntrack(t)
  \/ PromoteClose(t)

Rare(t) ==
  \/ \E fd \in Fds, s \in Serials : Select(t, fd, s)
  \/ \E fd \in Fds, s \in Serials : SelectMarked(t, fd, s)
  \/ CloseAll(t)
  \/ \E fd \in Fds : CloseOne(t, fd)
  \/ CloseAllNative(t)
  \/ BeginProbe(t)
  \/ EndProbeCheck(t)
  \/ EndProbe(t)

Worker ==
  \/ \E ok \in BOOLEAN : Install(ok)
  \/ Quiesce
  \/ DrainTake
  \/ \E fd \in Fds : DrainOne(fd)
  \/ NextTitle
  \/ \E fd \in Fds : FtpCheck(fd)
  \/ FtpMark

Next ==
  \/ \E t \in Threads : Title(t) \/ Nssl(t) \/ Rare(t)
  \/ \E r \in relays : RelayEnds(r)
  \/ Worker

Spec == Init /\ [][Next]_vars

-------------------------------------------------------------------------------
(* Properties.                                                               *)

Places == {"idle", "placeholder", "track", "stack", "foreign", "untrack", "release",
           "bridge", "given", "promote", "promoted", "closing", "endprobe"}

\* The type of the tables, of the two stacks and of the calls in progress.
TypeOK ==
  /\ native \in [Fds -> 0 .. MaxSockets] /\ lw \in [LwFds -> 0 .. MaxSockets]
  /\ accepting_sockets \in BOOLEAN /\ probe_owns_accepting \in BOOLEAN
  /\ open_mask \subseteq Fds /\ ftp_restart_mask \subseteq Fds
  /\ probe_baseline_open_mask \subseteq Fds
  /\ mapped_fd \in [Fds -> LwFds \cup {NoFd}]
  /\ compat_sock \in [Fds -> 0 .. MaxSockets]
  /\ probe_thread \in Threads \cup {"none"}
  /\ relays \subseteq LwFds \X Serials
  /\ pc \in [Threads -> Places]
  /\ call \in [Threads -> [op : AllCalls \cup {"none", "socket"}, fd : Fds \cup {NoFd},
                           s : 0 .. MaxSockets, lwfd : LwFds \cup {NoFd},
                           accepted : BOOLEAN, mask : SUBSET Fds]]
  /\ holds \in [Threads -> SUBSET (Fds \X Serials)]
  /\ wpc \in {"up", "on", "quiet", "drain"}
  /\ scan \in Fds \cup {NoFd} /\ drained \subseteq Fds
  /\ made \in 0 .. MaxSockets /\ axMade \subseteq Serials /\ listeners \subseteq Serials

\* Threads inside a call that is taking the descriptor fd off lwIP.
Leaving(fd) == {t \in Threads : call[t].fd = fd /\ pc[t] \in {"untrack", "given"}}

\* "Reserve a native socket for every public fd": while the shim routes, every
\* descriptor in open_mask is an open placeholder that the shim itself made, and
\* "descriptors that were not created by this shim remain native".
TrackedIsReserved ==
  accepting_sockets => \A fd \in open_mask : native[fd] \in axMade

\* A tracked descriptor leads to its own lwIP socket, through every recycling of
\* numbers on both sides: the backing is open and is that of this placeholder,
\* unless a call is just taking it away.
BackingIsOwn ==
  accepting_sockets =>
    \A fd \in open_mask :
      Leaving(fd) = {} => LwOpen(mapped_fd[fd]) /\ lw[mapped_fd[fd]] = native[fd]

\* The options the shim keeps for a descriptor are those of the socket that has
\* it now: a recycled number starts from the defaults.
OptionsAreOwn ==
  \A t \in Threads :
    pc[t] = "stack" /\ call[t].op # "select"
      => compat_sock[call[t].fd] \in {0, call[t].s}

\* What a lwIP socket may have become once the worker drains the stack.
Drained == IF wpc = "drain" THEN {0} ELSE {}

\* A call that began while the shim routed never reaches another socket than the
\* one it was made for, on whichever stack it was sent to; nor does a lwIP socket
\* that a call or a relay has in its hands become somebody else's, or closed but
\* by the drain; nor do the options kept for a descriptor belong to its last owner.
CallReachesOwnSocket ==
  /\ OptionsAreOwn
  /\ \A t \in Threads :
       /\ pc[t] = "stack" /\ call[t].accepted /\ mapped_fd[call[t].fd] # NoFd
            => lw[mapped_fd[call[t].fd]] \in {0, call[t].s}
       /\ pc[t] \in {"foreign", "release"} => native[call[t].fd] = call[t].s
       /\ pc[t] \in {"placeholder", "track", "bridge", "promote", "promoted"}
            => lw[call[t].lwfd] \in {call[t].s} \cup Drained
  /\ \A r \in relays : lw[r[1]] \in {r[2]} \cup Drained

\* No lwIP socket is lost while the shim routes: each one is tracked, or held by
\* a call in progress or by a relay, that will close it.
NoOrphanSocket ==
  accepting_sockets => \A l \in LwFds :
    lw[l] # 0 =>
      \/ \E fd \in open_mask : mapped_fd[fd] = l
      \/ \E t \in Threads : call[t].lwfd = l \/ \E fd \in call[t].mask : mapped_fd[fd] = l
      \/ <<l, lw[l]>> \in relays

\* "Public nsysnet descriptors are NOT closed here: the title owns them": until it
\* closes it, a descriptor the title holds is its own native socket, whatever
\* closes, accepts, routing changes and drains go on around it.
HeldIsOpen ==
  \A t \in Threads : \A h \in holds[t] : native[h[1]] = h[2]

\* "From that exact point every title-visible socket must fall back to its
\* native nsysnet placeholder": a call that begins when the shim no longer
\* accepts is not served by lwIP.
QuiescedMeansNative ==
  \A t \in Threads : pc[t] = "stack" => call[t].accepted

\* "we mark only that listener": a descriptor marked for the one-shot failure is
\* the native FTP listener, not a socket that got its number afterwards.
MarkedIsListener ==
  \A fd \in ftp_restart_mask : native[fd] \in listeners \cup {0}

\* "the title owns them and will close them normally": a socketclose on a
\* descriptor the title holds closes it, also while the worker drains.
CloseCloses ==
  [][\A t \in Threads :
       call[t].op = "close" /\ pc[t] # "idle" /\ pc'[t] = "idle" /\ wpc' # "up"
         => native'[call[t].fd] = 0]_vars

===============================================================================
