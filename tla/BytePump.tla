------------------------------- MODULE BytePump -------------------------------
(***************************************************************************)
(* The two copy loops of src/aroma_module/nsysnet_shim.c: the relay thread *)
(* of the NSSL bridge (nssl_relay_worker), and the Wiiload proxy that the  *)
(* worker polls.  Each joins a native socket to an lwIP socket and copies  *)
(* both ways through two buffers, with nonblocking calls, partial sends    *)
(* and half-closes.  They differ in which direction goes first, in what a  *)
(* failed receive means, and in what happens between two iterations.       *)
(*                                                                         *)
(* A direction is named by the socket it writes to.  Byte i of connection  *)
(* c is <<c, i>>, so that a byte out of place or out of another connection *)
(* is recognised.  The peers write, read, close and reset as they like.    *)
(***************************************************************************)
EXTENDS Naturals, Sequences

CONSTANTS Kinds,         \* of "relay" and "wiiload"
          BufLen,        \* NSSL_RELAY_BUF, WIILOAD_PROXY_BUF
          Window,        \* bytes a socket takes before its peer reads some
          MaxIterations, \* of one poll of the Wiiload proxy (64)
          MaxBytes,      \* bound: bytes a peer writes on a connection
          MaxConns       \* bound: connections

ASSUME PumpAssumption ==
  /\ Kinds \subseteq {"relay", "wiiload"}
  /\ {BufLen, Window, MaxIterations, MaxConns} \subseteq Nat \ {0}
  /\ MaxBytes \in Nat

Sides == {"ax", "native"}
Other(d) == IF d = "ax" THEN "native" ELSE "ax"

VARIABLES
  kind,
  listening,                     \* the proxy has its listener
  fds,                           \* the sides whose socket is there
  pc,                            \* <<place>> or <<place, direction>>
  dir,                           \* direction -> buffer, offset, length and flags
  progress, iteration, stop,
  conn,                          \* connections so far
  written, taken,                \* direction -> bytes written by its source, received
  queued, got,                   \* direction -> bytes sent, and read by its sink
  closed, reset                  \* sides that closed their writing half, or reset

loopVars == <<pc, dir, progress, iteration>>
wireVars == <<written, taken, queued, got>>
peerVars == <<closed, reset>>
procVars == <<kind, listening>>
vars == <<procVars, fds, loopVars, stop, conn, wireVars, peerVars>>

Fresh == [mem |-> <<>>, off |-> 0, len |-> 0, rx |-> TRUE, shut |-> FALSE]
Dead == [mem |-> <<>>, off |-> 0, len |-> 0, rx |-> FALSE, shut |-> FALSE]
First == IF kind = "relay" THEN "ax" ELSE "native"

Init ==
  /\ kind \in Kinds
  /\ listening = FALSE /\ fds = {}
  /\ pc = <<"top">> /\ dir = [d \in Sides |-> Dead]
  /\ progress = FALSE /\ iteration = 0 /\ stop = FALSE
  /\ conn = 0
  /\ written = [d \in Sides |-> 0] /\ taken = [d \in Sides |-> 0]
  /\ queued = [d \in Sides |-> <<>>] /\ got = [d \in Sides |-> <<>>]
  /\ closed = {} /\ reset = {}

\* The two sockets are joined.
Open == fds = Sides

-------------------------------------------------------------------------------
(* The peers.  The source of a direction is the other side.                 *)

PeerWrites(d) ==
  /\ Open /\ Other(d) \notin closed \cup reset /\ written[d] < MaxBytes
  /\ written' = [written EXCEPT ![d] = @ + 1]
  /\ UNCHANGED <<procVars, fds, loopVars, stop, conn, taken, queued, got, peerVars>>

PeerReads(d) ==
  /\ Open /\ d \notin reset /\ queued[d] # <<>>
  /\ got' = [got EXCEPT ![d] = Append(@, Head(queued[d]))]
  /\ queued' = [queued EXCEPT ![d] = Tail(@)]
  /\ UNCHANGED <<procVars, fds, loopVars, stop, conn, written, taken, peerVars>>

PeerCloses(p) ==
  /\ Open /\ p \notin closed \cup reset
  /\ closed' = closed \cup {p}
  /\ UNCHANGED <<procVars, fds, loopVars, stop, conn, wireVars, reset>>

PeerResets(p) ==
  /\ Open /\ p \notin reset
  /\ reset' = reset \cup {p}
  /\ UNCHANGED <<procVars, fds, loopVars, stop, conn, wireVars, closed>>

-------------------------------------------------------------------------------
(* A connection begins and ends.                                            *)

Start ==
  /\ conn < MaxConns /\ conn' = conn + 1
  /\ fds' = Sides
  /\ dir' = [d \in Sides |-> Fresh]
  /\ UNCHANGED <<wireVars, peerVars>>

\* wiiload_proxy_reset_connection, and the end of nssl_relay_worker: the sockets
\* that are there are closed, and everything is forgotten.
Reset ==
  /\ fds' = {}
  /\ dir' = [d \in Sides |-> Dead]
  /\ progress' = FALSE /\ iteration' = 0
  /\ written' = [d \in Sides |-> 0] /\ taken' = [d \in Sides |-> 0]
  /\ queued' = [d \in Sides |-> <<>>] /\ got' = [d \in Sides |-> <<>>]
  /\ closed' = {} /\ reset' = {}

\* The copying is over: the relay thread ends, the proxy waits for a client.
Finish ==
  /\ Reset
  /\ pc' = IF kind = "relay" THEN <<"ended">> ELSE <<"top">>
  /\ UNCHANGED <<procVars, stop, conn>>

\* The relay is given its two sockets.
RelayStart ==
  /\ kind = "relay" /\ pc = <<"top">> /\ conn = 0 /\ ~stop
  /\ Start
  /\ UNCHANGED <<procVars, pc, progress, iteration, stop>>

\* nssl_relay_detach_public_fd, nssl_relay_stop_slot and nssl_relay_stop_all.
RelayStop ==
  /\ kind = "relay" /\ Open /\ ~stop
  /\ stop' = TRUE
  /\ UNCHANGED <<procVars, fds, loopVars, conn, wireVars, peerVars>>

\* A loop that goes on until the connection ends.
RelayTopDeaf ==
  /\ kind = "relay" /\ pc = <<"top">> /\ Open
  /\ pc' = <<"flush", First>> /\ progress' = FALSE
  /\ UNCHANGED <<procVars, fds, dir, iteration, stop, conn, wireVars, peerVars>>

\* The head of the relay's loop.
RelayTop ==
  /\ kind = "relay" /\ pc = <<"top">> /\ Open
  /\ IF stop THEN Finish
     ELSE /\ pc' = <<"flush", First>> /\ progress' = FALSE
          /\ UNCHANGED <<procVars, fds, dir, iteration, stop, conn, wireVars, peerVars>>

\* The listener on the adapter's address is made; lwip_socket, bind, listen or
\* set_nonblocking may fail, and a second start does nothing.
wiiload_proxy_start ==
  /\ kind = "wiiload" /\ pc = <<"top">> /\ ~listening /\ conn < MaxConns
  /\ listening' = TRUE
  /\ UNCHANGED <<kind, fds, loopVars, stop, conn, wireVars, peerVars>>

\* Before a recovery of the adapter, and at the end of the title.
wiiload_proxy_stop ==
  /\ kind = "wiiload" /\ pc = <<"top">> /\ listening
  /\ Reset
  /\ listening' = FALSE
  /\ UNCHANGED <<kind, pc, stop, conn>>

\* A poll with no transfer under way: lwip_accept has a client ...
Accept ==
  /\ kind = "wiiload" /\ pc = <<"top">> /\ listening /\ fds = {}
  /\ conn < MaxConns
  /\ fds' = {"ax"}
  /\ pc' = <<"connect">>
  /\ UNCHANGED <<procVars, dir, progress, iteration, stop, conn, wireVars, peerVars>>

\* ... and wiiload_proxy_connect_native joins it to the server on localhost, or
\* fails and the client is let go.
ConnectNative ==
  /\ pc = <<"connect">>
  /\ Start
  /\ pc' = <<"flush", First>> /\ progress' = FALSE /\ iteration' = 1
  /\ UNCHANGED <<procVars, stop>>

ConnectFails ==
  /\ pc = <<"connect">>
  /\ Finish

\* A poll with a transfer under way.
Poll ==
  /\ kind = "wiiload" /\ pc = <<"top">> /\ listening /\ fds # {}
  /\ pc' = <<"flush", First>> /\ progress' = FALSE /\ iteration' = 1
  /\ UNCHANGED <<procVars, fds, dir, stop, conn, wireVars, peerVars>>

\* The process is gone, the statics stay.  In the next one nsysnet_shim_begin_title
\* runs wiiload_proxy_stop on what they hold.
NextTitle ==
  /\ kind = "wiiload" /\ (listening \/ fds # {})
  /\ Reset
  /\ listening' = FALSE
  /\ pc' = <<"top">>
  /\ UNCHANGED <<kind, stop, conn>>

-------------------------------------------------------------------------------
(* One direction of one iteration: flush the buffer, fill it when it is      *)
(* empty, pass the end of the stream on.                                     *)

Step(d, place) == pc = <<place, d>>
Go(d, place) == pc' = <<place, d>>

\* n bytes of the buffer leave it.
Sent(d, n) == [dir[d] EXCEPT !.off = IF n = dir[d].len THEN 0 ELSE @ + n, !.len = @ - n]
Bytes(d, n) == SubSeq(dir[d].mem, dir[d].off + 1, dir[d].off + n)

\* A flush that sends from the head of the buffer after a partial send.
FlushFromHead(d) ==
  /\ Step(d, "flush") /\ dir[d].len > 0 /\ d \notin reset
  /\ \E n \in 1 .. dir[d].len :
       /\ n <= Window - Len(queued[d])
       /\ dir' = [dir EXCEPT ![d].len = @ - n]
       /\ queued' = [queued EXCEPT ![d] = @ \o SubSeq(dir[d].mem, 1, n)]
  /\ progress' = TRUE
  /\ Go(d, "fill")
  /\ UNCHANGED <<procVars, fds, iteration, stop, conn, written, taken, got, peerVars>>

\* The socket takes some of what is in the buffer.
Flush(d) ==
  /\ Step(d, "flush") /\ dir[d].len > 0 /\ d \notin reset
  /\ \E n \in 1 .. dir[d].len :
       /\ n <= Window - Len(queued[d])
       /\ dir' = [dir EXCEPT ![d] = Sent(d, n)]
       /\ queued' = [queued EXCEPT ![d] = @ \o Bytes(d, n)]
  /\ progress' = TRUE
  /\ Go(d, "fill")
  /\ UNCHANGED <<procVars, fds, iteration, stop, conn, written, taken, got, peerVars>>

\* There is nothing to send, or the call would block.
NoFlush(d) ==
  /\ Step(d, "flush")
  /\ dir[d].len = 0 \/ (d \notin reset /\ Len(queued[d]) >= Window)
  /\ Go(d, "fill")
  /\ UNCHANGED <<procVars, fds, dir, progress, iteration, stop, conn, wireVars, peerVars>>

\* The peer is gone: the loop ends, whatever the error.
FlushFails(d) ==
  /\ Step(d, "flush") /\ dir[d].len > 0 /\ d \in reset
  /\ Finish

\* The buffer is empty and the source has bytes.
Fill(d) ==
  /\ Step(d, "fill") /\ dir[d].len = 0 /\ dir[d].rx /\ Other(d) \notin reset
  /\ \E n \in 1 .. BufLen :
       /\ taken[d] + n <= written[d]
       /\ dir' = [dir EXCEPT ![d].mem = [i \in 1 .. n |-> <<conn, taken[d] + i>>],
                             ![d].off = 0, ![d].len = n]
       /\ taken' = [taken EXCEPT ![d] = @ + n]
  /\ progress' = TRUE
  /\ Go(d, "shut")
  /\ UNCHANGED <<procVars, fds, iteration, stop, conn, written, queued, got, peerVars>>

\* It is not, or the source is closed for good, or the call would block.
NoFill(d) ==
  /\ Step(d, "fill")
  /\ \/ dir[d].len > 0 \/ ~dir[d].rx
     \/ taken[d] = written[d] /\ Other(d) \notin closed \cup reset
  /\ Go(d, "shut")
  /\ UNCHANGED <<procVars, fds, dir, progress, iteration, stop, conn, wireVars, peerVars>>

\* The end of the stream.  The proxy takes a native socket that says that its
\* peer is gone for an end too.
FillEnds(d) ==
  /\ Step(d, "fill") /\ dir[d].len = 0 /\ dir[d].rx
  /\ \/ Other(d) \in closed \ reset /\ taken[d] = written[d]
     \/ kind = "wiiload" /\ Other(d) \in reset \cap {"native"}
  /\ dir' = [dir EXCEPT ![d].rx = FALSE]
  /\ progress' = TRUE
  /\ Go(d, "shut")
  /\ UNCHANGED <<procVars, fds, iteration, stop, conn, wireVars, peerVars>>

\* Any other error ends the loop.
FillFails(d) ==
  /\ Step(d, "fill") /\ dir[d].len = 0 /\ dir[d].rx /\ Other(d) \in reset
  /\ Finish

\* Where one iteration goes after direction d.
AfterShut(d) == pc' = IF d = First THEN <<"flush", Other(d)>> ELSE <<"check">>

\* An end of the stream that is not passed on.
ShutNever(d) ==
  /\ Step(d, "shut")
  /\ AfterShut(d)
  /\ UNCHANGED <<procVars, fds, dir, progress, iteration, stop, conn, wireVars, peerVars>>

\* "once everything already received has been delivered locally": shutdown for
\* writing, once.
Shut(d) ==
  /\ Step(d, "shut")
  /\ IF ~dir[d].rx /\ dir[d].len = 0 /\ ~dir[d].shut
     THEN dir' = [dir EXCEPT ![d].shut = TRUE] /\ progress' = TRUE
     ELSE UNCHANGED <<dir, progress>>
  /\ AfterShut(d)
  /\ UNCHANGED <<procVars, fds, iteration, stop, conn, wireVars, peerVars>>

Copy(d) ==
  \/ Flush(d) \/ NoFlush(d) \/ FlushFails(d)
  \/ Fill(d) \/ NoFill(d) \/ FillEnds(d) \/ FillFails(d)
  \/ Shut(d)

RelayToAx == kind = "relay" /\ Copy("ax")
RelayToNative == kind = "relay" /\ Copy("native")
WiiloadToNative == kind = "wiiload" /\ Copy("native")
WiiloadToAx == kind = "wiiload" /\ Copy("ax")

AllDone == \A d \in Sides : ~dir[d].rx /\ dir[d].len = 0

\* The end of an iteration of the relay; without progress it sleeps for 1 ms.
RelayCheck ==
  /\ kind = "relay" /\ pc = <<"check">>
  /\ IF AllDone THEN Finish
     ELSE /\ pc' = <<"top">> /\ progress' = FALSE
          /\ UNCHANGED <<procVars, fds, dir, iteration, stop, conn, wireVars, peerVars>>

\* The end of an iteration of the proxy: the next one, or back to the worker.
WiiloadCheck ==
  /\ kind = "wiiload" /\ pc = <<"check">>
  /\ IF AllDone THEN Finish
     ELSE /\ IF progress /\ iteration < MaxIterations
             THEN pc' = <<"flush", First>> /\ iteration' = iteration + 1
             ELSE pc' = <<"top">> /\ iteration' = 0
          /\ progress' = FALSE
          /\ UNCHANGED <<procVars, fds, dir, stop, conn, wireVars, peerVars>>

-------------------------------------------------------------------------------
Peers ==
  \E p \in Sides : PeerWrites(p) \/ PeerReads(p) \/ PeerCloses(p) \/ PeerResets(p)

Relay == RelayTop \/ RelayToAx \/ RelayToNative \/ RelayCheck
Proxy == \/ ConnectNative \/ ConnectFails \/ Poll
         \/ WiiloadToNative \/ WiiloadToAx \/ WiiloadCheck

Next ==
  \/ RelayStart \/ RelayStop \/ Relay
  \/ wiiload_proxy_start \/ wiiload_proxy_stop \/ Accept \/ Proxy \/ NextTitle
  \/ Peers

\* The relay's thread runs, and the worker keeps polling the proxy.
Spec == Init /\ [][Next]_vars /\ WF_vars(Relay) /\ WF_vars(Proxy)

-------------------------------------------------------------------------------
(* Properties.                                                               *)

\* What a direction carries: the bytes its sink read, those on the way to it and
\* those in the buffer are the bytes received from its source, in order.
Carried ==
  \A d \in Sides :
    Open =>
      got[d] \o queued[d] \o Bytes(d, dir[d].len)
        = [i \in 1 .. taken[d] |-> <<conn, i>>]

\* "Both directions remain independent so TCP half-close works": a sink is told
\* that the stream is over only when its source is, and when nothing that the
\* source wrote is missing.
EndIsComplete ==
  \A d \in Sides :
    dir[d].shut =>
      /\ dir[d].len = 0
      /\ Other(d) \in closed \cup reset
      /\ Other(d) \notin reset => taken[d] = written[d]

\* Nothing is lost, repeated, reordered or mixed in from another connection, up to
\* and including the end of the stream.
StreamIntact == Carried /\ EndIsComplete

PeersRead == \A d \in Sides : WF_vars(PeerReads(d))

\* "make NSSL observe EOF": when a peer has closed its half and the other one
\* reads, the other one is told, or the connection is over altogether.
HalfCloseReaches ==
  PeersRead =>
    \A p \in Sides : (p \in closed /\ Open) ~> (dir[Other(p)].shut \/ ~Open)

\* "Relay calls are nonblocking and check stop every iteration": a relay told to
\* stop ends, even if no peer ever reads or closes.
StopEnds == stop ~> (pc = <<"ended">>)

===============================================================================
