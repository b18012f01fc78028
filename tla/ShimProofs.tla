------------------------------ MODULE ShimProofs ------------------------------
(***************************************************************************)
(* Theorems about ShimSockets: for any threads, descriptors and sockets, a *)
(* tracked descriptor leads to its own lwIP socket, a call reaches the     *)
(* socket it was made for, no lwIP socket is lost while the shim routes,   *)
(* and a descriptor the title holds stays its own.                         *)
(***************************************************************************)
EXTENDS ShimSockets, TLAPS

\* The condition of the theorems.  The calls that take whole tables at once,
\* socketclose_all, the drain and the end of a probe, do not overlap calls of other
\* threads: ShimSockets_closeall, _drain and _probe show what happens otherwise.
TablesTakenAlone ==
  \A c \in CallSets : c \cap {"closeall", "drain", "probe"} # {} => "alone" \in c

-------------------------------------------------------------------------------
(* The inductive invariant.                                                  *)

Routing == wpc \in {"up", "on"}

\* Where a call works on a descriptor that its thread holds, where it makes one, and
\* where it has a lwIP socket in its hands.
OnFd == {"foreign", "stack", "untrack", "release", "bridge", "given", "promote", "promoted"}
Making == {"placeholder", "track"}
HasLw == {"placeholder", "track", "bridge", "promote", "promoted"}

\* A call that lwIP serves because the shim was routing when it began.
Routed(t) == pc[t] = "stack" /\ (call[t].op # "select" \/ call[t].accepted)

Active(t) == pc[t] # "idle" \/ holds[t] # {} \/ probe_thread = t

\* Serial numbers that are in use were given out before.
Numbered ==
  /\ \A f \in Fds : native[f] <= made
  /\ \A l \in LwFds : lw[l] <= made
  /\ \A t \in Threads : call[t].s <= made
  /\ \A r \in relays : r[2] <= made

\* What the condition gives.
OneAtATime ==
  /\ "alone" \in calls => \A t, u \in Threads : Active(t) /\ Active(u) => t = u
  /\ wpc = "drain" \/ probe_thread # "none" => "alone" \in calls
  /\ \A t \in Threads : pc[t] \in {"closing", "endprobe"} => "alone" \in calls

\* When the shim routes, and that nothing is tracked when it could but does not.
Modes ==
  /\ accepting_sockets => Routing
  /\ Routing /\ ~accepting_sockets =>
       /\ open_mask = {}
       /\ \A t \in Threads : pc[t] \in {"idle", "foreign", "release", "closing", "endprobe"}
  /\ probe_owns_accepting => probe_baseline_open_mask = {}
  /\ \A t \in Threads :
       /\ Routing /\ pc[t] = "closing" => open_mask = {}
       /\ Routing /\ pc[t] = "endprobe" /\ probe_owns_accepting => open_mask = {}
  /\ wpc # "drain" => drained = {}

\* A native socket has one number, and one thread holds it.
Descriptors ==
  /\ \A f, g \in Fds : native[f] = native[g] /\ native[f] # 0 => f = g
  /\ \A t \in Threads : \A h \in holds[t] : native[h[1]] = h[2]
  /\ \A t, u \in Threads : \A h \in holds[t], k \in holds[u] : h[2] = k[2] => t = u

\* The socket that a call is about.
CallState(t) ==
  /\ pc[t] \in OnFd => <<call[t].fd, call[t].s>> \in holds[t]
  /\ pc[t] \in Making =>
       /\ call[t].s \in Serials
       /\ \A u \in Threads : \A h \in holds[u] : h[2] # call[t].s
  /\ pc[t] = "placeholder" => \A f \in Fds : native[f] # call[t].s
  /\ pc[t] = "track" => call[t].fd \in Fds /\ native[call[t].fd] = call[t].s

Distinct ==
  \A t, u \in Threads :
    pc[t] \in OnFd \cup Making /\ pc[u] \in OnFd \cup Making /\ call[t].s = call[u].s
      => t = u

\* The lwIP socket that a call relies on, and the options kept for it.
LwState(t) ==
  /\ pc[t] \in HasLw =>
       call[t].lwfd \in LwFds /\ lw[call[t].lwfd] \in {call[t].s} \cup Drained
  /\ Routed(t) =>
       \/ /\ mapped_fd[call[t].fd] \in LwFds
          /\ lw[mapped_fd[call[t].fd]] \in {call[t].s} \cup Drained
       \/ mapped_fd[call[t].fd] = NoFd /\ wpc = "drain"
  /\ Routed(t) /\ call[t].op # "select" => compat_sock[call[t].fd] \in {0, call[t].s}
  /\ pc[t] \in {"bridge", "promote"} =>
       mapped_fd[call[t].fd] = call[t].lwfd \/ wpc = "drain"
  /\ Routed(t) \/ pc[t] \in HasLw => \A r \in relays : r[2] # call[t].s

\* The lwIP sockets of the relays.
RelayState ==
  /\ \A r \in relays : lw[r[1]] \in {r[2]} \cup Drained
  /\ \A t \in Threads : pc[t] = "closing" =>
       \A fd \in call[t].mask, r \in relays : mapped_fd[fd] # r[1]
  /\ \A t \in Threads : "alone" \in calls /\ pc[t] = "stack" /\ call[t].op = "accept" =>
       \A r \in relays :
         lw[r[1]] = r[2] /\ \A fd \in open_mask \cup drained : mapped_fd[fd] # r[1]

\* A tracked descriptor.
Table ==
  Routing => \A fd \in open_mask :
    /\ native[fd] # 0
    /\ compat_sock[fd] \in {0, native[fd]}
    /\ Leaving(fd) = {} =>
         /\ mapped_fd[fd] \in LwFds /\ lw[mapped_fd[fd]] = native[fd]
         /\ \A r \in relays : r[2] # native[fd]

\* A descriptor that a call has found, or made, not tracked.
Untracked ==
  Routing => \A t \in Threads :
    pc[t] \in {"foreign", "release", "promoted", "track"} => call[t].fd \notin open_mask

\* Somebody will close the lwIP socket l: the owner of its descriptor, the call that has it
\* in its hands, socketclose_all or a relay.
Closer(l) ==
  \/ \E fd \in open_mask : Leaving(fd) = {} /\ mapped_fd[fd] = l
  \/ \E t \in Threads : pc[t] \in {"placeholder", "track", "promoted"} /\ call[t].lwfd = l
  \/ \E t \in Threads : pc[t] = "closing" /\ \E fd \in call[t].mask : mapped_fd[fd] = l
  \/ <<l, lw[l]>> \in relays

Reachable == Routing => \A l \in LwFds : lw[l] # 0 => Closer(l)

IInv ==
  /\ TypeOK /\ calls \in CallSets
  /\ Numbered /\ OneAtATime /\ Modes /\ Descriptors /\ Distinct
  /\ \A t \in Threads : CallState(t) /\ LwState(t)
  /\ RelayState /\ Table /\ Untracked /\ Reachable

-------------------------------------------------------------------------------
(* Facts about calls.                                                        *)

CallRec == [op : AllCalls \cup {"none", "socket"}, fd : Fds \cup {NoFd},
            s : 0 .. MaxSockets, lwfd : LwFds \cup {NoFd}, accepted : BOOLEAN,
            mask : SUBSET Fds]

\* The records that a call begins with.
FdCall(o, f, s, a) == [NoCall EXCEPT !.op = o, !.fd = f, !.s = s, !.accepted = a]
LwCall(o, s, l) == [NoCall EXCEPT !.op = o, !.s = s, !.lwfd = l]
MaskCall(m) == [NoCall EXCEPT !.op = "closeall", !.mask = m]

\* No call.
LEMMA NoCallFacts ==
  /\ NoCall \in CallRec /\ NoCall.fd = NoFd /\ NoCall.s = 0 /\ NoCall.lwfd = NoFd
  /\ NoCall.mask = {}
BY ShimAssumption DEF NoCall, CallRec

\* A call on a descriptor.
LEMMA FdCallFacts ==
  ASSUME NEW o \in AllCalls, NEW f \in Fds, NEW s \in 0 .. MaxSockets, NEW a \in BOOLEAN
  PROVE  /\ FdCall(o, f, s, a) \in CallRec /\ FdCall(o, f, s, a).op = o
         /\ FdCall(o, f, s, a).fd = f /\ FdCall(o, f, s, a).s = s
         /\ FdCall(o, f, s, a).accepted = a
BY NoCallFacts, Zenon DEF FdCall, CallRec

\* A call that makes a socket of lwIP.
LEMMA LwCallFacts ==
  ASSUME NEW o \in AllCalls \cup {"socket"}, NEW s \in 0 .. MaxSockets, NEW l \in LwFds
  PROVE  /\ LwCall(o, s, l) \in CallRec /\ LwCall(o, s, l).op = o
         /\ LwCall(o, s, l).s = s /\ LwCall(o, s, l).lwfd = l
BY NoCallFacts, Zenon DEF LwCall, CallRec

\* socketclose_all.
LEMMA MaskCallFacts ==
  ASSUME NEW m \in SUBSET Fds
  PROVE  MaskCall(m) \in CallRec /\ MaskCall(m).mask = m /\ MaskCall(m).s = 0
<1>1. "closeall" \in AllCalls
  BY Zenon DEF AllCalls
<1> QED
  BY <1>1, NoCallFacts, Zenon DEF MaskCall, CallRec

\* The records that a call goes on with.
LEMMA CallFacts ==
  ASSUME NEW x \in CallRec
  PROVE  /\ \A f \in Fds :
              LET c == [x EXCEPT !.fd = f]
              IN  /\ c \in CallRec /\ c.fd = f /\ c.op = x.op /\ c.s = x.s /\ c.lwfd = x.lwfd
                  /\ c.accepted = x.accepted /\ c.mask = x.mask
         /\ \A l \in LwFds :
              LET c == [x EXCEPT !.lwfd = l]
              IN  /\ c \in CallRec /\ c.lwfd = l /\ c.op = x.op /\ c.s = x.s /\ c.fd = x.fd
                  /\ c.accepted = x.accepted /\ c.mask = x.mask
         /\ \A m \in SUBSET Fds :
              LET c == [x EXCEPT !.mask = m]
              IN  /\ c \in CallRec /\ c.mask = m /\ c.op = x.op /\ c.s = x.s /\ c.fd = x.fd
                  /\ c.lwfd = x.lwfd /\ c.accepted = x.accepted
BY Zenon DEF CallRec

\* A step of one thread.
LEMMA ThreadStep ==
  ASSUME TypeOK, NEW t \in Threads, NEW p \in Places, NEW c \in CallRec,
         pc' = [pc EXCEPT ![t] = p], call' = [call EXCEPT ![t] = c]
  PROVE  /\ pc' \in [Threads -> Places] /\ call' \in [Threads -> CallRec]
         /\ pc'[t] = p /\ call'[t] = c
         /\ \A u \in Threads \ {t} : pc'[u] = pc[u] /\ call'[u] = call[u]
<1>1. pc \in [Threads -> Places] /\ call \in [Threads -> CallRec]
  BY Zenon DEF TypeOK, CallRec
<1> QED
  BY <1>1, Zenon

\* The socket and the descriptor of a call are those of no other call.
LEMMA Apart ==
  ASSUME IInv, NEW t \in Threads
  PROVE  /\ pc[t] \in OnFd \cup {"track"} =>
              /\ call[t].fd \in Fds /\ call[t].s \in Serials /\ call[t].s # 0
              /\ native[call[t].fd] = call[t].s
         /\ pc[t] = "placeholder" => call[t].s \in Serials /\ call[t].s # 0
         /\ \A u \in Threads \ {t} :
              pc[t] \in OnFd \cup Making /\ pc[u] \in OnFd \cup Making =>
                /\ call[t].s # call[u].s
                /\ pc[t] # "placeholder" /\ pc[u] # "placeholder" => call[t].fd # call[u].fd
<1>1. \A u \in Threads :
        pc[u] \in OnFd \cup {"track"} =>
          call[u].fd \in Fds /\ call[u].s \in Serials /\ native[call[u].fd] = call[u].s
  <2> SUFFICES ASSUME NEW u \in Threads, pc[u] \in OnFd \cup {"track"}
               PROVE  call[u].fd \in Fds /\ call[u].s \in Serials /\ native[call[u].fd] = call[u].s
    BY Zenon
  <2>1. CASE pc[u] \in OnFd
    <3>1. <<call[u].fd, call[u].s>> \in holds[u] /\ holds[u] \subseteq Fds \X Serials
      BY <2>1, Zenon DEF IInv, CallState, TypeOK
    <3> QED
      BY <3>1, ZenonT(30) DEF IInv, Descriptors
  <2>2. CASE pc[u] = "track"
    BY <2>2, Zenon DEF IInv, CallState, Making
  <2> QED
    BY <2>1, <2>2, Zenon
<1>2. 0 \notin Serials
  BY ShimAssumption DEF Serials
<1>3. pc[t] = "placeholder" => call[t].s \in Serials
  BY Zenon DEF IInv, CallState, Making
<1>4. ASSUME NEW u \in Threads \ {t}, pc[t] \in OnFd \cup Making, pc[u] \in OnFd \cup Making
      PROVE  call[t].s # call[u].s
  BY <1>4, Zenon DEF IInv, Distinct
<1> QED
  BY <1>1, <1>2, <1>3, <1>4, Zenon DEF Making

-------------------------------------------------------------------------------
(* Steps that move a call.                                                   *)

\* A step that changes nothing that the invariant speaks of.
LEMMA StillKeeps ==
  ASSUME IInv, TypeOK',
         UNCHANGED <<native, lw, accepting_sockets, tables, probeVars, relays, pc, call,
                     holds, wpc, drained, calls, made>>
  PROVE  IInv'
<1> USE DEF tables, probeVars
<1>1. Numbered' /\ Modes' /\ Descriptors' /\ Distinct'
  BY DEF IInv, Numbered, Modes, Routing, Descriptors, Distinct
<1>2. OneAtATime'
  BY Zenon DEF IInv, OneAtATime, Active
<1>3. \A t \in Threads : CallState(t)' /\ LwState(t)'
  BY DEF IInv, CallState, LwState, Routed, Drained
<1>4. RelayState'
  BY ZenonT(30) DEF IInv, RelayState, Drained
<1>5. Table' /\ Untracked' /\ Reachable'
  BY DEF IInv, Table, Untracked, Reachable, Closer, Routing, Leaving
<1> QED
  BY <1>1, <1>2, <1>3, <1>4, <1>5, Zenon DEF IInv

\* A call of thread t begins, goes on or returns, and only its own record changes.
LEMMA MoveKeeps ==
  ASSUME IInv, NEW t \in Threads, TypeOK', Active(t),
         UNCHANGED <<native, lw, accepting_sockets, open_mask, mapped_fd, probeVars, relays,
                     holds, wpc, drained, calls, made>>,
         \A u \in Threads \ {t} : pc'[u] = pc[u] /\ call'[u] = call[u],
         \A f \in Fds : compat_sock'[f] = compat_sock[f] \/ f = call[t].fd,
         \A f \in open_mask : Routing => compat_sock'[f] \in {0, native[f]},
         compat_sock' = compat_sock \/ pc[t] = "stack",
         pc[t] \notin {"untrack", "given", "placeholder", "track", "promoted", "closing"},
         pc'[t] \notin Making \cup {"given", "closing", "endprobe", "promoted"},
         pc'[t] = "untrack" => ~Routing,
         pc'[t] \in {"foreign", "release"} /\ Routing => call'[t].fd \notin open_mask,
         accepting_sockets \/ ~Routing \/ pc'[t] \in {"idle", "foreign", "release"},
         call'[t].s <= made, CallState(t)', LwState(t)',
         "alone" \in calls /\ pc'[t] = "stack" /\ call'[t].op = "accept" =>
           \A r \in relays :
             lw[r[1]] = r[2] /\ \A fd \in open_mask \cup drained : mapped_fd[fd] # r[1]
  PROVE  IInv'
<1> USE DEF probeVars
<1>1. Numbered'
  BY Zenon DEF IInv, Numbered
<1>2. OneAtATime'
  <2>1. \A u \in Threads : Active(u)' => Active(u)
    BY Zenon DEF Active
  <2> QED
    BY <2>1, Zenon DEF IInv, OneAtATime
<1>3. Modes'
  BY DEF IInv, Modes, Routing
<1>4. Descriptors'
  BY DEF IInv, Descriptors
<1>5. Distinct'
  <2>1. ASSUME NEW u \in Threads \ {t}, pc'[t] \in OnFd \cup Making, pc'[u] \in OnFd \cup Making
        PROVE  call'[t].s # call'[u].s
    <3>1. <<call'[t].fd, call'[t].s>> \in holds[t]
      BY <2>1, Zenon DEF CallState
    <3>2. pc[u] \in OnFd \cup Making /\ call'[u] = call[u]
      BY <2>1, Zenon
    <3>3. CASE pc[u] \in OnFd
      <4>1. <<call[u].fd, call[u].s>> \in holds[u]
        BY <3>3, Zenon DEF IInv, CallState
      <4> QED
        BY <3>1, <3>2, <4>1 DEF IInv, Descriptors
    <3>4. CASE pc[u] \in Making
      <4>1. \A h \in holds[t] : h[2] # call[u].s
        BY <3>4, ZenonT(30) DEF IInv, CallState
      <4> QED
        BY <3>1, <3>2, <4>1, Zenon
    <3> QED
      BY <3>2, <3>3, <3>4, Zenon
  <2>2. ASSUME NEW u \in Threads \ {t}, NEW v \in Threads \ {t}, pc'[u] \in OnFd \cup Making,
               pc'[v] \in OnFd \cup Making, call'[u].s = call'[v].s
        PROVE  u = v
    BY <2>2, Zenon DEF IInv, Distinct
  <2> QED
    BY <2>1, <2>2, ZenonT(30) DEF Distinct
<1>6. ASSUME NEW u \in Threads \ {t} PROVE CallState(u)' /\ LwState(u)'
  <2>1. pc'[u] = pc[u] /\ call'[u] = call[u] /\ CallState(u) /\ LwState(u)
    BY Zenon DEF IInv
  <2>2. CallState(u)'
    BY <2>1, ZenonT(30) DEF CallState
  <2>3. Routed(u) => compat_sock'[call[u].fd] = compat_sock[call[u].fd]
    <3>1. pc[t] = "stack" /\ pc[u] = "stack" => call[u].fd # call[t].fd /\ call[u].fd \in Fds
      BY Apart, Zenon DEF OnFd
    <3> QED
      BY <3>1, Zenon DEF Routed
  <2> QED
    BY <2>1, <2>2, <2>3 DEF LwState, Routed, Drained
<1>7. RelayState'
  BY DEF IInv, RelayState, Drained
<1>8. \A fd \in Fds : Leaving(fd) \subseteq Leaving(fd)' /\ (Routing => Leaving(fd)' = Leaving(fd))
  BY ZenonT(30) DEF Leaving
<1>9. open_mask \subseteq Fds
  BY Zenon DEF IInv, TypeOK
<1>10. Table'
  BY <1>8, <1>9 DEF IInv, Table, Routing
<1>11. Untracked'
  BY Zenon DEF IInv, Untracked, Routing, Making
<1>12. Reachable'
  BY <1>8, <1>9 DEF IInv, Reachable, Closer, Routing
<1> QED
  BY <1>1, <1>2, <1>3, <1>4, <1>5, <1>6, <1>7, <1>10, <1>11, <1>12, Zenon DEF IInv

\* Where a call is on its way, it is active; a call that returns leaves nothing behind.
LEMMA ReturnKeeps ==
  ASSUME IInv, NEW t \in Threads, Return(t), pc[t] \in {"foreign", "stack", "bridge", "promote"},
         UNCHANGED <<native, lw, accepting_sockets, tables, ftp_restart_mask, probeVars,
                     relays, holds, workVars, madeVars>>
  PROVE  IInv'
<1> USE DEF tables, workVars, madeVars
<1>1. /\ pc' \in [Threads -> Places] /\ call' \in [Threads -> CallRec]
      /\ pc'[t] = "idle" /\ call'[t] = NoCall
      /\ \A u \in Threads \ {t} : pc'[u] = pc[u] /\ call'[u] = call[u]
  BY ThreadStep, NoCallFacts, Zenon DEF Return, Goto, Places, IInv
<1>2. TypeOK'
  BY <1>1, Zenon DEF IInv, TypeOK, CallRec, probeVars
<1>3. CallState(t)' /\ LwState(t)'
  BY <1>1, Zenon DEF CallState, LwState, Routed, OnFd, Making, HasLw
<1>4. call'[t].s <= made
  <2>1. call'[t].s = 0 /\ made \in Nat
    BY <1>1, NoCallFacts, ShimAssumption DEF IInv, TypeOK
  <2> QED
    BY <2>1
<1>5. \A f \in open_mask : Routing => compat_sock'[f] \in {0, native[f]}
  BY Zenon DEF IInv, Table
<1>6. Active(t)
  BY Zenon DEF Active
<1> QED
  BY <1>1, <1>2, <1>3, <1>4, <1>5, <1>6, MoveKeeps, Zenon DEF Making

\* A call on a tracked descriptor, of the thread that holds it.
LEMMA TrackedFacts ==
  ASSUME IInv, NEW t \in Threads, NEW fd \in open_mask, NEW s \in Serials, pc[t] = "idle",
         <<fd, s>> \in holds[t], Routing
  PROVE  /\ mapped_fd[fd] \in LwFds /\ lw[mapped_fd[fd]] = s
         /\ compat_sock[fd] \in {0, s} /\ \A r \in relays : r[2] # s
<1>1. native[fd] = s /\ fd \in Fds
  BY DEF IInv, Descriptors, TypeOK
<1>2. Leaving(fd) = {}
  <2> SUFFICES ASSUME NEW u \in Leaving(fd) PROVE FALSE
    BY Zenon
  <2>1. u \in Threads /\ u # t /\ call[u].fd = fd /\ pc[u] \in OnFd
    BY Zenon DEF Leaving, OnFd
  <2>2. <<fd, call[u].s>> \in holds[u]
    BY <2>1, Zenon DEF IInv, CallState
  <2>3. call[u].s = s
    BY <1>1, <2>1, Apart, Zenon
  <2> QED
    BY <2>1, <2>2, <2>3, Zenon DEF IInv, Descriptors
<1> QED
  BY <1>1, <1>2, Zenon DEF IInv, Table

\* Which stack serves a call is decided.
LEMMA DecideKeeps ==
  ASSUME IInv, NEW t \in Threads, NEW fd \in Fds, NEW s \in Serials, NEW op \in AllCalls,
         NEW foreign \in BOOLEAN, Decide(t, fd, s, op, foreign),
         foreign /\ Routing => fd \notin open_mask,
         ~foreign => fd \in open_mask /\ (op # "select" => accepting_sockets)
  PROVE  IInv'
<1> USE DEF tables, workVars, madeVars
<1> DEFINE c == FdCall(op, fd, s, accepting_sockets)
<1>1. s \in 0 .. MaxSockets /\ accepting_sockets \in BOOLEAN /\ MaxSockets \in Nat
  BY ShimAssumption DEF Serials, IInv, TypeOK
<1>2. /\ c \in CallRec /\ c.op = op /\ c.fd = fd /\ c.s = s /\ c.accepted = accepting_sockets
  <2> DEFINE Right(a) == LET x == FdCall(op, fd, s, a)
                         IN  x \in CallRec /\ x.op = op /\ x.fd = fd /\ x.s = s /\ x.accepted = a
  <2>1. \A a \in BOOLEAN : Right(a)
    BY <1>1, FdCallFacts
  <2>2. Right(accepting_sockets)
    <3> HIDE DEF Right
    <3> QED
      BY <1>1, <2>1, Zenon
  <2> QED
    BY <2>2, Zenon
<1>3. /\ call' = [call EXCEPT ![t] = c]
      /\ pc' = [pc EXCEPT ![t] = IF foreign THEN "foreign" ELSE "stack"]
  BY Zenon DEF Decide, Goto, FdCall
<1> HIDE DEF c
<1>4. /\ pc' \in [Threads -> Places] /\ call' \in [Threads -> CallRec]
      /\ pc'[t] = (IF foreign THEN "foreign" ELSE "stack") /\ call'[t] = c
      /\ \A u \in Threads \ {t} : pc'[u] = pc[u] /\ call'[u] = call[u]
  BY <1>2, <1>3, ThreadStep, Zenon DEF Places, IInv
<1>5. /\ pc[t] = "idle" /\ <<fd, s>> \in holds[t]
      /\ UNCHANGED <<native, lw, accepting_sockets, tables, ftp_restart_mask, probeVars, relays,
                     holds, workVars, madeVars>>
  BY Zenon DEF Decide, At
<1>6. TypeOK'
  BY <1>4, <1>5, Zenon DEF IInv, TypeOK, CallRec, probeVars
<1>7. CallState(t)'
  BY <1>2, <1>4, <1>5, Zenon DEF CallState, OnFd, Making
<1>8. LwState(t)'
  <2>1. CASE foreign
    BY <1>4, <2>1, Zenon DEF LwState, Routed, HasLw
  <2>2. CASE ~foreign /\ ~accepting_sockets
    BY <1>2, <1>4, <2>2, Zenon DEF LwState, Routed, HasLw
  <2>3. CASE ~foreign /\ accepting_sockets
    <3>1. /\ mapped_fd[fd] \in LwFds /\ lw[mapped_fd[fd]] = s
          /\ compat_sock[fd] \in {0, s} /\ \A r \in relays : r[2] # s
      BY <1>5, <2>3, TrackedFacts, Zenon DEF IInv, Modes
    <3> QED
      BY <1>2, <1>4, <1>5, <2>3, <3>1, Zenon DEF LwState, Routed, HasLw, Drained
  <2> QED
    BY <2>1, <2>2, <2>3, Zenon
<1>9. native[fd] = s /\ s <= made
  BY <1>5, Zenon DEF IInv, Descriptors, Numbered
<1>10. ASSUME "alone" \in calls, ~foreign, op = "accept", NEW r \in relays
       PROVE  lw[r[1]] = r[2] /\ \A f \in open_mask \cup drained : mapped_fd[f] # r[1]
  <2>1. accepting_sockets /\ Routing /\ wpc # "drain" /\ drained = {}
    BY <1>10, Zenon DEF IInv, Modes, Routing
  <2>2. lw[r[1]] = r[2]
    BY <2>1, Zenon DEF IInv, RelayState, Drained
  <2>3. \A f \in Fds : Leaving(f) = {}
    <3>1. \A u \in Threads : pc[u] # "idle" => u = t
      BY <1>5, <1>10, Zenon DEF IInv, OneAtATime, Active
    <3> QED
      BY <1>5, <3>1, Zenon DEF Leaving
  <2>4. ASSUME NEW f \in open_mask PROVE mapped_fd[f] # r[1]
    <3>1. f \in Fds
      BY Zenon DEF IInv, TypeOK
    <3> QED
      BY <2>1, <2>2, <2>3, <3>1 DEF IInv, Table
  <2> QED
    BY <2>1, <2>2, <2>4, Zenon
<1>11. \A f \in open_mask : Routing => compat_sock'[f] \in {0, native[f]}
  BY <1>5, Zenon DEF IInv, Table
<1>12. accepting_sockets \/ ~Routing \/ pc'[t] \in {"idle", "foreign", "release"}
  BY <1>4, Zenon DEF IInv, Modes
<1>13. Active(t)
  BY <1>5, Zenon DEF Active
<1> QED
  BY <1>2, <1>4, <1>5, <1>6, <1>7, <1>8, <1>9, <1>10, <1>11, <1>12, <1>13, MoveKeeps,
    Zenon
     DEF Making

\* The two ways in which a call begins.
LEMMA EnterKeeps ==
  ASSUME IInv, NEW t \in Threads, NEW fd \in Fds, NEW s \in Serials, NEW op \in AllCalls,
         Enter(t, fd, s, op) \/ Select(t, fd, s)
  PROVE  IInv'
<1>1. Routing /\ ~accepting_sockets => open_mask = {}
  BY Zenon DEF IInv, Modes
<1>2. CASE Enter(t, fd, s, op)
  BY <1>1, <1>2, DecideKeeps, Zenon DEF Enter, is_foreign
<1>3. CASE Select(t, fd, s)
  <2>1. "select" \in AllCalls
    BY Zenon DEF AllCalls
  <2>2. Decide(t, fd, s, "select", fd \notin open_mask)
    BY <1>3, Zenon DEF Select
  <2> QED
    BY <2>1, <2>2, DecideKeeps, Zenon
<1> QED
  BY <1>2, <1>3, Zenon

\* Calls that nothing outlasts.
LEMMA UseKeeps ==
  ASSUME IInv, NEW t \in Threads,
         UseNative(t) \/ UseStack(t) \/ StackFails(t) \/ SetupFails(t)
  PROVE  IInv'
<1>1. Return(t) /\ pc[t] \in {"foreign", "stack", "bridge", "promote"}
  BY Zenon DEF UseNative, UseStack, StackFails, SetupFails, At
<1>2. UNCHANGED <<native, lw, accepting_sockets, tables, ftp_restart_mask, probeVars,
                  relays, holds, workVars, madeVars>>
  BY Zenon DEF UseNative, UseStack, StackFails, SetupFails
<1> QED
  BY <1>1, <1>2, ReturnKeeps, Zenon

\* An option is remembered for the descriptor's own socket.
LEMMA SetOptionKeeps ==
  ASSUME IInv, NEW t \in Threads, SetOption(t)
  PROVE  IInv'
<1> USE DEF workVars, madeVars
<1>1. /\ pc' \in [Threads -> Places] /\ call' \in [Threads -> CallRec]
      /\ pc'[t] = "idle" /\ call'[t] = NoCall
      /\ \A u \in Threads \ {t} : pc'[u] = pc[u] /\ call'[u] = call[u]
  BY ThreadStep, NoCallFacts, Zenon DEF SetOption, Return, Goto, Places, IInv
<1>2. /\ pc[t] = "stack" /\ compat_sock' = [compat_sock EXCEPT ![call[t].fd] = call[t].s]
      /\ UNCHANGED <<native, lw, accepting_sockets, open_mask, mapped_fd, ftp_restart_mask,
                     probeVars, relays, holds, workVars, madeVars>>
  BY Zenon DEF SetOption, At
<1>3. call[t].fd \in Fds /\ call[t].s \in Serials /\ native[call[t].fd] = call[t].s
  BY <1>2, Apart, Zenon DEF OnFd
<1>4. /\ compat_sock' \in [Fds -> 0 .. MaxSockets]
      /\ \A f \in Fds : compat_sock'[f] = IF f = call[t].fd THEN call[t].s ELSE compat_sock[f]
  BY <1>2, <1>3, Zenon DEF IInv, TypeOK, Serials
<1>5. TypeOK'
  BY <1>1, <1>2, <1>4, Zenon DEF IInv, TypeOK, CallRec, probeVars
<1>6. CallState(t)' /\ LwState(t)'
  BY <1>1, Zenon DEF CallState, LwState, Routed, OnFd, Making, HasLw
<1>7. call'[t].s <= made
  <2>1. call'[t].s = 0 /\ made \in Nat
    BY <1>1, NoCallFacts, ShimAssumption DEF IInv, TypeOK
  <2> QED
    BY <2>1
<1>8. \A f \in open_mask : Routing => compat_sock'[f] \in {0, native[f]}
  BY <1>3, <1>4, Zenon DEF IInv, Table, TypeOK
<1>9. Active(t)
  BY <1>2, Zenon DEF Active
<1> QED
  BY <1>1, <1>2, <1>4, <1>5, <1>6, <1>7, <1>8, <1>9, MoveKeeps, Zenon DEF Making

\* socketclose of a foreign descriptor.
LEMMA CloseForeignKeeps ==
  ASSUME IInv, NEW t \in Threads, CloseForeign(t)
  PROVE  IInv'
<1> USE DEF tables, workVars, madeVars
<1>1. /\ pc[t] = "foreign" /\ pc' \in [Threads -> Places] /\ pc'[t] = "release" /\ call' = call
      /\ \A u \in Threads \ {t} : pc'[u] = pc[u]
  BY Zenon DEF CloseForeign, At, Goto, Places, IInv, TypeOK
<1>2. UNCHANGED <<native, lw, accepting_sockets, tables, probeVars, relays, holds, workVars,
                  madeVars>>
  BY Zenon DEF CloseForeign
<1>3. TypeOK'
  BY <1>1, <1>2, Zenon DEF CloseForeign, IInv, TypeOK, probeVars
<1>4. CallState(t)' /\ LwState(t)'
  BY <1>1, <1>2, Zenon DEF IInv, CallState, LwState, Routed, OnFd, Making, HasLw
<1>5. call'[t].s <= made
  BY <1>1, Zenon DEF IInv, Numbered
<1>6. \A f \in open_mask : Routing => compat_sock'[f] \in {0, native[f]}
  BY <1>2, Zenon DEF IInv, Table
<1>7. Routing => call'[t].fd \notin open_mask
  BY <1>1, Zenon DEF IInv, Untracked
<1>8. Active(t)
  BY <1>1, Zenon DEF Active
<1> QED
  BY <1>1, <1>2, <1>3, <1>4, <1>5, <1>6, <1>7, <1>8, MoveKeeps, Zenon DEF Making

\* A lwIP socket that is not open any more: the drain has closed it.
LEMMA CloseStackFailsKeeps ==
  ASSUME IInv, NEW t \in Threads, CloseStackFails(t)
  PROVE  IInv'
<1> USE DEF tables, workVars, madeVars
<1>1. /\ pc[t] = "stack" /\ call[t].op \in {"close", "bind"} /\ ~LwOpen(mapped_fd[call[t].fd])
      /\ UNCHANGED <<native, lw, accepting_sockets, tables, ftp_restart_mask, probeVars,
                     relays, holds, workVars, madeVars>>
  BY Zenon DEF CloseStackFails, At
<1>2. CASE call[t].op = "close"
  BY <1>1, <1>2, ReturnKeeps, Zenon DEF CloseStackFails
<1>3. CASE call[t].op # "close"
  <2>1. /\ pc' \in [Threads -> Places] /\ pc'[t] = "untrack" /\ call' = call
        /\ \A u \in Threads \ {t} : pc'[u] = pc[u]
    BY <1>3, Zenon DEF CloseStackFails, Goto, Places, IInv, TypeOK
  <2>2. ~Routing
    <3>1. Routed(t) /\ call[t].s # 0
      BY <1>1, Apart, Zenon DEF Routed, OnFd
    <3> QED
      BY <1>1, <3>1, Zenon DEF IInv, LwState, Drained, LwOpen, Routing
  <2>3. TypeOK'
    BY <1>1, <2>1, Zenon DEF IInv, TypeOK, probeVars
  <2>4. CallState(t)' /\ LwState(t)'
    BY <1>1, <2>1, Zenon DEF IInv, CallState, LwState, Routed, OnFd, Making, HasLw
  <2>5. call'[t].s <= made
    BY <2>1, Zenon DEF IInv, Numbered
  <2>6. Active(t)
    BY <1>1, Zenon DEF Active
  <2> QED
    BY <1>1, <2>1, <2>2, <2>3, <2>4, <2>5, <2>6, MoveKeeps, Zenon DEF Making
<1> QED
  BY <1>2, <1>3, Zenon

\* NSSLCreateConnection reads which lwIP socket is behind the descriptor.
LEMMA ReadBackingKeeps ==
  ASSUME IInv, NEW t \in Threads, ReadBacking(t)
  PROVE  IInv'
<1> USE DEF tables, workVars, madeVars
<1>1. /\ pc[t] = "stack" /\ call[t].op \in {"bridge", "promote"} /\ mapped_fd[call[t].fd] # NoFd
      /\ UNCHANGED <<native, lw, accepting_sockets, tables, ftp_restart_mask, probeVars,
                     relays, holds, workVars, madeVars>>
  BY Zenon DEF ReadBacking, At
<1>2. call[t].fd \in Fds /\ call[t].s # 0
  BY <1>1, Apart, Zenon DEF OnFd
<1> DEFINE l == mapped_fd[call[t].fd]
           c == [call[t] EXCEPT !.lwfd = l]
<1>3. l \in LwFds /\ call[t] \in CallRec
  BY <1>1, <1>2, Zenon DEF IInv, TypeOK, CallRec
<1>4. /\ c \in CallRec /\ c.lwfd = l /\ c.op = call[t].op /\ c.s = call[t].s
      /\ c.fd = call[t].fd
  BY <1>3, CallFacts, Zenon
<1>5. call' = [call EXCEPT ![t] = c] /\ pc' = [pc EXCEPT ![t] = call[t].op]
  BY Zenon DEF ReadBacking, Goto
<1> HIDE DEF c
<1>6. /\ pc' \in [Threads -> Places] /\ call' \in [Threads -> CallRec]
      /\ pc'[t] = call[t].op /\ call'[t] = c
      /\ \A u \in Threads \ {t} : pc'[u] = pc[u] /\ call'[u] = call[u]
  <2>1. call[t].op \in Places
    BY <1>1, Zenon DEF Places
  <2> QED
    BY <1>4, <1>5, <2>1, ThreadStep, Zenon DEF IInv
<1>7. TypeOK'
  BY <1>1, <1>6, Zenon DEF IInv, TypeOK, CallRec, probeVars
<1>8. CallState(t)'
  BY <1>1, <1>4, <1>6, Zenon DEF IInv, CallState, OnFd, Making
<1>9. LwState(t)'
  <2>1. /\ lw[l] \in {call[t].s} \cup Drained /\ \A r \in relays : r[2] # call[t].s
    BY <1>1, <1>3, Zenon DEF IInv, LwState, Routed
  <2> QED
    BY <1>1, <1>3, <1>4, <1>6, <2>1, Zenon DEF LwState, Routed, Drained
<1>10. call'[t].s <= made
  BY <1>4, <1>6, Zenon DEF IInv, Numbered
<1>11. \A f \in open_mask : Routing => compat_sock'[f] \in {0, native[f]}
  BY <1>1, Zenon DEF IInv, Table
<1>12. accepting_sockets \/ ~Routing
  BY <1>1, Zenon DEF IInv, Modes
<1>13. Active(t)
  BY <1>1, Zenon DEF Active
<1> QED
  BY <1>1, <1>4, <1>6, <1>7, <1>8, <1>9, <1>10, <1>11, <1>12, <1>13, MoveKeeps, Zenon
     DEF Making

-------------------------------------------------------------------------------
(* Steps that make a socket.                                                 *)

\* What another thread's call relies on is left alone, or closed by the drain.
LEMMA LwKeeps ==
  ASSUME IInv, NEW u \in Threads, pc'[u] = pc[u], call'[u] = call[u], wpc' = wpc,
         pc[u] \in HasLw \cup {"stack"} =>
           \A l \in LwFds :
             lw[l] = call[u].s => lw'[l] = lw[l] \/ (wpc = "drain" /\ lw'[l] = 0),
         pc[u] \in HasLw \cup {"stack"} /\ wpc = "drain" =>
           \A l \in LwFds : lw[l] = 0 => lw'[l] = 0,
         pc[u] \in {"stack", "bridge", "promote"} =>
           /\ mapped_fd'[call[u].fd] = mapped_fd[call[u].fd]
           /\ compat_sock'[call[u].fd] = compat_sock[call[u].fd],
         pc[u] \in HasLw \cup {"stack"} => \A r \in relays' : r \in relays \/ r[2] # call[u].s
  PROVE  LwState(u)'
<1>1. LwState(u)
  BY Zenon DEF IInv
<1> QED
  BY <1>1 DEF LwState, Routed, HasLw, Drained

\* The entries that stay tracked and keep their lwIP sockets are still right.
LEMMA TableKeeps ==
  ASSUME Table, Routing' => Routing, relays' \subseteq relays,
         Routing' => \A f \in open_mask' :
           /\ f \in open_mask /\ native'[f] = native[f]
           /\ compat_sock'[f] = compat_sock[f] /\ mapped_fd'[f] = mapped_fd[f]
           /\ Leaving(f)' = {} => Leaving(f) = {} /\ lw'[mapped_fd[f]] = lw[mapped_fd[f]]
  PROVE  Table'
<1> SUFFICES ASSUME Routing', NEW f \in open_mask'
             PROVE  /\ native'[f] # 0
                    /\ compat_sock'[f] \in {0, native'[f]}
                    /\ Leaving(f)' = {} =>
                         /\ mapped_fd'[f] \in LwFds /\ lw'[mapped_fd'[f]] = native'[f]
                         /\ \A r \in relays' : r[2] # native'[f]
  BY Zenon DEF Table
<1>1. /\ native[f] # 0 /\ compat_sock[f] \in {0, native[f]}
      /\ Leaving(f) = {} => /\ mapped_fd[f] \in LwFds /\ lw[mapped_fd[f]] = native[f]
                            /\ \A r \in relays : r[2] # native[f]
  BY Zenon DEF Table
<1> QED
  BY <1>1, Zenon

\* The relays keep their sockets, and no call comes to threaten them.
LEMMA RelayKeeps ==
  ASSUME RelayState, relays' = relays, mapped_fd' = mapped_fd, calls' = calls,
         open_mask' \cup drained' \subseteq open_mask \cup drained,
         \A r \in relays : lw'[r[1]] \in {r[2]} \cup Drained',
         \A u \in Threads : pc'[u] = "closing" =>
           \/ pc[u] = "closing" /\ call'[u] = call[u]
           \/ \A f \in call'[u].mask, r \in relays : mapped_fd[f] # r[1],
         \A u \in Threads : "alone" \in calls /\ pc'[u] = "stack" =>
           /\ pc[u] = "stack" /\ call'[u] = call[u]
           /\ \A r \in relays : lw'[r[1]] = lw[r[1]]
  PROVE  RelayState'
<1>1. ASSUME NEW u \in Threads, pc'[u] = "closing"
      PROVE  \A f \in call'[u].mask, r \in relays' : mapped_fd'[f] # r[1]
  <2>1. CASE pc[u] = "closing" /\ call'[u] = call[u]
    BY <2>1, ZenonT(30) DEF RelayState
  <2>2. CASE \A f \in call'[u].mask, r \in relays : mapped_fd[f] # r[1]
    BY <2>2, Zenon
  <2> QED
    BY <1>1, <2>1, <2>2, Zenon
<1>2. ASSUME NEW u \in Threads, "alone" \in calls', pc'[u] = "stack", call'[u].op = "accept"
      PROVE  \A r \in relays' :
               lw'[r[1]] = r[2] /\ \A f \in open_mask' \cup drained' : mapped_fd'[f] # r[1]
  BY <1>2, ZenonT(30) DEF RelayState
<1> QED
  BY <1>1, <1>2, Zenon DEF RelayState

\* The socket of a call that moves on stays that of no other call.
LEMMA DistinctKeeps ==
  ASSUME IInv, NEW t \in Threads,
         \A u \in Threads \ {t} : pc'[u] = pc[u] /\ call'[u] = call[u],
         \A u \in Threads \ {t} :
           pc[u] \in OnFd \cup Making /\ pc'[t] \in OnFd \cup Making => call[u].s # call'[t].s
  PROVE  Distinct'
<1>1. ASSUME NEW u \in Threads \ {t}, NEW v \in Threads \ {t}, pc'[u] \in OnFd \cup Making,
             pc'[v] \in OnFd \cup Making, call'[u].s = call'[v].s
      PROVE  u = v
  BY <1>1, Zenon DEF IInv, Distinct
<1>2. ASSUME NEW u \in Threads \ {t}, pc'[t] \in OnFd \cup Making, pc'[u] \in OnFd \cup Making
      PROVE  call'[t].s # call'[u].s
  BY <1>2, Zenon
<1> QED
  BY <1>1, <1>2, Zenon DEF Distinct

\* A socket that nobody closed keeps somebody who will.
LEMMA CloserKeeps ==
  ASSUME IInv, Routing' => Routing,
         \A x \in LwFds : lw'[x] # 0 => lw'[x] = lw[x],
         \A x \in LwFds : \A f \in open_mask :
           Leaving(f) = {} /\ mapped_fd[f] = x =>
             \/ lw'[x] = 0 \/ Closer(x)'
             \/ f \in open_mask' /\ Leaving(f)' = {} /\ mapped_fd'[f] = x,
         \A x \in LwFds : \A u \in Threads :
           pc[u] \in {"placeholder", "track", "promoted"} /\ call[u].lwfd = x =>
             \/ lw'[x] = 0 \/ Closer(x)'
             \/ pc'[u] \in {"placeholder", "track", "promoted"} /\ call'[u].lwfd = x,
         \A u \in Threads : pc[u] = "closing" => \A f \in call[u].mask :
           \/ mapped_fd[f] \notin LwFds \/ lw'[mapped_fd[f]] = 0
           \/ pc'[u] = "closing" /\ f \in call'[u].mask /\ mapped_fd'[f] = mapped_fd[f],
         \A r \in relays : r \in relays' \/ lw'[r[1]] = 0
  PROVE  Reachable'
<1> SUFFICES ASSUME Routing', NEW x \in LwFds, lw'[x] # 0 PROVE Closer(x)'
  BY Zenon DEF Reachable
<1>1. Closer(x) /\ lw'[x] = lw[x]
  BY Zenon DEF IInv, Reachable
<1>2. CASE \E f \in open_mask : Leaving(f) = {} /\ mapped_fd[f] = x
  BY <1>2, Zenon DEF Closer
<1>3. CASE \E u \in Threads : pc[u] \in {"placeholder", "track", "promoted"} /\ call[u].lwfd = x
  BY <1>3, Zenon DEF Closer
<1>4. CASE \E u \in Threads : pc[u] = "closing" /\ \E f \in call[u].mask : mapped_fd[f] = x
  BY <1>4 DEF Closer
<1>5. CASE <<x, lw[x]>> \in relays
  <2>1. <<x, lw[x]>> \in relays'
    BY <1>5, Zenon
  <2> QED
    BY <1>1, <2>1, Zenon DEF Closer
<1> QED
  BY <1>1, <1>2, <1>3, <1>4, <1>5, Zenon DEF Closer

\* socket() goes to nsysnet.
LEMMA SocketNativeKeeps ==
  ASSUME IInv, NEW t \in Threads, NEW fd \in Fds, NEW ftp \in BOOLEAN, SocketNative(t, fd, ftp)
  PROVE  IInv'
<1> USE DEF tables, workVars, probeVars
<1>1. /\ native[fd] = 0 /\ made' = made + 1 /\ made < MaxSockets /\ Able(t)
      /\ UNCHANGED <<lw, accepting_sockets, tables, ftp_restart_mask, probeVars, relays, pc,
                     call, workVars, calls>>
  BY Zenon DEF SocketNative
<1>2. /\ made \in Nat /\ MaxSockets \in Nat
      /\ made' \in Serials /\ made' # 0 /\ made' \in 0 .. MaxSockets
  BY <1>1, ShimAssumption DEF IInv, TypeOK, Serials
<1>3. /\ native' \in [Fds -> 0 .. MaxSockets]
      /\ \A f \in Fds : native'[f] = IF f = fd THEN made' ELSE native[f]
  BY <1>2, Zenon DEF SocketNative, IInv, TypeOK
<1>4. /\ holds' \in [Threads -> SUBSET (Fds \X Serials)]
      /\ holds'[t] = holds[t] \cup {<<fd, made'>>}
      /\ \A u \in Threads \ {t} : holds'[u] = holds[u]
  BY <1>2 DEF SocketNative, IInv, TypeOK
<1>5. TypeOK'
  <2>1. listeners' \subseteq Serials /\ axMade' = axMade
    BY <1>2, ZenonT(30) DEF SocketNative, IInv, TypeOK
  <2> QED
    BY <1>1, <1>2, <1>3, <1>4, <2>1, Zenon DEF IInv, TypeOK
<1>6. Numbered'
  <2>1. \A n \in Nat : n <= made => n <= made'
    BY <1>1, <1>2
  <2>2. /\ \A f \in Fds : native[f] \in Nat
        /\ \A l \in LwFds : lw[l] \in Nat
        /\ \A u \in Threads : call[u].s \in Nat
        /\ \A r \in relays : r[2] \in Nat
    BY <1>2 DEF IInv, TypeOK, Serials
  <2> QED
    BY <1>1, <1>2, <1>3, <2>1, <2>2 DEF IInv, Numbered
<1>7. /\ \A f \in Fds : native[f] # made'
      /\ \A u \in Threads : call[u].s # made'
  BY <1>1, <1>2 DEF IInv, Numbered, TypeOK
<1>8. OneAtATime'
  <2>1. \A u \in Threads \ {t} : Active(u)' => Active(u)
    BY <1>1, <1>4, Zenon DEF Active
  <2>2. "alone" \in calls => \A u \in Threads \ {t} : ~Active(u)
    BY <1>1, Zenon DEF Able, Active
  <2> QED
    BY <1>1, <2>1, <2>2, Zenon DEF IInv, OneAtATime
<1>9. Modes'
  BY <1>1, Zenon DEF IInv, Modes, Routing
<1>10. \A u \in Threads : \A h \in holds[u] : h[1] # fd /\ h[2] # made' /\ h[1] \in Fds
  <2>1. \A u \in Threads : \A h \in holds[u] :
          h[1] \in Fds /\ h[2] \in Serials /\ native[h[1]] = h[2]
    BY DEF IInv, Descriptors, TypeOK
  <2>2. 0 \notin Serials
    BY <1>2 DEF Serials
  <2> QED
    BY <1>1, <1>7, <2>1, <2>2, Zenon
<1>11. Descriptors'
  <2>1. \A f, g \in Fds : native'[f] = native'[g] /\ native'[f] # 0 => f = g
    BY <1>3, <1>7, Zenon DEF IInv, Descriptors
  <2>2. \A u \in Threads : \A h \in holds'[u] : h \in holds[u] \/ (u = t /\ h = <<fd, made'>>)
    BY <1>4, Zenon
  <2>3. \A u \in Threads : \A h \in holds'[u] : native'[h[1]] = h[2]
    <3>1. \A u \in Threads : \A h \in holds[u] : native[h[1]] = h[2]
      BY ZenonT(30) DEF IInv, Descriptors
    <3> QED
      BY <1>3, <1>10, <2>2, <3>1
  <2>4. \A u, v \in Threads : \A h \in holds'[u], k \in holds'[v] : h[2] = k[2] => u = v
    BY <1>10, <2>2 DEF IInv, Descriptors
  <2> QED
    BY <2>1, <2>3, <2>4, Zenon DEF Descriptors
<1>12. Distinct'
  BY <1>1, Zenon DEF IInv, Distinct
<1>13. ASSUME NEW u \in Threads PROVE CallState(u)' /\ LwState(u)'
  <2>1. pc'[u] = pc[u] /\ call'[u] = call[u] /\ CallState(u) /\ LwState(u)
    BY <1>1, Zenon DEF IInv
  <2>2. LwState(u)'
    BY <1>1, <2>1, Zenon DEF LwState, Routed, Drained
  <2>3. \A v \in Threads : \A h \in holds'[v] : h \in holds[v] \/ h[2] = made'
    BY <1>4
  <2>4. pc[u] = "track" => call[u].fd # fd
    BY <1>1, Apart, Zenon
  <2>5. holds[u] \subseteq holds'[u]
    BY <1>4, Zenon
  <2> QED
    BY <1>3, <1>7, <2>1, <2>2, <2>3, <2>4, <2>5, Zenon DEF CallState
<1>14. RelayState'
  BY <1>1 DEF IInv, RelayState, Drained
<1>15. Table'
  BY <1>1, <1>3 DEF IInv, Table, Routing, Leaving, TypeOK
<1>16. Untracked' /\ Reachable'
  BY <1>1, ZenonT(30) DEF IInv, Untracked, Reachable, Closer, Routing, Leaving
<1> QED
  BY <1>1, <1>5, <1>6, <1>8, <1>9, <1>11, <1>12, <1>13, <1>14, <1>15, <1>16, Zenon
    DEF IInv

\* socket() and accept() get a new socket of lwIP.
LEMMA LwNewKeeps ==
  ASSUME IInv, NEW t \in Threads, NEW l \in LwFds, NEW op \in {"socket", "accept"},
         LwNew(t, op, l), Active(t) \/ Able(t),
         (pc[t] = "idle" /\ accepting_sockets) \/ (pc[t] = "stack" /\ call[t].op = "accept")
  PROVE  IInv'
<1> USE DEF tables, workVars, probeVars
<1>1. /\ lw[l] = 0 /\ made' = made + 1 /\ made < MaxSockets
      /\ UNCHANGED <<native, accepting_sockets, tables, ftp_restart_mask, probeVars, relays,
                     holds, workVars, calls, listeners>>
  BY Zenon DEF LwNew
<1>2. /\ made \in Nat /\ MaxSockets \in Nat
      /\ made' \in Serials /\ made' # 0 /\ made' \in 0 .. MaxSockets
  BY <1>1, ShimAssumption DEF IInv, TypeOK, Serials
<1>3. /\ lw' \in [LwFds -> 0 .. MaxSockets]
      /\ \A x \in LwFds : lw'[x] = IF x = l THEN made' ELSE lw[x]
  BY <1>2, Zenon DEF LwNew, IInv, TypeOK
<1> DEFINE c == LwCall(op, made', l)
<1>4. c \in CallRec /\ c.op = op /\ c.s = made' /\ c.lwfd = l
  <2>1. op \in AllCalls \cup {"socket"}
    BY Zenon DEF AllCalls
  <2> QED
    BY <1>2, <2>1, LwCallFacts
<1>5. call' = [call EXCEPT ![t] = c] /\ pc' = [pc EXCEPT ![t] = "placeholder"]
  BY Zenon DEF LwNew, Goto, LwCall
<1> HIDE DEF c
<1>6. /\ pc' \in [Threads -> Places] /\ call' \in [Threads -> CallRec]
      /\ pc'[t] = "placeholder" /\ call'[t] = c
      /\ \A u \in Threads \ {t} : pc'[u] = pc[u] /\ call'[u] = call[u]
  BY <1>4, <1>5, ThreadStep, Zenon DEF Places, IInv
<1>7. TypeOK'
  <2>1. axMade' \subseteq Serials
    BY <1>2, Zenon DEF LwNew, IInv, TypeOK
  <2> QED
    BY <1>1, <1>2, <1>3, <1>6, <2>1, Zenon DEF IInv, TypeOK, CallRec
<1>8. /\ \A f \in Fds : native[f] \in Nat /\ native[f] <= made
      /\ \A x \in LwFds : lw[x] \in Nat /\ lw[x] <= made
      /\ \A u \in Threads : call[u].s \in Nat /\ call[u].s <= made
      /\ \A r \in relays : r[2] \in Nat /\ r[2] # 0 /\ r[1] \in LwFds /\ r[2] <= made
  BY <1>2 DEF IInv, TypeOK, Serials, Numbered
<1>9. \A n \in Nat : n <= made => n <= made' /\ n # made'
  BY <1>1, <1>2
<1>10. Numbered'
  BY <1>1, <1>2, <1>3, <1>4, <1>6, <1>8, <1>9 DEF Numbered
<1>11. "alone" \in calls => \A u \in Threads \ {t} : ~Active(u)
  BY Zenon DEF Able, Active, IInv, OneAtATime
<1>12. OneAtATime'
  <2>1. \A u \in Threads \ {t} : Active(u)' => Active(u)
    BY <1>1, <1>6, Zenon DEF Active
  <2> QED
    BY <1>1, <1>6, <1>11, <2>1, Zenon DEF IInv, OneAtATime
<1>13. accepting_sockets \/ ~Routing
  BY Zenon DEF IInv, Modes
<1>14. Modes'
  BY <1>1, <1>6, <1>13, Zenon DEF IInv, Modes, Routing
<1>15. Descriptors'
  BY <1>1, ZenonT(30) DEF IInv, Descriptors
<1>16. Distinct'
  <2>1. \A u \in Threads \ {t} : call'[u].s # call'[t].s
    BY <1>4, <1>6, <1>8, <1>9, Zenon
  <2> QED
    BY <1>6, <2>1 DEF IInv, Distinct
<1>17. CallState(t)'
  <2>1. \A u \in Threads : \A h \in holds[u] : h[2] # made'
    <3>1. \A u \in Threads : \A h \in holds[u] : h[1] \in Fds /\ native[h[1]] = h[2]
      BY DEF IInv, Descriptors, TypeOK
    <3> QED
      BY <1>8, <1>9, <3>1, Zenon
  <2> QED
    BY <1>1, <1>2, <1>4, <1>6, <1>8, <1>9, <2>1, ZenonT(30) DEF CallState, OnFd, Making
<1>18. LwState(t)'
  BY <1>1, <1>3, <1>4, <1>6, <1>8, <1>9, Zenon DEF LwState, Routed, HasLw
<1>19. ASSUME NEW u \in Threads \ {t} PROVE CallState(u)' /\ LwState(u)'
  <2>1. CallState(u)'
    BY <1>1, <1>6 DEF IInv, CallState
  <2>2. wpc = "drain" => pc[u] = "idle"
    BY <1>11, Zenon DEF IInv, OneAtATime, Active
  <2>3. pc[u] \in HasLw \cup {"stack"} => call[u].s # 0
    BY Apart, ZenonT(30) DEF HasLw, OnFd
  <2> QED
    BY <1>1, <1>3, <1>6, <2>1, <2>2, <2>3, LwKeeps, ZenonT(30) DEF HasLw
<1>20. RelayState'
  <2>1. \A r \in relays : lw[r[1]] = r[2]
    <3>1. CASE wpc = "drain"
      BY <3>1, Zenon DEF IInv, OneAtATime, RelayState, Modes, Routing
    <3>2. CASE wpc # "drain"
      BY <3>2, Zenon DEF IInv, RelayState, Drained
    <3> QED
      BY <3>1, <3>2, Zenon
  <2>2. \A r \in relays : lw'[r[1]] = lw[r[1]]
    BY <1>1, <1>3, <1>8, <2>1, Zenon
  <2> QED
    BY <1>1, <1>6, <2>1, <2>2 DEF IInv, RelayState
<1>21. \A f \in Fds : Leaving(f)' = Leaving(f)
  BY <1>6, Zenon DEF Leaving
<1>22. Table'
  <2>1. open_mask \subseteq Fds
    BY Zenon DEF IInv, TypeOK
  <2>2. \A x \in LwFds : lw[x] # 0 => lw'[x] = lw[x]
    BY <1>1, <1>3, Zenon
  <2>3. ASSUME Routing, NEW f \in open_mask, Leaving(f) = {}
        PROVE  /\ mapped_fd[f] \in LwFds /\ lw'[mapped_fd[f]] = native[f]
               /\ \A r \in relays : r[2] # native[f]
    <3>1. /\ native[f] # 0 /\ mapped_fd[f] \in LwFds /\ lw[mapped_fd[f]] = native[f]
          /\ \A r \in relays : r[2] # native[f]
      BY <2>3, Zenon DEF IInv, Table
    <3> QED
      BY <2>2, <3>1, Zenon
  <2>4. Routing => \A f \in open_mask : native[f] # 0 /\ compat_sock[f] \in {0, native[f]}
    BY Zenon DEF IInv, Table
  <2> QED
    BY <1>1, <1>21, <2>1, <2>3, <2>4, ZenonT(30) DEF Table, Routing
<1>23. Untracked'
  BY <1>1, <1>6, Zenon DEF IInv, Untracked, Routing
<1>24. Reachable'
  <2> SUFFICES ASSUME Routing', NEW x \in LwFds, lw'[x] # 0
               PROVE  Closer(x)'
    BY Zenon DEF Reachable
  <2>1. CASE x = l
    BY <1>4, <1>6, <2>1, Zenon DEF Closer
  <2>2. CASE x # l
    <3>1. lw[x] # 0 /\ lw'[x] = lw[x] /\ Routing
      BY <1>1, <1>3, <2>2, Zenon DEF Routing
    <3>2. open_mask \subseteq Fds
      BY Zenon DEF IInv, TypeOK
    <3>3. Closer(x)
      BY <3>1, Zenon DEF IInv, Reachable
    <3> QED
      BY <1>1, <1>6, <1>21, <3>1, <3>2, <3>3, Zenon DEF Closer
  <2> QED
    BY <2>1, <2>2, Zenon
<1> QED
  BY <1>1, <1>7, <1>10, <1>12, <1>14, <1>15, <1>16, <1>17, <1>18, <1>19, <1>20, <1>22,
    <1>23,
     <1>24, SMTT(30) DEF IInv

\* The native placeholder gets a number.
LEMMA PlaceholderKeeps ==
  ASSUME IInv, NEW t \in Threads, NEW fd \in Fds, Placeholder(t, fd)
  PROVE  IInv'
<1> USE DEF tables, workVars, probeVars, madeVars
<1>1. /\ pc[t] = "placeholder" /\ native[fd] = 0
      /\ UNCHANGED <<lw, accepting_sockets, tables, ftp_restart_mask, probeVars, relays,
                     holds, workVars, madeVars>>
  BY Zenon DEF Placeholder, At
<1>2. call[t] \in CallRec /\ call[t].s \in Serials /\ call[t].s # 0 /\ call[t].s \in 0 .. MaxSockets
  BY <1>1, Apart, Zenon DEF IInv, TypeOK, CallRec
<1>3. /\ native' \in [Fds -> 0 .. MaxSockets]
      /\ \A f \in Fds : native'[f] = IF f = fd THEN call[t].s ELSE native[f]
  BY <1>2, Zenon DEF Placeholder, IInv, TypeOK
<1> DEFINE c == [call[t] EXCEPT !.fd = fd]
<1>4. c \in CallRec /\ c.fd = fd /\ c.op = call[t].op /\ c.s = call[t].s /\ c.lwfd = call[t].lwfd
  BY <1>2, CallFacts, Zenon
<1>5. call' = [call EXCEPT ![t] = c] /\ pc' = [pc EXCEPT ![t] = "track"]
  BY Zenon DEF Placeholder, Goto
<1> HIDE DEF c
<1>6. /\ pc' \in [Threads -> Places] /\ call' \in [Threads -> CallRec]
      /\ pc'[t] = "track" /\ call'[t] = c
      /\ \A u \in Threads \ {t} : pc'[u] = pc[u] /\ call'[u] = call[u]
  BY <1>4, <1>5, ThreadStep, Zenon DEF Places, IInv
<1>7. TypeOK'
  BY <1>1, <1>3, <1>6, Zenon DEF IInv, TypeOK, CallRec
<1>8. Numbered'
  BY <1>1, <1>3, <1>4, <1>6, Zenon DEF IInv, Numbered
<1>9. OneAtATime'
  <2>1. \A u \in Threads : Active(u)' => Active(u)
    BY <1>1, <1>6, Zenon DEF Active
  <2> QED
    BY <1>1, <1>6, <2>1, Zenon DEF IInv, OneAtATime
<1>10. Modes'
  BY <1>1, <1>6, Zenon DEF IInv, Modes, Routing
<1>11. \A f \in Fds : native[f] # call[t].s
  BY <1>1, Zenon DEF IInv, CallState
<1>12. Descriptors'
  <2>1. \A f, g \in Fds : native'[f] = native'[g] /\ native'[f] # 0 => f = g
    BY <1>3, <1>11, Zenon DEF IInv, Descriptors
  <2>2. \A u \in Threads : \A h \in holds[u] : h[1] \in Fds /\ h[1] # fd
    <3>1. \A u \in Threads : \A h \in holds[u] :
            h[1] \in Fds /\ h[2] \in Serials /\ native[h[1]] = h[2]
      BY DEF IInv, Descriptors, TypeOK
    <3>2. 0 \notin Serials
      BY ShimAssumption DEF Serials
    <3> QED
      BY <1>1, <3>1, <3>2, Zenon
  <2>3. \A u \in Threads : \A h \in holds[u] : native'[h[1]] = h[2]
    BY <1>3, <2>2, Zenon DEF IInv, Descriptors
  <2> QED
    BY <1>1, <2>1, <2>3, ZenonT(30) DEF IInv, Descriptors
<1>13. \A u \in Threads \ {t} : pc[u] \in OnFd \cup Making => call[u].s # call[t].s
  BY <1>1, Apart, Zenon DEF Making
<1>14. Distinct'
  BY <1>4, <1>6, <1>13, DistinctKeeps, ZenonT(30)
<1>15. CallState(t)' /\ LwState(t)'
  <2>1. CallState(t)'
    <3>1. \A u \in Threads : \A h \in holds[u] : h[2] # call[t].s
      BY <1>1, Zenon DEF IInv, CallState, Making
    <3>2. holds' = holds /\ call'[t].s = call[t].s
      BY <1>1, <1>4, <1>6, Zenon
    <3>3. \A u \in Threads : \A h \in holds'[u] : h[2] # call'[t].s
      BY <3>1, <3>2, Zenon
    <3> QED
      BY <1>2, <1>3, <1>4, <1>6, <3>3, Zenon DEF CallState, OnFd
  <2>2. LwState(t)'
    BY <1>1, <1>4, <1>6, ZenonT(30) DEF IInv, LwState, Routed, HasLw, Drained
  <2> QED
    BY <2>1, <2>2, Zenon
<1>16. ASSUME NEW u \in Threads \ {t} PROVE CallState(u)' /\ LwState(u)'
  <2>1. pc[u] = "track" => call[u].fd # fd
    BY <1>1, Apart, Zenon
  <2>2. CallState(u)'
    <3>1. pc'[u] = pc[u] /\ call'[u] = call[u] /\ CallState(u) /\ holds' = holds
      BY <1>1, <1>6, Zenon DEF IInv
    <3>2. pc[u] = "placeholder" => \A f \in Fds : native'[f] # call[u].s
      BY <1>3, <1>13, <3>1, Zenon DEF CallState, Making
    <3> QED
      BY <1>3, <2>1, <3>1, <3>2, Zenon DEF CallState
  <2> QED
    BY <1>1, <1>6, <2>2, LwKeeps, Zenon
<1>17. RelayState'
  <2>1. \A u \in Threads :
          pc'[u] \in {"closing", "stack"} => pc'[u] = pc[u] /\ call'[u] = call[u]
    BY <1>6, Zenon
  <2>2. RelayState
    BY Zenon DEF IInv
  <2>3. \A r \in relays : lw'[r[1]] \in {r[2]} \cup Drained'
    BY <1>1, <2>2, Zenon DEF RelayState, Drained
  <2> QED
    BY <1>1, <2>1, <2>2, <2>3, RelayKeeps, Zenon
<1>18. \A f \in Fds : Leaving(f)' = Leaving(f)
  BY <1>1, <1>6, Zenon DEF Leaving
<1>19. open_mask \subseteq Fds /\ (Routing => fd \notin open_mask)
  BY <1>1, Zenon DEF IInv, TypeOK, Table
<1>20. Table'
  <2>1. Table
    BY Zenon DEF IInv
  <2>2. Routing => \A f \in open_mask : native'[f] = native[f]
    BY <1>3, <1>19, Zenon
  <2> QED
    BY <1>1, <1>18, <1>19, <2>1, <2>2, TableKeeps, Zenon DEF Routing
<1>21. Untracked'
  BY <1>1, <1>4, <1>6, <1>19, Zenon DEF IInv, Untracked, Routing
<1>22. Reachable'
  BY <1>1, <1>4, <1>6, <1>18, <1>19, CloserKeeps, Zenon DEF Routing
<1> QED
  BY <1>1, <1>7, <1>8, <1>9, <1>10, <1>12, <1>14, <1>15, <1>16, <1>17, <1>20, <1>21,
    <1>22, ZenonT(30)
     DEF IInv

\* A call closes the lwIP socket that it has in its hands and returns: there is no
\* placeholder, or the descriptor was promoted to a native one.
LEMMA GiveUpKeeps ==
  ASSUME IInv, NEW t \in Threads, NoPlaceholder(t) \/ PromoteClose(t)
  PROVE  IInv'
<1> USE DEF tables, workVars, probeVars, madeVars
<1> DEFINE l == call[t].lwfd
<1>1. /\ pc[t] \in {"placeholder", "promoted"} /\ lwip_close(l) /\ Return(t)
      /\ UNCHANGED <<native, accepting_sockets, tables, ftp_restart_mask, probeVars, relays,
                     holds, workVars, madeVars>>
  BY Zenon DEF NoPlaceholder, PromoteClose, At
<1>2. /\ l \in LwFds /\ lw[l] \in {call[t].s} \cup Drained /\ call[t].s # 0
      /\ \A r \in relays : r[2] # call[t].s
  BY <1>1, Apart, ZenonT(30) DEF IInv, LwState, HasLw, OnFd
<1>3. /\ lw' \in [LwFds -> 0 .. MaxSockets]
      /\ \A x \in LwFds : lw'[x] = IF x = l THEN 0 ELSE lw[x]
  BY <1>1, <1>2, ShimAssumption DEF lwip_close, IInv, TypeOK
<1>4. /\ pc' \in [Threads -> Places] /\ call' \in [Threads -> CallRec]
      /\ pc'[t] = "idle" /\ call'[t] = NoCall
      /\ \A u \in Threads \ {t} : pc'[u] = pc[u] /\ call'[u] = call[u]
  BY <1>1, ThreadStep, NoCallFacts, Zenon DEF Return, Goto, Places, IInv
<1> HIDE DEF l
<1>5. TypeOK'
  BY <1>1, <1>3, <1>4, Zenon DEF IInv, TypeOK, CallRec
<1>6. Numbered'
  <2>1. made \in Nat /\ call'[t].s = 0
    BY <1>4, NoCallFacts, ShimAssumption DEF IInv, TypeOK
  <2>2. \A u \in Threads : call'[u].s <= made
    BY <1>4, <2>1 DEF IInv, Numbered
  <2>3. \A x \in LwFds : lw'[x] <= made
    BY <1>3, <2>1 DEF IInv, Numbered
  <2> QED
    BY <1>1, <2>2, <2>3, Zenon DEF IInv, Numbered
<1>7. OneAtATime'
  <2>1. \A u \in Threads : Active(u)' => Active(u)
    BY <1>1, <1>4, Zenon DEF Active
  <2> QED
    BY <1>1, <1>4, <2>1, Zenon DEF IInv, OneAtATime
<1>8. Modes'
  BY <1>1, <1>4, Zenon DEF IInv, Modes, Routing
<1>9. Descriptors'
  BY <1>1, Zenon DEF IInv, Descriptors
<1>10. Distinct'
  BY <1>4, DistinctKeeps, Zenon DEF OnFd, Making
<1>11. CallState(t)' /\ LwState(t)'
  BY <1>4, Zenon DEF CallState, LwState, Routed, OnFd, Making, HasLw
<1>12. ASSUME NEW u \in Threads \ {t} PROVE CallState(u)' /\ LwState(u)'
  <2>1. CallState(u)'
    BY <1>1, <1>4 DEF IInv, CallState
  <2>2. pc[u] \in HasLw \cup {"stack"} => call[u].s # call[t].s /\ call[u].s # 0
    BY <1>1, Apart, Zenon DEF HasLw, OnFd, Making
  <2> QED
    BY <1>1, <1>2, <1>3, <1>4, <2>1, <2>2, LwKeeps, ZenonT(30) DEF Drained
<1>13. RelayState'
  <2>1. \A r \in relays : r[1] \in LwFds /\ r[2] # 0
    BY ShimAssumption DEF IInv, TypeOK, Serials
  <2>2. \A r \in relays : lw'[r[1]] \in {r[2]} \cup Drained
    BY <1>2, <1>3, <2>1, ZenonT(30) DEF IInv, RelayState, Drained
  <2>3. "alone" \in calls => \A u \in Threads \ {t} : pc[u] = "idle"
    BY <1>1, Zenon DEF IInv, OneAtATime, Active
  <2>4. \A u \in Threads : pc'[u] # "idle" => u # t /\ pc'[u] = pc[u] /\ call'[u] = call[u]
    BY <1>4, Zenon
  <2>5. RelayState
    BY Zenon DEF IInv
  <2>6. \A r \in relays : lw'[r[1]] \in {r[2]} \cup Drained'
    BY <1>1, <2>2, Zenon DEF Drained
  <2> QED
    BY <1>1, <2>3, <2>4, <2>5, <2>6, RelayKeeps, ZenonT(30)
<1>14. \A f \in Fds : Leaving(f)' = Leaving(f)
  BY <1>1, <1>4, Zenon DEF Leaving
<1>15. open_mask \subseteq Fds
  BY Zenon DEF IInv, TypeOK
<1>16. Table'
  <2>1. ASSUME Routing, NEW f \in open_mask, Leaving(f) = {} PROVE mapped_fd[f] # l
    <3>1. lw[mapped_fd[f]] = native[f] /\ native[f] # 0 /\ f \in Fds
      BY <1>15, <2>1, Zenon DEF IInv, Table
    <3>2. lw[l] = call[t].s
      BY <1>2, <2>1, Zenon DEF Routing, Drained
    <3>3. native[f] # call[t].s
      <4>1. CASE pc[t] = "placeholder"
        BY <3>1, <4>1, Zenon DEF IInv, CallState
      <4>2. CASE pc[t] = "promoted"
        <5>1. call[t].fd \notin open_mask /\ call[t].fd \in Fds /\ native[call[t].fd] = call[t].s
          BY <2>1, <4>2, Apart, Zenon DEF IInv, Untracked, OnFd
        <5> QED
          BY <3>1, <5>1, Zenon DEF IInv, Descriptors
      <4> QED
        BY <1>1, <4>1, <4>2, Zenon
    <3> QED
      BY <3>1, <3>2, <3>3, Zenon
  <2> QED
    BY <1>1, <1>3, <1>14, <1>15, <2>1, ZenonT(30) DEF IInv, Table, Routing
<1>17. Untracked'
  BY <1>1, <1>4, Zenon DEF IInv, Untracked, Routing
<1>18. Reachable'
  <2>1. \A u \in Threads : pc[u] = "closing" => pc'[u] = "closing" /\ call'[u] = call[u]
    BY <1>1, <1>4, Zenon
  <2> QED
    BY <1>1, <1>3, <1>4, <1>14, <1>15, <2>1, CloserKeeps, Zenon DEF Routing, l
<1> QED
  BY <1>1, <1>5, <1>6, <1>7, <1>8, <1>9, <1>10, <1>11, <1>12, <1>13, <1>16, <1>17,
    <1>18, ZenonT(30)
     DEF IInv

\* track_fd: the title gets the descriptor.
LEMMA TrackKeeps ==
  ASSUME IInv, NEW t \in Threads, Track(t)
  PROVE  IInv'
<1> USE DEF workVars, probeVars, madeVars
<1> DEFINE d == call[t].fd
           s == call[t].s
<1>1. /\ pc[t] = "track" /\ Return(t) /\ open_mask' = open_mask \cup {d}
      /\ UNCHANGED <<native, lw, accepting_sockets, ftp_restart_mask, probeVars, relays,
                     workVars, madeVars>>
  BY Zenon DEF Track, At
<1>2. /\ d \in Fds /\ s \in Serials /\ s # 0 /\ native[d] = s /\ call[t].lwfd \in LwFds
      /\ lw[call[t].lwfd] \in {s} \cup Drained /\ \A r \in relays : r[2] # s
  BY <1>1, Apart, ZenonT(30) DEF IInv, LwState, HasLw, OnFd
<1>3. /\ compat_sock' \in [Fds -> 0 .. MaxSockets] /\ mapped_fd' \in [Fds -> LwFds \cup {NoFd}]
      /\ \A f \in Fds : compat_sock'[f] = IF f = d THEN 0 ELSE compat_sock[f]
      /\ \A f \in Fds : mapped_fd'[f] = IF f = d THEN call[t].lwfd ELSE mapped_fd[f]
  BY <1>2, ShimAssumption DEF Track, IInv, TypeOK
<1>4. /\ pc' \in [Threads -> Places] /\ call' \in [Threads -> CallRec]
      /\ pc'[t] = "idle" /\ call'[t] = NoCall
      /\ \A u \in Threads \ {t} : pc'[u] = pc[u] /\ call'[u] = call[u]
  BY <1>1, ThreadStep, NoCallFacts, ZenonT(30) DEF Return, Goto, Places, IInv
<1>5. /\ holds' \in [Threads -> SUBSET (Fds \X Serials)]
      /\ holds'[t] = holds[t] \cup {<<d, s>>}
      /\ \A u \in Threads \ {t} : holds'[u] = holds[u]
  BY <1>2 DEF Track, IInv, TypeOK
<1> HIDE DEF d, s
<1>6. TypeOK'
  BY <1>1, <1>2, <1>3, <1>4, <1>5, Zenon DEF IInv, TypeOK, CallRec
<1>7. Numbered'
  <2>1. made \in Nat /\ call'[t].s = 0
    BY <1>4, NoCallFacts, ShimAssumption, SMTT(30) DEF IInv, TypeOK
  <2>2. \A u \in Threads : call'[u].s <= made
    BY <1>4, <2>1 DEF IInv, Numbered
  <2> QED
    BY <1>1, <2>2, Zenon DEF IInv, Numbered
<1>8. OneAtATime'
  <2>1. \A u \in Threads : Active(u)' => Active(u)
    BY <1>1, <1>4, <1>5, Zenon DEF Active
  <2> QED
    BY <1>1, <1>4, <2>1, Zenon DEF IInv, OneAtATime
<1>9. "alone" \in calls => \A u \in Threads \ {t} : pc[u] = "idle"
  BY <1>1, Zenon DEF IInv, OneAtATime, Active
<1>10. \A u \in Threads \ {t} : pc[u] \notin {"closing", "endprobe"}
  BY <1>9, Zenon DEF IInv, OneAtATime
<1>11. Modes'
  BY <1>1, <1>4, <1>10, Zenon DEF IInv, Modes, Routing
<1>12. \A u \in Threads : \A h \in holds[u] : h[2] # s
  BY <1>1, Zenon DEF IInv, CallState, Making, s
<1>13. \A u \in Threads : \A h \in holds'[u] : h \in holds[u] \/ (u = t /\ h = <<d, s>>)
  BY <1>5, Zenon
<1>14. Descriptors'
  <2>1. \A u \in Threads : \A h \in holds'[u] : h \in holds[u] \/ (u = t /\ h[1] = d /\ h[2] = s)
    BY <1>13
  <2>2. \A u \in Threads : \A h \in holds'[u] : native'[h[1]] = h[2]
    <3>1. \A u \in Threads : \A h \in holds[u] : native[h[1]] = h[2]
      BY Zenon DEF IInv, Descriptors
    <3> QED
      BY <1>1, <1>2, <2>1, <3>1, ZenonT(30)
  <2>3. \A u, v \in Threads : \A h \in holds'[u], k \in holds'[v] : h[2] = k[2] => u = v
    BY <1>12, <2>1 DEF IInv, Descriptors
  <2> QED
    BY <1>1, <2>2, <2>3, Zenon DEF IInv, Descriptors
<1>15. Distinct'
  BY <1>4, DistinctKeeps, Zenon DEF OnFd, Making
<1>16. CallState(t)' /\ LwState(t)'
  BY <1>4, Zenon DEF CallState, LwState, Routed, OnFd, Making, HasLw
<1>17. \A u \in Threads \ {t} :
         /\ pc[u] \in OnFd \cup Making => call[u].s # s
         /\ pc[u] \in OnFd \cup {"track"} => call[u].fd # d /\ call[u].fd \in Fds
  BY <1>1, Apart, Zenon DEF d, s, OnFd, Making
<1>18. ASSUME NEW u \in Threads \ {t} PROVE CallState(u)' /\ LwState(u)'
  <2>1. CallState(u)'
    <3>1. pc'[u] = pc[u] /\ call'[u] = call[u] /\ CallState(u) /\ holds[u] \subseteq holds'[u]
      BY <1>4, <1>5, Zenon DEF IInv
    <3>2. pc[u] \in Making => \A v \in Threads : \A h \in holds'[v] : h[2] # call[u].s
      BY <1>13, <1>17, <3>1, SMTT(30) DEF CallState
    <3> QED
      BY <1>1, <3>1, <3>2, Zenon DEF CallState
  <2> QED
    BY <1>1, <1>3, <1>4, <1>17, <2>1, LwKeeps, Zenon DEF OnFd
<1>19. RelayState'
  BY <1>1, <1>4, <1>9, <1>10 DEF IInv, RelayState, Drained
<1>20. \A f \in Fds : Leaving(f)' = Leaving(f)
  BY <1>1, <1>4, Zenon DEF Leaving
<1>21. open_mask \subseteq Fds /\ (Routing => d \notin open_mask)
  BY <1>1, ZenonT(30) DEF IInv, TypeOK, Untracked, d
<1>22. Table'
  BY <1>1, <1>2, <1>3, <1>20, <1>21 DEF IInv, Table, Routing, Drained
<1>23. Untracked'
  BY <1>1, <1>4, <1>17, Zenon DEF IInv, Untracked, Routing, OnFd
<1>24. Reachable'
  <2>1. \A f \in Fds : f = d => Leaving(f)' = {}
    <3>1. \A u \in Threads : pc'[u] \in {"untrack", "given"} => call'[u].fd # d
      BY <1>4, <1>17, Zenon DEF OnFd
    <3> QED
      BY <3>1, Zenon DEF Leaving
  <2>2. \A x \in LwFds : x = call[t].lwfd => Closer(x)'
    <3> SUFFICES ASSUME NEW x \in LwFds, x = call[t].lwfd PROVE Closer(x)'
      BY Zenon
    <3>1. \E f \in open_mask' : Leaving(f)' = {} /\ mapped_fd'[f] = x
      BY <1>1, <1>2, <1>3, <2>1, Zenon
    <3> QED
      BY <3>1, Zenon DEF Closer
  <2>3. CASE Routing
    <3>1. \A f \in open_mask : /\ f \in open_mask' /\ Leaving(f)' = Leaving(f)
                               /\ mapped_fd'[f] = mapped_fd[f]
      BY <1>1, <1>3, <1>20, <1>21, <2>3, Zenon
    <3>2. \A x \in LwFds : \A u \in Threads :
            pc[u] \in {"placeholder", "track", "promoted"} /\ call[u].lwfd = x =>
              Closer(x)' \/ (pc'[u] = pc[u] /\ call'[u] = call[u])
      BY <1>4, <2>2, Zenon
    <3>3. \A u \in Threads : pc[u] # "closing"
      BY <1>1, <1>10, Zenon
    <3> QED
      BY <1>1, <2>3, <3>1, <3>2, <3>3, CloserKeeps, Zenon
  <2>4. CASE ~Routing
    BY <1>1, <2>4, Zenon DEF Reachable, Routing
  <2> QED
    BY <2>3, <2>4, Zenon
<1> QED
  BY <1>1, <1>6, <1>7, <1>8, <1>11, <1>14, <1>15, <1>16, <1>18, <1>19, <1>22, <1>23,
    <1>24, ZenonT(30)
     DEF IInv

\* What a step within a call keeps, when the call neither begins nor makes a descriptor and
\* tracks none.
LEMMA WithinKeeps ==
  ASSUME IInv, NEW t \in Threads, TypeOK',
         UNCHANGED <<native, accepting_sockets, probeVars, holds, workVars, madeVars>>,
         \A u \in Threads \ {t} : pc'[u] = pc[u] /\ call'[u] = call[u],
         \/ pc'[t] = "idle" /\ call'[t].s = 0
         \/ pc'[t] = pc[t] /\ call'[t].fd = call[t].fd /\ call'[t].s = call[t].s
         \/ /\ pc[t] \notin {"idle", "foreign", "release", "closing", "endprobe"}
            /\ pc[t] \in OnFd /\ pc'[t] \in OnFd
            /\ call'[t].fd = call[t].fd /\ call'[t].s = call[t].s,
         \A l \in LwFds : lw'[l] \in {0, lw[l]},
         \A r \in relays' : r \in relays \/ r[2] = call[t].s,
         open_mask' \subseteq open_mask
  PROVE  /\ Numbered' /\ OneAtATime' /\ Modes' /\ Descriptors' /\ Distinct'
         /\ \A u \in Threads : CallState(u)'
<1> USE DEF workVars, probeVars, madeVars
<1>1. Numbered'
  <2>1. made \in Nat
    BY ShimAssumption DEF IInv, TypeOK
  <2>2. \A u \in Threads : call'[u].s <= made
    BY <2>1 DEF IInv, Numbered
  <2>3. \A l \in LwFds : lw'[l] <= made
    BY <2>1 DEF IInv, Numbered
  <2>4. \A r \in relays' : r[2] <= made
    BY Zenon DEF IInv, Numbered
  <2> QED
    BY <2>2, <2>3, <2>4, ZenonT(30) DEF IInv, Numbered
<1>2. OneAtATime'
  <2>1. \A u \in Threads : Active(u)' => Active(u)
    BY Zenon DEF Active
  <2>2. \A u \in Threads : pc'[u] \in {"closing", "endprobe"} => pc[u] = pc'[u]
    BY Zenon DEF OnFd
  <2> QED
    BY <2>1, <2>2, Zenon DEF IInv, OneAtATime
<1>3. Modes'
  <2>1. \A u \in Threads : pc'[u] \in {"closing", "endprobe"} => pc[u] = pc'[u]
    BY Zenon DEF OnFd
  <2> QED
    BY <2>1, ZenonT(30) DEF IInv, Modes, Routing
<1>4. Descriptors'
  BY SMTT(30) DEF IInv, Descriptors
<1>5. Distinct'
  <2>1. pc'[t] \in OnFd \cup Making => pc[t] \in OnFd \cup Making /\ call'[t].s = call[t].s
    BY Zenon DEF OnFd, Making
  <2> QED
    BY <2>1, Apart, DistinctKeeps
<1>6. ASSUME NEW u \in Threads PROVE CallState(u)'
  <2>1. CallState(u)
    BY Zenon DEF IInv
  <2>2. CASE u # t
    BY <2>1, <2>2, Zenon DEF CallState
  <2>3. CASE u = t
    BY <2>1, <2>3, Zenon DEF CallState, OnFd, Making
  <2> QED
    BY <2>2, <2>3, Zenon
<1> QED
  BY <1>1, <1>2, <1>3, <1>4, <1>5, <1>6, Zenon

-------------------------------------------------------------------------------
(* Steps that close a socket or give it away.                                *)

\* Only the call of t has entered or left the set of calls that take d off lwIP.
LEMMA LeavingKeeps ==
  ASSUME NEW t \in Threads,
         \A u \in Threads \ {t} : pc'[u] = pc[u] /\ call'[u] = call[u],
         \/ call'[t].fd = call[t].fd
         \/ pc'[t] \notin {"untrack", "given"}
  PROVE  \A f \in Fds : f # call[t].fd => Leaving(f)' = Leaving(f)
<1> SUFFICES ASSUME NEW f \in Fds, f # call[t].fd PROVE Leaving(f)' = Leaving(f)
  BY Zenon
<1>1. \A u \in Threads :
        (call'[u].fd = f /\ pc'[u] \in {"untrack", "given"})
          <=> (call[u].fd = f /\ pc[u] \in {"untrack", "given"})
  BY Zenon
<1> QED
  BY <1>1, Zenon DEF Leaving

\* socketclose and bind close the lwIP socket of their descriptor.
LEMMA CloseStackKeeps ==
  ASSUME IInv, NEW t \in Threads, CloseStack(t)
  PROVE  IInv'
<1> USE DEF tables, workVars, probeVars, madeVars
<1> DEFINE d == call[t].fd
           l == mapped_fd[d]
<1>1. /\ pc[t] = "stack" /\ lwip_close(l) /\ pc' = [pc EXCEPT ![t] = "untrack"] /\ LwOpen(l)
      /\ call[t].op # "select"
      /\ UNCHANGED <<native, accepting_sockets, tables, ftp_restart_mask, probeVars, relays,
                     call, holds, workVars, madeVars>>
  BY Zenon DEF CloseStack, At, Goto
<1>2. /\ d \in Fds /\ l \in LwFds /\ lw[l] = call[t].s /\ call[t].s # 0
      /\ native[d] = call[t].s /\ \A r \in relays : r[2] # call[t].s
  <2>1. d \in Fds /\ call[t].s # 0 /\ native[d] = call[t].s
    BY <1>1, Apart, Zenon DEF OnFd
  <2>2. Routed(t) /\ LwState(t)
    BY <1>1, Zenon DEF IInv, Routed
  <2>3. l \in LwFds /\ lw[l] # 0 /\ lw[l] \in {call[t].s} \cup Drained
    BY <1>1, <2>2, ShimAssumption, Zenon DEF LwState, LwOpen
  <2>4. \A r \in relays : r[2] # call[t].s
    BY <2>2, ZenonT(30) DEF LwState
  <2> QED
    BY <2>1, <2>3, <2>4, Zenon DEF Drained
<1>3. /\ lw' \in [LwFds -> 0 .. MaxSockets]
      /\ \A x \in LwFds : lw'[x] = IF x = l THEN 0 ELSE lw[x]
  BY <1>1, <1>2, ShimAssumption DEF lwip_close, IInv, TypeOK
<1>4. /\ pc' \in [Threads -> Places] /\ pc'[t] = "untrack"
      /\ \A u \in Threads \ {t} : pc'[u] = pc[u] /\ call'[u] = call[u]
  BY <1>1, Zenon DEF IInv, TypeOK, Places
<1> HIDE DEF d, l
<1>5. TypeOK'
  BY <1>1, <1>3, <1>4, Zenon DEF IInv, TypeOK
<1>6. /\ Numbered' /\ OneAtATime' /\ Modes' /\ Descriptors' /\ Distinct'
      /\ \A u \in Threads : CallState(u)'
  BY <1>1, <1>3, <1>4, <1>5, WithinKeeps, Zenon DEF OnFd
<1>7. LwState(t)'
  BY <1>4, Zenon DEF LwState, Routed, HasLw
<1>8. ASSUME NEW u \in Threads \ {t} PROVE LwState(u)'
  <2>1. pc[u] \in HasLw \cup {"stack"} => call[u].s # call[t].s
    BY <1>1, Apart, ZenonT(30) DEF HasLw, OnFd, Making
  <2> QED
    BY <1>1, <1>2, <1>3, <1>4, <2>1, LwKeeps, Zenon
<1>9. RelayState'
  <2>1. \A r \in relays : r[1] \in LwFds /\ r[2] # 0
    BY ShimAssumption DEF IInv, TypeOK, Serials
  <2>2. \A r \in relays : lw'[r[1]] = lw[r[1]]
    BY <1>2, <1>3, <2>1 DEF IInv, RelayState, Drained
  <2> QED
    BY <1>1, <1>4, <2>2 DEF IInv, RelayState, Drained
<1>10. /\ \A f \in Fds : f # d => Leaving(f)' = Leaving(f)
       /\ \A f \in Fds : f = d => Leaving(f)' # {}
  <2>1. \A f \in Fds : f = d => t \in Leaving(f)'
    BY <1>1, <1>4, Zenon DEF Leaving, d
  <2> QED
    BY <1>1, <1>4, <2>1, LeavingKeeps, Zenon DEF d
<1>11. open_mask \subseteq Fds
  BY ZenonT(30) DEF IInv, TypeOK
<1>12. Table'
  <2>1. \A f \in open_mask : f # d => native[f] # call[t].s
    BY <1>2, <1>11, Zenon DEF IInv, Descriptors
  <2> QED
    BY <1>1, <1>2, <1>3, <1>10, <1>11, <2>1 DEF IInv, Table, Routing
<1>13. Untracked'
  BY <1>1, <1>4, Zenon DEF IInv, Untracked, Routing
<1>14. Reachable'
  <2>1. \A f \in open_mask : lw'[mapped_fd[f]] = 0 \/ Leaving(f)' = Leaving(f)
    BY <1>2, <1>3, <1>10, <1>11, Zenon DEF l
  <2>2. \A u \in Threads : pc[u] \in {"placeholder", "track", "promoted", "closing"} =>
          pc'[u] = pc[u] /\ call'[u] = call[u]
    BY <1>1, <1>4, Zenon
  <2> QED
    BY <1>1, <1>3, <2>1, <2>2, CloserKeeps, Zenon DEF Routing
<1> QED
  BY <1>1, <1>5, <1>6, <1>7, <1>8, <1>9, <1>12, <1>13, <1>14, Zenon DEF IInv

\* A call takes its descriptor out of open_mask: a close, a handover to a relay, a promotion.
LEMMA UntrackKeeps ==
  ASSUME IInv, NEW t \in Threads, Untrack(t) \/ HandOver(t) \/ PromoteUntrack(t)
  PROVE  IInv'
<1> USE DEF workVars, probeVars, madeVars
<1> DEFINE d == call[t].fd
<1>1. /\ pc[t] \in {"untrack", "given", "promote"}
      /\ open_mask' = open_mask \ {d}
      /\ UNCHANGED <<native, lw, accepting_sockets, compat_sock, ftp_restart_mask, probeVars,
                     relays, holds, workVars, madeVars>>
  BY Zenon DEF Untrack, HandOver, PromoteUntrack, At
<1>2. d \in Fds /\ native[d] = call[t].s /\ call[t].s # 0
  BY <1>1, Apart, Zenon DEF OnFd
<1>3. /\ mapped_fd' \in [Fds -> LwFds \cup {NoFd}]
      /\ \A f \in Fds \ {d} : mapped_fd'[f] = mapped_fd[f]
  BY <1>2, Zenon DEF Untrack, HandOver, PromoteUntrack, IInv, TypeOK
<1>4. /\ pc' \in [Threads -> Places] /\ call' \in [Threads -> CallRec]
      /\ \/ pc'[t] = "idle" /\ call'[t] = NoCall /\ pc[t] # "promote"
         \/ pc'[t] = "release" /\ call'[t] = call[t] /\ pc[t] # "promote"
         \/ pc'[t] = "promoted" /\ call'[t] = call[t] /\ pc[t] = "promote"
      /\ \A u \in Threads \ {t} : pc'[u] = pc[u] /\ call'[u] = call[u]
  <2>1. TypeOK /\ call[t] \in CallRec /\ call = [call EXCEPT ![t] = call[t]]
    BY Zenon DEF IInv, TypeOK, CallRec
  <2>2. CASE Return(t) /\ pc[t] # "promote"
    BY <2>1, <2>2, ThreadStep, NoCallFacts, Zenon DEF Return, Goto, Places
  <2>3. CASE Goto(t, "release") /\ UNCHANGED call /\ pc[t] # "promote"
    BY <2>1, <2>3, ThreadStep, Zenon DEF Goto, Places
  <2>4. CASE Goto(t, "promoted") /\ UNCHANGED call /\ pc[t] = "promote"
    BY <2>1, <2>4, ThreadStep, Zenon DEF Goto, Places
  <2> QED
    BY <2>2, <2>3, <2>4, Zenon DEF Untrack, HandOver, PromoteUntrack, At
<1> HIDE DEF d
<1>5. TypeOK'
  BY <1>1, <1>3, <1>4, Zenon DEF IInv, TypeOK, CallRec
<1>6. /\ Numbered' /\ OneAtATime' /\ Modes' /\ Descriptors' /\ Distinct'
      /\ \A u \in Threads : CallState(u)'
  BY <1>1, <1>4, <1>5, NoCallFacts, WithinKeeps, Zenon DEF OnFd
<1>7. LwState(t)'
  BY <1>1, <1>4, ZenonT(30) DEF IInv, LwState, Routed, HasLw, Drained
<1>8. ASSUME NEW u \in Threads \ {t} PROVE LwState(u)'
  <2>1. pc[u] \in {"stack", "bridge", "promote"} => call[u].fd # d /\ call[u].fd \in Fds
    BY <1>1, Apart, Zenon DEF OnFd, d
  <2> QED
    BY <1>1, <1>3, <1>4, <2>1, LwKeeps, Zenon
<1>9. \A u \in Threads : pc[u] # "closing" /\ pc'[u] # "closing"
  BY <1>1, <1>4, Zenon DEF IInv, OneAtATime, Active
<1>10. RelayState'
  <2>1. \A u \in Threads : "alone" \in calls => pc'[u] # "stack"
    BY <1>1, <1>4, Zenon DEF IInv, OneAtATime, Active
  <2> QED
    BY <1>1, <1>9, <2>1, Zenon DEF IInv, RelayState, Drained
<1>11. \A f \in Fds : f # d => Leaving(f)' = Leaving(f)
  BY <1>4, LeavingKeeps, Zenon DEF d
<1>12. open_mask \subseteq Fds
  BY Zenon DEF IInv, TypeOK
<1>13. Table'
  BY <1>1, <1>3, <1>11, <1>12, ZenonT(30) DEF IInv, Table, Routing
<1>14. Untracked'
  BY <1>1, <1>4, Zenon DEF IInv, Untracked, Routing, d
<1>15. Reachable'
  <2>1. CASE Routing
    <3>1. pc[t] # "promote" => Leaving(d) # {}
      <4>1. pc[t] # "promote" => t \in Leaving(d)
        BY <1>1, Zenon DEF Leaving, d
      <4> QED
        BY <4>1, Zenon
    <3>2. \A x \in LwFds : pc[t] = "promote" /\ mapped_fd[d] = x => Closer(x)'
      <4> SUFFICES ASSUME NEW x \in LwFds, pc[t] = "promote", mapped_fd[d] = x PROVE Closer(x)'
        BY Zenon
      <4>1. call[t].lwfd = x /\ pc'[t] = "promoted" /\ call'[t] = call[t]
        BY <1>4, <2>1, Zenon DEF IInv, LwState, Routing, d
      <4> QED
        BY <4>1, Zenon DEF Closer
    <3>3. \A f \in open_mask : f # d => /\ f \in open_mask' /\ Leaving(f)' = Leaving(f)
                                       /\ mapped_fd'[f] = mapped_fd[f]
      BY <1>1, <1>3, <1>11, <1>12, Zenon
    <3>4. \A u \in Threads : pc[u] \in {"placeholder", "track", "promoted"} =>
            pc'[u] = pc[u] /\ call'[u] = call[u]
      BY <1>1, <1>4, Zenon
    <3> QED
      BY <1>1, <1>9, <2>1, <3>1, <3>2, <3>3, <3>4, CloserKeeps, Zenon
  <2>2. CASE ~Routing
    BY <1>1, <2>2, Zenon DEF Reachable, Routing
  <2> QED
    BY <2>1, <2>2, Zenon
<1> QED
  BY <1>1, <1>5, <1>6, <1>7, <1>8, <1>10, <1>13, <1>14, <1>15, Zenon DEF IInv

\* A relay gets the lwIP socket.
LEMMA GiveToRelayKeeps ==
  ASSUME IInv, NEW t \in Threads, GiveToRelay(t)
  PROVE  IInv'
<1> USE DEF tables, workVars, probeVars, madeVars
<1> DEFINE d == call[t].fd
           s == call[t].s
           l == call[t].lwfd
<1>1. /\ pc[t] = "bridge" /\ relays' = relays \cup {<<l, s>>}
      /\ pc' = [pc EXCEPT ![t] = "given"]
      /\ UNCHANGED <<native, lw, accepting_sockets, tables, ftp_restart_mask, probeVars, call,
                     holds, workVars, madeVars>>
  BY Zenon DEF GiveToRelay, At, Goto
<1>2. /\ d \in Fds /\ s \in Serials /\ s # 0 /\ native[d] = s /\ l \in LwFds
      /\ lw[l] \in {s} \cup Drained /\ (mapped_fd[d] = l \/ wpc = "drain")
  BY <1>1, Apart, Zenon DEF IInv, LwState, HasLw, OnFd
<1>3. /\ pc' \in [Threads -> Places] /\ pc'[t] = "given"
      /\ \A u \in Threads \ {t} : pc'[u] = pc[u] /\ call'[u] = call[u]
  BY <1>1, Zenon DEF IInv, TypeOK, Places
<1> HIDE DEF d, s, l
<1>4. \A r \in relays' : r \in relays \/ (r[1] = l /\ r[2] = s)
  BY <1>1, SMTT(30)
<1>5. TypeOK'
  BY <1>1, <1>2, <1>3 DEF IInv, TypeOK
<1>6. /\ Numbered' /\ OneAtATime' /\ Modes' /\ Descriptors' /\ Distinct'
      /\ \A u \in Threads : CallState(u)'
  BY <1>1, <1>3, <1>4, <1>5, WithinKeeps, Zenon DEF OnFd, s
<1>7. LwState(t)'
  BY <1>3, Zenon DEF LwState, Routed, HasLw
<1>8. ASSUME NEW u \in Threads \ {t} PROVE LwState(u)'
  <2>1. pc[u] \in HasLw \cup {"stack"} => call[u].s # s
    BY <1>1, Apart, Zenon DEF HasLw, OnFd, Making, s
  <2> QED
    BY <1>1, <1>3, <1>4, <2>1, LwKeeps, Zenon
<1>9. \A u \in Threads : pc'[u] # "closing" /\ ("alone" \in calls => pc'[u] # "stack")
  BY <1>1, <1>3, Zenon DEF IInv, OneAtATime, Active
<1>10. RelayState'
  BY <1>1, <1>2, <1>4, <1>9, Zenon DEF IInv, RelayState, Drained
<1>11. /\ \A f \in Fds : f # d => Leaving(f)' = Leaving(f)
       /\ \A f \in Fds : f = d => Leaving(f)' # {}
  <2>1. \A f \in Fds : f = d => t \in Leaving(f)'
    BY <1>1, <1>3, Zenon DEF Leaving, d
  <2> QED
    BY <1>1, <1>3, <2>1, LeavingKeeps, Zenon DEF d
<1>12. open_mask \subseteq Fds
  BY Zenon DEF IInv, TypeOK
<1>13. Table'
  <2>1. \A f \in open_mask : f # d => native[f] # s
    BY <1>2, <1>12, Zenon DEF IInv, Descriptors
  <2>2. Table
    BY Zenon DEF IInv
  <2> QED
    BY <1>1, <1>4, <1>11, <1>12, <2>1, <2>2, ZenonT(30) DEF Table, Routing
<1>14. Untracked'
  BY <1>1, <1>3, Zenon DEF IInv, Untracked, Routing
<1>15. Reachable'
  <2>1. CASE Routing
    <3>1. \A x \in LwFds : mapped_fd[d] = x => Closer(x)'
      <4> SUFFICES ASSUME NEW x \in LwFds, mapped_fd[d] = x PROVE Closer(x)'
        BY Zenon
      <4>1. x = l /\ lw'[x] = s
        BY <1>1, <1>2, <2>1, Zenon DEF Routing, Drained
      <4>2. <<x, lw'[x]>> \in relays'
        BY <1>1, <4>1, Zenon
      <4> QED
        BY <4>2, Zenon DEF Closer
    <3>2. \A f \in open_mask : f # d => Leaving(f)' = Leaving(f)
      BY <1>11, <1>12, Zenon
    <3>3. \A u \in Threads : pc[u] \in {"placeholder", "track", "promoted", "closing"} =>
            pc'[u] = pc[u] /\ call'[u] = call[u]
      BY <1>1, <1>3, Zenon
    <3> QED
      BY <1>1, <2>1, <3>1, <3>2, <3>3, CloserKeeps, Zenon
  <2>2. CASE ~Routing
    BY <1>1, <2>2, Zenon DEF Reachable, Routing
  <2> QED
    BY <2>1, <2>2, Zenon
<1> QED
  BY <1>1, <1>5, <1>6, <1>7, <1>8, <1>10, <1>13, <1>14, <1>15, Zenon DEF IInv

\* A relay closes its lwIP socket and ends.
LEMMA RelayEndsKeeps ==
  ASSUME IInv, NEW r \in relays, RelayEnds(r)
  PROVE  IInv'
<1> USE DEF tables, workVars, probeVars, madeVars
<1>1. /\ relays' = relays \ {r} /\ lwip_close(r[1])
      /\ UNCHANGED <<native, accepting_sockets, tables, ftp_restart_mask, probeVars, pc, call,
                     holds, workVars, madeVars>>
  BY ZenonT(30) DEF RelayEnds
<1>2. \A q \in relays : /\ q[1] \in LwFds /\ q[2] # 0 /\ q = <<q[1], q[2]>>
                        /\ lw[q[1]] \in {q[2]} \cup Drained
  BY ShimAssumption, SMTT(30) DEF IInv, TypeOK, Serials, RelayState
<1>3. /\ lw' \in [LwFds -> 0 .. MaxSockets]
      /\ \A x \in LwFds : lw'[x] = IF x = r[1] THEN 0 ELSE lw[x]
  BY <1>1, <1>2, ShimAssumption DEF lwip_close, IInv, TypeOK
<1>4. TypeOK'
  BY <1>1, <1>3, Zenon DEF IInv, TypeOK
<1>5. /\ Numbered' /\ OneAtATime' /\ Modes' /\ Descriptors' /\ Distinct'
      /\ \A u \in Threads : CallState(u)'
  <2>1. PICK t \in Threads : TRUE
    BY ShimAssumption, Zenon
  <2> QED
    BY <1>1, <1>3, <1>4, <2>1, WithinKeeps, Zenon
<1>6. ASSUME NEW u \in Threads PROVE LwState(u)'
  <2>1. LwState(u)
    BY Zenon DEF IInv
  <2>2. Routed(u) \/ pc[u] \in HasLw =>
          r[2] # call[u].s /\ \A x \in LwFds : lw[x] = call[u].s =>
                                lw'[x] = lw[x] \/ (wpc = "drain" /\ lw'[x] = 0)
    BY <1>2, <1>3, <2>1, ZenonT(30) DEF LwState, Drained
  <2>3. \A x \in LwFds : lw[x] = 0 => lw'[x] = 0
    BY <1>3, Zenon
  <2> QED
    BY <1>1, <2>1, <2>2, <2>3, Zenon DEF LwState, Routed, Drained
<1>7. RelayState'
  <2>1. \A q \in relays' : lw'[q[1]] \in {q[2]} \cup Drained
    BY <1>1, <1>2, <1>3 DEF Drained
  <2>2. \A q \in relays' : lw[q[1]] = q[2] /\ lw[r[1]] = r[2] => lw'[q[1]] = q[2]
    BY <1>1, <1>2, <1>3, Zenon
  <2> QED
    BY <1>1, <2>1, <2>2 DEF IInv, RelayState, Drained
<1>8. \A f \in Fds : Leaving(f)' = Leaving(f)
  BY <1>1, Zenon DEF Leaving
<1>9. open_mask \subseteq Fds
  BY Zenon DEF IInv, TypeOK
<1>10. Table'
  BY <1>1, <1>2, <1>3, <1>8, <1>9 DEF IInv, Table, Routing, Drained
<1>11. Untracked'
  BY <1>1, Zenon DEF IInv, Untracked, Routing
<1>12. Reachable'
  <2>1. \A f \in open_mask : Leaving(f)' = Leaving(f)
    BY <1>8, <1>9, Zenon
  <2>2. \A q \in relays : q \in relays' \/ lw'[q[1]] = 0
    BY <1>1, <1>2, <1>3, Zenon
  <2>3. \A x \in LwFds : lw'[x] # 0 => lw'[x] = lw[x]
    BY <1>3, Zenon
  <2> QED
    BY <1>1, <2>1, <2>2, <2>3, CloserKeeps, Zenon DEF Routing
<1> QED
  BY <1>1, <1>4, <1>5, <1>6, <1>7, <1>10, <1>11, <1>12, Zenon DEF IInv

\* real_socketclose: the descriptor is free again.
LEMMA ReleaseKeeps ==
  ASSUME IInv, NEW t \in Threads, Release(t)
  PROVE  IInv'
<1> USE DEF tables, workVars, probeVars, madeVars
<1> DEFINE d == call[t].fd
           s == call[t].s
<1>1. /\ pc[t] = "release" /\ Return(t)
      /\ UNCHANGED <<lw, accepting_sockets, tables, ftp_restart_mask, probeVars, relays,
                     workVars, madeVars>>
  BY Zenon DEF Release, At
<1>2. /\ d \in Fds /\ native[d] = s /\ s # 0 /\ <<d, s>> \in holds[t]
  BY <1>1, Apart, ZenonT(30) DEF OnFd, IInv, CallState
<1>3. /\ native' \in [Fds -> 0 .. MaxSockets]
      /\ \A f \in Fds : native'[f] = IF f = d THEN 0 ELSE native[f]
  BY <1>2, ShimAssumption DEF Release, IInv, TypeOK
<1>4. /\ holds' \in [Threads -> SUBSET (Fds \X Serials)]
      /\ holds'[t] = holds[t] \ {<<d, s>>}
      /\ \A u \in Threads \ {t} : holds'[u] = holds[u]
  BY Zenon DEF Release, IInv, TypeOK
<1>5. /\ pc' \in [Threads -> Places] /\ call' \in [Threads -> CallRec]
      /\ pc'[t] = "idle" /\ call'[t] = NoCall
      /\ \A u \in Threads \ {t} : pc'[u] = pc[u] /\ call'[u] = call[u]
  BY <1>1, ThreadStep, NoCallFacts, Zenon DEF Return, Goto, Places, IInv
<1> HIDE DEF d, s
<1>6. TypeOK'
  BY <1>1, <1>3, <1>4, <1>5, ZenonT(30) DEF IInv, TypeOK, CallRec
<1>7. Numbered'
  <2>1. made \in Nat /\ call'[t].s = 0
    BY <1>5, NoCallFacts, ShimAssumption DEF IInv, TypeOK
  <2>2. \A u \in Threads : call'[u].s <= made
    BY <1>5, <2>1 DEF IInv, Numbered
  <2>3. \A f \in Fds : native'[f] <= made
    BY <1>3, <2>1 DEF IInv, Numbered
  <2> QED
    BY <1>1, <2>2, <2>3, ZenonT(30) DEF IInv, Numbered
<1>8. OneAtATime'
  <2>1. \A u \in Threads : Active(u)' => Active(u)
    BY <1>1, <1>4, <1>5, Zenon DEF Active
  <2> QED
    BY <1>1, <1>5, <2>1, Zenon DEF IInv, OneAtATime
<1>9. Modes'
  BY <1>1, <1>5, Zenon DEF IInv, Modes, Routing
<1>10. \A u \in Threads : holds'[u] \subseteq holds[u]
  BY <1>4, Zenon
<1>11. \A u \in Threads : \A h \in holds'[u] : h[1] # d /\ h[1] \in Fds
  <2>1. \A u \in Threads : \A h \in holds[u] :
          h[1] \in Fds /\ h = <<h[1], h[2]>> /\ native[h[1]] = h[2]
    BY DEF IInv, TypeOK, Descriptors
  <2>2. \A u \in Threads : \A h \in holds[u] : h[2] = s => u = t
    <3>1. \A k \in holds[t] : k[2] = s => \A u \in Threads : \A h \in holds[u] : h[2] = s => u = t
      BY Zenon DEF IInv, Descriptors
    <3> QED
      BY <1>2, <3>1, Zenon
  <2> QED
    BY <1>2, <1>4, <2>1, <2>2, SMTT(30)
<1>12. Descriptors'
  <2>1. \A f, g \in Fds : native'[f] = native'[g] /\ native'[f] # 0 => f = g
    BY <1>3, Zenon DEF IInv, Descriptors
  <2>2. \A u \in Threads : \A h \in holds'[u] : native'[h[1]] = h[2]
    <3>1. \A u \in Threads : \A h \in holds'[u] : native[h[1]] = h[2]
      BY <1>10, ZenonT(30) DEF IInv, Descriptors
    <3> QED
      BY <1>3, <1>11, <3>1, Zenon
  <2>3. \A u, v \in Threads : \A h \in holds'[u], k \in holds'[v] : h[2] = k[2] => u = v
    BY <1>10 DEF IInv, Descriptors
  <2> QED
    BY <2>1, <2>2, <2>3, Zenon DEF Descriptors
<1>13. Distinct'
  BY <1>5, DistinctKeeps, Zenon DEF OnFd, Making
<1>14. CallState(t)' /\ LwState(t)'
  BY <1>5, Zenon DEF CallState, LwState, Routed, OnFd, Making, HasLw
<1>15. ASSUME NEW u \in Threads \ {t} PROVE CallState(u)' /\ LwState(u)'
  <2>1. pc[u] = "placeholder" => call[u].s # 0
    BY Apart, Zenon
  <2>2. pc[u] = "track" => call[u].fd # d
    BY <1>1, Apart, ZenonT(30) DEF OnFd, Making, d
  <2>3. CallState(u)'
    <3>1. CallState(u)
      BY ZenonT(30) DEF IInv
    <3> QED
      BY <1>3, <1>4, <1>5, <1>10, <2>1, <2>2, <3>1 DEF CallState
  <2> QED
    BY <1>1, <1>5, <2>3, LwKeeps, Zenon
<1>16. RelayState'
  BY <1>1, <1>5 DEF IInv, RelayState, Drained
<1>17. \A f \in Fds : Leaving(f)' = Leaving(f)
  BY <1>1, <1>5, Zenon DEF Leaving
<1>18. open_mask \subseteq Fds
  BY Zenon DEF IInv, TypeOK
<1>19. Table'
  <2>1. Routing => d \notin open_mask
    BY <1>1, Zenon DEF IInv, Untracked, d
  <2>2. Routing => \A f \in open_mask : native'[f] = native[f]
    BY <1>3, <1>18, <2>1, Zenon
  <2>3. Table
    BY Zenon DEF IInv
  <2> QED
    BY <1>1, <1>17, <1>18, <2>2, <2>3, TableKeeps, Zenon DEF Routing
<1>20. Untracked'
  BY <1>1, <1>5, Zenon DEF IInv, Untracked, Routing
<1>21. Reachable'
  <2>1. \A f \in open_mask : Leaving(f)' = Leaving(f)
    BY <1>17, <1>18, Zenon
  <2>2. \A u \in Threads : pc[u] \in {"placeholder", "track", "promoted", "closing"} =>
          pc'[u] = pc[u] /\ call'[u] = call[u]
    BY <1>1, <1>5, Zenon
  <2> QED
    BY <1>1, <2>1, <2>2, CloserKeeps, Zenon DEF Routing
<1> QED
  BY <1>1, <1>6, <1>7, <1>8, <1>9, <1>12, <1>13, <1>14, <1>15, <1>16, <1>19, <1>20,
    <1>21, ZenonT(30)
     DEF IInv

-------------------------------------------------------------------------------
(* Steps of one thread that takes whole tables: socketclose_all, the probe.  *)

\* The thread that makes a call that may not overlap others is the only one at work.
LEMMA AloneFacts ==
  ASSUME IInv, TablesTakenAlone, NEW t \in Threads,
         \/ pc[t] \in {"closing", "endprobe"}
         \/ probe_thread = t
         \/ Able(t) /\ {"closeall", "probe"} \cap calls # {}
  PROVE  /\ "alone" \in calls
         /\ \A u \in Threads \ {t} : pc[u] = "idle" /\ holds[u] = {} /\ probe_thread # u
<1>1. t # "none"
  BY ShimAssumption, Zenon
<1>2. CASE pc[t] \in {"closing", "endprobe"} \/ probe_thread = t
  <2>1. Active(t) /\ "alone" \in calls
    BY <1>1, <1>2, Zenon DEF Active, IInv, OneAtATime
  <2>2. \A u \in Threads \ {t} : ~Active(u)
    BY <2>1, Zenon DEF IInv, OneAtATime
  <2> QED
    BY <2>1, <2>2, Zenon DEF Active
<1>3. CASE Able(t) /\ {"closeall", "probe"} \cap calls # {}
  <2>1. "alone" \in calls
    BY <1>3, Zenon DEF TablesTakenAlone, IInv
  <2> QED
    BY <1>3, <2>1, Zenon DEF Able
<1> QED
  BY <1>2, <1>3, Zenon

\* Where no call is about a socket, the rest of the invariant is enough.
LEMMA AloneKeeps ==
  ASSUME calls \in CallSets, calls' = calls, TypeOK',
         \A u \in Threads : pc'[u] \in {"idle", "closing", "endprobe"},
         Numbered', OneAtATime', Modes', Descriptors', RelayState', Table', Reachable'
  PROVE  IInv'
<1>1. Distinct'
  BY Zenon DEF Distinct, OnFd, Making
<1>2. \A u \in Threads : CallState(u)' /\ LwState(u)'
  BY Zenon DEF CallState, LwState, Routed, OnFd, Making, HasLw
<1>3. Untracked'
  BY Zenon DEF Untracked
<1> QED
  BY <1>1, <1>2, <1>3, Zenon DEF IInv

\* One thread has taken a step and the others are idle and hold nothing.
LEMMA OnlyOneKeeps ==
  ASSUME NEW t \in Threads, calls' = calls, "alone" \in calls,
         \A u \in Threads \ {t} : pc'[u] = "idle" /\ holds'[u] = {} /\ probe_thread' # u
  PROVE  OneAtATime'
<1>1. \A u \in Threads : Active(u)' => u = t
  BY Zenon DEF Active
<1> QED
  BY <1>1, Zenon DEF OneAtATime

\* socketclose_all takes the tables.
LEMMA CloseAllKeeps ==
  ASSUME IInv, TablesTakenAlone, NEW t \in Threads, CloseAll(t)
  PROVE  IInv'
<1> USE DEF workVars, probeVars, madeVars
<1> DEFINE m == IF accepting_sockets THEN open_mask ELSE {}
<1>1. /\ pc[t] = "idle" /\ Able(t) /\ "closeall" \in calls /\ ftp_restart_mask' = {}
      /\ call' = [call EXCEPT ![t] = MaskCall(m)]
      /\ open_mask' = IF accepting_sockets THEN {} ELSE open_mask
      /\ pc' = [pc EXCEPT ![t] = "closing"]
      /\ UNCHANGED <<native, lw, accepting_sockets, mapped_fd, compat_sock, probeVars, relays,
                     holds, workVars, madeVars>>
  BY Zenon DEF CloseAll, At, Goto, MaskCall
<1>2. /\ "alone" \in calls
      /\ \A u \in Threads \ {t} : pc[u] = "idle" /\ holds[u] = {} /\ probe_thread # u
  BY <1>1, AloneFacts, Zenon
<1>3. m \in SUBSET Fds /\ open_mask \subseteq Fds
  BY Zenon DEF IInv, TypeOK
<1>4. MaskCall(m) \in CallRec /\ MaskCall(m).mask = m /\ MaskCall(m).s = 0
  BY <1>3, MaskCallFacts, Zenon
<1> HIDE DEF m
<1>5. /\ pc' \in [Threads -> Places] /\ call' \in [Threads -> CallRec]
      /\ pc'[t] = "closing" /\ call'[t].mask = m /\ call'[t].s = 0
      /\ \A u \in Threads \ {t} : pc'[u] = pc[u] /\ call'[u] = call[u]
  BY <1>1, <1>4, ThreadStep, Zenon DEF Places, IInv
<1>6. TypeOK'
  BY <1>1, <1>5, ZenonT(30) DEF IInv, TypeOK, CallRec
<1>7. Numbered'
  <2>1. made \in Nat
    BY ShimAssumption DEF IInv, TypeOK
  <2> QED
    BY <1>1, <1>5, <2>1 DEF IInv, Numbered
<1>8. OneAtATime'
  BY <1>1, <1>2, <1>5, OnlyOneKeeps, Zenon
<1>9. Routing => open_mask' = {} /\ m = open_mask
  BY <1>1, Zenon DEF IInv, Modes, m
<1>10. Modes'
  BY <1>1, <1>2, <1>5, <1>9, Zenon DEF IInv, Modes, Routing
<1>11. Descriptors'
  BY <1>1, Zenon DEF IInv, Descriptors
<1>12. \A f \in Fds : Leaving(f) = {}
  BY <1>1, <1>2, Zenon DEF Leaving
<1>13. RelayState'
  <2>1. \A f \in m, r \in relays : mapped_fd[f] # r[1]
    <3>1. m # {} => Routing /\ m = open_mask
      BY Zenon DEF IInv, Modes, m
    <3>2. ASSUME NEW f \in m, NEW r \in relays
          PROVE  mapped_fd[f] # r[1]
      <4>1. Routing /\ f \in open_mask /\ Leaving(f) = {}
        BY <1>3, <1>12, <3>1, Zenon
      <4>2. lw[mapped_fd[f]] = native[f] /\ r[2] # native[f]
        BY <4>1, Zenon DEF IInv, Table
      <4>3. lw[r[1]] = r[2]
        BY <4>1, Zenon DEF IInv, RelayState, Drained, Routing
      <4> QED
        BY <4>2, <4>3, Zenon
    <3> QED
      BY <3>2, Zenon
  <2>2. \A u \in Threads :
          pc'[u] \in {"closing", "stack"} => pc'[u] = "closing" /\ call'[u].mask = m
    BY <1>2, <1>5, Zenon
  <2>3. RelayState
    BY Zenon DEF IInv
  <2>4. \A r \in relays : lw'[r[1]] \in {r[2]} \cup Drained'
    BY <1>1, <2>3, Zenon DEF RelayState, Drained
  <2> QED
    BY <1>1, <2>1, <2>2, <2>3, <2>4, RelayKeeps, Zenon
<1>14. Table'
  BY <1>1, <1>9, Zenon DEF Table, Routing
<1>15. Reachable'
  <2>1. CASE Routing
    <3>1. \A x \in LwFds : \A f \in open_mask : mapped_fd[f] = x => Closer(x)'
      <4> SUFFICES ASSUME NEW x \in LwFds, NEW f \in open_mask, mapped_fd[f] = x PROVE Closer(x)'
        BY Zenon
      <4>1. pc'[t] = "closing" /\ f \in call'[t].mask /\ mapped_fd'[f] = x
        BY <1>1, <1>5, <1>9, <2>1, Zenon
      <4> QED
        BY <4>1, Zenon DEF Closer
    <3>2. \A u \in Threads : pc[u] \notin {"placeholder", "track", "promoted", "closing"}
      BY <1>1, <1>2, Zenon
    <3> QED
      BY <1>1, <2>1, <3>1, <3>2, CloserKeeps, Zenon
  <2>2. CASE ~Routing
    BY <1>1, <2>2, Zenon DEF Reachable, Routing
  <2> QED
    BY <2>1, <2>2, Zenon
<1>16. calls \in CallSets /\ \A u \in Threads : pc'[u] \in {"idle", "closing", "endprobe"}
  BY <1>2, <1>5, Zenon DEF IInv
<1> QED
  BY <1>1, <1>6, <1>7, <1>8, <1>10, <1>11, <1>13, <1>14, <1>15, <1>16, AloneKeeps,
    ZenonT(30)

\* socketclose_all closes one lwIP socket.
LEMMA CloseOneKeeps ==
  ASSUME IInv, TablesTakenAlone, NEW t \in Threads, NEW fd \in Fds, CloseOne(t, fd)
  PROVE  IInv'
<1> USE DEF tables, workVars, probeVars, madeVars
<1>1. /\ pc[t] = "closing" /\ fd \in call[t].mask
      /\ UNCHANGED <<native, accepting_sockets, tables, ftp_restart_mask, probeVars, relays, pc,
                     holds, workVars, madeVars>>
  BY Zenon DEF CloseOne, At
<1>2. /\ "alone" \in calls
      /\ \A u \in Threads \ {t} : pc[u] = "idle" /\ holds[u] = {} /\ probe_thread # u
  BY <1>1, AloneFacts, Zenon
<1>3. /\ call' \in [Threads -> CallRec] /\ call'[t].mask = call[t].mask \ {fd}
      /\ call'[t].s = call[t].s /\ call'[t].fd = call[t].fd
      /\ \A u \in Threads \ {t} : call'[u] = call[u]
  <2>1. call \in [Threads -> CallRec] /\ call' = [call EXCEPT ![t].mask = @ \ {fd}]
    BY Zenon DEF CloseOne, IInv, TypeOK, CallRec
  <2> QED
    BY <2>1, ZenonT(30) DEF CallRec
<1>4. mapped_fd[fd] \in LwFds \cup {NoFd}
  BY Zenon DEF IInv, TypeOK
<1>5. /\ lw' \in [LwFds -> 0 .. MaxSockets]
      /\ \A x \in LwFds : lw'[x] = IF x = mapped_fd[fd] THEN 0 ELSE lw[x]
  <2>1. lw \in [LwFds -> 0 .. MaxSockets]
    BY Zenon DEF IInv, TypeOK
  <2>2. CASE LwOpen(mapped_fd[fd])
    BY <2>1, <2>2, ShimAssumption DEF CloseOne, lwip_close
  <2>3. CASE ~LwOpen(mapped_fd[fd])
    BY <2>1, <2>3, Zenon DEF CloseOne, LwOpen
  <2> QED
    BY <2>2, <2>3, Zenon
<1>6. TypeOK'
  BY <1>1, <1>3, <1>5, Zenon DEF IInv, TypeOK, CallRec
<1>7. Numbered' /\ OneAtATime' /\ Modes' /\ Descriptors'
  BY <1>1, <1>3, <1>5, <1>6, WithinKeeps, ZenonT(30)
<1>8. RelayState'
  <2>1. \A r \in relays : r[1] \in LwFds
    BY Zenon DEF IInv, TypeOK
  <2>2. \A r \in relays : lw'[r[1]] = lw[r[1]]
    BY <1>1, <1>5, <2>1, Zenon DEF IInv, RelayState
  <2> QED
    BY <1>1, <1>2, <1>3, <2>2 DEF IInv, RelayState, Drained
<1>9. Routing => open_mask = {}
  BY <1>1, Zenon DEF IInv, Modes
<1>10. Table'
  BY <1>1, <1>9, Zenon DEF Table, Routing
<1>11. Reachable'
  <2>1. CASE Routing
    <3>1. \A u \in Threads : pc[u] = "closing" => \A f \in call[u].mask :
            \/ mapped_fd[f] \notin LwFds \/ lw'[mapped_fd[f]] = 0
            \/ pc'[u] = "closing" /\ f \in call'[u].mask
      BY <1>1, <1>2, <1>3, <1>4, <1>5, Zenon
    <3>2. \A u \in Threads : pc[u] \notin {"placeholder", "track", "promoted"}
      BY <1>1, <1>2, Zenon
    <3>3. \A x \in LwFds : lw'[x] # 0 => lw'[x] = lw[x]
      BY <1>5, Zenon
    <3> QED
      BY <1>1, <1>9, <2>1, <3>1, <3>2, <3>3, CloserKeeps, Zenon
  <2>2. CASE ~Routing
    BY <1>1, <2>2, Zenon DEF Reachable, Routing
  <2> QED
    BY <2>1, <2>2, Zenon
<1>12. calls \in CallSets /\ \A u \in Threads : pc'[u] \in {"idle", "closing", "endprobe"}
  BY <1>1, <1>2, Zenon DEF IInv
<1> QED
  BY <1>1, <1>6, <1>7, <1>8, <1>10, <1>11, <1>12, AloneKeeps, Zenon

\* socketclose_all ends: nsysnet closes every descriptor.
LEMMA CloseAllNativeKeeps ==
  ASSUME IInv, TablesTakenAlone, NEW t \in Threads, CloseAllNative(t)
  PROVE  IInv'
<1> USE DEF tables, workVars, probeVars, madeVars
<1>1. /\ pc[t] = "closing" /\ call[t].mask = {} /\ Return(t)
      /\ native' = [f \in Fds |-> 0] /\ holds' = [u \in Threads |-> {}]
      /\ UNCHANGED <<lw, accepting_sockets, tables, ftp_restart_mask, probeVars, relays,
                     workVars, madeVars>>
  BY Zenon DEF CloseAllNative, At
<1>2. /\ "alone" \in calls
      /\ \A u \in Threads \ {t} : pc[u] = "idle" /\ holds[u] = {} /\ probe_thread # u
  BY <1>1, AloneFacts, Zenon
<1>3. /\ pc' \in [Threads -> Places] /\ call' \in [Threads -> CallRec]
      /\ pc'[t] = "idle" /\ call'[t] = NoCall
      /\ \A u \in Threads \ {t} : pc'[u] = pc[u] /\ call'[u] = call[u]
  BY <1>1, ThreadStep, NoCallFacts, ZenonT(30) DEF Return, Goto, Places, IInv
<1>4. TypeOK'
  BY <1>1, <1>3, ShimAssumption, SMTT(30) DEF IInv, TypeOK, CallRec
<1>5. Numbered'
  <2>1. made \in Nat /\ call'[t].s = 0
    BY <1>3, NoCallFacts, ShimAssumption DEF IInv, TypeOK
  <2> QED
    BY <1>1, <1>3, <2>1, SMTT(30) DEF IInv, Numbered
<1>6. OneAtATime'
  BY <1>1, <1>2, <1>3, OnlyOneKeeps, Zenon
<1>7. Modes'
  BY <1>1, <1>3, Zenon DEF IInv, Modes, Routing
<1>8. Descriptors'
  BY <1>1, Zenon DEF Descriptors
<1>9. RelayState'
  BY <1>1, <1>2, <1>3, Zenon DEF IInv, RelayState, Drained
<1>10. Routing => open_mask = {}
  BY <1>1, Zenon DEF IInv, Modes
<1>11. Table'
  BY <1>1, <1>10, Zenon DEF Table, Routing
<1>12. Reachable'
  <2>1. CASE Routing
    <3>1. \A u \in Threads : /\ pc[u] \notin {"placeholder", "track", "promoted"}
                             /\ pc[u] = "closing" => call[u].mask = {}
      BY <1>1, <1>2, Zenon
    <3> QED
      BY <1>1, <1>10, <2>1, <3>1, CloserKeeps, Zenon
  <2>2. CASE ~Routing
    BY <1>1, <2>2, Zenon DEF Reachable, Routing
  <2> QED
    BY <2>1, <2>2, Zenon
<1>13. calls \in CallSets /\ \A u \in Threads : pc'[u] \in {"idle", "closing", "endprobe"}
  BY <1>2, <1>3, Zenon DEF IInv
<1> QED
  BY <1>1, <1>4, <1>5, <1>6, <1>7, <1>8, <1>9, <1>11, <1>12, <1>13, AloneKeeps, Zenon

\* AXShimBeginProbe and AXShimEndProbe.
LEMMA ProbeKeeps ==
  ASSUME IInv, TablesTakenAlone, NEW t \in Threads,
         BeginProbe(t) \/ EndProbeCheck(t) \/ EndProbe(t)
  PROVE  IInv'
<1> USE DEF tables, workVars, madeVars
<1>1. /\ pc[t] \in {"idle", "endprobe"}
      /\ UNCHANGED <<native, lw, tables, ftp_restart_mask, relays, holds, workVars, madeVars>>
      /\ \/ pc[t] = "endprobe"
         \/ probe_thread = t
         \/ Able(t) /\ {"closeall", "probe"} \cap calls # {}
  BY Zenon DEF BeginProbe, EndProbeCheck, EndProbe, At
<1>2. /\ "alone" \in calls
      /\ \A u \in Threads \ {t} : pc[u] = "idle" /\ holds[u] = {} /\ probe_thread # u
  BY <1>1, AloneFacts, Zenon
<1>3. /\ pc' \in [Threads -> Places] /\ call' \in [Threads -> CallRec]
      /\ pc'[t] = (IF EndProbeCheck(t) THEN "endprobe" ELSE "idle")
      /\ call'[t] \in {NoCall, call[t]}
      /\ \A u \in Threads \ {t} : pc'[u] = pc[u] /\ call'[u] = call[u]
  <2>1. TypeOK /\ call[t] \in CallRec /\ call = [call EXCEPT ![t] = call[t]]
    BY Zenon DEF IInv, TypeOK, CallRec
  <2>2. CASE BeginProbe(t)
    BY <2>1, <2>2, ThreadStep, ZenonT(30)
       DEF BeginProbe, EndProbeCheck, At, TypeOK, CallRec, Goto
  <2>3. CASE EndProbeCheck(t)
    BY <2>1, <2>3, ThreadStep, Zenon DEF EndProbeCheck, Goto, Places
  <2>4. CASE EndProbe(t)
    BY <2>1, <2>4, ThreadStep, NoCallFacts, ZenonT(30)
       DEF EndProbe, EndProbeCheck, At, Return, Goto, Places
  <2> QED
    BY <2>2, <2>3, <2>4, Zenon
<1>4. /\ accepting_sockets' \in BOOLEAN /\ probe_owns_accepting' \in BOOLEAN
      /\ probe_thread' \in Threads \cup {"none"} /\ probe_baseline_open_mask' \subseteq Fds
  BY Zenon DEF BeginProbe, EndProbeCheck, EndProbe, probeVars, IInv, TypeOK
<1>5. TypeOK'
  BY <1>1, <1>3, <1>4, Zenon DEF IInv, TypeOK, CallRec
<1>6. Numbered'
  <2>1. made \in Nat /\ call'[t].s \in {0, call[t].s}
    BY <1>3, NoCallFacts, ShimAssumption DEF IInv, TypeOK
  <2>2. 0 <= made
    BY <2>1
  <2>3. \A u \in Threads : call'[u].s \in {0, call[u].s}
    BY <1>3, <2>1, Zenon
  <2> QED
    BY <1>1, <2>2, <2>3, ZenonT(30) DEF IInv, Numbered
<1>7. OneAtATime'
  <2>1. probe_thread' \in {t, "none", probe_thread}
    BY Zenon DEF BeginProbe, EndProbeCheck, EndProbe, probeVars
  <2>2. \A u \in Threads \ {t} : pc'[u] = "idle" /\ holds'[u] = {} /\ probe_thread' # u
    BY <1>1, <1>2, <1>3, <2>1, ShimAssumption, ZenonT(30)
  <2> QED
    BY <1>1, <1>2, <2>2, OnlyOneKeeps, Zenon
<1>8. Modes'
  <2>1. \A u \in Threads : pc[u] # "closing" /\ pc'[u] \in {"idle", "endprobe"}
    BY <1>1, <1>2, <1>3, Zenon
  <2>2. CASE BeginProbe(t)
    <3>1. \A u \in Threads : pc'[u] = "idle"
      BY <1>2, <1>3, <2>2, Zenon DEF BeginProbe, EndProbeCheck, At, Goto
    <3>2. Routing /\ accepting_sockets' = TRUE /\ probe_owns_accepting' = ~accepting_sockets
          /\ probe_baseline_open_mask' = open_mask
      BY <2>2, Zenon DEF BeginProbe, Routing
    <3> QED
      BY <1>1, <3>1, <3>2, Zenon DEF IInv, Modes, Routing
  <2>3. CASE EndProbeCheck(t)
    <3>1. /\ open_mask \subseteq probe_baseline_open_mask
          /\ UNCHANGED <<accepting_sockets, probe_owns_accepting, probe_baseline_open_mask>>
      BY <2>3, Zenon DEF EndProbeCheck, probeVars
    <3>2. probe_owns_accepting => open_mask = {}
      BY <3>1, Zenon DEF IInv, Modes
    <3> QED
      BY <1>1, <2>1, <3>1, <3>2, Zenon DEF IInv, Modes, Routing
  <2>4. CASE EndProbe(t)
    <3>1. /\ accepting_sockets' = (accepting_sockets /\ ~probe_owns_accepting)
          /\ probe_owns_accepting' = FALSE /\ probe_baseline_open_mask' = {} /\ pc[t] = "endprobe"
      BY <2>4, Zenon DEF EndProbe, At
    <3> QED
      BY <1>1, <2>1, <3>1, Zenon DEF IInv, Modes, Routing
  <2> QED
    BY <2>2, <2>3, <2>4, Zenon
<1>9. Descriptors'
  BY <1>1, ZenonT(30) DEF IInv, Descriptors
<1>10. RelayState'
  BY <1>1, <1>2, <1>3, Zenon DEF IInv, RelayState, Drained
<1>11. \A f \in Fds : Leaving(f)' = {} /\ Leaving(f) = {}
  BY <1>1, <1>2, <1>3, Zenon DEF Leaving
<1>12. open_mask \subseteq Fds
  BY Zenon DEF IInv, TypeOK
<1>13. Table'
  BY <1>1, <1>11, <1>12, Zenon DEF IInv, Table, Routing
<1>14. Reachable'
  <2>1. \A f \in open_mask : Leaving(f)' = {}
    BY <1>11, <1>12, Zenon
  <2>2. \A u \in Threads : pc[u] \notin {"placeholder", "track", "promoted", "closing"}
    BY <1>1, <1>2, Zenon
  <2> QED
    BY <1>1, <2>1, <2>2, CloserKeeps, Zenon DEF Routing
<1>15. calls \in CallSets /\ \A u \in Threads : pc'[u] \in {"idle", "closing", "endprobe"}
  BY <1>2, <1>3, Zenon DEF IInv
<1> QED
  BY <1>1, <1>5, <1>6, <1>7, <1>8, <1>9, <1>10, <1>13, <1>14, <1>15, AloneKeeps, Zenon

-------------------------------------------------------------------------------
(* Steps of the worker.                                                      *)

\* The worker leaves the calls alone, and closes only what it drains.
LEMMA WorkerKeeps ==
  ASSUME IInv, TypeOK', UNCHANGED <<native, probe_thread, relays, pc, call, holds, madeVars>>,
         \A l \in LwFds : lw'[l] = lw[l] \/ (wpc' = "drain" /\ lw'[l] = 0),
         \A f \in Fds : \/ mapped_fd'[f] = mapped_fd[f]
                        \/ wpc' = "drain" /\ mapped_fd'[f] = NoFd,
         \A f \in Fds : compat_sock'[f] \in {0, compat_sock[f]},
         wpc = "drain" => wpc' = "drain",
         wpc' = "drain" => "alone" \in calls
  PROVE  /\ Numbered' /\ OneAtATime' /\ Descriptors' /\ Distinct'
         /\ \A u \in Threads : CallState(u)' /\ LwState(u)'
         /\ \A f \in Fds : Leaving(f)' = Leaving(f)
<1> USE DEF madeVars
<1>1. Numbered'
  <2>1. made \in Nat
    BY ShimAssumption DEF IInv, TypeOK
  <2>2. \A l \in LwFds : lw'[l] <= made
    <3>1. 0 <= made
      BY <2>1
    <3> QED
      BY <3>1, Zenon DEF IInv, Numbered
  <2> QED
    BY <2>2, ZenonT(30) DEF IInv, Numbered
<1>2. OneAtATime'
  BY ZenonT(30) DEF IInv, OneAtATime, Active
<1>3. Descriptors' /\ Distinct'
  BY DEF IInv, Descriptors, Distinct
<1>4. ASSUME NEW u \in Threads PROVE CallState(u)' /\ LwState(u)'
  <2>1. CallState(u) /\ LwState(u)
    BY Zenon DEF IInv
  <2>2. pc[u] \in {"stack", "bridge", "promote"} => call[u].fd \in Fds
    BY Apart, Zenon DEF OnFd
  <2>3. CallState(u)'
    BY <2>1, Zenon DEF CallState
  <2>4. LwState(u)'
    BY <2>1, <2>2, ZenonT(30) DEF LwState, Routed, Drained, HasLw
  <2> QED
    BY <2>3, <2>4, Zenon
<1>5. \A f \in Fds : Leaving(f)' = Leaving(f)
  BY Zenon DEF Leaving
<1> QED
  BY <1>1, <1>2, <1>3, <1>4, <1>5, Zenon

\* Installing the patches may switch routing on, stop_accepting switches it off, and the drain
\* takes open_mask.
LEMMA SwitchKeeps ==
  ASSUME IInv, TablesTakenAlone, (\E ok \in BOOLEAN : Install(ok)) \/ Quiesce \/ DrainTake
  PROVE  IInv'
<1> USE DEF tables, probeVars, madeVars
<1>1. /\ UNCHANGED <<native, lw, mapped_fd, compat_sock, ftp_restart_mask, probe_thread,
                     probe_baseline_open_mask, relays, pc, call, holds, scan, madeVars>>
      /\ wpc # "drain"
      /\ open_mask' \cup drained' \subseteq open_mask \cup drained
  BY Zenon DEF Install, Quiesce, DrainTake
<1>2. TypeOK'
  BY <1>1, Zenon DEF IInv, TypeOK, Install, Quiesce, DrainTake
<1>3. wpc' = "drain" => "alone" \in calls
  <2>1. DrainTake => "drain" \in calls
    BY Zenon DEF DrainTake
  <2>2. "drain" \in calls => "alone" \in calls
    BY Zenon DEF TablesTakenAlone, IInv
  <2> QED
    BY <2>1, <2>2, Zenon DEF Install, Quiesce
<1>4. /\ Numbered' /\ OneAtATime' /\ Descriptors' /\ Distinct'
      /\ \A u \in Threads : CallState(u)' /\ LwState(u)'
      /\ \A f \in Fds : Leaving(f)' = Leaving(f)
  BY <1>1, <1>2, <1>3, WorkerKeeps, Zenon
<1>5. Modes'
  <2>1. CASE \E ok \in BOOLEAN : Install(ok)
    <3>1. /\ wpc = "up" /\ wpc' = "on" /\ (accepting_sockets => accepting_sockets')
          /\ UNCHANGED <<open_mask, probe_owns_accepting, drained>>
      BY <2>1, Zenon DEF Install
    <3> QED
      BY <1>1, <3>1, Zenon DEF IInv, Modes, Routing
  <2>2. CASE Quiesce
    BY <1>1, <2>2, Zenon DEF IInv, Modes, Routing, Quiesce
  <2>3. CASE DrainTake
    BY <1>1, <2>3, Zenon DEF IInv, Modes, Routing, DrainTake
  <2> QED
    BY <2>1, <2>2, <2>3, Zenon
<1>6. RelayState'
  <2>1. \A r \in relays : lw[r[1]] = r[2]
    BY <1>1, Zenon DEF IInv, RelayState, Drained
  <2> QED
    BY <1>1, <2>1, ZenonT(30) DEF IInv, RelayState
<1>7. Routing' => Routing /\ open_mask' = open_mask
  BY Zenon DEF Install, Quiesce, DrainTake, Routing
<1>8. open_mask \subseteq Fds
  BY Zenon DEF IInv, TypeOK
<1>9. Table' /\ Untracked'
  BY <1>1, <1>4, <1>7, <1>8, Zenon DEF IInv, Table, Untracked
<1>10. Reachable'
  <2>1. CASE Routing'
    <3>1. \A f \in open_mask : f \in open_mask' /\ Leaving(f)' = Leaving(f)
      BY <1>4, <1>7, <1>8, <2>1, Zenon
    <3> QED
      BY <1>1, <1>7, <2>1, <3>1, CloserKeeps, Zenon
  <2>2. CASE ~Routing'
    BY <2>2, Zenon DEF Reachable
  <2> QED
    BY <2>1, <2>2, Zenon
<1> QED
  BY <1>1, <1>2, <1>4, <1>5, <1>6, <1>9, <1>10, Zenon DEF IInv

\* The worker drains one descriptor.
LEMMA DrainOneKeeps ==
  ASSUME IInv, NEW fd \in Fds, DrainOne(fd)
  PROVE  IInv'
<1> USE DEF probeVars, madeVars
<1>1. /\ wpc = "drain" /\ fd \in drained /\ drained' = drained \ {fd}
      /\ UNCHANGED <<native, accepting_sockets, open_mask, ftp_restart_mask, probeVars, relays,
                     pc, call, holds, wpc, scan, madeVars>>
  BY ZenonT(30) DEF DrainOne
<1>2. /\ mapped_fd' \in [Fds -> LwFds \cup {NoFd}]
      /\ compat_sock' \in [Fds -> 0 .. MaxSockets]
      /\ \A f \in Fds : mapped_fd'[f] = IF f = fd THEN NoFd ELSE mapped_fd[f]
      /\ \A f \in Fds : compat_sock'[f] = IF f = fd THEN 0 ELSE compat_sock[f]
  BY ShimAssumption DEF DrainOne, IInv, TypeOK
<1>3. /\ lw' \in [LwFds -> 0 .. MaxSockets]
      /\ \A x \in LwFds : lw'[x] = IF x = mapped_fd[fd] THEN 0 ELSE lw[x]
  <2>1. lw \in [LwFds -> 0 .. MaxSockets]
    BY Zenon DEF IInv, TypeOK
  <2>2. CASE LwOpen(mapped_fd[fd])
    <3>1. lw' = [lw EXCEPT ![mapped_fd[fd]] = 0]
      BY <2>2, Zenon DEF DrainOne, lwip_close
    <3>2. 0 \in 0 .. MaxSockets
      BY ShimAssumption
    <3> QED
      BY <2>1, <3>1, <3>2, Zenon
  <2>3. CASE ~LwOpen(mapped_fd[fd])
    BY <2>1, <2>3, Zenon DEF DrainOne, LwOpen
  <2> QED
    BY <2>2, <2>3, Zenon
<1>4. TypeOK'
  BY <1>1, <1>2, <1>3, Zenon DEF IInv, TypeOK
<1>5. "alone" \in calls
  BY <1>1, Zenon DEF IInv, OneAtATime
<1>6. /\ Numbered' /\ OneAtATime' /\ Descriptors' /\ Distinct'
      /\ \A u \in Threads : CallState(u)' /\ LwState(u)'
  BY <1>1, <1>2, <1>3, <1>4, <1>5, WorkerKeeps, Zenon
<1>7. Modes'
  BY <1>1, Zenon DEF IInv, Modes, Routing
<1>8. RelayState'
  <2>1. \A r \in relays : r[1] \in LwFds
    BY Zenon DEF IInv, TypeOK
  <2>2. \A r \in relays : lw'[r[1]] \in {r[2]} \cup Drained'
    BY <1>1, <1>3, <2>1, ZenonT(30) DEF IInv, RelayState, Drained
  <2>3. \A r \in relays : \A f \in Fds : mapped_fd[f] # r[1] => mapped_fd'[f] # r[1]
    BY <1>2, <2>1, ShimAssumption
  <2>4. \A u \in Threads : call[u].mask \subseteq Fds /\ open_mask \cup drained \subseteq Fds
    BY Zenon DEF IInv, TypeOK
  <2>5. \A u \in Threads : pc[u] = "closing" =>
          \A f \in call[u].mask, r \in relays : mapped_fd'[f] # r[1]
    BY <2>3, <2>4, Zenon DEF IInv, RelayState
  <2>6. ASSUME NEW u \in Threads, pc[u] = "stack", call[u].op = "accept", NEW r \in relays
        PROVE  lw'[r[1]] = r[2] /\ \A f \in open_mask' \cup drained' : mapped_fd'[f] # r[1]
    <3>1. lw[r[1]] = r[2] /\ \A f \in open_mask \cup drained : mapped_fd[f] # r[1]
      BY <1>5, <2>6, Zenon DEF IInv, RelayState
    <3> QED
      BY <1>1, <1>3, <2>1, <2>3, <2>4, <3>1, Zenon
  <2> QED
    BY <1>1, <2>2, <2>5, <2>6, Zenon DEF RelayState
<1>9. Table' /\ Untracked' /\ Reachable'
  BY <1>1, Zenon DEF Table, Untracked, Reachable, Routing
<1> QED
  BY <1>1, <1>4, <1>6, <1>7, <1>8, <1>9, Zenon DEF IInv

\* The next title starts with nothing.
LEMMA NextTitleKeeps ==
  ASSUME IInv, NextTitle
  PROVE  IInv'
<1> USE DEF NextTitle, madeVars
<1>1. made \in Nat
  BY ShimAssumption DEF IInv, TypeOK
<1>2. TypeOK'
  BY NoCallFacts, ShimAssumption, ZenonT(30) DEF IInv, TypeOK, Places, CallRec
<1>3. Numbered' /\ Descriptors'
  BY <1>1, NoCallFacts DEF Numbered, Descriptors
<1>4. OneAtATime'
  BY ShimAssumption, Zenon DEF OneAtATime, Active
<1>5. Modes' /\ RelayState' /\ Table' /\ Reachable'
  BY Zenon DEF Modes, Routing, RelayState, Table, Reachable
<1>6. calls \in CallSets /\ \A u \in Threads : pc'[u] \in {"idle", "closing", "endprobe"}
  BY Zenon DEF IInv
<1> QED
  BY <1>2, <1>3, <1>4, <1>5, <1>6, AloneKeeps, ZenonT(30)

\* The FTP handoff concerns only the mark of a native listener.
LEMMA FtpKeeps ==
  ASSUME IInv,
         \/ \E fd \in Fds : FtpCheck(fd)
         \/ FtpMark
         \/ \E t \in Threads, fd \in Fds, s \in Serials : SelectMarked(t, fd, s)
         \/ UNCHANGED vars
  PROVE  IInv'
<1>1. UNCHANGED <<native, lw, accepting_sockets, tables, probeVars, relays, pc, call, holds,
                  wpc, drained, calls, made, axMade, listeners>>
  BY Zenon DEF FtpCheck, FtpMark, SelectMarked, vars, workVars, madeVars
<1>2. ftp_restart_mask' \subseteq Fds /\ scan' \in Fds \cup {NoFd}
  BY Zenon DEF FtpCheck, FtpMark, SelectMarked, vars, workVars, IInv, TypeOK
<1>3. TypeOK'
  BY <1>1, <1>2, Zenon DEF IInv, TypeOK, tables, probeVars
<1> QED
  BY <1>1, <1>3, StillKeeps, Zenon

-------------------------------------------------------------------------------
(* The invariant and the theorems.                                           *)

\* Nothing is open when the plugin begins.
LEMMA InitIInv == Init => IInv
<1> SUFFICES ASSUME Init PROVE IInv
  BY Zenon
<1> USE DEF Init
<1>1. TypeOK
  BY NoCallFacts, ShimAssumption, ZenonT(30) DEF TypeOK, Places, CallRec
<1>2. Numbered /\ Descriptors /\ Distinct
  BY NoCallFacts DEF Numbered, Descriptors, Distinct, OnFd, Making
<1>3. OneAtATime
  BY ShimAssumption, Zenon DEF OneAtATime, Active
<1>4. Modes /\ RelayState /\ Table /\ Untracked /\ Reachable
  BY Zenon DEF Modes, Routing, RelayState, Table, Untracked, Reachable
<1>5. \A t \in Threads : CallState(t) /\ LwState(t)
  BY Zenon DEF CallState, LwState, Routed, OnFd, Making, HasLw
<1> QED
  BY <1>1, <1>2, <1>3, <1>4, <1>5, Zenon DEF IInv

\* Every step of a title's thread, a relay or the worker keeps the invariant.
LEMMA NextIInv ==
  ASSUME TablesTakenAlone, IInv, [Next]_vars
  PROVE  IInv'
<1>1. ASSUME NEW t \in Threads, Title(t) PROVE IInv'
  <2>1. ASSUME NEW fd \in Fds, NEW ftp \in BOOLEAN, SocketNative(t, fd, ftp) PROVE IInv'
    BY <2>1, SocketNativeKeeps, Zenon
  <2>2. ASSUME NEW l \in LwFds, SocketAx(t, l) PROVE IInv'
    BY <2>2, LwNewKeeps, Zenon DEF SocketAx, At
  <2>3. ASSUME NEW fd \in Fds, Placeholder(t, fd) PROVE IInv'
    BY <2>3, PlaceholderKeeps, Zenon
  <2>4. CASE NoPlaceholder(t)
    BY <2>4, GiveUpKeeps, Zenon
  <2>5. CASE Track(t)
    BY <2>5, TrackKeeps, Zenon
  <2>6. ASSUME NEW fd \in Fds, NEW s \in Serials, NEW op \in AllCalls, Enter(t, fd, s, op)
        PROVE  IInv'
    BY <2>6, EnterKeeps, Zenon
  <2>7. CASE UseNative(t) \/ UseStack(t) \/ StackFails(t)
    BY <2>7, UseKeeps, Zenon
  <2>8. CASE SetOption(t)
    BY <2>8, SetOptionKeeps, Zenon
  <2>9. ASSUME NEW l \in LwFds, AcceptStack(t, l) PROVE IInv'
    BY <2>9, LwNewKeeps, ZenonT(30) DEF AcceptStack, At, Active
  <2>10. CASE CloseForeign(t)
    BY <2>10, CloseForeignKeeps, Zenon
  <2>11. CASE CloseStack(t)
    BY <2>11, CloseStackKeeps, Zenon
  <2>12. CASE CloseStackFails(t)
    BY <2>12, CloseStackFailsKeeps, Zenon
  <2>13. CASE Untrack(t)
    BY <2>13, UntrackKeeps, Zenon
  <2>14. CASE Release(t)
    BY <2>14, ReleaseKeeps, Zenon
  <2> QED
    BY <1>1, <2>1, <2>2, <2>3, <2>4, <2>5, <2>6, <2>7, <2>8, <2>9, <2>10, <2>11, <2>12,
      <2>13, <2>14, SMTT(30) DEF Title
<1>2. ASSUME NEW t \in Threads, Nssl(t) PROVE IInv'
  BY <1>2, ReadBackingKeeps, UseKeeps, GiveToRelayKeeps, UntrackKeeps, GiveUpKeeps, Zenon
     DEF Nssl
<1>3. ASSUME NEW t \in Threads, Rare(t) PROVE IInv'
  <2>1. ASSUME NEW fd \in Fds, NEW s \in Serials, Select(t, fd, s) PROVE IInv'
    <3>1. "select" \in AllCalls
      BY Zenon DEF AllCalls
    <3> QED
      BY <2>1, <3>1, EnterKeeps, Zenon
  <2>2. ASSUME NEW fd \in Fds, NEW s \in Serials, SelectMarked(t, fd, s) PROVE IInv'
    BY <2>2, FtpKeeps, Zenon
  <2>3. CASE CloseAll(t)
    BY <2>3, CloseAllKeeps, Zenon
  <2>4. ASSUME NEW fd \in Fds, CloseOne(t, fd) PROVE IInv'
    BY <2>4, CloseOneKeeps, Zenon
  <2>5. CASE CloseAllNative(t)
    BY <2>5, CloseAllNativeKeeps, Zenon
  <2>6. CASE BeginProbe(t) \/ EndProbeCheck(t) \/ EndProbe(t)
    BY <2>6, ProbeKeeps, Zenon
  <2> QED
    BY <1>3, <2>1, <2>2, <2>3, <2>4, <2>5, <2>6, Zenon DEF Rare
<1>4. ASSUME NEW r \in relays, RelayEnds(r) PROVE IInv'
  BY <1>4, RelayEndsKeeps, Zenon
<1>5. CASE Worker
  BY <1>5, SwitchKeeps, DrainOneKeeps, NextTitleKeeps, FtpKeeps, Zenon DEF Worker
<1>6. CASE UNCHANGED vars
  BY <1>6, FtpKeeps, Zenon
<1> QED
  BY <1>1, <1>2, <1>3, <1>4, <1>5, <1>6, ZenonT(30) DEF Next

\* The invariant says what the properties say.
LEMMA IInvImplies == IInv => BackingIsOwn /\ CallReachesOwnSocket /\ NoOrphanSocket /\ HeldIsOpen
<1> SUFFICES ASSUME IInv PROVE BackingIsOwn /\ CallReachesOwnSocket /\ NoOrphanSocket /\ HeldIsOpen
  BY Zenon
<1>1. accepting_sockets => Routing
  BY Zenon DEF IInv, Modes
<1>2. BackingIsOwn
  BY <1>1, Zenon DEF IInv, Table, BackingIsOwn, LwOpen
<1>3. CallReachesOwnSocket
  <2>1. ASSUME NEW t \in Threads
        PROVE  /\ pc[t] = "stack" /\ call[t].op # "select" => compat_sock[call[t].fd] \in {0, call[t].s}
               /\ pc[t] = "stack" /\ call[t].accepted /\ mapped_fd[call[t].fd] # NoFd
                    => lw[mapped_fd[call[t].fd]] \in {0, call[t].s}
               /\ pc[t] \in HasLw => lw[call[t].lwfd] \in {call[t].s} \cup Drained
    <3>1. LwState(t)
      BY Zenon DEF IInv
    <3> QED
      BY <3>1, Zenon DEF LwState, Routed, Drained
  <2>2. \A t \in Threads : pc[t] \in {"foreign", "release"} => native[call[t].fd] = call[t].s
    BY Apart, Zenon DEF OnFd
  <2> QED
    BY <2>1, <2>2, Zenon DEF CallReachesOwnSocket, OptionsAreOwn, HasLw, IInv, RelayState
<1>4. NoOrphanSocket
  <2>1. \A l \in LwFds : Closer(l) =>
          \/ \E fd \in open_mask : mapped_fd[fd] = l
          \/ \E t \in Threads : call[t].lwfd = l \/ \E fd \in call[t].mask : mapped_fd[fd] = l
          \/ <<l, lw[l]>> \in relays
    BY Zenon DEF Closer
  <2> QED
    BY <1>1, <2>1, Zenon DEF IInv, Reachable, NoOrphanSocket
<1>5. HeldIsOpen
  BY Zenon DEF IInv, Descriptors, HeldIsOpen
<1> QED
  BY <1>2, <1>3, <1>4, <1>5, Zenon

\* IInv holds throughout.
LEMMA Invariance ==
  ASSUME TablesTakenAlone
  PROVE  Spec => []IInv
<1>1. IInv /\ [Next]_vars => IInv'
  BY NextIInv, Zenon
<1> QED
  BY <1>1, InitIInv, PTL DEF Spec

\* open_mask and mapped_fd lead from a public descriptor to the lwIP socket that track_fd put
\* behind it, however nsysnet and lwIP recycle their numbers: a tracked descriptor's backing
\* is open and its own, unless a call is just taking it away.
THEOREM BackingKept ==
  ASSUME TablesTakenAlone
  PROVE  Spec => []BackingIsOwn
BY Invariance, IInvImplies, PTL

\* The shim's calls read mapped_fd after they asked is_foreign, without a lock.  A call that
\* was routed to lwIP, or passed to nsysnet, still works on the socket it was made for; a
\* lwIP socket that a call or a relay has in its hands is nobody else's; and setsockopt's
\* remembered options are those of the descriptor's present socket.
THEOREM CallsReachTheirSocket ==
  ASSUME TablesTakenAlone
  PROVE  Spec => []CallReachesOwnSocket
BY Invariance, IInvImplies, PTL

\* While the shim routes, every lwIP socket has somebody who will close it: socketclose through
\* open_mask, the call that made it or promotes it, socketclose_all, or a relay.
THEOREM NoSocketLost ==
  ASSUME TablesTakenAlone
  PROVE  Spec => []NoOrphanSocket
BY Invariance, IInvImplies, PTL

\* nsysnet_shim_drain_owned_sockets and stop_accepting leave public descriptors to the title:
\* one that a thread holds is its own native socket until it closes it.
THEOREM HeldStaysOpen ==
  ASSUME TablesTakenAlone
  PROVE  Spec => []HeldIsOpen
BY Invariance, IInvImplies, PTL

===============================================================================
