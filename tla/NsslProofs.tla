------------------------------ MODULE NsslProofs ------------------------------
(***************************************************************************)
(* Proofs about NsslRelay, for any threads, descriptors, slots and sockets, *)
(* with a title that ends, dies and starts again at any step.              *)
(*                                                                         *)
(* The one condition is that a title makes its NSSL connections one after  *)
(* the other (CallsApart).  CallState is what that leaves of the calls in  *)
(* progress, TitlePhase what the worker's progress says about everybody    *)
(* else.  SerialState says where the number of a lwIP socket can be: in    *)
(* mapped_fd, in one slot, or for the moment of the hand-over in both.     *)
(* SlotState holds while the title runs; it is lost while the title ends,  *)
(* when two reapers meet, and holds again when the next one starts because *)
(* no relay has survived.  OwnerState, on top of these, follows each open  *)
(* lwIP socket to the one that has to close it.                            *)
(***************************************************************************)
EXTENDS NsslRelay, TLAPS

\* NSSLCreateConnection is called by one thread at a time, and NSSLFinish and
\* socketclose_all by one whose fellows are in no call.  With two at once the reap of one
\* frees a slot that the other has just taken (NsslRelay_reap).
CallsApart == "overlap" \notin Calls

\* What public_fd and native_fd hold.
Numbers == Fds \cup {NoFd}

\* A slot of nssl_relays.
Relays == [allocated : BOOLEAN, ready : BOOLEAN, stop : BOOLEAN, done : BOOLEAN,
           public_fd : Numbers, native_fd : Numbers, lwfd : Nat]

\* What a call goes on with.
Thens == {"idle", "reserve", "finished", "closeall", "stopped", "begin"}

\* The variables of a call.
Locals == [fd : Numbers, lw : Nat, slot : Nat, i : Slots, then : Thens, mask : SUBSET Fds]

\* The steps of the calls.
Steps == Thens \cup {"reap", "join", "create", "tunnel", "given", "connect", "release",
                     "closenative", "wake", "booting", "dead"}

\* The types of what the proofs compute with.
RelayTypes ==
  /\ slot \in [Slots -> Relays]
  /\ thread \in [Slots -> {"none", "wait", "pump", "out", "closed", "exit", "terminated", "dead"}]
  /\ public \in [Fds -> Nat] /\ mapped_fd \in [Fds -> Nat]
  /\ made \in Nat /\ lwOpen \subseteq Nat \ {0}
  /\ pc \in [Callers -> Steps] /\ loc \in [Callers -> Locals]
  /\ accepting_sockets \in BOOLEAN

\* Where thread t is in its call, and what the call works on.
CallOf(t) ==
  /\ pc[t] \in {"idle", "dead"} => loc[t] = Nothing
  /\ pc[t] = "release" => loc[t].then = "idle" /\ loc[t].fd \in Fds
  /\ pc[t] \in {"reap", "join"} => loc[t].then \in {"reserve", "finished"}
  /\ pc[t] \in {"reserve", "create", "tunnel", "given", "connect"} => Creating(t)
  /\ pc[t] \in {"create", "tunnel", "given", "connect"} => loc[t].slot \in Slots
  /\ pc[t] = "finished" => loc[t].then = "finished"
  /\ pc[t] \in {"closeall", "closenative"} => loc[t].then = "closeall"
  /\ Creating(t) => loc[t].fd \in Fds /\ loc[t].lw # 0

\* Two threads: one creates, a call that concerns everything is alone, and no descriptor
\* is used by both.
TwoCalls(t, u) ==
  /\ ~(Creating(t) /\ Creating(u))
  /\ Whole(t) => pc[u] = "idle"
  /\ loc[t].fd # NoFd => loc[t].fd # loc[u].fd

CallState ==
  /\ \A t \in Threads : CallOf(t)
  /\ \A t, u \in Threads : t # u => TwoCalls(t, u)

\* The old process is dead and the new one has not got the adapter up.
Between == pc["worker"] = "booting" \/ loc["worker"].then = "begin"

\* The shim accepts sockets while the worker rests.  Between two titles no relay runs, no
\* lwIP socket is open and nobody hands one over.
TitlePhase ==
  /\ accepting_sockets <=> pc["worker"] = "idle"
  /\ pc["worker"] \in {"idle", "booting", "wake", "reap", "join", "stopped", "begin"}
  /\ loc["worker"].then \in {"idle", "stopped", "begin"}
  /\ loc["worker"].then = "idle" <=> pc["worker"] \in {"idle", "booting"}
  /\ pc["worker"] = "begin" => loc["worker"].then = "begin"
  /\ pc["worker"] = "booting" => mapped_fd = None
  /\ loc["worker"].then = "begin" => \A t \in Threads : pc[t] = "dead"
  /\ Between => /\ lwOpen = {}
                /\ \A r \in Slots : ~Running(r)
                /\ \A t \in Threads : ~Creating(t)

\* Thread t has taken its lwIP socket from mapped_fd: the slot does not have it yet; and
\* mapped_fd does.
Pending(t) == Creating(t) /\ pc[t] \notin {"given", "connect"}
Holding(t) == Creating(t) /\ pc[t] # "connect"

\* A lwIP socket is under one descriptor and in one slot, and in both only during the
\* hand-over or when its process died in it.
SerialState ==
  /\ \A fd \in Fds : mapped_fd[fd] <= made
  /\ \A r \in Slots : slot[r].lwfd <= made
  /\ \A f, g \in Fds : f # g /\ mapped_fd[f] # 0 => mapped_fd[f] # mapped_fd[g]
  /\ \A q, r \in Slots : q # r /\ slot[q].lwfd # 0 => slot[q].lwfd # slot[r].lwfd
  /\ \A fd \in Fds, r \in Slots :
       mapped_fd[fd] # 0 /\ slot[r].lwfd = mapped_fd[fd]
         => \/ loc["worker"].then = "begin"
            \/ \E t \in Threads : pc[t] = "given" /\ loc[t].lw = slot[r].lwfd
  /\ \A t \in Threads :
       /\ Holding(t) => /\ loc[t].lw <= made
                        /\ \A fd \in Fds : mapped_fd[fd] = loc[t].lw => fd = loc[t].fd
       /\ Pending(t) => \A r \in Slots : slot[r].lwfd # loc[t].lw

\* The slot thread t's call fills: nobody stops, reaps or detaches it on the way.
Making(t) ==
  LET r == loc[t].slot IN
  /\ pc[t] = "create" => slot[r].allocated /\ ~Running(r)
  /\ pc[t] \in {"tunnel", "given"} => thread[r] = "wait" /\ ~slot[r].stop /\ ~slot[r].ready
  /\ pc[t] = "tunnel" => slot[r].lwfd = 0 /\ slot[r].public_fd = NoFd
  /\ pc[t] = "given" => slot[r].lwfd = loc[t].lw /\ slot[r].public_fd = loc[t].fd

\* While the title runs, a slot whose thread runs is allocated, and empty once the thread
\* has closed its sockets.
SlotState ==
  accepting_sockets =>
    /\ \A r \in Slots : Running(r) => slot[r].allocated
    /\ \A r \in Slots : thread[r] \in {"closed", "exit"} => slot[r].lwfd = 0
    /\ \A t \in Threads : Making(t)

\* The inductive invariant of the slots.
IInv == RelayTypes /\ CallState /\ TitlePhase /\ SerialState /\ SlotState

\* The title and its lwIP sockets: what mapped_fd has is the title's open descriptor, a
\* descriptor being closed is not in it, and a socket being handed over is.
TitleKeeps(t) ==
  /\ pc[t] = "release" => public[loc[t].fd] # 0 /\ mapped_fd[loc[t].fd] = 0
  /\ pc[t] = "closenative" => mapped_fd = None
  /\ Holding(t) => mapped_fd[loc[t].fd] = loc[t].lw

\* Every open lwIP socket is the title's, or a thread that runs has to close it.
Owned == accepting_sockets =>
           \A s \in lwOpen : \/ \E fd \in Fds : mapped_fd[fd] = s
                             \/ \E r \in Slots : Running(r) /\ slot[r].lwfd = s

\* The invariant of the hand-over, as long as no relay closes a recycled number.
OwnerState ==
  /\ loc["worker"].then = "idle" =>
       /\ \A fd \in Fds : mapped_fd[fd] # 0 => public[fd] = mapped_fd[fd]
       /\ \A t \in Threads : TitleKeeps(t)
  /\ Owned

-------------------------------------------------------------------------------
(* Facts about slots and calls.                                              *)

\* The empty slot and the call that has not begun are well typed, and the worker is not a
\* thread of the title.
LEMMA SlotFacts ==
  /\ Slots \subseteq Nat \ {0} /\ Empty \in Relays /\ Nothing \in Locals
  /\ Threads \subseteq Callers /\ "worker" \in Callers /\ "worker" \notin Threads
  /\ NoFd \notin Fds /\ None \in [Fds -> Nat] /\ Nothing.then = "idle" /\ Nothing.fd = NoFd
BY RelayAssumption DEF Slots, Empty, Nothing, None, Relays, Locals, Numbers, Callers, Thens

\* Setting a field keeps a record's type and the other fields.
LEMMA FieldFacts ==
  /\ \A x \in Relays, b \in BOOLEAN : /\ [x EXCEPT !.stop = b] \in Relays
                                      /\ [x EXCEPT !.allocated = b] \in Relays
                                      /\ [x EXCEPT !.ready = b] \in Relays
  /\ \A y \in Locals, n \in Nat : [y EXCEPT !.slot = n] \in Locals
  /\ \A y \in Locals, r \in Slots : [y EXCEPT !.i = r] \in Locals
  /\ \A y \in Locals, f \in Numbers : [y EXCEPT !.fd = f] \in Locals
  /\ \A y \in Locals, p \in Thens : [y EXCEPT !.then = p] \in Locals
BY Zenon DEF Relays, Locals

\* Everybody but c stays where it is.
Moves(c) == \A d \in Callers \ {c} : pc'[d] = pc[d] /\ loc'[d] = loc[d]

\* A call returns.
LEMMA ReturnFacts ==
  ASSUME RelayTypes, NEW c \in Callers, Return(c)
  PROVE  /\ pc' \in [Callers -> Steps] /\ loc' \in [Callers -> Locals]
         /\ Moves(c) /\ pc'[c] = "idle" /\ loc'[c] = Nothing
<1>1. pc' = [pc EXCEPT ![c] = "idle"] /\ loc' = [loc EXCEPT ![c] = Nothing] /\ "idle" \in Steps
  BY Zenon DEF Return, Goto, Steps, Thens
<1> QED
  BY <1>1, SlotFacts, Zenon DEF RelayTypes, Moves

\* It goes to its next step.
LEMMA GotoFacts ==
  ASSUME RelayTypes, NEW c \in Callers, NEW p \in Steps, NEW y \in Locals,
         Goto(c, p), loc' = [loc EXCEPT ![c] = y]
  PROVE  /\ pc' \in [Callers -> Steps] /\ loc' \in [Callers -> Locals]
         /\ Moves(c) /\ pc'[c] = p /\ loc'[c] = y
BY Zenon DEF RelayTypes, Goto, Moves

\* nssl_relay_reap goes to the next slot or ends.
LEMMA AdvanceFacts ==
  ASSUME RelayTypes, NEW c \in Callers, Advance(c)
  PROVE  /\ pc' \in [Callers -> Steps] /\ loc' \in [Callers -> Locals]
         /\ Moves(c) /\ pc'[c] \in {"reap", loc[c].then}
         /\ loc'[c].then = loc[c].then /\ loc'[c].fd = loc[c].fd
         /\ loc'[c].lw = loc[c].lw /\ loc'[c].slot = loc[c].slot
<1>1. loc[c] \in Locals /\ loc[c].then \in Steps /\ "reap" \in Steps
  BY Zenon DEF RelayTypes, Locals, Steps
<1>2. loc[c].i \in Slots /\ 1 \in Slots /\ (loc[c].i # NSSL_RELAY_MAX => loc[c].i + 1 \in Slots)
  <2>1. loc[c].i \in Slots
    BY <1>1, Zenon DEF Locals
  <2> QED
    BY <2>1, RelayAssumption DEF Slots
<1>3. PICK p \in {"reap", loc[c].then}, r \in Slots :
        Goto(c, p) /\ loc' = [loc EXCEPT ![c] = [loc[c] EXCEPT !.i = r]]
  BY <1>2, Zenon DEF Advance
<1>4. [loc[c] EXCEPT !.i = r] \in Locals
  BY <1>1, FieldFacts, Zenon
<1>5. /\ [loc[c] EXCEPT !.i = r].then = loc[c].then /\ [loc[c] EXCEPT !.i = r].fd = loc[c].fd
      /\ [loc[c] EXCEPT !.i = r].lw = loc[c].lw /\ [loc[c] EXCEPT !.i = r].slot = loc[c].slot
  BY <1>1, Zenon DEF Locals
<1> QED
  BY <1>1, <1>3, <1>4, <1>5, GotoFacts, Zenon

-------------------------------------------------------------------------------
(* What keeps each part of the invariant.                                    *)

\* The calls, when thread t moves.
LEMMA CallsKeep ==
  ASSUME IInv, NEW t \in Threads, Moves(t), CallOf(t)',
         pc[t] # "idle" \/ (\A u \in Threads : ~Whole(u)),
         Creating(t)' => Creating(t) \/ (\A u \in Threads : ~Creating(u)),
         Whole(t)' => Whole(t) \/ (\A u \in Threads : pc[u] = "idle"),
         loc'[t].fd \in {NoFd, loc[t].fd} \/ Unused(loc'[t].fd)
  PROVE  CallState'
<1>1. \A u \in Threads \ {t} : pc'[u] = pc[u] /\ loc'[u] = loc[u]
  BY SlotFacts, Zenon DEF Moves
<1>2. \A u \in Threads : CallOf(u)'
  BY <1>1, Zenon DEF IInv, CallState, CallOf, Creating
<1>3. ASSUME NEW u \in Threads \ {t}, NEW v \in Threads \ {t}, u # v PROVE TwoCalls(u, v)'
  <2>1. TwoCalls(u, v)
    BY <1>3, Zenon DEF IInv, CallState
  <2> QED
    BY <1>1, <2>1, Zenon DEF TwoCalls, Creating, Whole
<1>4. ASSUME NEW u \in Threads \ {t} PROVE TwoCalls(t, u)' /\ TwoCalls(u, t)'
  <2>1. TwoCalls(t, u) /\ TwoCalls(u, t)
    BY Zenon DEF IInv, CallState
  <2>2. ~Creating(t)' \/ ~Creating(u)'
    BY <1>1, <2>1, Zenon DEF TwoCalls, Creating
  <2>3. Whole(t)' => pc'[u] = "idle"
    BY <1>1, <2>1, Zenon DEF TwoCalls
  <2>4. ~Whole(u)'
    BY <1>1, <2>1, Zenon DEF TwoCalls, Whole
  <2>5. /\ loc'[t].fd # NoFd => loc'[t].fd # loc'[u].fd
        /\ loc'[u].fd # NoFd => loc'[u].fd # loc'[t].fd
    BY <1>1, <2>1, SlotFacts, Zenon DEF TwoCalls, Unused
  <2> QED
    BY <2>2, <2>3, <2>4, <2>5, Zenon DEF TwoCalls
<1> QED
  BY <1>2, <1>3, <1>4, Zenon DEF IInv, CallState

\* The calls, when somebody else moves.
LEMMA CallsSame ==
  ASSUME IInv, \A t \in Threads : pc'[t] = pc[t] /\ loc'[t] = loc[t]
  PROVE  CallState'
<1>1. \A t \in Threads : CallOf(t)'
  BY Zenon DEF IInv, CallState, CallOf, Creating
<1>2. ASSUME NEW t \in Threads, NEW u \in Threads, t # u PROVE TwoCalls(t, u)'
  <2>1. TwoCalls(t, u)
    BY <1>2, Zenon DEF IInv, CallState
  <2> QED
    BY <2>1, Zenon DEF TwoCalls, Creating, Whole
<1> QED
  BY <1>1, <1>2, Zenon DEF IInv, CallState

\* The title's progress, when one of its threads moves.
LEMMA PhaseKeeps ==
  ASSUME IInv, NEW t \in Threads, Moves(t), pc[t] # "dead", UNCHANGED accepting_sockets,
         Creating(t)' => Creating(t) \/ accepting_sockets,
         lwOpen' \subseteq lwOpen \/ accepting_sockets,
         Creating(t) \/ (\A r \in Slots : Running(r)' => Running(r)),
         mapped_fd' \in {mapped_fd, None} \/ accepting_sockets
  PROVE  TitlePhase'
<1>1. pc'["worker"] = pc["worker"] /\ loc'["worker"] = loc["worker"]
  BY SlotFacts, Zenon DEF Moves
<1>2. loc["worker"].then # "begin"
  BY Zenon DEF IInv, TitlePhase
<1>3. CASE accepting_sockets
  BY <1>1, <1>2, <1>3, Zenon DEF IInv, TitlePhase, Between
<1>4. CASE ~accepting_sockets
  <2>1. Between' => Between
    BY <1>1, Zenon DEF Between
  <2>2. Between => \A u \in Threads : ~Creating(u)'
    BY <1>4, SlotFacts, Zenon DEF IInv, TitlePhase, Creating, Moves
  <2>3. Between => lwOpen' = {} /\ \A r \in Slots : ~Running(r)'
    BY <1>4, Zenon DEF IInv, TitlePhase
  <2>4. pc["worker"] = "booting" => mapped_fd' = None
    BY <1>4, Zenon DEF IInv, TitlePhase
  <2> QED
    BY <1>1, <1>2, <2>1, <2>2, <2>3, <2>4, Zenon DEF IInv, TitlePhase
<1> QED
  BY <1>3, <1>4, Zenon

\* And when a relay does.
LEMMA PhaseSame ==
  ASSUME IInv, UNCHANGED <<pc, loc, accepting_sockets, mapped_fd>>, lwOpen' \subseteq lwOpen,
         \A r \in Slots : Running(r)' => Running(r)
  PROVE  TitlePhase'
BY Zenon DEF IInv, TitlePhase, Between, Creating

\* No number of a lwIP socket is made or moved.
NothingMoves ==
  /\ made' = made
  /\ \A fd \in Fds : mapped_fd'[fd] \in {mapped_fd[fd], 0}
  /\ \A r \in Slots : slot'[r].lwfd \in {slot[r].lwfd, 0}
  /\ loc["worker"].then = "begin" => loc'["worker"].then = "begin" \/ mapped_fd' = None

\* Nobody starts or ends a hand-over.
HandOverKept(t) ==
  /\ Holding(t)' => Holding(t) /\ loc'[t].lw = loc[t].lw /\ loc'[t].fd = loc[t].fd
  /\ Pending(t)' => Pending(t)
  /\ pc[t] = "given" => pc'[t] = "given" /\ loc'[t].lw = loc[t].lw

\* Serials stay unique when they only vanish.
LEMMA SerialsKeep ==
  ASSUME IInv, NothingMoves, \A t \in Threads : HandOverKept(t)
  PROVE  SerialState'
<1>1. \A fd \in Fds : mapped_fd'[fd] <= made'
  BY DEF IInv, RelayTypes, SerialState, NothingMoves
<1>2. \A r \in Slots : slot'[r].lwfd <= made'
  BY DEF IInv, RelayTypes, SerialState, NothingMoves
<1>3. ASSUME NEW f \in Fds, NEW g \in Fds, f # g, mapped_fd'[f] # 0
      PROVE  mapped_fd'[f] # mapped_fd'[g]
  <2>1. mapped_fd'[f] = mapped_fd[f] /\ mapped_fd[f] # mapped_fd[g]
    BY <1>3, Zenon DEF IInv, SerialState, NothingMoves
  <2> QED
    BY <1>3, <2>1, Zenon DEF NothingMoves
<1>4. ASSUME NEW q \in Slots, NEW r \in Slots, q # r, slot'[q].lwfd # 0
      PROVE  slot'[q].lwfd # slot'[r].lwfd
  <2>1. slot'[q].lwfd = slot[q].lwfd /\ slot[q].lwfd # slot[r].lwfd
    BY <1>4, Zenon DEF IInv, SerialState, NothingMoves
  <2> QED
    BY <1>4, <2>1, Zenon DEF NothingMoves
<1>5. ASSUME NEW fd \in Fds, NEW r \in Slots, mapped_fd'[fd] # 0, slot'[r].lwfd = mapped_fd'[fd]
      PROVE  \/ loc'["worker"].then = "begin"
             \/ \E t \in Threads : pc'[t] = "given" /\ loc'[t].lw = slot'[r].lwfd
  <2>1. mapped_fd'[fd] = mapped_fd[fd] /\ slot'[r].lwfd = slot[r].lwfd /\ mapped_fd' # None
    BY <1>5, Zenon DEF NothingMoves, None
  <2>2. \/ loc["worker"].then = "begin"
        \/ \E t \in Threads : pc[t] = "given" /\ loc[t].lw = slot[r].lwfd
    BY <1>5, <2>1, Zenon DEF IInv, SerialState
  <2> QED
    BY <2>1, <2>2, Zenon DEF NothingMoves, HandOverKept
<1>6. ASSUME NEW t \in Threads, Holding(t)'
      PROVE  loc'[t].lw <= made' /\ \A fd \in Fds : mapped_fd'[fd] = loc'[t].lw => fd = loc'[t].fd
  <2>1. Holding(t) /\ loc'[t].lw = loc[t].lw /\ loc'[t].fd = loc[t].fd
    BY <1>6, Zenon DEF HandOverKept
  <2>2. loc[t].lw # 0
    BY <2>1, Zenon DEF IInv, CallState, CallOf, Holding
  <2>3. loc[t].lw <= made /\ \A fd \in Fds : mapped_fd[fd] = loc[t].lw => fd = loc[t].fd
    BY <2>1, Zenon DEF IInv, SerialState
  <2> QED
    BY <2>1, <2>2, <2>3, Zenon DEF NothingMoves
<1>7. ASSUME NEW t \in Threads, Pending(t)' PROVE \A r \in Slots : slot'[r].lwfd # loc'[t].lw
  <2>1. Pending(t) /\ loc'[t].lw = loc[t].lw
    BY <1>7, Zenon DEF HandOverKept, Pending, Holding
  <2>2. loc[t].lw # 0
    BY <2>1, Zenon DEF IInv, CallState, CallOf, Pending
  <2> QED
    BY <2>1, <2>2, Zenon DEF IInv, SerialState, NothingMoves
<1> QED
  BY <1>1, <1>2, <1>3, <1>4, <1>5, <1>6, <1>7, Zenon DEF IInv, SerialState

\* The slot of a call in progress is left alone.
MakingKept(t) ==
  LET r == loc[t].slot IN
  pc'[t] \in {"create", "tunnel", "given"}
    => /\ pc'[t] = pc[t] /\ loc'[t] = loc[t] /\ thread'[r] = thread[r]
       /\ IF pc[t] = "create" THEN slot'[r].allocated = slot[r].allocated ELSE slot'[r] = slot[r]

\* Then the call relies on what it relied on.
LEMMA MakingKeeps ==
  ASSUME NEW t \in Threads, Making(t), MakingKept(t)
  PROVE  Making(t)'
BY Zenon DEF Making, MakingKept, Running

\* What the slots hold while the title runs, when a step leaves it alone.
LEMMA SlotsKeep ==
  ASSUME IInv, UNCHANGED accepting_sockets, accepting_sockets => \A t \in Threads : MakingKept(t),
         \A r \in Slots : /\ slot'[r].lwfd = slot[r].lwfd /\ thread'[r] = thread[r]
                          /\ Running(r) /\ slot[r].allocated => slot'[r].allocated
  PROVE  SlotState'
<1> SUFFICES ASSUME accepting_sockets PROVE SlotState'
  BY Zenon DEF SlotState
<1>1. \A t \in Threads : Making(t)'
  BY MakingKeeps, Zenon DEF IInv, SlotState
<1> QED
  BY <1>1, Zenon DEF IInv, SlotState, Running

\* A step of a thread that hands over nothing.
CallStep(t) ==
  /\ Moves(t) /\ pc[t] # "dead" /\ CallOf(t)' /\ HandOverKept(t)
  /\ pc[t] # "idle" \/ (\A u \in Threads : ~Whole(u))
  /\ Creating(t)' => Creating(t)
  /\ Whole(t)' => Whole(t) \/ (\A u \in Threads : pc[u] = "idle")
  /\ loc'[t].fd \in {NoFd, loc[t].fd} \/ Unused(loc'[t].fd)
  /\ UNCHANGED <<accepting_sockets, made, thread>>

\* A step that moves no socket into or out of a slot.
SlotStep ==
  \A r \in Slots : /\ slot'[r].lwfd = slot[r].lwfd /\ slot'[r].native_fd = slot[r].native_fd
                   /\ Running(r) /\ slot[r].allocated => slot'[r].allocated

\* Such a step keeps the invariant.
LEMMA CallKeeps ==
  ASSUME IInv, RelayTypes', NEW t \in Threads, CallStep(t), SlotStep,
         lwOpen' \subseteq lwOpen, mapped_fd' \in {mapped_fd, None} \/ accepting_sockets,
         \A fd \in Fds : mapped_fd'[fd] \in {mapped_fd[fd], 0},
         accepting_sockets => \A u \in Threads : MakingKept(u)
  PROVE  IInv'
<1>1. CallState'
  BY CallsKeep, Zenon DEF CallStep
<1>2. TitlePhase'
  BY PhaseKeeps, Zenon DEF CallStep, Running
<1>3. SerialState'
  <2>1. \A u \in Threads \ {t} : HandOverKept(u)
    BY SlotFacts, Zenon DEF CallStep, Moves, HandOverKept, Holding, Pending, Creating
  <2>2. NothingMoves
    BY SlotFacts, Zenon DEF CallStep, SlotStep, Moves, NothingMoves
  <2> QED
    BY <2>1, <2>2, SerialsKeep, Zenon DEF CallStep
<1>4. SlotState'
  BY SlotsKeep, Zenon DEF CallStep, SlotStep
<1> QED
  BY <1>1, <1>2, <1>3, <1>4, Zenon DEF IInv

\* A step of the worker that ends a title or gets ready for the next.
LEMMA WorkerKeeps ==
  ASSUME IInv, RelayTypes', Moves("worker"), ~accepting_sockets', pc'["worker"] # "idle",
         UNCHANGED <<thread, lwOpen, mapped_fd, made>>,
         \A r \in Slots : slot'[r].lwfd = slot[r].lwfd,
         pc'["worker"] \in {"wake", "reap", "join", "stopped", "begin"},
         loc'["worker"].then \in {"stopped", "begin"},
         loc'["worker"].then = "begin" <=> loc["worker"].then = "begin",
         pc'["worker"] = "begin" => loc'["worker"].then = "begin"
  PROVE  IInv'
<1>1. \A t \in Threads : pc'[t] = pc[t] /\ loc'[t] = loc[t]
  BY SlotFacts, Zenon DEF Moves
<1>2. CallState'
  BY <1>1, CallsSame, Zenon
<1>3. TitlePhase'
  <2>1. Between' => Between
    BY Zenon DEF Between
  <2>2. Between' => /\ lwOpen' = {}
                    /\ \A r \in Slots : ~Running(r)'
                    /\ \A t \in Threads : ~Creating(t)'
    BY <1>1, <2>1, Zenon DEF IInv, TitlePhase, Running, Creating
  <2> QED
    BY <1>1, <2>2, Zenon DEF IInv, TitlePhase
<1>4. SerialState'
  <2>1. \A t \in Threads : HandOverKept(t)
    BY <1>1, Zenon DEF HandOverKept, Holding, Pending, Creating
  <2>2. NothingMoves
    BY Zenon DEF NothingMoves
  <2> QED
    BY <2>1, <2>2, SerialsKeep, Zenon
<1>5. SlotState'
  BY Zenon DEF SlotState
<1> QED
  BY <1>2, <1>3, <1>4, <1>5, Zenon DEF IInv

\* A relay's thread goes on.
LEMMA RelayKeeps ==
  ASSUME IInv, RelayTypes', UNCHANGED <<pc, loc, accepting_sockets, mapped_fd, made>>,
         lwOpen' \subseteq lwOpen, NEW r \in Slots, Running(r), thread[r] = "wait" => slot[r].stop \/ slot[r].ready,
         \A q \in Slots \ {r} : slot'[q] = slot[q] /\ thread'[q] = thread[q],
         slot'[r].lwfd \in {slot[r].lwfd, 0}, slot'[r].allocated = slot[r].allocated,
         accepting_sockets /\ thread'[r] \in {"closed", "exit"} => slot'[r].lwfd = 0
  PROVE  IInv'
<1>1. CallState'
  BY CallsSame, Zenon
<1>2. \A q \in Slots : Running(q)' => Running(q)
  BY Zenon DEF Running
<1>3. TitlePhase'
  BY <1>2, PhaseSame, Zenon
<1>4. SerialState'
  <2>1. \A t \in Threads : HandOverKept(t)
    BY Zenon DEF HandOverKept, Holding, Pending, Creating
  <2>2. NothingMoves
    BY Zenon DEF NothingMoves
  <2> QED
    BY <2>1, <2>2, SerialsKeep, Zenon
<1>5. SlotState'
  <2> SUFFICES ASSUME accepting_sockets PROVE SlotState'
    BY Zenon DEF SlotState
  <2>1. ASSUME NEW t \in Threads PROVE Making(t)'
    <3>1. Making(t)
      BY Zenon DEF IInv, SlotState
    <3>2. pc[t] \in {"create", "tunnel", "given"} => loc[t].slot \in Slots \ {r}
      BY <3>1, Zenon DEF IInv, CallState, CallOf, Making
    <3>3. MakingKept(t)
      BY <3>2, Zenon DEF MakingKept
    <3> QED
      BY <3>1, <3>3, MakingKeeps, Zenon
  <2>2. \A q \in Slots : Running(q)' => slot'[q].allocated
    BY <1>2, Zenon DEF IInv, SlotState
  <2>3. \A q \in Slots : thread'[q] \in {"closed", "exit"} => slot'[q].lwfd = 0
    BY Zenon DEF IInv, SlotState
  <2> QED
    BY <2>1, <2>2, <2>3, Zenon DEF SlotState
<1> QED
  BY <1>1, <1>3, <1>4, <1>5, Zenon DEF IInv

-------------------------------------------------------------------------------
(* The steps of the calls.                                                   *)

\* A call begins while no call that concerns everything is in progress.
LEMMA EnterFacts ==
  ASSUME IInv, CallsApart, NEW t \in Threads, Enter(t) \/ EnterWhole(t)
  PROVE  /\ pc[t] = "idle" /\ loc[t] = Nothing /\ \A u \in Threads : ~Whole(u)
         /\ EnterWhole(t) => \A u \in Threads : pc[u] = "idle"
<1>1. pc[t] = "idle" /\ loc[t] = Nothing
  BY Zenon DEF Enter, EnterWhole, At, IInv, CallState, CallOf
<1>2. EnterWhole(t) => \A u \in Threads : pc[u] = "idle"
  BY Zenon DEF EnterWhole, At, Apart, CallsApart
<1>3. \A u \in Threads : pc[u] = "idle" => ~Whole(u)
  BY SlotFacts, Zenon DEF IInv, CallState, CallOf, Whole
<1> QED
  BY <1>1, <1>2, <1>3, Zenon DEF Enter, Apart, CallsApart

\* Nobody else is creating a connection.
LEMMA OtherCalls ==
  ASSUME IInv, NEW t \in Threads, NEW u \in Threads, u # t, Creating(t) \/ Whole(t)
  PROVE  pc[u] \notin {"create", "tunnel", "given"}
<1>1. TwoCalls(t, u) /\ CallOf(u)
  BY Zenon DEF IInv, CallState
<1> QED
  BY <1>1, Zenon DEF TwoCalls, CallOf

\* What nssl_relay_reap moves.
LEMMA ReapMoves ==
  ASSUME IInv, NEW c \in Callers, pc[c] \in {"reap", "join"}, RelayTypes', Moves(c), SlotStep,
         pc'[c] \in {"reap", "join", loc[c].then}, loc'[c].then = loc[c].then,
         loc'[c].fd = loc[c].fd, loc'[c].lw = loc[c].lw, loc'[c].slot = loc[c].slot,
         \A r \in Slots : slot'[r] # slot[r] => Terminated(r) /\ loc[c].i = r,
         UNCHANGED <<thread, accepting_sockets, sockets, made>>
  PROVE  IInv'
<1>1. UNCHANGED <<public, lwOpen, mapped_fd>>
  BY Zenon DEF sockets
<1>2. CASE c \in Threads
  <2>1. CallOf(c) /\ loc[c].then \in {"reserve", "finished"} /\ pc[c] # "dead" /\ pc[c] # "idle"
    BY <1>2, Zenon DEF IInv, CallState, CallOf
  <2>2. CallOf(c)'
    BY <1>2, <2>1, Zenon DEF CallOf, Creating
  <2>3. HandOverKept(c)
    BY <1>2, <2>1, Zenon DEF HandOverKept, Holding, Pending, Creating
  <2>4. CallStep(c)
    BY <2>1, <2>2, <2>3, Zenon DEF CallStep, Creating, Whole
  <2>5. ASSUME NEW u \in Threads PROVE MakingKept(u)
    <3>1. u # c => pc[u] \notin {"create", "tunnel", "given"} /\ pc'[u] = pc[u]
      BY <1>2, <2>1, OtherCalls, SlotFacts, Zenon DEF Creating, Whole, Moves
    <3> QED
      BY <2>1, <3>1, Zenon DEF MakingKept
  <2> QED
    BY <1>1, <1>2, <2>4, <2>5, CallKeeps, Zenon
<1>3. CASE c = "worker"
  <2>1. ~accepting_sockets /\ loc[c].then \in {"stopped", "begin"}
    BY <1>3, Zenon DEF IInv, TitlePhase
  <2> QED
    BY <1>1, <1>3, <2>1, WorkerKeeps, Zenon DEF SlotStep
<1> QED
  BY <1>2, <1>3, Zenon DEF Callers

\* nssl_relay_reap looks at a slot.
LEMMA LookKeeps ==
  ASSUME IInv, NEW c \in Callers, ReapLook(c)
  PROVE  IInv'
<1>1. /\ pc[c] = "reap" /\ \/ Goto(c, "join") /\ UNCHANGED loc
                           \/ Advance(c)
      /\ UNCHANGED <<slot, thread, accepting_sockets, sockets, made>>
  BY Zenon DEF ReapLook, At
<1>2. /\ pc' \in [Callers -> Steps] /\ loc' \in [Callers -> Locals]
      /\ Moves(c) /\ pc'[c] \in {"reap", "join", loc[c].then}
      /\ loc'[c].then = loc[c].then /\ loc'[c].fd = loc[c].fd
      /\ loc'[c].lw = loc[c].lw /\ loc'[c].slot = loc[c].slot
  <2>1. CASE Advance(c)
    BY <2>1, AdvanceFacts, Zenon DEF IInv
  <2>2. CASE Goto(c, "join") /\ UNCHANGED loc
    BY <2>2, Zenon DEF Goto, IInv, RelayTypes, Steps, Moves
  <2> QED
    BY <1>1, <2>1, <2>2, Zenon
<1>3. RelayTypes'
  BY <1>1, <1>2, Zenon DEF IInv, RelayTypes, sockets
<1>4. SlotStep
  BY <1>1, Zenon DEF SlotStep
<1> QED
  BY <1>1, <1>2, <1>3, <1>4, ReapMoves, Zenon

\* It frees the slot of a thread that has ended.
LEMMA ClearKeeps ==
  ASSUME IInv, NEW c \in Callers, ReapClear(c)
  PROVE  IInv'
<1> DEFINE r == loc[c].i
           x == [slot[r] EXCEPT !.public_fd = NoFd, !.allocated = FALSE]
<1>1. r \in Slots
  BY Zenon DEF IInv, RelayTypes, Locals
<1>2. slot[r] \in Relays /\ slot' = [slot EXCEPT ![r] = x]
  BY <1>1, Zenon DEF ReapClear, IInv, RelayTypes
<1>3. x \in Relays /\ x.lwfd = slot[r].lwfd /\ x.native_fd = slot[r].native_fd
  BY <1>2, Zenon DEF Relays, Numbers
<1> HIDE DEF x
<1>4. /\ slot' \in [Slots -> Relays] /\ slot'[r] = x
      /\ \A q \in Slots \ {r} : slot'[q] = slot[q]
  BY <1>1, <1>2, <1>3, Zenon DEF IInv, RelayTypes
<1>5. /\ pc[c] = "join" /\ Advance(c) /\ Terminated(r)
      /\ UNCHANGED <<thread, accepting_sockets, sockets, made>>
  BY Zenon DEF ReapClear, At
<1>6. RelayTypes'
  BY <1>4, <1>5, AdvanceFacts, Zenon DEF IInv, RelayTypes, sockets
<1>7. SlotStep
  BY <1>3, <1>4, <1>5, Zenon DEF SlotStep, Running, Terminated
<1> QED
  BY <1>4, <1>5, <1>6, <1>7, AdvanceFacts, ReapMoves, Zenon DEF IInv

\* A call returns.
LEMMA ReturnKeeps ==
  ASSUME IInv, RelayTypes', NEW t \in Threads, pc[t] \notin {"idle", "dead", "given"}, Return(t),
         UNCHANGED <<thread, accepting_sockets, made, mapped_fd>>, lwOpen' \subseteq lwOpen, SlotStep,
         accepting_sockets => \A u \in Threads \ {t} : MakingKept(u)
  PROVE  IInv'
<1>1. Moves(t) /\ pc'[t] = "idle" /\ loc'[t] = Nothing
  BY ReturnFacts, SlotFacts, Zenon DEF IInv
<1>2. loc'[t].then = "idle" /\ loc'[t].fd = NoFd
  BY <1>1, SlotFacts, Zenon
<1>3. CallOf(t)' /\ HandOverKept(t) /\ MakingKept(t)
  BY <1>1, <1>2, Zenon DEF CallOf, HandOverKept, Holding, Pending, Creating, MakingKept
<1>4. CallStep(t)
  BY <1>1, <1>2, <1>3, Zenon DEF CallStep, Creating, Whole
<1> QED
  BY <1>3, <1>4, CallKeeps, Zenon

\* Every slot is taken, NSSL has taken the connection, or NSSLFinish is done.
LEMMA EndKeeps ==
  ASSUME IInv, NEW t \in Threads, ReserveFull(t) \/ NsslConnects(t) \/ Finished(t)
  PROVE  IInv'
<1>1. /\ pc[t] \in {"reserve", "connect", "finished"} /\ Return(t)
      /\ UNCHANGED <<slot, thread, accepting_sockets, sockets, made>>
  BY Zenon DEF ReserveFull, NsslConnects, Finished, At
<1>2. RelayTypes'
  BY <1>1, ReturnFacts, SlotFacts, Zenon DEF IInv, RelayTypes, sockets
<1>3. ASSUME NEW u \in Threads \ {t} PROVE MakingKept(u)
  BY <1>1, ReturnFacts, SlotFacts, Zenon DEF IInv, MakingKept, Moves
<1> QED
  BY <1>1, <1>2, <1>3, ReturnKeeps, Zenon DEF sockets, SlotStep

\* nssl_relay_stop_slot sets one flag.
LEMMA StopFacts ==
  ASSUME RelayTypes, NEW r \in Slots, StopSlot(r)
  PROVE  /\ slot' \in [Slots -> Relays] /\ SlotStep
         /\ \A q \in Slots : q # r => slot'[q] = slot[q]
<1> DEFINE x == [slot[r] EXCEPT !.stop = TRUE]
<1>1. slot[r] \in Relays /\ (slot' = slot \/ slot' = [slot EXCEPT ![r] = x])
  BY Zenon DEF StopSlot, RelayTypes
<1>2. x \in Relays /\ x.lwfd = slot[r].lwfd /\ x.native_fd = slot[r].native_fd /\ x.allocated = slot[r].allocated
  BY <1>1, Zenon DEF Relays
<1> HIDE DEF x
<1> QED
  BY <1>1, <1>2, Zenon DEF RelayTypes, SlotStep

\* The tunnel fails, or NSSL refuses: the slot is told to stop.
LEMMA StopsKeeps ==
  ASSUME IInv, NEW t \in Threads, TunnelFails(t) \/ NsslRefuses(t)
  PROVE  IInv'
<1>1. /\ pc[t] \in {"tunnel", "connect"} /\ Return(t) /\ StopSlot(loc[t].slot)
      /\ UNCHANGED <<thread, accepting_sockets, sockets, made>>
  BY Zenon DEF TunnelFails, NsslRefuses, At
<1>2. loc[t].slot \in Slots /\ Creating(t)
  BY <1>1, Zenon DEF IInv, CallState, CallOf
<1>3. slot' \in [Slots -> Relays] /\ SlotStep
  BY <1>1, <1>2, StopFacts, Zenon DEF IInv
<1>4. RelayTypes'
  BY <1>1, <1>3, ReturnFacts, SlotFacts, Zenon DEF IInv, RelayTypes, sockets
<1>5. ASSUME NEW u \in Threads \ {t} PROVE MakingKept(u)
  <2>1. pc[u] \notin {"create", "tunnel", "given"} /\ pc'[u] = pc[u]
    BY <1>1, <1>2, OtherCalls, ReturnFacts, SlotFacts, Zenon DEF IInv, Moves
  <2> QED
    BY <2>1, Zenon DEF MakingKept
<1> QED
  BY <1>1, <1>3, <1>4, <1>5, ReturnKeeps, Zenon DEF sockets

\* socketclose has forgotten a descriptor, or socketclose_all every one, and nsysnet
\* closes them.
LEMMA ReleaseKeeps ==
  ASSUME IInv, NEW t \in Threads, Release(t) \/ CloseAllNative(t)
  PROVE  IInv'
<1>1. /\ pc[t] \in {"release", "closenative"} /\ Return(t)
      /\ \/ public' = None
         \/ public' = [public EXCEPT ![loc[t].fd] = 0]
      /\ UNCHANGED <<slot, thread, accepting_sockets, lwOpen, mapped_fd, made>>
  BY Zenon DEF Release, CloseAllNative, NativeClose, At
<1>2. public' \in [Fds -> Nat]
  <2>1. 0 \in Nat
    OBVIOUS
  <2> QED
    BY <1>1, <2>1, SlotFacts, Zenon DEF IInv, RelayTypes
<1>3. RelayTypes'
  BY <1>1, <1>2, ReturnFacts, SlotFacts, Zenon DEF IInv, RelayTypes
<1>4. ASSUME NEW u \in Threads \ {t} PROVE MakingKept(u)
  BY <1>1, ReturnFacts, SlotFacts, Zenon DEF IInv, MakingKept, Moves
<1> QED
  BY <1>1, <1>3, <1>4, ReturnKeeps, Zenon DEF SlotStep

\* NSSLFinish stops every relay.
LEMMA StopAllFacts ==
  ASSUME RelayTypes, NEW c \in Callers, NEW p \in Thens, StopAll(c, p)
  PROVE  /\ slot' \in [Slots -> Relays] /\ SlotStep
         /\ \A r \in Slots : slot'[r].allocated = slot[r].allocated
         /\ pc' \in [Callers -> Steps] /\ loc' \in [Callers -> Locals]
         /\ Moves(c) /\ pc'[c] \in {"reap", p} /\ loc'[c] = [loc[c] EXCEPT !.then = p]
<1>1. ASSUME NEW r \in Slots
      PROVE  /\ slot'[r] \in Relays /\ slot'[r].lwfd = slot[r].lwfd
             /\ slot'[r].native_fd = slot[r].native_fd
             /\ slot'[r].allocated = slot[r].allocated
  <2>1. slot[r] \in Relays /\ slot'[r] = [slot[r] EXCEPT !.stop = slot[r].stop \/ slot[r].allocated]
    BY Zenon DEF StopAll, StopEvery, RelayTypes
  <2>2. (slot[r].stop \/ slot[r].allocated) \in BOOLEAN
    BY <2>1, Zenon DEF Relays
  <2> QED
    BY <2>1, <2>2, Zenon DEF Relays
<1>2. slot' \in [Slots -> Relays]
  BY <1>1, Zenon DEF StopAll, StopEvery
<1>3. PICK s \in {"reap", p} : Goto(c, s) /\ loc' = [loc EXCEPT ![c] = [loc[c] EXCEPT !.then = p]]
  BY Zenon DEF StopAll
<1>4. [loc[c] EXCEPT !.then = p] \in Locals /\ s \in Steps
  BY FieldFacts, Zenon DEF RelayTypes, Steps
<1> QED
  BY <1>1, <1>2, <1>3, <1>4, GotoFacts, Zenon DEF SlotStep

\* NSSLFinish and socketclose_all begin.
LEMMA WholeKeeps ==
  ASSUME IInv, CallsApart, NEW t \in Threads, Finish(t) \/ CloseAll(t)
  PROVE  IInv'
<1>1. /\ EnterWhole(t) /\ UNCHANGED <<thread, accepting_sockets, sockets, made>>
      /\ \/ StopAll(t, "finished")
         \/ /\ Goto(t, "closeall") /\ UNCHANGED slot
            /\ loc' = [loc EXCEPT ![t] = [loc[t] EXCEPT !.then = "closeall"]]
  BY Zenon DEF Finish, CloseAll
<1>2. pc[t] = "idle" /\ loc[t] = Nothing /\ \A u \in Threads : ~Whole(u) /\ pc[u] = "idle"
  BY <1>1, EnterFacts, Zenon
<1>3. /\ slot' \in [Slots -> Relays] /\ SlotStep /\ Moves(t)
      /\ pc' \in [Callers -> Steps] /\ loc' \in [Callers -> Locals]
      /\ \/ pc'[t] \in {"reap", "finished"} /\ loc'[t] = [loc[t] EXCEPT !.then = "finished"]
         \/ pc'[t] = "closeall" /\ loc'[t] = [loc[t] EXCEPT !.then = "closeall"]
  <2>1. loc[t] \in Locals /\ t \in Callers /\ RelayTypes
    BY SlotFacts, Zenon DEF IInv, RelayTypes
  <2>2. CASE StopAll(t, "finished")
    BY <2>1, <2>2, StopAllFacts, Zenon DEF Thens
  <2>3. CASE /\ Goto(t, "closeall") /\ UNCHANGED slot
             /\ loc' = [loc EXCEPT ![t] = [loc[t] EXCEPT !.then = "closeall"]]
    <3>1. [loc[t] EXCEPT !.then = "closeall"] \in Locals /\ "closeall" \in Steps
      BY <2>1, FieldFacts, Zenon DEF Thens, Steps
    <3> QED
      BY <2>1, <2>3, <3>1, GotoFacts, Zenon DEF SlotStep, RelayTypes
  <2> QED
    BY <1>1, <2>2, <2>3, Zenon
<1>4. RelayTypes'
  BY <1>1, <1>3, Zenon DEF IInv, RelayTypes, sockets
<1>5. /\ loc'[t].then \in {"finished", "closeall"} /\ loc'[t].fd = NoFd
      /\ pc'[t] \in {"reap", "finished", "closeall"}
      /\ pc'[t] \in {"reap", "finished"} => loc'[t].then = "finished"
      /\ pc'[t] = "closeall" => loc'[t].then = "closeall"
  <2>1. loc[t] \in Locals /\ loc[t].fd = NoFd
    BY <1>2, SlotFacts, Zenon
  <2>2. \A p \in Thens : [loc[t] EXCEPT !.then = p].then = p /\ [loc[t] EXCEPT !.then = p].fd = NoFd
    BY <2>1, Zenon DEF Locals
  <2> QED
    BY <1>3, <2>2, Zenon DEF Thens
<1>6. CallOf(t)' /\ HandOverKept(t)
  BY <1>2, <1>5, Zenon DEF CallOf, HandOverKept, Holding, Pending, Creating
<1>7. CallStep(t)
  BY <1>1, <1>2, <1>3, <1>5, <1>6, Zenon DEF CallStep, Creating, Whole
<1>8. ASSUME NEW u \in Threads PROVE MakingKept(u)
  BY <1>2, <1>3, SlotFacts, Zenon DEF MakingKept, Moves
<1> QED
  BY <1>1, <1>3, <1>4, <1>7, <1>8, CallKeeps, Zenon DEF sockets

\* nssl_relay_detach_public_fd leaves a slot that is being filled alone: its number is not
\* there yet, or belongs to the call.
LEMMA DetachFacts ==
  ASSUME IInv, NEW fd \in Fds, Detach(fd), Unused(fd), UNCHANGED thread
  PROVE  /\ slot' \in [Slots -> Relays] /\ SlotStep
         /\ \A u \in Threads : accepting_sockets /\ pc'[u] = pc[u] /\ loc'[u] = loc[u] => MakingKept(u)
<1>1. ASSUME NEW r \in Slots
      PROVE  /\ slot'[r] \in Relays /\ slot'[r].lwfd = slot[r].lwfd
             /\ slot'[r].native_fd = slot[r].native_fd
             /\ slot'[r].allocated = slot[r].allocated
             /\ slot[r].public_fd # fd => slot'[r] = slot[r]
  <2> DEFINE x == [slot[r] EXCEPT !.public_fd = NoFd, !.stop = TRUE]
  <2>1. slot[r] \in Relays /\ slot'[r] = IF r \in DetachedSlot(fd) THEN x ELSE slot[r]
    BY Zenon DEF Detach, IInv, RelayTypes
  <2>2. x \in Relays /\ x.lwfd = slot[r].lwfd /\ x.native_fd = slot[r].native_fd /\ x.allocated = slot[r].allocated
    BY <2>1, Zenon DEF Relays, Numbers
  <2>3. r \in DetachedSlot(fd) => slot[r].public_fd = fd
    BY Zenon DEF DetachedSlot
  <2> HIDE DEF x
  <2> QED
    BY <2>1, <2>2, <2>3, Zenon
<1>2. slot' \in [Slots -> Relays]
  BY <1>1, Zenon DEF Detach
<1>3. ASSUME NEW u \in Threads, accepting_sockets, pc'[u] = pc[u], loc'[u] = loc[u] PROVE MakingKept(u)
  <2>1. Making(u) /\ CallOf(u) /\ loc[u].fd # fd /\ fd # NoFd
    BY <1>3, SlotFacts, Zenon DEF IInv, SlotState, CallState, Unused
  <2>2. pc[u] \in {"create", "tunnel", "given"} => loc[u].slot \in Slots
    BY <2>1, Zenon DEF CallOf
  <2>3. pc[u] \in {"tunnel", "given"} => slot[loc[u].slot].public_fd # fd
    BY <2>1, Zenon DEF Making
  <2> QED
    BY <1>1, <1>3, <2>2, <2>3, Zenon DEF MakingKept
<1> QED
  BY <1>1, <1>2, <1>3, Zenon DEF SlotStep

\* NSSLDestroyConnection, and socketclose of a descriptor the shim no longer has.
LEMMA DetachKeeps ==
  ASSUME IInv, CallsApart, NEW t \in Threads, NEW fd \in Fds, Destroy(t, fd) \/ CloseForeign(t, fd)
  PROVE  IInv'
<1>1. /\ Enter(t) /\ Unused(fd) /\ Detach(fd) /\ UNCHANGED <<thread, accepting_sockets, sockets, made>>
      /\ \/ UNCHANGED <<pc, loc>>
         \/ Goto(t, "release") /\ loc' = [loc EXCEPT ![t] = [loc[t] EXCEPT !.fd = fd]]
  BY Zenon DEF Destroy, CloseForeign
<1>2. pc[t] = "idle" /\ loc[t] = Nothing /\ \A u \in Threads : ~Whole(u)
  BY <1>1, EnterFacts, Zenon
<1>3. /\ Moves(t) /\ pc' \in [Callers -> Steps] /\ loc' \in [Callers -> Locals]
      /\ \/ pc'[t] = pc[t] /\ loc'[t] = loc[t]
         \/ pc'[t] = "release" /\ loc'[t].fd = fd /\ loc'[t].then = "idle"
  <2>1. CASE UNCHANGED <<pc, loc>>
    BY <2>1, Zenon DEF IInv, RelayTypes, Moves
  <2>2. CASE Goto(t, "release") /\ loc' = [loc EXCEPT ![t] = [loc[t] EXCEPT !.fd = fd]]
    <3>1. [Nothing EXCEPT !.fd = fd] \in Locals /\ "release" \in Steps /\ t \in Callers /\ RelayTypes
      BY FieldFacts, SlotFacts, Zenon DEF Numbers, Steps, IInv
    <3>2. [Nothing EXCEPT !.fd = fd].fd = fd /\ [Nothing EXCEPT !.fd = fd].then = "idle"
      BY Zenon DEF Nothing
    <3> QED
      BY <1>2, <2>2, <3>1, <3>2, GotoFacts, Zenon
  <2> QED
    BY <1>1, <2>1, <2>2, Zenon
<1>4. slot' \in [Slots -> Relays] /\ SlotStep
  BY <1>1, DetachFacts, Zenon
<1>5. RelayTypes'
  BY <1>1, <1>3, <1>4, Zenon DEF IInv, RelayTypes, sockets
<1>6. CallOf(t)' /\ HandOverKept(t)
  <2>1. CallOf(t) /\ loc[t].then = "idle"
    BY <1>2, SlotFacts, Zenon DEF IInv, CallState
  <2> QED
    BY <1>2, <1>3, <2>1, Zenon DEF CallOf, HandOverKept, Holding, Pending, Creating
<1>7. CallStep(t)
  <2>1. loc'[t].then = loc[t].then /\ loc'[t].fd \in {loc[t].fd, fd}
    BY <1>2, <1>3, SlotFacts, Zenon
  <2> QED
    BY <1>1, <1>2, <1>3, <1>6, <2>1, Zenon DEF CallStep, Creating, Whole
<1>8. ASSUME accepting_sockets, NEW u \in Threads PROVE MakingKept(u)
  <2>1. CASE u = t
    BY <1>2, <1>3, <2>1, Zenon DEF MakingKept
  <2>2. CASE u # t
    BY <1>1, <1>3, <1>8, <2>2, DetachFacts, SlotFacts, Zenon DEF Moves
  <2> QED
    BY <2>1, <2>2, Zenon
<1> QED
  BY <1>1, <1>4, <1>5, <1>7, <1>8, CallKeeps, Zenon DEF sockets

\* Nothing but the sockets changes.
LEMMA SocketsKeep ==
  ASSUME IInv, RelayTypes', NEW t \in Threads, pc[t] = "idle", \A u \in Threads : ~Whole(u),
         UNCHANGED <<slot, thread, accepting_sockets, pc, loc, made>>, lwOpen' \subseteq lwOpen,
         mapped_fd' = mapped_fd \/ accepting_sockets,
         \A fd \in Fds : mapped_fd'[fd] \in {mapped_fd[fd], 0}
  PROVE  IInv'
<1>1. CallOf(t)' /\ HandOverKept(t)
  BY Zenon DEF IInv, CallState, CallOf, HandOverKept, Holding, Pending, Creating
<1>2. CallStep(t) /\ SlotStep
  BY <1>1, Zenon DEF CallStep, SlotStep, Moves, Creating, Whole
<1>3. \A u \in Threads : MakingKept(u)
  BY Zenon DEF MakingKept
<1> QED
  BY <1>2, <1>3, CallKeeps, Zenon

\* socketclose of a descriptor that is still on lwIP.
LEMMA CloseKeeps ==
  ASSUME IInv, CallsApart, NEW t \in Threads, NEW fd \in Fds, CloseStack(t, fd)
  PROVE  IInv'
<1>1. /\ Enter(t) /\ accepting_sockets /\ mapped_fd' = [mapped_fd EXCEPT ![fd] = 0]
      /\ public' = [public EXCEPT ![fd] = 0] /\ lwOpen' \subseteq lwOpen
      /\ UNCHANGED <<slot, thread, accepting_sockets, pc, loc, made>>
  BY Zenon DEF CloseStack, NativeClose, is_foreign
<1>2. 0 \in Nat
  OBVIOUS
<1>3. RelayTypes' /\ \A f \in Fds : mapped_fd'[f] \in {mapped_fd[f], 0}
  BY <1>1, <1>2, Zenon DEF IInv, RelayTypes
<1> QED
  BY <1>1, <1>3, EnterFacts, SocketsKeep, Zenon

\* socketclose_all closes what the shim has on lwIP.
LEMMA CloseAllKeeps ==
  ASSUME IInv, NEW t \in Threads, CloseAllStack(t)
  PROVE  IInv'
<1>1. /\ pc[t] = "closeall" /\ Goto(t, "closenative") /\ loc' = [loc EXCEPT ![t] = loc[t]]
      /\ mapped_fd' \in {mapped_fd, None} /\ lwOpen' \subseteq lwOpen
      /\ UNCHANGED <<slot, thread, accepting_sockets, public, loc, made>>
  BY Zenon DEF CloseAllStack, At, IInv, RelayTypes
<1>2. /\ Moves(t) /\ pc'[t] = "closenative" /\ loc'[t] = loc[t]
      /\ pc' \in [Callers -> Steps] /\ loc' \in [Callers -> Locals]
  <2>1. t \in Callers /\ loc[t] \in Locals /\ "closenative" \in Steps
    BY SlotFacts, Zenon DEF IInv, RelayTypes, Steps
  <2> QED
    BY <1>1, <2>1, GotoFacts, Zenon DEF IInv
<1>3. RelayTypes'
  BY <1>1, <1>2, SlotFacts, Zenon DEF IInv, RelayTypes
<1>4. \A fd \in Fds : mapped_fd'[fd] \in {mapped_fd[fd], 0}
  BY <1>1, Zenon DEF None
<1>5. CallOf(t)' /\ HandOverKept(t)
  BY <1>1, <1>2, Zenon DEF IInv, CallState, CallOf, HandOverKept, Holding, Pending, Creating
<1>6. CallStep(t) /\ SlotStep
  BY <1>1, <1>2, <1>5, Zenon DEF CallStep, SlotStep, Creating, Whole
<1>7. \A u \in Threads : MakingKept(u)
  BY <1>1, <1>2, SlotFacts, Zenon DEF MakingKept, Moves
<1> QED
  BY <1>1, <1>3, <1>4, <1>6, <1>7, CallKeeps, Zenon

-------------------------------------------------------------------------------
(* The steps that make and move sockets.                                     *)

\* A socket is made, on lwIP or not.
LEMMA OpenKeeps ==
  ASSUME IInv, CallsApart, NEW t \in Threads, NEW fd \in Fds, Open(t, fd) \/ OpenNative(t, fd)
  PROVE  IInv'
<1>1. /\ Enter(t) /\ made' = made + 1 /\ public' = [public EXCEPT ![fd] = made']
      /\ \/ lwOpen' = lwOpen /\ mapped_fd' = mapped_fd
         \/ /\ accepting_sockets /\ lwOpen' = lwOpen \cup {made'}
            /\ mapped_fd' = [mapped_fd EXCEPT ![fd] = made']
      /\ UNCHANGED <<slot, thread, accepting_sockets, pc, loc>>
  BY Zenon DEF Open, OpenNative
<1>2. made \in Nat /\ made' \in Nat \ {0}
  BY <1>1 DEF IInv, RelayTypes
<1>3. RelayTypes'
  BY <1>1, <1>2, Zenon DEF IInv, RelayTypes
<1>4. CallState'
  BY <1>1, CallsSame, Zenon
<1>5. TitlePhase'
  <2>1. pc[t] = "idle" /\ loc[t] = Nothing /\ Moves(t)
    BY <1>1, EnterFacts, Zenon DEF Moves
  <2> QED
    BY <1>1, <2>1, PhaseKeeps, Zenon DEF Creating, Running
<1>6. SerialState'
  <2>1. /\ \A f \in Fds : mapped_fd[f] \in Nat /\ mapped_fd[f] <= made
        /\ \A r \in Slots : slot[r].lwfd \in Nat /\ slot[r].lwfd <= made
    BY Zenon DEF IInv, SerialState, RelayTypes, Relays
  <2>2. \A u \in Threads : loc[u].lw \in Nat
    BY SlotFacts, Zenon DEF IInv, RelayTypes, Locals
  <2>3. /\ \A f \in Fds : mapped_fd[f] # made' /\ mapped_fd[f] <= made'
        /\ \A r \in Slots : slot[r].lwfd # made' /\ slot[r].lwfd <= made'
        /\ \A u \in Threads : loc[u].lw <= made => loc[u].lw # made' /\ loc[u].lw <= made'
        /\ made' <= made' /\ made' # 0
    BY <1>1, <1>2, <2>1, <2>2
  <2>4. \A f \in Fds : \/ mapped_fd'[f] = mapped_fd[f]
                       \/ f = fd /\ mapped_fd'[f] = made'
    BY <1>1, Zenon DEF IInv, RelayTypes
  <2>5. \A f \in Fds : mapped_fd'[f] <= made'
    BY <2>3, <2>4, Zenon
  <2>6. ASSUME NEW f \in Fds, NEW g \in Fds, f # g, mapped_fd'[f] # 0
        PROVE  mapped_fd'[f] # mapped_fd'[g]
    <3>1. mapped_fd[f] # 0 => mapped_fd[f] # mapped_fd[g]
      BY <2>6, Zenon DEF IInv, SerialState
    <3> QED
      BY <2>3, <2>4, <2>6, <3>1, Zenon
  <2>7. ASSUME NEW f \in Fds, NEW r \in Slots, mapped_fd'[f] # 0, slot'[r].lwfd = mapped_fd'[f]
        PROVE  \/ loc'["worker"].then = "begin"
               \/ \E u \in Threads : pc'[u] = "given" /\ loc'[u].lw = slot'[r].lwfd
    <3>1. mapped_fd'[f] = mapped_fd[f] /\ slot'[r] = slot[r]
      BY <1>1, <2>3, <2>4, <2>7, Zenon
    <3> QED
      BY <1>1, <2>7, <3>1, Zenon DEF IInv, SerialState
  <2>8. ASSUME NEW u \in Threads, Holding(u)'
        PROVE  loc'[u].lw <= made' /\ \A f \in Fds : mapped_fd'[f] = loc'[u].lw => f = loc'[u].fd
    <3>1. Holding(u) /\ loc'[u] = loc[u]
      BY <1>1, <2>8, Zenon DEF Holding, Creating
    <3>2. loc[u].lw <= made /\ \A f \in Fds : mapped_fd[f] = loc[u].lw => f = loc[u].fd
      BY <3>1, Zenon DEF IInv, SerialState
    <3> QED
      BY <2>3, <2>4, <3>1, <3>2, Zenon
  <2>9. ASSUME NEW u \in Threads, Pending(u)' PROVE \A r \in Slots : slot'[r].lwfd # loc'[u].lw
    <3>1. Pending(u)
      BY <1>1, <2>9, Zenon DEF Pending, Creating
    <3> QED
      BY <1>1, <3>1, Zenon DEF IInv, SerialState
  <2>10. \A q, r \in Slots : q # r /\ slot'[q].lwfd # 0 => slot'[q].lwfd # slot'[r].lwfd
    BY <1>1, Zenon DEF IInv, SerialState
  <2>11. \A r \in Slots : slot'[r].lwfd <= made'
    BY <1>1, <2>3, Zenon
  <2> QED
    BY <2>5, <2>6, <2>7, <2>8, <2>9, <2>10, <2>11, Zenon DEF SerialState
<1>7. SlotState'
  <2>1. \A u \in Threads : MakingKept(u)
    BY <1>1, Zenon DEF MakingKept
  <2> QED
    BY <1>1, <2>1, SlotsKeep, Zenon
<1> QED
  BY <1>3, <1>4, <1>5, <1>6, <1>7, Zenon DEF IInv

\* NSSLCreateConnection begins with a reap: the lwIP socket is in no slot.
LEMMA CreateKeeps ==
  ASSUME IInv, CallsApart, NEW t \in Threads, NEW fd \in Fds, Create(t, fd)
  PROVE  IInv'
<1> DEFINE y == [Nothing EXCEPT !.fd = fd, !.lw = mapped_fd[fd], !.then = "reserve"]
<1>1. /\ Enter(t) /\ Unused(fd) /\ accepting_sockets /\ fd \in open_mask
      /\ loc' = [loc EXCEPT ![t] = y] /\ Goto(t, "reap")
      /\ UNCHANGED <<slot, thread, accepting_sockets, sockets, made>>
  BY Zenon DEF Create, is_foreign
<1>2. \A u \in Threads : ~Creating(u)
  BY Zenon DEF Create, Apart, CallsApart
<1>3. mapped_fd[fd] \in Nat \ {0}
  BY <1>1, Zenon DEF open_mask, IInv, RelayTypes
<1>4. y \in Locals /\ y.fd = fd /\ y.lw = mapped_fd[fd] /\ y.then = "reserve"
  BY <1>3, SlotFacts, Zenon DEF Nothing, Locals, Numbers, Thens
<1> HIDE DEF y
<1>5. /\ Moves(t) /\ pc'[t] = "reap" /\ loc'[t] = y
      /\ pc' \in [Callers -> Steps] /\ loc' \in [Callers -> Locals]
  <2>1. t \in Callers /\ RelayTypes /\ "reap" \in Steps
    BY SlotFacts, Zenon DEF IInv, Steps
  <2> QED
    BY <1>1, <1>4, <2>1, GotoFacts, Zenon
<1>6. pc[t] = "idle" /\ \A u \in Threads : ~Whole(u)
  BY <1>1, EnterFacts, Zenon
<1>7. RelayTypes'
  BY <1>1, <1>5, Zenon DEF IInv, RelayTypes, sockets
<1>8. CallState'
  <2>1. CallOf(t)'
    BY <1>3, <1>4, <1>5, Zenon DEF CallOf, Creating
  <2>2. ~Whole(t)'
    BY <1>4, <1>5, Zenon DEF Whole
  <2> QED
    BY <1>1, <1>2, <1>4, <1>5, <1>6, <2>1, <2>2, CallsKeep, Zenon
<1>9. TitlePhase'
  BY <1>1, <1>5, <1>6, PhaseKeeps, Zenon DEF sockets, Running
<1>10. SerialState'
  <2>1. UNCHANGED <<slot, mapped_fd, made>> /\ loc'["worker"] = loc["worker"]
    BY <1>1, <1>5, SlotFacts, Zenon DEF sockets, Moves
  <2>2. \A u \in Threads \ {t} : ~Creating(u)' /\ pc'[u] = pc[u] /\ loc'[u] = loc[u]
    BY <1>2, <1>5, SlotFacts, Zenon DEF Creating, Moves
  <2>3. \A u \in Threads : pc[u] # "given"
    BY <1>2, Zenon DEF IInv, CallState, CallOf
  <2>4. loc["worker"].then # "begin"
    BY <1>1, Zenon DEF IInv, TitlePhase
  <2>5. \A f \in Fds, r \in Slots : mapped_fd[f] # 0 => slot[r].lwfd # mapped_fd[f]
    BY <2>3, <2>4, Zenon DEF IInv, SerialState
  <2>6. \A u \in Threads : Holding(u)' \/ Pending(u)' => u = t
    BY <2>2, Zenon DEF Holding, Pending
  <2>7. loc'[t].lw <= made' /\ \A f \in Fds : mapped_fd'[f] = loc'[t].lw => f = loc'[t].fd
    <3>1. mapped_fd[fd] <= made /\ \A f \in Fds : mapped_fd[f] = mapped_fd[fd] => f = fd
      BY <1>3, <1>4, Zenon DEF IInv, SerialState
    <3> QED
      BY <1>3, <1>4, <1>5, <2>1, <3>1, Zenon
  <2>8. \A r \in Slots : slot'[r].lwfd # loc'[t].lw
    BY <1>3, <1>4, <1>5, <2>1, <2>5, Zenon
  <2>9. \A f \in Fds, r \in Slots : mapped_fd'[f] # 0 => slot'[r].lwfd # mapped_fd'[f]
    BY <2>1, <2>5, Zenon
  <2> QED
    BY <2>1, <2>6, <2>7, <2>8, <2>9, Zenon DEF IInv, SerialState
<1>11. SlotState'
  <2>1. \A u \in Threads : MakingKept(u)
    BY <1>1, <1>5, SlotFacts, Zenon DEF MakingKept, Moves
  <2> QED
    BY <1>1, <2>1, SlotsKeep, Zenon
<1> QED
  BY <1>7, <1>8, <1>9, <1>10, <1>11, Zenon DEF IInv

-------------------------------------------------------------------------------
(* The hand-over.                                                            *)

\* A step of NSSLCreateConnection before the sockets are given.
LEMMA PartsKeep ==
  ASSUME IInv, NEW t \in Threads, Creating(t), Moves(t), CallOf(t)', HandOverKept(t),
         pc[t] \notin {"idle", "dead"}, ~Whole(t)', loc'[t].fd \in {NoFd, loc[t].fd},
         UNCHANGED <<accepting_sockets, sockets, made>>,
         \A r \in Slots : slot'[r].lwfd \in {slot[r].lwfd, 0}
  PROVE  CallState' /\ TitlePhase' /\ SerialState'
<1>1. CallState'
  BY CallsKeep, Zenon
<1>2. TitlePhase'
  BY PhaseKeeps, Zenon DEF sockets
<1>3. \A u \in Threads \ {t} : HandOverKept(u)
  BY SlotFacts, Zenon DEF Moves, HandOverKept, Holding, Pending, Creating
<1>4. NothingMoves
  BY SlotFacts, Zenon DEF Moves, NothingMoves, sockets
<1> QED
  BY <1>1, <1>2, <1>3, <1>4, SerialsKeep, Zenon

\* The slots, when thread t's call changes its own slot.
LEMMA OwnSlotKeeps ==
  ASSUME IInv, NEW t \in Threads, Creating(t), Moves(t), NEW r \in Slots,
         UNCHANGED accepting_sockets, accepting_sockets => Making(t)',
         \A q \in Slots \ {r} : slot'[q] = slot[q] /\ thread'[q] = thread[q],
         accepting_sockets /\ Running(r)' => slot'[r].allocated,
         accepting_sockets => thread'[r] \notin {"closed", "exit"} \/ slot'[r].lwfd = 0
  PROVE  SlotState'
<1> SUFFICES ASSUME accepting_sockets PROVE SlotState'
  BY Zenon DEF SlotState
<1>1. ASSUME NEW u \in Threads PROVE Making(u)'
  <2>1. u # t => pc'[u] \notin {"create", "tunnel", "given"}
    BY OtherCalls, SlotFacts, Zenon DEF Moves
  <2> QED
    BY <2>1, Zenon DEF Making
<1>2. \A q \in Slots : Running(q)' => slot'[q].allocated
  BY Zenon DEF IInv, SlotState, Running
<1>3. \A q \in Slots : thread'[q] \in {"closed", "exit"} => slot'[q].lwfd = 0
  BY Zenon DEF IInv, SlotState
<1> QED
  BY <1>1, <1>2, <1>3, Zenon DEF SlotState

\* A free slot is taken: no relay runs in it.
LEMMA TakeKeeps ==
  ASSUME IInv, NEW t \in Threads, NEW r \in Slots, ReserveTake(t, r)
  PROVE  IInv'
<1> DEFINE x == [slot[r] EXCEPT !.allocated = TRUE]
           y == [loc[t] EXCEPT !.slot = r]
<1>1. /\ pc[t] = "reserve" /\ ~slot[r].allocated /\ slot' = [slot EXCEPT ![r] = x]
      /\ loc' = [loc EXCEPT ![t] = y] /\ Goto(t, "create")
      /\ UNCHANGED <<thread, accepting_sockets, sockets, made>>
  BY Zenon DEF ReserveTake, At
<1>2. slot[r] \in Relays /\ loc[t] \in Locals /\ t \in Callers /\ r \in Nat /\ "create" \in Steps
  BY SlotFacts, Zenon DEF IInv, RelayTypes, Steps
<1>3. x \in Relays /\ x.allocated = TRUE /\ x.lwfd = slot[r].lwfd
  BY <1>2, Zenon DEF Relays
<1>4. y \in Locals /\ y.slot = r /\ y.fd = loc[t].fd /\ y.lw = loc[t].lw /\ y.then = loc[t].then
  BY <1>2, Zenon DEF Locals
<1> HIDE DEF x, y
<1>5. /\ Moves(t) /\ pc'[t] = "create" /\ loc'[t] = y
      /\ pc' \in [Callers -> Steps] /\ loc' \in [Callers -> Locals]
  BY <1>1, <1>2, <1>4, GotoFacts, Zenon DEF IInv
<1>6. slot' \in [Slots -> Relays] /\ slot'[r] = x /\ \A q \in Slots \ {r} : slot'[q] = slot[q]
  BY <1>1, <1>3, Zenon DEF IInv, RelayTypes
<1>7. RelayTypes'
  BY <1>1, <1>5, <1>6, Zenon DEF IInv, RelayTypes, sockets
<1>8. CallOf(t) /\ Creating(t)
  BY <1>1, Zenon DEF IInv, CallState, CallOf
<1>9. CallOf(t)' /\ HandOverKept(t) /\ ~Whole(t)'
  BY <1>1, <1>4, <1>5, <1>8, Zenon DEF CallOf, HandOverKept, Holding, Pending, Creating, Whole
<1>10. CallState' /\ TitlePhase' /\ SerialState'
  BY <1>1, <1>3, <1>4, <1>5, <1>6, <1>8, <1>9, PartsKeep, Zenon
<1>11. SlotState'
  <2>1. accepting_sockets => ~Running(r)
    BY <1>1, Zenon DEF IInv, SlotState
  <2>2. accepting_sockets => ~Running(r)' /\ Making(t)' /\ thread'[r] \notin {"closed", "exit"}
    BY <1>1, <1>3, <1>4, <1>5, <1>6, <2>1, Zenon DEF Making, Running
  <2> QED
    BY <1>1, <1>5, <1>6, <1>8, <2>2, OwnSlotKeeps, Zenon
<1> QED
  BY <1>7, <1>10, <1>11, Zenon DEF IInv

\* The slot is reset and its thread made, or given back.
LEMMA ThreadKeeps ==
  ASSUME IInv, NEW t \in Threads, ReserveThread(t)
  PROVE  IInv'
<1> PICK r \in Slots : r = loc[t].slot
  BY Zenon DEF ReserveThread, At, IInv, CallState, CallOf
<1> DEFINE x == [Empty EXCEPT !.allocated = slot[r].allocated]
<1>1. CallOf(t) /\ Creating(t) /\ pc[t] = "create" /\ slot[r] \in Relays
  BY Zenon DEF ReserveThread, At, IInv, CallState, CallOf, RelayTypes
<1>2. /\ \/ /\ slot' = [slot EXCEPT ![r] = x] /\ thread' = [thread EXCEPT ![r] = "wait"]
            /\ Goto(t, "tunnel") /\ UNCHANGED loc
         \/ slot' = [slot EXCEPT ![r] = Empty] /\ UNCHANGED thread /\ Return(t)
      /\ UNCHANGED <<accepting_sockets, sockets, made>>
  BY Zenon DEF ReserveThread
<1>3. /\ x \in Relays /\ x.allocated = slot[r].allocated /\ x.lwfd = 0 /\ x.public_fd = NoFd
      /\ ~x.stop /\ ~x.ready /\ Empty.lwfd = 0
  <2>1. slot[r].allocated \in BOOLEAN
    BY <1>1, Zenon DEF Relays
  <2> QED
    BY <2>1, SlotFacts, Zenon DEF Empty, Relays, Numbers
<1>4. accepting_sockets => slot[r].allocated /\ ~Running(r)
  BY <1>1, Zenon DEF IInv, SlotState, Making
<1> HIDE DEF x
<1>5. CASE /\ slot' = [slot EXCEPT ![r] = x] /\ thread' = [thread EXCEPT ![r] = "wait"]
           /\ Goto(t, "tunnel") /\ UNCHANGED loc
  <2>1. /\ Moves(t) /\ pc'[t] = "tunnel" /\ loc'[t] = loc[t]
        /\ pc' \in [Callers -> Steps] /\ loc' \in [Callers -> Locals]
    BY <1>5, SlotFacts, Zenon DEF Goto, IInv, RelayTypes, Steps, Moves
  <2>2. /\ slot' \in [Slots -> Relays] /\ slot'[r] = x /\ thread'[r] = "wait"
        /\ \A q \in Slots \ {r} : slot'[q] = slot[q] /\ thread'[q] = thread[q]
    BY <1>1, <1>3, <1>5, Zenon DEF IInv, RelayTypes
  <2>3. RelayTypes'
    BY <1>1, <1>2, <1>5, <2>1, <2>2, Zenon DEF IInv, RelayTypes, sockets
  <2>4. CallOf(t)' /\ HandOverKept(t) /\ ~Whole(t)'
    BY <1>1, <2>1, Zenon DEF CallOf, HandOverKept, Holding, Pending, Creating, Whole
  <2>5. CallState' /\ TitlePhase' /\ SerialState'
    BY <1>1, <1>2, <1>3, <2>1, <2>2, <2>4, PartsKeep, Zenon
  <2>6. Making(t)'
    BY <1>3, <2>1, <2>2, Zenon DEF Making
  <2>7. SlotState'
    BY <1>1, <1>2, <1>3, <1>4, <2>1, <2>2, <2>6, OwnSlotKeeps, Zenon
  <2> QED
    BY <2>3, <2>5, <2>7, Zenon DEF IInv
<1>6. CASE slot' = [slot EXCEPT ![r] = Empty] /\ UNCHANGED thread /\ Return(t)
  <2>1. /\ Moves(t) /\ pc'[t] = "idle" /\ loc'[t] = Nothing
        /\ pc' \in [Callers -> Steps] /\ loc' \in [Callers -> Locals]
    BY <1>6, ReturnFacts, SlotFacts, Zenon DEF IInv
  <2>2. /\ slot' \in [Slots -> Relays] /\ slot'[r] = Empty
        /\ \A q \in Slots \ {r} : slot'[q] = slot[q] /\ thread'[q] = thread[q]
    BY <1>1, <1>6, SlotFacts, Zenon DEF IInv, RelayTypes
  <2>3. RelayTypes'
    BY <1>2, <1>6, <2>1, <2>2, Zenon DEF IInv, RelayTypes, sockets
  <2>4. loc'[t].then = "idle" /\ loc'[t].fd = NoFd
    BY <2>1, SlotFacts, Zenon
  <2>5. CallOf(t)' /\ HandOverKept(t) /\ ~Whole(t)'
    BY <1>1, <2>1, <2>4, Zenon DEF CallOf, HandOverKept, Holding, Pending, Creating, Whole
  <2>6. CallState' /\ TitlePhase' /\ SerialState'
    BY <1>1, <1>2, <1>3, <2>1, <2>2, <2>4, <2>5, PartsKeep, Zenon
  <2>7. Making(t)' /\ (accepting_sockets => ~Running(r)')
    BY <1>4, <1>6, <2>1, Zenon DEF Making, Running
  <2>8. SlotState'
    BY <1>1, <1>2, <1>3, <2>1, <2>2, <2>7, OwnSlotKeeps, Zenon
  <2> QED
    BY <2>3, <2>6, <2>8, Zenon DEF IInv
<1> QED
  BY <1>2, <1>5, <1>6, Zenon

\* The slot is given the sockets of the tunnel: the lwIP socket was in no other.
LEMMA GiveKeeps ==
  ASSUME IInv, NEW t \in Threads, NEW p \in Fds, GiveSockets(t, p)
  PROVE  IInv'
<1> DEFINE r == loc[t].slot
           x == [slot[r] EXCEPT !.native_fd = p, !.lwfd = loc[t].lw, !.public_fd = loc[t].fd]
<1>1. /\ CallOf(t) /\ Creating(t) /\ pc[t] = "tunnel" /\ r \in Slots /\ slot[r] \in Relays
      /\ loc[t].fd \in Fds /\ loc[t].lw # 0 /\ loc[t] \in Locals
  BY SlotFacts, Zenon DEF GiveSockets, At, IInv, CallState, CallOf, RelayTypes
<1>2. /\ slot' = [slot EXCEPT ![r] = x] /\ Goto(t, "given")
      /\ UNCHANGED <<thread, accepting_sockets, public, lwOpen, mapped_fd, loc, made>>
  BY Zenon DEF GiveSockets
<1>3. /\ x \in Relays /\ x.allocated = slot[r].allocated /\ x.lwfd = loc[t].lw
      /\ x.public_fd = loc[t].fd /\ x.stop = slot[r].stop /\ x.ready = slot[r].ready
  <2>1. loc[t].lw \in Nat
    BY <1>1, Zenon DEF Locals
  <2> QED
    BY <1>1, <2>1, Zenon DEF Relays, Numbers
<1> HIDE DEF x
<1>4. /\ Moves(t) /\ pc'[t] = "given" /\ loc' = loc
      /\ pc' \in [Callers -> Steps] /\ loc' \in [Callers -> Locals]
  BY <1>2, SlotFacts, Zenon DEF Goto, IInv, RelayTypes, Steps, Moves
<1>5. slot' \in [Slots -> Relays] /\ slot'[r] = x /\ \A q \in Slots \ {r} : slot'[q] = slot[q]
  BY <1>1, <1>2, <1>3, Zenon DEF IInv, RelayTypes
<1>6. RelayTypes'
  BY <1>2, <1>4, <1>5, Zenon DEF IInv, RelayTypes
<1>7. CallOf(t)' /\ ~Whole(t)'
  BY <1>1, <1>4, Zenon DEF CallOf, Creating, Whole
<1>8. CallState'
  BY <1>1, <1>4, <1>7, CallsKeep, Zenon
<1>9. TitlePhase'
  BY <1>1, <1>2, <1>4, PhaseKeeps, Zenon DEF Running
<1>10. SerialState'
  <2>1. /\ loc[t].lw <= made /\ \A fd \in Fds : mapped_fd[fd] = loc[t].lw => fd = loc[t].fd
        /\ \A q \in Slots : slot[q].lwfd # loc[t].lw
    BY <1>1, Zenon DEF IInv, SerialState, Holding, Pending
  <2>2. \A q \in Slots : slot'[q].lwfd <= made'
    BY <1>2, <1>3, <1>5, <2>1, Zenon DEF IInv, SerialState
  <2>3. ASSUME NEW q \in Slots, NEW s \in Slots, q # s, slot'[q].lwfd # 0
        PROVE  slot'[q].lwfd # slot'[s].lwfd
    <3>1. slot[q].lwfd # 0 => slot[q].lwfd # slot[s].lwfd
      BY <2>3, Zenon DEF IInv, SerialState
    <3>2. slot'[q].lwfd = slot[q].lwfd \/ (q = r /\ slot'[q].lwfd = loc[t].lw)
      BY <1>3, <1>5, Zenon
    <3>3. slot'[s].lwfd = slot[s].lwfd \/ (s = r /\ slot'[s].lwfd = loc[t].lw)
      BY <1>3, <1>5, Zenon
    <3> QED
      BY <2>1, <2>3, <3>1, <3>2, <3>3, Zenon
  <2>4. ASSUME NEW fd \in Fds, NEW q \in Slots, mapped_fd'[fd] # 0, slot'[q].lwfd = mapped_fd'[fd]
        PROVE  \/ loc'["worker"].then = "begin"
               \/ \E u \in Threads : pc'[u] = "given" /\ loc'[u].lw = slot'[q].lwfd
    <3>1. CASE q = r
      BY <1>3, <1>4, <1>5, <3>1, Zenon
    <3>2. CASE q # r
      <4>1. slot'[q] = slot[q] /\ mapped_fd' = mapped_fd
        BY <1>2, <1>5, <3>2, Zenon
      <4>2. \/ loc["worker"].then = "begin"
            \/ \E u \in Threads : pc[u] = "given" /\ loc[u].lw = slot[q].lwfd
        BY <2>4, <4>1, Zenon DEF IInv, SerialState
      <4>3. \A u \in Threads : pc[u] = "given" => pc'[u] = "given"
        BY <1>4, SlotFacts, Zenon DEF Moves
      <4> QED
        BY <1>4, <4>1, <4>2, <4>3, Zenon
    <3> QED
      BY <3>1, <3>2, Zenon
  <2>5. \A u \in Threads \ {t} : ~Creating(u)'
    BY <1>1, <1>4, Zenon DEF IInv, CallState, TwoCalls, Creating
  <2>6. \A u \in Threads : ~Pending(u)' /\ (Holding(u)' => u = t)
    BY <1>4, <2>5, Zenon DEF Pending, Holding
  <2>7. loc'[t].lw <= made' /\ \A fd \in Fds : mapped_fd'[fd] = loc'[t].lw => fd = loc'[t].fd
    BY <1>2, <1>4, <2>1, Zenon
  <2>8. /\ \A fd \in Fds : mapped_fd'[fd] <= made'
        /\ \A f, g \in Fds : f # g /\ mapped_fd'[f] # 0 => mapped_fd'[f] # mapped_fd'[g]
    BY <1>2, Zenon DEF IInv, SerialState
  <2> QED
    BY <2>2, <2>3, <2>4, <2>6, <2>7, <2>8, Zenon DEF SerialState
<1>11. SlotState'
  <2>1. accepting_sockets => thread[r] = "wait" /\ ~slot[r].stop /\ ~slot[r].ready /\ slot[r].allocated
    BY <1>1, Zenon DEF IInv, SlotState, Making, Running
  <2>2. accepting_sockets => Making(t)' /\ thread'[r] \notin {"closed", "exit"}
    BY <1>2, <1>3, <1>4, <1>5, <2>1, Zenon DEF Making
  <2> QED
    BY <1>1, <1>2, <1>3, <1>4, <1>5, <2>1, <2>2, OwnSlotKeeps, Zenon
<1> QED
  BY <1>6, <1>8, <1>9, <1>10, <1>11, Zenon DEF IInv

\* The public descriptor is native from here on, and the slot's thread may start.
LEMMA ReadyKeeps ==
  ASSUME IInv, NEW t \in Threads, MakeReady(t)
  PROVE  IInv'
<1> DEFINE r == loc[t].slot
           x == [slot[r] EXCEPT !.ready = TRUE]
<1>1. /\ CallOf(t) /\ Creating(t) /\ pc[t] = "given" /\ r \in Slots /\ slot[r] \in Relays
      /\ loc[t].fd \in Fds /\ loc[t].lw # 0
  BY Zenon DEF MakeReady, At, IInv, CallState, CallOf, RelayTypes
<1>2. /\ slot' = [slot EXCEPT ![r] = x] /\ Goto(t, "connect")
      /\ mapped_fd' = [mapped_fd EXCEPT ![loc[t].fd] = 0]
      /\ UNCHANGED <<thread, accepting_sockets, public, lwOpen, loc, made>>
  BY Zenon DEF MakeReady
<1>3. x \in Relays /\ x.allocated = slot[r].allocated /\ x.lwfd = slot[r].lwfd
  BY <1>1, Zenon DEF Relays
<1> HIDE DEF x
<1>4. /\ Moves(t) /\ pc'[t] = "connect" /\ loc' = loc
      /\ pc' \in [Callers -> Steps] /\ loc' \in [Callers -> Locals]
  BY <1>2, SlotFacts, Zenon DEF Goto, IInv, RelayTypes, Steps, Moves
<1>5. slot' \in [Slots -> Relays] /\ slot'[r] = x /\ \A q \in Slots \ {r} : slot'[q] = slot[q]
  BY <1>1, <1>2, <1>3, Zenon DEF IInv, RelayTypes
<1>6. /\ mapped_fd' \in [Fds -> Nat] /\ mapped_fd'[loc[t].fd] = 0
      /\ \A fd \in Fds : mapped_fd'[fd] \in {mapped_fd[fd], 0}
  <2>1. 0 \in Nat
    OBVIOUS
  <2> QED
    BY <1>1, <1>2, <2>1, Zenon DEF IInv, RelayTypes
<1>7. RelayTypes'
  BY <1>2, <1>4, <1>5, <1>6, Zenon DEF IInv, RelayTypes
<1>8. CallOf(t)' /\ ~Whole(t)'
  BY <1>1, <1>4, Zenon DEF CallOf, Creating, Whole
<1>9. CallState'
  BY <1>1, <1>4, <1>8, CallsKeep, Zenon
<1>10. TitlePhase'
  <2>1. ~Between
    BY <1>1, Zenon DEF IInv, TitlePhase
  <2>2. pc'["worker"] = pc["worker"] /\ loc'["worker"] = loc["worker"]
    BY <1>4, SlotFacts, Zenon DEF Moves
  <2> QED
    BY <1>2, <2>1, <2>2, Zenon DEF IInv, TitlePhase, Between
<1>11. SerialState'
  <2>1. \A u \in Threads \ {t} : ~Creating(u) /\ pc[u] # "given"
    BY <1>1, Zenon DEF IInv, CallState, TwoCalls, CallOf
  <2>2. loc["worker"].then # "begin"
    BY <1>1, Zenon DEF IInv, TitlePhase
  <2>3. \A fd \in Fds : mapped_fd[fd] = loc[t].lw => fd = loc[t].fd
    BY <1>1, Zenon DEF IInv, SerialState, Holding
  <2>4. \A q \in Slots : slot'[q].lwfd = slot[q].lwfd
    BY <1>3, <1>5, Zenon
  <2>5. ASSUME NEW fd \in Fds, NEW q \in Slots, mapped_fd'[fd] # 0, slot'[q].lwfd = mapped_fd'[fd]
        PROVE  FALSE
    <3>1. mapped_fd'[fd] = mapped_fd[fd] /\ fd # loc[t].fd
      BY <1>6, <2>5, Zenon
    <3>2. mapped_fd[fd] # 0 /\ slot[q].lwfd = mapped_fd[fd]
      BY <2>4, <2>5, <3>1, Zenon
    <3>3. \E u \in Threads : pc[u] = "given" /\ loc[u].lw = mapped_fd[fd]
      BY <2>2, <3>2, Zenon DEF IInv, SerialState
    <3> QED
      BY <2>1, <2>3, <3>1, <3>3, Zenon
  <2>6. \A u \in Threads : ~Holding(u)' /\ ~Pending(u)'
    BY <1>4, <2>1, Zenon DEF Holding, Pending, Creating
  <2>7. ASSUME NEW f \in Fds, NEW g \in Fds, f # g, mapped_fd'[f] # 0
        PROVE  mapped_fd'[f] # mapped_fd'[g]
    <3>1. mapped_fd'[f] = mapped_fd[f] /\ mapped_fd[f] # mapped_fd[g]
      BY <1>6, <2>7, Zenon DEF IInv, SerialState
    <3> QED
      BY <1>6, <2>7, <3>1, Zenon
  <2>8. \A fd \in Fds : mapped_fd'[fd] <= made'
    BY <1>2, <1>6 DEF IInv, SerialState, RelayTypes
  <2>9. \A q \in Slots : slot'[q].lwfd <= made'
    BY <1>2, <2>4, Zenon DEF IInv, SerialState
  <2>10. ASSUME NEW q \in Slots, NEW s \in Slots, q # s, slot'[q].lwfd # 0
         PROVE  slot'[q].lwfd # slot'[s].lwfd
    <3>1. slot[q].lwfd # 0 /\ slot'[q].lwfd = slot[q].lwfd /\ slot'[s].lwfd = slot[s].lwfd
      BY <2>4, <2>10, Zenon
    <3> QED
      BY <2>10, <3>1, Zenon DEF IInv, SerialState
  <2> QED
    BY <2>5, <2>6, <2>7, <2>8, <2>9, <2>10, Zenon DEF SerialState
<1>12. SlotState'
  <2>1. accepting_sockets => thread[r] = "wait" /\ slot[r].allocated
    BY <1>1, Zenon DEF IInv, SlotState, Making, Running
  <2>2. Making(t)' /\ (accepting_sockets => thread'[r] \notin {"closed", "exit"})
    BY <1>2, <1>4, <2>1, Zenon DEF Making
  <2> QED
    BY <1>1, <1>2, <1>3, <1>4, <1>5, <2>1, <2>2, OwnSlotKeeps, Zenon
<1> QED
  BY <1>7, <1>9, <1>10, <1>11, <1>12, Zenon DEF IInv

-------------------------------------------------------------------------------
(* The worker.                                                               *)

\* The worker starts the end of a title, and looks which connections to shut down.
LEMMA WakeKeeps ==
  ASSUME IInv, EndTitle \/ WakeShut \/ \E fd \in Fds : WakeLook(fd)
  PROVE  IInv'
<1>1. UNCHANGED <<slot, thread, sockets, made>>
  BY Zenon DEF EndTitle, WakeShut, WakeLook
<1>2. /\ pc' \in [Callers -> Steps] /\ loc' \in [Callers -> Locals] /\ Moves("worker")
      /\ accepting_sockets' \in BOOLEAN /\ ~accepting_sockets' /\ pc'["worker"] = "wake"
      /\ loc'["worker"].then \in {"stopped", "begin"}
      /\ loc'["worker"].then = "begin" <=> loc["worker"].then = "begin"
  <2>1. loc["worker"] \in Locals /\ "worker" \in Callers /\ "wake" \in Steps
    BY SlotFacts, Zenon DEF IInv, RelayTypes, Steps
  <2>2. CASE EndTitle
    <3> DEFINE y == [Nothing EXCEPT !.then = "stopped", !.mask = nssl_public_mask]
    <3>1. y \in Locals /\ y.then = "stopped"
      BY SlotFacts, Zenon DEF Locals, Thens, nssl_public_mask
    <3> HIDE DEF y
    <3>2. Goto("worker", "wake") /\ loc' = [loc EXCEPT !["worker"] = y] /\ accepting_sockets' = FALSE
      BY <2>2, Zenon DEF EndTitle, y
    <3>3. loc["worker"].then = "idle"
      BY <2>2, Zenon DEF EndTitle, At, IInv, TitlePhase
    <3> QED
      BY <2>1, <3>1, <3>2, <3>3, GotoFacts, Zenon DEF IInv
  <2>3. CASE WakeShut \/ \E fd \in Fds : WakeLook(fd)
    <3>1. /\ pc["worker"] = "wake" /\ UNCHANGED <<pc, accepting_sockets>>
          /\ \E y \in Locals : y.then = loc["worker"].then /\ loc' = [loc EXCEPT !["worker"] = y]
      <4>1. CASE WakeShut
        <5> DEFINE y == [loc["worker"] EXCEPT !.fd = NoFd, !.mask = @ \ {loc["worker"].fd}]
        <5>1. y \in Locals /\ y.then = loc["worker"].then
          BY <2>1, Zenon DEF Locals, Numbers
        <5>2. loc' = [loc EXCEPT !["worker"] = y]
          BY <2>1, <4>1, Zenon DEF WakeShut
        <5> QED
          BY <4>1, <5>1, <5>2, Zenon DEF WakeShut, At
      <4>2. ASSUME NEW fd \in Fds, WakeLook(fd)
            PROVE  /\ pc["worker"] = "wake" /\ UNCHANGED <<pc, accepting_sockets>>
                   /\ \E y \in Locals : /\ y.then = loc["worker"].then
                                        /\ loc' = [loc EXCEPT !["worker"] = y]
        <5> DEFINE y == [loc["worker"] EXCEPT !.fd = fd]
                   z == [loc["worker"] EXCEPT !.mask = @ \ {fd}]
        <5>1. /\ y \in Locals /\ y.then = loc["worker"].then
              /\ z \in Locals /\ z.then = loc["worker"].then
          BY <2>1, Zenon DEF Locals, Numbers
        <5>2. loc' = [loc EXCEPT !["worker"] = y] \/ loc' = [loc EXCEPT !["worker"] = z]
          BY <2>1, <4>2, Zenon DEF WakeLook
        <5> QED
          BY <4>2, <5>1, <5>2, Zenon DEF WakeLook, At
      <4> QED
        BY <2>3, <4>1, <4>2, Zenon
    <3>2. ~accepting_sockets /\ loc["worker"].then \in {"stopped", "begin"}
      BY <3>1, Zenon DEF IInv, TitlePhase
    <3>3. PICK y \in Locals : y.then = loc["worker"].then /\ loc' = [loc EXCEPT !["worker"] = y]
      BY <3>1, Zenon
    <3>4. loc' \in [Callers -> Locals] /\ loc'["worker"] = y /\ Moves("worker")
      BY <2>1, <3>1, <3>3, Zenon DEF IInv, RelayTypes, Moves
    <3> QED
      BY <3>1, <3>2, <3>3, <3>4, Zenon DEF IInv, RelayTypes
  <2> QED
    BY <2>2, <2>3, Zenon
<1>3. RelayTypes'
  BY <1>1, <1>2, Zenon DEF IInv, RelayTypes, sockets
<1> QED
  BY <1>1, <1>2, <1>3, WorkerKeeps, Zenon DEF sockets

\* It stops every relay.
LEMMA WakeEndKeeps ==
  ASSUME IInv, WakeEnd
  PROVE  IInv'
<1>1. /\ pc["worker"] = "wake" /\ StopAll("worker", loc["worker"].then)
      /\ UNCHANGED <<thread, accepting_sockets, sockets, made>>
  BY Zenon DEF WakeEnd, At
<1>2. ~accepting_sockets /\ loc["worker"].then \in {"stopped", "begin"} /\ loc["worker"] \in Locals
  BY <1>1, SlotFacts, Zenon DEF IInv, TitlePhase, RelayTypes
<1>3. /\ slot' \in [Slots -> Relays] /\ SlotStep /\ Moves("worker")
      /\ pc' \in [Callers -> Steps] /\ loc' \in [Callers -> Locals]
      /\ pc'["worker"] \in {"reap", loc["worker"].then}
      /\ loc'["worker"] = [loc["worker"] EXCEPT !.then = loc["worker"].then]
  BY <1>1, <1>2, SlotFacts, StopAllFacts, Zenon DEF IInv, Thens
<1>4. loc'["worker"].then = loc["worker"].then
  BY <1>2, <1>3, Zenon DEF Locals
<1>5. RelayTypes'
  BY <1>1, <1>3, Zenon DEF IInv, RelayTypes, sockets
<1> QED
  BY <1>1, <1>2, <1>3, <1>4, <1>5, WorkerKeeps, Zenon DEF sockets, SlotStep

\* The process dies.
LEMMA DeathKeeps ==
  ASSUME IInv, ProcessEnds
  PROVE  IInv'
<1> DEFINE y == [Nothing EXCEPT !.then = "begin", !.mask = nssl_public_mask]
<1>1. y \in Locals /\ y.then = "begin"
  BY SlotFacts, Zenon DEF Locals, Thens, nssl_public_mask
<1> HIDE DEF y
<1>2. /\ pc' = [c \in Callers |-> IF c = "worker" THEN "wake" ELSE "dead"]
      /\ loc' = [c \in Callers |-> IF c = "worker" THEN y ELSE Nothing]
      /\ thread' = [r \in Slots |-> IF Running(r) THEN "dead" ELSE thread[r]]
      /\ public' = None /\ lwOpen' = {} /\ UNCHANGED <<accepting_sockets, mapped_fd, made>>
      /\ loc["worker"].then = "stopped"
  BY Zenon DEF ProcessEnds, y
<1>3. /\ pc'["worker"] = "wake" /\ loc'["worker"].then = "begin" /\ ~accepting_sockets
      /\ \A t \in Threads : /\ pc'[t] = "dead" /\ loc'[t] = Nothing
                            /\ loc'[t].then = "idle" /\ loc'[t].fd = NoFd
  BY <1>1, <1>2, SlotFacts, Zenon DEF IInv, TitlePhase
<1>4. ASSUME NEW r \in Slots PROVE slot'[r] \in Relays /\ slot'[r].lwfd \in {slot[r].lwfd, 0}
  <2> DEFINE x == [Empty EXCEPT !.allocated = slot[r].allocated, !.public_fd = slot[r].public_fd]
  <2>1. slot[r] \in Relays /\ slot'[r] = IF ~Running(r) THEN slot[r] ELSE x
    BY Zenon DEF ProcessEnds, IInv, RelayTypes
  <2>2. slot[r].allocated \in BOOLEAN /\ slot[r].public_fd \in Numbers
    BY <2>1, Zenon DEF Relays
  <2>3. x \in Relays /\ x.lwfd = 0
    BY <2>2, SlotFacts, Zenon DEF Empty, Relays, Numbers
  <2> HIDE DEF x
  <2> QED
    BY <2>1, <2>3, Zenon
<1>5. RelayTypes'
  <2>1. slot' \in [Slots -> Relays]
    BY <1>4, Zenon DEF ProcessEnds
  <2>2. pc' \in [Callers -> Steps] /\ loc' \in [Callers -> Locals]
    BY <1>1, <1>2, SlotFacts, Zenon DEF Steps
  <2>3. thread' \in [Slots -> {"none", "wait", "pump", "out", "closed", "exit", "terminated", "dead"}]
    BY <1>2, Zenon DEF IInv, RelayTypes
  <2> QED
    BY <1>2, <2>1, <2>2, <2>3, SlotFacts, Zenon DEF IInv, RelayTypes
<1>6. CallState'
  <2>1. \A t \in Threads : CallOf(t)'
    BY <1>3, Zenon DEF CallOf, Creating
  <2>2. \A t, u \in Threads : TwoCalls(t, u)'
    BY <1>3, Zenon DEF TwoCalls, Creating, Whole
  <2> QED
    BY <2>1, <2>2, Zenon DEF CallState
<1>7. TitlePhase'
  <2>1. \A r \in Slots : ~Running(r)'
    BY <1>2, Zenon DEF Running
  <2> QED
    BY <1>2, <1>3, <2>1, Zenon DEF TitlePhase, Creating
<1>8. SerialState'
  <2>1. \A t \in Threads : ~Holding(t)' /\ ~Pending(t)'
    BY <1>3, Zenon DEF Holding, Pending, Creating
  <2>2. /\ \A fd \in Fds : mapped_fd'[fd] <= made'
        /\ \A f, g \in Fds : f # g /\ mapped_fd'[f] # 0 => mapped_fd'[f] # mapped_fd'[g]
    BY <1>2, Zenon DEF IInv, SerialState
  <2>3. \A r \in Slots : slot'[r].lwfd <= made'
    BY <1>2, <1>4 DEF IInv, SerialState, RelayTypes
  <2>4. ASSUME NEW q \in Slots, NEW r \in Slots, q # r, slot'[q].lwfd # 0
        PROVE  slot'[q].lwfd # slot'[r].lwfd
    <3>1. slot'[q].lwfd = slot[q].lwfd /\ slot'[r].lwfd \in {slot[r].lwfd, 0}
      BY <1>4, <2>4, Zenon
    <3>2. slot[q].lwfd # slot[r].lwfd
      BY <2>4, <3>1, Zenon DEF IInv, SerialState
    <3> QED
      BY <2>4, <3>1, <3>2, Zenon
  <2> QED
    BY <1>3, <2>1, <2>2, <2>3, <2>4, Zenon DEF SerialState
<1>9. SlotState'
  BY <1>2, <1>3, Zenon DEF SlotState
<1> QED
  BY <1>5, <1>6, <1>7, <1>8, <1>9, Zenon DEF IInv

\* The next process has stopped, waited and reaped: the tracking is reset.
LEMMA BeginKeeps ==
  ASSUME IInv, BeginTitle
  PROVE  IInv'
<1>1. /\ mapped_fd' = None /\ pc' = [c \in Callers |-> IF c = "worker" THEN "booting" ELSE "idle"]
      /\ loc' = [loc EXCEPT !["worker"] = Nothing]
      /\ UNCHANGED <<slot, thread, accepting_sockets, public, lwOpen, made>>
  BY Zenon DEF BeginTitle
<1>2. /\ loc["worker"].then = "begin" /\ ~accepting_sockets /\ Between
      /\ \A t \in Threads : pc[t] = "dead" /\ loc[t] = Nothing
  BY Zenon DEF BeginTitle, At, IInv, TitlePhase, Between, CallState, CallOf
<1>3. /\ pc'["worker"] = "booting" /\ loc'["worker"] = Nothing
      /\ \A t \in Threads : pc'[t] = "idle" /\ loc'[t] = Nothing
  BY <1>1, <1>2, SlotFacts, Zenon DEF IInv, RelayTypes
<1>4. RelayTypes'
  <2>1. pc' \in [Callers -> Steps] /\ loc' \in [Callers -> Locals]
    BY <1>1, SlotFacts, Zenon DEF Steps, Thens, IInv, RelayTypes
  <2> QED
    BY <1>1, <2>1, SlotFacts, Zenon DEF IInv, RelayTypes
<1>5. \A t \in Threads : ~Creating(t)' /\ ~Whole(t)' /\ loc'[t].fd = NoFd
  BY <1>3, SlotFacts, Zenon DEF Creating, Whole
<1>6. CallState'
  <2>1. \A t \in Threads : CallOf(t)'
    BY <1>3, <1>5, Zenon DEF CallOf
  <2>2. \A t, u \in Threads : TwoCalls(t, u)'
    BY <1>5, Zenon DEF TwoCalls
  <2> QED
    BY <2>1, <2>2, Zenon DEF CallState
<1>7. TitlePhase'
  <2>1. lwOpen' = {} /\ \A r \in Slots : ~Running(r)'
    BY <1>1, <1>2, Zenon DEF IInv, TitlePhase, Running
  <2>2. loc'["worker"].then = "idle"
    BY <1>3, SlotFacts, Zenon
  <2> QED
    BY <1>1, <1>2, <1>3, <1>5, <2>1, <2>2, Zenon DEF TitlePhase
<1>8. SerialState'
  <2>1. NothingMoves
    BY <1>1, Zenon DEF NothingMoves, None
  <2>2. \A t \in Threads : HandOverKept(t)
    BY <1>2, <1>5, Zenon DEF HandOverKept, Holding, Pending
  <2> QED
    BY <2>1, <2>2, SerialsKeep, Zenon
<1>9. SlotState'
  BY <1>1, <1>2, Zenon DEF SlotState
<1> QED
  BY <1>4, <1>6, <1>7, <1>8, <1>9, Zenon DEF IInv

\* The adapter is up again: no relay has survived.
LEMMA InstallKeeps ==
  ASSUME IInv, Install
  PROVE  IInv'
<1>1. /\ pc["worker"] = "booting" /\ accepting_sockets' = TRUE /\ Goto("worker", "idle")
      /\ UNCHANGED <<slot, thread, sockets, loc, made>>
  BY Zenon DEF Install, At
<1>2. /\ pc'["worker"] = "idle" /\ pc' \in [Callers -> Steps] /\ \A t \in Threads : pc'[t] = pc[t]
  BY <1>1, SlotFacts, Zenon DEF Goto, IInv, RelayTypes, Steps, Thens
<1>3. RelayTypes'
  BY <1>1, <1>2, Zenon DEF IInv, RelayTypes, sockets
<1>4. CallState'
  BY <1>1, <1>2, CallsSame, Zenon
<1>5. loc["worker"].then = "idle" /\ Between
  BY <1>1, Zenon DEF IInv, TitlePhase, Between
<1>6. TitlePhase'
  BY <1>1, <1>2, <1>5, Zenon DEF TitlePhase, Between
<1>7. SerialState'
  <2>1. \A t \in Threads : HandOverKept(t)
    BY <1>1, <1>2, Zenon DEF HandOverKept, Holding, Pending, Creating
  <2>2. NothingMoves
    BY <1>1, Zenon DEF NothingMoves, sockets
  <2> QED
    BY <2>1, <2>2, SerialsKeep, Zenon
<1>8. SlotState'
  <2>1. \A r \in Slots : ~Running(r)'
    BY <1>1, <1>5, Zenon DEF IInv, TitlePhase, Running
  <2>2. \A r \in Slots : thread'[r] \notin {"closed", "exit"}
    BY <2>1, Zenon DEF Running
  <2>3. \A t \in Threads : Making(t)'
    BY <1>1, <1>2, <1>5, Zenon DEF IInv, TitlePhase, CallState, CallOf, Making
  <2> QED
    BY <2>1, <2>2, <2>3, Zenon DEF SlotState
<1> QED
  BY <1>3, <1>4, <1>6, <1>7, <1>8, Zenon DEF IInv

-------------------------------------------------------------------------------
(* The relays.                                                               *)

\* A relay starts copying or ends, and its thread returns.
LEMMA RunKeeps ==
  ASSUME IInv, NEW r \in Slots,
         RelayStarts(r) \/ RelayStops(r) \/ RelayFinishes(r) \/ RelayExits(r)
  PROVE  IInv'
<1>1. /\ UNCHANGED <<slot, accepting_sockets, sockets, pc, loc, made>>
      /\ thread[r] \in {"wait", "pump", "exit"}
      /\ thread[r] = "wait" => slot[r].stop \/ slot[r].ready
      /\ \E p \in {"pump", "out", "terminated"} : thread' = [thread EXCEPT ![r] = p]
  BY Zenon DEF RelayStarts, RelayStops, RelayFinishes, RelayExits, Run
<1>2. /\ thread' \in [Slots -> {"none", "wait", "pump", "out", "closed", "exit", "terminated", "dead"}]
      /\ thread'[r] \in {"pump", "out", "terminated"}
      /\ \A q \in Slots \ {r} : thread'[q] = thread[q]
  BY <1>1, Zenon DEF IInv, RelayTypes
<1>3. RelayTypes'
  BY <1>1, <1>2, Zenon DEF IInv, RelayTypes, sockets
<1>4. Running(r)
  BY <1>1, Zenon DEF Running
<1> QED
  BY <1>1, <1>2, <1>3, <1>4, RelayKeeps, Zenon DEF sockets

\* It closes its two sockets.
LEMMA ClosesKeeps ==
  ASSUME IInv, NEW r \in Slots, RelayCloses(r)
  PROVE  IInv'
<1> DEFINE x == [slot[r] EXCEPT !.native_fd = NoFd, !.lwfd = 0]
<1>1. /\ thread[r] = "out" /\ thread' = [thread EXCEPT ![r] = "closed"]
      /\ slot' = [slot EXCEPT ![r] = x] /\ lwOpen' \subseteq lwOpen
      /\ public' = public \/ public' = [public EXCEPT ![slot[r].native_fd] = 0]
      /\ UNCHANGED <<accepting_sockets, mapped_fd, pc, loc, made>>
  BY Zenon DEF RelayCloses, Run, NativeClose, IInv, RelayTypes
<1>2. x \in Relays /\ x.lwfd = 0 /\ x.allocated = slot[r].allocated
  <2>1. slot[r] \in Relays /\ 0 \in Nat
    BY DEF IInv, RelayTypes
  <2> QED
    BY <2>1, Zenon DEF Relays, Numbers
<1> HIDE DEF x
<1>3. /\ slot' \in [Slots -> Relays] /\ slot'[r] = x /\ thread'[r] = "closed"
      /\ thread' \in [Slots -> {"none", "wait", "pump", "out", "closed", "exit", "terminated", "dead"}]
      /\ \A q \in Slots \ {r} : slot'[q] = slot[q] /\ thread'[q] = thread[q]
  BY <1>1, <1>2, Zenon DEF IInv, RelayTypes
<1>4. public' \in [Fds -> Nat]
  <2>1. 0 \in Nat
    OBVIOUS
  <2> QED
    BY <1>1, <2>1, Zenon DEF IInv, RelayTypes
<1>5. RelayTypes'
  BY <1>1, <1>3, <1>4, Zenon DEF IInv, RelayTypes
<1>6. Running(r) /\ thread[r] # "wait"
  BY <1>1, Zenon DEF Running
<1> QED
  BY <1>1, <1>2, <1>3, <1>5, <1>6, RelayKeeps, Zenon

\* It forgets its public descriptor and is done.
LEMMA DoneKeeps ==
  ASSUME IInv, NEW r \in Slots, RelayDone(r)
  PROVE  IInv'
<1> DEFINE x == [slot[r] EXCEPT !.public_fd = NoFd, !.done = TRUE]
<1>1. /\ thread[r] = "closed" /\ thread' = [thread EXCEPT ![r] = "exit"]
      /\ slot' = [slot EXCEPT ![r] = x]
      /\ UNCHANGED <<accepting_sockets, sockets, pc, loc, made>>
  BY Zenon DEF RelayDone, Run, IInv, RelayTypes
<1>2. x \in Relays /\ x.lwfd = slot[r].lwfd /\ x.allocated = slot[r].allocated
  BY Zenon DEF IInv, RelayTypes, Relays, Numbers
<1> HIDE DEF x
<1>3. /\ slot' \in [Slots -> Relays] /\ slot'[r] = x /\ thread'[r] = "exit"
      /\ thread' \in [Slots -> {"none", "wait", "pump", "out", "closed", "exit", "terminated", "dead"}]
      /\ \A q \in Slots \ {r} : slot'[q] = slot[q] /\ thread'[q] = thread[q]
  BY <1>1, <1>2, Zenon DEF IInv, RelayTypes
<1>4. RelayTypes'
  BY <1>1, <1>3, Zenon DEF IInv, RelayTypes, sockets
<1>5. Running(r) /\ thread[r] # "wait"
  BY <1>1, Zenon DEF Running
<1>6. accepting_sockets => slot'[r].lwfd = 0
  BY <1>1, <1>2, <1>3, Zenon DEF IInv, SlotState
<1> QED
  BY <1>1, <1>2, <1>3, <1>4, <1>5, <1>6, RelayKeeps, Zenon DEF sockets

-------------------------------------------------------------------------------
(* The invariant is inductive.                                               *)

\* At the start every slot is empty and nobody calls.
LEMMA InitIInv == Init => IInv
<1> SUFFICES ASSUME Init PROVE IInv
  BY Zenon
<1>1. RelayTypes
  BY SlotFacts, Zenon DEF Init, RelayTypes, Steps, Thens
<1>2. /\ \A r \in Slots : slot[r].lwfd = 0 /\ thread[r] = "none" /\ ~Running(r)
      /\ \A c \in Callers : pc[c] = "idle" /\ loc[c] = Nothing
      /\ accepting_sockets /\ \A fd \in Fds : mapped_fd[fd] = 0
  BY Zenon DEF Init, Empty, None, Running
<1>3. \A c \in Callers : loc[c].then = "idle" /\ loc[c].fd = NoFd
  BY <1>2, SlotFacts, Zenon
<1>4. \A t \in Threads : ~Creating(t) /\ ~Whole(t) /\ pc[t] = "idle" /\ loc[t] = Nothing
  BY <1>2, <1>3, SlotFacts, Zenon DEF Creating, Whole
<1>5. CallState
  <2>1. \A t \in Threads : CallOf(t)
    BY <1>4, Zenon DEF CallOf
  <2>2. \A t, u \in Threads : TwoCalls(t, u)
    BY <1>3, <1>4, SlotFacts, Zenon DEF TwoCalls
  <2> QED
    BY <2>1, <2>2, Zenon DEF CallState
<1>6. TitlePhase
  BY <1>2, <1>3, SlotFacts, Zenon DEF TitlePhase, Between
<1>7. SerialState
  <2>1. made = 0 /\ 0 <= 0
    BY DEF Init
  <2> QED
    BY <1>2, <1>4, <2>1, Zenon DEF SerialState, Holding, Pending
<1>8. SlotState
  BY <1>2, <1>4, Zenon DEF SlotState, Making
<1> QED
  BY <1>1, <1>5, <1>6, <1>7, <1>8, Zenon DEF IInv

\* Every step preserves it.
LEMMA NextIInv ==
  ASSUME IInv, CallsApart, [Next]_vars
  PROVE  IInv'
<1>1. ASSUME NEW c \in Callers, Reap(c) PROVE IInv'
  BY <1>1, LookKeeps, ClearKeeps, Zenon DEF Reap
<1>2. ASSUME NEW t \in Threads, CreateConnection(t) PROVE IInv'
  BY <1>2, TakeKeeps, EndKeeps, ThreadKeeps, StopsKeeps, GiveKeeps, ReadyKeeps, Zenon
     DEF CreateConnection
<1>3. ASSUME NEW t \in Threads, Title(t) PROVE IInv'
  <2>1. ASSUME NEW fd \in Fds,
               \/ Open(t, fd) \/ OpenNative(t, fd) \/ Create(t, fd)
               \/ Destroy(t, fd) \/ CloseForeign(t, fd) \/ CloseStack(t, fd)
        PROVE  IInv'
    BY <2>1, OpenKeeps, CreateKeeps, DetachKeeps, CloseKeeps, Zenon
  <2>2. CASE Release(t) \/ CloseAllNative(t)
    BY <2>2, ReleaseKeeps, Zenon
  <2>3. CASE Finish(t) \/ CloseAll(t)
    BY <2>3, WholeKeeps, Zenon
  <2>4. CASE Finished(t)
    BY <2>4, EndKeeps, Zenon
  <2>5. CASE CloseAllStack(t)
    BY <2>5, CloseAllKeeps, Zenon
  <2> QED
    BY <1>2, <1>3, <2>1, <2>2, <2>3, <2>4, <2>5, Zenon DEF Title
<1>4. CASE EndTitle \/ Worker
  BY <1>4, WakeKeeps, WakeEndKeeps, DeathKeeps, BeginKeeps, InstallKeeps, Zenon DEF Worker
<1>5. ASSUME NEW r \in Slots, Relay(r) PROVE IInv'
  BY <1>5, RunKeeps, ClosesKeeps, DoneKeeps, Zenon DEF Relay
<1>6. CASE UNCHANGED vars
  <2>1. UNCHANGED <<slot, thread, public, lwOpen, mapped_fd, made, accepting_sockets, pc, loc>>
    BY <1>6, Zenon DEF vars, sockets
  <2>2. RelayTypes'
    BY <2>1, Zenon DEF IInv, RelayTypes
  <2>3. CallState'
    BY <2>1, CallsSame, Zenon
  <2>4. TitlePhase'
    BY <2>1, PhaseSame, Zenon DEF Running
  <2>5. SerialState'
    <3>1. NothingMoves /\ \A t \in Threads : HandOverKept(t)
      BY <2>1, Zenon DEF NothingMoves, HandOverKept, Holding, Pending, Creating
    <3> QED
      BY <3>1, SerialsKeep, Zenon
  <2>6. SlotState'
    <3>1. \A t \in Threads : MakingKept(t)
      BY <2>1, Zenon DEF MakingKept
    <3> QED
      BY <2>1, <3>1, SlotsKeep, Zenon
  <2> QED
    BY <2>2, <2>3, <2>4, <2>5, <2>6, Zenon DEF IInv
<1> QED
  BY <1>1, <1>3, <1>4, <1>5, <1>6, Zenon DEF Next

\* The invariant of the slots holds for any number of threads, slots and titles.
THEOREM InvariantHolds ==
  ASSUME CallsApart
  PROVE  Spec => []IInv
<1>1. Init => IInv
  BY InitIInv, Zenon
<1>2. IInv /\ [Next]_vars => IInv'
  BY NextIInv, Zenon
<1> QED
  BY <1>1, <1>2, PTL DEF Spec

-------------------------------------------------------------------------------
(* Where the lwIP sockets are.                                               *)

\* A title is running or about to.
Live == loc["worker"].then = "idle"

\* Nothing is claimed of a title that ends.
LEMMA EndedKeeps ==
  ASSUME TitlePhase', Live' => FALSE
  PROVE  OwnerState'
<1>1. ~accepting_sockets'
  BY Zenon DEF TitlePhase, Live
<1> QED
  BY <1>1, Zenon DEF OwnerState, Owned, Live

\* A socket keeps its owner.
LEMMA OwnedKeeps ==
  ASSUME OwnerState, UNCHANGED accepting_sockets, lwOpen' \subseteq lwOpen,
         \A fd \in Fds : mapped_fd[fd] \in lwOpen' => mapped_fd'[fd] = mapped_fd[fd],
         accepting_sockets =>
           \A r \in Slots : Running(r) /\ slot[r].lwfd \in lwOpen'
                              => Running(r)' /\ slot'[r].lwfd = slot[r].lwfd
  PROVE  Owned'
<1> SUFFICES ASSUME accepting_sockets, NEW s \in lwOpen'
             PROVE  \/ \E fd \in Fds : mapped_fd'[fd] = s
                    \/ \E r \in Slots : Running(r)' /\ slot'[r].lwfd = s
  BY Zenon DEF Owned
<1>1. \/ \E fd \in Fds : mapped_fd[fd] = s
      \/ \E r \in Slots : Running(r) /\ slot[r].lwfd = s
  BY Zenon DEF OwnerState, Owned
<1> QED
  BY <1>1, Zenon

\* What a thread relies on.
KeepsKept(t) ==
  /\ pc'[t] \in {"release", "closenative"} => pc'[t] = pc[t] /\ loc'[t] = loc[t]
  /\ Holding(t)' => Holding(t) /\ loc'[t].lw = loc[t].lw /\ loc'[t].fd = loc[t].fd

\* A step that leaves the sockets alone, and in the slots those that are open.
LEMMA QuietKeeps ==
  ASSUME IInv, IInv', OwnerState, UNCHANGED <<public, mapped_fd, lwOpen, accepting_sockets>>,
         loc'["worker"] = loc["worker"], \A t \in Threads : KeepsKept(t),
         accepting_sockets =>
           \A r \in Slots : Running(r) /\ slot[r].lwfd # 0
                              => Running(r)' /\ slot'[r].lwfd = slot[r].lwfd
  PROVE  OwnerState'
<1>1. CASE ~Live
  BY <1>1, EndedKeeps, Zenon DEF IInv, Live
<1>2. CASE Live
  <2>1. ASSUME NEW t \in Threads PROVE TitleKeeps(t)'
    <3>1. TitleKeeps(t) /\ KeepsKept(t)
      BY <1>2, Zenon DEF OwnerState, Live
    <3> QED
      BY <3>1, Zenon DEF TitleKeeps, KeepsKept
  <2>2. Owned'
    <3>1. 0 \notin lwOpen'
      BY Zenon DEF IInv, RelayTypes
    <3> QED
      BY <3>1, OwnedKeeps, Zenon
  <2>3. \A fd \in Fds : mapped_fd'[fd] # 0 => public'[fd] = mapped_fd'[fd]
    BY <1>2, Zenon DEF OwnerState, Live
  <2> QED
    BY <2>1, <2>2, <2>3, Zenon DEF OwnerState
<1> QED
  BY <1>1, <1>2, Zenon

\* What the others rely on when one thread moves.
LEMMA OthersKept ==
  ASSUME NEW t \in Threads, Moves(t)
  PROVE  loc'["worker"] = loc["worker"] /\ \A u \in Threads \ {t} : KeepsKept(u)
BY SlotFacts, Zenon DEF Moves, KeepsKept, Holding, Creating

\* The steps of a call that return.
LEMMA ReturnOwner ==
  ASSUME IInv, IInv', OwnerState, NEW t \in Threads,
         \/ ReserveFull(t) \/ NsslConnects(t) \/ Finished(t) \/ TunnelFails(t) \/ NsslRefuses(t)
  PROVE  OwnerState'
<1>1. Return(t) /\ UNCHANGED <<thread, accepting_sockets, sockets>>
  BY Zenon DEF ReserveFull, NsslConnects, Finished, TunnelFails, NsslRefuses
<1>2. Moves(t) /\ pc'[t] = "idle" /\ loc'[t] = Nothing
  BY <1>1, ReturnFacts, SlotFacts, Zenon DEF IInv
<1>3. KeepsKept(t)
  BY <1>2, SlotFacts, Zenon DEF KeepsKept, Holding, Creating
<1>4. \A r \in Slots : slot'[r].lwfd = slot[r].lwfd
  <2>1. CASE UNCHANGED slot
    BY <2>1, Zenon
  <2>2. CASE StopSlot(loc[t].slot) /\ pc[t] \in {"tunnel", "connect"}
    <3>1. loc[t].slot \in Slots /\ RelayTypes
      BY <2>2, Zenon DEF IInv, CallState, CallOf
    <3> QED
      BY <2>2, <3>1, StopFacts, Zenon DEF SlotStep
  <2> QED
    BY <2>1, <2>2, Zenon DEF ReserveFull, NsslConnects, Finished, TunnelFails, NsslRefuses, At
<1> QED
  BY <1>1, <1>2, <1>3, <1>4, OthersKept, QuietKeeps, Zenon DEF sockets, Running

\* nssl_relay_reap.
LEMMA ReapOwner ==
  ASSUME IInv, IInv', OwnerState, NEW c \in Callers, Reap(c)
  PROVE  OwnerState'
<1>1. /\ pc[c] \in {"reap", "join"}
      /\ Advance(c) \/ (Goto(c, "join") /\ UNCHANGED loc)
      /\ UNCHANGED <<thread, accepting_sockets, sockets>>
  BY Zenon DEF Reap, ReapLook, ReapClear, At
<1>2. /\ Moves(c) /\ pc'[c] \in {"reap", "join", loc[c].then}
      /\ loc'[c].then = loc[c].then /\ loc'[c].fd = loc[c].fd /\ loc'[c].lw = loc[c].lw
  <2>1. CASE Advance(c)
    BY <2>1, AdvanceFacts, Zenon DEF IInv
  <2>2. CASE Goto(c, "join") /\ UNCHANGED loc
    BY <2>2, Zenon DEF Goto, IInv, RelayTypes, Moves
  <2> QED
    BY <1>1, <2>1, <2>2, Zenon
<1>3. CASE c = "worker"
  <2>1. loc[c].then \in {"stopped", "begin"}
    BY <1>1, <1>3, Zenon DEF IInv, TitlePhase
  <2> QED
    BY <1>2, <1>3, <2>1, EndedKeeps, Zenon DEF IInv, Live
<1>4. CASE c \in Threads
  <2>1. loc[c].then \in {"reserve", "finished"}
    BY <1>1, <1>4, Zenon DEF IInv, CallState, CallOf
  <2>2. KeepsKept(c)
    BY <1>1, <1>2, <2>1, Zenon DEF KeepsKept, Holding, Creating
  <2>3. \A r \in Slots : slot'[r].lwfd = slot[r].lwfd
    <3>1. CASE ReapLook(c)
      BY <3>1, Zenon DEF ReapLook
    <3>2. CASE ReapClear(c)
      <4> DEFINE x(r) == [slot[r] EXCEPT !.public_fd = NoFd, !.allocated = FALSE]
      <4>1. \A r \in Slots : slot[r] \in Relays
        BY Zenon DEF IInv, RelayTypes
      <4>2. \A r \in Slots : x(r).lwfd = slot[r].lwfd
        BY <4>1, Zenon DEF Relays
      <4>3. loc[c].i \in Slots /\ slot' = [slot EXCEPT ![loc[c].i] = x(loc[c].i)]
        BY <3>2, Zenon DEF ReapClear, IInv, RelayTypes, Locals
      <4> HIDE DEF x
      <4> QED
        BY <4>2, <4>3, Zenon DEF IInv, RelayTypes
    <3> QED
      BY <3>1, <3>2, Zenon DEF Reap
  <2> QED
    BY <1>1, <1>2, <1>4, <2>2, <2>3, OthersKept, QuietKeeps, Zenon DEF sockets, Running
<1> QED
  BY <1>3, <1>4, Zenon DEF Callers

\* nssl_relay_reserve: the slot had no relay.
LEMMA ReserveOwner ==
  ASSUME IInv, IInv', OwnerState, NEW t \in Threads,
         ReserveThread(t) \/ \E r \in Slots : ReserveTake(t, r)
  PROVE  OwnerState'
<1>1. UNCHANGED <<accepting_sockets, sockets>>
  BY Zenon DEF ReserveThread, ReserveTake
<1>2. t \in Callers /\ loc[t] \in Locals /\ RelayTypes /\ {"create", "tunnel"} \subseteq Steps
  BY SlotFacts, Zenon DEF IInv, RelayTypes, Steps
<1>3. CASE ReserveThread(t)
  <2> PICK r \in Slots : r = loc[t].slot
    BY <1>3, Zenon DEF ReserveThread, At, IInv, CallState, CallOf
  <2>1. Creating(t) /\ pc[t] = "create" /\ (accepting_sockets => ~Running(r))
    BY <1>3, Zenon DEF ReserveThread, At, IInv, CallState, CallOf, SlotState, Making
  <2>2. /\ Moves(t) /\ \/ pc'[t] = "tunnel" /\ loc'[t] = loc[t]
                       \/ pc'[t] = "idle" /\ loc'[t] = Nothing
    <3>1. CASE Goto(t, "tunnel") /\ UNCHANGED loc
      BY <1>2, <3>1, Zenon DEF Goto, RelayTypes, Moves
    <3>2. CASE Return(t)
      BY <1>2, <3>2, ReturnFacts, Zenon
    <3> QED
      BY <1>3, <3>1, <3>2, Zenon DEF ReserveThread
  <2>3. KeepsKept(t)
    BY <2>1, <2>2, SlotFacts, Zenon DEF KeepsKept, Holding, Creating
  <2>4. \A q \in Slots \ {r} : slot'[q] = slot[q] /\ thread'[q] = thread[q]
    BY <1>2, <1>3, Zenon DEF ReserveThread, RelayTypes
  <2> QED
    BY <1>1, <2>1, <2>2, <2>3, <2>4, OthersKept, QuietKeeps, Zenon DEF sockets, Running
<1>4. ASSUME NEW r \in Slots, ReserveTake(t, r) PROVE OwnerState'
  <2> DEFINE x == [slot[r] EXCEPT !.allocated = TRUE]
             y == [loc[t] EXCEPT !.slot = r]
  <2>1. x.lwfd = slot[r].lwfd
    BY <1>2, Zenon DEF RelayTypes, Relays
  <2>2. r \in Nat /\ y \in Locals /\ y.fd = loc[t].fd /\ y.lw = loc[t].lw /\ y.then = loc[t].then
    BY <1>2, SlotFacts, Zenon DEF Locals
  <2> HIDE DEF x, y
  <2>3. /\ pc[t] = "reserve" /\ Goto(t, "create") /\ loc' = [loc EXCEPT ![t] = y]
        /\ slot' = [slot EXCEPT ![r] = x] /\ UNCHANGED thread
    BY <1>4, Zenon DEF ReserveTake, At, x, y
  <2>4. Moves(t) /\ pc'[t] = "create" /\ loc'[t] = y
    BY <1>2, <2>2, <2>3, GotoFacts, Zenon
  <2>5. KeepsKept(t)
    BY <2>2, <2>3, <2>4, Zenon DEF KeepsKept, Holding, Creating
  <2>6. \A q \in Slots : slot'[q].lwfd = slot[q].lwfd
    BY <1>2, <2>1, <2>3, Zenon DEF RelayTypes
  <2> QED
    BY <1>1, <2>3, <2>4, <2>5, <2>6, OthersKept, QuietKeeps, Zenon DEF sockets, Running
<1> QED
  BY <1>3, <1>4, Zenon

\* The slot is given the sockets: it had none.
LEMMA GiveOwner ==
  ASSUME IInv, IInv', OwnerState, NEW t \in Threads, NEW p \in Fds, GiveSockets(t, p)
  PROVE  OwnerState'
<1>1. /\ pc[t] = "tunnel" /\ Goto(t, "given")
      /\ UNCHANGED <<thread, accepting_sockets, public, lwOpen, mapped_fd, loc>>
  BY Zenon DEF GiveSockets, At
<1>2. /\ loc[t].slot \in Slots /\ (accepting_sockets => slot[loc[t].slot].lwfd = 0)
      /\ \A q \in Slots : q # loc[t].slot => slot'[q] = slot[q]
  BY <1>1, Zenon DEF GiveSockets, IInv, CallState, CallOf, SlotState, Making, RelayTypes
<1>3. Moves(t) /\ pc'[t] = "given"
  BY <1>1, SlotFacts, Zenon DEF Goto, IInv, RelayTypes, Moves
<1>4. KeepsKept(t)
  BY <1>1, <1>3, Zenon DEF KeepsKept, Holding, Creating
<1> QED
  BY <1>1, <1>2, <1>3, <1>4, OthersKept, QuietKeeps, Zenon DEF Running

\* NSSLDestroyConnection, and the calls that concern everything.
LEMMA WholeOwner ==
  ASSUME IInv, IInv', CallsApart, OwnerState, NEW t \in Threads,
         Finish(t) \/ CloseAll(t) \/ \E fd \in Fds : Destroy(t, fd)
  PROVE  OwnerState'
<1>1. UNCHANGED <<thread, accepting_sockets, sockets>>
  BY Zenon DEF Finish, CloseAll, Destroy
<1>2. RelayTypes /\ t \in Callers /\ loc[t] \in Locals
  BY SlotFacts, Zenon DEF IInv, RelayTypes
<1>3. ASSUME NEW p \in {"finished", "closeall"}
      PROVE  [loc[t] EXCEPT !.then = p] \in Locals /\ [loc[t] EXCEPT !.then = p].then = p
  BY <1>2, Zenon DEF Locals, Thens
<1>4. /\ Moves(t) /\ pc'[t] \in {"idle", "reap", "finished", "closeall"}
      /\ loc'[t].then \in {"idle", "finished", "closeall"}
      /\ \A r \in Slots : slot'[r].lwfd = slot[r].lwfd
  <2>1. CASE Finish(t)
    <3>1. StopAll(t, "finished") /\ "finished" \in Thens
      BY <2>1, Zenon DEF Finish, Thens
    <3> QED
      BY <1>2, <1>3, <3>1, StopAllFacts, Zenon DEF SlotStep
  <2>2. CASE CloseAll(t)
    <3>1. /\ Goto(t, "closeall") /\ UNCHANGED slot /\ "closeall" \in Steps
          /\ loc' = [loc EXCEPT ![t] = [loc[t] EXCEPT !.then = "closeall"]]
      BY <2>2, Zenon DEF CloseAll, Steps, Thens
    <3> QED
      BY <1>2, <1>3, <3>1, GotoFacts, Zenon
  <2>3. ASSUME NEW fd \in Fds, Destroy(t, fd)
        PROVE  /\ Moves(t) /\ pc'[t] = "idle" /\ loc'[t].then = "idle"
               /\ \A r \in Slots : slot'[r].lwfd = slot[r].lwfd
    <3>1. Enter(t) /\ Detach(fd) /\ Unused(fd) /\ UNCHANGED <<pc, loc, thread>>
      BY <2>3, Zenon DEF Destroy
    <3> QED
      BY <3>1, DetachFacts, EnterFacts, SlotFacts, Zenon DEF SlotStep, Moves
  <2> QED
    BY <2>1, <2>2, <2>3, Zenon
<1>5. KeepsKept(t)
  BY <1>4, Zenon DEF KeepsKept, Holding, Creating
<1> QED
  BY <1>1, <1>4, <1>5, OthersKept, QuietKeeps, Zenon DEF sockets, Running

\* A relay that closes nothing.
LEMMA RunOwner ==
  ASSUME IInv, IInv', OwnerState, NEW r \in Slots,
         RelayStarts(r) \/ RelayStops(r) \/ RelayFinishes(r) \/ RelayExits(r) \/ RelayDone(r)
  PROVE  OwnerState'
<1>1. /\ UNCHANGED <<accepting_sockets, sockets, pc, loc>>
      /\ \A q \in Slots \ {r} : slot'[q] = slot[q] /\ thread'[q] = thread[q]
  BY Zenon DEF RelayStarts, RelayStops, RelayFinishes, RelayExits, RelayDone, Run, IInv, RelayTypes
<1>2. accepting_sockets =>
        \/ slot[r].lwfd = 0
        \/ thread'[r] \in {"pump", "out"} /\ slot'[r].lwfd = slot[r].lwfd
  BY Zenon DEF RelayStarts, RelayStops, RelayFinishes, RelayExits, RelayDone, Run,
               IInv, RelayTypes, SlotState
<1>3. \A t \in Threads : KeepsKept(t)
  BY <1>1, Zenon DEF KeepsKept, Holding, Creating
<1> QED
  BY <1>1, <1>2, <1>3, QuietKeeps, Zenon DEF sockets, Running

\* NSSLCreateConnection begins: the socket is under the descriptor.
LEMMA CreateOwner ==
  ASSUME IInv, IInv', OwnerState, NEW t \in Threads, NEW fd \in Fds, Create(t, fd)
  PROVE  OwnerState'
<1> DEFINE y == [Nothing EXCEPT !.fd = fd, !.lw = mapped_fd[fd], !.then = "reserve"]
<1>1. /\ Goto(t, "reap") /\ loc' = [loc EXCEPT ![t] = y] /\ y.fd = fd /\ y.lw = mapped_fd[fd]
      /\ UNCHANGED <<slot, thread, accepting_sockets, sockets>>
  BY Zenon DEF Create, Nothing
<1> HIDE DEF y
<1>2. Moves(t) /\ pc'[t] = "reap" /\ loc'[t] = y
  BY <1>1, SlotFacts, Zenon DEF Goto, IInv, RelayTypes, Moves
<1>3. CASE ~Live
  BY <1>2, <1>3, OthersKept, EndedKeeps, Zenon DEF IInv, Live
<1>4. CASE Live
  <2>1. TitleKeeps(t)'
    BY <1>1, <1>2, Zenon DEF TitleKeeps, sockets
  <2>2. ASSUME NEW u \in Threads \ {t} PROVE TitleKeeps(u)'
    <3>1. TitleKeeps(u) /\ KeepsKept(u)
      BY <1>2, <1>4, OthersKept, Zenon DEF OwnerState, Live
    <3> QED
      BY <1>1, <3>1, Zenon DEF TitleKeeps, KeepsKept, sockets
  <2>3. Owned'
    BY <1>1, OwnedKeeps, Zenon DEF sockets, Running
  <2>4. \A f \in Fds : mapped_fd'[f] # 0 => public'[f] = mapped_fd'[f]
    BY <1>1, <1>4, Zenon DEF OwnerState, Live, sockets
  <2> QED
    BY <2>1, <2>2, <2>3, <2>4, Zenon DEF OwnerState
<1> QED
  BY <1>3, <1>4, Zenon

\* socketclose of a descriptor the shim does not have.
LEMMA ForeignOwner ==
  ASSUME IInv, IInv', CallsApart, OwnerState, NEW t \in Threads, NEW fd \in Fds, CloseForeign(t, fd)
  PROVE  OwnerState'
<1>1. /\ Enter(t) /\ Goto(t, "release") /\ loc' = [loc EXCEPT ![t] = [loc[t] EXCEPT !.fd = fd]]
      /\ Unused(fd) /\ Detach(fd) /\ public[fd] # 0 /\ is_foreign(fd)
      /\ UNCHANGED <<thread, accepting_sockets, sockets>>
  BY Zenon DEF CloseForeign
<1>2. [Nothing EXCEPT !.fd = fd] \in Locals /\ "release" \in Steps
  BY SlotFacts, FieldFacts, Zenon DEF Numbers, Steps
<1>3. [Nothing EXCEPT !.fd = fd].fd = fd /\ [Nothing EXCEPT !.fd = fd].then = "idle"
  BY Zenon DEF Nothing
<1>4. /\ Moves(t) /\ pc'[t] = "release" /\ loc'[t].fd = fd /\ loc'[t].then = "idle"
  BY <1>1, <1>2, <1>3, EnterFacts, GotoFacts, SlotFacts, Zenon DEF IInv
<1>5. \A r \in Slots : slot'[r].lwfd = slot[r].lwfd
  BY <1>1, DetachFacts, Zenon DEF SlotStep
<1>6. CASE ~Live
  BY <1>4, <1>6, OthersKept, EndedKeeps, Zenon DEF IInv, Live
<1>7. CASE Live
  <2>1. mapped_fd[fd] = 0
    <3>1. CASE accepting_sockets
      BY <1>1, <3>1, Zenon DEF is_foreign, open_mask
    <3>2. CASE ~accepting_sockets
      BY <1>7, <3>2, Zenon DEF IInv, TitlePhase, Live, None
    <3> QED
      BY <3>1, <3>2, Zenon
  <2>2. TitleKeeps(t)'
    BY <1>1, <1>4, <2>1, Zenon DEF TitleKeeps, Holding, Creating, sockets
  <2>3. ASSUME NEW u \in Threads \ {t} PROVE TitleKeeps(u)'
    <3>1. TitleKeeps(u) /\ KeepsKept(u)
      BY <1>4, <1>7, OthersKept, Zenon DEF OwnerState, Live
    <3> QED
      BY <1>1, <3>1, Zenon DEF TitleKeeps, KeepsKept, sockets
  <2>4. Owned'
    BY <1>1, <1>5, OwnedKeeps, Zenon DEF sockets, Running
  <2>5. \A f \in Fds : mapped_fd'[f] # 0 => public'[f] = mapped_fd'[f]
    BY <1>1, <1>7, Zenon DEF OwnerState, Live, sockets
  <2> QED
    BY <2>2, <2>3, <2>4, <2>5, Zenon DEF OwnerState
<1> QED
  BY <1>6, <1>7, Zenon

\* A new descriptor is not one that is in use.
LEMMA OpenOwner ==
  ASSUME IInv, IInv', CallsApart, OwnerState, NEW t \in Threads, NEW fd \in Fds,
         Open(t, fd) \/ OpenNative(t, fd)
  PROVE  OwnerState'
<1>1. /\ public[fd] = 0 /\ made' = made + 1 /\ public' = [public EXCEPT ![fd] = made']
      /\ \/ lwOpen' = lwOpen /\ mapped_fd' = mapped_fd
         \/ /\ accepting_sockets /\ lwOpen' = lwOpen \cup {made'}
            /\ mapped_fd' = [mapped_fd EXCEPT ![fd] = made']
      /\ UNCHANGED <<slot, thread, accepting_sockets, pc, loc>>
  BY Zenon DEF Open, OpenNative, Free
<1>2. made' # 0
  BY <1>1 DEF IInv, RelayTypes
<1>5. \A u \in Threads : ~Whole(u)
  BY EnterFacts, Zenon DEF Open, OpenNative
<1>3. CASE ~Live
  BY <1>1, <1>3, EndedKeeps, Zenon DEF IInv, Live
<1>4. CASE Live
  <2>1. mapped_fd[fd] = 0
    BY <1>1, <1>4, Zenon DEF OwnerState, Live
  <2>2. /\ public'[fd] = made' /\ \A f \in Fds \ {fd} : public'[f] = public[f]
        /\ \A f \in Fds \ {fd} : mapped_fd'[f] = mapped_fd[f]
        /\ mapped_fd'[fd] \in {0, made'}
    BY <1>1, <2>1, Zenon DEF IInv, RelayTypes
  <2>3. \A f \in Fds : mapped_fd'[f] # 0 => public'[f] = mapped_fd'[f]
    BY <1>4, <2>2, Zenon DEF OwnerState, Live
  <2>4. ASSUME NEW u \in Threads PROVE TitleKeeps(u)'
    <3>1. TitleKeeps(u) /\ CallOf(u)
      BY <1>4, Zenon DEF OwnerState, Live, IInv, CallState
    <3>2. pc[u] = "release" => loc[u].fd \in Fds \ {fd}
      BY <1>1, <3>1, Zenon DEF TitleKeeps, CallOf
    <3>3. Holding(u) => loc[u].fd \in Fds \ {fd}
      BY <2>1, <3>1, Zenon DEF TitleKeeps, CallOf, Holding
    <3>4. pc[u] # "closenative"
      BY <1>5, <3>1, Zenon DEF CallOf, Whole
    <3> QED
      BY <1>1, <2>2, <3>1, <3>2, <3>3, <3>4, Zenon DEF TitleKeeps, Holding, Creating
  <2>5. Owned'
    <3> SUFFICES ASSUME accepting_sockets, NEW s \in lwOpen'
                 PROVE  \/ \E f \in Fds : mapped_fd'[f] = s
                        \/ \E r \in Slots : Running(r)' /\ slot'[r].lwfd = s
      BY <1>1, Zenon DEF Owned
    <3>1. CASE s \in lwOpen
      <4>1. s # 0
        BY <3>1, Zenon DEF IInv, RelayTypes
      <4>2. \/ \E f \in Fds : mapped_fd[f] = s
            \/ \E r \in Slots : Running(r) /\ slot[r].lwfd = s
        BY <3>1, Zenon DEF OwnerState, Owned
      <4> QED
        BY <1>1, <2>1, <2>2, <4>1, <4>2, Zenon DEF Running
    <3>2. CASE s \notin lwOpen
      <4>1. s = made' /\ mapped_fd' = [mapped_fd EXCEPT ![fd] = made']
        BY <1>1, <3>2, Zenon
      <4>2. mapped_fd'[fd] = s
        BY <4>1, Zenon DEF IInv, RelayTypes
      <4> QED
        BY <4>2, Zenon
    <3> QED
      BY <3>1, <3>2, Zenon
  <2> QED
    BY <2>3, <2>4, <2>5, Zenon DEF OwnerState
<1> QED
  BY <1>3, <1>4, Zenon

\* Descriptors are closed that nobody else uses, and mapped_fd keeps none of them.
LEMMA ClosedOwner ==
  ASSUME IInv, IInv', OwnerState, Live, UNCHANGED accepting_sockets, loc'["worker"] = loc["worker"],
         \A fd \in Fds : \/ public'[fd] = public[fd] /\ mapped_fd'[fd] = mapped_fd[fd]
                         \/ mapped_fd'[fd] = 0 /\ \A u \in Threads : Holding(u)' \/ pc'[u] = "release" => loc'[u].fd # fd,
         \A u \in Threads : pc'[u] = "closenative" => mapped_fd' = None,
         \A u \in Threads : KeepsKept(u) \/ pc'[u] = "closenative",
         Owned'
  PROVE  OwnerState'
<1>1. \A fd \in Fds : mapped_fd'[fd] # 0 => public'[fd] = mapped_fd'[fd]
  BY Zenon DEF OwnerState, Live
<1>2. ASSUME NEW u \in Threads PROVE TitleKeeps(u)'
  <2>1. TitleKeeps(u) /\ CallOf(u)'
    BY Zenon DEF OwnerState, Live, IInv, CallState
  <2>2. CASE pc'[u] = "closenative"
    BY <2>1, <2>2, Zenon DEF TitleKeeps, CallOf, Holding, Creating
  <2>3. CASE pc'[u] # "closenative"
    <3>1. KeepsKept(u)
      BY <2>3, Zenon
    <3>2. pc'[u] = "release" => public'[loc'[u].fd] # 0 /\ mapped_fd'[loc'[u].fd] = 0
      <4> SUFFICES ASSUME pc'[u] = "release"
                   PROVE  public'[loc'[u].fd] # 0 /\ mapped_fd'[loc'[u].fd] = 0
        BY Zenon
      <4>1. pc[u] = "release" /\ loc'[u] = loc[u] /\ loc'[u].fd \in Fds
        BY <2>1, <3>1, Zenon DEF KeepsKept, CallOf
      <4>2. public'[loc[u].fd] = public[loc[u].fd] /\ mapped_fd'[loc[u].fd] = mapped_fd[loc[u].fd]
        BY <4>1, Zenon
      <4> QED
        BY <2>1, <4>1, <4>2, Zenon DEF TitleKeeps
    <3>3. Holding(u)' => mapped_fd'[loc'[u].fd] = loc'[u].lw
      <4> SUFFICES ASSUME Holding(u)' PROVE mapped_fd'[loc'[u].fd] = loc'[u].lw
        BY Zenon
      <4>1. Holding(u) /\ loc'[u].lw = loc[u].lw /\ loc'[u].fd = loc[u].fd /\ loc'[u].fd \in Fds
        BY <2>1, <3>1, Zenon DEF KeepsKept, CallOf, Holding
      <4>2. mapped_fd'[loc[u].fd] = mapped_fd[loc[u].fd]
        BY <4>1, Zenon
      <4> QED
        BY <2>1, <4>1, <4>2, Zenon DEF TitleKeeps
    <3> QED
      BY <2>3, <3>2, <3>3, Zenon DEF TitleKeeps
  <2> QED
    BY <2>2, <2>3, Zenon
<1> QED
  BY <1>1, <1>2, Zenon DEF OwnerState

\* nsysnet closes the descriptor that socketclose has forgotten.
LEMMA ReleaseOwner ==
  ASSUME IInv, IInv', OwnerState, NEW t \in Threads, Release(t)
  PROVE  OwnerState'
<1> DEFINE fd == loc[t].fd
<1>1. /\ pc[t] = "release" /\ Return(t) /\ public' = [public EXCEPT ![fd] = 0]
      /\ UNCHANGED <<slot, thread, accepting_sockets, lwOpen, mapped_fd>>
  BY Zenon DEF Release, At, NativeClose
<1>2. Moves(t) /\ pc'[t] = "idle" /\ loc'[t] = Nothing
  BY <1>1, SlotFacts, ReturnFacts, Zenon DEF IInv
<1>3. loc'["worker"] = loc["worker"] /\ \A u \in Threads \ {t} : KeepsKept(u)
  BY <1>2, OthersKept, Zenon
<1>4. CASE ~Live
  BY <1>3, <1>4, EndedKeeps, Zenon DEF IInv, Live
<1>5. CASE Live
  <2>1. fd \in Fds /\ mapped_fd[fd] = 0 /\ fd # NoFd
    BY <1>1, <1>5, SlotFacts, Zenon DEF OwnerState, Live, TitleKeeps, IInv, CallState, CallOf
  <2>2. \A f \in Fds \ {fd} : public'[f] = public[f]
    BY <1>1, Zenon DEF IInv, RelayTypes
  <2>3. ASSUME NEW u \in Threads PROVE (Holding(u)' \/ pc'[u] = "release") => loc'[u].fd # fd
    <3>1. CASE u = t
      BY <1>2, <3>1, SlotFacts, Zenon DEF Holding, Creating
    <3>2. CASE u # t
      BY <1>2, <2>1, <3>2, SlotFacts, Zenon DEF Moves, IInv, CallState, TwoCalls
    <3> QED
      BY <3>1, <3>2, Zenon
  <2>4. \A f \in Fds : \/ public'[f] = public[f] /\ mapped_fd'[f] = mapped_fd[f]
                       \/ mapped_fd'[f] = 0 /\ \A u \in Threads : Holding(u)' \/ pc'[u] = "release" => loc'[u].fd # f
    BY <1>1, <2>1, <2>2, <2>3, Zenon
  <2>5. \A u \in Threads : KeepsKept(u)
    BY <1>2, <1>3, SlotFacts, Zenon DEF KeepsKept, Holding, Creating
  <2>6. \A u \in Threads : pc'[u] = "closenative" => mapped_fd' = None
    BY <1>1, <1>5, <2>5, Zenon DEF KeepsKept, OwnerState, Live, TitleKeeps
  <2>7. Owned'
    BY <1>1, OwnedKeeps, Zenon DEF Running
  <2> QED
    BY <1>1, <1>3, <1>5, <2>4, <2>5, <2>6, <2>7, ClosedOwner, Zenon
<1> QED
  BY <1>4, <1>5, Zenon

\* socketclose of a descriptor that is on lwIP.
LEMMA CloseOwner ==
  ASSUME IInv, IInv', CallsApart, OwnerState, NEW t \in Threads, NEW fd \in Fds, CloseStack(t, fd)
  PROVE  OwnerState'
<1>1. /\ Enter(t) /\ Unused(fd) /\ public' = [public EXCEPT ![fd] = 0]
      /\ mapped_fd' = [mapped_fd EXCEPT ![fd] = 0] /\ lwOpen' = lwOpen \ {mapped_fd[fd]}
      /\ UNCHANGED <<slot, thread, accepting_sockets, pc, loc>>
  BY Zenon DEF CloseStack, NativeClose
<1>2. \A u \in Threads : KeepsKept(u)
  BY <1>1, Zenon DEF KeepsKept, Holding, Creating
<1>3. \A u \in Threads : pc'[u] # "closenative"
  BY <1>1, EnterFacts, Zenon DEF IInv, CallState, CallOf, Whole
<1>4. CASE ~Live
  BY <1>1, <1>4, EndedKeeps, Zenon DEF IInv, Live
<1>5. CASE Live
  <2>1. /\ mapped_fd'[fd] = 0
        /\ \A f \in Fds \ {fd} : public'[f] = public[f] /\ mapped_fd'[f] = mapped_fd[f]
    BY <1>1, Zenon DEF IInv, RelayTypes
  <2>2. \A u \in Threads : loc'[u].fd # fd
    BY <1>1, SlotFacts, Zenon DEF Unused
  <2>3. Owned'
    BY <1>1, <2>1, OwnedKeeps, Zenon DEF Running
  <2> QED
    BY <1>1, <1>2, <1>3, <1>5, <2>1, <2>2, <2>3, ClosedOwner, Zenon
<1> QED
  BY <1>4, <1>5, Zenon

\* The steps of socketclose_all.
LEMMA CloseAllOwner ==
  ASSUME IInv, IInv', OwnerState, NEW t \in Threads, CloseAllStack(t) \/ CloseAllNative(t)
  PROVE  OwnerState'
<1>1. /\ pc[t] \in {"closeall", "closenative"} /\ Moves(t)
      /\ UNCHANGED <<slot, thread, accepting_sockets>>
      /\ \/ pc'[t] = "closenative" /\ CloseAllStack(t) /\ loc'[t] = loc[t]
         \/ pc'[t] = "idle" /\ CloseAllNative(t) /\ loc'[t] = Nothing
  <2>1. CASE CloseAllStack(t)
    BY <2>1, SlotFacts, Zenon DEF CloseAllStack, At, Goto, Moves, IInv, RelayTypes
  <2>2. CASE CloseAllNative(t)
    BY <2>2, SlotFacts, ReturnFacts, Zenon DEF CloseAllNative, At, IInv
  <2> QED
    BY <2>1, <2>2, Zenon
<1>2. ASSUME NEW u \in Threads PROVE ~(Holding(u)' \/ pc'[u] = "release")
  <2>1. CASE u = t
    BY <1>1, <2>1, SlotFacts, Zenon DEF Holding, Creating, IInv, CallState, CallOf
  <2>2. CASE u # t
    <3>1. pc[u] = "idle" /\ loc[u] = Nothing
      BY <1>1, <2>2, Zenon DEF IInv, CallState, CallOf, TwoCalls, Whole
    <3> QED
      BY <1>1, <2>2, <3>1, SlotFacts, Zenon DEF Moves, Holding, Creating
  <2> QED
    BY <2>1, <2>2, Zenon
<1>3. loc'["worker"] = loc["worker"] /\ \A u \in Threads \ {t} : KeepsKept(u)
  BY <1>1, OthersKept, Zenon
<1>4. CASE ~Live
  BY <1>3, <1>4, EndedKeeps, Zenon DEF IInv, Live
<1>5. CASE Live
  <2>1. mapped_fd' = None /\ lwOpen' \subseteq lwOpen
    <3>1. CASE CloseAllNative(t)
      BY <1>5, <3>1, Zenon DEF CloseAllNative, At, OwnerState, Live, TitleKeeps
    <3>2. CASE CloseAllStack(t)
      BY <1>5, <3>2, Zenon DEF CloseAllStack, IInv, TitlePhase, Live
    <3> QED
      BY <1>1, <3>1, <3>2, Zenon
  <2>2. \A fd \in Fds : mapped_fd'[fd] = 0
    BY <2>1, Zenon DEF None
  <2>3. \A u \in Threads : KeepsKept(u) \/ pc'[u] = "closenative"
    BY <1>1, <1>2, <1>3, Zenon DEF KeepsKept
  <2>4. \A fd \in Fds : mapped_fd[fd] \in lwOpen' => mapped_fd'[fd] = mapped_fd[fd]
    <3>1. CASE CloseAllNative(t)
      BY <3>1, Zenon DEF CloseAllNative
    <3>2. CASE CloseAllStack(t)
      BY <3>2, Zenon DEF CloseAllStack
    <3> QED
      BY <1>1, <3>1, <3>2, Zenon
  <2>5. Owned'
    BY <1>1, <2>1, <2>4, OwnedKeeps, Zenon DEF Running
  <2> QED
    BY <1>1, <1>2, <1>3, <1>5, <2>1, <2>2, <2>3, <2>5, ClosedOwner, Zenon
<1> QED
  BY <1>4, <1>5, Zenon

\* The lwIP socket goes from mapped_fd to the slot.
LEMMA ReadyOwner ==
  ASSUME IInv, IInv', OwnerState, NEW t \in Threads, MakeReady(t)
  PROVE  OwnerState'
<1> DEFINE fd == loc[t].fd
<1>1. PICK r \in Slots : r = loc[t].slot
  BY Zenon DEF MakeReady, At, IInv, CallState, CallOf
<1>2. /\ pc[t] = "given" /\ Goto(t, "connect") /\ mapped_fd' = [mapped_fd EXCEPT ![fd] = 0]
      /\ slot' = [slot EXCEPT ![r].ready = TRUE]
      /\ UNCHANGED <<thread, accepting_sockets, public, lwOpen, loc>>
  BY <1>1, Zenon DEF MakeReady, At
<1>3. Moves(t) /\ pc'[t] = "connect"
  BY <1>2, SlotFacts, Zenon DEF Goto, Moves, IInv, RelayTypes
<1>4. loc'["worker"] = loc["worker"] /\ \A u \in Threads \ {t} : KeepsKept(u)
  BY <1>3, OthersKept, Zenon
<1>5. CASE ~Live
  BY <1>4, <1>5, EndedKeeps, Zenon DEF IInv, Live
<1>6. CASE Live
  <2>1. fd \in Fds /\ fd # NoFd /\ Creating(t)
    BY <1>2, SlotFacts, Zenon DEF IInv, CallState, CallOf
  <2>2. mapped_fd[fd] = loc[t].lw
    BY <1>2, <1>6, <2>1, Zenon DEF OwnerState, Live, TitleKeeps, Holding
  <2>3. mapped_fd'[fd] = 0 /\ \A f \in Fds \ {fd} : mapped_fd'[f] = mapped_fd[f]
    BY <1>2, <2>1, Zenon DEF IInv, RelayTypes
  <2>4. \A q \in Slots : slot'[q].lwfd = slot[q].lwfd
    <3>1. ASSUME NEW q \in Slots, q # r PROVE slot'[q] = slot[q]
      BY <1>2, <3>1, Zenon DEF IInv, RelayTypes
    <3>2. slot'[r] = [slot[r] EXCEPT !.ready = TRUE] /\ slot[r] \in Relays
      BY <1>2, Zenon DEF IInv, RelayTypes
    <3>3. slot'[r].lwfd = slot[r].lwfd
      BY <3>2, Zenon DEF Relays
    <3> QED
      BY <3>1, <3>3, Zenon
  <2>5. ASSUME NEW u \in Threads PROVE (Holding(u)' \/ pc'[u] = "release") => loc'[u].fd # fd
    <3>1. CASE u = t
      BY <1>3, <3>1, Zenon DEF Holding
    <3>2. CASE u # t
      BY <1>2, <2>1, <3>2, Zenon DEF IInv, CallState, TwoCalls
    <3> QED
      BY <3>1, <3>2, Zenon
  <2>6. \A u \in Threads : KeepsKept(u)
    BY <1>2, <1>3, <1>4, Zenon DEF KeepsKept, Holding
  <2>7. \A u \in Threads : pc'[u] = "closenative" => FALSE
    BY <1>2, <1>3, <2>1, Zenon DEF Moves, IInv, CallState, CallOf, TwoCalls, Whole
  <2>8. Owned'
    <3> SUFFICES ASSUME accepting_sockets, NEW s \in lwOpen
                 PROVE  \/ \E f \in Fds : mapped_fd'[f] = s
                        \/ \E q \in Slots : Running(q)' /\ slot'[q].lwfd = s
      BY <1>2, Zenon DEF Owned
    <3>1. \/ \E f \in Fds : mapped_fd[f] = s
          \/ \E q \in Slots : Running(q) /\ slot[q].lwfd = s
      BY Zenon DEF OwnerState, Owned
    <3>2. thread[r] = "wait" /\ slot[r].lwfd = loc[t].lw
      BY <1>1, <1>2, Zenon DEF IInv, SlotState, Making
    <3>3. Running(r)'
      BY <1>2, <3>2, Zenon DEF Running
    <3> QED
      BY <1>2, <2>2, <2>3, <2>4, <3>1, <3>2, <3>3, Zenon DEF Running
  <2> QED
    BY <1>2, <1>4, <1>6, <2>3, <2>5, <2>6, <2>7, <2>8, ClosedOwner, Zenon
<1> QED
  BY <1>5, <1>6, Zenon

\* A relay closes its sockets, and its number is not a recycled one.
LEMMA ClosesOwner ==
  ASSUME IInv, IInv', NativeFdIsOwn, OwnerState, NEW r \in Slots, RelayCloses(r)
  PROVE  OwnerState'
<1> DEFINE p == slot[r].native_fd
<1>1. /\ thread[r] = "out" /\ thread' = [thread EXCEPT ![r] = "closed"]
      /\ public' = IF p # NoFd THEN [public EXCEPT ![p] = 0] ELSE public
      /\ lwOpen' = lwOpen \ {slot[r].lwfd}
      /\ slot' = [slot EXCEPT ![r].native_fd = NoFd, ![r].lwfd = 0]
      /\ UNCHANGED <<accepting_sockets, mapped_fd, pc, loc>>
  BY Zenon DEF RelayCloses, Run, NativeClose
<1>2. Running(r)
  BY <1>1, Zenon DEF Running
<1>3. p # NoFd => public[p] = 0
  BY <1>2, Zenon DEF NativeFdIsOwn
<1>4. \A f \in Fds : public'[f] = public[f]
  BY <1>1, <1>3, Zenon DEF IInv, RelayTypes
<1>5. \A u \in Threads : KeepsKept(u)
  BY <1>1, Zenon DEF KeepsKept, Holding, Creating
<1>6. CASE ~Live
  BY <1>1, <1>6, EndedKeeps, Zenon DEF IInv, Live
<1>7. CASE Live
  <2>1. ASSUME NEW q \in Slots, q # r PROVE slot'[q] = slot[q] /\ thread'[q] = thread[q]
    BY <1>1, <2>1, Zenon DEF IInv, RelayTypes
  <2>2. Owned'
    BY <1>1, <2>1, OwnedKeeps, Zenon DEF Running
  <2>3. \A u \in Threads : pc'[u] = "closenative" => mapped_fd' = None
    BY <1>1, <1>7, Zenon DEF OwnerState, Live, TitleKeeps
  <2> QED
    BY <1>1, <1>4, <1>5, <1>7, <2>2, <2>3, ClosedOwner, Zenon
<1> QED
  BY <1>6, <1>7, Zenon

\* The steps of a title that ends.
LEMMA EndOwner ==
  ASSUME IInv, IInv',
         EndTitle \/ WakeShut \/ WakeEnd \/ ProcessEnds \/ \E fd \in Fds : WakeLook(fd)
  PROVE  OwnerState'
<1>1. CASE WakeEnd
  <2>1. StopAll("worker", loc["worker"].then) /\ loc["worker"].then # "idle"
    BY <1>1, Zenon DEF WakeEnd, At, IInv, TitlePhase
  <2>2. loc["worker"].then \in Thens
    BY Zenon DEF IInv, TitlePhase, Thens
  <2>3. loc'["worker"] = [loc["worker"] EXCEPT !.then = loc["worker"].then] /\ loc["worker"] \in Locals
    BY <2>1, <2>2, SlotFacts, StopAllFacts, Zenon DEF IInv, RelayTypes
  <2>4. loc'["worker"].then = loc["worker"].then
    BY <2>3, Zenon DEF Locals
  <2> QED
    BY <2>1, <2>4, EndedKeeps, Zenon DEF IInv, Live
<1>2. CASE EndTitle \/ WakeShut \/ ProcessEnds \/ \E fd \in Fds : WakeLook(fd)
  <2>1. pc'["worker"] = "wake"
    BY <1>2, SlotFacts, Zenon DEF EndTitle, WakeShut, ProcessEnds, WakeLook, At, Goto, IInv, RelayTypes
  <2> QED
    BY <2>1, EndedKeeps, Zenon DEF IInv, TitlePhase, Live
<1> QED
  BY <1>1, <1>2, Zenon

\* A title that begins has no socket.
LEMMA BeginOwner ==
  ASSUME IInv, IInv', OwnerState, BeginTitle \/ Install
  PROVE  OwnerState'
<1>1. CASE BeginTitle
  <2>1. /\ mapped_fd' = None /\ pc'["worker"] = "booting" /\ \A t \in Threads : pc'[t] = "idle"
    BY <1>1, SlotFacts, Zenon DEF BeginTitle
  <2>2. ~accepting_sockets'
    BY <2>1, Zenon DEF IInv, TitlePhase
  <2>3. \A t \in Threads : loc'[t] = Nothing
    BY <2>1, Zenon DEF IInv, CallState, CallOf
  <2>4. \A t \in Threads : TitleKeeps(t)'
    BY <2>1, <2>3, SlotFacts, Zenon DEF TitleKeeps, Holding, Creating
  <2> QED
    BY <2>1, <2>2, <2>4, Zenon DEF OwnerState, Owned, None
<1>2. CASE Install
  <2>1. /\ pc["worker"] = "booting" /\ \A t \in Threads : pc'[t] = pc[t]
        /\ UNCHANGED <<public, mapped_fd, lwOpen, loc>>
    BY <1>2, SlotFacts, Zenon DEF Install, At, Goto, sockets, IInv, RelayTypes
  <2>2. lwOpen' = {} /\ Live
    BY <2>1, Zenon DEF IInv, TitlePhase, Between, Live
  <2>3. \A t \in Threads : TitleKeeps(t)'
    BY <2>1, <2>2, Zenon DEF OwnerState, Live, TitleKeeps, Holding, Creating
  <2> QED
    BY <2>1, <2>2, <2>3, Zenon DEF OwnerState, Owned, Live
<1> QED
  BY <1>1, <1>2, Zenon

\* At the start nothing is open.
LEMMA InitOwner == Init => OwnerState
<1> SUFFICES ASSUME Init PROVE OwnerState
  OBVIOUS
<1>1. mapped_fd = None /\ lwOpen = {} /\ \A t \in Threads : pc[t] = "idle" /\ loc[t] = Nothing
  BY SlotFacts, Zenon DEF Init
<1>2. \A t \in Threads : TitleKeeps(t)
  BY <1>1, SlotFacts, Zenon DEF TitleKeeps, Holding, Creating
<1> QED
  BY <1>1, <1>2, Zenon DEF OwnerState, Owned, None

\* Every step keeps the sockets' owners.
LEMMA NextOwner ==
  ASSUME IInv, IInv', CallsApart, NativeFdIsOwn, OwnerState, [Next]_vars
  PROVE  OwnerState'
<1>1. ASSUME NEW t \in Threads, CreateConnection(t) PROVE OwnerState'
  BY <1>1, ReserveOwner, ReturnOwner, GiveOwner, ReadyOwner, Zenon DEF CreateConnection
<1>2. ASSUME NEW t \in Threads, Title(t) PROVE OwnerState'
  <2>1. ASSUME NEW fd \in Fds,
               \/ Open(t, fd) \/ OpenNative(t, fd) \/ Create(t, fd)
               \/ Destroy(t, fd) \/ CloseForeign(t, fd) \/ CloseStack(t, fd)
        PROVE  OwnerState'
    BY <2>1, OpenOwner, CreateOwner, WholeOwner, ForeignOwner, CloseOwner, Zenon
  <2>2. CASE Release(t)
    BY <2>2, ReleaseOwner, Zenon
  <2>3. CASE Finish(t) \/ CloseAll(t)
    BY <2>3, WholeOwner, Zenon
  <2>4. CASE Finished(t)
    BY <2>4, ReturnOwner, Zenon
  <2>5. CASE CloseAllStack(t) \/ CloseAllNative(t)
    BY <2>5, CloseAllOwner, Zenon
  <2> QED
    BY <1>1, <1>2, <2>1, <2>2, <2>3, <2>4, <2>5, Zenon DEF Title
<1>3. CASE EndTitle \/ Worker
  BY <1>3, EndOwner, BeginOwner, Zenon DEF Worker
<1>4. ASSUME NEW r \in Slots, Relay(r) PROVE OwnerState'
  BY <1>4, RunOwner, ClosesOwner, Zenon DEF Relay
<1>5. CASE UNCHANGED vars
  <2>1. UNCHANGED <<slot, thread, public, mapped_fd, lwOpen, accepting_sockets, pc, loc>>
    BY <1>5, Zenon DEF vars, sockets
  <2>2. \A t \in Threads : KeepsKept(t)
    BY <2>1, Zenon DEF KeepsKept, Holding, Creating
  <2> QED
    BY <2>1, <2>2, QuietKeeps, Zenon DEF Running
<1> QED
  BY <1>2, <1>3, <1>4, <1>5, ReapOwner, Zenon DEF Next

-------------------------------------------------------------------------------
(* Without socketclose_all no descriptor is recycled under a relay.          *)

\* A descriptor is the title's or a private end.  One that is being closed, or handed over,
\* is still open, and a relay's private end is its own.
NativeState ==
  /\ private \in [Fds -> Nat] /\ \A fd \in Fds : public[fd] = 0 \/ private[fd] = 0
  /\ \A t \in Threads : /\ pc[t] \notin {"closeall", "closenative"}
                        /\ pc[t] = "release" => public[loc[t].fd] # 0
                        /\ Holding(t) => public[loc[t].fd] = loc[t].lw
  /\ \A r \in Slots : Running(r) /\ slot[r].native_fd # NoFd
                        => private[slot[r].native_fd] = slot[r].lwfd /\ slot[r].lwfd # 0

\* What the relays of the slots rely on, and where a call does not get.
NativesKept ==
  /\ \A r \in Slots : Running(r)' /\ slot'[r].native_fd # NoFd
                        => /\ Running(r) /\ slot'[r].lwfd = slot[r].lwfd
                           /\ slot'[r].native_fd = slot[r].native_fd
  /\ \A t \in Threads : pc'[t] \in {"closeall", "closenative"} => pc'[t] = pc[t]

\* A step that opens and closes nothing of nsysnet's.
LEMMA NativeKeeps ==
  ASSUME NativeState, UNCHANGED <<public, private>>, NativesKept, \A t \in Threads : KeepsKept(t)
  PROVE  NativeState'
<1>1. ASSUME NEW t \in Threads
      PROVE  /\ pc'[t] \notin {"closeall", "closenative"}
             /\ pc'[t] = "release" => public'[loc'[t].fd] # 0
             /\ Holding(t)' => public'[loc'[t].fd] = loc'[t].lw
  <2>1. /\ pc[t] \notin {"closeall", "closenative"}
        /\ pc[t] = "release" => public[loc[t].fd] # 0
        /\ Holding(t) => public[loc[t].fd] = loc[t].lw
    BY Zenon DEF NativeState
  <2>2. KeepsKept(t) /\ (pc'[t] \in {"closeall", "closenative"} => pc'[t] = pc[t])
    BY Zenon DEF NativesKept
  <2> QED
    BY <2>1, <2>2, Zenon DEF KeepsKept
<1>2. \A r \in Slots : Running(r)' /\ slot'[r].native_fd # NoFd
                         => private'[slot'[r].native_fd] = slot'[r].lwfd /\ slot'[r].lwfd # 0
  BY Zenon DEF NativeState, NativesKept
<1> QED
  BY <1>1, <1>2, Zenon DEF NativeState

\* The end of a call.
LEMMA ReturnNative ==
  ASSUME IInv, NativeState, NEW t \in Threads,
         \/ ReserveFull(t) \/ NsslConnects(t) \/ Finished(t) \/ TunnelFails(t) \/ NsslRefuses(t)
  PROVE  NativeState'
<1>1. Return(t) /\ UNCHANGED <<thread, sockets>>
  BY Zenon DEF ReserveFull, NsslConnects, Finished, TunnelFails, NsslRefuses
<1>2. Moves(t) /\ pc'[t] = "idle" /\ loc'[t] = Nothing
  BY <1>1, ReturnFacts, SlotFacts, Zenon DEF IInv
<1>3. KeepsKept(t)
  BY <1>2, SlotFacts, Zenon DEF KeepsKept, Holding, Creating
<1>4. \A r \in Slots : slot'[r].lwfd = slot[r].lwfd /\ slot'[r].native_fd = slot[r].native_fd
  <2>1. CASE UNCHANGED slot
    BY <2>1, Zenon
  <2>2. CASE StopSlot(loc[t].slot) /\ pc[t] \in {"tunnel", "connect"}
    <3>1. loc[t].slot \in Slots /\ RelayTypes
      BY <2>2, Zenon DEF IInv, CallState, CallOf
    <3> QED
      BY <2>2, <3>1, StopFacts, Zenon DEF SlotStep
  <2> QED
    BY <2>1, <2>2, Zenon DEF ReserveFull, NsslConnects, Finished, TunnelFails, NsslRefuses, At
<1>5. NativesKept
  BY <1>1, <1>2, <1>4, SlotFacts, Zenon DEF NativesKept, Running, Moves
<1> QED
  BY <1>1, <1>2, <1>3, <1>5, OthersKept, NativeKeeps, Zenon DEF sockets

\* nssl_relay_reap.
LEMMA ReapNative ==
  ASSUME IInv, NativeState, NEW c \in Callers, Reap(c)
  PROVE  NativeState'
<1>1. /\ pc[c] \in {"reap", "join"}
      /\ Advance(c) \/ (Goto(c, "join") /\ UNCHANGED loc)
      /\ UNCHANGED <<thread, sockets>>
  BY Zenon DEF Reap, ReapLook, ReapClear, At
<1>2. /\ Moves(c) /\ pc'[c] \in {"reap", "join", loc[c].then}
      /\ loc'[c].then = loc[c].then /\ loc'[c].fd = loc[c].fd /\ loc'[c].lw = loc[c].lw
  <2>1. CASE Advance(c)
    BY <2>1, AdvanceFacts, Zenon DEF IInv
  <2>2. CASE Goto(c, "join") /\ UNCHANGED loc
    BY <2>2, Zenon DEF Goto, IInv, RelayTypes, Moves
  <2> QED
    BY <1>1, <2>1, <2>2, Zenon
<1>3. \A t \in Threads : KeepsKept(t) /\ (pc'[t] \in {"closeall", "closenative"} => pc'[t] = pc[t])
  <2>1. \A t \in Threads \ {c} : KeepsKept(t) /\ pc'[t] = pc[t]
    BY <1>2, SlotFacts, Zenon DEF Moves, KeepsKept, Holding, Creating
  <2>2. CASE c \in Threads
    <3>1. loc[c].then \in {"reserve", "finished"}
      BY <1>1, <2>2, Zenon DEF IInv, CallState, CallOf
    <3>2. KeepsKept(c) /\ pc'[c] \notin {"closeall", "closenative"}
      BY <1>1, <1>2, <3>1, Zenon DEF KeepsKept, Holding, Creating
    <3> QED
      BY <2>1, <3>2, Zenon
  <2> QED
    BY <2>1, <2>2, Zenon
<1>4. \A r \in Slots : slot'[r].lwfd = slot[r].lwfd /\ slot'[r].native_fd = slot[r].native_fd
  <2>1. CASE ReapLook(c)
    BY <2>1, Zenon DEF ReapLook
  <2>2. CASE ReapClear(c)
    <3> DEFINE x(r) == [slot[r] EXCEPT !.public_fd = NoFd, !.allocated = FALSE]
    <3>1. \A r \in Slots : slot[r] \in Relays
      BY Zenon DEF IInv, RelayTypes
    <3>2. \A r \in Slots : x(r).lwfd = slot[r].lwfd /\ x(r).native_fd = slot[r].native_fd
      BY <3>1, Zenon DEF Relays
    <3>3. loc[c].i \in Slots /\ slot' = [slot EXCEPT ![loc[c].i] = x(loc[c].i)]
      BY <2>2, Zenon DEF ReapClear, IInv, RelayTypes, Locals
    <3> HIDE DEF x
    <3> QED
      BY <3>2, <3>3, Zenon DEF IInv, RelayTypes
  <2> QED
    BY <2>1, <2>2, Zenon DEF Reap
<1>5. NativesKept
  BY <1>1, <1>3, <1>4, Zenon DEF NativesKept, Running
<1> QED
  BY <1>1, <1>3, <1>5, NativeKeeps, Zenon DEF sockets

\* nssl_relay_reserve: a slot that is reset has no private end.
LEMMA ReserveNative ==
  ASSUME IInv, NativeState, NEW t \in Threads,
         ReserveThread(t) \/ \E r \in Slots : ReserveTake(t, r)
  PROVE  NativeState'
<1>1. UNCHANGED sockets
  BY Zenon DEF ReserveThread, ReserveTake
<1>2. t \in Callers /\ loc[t] \in Locals /\ RelayTypes /\ {"create", "tunnel"} \subseteq Steps
  BY SlotFacts, Zenon DEF IInv, RelayTypes, Steps
<1>3. CASE ReserveThread(t)
  <2> PICK r \in Slots : r = loc[t].slot
    BY <1>3, Zenon DEF ReserveThread, At, IInv, CallState, CallOf
  <2>1. Creating(t) /\ pc[t] = "create"
    BY <1>3, Zenon DEF ReserveThread, At, IInv, CallState, CallOf
  <2>2. /\ Moves(t) /\ \/ pc'[t] = "tunnel" /\ loc'[t] = loc[t]
                       \/ pc'[t] = "idle" /\ loc'[t] = Nothing
    <3>1. CASE Goto(t, "tunnel") /\ UNCHANGED loc
      BY <1>2, <3>1, Zenon DEF Goto, RelayTypes, Moves
    <3>2. CASE Return(t)
      BY <1>2, <3>2, ReturnFacts, Zenon
    <3> QED
      BY <1>3, <3>1, <3>2, Zenon DEF ReserveThread
  <2>3. KeepsKept(t)
    BY <2>1, <2>2, SlotFacts, Zenon DEF KeepsKept, Holding, Creating
  <2>4. \A q \in Slots \ {r} : slot'[q] = slot[q] /\ thread'[q] = thread[q]
    BY <1>2, <1>3, Zenon DEF ReserveThread, RelayTypes
  <2>5. slot'[r].native_fd = NoFd
    <3> DEFINE x == [Empty EXCEPT !.allocated = slot[r].allocated]
    <3>1. x.native_fd = NoFd /\ Empty.native_fd = NoFd
      BY Zenon DEF Empty
    <3>2. slot' = [slot EXCEPT ![r] = x] \/ slot' = [slot EXCEPT ![r] = Empty]
      BY <1>3, Zenon DEF ReserveThread
    <3> HIDE DEF x
    <3> QED
      BY <1>2, <3>1, <3>2, Zenon DEF RelayTypes
  <2>6. NativesKept
    BY <2>2, <2>4, <2>5, SlotFacts, Zenon DEF NativesKept, Running, Moves
  <2> QED
    BY <1>1, <2>2, <2>3, <2>6, OthersKept, NativeKeeps, Zenon DEF sockets
<1>4. ASSUME NEW r \in Slots, ReserveTake(t, r) PROVE NativeState'
  <2> DEFINE x == [slot[r] EXCEPT !.allocated = TRUE]
             y == [loc[t] EXCEPT !.slot = r]
  <2>1. x.lwfd = slot[r].lwfd /\ x.native_fd = slot[r].native_fd
    BY <1>2, Zenon DEF RelayTypes, Relays
  <2>2. r \in Nat /\ y \in Locals /\ y.fd = loc[t].fd /\ y.lw = loc[t].lw /\ y.then = loc[t].then
    BY <1>2, SlotFacts, Zenon DEF Locals
  <2> HIDE DEF x, y
  <2>3. /\ pc[t] = "reserve" /\ Goto(t, "create") /\ loc' = [loc EXCEPT ![t] = y]
        /\ slot' = [slot EXCEPT ![r] = x] /\ UNCHANGED thread
    BY <1>4, Zenon DEF ReserveTake, At, x, y
  <2>4. Moves(t) /\ pc'[t] = "create" /\ loc'[t] = y
    BY <1>2, <2>2, <2>3, GotoFacts, Zenon
  <2>5. KeepsKept(t)
    BY <2>2, <2>3, <2>4, Zenon DEF KeepsKept, Holding, Creating
  <2>6. \A q \in Slots : slot'[q].lwfd = slot[q].lwfd /\ slot'[q].native_fd = slot[q].native_fd
    BY <1>2, <2>1, <2>3, Zenon DEF RelayTypes
  <2>7. NativesKept
    BY <2>3, <2>4, <2>6, SlotFacts, Zenon DEF NativesKept, Running, Moves
  <2> QED
    BY <1>1, <2>4, <2>5, <2>7, OthersKept, NativeKeeps, Zenon DEF sockets
<1> QED
  BY <1>3, <1>4, Zenon

\* The slot gets a free number as its private end.
LEMMA GiveNative ==
  ASSUME IInv, IInv', NativeState, NEW t \in Threads, NEW p \in Fds, GiveSockets(t, p)
  PROVE  NativeState'
<1> PICK r \in Slots : r = loc[t].slot
  BY Zenon DEF GiveSockets, At, IInv, CallState, CallOf
<1> DEFINE fd == loc[t].fd
           x == [slot[r] EXCEPT !.native_fd = p, !.lwfd = loc[t].lw, !.public_fd = fd]
<1>1. /\ pc[t] = "tunnel" /\ Goto(t, "given") /\ public[p] = 0 /\ private[p] = 0
      /\ private' = [private EXCEPT ![p] = public[fd]] /\ slot' = [slot EXCEPT ![r] = x]
      /\ UNCHANGED <<thread, public, loc>>
  BY Zenon DEF GiveSockets, At, Free
<1>2. Creating(t) /\ fd \in Fds /\ loc[t].lw # 0 /\ slot[r] \in Relays /\ slot \in [Slots -> Relays]
  BY <1>1, Zenon DEF IInv, CallState, CallOf, RelayTypes
<1>3. x.native_fd = p /\ x.lwfd = loc[t].lw
  BY <1>2, Zenon DEF Relays
<1> HIDE DEF x
<1>4. public[fd] = loc[t].lw
  BY <1>1, <1>2, Zenon DEF NativeState, Holding
<1>5. Moves(t) /\ pc'[t] = "given"
  BY <1>1, SlotFacts, Zenon DEF Goto, IInv, RelayTypes, Moves
<1>6. /\ private' \in [Fds -> Nat] /\ private'[p] = loc[t].lw
      /\ \A f \in Fds \ {p} : private'[f] = private[f]
  BY <1>1, <1>2, <1>4, Zenon DEF NativeState, IInv, RelayTypes
<1>7. \A f \in Fds : public'[f] = 0 \/ private'[f] = 0
  BY <1>1, <1>6, Zenon DEF NativeState
<1>8. ASSUME NEW u \in Threads
      PROVE  /\ pc'[u] \notin {"closeall", "closenative"}
             /\ pc'[u] = "release" => public'[loc'[u].fd] # 0
             /\ Holding(u)' => public'[loc'[u].fd] = loc'[u].lw
  <2>1. /\ pc[u] \notin {"closeall", "closenative"}
        /\ pc[u] = "release" => public[loc[u].fd] # 0
        /\ Holding(u) => public[loc[u].fd] = loc[u].lw
    BY Zenon DEF NativeState
  <2>2. CASE u = t
    BY <1>1, <1>4, <1>5, <2>2, Zenon
  <2>3. CASE u # t
    BY <1>1, <1>5, <2>1, <2>3, SlotFacts, Zenon DEF Moves, Holding, Creating
  <2> QED
    BY <2>2, <2>3, Zenon
<1>9. ASSUME NEW q \in Slots, Running(q)', slot'[q].native_fd # NoFd
      PROVE  private'[slot'[q].native_fd] = slot'[q].lwfd /\ slot'[q].lwfd # 0
  <2>1. CASE q = r
    BY <1>1, <1>2, <1>3, <1>6, <2>1, Zenon
  <2>2. CASE q # r
    <3>1. slot'[q] = slot[q] /\ Running(q) /\ slot[q].native_fd \in Fds
      BY <1>1, <1>2, <1>9, <2>2, Zenon DEF Running, Relays, Numbers
    <3>2. private[slot[q].native_fd] = slot[q].lwfd /\ slot[q].lwfd # 0
      BY <1>9, <3>1, Zenon DEF NativeState
    <3> QED
      BY <1>1, <1>6, <3>1, <3>2, Zenon
  <2> QED
    BY <2>1, <2>2, Zenon
<1> QED
  BY <1>6, <1>7, <1>8, <1>9, Zenon DEF NativeState

\* NSSLDestroyConnection, NSSLFinish and the hand-over's last step.
LEMMA StopNative ==
  ASSUME IInv, CallsApart, NativeState, NEW t \in Threads,
         Finish(t) \/ MakeReady(t) \/ \E fd \in Fds : Destroy(t, fd)
  PROVE  NativeState'
<1>1. RelayTypes /\ t \in Callers /\ loc[t] \in Locals /\ UNCHANGED <<thread, public, private>>
  BY SlotFacts, Zenon DEF IInv, RelayTypes, Finish, MakeReady, Destroy, sockets
<1>2. CASE Finish(t)
  <2>1. StopAll(t, "finished") /\ "finished" \in Thens
    BY <1>2, Zenon DEF Finish, Thens
  <2>2. [loc[t] EXCEPT !.then = "finished"].then = "finished"
    BY <1>1, Zenon DEF Locals
  <2>3. /\ Moves(t) /\ pc'[t] \in {"reap", "finished"} /\ loc'[t].then = "finished"
        /\ \A r \in Slots : slot'[r].lwfd = slot[r].lwfd /\ slot'[r].native_fd = slot[r].native_fd
    BY <1>1, <2>1, <2>2, StopAllFacts, Zenon DEF SlotStep
  <2>4. KeepsKept(t) /\ NativesKept
    BY <1>1, <2>3, SlotFacts, Zenon DEF KeepsKept, Holding, Creating, NativesKept, Running, Moves
  <2> QED
    BY <1>1, <2>3, <2>4, OthersKept, NativeKeeps, Zenon
<1>3. CASE MakeReady(t)
  <2> PICK r \in Slots : r = loc[t].slot
    BY <1>3, Zenon DEF MakeReady, At, IInv, CallState, CallOf
  <2> DEFINE x == [slot[r] EXCEPT !.ready = TRUE]
  <2>1. x.lwfd = slot[r].lwfd /\ x.native_fd = slot[r].native_fd
    BY <1>1, Zenon DEF RelayTypes, Relays
  <2> HIDE DEF x
  <2>2. slot' = [slot EXCEPT ![r] = x] /\ Goto(t, "connect") /\ UNCHANGED loc
    BY <1>3, Zenon DEF MakeReady, x
  <2>3. Moves(t) /\ pc'[t] = "connect"
    BY <1>1, <2>2, Zenon DEF Goto, RelayTypes, Moves
  <2>4. \A q \in Slots : slot'[q].lwfd = slot[q].lwfd /\ slot'[q].native_fd = slot[q].native_fd
    BY <1>1, <2>1, <2>2, Zenon DEF RelayTypes
  <2>5. KeepsKept(t) /\ NativesKept
    BY <1>1, <2>3, <2>4, SlotFacts, Zenon DEF KeepsKept, Holding, NativesKept, Running, Moves
  <2> QED
    BY <1>1, <2>3, <2>5, OthersKept, NativeKeeps, Zenon
<1>4. ASSUME NEW fd \in Fds, Destroy(t, fd) PROVE NativeState'
  <2>1. Detach(fd) /\ Unused(fd) /\ UNCHANGED <<pc, loc, thread>>
    BY <1>4, Zenon DEF Destroy
  <2>2. \A r \in Slots : slot'[r].lwfd = slot[r].lwfd /\ slot'[r].native_fd = slot[r].native_fd
    BY <2>1, DetachFacts, Zenon DEF SlotStep
  <2>3. NativesKept /\ \A u \in Threads : KeepsKept(u)
    BY <2>1, <2>2, Zenon DEF KeepsKept, Holding, Creating, NativesKept, Running
  <2> QED
    BY <1>1, <2>3, NativeKeeps, Zenon
<1> QED
  BY <1>2, <1>3, <1>4, Zenon

\* A call begins on a descriptor that is open.
LEMMA EnterNative ==
  ASSUME IInv, CallsApart, OwnerState, NativeState, NEW t \in Threads, NEW fd \in Fds,
         Create(t, fd) \/ CloseForeign(t, fd)
  PROVE  NativeState'
<1>1. UNCHANGED <<thread, public, private>> /\ t \in Callers /\ RelayTypes
  BY SlotFacts, Zenon DEF Create, CloseForeign, sockets, IInv
<1>2. /\ Moves(t) /\ pc'[t] \in {"reap", "release"} /\ loc'[t].fd = fd
      /\ pc'[t] = "release" => public[fd] # 0 /\ loc'[t].then = "idle"
      /\ pc'[t] = "reap" => loc'[t].lw = public[fd]
      /\ \A r \in Slots : slot'[r].lwfd = slot[r].lwfd /\ slot'[r].native_fd = slot[r].native_fd
  <2>1. CASE Create(t, fd)
    <3> DEFINE y == [Nothing EXCEPT !.fd = fd, !.lw = mapped_fd[fd], !.then = "reserve"]
    <3>1. y.fd = fd /\ y.lw = mapped_fd[fd]
      BY Zenon DEF Nothing
    <3> HIDE DEF y
    <3>2. /\ Goto(t, "reap") /\ loc' = [loc EXCEPT ![t] = y] /\ UNCHANGED slot
          /\ accepting_sockets /\ mapped_fd[fd] # 0
      BY <2>1, Zenon DEF Create, is_foreign, open_mask, y
    <3>3. mapped_fd[fd] = public[fd]
      BY <3>2, Zenon DEF OwnerState, IInv, TitlePhase
    <3> QED
      BY <1>1, <3>1, <3>2, <3>3, Zenon DEF Goto, RelayTypes, Moves
  <2>2. CASE CloseForeign(t, fd)
    <3>1. /\ Enter(t) /\ Goto(t, "release") /\ loc' = [loc EXCEPT ![t] = [loc[t] EXCEPT !.fd = fd]]
          /\ Unused(fd) /\ Detach(fd) /\ public[fd] # 0
      BY <2>2, Zenon DEF CloseForeign
    <3>2. [Nothing EXCEPT !.fd = fd] \in Locals /\ "release" \in Steps
      BY SlotFacts, FieldFacts, Zenon DEF Numbers, Steps
    <3>3. [Nothing EXCEPT !.fd = fd].fd = fd /\ [Nothing EXCEPT !.fd = fd].then = "idle"
      BY Zenon DEF Nothing
    <3>4. Moves(t) /\ pc'[t] = "release" /\ loc'[t].fd = fd /\ loc'[t].then = "idle"
      BY <1>1, <3>1, <3>2, <3>3, EnterFacts, GotoFacts, Zenon
    <3> QED
      BY <1>1, <3>1, <3>4, DetachFacts, Zenon DEF SlotStep
  <2> QED
    BY <2>1, <2>2, Zenon
<1>3. ASSUME NEW u \in Threads
      PROVE  /\ pc'[u] \notin {"closeall", "closenative"}
             /\ pc'[u] = "release" => public'[loc'[u].fd] # 0
             /\ Holding(u)' => public'[loc'[u].fd] = loc'[u].lw
  <2>1. /\ pc[u] \notin {"closeall", "closenative"}
        /\ pc[u] = "release" => public[loc[u].fd] # 0
        /\ Holding(u) => public[loc[u].fd] = loc[u].lw
    BY Zenon DEF NativeState
  <2>2. CASE u = t
    BY <1>1, <1>2, <2>2, Zenon DEF Holding, Creating
  <2>3. CASE u # t
    BY <1>1, <1>2, <2>1, <2>3, SlotFacts, Zenon DEF Moves, Holding, Creating
  <2> QED
    BY <2>2, <2>3, Zenon
<1>4. \A r \in Slots : Running(r)' /\ slot'[r].native_fd # NoFd
                         => private'[slot'[r].native_fd] = slot'[r].lwfd /\ slot'[r].lwfd # 0
  BY <1>1, <1>2, Zenon DEF NativeState, Running
<1> QED
  BY <1>1, <1>3, <1>4, Zenon DEF NativeState

\* A step on one number of nsysnet's, which no call and no slot uses after it.
LEMMA NumberKeeps ==
  ASSUME NativeState, NativesKept, \A t \in Threads : KeepsKept(t),
         NEW fd \in Fds, private' \in [Fds -> Nat], public'[fd] = 0 \/ private'[fd] = 0,
         \A f \in Fds \ {fd} : public'[f] = public[f] /\ private'[f] = private[f],
         \A t \in Threads : Holding(t)' \/ pc'[t] = "release" => loc'[t].fd \in Fds \ {fd},
         \A r \in Slots : Running(r)' /\ slot'[r].native_fd # NoFd => slot'[r].native_fd \in Fds \ {fd}
  PROVE  NativeState'
<1>1. ASSUME NEW t \in Threads
      PROVE  /\ pc'[t] \notin {"closeall", "closenative"}
             /\ pc'[t] = "release" => public'[loc'[t].fd] # 0
             /\ Holding(t)' => public'[loc'[t].fd] = loc'[t].lw
  <2>1. /\ pc[t] \notin {"closeall", "closenative"}
        /\ pc[t] = "release" => public[loc[t].fd] # 0
        /\ Holding(t) => public[loc[t].fd] = loc[t].lw
    BY Zenon DEF NativeState
  <2>2. KeepsKept(t) /\ (pc'[t] \in {"closeall", "closenative"} => pc'[t] = pc[t])
    BY Zenon DEF NativesKept
  <2>3. pc'[t] = "release" => public'[loc'[t].fd] = public[loc[t].fd] /\ pc[t] = "release"
    BY <2>2, Zenon DEF KeepsKept
  <2>4. Holding(t)' => public'[loc'[t].fd] = public[loc[t].fd] /\ Holding(t) /\ loc'[t].lw = loc[t].lw
    BY <2>2, Zenon DEF KeepsKept
  <2> QED
    BY <2>1, <2>2, <2>3, <2>4, Zenon
<1>2. ASSUME NEW r \in Slots, Running(r)', slot'[r].native_fd # NoFd
      PROVE  private'[slot'[r].native_fd] = slot'[r].lwfd /\ slot'[r].lwfd # 0
  <2>1. /\ Running(r) /\ slot'[r].lwfd = slot[r].lwfd /\ slot'[r].native_fd = slot[r].native_fd
    BY <1>2, Zenon DEF NativesKept
  <2>2. private[slot[r].native_fd] = slot[r].lwfd /\ slot[r].lwfd # 0
    BY <1>2, <2>1, Zenon DEF NativeState
  <2>3. slot'[r].native_fd \in Fds \ {fd}
    BY <1>2, Zenon
  <2> QED
    BY <2>1, <2>2, <2>3, Zenon
<1>3. \A f \in Fds : public'[f] = 0 \/ private'[f] = 0
  BY Zenon DEF NativeState
<1> QED
  BY <1>1, <1>2, <1>3, Zenon DEF NativeState

\* Numbers in use: those of the calls are public, those of the relays private.
LEMMA UsedNumbers ==
  ASSUME IInv, NativeState
  PROVE  /\ \A t \in Threads : Holding(t) \/ pc[t] = "release"
                                 => loc[t].fd \in Fds /\ public[loc[t].fd] # 0 /\ private[loc[t].fd] = 0
         /\ \A r \in Slots : Running(r) /\ slot[r].native_fd # NoFd
                               => /\ slot[r].native_fd \in Fds /\ private[slot[r].native_fd] # 0
                                  /\ public[slot[r].native_fd] = 0
<1>1. ASSUME NEW t \in Threads, Holding(t) \/ pc[t] = "release"
      PROVE  loc[t].fd \in Fds /\ public[loc[t].fd] # 0 /\ private[loc[t].fd] = 0
  <2>1. loc[t].fd \in Fds /\ (Holding(t) => loc[t].lw # 0)
    BY <1>1, Zenon DEF Holding, IInv, CallState, CallOf
  <2>2. public[loc[t].fd] # 0
    BY <1>1, <2>1, Zenon DEF NativeState
  <2> QED
    BY <2>1, <2>2, Zenon DEF NativeState
<1>2. ASSUME NEW r \in Slots, Running(r), slot[r].native_fd # NoFd
      PROVE  /\ slot[r].native_fd \in Fds /\ private[slot[r].native_fd] # 0
             /\ public[slot[r].native_fd] = 0
  <2>1. slot[r].native_fd \in Fds
    BY <1>2, Zenon DEF IInv, RelayTypes, Relays, Numbers
  <2>2. private[slot[r].native_fd] # 0
    BY <1>2, Zenon DEF NativeState
  <2> QED
    BY <2>1, <2>2, Zenon DEF NativeState
<1> QED
  BY <1>1, <1>2, Zenon

\* socket(), and socketclose of a descriptor on lwIP.
LEMMA SocketNative ==
  ASSUME IInv, OwnerState, NativeState, NEW t \in Threads, NEW fd \in Fds,
         Open(t, fd) \/ OpenNative(t, fd) \/ CloseStack(t, fd)
  PROVE  NativeState'
<1>1. UNCHANGED <<slot, thread, pc, loc>>
  BY Zenon DEF Open, OpenNative, CloseStack
<1>2. NativesKept /\ \A u \in Threads : KeepsKept(u)
  BY <1>1, Zenon DEF NativesKept, KeepsKept, Running, Holding, Creating
<1>3. /\ private[fd] = 0 /\ \A u \in Threads : Holding(u) \/ pc[u] = "release" => loc[u].fd # fd
  <2>1. CASE CloseStack(t, fd)
    <3>1. accepting_sockets /\ mapped_fd[fd] # 0 /\ Unused(fd)
      BY <2>1, Zenon DEF CloseStack, is_foreign, open_mask
    <3>2. public[fd] # 0
      BY <3>1, Zenon DEF OwnerState, IInv, TitlePhase
    <3> QED
      BY <3>1, <3>2, SlotFacts, Zenon DEF NativeState, Unused
  <2>2. CASE Open(t, fd) \/ OpenNative(t, fd)
    BY <2>2, UsedNumbers, Zenon DEF Open, OpenNative, Free
  <2> QED
    BY <2>1, <2>2, Zenon
<1>4. /\ public' = [public EXCEPT ![fd] = made'] \/ public' = [public EXCEPT ![fd] = 0]
      /\ private' = private \/ private' = [private EXCEPT ![fd] = 0]
  BY Zenon DEF Open, OpenNative, CloseStack, NativeClose
<1>5. /\ private' \in [Fds -> Nat] /\ private'[fd] = 0
      /\ \A f \in Fds \ {fd} : public'[f] = public[f] /\ private'[f] = private[f]
  BY <1>3, <1>4, Zenon DEF NativeState, IInv, RelayTypes
<1>6. \A u \in Threads : Holding(u)' \/ pc'[u] = "release" => loc'[u].fd \in Fds \ {fd}
  BY <1>1, <1>3, UsedNumbers, Zenon DEF Holding, Creating
<1>7. \A r \in Slots : Running(r)' /\ slot'[r].native_fd # NoFd => slot'[r].native_fd \in Fds \ {fd}
  BY <1>1, <1>3, UsedNumbers, Zenon DEF Running
<1> QED
  BY <1>2, <1>5, <1>6, <1>7, NumberKeeps, Zenon

\* nsysnet closes a descriptor of the title's.
LEMMA ReleaseNative ==
  ASSUME IInv, NativeState, NEW t \in Threads, Release(t)
  PROVE  NativeState'
<1>1. PICK fd \in Fds : fd = loc[t].fd
  BY Zenon DEF Release, At, IInv, CallState, CallOf
<1>2. /\ pc[t] = "release" /\ Return(t) /\ public' = [public EXCEPT ![fd] = 0]
      /\ private' = [private EXCEPT ![fd] = 0] /\ UNCHANGED <<slot, thread>>
  BY <1>1, Zenon DEF Release, At, NativeClose
<1>3. Moves(t) /\ pc'[t] = "idle" /\ loc'[t] = Nothing
  BY <1>2, SlotFacts, ReturnFacts, Zenon DEF IInv
<1>4. KeepsKept(t) /\ NativesKept
  BY <1>2, <1>3, SlotFacts, Zenon DEF KeepsKept, Holding, Creating, NativesKept, Running, Moves
<1>5. /\ private' \in [Fds -> Nat] /\ private'[fd] = 0 /\ private[fd] = 0
      /\ \A f \in Fds \ {fd} : public'[f] = public[f] /\ private'[f] = private[f]
  <2>1. private[fd] = 0
    BY <1>1, <1>2, UsedNumbers, Zenon
  <2>2. 0 \in Nat
    OBVIOUS
  <2> QED
    BY <1>2, <2>1, <2>2, Zenon DEF NativeState, IInv, RelayTypes
<1>6. ASSUME NEW u \in Threads, Holding(u)' \/ pc'[u] = "release" PROVE loc'[u].fd \in Fds \ {fd}
  <2>1. u # t
    BY <1>3, <1>6, SlotFacts, Zenon DEF Holding, Creating
  <2>2. Holding(u) \/ pc[u] = "release"
    BY <1>3, <1>6, <2>1, SlotFacts, Zenon DEF Moves, Holding, Creating
  <2>3. loc'[u] = loc[u] /\ loc[u].fd # fd
    BY <1>1, <1>3, <2>1, SlotFacts, Zenon DEF Moves, IInv, CallState, TwoCalls
  <2> QED
    BY <2>2, <2>3, UsedNumbers, Zenon
<1>7. \A r \in Slots : Running(r)' /\ slot'[r].native_fd # NoFd => slot'[r].native_fd \in Fds \ {fd}
  BY <1>2, <1>5, UsedNumbers, Zenon DEF Running
<1> QED
  BY <1>3, <1>4, <1>5, <1>6, <1>7, OthersKept, NumberKeeps, Zenon

\* A relay closes its private end, which no other slot has.
LEMMA ClosesNative ==
  ASSUME IInv, NativeState, NEW r \in Slots, RelayCloses(r)
  PROVE  NativeState'
<1> DEFINE p == slot[r].native_fd
           x == [slot[r] EXCEPT !.native_fd = NoFd, !.lwfd = 0]
<1>1. /\ thread[r] = "out" /\ thread' = [thread EXCEPT ![r] = "closed"]
      /\ IF p # NoFd THEN public' = [public EXCEPT ![p] = 0] /\ private' = [private EXCEPT ![p] = 0]
                     ELSE UNCHANGED <<public, private>>
      /\ slot' = [slot EXCEPT ![r] = x] /\ UNCHANGED <<pc, loc>>
  BY Zenon DEF RelayCloses, Run, NativeClose
<1>2. slot \in [Slots -> Relays] /\ slot[r] \in Relays /\ x.native_fd = NoFd
  BY Zenon DEF IInv, RelayTypes, Relays
<1> HIDE DEF x
<1>3. /\ slot'[r].native_fd = NoFd
      /\ \A q \in Slots \ {r} : slot'[q] = slot[q] /\ (Running(q)' => Running(q))
  BY <1>1, <1>2, Zenon DEF Running, IInv, RelayTypes
<1>4. NativesKept /\ \A u \in Threads : KeepsKept(u)
  BY <1>1, <1>3, Zenon DEF NativesKept, KeepsKept, Holding, Creating
<1>5. CASE p = NoFd
  BY <1>1, <1>4, <1>5, NativeKeeps, Zenon
<1>6. CASE p # NoFd
  <2>1. Running(r)
    BY <1>1, Zenon DEF Running
  <2>2. p \in Fds /\ public[p] = 0 /\ private[p] = slot[r].lwfd /\ slot[r].lwfd # 0
    BY <1>6, <2>1, UsedNumbers, Zenon DEF NativeState
  <2>3. /\ private' \in [Fds -> Nat] /\ private'[p] = 0
        /\ \A f \in Fds \ {p} : public'[f] = public[f] /\ private'[f] = private[f]
    <3>1. 0 \in Nat
      OBVIOUS
    <3> QED
      BY <1>1, <1>6, <2>2, <3>1, Zenon DEF NativeState, IInv, RelayTypes
  <2>4. \A u \in Threads : Holding(u)' \/ pc'[u] = "release" => loc'[u].fd \in Fds \ {p}
    BY <1>1, <2>2, UsedNumbers, Zenon DEF Holding, Creating
  <2>5. ASSUME NEW q \in Slots, Running(q)', slot'[q].native_fd # NoFd
        PROVE  slot'[q].native_fd \in Fds \ {p}
    <3>1. q # r /\ Running(q) /\ slot'[q] = slot[q]
      BY <1>3, <2>5, Zenon
    <3>2. slot[q].native_fd \in Fds /\ private[slot[q].native_fd] = slot[q].lwfd
      BY <2>5, <3>1, UsedNumbers, Zenon DEF NativeState
    <3>3. slot[q].lwfd # slot[r].lwfd
      BY <2>2, <3>1, Zenon DEF IInv, SerialState
    <3> QED
      BY <2>2, <3>1, <3>2, <3>3, Zenon
  <2> HIDE DEF p
  <2> QED
    BY <1>4, <2>2, <2>3, <2>4, <2>5, NumberKeeps, Zenon
<1> QED
  BY <1>5, <1>6, Zenon

\* A relay that closes nothing.
LEMMA RunNative ==
  ASSUME IInv, NativeState, NEW r \in Slots,
         RelayStarts(r) \/ RelayStops(r) \/ RelayFinishes(r) \/ RelayExits(r) \/ RelayDone(r)
  PROVE  NativeState'
<1>1. /\ UNCHANGED <<sockets, pc, loc>> /\ Running(r)
      /\ \A q \in Slots \ {r} : slot'[q] = slot[q] /\ thread'[q] = thread[q]
  BY Zenon DEF RelayStarts, RelayStops, RelayFinishes, RelayExits, RelayDone, Run, Running,
               IInv, RelayTypes
<1>2. slot'[r].lwfd = slot[r].lwfd /\ slot'[r].native_fd = slot[r].native_fd
  <2>1. CASE RelayDone(r)
    <3> DEFINE x == [slot[r] EXCEPT !.public_fd = NoFd, !.done = TRUE]
    <3>1. slot[r] \in Relays /\ slot' = [slot EXCEPT ![r] = x]
      BY <2>1, Zenon DEF RelayDone, IInv, RelayTypes
    <3>2. x.lwfd = slot[r].lwfd /\ x.native_fd = slot[r].native_fd
      BY <3>1, Zenon DEF Relays
    <3> HIDE DEF x
    <3> QED
      BY <3>1, <3>2, Zenon DEF IInv, RelayTypes
  <2>2. CASE UNCHANGED slot
    BY <2>2, Zenon
  <2> QED
    BY <2>1, <2>2, Zenon DEF RelayStarts, RelayStops, RelayFinishes, RelayExits
<1>3. NativesKept /\ \A t \in Threads : KeepsKept(t)
  BY <1>1, <1>2, Zenon DEF NativesKept, KeepsKept, Holding, Creating, Running
<1> QED
  BY <1>1, <1>3, NativeKeeps, Zenon DEF sockets

\* The worker ends a title and begins another.
LEMMA WorkerNative ==
  ASSUME IInv, IInv', NativeState, EndTitle \/ Worker
  PROVE  NativeState'
<1>1. CASE ProcessEnds
  <2>1. /\ public' = None /\ private' = None /\ \A t \in Threads : pc'[t] = "dead"
        /\ \A t \in Threads : loc'[t] = Nothing
        /\ \A r \in Slots : ~Running(r)'
    <3>1. public' = None /\ private' = None /\ \A t \in Threads : pc'[t] = "dead" /\ loc'[t] = Nothing
      BY <1>1, SlotFacts, Zenon DEF ProcessEnds
    <3>2. \A r \in Slots : ~Running(r)'
      BY <1>1, Zenon DEF ProcessEnds, Running
    <3> QED
      BY <3>1, <3>2, Zenon
  <2> QED
    BY <2>1, SlotFacts, Zenon DEF NativeState, Holding, Creating, None
<1>2. CASE BeginTitle
  <2>1. /\ UNCHANGED <<slot, thread, public, private>> /\ \A t \in Threads : pc'[t] = "idle"
    BY <1>2, SlotFacts, Zenon DEF BeginTitle
  <2>2. \A t \in Threads : loc'[t] = Nothing
    BY <2>1, Zenon DEF IInv, CallState, CallOf
  <2>3. NativesKept /\ \A t \in Threads : KeepsKept(t)
    BY <2>1, <2>2, SlotFacts, Zenon DEF NativesKept, KeepsKept, Holding, Creating, Running
  <2> QED
    BY <2>1, <2>3, NativeKeeps, Zenon
<1>3. CASE EndTitle \/ WakeShut \/ Install \/ WakeEnd \/ \E fd \in Fds : WakeLook(fd)
  <2>1. /\ UNCHANGED <<thread, public, private>>
        /\ \A r \in Slots : slot'[r].lwfd = slot[r].lwfd /\ slot'[r].native_fd = slot[r].native_fd
        /\ \A t \in Threads : pc'[t] = pc[t] /\ loc'[t] = loc[t]
    <3>1. CASE WakeEnd
      <4>1. StopAll("worker", loc["worker"].then) /\ UNCHANGED <<thread, public, private>>
        BY <3>1, Zenon DEF WakeEnd, sockets
      <4>2. loc["worker"].then \in Thens /\ RelayTypes
        BY Zenon DEF IInv, TitlePhase, Thens
      <4> QED
        BY <4>1, <4>2, SlotFacts, StopAllFacts, Zenon DEF SlotStep, Moves
    <3>2. CASE EndTitle \/ WakeShut \/ Install \/ \E fd \in Fds : WakeLook(fd)
      BY <3>2, SlotFacts, Zenon DEF EndTitle, WakeShut, Install, WakeLook, Goto, sockets, IInv, RelayTypes
    <3> QED
      BY <1>3, <3>1, <3>2, Zenon
  <2>2. NativesKept /\ \A t \in Threads : KeepsKept(t)
    BY <2>1, Zenon DEF NativesKept, KeepsKept, Holding, Creating, Running
  <2> QED
    BY <2>1, <2>2, NativeKeeps, Zenon
<1> QED
  BY <1>1, <1>2, <1>3, Zenon DEF Worker

\* At the start nothing is open.
LEMMA InitNative == Init => NativeState
<1> SUFFICES ASSUME Init PROVE NativeState
  OBVIOUS
<1>1. \A t \in Threads : pc[t] = "idle" /\ loc[t] = Nothing
  BY SlotFacts, Zenon DEF Init
<1>2. private = None /\ public = None /\ \A r \in Slots : ~Running(r)
  BY Zenon DEF Init, Running
<1> QED
  BY <1>1, <1>2, SlotFacts, Zenon DEF NativeState, Holding, Creating, None

\* Every step but those of socketclose_all keeps the private ends.
LEMMA NextNative ==
  ASSUME IInv, IInv', CallsApart, "closeall" \notin Calls, OwnerState, NativeState, [Next]_vars
  PROVE  NativeState'
<1>1. ASSUME NEW t \in Threads, CreateConnection(t) PROVE NativeState'
  BY <1>1, ReserveNative, ReturnNative, GiveNative, StopNative, Zenon DEF CreateConnection
<1>2. ASSUME NEW t \in Threads, Title(t) PROVE NativeState'
  <2>1. ASSUME NEW fd \in Fds,
               \/ Open(t, fd) \/ OpenNative(t, fd) \/ Create(t, fd)
               \/ Destroy(t, fd) \/ CloseForeign(t, fd) \/ CloseStack(t, fd)
        PROVE  NativeState'
    BY <2>1, SocketNative, EnterNative, StopNative, Zenon
  <2>2. CASE Release(t)
    BY <2>2, ReleaseNative, Zenon
  <2>3. CASE Finish(t)
    BY <2>3, StopNative, Zenon
  <2>4. CASE Finished(t)
    BY <2>4, ReturnNative, Zenon
  <2>5. ~CloseAll(t) /\ ~CloseAllStack(t) /\ ~CloseAllNative(t)
    BY Zenon DEF CloseAll, CloseAllStack, CloseAllNative, At, NativeState
  <2> QED
    BY <1>1, <1>2, <2>1, <2>2, <2>3, <2>4, <2>5, Zenon DEF Title
<1>3. ASSUME NEW r \in Slots, Relay(r) PROVE NativeState'
  BY <1>3, RunNative, ClosesNative, Zenon DEF Relay
<1>4. CASE UNCHANGED vars
  <2>1. UNCHANGED <<slot, thread, public, private, pc, loc>>
    BY <1>4, Zenon DEF vars, sockets
  <2>2. NativesKept /\ \A t \in Threads : KeepsKept(t)
    BY <2>1, Zenon DEF NativesKept, KeepsKept, Holding, Creating, Running
  <2> QED
    BY <2>1, <2>2, NativeKeeps, Zenon
<1> QED
  BY <1>2, <1>3, <1>4, ReapNative, WorkerNative, Zenon DEF Next

-------------------------------------------------------------------------------
(* What the slots promise.                                                   *)

\* The owner of a socket is in the bits, or in a slot whose thread runs.
LEMMA OwnedIsHanded == IInv /\ OwnerState => HandedIsOwned
<1>1. IInv => 0 \notin lwOpen
  BY Zenon DEF IInv, RelayTypes
<1> QED
  BY <1>1, Zenon DEF OwnerState, Owned, HandedIsOwned, InSlot, open_mask

\* "Ownership moves from open_mask/mapped_fd to the relay slot": for any number of threads
\* that close, destroy, finish and hand over their sockets, while relays end by themselves and
\* a title is ended at any point of a hand-over, every lwIP socket is tracked by the shim or
\* in the slot of a running thread, unless a relay closes a number that was recycled under it.
THEOREM HandOverKeepsOwner ==
  ASSUME CallsApart
  PROVE  Spec => NoneLost
<1>1. Init => IInv /\ OwnerState
  BY InitIInv, InitOwner, Zenon
<1>2. IInv /\ OwnerState /\ NativeFdIsOwn /\ [Next]_vars => IInv' /\ OwnerState'
  BY NextIInv, NextOwner, Zenon
<1>3. IInv /\ OwnerState => HandedIsOwned
  BY OwnedIsHanded, Zenon
<1> QED
  BY <1>1, <1>2, <1>3, PTL DEF Spec, NoneLost

\* For any number of threads a slot serves one relay at a time: whoever stops and reaps it,
\* it stays allocated as long as its thread runs for the title, and no lwIP socket is in two
\* slots.
THEOREM OneConnectionPerSlot ==
  ASSUME CallsApart
  PROVE  Spec => []SlotServesOne
<1>1. IInv => SlotServesOne
  BY Zenon DEF IInv, SlotState, SerialState, SlotServesOne
<1> QED
  BY <1>1, InvariantHolds, PTL

\* In a title that does not call socketclose_all no descriptor is recycled under a relay, so
\* every lwIP socket always has its owner, whatever the threads, the relays and the end of
\* the title do to a hand-over.
THEOREM NothingRecycled ==
  ASSUME CallsApart, "closeall" \notin Calls
  PROVE  Spec => [](NativeFdIsOwn /\ HandedIsOwned)
<1>1. Init => IInv /\ OwnerState /\ NativeState
  BY InitIInv, InitOwner, InitNative, Zenon
<1>2. IInv /\ NativeState => NativeFdIsOwn
  BY UsedNumbers, Zenon DEF NativeState, NativeFdIsOwn
<1>3. IInv /\ OwnerState /\ NativeState /\ [Next]_vars => IInv' /\ OwnerState' /\ NativeState'
  BY <1>2, NextIInv, NextOwner, NextNative, Zenon
<1>4. IInv /\ OwnerState => HandedIsOwned
  BY OwnedIsHanded, Zenon
<1> QED
  BY <1>1, <1>2, <1>3, <1>4, PTL DEF Spec

===============================================================================
