------------------------------- MODULE ShimProbe -------------------------------
(***************************************************************************)
(* The stress application of src/tools/shim_probe: main.c opens a native   *)
(* socket, begins the probe, echoes over one TCP and one UDP socket, runs  *)
(* probe_concurrent (concurrency.c) and ends the probe.  probe_concurrent  *)
(* opens a socket for each worker, starts the worker threads, watches      *)
(* them, cancels and joins them, and only then closes their sockets.       *)
(*                                                                         *)
(* The echo peer and the network are external: a stream is echoed in order *)
(* and in pieces, a datagram may be lost or doubled, and any call may      *)
(* fail.  A message is a sequence of units; a unit carries the fill of its *)
(* round and its place in the message.                                     *)
(***************************************************************************)
EXTENDS Naturals, Sequences

CONSTANTS WORKERS,      \* 8 in the code
          TCP_WORKERS,  \* 4 in the code: the first ones use streams
          ROUNDS,       \* 8192 in the code
          Sizes,        \* the sizes a round cycles through, in units
          MaxDoubles    \* bound: datagrams the network doubles

ASSUME ProbeAssumption ==
  /\ {WORKERS, TCP_WORKERS, ROUNDS, MaxDoubles} \subseteq Nat
  /\ Sizes # << >> /\ Sizes \in Seq(Nat \ {0})

\* The sizes of the small instance: a long message and then a short one, so
\* that a datagram of the first, doubled, is longer than the buffer of the
\* second.
LongShort == <<2, 1>>

Jobs == 1 .. WORKERS
Stream(i) == i <= TCP_WORKERS
Size(r) == Sizes[(r % Len(Sizes)) + 1]

VARIABLES
  (* main.c *)
  running,      \* pump's static: FALSE once HOME was seen
  mpc,          \* where the main thread is
  native,       \* native_fd: "none", "open" or "closed"
  testing,      \* the type whose echo test runs, "none" outside it
  testfd,       \* its socket
  probe,        \* the shim's probe: "off", "begun" or "ended"
  (* probe_concurrent *)
  fd,           \* jobs[i].fd: "none", "open" or "closed"
  next,         \* its loop variable i
  made,         \* threads created
  start_jobs, cancel_jobs,
  result,       \* 0, or 1 for the code's -1
  (* the workers *)
  wpc,          \* where worker i is, "none" without a thread
  sent,         \* exchange: units sent
  rx,           \* exchange: units received
  rounds, error, done,   \* of jobs[i]
  (* the network *)
  wire,         \* per socket, what the peer has echoed: pieces in order
  doubles,      \* history: datagrams doubled
  genuine       \* history: rounds whose own message came back

mainVars == <<running, mpc, native, testing, testfd, probe>>
stressVars == <<fd, next, made, start_jobs, cancel_jobs, result>>
jobVars == <<wpc, sent, rx, rounds, error, done, genuine>>
netVars == <<wire, doubles>>
vars == <<mainVars, stressVars, jobVars, netVars>>

\* main.c creates the native socket before anything else.
Init ==
  /\ running = TRUE /\ mpc = "init"
  /\ native \in {"none", "open"}
  /\ testing = "none" /\ testfd = "none" /\ probe = "off"
  /\ fd = [i \in Jobs |-> "none"]
  /\ next = 1 /\ made = 0
  /\ start_jobs = FALSE /\ cancel_jobs = FALSE /\ result = 1
  /\ wpc = [i \in Jobs |-> "none"]
  /\ sent = [i \in Jobs |-> 0] /\ rx = [i \in Jobs |-> << >>]
  /\ rounds = [i \in Jobs |-> 0]
  /\ error = [i \in Jobs |-> FALSE] /\ done = [i \in Jobs |-> FALSE]
  /\ wire = [i \in Jobs |-> << >>] /\ doubles = 0
  /\ genuine = [i \in Jobs |-> 0]

-------------------------------------------------------------------------------
(* main.c.                                                                  *)

\* The main thread goes from p to q and touches nothing else.
MainGoes(p, q) ==
  /\ mpc = p /\ mpc' = q
  /\ UNCHANGED <<running, native, testing, testfd, probe, stressVars, jobVars, netVars>>

\* pump sees HOME while the main thread waits for something.
Pump ==
  /\ running /\ mpc \in {"settle", "echo", "connect", "native", "pause"}
  /\ running' = FALSE
  /\ UNCHANGED <<mpc, native, testing, testfd, probe, stressVars, jobVars, netVars>>

\* probe_init, then 25 s for DHCP unless HOME ends them.
ProbeInit(ok) == MainGoes("init", IF ok THEN "settle" ELSE "finished")
Settled == MainGoes("settle", IF running THEN "begin" ELSE "finished")

\* The module's API is missing, or AXShimBeginProbe refuses.
NotActivated == MainGoes("begin", "finished")

\* AXShimBeginProbe returned 0.
Activated ==
  /\ mpc = "begin"
  /\ mpc' = "test" /\ probe' = "begun" /\ testing' = "tcp"
  /\ UNCHANGED <<running, native, testfd, stressVars, jobVars, netVars>>

\* What follows a test: the other one, then the stress, both only while running.
AfterTest ==
  IF running
    THEN /\ mpc' = IF testing = "tcp" THEN "test" ELSE "open"
         /\ testing' = IF testing = "tcp" THEN "udp" ELSE "none"
    ELSE mpc' = "release" /\ testing' = "none"

\* test: no socket.
TestRefused ==
  /\ mpc = "test"
  /\ AfterTest
  /\ UNCHANGED <<running, native, testfd, probe, stressVars, jobVars, netVars>>

TestOpens ==
  /\ mpc = "test"
  /\ mpc' = "echo" /\ testfd' = "open"
  /\ UNCHANGED <<running, native, testing, probe, stressVars, jobVars, netVars>>

\* It passes, fails or is left, and closes its socket in each case.
TestEnds ==
  /\ mpc = "echo"
  /\ testfd' = "closed"
  /\ AfterTest
  /\ UNCHANGED <<running, native, probe, stressVars, jobVars, netVars>>

CloseNative == native' = IF native = "open" THEN "closed" ELSE native

\* The native socket is closed and AXShimEndProbe called.
EndProbe ==
  /\ mpc = "release"
  /\ CloseNative
  /\ probe' = "ended" /\ mpc' = "finished"
  /\ UNCHANGED <<running, testing, testfd, stressVars, jobVars, netVars>>

Finished ==
  /\ mpc = "finished"
  /\ CloseNative
  /\ mpc' = "over"
  /\ UNCHANGED <<running, testing, testfd, probe, stressVars, jobVars, netVars>>

-------------------------------------------------------------------------------
(* probe_concurrent, on the main thread.                                    *)

StressGoes(p, q) ==
  /\ mpc = p /\ mpc' = q
  /\ UNCHANGED <<running, native, testing, testfd, probe, jobVars, netVars>>

\* Step q for the next job, or place p once there is none.
Advance(q, p) ==
  IF next < WORKERS THEN next' = next + 1 /\ mpc' = q ELSE next' = 1 /\ mpc' = p

OpenJob ==
  /\ StressGoes("open", "connect")
  /\ fd' = [fd EXCEPT ![next] = "open"]
  /\ UNCHANGED <<next, made, start_jobs, cancel_jobs, result>>

\* connect_fd sees the connection made ...
ConnectJob ==
  /\ mpc = "connect" /\ running
  /\ Advance("open", "native")
  /\ UNCHANGED <<running, native, testing, testfd, probe, fd, made, start_jobs, cancel_jobs,
                 result, jobVars, netVars>>

\* ... the native socket connects and gets its marker back ...
NativeEchoes == native = "open" /\ running /\ MainGoes("native", "spawn")

\* ... and each worker gets its thread.
SpawnJob ==
  /\ mpc = "spawn"
  /\ Advance("spawn", "go")
  /\ made' = made + 1
  /\ wpc' = [wpc EXCEPT ![next] = "start"]
  /\ UNCHANGED <<running, native, testing, testfd, probe, fd, start_jobs, cancel_jobs, result,
                 sent, rx, rounds, error, done, genuine, netVars>>

\* Any of these can fail and goes to done.
StressFails == \E p \in {"open", "connect", "native", "spawn"} : MainGoes(p, "cancel")

StartJobs ==
  /\ StressGoes("go", "watch")
  /\ start_jobs' = TRUE
  /\ UNCHANGED <<fd, next, made, cancel_jobs, result>>

\* The main thread looks at the done flags, and sleeps unless all are set.
WatchJobs == MainGoes("watch", IF \A i \in Jobs : done[i] THEN "judge" ELSE "pause")

\* HOME or TEST_TIMEOUT_MS end the watch.
WatchAgain == running /\ MainGoes("pause", "watch")
WatchEnds == MainGoes("pause", "cancel")

Judge ==
  /\ StressGoes("judge", "cancel")
  /\ result' = IF \A i \in Jobs : rounds[i] = ROUNDS /\ ~error[i] THEN 0 ELSE 1
  /\ UNCHANGED <<fd, next, made, start_jobs, cancel_jobs>>

\* done: every path comes here.
CancelJobs ==
  /\ StressGoes("cancel", "join")
  /\ cancel_jobs' = TRUE /\ next' = 1
  /\ UNCHANGED <<fd, made, start_jobs, result>>


\* OSJoinThread returns once the thread has ended; only made threads are joined.
JoinJobs ==
  /\ mpc = "join"
  /\ IF next <= made
       THEN wpc[next] = "none" /\ next' = next + 1 /\ UNCHANGED mpc
       ELSE mpc' = "close" /\ UNCHANGED next
  /\ UNCHANGED <<running, native, testing, testfd, probe, fd, made, start_jobs, cancel_jobs,
                 result, jobVars, netVars>>

\* A close that reports an error spoils the result.
CloseJobs(ok) ==
  /\ StressGoes("close", "release")
  /\ fd' = [i \in Jobs |-> IF fd[i] = "open" THEN "closed" ELSE fd[i]]
  /\ result' = IF ok THEN result ELSE 1
  /\ UNCHANGED <<next, made, start_jobs, cancel_jobs>>

-------------------------------------------------------------------------------
(* The workers.                                                             *)

\* Worker i goes on to p and nothing else of it changes.
Goes(i, p) ==
  /\ wpc' = [wpc EXCEPT ![i] = p]
  /\ UNCHANGED <<mainVars, stressVars, sent, rx, rounds, error, done, genuine, netVars>>

\* exchange returned -1: the error is kept and the loop left.
Fails(i) ==
  /\ wpc' = [wpc EXCEPT ![i] = "leave"]
  /\ error' = [error EXCEPT ![i] = TRUE]
  /\ UNCHANGED <<mainVars, stressVars, sent, rx, rounds, done, genuine, netVars>>

\* worker waits for the start, or for the cancel of a start that never came.
AwaitStart(i) ==
  /\ wpc[i] = "start"
  /\ start_jobs \/ cancel_jobs
  /\ Goes(i, "round")

\* The head of its loop.
BeginRound(i) ==
  /\ wpc[i] = "round" /\ rounds[i] < ROUNDS /\ ~cancel_jobs
  /\ wpc' = [wpc EXCEPT ![i] = "send"]
  /\ sent' = [sent EXCEPT ![i] = 0]
  /\ rx' = [rx EXCEPT ![i] = << >>]
  /\ UNCHANGED <<mainVars, stressVars, rounds, error, done, genuine, netVars>>

EndRounds(i) ==
  /\ wpc[i] = "round"
  /\ rounds[i] = ROUNDS \/ cancel_jobs
  /\ Goes(i, "leave")

\* done is the last thing a worker stores.
Leave(i) ==
  /\ wpc[i] = "leave"
  /\ wpc' = [wpc EXCEPT ![i] = "none"]
  /\ done' = [done EXCEPT ![i] = TRUE]
  /\ UNCHANGED <<mainVars, stressVars, sent, rx, rounds, error, genuine, netVars>>

\* A wait that looks only at the clock.
WaitDeaf(i) ==
  \/ wpc[i] = "send" /\ Goes(i, "pollout")
  \/ wpc[i] = "recv" /\ Goes(i, "pollin")

\* wait_fd goes round its loop while it is not cancelled ...
WaitOn(i) ==
  /\ ~cancel_jobs
  /\ \/ wpc[i] = "send" /\ Goes(i, "pollout")
     \/ wpc[i] = "recv" /\ Goes(i, "pollin")

\* ... until poll reports the socket ready ...
PollReady(i) ==
  \/ wpc[i] = "pollout" /\ Goes(i, "sending")
  \/ wpc[i] = "pollin" /\ wire[i] # << >> /\ Goes(i, "receiving")

PollNothing(i) ==
  \/ wpc[i] = "pollout" /\ Goes(i, "send")
  \/ wpc[i] = "pollin" /\ wire[i] = << >> /\ Goes(i, "recv")

\* ... or fails, or the wait is cancelled or has lasted 4 s.
WaitFails(i) == wpc[i] \in {"send", "recv", "pollout", "pollin"} /\ Fails(i)

\* What is sent: units k1 to k2 of the message of the current round.
Units(i, k1, k2) == [j \in 1 .. k2 - k1 + 1 |-> [round |-> rounds[i], at |-> k1 + j - 1]]

\* send takes all of a datagram or some of a stream.
SendSome(i, n) ==
  /\ wpc[i] = "sending"
  /\ n \in 1 .. Size(rounds[i]) - sent[i]
  /\ Stream(i) \/ n = Size(rounds[i])
  /\ sent' = [sent EXCEPT ![i] = @ + n]
  /\ wire' = [wire EXCEPT ![i] = Append(@, Units(i, sent[i] + 1, sent[i] + n))]
  /\ wpc' = [wpc EXCEPT ![i] = IF sent'[i] = Size(rounds[i]) THEN "recv" ELSE "send"]
  /\ UNCHANGED <<mainVars, stressVars, rx, rounds, error, done, genuine, doubles>>

\* EAGAIN: back to the wait.
SendAgain(i) == wpc[i] = "sending" /\ Goes(i, "send")
RecvAgain(i) == wpc[i] = "receiving" /\ Goes(i, "recv")

\* Any other error, the end of the stream, or a datagram sent short.
CallFails(i) == wpc[i] \in {"sending", "receiving"} /\ Fails(i)

\* recv returns n units: some of a stream, or all of a datagram that fits the
\* rest of the buffer; a longer one is cut.  A datagram of another length than
\* the message is an error.
RecvSome(i, n) ==
  /\ wpc[i] = "receiving" /\ wire[i] # << >>
  /\ LET size == Size(rounds[i])
         piece == Head(wire[i])
         most == IF Len(piece) < size - Len(rx[i]) THEN Len(piece) ELSE size - Len(rx[i])
     IN /\ n \in 1 .. most
        /\ Stream(i) \/ n = most
        /\ rx' = [rx EXCEPT ![i] = @ \o SubSeq(piece, 1, n)]
        /\ wire' = [wire EXCEPT ![i] =
                      IF Stream(i) /\ n < Len(piece)
                        THEN <<SubSeq(piece, n + 1, Len(piece))>> \o Tail(@)
                        ELSE Tail(@)]
        /\ error' = [error EXCEPT ![i] = @ \/ (~Stream(i) /\ n # size)]
        /\ wpc' = [wpc EXCEPT ![i] = IF error'[i] THEN "leave"
                                     ELSE IF Len(rx'[i]) = size THEN "compare" ELSE "recv"]
  /\ UNCHANGED <<mainVars, stressVars, sent, rounds, done, genuine, doubles>>

\* The fill of a unit: the pattern repeats after 256 rounds.
Fill(u) == [fill |-> u.round % 256, at |-> u.at]

Message(i) == Units(i, 1, Size(rounds[i]))

\* The round is counted.
Counted(i) ==
  /\ rounds' = [rounds EXCEPT ![i] = @ + 1]
  /\ genuine' = [genuine EXCEPT ![i] = IF rx[i] = Message(i) THEN @ + 1 ELSE @]
  /\ wpc' = [wpc EXCEPT ![i] = "round"]
  /\ UNCHANGED <<mainVars, stressVars, sent, rx, error, done, netVars>>

\* A comparison that only looks at the length.
CompareLength(i) == wpc[i] = "compare" /\ Counted(i)

\* memcmp of what came back with what was sent.
Compare(i) ==
  /\ wpc[i] = "compare"
  /\ IF \A k \in 1 .. Len(rx[i]) : Fill(rx[i][k]) = Fill(Message(i)[k])
       THEN Counted(i)
       ELSE Fails(i)

-------------------------------------------------------------------------------
(* The network: datagrams only.                                             *)

Loses(i) ==
  /\ ~Stream(i) /\ wire[i] # << >>
  /\ wire' = [wire EXCEPT ![i] = Tail(@)]
  /\ UNCHANGED <<mainVars, stressVars, jobVars, doubles>>

Doubles(i) ==
  /\ ~Stream(i) /\ wire[i] # << >> /\ doubles < MaxDoubles
  /\ wire' = [wire EXCEPT ![i] = Append(@, Head(@))]
  /\ doubles' = doubles + 1
  /\ UNCHANGED <<mainVars, stressVars, jobVars>>

-------------------------------------------------------------------------------
MainThread ==
  \/ \E ok \in BOOLEAN : ProbeInit(ok) \/ CloseJobs(ok)
  \/ Settled
  \/ NotActivated
  \/ Activated
  \/ TestRefused
  \/ TestOpens
  \/ TestEnds
  \/ EndProbe
  \/ Finished
  \/ OpenJob
  \/ ConnectJob
  \/ NativeEchoes
  \/ SpawnJob
  \/ StressFails
  \/ StartJobs
  \/ WatchJobs
  \/ WatchAgain
  \/ WatchEnds
  \/ Judge
  \/ CancelJobs
  \/ JoinJobs

Worker(i) ==
  \/ AwaitStart(i)
  \/ BeginRound(i)
  \/ EndRounds(i)
  \/ Leave(i)
  \/ WaitOn(i)
  \/ PollReady(i)
  \/ PollNothing(i)
  \/ WaitFails(i)
  \/ \E n \in 1 .. Size(rounds[i]) : SendSome(i, n)
  \/ SendAgain(i)
  \/ RecvAgain(i)
  \/ CallFails(i)
  \/ \E n \in 1 .. Size(rounds[i]) : RecvSome(i, n)
  \/ Compare(i)

Next ==
  \/ MainThread
  \/ Pump
  \/ \E i \in Jobs : Worker(i) \/ Loses(i) \/ Doubles(i)

Spec == Init /\ [][Next]_vars

\* Every thread is scheduled, and the watch ends at its deadline however often
\* the main thread goes round.  A send may say EAGAIN for ever.
Fairness ==
  /\ WF_vars(MainThread)
  /\ SF_vars(WatchEnds)
  /\ \A i \in Jobs : WF_vars(Worker(i))

FairSpec == Spec /\ Fairness

-------------------------------------------------------------------------------
(* Properties.                                                              *)


\* AXSTRESS result=PASS: every worker got each of its messages back in its own
\* round, although datagrams are lost or doubled, messages come in pieces, and
\* workers fail or are cancelled at any point.
PassIsEarned ==
  result = 0 => \A i \in Jobs : genuine[i] = ROUNDS /\ ~error[i]

\* Once begun, the probe ends: probe_concurrent's join never waits for a worker
\* that waits for something else, even if not all threads could be created or a
\* socket stays ready and refuses to send.
ProbeEnds == probe = "begun" ~> probe = "ended" /\ mpc = "over"

===============================================================================
