----------------------------- MODULE TitleProofs -----------------------------
(***************************************************************************)
(* Proofs about TitleLifecycle for any number of titles and unplugs and    *)
(* wherever a worker may outlast the wait of the hook.                     *)
(*                                                                         *)
(* NothingStale is not inductive: what a worker finds rests on what the    *)
(* worker of an earlier title was doing when its process died.  IInv says  *)
(* for every place of the worker what holds there (WorkerState), what the  *)
(* hooks have said by then (HookState), and what a console that never      *)
(* started a worker looks like (Untouched).                                *)
(***************************************************************************)
EXTENDS TitleLifecycle, TLAPS

\* Places of a worker that has cleared what it found, up to the end of its loop.
Settled == {"open", "opening", "start", "poll", "install", "loop", "stop", "close", "retry"}

\* Places where it holds the adapter.
Holding == {"opening", "start", "poll", "install", "loop"}

\* What holds where: Forget and StartNet establish it, StopNet, CloseAdapter and a
\* failed start keep it for the next attempt.
WorkerState ==
  /\ wpc \in Settled /\ initialized => tcpip
  /\ wpc \in Settled /\ netif_listed => netif_in_list
  /\ wpc \in Holding => ax /\ g_open /\ client
  /\ wpc \in {"poll", "install", "loop"} => active /\ initialized
  /\ wpc \in {"guard", "netdown", "axdown"} => ~accepting_sockets
  /\ wpc \notin {"none", "loop", "cleanup"} => ~proxy

\* What the hooks have done when the worker is still there.
HookState ==
  /\ hook \in {"none", "app", "ending", "join", "deinit", "exit", "unloaded"}
  /\ hook = "none" => wpc = "none"
  /\ hook \in {"none", "exit", "unloaded"} => ~started
  /\ hook \in {"ending", "join", "deinit"} => started
  /\ hook = "app" /\ ~started => wpc = "none"
  /\ hook \in {"app", "ending"} /\ started => ~stopping
  /\ hook \in {"ending", "join"} => title_ending
  /\ hook = "exit" /\ wpc # "none" => title_ending
  /\ wpc \in {"cleanup", "netdown", "axdown"} => stopping
  /\ wpc \in {"cleanup", "netdown", "axdown"} => hook \in {"join", "deinit", "exit", "unloaded"}

\* Before the Wii U menu has been seen no worker has run.
Untouched == ~menu_seen => ~accepting_sockets /\ ~proxy /\ ~started /\ wpc = "none"

\* The inductive invariant.
IInv ==
  /\ WorkerState
  /\ HookState
  /\ Untouched
  /\ AcceptingMeansStack
  /\ TitleEndAbandons

\* The console just switched on satisfies it.
LEMMA InitIInv == Init => IInv
  BY Zenon DEF Init, IInv, WorkerState, HookState, Untouched, AcceptingMeansStack,
         TitleEndAbandons, Settled, Holding

\* No step of a hook, of the worker, of lwIP's thread or of the USB plug breaks it.
LEMMA NextIInv == IInv /\ [Next]_vars => IInv'
<1> SUFFICES ASSUME IInv, [Next]_vars PROVE IInv'
  BY Zenon
<1> USE LifecycleAssumption DEF IInv, WorkerState, HookState, Untouched, AcceptingMeansStack,
      TitleEndAbandons, Settled, Holding, Places, hookVars, drvVars, listVars, netVars, envVars, shimVars
<1>1. CASE GuardStopped
  BY <1>1, Zenon DEF GuardStopped, Running, WorkerGoes
<1>2. CASE GuardPassed
  BY <1>2, Zenon DEF GuardPassed, Running, WorkerGoes
<1>3. CASE Forget
  BY <1>3, Zenon DEF Forget, Running, LeaseMode
<1>4. CASE OpenRefused
  BY <1>4, Zenon DEF OpenRefused, Running, WorkerGoes, Without
<1>5. CASE OpenAcquires
  BY <1>5, Zenon DEF OpenAcquires, Running
<1>6. CASE OpenSucceeds
  BY <1>6, Zenon DEF OpenSucceeds, Running
<1>7. ASSUME NEW initialised \in BOOLEAN, OpenFails(initialised) PROVE IInv'
  BY <1>7, Zenon DEF OpenFails, Running, Without
<1>8. CASE StartNet
  BY <1>8, Zenon DEF StartNet, Running
<1>9. CASE StartNetFails
  BY <1>9, Zenon DEF StartNetFails, Running
<1>10. CASE LinkError
  BY <1>10, Zenon DEF LinkError, Running
<1>11. ASSUME NEW listens \in BOOLEAN, GotAddress(listens) PROVE IInv'
  BY <1>11, Zenon DEF GotAddress, Running, CacheLease
<1>12. CASE PollDeadline
  BY <1>12, Zenon DEF PollDeadline, Running, WorkerGoes
<1>13. CASE PollAborted
  BY <1>13, Zenon DEF PollAborted, Running, WorkerGoes
<1>14. ASSUME NEW ok \in BOOLEAN, NEW listens \in BOOLEAN, InstallShim(ok, listens) PROVE IInv'
  BY <1>14, Zenon DEF InstallShim, Running
<1>15. CASE LoopStopped
  BY <1>15, Zenon DEF LoopStopped, Running, WorkerGoes
<1>16. CASE LoopLosesAdapter
  BY <1>16, Zenon DEF LoopLosesAdapter, Running
<1>17. CASE RetryStopped
  BY <1>17, Zenon DEF RetryStopped, Running, WorkerGoes
<1>18. CASE RetryOpen
  BY <1>18, Zenon DEF RetryOpen, Running, WorkerGoes
<1>19. CASE StopNet
  BY <1>19, Zenon DEF StopNet, Running, NetStop
<1>20. CASE CloseAdapter
  BY <1>20, Zenon DEF CloseAdapter, Running, Without
<1>21. CASE Cleanup
  BY <1>21, Zenon DEF Cleanup, Running, StopAccepting
<1>22. CASE NetDown
  BY <1>22, Zenon DEF NetDown, Running, NetAbandon, NetStop
<1>23. CASE AdapterDown
  BY <1>23, Zenon DEF AdapterDown, Running
<1>24. ASSUME NEW isMenu \in BOOLEAN, NEW created \in BOOLEAN, ApplicationStarts(isMenu, created) PROVE IInv'
  BY <1>24, Zenon DEF ApplicationStarts, StopAccepting
<1>25. CASE EndsIdle
  BY <1>25, Zenon DEF EndsIdle
<1>26. CASE EndsAnnounce
  BY <1>26, Zenon DEF EndsAnnounce
<1>27. CASE EndsStop
  BY <1>27, Zenon DEF EndsStop
<1>28. CASE Deinitialize
  BY <1>28, Zenon DEF Deinitialize, StopAccepting
<1>29. CASE JoinWorker
  BY <1>29, Zenon DEF JoinWorker
<1>30. CASE JoinTimeout
  BY <1>30, ZenonT(30) DEF JoinTimeout
<1>31. CASE ProcessDies
  BY <1>31, Zenon DEF ProcessDies
<1>32. CASE LinkOk
  BY <1>32, Zenon DEF LinkOk, Running
<1>33. CASE DhcpBinds
  BY <1>33 DEF DhcpBinds
<1>34. CASE Unplug
  BY <1>34 DEF Unplug
<1>35. CASE Plug
  BY <1>35 DEF Plug
<1>36. CASE UNCHANGED vars
  BY <1>36 DEF vars
<1> QED
  BY <1>1, <1>2, <1>3, <1>4, <1>5, <1>6, <1>7, <1>8, <1>9, <1>10, <1>11, <1>12, <1>13,
    <1>14, <1>15, <1>16, <1>17, <1>18, <1>19, <1>20, <1>21, <1>22, <1>23, <1>24, <1>25,
    <1>26, <1>27, <1>28, <1>29, <1>30, <1>31, <1>32, <1>33, <1>34, <1>35, <1>36,
    ZenonT(30) DEF Next, BringUp, Poll, Stop, Hooks

\* IInv holds in every state, whatever the worker was doing when a title ended.
THEOREM InvariantHolds == Spec => []IInv
  BY InitIInv, NextIInv, PTL DEF Spec

\* For any number of titles and unplugs, and wherever the 2 s wait of the hook may
\* give up on the worker: a worker never takes for its own what an earlier title or
\* a lost adapter left in the statics of main.c, ax_net.c and the shim.
THEOREM StaleFree == Spec => []NothingStale
<1>1. IInv => NothingStale
  BY Zenon DEF IInv, WorkerState, Settled, Holding, NothingStale, NetifAddedOnce,
    StackIsOurs,
         ActiveMeansOpen, AcceptingMeansStack, ProxyTied
<1> QED
  BY <1>1, InvariantHolds, PTL

\* The worker of a title that ends abandons stack and adapter: by the time run_network
\* reads title_ending, stop_after_all_application_ends has set it.
THEOREM AbandonsAtEnd == Spec => []TitleEndAbandons
<1>1. IInv => TitleEndAbandons
  BY Zenon DEF IInv
<1> QED
  BY <1>1, InvariantHolds, PTL

-------------------------------------------------------------------------------
(* Where the refused open of a new worker comes from.                       *)

\* The instance flag is the flag of a worker that still knows its adapter, and a
\* title exits without its worker.
FlagIsOurs ==
  /\ g_open => ax /\ wpc \in Holding \cup {"stop", "close", "cleanup", "netdown", "axdown"}
  /\ hook = "exit" => wpc = "none"

\* A worker that always ends within the 200 polls of the hook leaves ax88179_open's
\* instance flag clear for the next one: the hook that gives up on a slow worker is the
\* only way to the refused open.
THEOREM RefusedOnlyAfterTimeout ==
  ASSUME SlowPlaces = {}
  PROVE  Spec => []OpenNotRefused
<1>1. Init => FlagIsOurs
  BY Zenon DEF Init, FlagIsOurs
<1>2. IInv /\ FlagIsOurs /\ [Next]_vars => FlagIsOurs'
  <2> SUFFICES ASSUME IInv, FlagIsOurs, [Next]_vars PROVE FlagIsOurs'
    BY Zenon
  <2> USE DEF FlagIsOurs, Holding, hookVars, drvVars, listVars, netVars, envVars, shimVars
  <2>1. CASE BringUp
    BY <2>1 DEF BringUp, GuardStopped, GuardPassed, Forget, OpenRefused, OpenAcquires,
                OpenSucceeds, OpenFails, StartNet, StartNetFails, WorkerGoes, Running, Without,
                IInv, HookState
  <2>2. CASE Poll
    BY <2>2, SMTT(30)
      DEF Poll, LinkError, GotAddress, PollDeadline, PollAborted, InstallShim,
                LoopStopped, LoopLosesAdapter, WorkerGoes, Running
  <2>3. CASE Stop
    BY <2>3, Zenon DEF Stop, RetryStopped, RetryOpen, StopNet, CloseAdapter, Cleanup,
      NetDown,
                AdapterDown, WorkerGoes, Running, Without
  <2>4. CASE Hooks
    BY <2>4 DEF Hooks, ApplicationStarts, EndsIdle, EndsAnnounce, EndsStop, Deinitialize,
                JoinWorker, JoinTimeout, ProcessDies, IInv, HookState
  <2>5. CASE LinkOk \/ DhcpBinds \/ Unplug \/ Plug \/ UNCHANGED vars
    BY <2>5 DEF LinkOk, DhcpBinds, Unplug, Plug, vars
  <2> QED
    BY <2>1, <2>2, <2>3, <2>4, <2>5, Zenon DEF Next
<1>3. FlagIsOurs => OpenNotRefused
  BY Zenon DEF FlagIsOurs, Holding, OpenNotRefused
<1> QED
  BY <1>1, <1>2, <1>3, InvariantHolds, PTL DEF Spec

===============================================================================
