---------------------------- MODULE TitleLifecycle ----------------------------
(***************************************************************************)
(* The life of the network across titles: the WUMS hooks and the worker    *)
(* run_network of src/aroma_module/main.c, with the parts of               *)
(* src/net/ax_net.c and src/driver/ax88179.c they start, stop and abandon. *)
(*                                                                         *)
(* A title is a process.  When it ends its threads, its lwIP thread and    *)
(* its UHS client die with it wherever they are, but the module's static   *)
(* variables, lwIP's included, survive into the next title.  The title's   *)
(* main thread runs the hooks; the worker owns the adapter and the stack.  *)
(***************************************************************************)
EXTENDS Naturals

CONSTANTS KeepFirst,     \* config_keep_first: reuse the session's lease
          SlowPlaces,    \* worker places that may outlast the hook's 2 s wait
          TimerHeadroom, \* MEMP_NUM_SYS_TIMEOUT minus lwIP's own timers
          MaxTitles,     \* bound: titles started
          MaxUnplugs     \* bound: times the adapter is pulled out

Places == {"none", "guard", "forget", "open", "opening", "start", "poll", "install",
           "loop", "retry", "stop", "close", "cleanup", "netdown", "axdown"}

ASSUME LifecycleAssumption ==
  /\ KeepFirst \in BOOLEAN
  /\ SlowPlaces \subseteq Places \ {"none"}
  /\ {TimerHeadroom, MaxTitles, MaxUnplugs} \subseteq Nat

VARIABLES
  (* statics of the module and of lwIP *)
  menu_seen, started, stopping, title_ending,
  accepting_sockets,    \* of the shim: hooked calls go to lwIP
  proxy,                \* of the shim: the Wiiload proxy has its lwIP listener
  g_open,               \* the driver's single-instance flag
  phy_init_generation,  \* 0 forces the cold path; saturates at 1
  initialized, active, netif_in_list,
  link_errors,          \* saturates at 3, where ax_net_poll returns -2
  session_lease_valid,
  netif_listed,         \* iface is in lwIP's netif_list
  beats,                \* beat_cb timers in lwIP's timeout list; saturates one
                        \* above TimerHeadroom
  (* the process *)
  hook,                 \* what the title's main thread does
  tcpip,                \* lwIP's thread runs in this process
  client,               \* this process holds a UHS client
  bound,                \* iface has an address
  (* the worker *)
  wpc, recovering,
  ax,                   \* its variable ax (or candidate) is not NULL
  ending,               \* its variable ending_title
  (* the adapter *)
  present,              \* it is plugged in
  live,                 \* it was not unplugged since it was opened
  (* history *)
  titles, unplugs

hookVars == <<menu_seen, started, stopping, title_ending, hook, titles>>
drvVars == <<g_open, phy_init_generation, client>>
listVars == <<netif_in_list, netif_listed>>
netVars == <<initialized, active, listVars, tcpip, bound, beats, session_lease_valid>>
envVars == <<present, live, unplugs>>
shimVars == <<accepting_sockets, proxy>>
vars == <<hookVars, drvVars, netVars, envVars, shimVars, link_errors, wpc,
          recovering, ax, ending>>

\* A console just switched on, EnvironmentLoader running.
Init ==
  /\ menu_seen = FALSE /\ started = FALSE /\ stopping = FALSE /\ title_ending = FALSE
  /\ accepting_sockets = FALSE /\ proxy = FALSE
  /\ g_open = FALSE /\ phy_init_generation = 0
  /\ initialized = FALSE /\ active = FALSE /\ netif_in_list = FALSE
  /\ link_errors = 0 /\ session_lease_valid = FALSE
  /\ netif_listed = FALSE /\ beats = 0
  /\ hook = "none" /\ tcpip = FALSE /\ client = FALSE /\ bound = FALSE
  /\ wpc = "none" /\ recovering = FALSE /\ ax = FALSE /\ ending = FALSE
  /\ present \in BOOLEAN /\ live = FALSE
  /\ titles = 0 /\ unplugs = 0

-------------------------------------------------------------------------------
(* The hooks, on the title's main thread.                                   *)

\* nsysnet_shim_stop_accepting, also the first thing begin_title does.
StopAccepting == accepting_sockets' = FALSE /\ proxy' = FALSE

\* A process begins and APPLICATION_STARTS runs in it.
ApplicationStarts(isMenu, created) ==
  /\ hook = "none" /\ titles < MaxTitles
  /\ titles' = titles + 1
  /\ hook' = "app"
  /\ menu_seen' = (menu_seen \/ isMenu)
  /\ IF menu_seen' /\ ~started
       THEN /\ StopAccepting
            /\ title_ending' = FALSE /\ stopping' = FALSE
            /\ started' = created
            /\ wpc' = IF created THEN "guard" ELSE "none"
       ELSE UNCHANGED <<shimVars, title_ending, stopping, started, wpc>>
  /\ UNCHANGED <<drvVars, netVars, envVars, link_errors, recovering, ax, ending>>

\* ALL_APPLICATION_ENDS_DONE: nothing was started.
EndsIdle ==
  /\ hook = "app" /\ ~started
  /\ hook' = "exit"
  /\ UNCHANGED <<menu_seen, started, stopping, title_ending, titles, shimVars,
                 drvVars, netVars, envVars, link_errors, wpc, recovering, ax, ending>>

\* An end that does not say so.
EndsUnannounced ==
  /\ hook = "app" /\ started
  /\ hook' = "ending"
  /\ UNCHANGED <<menu_seen, started, stopping, title_ending, titles, shimVars,
                 drvVars, netVars, envVars, link_errors, wpc, recovering, ax, ending>>

\* stop_after_all_application_ends first says that the title ends ...
EndsAnnounce ==
  /\ hook = "app" /\ started
  /\ hook' = "ending"
  /\ title_ending' = TRUE
  /\ UNCHANGED <<menu_seen, started, stopping, titles, shimVars, drvVars, netVars,
                 envVars, link_errors, wpc, recovering, ax, ending>>

\* ... and then stops the worker.
EndsStop ==
  /\ hook = "ending"
  /\ hook' = "join"
  /\ stopping' = TRUE
  /\ UNCHANGED <<menu_seen, started, title_ending, titles, shimVars, drvVars,
                 netVars, envVars, link_errors, wpc, recovering, ax, ending>>

\* DEINITIALIZE: stop_worker closes the shim and stops the worker.
Deinitialize ==
  /\ hook = "app" /\ started
  /\ hook' = "deinit"
  /\ StopAccepting
  /\ stopping' = TRUE
  /\ UNCHANGED <<menu_seen, started, title_ending, titles, drvVars, netVars, envVars,
                 link_errors, wpc, recovering, ax, ending>>

\* The worker terminated within the 200 polls of 10 ms and is joined.
JoinWorker ==
  /\ hook \in {"join", "deinit"} /\ wpc = "none"
  /\ hook' = IF hook = "join" THEN "exit" ELSE "unloaded"
  /\ started' = FALSE
  /\ UNCHANGED <<menu_seen, stopping, title_ending, titles, shimVars, drvVars,
                 netVars, envVars, link_errors, wpc, recovering, ax, ending>>

\* It did not, and the hook returns all the same.
JoinTimeout ==
  /\ hook \in {"join", "deinit"} /\ wpc \in SlowPlaces
  /\ hook' = IF hook = "join" THEN "exit" ELSE "unloaded"
  /\ started' = FALSE
  /\ UNCHANGED <<menu_seen, stopping, title_ending, titles, shimVars, drvVars,
                 netVars, envVars, link_errors, wpc, recovering, ax, ending>>

\* The process ends: its threads and its UHS client are gone.
ProcessDies ==
  /\ hook = "exit"
  /\ hook' = "none"
  /\ wpc' = "none" /\ recovering' = FALSE /\ ax' = FALSE /\ ending' = FALSE
  /\ tcpip' = FALSE
  /\ client' = FALSE
  /\ live' = FALSE
  /\ UNCHANGED <<menu_seen, started, stopping, title_ending, titles, shimVars,
                 g_open, phy_init_generation, initialized, active, listVars, bound, beats,
                 session_lease_valid, present, unplugs, link_errors>>

-------------------------------------------------------------------------------
(* The worker: bring-up.                                                    *)

Running(p) == wpc = p /\ hook \notin {"none", "unloaded"}

\* A step of the worker that touches nothing but its own place.
WorkerGoes(p, q) ==
  /\ Running(p)
  /\ wpc' = q
  /\ UNCHANGED <<hookVars, drvVars, netVars, envVars, shimVars, link_errors,
                 recovering, ax, ending>>

\* The two seconds of startup guard, left early when the title ends.
GuardStopped == stopping /\ WorkerGoes("guard", "none")
GuardPassed == WorkerGoes("guard", "forget")

\* ax_net_set_session_lease_mode: without keep_first no lease is kept.
LeaseMode == session_lease_valid' = (session_lease_valid /\ KeepFirst)

\* ax_net_address: the first address of DHCP becomes the session's lease.
CacheLease == session_lease_valid' = (session_lease_valid \/ KeepFirst)

\* A forget that keeps initialized, as if lwIP's thread had survived.
ForgetKeepsStack ==
  /\ Running("forget")
  /\ wpc' = "open"
  /\ netif_listed' = FALSE /\ netif_in_list' = FALSE
  /\ beats' = 0
  /\ active' = FALSE
  /\ link_errors' = 0 /\ bound' = FALSE
  /\ LeaseMode
  /\ UNCHANGED <<hookVars, drvVars, tcpip, initialized, envVars, shimVars,
                 recovering, ax, ending>>

\* ax_net_set_session_lease_mode and ax_net_forget, with lwip_port_reset_all.
Forget ==
  /\ Running("forget")
  /\ wpc' = "open"
  /\ netif_listed' = FALSE /\ netif_in_list' = FALSE
  /\ beats' = 0
  /\ initialized' = FALSE /\ active' = FALSE
  /\ link_errors' = 0 /\ bound' = FALSE
  /\ LeaseMode
  /\ UNCHANGED <<hookVars, drvVars, tcpip, envVars, shimVars, recovering, ax,
                 ending>>

\* Where the worker goes when it has no adapter.
Without == IF recovering THEN "retry" ELSE "none"

\* ax88179_open refuses a second instance, or does not get the interface.
OpenRefused == WorkerGoes("open", Without)

\* It acquires the interface and takes the instance flag ...
OpenAcquires ==
  /\ Running("open") /\ ~g_open /\ present
  /\ wpc' = "opening"
  /\ g_open' = TRUE /\ client' = TRUE
  /\ ax' = TRUE /\ live' = TRUE
  /\ UNCHANGED <<hookVars, phy_init_generation, netVars, present, unplugs,
                 shimVars, link_errors, recovering, ending>>

\* ... initialises the chip, which counts as done before the endpoints are
\* enabled ...
OpenSucceeds ==
  /\ Running("opening") /\ live
  /\ wpc' = "start"
  /\ phy_init_generation' = 1
  /\ UNCHANGED <<hookVars, g_open, client, netVars, envVars, shimVars,
                 link_errors, recovering, ax, ending>>

\* ... or fails before or after that and closes.
OpenFails(initialised) ==
  /\ Running("opening")
  /\ wpc' = Without
  /\ phy_init_generation' = IF initialised THEN 1 ELSE phy_init_generation
  /\ g_open' = FALSE /\ client' = FALSE
  /\ ax' = FALSE /\ live' = FALSE
  /\ UNCHANGED <<hookVars, netVars, present, unplugs, shimVars, link_errors,
                 recovering, ending>>

\* ax_net_start: tcpip_init once, then setup_netif, which first removes what a
\* stop that never ran left behind.
StartNet ==
  /\ Running("start") /\ ~active
  /\ wpc' = "poll"
  /\ initialized' = TRUE
  /\ tcpip' = (tcpip \/ ~initialized)
  /\ netif_in_list' = TRUE /\ netif_listed' = TRUE
  /\ bound' = (KeepFirst /\ session_lease_valid)
  /\ beats' = IF beats > TimerHeadroom THEN beats ELSE beats + 1
  /\ active' = TRUE
  /\ link_errors' = 0
  /\ UNCHANGED <<hookVars, drvVars, session_lease_valid, envVars, shimVars,
                 recovering, ax, ending>>

\* ax_net_start fails: netif_add or dhcp_start refused, the netif is out again.
StartNetFails ==
  /\ Running("start")
  /\ wpc' = "close"
  /\ initialized' = TRUE
  /\ tcpip' = (tcpip \/ ~initialized)
  /\ netif_in_list' = FALSE
  /\ netif_listed' = (netif_listed /\ ~netif_in_list)
  /\ bound' = FALSE
  /\ UNCHANGED <<hookVars, drvVars, active, beats, session_lease_valid, envVars,
                 shimVars, link_errors, recovering, ax, ending>>

-------------------------------------------------------------------------------
(* The worker: polling, recovery and stop.                                  *)

\* lwIP's thread obtains a lease.
DhcpBinds ==
  /\ tcpip /\ active /\ live /\ ~bound
  /\ bound' = TRUE
  /\ UNCHANGED <<hookVars, drvVars, initialized, active, listVars, tcpip, beats,
                 session_lease_valid, envVars, shimVars, link_errors, wpc,
                 recovering, ax, ending>>

\* ax_net_poll asks the adapter for its link twice a second.
LinkOk ==
  /\ wpc \in {"poll", "loop"} /\ Running(wpc)
  /\ live /\ link_errors # 0
  /\ link_errors' = 0
  /\ UNCHANGED <<hookVars, drvVars, netVars, envVars, shimVars, wpc, recovering,
                 ax, ending>>

LinkError ==
  /\ wpc \in {"poll", "loop"} /\ Running(wpc)
  /\ link_errors < 3
  /\ link_errors' = link_errors + 1
  /\ UNCHANGED <<hookVars, drvVars, netVars, envVars, shimVars, wpc, recovering,
                 ax, ending>>

\* The loop of run_network or of recover_adapter that waits for an address
\* gets one; after a recovery the proxy is started again.
GotAddress(listens) ==
  /\ Running("poll")
  /\ bound /\ link_errors < 3
  /\ CacheLease
  /\ wpc' = IF recovering THEN "loop" ELSE "install"
  /\ proxy' = IF recovering THEN listens ELSE proxy
  /\ recovering' = FALSE
  /\ UNCHANGED <<hookVars, drvVars, initialized, active, listVars, tcpip, bound, beats,
                 envVars, accepting_sockets, link_errors, ax, ending>>

\* It gives up at its deadline ...
PollDeadline == WorkerGoes("poll", "stop")

\* ... recover_adapter's loop also when the adapter is lost again or the
\* worker is to stop.  run_network's loop asks neither question.
PollAborted ==
  /\ recovering
  /\ link_errors >= 3 \/ stopping
  /\ WorkerGoes("poll", "stop")

\* nsysnet_shim_install, which may be refused by the function patcher; then the
\* proxy gets its listener, or lwIP refuses it, or it is not configured.  The FTP
\* handoff asked for here, and again from the loop, is an action of ShimSockets.
InstallShim(ok, listens) ==
  /\ Running("install")
  /\ wpc' = "loop"
  /\ accepting_sockets' = (accepting_sockets \/ ok)
  /\ proxy' = (ok /\ listens)
  /\ UNCHANGED <<hookVars, drvVars, netVars, envVars, link_errors, recovering, ax, ending>>

\* The main loop is told to stop, or sees the adapter gone (-2).
LoopStopped == stopping /\ WorkerGoes("loop", "cleanup")

\* A loop that takes -2 for just another failed poll.
LoopIgnoresLoss ==
  /\ Running("loop")
  /\ link_errors >= 3
  /\ link_errors' = 0
  /\ UNCHANGED <<hookVars, drvVars, netVars, envVars, shimVars, wpc, recovering,
                 ax, ending>>

\* The proxy is retired before the adapter is rebuilt.
LoopLosesAdapter ==
  /\ Running("loop")
  /\ link_errors >= 3
  /\ wpc' = "stop" /\ recovering' = TRUE
  /\ proxy' = FALSE
  /\ UNCHANGED <<hookVars, drvVars, netVars, envVars, accepting_sockets, link_errors, ax,
                 ending>>

\* recover_adapter's outer loop, once a second.
RetryStopped == stopping /\ WorkerGoes("retry", "cleanup")

\* A retry that never looks at the flag.
RetryIgnoresStop == WorkerGoes("retry", "open")

RetryOpen == ~stopping /\ WorkerGoes("retry", "open")

\* ax_net_stop and stop_netif.
NetStop ==
  /\ active' = FALSE
  /\ IF active THEN netif_in_list' = FALSE /\ netif_listed' = FALSE /\ bound' = FALSE
               ELSE UNCHANGED <<listVars, bound>>
  /\ UNCHANGED <<initialized, tcpip, beats, session_lease_valid>>

\* ax_net_abandon_title with tcpip_shutdown; lwIP's lists are left as they are.
NetAbandon ==
  /\ tcpip' = (tcpip /\ ~initialized)
  /\ active' = FALSE /\ initialized' = FALSE /\ netif_in_list' = FALSE
  /\ UNCHANGED <<netif_listed, bound, beats, session_lease_valid>>

StopNet ==
  /\ Running("stop")
  /\ wpc' = "close"
  /\ NetStop
  /\ UNCHANGED <<hookVars, drvVars, envVars, shimVars, link_errors, recovering, ax,
                 ending>>

\* ax88179_close; recover_adapter then forces the next open to be cold.
CloseAdapter ==
  /\ Running("close")
  /\ wpc' = Without
  /\ g_open' = FALSE /\ client' = FALSE
  /\ ax' = FALSE /\ live' = FALSE
  /\ phy_init_generation' = IF recovering THEN 0 ELSE phy_init_generation
  /\ UNCHANGED <<hookVars, netVars, present, unplugs, shimVars, link_errors,
                 recovering, ending>>

\* The end of run_network: decide how to stop, close the shim ...
Cleanup ==
  /\ Running("cleanup")
  /\ wpc' = "netdown"
  /\ ending' = title_ending
  /\ StopAccepting
  /\ recovering' = FALSE
  /\ UNCHANGED <<hookVars, drvVars, netVars, envVars, link_errors, ax>>

\* ... stop or abandon the stack ...
NetDown ==
  /\ Running("netdown")
  /\ wpc' = "axdown"
  /\ IF ending THEN NetAbandon ELSE NetStop
  /\ UNCHANGED <<hookVars, drvVars, envVars, shimVars, link_errors, recovering, ax,
                 ending>>

\* ... and close or abandon the adapter, if there is one.
AdapterDown ==
  /\ Running("axdown")
  /\ wpc' = "none"
  /\ ax' = FALSE /\ live' = FALSE
  /\ IF ax THEN g_open' = FALSE /\ client' = (client /\ ending)
           ELSE UNCHANGED <<g_open, client>>
  /\ UNCHANGED <<hookVars, phy_init_generation, netVars, present, unplugs,
                 shimVars, link_errors, recovering, ending>>

-------------------------------------------------------------------------------
(* The adapter's USB plug.                                                  *)

Unplug ==
  /\ present /\ unplugs < MaxUnplugs
  /\ present' = FALSE /\ live' = FALSE
  /\ unplugs' = unplugs + 1
  /\ UNCHANGED <<hookVars, drvVars, netVars, shimVars, link_errors, wpc,
                 recovering, ax, ending>>

Plug ==
  /\ ~present
  /\ present' = TRUE
  /\ UNCHANGED <<hookVars, drvVars, netVars, live, unplugs, shimVars, link_errors,
                 wpc, recovering, ax, ending>>

-------------------------------------------------------------------------------
BringUp ==
  \/ GuardStopped
  \/ GuardPassed
  \/ Forget
  \/ OpenRefused
  \/ OpenAcquires
  \/ OpenSucceeds
  \/ \E initialised \in BOOLEAN : OpenFails(initialised)
  \/ StartNet
  \/ StartNetFails

Poll ==
  \/ LinkError
  \/ \E listens \in BOOLEAN : GotAddress(listens)
  \/ PollDeadline
  \/ PollAborted
  \/ \E ok, listens \in BOOLEAN : InstallShim(ok, listens)
  \/ LoopStopped
  \/ LoopLosesAdapter

Stop ==
  \/ RetryStopped
  \/ RetryOpen
  \/ StopNet
  \/ CloseAdapter
  \/ Cleanup
  \/ NetDown
  \/ AdapterDown

Hooks ==
  \/ \E isMenu, created \in BOOLEAN : ApplicationStarts(isMenu, created)
  \/ EndsIdle
  \/ EndsAnnounce
  \/ EndsStop
  \/ Deinitialize
  \/ JoinWorker
  \/ JoinTimeout
  \/ ProcessDies

Next ==
  \/ BringUp
  \/ Poll
  \/ LinkOk
  \/ Stop
  \/ Hooks
  \/ DhcpBinds
  \/ Unplug
  \/ Plug

Spec == Init /\ [][Next]_vars

\* The worker is scheduled: it leaves its bounded waits (guard, deadlines,
\* sleeps) and its calls return.  While an adapter is present an open that is
\* tried again and again succeeds in the end, DHCP answers in the end, and one
\* of the polls of a window of 35 s sees the address.
Fairness ==
  /\ WF_vars(BringUp)
  /\ WF_vars(LinkError /\ ~live)
  /\ WF_vars(PollDeadline \/ PollAborted)
  /\ WF_vars(\E ok, listens \in BOOLEAN : InstallShim(ok, listens))
  /\ WF_vars(LoopStopped)
  /\ WF_vars(LoopLosesAdapter)
  /\ WF_vars(Stop)
  /\ SF_vars(OpenAcquires)
  /\ SF_vars(OpenSucceeds)
  /\ SF_vars(StartNet)
  /\ SF_vars(DhcpBinds)
  /\ SF_vars(\E listens \in BOOLEAN : GotAddress(listens))

FairSpec == Spec /\ Fairness

-------------------------------------------------------------------------------
(* Properties.                                                              *)

\* The type of the statics, the process, the worker and the adapter.
TypeOK ==
  /\ menu_seen \in BOOLEAN /\ started \in BOOLEAN /\ stopping \in BOOLEAN
  /\ title_ending \in BOOLEAN /\ accepting_sockets \in BOOLEAN /\ proxy \in BOOLEAN
  /\ g_open \in BOOLEAN /\ initialized \in BOOLEAN /\ active \in BOOLEAN
  /\ netif_in_list \in BOOLEAN /\ session_lease_valid \in BOOLEAN /\ netif_listed \in BOOLEAN
  /\ tcpip \in BOOLEAN /\ client \in BOOLEAN /\ bound \in BOOLEAN
  /\ recovering \in BOOLEAN /\ ax \in BOOLEAN /\ ending \in BOOLEAN
  /\ present \in BOOLEAN /\ live \in BOOLEAN
  /\ phy_init_generation \in {0, 1}
  /\ link_errors \in 0 .. 3
  /\ beats \in 0 .. TimerHeadroom + 1
  /\ hook \in {"none", "app", "ending", "join", "deinit", "exit", "unloaded"}
  /\ wpc \in Places
  /\ titles \in 0 .. MaxTitles /\ unplugs \in 0 .. MaxUnplugs

\* setup_netif never adds an interface that lwIP still lists: netif_in_list
\* covers every way a start, a stop or a title's death can leave it there.
NetifAddedOnce ==
  wpc = "start" /\ netif_listed => netif_in_list

\* ax_net_start skips tcpip_init only when lwIP's thread runs in this process:
\* initialized never survives from a title that died.
StackIsOurs ==
  wpc \in {"open", "opening", "start", "poll", "install", "loop"} /\ initialized => tcpip

\* ax_net_poll never runs on an adapter that was closed: while the interface is
\* active in a running process, its driver instance and UHS client are open.
ActiveMeansOpen ==
  wpc \in {"poll", "install", "loop"} => active /\ ax /\ g_open /\ client

\* A hooked socket call of a title that runs finds lwIP's thread alive: the
\* shim accepts only between the start of the stack and its end, whatever the
\* previous title left behind.
AcceptingMeansStack ==
  hook # "none" /\ accepting_sockets => tcpip

\* The proxy's listener never outlives the interface it is bound to: no worker
\* brings the adapter up or takes it down under it.
ProxyTied ==
  wpc \in {"forget", "open", "opening", "start", "poll", "stop", "close", "retry",
          "netdown", "axdown"} => ~proxy

\* Nothing of an earlier title, or of an adapter that is gone, is taken for the
\* worker's own: not the interface in lwIP's list, not the stack, not the adapter,
\* not the routing and not the proxy.
NothingStale ==
  NetifAddedOnce /\ StackIsOurs /\ ActiveMeansOpen /\ AcceptingMeansStack /\ ProxyTied

\* When a title ends, a worker that leaves its main loop abandons the stack and
\* the adapter instead of closing them.
TitleEndAbandons ==
  wpc \in {"netdown", "axdown"} /\ hook \in {"join", "exit"} => ending

\* "The AX worker is recreated cleanly across title transitions": the open of a
\* new worker is not refused because of the worker of an earlier title.
OpenNotRefused ==
  wpc = "open" => ~g_open

\* "At this late lifecycle point do not issue UHS CANCEL/DISABLE/RELEASE/CLOSE
\* requests": the adapter is not closed once the title is ending.
NoCloseWhileEnding ==
  [][client /\ ~client' /\ hook' # "none" => ~title_ending]_vars

\* "Do not use the title-transition warm PHY shortcut on the replacement
\* device": recover_adapter opens cold.
ColdReplacement ==
  wpc = "open" /\ recovering => phy_init_generation = 0

\* The heartbeat timers leave room in lwIP's timeout pool for lwIP's own.
TimerPoolSuffices == beats <= TimerHeadroom

\* A worker that is told to stop terminates.
WorkerStops == stopping ~> wpc = "none" \/ hook = "unloaded"

\* An adapter lost in the main loop and plugged in again is brought back.
AdapterRecovered ==
  wpc = "loop" /\ ~live ~> (wpc = "loop" /\ live) \/ ~present \/ stopping

\* "The AX88179 can be unplugged and reconnected while Aroma remains running.
\* The driver automatically ... restores networking": wherever the worker was
\* when the adapter was pulled out.
AdapterRecoveredAnywhere ==
  wpc = "poll" /\ ~live ~> (wpc = "loop" /\ live) \/ ~present \/ stopping

===============================================================================
