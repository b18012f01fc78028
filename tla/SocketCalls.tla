----------------------------- MODULE SocketCalls -----------------------------
(***************************************************************************)
(* What the socket calls of src/aroma_module/nsysnet_shim.c tell a title:  *)
(* the options kept beside lwIP's own (compat_sock), the error a thread    *)
(* reads with socketlasterr, the address an FTP server's listeners are     *)
(* bound to, the calls that move several datagrams, and select over the    *)
(* sockets of both stacks.                                                 *)
(*                                                                         *)
(* Descriptors stay open here: which socket a descriptor leads to is the   *)
(* subject of ShimSockets.  With Shared several threads use one socket for *)
(* the same calls at the same time; without it one thread sets the options *)
(* of every socket and one thread receives.                                *)
(***************************************************************************)
EXTENDS Integers, Sequences, FiniteSets

CONSTANTS Threads, Fds,    \* numbers
          Shared,          \* threads use each other's sockets
          CallSets,        \* what a title calls: the four parts share no state but errno
          Opts,            \* options it sets, of those below
          Values,          \* integers it sets them to
          MSS,
          Ips, NoIp,       \* IPv4 addresses; NoIp is 0, also INADDR_ANY
          AxIps,           \* those DHCP may give the adapter
          Count,           \* datagrams of one call
          MaxDatagrams,    \* bound: datagrams that arrive
          MaxCalls         \* bound: calls of one thread

ASSUME CallAssumption ==
  /\ Threads \subseteq Nat /\ Fds \subseteq Nat /\ Threads # {}
  /\ Shared \in BOOLEAN /\ Values \subseteq Int /\ MSS \in Nat \ {0}
  /\ AxIps \subseteq Ips /\ NoIp \notin Ips
  /\ Count \in Nat \ {0} /\ MaxDatagrams \in Nat /\ MaxCalls \in Nat
  /\ \A c \in CallSets : c \subseteq {"options", "bind", "recv", "nonblock", "send", "select"}

VARIABLES
  calls,                    \* of CallSets
  ax,                       \* sockets that lwIP serves: the others are native
  sol_flags, field, linger_on, linger_secs,      \* compat_sock
  lwopt,                    \* what lwIP itself holds
  errno, native_err,        \* of each thread: newlib's, and nsysnet's
  due,                      \* the error of its last call, as nsysnet numbers it
  told,                     \* what socketlasterr told it since, or <<>>
  seen,                     \* what getsockopt returned last
  ax_ip,                    \* ax_net_ip4
  ftp_native_bind_ip, ftp_ax_redirect_active,
  controlled, serving,      \* addresses FTP servers gave bind in this title; the last one bound
  bound,                    \* socket -> its last bind: see Unbound
  queue, arrived,           \* datagrams in the socket of the receiving calls
  ready,                    \* sockets on which their stack has something to report
  results, rc, sent,        \* of each thread's last call for several datagrams
  expired,                  \* its deadline has passed
  pc, arg, left

optVars == <<sol_flags, field, linger_on, linger_secs, lwopt, seen>>
errVars == <<errno, native_err, due, told>>
ftpVars == <<ax_ip, ftp_native_bind_ip, ftp_ax_redirect_active, controlled, serving, bound>>
multiVars == <<queue, arrived, ready, results, rc, sent, expired>>
vars == <<calls, ax, optVars, errVars, ftpVars, multiVars, pc, arg, left>>

-------------------------------------------------------------------------------
(* Errors.                                                                  *)

(* errno_to_nsn: nsysnet's numbers by position, some more by name, EIO for  *)
(* the rest.                                                                *)
errors == <<"0", "ENOBUFS", "ETIMEDOUT", "EISCONN", "EOPNOTSUPP", "ECONNABORTED", "EWOULDBLOCK",
            "ECONNREFUSED", "ECONNRESET", "ENOTCONN", "EALREADY", "EINVAL", "EMSGSIZE", "EPIPE",
            "EDESTADDRREQ", "ESHUTDOWN", "ENOPROTOOPT", "EBUSY", "ENOMEM", "EADDRNOTAVAIL",
            "EADDRINUSE", "EAFNOSUPPORT", "EINPROGRESS", "EIO", "ENOTSOCK">>
others == [EFAULT |-> 29, ENETUNREACH |-> 30, EPROTONOSUPPORT |-> 31, EPROTOTYPE |-> 32,
           ENODEV |-> 42, EBADF |-> 49, ECANCELED |-> 50, EMFILE |-> 51]
errno_to_nsn(e) ==
  CASE \E i \in DOMAIN errors : errors[i] = e -> (CHOOSE i \in DOMAIN errors : errors[i] = e) - 1
    [] e \in DOMAIN others -> others[e]
    [] OTHER -> 23

NoFields == [tcp_ackdelay |-> 0, tcp_noackdelay |-> 0, tcp_unknown |-> 0,
             tcp_maxseg |-> MSS, sndbuf |-> 8192, rcvbuf |-> 8192]
LwFresh == [SO_SNDBUF |-> 8192, SO_RCVBUF |-> 8192, FIONBIO |-> 0, SO_REUSEADDR |-> 0,
            SO_KEEPALIVE |-> 0, TCP_NODELAY |-> 0, IP_TOS |-> 0]

NoArg == [fd |-> 0, o |-> "", v |-> 0, w |-> 0, ip |-> NoIp, ax_ip |-> NoIp, i |-> 0,
          want |-> {}, got |-> {}, was |-> {}, still |-> {}]
(* asked and got: the addresses; ftp: it is an FTP server's passive listener *)
(* and its address has not changed meanwhile; ax: the adapter's address.     *)
Unbound == [asked |-> NoIp, got |-> NoIp, ftp |-> FALSE, ax |-> NoIp]
NoRc == [kind |-> "none", n |-> 0]

(* Sockets made while the adapter was coming up are native.                  *)
Backed == IF "select" \in calls THEN SUBSET Fds ELSE {Fds}

Init ==
  /\ calls \in CallSets /\ ax \in Backed
  /\ sol_flags = [f \in Fds |-> {}] /\ field = [f \in Fds |-> NoFields]
  /\ linger_on = [f \in Fds |-> 0] /\ linger_secs = [f \in Fds |-> 0]
  /\ lwopt = [f \in Fds |-> LwFresh]
  /\ errno = [t \in Threads |-> "0"] /\ native_err = [t \in Threads |-> 0]
  /\ due = [t \in Threads |-> 0] /\ told = [t \in Threads |-> <<>>]
  /\ seen = [t \in Threads |-> <<>>]
  /\ ax_ip \in AxIps
  /\ ftp_native_bind_ip = NoIp /\ ftp_ax_redirect_active = FALSE
  /\ controlled = {} /\ serving = "none" /\ bound = [f \in Fds |-> Unbound]
  /\ queue = <<>> /\ arrived = 0 /\ ready = {}
  /\ results = [t \in Threads |-> <<>>] /\ rc = [t \in Threads |-> NoRc]
  /\ sent = [t \in Threads |-> 0]
  /\ expired = [t \in Threads |-> FALSE]
  /\ pc = [t \in Threads |-> "idle"] /\ arg = [t \in Threads |-> NoArg]
  /\ left = [t \in Threads |-> MaxCalls]

Bit(b) == IF b THEN 1 ELSE 0
Alone(t) == Shared \/ \A u \in Threads : t <= u
At(t, p) == pc[t] = p
Goto(t, p) == pc' = [pc EXCEPT ![t] = p]

(* A call begins with errno = 0; told is what socketlasterr said after the   *)
(* last one.                                                                *)
Enter(t, kind) ==
  /\ At(t, "idle") /\ kind \in calls /\ left[t] > 0
  /\ left' = [left EXCEPT ![t] = @ - 1]
Return(t, e) ==
  /\ errno' = [errno EXCEPT ![t] = e]
  /\ due' = [due EXCEPT ![t] = errno_to_nsn(e)]
  /\ told' = [told EXCEPT ![t] = <<>>]
  /\ Goto(t, "idle") /\ arg' = [arg EXCEPT ![t] = NoArg]
  /\ UNCHANGED native_err

(* Any call on a native socket: errno only marks that nsysnet has the error. *)
NativeCall(t, fd, n) ==
  /\ Enter(t, "options") /\ Alone(t) /\ fd \notin ax
  /\ errno' = [errno EXCEPT ![t] = "native"]
  /\ native_err' = [native_err EXCEPT ![t] = n]
  /\ due' = [due EXCEPT ![t] = n]
  /\ told' = [told EXCEPT ![t] = <<>>]
  /\ UNCHANGED <<calls, ax, optVars, ftpVars, multiVars, pc, arg>>

(* socketlasterr, with force_native off.                                    *)
socketlasterr(t) ==
  /\ At(t, "idle") /\ told[t] = <<>>
  /\ told' = [told EXCEPT ![t] =
                <<IF errno[t] = "native" THEN native_err[t] ELSE errno_to_nsn(errno[t])>>]
  /\ UNCHANGED <<calls, ax, optVars, errno, native_err, due, ftpVars, multiVars, pc, arg, left>>

-------------------------------------------------------------------------------
(* Options.                                                                 *)

Flags == {"DONTROUTE", "OOBINLINE", "TCPSACK", "WINSCALE"}
FieldOf == [ACKDELAYTIME |-> "tcp_ackdelay", NOACKDELAY |-> "tcp_noackdelay",
            UNKNOWN |-> "tcp_unknown", MAXSEG |-> "tcp_maxseg", MAXMSG |-> "tcp_maxseg",
            SNDBUF |-> "sndbuf", RCVBUF |-> "rcvbuf"]
Buffers == [SNDBUF |-> "SO_SNDBUF", RCVBUF |-> "SO_RCVBUF"]
(* socket_opt_to_lwip, ip_opt_to_lwip, tcp_opt_to_lwip                       *)
Translated == [REUSEADDR |-> "SO_REUSEADDR", KEEPALIVE |-> "SO_KEEPALIVE",
               NODELAY |-> "TCP_NODELAY", IP_TOS |-> "IP_TOS"]
NoSetter == {"SNDLOWAT", "RCVLOWAT", "RXDATA", "TXDATA", "MYADDR", "HOPCNT", "RUSRBUF"}
NoGetter == {"NBIO", "BIO", "NOSLOWSTART", "RUSRBUF"}

SetsockoptEnter(t, fd, o) == Enter(t, "options") /\ Alone(t) /\ fd \in ax /\ o \in Opts

(* socket(): a fresh socket on either stack.                                 *)
Reopen(t, fd, on_ax) ==
  /\ Enter(t, "options") /\ Alone(t)
  /\ \A u \in Threads : arg[u].fd # fd
  /\ ax' = IF on_ax THEN ax \cup {fd} ELSE ax \ {fd}
  /\ sol_flags' = [sol_flags EXCEPT ![fd] = {}] /\ field' = [field EXCEPT ![fd] = NoFields]
  /\ linger_on' = [linger_on EXCEPT ![fd] = 0] /\ linger_secs' = [linger_secs EXCEPT ![fd] = 0]
  /\ lwopt' = [lwopt EXCEPT ![fd] = LwFresh]
  /\ Return(t, "0")
  /\ UNCHANGED <<calls, seen, ftpVars, multiVars>>

CompatFlagStore(t, fd, o, v) ==
  /\ SetsockoptEnter(t, fd, o) /\ o \in Flags
  /\ sol_flags' = [sol_flags EXCEPT ![fd] = IF v # 0 THEN {o} ELSE {}]
  /\ Return(t, "0")
  /\ UNCHANGED <<calls, ax, field, linger_on, linger_secs, lwopt, seen, ftpVars, multiVars>>

(* compat_flag_set: an atomic or, or an atomic and.                          *)
CompatFlagSet(t, fd, o, v) ==
  /\ SetsockoptEnter(t, fd, o) /\ o \in Flags
  /\ sol_flags' = [sol_flags EXCEPT ![fd] = IF v # 0 THEN @ \cup {o} ELSE @ \ {o}]
  /\ Return(t, "0")
  /\ UNCHANGED <<calls, ax, field, linger_on, linger_secs, lwopt, seen, ftpVars, multiVars>>

SetField(t, fd, o, v) ==
  /\ SetsockoptEnter(t, fd, o) /\ o \in DOMAIN FieldOf \ DOMAIN Buffers
  /\ o \in {"MAXSEG", "MAXMSG"} => v > 0
  /\ field' = [field EXCEPT ![fd][FieldOf[o]] = v]
  /\ Return(t, "0")
  /\ UNCHANGED <<calls, ax, sol_flags, linger_on, linger_secs, lwopt, seen, ftpVars, multiVars>>

(* The buffer sizes go to lwIP first (a negative SO_SNDBUF does not) ...     *)
SetBuffer(t, fd, o, v) ==
  /\ SetsockoptEnter(t, fd, o) /\ o \in DOMAIN Buffers /\ v <= 65535
  /\ lwopt' = IF o = "SNDBUF" /\ v < 0 THEN lwopt ELSE [lwopt EXCEPT ![fd][Buffers[o]] = v]
  /\ arg' = [arg EXCEPT ![t] = [NoArg EXCEPT !.fd = fd, !.o = o, !.v = v]]
  /\ Goto(t, "mirror")
  /\ UNCHANGED <<calls, ax, sol_flags, field, linger_on, linger_secs, seen, errVars, ftpVars, multiVars>>

(* ... and are kept for getsockopt after that.                               *)
MirrorBuffer(t) ==
  /\ At(t, "mirror")
  /\ field' = [field EXCEPT ![arg[t].fd][FieldOf[arg[t].o]] = arg[t].v]
  /\ Return(t, "0")
  /\ UNCHANGED <<calls, ax, sol_flags, linger_on, linger_secs, lwopt, seen, ftpVars, multiVars, left>>

(* SO_LINGER: two stores.                                                    *)
SetLinger(t, fd, on, secs) ==
  /\ SetsockoptEnter(t, fd, "LINGER") /\ secs >= 0
  /\ linger_on' = [linger_on EXCEPT ![fd] = on]
  /\ arg' = [arg EXCEPT ![t] = [NoArg EXCEPT !.fd = fd, !.v = secs]]
  /\ Goto(t, "linger")
  /\ UNCHANGED <<calls, ax, sol_flags, field, linger_secs, lwopt, seen, errVars, ftpVars, multiVars>>

SetLingerSecs(t) ==
  /\ At(t, "linger")
  /\ linger_secs' = [linger_secs EXCEPT ![arg[t].fd] = arg[t].v]
  /\ Return(t, "0")
  /\ UNCHANGED <<calls, ax, sol_flags, field, linger_on, lwopt, seen, ftpVars, multiVars, left>>

(* set_nonblocking: SO_NBIO and SO_BIO ignore the value.                     *)
SetNonblocking(t, fd, o, v) ==
  /\ SetsockoptEnter(t, fd, o) /\ o \in {"NBIO", "BIO", "NONBLOCK"}
  /\ lwopt' = [lwopt EXCEPT ![fd].FIONBIO = Bit(o = "NBIO" \/ (o = "NONBLOCK" /\ v # 0))]
  /\ Return(t, "0")
  /\ UNCHANGED <<calls, ax, sol_flags, field, linger_on, linger_secs, seen, ftpVars, multiVars>>

SetTranslated(t, fd, o, v) ==
  /\ SetsockoptEnter(t, fd, o) /\ o \in DOMAIN Translated
  /\ o = "IP_TOS" => v \in 0 .. 255
  /\ lwopt' = [lwopt EXCEPT ![fd][Translated[o]] = IF o = "IP_TOS" THEN v ELSE Bit(v # 0)]
  /\ Return(t, "0")
  /\ UNCHANGED <<calls, ax, sol_flags, field, linger_on, linger_secs, seen, ftpVars, multiVars>>

(* The value is not one the option takes, or the option cannot be set; a     *)
(* hint is taken and forgotten.                                              *)
SetNothing(t, fd, o, v) ==
  /\ SetsockoptEnter(t, fd, o)
  /\ \/ o \in DOMAIN Buffers /\ v > 65535 /\ Return(t, "EINVAL")
     \/ o \in {"MAXSEG", "MAXMSG"} /\ v <= 0 /\ Return(t, "EINVAL")
     \/ o \in NoSetter /\ Return(t, "ENOPROTOOPT")
     \/ o = "NOSLOWSTART" /\ Return(t, "0")
  /\ UNCHANGED <<calls, ax, optVars, ftpVars, multiVars>>

(* getsockopt: from the shim's copy or from lwIP.                            *)
Getsockopt(t, fd, o) ==
  /\ SetsockoptEnter(t, fd, o) /\ o \notin NoGetter \cup {"LINGER", "TXDATA", "RXDATA", "MYADDR"}
  /\ seen' = [seen EXCEPT ![t] =
                CASE o \in Flags -> <<Bit(o \in sol_flags[fd])>>
                  [] o \in DOMAIN FieldOf -> <<field[fd][FieldOf[o]]>>
                  [] o \in DOMAIN Translated -> <<lwopt[fd][Translated[o]]>>
                  [] o = "NONBLOCK" -> <<lwopt[fd].FIONBIO>>
                  [] OTHER -> <<0>>]
  /\ Return(t, "0")
  /\ UNCHANGED <<calls, ax, sol_flags, field, linger_on, linger_secs, lwopt, ftpVars, multiVars>>

GetNothing(t, fd, o) ==
  /\ SetsockoptEnter(t, fd, o) /\ o \in NoGetter
  /\ Return(t, "ENOPROTOOPT")
  /\ UNCHANGED <<calls, ax, optVars, ftpVars, multiVars>>

(* SO_LINGER: two loads.                                                     *)
GetLinger(t, fd) ==
  /\ SetsockoptEnter(t, fd, "LINGER")
  /\ arg' = [arg EXCEPT ![t] = [NoArg EXCEPT !.fd = fd, !.w = linger_on[fd]]]
  /\ Goto(t, "get_secs")
  /\ UNCHANGED <<calls, ax, optVars, errVars, ftpVars, multiVars>>

GetLingerSecs(t) ==
  /\ At(t, "get_secs")
  /\ seen' = [seen EXCEPT ![t] = <<arg[t].w, linger_secs[arg[t].fd]>>]
  /\ Return(t, "0")
  /\ UNCHANGED <<calls, ax, sol_flags, field, linger_on, linger_secs, lwopt, ftpVars, multiVars, left>>

-------------------------------------------------------------------------------
(* bind, for an FTP server, and getsockname.  Every other bind keeps its    *)
(* address.                                                                 *)

(* The server's address is ip and is not changing.                          *)
Steady(ip) == serving = ip /\ ~\E u \in Threads : pc[u] = "redirect"
Bind(fd, ip, got, ftp, ax0) == bound' = [bound EXCEPT ![fd] = [asked |-> ip, got |-> got, ftp |-> ftp, ax |-> ax0]]

(* Port 21: the server's address is kept first, the redirection switched on *)
(* after that, and the listener itself gets the adapter's address.  A title *)
(* has one FTP server.                                                      *)
BindControl(t, fd, ip) ==
  /\ Enter(t, "bind") /\ t = fd /\ fd \in ax /\ ax_ip # NoIp
  /\ \A u \in Threads : pc[u] # "redirect"
  /\ ftp_native_bind_ip' = ip
  /\ controlled' = controlled \cup {ip}
  /\ arg' = [arg EXCEPT ![t] = [NoArg EXCEPT !.fd = fd, !.ip = ip, !.ax_ip = ax_ip]]
  /\ Goto(t, "redirect")
  /\ UNCHANGED <<calls, ax, optVars, errVars, ax_ip, ftp_ax_redirect_active, serving, bound, multiVars>>

BindRedirect(t) ==
  /\ At(t, "redirect")
  /\ ftp_ax_redirect_active' = TRUE
  /\ serving' = arg[t].ip
  /\ Bind(arg[t].fd, arg[t].ip, arg[t].ax_ip, TRUE, arg[t].ax_ip)
  /\ Return(t, "0")
  /\ UNCHANGED <<calls, ax, optVars, ax_ip, ftp_native_bind_ip, controlled, multiVars, left>>

(* Port 0 with no redirection, or with no address to redirect to.           *)
BindPlain(t, fd, ip) ==
  /\ Enter(t, "bind") /\ t = fd /\ fd \in ax
  /\ ax_ip = NoIp \/ ~ftp_ax_redirect_active
  /\ Bind(fd, ip, ip, Steady(ip), ax_ip)
  /\ Return(t, "0")
  /\ UNCHANGED <<calls, ax, optVars, ax_ip, ftp_native_bind_ip, ftp_ax_redirect_active, controlled,
                 serving, multiVars>>

BindPassive(t, fd, ip) ==
  /\ Enter(t, "bind") /\ t = fd /\ fd \in ax
  /\ ax_ip # NoIp /\ ftp_ax_redirect_active
  /\ arg' = [arg EXCEPT ![t] = [NoArg EXCEPT !.fd = fd, !.ip = ip, !.ax_ip = ax_ip, !.w = Bit(Steady(ip))]]
  /\ Goto(t, "compare")
  /\ UNCHANGED <<calls, ax, optVars, errVars, ftpVars, multiVars>>

BindCompareNothing(t) ==
  /\ At(t, "compare")
  /\ Bind(arg[t].fd, arg[t].ip, arg[t].ax_ip, arg[t].w = 1 /\ Steady(arg[t].ip), arg[t].ax_ip)
  /\ Return(t, "0")
  /\ UNCHANGED <<calls, ax, optVars, ax_ip, ftp_native_bind_ip, ftp_ax_redirect_active, controlled,
                 serving, multiVars, left>>

(* The server's own address becomes the adapter's.                          *)
BindCompare(t) ==
  /\ At(t, "compare")
  /\ Bind(arg[t].fd, arg[t].ip,
          IF arg[t].ip = ftp_native_bind_ip THEN arg[t].ax_ip ELSE arg[t].ip,
          arg[t].w = 1 /\ Steady(arg[t].ip), arg[t].ax_ip)
  /\ Return(t, "0")
  /\ UNCHANGED <<calls, ax, optVars, ax_ip, ftp_native_bind_ip, ftp_ax_redirect_active, controlled,
                 serving, multiVars, left>>

(* getsockname of a socket bound to INADDR_ANY asks getpeername whether it  *)
(* is connected, and drops the error of a socket that is not.               *)
Getsockname(t, fd) ==
  /\ Enter(t, "options") /\ Alone(t) /\ fd \in ax
  /\ Return(t, "0")
  /\ UNCHANGED <<calls, ax, optVars, ftpVars, multiVars>>

(* getpeername of a socket that is not connected.                           *)
GetpeernameFails(t, fd) ==
  /\ Enter(t, "options") /\ Alone(t) /\ fd \in ax
  /\ Return(t, "ENOTCONN")
  /\ UNCHANGED <<calls, ax, optVars, ftpVars, multiVars>>

(* DHCP.                                                                    *)
AddressChanges(ip) ==
  /\ "bind" \in calls /\ ax_ip' = ip
  /\ UNCHANGED <<calls, ax, optVars, errVars, ftp_native_bind_ip, ftp_ax_redirect_active, controlled,
                 serving, bound, multiVars, pc, arg, left>>

(* begin_title after the last title's threads and sockets are gone.         *)
NextTitle ==
  /\ ax' \in Backed
  /\ sol_flags' = [f \in Fds |-> {}] /\ field' = [f \in Fds |-> NoFields]
  /\ linger_on' = [f \in Fds |-> 0] /\ linger_secs' = [f \in Fds |-> 0]
  /\ lwopt' = [f \in Fds |-> LwFresh] /\ seen' = [t \in Threads |-> <<>>]
  /\ errno' = [t \in Threads |-> "0"] /\ native_err' = [t \in Threads |-> 0]
  /\ due' = [t \in Threads |-> 0] /\ told' = [t \in Threads |-> <<>>]
  /\ ftp_native_bind_ip' = NoIp /\ ftp_ax_redirect_active' = FALSE
  /\ controlled' = {} /\ serving' = "none" /\ bound' = [f \in Fds |-> Unbound]
  /\ queue' = <<>> /\ arrived' = 0 /\ ready' = {} /\ results' = [t \in Threads |-> <<>>]
  /\ rc' = [t \in Threads |-> NoRc] /\ sent' = [t \in Threads |-> 0]
  /\ expired' = [t \in Threads |-> FALSE]
  /\ pc' = [t \in Threads |-> "idle"] /\ arg' = [t \in Threads |-> NoArg]
  /\ left' = [t \in Threads |-> MaxCalls]
  /\ UNCHANGED <<calls, ax_ip>>

-------------------------------------------------------------------------------
(* recvfrom_multi and sendto_multi_ex, on one socket that threads may       *)
(* share; a datagram is one byte.  Buffers that are not aligned, or too     *)
(* small, are refused before anything else happens.                         *)

Receives(t) == "nonblock" \in calls \/ Alone(t)
Result(t, n) == results' = [results EXCEPT ![t][arg[t].i] = n]
NextDatagram(t) == arg' = [arg EXCEPT ![t].i = @ + 1]
ReturnCount(t, n, e) ==
  /\ rc' = [rc EXCEPT ![t].n = n]
  /\ Return(t, e)
  /\ expired' = [expired EXCEPT ![t] = FALSE]

EnterMulti(t, kind, p, timed) ==
  /\ Enter(t, kind)
  /\ results' = [results EXCEPT ![t] = [i \in 1 .. Count |-> 0]]
  /\ rc' = [rc EXCEPT ![t] = [kind |-> kind, n |-> 0]] /\ sent' = [sent EXCEPT ![t] = 0]
  /\ arg' = [arg EXCEPT ![t] = [NoArg EXCEPT !.i = 1, !.w = Bit(timed)]]
  /\ Goto(t, p)
  /\ UNCHANGED <<calls, ax, optVars, errVars, ftpVars, queue, arrived, ready, expired>>

recvfrom_multi(t, timed) == Receives(t) /\ EnterMulti(t, "recv", "recv", timed)
sendto_multi_ex(t) == EnterMulti(t, "send", "sendto", FALSE)

MultiRefused(t) ==
  /\ Enter(t, "send")
  /\ results' = [results EXCEPT ![t] = <<>>]
  /\ rc' = [rc EXCEPT ![t] = [kind |-> "none", n |-> -1]]
  /\ Return(t, "EINVAL")
  /\ UNCHANGED <<calls, ax, optVars, ftpVars, queue, arrived, ready, sent, expired>>

RecvAll(t) ==
  /\ At(t, "recv") /\ arg[t].i > Count
  /\ ReturnCount(t, Count, "0")
  /\ UNCHANGED <<calls, ax, optVars, ftpVars, queue, arrived, ready, results, sent, left>>

RecvDeadlineOnce(t) ==
  /\ arg[t].w = 1 /\ expired[t] /\ arg[t].i <= Count
  /\ At(t, "recv")
  /\ Result(t, -1)
  /\ ReturnCount(t, arg[t].i - 1, "0")
  /\ UNCHANGED <<calls, ax, optVars, ftpVars, queue, arrived, ready, sent, left>>

(* The deadline has passed before the next datagram, or in lwip_select.      *)
RecvDeadline(t) ==
  /\ arg[t].w = 1 /\ expired[t] /\ arg[t].i <= Count
  /\ At(t, "recv") \/ (At(t, "select") /\ queue = <<>>)
  /\ Result(t, -1)
  /\ ReturnCount(t, arg[t].i - 1, "0")
  /\ UNCHANGED <<calls, ax, optVars, ftpVars, queue, arrived, ready, sent, left>>

RecvWait(t) ==
  /\ At(t, "recv") /\ arg[t].i <= Count
  /\ arg[t].w = 1 => ~expired[t]
  /\ Goto(t, IF arg[t].w = 1 THEN "select" ELSE "take")
  /\ UNCHANGED <<calls, ax, optVars, errVars, ftpVars, multiVars, arg, left>>

RecvReady(t) ==
  /\ At(t, "select") /\ queue # <<>>
  /\ Goto(t, "take")
  /\ UNCHANGED <<calls, ax, optVars, errVars, ftpVars, multiVars, arg, left>>

RecvTake(t) ==
  /\ At(t, "take") /\ queue # <<>>
  /\ Result(t, Head(queue))
  /\ queue' = Tail(queue)
  /\ NextDatagram(t)
  /\ Goto(t, "recv")
  /\ UNCHANGED <<calls, ax, optVars, errVars, ftpVars, arrived, ready, rc, sent, expired, left>>

(* EWOULDBLOCK ends the call without an error.                               *)
RecvNone(t) ==
  /\ At(t, "take") /\ queue = <<>> /\ "nonblock" \in calls
  /\ Result(t, -1)
  /\ ReturnCount(t, arg[t].i - 1, "0")
  /\ UNCHANGED <<calls, ax, optVars, ftpVars, queue, arrived, ready, sent, left>>


(* lwip_select or lwip_recvfrom fails: -1 only when there is nothing to      *)
(* return.                                                                   *)
RecvFails(t) ==
  /\ pc[t] \in {"select", "take"}
  /\ Result(t, -1)
  /\ ReturnCount(t, IF arg[t].i = 1 THEN -1 ELSE arg[t].i - 1, "ENOBUFS")
  /\ UNCHANGED <<calls, ax, optVars, ftpVars, queue, arrived, ready, sent, left>>

SendOne(t) ==
  /\ At(t, "sendto") /\ arg[t].i <= Count
  /\ Result(t, 1)
  /\ sent' = [sent EXCEPT ![t] = @ + 1]
  /\ NextDatagram(t)
  /\ UNCHANGED <<calls, ax, optVars, errVars, ftpVars, queue, arrived, ready, rc, expired, pc, left>>

(* The destination is no IPv4 address, or lwip_sendto fails.                 *)
SendFails(t, e) ==
  /\ At(t, "sendto") /\ arg[t].i <= Count
  /\ Result(t, -1)
  /\ ReturnCount(t, -1, e)
  /\ UNCHANGED <<calls, ax, optVars, ftpVars, queue, arrived, ready, sent, left>>

SendAll(t) ==
  /\ At(t, "sendto") /\ arg[t].i > Count
  /\ ReturnCount(t, Count, "0")
  /\ UNCHANGED <<calls, ax, optVars, ftpVars, queue, arrived, ready, results, sent, left>>

Arrive ==
  /\ "recv" \in calls /\ arrived < MaxDatagrams
  /\ arrived' = arrived + 1
  /\ queue' = Append(queue, arrived')
  /\ UNCHANGED <<calls, ax, optVars, errVars, ftpVars, ready, results, rc, sent, expired, pc, arg, left>>

-------------------------------------------------------------------------------
(* select.  The three sets are treated alike, so they are one here.  A set   *)
(* of one stack's sockets is left to that stack, which waits; a mixed one is *)
(* polled on both until something fires or the deadline passes.              *)

Selecting == {"native", "lwip", "poll_native", "poll_lwip", "sleep"}

select(t, want, timed) ==
  /\ Enter(t, "select") /\ Alone(t)
  /\ arg' = [arg EXCEPT ![t] = [NoArg EXCEPT !.want = want, !.w = Bit(timed),
                                             !.was = ready, !.still = ready]]
  /\ Goto(t, IF want \cap ax = {} THEN "native" ELSE IF want \subseteq ax THEN "lwip" ELSE "poll_native")
  /\ rc' = [rc EXCEPT ![t] = NoRc]
  /\ UNCHANGED <<calls, ax, optVars, errVars, ftpVars, queue, arrived, ready, results, sent, expired>>

SelectRefused(t) ==
  /\ Enter(t, "select") /\ Alone(t)
  /\ rc' = [rc EXCEPT ![t] = NoRc]
  /\ Return(t, "EINVAL")
  /\ UNCHANGED <<calls, ax, optVars, ftpVars, queue, arrived, ready, results, sent, expired>>

(* What the title gets: the count and its set, with the sockets that were    *)
(* ready at some time of the call, and at all times.                         *)
SelectResult(t, n, got) ==
  /\ rc' = [rc EXCEPT ![t] = [kind |-> "select", n |-> n, want |-> arg[t].want, got |-> got,
                              was |-> arg[t].was, still |-> arg[t].still]]
  /\ expired' = [expired EXCEPT ![t] = FALSE]
  /\ UNCHANGED <<calls, ax, optVars, ftpVars, queue, arrived, ready, results, sent, left>>
SelectReturn(t, got) == SelectResult(t, Cardinality(got), got) /\ Return(t, "0")
ReturnNative(t, n) ==
  /\ errno' = [errno EXCEPT ![t] = "native"] /\ native_err' = [native_err EXCEPT ![t] = n]
  /\ due' = [due EXCEPT ![t] = n] /\ told' = [told EXCEPT ![t] = <<>>]
  /\ Goto(t, "idle") /\ arg' = [arg EXCEPT ![t] = NoArg]

(* One stack waits for something to report, or for the time to pass.         *)
Reports(t, S) == arg[t].want \cap S \cap ready
SelectOne(t) ==
  /\ At(t, "native") \/ At(t, "lwip")
  /\ Reports(t, Fds) # {} \/ (arg[t].w = 1 /\ expired[t])
  /\ SelectResult(t, Cardinality(Reports(t, Fds)), Reports(t, Fds))
  /\ IF At(t, "native") THEN ReturnNative(t, 0) ELSE Return(t, "0")

PollNative(t) ==
  /\ At(t, "poll_native")
  /\ arg' = [arg EXCEPT ![t].got = Reports(t, Fds \ ax)]
  /\ Goto(t, "poll_lwip")
  /\ UNCHANGED <<calls, ax, optVars, errVars, ftpVars, multiVars, left>>

PollLwip(t) ==
  /\ At(t, "poll_lwip")
  /\ LET got == arg[t].got \cup Reports(t, ax) IN
     IF got # {} THEN SelectReturn(t, got)
     ELSE Goto(t, "sleep") /\ UNCHANGED <<calls, ax, optVars, errVars, ftpVars, multiVars, arg, left>>

(* Both had nothing: the deadline, or two milliseconds more.                 *)
PollAgain(t) ==
  /\ At(t, "sleep")
  /\ IF arg[t].w = 1 /\ expired[t] THEN SelectReturn(t, {})
     ELSE Goto(t, "poll_native") /\ UNCHANGED <<calls, ax, optVars, errVars, ftpVars, multiVars, arg, left>>

(* Either stack refuses; the title's sets stay as they were.                 *)
SelectFails(t) ==
  /\ pc[t] \in Selecting \ {"sleep"}
  /\ SelectResult(t, -1, arg[t].want)
  /\ IF pc[t] \in {"native", "poll_native"} THEN ReturnNative(t, 11) ELSE Return(t, "ENOMEM")

(* Data or room comes, or another thread takes it.                           *)
ReadyChanges(fd) ==
  /\ "select" \in calls
  /\ ready' = IF fd \in ready THEN ready \ {fd} ELSE ready \cup {fd}
  /\ arg' = [t \in Threads |-> IF pc[t] \notin Selecting THEN arg[t]
                               ELSE [arg[t] EXCEPT !.was = @ \cup ready', !.still = @ \cap ready']]
  /\ UNCHANGED <<calls, ax, optVars, errVars, ftpVars, queue, arrived, results, rc, sent, expired, pc, left>>

-------------------------------------------------------------------------------
(* A deadline passes.                                                        *)
Expire(t) ==
  /\ arg[t].w = 1 /\ pc[t] \in {"recv", "select", "take"} \cup Selecting /\ ~expired[t]
  /\ expired' = [expired EXCEPT ![t] = TRUE]
  /\ UNCHANGED <<calls, ax, optVars, errVars, ftpVars, queue, arrived, ready, results, rc, sent, pc, arg, left>>

-------------------------------------------------------------------------------
CallStep(t) ==
  \/ MirrorBuffer(t) \/ SetLingerSecs(t) \/ GetLingerSecs(t)
  \/ BindRedirect(t) \/ BindCompare(t)
  \/ RecvAll(t) \/ RecvDeadline(t) \/ RecvWait(t) \/ RecvReady(t) \/ RecvTake(t)
  \/ RecvNone(t)
  \/ SendOne(t) \/ SendAll(t)
  \/ SelectOne(t) \/ PollNative(t) \/ PollLwip(t) \/ PollAgain(t)

OptionCall(t, fd) ==
  \/ \E n \in {0, 11} : NativeCall(t, fd, n)
  \/ \E b \in BOOLEAN : Reopen(t, fd, b)
  \/ \E o \in Opts :
       \/ \E v \in Values : \/ CompatFlagSet(t, fd, o, v) \/ SetField(t, fd, o, v)
                            \/ SetBuffer(t, fd, o, v) \/ SetNonblocking(t, fd, o, v)
                            \/ SetTranslated(t, fd, o, v) \/ SetNothing(t, fd, o, v)
       \/ Getsockopt(t, fd, o) \/ GetNothing(t, fd, o)
  \/ \E on \in {0, 1}, secs \in Values : SetLinger(t, fd, on, secs)
  \/ GetLinger(t, fd)
  \/ Getsockname(t, fd) \/ GetpeernameFails(t, fd)

Call(t) ==
  \/ "options" \in calls /\ At(t, "idle") /\ \E fd \in Fds : OptionCall(t, fd)
  \/ \E fd \in Fds, ip \in Ips \cup {NoIp} :
       BindControl(t, fd, ip) \/ BindPlain(t, fd, ip) \/ BindPassive(t, fd, ip)
  \/ socketlasterr(t)
  \/ (\E timed \in BOOLEAN : recvfrom_multi(t, timed)) \/ sendto_multi_ex(t) \/ MultiRefused(t)
  \/ (\E want \in SUBSET Fds, timed \in BOOLEAN : select(t, want, timed)) \/ SelectRefused(t)

Next ==
  \/ \E t \in Threads :
       CallStep(t) \/ Call(t) \/ RecvFails(t) \/ SelectFails(t) \/ Expire(t)
         \/ \E e \in {"EAFNOSUPPORT", "ENOBUFS"} : SendFails(t, e)
  \/ \E ip \in AxIps \cup {NoIp} : AddressChanges(ip)
  \/ NextTitle \/ Arrive \/ \E fd \in Fds : ReadyChanges(fd)

(* Threads run, and time passes.                                             *)
Fairness == \A t \in Threads : WF_vars(CallStep(t)) /\ WF_vars(Expire(t))
Spec == Init /\ [][Next]_vars /\ Fairness

-------------------------------------------------------------------------------
(* Properties.                                                               *)

TypeOK ==
  /\ ax \subseteq Fds /\ sol_flags \in [Fds -> SUBSET Flags]
  /\ linger_on \in [Fds -> {0, 1}] /\ \A f \in Fds : linger_secs[f] \in Values \cup {0}
  /\ ftp_ax_redirect_active \in BOOLEAN /\ ax_ip \in AxIps \cup {NoIp}
  /\ \A t \in Threads : rc[t].n \in -1 .. Count /\ left[t] \in 0 .. MaxCalls

(* The title sees the options of a native socket: what it sets it gets back, *)
(* and no option of one socket changes with another, although they are kept  *)
(* in a mask, in single words, in a pair of words and inside lwIP.           *)
Pending(f) == {t \in Threads : pc[t] = "linger" /\ arg[t].fd = f}
OptSeen(f) ==
  [o \in {"DONTROUTE", "OOBINLINE", "TCPSACK", "WINSCALE", "NONBLOCK", "REUSEADDR", "KEEPALIVE", "NODELAY",
          "SNDBUF", "RCVBUF", "MAXSEG", "ACKDELAYTIME", "NOACKDELAY", "UNKNOWN", "IP_TOS",
          "SNDLOWAT", "RCVLOWAT", "HOPCNT", "LINGER"} |->
     CASE o \in Flags -> <<Bit(o \in sol_flags[f])>>
       [] o \in DOMAIN FieldOf -> <<field[f][FieldOf[o]]>>
       [] o \in DOMAIN Translated -> <<lwopt[f][Translated[o]]>>
       [] o = "NONBLOCK" -> <<lwopt[f].FIONBIO>>
       [] o = "LINGER" -> <<linger_on[f], IF Pending(f) = {} THEN linger_secs[f]
                                          ELSE arg[CHOOSE t \in Pending(f) : TRUE].v>>
       [] OTHER -> <<0>>]
Native == INSTANCE NativeOptions WITH opt <- [f \in Fds |-> OptSeen(f)]
ImplementsNative == Native!Spec

(* While no setsockopt is under way, the buffer sizes a title reads are the  *)
(* ones lwIP works with.                                                     *)
BufferMirrors ==
  \A f \in Fds : (\A t \in Threads : pc[t] # "mirror" \/ arg[t].fd # f) =>
    /\ field[f].rcvbuf = lwopt[f].SO_RCVBUF
    /\ field[f].sndbuf >= 0 => field[f].sndbuf = lwopt[f].SO_SNDBUF

(* socketlasterr tells a thread the error of its own last call, from the     *)
(* stack that served it, in nsysnet's numbers; none of the shim's internal   *)
(* calls shows.                                                              *)
LastErrorIsOwn ==
  \A t \in Threads : told[t] # <<>> => told[t] = <<due[t]>>

(* A listener of an FTP server behind the adapter is bound to the            *)
(* adapter's address, and no other socket is: not one with another address,  *)
(* and not one of a title that has no FTP server.                            *)
RewriteIsFtp ==
  \A f \in Fds :
    /\ bound[f].got # bound[f].asked => bound[f].asked \in controlled
    /\ bound[f].ftp /\ bound[f].ax # NoIp /\ bound[f].asked \in controlled => bound[f].got = bound[f].ax

(* select answers as one stack would, although the sets are looked at one    *)
(* after the other: it reports only sockets that were ready during the call  *)
(* and every one that was ready all along, and its count is theirs; the sets *)
(* survive a failure.                                                        *)
SelectIsWhole ==
  \A t \in Threads : rc[t].kind = "select" =>
    IF rc[t].n = -1 THEN rc[t].got = rc[t].want
    ELSE /\ rc[t].want \cap rc[t].still \subseteq rc[t].got
         /\ rc[t].got \subseteq rc[t].want \cap rc[t].was
         /\ rc[t].n = Cardinality(rc[t].got)


(* recvfrom_multi and select with a timeout return once the time is over,    *)
(* whatever arrives or not; and "waiting inside either stack would ignore    *)
(* the other half and hang the title": select returns when one of its        *)
(* sockets stays ready, with or without a timeout.                           *)
CallEnds ==
  \A t \in Threads :
    /\ (pc[t] \in {"recv"} \cup Selecting /\ arg[t].w = 1) ~> pc[t] = "idle"
    /\ \A fd \in Fds : ~<>[](pc[t] \in Selecting /\ fd \in arg[t].want \cap ready)

===============================================================================
