---------------------------- MODULE NativeOptions ----------------------------
(***************************************************************************)
(* Socket options as a title sees them on the native stack: every socket   *)
(* has one value per option, setting one changes no other, getting one     *)
(* returns what was set last.  The comments of setsockopt and getsockopt   *)
(* in src/aroma_module/nsysnet_shim.c state this as measured on a console. *)
(***************************************************************************)
EXTENDS Integers

CONSTANTS Threads, Fds, Values, MSS

(* SO_MAXMSG is another name of TCP_MAXSEG; SO_NBIO and SO_BIO set what      *)
(* SO_NONBLOCK reads.                                                       *)
Flags == {"DONTROUTE", "OOBINLINE", "TCPSACK", "WINSCALE"}
Switches == Flags \cup {"NONBLOCK", "REUSEADDR", "KEEPALIVE", "NODELAY"}
Numbers == {"SNDBUF", "RCVBUF", "MAXSEG", "ACKDELAYTIME", "NOACKDELAY", "UNKNOWN", "IP_TOS"}
ReadOnly == {"SNDLOWAT", "RCVLOWAT", "HOPCNT"}
Options == Switches \cup Numbers \cup ReadOnly \cup {"LINGER"}

VARIABLES opt,    \* socket -> option -> value, as a tuple of its words
          seen    \* thread -> what its last getsockopt returned

Fresh == [o \in Options |->
            CASE o \in {"SNDBUF", "RCVBUF"} -> <<8192>>
              [] o = "MAXSEG" -> <<MSS>>
              [] o = "LINGER" -> <<0, 0>>
              [] OTHER -> <<0>>]

Legal(o, v) ==
  CASE o \in {"SNDBUF", "RCVBUF"} -> v <= 65535
    [] o = "MAXSEG" -> v > 0
    [] o = "IP_TOS" -> v \in 0 .. 255
    [] OTHER -> TRUE

Init == opt = [f \in Fds |-> Fresh] /\ seen = [t \in Threads |-> <<>>]

Open(f) == opt' = [opt EXCEPT ![f] = Fresh] /\ UNCHANGED seen

Switch(f, o, b) == opt' = [opt EXCEPT ![f][o] = <<b>>] /\ UNCHANGED seen
Set(f, o, v) == Legal(o, v) /\ opt' = [opt EXCEPT ![f][o] = <<v>>] /\ UNCHANGED seen
SetLinger(f, on, secs) ==
  /\ secs >= 0
  /\ opt' = [opt EXCEPT ![f]["LINGER"] = <<on, secs>>]
  /\ UNCHANGED seen

Get(t, f, o) == seen' = [seen EXCEPT ![t] = opt[f][o]] /\ UNCHANGED opt

(* The next title has neither the sockets nor the threads of the last.       *)
NextTitle == opt' = [f \in Fds |-> Fresh] /\ seen' = [t \in Threads |-> <<>>]

(* Setting an option to the value it has, and getting it again, show nothing. *)
Next ==
  \/ opt' # opt /\ \E f \in Fds :
       \/ Open(f)
       \/ \E o \in Switches, b \in {0, 1} : Switch(f, o, b)
       \/ \E o \in Numbers, v \in Values : Set(f, o, v)
       \/ \E on \in {0, 1}, secs \in Values : SetLinger(f, on, secs)
  \/ seen' # seen /\ \E t \in Threads, f \in Fds, o \in Options : Get(t, f, o)
  \/ <<opt, seen>>' # <<opt, seen>> /\ NextTitle

Spec == Init /\ [][Next]_<<opt, seen>>

===============================================================================
