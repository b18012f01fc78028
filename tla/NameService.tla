----------------------------- MODULE NameService -----------------------------
(***************************************************************************)
(* The synchronous resolver calls of src/aroma_module/nsysnet_shim.c, made *)
(* by several title threads: getaddrinfo and freeaddrinfo with the table   *)
(* of lists the shim has built itself (ai_owned), gethostbyaddr with its   *)
(* own PTR client, and gethostbyname, which shares h_errno with it.        *)
(*                                                                         *)
(* A list is the sequence of the addresses of its nodes.  The shim's       *)
(* malloc and nsysnet's allocator share one address space, and either may  *)
(* hand out an address again as soon as it is free.                        *)
(*                                                                         *)
(* The name gethostbyaddr returns is in one static of all threads.  It is  *)
(* written label by label while it is decoded, here in two parts.          *)
(***************************************************************************)
EXTENDS Integers, Sequences, FiniteSets

CONSTANTS Threads,
          Addrs,            \* heap addresses
          Hosts,            \* addresses asked of gethostbyaddr
          Ports,            \* ephemeral ports of lwIP
          Ids,              \* of PTR queries: 16 bits of the clock
          NoThread, NoAddr, NoHost, NoPort, NoId,
          CallSets,         \* what a title calls: the lists share no state with the rest
          AI_OWNED_MAX,
          DNS_MAX_SERVERS,
          MaxNodes,         \* bound: results of one lwip_getaddrinfo
          MaxAnswers,       \* bound: answers on their way
          MaxTitles         \* bound: titles that end

ASSUME NameAssumption ==
  /\ AI_OWNED_MAX \in Nat \ {0} /\ DNS_MAX_SERVERS \in Nat \ {0}
  /\ MaxNodes \in Nat \ {0} /\ MaxAnswers \in Nat /\ MaxTitles \in Nat
  /\ NoThread \notin Threads /\ NoAddr \notin Addrs /\ NoHost \notin Hosts
  /\ NoPort \notin Ports /\ NoId \notin Ids
  /\ \A c \in CallSets : c \subseteq {"getaddrinfo", "freeaddrinfo", "gethostbyaddr", "gethostbyname"}

Slots == 1 .. AI_OWNED_MAX

VARIABLES
  accepting_sockets,  \* and lwIP is up: the two tests stand together in every call
  ai_owned,           \* slot -> the head it remembers, or NoAddr
  heap,               \* address -> "free", or the allocator that has it out
  held,               \* lists the title has been given and not freed
  pc, list, slot,     \* the thread's place, its list, and its loop counter
  wanted,             \* results of lwIP's list still to be converted
  host, server,       \* of gethostbyaddr: the question and the loop counter
  sock,               \* [port, id, fresh]; history: no answer for port and id was out before
  saved_h_errno, h_errno,
  answer,             \* history: who received it, and the host it is about; Unknown without fresh
  result,             \* gethostbyaddr returns ghba_hostent
  ghba_name,          \* history: the answer each part was taken from
  net,                \* answers on their way: [port, id, host]
  titles,
  calls               \* of CallSets

listVars == <<ai_owned, heap, held, list, slot, wanted>>
ptrVars == <<calls, host, server, sock, saved_h_errno, answer, result, ghba_name, net>>
vars == <<accepting_sockets, listVars, ptrVars, h_errno, pc, titles>>

NoSock == [port |-> NoPort, id |-> NoId, fresh |-> FALSE]
Unknown == [by |-> NoThread, host |-> NoHost]
Quiet == [t \in Threads |-> "idle"]

Init ==
  /\ accepting_sockets = TRUE
  /\ ai_owned = [i \in Slots |-> NoAddr]
  /\ heap = [a \in Addrs |-> "free"] /\ held = {}
  /\ pc = Quiet /\ list = [t \in Threads |-> <<>>] /\ slot = [t \in Threads |-> 1]
  /\ wanted = [t \in Threads |-> 0]
  /\ host = [t \in Threads |-> NoHost] /\ server = [t \in Threads |-> 1]
  /\ sock = [t \in Threads |-> NoSock]
  /\ saved_h_errno = [t \in Threads |-> 0] /\ h_errno = 0
  /\ answer = [t \in Threads |-> Unknown] /\ result = [t \in Threads |-> FALSE]
  /\ ghba_name = <<Unknown, Unknown>> /\ net = {}
  /\ titles = 0
  /\ calls \in CallSets

At(t, p) == pc[t] = p
Goto(t, p) == pc' = [pc EXCEPT ![t] = p]
UpTo(n, S) == UNION {[1 .. m -> S] : m \in 0 .. n}   \* sequences of up to n elements
Nodes(l) == {l[i] : i \in DOMAIN l}
Freed(l) == heap' = [a \in Addrs |-> IF a \in Nodes(l) THEN "free" ELSE heap[a]]

-------------------------------------------------------------------------------
(* getaddrinfo and freeaddrinfo.  A failure of lwip_getaddrinfo only        *)
(* returns its code.                                                        *)

(* Without the shim nsysnet builds the list.                                *)
GetNative(t, a) ==
  /\ At(t, "idle") /\ "getaddrinfo" \in calls /\ ~accepting_sockets
  /\ heap[a] = "free"
  /\ heap' = [heap EXCEPT ![a] = "nsysnet"]
  /\ held' = held \cup {<<a>>}
  /\ UNCHANGED <<accepting_sockets, ai_owned, list, slot, wanted, ptrVars, h_errno, pc, titles>>

(* lwIP answers with n results, which stay lwIP's until they are converted. *)
GetOurs(t, n) ==
  /\ At(t, "idle") /\ "getaddrinfo" \in calls /\ accepting_sockets
  /\ wanted' = [wanted EXCEPT ![t] = n]
  /\ Goto(t, "convert")
  /\ UNCHANGED <<accepting_sockets, ai_owned, heap, held, list, slot, ptrVars, h_errno, titles>>

Convert(t, a) ==
  /\ At(t, "convert") /\ wanted[t] > 0
  /\ heap[a] = "free"
  /\ heap' = [heap EXCEPT ![a] = "shim"]
  /\ list' = [list EXCEPT ![t] = Append(@, a)]
  /\ wanted' = [wanted EXCEPT ![t] = @ - 1]
  /\ UNCHANGED <<accepting_sockets, ai_owned, held, slot, ptrVars, h_errno, pc, titles>>

(* malloc returns NULL: the nodes built so far are freed with lwIP's list.  *)
ConvertFails(t) ==
  /\ At(t, "convert") /\ wanted[t] > 0
  /\ Freed(list[t])
  /\ list' = [list EXCEPT ![t] = <<>>]
  /\ wanted' = [wanted EXCEPT ![t] = 0]
  /\ Goto(t, "idle")
  /\ UNCHANGED <<accepting_sockets, ai_owned, held, slot, ptrVars, h_errno, titles>>

Converted(t) ==
  /\ At(t, "convert") /\ wanted[t] = 0
  /\ slot' = [slot EXCEPT ![t] = 1]
  /\ Goto(t, "remember")
  /\ UNCHANGED <<accepting_sockets, ai_owned, heap, held, list, wanted, ptrVars, h_errno, titles>>

(* The list is the title's, remembered or not.                              *)
HandOut(t) ==
  /\ held' = held \cup {list[t]}
  /\ list' = [list EXCEPT ![t] = <<>>]
  /\ Goto(t, "idle")

(* ai_remember, one compare-and-exchange per step; with every slot taken    *)
(* the call frees what it has built and fails with EAI_MEMORY.              *)
Remember(t) ==
  /\ At(t, "remember")
  /\ \/ /\ slot[t] \in Slots /\ ai_owned[slot[t]] = NoAddr
        /\ ai_owned' = [ai_owned EXCEPT ![slot[t]] = list[t][1]]
        /\ HandOut(t)
        /\ UNCHANGED <<heap, slot>>
     \/ /\ slot[t] \in Slots /\ ai_owned[slot[t]] # NoAddr
        /\ slot' = [slot EXCEPT ![t] = @ + 1]
        /\ UNCHANGED <<ai_owned, heap, held, list, pc>>
     \/ /\ slot[t] \notin Slots
        /\ Freed(list[t])
        /\ list' = [list EXCEPT ![t] = <<>>]
        /\ Goto(t, "idle")
        /\ UNCHANGED <<ai_owned, held, slot>>
  /\ UNCHANGED <<accepting_sockets, wanted, ptrVars, h_errno, titles>>

(* freeaddrinfo that leaves the list to nsysnet when the shim is out of use. *)
FreeListByRouting(t, l) ==
  /\ At(t, "idle") /\ "freeaddrinfo" \in calls
  /\ held' = held \ {l}
  /\ list' = [list EXCEPT ![t] = l]
  /\ slot' = [slot EXCEPT ![t] = 1]
  /\ Goto(t, IF accepting_sockets THEN "is_ours" ELSE "free_real")
  /\ UNCHANGED <<accepting_sockets, ai_owned, heap, wanted, ptrVars, h_errno, titles>>

(* The title frees a list it holds, whatever stack is in use by now.        *)
FreeList(t, l) ==
  /\ At(t, "idle") /\ "freeaddrinfo" \in calls
  /\ held' = held \ {l}
  /\ list' = [list EXCEPT ![t] = l]
  /\ slot' = [slot EXCEPT ![t] = 1]
  /\ Goto(t, "is_ours")
  /\ UNCHANGED <<accepting_sockets, ai_owned, heap, wanted, ptrVars, h_errno, titles>>

(* ai_is_ours, one compare-and-exchange per step: the head leaves the table *)
(* before its memory is freed.                                              *)
IsOurs(t) ==
  /\ At(t, "is_ours")
  /\ \/ /\ slot[t] \in Slots /\ ai_owned[slot[t]] = list[t][1]
        /\ ai_owned' = [ai_owned EXCEPT ![slot[t]] = NoAddr]
        /\ Goto(t, "free_ours")
        /\ UNCHANGED slot
     \/ /\ slot[t] \in Slots /\ ai_owned[slot[t]] # list[t][1]
        /\ slot' = [slot EXCEPT ![t] = @ + 1]
        /\ UNCHANGED <<ai_owned, pc>>
     \/ /\ slot[t] \notin Slots
        /\ Goto(t, "free_real")
        /\ UNCHANGED <<ai_owned, slot>>
  /\ UNCHANGED <<accepting_sockets, heap, held, list, wanted, ptrVars, h_errno, titles>>

FreeAll(t) ==
  /\ pc[t] \in {"free_ours", "free_real"}
  /\ Freed(list[t])
  /\ list' = [list EXCEPT ![t] = <<>>]
  /\ Goto(t, "idle")
  /\ UNCHANGED <<accepting_sockets, ai_owned, held, slot, wanted, ptrVars, h_errno, titles>>

-------------------------------------------------------------------------------
(* gethostbyaddr and its PTR client.  Bad arguments return NULL at once.    *)

Lookup(t, h) ==
  /\ At(t, "idle") /\ "gethostbyaddr" \in calls /\ accepting_sockets
  /\ host' = [host EXCEPT ![t] = h]
  /\ server' = [server EXCEPT ![t] = 1]
  /\ saved_h_errno' = [saved_h_errno EXCEPT ![t] = h_errno]
  /\ Goto(t, "server")
  /\ UNCHANGED <<accepting_sockets, listVars, calls, sock, answer, result, ghba_name, net,
                 h_errno, titles>>

(* ptr_dns_lookup_ipv4: on to the next server.                              *)
NextServer(t) == server' = [server EXCEPT ![t] = @ + 1] /\ Goto(t, "server")
CloseSock(t) == sock' = [sock EXCEPT ![t] = NoSock]

(* The server is not configured, or lwip_socket fails.                      *)
SkipServer(t) ==
  /\ At(t, "server") /\ server[t] <= DNS_MAX_SERVERS
  /\ NextServer(t)
  /\ UNCHANGED <<accepting_sockets, listVars, calls, host, sock, saved_h_errno, answer, result,
                 ghba_name, net, h_errno, titles>>

(* A new socket on any port that is free, and an id from the clock.         *)
OpenSock(t, p, id) ==
  /\ At(t, "server") /\ server[t] <= DNS_MAX_SERVERS
  /\ \A u \in Threads : sock[u].port # p
  /\ sock' = [sock EXCEPT ![t] = [port |-> p, id |-> id,
                                  fresh |-> \A r \in net : r.port = p => r.id # id]]
  /\ Goto(t, "send")
  /\ UNCHANGED <<accepting_sockets, listVars, calls, host, server, saved_h_errno, answer, result,
                 ghba_name, net, h_errno, titles>>

(* The server will answer; how often and when is the network's choice.      *)
Send(t) ==
  /\ At(t, "send") /\ Cardinality(net) < MaxAnswers
  /\ net' = net \cup {[port |-> sock[t].port, id |-> sock[t].id, host |-> host[t]]}
  /\ Goto(t, "select")
  /\ UNCHANGED <<accepting_sockets, listVars, calls, host, server, sock, saved_h_errno, answer,
                 result, ghba_name, h_errno, titles>>

(* sendto fails, or 750 ms pass without an answer.                          *)
GiveUp(t) ==
  /\ pc[t] \in {"send", "select"}
  /\ CloseSock(t)
  /\ NextServer(t)
  /\ UNCHANGED <<accepting_sockets, listVars, calls, host, saved_h_errno, answer, result,
                 ghba_name, net, h_errno, titles>>

AcceptedAnyId(t, r, good) == good

(* The packet is long enough, has the query's id, is an answer, whole and   *)
(* without an error.                                                        *)
Accepted(t, r, good) == good /\ r.id = sock[t].id

(* Whatever comes to the port is received, the socket closed, the header    *)
(* looked at.  A copy may still be on its way.                              *)
Receive(t, r) ==
  /\ At(t, "select") /\ r.port = sock[t].port
  /\ CloseSock(t)
  /\ \E good \in BOOLEAN :
       IF Accepted(t, r, good)
       THEN /\ answer' = [answer EXCEPT ![t] = IF sock[t].fresh THEN [by |-> t, host |-> r.host]
                                               ELSE Unknown]
            /\ Goto(t, "records")
            /\ UNCHANGED server
       ELSE NextServer(t) /\ UNCHANGED answer
  /\ UNCHANGED <<accepting_sockets, listVars, calls, host, saved_h_errno, result, ghba_name, net,
                 h_errno, titles>>

Write(t, part) == ghba_name' = [ghba_name EXCEPT ![part] = answer[t]]

(* A PTR record; the others are passed over.  ptr_dns_decode_name writes as *)
(* it goes, also what does not decode in the end.                           *)
Record(t) ==
  /\ At(t, "records")
  /\ Write(t, 1)
  /\ Goto(t, "decode") \/ UNCHANGED pc
  /\ UNCHANGED <<accepting_sockets, listVars, calls, host, server, sock, saved_h_errno, answer,
                 result, net, h_errno, titles>>

(* The rest of a name that decodes.                                         *)
Decode(t) ==
  /\ At(t, "decode")
  /\ Write(t, 2)
  /\ result' = [result EXCEPT ![t] = TRUE]
  /\ answer' = [answer EXCEPT ![t] = Unknown]
  /\ Goto(t, "restore")
  /\ UNCHANGED <<accepting_sockets, listVars, calls, host, server, sock, saved_h_errno, net, h_errno,
                 titles>>

(* No record is left, or the packet ends in the middle of one.              *)
RecordsEnd(t) ==
  /\ At(t, "records")
  /\ answer' = [answer EXCEPT ![t] = Unknown]
  /\ NextServer(t)
  /\ UNCHANGED <<accepting_sockets, listVars, calls, host, sock, saved_h_errno, result, ghba_name, net,
                 h_errno, titles>>

NoServerLeft(t) ==
  /\ At(t, "server") /\ server[t] > DNS_MAX_SERVERS
  /\ Goto(t, "restore")
  /\ UNCHANGED <<accepting_sockets, listVars, ptrVars, h_errno, titles>>

(* gethostbyaddr returns: h_errno is what it was at the call.               *)
Restore(t) ==
  /\ At(t, "restore")
  /\ h_errno' = saved_h_errno[t]
  /\ host' = [host EXCEPT ![t] = NoHost]
  /\ result' = [result EXCEPT ![t] = FALSE]
  /\ server' = [server EXCEPT ![t] = 1] /\ saved_h_errno' = [saved_h_errno EXCEPT ![t] = 0]
  /\ Goto(t, "idle")
  /\ UNCHANGED <<accepting_sockets, listVars, calls, sock, answer, ghba_name, net, titles>>

-------------------------------------------------------------------------------
(* gethostbyname that fails: lwIP sets its HOST_NOT_FOUND, the shim         *)
(* translates what it then finds in h_errno.                                *)

LWIP_HOST_NOT_FOUND == 210
NSN_HOST_NOT_FOUND == 1

NameFails(t) ==
  /\ At(t, "idle") /\ "gethostbyname" \in calls /\ accepting_sockets
  /\ h_errno' = LWIP_HOST_NOT_FOUND
  /\ Goto(t, "translate")
  /\ UNCHANGED <<accepting_sockets, listVars, ptrVars, titles>>

Translate(t) ==
  /\ At(t, "translate")
  /\ h_errno' = IF h_errno = LWIP_HOST_NOT_FOUND THEN NSN_HOST_NOT_FOUND ELSE h_errno
  /\ Goto(t, "idle")
  /\ UNCHANGED <<accepting_sockets, listVars, ptrVars, titles>>

-------------------------------------------------------------------------------
(* The environment.                                                         *)

(* quiesce, or the stack going down; and the worker accepting again.        *)
Switch ==
  /\ accepting_sockets' = ~accepting_sockets
  /\ UNCHANGED <<listVars, ptrVars, h_errno, pc, titles>>

Lose(r) ==
  /\ net' = net \ {r}
  /\ UNCHANGED <<accepting_sockets, listVars, calls, host, server, sock, saved_h_errno, answer,
                 result, ghba_name, h_errno, pc, titles>>

(* The process dies with its threads, its heap and lwIP's sockets; the      *)
(* module's statics stay.                                                   *)
Die ==
  /\ titles < MaxTitles /\ titles' = titles + 1
  /\ accepting_sockets' = FALSE
  /\ heap' = [a \in Addrs |-> "free"] /\ held' = {}
  /\ pc' = Quiet /\ list' = [t \in Threads |-> <<>>] /\ slot' = [t \in Threads |-> 1]
  /\ wanted' = [t \in Threads |-> 0]
  /\ host' = [t \in Threads |-> NoHost] /\ server' = [t \in Threads |-> 1]
  /\ sock' = [t \in Threads |-> NoSock] /\ saved_h_errno' = [t \in Threads |-> 0]
  /\ answer' = [t \in Threads |-> Unknown] /\ result' = [t \in Threads |-> FALSE]
  /\ UNCHANGED <<calls, h_errno, ghba_name, net>>

(* begin_title of the next title forgets the lists of the last one.         *)
NextTitle == Die /\ ai_owned' = [i \in Slots |-> NoAddr]

ThreadStep(t) ==
  \/ \E a \in Addrs : Convert(t, a)
  \/ ConvertFails(t) \/ Converted(t) \/ Remember(t)
  \/ IsOurs(t) \/ FreeAll(t)
  \/ SkipServer(t) \/ (\E p \in Ports, id \in Ids : OpenSock(t, p, id)) \/ Send(t) \/ GiveUp(t)
  \/ (\E r \in net : Receive(t, r)) \/ Record(t) \/ Decode(t) \/ RecordsEnd(t)
  \/ NoServerLeft(t) \/ Restore(t)
  \/ Translate(t)

ThreadCall(t) ==
  \/ \E a \in Addrs : GetNative(t, a)
  \/ \E n \in 1 .. MaxNodes : GetOurs(t, n)
  \/ \E l \in held : FreeList(t, l)
  \/ \E h \in Hosts : Lookup(t, h)
  \/ NameFails(t)

Next ==
  \/ \E t \in Threads : ThreadStep(t) \/ ThreadCall(t)
  \/ Switch \/ (\E r \in net : Lose(r)) \/ NextTitle

Spec == Init /\ [][Next]_vars

-------------------------------------------------------------------------------
(* Properties.                                                              *)

TypeOK ==
  /\ accepting_sockets \in BOOLEAN
  /\ ai_owned \in [Slots -> Addrs \cup {NoAddr}]
  /\ heap \in [Addrs -> {"free", "shim", "nsysnet"}]
  /\ held \subseteq UpTo(MaxNodes, Addrs)
  /\ \A t \in Threads : list[t] \in UpTo(MaxNodes, Addrs) /\ wanted[t] \in 0 .. MaxNodes
  /\ \A t \in Threads : slot[t] \in 1 .. AI_OWNED_MAX + 1 /\ server[t] \in 1 .. DNS_MAX_SERVERS + 1

(* The table holds the heads of the shim's lists that are out, each once,   *)
(* and nothing else: no slot is lost to a list that is gone, and no list is *)
(* handed out that freeaddrinfo would not know.                             *)
Out == {l \in held : heap[l[1]] = "shim"}
         \cup {list[t] : t \in {u \in Threads : pc[u] = "is_ours" /\ heap[list[u][1]] = "shim"}}
TableIsExact ==
  /\ {ai_owned[i] : i \in Slots} \ {NoAddr} = {l[1] : l \in Out}
  /\ \A i, j \in Slots : ai_owned[i] = ai_owned[j] /\ ai_owned[i] # NoAddr => i = j

(* freeaddrinfo gives every list back to the allocator that built it: the   *)
(* shim's free never gets nsysnet's memory nor nsysnet the shim's, although *)
(* the routing may have changed between the two calls, addresses are used   *)
(* again, and other threads search the table at the same time.              *)
FreedByItsHeap ==
  /\ TableIsExact
  /\ \A t \in Threads :
       /\ pc[t] = "free_ours" => \A a \in Nodes(list[t]) : heap[a] = "shim"
       /\ pc[t] = "free_real" => \A a \in Nodes(list[t]) : heap[a] = "nsysnet"

(* The name gethostbyaddr returns answers the address it was asked for,     *)
(* although late and repeated answers to earlier queries reach a port that  *)
(* has been given to a new one.  Two things can spoil it: another thread    *)
(* writes the one static, and the clock repeats the id of an answer that    *)
(* is still on its way to the port.                                         *)
PtrAnswerIsOwn ==
  \A t \in Threads : At(t, "restore") /\ result[t] =>
    \A part \in 1 .. 2 : ghba_name[part].by = t => ghba_name[part].host = host[t]

(* gethostbyaddr leaves h_errno unchanged, whatever another thread's call   *)
(* has put there while it waited for its answer.                            *)
HErrnoKept ==
  [][\A t \in Threads : Restore(t) => h_errno' = h_errno]_vars

===============================================================================
