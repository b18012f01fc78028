------------------------------ MODULE NameProofs ------------------------------
(***************************************************************************)
(* Proofs about NameService, for any threads, heap, hosts, ports, size of  *)
(* the table and number of servers, and whatever the titles call.          *)
(*                                                                         *)
(* Every node has one owner: a list the title holds or the list a thread   *)
(* works on (NodeHasOneOwner).  A list comes whole from one allocator, and *)
(* a thread's place says which (Built).  The table has a slot for the head *)
(* of each list of the shim that is out, one only and for nothing else     *)
(* (Recorded); the slot of a list that is being looked for lies ahead of   *)
(* the search (AheadOfSearch), which is why a search that reaches the end  *)
(* has a list of nsysnet.                                                  *)
(*                                                                         *)
(* The PTR client rests on ports and ids: no two queries that are out have *)
(* the same port (PortIsOwn), and an answer that comes to the port of a    *)
(* query with its id carries its host (AnswersById).                       *)
(***************************************************************************)
EXTENDS NameService, TLAPS

Places == {"idle", "convert", "remember", "is_ours", "free_ours", "free_real",
           "server", "send", "select", "records", "decode", "restore", "translate"}
Freeing == {"is_ours", "free_ours", "free_real"}
Asking == {"send", "select"}
Elsewhere == {"idle", "server", "records", "decode", "restore", "translate"} \cup Asking
                                                              \* than in a call about lists

-------------------------------------------------------------------------------
(* The invariant of the lists.                                               *)

ListTypes ==
  /\ ai_owned \in [Slots -> Addrs \cup {NoAddr}]
  /\ heap \in [Addrs -> {"free", "shim", "nsysnet"}]
  /\ held \subseteq Seq(Addrs) \ {<<>>}
  /\ list \in [Threads -> Seq(Addrs)]
  /\ slot \in [Threads -> Nat \ {0}]
  /\ wanted \in [Threads -> Nat]
  /\ pc \in [Threads -> Places]

\* The nodes of l are of allocator k.
From(l, k) == \A a \in Nodes(l) : heap[a] = k

Apart(l, m) == \A a \in Nodes(l) : a \notin Nodes(m)

NodeHasOneOwner ==
  /\ \A l, m \in held : l # m => Apart(l, m)
  /\ \A t \in Threads : \A l \in held : Apart(l, list[t])
  /\ \A t, u \in Threads : t # u => Apart(list[t], list[u])

Whole(l) == From(l, "shim") \/ From(l, "nsysnet")

\* What the place of thread t says of its list.
ListAt(t) ==
  /\ pc[t] \in {"convert", "remember", "free_ours"} => From(list[t], "shim")
  /\ pc[t] = "is_ours" => Whole(list[t])
  /\ pc[t] = "free_real" => From(list[t], "nsysnet")
  /\ pc[t] \in Elsewhere => list[t] = <<>>
  /\ pc[t] \in {"remember"} \cup Freeing => list[t] # <<>>
  /\ pc[t] = "convert" /\ wanted[t] = 0 => list[t] # <<>>

Built == (\A l \in held : Whole(l)) /\ (\A t \in Threads : ListAt(t))

\* Thread t looks for a list of the shim.
Searching(t) == pc[t] = "is_ours" /\ heap[list[t][1]] = "shim"

SlotHasList ==
  \A i \in Slots : ai_owned[i] # NoAddr =>
    \/ \E l \in held : heap[l[1]] = "shim" /\ ai_owned[i] = l[1]
    \/ \E t \in Threads : Searching(t) /\ ai_owned[i] = list[t][1]

ListHasSlot == \A l \in held : heap[l[1]] = "shim" => \E i \in Slots : ai_owned[i] = l[1]

SlotIsOwn == \A i, j \in Slots : ai_owned[i] = ai_owned[j] /\ ai_owned[i] # NoAddr => i = j

Recorded == SlotHasList /\ ListHasSlot /\ SlotIsOwn

AheadOfSearch ==
  \A t \in Threads : Searching(t) =>
    \E i \in Slots : i >= slot[t] /\ ai_owned[i] = list[t][1]

ListInv == ListTypes /\ NodeHasOneOwner /\ Built /\ Recorded /\ AheadOfSearch

-------------------------------------------------------------------------------
(* The invariant of the PTR client.                                          *)

Socks == [port : Ports \cup {NoPort}, id : Ids \cup {NoId}, fresh : BOOLEAN]

PtrTypes ==
  /\ pc \in [Threads -> Places]
  /\ host \in [Threads -> Hosts \cup {NoHost}]
  /\ sock \in [Threads -> Socks]

PortIsOwn ==
  \A t, u \in Threads :
    pc[t] \in Asking /\ pc[u] \in Asking /\ sock[t].port = sock[u].port => t = u

AnswersById ==
  \A t \in Threads : \A r \in net :
    pc[t] \in Asking /\ sock[t].fresh /\ r.port = sock[t].port /\ r.id = sock[t].id =>
      r.host = host[t]

PtrInv == PtrTypes /\ PortIsOwn /\ AnswersById

HostsAsked == \A r \in net : r.host \in Hosts \cup {NoHost}

\* If a is of an answer thread t has received, it is about the host t asks for.
Own(t, a) == a.by = t => a.host = host[t]

Answers == [by : Threads \cup {NoThread}, host : Hosts \cup {NoHost}]

NameTypes ==
  /\ ghba_name \in [1 .. 2 -> Answers]
  /\ answer \in [Threads -> Answers]
  /\ result \in [Threads -> BOOLEAN]

NameAt(t) ==
  /\ answer[t].by \in {t, NoThread}
  /\ pc[t] \in {"records", "decode"} => Own(t, answer[t])
  /\ pc[t] = "decode" => Own(t, ghba_name[1])
  /\ result[t] => pc[t] = "restore" /\ Own(t, ghba_name[1]) /\ Own(t, ghba_name[2])

NameInv == NameTypes /\ \A t \in Threads : NameAt(t)

-------------------------------------------------------------------------------
(* Nodes.                                                                    *)

\* The nodes of a list are addresses, and its head is one of them.
LEMMA NodesOfList ==
  ASSUME NEW l \in Seq(Addrs)
  PROVE  /\ Nodes(l) \subseteq Addrs
         /\ l # <<>> => l[1] \in Nodes(l)
<1>1. l \in [1 .. Len(l) -> Addrs] /\ Len(l) \in Nat
  OBVIOUS
<1>2. l # <<>> => 1 \in 1 .. Len(l)
  BY <1>1
<1> QED
  BY <1>1, <1>2 DEF Nodes

\* The empty list has no nodes.
LEMMA NodesOfNone == Nodes(<<>>) = {}
BY DEF Nodes

\* The list GetNative makes has one node, its head.
LEMMA NodesOfOne ==
  ASSUME NEW a \in Addrs
  PROVE  <<a>> \in Seq(Addrs) /\ <<a>> # <<>> /\ <<a>>[1] = a /\ Nodes(<<a>>) = {a}
<1>1. DOMAIN <<a>> = {1}
  OBVIOUS
<1> QED
  BY <1>1 DEF Nodes

\* Convert adds one node.
LEMMA NodesOfAppend ==
  ASSUME NEW l \in Seq(Addrs), NEW a \in Addrs
  PROVE  /\ Append(l, a) \in Seq(Addrs) /\ Append(l, a) # <<>>
         /\ Nodes(Append(l, a)) = Nodes(l) \cup {a}
<1> DEFINE m == Append(l, a)
<1>1. m \in Seq(Addrs) /\ Len(m) = Len(l) + 1 /\ m[Len(l) + 1] = a /\ Len(l) \in Nat
  OBVIOUS
<1>2. \A i \in 1 .. Len(l) : m[i] = l[i]
  OBVIOUS
<1>3. DOMAIN m = 1 .. Len(l) + 1 /\ DOMAIN l = 1 .. Len(l)
  BY <1>1
<1>4. \A x : x \in Nodes(m) <=> x \in Nodes(l) \cup {a}
  <2>1. \A i \in DOMAIN m : i \in DOMAIN l \/ i = Len(l) + 1
    BY <1>1, <1>3
  <2>2. Len(l) + 1 \in DOMAIN m /\ DOMAIN l \subseteq DOMAIN m
    BY <1>1, <1>3
  <2> QED
    BY <2>1, <2>2, <1>1, <1>2, <1>3, Zenon DEF Nodes
<1>5. m # <<>>
  BY <1>1
<1> QED
  BY <1>1, <1>4, <1>5, Zenon

-------------------------------------------------------------------------------
(* What the invariant says of heads and nodes.                               *)

\* A list that is out is not empty and its head is one of its nodes.
LEMMA HeadIsNode ==
  ASSUME ListInv
  PROVE  /\ \A l \in held : l[1] \in Nodes(l) /\ l[1] \in Addrs
         /\ \A t \in Threads : list[t] # <<>> =>
              list[t][1] \in Nodes(list[t]) /\ list[t][1] \in Addrs
         /\ \A t \in Threads : Nodes(list[t]) \subseteq Addrs
         /\ \A t \in Threads : pc[t] \in Freeing \cup {"remember"} => list[t] # <<>>
<1>1. ListTypes /\ Built
  BY Zenon DEF ListInv
<1> QED
  BY <1>1, NodesOfList, Zenon DEF ListTypes, Built, ListAt

\* The head of one list is the head of no other, so a slot of the table names one list.
LEMMA HeadsDiffer ==
  ASSUME ListInv
  PROVE  /\ \A l, m \in held : l[1] = m[1] => l = m
         /\ \A l \in held : \A t \in Threads : list[t] # <<>> => l[1] # list[t][1]
         /\ \A t, u \in Threads :
              list[t] # <<>> /\ list[u] # <<>> /\ list[t][1] = list[u][1] => t = u
<1>1. NodeHasOneOwner
  BY Zenon DEF ListInv
<1>2. ASSUME NEW l \in held, NEW m \in held, l[1] = m[1]
      PROVE  l = m
  BY <1>1, <1>2, HeadIsNode, Zenon DEF NodeHasOneOwner, Apart
<1>3. ASSUME NEW l \in held, NEW t \in Threads, list[t] # <<>>
      PROVE  l[1] # list[t][1]
  BY <1>1, <1>3, HeadIsNode, Zenon DEF NodeHasOneOwner, Apart
<1>4. ASSUME NEW t \in Threads, NEW u \in Threads, list[t] # <<>>, list[u] # <<>>,
             list[t][1] = list[u][1]
      PROVE  t = u
  BY <1>1, <1>4, HeadIsNode, ZenonT(30) DEF NodeHasOneOwner, Apart
<1> QED
  BY <1>2, <1>3, <1>4, Zenon

\* No node of a list is free, so malloc and nsysnet hand out none of them.
LEMMA NodesTaken ==
  ASSUME ListInv
  PROVE  /\ \A l \in held : \A a \in Nodes(l) : heap[a] # "free"
         /\ \A t \in Threads : \A a \in Nodes(list[t]) : heap[a] # "free"
<1>1. Built
  BY Zenon DEF ListInv
<1>2. \A l \in held : \A a \in Nodes(l) : heap[a] # "free"
  BY <1>1, Zenon DEF Built, Whole, From
<1>3. ASSUME NEW t \in Threads, NEW a \in Nodes(list[t])
      PROVE  heap[a] # "free"
  <2>1. list[t] # <<>>
    BY <1>3, NodesOfNone, Zenon
  <2>2. pc[t] \in {"convert", "remember"} \cup Freeing
    BY <1>1, <2>1, Zenon
      DEF ListInv, ListTypes, Built, ListAt, Places, Elsewhere, Asking, Freeing
  <2> QED
    BY <1>1, <1>3, <2>2, Zenon DEF Built, ListAt, Whole, From, Freeing
<1> QED
  BY <1>2, <1>3, Zenon

-------------------------------------------------------------------------------
(* The steps on lists.                                                       *)

\* A step of thread t leaves the other threads and the nodes of their lists alone, and the
\* nodes of the lists the title holds.
Alone(t) ==
  /\ \A u \in Threads \ {t} : /\ pc'[u] = pc[u] /\ list'[u] = list[u]
                              /\ wanted'[u] = wanted[u] /\ slot'[u] = slot[u]
                              /\ \A a \in Nodes(list[u]) : heap'[a] = heap[a]
  /\ \A l \in held : \A a \in Nodes(l) : heap'[a] = heap[a]

\* What is known of one thread outlasts a step that leaves it alone.
LEMMA ThreadKept ==
  ASSUME ListInv, NEW u \in Threads, pc'[u] = pc[u], list'[u] = list[u],
         wanted'[u] = wanted[u], \A a \in Nodes(list[u]) : heap'[a] = heap[a]
  PROVE  ListAt(u)' /\ (Searching(u)' <=> Searching(u))
<1>1. ListAt(u)
  BY Zenon DEF ListInv, Built
<1>2. ListAt(u)'
  BY <1>1, Zenon DEF ListAt, Whole, From
<1>3. pc[u] = "is_ours" => list[u][1] \in Nodes(list[u])
  BY HeadIsNode, Zenon DEF Freeing
<1> QED
  BY <1>2, <1>3, Zenon DEF Searching

\* What is known of the other threads and of the title's lists outlasts such a step.
LEMMA OthersKept ==
  ASSUME ListInv, NEW t \in Threads, Alone(t)
  PROVE  /\ \A u \in Threads \ {t} : ListAt(u)' /\ (Searching(u)' <=> Searching(u))
         /\ \A l \in held : Whole(l)' /\ heap'[l[1]] = heap[l[1]]
<1>1. Built
  BY Zenon DEF ListInv
<1>2. ASSUME NEW u \in Threads \ {t}
      PROVE  ListAt(u)' /\ (Searching(u)' <=> Searching(u))
  BY ThreadKept, Zenon DEF Alone
<1>3. ASSUME NEW l \in held
      PROVE  Whole(l)' /\ heap'[l[1]] = heap[l[1]]
  BY <1>1, HeadIsNode, ZenonT(30) DEF Built, Alone, Whole, From
<1> QED
  BY <1>2, <1>3, Zenon

\* The table stays right when the lists it names, and the searches for them, stay.
LEMMA TableKept ==
  ASSUME Recorded, AheadOfSearch, UNCHANGED <<ai_owned, held>>,
         \A l \in held : heap'[l[1]] = heap[l[1]],
         \A u \in Threads : Searching(u)' <=> Searching(u),
         \A u \in Threads : Searching(u) => list'[u] = list[u] /\ slot'[u] = slot[u]
  PROVE  Recorded' /\ AheadOfSearch'
<1>1. SlotHasList'
  BY ZenonT(30) DEF Recorded, SlotHasList
<1>2. ListHasSlot'
  BY Zenon DEF Recorded, ListHasSlot
<1>3. AheadOfSearch'
  <2>1. ASSUME NEW u \in Threads, Searching(u)'
        PROVE  \E i \in Slots : i >= slot'[u] /\ ai_owned'[i] = list'[u][1]
    <3>1. Searching(u) /\ list'[u] = list[u] /\ slot'[u] = slot[u]
      BY <2>1, Zenon
    <3> QED
      BY <3>1, ZenonT(30) DEF AheadOfSearch
  <2> QED
    BY <2>1, Zenon DEF AheadOfSearch
<1> QED
  BY <1>1, <1>2, <1>3, Zenon DEF Recorded, SlotIsOwn

\* Nothing about lists changes.
LEMMA StillKeepsLists ==
  ASSUME ListInv, UNCHANGED <<listVars, pc>>
  PROVE  ListInv'
<1>1. ListTypes'
  BY Zenon DEF ListInv, ListTypes, listVars
<1>2. NodeHasOneOwner'
  BY Zenon DEF ListInv, NodeHasOneOwner, listVars
<1>3. Built'
  BY Zenon DEF ListInv, Built, ListAt, Whole, From, listVars
<1>4. Recorded'
  BY Zenon DEF ListInv, Recorded, SlotHasList, ListHasSlot, SlotIsOwn, Searching, listVars
<1>5. AheadOfSearch'
  BY Zenon DEF ListInv, AheadOfSearch, Searching, listVars
<1> QED
  BY <1>1, <1>2, <1>3, <1>4, <1>5, Zenon DEF ListInv

\* Steps that only move thread t or its counters.
LEMMA PlaceKeepsLists ==
  ASSUME ListInv, ListTypes', NEW t \in Threads, UNCHANGED <<ai_owned, heap, held, list>>,
         \A u \in Threads \ {t} : pc'[u] = pc[u] /\ wanted'[u] = wanted[u] /\ slot'[u] = slot[u],
         ListAt(t)', Searching(t)' <=> Searching(t),
         Searching(t) => \E i \in Slots : i >= slot'[t] /\ ai_owned[i] = list[t][1]
  PROVE  ListInv'
<1>1. NodeHasOneOwner /\ Built /\ Recorded /\ AheadOfSearch
  BY Zenon DEF ListInv
<1>2. NodeHasOneOwner'
  BY <1>1, Zenon DEF NodeHasOneOwner
<1>3. /\ \A u \in Threads \ {t} : ListAt(u)' /\ (Searching(u)' <=> Searching(u))
      /\ \A l \in held : Whole(l)' /\ heap'[l[1]] = heap[l[1]]
  <2>1. Alone(t)
    BY Zenon DEF Alone
  <2> QED
    BY <2>1, OthersKept, Zenon
<1>4. Built'
  BY <1>3, Zenon DEF Built
<1>5. Recorded'
  BY <1>1, <1>3, ZenonT(30) DEF Recorded, SlotHasList, ListHasSlot, SlotIsOwn
<1>6. AheadOfSearch'
  BY <1>1, <1>3, Zenon DEF AheadOfSearch
<1> QED
  BY <1>2, <1>4, <1>5, <1>6, Zenon DEF ListInv

\* The steps of the PTR client and of gethostbyname.
LEMMA ElsewhereKeepsLists ==
  ASSUME ListInv, UNCHANGED listVars, NEW t \in Threads, NEW p \in Elsewhere,
         pc[t] \in Elsewhere, pc' = [pc EXCEPT ![t] = p]
  PROVE  ListInv'
<1>1. ListTypes /\ Built
  BY Zenon DEF ListInv
<1>2. pc'[t] = p /\ \A u \in Threads \ {t} : pc'[u] = pc[u]
  BY <1>1, Zenon DEF ListTypes
<1>3. pc' \in [Threads -> Places]
  BY <1>1, Zenon DEF ListTypes, Elsewhere, Places, Asking
<1>4. ListTypes'
  BY <1>1, <1>3, Zenon DEF ListTypes, listVars
<1>5. /\ p \notin {"convert", "remember"} \cup Freeing
      /\ pc[t] \notin {"convert", "remember"} \cup Freeing
  BY Zenon DEF Elsewhere, Asking, Freeing
<1>6. list'[t] = <<>>
  BY <1>1, Zenon DEF Built, ListAt, listVars
<1>7. ListAt(t)' /\ ~Searching(t) /\ ~Searching(t)'
  BY <1>2, <1>5, <1>6, Zenon DEF ListAt, Searching, Freeing
<1> QED
  BY <1>2, <1>4, <1>7, PlaceKeepsLists, Zenon DEF listVars

\* GetNative: nsysnet's new list has a node that no list had.
LEMMA GetNativeKeepsLists ==
  ASSUME ListInv, NEW t \in Threads, NEW a \in Addrs, GetNative(t, a)
  PROVE  ListInv'
<1> DEFINE m == <<a>>
<1>1. ListTypes /\ NodeHasOneOwner /\ Built /\ Recorded /\ AheadOfSearch
  BY Zenon DEF ListInv
<1>2. /\ heap[a] = "free" /\ heap' = [heap EXCEPT ![a] = "nsysnet"]
      /\ held' = held \cup {m}
      /\ UNCHANGED <<ai_owned, list, slot, wanted, pc>>
  BY Zenon DEF GetNative
<1>3. m \in Seq(Addrs) /\ m # <<>> /\ m[1] = a /\ Nodes(m) = {a}
  BY NodesOfOne, Zenon
<1>4. heap'[a] = "nsysnet" /\ \A b \in Addrs \ {a} : heap'[b] = heap[b]
  BY <1>1, <1>2, Zenon DEF ListTypes
<1>5. /\ \A l \in held : a \notin Nodes(l)
      /\ \A u \in Threads : a \notin Nodes(list[u])
  BY <1>2, NodesTaken, Zenon
<1> HIDE DEF m
<1>6. ListTypes'
  <2>1. heap' \in [Addrs -> {"free", "shim", "nsysnet"}]
    BY <1>1, <1>2, Zenon DEF ListTypes
  <2> QED
    BY <1>1, <1>2, <1>3, <2>1, Zenon DEF ListTypes
<1>7. NodeHasOneOwner'
  <2>1. \A l \in held : Apart(l, m) /\ Apart(m, l)
    BY <1>3, <1>5, Zenon DEF Apart
  <2>2. \A l, k \in held' : l # k => Apart(l, k)
    BY <1>1, <1>2, <2>1, Zenon DEF NodeHasOneOwner
  <2>3. \A u \in Threads : Apart(m, list[u])
    BY <1>3, <1>5, Zenon DEF Apart
  <2> QED
    BY <1>1, <1>2, <2>2, <2>3, Zenon DEF NodeHasOneOwner
<1>8. /\ \A l \in held : \A b \in Nodes(l) : heap'[b] = heap[b]
      /\ \A u \in Threads : \A b \in Nodes(list[u]) : heap'[b] = heap[b]
  BY <1>1, <1>4, <1>5, NodesOfList, Zenon DEF ListTypes
<1>9. ASSUME NEW u \in Threads
      PROVE  ListAt(u)' /\ (Searching(u)' <=> Searching(u))
  BY <1>2, <1>8, ThreadKept, Zenon
<1>10. \A l \in held : Whole(l)' /\ heap'[l[1]] = heap[l[1]]
  BY <1>1, <1>8, HeadIsNode, Zenon DEF Built, Whole, From
<1>11. Whole(m)' /\ heap'[m[1]] # "shim"
  BY <1>3, <1>4, Zenon DEF Whole, From
<1>12. Built'
  BY <1>2, <1>9, <1>10, <1>11, Zenon DEF Built
<1>13. Recorded'
  <2>1. SlotHasList'
    BY <1>1, <1>2, <1>9, <1>10, Zenon DEF Recorded, SlotHasList
  <2>2. ListHasSlot'
    BY <1>1, <1>2, <1>10, <1>11, Zenon DEF Recorded, ListHasSlot
  <2> QED
    BY <1>1, <1>2, <2>1, <2>2, Zenon DEF Recorded, SlotIsOwn
<1>14. AheadOfSearch'
  BY <1>1, <1>2, <1>9, Zenon DEF AheadOfSearch
<1> QED
  BY <1>6, <1>7, <1>12, <1>13, <1>14, Zenon DEF ListInv

\* GetOurs: the list to be built is empty and results are wanted.
LEMMA GetOursKeepsLists ==
  ASSUME ListInv, NEW t \in Threads, NEW n \in 1 .. MaxNodes, GetOurs(t, n)
  PROVE  ListInv'
<1>1. ListTypes /\ Built
  BY Zenon DEF ListInv
<1>2. /\ pc[t] = "idle" /\ pc' = [pc EXCEPT ![t] = "convert"]
      /\ wanted' = [wanted EXCEPT ![t] = n]
      /\ UNCHANGED <<ai_owned, heap, held, list, slot>>
  BY Zenon DEF GetOurs, At, Goto
<1>3. n \in Nat /\ n # 0
  BY NameAssumption
<1>4. /\ pc'[t] = "convert" /\ wanted'[t] = n
      /\ \A u \in Threads \ {t} : pc'[u] = pc[u] /\ wanted'[u] = wanted[u]
  BY <1>1, <1>2, Zenon DEF ListTypes
<1>5. pc' \in [Threads -> Places] /\ wanted' \in [Threads -> Nat]
  BY <1>1, <1>2, <1>3, Zenon DEF ListTypes, Places
<1>6. ListTypes'
  BY <1>1, <1>2, <1>5, Zenon DEF ListTypes
<1>7. list'[t] = <<>>
  BY <1>1, <1>2, Zenon DEF Built, ListAt, Elsewhere
<1>8. pc'[t] \notin Elsewhere /\ pc'[t] \notin {"remember"} \cup Freeing
  BY <1>4, Zenon DEF Elsewhere, Asking, Freeing
<1>9. ListAt(t)' /\ ~Searching(t) /\ ~Searching(t)'
  BY <1>2, <1>3, <1>4, <1>7, <1>8, NodesOfNone, Zenon DEF ListAt, From, Searching, Freeing
<1> QED
  BY <1>2, <1>4, <1>6, <1>9, PlaceKeepsLists, Zenon

\* Converted: the list is not empty.
LEMMA ConvertedKeepsLists ==
  ASSUME ListInv, NEW t \in Threads, Converted(t)
  PROVE  ListInv'
<1>1. ListTypes /\ Built
  BY Zenon DEF ListInv
<1>2. /\ pc[t] = "convert" /\ wanted[t] = 0 /\ pc' = [pc EXCEPT ![t] = "remember"]
      /\ slot' = [slot EXCEPT ![t] = 1]
      /\ UNCHANGED <<ai_owned, heap, held, list, wanted>>
  BY Zenon DEF Converted, At, Goto
<1>3. 1 \in Nat \ {0}
  OBVIOUS
<1>4. pc'[t] = "remember" /\ \A u \in Threads \ {t} : pc'[u] = pc[u] /\ slot'[u] = slot[u]
  BY <1>1, <1>2, Zenon DEF ListTypes
<1>5. pc' \in [Threads -> Places] /\ slot' \in [Threads -> Nat \ {0}]
  BY <1>1, <1>2, <1>3, Zenon DEF ListTypes, Places
<1>6. ListTypes'
  BY <1>1, <1>2, <1>5, Zenon DEF ListTypes
<1>7. From(list[t], "shim") /\ list[t] # <<>>
  BY <1>1, <1>2, Zenon DEF Built, ListAt
<1>8. pc'[t] \notin Elsewhere
  BY <1>4, Zenon DEF Elsewhere, Asking
<1>9. ListAt(t)' /\ ~Searching(t) /\ ~Searching(t)'
  BY <1>2, <1>4, <1>7, <1>8, Zenon DEF ListAt, From, Searching
<1> QED
  BY <1>2, <1>4, <1>6, <1>9, PlaceKeepsLists, Zenon

\* Convert: the new node was on no list.
LEMMA ConvertKeepsLists ==
  ASSUME ListInv, NEW t \in Threads, NEW a \in Addrs, Convert(t, a)
  PROVE  ListInv'
<1> DEFINE m == Append(list[t], a)
<1>1. ListTypes /\ NodeHasOneOwner /\ Built /\ Recorded /\ AheadOfSearch
  BY Zenon DEF ListInv
<1>2. /\ pc[t] = "convert" /\ wanted[t] > 0
      /\ heap[a] = "free" /\ heap' = [heap EXCEPT ![a] = "shim"]
      /\ list' = [list EXCEPT ![t] = m]
      /\ wanted' = [wanted EXCEPT ![t] = wanted[t] - 1]
      /\ UNCHANGED <<ai_owned, held, slot, pc>>
  BY Zenon DEF Convert, At
<1>3. m \in Seq(Addrs) /\ m # <<>> /\ Nodes(m) = Nodes(list[t]) \cup {a}
  BY <1>1, NodesOfAppend, Zenon DEF ListTypes
<1>4. heap'[a] = "shim" /\ \A b \in Addrs \ {a} : heap'[b] = heap[b]
  BY <1>1, <1>2, Zenon DEF ListTypes
<1>5. /\ \A l \in held : a \notin Nodes(l)
      /\ \A u \in Threads : a \notin Nodes(list[u])
  BY <1>2, NodesTaken, Zenon
<1> HIDE DEF m
<1>6. /\ list'[t] = m
      /\ \A u \in Threads \ {t} : list'[u] = list[u] /\ wanted'[u] = wanted[u]
  BY <1>1, <1>2, Zenon DEF ListTypes
<1>7. ListTypes'
  <2>1. wanted[t] - 1 \in Nat
    BY <1>1, <1>2 DEF ListTypes
  <2>2. /\ heap' \in [Addrs -> {"free", "shim", "nsysnet"}]
        /\ list' \in [Threads -> Seq(Addrs)] /\ wanted' \in [Threads -> Nat]
    BY <1>1, <1>2, <1>3, <2>1, Zenon DEF ListTypes
  <2> QED
    BY <1>1, <1>2, <2>2, Zenon DEF ListTypes
<1>8. NodeHasOneOwner'
  <2>1. \A l \in held : Apart(l, list[t]) => Apart(l, m)
    BY <1>3, <1>5, Zenon DEF Apart
  <2>2. \A u \in Threads : /\ Apart(list[u], list[t]) => Apart(list[u], m)
                           /\ Apart(list[t], list[u]) => Apart(m, list[u])
    BY <1>3, <1>5, Zenon DEF Apart
  <2>3. \A u \in Threads : \A l \in held' : Apart(l, list'[u])
    BY <1>1, <1>2, <1>6, <2>1, Zenon DEF NodeHasOneOwner
  <2>4. \A u, v \in Threads : u # v => Apart(list'[u], list'[v])
    BY <1>1, <1>6, <2>2, Zenon DEF NodeHasOneOwner
  <2> QED
    BY <1>1, <1>2, <2>3, <2>4, Zenon DEF NodeHasOneOwner
<1>9. /\ \A u \in Threads \ {t} : ListAt(u)' /\ (Searching(u)' <=> Searching(u))
      /\ \A l \in held : Whole(l)' /\ heap'[l[1]] = heap[l[1]]
  <2>1. \A l \in held : \A b \in Nodes(l) : heap'[b] = heap[b]
    BY <1>1, <1>4, <1>5, NodesOfList, ZenonT(30) DEF ListTypes
  <2>2. \A u \in Threads : \A b \in Nodes(list[u]) : heap'[b] = heap[b]
    <3>1. \A u \in Threads : Nodes(list[u]) \subseteq Addrs
      BY HeadIsNode, Zenon
    <3> QED
      BY <1>4, <1>5, <3>1, Zenon
  <2>3. Alone(t)
    BY <1>2, <1>6, <2>1, <2>2, Zenon DEF Alone
  <2> QED
    BY <2>3, OthersKept, Zenon
<1>10. ListAt(t)' /\ ~Searching(t) /\ ~Searching(t)'
  <2>1. From(list[t], "shim")
    BY <1>1, <1>2, Zenon DEF Built, ListAt
  <2>2. \A b \in Nodes(m) : heap'[b] = "shim"
    BY <1>1, <1>3, <1>4, <2>1, NodesOfList, Zenon DEF From, ListTypes
  <2>3. pc'[t] = "convert" /\ pc'[t] \notin Elsewhere
    BY <1>2, Zenon DEF Elsewhere, Asking
  <2> QED
    BY <1>2, <1>3, <1>6, <2>2, <2>3, Zenon DEF ListAt, From, Searching
<1>11. Built'
  BY <1>2, <1>9, <1>10, Zenon DEF Built
<1>12. Recorded' /\ AheadOfSearch'
  <2>1. \A u \in Threads : Searching(u)' <=> Searching(u)
    BY <1>9, <1>10, Zenon
  <2>2. \A u \in Threads : Searching(u) => list'[u] = list[u] /\ slot'[u] = slot[u]
    BY <1>2, <1>6, <1>10, Zenon
  <2> QED
    BY <1>1, <1>2, <1>9, <2>1, <2>2, TableKept, Zenon
<1> QED
  BY <1>7, <1>8, <1>11, <1>12, Zenon DEF ListInv

\* Steps that free the list of thread t, which is in no slot of the table: ConvertFails,
\* Remember with a full table, FreeAll.
LEMMA DropKeepsLists ==
  ASSUME ListInv, NEW t \in Threads, pc[t] \in {"convert", "remember", "free_ours", "free_real"},
         Freed(list[t]), list' = [list EXCEPT ![t] = <<>>], pc' = [pc EXCEPT ![t] = "idle"],
         wanted' = wanted \/ wanted' = [wanted EXCEPT ![t] = 0],
         UNCHANGED <<ai_owned, held, slot>>
  PROVE  ListInv'
<1>1. ListTypes /\ NodeHasOneOwner /\ Built /\ Recorded /\ AheadOfSearch
  BY Zenon DEF ListInv
<1>2. /\ list'[t] = <<>> /\ pc'[t] = "idle"
      /\ \A u \in Threads \ {t} : list'[u] = list[u] /\ pc'[u] = pc[u] /\ wanted'[u] = wanted[u]
  BY <1>1, Zenon DEF ListTypes
<1>3. \A a \in Addrs : /\ a \in Nodes(list[t]) => heap'[a] = "free"
                       /\ a \notin Nodes(list[t]) => heap'[a] = heap[a]
  BY Zenon DEF Freed
<1>4. ListTypes'
  <2>1. 0 \in Nat
    OBVIOUS
  <2>2. heap' \in [Addrs -> {"free", "shim", "nsysnet"}]
    BY <1>1, Zenon DEF Freed, ListTypes
  <2>3. list' \in [Threads -> Seq(Addrs)]
    <3>1. <<>> \in Seq(Addrs)
      OBVIOUS
    <3> QED
      BY <1>1, <3>1, Zenon DEF ListTypes
  <2>4. wanted' \in [Threads -> Nat] /\ pc' \in [Threads -> Places]
    BY <1>1, <2>1, Zenon DEF ListTypes, Places
  <2> QED
    BY <1>1, <2>2, <2>3, <2>4, Zenon DEF ListTypes
<1>5. NodeHasOneOwner'
  <2>1. \A l : Apart(l, <<>>) /\ Apart(<<>>, l)
    BY NodesOfNone, Zenon DEF Apart
  <2>2. \A u \in Threads : \A l \in held' : Apart(l, list'[u])
    BY <1>1, <1>2, <2>1, Zenon DEF NodeHasOneOwner
  <2>3. \A u, v \in Threads : u # v => Apart(list'[u], list'[v])
    <3>1. ASSUME NEW u \in Threads, NEW v \in Threads, u # v
          PROVE  Apart(list'[u], list'[v])
      <4>1. CASE u = t \/ v = t
        BY <1>2, <2>1, <4>1, ZenonT(30)
      <4>2. CASE u # t /\ v # t
        BY <1>1, <1>2, <3>1, <4>2, Zenon DEF NodeHasOneOwner
      <4> QED
        BY <4>1, <4>2, Zenon
    <3> QED
      BY <3>1, Zenon
  <2> QED
    BY <1>1, <2>2, <2>3, Zenon DEF NodeHasOneOwner
<1>6. Alone(t)
  <2>1. \A l \in held : \A a \in Nodes(l) : heap'[a] = heap[a]
    BY <1>1, <1>3, NodesOfList, Zenon DEF NodeHasOneOwner, Apart, ListTypes
  <2>2. \A u \in Threads \ {t} : \A a \in Nodes(list[u]) : heap'[a] = heap[a]
    BY <1>1, <1>3, NodesOfList, Zenon DEF NodeHasOneOwner, Apart, ListTypes
  <2> QED
    BY <1>2, <2>1, <2>2, Zenon DEF Alone
<1>7. /\ \A u \in Threads \ {t} : ListAt(u)' /\ (Searching(u)' <=> Searching(u))
      /\ \A l \in held : Whole(l)' /\ heap'[l[1]] = heap[l[1]]
  BY <1>6, OthersKept, Zenon
<1>8. ListAt(t)' /\ ~Searching(t) /\ ~Searching(t)'
  <2>1. pc'[t] \notin Freeing
    BY <1>2, Zenon DEF Freeing
  <2> QED
    BY <1>2, <2>1, Zenon DEF ListAt, Searching
<1>9. Built'
  BY <1>7, <1>8, Zenon DEF Built
<1>10. Recorded' /\ AheadOfSearch'
  <2>1. \A u \in Threads : Searching(u)' <=> Searching(u)
    BY <1>7, <1>8, Zenon
  <2>2. \A u \in Threads : Searching(u) => list'[u] = list[u] /\ slot'[u] = slot[u]
    BY <1>2, <1>8, Zenon
  <2> QED
    BY <1>1, <1>7, <2>1, <2>2, TableKept, Zenon
<1> QED
  BY <1>4, <1>5, <1>9, <1>10, Zenon DEF ListInv

\* Remember that takes a free slot: the list becomes the title's with its head recorded.
LEMMA HandOutKeepsLists ==
  ASSUME ListInv, NEW t \in Threads, pc[t] = "remember", slot[t] \in Slots,
         ai_owned[slot[t]] = NoAddr, ai_owned' = [ai_owned EXCEPT ![slot[t]] = list[t][1]],
         HandOut(t), UNCHANGED <<heap, slot, wanted>>
  PROVE  ListInv'
<1>0. PICK m, s : m = list[t] /\ s = slot[t]
  OBVIOUS
<1>1. ListTypes /\ NodeHasOneOwner /\ Built /\ Recorded /\ AheadOfSearch
  BY Zenon DEF ListInv
<1>2. /\ held' = held \cup {m} /\ list'[t] = <<>> /\ pc'[t] = "idle"
      /\ \A u \in Threads \ {t} : list'[u] = list[u] /\ pc'[u] = pc[u]
  BY <1>0, <1>1, Zenon DEF HandOut, Goto, ListTypes
<1>3. m \in Seq(Addrs) /\ m # <<>> /\ From(m, "shim") /\ m[1] \in Nodes(m) /\ m[1] \in Addrs
  BY <1>0, <1>1, HeadIsNode, Zenon DEF ListTypes, Built, ListAt
<1>4. ai_owned'[s] = m[1] /\ \A i \in Slots \ {s} : ai_owned'[i] = ai_owned[i]
  BY <1>0, <1>1, Zenon DEF ListTypes
<1>5. ListTypes'
  <2>1. <<>> \in Seq(Addrs)
    OBVIOUS
  <2>2. list' \in [Threads -> Seq(Addrs)] /\ pc' \in [Threads -> Places]
    BY <1>1, <2>1, Zenon DEF HandOut, Goto, ListTypes, Places
  <2>3. ai_owned' \in [Slots -> Addrs \cup {NoAddr}]
    BY <1>0, <1>1, <1>3, Zenon DEF ListTypes
  <2> QED
    BY <1>1, <1>2, <1>3, <2>2, <2>3, Zenon DEF ListTypes
<1>6. NodeHasOneOwner'
  <2>1. \A l : Apart(l, <<>>) /\ Apart(<<>>, l)
    BY NodesOfNone, Zenon DEF Apart
  <2>2. \A l \in held : Apart(l, m) /\ Apart(m, l)
    BY <1>0, <1>1, Zenon DEF NodeHasOneOwner, Apart
  <2>3. \A l, k \in held' : l # k => Apart(l, k)
    BY <1>1, <1>2, <2>2, Zenon DEF NodeHasOneOwner
  <2>4. \A u \in Threads : \A l \in held' : Apart(l, list'[u])
    BY <1>0, <1>1, <1>2, <2>1, Zenon DEF NodeHasOneOwner
  <2>5. \A u, v \in Threads : u # v => Apart(list'[u], list'[v])
    BY <1>0, <1>1, <1>2, <2>1, Zenon DEF NodeHasOneOwner
  <2> QED
    BY <2>3, <2>4, <2>5, Zenon DEF NodeHasOneOwner
<1>7. /\ \A u \in Threads \ {t} : ListAt(u)' /\ (Searching(u)' <=> Searching(u))
      /\ \A l \in held : Whole(l)' /\ heap'[l[1]] = heap[l[1]]
  <2>1. Alone(t)
    BY <1>2, Zenon DEF Alone
  <2> QED
    BY <2>1, OthersKept, Zenon
<1>8. ListAt(t)' /\ ~Searching(t) /\ ~Searching(t)'
  <2>1. pc'[t] \notin Freeing
    BY <1>2, Zenon DEF Freeing
  <2> QED
    BY <1>2, <2>1, Zenon DEF ListAt, Searching
<1>9. Whole(m)' /\ heap'[m[1]] = "shim"
  BY <1>3, Zenon DEF Whole, From
<1>10. Built'
  BY <1>2, <1>7, <1>8, <1>9, Zenon DEF Built
<1>11. ASSUME NEW i \in Slots, ai_owned[i] = m[1]
       PROVE  FALSE
  <2>1. ai_owned[i] # NoAddr
    BY <1>3, <1>11, NameAssumption, Zenon
  <2>2. \/ \E l \in held : ai_owned[i] = l[1]
        \/ \E u \in Threads : Searching(u) /\ ai_owned[i] = list[u][1]
    BY <1>1, <2>1, Zenon DEF Recorded, SlotHasList
  <2>3. \A u \in Threads : Searching(u) => list[u] # <<>> /\ u # t
    BY HeadIsNode, Zenon DEF Searching, Freeing
  <2>4. /\ \A l \in held : l[1] # m[1]
        /\ \A u \in Threads : Searching(u) => list[u][1] # m[1]
    BY <1>0, <1>3, <2>3, HeadsDiffer, Zenon
  <2> QED
    BY <1>11, <2>2, <2>4, Zenon
<1>12. SlotHasList'
  <2>1. ASSUME NEW i \in Slots \ {s}, ai_owned'[i] # NoAddr
        PROVE  \/ \E l \in held' : heap'[l[1]] = "shim" /\ ai_owned'[i] = l[1]
               \/ \E u \in Threads : Searching(u)' /\ ai_owned'[i] = list'[u][1]
    <3>1. i \in Slots /\ ai_owned'[i] = ai_owned[i] /\ ai_owned[i] # NoAddr
      BY <1>4, <2>1, Zenon
    <3>2. \/ \E l \in held : heap[l[1]] = "shim" /\ ai_owned[i] = l[1]
          \/ \E u \in Threads : Searching(u) /\ ai_owned[i] = list[u][1]
      BY <1>1, <3>1, Zenon DEF Recorded, SlotHasList
    <3>3. \A u \in Threads : Searching(u) => Searching(u)' /\ list'[u] = list[u]
      BY <1>2, <1>7, <1>8, Zenon
    <3> QED
      BY <1>2, <1>7, <3>1, <3>2, <3>3, Zenon
  <2> QED
    BY <1>0, <1>2, <1>4, <1>9, <2>1, ZenonT(30) DEF SlotHasList
<1>13. ListHasSlot'
  <2>1. ASSUME NEW l \in held, heap'[l[1]] = "shim"
        PROVE  \E i \in Slots : ai_owned'[i] = l[1]
    <3>1. PICK i \in Slots : ai_owned[i] = l[1]
      BY <1>1, <1>7, <2>1, Zenon DEF Recorded, ListHasSlot
    <3>2. l[1] # NoAddr
      BY HeadIsNode, NameAssumption, Zenon
    <3> QED
      BY <1>0, <1>4, <3>1, <3>2, Zenon
  <2> QED
    BY <1>0, <1>2, <1>4, <2>1, Zenon DEF ListHasSlot
<1>14. SlotIsOwn'
  <2>1. ASSUME NEW i \in Slots, NEW j \in Slots, ai_owned'[i] = ai_owned'[j], ai_owned'[i] # NoAddr
        PROVE  i = j
    <3>1. CASE i # s /\ j # s
      <4>1. ai_owned[i] = ai_owned[j] /\ ai_owned[i] # NoAddr
        BY <1>4, <2>1, <3>1, Zenon
      <4> QED
        BY <1>1, <4>1, Zenon DEF Recorded, SlotIsOwn
    <3>2. CASE i = s \/ j = s
      BY <1>4, <1>11, <2>1, <3>2, Zenon
    <3> QED
      BY <3>1, <3>2, Zenon
  <2> QED
    BY <2>1, Zenon DEF SlotIsOwn
<1>15. AheadOfSearch'
  <2>1. ASSUME NEW u \in Threads, Searching(u)'
        PROVE  \E i \in Slots : i >= slot'[u] /\ ai_owned'[i] = list'[u][1]
    <3>1. Searching(u) /\ list'[u] = list[u]
      BY <1>2, <1>7, <1>8, <2>1, Zenon
    <3>2. list[u][1] # NoAddr
      BY <3>1, HeadIsNode, NameAssumption, Zenon DEF Searching, Freeing
    <3>3. PICK i \in Slots : i >= slot[u] /\ ai_owned[i] = list[u][1]
      BY <1>1, <3>1, Zenon DEF AheadOfSearch
    <3> QED
      BY <1>0, <1>4, <3>1, <3>2, <3>3, Zenon
  <2> QED
    BY <2>1, Zenon DEF AheadOfSearch
<1> QED
  BY <1>5, <1>6, <1>10, <1>12, <1>13, <1>14, <1>15, Zenon DEF ListInv, Recorded

\* Remember, whatever it finds in the slot.
LEMMA RememberKeepsLists ==
  ASSUME ListInv, NEW t \in Threads, Remember(t)
  PROVE  ListInv'
<1>1. ListTypes /\ Built
  BY Zenon DEF ListInv
<1>2. pc[t] = "remember" /\ UNCHANGED wanted
  BY Zenon DEF Remember, At
<1>3. CASE slot[t] \in Slots /\ ai_owned[slot[t]] = NoAddr
  BY <1>2, <1>3, HandOutKeepsLists, Zenon DEF Remember
<1>4. CASE slot[t] \in Slots /\ ai_owned[slot[t]] # NoAddr
  <2>1. slot' = [slot EXCEPT ![t] = slot[t] + 1] /\ UNCHANGED <<ai_owned, heap, held, list, pc>>
    BY <1>4, Zenon DEF Remember
  <2>2. slot[t] + 1 \in Nat \ {0}
    BY <1>1 DEF ListTypes
  <2>3. slot' \in [Threads -> Nat \ {0}] /\ \A u \in Threads \ {t} : slot'[u] = slot[u]
    BY <1>1, <2>1, <2>2, Zenon DEF ListTypes
  <2>4. ListTypes'
    BY <1>1, <1>2, <2>1, <2>3, Zenon DEF ListTypes
  <2>5. ListAt(t)' /\ ~Searching(t) /\ ~Searching(t)'
    BY <1>1, <1>2, <2>1, Zenon DEF Built, ListAt, Whole, From, Searching
  <2> QED
    BY <1>2, <2>1, <2>3, <2>4, <2>5, PlaceKeepsLists, Zenon
<1>5. CASE slot[t] \notin Slots
  BY <1>2, <1>5, DropKeepsLists, Zenon DEF Remember, Goto
<1> QED
  BY <1>3, <1>4, <1>5, Zenon

\* FreeList: the list goes from the title to the thread, which starts to look for it.
LEMMA FreeListKeepsLists ==
  ASSUME ListInv, NEW t \in Threads, NEW m \in held, FreeList(t, m)
  PROVE  ListInv'
<1>1. ListTypes /\ NodeHasOneOwner /\ Built /\ Recorded /\ AheadOfSearch
  BY Zenon DEF ListInv
<1>2. /\ pc[t] = "idle" /\ held' = held \ {m} /\ list' = [list EXCEPT ![t] = m]
      /\ slot' = [slot EXCEPT ![t] = 1] /\ pc' = [pc EXCEPT ![t] = "is_ours"]
      /\ UNCHANGED <<ai_owned, heap, wanted>>
  BY Zenon DEF FreeList, At, Goto
<1>3. /\ list'[t] = m /\ slot'[t] = 1 /\ pc'[t] = "is_ours"
      /\ \A u \in Threads \ {t} : list'[u] = list[u] /\ slot'[u] = slot[u] /\ pc'[u] = pc[u]
  BY <1>1, <1>2, Zenon DEF ListTypes
<1>4. m \in Seq(Addrs) /\ m # <<>> /\ Whole(m)
  BY <1>1, Zenon DEF ListTypes, Built
<1>5. ListTypes'
  <2>1. 1 \in Nat \ {0}
    OBVIOUS
  <2>2. /\ list' \in [Threads -> Seq(Addrs)] /\ slot' \in [Threads -> Nat \ {0}]
        /\ pc' \in [Threads -> Places]
    BY <1>1, <1>2, <1>4, <2>1, Zenon DEF ListTypes, Places
  <2> QED
    BY <1>1, <1>2, <2>2, Zenon DEF ListTypes
<1>6. NodeHasOneOwner'
  <2>1. \A l \in held \ {m} : Apart(l, m)
    BY <1>1, Zenon DEF NodeHasOneOwner
  <2>2. \A u \in Threads : Apart(m, list[u]) /\ Apart(list[u], m)
    BY <1>1, Zenon DEF NodeHasOneOwner, Apart
  <2>3. \A u \in Threads : \A l \in held' : Apart(l, list'[u])
    BY <1>1, <1>2, <1>3, <2>1, Zenon DEF NodeHasOneOwner
  <2>4. \A u, v \in Threads : u # v => Apart(list'[u], list'[v])
    BY <1>1, <1>3, <2>2, Zenon DEF NodeHasOneOwner
  <2> QED
    BY <1>1, <1>2, <2>3, <2>4, Zenon DEF NodeHasOneOwner
<1>7. /\ \A u \in Threads \ {t} : ListAt(u)' /\ (Searching(u)' <=> Searching(u))
      /\ \A l \in held : Whole(l)' /\ heap'[l[1]] = heap[l[1]]
  <2>1. Alone(t)
    BY <1>2, <1>3, Zenon DEF Alone
  <2> QED
    BY <2>1, OthersKept, Zenon
<1>8. ListAt(t)' /\ ~Searching(t) /\ (Searching(t)' <=> heap[m[1]] = "shim")
  <2>1. pc'[t] \notin Elsewhere
    BY <1>3, Zenon DEF Elsewhere, Asking
  <2> QED
    BY <1>2, <1>3, <1>4, <2>1, Zenon DEF ListAt, Whole, From, Searching
<1>9. Built'
  BY <1>2, <1>7, <1>8, Zenon DEF Built
<1>10. SlotHasList'
  <2>1. ASSUME NEW i \in Slots, ai_owned'[i] # NoAddr
        PROVE  \/ \E l \in held' : heap'[l[1]] = "shim" /\ ai_owned'[i] = l[1]
               \/ \E u \in Threads : Searching(u)' /\ ai_owned'[i] = list'[u][1]
    <3>1. \/ \E l \in held : heap[l[1]] = "shim" /\ ai_owned[i] = l[1]
          \/ \E u \in Threads : Searching(u) /\ ai_owned[i] = list[u][1]
      BY <1>1, <1>2, <2>1, Zenon DEF Recorded, SlotHasList
    <3>2. \A u \in Threads : Searching(u) => Searching(u)' /\ list'[u] = list[u]
      BY <1>3, <1>7, <1>8, Zenon
    <3>3. CASE \E l \in held : heap[l[1]] = "shim" /\ ai_owned[i] = l[1]
      <4>1. PICK l \in held : heap[l[1]] = "shim" /\ ai_owned[i] = l[1]
        BY <3>3, Zenon
      <4>2. CASE l = m
        BY <1>2, <1>3, <1>8, <4>1, <4>2, Zenon
      <4>3. CASE l # m
        <5>1. l \in held' /\ heap'[l[1]] = "shim" /\ ai_owned'[i] = l[1]
          BY <1>2, <4>1, <4>3, Zenon
        <5> QED
          BY <5>1, Zenon
      <4> QED
        BY <4>2, <4>3, Zenon
    <3>4. CASE \E u \in Threads : Searching(u) /\ ai_owned[i] = list[u][1]
      BY <1>2, <3>2, <3>4, Zenon
    <3> QED
      BY <3>1, <3>3, <3>4, Zenon
  <2> QED
    BY <2>1, Zenon DEF SlotHasList
<1>11. Recorded'
  BY <1>1, <1>2, <1>10, Zenon DEF Recorded, ListHasSlot, SlotIsOwn
<1>12. AheadOfSearch'
  <2>1. \A i \in Slots : i >= 1
    BY DEF Slots
  <2>2. ASSUME NEW u \in Threads, Searching(u)'
        PROVE  \E i \in Slots : i >= slot'[u] /\ ai_owned'[i] = list'[u][1]
    <3>1. CASE u = t
      <4>1. heap[m[1]] = "shim"
        BY <1>8, <2>2, <3>1, Zenon
      <4>2. PICK i \in Slots : ai_owned[i] = m[1]
        BY <1>1, <4>1, Zenon DEF Recorded, ListHasSlot
      <4> QED
        BY <1>2, <1>3, <2>1, <3>1, <4>2, ZenonT(30)
    <3>2. CASE u # t
      <4>1. Searching(u) /\ list'[u] = list[u] /\ slot'[u] = slot[u]
        BY <1>3, <1>7, <2>2, <3>2, Zenon
      <4> QED
        BY <1>1, <1>2, <4>1, Zenon DEF AheadOfSearch
    <3> QED
      BY <3>1, <3>2, Zenon
  <2> QED
    BY <2>2, Zenon DEF AheadOfSearch
<1> QED
  BY <1>5, <1>6, <1>9, <1>11, <1>12, Zenon DEF ListInv

\* IsOurs that finds the head: the list is of the shim, and its slot is given up.
LEMMA FoundKeepsLists ==
  ASSUME ListInv, NEW t \in Threads, pc[t] = "is_ours", slot[t] \in Slots,
         ai_owned[slot[t]] = list[t][1], ai_owned' = [ai_owned EXCEPT ![slot[t]] = NoAddr],
         pc' = [pc EXCEPT ![t] = "free_ours"], UNCHANGED <<heap, held, list, slot, wanted>>
  PROVE  ListInv'
<1>0. PICK m, s : m = list[t] /\ s = slot[t]
  OBVIOUS
<1>1. ListTypes /\ NodeHasOneOwner /\ Built /\ Recorded /\ AheadOfSearch
  BY Zenon DEF ListInv
<1>2. pc'[t] = "free_ours" /\ \A u \in Threads \ {t} : pc'[u] = pc[u]
  BY <1>1, Zenon DEF ListTypes
<1>3. /\ ai_owned[s] = m[1] /\ ai_owned'[s] = NoAddr
      /\ \A i \in Slots \ {s} : ai_owned'[i] = ai_owned[i]
  BY <1>0, <1>1, Zenon DEF ListTypes
<1>4. m # <<>> /\ m[1] \in Nodes(m) /\ m[1] # NoAddr /\ Whole(m)
  BY <1>0, <1>1, HeadIsNode, NameAssumption, Zenon DEF Freeing, Built, ListAt
<1>5. /\ \A l \in held : l[1] # m[1]
      /\ \A u \in Threads \ {t} : Searching(u) => list[u][1] # m[1]
  <2>1. \A u \in Threads : Searching(u) => list[u] # <<>>
    BY HeadIsNode, Zenon DEF Searching, Freeing
  <2> QED
    BY <1>0, <1>4, <2>1, HeadsDiffer, Zenon
<1>6. Searching(t) /\ From(m, "shim")
  <2>1. \/ \E l \in held : m[1] = l[1]
        \/ \E u \in Threads : Searching(u) /\ m[1] = list[u][1]
    BY <1>0, <1>1, <1>3, <1>4, ZenonT(30) DEF Recorded, SlotHasList
  <2>2. Searching(t)
    BY <1>5, <2>1, Zenon
  <2>3. heap[m[1]] = "shim"
    BY <1>0, <2>2, Zenon DEF Searching
  <2> QED
    BY <1>4, <2>2, <2>3, Zenon DEF Whole, From
<1>7. ListTypes'
  <2>1. ai_owned' \in [Slots -> Addrs \cup {NoAddr}] /\ pc' \in [Threads -> Places]
    BY <1>1, Zenon DEF ListTypes, Places
  <2> QED
    BY <1>1, <2>1, Zenon DEF ListTypes
<1>8. NodeHasOneOwner'
  BY <1>1, Zenon DEF NodeHasOneOwner
<1>9. /\ \A u \in Threads \ {t} : ListAt(u)' /\ (Searching(u)' <=> Searching(u))
      /\ \A l \in held : Whole(l)' /\ heap'[l[1]] = heap[l[1]]
  <2>1. Alone(t)
    BY <1>2, Zenon DEF Alone
  <2> QED
    BY <2>1, OthersKept, Zenon
<1>10. ListAt(t)' /\ ~Searching(t)'
  <2>1. pc'[t] \notin Elsewhere
    BY <1>2, Zenon DEF Elsewhere, Asking
  <2> QED
    BY <1>0, <1>2, <1>4, <1>6, <2>1, Zenon DEF ListAt, From, Searching
<1>11. Built'
  BY <1>9, <1>10, Zenon DEF Built
<1>12. SlotHasList'
  <2>1. ASSUME NEW i \in Slots, ai_owned'[i] # NoAddr
        PROVE  \/ \E l \in held' : heap'[l[1]] = "shim" /\ ai_owned'[i] = l[1]
               \/ \E u \in Threads : Searching(u)' /\ ai_owned'[i] = list'[u][1]
    <3>1. i # s /\ ai_owned'[i] = ai_owned[i] /\ ai_owned[i] # NoAddr
      BY <1>3, <2>1, Zenon
    <3>2. ai_owned[i] # m[1]
      BY <1>0, <1>1, <1>3, <1>4, <3>1, Zenon DEF Recorded, SlotIsOwn
    <3>3. \/ \E l \in held : heap[l[1]] = "shim" /\ ai_owned[i] = l[1]
          \/ \E u \in Threads : Searching(u) /\ ai_owned[i] = list[u][1]
      BY <1>1, <3>1, Zenon DEF Recorded, SlotHasList
    <3>4. \A u \in Threads : Searching(u) /\ list[u][1] # m[1] => Searching(u)'
      BY <1>0, <1>9, Zenon
    <3> QED
      BY <3>1, <3>2, <3>3, <3>4, Zenon
  <2> QED
    BY <2>1, Zenon DEF SlotHasList
<1>13. ListHasSlot'
  <2>1. ASSUME NEW l \in held, heap[l[1]] = "shim"
        PROVE  \E i \in Slots : ai_owned'[i] = l[1]
    <3>1. PICK i \in Slots : ai_owned[i] = l[1]
      BY <1>1, <2>1, Zenon DEF Recorded, ListHasSlot
    <3> QED
      BY <1>3, <1>5, <3>1, Zenon
  <2> QED
    BY <2>1, Zenon DEF ListHasSlot
<1>14. SlotIsOwn'
  <2>1. ASSUME NEW i \in Slots, NEW j \in Slots, ai_owned'[i] = ai_owned'[j], ai_owned'[i] # NoAddr
        PROVE  i = j
    <3>1. i # s /\ j # s
      BY <1>3, <2>1, Zenon
    <3>2. ai_owned[i] = ai_owned[j] /\ ai_owned[i] # NoAddr
      BY <1>3, <2>1, <3>1, Zenon
    <3> QED
      BY <1>1, <3>2, Zenon DEF Recorded, SlotIsOwn
  <2> QED
    BY <2>1, Zenon DEF SlotIsOwn
<1>15. AheadOfSearch'
  <2>1. ASSUME NEW u \in Threads, Searching(u)'
        PROVE  \E i \in Slots : i >= slot'[u] /\ ai_owned'[i] = list'[u][1]
    <3>1. Searching(u) /\ list[u][1] # m[1]
      BY <1>5, <1>9, <1>10, <2>1, Zenon
    <3>2. PICK i \in Slots : i >= slot[u] /\ ai_owned[i] = list[u][1]
      BY <1>1, <3>1, Zenon DEF AheadOfSearch
    <3> QED
      BY <1>3, <3>1, <3>2, Zenon
  <2> QED
    BY <2>1, Zenon DEF AheadOfSearch
<1> QED
  BY <1>7, <1>8, <1>11, <1>12, <1>13, <1>14, <1>15, Zenon DEF ListInv, Recorded

\* IsOurs: a search that goes on has its slot ahead of it, one that reaches the end of the
\* table had none to find.
LEMMA IsOursKeepsLists ==
  ASSUME ListInv, NEW t \in Threads, IsOurs(t)
  PROVE  ListInv'
<1>1. ListTypes /\ Built /\ AheadOfSearch
  BY Zenon DEF ListInv
<1>2. pc[t] = "is_ours" /\ UNCHANGED <<heap, held, list, wanted>>
  BY Zenon DEF IsOurs, At
<1>3. Whole(list[t]) /\ list[t] # <<>> /\ list[t][1] \in Nodes(list[t]) /\ list[t][1] \in Addrs
  BY <1>1, <1>2, HeadIsNode, Zenon DEF Built, ListAt, Freeing
<1>4. CASE slot[t] \in Slots /\ ai_owned[slot[t]] = list[t][1]
  BY <1>2, <1>4, FoundKeepsLists, Zenon DEF IsOurs, Goto
<1>5. CASE slot[t] \in Slots /\ ai_owned[slot[t]] # list[t][1]
  <2>1. slot' = [slot EXCEPT ![t] = slot[t] + 1] /\ UNCHANGED <<ai_owned, pc>>
    BY <1>5, Zenon DEF IsOurs
  <2>2. slot[t] \in Nat /\ slot[t] + 1 \in Nat \ {0}
    BY <1>1 DEF ListTypes
  <2>3. /\ slot' \in [Threads -> Nat \ {0}] /\ slot'[t] = slot[t] + 1
        /\ \A u \in Threads \ {t} : slot'[u] = slot[u]
    BY <1>1, <2>1, <2>2, Zenon DEF ListTypes
  <2>4. ListTypes'
    BY <1>1, <1>2, <2>1, <2>3, Zenon DEF ListTypes
  <2>5. ListAt(t)' /\ (Searching(t)' <=> Searching(t))
    BY <1>1, <1>2, <2>1, Zenon DEF Built, ListAt, Whole, From, Searching
  <2>6. Searching(t) => \E i \in Slots : i >= slot'[t] /\ ai_owned[i] = list[t][1]
    <3>1. \A i \in Slots : i >= slot[t] /\ i # slot[t] => i >= slot[t] + 1
      BY <2>2 DEF Slots
    <3> QED
      BY <1>1, <1>5, <2>3, <3>1, Zenon DEF AheadOfSearch
  <2> QED
    BY <1>2, <2>1, <2>3, <2>4, <2>5, <2>6, PlaceKeepsLists, Zenon
<1>6. CASE slot[t] \notin Slots
  <2>1. pc' = [pc EXCEPT ![t] = "free_real"] /\ UNCHANGED <<ai_owned, slot>>
    BY <1>6, Zenon DEF IsOurs, Goto
  <2>2. pc'[t] = "free_real" /\ \A u \in Threads \ {t} : pc'[u] = pc[u]
    BY <1>1, <2>1, Zenon DEF ListTypes
  <2>3. ListTypes'
    <3>1. pc' \in [Threads -> Places]
      BY <1>1, <2>1, Zenon DEF ListTypes, Places
    <3> QED
      BY <1>1, <1>2, <2>1, <3>1, Zenon DEF ListTypes
  <2>4. ~Searching(t)
    <3>1. slot[t] \in Nat \ {0}
      BY <1>1, Zenon DEF ListTypes
    <3>2. \A i \in Slots : ~(i >= slot[t])
      BY <1>6, <3>1, NameAssumption DEF Slots
    <3> QED
      BY <1>1, <3>2, Zenon DEF AheadOfSearch
  <2>5. From(list[t], "nsysnet")
    <3>1. heap[list[t][1]] # "shim"
      BY <1>2, <2>4, Zenon DEF Searching
    <3> QED
      BY <1>3, <3>1, Zenon DEF Whole, From
  <2>6. pc'[t] \notin Elsewhere
    BY <2>2, Zenon DEF Elsewhere, Asking
  <2>7. ListAt(t)' /\ ~Searching(t)'
    BY <1>2, <1>3, <2>2, <2>5, <2>6, Zenon DEF ListAt, From, Searching
  <2> QED
    BY <1>2, <2>1, <2>2, <2>3, <2>4, <2>7, PlaceKeepsLists, Zenon
<1> QED
  BY <1>4, <1>5, <1>6, Zenon

\* With every thread idle, no list and an empty table there is nothing to know: at the
\* start, and when the next title begins.
NoLists ==
  /\ ai_owned = [i \in Slots |-> NoAddr] /\ heap = [a \in Addrs |-> "free"] /\ held = {}
  /\ pc = Quiet /\ list = [t \in Threads |-> <<>>] /\ slot = [t \in Threads |-> 1]
  /\ wanted = [t \in Threads |-> 0]

\* Then the invariant holds.
LEMMA NoListsHaveInv == NoLists => ListInv
<1> SUFFICES ASSUME NoLists PROVE ListInv
  OBVIOUS
<1>1. <<>> \in Seq(Addrs) /\ 1 \in Nat \ {0} /\ 0 \in Nat
  OBVIOUS
<1>2. \A t \in Threads : pc[t] = "idle" /\ list[t] = <<>>
  BY Zenon DEF NoLists, Quiet
<1>3. ListTypes
  BY <1>1, Zenon DEF NoLists, ListTypes, Quiet, Places
<1>4. NodeHasOneOwner
  BY <1>2, NodesOfNone, Zenon DEF NoLists, NodeHasOneOwner, Apart
<1>5. \A t \in Threads : ListAt(t) /\ ~Searching(t)
  <2>1. "idle" \notin Freeing
    BY Zenon DEF Freeing
  <2> QED
    BY <1>2, <2>1, Zenon DEF ListAt, Searching
<1>6. Built
  BY <1>5, Zenon DEF NoLists, Built
<1>7. Recorded /\ AheadOfSearch
  BY <1>5, Zenon DEF NoLists, Recorded, SlotHasList, ListHasSlot, SlotIsOwn, AheadOfSearch
<1> QED
  BY <1>3, <1>4, <1>6, <1>7, Zenon DEF ListInv

\* Every step keeps the invariant of the lists.
LEMMA NextKeepsLists ==
  ASSUME ListInv, [Next]_vars
  PROVE  ListInv'
<1>1. ASSUME NEW t \in Threads, NEW a \in Addrs, Convert(t, a) PROVE ListInv'
  BY <1>1, ConvertKeepsLists, Zenon
<1>2. ASSUME NEW t \in Threads, ConvertFails(t) PROVE ListInv'
  BY <1>2, DropKeepsLists, Zenon DEF ConvertFails, At, Goto
<1>3. ASSUME NEW t \in Threads, Converted(t) PROVE ListInv'
  BY <1>3, ConvertedKeepsLists, Zenon
<1>4. ASSUME NEW t \in Threads, Remember(t) PROVE ListInv'
  BY <1>4, RememberKeepsLists, Zenon
<1>5. ASSUME NEW t \in Threads, IsOurs(t) PROVE ListInv'
  BY <1>5, IsOursKeepsLists, Zenon
<1>6. ASSUME NEW t \in Threads, FreeAll(t) PROVE ListInv'
  BY <1>6, DropKeepsLists, Zenon DEF FreeAll, Goto
<1>7. ASSUME NEW t \in Threads, NEW a \in Addrs, GetNative(t, a) PROVE ListInv'
  BY <1>7, GetNativeKeepsLists, Zenon
<1>8. ASSUME NEW t \in Threads, NEW n \in 1 .. MaxNodes, GetOurs(t, n) PROVE ListInv'
  BY <1>8, GetOursKeepsLists, Zenon
<1>9. ASSUME NEW t \in Threads, NEW l \in held, FreeList(t, l) PROVE ListInv'
  BY <1>9, FreeListKeepsLists, Zenon
<1>10. ASSUME NEW t \in Threads,
              \/ SkipServer(t) \/ (\E p \in Ports, id \in Ids : OpenSock(t, p, id))
              \/ Send(t) \/ GiveUp(t) \/ (\E r \in net : Receive(t, r))
              \/ Record(t) \/ Decode(t) \/ RecordsEnd(t) \/ NoServerLeft(t) \/ Restore(t)
              \/ (\E h \in Hosts : Lookup(t, h)) \/ NameFails(t) \/ Translate(t)
       PROVE  ListInv'
  <2>1. UNCHANGED listVars
    BY <1>10, Zenon
      DEF SkipServer, OpenSock, Send, GiveUp, Receive, Record, Decode, RecordsEnd, NoServerLeft,
          Restore, Translate, Lookup, NameFails
  <2>2. pc[t] \in Elsewhere
    BY <1>10, Zenon
      DEF SkipServer, OpenSock, Send, GiveUp, Receive, Record, Decode, RecordsEnd, NoServerLeft,
          Restore, Translate, Lookup, NameFails, At, Elsewhere, Asking
  <2>3. UNCHANGED pc \/ \E p \in Elsewhere : pc' = [pc EXCEPT ![t] = p]
    <3>1. \A p \in {"idle", "server", "send", "select", "records", "decode", "restore",
                    "translate"} : p \in Elsewhere
      BY Zenon DEF Elsewhere, Asking
    <3> QED
      BY <1>10, <3>1, Zenon
        DEF SkipServer, OpenSock, Send, GiveUp, Receive, Record, Decode, RecordsEnd,
            NoServerLeft, Restore, Translate, Lookup, NameFails, NextServer, Goto
  <2>4. CASE UNCHANGED pc
    BY <2>1, <2>4, StillKeepsLists, Zenon
  <2>5. CASE \E p \in Elsewhere : pc' = [pc EXCEPT ![t] = p]
    BY <2>1, <2>2, <2>5, ElsewhereKeepsLists, Zenon
  <2> QED
    BY <2>3, <2>4, <2>5, Zenon
<1>11. CASE Switch \/ (\E r \in net : Lose(r)) \/ UNCHANGED vars
  BY <1>11, StillKeepsLists, Zenon DEF Switch, Lose, vars
<1>12. CASE NextTitle
  <2>1. NoLists'
    BY <1>12, Zenon DEF NextTitle, Die, NoLists
  <2>2. NoLists' => ListInv'
    BY NoListsHaveInv, PTL
  <2> QED
    BY <2>1, <2>2, Zenon
<1> QED
  BY <1>1, <1>2, <1>3, <1>4, <1>5, <1>6, <1>7, <1>8, <1>9, <1>10, <1>11, <1>12, Zenon
     DEF Next, ThreadStep, ThreadCall

\* The invariant says what freeaddrinfo relies on.
LEMMA ListsAreRight == ListInv => FreedByItsHeap
<1> SUFFICES ASSUME ListInv PROVE FreedByItsHeap
  OBVIOUS
<1>1. Built /\ Recorded /\ AheadOfSearch
  BY Zenon DEF ListInv
<1>2. \A l \in Out : l[1] # NoAddr
  BY HeadIsNode, NameAssumption, Zenon DEF Out, Freeing
<1>3. \A i \in Slots : ai_owned[i] # NoAddr => \E l \in Out : ai_owned[i] = l[1]
  BY <1>1, Zenon DEF Recorded, SlotHasList, Out, Searching
<1>4. ASSUME NEW l \in Out
      PROVE  \E i \in Slots : ai_owned[i] = l[1]
  <2>1. CASE l \in held /\ heap[l[1]] = "shim"
    BY <1>1, <2>1, Zenon DEF Recorded, ListHasSlot
  <2>2. CASE \E t \in Threads : l = list[t] /\ Searching(t)
    BY <1>1, <2>2, Zenon DEF AheadOfSearch
  <2> QED
    BY <2>1, <2>2, Zenon DEF Out, Searching
<1>5. {ai_owned[i] : i \in Slots} \ {NoAddr} = {l[1] : l \in Out}
  <2>1. ASSUME NEW x
        PROVE  x \in {ai_owned[i] : i \in Slots} \ {NoAddr} <=> x \in {l[1] : l \in Out}
    <3>1. x \in {ai_owned[i] : i \in Slots} \ {NoAddr}
            <=> x # NoAddr /\ \E i \in Slots : x = ai_owned[i]
      BY Zenon
    <3>2. x \in {l[1] : l \in Out} <=> \E l \in Out : x = l[1]
      BY Zenon
    <3>3. (x # NoAddr /\ \E i \in Slots : x = ai_owned[i]) => \E l \in Out : x = l[1]
      BY <1>3, Zenon
    <3>4. (\E l \in Out : x = l[1]) => (x # NoAddr /\ \E i \in Slots : x = ai_owned[i])
      BY <1>2, <1>4, Zenon
    <3> QED
      BY <3>1, <3>2, <3>3, <3>4, Zenon
  <2> QED
    BY <2>1, Zenon
<1>6. TableIsExact
  BY <1>1, <1>5, Zenon DEF TableIsExact, Recorded, SlotIsOwn
<1> QED
  BY <1>1, <1>6, Zenon DEF FreedByItsHeap, Built, ListAt, From

\* freeaddrinfo gives every list back to the allocator that built it, and the table names
\* exactly the lists of the shim that are out.
THEOREM ListsFreedByTheirHeap == Spec => []FreedByItsHeap
<1>1. Init => ListInv
  BY NoListsHaveInv, Zenon DEF Init, NoLists
<1>2. ListInv /\ [Next]_vars => ListInv'
  BY NextKeepsLists, Zenon
<1> QED
  BY <1>1, <1>2, ListsAreRight, PTL DEF Spec

-------------------------------------------------------------------------------
(* The PTR client.                                                           *)

\* A closed socket is one too.
LEMMA NoSockIsOne == NoSock \in Socks
BY Zenon DEF NoSock, Socks

\* Nothing about the PTR client changes but where threads outside of it are.
LEMMA PtrKept ==
  ASSUME PtrInv, pc' \in [Threads -> Places], UNCHANGED <<host, sock>>,
         net' \subseteq net, \A t \in Threads : pc'[t] \in Asking => pc[t] \in Asking
  PROVE  PtrInv'
<1>1. PtrTypes'
  BY Zenon DEF PtrInv, PtrTypes
<1>2. PortIsOwn'
  BY Zenon DEF PtrInv, PortIsOwn
<1>3. AnswersById'
  BY Zenon DEF PtrInv, AnswersById
<1> QED
  BY <1>1, <1>2, <1>3, Zenon DEF PtrInv

\* A thread goes to a place where it has no query out.
LEMMA NotAskingKeepsPtr ==
  ASSUME PtrInv, NEW t \in Threads, NEW p \in Places \ Asking, pc' = [pc EXCEPT ![t] = p],
         NEW h \in Hosts \cup {NoHost}, host' = [host EXCEPT ![t] = h],
         NEW k \in Socks, sock' = [sock EXCEPT ![t] = k], UNCHANGED net
  PROVE  PtrInv'
<1>1. PtrTypes /\ PortIsOwn /\ AnswersById
  BY Zenon DEF PtrInv
<1>2. /\ pc'[t] = p /\ host'[t] = h
      /\ \A u \in Threads \ {t} : pc'[u] = pc[u] /\ host'[u] = host[u] /\ sock'[u] = sock[u]
  BY <1>1, Zenon DEF PtrTypes
<1>3. PtrTypes'
  BY <1>1, Zenon DEF PtrTypes
<1>4. \A u \in Threads : pc'[u] \in Asking =>
        u # t /\ pc[u] \in Asking /\ sock'[u] = sock[u] /\ host'[u] = host[u]
  BY <1>2, Zenon
<1>5. PortIsOwn'
  BY <1>1, <1>4, Zenon DEF PortIsOwn
<1>6. AnswersById'
  <2>1. ASSUME NEW u \in Threads, NEW r \in net, pc'[u] \in Asking, sock'[u].fresh,
               r.port = sock'[u].port, r.id = sock'[u].id
        PROVE  r.host = host'[u]
    <3>1. u # t /\ pc[u] \in Asking /\ sock'[u] = sock[u] /\ host'[u] = host[u]
      BY <1>4, <2>1, Zenon
    <3> QED
      BY <1>1, <2>1, <3>1, Zenon DEF AnswersById
  <2> QED
    BY <2>1, Zenon DEF AnswersById
<1> QED
  BY <1>3, <1>5, <1>6, Zenon DEF PtrInv

\* OpenSock: no thread has the port and, if fresh is true, no answer on its way to it the id.
LEMMA OpenSockKeepsPtr ==
  ASSUME PtrInv, NEW t \in Threads, NEW p \in Ports, NEW id \in Ids, OpenSock(t, p, id)
  PROVE  PtrInv'
<1>1. PtrTypes /\ PortIsOwn /\ AnswersById
  BY Zenon DEF PtrInv
<1>0. PICK new \in BOOLEAN : new = (\A r \in net : r.port = p => r.id # id)
  BY Zenon
<1>2. /\ sock' = [sock EXCEPT ![t] = [port |-> p, id |-> id, fresh |-> new]]
      /\ \A u \in Threads : sock[u].port # p
      /\ pc' = [pc EXCEPT ![t] = "send"] /\ UNCHANGED <<host, net>>
  BY <1>0, Zenon DEF OpenSock, Goto
<1>3. /\ sock'[t].port = p /\ sock'[t].id = id /\ sock'[t].fresh = new
      /\ \A u \in Threads \ {t} : pc'[u] = pc[u] /\ sock'[u] = sock[u]
  BY <1>1, <1>2, Zenon DEF PtrTypes
<1>4. PtrTypes'
  <2>1. [port |-> p, id |-> id, fresh |-> new] \in Socks
    BY Zenon DEF Socks
  <2> QED
    BY <1>1, <1>2, <2>1, Zenon DEF PtrTypes, Places
<1>5. PortIsOwn'
  <2>1. ASSUME NEW u \in Threads, NEW v \in Threads, pc'[u] \in Asking, pc'[v] \in Asking,
               sock'[u].port = sock'[v].port
        PROVE  u = v
    <3>1. CASE u # t /\ v # t
      BY <1>1, <1>3, <2>1, <3>1, Zenon DEF PortIsOwn
    <3>2. \A w \in Threads \ {t} : sock'[w].port # sock'[t].port
      BY <1>2, <1>3, Zenon
    <3> QED
      BY <2>1, <3>1, <3>2, Zenon
  <2> QED
    BY <2>1, Zenon DEF PortIsOwn
<1>6. AnswersById'
  <2>1. ASSUME NEW u \in Threads, NEW r \in net, pc'[u] \in Asking, sock'[u].fresh,
               r.port = sock'[u].port, r.id = sock'[u].id
        PROVE  r.host = host[u]
    <3>1. u # t
      BY <1>0, <1>3, <2>1, Zenon
    <3> QED
      BY <1>1, <1>3, <2>1, <3>1, Zenon DEF AnswersById
  <2> QED
    BY <1>2, <2>1, Zenon DEF AnswersById
<1> QED
  BY <1>4, <1>5, <1>6, Zenon DEF PtrInv

\* Send: the answer that may come carries the port, the id and the host of this query.
LEMMA SendKeepsPtr ==
  ASSUME PtrInv, NEW t \in Threads, Send(t)
  PROVE  PtrInv'
<1>0. PICK q : q = [port |-> sock[t].port, id |-> sock[t].id, host |-> host[t]]
  BY Zenon
<1>1. PtrTypes /\ PortIsOwn /\ AnswersById
  BY Zenon DEF PtrInv
<1>2. /\ pc[t] = "send" /\ net' = net \cup {q} /\ pc' = [pc EXCEPT ![t] = "select"]
      /\ UNCHANGED <<host, sock>>
  BY <1>0, Zenon DEF Send, At, Goto
<1>3. pc'[t] = "select" /\ \A u \in Threads \ {t} : pc'[u] = pc[u]
  BY <1>1, <1>2, Zenon DEF PtrTypes
<1>4. \A u \in Threads : pc'[u] \in Asking => pc[u] \in Asking
  BY <1>2, <1>3, Zenon DEF Asking
<1>5. q.port = sock[t].port /\ q.host = host[t]
  BY <1>0, Zenon
<1>6. PtrTypes'
  BY <1>1, <1>2, Zenon DEF PtrTypes, Places
<1>7. PortIsOwn'
  BY <1>1, <1>2, <1>4, Zenon DEF PortIsOwn
<1>8. AnswersById'
  <2>1. ASSUME NEW u \in Threads, NEW r \in net', pc'[u] \in Asking, sock[u].fresh,
               r.port = sock[u].port, r.id = sock[u].id
        PROVE  r.host = host[u]
    <3>1. CASE r \in net
      BY <1>1, <1>4, <2>1, <3>1, Zenon DEF AnswersById
    <3>2. CASE r = q
      <4>1. u = t
        BY <1>1, <1>2, <1>4, <1>5, <2>1, <3>2, ZenonT(30) DEF PortIsOwn, Asking
      <4> QED
        BY <1>5, <3>2, <4>1, Zenon
    <3> QED
      BY <1>2, <3>1, <3>2, Zenon
  <2> QED
    BY <1>2, <2>1, Zenon DEF AnswersById
<1> QED
  BY <1>6, <1>7, <1>8, Zenon DEF PtrInv

\* Lookup, GiveUp, Receive, Decode, RecordsEnd and Restore.
LEMMA CallKeepsPtr ==
  ASSUME PtrInv, NEW t \in Threads,
         \/ \E h \in Hosts : Lookup(t, h)
         \/ \E r \in net : Receive(t, r)
         \/ GiveUp(t) \/ Record(t) \/ Decode(t) \/ RecordsEnd(t) \/ Restore(t)
  PROVE  PtrInv'
<1>1. PtrTypes
  BY Zenon DEF PtrInv
<1>2. \A p \in {"idle", "server", "records", "decode", "restore"} : p \in Places \ Asking
  BY Zenon DEF Places, Asking
<1>3. /\ sock[t] \in Socks /\ host[t] \in Hosts \cup {NoHost}
      /\ UNCHANGED sock => sock' = [sock EXCEPT ![t] = sock[t]]
      /\ UNCHANGED host => host' = [host EXCEPT ![t] = host[t]]
  BY <1>1, Zenon DEF PtrTypes
<1>4. UNCHANGED net
  BY Zenon DEF Lookup, Receive, GiveUp, Record, Decode, RecordsEnd, Restore
<1>5. \E k \in Socks : sock' = [sock EXCEPT ![t] = k]
  BY <1>3, NoSockIsOne, Zenon
    DEF Lookup, Receive, GiveUp, Record, Decode, RecordsEnd, Restore, CloseSock
<1>6. \E h \in Hosts \cup {NoHost} : host' = [host EXCEPT ![t] = h]
  BY <1>3, Zenon DEF Lookup, Receive, GiveUp, Record, Decode, RecordsEnd, Restore
<1>7. \/ UNCHANGED pc /\ UNCHANGED <<host, sock>>
      \/ \E p \in Places \ Asking : pc' = [pc EXCEPT ![t] = p]
  BY <1>2, Zenon
    DEF Lookup, Receive, GiveUp, Record, Decode, RecordsEnd, Restore, NextServer, Goto
<1>8. CASE UNCHANGED pc /\ UNCHANGED <<host, sock>>
  BY <1>1, <1>4, <1>8, PtrKept, Zenon DEF PtrTypes
<1>9. CASE \E p \in Places \ Asking : pc' = [pc EXCEPT ![t] = p]
  BY <1>4, <1>5, <1>6, <1>9, NotAskingKeepsPtr, Zenon
<1> QED
  BY <1>7, <1>8, <1>9, Zenon

\* With every thread idle no query is out: at the start, and when the next title begins.
NoQuery ==
  /\ pc = Quiet /\ host = [t \in Threads |-> NoHost]
  /\ sock = [t \in Threads |-> NoSock]

\* Then the invariant holds, whatever answers are on their way.
LEMMA NoQueryHasInv == NoQuery => PtrInv
<1> SUFFICES ASSUME NoQuery PROVE PtrInv
  OBVIOUS
<1>1. \A t \in Threads : pc[t] \notin Asking
  BY Zenon DEF NoQuery, Quiet, Asking
<1>2. PtrTypes
  BY NoSockIsOne, Zenon DEF NoQuery, PtrTypes, Quiet, Places
<1>3. PortIsOwn /\ AnswersById
  BY <1>1, Zenon DEF PortIsOwn, AnswersById
<1> QED
  BY <1>2, <1>3, Zenon DEF PtrInv

\* A step outside of the PTR client, or between its servers: it has no query out then.
Aside(t) ==
  \/ \E a \in Addrs : Convert(t, a) \/ GetNative(t, a)
  \/ \E n \in 1 .. MaxNodes : GetOurs(t, n)
  \/ \E l \in held : FreeList(t, l)
  \/ ConvertFails(t) \/ Converted(t) \/ Remember(t) \/ IsOurs(t) \/ FreeAll(t)
  \/ SkipServer(t) \/ NoServerLeft(t) \/ NameFails(t) \/ Translate(t)

\* It leaves the queries, the name and the answers alone, and does not begin at the end of
\* a call.
LEMMA AsideIsApart ==
  ASSUME NEW t \in Threads, Aside(t)
  PROVE  /\ UNCHANGED <<host, sock, net, answer, result, ghba_name>>
         /\ pc[t] # "restore"
         /\ \/ UNCHANGED pc
            \/ \E p \in Places \ (Asking \cup {"records", "decode"}) : pc' = [pc EXCEPT ![t] = p]
<1>1. UNCHANGED <<host, sock, net, answer, result, ghba_name>>
  BY Zenon
    DEF Aside, Convert, GetNative, GetOurs, FreeList, ConvertFails, Converted, Remember,
        IsOurs, FreeAll, SkipServer, NoServerLeft, NameFails, Translate, ptrVars
<1>2. \A p \in {"idle", "convert", "remember", "is_ours", "free_ours", "free_real", "server",
                "restore", "translate"} : p \in Places \ (Asking \cup {"records", "decode"})
  BY Zenon DEF Places, Asking
<1>3. \/ UNCHANGED pc
      \/ \E p \in Places \ (Asking \cup {"records", "decode"}) : pc' = [pc EXCEPT ![t] = p]
  BY <1>2, Zenon
    DEF Aside, Convert, GetNative, GetOurs, FreeList, ConvertFails, Converted, Remember,
        HandOut, IsOurs, FreeAll, SkipServer, NextServer, NoServerLeft, NameFails, Translate,
        Goto
<1>4. pc[t] # "restore"
  BY Zenon
    DEF Aside, Convert, GetNative, GetOurs, FreeList, ConvertFails, Converted, Remember,
        IsOurs, FreeAll, SkipServer, NoServerLeft, NameFails, Translate, At
<1> QED
  BY <1>1, <1>3, <1>4, Zenon

\* Every step keeps the invariant of the queries.
LEMMA NextKeepsPtr ==
  ASSUME PtrInv, [Next]_vars
  PROVE  PtrInv'
<1>1. PtrTypes
  BY Zenon DEF PtrInv
<1>2. ASSUME NEW t \in Threads, Aside(t) PROVE PtrInv'
  <2>1. UNCHANGED <<host, sock, net>>
    BY <1>2, AsideIsApart, Zenon
  <2>2. \/ UNCHANGED pc
        \/ \E p \in Places \ Asking : pc' = [pc EXCEPT ![t] = p]
    BY <1>2, AsideIsApart, Zenon
  <2>3. pc' \in [Threads -> Places] /\ \A u \in Threads : pc'[u] \in Asking => pc[u] \in Asking
    BY <1>1, <2>2, Zenon DEF PtrTypes
  <2> QED
    BY <2>1, <2>3, PtrKept, Zenon
<1>3. ASSUME NEW t \in Threads, NEW p \in Ports, NEW id \in Ids, OpenSock(t, p, id)
      PROVE  PtrInv'
  BY <1>3, OpenSockKeepsPtr, Zenon
<1>4. ASSUME NEW t \in Threads, Send(t) PROVE PtrInv'
  BY <1>4, SendKeepsPtr, Zenon
<1>5. ASSUME NEW t \in Threads,
             \/ \E h \in Hosts : Lookup(t, h)
             \/ \E r \in net : Receive(t, r)
             \/ GiveUp(t) \/ Record(t) \/ Decode(t) \/ RecordsEnd(t) \/ Restore(t)
      PROVE  PtrInv'
  BY <1>5, CallKeepsPtr, Zenon
<1>6. CASE Switch \/ (\E r \in net : Lose(r)) \/ UNCHANGED vars
  <2>1. UNCHANGED <<host, sock, pc>> /\ net' \subseteq net
    BY <1>6, Zenon DEF Switch, Lose, vars, ptrVars
  <2> QED
    BY <1>1, <2>1, PtrKept, Zenon DEF PtrTypes
<1>7. CASE NextTitle
  <2>1. NoQuery'
    BY <1>7, Zenon DEF NextTitle, Die, NoQuery
  <2>2. NoQuery' => PtrInv'
    BY NoQueryHasInv, PTL
  <2> QED
    BY <2>1, <2>2, Zenon
<1> QED
  BY <1>2, <1>3, <1>4, <1>5, <1>6, <1>7, Zenon DEF Next, ThreadStep, ThreadCall, Aside

-------------------------------------------------------------------------------
(* The name.                                                                 *)

\* Nothing received is of the type of an answer, and Unknown is nobody's.
LEMMA UnknownIsOne == Unknown \in Answers /\ Unknown.by = NoThread
BY Zenon DEF Unknown, Answers

\* Thread t goes to where it has neither an answer nor a result; the static is left alone.
LEMMA LeavesKeepNames ==
  ASSUME PtrTypes, NameInv, NEW t \in Threads,
         NEW p \in Places \ {"records", "decode"}, pc' = [pc EXCEPT ![t] = p],
         NEW h, host' = [host EXCEPT ![t] = h],
         NEW a \in {answer[t], Unknown}, answer' = [answer EXCEPT ![t] = a],
         result' = [result EXCEPT ![t] = FALSE], UNCHANGED ghba_name
  PROVE  NameInv'
<1>1. NameTypes /\ \A u \in Threads : NameAt(u)
  BY Zenon DEF NameInv
<1>2. a \in Answers /\ a.by \in {t, NoThread}
  BY <1>1, UnknownIsOne, Zenon DEF NameTypes, NameAt
<1>3. NameTypes'
  BY <1>1, <1>2, Zenon DEF NameTypes
<1>4. /\ pc'[t] = p /\ answer'[t] = a /\ result'[t] = FALSE
      /\ \A u \in Threads \ {t} : /\ pc'[u] = pc[u] /\ host'[u] = host[u]
                                  /\ answer'[u] = answer[u] /\ result'[u] = result[u]
  BY <1>1, Zenon DEF NameTypes, PtrTypes
<1>5. NameAt(t)'
  BY <1>2, <1>4, Zenon DEF NameAt
<1>6. ASSUME NEW u \in Threads \ {t} PROVE NameAt(u)'
  BY <1>1, <1>4, <1>6, Zenon DEF NameAt, Own
<1> QED
  BY <1>3, <1>5, <1>6, Zenon DEF NameInv

\* Thread t writes a part of the name: for every other thread it is no longer of its answer.
LEMMA WriteKeepsOthers ==
  ASSUME NameInv, NEW t \in Threads, NEW k \in 1 .. 2, Write(t, k), UNCHANGED host
  PROVE  /\ ghba_name' \in [1 .. 2 -> Answers] /\ ghba_name'[k] = answer[t]
         /\ \A u \in Threads \ {t} : \A j \in 1 .. 2 : Own(u, ghba_name[j]) => Own(u, ghba_name[j])'
         /\ \A j \in (1 .. 2) \ {k} : ghba_name'[j] = ghba_name[j]
<1>1. NameTypes /\ NameAt(t)
  BY Zenon DEF NameInv
<1>2. ghba_name' = [ghba_name EXCEPT ![k] = answer[t]] /\ answer[t] \in Answers
  BY <1>1, Zenon DEF Write, NameTypes
<1>3. /\ ghba_name' \in [1 .. 2 -> Answers] /\ ghba_name'[k] = answer[t]
      /\ \A j \in (1 .. 2) \ {k} : ghba_name'[j] = ghba_name[j]
  BY <1>1, <1>2, Zenon DEF NameTypes
<1>4. ASSUME NEW u \in Threads \ {t}, NEW j \in 1 .. 2, Own(u, ghba_name[j])
      PROVE  Own(u, ghba_name[j])'
  <2>1. CASE j = k
    <3>1. answer[t].by # u
      BY <1>1, NameAssumption, Zenon DEF NameAt
    <3> QED
      BY <1>3, <2>1, <3>1, Zenon DEF Own
  <2>2. CASE j # k
    BY <1>3, <1>4, <2>2, Zenon DEF Own
  <2> QED
    BY <2>1, <2>2, Zenon
<1> QED
  BY <1>3, <1>4, Zenon

\* Receive: what is accepted has the id of the query, so it answers it if the id was new.
LEMMA ReceiveKeepsNames ==
  ASSUME PtrInv, HostsAsked, NameInv, NEW t \in Threads, NEW r \in net, Receive(t, r)
  PROVE  NameInv'
<1>1. PtrTypes /\ AnswersById /\ NameTypes /\ \A u \in Threads : NameAt(u)
  BY Zenon DEF PtrInv, NameInv
<1>2. /\ pc[t] = "select" /\ r.port = sock[t].port /\ UNCHANGED <<host, result, ghba_name>>
  BY Zenon DEF Receive, At
<1>3. ~result[t]
  BY <1>1, <1>2, Zenon DEF NameAt
<1>4. CASE /\ r.id = sock[t].id /\ pc' = [pc EXCEPT ![t] = "records"]
           /\ answer' = [answer EXCEPT ![t] = IF sock[t].fresh THEN [by |-> t, host |-> r.host]
                                              ELSE Unknown]
  <2>0. PICK a : a = IF sock[t].fresh THEN [by |-> t, host |-> r.host] ELSE Unknown
    BY Zenon
  <2>1. a \in Answers /\ a.by \in {t, NoThread}
    BY <2>0, UnknownIsOne, Zenon DEF Answers, HostsAsked
  <2>2. Own(t, a)
    <3>1. CASE sock[t].fresh
      <4>1. r.host = host[t]
        BY <1>1, <1>2, <1>4, <3>1, Zenon DEF AnswersById, Asking
      <4> QED
        BY <2>0, <3>1, <4>1, Zenon DEF Own
    <3>2. CASE ~sock[t].fresh
      BY <2>0, <3>2, UnknownIsOne, NameAssumption, Zenon DEF Own
    <3> QED
      BY <3>1, <3>2, Zenon
  <2>3. /\ pc'[t] = "records" /\ answer'[t] = a
        /\ \A u \in Threads \ {t} : pc'[u] = pc[u] /\ answer'[u] = answer[u]
    BY <1>1, <1>4, <2>0, Zenon DEF NameTypes, PtrTypes
  <2>4. NameTypes'
    BY <1>1, <1>2, <1>4, <2>0, <2>1, Zenon DEF NameTypes
  <2>5. NameAt(t)'
    BY <1>2, <1>3, <2>1, <2>2, <2>3, Zenon DEF NameAt, Own
  <2>6. ASSUME NEW u \in Threads \ {t} PROVE NameAt(u)'
    BY <1>1, <1>2, <2>3, <2>6, Zenon DEF NameAt, Own
  <2> QED
    BY <2>4, <2>5, <2>6, Zenon DEF NameInv
<1>5. CASE UNCHANGED answer /\ pc' = [pc EXCEPT ![t] = "server"]
  <2>1. /\ host' = [host EXCEPT ![t] = host[t]] /\ answer' = [answer EXCEPT ![t] = answer[t]]
        /\ result' = [result EXCEPT ![t] = FALSE]
    BY <1>1, <1>2, <1>3, <1>5, Zenon DEF PtrTypes, NameTypes
  <2>2. "server" \in Places \ {"records", "decode"}
    BY Zenon DEF Places
  <2> QED
    BY <1>1, <1>2, <1>5, <2>1, <2>2, LeavesKeepNames, Zenon
<1> QED
  BY <1>4, <1>5, Zenon DEF Receive, Accepted, Goto, NextServer

\* Record and Decode.
LEMMA WritesKeepNames ==
  ASSUME PtrTypes, NameInv, NEW t \in Threads, Record(t) \/ Decode(t)
  PROVE  NameInv'
<1>1. NameTypes /\ \A u \in Threads : NameAt(u)
  BY Zenon DEF NameInv
<1>2. UNCHANGED host
  BY Zenon DEF Record, Decode
<1>3. CASE Record(t)
  <2>1. /\ pc[t] = "records" /\ Write(t, 1) /\ UNCHANGED <<answer, result>>
        /\ pc' = [pc EXCEPT ![t] = "decode"] \/ UNCHANGED pc
    BY <1>3, Zenon DEF Record, At, Goto
  <2>2. 1 \in 1 .. 2
    OBVIOUS
  <2>3. /\ ghba_name' \in [1 .. 2 -> Answers] /\ ghba_name'[1] = answer[t]
        /\ \A u \in Threads \ {t} : \A j \in 1 .. 2 : Own(u, ghba_name[j]) => Own(u, ghba_name[j])'
    BY <1>2, <2>1, <2>2, WriteKeepsOthers, Zenon
  <2>4. pc'[t] \in {"records", "decode"} /\ \A u \in Threads \ {t} : pc'[u] = pc[u]
    BY <2>1, Zenon DEF PtrTypes
  <2>5. NameTypes'
    BY <1>1, <2>1, <2>3, Zenon DEF NameTypes
  <2>6. ~result[t] /\ Own(t, answer[t]) /\ answer[t].by \in {t, NoThread}
    BY <1>1, <2>1, Zenon DEF NameAt
  <2>7. NameAt(t)'
    BY <1>2, <2>1, <2>3, <2>4, <2>6, Zenon DEF NameAt, Own
  <2>8. ASSUME NEW u \in Threads \ {t} PROVE NameAt(u)'
    <3>1. \A j \in {1, 2} : Own(u, ghba_name[j]) => Own(u, ghba_name[j])'
      <4>1. {1, 2} = 1 .. 2
        OBVIOUS
      <4> QED
        BY <2>3, <2>8, <4>1, Zenon
    <3>2. Own(u, answer[u]) => Own(u, answer[u])'
      BY <1>2, <2>1, Zenon DEF Own
    <3>3. /\ NameAt(u) /\ pc'[u] = pc[u] /\ answer'[u] = answer[u] /\ result'[u] = result[u]
      BY <1>1, <2>1, <2>4, <2>8, Zenon
    <3> QED
      BY <3>1, <3>2, <3>3, Zenon DEF NameAt
  <2> QED
    BY <2>5, <2>7, <2>8, Zenon DEF NameInv
<1>4. CASE Decode(t)
  <2>1. /\ pc[t] = "decode" /\ Write(t, 2) /\ pc' = [pc EXCEPT ![t] = "restore"]
        /\ answer' = [answer EXCEPT ![t] = Unknown] /\ result' = [result EXCEPT ![t] = TRUE]
    BY <1>4, Zenon DEF Decode, At, Goto
  <2>2. 2 \in 1 .. 2 /\ 1 \in (1 .. 2) \ {2}
    OBVIOUS
  <2>3. /\ ghba_name' \in [1 .. 2 -> Answers] /\ ghba_name'[2] = answer[t]
        /\ ghba_name'[1] = ghba_name[1]
        /\ \A u \in Threads \ {t} : \A j \in 1 .. 2 : Own(u, ghba_name[j]) => Own(u, ghba_name[j])'
    BY <1>2, <2>1, <2>2, WriteKeepsOthers, Zenon
  <2>4. /\ pc'[t] = "restore" /\ answer'[t] = Unknown
        /\ \A u \in Threads \ {t} : /\ pc'[u] = pc[u] /\ answer'[u] = answer[u]
                                    /\ result'[u] = result[u]
    BY <1>1, <2>1, Zenon DEF PtrTypes, NameTypes
  <2>5. NameTypes'
    BY <1>1, <2>1, <2>3, UnknownIsOne, Zenon DEF NameTypes
  <2>6. Own(t, answer[t]) /\ Own(t, ghba_name[1])
    BY <1>1, <2>1, Zenon DEF NameAt
  <2>7. NameAt(t)'
    BY <1>2, <2>3, <2>4, <2>6, UnknownIsOne, Zenon DEF NameAt, Own
  <2>8. ASSUME NEW u \in Threads \ {t} PROVE NameAt(u)'
    <3>1. \A j \in {1, 2} : Own(u, ghba_name[j]) => Own(u, ghba_name[j])'
      <4>1. {1, 2} = 1 .. 2
        OBVIOUS
      <4> QED
        BY <2>3, <2>8, <4>1, Zenon
    <3>2. Own(u, answer[u]) => Own(u, answer[u])'
      BY <1>2, <2>4, <2>8, Zenon DEF Own
    <3>3. /\ NameAt(u) /\ pc'[u] = pc[u] /\ answer'[u] = answer[u] /\ result'[u] = result[u]
      BY <1>1, <2>4, <2>8, Zenon
    <3> QED
      BY <3>1, <3>2, <3>3, Zenon DEF NameAt
  <2> QED
    BY <2>5, <2>7, <2>8, Zenon DEF NameInv
<1> QED
  BY <1>3, <1>4, Zenon

\* The other steps of gethostbyaddr, and those outside of it.
LEMMA OthersKeepNames ==
  ASSUME PtrTypes, NameInv, NEW t \in Threads,
         \/ Aside(t) \/ GiveUp(t) \/ Send(t) \/ RecordsEnd(t) \/ Restore(t)
         \/ \E p \in Ports, id \in Ids : OpenSock(t, p, id)
         \/ \E h \in Hosts : Lookup(t, h)
  PROVE  NameInv'
<1>1. NameTypes /\ \A u \in Threads : NameAt(u)
  BY Zenon DEF NameInv
<1>2. /\ UNCHANGED host => host' = [host EXCEPT ![t] = host[t]]
      /\ UNCHANGED answer => answer' = [answer EXCEPT ![t] = answer[t]]
      /\ UNCHANGED result /\ pc[t] # "restore" => result' = [result EXCEPT ![t] = FALSE]
  BY <1>1, Zenon DEF PtrTypes, NameTypes, NameAt
<1>3. UNCHANGED ghba_name
  BY AsideIsApart, Zenon DEF GiveUp, Send, RecordsEnd, Restore, OpenSock, Lookup
<1>4. \E h : host' = [host EXCEPT ![t] = h]
  BY <1>2, AsideIsApart, Zenon DEF GiveUp, Send, RecordsEnd, Restore, OpenSock, Lookup
<1>5. \E a \in {answer[t], Unknown} : answer' = [answer EXCEPT ![t] = a]
  BY <1>2, AsideIsApart, Zenon DEF GiveUp, Send, RecordsEnd, Restore, OpenSock, Lookup
<1>6. result' = [result EXCEPT ![t] = FALSE]
  BY <1>2, AsideIsApart, Zenon DEF GiveUp, Send, RecordsEnd, Restore, OpenSock, Lookup, At
<1>7. \/ Aside(t) /\ UNCHANGED pc
      \/ \E p \in Places \ {"records", "decode"} : pc' = [pc EXCEPT ![t] = p]
  <2>1. \A p \in {"idle", "server", "send", "select"} : p \in Places \ {"records", "decode"}
    BY Zenon DEF Places
  <2> QED
    BY <2>1, AsideIsApart, Zenon
      DEF GiveUp, Send, RecordsEnd, Restore, OpenSock, Lookup, NextServer, Goto
<1>8. CASE Aside(t) /\ UNCHANGED pc
  <2>1. UNCHANGED <<host, answer, result, ghba_name, pc>>
    BY <1>8, AsideIsApart, Zenon
  <2> QED
    BY <1>1, <2>1, Zenon DEF NameInv, NameTypes, NameAt, Own
<1>9. CASE \E p \in Places \ {"records", "decode"} : pc' = [pc EXCEPT ![t] = p]
  BY <1>3, <1>4, <1>5, <1>6, <1>9, LeavesKeepNames, Zenon
<1> QED
  BY <1>7, <1>8, <1>9, Zenon

\* Only hosts that were asked for are in the answers.
LEMMA NextKeepsHosts ==
  ASSUME PtrTypes, HostsAsked, [Next]_vars
  PROVE  HostsAsked'
<1>1. ASSUME NEW t \in Threads, Send(t) PROVE HostsAsked'
  <2>0. PICK q : q = [port |-> sock[t].port, id |-> sock[t].id, host |-> host[t]]
    BY Zenon
  <2>1. net' = net \cup {q} /\ q.host = host[t] /\ host[t] \in Hosts \cup {NoHost}
    BY <1>1, <2>0, Zenon DEF Send, PtrTypes
  <2> QED
    BY <2>1, Zenon DEF HostsAsked
<1>2. ASSUME NEW t \in Threads,
             \/ Aside(t) \/ (\E p \in Ports, id \in Ids : OpenSock(t, p, id)) \/ GiveUp(t)
             \/ (\E r \in net : Receive(t, r)) \/ Record(t) \/ Decode(t) \/ RecordsEnd(t)
             \/ Restore(t) \/ \E h \in Hosts : Lookup(t, h)
      PROVE  UNCHANGED net
  BY <1>2, AsideIsApart, Zenon
    DEF OpenSock, GiveUp, Receive, Record, Decode, RecordsEnd, Restore, Lookup
<1>3. CASE Switch \/ (\E r \in net : Lose(r)) \/ NextTitle \/ UNCHANGED vars
  <2>1. net' \subseteq net
    BY <1>3, Zenon DEF Switch, Lose, NextTitle, Die, vars, ptrVars
  <2> QED
    BY <2>1, Zenon DEF HostsAsked
<1> QED
  BY <1>1, <1>2, <1>3, Zenon DEF Next, ThreadStep, ThreadCall, Aside, HostsAsked

\* With every thread idle nobody has a result, whatever name the last title has left.
NoName ==
  /\ pc = Quiet /\ answer = [t \in Threads |-> Unknown] /\ result = [t \in Threads |-> FALSE]
  /\ ghba_name \in [1 .. 2 -> Answers]

\* Then the invariant of the name holds.
LEMMA NoNameHasInv == NoName => NameInv
<1> SUFFICES ASSUME NoName PROVE NameInv
  OBVIOUS
<1>1. NameTypes
  BY UnknownIsOne, Zenon DEF NoName, NameTypes
<1>2. ASSUME NEW t \in Threads PROVE NameAt(t)
  <2>1. pc[t] = "idle" /\ answer[t] = Unknown /\ result[t] = FALSE
    BY Zenon DEF NoName, Quiet
  <2> QED
    BY <2>1, UnknownIsOne, Zenon DEF NameAt
<1> QED
  BY <1>1, <1>2, Zenon DEF NameInv

\* Every step keeps the invariant of the name.
LEMMA NextKeepsNames ==
  ASSUME PtrInv, HostsAsked, NameInv, [Next]_vars
  PROVE  NameInv'
<1>1. PtrTypes
  BY Zenon DEF PtrInv
<1>2. ASSUME NEW t \in Threads, NEW r \in net, Receive(t, r) PROVE NameInv'
  BY <1>2, ReceiveKeepsNames, Zenon
<1>3. ASSUME NEW t \in Threads, Record(t) \/ Decode(t) PROVE NameInv'
  BY <1>1, <1>3, WritesKeepNames, Zenon
<1>4. ASSUME NEW t \in Threads,
             \/ Aside(t) \/ GiveUp(t) \/ Send(t) \/ RecordsEnd(t) \/ Restore(t)
             \/ \E p \in Ports, id \in Ids : OpenSock(t, p, id)
             \/ \E h \in Hosts : Lookup(t, h)
      PROVE  NameInv'
  BY <1>1, <1>4, OthersKeepNames, Zenon
<1>5. CASE Switch \/ (\E r \in net : Lose(r)) \/ UNCHANGED vars
  <2>1. UNCHANGED <<host, answer, result, ghba_name, pc>>
    BY <1>5, Zenon DEF Switch, Lose, vars, ptrVars
  <2> QED
    BY <2>1, Zenon DEF NameInv, NameTypes, NameAt, Own
<1>6. CASE NextTitle
  <2>1. NoName'
    BY <1>6, Zenon DEF NextTitle, Die, NoName, NameInv, NameTypes, Quiet
  <2>2. NoName' => NameInv'
    BY NoNameHasInv, PTL
  <2> QED
    BY <2>1, <2>2, Zenon
<1> QED
  BY <1>2, <1>3, <1>4, <1>5, <1>6, Zenon DEF Next, ThreadStep, ThreadCall, Aside

\* The name that gethostbyaddr returns is of the address it was asked for, whatever late
\* and repeated answers come to its port, in every part that another thread has not written
\* over, unless an answer with the id of its query was on its way there before it was sent.
THEOREM PtrAnswersItsQuestion == Spec => []PtrAnswerIsOwn
<1>1. Init => PtrInv /\ HostsAsked /\ NameInv
  <2> SUFFICES ASSUME Init PROVE PtrInv /\ HostsAsked /\ NameInv
    OBVIOUS
  <2>1. PtrInv
    BY NoQueryHasInv, Zenon DEF Init, NoQuery
  <2>2. HostsAsked
    BY Zenon DEF Init, HostsAsked
  <2>3. ghba_name \in [1 .. 2 -> Answers]
    BY UnknownIsOne DEF Init
  <2>4. NameInv
    BY <2>3, NoNameHasInv, Zenon DEF Init, NoName
  <2> QED
    BY <2>1, <2>2, <2>4, Zenon
<1>2. PtrInv /\ HostsAsked /\ NameInv /\ [Next]_vars => (PtrInv /\ HostsAsked /\ NameInv)'
  BY NextKeepsPtr, NextKeepsHosts, NextKeepsNames, Zenon DEF PtrInv
<1>3. NameInv => PtrAnswerIsOwn
  <2> SUFFICES ASSUME NameInv, NEW t \in Threads, result[t]
               PROVE  \A part \in 1 .. 2 : Own(t, ghba_name[part])
    BY Zenon DEF PtrAnswerIsOwn, Own
  <2>1. Own(t, ghba_name[1]) /\ Own(t, ghba_name[2])
    BY Zenon DEF NameInv, NameAt
  <2>2. \A part \in 1 .. 2 : part = 1 \/ part = 2
    OBVIOUS
  <2> QED
    BY <2>1, <2>2, Zenon
<1> QED
  BY <1>1, <1>2, <1>3, PTL DEF Spec

===============================================================================
