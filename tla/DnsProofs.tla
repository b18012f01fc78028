------------------------------ MODULE DnsProofs ------------------------------
(***************************************************************************)
(* Proofs about AsyncDns for any threads, names, slots, resolver entries   *)
(* and number of titles.                                                   *)
(*                                                                         *)
(* The argument is about tickets.  The counter never repeats one (Issued), *)
(* and a ticket is borne by one thread that asks lwIP or by one callback   *)
(* that waits there (OneBearer).  So a slot that still has the ticket of   *)
(* a callback is the one that callback was made for, pending and under the *)
(* name lwIP asks for (CallbackOwns), also when the callback was left by   *)
(* an earlier title.  Between the check and the store of async_dns_found   *)
(* the slot can lose its ticket to a late async_dns_release_if_ticket, but *)
(* not its name or its state (Matched).                                    *)
(***************************************************************************)
EXTENDS AsyncDns, TLAPS

\* The request a thread works on.
Reqs == [name : Names \cup {NoName}, slot : Slots \cup {0}, ticket : Nat,
         then : {"none", "ready", "cached", "error"}]

\* The types of what the proofs compute with.
DnsTypes ==
  /\ state \in [Slots -> {"FREE", "CLAIMED", "PENDING", "READY", "FAILED"}]
  /\ ticket \in [Slots -> Nat]
  /\ name \in [Slots -> Names \cup {NoName}]
  /\ async_dns_ticket_counter \in Nat
  /\ dns_table \in [Entries -> [state : {"UNUSED", "ASKING", "DONE"}, name : Names \cup {NoName}]]
  /\ dns_requests \subseteq [entry : Entries, slot : Slots, ticket : Nat]
  /\ pc \in [Threads -> {"idle", "lock", "find", "publish", "query", "release", "clear",
                         "released", "sync"}]
  /\ req \in [Threads -> Reqs]

\* Thread t has a ticket that no callback of lwIP carries.
Asks(t) == pc[t] \in {"query", "release"}

\* A title that is not up has no threads; a new one starts without tickets.
TitleState ==
  /\ phase # "up" => (\A t \in Threads : pc[t] = "idle") /\ calling = NoCall /\ matched = NoMatch
  /\ phase = "begun" => \A s \in Slots : ticket[s] = 0
  /\ \A t \in Threads : pc[t] \in {"publish", "query", "release", "clear"} => req[t].slot \in Slots

\* Tickets come from the counter, and zero is none of them.
Issued ==
  /\ async_dns_ticket_counter > 0
  /\ \A s \in Slots : ticket[s] < async_dns_ticket_counter
  /\ \A t \in Threads : Asks(t) => req[t].ticket \in 1 .. async_dns_ticket_counter - 1
  /\ \A r \in dns_requests : r.ticket \in 1 .. async_dns_ticket_counter - 1

\* A ticket is with one thread or with one callback.
OneBearer ==
  /\ \A t, u \in Threads : Asks(t) /\ Asks(u) /\ req[t].ticket = req[u].ticket => t = u
  /\ \A t \in Threads, r \in dns_requests : Asks(t) => req[t].ticket # r.ticket
  /\ \A q, r \in dns_requests : q.ticket = r.ticket => q = r

\* A slot that is being filled in belongs to one thread.
Claimed ==
  /\ \A t \in Threads : pc[t] = "publish" => state[req[t].slot] = "CLAIMED"
  /\ \A t, u \in Threads : pc[t] = "publish" /\ pc[u] = "publish" /\ req[t].slot = req[u].slot
       => t = u

\* The slot of a thread that asks, as long as it has the thread's ticket.
ThreadOwns ==
  \A t \in Threads : Asks(t) /\ ticket[req[t].slot] = req[t].ticket =>
    state[req[t].slot] = "PENDING" /\ name[req[t].slot] = req[t].name

\* The slot of a callback, as long as it has the callback's ticket.
CallbackOwns ==
  phase = "up" =>
    \A r \in dns_requests : ticket[r.slot] = r.ticket =>
      /\ state[r.slot] = "PENDING" /\ name[r.slot] = dns_table[r.entry].name
      /\ dns_table[r.entry].state = "ASKING" \/ calling.entry = r.entry

\* async_dns_found between its check and its store.
Matched ==
  matched # NoMatch =>
    /\ calling # NoCall /\ matched \in dns_requests
    /\ matched.entry = calling.entry
    /\ state[matched.slot] = "PENDING" /\ ticket[matched.slot] \in {0, matched.ticket}
    /\ name[matched.slot] = dns_table[calling.entry].name


\* The inductive invariant.
IInv ==
  /\ DnsTypes
  /\ TitleState
  /\ Issued
  /\ OneBearer
  /\ Claimed
  /\ ThreadOwns
  /\ CallbackOwns
  /\ Matched
  /\ PendingIsAwaited

\* The tables' indices start at 1; NoCall and NoMatch have none.
LEMMA TableFacts ==
  /\ Slots \subseteq Nat \ {0} /\ Entries \subseteq Nat \ {0}
  /\ NoCall.entry = 0 /\ NoMatch.entry = 0
BY DnsAssumption DEF Slots, Entries, NoCall, NoMatch

\* What PendingIsAwaited asks of one slot.
Awaited(s) ==
  \/ \E t \in Threads : /\ pc[t] \in {"query", "release"}
                        /\ req[t].slot = s /\ req[t].ticket = ticket[s]
  \/ \E r \in dns_requests : /\ r.slot = s /\ r.ticket = ticket[s]
                             /\ dns_table[r.entry].name = name[s]
                             /\ dns_table[r.entry].state = "ASKING" \/ calling.entry = r.entry

\* PendingIsAwaited, slot by slot.
LEMMA AwaitedFacts ==
  /\ PendingIsAwaited <=>
       (phase = "up" => \A s \in Slots : state[s] = "PENDING" /\ ticket[s] # 0 => Awaited(s))
  /\ PendingIsAwaited' <=>
       (phase' = "up" =>
          \A s \in Slots : state'[s] = "PENDING" /\ ticket'[s] # 0 => Awaited(s)')
BY Zenon DEF PendingIsAwaited, Awaited

-------------------------------------------------------------------------------
(* One lemma for each kind of step.                                          *)

\* Steps of a thread that does not ask and does not fill in a slot.
LEMMA ThreadMoves ==
  ASSUME IInv, NEW t \in Threads, phase = "up", pc[t] \notin {"publish", "query", "release"},
         NEW p \in {"idle", "lock", "find", "released", "sync"}, pc' = [pc EXCEPT ![t] = p],
         DnsTypes', \A u \in Threads \ {t} : req'[u] = req[u],
         UNCHANGED <<slotVars, dnsVars, phase>>
  PROVE  IInv'
<1> USE DEF IInv
<1>1. /\ pc'[t] \notin {"publish", "query", "release", "clear"}
      /\ \A u \in Threads \ {t} : pc'[u] = pc[u]
      /\ UNCHANGED <<state, ticket, name, async_dns_ticket_counter>>
      /\ UNCHANGED <<dns_table, dns_requests, calling, matched>>
  BY TableFacts DEF IInv, At, Goto, DnsTypes, Reqs, slotVars, dnsVars
<1>2. DnsTypes'
  BY Zenon
<1>3. TitleState'
  BY <1>1, TableFacts, Zenon DEF TitleState
<1>4. Issued'
  BY <1>1, TableFacts, Zenon DEF Issued, Asks
<1>5. OneBearer'
  BY <1>1, TableFacts DEF OneBearer, Asks
<1>6. Claimed'
  BY <1>1, TableFacts DEF Claimed
<1>7. ThreadOwns'
  BY <1>1, TableFacts DEF ThreadOwns, Asks
<1>8. CallbackOwns'
  BY <1>1, TableFacts, Zenon DEF CallbackOwns
<1>9. Matched'
  BY <1>1, TableFacts, Zenon DEF Matched
<1>10. PendingIsAwaited'
  BY <1>1, TableFacts DEF PendingIsAwaited
<1> QED
  BY <1>2, <1>3, <1>4, <1>5, <1>6, <1>7, <1>8, <1>9, <1>10, Zenon

\* A poll that finds its request complete frees the slot.
LEMMA PollCompleteKeeps ==
  ASSUME IInv, NEW t \in Threads, NEW s \in Slots, PollComplete(t, s)
  PROVE  IInv'
<1> USE DEF IInv
<1>1. /\ state[s] \in {"READY", "FAILED"}
      /\ state' = [state EXCEPT ![s] = "FREE"] /\ ticket' = [ticket EXCEPT ![s] = 0]
      /\ phase = "up" /\ phase' = "up" /\ pc[t] = "find" /\ pc'[t] \in {"idle", "sync"}
      /\ \A u \in Threads \ {t} : pc'[u] = pc[u] /\ req'[u] = req[u]
      /\ UNCHANGED <<name, async_dns_ticket_counter, dns_table, dns_requests, calling, matched>>
  BY TableFacts DEF PollComplete, Find, Return, At, Goto, DnsTypes, Reqs, slotVars,
    dnsVars
<1>2. DnsTypes'
  <2>1. /\ state' \in [Slots -> {"FREE", "CLAIMED", "PENDING", "READY", "FAILED"}]
        /\ ticket' \in [Slots -> Nat]
    BY <1>1, Zenon DEF DnsTypes
  <2>2. /\ pc' \in [Threads -> {"idle", "lock", "find", "publish", "query", "release",
                                "clear", "released", "sync"}]
        /\ req' \in [Threads -> Reqs]
    <3>1. NoRequest \in Reqs
      BY Zenon DEF NoRequest, Reqs
    <3>2. [req[t] EXCEPT !.then = "ready"] \in Reqs
      BY ZenonT(30) DEF Reqs, DnsTypes
    <3> QED
      BY <3>1, <3>2, Zenon DEF PollComplete, Goto, Return, DnsTypes
  <2> QED
    BY <1>1, <2>1, <2>2, Zenon DEF DnsTypes
<1>3. TitleState'
  BY <1>1, TableFacts, Zenon DEF TitleState
<1>4. Issued'
  BY <1>1, TableFacts, Zenon DEF Issued, Asks, DnsTypes
<1>5. OneBearer'
  BY <1>1, TableFacts DEF OneBearer, Asks
<1>6. Claimed'
  BY <1>1, TableFacts DEF Claimed, DnsTypes, TitleState
<1>7. ThreadOwns'
  BY <1>1, TableFacts DEF ThreadOwns, Asks, DnsTypes, TitleState, Issued
<1>8. CallbackOwns'
  BY <1>1, TableFacts DEF CallbackOwns, DnsTypes, Issued
<1>9. Matched'
  BY <1>1, TableFacts, Zenon DEF Matched, DnsTypes
<1>10. PendingIsAwaited'
  BY <1>1, TableFacts DEF PendingIsAwaited, DnsTypes
<1> QED
  BY <1>2, <1>3, <1>4, <1>5, <1>6, <1>7, <1>8, <1>9, <1>10, Zenon

\* A new request takes a free slot.
LEMMA ClaimKeeps ==
  ASSUME IInv, NEW t \in Threads, NEW s \in Slots, Claim(t, s)
  PROVE  IInv'
<1> USE DEF IInv
<1>1. /\ state[s] = "FREE"
      /\ state' = [state EXCEPT ![s] = "CLAIMED"]
      /\ phase = "up" /\ phase' = "up" /\ pc[t] = "find" /\ pc'[t] = "publish" /\ req'[t].slot = s
      /\ \A u \in Threads \ {t} : pc'[u] = pc[u] /\ req'[u] = req[u]
      /\ UNCHANGED <<ticket, name, async_dns_ticket_counter, dns_table, dns_requests, calling, matched>>
  BY TableFacts DEF Claim, Find, At, Goto, DnsTypes, Reqs, slotVars, dnsVars
<1>2. DnsTypes'
  <2>1. state' \in [Slots -> {"FREE", "CLAIMED", "PENDING", "READY", "FAILED"}]
    BY <1>1, Zenon DEF DnsTypes
  <2>2. /\ pc' \in [Threads -> {"idle", "lock", "find", "publish", "query", "release",
                                "clear", "released", "sync"}]
        /\ req' \in [Threads -> Reqs]
    <3>1. [req[t] EXCEPT !.slot = s] \in Reqs
      BY DEF Reqs, DnsTypes
    <3> QED
      BY <3>1, Zenon DEF Claim, Goto, DnsTypes
  <2> QED
    BY <1>1, <2>1, <2>2, Zenon DEF DnsTypes
<1>3. TitleState'
  BY <1>1, TableFacts, Zenon DEF TitleState
<1>4. Issued'
  BY <1>1, TableFacts, Zenon DEF Issued, Asks, DnsTypes
<1>5. OneBearer'
  BY <1>1, TableFacts DEF OneBearer, Asks
<1>6. Claimed'
  BY <1>1, TableFacts DEF Claimed, DnsTypes, TitleState
<1>7. ThreadOwns'
  BY <1>1, TableFacts DEF ThreadOwns, Asks, DnsTypes, TitleState
<1>8. CallbackOwns'
  BY <1>1, TableFacts, Zenon DEF CallbackOwns, DnsTypes
<1>9. Matched'
  BY <1>1, TableFacts, Zenon DEF Matched, DnsTypes
<1>10. PendingIsAwaited'
  BY <1>1, TableFacts DEF PendingIsAwaited, DnsTypes
<1> QED
  BY <1>2, <1>3, <1>4, <1>5, <1>6, <1>7, <1>8, <1>9, <1>10, Zenon

\* The slot is published under a new ticket.
LEMMA PublishKeeps ==
  ASSUME IInv, NEW t \in Threads, Publish(t)
  PROVE  IInv'
<1> USE DEF IInv
<1>1. /\ req[t].slot \in Slots /\ state[req[t].slot] = "CLAIMED"
      /\ state' = [state EXCEPT ![req[t].slot] = "PENDING"]
      /\ ticket' = [ticket EXCEPT ![req[t].slot] = async_dns_ticket_counter]
      /\ name' = [name EXCEPT ![req[t].slot] = req[t].name]
      /\ phase = "up" /\ phase' = "up" /\ pc[t] = "publish" /\ pc'[t] = "query"
      /\ req'[t].slot = req[t].slot /\ req'[t].name = req[t].name
      /\ req'[t].ticket = async_dns_ticket_counter
      /\ async_dns_ticket_counter \in Nat /\ async_dns_ticket_counter' = async_dns_ticket_counter + 1
      /\ \A u \in Threads \ {t} : pc'[u] = pc[u] /\ req'[u] = req[u]
      /\ UNCHANGED <<dns_table, dns_requests, calling, matched>>
  BY TableFacts DEF Publish, TitleState, Claimed, At, Goto, DnsTypes, Reqs, slotVars,
    dnsVars
<1>2. DnsTypes'
  <2>1. /\ state' \in [Slots -> {"FREE", "CLAIMED", "PENDING", "READY", "FAILED"}]
        /\ ticket' \in [Slots -> Nat] /\ name' \in [Slots -> Names \cup {NoName}]
    BY <1>1, Zenon DEF DnsTypes, Reqs
  <2>2. /\ pc' \in [Threads -> {"idle", "lock", "find", "publish", "query", "release",
                                "clear", "released", "sync"}]
        /\ req' \in [Threads -> Reqs]
    <3>1. [req[t] EXCEPT !.ticket = async_dns_ticket_counter] \in Reqs
      BY <1>1 DEF Reqs, DnsTypes
    <3> QED
      BY <3>1, Zenon DEF Publish, Goto, DnsTypes
  <2> QED
    BY <1>1, <2>1, <2>2 DEF DnsTypes
<1>3. TitleState'
  BY <1>1, TableFacts, Zenon DEF TitleState
<1>4. Issued'
  BY <1>1, TableFacts DEF Issued, Asks, DnsTypes
<1>5. OneBearer'
  BY <1>1, TableFacts DEF OneBearer, Asks, Issued, DnsTypes
<1>6. Claimed'
  BY <1>1, TableFacts DEF Claimed, DnsTypes, TitleState
<1>7. ThreadOwns'
  BY <1>1, TableFacts DEF ThreadOwns, Asks, DnsTypes, TitleState, Issued
<1>8. CallbackOwns'
  BY <1>1, TableFacts DEF CallbackOwns, DnsTypes, Issued
<1>9. Matched'
  BY <1>1, TableFacts, Zenon DEF Matched, DnsTypes
<1>10. PendingIsAwaited'
  <2> SUFFICES ASSUME NEW s \in Slots, state'[s] = "PENDING", ticket'[s] # 0
               PROVE  Awaited(s)'
    BY <1>1, AwaitedFacts, Zenon
  <2>1. CASE s = req[t].slot
    BY <1>1, <2>1, Zenon DEF Awaited, DnsTypes
  <2>2. CASE s # req[t].slot
    <3>1. Awaited(s)
      BY <1>1, <2>2, AwaitedFacts, Zenon DEF DnsTypes
    <3> QED
      BY <1>1, <2>2, <3>1, SMTT(30) DEF Awaited, DnsTypes
  <2> QED
    BY <2>1, <2>2, Zenon
<1> QED
  BY <1>2, <1>3, <1>4, <1>5, <1>6, <1>7, <1>8, <1>9, <1>10, Zenon

\* lwIP queues the query with the thread's ticket.
LEMMA QueryKeeps ==
  ASSUME IInv, NEW t \in Threads, NEW e \in Entries, QueryInProgress(t, e)
  PROVE  IInv'
<1> USE DEF IInv
<1>1. /\ phase = "up" /\ phase' = "up" /\ pc[t] = "query" /\ pc'[t] = "idle" /\ req[t].slot \in Slots
      /\ calling = NoCall
      /\ dns_requests' = dns_requests \cup {[entry |-> e, slot |-> req[t].slot, ticket |-> req[t].ticket]}
      /\ dns_table'[e].name = req[t].name /\ dns_table'[e].state = "ASKING"
      /\ \A f \in Entries : f # e \/ dns_table[e].state = "ASKING" => dns_table'[f] = dns_table[f]
      /\ \A u \in Threads \ {t} : pc'[u] = pc[u] /\ req'[u] = req[u]
      /\ UNCHANGED <<state, ticket, name, async_dns_ticket_counter, calling, matched>>
  BY TableFacts, SMTT(30)
    DEF QueryInProgress, Return, CoreFree, Asking, Usable, TitleState, At,
    Goto, DnsTypes, Reqs, slotVars, dnsVars
<1>2. DnsTypes'
  <2>1. dns_table' \in [Entries -> [state : {"UNUSED", "ASKING", "DONE"},
                                    name : Names \cup {NoName}]]
    BY SMTT(30) DEF QueryInProgress, DnsTypes, Reqs
  <2>2. dns_requests' \subseteq [entry : Entries, slot : Slots, ticket : Nat]
    BY <1>1, SMTT(30) DEF DnsTypes, Reqs
  <2>3. /\ pc' \in [Threads -> {"idle", "lock", "find", "publish", "query", "release",
                                "clear", "released", "sync"}]
        /\ req' \in [Threads -> Reqs]
    <3>1. NoRequest \in Reqs
      BY Zenon DEF NoRequest, Reqs
    <3> QED
      BY <3>1, Zenon DEF QueryInProgress, Goto, Return, DnsTypes
  <2> QED
    BY <1>1, <2>1, <2>2, <2>3, Zenon DEF DnsTypes
<1>3. TitleState'
  BY <1>1, TableFacts, Zenon DEF TitleState
<1>4. Issued'
  BY <1>1, TableFacts, SMTT(30) DEF Issued, Asks, DnsTypes
<1>5. OneBearer'
  BY <1>1, TableFacts, SMTT(30) DEF OneBearer, Asks, DnsTypes
<1>6. Claimed'
  BY <1>1, TableFacts, SMTT(30) DEF Claimed
<1>7. ThreadOwns'
  BY <1>1, TableFacts, Zenon DEF ThreadOwns, Asks
<1>8. CallbackOwns'
  <2> SUFFICES ASSUME NEW r \in dns_requests', ticket[r.slot] = r.ticket
               PROVE  /\ state[r.slot] = "PENDING" /\ name[r.slot] = dns_table'[r.entry].name
                      /\ dns_table'[r.entry].state = "ASKING"
    BY <1>1, Zenon DEF CallbackOwns
  <2>1. CASE r \in dns_requests
    <3>1. r.entry \in Entries /\ r.slot \in Slots
      BY <2>1, Zenon DEF DnsTypes
    <3>2. dns_table[r.entry].state = "ASKING"
      BY <1>1, <2>1, <3>1, TableFacts, Zenon DEF CallbackOwns
    <3>3. dns_table'[r.entry] = dns_table[r.entry]
      BY <1>1, <3>1, <3>2, Zenon
    <3> QED
      BY <1>1, <2>1, <3>2, <3>3, Zenon DEF CallbackOwns
  <2>2. CASE r \notin dns_requests
    <3>1. r.entry = e /\ r.slot = req[t].slot /\ r.ticket = req[t].ticket
      BY <1>1, <2>2
    <3> QED
      BY <1>1, <3>1, Zenon DEF ThreadOwns, Asks
  <2> QED
    BY <2>1, <2>2, Zenon
<1>9. Matched'
  BY <1>1, TableFacts, Zenon DEF Matched
<1>10. PendingIsAwaited'
  <2> SUFFICES ASSUME NEW s \in Slots, state[s] = "PENDING", ticket[s] # 0
               PROVE  Awaited(s)'
    BY <1>1, AwaitedFacts, Zenon
  <2> DEFINE new == [entry |-> e, slot |-> req[t].slot, ticket |-> req[t].ticket]
  <2>1. new \in dns_requests' /\ new.entry = e /\ new.slot = req[t].slot /\ new.ticket = req[t].ticket
    BY <1>1, Zenon
  <2>2. Awaited(s)
    BY <1>1, AwaitedFacts, Zenon
  <2>3. CASE req[t].slot = s /\ req[t].ticket = ticket[s]
    <3>1. name[s] = req[t].name
      BY <1>1, <2>3, Zenon DEF ThreadOwns, Asks
    <3> QED
      BY <1>1, <2>1, <2>3, <3>1, Zenon DEF Awaited
  <2>4. CASE ~(req[t].slot = s /\ req[t].ticket = ticket[s])
    <3>1. CASE \E u \in Threads : /\ pc[u] \in {"query", "release"}
                                  /\ req[u].slot = s /\ req[u].ticket = ticket[s]
      BY <1>1, <2>4, <3>1, Zenon DEF Awaited
    <3>2. ASSUME NEW r \in dns_requests, r.slot = s, r.ticket = ticket[s],
                 dns_table[r.entry].name = name[s],
                 dns_table[r.entry].state = "ASKING" \/ calling.entry = r.entry
          PROVE  Awaited(s)'
      <4>1. r.entry \in Entries /\ r \in dns_requests'
        BY <1>1, Zenon DEF DnsTypes
      <4>2. dns_table[r.entry].state = "ASKING"
        BY <1>1, <3>2, <4>1, TableFacts, Zenon
      <4>3. dns_table'[r.entry] = dns_table[r.entry]
        BY <1>1, <4>1, <4>2, Zenon
      <4> QED
        BY <1>1, <3>2, <4>1, <4>2, <4>3, Zenon DEF Awaited
    <3> QED
      BY <2>2, <3>1, <3>2, Zenon DEF Awaited
  <2> QED
    BY <2>3, <2>4, Zenon
<1> QED
  BY <1>2, <1>3, <1>4, <1>5, <1>6, <1>7, <1>8, <1>9, <1>10, Zenon

\* async_dns_release_if_ticket frees a slot that is still its own.
LEMMA ReleaseKeeps ==
  ASSUME IInv, NEW t \in Threads, ReleaseSlot(t)
  PROVE  IInv'
<1> USE DEF IInv
<1>1. /\ phase = "up" /\ phase' = "up" /\ pc[t] = "release" /\ req[t].slot \in Slots
      /\ pc'[t] \in {"clear", "released"}
      /\ \/ /\ ticket[req[t].slot] = req[t].ticket
            /\ state' = [state EXCEPT ![req[t].slot] = "FREE"]
         \/ ticket[req[t].slot] # req[t].ticket /\ state' = state
      /\ \A u \in Threads \ {t} : pc'[u] = pc[u]
      /\ UNCHANGED <<ticket, name, async_dns_ticket_counter, dns_table, dns_requests, calling, matched, req>>
  BY TableFacts DEF ReleaseSlot, TitleState, At, Goto, DnsTypes, Reqs, slotVars, dnsVars
<1>2. DnsTypes'
  <2>1. state' \in [Slots -> {"FREE", "CLAIMED", "PENDING", "READY", "FAILED"}]
    BY <1>1, Zenon DEF DnsTypes
  <2>2. pc' \in [Threads -> {"idle", "lock", "find", "publish", "query", "release",
                              "clear", "released", "sync"}]
    BY Zenon DEF ReleaseSlot, Goto, DnsTypes
  <2> QED
    BY <1>1, <2>1, <2>2, Zenon DEF DnsTypes
<1>3. TitleState'
  BY <1>1, TableFacts, Zenon DEF TitleState
<1>4. Issued'
  BY <1>1, TableFacts, Zenon DEF Issued, Asks
<1>5. OneBearer'
  BY <1>1, TableFacts, Zenon DEF OneBearer, Asks
<1>6. Claimed'
  <2>1. ASSUME NEW u \in Threads, pc'[u] = "publish"
        PROVE  u # t /\ pc[u] = "publish" /\ state'[req[u].slot] = "CLAIMED"
    <3>1. u # t /\ pc[u] = "publish" /\ req[u].slot \in Slots /\ state[req[u].slot] = "CLAIMED"
      BY <1>1, <2>1, Zenon DEF Claimed, TitleState
    <3>2. ticket[req[t].slot] = req[t].ticket => req[u].slot # req[t].slot
      BY <1>1, <3>1, Zenon DEF ThreadOwns, Asks
    <3> QED
      BY <1>1, <3>1, <3>2, Zenon DEF DnsTypes
  <2> QED
    BY <1>1, <2>1, Zenon DEF Claimed
<1>7. ThreadOwns'
  <2> SUFFICES ASSUME NEW u \in Threads, Asks(u)', ticket[req[u].slot] = req[u].ticket
               PROVE  state'[req[u].slot] = "PENDING" /\ name[req[u].slot] = req[u].name
    BY <1>1, Zenon DEF ThreadOwns
  <2>1. u # t /\ Asks(u) /\ Asks(t) /\ req[u].slot \in Slots
    BY <1>1, Zenon DEF Asks, TitleState
  <2>2. req[u].ticket # req[t].ticket
    BY <2>1, Zenon DEF OneBearer
  <2>3. state[req[u].slot] = "PENDING" /\ name[req[u].slot] = req[u].name
    BY <2>1, Zenon DEF ThreadOwns
  <2> QED
    BY <1>1, <2>1, <2>2, <2>3, Zenon DEF DnsTypes
<1>8. CallbackOwns'
  <2> SUFFICES ASSUME NEW r \in dns_requests, ticket[r.slot] = r.ticket
               PROVE  state'[r.slot] = state[r.slot]
    BY <1>1, Zenon DEF CallbackOwns
  <2>1. Asks(t) /\ r.slot \in Slots
    BY <1>1, Zenon DEF Asks, DnsTypes
  <2>2. req[t].ticket # r.ticket
    BY <2>1, Zenon DEF OneBearer
  <2> QED
    BY <1>1, <2>1, <2>2, Zenon DEF DnsTypes
<1>9. Matched'
  <2> SUFFICES ASSUME matched # NoMatch PROVE state'[matched.slot] = state[matched.slot]
    BY <1>1, Zenon DEF Matched
  <2>1. Asks(t) /\ matched \in dns_requests /\ matched.slot \in Slots
    BY <1>1, Zenon DEF Asks, DnsTypes, Matched
  <2>2. req[t].ticket # matched.ticket /\ req[t].ticket # 0
    BY <2>1 DEF OneBearer, Issued
  <2>3. ticket[matched.slot] \in {0, matched.ticket}
    BY Zenon DEF Matched
  <2> QED
    BY <1>1, <2>1, <2>2, <2>3, Zenon DEF DnsTypes
<1>10. PendingIsAwaited'
  BY <1>1, TableFacts, SMTT(30) DEF PendingIsAwaited, DnsTypes
<1> QED
  BY <1>2, <1>3, <1>4, <1>5, <1>6, <1>7, <1>8, <1>9, <1>10, Zenon

\* A step of the resolver that keeps the entries that are asked or answered.
LEMMA EntriesKeep ==
  ASSUME CallbackOwns, PendingIsAwaited,
         UNCHANGED <<state, ticket, name, pc, req, dns_requests, phase>>,
         \A r \in dns_requests :
           dns_table[r.entry].state = "ASKING" \/ calling.entry = r.entry =>
             /\ dns_table'[r.entry].name = dns_table[r.entry].name
             /\ dns_table'[r.entry].state = "ASKING" \/ calling'.entry = r.entry
  PROVE  CallbackOwns' /\ PendingIsAwaited'
BY DEF CallbackOwns, PendingIsAwaited

\* lwIP answers at once, or not at all: the request is taken back.
LEMMA QueryEndsKeeps ==
  ASSUME IInv, NEW t \in Threads, QueryAnswered(t) \/ QueryFails(t)
  PROVE  IInv'
<1> USE DEF IInv
<1>1. /\ phase = "up" /\ phase' = "up" /\ pc[t] = "query" /\ pc'[t] = "release"
      /\ req'[t].slot = req[t].slot /\ req'[t].ticket = req[t].ticket /\ req'[t].name = req[t].name
      /\ \A u \in Threads \ {t} : pc'[u] = pc[u] /\ req'[u] = req[u]
      /\ UNCHANGED <<state, ticket, name, async_dns_ticket_counter>>
      /\ UNCHANGED <<dns_table, dns_requests, calling, matched>>
  BY TableFacts DEF QueryAnswered, QueryFails, At, Goto, DnsTypes, Reqs, slotVars, dnsVars
<1>2. DnsTypes'
  <2>1. pc' \in [Threads -> {"idle", "lock", "find", "publish", "query", "release",
                              "clear", "released", "sync"}]
    BY Zenon DEF QueryAnswered, QueryFails, Goto, DnsTypes
  <2>2. req' \in [Threads -> Reqs]
    <3>1. \A x \in {"cached", "error"} : [req[t] EXCEPT !.then = x] \in Reqs
      BY ZenonT(30) DEF DnsTypes, Reqs
    <3> QED
      BY <3>1, Zenon DEF QueryAnswered, QueryFails, DnsTypes
  <2> QED
    BY <1>1, <2>1, <2>2, Zenon DEF DnsTypes
<1>3. TitleState'
  BY <1>1, TableFacts, Zenon DEF TitleState
<1>4. Issued'
  BY <1>1, TableFacts, Zenon DEF Issued, Asks
<1>5. OneBearer'
  BY <1>1, TableFacts, SMTT(30) DEF OneBearer, Asks
<1>6. Claimed'
  BY <1>1, TableFacts, SMTT(30) DEF Claimed
<1>7. ThreadOwns'
  BY <1>1, TableFacts, SMTT(30) DEF ThreadOwns, Asks
<1>8. CallbackOwns'
  BY <1>1, TableFacts, Zenon DEF CallbackOwns
<1>9. Matched'
  BY <1>1, TableFacts, Zenon DEF Matched
<1>10. PendingIsAwaited'
  BY <1>1, TableFacts, SMTT(30) DEF PendingIsAwaited
<1> QED
  BY <1>2, <1>3, <1>4, <1>5, <1>6, <1>7, <1>8, <1>9, <1>10, Zenon

\* The second store of a release clears the ticket the slot has by then.
LEMMA ClearKeeps ==
  ASSUME IInv, NEW t \in Threads, ReleaseTicket(t)
  PROVE  IInv'
<1> USE DEF IInv
<1>1. /\ phase = "up" /\ phase' = "up" /\ pc[t] = "clear" /\ pc'[t] = "released"
      /\ req[t].slot \in Slots /\ ticket' = [ticket EXCEPT ![req[t].slot] = 0]
      /\ \A u \in Threads \ {t} : pc'[u] = pc[u]
      /\ UNCHANGED <<state, name, async_dns_ticket_counter, req>>
      /\ UNCHANGED <<dns_table, dns_requests, calling, matched>>
  BY TableFacts, Zenon
    DEF ReleaseTicket, TitleState, At, Goto, DnsTypes, Reqs, slotVars, dnsVars
<1>2. DnsTypes'
  <2>1. pc' \in [Threads -> {"idle", "lock", "find", "publish", "query", "release",
                              "clear", "released", "sync"}]
    BY Zenon DEF ReleaseTicket, Goto, DnsTypes
  <2>2. ticket' \in [Slots -> Nat]
    BY <1>1, Zenon DEF DnsTypes
  <2> QED
    BY <1>1, <2>1, <2>2, Zenon DEF DnsTypes
<1>3. TitleState'
  BY <1>1, TableFacts, Zenon DEF TitleState
<1>4. Issued'
  BY <1>1, TableFacts, Zenon DEF Issued, Asks, DnsTypes
<1>5. OneBearer'
  BY <1>1, TableFacts, Zenon DEF OneBearer, Asks
<1>6. Claimed'
  BY <1>1, TableFacts, ZenonT(30) DEF Claimed
<1>7. ThreadOwns'
  BY <1>1, TableFacts, SMTT(30) DEF ThreadOwns, Asks, DnsTypes, TitleState, Issued
<1>8. CallbackOwns'
  BY <1>1, TableFacts, SMTT(30) DEF CallbackOwns, DnsTypes, Issued
<1>9. Matched'
  BY <1>1, TableFacts, Zenon DEF Matched, DnsTypes
<1>10. PendingIsAwaited'
  BY <1>1, TableFacts DEF PendingIsAwaited, DnsTypes
<1> QED
  BY <1>2, <1>3, <1>4, <1>5, <1>6, <1>7, <1>8, <1>9, <1>10, Zenon

\* lwIP has an answer, or gives up.
LEMMA AnswerKeeps ==
  ASSUME IInv, NEW e \in Entries, NEW ok \in BOOLEAN, Answer(e, ok)
  PROVE  IInv'
<1> USE DEF IInv
<1>1. /\ phase = "up" /\ phase' = "up" /\ calling = NoCall /\ calling'.entry = e /\ calling' # NoCall
      /\ matched = NoMatch /\ matched' = NoMatch
      /\ \A f \in Entries : /\ dns_table'[f].name = dns_table[f].name
                            /\ f # e => dns_table'[f].state = dns_table[f].state
      /\ UNCHANGED <<state, ticket, name, async_dns_ticket_counter, pc, req>>
      /\ UNCHANGED dns_requests
  BY TableFacts, SMTT(30)
    DEF Answer, CoreFree, Matched, At, Goto, DnsTypes, Reqs, slotVars, dnsVars
<1>2. DnsTypes'
  <2>1. dns_table' \in [Entries -> [state : {"UNUSED", "ASKING", "DONE"},
                                    name : Names \cup {NoName}]]
    BY ZenonT(30) DEF Answer, DnsTypes
  <2> QED
    BY <1>1, <2>1, Zenon DEF DnsTypes
<1>3. TitleState'
  BY <1>1, TableFacts, Zenon DEF TitleState
<1>4. Issued'
  BY <1>1, TableFacts, Zenon DEF Issued, Asks
<1>5. OneBearer'
  BY <1>1, TableFacts, Zenon DEF OneBearer, Asks
<1>6. Claimed'
  BY <1>1, TableFacts, Zenon DEF Claimed
<1>7. ThreadOwns'
  BY <1>1, TableFacts, Zenon DEF ThreadOwns, Asks
<1>8. CallbackOwns'
  <2>1. \A r \in dns_requests : r.entry \in Entries
    BY Zenon DEF DnsTypes
  <2> QED
    BY <1>1, <2>1, TableFacts, EntriesKeep, Zenon
<1>9. Matched'
  BY <1>1, TableFacts, Zenon DEF Matched
<1>10. PendingIsAwaited'
  <2>1. \A r \in dns_requests : r.entry \in Entries
    BY Zenon DEF DnsTypes
  <2> QED
    BY <1>1, <2>1, TableFacts, EntriesKeep, Zenon
<1> QED
  BY <1>2, <1>3, <1>4, <1>5, <1>6, <1>7, <1>8, <1>9, <1>10, Zenon

\* async_dns_found compares the ticket.
LEMMA CheckKeeps ==
  ASSUME IInv, NEW r \in dns_requests, FoundCheck(r)
  PROVE  IInv'
<1> USE DEF IInv
<1>1. /\ phase = "up" /\ phase' = "up" /\ calling # NoCall /\ matched = NoMatch
      /\ r.entry = calling.entry /\ r.slot \in Slots /\ r.entry \in Entries
      /\ \/ ticket[r.slot] = r.ticket /\ matched' = r /\ dns_requests' = dns_requests
         \/ ticket[r.slot] # r.ticket /\ dns_requests' = dns_requests \ {r} /\ matched' = NoMatch
      /\ UNCHANGED <<state, ticket, name, async_dns_ticket_counter, pc, req>>
      /\ UNCHANGED <<dns_table, calling>>
  BY TableFacts, Zenon
    DEF FoundCheck, WaitsFor, At, Goto, DnsTypes, Reqs, slotVars, dnsVars
<1>2. DnsTypes'
  BY <1>1, Zenon DEF DnsTypes, FoundCheck, WaitsFor
<1>3. TitleState'
  BY <1>1, TableFacts, Zenon DEF TitleState
<1>4. Issued'
  BY <1>1, TableFacts, Zenon DEF Issued, Asks
<1>5. OneBearer'
  BY <1>1, TableFacts, Zenon DEF OneBearer, Asks
<1>6. Claimed'
  BY <1>1, TableFacts, Zenon DEF Claimed
<1>7. ThreadOwns'
  BY <1>1, TableFacts, Zenon DEF ThreadOwns, Asks
<1>8. CallbackOwns'
  BY <1>1, TableFacts, Zenon DEF CallbackOwns
<1>9. Matched'
  BY <1>1, TableFacts, SMTT(30) DEF Matched, CallbackOwns
<1>10. PendingIsAwaited'
  BY <1>1, TableFacts DEF PendingIsAwaited
<1> QED
  BY <1>2, <1>3, <1>4, <1>5, <1>6, <1>7, <1>8, <1>9, <1>10, Zenon

\* async_dns_found stores the result.
LEMMA StoreKeeps ==
  ASSUME IInv, FoundStore
  PROVE  IInv'
<1> USE DEF IInv
<1>1. /\ phase = "up" /\ phase' = "up" /\ calling # NoCall /\ matched \in dns_requests
      /\ matched' = NoMatch /\ matched.slot \in Slots /\ state[matched.slot] = "PENDING"
      /\ ticket[matched.slot] \in {0, matched.ticket}
      /\ state' = [state EXCEPT ![matched.slot] = IF calling.ok THEN "READY" ELSE "FAILED"]
      /\ dns_requests' = dns_requests \ {matched}
      /\ UNCHANGED <<ticket, name, async_dns_ticket_counter, pc, req>>
      /\ UNCHANGED <<dns_table, calling>>
  BY TableFacts, Zenon
    DEF FoundStore, Matched, At, Goto, DnsTypes, Reqs, slotVars, dnsVars
<1>2. DnsTypes'
  <2>1. state' \in [Slots -> {"FREE", "CLAIMED", "PENDING", "READY", "FAILED"}]
    BY <1>1, Zenon DEF DnsTypes
  <2> QED
    BY <1>1, <2>1, Zenon DEF DnsTypes
<1>3. TitleState'
  BY <1>1, TableFacts, Zenon DEF TitleState
<1>4. Issued'
  BY <1>1, TableFacts, Zenon DEF Issued, Asks
<1>5. OneBearer'
  BY <1>1, TableFacts, Zenon DEF OneBearer, Asks
<1>6. Claimed'
  BY <1>1, TableFacts, ZenonT(30) DEF Claimed, DnsTypes, TitleState
<1>7. ThreadOwns'
  BY <1>1, TableFacts, SMTT(30)
    DEF ThreadOwns, Asks, DnsTypes, TitleState, Issued, OneBearer
<1>8. CallbackOwns'
  BY <1>1, TableFacts, SMTT(30) DEF CallbackOwns, DnsTypes, OneBearer, Issued
<1>9. Matched'
  BY <1>1, TableFacts, Zenon DEF Matched
<1>10. PendingIsAwaited'
  BY <1>1, TableFacts, SMTT(30) DEF PendingIsAwaited, DnsTypes
<1> QED
  BY <1>2, <1>3, <1>4, <1>5, <1>6, <1>7, <1>8, <1>9, <1>10, Zenon

\* All callbacks of an answer are made.
LEMMA DoneKeeps ==
  ASSUME IInv, AnswerDone
  PROVE  IInv'
<1> USE DEF IInv
<1>1. /\ phase = "up" /\ phase' = "up" /\ calling # NoCall /\ calling' = NoCall
      /\ matched = NoMatch /\ matched' = NoMatch
      /\ \A r \in dns_requests : r.entry # calling.entry
      /\ \A f \in Entries \ {calling.entry} : dns_table'[f] = dns_table[f]
      /\ UNCHANGED <<state, ticket, name, async_dns_ticket_counter, pc, req>>
      /\ UNCHANGED dns_requests
  BY TableFacts, Zenon
    DEF AnswerDone, WaitsFor, At, Goto, DnsTypes, Reqs, slotVars, dnsVars
<1>2. DnsTypes'
  <2>1. Unused \in [state : {"UNUSED", "ASKING", "DONE"}, name : Names \cup {NoName}]
    BY Zenon DEF Unused
  <2>2. dns_table' \in [Entries -> [state : {"UNUSED", "ASKING", "DONE"},
                                    name : Names \cup {NoName}]]
    BY <2>1, Zenon DEF AnswerDone, DnsTypes
  <2> QED
    BY <1>1, <2>2, Zenon DEF DnsTypes
<1>3. TitleState'
  BY <1>1, TableFacts, Zenon DEF TitleState
<1>4. Issued'
  BY <1>1, TableFacts, Zenon DEF Issued, Asks
<1>5. OneBearer'
  BY <1>1, TableFacts, Zenon DEF OneBearer, Asks
<1>6. Claimed'
  BY <1>1, TableFacts, Zenon DEF Claimed
<1>7. ThreadOwns'
  BY <1>1, TableFacts, Zenon DEF ThreadOwns, Asks
<1>8. CallbackOwns'
  <2>1. \A r \in dns_requests : r.entry \in Entries
    BY Zenon DEF DnsTypes
  <2> QED
    BY <1>1, <2>1, TableFacts, EntriesKeep, Zenon
<1>9. Matched'
  BY <1>1, TableFacts, Zenon DEF Matched
<1>10. PendingIsAwaited'
  <2>1. \A r \in dns_requests : r.entry \in Entries
    BY Zenon DEF DnsTypes
  <2> QED
    BY <1>1, <2>1, TableFacts, EntriesKeep, Zenon
<1> QED
  BY <1>2, <1>3, <1>4, <1>5, <1>6, <1>7, <1>8, <1>9, <1>10, Zenon

\* A cached answer runs out.
LEMMA ExpireKeeps ==
  ASSUME IInv, NEW e \in Entries, Expire(e)
  PROVE  IInv'
<1> USE DEF IInv
<1>1. /\ phase = "up" /\ phase' = "up" /\ calling = NoCall /\ dns_table[e].state = "DONE"
      /\ \A f \in Entries \ {e} : dns_table'[f] = dns_table[f]
      /\ matched = NoMatch
      /\ UNCHANGED <<state, ticket, name, async_dns_ticket_counter, pc, req>>
      /\ UNCHANGED <<dns_requests, calling, matched>>
  BY TableFacts, Zenon
    DEF Expire, CoreFree, Matched, At, Goto, DnsTypes, Reqs, slotVars, dnsVars
<1>2. DnsTypes'
  <2>1. Unused \in [state : {"UNUSED", "ASKING", "DONE"}, name : Names \cup {NoName}]
    BY Zenon DEF Unused
  <2>2. dns_table' \in [Entries -> [state : {"UNUSED", "ASKING", "DONE"},
                                    name : Names \cup {NoName}]]
    BY <2>1, Zenon DEF Expire, DnsTypes
  <2> QED
    BY <1>1, <2>2, Zenon DEF DnsTypes
<1>3. TitleState'
  BY <1>1, TableFacts, Zenon DEF TitleState
<1>4. Issued'
  BY <1>1, TableFacts, Zenon DEF Issued, Asks
<1>5. OneBearer'
  BY <1>1, TableFacts, Zenon DEF OneBearer, Asks
<1>6. Claimed'
  BY <1>1, TableFacts, Zenon DEF Claimed
<1>7. ThreadOwns'
  BY <1>1, TableFacts, Zenon DEF ThreadOwns, Asks
<1>8. CallbackOwns'
  <2>1. \A r \in dns_requests : r.entry \in Entries
    BY Zenon DEF DnsTypes
  <2> QED
    BY <1>1, <2>1, TableFacts, EntriesKeep, Zenon
<1>9. Matched'
  BY <1>1, TableFacts, Zenon DEF Matched
<1>10. PendingIsAwaited'
  <2>1. \A r \in dns_requests : r.entry \in Entries
    BY Zenon DEF DnsTypes
  <2> QED
    BY <1>1, <2>1, TableFacts, EntriesKeep, Zenon
<1> QED
  BY <1>2, <1>3, <1>4, <1>5, <1>6, <1>7, <1>8, <1>9, <1>10, Zenon

\* The process ends with all its threads.
LEMMA DiesKeeps ==
  ASSUME IInv, TitleDies
  PROVE  IInv'
<1> USE DEF IInv
<1>1. /\ phase' = "dead" /\ calling' = NoCall /\ matched' = NoMatch
      /\ \A t \in Threads : pc'[t] = "idle"
      /\ UNCHANGED <<state, ticket, name, async_dns_ticket_counter, dns_table, dns_requests>>
  BY TableFacts, Zenon DEF TitleDies, At, Goto, DnsTypes, Reqs, slotVars, dnsVars
<1>2. DnsTypes'
  <2>1. NoRequest \in Reqs
    BY Zenon DEF NoRequest, Reqs
  <2> QED
    BY <1>1, <2>1, Zenon DEF TitleDies, DnsTypes
<1>3. TitleState'
  BY <1>1, TableFacts, Zenon DEF TitleState
<1>4. Issued'
  BY <1>1, TableFacts, Zenon DEF Issued, Asks
<1>5. OneBearer'
  BY <1>1, TableFacts, Zenon DEF OneBearer, Asks
<1>6. Claimed'
  BY <1>1, TableFacts, Zenon DEF Claimed
<1>7. ThreadOwns'
  BY <1>1, TableFacts, Zenon DEF ThreadOwns, Asks
<1>8. CallbackOwns'
  BY <1>1, TableFacts, Zenon DEF CallbackOwns
<1>9. Matched'
  BY <1>1, TableFacts, Zenon DEF Matched
<1>10. PendingIsAwaited'
  BY <1>1, TableFacts, Zenon DEF PendingIsAwaited
<1> QED
  BY <1>2, <1>3, <1>4, <1>5, <1>6, <1>7, <1>8, <1>9, <1>10, Zenon

\* begin_title frees every slot.
LEMMA BeginKeeps ==
  ASSUME IInv, BeginTitle
  PROVE  IInv'
<1> USE DEF IInv
<1>1. /\ phase = "dead" /\ phase' = "begun"
      /\ \A s \in Slots : ticket'[s] = 0
      /\ \A t \in Threads : pc[t] = "idle"
      /\ UNCHANGED <<async_dns_ticket_counter, dns_table, dns_requests, calling, matched, pc, req>>
  BY TableFacts, Zenon
    DEF BeginTitle, TitleState, At, Goto, DnsTypes, Reqs, slotVars, dnsVars
<1>2. DnsTypes'
  BY <1>1, Zenon DEF BeginTitle, DnsTypes
<1>3. TitleState'
  BY <1>1, TableFacts, Zenon DEF TitleState
<1>4. Issued'
  BY <1>1, TableFacts, Zenon DEF Issued, Asks
<1>5. OneBearer'
  BY <1>1, TableFacts, Zenon DEF OneBearer, Asks
<1>6. Claimed'
  BY <1>1, TableFacts, Zenon DEF Claimed
<1>7. ThreadOwns'
  BY <1>1, TableFacts, Zenon DEF ThreadOwns, Asks
<1>8. CallbackOwns'
  BY <1>1, TableFacts, Zenon DEF CallbackOwns
<1>9. Matched'
  BY <1>1, TableFacts, Zenon DEF Matched, TitleState
<1>10. PendingIsAwaited'
  BY <1>1, TableFacts, Zenon DEF PendingIsAwaited
<1> QED
  BY <1>2, <1>3, <1>4, <1>5, <1>6, <1>7, <1>8, <1>9, <1>10, Zenon

\* The stack starts with the resolver's leftovers and no tickets.
LEMMA StartKeeps ==
  ASSUME IInv, StackStarts
  PROVE  IInv'
<1> USE DEF IInv
<1>1. /\ phase = "begun" /\ phase' = "up"
      /\ \A s \in Slots : ticket[s] = 0
      /\ UNCHANGED <<state, ticket, name, async_dns_ticket_counter, pc, req>>
      /\ UNCHANGED <<dns_table, dns_requests, calling, matched>>
  BY TableFacts, Zenon
    DEF StackStarts, TitleState, At, Goto, DnsTypes, Reqs, slotVars, dnsVars
<1>2. DnsTypes'
  BY <1>1, Zenon DEF DnsTypes, StackStarts, TitleState
<1>3. TitleState'
  BY <1>1, TableFacts, Zenon DEF TitleState
<1>4. Issued'
  BY <1>1, TableFacts, Zenon DEF Issued, Asks
<1>5. OneBearer'
  BY <1>1, TableFacts, Zenon DEF OneBearer, Asks
<1>6. Claimed'
  BY <1>1, TableFacts, Zenon DEF Claimed
<1>7. ThreadOwns'
  BY <1>1, TableFacts, Zenon DEF ThreadOwns, Asks
<1>8. CallbackOwns'
  <2>1. \A r \in dns_requests : r.slot \in Slots /\ r.ticket # 0
    BY SMTT(30) DEF DnsTypes, Issued
  <2> QED
    BY <1>1, <2>1, Zenon DEF CallbackOwns
<1>9. Matched'
  BY <1>1, TableFacts, Zenon DEF Matched
<1>10. PendingIsAwaited'
  BY <1>1, TableFacts, Zenon DEF PendingIsAwaited, DnsTypes
<1> QED
  BY <1>2, <1>3, <1>4, <1>5, <1>6, <1>7, <1>8, <1>9, <1>10, Zenon

-------------------------------------------------------------------------------
(* The invariant is inductive.                                               *)

\* Before the first request no slot, no callback and no thread has a ticket.
LEMMA InitIInv == Init => IInv
<1> SUFFICES ASSUME Init PROVE IInv
  BY Zenon
<1>1. NoRequest \in Reqs /\ Unused \in [state : {"UNUSED", "ASKING", "DONE"}, name : Names \cup {NoName}]
  BY Zenon DEF NoRequest, Reqs, Unused
<1>2. DnsTypes
  BY <1>1, Zenon DEF Init, DnsTypes
<1>3. TitleState /\ Issued /\ OneBearer /\ Claimed /\ ThreadOwns /\ CallbackOwns /\ Matched
  BY SMTT(30) DEF Init, Asks, TitleState, Issued, OneBearer, Claimed, ThreadOwns,
    CallbackOwns,
    Matched
<1>4. PendingIsAwaited
  BY Zenon DEF Init, PendingIsAwaited
<1> QED
  BY <1>2, <1>3, <1>4, Zenon DEF IInv

\* Every step of a thread, of the resolver and of a title preserves it.
LEMMA NextIInv ==
  ASSUME IInv, [Next]_vars
  PROVE  IInv'
<1>0. NoRequest \in Reqs
  BY Zenon DEF NoRequest, Reqs
<1>1. ASSUME NEW t \in Threads, NEW n \in Names, Call(t, n) PROVE IInv'
  <2>1. /\ DnsTypes' /\ phase = "up"
        /\ \A u \in Threads \ {t} : req'[u] = req[u]
    BY <1>0, <1>1, ZenonT(30) DEF Reqs, Call, At, Goto, DnsTypes, IInv, slotVars, dnsVars
  <2> QED
    BY <1>1, <2>1, ThreadMoves, Zenon DEF Call, At, Goto
<1>2. ASSUME NEW t \in Threads, Lock(t) PROVE IInv'
  <2>1. /\ DnsTypes' /\ phase = "up"
        /\ \A u \in Threads \ {t} : req'[u] = req[u]
    BY <1>0, <1>2, Zenon DEF Lock, At, Goto, DnsTypes, IInv, slotVars, dnsVars
  <2> QED
    BY <1>2, <2>1, ThreadMoves, Zenon DEF Lock, At, Goto
<1>3. ASSUME NEW t \in Threads, PollPending(t) PROVE IInv'
  <2>1. /\ DnsTypes' /\ phase = "up"
        /\ \A u \in Threads \ {t} : req'[u] = req[u]
    BY <1>0, <1>3, Zenon
      DEF PollPending, Return, At, Goto, DnsTypes, IInv, slotVars, dnsVars
  <2> QED
    BY <1>3, <2>1, ThreadMoves, Zenon DEF PollPending, Return, At, Goto
<1>4. ASSUME NEW t \in Threads, TableFull(t) PROVE IInv'
  <2>1. /\ DnsTypes' /\ phase = "up"
        /\ \A u \in Threads \ {t} : req'[u] = req[u]
    BY <1>0, <1>4, Zenon
      DEF TableFull, Return, At, Goto, DnsTypes, IInv, slotVars, dnsVars
  <2> QED
    BY <1>4, <2>1, ThreadMoves, Zenon DEF TableFull, Return, At, Goto
<1>5. ASSUME NEW t \in Threads, Released(t) PROVE IInv'
  <2>1. /\ DnsTypes' /\ phase = "up"
        /\ \A u \in Threads \ {t} : req'[u] = req[u]
    BY <1>0, <1>5, Zenon DEF Released, Return, At, Goto, DnsTypes, IInv, slotVars, dnsVars
  <2> QED
    BY <1>5, <2>1, ThreadMoves, Zenon DEF Released, Return, At, Goto
<1>6. ASSUME NEW t \in Threads, Sync(t) PROVE IInv'
  <2>1. /\ DnsTypes' /\ phase = "up"
        /\ \A u \in Threads \ {t} : req'[u] = req[u]
    BY <1>0, <1>6, Zenon DEF Sync, Return, At, Goto, DnsTypes, IInv, slotVars, dnsVars
  <2> QED
    BY <1>6, <2>1, ThreadMoves, Zenon DEF Sync, Return, At, Goto
<1>7. CASE \E t \in Threads, s \in Slots : PollComplete(t, s)
  BY <1>7, PollCompleteKeeps, Zenon
<1>8. CASE \E t \in Threads, s \in Slots : Claim(t, s)
  BY <1>8, ClaimKeeps, Zenon
<1>9. CASE \E t \in Threads : Publish(t)
  BY <1>9, PublishKeeps, Zenon
<1>10. CASE \E t \in Threads, e \in Entries : QueryInProgress(t, e)
  BY <1>10, QueryKeeps, Zenon
<1>11. CASE \E t \in Threads : QueryAnswered(t) \/ QueryFails(t)
  BY <1>11, QueryEndsKeeps, Zenon
<1>12. CASE \E t \in Threads : ReleaseSlot(t)
  BY <1>12, ReleaseKeeps, Zenon
<1>13. CASE \E t \in Threads : ReleaseTicket(t)
  BY <1>13, ClearKeeps, Zenon
<1>14. CASE \E e \in Entries, ok \in BOOLEAN : Answer(e, ok)
  BY <1>14, AnswerKeeps, Zenon
<1>15. CASE \E r \in dns_requests : FoundCheck(r)
  BY <1>15, CheckKeeps, Zenon
<1>16. CASE FoundStore
  BY <1>16, StoreKeeps, Zenon
<1>17. CASE AnswerDone
  BY <1>17, DoneKeeps, Zenon
<1>18. CASE \E e \in Entries : Expire(e)
  BY <1>18, ExpireKeeps, ZenonT(30)
<1>19. CASE TitleDies
  BY <1>19, DiesKeeps, Zenon
<1>20. CASE BeginTitle
  BY <1>20, BeginKeeps, Zenon
<1>21. CASE StackStarts
  BY <1>21, StartKeeps, Zenon
<1>22. CASE UNCHANGED vars
  BY <1>22 DEF vars, slotVars, dnsVars, IInv, DnsTypes, TitleState, Issued, OneBearer,
    Claimed,
    ThreadOwns, CallbackOwns, Matched, PendingIsAwaited, Asks
<1> QED
  BY <1>1, <1>2, <1>3, <1>4, <1>5, <1>6, <1>7, <1>8, <1>9, <1>10, <1>11, <1>12, <1>13,
    <1>14, <1>15, <1>16, <1>17, <1>18, <1>19, <1>20, <1>21, <1>22, Zenon DEF Next, ThreadStep,
    Callbacks

-------------------------------------------------------------------------------
(* The theorems.                                                             *)

\* Every step keeps the tickets in order.
THEOREM InvariantHolds == Spec => []IInv
BY InitIInv, NextIInv, PTL DEF Spec

\* A request that shim_getaddrinfo_async reports as pending can still be completed:
\* its thread is about to ask lwIP or to take it back, or a callback with its ticket
\* waits at an entry for its name that lwIP is asking for or answering.
THEOREM PendingAwaited == Spec => []PendingIsAwaited
<1>1. IInv => PendingIsAwaited
  BY Zenon DEF IInv
<1> QED
  BY <1>1, InvariantHolds, PTL

\* Only async_dns_found completes a pending slot.
LEMMA WhoCompletes ==
  ASSUME IInv, Next, NEW s \in Slots, state[s] = "PENDING", state'[s] \in {"READY", "FAILED"}
  PROVE  FoundStore
<1> USE DEF IInv, DnsTypes, slotVars
<1>1. ASSUME NEW t \in Threads, ThreadStep(t) PROVE FALSE
  <2>1. CASE Lock(t) \/ PollPending(t) \/ TableFull(t) \/ QueryAnswered(t) \/ QueryFails(t)
             \/ ReleaseTicket(t) \/ Released(t) \/ Sync(t)
    BY <2>1, Zenon DEF Lock, PollPending, TableFull, QueryAnswered, QueryFails,
      ReleaseTicket,
      Released, Sync
  <2>2. ASSUME NEW x \in Slots, PollComplete(t, x) PROVE FALSE
    BY <2>2, Zenon DEF PollComplete
  <2>5. ASSUME NEW x \in Slots, Claim(t, x) PROVE FALSE
    BY <2>5, Zenon DEF Claim
  <2>3. ASSUME NEW e \in Entries, QueryInProgress(t, e) PROVE FALSE
    BY <2>3, Zenon DEF QueryInProgress
  <2>4. CASE Publish(t) \/ ReleaseSlot(t)
    BY <2>4, Zenon DEF Publish, ReleaseSlot
  <2> QED
    BY <1>1, <2>1, <2>2, <2>3, <2>4, <2>5, Zenon DEF ThreadStep
<1>2. ASSUME NEW t \in Threads, NEW n \in Names, Call(t, n) PROVE FALSE
  BY <1>2, Zenon DEF Call
<1>3. ASSUME NEW e \in Entries, NEW ok \in BOOLEAN, Answer(e, ok) PROVE FALSE
  BY <1>3, Zenon DEF Answer
<1>4. ASSUME NEW r \in dns_requests, FoundCheck(r) PROVE FALSE
  BY <1>4, Zenon DEF FoundCheck
<1>5. ASSUME NEW e \in Entries, Expire(e) PROVE FALSE
  BY <1>5, Zenon DEF Expire
<1>6. ~AnswerDone /\ ~TitleDies /\ ~BeginTitle /\ ~StackStarts
  BY Zenon DEF AnswerDone, TitleDies, BeginTitle, StackStarts
<1> HIDE DEF IInv, DnsTypes, slotVars
<1> QED
  BY <1>1, <1>2, <1>3, <1>4, <1>5, <1>6, Zenon DEF Next, Callbacks

\* "A late callback therefore cannot complete a newly reused slot": whatever lwIP's
\* resolver still holds of earlier titles, async_dns_found only completes a slot with
\* the answer for the very name that slot waits for.
THEOREM LateCallbackHarmless == Spec => AnswerIsOwn
<1> DEFINE Own == \A s \in Slots :
                    state[s] = "PENDING" /\ state'[s] \in {"READY", "FAILED"}
                      => matched.slot = s /\ dns_table[calling.entry].name = name[s]
<1>1. IInv /\ [Next]_vars => [Own]_vars
  <2> SUFFICES ASSUME IInv, Next, NEW s \in Slots, state[s] = "PENDING",
                      state'[s] \in {"READY", "FAILED"}
               PROVE  matched.slot = s /\ dns_table[calling.entry].name = name[s]
    BY Zenon
  <2>1. FoundStore
    BY WhoCompletes, Zenon
  <2>2. matched # NoMatch /\ matched.slot = s
    BY <2>1, Zenon DEF FoundStore, IInv, DnsTypes
  <2> QED
    BY <2>2, Zenon DEF IInv, Matched
<1> QED
  BY <1>1, InvariantHolds, PTL DEF Spec, AnswerIsOwn

===============================================================================
