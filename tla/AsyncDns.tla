------------------------------- MODULE AsyncDns -------------------------------
(***************************************************************************)
(* getaddrinfo_async of src/aroma_module/nsysnet_shim.c: the table of      *)
(* asynchronous requests that title threads poll, that lwIP's thread       *)
(* completes through async_dns_found, and that begin_title resets.         *)
(*                                                                         *)
(* lwIP's resolver (src/vendor/lwip/src/core/dns.c) is modelled as far as  *)
(* the shim sees it: a table of DNS_TABLE_SIZE names that are being asked  *)
(* for or done, and the callbacks that wait for them.  lwip_port_reset_all *)
(* has no part for it, so both outlive the title that filled them.         *)
(***************************************************************************)
EXTENDS Naturals, FiniteSets

CONSTANTS Threads,         \* title threads that call getaddrinfo_async
          Names,           \* hostnames, after dns_rewrite_name
          Numeric,         \* those lwIP answers at once: addresses, localhost
          NoName,
          ASYNC_DNS_MAX,   \* slots of the shim
          DNS_TABLE_SIZE,  \* entries, and requests, of lwIP
          MaxTickets,      \* bound: requests ever started
          MaxTitles        \* bound: titles that end

ASSUME DnsAssumption ==
  /\ ASYNC_DNS_MAX \in Nat \ {0} /\ DNS_TABLE_SIZE \in Nat \ {0}
  /\ MaxTickets \in Nat /\ MaxTitles \in Nat
  /\ Numeric \subseteq Names /\ NoName \notin Names
  /\ "none" \notin Threads

Slots == 1 .. ASYNC_DNS_MAX
Entries == 1 .. DNS_TABLE_SIZE

VARIABLES
  (* statics of the shim *)
  state, ticket, name,        \* async_dns_slots
  async_dns_ticket_counter,
  async_dns_table_lock,       \* its holder, or "none"
  (* statics of lwIP's resolver *)
  dns_table,                  \* entry -> [state, name]
  dns_requests,               \* callbacks that wait: [entry, slot, ticket]
  calling,                    \* [entry, ok]: lwIP's thread is in dns_call_found
  matched,                    \* the callback whose ticket it has compared
  (* the title *)
  phase,                      \* "up", "dead", "begun"
  pc, req,
  titles

slotVars == <<state, ticket, name, async_dns_ticket_counter>>
dnsVars == <<dns_table, dns_requests, calling, matched>>
vars == <<slotVars, async_dns_table_lock, dnsVars, phase, pc, req, titles>>

NoRequest == [name |-> NoName, slot |-> 0, ticket |-> 0, then |-> "none"]
NoCall == [entry |-> 0, ok |-> FALSE]
NoMatch == [entry |-> 0, slot |-> 0, ticket |-> 0]
Unused == [state |-> "UNUSED", name |-> NoName]

Init ==
  /\ state = [s \in Slots |-> "FREE"] /\ ticket = [s \in Slots |-> 0]
  /\ name = [s \in Slots |-> NoName]
  /\ async_dns_ticket_counter = 1
  /\ async_dns_table_lock = "none"
  /\ dns_table = [e \in Entries |-> Unused] /\ dns_requests = {}
  /\ calling = NoCall /\ matched = NoMatch
  /\ phase = "up"
  /\ pc = [t \in Threads |-> "idle"] /\ req = [t \in Threads |-> NoRequest]
  /\ titles = 0

-------------------------------------------------------------------------------
(* A title thread in shim_getaddrinfo_async.                                *)

At(t, p) == phase = "up" /\ pc[t] = p
Goto(t, p) == pc' = [pc EXCEPT ![t] = p]
Return(t) == Goto(t, "idle") /\ req' = [req EXCEPT ![t] = NoRequest]

Call(t, n) ==
  /\ At(t, "idle")
  /\ async_dns_ticket_counter + Cardinality({u \in Threads : pc[u] # "idle"}) <= MaxTickets
  /\ req' = [req EXCEPT ![t].name = n]
  /\ Goto(t, "lock")
  /\ UNCHANGED <<slotVars, async_dns_table_lock, dnsVars, phase, titles>>

\* async_dns_lock.
Lock(t) ==
  /\ At(t, "lock") /\ async_dns_table_lock = "none"
  /\ async_dns_table_lock' = t
  /\ Goto(t, "find")
  /\ UNCHANGED <<slotVars, dnsVars, phase, req, titles>>

\* async_dns_find_locked.
Find(n) == {s \in Slots : state[s] \notin {"FREE", "CLAIMED"} /\ name[s] = n}

\* The request is still pending: EAI_INPROGRESS.
PollPending(t) ==
  /\ At(t, "find")
  /\ \E s \in Find(req[t].name) : state[s] = "PENDING"
  /\ async_dns_table_lock' = "none"
  /\ Return(t)
  /\ UNCHANGED <<slotVars, dnsVars, phase, titles>>

\* It is complete: its slot is freed, and a good answer is read from lwIP.
PollComplete(t, s) ==
  /\ At(t, "find")
  /\ s \in Find(req[t].name) /\ state[s] # "PENDING"
  /\ state' = [state EXCEPT ![s] = "FREE"]
  /\ ticket' = [ticket EXCEPT ![s] = 0]
  /\ async_dns_table_lock' = "none"
  /\ IF state[s] = "READY"
       THEN Goto(t, "sync") /\ req' = [req EXCEPT ![t].then = "ready"]
       ELSE Return(t)
  /\ UNCHANGED <<name, async_dns_ticket_counter, dnsVars, phase, titles>>

\* async_dns_claim_locked takes the first free slot ...
Claim(t, s) ==
  /\ At(t, "find") /\ Find(req[t].name) = {}
  /\ state[s] = "FREE" /\ \A i \in 1 .. s - 1 : state[i] # "FREE"
  /\ state' = [state EXCEPT ![s] = "CLAIMED"]
  /\ req' = [req EXCEPT ![t].slot = s]
  /\ Goto(t, "publish")
  /\ UNCHANGED <<ticket, name, async_dns_ticket_counter, async_dns_table_lock, dnsVars, phase, titles>>

\* ... or finds none: EAI_MEMORY.
TableFull(t) ==
  /\ At(t, "find") /\ Find(req[t].name) = {}
  /\ \A s \in Slots : state[s] # "FREE"
  /\ async_dns_table_lock' = "none"
  /\ Return(t)
  /\ UNCHANGED <<slotVars, dnsVars, phase, titles>>

\* The slot gets its ticket and its name and is published.
Publish(t) ==
  /\ At(t, "publish")
  /\ ticket' = [ticket EXCEPT ![req[t].slot] = async_dns_ticket_counter]
  /\ name' = [name EXCEPT ![req[t].slot] = req[t].name]
  /\ state' = [state EXCEPT ![req[t].slot] = "PENDING"]
  /\ req' = [req EXCEPT ![t].ticket = async_dns_ticket_counter]
  /\ async_dns_ticket_counter' = async_dns_ticket_counter + 1
  /\ async_dns_table_lock' = "none"
  /\ Goto(t, "query")
  /\ UNCHANGED <<dnsVars, phase, titles>>

-------------------------------------------------------------------------------
(* dns_gethostbyname, under the core lock.                                   *)

\* The core lock: lwIP's thread is not in the middle of its callbacks.
CoreFree == calling = NoCall

Cached(n) == \E e \in Entries : dns_table[e] = [state |-> "DONE", name |-> n]
Asking(n) == {e \in Entries : dns_table[e] = [state |-> "ASKING", name |-> n]}
RequestFree == Cardinality(dns_requests) < DNS_TABLE_SIZE

\* Where dns_enqueue puts a query: the first unused entry, else one that is
\* done (the oldest; which one that is does not matter here).
Usable ==
  LET unused == {e \in Entries : dns_table[e].state = "UNUSED"}
  IN IF unused # {} THEN {e \in unused : \A f \in unused : e <= f}
     ELSE {e \in Entries : dns_table[e].state = "DONE"}

\* The query is enqueued, or joins the one that asks for the same name.
QueryInProgress(t, e) ==
  /\ At(t, "query") /\ CoreFree
  /\ req[t].name \notin Numeric /\ ~Cached(req[t].name) /\ RequestFree
  /\ IF Asking(req[t].name) # {}
       THEN e \in Asking(req[t].name) /\ UNCHANGED dns_table
       ELSE /\ e \in Usable
            /\ dns_table' = [dns_table EXCEPT ![e] = [state |-> "ASKING", name |-> req[t].name]]
  /\ dns_requests' = dns_requests \cup {[entry |-> e, slot |-> req[t].slot, ticket |-> req[t].ticket]}
  /\ Return(t)
  /\ UNCHANGED <<slotVars, async_dns_table_lock, calling, matched, phase, titles>>

\* ERR_OK: an address, or the name is in lwIP's cache.
QueryAnswered(t) ==
  /\ At(t, "query") /\ CoreFree
  /\ req[t].name \in Numeric \/ Cached(req[t].name)
  /\ req' = [req EXCEPT ![t].then = "cached"]
  /\ Goto(t, "release")
  /\ UNCHANGED <<slotVars, async_dns_table_lock, dnsVars, phase, titles>>

\* Another error: lwIP's tables are full, or there is no server or no pcb.
QueryFails(t) ==
  /\ At(t, "query") /\ CoreFree
  /\ req[t].name \notin Numeric /\ ~Cached(req[t].name)
  /\ req' = [req EXCEPT ![t].then = "error"]
  /\ Goto(t, "release")
  /\ UNCHANGED <<slotVars, async_dns_table_lock, dnsVars, phase, titles>>

\* A release for the answered requests only.
ReleaseAnswered(t) ==
  /\ At(t, "release")
  /\ IF ticket[req[t].slot] = req[t].ticket /\ req[t].then = "cached"
       THEN state' = [state EXCEPT ![req[t].slot] = "FREE"] /\ Goto(t, "clear")
       ELSE Goto(t, "released") /\ UNCHANGED state
  /\ UNCHANGED <<ticket, name, async_dns_ticket_counter, async_dns_table_lock, dnsVars, phase, req, titles>>

\* async_dns_release_if_ticket, without the lock: the state first ...
ReleaseSlot(t) ==
  /\ At(t, "release")
  /\ IF ticket[req[t].slot] = req[t].ticket
       THEN state' = [state EXCEPT ![req[t].slot] = "FREE"] /\ Goto(t, "clear")
       ELSE Goto(t, "released") /\ UNCHANGED state
  /\ UNCHANGED <<ticket, name, async_dns_ticket_counter, async_dns_table_lock, dnsVars, phase, req, titles>>

\* ... then the ticket.
ReleaseTicket(t) ==
  /\ At(t, "clear")
  /\ ticket' = [ticket EXCEPT ![req[t].slot] = 0]
  /\ Goto(t, "released")
  /\ UNCHANGED <<state, name, async_dns_ticket_counter, async_dns_table_lock, dnsVars, phase, req, titles>>

Released(t) ==
  /\ At(t, "released")
  /\ IF req[t].then = "error" THEN Return(t) ELSE Goto(t, "sync") /\ UNCHANGED req
  /\ UNCHANGED <<slotVars, async_dns_table_lock, dnsVars, phase, titles>>

\* shim_getaddrinfo_sync makes the list.
Sync(t) ==
  /\ At(t, "sync")
  /\ Return(t)
  /\ UNCHANGED <<slotVars, async_dns_table_lock, dnsVars, phase, titles>>

-------------------------------------------------------------------------------
(* lwIP's thread: an answer, an error or the last timeout for one entry      *)
(* calls the callbacks of every request of that entry, under the core lock.  *)

WaitsFor(e) == {r \in dns_requests : r.entry = e}

\* dns_call_found; a correct response marks the entry DONE before it.
Answer(e, ok) ==
  /\ phase = "up" /\ CoreFree
  /\ dns_table[e].state = "ASKING"
  /\ calling' = [entry |-> e, ok |-> ok]
  /\ dns_table' = IF ok THEN [dns_table EXCEPT ![e].state = "DONE"] ELSE dns_table
  /\ UNCHANGED <<slotVars, async_dns_table_lock, dns_requests, matched, phase, pc, req, titles>>

\* async_dns_found returns unless the slot still has the ticket ...
FoundCheck(r) ==
  /\ phase = "up" /\ calling # NoCall /\ matched = NoMatch
  /\ r \in WaitsFor(calling.entry)
  /\ IF ticket[r.slot] = r.ticket
       THEN matched' = r /\ UNCHANGED dns_requests
       ELSE dns_requests' = dns_requests \ {r} /\ UNCHANGED matched
  /\ UNCHANGED <<slotVars, async_dns_table_lock, dns_table, calling, phase, pc, req, titles>>

\* A callback that keeps failures to itself.
FoundSuccessOnly ==
  /\ phase = "up" /\ matched # NoMatch
  /\ state' = IF state[matched.slot] = "PENDING" /\ calling.ok
                THEN [state EXCEPT ![matched.slot] = "READY"] ELSE state
  /\ dns_requests' = dns_requests \ {matched}
  /\ matched' = NoMatch
  /\ UNCHANGED <<ticket, name, async_dns_ticket_counter, async_dns_table_lock, dns_table, calling, phase, pc, req, titles>>

\* ... then exchanges PENDING for the result.
FoundStore ==
  /\ phase = "up" /\ matched # NoMatch
  /\ state' = IF state[matched.slot] = "PENDING"
                THEN [state EXCEPT ![matched.slot] = IF calling.ok THEN "READY" ELSE "FAILED"]
                ELSE state
  /\ dns_requests' = dns_requests \ {matched}
  /\ matched' = NoMatch
  /\ UNCHANGED <<ticket, name, async_dns_ticket_counter, async_dns_table_lock, dns_table, calling, phase, pc, req, titles>>

\* All callbacks are made: a failed entry, or one with a zero TTL, is flushed.
AnswerDone ==
  /\ phase = "up" /\ calling # NoCall /\ matched = NoMatch /\ WaitsFor(calling.entry) = {}
  /\ \E keep \in {calling.ok, FALSE} :
       dns_table' = IF keep THEN dns_table ELSE [dns_table EXCEPT ![calling.entry] = Unused]
  /\ calling' = NoCall
  /\ UNCHANGED <<slotVars, async_dns_table_lock, dns_requests, matched, phase, pc, req, titles>>

\* dns_check_entry: the TTL of a cached answer runs out.
Expire(e) ==
  /\ phase = "up" /\ CoreFree
  /\ dns_table[e].state = "DONE"
  /\ dns_table' = [dns_table EXCEPT ![e] = Unused]
  /\ UNCHANGED <<slotVars, async_dns_table_lock, dns_requests, calling, matched, phase, pc, req, titles>>

-------------------------------------------------------------------------------
(* Titles.                                                                   *)

\* The process ends with all its threads, wherever they are.
TitleDies ==
  /\ phase = "up" /\ titles < MaxTitles
  /\ phase' = "dead" /\ titles' = titles + 1
  /\ calling' = NoCall /\ matched' = NoMatch
  /\ pc' = [t \in Threads |-> "idle"] /\ req' = [t \in Threads |-> NoRequest]
  /\ UNCHANGED <<slotVars, async_dns_table_lock, dns_table, dns_requests>>

\* A begin_title that frees the slots and starts counting again.
BeginTitleRestarts ==
  /\ phase = "dead" /\ async_dns_table_lock = "none"
  /\ ticket' = [s \in Slots |-> 0] /\ state' = [s \in Slots |-> "FREE"]
  /\ name' = [s \in Slots |-> NoName]
  /\ async_dns_ticket_counter' = 1
  /\ phase' = "begun"
  /\ UNCHANGED <<async_dns_table_lock, dnsVars, pc, req, titles>>

\* async_dns_reset_all, which takes the lock first.
BeginTitle ==
  /\ phase = "dead" /\ async_dns_table_lock = "none"
  /\ ticket' = [s \in Slots |-> 0] /\ state' = [s \in Slots |-> "FREE"]
  /\ name' = [s \in Slots |-> NoName]
  /\ phase' = "begun"
  /\ UNCHANGED <<async_dns_ticket_counter, async_dns_table_lock, dnsVars, pc, req, titles>>

\* lwip_port_reset_all and a new lwIP thread; the resolver keeps its statics.
StackStarts ==
  /\ phase = "begun"
  /\ phase' = "up"
  /\ UNCHANGED <<slotVars, async_dns_table_lock, dnsVars, pc, req, titles>>

-------------------------------------------------------------------------------

ThreadStep(t) ==
  \/ Lock(t) \/ PollPending(t) \/ TableFull(t) \/ Publish(t)
  \/ \E s \in Slots : PollComplete(t, s) \/ Claim(t, s)
  \/ \E e \in Entries : QueryInProgress(t, e)
  \/ QueryAnswered(t) \/ QueryFails(t)
  \/ ReleaseSlot(t) \/ ReleaseTicket(t) \/ Released(t) \/ Sync(t)

Callbacks ==
  \/ \E r \in dns_requests : FoundCheck(r)
  \/ FoundStore \/ AnswerDone

Next ==
  \/ \E t \in Threads, n \in Names : Call(t, n)
  \/ \E t \in Threads : ThreadStep(t)
  \/ \E e \in Entries, ok \in BOOLEAN : Answer(e, ok)
  \/ Callbacks
  \/ \E e \in Entries : Expire(e)
  \/ TitleDies \/ BeginTitle \/ StackStarts

Spec == Init /\ [][Next]_vars

\* Threads that run get the processor, lwIP's timer ends every query in the
\* end, and the system starts the next application.
Fairness ==
  /\ \A t \in Threads : WF_vars(ThreadStep(t))
  /\ \A e \in Entries : SF_vars(\E ok \in BOOLEAN : Answer(e, ok))
  /\ WF_vars(Callbacks)
  /\ WF_vars(BeginTitle) /\ WF_vars(StackStarts)

FairSpec == Spec /\ Fairness

-------------------------------------------------------------------------------
(* Properties.                                                               *)

Waiters == [entry : Entries, slot : Slots, ticket : 1 .. MaxTickets]

\* The types of the slots, of lwIP's tables and of the threads' requests.
TypeOK ==
  /\ state \in [Slots -> {"FREE", "CLAIMED", "PENDING", "READY", "FAILED"}]
  /\ ticket \in [Slots -> 0 .. MaxTickets]
  /\ name \in [Slots -> Names \cup {NoName}]
  /\ async_dns_ticket_counter \in 1 .. MaxTickets + 1
  /\ async_dns_table_lock \in Threads \cup {"none"}
  /\ dns_table \in [Entries -> [state : {"UNUSED", "ASKING", "DONE"}, name : Names \cup {NoName}]]
  /\ dns_requests \subseteq Waiters
  /\ calling \in [entry : Entries, ok : BOOLEAN] \cup {NoCall}
  /\ matched \in Waiters \cup {NoMatch}
  /\ phase \in {"up", "dead", "begun"}
  /\ pc \in [Threads -> {"idle", "lock", "find", "publish", "query", "release", "clear",
                         "released", "sync"}]
  /\ req \in [Threads -> [name : Names \cup {NoName}, slot : Slots \cup {0}, ticket : 0 .. MaxTickets,
                          then : {"none", "ready", "cached", "error"}]]
  /\ titles \in 0 .. MaxTitles

\* "A late callback therefore cannot complete a newly reused slot": lwIP's
\* requests outlive the title that made them, and still async_dns_found only
\* completes a slot with the answer for the very name that slot waits for.
AnswerIsOwn ==
  [][\A s \in Slots :
       state[s] = "PENDING" /\ state'[s] \in {"READY", "FAILED"}
         => matched.slot = s /\ dns_table[calling.entry].name = name[s]]_vars

\* A request that polls report as EAI_INPROGRESS can still be completed: its
\* thread is about to query lwIP or to take it back, or a callback with its
\* ticket waits at an entry that lwIP is asking for or is answering.  (That it
\* has a ticket at all is LiveHasTicket.)
PendingIsAwaited ==
  phase = "up" =>
    \A s \in Slots : state[s] = "PENDING" /\ ticket[s] # 0 =>
      \/ \E t \in Threads : /\ pc[t] \in {"query", "release"}
                            /\ req[t].slot = s /\ req[t].ticket = ticket[s]
      \/ \E r \in dns_requests : /\ r.slot = s /\ r.ticket = ticket[s]
                                 /\ dns_table[r.entry].name = name[s]
                                 /\ dns_table[r.entry].state = "ASKING" \/ calling.entry = r.entry

\* The comment of async_dns_new_ticket: zero is reserved as "no live request".
LiveHasTicket == \A s \in Slots : state[s] = "PENDING" => ticket[s] # 0

\* The comment of shim_getaddrinfo_async on a READY slot: the successful answer
\* is now in lwIP's DNS cache, when getaddrinfo_sync goes on to read it there.
ReadyIsCached ==
  \A t \in Threads : pc[t] = "sync" /\ req[t].then = "ready" => Cached(req[t].name)

\* lwip_port_reset_all puts lwIP back to its power-on state: no query of an
\* earlier title is left when the new stack starts.
PowerOnState ==
  [][phase = "begun" /\ phase' = "up" => (dns_requests = {} /\ \A n \in Names : Asking(n) = {})']_vars

\* A poll sequence ends: a request that has its ticket leaves PENDING.
PendingEnds ==
  \A s \in Slots :
    state[s] = "PENDING" ~> state[s] # "PENDING" \/ ticket[s] = 0 \/ phase # "up"

\* Titles follow each other: the network of the next title comes up.
TitleFollows == phase = "dead" ~> phase = "up"
===============================================================================
