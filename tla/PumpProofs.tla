------------------------------ MODULE PumpProofs ------------------------------
(***************************************************************************)
(* Proofs about BytePump for any sizes of buffer and window, any number of *)
(* bytes and connections, and both loops.                                  *)
(*                                                                         *)
(* A direction's bytes are numbered by their place: what the sink has read *)
(* comes first, then what is queued for it, then the unsent part of the    *)
(* buffer, and together they are what was received (InOrder).  A partial   *)
(* send moves the border between the last two; only the part of the buffer *)
(* from off on counts, so what a send left at its head is never sent       *)
(* again.  Ended says why a direction no longer receives, and that its     *)
(* source can add nothing after that.  A connection starts from nothing    *)
(* (Blank), because every way out of the last one forgets everything.      *)
(***************************************************************************)
EXTENDS BytePump, SequenceTheorems, TLAPS

\* A byte with its connection and its place.
Byte == Nat \X Nat

\* A buffer with its offset, length and flags.
Buffers == [mem : Seq(Byte), off : Nat, len : Nat, rx : BOOLEAN, shut : BOOLEAN]

\* The types of what the proofs compute with.
PumpTypes ==
  /\ kind \in {"relay", "wiiload"} /\ fds \in {{}, {"ax"}, Sides}
  /\ dir \in [Sides -> Buffers] /\ conn \in Nat
  /\ written \in [Sides -> Nat] /\ taken \in [Sides -> Nat]
  /\ queued \in [Sides -> Seq(Byte)] /\ got \in [Sides -> Seq(Byte)]
  /\ closed \subseteq Sides /\ reset \subseteq Sides

\* The places of the loops where the two sockets are joined, and the one where only the
\* client's socket is there.
Places ==
  /\ pc = <<"check">> \/ (\E d \in Sides, p \in {"flush", "fill", "shut"} : pc = <<p, d>>)
       => Open
  /\ pc = <<"connect">> => ~Open
  /\ fds = {"ax"} => pc = <<"connect">>
  /\ kind = "relay" /\ conn = 0 => ~Open

\* Nothing is left of an earlier connection.
Blank ==
  /\ dir = [d \in Sides |-> Dead]
  /\ written = [d \in Sides |-> 0] /\ taken = [d \in Sides |-> 0]
  /\ queued = [d \in Sides |-> << >>] /\ got = [d \in Sides |-> << >>]
  /\ closed = {} /\ reset = {}

\* The pieces g, q and b together are the first k bytes of connection c.
Whole(c, g, q, b, k) == g \o q \o b = [i \in 1 .. k |-> <<c, i>>]

\* The bytes g read, those q queued and the len bytes of buffer m from off on are the
\* first k bytes of connection c, in order.
Ordered(c, g, q, m, off, len, k) ==
  /\ Len(g) + Len(q) + len = k
  /\ off + len <= Len(m)
  /\ \A i \in 1 .. Len(g) : g[i] = <<c, i>>
  /\ \A i \in 1 .. Len(q) : q[i] = <<c, Len(g) + i>>
  /\ \A i \in 1 .. len : m[off + i] = <<c, Len(g) + Len(q) + i>>

\* What direction d carries is in order.
InOrder(d) ==
  Ordered(conn, got[d], queued[d], dir[d].mem, dir[d].off, dir[d].len, taken[d])

\* A direction that no longer receives has its source's last byte, or a source that
\* was reset, and its end was passed on when the buffer was empty.
Ended(d) ==
  /\ ~dir[d].rx => /\ Other(d) \in closed \cup reset
                   /\ Other(d) \notin reset => taken[d] = written[d]
  /\ dir[d].shut => ~dir[d].rx /\ dir[d].len = 0

\* The inductive invariant.
IInv ==
  /\ PumpTypes /\ Places
  /\ ~Open => Blank
  /\ Open => \A d \in Sides : InOrder(d) /\ Ended(d)

-------------------------------------------------------------------------------
(* Facts about sequences and buffers.                                        *)

\* A send moves the front of the unsent part behind what is queued.
LEMMA SendOrder ==
  ASSUME NEW c \in Nat, NEW g \in Seq(Byte), NEW q \in Seq(Byte), NEW m \in Seq(Byte),
         NEW off \in Nat, NEW len \in Nat, NEW k \in Nat, NEW n \in 1 .. len,
         Ordered(c, g, q, m, off, len, k)
  PROVE  /\ q \o SubSeq(m, off + 1, off + n) \in Seq(Byte)
         /\ Ordered(c, g, q \o SubSeq(m, off + 1, off + n), m,
                    IF n = len THEN 0 ELSE off + n, len - n, k)
<1> DEFINE b == SubSeq(m, off + 1, off + n)
           s == q \o b
<1>1. off + n <= Len(m) /\ n \in Nat \ {0}
  BY DEF Ordered
<1>2. b \in Seq(Byte) /\ Len(b) = n /\ \A i \in 1 .. n : b[i] = m[off + i]
  BY <1>1
<1> HIDE DEF b
<1>3. /\ s \in Seq(Byte) /\ Len(s) = Len(q) + n
      /\ \A i \in 1 .. Len(q) + n : s[i] = IF i <= Len(q) THEN q[i] ELSE b[i - Len(q)]
  BY <1>2, ConcatProperties, Zenon
<1> HIDE DEF s
<1>4. Len(g) \in Nat /\ Len(q) \in Nat /\ Len(m) \in Nat
  OBVIOUS
<1>5. \A i \in 1 .. Len(s) : s[i] = <<c, Len(g) + i>>
  <2> SUFFICES ASSUME NEW i \in 1 .. Len(s) PROVE s[i] = <<c, Len(g) + i>>
    BY Zenon
  <2>1. CASE i <= Len(q)
    BY <1>3, <1>4, <2>1, SMTT(30) DEF Ordered
  <2>2. CASE i > Len(q)
    <3>1. i - Len(q) \in 1 .. n /\ s[i] = b[i - Len(q)]
      BY <1>1, <1>3, <1>4, <2>2, SMTT(30)
    <3>2. s[i] = m[off + (i - Len(q))]
      BY <1>2, <3>1, Zenon
    <3>3. i - Len(q) \in 1 .. len
      BY <3>1, SMTT(30)
    <3>4. m[off + (i - Len(q))] = <<c, Len(g) + Len(q) + (i - Len(q))>>
      BY <3>3, Zenon DEF Ordered
    <3>5. Len(g) + Len(q) + (i - Len(q)) = Len(g) + i
      BY <1>4, <3>3
    <3> QED
      BY <3>2, <3>4, <3>5, Zenon
  <2> QED
    BY <1>3, <1>4, <2>1, <2>2, SMTT(30)
<1>6. ASSUME NEW i \in 1 .. len - n, n # len
      PROVE  m[(off + n) + i] = <<c, Len(g) + Len(s) + i>>
  <2>1. n + i \in 1 .. len /\ (off + n) + i = off + (n + i)
    BY <1>1
  <2>2. m[off + (n + i)] = <<c, Len(g) + Len(q) + (n + i)>>
    BY <2>1, Zenon DEF Ordered
  <2>3. Len(g) + Len(q) + (n + i) = Len(g) + Len(s) + i
    BY <1>1, <1>3, <1>4, SMTT(30)
  <2> QED
    BY <2>1, <2>2, <2>3, Zenon
<1>7. Len(g) + Len(s) + (len - n) = k
  <2>1. Len(g) + Len(q) + len = k
    BY Zenon DEF Ordered
  <2>2. Len(s) = Len(q) + n /\ Len(s) \in Nat
    BY <1>3
  <2>3. \A x, y, z \in Nat : x + y + len = k /\ z = y + n => x + z + (len - n) = k
    BY <1>1
  <2> QED
    BY <1>4, <2>1, <2>2, <2>3, Zenon
<1>8. (IF n = len THEN 0 ELSE off + n) + (len - n) <= Len(m)
  BY <1>1, <1>4, SMTT(30) DEF Ordered
<1>9. Ordered(c, g, s, m, IF n = len THEN 0 ELSE off + n, len - n, k)
  <2>1. \A i \in 1 .. len - n : m[(IF n = len THEN 0 ELSE off + n) + i] = <<c, Len(g) + Len(s) + i>>
    <3>1. CASE n = len
      <4>1. 1 .. len - n = {}
        BY <1>1, <3>1, SMTT(30)
      <4> QED
        BY <4>1, Zenon
    <3>2. CASE n # len
      BY <1>6, <3>2, Zenon
    <3> QED
      BY <3>1, <3>2, Zenon
  <2>2. \A i \in 1 .. Len(g) : g[i] = <<c, i>>
    BY Zenon DEF Ordered
  <2> QED
    BY <1>5, <1>7, <1>8, <2>1, <2>2, Zenon DEF Ordered
<1> QED
  BY <1>3, <1>9, Zenon DEF s, b

\* A peer's read moves the first byte that is queued behind those it has read.
LEMMA ReadOrder ==
  ASSUME NEW c \in Nat, NEW g \in Seq(Byte), NEW q \in Seq(Byte), NEW m, NEW off, NEW len \in Nat,
         NEW k \in Nat, q # << >>, Ordered(c, g, q, m, off, len, k)
  PROVE  /\ Append(g, Head(q)) \in Seq(Byte) /\ Tail(q) \in Seq(Byte)
         /\ Ordered(c, Append(g, Head(q)), Tail(q), m, off, len, k)
<1> DEFINE a == Append(g, Head(q))
           s == Tail(q)
<1>1. /\ a \in Seq(Byte) /\ Len(a) = Len(g) + 1 /\ \A i \in 1 .. Len(g) : a[i] = g[i]
      /\ a[Len(g) + 1] = q[1]
  OBVIOUS
<1>2. /\ s \in Seq(Byte) /\ Len(s) = Len(q) - 1 /\ Len(q) > 0
      /\ \A i \in 1 .. Len(s) : s[i] = q[i + 1]
  OBVIOUS
<1> HIDE DEF a, s
<1>3. Len(g) \in Nat /\ Len(q) \in Nat /\ Len(a) + Len(s) = Len(g) + Len(q)
  BY <1>1, <1>2
<1>4. \A i \in 1 .. Len(a) : a[i] = <<c, i>>
  <2>1. q[1] = <<c, Len(g) + 1>>
    BY <1>2, <1>3, SMTT(30) DEF Ordered
  <2>2. \A i \in 1 .. Len(g) : a[i] = <<c, i>>
    BY <1>1, Zenon DEF Ordered
  <2>3. \A i \in 1 .. Len(a) : i \in 1 .. Len(g) \/ i = Len(g) + 1
    BY <1>1, <1>3
  <2> QED
    BY <1>1, <2>1, <2>2, <2>3, Zenon
<1>5. \A i \in 1 .. Len(s) : s[i] = <<c, Len(a) + i>>
  <2> SUFFICES ASSUME NEW i \in 1 .. Len(s) PROVE s[i] = <<c, Len(a) + i>>
    BY Zenon
  <2>1. i + 1 \in 1 .. Len(q) /\ s[i] = q[i + 1] /\ Len(g) + (i + 1) = Len(a) + i
    BY <1>1, <1>2, <1>3, SMTT(30)
  <2> QED
    BY <2>1, Zenon DEF Ordered
<1>6. Ordered(c, a, s, m, off, len, k)
  BY <1>3, <1>4, <1>5, Zenon DEF Ordered
<1> QED
  BY <1>1, <1>2, <1>6, Zenon DEF a, s

\* What a receive puts into the buffer.
LEMMA FillFacts ==
  ASSUME NEW c \in Nat, NEW k \in Nat, NEW n \in Nat
  PROVE  /\ [i \in 1 .. n |-> <<c, k + i>>] \in Seq(Byte)
         /\ Len([i \in 1 .. n |-> <<c, k + i>>]) = n
         /\ [i \in 1 .. n |-> <<c, i>>] \in Seq(Byte)
         /\ Len([i \in 1 .. n |-> <<c, i>>]) = n
BY DEF Byte

\* A receive into an empty buffer continues the numbering.
LEMMA FillOrder ==
  ASSUME NEW c \in Nat, NEW g \in Seq(Byte), NEW q \in Seq(Byte), NEW m, NEW off,
         NEW k \in Nat, NEW n \in Nat, Ordered(c, g, q, m, off, 0, k)
  PROVE  Ordered(c, g, q, [i \in 1 .. n |-> <<c, k + i>>], 0, n, k + n)
<1>1. Len(g) \in Nat /\ Len(q) \in Nat /\ Len(g) + Len(q) = k
  BY DEF Ordered
<1> DEFINE f == [i \in 1 .. n |-> <<c, k + i>>]
<1>2. Len(f) = n
  BY FillFacts
<1>3. \A i \in 1 .. n : f[0 + i] = <<c, Len(g) + Len(q) + i>>
  BY <1>1, SMTT(30)
<1> HIDE DEF f
<1>4. Len(g) + Len(q) + n = k + n /\ 0 + n <= Len(f)
  BY <1>1, <1>2
<1>5. Ordered(c, g, q, f, 0, n, k + n)
  BY <1>3, <1>4, Zenon DEF Ordered
<1> QED
  BY <1>5, Zenon DEF f

\* Three pieces in order are the whole.
LEMMA WholeFacts ==
  ASSUME NEW g \in Seq(Byte), NEW q \in Seq(Byte), NEW b \in Seq(Byte), NEW c \in Nat,
         NEW l \in Nat, Ordered(c, g, q, b, 0, Len(b), l)
  PROVE  Whole(c, g, q, b, l)
<1> DEFINE w == g \o q
           k == Len(g) + Len(q)
<1>1. /\ \A i \in 1 .. Len(g) : g[i] = <<c, i>>
      /\ \A i \in 1 .. Len(q) : q[i] = <<c, Len(g) + i>>
      /\ l = k + Len(b)
  BY Zenon DEF Ordered
<1>2. \A i \in 1 .. Len(b) : b[i] = <<c, Len(g) + Len(q) + i>>
  <2>1. \A i \in 1 .. Len(b) : 0 + i = i
    OBVIOUS
  <2> QED
    BY <2>1, Zenon DEF Ordered
<1>3. w \in Seq(Byte) /\ Len(w) = k /\ k \in Nat
  OBVIOUS
<1>4. \A i \in 1 .. k : w[i] = <<c, i>>
  <2> SUFFICES ASSUME NEW i \in 1 .. k PROVE w[i] = <<c, i>>
    BY Zenon
  <2>1. CASE i <= Len(g)
    BY <1>1, <2>1
  <2>2. CASE i > Len(g)
    <3>1. i - Len(g) \in 1 .. Len(q) /\ w[i] = q[i - Len(g)]
      BY <2>2
    <3> QED
      BY <1>1, <3>1
  <2> QED
    BY <2>1, <2>2
<1> HIDE DEF w, k
<1>5. w \o b \in Seq(Byte) /\ Len(w \o b) = k + Len(b) /\ Len(b) \in Nat
  <2>1. Len(b) \in Nat
    OBVIOUS
  <2> QED
    BY <1>3, <2>1, ConcatProperties, Zenon
<1>6. \A i \in 1 .. k + Len(b) : (w \o b)[i] = <<c, i>>
  <2> SUFFICES ASSUME NEW i \in 1 .. k + Len(b) PROVE (w \o b)[i] = <<c, i>>
    BY Zenon
  <2>1. CASE i <= k
    BY <1>3, <1>4, <2>1
  <2>2. CASE i > k
    <3>1. i - k \in 1 .. Len(b) /\ (w \o b)[i] = b[i - k]
      BY <1>3, <2>2, SMTT(30)
    <3> QED
      BY <1>2, <1>3, <3>1, SMTT(30) DEF k
  <2> QED
    BY <1>3, <2>1, <2>2, SMTT(30)
<1>7. w \o b = [i \in 1 .. k + Len(b) |-> <<c, i>>]
  <2> DEFINE x == w \o b
             y == [i \in 1 .. k + Len(b) |-> <<c, i>>]
  <2>1. k + Len(b) \in Nat
    BY <1>3, <1>5
  <2>2. y \in Seq(Byte) /\ Len(y) = k + Len(b) /\ \A i \in 1 .. k + Len(b) : y[i] = <<c, i>>
    BY <2>1, FillFacts, ZenonT(30)
  <2>3. x \in Seq(Byte) /\ Len(x) = k + Len(b) /\ \A i \in 1 .. k + Len(b) : x[i] = <<c, i>>
    BY <1>5, <1>6, Zenon
  <2> HIDE DEF x, y
  <2>4. Len(x) = Len(y) /\ \A i \in 1 .. Len(x) : x[i] = y[i]
    BY <2>2, <2>3, Zenon
  <2>5. x = y
    BY <2>2, <2>3, <2>4, SeqEqual, Zenon
  <2> QED
    BY <2>5, Zenon DEF x, y
<1> QED
  BY <1>1, <1>7, Zenon DEF w, Whole

\* What is read, queued and unsent, put together, is the first k bytes.
LEMMA OrderedWhole ==
  ASSUME NEW c \in Nat, NEW g \in Seq(Byte), NEW q \in Seq(Byte), NEW m \in Seq(Byte),
         NEW off \in Nat, NEW len \in Nat, NEW k \in Nat, Ordered(c, g, q, m, off, len, k)
  PROVE  Whole(c, g, q, SubSeq(m, off + 1, off + len), k)
<1> DEFINE b == SubSeq(m, off + 1, off + len)
<1>1. off + len <= Len(m) /\ Len(g) + Len(q) + len = k
  BY Zenon DEF Ordered
<1>2. b \in Seq(Byte) /\ Len(b) = len /\ \A i \in 1 .. len : b[i] = m[off + i]
  BY <1>1
<1> HIDE DEF b
<1>3. Ordered(c, g, q, b, 0, Len(b), k)
  <2>1. \A i \in 1 .. len : 0 + i = i
    OBVIOUS
  <2>2. \A i \in 1 .. len : b[0 + i] = <<c, Len(g) + Len(q) + i>>
    BY <1>2, <2>1, Zenon DEF Ordered
  <2>3. 0 + Len(b) <= Len(b) /\ Len(g) + Len(q) + Len(b) = k
    BY <1>1, <1>2
  <2>4. /\ \A i \in 1 .. Len(g) : g[i] = <<c, i>>
        /\ \A i \in 1 .. Len(q) : q[i] = <<c, Len(g) + i>>
    BY Zenon DEF Ordered
  <2> QED
    BY <1>2, <2>2, <2>3, <2>4, Zenon DEF Ordered
<1>4. Whole(c, g, q, b, k)
  BY <1>2, <1>3, WholeFacts, Zenon
<1> QED
  BY <1>4, Zenon DEF b

\* The two sides and the buffers a connection begins with.
LEMMA SideFacts ==
  /\ \A d \in Sides : Other(d) \in Sides /\ Other(d) # d /\ Other(Other(d)) = d
  /\ First \in Sides /\ Sides # {} /\ Sides # {"ax"}
  /\ Fresh \in Buffers /\ Dead \in Buffers
BY DEF Sides, Other, First, Fresh, Dead, Buffers

\* Setting the fields that a step of the loop sets keeps a buffer's type.
LEMMA BufferFacts ==
  ASSUME NEW x \in Buffers
  PROVE  /\ \A o, n \in Nat : [x EXCEPT !.off = o, !.len = n] \in Buffers
         /\ \A m \in Seq(Byte), o, n \in Nat :
              [x EXCEPT !.mem = m, !.off = o, !.len = n] \in Buffers
         /\ [x EXCEPT !.rx = FALSE] \in Buffers /\ [x EXCEPT !.shut = TRUE] \in Buffers
BY Zenon DEF Buffers

-------------------------------------------------------------------------------
(* What a step leaves alone.                                                 *)

\* A direction that a step does not touch stays in order.  Its source may close or be
\* reset.
LEMMA DirectionKeeps ==
  ASSUME NEW d \in Sides, InOrder(d), Ended(d), conn' = conn, dir'[d] = dir[d],
         written'[d] = written[d], taken'[d] = taken[d], queued'[d] = queued[d],
         got'[d] = got[d], closed \subseteq closed', reset \subseteq reset'
  PROVE  InOrder(d)' /\ Ended(d)'
BY Zenon DEF InOrder, Ended

\* A step of the loop or of the control that moves no byte.
LEMMA ControlKeeps ==
  ASSUME IInv, UNCHANGED <<kind, fds, dir, conn, wireVars, peerVars>>, Places'
  PROVE  IInv'
<1>1. PumpTypes'
  BY Zenon DEF IInv, PumpTypes, wireVars, peerVars
<1>2. ~Open' => Blank'
  BY Zenon DEF IInv, Blank, Open, wireVars, peerVars
<1>3. Open' => \A d \in Sides : InOrder(d)' /\ Ended(d)'
  BY DirectionKeeps, Zenon DEF IInv, Open, wireVars, peerVars
<1> QED
  BY <1>1, <1>2, <1>3, Zenon DEF IInv

\* wiiload_proxy_reset_connection and the end of nssl_relay_worker leave nothing.
LEMMA ResetKeeps ==
  ASSUME IInv, Reset, UNCHANGED <<kind, conn>>, pc' \in {<<"top">>, <<"ended">>}
  PROVE  IInv'
<1>1. Blank' /\ ~Open'
  BY SideFacts, Zenon DEF Reset, Blank, Open
<1>2. PumpTypes'
  BY SideFacts DEF Reset, IInv, PumpTypes
<1>3. Places'
  BY <1>1 DEF Places, Reset
<1> QED
  BY <1>1, <1>2, <1>3, Zenon DEF IInv

\* The two sockets are joined.
LEMMA StartKeeps ==
  ASSUME IInv, Start, ~Open, kind' = kind, pc' # <<"connect">>
  PROVE  IInv'
<1>1. Blank /\ conn \in Nat /\ conn' = conn + 1
  BY Zenon DEF IInv, PumpTypes, Start
<1>2. PumpTypes'
  BY SideFacts, SMTT(30) DEF Start, IInv, PumpTypes, wireVars, peerVars
<1>3. Places'
  BY <1>1, SideFacts DEF Start, Places, Open
<1>4. ASSUME NEW d \in Sides PROVE InOrder(d)' /\ Ended(d)'
  <2>1. dir'[d] = Fresh /\ queued'[d] = << >> /\ got'[d] = << >> /\ taken'[d] = 0
    BY <1>1, Zenon DEF Start, Blank, wireVars
  <2> QED
    BY <2>1 DEF Fresh, InOrder, Ordered, Ended
<1>5. Open'
  BY Zenon DEF Start, Open
<1> QED
  BY <1>2, <1>3, <1>4, <1>5, Zenon DEF IInv

\* A step of the loop that works on direction d.
LEMMA WorkKeeps ==
  ASSUME IInv, Open, NEW d \in Sides, UNCHANGED <<kind, fds, conn, peerVars>>,
         pc' # <<"connect">>,
         dir'[Other(d)] = dir[Other(d)], written'[Other(d)] = written[Other(d)],
         taken'[Other(d)] = taken[Other(d)], queued'[Other(d)] = queued[Other(d)],
         got'[Other(d)] = got[Other(d)], PumpTypes', InOrder(d)', Ended(d)'
  PROVE  IInv'
<1>1. Open' /\ Places'
  BY SideFacts, Zenon DEF IInv, Open, Places
<1>2. InOrder(Other(d))' /\ Ended(Other(d))'
  BY SideFacts, DirectionKeeps, Zenon DEF IInv, peerVars
<1>3. \A e \in Sides : e = d \/ e = Other(d)
  BY DEF Sides, Other
<1> QED
  BY <1>1, <1>2, <1>3, Zenon DEF IInv

-------------------------------------------------------------------------------
(* The peers.                                                                *)

\* A peer writes while its half is open, so the direction still receives.
LEMMA PeerWritesKeeps ==
  ASSUME IInv, NEW d \in Sides, PeerWrites(d)
  PROVE  IInv'
<1>1. /\ Open /\ pc' # <<"connect">> /\ UNCHANGED <<kind, fds, conn, peerVars, dir, taken, queued, got>>
      /\ written'[Other(d)] = written[Other(d)] /\ Other(d) \notin closed \cup reset
  BY SideFacts, Zenon DEF PeerWrites, loopVars, procVars, IInv, Places, PumpTypes
<1>2. PumpTypes'
  BY <1>1, SMTT(30) DEF PeerWrites, IInv, PumpTypes, peerVars
<1>3. InOrder(d)'
  BY <1>1, Zenon DEF IInv, InOrder
<1>4. Ended(d)'
  BY <1>1, Zenon DEF IInv, Ended, peerVars
<1> QED
  BY <1>1, <1>2, <1>3, <1>4, WorkKeeps, Zenon

\* A peer reads the first byte of those queued for it.
LEMMA PeerReadsKeeps ==
  ASSUME IInv, NEW d \in Sides, PeerReads(d)
  PROVE  IInv'
<1>1. /\ Open /\ pc' # <<"connect">> /\ UNCHANGED <<kind, fds, conn, peerVars, dir, taken, written>>
      /\ queued'[Other(d)] = queued[Other(d)] /\ got'[Other(d)] = got[Other(d)]
      /\ queued[d] # << >> /\ queued'[d] = Tail(queued[d])
      /\ got'[d] = Append(got[d], Head(queued[d]))
  BY SideFacts, Zenon DEF PeerReads, loopVars, procVars, IInv, Places, PumpTypes
<1>2. /\ got'[d] \in Seq(Byte) /\ queued'[d] \in Seq(Byte)
      /\ InOrder(d)'
  <2>1. /\ got[d] \in Seq(Byte) /\ queued[d] \in Seq(Byte) /\ conn \in Nat /\ taken[d] \in Nat
        /\ dir[d].len \in Nat /\ InOrder(d)
    BY <1>1, Zenon DEF IInv, PumpTypes, Buffers
  <2> QED
    BY <1>1, <2>1, ReadOrder, SMTT(30) DEF InOrder
<1>3. PumpTypes'
  BY <1>1, <1>2, Zenon DEF PeerReads, IInv, PumpTypes, peerVars
<1>4. InOrder(d)'
  BY <1>2, Zenon
<1>5. Ended(d)'
  BY <1>1, Zenon DEF IInv, Ended, peerVars
<1> QED
  BY <1>1, <1>3, <1>4, <1>5, WorkKeeps, Zenon

\* A peer closes its half or resets the connection.
LEMMA PeerEndsKeeps ==
  ASSUME IInv, NEW p \in Sides, PeerCloses(p) \/ PeerResets(p)
  PROVE  IInv'
<1>1. /\ Open /\ UNCHANGED <<kind, fds, conn, pc, dir, wireVars>>
      /\ closed \subseteq closed' /\ reset \subseteq reset'
      /\ closed' \subseteq Sides /\ reset' \subseteq Sides
  BY Zenon DEF PeerCloses, PeerResets, loopVars, procVars, IInv, PumpTypes
<1>2. PumpTypes'
  BY <1>1, Zenon DEF IInv, PumpTypes, wireVars
<1>3. Open' /\ Places'
  BY <1>1, Zenon DEF IInv, Open, Places
<1>4. \A d \in Sides : InOrder(d)' /\ Ended(d)'
  BY <1>1, DirectionKeeps, Zenon DEF IInv, wireVars
<1> QED
  BY <1>2, <1>3, <1>4, Zenon DEF IInv

-------------------------------------------------------------------------------
(* The loop.                                                                 *)

\* A place of the loop, and where it goes.
LEMMA LoopFacts ==
  ASSUME IInv, NEW d \in Sides, NEW p \in {"flush", "fill", "shut"}, Step(d, p)
  PROVE  /\ Open /\ InOrder(d) /\ Ended(d) /\ dir[d] \in Buffers
         /\ got[d] \in Seq(Byte) /\ queued[d] \in Seq(Byte)
BY Zenon DEF Step, IInv, Places, PumpTypes

\* A send takes the front of the unsent part.
LEMMA FlushKeeps ==
  ASSUME IInv, NEW d \in Sides, Flush(d)
  PROVE  IInv'
<1>1. /\ Open /\ InOrder(d) /\ Ended(d) /\ dir[d] \in Buffers
      /\ got[d] \in Seq(Byte) /\ queued[d] \in Seq(Byte)
  BY LoopFacts, Zenon DEF Flush
<1>2. PICK n \in 1 .. dir[d].len : /\ dir' = [dir EXCEPT ![d] = Sent(d, n)]
                                  /\ queued' = [queued EXCEPT ![d] = @ \o Bytes(d, n)]
  BY Zenon DEF Flush
<1>3. /\ pc' # <<"connect">> /\ UNCHANGED <<kind, fds, conn, peerVars, taken, written, got>>
      /\ queued'[Other(d)] = queued[Other(d)] /\ dir'[Other(d)] = dir[Other(d)]
      /\ dir'[d] = Sent(d, n) /\ queued'[d] = queued[d] \o Bytes(d, n)
  BY <1>2, SideFacts, ZenonT(30) DEF Flush, Go, procVars, IInv, PumpTypes
<1>4. /\ dir[d].len \in Nat /\ dir[d].off \in Nat /\ dir[d].mem \in Seq(Byte)
      /\ n \in Nat \ {0} /\ n <= dir[d].len /\ conn \in Nat /\ taken[d] \in Nat
  BY <1>1 DEF Buffers, IInv, PumpTypes
<1>5. /\ dir'[d].len = dir[d].len - n /\ dir'[d].mem = dir[d].mem /\ dir'[d].rx = dir[d].rx
      /\ dir'[d].shut = dir[d].shut
      /\ dir'[d].off = IF n = dir[d].len THEN 0 ELSE dir[d].off + n
  BY <1>1, <1>3, Zenon DEF Sent, Buffers
<1>6. queued'[d] \in Seq(Byte) /\ InOrder(d)'
  <2>1. Ordered(conn, got[d], queued[d], dir[d].mem, dir[d].off, dir[d].len, taken[d])
    BY <1>1, Zenon DEF InOrder
  <2>2. /\ queued'[d] \in Seq(Byte)
        /\ Ordered(conn, got[d], queued'[d], dir[d].mem,
                   IF n = dir[d].len THEN 0 ELSE dir[d].off + n, dir[d].len - n, taken[d])
    <3>1. queued'[d] = queued[d] \o SubSeq(dir[d].mem, dir[d].off + 1, dir[d].off + n)
      BY <1>3, Zenon DEF Bytes
    <3>2. got[d] \in Seq(Byte) /\ queued[d] \in Seq(Byte)
      BY <1>1, Zenon
    <3>3. /\ conn \in Nat /\ taken[d] \in Nat
          /\ dir[d].len \in Nat /\ dir[d].off \in Nat /\ dir[d].mem \in Seq(Byte)
      BY <1>4, Zenon
    <3>4. /\ queued[d] \o SubSeq(dir[d].mem, dir[d].off + 1, dir[d].off + n) \in Seq(Byte)
          /\ Ordered(conn, got[d],
                     queued[d] \o SubSeq(dir[d].mem, dir[d].off + 1, dir[d].off + n), dir[d].mem,
                     IF n = dir[d].len THEN 0 ELSE dir[d].off + n, dir[d].len - n, taken[d])
      BY <2>1, <3>2, <3>3, SendOrder, ZenonT(60)
    <3> QED
      BY <3>1, <3>4, Zenon
  <2> QED
    BY <1>3, <1>5, <2>2, Zenon DEF InOrder
<1>7. PumpTypes'
  <2>1. dir[d].len - n \in Nat /\ (IF n = dir[d].len THEN 0 ELSE dir[d].off + n) \in Nat
    BY <1>4
  <2>2. Sent(d, n) \in Buffers
    BY <1>1, <2>1, BufferFacts, Zenon DEF Sent
  <2>3. dir' \in [Sides -> Buffers] /\ queued' \in [Sides -> Seq(Byte)]
    BY <1>2, <1>3, <1>6, <2>2, Zenon DEF IInv, PumpTypes
  <2> QED
    BY <1>3, <2>3, Zenon DEF IInv, PumpTypes, peerVars
<1>8. Ended(d)'
  BY <1>1, <1>3, <1>4, <1>5, SMTT(30) DEF Ended, peerVars
<1> QED
  BY <1>1, <1>3, <1>6, <1>7, <1>8, WorkKeeps, Zenon

\* A receive fills an empty buffer.
LEMMA FillKeeps ==
  ASSUME IInv, NEW d \in Sides, Fill(d)
  PROVE  IInv'
<1>1. /\ Open /\ InOrder(d) /\ Ended(d) /\ dir[d] \in Buffers
      /\ got[d] \in Seq(Byte) /\ queued[d] \in Seq(Byte)
  BY LoopFacts, Zenon DEF Fill
<1>2. PICK n \in 1 .. BufLen :
        /\ dir' = [dir EXCEPT ![d].mem = [i \in 1 .. n |-> <<conn, taken[d] + i>>],
                              ![d].off = 0, ![d].len = n]
        /\ taken' = [taken EXCEPT ![d] = @ + n]
  BY Zenon DEF Fill
<1> DEFINE f == [i \in 1 .. n |-> <<conn, taken[d] + i>>]
<1>3. /\ pc' # <<"connect">> /\ UNCHANGED <<kind, fds, conn, peerVars, queued, written, got>>
      /\ dir[d].len = 0 /\ dir[d].rx
  BY Zenon DEF Fill, Go, procVars
<1>4. n \in Nat /\ conn \in Nat /\ taken[d] \in Nat /\ f \in Seq(Byte)
  <2>1. BufLen \in Nat /\ conn \in Nat /\ taken[d] \in Nat
    BY PumpAssumption, Zenon DEF IInv, PumpTypes
  <2>2. n \in Nat
    BY <2>1
  <2> QED
    BY <2>1, <2>2, FillFacts
<1>5. /\ taken' \in [Sides -> Nat]
      /\ taken'[Other(d)] = taken[Other(d)] /\ taken'[d] = taken[d] + n
  <2>1. taken' = [taken EXCEPT ![d] = @ + n]
    BY <1>2, Zenon
  <2>2. taken \in [Sides -> Nat] /\ taken[d] + n \in Nat
    BY <1>4 DEF IInv, PumpTypes
  <2> QED
    BY <2>1, <2>2, SideFacts, Zenon
<1>6. Ordered(conn, got[d], queued[d], f, 0, n, taken[d] + n)
  <2>1. Ordered(conn, got[d], queued[d], dir[d].mem, dir[d].off, 0, taken[d])
    BY <1>1, <1>3, Zenon DEF InOrder
  <2> QED
    BY <1>1, <1>4, <2>1, FillOrder, Zenon
<1>7. dir' = [dir EXCEPT ![d] = [dir[d] EXCEPT !.mem = f, !.off = 0, !.len = n]]
  BY <1>2, Zenon
<1> HIDE DEF f
<1>8. [dir[d] EXCEPT !.mem = f, !.off = 0, !.len = n] \in Buffers
  BY <1>1, <1>4, BufferFacts, Zenon
<1>9. /\ dir'[Other(d)] = dir[Other(d)] /\ dir'[d].mem = f /\ dir'[d].off = 0
      /\ dir'[d].len = n /\ dir'[d].rx = dir[d].rx /\ dir'[d].shut = dir[d].shut
  BY <1>1, <1>7, SideFacts, Zenon DEF IInv, PumpTypes, Buffers
<1>10. PumpTypes'
  <2>1. dir' \in [Sides -> Buffers]
    BY <1>7, <1>8, Zenon DEF IInv, PumpTypes
  <2> QED
    BY <1>3, <1>5, <2>1, Zenon DEF IInv, PumpTypes, peerVars
<1>11. InOrder(d)'
  BY <1>3, <1>5, <1>6, <1>9, Zenon DEF InOrder
<1>12. Ended(d)'
  BY <1>1, <1>3, <1>9, Zenon DEF Ended
<1> QED
  BY <1>1, <1>3, <1>5, <1>9, <1>10, <1>11, <1>12, WorkKeeps, Zenon

\* The source's stream ends: there is nothing left to receive.
LEMMA FillEndsKeeps ==
  ASSUME IInv, NEW d \in Sides, FillEnds(d)
  PROVE  IInv'
<1>1. /\ Open /\ InOrder(d) /\ Ended(d) /\ dir[d] \in Buffers
  BY LoopFacts, Zenon DEF FillEnds
<1>2. dir' = [dir EXCEPT ![d] = [dir[d] EXCEPT !.rx = FALSE]]
  BY Zenon DEF FillEnds
<1>3. /\ pc' # <<"connect">> /\ UNCHANGED <<kind, fds, conn, peerVars, wireVars>>
      /\ dir[d].len = 0 /\ dir[d].rx
      /\ \/ Other(d) \in closed \ reset /\ taken[d] = written[d]
         \/ Other(d) \in reset
  BY SideFacts, Zenon DEF FillEnds, Go, procVars
<1>4. /\ dir'[Other(d)] = dir[Other(d)] /\ dir'[d].mem = dir[d].mem /\ dir'[d].off = dir[d].off
      /\ dir'[d].len = dir[d].len /\ ~dir'[d].rx /\ dir'[d].shut = dir[d].shut
  BY <1>1, <1>2, SideFacts, Zenon DEF IInv, PumpTypes, Buffers
<1>5. PumpTypes'
  <2>1. [dir[d] EXCEPT !.rx = FALSE] \in Buffers
    BY <1>1, BufferFacts, Zenon
  <2>2. dir' \in [Sides -> Buffers]
    BY <1>2, <2>1, Zenon DEF IInv, PumpTypes
  <2> QED
    BY <1>3, <2>2, Zenon DEF IInv, PumpTypes, peerVars, wireVars
<1>6. InOrder(d)'
  BY <1>1, <1>3, <1>4, Zenon DEF InOrder, wireVars
<1>7. Ended(d)'
  BY <1>1, <1>3, <1>4, Zenon DEF Ended, wireVars, peerVars
<1> QED
  BY <1>1, <1>3, <1>4, <1>5, <1>6, <1>7, WorkKeeps, Zenon DEF wireVars

\* The end is passed on when everything received has been sent.
LEMMA ShutKeeps ==
  ASSUME IInv, NEW d \in Sides, Shut(d)
  PROVE  IInv'
<1>1. /\ Open /\ InOrder(d) /\ Ended(d) /\ dir[d] \in Buffers
  BY LoopFacts, Zenon DEF Shut
<1>2. /\ pc' # <<"connect">> /\ UNCHANGED <<kind, fds, conn, peerVars, wireVars>>
  BY Zenon DEF Shut, AfterShut, procVars
<1>3. CASE dir' = dir
  <2>1. PumpTypes'
    BY <1>2, <1>3, Zenon DEF IInv, PumpTypes, peerVars, wireVars
  <2>2. InOrder(d)' /\ Ended(d)'
    BY <1>1, <1>2, <1>3, DirectionKeeps, Zenon DEF wireVars, peerVars
  <2> QED
    BY <1>1, <1>2, <1>3, <2>1, <2>2, WorkKeeps, Zenon DEF wireVars
<1>4. CASE dir' # dir
  <2>1. /\ dir' = [dir EXCEPT ![d] = [dir[d] EXCEPT !.shut = TRUE]]
        /\ ~dir[d].rx /\ dir[d].len = 0
    BY <1>4, Zenon DEF Shut
  <2>2. /\ dir'[Other(d)] = dir[Other(d)] /\ dir'[d].mem = dir[d].mem /\ dir'[d].off = dir[d].off
        /\ dir'[d].len = dir[d].len /\ dir'[d].rx = dir[d].rx
    BY <1>1, <2>1, SideFacts, Zenon DEF IInv, PumpTypes, Buffers
  <2>3. PumpTypes'
    <3>1. [dir[d] EXCEPT !.shut = TRUE] \in Buffers
      BY <1>1, BufferFacts, Zenon
    <3>2. dir' \in [Sides -> Buffers]
      BY <2>1, <3>1, Zenon DEF IInv, PumpTypes
    <3> QED
      BY <1>2, <3>2, Zenon DEF IInv, PumpTypes, peerVars, wireVars
  <2>4. InOrder(d)'
    BY <1>1, <1>2, <2>2, Zenon DEF InOrder, wireVars
  <2>5. Ended(d)'
    BY <1>1, <1>2, <2>1, <2>2, Zenon DEF Ended, wireVars, peerVars
  <2> QED
    BY <1>1, <1>2, <2>2, <2>3, <2>4, <2>5, WorkKeeps, Zenon DEF wireVars
<1> QED
  BY <1>3, <1>4, Zenon

\* There is nothing to send or to receive, or the call would block.
LEMMA IdleKeeps ==
  ASSUME IInv, NEW d \in Sides, NoFlush(d) \/ NoFill(d)
  PROVE  IInv'
<1>1. Open
  BY LoopFacts, Zenon DEF NoFlush, NoFill
<1>2. pc' # <<"connect">> /\ UNCHANGED <<kind, fds, dir, conn, wireVars, peerVars>>
  BY DEF NoFlush, NoFill, Go, procVars
<1>3. Places'
  BY <1>1, <1>2, SideFacts, Zenon DEF IInv, Places, Open
<1> QED
  BY <1>2, <1>3, ControlKeeps, Zenon

\* The copying is over.
LEMMA FinishKeeps ==
  ASSUME IInv, Finish
  PROVE  IInv'
<1>1. Reset /\ UNCHANGED <<kind, conn>> /\ pc' \in {<<"top">>, <<"ended">>}
  BY Zenon DEF Finish, procVars
<1> QED
  BY <1>1, ResetKeeps, Zenon

\* One direction of one iteration.
LEMMA CopyKeeps ==
  ASSUME IInv, NEW d \in Sides, Copy(d)
  PROVE  IInv'
<1>1. CASE NoFlush(d) \/ NoFill(d)
  BY <1>1, IdleKeeps, Zenon
<1>2. CASE FlushFails(d) \/ FillFails(d)
  BY <1>2, FinishKeeps, Zenon DEF FlushFails, FillFails
<1> QED
  BY <1>1, <1>2, FlushKeeps, FillKeeps, FillEndsKeeps, ShutKeeps, Zenon DEF Copy

\* The head and the end of an iteration: the loop goes on with both sockets, or it is over.
LEMMA RoundKeeps ==
  ASSUME IInv, RelayTop \/ RelayCheck \/ WiiloadCheck \/ Poll
  PROVE  IInv'
<1>1. CASE Finish
  BY <1>1, FinishKeeps, Zenon
<1>2. CASE ~Finish
  <2>1. pc' # <<"connect">> /\ UNCHANGED <<kind, fds, dir, conn, wireVars, peerVars>>
    BY <1>2, SMTT(30) DEF RelayTop, RelayCheck, WiiloadCheck, Poll, procVars
  <2>2. Open
    BY DEF RelayTop, RelayCheck, WiiloadCheck, Poll, IInv, PumpTypes, Places, Open
  <2>3. Places'
    BY <2>1, <2>2, SideFacts, Zenon DEF IInv, Places, Open
  <2> QED
    BY <2>1, <2>3, ControlKeeps, Zenon
<1> QED
  BY <1>1, <1>2, Zenon

\* A connection begins: nssl_relay_start and wiiload_proxy_connect_native.
LEMMA BeginKeeps ==
  ASSUME IInv, RelayStart \/ ConnectNative
  PROVE  IInv'
<1>1. ~Open /\ Start /\ kind' = kind /\ pc' # <<"connect">>
  BY DEF RelayStart, ConnectNative, IInv, Places, procVars
<1> QED
  BY <1>1, StartKeeps, Zenon

\* A connection ends outside the loop: no server on localhost, wiiload_proxy_stop, a
\* new title.
LEMMA EndKeeps ==
  ASSUME IInv, ConnectFails \/ wiiload_proxy_stop \/ NextTitle
  PROVE  IInv'
<1>1. CASE ConnectFails
  BY <1>1, FinishKeeps, Zenon DEF ConnectFails
<1>2. CASE wiiload_proxy_stop \/ NextTitle
  <2>1. Reset /\ UNCHANGED <<kind, conn>> /\ pc' = <<"top">>
    BY <1>2, Zenon DEF wiiload_proxy_stop, NextTitle
  <2> QED
    BY <2>1, ResetKeeps, Zenon
<1> QED
  BY <1>1, <1>2, Zenon

\* The stop flag, the listener and a client that is accepted.
LEMMA ServiceKeeps ==
  ASSUME IInv, RelayStop \/ wiiload_proxy_start \/ Accept
  PROVE  IInv'
<1>1. CASE RelayStop \/ wiiload_proxy_start
  <2>1. UNCHANGED <<kind, fds, dir, conn, wireVars, peerVars>> /\ pc' = pc
    BY <1>1, Zenon DEF RelayStop, wiiload_proxy_start, procVars, loopVars
  <2>2. Places'
    BY <2>1, Zenon DEF IInv, Places, Open
  <2> QED
    BY <2>1, <2>2, ControlKeeps, Zenon
<1>2. CASE Accept
  <2>1. /\ fds' = {"ax"} /\ pc' = <<"connect">> /\ ~Open /\ ~Open'
        /\ UNCHANGED <<kind, dir, conn, wireVars, peerVars>>
    BY <1>2, SideFacts, Zenon DEF Accept, Open, procVars
  <2>2. PumpTypes'
    BY <2>1, Zenon DEF IInv, PumpTypes, wireVars, peerVars
  <2>3. Places'
    BY <2>1, Zenon DEF Places
  <2>4. Blank'
    BY <2>1, Zenon DEF IInv, Blank, wireVars, peerVars
  <2> QED
    BY <2>1, <2>2, <2>3, <2>4, Zenon DEF IInv
<1> QED
  BY <1>1, <1>2, Zenon

-------------------------------------------------------------------------------
(* The theorem.                                                              *)

\* No connection has begun.
LEMMA InitIInv == Init => IInv
<1> SUFFICES ASSUME Init PROVE IInv
  BY Zenon
<1>1. Blank /\ ~Open
  BY SideFacts, Zenon DEF Init, Blank, Open
<1>2. PumpTypes
  BY SideFacts, PumpAssumption DEF Init, PumpTypes
<1>3. Places
  BY <1>1, Zenon DEF Init, Places
<1> QED
  BY <1>1, <1>2, <1>3, Zenon DEF IInv

\* Every step keeps the invariant.
LEMMA NextIInv == IInv /\ [Next]_vars => IInv'
<1> SUFFICES ASSUME IInv, [Next]_vars PROVE IInv'
  BY Zenon
<1>1. CASE UNCHANGED vars
  <2>1. UNCHANGED <<kind, fds, dir, conn, wireVars, peerVars>> /\ pc' = pc
    BY <1>1, Zenon DEF vars, procVars, loopVars
  <2>2. Places'
    BY <2>1, Zenon DEF IInv, Places, Open
  <2> QED
    BY <2>1, <2>2, ControlKeeps, Zenon
<1>2. CASE Peers
  BY <1>2, PeerWritesKeeps, PeerReadsKeeps, PeerEndsKeeps, Zenon DEF Peers
<1>3. CASE RelayToAx \/ RelayToNative \/ WiiloadToAx \/ WiiloadToNative
  BY <1>3, CopyKeeps, Zenon
    DEF RelayToAx, RelayToNative, WiiloadToAx, WiiloadToNative, Sides
<1> QED
  BY <1>1, <1>2, <1>3, RoundKeeps, BeginKeeps, EndKeeps, ServiceKeeps, Zenon
    DEF Next, Relay, Proxy

\* What is in order is the stream that Carried and EndIsComplete speak of.
LEMMA IInvIntact == IInv => StreamIntact
<1> SUFFICES ASSUME IInv PROVE StreamIntact
  BY Zenon
<1>1. ASSUME NEW d \in Sides, Open
      PROVE  got[d] \o queued[d] \o Bytes(d, dir[d].len) = [i \in 1 .. taken[d] |-> <<conn, i>>]
  <2>1. /\ got[d] \in Seq(Byte) /\ queued[d] \in Seq(Byte) /\ conn \in Nat /\ taken[d] \in Nat
        /\ dir[d].len \in Nat /\ dir[d].off \in Nat /\ dir[d].mem \in Seq(Byte)
    BY Zenon DEF IInv, PumpTypes, Buffers
  <2>2. Ordered(conn, got[d], queued[d], dir[d].mem, dir[d].off, dir[d].len, taken[d])
    BY <1>1, Zenon DEF IInv, InOrder
  <2>3. Whole(conn, got[d], queued[d], Bytes(d, dir[d].len), taken[d])
    BY <2>1, <2>2, OrderedWhole, Zenon DEF Bytes
  <2> QED
    BY <2>3, Zenon DEF Whole
<1>2. Carried
  BY <1>1, Zenon DEF Carried
<1>3. EndIsComplete
  BY DEF IInv, EndIsComplete, Ended, Blank, Dead
<1> QED
  BY <1>2, <1>3, Zenon DEF StreamIntact

\* Of nssl_relay_worker and wiiload_proxy_poll, for buffers, windows and streams of every
\* size and any number of connections: what each direction has received is what its sink
\* read, what is on the way and what is in the buffer, in order and of this connection
\* only, whatever the sends take; and an end of the stream is passed on only behind the
\* last byte.
THEOREM StreamKept == Spec => []StreamIntact
<1>1. IInv /\ [Next]_vars => IInv'
  BY NextIInv, Zenon
<1> QED
  BY <1>1, InitIInv, IInvIntact, PTL DEF Spec

===============================================================================
