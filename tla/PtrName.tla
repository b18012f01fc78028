------------------------------- MODULE PtrName -------------------------------
(***************************************************************************)
(* The names of the PTR client in src/aroma_module/nsysnet_shim.c:         *)
(* encoding one, skipping one and decoding one, byte by byte, next to a    *)
(* definition of what the name at an offset is.                            *)
(*                                                                         *)
(* A packet is a sequence of bytes; offset n of the code is packet[n + 1]. *)
(* Bytes 0 .. 63 are label lengths, 192 .. 255 start a pointer, the rest   *)
(* is refused.  A name is the sequence of its labels.                      *)
(***************************************************************************)
EXTENDS Integers, Sequences, FiniteSets, SequencesExt

CONSTANTS LABELS,      \* 128 in the code: iterations of either loop
          JUMPS,       \* 32: pointers followed by one decode
          LABEL_MAX    \* 63

Dot == 46
Failed == -1
NoText == [ok |-> FALSE, text |-> <<>>]

IsPointer(c) == c >= 192
Target(p, pos) == (p[pos + 1] - 192) * 256 + p[pos + 2]

(* ptr_dns_encode_name: the packet, or the empty one when a label is empty  *)
(* or too long or the name does not fit.                                    *)
ptr_dns_encode_name(name, capacity, start) ==
  LET room[i \in 1 .. Len(name) + 1] ==   \* pos before label i, or Failed
        IF i = 1 THEN start
        ELSE LET n == Len(name[i - 1]) IN
             IF \/ room[i - 1] = Failed
                \/ n = 0 \/ n > LABEL_MAX
                \/ room[i - 1] + 1 + n >= capacity
             THEN Failed ELSE room[i - 1] + 1 + n
      last == room[Len(name) + 1]
  IN IF last = Failed \/ last >= capacity THEN <<>>
     ELSE FlattenSeq([i \in 1 .. Len(name) |-> <<Len(name[i])>> \o name[i]]) \o <<0>>

(* ptr_dns_skip_name: the offset behind the name at off, or Failed.         *)
ptr_dns_skip_name(p, off) ==
  LET walk[pos \in Nat, labels \in 0 .. LABELS] ==
        IF labels = LABELS \/ pos >= Len(p) THEN Failed
        ELSE LET c == p[pos + 1] IN
             IF c = 0 THEN pos + 1
             ELSE IF IsPointer(c) THEN IF pos + 1 >= Len(p) THEN Failed ELSE pos + 2
             ELSE IF c > LABEL_MAX \/ pos + 1 + c > Len(p) THEN Failed
             ELSE walk[pos + 1 + c, labels + 1]
  IN walk[off, 0]

(* Room for a label of c bytes, and a dot before any but the first, behind  *)
(* used bytes of the output, and for the zero that ends it.                 *)
FitsWithoutZero(used, c, out_len) == (IF used = 0 THEN 0 ELSE used + 1) + c <= out_len

Fits(used, c, out_len) ==
  /\ used # 0 => used + 1 < out_len
  /\ (IF used = 0 THEN 0 ELSE used + 1) + c < out_len

(* ptr_dns_decode_name: the text of the name at off, followed through its   *)
(* pointers, if it fits into out_len bytes with the zero behind it.         *)
ptr_dns_decode_name(p, off, out_len) ==
  LET walk[pos \in Nat, labels \in 0 .. LABELS, jumps \in 0 .. JUMPS, out \in Seq(0 .. 255)] ==
        IF labels = LABELS \/ pos >= Len(p) THEN NoText
        ELSE LET c == p[pos + 1] IN
             IF c = 0 THEN [ok |-> TRUE, text |-> out]
             ELSE IF IsPointer(c) THEN
               IF pos + 1 >= Len(p) \/ jumps = JUMPS \/ Target(p, pos) >= Len(p) THEN NoText
               ELSE walk[Target(p, pos), labels + 1, jumps + 1, out]
             ELSE IF c > LABEL_MAX \/ pos + 1 + c > Len(p) \/ ~Fits(Len(out), c, out_len) THEN NoText
             ELSE walk[pos + 1 + c, labels + 1, jumps,
                       (IF out = <<>> THEN out ELSE Append(out, Dot)) \o SubSeq(p, pos + 2, pos + 1 + c)]
  IN walk[off, 0, 0, <<>>]

-------------------------------------------------------------------------------
(* What a name is: the labels on the only way from its offset to a zero.    *)

Offsets(p) == 0 .. Len(p) - 1

(* The way goes from m to n: over the label at m, or through its pointer.   *)
Leads(p, m, n) ==
  LET c == p[m + 1] IN
  \/ c \in 1 .. LABEL_MAX /\ n = m + 1 + c
  \/ IsPointer(c) /\ m + 1 \in Offsets(p) /\ n = Target(p, m)

IsWay(p, way) ==
  /\ \A i \in 1 .. Len(way) - 1 : Leads(p, way[i], way[i + 1])
  /\ p[way[Len(way)] + 1] = 0

Labels(p, way) == SelectSeq(way, LAMBDA m : p[m + 1] \in 1 .. LABEL_MAX)
Jumps(p, way) == Len(SelectSeq(way, LAMBDA m : IsPointer(p[m + 1])))
TextOf(p, way) ==
  LET labels == Labels(p, way)
      part(i) == (IF i = 1 THEN <<>> ELSE <<Dot>>) \o SubSeq(p, labels[i] + 2, labels[i] + 1 + p[labels[i] + 1])
  IN FlattenSeq([i \in DOMAIN labels |-> part(i)])

(* A way that comes back to an offset never ends, so a name's way has none  *)
(* twice.                                                                   *)
WaysFrom(p, off) ==
  {way \in SeqOf(Offsets(p), Len(p)) : way # <<>> /\ way[1] = off /\ IsWay(p, way)}

(* Decoding agrees with the definition.                                     *)
DecodesRight(p, off, out_len) ==
  LET got == ptr_dns_decode_name(p, off, out_len)
      good(way) == Len(way) <= LABELS /\ Jumps(p, way) <= JUMPS /\ Len(TextOf(p, way)) < out_len
      ways == WaysFrom(p, off)
  IN /\ got.ok <=> \E way \in ways : good(way)
     /\ \A way \in ways : got.ok => got.text = TextOf(p, way)

(* Skipping ends behind the name's own bytes: behind the first offset of    *)
(* its way that is no label, the zero or a pointer.                         *)
SkipsRight(p, off) ==
  \A way \in WaysFrom(p, off) :
    LET own == SelectInSeq(way, LAMBDA m : p[m + 1] \notin 1 .. LABEL_MAX)
        stop == way[own]
    IN own <= LABELS =>
         ptr_dns_skip_name(p, off) = stop + (IF IsPointer(p[stop + 1]) THEN 2 ELSE 1)

(* What is encoded is decoded as it was, and skipping it ends at its end.   *)
EncodesRight(name, capacity) ==
  LET p == ptr_dns_encode_name(name, capacity, 0) IN
  p # <<>> =>
    /\ Len(p) <= capacity
    /\ ptr_dns_skip_name(p, 0) = (IF Len(name) < LABELS THEN Len(p) ELSE Failed)
    /\ Len(name) < LABELS =>
         ptr_dns_decode_name(p, 0, 256)
           = [ok |-> TRUE,
              text |-> FlattenSeq([i \in DOMAIN name |-> (IF i = 1 THEN <<>> ELSE <<Dot>>) \o name[i]])]

===============================================================================
