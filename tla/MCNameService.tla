---------------------------- MODULE MCNameService ----------------------------
(* Small instances of NameService, and the packets and names on which the   *)
(* functions of PtrName are tried: every packet of up to four of five       *)
(* bytes, one of each kind, and every name of up to three labels.           *)
EXTENDS NameService, PtrName, TLC

VARIABLES packet, name

MCPackets == SeqOf({0, 1, 2, 64, 192}, 4)
MCNames == SeqOf(SeqOf({1}, 2), 3)

MCInit ==
  /\ Init
  /\ \/ calls # {} /\ packet = <<>> /\ name = <<>>
     \/ calls = {} /\ packet \in MCPackets /\ name = <<>>
     \/ calls = {} /\ packet = <<>> /\ name \in MCNames
MCNext == Next /\ UNCHANGED <<packet, name>>
MCSpec == MCInit /\ [][MCNext]_<<vars, packet, name>>

Interchangeable == UNION {Permutations(S) : S \in {Threads, Addrs, Hosts, Ports, Ids}}

(* Names are encoded, skipped and decoded as they are defined: a packet     *)
(* whose pointers loop or leave it is refused, every other name within the  *)
(* limits is read in full, and no text is longer than its buffer.           *)
NamesAgree ==
  calls = {} =>
    /\ \A off \in Offsets(packet) :
         SkipsRight(packet, off) /\ \A out_len \in 1 .. 4 : DecodesRight(packet, off, out_len)
    /\ \A capacity \in 1 .. 7 : EncodesRight(name, capacity)

===============================================================================
