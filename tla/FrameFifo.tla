------------------------------ MODULE FrameFifo ------------------------------
(***************************************************************************)
(* What both directions of the adapter promise to the stack above them: a  *)
(* bounded first-in first-out channel of frames.  A frame that the channel *)
(* accepted is handed on unchanged, once, in the order of acceptance, or   *)
(* it is discarded together with everything else in the channel.           *)
(*                                                                         *)
(* TxPool (src/net/ax_net.c) and RxRing (src/driver/ax88179.c) are shown   *)
(* to implement this specification.                                        *)
(***************************************************************************)
EXTENDS Naturals, Sequences

CONSTANTS Items,     \* what travels: ethernet frames or USB aggregates
          NoItem,    \* the value of "current" when nothing is being handled
          Capacity   \* the most items the channel holds

VARIABLES fifo,      \* accepted and not yet handed on, oldest first
          current    \* the item the consumer is handling

fifoVars == <<fifo, current>>

FifoInit ==
  /\ fifo = << >>
  /\ current = NoItem

Accept(i) ==
  /\ Len(fifo) < Capacity
  /\ fifo' = Append(fifo, i)
  /\ UNCHANGED current

Take ==
  /\ fifo # << >>
  /\ current' = Head(fifo)
  /\ fifo' = Tail(fifo)

Done ==
  /\ current' = NoItem
  /\ UNCHANGED fifo

\* The oldest item is given up without being handed on.
Skip ==
  /\ fifo # << >>
  /\ fifo' = Tail(fifo)
  /\ current' = NoItem

\* Everything in the channel is given up.
Flush ==
  /\ fifo' = << >>
  /\ current' = NoItem

FifoNext ==
  \/ \E i \in Items : Accept(i)
  \/ Take
  \/ Done
  \/ Skip
  \/ Flush

FifoSpec == FifoInit /\ [][FifoNext]_fifoVars
==============================================================================
