------------------------------- MODULE MCRxRing -------------------------------
EXTENDS RxRing

Shape(st, ds) == [status |-> st, descs |-> ds]

\* Each way through ax_rx_take_completed and, in one aggregate, through the parser.
MixedShapes ==
  {Shape("error", << >>), Shape("zero", << >>), Shape("bad", <<"frame">>),
   Shape("ok", <<"skip", "frame", "frame", "overrun">>)}

\* What matters to the ring rather than to the parser.
RingShapes ==
  {Shape("zero", << >>), Shape("ok", <<"frame">>)}

===============================================================================
