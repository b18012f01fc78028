---------------------------- MODULE MCSocketCalls ----------------------------
(* Small instances of SocketCalls.                                          *)
EXTENDS SocketCalls

MCValues == {-1, 1, 65536}

===============================================================================
