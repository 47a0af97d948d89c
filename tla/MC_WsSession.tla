---------------------------- MODULE MC_WsSession ----------------------------
(***************************************************************************)
(* WsSession for TLC: two payload chunks, a client that may send up to     *)
(* MaxFrames frames from a set chosen to reach every branch of _ws_read,   *)
(* and allocations of more than one chunk that may fail.                  *)
(***************************************************************************)
EXTENDS WsSession

CONSTANTS c1, c2

MCChunks == {c1, c2}

\* A masked client frame.
F(op, fin, payload) == [op |-> op, fin |-> fin, masked |-> TRUE, payload |-> payload]

MCClientFrames ==
    { F(OC_TEXT, TRUE, <<c1>>),   F(OC_TEXT, FALSE, <<c1>>), F(OC_TEXT, TRUE, <<>>),
      F(OC_BIN, TRUE, <<c1, c2>>),
      F(OC_CONT, TRUE, <<c2>>),   F(OC_CONT, FALSE, <<c1>>), F(OC_CONT, TRUE, <<>>),
      F(OC_PING, TRUE, <<c1>>),   F(OC_PONG, TRUE, <<>>),    F(OC_CLOSE, TRUE, <<>>),
      F(3, TRUE, <<>>),
      [op |-> OC_TEXT, fin |-> TRUE, masked |-> FALSE, payload |-> <<c1>>] }

=============================================================================
