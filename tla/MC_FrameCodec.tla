---------------------------- MODULE MC_FrameCodec ----------------------------
(* The frames of ws_dataframe_io_round_trip (ws.c:562-668): a payload      *)
(* pattern and the test's mask key {2,1,1,2}, at lengths on both sides of  *)
(* the 125/126 and 65535/65536 encoding boundaries.                        *)
EXTENDS FrameCodec

Pat == <<1, 2, 3, 4>>

MCFrames ==
    { [op |-> 1, fin |-> FALSE, len |-> 125,   pat |-> Pat],   \* OC_TEXT
      [op |-> 0, fin |-> FALSE, len |-> 126,   pat |-> Pat],   \* OC_CONT
      [op |-> 0, fin |-> TRUE,  len |-> 65535, pat |-> Pat],
      [op |-> 2, fin |-> TRUE,  len |-> 65536, pat |-> Pat],   \* OC_BIN
      [op |-> 9, fin |-> TRUE,  len |-> 0,     pat |-> <<>>],  \* OC_PING
      [op |-> 8, fin |-> TRUE,  len |-> 2,     pat |-> Pat] }  \* OC_CLOSE

MCKeys == { <<2, 1, 1, 2>> }
=============================================================================
