--------------------------- MODULE MC_HttpRequest ---------------------------
(***************************************************************************)
(* HttpRequest for TLC.  Names are sequences of one-letter strings so that *)
(* the sibling directory "wx" of the root "w" shares its first byte.       *)
(*                                                                         *)
(*   /s/w        the static-files root                                    *)
(*   /s/w/i      index.html, 2 bytes       /s/w/e   an empty file          *)
(*   /s/w/d      a directory               /s/w/l   link to /s/wx          *)
(*   /s/wx/f     a file of 1 byte beside the root                          *)
(*   /p          a file outside /s                                         *)
(***************************************************************************)
EXTENDS HttpRequest

N(c) == <<c>>
Sv == N("s")
Wn == N("w")
WXn == <<"w", "x">>

Entry(kind, size, target) == [kind |-> kind, size |-> size, target |-> target]

MCFS ==
    ( <<Sv>> :> Entry("dir", 0, <<>>)
   @@ <<Sv, Wn>> :> Entry("dir", 0, <<>>)
   @@ <<Sv, Wn, N("i")>> :> Entry("file", 2, <<>>)
   @@ <<Sv, Wn, N("e")>> :> Entry("file", 0, <<>>)
   @@ <<Sv, Wn, N("d")>> :> Entry("dir", 0, <<>>)
   @@ <<Sv, Wn, N("l")>> :> Entry("link", 0, <<Sv, WXn>>)
   @@ <<Sv, WXn>> :> Entry("dir", 0, <<>>)
   @@ <<Sv, WXn, N("f")>> :> Entry("file", 1, <<>>)
   @@ <<N("p")>> :> Entry("file", 1, <<>>) )

MCDot == N(".")
MCDotDot == N("..")
MCIndexName == N("i")

MCStaticDir == <<Sv, Wn>>

MCUris == { <<>>, <<N("e")>>, <<N("d")>>, <<N(".."), WXn, N("f")>>,
            <<N(".."), N(".."), N("p")>> }


\* "websocket" as sent, in mixed case, and its prefix "webs"; "100-continue"
\* in mixed case and its prefix "100".
MCUpgradeValues == { Absent, WS_UPGRADE, <<"W", "e", "b", "S", "o", "c", "k", "e", "t">>,
                     <<"w", "e", "b", "s">> }
MCExpectValues == { Absent, <<"1", "0", "0", "-", "C", "o", "n", "t", "i", "n", "u", "e">>,
                    <<"1", "0", "0">> }

\* atoi of an absent or non-numeric value is 0; of "-1" it is -1.
MCContentLengths == {-1, 0, 2}

=============================================================================
