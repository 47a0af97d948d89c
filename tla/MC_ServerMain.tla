---------------------------- MODULE MC_ServerMain ----------------------------
EXTENDS ServerMain

CONSTANTS c1, c2, c3

MCClients == {c1, c2, c3}

\* Arguments, as symbols: digits and dots stand for themselves.
Port80 == <<"8", "0">>
Ip1234 == <<"1", ".", "2", ".", "3", ".", "4">>

(***************************************************************************)
(* Command lines that take every branch of main's loop: two that start the *)
(* server (forked, and inline with a static-files directory), and one for  *)
(* each way main refuses its arguments.                                    *)
(***************************************************************************)
MCArgvs ==
    { << Opt("debug"), Port80, Ip1234 >>,
      << Opt("static-files"), <<"web">>, Opt("no-fork"), Port80 >>,
      << Opt("static-files") >>,
      << Opt("static-files"), <<"f">> >>,
      << Opt("static-files"), <<"/">>, Port80 >>,
      << Opt("verbose") >>,
      << <<"0">> >>,
      << Port80, <<"x">> >>,
      << Port80, Ip1234, <<"9">> >>,
      << >> }

(***************************************************************************)
(* Command lines spec.md 6 sorts into valid and erroneous: a port past    *)
(* 65535, the address 255.255.255.255, and a plain valid one.              *)
(***************************************************************************)
MCArgvsExit ==
    { << Port80 >>,
      << <<"7", "0", "0", "0", "0">> >>,
      << Port80, <<"2","5","5",".","2","5","5",".","2","5","5",".","2","5","5">> >> }

MCDirs == {<<"web">>, <<"/">>, <<".", "/", "web">>}
MCSlash == <<"/">>
MCDefault == <<".", "/", "web">>

=============================================================================
