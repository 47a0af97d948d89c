----------------------------- MODULE ServerMain -----------------------------
(***************************************************************************)
(* The server process from its first instruction: main() of                *)
(* src/src/server-main.c walks the command line (server-main.c:185-229),   *)
(* then server() installs the handlers and opens the listen socket         *)
(* (server-main.c:65-112) and enters the loop that Dispatcher models.      *)
(* The process's exit status is the question asked of it here.            *)
(*                                                                         *)
(* An argument is a sequence of symbols.  Digits, "-", "+" and "." stand   *)
(* for themselves, since atoi and strtok act on them; any other symbol     *)
(* stands for a run of other characters ("x" for letters, "web" for a      *)
(* path, "debug" for the letters of an option name).                       *)
(***************************************************************************)
EXTENDS Dispatcher, SequencesExt

CONSTANTS
    Argvs,        \* the command lines argv[1..argc-1] the process is started with
    Dirs,         \* the paths io_is_dir accepts: existing directories
    Slash,        \* the path "/"
    DefaultDir    \* the default "./web"

VARIABLES
    argv,         \* argv[1..]
    iarg,         \* main's loop index
    port,         \* main's port
    addr,         \* main's addr: four octets
    staticDir     \* static_files_dir

mainVars == <<argv, iarg, port, addr, staticDir>>
allVars == <<vars, mainVars>>

-----------------------------------------------------------------------------
(* The string conversions main relies on. *)

Digit == [d \in {"0","1","2","3","4","5","6","7","8","9"} |->
            CHOOSE v \in 0..9 : <<"0","1","2","3","4","5","6","7","8","9">>[v+1] = d]

\* The value of the leading run of digits of s, appended to acc.
RECURSIVE DigitsValue(_, _)
DigitsValue(s, acc) ==
    IF s # <<>> /\ Head(s) \in DOMAIN Digit
    THEN DigitsValue(Tail(s), 10 * acc + Digit[Head(s)])
    ELSE acc

\* atoi: an optional sign, then digits up to the first non-digit; 0 when
\* there are none.  No argument has enough digits to overflow an int.
Atoi(s) ==
    CASE s # <<>> /\ Head(s) = "-" -> -DigitsValue(Tail(s), 0)
      [] s # <<>> /\ Head(s) = "+" -> DigitsValue(Tail(s), 0)
      [] OTHER                     -> DigitsValue(s, 0)

\* strtok(s, ".") called until it returns NULL: the non-empty runs between
\* dots; empty runs ("1..2", a leading or trailing dot) are skipped.
RECURSIVE Tokens(_, _)
Tokens(s, run) ==
    CASE s = <<>>        -> IF run = <<>> THEN <<>> ELSE <<run>>
      [] Head(s) = "."   -> (IF run = <<>> THEN <<>> ELSE <<run>>) \o Tokens(Tail(s), <<>>)
      [] OTHER           -> Tokens(Tail(s), Append(run, Head(s)))

(***************************************************************************)
(* INVALID_ADDR, (uint32_t)-1 (net.h).  net_atoipv4 packs octet i into     *)
(* bits 8(i-1)..8i-1; the packing is one-to-one, so an address is kept as  *)
(* its four octets and (uint32_t)-1 is the address 255.255.255.255.        *)
(***************************************************************************)
InvalidAddr == <<255, 255, 255, 255>>

\* net_atoipv4 (net.c:10-35): at most 15 characters, at least four tokens
\* (more are ignored), each atoi'd and cut to its low byte.
NetAtoipv4(s) ==
    LET t == Tokens(s, <<>>)
    IN  IF Len(s) > 15 \/ Len(t) < 4 THEN InvalidAddr
        ELSE [i \in 1..4 |-> Atoi(t[i]) % 256]

\* io_is_dir (io.c:117-129): stat succeeds and the path is a directory.
IoIsDir(p) == p \in Dirs

Opt(name) == <<"-", "-", name>>

-----------------------------------------------------------------------------
(* main. *)

\* Where the process is before the listen loop; "failed" is main's return 1.
MainPhases == {"main", "server", "failed", "startfail"}

ServerInit ==
    /\ argv \in Argvs
    /\ iarg = 1
    /\ port = 0
    /\ addr = InvalidAddr
    /\ staticDir = DefaultDir
    /\ useFork = TRUE
    /\ shutdownFlag = FALSE
    /\ lpc = "main"
    /\ backlog = <<>>
    /\ served = NoClient
    /\ conn = [c \in Clients |-> "idle"]
    /\ child = [c \in Clients |-> "none"]
    /\ signalled = {}
    /\ sigSent = FALSE

Fail == lpc' = "failed" /\ UNCHANGED <<iarg, port, addr, staticDir, useFork>>

(***************************************************************************)
(* One turn of main's argument loop (server-main.c:193-228) on argv[iarg]. *)
(* --debug only sets the log level.                                        *)
(***************************************************************************)
ParseArg ==
    /\ lpc = "main"
    /\ iarg <= Len(argv)
    /\ LET arg == argv[iarg] IN
       \/ /\ arg = Opt("debug")
          /\ iarg' = iarg + 1
          /\ UNCHANGED <<lpc, port, addr, staticDir, useFork>>
       \/ /\ arg = Opt("no-fork")
          /\ useFork' = FALSE
          /\ iarg' = iarg + 1
          /\ UNCHANGED <<lpc, port, addr, staticDir>>
       \/ /\ arg = Opt("static-files")
          /\ iarg + 1 > Len(argv)
          /\ Fail
       \/ /\ arg = Opt("static-files")
          /\ iarg + 1 <= Len(argv)
          /\ staticDir' = argv[iarg + 1]
          /\ IF IoIsDir(argv[iarg + 1])
             THEN iarg' = iarg + 2 /\ UNCHANGED <<lpc, port, addr, useFork>>
             ELSE lpc' = "failed" /\ UNCHANGED <<iarg, port, addr, useFork>>
       \/ /\ IsPrefix(<<"-", "-">>, arg)
          /\ arg \notin {Opt("debug"), Opt("no-fork"), Opt("static-files")}
          /\ Fail
       \/ /\ ~IsPrefix(<<"-", "-">>, arg)
          /\ port = 0
          /\ port' = Atoi(arg)
          /\ IF Atoi(arg) <= 0
             THEN lpc' = "failed" /\ UNCHANGED iarg
             ELSE iarg' = iarg + 1 /\ UNCHANGED lpc
          /\ UNCHANGED <<addr, staticDir, useFork>>
       \/ /\ ~IsPrefix(<<"-", "-">>, arg)
          /\ port # 0
          /\ addr = InvalidAddr
          /\ addr' = NetAtoipv4(arg)
          /\ IF NetAtoipv4(arg) = InvalidAddr
             THEN lpc' = "failed" /\ UNCHANGED iarg
             ELSE iarg' = iarg + 1 /\ UNCHANGED lpc
          /\ UNCHANGED <<port, staticDir, useFork>>
       \/ /\ ~IsPrefix(<<"-", "-">>, arg)
          /\ port # 0
          /\ addr # InvalidAddr
          /\ Fail
    /\ UNCHANGED <<argv, shutdownFlag, backlog, served, conn, child, signalled,
                   sigSent>>

\* After the loop (server-main.c:230-234): usage and 1 without a port,
\* else server().
EndArgs ==
    /\ lpc = "main"
    /\ iarg > Len(argv)
    /\ lpc' = IF port <= 0 THEN "failed" ELSE "server"
    /\ UNCHANGED <<argv, iarg, port, addr, staticDir, useFork, shutdownFlag,
                   backlog, served, conn, child, signalled, sigSent>>

\* http_init (http.c:306-345) fails when realpath fails (no such path), when
\* it gives "/", or when the path it gives is no directory (io_is_dir).
HttpInitFails(dir) == dir \notin Dirs \/ dir = Slash

(***************************************************************************)
(* server() up to the loop (server-main.c:65-112): http_init on the static *)
(* files directory, then socket, setsockopt, ioctl, bind to INADDR_ANY and *)
(* htons(port), and listen, any of which can fail (EADDRINUSE, EACCES,     *)
(* EMFILE ...).  A failure returns 1 from server(), which main drops: main *)
(* ends without a return statement after the call, and returns 0.         *)
(***************************************************************************)
Startup ==
    /\ lpc = "server"
    /\ \/ /\ HttpInitFails(staticDir)
          /\ lpc' = "startfail"
       \/ /\ ~HttpInitFails(staticDir)
          /\ lpc' \in {"top", "startfail"}
    /\ UNCHANGED <<argv, iarg, port, addr, staticDir, useFork, shutdownFlag,
                   backlog, served, conn, child, signalled, sigSent>>

MainStep == ParseArg \/ EndArgs \/ Startup

ServerNext ==
    \/ MainStep
    \/ lpc \notin MainPhases /\ Next /\ UNCHANGED mainVars

(***************************************************************************)
(* main runs to the loop unless it stops; the dispatcher's fairness is     *)
(* Dispatcher's.                                                           *)
(***************************************************************************)
ServerSpec ==
    /\ ServerInit /\ [][ServerNext]_allVars
    /\ WF_allVars(MainStep)
    /\ WF_allVars(Listener /\ UNCHANGED mainVars)
    /\ \A c \in Clients : WF_allVars(c \in signalled /\ ChildExit(c) /\ UNCHANGED mainVars)

-----------------------------------------------------------------------------
(* Properties. *)

\* The exit status of the process once it has ended.
Ended == {"failed", "startfail"} \cup Stopped
ExitStatus == IF lpc = "failed" THEN 1 ELSE 0

\* A port is a decimal number of 1..65535; an address a dotted quad of
\* four decimal numbers of 0..255 (spec.md 6, `server [options] <port> [<ip>]`).
Decimal(s) == s # <<>> /\ \A i \in DOMAIN s : s[i] \in DOMAIN Digit
IsPort(s) == Decimal(s) /\ DigitsValue(s, 0) \in 1..65535
IsIPv4(s) ==
    /\ Len(SelectSeq(s, LAMBDA ch : ch = ".")) = 3
    /\ LET t == Tokens(s, <<>>)
       IN  Len(t) = 4 /\ \A i \in 1..4 : Decimal(t[i]) /\ DigitsValue(t[i], 0) <= 255

\* The command line, read as spec.md 6 describes it: options with their
\* arguments anywhere, then one port and at most one address.
ArgumentError ==
    LET IsOpt(i) == IsPrefix(<<"-", "-">>, argv[i])
        OptArg(i) == i > 1 /\ argv[i-1] = Opt("static-files")
        pos == SelectSeq([i \in 1..Len(argv) |-> i], LAMBDA i : ~IsOpt(i) /\ ~OptArg(i))
    IN  \/ \E i \in 1..Len(argv) :
              IsOpt(i) /\ argv[i] \notin {Opt("debug"), Opt("no-fork"), Opt("static-files")}
        \/ argv # <<>> /\ Last(argv) = Opt("static-files")
        \/ Len(pos) \notin {1, 2}
        \/ Len(pos) >= 1 /\ ~IsPort(argv[pos[1]])
        \/ Len(pos) = 2 /\ ~IsIPv4(argv[pos[2]])

\* The static root the command line names (the last --static-files path,
\* else ./web) is not a directory, or is "/" (spec.md 7, Forbidden).
RootUnusable ==
    LET at == {i \in 1..Len(argv) - 1 : argv[i] = Opt("static-files")}
        root == IF at = {} THEN DefaultDir ELSE argv[Max(at) + 1]
    IN  root \notin Dirs \/ root = Slash

(* spec.md 6: the process exits with 1 on an argument error or a start-up  *)
(* failure and with 0 on an orderly shutdown.  About main's argument loop  *)
(* (atoi with no upper bound, net_atoipv4) and its dropping of server()'s  *)
(* return value (server-main.c:235).                                       *)
ExitStatusAsSpecified ==
    lpc \in Ended =>
        (ExitStatus = 1 <=> (ArgumentError \/ RootUnusable \/ lpc = "startfail"))

=============================================================================
