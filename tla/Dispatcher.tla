----------------------------- MODULE Dispatcher -----------------------------
(***************************************************************************)
(* The connection dispatcher of src/src/server-main.c: the listener's     *)
(* select/accept loop, the connection served inline (--no-fork) or by a    *)
(* forked worker, the reaping of workers with waitpid(WNOHANG), and the    *)
(* SIGINT/SIGTERM shutdown, sent to the listener alone (kill) or to the    *)
(* whole process group (Ctrl-C), which the workers share.                  *)
(*                                                                         *)
(* A request is abstracted to its end: a worker, or the listener serving   *)
(* inline, finishes when its client is done, which may be never, or, for a *)
(* worker whose handler closed the descriptor, soon (HttpRequest shows    *)
(* that closing the descriptor ends the request).                          *)
(***************************************************************************)
EXTENDS Integers, Sequences

CONSTANTS
    Clients          \* the clients that connect, once each

VARIABLES
    useFork,         \* the --no-fork option, inverted
    shutdownFlag,    \* shutdown_server
    lpc,             \* where the listener is
    backlog,         \* the listen queue: connections not yet accepted
    served,          \* the client the listener serves inline
    conn,            \* conn[c]: where client c's connection is
    child,           \* child[c]: the worker forked for c
    signalled,       \* workers the shutdown signal reached
    sigSent          \* a shutdown signal has been sent

vars == <<useFork, shutdownFlag, lpc, backlog, served, conn, child, signalled,
          sigSent>>

NoClient == "none"

\* The listener has left server(): exit(0) after the loop, or return 1 out
\* of the loop when ioctl fails on an accepted descriptor.
Stopped == {"exited", "returned"}

Init ==
    /\ useFork \in BOOLEAN
    /\ shutdownFlag = FALSE
    /\ lpc = "top"
    /\ backlog = <<>>
    /\ served = NoClient
    /\ conn = [c \in Clients |-> "idle"]
    /\ child = [c \in Clients |-> "none"]
    /\ signalled = {}
    /\ sigSent = FALSE

-----------------------------------------------------------------------------
(* The listener. *)

\* do_server_maintenance (server-main.c:56-62): waitpid(-1, WNOHANG) until
\* no terminated child is left.
Reap(ch) == [c \in Clients |-> IF ch[c] = "zombie" THEN "reaped" ELSE ch[c]]

\* Mutant: the loop never reaps.
TopNoReap ==
    /\ lpc = "top"
    /\ IF shutdownFlag THEN lpc' = "exited" ELSE lpc' = "select"
    /\ UNCHANGED <<useFork, shutdownFlag, backlog, served, conn, child,
                   signalled, sigSent>>

(***************************************************************************)
(* The head of the loop (server-main.c:113-114, 168-175): with the flag   *)
(* set, shutdown and close the listen socket and exit(0), leaving the      *)
(* workers running; otherwise reap.                                        *)
(***************************************************************************)
Top ==
    /\ lpc = "top"
    /\ \/ /\ shutdownFlag
          /\ lpc' = "exited"
          /\ UNCHANGED child
       \/ /\ ~shutdownFlag
          /\ child' = Reap(child)
          /\ lpc' = "select"
    /\ UNCHANGED <<useFork, shutdownFlag, backlog, served, conn, signalled,
                   sigSent>>

\* Mutant: the result of select is misread, and a ready listen socket is
\* taken for a timeout.
SelectNeverAccepts ==
    /\ lpc = "select"
    /\ lpc' = "top"
    /\ UNCHANGED <<useFork, shutdownFlag, backlog, served, conn, child,
                   signalled, sigSent>>

\* Mutant: select without a timeout waits for a connection.
SelectForever ==
    /\ lpc = "select"
    /\ backlog # <<>>
    /\ lpc' = "accept"
    /\ UNCHANGED <<useFork, shutdownFlag, backlog, served, conn, child,
                   signalled, sigSent>>

(***************************************************************************)
(* select with a 1 s timeout (server-main.c:115-122): readable when a     *)
(* connection is queued; otherwise it returns 0 after the timeout, or -1  *)
(* when SIGCHLD interrupts it, and the loop goes round.                    *)
(***************************************************************************)
Select ==
    /\ lpc = "select"
    /\ lpc' = IF backlog # <<>> THEN "accept" ELSE "top"
    /\ UNCHANGED <<useFork, shutdownFlag, backlog, served, conn, child,
                   signalled, sigSent>>

(***************************************************************************)
(* accept and the hand-off (server-main.c:123-165).  accept can fail      *)
(* (ECONNABORTED, EMFILE, ...), and then the whole server shuts down.     *)
(* Inline, the listener runs http_client_connect itself.  Forked, fork's  *)
(* -1 is taken for the parent: the descriptor is closed unserved.  When   *)
(* ioctl(FIONBIO) fails on the accepted descriptor, server() returns 1,   *)
(* leaving the descriptor open and the listen socket unclosed.             *)
(***************************************************************************)
Accept ==
    /\ lpc = "accept"
    /\ backlog # <<>>
    /\ LET c == Head(backlog) IN
       /\ backlog' = Tail(backlog)
       /\ \/ /\ shutdownFlag' = TRUE
             /\ conn' = [conn EXCEPT ![c] = "dropped"]
             /\ lpc' = "top"
             /\ UNCHANGED <<served, child>>
          \/ /\ conn' = [conn EXCEPT ![c] = "dropped"]
             /\ lpc' = "returned"
             /\ UNCHANGED <<shutdownFlag, served, child>>
          \/ /\ ~useFork
             /\ conn' = [conn EXCEPT ![c] = "inline"]
             /\ served' = c
             /\ lpc' = "inline"
             /\ UNCHANGED <<shutdownFlag, child>>
          \/ /\ useFork
             /\ conn' = [conn EXCEPT ![c] = "worker"]
             /\ child' = [child EXCEPT ![c] = "forked"]
             /\ lpc' = "top"
             /\ UNCHANGED <<shutdownFlag, served>>
          \/ /\ useFork
             /\ conn' = [conn EXCEPT ![c] = "dropped"]
             /\ lpc' = "top"
             /\ UNCHANGED <<shutdownFlag, served, child>>
    /\ UNCHANGED <<useFork, signalled, sigSent>>

Listener == Top \/ Select \/ Accept

-----------------------------------------------------------------------------
(* Requests, clients and signals. *)

\* The inline http_client_connect returns when its client is done, and the
\* listener closes the descriptor (server-main.c:137-139).
InlineDone ==
    /\ lpc = "inline"
    /\ conn' = [conn EXCEPT ![served] = "done"]
    /\ served' = NoClient
    /\ lpc' = "top"
    /\ UNCHANGED <<useFork, shutdownFlag, backlog, child, signalled, sigSent>>

(***************************************************************************)
(* The worker's first steps (server-main.c:150-156): setpgid, then         *)
(* sigint_handler_child for SIGINT and SIGTERM, close(fd_server), and only *)
(* then _fd_client = fd_client.  Until this step a shutdown signal runs    *)
(* the inherited sigint_handler, or sigint_handler_child with _fd_client   *)
(* still 0: either way the worker's descriptor stays open.                 *)
(***************************************************************************)
ChildStart(c) ==
    /\ child[c] = "forked"
    /\ child' = [child EXCEPT ![c] = "running"]
    /\ UNCHANGED <<useFork, shutdownFlag, lpc, backlog, served, conn, signalled,
                   sigSent>>

\* A worker finishes its request, closes, and exit(0)s (server-main.c:157-162).
ChildExit(c) ==
    /\ child[c] = "running"
    /\ child' = [child EXCEPT ![c] = "zombie"]
    /\ conn' = [conn EXCEPT ![c] = "done"]
    /\ UNCHANGED <<useFork, shutdownFlag, lpc, backlog, served, signalled,
                   sigSent>>

\* A client connects; the kernel queues it until accept.
Connect(c) ==
    /\ conn[c] = "idle"
    /\ lpc \notin Stopped
    /\ conn' = [conn EXCEPT ![c] = "queued"]
    /\ backlog' = Append(backlog, c)
    /\ UNCHANGED <<useFork, shutdownFlag, lpc, served, child, signalled, sigSent>>

(***************************************************************************)
(* SIGINT/SIGTERM.  To the listener, sigint_handler sets shutdown_server  *)
(* (server-main.c:21-36); the inline request, if any, goes on (SA_RESTART) *)
(* and the listener is not yet back at the loop head.  To the group, each *)
(* running worker's sigint_handler_child also closes its descriptor       *)
(* (server-main.c:39-54); a worker still in ChildStart's window does not. *)
(***************************************************************************)
SignalListener ==
    /\ ~sigSent
    /\ lpc \notin Stopped
    /\ sigSent' = TRUE
    /\ shutdownFlag' = TRUE
    /\ UNCHANGED <<useFork, lpc, backlog, served, conn, child, signalled>>

SignalGroup ==
    /\ ~sigSent
    /\ sigSent' = TRUE
    /\ shutdownFlag' = TRUE
    /\ signalled' = {c \in Clients : child[c] = "running"}
    /\ UNCHANGED <<useFork, lpc, backlog, served, conn, child>>

Next ==
    \/ Listener \/ InlineDone
    \/ \E c \in Clients : ChildStart(c) \/ ChildExit(c) \/ Connect(c)
    \/ SignalListener \/ SignalGroup

(***************************************************************************)
(* The listener runs whenever it is not blocked (select returns within    *)
(* 1 s), and a worker whose descriptor the handler closed finishes; no    *)
(* client is assumed to finish on its own.                                 *)
(***************************************************************************)
Spec ==
    /\ Init /\ [][Next]_vars
    /\ WF_vars(Listener)
    /\ \A c \in Clients : WF_vars(c \in signalled /\ ChildExit(c))


-----------------------------------------------------------------------------
(* Properties. *)

(* A worker that has exited is reaped while the listener runs: the loop   *)
(* goes round at least once a second even with no connection, because of *)
(* the select timeout, and reaps every terminated child at its head        *)
(* (server-main.c:113-122, 56-62).  No zombie is left behind a live server. *)
Reaped ==
    \A c \in Clients :
        child[c] = "zombie" ~> (child[c] = "reaped" \/ lpc \in Stopped)

(* With forked workers, a shutdown signal, or a failed accept, stops the   *)
(* listener whatever the clients do: the flag is seen at the loop head    *)
(* within one turn (server-main.c:113, 168-175).                           *)
ShutdownStopsForked ==
    (useFork /\ shutdownFlag) ~> lpc \in Stopped

(* With forked workers, a connection in the listen queue is accepted, or   *)
(* the listener stops: select reports the ready socket within its 1 s      *)
(* timeout and accept takes the head of the queue, while the forked worker *)
(* never holds the listener up (server-main.c:115-149).  In --no-fork mode *)
(* a client that stays connected keeps every queued one waiting.           *)
QueuedAcceptedForked ==
    \A c \in Clients :
        (useFork /\ conn[c] = "queued") ~> (conn[c] # "queued" \/ lpc \in Stopped)

=============================================================================
