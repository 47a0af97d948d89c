------------------------------ MODULE WsSession ------------------------------
(***************************************************************************)
(* One WebSocket connection of the server, from the upgrade to the end of  *)
(* the session (src/src/ws.c and the echo driver dispatch_websocket in     *)
(* src/src/http.c), against a client that may send any frame of a given  *)
(* set, half-close its side, or stop reading.                              *)
(*                                                                         *)
(* The server is one worker process with one thread: its only blocking    *)
(* point is the read of the next frame header (ws.c:111).  Each step of   *)
(* the server is the code between two such reads, or a stage of           *)
(* dispatch_websocket (upgrade, echo, free) that runs without reading.   *)
(*                                                                         *)
(* Data is abstracted to what the properties tell apart: a payload is a   *)
(* sequence of chunks (model values), and sizes are counted in chunks.     *)
(* Memory is modelled where the code depends on it: the scratch frame     *)
(* ws->df (alloc_dataframe), the reassembly buffer ws->buff/buff_len       *)
(* (mem_append), and what happens when an allocation fails.  An           *)
(* allocation of more than AllocLimit chunks may fail; smaller ones do    *)
(* not.  The library is glibc: malloc(0) returns a pointer, realloc(p, 0)  *)
(* frees p and returns NULL.                                               *)
(***************************************************************************)
EXTENDS Integers, Sequences, SequencesExt

CONSTANTS
    Chunks,          \* payload contents
    ClientFrames,    \* the frames the client may send
    MaxFrames,       \* bound on the number of frames the client sends
    AllocLimit       \* allocations above this many chunks may fail

\* Opcode_Type (ws.c:28-35); 3 stands for any reserved opcode.
OC_CONT == 0
OC_TEXT == 1
OC_BIN == 2
OC_CLOSE == 8
OC_PING == 9
OC_PONG == 10
NoOpcode == -1                  \* char opcode_prev = -1 (ws.c:375)
WS_STATUS_GOING_AWAY == 1001    \* ws.h:18
HS_101 == 101                   \* the 101 Switching Protocols response

Opcodes == {OC_CONT, OC_TEXT, OC_BIN, 3, OC_CLOSE, OC_PING, OC_PONG}
Frame == [op : Opcodes, fin : BOOLEAN, masked : BOOLEAN, payload : Seq(Chunks)]

ASSUME ClientFrames \subseteq Frame
ASSUME MaxFrames \in Nat /\ AllocLimit \in Nat

NULL == -1                      \* a NULL Data_Frame pointer

VARIABLES
    \* the client and the connection
    toServer,      \* frames in transit to the server, in order (TCP)
    sent,          \* every frame the client has sent (history)
    clientEOF,     \* the client has shut down its sending side
    peerReading,   \* the client still reads; if not, a write raises SIGPIPE
    hasKey,        \* the upgrade request carries sec-websocket-key
    \* the server worker
    pc,            \* where the worker is
    opcodePrev,    \* opcode_prev, local to _ws_read (ws.c:375)
    dfCap,         \* payload capacity of ws->df, NULL when freed
    buffPtr,       \* ws->buff is NULL ("null") or a heap block ("heap")
    buffAlloc,     \* size of the heap block ws->buff points to
    buffLen,       \* ws->buff_len
    buffData,      \* the first buffLen chunks of ws->buff
    msgType,       \* the message type ws_wait returned
    wsResult,      \* why the message loop ended: "none", "close", "error"
    out            \* every frame the server wrote, in order

vars == <<toServer, sent, clientEOF, peerReading, hasKey, pc, opcodePrev,
          dfCap, buffPtr, buffAlloc, buffLen, buffData, msgType, wsResult, out>>

\* The worker has left the session: done, or died on a signal or a fault.
Ended == {"done", "killed", "segv", "heap_overflow", "heap_overread"}

Consumed == SubSeq(sent, 1, Len(sent) - Len(toServer))

Init ==
    /\ toServer = <<>>
    /\ sent = <<>>
    /\ clientEOF = FALSE
    /\ peerReading = TRUE
    /\ hasKey \in BOOLEAN
    /\ pc = "upgrade"
    /\ opcodePrev = NoOpcode
    /\ dfCap = NULL
    /\ buffPtr = "null"
    /\ buffAlloc = 0
    /\ buffLen = 0
    /\ buffData = <<>>
    /\ msgType = OC_TEXT
    /\ wsResult = "none"
    /\ out = <<>>

MayFail(n) == n > AllocLimit

(***************************************************************************)
(* A write and flush of frames on f_out (write_dataframe, ws.c:196-281).  *)
(* fwrite only fills the stdio buffer, so write_dataframe returns true;    *)
(* the bytes leave at fflush, whose result is ignored (ws.c:278).  If the *)
(* peer has gone, that write raises SIGPIPE, which the server never       *)
(* ignores, and the process dies; or the first write after the peer's     *)
(* close still succeeds and the bytes are lost.                            *)
(***************************************************************************)
Emit(frames, next) ==
    \/ /\ out' = out \o frames
       /\ pc' = next
    \/ /\ ~peerReading
       /\ out' = out
       /\ pc' = "killed"

\* ws_upgrade (ws.c:471-477): the handshake of _ws_handshake (ws.c:294-333),
\* then _ws_create (ws.c:349-371) allocates ws->df and sends a PING.
Upgrade ==
    /\ pc = "upgrade"
    /\ \/ /\ ~hasKey
          /\ pc' = "done"
          /\ wsResult' = "error"
          /\ UNCHANGED <<out, dfCap>>
       \/ /\ hasKey
          /\ dfCap' = 0
          /\ Emit(<< [op |-> HS_101, fin |-> TRUE, payload |-> <<>>],
                     [op |-> OC_PING, fin |-> TRUE, payload |-> <<>>] >>, "read")
          /\ UNCHANGED wsResult
    /\ UNCHANGED <<toServer, sent, clientEOF, peerReading, hasKey, opcodePrev,
                   buffPtr, buffAlloc, buffLen, buffData, msgType>>

Incoming == Head(toServer)

\* The opcode a frame stands for: a CONT continues opcode_prev (ws.c:382-384).
EffectiveOpcode(f) == IF f.op = OC_CONT THEN opcodePrev ELSE f.op

\* Mutant: the reset of buff_len on a new message is lost.
MessageStartNoReset(f) == buffLen

\* buff_len once the frame is read: any frame but a CONT resets it (ws.c:385-387).
MessageStart(f) == IF f.op = OC_CONT THEN buffLen ELSE 0

\* The part of ws->buff that mem_append keeps.
MessageData(f) == SubSeq(buffData, 1, MessageStart(f))

\* opcode_prev after a frame that did not end the call (ws.c:425).
NextPrev(f, eff) == IF f.fin THEN NoOpcode ELSE eff

\* alloc_dataframe (ws.c:60-73): the capacity of ws->df after reading the
\* header of a frame with n chunks; it only reallocates to grow.
DfCapFor(n) == IF dfCap < n THEN n ELSE dfCap

\* Mutant: the new length is computed one short.
MemAppendOffByOne(len0, data0, p) ==
    LET n == len0 + Len(p) - 1
        failed == [ptr |-> "null", alloc |-> 0, len |-> len0, data |-> data0,
                   overflow |-> FALSE]
        grown(a) == [ptr |-> "heap", alloc |-> a, len |-> n, data |-> data0 \o p,
                     overflow |-> FALSE]
    IN  IF buffPtr = "null"
        THEN (IF MayFail(Len(p)) THEN {failed} ELSE {})
             \cup {IF len0 > 0 /\ Len(p) > 0
                   THEN [grown(Len(p)) EXCEPT !.overflow = TRUE]
                   ELSE grown(Len(p))}
        ELSE IF n = 0 THEN {failed}
        ELSE (IF MayFail(n) THEN {failed} ELSE {}) \cup {grown(n)}

(***************************************************************************)
(* mem_append(ws->buff, len0, payload, len, &ws->buff_len) (mem.c:5-20 as  *)
(* called at ws.c:419): the possible results, as records.  When the       *)
(* allocation fails it returns NULL, which the caller stores in ws->buff, *)
(* and buff_len keeps its old value.  With dest NULL it allocates only    *)
(* src_len bytes but still copies to dest + dest_len.                      *)
(***************************************************************************)
MemAppend(len0, data0, p) ==
    LET n == len0 + Len(p)
        failed == [ptr |-> "null", alloc |-> 0, len |-> len0, data |-> data0,
                   overflow |-> FALSE]
        grown(a) == [ptr |-> "heap", alloc |-> a, len |-> n, data |-> data0 \o p,
                     overflow |-> FALSE]
    IN  IF buffPtr = "null"
        THEN (IF MayFail(Len(p)) THEN {failed} ELSE {})
             \cup {IF len0 > 0 /\ Len(p) > 0
                   THEN [grown(Len(p)) EXCEPT !.overflow = TRUE]
                   ELSE grown(Len(p))}
        ELSE IF n = 0 THEN {failed}
        ELSE (IF MayFail(n) THEN {failed} ELSE {}) \cup {grown(n)}

\* Mutant: the message loop goes on reading after WS_ERROR.
ReadErrorRetry ==
    /\ pc' = "read"
    /\ wsResult' = "error"
    /\ dfCap' = NULL

\* read_dataframe failed (ws.c:188-192): ws->df is freed and set to NULL,
\* _ws_read returns WS_ERROR (ws.c:377-381).
ReadError ==
    /\ pc' = "free"
    /\ wsResult' = "error"
    /\ dfCap' = NULL

\* The header read hits the end of the stream (ws.c:111-114).
ReadEOF ==
    /\ pc = "read"
    /\ toServer = <<>>
    /\ clientEOF
    /\ ReadError
    /\ UNCHANGED <<toServer, sent, clientEOF, peerReading, hasKey, opcodePrev,
                   buffPtr, buffAlloc, buffLen, buffData, msgType, out>>

\* A client frame without the mask bit (ws.c:116-119).
ReadUnmasked ==
    /\ pc = "read"
    /\ toServer # <<>>
    /\ ~Incoming.masked
    /\ toServer' = Tail(toServer)
    /\ ReadError
    /\ UNCHANGED <<sent, clientEOF, peerReading, hasKey, opcodePrev,
                   buffPtr, buffAlloc, buffLen, buffData, msgType, out>>

\* alloc_dataframe's malloc/realloc returns NULL and df->size is written
\* through it (ws.c:63-67): the worker dies of SIGSEGV.
ReadAllocFails ==
    /\ pc = "read"
    /\ toServer # <<>>
    /\ Incoming.masked
    /\ dfCap < Len(Incoming.payload)
    /\ MayFail(Len(Incoming.payload))
    /\ toServer' = Tail(toServer)
    /\ pc' = "segv"
    /\ UNCHANGED <<sent, clientEOF, peerReading, hasKey, opcodePrev, dfCap,
                   buffPtr, buffAlloc, buffLen, buffData, msgType, wsResult, out>>

\* A masked frame has been read into ws->df (ws.c:120-186); what follows
\* is the switch of _ws_read on its effective opcode.
FrameRead ==
    /\ pc = "read"
    /\ toServer # <<>>
    /\ Incoming.masked
    /\ toServer' = Tail(toServer)
    /\ dfCap' = DfCapFor(Len(Incoming.payload))

\* Mutant: the frame is written back before its opcode is set to PONG.
ReadPingUnswitched ==
    /\ FrameRead
    /\ EffectiveOpcode(Incoming) = OC_PING
    /\ buffLen' = MessageStart(Incoming)
    /\ buffData' = MessageData(Incoming)
    /\ opcodePrev' = NextPrev(Incoming, OC_PING)
    /\ Emit(<< [op |-> OC_PING, fin |-> Incoming.fin, payload |-> Incoming.payload] >>,
            "read")
    /\ UNCHANGED <<sent, clientEOF, peerReading, hasKey, buffPtr, buffAlloc,
                   msgType, wsResult>>

\* case OC_PING (ws.c:394-399): the frame goes back as a PONG.
ReadPing ==
    /\ FrameRead
    /\ EffectiveOpcode(Incoming) = OC_PING
    /\ buffLen' = MessageStart(Incoming)
    /\ buffData' = MessageData(Incoming)
    /\ opcodePrev' = NextPrev(Incoming, OC_PING)
    /\ Emit(<< [op |-> OC_PONG, fin |-> Incoming.fin, payload |-> Incoming.payload] >>,
            "read")
    /\ UNCHANGED <<sent, clientEOF, peerReading, hasKey, buffPtr, buffAlloc,
                   msgType, wsResult>>

\* case OC_PONG (ws.c:400-403).
ReadPong ==
    /\ FrameRead
    /\ EffectiveOpcode(Incoming) = OC_PONG
    /\ buffLen' = MessageStart(Incoming)
    /\ buffData' = MessageData(Incoming)
    /\ opcodePrev' = NextPrev(Incoming, OC_PONG)
    /\ pc' = "read"
    /\ UNCHANGED <<sent, clientEOF, peerReading, hasKey, buffPtr, buffAlloc,
                   msgType, wsResult, out>>

\* case OC_CLOSE (ws.c:404-414): _ws_read returns, ws_wait says WS_CLOSE.
ReadClose ==
    /\ FrameRead
    /\ EffectiveOpcode(Incoming) = OC_CLOSE
    /\ buffLen' = MessageStart(Incoming)
    /\ buffData' = MessageData(Incoming)
    /\ pc' = "free"
    /\ wsResult' = "close"
    /\ UNCHANGED <<sent, clientEOF, peerReading, hasKey, opcodePrev, buffPtr,
                   buffAlloc, msgType, out>>

\* default (ws.c:389-392): a reserved opcode, or a CONT with no message
\* in progress; ws_wait maps the -1 to WS_ERROR.
ReadBadOpcode ==
    /\ FrameRead
    /\ EffectiveOpcode(Incoming) \notin {OC_PING, OC_PONG, OC_CLOSE, OC_TEXT, OC_BIN}
    /\ buffLen' = MessageStart(Incoming)
    /\ buffData' = MessageData(Incoming)
    /\ pc' = "free"
    /\ wsResult' = "error"
    /\ UNCHANGED <<sent, clientEOF, peerReading, hasKey, opcodePrev, buffPtr,
                   buffAlloc, msgType, out>>

\* case OC_TEXT / OC_BIN (ws.c:417-423): the payload is appended to ws->buff;
\* on FIN ws_wait returns the message, else the loop goes on.
ReadData ==
    /\ FrameRead
    /\ LET f == Incoming
           eff == EffectiveOpcode(f)
       IN /\ eff \in {OC_TEXT, OC_BIN}
          /\ \E r \in MemAppend(MessageStart(f), MessageData(f), f.payload) :
                /\ buffPtr' = r.ptr
                /\ buffAlloc' = r.alloc
                /\ buffLen' = r.len
                /\ buffData' = r.data
                /\ \/ /\ r.overflow
                      /\ pc' = "heap_overflow"
                      /\ UNCHANGED <<opcodePrev, msgType>>
                   \/ /\ ~r.overflow
                      /\ f.fin
                      /\ pc' = "echo"
                      /\ msgType' = eff
                      /\ UNCHANGED opcodePrev
                   \/ /\ ~r.overflow
                      /\ ~f.fin
                      /\ pc' = "read"
                      /\ opcodePrev' = eff
                      /\ UNCHANGED msgType
    /\ UNCHANGED <<sent, clientEOF, peerReading, hasKey, wsResult, out>>

(***************************************************************************)
(* dispatch_websocket on WS_MSG_TXT/WS_MSG_BIN (http.c:153-161): the bytes *)
(* of ws_get_msg (ws.c:534-539) go back through _ws_send_msg (ws.c:441-450),*)
(* whose alloc_dataframe dereferences a failed malloc and whose memcpy     *)
(* reads buff_len bytes from ws->buff.  The loop then calls ws_wait again, *)
(* with a fresh opcode_prev.                                               *)
(***************************************************************************)
Echo ==
    /\ pc = "echo"
    /\ \/ /\ MayFail(buffLen)
          /\ pc' = "segv"
          /\ UNCHANGED <<opcodePrev, out>>
       \/ /\ buffPtr = "null"
          /\ buffLen > 0
          /\ pc' = "segv"
          /\ UNCHANGED <<opcodePrev, out>>
       \/ /\ buffPtr = "heap"
          /\ buffLen > buffAlloc
          /\ pc' = "heap_overread"
          /\ UNCHANGED <<opcodePrev, out>>
       \/ /\ buffLen = 0 \/ (buffPtr = "heap" /\ buffLen <= buffAlloc)
          /\ opcodePrev' = NoOpcode
          /\ Emit(<< [op |-> msgType, fin |-> TRUE, payload |-> buffData] >>, "read")
    /\ UNCHANGED <<toServer, sent, clientEOF, peerReading, hasKey, dfCap, buffPtr,
                   buffAlloc, buffLen, buffData, msgType, wsResult>>

(***************************************************************************)
(* _ws_send_close (ws.c:429-439): one CLOSE frame whose 2-byte payload is *)
(* the status code.  alloc_dataframe writes df->size into its malloc      *)
(* before _ws_send_close can test it for NULL, so a failed malloc is a     *)
(* crash, not a false return.                                              *)
(***************************************************************************)
SendClose(code, next) ==
    LET closeFrame == [op |-> OC_CLOSE, fin |-> TRUE, payload |-> <<code>>]
    IN  IF MayFail(Len(closeFrame.payload))
        THEN pc' = "segv" /\ out' = out
        ELSE Emit(<<closeFrame>>, next)

\* ws_free (ws.c:507-518): ws_close(ws, WS_STATUS_GOING_AWAY) (ws.c:483-500)
\* sends a CLOSE frame (SendClose) and closes both streams; then the
\* scratch frame and the reassembly buffer are freed.
Free ==
    /\ pc = "free"
    /\ SendClose(WS_STATUS_GOING_AWAY, "done")
    /\ dfCap' = NULL
    /\ buffPtr' = "null"
    /\ buffAlloc' = 0
    /\ buffLen' = IF buffPtr = "heap" THEN 0 ELSE buffLen
    /\ UNCHANGED <<toServer, sent, clientEOF, peerReading, hasKey, opcodePrev,
                   buffData, msgType, wsResult>>

-----------------------------------------------------------------------------
(* The client. *)

ClientSend ==
    /\ pc \notin Ended
    /\ ~clientEOF
    /\ Len(sent) < MaxFrames
    /\ \E f \in ClientFrames :
          /\ toServer' = Append(toServer, f)
          /\ sent' = Append(sent, f)
    /\ UNCHANGED <<clientEOF, peerReading, hasKey, pc, opcodePrev, dfCap, buffPtr,
                   buffAlloc, buffLen, buffData, msgType, wsResult, out>>

ClientShutdown ==
    /\ pc \notin Ended
    /\ ~clientEOF
    /\ clientEOF' = TRUE
    /\ UNCHANGED <<toServer, sent, peerReading, hasKey, pc, opcodePrev, dfCap,
                   buffPtr, buffAlloc, buffLen, buffData, msgType, wsResult, out>>

ClientStopsReading ==
    /\ pc \notin Ended
    /\ peerReading
    /\ peerReading' = FALSE
    /\ UNCHANGED <<toServer, sent, clientEOF, hasKey, pc, opcodePrev, dfCap,
                   buffPtr, buffAlloc, buffLen, buffData, msgType, wsResult, out>>

ServerStep ==
    \/ Upgrade
    \/ ReadEOF \/ ReadUnmasked \/ ReadAllocFails
    \/ ReadPing \/ ReadPong \/ ReadClose \/ ReadBadOpcode \/ ReadData
    \/ Echo
    \/ Free

ClientStep == ClientSend \/ ClientShutdown \/ ClientStopsReading

Next == ServerStep \/ ClientStep

\* The worker is a process of its own, scheduled by the kernel: whenever it
\* can run (it is not blocked in the frame read) it eventually does.
Spec == Init /\ [][Next]_vars /\ WF_vars(ServerStep)

-----------------------------------------------------------------------------
(* Properties. *)

ServerFrame == [op : Opcodes \cup {HS_101}, fin : BOOLEAN,
                payload : Seq(Chunks \cup {WS_STATUS_GOING_AWAY})]

TypeOK ==
    /\ toServer \in Seq(ClientFrames)
    /\ sent \in Seq(ClientFrames)
    /\ Len(sent) <= MaxFrames
    /\ clientEOF \in BOOLEAN
    /\ peerReading \in BOOLEAN
    /\ hasKey \in BOOLEAN
    /\ pc \in {"upgrade", "read", "echo", "free"} \cup Ended
    /\ opcodePrev \in Opcodes \cup {NoOpcode}
    /\ dfCap \in {NULL} \cup Nat
    /\ buffPtr \in {"null", "heap"}
    /\ buffAlloc \in Nat
    /\ buffLen \in Nat
    /\ buffData \in Seq(Chunks)
    /\ msgType \in {OC_TEXT, OC_BIN}
    /\ wsResult \in {"none", "close", "error"}
    /\ out \in Seq(ServerFrame)

\* The messages the server echoed, in order.
EchoFrames == SelectSeq(out, LAMBDA fr : fr.op \in {OC_TEXT, OC_BIN})
EchoLog == [i \in 1 .. Len(EchoFrames) |->
               [type |-> EchoFrames[i].op, data |-> EchoFrames[i].payload]]

EchoSvc == INSTANCE WsEchoSpec
    WITH received <- Consumed, delivered <- EchoLog,
         closed <- pc \notin {"upgrade", "read", "echo"}, Frames <- ClientFrames

(* Refinement: the session implements the echo service of spec.md 4.6.    *)
(* Whatever the client sends, every message the worker writes back is the *)
(* next complete message of the frames it has read, assembled the way the *)
(* spec says (fragments concatenated, control frames transparent), and    *)
(* nothing is read once the session has ended.  This is about the         *)
(* buff/buff_len bookkeeping of _ws_read and mem_append and the echo of   *)
(* dispatch_websocket.                                                     *)
RefinesEchoSpec == EchoSvc!Spec

(* Every PING the worker read is answered by a PONG carrying the same      *)
(* payload, in the order of the PINGs, and nothing else is sent as a PONG *)
(* (the OC_PING case of _ws_read); only a worker that died on the way may *)
(* owe an answer.                                                          *)
PongPayloads == [i \in 1 .. Len(SelectSeq(out, LAMBDA fr : fr.op = OC_PONG)) |->
                    SelectSeq(out, LAMBDA fr : fr.op = OC_PONG)[i].payload]
PingPayloads(frames) ==
    LET pings == SelectSeq(frames, LAMBDA f : f.op = OC_PING /\ f.masked)
    IN  [i \in 1 .. Len(pings) |-> pings[i].payload]
PongsMatchPings ==
    /\ IsPrefix(PongPayloads, PingPayloads(Consumed))
    /\ pc \in {"read", "echo", "free", "done"} =>
          PongPayloads = PingPayloads(Consumed)

(* Once the client has shut down its side, the worker eventually leaves   *)
(* the session (the read at ws.c:111 fails and ws_free runs), or has died. *)
Termination == clientEOF ~> (pc \in Ended)

(* The session ends in WS_ERROR only where spec.md says the input is in    *)
(* error: a missing key, a truncated stream, or a frame that section 4.6  *)
(* rejects.  This is about the reset of buff_len and opcode_prev on every *)
(* non-CONT frame in _ws_read (ws.c:385-387, 425).                         *)
NoSpuriousError ==
    wsResult = "error" =>
        \/ ~hasKey
        \/ clientEOF /\ toServer = <<>>
        \/ EchoSvc!SpecRun(Consumed).outcome = "error"

(* The worker never writes past the end of a heap block or reads past it  *)
(* into a frame it sends: mem_append with a NULL ws->buff and a stale      *)
(* buff_len (mem.c:8-16, ws.c:419), and the echo memcpy (ws.c:446).        *)
NoHeapCorruption == pc \notin {"heap_overflow", "heap_overread"}

=============================================================================
