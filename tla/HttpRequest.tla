----------------------------- MODULE HttpRequest -----------------------------
(***************************************************************************)
(* One HTTP request served by a forked worker: http_client_connect and     *)
(* dispatch_http (src/src/http.c), with the path sandbox of PathSandbox,   *)
(* against a client that sends the request, trickles the body and may shut *)
(* down its side, and the worker's SIGINT/SIGTERM handler                  *)
(* (server-main.c:39-54), which closes the client descriptor.              *)
(*                                                                         *)
(* The request line and the header block are abstracted to their outcome  *)
(* (io_read_line_crlf, strtok and sscanf succeed or not; the headers that *)
(* matter are upgrade, expect and content-length).  The body is counted in *)
(* bytes, and so is the response body.  The response is the sequence of   *)
(* its parts: 100 Continue, status line, Content-Length, end of headers,  *)
(* one record per body byte.                                               *)
(***************************************************************************)
EXTENDS Integers, Sequences, SequencesExt

CONSTANTS
    FS, Dot, DotDot, MaxLinks,   \* the file system (see PathSandbox)
    StaticDir,       \* the --static-files argument, as a path
    IndexName,       \* the name "index.html"
    Uris,            \* request URIs, as sequences of names
    UpgradeValues,   \* values of the upgrade header, or Absent
    ExpectValues,    \* values of the expect header, or Absent
    Absent,          \* ht_get's NULL
    ContentLengths,  \* values atoi can return for content-length
    BodyMax          \* bytes of body the client sends at most

Sandbox == INSTANCE PathSandbox

\* HTTP_STATUS (http.c:22-33); NoReason is rsp_reason = NULL.
HTTP_OK == 200
HTTP_CREATED == 201
HTTP_BAD_REQUEST == 400
HTTP_NOT_FOUND == 404
HTTP_METHOD_NOT_ALLOWED == 405
NoReason == ""

\* http_method (http.c:64-76): anything but these four is M_UNKNOWN.
Methods == {"GET", "POST", "PUT", "DELETE", "UNKNOWN"}

(***************************************************************************)
(* Header values, as sequences of one-character strings; Absent (a model *)
(* value) is what ht_get returns for a header the request did not carry,  *)
(* NULL, which is not the empty string of a header sent without a value.  *)
(***************************************************************************)

\* WS_UPGRADE (ws.c:25) and HV_EXPECT_100_CONTINUE (http.c:85).
WS_UPGRADE == <<"w", "e", "b", "s", "o", "c", "k", "e", "t">>
HV_EXPECT_100_CONTINUE == <<"1", "0", "0", "-", "c", "o", "n", "t", "i", "n", "u", "e">>

\* tolower on the letters header values are made of here.
LowerOf == ("W" :> "w") @@ ("S" :> "s") @@ ("C" :> "c") @@ ("O" :> "o")
Lower(ch) == IF ch \in DOMAIN LowerOf THEN LowerOf[ch] ELSE ch

\* Mutant: the loop's end is taken for a match, whichever string ended.
RECURSIVE SzEqualPrefix(_, _)
SzEqualPrefix(a, b) ==
    IF a = Absent \/ b = Absent THEN a = b
    ELSE IF a # <<>> /\ b # <<>>
         THEN Lower(Head(a)) = Lower(Head(b)) /\ SzEqualPrefix(Tail(a), Tail(b))
         ELSE TRUE

(***************************************************************************)
(* sz_equal_ignore_case (sz.c:86-101): equal pointers, both NULL included, *)
(* are equal; one NULL is not; otherwise compare tolower of each byte      *)
(* while neither string has ended, then both must end together.           *)
(***************************************************************************)
RECURSIVE SzEqualIgnoreCase(_, _)
SzEqualIgnoreCase(a, b) ==
    IF a = Absent \/ b = Absent THEN a = b
    ELSE IF a # <<>> /\ b # <<>>
         THEN Lower(Head(a)) = Lower(Head(b)) /\ SzEqualIgnoreCase(Tail(a), Tail(b))
         ELSE a = <<>> /\ b = <<>>

\* ws_is_upgradable (ws.c:454-469): an upgrade header equal to "websocket".
WsIsUpgradable(upgrade) == upgrade # Absent /\ SzEqualIgnoreCase(upgrade, WS_UPGRADE)

\* The expect test of dispatch_http (http.c:177-178).
ExpectsContinue(expect) ==
    expect # Absent /\ SzEqualIgnoreCase(expect, HV_EXPECT_100_CONTINUE)

\* upgrade and expect are the values ht_get finds for those names.
Request == [line : {"ok", "bad"}, method : Methods, headersOk : BOOLEAN,
            upgrade : UpgradeValues, expect : ExpectValues, cl : ContentLengths,
            uri : Uris]

VARIABLES
    req,          \* the request the client sent
    pending,      \* body bytes sent and not yet read by the worker
    clientSent,   \* body bytes the client has sent
    clientFin,    \* the client has shut down its sending side
    sigClosed,    \* the signal handler has closed fd_client
    pc,           \* where the worker is
    code,         \* rsp_code
    reason,       \* rsp_reason
    cbTotal,      \* cb_total: body bytes read
    body,         \* req_body: "none", "live" or "freed"
    fileLeft,     \* bytes of the response file not yet copied
    rspFd,        \* rsp_fd >= 0
    out           \* the response as written, part by part

vars == <<req, pending, clientSent, clientFin, sigClosed, pc, code, reason,
          cbTotal, body, fileLeft, rspFd, out>>

\* The sandbox root fixed by http_init before the accept loop.
Root == Sandbox!HttpInit(StaticDir)

ASSUME Root # Sandbox!Fail

Ended == {"returned", "websocket", "segv", "abort"}

Init ==
    /\ req \in Request
    /\ pending = 0
    /\ clientSent = 0
    /\ clientFin = FALSE
    /\ sigClosed = FALSE
    /\ pc = "line"
    /\ code = HTTP_OK
    /\ reason = NoReason
    /\ cbTotal = 0
    /\ body = "none"
    /\ fileLeft = 0
    /\ rspFd = FALSE
    /\ out = <<>>

Status(c, r) == [k |-> "status", code |-> c, reason |-> r]

-----------------------------------------------------------------------------
(* The worker. *)

(***************************************************************************)
(* http_client_connect up to the headers (http.c:350-375): a request line *)
(* that cannot be read or split, or a bad version, returns 400; an        *)
(* unknown method returns 405.  Nothing is written in either case.        *)
(***************************************************************************)
ReadRequestLine ==
    /\ pc = "line"
    /\ \/ /\ req.line = "bad" \/ sigClosed
          /\ pc' = "returned"
          /\ code' = HTTP_BAD_REQUEST
       \/ /\ req.line = "ok" /\ ~sigClosed
          /\ req.method = "UNKNOWN"
          /\ pc' = "returned"
          /\ code' = HTTP_METHOD_NOT_ALLOWED
       \/ /\ req.line = "ok" /\ ~sigClosed
          /\ req.method # "UNKNOWN"
          /\ pc' = "headers"
          /\ UNCHANGED code
    /\ UNCHANGED <<req, pending, clientSent, clientFin, sigClosed, reason,
                   cbTotal, body, fileLeft, rspFd, out>>

\* parse_headers, then the choice of ws_is_upgradable (http.c:379-393).
ReadHeaders ==
    /\ pc = "headers"
    /\ \/ /\ ~req.headersOk \/ sigClosed
          /\ pc' = "returned"
          /\ code' = HTTP_BAD_REQUEST
       \/ /\ req.headersOk /\ ~sigClosed
          /\ pc' = IF WsIsUpgradable(req.upgrade) THEN "websocket" ELSE "dispatch"
          /\ UNCHANGED code
    /\ UNCHANGED <<req, pending, clientSent, clientFin, sigClosed, reason,
                   cbTotal, body, fileLeft, rspFd, out>>

\* The file a GET is answered with (http.c:238-265): "/" is "/index.html";
\* realpath_uri, then stat must show a regular file.
GetTarget ==
    LET uri == IF req.uri = <<>> THEN <<IndexName>> ELSE req.uri
    IN  Sandbox!RealPathUri(Root, uri)

Servable(p) == p # Sandbox!Fail /\ FS[p].kind = "file"

(***************************************************************************)
(* dispatch_http up to the body (http.c:169-266).  fp_out is a FILE on a   *)
(* dup of the descriptor; if the handler has already closed it, dup fails, *)
(* fdopen returns NULL, and the first fprintf on it crashes the worker.    *)
(* Then 100 Continue if asked for, and the switch on the method.          *)
(***************************************************************************)
Dispatch ==
    /\ pc = "dispatch"
    /\ \/ /\ sigClosed
          /\ pc' = "segv"
          /\ UNCHANGED <<code, reason, body, fileLeft, rspFd, out>>
       \/ /\ ~sigClosed
          /\ out' = IF ExpectsContinue(req.expect) THEN <<[k |-> "continue"]>> ELSE <<>>
          /\ \/ /\ req.method = "DELETE"
                /\ code' = HTTP_METHOD_NOT_ALLOWED
                /\ pc' = "respond"
                /\ UNCHANGED <<reason, body, fileLeft, rspFd>>
             \/ /\ req.method \in {"POST", "PUT"}
                /\ req.cl > 0
                /\ body' = "live"
                /\ pc' = "body"
                /\ UNCHANGED <<code, reason, fileLeft, rspFd>>
             \/ /\ req.method \in {"POST", "PUT"}
                /\ req.cl <= 0
                /\ code' = HTTP_CREATED
                /\ pc' = "respond"
                /\ UNCHANGED <<reason, body, fileLeft, rspFd>>
             \/ /\ req.method = "GET"
                /\ ~Servable(GetTarget)
                /\ code' = HTTP_NOT_FOUND
                /\ reason' = "Not Found"
                /\ pc' = "respond"
                /\ UNCHANGED <<body, fileLeft, rspFd>>
             \/ /\ req.method = "GET"
                /\ Servable(GetTarget)
                /\ code' = HTTP_OK
                /\ reason' = "OK"
                /\ fileLeft' = FS[GetTarget].size
                /\ rspFd' = TRUE
                /\ pc' = "respond"
                /\ UNCHANGED body
    /\ UNCHANGED <<req, pending, clientSent, clientFin, sigClosed, cbTotal>>

\* Mutant: a read that hits end of stream leaves rsp_code as it was.
ReadBodyEOFIgnored ==
    /\ pc = "body"
    /\ ~sigClosed /\ pending = 0 /\ clientFin
    /\ pc' = "respond"
    /\ code' = IF code = HTTP_OK THEN HTTP_CREATED ELSE code
    /\ UNCHANGED <<req, pending, clientSent, clientFin, sigClosed, reason,
                   cbTotal, body, fileLeft, rspFd, out>>

\* Mutant: a read that hits end of stream is not noticed; the loop spins.
ReadBodyEOFSpins ==
    /\ pc = "body"
    /\ ~sigClosed /\ pending = 0 /\ clientFin
    /\ UNCHANGED vars

\* The body loop (http.c:207-221): read() returns 0 at end of stream.
ReadBodyEOF ==
    /\ pc = "body"
    /\ ~sigClosed /\ pending = 0 /\ clientFin
    /\ pc' = "respond"
    /\ code' = HTTP_BAD_REQUEST
    /\ UNCHANGED <<req, pending, clientSent, clientFin, sigClosed, reason,
                   cbTotal, body, fileLeft, rspFd, out>>

\* Mutant: the result of read() is added to cb_total unchecked.
ReadBodyUnchecked ==
    /\ pc = "body"
    /\ \/ /\ ~sigClosed
          /\ \E n \in 1 .. Min({pending, req.cl - cbTotal}) :
                /\ cbTotal' = cbTotal + n
                /\ pending' = pending - n
                /\ IF cbTotal + n = req.cl
                   THEN pc' = "respond" /\ code' = HTTP_CREATED
                   ELSE UNCHANGED <<pc, code>>
       \/ /\ sigClosed
          /\ cbTotal' = cbTotal - 1
          /\ UNCHANGED <<pc, code, pending>>
    /\ UNCHANGED <<req, clientSent, clientFin, sigClosed, reason, body, fileLeft,
                   rspFd, out>>

(***************************************************************************)
(* The body loop (http.c:207-226): read() returns what has arrived, at   *)
(* most what is missing; once cb_total reaches content-length, rsp_code   *)
(* HTTP_OK becomes HTTP_CREATED.  On a closed descriptor read() fails:    *)
(* req_body is freed (and not set to NULL) and rsp_code is 400.           *)
(***************************************************************************)
ReadBody ==
    /\ pc = "body"
    /\ \/ /\ ~sigClosed
          /\ \E n \in 1 .. Min({pending, req.cl - cbTotal}) :
                /\ cbTotal' = cbTotal + n
                /\ pending' = pending - n
                /\ IF cbTotal + n = req.cl
                   THEN pc' = "respond" /\ code' = HTTP_CREATED
                   ELSE UNCHANGED <<pc, code>>
          /\ UNCHANGED body
       \/ /\ sigClosed
          /\ body' = "freed"
          /\ code' = HTTP_BAD_REQUEST
          /\ pc' = "respond"
          /\ UNCHANGED <<cbTotal, pending>>
    /\ UNCHANGED <<req, clientSent, clientFin, sigClosed, reason, fileLeft,
                   rspFd, out>>

(***************************************************************************)
(* The status line, Content-Length when positive, the blank line and a    *)
(* flush (http.c:268-279).  The reason phrase is rsp_reason, "" when NULL. *)
(***************************************************************************)
Respond ==
    /\ pc = "respond"
    /\ out' = out \o <<Status(code, reason)>>
                  \o (IF fileLeft > 0 THEN <<[k |-> "clen", n |-> fileLeft]>> ELSE <<>>)
                  \o <<[k |-> "eoh"]>>
    /\ pc' = IF rspFd THEN "copy" ELSE "cleanup"
    /\ UNCHANGED <<req, pending, clientSent, clientFin, sigClosed, code, reason,
                   cbTotal, body, fileLeft, rspFd>>

\* Mutant: the copy loop stops one block early.
CopyBlockShort ==
    /\ pc = "copy"
    /\ \/ /\ fileLeft > 1 /\ ~sigClosed
          /\ out' = Append(out, [k |-> "body"])
          /\ fileLeft' = fileLeft - 1
          /\ UNCHANGED <<pc, rspFd>>
       \/ /\ fileLeft <= 1 \/ sigClosed
          /\ pc' = "cleanup"
          /\ rspFd' = FALSE
          /\ UNCHANGED <<out, fileLeft>>
    /\ UNCHANGED <<req, pending, clientSent, clientFin, sigClosed, code, reason,
                   cbTotal, body>>

(***************************************************************************)
(* io_copy_stream(fd_out, rsp_fd, st_blksize) (io.c:14-29, called at     *)
(* http.c:281-287), one block per step, the block being one byte here.    *)
(* It writes to fd_out itself, not to the dup behind fp_out: once the     *)
(* handler has closed it, write fails and the copy returns (size_t)-1,    *)
(* which the caller's "< 0" never sees.  Then close(rsp_fd).              *)
(***************************************************************************)
CopyBlock ==
    /\ pc = "copy"
    /\ \/ /\ fileLeft > 0 /\ ~sigClosed
          /\ out' = Append(out, [k |-> "body"])
          /\ fileLeft' = fileLeft - 1
          /\ UNCHANGED <<pc, rspFd>>
       \/ /\ fileLeft = 0 \/ sigClosed
          /\ pc' = "cleanup"
          /\ rspFd' = FALSE
          /\ UNCHANGED <<out, fileLeft>>
    /\ UNCHANGED <<req, pending, clientSent, clientFin, sigClosed, code, reason,
                   cbTotal, body>>

\* free(req_body) if non-NULL, fclose(fp_out), return (http.c:289-295);
\* glibc aborts the process on a second free of the same block.
Cleanup ==
    /\ pc = "cleanup"
    /\ pc' = IF body = "freed" THEN "abort" ELSE "returned"
    /\ body' = IF body = "live" THEN "none" ELSE body
    /\ UNCHANGED <<req, pending, clientSent, clientFin, sigClosed, code, reason,
                   cbTotal, fileLeft, rspFd, out>>

-----------------------------------------------------------------------------
(* The client and the signal. *)

ClientSendByte ==
    /\ pc \notin Ended
    /\ ~clientFin
    /\ clientSent < BodyMax
    /\ clientSent' = clientSent + 1
    /\ pending' = pending + 1
    /\ UNCHANGED <<req, clientFin, sigClosed, pc, code, reason, cbTotal, body,
                   fileLeft, rspFd, out>>

ClientShutdown ==
    /\ pc \notin Ended
    /\ ~clientFin
    /\ clientFin' = TRUE
    /\ UNCHANGED <<req, pending, clientSent, sigClosed, pc, code, reason, cbTotal,
                   body, fileLeft, rspFd, out>>

\* SIGINT/SIGTERM reach the worker: sigint_handler_child closes _fd_client
\* (server-main.c:45-51); a blocked read is restarted and then fails.
SignalClose ==
    /\ pc \notin Ended
    /\ ~sigClosed
    /\ sigClosed' = TRUE
    /\ UNCHANGED <<req, pending, clientSent, clientFin, pc, code, reason, cbTotal,
                   body, fileLeft, rspFd, out>>

Worker ==
    \/ ReadRequestLine \/ ReadHeaders \/ Dispatch
    \/ ReadBodyEOF \/ ReadBody
    \/ Respond \/ CopyBlock \/ Cleanup

Next == Worker \/ ClientSendByte \/ ClientShutdown \/ SignalClose

\* The worker runs whenever it is not blocked in read().
Spec == Init /\ [][Next]_vars /\ WF_vars(Worker)

-----------------------------------------------------------------------------
(* Properties. *)

Part == {[k |-> "continue"], [k |-> "eoh"], [k |-> "body"]}
        \cup [k : {"status"}, code : {HTTP_OK, HTTP_CREATED, HTTP_BAD_REQUEST,
                                      HTTP_NOT_FOUND, HTTP_METHOD_NOT_ALLOWED},
              reason : {NoReason, "OK", "Not Found"}]
        \cup [k : {"clen"}, n : Nat]

TypeOK ==
    /\ req \in Request
    /\ pending \in Nat /\ clientSent \in 0 .. BodyMax
    /\ clientFin \in BOOLEAN /\ sigClosed \in BOOLEAN
    /\ pc \in {"line", "headers", "dispatch", "body", "respond", "copy", "cleanup"}
                \cup Ended
    /\ cbTotal \in Nat
    /\ body \in {"none", "live", "freed"}
    /\ fileLeft \in Nat /\ rspFd \in BOOLEAN
    /\ out \in Seq(Part)

StatusLines == SelectSeq(out, LAMBDA p : p.k = "status")
BodyBytes == Len(SelectSeq(out, LAMBDA p : p.k = "body"))
Announced == LET cl == SelectSeq(out, LAMBDA p : p.k = "clen")
             IN  IF cl = <<>> THEN 0 ELSE cl[1].n

\* The status spec.md 4.4 gives the request, once the body has been read
\* as far as the worker read it.
SpecCode ==
    CASE req.line = "bad" \/ ~req.headersOk -> HTTP_BAD_REQUEST
      [] req.method \in {"UNKNOWN", "DELETE"} -> HTTP_METHOD_NOT_ALLOWED
      [] req.method \in {"POST", "PUT"} ->
            IF req.cl > 0 /\ cbTotal < req.cl THEN HTTP_BAD_REQUEST ELSE HTTP_CREATED
      [] OTHER -> IF Servable(GetTarget) THEN HTTP_OK ELSE HTTP_NOT_FOUND

(* Every status line the worker writes carries the code spec.md 4.4 gives *)
(* the request: 201 only for a POST/PUT whose content-length bytes all     *)
(* arrived, 400 when the body was cut short by end of stream or a failed   *)
(* read, 200 only for a regular file inside the sandbox.  This is about    *)
(* the body loop of dispatch_http and how it sets rsp_code (http.c:202-230). *)
StatusAsSpecified ==
    \A i \in 1 .. Len(StatusLines) : StatusLines[i].code = SpecCode

\* Equal ignoring case, as spec.md 4.6 and 4.4 read it: present, of the
\* same length, and equal letter by letter once both are lower-cased.
CaseInsensitiveEqual(v, w) ==
    /\ v # Absent /\ w # Absent
    /\ Len(v) = Len(w)
    /\ \A i \in 1 .. Len(v) : Lower(v[i]) = Lower(w[i])

Continue == [k |-> "continue"]

(* The worker hands the connection to the WebSocket session exactly when  *)
(* the upgrade header equals "websocket" ignoring case (spec.md 4.6), and  *)
(* a response opens with 100 Continue exactly when the expect header       *)
(* equals "100-continue" ignoring case (spec.md 4.4 step 5), a prefix or   *)
(* an extension of either word being no match.  About ws_is_upgradable     *)
(* (ws.c:454-469), the expect test of dispatch_http (http.c:177-182) and   *)
(* the byte loop of sz_equal_ignore_case (sz.c:86-101).                    *)
HeaderPredicatesAsSpecified ==
    /\ pc = "websocket" => CaseInsensitiveEqual(req.upgrade, WS_UPGRADE)
    /\ pc \in {"dispatch", "body", "respond", "copy", "cleanup"}
          => ~CaseInsensitiveEqual(req.upgrade, WS_UPGRADE)
    /\ \A i \in DOMAIN out : out[i] = Continue => i = 1
    /\ StatusLines # <<>> =>
          (out[1] = Continue <=> CaseInsensitiveEqual(req.expect, HV_EXPECT_100_CONTINUE))

(* A response never carries more body bytes than its Content-Length, and  *)
(* a response the worker finished on an open connection carries exactly  *)
(* that many: the Content-Length taken from stat and the copy loop of      *)
(* io_copy_stream agree (http.c:263, 281-287, io.c:14-29).                 *)
BodyAsAnnounced ==
    /\ BodyBytes <= Announced
    /\ pc = "returned" /\ ~sigClosed => BodyBytes = Announced

(* Once the client has shut down its side, or the worker's descriptor has *)
(* been closed, the worker finishes the request: no read in                *)
(* http_client_connect or the body loop waits forever.                     *)
Termination == (clientFin \/ sigClosed) ~> (pc \in Ended)

(* A 200 response only serves a file inside the static-files directory,   *)
(* the purpose of the containment check of realpath_uri (http.c:48-55).    *)
ServedWithinRoot ==
    \A i \in 1 .. Len(StatusLines) :
        StatusLines[i].code = HTTP_OK => Sandbox!Within(GetTarget, Root)

(* The worker never frees req_body twice: the read error path of the body  *)
(* loop (http.c:209-214) and the cleanup (http.c:289-291).                 *)
NoDoubleFree == pc # "abort"

=============================================================================
