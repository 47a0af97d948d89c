# TLA+ models of nuthatch

nuthatch (`src/src/`) is a small C server that speaks HTTP/1.1 and WebSocket
(RFC 6455) on one port. It serves static files from a sandboxed directory and
echoes WebSocket messages. This directory holds TLA+ models of its parts,
the TLC configurations that check them, and `PROJECT.json`, which maps every
model definition to the source lines it stands for.

## The system

| Part | Source | What it does |
|---|---|---|
| C1 line reader | `io.c` `io_read_line_crlf` | reads a CRLF line one byte at a time into a bounded buffer |
| C2 header parser | `http.c` `parse_headers`, `ht.c` | splits `Name: Value` lines into a hash table |
| C3 path sandbox | `http.c` `http_init`, `realpath_uri` | canonicalises `root || uri` and checks it starts with the root |
| C4 request handler | `http.c` `http_client_connect`, `dispatch_http` | request line, headers, then WebSocket or GET/POST/PUT |
| C5 frame codec | `ws.c` `read_dataframe`, `write_dataframe` | frame header, length encodings, mask |
| C6 WebSocket session | `ws.c` `_ws_read` and the public `ws_*`, `mem.c`, `http.c` `dispatch_websocket` | handshake, message loop, echo, close |
| C7 dispatcher | `server-main.c` `server` | start-up, select/accept loop, inline or forked worker, signals |
| CLI | `server-main.c` `main`, `net.c`, `io.c` `io_is_dir` | the command line: options, port, ip address; the exit status |
| C8 hash table | `ht.c` | chained hash table of header names |
| C8 other utilities | `sz.c`, `log.c`, `rnd.c` | strings, logging |

The CLI starts C7. Data flows C7 → C4 → {static file | C6}; C6 uses C5 for every frame. The
server is multi-process: the listener runs alone and each connection is
served inline or by a forked worker. A worker has one thread. What runs
concurrently is the worker and its peer, and the listener, its children and
the signals sent to them.

### State and operations

* **C6 session.**
  * State: `Websocket_S` holds the two `FILE*`s, the scratch frame `df`
    (grow-only), the reassembly buffer `buff`/`buff_len` and the close
    status. `_ws_read` keeps `opcode_prev` in a local.
  * Operations: `ws_upgrade` (handshake, then a PING), `ws_wait`/`_ws_read`
    (one frame per loop turn), `ws_get_msg`, `ws_send_msg`, `ws_close` and
    `ws_free`. The driver, `dispatch_websocket`, echoes every message.
* **C4 handler.**
  * State: the request line, the headers, the body buffer, the response
    code and reason, and the response file.
  * It can stop at any of these steps.
* **C7 dispatcher.**
  * State: `shutdown_server`, the listen socket and the set of children.
  * Operations: accept, fork, reap and shut down.

### Hard behaviours

* **Peer and worker interleaving.** What the client sends arrives between
  the worker's reads. A PING may arrive inside a fragmented message.
* **Allocation failure.** `alloc_dataframe` and `mem_append` allocate
  lengths chosen by the client and handle a failure badly.
* **A peer that stops reading.** The write raises SIGPIPE, which is never
  ignored.
* **No timeouts.** A silent client holds a worker forever.
* **Signals.** They reach the listener and its children while those are
  blocked in I/O.

## Modules

### `WsEchoSpec`: what a WebSocket session promises

This is the abstract specification, written from spec.md 4.5/4.6 and not
from the code.

* `SpecRun(frames)` folds the message loop of 4.6 over the frames read:
  * control frames reply or count, and leave the fragment state alone;
  * a data frame starts a message, CONT frames extend it, and FIN completes
    it;
  * an unmasked frame, an orphan CONT or an unknown opcode is an error.
* The state machine has three actions: `Receive` takes a frame off the wire,
  `Deliver` echoes the next complete message of `SpecRun`, and `Close` ends
  the session.

### `WsSession`: one connection, `ws.c` + `mem.c` + `dispatch_websocket`

`pc` is where the single-threaded worker is. Each server action is the code
between two blocking frame reads, or one stage of `dispatch_websocket`.

| Action | Code |
|---|---|
| `Upgrade` | `_ws_handshake` + `_ws_create`: the 101 and the PING, or no key ⇒ no session |
| `ReadEOF`, `ReadUnmasked`, `ReadAllocFails` | `read_dataframe` failing: end of stream, mask bit, NULL from `alloc_dataframe` (SIGSEGV) |
| `ReadPing`, `ReadPong`, `ReadClose`, `ReadBadOpcode`, `ReadData` | the cases of the switch in `_ws_read`, each with the buff_len reset of ws.c:385 and the `opcode_prev` update of ws.c:425 |
| `Echo` | `ws_get_msg` + `_ws_send_msg` in the driver |
| `Free` | `ws_free` → `ws_close`: the CLOSE frame, both streams closed, the buffers freed |
| `SendClose` | `_ws_send_close`: the CLOSE frame with its status code; a failed `alloc_dataframe` malloc crashes before the NULL check |
| `ClientSend`, `ClientShutdown`, `ClientStopsReading` | the peer |

Data is abstracted:

* A payload is a sequence of chunks, which are model values.
* Sizes are counted in chunks.
* The scratch frame is only its capacity `dfCap`.
* The reassembly buffer is `buffPtr` (NULL or a heap block), `buffAlloc`
  (the block's size), `buffLen` (`buff_len`) and `buffData` (its first
  `buffLen` chunks).

`MemAppend` gives the possible results of `mem_append` under glibc:
`malloc(0)` returns a block, and `realloc(p, 0)` frees it and returns NULL.
An allocation of more than `AllocLimit` chunks may fail. `Emit` is a
`write_dataframe` plus its `fflush`: the bytes are appended to `out`, or,
if the client has stopped reading, the worker dies of SIGPIPE.

The refinement mapping to `WsEchoSpec` is:

* `received` is the frames the worker has consumed;
* `delivered` is the TEXT/BIN frames the worker wrote;
* `closed` is "the worker has left the message loop".

### `FrameCodec`: `write_dataframe`, `read_dataframe`, `alloc_dataframe`

The stream between a client's `write_dataframe` and the server's
`read_dataframe` is a sequence of runs. A run `[n, pat]` is `n` bytes whose
byte `i` is `pat[i mod 4]`, and a header byte is a run of one. The mask XORs
byte `i` with `mask_key[i % 4]`, so a masked payload is again a run. Lengths
of 65535 and 65536 therefore cost no more states than lengths of 2.

| Definition | Code |
|---|---|
| `HeaderWord` | the two bit-field bytes of `Data_Frame_Header_S`, laid out by GCC from bit 0: opcode, rsv3..rsv1 (always 0), fin; len, mask |
| `HeaderBytes`, `BigEndian` | the 7-bit length up to 125, 126 with 16 bits up to 0xFFFF, otherwise 127 with 64 bits, big-endian (`htobe16`/`htobe64`) |
| `MaskPat`, `Encode`, `Write` | the whole of one `write_dataframe`: header, mask key, masked payload |
| `Crash`, `Close` | the writer dies between two `fwrite`s or mid-payload, or closes its end |
| `ReadHeader` | `fread` of the header and the mask-bit check (ws.c:111-119) |
| `ReadExt16`, `ReadExt64` | the extended length with `be16toh`/`be64toh`, and the top-bit check |
| `ReadMask` | `fread` of the mask key |
| `Alloc` | `alloc_dataframe`: malloc when `df` is NULL, realloc when it is too small. Neither result is checked, so a failure is `rpc = "segv"` |
| `ReadPayload` | `fread` of the payload and unmasking in place |
| `OnError` | the `on_error` path: `df` is freed and NULL returned |

Each `fread` that finds the stream ended before its bytes fails. That is the
`Eof` disjunct of each read action.

### `PathSandbox`: `http_init` and `realpath_uri`

The path sandbox is pure, so it is a set of operators, not a state machine.

* A path is a sequence of names, and a name is a sequence of characters.
  `PathBytes` puts a "/" before each name. The containment test compares
  those bytes, as `sz_starts_with` does.
* `FS` is a small file tree. It maps canonical paths to directories, files
  with a size, and symbolic links.
* `Canon` is `realpath(3)`, written as a recursive operator:
  * "." and ".." are resolved one component at a time;
  * a symbolic link restarts resolution at its target, up to `MaxLinks`
    times;
  * a missing component, or a file used as a directory, fails.
* `HttpInit` refuses a root that fails to resolve, is "/", or is not a
  directory. `RealPathUri` is `realpath_uri`.

### `HttpRequest`: one request, `http_client_connect` + `dispatch_http`

The worker is one process. Its client sends the request, trickles the body
and may shut down its side. The worker's SIGINT/SIGTERM handler
(`sigint_handler_child`) may close the client descriptor at any point.

| Action | Code |
|---|---|
| `ReadRequestLine` | request line read and split, version, `http_method`; 400/405 return early |
| `ReadHeaders` | `parse_headers` outcome, then `ws_is_upgradable` (`WsIsUpgradable`, with `SzEqualIgnoreCase` for `sz_equal_ignore_case`) |
| `Dispatch` | `fdopen(dup(fd))`, 100 Continue, the method switch; a GET resolves its target through `PathSandbox` |
| `ReadBody`, `ReadBodyEOF` | one `read()` of the POST/PUT body loop: bytes, end of stream, or failure on a closed descriptor |
| `Respond` | status line, Content-Length, blank line, flush |
| `CopyBlock` | one block of `io_copy_stream` |
| `Cleanup` | `free(req_body)`, `fclose`; glibc aborts on a double free |
| `ClientSendByte`, `ClientShutdown`, `SignalClose` | the peer and the signal |

The request line and headers are abstracted to their parsed outcome. The
request is drawn from the set `Request`: line ok or bad, the method, whether
the headers parse, the values of the `upgrade` and `expect` headers (byte
sequences from `UpgradeValues` and `ExpectValues`, or `Absent` for
`ht_get`'s NULL), `atoi(Content-Length)`, and a URI from `Uris`. The two
header values are compared with `"websocket"` and `"100-continue"` by a
model of `sz_equal_ignore_case`'s byte loop. The response is modelled as the sequence of parts written.

### `HeaderReader`: `io_read_line_crlf` + `parse_headers` + `ht.c`

* The stream is fixed at the start. It is up to `MaxLines` lines from
  `Lines`, each ended by CR LF, followed by the empty line or by end of
  stream.
* `ReadByte` is one `read(fd, &ch, 1)` of the line reader. It checks the
  length first, then tests CR LF, then stores the byte. When a line
  completes, the same step runs the body of the `parse_headers` loop:
  * `strtok` (`StrTok`, with the same skipping and NUL-splitting rules);
  * `sz_to_lower` and `sz_trim`;
  * `ht_put`.
* The table is `ht.c`'s: chains indexed by `ht_hash_sz(key) % nhash`
  (`Hash`, `Bucket`), with `nhash = 1021` from `ht_create(0, ...)`.
  `HtPut` walks the chain, replaces the value of an equal key and keeps
  the old key, or pushes a new entry on the front and counts it. `HtGet`
  returns the first match. Only the buckets in use are stored.
* `ReadEOF` and the too-long branch free the table, as does `FreeHeaders`.
  A key is freed at its offset in its block. An offset other than 0 is a
  `free()` of an interior pointer, and glibc aborts.

### `Dispatcher`: the listener loop of `server-main.c`

| Action | Code |
|---|---|
| `Top` | the loop head: the flag is set ⇒ shutdown, close and `exit(0)`; otherwise `do_server_maintenance` reaps every zombie |
| `Select` | `select` with its 1 s timeout: a queued connection ⇒ accept; otherwise the loop goes round (timeout, or EINTR from SIGCHLD) |
| `Accept` | `accept`, which on failure sets `shutdown_server`; `ioctl(FIONBIO)`, whose failure returns 1 out of `server()` (`lpc = "returned"`); then inline serving, or `fork` (whose -1 is taken for the parent) |
| `ChildStart` | a forked worker installs `sigint_handler_child` and only then stores its descriptor in `_fd_client` (server-main.c:150-156) |
| `InlineDone`, `ChildExit` | the inline request or a worker ends, when its client is done |
| `Connect` | a client connects and is queued |
| `SignalListener`, `SignalGroup` | SIGINT/SIGTERM to the listener, or to the group (each running worker's handler closes its descriptor) |

A request is abstracted to its end. Its details are in `HttpRequest` and
`WsSession`.

### `ServerMain`: `main` and the start of `server()`

`ServerMain` EXTENDS `Dispatcher` and adds main's variables (`argv`,
`iarg`, `port`, `addr`, `staticDir`). `lpc` starts at `"main"`. Dispatcher
steps are taken only once the start-up has reached `"top"`.
`ShutdownStopsForked` reads `useFork`, which here is main's `use_fork`: it starts
TRUE and is cleared by `--no-fork`.

An argument is a sequence of symbols. Digits, `-`, `+` and `.` stand for
themselves, because `atoi` and `strtok` act on them. Any other symbol
stands for a run of other characters, such as `"web"` for a path.

| Definition | Code |
|---|---|
| `DigitsValue`, `Atoi` | `atoi`: an optional sign, then the leading digits |
| `Tokens` | `strtok(s, ".")` repeated: the non-empty runs between dots |
| `NetAtoipv4`, `InvalidAddr` | `net_atoipv4`: the 15-character limit, four tokens, `& 0xFF`; `(uint32_t)-1` is kept as the octets 255.255.255.255 |
| `IoIsDir` | `io_is_dir` |
| `ParseArg` | one turn of main's loop: `--debug`, `--no-fork`, `--static-files` (missing argument, not a directory), an unknown option, the port, the address, an extra argument |
| `EndArgs` | the usage check after the loop |
| `HttpInitFails`, `Startup` | `server()` up to the loop: `http_init`, then socket, setsockopt, ioctl, bind and listen, any of which may fail; main drops the 1 that `server()` returns |

## Runs

| Run | cfg | Expect | Checks |
|---|---|---|---|
| `ws_echo` | `MC_WsSession.cfg` | pass | `TypeOK`, `PongsMatchPings`, `Termination` |
| `ws_refines` | `MC_WsSession_Refines.cfg` | pass | `RefinesEchoSpec` |
| `ws_spurious_error` | `MC_WsSession_NoSpuriousError.cfg` | violation | `NoSpuriousError` |
| `ws_heap_overflow` | `MC_WsSession_NoHeapCorruption.cfg` | violation | `NoHeapCorruption` |
| `ws_codec` | `MC_FrameCodec.cfg` | pass | `DeliversAcceptedFrames`, `HeaderAsSpecified`, `ReaderDrains` |
| `http_request` | `MC_HttpRequest.cfg` | pass | `TypeOK`, `StatusAsSpecified`, `BodyAsAnnounced`, `HeaderPredicatesAsSpecified`, `Termination` |
| `http_sandbox_escape` | `MC_HttpRequest_ServedWithinRoot.cfg` | violation | `ServedWithinRoot` |
| `http_double_free` | `MC_HttpRequest_NoDoubleFree.cfg` | violation | `NoDoubleFree` |
| `hdr_parse` | `MC_HeaderReader.cfg` | pass | `TypeOK`, `ReaderAsSpecified`, `LastValueWins`, `OneEntryPerName` |
| `hdr_invalid_free` | `MC_HeaderReader_NoInvalidFree.cfg` | violation | `NoInvalidFree` |
| `dispatch` | `MC_ServerMain.cfg` | pass | `Reaped`, `ShutdownStopsForked`, `QueuedAcceptedForked` |
| `cli_exit_status` | `MC_ServerMain_ExitStatus.cfg` | violation | `ExitStatusAsSpecified` |

### WebSocket session

* **`ws_echo`** covers every sequence of up to 4 client frames, from a set of
  12 chosen to reach every case of `_ws_read`, with allocations that may
  fail. It shows two things:
  * every PING read is answered by a PONG with its payload, in order
    (`PongsMatchPings`);
  * once the client shuts down, the worker leaves the session
    (`Termination`).
* **`ws_refines`** uses the same frames, but no allocation of up to 2 chunks
  fails. It shows that the echo is exactly the spec's message stream.
  `RefinesEchoSpec` is checked as a refinement of `WsEchoSpec!Spec`.
* **`ws_spurious_error`** is a violation. The sequence TEXT(fin=0), PING,
  CONT ends the session with WS_ERROR, because `_ws_read` resets `buff_len`
  and `opcode_prev` on the PING. spec.md 4.6 says a control frame between
  fragments must not disturb either.
* **`ws_heap_overflow`** is a violation. The sequence is TEXT(fin=0, 1
  chunk), then a CONT whose `realloc` fails, then another CONT.
  `mem_append(NULL, 1, ...)` mallocs 1 chunk and writes at offset 1: a heap
  overflow. With an empty CONT, it is a heap over-read in the echo instead.
  The same unchecked `mem_append` also loses messages. With
  `AllocLimit = 1`, `RefinesEchoSpec` is violated: a BIN frame of 2 chunks
  whose allocation fails is still reported complete, and it is echoed empty.
  This is why `ws_refines` uses 2.

### Frame codec

* **`ws_codec`** covers two frames written by `write_dataframe` and read back
  by `read_dataframe`. The frames are the opcodes and lengths of the
  `ws_dataframe_io_round_trip` test (0, 2, 125, 126, 65535 and 65536), with
  the test's mask key or no mask. The writer may die anywhere in a frame.
  The run shows three things:
  * `DeliversAcceptedFrames`: every frame returned is the frame written,
    with the unmasked payload. Nothing is returned from an unmasked frame
    onwards.
  * `HeaderAsSpecified`: every header has the size spec.md 10 property 3
    gives for its length. A writer that used 16 bits for 125 would still
    round-trip, so only this property catches it.
  * `ReaderDrains`: once the writer has closed, every whole frame is
    returned, and then the reader fails at the end of the stream.

  A 16-bit length read without `be16toh` still round-trips 65535 (0xFFFF).
  Its mutant is caught through 126.

### HTTP request

* **`http_request`** covers every request of the set in `MC_HttpRequest`
  against every client and signal behaviour:
  * `StatusAsSpecified`: every status line carries the code spec.md 4.4
    gives;
  * `BodyAsAnnounced`: a response body never exceeds its Content-Length,
    and a response finished on an open connection matches it exactly;
  * `HeaderPredicatesAsSpecified`: the worker hands over to the WebSocket
    session exactly when `upgrade` equals `websocket` ignoring case, and
    opens the response with 100 Continue exactly when `expect` equals
    `100-continue` ignoring case. The reference reading lower-cases both
    strings and compares them whole. The values include a mixed-case form
    and a prefix of each word, so a comparison that stops when the shorter
    string ends is caught;
  * `Termination`: once the client shuts down or the signal closes the
    descriptor, the worker finishes.

  The request set covers:
  * a bad line, an unknown method and bad headers;
  * DELETE;
  * POST/PUT with Content-Length -1, 0 and 2;
  * GET of a file, an empty file, a directory, a missing path, a path
    through a symlink, and a path outside the root.
* **Unanswered bad requests.** A bad request line, an unknown method or
  bad headers make `http_client_connect` return 400/405 without writing
  anything. spec.md 4.4/7 and scenario S4 expect a status line.
  `HttpRequest` models these early returns: `pc` reaches `returned` with
  no status line. The divergence shows on the first bad request, so
  scenario S4 already exercises it, and no run states it. It is listed as
  a hazard in `PROJECT.json`.
* **`http_sandbox_escape`** is a violation. With root `/s/w`, `GET
  /../wx/f` serves `/s/wx/f`. The byte-prefix check that spec.md 4.3 asks
  for accepts a sibling directory whose name extends the root's.
* **`http_double_free`** is a violation. A shutdown signal during a POST body
  read closes the descriptor, and the restarted `read()` fails with EBADF.
  `req_body` is freed in the loop and again at cleanup, and glibc aborts
  the worker.

### Header reader

* **`hdr_parse`** covers up to 3 lines from `MC_HeaderReader`. The set has
  the following lines:
  * duplicate names in both cases;
  * a missing value;
  * an LF inside a line;
  * a leading ':';
  * lines one and two bytes too long;
  * `c0:a` and `an:b`, whose names have the same `ht_hash_sz`, 3117, and
    so share a chain at any `nhash`.

  The stream is ended by the empty line or cut short. It shows three
  things:
  * `ReaderAsSpecified`: the reader returns exactly the lines of a recursive
    reference definition of spec.md 4.1, and it fails only at end of stream
    or on a line that does not fit.
  * `LastValueWins`: `ht_get` finds every stored name, lower-cased, with
    the value of its last line, and the table holds no other name.
  * `OneEntryPerName`: every entry is in the chain of its hash, no chain
    holds a name twice, and `size` counts the entries. The mutant compares
    only the head of a chain. It is caught only because `c0`, `an`, `c0`
    repeats a name that is no longer at the head.

  spec.md 4.1 says "N−1 bytes buffered". The code counts the CR among
  them, and the check uses that reading.
* **`hdr_invalid_free`** is a violation. A line such as `:b:a` is stored
  under a key one byte into its `strndup` block, and `ht_clear` frees that
  key. glibc aborts.

### Dispatcher

* **`dispatch`** starts from main. The command lines take every branch of
  the argument loop. Two of them start the server, one forked and one
  inline, and start-up may fail. The run then covers three clients. Accept,
  the `ioctl` after it, and fork may fail, and a shutdown signal may reach
  the listener, or the whole group, at any point. It shows two things:
  * every exited worker is reaped while the listener runs (`Reaped`). This
    relies on the 1 s select timeout, which makes the loop go round on an
    idle server.
  * with forked workers, the listener always exits once `shutdown_server`
    is set (`ShutdownStopsForked`).
  * with forked workers, every connection waiting in the listen queue is
    accepted unless the listener stops (`QueuedAcceptedForked`). select
    reports the ready socket within its timeout, accept takes the head of
    the queue, and a forked worker never holds the listener up. In
    `--no-fork` mode this fails as soon as one client stays connected.
* **In `--no-fork` mode** the shutdown is not checked. The listener is
  inside `http_client_connect` and the handler only sets the flag, so a
  client that keeps its connection open (a WebSocket session, say) keeps
  the server from shutting down. spec.md 5 says the acceptor is cancellable
  within 1 s. `ShutdownStopsForked` fails in this mode as soon as a client
  stays connected, so the run states it for forked serving only.
* **Workers that miss the shutdown.** spec.md 5 says a worker closes its
  peer socket and exits on SIGTERM. A forked worker is `"forked"` until
  `ChildStart`. A group signal in that window runs the inherited
  `sigint_handler`, or `sigint_handler_child` while `_fd_client` is still 0.
  Neither closes the descriptor, so `SignalGroup` puts only running workers
  in `signalled`. Such a worker serves on after the listener has exited,
  for as long as its client stays. This is a divergence from spec.md 5.
  It is recorded as the hazard at server-main.c:156 and not given a run of
  its own.
* **`cli_exit_status`** is a violation of spec.md 6: exit status 1 on an
  argument error or a start-up failure, 0 on an orderly shutdown.
  `ArgumentError` reads the command line as spec.md 6 describes it. Under
  that reading a port is 1..65535 and an address is a dotted quad of
  0..255. TLC finds the shortest case: with the command line `80`, bind
  fails, `server()` returns 1, and main, which drops the value and has no
  return statement, exits with 0. The same property is also violated by:
  * `70000`, which is accepted and bound as port 4464;
  * `80 255.255.255.255`, which is refused because it equals
    `INVALID_ADDR`;
  * `80 x.x.x.x`, which is accepted as 0.0.0.0.

Each property of a passing run has a mutant in `PROJECT.json`. A mutant is
a plausible bug in the definition a property depends on, and TLC finds it.

## Bounds

* **WebSocket.** Four frames are enough for every case:
  * a fragmented message with an interleaved control frame and a failed
    append needs three frames;
  * an echo followed by an error needs four.

  `AllocLimit = 1` lets exactly the allocations that grow the buffer past
  one chunk fail. This is the case where a client-chosen length exceeds what
  malloc can give. `ws_refines` uses 2, so that no allocation fails.
* **Frame codec.** Two frames are enough to read one frame's bytes as the
  next frame's header when the encoding is wrong. The lengths sit on both
  sides of each encoding boundary. `MemLimit = 65536` lets every frame the
  writer holds be allocated. A header that announces more than that, which
  any client can send, makes `alloc_dataframe` write through NULL. The hazard
  for ws.c:63 records this, and no run forbids it.
* **Command line.** One command line per branch of main's loop. The
  violation run uses three: a valid one, a port past 65535, and
  255.255.255.255. The paths are a directory, `/`, a file and the default
  `./web`.
* **Dispatcher.** Three clients are enough for the interesting cases: one
  in a worker, one queued when the signal arrives, and one connecting
  after it. Symmetry is not used, because the run checks liveness.
* **HTTP.** `BodyMax = 2` and Content-Length 2 give a body that arrives in
  one or two reads, and one cut short. The file tree is the smallest with
  all of these:
  * a root reached through its name;
  * a sibling whose name extends the root's (`/s/wx`);
  * a symbolic link out of the root;
  * an empty file and a directory.
* **Headers.** `N = 7` stands for `MAX_HTTP_HEADER`, so that lines of 4
  bytes fit and lines of 5 and 6 do not. The code's conditions are relative
  to `buffer_len`, so the boundary cases are the same as at 8192.

## Fairness

* **WebSocket.** `WsSession` assumes `WF_vars(ServerStep)`. The worker is
  its own process and runs whenever it is not blocked. Its only blocking
  point is the frame read, and when that read is blocked no server step is
  enabled.
* **HTTP.** `HttpRequest` assumes `WF_vars(Worker)` for the same reason.
* **Frame codec.** `FrameCodec` assumes `WF_vars(Reader)`. Each `fread`
  returns once its bytes, or the end of the stream, are there. The writer
  has no fairness.
* **Dispatcher.** `ServerMain` assumes weak fairness for main, which never
  blocks, and `Dispatcher`'s fairness for the loop. `Dispatcher` assumes weak fairness for the listener,
  because `select` always returns within 1 s. It also assumes weak fairness
  for the exit of a worker whose descriptor the shutdown handler closed.
  `HttpRequest`'s `Termination` shows that such a request ends. Nothing
  forces an inline request or an unsignalled worker to end.
* **Client.** No module gives the client fairness: it may stay silent
  forever, and the code has no timeout. That is why `Termination` is
  conditioned on the client's shutdown or the signal.
* **Deadlock.** `CHECK_DEADLOCK FALSE` is set because a worker really does
  stop once it has returned, crashed or aborted.

## Not modelled

* **Which start-up call fails.** `Startup` lets any of them fail, and
  every failure takes the same path. A signal before `server()` installs
  its handlers is not modelled: it kills the process.
* **The ip address after main.** `server()` binds `INADDR_ANY` and never
  reads `addr`. The hazard for server-main.c:102 records this.
* **`usage`, `--debug`, logging.** These only print or set the log level.
  The signal handlers also log with `fprintf`, which is not
  async-signal-safe. That hazard lives inside stdio and is listed for
  server-main.c:21.
* **The rsv bits and control-frame rules of spec.md 4.5.** `read_dataframe`
  never checks them. `FrameCodec`'s reader ignores the bits as the code
  does. Its writer is `write_dataframe`, which clears them, so no modelled
  stream carries them.
* **Reason-phrase text.** The code writes none for 201, 400 and 405, and
  spec.md 4.4 lists the phrases. The model records the phrase as written.
* **Header parsing against spec.md 4.2.** The code skips `Name:` with an
  empty value, does not trim the name, and stops a value at an embedded
  CR/LF. The model follows the code.
* **Rare failures.** `PATH_MAX`, a failing `open(2)` after `stat`, and
  SIGPIPE on the HTTP path are not modelled.
* **C8 string utilities** are folded into the modules that use them:
  `sz_trim`, `sz_to_lower` and `sz_starts_with` are operators. The heap
  blocks behind the table's keys and values are not modelled, so the leak
  of a duplicate line's block (ht.c:88) is not checked. `ht_contains`,
  `ht_dump` and `ht_stats` only read the table and are used by tests and
  logging.
* **Out of scope.** The unit-test harness holds no state that matters to
  the properties.
