----------------------------- MODULE FrameCodec -----------------------------
(***************************************************************************)
(* The WebSocket frame codec of src/src/ws.c at the byte level: a client   *)
(* writes frames with write_dataframe (ws.c:196-281) into a stream, and    *)
(* the server reads them back with read_dataframe (ws.c:108-194), which    *)
(* requires them masked (http.c:136), reusing one Data_Frame               *)
(* (alloc_dataframe, ws.c:60-73).                                          *)
(*                                                                         *)
(* The stream is a sequence of runs: a run [n, pat] stands for n bytes     *)
(* whose byte i is pat[i mod 4].  A header byte b is the run of one byte   *)
(* b.  A payload is abstracted to the period-4 pattern of its bytes: the   *)
(* mask XORs byte i with mask_key[i % 4], so masking maps a run to a run,  *)
(* and payload lengths at the 125/126 and 65535/65536 boundaries cost no   *)
(* more states than short ones.                                            *)
(***************************************************************************)
EXTENDS Integers, Sequences, SequencesExt, Bitwise

CONSTANTS
    Frames,          \* the frames the client may send: [op, fin, len, pat]
    Keys,            \* the mask keys the client may use (4 bytes each)
    MaxFrames,       \* bound on the number of frames written
    MemLimit,        \* malloc fails for a Data_Frame larger than this
    RequireMasked    \* read_dataframe's require_masked (TRUE: http.c:136)

ASSUME MaxFrames \in Nat /\ MemLimit \in Nat /\ RequireMasked \in BOOLEAN

NoKey == <<>>                   \* write_dataframe(f, df, NULL)
NoDf == -1                      \* the reader's Data_Frame pointer is NULL
Garbled == <<"garbled">>        \* a payload read across frame boundaries

VARIABLES
    sent,        \* frames written so far, with the key used: [f, key]
    wire,        \* bytes written and not yet read, as runs
    closed,      \* the writer has closed its end
    cut,         \* the writer died in the middle of the last frame
    rpc,         \* where read_dataframe is
    cur,         \* the header fields read so far: dfh, len64, mask_key
    dfSize,      \* size of the reader's Data_Frame, or NoDf
    delivered    \* frames read_dataframe returned

vars == <<sent, wire, closed, cut, rpc, cur, dfSize, delivered>>

-----------------------------------------------------------------------------
(* The writer: write_dataframe. *)

Byte(b) == [n |-> 1, pat |-> <<b, b, b, b>>]

\* htobe16/htobe64 (ws.c:214, 228): the k bytes of n, most significant first.
RECURSIVE BigEndian(_, _)
BigEndian(n, k) ==
    IF k = 0 THEN <<>> ELSE BigEndian(n \div 256, k - 1) \o <<n % 256>>

\* The two bytes of struct Data_Frame_Header_S (ws.c:47-57, 199-203): GCC
\* allocates bit-fields from the least significant bit, so opcode is bits
\* 0-3, rsv3..rsv1 bits 4-6 (always 0), fin bit 7; len bits 0-6, mask bit 7.
HeaderWord(f, masked, len7) ==
    <<(IF f.fin THEN 128 ELSE 0) + f.op, (IF masked THEN 128 ELSE 0) + len7>>

\* Mutant: the boundary tested with < 125, so 125 takes the 16-bit form.
HeaderBytesOffByOne(f, masked) ==
    IF f.len < 125 THEN HeaderWord(f, masked, f.len)
    ELSE IF f.len <= 65535 THEN HeaderWord(f, masked, 126) \o BigEndian(f.len, 2)
    ELSE HeaderWord(f, masked, 127) \o BigEndian(f.len, 8)

\* The header write_dataframe emits (ws.c:204-240): the 7-bit length up to
\* 125, 126 and a 16-bit length up to 0xFFFF, otherwise 127 and 64 bits.
HeaderBytes(f, masked) ==
    IF f.len <= 125 THEN HeaderWord(f, masked, f.len)
    ELSE IF f.len <= 65535 THEN HeaderWord(f, masked, 126) \o BigEndian(f.len, 2)
    ELSE HeaderWord(f, masked, 127) \o BigEndian(f.len, 8)

\* payload[i] ^ mask_key[i % 4] (ws.c:264-266, 175-177) on a pattern.
MaskPat(p, key) == IF key = NoKey THEN p ELSE [i \in 1..4 |-> p[i] ^^ key[i]]

\* The whole of one write_dataframe: header, mask key, masked payload.
Encode(f, key) ==
    [i \in 1..Len(HeaderBytes(f, key # NoKey) \o key) |->
        Byte((HeaderBytes(f, key # NoKey) \o key)[i])]
    \o (IF f.len > 0 THEN <<[n |-> f.len, pat |-> MaskPat(f.pat, key)]>>
                     ELSE <<>>)

Write(f, key) ==
    /\ ~closed /\ Len(sent) < MaxFrames
    /\ sent' = Append(sent, [f |-> f, key |-> key])
    /\ wire' = wire \o Encode(f, key)
    /\ UNCHANGED <<closed, cut, rpc, cur, dfSize, delivered>>

\* A prefix of a frame's bytes: cut between two of its fwrites, or in the
\* middle of the payload when the stdio buffer was flushed part way.
Partial(e) ==
    {SubSeq(e, 1, k) : k \in 1..Len(e) - 1}
    \cup (IF Last(e).n > 1
          THEN {Front(e) \o <<[n |-> Last(e).n \div 2, pat |-> Last(e).pat]>>}
          ELSE {})

\* The writer dies in the middle of write_dataframe; its end closes.
Crash(f, key) ==
    /\ ~closed /\ Len(sent) < MaxFrames
    /\ \E part \in Partial(Encode(f, key)) : wire' = wire \o part
    /\ sent' = Append(sent, [f |-> f, key |-> key])
    /\ closed' = TRUE /\ cut' = TRUE
    /\ UNCHANGED <<rpc, cur, dfSize, delivered>>

Close ==
    /\ ~closed
    /\ closed' = TRUE
    /\ UNCHANGED <<sent, wire, cut, rpc, cur, dfSize, delivered>>

-----------------------------------------------------------------------------
(* The reader: read_dataframe, one action per fread and the allocation.    *)

\* The bytes in the stream, and the first k of them (fread into dfh, len16,
\* len64, mask_key).
Avail(w) == FoldLeft(LAMBDA acc, r : acc + r.n, 0, w)

RotBy(p, k) == [i \in 1..4 |-> p[((i - 1 + k) % 4) + 1]]

RECURSIVE Drop(_, _)
Drop(w, k) ==
    IF k = 0 THEN w
    ELSE IF Head(w).n <= k THEN Drop(Tail(w), k - Head(w).n)
    ELSE <<[n |-> Head(w).n - k, pat |-> RotBy(Head(w).pat, k)]>> \o Tail(w)

RECURSIVE Take(_, _)
Take(w, k) == IF k = 0 THEN <<>> ELSE <<Head(w).pat[1]>> \o Take(Drop(w, 1), k - 1)

\* be16toh/be64toh (ws.c:128, 142).  A 64-bit length of 2^31 or more,
\* beyond TLC's integers, is HugeLen: more than malloc can give.
HugeLen == MemLimit + 1
BeValue(bs) == FoldLeft(LAMBDA acc, b : acc * 256 + b, 0, bs)
Len64(bs) ==
    IF (\E i \in 1..4 : bs[i] # 0) \/ bs[5] >= 128 THEN HugeLen
    ELSE BeValue(SubSeq(bs, 5, 8))

\* fread returns 0: the stream ended before k more bytes came.
Eof(k) == closed /\ Avail(wire) < k

\* on_error (ws.c:188-193): df is freed and NULL returned; the caller's
\* ws_wait gives WS_ERROR and the session ends.
OnError ==
    /\ rpc' = "error"
    /\ dfSize' = NoDf
    /\ UNCHANGED <<wire, cur>>

\* After the length: the mask key if the mask bit is set (ws.c:149).
AfterLen == IF cur.mask THEN "mask" ELSE "alloc"

\* Mutant: the mask bit is not checked.
ReadHeaderNoMaskCheck ==
    /\ rpc = "hdr"
    /\ \/ /\ Avail(wire) >= 2
          /\ LET b == Take(wire, 2)
                 h == [fin |-> b[1] \div 128 = 1, op |-> b[1] % 16,
                       mask |-> b[2] \div 128 = 1, len |-> b[2] % 128,
                       key |-> NoKey]
             IN /\ wire' = Drop(wire, 2)
                /\ cur' = h
                /\ rpc' = CASE h.len = 127 -> "ext64"
                             [] h.len = 126 -> "ext16"
                             [] OTHER -> IF h.mask THEN "mask" ELSE "alloc"
                /\ UNCHANGED dfSize
       \/ Eof(2) /\ OnError
    /\ UNCHANGED <<sent, closed, cut, delivered>>

\* (1) The 2-byte header (ws.c:109-119): a frame without the mask bit is
\* an error when the peer must mask; 126 and 127 announce a longer length.
ReadHeader ==
    /\ rpc = "hdr"
    /\ \/ /\ Avail(wire) >= 2
          /\ LET b == Take(wire, 2)
                 h == [fin |-> b[1] \div 128 = 1, op |-> b[1] % 16,
                       mask |-> b[2] \div 128 = 1, len |-> b[2] % 128,
                       key |-> NoKey]
             IN /\ wire' = Drop(wire, 2)
                /\ cur' = h
                /\ IF ~h.mask /\ RequireMasked
                   THEN rpc' = "error" /\ dfSize' = NoDf
                   ELSE /\ rpc' = CASE h.len = 127 -> "ext64"
                                    [] h.len = 126 -> "ext16"
                                    [] OTHER -> IF h.mask THEN "mask" ELSE "alloc"
                        /\ UNCHANGED dfSize
       \/ Eof(2) /\ OnError
    /\ UNCHANGED <<sent, closed, cut, delivered>>

\* (2) The 64-bit extended length (ws.c:121-133); its top bit must be 0.
ReadExt64 ==
    /\ rpc = "ext64"
    /\ \/ /\ Avail(wire) >= 8
          /\ LET b == Take(wire, 8) IN
             IF b[1] >= 128
             THEN OnError
             ELSE /\ wire' = Drop(wire, 8)
                  /\ cur' = [cur EXCEPT !.len = Len64(b)]
                  /\ rpc' = AfterLen
                  /\ UNCHANGED dfSize
       \/ Eof(8) /\ OnError
    /\ UNCHANGED <<sent, closed, cut, delivered>>

\* Mutant: the 16-bit length taken in host (little-endian) order.
ReadExt16NoBe16toh ==
    /\ rpc = "ext16"
    /\ \/ /\ Avail(wire) >= 2
          /\ wire' = Drop(wire, 2)
          /\ cur' = [cur EXCEPT !.len = BeValue(Reverse(Take(wire, 2)))]
          /\ rpc' = AfterLen
          /\ UNCHANGED dfSize
       \/ Eof(2) /\ OnError
    /\ UNCHANGED <<sent, closed, cut, delivered>>

\* (2) The 16-bit extended length (ws.c:134-142).
ReadExt16 ==
    /\ rpc = "ext16"
    /\ \/ /\ Avail(wire) >= 2
          /\ wire' = Drop(wire, 2)
          /\ cur' = [cur EXCEPT !.len = BeValue(Take(wire, 2))]
          /\ rpc' = AfterLen
          /\ UNCHANGED dfSize
       \/ Eof(2) /\ OnError
    /\ UNCHANGED <<sent, closed, cut, delivered>>

\* (3) The mask key (ws.c:148-160).
ReadMask ==
    /\ rpc = "mask"
    /\ \/ /\ Avail(wire) >= 4
          /\ wire' = Drop(wire, 4)
          /\ cur' = [cur EXCEPT !.key = Take(wire, 4)]
          /\ rpc' = "alloc"
          /\ UNCHANGED dfSize
       \/ Eof(4) /\ OnError
    /\ UNCHANGED <<sent, closed, cut, delivered>>

\* The frame read_dataframe returns.
Deliver(pat) ==
    /\ delivered' = Append(delivered, [op |-> cur.op, fin |-> cur.fin,
                                       len |-> cur.len, pat |-> pat])
    /\ rpc' = "hdr"

\* alloc_dataframe (ws.c:60-73, 161): malloc when df is NULL, realloc when
\* it is too small; neither result is checked before df->size is written.
\* A payload of length 0 is not read (ws.c:163).
Alloc ==
    /\ rpc = "alloc"
    /\ LET grow == dfSize = NoDf \/ dfSize < cur.len IN
       IF grow /\ cur.len > MemLimit
       THEN rpc' = "segv" /\ UNCHANGED <<dfSize, delivered>>
       ELSE /\ dfSize' = IF grow THEN cur.len ELSE dfSize
            /\ IF cur.len = 0 THEN Deliver(<<>>)
                              ELSE rpc' = "payload" /\ UNCHANGED delivered
    /\ UNCHANGED <<sent, wire, closed, cut, cur>>

\* (4) The payload, unmasked in place (ws.c:162-186).  Its pattern is the
\* run's when the payload is exactly the next run of the stream.
ReadPayload ==
    /\ rpc = "payload"
    /\ \/ /\ Avail(wire) >= cur.len
          /\ LET content == IF Head(wire).n = cur.len THEN Head(wire).pat
                                                     ELSE Garbled
             IN Deliver(IF cur.mask /\ content # Garbled
                        THEN MaskPat(content, cur.key) ELSE content)
          /\ wire' = Drop(wire, cur.len)
          /\ UNCHANGED dfSize
       \/ Eof(cur.len) /\ OnError /\ UNCHANGED delivered
    /\ UNCHANGED <<sent, closed, cut, cur>>

Reader == ReadHeader \/ ReadExt64 \/ ReadExt16 \/ ReadMask \/ Alloc \/ ReadPayload

-----------------------------------------------------------------------------

\* The server's Data_Frame was allocated empty by _ws_create (ws.c:349-363);
\* the round-trip test starts from NULL (ws.c:626).
Init ==
    /\ sent = <<>> /\ wire = <<>>
    /\ closed = FALSE /\ cut = FALSE
    /\ rpc = "hdr"
    /\ cur = [fin |-> FALSE, op |-> 0, mask |-> FALSE, len |-> 0, key |-> NoKey]
    /\ dfSize \in {NoDf, 0}
    /\ delivered = <<>>

Next ==
    \/ Reader
    \/ \E f \in Frames, key \in Keys \cup {NoKey} : Write(f, key) \/ Crash(f, key)
    \/ Close

\* fread returns as soon as its bytes, or the end of the stream, are there.
Spec == Init /\ [][Next]_vars /\ WF_vars(Reader)

-----------------------------------------------------------------------------
(* Properties. *)

SentFrames(s) == [i \in 1..Len(s) |-> s[i].f]

\* The frames the server may accept: those before the first unmasked one.
Accepted(s) ==
    LET bad == {i \in 1..Len(s) : RequireMasked /\ s[i].key = NoKey}
    IN  IF bad = {} THEN s ELSE SubSeq(s, 1, Min(bad) - 1)

\* The frames in the stream whole: all but one cut by the writer's death.
Readable == IF cut THEN Front(sent) ELSE sent

(* Round trip (the ws_dataframe_io_round_trip test, ws.c:562-668, over     *)
(* every interleaving): the frames read_dataframe returns are, in order,   *)
(* the frames write_dataframe was given, with opcode, FIN, length and the  *)
(* unmasked payload, and never a frame after an unmasked one.  A length    *)
(* encoded at one boundary and decoded at another, or a mask applied with  *)
(* the wrong key byte, returns a different frame or reads the next frame's *)
(* bytes as payload.                                                       *)
DeliversAcceptedFrames ==
    IsPrefix(delivered, SentFrames(Accepted(sent)))

\* spec.md 10, property 3: 2 header bytes for a payload up to 125 bytes,
\* 4 up to 65535, 10 beyond, and 4 more for a mask key.
SpecHeaderLen(len, masked) ==
    (IF len <= 125 THEN 2 ELSE IF len <= 65535 THEN 4 ELSE 10)
    + (IF masked THEN 4 ELSE 0)

(* Every frame write_dataframe put on the stream has the header size       *)
(* spec.md 10 gives for its length (ws.c:204-240): the shortest encoding,  *)
(* which a decoder that accepts any encoding would not notice is missing.  *)
HeaderAsSpecified ==
    \A i \in 1..Len(sent) :
        LET masked == sent[i].key # NoKey IN
        Len(HeaderBytes(sent[i].f, masked) \o sent[i].key)
            = SpecHeaderLen(sent[i].f.len, masked)

(* Once the writer has closed, read_dataframe returns every frame that was *)
(* written whole and accepted, and then fails at the end of the stream    *)
(* (ws.c:111-113, 164-166): a truncated last frame is an error, never a    *)
(* frame, and no read waits for bytes that cannot come.                    *)
ReaderDrains ==
    closed ~> (rpc = "error" /\ delivered = SentFrames(Accepted(Readable)))

=============================================================================
