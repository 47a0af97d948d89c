---------------------------- MODULE HeaderReader ----------------------------
(***************************************************************************)
(* The request-header reader of the worker: parse_headers (src/src/http.c) *)
(* calling io_read_line_crlf (src/src/io.c) once per line, and             *)
(* free_headers/ht_free (ht.c) when the request is done.                   *)
(*                                                                         *)
(* The client's bytes are a fixed stream: header lines, each ended by CR   *)
(* LF, then the empty line or the end of the stream.  A byte is a token    *)
(* ("a", "A", ":", "SP", "CR", "LF", ...).  The reader reads one byte per *)
(* step; when a line is complete, the body of the parse_headers loop      *)
(* (strndup, strtok, sz_to_lower, sz_trim, ht_put) runs in the same step.  *)
(* The hash table is ht.c's: chains of NVPs indexed by ht_hash_sz(key) %  *)
(* nhash, an entry holding the key, the value and the offset of the key    *)
(* inside its strndup'd block (the key is what ht_clear passes to free()), *)
(* and the size.  Only the buckets in use are kept.                        *)
(***************************************************************************)
EXTENDS Integers, Sequences, SequencesExt, FiniteSets

CONSTANTS
    Lines,       \* header lines (without CR LF) the client may send
    MaxLines,    \* header lines in one request at most
    N,           \* the buffer_len parse_headers passes (MAX_HTTP_HEADER)
    NHash        \* the table's nhash: 1021 from ht_create(0, ...)

CR == "CR"
LF == "LF"
SP == "SP"
HT == "HT"
Colon == ":"
NUL == "NUL"     \* ch_prev before the first byte of a line

\* The bytes a client may send: those of the lines, and the line end.
Bytes == UNION {{l[i] : i \in DOMAIN l} : l \in Lines} \cup {CR, LF}

\* The character codes of the bytes (ASCII).
Ascii ==
    (CR :> 13) @@ (LF :> 10) @@ (SP :> 32) @@ (HT :> 9) @@ (Colon :> 58)
    @@ ("0" :> 48) @@ ("A" :> 65) @@ ("B" :> 66)
    @@ ("a" :> 97) @@ ("b" :> 98) @@ ("c" :> 99) @@ ("n" :> 110)

\* tolower, as sz_to_lower applies it to every byte of the name.
Lower(c) == CASE c = "A" -> "a" [] c = "B" -> "b" [] OTHER -> c

\* Every request the client may send: up to MaxLines header lines, each
\* ended by CR LF, then the empty line, or the end of the stream.
Streams ==
    { FoldLeft(LAMBDA acc, l : acc \o l \o <<CR, LF>>, <<>>, ls) \o e :
        ls \in BoundedSeq(Lines, MaxLines), e \in {<<CR, LF>>, <<>>} }

VARIABLES
    stream,   \* what the client sent
    pos,      \* bytes read from it
    buf,      \* the bytes io_read_line_crlf has stored in this call
    chPrev,   \* its ch_prev
    lines,    \* the lines it has returned, in order
    table,    \* the Hashtable: [chains, size]
    result,   \* what parse_headers returned: "none" yet, "headers", "null"
    pc        \* "read", "done" (headers returned), "returned", "abort"

vars == <<stream, pos, buf, chPrev, lines, table, result, pc>>

\* ht_create: every chain NULL, size 0.
NoTable == [chains |-> [h \in {} |-> <<>>], size |-> 0]

Init ==
    /\ stream \in Streams
    /\ pos = 0
    /\ buf = <<>>
    /\ chPrev = NUL
    /\ lines = <<>>
    /\ table = NoTable
    /\ result = "none"
    /\ pc = "read"

-----------------------------------------------------------------------------
(* strtok(3) and the helpers parse_headers calls on a line. *)

\* The first index from i on whose byte is (In) or is not (~In) in D.
FirstFrom(s, D, i, In) ==
    LET J == {j \in i .. Len(s) : (s[j] \in D) = In}
    IN  IF J = {} THEN Len(s) + 1 ELSE Min(J)

(***************************************************************************)
(* strtok(s, D) continuing at index i: skip bytes of D; none left is NULL; *)
(* otherwise the token runs to the next byte of D, which is overwritten by *)
(* NUL, and the next call continues after it.  start is the token's index. *)
(***************************************************************************)
StrTok(s, D, i) ==
    LET b == FirstFrom(s, D, i, FALSE)
        e == FirstFrom(s, D, b, TRUE)
    IN  IF b > Len(s) THEN [tok |-> NUL, start |-> b, next |-> b]
        ELSE [tok |-> SubSeq(s, b, e - 1), start |-> b,
              next |-> IF e > Len(s) THEN e ELSE e + 1]

\* sz_trim: drop SP, HT, CR, LF at both ends.
Trim(s) ==
    LET WS == {SP, HT, CR, LF}
        b == FirstFrom(s, WS, 1, FALSE)
        keep == {j \in b .. Len(s) : s[j] \notin WS}
    IN  IF keep = {} THEN <<>> ELSE SubSeq(s, b, Max(keep))

\* name = strtok(header, ":"), val = strtok(NULL, "\n\r") (http.c:98-99).
NameTok(l) == StrTok(l, {Colon}, 1)
ValTok(l) == StrTok(l, {CR, LF}, NameTok(l).next)

\* The line is stored: both tokens exist (http.c:100).
Stored(l) == NameTok(l).tok # NUL /\ ValTok(l).tok # NUL

Key(l) == [i \in DOMAIN NameTok(l).tok |-> Lower(NameTok(l).tok[i])]
Val(l) == Trim(ValTok(l).tok)

(* ht.c *)

\* ht_hash_sz (ht.c:25-33): h = 31 * h + c over the key's bytes.  The
\* unsigned int never wraps for the keys of at most 5 bytes a line of
\* buffer_len - 2 bytes can hold.
Hash(k) == FoldLeft(LAMBDA h, c : 31 * h + Ascii[c], 0, k)

Bucket(k) == Hash(k) % NHash

Chain(t, h) == IF h \in DOMAIN t.chains THEN t.chains[h] ELSE <<>>

\* The walk of a chain with strcmp: the first entry with key k, or 0.
Find(ch, k) ==
    LET J == {i \in DOMAIN ch : ch[i].key = k} IN IF J = {} THEN 0 ELSE Min(J)

\* ht_get (ht.c:118-128): the value of the first entry with key k, or NULL.
HtGet(t, k) ==
    LET ch == Chain(t, Bucket(k)) IN
    IF Find(ch, k) = 0 THEN NUL ELSE ch[Find(ch, k)].val

\* Mutant: only the head of the chain is compared.
HtPutHeadOnly(t, k, v, off) ==
    LET h == Bucket(k)
        ch == Chain(t, h)
    IN  IF ch # <<>> /\ ch[1].key = k
        THEN [t EXCEPT !.chains[h][1].val = v]
        ELSE [chains |-> (h :> (<<[key |-> k, val |-> v, off |-> off]>> \o ch))
                         @@ t.chains,
              size |-> t.size + 1]

(***************************************************************************)
(* ht_put (ht.c:84-104): walk the chain of the key's bucket; an entry with *)
(* the same key gets the new value (free_val is NULL, and the new key is  *)
(* neither stored nor freed); otherwise size++ and a new NVP is pushed on *)
(* the front of the chain.                                                 *)
(***************************************************************************)
HtPut(t, k, v, off) ==
    LET h == Bucket(k)
        ch == Chain(t, h)
        i == Find(ch, k)
    IN  IF i # 0
        THEN [t EXCEPT !.chains[h][i].val = v]
        ELSE [chains |-> (h :> (<<[key |-> k, val |-> v, off |-> off]>> \o ch))
                         @@ t.chains,
              size |-> t.size + 1]

\* Mutant: a duplicate name keeps the value first stored.
PutKeepFirst(t, l) ==
    IF ~Stored(l) \/ HtGet(t, Key(l)) # NUL THEN t
    ELSE HtPut(t, Key(l), Val(l), NameTok(l).start - 1)

(***************************************************************************)
(* One turn of the parse_headers loop on a line (http.c:95-110): a line   *)
(* without both tokens is freed and skipped; otherwise ht_put with the    *)
(* lower-cased name, which is the start of the strndup'd block only when  *)
(* the line does not begin with ':', and the trimmed value.               *)
(***************************************************************************)
Put(t, l) ==
    IF ~Stored(l) THEN t
    ELSE HtPut(t, Key(l), Val(l), NameTok(l).start - 1)

\* Every NVP of the table, by bucket and position.
Slots(t) == UNION {{<<h, i>> : i \in DOMAIN t.chains[h]} : h \in DOMAIN t.chains}

\* ht_clear frees every key (ht.c:61-78); glibc aborts on a pointer that
\* is not the start of a block.
BadKey == \E sl \in Slots(table) : table.chains[sl[1]][sl[2]].off # 0

-----------------------------------------------------------------------------
(* The worker. *)

\* ht_free after a failed read (http.c:112-116), or free_headers after the
\* request (http.c:397).
FreeTable ==
    pc' = IF BadKey THEN "abort" ELSE "returned"

\* A line is complete: io_read_line_crlf returns line_len - 1, the CR
\* overwritten by NUL (io.c:64-66); an empty line ends the loop.
EndLine(line) ==
    /\ lines' = Append(lines, line)
    /\ buf' = <<>>
    /\ chPrev' = NUL
    /\ IF line = <<>>
       THEN result' = "headers" /\ pc' = "done" /\ UNCHANGED table
       ELSE table' = Put(table, line) /\ UNCHANGED <<result, pc>>

\* Mutant: the length check lets one more byte in (">" for ">=").
ReadByteLateCheck ==
    /\ pc = "read"
    /\ pos < Len(stream)
    /\ pos' = pos + 1
    /\ LET ch == stream[pos + 1] IN
       \/ /\ Len(buf) > N - 1
          /\ result' = "null" /\ FreeTable
          /\ UNCHANGED <<buf, chPrev, lines, table>>
       \/ /\ Len(buf) <= N - 1 /\ chPrev = CR /\ ch = LF
          /\ EndLine(Front(buf))
       \/ /\ Len(buf) <= N - 1 /\ ~(chPrev = CR /\ ch = LF)
          /\ buf' = Append(buf, ch) /\ chPrev' = ch
          /\ UNCHANGED <<lines, table, result, pc>>
    /\ UNCHANGED stream

\* Mutant: any LF ends the line.
ReadByteLFOnly ==
    /\ pc = "read"
    /\ pos < Len(stream)
    /\ pos' = pos + 1
    /\ LET ch == stream[pos + 1] IN
       \/ /\ Len(buf) >= N - 1
          /\ result' = "null" /\ FreeTable
          /\ UNCHANGED <<buf, chPrev, lines, table>>
       \/ /\ Len(buf) < N - 1 /\ ch = LF
          /\ EndLine(Front(buf))
       \/ /\ Len(buf) < N - 1 /\ ch # LF
          /\ buf' = Append(buf, ch) /\ chPrev' = ch
          /\ UNCHANGED <<lines, table, result, pc>>
    /\ UNCHANGED stream

(***************************************************************************)
(* One read(fd, &ch, 1) of io_read_line_crlf (io.c:40-54): a byte with    *)
(* buffer_len - 1 bytes already stored fails the line (too long), and     *)
(* parse_headers frees the table and returns NULL; CR then LF ends it;    *)
(* any other byte is stored.                                              *)
(***************************************************************************)
ReadByte ==
    /\ pc = "read"
    /\ pos < Len(stream)
    /\ pos' = pos + 1
    /\ LET ch == stream[pos + 1] IN
       \/ /\ Len(buf) >= N - 1
          /\ result' = "null" /\ FreeTable
          /\ UNCHANGED <<buf, chPrev, lines, table>>
       \/ /\ Len(buf) < N - 1 /\ chPrev = CR /\ ch = LF
          /\ EndLine(Front(buf))
       \/ /\ Len(buf) < N - 1 /\ ~(chPrev = CR /\ ch = LF)
          /\ buf' = Append(buf, ch) /\ chPrev' = ch
          /\ UNCHANGED <<lines, table, result, pc>>
    /\ UNCHANGED stream

\* read() returns 0 before CR LF (io.c:55-58): parse_headers frees the
\* table and returns NULL (http.c:112-116).
ReadEOF ==
    /\ pc = "read"
    /\ pos = Len(stream)
    /\ result' = "null" /\ FreeTable
    /\ UNCHANGED <<stream, pos, buf, chPrev, lines, table>>

\* free_headers(headers) once the request has been dispatched (http.c:397).
FreeHeaders ==
    /\ pc = "done"
    /\ FreeTable
    /\ UNCHANGED <<stream, pos, buf, chPrev, lines, table, result>>

Next == ReadByte \/ ReadEOF \/ FreeHeaders

Spec == Init /\ [][Next]_vars /\ WF_vars(Next)


-----------------------------------------------------------------------------
(* Properties. *)

TypeOK ==
    /\ stream \in Seq(Bytes)
    /\ pos \in 0 .. Len(stream)
    /\ buf \in Seq(Bytes) /\ Len(buf) <= N - 1
    /\ chPrev \in Bytes \cup {NUL}
    /\ lines \in Seq(Seq(Bytes))
    /\ table.size \in Nat
    /\ \A h \in DOMAIN table.chains :
          table.chains[h] \in Seq([key : Seq(Bytes), val : Seq(Bytes), off : Nat])
    /\ result \in {"none", "headers", "null"}
    /\ pc \in {"read", "done", "returned", "abort"}

\* The lines of a stream as spec.md 4.1 defines them: each runs up to the
\* first CR LF after the previous one, CR LF excluded.
RECURSIVE RefLines(_)
RefLines(s) ==
    LET J == {i \in 1 .. Len(s) - 1 : s[i] = CR /\ s[i + 1] = LF}
    IN  IF J = {} THEN <<>>
        ELSE <<SubSeq(s, 1, Min(J) - 1)>> \o RefLines(SubSeq(s, Min(J) + 2, Len(s)))

(* io_read_line_crlf, called line after line by parse_headers, returns    *)
(* exactly the CRLF-separated lines of the stream, in order, each of which *)
(* fit in buffer_len - 1 bytes with its CR; and when it fails, the stream  *)
(* ended before the next CR LF or the next line did not fit (spec.md 4.1). *)
(* This is about the ch_prev/eol test and the length check of io.c:40-54   *)
(* and the reset of both between calls.                                    *)
ReaderAsSpecified ==
    LET ref == RefLines(stream)
    IN  /\ IsPrefix(lines, ref)
        /\ \A i \in DOMAIN lines : Len(lines[i]) + 1 < N - 1
        /\ result = "null" =>
              \/ Len(lines) = Len(ref)
              \/ Len(ref[Len(lines) + 1]) + 1 >= N - 1

(* Every name of a stored line, lower-cased, is found by ht_get with the  *)
(* trimmed value of the LAST line with that name, whatever the case the    *)
(* client used, and the table holds no other name: ht_put's replace of an  *)
(* existing name (ht.c:87-95) after sz_to_lower (http.c:105).              *)
LastValueWins ==
    LET hs == SelectSeq(lines, Stored)
        names == {Key(hs[i]) : i \in DOMAIN hs}
    IN  /\ \A sl \in Slots(table) : table.chains[sl[1]][sl[2]].key \in names
        /\ \A k \in names :
              HtGet(table, Key(hs[Max({i \in DOMAIN hs : Key(hs[i]) = k})]))
                  = Val(hs[Max({i \in DOMAIN hs : Key(hs[i]) = k})])

(* The table keeps one NVP per name, in the chain of its hash, and size    *)
(* counts them: ht_put walks the whole chain before it pushes a new entry  *)
(* (ht.c:85-103).  Names whose hashes collide share a chain, and a repeat  *)
(* of one that is not at its head must still be found.                     *)
OneEntryPerName ==
    /\ \A sl \in Slots(table) :
          Bucket(table.chains[sl[1]][sl[2]].key) = sl[1]
    /\ \A h \in DOMAIN table.chains : \A i, j \in DOMAIN table.chains[h] :
          i # j => table.chains[h][i].key # table.chains[h][j].key
    /\ table.size = Cardinality(Slots(table))

(* Freeing the header table never passes free() a pointer into the middle *)
(* of a block: the keys ht_put stores (http.c:98, 109) are what ht_clear   *)
(* frees (ht.c:66-68).                                                     *)
NoInvalidFree == pc # "abort"

=============================================================================
