----------------------------- MODULE PathSandbox -----------------------------
(***************************************************************************)
(* The path sandbox of src/src/http.c: http_init fixes the static-files    *)
(* root once, and realpath_uri maps a request URI to a canonical path that *)
(* must start with the root.                                               *)
(*                                                                         *)
(* A path is a sequence of names and a name a sequence of characters, so   *)
(* that the byte-prefix test of sz_starts_with is the test the code makes. *)
(* The file system is a function from canonical paths to entries: a        *)
(* directory, a file of some size, or a symbolic link to an absolute path. *)
(* realpath(3) is the C library's; it is modelled by what it does:        *)
(* ".", ".." and symbolic links are resolved component by component, and *)
(* a missing component, a file used as a directory or a link loop fails.  *)
(***************************************************************************)
EXTENDS Integers, Sequences, SequencesExt

CONSTANTS
    FS,          \* the file system: canonical path -> entry
    Dot,         \* the name "."
    DotDot,      \* the name ".."
    MaxLinks     \* symbolic links realpath follows before it fails (ELOOP)

Fail == "fail"   \* realpath returned NULL, or realpath_uri refused the path

\* The bytes of a path: "/" before each name; the root directory is "/".
PathBytes(p) ==
    IF p = <<>> THEN <<"/">>
    ELSE FoldLeft(LAMBDA acc, n : acc \o <<"/">> \o n, <<>>, p)

\* realpath(path, NULL) on the names of an absolute path (http.c:45, and
\* http_init at http.c:310): done is the canonical prefix built so far.
RECURSIVE Canon(_, _, _)
Canon(done, todo, links) ==
    IF todo = <<>> THEN done
    ELSE LET c == Head(todo)
             rest == Tail(todo)
             p == Append(done, c)
         IN  CASE c = Dot -> Canon(done, rest, links)
               [] c = DotDot -> Canon(IF done = <<>> THEN done ELSE Front(done), rest, links)
               [] p \notin DOMAIN FS -> Fail
               [] FS[p].kind = "link" ->
                     IF links = 0 THEN Fail ELSE Canon(<<>>, FS[p].target \o rest, links - 1)
               [] FS[p].kind = "file" /\ rest # <<>> -> Fail
               [] OTHER -> Canon(p, rest, links)

RealPath(p) == Canon(<<>>, p, MaxLinks)

(***************************************************************************)
(* http_init (http.c:306-343): the canonical root, or Fail when realpath   *)
(* fails, the root is "/", or it is not a directory.  realpath never      *)
(* leaves a trailing "/", so the strip at http.c:322-327 does nothing.     *)
(***************************************************************************)
HttpInit(dir) ==
    LET r == RealPath(dir)
    IN  IF r = Fail \/ r = <<>> THEN Fail
        ELSE IF FS[r].kind # "dir" THEN Fail
        ELSE r

\* sz_starts_with (sz.c:19-36) on the bytes of two paths.
StartsWith(p, prefix) == IsPrefix(PathBytes(prefix), PathBytes(p))

\* Mutant: containment is tested on the URI before canonicalisation.
RealPathUriUnchecked(root, uri) ==
    LET path == RealPath(root \o uri)
    IN  IF path = Fail \/ ~StartsWith(root \o uri, root) THEN Fail ELSE path

(***************************************************************************)
(* realpath_uri (http.c:35-62): realpath of root || uri, refused unless   *)
(* the bytes of the result start with the bytes of the root.  The         *)
(* PATH_MAX check of http.c:37-40 is not modelled: the paths are short.    *)
(***************************************************************************)
RealPathUri(root, uri) ==
    LET path == RealPath(root \o uri)
    IN  IF path = Fail \/ ~StartsWith(path, root) THEN Fail ELSE path

\* The path lies in the directory tree of root: root is a prefix of its names.
Within(p, root) == IsPrefix(root, p)

=============================================================================
