-------------------------- MODULE MC_HeaderReader --------------------------
EXTENDS HeaderReader

\* "A: a", "a:b", "b", ":b:a", "a:" LF "b", "c0:a" and "an:b", whose names
\* have the same ht_hash_sz (3117) and so share a chain, and two lines too long
\* for a buffer_len of 7 (4 bytes and CR at most): "A: ab", refused at
\* its LF, and "A: abb", refused at its CR.
MCLines ==
    { <<"A", ":", "SP", "a">>, <<"a", ":", "b">>, <<"b">>,
      <<":", "b", ":", "a">>, <<"a", ":", "LF", "b">>,
      <<"c", "0", ":", "a">>, <<"a", "n", ":", "b">>,
      <<"A", ":", "SP", "a", "b">>, <<"A", ":", "SP", "a", "b", "b">> }

=============================================================================
