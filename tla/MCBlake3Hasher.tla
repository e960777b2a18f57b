---------------------------- MODULE MCBlake3Hasher ----------------------------
(***************************************************************************)
(* An instance of Blake3Hasher for TLC, and what a digest says of the      *)
(* bytes it was computed from.                                             *)
(***************************************************************************)
EXTENDS Blake3Hasher

MCKeys == {"key"}

\* The bytes a chaining value was computed from: every result of compress says
\* by its flags what it is the result of.
RECURSIVE Message(_)
Message(c) ==
    IF "IV" \in c.flags THEN <<>>
    ELSE IF "ROOT" \in c.flags THEN Message(c.block[1])
    ELSE IF "PARENT" \in c.flags THEN Message(c.block[1]) \o Message(c.block[2])
    ELSE (IF "CHUNK_START" \in c.flags THEN <<>> ELSE Message(c.cv))
         \o SubSeq(c.block, 1, c.len)

\* The bytes can be read back from the digest, each once and in order: inputs
\* that differ, in length or in a byte, differ in their digests as far as the
\* tree and the flags decide it (blake3_hasher_finalize, src/src/blake3.c).
DigestCommits == pc = "idle" => Message(Digest) = fed
=============================================================================
