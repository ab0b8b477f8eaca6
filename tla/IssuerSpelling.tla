--------------------------- MODULE IssuerSpelling ----------------------------
(***************************************************************************)
(* canonicalIssuer (src/auth/store.go): the spelling of an issuer URL that *)
(* keys the credential file.  A spelling is a sequence over three kinds of *)
(* character: " " (any white space), "/" and "x" (any other).              *)
(***************************************************************************)
EXTENDS Naturals, Sequences, FiniteSetsExt

Characters == {" ", "/", "x"}

\* The positions of the characters of s that are not c.
Others(s, c) == {i \in 1..Len(s) : s[i] # c}

TrimRight(s, c) == SubSeq(s, 1, Max(Others(s, c) \cup {0}))

TrimLeft(s, c) == SubSeq(s, Min(Others(s, c) \cup {Len(s) + 1}), Len(s))

TrimSpace(s) == TrimLeft(TrimRight(s, " "), " ")

\* Not the code's: slashes are trimmed before the space around them.
SlashesFirst(s) == TrimSpace(TrimRight(s, "/"))

CanonicalIssuer(s) == TrimRight(TrimSpace(s), "/")
=============================================================================
