------------------------------ MODULE Wildcard ------------------------------
(***************************************************************************)
(* CVFSPack::WildcardMatch (src/VFSLib/src/VFSPack.cpp), the matcher the *)
(* builder's ignore list uses, and the glob language it should decide:   *)
(* '?' stands for one character, '*' for any run of characters, anything *)
(* else for itself.  Strings are sequences of one-character strings.     *)
(***************************************************************************)
EXTENDS Integers, Sequences

\* Mutant: '?' also matches at the end of the string.
RECURSIVE WildcardMatchQEnd(_, _)
WildcardMatchQEnd(s, m) ==
  IF m = <<>> THEN s = <<>>
  ELSE IF Head(m) = "?"
       THEN IF s = <<>> THEN WildcardMatchQEnd(s, Tail(m))
            ELSE WildcardMatchQEnd(Tail(s), Tail(m))
  ELSE IF Head(m) = "*"
       THEN WildcardMatchQEnd(s, Tail(m)) \/ (s # <<>> /\ WildcardMatchQEnd(Tail(s), m))
  ELSE s # <<>> /\ Head(s) = Head(m) /\ WildcardMatchQEnd(Tail(s), Tail(m))

\* The loop over pMatch: '?' needs a character and consumes it; '*' tries
\* the rest of the pattern here, then (if a character is left) itself one
\* character further on; a literal must equal the current character (the
\* string's terminator never does); at the end of the pattern the string
\* must be at its end too.
RECURSIVE WildcardMatch(_, _)
WildcardMatch(s, m) ==
  IF m = <<>> THEN s = <<>>
  ELSE IF Head(m) = "?" THEN s # <<>> /\ WildcardMatch(Tail(s), Tail(m))
  ELSE IF Head(m) = "*"
       THEN WildcardMatch(s, Tail(m)) \/ (s # <<>> /\ WildcardMatch(Tail(s), m))
  ELSE s # <<>> /\ Head(s) = Head(m) /\ WildcardMatch(Tail(s), Tail(m))

\* Reference: s is in the language of m when s can be cut into Len(m)
\* consecutive pieces, piece k being any string for '*', one character
\* for '?', and m[k] itself otherwise.
Piece(c, w) == IF c = "*" THEN TRUE ELSE IF c = "?" THEN Len(w) = 1 ELSE w = <<c>>

GlobMatch(s, m) ==
  \E cut \in [0..Len(m) -> 0..Len(s)] :
    /\ cut[0] = 0 /\ cut[Len(m)] = Len(s)
    /\ \A k \in 1..Len(m) :
         /\ cut[k - 1] <= cut[k]
         /\ Piece(m[k], SubSeq(s, cut[k - 1] + 1, cut[k]))
=============================================================================
