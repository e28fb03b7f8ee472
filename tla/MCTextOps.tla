------------------------------ MODULE MCTextOps ------------------------------
(***************************************************************************)
(* The library's text algorithms, each against its reference definition, *)
(* one initial state per input:                                           *)
(*  - WildcardMatch: every string of up to MaxLen characters over {a, b}  *)
(*    against every pattern of up to MaxLen characters over {a, b, ?, *}; *)
(*  - the property-file parser: every text of one to four lines, each     *)
(*    from Lines (LF-separated; CR stays in the line as in a CRLF file).  *)
(***************************************************************************)
EXTENDS Wildcard, PropertyList

CONSTANTS MaxLen, f1, f2

VARIABLES str, pat, content

MCPathRank == (f1 :> 1) @@ (f2 :> 2)

\* Line bodies: empty, magic, CRCs (one with a trailing CR), well-formed
\* and malformed entries, a quoted value, a key "crc".
Lines ==
  { <<>>, <<"Y">>, <<"1">>, <<"1", CR>>,
    <<"k", Tab, Tab, Quote, "2", Quote>>, <<"k", Tab, Tab, Tab, "2">>,
    <<"k", Tab, "2">>, <<"k", Tab, Tab, "2", Tab, Tab>>, <<"c", "r", "c", Tab, Tab, "2">> }

JoinLines(ls) == FoldLeft(LAMBDA acc, l : IF acc = <<>> THEN l ELSE acc \o <<LF>> \o l,
                          <<>>, ls)
Texts == {IF Len(ls) = 1 THEN ls[1] ELSE JoinLines(ls) : ls \in BoundedSeq(Lines, 4) \ {<<>>}}

NoText == <<>>

Init ==
  \/ /\ str \in BoundedSeq({"a", "b"}, MaxLen)
     /\ pat \in BoundedSeq({"a", "b", "?", "*"}, MaxLen)
     /\ content = NoText
  \/ /\ str = <<>> /\ pat = <<>>
     /\ content \in Texts

\* The functions are pure: nothing changes.
Next == UNCHANGED <<str, pat, content>>

Spec == Init /\ [][Next]_<<str, pat, content>>

\* WildcardMatch, the recursive backtracking matcher of the ignore list,
\* accepts exactly the strings of the pattern's glob language.
MatchesGlob == WildcardMatch(str, pat) = GlobMatch(str, pat)

\* GeneratePropertyList's per-file parser (SplitString on LF and on TAB
\* TAB, the skip of empty lines, the magic and CRC line, quote removal and
\* first-key-wins) accepts exactly the files of the format and yields the
\* properties the format gives them.
ParseMatchesFormat == ParsePropertyFile(content) = ParseRef(content)
=============================================================================
