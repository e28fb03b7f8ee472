---------------------------- MODULE PropertyList ----------------------------
(***************************************************************************)
(* The property-list utility, src/VFSLib/src/VFSPropertyManager.cpp:      *)
(* GeneratePropertyList turns every .pra/.prb/.prd/.pre/.prt file under a  *)
(* directory into one JSON object (magic line, CRC line, then             *)
(* key<TAB><TAB>value lines), and GetPropertyObject looks a CRC up in the *)
(* JSON array it wrote.  All of it is sequential and pure: the operators  *)
(* below are the functions, checked against a declarative definition of  *)
(* the file format.                                                        *)
(*                                                                         *)
(* Text is a sequence of one-character strings; the control characters  *)
(* the parser looks at are the names below.  The JSON text is modelled by *)
(* the document it encodes, a sequence of objects [key -> value]: the     *)
(* rapidjson Writer escapes TAB, CR and '"', so for these strings a Parse *)
(* of its output yields the same tree.  A file that is absent or could    *)
(* not be produced is NoDoc.                                               *)
(***************************************************************************)
EXTENDS Integers, Sequences, SequencesExt

CONSTANTS
  PathRank,  \* [paths -> Nat], injective: the order of the wide path strings
  NoDoc,     \* no PropertyList.json (deleted, not written) or empty content
  NoGroup    \* GetPropertyObject returned false

Tab == "TAB"
LF == "LF"
CR == "CR"
Quote == "QUOTE"
CrcKey == <<"c", "r", "c">>
FilenameKey == <<"f", "i", "l", "e", "n", "a", "m", "e">>
PropertyExts == {"pra", "prb", "prd", "pre", "prt"}

\* A parse that returned false.
Failed == [ok |-> FALSE, map |-> <<>>]

-----------------------------------------------------------------------------
(* Translated from the source.                                             *)

\* std::wstring::find(tok, from), 1-based; 0 for npos.
RECURSIVE FindFrom(_, _, _)
FindFrom(s, tok, from) ==
  IF from + Len(tok) - 1 > Len(s) THEN 0
  ELSE IF SubSeq(s, from, from + Len(tok) - 1) = tok THEN from
  ELSE FindFrom(s, tok, from + 1)

\* Mutant: the next search starts one character after the match.
RECURSIVE SplitFromOneChar(_, _, _)
SplitFromOneChar(s, tok, prev) ==
  LET cur == FindFrom(s, tok, prev)
  IN IF cur = 0 THEN <<SubSeq(s, prev, Len(s))>>
     ELSE <<SubSeq(s, prev, cur - 1)>> \o SplitFromOneChar(s, tok, cur + 1)

\* SplitString's loop: the piece before each match of tok, then the rest.
RECURSIVE SplitFrom(_, _, _)
SplitFrom(s, tok, prev) ==
  LET cur == FindFrom(s, tok, prev)
  IN IF cur = 0 THEN <<SubSeq(s, prev, Len(s))>>
     ELSE <<SubSeq(s, prev, cur - 1)>> \o SplitFrom(s, tok, cur + Len(tok))

SplitString(s, tok) == SplitFrom(s, tok, 1)

\* ReplaceString: replace each match of `from`, searching on after the
\* text just inserted.
RECURSIVE ReplaceFrom(_, _, _, _)
ReplaceFrom(s, from, to, pos) ==
  LET p == FindFrom(s, from, pos)
  IN IF p = 0 THEN s
     ELSE ReplaceFrom(SubSeq(s, 1, p - 1) \o to \o SubSeq(s, p + Len(from), Len(s)),
                      from, to, p + Len(to))

ReplaceString(s, from, to) == ReplaceFrom(s, from, to, 1)

\* std::map::emplace: a key already present keeps its value.
Emplace(m, k, v) == IF k \in DOMAIN m THEN m ELSE m @@ (k :> v)

\* The loop over the lines of one file (code index i - 1): empty lines
\* are skipped, line 0 is the magic, line 1 the CRC, every later line must
\* split on TAB TAB into exactly two fields; quotes leave the value.
RECURSIVE ParseLines(_, _, _)
ParseLines(ls, i, m) ==
  IF i > Len(ls) THEN [ok |-> TRUE, map |-> m]
  ELSE IF ls[i] = <<>> \/ i = 1 THEN ParseLines(ls, i + 1, m)
  ELSE IF i = 2 THEN ParseLines(ls, i + 1, Emplace(m, CrcKey, ls[i]))
  ELSE LET sp == SplitString(ls[i], <<Tab, Tab>>)
       IN IF Len(sp) # 2 THEN Failed
          ELSE ParseLines(ls, i + 1,
                          Emplace(m, sp[1], ReplaceString(sp[2], <<Quote>>, <<>>)))

\* One property file of GeneratePropertyList: empty content, a bad line
\* or nothing parsed makes the whole generation return false.
ParsePropertyFile(c) ==
  IF c = <<>> THEN Failed
  ELSE LET r == ParseLines(SplitString(c, <<LF>>), 1, <<>>)
       IN IF ~r.ok \/ DOMAIN r.map = {} THEN Failed ELSE r

\* The files the directory walk picks, by extension.
Selected(dir) == {p \in DOMAIN dir : dir[p].ext \in PropertyExts}

\* GeneratePropertyList(dir): every selected file is opened and parsed
\* (any failure returns false before PropertyList.json is written), the
\* file's path is added as "filename", and the objects are written in the
\* order of propertyFiles, a std::map keyed by path.  `dir` maps a path to
\* its extension, whether it opens, and its text.
GeneratePropertyList(dir) ==
  LET sel    == Selected(dir)
      parsed == [p \in sel |-> IF dir[p].readable
                               THEN ParsePropertyFile(dir[p].content) ELSE Failed]
      order  == SetToSortSeq(sel, LAMBDA a, b : PathRank[a] < PathRank[b])
  IN IF sel = {} \/ \E p \in sel : ~parsed[p].ok THEN NoDoc
     ELSE [j \in DOMAIN order |->
             Emplace(parsed[order[j]].map, FilenameKey, <<order[j]>>)]

\* property-generator's main (src/VFSPropertyGenerator/src/main.cpp):
\* DeleteFileA("PropertyList.json"), then GeneratePropertyList; so after a
\* run the file holds the new list, or is absent when generation failed.
PropertyListFile(dir) == GeneratePropertyList(dir)

\* LoadPropertyList(content): empty content is an error, otherwise every
\* object of the array in order.
LoadPropertyList(doc) ==
  IF doc = NoDoc THEN [ok |-> FALSE, items |-> <<>>]
  ELSE [ok |-> TRUE, items |-> doc]

\* std::to_string of an unsigned CRC: its decimal digits.
Digits == <<"0", "1", "2", "3", "4", "5", "6", "7", "8", "9">>
RECURSIVE ToDecimal(_)
ToDecimal(n) ==
  IF n < 10 THEN <<Digits[n + 1]>> ELSE ToDecimal(n \div 10) \o <<Digits[(n % 10) + 1]>>

\* parsed["crc"]: operator[] yields "" for an object without the key.
CrcOf(g) == IF CrcKey \in DOMAIN g THEN g[CrcKey] ELSE <<>>

\* GetPropertyObject(content, crc): the first object whose "crc" is the
\* CRC in decimal; false on a parse error (no file, empty content) or no
\* match.
GetPropertyObject(doc, crc) ==
  IF doc = NoDoc THEN NoGroup
  ELSE LET hits == {j \in DOMAIN doc : CrcOf(doc[j]) = ToDecimal(crc)}
       IN IF hits = {} THEN NoGroup ELSE doc[Min(hits)]

-----------------------------------------------------------------------------
(* The file format, stated declaratively.                                  *)

\* The lines of s: the pieces between consecutive LFs.
LinesRef(s) ==
  LET cuts == SetToSortSeq({0, Len(s) + 1} \cup {i \in 1..Len(s) : s[i] = LF}, <)
  IN [j \in 1..Len(cuts) - 1 |-> SubSeq(s, cuts[j] + 1, cuts[j + 1] - 1)]

\* A data line is key, TAB TAB, value, with no further TAB TAB after the
\* first one.
TabPairs(l) == {i \in 1..Len(l) - 1 : l[i] = Tab /\ l[i + 1] = Tab}
IsEntry(l) ==
  TabPairs(l) # {} /\ \A q \in TabPairs(l) : q < Min(TabPairs(l)) + 2
KeyOf(l) == SubSeq(l, 1, Min(TabPairs(l)) - 1)
ValueOf(l) == SelectSeq(SubSeq(l, Min(TabPairs(l)) + 2, Len(l)), LAMBDA x : x # Quote)

\* A file's properties: the second line is "crc", every later non-empty
\* line an entry; the first line to name a key gives its value.
ParseRef(c) ==
  LET ls   == LinesRef(c)
      defs == {i \in 2..Len(ls) : ls[i] # <<>>}
      K(i) == IF i = 2 THEN CrcKey ELSE KeyOf(ls[i])
      V(i) == IF i = 2 THEN ls[2] ELSE ValueOf(ls[i])
  IN IF c = <<>> \/ defs = {} \/ \E i \in defs \ {2} : ~IsEntry(ls[i]) THEN Failed
     ELSE [ok  |-> TRUE,
           map |-> [k \in {K(i) : i \in defs} |-> V(Min({i \in defs : K(i) = k}))]]
=============================================================================
