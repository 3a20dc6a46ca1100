-------------------------------- MODULE Text --------------------------------
(***************************************************************************)
(* How the backend cuts texts to a number of bytes: the file server when   *)
(* it reads (mcp-files) and the worker when it summarises a tool's result  *)
(* (safejson) leave no character in half, the file server when it searches *)
(* may, at the ends of a snippet.  A text is a sequence of bytes; a        *)
(* character has one byte or two.                                          *)
(***************************************************************************)
EXTENDS Naturals, Sequences, SequencesExt

CONSTANTS
  Around,  \* bytes of a snippet on either side of the match, 40 in the code
  MaxText  \* bound on the length of the texts that are tried

ASSUME TextAssumption == Around \in Nat /\ MaxText \in Nat

Byte    == {"a", "lead", "tail"}
Take(s, n) == SubSeq(s, 1, n)
Least(m, n) == IF m < n THEN m ELSE n

\* utf8.Valid: a lead byte and its tail come together.
Valid(s) ==
  \A i \in DOMAIN s :
    /\ s[i] = "lead" => i < Len(s) /\ s[i + 1] = "tail"
    /\ s[i] = "tail" => i > 1 /\ s[i - 1] = "lead"

\* The valid texts of at most n bytes.
ValidTexts(n) == {s \in UNION {[1 .. m -> Byte] : m \in 0 .. n} : Valid(s)}

\* The loop of files.read: bytes are dropped while the rest is not valid.
Trimmed(s) ==
  LET keep[n \in 0 .. Len(s)] == IF n = 0 \/ Valid(Take(s, n)) THEN n ELSE keep[n - 1]
  IN  Take(s, keep[Len(s)])

ReadCut(s, limit) == IF Len(s) > limit THEN Trimmed(Take(s, limit)) ELSE s

\* Mutant: the byte before the cut is looked at, not the one after it.
PrefixOffByOne(s, limit) ==
  LET keep[n \in 0 .. limit] == IF n = 0 \/ s[n] # "tail" THEN n ELSE keep[n - 1]
  IN  IF Len(s) <= limit THEN s ELSE Take(s, keep[limit])

\* validUTF8Prefix: back to a byte that starts a character.
ValidUTF8Prefix(s, limit) ==
  LET keep[n \in 0 .. limit] == IF n = 0 \/ s[n + 1] # "tail" THEN n ELSE keep[n - 1]
  IN  IF Len(s) <= limit THEN s ELSE Take(s, keep[limit])

\* truncate, which Summary ends with.
Truncate(s, limit) ==
  CASE Len(s) <= limit -> s
    [] Len(s) > limit /\ limit <= 3 -> ValidUTF8Prefix(s, limit)
    [] OTHER -> ValidUTF8Prefix(s, limit - 3) \o <<"a", "a", "a">>

\* Where q begins in s for the first time; none is 0.
Index(s, q) ==
  LET at == {i \in 1 .. Len(s) : i + Len(q) - 1 <= Len(s) /\ SubSeq(s, i, i + Len(q) - 1) = q}
  IN  IF at = {} THEN 0 ELSE CHOOSE i \in at : \A k \in at : i <= k

ContainsText(s, q) == Index(s, q) # 0

\* firstSnippet: the first match and the bytes around it.
FirstSnippet(s, q) ==
  LET i == Index(s, q)
  IN  IF i = 0 THEN <<>>
      ELSE SubSeq(s, IF i > Around THEN i - Around ELSE 1, Least(i + Len(q) - 1 + Around, Len(s)))

\* No character is in half but at the ends.
WholeBetween(s) == \E i, j \in 0 .. 1 : Valid(SubSeq(s, 1 + i, Len(s) - j))

\* Two loops that go about it differently cut every valid text to its longest
\* prefix of whole characters within the limit; a summary keeps to its limit and
\* is valid; a snippet shows the match, of at most Around bytes more either side,
\* and may begin and end inside a character.
CutsAreWhole ==
  \A s \in ValidTexts(MaxText) :
    /\ \A limit \in 0 .. MaxText :
         LET cut == ReadCut(s, limit)
         IN  /\ Valid(cut) /\ IsPrefix(cut, s) /\ Len(cut) <= limit
             /\ \A n \in Len(cut) + 1 .. Least(limit, Len(s)) : ~Valid(Take(s, n))
             /\ ValidUTF8Prefix(s, limit) = cut
             /\ Valid(Truncate(s, limit)) /\ Len(Truncate(s, limit)) <= limit
    /\ \A q \in ValidTexts(2) \ {<<>>} :
         ContainsText(s, q) =>
           /\ ContainsText(FirstSnippet(s, q), q)
           /\ Len(FirstSnippet(s, q)) <= Len(q) + 2 * Around
           /\ WholeBetween(FirstSnippet(s, q))
=============================================================================
