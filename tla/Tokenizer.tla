--------------------------------- MODULE Tokenizer ---------------------------------
(***************************************************************************)
(* How yt-engine cuts a text, or a query, into terms.  A text is a         *)
(* sequence of characters: CJK characters, letters and digits, and         *)
(* separators (every other).  Runs of letters and digits are one term, in  *)
(* lower case.  A run of CJK characters is cut into overlapping pairs      *)
(* (CjkBigramTokenizer) or into the words of a dictionary along the path   *)
(* of greatest probability (ChineseTokenizer, the engine's default).       *)
(***************************************************************************)
EXTENDS Integers, Sequences, FiniteSets, SequencesExt, Functions

CONSTANTS Cjk, Alnum,      \* characters; any other separates
          Lower,           \* Lower[c]: the lower case of c \in Alnum
          BaseDict,        \* word |-> frequency: the embedded dictionary
          DomainDict,      \* words added where the base has none
          UserDict         \* words that override both

ASSUME CharsDisjoint == Cjk \cap Alnum = {} /\ Lower \in [Alnum -> Alnum]
-----------------------------------------------------------------------------
(* The dictionary *)
AddAll(dict, more) == more @@ dict
AddAbsent(dict, more) == dict @@ more

Dict == AddAll(AddAbsent(BaseDict, DomainDict), UserDict)

Total == FoldFunction(+, 0, Dict)
LongestWord == FoldLeft(LAMBDA m, w : IF Len(w) > m THEN Len(w) ELSE m, 1, SetToSeq(DOMAIN Dict))

(* ln, rounded down to a power of two; only the order of its sums matters. *)
Ln(n) == Cardinality({e \in 1..20 : 2^e <= n})

OrOne(n) == IF n = 0 THEN 1 ELSE n
Frequency(dict, word) == IF word \in DOMAIN dict THEN dict[word] ELSE 1
LogProb(word) == Ln(Frequency(Dict, word)) - Ln(OrOne(Total))
-----------------------------------------------------------------------------
(* Positions between characters are 0..n; the word from i to j. *)
Word(run, i, j) == SubSeq(run, i + 1, j)

MutEnds(run, i) ==
  {j \in (i + 1)..Len(run) :
     j = i + 1 \/ (j < i + LongestWord /\ Word(run, i, j) \in DOMAIN Dict)}

Ends(run, i) ==
  {j \in (i + 1)..Len(run) :
     j = i + 1 \/ (j <= i + LongestWord /\ Word(run, i, j) \in DOMAIN Dict)}

(* From every position, last first: the best probability from there to the  *)
(* end, and where its first word ends; among equals the shortest word.  A   *)
(* function with `@@ <<>>' is the same one, which TLC computes once.        *)
Best(prob) ==
  LET end == CHOOSE j \in DOMAIN prob : \A k \in DOMAIN prob :
               prob[j] > prob[k] \/ (prob[j] = prob[k] /\ j <= k)
  IN [prob |-> prob[end], end |-> end]

Route(run) ==
  LET best[i \in 0..Len(run)] ==
        IF i = Len(run) THEN [prob |-> 0, end |-> i]
        ELSE Best([j \in Ends(run, i) |-> LogProb(Word(run, i, j)) + best[j].prob] @@ <<>>)
  IN best

Pieces(run, route) ==
  LET from[i \in 0..Len(run)] ==
        IF i = Len(run) THEN <<>> ELSE <<Word(run, i, route[i].end)>> \o from[route[i].end]
  IN from[0]

Cut(run) == Pieces(run, Route(run))

Bigrams(run) ==
  IF Len(run) = 1 THEN <<run>>
  ELSE [i \in 1..(Len(run) - 1) |-> <<run[i], run[i + 1]>>]

CutRun(mode, run) ==
  IF run = <<>> THEN <<>> ELSE IF mode = "word" THEN Cut(run) ELSE Bigrams(run)

LowerWord(run) ==
  IF run = <<>> THEN <<>> ELSE <<[i \in DOMAIN run |-> Lower[run[i]]]>>

Out(mode, out, cjk, ascii) == out \o LowerWord(ascii) \o CutRun(mode, cjk)

(* tokenize: a character that is not of the run at hand ends it; the two    *)
(* runs are never both non-empty.                                           *)
Tokenize(mode, text) ==
  LET step(acc, c) ==
        [out |-> Out(mode, acc.out, IF c \in Cjk THEN <<>> ELSE acc.cjk,
                                    IF c \in Alnum THEN <<>> ELSE acc.ascii),
         cjk |-> IF c \in Cjk THEN Append(acc.cjk, c) ELSE <<>>,
         ascii |-> IF c \in Alnum THEN Append(acc.ascii, c) ELSE <<>>]
      last(acc) == Out(mode, acc.out, acc.cjk, acc.ascii)
  IN last(FoldLeft(step, [out |-> <<>>, cjk |-> <<>>, ascii |-> <<>>], text))
=============================================================================
