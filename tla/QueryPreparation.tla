--------------------------- MODULE QueryPreparation ---------------------------
(***************************************************************************)
(* What happens to a question before retrieval: FactPatternQueryFocuser    *)
(* may keep only its final sentence, and RuleFirstQueryRouter may take it  *)
(* apart.  Both are text rules that must not lose what was asked.          *)
(*                                                                         *)
(* A question is a sequence of words, each abstracted to what the rules    *)
(* see of it.  "citation" is a word that ends in a full stop within a      *)
(* sentence, as in "s. 3A".                                                *)
(***************************************************************************)
EXTENDS Integers, Sequences, FiniteSets, SequencesExt, Sorting

CONSTANTS
    Questions,        \* the questions asked, without surrounding whitespace
    FocusWords,       \* 40: a shorter question is not a fact pattern
    SentenceWords,    \* 4: a shorter final question is not enough
    PartWords         \* 3: a shorter part is not a question of its own

Words == {"word", "and", "stop", "citation", "mark", "section", "number"}

ASSUME QuestionAssumption ==
    /\ \A q \in Questions : q # <<>> /\ q \in Seq(Words)
    /\ FocusWords \in Nat /\ SentenceWords \in Nat \ {0} /\ PartWords \in Nat \ {0}

VARIABLES
    question,
    queries,      \* what is sent to retrieval
    route         \* "none" until the question is prepared

questionVars == <<question, queries, route>>

QuestionInit ==
    /\ question \in Questions
    /\ queries = <<>>
    /\ route = "none"

(* The parts of a text between its cuts: a cut at i ends a part with i.    *)
Ends(text, cuts) == Ascending(cuts \cup {Len(text)})

PartsAt(text, cuts) ==
    LET ends == Ends(text, cuts)
    IN  [k \in DOMAIN ends |->
            SubSeq(text, IF k = 1 THEN 1 ELSE ends[k - 1] + 1, ends[k])]

------------------------------------------------------------------------------
(* FactPatternQueryFocuser.focus                                           *)

(* (?<=[.!])\s+ cannot tell the end of a sentence from a citation.         *)
EndsSentence(word) == word \in {"stop", "citation"}

Sentences(text) ==
    PartsAt(text, {i \in DOMAIN text : EndsSentence(text[i])})

IsQuestion(sentence) == Last(sentence) = "mark"
Asked(text) == {k \in DOMAIN Sentences(text) : IsQuestion(Sentences(text)[k])}
Marks(text) == {i \in DOMAIN text : text[i] = "mark"}

FinalQuestion(text) ==
    Sentences(text)[CHOOSE k \in Asked(text) : \A j \in Asked(text) : j <= k]

(* Mutant: what follows the question is not looked at.                     *)
IsFactPattern_open_ended(text) ==
    /\ Len(text) >= FocusWords
    /\ Cardinality(Asked(text)) = 1
    /\ Len(FinalQuestion(text)) >= SentenceWords
    /\ FinalQuestion(text) # text

IsFactPattern(text) ==
    /\ Len(text) >= FocusWords
    /\ Cardinality(Marks(text)) = 1
    /\ Last(text) = "mark"
    /\ Cardinality(Asked(text)) = 1
    /\ Len(FinalQuestion(text)) >= SentenceWords
    /\ FinalQuestion(text) # text

Focus ==
    /\ route = "none"
    /\ IF IsFactPattern(question)
       THEN /\ queries' = <<FinalQuestion(question)>>
            /\ route' = "focused"
       ELSE /\ queries' = <<question>>
            /\ route' = "original"
    /\ UNCHANGED question

------------------------------------------------------------------------------
(* RuleFirstQueryRouter.route                                              *)

(* Standalone dotted sections, with or without the word.                   *)
IsSection(text) == text \in {<<"number">>, <<"section", "number">>}

(* \s+and\s+ needs whitespace that no match before it has consumed.        *)
Ands(text) == {i \in 2..(Len(text) - 1) : text[i] = "and" /\ text[i - 1] # "mark"}

Conjunctions(text) ==
    LET separates[i \in 0..Len(text)] == i \in Ands(text) /\ ~separates[i - 1]
    IN  {i \in Ands(text) : separates[i]}

(* Mutant: the word that precedes a conjunction goes with it.              *)
Parts_greedy(text) ==
    LET conjunctions == Conjunctions(text)
        Trimmed(part) == IF Last(part) = "and" THEN SubSeq(part, 1, Len(part) - 2) ELSE part
        pieces == PartsAt(text, conjunctions \cup Marks(text))
    IN  [k \in DOMAIN pieces |-> Trimmed(pieces[k])]

(* re.split: a question mark stays with the part it ends (where the strip  *)
(* removes it), a conjunction with neither.                                *)
Parts(text) ==
    LET conjunctions == Conjunctions(text)
        cuts == conjunctions \cup Marks(text)
        pieces == PartsAt(text, cuts)
    IN  [k \in DOMAIN pieces |->
            IF Ends(text, cuts)[k] \in conjunctions THEN Front(pieces[k]) ELSE pieces[k]]

IsMultiPart(text) ==
    /\ Len(Parts(text)) \in {2, 3}
    /\ \A k \in DOMAIN Parts(text) : Len(Parts(text)[k]) >= PartWords

Route ==
    /\ route = "none"
    /\ \/ /\ IsSection(question)
          /\ route' = "exact_reference"
          /\ queries' = <<question>>
       \/ /\ ~IsSection(question) /\ IsMultiPart(question)
          /\ route' = "multi_part_question"
          /\ queries' = Parts(question)
       \/ /\ ~IsSection(question) /\ ~IsMultiPart(question)
          /\ route' = "semantic_question"
          /\ queries' = <<question>>
    /\ UNCHANGED question

QuestionNext == Focus \/ Route

QuestionSpec == QuestionInit /\ [][QuestionNext]_questionVars

------------------------------------------------------------------------------
(* Focusing drops whole sentences of facts in front of the question and    *)
(* nothing else: context that follows the question, a second question and  *)
(* a question without facts are kept.  The question itself stays whole     *)
(* unless a citation in it looks like the end of a sentence.               *)
FocusKeepsTheQuestion ==
    route \in {"focused", "original"} =>
        LET kept == queries[1]
            dropped == SubSeq(question, 1, Len(question) - Len(kept))
        IN  /\ question = dropped \o kept
            /\ Marks(dropped) = {}
            /\ route = "focused" =>
                  /\ Last(dropped) \in {"stop", "citation"}
                  /\ \A i \in DOMAIN kept : kept[i] # "stop"
                  /\ Len(question) >= FocusWords /\ Len(kept) >= SentenceWords

(* "Use the final interrogative sentence": what is kept begins where a     *)
(* sentence begins.                                                        *)
FocusIsASentence ==
    route = "focused" => question[Len(question) - Len(queries[1])] = "stop"

(* Stretches of a text, one behind the other, and no word but "and" lies   *)
(* outside of them.                                                        *)
IsContent(word) == word # "and"

CoverTheContent(list, text) ==
    \E from \in [DOMAIN list -> 0..Len(text)] :
        LET end == [k \in DOMAIN list |-> from[k] + Len(list[k])]
        IN  /\ \A k \in DOMAIN list :
                  /\ end[k] <= Len(text)
                  /\ list[k] = SubSeq(text, from[k] + 1, end[k])
            /\ \A k \in DOMAIN list \ {1} : end[k - 1] <= from[k]
            /\ \A i \in DOMAIN text : IsContent(text[i]) =>
                  \E k \in DOMAIN list : i \in (from[k] + 1)..end[k]

(* docs/data-and-evaluation.md, "rule-first and bounded": at most three    *)
(* queries, none of them a fragment, and together they say what the        *)
(* question said: no word but "and" is lost, repeated or moved.            *)
PartsKeepTheContent ==
    route \in {"exact_reference", "multi_part_question", "semantic_question"} =>
        /\ Len(queries) \in 1..3
        /\ CoverTheContent(queries, question)
        /\ route = "multi_part_question" =>
              \A k \in DOMAIN queries : Len(queries[k]) >= PartWords
==============================================================================
