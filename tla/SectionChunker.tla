--------------------------- MODULE SectionChunker ----------------------------
(***************************************************************************)
(* SectionAwareChunker.chunk: the sections of a document are split one     *)
(* after the other into passages of at most MaxChars characters, each with *)
(* its offsets into its own section.  Characters are abstracted to what    *)
(* the boundary rule tells apart; offsets are zero-based, as in the code.  *)
(***************************************************************************)
EXTENDS Integers, Sequences

CONSTANTS
    MaxChars,        \* max_chars
    SectionCount,    \* sections handed to one call of chunk
    MaxLength        \* bound: characters of a section

ASSUME ChunkerAssumption ==
    /\ MaxChars \in Nat \ {0}
    /\ SectionCount \in Nat \ {0}
    /\ MaxLength \in Nat \ {0}

(* " " itself, any other character of str.isspace(), and the rest.         *)
Characters == {"space", "blank", "letter"}
Whitespace == {"space", "blank"}
Texts == {t \in Seq(Characters) : Len(t) \in 1..MaxLength}

VARIABLES
    sections,    \* the texts of the sections
    section,     \* the section being split
    start,       \* where its next passage starts
    passages     \* the passages emitted so far

vars == <<sections, section, start, passages>>

DerivedPassage == [section : 1..SectionCount, start_char : Nat, end_char : Nat]

TypeOK ==
    /\ sections \in [1..SectionCount -> Texts]
    /\ section \in 1..(SectionCount + 1)
    /\ start \in Nat
    /\ section <= SectionCount => start <= Len(sections[section])
    /\ passages \in Seq(DerivedPassage)

Init ==
    /\ sections \in [1..SectionCount -> UNION {[1..n -> Characters] : n \in 1..MaxLength}]
    /\ section = 1
    /\ start = 0
    /\ passages = <<>>

Character(text, offset) == text[offset + 1]

HardEnd(text, from) ==
    IF from + MaxChars < Len(text) THEN from + MaxChars ELSE Len(text)

(* The offsets at which text.rfind(" ", start + 1, hard_end) may stop.     *)
Spaces(text, from) ==
    {i \in (from + 1)..(HardEnd(text, from) - 1) : Character(text, i) = "space"}

(* Mutant: spaces are never looked for.                                    *)
IsChunkEnd_hard_only(text, from, end) == end = HardEnd(text, from)

(* Mutant: the word at the limit is finished first.                        *)
IsChunkEnd_next_space(text, from, end) ==
    LET hard == HardEnd(text, from)
    IN  IF hard = Len(text) \/ Character(text, hard - 1) \in Whitespace
        THEN end = hard
        ELSE end = hard + 1

(* _chunk_end as a relation: end is the hard end, or just after the last   *)
(* space that leaves the passage at least one more character.              *)
IsChunkEnd(text, from, end) ==
    LET hard == HardEnd(text, from)
        spaces == Spaces(text, from)
    IN  IF hard = Len(text) \/ Character(text, hard - 1) \in Whitespace \/ spaces = {}
        THEN end = hard
        ELSE end - 1 \in spaces /\ \A i \in spaces : i <= end - 1

(* Mutant: the space at the boundary is dropped.                           *)
Emit_drops_space ==
    /\ section <= SectionCount
    /\ start < Len(sections[section])
    /\ \E end \in 0..Len(sections[section]) :
          /\ IsChunkEnd(sections[section], start, end)
          /\ passages' =
                Append(passages,
                  [section |-> section, start_char |-> start,
                   end_char |-> IF Character(sections[section], end - 1) = "space"
                                THEN end - 1 ELSE end])
          /\ start' = end
    /\ UNCHANGED <<sections, section>>

(* One turn of the while loop.                                             *)
Emit ==
    /\ section <= SectionCount
    /\ start < Len(sections[section])
    /\ \E end \in 0..Len(sections[section]) :
          /\ IsChunkEnd(sections[section], start, end)
          /\ passages' = Append(passages, [section |-> section,
                                           start_char |-> start, end_char |-> end])
          /\ start' = end
    /\ UNCHANGED <<sections, section>>

(* The loop over the sections.                                             *)
NextSection ==
    /\ section <= SectionCount
    /\ start >= Len(sections[section])
    /\ section' = section + 1
    /\ start' = 0
    /\ UNCHANGED <<sections, passages>>

(* chunk has returned.                                                     *)
Returned == section > SectionCount /\ UNCHANGED vars

Next == Emit \/ NextSection \/ Returned

Spec == Init /\ [][Next]_vars

------------------------------------------------------------------------------
(* docs/future-source-chunking.md                                          *)

Covers(i, s, offset) ==
    /\ passages[i].section = s
    /\ passages[i].start_char <= offset
    /\ offset < passages[i].end_char

Done(s, offset) == s < section \/ (s = section /\ offset < start)

(* "Concatenating a section's chunks recreates the original section text   *)
(* exactly": every character of what has been split so far is in exactly   *)
(* one passage, of its own section, and no passage reaches further.        *)
EveryCharacterOnce ==
    \A s \in 1..SectionCount :
        \A offset \in 0..(Len(sections[s]) - 1) :
            /\ Done(s, offset) =>
                  \E i \in 1..Len(passages) : Covers(i, s, offset)
            /\ \A i, j \in 1..Len(passages) :
                  Covers(i, s, offset) /\ Covers(j, s, offset) => i = j

(* "no larger than max_chars", and never empty, "so the algorithm always   *)
(* makes progress".                                                        *)
PassagesFit ==
    \A i \in 1..Len(passages) :
        /\ passages[i].end_char - passages[i].start_char \in 1..MaxChars
        /\ passages[i].end_char <= Len(sections[passages[i].section])

(* "preferring a space boundary where one fits": a passage that cuts a     *)
(* word has no space behind its first character (a leading space is never  *)
(* a boundary, and neither is another whitespace character).               *)
CutsOnlyUnbrokenText ==
    \A i \in 1..Len(passages) :
        LET text == sections[passages[i].section]
            end == passages[i].end_char
        IN  end < Len(text) /\ Character(text, end - 1) \notin Whitespace =>
                \A k \in (passages[i].start_char + 1)..(end - 1) :
                    Character(text, k) # "space"
==============================================================================
