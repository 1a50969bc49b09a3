--------------------------- MODULE ExactReferences ----------------------------
(***************************************************************************)
(* Resolution of section references against the passages of the corpus,    *)
(* and the acceptance script that scores a suite of them.                  *)
(*                                                                         *)
(* The identifier of a passage is its section, a dash and a chunk, and the *)
(* resolver only sees the text; the sequences here are its characters.     *)
(***************************************************************************)
EXTENDS Integers, Sequences, FiniteSets, SequencesExt

CONSTANTS
    Symbols,        \* the characters of identifiers and references
    Corpora,        \* the sets of passages that may be loaded
    Suites,         \* the suites that may be scored, sequences of cases
    Unsupported     \* a reference that is not a dotted section

Dash == <<"-">>

(* A passage is a section and a chunk; a chunk may be missing.  The section *)
(* is what precedes the first dash of the identifier.                      *)
PassageId(p) == IF p.chunk = <<>> THEN p.section ELSE p.section \o Dash \o p.chunk
Ids(held) == {PassageId(p) : p \in held}

(* ExactReferenceCase: only resolved cases have gold passages.             *)
IsCase(c) == (c.ids # {}) <=> (c.status = "resolved")

ASSUME SuiteAssumption ==
    \A suite \in Suites :
        /\ suite # <<>>
        /\ \A i \in DOMAIN suite : IsCase(suite[i])
        /\ \E i \in DOMAIN suite : suite[i].status = "resolved"

IsText(characters) == characters \in Seq(Symbols)
IsDashless(characters) == \A i \in DOMAIN characters : characters[i] # "-"

(* A reference that is matched with passages is a dotted section.          *)
ASSUME PassageAssumption ==
    /\ "-" \in Symbols
    /\ \A held \in Corpora : \A p \in held :
          IsText(p.section) /\ IsDashless(p.section) /\ IsText(p.chunk)
    /\ \A suite \in Suites : \A i \in DOMAIN suite :
          suite[i].reference # Unsupported =>
              IsText(suite[i].reference) /\ IsDashless(suite[i].reference)

VARIABLES
    corpus,     \* the verified source passages
    suite,
    exit          \* exit code of the script, -1 while it runs

suiteVars == <<corpus, suite, exit>>

SuiteInit ==
    /\ corpus \in Corpora
    /\ suite \in Suites
    /\ exit = -1

(* Mutant: the dash is forgotten.                                          *)
Matches_any_prefix(reference, id) == id = reference \/ IsPrefix(reference, id)

Matches(reference, id) == id = reference \/ IsPrefix(reference \o Dash, id)

(* ExactReferenceResolver.resolve                                          *)
Resolved(reference) ==
    IF reference = Unsupported THEN {}
    ELSE {id \in Ids(corpus) : Matches(reference, id)}

Status(reference) ==
    IF reference = Unsupported THEN "unsupported"
    ELSE IF Resolved(reference) = {} THEN "not_found" ELSE "resolved"

Passed(c) == Status(c.reference) = c.status /\ Resolved(c.reference) = c.ids

Boundary == {i \in DOMAIN suite : suite[i].status # "resolved"}

(* evaluate_exact_references and the exit code.  A suite without boundary  *)
(* cases has no boundary accuracy, and never exits with 0.                 *)
EvaluateSuite ==
    /\ exit = -1
    /\ exit' = IF /\ corpus # {}
                  /\ \A i \in DOMAIN suite : Passed(suite[i])
                  /\ Boundary # {}
               THEN 0 ELSE 1
    /\ UNCHANGED <<corpus, suite>>

SuiteNext == EvaluateSuite

SuiteSpec == SuiteInit /\ [][SuiteNext]_suiteVars

------------------------------------------------------------------------------
(* evals/exact_references/README.md: "Supported references must return     *)
(* every passage of exactly that section, with no child-section or         *)
(* prefix-collision leakage."  A suite is only accepted when its gold says *)
(* so of every reference, although nothing in the code knows the section   *)
(* of a passage; an unsupported reference has no passages.                 *)
AcceptedSuiteIsExact ==
    exit = 0 =>
        \A i \in DOMAIN suite :
            suite[i].ids =
                IF suite[i].reference = Unsupported THEN {}
                ELSE Ids({p \in corpus : p.section = suite[i].reference})
==============================================================================
