---------------------------- MODULE CapabilitySmoke ----------------------------
(***************************************************************************)
(* The capability checks make generation-smoke, embedding-smoke and        *)
(* reranker-smoke: each asks its provider a few fixed questions and        *)
(* replaces the report of its capability.  Runs may be repeated, overlap   *)
(* and be killed, and nothing but the report tells how they ended.         *)
(*                                                                         *)
(* pc:  idle - readiness - text - structured - write - writing - closing   *)
(*           - returned                          (generation)              *)
(*      idle - first - repeat - write - writing - returned    (embedding)  *)
(*      idle - score - write - writing - returned             (reranker)   *)
(***************************************************************************)
EXTENDS GenerationProvider

CONSTANTS
    Runs,          \* runs of the scripts
    Scripts,       \* the scripts that are run
    Nobody         \* the author of a report that is not there

ASSUME SmokeAssumption ==
    /\ Nobody \notin Runs
    /\ Scripts \subseteq {"generation", "embedding", "reranker"}

VARIABLES
    script,     \* the script of each run
    pc,
    verdict,    \* the result each run is going to report
    report,     \* artifacts/capability-reports: the report of each script
    served,     \* history: what the provider really did for each run
    written     \* history: who wrote the report of a run's script since it began

vars == <<script, pc, verdict, report, served, written>>

Questions == {"readiness", "text", "structured", "first", "repeat", "score"}
Ended == {"returned", "raised", "refused", "crashed"}
NoReport == [author |-> Nobody, result |-> "none"]

TypeOK ==
    /\ script \in [Runs -> Scripts]
    /\ pc \in [Runs -> {"idle", "write", "writing", "closing"} \cup Questions \cup Ended]
    /\ verdict \in [Runs -> {"failed", "passed"}]
    /\ report \in [Scripts -> [author : Runs \cup {Nobody},
                               result : {"none", "empty", "garbled", "failed", "passed"}]]
    /\ served \in [Runs -> SUBSET Questions]
    /\ written \in [Runs -> SUBSET Runs]

Init ==
    /\ script \in [Runs -> Scripts]
    /\ pc = [r \in Runs |-> "idle"]
    /\ verdict = [r \in Runs |-> "failed"]
    /\ report = [s \in Scripts |-> NoReport]
    /\ served = [r \in Runs |-> {}]
    /\ written = [r \in Runs |-> {}]

Goto(r, to) == pc' = [pc EXCEPT ![r] = to]

FirstQuestion ==
    [generation |-> "readiness", embedding |-> "first", reranker |-> "score"]

(* Settings that do not validate end the script before it has a report.    *)
Begin(r) ==
    /\ pc[r] = "idle"
    /\ \/ Goto(r, FirstQuestion[script[r]])
       \/ Goto(r, "refused")
    /\ UNCHANGED <<script, verdict, report, served, written>>

------------------------------------------------------------------------------
(* An answered question is history; what follows depends on the result.    *)
Serve(r, ok) ==
    served' = [served EXCEPT ![r] = IF ok THEN @ \cup {pc[r]} ELSE @]

Passes(r) == verdict' = [verdict EXCEPT ![r] = "passed"] /\ Goto(r, "write")
Fails(r) == UNCHANGED verdict /\ Goto(r, "write")
Asks(r, question) == UNCHANGED verdict /\ Goto(r, question)
Raises(r) == UNCHANGED verdict /\ Goto(r, "raised")

(* Mutant: a runtime that is not ready ends the script without a report.   *)
AskReadiness_unreported(r) ==
    /\ pc[r] = "readiness"
    /\ \E reply \in Replies(ListBodies) :
          LET status == ReadinessStatus(reply)
          IN  /\ Serve(r, status = "ready")
              /\ UNCHANGED verdict
              /\ Goto(r, IF status = "ready" THEN "text"
                         ELSE IF status = "raised" THEN "raised" ELSE "returned")
    /\ UNCHANGED <<script, report, written>>

AskReadiness(r) ==
    /\ pc[r] = "readiness"
    /\ \E reply \in Replies(ListBodies) :
          LET status == ReadinessStatus(reply)
          IN  /\ Serve(r, reply.kind = "ok" /\ reply.body.json = "parsed"
                             /\ reply.body.models = "listed")
              /\ \/ status = "raised" /\ Raises(r)
                 \/ status = "ready" /\ Asks(r, "text")
                 \/ status \in {"error", "failed"} /\ Fails(r)
    /\ UNCHANGED <<script, report, written>>

(* Plain text counts when it was the content of the reply.                 *)
AskText(r) ==
    /\ pc[r] = "text"
    /\ \E reply \in Replies(ChatBodies) :
          LET result == GenerateText(reply)
          IN  /\ Serve(r, reply.kind = "ok" /\ reply.body.json = "parsed"
                             /\ (reply.body.message # "none"
                                   \/ reply.body.content \notin {"none", "empty"}))
              /\ \/ result.type = "raised" /\ Raises(r)
                 \/ result.type = "response" /\ Asks(r, "structured")
                 \/ result.type = "failure" /\ Fails(r)
    /\ UNCHANGED <<script, report, written>>

(* A structured answer may be the content or the reasoning, but must fit.  *)
AskStructured(r) ==
    /\ pc[r] = "structured"
    /\ \E reply \in Replies(ChatBodies) :
          LET result == GenerateStructured(reply)
          IN  /\ Serve(r, reply.kind = "ok" /\ reply.body.json = "parsed"
                             /\ "fits" \in {reply.body.message, reply.body.content,
                                            reply.body.reasoning})
              /\ \/ result.type = "raised" /\ Raises(r)
                 \/ result.type = "response" /\ Passes(r)
                 \/ result.type = "failure" /\ Fails(r)
    /\ UNCHANGED <<script, report, written>>

(* embed and rerank translate every exception of the model runtime.  The   *)
(* embedding check infers twice, with the model loaded and with it cached. *)
Infer(r) ==
    /\ pc[r] \in {"first", "repeat", "score"}
    /\ \E answered \in BOOLEAN :
          /\ Serve(r, answered)
          /\ \/ ~answered /\ Fails(r)
             \/ answered /\ pc[r] = "first" /\ Asks(r, "repeat")
             \/ answered /\ pc[r] # "first" /\ Passes(r)
    /\ UNCHANGED <<script, report, written>>

------------------------------------------------------------------------------
(* Path.write_text empties the file before it writes it.                   *)
Truncate(r) ==
    /\ pc[r] = "write"
    /\ report' = [report EXCEPT ![script[r]] = [author |-> r, result |-> "empty"]]
    /\ Goto(r, "writing")
    /\ UNCHANGED <<script, verdict, served, written>>

(* A report that another run wrote since then may stick out at the end.    *)
Write(r) ==
    /\ pc[r] = "writing"
    /\ \E result \in IF report[script[r]].result = "empty" THEN {verdict[r]}
                     ELSE {verdict[r], "garbled"} :
          report' = [report EXCEPT ![script[r]] = [author |-> r, result |-> result]]
    /\ written' = [q \in Runs |->
                     IF q = r \/ (script[q] = script[r] /\ pc[q] # "idle")
                     THEN written[q] \cup {r} ELSE written[q]]
    /\ Goto(r, IF script[r] = "generation" THEN "closing" ELSE "returned")
    /\ UNCHANGED <<script, verdict, served>>

(* The generation check closes its provider last, in a finally block; that *)
(* it raises is no reply that was not translated.                          *)
Close(r) ==
    /\ pc[r] = "closing"
    /\ \E to \in {"returned", "refused"} : Goto(r, to)
    /\ UNCHANGED <<script, verdict, report, served, written>>

(* The disk is full, or the directory cannot be made or written.           *)
WriteRaises(r) ==
    /\ pc[r] \in {"write", "writing"}
    /\ Goto(r, "refused")
    /\ UNCHANGED <<script, verdict, report, served, written>>

Crash(r) ==
    /\ pc[r] \notin {"idle"} \cup Ended
    /\ Goto(r, "crashed")
    /\ UNCHANGED <<script, verdict, report, served, written>>

Next ==
    \E r \in Runs :
        \/ Begin(r) \/ AskReadiness(r) \/ AskText(r) \/ AskStructured(r) \/ Infer(r)
        \/ Truncate(r) \/ Write(r) \/ WriteRaises(r) \/ Close(r) \/ Crash(r)

Spec == Init /\ [][Next]_vars

------------------------------------------------------------------------------
Required ==
    [generation |-> {"readiness", "text", "structured"},
     embedding  |-> {"first", "repeat"},
     reranker   |-> {"score"}]

(* docs/generation-providers.md, "A passing report proves only this        *)
(* configured model/provider combination answered those two requests":     *)
(* whoever overlaps with the run or is killed beside it, the author of a   *)
(* report that reads passed has got every answer the check asks for, the   *)
(* text from the content of the reply and never from its reasoning.        *)
PassIsEarned ==
    \A s \in Scripts :
        report[s].result = "passed" => served[report[s].author] = Required[s]

(* A check that got past its write has left a verdict: the report that is  *)
(* there is not the one of an earlier run, so that a failed check cannot   *)
(* hide behind the pass before it.                                         *)
ReportIsNotStale ==
    \A r \in Runs :
        pc[r] \in {"closing", "returned"} =>
            \/ report[script[r]].author \in written[r]
            \/ report[script[r]].result = "empty"

(* "Transport, timeout, rate-limit, rejected request, malformed response,  *)
(* and schema-validation failures are translated to the provider-neutral   *)
(* result contract": no reply ends the script with an exception.           *)
FailuresAreTranslated == \A r \in Runs : pc[r] # "raised"
==============================================================================
