------------------------ MODULE CapabilitySmoke_proofs ------------------------
(***************************************************************************)
(* Proofs about the capability checks, for every number of overlapping and *)
(* killed runs: a report that reads passed was earned, and a run that      *)
(* returned has replaced the report.                                       *)
(***************************************************************************)
EXTENDS CapabilitySmoke, TLAPS

QuestionsOf ==
    [generation |-> {"readiness", "text", "structured"},
     embedding  |-> {"first", "repeat"},
     reranker   |-> {"score"}]

(* What was answered before a question is asked.                           *)
Before(question) ==
    IF question = "text" THEN {"readiness"}
    ELSE IF question = "structured" THEN {"readiness", "text"}
    ELSE IF question = "repeat" THEN {"first"}
    ELSE {}

(* A run asks the questions of its script in their order, and intends to   *)
(* report a pass only when each of them was answered.                      *)
QuestionInv(r) ==
    /\ pc[r] = "idle" => served[r] = {}
    /\ pc[r] \in Questions =>
          pc[r] \in QuestionsOf[script[r]] /\ served[r] = Before(pc[r])
    /\ verdict[r] = "passed" =>
          /\ pc[r] \in {"write", "writing", "closing"} \cup Ended
          /\ served[r] = Required[script[r]]

(* A report is by a run of its script, and a pass is by one that passed.   *)
ReportInv(s) ==
    report[s].result = "passed" =>
        /\ report[s].author \in Runs
        /\ script[report[s].author] = s
        /\ verdict[report[s].author] = "passed"

NotStale(r) ==
    pc[r] \in {"closing", "returned"} =>
        \/ report[script[r]].author \in written[r]
        \/ report[script[r]].result = "empty"

SmokeInv ==
    /\ TypeOK
    /\ \A r \in Runs : QuestionInv(r) /\ NotStale(r)
    /\ \A s \in Scripts : ReportInv(s)

------------------------------------------------------------------------------
(* What the outcomes of GenerationProvider say about the reply.            *)

(* A request that was not answered is a failure or an exception.           *)
LEMMA UnansweredIsNoResponse ==
    ASSUME NEW bodies, NEW reply \in Replies(bodies)
    PROVE  /\ reply.kind = "ok" =>
                 reply.body \in bodies /\ RequestResult(reply) = Response(reply.body)
           /\ reply.kind # "ok" =>
                 \/ RequestResult(reply) = Raised
                 \/ \E kind : RequestResult(reply) = Failure(kind)
<1>1. CASE reply \in [kind : {"ok"}, body : bodies]
  BY <1>1 DEF RequestResult, Translated
<1>2. CASE reply \in FailedRequests
  <2>1. /\ DOMAIN Translated = {"timeout", "transport", "rate_limited", "error"}
        /\ reply.kind \in {"timeout", "transport", "corrupt", "rate_limited", "error"}
    BY <1>2 DEF Translated, FailedRequests
  <2>2. CASE reply.kind = "corrupt"
    BY <2>1, <2>2 DEF RequestResult
  <2>3. CASE reply.kind # "corrupt"
    <3>1. RequestResult(reply) = Failure(Translated[reply.kind]) /\ reply.kind # "ok"
      BY <2>1, <2>3 DEF RequestResult
    <3> QED BY <3>1
  <2> QED BY <2>2, <2>3
<1> QED BY <1>1, <1>2 DEF Replies

LEMMA ResultTypes ==
    /\ Raised.type = "raised"
    /\ \A x : Failure(x).type = "failure"
    /\ \A x : Response(x).type = "response" /\ Response(x).value = x
BY DEF Raised, Failure, Response

LEMMA ReadyIsListed ==
    ASSUME NEW reply \in Replies(ListBodies), ReadinessStatus(reply) = "ready"
    PROVE  /\ reply.kind = "ok" /\ reply.body.json = "parsed"
           /\ reply.body.models = "listed"
<1>1. CASE reply.kind = "ok"
  BY <1>1, UnansweredIsNoResponse DEF ReadinessStatus, Response
<1>2. CASE RequestResult(reply) = Raised
  BY <1>2 DEF ReadinessStatus, Raised
<1>3. ASSUME NEW kind, RequestResult(reply) = Failure(kind)
      PROVE  FALSE
  <2>1. ReadinessStatus(reply) = IF Retryable(kind) THEN "error" ELSE "failed"
    BY <1>3 DEF ReadinessStatus, Failure
  <2> QED BY <2>1
<1> QED BY <1>1, <1>2, <1>3, UnansweredIsNoResponse

(* A text response is the content of the reply and never its reasoning.    *)
LEMMA TextIsContent ==
    ASSUME NEW reply \in Replies(ChatBodies), GenerateText(reply).type = "response"
    PROVE  /\ reply.kind = "ok" /\ reply.body.json = "parsed"
           /\ reply.body.message # "none" \/ reply.body.content \notin {"none", "empty"}
<1>1. RequestResult(reply).type = "response"
  BY DEF GenerateText, ContentResult
<1>2. reply.kind = "ok" /\ RequestResult(reply) = Response(reply.body)
  BY <1>1, UnansweredIsNoResponse DEF Raised, Failure
<1>3. reply.body \in ChatBodies
  BY <1>2, UnansweredIsNoResponse
<1>4. reply.body.json \in {"undecodable", "invalid", "parsed"}
  BY <1>3 DEF ChatBodies
<1>5. ContentResult(reply, FALSE) =
        IF reply.body.json = "undecodable" THEN Raised
        ELSE IF reply.body.json = "invalid" THEN Failure("malformed_response")
        ELSE IF ResponseContent(reply.body, FALSE) = "none"
             THEN Failure("malformed_response")
             ELSE Response(ResponseContent(reply.body, FALSE))
  BY <1>2 DEF ContentResult, Response
<1>6. reply.body.json = "parsed" /\ ResponseContent(reply.body, FALSE) # "none"
  BY <1>4, <1>5, ResultTypes DEF GenerateText
<1> QED BY <1>2, <1>6 DEF ResponseContent

(* A structured response fits, wherever in the reply it came from.         *)
LEMMA StructuredFits ==
    ASSUME NEW reply \in Replies(ChatBodies), GenerateStructured(reply).type = "response"
    PROVE  /\ reply.kind = "ok" /\ reply.body.json = "parsed"
           /\ "fits" \in {reply.body.message, reply.body.content, reply.body.reasoning}
<1>1. /\ ContentResult(reply, TRUE).type = "response"
      /\ ContentResult(reply, TRUE).value = "fits"
  BY DEF GenerateStructured, Failure
<1>2. RequestResult(reply).type = "response"
  BY <1>1 DEF ContentResult
<1>3. reply.kind = "ok" /\ RequestResult(reply) = Response(reply.body)
  BY <1>2, UnansweredIsNoResponse DEF Raised, Failure
<1>4. reply.body.json \in {"undecodable", "invalid", "parsed"}
  BY <1>3, UnansweredIsNoResponse DEF ChatBodies
<1>5. ContentResult(reply, TRUE) =
        IF reply.body.json = "undecodable" THEN Raised
        ELSE IF reply.body.json = "invalid" THEN Failure("malformed_response")
        ELSE IF ResponseContent(reply.body, TRUE) = "none"
             THEN Failure("malformed_response")
             ELSE Response(ResponseContent(reply.body, TRUE))
  BY <1>3 DEF ContentResult, Response
<1>6. reply.body.json = "parsed" /\ ResponseContent(reply.body, TRUE) = "fits"
  BY <1>1, <1>4, <1>5, ResultTypes
<1> QED BY <1>3, <1>6 DEF ResponseContent

------------------------------------------------------------------------------
LEMMA ScriptIsKnown ==
    ASSUME TypeOK, NEW r \in Runs
    PROVE  script[r] \in {"generation", "embedding", "reranker"}
BY SmokeAssumption DEF TypeOK

LEMMA SmokeInitInv == Init => SmokeInv
<1> SUFFICES ASSUME Init PROVE SmokeInv
  OBVIOUS
<1>1. TypeOK
  BY DEF Init, TypeOK, NoReport
<1>2. ASSUME NEW r \in Runs PROVE QuestionInv(r) /\ NotStale(r)
  BY DEF Init, QuestionInv, NotStale, Questions
<1>3. ASSUME NEW s \in Scripts PROVE ReportInv(s)
  BY DEF Init, ReportInv, NoReport
<1> QED BY <1>1, <1>2, <1>3 DEF SmokeInv

(* A step of r that writes no report and does not return.                  *)
LEMMA UnreportedKeepsInv ==
    ASSUME SmokeInv, NEW r \in Runs, TypeOK',
           UNCHANGED <<script, report, written>>,
           \A q \in Runs \ {r} :
              pc'[q] = pc[q] /\ verdict'[q] = verdict[q] /\ served'[q] = served[q],
           verdict[r] = "passed" => verdict'[r] = "passed",
           pc'[r] \notin {"closing", "returned"},
           QuestionInv(r)'
    PROVE  SmokeInv'
<1>1. ASSUME NEW q \in Runs \ {r} PROVE QuestionInv(q)' /\ NotStale(q)'
  BY DEF SmokeInv, QuestionInv, NotStale
<1>2. NotStale(r)'
  BY DEF NotStale
<1>3. ASSUME NEW s \in Scripts PROVE ReportInv(s)'
  BY DEF SmokeInv, ReportInv
<1> QED BY <1>1, <1>2, <1>3 DEF SmokeInv

(* A question was asked: without an answer the run is going to report a    *)
(* failure or ends, with one it asks the next question or passes.          *)
Unanswered(r, to) ==
    /\ to \in {"write", "raised"}
    /\ UNCHANGED verdict
    /\ served' \in {served, [served EXCEPT ![r] = served[r] \cup {pc[r]}]}

Answered(r, to) ==
    /\ served' = [served EXCEPT ![r] = served[r] \cup {pc[r]}]
    /\ \/ /\ \/ pc[r] = "readiness" /\ to = "text"
             \/ pc[r] = "text" /\ to = "structured"
             \/ pc[r] = "first" /\ to = "repeat"
          /\ UNCHANGED verdict
       \/ /\ pc[r] \in {"structured", "repeat", "score"} /\ to = "write"
          /\ verdict' = [verdict EXCEPT ![r] = "passed"]

LEMMA QuestionKeepsInv ==
    ASSUME SmokeInv, NEW r \in Runs, NEW to,
           pc[r] \in Questions,
           pc' = [pc EXCEPT ![r] = to],
           UNCHANGED <<script, report, written>>,
           Unanswered(r, to) \/ Answered(r, to)
    PROVE  SmokeInv'
<1>1. /\ TypeOK /\ QuestionInv(r)
      /\ pc[r] \in QuestionsOf[script[r]] /\ served[r] = Before(pc[r])
      /\ verdict[r] # "passed" /\ verdict[r] = "failed"
  BY DEF SmokeInv, QuestionInv, Questions, Ended, TypeOK
<1>2. /\ served[r] \cup {pc[r]} \in SUBSET Questions
      /\ served[r] \in SUBSET Questions
  BY <1>1 DEF TypeOK
<1>3. to \in {"write", "raised", "text", "structured", "repeat"}
  BY DEF Unanswered, Answered
<1>4. TypeOK'
  <2>1. pc' \in [Runs -> {"idle", "write", "writing", "closing"} \cup Questions \cup Ended]
    BY <1>1, <1>3 DEF TypeOK, Questions, Ended
  <2>2. verdict' \in [Runs -> {"failed", "passed"}]
    BY <1>1 DEF TypeOK, Unanswered, Answered
  <2>3. served' \in [Runs -> SUBSET Questions]
    BY <1>1, <1>2 DEF TypeOK, Unanswered, Answered
  <2> QED BY <1>1, <2>1, <2>2, <2>3 DEF TypeOK
<1>5. /\ pc'[r] = to
      /\ \A q \in Runs \ {r} :
            pc'[q] = pc[q] /\ verdict'[q] = verdict[q] /\ served'[q] = served[q]
  BY <1>1 DEF TypeOK, Unanswered, Answered
<1>6. QuestionInv(r)'
  <2>1. CASE Unanswered(r, to)
    BY <1>1, <1>5, <2>1 DEF Unanswered, QuestionInv, Questions
  <2>2. CASE Answered(r, to) /\ UNCHANGED verdict
    <3>1. served'[r] = served[r] \cup {pc[r]} /\ verdict'[r] # "passed"
      BY <1>1, <2>2 DEF Answered, TypeOK
    <3>2. \/ pc[r] = "readiness" /\ to = "text"
          \/ pc[r] = "text" /\ to = "structured"
          \/ pc[r] = "first" /\ to = "repeat"
      BY <1>1, <2>2 DEF Answered, TypeOK
    <3>3. /\ to \in QuestionsOf[script[r]]
          /\ served[r] \cup {pc[r]} = Before(to)
      BY <1>1, <3>2, ScriptIsKnown DEF QuestionsOf, Before
    <3> QED BY <1>5, <3>1, <3>2, <3>3 DEF QuestionInv
  <2>3. CASE /\ pc[r] \in {"structured", "repeat", "score"} /\ to = "write"
             /\ served' = [served EXCEPT ![r] = served[r] \cup {pc[r]}]
             /\ verdict' = [verdict EXCEPT ![r] = "passed"]
    <3>1. served'[r] = served[r] \cup {pc[r]}
      BY <1>1, <2>3 DEF TypeOK
    <3>2. served[r] \cup {pc[r]} = Required[script[r]]
      BY <1>1, <2>3, ScriptIsKnown DEF QuestionsOf, Before, Required
    <3> QED BY <1>5, <2>3, <3>1, <3>2 DEF QuestionInv, Questions
  <2> QED BY <2>1, <2>2, <2>3 DEF Answered
<1> QED BY <1>1, <1>3, <1>4, <1>5, <1>6, UnreportedKeepsInv

(* The two outcomes of a question, by what follows it.                     *)
LEMMA FailingKeepsInv ==
    ASSUME SmokeInv, NEW r \in Runs, pc[r] \in Questions,
           UNCHANGED <<script, report, written>>,
           Raises(r) \/ Fails(r),
           served' \in {served, [served EXCEPT ![r] = served[r] \cup {pc[r]}]}
    PROVE  SmokeInv'
<1>1. \E to \in {"write", "raised"} : pc' = [pc EXCEPT ![r] = to] /\ Unanswered(r, to)
  BY DEF Raises, Fails, Goto, Unanswered
<1> QED BY <1>1, QuestionKeepsInv

LEMMA AskReadinessKeepsInv ==
    ASSUME SmokeInv, NEW r \in Runs, AskReadiness(r)
    PROVE  SmokeInv'
<1>1. pc[r] = "readiness" /\ UNCHANGED <<script, report, written>>
  BY DEF AskReadiness
<1>2. PICK reply \in Replies(ListBodies) :
         /\ Serve(r, reply.kind = "ok" /\ reply.body.json = "parsed"
                       /\ reply.body.models = "listed")
         /\ \/ ReadinessStatus(reply) = "raised" /\ Raises(r)
            \/ ReadinessStatus(reply) = "ready" /\ Asks(r, "text")
            \/ ReadinessStatus(reply) \in {"error", "failed"} /\ Fails(r)
  BY DEF AskReadiness
<1>3. served \in [Runs -> SUBSET Questions]
  BY DEF SmokeInv, TypeOK
<1>4. CASE Raises(r) \/ Fails(r)
  <2>1. served' \in {served, [served EXCEPT ![r] = served[r] \cup {pc[r]}]}
    BY <1>2, <1>3 DEF Serve
  <2> QED BY <1>1, <1>4, <2>1, FailingKeepsInv DEF Questions
<1>5. CASE ReadinessStatus(reply) = "ready" /\ Asks(r, "text")
  <2>1. served' = [served EXCEPT ![r] = served[r] \cup {pc[r]}]
    BY <1>2, <1>5, ReadyIsListed DEF Serve
  <2>2. pc' = [pc EXCEPT ![r] = "text"] /\ Answered(r, "text")
    BY <1>1, <1>5, <2>1 DEF Asks, Goto, Answered
  <2> QED BY <1>1, <2>2, QuestionKeepsInv DEF Questions
<1> QED BY <1>2, <1>4, <1>5

LEMMA AskTextKeepsInv ==
    ASSUME SmokeInv, NEW r \in Runs, AskText(r)
    PROVE  SmokeInv'
<1>1. pc[r] = "text" /\ UNCHANGED <<script, report, written>>
  BY DEF AskText
<1>2. PICK reply \in Replies(ChatBodies) :
         /\ Serve(r, reply.kind = "ok" /\ reply.body.json = "parsed"
                       /\ (reply.body.message # "none"
                             \/ reply.body.content \notin {"none", "empty"}))
         /\ \/ GenerateText(reply).type = "raised" /\ Raises(r)
            \/ GenerateText(reply).type = "response" /\ Asks(r, "structured")
            \/ GenerateText(reply).type = "failure" /\ Fails(r)
  BY DEF AskText
<1>3. served \in [Runs -> SUBSET Questions]
  BY DEF SmokeInv, TypeOK
<1>4. CASE Raises(r) \/ Fails(r)
  <2>1. served' \in {served, [served EXCEPT ![r] = served[r] \cup {pc[r]}]}
    BY <1>2, <1>3 DEF Serve
  <2> QED BY <1>1, <1>4, <2>1, FailingKeepsInv DEF Questions
<1>5. CASE GenerateText(reply).type = "response" /\ Asks(r, "structured")
  <2>1. served' = [served EXCEPT ![r] = served[r] \cup {pc[r]}]
    BY <1>2, <1>5, TextIsContent DEF Serve
  <2>2. pc' = [pc EXCEPT ![r] = "structured"] /\ Answered(r, "structured")
    BY <1>1, <1>5, <2>1 DEF Asks, Goto, Answered
  <2> QED BY <1>1, <2>2, QuestionKeepsInv DEF Questions
<1> QED BY <1>2, <1>4, <1>5

LEMMA AskStructuredKeepsInv ==
    ASSUME SmokeInv, NEW r \in Runs, AskStructured(r)
    PROVE  SmokeInv'
<1>1. /\ pc[r] = "structured" /\ pc[r] \in Questions
      /\ UNCHANGED <<script, report, written>>
  BY DEF AskStructured, Questions
<1>2. PICK reply \in Replies(ChatBodies) :
         /\ Serve(r, reply.kind = "ok" /\ reply.body.json = "parsed"
                       /\ "fits" \in {reply.body.message, reply.body.content,
                                      reply.body.reasoning})
         /\ \/ GenerateStructured(reply).type = "raised" /\ Raises(r)
            \/ GenerateStructured(reply).type = "response" /\ Passes(r)
            \/ GenerateStructured(reply).type = "failure" /\ Fails(r)
  BY DEF AskStructured
<1>3. served \in [Runs -> SUBSET Questions]
  BY DEF SmokeInv, TypeOK
<1>4. CASE Raises(r) \/ Fails(r)
  <2>1. served' \in {served, [served EXCEPT ![r] = served[r] \cup {pc[r]}]}
    BY <1>2, <1>3 DEF Serve
  <2> QED BY <1>1, <1>4, <2>1, FailingKeepsInv
<1>5. CASE GenerateStructured(reply).type = "response" /\ Passes(r)
  <2>1. served' = [served EXCEPT ![r] = served[r] \cup {pc[r]}]
    BY <1>2, <1>5, StructuredFits DEF Serve
  <2>2. \E to : pc' = [pc EXCEPT ![r] = to] /\ Answered(r, to)
    BY <1>1, <1>5, <2>1 DEF Passes, Goto, Answered
  <2> QED BY <1>1, <2>2, QuestionKeepsInv
<1> QED BY <1>2, <1>4, <1>5

LEMMA InferKeepsInv ==
    ASSUME SmokeInv, NEW r \in Runs, Infer(r)
    PROVE  SmokeInv'
<1>1. /\ pc[r] \in {"first", "repeat", "score"} /\ pc[r] \in Questions
      /\ UNCHANGED <<script, report, written>>
  BY DEF Infer, Questions
<1>2. served \in [Runs -> SUBSET Questions]
  BY DEF SmokeInv, TypeOK
<1>3. CASE Serve(r, FALSE) /\ Fails(r)
  <2>1. served' = served
    BY <1>2, <1>3 DEF Serve
  <2> QED BY <1>1, <1>3, <2>1, FailingKeepsInv
<1>4. CASE /\ Serve(r, TRUE)
           /\ (pc[r] = "first" /\ Asks(r, "repeat")) \/ (pc[r] # "first" /\ Passes(r))
  <2>1. served' = [served EXCEPT ![r] = served[r] \cup {pc[r]}]
    BY <1>4 DEF Serve
  <2>2. CASE pc[r] = "first" /\ Asks(r, "repeat")
    <3>1. pc' = [pc EXCEPT ![r] = "repeat"] /\ Answered(r, "repeat")
      BY <2>1, <2>2 DEF Asks, Goto, Answered
    <3> QED BY <1>1, <3>1, QuestionKeepsInv
  <2>3. CASE pc[r] # "first" /\ Passes(r)
    <3>1. \E to : pc' = [pc EXCEPT ![r] = to] /\ Answered(r, to)
      BY <1>1, <2>1, <2>3 DEF Passes, Goto, Answered
    <3> QED BY <1>1, <3>1, QuestionKeepsInv
  <2> QED BY <1>4, <2>2, <2>3
<1> QED BY <1>3, <1>4 DEF Infer

LEMMA ControlKeepsInv ==
    ASSUME SmokeInv, NEW r \in Runs, Begin(r) \/ WriteRaises(r) \/ Crash(r)
    PROVE  SmokeInv'
<1>1. UNCHANGED <<script, verdict, report, served, written>>
  BY DEF Begin, WriteRaises, Crash
<1>2. TypeOK /\ QuestionInv(r) /\ script[r] \in {"generation", "embedding", "reranker"}
  BY ScriptIsKnown DEF SmokeInv
<1>3. PICK to :
         /\ pc' = [pc EXCEPT ![r] = to]
         /\ \/ to \in {"refused", "crashed"}
            \/ pc[r] = "idle" /\ to = FirstQuestion[script[r]]
  BY DEF Begin, WriteRaises, Crash, Goto
<1>4. pc[r] = "idle" =>
         /\ FirstQuestion[script[r]] \in QuestionsOf[script[r]]
         /\ FirstQuestion[script[r]] \in {"readiness", "first", "score"}
  BY <1>2 DEF FirstQuestion, QuestionsOf
<1>5. to \in {"refused", "crashed", "readiness", "first", "score"}
  BY <1>3, <1>4
<1>6. TypeOK' /\ pc'[r] = to /\ \A q \in Runs \ {r} : pc'[q] = pc[q]
  BY <1>1, <1>2, <1>3, <1>5 DEF TypeOK, Questions, Ended
<1>7. QuestionInv(r)'
  <2>1. CASE to \in {"refused", "crashed"}
    BY <1>1, <1>2, <1>6, <2>1 DEF QuestionInv, Questions, Ended
  <2>2. CASE pc[r] = "idle" /\ to \in {"readiness", "first", "score"}
    <3>1. served'[r] = Before(to) /\ verdict'[r] # "passed"
      BY <1>1, <1>2, <2>2 DEF QuestionInv, Before, Ended
    <3>2. to \in QuestionsOf[script[r]]
      BY <1>3, <1>4, <2>2
    <3> QED BY <1>1, <1>6, <2>2, <3>1, <3>2 DEF QuestionInv
  <2> QED BY <1>3, <1>4, <2>1, <2>2
<1>8. pc'[r] \notin {"closing", "returned"}
  BY <1>5, <1>6
<1> QED BY <1>1, <1>6, <1>7, <1>8, UnreportedKeepsInv

(* A step that replaces the report of its script, by nothing or by its own *)
(* verdict.                                                                *)
LEMMA ReportKeepsInv ==
    ASSUME SmokeInv, NEW r \in Runs, NEW to \in {"writing", "closing", "returned"},
           NEW result \in {"empty", "garbled", "failed", "passed"},
           pc[r] \in {"write", "writing"},
           pc' = [pc EXCEPT ![r] = to],
           report' = [report EXCEPT ![script[r]] = [author |-> r, result |-> result]],
           UNCHANGED <<script, verdict, served>>,
           result = "passed" => verdict[r] = "passed",
           written' \in [Runs -> SUBSET Runs],
           \A q \in Runs : written[q] \subseteq written'[q],
           result # "empty" =>
               \A q \in Runs : q = r \/ (script[q] = script[r] /\ pc[q] # "idle")
                                  => r \in written'[q],
           to # "writing" => result # "empty"
    PROVE  SmokeInv'
<1>1. TypeOK /\ script[r] \in Scripts
  BY DEF SmokeInv, TypeOK
<1>2. /\ report'[script[r]].author = r /\ report'[script[r]].result = result
      /\ \A s \in Scripts \ {script[r]} : report'[s] = report[s]
      /\ pc'[r] = to /\ \A q \in Runs \ {r} : pc'[q] = pc[q]
  BY <1>1 DEF TypeOK
<1>3. TypeOK'
  <2>1. report' \in [Scripts -> [author : Runs \cup {Nobody},
                                 result : {"none", "empty", "garbled", "failed", "passed"}]]
    BY <1>1 DEF TypeOK
  <2>2. pc' \in [Runs -> {"idle", "write", "writing", "closing"} \cup Questions \cup Ended]
    BY <1>1 DEF TypeOK, Ended
  <2> QED BY <1>1, <2>1, <2>2 DEF TypeOK
<1>4. ASSUME NEW q \in Runs PROVE QuestionInv(q)'
  <2>1. CASE q = r
    BY <1>2, <2>1 DEF SmokeInv, QuestionInv, Questions, Ended
  <2>2. CASE q # r
    BY <1>2, <2>2 DEF SmokeInv, QuestionInv
  <2> QED BY <2>1, <2>2
<1>5. ASSUME NEW q \in Runs, pc'[q] \in {"closing", "returned"}
      PROVE  \/ report'[script[q]].author \in written'[q]
             \/ report'[script[q]].result = "empty"
  <2>1. CASE script[q] = script[r]
    <3>1. q = r \/ pc[q] # "idle"
      BY <1>2, <1>5
    <3> QED BY <1>2, <2>1, <3>1
  <2>2. CASE script[q] # script[r]
    <3>1. q # r /\ script[q] \in Scripts
      BY <1>1, <2>2 DEF TypeOK
    <3>2. report'[script[q]] = report[script[q]] /\ pc[q] \in {"closing", "returned"}
      BY <1>2, <1>5, <2>2, <3>1
    <3> QED BY <3>2 DEF SmokeInv, NotStale
  <2> QED BY <2>1, <2>2
<1>6. ASSUME NEW s \in Scripts PROVE ReportInv(s)'
  BY <1>1, <1>2 DEF SmokeInv, ReportInv
<1>7. \A q \in Runs : NotStale(q)'
  BY <1>5 DEF NotStale
<1> QED BY <1>3, <1>4, <1>6, <1>7 DEF SmokeInv

LEMMA WritingKeepsInv ==
    ASSUME SmokeInv, NEW r \in Runs, Truncate(r) \/ Write(r)
    PROVE  SmokeInv'
<1>1. TypeOK
  BY DEF SmokeInv
<1>2. CASE Truncate(r)
  BY <1>1, <1>2, ReportKeepsInv DEF Truncate, Goto, TypeOK
<1>3. CASE Write(r)
  <2>1. PICK result \in {verdict[r], "garbled"} :
           report' = [report EXCEPT ![script[r]] = [author |-> r, result |-> result]]
    BY <1>3 DEF Write
  <2>2. /\ result \in {"empty", "garbled", "failed", "passed"}
        /\ result # "empty"
        /\ result = "passed" => verdict[r] = "passed"
    BY <1>1, <2>1 DEF TypeOK
  <2>3. /\ written' = [q \in Runs |->
                        IF q = r \/ (script[q] = script[r] /\ pc[q] # "idle")
                        THEN written[q] \cup {r} ELSE written[q]]
        /\ \E to \in {"closing", "returned"} : pc' = [pc EXCEPT ![r] = to]
        /\ UNCHANGED <<script, verdict, served>>
        /\ pc[r] \in {"write", "writing"}
    BY <1>3 DEF Write, Goto
  <2>4. /\ written' \in [Runs -> SUBSET Runs]
        /\ \A q \in Runs : written[q] \subseteq written'[q]
        /\ \A q \in Runs : q = r \/ (script[q] = script[r] /\ pc[q] # "idle")
                              => r \in written'[q]
    BY <1>1, <2>3 DEF TypeOK
  <2> QED BY <2>1, <2>2, <2>3, <2>4, ReportKeepsInv
<1> QED BY <1>2, <1>3

(* Closing leaves what the check has reported.                             *)
LEMMA CloseKeepsInv ==
    ASSUME SmokeInv, NEW r \in Runs, Close(r)
    PROVE  SmokeInv'
<1>1. PICK to \in {"returned", "refused"} : pc' = [pc EXCEPT ![r] = to]
  BY DEF Close, Goto
<1>2. pc[r] = "closing" /\ TypeOK /\ UNCHANGED <<script, verdict, report, served, written>>
  BY DEF Close, SmokeInv
<1>3. pc'[r] = to /\ \A q \in Runs \ {r} : pc'[q] = pc[q]
  BY <1>1, <1>2 DEF TypeOK
<1>4. TypeOK'
  BY <1>1, <1>2 DEF TypeOK, Ended
<1>5. ASSUME NEW q \in Runs PROVE QuestionInv(q)' /\ NotStale(q)'
  BY <1>2, <1>3 DEF SmokeInv, QuestionInv, NotStale, Questions, Ended
<1>6. \A s \in Scripts : ReportInv(s)'
  BY <1>2 DEF SmokeInv, ReportInv
<1> QED BY <1>4, <1>5, <1>6 DEF SmokeInv

LEMMA SmokeNextKeepsInv ==
    ASSUME SmokeInv, [Next]_vars
    PROVE  SmokeInv'
<1>1. CASE UNCHANGED vars
  BY <1>1 DEF vars, SmokeInv, TypeOK, QuestionInv, NotStale, ReportInv
<1>2. ASSUME NEW r \in Runs,
             \/ Begin(r) \/ AskReadiness(r) \/ AskText(r) \/ AskStructured(r) \/ Infer(r)
             \/ Truncate(r) \/ Write(r) \/ WriteRaises(r) \/ Close(r) \/ Crash(r)
      PROVE  SmokeInv'
  BY <1>2, ControlKeepsInv, AskReadinessKeepsInv, AskTextKeepsInv, AskStructuredKeepsInv,
     InferKeepsInv, WritingKeepsInv, CloseKeepsInv
<1> QED BY <1>1, <1>2 DEF Next

------------------------------------------------------------------------------
THEOREM SmokeInvariant == Spec => []SmokeInv
BY SmokeInitInv, SmokeNextKeepsInv, PTL DEF Spec

(* Reports, authors and answers have their types, however runs overlap.    *)
THEOREM SmokeTypeCorrect == Spec => []TypeOK
<1>1. SmokeInv => TypeOK
  BY DEF SmokeInv
<1> QED
  BY <1>1, SmokeInvariant, PTL

(* However runs of a check overlap or are killed, the author of a report   *)
(* that reads passed got every answer its check asks for, each from a      *)
(* reply that carries it (run_generation_smoke.py, run_embedding_smoke.py, *)
(* run_reranker_smoke.py, _response_content).                              *)
THEOREM PassesAreEarned == Spec => []PassIsEarned
<1>1. SmokeInv => PassIsEarned
  BY DEF SmokeInv, ReportInv, QuestionInv, PassIsEarned
<1> QED
  BY <1>1, SmokeInvariant, PTL

(* A check that returned has replaced the report: what is there now was    *)
(* written since the check began, or is being written (Path.write_text).   *)
THEOREM ReportsAreNotStale == Spec => []ReportIsNotStale
<1>1. SmokeInv => ReportIsNotStale
  BY DEF SmokeInv, NotStale, ReportIsNotStale
<1> QED
  BY <1>1, SmokeInvariant, PTL
==============================================================================
