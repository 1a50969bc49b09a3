-------------------------- MODULE GenerationProvider --------------------------
(***************************************************************************)
(* The HTTP generation adapters as functions from what the local runtime   *)
(* replies to what the caller gets: a readiness status, a response, a      *)
(* classified failure, or an exception that nothing translated.            *)
(*                                                                         *)
(* A text is abstracted to whether it is there, empty, prose, or a JSON    *)
(* text that fits the schema of the request.                               *)
(***************************************************************************)
EXTENDS Integers

Contents == {"none", "empty", "prose", "fits"}

(* The body of a reply to a chat request: bytes that are no text, text     *)
(* that is no JSON, or JSON with a native message (Ollama), or with a      *)
(* first choice (OpenAI-compatible), or with neither.                      *)
ChatBodies ==
    [json : {"undecodable", "invalid"}]
    \cup [json : {"parsed"}, message : Contents, content : {"none"}, reasoning : {"none"}]
    \cup [json : {"parsed"}, message : {"none"}, content : Contents, reasoning : Contents]

(* The body of a reply to a request for the visible models.                *)
ListBodies ==
    [json : {"undecodable", "invalid"}]
    \cup [json : {"parsed"}, models : {"malformed", "absent", "listed"}]

(* corrupt: httpx cannot decode the content encoding (a DecodingError,     *)
(* which is a RequestError and not a TransportError).                      *)
FailedRequests == [kind : {"timeout", "transport", "corrupt", "rate_limited", "error"}]
Replies(bodies) == FailedRequests \cup [kind : {"ok"}, body : bodies]

Retryable(failure) == failure \in {"transport_error", "timeout", "rate_limited"}

Response(value) == [type |-> "response", value |-> value]
Failure(kind) == [type |-> "failure", value |-> kind]
Raised == [type |-> "raised", value |-> "none"]

------------------------------------------------------------------------------
Translated ==
    [timeout      |-> "timeout",
     transport    |-> "transport_error",
     rate_limited |-> "rate_limited",
     error        |-> "provider_rejected"]

(* _request: two classes of httpx exceptions and the error statuses become *)
(* failures.                                                               *)
RequestResult(reply) ==
    IF reply.kind \in DOMAIN Translated THEN Failure(Translated[reply.kind])
    ELSE IF reply.kind = "corrupt" THEN Raised
    ELSE Response(reply.body)

(* readiness_status: UnicodeDecodeError is a ValueError, so that here only *)
(* an exception of the request itself escapes.                             *)
ReadinessStatus(reply) ==
    LET result == RequestResult(reply)
    IN  CASE result.type = "raised" -> "raised"
          [] result.type = "failure" -> IF Retryable(result.value) THEN "error" ELSE "failed"
          [] result.type = "response" ->
                IF result.value.json # "parsed" \/ result.value.models = "malformed"
                THEN "error"
                ELSE IF result.value.models = "listed" THEN "ready" ELSE "failed"

(* Mutant: reasoning stands in for the content of every request.           *)
ResponseContent_any_reasoning(body, structured) ==
    IF body.message # "none" THEN body.message
    ELSE IF body.content \notin {"none", "empty"} THEN body.content
    ELSE body.reasoning

(* _response_content of a parsed body: a native message wins, even an      *)
(* empty one; only a structured request falls back to reasoning_content.   *)
ResponseContent(body, structured) ==
    IF body.message # "none" THEN body.message
    ELSE IF body.content \notin {"none", "empty"} THEN body.content
    ELSE IF structured THEN body.reasoning
    ELSE "none"

(* What both generate calls do with a reply before they look at the text.  *)
ContentResult(reply, structured) ==
    LET result == RequestResult(reply)
    IN  IF result.type # "response" THEN result
        ELSE IF result.value.json = "undecodable" THEN Raised
        ELSE IF result.value.json = "invalid" THEN Failure("malformed_response")
        ELSE LET content == ResponseContent(result.value, structured)
             IN  IF content = "none" THEN Failure("malformed_response")
                                     ELSE Response(content)

GenerateText(reply) == ContentResult(reply, FALSE)

(* The content has to validate against the schema of the caller.           *)
GenerateStructured(reply) ==
    LET result == ContentResult(reply, TRUE)
    IN  IF result.type = "response" /\ result.value # "fits"
        THEN Failure("validation_failure")
        ELSE result
==============================================================================
