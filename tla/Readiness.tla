------------------------------ MODULE Readiness ------------------------------
(***************************************************************************)
(* GET /ready in the API process: ReadinessService.check runs the probes   *)
(* of the configured capabilities one after the other, each under          *)
(* asyncio.wait_for, while the capabilities come and go; and the end of    *)
(* the process, which waits for its requests and releases its resources.   *)
(*                                                                         *)
(* Time is abstracted: a deadline may expire at any point of a probe.      *)
(***************************************************************************)
EXTENDS Integers

CONSTANTS
    Requests,      \* GET /ready requests
    ProbeCount,    \* configured capabilities, numbered in probing order
    Closing,       \* probes that close a client in a finally block (Weaviate)
    Failures,      \* what an unavailable capability's probe may report
    CloseRaises    \* whether the generation client's aclose may raise

ASSUME ReadinessAssumption ==
    /\ ProbeCount \in Nat \ {0}
    /\ Closing \subseteq 1..ProbeCount
    /\ Failures \subseteq {"failed", "error", "timed_out"}
    /\ CloseRaises \in BOOLEAN

Probes == 1..ProbeCount
Statuses == {"ready", "failed", "error", "timed_out"}

VARIABLES
    up,         \* the capabilities that are usable now
    pc,         \* where each request is
    current,    \* the probe each request is at
    outcome,    \* what the current probe is about to return
    report,     \* the results each request has collected
    process,    \* the life of the API process
    seen        \* history: whether the capability that each request probes
                \* has been up, or down, or both, since the probe began

requestVars == <<pc, current, outcome, report>>
vars == <<up, pc, current, outcome, report, process, seen>>

(* probing: awaiting the capability; answered: its answer is on the way;   *)
(* closing: awaiting client.close(); late: the same after the deadline.    *)
InProbe == {"probing", "answered", "closing", "late"}

TypeOK ==
    /\ up \subseteq Probes
    /\ pc \in [Requests -> InProbe \cup {"idle", "replied"}]
    /\ current \in [Requests -> Probes]
    /\ outcome \in [Requests -> Statuses \cup {"none"}]
    /\ report \in [Requests -> [Probes -> Statuses \cup {"none"}]]
    /\ process \in {"serving", "closing", "disposing", "stopped"}
    /\ seen \in [Requests -> SUBSET {"up", "down"}]

Init ==
    /\ up \in SUBSET Probes
    /\ pc = [r \in Requests |-> "idle"]
    /\ current = [r \in Requests |-> 1]
    /\ outcome = [r \in Requests |-> "none"]
    /\ report = [r \in Requests |-> [p \in Probes |-> "none"]]
    /\ process = "serving"
    /\ seen = [r \in Requests |-> {}]

Active(r) == pc[r] \in InProbe

(* What a probe would see of a capability.                                 *)
Seen(p, now) == IF p \in now THEN "up" ELSE "down"

(* What is up now; the probes that run have seen it.                       *)
UpBecomes(now) ==
    /\ up' = now
    /\ seen' = [r \in Requests |->
                  IF Active(r) THEN seen[r] \cup {Seen(current[r], now)} ELSE seen[r]]

(* A capability becomes usable or unusable, at any time.                   *)
Flip(p) ==
    /\ UpBecomes(IF p \in up THEN up \ {p} ELSE up \cup {p})
    /\ UNCHANGED <<requestVars, process>>

Request(r) ==
    /\ process = "serving"
    /\ pc[r] = "idle"
    /\ pc' = [pc EXCEPT ![r] = "probing"]
    /\ seen' = [seen EXCEPT ![r] = {Seen(current[r], up)}]
    /\ UNCHANGED <<up, current, outcome, report, process>>

(* The probe has its result, which is still on its way to the service.     *)
Settle(r, status) ==
    /\ pc[r] = "probing"
    /\ outcome' = [outcome EXCEPT ![r] = status]
    /\ pc' = [pc EXCEPT ![r] = "answered"]
    /\ UNCHANGED <<up, current, report, process, seen>>

(* The capability decides on its answer; the deadline may expire, or the   *)
(* capability change, before the service has it.                           *)
Answer(r) ==
    \E status \in IF current[r] \in up THEN {"ready"} ELSE Failures :
        Settle(r, status)

(* One result is appended; the loop continues or the report is complete.   *)
Record(r, status) ==
    /\ report' = [report EXCEPT ![r][current[r]] = status]
    /\ outcome' = [outcome EXCEPT ![r] = "none"]
    /\ IF current[r] = ProbeCount
       THEN /\ pc' = [pc EXCEPT ![r] = "replied"]
            /\ UNCHANGED <<current, seen>>
       ELSE /\ pc' = [pc EXCEPT ![r] = "probing"]
            /\ current' = [current EXCEPT ![r] = @ + 1]
            /\ seen' = [seen EXCEPT ![r] = {Seen(current[r] + 1, up)}]

Receive(r) ==
    /\ pc[r] = "answered"
    /\ IF current[r] \in Closing
       THEN /\ pc' = [pc EXCEPT ![r] = "closing"]
            /\ UNCHANGED <<current, outcome, report, seen>>
       ELSE Record(r, outcome[r])
    /\ UNCHANGED <<up, process>>

(* finally: client.close(), whose own exceptions are suppressed.           *)
Close(r) ==
    /\ pc[r] = "closing"
    /\ Record(r, outcome[r])
    /\ UNCHANGED <<up, process>>

(* Mutant: probe.probe() is awaited without wait_for.                      *)
Timeout_never(r) == FALSE /\ UNCHANGED vars

(* Mutant: after a timeout the last result that was seen is used again.    *)
Timeout_keeps_result(r) ==
    /\ pc[r] \in {"probing", "answered", "closing"}
    /\ Record(r, IF current[r] = 1 THEN "timed_out" ELSE report[r][current[r] - 1])
    /\ UNCHANGED <<up, process>>

(* wait_for cancels the probe where it is: before the close of a closing   *)
(* probe its finally block still runs, now without any deadline.           *)
Timeout(r) ==
    /\ pc[r] \in {"probing", "answered", "closing"}
    /\ IF current[r] \in Closing /\ pc[r] # "closing"
       THEN /\ pc' = [pc EXCEPT ![r] = "late"]
            /\ UNCHANGED <<current, outcome, report, seen>>
       ELSE Record(r, "timed_out")
    /\ UNCHANGED <<up, process>>

CloseLate(r) ==
    /\ pc[r] = "late"
    /\ Record(r, "timed_out")
    /\ UNCHANGED <<up, process>>

------------------------------------------------------------------------------
(* The lifespan of the process.                                            *)

(* External: the server lets the requests it serves finish before it ends  *)
(* the lifespan.                                                           *)
RequestsDrained == \A r \in Requests : ~Active(r)

Shutdown ==
    /\ process = "serving"
    /\ RequestsDrained
    /\ process' = "closing"
    /\ UNCHANGED <<up, requestVars, seen>>

(* ReadinessRuntime.close: an exception of aclose skips the dispose of the *)
(* connection pool, and the process stops all the same.                    *)
CloseGeneration ==
    /\ process = "closing"
    /\ \/ process' = "disposing"
       \/ CloseRaises /\ process' = "stopped"
    /\ UNCHANGED <<up, requestVars, seen>>

DisposePostgres ==
    /\ process = "disposing"
    /\ process' = "stopped"
    /\ UNCHANGED <<up, requestVars, seen>>

------------------------------------------------------------------------------
Continue(r) == Receive(r) \/ Close(r) \/ Timeout(r)

Next ==
    \/ \E p \in Probes : Flip(p)
    \/ \E r \in Requests : Request(r) \/ Answer(r) \/ Continue(r) \/ CloseLate(r)
    \/ Shutdown \/ CloseGeneration \/ DisposePostgres

Spec == Init /\ [][Next]_vars

(* The event loop runs what is ready, deadlines expire and client.close()  *)
(* returns; a capability may stay silent for ever.                         *)
FairSpec ==
    /\ Spec
    /\ \A r \in Requests : WF_vars(Continue(r)) /\ WF_vars(CloseLate(r))
    /\ WF_vars(CloseGeneration) /\ WF_vars(DisposePostgres)

------------------------------------------------------------------------------
(* docs/readiness.md: what a reply says.                                   *)

(* Whatever capabilities do while the probes run, a result of "ready" or   *)
(* of a failure is about a moment of this very probe: none is left over    *)
(* from an earlier one, and none comes from an answer outside its check.   *)
ReportIsHonest ==
    [][\A r \in Requests, p \in Probes :
          report'[r][p] # report[r][p] =>
              /\ p = current[r]
              /\ report'[r][p] = "ready" => "up" \in seen[r]
              /\ report'[r][p] \in {"failed", "error"} => "down" \in seen[r]]_vars

(* "still returning the result for every probe that completed": a failing  *)
(* or silent capability never hides the results of those after it.         *)
ReplyCoversEveryProbe ==
    \A r \in Requests :
        pc[r] = "replied" => \A p \in Probes : report[r][p] # "none"

(* "bounded": every request that is served is answered although            *)
(* capabilities stay silent, as long as client.close() returns.            *)
EveryRequestIsAnswered == <>[](\A r \in Requests : ~Active(r))
==============================================================================
