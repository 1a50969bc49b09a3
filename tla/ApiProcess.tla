------------------------------ MODULE ApiProcess ------------------------------
(***************************************************************************)
(* The API process as build_readiness_runtime composes it: the requests of *)
(* Readiness reach the model capabilities through ModelProvider, one call  *)
(* per request and provider, in the threads of one default executor.  A    *)
(* deadline ends the wait for a call, not the thread that runs it; and the *)
(* process ends only when the executor's threads have.                     *)
(***************************************************************************)
EXTENDS Readiness, ModelProvider

ModelProbes == Providers

ASSUME ApiAssumption ==
    /\ Providers \subseteq Probes \ Closing
    /\ Calls = Requests \X Providers

VARIABLE exited    \* the process is gone

apiVars == <<vars, providerVars, exited>>

(* The call a request makes on the capability it is probing.               *)
Own(r) == <<r, current[r]>>
AtModel(r) == current[r] \in ModelProbes

ApiInit ==
    /\ Init /\ ProviderInit
    /\ up \cap ModelProbes = {}
    /\ target = [c \in Calls |-> c[2]]
    /\ exited = FALSE

------------------------------------------------------------------------------
(* Requests.                                                               *)

ApiRequest(r) == Request(r) /\ UNCHANGED <<providerVars, exited>>

(* The other capabilities, as in Readiness.                                *)
AskService(r) ==
    /\ ~AtModel(r)
    /\ Answer(r)
    /\ UNCHANGED <<providerVars, exited>>

FlipService ==
    /\ \E p \in Probes \ ModelProbes : Flip(p)
    /\ UNCHANGED <<providerVars, exited>>

(* EmbeddingReadinessProbe and RerankerReadinessProbe: one call.           *)
AskModel(r) ==
    /\ pc[r] = "probing" /\ AtModel(r)
    /\ Submit(Own(r))
    /\ UNCHANGED <<vars, exited>>

(* Mutant: any finished call of the provider counts as the probe's.        *)
ModelAnswers_of_another(r) ==
    /\ AtModel(r)
    /\ \E c \in Calls :
          /\ c[2] = current[r]
          /\ \/ caller[c] = "answered" /\ Settle(r, "ready")
             \/ caller[c] = "failed" /\ \E status \in Failures : Settle(r, status)
    /\ UNCHANGED <<providerVars, exited>>

(* The probe maps the outcome of its call; the deadline may come first.    *)
ModelAnswers(r) ==
    /\ AtModel(r)
    /\ \/ caller[Own(r)] = "answered" /\ Settle(r, "ready")
       \/ caller[Own(r)] = "failed" /\ \E status \in Failures : Settle(r, status)
    /\ UNCHANGED <<providerVars, exited>>

(* Receive, Close and CloseLate concern the request only.                  *)
ApiReceive(r) ==
    /\ Receive(r) \/ Close(r)
    /\ UNCHANGED <<providerVars, exited>>

ApiCloseLate(r) == CloseLate(r) /\ UNCHANGED <<providerVars, exited>>

(* wait_for cancels the await of to_thread.  Its deadline runs from when   *)
(* the call was submitted.                                                 *)
ApiTimeout(r) ==
    /\ Timeout(r)
    /\ IF ~AtModel(r) THEN UNCHANGED providerVars
       ELSE IF pc[r] = "answered" THEN UNCHANGED providerVars
       ELSE IF caller[Own(r)] = "waiting" THEN GiveUp(Own(r))
       ELSE caller[Own(r)] # "idle" /\ UNCHANGED providerVars
    /\ UNCHANGED exited

------------------------------------------------------------------------------
(* Threads, and what they leave behind when nobody listens any more.       *)

(* A model capability is up for a request whose call it has answered.      *)
Observed(c) ==
    /\ seen' = [seen EXCEPT ![c[1]] =
                   IF caller'[c] # caller[c] /\ caller'[c] = "answered"
                   THEN @ \cup {"up"} ELSE @]
    /\ UNCHANGED up

ApiThread(c) ==
    /\ ThreadStep(c)
    /\ Observed(c)
    /\ UNCHANGED <<requestVars, process, exited>>

ApiLoader(c) ==
    /\ LoaderStep(c)
    /\ Observed(c)
    /\ UNCHANGED <<requestVars, process, exited>>

ApiLifespan ==
    /\ Shutdown \/ CloseGeneration \/ DisposePostgres
    /\ UNCHANGED <<providerVars, exited>>

(* The end of asyncio.run and of the interpreter joins every thread of the *)
(* executor, whoever waits for it.                                         *)
Exit ==
    /\ process = "stopped" /\ ~exited
    /\ \A c \in Calls : job[c] \in {"none", "done"}
    /\ exited' = TRUE
    /\ UNCHANGED <<vars, providerVars>>

------------------------------------------------------------------------------
ApiContinue(r) ==
    AskModel(r) \/ ModelAnswers(r) \/ ApiReceive(r) \/ ApiTimeout(r)

ApiNext ==
    \/ FlipService
    \/ \E r \in Requests :
          ApiRequest(r) \/ AskService(r) \/ ApiContinue(r) \/ ApiCloseLate(r)
    \/ \E c \in Calls : ApiThread(c) \/ ApiLoader(c)
    \/ ApiLifespan \/ Exit

ApiSpec == ApiInit /\ [][ApiNext]_apiVars

(* Readiness and ModelProvider with their fairness, and a process that     *)
(* leaves when it can.  Each subscript has what every step of its action   *)
(* changes.                                                                *)
ApiFairSpec ==
    /\ ApiSpec
    /\ \A r \in Requests :
          WF_<<pc, current, caller>>(ApiContinue(r) \/ ApiCloseLate(r))
    /\ \A c \in Calls :
          WF_job(ApiThread(c) \/ (target[c] \notin Silent /\ ApiLoader(c)))
    /\ WF_<<process, exited>>((process # "serving" /\ ApiLifespan) \/ Exit)

------------------------------------------------------------------------------
(* What a reply says of a model capability is what the call of this very   *)
(* request found, and "ready" means a model that is set up; a              *)
(* call that is late or another request's changes neither.                 *)
ModelReportIsOwn ==
    \A r \in Requests, p \in ModelProbes :
        /\ report[r][p] = "ready" => caller[<<r, p>>] = "answered" /\ SetUp(p)
        /\ report[r][p] \in {"failed", "error"} => caller[<<r, p>>] = "failed"

(* Once its requests are served and its resources released, the process    *)
(* ends, whatever calls have timed out, unless a loader never returns.     *)
ProcessExits ==
    <>[](process = "stopped" =>
            \/ exited
            \/ \E c \in Calls : target[c] \in Silent /\ job[c] = "loading")
==============================================================================
