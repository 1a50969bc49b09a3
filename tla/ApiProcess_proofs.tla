-------------------------- MODULE ApiProcess_proofs --------------------------
(***************************************************************************)
(* What the API process guarantees for any number of requests, probes,     *)
(* model providers, calls and threads: the readiness check alone, the      *)
(* model providers alone, and then the process that composes them.         *)
(***************************************************************************)
EXTENDS ApiProcess, TLAPS

(***************************************************************************)
(* 1. The readiness check, whatever the capabilities do meanwhile.         *)
(***************************************************************************)
(* The history covers the present, an answer on its way is about a moment  *)
(* of its probe, and the probes before the current one are recorded.       *)
RequestInv(r) ==
    /\ pc[r] = "idle" => current[r] = 1 /\ \A p \in Probes : report[r][p] = "none"
    /\ Active(r) => Seen(current[r], up) \in seen[r]
    /\ pc[r] \in {"answered", "closing"} =>
          /\ outcome[r] # "none"
          /\ outcome[r] = "ready" => "up" \in seen[r]
          /\ outcome[r] \in {"failed", "error"} => "down" \in seen[r]
    /\ \A p \in Probes : p < current[r] => report[r][p] # "none"
    /\ pc[r] = "replied" => \A p \in Probes : report[r][p] # "none"

ProcessInv ==
    /\ process # "serving" => \A r \in Requests : ~Active(r)

ReadinessInv ==
    /\ TypeOK
    /\ \A r \in Requests : RequestInv(r)
    /\ ProcessInv

------------------------------------------------------------------------------
LEMMA SeenType == ASSUME NEW p, NEW now PROVE Seen(p, now) \in {"up", "down"}
BY DEF Seen

LEMMA ReadinessInitInv == Init => ReadinessInv
BY ReadinessAssumption
   DEF Init, ReadinessInv, TypeOK, RequestInv, ProcessInv, Active, InProbe, Probes

(* A request that leaves the others' columns alone keeps their invariant.  *)
LEMMA OthersKeepInv ==
    ASSUME ReadinessInv, NEW r \in Requests, NEW q \in Requests, q # r,
           up' = up, pc'[q] = pc[q], current'[q] = current[q],
           outcome'[q] = outcome[q], report'[q] = report[q],
           seen'[q] = seen[q]
    PROVE  RequestInv(q)'
BY DEF ReadinessInv, RequestInv, Active

(* Recording a status keeps the request's part.                            *)
LEMMA RecordKeepsInv ==
    ASSUME ReadinessInv, NEW r \in Requests, NEW status \in Statuses,
           Active(r), Record(r, status),
           UNCHANGED <<up, process>>
    PROVE  ReadinessInv'
<1>1. PICK row \in [Probes -> Statuses \cup {"none"}] :
         /\ report' = [report EXCEPT ![r] = row]
         /\ row = [report[r] EXCEPT ![current[r]] = status]
  BY DEF Record, ReadinessInv, TypeOK
<1>2. /\ current' \in [Requests -> Probes]
      /\ current' \in {current, [current EXCEPT ![r] = current[r] + 1]}
      /\ pc' \in {[pc EXCEPT ![r] = "replied"], [pc EXCEPT ![r] = "probing"]}
      /\ seen' \in {seen, [seen EXCEPT ![r] = {Seen(current[r] + 1, up)}]}
      /\ outcome' = [outcome EXCEPT ![r] = "none"]
  <2>1. /\ current \in [Requests -> Probes]
        /\ current[r] \in 1..ProbeCount
    BY DEF ReadinessInv, TypeOK, Probes
  <2>2. CASE current[r] = ProbeCount
    BY <2>1, <2>2 DEF Record
  <2>3. CASE current[r] # ProbeCount
    <3>1. current[r] + 1 \in Probes
      BY <2>1, <2>3, ReadinessAssumption DEF Probes
    <3>2. current' = [current EXCEPT ![r] = current[r] + 1]
      BY <2>3 DEF Record
    <3> QED
      BY <2>1, <2>3, <3>1, <3>2 DEF Record
  <2> QED
    BY <2>2, <2>3
<1>3. TypeOK'
  <2>1. report' \in [Requests -> [Probes -> Statuses \cup {"none"}]]
    BY <1>1 DEF ReadinessInv, TypeOK
  <2>2. /\ pc' \in [Requests -> InProbe \cup {"idle", "replied"}]
        /\ outcome' \in [Requests -> Statuses \cup {"none"}]
    BY <1>2 DEF ReadinessInv, TypeOK, InProbe
  <2>3. seen' \in [Requests -> SUBSET {"up", "down"}]
    BY <1>2, SeenType DEF ReadinessInv, TypeOK
  <2> QED
    BY <1>2, <2>1, <2>2, <2>3 DEF ReadinessInv, TypeOK
<1>4. RequestInv(r)'
  <2>1. /\ report'[r] = row
        /\ row[current[r]] = status /\ status # "none"
        /\ \A p \in Probes \ {current[r]} : row[p] = report[r][p]
    BY <1>1 DEF ReadinessInv, TypeOK, Statuses
  <2>2. pc'[r] \in {"replied", "probing"}
    BY <1>2 DEF ReadinessInv, TypeOK
  <2>3. pc'[r] = "probing" => Seen(current'[r], up) \in seen'[r]
    BY DEF Record, ReadinessInv, TypeOK
  <2>4. \A p \in Probes : p < current'[r] => row[p] # "none"
    <3>1. current[r] \in Nat /\ current'[r] \in {current[r], current[r] + 1}
      BY <1>2, ReadinessAssumption DEF ReadinessInv, TypeOK, Probes
    <3>2. \A p \in Probes : p \in Nat /\ (p < current[r] => report[r][p] # "none")
      BY ReadinessAssumption DEF ReadinessInv, RequestInv, Probes
    <3>3. ASSUME NEW p \in Probes, p < current'[r]
          PROVE  row[p] # "none"
      <4>1. p < current[r] \/ p = current[r]
        BY <3>1, <3>2, <3>3
      <4> QED BY <2>1, <3>1, <3>2, <4>1
    <3> QED BY <3>3
  <2>5. pc'[r] = "replied" => current[r] = ProbeCount
    BY DEF Record, ReadinessInv, TypeOK
  <2>6. pc'[r] = "replied" => \A p \in Probes : row[p] # "none"
    <3>1. \A p \in Probes : p < current[r] => report[r][p] # "none"
      BY DEF ReadinessInv, RequestInv
    <3> QED BY <2>1, <2>5, <3>1, ReadinessAssumption DEF Probes
  <2> QED BY <2>1, <2>2, <2>3, <2>4, <2>6 DEF RequestInv, Active, InProbe
<1>5. ASSUME NEW q \in Requests, q # r
      PROVE  RequestInv(q)'
  BY <1>1, <1>2, <1>5, OthersKeepInv DEF ReadinessInv, TypeOK
<1>6. ProcessInv'
  BY <1>2 DEF ReadinessInv, ProcessInv, Active, TypeOK, InProbe
<1> QED
  BY <1>3, <1>4, <1>5, <1>6 DEF ReadinessInv

LEMMA FlipKeepsInv ==
    ASSUME ReadinessInv, NEW p \in Probes, Flip(p)
    PROVE  ReadinessInv'
<1>1. TypeOK'
  BY SeenType DEF ReadinessInv, TypeOK, Flip, UpBecomes, requestVars
<1>2. ASSUME NEW r \in Requests
      PROVE  RequestInv(r)'
  <2>1. /\ Active(r) => seen'[r] = seen[r] \cup {Seen(current[r], up')}
        /\ ~Active(r) => seen'[r] = seen[r]
    BY DEF ReadinessInv, TypeOK, Flip, UpBecomes
  <2>2. UNCHANGED <<pc, current, outcome, report>>
    BY DEF Flip, UpBecomes, requestVars
  <2> QED BY <2>1, <2>2 DEF ReadinessInv, RequestInv, Active, InProbe
<1>3. ProcessInv'
  BY DEF ReadinessInv, ProcessInv, Flip, UpBecomes, requestVars, Active
<1> QED
  BY <1>1, <1>2, <1>3 DEF ReadinessInv

LEMMA RequestKeepsInv ==
    ASSUME ReadinessInv, NEW r \in Requests, Request(r) \/ Answer(r)
    PROVE  ReadinessInv'
<1>1. TypeOK'
  <2>1. CASE Request(r)
    BY <2>1, SeenType DEF ReadinessInv, TypeOK, Request, InProbe
  <2>2. CASE Answer(r)
    <3>1. \E status \in Statuses : outcome' = [outcome EXCEPT ![r] = status]
      BY <2>2, ReadinessAssumption DEF Answer, Settle, Statuses
    <3> QED BY <2>2, <3>1 DEF ReadinessInv, TypeOK, Answer, Settle, InProbe
  <2> QED BY <2>1, <2>2
<1>2. RequestInv(r)'
  <2>1. CASE Request(r)
    BY <2>1, ReadinessAssumption
       DEF ReadinessInv, TypeOK, Request, RequestInv, Active, InProbe, Probes
  <2>2. CASE Answer(r)
    BY <2>2, ReadinessAssumption
       DEF ReadinessInv, TypeOK, Answer, Settle, RequestInv, Active, InProbe, Seen
  <2> QED BY <2>1, <2>2
<1>3. ASSUME NEW q \in Requests, q # r
      PROVE  RequestInv(q)'
  BY <1>3, OthersKeepInv DEF ReadinessInv, TypeOK, Request, Answer, Settle
<1>4. ProcessInv'
  BY DEF ReadinessInv, TypeOK, ProcessInv, Request, Answer, Settle, Active, InProbe
<1> QED
  BY <1>1, <1>2, <1>3, <1>4 DEF ReadinessInv

(* The deadline expires, or the answer arrives, and the client still has   *)
(* to be closed.                                                           *)
LEMMA CloseKeepsInv ==
    ASSUME ReadinessInv, NEW r \in Requests, NEW stage \in {"closing", "late"},
           pc[r] \in {"probing", "answered"}, stage = "closing" => pc[r] = "answered",
           pc' = [pc EXCEPT ![r] = stage],
           UNCHANGED <<up, current, outcome, report, process, seen>>
    PROVE  ReadinessInv'
<1>1. TypeOK'
  BY DEF ReadinessInv, TypeOK, InProbe
<1>2. RequestInv(r)'
  BY DEF ReadinessInv, TypeOK, RequestInv, Active, InProbe
<1>3. ASSUME NEW q \in Requests, q # r
      PROVE  RequestInv(q)'
  BY <1>3, OthersKeepInv DEF ReadinessInv, TypeOK
<1>4. ProcessInv'
  BY DEF ReadinessInv, TypeOK, ProcessInv, Active, InProbe
<1> QED
  BY <1>1, <1>2, <1>3, <1>4 DEF ReadinessInv

LEMMA ContinueKeepsInv ==
    ASSUME ReadinessInv, NEW r \in Requests, Continue(r) \/ CloseLate(r)
    PROVE  ReadinessInv'
<1>1. Active(r) /\ UNCHANGED <<up, process>>
  BY DEF Continue, Receive, Close, Timeout, CloseLate, Active, InProbe
<1>2. CASE Record(r, "timed_out")
  BY <1>1, <1>2, RecordKeepsInv DEF Statuses
<1>3. CASE pc[r] \in {"answered", "closing"} /\ Record(r, outcome[r])
  <2>1. PICK status \in Statuses : status = outcome[r]
    BY <1>3 DEF ReadinessInv, RequestInv, TypeOK
  <2> QED BY <1>1, <1>3, <2>1, RecordKeepsInv DEF ReadinessInv, RequestInv
<1>4. CASE \E stage \in {"closing", "late"} :
             /\ pc[r] \in {"probing", "answered"} /\ (stage = "closing" => pc[r] = "answered")
             /\ pc' = [pc EXCEPT ![r] = stage]
             /\ UNCHANGED <<current, outcome, report, seen>>
  BY <1>1, <1>4, CloseKeepsInv
<1> QED
  BY <1>2, <1>3, <1>4 DEF Continue, Receive, Close, Timeout, CloseLate

LEMMA LifespanKeepsInv ==
    ASSUME ReadinessInv, Shutdown \/ CloseGeneration \/ DisposePostgres
    PROVE  ReadinessInv'
<1>1. /\ UNCHANGED <<up, requestVars, seen>>
      /\ process' # "serving" /\ \A r \in Requests : ~Active(r)
  BY DEF Shutdown, RequestsDrained, CloseGeneration, DisposePostgres, ReadinessInv, ProcessInv
<1>2. TypeOK'
  BY <1>1 DEF ReadinessInv, TypeOK, requestVars, Shutdown, CloseGeneration, DisposePostgres
<1>3. ASSUME NEW r \in Requests
      PROVE  RequestInv(r)'
  BY <1>1 DEF ReadinessInv, RequestInv, Active, requestVars
<1>4. ProcessInv'
  BY <1>1 DEF ProcessInv, Active, requestVars
<1> QED
  BY <1>2, <1>3, <1>4 DEF ReadinessInv

LEMMA ReadinessNextKeepsInv == ReadinessInv /\ [Next]_vars => ReadinessInv'
<1> SUFFICES ASSUME ReadinessInv, [Next]_vars PROVE ReadinessInv'
  OBVIOUS
<1>1. CASE UNCHANGED vars
  BY <1>1 DEF vars, ReadinessInv, TypeOK, RequestInv, ProcessInv, Active
<1>2. CASE Next
  BY <1>2, FlipKeepsInv, RequestKeepsInv, ContinueKeepsInv, LifespanKeepsInv DEF Next
<1> QED
  BY <1>1, <1>2

------------------------------------------------------------------------------
LEMMA InvGivesProperties ==
    ReadinessInv => TypeOK /\ ReplyCoversEveryProbe
BY DEF ReadinessInv, RequestInv, ReplyCoversEveryProbe

(* What one step may write into a report.                                  *)
HonestStep ==
    \A r \in Requests, p \in Probes :
        report'[r][p] # report[r][p] =>
            /\ p = current[r]
            /\ report'[r][p] = "ready" => "up" \in seen[r]
            /\ report'[r][p] \in {"failed", "error"} => "down" \in seen[r]

LEMMA RecordIsHonest ==
    ASSUME ReadinessInv, NEW r \in Requests, NEW status \in Statuses \cup {"none"}, Record(r, status),
           status = "ready" => "up" \in seen[r],
           status \in {"failed", "error"} => "down" \in seen[r]
    PROVE  HonestStep
<1>1. PICK row \in [Probes -> Statuses \cup {"none"}] :
         /\ report' = [report EXCEPT ![r] = row]
         /\ row = [report[r] EXCEPT ![current[r]] = status]
  BY DEF Record, ReadinessInv, TypeOK
<1> QED
  BY <1>1 DEF HonestStep, ReadinessInv, TypeOK

LEMMA NextIsHonest == ReadinessInv /\ [Next]_vars => HonestStep
<1> SUFFICES ASSUME ReadinessInv, [Next]_vars PROVE HonestStep
  OBVIOUS
<1>1. CASE UNCHANGED report
  BY <1>1 DEF HonestStep
<1>2. CASE \E r \in Requests : Record(r, "timed_out")
  BY <1>2, RecordIsHonest DEF Statuses
<1>3. CASE \E r \in Requests : pc[r] \in {"answered", "closing"} /\ Record(r, outcome[r])
  <2>1. PICK r \in Requests : pc[r] \in {"answered", "closing"} /\ Record(r, outcome[r])
    BY <1>3
  <2>2. PICK status \in Statuses \cup {"none"} : status = outcome[r]
    BY DEF ReadinessInv, TypeOK
  <2> QED BY <2>1, <2>2, RecordIsHonest DEF ReadinessInv, RequestInv
<1> QED
  BY <1>1, <1>2, <1>3
     DEF Next, vars, Flip, Request, Answer, Settle, Continue, Receive, Close, Timeout,
         CloseLate, Shutdown, CloseGeneration, DisposePostgres, requestVars

THEOREM ReadinessInvariant == Spec => []ReadinessInv
<1> QED
  BY ReadinessInitInv, ReadinessNextKeepsInv, PTL DEF Spec

(* Every state of the check is of the declared types.                      *)
THEOREM TypeCorrect == Spec => []TypeOK
<1> QED
  BY ReadinessInvariant, InvGivesProperties, PTL

(* A result in a reply is about a moment of its own request and probe      *)
(* (ReadinessService._check_probe).                                        *)
THEOREM ReportsAreHonest == Spec => ReportIsHonest
<1>1. ReadinessInv /\ [Next]_vars => [HonestStep]_vars
  BY NextIsHonest
<1> QED
  BY <1>1, ReadinessInvariant, PTL DEF Spec, ReportIsHonest, HonestStep

(* No failing or silent capability ends the check early                    *)
(* (ReadinessService.check).                                               *)
THEOREM RepliesAreComplete == Spec => []ReplyCoversEveryProbe
<1> QED
  BY ReadinessInvariant, InvGivesProperties, PTL

------------------------------------------------------------------------------
(***************************************************************************)
(* 2. One model per provider, for any number of calls and threads.         *)
(***************************************************************************)
(* Who is loading holds the lock of its provider and finds it as it should *)
(* be; who uses a model uses a finished one.                               *)
CallInv(c) ==
    /\ job[c] \in Holding => lock[target[c]] = c
    /\ job[c] = "loading" => model[target[c]] = "none"
    /\ job[c] = "limiting" => model[target[c]] = "cached"
    /\ job[c] = "using" => SetUp(target[c])

(* A free lock means a model that is either absent or finished.            *)
ModelInv(p) ==
    /\ model[p] = "cached" => lock[p] # Nobody
    /\ loads[p] = IF model[p] = "none" THEN 0 ELSE 1

ProviderInv ==
    /\ StateOK
    /\ \A c \in Calls : CallInv(c)
    /\ \A p \in Providers : ModelInv(p)

------------------------------------------------------------------------------
LEMMA ProviderInitInv == ProviderInit => ProviderInv
BY DEF ProviderInit, ProviderInv, StateOK, CallInv, ModelInv, Holding, Running

(* Steps of a call that touch neither its lock nor its model.              *)
LEMMA QuietStepKeepsInv ==
    ASSUME ProviderInv, NEW c \in Calls,
           Submit(c) \/ Start(c) \/ Use(c) \/ GiveUp(c)
    PROVE  ProviderInv'
<1> USE DEF ProviderInv, Become, Finish, Running, Holding
<1>1. UNCHANGED <<target, lock, model, loads>>
  BY DEF Submit, Start, Use, GiveUp
<1>2. /\ job' \in [Calls -> {"none", "queued", "done"} \cup Running]
      /\ caller' \in [Calls -> {"idle", "waiting", "answered", "failed", "gave_up"}]
  BY DEF Submit, Start, Use, GiveUp, StateOK
<1>3. \A d \in Calls : job'[d] = job[d] \/ job'[d] \in {"queued", "locking", "done"}
  BY DEF Submit, Start, Use, GiveUp, StateOK
<1>4. StateOK'
  BY <1>1, <1>2 DEF StateOK
<1>5. \A d \in Calls : CallInv(d)'
  BY <1>1, <1>3 DEF CallInv, SetUp
<1>6. \A p \in Providers : ModelInv(p)'
  BY <1>1 DEF ModelInv
<1> QED
  BY <1>4, <1>5, <1>6

LEMMA AcquireKeepsInv ==
    ASSUME ProviderInv, NEW c \in Calls, Acquire(c)
    PROVE  ProviderInv'
<1> USE DEF ProviderInv, Become, Running, Holding
<1>1. /\ UNCHANGED <<target, caller, model, loads>>
      /\ lock[target[c]] = Nobody /\ target[c] \in Providers
  BY DEF Acquire, StateOK
<1>2. CASE model[target[c]] = "none"
  <2>1. /\ lock' = [lock EXCEPT ![target[c]] = c]
        /\ job' = [job EXCEPT ![c] = "loading"]
    BY <1>2 DEF Acquire
  <2>2. StateOK'
    BY <1>1, <2>1 DEF StateOK
  <2>3. ASSUME NEW d \in Calls
        PROVE  CallInv(d)'
    BY <1>1, <1>2, <2>1, ProviderAssumption DEF CallInv, SetUp, StateOK
  <2>4. \A p \in Providers : ModelInv(p)'
    BY <1>1, <2>1, ProviderAssumption DEF ModelInv, StateOK
  <2> QED BY <2>2, <2>3, <2>4
<1>3. CASE model[target[c]] # "none"
  <2>1. /\ UNCHANGED lock
        /\ job' = [job EXCEPT ![c] = "using"]
    BY <1>3 DEF Acquire
  <2>2. SetUp(target[c])
    BY <1>1, <1>3 DEF ModelInv, StateOK, SetUp
  <2>3. StateOK'
    BY <1>1, <2>1 DEF StateOK
  <2>4. \A d \in Calls : CallInv(d)'
    BY <1>1, <2>1, <2>2 DEF CallInv, SetUp, StateOK
  <2>5. \A p \in Providers : ModelInv(p)'
    BY <1>1, <2>1 DEF ModelInv
  <2> QED BY <2>3, <2>4, <2>5
<1> QED
  BY <1>2, <1>3

(* Only the holder of a provider's lock changes its model or its lock.     *)
LEMMA HolderIsUnique ==
    ASSUME ProviderInv, NEW c \in Calls, job[c] \in Holding,
           NEW d \in Calls, d # c, target[d] = target[c]
    PROVE  job[d] \notin Holding /\ job[d] # "using"
BY DEF ProviderInv, CallInv, SetUp, Holding

LEMMA LoadKeepsInv ==
    ASSUME ProviderInv, NEW c \in Calls, LoadReturns(c) \/ LoadRaises(c) \/ Limit(c) \/ LimitRaises(c)
    PROVE  ProviderInv'
<1> USE DEF ProviderInv, Become, Finish, Running, Holding
<1>1. /\ job[c] \in Holding /\ UNCHANGED target /\ target[c] \in Providers
      /\ \A d \in Calls \ {c} : job'[d] = job[d]
      /\ \A p \in Providers \ {target[c]} :
            lock'[p] = lock[p] /\ model'[p] = model[p] /\ loads'[p] = loads[p]
  BY DEF LoadReturns, LoadRaises, Limit, LimitRaises, StateOK
<1>2. StateOK'
  BY DEF LoadReturns, LoadRaises, Limit, LimitRaises, StateOK
<1>3. ASSUME NEW d \in Calls, d # c
      PROVE  CallInv(d)'
  <2>1. target[d] \in Providers
    BY DEF StateOK
  <2>2. CASE target[d] = target[c]
    BY <1>1, <1>3, <2>2, HolderIsUnique DEF CallInv
  <2>3. CASE target[d] # target[c]
    BY <1>1, <1>3, <2>1, <2>3 DEF CallInv, SetUp
  <2> QED BY <2>2, <2>3
<1>4. CallInv(c)'
  BY DEF CallInv, SetUp, LoadReturns, LoadRaises, Limit, LimitRaises, StateOK
<1>5. ModelInv(target[c])'
  <2>1. CASE LoadReturns(c)
    BY <2>1, ProviderAssumption DEF LoadReturns, ModelInv, CallInv, StateOK
  <2>2. CASE LoadRaises(c)
    BY <2>2 DEF LoadRaises, ModelInv, CallInv, StateOK
  <2>3. CASE Limit(c) \/ LimitRaises(c)
    BY <2>3 DEF Limit, LimitRaises, ModelInv, CallInv, StateOK
  <2> QED BY <2>1, <2>2, <2>3
<1>6. \A p \in Providers : ModelInv(p)'
  BY <1>1, <1>5 DEF ModelInv
<1> QED
  BY <1>2, <1>3, <1>4, <1>6

LEMMA ProviderNextKeepsInv == ProviderInv /\ [ProviderNext]_providerVars => ProviderInv'
<1> SUFFICES ASSUME ProviderInv, [ProviderNext]_providerVars PROVE ProviderInv'
  OBVIOUS
<1>1. CASE UNCHANGED providerVars
  BY <1>1 DEF providerVars, ProviderInv, StateOK, CallInv, ModelInv, SetUp
<1>2. CASE ProviderNext
  BY <1>2, QuietStepKeepsInv, AcquireKeepsInv, LoadKeepsInv
     DEF ProviderNext, ThreadStep, LoaderStep
<1> QED
  BY <1>1, <1>2

------------------------------------------------------------------------------
THEOREM ProviderInvariant == ProviderSpec => []ProviderInv
<1> QED
  BY ProviderInitInv, ProviderNextKeepsInv, PTL DEF ProviderSpec

(* The lock around the check and the load makes the load the only one      *)
(* (_get_model).                                                           *)
THEOREM LoadedOnce == ProviderSpec => []ModelIsLoadedOnce
<1>1. ProviderInv => ModelIsLoadedOnce
  BY DEF ProviderInv, ModelInv, StateOK, ModelIsLoadedOnce
<1> QED
  BY <1>1, ProviderInvariant, PTL

(* No thread uses a model while another sets its limit (_get_model).       *)
THEOREM UsedIsSetUp == ProviderSpec => []UsedModelIsSetUp
<1>1. ProviderInv => UsedModelIsSetUp
  BY DEF ProviderInv, CallInv, UsedModelIsSetUp
<1> QED
  BY <1>1, ProviderInvariant, PTL

------------------------------------------------------------------------------
(***************************************************************************)
(* 3. The process.  Its requests keep ReadinessInv and its calls           *)
(* ProviderInv; what relates them is that each request has a call of its   *)
(* own on each model and asks, hears and gives up only that one.           *)
(***************************************************************************)

(* A call that has answered has left a finished model behind.              *)
AnswersInv ==
    /\ \A c \in Calls : target[c] = c[2]
    /\ \A c \in Calls : caller[c] = "answered" => SetUp(c[2])
    /\ up \cap ModelProbes = {}

OwnCallInv(r) ==
    /\ \A p \in ModelProbes :
          /\ pc[r] = "idle" \/ p > current[r] => caller[<<r, p>>] = "idle"
          /\ report[r][p] = "ready" => caller[<<r, p>>] = "answered"
          /\ report[r][p] \in {"failed", "error"} => caller[<<r, p>>] = "failed"
    /\ AtModel(r) /\ pc[r] \in {"answered", "closing"} =>
          /\ outcome[r] = "ready" => caller[Own(r)] = "answered"
          /\ outcome[r] \in {"failed", "error"} => caller[Own(r)] = "failed"
    /\ AtModel(r) /\ Active(r) /\ caller[Own(r)] = "answered" => "up" \in seen[r]

ApiInv ==
    /\ ReadinessInv
    /\ ProviderInv
    /\ AnswersInv
    /\ \A r \in Requests : OwnCallInv(r)

------------------------------------------------------------------------------
(* The call of a request is a call; nothing else is submitted or given up. *)
LEMMA OwnIsCall ==
    ASSUME NEW r \in Requests, AtModel(r)
    PROVE  Own(r) \in Calls /\ Own(r)[1] = r /\ Own(r)[2] = current[r]
BY ApiAssumption DEF Own, AtModel, ModelProbes

LEMMA ApiStepsProviders ==
    ASSUME ApiNext
    PROVE  ProviderNext \/ UNCHANGED providerVars
<1>1. ASSUME NEW r \in Requests,
             \/ ApiRequest(r) \/ AskService(r) \/ ApiContinue(r) \/ ApiCloseLate(r)
      PROVE  ProviderNext \/ UNCHANGED providerVars
  <2>1. CASE AskModel(r)
    BY <2>1, OwnIsCall DEF AskModel, ProviderNext
  <2>2. CASE ApiTimeout(r)
    BY <2>2, OwnIsCall DEF ApiTimeout, ProviderNext
  <2> QED
    BY <1>1, <2>1, <2>2
       DEF ApiRequest, AskService, ApiContinue, ModelAnswers, ApiReceive, ApiCloseLate
<1>2. ASSUME NEW c \in Calls, ApiThread(c) \/ ApiLoader(c)
      PROVE  ProviderNext
  BY <1>2 DEF ApiThread, ApiLoader, ProviderNext
<1> QED
  BY <1>1, <1>2 DEF ApiNext, FlipService, ApiLifespan, Exit

(* What a step of the providers does to callers and models.                *)
LEMMA ProvidersOnlyAdvance ==
    ASSUME ProviderInv, ProviderNext \/ UNCHANGED providerVars
    PROVE  /\ target' = target
           /\ \A c \in Calls :
                 /\ caller[c] \in {"answered", "failed"} => caller'[c] = caller[c]
                 /\ caller'[c] = "answered" /\ caller[c] # "answered"
                       => caller[c] = "waiting" /\ SetUp(target[c])
           /\ \A p \in Providers : SetUp(p) => SetUp(p)'
<1> USE DEF ProviderInv, StateOK, Become, Finish
<1>1. CASE UNCHANGED providerVars
  BY <1>1 DEF providerVars, SetUp
<1>2. ASSUME NEW d \in Calls, Submit(d) \/ Start(d) \/ Acquire(d) \/ GiveUp(d)
      PROVE  /\ target' = target /\ model' = model
             /\ \A c \in Calls :
                   /\ caller[c] \in {"answered", "failed"} => caller'[c] = caller[c]
                   /\ caller'[c] = "answered" => caller[c] = "answered"
  BY <1>2 DEF Submit, Start, Acquire, GiveUp
<1>3. ASSUME NEW d \in Calls, LoadReturns(d) \/ LoadRaises(d) \/ Limit(d) \/ LimitRaises(d)
      PROVE  /\ target' = target
             /\ \A c \in Calls :
                   /\ caller[c] \in {"answered", "failed"} => caller'[c] = caller[c]
                   /\ caller'[c] = "answered" => caller[c] = "answered"
             /\ \A p \in Providers : SetUp(p) => SetUp(p)'
  BY <1>3 DEF LoadReturns, LoadRaises, Limit, LimitRaises, CallInv, SetUp
<1>4. ASSUME NEW d \in Calls, Use(d)
      PROVE  /\ target' = target /\ model' = model
             /\ \A c \in Calls :
                   /\ caller[c] \in {"answered", "failed"} => caller'[c] = caller[c]
                   /\ caller'[c] = "answered" /\ caller[c] # "answered"
                         => caller[c] = "waiting" /\ SetUp(target[c])
  BY <1>4 DEF Use, CallInv
<1> QED
  BY <1>1, <1>2, <1>3, <1>4 DEF ProviderNext, ThreadStep, LoaderStep, SetUp

(* The process runs the model providers as ModelProvider specifies them:   *)
(* what requests, deadlines and the lifespan do is one of its steps on the *)
(* request's own call, or none.                                            *)
THEOREM ProcessImplementsProviders == ApiSpec => ProviderSpec
<1>1. ApiInit => ProviderInit
  BY DEF ApiInit
<1>2. [ApiNext]_apiVars => [ProviderNext]_providerVars
  BY ApiStepsProviders DEF apiVars, providerVars
<1> QED
  BY <1>1, <1>2, PTL DEF ApiSpec, ProviderSpec

(* Requests that overlap and time out never make the process load a model  *)
(* twice (_get_model).                                                     *)
THEOREM ProcessLoadsOnce == ApiSpec => []ModelIsLoadedOnce
BY ProcessImplementsProviders, LoadedOnce, PTL

(* Nor use one that another request's thread is still setting up.          *)
THEOREM ProcessUsesSetUp == ApiSpec => []UsedModelIsSetUp
BY ProcessImplementsProviders, UsedIsSetUp, PTL

------------------------------------------------------------------------------
(* The readiness part.                                                     *)

LEMMA SettleKeepsInv ==
    ASSUME ReadinessInv, NEW r \in Requests, NEW status \in Statuses,
           Settle(r, status),
           status = "ready" => "up" \in seen[r],
           status \in {"failed", "error"} => "down" \in seen[r]
    PROVE  ReadinessInv'
<1> USE DEF ReadinessInv
<1>1. TypeOK'
  BY DEF TypeOK, Settle, InProbe
<1>2. RequestInv(r)'
  BY DEF TypeOK, Settle, RequestInv, Active, InProbe, Statuses
<1>3. ASSUME NEW q \in Requests, q # r
      PROVE  RequestInv(q)'
  BY <1>3, OthersKeepInv DEF TypeOK, Settle
<1>4. ProcessInv'
  BY DEF TypeOK, ProcessInv, Settle, Active, InProbe
<1> QED
  BY <1>1, <1>2, <1>3, <1>4

(* A thread that ends adds to the history and changes nothing else.        *)
LEMMA SeenGrowsKeepsInv ==
    ASSUME ReadinessInv, UNCHANGED <<up, requestVars, process>>,
           seen' \in [Requests -> SUBSET {"up", "down"}],
           \A r \in Requests : seen[r] \subseteq seen'[r]
    PROVE  ReadinessInv'
BY DEF ReadinessInv, TypeOK, RequestInv, ProcessInv, Active, requestVars

LEMMA ObservedGrows ==
    ASSUME ReadinessInv, NEW c \in Calls, Observed(c)
    PROVE  /\ up' = up
           /\ seen' \in [Requests -> SUBSET {"up", "down"}]
           /\ \A r \in Requests : seen[r] \subseteq seen'[r]
           /\ caller'[c] # caller[c] /\ caller'[c] = "answered" => "up" \in seen'[c[1]]
<1>1. c[1] \in Requests /\ seen \in [Requests -> SUBSET {"up", "down"}]
  BY ApiAssumption DEF ReadinessInv, TypeOK
<1> QED
  BY <1>1 DEF Observed

(* A model capability is never up by itself: a probe that runs on it has   *)
(* seen it down.                                                           *)
LEMMA ModelIsSeenDown ==
    ASSUME ReadinessInv, AnswersInv, NEW r \in Requests, Active(r), AtModel(r)
    PROVE  "down" \in seen[r]
BY DEF ReadinessInv, RequestInv, AnswersInv, AtModel, Seen

LEMMA ApiKeepsReadinessInv ==
    ASSUME ApiInv, ApiNext
    PROVE  ReadinessInv'
<1> USE DEF ApiInv
<1>1. CASE FlipService \/ ApiLifespan
  BY <1>1, FlipKeepsInv, LifespanKeepsInv DEF FlipService, ApiLifespan
<1>2. ASSUME NEW r \in Requests,
             \/ ApiRequest(r) \/ AskService(r) \/ ApiReceive(r) \/ ApiTimeout(r)
             \/ ApiCloseLate(r)
      PROVE  ReadinessInv'
  BY <1>2, RequestKeepsInv, ContinueKeepsInv
     DEF ApiRequest, AskService, ApiReceive, ApiTimeout, ApiCloseLate, Continue
<1>3. ASSUME NEW r \in Requests, ModelAnswers(r)
      PROVE  ReadinessInv'
  <2>1. pc[r] = "probing" /\ AtModel(r) /\ Active(r) /\ "down" \in seen[r]
    BY <1>3, ModelIsSeenDown DEF ModelAnswers, Settle, Active, InProbe
  <2>2. CASE caller[Own(r)] = "answered" /\ Settle(r, "ready")
    <3>1. "up" \in seen[r]
      BY <2>1, <2>2 DEF OwnCallInv
    <3> QED
      BY <2>2, <3>1, SettleKeepsInv DEF Statuses
  <2>3. ASSUME NEW status \in Failures, Settle(r, status)
        PROVE  ReadinessInv'
    BY <2>1, <2>3, SettleKeepsInv, ReadinessAssumption DEF Statuses
  <2> QED
    BY <1>3, <2>2, <2>3 DEF ModelAnswers
<1>4. ASSUME NEW c \in Calls, ApiThread(c) \/ ApiLoader(c)
      PROVE  ReadinessInv'
  BY <1>4, ObservedGrows, SeenGrowsKeepsInv DEF ApiThread, ApiLoader, Observed
<1>5. CASE UNCHANGED vars
  BY <1>5, ReadinessNextKeepsInv
<1> QED
  BY <1>1, <1>2, <1>3, <1>4, <1>5 DEF ApiNext, ApiContinue, AskModel, Exit

------------------------------------------------------------------------------
(* The part that relates requests to their calls.                          *)

LEMMA UpIsService ==
    ASSUME ApiNext, up \cap ModelProbes = {}
    PROVE  up' \cap ModelProbes = {}
<1>1. CASE FlipService
  BY <1>1 DEF FlipService, Flip, UpBecomes
<1>2. CASE up' = up
  BY <1>2
<1> QED
  BY <1>1, <1>2
     DEF ApiNext, ApiRequest, AskService, ApiContinue, ApiCloseLate, ApiThread, ApiLoader,
         ApiLifespan, Exit, AskModel, ModelAnswers, ApiReceive, ApiTimeout, Request,
         Answer, Settle, Receive, Close, Timeout, CloseLate, Observed, Shutdown,
         CloseGeneration, DisposePostgres, vars

LEMMA ApiKeepsAnswersInv ==
    ASSUME ApiInv, ApiNext
    PROVE  AnswersInv'
<1>1. \A c \in Calls : c[2] \in Providers
  BY ApiAssumption
<1>2. ProviderInv /\ (ProviderNext \/ UNCHANGED providerVars)
  BY ApiStepsProviders DEF ApiInv
<1> QED
  BY <1>1, <1>2, UpIsService, ProvidersOnlyAdvance DEF ApiInv, AnswersInv

(* Callers that are where they were, or were given up.                     *)
CallersKept ==
    \A c \in Calls :
        /\ caller[c] \in {"idle", "answered", "failed"} => caller'[c] = caller[c]
        /\ caller'[c] = "answered" => caller[c] = "answered"

(* What concerns one request alone leaves the parts of the others.         *)
LEMMA OthersKeepOwn ==
    ASSUME ApiInv, NEW q \in Requests, CallersKept,
           pc'[q] = pc[q], current'[q] = current[q], outcome'[q] = outcome[q],
           report'[q] = report[q], seen[q] \subseteq seen'[q]
    PROVE  OwnCallInv(q)'
<1>1. \A p \in ModelProbes : <<q, p>> \in Calls
  BY ApiAssumption DEF ModelProbes
<1> QED
  BY <1>1 DEF ApiInv, OwnCallInv, CallersKept, AtModel, Own, Active

(* A recorded status is what the request's own call found.                 *)
LEMMA RecordKeepsOwn ==
    ASSUME ApiInv, NEW r \in Requests, NEW status \in Statuses,
           Record(r, status), Active(r), CallersKept,
           AtModel(r) /\ status = "ready" => caller[Own(r)] = "answered",
           AtModel(r) /\ status \in {"failed", "error"} => caller[Own(r)] = "failed"
    PROVE  \A q \in Requests : OwnCallInv(q)'
<1> USE DEF ApiInv, ReadinessInv
<1>1. /\ report' = [report EXCEPT ![r][current[r]] = status]
      /\ outcome' = [outcome EXCEPT ![r] = "none"]
      /\ current[r] \in Probes
      /\ \/ /\ pc' = [pc EXCEPT ![r] = "replied"]
            /\ UNCHANGED <<current, seen>>
         \/ /\ pc' = [pc EXCEPT ![r] = "probing"]
            /\ current' = [current EXCEPT ![r] = @ + 1]
            /\ seen' = [seen EXCEPT ![r] = {Seen(current[r] + 1, up)}]
  BY DEF Record, TypeOK
<1>2. PICK row \in [Probes -> Statuses \cup {"none"}] :
         /\ report' = [report EXCEPT ![r] = row]
         /\ row = [report[r] EXCEPT ![current[r]] = status]
  BY <1>1 DEF TypeOK
<1>3. ASSUME NEW q \in Requests, q # r PROVE OwnCallInv(q)'
  BY <1>1, <1>2, <1>3, OthersKeepOwn DEF TypeOK
<1>4. OwnCallInv(r)'
  <2>1. /\ report'[r] = row /\ row[current[r]] = status
        /\ \A p \in Probes \ {current[r]} : row[p] = report[r][p]
    BY <1>1, <1>2 DEF TypeOK
  <2>2. /\ pc'[r] \in {"replied", "probing"}
        /\ pc'[r] = "probing" => current'[r] = current[r] + 1
        /\ current'[r] \in {current[r], current[r] + 1} /\ current[r] \in Nat
    BY <1>1, ReadinessAssumption DEF TypeOK, Probes
  <2>3. \A p \in ModelProbes : <<r, p>> \in Calls /\ p \in Probes /\ p \in Nat
    BY ApiAssumption, ReadinessAssumption DEF ModelProbes, Probes
  <2>4. ASSUME NEW p \in ModelProbes, p > current'[r]
        PROVE  caller'[<<r, p>>] = "idle"
    BY <2>2, <2>3, <2>4 DEF OwnCallInv, CallersKept
  <2>5. ASSUME NEW p \in ModelProbes
        PROVE  /\ row[p] = "ready" => caller'[<<r, p>>] = "answered"
               /\ row[p] \in {"failed", "error"} => caller'[<<r, p>>] = "failed"
    <3>1. CASE p = current[r]
      BY <2>1, <2>3, <3>1 DEF AtModel, Own, CallersKept
    <3>2. CASE p # current[r]
      BY <2>1, <2>3, <3>2 DEF OwnCallInv, CallersKept
    <3> QED BY <3>1, <3>2
  <2>6. ASSUME pc'[r] = "probing", current'[r] \in ModelProbes
        PROVE  caller'[<<r, current'[r]>>] # "answered"
    <3>1. PICK p \in ModelProbes : p = current'[r]
      BY <2>6
    <3>2. p > current[r] /\ <<r, p>> \in Calls
      BY <3>1, <2>2, <2>3, <2>6
    <3> QED
      BY <3>1, <3>2 DEF OwnCallInv, CallersKept
  <2> QED
    BY <2>1, <2>2, <2>4, <2>5, <2>6 DEF OwnCallInv, AtModel, Own, Active, InProbe
<1> QED
  BY <1>3, <1>4

LEMMA RequestKeepsOwn ==
    ASSUME ApiInv, NEW r \in Requests,
           ApiRequest(r) \/ AskService(r) \/ ModelAnswers(r)
    PROVE  \A q \in Requests : OwnCallInv(q)'
<1> USE DEF ApiInv, ReadinessInv
<1>1. /\ CallersKept /\ UNCHANGED <<providerVars, current, report>>
      /\ pc' \in {[pc EXCEPT ![r] = "probing"], [pc EXCEPT ![r] = "answered"]}
      /\ \A q \in Requests \ {r} : outcome'[q] = outcome[q] /\ seen'[q] = seen[q]
  <2>1. UNCHANGED <<providerVars, current, report>> /\ CallersKept
    BY DEF ApiRequest, AskService, ModelAnswers, Request, Answer, Settle, CallersKept,
           providerVars
  <2>2. CASE ApiRequest(r)
    BY <2>1, <2>2 DEF ApiRequest, Request, TypeOK
  <2>3. CASE \E status : Settle(r, status)
    BY <2>1, <2>3 DEF Settle, TypeOK
  <2> QED
    BY <2>2, <2>3 DEF AskService, ModelAnswers, Answer
<1>2. ASSUME NEW q \in Requests, q # r PROVE OwnCallInv(q)'
  BY <1>1, <1>2, OthersKeepOwn DEF TypeOK
<1>3. OwnCallInv(r)'
  <2>1. CASE ApiRequest(r)
    <3>1. pc[r] = "idle" /\ pc'[r] = "probing"
      BY <2>1 DEF ApiRequest, Request, TypeOK
    <3>2. \A p \in ModelProbes : caller'[<<r, p>>] = "idle"
      BY <3>1, <1>1 DEF OwnCallInv, providerVars
    <3> QED
      BY <3>1, <3>2, <1>1 DEF OwnCallInv, AtModel, Own, providerVars
  <2>2. CASE AskService(r)
    BY <2>2, <1>1 DEF AskService, Answer, Settle, TypeOK, OwnCallInv, AtModel, Own,
                      providerVars
  <2>3. CASE ModelAnswers(r)
    <3>1. /\ pc[r] = "probing" /\ pc'[r] = "answered" /\ AtModel(r) /\ seen' = seen
          /\ outcome'[r] = "ready" => caller[Own(r)] = "answered"
          /\ outcome'[r] \in {"failed", "error"} => caller[Own(r)] = "failed"
      <4>1. CASE caller[Own(r)] = "answered" /\ Settle(r, "ready")
        BY <4>1, <2>3 DEF ModelAnswers, Settle, TypeOK
      <4>2. CASE caller[Own(r)] = "failed" /\ \E status \in Failures : Settle(r, status)
        <5>1. PICK status \in Failures : Settle(r, status)
          BY <4>2
        <5>2. outcome'[r] = status /\ status # "ready"
          BY <5>1, ReadinessAssumption DEF Settle, TypeOK
        <5> QED
          BY <4>2, <5>1, <5>2, <2>3 DEF ModelAnswers, Settle, TypeOK
      <4> QED
        BY <4>1, <4>2, <2>3 DEF ModelAnswers
    <3> QED
      BY <3>1, <1>1 DEF OwnCallInv, AtModel, Own, Active, InProbe, providerVars
  <2> QED
    BY <2>1, <2>2, <2>3
<1> QED
  BY <1>2, <1>3

(* Receiving, closing and the deadline: a status is recorded, or a client  *)
(* that is not a model's is being closed.                                  *)
LEMMA ContinueKeepsOwn ==
    ASSUME ApiInv, NEW r \in Requests,
           ApiReceive(r) \/ ApiTimeout(r) \/ ApiCloseLate(r)
    PROVE  \A q \in Requests : OwnCallInv(q)'
<1> USE DEF ApiInv, ReadinessInv
<1>1. CallersKept
  <2>1. CASE AtModel(r) /\ GiveUp(Own(r))
    BY <2>1, OwnIsCall DEF GiveUp, CallersKept, ProviderInv, StateOK
  <2>2. CASE UNCHANGED providerVars
    BY <2>2 DEF CallersKept, providerVars
  <2> QED
    BY <2>1, <2>2 DEF ApiReceive, ApiTimeout, ApiCloseLate
<1>2. Active(r)
  BY DEF ApiReceive, ApiTimeout, ApiCloseLate, Receive, Close, Timeout, CloseLate, Active,
         InProbe
<1>3. CASE Record(r, "timed_out")
  BY <1>1, <1>2, <1>3, RecordKeepsOwn DEF Statuses
<1>4. CASE pc[r] \in {"answered", "closing"} /\ Record(r, outcome[r])
  <2>1. PICK status \in Statuses : status = outcome[r]
    BY <1>4 DEF RequestInv, TypeOK
  <2>2. /\ AtModel(r) /\ status = "ready" => caller[Own(r)] = "answered"
        /\ AtModel(r) /\ status \in {"failed", "error"} => caller[Own(r)] = "failed"
    BY <1>4, <2>1 DEF OwnCallInv
  <2> QED
    BY <1>1, <1>2, <1>4, <2>1, <2>2, RecordKeepsOwn
<1>5. CASE /\ current[r] \in Closing /\ \E stage : pc' = [pc EXCEPT ![r] = stage]
           /\ pc[r] # "idle" /\ pc'[r] # "idle"
           /\ UNCHANGED <<current, outcome, report, seen>>
  <2>1. ASSUME NEW q \in Requests, q # r PROVE OwnCallInv(q)'
    BY <1>1, <1>5, <2>1, OthersKeepOwn DEF TypeOK
  <2>2. ~AtModel(r) /\ \A p \in ModelProbes : <<r, p>> \in Calls
    BY <1>5, ApiAssumption DEF AtModel, ModelProbes
  <2>3. OwnCallInv(r)'
    BY <1>1, <1>5, <2>2 DEF OwnCallInv, CallersKept, AtModel, Own
  <2> QED
    BY <2>1, <2>3
<1> QED
  BY <1>3, <1>4, <1>5
     DEF ApiReceive, ApiTimeout, ApiCloseLate, Receive, Close, Timeout, CloseLate, TypeOK

(* A request submits its own call, which nobody else asks about.           *)
LEMMA AskKeepsOwn ==
    ASSUME ApiInv, NEW r \in Requests, AskModel(r)
    PROVE  \A q \in Requests : OwnCallInv(q)'
<1> USE DEF ApiInv, ReadinessInv
<1>1. /\ pc[r] = "probing" /\ Own(r) \in Calls /\ caller[Own(r)] = "idle"
      /\ caller' = [caller EXCEPT ![Own(r)] = "waiting"]
      /\ UNCHANGED <<pc, current, outcome, report, seen>>
  BY OwnIsCall DEF AskModel, Submit, vars
<1>2. \A c \in Calls : caller'[c] = IF c = Own(r) THEN "waiting" ELSE caller[c]
  BY <1>1 DEF ProviderInv, StateOK
<1>3. \A q \in Requests, p \in ModelProbes :
         <<q, p>> \in Calls /\ (<<q, p>> = Own(r) => q = r /\ p = current[r])
  BY ApiAssumption DEF ModelProbes, Own
<1>4. ASSUME NEW q \in Requests, NEW p \in ModelProbes, pc[q] = "idle" \/ p > current[q]
      PROVE  caller'[<<q, p>>] = "idle"
  <2>1. current[r] \in Nat /\ ~(current[r] > current[r])
    BY ReadinessAssumption DEF TypeOK, Probes
  <2> QED
    BY <1>1, <1>2, <1>3, <1>4, <2>1 DEF OwnCallInv
<1>5. ASSUME NEW q \in Requests, NEW p \in ModelProbes
      PROVE  /\ caller[<<q, p>>] \in {"answered", "failed"}
                   => caller'[<<q, p>>] = caller[<<q, p>>]
             /\ caller'[<<q, p>>] = "answered" => caller[<<q, p>>] = "answered"
  BY <1>1, <1>2, <1>3
<1> QED
  BY <1>1, <1>4, <1>5 DEF OwnCallInv, AtModel, Own, Active

(* A thread that ends tells the request whose call it ran.                 *)
LEMMA ThreadKeepsOwn ==
    ASSUME ApiInv, NEW c \in Calls, ApiThread(c) \/ ApiLoader(c)
    PROVE  \A q \in Requests : OwnCallInv(q)'
<1> USE DEF ApiInv, ReadinessInv
<1>1. /\ UNCHANGED <<pc, current, outcome, report>> /\ Observed(c)
      /\ ProviderNext
  BY DEF ApiThread, ApiLoader, requestVars, ProviderNext
<1>2. \A d \in Calls \ {c} : caller'[d] = caller[d]
  BY DEF ApiThread, ApiLoader, ThreadStep, LoaderStep, Start, Acquire, Limit, LimitRaises, Use,
         LoadReturns, LoadRaises, Finish, ProviderInv, StateOK
<1>3. caller[c] = "idle" => caller'[c] = "idle"
  BY DEF ApiThread, ApiLoader, ThreadStep, LoaderStep, Start, Acquire, Limit, LimitRaises, Use,
         LoadReturns, LoadRaises, Finish, ProviderInv, StateOK
<1>4. \A q \in Requests, p \in ModelProbes :
         <<q, p>> \in Calls /\ <<q, p>>[1] = q
  BY ApiAssumption DEF ModelProbes
<1>5. ASSUME NEW q \in Requests PROVE OwnCallInv(q)'
  <2>1. ASSUME NEW p \in ModelProbes
        PROVE  /\ caller[<<q, p>>] \in {"idle", "answered", "failed"}
                     => caller'[<<q, p>>] = caller[<<q, p>>]
               /\ caller'[<<q, p>>] = "answered" =>
                     caller[<<q, p>>] = "answered" \/ "up" \in seen'[q]
    <3>1. CASE <<q, p>> = c
      BY <1>1, <1>3, <1>4, <3>1, ObservedGrows, ProvidersOnlyAdvance
    <3>2. CASE <<q, p>> # c
      BY <1>2, <1>4, <3>2
    <3> QED BY <3>1, <3>2
  <2>2. seen[q] \subseteq seen'[q]
    BY <1>1, ObservedGrows
  <2> QED
    BY <1>1, <2>1, <2>2 DEF OwnCallInv, AtModel, Own, Active
<1> QED
  BY <1>5

LEMMA ApiKeepsOwnCallInv ==
    ASSUME ApiInv, ApiNext
    PROVE  \A q \in Requests : OwnCallInv(q)'
<1>1. CASE FlipService \/ ApiLifespan \/ Exit
  <2>1. /\ UNCHANGED <<pc, current, outcome, report>> /\ CallersKept
        /\ \A q \in Requests : seen[q] \subseteq seen'[q]
    BY <1>1 DEF FlipService, Flip, UpBecomes, requestVars, ApiLifespan, Shutdown,
       CloseGeneration, DisposePostgres, Exit, vars, CallersKept, providerVars
  <2> QED
    BY <2>1, OthersKeepOwn
<1> QED
  BY <1>1, RequestKeepsOwn, ContinueKeepsOwn, AskKeepsOwn, ThreadKeepsOwn
     DEF ApiNext, ApiContinue

------------------------------------------------------------------------------
LEMMA ApiInitInv == ApiInit => ApiInv
<1> SUFFICES ASSUME ApiInit PROVE ApiInv
  OBVIOUS
<1>1. ReadinessInv /\ ProviderInv
  BY ReadinessInitInv, ProviderInitInv DEF ApiInit
<1>2. AnswersInv
  BY DEF ApiInit, ProviderInit, AnswersInv
<1>3. ASSUME NEW r \in Requests PROVE OwnCallInv(r)
  <2>1. \A p \in ModelProbes : p \in Probes /\ <<r, p>> \in Calls
    BY ApiAssumption DEF ModelProbes
  <2> QED
    BY <2>1 DEF ApiInit, Init, ProviderInit, OwnCallInv, AtModel, Own, Active, InProbe
<1> QED
  BY <1>1, <1>2, <1>3 DEF ApiInv

LEMMA ApiNextKeepsInv == ApiInv /\ [ApiNext]_apiVars => ApiInv'
<1> SUFFICES ASSUME ApiInv, [ApiNext]_apiVars PROVE ApiInv'
  OBVIOUS
<1>1. CASE ApiNext
  <2>1. ProviderInv'
    BY <1>1, ApiStepsProviders, ProviderNextKeepsInv DEF ApiInv
  <2> QED
    BY <1>1, <2>1, ApiKeepsReadinessInv, ApiKeepsAnswersInv, ApiKeepsOwnCallInv DEF ApiInv
<1>2. CASE UNCHANGED apiVars
  <2>1. ReadinessInv' /\ ProviderInv'
    BY <1>2, ReadinessNextKeepsInv, ProviderNextKeepsInv DEF ApiInv, apiVars
  <2>2. AnswersInv' /\ \A r \in Requests : OwnCallInv(r)'
    BY <1>2 DEF ApiInv, apiVars, vars, providerVars, AnswersInv, SetUp, OwnCallInv, AtModel,
                Own, Active
  <2> QED
    BY <2>1, <2>2 DEF ApiInv
<1> QED
  BY <1>1, <1>2

(* The invariant of the whole process.                                     *)
THEOREM ApiInvariant == ApiSpec => []ApiInv
BY ApiInitInv, ApiNextKeepsInv, PTL DEF ApiSpec

(* A reply's line about a model is what the call of this very request      *)
(* found: neither a call that came too late nor one of another request     *)
(* decides it (EmbeddingReadinessProbe, RerankerReadinessProbe).           *)
THEOREM ModelReportsAreOwn == ApiSpec => []ModelReportIsOwn
<1>1. ApiInv => ModelReportIsOwn
  <2> SUFFICES ASSUME ApiInv, NEW r \in Requests, NEW p \in ModelProbes
               PROVE  /\ report[r][p] = "ready" =>
                            caller[<<r, p>>] = "answered" /\ SetUp(p)
                      /\ report[r][p] \in {"failed", "error"} =>
                            caller[<<r, p>>] = "failed"
    BY DEF ModelReportIsOwn
  <2>1. <<r, p>> \in Calls /\ <<r, p>>[2] = p
    BY ApiAssumption DEF ModelProbes
  <2>2. caller[<<r, p>>] = "answered" => SetUp(p)
    BY <2>1 DEF ApiInv, AnswersInv
  <2> QED
    BY <2>2 DEF ApiInv, OwnCallInv
<1> QED
  BY <1>1, ApiInvariant, PTL

(* In the process, with models behind threads, a report is still about a   *)
(* moment of its own probe (ReadinessService._check_probe).                *)
THEOREM ProcessReportsHonestly == ApiSpec => ReportIsHonest
<1>1. ASSUME ApiInv, NEW r \in Requests,
             ApiReceive(r) \/ ApiTimeout(r) \/ ApiCloseLate(r)
      PROVE  HonestStep
  <2>1. CASE Record(r, "timed_out")
    BY <1>1, <2>1, RecordIsHonest DEF ApiInv, Statuses
  <2>2. CASE pc[r] \in {"answered", "closing"} /\ Record(r, outcome[r])
    <3>1. PICK status \in Statuses \cup {"none"} : status = outcome[r]
      BY <1>1 DEF ApiInv, ReadinessInv, TypeOK
    <3> QED
      BY <1>1, <2>2, <3>1, RecordIsHonest DEF ApiInv, ReadinessInv, RequestInv
  <2>3. CASE UNCHANGED report
    BY <2>3 DEF HonestStep
  <2> QED
    BY <1>1, <2>1, <2>2, <2>3
       DEF ApiReceive, ApiTimeout, ApiCloseLate, Receive, Close, Timeout, CloseLate
<1>2. ASSUME ApiInv, [ApiNext]_apiVars PROVE [HonestStep]_vars
  <2>1. CASE UNCHANGED report
    BY <2>1 DEF HonestStep
  <2>2. CASE \E r \in Requests : ApiReceive(r) \/ ApiTimeout(r) \/ ApiCloseLate(r)
    BY <1>1, <1>2, <2>2
  <2> QED
    BY <1>2, <2>1, <2>2
       DEF ApiNext, ApiContinue, FlipService, Flip, UpBecomes, requestVars, ApiRequest,
           AskService, ModelAnswers, Request, Answer, Settle, AskModel, ApiThread, ApiLoader,
           ApiLifespan, Shutdown, CloseGeneration, DisposePostgres, Exit, vars, apiVars
<1> QED
  BY <1>2, ApiInvariant, PTL DEF ApiSpec, ReportIsHonest, HonestStep
==============================================================================
