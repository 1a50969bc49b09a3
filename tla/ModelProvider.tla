---------------------------- MODULE ModelProvider ----------------------------
(***************************************************************************)
(* BgeM3EmbeddingProvider and BgeM3RerankerProvider in one process: every  *)
(* call runs in a thread of the event loop's default executor, loads the   *)
(* provider's model behind a threading.Lock if it is the first, and uses   *)
(* it.  A caller may give up (asyncio.wait_for); a call that is queued is  *)
(* then cancelled, and one that runs goes on in its thread, unheard.       *)
(*                                                                         *)
(* job:  none - queued - locking - loading - limiting - using - done       *)
(***************************************************************************)
EXTENDS Integers, FiniteSets

CONSTANTS
    Calls,        \* calls of embed or rerank
    Providers,    \* provider instances, each with its model and its lock
    Nobody,       \* the owner of a free lock
    Workers,      \* threads of the default executor
    Silent,       \* providers whose model loader may never return
    LimitedLater  \* providers that set the limit of a model they have cached

ASSUME ProviderAssumption ==
    /\ Nobody \notin Calls
    /\ Workers \in Nat \ {0}
    /\ Silent \subseteq Providers
    /\ LimitedLater \subseteq Providers

VARIABLES
    target,     \* the provider each call is made on
    caller,     \* the coroutine of each call
    job,        \* the function each call submitted to the executor
    lock,       \* _load_lock of each provider
    model,      \* _model of each provider: none; cached; cached and limited; or
                \* cached and, because setting the limit raised, left unlimited
    loads       \* history: how often each provider's loader has returned one

providerVars == <<target, caller, job, lock, model, loads>>

Holding == {"loading", "limiting"}
Running == {"locking", "using"} \cup Holding

Busy == Cardinality({c \in Calls : job[c] \in Running})

StateOK ==
    /\ target \in [Calls -> Providers]
    /\ caller \in [Calls -> {"idle", "waiting", "answered", "failed", "gave_up"}]
    /\ job \in [Calls -> {"none", "queued", "done"} \cup Running]
    /\ lock \in [Providers -> Calls \cup {Nobody}]
    /\ model \in [Providers -> {"none", "cached", "limited", "unlimited"}]
    /\ loads \in [Providers -> Nat]

ProviderTypeOK == StateOK /\ Busy <= Workers

ProviderInit ==
    /\ target \in [Calls -> Providers]
    /\ caller = [c \in Calls |-> "idle"]
    /\ job = [c \in Calls |-> "none"]
    /\ lock = [p \in Providers |-> Nobody]
    /\ model = [p \in Providers |-> "none"]
    /\ loads = [p \in Providers |-> 0]

(* Nobody is still working on the cached model.                            *)
SetUp(p) == model[p] \in {"limited", "unlimited"}

Become(c, state) == job' = [job EXCEPT ![c] = state]

(* The result reaches the coroutine unless it has given up.                *)
Finish(c, outcome) ==
    /\ Become(c, "done")
    /\ caller' = [caller EXCEPT ![c] = IF @ = "waiting" THEN outcome ELSE @]

------------------------------------------------------------------------------
(* asyncio.to_thread submits the call to the executor.                     *)
Submit(c) ==
    /\ caller[c] = "idle"
    /\ caller' = [caller EXCEPT ![c] = "waiting"]
    /\ Become(c, "queued")
    /\ UNCHANGED <<target, lock, model, loads>>

Start(c) ==
    /\ job[c] = "queued"
    /\ Busy < Workers
    /\ Become(c, "locking")
    /\ UNCHANGED <<target, caller, lock, model, loads>>

(* Mutant: one lock for all providers.                                     *)
Acquire_global(c) ==
    /\ job[c] = "locking"
    /\ \A p \in Providers : lock[p] = Nobody
    /\ IF model[target[c]] = "none"
       THEN /\ lock' = [lock EXCEPT ![target[c]] = c]
            /\ Become(c, "loading")
       ELSE /\ Become(c, "using")
            /\ UNCHANGED lock
    /\ UNCHANGED <<target, caller, model, loads>>

(* Mutant: the model is looked at before the lock is taken.                *)
Acquire_stale(c) ==
    /\ job[c] = "locking"
    /\ \/ /\ lock[target[c]] = Nobody
          /\ lock' = [lock EXCEPT ![target[c]] = c]
          /\ Become(c, "loading")
       \/ /\ model[target[c]] # "none"
          /\ Become(c, "using")
          /\ UNCHANGED lock
    /\ UNCHANGED <<target, caller, model, loads>>

(* _get_model: the lock is kept only while the model is being loaded; a    *)
(* call that finds one releases it at once.                                *)
Acquire(c) ==
    /\ job[c] = "locking"
    /\ lock[target[c]] = Nobody
    /\ IF model[target[c]] = "none"
       THEN /\ lock' = [lock EXCEPT ![target[c]] = c]
            /\ Become(c, "loading")
       ELSE /\ Become(c, "using")
            /\ UNCHANGED lock
    /\ UNCHANGED <<target, caller, model, loads>>

(* Mutant: the lock is released as soon as the model is cached.            *)
LoadReturns_unlocks(c) ==
    /\ job[c] = "loading"
    /\ model' = [model EXCEPT ![target[c]] = "cached"]
    /\ loads' = [loads EXCEPT ![target[c]] = @ + 1]
    /\ lock' = [lock EXCEPT ![target[c]] = Nobody]
    /\ Become(c, "limiting")
    /\ UNCHANGED <<target, caller>>

(* The embedder has yet to set max_seq_length on the model it has cached;  *)
(* the reranker has passed it to the loader, and is done with the lock.    *)
LoadReturns(c) ==
    /\ job[c] = "loading"
    /\ loads' = [loads EXCEPT ![target[c]] = @ + 1]
    /\ IF target[c] \in LimitedLater
       THEN /\ model' = [model EXCEPT ![target[c]] = "cached"]
            /\ Become(c, "limiting")
            /\ UNCHANGED lock
       ELSE /\ model' = [model EXCEPT ![target[c]] = "limited"]
            /\ lock' = [lock EXCEPT ![target[c]] = Nobody]
            /\ Become(c, "using")
    /\ UNCHANGED <<target, caller>>

(* Mutant: acquire and release without `with`.                             *)
LoadRaises_keeps_lock(c) ==
    /\ job[c] = "loading"
    /\ Finish(c, "failed")
    /\ UNCHANGED <<target, lock, model, loads>>

(* A failed load is not cached: `with` releases the lock, the call fails,  *)
(* and the next one tries again.                                           *)
LoadRaises(c) ==
    /\ job[c] = "loading"
    /\ lock' = [lock EXCEPT ![target[c]] = Nobody]
    /\ Finish(c, "failed")
    /\ UNCHANGED <<target, model, loads>>

(* max_seq_length is set on the cached model before the lock is released.  *)
Limit(c) ==
    /\ job[c] = "limiting"
    /\ model' = [model EXCEPT ![target[c]] = "limited"]
    /\ lock' = [lock EXCEPT ![target[c]] = Nobody]
    /\ Become(c, "using")
    /\ UNCHANGED <<target, caller, loads>>

(* Should that assignment raise, the call fails and `with` releases the    *)
(* lock, but the model stays cached and later calls use it as it is.       *)
LimitRaises(c) ==
    /\ job[c] = "limiting"
    /\ model' = [model EXCEPT ![target[c]] = "unlimited"]
    /\ lock' = [lock EXCEPT ![target[c]] = Nobody]
    /\ Finish(c, "failed")
    /\ UNCHANGED <<target, loads>>

(* encode or predict, then validation of the whole batch.                  *)
Use(c) ==
    /\ job[c] = "using"
    /\ \E outcome \in {"answered", "failed"} : Finish(c, outcome)
    /\ UNCHANGED <<target, lock, model, loads>>

(* wait_for cancels the coroutine; only a job that has not started can     *)
(* still be withdrawn from the executor.                                   *)
GiveUp(c) ==
    /\ caller[c] = "waiting"
    /\ caller' = [caller EXCEPT ![c] = "gave_up"]
    /\ IF job[c] = "queued" THEN Become(c, "done") ELSE UNCHANGED job
    /\ UNCHANGED <<target, lock, model, loads>>

LoaderStep(c) == LoadReturns(c) \/ LoadRaises(c)
ThreadStep(c) == Start(c) \/ Acquire(c) \/ Limit(c) \/ LimitRaises(c) \/ Use(c)

ProviderNext == \E c \in Calls : Submit(c) \/ ThreadStep(c) \/ LoaderStep(c) \/ GiveUp(c)

ProviderSpec == ProviderInit /\ [][ProviderNext]_providerVars

(* Threads are scheduled and model code returns, except loaders of Silent. *)
ProviderFairSpec ==
    /\ ProviderSpec
    /\ \A c \in Calls :
          /\ WF_providerVars(ThreadStep(c))
          /\ WF_providerVars(target[c] \notin Silent /\ LoaderStep(c))

------------------------------------------------------------------------------
(* "Load once off the event loop": however calls overlap, time out and     *)
(* fail, a provider never holds a second copy of its model.                *)
ModelIsLoadedOnce == \A p \in Providers : loads[p] <= 1

(* docs/embedding-capability.md, "applies the configured maximum sequence  *)
(* length": no thread uses a model that another thread is still setting    *)
(* up; a model is used without its limit only after setting it has raised. *)
UsedModelIsSetUp ==
    \A c \in Calls : job[c] = "using" => SetUp(target[c])

(* A provider whose loader hangs, and whose callers time out again and     *)
(* again, leaves the work of another provider unfinished for good only     *)
(* when its own calls hold every thread of the executor.                   *)
OtherProvidersFinish ==
    <>[](\/ \A c \in Calls : target[c] \notin Silent => job[c] \in {"none", "done"}
         \/ Cardinality({c \in Calls : target[c] \in Silent
                                       /\ job[c] \in Running}) = Workers)
==============================================================================
