------------------------ MODULE ProviderGenerations ------------------------
(***************************************************************************)
(* The provider runtime manager (runtime/provider_manager.py) and what it  *)
(* owns: the generations of provider clients (providers/runtime/), the     *)
(* leases on them, the background model discovery and the model catalog.   *)
(*                                                                         *)
(* Everything runs on one event loop.  An administrative operation is at a *)
(* suspension point (pc) and an action takes it to its next one;           *)
(* _replace_lock is the only lock held across suspensions.  A client is    *)
(* what ProviderRuntime constructs lazily for a provider and must close.   *)
(***************************************************************************)
EXTENDS Naturals, FiniteSets

CONSTANTS
  Requests,         \* users of a lease: client requests and account probes
  AdminOps,         \* administrative operations, each performed once
  Startup,          \* the discovery task that application start creates
  Configurable,     \* providers that exist when the settings configure them
  Accounts,         \* providers that exist when an account is connected
  None,             \* nobody holds the lock
  MaxGenerations, MaxCloseCalls, MaxFaults      \* bounds of the instance

Providers == Configurable \cup Accounts
AtMostOne == {{}} \cup {{p} : p \in Providers}
Tasks == AdminOps \cup {Startup}      \* discovery tasks, by their creator
Holders == Requests \cup Tasks        \* whoever may retain a generation
Closer == "closer"                    \* close(), as a holder of the lock
Generations == 1..MaxGenerations
NoGeneration == 0

ASSUME GenerationsAssumption ==
  /\ MaxGenerations \in Nat \ {0} /\ MaxCloseCalls \in Nat /\ MaxFaults \in Nat
  /\ IsFiniteSet(Requests) /\ IsFiniteSet(AdminOps)
  /\ Startup \notin AdminOps /\ Requests \cap Tasks = {}
  /\ None \notin Tasks \cup {Closer} /\ Closer \notin AdminOps

VARIABLES
  gen,          \* the generations published so far, by generation_id
  current,      \* _current
  retired,      \* the keys of _retired
  lease,        \* the generation each holder retains
  lock,         \* the holder of _replace_lock
  admin,        \* the administrative operations
  task,         \* the discovery tasks: their stage, generation and extent
  refreshTask,  \* _refresh_task
  closer,       \* the call of close() in progress, and what it waits for
  closing, closed,    \* _closing, _closed
  account,      \* the accounts connected now (external)
  scope,        \* ProviderModelCache._available_provider_ids
  cache,        \* the providers whose models are cached
  faults        \* client cleanups that have failed

genVars == <<gen, current, retired, lease, lock, admin, task, refreshTask,
             closer, closing, closed, account, scope, cache, faults>>

GenerationType ==
  [configured : SUBSET Configurable, published : BOOLEAN, leases : Nat,
   retired : BOOLEAN, closed : BOOLEAN, cleaning : BOOLEAN,
   clients : SUBSET Providers]

NewGeneration(configured) ==
  [configured |-> configured, published |-> TRUE, leases |-> 0,
   retired |-> FALSE, closed |-> FALSE, cleaning |-> FALSE, clients |-> {}]

Unpublished == [NewGeneration({}) EXCEPT !.published = FALSE]

AdminPlace == {"idle", "locking", "cancelling", "publishing", "awaiting",
               "refreshing", "done"}
AdminKind == {"replace", "refresh", "connect"}
TaskStage == {"none", "created", "running", "cancelled", "done"}
CloserPlace == {"idle", "locking", "cancelling", "draining", "joining"}

GenInit ==
  /\ \E configured \in SUBSET Configurable :
       /\ gen = [g \in Generations |->
                   IF g = 1 THEN NewGeneration(configured) ELSE Unpublished]
       /\ scope = configured
  /\ current = 1
  /\ retired = {}
  /\ lease = [h \in Holders |-> NoGeneration]
  /\ lock = None
  /\ admin = [o \in AdminOps |->
                [pc |-> "idle", kind |-> "refresh", target |-> NoGeneration, waits |-> None]]
  /\ task = [t \in Tasks |-> [stage |-> "none", target |-> NoGeneration, missing |-> FALSE]]
  /\ refreshTask = None
  /\ closer = [pc |-> "idle", calls |-> 0, targets |-> {}, waits |-> None]
  /\ closing = FALSE /\ closed = FALSE
  /\ account = {}
  /\ cache = {}
  /\ faults = 0

-----------------------------------------------------------------------------
(* Leases: acquire, resolve_provider, _release and _close_generation.      *)

Leased(gr) == [gr EXCEPT !.leases = gr.leases + 1]

\* _close_generation: the cleanup task is created once and shared.
Closing(gr) ==
  [gr EXCEPT !.cleaning = gr.cleaning \/ (~gr.closed /\ gr.leases = 0)]

\* Mutant of Released: the last lease of a retired generation closes nothing.
ReleasedOnly(gr) == [gr EXCEPT !.leases = gr.leases - 1]

Released(gr) ==
  LET left == [gr EXCEPT !.leases = gr.leases - 1]
  IN IF left.leases = 0 /\ left.retired /\ ~closing THEN Closing(left) ELSE left

Usable(g) == gen[g].configured \cup account

\* cache_model_infos drops what is outside the scope.
Caching(ps) == cache \cup (ps \cap scope)

\* set_available_providers, and so _synchronize_model_cache_scope, with which
\* every reader of the catalog and every publication begins.
Scoped(ps) == cache \cap ps

Publishes(cached) ==
  /\ scope' = Usable(current)
  /\ cache' = cached \cap Usable(current)

\* A lease on the current generation; resolve_provider through it constructs
\* the client it is asked for, before anything else can run.
Retain(h, clients) ==
  /\ ~closing /\ ~closed
  /\ lease[h] = NoGeneration
  /\ clients \subseteq gen[current].configured \cup Accounts
  /\ lease' = [lease EXCEPT ![h] = current]
  /\ gen' = [gen EXCEPT ![current] =
       [Leased(gen[current]) EXCEPT !.clients = gen[current].clients \cup clients]]
  /\ UNCHANGED <<current, retired, lock, admin, task, refreshTask, closer,
                 closing, closed, account, scope, cache, faults>>

\* A lease taken and given back before anything else can run.
Glimpse(clients) ==
  /\ ~closing /\ ~closed
  /\ clients \subseteq gen[current].configured \cup Accounts
  /\ gen' = [gen EXCEPT ![current].clients = gen[current].clients \cup clients]
  /\ UNCHANGED <<current, retired, lease, lock, admin, task, refreshTask,
                 closer, closing, closed, account, scope, cache, faults>>

\* The lease is given back; a probe of a provider then caches what it listed.
Release(h, listed) ==
  /\ lease[h] # NoGeneration
  /\ lease' = [lease EXCEPT ![h] = NoGeneration]
  /\ gen' = [gen EXCEPT ![lease[h]] = Released(gen[lease[h]])]
  /\ IF listed = {} THEN UNCHANGED <<scope, cache>> ELSE Publishes(Caching(listed))
  /\ UNCHANGED <<current, retired, lock, admin, task, refreshTask, closer,
                 closing, closed, account, faults>>

\* Mutant of CleanupEnds: the generation is forgotten though a client is left.
CleanupForgets(g) ==
  /\ gen[g].cleaning
  /\ \E left \in SUBSET gen[g].clients :
       /\ left # {} => faults < MaxFaults
       /\ faults' = IF left # {} THEN faults + 1 ELSE faults
       /\ gen' = [gen EXCEPT ![g] = [gen[g] EXCEPT !.cleaning = FALSE,
                                                   !.clients = left,
                                                   !.closed = left = {}]]
       /\ retired' = retired \ {g}
  /\ UNCHANGED <<current, lease, lock, admin, task, refreshTask, closer,
                 closing, closed, account, scope, cache>>

\* ProviderRuntime.cleanup closes the clients one after another; those that
\* fail stay constructed, and the generation stays owned.
CleanupEnds(g) ==
  /\ gen[g].cleaning
  /\ \E left \in SUBSET gen[g].clients :
       /\ left # {} => faults < MaxFaults
       /\ faults' = IF left # {} THEN faults + 1 ELSE faults
       /\ gen' = [gen EXCEPT ![g] = [gen[g] EXCEPT !.cleaning = FALSE,
                                                   !.clients = left,
                                                   !.closed = left = {}]]
       /\ retired' = IF left = {} THEN retired \ {g} ELSE retired
  /\ UNCHANGED <<current, lease, lock, admin, task, refreshTask, closer,
                 closing, closed, account, scope, cache>>

-----------------------------------------------------------------------------
(* Model discovery (providers/runtime/discovery.py) and the model cache.   *)

\* cached_model_ids, cached_prefixed_model_infos and the models list.
ReadCatalog ==
  /\ Publishes(cache)
  /\ UNCHANGED <<gen, current, retired, lease, lock, admin, task, refreshTask,
                 closer, closing, closed, account, faults>>

\* warm_referenced_model_cache under a lease, then start_model_list_refresh:
\* application start runs both before anything is served.
Start ==
  /\ task[Startup].stage = "none"
  /\ ~closing /\ ~closed
  /\ \E found \in SUBSET Usable(current) :
       /\ gen' = [gen EXCEPT ![current].clients = gen[current].clients \cup Usable(current)]
       /\ cache' = Caching(found)
  /\ task' = [task EXCEPT ![Startup] =
                [stage |-> "created", target |-> current, missing |-> TRUE]]
  /\ refreshTask' = Startup
  /\ UNCHANGED <<current, retired, lease, lock, admin, closer, closing, closed,
                 account, scope, faults>>

\* _refresh_generation up to its await: nothing for a closed generation, else
\* a lease and one client for every provider to ask.
TaskBegins(t) ==
  LET g == task[t].target IN
  /\ task[t].stage = "created"
  /\ IF gen[g].closed
     THEN /\ task' = [task EXCEPT ![t].stage = "done"]
          /\ UNCHANGED <<gen, lease>>
     ELSE /\ task' = [task EXCEPT ![t].stage = "running"]
          /\ lease' = [lease EXCEPT ![t] = g]
          /\ gen' = [gen EXCEPT ![g] =
               [Leased(gen[g]) EXCEPT !.clients = gen[g].clients \cup
                  (Usable(g) \ IF task[t].missing THEN cache ELSE {})]]
  /\ UNCHANGED <<current, retired, lock, admin, refreshTask, closer, closing,
                 closed, account, scope, cache, faults>>

TaskEnds(t) ==
  /\ task[t].stage = "running"
  /\ \E found \in SUBSET Usable(task[t].target) : Publishes(Caching(found))
  /\ task' = [task EXCEPT ![t].stage = "done"]
  /\ lease' = [lease EXCEPT ![t] = NoGeneration]
  /\ gen' = [gen EXCEPT ![task[t].target] = Released(gen[task[t].target])]
  /\ UNCHANGED <<current, retired, lock, admin, refreshTask, closer, closing,
                 closed, account, faults>>

\* A cancelled task caches nothing; only one that had begun has a lease.
TaskCancelled(t) ==
  /\ task[t].stage = "cancelled"
  /\ task' = [task EXCEPT ![t].stage = "done"]
  /\ IF lease[t] = NoGeneration
     THEN UNCHANGED <<gen, lease>>
     ELSE /\ lease' = [lease EXCEPT ![t] = NoGeneration]
          /\ gen' = [gen EXCEPT ![lease[t]] = Released(gen[lease[t]])]
  /\ UNCHANGED <<current, retired, lock, admin, refreshTask, closer, closing,
                 closed, account, scope, cache, faults>>

Unfinished(t) == t \in Tasks /\ task[t].stage \in {"created", "running"}

\* _cancel_refresh up to its await.
CancelRefresh ==
  /\ refreshTask' = None
  /\ task' = IF Unfinished(refreshTask)
             THEN [task EXCEPT ![refreshTask].stage = "cancelled"] ELSE task

Cancelled == IF Unfinished(refreshTask) THEN refreshTask ELSE None

\* The task whose cancellation is awaited has ended.
Gone(t) == t \in Tasks => task[t].stage = "done"

-----------------------------------------------------------------------------
(* Administrative operations: replace, refresh_model_list_cache and        *)
(* connected_provider_changed.                                             *)

Request(o, kind) ==
  /\ admin[o].pc = "idle" /\ task[Startup].stage # "none"
  /\ admin' = [admin EXCEPT ![o].pc = "locking", ![o].kind = kind]
  /\ UNCHANGED <<gen, current, retired, lease, lock, task, refreshTask, closer,
                 closing, closed, account, scope, cache, faults>>

Leave(o) ==
  admin' = [admin EXCEPT ![o].pc = "done", ![o].target = NoGeneration, ![o].waits = None]

Locks(o) == lock = None /\ admin[o].pc = "locking"

Rejected(o) ==
  /\ Locks(o) /\ (closing \/ closed)
  /\ Leave(o)
  /\ UNCHANGED <<gen, current, retired, lease, lock, task, refreshTask, closer,
                 closing, closed, account, scope, cache, faults>>

\* Mutant of CancelsRefresh: the discovery in the background goes on.
CancelsNothing(o) ==
  /\ Locks(o) /\ ~closing /\ ~closed /\ admin[o].kind # "connect"
  /\ lock' = o
  /\ admin' = [admin EXCEPT ![o].pc = "cancelling"]
  /\ UNCHANGED <<gen, current, retired, lease, task, refreshTask, closer,
                 closing, closed, account, scope, cache, faults>>

CancelsRefresh(o) ==
  /\ Locks(o) /\ ~closing /\ ~closed /\ admin[o].kind # "connect"
  /\ lock' = o
  /\ CancelRefresh
  /\ admin' = [admin EXCEPT ![o].pc = "cancelling", ![o].waits = Cancelled]
  /\ UNCHANGED <<gen, current, retired, lease, closer, closing, closed,
                 account, scope, cache, faults>>

\* refresh_model_list_cache: discovery in the operation itself.
RefreshBegins(o) ==
  /\ admin[o].pc = "cancelling" /\ admin[o].kind = "refresh" /\ Gone(admin[o].waits)
  /\ admin' = [admin EXCEPT ![o].pc = "refreshing", ![o].target = current]
  /\ lease' = [lease EXCEPT ![o] = current]
  /\ gen' = [gen EXCEPT ![current] =
       [Leased(gen[current]) EXCEPT !.clients = gen[current].clients \cup Usable(current)]]
  /\ UNCHANGED <<current, retired, lock, task, refreshTask, closer, closing,
                 closed, account, scope, cache, faults>>

RefreshEnds(o) ==
  /\ admin[o].pc = "refreshing" /\ admin[o].kind = "refresh"
  /\ \E found \in SUBSET Usable(admin[o].target) : Publishes(Caching(found))
  /\ Leave(o) /\ lock' = None
  /\ lease' = [lease EXCEPT ![o] = NoGeneration]
  /\ gen' = [gen EXCEPT ![lease[o]] = Released(gen[lease[o]])]
  /\ UNCHANGED <<current, retired, task, refreshTask, closer, closing, closed,
                 account, faults>>

\* The factory or the commit of the new configuration raised: the candidate has
\* constructed no client yet, so nothing of it is left to close.
CommitFails(o) ==
  /\ admin[o].pc = "cancelling" /\ admin[o].kind = "replace" /\ Gone(admin[o].waits)
  /\ Leave(o) /\ lock' = None
  /\ UNCHANGED <<gen, current, retired, lease, task, refreshTask, closer,
                 closing, closed, account, scope, cache, faults>>

\* Mutant of Publish: the previous generation is closed without regard to leases.
PublishAndClose(o, configured) ==
  /\ admin[o].pc = "cancelling" /\ admin[o].kind = "replace" /\ Gone(admin[o].waits)
  /\ current < MaxGenerations
  /\ current' = current + 1
  /\ gen' = [gen EXCEPT
       ![current] = [gen[current] EXCEPT !.retired = TRUE, !.cleaning = TRUE],
       ![current + 1] = NewGeneration(configured)]
  /\ retired' = retired \cup {current}
  /\ scope' = configured \cup account
  /\ cache' = Scoped(configured \cup account)
  /\ task' = [task EXCEPT ![o] =
                [stage |-> "created", target |-> current + 1, missing |-> FALSE]]
  /\ refreshTask' = o
  /\ admin' = [admin EXCEPT ![o].pc = "awaiting", ![o].target = current]
  /\ UNCHANGED <<lease, lock, closer, closing, closed, account, faults>>

\* Commit and publication are one step; a previous generation that nobody
\* retains is closed at once, and replace waits for that.
Publish(o, configured) ==
  /\ admin[o].pc = "cancelling" /\ admin[o].kind = "replace" /\ Gone(admin[o].waits)
  /\ current < MaxGenerations
  /\ current' = current + 1
  /\ gen' = [gen EXCEPT
       ![current] = LET old == [gen[current] EXCEPT !.retired = TRUE]
                    IN IF old.leases = 0 THEN Closing(old) ELSE old,
       ![current + 1] = NewGeneration(configured)]
  /\ retired' = retired \cup {current}
  /\ scope' = configured \cup account
  /\ cache' = Scoped(configured \cup account)
  /\ task' = [task EXCEPT ![o] =
                [stage |-> "created", target |-> current + 1, missing |-> FALSE]]
  /\ refreshTask' = o
  /\ admin' = [admin EXCEPT ![o].pc = "awaiting", ![o].target = current]
  /\ UNCHANGED <<lease, lock, closer, closing, closed, account, faults>>

ReplaceEnds(o) ==
  /\ admin[o].pc = "awaiting" /\ ~gen[admin[o].target].cleaning
  /\ Leave(o) /\ lock' = None
  /\ UNCHANGED <<gen, current, retired, lease, task, refreshTask, closer,
                 closing, closed, account, scope, cache, faults>>

\* connected_provider_changed(p, connected): eviction is immediate; a new
\* account's models are listed through the current runtime, under the lock.
AccountChanged(o, p, connected) ==
  /\ Locks(o) /\ ~closing /\ ~closed /\ admin[o].kind = "connect"
  /\ IF connected
     THEN /\ scope' = scope \cup {p}
          /\ gen' = [gen EXCEPT ![current].clients = gen[current].clients \cup {p}]
          /\ admin' = [admin EXCEPT ![o].pc = "refreshing", ![o].target = current]
          /\ lock' = o
          /\ UNCHANGED cache
     ELSE /\ Publishes(cache \ {p})
          /\ Leave(o)
          /\ UNCHANGED <<gen, lock>>
  /\ UNCHANGED <<current, retired, lease, task, refreshTask, closer, closing,
                 closed, account, faults>>

AccountListed(o, p) ==
  /\ admin[o].pc = "refreshing" /\ admin[o].kind = "connect"
  /\ Publishes(cache) \/ Publishes(Caching({p}))
  /\ Leave(o) /\ lock' = None
  /\ UNCHANGED <<gen, current, retired, lease, task, refreshTask, closer,
                 closing, closed, account, faults>>

\* The caller is cancelled while it waits; the lock is given back, a shared
\* cleanup task or a cancelled discovery goes on by itself.
CallerCancelled(o) ==
  /\ admin[o].pc \in {"locking", "cancelling", "awaiting"}
  /\ Leave(o)
  /\ lock' = IF lock = o THEN None ELSE lock
  /\ UNCHANGED <<gen, current, retired, lease, task, refreshTask, closer,
                 closing, closed, account, scope, cache, faults>>

-----------------------------------------------------------------------------
(* close().                                                                *)

CloseCalled ==
  /\ closer.pc = "idle" /\ ~closed /\ closer.calls < MaxCloseCalls
  /\ task[Startup].stage # "none"
  /\ closer' = [closer EXCEPT !.pc = "locking", !.calls = closer.calls + 1]
  /\ UNCHANGED <<gen, current, retired, lease, lock, admin, task, refreshTask,
                 closing, closed, account, scope, cache, faults>>

CloseBegins ==
  /\ closer.pc = "locking" /\ lock = None
  /\ lock' = Closer
  /\ closing' = TRUE
  /\ CancelRefresh
  /\ closer' = [closer EXCEPT !.pc = "cancelling", !.waits = Cancelled]
  /\ UNCHANGED <<gen, current, retired, lease, admin, closed, account, scope,
                 cache, faults>>

CloseRetires ==
  /\ closer.pc = "cancelling" /\ Gone(closer.waits)
  /\ gen' = [gen EXCEPT ![current].retired = TRUE]
  /\ retired' = IF gen[current].retired THEN retired ELSE retired \cup {current}
  /\ closer' = [closer EXCEPT !.pc = "draining", !.targets = retired', !.waits = None]
  /\ lock' = None
  /\ UNCHANGED <<current, lease, admin, task, refreshTask, closing, closed,
                 account, scope, cache, faults>>

CloseDrained ==
  /\ closer.pc = "draining"
  /\ \A g \in closer.targets : gen[g].leases = 0
  /\ gen' = [g \in Generations |->
               IF g \in closer.targets THEN Closing(gen[g]) ELSE gen[g]]
  /\ closer' = [closer EXCEPT !.pc = "joining"]
  /\ UNCHANGED <<current, retired, lease, lock, admin, task, refreshTask,
                 closing, closed, account, scope, cache, faults>>

CloseEnds ==
  /\ closer.pc = "joining"
  /\ \A g \in closer.targets : ~gen[g].cleaning
  /\ closer' = [closer EXCEPT !.pc = "idle", !.targets = {}, !.waits = None]
  /\ IF \A g \in closer.targets : gen[g].closed
     THEN closed' = TRUE /\ cache' = Scoped({})
     ELSE UNCHANGED <<closed, cache>>
  /\ UNCHANGED <<gen, current, retired, lease, lock, admin, task, refreshTask,
                 closing, account, scope, faults>>

\* close() is cancelled while it waits; it may be called again.
CloseCancelled ==
  /\ closer.pc # "idle" /\ closer.calls < MaxCloseCalls
  /\ closer' = [closer EXCEPT !.pc = "idle", !.targets = {}, !.waits = None]
  /\ lock' = IF lock = Closer THEN None ELSE lock
  /\ UNCHANGED <<gen, current, retired, lease, admin, task, refreshTask,
                 closing, closed, account, scope, cache, faults>>

-----------------------------------------------------------------------------
\* The account manager's own state: a login completes or a token is revoked.
AccountTurns(p) ==
  /\ account' = IF p \in account THEN account \ {p} ELSE account \cup {p}
  /\ UNCHANGED <<gen, current, retired, lease, lock, admin, task, refreshTask,
                 closer, closing, closed, scope, cache, faults>>

AdminStep(o) ==
  \/ \E kind \in AdminKind : Request(o, kind)
  \/ Rejected(o)
  \/ CancelsRefresh(o)
  \/ RefreshBegins(o) \/ RefreshEnds(o)
  \/ CommitFails(o)
  \/ \E configured \in SUBSET Configurable : Publish(o, configured)
  \/ ReplaceEnds(o)
  \/ \E p \in Accounts, connected \in BOOLEAN : AccountChanged(o, p, connected)
  \/ \E p \in Accounts : AccountListed(o, p)
  \/ CallerCancelled(o)

CloseStep ==
  \/ CloseCalled \/ CloseBegins \/ CloseRetires \/ CloseDrained \/ CloseEnds
  \/ CloseCancelled

TaskStep(t) == TaskBegins(t) \/ TaskEnds(t) \/ TaskCancelled(t)

GenNext ==
  \/ Start
  \/ \E r \in Requests, clients \in AtMostOne : Retain(r, clients) \/ Release(r, clients)
  \/ \E clients \in AtMostOne : Glimpse(clients)
  \/ \E g \in Generations : CleanupEnds(g)
  \/ \E t \in Tasks : TaskStep(t)
  \/ \E o \in AdminOps : AdminStep(o)
  \/ CloseStep
  \/ ReadCatalog
  \/ \E p \in Accounts : AccountTurns(p)

GenSpec == GenInit /\ [][GenNext]_genVars

-----------------------------------------------------------------------------
AdminType == [pc : AdminPlace, kind : AdminKind, target : Generations \cup {NoGeneration},
              waits : Tasks \cup {None}]
TaskType == [stage : TaskStage, target : Generations \cup {NoGeneration}, missing : BOOLEAN]
CloserType == [pc : CloserPlace, calls : 0..MaxCloseCalls, targets : SUBSET Generations,
               waits : Tasks \cup {None}]

\* The state of the runtime manager has the shape the code gives it.
GenTypeOK ==
  /\ gen \in [Generations -> GenerationType]
  /\ current \in Generations
  /\ retired \in SUBSET Generations
  /\ lease \in [Holders -> Generations \cup {NoGeneration}]
  /\ lock \in AdminOps \cup {Closer, None}
  /\ admin \in [AdminOps -> AdminType]
  /\ task \in [Tasks -> TaskType]
  /\ refreshTask \in Tasks \cup {None}
  /\ closer \in CloserType
  /\ closing \in BOOLEAN /\ closed \in BOOLEAN
  /\ account \in SUBSET Accounts
  /\ scope \in SUBSET Providers
  /\ cache \in SUBSET Providers
  /\ faults \in 0..MaxFaults

\* active_leases of a generation is the number of those who retain it: no
\* release is lost and none is counted twice, whatever is cancelled.  So its
\* clients are closed, or being closed, only when nobody retains it ("its last
\* lease closes it exactly once").
HoldersOf(g) == {h \in Holders : lease[h] = g}
NeverClosedInUse ==
  /\ \A g \in Generations : gen[g].leases = Cardinality(HoldersOf(g))
  /\ \A h \in Holders : LET g == lease[h] IN
       g # NoGeneration => gen[g].published /\ ~gen[g].closed /\ ~gen[g].cleaning

\* Every published generation has an owner that will close it: it is current,
\* or retired and on record as such, or closed with no client left behind; and
\* when close() has returned normally, nothing that was ever published is left.
EveryGenerationIsOwned ==
  /\ GenTypeOK
  /\ \A g \in Generations : gen[g].published =>
      /\ \/ g = current /\ ~gen[g].retired
         \/ g \in retired /\ gen[g].retired /\ ~gen[g].closed
         \/ gen[g].closed /\ gen[g].retired /\ gen[g].clients = {} /\ g \notin retired
      /\ closed => gen[g].closed

\* A retired generation is never retained again, not even by a discovery that
\* was started for it, and a closed one never changes.
RetiredIsFinal ==
  [][\A g \in Generations :
       /\ gen[g].closed => gen'[g] = gen[g]
       /\ gen[g].retired =>
            gen'[g].retired /\ \A h \in Holders : lease'[h] = g => lease[h] = g]_genVars
=============================================================================
