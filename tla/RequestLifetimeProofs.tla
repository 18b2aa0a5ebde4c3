----------------------- MODULE RequestLifetimeProofs ------------------------
(***************************************************************************)
(* The provider runtime manager counts its leases and closes no generation *)
(* in use, and the requests over it retain what they stream from and are   *)
(* recorded once: for any requests, operations, providers and bounds.      *)
(*                                                                         *)
(* The invariant relates each generation to those who retain it, each      *)
(* discovery task to refreshTask and to the current generation, each       *)
(* operation to the lock, and close() to what is left to be closed.  A     *)
(* step is followed first in what it does to the generations (taken,       *)
(* grown, given back), then in what it does to its own actor.              *)
(***************************************************************************)
EXTENDS RequestLifetime, FiniteSetTheorems, TLAPS

\* What is said of a generation: its leases are counted, it is closed or being
\* closed only when it is retired and nobody retains it, and somebody owns it.
GenerationInv(g) ==
  LET gr == gen[g] IN
  /\ gr.published <=> g <= current
  /\ gr.leases = Cardinality(HoldersOf(g))
  /\ gr.retired \/ gr.leases # 0 => gr.published
  /\ gr.closed => gr.retired /\ ~gr.cleaning /\ gr.leases = 0 /\ gr.clients = {}
  /\ gr.cleaning => gr.retired /\ gr.leases = 0
  /\ gr.retired /\ ~gr.closed <=> g \in retired
  /\ gr.published /\ ~gr.retired => g = current
  /\ g = current /\ gr.retired => closing
  /\ closed /\ gr.published => gr.closed

\* A discovery that has not begun was started for the current generation, and
\* only one that refreshTask names is not finished.
TaskInv(t) ==
  /\ task[t].stage = "created" =>
       task[t].target = current /\ ~gen[current].retired /\ lease[t] = NoGeneration
  /\ Unfinished(t) => refreshTask = t
  /\ task[t].stage = "running" => lease[t] = task[t].target /\ lease[t] # NoGeneration
  /\ t = Startup /\ lease[t] # NoGeneration => task[t].stage \in {"running", "cancelled"}

\* An operation under the lock has it; it retains a generation for its own
\* discovery, or the task it created does, never both.
Busy(o) == admin[o].pc \in {"cancelling", "awaiting", "refreshing"}
AdminInv(o) ==
  /\ admin[o].pc # "idle" => task[Startup].stage # "none"
  /\ admin[o].pc \in {"idle", "locking", "cancelling"} =>
       task[o].stage = "none" /\ lease[o] = NoGeneration
  /\ admin[o].pc = "cancelling" => refreshTask = None
  /\ admin[o].pc = "refreshing" => task[o].stage = "none" /\ admin[o].target # NoGeneration
  /\ admin[o].pc = "refreshing" /\ admin[o].kind = "refresh" => lease[o] = admin[o].target
  /\ lease[o] # NoGeneration =>
       \/ admin[o].pc = "refreshing" /\ admin[o].kind = "refresh"
       \/ task[o].stage \in {"running", "cancelled"}
  /\ lock = o <=> Busy(o)

\* close() begins under the lock, after which nobody else gets it.
LockInv ==
  /\ lock = Closer <=> closer.pc = "cancelling"
  /\ closing => lock \notin AdminOps /\ refreshTask = None /\ task[Startup].stage # "none"
  /\ closer.pc # "idle" => task[Startup].stage # "none"
  /\ closed \/ closer.pc \in {"cancelling", "draining", "joining"} => closing

\* It then waits for all that is left to close.
CloserInv ==
  closer.pc \in {"draining", "joining"} =>
    \A g \in Generations :
      /\ gen[g].published => gen[g].closed \/ g \in closer.targets
      /\ g \in closer.targets => gen[g].retired

GenInv ==
  /\ GenTypeOK /\ \A g \in Generations : GenerationInv(g)
  /\ \A t \in Tasks : TaskInv(t)
  /\ \A o \in AdminOps : AdminInv(o)
  /\ LockInv /\ CloserInv

\* A step leaves closed generations and those who retain retired ones alone.
Lasting ==
  \A g \in Generations :
    /\ gen[g].closed => gen'[g] = gen[g]
    /\ gen[g].retired =>
         gen'[g].retired /\ \A h \in Holders : lease'[h] = g => lease[h] = g

\* It publishes, retires and closes none.
SameFate ==
  \A g \in Generations :
    /\ gen'[g].published = gen[g].published
    /\ gen'[g].retired = gen[g].retired /\ gen'[g].closed = gen[g].closed

-----------------------------------------------------------------------------
(* Those who retain a generation can be counted.                           *)
LEMMA HoldersCounted ==
  ASSUME NEW g
  PROVE  IsFiniteSet(HoldersOf(g)) /\ Cardinality(HoldersOf(g)) \in Nat
<1>1. IsFiniteSet(Holders)
  <2>1. IsFiniteSet({Startup})
    BY FS_Singleton
  <2>2. IsFiniteSet(AdminOps \cup {Startup})
    BY <2>1, FS_Union, GenerationsAssumption
  <2>3. QED
    BY <2>2, FS_Union, GenerationsAssumption DEF Holders, Tasks
<1>2. HoldersOf(g) \subseteq Holders
  BY DEF HoldersOf
<1>3. QED
  BY <1>1, <1>2, FS_Subset, FS_CardinalityType

(* A lease taken is one more, and one given back is one less.              *)
LEMMA TakenIsCounted ==
  ASSUME lease \in [Holders -> Generations \cup {NoGeneration}],
         NEW h \in Holders, NEW g \in Generations, lease[h] = NoGeneration,
         lease' = [lease EXCEPT ![h] = g]
  PROVE  /\ Cardinality(HoldersOf(g)') = Cardinality(HoldersOf(g)) + 1
         /\ \A k \in Generations : k # g => HoldersOf(k)' = HoldersOf(k)
<1>1. NoGeneration \notin Generations
  BY DEF NoGeneration, Generations
<1>2. HoldersOf(g)' = HoldersOf(g) \cup {h} /\ h \notin HoldersOf(g)
  BY <1>1 DEF HoldersOf
<1>3. \A k \in Generations : k # g => HoldersOf(k)' = HoldersOf(k)
  BY <1>1 DEF HoldersOf
<1>4. QED
  BY <1>2, <1>3, HoldersCounted, FS_AddElement

(* A lease given back is one less.                                         *)
LEMMA GivenIsCounted ==
  ASSUME lease \in [Holders -> Generations \cup {NoGeneration}],
         NEW h \in Holders, NEW g \in Generations, lease[h] = g,
         lease' = [lease EXCEPT ![h] = NoGeneration]
  PROVE  /\ Cardinality(HoldersOf(g)') = Cardinality(HoldersOf(g)) - 1
         /\ Cardinality(HoldersOf(g)) # 0
         /\ \A k \in Generations : k # g => HoldersOf(k)' = HoldersOf(k)
<1>1. NoGeneration \notin Generations
  BY DEF NoGeneration, Generations
<1>2. HoldersOf(g)' = HoldersOf(g) \ {h} /\ h \in HoldersOf(g)
  BY <1>1 DEF HoldersOf
<1>3. \A k \in Generations : k # g => HoldersOf(k)' = HoldersOf(k)
  BY <1>1 DEF HoldersOf
<1>4. Cardinality(HoldersOf(g)) # 0
  BY <1>2, HoldersCounted, FS_EmptySet
<1>5. QED
  BY <1>2, <1>3, <1>4, HoldersCounted, FS_RemoveElement

(* What the operators on a generation do to its record.                    *)
LEMMA LeasedFields ==
  ASSUME NEW gr \in GenerationType, NEW P \in SUBSET Providers
  PROVE  LET q == [Leased(gr) EXCEPT !.clients = P] IN
         /\ q \in GenerationType /\ q.leases = gr.leases + 1
         /\ q.published = gr.published /\ q.retired = gr.retired
         /\ q.closed = gr.closed /\ q.cleaning = gr.cleaning
<1>1. /\ Leased(gr) \in GenerationType /\ Leased(gr).leases = gr.leases + 1
      /\ Leased(gr).published = gr.published /\ Leased(gr).retired = gr.retired
      /\ Leased(gr).closed = gr.closed /\ Leased(gr).cleaning = gr.cleaning
  BY DEF Leased, GenerationType
<1> HIDE DEF Leased
<1>2. QED
  BY <1>1 DEF GenerationType

(* _close_generation starts the cleanup of a generation nobody retains.    *)
LEMMA ClosingFields ==
  ASSUME NEW gr \in GenerationType
  PROVE  /\ Closing(gr) \in GenerationType /\ Closing(gr).leases = gr.leases
         /\ Closing(gr).published = gr.published /\ Closing(gr).retired = gr.retired
         /\ Closing(gr).closed = gr.closed /\ Closing(gr).clients = gr.clients
         /\ Closing(gr).cleaning <=> gr.cleaning \/ (~gr.closed /\ gr.leases = 0)
         /\ gr.closed => Closing(gr) = gr
<1>1. PICK b \in BOOLEAN : b <=> gr.cleaning \/ (~gr.closed /\ gr.leases = 0)
  OBVIOUS
<1>2. (gr.cleaning \/ (~gr.closed /\ gr.leases = 0)) = b
  BY <1>1 DEF GenerationType
<1>3. Closing(gr) = [gr EXCEPT !.cleaning = b]
  BY <1>2, Zenon DEF Closing
<1>4. QED
  BY <1>1, <1>3 DEF GenerationType

(* What a release does to the record of the generation.                    *)
LEMMA ReleasedFields ==
  ASSUME NEW gr \in GenerationType, gr.leases # 0, ~gr.cleaning
  PROVE  LET q == Released(gr) IN
         /\ q \in GenerationType /\ q.leases = gr.leases - 1
         /\ q.published = gr.published /\ q.retired = gr.retired
         /\ q.closed = gr.closed /\ q.clients = gr.clients
         /\ q.cleaning => gr.retired /\ q.leases = 0
<1> DEFINE left == [gr EXCEPT !.leases = gr.leases - 1]
<1>1. /\ left \in GenerationType /\ left.leases = gr.leases - 1 /\ left.clients = gr.clients
      /\ left.published = gr.published /\ left.retired = gr.retired
      /\ left.closed = gr.closed /\ left.cleaning = gr.cleaning
  BY DEF GenerationType
<1>2. Released(gr) = IF left.leases = 0 /\ left.retired /\ ~closing THEN Closing(left) ELSE left
  BY DEF Released
<1> HIDE DEF left
<1>3. QED
  BY <1>1, <1>2, ClosingFields

(* A generation in use gains a lease, or clients, and stays in use.        *)
LEMMA TakenGenerations ==
  ASSUME GenTypeOK, \A k \in Generations : GenerationInv(k),
         NEW h \in Holders, NEW g \in Generations, NEW P \in SUBSET Providers,
         lease[h] = NoGeneration, gen[g].published, ~gen[g].retired,
         lease' = [lease EXCEPT ![h] = g],
         gen' = [gen EXCEPT ![g] = [Leased(gen[g]) EXCEPT !.clients = P]],
         UNCHANGED <<current, retired, closing, closed>>
  PROVE  /\ gen' \in [Generations -> GenerationType]
         /\ lease' \in [Holders -> Generations \cup {NoGeneration}]
         /\ \A k \in Generations : GenerationInv(k)'
         /\ Lasting /\ SameFate
<1>1. /\ gen \in [Generations -> GenerationType]
      /\ lease \in [Holders -> Generations \cup {NoGeneration}]
  BY DEF GenTypeOK
<1>2. GenerationInv(g) /\ gen[g] \in GenerationType
  BY <1>1
<1>3. ~gen[g].closed /\ ~gen[g].cleaning
  BY <1>2 DEF GenerationInv
<1>4. /\ gen'[g] \in GenerationType
      /\ gen'[g].leases = gen[g].leases + 1 /\ gen'[g].published = gen[g].published
      /\ gen'[g].retired = gen[g].retired /\ gen'[g].closed = gen[g].closed
      /\ gen'[g].cleaning = gen[g].cleaning
  BY <1>1, <1>2, LeasedFields
<1>5. \A k \in Generations : k # g => gen'[k] = gen[k]
  BY <1>1
<1>6. /\ gen' \in [Generations -> GenerationType]
      /\ lease' \in [Holders -> Generations \cup {NoGeneration}]
  BY <1>1, <1>4
<1>7. Cardinality(HoldersOf(g)') = Cardinality(HoldersOf(g)) + 1
  BY <1>1, TakenIsCounted
<1>8. GenerationInv(g)'
  BY <1>2, <1>3, <1>4, <1>7 DEF GenerationInv
<1>9. \A k \in Generations : k # g => GenerationInv(k)'
  <2>1. \A k \in Generations : k # g => HoldersOf(k)' = HoldersOf(k)
    BY <1>1, TakenIsCounted
  <2>2. QED
    BY <2>1, <1>5 DEF GenerationInv
<1>10. Lasting /\ SameFate
  BY <1>1, <1>2, <1>3, <1>4, <1>5 DEF Lasting, SameFate
<1>11. QED
  BY <1>6, <1>8, <1>9, <1>10

(* Clients constructed in the current generation leave it in use.          *)
LEMMA GrownGenerations ==
  ASSUME GenTypeOK, \A k \in Generations : GenerationInv(k), ~closing,
         NEW P \in SUBSET Providers,
         gen' = [gen EXCEPT ![current].clients = P],
         UNCHANGED <<current, retired, lease, closing, closed>>
  PROVE  /\ gen' \in [Generations -> GenerationType]
         /\ \A k \in Generations : GenerationInv(k)'
         /\ Lasting /\ SameFate
<1>1. gen \in [Generations -> GenerationType] /\ current \in Generations
  BY DEF GenTypeOK
<1>2. GenerationInv(current) /\ gen[current] \in GenerationType
  BY <1>1
<1>3. ~gen[current].closed /\ ~gen[current].retired
  BY <1>1, <1>2 DEF GenerationInv
<1>4. /\ gen'[current] \in GenerationType
      /\ gen'[current].leases = gen[current].leases
      /\ gen'[current].published = gen[current].published
      /\ gen'[current].retired = gen[current].retired
      /\ gen'[current].closed = gen[current].closed
      /\ gen'[current].cleaning = gen[current].cleaning
  BY <1>1, <1>2 DEF GenerationType
<1>5. \A k \in Generations : k # current => gen'[k] = gen[k]
  BY <1>1
<1>6. \A k \in Generations : HoldersOf(k)' = HoldersOf(k)
  BY DEF HoldersOf
<1>7. \A k \in Generations : GenerationInv(k)'
  BY <1>2, <1>3, <1>4, <1>5, <1>6 DEF GenerationInv
<1>8. Lasting /\ SameFate
  BY <1>1, <1>3, <1>4, <1>5 DEF Lasting, SameFate
<1>9. QED
  BY <1>1, <1>4, <1>7, <1>8

(* The last lease on a retired generation has it closed, unless close()    *)
(* does it.                                                                *)
LEMMA GivenGenerations ==
  ASSUME GenTypeOK, \A k \in Generations : GenerationInv(k),
         NEW h \in Holders, NEW g \in Generations, lease[h] = g,
         lease' = [lease EXCEPT ![h] = NoGeneration],
         gen' = [gen EXCEPT ![g] = Released(gen[g])],
         UNCHANGED <<current, retired, closing, closed>>
  PROVE  /\ gen' \in [Generations -> GenerationType]
         /\ lease' \in [Holders -> Generations \cup {NoGeneration}]
         /\ \A k \in Generations : GenerationInv(k)'
         /\ Lasting /\ SameFate
<1>1. /\ gen \in [Generations -> GenerationType]
      /\ lease \in [Holders -> Generations \cup {NoGeneration}]
  BY DEF GenTypeOK
<1>2. GenerationInv(g) /\ gen[g] \in GenerationType
  BY <1>1
<1>3. /\ Cardinality(HoldersOf(g)') = Cardinality(HoldersOf(g)) - 1
      /\ Cardinality(HoldersOf(g)) # 0 /\ Cardinality(HoldersOf(g)) \in Nat
      /\ \A k \in Generations : k # g => HoldersOf(k)' = HoldersOf(k)
  BY <1>1, GivenIsCounted, HoldersCounted
<1>4. gen[g].leases = Cardinality(HoldersOf(g)) /\ gen[g].leases # 0
  BY <1>2, <1>3 DEF GenerationInv
<1>5. ~gen[g].closed /\ ~gen[g].cleaning /\ gen[g].published
  BY <1>2, <1>4 DEF GenerationInv
<1>7. /\ gen'[g] \in GenerationType
      /\ gen'[g].leases = gen[g].leases - 1 /\ gen'[g].published = gen[g].published
      /\ gen'[g].retired = gen[g].retired /\ gen'[g].closed = gen[g].closed
      /\ gen'[g].cleaning => gen[g].retired /\ gen'[g].leases = 0
  BY <1>1, <1>2, <1>4, <1>5, ReleasedFields
<1>8. \A k \in Generations : k # g => gen'[k] = gen[k]
  BY <1>1
<1>9. GenerationInv(g)'
  BY <1>2, <1>3, <1>4, <1>5, <1>7 DEF GenerationInv
<1>10. \A k \in Generations : k # g => GenerationInv(k)'
  BY <1>3, <1>8 DEF GenerationInv
<1>11. Lasting /\ SameFate
  <2>1. \A k \in Generations : lease'[h] # k
    BY <1>1 DEF NoGeneration, Generations
  <2>2. QED
    BY <1>1, <1>5, <1>7, <1>8, <2>1 DEF Lasting, SameFate
<1>12. QED
  BY <1>1, <1>7, <1>8, <1>9, <1>10, <1>11

(* What depends on the generations' fate alone.                            *)
LEMMA FateFrame ==
  ASSUME GenInv, SameFate, \A t \in Tasks : lease'[t] = lease[t],
         UNCHANGED <<current, lock, admin, task, refreshTask, closer, closing, closed>>
  PROVE  /\ \A t \in Tasks : TaskInv(t)'
         /\ \A o \in AdminOps : AdminInv(o)'
         /\ LockInv' /\ CloserInv'
<1>1. current \in Generations
  BY DEF GenInv, GenTypeOK
<1>2. gen'[current].retired = gen[current].retired
  BY <1>1 DEF SameFate
<1>3. ASSUME NEW t \in Tasks PROVE TaskInv(t)'
  BY <1>2 DEF GenInv, TaskInv, Unfinished
<1>4. ASSUME NEW o \in AdminOps PROVE AdminInv(o)'
  BY DEF GenInv, AdminInv, Busy, Tasks
<1>5. LockInv'
  BY DEF GenInv, LockInv
<1>6. CloserInv'
  BY DEF GenInv, CloserInv, SameFate
<1>7. QED
  BY <1>3, <1>4, <1>5, <1>6

(* Generations that nothing touches stay what they are.                    *)
LEMMA StillGenerations ==
  ASSUME GenInv, UNCHANGED <<gen, current, retired, lease, closing, closed>>
  PROVE  (\A k \in Generations : GenerationInv(k)') /\ Lasting /\ SameFate
<1>1. \A k \in Generations : HoldersOf(k)' = HoldersOf(k)
  BY DEF HoldersOf
<1>2. \A k \in Generations : GenerationInv(k)'
  BY <1>1 DEF GenInv, GenerationInv
<1>3. Lasting /\ SameFate
  BY DEF Lasting, SameFate
<1>4. QED
  BY <1>2, <1>3

(* What the catalog may hold.                                              *)
LEMMA PublishesTypes ==
  ASSUME GenTypeOK
  PROVE  /\ \A g \in Generations : Usable(g) \in SUBSET Providers
         /\ \A ps : Caching(ps) \in SUBSET Providers
         /\ \A cached \in SUBSET Providers :
              Publishes(cached) => scope' \in SUBSET Providers /\ cache' \in SUBSET Providers
<1>1. \A g \in Generations : Usable(g) \in SUBSET Providers
  BY DEF GenTypeOK, GenerationType, Usable, Providers
<1>2. \A ps : Caching(ps) \in SUBSET Providers
  BY DEF GenTypeOK, Caching
<1>3. current \in Generations
  BY DEF GenTypeOK
<1>4. QED
  BY <1>1, <1>2, <1>3 DEF Publishes

(* A generation is new when it is published.                               *)
LEMMA NewFields ==
  ASSUME NEW configured \in SUBSET Configurable
  PROVE  LET new == NewGeneration(configured) IN
         /\ new \in GenerationType /\ Unpublished \in GenerationType
         /\ new.published /\ ~Unpublished.published
         /\ \A gr \in {new, Unpublished} :
              ~gr.retired /\ ~gr.closed /\ ~gr.cleaning /\ gr.leases = 0
<1>1. \A C \in SUBSET Configurable :
        LET new == NewGeneration(C) IN
        /\ new \in GenerationType /\ new.published
        /\ ~new.retired /\ ~new.closed /\ ~new.cleaning /\ new.leases = 0
  BY DEF NewGeneration, GenerationType
<1>2. Unpublished = [NewGeneration({}) EXCEPT !.published = FALSE]
  BY DEF Unpublished
<1>3. LET new == NewGeneration({}) IN
      /\ new \in GenerationType
      /\ ~new.retired /\ ~new.closed /\ ~new.cleaning /\ new.leases = 0
  BY <1>1
<1> HIDE DEF NewGeneration
<1>4. /\ Unpublished \in GenerationType /\ ~Unpublished.published
      /\ ~Unpublished.retired /\ ~Unpublished.closed /\ ~Unpublished.cleaning
      /\ Unpublished.leases = 0
  BY <1>2, <1>3 DEF GenerationType
<1>5. QED
  BY <1>1, <1>4

(* At first the one generation is the one that is configured.              *)
LEMMA InitGenInv == GenInit => GenInv
<1> SUFFICES ASSUME GenInit PROVE GenInv
  OBVIOUS
<1>1. 1 \in Generations /\ NoGeneration \notin Generations
  BY GenerationsAssumption DEF Generations, NoGeneration
<1>2. \A g : g # NoGeneration => HoldersOf(g) = {}
  BY DEF GenInit, HoldersOf
<1>3. Cardinality({}) = 0
  BY FS_EmptySet
<1>4. PICK configured \in SUBSET Configurable :
        /\ gen = [g \in Generations |-> IF g = 1 THEN NewGeneration(configured) ELSE Unpublished]
        /\ scope = configured
  BY DEF GenInit
<1>5. /\ NewGeneration(configured) \in GenerationType /\ Unpublished \in GenerationType
      /\ NewGeneration(configured).published /\ ~Unpublished.published
      /\ \A gr \in {NewGeneration(configured), Unpublished} :
           ~gr.retired /\ ~gr.closed /\ ~gr.cleaning /\ gr.leases = 0
  BY NewFields
<1>6. GenTypeOK
  <2>1. gen \in [Generations -> GenerationType]
    BY <1>4, <1>5
  <2>2. admin \in [AdminOps -> AdminType]
    BY DEF GenInit, AdminType, AdminPlace, AdminKind
  <2>3. task \in [Tasks -> TaskType]
    BY DEF GenInit, TaskType, TaskStage
  <2>4. closer \in CloserType
    BY GenerationsAssumption DEF GenInit, CloserType, CloserPlace
  <2>5. scope \in SUBSET Providers /\ cache \in SUBSET Providers /\ account \in SUBSET Accounts
    BY <1>4 DEF GenInit, Providers
  <2>6. faults \in 0..MaxFaults
    BY GenerationsAssumption DEF GenInit
  <2>7. QED
    BY <1>1, <2>1, <2>2, <2>3, <2>4, <2>5, <2>6 DEF GenInit, GenTypeOK
<1>7. ASSUME NEW g \in Generations PROVE GenerationInv(g)
  <2>1. HoldersOf(g) = {} /\ retired = {} /\ ~closed /\ current = 1
    BY <1>1, <1>2 DEF GenInit
  <2>2. g = 1 <=> g <= 1
    BY DEF Generations
  <2>3. gen[g] = IF g = 1 THEN NewGeneration(configured) ELSE Unpublished
    BY <1>4
  <2>4. QED
    BY <1>3, <1>5, <2>1, <2>2, <2>3 DEF GenerationInv
<1>8. ASSUME NEW t \in Tasks PROVE TaskInv(t)
  BY DEF GenInit, TaskInv, Unfinished, Holders
<1>9. ASSUME NEW o \in AdminOps PROVE AdminInv(o)
  BY GenerationsAssumption DEF GenInit, AdminInv, Busy, Tasks, Holders
<1>10. LockInv /\ CloserInv
  BY GenerationsAssumption DEF GenInit, LockInv, CloserInv
<1>11. QED
  BY <1>6, <1>7, <1>8, <1>9, <1>10 DEF GenInv

-----------------------------------------------------------------------------
(* Leases of requests, and lookups under one.                              *)
LEMMA RetainInv ==
  ASSUME GenInv, NEW r \in Requests, NEW clients \in SUBSET Providers, Retain(r, clients)
  PROVE  GenInv' /\ Lasting
<1>1. r \in Holders /\ r \notin Tasks
  BY GenerationsAssumption DEF Holders
<1>2. current \in Generations /\ gen[current] \in GenerationType /\ GenerationInv(current)
  BY DEF GenInv, GenTypeOK
<1>3. gen[current].published /\ ~gen[current].retired
  BY <1>2 DEF GenerationInv, Retain, GenTypeOK, GenInv, Generations
<1>4. gen[current].clients \cup clients \in SUBSET Providers
  BY <1>2 DEF GenerationType
<1>5. /\ gen' \in [Generations -> GenerationType]
      /\ lease' \in [Holders -> Generations \cup {NoGeneration}]
      /\ \A k \in Generations : GenerationInv(k)'
      /\ Lasting /\ SameFate
  <2> DEFINE P == gen[current].clients \cup clients
  <2>1. gen' = [gen EXCEPT ![current] = [Leased(gen[current]) EXCEPT !.clients = P]]
    BY DEF Retain
  <2>2. /\ lease[r] = NoGeneration /\ lease' = [lease EXCEPT ![r] = current]
        /\ UNCHANGED <<current, retired, closing, closed>>
    BY DEF Retain
  <2>3. P \in SUBSET Providers
    BY <1>4
  <2> HIDE DEF P
  <2>4. QED
    BY <1>1, <1>2, <1>3, <2>1, <2>2, <2>3, TakenGenerations DEF GenInv
<1>6. GenTypeOK'
  BY <1>5 DEF Retain, GenInv, GenTypeOK
<1>7. \A t \in Tasks : lease'[t] = lease[t]
  BY <1>1 DEF Retain, GenInv, GenTypeOK, Holders
<1>8. /\ \A t \in Tasks : TaskInv(t)'
      /\ \A o \in AdminOps : AdminInv(o)'
      /\ LockInv' /\ CloserInv'
  BY <1>5, <1>7, FateFrame DEF Retain
<1>9. QED
  BY <1>5, <1>6, <1>8 DEF GenInv

(* A lease that is taken and given back at once changes no count.          *)
LEMMA GlimpseInv ==
  ASSUME GenInv, NEW clients \in SUBSET Providers, Glimpse(clients)
  PROVE  GenInv' /\ Lasting
<1> DEFINE P == gen[current].clients \cup clients
<1>1. P \in SUBSET Providers
  BY DEF GenInv, GenTypeOK, GenerationType
<1>2. gen' = [gen EXCEPT ![current].clients = P] /\ ~closing
  BY DEF Glimpse
<1> HIDE DEF P
<1>3. /\ gen' \in [Generations -> GenerationType]
      /\ \A k \in Generations : GenerationInv(k)'
      /\ Lasting /\ SameFate
  BY <1>1, <1>2, GrownGenerations DEF Glimpse, GenInv
<1>4. GenTypeOK'
  BY <1>3 DEF Glimpse, GenInv, GenTypeOK
<1>5. /\ \A t \in Tasks : TaskInv(t)'
      /\ \A o \in AdminOps : AdminInv(o)'
      /\ LockInv' /\ CloserInv'
  BY <1>3, FateFrame DEF Glimpse
<1>6. QED
  BY <1>3, <1>4, <1>5 DEF GenInv

(* A request gives its lease back.                                         *)
LEMMA ReleaseInv ==
  ASSUME GenInv, NEW r \in Requests, NEW listed \in SUBSET Providers, Release(r, listed)
  PROVE  GenInv' /\ Lasting
<1>1. r \in Holders /\ r \notin Tasks
  BY GenerationsAssumption DEF Holders
<1>2. lease[r] \in Generations
  BY <1>1 DEF GenInv, GenTypeOK, Release
<1>3. /\ gen' \in [Generations -> GenerationType]
      /\ lease' \in [Holders -> Generations \cup {NoGeneration}]
      /\ \A k \in Generations : GenerationInv(k)'
      /\ Lasting /\ SameFate
  BY <1>1, <1>2, GivenGenerations DEF Release, GenInv
<1>4. scope' \in SUBSET Providers /\ cache' \in SUBSET Providers
  BY PublishesTypes DEF Release, GenInv, GenTypeOK
<1>5. GenTypeOK'
  BY <1>3, <1>4 DEF Release, GenInv, GenTypeOK
<1>6. \A t \in Tasks : lease'[t] = lease[t]
  BY <1>1 DEF Release, GenInv, GenTypeOK, Holders
<1>7. /\ \A t \in Tasks : TaskInv(t)'
      /\ \A o \in AdminOps : AdminInv(o)'
      /\ LockInv' /\ CloserInv'
  BY <1>3, <1>6, FateFrame DEF Release
<1>8. QED
  BY <1>3, <1>5, <1>7 DEF GenInv

(* A generation is closed when none of its clients is left.                *)
LEMMA CleanupEndsInv ==
  ASSUME GenInv, NEW g \in Generations, CleanupEnds(g)
  PROVE  GenInv' /\ Lasting
<1>1. PICK left \in SUBSET gen[g].clients :
        /\ left # {} => faults < MaxFaults
        /\ faults' = IF left # {} THEN faults + 1 ELSE faults
        /\ gen' = [gen EXCEPT ![g] = [gen[g] EXCEPT !.cleaning = FALSE, !.clients = left,
                                                    !.closed = left = {}]]
        /\ retired' = IF left = {} THEN retired \ {g} ELSE retired
  BY DEF CleanupEnds
<1>2. PICK b \in BOOLEAN : b <=> left = {}
  OBVIOUS
<1>3. gen \in [Generations -> GenerationType] /\ gen[g] \in GenerationType /\ GenerationInv(g)
  BY DEF GenInv, GenTypeOK
<1>4. gen[g].cleaning /\ gen[g].retired /\ gen[g].leases = 0 /\ ~gen[g].closed
  BY <1>3 DEF GenerationInv, CleanupEnds
<1>5. /\ gen'[g] \in GenerationType /\ ~gen'[g].cleaning /\ gen'[g].clients = left
      /\ gen'[g].closed = b /\ gen'[g].leases = gen[g].leases
      /\ gen'[g].published = gen[g].published /\ gen'[g].retired = gen[g].retired
  <2>1. (left = {}) = b
    BY <1>2
  <2>2. gen' = [gen EXCEPT ![g] = [gen[g] EXCEPT !.cleaning = FALSE, !.clients = left,
                                                 !.closed = b]]
    BY <1>1, <2>1, Zenon
  <2>3. QED
    BY <1>3, <2>2 DEF GenerationType
<1>6. \A k \in Generations : k # g => gen'[k] = gen[k]
  BY <1>1, <1>3
<1>7. gen' \in [Generations -> GenerationType]
  BY <1>1, <1>3, <1>5
<1>8. faults' \in 0..MaxFaults /\ retired' \in SUBSET Generations
  BY <1>1, GenerationsAssumption DEF GenInv, GenTypeOK
<1>9. GenTypeOK'
  BY <1>7, <1>8 DEF CleanupEnds, GenInv, GenTypeOK
<1>10. UNCHANGED <<current, lease, lock, admin, task, refreshTask, closer, closing, closed>>
  BY DEF CleanupEnds
<1>11. \A k \in Generations : HoldersOf(k)' = HoldersOf(k)
  BY <1>10 DEF HoldersOf
<1>12. GenerationInv(g)'
  BY <1>1, <1>2, <1>3, <1>4, <1>5, <1>10, <1>11 DEF GenerationInv
<1>13. ASSUME NEW k \in Generations, k # g
       PROVE  GenerationInv(k)'
  <2>1. gen'[k] = gen[k] /\ HoldersOf(k)' = HoldersOf(k) /\ (k \in retired' <=> k \in retired)
    BY <1>1, <1>6, <1>11, <1>13
  <2>2. QED
    BY <1>10, <2>1 DEF GenInv, GenerationInv
<1>14. Lasting
  BY <1>4, <1>5, <1>6, <1>10 DEF Lasting
<1>15. ASSUME NEW t \in Tasks PROVE TaskInv(t)'
  <2>1. gen'[current].retired = gen[current].retired
    BY <1>5, <1>6 DEF GenInv, GenTypeOK
  <2>2. QED
    BY <1>10, <2>1 DEF GenInv, TaskInv, Unfinished
<1>16. ASSUME NEW o \in AdminOps PROVE AdminInv(o)'
  BY <1>10 DEF GenInv, AdminInv, Busy, Tasks
<1>17. LockInv'
  BY <1>10 DEF GenInv, LockInv
<1>18. CloserInv'
  BY <1>4, <1>5, <1>6, <1>10 DEF GenInv, CloserInv
<1>19. QED
  BY <1>9, <1>12, <1>13, <1>14, <1>15, <1>16, <1>17, <1>18 DEF GenInv

(* Reading the catalog only narrows the cache.                             *)
LEMMA ReadCatalogInv == GenInv /\ ReadCatalog => GenInv' /\ Lasting
<1> SUFFICES ASSUME GenInv, ReadCatalog PROVE GenInv' /\ Lasting
  OBVIOUS
<1>1. scope' \in SUBSET Providers /\ cache' \in SUBSET Providers
  BY PublishesTypes DEF ReadCatalog, GenInv, GenTypeOK
<1>2. GenTypeOK'
  BY <1>1 DEF ReadCatalog, GenInv, GenTypeOK
<1>3. (\A k \in Generations : GenerationInv(k)') /\ Lasting /\ SameFate
  BY StillGenerations DEF ReadCatalog
<1>4. QED
  BY <1>2, <1>3, FateFrame DEF ReadCatalog, GenInv

(* An account that is connected or revoked concerns no generation.         *)
LEMMA AccountTurnsInv ==
  ASSUME GenInv, NEW p \in Accounts, AccountTurns(p)
  PROVE  GenInv' /\ Lasting
<1>1. GenTypeOK'
  BY DEF AccountTurns, GenInv, GenTypeOK
<1>2. (\A k \in Generations : GenerationInv(k)') /\ Lasting /\ SameFate
  BY StillGenerations DEF AccountTurns
<1>3. QED
  BY <1>1, <1>2, FateFrame DEF AccountTurns, GenInv

-----------------------------------------------------------------------------
(* The discovery tasks.                                                    *)

\* Before the start nothing else has been asked of the manager.
LEMMA StartInv == GenInv /\ Start => GenInv' /\ Lasting
<1> SUFFICES ASSUME GenInv, Start PROVE GenInv' /\ Lasting
  OBVIOUS
<1>1. PICK found \in SUBSET Usable(current) : cache' = Caching(found)
  BY DEF Start
<1> DEFINE P == gen[current].clients \cup Usable(current)
<1>2. current \in Generations /\ gen[current] \in GenerationType /\ GenerationInv(current)
  BY DEF GenInv, GenTypeOK
<1>3. P \in SUBSET Providers /\ cache' \in SUBSET Providers
  BY <1>1, <1>2, PublishesTypes DEF GenInv, GenerationType
<1>4. gen' = [gen EXCEPT ![current].clients = P] /\ ~closing
  BY DEF Start
<1> HIDE DEF P
<1>5. /\ gen' \in [Generations -> GenerationType]
      /\ \A k \in Generations : GenerationInv(k)'
      /\ Lasting /\ SameFate
  BY <1>3, <1>4, GrownGenerations DEF Start, GenInv
<1>6. Startup \in Tasks /\ task \in [Tasks -> TaskType]
  BY DEF Tasks, GenInv, GenTypeOK
<1>7. /\ task' \in [Tasks -> TaskType]
      /\ task'[Startup].stage = "created" /\ task'[Startup].target = current
      /\ \A t \in Tasks : t # Startup => task'[t] = task[t]
  BY <1>2, <1>6 DEF Start, TaskType, TaskStage
<1>8. GenTypeOK'
  BY <1>3, <1>5, <1>6, <1>7 DEF Start, GenInv, GenTypeOK
<1>9. \A o \in AdminOps : admin[o].pc = "idle" /\ task[o].stage = "none" /\ lock # o
  BY DEF Start, GenInv, AdminInv, Busy
<1>10. ~gen'[current].retired
  BY <1>2, <1>5 DEF GenerationInv, SameFate, Start
<1>11. lease[Startup] = NoGeneration
  BY <1>6 DEF GenInv, TaskInv, Start
<1>12. ASSUME NEW t \in Tasks PROVE TaskInv(t)'
  <2>1. CASE t = Startup
    BY <2>1, <1>7, <1>10, <1>11 DEF Start, TaskInv, Unfinished
  <2>2. CASE t # Startup
    <3>1. task'[t].stage = "none"
      BY <2>2, <1>7, <1>9 DEF Tasks
    <3>2. QED
      BY <2>2, <3>1 DEF Start, TaskInv, Unfinished
  <2>3. QED
    BY <2>1, <2>2
<1>13. ASSUME NEW o \in AdminOps PROVE AdminInv(o)'
  <2>1. task'[o] = task[o]
    BY <1>7, GenerationsAssumption DEF Tasks
  <2>2. QED
    BY <2>1, <1>9 DEF Start, GenInv, AdminInv, Busy
<1>14. LockInv' /\ CloserInv'
  <2>1. closer.pc = "idle"
    BY DEF Start, GenInv, LockInv
  <2>2. QED
    BY <2>1 DEF Start, GenInv, LockInv, CloserInv
<1>15. QED
  BY <1>5, <1>8, <1>12, <1>13, <1>14 DEF GenInv

\* Only a task that refreshTask names can begin, and its generation is current.
LEMMA TaskBeginsInv ==
  ASSUME GenInv, NEW t \in Tasks, TaskBegins(t)
  PROVE  GenInv' /\ Lasting
<1>1. /\ current \in Generations /\ gen[current] \in GenerationType
      /\ GenerationInv(current) /\ task \in [Tasks -> TaskType] /\ t \in Holders
      /\ lease \in [Holders -> Generations \cup {NoGeneration}]
  BY DEF GenInv, GenTypeOK, Holders
<1>2. /\ task[t].target = current /\ ~gen[current].retired /\ lease[t] = NoGeneration
      /\ refreshTask = t
  BY DEF GenInv, TaskInv, TaskBegins, Unfinished
<1>3. gen[current].published /\ ~gen[current].closed /\ NoGeneration \notin Generations
  BY <1>1, <1>2 DEF GenerationInv, Generations, NoGeneration
<1> DEFINE P == gen[current].clients \cup (Usable(current) \ IF task[t].missing THEN cache ELSE {})
<1>4. P \in SUBSET Providers
  BY <1>1, PublishesTypes DEF GenInv, GenerationType
<1>5. /\ task' = [task EXCEPT ![t].stage = "running"]
      /\ lease' = [lease EXCEPT ![t] = current]
      /\ gen' = [gen EXCEPT ![current] = [Leased(gen[current]) EXCEPT !.clients = P]]
  BY <1>2, <1>3 DEF TaskBegins
<1> HIDE DEF P
<1>6. UNCHANGED <<current, retired, lock, admin, refreshTask, closer, closing,
                  closed, account, scope, cache, faults>>
  BY DEF TaskBegins
<1>7. /\ gen' \in [Generations -> GenerationType]
      /\ lease' \in [Holders -> Generations \cup {NoGeneration}]
      /\ \A k \in Generations : GenerationInv(k)'
      /\ Lasting /\ SameFate
  BY <1>1, <1>2, <1>3, <1>4, <1>5, <1>6, TakenGenerations DEF GenInv
<1>8. /\ task' \in [Tasks -> TaskType]
      /\ task'[t].stage = "running" /\ task'[t].target = current /\ lease'[t] = current
      /\ \A u \in Tasks : u # t => task'[u] = task[u] /\ lease'[u] = lease[u]
  BY <1>1, <1>2, <1>5 DEF TaskType, TaskStage, Holders
<1>9. GenTypeOK'
  BY <1>6, <1>7, <1>8 DEF GenInv, GenTypeOK
<1>10. ASSUME NEW u \in Tasks PROVE TaskInv(u)'
  <2>1. CASE u = t
    BY <2>1, <1>1, <1>2, <1>3, <1>6, <1>8 DEF TaskInv, Unfinished
  <2>2. CASE u # t
    <3>1. task[u].stage \notin {"created", "running"}
      BY <1>2, <2>2 DEF GenInv, TaskInv, Unfinished
    <3>2. QED
      BY <1>6, <1>8, <2>2, <3>1 DEF GenInv, TaskInv, Unfinished
  <2>3. QED
    BY <2>1, <2>2
<1>11. ASSUME NEW o \in AdminOps PROVE AdminInv(o)'
  <2>1. task[Startup].stage # "none" => task'[Startup].stage # "none"
    BY <1>8 DEF Tasks
  <2>2. CASE o = t
    BY <2>1, <2>2, <1>6, <1>8 DEF GenInv, AdminInv, Busy, TaskBegins
  <2>3. CASE o # t
    BY <2>1, <2>3, <1>6, <1>8 DEF GenInv, AdminInv, Busy, Tasks
  <2>4. QED
    BY <2>2, <2>3
<1>12. LockInv' /\ CloserInv'
  BY <1>2, <1>6, <1>7, <1>8 DEF GenInv, LockInv, CloserInv, SameFate, Tasks
<1>13. QED
  BY <1>7, <1>9, <1>10, <1>11, <1>12 DEF GenInv

\* A task that is over gives its generation back.
LEMMA TaskGivesBack ==
  ASSUME GenInv, NEW t \in Tasks, task[t].stage \in {"running", "cancelled"},
         lease[t] # NoGeneration,
         task' = [task EXCEPT ![t].stage = "done"],
         lease' = [lease EXCEPT ![t] = NoGeneration],
         gen' = [gen EXCEPT ![lease[t]] = Released(gen[lease[t]])],
         UNCHANGED <<current, retired, lock, admin, refreshTask, closer, closing,
                     closed, account, faults>>,
         scope' \in SUBSET Providers, cache' \in SUBSET Providers
  PROVE  GenInv' /\ Lasting
<1>1. /\ task \in [Tasks -> TaskType] /\ t \in Holders /\ lease[t] \in Generations
      /\ lease \in [Holders -> Generations \cup {NoGeneration}] /\ current \in Generations
  BY DEF GenInv, GenTypeOK, Holders
<1>2. /\ gen' \in [Generations -> GenerationType]
      /\ lease' \in [Holders -> Generations \cup {NoGeneration}]
      /\ \A k \in Generations : GenerationInv(k)'
      /\ Lasting /\ SameFate
  BY <1>1, GivenGenerations DEF GenInv
<1>3. /\ task' \in [Tasks -> TaskType]
      /\ task'[t].stage = "done" /\ lease'[t] = NoGeneration
      /\ \A u \in Tasks : u # t => task'[u] = task[u] /\ lease'[u] = lease[u]
  BY <1>1 DEF TaskType, TaskStage, Holders
<1>4. GenTypeOK'
  BY <1>2, <1>3 DEF GenInv, GenTypeOK
<1>5. ASSUME NEW u \in Tasks PROVE TaskInv(u)'
  <2>1. gen'[current].retired = gen[current].retired
    BY <1>1, <1>2 DEF SameFate
  <2>2. CASE u = t
    BY <2>2, <1>3 DEF TaskInv, Unfinished
  <2>3. CASE u # t
    BY <2>1, <2>3, <1>3 DEF GenInv, TaskInv, Unfinished
  <2>4. QED
    BY <2>2, <2>3
<1>6. ASSUME NEW o \in AdminOps PROVE AdminInv(o)'
  <2>1. task[Startup].stage # "none" => task'[Startup].stage # "none"
    BY <1>3 DEF Tasks
  <2>2. CASE o = t
    BY <2>1, <2>2, <1>3 DEF GenInv, AdminInv, Busy
  <2>3. CASE o # t
    BY <2>1, <2>3, <1>3 DEF GenInv, AdminInv, Busy, Tasks
  <2>4. QED
    BY <2>2, <2>3
<1>7. LockInv' /\ CloserInv'
  BY <1>2, <1>3 DEF GenInv, LockInv, CloserInv, SameFate, Tasks
<1>8. QED
  BY <1>2, <1>4, <1>5, <1>6, <1>7 DEF GenInv

(* A discovery that ends gives back the generation it listed.              *)
LEMMA TaskEndsInv ==
  ASSUME GenInv, NEW t \in Tasks, TaskEnds(t)
  PROVE  GenInv' /\ Lasting
<1>1. lease[t] = task[t].target /\ lease[t] # NoGeneration
  BY DEF GenInv, TaskInv, TaskEnds
<1>2. scope' \in SUBSET Providers /\ cache' \in SUBSET Providers
  BY PublishesTypes DEF TaskEnds, GenInv
<1>3. QED
  BY <1>1, <1>2, TaskGivesBack DEF TaskEnds

(* A cancelled one gives back what it had taken, which may be nothing.     *)
LEMMA TaskCancelledInv ==
  ASSUME GenInv, NEW t \in Tasks, TaskCancelled(t)
  PROVE  GenInv' /\ Lasting
<1>1. CASE lease[t] # NoGeneration
  <2>1. scope' \in SUBSET Providers /\ cache' \in SUBSET Providers
    BY DEF TaskCancelled, GenInv, GenTypeOK
  <2>2. QED
    BY <1>1, <2>1, TaskGivesBack DEF TaskCancelled
<1>2. CASE lease[t] = NoGeneration
  <2>1. (\A k \in Generations : GenerationInv(k)') /\ Lasting /\ SameFate
    BY <1>2, StillGenerations DEF TaskCancelled
  <2>2. /\ task' \in [Tasks -> TaskType] /\ task'[t].stage = "done"
        /\ \A u \in Tasks : u # t => task'[u] = task[u]
    BY DEF TaskCancelled, GenInv, GenTypeOK, TaskType, TaskStage
  <2>3. UNCHANGED <<gen, current, retired, lease, lock, admin, refreshTask, closer,
                    closing, closed, account, scope, cache, faults>>
    BY <1>2 DEF TaskCancelled
  <2>4. GenTypeOK'
    BY <2>2, <2>3 DEF GenInv, GenTypeOK
  <2>5. ASSUME NEW u \in Tasks PROVE TaskInv(u)'
    <3>1. CASE u = t
      BY <3>1, <1>2, <2>2, <2>3 DEF TaskInv, Unfinished
    <3>2. CASE u # t
      BY <3>2, <2>2, <2>3 DEF GenInv, TaskInv, Unfinished
    <3>3. QED
      BY <3>1, <3>2
  <2>6. ASSUME NEW o \in AdminOps PROVE AdminInv(o)'
    <3>1. task[Startup].stage # "none" => task'[Startup].stage # "none"
      BY <2>2 DEF Tasks
    <3>2. CASE o = t
      BY <3>1, <3>2, <1>2, <2>2, <2>3 DEF GenInv, AdminInv, Busy, TaskCancelled
    <3>3. CASE o # t
      BY <3>1, <3>3, <2>2, <2>3 DEF GenInv, AdminInv, Busy, Tasks
    <3>4. QED
      BY <3>2, <3>3
  <2>7. LockInv' /\ CloserInv'
    BY <2>2, <2>3 DEF GenInv, LockInv, CloserInv, Tasks
  <2>8. QED
    BY <2>1, <2>4, <2>5, <2>6, <2>7 DEF GenInv
<1>3. QED
  BY <1>1, <1>2

-----------------------------------------------------------------------------
(* Administrative operations.                                              *)

\* A step of one operation, which may take or give back the lock, and leaves the
\* generations, their leases and the tasks alone.
LEMMA AdminStepFrame ==
  ASSUME GenInv, NEW o \in AdminOps,
         GenTypeOK', \A p \in AdminOps : p # o => admin'[p] = admin[p],
         AdminInv(o)',
         lock' = lock \/ (lock \in {None, o} /\ lock' \in {None, o}),
         UNCHANGED <<gen, current, retired, lease, task, refreshTask, closer, closing, closed>>,
         closing => lock' \notin AdminOps
  PROVE  GenInv' /\ Lasting
<1>1. (\A k \in Generations : GenerationInv(k)') /\ Lasting /\ SameFate
  BY StillGenerations
<1>2. ASSUME NEW t \in Tasks PROVE TaskInv(t)'
  BY DEF GenInv, TaskInv, Unfinished
<1>3. ASSUME NEW p \in AdminOps, p # o PROVE AdminInv(p)'
  <2>1. lock = p <=> lock' = p
    BY <1>3, GenerationsAssumption DEF Tasks
  <2>2. QED
    BY <1>3, <2>1 DEF GenInv, AdminInv, Busy
<1>4. LockInv' /\ CloserInv'
  <2>1. lock = Closer <=> lock' = Closer
    BY GenerationsAssumption
  <2>2. QED
    BY <2>1 DEF GenInv, LockInv, CloserInv
<1>5. QED
  BY <1>1, <1>2, <1>3, <1>4 DEF GenInv

\* What is known of an operation.
LEMMA AdminFacts ==
  ASSUME GenInv, NEW o \in AdminOps
  PROVE  /\ admin \in [AdminOps -> AdminType] /\ admin[o] \in AdminType
         /\ AdminInv(o) /\ lock \in AdminOps \cup {Closer, None}
         /\ NoGeneration \notin Generations /\ current \in Generations
BY DEF GenInv, GenTypeOK, NoGeneration, Generations

(* An operation that leaves is done.                                       *)
LEMMA LeaveFields ==
  ASSUME GenInv, NEW o \in AdminOps, Leave(o)
  PROVE  /\ admin' \in [AdminOps -> AdminType] /\ admin'[o].pc = "done"
         /\ \A p \in AdminOps : p # o => admin'[p] = admin[p]
BY AdminFacts DEF Leave, AdminType, AdminPlace

(* An operation is asked for.                                              *)
LEMMA RequestInvariant ==
  ASSUME GenInv, NEW o \in AdminOps, NEW kind \in AdminKind, Request(o, kind)
  PROVE  GenInv' /\ Lasting
<1>1. /\ admin' \in [AdminOps -> AdminType] /\ admin'[o].pc = "locking"
      /\ \A p \in AdminOps : p # o => admin'[p] = admin[p]
  BY AdminFacts DEF Request, AdminType, AdminPlace
<1>2. GenTypeOK'
  BY <1>1 DEF Request, GenInv, GenTypeOK
<1>3. AdminInv(o)'
  BY <1>1, AdminFacts DEF Request, AdminInv, Busy
<1>4. QED
  BY <1>1, <1>2, <1>3, AdminStepFrame DEF Request, GenInv, LockInv

(* It is rejected when the manager is closing.                             *)
LEMMA RejectedInv ==
  ASSUME GenInv, NEW o \in AdminOps, Rejected(o)
  PROVE  GenInv' /\ Lasting
<1>1. /\ admin' \in [AdminOps -> AdminType] /\ admin'[o].pc = "done"
      /\ \A p \in AdminOps : p # o => admin'[p] = admin[p]
  BY LeaveFields DEF Rejected
<1>2. GenTypeOK'
  BY <1>1 DEF Rejected, GenInv, GenTypeOK
<1>3. AdminInv(o)'
  BY <1>1, AdminFacts DEF Rejected, Locks, AdminInv, Busy
<1>4. QED
  BY <1>1, <1>2, <1>3, AdminStepFrame DEF Rejected, GenInv, LockInv

\* An operation that ends gives back the lock.
LEMMA EndsInv ==
  ASSUME GenInv, NEW o \in AdminOps, Leave(o), admin[o].pc \notin {"idle", "refreshing", "done"},
         lock' = (IF lock = o THEN None ELSE lock),
         UNCHANGED <<gen, current, retired, lease, task, refreshTask, closer,
                     closing, closed, account, scope, cache, faults>>
  PROVE  GenInv' /\ Lasting
<1>1. /\ admin' \in [AdminOps -> AdminType] /\ admin'[o].pc = "done"
      /\ \A p \in AdminOps : p # o => admin'[p] = admin[p]
  BY LeaveFields
<1>2. lock' # o /\ lock' \in AdminOps \cup {Closer, None}
  BY AdminFacts, GenerationsAssumption DEF Tasks
<1>3. GenTypeOK'
  BY <1>1, <1>2 DEF GenInv, GenTypeOK
<1>4. AdminInv(o)'
  BY <1>1, <1>2, AdminFacts DEF AdminInv, Busy
<1>5. closing => lock' \notin AdminOps
  BY GenerationsAssumption DEF GenInv, LockInv, Tasks
<1>6. QED
  BY <1>1, <1>3, <1>4, <1>5, AdminStepFrame

(* An operation that fails, ends or is cancelled gives the lock back.      *)
LEMMA LockGivers ==
  ASSUME GenInv, NEW o \in AdminOps,
         CommitFails(o) \/ ReplaceEnds(o) \/ CallerCancelled(o)
  PROVE  GenInv' /\ Lasting
<1>1. CASE CommitFails(o)
  <2>1. lock = o
    BY <1>1, AdminFacts DEF CommitFails, AdminInv, Busy
  <2>2. QED
    BY <1>1, <2>1, EndsInv DEF CommitFails
<1>2. CASE ReplaceEnds(o)
  <2>1. lock = o
    BY <1>2, AdminFacts DEF ReplaceEnds, AdminInv, Busy
  <2>2. QED
    BY <1>2, <2>1, EndsInv DEF ReplaceEnds
<1>3. CASE CallerCancelled(o)
  BY <1>3, EndsInv DEF CallerCancelled
<1>4. QED
  BY <1>1, <1>2, <1>3

\* Cancelling the refresh leaves no discovery that is not finished.
LEMMA CancelRefreshTasks ==
  ASSUME GenInv, CancelRefresh, UNCHANGED <<gen, current, lease>>
  PROVE  /\ task' \in [Tasks -> TaskType] /\ refreshTask' = None
         /\ \A t \in Tasks : TaskInv(t)' /\ (task'[t].stage = "none" <=> task[t].stage = "none")
         /\ \A t \in Tasks : lease[t] # NoGeneration
              => (task[t].stage \in {"running", "cancelled"}
                    => task'[t].stage \in {"running", "cancelled"})
         /\ Cancelled \in Tasks \cup {None}
<1>1. task \in [Tasks -> TaskType] /\ refreshTask \in Tasks \cup {None}
  BY DEF GenInv, GenTypeOK
<1>2. CASE Unfinished(refreshTask)
  <2>1. /\ refreshTask \in Tasks /\ task[refreshTask].stage \in {"created", "running"}
        /\ task' = [task EXCEPT ![refreshTask].stage = "cancelled"]
    BY <1>2 DEF CancelRefresh, Unfinished
  <2>2. /\ task' \in [Tasks -> TaskType] /\ task'[refreshTask].stage = "cancelled"
        /\ \A t \in Tasks : t # refreshTask => task'[t] = task[t]
    BY <1>1, <2>1 DEF TaskType, TaskStage
  <2>3. refreshTask' = None
    BY DEF CancelRefresh
  <2>4. ASSUME NEW t \in Tasks PROVE TaskInv(t)'
    <3>1. CASE t = refreshTask
      BY <3>1, <2>2 DEF TaskInv, Unfinished
    <3>2. CASE t # refreshTask
      BY <3>2, <2>2 DEF GenInv, TaskInv, Unfinished
    <3>3. QED
      BY <3>1, <3>2
  <2>5. QED
    BY <2>1, <2>2, <2>3, <2>4, <1>2 DEF Cancelled
<1>3. CASE ~Unfinished(refreshTask)
  <2>1. task' = task /\ refreshTask' = None
    BY <1>3 DEF CancelRefresh
  <2>2. \A t \in Tasks : ~Unfinished(t)
    BY <1>3 DEF GenInv, TaskInv
  <2>3. ASSUME NEW t \in Tasks PROVE TaskInv(t)'
    BY <2>1, <2>2 DEF GenInv, TaskInv, Unfinished
  <2>4. QED
    BY <1>1, <1>3, <2>1, <2>3 DEF Cancelled
<1>4. QED
  BY <1>2, <1>3

(* An operation that gets the lock cancels the discovery first.            *)
LEMMA CancelsRefreshInv ==
  ASSUME GenInv, NEW o \in AdminOps, CancelsRefresh(o)
  PROVE  GenInv' /\ Lasting
<1>1. UNCHANGED <<gen, current, retired, lease, closer, closing, closed, account, scope,
                  cache, faults>>
  BY DEF CancelsRefresh
<1>2. /\ task' \in [Tasks -> TaskType] /\ refreshTask' = None
      /\ \A t \in Tasks : TaskInv(t)' /\ (task'[t].stage = "none" <=> task[t].stage = "none")
      /\ \A t \in Tasks : lease[t] # NoGeneration
           => (task[t].stage \in {"running", "cancelled"}
                 => task'[t].stage \in {"running", "cancelled"})
      /\ Cancelled \in Tasks \cup {None}
  BY <1>1, CancelRefreshTasks DEF CancelsRefresh
<1>3. /\ lock = None /\ lock' = o /\ ~closing
      /\ admin[o].pc = "locking" /\ admin[o].kind # "connect"
  BY DEF CancelsRefresh, Locks
<1>4. /\ admin' \in [AdminOps -> AdminType] /\ admin'[o].pc = "cancelling"
      /\ \A p \in AdminOps : p # o => admin'[p] = admin[p]
  BY <1>2, AdminFacts DEF CancelsRefresh, AdminType, AdminPlace
<1>5. GenTypeOK'
  BY <1>1, <1>2, <1>3, <1>4 DEF GenInv, GenTypeOK
<1>6. (\A k \in Generations : GenerationInv(k)') /\ Lasting /\ SameFate
  BY <1>1, StillGenerations
<1>7. AdminInv(o)'
  BY <1>1, <1>2, <1>3, <1>4, AdminFacts DEF AdminInv, Busy, Tasks
<1>8. ASSUME NEW p \in AdminOps, p # o PROVE AdminInv(p)'
  <2>1. ~Busy(p) /\ AdminInv(p)
    BY <1>3, GenerationsAssumption DEF GenInv, AdminInv, Tasks
  <2>2. admin'[p] = admin[p] /\ ~Busy(p)' /\ lock' # p
    BY <1>3, <1>4, <1>8, <2>1 DEF Busy
  <2>3. QED
    BY <1>1, <1>2, <2>1, <2>2 DEF AdminInv, Busy, Tasks
<1>9. LockInv' /\ CloserInv'
  BY <1>1, <1>2, <1>3, GenerationsAssumption DEF GenInv, LockInv, CloserInv, Tasks
<1>10. QED
  BY <1>2, <1>5, <1>6, <1>7, <1>8, <1>9 DEF GenInv

\* A generation that is not retired is published, or nobody asks for it.
LEMMA CurrentIsOpen ==
  ASSUME GenInv, ~closing
  PROVE  /\ current \in Generations /\ gen[current] \in GenerationType
         /\ gen[current].published /\ ~gen[current].retired /\ ~gen[current].closed
<1>1. current \in Generations /\ gen[current] \in GenerationType /\ GenerationInv(current)
  BY DEF GenInv, GenTypeOK
<1>2. QED
  BY <1>1 DEF GenerationInv, Generations

(* A refresh retains the current generation, which is not retired.         *)
LEMMA RefreshBeginsInv ==
  ASSUME GenInv, NEW o \in AdminOps, RefreshBegins(o)
  PROVE  GenInv' /\ Lasting
<1>1. /\ AdminInv(o) /\ admin[o].pc = "cancelling" /\ admin[o].kind = "refresh"
      /\ lock = o /\ ~closing /\ lease[o] = NoGeneration /\ task[o].stage = "none"
      /\ refreshTask = None
  BY AdminFacts DEF RefreshBegins, AdminInv, Busy, GenInv, LockInv
<1>2. o \in Holders /\ o \in Tasks
  BY DEF Holders, Tasks
<1> DEFINE P == gen[current].clients \cup Usable(current)
<1>3. P \in SUBSET Providers
  BY <1>1, CurrentIsOpen, PublishesTypes DEF GenInv, GenerationType
<1>4. /\ lease' = [lease EXCEPT ![o] = current]
      /\ gen' = [gen EXCEPT ![current] = [Leased(gen[current]) EXCEPT !.clients = P]]
  BY DEF RefreshBegins
<1> HIDE DEF P
<1>5. UNCHANGED <<current, retired, lock, task, refreshTask, closer, closing, closed,
                  account, scope, cache, faults>>
  BY DEF RefreshBegins
<1>6. /\ gen' \in [Generations -> GenerationType]
      /\ lease' \in [Holders -> Generations \cup {NoGeneration}]
      /\ \A k \in Generations : GenerationInv(k)'
      /\ Lasting /\ SameFate
  BY <1>1, <1>2, <1>3, <1>4, <1>5, CurrentIsOpen, TakenGenerations DEF GenInv
<1>7. /\ admin' \in [AdminOps -> AdminType]
      /\ admin'[o].pc = "refreshing" /\ admin'[o].kind = "refresh" /\ admin'[o].target = current
      /\ \A p \in AdminOps : p # o => admin'[p] = admin[p]
  BY <1>1, AdminFacts DEF RefreshBegins, AdminType, AdminPlace
<1>8. /\ lease'[o] = current /\ current # NoGeneration
      /\ \A t \in Tasks : t # o => lease'[t] = lease[t]
  BY <1>2, <1>4, AdminFacts DEF GenInv, GenTypeOK, Holders
<1>9. GenTypeOK'
  BY <1>5, <1>6, <1>7 DEF GenInv, GenTypeOK
<1>10. ASSUME NEW t \in Tasks PROVE TaskInv(t)'
  <2>1. CASE t = o
    BY <2>1, <1>1, <1>5, GenerationsAssumption DEF TaskInv, Unfinished
  <2>2. CASE t # o
    <3>1. gen'[current].retired = gen[current].retired
      BY <1>1, <1>6, CurrentIsOpen DEF SameFate
    <3>2. QED
      BY <2>2, <3>1, <1>5, <1>8 DEF GenInv, TaskInv, Unfinished
  <2>3. QED
    BY <2>1, <2>2
<1>11. AdminInv(o)'
  BY <1>1, <1>5, <1>7, <1>8 DEF AdminInv, Busy
<1>12. ASSUME NEW p \in AdminOps, p # o PROVE AdminInv(p)'
  BY <1>12, <1>5, <1>7, <1>8 DEF GenInv, AdminInv, Busy, Tasks
<1>13. LockInv' /\ CloserInv'
  BY <1>5, <1>6 DEF GenInv, LockInv, CloserInv, SameFate
<1>14. QED
  BY <1>6, <1>9, <1>10, <1>11, <1>12, <1>13 DEF GenInv

(* It gives the generation and the lock back.                              *)
LEMMA RefreshEndsInv ==
  ASSUME GenInv, NEW o \in AdminOps, RefreshEnds(o)
  PROVE  GenInv' /\ Lasting
<1>1. /\ AdminInv(o) /\ admin[o].pc = "refreshing" /\ admin[o].target \in Generations
      /\ lock = o /\ ~closing /\ lease[o] = admin[o].target /\ task[o].stage = "none"
      /\ admin[o] \in AdminType
  BY AdminFacts DEF RefreshEnds, AdminInv, Busy, GenInv, LockInv, AdminType
<1>2. o \in Holders /\ o \in Tasks
  BY DEF Holders, Tasks
<1>3. UNCHANGED <<current, retired, task, refreshTask, closer, closing, closed, account, faults>>
  BY DEF RefreshEnds
<1>4. /\ gen' \in [Generations -> GenerationType]
      /\ lease' \in [Holders -> Generations \cup {NoGeneration}]
      /\ \A k \in Generations : GenerationInv(k)'
      /\ Lasting /\ SameFate
  BY <1>1, <1>2, <1>3, GivenGenerations DEF GenInv, RefreshEnds
<1>5. scope' \in SUBSET Providers /\ cache' \in SUBSET Providers
  BY PublishesTypes DEF RefreshEnds, GenInv
<1>6. /\ admin' \in [AdminOps -> AdminType] /\ admin'[o].pc = "done"
      /\ \A p \in AdminOps : p # o => admin'[p] = admin[p]
  BY LeaveFields DEF RefreshEnds
<1>7. /\ lease'[o] = NoGeneration /\ lock' = None
      /\ \A t \in Tasks : t # o => lease'[t] = lease[t]
  BY <1>2 DEF RefreshEnds, GenInv, GenTypeOK, Holders
<1>8. GenTypeOK'
  BY <1>3, <1>4, <1>5, <1>6, <1>7 DEF GenInv, GenTypeOK
<1>9. ASSUME NEW t \in Tasks PROVE TaskInv(t)'
  <2>1. CASE t = o
    BY <2>1, <1>1, <1>3, <1>7, GenerationsAssumption DEF TaskInv, Unfinished
  <2>2. CASE t # o
    <3>1. gen'[current].retired = gen[current].retired
      BY <1>1, <1>4, CurrentIsOpen DEF SameFate
    <3>2. QED
      BY <2>2, <3>1, <1>3, <1>7 DEF GenInv, TaskInv, Unfinished
  <2>3. QED
    BY <2>1, <2>2
<1>10. AdminInv(o)'
  BY <1>1, <1>3, <1>6, <1>7, GenerationsAssumption DEF AdminInv, Busy, Tasks
<1>11. ASSUME NEW p \in AdminOps, p # o PROVE AdminInv(p)'
  <2>1. lock # p /\ lock' # p
    BY <1>1, <1>7, <1>11, GenerationsAssumption DEF Tasks
  <2>2. QED
    BY <1>11, <2>1, <1>3, <1>6, <1>7 DEF GenInv, AdminInv, Busy, Tasks
<1>12. LockInv' /\ CloserInv'
  BY <1>1, <1>3, <1>4, <1>7, GenerationsAssumption DEF GenInv, LockInv, CloserInv, SameFate, Tasks
<1>13. QED
  BY <1>4, <1>8, <1>9, <1>10, <1>11, <1>12 DEF GenInv

\* A new generation is published under the lock, with no discovery unfinished.
LEMMA PublishInv ==
  ASSUME GenInv, NEW o \in AdminOps, NEW configured \in SUBSET Configurable,
         Publish(o, configured)
  PROVE  GenInv' /\ Lasting
<1>1. /\ AdminInv(o) /\ admin[o].pc = "cancelling" /\ admin[o].kind = "replace"
      /\ lock = o /\ ~closing /\ lease[o] = NoGeneration /\ task[o].stage = "none"
      /\ refreshTask = None /\ ~closed
  BY AdminFacts DEF Publish, AdminInv, Busy, GenInv, LockInv
<1>2. o \in Holders /\ o \in Tasks /\ o # Startup
  BY GenerationsAssumption DEF Holders, Tasks
<1>3. UNCHANGED <<lease, lock, closer, closing, closed, account, faults>>
  BY DEF Publish
<1>4. /\ current \in Generations /\ current + 1 \in Generations /\ current' = current + 1
      /\ current # current + 1 /\ gen \in [Generations -> GenerationType]
      /\ gen[current] \in GenerationType /\ gen[current].published
      /\ ~gen[current].retired /\ ~gen[current].closed
  BY <1>1, CurrentIsOpen, GenerationsAssumption DEF Publish, Generations, GenInv, GenTypeOK
<1> DEFINE old == [gen[current] EXCEPT !.retired = TRUE]
           ended == IF old.leases = 0 THEN Closing(old) ELSE old
           new == NewGeneration(configured)
<1>5. /\ ended \in GenerationType /\ ended.leases = gen[current].leases
      /\ ended.published /\ ended.retired /\ ~ended.closed
      /\ ended.cleaning => ended.leases = 0
  <2>1. /\ old \in GenerationType /\ old.leases = gen[current].leases /\ old.published
        /\ old.retired /\ ~old.closed /\ old.cleaning = gen[current].cleaning
    BY <1>4 DEF GenerationType
  <2>2. ~gen[current].cleaning
    BY <1>4 DEF GenInv, GenerationInv
  <2> HIDE DEF old
  <2>3. QED
    BY <2>1, <2>2, ClosingFields
<1>6. gen' = [gen EXCEPT ![current] = ended, ![current + 1] = new]
  BY DEF Publish
<1>7. /\ new \in GenerationType /\ new.published
      /\ ~new.retired /\ ~new.closed /\ ~new.cleaning /\ new.leases = 0
  BY NewFields
<1> HIDE DEF ended, new
<1>8. /\ gen' \in [Generations -> GenerationType]
      /\ gen'[current] = ended /\ gen'[current + 1] = new
      /\ \A g \in Generations \ {current, current + 1} : gen'[g] = gen[g]
  BY <1>4, <1>5, <1>6, <1>7
<1>9. /\ ~gen[current + 1].published
      /\ \A g \in Generations \ {current, current + 1} :
           /\ g <= current <=> g <= current + 1
           /\ gen[g].published => gen[g].retired
  <2>1. \A g \in Generations : g # current => (g <= current <=> g <= current - 1)
    BY DEF Generations, GenInv, GenTypeOK
  <2>2. QED
    BY <1>4, <2>1 DEF GenInv, GenerationInv, Generations
<1>10. \A k \in Generations : HoldersOf(k)' = HoldersOf(k)
  BY <1>3 DEF HoldersOf
<1>11. Cardinality(HoldersOf(current + 1)) = 0
  BY <1>4, <1>9 DEF GenInv, GenerationInv
<1>12. ASSUME NEW g \in Generations PROVE GenerationInv(g)'
  <2>1. retired' = retired \cup {current} /\ GenerationInv(g)
    BY DEF Publish, GenInv
  <2>2. CASE g = current
    <3>1. g <= current' /\ g # current'
      BY <2>2, <1>4 DEF Generations
    <3>2. QED
      BY <2>1, <2>2, <3>1, <1>1, <1>3, <1>5, <1>8, <1>10 DEF GenerationInv
  <2>3. CASE g = current + 1
    <3>1. g <= current' /\ g = current' /\ g \notin retired'
      BY <2>1, <2>3, <1>4, <1>9 DEF Generations, GenerationInv
    <3>2. Cardinality(HoldersOf(g)) = 0 /\ HoldersOf(g)' = HoldersOf(g)
      BY <2>3, <1>10, <1>11
    <3>3. gen'[g] = new /\ ~closed'
      BY <2>3, <1>1, <1>3, <1>8
    <3>4. QED
      BY <3>1, <3>2, <3>3, <1>7 DEF GenerationInv
  <2>4. CASE g \notin {current, current + 1}
    <3>1. /\ gen'[g] = gen[g] /\ g # current' /\ g # current /\ (g <= current <=> g <= current')
          /\ (g \in retired' <=> g \in retired) /\ (gen[g].published => gen[g].retired)
      BY <2>1, <2>4, <1>4, <1>8, <1>9
    <3>2. HoldersOf(g)' = HoldersOf(g) /\ ~closed /\ ~closed'
      BY <1>1, <1>3, <1>10
    <3>3. QED
      BY <2>1, <3>1, <3>2 DEF GenerationInv
  <2>5. QED
    BY <2>2, <2>3, <2>4
<1>13. Lasting
  <2>1. ~gen[current + 1].retired /\ ~gen[current + 1].closed
    BY <1>4, <1>9 DEF GenInv, GenerationInv
  <2>2. QED
    BY <1>3, <1>4, <1>5, <1>8, <2>1 DEF Lasting
<1>14. /\ task' \in [Tasks -> TaskType]
       /\ task'[o].stage = "created" /\ task'[o].target = current'
       /\ \A t \in Tasks : t # o => task'[t] = task[t]
  BY <1>2, <1>4 DEF Publish, GenInv, GenTypeOK, TaskType, TaskStage
<1>15. /\ admin' \in [AdminOps -> AdminType] /\ admin'[o].pc = "awaiting"
       /\ \A p \in AdminOps : p # o => admin'[p] = admin[p]
  BY <1>4, AdminFacts DEF Publish, AdminType, AdminPlace
<1>16. GenTypeOK'
  <2>1. /\ scope' = configured \cup account /\ cache' = cache \cap (configured \cup account)
        /\ retired' = retired \cup {current} /\ refreshTask' = o
    BY DEF Publish, Scoped
  <2>2. scope' \in SUBSET Providers /\ cache' \in SUBSET Providers
    BY <2>1 DEF GenInv, GenTypeOK, Providers
  <2>3. retired' \in SUBSET Generations /\ refreshTask' \in Tasks \cup {None}
    BY <1>2, <1>4, <2>1 DEF GenInv, GenTypeOK
  <2>4. QED
    BY <1>3, <1>4, <1>8, <1>14, <1>15, <2>2, <2>3 DEF GenInv, GenTypeOK
<1>17. ASSUME NEW t \in Tasks PROVE TaskInv(t)'
  <2>1. refreshTask' = o
    BY DEF Publish
  <2>2. CASE t = o
    BY <2>1, <2>2, <1>1, <1>2, <1>3, <1>4, <1>7, <1>8, <1>14 DEF TaskInv, Unfinished
  <2>3. CASE t # o
    <3>1. task[t].stage \notin {"created", "running"}
      BY <1>1, GenerationsAssumption DEF GenInv, TaskInv, Unfinished
    <3>2. QED
      BY <2>3, <3>1, <1>3, <1>14 DEF GenInv, TaskInv, Unfinished
  <2>4. QED
    BY <2>2, <2>3
<1>18. AdminInv(o)'
  BY <1>1, <1>2, <1>3, <1>14, <1>15 DEF AdminInv, Busy, Tasks
<1>19. ASSUME NEW p \in AdminOps, p # o PROVE AdminInv(p)'
  <2>1. lock # p /\ admin[p].pc # "cancelling" /\ task'[Startup] = task[Startup]
    BY <1>1, <1>2, <1>14, <1>19 DEF GenInv, AdminInv, Busy, Tasks
  <2>2. QED
    BY <2>1, <1>3, <1>14, <1>15, <1>19 DEF GenInv, AdminInv, Busy, Tasks
<1>20. LockInv' /\ CloserInv'
  <2>1. closer.pc \notin {"cancelling", "draining", "joining"} /\ task'[Startup] = task[Startup]
    BY <1>1, <1>2, <1>14 DEF GenInv, LockInv, Tasks
  <2>2. QED
    BY <1>1, <1>3, <2>1 DEF GenInv, LockInv, CloserInv
<1>21. QED
  BY <1>12, <1>13, <1>16, <1>17, <1>18, <1>19, <1>20 DEF GenInv

(* The models of a new account are listed.                                 *)
LEMMA AccountListedInv ==
  ASSUME GenInv, NEW o \in AdminOps, NEW p \in Accounts, AccountListed(o, p)
  PROVE  GenInv' /\ Lasting
<1>1. AdminInv(o) /\ lock = o /\ lease[o] = NoGeneration
  BY AdminFacts DEF AccountListed, AdminInv, Busy
<1>2. scope' \in SUBSET Providers /\ cache' \in SUBSET Providers
  BY PublishesTypes DEF AccountListed, GenInv, GenTypeOK
<1>3. /\ admin' \in [AdminOps -> AdminType] /\ admin'[o].pc = "done"
      /\ \A q \in AdminOps : q # o => admin'[q] = admin[q]
  BY LeaveFields DEF AccountListed
<1>4. lock' = None
  BY DEF AccountListed
<1>5. GenTypeOK'
  BY <1>2, <1>3, <1>4 DEF AccountListed, GenInv, GenTypeOK
<1>6. AdminInv(o)'
  BY <1>1, <1>3, <1>4, GenerationsAssumption DEF AccountListed, AdminInv, Busy, Tasks
<1>7. QED
  BY <1>1, <1>3, <1>4, <1>5, <1>6, AdminStepFrame, GenerationsAssumption DEF AccountListed, Tasks

(* An account is connected or evicted.                                     *)
LEMMA AccountChangedInv ==
  ASSUME GenInv, NEW o \in AdminOps, NEW p \in Accounts, NEW connected \in BOOLEAN,
         AccountChanged(o, p, connected)
  PROVE  GenInv' /\ Lasting
<1>1. /\ AdminInv(o) /\ lock = None /\ ~closing /\ admin[o].pc = "locking"
      /\ admin[o].kind = "connect" /\ lease[o] = NoGeneration /\ task[o].stage = "none"
  BY AdminFacts DEF AccountChanged, Locks, AdminInv
<1>2. UNCHANGED <<current, retired, lease, task, refreshTask, closer, closing, closed,
                  account, faults>>
  BY DEF AccountChanged
<1>3. CASE ~connected
  <2>1. scope' \in SUBSET Providers /\ cache' \in SUBSET Providers
    BY <1>3, PublishesTypes DEF AccountChanged, GenInv, GenTypeOK
  <2>2. /\ admin' \in [AdminOps -> AdminType] /\ admin'[o].pc = "done"
        /\ \A q \in AdminOps : q # o => admin'[q] = admin[q]
        /\ gen' = gen /\ lock' = lock
    BY <1>3, LeaveFields DEF AccountChanged
  <2>3. GenTypeOK'
    BY <1>2, <2>1, <2>2 DEF GenInv, GenTypeOK
  <2>4. AdminInv(o)'
    BY <1>1, <1>2, <2>2, GenerationsAssumption DEF AdminInv, Busy, Tasks
  <2>5. QED
    BY <1>1, <1>2, <2>2, <2>3, <2>4, AdminStepFrame
<1>4. CASE connected
  <2> DEFINE P == gen[current].clients \cup {p}
  <2>1. P \in SUBSET Providers /\ scope \cup {p} \in SUBSET Providers
    BY <1>1, CurrentIsOpen DEF GenerationType, Providers, GenInv, GenTypeOK
  <2>2. gen' = [gen EXCEPT ![current].clients = P] /\ lock' = o
        /\ scope' = scope \cup {p} /\ cache' = cache
    BY <1>4 DEF AccountChanged
  <2> HIDE DEF P
  <2>3. /\ gen' \in [Generations -> GenerationType]
        /\ \A k \in Generations : GenerationInv(k)'
        /\ Lasting /\ SameFate
    BY <1>1, <1>2, <2>1, <2>2, GrownGenerations DEF GenInv
  <2>4. /\ admin' \in [AdminOps -> AdminType] /\ admin'[o].pc = "refreshing"
        /\ admin'[o].kind = "connect" /\ admin'[o].target # NoGeneration
        /\ \A q \in AdminOps : q # o => admin'[q] = admin[q]
    BY <1>1, <1>4, AdminFacts DEF AccountChanged, AdminType, AdminPlace
  <2>5. GenTypeOK'
    BY <1>2, <2>1, <2>2, <2>3, <2>4 DEF GenInv, GenTypeOK
  <2>6. ASSUME NEW t \in Tasks PROVE TaskInv(t)'
    <3>1. gen'[current].retired = gen[current].retired
      BY <1>1, <2>3, CurrentIsOpen DEF SameFate
    <3>2. QED
      BY <3>1, <1>2 DEF GenInv, TaskInv, Unfinished
  <2>7. AdminInv(o)'
    BY <1>1, <1>2, <2>2, <2>4 DEF AdminInv, Busy
  <2>8. ASSUME NEW q \in AdminOps, q # o PROVE AdminInv(q)'
    <3>1. lock # q /\ lock' # q
      BY <1>1, <2>2, <2>8, GenerationsAssumption DEF Tasks
    <3>2. QED
      BY <3>1, <2>8, <1>2, <2>4 DEF GenInv, AdminInv, Busy
  <2>9. LockInv' /\ CloserInv'
    BY <1>1, <1>2, <2>2, <2>3, GenerationsAssumption DEF GenInv, LockInv, CloserInv, SameFate
  <2>10. QED
    BY <2>3, <2>5, <2>6, <2>7, <2>8, <2>9 DEF GenInv
<1>5. QED
  BY <1>3, <1>4

-----------------------------------------------------------------------------
(* close().                                                                *)

(* What is known of the call of close().                                   *)
LEMMA CloserFacts ==
  ASSUME GenInv
  PROVE  /\ closer \in CloserType /\ LockInv /\ CloserInv
         /\ NoGeneration \notin Generations /\ current \in Generations
BY DEF GenInv, GenTypeOK, NoGeneration, Generations

(* close() is called once the application has started.                     *)
LEMMA CloseCalledInv == GenInv /\ CloseCalled => GenInv' /\ Lasting
<1> SUFFICES ASSUME GenInv, CloseCalled PROVE GenInv' /\ Lasting
  OBVIOUS
<1>1. UNCHANGED <<gen, current, retired, lease, lock, admin, task, refreshTask,
                  closing, closed, account, scope, cache, faults>>
  BY DEF CloseCalled
<1>2. /\ closer' \in CloserType /\ closer'.pc = "locking" /\ closer.pc = "idle"
      /\ task[Startup].stage # "none"
  <2>1. closer \in CloserType /\ closer.calls + 1 \in 0..MaxCloseCalls
    BY CloserFacts, GenerationsAssumption DEF CloseCalled, CloserType
  <2>2. QED
    BY <2>1 DEF CloseCalled, CloserType, CloserPlace
<1>3. GenTypeOK'
  BY <1>1, <1>2 DEF GenInv, GenTypeOK
<1>4. (\A k \in Generations : GenerationInv(k)') /\ Lasting
  BY <1>1, StillGenerations
<1>5. ASSUME NEW t \in Tasks PROVE TaskInv(t)'
  BY <1>1 DEF GenInv, TaskInv, Unfinished
<1>6. ASSUME NEW o \in AdminOps PROVE AdminInv(o)'
  BY <1>1 DEF GenInv, AdminInv, Busy
<1>7. LockInv' /\ CloserInv'
  BY <1>1, <1>2 DEF GenInv, LockInv, CloserInv
<1>8. QED
  BY <1>3, <1>4, <1>5, <1>6, <1>7 DEF GenInv

(* A cancelled close() gives back the lock it held.                        *)
LEMMA CloseCancelledInv == GenInv /\ CloseCancelled => GenInv' /\ Lasting
<1> SUFFICES ASSUME GenInv, CloseCancelled PROVE GenInv' /\ Lasting
  OBVIOUS
<1>1. UNCHANGED <<gen, current, retired, lease, admin, task, refreshTask,
                  closing, closed, account, scope, cache, faults>>
  BY DEF CloseCancelled
<1>2. /\ closer' \in CloserType /\ closer'.pc = "idle"
      /\ lock' = IF lock = Closer THEN None ELSE lock
  BY CloserFacts DEF CloseCancelled, CloserType, CloserPlace
<1>3. /\ lock' # Closer /\ lock' \in AdminOps \cup {Closer, None}
      /\ \A o \in AdminOps : lock' = o <=> lock = o
  BY <1>2, GenerationsAssumption DEF GenInv, GenTypeOK, Tasks
<1>4. GenTypeOK'
  BY <1>1, <1>2, <1>3 DEF GenInv, GenTypeOK
<1>5. (\A k \in Generations : GenerationInv(k)') /\ Lasting
  BY <1>1, StillGenerations
<1>6. ASSUME NEW t \in Tasks PROVE TaskInv(t)'
  BY <1>1 DEF GenInv, TaskInv, Unfinished
<1>7. ASSUME NEW o \in AdminOps PROVE AdminInv(o)'
  BY <1>1, <1>3 DEF GenInv, AdminInv, Busy
<1>8. LockInv' /\ CloserInv'
  BY <1>1, <1>2, <1>3 DEF GenInv, LockInv, CloserInv
<1>9. QED
  BY <1>4, <1>5, <1>6, <1>7, <1>8 DEF GenInv

(* close() cancels the discovery, and nothing starts one after it.         *)
LEMMA CloseBeginsInv == GenInv /\ CloseBegins => GenInv' /\ Lasting
<1> SUFFICES ASSUME GenInv, CloseBegins PROVE GenInv' /\ Lasting
  OBVIOUS
<1>1. UNCHANGED <<gen, current, retired, lease, admin, closed, account, scope, cache, faults>>
  BY DEF CloseBegins
<1>2. /\ task' \in [Tasks -> TaskType] /\ refreshTask' = None
      /\ \A t \in Tasks : TaskInv(t)' /\ (task'[t].stage = "none" <=> task[t].stage = "none")
      /\ \A t \in Tasks : lease[t] # NoGeneration
           => (task[t].stage \in {"running", "cancelled"}
                 => task'[t].stage \in {"running", "cancelled"})
      /\ Cancelled \in Tasks \cup {None}
  BY <1>1, CancelRefreshTasks DEF CloseBegins
<1>3. /\ lock = None /\ lock' = Closer /\ closing' /\ closer.pc = "locking"
      /\ closer' \in CloserType /\ closer'.pc = "cancelling"
  BY <1>2, CloserFacts DEF CloseBegins, CloserType, CloserPlace
<1>4. GenTypeOK'
  BY <1>1, <1>2, <1>3 DEF CloseBegins, GenInv, GenTypeOK
<1>5. ASSUME NEW k \in Generations PROVE GenerationInv(k)'
  <2>1. HoldersOf(k)' = HoldersOf(k)
    BY <1>1 DEF HoldersOf
  <2>2. QED
    BY <1>1, <1>3, <2>1 DEF GenInv, GenerationInv
<1>6. Lasting
  BY <1>1 DEF Lasting
<1>7. ASSUME NEW o \in AdminOps PROVE AdminInv(o)'
  <2>1. ~Busy(o) /\ ~Busy(o)' /\ lock' # o /\ AdminInv(o)
    BY <1>1, <1>3, GenerationsAssumption DEF GenInv, AdminInv, Busy, Tasks
  <2>2. QED
    BY <1>1, <1>2, <2>1 DEF AdminInv, Busy, Tasks
<1>8. LockInv' /\ CloserInv'
  <2>1. task'[Startup].stage # "none"
    BY <1>2, <1>3 DEF GenInv, LockInv, Tasks
  <2>2. QED
    BY <1>1, <1>2, <1>3, <2>1, GenerationsAssumption DEF GenInv, LockInv, CloserInv, Tasks
<1>9. QED
  BY <1>2, <1>4, <1>5, <1>6, <1>7, <1>8 DEF GenInv

\* From here on nothing that is published is in use for new requests.
LEMMA CloseRetiresInv == GenInv /\ CloseRetires => GenInv' /\ Lasting
<1> SUFFICES ASSUME GenInv, CloseRetires PROVE GenInv' /\ Lasting
  OBVIOUS
<1>1. UNCHANGED <<current, lease, admin, task, refreshTask, closing, closed, account,
                  scope, cache, faults>>
  BY DEF CloseRetires
<1>2. closer.pc = "cancelling" /\ lock = Closer /\ closing /\ lock' = None /\ refreshTask = None
  BY CloserFacts DEF CloseRetires, LockInv
<1>3. /\ gen \in [Generations -> GenerationType] /\ current \in Generations
      /\ gen[current] \in GenerationType /\ GenerationInv(current)
  BY DEF GenInv, GenTypeOK
<1>4. /\ gen' \in [Generations -> GenerationType]
      /\ gen'[current].retired /\ gen'[current].published = gen[current].published
      /\ gen'[current].closed = gen[current].closed
      /\ gen'[current].cleaning = gen[current].cleaning
      /\ gen'[current].leases = gen[current].leases
      /\ gen'[current].clients = gen[current].clients
      /\ gen[current].retired => gen'[current] = gen[current]
      /\ \A g \in Generations : g # current => gen'[g] = gen[g]
  BY <1>3 DEF CloseRetires, GenerationType
<1>5. gen[current].published
  BY <1>3 DEF GenerationInv, Generations
<1>6. retired' = (IF gen[current].retired THEN retired ELSE retired \cup {current})
  BY DEF CloseRetires
<1>7. \A g \in Generations : g \in retired' <=>
        g \in retired \/ (g = current /\ ~gen[current].retired)
  BY <1>6
<1>8. /\ closer' \in CloserType /\ closer'.pc = "draining" /\ closer'.targets = retired'
  <2>1. retired' \in SUBSET Generations
    BY <1>3, <1>6 DEF GenInv, GenTypeOK
  <2>2. QED
    BY <2>1, CloserFacts DEF CloseRetires, CloserType, CloserPlace
<1>9. GenTypeOK'
  <2>1. retired' \in SUBSET Generations
    BY <1>3, <1>6 DEF GenInv, GenTypeOK
  <2>2. QED
    BY <2>1, <1>1, <1>2, <1>4, <1>8 DEF GenInv, GenTypeOK
<1>10. \A k \in Generations : HoldersOf(k)' = HoldersOf(k)
  BY <1>1 DEF HoldersOf
<1>11. GenerationInv(current)'
  <2>1. HoldersOf(current)' = HoldersOf(current)
    BY <1>1 DEF HoldersOf
  <2>2. QED
    BY <2>1, <1>1, <1>2, <1>3, <1>4, <1>5, <1>7 DEF GenerationInv
<1>12. ASSUME NEW g \in Generations, g # current PROVE GenerationInv(g)'
  <2>1. gen'[g] = gen[g] /\ (g \in retired' <=> g \in retired)
    BY <1>4, <1>7, <1>12
  <2>2. QED
    BY <2>1, <1>1, <1>10, <1>12 DEF GenInv, GenerationInv
<1>13. \A g \in Generations : GenerationInv(g)'
  BY <1>1, <1>11, <1>12
<1>14. Lasting
  <2>1. gen[current].closed => gen[current].retired
    BY <1>3 DEF GenerationInv
  <2>2. QED
    BY <2>1, <1>1, <1>4 DEF Lasting
<1>15. ASSUME NEW t \in Tasks PROVE TaskInv(t)'
  <2>1. task[t].stage \notin {"created", "running"}
    BY <1>2, GenerationsAssumption DEF GenInv, TaskInv, Unfinished
  <2>2. QED
    BY <2>1, <1>1 DEF GenInv, TaskInv, Unfinished
<1>16. ASSUME NEW o \in AdminOps PROVE AdminInv(o)'
  <2>1. lock # o /\ lock' # o
    BY <1>2, GenerationsAssumption DEF Tasks
  <2>2. QED
    BY <2>1, <1>1 DEF GenInv, AdminInv, Busy
<1>17. LockInv'
  BY <1>1, <1>2, <1>8, GenerationsAssumption DEF GenInv, LockInv, Tasks
<1>18. CloserInv'
  <2>1. ASSUME NEW g \in Generations
        PROVE  /\ gen'[g].published => gen'[g].closed \/ g \in retired'
               /\ g \in retired' => gen'[g].retired
    <3>1. GenerationInv(g)'
      BY <1>13
    <3>2. gen'[g].published => gen'[g].retired
      BY <1>1, <1>4, <3>1 DEF GenerationInv
    <3>3. QED
      BY <3>1, <3>2 DEF GenerationInv
  <2>2. QED
    BY <2>1, <1>8 DEF CloserInv
<1>19. QED
  BY <1>9, <1>13, <1>14, <1>15, <1>16, <1>17, <1>18 DEF GenInv

(* What is drained is closed.                                              *)
LEMMA CloseDrainedInv == GenInv /\ CloseDrained => GenInv' /\ Lasting
<1> SUFFICES ASSUME GenInv, CloseDrained PROVE GenInv' /\ Lasting
  OBVIOUS
<1>1. UNCHANGED <<current, retired, lease, lock, admin, task, refreshTask,
                  closing, closed, account, scope, cache, faults>>
  BY DEF CloseDrained
<1>2. /\ closer.pc = "draining" /\ closing /\ closer' \in CloserType
      /\ closer'.pc = "joining" /\ closer'.targets = closer.targets
      /\ \A g \in Generations : g \in closer.targets => gen[g].retired
  BY CloserFacts DEF CloseDrained, LockInv, CloserType, CloserPlace, CloserInv
<1>3. gen \in [Generations -> GenerationType]
  BY DEF GenInv, GenTypeOK
<1>4. ASSUME NEW g \in Generations
      PROVE  /\ gen'[g] \in GenerationType /\ gen'[g].leases = gen[g].leases
             /\ gen'[g].published = gen[g].published /\ gen'[g].retired = gen[g].retired
             /\ gen'[g].closed = gen[g].closed /\ gen'[g].clients = gen[g].clients
             /\ gen[g].closed => gen'[g] = gen[g]
             /\ gen'[g].cleaning =>
                  gen[g].cleaning \/ (gen[g].retired /\ gen[g].leases = 0 /\ ~gen[g].closed)
  <2>1. gen[g] \in GenerationType
    BY <1>3
  <2>2. gen'[g] = IF g \in closer.targets THEN Closing(gen[g]) ELSE gen[g]
    BY DEF CloseDrained
  <2>3. QED
    BY <1>2, <2>1, <2>2, ClosingFields
<1>5. gen' \in [Generations -> GenerationType]
  BY <1>4 DEF CloseDrained
<1>6. GenTypeOK'
  BY <1>1, <1>2, <1>5 DEF GenInv, GenTypeOK
<1>7. ASSUME NEW g \in Generations PROVE GenerationInv(g)'
  <2>1. HoldersOf(g)' = HoldersOf(g)
    BY <1>1 DEF HoldersOf
  <2>2. QED
    BY <2>1, <1>1, <1>4 DEF GenInv, GenerationInv
<1>8. Lasting /\ SameFate
  BY <1>1, <1>4 DEF Lasting, SameFate
<1>9. ASSUME NEW t \in Tasks PROVE TaskInv(t)'
  <2>1. gen'[current].retired = gen[current].retired
    BY <1>4, CloserFacts
  <2>2. QED
    BY <2>1, <1>1 DEF GenInv, TaskInv, Unfinished
<1>10. ASSUME NEW o \in AdminOps PROVE AdminInv(o)'
  BY <1>1 DEF GenInv, AdminInv, Busy
<1>11. LockInv' /\ CloserInv'
  BY <1>1, <1>2, <1>8 DEF GenInv, LockInv, CloserInv, SameFate
<1>12. QED
  BY <1>6, <1>7, <1>8, <1>9, <1>10, <1>11 DEF GenInv

\* close() returns normally when nothing that was published is left.
LEMMA CloseEndsInv == GenInv /\ CloseEnds => GenInv' /\ Lasting
<1> SUFFICES ASSUME GenInv, CloseEnds PROVE GenInv' /\ Lasting
  OBVIOUS
<1>1. UNCHANGED <<gen, current, retired, lease, lock, admin, task, refreshTask,
                  closing, account, scope, faults>>
  BY DEF CloseEnds
<1>2. /\ closer.pc = "joining" /\ closing /\ closer' \in CloserType /\ closer'.pc = "idle"
  BY CloserFacts DEF CloseEnds, LockInv, CloserType, CloserPlace
<1>3. /\ cache' \in SUBSET Providers /\ closed' \in BOOLEAN
      /\ closed' => closed \/ \A g \in Generations : gen[g].published => gen[g].closed
  <2>1. \A g \in Generations : gen[g].published => gen[g].closed \/ g \in closer.targets
    BY <1>2 DEF GenInv, CloserInv
  <2>2. QED
    BY <2>1 DEF CloseEnds, Scoped, GenInv, GenTypeOK
<1>4. GenTypeOK'
  BY <1>1, <1>2, <1>3 DEF GenInv, GenTypeOK
<1>5. ASSUME NEW g \in Generations PROVE GenerationInv(g)'
  <2>1. HoldersOf(g)' = HoldersOf(g)
    BY <1>1 DEF HoldersOf
  <2>2. QED
    BY <2>1, <1>1, <1>3 DEF GenInv, GenerationInv
<1>6. Lasting
  BY <1>1 DEF Lasting
<1>7. ASSUME NEW t \in Tasks PROVE TaskInv(t)'
  BY <1>1 DEF GenInv, TaskInv, Unfinished
<1>8. ASSUME NEW o \in AdminOps PROVE AdminInv(o)'
  BY <1>1 DEF GenInv, AdminInv, Busy
<1>9. LockInv' /\ CloserInv'
  BY <1>1, <1>2 DEF GenInv, LockInv, CloserInv
<1>10. QED
  BY <1>4, <1>5, <1>6, <1>7, <1>8, <1>9 DEF GenInv

-----------------------------------------------------------------------------
(* A step that moves nothing of the manager keeps it; so does every step it *)
(* takes by itself.                                                        *)
LEMMA StillGenInv == GenInv /\ UNCHANGED genVars => GenInv' /\ Lasting
<1> SUFFICES ASSUME GenInv, UNCHANGED genVars PROVE GenInv' /\ Lasting
  OBVIOUS
<1>1. (\A k \in Generations : GenerationInv(k)') /\ Lasting /\ SameFate
  BY StillGenerations DEF genVars
<1>2. GenTypeOK'
  BY DEF genVars, GenInv, GenTypeOK
<1>3. QED
  BY <1>1, <1>2, FateFrame DEF genVars, GenInv

(* Every step the runtime takes by itself keeps the invariant.             *)
LEMMA RuntimeStepInv == GenInv /\ RuntimeStep => GenInv' /\ Lasting
<1> SUFFICES ASSUME GenInv, RuntimeStep PROVE GenInv' /\ Lasting
  OBVIOUS
<1>1. CASE Start
  BY <1>1, StartInv
<1>2. CASE \E g \in Generations : CleanupEnds(g)
  BY <1>2, CleanupEndsInv
<1>3. ASSUME NEW t \in Tasks, TaskStep(t) PROVE GenInv' /\ Lasting
  BY <1>3, TaskBeginsInv, TaskEndsInv, TaskCancelledInv DEF TaskStep
<1>4. ASSUME NEW o \in AdminOps, AdminStep(o) PROVE GenInv' /\ Lasting
  BY <1>4, RequestInvariant, RejectedInv, CancelsRefreshInv, RefreshBeginsInv, RefreshEndsInv,
     LockGivers, PublishInv, AccountChangedInv, AccountListedInv DEF AdminStep
<1>5. CASE CloseStep
  BY <1>5, CloseCalledInv, CloseBeginsInv, CloseRetiresInv, CloseDrainedInv, CloseEndsInv,
     CloseCancelledInv DEF CloseStep
<1>6. CASE ReadCatalog
  BY <1>6, ReadCatalogInv
<1>7. CASE \E p \in Accounts : AccountTurns(p)
  BY <1>7, AccountTurnsInv
<1>8. QED
  BY <1>1, <1>2, <1>3, <1>4, <1>5, <1>6, <1>7 DEF RuntimeStep

\* A request retains a generation while its body may be open, and the first
\* outcome of the body is the one recorded.
UsageType == {<<>>} \cup {<<s>> : s \in RecordStatus}
RequestType == [pc : RequestPlace, wire : Wire, body : BodyState, usage : UsageType]
Fits(q, retains) ==
  /\ q \in RequestType
  /\ retains <=> q.pc \notin {"new", "done"}
  /\ q.pc = "new" => q.body = "none" /\ q.usage = <<>>
  /\ q.wire = "probe" => q.body = "none" /\ q.pc \in {"starting", "done"}
  /\ q.pc = "starting" => q.body = IF q.wire = "probe" THEN "none" ELSE "open"
  /\ q.pc \notin {"new", "starting", "done"} => q.body # "none"
  /\ q.body = "open" => q.usage = <<>> /\ q.pc \notin {"failing", "releasing", "done"}
  /\ q.body \notin {"none", "open"} /\ q.wire # "responses" => q.usage = <<Outcome(q.body)>>
RequestInv(r) == Fits(request[r], lease[r] # NoGeneration)
ServiceInv ==
  /\ GenInv /\ request \in [Requests -> RequestType] /\ \A r \in Requests : RequestInv(r)

\* What is recorded of a body, and how it ends.
Noted(q, body, status) ==
  [pc |-> q.pc, wire |-> q.wire, body |-> body,
   usage |-> IF q.usage = <<>> THEN <<status>> ELSE q.usage]

(* An outcome is noted on a body only if none was noted before.            *)
LEMMA EndingFields ==
  ASSUME NEW q \in RequestType
  PROVE  /\ CloseBody(q)
              = Noted(q, IF q.body = "open" THEN "interrupted" ELSE q.body, "cancelled")
         /\ Completed(q) = Noted(q, "complete", "success")
         /\ Raised(q) = Noted(q, "failed", "error")
         /\ Interrupted(q) = Noted(q, "interrupted", "cancelled")
         /\ Exhausted(q) = Noted(q, "complete",
                                 IF q.wire = "responses" THEN "cancelled" ELSE "success")
<1>1. \A body \in BodyState, status \in RecordStatus :
        /\ Finalize([q EXCEPT !.body = body], status) = Noted(q, body, status)
        /\ [Finalize(q, status) EXCEPT !.body = body] = Noted(q, body, status)
  <2> SUFFICES ASSUME NEW body \in BodyState, NEW status \in RecordStatus
               PROVE  /\ Finalize([q EXCEPT !.body = body], status) = Noted(q, body, status)
                      /\ [Finalize(q, status) EXCEPT !.body = body] = Noted(q, body, status)
    OBVIOUS
  <2>1. CASE q.usage = <<>>
    <3>1. ASSUME NEW u \in UsageType
          PROVE  /\ [[q EXCEPT !.body = body] EXCEPT !.usage = u]
                      = [pc |-> q.pc, wire |-> q.wire, body |-> body, usage |-> u]
                 /\ [[q EXCEPT !.usage = u] EXCEPT !.body = body]
                      = [pc |-> q.pc, wire |-> q.wire, body |-> body, usage |-> u]
      <4>1. q = [pc |-> q.pc, wire |-> q.wire, body |-> q.body, usage |-> q.usage]
        BY DEF RequestType
      <4>2. [q EXCEPT !.body = body]
              = [pc |-> q.pc, wire |-> q.wire, body |-> body, usage |-> q.usage]
        BY <4>1
      <4>3. [q EXCEPT !.usage = u]
              = [pc |-> q.pc, wire |-> q.wire, body |-> q.body, usage |-> u]
        BY <4>1
      <4>4. \A p : /\ p = [pc |-> q.pc, wire |-> q.wire, body |-> body, usage |-> q.usage]
                         => [p EXCEPT !.usage = u]
                              = [pc |-> q.pc, wire |-> q.wire, body |-> body, usage |-> u]
                   /\ p = [pc |-> q.pc, wire |-> q.wire, body |-> q.body, usage |-> u]
                         => [p EXCEPT !.body = body]
                              = [pc |-> q.pc, wire |-> q.wire, body |-> body, usage |-> u]
        OBVIOUS
      <4>5. QED
        BY <4>2, <4>3, <4>4, Zenon
    <3>2. <<status>> \in UsageType
      BY DEF UsageType
    <3>3. [q EXCEPT !.body = body].usage = <<>>
      BY <2>1 DEF RequestType
    <3>4. QED
      BY <2>1, <3>1, <3>2, <3>3, Zenon DEF Finalize, Noted
  <2>2. CASE q.usage # <<>>
    <3>1. [q EXCEPT !.body = body] = Noted(q, body, status)
      BY <2>2 DEF RequestType, Noted
    <3>2. [q EXCEPT !.body = body].usage # <<>>
      BY <2>2 DEF RequestType
    <3>3. QED
      BY <2>2, <3>1, <3>2, Zenon DEF Finalize
  <2>3. QED
    BY <2>1, <2>2
<1>2. "complete" \in BodyState /\ "failed" \in BodyState /\ "interrupted" \in BodyState
  BY DEF BodyState
<1>3. "success" \in RecordStatus /\ "error" \in RecordStatus /\ "cancelled" \in RecordStatus
  BY DEF RecordStatus
<1>4. (IF q.body = "open" THEN "interrupted" ELSE q.body) \in BodyState
  BY <1>2 DEF RequestType
<1>5. CloseBody(q) = Noted(q, IF q.body = "open" THEN "interrupted" ELSE q.body, "cancelled")
  BY <1>1, <1>3, <1>4, Zenon DEF CloseBody
<1>6. Completed(q) = Noted(q, "complete", "success")
  BY <1>1, <1>2, <1>3, Zenon DEF Completed
<1>7. Raised(q) = Noted(q, "failed", "error") /\ Interrupted(q) = Noted(q, "interrupted", "cancelled")
  BY <1>1, <1>2, <1>3, Zenon DEF Raised, Interrupted
<1>8. Exhausted(q) = Noted(q, "complete",
                           IF q.wire = "responses" THEN "cancelled" ELSE "success")
  BY <1>1, <1>2, <1>3, <1>6, Zenon DEF Exhausted
<1>9. QED
  BY <1>5, <1>6, <1>7, <1>8

\* The runtime's own steps take no lease of a request and give none back.
LEMMA RuntimeLeases ==
  ASSUME GenInv, RuntimeStep, NEW r \in Requests
  PROVE  lease'[r] = lease[r]
<1>1. r \notin Tasks
  BY GenerationsAssumption
<1>2. CASE lease' = lease
  BY <1>2
<1>3. CASE \E t \in Tasks : \E g : lease' = [lease EXCEPT ![t] = g]
  BY <1>1, <1>3 DEF GenInv, GenTypeOK, Holders
<1>4. lease' = lease \/ \E t \in Tasks : \E g : lease' = [lease EXCEPT ![t] = g]
  <2>1. ASSUME NEW t \in Tasks, TaskStep(t)
        PROVE  lease' = lease \/ \E u \in Tasks : \E g : lease' = [lease EXCEPT ![u] = g]
    BY <2>1 DEF TaskStep, TaskBegins, TaskEnds, TaskCancelled
  <2>2. ASSUME NEW o \in AdminOps, AdminStep(o)
        PROVE  lease' = lease \/ \E u \in Tasks : \E g : lease' = [lease EXCEPT ![u] = g]
    <3>1. CASE RefreshBegins(o) \/ RefreshEnds(o)
      BY <3>1 DEF RefreshBegins, RefreshEnds, Tasks
    <3>2. CASE ~(RefreshBegins(o) \/ RefreshEnds(o))
      BY <2>2, <3>2 DEF AdminStep, Request, Rejected, CancelsRefresh, CommitFails, Publish,
         ReplaceEnds, AccountChanged, AccountListed, CallerCancelled
    <3>3. QED
      BY <3>1, <3>2
  <2>3. CloseStep => lease' = lease
    BY DEF CloseStep, CloseCalled, CloseBegins, CloseRetires, CloseDrained, CloseEnds,
           CloseCancelled
  <2>4. Start \/ ReadCatalog \/ (\E g \in Generations : CleanupEnds(g))
          \/ (\E p \in Accounts : AccountTurns(p)) => lease' = lease
    BY DEF Start, ReadCatalog, CleanupEnds, AccountTurns
  <2>5. QED
    BY <2>1, <2>2, <2>3, <2>4 DEF RuntimeStep
<1>5. QED
  BY <1>2, <1>3, <1>4

\* A step of one request, with what it does to its lease.
LEMMA OneRequest ==
  ASSUME ServiceInv, NEW r \in Requests, NEW q,
         request' = [request EXCEPT ![r] = q], GenInv' /\ Lasting,
         \/ UNCHANGED lease
         \/ \E g : lease' = [lease EXCEPT ![r] = g],
         Fits(q, lease'[r] # NoGeneration)
  PROVE  ServiceInv' /\ Lasting
<1>1. request' \in [Requests -> RequestType] /\ request'[r] = q
  BY DEF ServiceInv, Fits
<1>2. ASSUME NEW s \in Requests PROVE RequestInv(s)'
  <2>1. CASE s = r
    BY <2>1, <1>1 DEF RequestInv, Fits, Outcome, RequestType
  <2>2. CASE s # r
    <3>1. request'[s] = request[s] /\ lease'[s] = lease[s] /\ RequestInv(s)
      BY <2>2 DEF ServiceInv, GenInv, GenTypeOK, Holders
    <3>2. QED
      BY <3>1 DEF RequestInv, Fits, Outcome, RequestType
  <2>3. QED
    BY <2>1, <2>2
<1>3. QED
  BY <1>1, <1>2 DEF ServiceInv

(* The record of a request whose body has ended.                           *)
LEMMA NotedFields ==
  ASSUME NEW q \in RequestType, NEW body \in BodyState, NEW status \in RecordStatus,
         NEW pc \in RequestPlace
  PROVE  LET p == [Noted(q, body, status) EXCEPT !.pc = pc] IN
         /\ p \in RequestType /\ p.pc = pc /\ p.wire = q.wire /\ p.body = body
         /\ p.usage = IF q.usage = <<>> THEN <<status>> ELSE q.usage
<1> DEFINE u == IF q.usage = <<>> THEN <<status>> ELSE q.usage
<1>1. u \in UsageType
  BY DEF RequestType, UsageType
<1>2. Noted(q, body, status) = [pc |-> q.pc, wire |-> q.wire, body |-> body, usage |-> u]
  BY DEF Noted
<1> HIDE DEF u
<1>3. LET p == [Noted(q, body, status) EXCEPT !.pc = pc] IN
      /\ p \in RequestType /\ p.pc = pc /\ p.wire = q.wire /\ p.body = body /\ p.usage = u
  BY <1>1, <1>2 DEF RequestType
<1>4. QED
  BY <1>3 DEF u

(* The record of a request that goes on.                                   *)
LEMMA PlaceFields ==
  ASSUME NEW q \in RequestType, NEW pc \in RequestPlace
  PROVE  LET p == [q EXCEPT !.pc = pc] IN
         /\ p \in RequestType /\ p.pc = pc /\ p.wire = q.wire /\ p.body = q.body
         /\ p.usage = q.usage
BY DEF RequestType

\* A body that has just ended, and one that is closed.
LEMMA EndedFits ==
  ASSUME NEW q, Fits(q, TRUE), NEW pc \in RequestPlace, pc \notin {"new", "starting"},
         NEW body \in BodyState, body \notin {"none", "open"}, NEW status \in RecordStatus,
         q.body = "open", q.wire # "responses" => status = Outcome(body)
  PROVE  Fits([Noted(q, body, status) EXCEPT !.pc = pc], pc # "done")
<1> DEFINE p == [Noted(q, body, status) EXCEPT !.pc = pc]
<1>1. q \in RequestType /\ q.usage = <<>> /\ q.wire # "probe"
  BY DEF Fits
<1>2. /\ p \in RequestType /\ p.pc = pc /\ p.wire = q.wire /\ p.body = body
      /\ p.usage = <<status>>
  <2>1. /\ p \in RequestType /\ p.pc = pc /\ p.wire = q.wire /\ p.body = body
        /\ p.usage = IF q.usage = <<>> THEN <<status>> ELSE q.usage
    <3>1. /\ q \in RequestType /\ body \in BodyState /\ status \in RecordStatus
          /\ pc \in RequestPlace
      BY <1>1
    <3>2. QED
      BY ONLY <3>1, NotedFields
  <2>2. QED
    BY <1>1, <2>1
<1> HIDE DEF p
<1>3. Fits(p, pc # "done")
  BY <1>1, <1>2 DEF Fits
<1>4. QED
  BY <1>3 DEF p

(* A body that is closed without an outcome is a cancelled one.            *)
LEMMA ClosedFits ==
  ASSUME NEW q, Fits(q, TRUE), q.pc \in {"failing", "cleaning"}, NEW pc \in {"releasing", "done"}
  PROVE  Fits([CloseBody(q) EXCEPT !.pc = pc], pc # "done")
<1> DEFINE body == IF q.body = "open" THEN "interrupted" ELSE q.body
           p == [Noted(q, body, "cancelled") EXCEPT !.pc = pc]
<1>1. q \in RequestType /\ pc \in RequestPlace /\ body \in BodyState /\ "cancelled" \in RecordStatus
  BY DEF Fits, RequestType, RequestPlace, BodyState, RecordStatus
<1>2. [CloseBody(q) EXCEPT !.pc = pc] = p
  BY <1>1, EndingFields
<1>3. /\ p \in RequestType /\ p.pc = pc /\ p.wire = q.wire /\ p.body = body
      /\ p.usage = IF q.usage = <<>> THEN <<"cancelled">> ELSE q.usage
  BY <1>1, NotedFields
<1> HIDE DEF p
<1>4. Fits(p, pc # "done")
  <2>1. CASE q.body = "open"
    BY <2>1, <1>1, <1>3 DEF Fits, Outcome
  <2>2. CASE q.body # "open"
    <3>1. q.body \notin {"none", "open"} /\ q.wire # "probe"
      BY <2>2 DEF Fits
    <3>2. q.wire # "responses" => p.usage = <<Outcome(q.body)>>
      BY <3>1, <1>3 DEF Fits
    <3>3. QED
      BY <2>2, <3>1, <3>2, <1>1, <1>3 DEF Fits
  <2>3. QED
    BY <2>1, <2>2
<1>5. QED
  BY <1>2, <1>4

\* The words for places, wires and outcomes.
LEMMA RequestWords ==
  /\ \A pc \in {"new", "starting", "streaming", "failing", "cleaning", "releasing", "done"} :
       pc \in RequestPlace
  /\ "complete" \in BodyState /\ "failed" \in BodyState /\ "interrupted" \in BodyState
  /\ "success" \in RecordStatus /\ "error" \in RecordStatus /\ "cancelled" \in RecordStatus
  /\ Outcome("complete") = "success" /\ Outcome("failed") = "error"
  /\ Outcome("interrupted") = "cancelled"
BY DEF RequestPlace, BodyState, RecordStatus, Outcome

\* Every way an open body may end by itself.
LEMMA EndingsFit ==
  ASSUME NEW q, Fits(q, TRUE), q.body = "open",
         NEW pc \in {"streaming", "failing", "cleaning", "done"},
         NEW rec \in {Completed(q), Raised(q), Interrupted(q), Exhausted(q)}
  PROVE  Fits([rec EXCEPT !.pc = pc], pc # "done")
<1>1. q \in RequestType
  BY DEF Fits
<1>2. pc \in RequestPlace /\ pc \notin {"new", "starting"}
  BY RequestWords
<1>3. PICK body \in {"complete", "failed", "interrupted"}, status \in RecordStatus :
        /\ rec = Noted(q, body, status)
        /\ q.wire # "responses" => status = Outcome(body)
  <2>1. CASE rec = Completed(q)
    BY <1>1, <2>1, RequestWords, EndingFields
  <2>2. CASE rec = Raised(q)
    BY <1>1, <2>2, RequestWords, EndingFields
  <2>3. CASE rec = Interrupted(q)
    BY <1>1, <2>3, RequestWords, EndingFields
  <2>4. CASE rec = Exhausted(q)
    <3>1. rec = Noted(q, "complete", IF q.wire = "responses" THEN "cancelled" ELSE "success")
      BY <1>1, <2>4, EndingFields
    <3>2. CASE q.wire = "responses"
      BY <3>1, <3>2, RequestWords
    <3>3. CASE q.wire # "responses"
      BY <3>1, <3>3, RequestWords
    <3>4. QED
      BY <3>2, <3>3
  <2>5. QED
    BY <2>1, <2>2, <2>3, <2>4
<1>4. body \in BodyState /\ body \notin {"none", "open"}
  BY RequestWords
<1>5. Fits([Noted(q, body, status) EXCEPT !.pc = pc], pc # "done")
  BY <1>2, <1>3, <1>4, EndedFits
<1>6. QED
  BY <1>3, <1>5

\* What the service invariant says of one request.
LEMMA RequestFacts ==
  ASSUME ServiceInv, NEW r \in Requests
  PROVE  /\ GenInv /\ request[r] \in RequestType /\ Fits(request[r], lease[r] # NoGeneration)
         /\ lease[r] # NoGeneration <=> request[r].pc \notin {"new", "done"}
         /\ lease \in [Holders -> Generations \cup {NoGeneration}] /\ r \in Holders
         /\ \A q : request' = [request EXCEPT ![r] = q] => request'[r] = q
BY DEF ServiceInv, RequestInv, Fits, GenInv, GenTypeOK, Holders

\* A step of a request that leaves the manager alone.
LEMMA QuietRequest ==
  ASSUME ServiceInv, NEW r \in Requests, NEW q, UNCHANGED genVars,
         request' = [request EXCEPT ![r] = q], Fits(q, lease[r] # NoGeneration)
  PROVE  ServiceInv' /\ Lasting
<1>1. GenInv' /\ Lasting
  BY RequestFacts, StillGenInv
<1>2. UNCHANGED lease
  BY DEF genVars
<1>3. QED
  BY <1>1, <1>2, OneRequest

\* A step that takes a lease, and one that gives it back.
LEMMA TakingRequest ==
  ASSUME ServiceInv, NEW r \in Requests, NEW q, NEW clients \in SUBSET Providers,
         Retain(r, clients), request' = [request EXCEPT ![r] = q], Fits(q, TRUE)
  PROVE  ServiceInv' /\ Lasting
<1>1. GenInv' /\ Lasting
  BY RequestFacts, RetainInv
<1>2. lease' = [lease EXCEPT ![r] = current] /\ lease'[r] # NoGeneration
  BY RequestFacts DEF Retain, GenInv, GenTypeOK, Generations, NoGeneration
<1>3. Fits(q, lease'[r] # NoGeneration)
  <2>1. (lease'[r] # NoGeneration) = TRUE
    BY <1>2
  <2>2. QED
    BY <2>1, Zenon
<1>4. QED
  BY <1>1, <1>2, <1>3, OneRequest

(* A step of a request that gives its lease back.                          *)
LEMMA GivingRequest ==
  ASSUME ServiceInv, NEW r \in Requests, NEW q, NEW listed \in SUBSET Providers,
         Release(r, listed), request' = [request EXCEPT ![r] = q], Fits(q, FALSE)
  PROVE  ServiceInv' /\ Lasting
<1>1. GenInv' /\ Lasting
  BY RequestFacts, ReleaseInv
<1>2. lease' = [lease EXCEPT ![r] = NoGeneration] /\ ~(lease'[r] # NoGeneration)
  BY RequestFacts DEF Release
<1>3. Fits(q, lease'[r] # NoGeneration)
  <2>1. (lease'[r] # NoGeneration) = FALSE
    BY <1>2
  <2>2. QED
    BY <2>1, Zenon
<1>4. QED
  BY <1>1, <1>2, <1>3, OneRequest

(* A step of a request that looks a provider up.                           *)
LEMMA GlimpsingRequest ==
  ASSUME ServiceInv, NEW r \in Requests, NEW q, NEW clients \in SUBSET Providers,
         Glimpse(clients), request' = [request EXCEPT ![r] = q],
         Fits(q, lease[r] # NoGeneration)
  PROVE  ServiceInv' /\ Lasting
<1>1. GenInv' /\ Lasting
  BY RequestFacts, GlimpseInv
<1>2. UNCHANGED lease
  BY DEF Glimpse
<1>3. QED
  BY <1>1, <1>2, OneRequest

(* What a request asks for are providers.                                  *)
LEMMA AtMostOneProviders == AtMostOne \subseteq SUBSET Providers
BY DEF AtMostOne

\* The fields of a request's record are replaced one or several at a time.
LEMMA RefusedFits ==
  ASSUME NEW q, Fits(q, FALSE), q.pc = "new"
  PROVE  Fits([q EXCEPT !.pc = "done"], FALSE)
BY PlaceFields, RequestWords DEF Fits

(* A request retains a generation just while it is under way.              *)
LEMMA Retaining ==
  ASSUME ServiceInv, NEW r \in Requests
  PROVE  /\ request[r].pc \in {"new", "done"} =>
              (lease[r] # NoGeneration) = FALSE /\ Fits(request[r], FALSE)
         /\ request[r].pc \notin {"new", "done"} =>
              (lease[r] # NoGeneration) = TRUE /\ Fits(request[r], TRUE)
<1>1. /\ request[r].pc \in {"new", "done"} => (lease[r] # NoGeneration) = FALSE
      /\ request[r].pc \notin {"new", "done"} => (lease[r] # NoGeneration) = TRUE
  BY RequestFacts
<1>2. QED
  BY <1>1, RequestFacts, Zenon

\* A request that is answered before any stream, or opens one.
LEMMA NewRequests ==
  ASSUME ServiceInv, NEW r \in Requests,
         Refused(r) \/ Rejects(r) \/ Optimizes(r)
  PROVE  ServiceInv' /\ Lasting
<1> DEFINE q == request[r]
<1>1. /\ q.pc = "new" /\ q \in RequestType /\ Fits(q, FALSE)
      /\ (lease[r] # NoGeneration) = FALSE
  BY RequestFacts, Retaining DEF Refused, Rejects, Optimizes
<1>2. Fits([q EXCEPT !.pc = "done"], lease[r] # NoGeneration)
  <2>1. Fits([q EXCEPT !.pc = "done"], FALSE)
    BY <1>1, RefusedFits
  <2>2. QED
    BY <1>1, <2>1, Zenon
<1>3. CASE Refused(r)
  <2>1. request' = [request EXCEPT ![r] = [q EXCEPT !.pc = "done"]] /\ UNCHANGED genVars
    BY <1>3 DEF Refused
  <2> HIDE DEF q
  <2>2. QED
    BY <1>2, <2>1, QuietRequest
<1>4. CASE Rejects(r)
  <2>1. PICK clients \in AtMostOne : Glimpse(clients)
    BY <1>4 DEF Rejects
  <2>2. request' = [request EXCEPT ![r] = [q EXCEPT !.pc = "done"]]
    BY <1>4 DEF Rejects
  <2> HIDE DEF q
  <2>3. QED
    BY <1>2, <2>1, <2>2, GlimpsingRequest, AtMostOneProviders
<1>5. CASE Optimizes(r)
  <2> DEFINE p == [q EXCEPT !.pc = "done", !.usage = <<"success">>]
  <2>1. request' = [request EXCEPT ![r] = p] /\ Glimpse({})
    BY <1>5 DEF Optimizes
  <2>2. Fits(p, FALSE)
    <3>1. <<"success">> \in UsageType /\ "done" \in RequestPlace
      BY RequestWords DEF UsageType
    <3>2. q.body = "none" /\ q.wire \in Wire
      BY <1>1 DEF Fits, RequestType
    <3> DEFINE u == <<"success">>
    <3> HIDE DEF u
    <3>3. /\ [q EXCEPT !.pc = "done", !.usage = u] \in RequestType
          /\ [q EXCEPT !.pc = "done", !.usage = u].pc = "done"
          /\ [q EXCEPT !.pc = "done", !.usage = u].wire = q.wire
          /\ [q EXCEPT !.pc = "done", !.usage = u].body = q.body
      BY <1>1, <3>1 DEF RequestType, u
    <3>4. p \in RequestType /\ p.pc = "done" /\ p.wire = q.wire /\ p.body = q.body
      BY <3>3 DEF u
    <3> HIDE DEF p
    <3>5. QED
      BY <3>2, <3>4 DEF Fits
  <2>3. Fits(p, lease[r] # NoGeneration)
    BY <1>1, <2>2, Zenon
  <2> HIDE DEF p
  <2>4. QED
    BY <2>1, <2>3, GlimpsingRequest
<1>6. QED
  BY <1>3, <1>4, <1>5

(* A stream or a probe begins with a lease.                                *)
LEMMA OpeningRequests ==
  ASSUME ServiceInv, NEW r \in Requests,
         \/ \E wire \in Wire \ {"probe"}, clients \in AtMostOne : Opens(r, wire, clients)
         \/ \E p \in Providers : ProbeBegins(r, p)
  PROVE  ServiceInv' /\ Lasting
<1> DEFINE q == request[r]
<1>1. /\ q.pc = "new" /\ q \in RequestType /\ q.body = "none" /\ q.usage = <<>>
  BY RequestFacts DEF Opens, ProbeBegins, Fits
<1>2. /\ "starting" \in RequestPlace /\ "open" \in BodyState /\ "probe" \in Wire
  BY DEF RequestPlace, BodyState, Wire
<1>3. CASE \E wire \in Wire \ {"probe"}, clients \in AtMostOne : Opens(r, wire, clients)
  <2>1. PICK wire \in Wire \ {"probe"}, clients \in AtMostOne : Opens(r, wire, clients)
    BY <1>3
  <2> DEFINE p == [q EXCEPT !.pc = "starting", !.wire = wire, !.body = "open"]
  <2>2. request' = [request EXCEPT ![r] = p] /\ Retain(r, clients)
    BY <2>1 DEF Opens
  <2>3. /\ p \in RequestType /\ p.pc = "starting" /\ p.wire = wire /\ p.body = "open"
        /\ p.usage = <<>>
    BY <1>1, <1>2 DEF RequestType
  <2> HIDE DEF p
  <2>4. Fits(p, TRUE)
    BY <2>3 DEF Fits
  <2>5. QED
    BY <2>2, <2>4, TakingRequest, AtMostOneProviders
<1>4. CASE \E p \in Providers : ProbeBegins(r, p)
  <2>1. PICK provider \in Providers : ProbeBegins(r, provider)
    BY <1>4
  <2> DEFINE p == [q EXCEPT !.pc = "starting", !.wire = "probe"]
  <2>2. request' = [request EXCEPT ![r] = p] /\ Retain(r, {provider})
    BY <2>1 DEF ProbeBegins
  <2>3. /\ p \in RequestType /\ p.pc = "starting" /\ p.wire = "probe" /\ p.body = "none"
        /\ p.usage = <<>>
    BY <1>1, <1>2 DEF RequestType
  <2> HIDE DEF p
  <2>4. Fits(p, TRUE)
    BY <2>3 DEF Fits
  <2>5. QED
    BY <2>2, <2>4, TakingRequest
<1>5. QED
  BY <1>3, <1>4

\* A stream that starts, fails to start, is read to its end or cut.
LEMMA StreamingRequests ==
  ASSUME ServiceInv, NEW r \in Requests,
         FirstChunk(r) \/ StartFails(r) \/ StreamingEnds(r) \/ CleanupClosesBody(r)
  PROVE  ServiceInv' /\ Lasting
<1> DEFINE q == request[r]
<1>1. /\ q.pc \notin {"new", "done"} /\ q \in RequestType /\ Fits(q, TRUE)
      /\ (lease[r] # NoGeneration) = TRUE
  BY RequestFacts, Retaining DEF FirstChunk, StartFails, StreamingEnds, CleanupClosesBody
<1>2. q.pc = "starting" /\ q.wire \in {"messages", "responses"} => q.body = "open"
  BY <1>1 DEF Fits
<1> HIDE DEF q
<1>3. ASSUME NEW p, Fits(p, TRUE), request' = [request EXCEPT ![r] = p], UNCHANGED genVars
      PROVE  ServiceInv' /\ Lasting
  <2>1. Fits(p, lease[r] # NoGeneration)
    BY <1>1, <1>3, Zenon
  <2>2. QED
    BY <1>3, <2>1, QuietRequest
<1>4. CASE FirstChunk(r)
  <2>1. PICK rec \in {q, Completed(q)} :
          request' = [request EXCEPT ![r] = [rec EXCEPT !.pc = "streaming"]]
    BY <1>4 DEF FirstChunk, q
  <2>2. UNCHANGED genVars /\ q.pc = "starting" /\ q.wire \in {"messages", "responses"}
    BY <1>4 DEF FirstChunk, q
  <2>3. Fits([rec EXCEPT !.pc = "streaming"], TRUE)
    <3>1. CASE rec = q
      <4> DEFINE p == [q EXCEPT !.pc = "streaming"]
      <4>1. /\ p \in RequestType /\ p.pc = "streaming" /\ p.wire = q.wire /\ p.body = q.body
            /\ p.usage = q.usage
        BY <1>1, PlaceFields, RequestWords
      <4> HIDE DEF p
      <4>2. Fits(p, TRUE)
        BY <1>1, <1>2, <2>2, <4>1 DEF Fits
      <4>3. QED
        BY <3>1, <4>2 DEF p
    <3>2. CASE rec = Completed(q)
      <4>1. Fits([rec EXCEPT !.pc = "streaming"], "streaming" # "done")
        BY <1>1, <1>2, <2>2, <3>2, EndingsFit
      <4>2. QED
        BY <4>1
    <3>3. QED
      BY <2>1, <3>1, <3>2
  <2>4. QED
    BY <1>3, <2>1, <2>2, <2>3
<1>5. CASE StartFails(r)
  <2>1. PICK rec \in {Raised(q), Interrupted(q), Completed(q)} :
          request' = [request EXCEPT ![r] = [rec EXCEPT !.pc = "failing"]]
    BY <1>5 DEF StartFails, q
  <2>2. UNCHANGED genVars /\ q.body = "open"
    BY <1>2, <1>5 DEF StartFails, q
  <2>3. Fits([rec EXCEPT !.pc = "failing"], "failing" # "done")
    BY <1>1, <2>2, <2>1, EndingsFit
  <2>4. QED
    BY <1>3, <2>1, <2>2, <2>3
<1>6. CASE StreamingEnds(r)
  <2>1. PICK rec \in {q, Exhausted(q), Completed(q), Raised(q), Interrupted(q)} :
          /\ request' = [request EXCEPT ![r] = [rec EXCEPT !.pc = "cleaning"]]
          /\ rec = q \/ q.body = "open"
    BY <1>6 DEF StreamingEnds, q
  <2>2. UNCHANGED genVars /\ q.pc = "streaming"
    BY <1>6 DEF StreamingEnds, q
  <2>3. Fits([rec EXCEPT !.pc = "cleaning"], TRUE)
    <3>1. CASE rec = q
      <4> DEFINE p == [q EXCEPT !.pc = "cleaning"]
      <4>1. /\ p \in RequestType /\ p.pc = "cleaning" /\ p.wire = q.wire /\ p.body = q.body
            /\ p.usage = q.usage
        BY <1>1, PlaceFields, RequestWords
      <4> HIDE DEF p
      <4>2. Fits(p, TRUE)
        BY <1>1, <2>2, <4>1 DEF Fits
      <4>3. QED
        BY <3>1, <4>2 DEF p
    <3>2. CASE rec # q
      <4>1. Fits([rec EXCEPT !.pc = "cleaning"], "cleaning" # "done")
        BY <1>1, <2>1, <3>2, EndingsFit
      <4>2. QED
        BY <4>1
    <3>3. QED
      BY <3>1, <3>2
  <2>4. QED
    BY <1>3, <2>1, <2>2, <2>3
<1>7. CASE CleanupClosesBody(r)
  <2>1. /\ request' = [request EXCEPT ![r] = [CloseBody(q) EXCEPT !.pc = "releasing"]]
        /\ UNCHANGED genVars /\ q.pc = "cleaning"
    BY <1>7 DEF CleanupClosesBody, q
  <2>2. Fits([CloseBody(q) EXCEPT !.pc = "releasing"], "releasing" # "done")
    BY <1>1, <2>1, ClosedFits
  <2>3. QED
    BY <1>3, <2>1, <2>2
<1>8. QED
  BY <1>4, <1>5, <1>6, <1>7

\* A request that is over gives its generation back.
LEMMA EndingRequests ==
  ASSUME ServiceInv, NEW r \in Requests,
         \/ FailureAnswered(r) \/ Aggregates(r) \/ CleanupReleases(r)
         \/ \E p \in Providers, listed \in BOOLEAN : ProbeEnds(r, p, listed)
  PROVE  ServiceInv' /\ Lasting
<1> DEFINE q == request[r]
<1>1. q.pc \notin {"new", "done"} /\ q \in RequestType /\ Fits(q, TRUE)
  BY RequestFacts, Retaining DEF FailureAnswered, Aggregates, CleanupReleases, ProbeEnds
<1>2. {} \in SUBSET Providers
  OBVIOUS
<1> HIDE DEF q
<1>3. CASE FailureAnswered(r)
  <2>1. /\ request' = [request EXCEPT ![r] = [CloseBody(q) EXCEPT !.pc = "done"]]
        /\ Release(r, {}) /\ q.pc = "failing"
    BY <1>3 DEF FailureAnswered, q
  <2>2. Fits([CloseBody(q) EXCEPT !.pc = "done"], "done" # "done")
    BY <1>1, <2>1, ClosedFits
  <2>3. QED
    BY <1>2, <2>1, <2>2, GivingRequest
<1>4. CASE Aggregates(r)
  <2>1. PICK rec \in {Completed(q), Raised(q), Interrupted(q)} :
          request' = [request EXCEPT ![r] = [rec EXCEPT !.pc = "done"]]
    BY <1>4 DEF Aggregates, q
  <2>2. Release(r, {}) /\ q.pc = "starting" /\ q.wire = "json"
    BY <1>4 DEF Aggregates, q
  <2>3. q.body = "open"
    BY <1>1, <2>2 DEF Fits
  <2>4. Fits([rec EXCEPT !.pc = "done"], "done" # "done")
    BY <1>1, <2>1, <2>3, EndingsFit
  <2>5. QED
    BY <1>2, <2>1, <2>2, <2>4, GivingRequest
<1>5. ASSUME q.pc = "releasing" \/ (q.pc = "starting" /\ q.wire = "probe")
      PROVE  Fits([q EXCEPT !.pc = "done"], FALSE)
  <2> DEFINE p == [q EXCEPT !.pc = "done"]
  <2>1. /\ p \in RequestType /\ p.pc = "done" /\ p.wire = q.wire /\ p.body = q.body
        /\ p.usage = q.usage
    BY <1>1, PlaceFields, RequestWords
  <2>2. q.body # "open"
    BY <1>1, <1>5 DEF Fits
  <2> HIDE DEF p
  <2>3. Fits(p, FALSE)
    BY <1>1, <2>1, <2>2 DEF Fits
  <2>4. QED
    BY <2>3 DEF p
<1>6. CASE CleanupReleases(r)
  <2>1. /\ request' = [request EXCEPT ![r] = [q EXCEPT !.pc = "done"]]
        /\ Release(r, {}) /\ q.pc = "releasing"
    BY <1>6 DEF CleanupReleases, q
  <2>2. QED
    BY <1>2, <1>5, <2>1, GivingRequest
<1>7. CASE \E p \in Providers, listed \in BOOLEAN : ProbeEnds(r, p, listed)
  <2>1. PICK p \in Providers, listed \in BOOLEAN : ProbeEnds(r, p, listed)
    BY <1>7
  <2>2. /\ request' = [request EXCEPT ![r] = [q EXCEPT !.pc = "done"]]
        /\ q.pc = "starting" /\ q.wire = "probe"
        /\ Release(r, IF listed THEN {p} ELSE {})
    BY <2>1 DEF ProbeEnds, q
  <2>3. (IF listed THEN {p} ELSE {}) \in SUBSET Providers
    OBVIOUS
  <2>4. QED
    BY <1>5, <2>2, <2>3, GivingRequest
<1>8. QED
  BY <1>3, <1>4, <1>6, <1>7

(* Every step of the request service keeps the invariant.                  *)
LEMMA ServiceStepInv == ServiceInv /\ [RequestNext]_serviceVars => ServiceInv' /\ Lasting
<1> SUFFICES ASSUME ServiceInv, [RequestNext]_serviceVars PROVE ServiceInv' /\ Lasting
  OBVIOUS
<1>1. CASE RuntimeStep
  <2>1. GenInv' /\ Lasting /\ UNCHANGED request
    BY <1>1, RuntimeStepInv DEF ServiceInv, RuntimeStep
  <2>2. ASSUME NEW r \in Requests PROVE RequestInv(r)'
    <3>1. lease'[r] = lease[r] /\ request'[r] = request[r] /\ RequestInv(r)
      BY <1>1, <2>1, RuntimeLeases DEF ServiceInv
    <3>2. QED
      BY <3>1 DEF RequestInv, Fits, Outcome, RequestType
  <2>3. QED
    BY <2>1, <2>2 DEF ServiceInv
<1>2. ASSUME NEW r \in Requests, RequestStep(r) PROVE ServiceInv' /\ Lasting
  BY <1>2, NewRequests, OpeningRequests, StreamingRequests, EndingRequests DEF RequestStep
<1>3. CASE UNCHANGED serviceVars
  <2>1. GenInv' /\ Lasting /\ UNCHANGED request /\ UNCHANGED lease
    BY <1>3, StillGenInv DEF ServiceInv, serviceVars, genVars
  <2>2. ASSUME NEW r \in Requests PROVE RequestInv(r)'
    BY <2>1 DEF ServiceInv, RequestInv, Fits, Outcome, RequestType
  <2>3. QED
    BY <2>1, <2>2 DEF ServiceInv
<1>4. QED
  BY <1>1, <1>2, <1>3 DEF RequestNext

(* At first no request has come.                                           *)
LEMMA ServiceInitInv == ServiceInit => ServiceInv
<1> SUFFICES ASSUME ServiceInit PROVE ServiceInv
  OBVIOUS
<1>1. GenInv
  BY InitGenInv DEF ServiceInit
<1>2. NewRequest \in RequestType
  <2>1. "new" \in RequestPlace /\ "messages" \in Wire /\ "none" \in BodyState /\ <<>> \in UsageType
    BY DEF RequestPlace, Wire, BodyState, UsageType
  <2>2. QED
    BY <2>1 DEF NewRequest, RequestType
<1>3. request \in [Requests -> RequestType]
  BY <1>2 DEF ServiceInit, RequestInit
<1>4. ASSUME NEW r \in Requests PROVE RequestInv(r)
  <2>1. request[r] = NewRequest
    BY DEF ServiceInit, RequestInit
  <2>2. (lease[r] # NoGeneration) = FALSE
    BY DEF ServiceInit, GenInit, Holders
  <2>3. /\ NewRequest.pc = "new" /\ NewRequest.wire = "messages"
        /\ NewRequest.body = "none" /\ NewRequest.usage = <<>>
    BY DEF NewRequest
  <2>4. Fits(NewRequest, FALSE)
    BY <1>2, <2>3 DEF Fits
  <2>5. QED
    BY <2>1, <2>2, <2>4, Zenon DEF RequestInv
<1>5. QED
  BY <1>1, <1>3, <1>4 DEF ServiceInv

(* The invariant holds of the request service.                             *)
LEMMA ServiceInvariant == ServiceSpec => []ServiceInv
<1>1. QED
  BY ServiceInitInv, ServiceStepInv, PTL DEF ServiceSpec

-----------------------------------------------------------------------------
(* active_leases of a generation is the number of those who retain it, and *)
(* one that is retained is neither closed nor being closed                 *)
(* (NeverClosedInUse).                                                     *)
THEOREM GenerationsNotClosedInUse == ServiceSpec => []NeverClosedInUse
<1>1. ServiceInv => NeverClosedInUse
  <2> SUFFICES ASSUME ServiceInv PROVE NeverClosedInUse
    OBVIOUS
  <2>1. \A g \in Generations : GenerationInv(g)
    BY DEF ServiceInv, GenInv
  <2>2. ASSUME NEW h \in Holders, lease[h] # NoGeneration
        PROVE  LET g == lease[h] IN gen[g].published /\ ~gen[g].closed /\ ~gen[g].cleaning
    <3>1. lease[h] \in Generations
      BY <2>2 DEF ServiceInv, GenInv, GenTypeOK
    <3>2. h \in HoldersOf(lease[h])
      BY DEF HoldersOf
    <3>3. Cardinality(HoldersOf(lease[h])) # 0
      BY <3>2, HoldersCounted, FS_EmptySet
    <3>4. QED
      BY <2>1, <3>1, <3>3 DEF GenerationInv
  <2>3. \A g \in Generations : gen[g].leases = Cardinality(HoldersOf(g))
    BY <2>1 DEF GenerationInv
  <2>4. QED
    BY <2>2, <2>3 DEF NeverClosedInUse
<1>2. QED
  BY <1>1, ServiceInvariant, PTL

(* Every generation that was published has an owner that will close it,    *)
(* and none is left when close() has returned (EveryGenerationIsOwned).    *)
THEOREM GenerationsOwned == ServiceSpec => []EveryGenerationIsOwned
<1>1. ServiceInv => EveryGenerationIsOwned
  <2> SUFFICES ASSUME ServiceInv PROVE EveryGenerationIsOwned
    OBVIOUS
  <2>1. GenTypeOK
    BY DEF ServiceInv, GenInv
  <2>2. ASSUME NEW g \in Generations, gen[g].published
        PROVE  /\ \/ g = current /\ ~gen[g].retired
                  \/ g \in retired /\ gen[g].retired /\ ~gen[g].closed
                  \/ gen[g].closed /\ gen[g].retired /\ gen[g].clients = {} /\ g \notin retired
               /\ closed => gen[g].closed
    BY <2>2 DEF ServiceInv, GenInv, GenerationInv
  <2>3. QED
    BY <2>1, <2>2 DEF EveryGenerationIsOwned
<1>2. QED
  BY <1>1, ServiceInvariant, PTL

(* A retired generation is never retained again, and a closed one never    *)
(* changes (RetiredIsFinal).                                               *)
THEOREM RetiredStaysRetired == ServiceSpec => RetiredIsFinal
<1>1. ServiceInv /\ [RequestNext]_serviceVars =>
        [\A g \in Generations :
           /\ gen[g].closed => gen'[g] = gen[g]
           /\ gen[g].retired =>
                gen'[g].retired /\ \A h \in Holders : lease'[h] = g => lease[h] = g]_genVars
  BY ServiceStepInv DEF Lasting
<1>2. QED
  BY <1>1, ServiceInvariant, PTL DEF ServiceSpec, RetiredIsFinal

(* While its body is open a request retains a live generation; when it is  *)
(* over it retains none, and what is recorded of a Messages stream is how  *)
(* it ended (RecordedOnce).                                                *)
THEOREM RequestsRecordedOnce == ServiceSpec => []RecordedOnce
<1>1. ServiceInv /\ NeverClosedInUse => RecordedOnce
  <2> SUFFICES ASSUME ServiceInv, NeverClosedInUse, NEW r \in Requests
               PROVE  /\ request[r] \in [pc : RequestPlace, wire : Wire, body : BodyState,
                                         usage : {<<>>} \cup {<<s>> : s \in RecordStatus}]
                      /\ request[r].body = "open" =>
                           lease[r] # NoGeneration /\ ~gen[lease[r]].closed
                             /\ ~gen[lease[r]].cleaning
                      /\ request[r].pc = "done" =>
                           /\ lease[r] = NoGeneration
                           /\ request[r].body # "none" =>
                                /\ request[r].body # "open"
                                /\ request[r].wire # "responses" =>
                                     request[r].usage = <<Outcome(request[r].body)>>
    BY DEF RecordedOnce
  <2>1. request[r] \in RequestType /\ r \in Holders
    BY RequestFacts
  <2>2. request[r] \in [pc : RequestPlace, wire : Wire, body : BodyState,
                        usage : {<<>>} \cup {<<s>> : s \in RecordStatus}]
    BY <2>1, Zenon DEF RequestType, UsageType
  <2>3. Fits(request[r], lease[r] # NoGeneration)
    BY RequestFacts
  <2>4. request[r].body = "open" => lease[r] # NoGeneration
    BY <2>3 DEF Fits
  <2>5. request[r].pc = "done" =>
          /\ lease[r] = NoGeneration
          /\ request[r].body # "none" =>
               /\ request[r].body # "open"
               /\ request[r].wire # "responses" =>
                    request[r].usage = <<Outcome(request[r].body)>>
    BY <2>3 DEF Fits
  <2>6. lease[r] # NoGeneration => ~gen[lease[r]].closed /\ ~gen[lease[r]].cleaning
    BY <2>1 DEF NeverClosedInUse
  <2>7. QED
    BY <2>2, <2>4, <2>5, <2>6, Zenon
<1>2. QED
  BY <1>1, ServiceInvariant, GenerationsNotClosedInUse, PTL

=============================================================================
