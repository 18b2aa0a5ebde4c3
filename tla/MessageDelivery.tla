--------------------------- MODULE MessageDelivery ---------------------------
(***************************************************************************)
(* Delivery to one messaging platform: the queue and the worker of         *)
(* MessagingRateLimiter (messaging/limiter.py) behind the PlatformOutbox   *)
(* (messaging/platforms/outbox.py).  A call is one send, edit or delete;   *)
(* calls with the same key are edits of one message, and are compacted.    *)
(***************************************************************************)
EXTENDS Sequences, FiniteSets, Integers

CONSTANTS
  Call,        \* calls of the outbox
  KeyOf,       \* the dedup key of each call
  Nobody,      \* no call
  MaxRetries,  \* fire_and_forget(): max_retries
  MaxErrors    \* bound: operations that raise

ASSUME DeliveryAssumption ==
  /\ Nobody \notin Call
  /\ DOMAIN KeyOf = Call
  /\ MaxRetries \in Nat /\ MaxErrors \in Nat

Key == {KeyOf[c] : c \in Call}

VARIABLES
  call,       \* each call: where its caller or its task is, and its attempts
  ticket,     \* the calls the limiter was asked for, in that order
  queue,      \* _queue_list: keys in order
  batch,      \* _queue_map: the newest operation of a key, and who waits for it
  active,     \* what the worker has taken: an operation and _active_futures
  worker,     \* the worker task
  closing,    \* how far the shutdown has come
  shown,      \* the call whose operation the platform performed last, by key
  errors      \* operations that raised so far

delivery == <<queue, batch, active, worker>>
deliveryVars == <<call, ticket, delivery, closing, shown, errors>>

(***************************************************************************)
(* Where a call is:                                                        *)
(*   new        not made                                                   *)
(*   detached   outbox.fire_and_forget() made a task of it, not yet run    *)
(*   scheduled  the limiter's task for it was created, not yet run         *)
(*   waiting    in the queue or with the worker; its future is pending     *)
(*   backoff    fire_and_forget() sleeps before it tries again             *)
(*   done, failed, cancelled                                               *)
(* An awaited call goes from new to waiting at once.                       *)
(***************************************************************************)
Over == {"done", "failed", "cancelled"}

Empty == [func |-> Nobody, waiters |-> {}]
Running == worker \in {"idle", "held", "sending"}
Open == closing = "open"
Accepting == closing \in {"open", "outbox"} /\ Running

DeliveryInit ==
  /\ call = [c \in Call |-> [at |-> "new", awaited |-> FALSE, tries |-> 0]]
  /\ ticket = <<>>
  /\ queue = <<>>
  /\ batch = [k \in Key |-> Empty]
  /\ active = Empty
  /\ worker = "idle"
  /\ closing = "open"
  /\ shown = [k \in Key |-> Nobody]
  /\ errors = 0

Position(c) == CHOOSE i \in DOMAIN ticket : ticket[i] = c
Later(c, d) == Position(c) > Position(d)

Reaches(C, stage) == [c \in Call |-> IF c \in C THEN [call[c] EXCEPT !.at = stage] ELSE call[c]]

-----------------------------------------------------------------------------
(* Making a call. *)

\* _enqueue_internal_multi(): a queued key gets the newer operation and keeps
\* its place and its waiters.
Puts(c) ==
  LET k == KeyOf[c]
  IN  /\ batch' = [batch EXCEPT ![k] = [func |-> c, waiters |-> @.waiters \cup {c}]]
      /\ queue' = IF batch[k].func = Nobody THEN Append(queue, k) ELSE queue

\* outbox.fire_and_forget(queue_edit_message(...)): a task of its own.
Detaches(c) ==
  /\ call[c].at = "new" /\ Open
  /\ call' = Reaches({c}, "detached")
  /\ UNCHANGED <<ticket, delivery, closing, shown, errors>>

\* queue_edit_message() and the like, called or at last run; the limiter makes
\* a task that will wait for the outcome.
Schedules(c) ==
  /\ call[c].at \in {"new", "detached"} /\ Open
  /\ call' = Reaches({c}, "scheduled")
  /\ ticket' = Append(ticket, c)
  /\ UNCHANGED <<delivery, closing, shown, errors>>

\* The same with fire_and_forget=False: the caller waits itself.
Awaits(c) ==
  /\ call[c].at = "new" /\ Open
  /\ call' = [call EXCEPT ![c] = [at |-> "waiting", awaited |-> TRUE, tries |-> 0]]
  /\ ticket' = Append(ticket, c)
  /\ Puts(c)
  /\ UNCHANGED <<active, worker, closing, shown, errors>>

\* A closed outbox raises.
Refuses(c) ==
  /\ call[c].at \in {"new", "detached"} /\ ~Open
  /\ call' = Reaches({c}, "failed")
  /\ UNCHANGED <<ticket, delivery, closing, shown, errors>>

\* enqueue(), in the task of a fire-and-forget call, at first or again; new tasks
\* run in the order they were created.
Enqueues(c) ==
  /\ call[c].at \in {"scheduled", "backoff"}
  /\ call[c].at = "scheduled" =>
       \A d \in Call : call[d].at = "scheduled" => ~Later(c, d)
  /\ IF Accepting
     THEN Puts(c) /\ call' = Reaches({c}, "waiting")
     ELSE call' = Reaches({c}, "failed") /\ UNCHANGED <<batch, queue>>
  /\ UNCHANGED <<ticket, active, worker, closing, shown, errors>>

\* The caller of an awaited call is cancelled; the operation stays queued.
CallerGivesUp(c) ==
  /\ call[c].at = "waiting" /\ call[c].awaited
  /\ call' = Reaches({c}, "cancelled")
  /\ batch' = [k \in Key |-> [batch[k] EXCEPT !.waiters = @ \ {c}]]
  /\ active' = [active EXCEPT !.waiters = @ \ {c}]
  /\ UNCHANGED <<ticket, queue, worker, closing, shown, errors>>

-----------------------------------------------------------------------------
(* The worker. *)

\* Mutant of WorkerTakes: the waiters are left behind with the key.
WorkerTakesOperation ==
  /\ worker = "idle" /\ queue # <<>>
  /\ active' = [batch[Head(queue)] EXCEPT !.waiters = {}]
  /\ batch' = [batch EXCEPT ![Head(queue)] = Empty]
  /\ queue' = Tail(queue)
  /\ worker' = "held"
  /\ UNCHANGED <<call, ticket, closing, shown, errors>>

WorkerTakes ==
  /\ worker = "idle" /\ queue # <<>>
  /\ active' = batch[Head(queue)]
  /\ batch' = [batch EXCEPT ![Head(queue)] = Empty]
  /\ queue' = Tail(queue)
  /\ worker' = "held"
  /\ UNCHANGED <<call, ticket, closing, shown, errors>>

\* A flood pause is over, and the sliding window has room.
WorkerProceeds ==
  /\ worker = "held" /\ closing # "limiter"
  /\ worker' = "sending"
  /\ UNCHANGED <<call, ticket, queue, batch, active, closing, shown, errors>>

Answers(outcome) ==
  /\ worker = "sending" /\ closing # "limiter"
  /\ call' = outcome
  /\ active' = Empty
  /\ worker' = "idle"
  /\ UNCHANGED <<ticket, queue, batch, closing>>

Succeeds ==
  /\ Answers(Reaches(active.waiters, "done"))
  /\ shown' = [shown EXCEPT ![KeyOf[active.func]] = active.func]
  /\ UNCHANGED errors

\* Mutant of Raises: a call that was tried too often is tried again.
RaisesForever(transient) ==
  /\ errors < MaxErrors /\ errors' = errors + 1
  /\ Answers([c \in Call |->
       IF c \notin active.waiters THEN call[c]
       ELSE IF transient /\ ~call[c].awaited
       THEN [call[c] EXCEPT !.at = "backoff"]
       ELSE [call[c] EXCEPT !.at = "failed"]])
  /\ UNCHANGED shown

\* Everyone who waits gets the error; a fire-and-forget call sleeps and tries
\* its own operation again if it looks like a connection problem.
Raises(transient) ==
  /\ errors < MaxErrors /\ errors' = errors + 1
  /\ Answers([c \in Call |->
       IF c \notin active.waiters THEN call[c]
       ELSE IF transient /\ ~call[c].awaited /\ call[c].tries < MaxRetries
       THEN [call[c] EXCEPT !.at = "backoff", !.tries = @ + 1]
       ELSE [call[c] EXCEPT !.at = "failed"]])
  /\ UNCHANGED shown

\* The operation is cancelled from within; the worker goes on, and so do those
\* who wait, with a cancellation that nobody tries again.
OperationCancelled ==
  /\ Answers(Reaches(active.waiters, "cancelled"))
  /\ UNCHANGED <<shown, errors>>

-----------------------------------------------------------------------------
(* Closing: the platform closes its outbox and shuts its limiter down.     *)

\* PlatformOutbox.close(): no more calls; the tasks it made are cancelled.
OutboxCloses ==
  /\ closing = "open"
  /\ closing' = "outbox"
  /\ call' = Reaches({c \in Call : call[c].at = "detached"}, "cancelled")
  /\ UNCHANGED <<ticket, delivery, shown, errors>>

\* shutdown(): the queue is emptied and every future that is not done cancelled.
LimiterCloses ==
  /\ closing = "outbox"
  /\ closing' = "limiter"
  /\ call' = Reaches(active.waiters \cup UNION {batch[k].waiters : k \in Key}, "cancelled")
  /\ queue' = <<>> /\ batch' = [k \in Key |-> Empty]
  /\ active' = [active EXCEPT !.waiters = {}]
  /\ UNCHANGED <<ticket, worker, shown, errors>>

\* The worker task is cancelled where it is, and awaited.
WorkerEnds ==
  /\ closing = "limiter" /\ Running
  /\ worker' = "over"
  /\ active' = Empty
  /\ call' = Reaches(active.waiters, "cancelled")
  /\ UNCHANGED <<ticket, queue, batch, closing, shown, errors>>

\* The tasks of fire-and-forget calls are cancelled and awaited.
BackgroundEnds ==
  /\ closing = "limiter" /\ ~Running
  /\ closing' = "closed"
  /\ call' = Reaches({c \in Call : ~call[c].awaited /\ call[c].at \in {"scheduled", "waiting", "backoff"}},
                     "cancelled")
  /\ UNCHANGED <<ticket, delivery, shown, errors>>

Delivered ==
  /\ closing = "closed" /\ \A c \in Call : call[c].at \in Over
  /\ UNCHANGED deliveryVars

DeliveryNext ==
  \/ \E c \in Call : \/ Detaches(c) \/ Schedules(c) \/ Awaits(c) \/ Refuses(c)
                     \/ Enqueues(c) \/ CallerGivesUp(c)
  \/ WorkerTakes \/ WorkerProceeds \/ Succeeds \/ OperationCancelled
  \/ \E transient \in BOOLEAN : Raises(transient)
  \/ OutboxCloses \/ LimiterCloses \/ WorkerEnds \/ BackgroundEnds \/ Delivered

DeliverySpec == DeliveryInit /\ [][DeliveryNext]_deliveryVars

-----------------------------------------------------------------------------
(* Whoever waits for a delivery has an operation that will answer it, in   *)
(* the queue or with the worker, through compaction and retries; and once  *)
(* the limiter is closed nobody waits, so no handler hangs on a closed     *)
(* platform (limiter.py _enqueue_internal_multi, _worker, shutdown).       *)
EveryWaiterIsServed ==
  /\ \A c \in Call :
       call[c].at = "waiting" <=>
         \/ c \in active.waiters /\ KeyOf[active.func] = KeyOf[c]
         \/ c \in batch[KeyOf[c]].waiters
  /\ \A k \in Key : batch[k].func # Nobody <=> \E i \in DOMAIN queue : queue[i] = k
  /\ closing = "closed" => \A c \in Call : call[c].at \in Over \cup {"new"}

(* What a message shows goes back to an older edit only when that edit was *)
(* retried, or when the newer one was awaited and went to the queue at     *)
(* once: compaction and the single worker keep the others in the order the *)
(* limiter was asked for them (limiter.py _enqueue_internal_multi,         *)
(* fire_and_forget).                                                       *)
EditsGoForward ==
  [][\A k \in Key :
       shown[k] # Nobody /\ shown'[k] # shown[k] /\ ~Later(shown'[k], shown[k])
         => call[shown'[k]].tries > 0 \/ call[shown[k]].awaited]_deliveryVars

=============================================================================
