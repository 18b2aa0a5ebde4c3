----------------------- MODULE ProviderAdmissionProps -----------------------
(***************************************************************************)
(* What provider admission promises.                                       *)
(***************************************************************************)
EXTENDS ProviderAdmission

(* Every variable has its type; nobody queues twice for a slot.            *)
TypeOK ==
  /\ calls \in [Calls -> CallType]
  /\ episode \in EpisodeType \cup {None}
  /\ generation \in Nat
  /\ free \in Nat
  /\ queue \in Seq(Calls)
  /\ \A i, j \in DOMAIN queue : queue[i] = queue[j] => i = j
  /\ \A c \in Calls : calls[c].pc = "queued" <=> \E i \in DOMAIN queue : queue[i] = c

-----------------------------------------------------------------------------
\* The slots a call has to give back: its attempt's, and that of the stream it
\* is recovering.
Holding(c) ==
  {"attempt" : x \in IF calls[c].pc \in {"granted", "upstream", "streaming",
                                         "closing", "abandoning"}
                     THEN {1} ELSE {}}
  \cup {"outer" : x \in IF calls[c].outer THEN {1} ELSE {}}

Held == {h \in Calls \X {"attempt", "outer"} : h[2] \in Holding(h[1])}

(* No slot is lost or given back twice, on whatever path a call leaves     *)
(* (open_attempt, ProviderAttempt.aclose), and none is idle while a call   *)
(* waits for one, unless another has still to take the slot it was granted.*)
SlotsAreConserved ==
  /\ free + Cardinality(Held) = Slots
  /\ queue # <<>> => free = 0 \/ Resuming(Now)

-----------------------------------------------------------------------------
\* A Codex call may lead an episode and end while it asks for its token.
Orphaned ==
  /\ AccessInterrupted
  /\ episode # None /\ episode.leader \in Codex
  /\ calls[episode.leader].pc = "done"

(* The leader of an episode in progress is a call that will still move it: *)
(* with a probe, from its permit to the answer or the abandonment; without *)
(* one, on its way to the gate or asleep at it.  An ended episode has no   *)
(* leader and nobody waits for it (_attempt_failed, _abandon_probe_permit, *)
(* _abandon_waiting_leader).  The one exception is the orphaned leader     *)
(* that LeaderIsLive is about.                                             *)
LeaderWillAct ==
  episode # None =>
    /\ episode.phase # "open" =>
         episode.leader = None /\ ~episode.probing /\ episode.waiters = {}
    /\ episode.leader = None => ~episode.probing
    /\ episode.leader # None /\ ~Orphaned =>
         LET l == calls[episode.leader] IN
         IF episode.probing
         THEN /\ l.permit = [probe |-> TRUE, gen |-> episode.gen]
              /\ \/ l.pc \in {"limiter", "queued", "granted"}
                 \/ l.pc \in {"upstream", "streaming", "closing"} /\ ~l.resolved
                 \/ l.pending
         ELSE \/ l.pc = "backoff" /\ l.permit.gen = episode.gen
              \/ l.pc = "access"
              \/ l.pc = "closing" /\ l.next = "retry"

(* ARCHITECTURE.md:601-602: "leader cancellation transfers ownership to a  *)
(* waiter".  So an episode never belongs to a call that is over.           *)
LeaderIsLive ==
  episode # None /\ episode.leader # None =>
    calls[episode.leader].pc # "done" \/ calls[episode.leader].pending

(* ARCHITECTURE.md:595-597: "the bulkhead is held only while an upstream   *)
(* operation or stream is active, never during retry backoff".  So a call  *)
(* that sleeps at the gate holds no slot.                                  *)
BackoffHoldsNoSlot ==
  \A c \in Calls : calls[c].pc = "backoff" => Holding(c) = {}

-----------------------------------------------------------------------------
(* When an episode ends for want of attempts, every call that waits for it *)
(* or is to wait for it, a failed call on its way to the gate included,    *)
(* shares the outcome (_attempt_failed).                                   *)
CoalescedShareOutcome ==
  [][ episode # None /\ episode.phase = "open" /\ episode' # None
        /\ episode'.gen = episode.gen /\ episode'.phase # "open"
      => \A c \in Calls :
           \/ c \in episode.waiters
           \/ calls[c].pc \in {"waiting", "notified"} /\ calls[c].permit.gen = episode.gen
           => calls'[c].failed ]_vars

(* The outcome stays with the call: it starts no attempt any more, even if *)
(* a later episode starts, and it never turns into the leader of one       *)
(* (_wait_for_gate, ProviderRetrySession._terminal_failure).               *)
FailedStaysOut ==
  [][ \A c \in Calls : calls[c].failed =>
        /\ calls'[c].failed
        /\ calls'[c].attempts = calls[c].attempts
        /\ episode' # None /\ episode'.leader = c => episode # None /\ episode.leader = c
    ]_vars

-----------------------------------------------------------------------------
Circuit ==
  INSTANCE RecoveryCircuit WITH
    mode <- IF episode = None THEN "closed"
            ELSE IF episode.phase # "open" THEN episode.phase
            ELSE IF episode.probing THEN "probing" ELSE "open",
    owner <- IF episode = None THEN None ELSE episode.leader,
    asking <- {c \in Calls : /\ calls[c].pc \in {"upstream", "streaming"}
                            /\ ~calls[c].resolved}

(* The controller implements the circuit breaker: attempts start with no   *)
(* episode in progress or as its leader's probe, whatever happened between *)
(* the permit and the slot; a late answer to another attempt neither       *)
(* closes, nor extends, nor ends an episode; ownership passes from one     *)
(* call to another only through nobody.                                    *)
ImplementsCircuit == Circuit!Spec

-----------------------------------------------------------------------------
\* Every slot is that of a stream under recovery, and each recovery waits for
\* one more, or for a call that does.  Nothing but a cancellation ends this.
SlotsLocked ==
  LET recovering == {c \in Calls : calls[c].outer}
  IN /\ queue # <<>> /\ Cardinality(recovering) = Slots
     /\ \A c \in recovering : calls[c].pc \in {"queued", "waiting"}

(* A call that came ends: the episode it waits for is decided, its probe   *)
(* answered or handed over, its slot granted (acquire, _wait_for_gate,     *)
(* abandon_permit).  There are two exceptions: a leader that is lost as    *)
(* LeaderIsLive is about, which leaves nobody to decide the episode, and   *)
(* as many recoveries as there are slots, each holding the slot of its cut *)
(* stream and waiting for a second one, until the end: the streams wait    *)
(* for one another, and everybody else for them.                           *)
EveryCallEnds ==
  [](~Orphaned) /\ []<>(~SlotsLocked) =>
    \A c \in Calls : calls[c].pc # "idle" ~> calls[c].pc = "done"
=============================================================================
