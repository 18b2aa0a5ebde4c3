-------------------------- MODULE ProviderAdmission --------------------------
(***************************************************************************)
(* One provider's admission controller (providers/admission.py) and the    *)
(* calls that go through it: one-shot operations (run_with_retry), streams *)
(* of the OpenAI-chat providers, which may open a second attempt to recover*)
(* a stream that was cut, and streams of the Codex provider, which ask the *)
(* account for an access token before every attempt.                       *)
(*                                                                         *)
(* Everything runs on one event loop: a call is at a suspension point (pc) *)
(* and an action takes it from there to its next one.  The controller's    *)
(* condition is never held across a suspension, so a block under it is     *)
(* part of the action.  Operators map a state, a record of the variables,  *)
(* to the state the code leaves; an action applies a pipeline of them.     *)
(***************************************************************************)
EXTENDS Naturals, Sequences, FiniteSets

CONSTANTS
  Calls,              \* logical executions, each with its retry session
  Chat, Codex,        \* the calls that are streams of these two providers
  None,               \* the Python None
  MaxAttempts,        \* upstream attempts one session may start
  Slots,              \* max_concurrency
  AccessInterrupted   \* may a call end while it asks for the access token?

ASSUME AdmissionAssumption ==
  /\ Chat \subseteq Calls /\ Codex \subseteq Calls /\ Chat \cap Codex = {}
  /\ None \notin Calls
  /\ MaxAttempts \in Nat \ {0} /\ Slots \in Nat \ {0}
  /\ AccessInterrupted \in BOOLEAN

Streams == Chat \cup Codex

VARIABLES
  calls,        \* what each call is doing
  episode,      \* the recovery episode in progress, or None
  generation,   \* _next_generation
  free,         \* the semaphore's value
  queue         \* the calls waiting for a slot, first come first served

vars == <<calls, episode, generation, free, queue>>

Place == {"idle", "access", "waiting", "notified", "backoff", "limiter",
          "queued", "granted", "upstream", "streaming", "closing",
          "abandoning", "done"}

(***************************************************************************)
(* permit   _GatePermit of the current attempt; its gen is also the        *)
(*          generation a waiting or sleeping call has seen                 *)
(* resolved the attempt's _resolved flag                                   *)
(* failed   the session has a _terminal_error                              *)
(* outer    the call also holds the slot of the cut stream it is recovering*)
(* next     what follows once the attempt is closed                        *)
(* pending  a shielded _attempt_abandoned task has yet to run              *)
(***************************************************************************)
CallType ==
  [pc : Place, attempts : 0..MaxAttempts, failed : BOOLEAN,
   permit : [probe : BOOLEAN, gen : Nat], resolved : BOOLEAN,
   outer : BOOLEAN, next : {"retry", "leave"}, pending : BOOLEAN]

\* phase is "open" while terminal_until is None, then "cooling", and "cooled"
\* once that time is past; ready says that ready_at is.
EpisodeType ==
  [gen : Nat, leader : Calls \cup {None}, ready : BOOLEAN, probing : BOOLEAN,
   waiters : SUBSET Calls, phase : {"open", "cooling", "cooled"}]

ASSUME NoneIsNoEpisode == None \notin EpisodeType

Init ==
  /\ calls = [c \in Calls |->
                [pc |-> "idle", attempts |-> 0, failed |-> FALSE,
                 permit |-> [probe |-> FALSE, gen |-> 0], resolved |-> TRUE,
                 outer |-> FALSE, next |-> "leave", pending |-> FALSE]]
  /\ episode = None
  /\ generation = 1
  /\ free = Slots
  /\ queue = <<>>

Now == [calls |-> calls, episode |-> episode, generation |-> generation,
        free |-> free, queue |-> queue]

Become(s) ==
  /\ calls' = s.calls /\ episode' = s.episode /\ generation' = s.generation
  /\ free' = s.free /\ queue' = s.queue

At(s, c, place) == [s EXCEPT !.calls[c].pc = place]

-----------------------------------------------------------------------------
(* The semaphore, the condition and the episode. *)

\* A call was granted its slot and has not resumed: a newcomer queues behind it.
Resuming(s) == \E c \in Calls : s.calls[c].pc = "granted"

\* A released slot goes to the first call that waits for one.
ReleaseSlot(s) ==
  IF s.queue = <<>>
  THEN [s EXCEPT !.free = @ + 1]
  ELSE [s EXCEPT !.calls[Head(s.queue)].pc = "granted", !.queue = Tail(@)]

\* A call that leaves the queue, with its slot or without, wakes as many as there
\* are slots for: they came while one was granted.
Woken(s) ==
  LET n == IF s.free < Len(s.queue) THEN s.free ELSE Len(s.queue) IN
  [s EXCEPT !.free = @ - n, !.queue = SubSeq(@, n + 1, Len(@)),
            !.calls = [c \in Calls |->
               IF \E i \in 1..n : s.queue[i] = c THEN [@[c] EXCEPT !.pc = "granted"] ELSE @[c]]]

NotifyAll(s) ==
  [s EXCEPT !.calls = [c \in Calls |->
     IF @[c].pc = "waiting" THEN [@[c] EXCEPT !.pc = "notified"] ELSE @[c]]]

StartEpisode(s, leader, ready) ==
  [s EXCEPT
     !.episode = [gen |-> s.generation, leader |-> leader, ready |-> ready,
                  probing |-> FALSE, waiters |-> {}, phase |-> "open"],
     !.generation = @ + 1]

MatchingProbe(s, c) ==
  LET p == s.calls[c].permit IN
  /\ p.probe
  /\ s.episode # None
  /\ s.episode.gen = p.gen /\ s.episode.leader = c /\ s.episode.probing

PermitIsCurrent(s, c) ==
  IF s.calls[c].permit.probe
  THEN MatchingProbe(s, c) /\ s.episode.phase = "open"
  ELSE s.episode = None

-----------------------------------------------------------------------------
(* What an attempt's outcome does to the episode. *)

Rejected(s, c) ==
  IF MatchingProbe(s, c) THEN NotifyAll([s EXCEPT !.episode = None]) ELSE s

\* An attempt that was resolved before reports no success and no correction.
Succeeded(s, c) == IF s.calls[c].resolved THEN s ELSE Rejected(s, c)

Corrected(s, c) ==
  IF ~s.calls[c].resolved /\ MatchingProbe(s, c)
  THEN NotifyAll([s EXCEPT !.episode.probing = FALSE, !.episode.ready = TRUE])
  ELSE s

\* An attempt that ends unanswered, and a permit that is given back unused.
Abandoned(s, c) ==
  IF MatchingProbe(s, c)
  THEN NotifyAll([s EXCEPT !.episode.leader = None, !.episode.probing = FALSE,
                           !.episode.ready = TRUE])
  ELSE s

\* A retryable failure of a session with attempts left: its call leads a new
\* episode, leads on after its failed probe, shares the outcome of an episode
\* that has ended, or waits for the one in progress.
MayRetry(s, c) == s.calls[c].attempts < MaxAttempts

FailedWithAttemptsLeft(s, c) ==
  NotifyAll(
    IF s.episode = None THEN StartEpisode(s, c, FALSE)
    ELSE IF MatchingProbe(s, c)
    THEN [s EXCEPT !.episode.probing = FALSE, !.episode.ready = FALSE]
    ELSE IF s.episode.phase # "open"
    THEN [s EXCEPT !.calls[c].failed = TRUE]
    ELSE [s EXCEPT !.episode.waiters = @ \cup {c}])

\* A retryable failure of the last attempt ends the episode it decides, and
\* starts a cooldown if there is none; the waiters share the outcome.
MutFailedForGood(s, c) ==   \* the waiters are dropped without the outcome
  IF s.episode # None /\ ~MatchingProbe(s, c) THEN s
  ELSE LET t == IF s.episode = None THEN StartEpisode(s, None, TRUE) ELSE s
       IN NotifyAll([t EXCEPT !.episode.leader = None, !.episode.probing = FALSE,
                              !.episode.phase = "cooling",
                              !.episode.waiters = {}])

FailedForGood(s, c) ==
  IF s.episode # None /\ ~MatchingProbe(s, c) THEN s
  ELSE LET t == IF s.episode = None THEN StartEpisode(s, None, TRUE) ELSE s
       IN NotifyAll(
            [t EXCEPT !.episode.leader = None, !.episode.probing = FALSE,
                      !.episode.phase = "cooling", !.episode.waiters = {},
                      !.calls = [w \in Calls |-> [t.calls[w] EXCEPT
                                   !.failed = @ \/ w \in t.episode.waiters]]])

Failed(s, c) ==
  IF MayRetry(s, c) THEN FailedWithAttemptsLeft(s, c) ELSE FailedForGood(s, c)

-----------------------------------------------------------------------------
(* Leaving, the gate, and what follows an attempt. *)

\* The call is over, unless it was recovering a stream that was cut: that
\* stream is still to be closed.
Leave(s, c) ==
  IF s.calls[c].outer
  THEN [s EXCEPT !.calls[c] = [@ EXCEPT !.pc = "closing", !.outer = FALSE,
                                        !.resolved = TRUE, !.next = "leave"]]
  ELSE At(s, c, "done")

Permit(s, c, place, probe, gen) ==
  [s EXCEPT !.calls[c] = [@ EXCEPT !.pc = place,
                                   !.permit = [probe |-> probe, gen |-> gen]]]

\* An open episode that c leads, or may now lead: it probes if the backoff is
\* over, sleeps if it is not, and waits while its own probe is active.
Lead(s, c) ==
  LET e == IF s.episode.leader = c THEN s.episode
           ELSE [s.episode EXCEPT !.leader = c, !.waiters = @ \ {c}]
      t == [s EXCEPT !.episode = e]
  IN  CASE e.probing -> Permit(t, c, "waiting", FALSE, e.gen)
        [] ~e.probing /\ e.ready ->
             Permit([t EXCEPT !.episode.probing = TRUE], c, "limiter", TRUE, e.gen)
        [] OTHER -> Permit(t, c, "backoff", FALSE, e.gen)

\* _wait_for_gate, up to its first suspension.
PassGate(s, c) ==
  LET e == s.episode IN
  IF e = None THEN Permit(s, c, "limiter", FALSE, 0)
  ELSE IF e.phase = "cooling" THEN Leave(s, c)
  ELSE IF e.phase = "cooled" THEN Lead(StartEpisode(s, c, TRUE), c)
  ELSE IF e.leader \in {c, None} THEN Lead(s, c)
  ELSE Permit([s EXCEPT !.episode.waiters = @ \cup {c}], c, "waiting", FALSE, e.gen)

MutGate(s, c) == PassGate(s, c)   \* the terminal error is not looked at

Gate(s, c) == IF s.calls[c].failed THEN Leave(s, c) ELSE PassGate(s, c)

Proceed(s, c, next) ==
  CASE next = "leave" -> Leave(s, c)
    [] next = "retry" /\ c \in Codex -> At(s, c, "access")
    [] OTHER -> Gate(s, c)

\* The finally blocks after an answered attempt: a stream that was opened, and
\* any Codex response, is closed first, which suspends the call.
AfterAnswer(s, c, next) ==
  IF c \in Codex \/ s.calls[c].pc = "streaming"
  THEN [s EXCEPT !.calls[c] = [@ EXCEPT !.pc = "closing", !.resolved = TRUE,
                                        !.next = next]]
  ELSE Proceed(ReleaseSlot([s EXCEPT !.calls[c].resolved = TRUE]), c, next)

-----------------------------------------------------------------------------
(* Coming to the gate and getting past it. *)

Start(c) ==
  /\ calls[c].pc = "idle"
  /\ Become(Proceed(Now, c, "retry"))

AccessGranted(c) ==
  /\ calls[c].pc = "access"
  /\ Become(Gate(Now, c))

\* access() raises (the account was disconnected), or the client goes away
\* while it waits; there is no attempt to close.
AccessEnds(c) ==
  /\ AccessInterrupted
  /\ calls[c].pc = "access"
  /\ Become(At(Now, c, "done"))

Recheck(c) ==
  /\ calls[c].pc = "notified"
  /\ Become(Gate(Now, c))

\* The leader's sleep is over.
Sleeps(c) == episode # None /\ episode.gen = calls[c].permit.gen /\ ~episode.ready

BackoffEnds(c) ==
  /\ calls[c].pc = "backoff"
  /\ ~Sleeps(c)
  /\ IF /\ episode # None /\ episode.gen = calls[c].permit.gen
        /\ episode.phase = "open" /\ episode.leader = c /\ ~episode.probing
     THEN Become(Permit([Now EXCEPT !.episode.probing = TRUE],
                        c, "limiter", TRUE, episode.gen))
     ELSE Become(Gate(Now, c))

Claim(s, c) ==
  [s EXCEPT !.calls[c] = [@ EXCEPT !.pc = "upstream", !.resolved = FALSE,
                                   !.attempts = s.calls[c].attempts + 1]]

\* The sliding window has room: the permit is checked, and a slot is taken or
\* queued for.
LimiterAdmits(c) ==
  /\ calls[c].pc = "limiter"
  /\ IF ~PermitIsCurrent(Now, c) THEN Become(Gate(Abandoned(Now, c), c))
     ELSE IF free > 0 /\ queue = <<>> /\ ~Resuming(Now)
     THEN Become(Claim([Now EXCEPT !.free = @ - 1], c))
     ELSE Become([At(Now, c, "queued") EXCEPT !.queue = Append(@, c)])

MutSlotResumesUnchecked(c) ==   \* the permit is not checked again
  /\ calls[c].pc = "granted"
  /\ Become(Claim(Woken(Now), c))

MutSlotResumesHolding(c) ==   \* the slot of a stale permit is kept
  /\ calls[c].pc = "granted"
  /\ IF PermitIsCurrent(Now, c) THEN Become(Claim(Woken(Now), c))
     ELSE Become(Gate(Abandoned(Woken(Now), c), c))

\* The call got its slot; the permit may have gone stale while it waited.
SlotResumes(c) ==
  /\ calls[c].pc = "granted"
  /\ IF PermitIsCurrent(Now, c) THEN Become(Claim(Woken(Now), c))
     ELSE Become(Gate(Abandoned(ReleaseSlot(Woken(Now)), c), c))

-----------------------------------------------------------------------------
(* Upstream answers. *)

Nexts(c) == IF MayRetry(Now, c) THEN {"retry", "leave"} ELSE {"leave"}

\* A one-shot operation returns its result.
Returns(c) ==
  /\ calls[c].pc = "upstream" /\ c \notin Streams
  /\ Become(AfterAnswer(Succeeded(Now, c), c, "leave"))

StreamOpens(c) ==
  /\ calls[c].pc = "upstream" /\ c \in Streams
  /\ Become(At(Now, c, "streaming"))

\* The request was refused for its shape or its token, and goes out again
\* corrected: retry_immediately.
Corrects(c) ==
  /\ calls[c].pc = "upstream" /\ c \in Streams
  /\ MayRetry(Now, c)
  /\ Become(AfterAnswer(Corrected(Now, c), c, "retry"))

\* An unanswered attempt fails, before or after its stream was opened, with an
\* error that is retryable or not.  Only a recovery may ask again after one that
\* is not: it looks at a refused create call with the rules of a broken stream.
Fails(c) ==
  /\ calls[c].pc \in {"upstream", "streaming"} /\ ~calls[c].resolved
  /\ \/ \E next \in IF calls[c].outer /\ calls[c].pc = "upstream"
                    THEN Nexts(c) ELSE {"leave"} :
          Become(AfterAnswer(Rejected(Now, c), c, next))
     \/ Become(AfterAnswer(Failed(Now, c), c,
                           IF MayRetry(Now, c) THEN "retry" ELSE "leave"))

\* The first event of a stream is the acceptance of the attempt.
FirstEvent(c) ==
  /\ calls[c].pc = "streaming" /\ ~calls[c].resolved
  /\ Become([Succeeded(Now, c) EXCEPT !.calls[c].resolved = TRUE])

\* An accepted stream ends; a recovery may need another one (_repair_tool_args).
StreamEnds(c) ==
  /\ calls[c].pc = "streaming" /\ calls[c].resolved
  /\ \E next \in IF calls[c].outer THEN Nexts(c) ELSE {"leave"} :
       Become(AfterAnswer(Now, c, next))

\* An accepted stream is cut: the call starts over if nothing was sent to the
\* client yet, or gives up.
StreamCut(c) ==
  /\ calls[c].pc = "streaming" /\ calls[c].resolved
  /\ \E next \in Nexts(c) : Become(AfterAnswer(Now, c, next))

\* It is cut with output generated: the call asks upstream for the rest, from
\* within the except block of the stream it has not closed (MIDSTREAM_RECOVERY).
RecoversMidstream(c) ==
  /\ calls[c].pc = "streaming" /\ calls[c].resolved
  /\ c \in Chat /\ ~calls[c].outer
  /\ MayRetry(Now, c)
  /\ Become(Gate([Now EXCEPT !.calls[c].outer = TRUE], c))

\* The stream is closed, and then the attempt.
Closed(c) ==
  /\ calls[c].pc = "closing"
  /\ IF calls[c].resolved
     THEN Become(Proceed(ReleaseSlot(Now), c, calls[c].next))
     ELSE Become([At(Now, c, "abandoning") EXCEPT
                    !.calls[c].pending = calls[c].permit.probe])

-----------------------------------------------------------------------------
(* A call is cancelled: its client went away. *)

MutLeaveQueue(s, c) == At(s, c, "limiter")   \* the waiter is left in the deque

\* The call takes its place in the queue back, and is where it was before.
LeaveQueue(s, c) ==
  LET i == CHOOSE k \in DOMAIN s.queue : s.queue[k] = c IN
  [At(s, c, "limiter") EXCEPT
     !.queue = SubSeq(@, 1, i - 1) \o SubSeq(@, i + 1, Len(@))]

MutCancelInQueue(c) ==   \* the probe permit is not given back
  /\ calls[c].pc = "queued"
  /\ Become(Leave(Woken(LeaveQueue(Now, c)), c))

CancelInQueue(c) ==
  /\ calls[c].pc = "queued"
  /\ Become(Leave(Abandoned(Woken(LeaveQueue(Now, c)), c), c))

\* A follower leaves the waiters of the episode it has seen.
CancelWaiting(c) ==
  /\ calls[c].pc \in {"waiting", "notified"}
  /\ Become(Leave(
       IF episode # None /\ episode.gen = calls[c].permit.gen /\ episode.leader # c
       THEN [Now EXCEPT !.episode.waiters = @ \ {c}] ELSE Now, c))

MutCancelInBackoff(c) ==   \* the episode keeps its leader
  /\ calls[c].pc = "backoff"
  /\ Become(Leave(Now, c))

\* The sleeping leader hands its episode over (_abandon_waiting_leader).
CancelInBackoff(c) ==
  /\ calls[c].pc = "backoff"
  /\ Become(Leave(
       IF /\ episode # None /\ episode.gen = calls[c].permit.gen
          /\ episode.leader = c /\ ~episode.probing
       THEN NotifyAll([Now EXCEPT !.episode.leader = None]) ELSE Now, c))

CancelInLimiter(c) ==
  /\ calls[c].pc = "limiter"
  /\ Become(Leave(Abandoned(Now, c), c))

\* The slot was granted but the call has not resumed: the semaphore passes it on.
CancelGranted(c) ==
  /\ calls[c].pc = "granted"
  /\ Become(Leave(Abandoned(ReleaseSlot(Woken(Now)), c), c))

\* The attempt is closed unanswered: a shielded task gives its probe back.
CancelUpstream(c) ==
  /\ calls[c].pc = "upstream"
  /\ Become([At(Now, c, "abandoning") EXCEPT
                !.calls[c].pending = calls[c].permit.probe])

CancelStreaming(c) ==
  /\ calls[c].pc = "streaming"
  /\ Become([At(Now, c, "closing") EXCEPT !.calls[c].next = "leave"])

AbandonRuns(c) ==
  /\ calls[c].pending
  /\ Become(Abandoned([Now EXCEPT !.calls[c].pending = FALSE], c))

\* The call resumes, after the shielded task or, cancelled again, before it.
AbandonedLeaves(c) ==
  /\ calls[c].pc = "abandoning"
  /\ Become(Leave(ReleaseSlot(Now), c))

Cancel(c) ==
  \/ CancelWaiting(c) \/ CancelInBackoff(c) \/ CancelInLimiter(c)
  \/ CancelInQueue(c) \/ CancelGranted(c)
  \/ CancelUpstream(c) \/ CancelStreaming(c)

-----------------------------------------------------------------------------
(* Time. *)

BackoffElapses ==
  /\ episode # None /\ ~episode.ready
  /\ episode' = [episode EXCEPT !.ready = TRUE]
  /\ UNCHANGED <<calls, generation, free, queue>>

CooldownElapses ==
  /\ episode # None /\ episode.phase = "cooling"
  /\ episode' = [episode EXCEPT !.phase = "cooled"]
  /\ UNCHANGED <<calls, generation, free, queue>>

-----------------------------------------------------------------------------
\* The steps of a call that is not disturbed.
Advance(c) ==
  \/ AccessGranted(c) \/ Recheck(c) \/ BackoffEnds(c)
  \/ LimiterAdmits(c) \/ SlotResumes(c)
  \/ Returns(c) \/ StreamOpens(c) \/ Corrects(c) \/ Fails(c)
  \/ FirstEvent(c) \/ StreamEnds(c) \/ StreamCut(c) \/ RecoversMidstream(c)
  \/ Closed(c) \/ AbandonRuns(c) \/ AbandonedLeaves(c)

Next ==
  \/ \E c \in Calls : Start(c) \/ Advance(c) \/ AccessEnds(c) \/ Cancel(c)
  \/ BackoffElapses
  \/ CooldownElapses

Spec == Init /\ [][Next]_vars

\* The event loop runs every call that can run; upstream answers or times out,
\* streams end, the sliding window moves on and sleeps are finite.  Nobody has
\* to come, to leave or to fail.
FairSpec ==
  /\ Spec
  /\ \A c \in Calls : WF_vars(Advance(c))
  /\ WF_vars(BackoffElapses)
  /\ WF_vars(CooldownElapses)
=============================================================================
