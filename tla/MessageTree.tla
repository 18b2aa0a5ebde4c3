---------------------------- MODULE MessageTree ----------------------------
(***************************************************************************)
(* The aggregate of one messaging conversation tree:                       *)
(* messaging/trees/runtime.py (MessageTree), graph.py, node.py, queue.py.  *)
(*                                                                         *)
(* Every public method of the Python class runs under the tree's lock and  *)
(* never suspends inside it, so a method is one operator from a tree to    *)
(* the tree it leaves behind.  TreeQueue composes the operators into the   *)
(* actions of the queue manager.                                           *)
(***************************************************************************)
EXTENDS Naturals, FiniteSets

CONSTANTS
  Message,  \* platform ids of the prompts users send
  None      \* the Python None

\* A platform message that can be replied to: a prompt, or the status message
\* FCC posts as the answer to that prompt.
Ref == Message \X {"prompt", "status"}
Prompt(m) == <<m, "prompt">>
Status(m) == <<m, "status">>
Owner(r) == r[1]

ASSUME MessageAssumption == IsFiniteSet(Message) /\ None \notin Message \cup Ref

Runnable == {"pending", "in_progress"}
NodeState == Runnable \cup {"absent", "completed", "error"}

(***************************************************************************)
(* A tree.  A node is absent until it is added and after it is removed.    *)
(* position[m] is the place of m in the FIFO queue, 0 outside of it.       *)
(* active is the id of the claim being executed (0 for None), claimed the  *)
(* node it was made for, and cancelled its cancellation_requested flag.    *)
(* session[m] is the claim whose CLI run recorded m's session, 0 for none. *)
(***************************************************************************)
TreeType ==
  [root : Message,
   state : [Message -> NodeState],
   reference : [Message -> Ref \cup {None}],
   answered : SUBSET Message,
   session : [Message -> Nat],
   position : [Message -> Nat],
   active : Nat,
   claimed : Message,
   cancelled : BOOLEAN]

ASSUME NoneIsNoTree == None \notin TreeType

Present(t) == {m \in Message : t.state[m] # "absent"}
Queued(t) == {m \in Message : t.position[m] > 0}

\* The references a reply can be resolved against.
LiveRefs(t) ==
  {r \in Ref : /\ Owner(r) \in Present(t)
               /\ r[2] = "status" => Owner(r) \in t.answered}

-----------------------------------------------------------------------------
(* The FIFO queue, MessageNodeQueue. *)

EmptyQueue == [m \in Message |-> 0]

\* Mutant of Put: queueing an item again moves it to the back.
PutAgain(q, m) == [q EXCEPT ![m] = Cardinality({k \in Message : q[k] > 0}) + 1]

\* put(): an item already queued keeps its place.
Put(q, m) ==
  IF q[m] > 0 THEN q
  ELSE [q EXCEPT ![m] = Cardinality({k \in Message : q[k] > 0}) + 1]

\* remove(), for each item of S: the others close ranks in their order.
Without(q, S) ==
  [m \in Message |->
     IF q[m] = 0 \/ m \in S THEN 0
     ELSE Cardinality({k \in Message \ S : q[k] > 0 /\ q[k] <= q[m]})]

\* The member of S nearest the front of the queue.
First(q, S) == CHOOSE m \in S : \A k \in S : q[m] <= q[k]

-----------------------------------------------------------------------------
(* The graph, MessageTreeGraph. *)

ParentSession(t, m) ==
  IF t.reference[m] = None THEN 0 ELSE t.session[Owner(t.reference[m])]

\* get_descendants(): the node and everything below it, by logical parent.
Descendants(t, m) ==
  LET closed == {S \in SUBSET Present(t) :
                   /\ m \in S
                   /\ \A k \in Present(t) :
                        (t.reference[k] # None /\ Owner(t.reference[k]) \in S)
                          => k \in S}
  IN  {k \in Present(t) : \A S \in closed : k \in S}

\* get_reference_descendants(): the literal reply subtree of a live reference.
\* A prompt hangs below the message it replied to, a live status below its prompt.
\* First the prompts of the subtree, then all its messages.
RemovedNodes(t, r) ==
  LET present == Present(t)
      anchored == {k \in present : t.reference[k] \in LiveRefs(t)}
      closed == {S \in SUBSET present :
                   \A k \in present :
                     \/ Prompt(k) = r
                     \/ t.reference[k] = r
                     \/ k \in anchored /\ Owner(t.reference[k]) \in S
                     => k \in S}
  IN  {m \in present : \A S \in closed : m \in S}

\* Mutant of ReplySubtree: the status messages of the removed prompts are left out.
ReplySubtreePrompts(t, r) == {r} \cup {Prompt(m) : m \in RemovedNodes(t, r)}

ReplySubtree(t, r) ==
  LET removed == RemovedNodes(t, r)
  IN  {x \in LiveRefs(t) : x = r \/ Owner(x) \in removed}

-----------------------------------------------------------------------------
(* Admission and claims. *)

NewTree(m) ==
  [root |-> m,
   state |-> [k \in Message |-> IF k = m THEN "pending" ELSE "absent"],
   reference |-> [k \in Message |-> None],
   answered |-> {m},
   session |-> [k \in Message |-> 0],
   position |-> EmptyQueue,
   active |-> 0, claimed |-> m, cancelled |-> FALSE]

AddNode(t, m, r) ==
  [t EXCEPT !.state[m] = "pending",
            !.reference[m] = r,
            !.answered = @ \cup {m},
            !.session[m] = 0]

ClaimNode(t, m, c) ==
  [t EXCEPT !.state[m] = "in_progress",
            !.active = c, !.claimed = m, !.cancelled = FALSE]

\* Mutant of EnqueueOrClaim: a reply starts as soon as its parent has a session.
EnqueueOrClaimEagerly(t, m, c) ==
  IF t.state[m] # "pending" THEN t
  ELSE IF t.active = 0 \/ ParentSession(t, m) # 0 THEN ClaimNode(t, m, c)
  ELSE [t EXCEPT !.position = Put(@, m)]

\* _enqueue_or_claim(), with c the id a new claim would get.
EnqueueOrClaim(t, m, c) ==
  IF t.state[m] # "pending" THEN t
  ELSE IF t.active = 0 THEN ClaimNode(t, m, c)
  ELSE [t EXCEPT !.position = Put(@, m)]

\* Mutant of FinishAndClaimNext: the claim is released and the queue left to the
\* next admission.
FinishOnly(t, c, next) ==
  IF t.active # c THEN t ELSE [t EXCEPT !.active = 0, !.cancelled = FALSE]

\* finish_and_claim_next(): release claim c only if it is the active one, then
\* pop up to the first node that is still pending.
FinishAndClaimNext(t, c, next) ==
  LET waiting == {m \in Queued(t) : t.state[m] = "pending"}
      m == First(t.position, waiting)
      popped == {m} \cup {k \in Queued(t) : t.position[k] < t.position[m]}
  IN  IF t.active # c THEN t
      ELSE IF waiting = {}
      THEN [t EXCEPT !.active = 0, !.cancelled = FALSE, !.position = EmptyQueue]
      ELSE ClaimNode([t EXCEPT !.position = Without(@, popped)], m, next)

-----------------------------------------------------------------------------
(* Cancellation and removal.  _ui_target() raises ValueError for a node    *)
(* whose status message is gone, so each operation has a Raises guard.     *)

Cancel(t, S) ==
  [t EXCEPT !.state = [m \in Message |->
               IF m \in S /\ @[m] \in Runnable THEN "error" ELSE @[m]],
            !.position = Without(@, S),
            !.cancelled = @ \/ (t.active # 0 /\ t.claimed \in S)]

\* The active node is already an error and its status was cleared: an
\* operation that reports it as cancelled raises.
Unreportable(t) ==
  /\ t.active # 0
  /\ t.state[t.claimed] = "error"
  /\ t.claimed \notin t.answered

CancelNode(t, m) == Cancel(t, {m})

CancelAll(t) == Cancel(t, Message)

\* A reply-clear cancels the nodes it deletes; clearing a status also cancels the
\* prompt that owns it, and keeps it.
AffectedNodes(t, r) ==
  RemovedNodes(t, r) \cup (IF r[2] = "status" THEN {Owner(r)} ELSE {})

ClearStatus(t, m) ==
  [t EXCEPT !.state[m] = "error", !.answered = @ \ {m}, !.session[m] = 0]

RemoveNodes(t, S) ==
  [t EXCEPT !.state = [m \in Message |-> IF m \in S THEN "absent" ELSE @[m]],
            !.reference = [m \in Message |-> IF m \in S THEN None ELSE @[m]],
            !.answered = @ \ S,
            !.session = [m \in Message |-> IF m \in S THEN 0 ELSE @[m]]]

RemoveSubtree(t, r) ==
  LET cancelled == Cancel(t, AffectedNodes(t, r))
      removed == RemovedNodes(t, r)
  IN  RemoveNodes(IF r[2] = "status" THEN ClearStatus(cancelled, Owner(r))
                  ELSE cancelled, removed)

-----------------------------------------------------------------------------
(* Outcomes reported by the runner that holds claim c. *)

Owns(t, c) == t.active = c /\ ~t.cancelled

RecordSession(t, c) ==
  IF Owns(t, c) /\ t.state[t.claimed] = "in_progress"
  THEN [t EXCEPT !.session[t.claimed] = c] ELSE t

\* captured tells whether the runner learned a real session id.
CompleteClaim(t, c, captured) ==
  IF Owns(t, c) /\ t.state[t.claimed] \in {"in_progress", "error"}
  THEN [t EXCEPT !.state[t.claimed] = "completed",
                 !.session[t.claimed] = IF captured THEN c ELSE @]
  ELSE t

\* The nodes fail_claim() turns into errors.
Failed(t, c, propagate) ==
  IF ~Owns(t, c) \/ t.state[t.claimed] \in {"absent", "completed"} THEN {}
  ELSE {t.claimed} \cup
       (IF propagate
        THEN {m \in Descendants(t, t.claimed) : t.state[m] = "pending"} ELSE {})

\* Mutant of FailClaim: failed descendants stay in the queue.
FailClaimKeepsQueue(t, c, propagate) ==
  LET failed == Failed(t, c, propagate)
  IN  [t EXCEPT !.state = [m \in Message |-> IF m \in failed THEN "error" ELSE @[m]]]

FailClaim(t, c, propagate) ==
  LET failed == Failed(t, c, propagate)
  IN  [t EXCEPT !.state = [m \in Message |-> IF m \in failed THEN "error" ELSE @[m]],
                !.position = Without(@, failed)]

-----------------------------------------------------------------------------
(* Consistency of a tree.                                                  *)

(* A node waits exactly while it is in the queue, the queue is only        *)
(* non-empty while a claim executes, and only the claimed node is in       *)
(* progress: no prompt is lost between being queued and being claimed      *)
(* (runtime.py _enqueue_or_claim, finish_and_claim_next, cancel_node).     *)
QueueIsPending(t) == \A m \in Message : t.position[m] > 0 <=> t.state[m] = "pending"
QueueHasOwner(t) == Queued(t) # {} => t.active # 0
OneInProgress(t) ==
  \A m \in Message :
    t.state[m] = "in_progress" => t.active # 0 /\ t.claimed = m /\ ~t.cancelled
ClaimIsEntered(t) ==
  t.active # 0 /\ ~t.cancelled =>
    t.claimed \in t.answered /\ t.state[t.claimed] \notin {"absent", "pending"}

(* A node that can still run has a status message to report in, and one    *)
(* whose status was cleared is an error without a session to resume        *)
(* (runtime.py _ui_target, node.py clear_status).                          *)
RunnableIsAnswered(t) ==
  \A m \in Message : t.state[m] \in Runnable => m \in t.answered
ClearedIsOver(t) ==
  \A m \in Present(t) \ t.answered : t.state[m] = "error" /\ t.session[m] = 0

(* A reply's reference is alive while the reply is: clearing a message     *)
(* takes everything below it (graph.py get_reference_descendants).         *)
RepliesAreAnchored(t) ==
  \A m \in Present(t) : t.reference[m] # None => t.reference[m] \in LiveRefs(t)

(* Replies form a tree: every group of replies hangs below a message       *)
(* outside of it, so a clear of the root takes the whole conversation      *)
(* (graph.py add_node, get_descendants).                                   *)
RepliesAreRooted(t) ==
  \A S \in SUBSET (Present(t) \ {t.root}) :
    S # {} => \E m \in S : t.reference[m] # None /\ Owner(t.reference[m]) \notin S

TreeConsistent(t) ==
  /\ QueueIsPending(t) /\ QueueHasOwner(t) /\ OneInProgress(t) /\ ClaimIsEntered(t)
  /\ RunnableIsAnswered(t) /\ ClearedIsOver(t)
  /\ RepliesAreAnchored(t) /\ RepliesAreRooted(t)
=============================================================================
