-------------------------- MODULE TreeQueueProofs --------------------------
(***************************************************************************)
(* The tree queue keeps its promises for any number of messages, chats,    *)
(* trees and admissions: IInv is an inductive invariant of Spec.  First    *)
(* the tree aggregate: every operation of it keeps a tree consistent.      *)
(***************************************************************************)
EXTENDS TreeQueueProps, FiniteSetTheorems, WellFoundedInduction, TLAPS

ConsistentTree(t) == t \in TreeType /\ TreeConsistent(t)

-----------------------------------------------------------------------------
(* Queue positions. *)

(* A set of naturals has a least element: the queue has a front.           *)
LEMMA LeastNatural ==
  ASSUME NEW S \in SUBSET Nat, S # {}
  PROVE  \E x \in S : \A y \in S : x <= y
<1>1. \E x \in S : \A y \in S : ~ (<<y, x>> \in OpToRel(<, Nat))
  BY NatLessThanWellFounded, WFMin
<1>2. QED
  <2>1. PICK x \in S : \A y \in S : ~ (<<y, x>> \in OpToRel(<, Nat))
    BY <1>1, Zenon
  <2>2. \A y \in S : ~ (y < x)
    BY <2>1, Zenon DEF OpToRel
  <2>3. QED
    BY <2>2

(* popleft() returns the node that waits nearest the front.                *)
LEMMA FirstIsFront ==
  ASSUME NEW q \in [Message -> Nat], NEW S \in SUBSET Message, S # {}
  PROVE  First(q, S) \in S /\ \A k \in S : q[First(q, S)] <= q[k]
<1> DEFINE places == {q[k] : k \in S}
<1>1. \E x \in places : \A y \in places : x <= y
  <2>1. places \in SUBSET Nat /\ places # {}
    OBVIOUS
  <2>2. QED
    BY <2>1, LeastNatural
<1>2. \E m \in S : \A k \in S : q[m] <= q[k]
  BY <1>1
<1>3. QED
  BY <1>2 DEF First

(* Removing nodes from the queue removes exactly those (queue.py remove).  *)
LEMMA WithoutRemoves ==
  ASSUME NEW q \in [Message -> Nat], NEW S \in SUBSET Message
  PROVE  /\ Without(q, S) \in [Message -> Nat]
         /\ \A m \in Message : Without(q, S)[m] > 0 <=> (q[m] > 0 /\ m \notin S)
<1> DEFINE upTo(m) == {k \in Message \ S : q[k] > 0 /\ q[k] <= q[m]}
<1>1. \A m \in Message : Cardinality(upTo(m)) \in Nat /\ IsFiniteSet(upTo(m))
  BY MessageAssumption, FS_Subset, FS_CardinalityType
<1>2. \A m \in Message \ S : q[m] > 0 => Cardinality(upTo(m)) > 0
  <2>1. SUFFICES ASSUME NEW m \in Message \ S, q[m] > 0
                 PROVE  Cardinality(upTo(m)) # 0
    BY <1>1
  <2>2. m \in upTo(m)
    BY <2>1
  <2>3. QED
    BY <2>2, <1>1, FS_EmptySet
<1>3. \A m \in Message : Without(q, S)[m] = IF q[m] = 0 \/ m \in S THEN 0 ELSE Cardinality(upTo(m))
  BY DEF Without
<1>4. Without(q, S) \in [Message -> Nat]
  BY <1>1 DEF Without
<1>5. QED
  <2> HIDE DEF upTo
  <2> QED BY <1>1, <1>2, <1>3, <1>4

(* Queueing a node queues it and leaves the others queued (queue.py put).  *)
LEMMA PutQueues ==
  ASSUME NEW q \in [Message -> Nat], NEW m \in Message
  PROVE  /\ Put(q, m) \in [Message -> Nat]
         /\ \A k \in Message : Put(q, m)[k] > 0 <=> (q[k] > 0 \/ k = m)
<1>1. Cardinality({k \in Message : q[k] > 0}) \in Nat
  BY MessageAssumption, FS_Subset, FS_CardinalityType
<1>2. QED
  BY <1>1 DEF Put

-----------------------------------------------------------------------------
(* u is t after an operation that keeps its claim and its messages and     *)
(* makes no node runnable that was not.                                    *)
Calms(t, u) ==
  /\ u.root = t.root /\ u.active = t.active /\ u.claimed = t.claimed
  /\ u.answered = t.answered /\ u.reference = t.reference
  /\ t.cancelled => u.cancelled
  /\ \A m \in Message :
       /\ u.state[m] = "absent" <=> t.state[m] = "absent"
       /\ u.state[m] \in Runnable => u.state[m] = t.state[m]
       /\ u.session[m] = t.session[m] \/ (m = t.claimed /\ u.session[m] = t.active)

(* Such an operation changes neither the nodes nor the references a reply  *)
(* can be resolved against.                                                *)
LEMMA CalmsKeepsRefs ==
  ASSUME NEW t \in TreeType, NEW u \in TreeType, Calms(t, u)
  PROVE  /\ Present(u) = Present(t) /\ LiveRefs(u) = LiveRefs(t)
         /\ RepliesAreAnchored(t) => RepliesAreAnchored(u)
         /\ RepliesAreRooted(t) => RepliesAreRooted(u)
<1>1. Present(u) = Present(t)
  BY DEF Calms, Present
<1>2. LiveRefs(u) = LiveRefs(t)
  BY <1>1 DEF Calms, LiveRefs
<1>3. QED
  BY <1>1, <1>2 DEF Calms, RepliesAreAnchored, RepliesAreRooted

(* What cancelling the nodes of S does to each part of a tree.             *)
LEMMA CancelEffect ==
  ASSUME NEW t \in TreeType, NEW S \in SUBSET Message
  PROVE  LET u == Cancel(t, S)
         IN  /\ u \in TreeType
             /\ u.root = t.root /\ u.active = t.active /\ u.claimed = t.claimed
             /\ u.answered = t.answered /\ u.reference = t.reference
             /\ u.session = t.session
             /\ u.cancelled = (t.cancelled \/ (t.active # 0 /\ t.claimed \in S))
             /\ \A m \in Message :
                  /\ u.state[m] = IF m \in S /\ t.state[m] \in Runnable
                                  THEN "error" ELSE t.state[m]
                  /\ u.position[m] > 0 <=> (t.position[m] > 0 /\ m \notin S)
<1>1. t.position \in [Message -> Nat]
  BY DEF TreeType
<1>2. Without(t.position, S) \in [Message -> Nat]
  BY <1>1, WithoutRemoves
<1>3. \A m \in Message : Without(t.position, S)[m] > 0 <=> (t.position[m] > 0 /\ m \notin S)
  BY <1>1, WithoutRemoves
<1>4. QED
  BY <1>2, <1>3 DEF Cancel, TreeType, NodeState, Runnable

(* Cancelling any set of nodes keeps the tree consistent (runtime.py       *)
(* cancel_node, cancel_all).                                               *)
LEMMA CancelConsistent ==
  ASSUME NEW t, ConsistentTree(t), NEW S \in SUBSET Message
  PROVE  ConsistentTree(Cancel(t, S)) /\ Calms(t, Cancel(t, S))
<1> DEFINE u == Cancel(t, S)
<1>1. t \in TreeType /\ TreeConsistent(t)
  BY DEF ConsistentTree
<1>2. /\ u \in TreeType
      /\ u.root = t.root /\ u.active = t.active /\ u.claimed = t.claimed
      /\ u.answered = t.answered /\ u.reference = t.reference
      /\ u.session = t.session
      /\ u.cancelled = (t.cancelled \/ (t.active # 0 /\ t.claimed \in S))
      /\ \A m \in Message :
           /\ u.state[m] = IF m \in S /\ t.state[m] \in Runnable
                           THEN "error" ELSE t.state[m]
           /\ u.position[m] > 0 <=> (t.position[m] > 0 /\ m \notin S)
  BY <1>1, CancelEffect
<1> HIDE DEF u
<1>3. Calms(t, u)
  BY <1>2 DEF Calms, Runnable
<1>4. Present(u) = Present(t) /\ LiveRefs(u) = LiveRefs(t)
  BY <1>1, <1>2, <1>3, CalmsKeepsRefs
<1>5. t.claimed \in Message
  BY <1>1 DEF TreeType
<1>6. QueueIsPending(u)
  BY <1>1, <1>2 DEF TreeConsistent, QueueIsPending, Runnable
<1>7. QueueHasOwner(u)
  BY <1>1, <1>2 DEF TreeConsistent, QueueHasOwner, Queued
<1>8. OneInProgress(u) /\ ClaimIsEntered(u)
  BY ZenonT(30), <1>1, <1>2, <1>5 DEF TreeConsistent, OneInProgress, ClaimIsEntered, Runnable
<1>9. RunnableIsAnswered(u) /\ ClearedIsOver(u)
  BY <1>1, <1>2, <1>4 DEF TreeConsistent, RunnableIsAnswered, ClearedIsOver, Present, Runnable
<1>10. RepliesAreAnchored(u) /\ RepliesAreRooted(u)
  BY <1>1, <1>2, <1>3, CalmsKeepsRefs DEF TreeConsistent
<1>11. QED
  BY <1>2, <1>3, <1>6, <1>7, <1>8, <1>9, <1>10 DEF u, ConsistentTree, TreeConsistent

(* Cancelling everything leaves nothing that can run, and a cancelled claim *)
(* if the tree had one (runtime.py cancel_all).                            *)
LEMMA CancelAllQuiets ==
  ASSUME NEW t, ConsistentTree(t)
  PROVE  LET u == CancelAll(t)
         IN  /\ ConsistentTree(u) /\ Calms(t, u) /\ u.session = t.session
             /\ u.active # 0 => u.cancelled
             /\ \A m \in Message : u.state[m] \notin Runnable
<1> DEFINE u == CancelAll(t)
<1>1. t \in TreeType /\ t.claimed \in Message
  BY DEF ConsistentTree, TreeType
<1>2. /\ u.active = t.active /\ u.session = t.session
      /\ u.cancelled = (t.cancelled \/ (t.active # 0 /\ t.claimed \in Message))
      /\ \A m \in Message : u.state[m] = IF m \in Message /\ t.state[m] \in Runnable
                                         THEN "error" ELSE t.state[m]
  BY <1>1, CancelEffect DEF CancelAll
<1>3. ConsistentTree(u) /\ Calms(t, u)
  BY CancelConsistent DEF CancelAll
<1> HIDE DEF u
<1>4. u.active # 0 => u.cancelled
  BY <1>1, <1>2
<1>5. \A m \in Message : u.state[m] \notin Runnable
  BY <1>2 DEF Runnable
<1>6. QED
  BY <1>2, <1>3, <1>4, <1>5 DEF u

-----------------------------------------------------------------------------
(* Recording a session keeps the tree consistent (runtime.py record_session). *)
LEMMA RecordSessionConsistent ==
  ASSUME NEW t, ConsistentTree(t), NEW c \in Nat
  PROVE  LET u == RecordSession(t, c)
         IN  ConsistentTree(u) /\ Calms(t, u) /\ u.cancelled = t.cancelled /\ u.state = t.state
<1> DEFINE u == RecordSession(t, c)
<1>1. t \in TreeType /\ TreeConsistent(t)
  BY DEF ConsistentTree
<1>2. CASE ~(Owns(t, c) /\ t.state[t.claimed] = "in_progress")
  BY <1>1, <1>2 DEF RecordSession, ConsistentTree, Calms
<1>3. CASE Owns(t, c) /\ t.state[t.claimed] = "in_progress"
  <2>1. /\ u \in TreeType
        /\ u = [t EXCEPT !.session[t.claimed] = c]
    BY <1>1, <1>3 DEF RecordSession, TreeType
  <2>2. /\ u.root = t.root /\ u.active = t.active /\ u.claimed = t.claimed
        /\ u.answered = t.answered /\ u.reference = t.reference
        /\ u.state = t.state /\ u.position = t.position /\ u.cancelled = t.cancelled
        /\ u.session[t.claimed] = c
        /\ \A m \in Message : m # t.claimed => u.session[m] = t.session[m]
    BY <1>1, <2>1 DEF TreeType
  <2> HIDE DEF u
  <2>3. Calms(t, u)
    BY <1>3, <2>2 DEF Calms, Owns
  <2>4. Present(u) = Present(t) /\ LiveRefs(u) = LiveRefs(t)
    BY <1>1, <2>1, <2>3, CalmsKeepsRefs
  <2>5. QueueIsPending(u) /\ QueueHasOwner(u) /\ OneInProgress(u) /\ ClaimIsEntered(u)
    BY <1>1, <2>2 DEF TreeConsistent, QueueIsPending, QueueHasOwner, Queued,
       OneInProgress, ClaimIsEntered
  <2>6. RunnableIsAnswered(u) /\ RepliesAreAnchored(u) /\ RepliesAreRooted(u)
    BY <1>1, <2>1, <2>2, <2>3, CalmsKeepsRefs DEF TreeConsistent, RunnableIsAnswered
  <2>7. ClearedIsOver(u)
    BY <1>1, <1>3, <2>2, <2>4 DEF TreeConsistent, ClearedIsOver, Present
  <2>8. QED
    BY <2>1, <2>2, <2>3, <2>5, <2>6, <2>7 DEF u, ConsistentTree, TreeConsistent
<1>4. QED
  BY <1>2, <1>3

(* Completing a claim keeps the tree consistent, and leaves nothing in     *)
(* progress once the claim's owner has reported (runtime.py complete_claim). *)
LEMMA CompleteClaimConsistent ==
  ASSUME NEW t, ConsistentTree(t), NEW c \in Nat \ {0}, NEW captured \in BOOLEAN
  PROVE  LET u == CompleteClaim(t, c, captured)
         IN  /\ ConsistentTree(u) /\ Calms(t, u) /\ u.cancelled = t.cancelled
             /\ t.active = c => u.state[u.claimed] # "in_progress"
<1> DEFINE u == CompleteClaim(t, c, captured)
<1>1. t \in TreeType /\ TreeConsistent(t) /\ t.claimed \in Message
  BY DEF ConsistentTree, TreeType
<1>2. CASE ~(Owns(t, c) /\ t.state[t.claimed] \in {"in_progress", "error"})
  <2>1. u = t
    BY <1>2 DEF CompleteClaim
  <2>2. t.active = c => t.state[t.claimed] # "in_progress"
    BY <1>1, <1>2 DEF Owns, TreeConsistent, OneInProgress
  <2>3. QED
    BY <2>1, <2>2 DEF Calms
<1>3. CASE Owns(t, c) /\ t.state[t.claimed] \in {"in_progress", "error"}
  <2> DEFINE state == [t.state EXCEPT ![t.claimed] = "completed"]
             id == IF captured THEN c ELSE t.session[t.claimed]
             session == [t.session EXCEPT ![t.claimed] = id]
  <2>0. state \in [Message -> NodeState] /\ session \in [Message -> Nat]
    BY <1>1 DEF TreeType, NodeState
  <2>1. u = [t EXCEPT !.state = state, !.session = session]
    BY <1>1, <1>3 DEF CompleteClaim, TreeType
  <2>a. /\ state[t.claimed] = "completed"
        /\ session[t.claimed] \in {t.session[t.claimed], c}
        /\ \A m \in Message \ {t.claimed} :
             session[m] = t.session[m] /\ state[m] = t.state[m]
    BY <1>1 DEF TreeType
  <2> HIDE DEF u, state, session
  <2>2. /\ u \in TreeType
        /\ u.root = t.root /\ u.active = t.active /\ u.claimed = t.claimed
        /\ u.answered = t.answered /\ u.reference = t.reference
        /\ u.position = t.position /\ u.cancelled = t.cancelled
        /\ u.state[t.claimed] = "completed"
        /\ u.session[t.claimed] \in {t.session[t.claimed], c}
        /\ \A m \in Message \ {t.claimed} :
             u.session[m] = t.session[m] /\ u.state[m] = t.state[m]
    BY <1>1, <2>0, <2>1, <2>a DEF TreeType
  <2>3. Calms(t, u)
    BY <1>1, <1>3, <2>2 DEF Calms, Runnable, Owns
  <2>4. Present(u) = Present(t) /\ LiveRefs(u) = LiveRefs(t)
    BY <1>1, <2>2, <2>3, CalmsKeepsRefs
  <2>5. t.claimed \in t.answered
    BY <1>1, <1>3 DEF Owns, TreeConsistent, ClaimIsEntered
  <2>6. QueueIsPending(u) /\ QueueHasOwner(u) /\ OneInProgress(u) /\ ClaimIsEntered(u)
    BY <1>1, <1>3, <2>2 DEF TreeConsistent, QueueIsPending, QueueHasOwner, Queued,
       OneInProgress, ClaimIsEntered
  <2>7. RunnableIsAnswered(u) /\ RepliesAreAnchored(u) /\ RepliesAreRooted(u)
    BY <1>1, <2>2, <2>3, CalmsKeepsRefs DEF Calms, TreeConsistent, RunnableIsAnswered
  <2>8. ClearedIsOver(u)
    BY <1>1, <1>3, <2>2, <2>4, <2>5 DEF TreeConsistent, ClearedIsOver, Present
  <2>9. QED
    BY <2>2, <2>3, <2>6, <2>7, <2>8 DEF u, ConsistentTree, TreeConsistent
<1>4. QED
  BY <1>2, <1>3

(* Failing a claim, with or without the nodes that wait for it, keeps the  *)
(* tree consistent and leaves nothing in progress (runtime.py fail_claim). *)
LEMMA FailClaimConsistent ==
  ASSUME NEW t, ConsistentTree(t), NEW c \in Nat \ {0}, NEW propagate \in BOOLEAN
  PROVE  LET u == FailClaim(t, c, propagate)
         IN  /\ ConsistentTree(u) /\ Calms(t, u) /\ u.cancelled = t.cancelled
             /\ t.active = c => u.state[u.claimed] # "in_progress"
<1> DEFINE u == FailClaim(t, c, propagate)
           failed == Failed(t, c, propagate)
<1>1. t \in TreeType /\ TreeConsistent(t) /\ t.claimed \in Message
  BY DEF ConsistentTree, TreeType
<1>2. failed \in SUBSET Message
  BY <1>1 DEF Failed, Descendants, Present
<1>3. \A m \in failed : t.state[m] \in {"pending", "in_progress", "error"}
  BY <1>1 DEF Failed, TreeType, NodeState, Runnable
<1>4. failed # {} => t.active = c /\ ~t.cancelled /\ t.claimed \in failed
  BY DEF Failed, Owns
<1>5. /\ t.position \in [Message -> Nat]
      /\ Without(t.position, failed) \in [Message -> Nat]
      /\ \A m \in Message :
           Without(t.position, failed)[m] > 0 <=> (t.position[m] > 0 /\ m \notin failed)
  BY <1>1, <1>2, WithoutRemoves DEF TreeType
<1>6. t.active = c /\ failed = {} => t.state[t.claimed] # "in_progress"
  BY <1>1 DEF Failed, Owns, TreeConsistent, OneInProgress
<1> DEFINE state == [m \in Message |-> IF m \in failed THEN "error" ELSE t.state[m]]
<1>a. /\ state \in [Message -> NodeState]
      /\ \A m \in Message : state[m] = IF m \in failed THEN "error" ELSE t.state[m]
  BY <1>1 DEF TreeType, NodeState
<1> HIDE DEF failed
<1>7. u = [t EXCEPT !.state = state, !.position = Without(t.position, failed)]
  BY <1>1 DEF FailClaim, TreeType, failed
<1> HIDE DEF u, state
<1>8. /\ u \in TreeType
      /\ u.root = t.root /\ u.active = t.active /\ u.claimed = t.claimed
      /\ u.answered = t.answered /\ u.reference = t.reference
      /\ u.session = t.session /\ u.cancelled = t.cancelled
      /\ \A m \in Message :
           /\ u.state[m] = IF m \in failed THEN "error" ELSE t.state[m]
           /\ u.position[m] > 0 <=> (t.position[m] > 0 /\ m \notin failed)
  BY <1>1, <1>5, <1>7, <1>a DEF TreeType
<1>9. Calms(t, u)
  BY <1>3, <1>8 DEF Calms, Runnable
<1>10. Present(u) = Present(t) /\ LiveRefs(u) = LiveRefs(t)
  BY <1>1, <1>8, <1>9, CalmsKeepsRefs
<1>11. QueueIsPending(u) /\ QueueHasOwner(u)
  BY <1>1, <1>8 DEF TreeConsistent, QueueIsPending, QueueHasOwner, Queued
<1>12. OneInProgress(u) /\ ClaimIsEntered(u)
  BY <1>1, <1>8 DEF TreeConsistent, OneInProgress, ClaimIsEntered
<1>13. RunnableIsAnswered(u) /\ ClearedIsOver(u)
  BY <1>1, <1>8, <1>10 DEF TreeConsistent, RunnableIsAnswered, ClearedIsOver, Present, Runnable
<1>14. RepliesAreAnchored(u) /\ RepliesAreRooted(u)
  BY <1>1, <1>8, <1>9, CalmsKeepsRefs DEF TreeConsistent
<1>15. t.active = c => u.state[u.claimed] # "in_progress"
  BY <1>1, <1>4, <1>6, <1>8
<1>16. QED
  BY <1>8, <1>9, <1>11, <1>12, <1>13, <1>14, <1>15 DEF u, ConsistentTree, TreeConsistent

-----------------------------------------------------------------------------
(* A root message starts a consistent tree that runs it (runtime.py        *)
(* enqueue_or_claim, for the tree admit() has just made).                  *)
LEMMA NewTreeConsistent ==
  ASSUME NEW m \in Message, NEW c \in Nat \ {0}
  PROVE  LET u == EnqueueOrClaim(NewTree(m), m, c)
         IN  /\ ConsistentTree(u)
             /\ u.root = m /\ u.active = c /\ u.claimed = m /\ ~u.cancelled
             /\ LiveRefs(u) = {Prompt(m), Status(m)}
             /\ \A k \in Message : u.session[k] = 0
             /\ ParentSession(u, m) = 0
<1> DEFINE u == EnqueueOrClaim(NewTree(m), m, c)
<1>1. u = [root |-> m,
           state |-> [k \in Message |-> IF k = m THEN "in_progress" ELSE "absent"],
           reference |-> [k \in Message |-> None],
           answered |-> {m},
           session |-> [k \in Message |-> 0],
           position |-> EmptyQueue,
           active |-> c, claimed |-> m, cancelled |-> FALSE]
  BY DEF EnqueueOrClaim, NewTree, ClaimNode
<1> HIDE DEF u
<1>2. u \in TreeType
  BY <1>1 DEF TreeType, NodeState, Runnable, EmptyQueue
<1>3. Present(u) = {m}
  BY <1>1 DEF Present
<1>4. LiveRefs(u) = {Prompt(m), Status(m)}
  BY <1>1, <1>3 DEF LiveRefs, Ref, Owner, Prompt, Status
<1>5. QueueIsPending(u) /\ QueueHasOwner(u) /\ OneInProgress(u) /\ ClaimIsEntered(u)
  BY <1>1 DEF QueueIsPending, QueueHasOwner, Queued, OneInProgress, ClaimIsEntered, EmptyQueue
<1>6. /\ RunnableIsAnswered(u) /\ ClearedIsOver(u)
      /\ RepliesAreAnchored(u) /\ RepliesAreRooted(u)
  BY <1>1, <1>3 DEF RunnableIsAnswered, ClearedIsOver, RepliesAreAnchored, RepliesAreRooted, Runnable
<1>7. QED
  BY <1>1, <1>2, <1>4, <1>5, <1>6 DEF u, ConsistentTree, TreeConsistent, ParentSession

(* A duplicate of a message the tree holds changes nothing.                *)
LEMMA DuplicateChangesNothing ==
  ASSUME NEW t, ConsistentTree(t), NEW m \in Message, NEW c
  PROVE  EnqueueOrClaim(t, m, c) = t
<1>1. t \in TreeType /\ TreeConsistent(t)
  BY DEF ConsistentTree
<1>2. CASE t.state[m] # "pending"
  BY <1>2 DEF EnqueueOrClaim
<1>3. CASE t.state[m] = "pending"
  <2>1. t.position[m] > 0 /\ t.active # 0
    BY <1>1, <1>3 DEF TreeConsistent, QueueIsPending, QueueHasOwner, Queued
  <2>2. Put(t.position, m) = t.position
    BY <2>1 DEF Put
  <2>3. QED
    BY <1>1, <1>3, <2>1, <2>2 DEF EnqueueOrClaim, TreeType
<1>4. QED
  BY <1>2, <1>3

(* A reply to a live message joins its tree: it is claimed at once by an   *)
(* idle tree and queued by a busy one (runtime.py add_and_enqueue).        *)
LEMMA AddReplyConsistent ==
  ASSUME NEW t, ConsistentTree(t), NEW m \in Message, t.state[m] = "absent",
         NEW r \in LiveRefs(t), NEW c \in Nat \ {0}
  PROVE  LET u == EnqueueOrClaim(AddNode(t, m, r), m, c)
         IN  /\ ConsistentTree(u) /\ u.root = t.root
             /\ IF t.active = 0
                THEN u.active = c /\ u.claimed = m /\ ~u.cancelled
                ELSE u.active = t.active /\ u.claimed = t.claimed /\ u.cancelled = t.cancelled
             /\ u.state[m] \in Runnable
             /\ \A k \in Message \ {m} : u.state[k] = t.state[k]
             /\ u.state[m] = "in_progress" => t.active = 0
             /\ \A k \in Message : u.session[k] = t.session[k] \/ u.session[k] = 0
             /\ LiveRefs(u) = LiveRefs(t) \cup {Prompt(m), Status(m)}
<1> DEFINE u == EnqueueOrClaim(AddNode(t, m, r), m, c)
           added == AddNode(t, m, r)
<1>1. /\ t \in TreeType /\ TreeConsistent(t) /\ t.claimed \in Message
      /\ r \in Ref /\ Owner(r) \in Message /\ Owner(r) # m
      /\ t.active \in Nat /\ t.position \in [Message -> Nat]
  BY DEF ConsistentTree, TreeType, LiveRefs, Ref, Owner, Present
<1>2. /\ added \in TreeType
      /\ added.root = t.root /\ added.active = t.active /\ added.claimed = t.claimed
      /\ added.cancelled = t.cancelled /\ added.position = t.position
      /\ added.answered = t.answered \cup {m}
      /\ added.state[m] = "pending" /\ added.reference[m] = r /\ added.session[m] = 0
      /\ \A k \in Message \ {m} : /\ added.state[k] = t.state[k]
                                  /\ added.reference[k] = t.reference[k]
                                  /\ added.session[k] = t.session[k]
  BY <1>1 DEF AddNode, TreeType, NodeState, Runnable
<1>3. u = IF t.active = 0 THEN ClaimNode(added, m, c)
          ELSE [added EXCEPT !.position = Put(t.position, m)]
  BY <1>2 DEF EnqueueOrClaim
<1>4. t.position[m] = 0
  BY <1>1 DEF TreeConsistent, QueueIsPending
<1> HIDE DEF added
<1>5. /\ Put(t.position, m) \in [Message -> Nat]
      /\ \A k \in Message : Put(t.position, m)[k] > 0 <=> (t.position[k] > 0 \/ k = m)
  BY <1>1, PutQueues
<1>6. /\ u \in TreeType
      /\ u.root = t.root /\ u.answered = t.answered \cup {m}
      /\ u.reference = added.reference /\ u.session = added.session
      /\ \A k \in Message \ {m} :
           u.state[k] = t.state[k] /\ (u.position[k] > 0 <=> t.position[k] > 0)
      /\ IF t.active = 0
         THEN /\ u.active = c /\ u.claimed = m /\ ~u.cancelled
              /\ u.state[m] = "in_progress" /\ u.position[m] = 0
         ELSE /\ u.active = t.active /\ u.claimed = t.claimed /\ u.cancelled = t.cancelled
              /\ u.state[m] = "pending" /\ u.position[m] > 0
  <2>1. CASE t.active = 0
    <3>1. u = ClaimNode(added, m, c)
      BY <1>3, <2>1
    <3> HIDE DEF u
    <3>2. u = [added EXCEPT !.state = [added.state EXCEPT ![m] = "in_progress"],
                            !.active = c, !.claimed = m, !.cancelled = FALSE]
      BY <3>1 DEF ClaimNode
    <3> DEFINE state == [added.state EXCEPT ![m] = "in_progress"]
    <3>3. state \in [Message -> NodeState] /\ state[m] = "in_progress"
          /\ \A k \in Message \ {m} : state[k] = t.state[k]
      BY <1>2 DEF TreeType, NodeState, Runnable
    <3> HIDE DEF state
    <3>4. QED
      BY <1>2, <1>4, <2>1, <3>2, <3>3 DEF TreeType, state
  <2>2. CASE t.active # 0
    <3>1. u = [added EXCEPT !.position = Put(t.position, m)]
      BY <1>3, <2>2
    <3> HIDE DEF u
    <3>2. QED
      BY <1>2, <1>5, <2>2, <3>1 DEF TreeType
  <2>3. QED
    BY <2>1, <2>2
<1> HIDE DEF u
<1>7. Present(u) = Present(t) \cup {m} /\ m \notin Present(t)
  BY <1>6 DEF Present
<1>8. LiveRefs(u) = LiveRefs(t) \cup {Prompt(m), Status(m)}
  BY <1>6, <1>7 DEF LiveRefs, Ref, Owner, Prompt, Status
<1>9. QueueIsPending(u)
  BY <1>1, <1>6 DEF TreeConsistent, QueueIsPending
<1>10. QueueHasOwner(u)
  BY <1>1, <1>6 DEF TreeConsistent, QueueHasOwner, Queued
<1>11. OneInProgress(u)
  BY <1>1, <1>6 DEF TreeConsistent, OneInProgress
<1>12. ClaimIsEntered(u)
  BY <1>1, <1>6 DEF TreeConsistent, ClaimIsEntered
<1>13. RunnableIsAnswered(u)
  BY <1>1, <1>6 DEF TreeConsistent, RunnableIsAnswered
<1>14. ClearedIsOver(u)
  BY <1>1, <1>2, <1>6, <1>7 DEF TreeConsistent, ClearedIsOver, Present
<1>15. RepliesAreAnchored(u)
  BY <1>1, <1>2, <1>6, <1>7, <1>8 DEF TreeConsistent, RepliesAreAnchored, Present
<1>16. RepliesAreRooted(u)
  <2>1. SUFFICES ASSUME NEW S \in SUBSET (Present(u) \ {u.root}), S # {}
                 PROVE  \E k \in S : u.reference[k] # None /\ Owner(u.reference[k]) \notin S
    BY DEF RepliesAreRooted
  <2>2. CASE S = {m}
    BY <1>1, <1>2, <1>6, <2>2, MessageAssumption
  <2>3. CASE S # {m}
    <3>1. S \ {m} # {} /\ S \ {m} \in SUBSET (Present(t) \ {t.root})
      BY <1>6, <1>7, <2>1, <2>3
    <3>2. PICK k \in S \ {m} : t.reference[k] # None /\ Owner(t.reference[k]) \notin S \ {m}
      BY <1>1, <3>1 DEF TreeConsistent, RepliesAreRooted
    <3>3. k \in Present(t) /\ Owner(t.reference[k]) # m
      BY <1>1, <1>7, <3>1, <3>2 DEF TreeConsistent, RepliesAreAnchored, LiveRefs
    <3>4. QED
      BY <1>2, <1>6, <3>2, <3>3 DEF Present
  <2>4. QED
    BY <2>2, <2>3
<1>17. QED
  BY <1>2, <1>6, <1>8, <1>9, <1>10, <1>11, <1>12, <1>13, <1>14, <1>15, <1>16
     DEF u, added, ConsistentTree, TreeConsistent, Runnable

-----------------------------------------------------------------------------
(* Releasing a claim whose owner has reported hands the tree to a node that *)
(* was waiting, or leaves it idle (runtime.py finish_and_claim_next).      *)
LEMMA FinishConsistent ==
  ASSUME NEW t, ConsistentTree(t), NEW c \in Nat \ {0}, NEW next \in Nat \ {0},
         t.active = c, t.state[t.claimed] # "in_progress"
  PROVE  LET u == FinishAndClaimNext(t, c, next)
         IN  /\ ConsistentTree(u) /\ u.root = t.root
             /\ LiveRefs(u) = LiveRefs(t)
             /\ \/ u.active = 0 /\ u.state = t.state
                \/ u.active = next /\ ~u.cancelled /\ t.state[u.claimed] = "pending"
             /\ u.session = t.session /\ u.reference = t.reference
<1> DEFINE u == FinishAndClaimNext(t, c, next)
           waiting == {m \in Queued(t) : t.state[m] = "pending"}
           first == First(t.position, waiting)
           popped == {first} \cup {k \in Queued(t) : t.position[k] < t.position[first]}
<1>1. /\ t \in TreeType /\ TreeConsistent(t) /\ t.claimed \in Message
      /\ t.position \in [Message -> Nat]
  BY DEF ConsistentTree, TreeType
<1>2. waiting = Queued(t) /\ waiting \in SUBSET Message
  BY <1>1 DEF TreeConsistent, QueueIsPending, Queued
<1>3. \A m \in Message : t.state[m] # "in_progress"
  BY <1>1 DEF TreeConsistent, OneInProgress
<1>4. CASE waiting = {}
  <2>1. u = [t EXCEPT !.active = 0, !.cancelled = FALSE, !.position = EmptyQueue]
    BY <1>4 DEF FinishAndClaimNext
  <2> HIDE DEF u
  <2>2. EmptyQueue \in [Message -> Nat] /\ \A m \in Message : EmptyQueue[m] = 0
    BY DEF EmptyQueue
  <2>3. /\ u \in TreeType /\ u.root = t.root /\ u.state = t.state
        /\ u.answered = t.answered /\ u.reference = t.reference /\ u.session = t.session
        /\ u.active = 0 /\ \A m \in Message : u.position[m] = 0
    BY <1>1, <2>1, <2>2 DEF TreeType
  <2>4. Present(u) = Present(t) /\ LiveRefs(u) = LiveRefs(t)
    BY <2>3 DEF Present, LiveRefs
  <2>5. \A m \in Message : t.state[m] # "pending"
    BY <1>1, <1>2, <1>4 DEF TreeConsistent, QueueIsPending, Queued
  <2>6. QueueIsPending(u) /\ QueueHasOwner(u) /\ OneInProgress(u) /\ ClaimIsEntered(u)
    BY <1>3, <2>3, <2>5 DEF QueueIsPending, QueueHasOwner, Queued, OneInProgress, ClaimIsEntered
  <2>7. /\ RunnableIsAnswered(u) /\ ClearedIsOver(u)
        /\ RepliesAreAnchored(u) /\ RepliesAreRooted(u)
    BY <1>1, <2>3, <2>4 DEF TreeConsistent, RunnableIsAnswered, ClearedIsOver,
       RepliesAreAnchored, RepliesAreRooted
  <2>8. QED
    BY <2>3, <2>4, <2>6, <2>7 DEF u, ConsistentTree, TreeConsistent
<1>5. CASE waiting # {}
  <2>1. /\ first \in waiting
        /\ \A k \in waiting : t.position[first] <= t.position[k]
    BY <1>1, <1>2, <1>5, FirstIsFront
  <2> HIDE DEF first
  <2>2. popped = {first}
    BY <1>1, <1>2, <2>1
  <2>3. first \in Message /\ t.state[first] = "pending" /\ first \in t.answered
    BY <1>1, <1>2, <2>1 DEF TreeConsistent, RunnableIsAnswered, Runnable
  <2> DEFINE queue == Without(t.position, {first})
             state == [t.state EXCEPT ![first] = "in_progress"]
  <2>4. /\ queue \in [Message -> Nat]
        /\ \A m \in Message : queue[m] > 0 <=> (t.position[m] > 0 /\ m # first)
    BY <1>1, <2>3, WithoutRemoves
  <2>5. /\ state \in [Message -> NodeState] /\ state[first] = "in_progress"
        /\ \A m \in Message \ {first} : state[m] = t.state[m]
    BY <1>1, <2>3 DEF TreeType, NodeState, Runnable
  <2>6. u = ClaimNode([t EXCEPT !.position = Without(t.position, popped)], first, next)
    BY <1>1, <1>5 DEF FinishAndClaimNext, TreeType, first
  <2>7. u = ClaimNode([t EXCEPT !.position = queue], first, next)
    BY <2>2, <2>6
  <2> HIDE DEF u, queue, popped, waiting
  <2>8. u = [t EXCEPT !.position = queue, !.state = state,
                      !.active = next, !.claimed = first, !.cancelled = FALSE]
    BY <1>1, <2>7 DEF ClaimNode, TreeType
  <2> HIDE DEF state
  <2>9. /\ u \in TreeType /\ u.root = t.root /\ u.state = state
        /\ u.answered = t.answered /\ u.reference = t.reference /\ u.session = t.session
        /\ u.active = next /\ u.claimed = first /\ ~u.cancelled /\ u.position = queue
    BY <1>1, <2>3, <2>4, <2>5, <2>8 DEF TreeType
  <2>10. Present(u) = Present(t)
    BY <2>3, <2>5, <2>9 DEF Present
  <2>11. LiveRefs(u) = LiveRefs(t)
    BY <2>9, <2>10 DEF LiveRefs
  <2>12. QueueIsPending(u) /\ QueueHasOwner(u)
    BY <1>1, <2>4, <2>5, <2>9 DEF TreeConsistent, QueueIsPending, QueueHasOwner, Queued
  <2>13. OneInProgress(u) /\ ClaimIsEntered(u)
    BY <1>3, <2>3, <2>5, <2>9 DEF OneInProgress, ClaimIsEntered
  <2>14. RunnableIsAnswered(u) /\ ClearedIsOver(u)
    BY <1>1, <2>3, <2>5, <2>9, <2>10
       DEF TreeConsistent, RunnableIsAnswered, ClearedIsOver, Runnable, Present
  <2>15. RepliesAreAnchored(u) /\ RepliesAreRooted(u)
    BY <1>1, <2>9, <2>10, <2>11 DEF TreeConsistent, RepliesAreAnchored, RepliesAreRooted
  <2>16. QED
    BY <2>3, <2>9, <2>11, <2>12, <2>13, <2>14, <2>15 DEF u, ConsistentTree, TreeConsistent
<1>6. QED
  BY <1>4, <1>5

-----------------------------------------------------------------------------
(* A reply subtree is closed downwards: it has the messages that hang      *)
(* below its prompts (graph.py get_reference_descendants).                 *)
LEMMA RemovedIsClosed ==
  ASSUME NEW t \in TreeType, NEW r \in Ref
  PROVE  /\ RemovedNodes(t, r) \subseteq Present(t)
         /\ \A k \in Present(t) :
              \/ Prompt(k) = r
              \/ t.reference[k] = r
              \/ t.reference[k] \in LiveRefs(t) /\ Owner(t.reference[k]) \in RemovedNodes(t, r)
              => k \in RemovedNodes(t, r)
<1> DEFINE present == Present(t)
           anchored == {k \in present : t.reference[k] \in LiveRefs(t)}
           closed == {S \in SUBSET present :
                        \A k \in present :
                          \/ Prompt(k) = r
                          \/ t.reference[k] = r
                          \/ k \in anchored /\ Owner(t.reference[k]) \in S
                          => k \in S}
<1>1. RemovedNodes(t, r) = {m \in present : \A S \in closed : m \in S}
  BY DEF RemovedNodes
<1>2. QED
  BY <1>1

(* Deleting a message with its replies keeps the tree consistent, and the  *)
(* references that stay alive are those outside the deleted subtree        *)
(* (runtime.py remove_message_subtree).                                    *)
LEMMA RemoveSubtreeConsistent ==
  ASSUME NEW t, ConsistentTree(t), NEW r \in LiveRefs(t)
  PROVE  LET u == RemoveSubtree(t, r)
         IN  /\ ConsistentTree(u)
             /\ u.root = t.root /\ u.active = t.active /\ u.claimed = t.claimed
             /\ u.cancelled = (t.cancelled \/ (t.active # 0 /\ t.claimed \in AffectedNodes(t, r)))
             /\ \A m \in Message : u.state[m] \in Runnable => u.state[m] = t.state[m]
             /\ t.state[t.claimed] # "in_progress" => u.state[u.claimed] # "in_progress"
             /\ \A m \in Message : u.session[m] = t.session[m] \/ u.session[m] = 0
             /\ LiveRefs(u) = LiveRefs(t) \ ReplySubtree(t, r)
             /\ t.root \in RemovedNodes(t, r) => Present(u) = {}
<1> DEFINE u == RemoveSubtree(t, r)
           affected == AffectedNodes(t, r)
           removed == RemovedNodes(t, r)
           v == Cancel(t, affected)
           isStatus == r[2] = "status"
<1>1. /\ t \in TreeType /\ TreeConsistent(t) /\ t.claimed \in Message
      /\ r \in Ref /\ Owner(r) \in Present(t) /\ Owner(r) \in Message
      /\ Present(t) \subseteq Message
  BY DEF ConsistentTree, TreeType, LiveRefs, Present
<1>2. /\ removed \subseteq Message
      /\ \A k \in Present(t) :
           \/ Prompt(k) = r \/ t.reference[k] = r
           \/ t.reference[k] \in LiveRefs(t) /\ Owner(t.reference[k]) \in removed
           => k \in removed
  BY <1>1, RemovedIsClosed
<1>3. affected = removed \cup (IF isStatus THEN {Owner(r)} ELSE {}) /\ affected \subseteq Message
  BY <1>1, <1>2 DEF AffectedNodes
<1>4. /\ v \in TreeType
      /\ v.root = t.root /\ v.active = t.active /\ v.claimed = t.claimed
      /\ v.answered = t.answered /\ v.reference = t.reference /\ v.session = t.session
      /\ v.cancelled = (t.cancelled \/ (t.active # 0 /\ t.claimed \in affected))
      /\ \A m \in Message :
           /\ v.state[m] = IF m \in affected /\ t.state[m] \in Runnable
                           THEN "error" ELSE t.state[m]
           /\ v.position[m] > 0 <=> (t.position[m] > 0 /\ m \notin affected)
  BY <1>1, <1>3, CancelEffect
<1>5. u = RemoveNodes(IF isStatus THEN ClearStatus(v, Owner(r)) ELSE v, removed)
  BY DEF RemoveSubtree
<1> HIDE DEF u, v, affected, removed
<1> DEFINE w == IF isStatus THEN ClearStatus(v, Owner(r)) ELSE v
<1>6. /\ w \in TreeType
      /\ w.root = t.root /\ w.active = t.active /\ w.claimed = t.claimed
      /\ w.cancelled = v.cancelled /\ w.position = v.position /\ w.reference = t.reference
      /\ w.answered = t.answered \ (IF isStatus THEN {Owner(r)} ELSE {})
      /\ \A m \in Message : IF isStatus /\ m = Owner(r)
                            THEN w.state[m] = "error" /\ w.session[m] = 0
                            ELSE w.state[m] = v.state[m] /\ w.session[m] = t.session[m]
  BY <1>1, <1>4 DEF ClearStatus, TreeType, NodeState
<1> HIDE DEF w
<1> DEFINE state == [m \in Message |-> IF m \in removed THEN "absent" ELSE w.state[m]]
           reference == [m \in Message |-> IF m \in removed THEN None ELSE w.reference[m]]
           session == [m \in Message |-> IF m \in removed THEN 0 ELSE w.session[m]]
<1>7. /\ state \in [Message -> NodeState] /\ reference \in [Message -> Ref \cup {None}]
      /\ session \in [Message -> Nat]
  BY <1>6 DEF TreeType, NodeState
<1>8. u = [w EXCEPT !.state = state, !.reference = reference,
                    !.answered = w.answered \ removed, !.session = session]
  BY <1>5, <1>6 DEF RemoveNodes, TreeType, w
<1>9. /\ u \in TreeType
      /\ u.root = t.root /\ u.active = t.active /\ u.claimed = t.claimed
      /\ u.cancelled = v.cancelled /\ u.position = v.position
      /\ u.state = state /\ u.reference = reference /\ u.session = session
      /\ u.answered = w.answered \ removed
  <2> HIDE DEF state, reference, session
  <2> QED BY <1>6, <1>7, <1>8 DEF TreeType
<1>10. /\ \A m \in removed : /\ u.state[m] = "absent" /\ u.reference[m] = None
                             /\ u.session[m] = 0 /\ m \notin u.answered
       /\ \A m \in Message \ removed :
            /\ u.reference[m] = t.reference[m]
            /\ m \in u.answered <=> m \in t.answered /\ ~(isStatus /\ m = Owner(r))
            /\ IF isStatus /\ m = Owner(r)
               THEN u.state[m] = "error" /\ u.session[m] = 0
               ELSE u.state[m] = t.state[m] /\ u.session[m] = t.session[m]
  BY <1>2, <1>3, <1>4, <1>6, <1>9
<1> HIDE DEF state, reference, session
<1>11. Present(u) = Present(t) \ removed
  BY <1>1, <1>2, <1>10 DEF Present
<1>12. LiveRefs(u) = LiveRefs(t) \ ReplySubtree(t, r)
  <2>1. ReplySubtree(t, r) = {x \in LiveRefs(t) : x = r \/ Owner(x) \in removed}
    BY DEF ReplySubtree, removed
  <2>2. isStatus <=> r = Status(Owner(r))
    BY <1>1 DEF Ref, Status, Owner
  <2>3. ~isStatus => Owner(r) \in removed
    BY <1>1, <1>2 DEF Ref, Prompt, Owner
  <2>4. \A x \in Ref : x[2] = "status" /\ Owner(x) = Owner(r) /\ isStatus => x = r
    BY <1>1 DEF Ref, Owner
  <2>5. \A x \in Ref : Owner(x) \in Message
    BY DEF Ref, Owner
  <2>6. QED
    BY <1>1, <1>10, <1>11, <2>1, <2>2, <2>3, <2>4, <2>5 DEF LiveRefs
<1>13. \A m \in Message :
         /\ u.state[m] \in Runnable => u.state[m] = t.state[m] /\ m \notin affected
         /\ u.state[m] = "pending" <=> t.state[m] = "pending" /\ m \notin affected
         /\ u.state[m] = "in_progress" <=> t.state[m] = "in_progress" /\ m \notin affected
  BY <1>3, <1>10 DEF Runnable
<1>14. QueueIsPending(u) /\ QueueHasOwner(u)
  BY <1>1, <1>4, <1>9, <1>13 DEF TreeConsistent, QueueIsPending, QueueHasOwner, Queued
<1>15. OneInProgress(u)
  BY ZenonT(30), <1>1, <1>4, <1>9, <1>13 DEF TreeConsistent, OneInProgress
<1>16. ClaimIsEntered(u)
  <2>1. SUFFICES ASSUME t.active # 0, ~t.cancelled, t.claimed \notin affected
                 PROVE  t.claimed \in u.answered /\ u.state[t.claimed] \notin {"absent", "pending"}
    BY <1>4, <1>9 DEF ClaimIsEntered
  <2>2. t.claimed \notin removed /\ ~(isStatus /\ t.claimed = Owner(r))
    BY <1>3, <2>1
  <2>3. t.claimed \in t.answered /\ t.state[t.claimed] \notin {"absent", "pending"}
    BY <1>1, <2>1 DEF TreeConsistent, ClaimIsEntered
  <2>4. QED
    BY <1>1, <1>10, <2>2, <2>3
<1>17. RunnableIsAnswered(u)
  BY <1>1, <1>3, <1>10, <1>13 DEF TreeConsistent, RunnableIsAnswered
<1>18. ClearedIsOver(u)
  BY <1>1, <1>10, <1>11 DEF TreeConsistent, ClearedIsOver
<1>19. RepliesAreAnchored(u)
  <2>1. SUFFICES ASSUME NEW m \in Present(t) \ removed, u.reference[m] # None
                 PROVE  u.reference[m] \in LiveRefs(u)
    BY <1>11 DEF RepliesAreAnchored
  <2>2. u.reference[m] = t.reference[m] /\ t.reference[m] \in LiveRefs(t)
    BY <1>1, <1>10, <2>1 DEF TreeConsistent, RepliesAreAnchored
  <2>3. t.reference[m] # r /\ Owner(t.reference[m]) \notin removed
    BY <1>2, <2>1, <2>2
  <2>4. QED
    BY <1>12, <2>2, <2>3 DEF ReplySubtree, removed
<1>20. RepliesAreRooted(u)
  <2>1. SUFFICES ASSUME NEW S \in SUBSET (Present(u) \ {u.root}), S # {}
                 PROVE  \E k \in S : u.reference[k] # None /\ Owner(u.reference[k]) \notin S
    BY DEF RepliesAreRooted
  <2>2. S \in SUBSET (Present(t) \ {t.root})
    BY <1>9, <1>11
  <2>3. PICK k \in S : t.reference[k] # None /\ Owner(t.reference[k]) \notin S
    BY <1>1, <2>1, <2>2 DEF TreeConsistent, RepliesAreRooted
  <2>4. QED
    BY <1>1, <1>10, <1>11, <2>3
<1>21. ASSUME t.root \in removed
       PROVE  Present(u) = {}
  <2>1. SUFFICES ASSUME Present(u) # {}
                 PROVE  FALSE
    OBVIOUS
  <2>2. Present(u) \in SUBSET (Present(t) \ {t.root})
    BY <1>11, <1>21
  <2>3. PICK k \in Present(u) : t.reference[k] # None /\ Owner(t.reference[k]) \notin Present(u)
    BY <1>1, <2>1, <2>2 DEF TreeConsistent, RepliesAreRooted
  <2>4. t.reference[k] \in LiveRefs(t) /\ Owner(t.reference[k]) \in Present(t)
    BY <1>1, <1>11, <2>3 DEF TreeConsistent, RepliesAreAnchored, LiveRefs
  <2>5. QED
    BY <1>2, <1>11, <2>3, <2>4
<1>22. \A m \in Message : u.session[m] = t.session[m] \/ u.session[m] = 0
  BY <1>10
<1>23. QED
  BY <1>1, <1>4, <1>9, <1>12, <1>13, <1>14, <1>15, <1>16, <1>17, <1>18, <1>19, <1>20,
     <1>21, <1>22
     DEF u, v, affected, removed, ConsistentTree, TreeConsistent

-----------------------------------------------------------------------------
(* The order of the queue. *)

\* What t holds in its queue is served by u in that order: whoever stays does not
\* see a later one overtake it, in the queue or by being claimed.
InOrder(t, u) ==
  \A m, k \in Queued(t) :
    t.position[m] < t.position[k] /\ u.position[m] > 0 =>
      u.position[k] \notin 1..u.position[m] /\ u.state[k] # "in_progress"

(* Those who stay in the queue close ranks in their order.                 *)
LEMMA WithoutOrders ==
  ASSUME NEW q \in [Message -> Nat], NEW S \in SUBSET Message,
         NEW m \in Message, NEW k \in Message,
         q[m] < q[k], Without(q, S)[m] > 0, Without(q, S)[k] > 0
  PROVE  Without(q, S)[m] < Without(q, S)[k]
<1> DEFINE upTo(j) == {i \in Message \ S : q[i] > 0 /\ q[i] <= q[j]}
<1>1. q[m] > 0 /\ q[k] > 0 /\ m \notin S /\ k \notin S
  BY WithoutRemoves
<1>2. Without(q, S)[m] = Cardinality(upTo(m)) /\ Without(q, S)[k] = Cardinality(upTo(k))
  BY <1>1 DEF Without
<1>3. IsFiniteSet(upTo(k)) /\ Cardinality(upTo(k)) \in Nat
  BY MessageAssumption, FS_Subset, FS_CardinalityType
<1>4. upTo(m) \in SUBSET upTo(k) /\ k \in upTo(k) /\ k \notin upTo(m)
  BY <1>1
<1>5. IsFiniteSet(upTo(m)) /\ Cardinality(upTo(m)) \in Nat
  BY <1>3, <1>4, FS_Subset, FS_CardinalityType
<1> HIDE DEF upTo
<1>6. /\ Cardinality(upTo(m)) <= Cardinality(upTo(k))
      /\ Cardinality(upTo(m)) # Cardinality(upTo(k))
  BY <1>3, <1>4, FS_Subset
<1>7. QED
  BY <1>2, <1>3, <1>5, <1>6

(* Nobody overtakes when some leave the queue and nobody else is claimed.  *)
LEMMA LeavingInOrder ==
  ASSUME NEW t \in TreeType, NEW S \in SUBSET Message, NEW u,
         u.position = t.position \/ u.position = Without(t.position, S),
         \A k \in Queued(t) : u.state[k] # "in_progress"
  PROVE  InOrder(t, u)
<1>1. SUFFICES ASSUME NEW m \in Queued(t), NEW k \in Queued(t),
                      t.position[m] < t.position[k], u.position[m] > 0
               PROVE  u.position[k] \notin 1..u.position[m] /\ u.state[k] # "in_progress"
  BY DEF InOrder
<1>2. /\ t.position \in [Message -> Nat] /\ m \in Message /\ k \in Message
      /\ Without(t.position, S) \in [Message -> Nat]
  BY WithoutRemoves DEF TreeType, Queued
<1>3. u.position[m] \in Nat /\ u.position[k] \in Nat
  BY <1>2
<1>4. u.position[k] > 0 => u.position[m] < u.position[k]
  BY <1>1, <1>2, WithoutOrders
<1>5. u.position[k] \notin 1..u.position[m]
  BY <1>3, <1>4
<1>6. QED
  BY <1>1, <1>5

(* An operation that makes no node runnable claims none that waits.        *)
LEMMA CalmsClaimsNone ==
  ASSUME NEW t, ConsistentTree(t), NEW u, Calms(t, u)
  PROVE  \A k \in Queued(t) : u.state[k] # "in_progress"
BY DEF ConsistentTree, TreeConsistent, QueueIsPending, Queued, Calms, Runnable

(* Cancelling nodes keeps the others in their order (runtime.py).          *)
LEMMA CancelInOrder ==
  ASSUME NEW t, ConsistentTree(t), NEW S \in SUBSET Message
  PROVE  /\ InOrder(t, Cancel(t, S)) /\ Cancel(t, S) \in TreeType
         /\ Cancel(t, S).position = Without(t.position, S)
         /\ \A k \in Queued(t) : Cancel(t, S).state[k] # "in_progress"
<1> DEFINE u == Cancel(t, S)
<1>1. t \in TreeType /\ u \in TreeType /\ Calms(t, u)
  BY CancelConsistent DEF ConsistentTree
<1>2. u.position = Without(t.position, S)
  BY <1>1 DEF Cancel, TreeType
<1> HIDE DEF u
<1>3. \A k \in Queued(t) : u.state[k] # "in_progress"
  BY <1>1, CalmsClaimsNone
<1>4. InOrder(t, u)
  BY <1>1, <1>2, <1>3, LeavingInOrder
<1>5. QED
  BY <1>1, <1>2, <1>3, <1>4 DEF u

(* So do the reports of a runner.                                          *)
LEMMA ReportsInOrder ==
  ASSUME NEW t, ConsistentTree(t), NEW c \in Nat \ {0}, NEW flag \in BOOLEAN
  PROVE  /\ InOrder(t, RecordSession(t, c)) /\ InOrder(t, CompleteClaim(t, c, flag))
         /\ InOrder(t, FailClaim(t, c, flag))
<1>1. /\ t \in TreeType /\ Calms(t, RecordSession(t, c))
      /\ Calms(t, CompleteClaim(t, c, flag)) /\ Calms(t, FailClaim(t, c, flag))
  BY RecordSessionConsistent, CompleteClaimConsistent, FailClaimConsistent DEF ConsistentTree
<1>2. /\ RecordSession(t, c).position = t.position
      /\ CompleteClaim(t, c, flag).position = t.position
  BY <1>1 DEF RecordSession, CompleteClaim, TreeType
<1>3. Failed(t, c, flag) \in SUBSET Message
  BY <1>1 DEF Failed, Descendants, Present, TreeType
<1>4. FailClaim(t, c, flag).position = Without(t.position, Failed(t, c, flag))
  BY <1>1 DEF FailClaim, TreeType
<1>5. ASSUME NEW u, u \in {RecordSession(t, c), CompleteClaim(t, c, flag), FailClaim(t, c, flag)}
      PROVE  InOrder(t, u)
  <2>1. Calms(t, u) /\ (u.position = t.position \/ u.position = Without(t.position, Failed(t, c, flag)))
    BY <1>1, <1>2, <1>4, <1>5
  <2>2. \A k \in Queued(t) : u.state[k] # "in_progress"
    BY <1>1, <2>1, CalmsClaimsNone
  <2>3. QED
    BY <1>1, <1>3, <2>1, <2>2, LeavingInOrder
<1>6. QED
  BY <1>5

(* A clear of a subtree leaves the rest of the queue as it was.            *)
LEMMA RemoveSubtreeInOrder ==
  ASSUME NEW t, ConsistentTree(t), NEW r \in Ref
  PROVE  InOrder(t, RemoveSubtree(t, r))
<1> DEFINE S == AffectedNodes(t, r)
           u == Cancel(t, S)
           v == IF r[2] = "status" THEN ClearStatus(u, Owner(r)) ELSE u
           w == RemoveSubtree(t, r)
<1>1. t \in TreeType /\ Owner(r) \in Message
  BY DEF ConsistentTree, Ref, Owner
<1>2. S \in SUBSET Message
  BY <1>1 DEF AffectedNodes, RemovedNodes, Present
<1>3. /\ u \in TreeType /\ u.position = Without(t.position, S)
      /\ \A k \in Queued(t) : u.state[k] # "in_progress"
  BY <1>2, CancelInOrder
<1>4. w = RemoveNodes(v, RemovedNodes(t, r))
  BY DEF RemoveSubtree
<1> HIDE DEF S, u, w
<1>5. /\ v \in TreeType /\ v.position = u.position
      /\ \A k \in Queued(t) : v.state[k] # "in_progress"
  BY <1>1, <1>3 DEF ClearStatus, TreeType, NodeState, Queued
<1> HIDE DEF v
<1>6. /\ w.position = v.position
      /\ \A k \in Queued(t) : w.state[k] # "in_progress"
  BY <1>4, <1>5 DEF RemoveNodes, TreeType, Queued
<1>7. InOrder(t, w)
  BY <1>1, <1>2, <1>3, <1>5, <1>6, LeavingInOrder
<1>8. QED
  BY <1>7 DEF w

(* A new node goes to the back of the queue (queue.py put).                *)
LEMMA AddReplyInOrder ==
  ASSUME NEW t, ConsistentTree(t), NEW m \in Message, t.state[m] = "absent",
         NEW r \in Ref, NEW c \in Nat
  PROVE  InOrder(t, EnqueueOrClaim(AddNode(t, m, r), m, c))
<1> DEFINE v == AddNode(t, m, r)
<1>1. /\ t \in TreeType /\ t.position \in [Message -> Nat] /\ m \notin Queued(t)
      /\ \A k \in Queued(t) : t.state[k] = "pending"
      /\ Queued(t) # {} => t.active # 0
  BY DEF ConsistentTree, TreeConsistent, QueueIsPending, QueueHasOwner, Queued, TreeType
<1>2. /\ v \in TreeType /\ v.position = t.position /\ v.active = t.active
      /\ v.state[m] = "pending" /\ \A k \in Message \ {m} : v.state[k] = t.state[k]
  BY <1>1 DEF AddNode, TreeType, NodeState, Runnable
<1> HIDE DEF v
<1>3. CASE t.active = 0
  BY <1>1, <1>3 DEF InOrder
<1>4. CASE t.active # 0
  <2> DEFINE u == [v EXCEPT !.position = Put(@, m)]
  <2>1. EnqueueOrClaim(v, m, c) = u
    BY <1>2, <1>4 DEF EnqueueOrClaim
  <2>2. u.state = v.state /\ u.position = Put(t.position, m)
    BY <1>2 DEF TreeType
  <2>3. \A k \in Queued(t) : u.position[k] = t.position[k] /\ u.state[k] = "pending"
    BY <1>1, <1>2, <2>2 DEF Put, Queued
  <2> HIDE DEF u
  <2>4. \A j, k \in Queued(t) :
          t.position[j] < t.position[k] => u.position[k] \notin 1..u.position[j]
    BY <1>1, <2>3 DEF Queued
  <2>5. InOrder(t, u)
    BY <2>3, <2>4 DEF InOrder
  <2>6. QED
    BY <2>1, <2>5 DEF v
<1>5. QED
  BY <1>3, <1>4

(* The next one claimed was at the front (runtime.py                       *)
(* finish_and_claim_next).                                                 *)
LEMMA FinishInOrder ==
  ASSUME NEW t, ConsistentTree(t), NEW c \in Nat, t.active = c, NEW next \in Nat
  PROVE  InOrder(t, FinishAndClaimNext(t, c, next))
<1> DEFINE waiting == {m \in Queued(t) : t.state[m] = "pending"}
           m0 == First(t.position, waiting)
           popped == {m0} \cup {k \in Queued(t) : t.position[k] < t.position[m0]}
           u == FinishAndClaimNext(t, c, next)
<1>1. /\ t \in TreeType /\ t.position \in [Message -> Nat] /\ waiting = Queued(t)
      /\ Queued(t) \in SUBSET Message /\ \A k \in Queued(t) : t.state[k] = "pending"
  BY DEF ConsistentTree, TreeConsistent, QueueIsPending, Queued, TreeType
<1>2. CASE Queued(t) = {}
  BY <1>2 DEF InOrder
<1>3. CASE Queued(t) # {}
  <2>1. m0 \in Queued(t) /\ \A k \in Queued(t) : t.position[m0] <= t.position[k]
    BY <1>1, <1>3, FirstIsFront
  <2>2. u = ClaimNode([t EXCEPT !.position = Without(@, popped)], m0, next)
    BY <1>1, <1>3 DEF FinishAndClaimNext
  <2> HIDE DEF m0, waiting
  <2>3. popped \in SUBSET Message /\ m0 \in popped
    BY <1>1, <2>1
  <2>4. Without(t.position, popped) \in [Message -> Nat]
    BY <1>1, <2>3, WithoutRemoves
  <2> HIDE DEF popped, u
  <2>5. /\ u.position = Without(t.position, popped)
        /\ \A k \in Message : u.state[k] = IF k = m0 THEN "in_progress" ELSE t.state[k]
    BY <1>1, <2>1, <2>2, <2>4 DEF ClaimNode, TreeType
  <2>6. ASSUME NEW j \in Queued(t), NEW k \in Queued(t),
               t.position[j] < t.position[k], u.position[j] > 0
        PROVE  u.position[k] \notin 1..u.position[j] /\ u.state[k] # "in_progress"
    <3>1. k # m0
      BY <1>1, <2>1, <2>6
    <3>2. u.position[k] > 0 => u.position[j] < u.position[k]
      BY <1>1, <2>3, <2>5, <2>6, WithoutOrders
    <3>3. u.position[j] \in Nat /\ u.position[k] \in Nat
      BY <1>1, <2>4, <2>5
    <3>4. u.position[k] \notin 1..u.position[j]
      BY <3>2, <3>3
    <3>5. u.state[k] # "in_progress"
      BY <1>1, <2>5, <3>1
    <3>6. QED
      BY <3>4, <3>5
  <2>7. InOrder(t, u)
    BY <2>6 DEF InOrder
  <2>8. QED
    BY <2>7 DEF u
<1>4. QED
  BY <1>2, <1>3

-----------------------------------------------------------------------------
(* The tree queue. *)

(* Nothing is in the repository yet.                                       *)
LEMMA InitInvariant == Init => IInv
<1>1. SUFFICES ASSUME Init
               PROVE  IInv
  OBVIOUS
<1>2. Allocated = {} /\ Claim = {} /\ \A x \in Ref : index[x] = None
  BY <1>1 DEF Init, Allocated, Claim
<1>3. TypeOK
  BY <1>1, <1>2 DEF Init, TypeOK
<1>4. TreesConsistent /\ ClaimsAreTasks /\ DetachedIsQuiet
  BY <1>2 DEF TreesConsistent, ClaimsAreTasks, DetachedIsQuiet
<1>5. IndexIsExact
  BY <1>1, <1>2 DEF Init, IndexIsExact
<1>6. ResumesFinishedRun /\ OverIsReported /\ LiveSessionsAreOwned
  BY <1>2 DEF ResumesFinishedRun, OverIsReported, LiveSessionsAreOwned
<1>7. QED
  BY <1>3, <1>4, <1>5, <1>6 DEF IInv

-----------------------------------------------------------------------------
(* What the invariant says of the tree a claim belongs to.                 *)
LEMMA ClaimsTree ==
  ASSUME IInv, NEW c \in Claim
  PROVE  LET t == tasks[c].tree
         IN  /\ c \in Nat \ {0} /\ t \in Tree /\ t \in Allocated
             /\ ConsistentTree(trees[t])
             /\ trees[t].active = c /\ trees[t].claimed = tasks[c].node
             /\ trees[t].root = tasks[c].root /\ trees[t].cancelled = tasks[c].cancel
             /\ tasks[c] \in SlotType
             /\ \A d \in Allocated : trees[d].active = c => d = t
<1>1. /\ Claim \subseteq 1..claims /\ claims \in Nat
      /\ trees \in [Tree -> TreeType \cup {None}] /\ tasks[c] \in SlotType
  BY DEF IInv, TypeOK
<1>2. c \in Nat \ {0}
  BY <1>1
<1>3. QED
  BY <1>1, <1>2 DEF IInv, ClaimsAreTasks, TreesConsistent, ConsistentTree, Allocated, SlotType

(* The published trees, and those left, are consistent aggregates.         *)
LEMMA AllocatedTree ==
  ASSUME IInv, NEW t \in Allocated
  PROVE  t \in Tree /\ trees[t] \in TreeType /\ ConsistentTree(trees[t])
BY DEF IInv, TypeOK, TreesConsistent, ConsistentTree, Allocated

(* A step that only calms trees down, and records in the slots which       *)
(* claims it cancelled, keeps the invariant: the reports of the runners,   *)
(* the task's own steps, and the stop commands.                            *)
LEMMA CalmStep ==
  ASSUME IInv, UNCHANGED <<published, index, claims>>, admitted' \in Nat,
         trees' \in [Tree -> TreeType \cup {None}],
         \A t \in Tree \ Allocated : trees'[t] = None,
         \A t \in Allocated : ConsistentTree(trees'[t]) /\ Calms(trees[t], trees'[t]),
         Claim' = Claim, tasks' \in [Claim -> SlotType],
         \A c \in Claim :
           /\ tasks'[c].tree = tasks[c].tree /\ tasks'[c].root = tasks[c].root
           /\ tasks'[c].node = tasks[c].node /\ tasks'[c].resume = tasks[c].resume
           /\ tasks'[c].cancel = trees'[tasks[c].tree].cancelled
           /\ \/ tasks'[c].stage \in OverStage => tasks[c].stage \in OverStage
              \/ trees'[tasks[c].tree].state[tasks[c].node] # "in_progress"
  PROVE  IInv'
<1>1. Allocated' = Allocated
  BY NoneIsNoTree DEF Allocated, ConsistentTree
<1>2. Published' = Published
  BY DEF Published
<1>3. TypeOK'
  BY DEF IInv, TypeOK
<1>4. TreesConsistent'
  BY <1>1 DEF TreesConsistent, ConsistentTree
<1>5. \A t \in Allocated : /\ trees[t] \in TreeType /\ trees'[t] \in TreeType
                           /\ Calms(trees[t], trees'[t])
                           /\ LiveRefs(trees'[t]) = LiveRefs(trees[t])
  BY AllocatedTree, CalmsKeepsRefs DEF ConsistentTree
<1>6. ClaimsAreTasks'
  BY <1>1, <1>5 DEF IInv, ClaimsAreTasks, Calms
<1>7. IndexIsExact'
  <2>1. \A r \in Message : published[r] # None =>
          /\ published[r] \in Allocated
          /\ LiveRefs(trees'[published[r]]) = LiveRefs(trees[published[r]])
          /\ trees'[published[r]].root = trees[published[r]].root
    BY <1>5 DEF IInv, IndexIsExact, Calms
  <2>2. QED
    BY <1>1, <2>1 DEF IInv, IndexIsExact
<1>8. DetachedIsQuiet'
  BY <1>1, <1>2, <1>5 DEF IInv, DetachedIsQuiet, Calms
<1>9. ResumesFinishedRun'
  BY DEF IInv, ResumesFinishedRun
<1>10. OverIsReported'
  <2>1. ASSUME NEW c \in Claim, tasks[c].stage \in OverStage
        PROVE  trees'[tasks[c].tree].state[tasks[c].node] # "in_progress"
    <3>1. /\ trees[tasks[c].tree].state[tasks[c].node] # "in_progress"
          /\ tasks[c].tree \in Allocated /\ tasks[c].node \in Message
      BY <2>1, ClaimsTree DEF IInv, OverIsReported, SlotType
    <3>2. QED
      BY <1>5, <3>1 DEF Calms, Runnable
  <2>2. QED
    BY <2>1 DEF OverIsReported
<1>11. LiveSessionsAreOwned'
  <2>1. ASSUME NEW t \in Allocated, NEW m \in Message
        PROVE  /\ trees'[t].session[m] <= claims
               /\ trees'[t].session[m] \in Claim =>
                    trees'[t].session[m] = trees'[t].active /\ m = trees'[t].claimed
    <3>1. trees[t].active <= claims
      <4> DEFINE active == trees[t].active
      <4>1. claims \in Nat /\ Claim \subseteq 1..claims
        BY DEF IInv, TypeOK
      <4>2. active # 0 => active \in Claim
        BY <2>1 DEF IInv, ClaimsAreTasks
      <4> HIDE DEF active
      <4>3. active # 0 => active \in 1..claims
        BY <4>1, <4>2
      <4>4. active <= claims
        BY <4>1, <4>3
      <4>5. QED
        BY <4>4 DEF active
    <3>2. QED
      BY <1>5, <2>1, <3>1 DEF IInv, LiveSessionsAreOwned, Calms
  <2>2. QED
    BY <1>1, <2>1 DEF LiveSessionsAreOwned
<1>12. QED
  BY <1>3, <1>4, <1>6, <1>7, <1>8, <1>9, <1>10, <1>11 DEF IInv

-----------------------------------------------------------------------------
(* The task of a claim reports to the tree that made the claim, or its     *)
(* report changes nothing: another tree published under the same identity  *)
(* has not made the claim, and a detached tree is already quiet.           *)
LEMMA ReportReaches ==
  ASSUME IInv, NEW c \in Claim, Target(c) # None
  PROVE  /\ Target(c) \in Allocated /\ Target(c) \in Published
         /\ trees[Target(c)].active = c => Target(c) = tasks[c].tree
<1>1. tasks[c].root \in Message
  BY ClaimsTree DEF SlotType
<1>2. QED
  BY <1>1, ClaimsTree DEF IInv, IndexIsExact, Target, Published, Allocated

\* A task whose reports find no tree, or another one, runs a node already marked.
LEMMA UnreachedIsQuiet ==
  ASSUME IInv, NEW c \in Claim, Target(c) # tasks[c].tree
  PROVE  trees[tasks[c].tree].state[tasks[c].node] # "in_progress"
<1>1. /\ tasks[c].root \in Message /\ tasks[c].node \in Message
      /\ tasks[c].tree \in Allocated /\ trees[tasks[c].tree].root = tasks[c].root
  BY ClaimsTree DEF SlotType
<1>2. tasks[c].tree \notin Published
  BY <1>1, NoneIsNoTree, QueueAssumption
     DEF IInv, IndexIsExact, Target, Published, Allocated
<1>3. QED
  BY <1>1, <1>2 DEF IInv, DetachedIsQuiet, Runnable

(* A runner's report that keeps its tree consistent keeps the invariant;   *)
(* one that ends the run must leave nothing in progress.                   *)
LEMMA ReportStep ==
  ASSUME IInv, NEW c \in Claim, NEW u, NEW stage \in TaskStage, NEW captured \in BOOLEAN,
         UNCHANGED <<published, index, claims, admitted>>,
         Report(c, u),
         tasks' = [tasks EXCEPT ![c] = [@ EXCEPT !.stage = stage, !.captured = captured]],
         Target(c) # None =>
           /\ ConsistentTree(u) /\ Calms(trees[Target(c)], u)
           /\ u.cancelled = trees[Target(c)].cancelled
           /\ stage \in OverStage /\ trees[Target(c)].active = c =>
                u.state[u.claimed] # "in_progress"
  PROVE  IInv'
<1>1. /\ trees \in [Tree -> TreeType \cup {None}] /\ tasks \in [Claim -> SlotType]
      /\ admitted \in Nat
  BY DEF IInv, TypeOK
<1>2. Target(c) # None => Target(c) \in Allocated
  BY ReportReaches
<1>3. /\ trees' \in [Tree -> TreeType \cup {None}]
      /\ \A t \in Tree : trees'[t] = IF t = Target(c) THEN u ELSE trees[t]
  BY <1>1, <1>2, QueueAssumption DEF Report, ConsistentTree, Allocated
<1>4. \A t \in Tree \ Allocated : trees'[t] = None
  BY <1>2, <1>3, QueueAssumption DEF Allocated
<1>5. \A t \in Allocated : /\ ConsistentTree(trees'[t]) /\ Calms(trees[t], trees'[t])
                           /\ trees'[t].cancelled = trees[t].cancelled
  <2>1. ASSUME NEW t \in Allocated
        PROVE  /\ ConsistentTree(trees'[t]) /\ Calms(trees[t], trees'[t])
               /\ trees'[t].cancelled = trees[t].cancelled
    <3>1. CASE t = Target(c)
      BY <1>3, <2>1, <3>1, QueueAssumption, AllocatedTree DEF Allocated
    <3>2. CASE t # Target(c)
      <4>1. trees'[t] = trees[t]
        BY <1>3, <2>1, <3>2, AllocatedTree
      <4>2. QED
        BY <2>1, <4>1, AllocatedTree DEF Calms
    <3>3. QED
      BY <3>1, <3>2
  <2>2. QED
    BY <2>1
<1>6. Claim' = Claim /\ tasks' \in [Claim -> SlotType]
  BY <1>1 DEF Claim, SlotType
<1>7. \A d \in Claim : /\ tasks'[d].tree = tasks[d].tree /\ tasks'[d].root = tasks[d].root
                       /\ tasks'[d].node = tasks[d].node /\ tasks'[d].resume = tasks[d].resume
                       /\ tasks'[d].cancel = tasks[d].cancel
                       /\ d # c => tasks'[d] = tasks[d]
                       /\ d = c => tasks'[d].stage = stage
  BY <1>1 DEF SlotType
<1>8. \A d \in Claim : tasks'[d].cancel = trees'[tasks[d].tree].cancelled
  BY <1>5, <1>7, ClaimsTree
<1>9. ASSUME NEW d \in Claim
      PROVE  \/ tasks'[d].stage \in OverStage => tasks[d].stage \in OverStage
             \/ trees'[tasks[d].tree].state[tasks[d].node] # "in_progress"
  <2>1. CASE d # c
    BY <1>7, <1>9, <2>1
  <2>2. CASE d = c /\ Target(c) = tasks[c].tree
    <3>1. /\ tasks[c].tree \in Tree /\ trees[tasks[c].tree].active = c
          /\ trees[tasks[c].tree].claimed = tasks[c].node
      BY ClaimsTree
    <3>2. /\ trees'[tasks[c].tree] = u /\ Target(c) # None
          /\ u.claimed = tasks[c].node
      BY <1>3, <2>2, <3>1, QueueAssumption DEF Calms
    <3>3. QED
      BY <1>7, <2>2, <3>1, <3>2
  <2>3. CASE d = c /\ Target(c) # tasks[c].tree
    <3>1. trees'[tasks[c].tree] = trees[tasks[c].tree]
      BY <1>3, <2>3, ClaimsTree
    <3>2. QED
      BY <2>3, <3>1, UnreachedIsQuiet
  <2>4. QED
    BY <2>1, <2>2, <2>3
<1>10. QED
  BY <1>1, <1>3, <1>4, <1>5, <1>6, <1>7, <1>8, <1>9, CalmStep

(* A task that only moves on keeps the invariant, if what it leaves behind *)
(* was reported or cancelled.                                              *)
LEMMA StageStep ==
  ASSUME IInv, NEW c \in Claim, NEW stage \in TaskStage,
         UNCHANGED <<trees, published, index, claims, admitted>>,
         GoTo(c, stage),
         stage \in OverStage => tasks[c].stage \in OverStage \/ tasks[c].cancel
  PROVE  IInv'
<1>1. /\ trees \in [Tree -> TreeType \cup {None}] /\ tasks \in [Claim -> SlotType]
      /\ admitted \in Nat
  BY DEF IInv, TypeOK
<1>2. Claim' = Claim /\ tasks' \in [Claim -> SlotType]
  BY <1>1 DEF Claim, GoTo, SlotType
<1>3. \A d \in Claim : /\ tasks'[d].tree = tasks[d].tree /\ tasks'[d].root = tasks[d].root
                       /\ tasks'[d].node = tasks[d].node /\ tasks'[d].resume = tasks[d].resume
                       /\ tasks'[d].cancel = tasks[d].cancel
                       /\ tasks'[d].stage = IF d = c THEN stage ELSE tasks[d].stage
  BY <1>1 DEF GoTo, SlotType
<1>4. \A t \in Allocated : ConsistentTree(trees[t]) /\ Calms(trees[t], trees[t])
  BY AllocatedTree DEF Calms
<1>5. \A d \in Claim : /\ tasks[d].cancel = trees[tasks[d].tree].cancelled
                       /\ tasks[d].cancel => trees[tasks[d].tree].state[tasks[d].node] # "in_progress"
  <2>1. ASSUME NEW d \in Claim
        PROVE  /\ tasks[d].cancel = trees[tasks[d].tree].cancelled
               /\ tasks[d].cancel => trees[tasks[d].tree].state[tasks[d].node] # "in_progress"
    <3>1. /\ ConsistentTree(trees[tasks[d].tree])
          /\ trees[tasks[d].tree].cancelled = tasks[d].cancel
          /\ tasks[d].node \in Message
      BY <2>1, ClaimsTree DEF SlotType
    <3>2. QED
      BY <3>1 DEF ConsistentTree, TreeConsistent, OneInProgress
  <2>2. QED
    BY <2>1
<1>6. \A t \in Tree \ Allocated : trees[t] = None
  BY DEF Allocated
<1>7. \A d \in Claim : /\ tasks'[d].cancel = trees'[tasks[d].tree].cancelled
                       /\ \/ tasks'[d].stage \in OverStage => tasks[d].stage \in OverStage
                          \/ trees'[tasks[d].tree].state[tasks[d].node] # "in_progress"
  BY <1>3, <1>5
<1>8. QED
  BY <1>1, <1>2, <1>3, <1>4, <1>6, <1>7, CalmStep

(* The steps a task takes by itself before and after its runner.           *)
LEMMA TaskSteps ==
  ASSUME IInv, NEW c \in Claim,
         \/ EnterTask(c) \/ CancelledUnentered(c) \/ Announced(c)
         \/ RunnerGotSession(c) \/ RunnerCleanedUp(c)
  PROVE  IInv'
<1>1. CASE EnterTask(c)
  <2>1. PICK stage \in {"announcing", "starting"} : GoTo(c, stage)
    BY <1>1 DEF EnterTask
  <2>2. QED
    BY <1>1, <2>1, StageStep DEF EnterTask, TaskStage, OverStage
<1>2. CASE CancelledUnentered(c)
  BY <1>2, StageStep DEF CancelledUnentered, TaskStage
<1>3. CASE Announced(c)
  <2>1. PICK stage \in TaskStage : /\ GoTo(c, stage)
                                   /\ stage \in OverStage => tasks[c].cancel
    BY <1>3 DEF Announced, TaskStage, OverStage
  <2>2. QED
    BY <1>3, <2>1, StageStep DEF Announced
<1>4. CASE RunnerGotSession(c)
  BY <1>4, StageStep DEF RunnerGotSession, TaskStage, OverStage
<1>5. CASE RunnerCleanedUp(c)
  BY <1>5, StageStep DEF RunnerCleanedUp, At, TaskStage, OverStage
<1>6. QED
  BY <1>1, <1>2, <1>3, <1>4, <1>5

(* The steps in which a runner reports.                                    *)
LEMMA RunnerSteps ==
  ASSUME IInv, NEW c \in Claim,
         \/ RunnerSessionLimit(c) \/ RunnerSessionInfo(c) \/ RunnerErrorEvent(c)
         \/ RunnerComplete(c) \/ RunnerFails(c) \/ RunnerCancelled(c)
  PROVE  IInv'
<1>1. /\ tasks \in [Claim -> SlotType] /\ tasks[c] \in SlotType
      /\ tasks[c].stage \in TaskStage /\ tasks[c].captured \in BOOLEAN
      /\ c \in Nat \ {0}
  BY ClaimsTree DEF IInv, TypeOK, SlotType
<1>2. /\ Target(c) # None => ConsistentTree(trees[Target(c)])
      /\ "cleanup" \in TaskStage
  BY ReportReaches, AllocatedTree DEF TaskStage
<1>3. \A stage \in TaskStage :
        GoTo(c, stage) =>
          tasks' = [tasks EXCEPT ![c] = [@ EXCEPT !.stage = stage, !.captured = tasks[c].captured]]
  BY <1>1 DEF GoTo, SlotType
<1>4. CASE RunnerSessionLimit(c)
  BY <1>1, <1>2, <1>3, <1>4, FailClaimConsistent, ReportStep DEF RunnerSessionLimit
<1>5. CASE RunnerSessionInfo(c)
  <2>1. tasks' = [tasks EXCEPT ![c] = [@ EXCEPT !.stage = "running", !.captured = TRUE]]
    BY <1>1, <1>5 DEF RunnerSessionInfo, At, SlotType
  <2>2. QED
    BY <1>1, <1>2, <1>5, <2>1, RecordSessionConsistent, ReportStep
       DEF RunnerSessionInfo, TaskStage, OverStage
<1>6. CASE RunnerErrorEvent(c)
  <2>1. tasks' = [tasks EXCEPT ![c] = [@ EXCEPT !.stage = "running",
                                                !.captured = tasks[c].captured]]
    BY <1>1, <1>6 DEF RunnerErrorEvent, At, SlotType
  <2>2. QED
    BY <1>1, <1>2, <1>6, <2>1, FailClaimConsistent, ReportStep
       DEF RunnerErrorEvent, TaskStage, OverStage
<1>7. CASE RunnerComplete(c)
  <2> DEFINE u == CompleteClaim(trees[Target(c)], c, tasks[c].captured)
  <2>1. /\ Report(c, u) /\ GoTo(c, "cleanup")
        /\ UNCHANGED <<published, index, claims, admitted>>
    BY <1>7 DEF RunnerComplete
  <2>2. tasks' = [tasks EXCEPT ![c] = [@ EXCEPT !.stage = "cleanup",
                                                !.captured = tasks[c].captured]]
    BY <1>2, <1>3, <2>1
  <2>3. Target(c) # None =>
          /\ ConsistentTree(u) /\ Calms(trees[Target(c)], u)
          /\ u.cancelled = trees[Target(c)].cancelled
          /\ trees[Target(c)].active = c => u.state[u.claimed] # "in_progress"
    BY <1>1, <1>2, CompleteClaimConsistent
  <2> HIDE DEF u
  <2>4. QED
    BY <1>1, <1>2, <2>1, <2>2, <2>3, ReportStep
<1>8. CASE RunnerFails(c)
  BY ZenonT(30), <1>1, <1>2, <1>3, <1>8, FailClaimConsistent, ReportStep DEF RunnerFails
<1>9. CASE RunnerCancelled(c)
  <2> DEFINE u == FailClaim(trees[Target(c)], c, FALSE)
  <2>1. /\ Report(c, u) /\ GoTo(c, "cleanup")
        /\ UNCHANGED <<published, index, claims, admitted>>
    BY <1>9 DEF RunnerCancelled
  <2>2. tasks' = [tasks EXCEPT ![c] = [@ EXCEPT !.stage = "cleanup",
                                                !.captured = tasks[c].captured]]
    BY <1>2, <1>3, <2>1
  <2>3. Target(c) # None =>
          /\ ConsistentTree(u) /\ Calms(trees[Target(c)], u)
          /\ u.cancelled = trees[Target(c)].cancelled
          /\ trees[Target(c)].active = c => u.state[u.claimed] # "in_progress"
    BY <1>1, <1>2, FailClaimConsistent
  <2> HIDE DEF u
  <2>4. QED
    BY <1>1, <1>2, <2>1, <2>2, <2>3, ReportStep
<1>10. QED
  BY <1>4, <1>5, <1>6, <1>7, <1>8, <1>9

-----------------------------------------------------------------------------
(* Cancelling the tasks of the claims that trees have cancelled keeps the  *)
(* slots and the trees in agreement (processor.py cancel).                 *)
LEMMA CancelledSlots ==
  ASSUME IInv, NEW ts, NEW S \in SUBSET Allocated,
         \A t \in S : /\ ts[t].active = trees[t].active
                      /\ ts[t].cancelled \in BOOLEAN
                      /\ trees[t].cancelled => ts[t].cancelled
  PROVE  LET slots == CancelTasks(tasks, ts, S)
         IN  /\ slots \in [Claim -> SlotType] /\ DOMAIN slots = Claim
             /\ \A c \in Claim :
                  /\ slots[c].tree = tasks[c].tree /\ slots[c].root = tasks[c].root
                  /\ slots[c].node = tasks[c].node /\ slots[c].resume = tasks[c].resume
                  /\ slots[c].stage = tasks[c].stage
                  /\ slots[c].cancel = IF tasks[c].tree \in S
                                       THEN ts[tasks[c].tree].cancelled ELSE tasks[c].cancel
<1> DEFINE slots == CancelTasks(tasks, ts, S)
           hit(c) == \E t \in S : ts[t].active = c /\ ts[t].cancelled
<1>1. tasks \in [Claim -> SlotType]
  BY DEF IInv, TypeOK
<1>2. slots = [c \in Claim |-> IF hit(c) THEN [tasks[c] EXCEPT !.cancel = TRUE] ELSE tasks[c]]
  BY DEF CancelTasks, Claim
<1>3. \A c \in Claim : /\ tasks[c].cancel \in BOOLEAN
                       /\ trees[tasks[c].tree].cancelled = tasks[c].cancel
                       /\ hit(c) <=> tasks[c].tree \in S /\ ts[tasks[c].tree].cancelled
  <2>1. ASSUME NEW c \in Claim
        PROVE  /\ tasks[c].cancel \in BOOLEAN
               /\ trees[tasks[c].tree].cancelled = tasks[c].cancel
               /\ hit(c) <=> tasks[c].tree \in S /\ ts[tasks[c].tree].cancelled
    BY <2>1, ClaimsTree DEF SlotType
  <2>2. QED
    BY <2>1
<1> HIDE DEF slots, hit
<1>4. \A c \in Claim : slots[c] = IF hit(c) THEN [tasks[c] EXCEPT !.cancel = TRUE] ELSE tasks[c]
  BY <1>2
<1>5. slots \in [Claim -> SlotType] /\ DOMAIN slots = Claim
  BY <1>1, <1>2 DEF SlotType
<1>6. \A c \in Claim :
        /\ slots[c].tree = tasks[c].tree /\ slots[c].root = tasks[c].root
        /\ slots[c].node = tasks[c].node /\ slots[c].resume = tasks[c].resume
        /\ slots[c].stage = tasks[c].stage
        /\ slots[c].cancel = IF hit(c) THEN TRUE ELSE tasks[c].cancel
  BY <1>1, <1>4 DEF SlotType
<1>7. \A c \in Claim : slots[c].cancel = IF tasks[c].tree \in S
                                         THEN ts[tasks[c].tree].cancelled ELSE tasks[c].cancel
  <2>1. SUFFICES ASSUME NEW c \in Claim
                 PROVE  slots[c].cancel = IF tasks[c].tree \in S
                          THEN ts[tasks[c].tree].cancelled ELSE tasks[c].cancel
    OBVIOUS
  <2>2. CASE hit(c)
    <3>1. /\ tasks[c].tree \in S /\ ts[tasks[c].tree].cancelled
          /\ ts[tasks[c].tree].cancelled \in BOOLEAN
      BY <1>3, <2>2
    <3>2. slots[c].cancel = TRUE
      BY <1>6, <2>2
    <3>3. ts[tasks[c].tree].cancelled = TRUE
      BY <3>1
    <3>4. QED
      BY <3>1, <3>2, <3>3
  <2>3. CASE ~hit(c) /\ tasks[c].tree \in S
    <3>1. /\ ts[tasks[c].tree].cancelled = FALSE
          /\ ~trees[tasks[c].tree].cancelled
      BY <1>3, <2>3
    <3>2. slots[c].cancel = tasks[c].cancel
      BY <1>6, <2>3
    <3>3. tasks[c].cancel = FALSE
      BY <1>3, <3>1
    <3>4. QED
      BY <2>3, <3>1, <3>2, <3>3
  <2>4. CASE ~hit(c) /\ tasks[c].tree \notin S
    BY <1>6, <2>4
  <2>5. QED
    BY <2>2, <2>3, <2>4
<1>8. QED
  BY <1>5, <1>6, <1>7 DEF slots

(* Cancelling nodes in any set of trees keeps the invariant.               *)
LEMMA StopStep ==
  ASSUME IInv, NEW S \in SUBSET Allocated, NEW nodes \in [S -> SUBSET Message],
         trees' = [t \in Tree |-> IF t \in S THEN Cancel(trees[t], nodes[t]) ELSE trees[t]],
         tasks' = CancelTasks(tasks, trees', S),
         UNCHANGED <<published, index, claims, admitted>>
  PROVE  IInv'
<1>1. /\ trees \in [Tree -> TreeType \cup {None}] /\ tasks \in [Claim -> SlotType]
      /\ admitted \in Nat /\ Allocated \subseteq Tree
  BY DEF IInv, TypeOK, Allocated
<1>2. \A t \in Allocated : ConsistentTree(trees'[t]) /\ Calms(trees[t], trees'[t])
  <2>1. ASSUME NEW t \in Allocated
        PROVE  ConsistentTree(trees'[t]) /\ Calms(trees[t], trees'[t])
    <3>1. CASE t \in S
      <4>1. trees'[t] = Cancel(trees[t], nodes[t]) /\ nodes[t] \in SUBSET Message
        BY <1>1, <3>1
      <4>2. QED
        BY <2>1, <4>1, AllocatedTree, CancelConsistent
    <3>2. CASE t \notin S
      <4>1. trees'[t] = trees[t]
        BY <1>1, <2>1, <3>2
      <4>2. QED
        BY <2>1, <4>1, AllocatedTree DEF Calms
    <3>3. QED
      BY <3>1, <3>2
  <2>2. QED
    BY <2>1
<1>3. \A t \in Tree \ Allocated : trees'[t] = None
  BY <1>1 DEF Allocated
<1>4. trees' \in [Tree -> TreeType \cup {None}]
  <2>1. \A t \in Tree : trees'[t] \in TreeType \cup {None}
    BY <1>2, <1>3 DEF ConsistentTree
  <2>2. \E e : trees' = [t \in Tree |-> e[t]]
    <3> DEFINE e == [t \in Tree |-> IF t \in S THEN Cancel(trees[t], nodes[t]) ELSE trees[t]]
    <3>1. trees' = [t \in Tree |-> e[t]]
      OBVIOUS
    <3>2. QED
      BY <3>1
  <2>3. QED
    BY <2>1, <2>2
<1>5. \A t \in S : /\ trees'[t].active = trees[t].active
                   /\ trees'[t].cancelled \in BOOLEAN
                   /\ trees[t].cancelled => trees'[t].cancelled
  BY <1>1, <1>2 DEF Calms, ConsistentTree, TreeType
<1>6. /\ tasks' \in [Claim -> SlotType] /\ DOMAIN tasks' = Claim
      /\ \A c \in Claim :
           /\ tasks'[c].tree = tasks[c].tree /\ tasks'[c].root = tasks[c].root
           /\ tasks'[c].node = tasks[c].node /\ tasks'[c].resume = tasks[c].resume
           /\ tasks'[c].stage = tasks[c].stage
           /\ tasks'[c].cancel = IF tasks[c].tree \in S
                                 THEN trees'[tasks[c].tree].cancelled ELSE tasks[c].cancel
  BY <1>5, CancelledSlots
<1>7. \A c \in Claim : tasks'[c].cancel = trees'[tasks[c].tree].cancelled
  <2>1. ASSUME NEW c \in Claim
        PROVE  tasks'[c].cancel = trees'[tasks[c].tree].cancelled
    <3>1. tasks[c].tree \in Tree /\ trees[tasks[c].tree].cancelled = tasks[c].cancel
      BY <2>1, ClaimsTree
    <3>2. QED
      BY <1>1, <1>6, <2>1, <3>1
  <2>2. QED
    BY <2>1
<1>8. Claim' = Claim
  BY <1>6 DEF Claim
<1>9. QED
  BY ZenonT(30), <1>1, <1>2, <1>3, <1>4, <1>6, <1>7, <1>8, CalmStep

(* The index resolves a reference to the published tree that holds it.     *)
LEMMA ResolvedTree ==
  ASSUME IInv, NEW r \in Ref, TreeFor(r) # None
  PROVE  /\ index[r] \in Message /\ published[index[r]] = TreeFor(r)
         /\ TreeFor(r) \in Allocated /\ r \in LiveRefs(trees[TreeFor(r)])
         /\ trees[TreeFor(r)].root = index[r]
<1>1. index[r] \in Message /\ published[index[r]] = TreeFor(r)
  BY DEF IInv, TypeOK, TreeFor
<1>2. index[r] \in {s \in Message : published[s] # None /\ r \in LiveRefs(trees[published[s]])}
  BY <1>1, MessageAssumption DEF IInv, IndexIsExact
<1>3. QED
  BY <1>1, <1>2 DEF IInv, IndexIsExact

\* The registry holds live tree objects only.
LEMMA PublishedIsAllocated ==
  ASSUME IInv
  PROVE  Published \in SUBSET Allocated
BY QueueAssumption DEF IInv, IndexIsExact, Published

(* Stop commands.                                                          *)
LEMMA StopReplyStep ==
  ASSUME IInv, NEW r \in Ref, StopReply(r)
  PROVE  IInv'
<1> DEFINE t == TreeFor(r)
           m == Owner(r)
<1>1. t \in Allocated /\ m \in Message
  BY ResolvedTree DEF StopReply, Ref, Owner
<1>2. CASE UNCHANGED <<trees, tasks>>
  BY <1>2 DEF StopReply, IInv, TypeOK, TreesConsistent, ClaimsAreTasks, IndexIsExact,
     DetachedIsQuiet, ResumesFinishedRun, OverIsReported, LiveSessionsAreOwned,
     Allocated, Claim, Published
<1>3. CASE /\ trees' = [trees EXCEPT ![t] = CancelNode(@, m)]
           /\ tasks' = CancelTasks(tasks, trees', {t})
  <2> DEFINE nodes == [k \in {t} |-> {m}]
  <2>1. trees' = [k \in Tree |-> IF k \in {t} THEN Cancel(trees[k], nodes[k]) ELSE trees[k]]
    <3>1. trees \in [Tree -> TreeType \cup {None}]
      BY DEF IInv, TypeOK
    <3>2. QED
      BY <1>3, <3>1 DEF CancelNode
  <2>2. nodes \in [{t} -> SUBSET Message]
    BY <1>1
  <2>3. UNCHANGED <<published, index, claims, admitted>>
    BY DEF StopReply
  <2> HIDE DEF nodes, t
  <2>4. QED
    BY <1>1, <1>3, <2>1, <2>2, <2>3, StopStep
<1>4. QED
  BY <1>2, <1>3 DEF StopReply

(* Stop of every conversation (manager.py cancel_all).                     *)
LEMMA StopAllStep ==
  ASSUME IInv, StopAll
  PROVE  IInv'
<1>1. PICK S \in Reached(Published) :
        trees' = CancelTrees(S) /\ tasks' = CancelTasks(tasks, CancelTrees(S), S)
  BY DEF StopAll
<1>2. S \in SUBSET Allocated
  BY <1>1, PublishedIsAllocated DEF Reached
<1> DEFINE nodes == [k \in S |-> Message]
<1>3. trees' = [k \in Tree |-> IF k \in S THEN Cancel(trees[k], nodes[k]) ELSE trees[k]]
  BY <1>1 DEF CancelTrees, CancelAll
<1>4. nodes \in [S -> SUBSET Message] /\ tasks' = CancelTasks(tasks, trees', S)
  BY <1>1
<1>5. UNCHANGED <<published, index, claims, admitted>>
  BY DEF StopAll
<1> HIDE DEF nodes
<1>6. QED
  BY <1>2, <1>3, <1>4, <1>5, StopStep

(* A reply-clear that raises has cancelled waiting nodes only: the claim   *)
(* was cancelled before.                                                   *)
LEMMA ClearReplyRaisesStep ==
  ASSUME IInv, NEW r \in Ref, ClearReplyRaises(r)
  PROVE  IInv'
<1> DEFINE t == TreeFor(r)
<1>1. t \in Allocated
  BY ResolvedTree DEF ClearReplyRaises
<1>2. PICK S \in SUBSET (AffectedNodes(trees[t], r) \ {trees[t].claimed}) :
        trees' = [trees EXCEPT ![t] = Cancel(@, S)]
  BY DEF ClearReplyRaises
<1>3. /\ trees \in [Tree -> TreeType \cup {None}] /\ tasks \in [Claim -> SlotType]
      /\ admitted \in Nat /\ Allocated \subseteq Tree
      /\ trees[t] \in TreeType /\ ConsistentTree(trees[t])
  BY <1>1, AllocatedTree DEF IInv, TypeOK, Allocated
<1>4. S \in SUBSET Message
  BY <1>3 DEF AffectedNodes, RemovedNodes, Present, Ref, Owner
<1> DEFINE u == Cancel(trees[t], S)
<1>5. /\ ConsistentTree(u) /\ Calms(trees[t], u) /\ u.cancelled = trees[t].cancelled
  <2>1. trees[t].claimed \notin S /\ trees[t].cancelled \in BOOLEAN
    BY <1>3 DEF TreeType
  <2>2. u.cancelled = (trees[t].cancelled \/ (trees[t].active # 0 /\ trees[t].claimed \in S))
    BY <1>3, <1>4, CancelEffect
  <2>3. u.cancelled = trees[t].cancelled
    BY <2>1, <2>2
  <2>4. QED
    BY <1>3, <1>4, <2>3, CancelConsistent
<1> HIDE DEF u, t
<1>6. /\ trees' \in [Tree -> TreeType \cup {None}]
      /\ \A k \in Tree : trees'[k] = IF k = t THEN u ELSE trees[k]
  BY <1>2, <1>3, <1>5 DEF u, ConsistentTree
<1>7. \A k \in Tree \ Allocated : trees'[k] = None
  BY <1>1, <1>6 DEF Allocated
<1>8. \A k \in Allocated : /\ ConsistentTree(trees'[k]) /\ Calms(trees[k], trees'[k])
                           /\ trees'[k].cancelled = trees[k].cancelled
  <2>1. ASSUME NEW k \in Allocated, k # t
        PROVE  ConsistentTree(trees[k]) /\ Calms(trees[k], trees[k])
    BY <2>1, AllocatedTree DEF Calms
  <2>2. QED
    BY <1>3, <1>5, <1>6, <2>1
<1>9. UNCHANGED <<published, index, tasks, claims, admitted>>
  BY DEF ClearReplyRaises
<1>10. \A c \in Claim : tasks[c].cancel = trees'[tasks[c].tree].cancelled
  BY <1>8, ClaimsTree
<1>11. QED
  BY <1>3, <1>6, <1>7, <1>8, <1>9, <1>10, CalmStep DEF Claim

-----------------------------------------------------------------------------
(* Detaching trees whose nodes are all over, and whose claims are          *)
(* cancelled, keeps the invariant (manager.py _clear_scope, and            *)
(* _remove_message_subtree of a root).                                     *)
LEMMA DetachStep ==
  ASSUME IInv, NEW S \in SUBSET Published, NEW ts \in [Tree -> TreeType \cup {None}],
         \A t \in Tree \ S : ts[t] = trees[t],
         \A t \in S :
           /\ ConsistentTree(ts[t])
           /\ ts[t].root = trees[t].root /\ ts[t].active = trees[t].active
           /\ ts[t].claimed = trees[t].claimed
           /\ trees[t].cancelled => ts[t].cancelled
           /\ ts[t].active # 0 => ts[t].cancelled
           /\ \A m \in Message : /\ ts[t].state[m] \notin Runnable
                                 /\ ts[t].session[m] \in {0, trees[t].session[m]},
         trees' = Discard(ts, S), tasks' = CancelTasks(tasks, ts, S), Detach(S),
         UNCHANGED <<claims, admitted>>
  PROVE  IInv'
<1>1. /\ trees \in [Tree -> TreeType \cup {None}] /\ tasks \in [Claim -> SlotType]
      /\ admitted \in Nat /\ claims \in Nat /\ Claim \subseteq 1..claims
      /\ published \in [Message -> Tree \cup {None}] /\ index \in [Ref -> Message \cup {None}]
      /\ S \in SUBSET Allocated /\ Allocated \subseteq Tree /\ Published \subseteq Tree
  BY PublishedIsAllocated DEF IInv, TypeOK, Allocated, Published
<1>2. \A t \in Tree : trees'[t] = IF t \in S THEN IF ts[t].active = 0 THEN None ELSE ts[t]
                                  ELSE trees[t]
  BY DEF Discard
<1>3. trees' \in [Tree -> TreeType \cup {None}]
  <2>1. trees' = [t \in Tree |-> IF t \in S /\ ts[t].active = 0 THEN None ELSE ts[t]]
    BY DEF Discard
  <2> QED BY <2>1
<1>4. Allocated' = {t \in Allocated : t \notin S \/ ts[t].active # 0}
  BY <1>1, <1>2, NoneIsNoTree DEF Allocated, ConsistentTree
<1>5. \A t \in S : ts[t].cancelled \in BOOLEAN
  BY DEF ConsistentTree, TreeType
<1>6. /\ tasks' \in [Claim -> SlotType] /\ Claim' = Claim
      /\ \A c \in Claim :
           /\ tasks'[c].tree = tasks[c].tree /\ tasks'[c].root = tasks[c].root
           /\ tasks'[c].node = tasks[c].node /\ tasks'[c].resume = tasks[c].resume
           /\ tasks'[c].stage = tasks[c].stage
           /\ tasks'[c].cancel = IF tasks[c].tree \in S
                                 THEN ts[tasks[c].tree].cancelled ELSE tasks[c].cancel
  BY <1>1, <1>5, CancelledSlots DEF Claim
<1>7. \A c \in Claim : /\ tasks[c].tree \in Tree /\ tasks[c].tree \in Allocated'
                       /\ tasks[c].node \in Message
                       /\ IF tasks[c].tree \in S
                          THEN trees'[tasks[c].tree] = ts[tasks[c].tree]
                          ELSE trees'[tasks[c].tree] = trees[tasks[c].tree]
  BY <1>2, <1>4, ClaimsTree DEF SlotType
<1>8. /\ \A r \in Message : published'[r] = IF published[r] \in S THEN None ELSE published[r]
      /\ published' \in [Message -> Tree \cup {None}]
      /\ \A x \in Ref : index'[x] = IF index[x] # None /\ published[index[x]] \in S
                                    THEN None ELSE index[x]
      /\ index' \in [Ref -> Message \cup {None}]
  BY <1>1 DEF Detach
<1>9. Published' = Published \ S
  BY <1>1, <1>8, QueueAssumption DEF Published
<1>10. TypeOK'
  BY <1>1, <1>3, <1>6, <1>8 DEF TypeOK
<1>11. TreesConsistent'
  BY <1>2, <1>4 DEF IInv, TreesConsistent, ConsistentTree, Allocated
<1>12. ClaimsAreTasks'
  <2>1. \A t \in Allocated' : trees'[t].active # 0 =>
          trees'[t].active \in Claim /\ tasks'[trees'[t].active].tree = t
    <3>1. \A t \in Allocated' : t \in Allocated /\ trees'[t].active = trees[t].active
      BY <1>1, <1>2, <1>4
    <3>2. \A t \in Allocated : trees[t].active # 0 =>
            trees[t].active \in Claim /\ tasks[trees[t].active].tree = t
      BY DEF IInv, ClaimsAreTasks
    <3>3. QED
      BY <1>6, <3>1, <3>2
  <2>2. ASSUME NEW c \in Claim
        PROVE  /\ tasks[c].tree \in Allocated'
               /\ trees'[tasks[c].tree].active = c
               /\ trees'[tasks[c].tree].claimed = tasks[c].node
               /\ trees'[tasks[c].tree].root = tasks[c].root
               /\ trees'[tasks[c].tree].cancelled = tasks'[c].cancel
    BY <1>6, <1>7, <2>2, ClaimsTree
  <2>3. QED
    BY <1>6, <2>1, <2>2 DEF ClaimsAreTasks
<1>13. IndexIsExact'
  <2>1. \A r \in Message : published'[r] # None =>
          /\ published'[r] = published[r] /\ published[r] \in Allocated'
          /\ trees'[published[r]] = trees[published[r]]
    BY <1>1, <1>2, <1>4, <1>8 DEF IInv, IndexIsExact
  <2>2. \A r \in Message :
          published'[r] # None =>
            /\ published'[r] \in Allocated'
            /\ trees'[published'[r]].root = r
            /\ Prompt(r) \in LiveRefs(trees'[published'[r]])
    BY <2>1 DEF IInv, IndexIsExact
  <2>3. \A r, s \in Message : published'[r] = published'[s] /\ published'[r] # None => r = s
    BY <2>1 DEF IInv, IndexIsExact
  <2>4. ASSUME NEW x \in Ref
        PROVE  {r \in Message : published'[r] # None /\ x \in LiveRefs(trees'[published'[r]])}
                 = IF index'[x] = None THEN {} ELSE {index'[x]}
    <3> DEFINE holders == {r \in Message : published[r] # None /\ x \in LiveRefs(trees[published[r]])}
    <3>1. holders = IF index[x] = None THEN {} ELSE {index[x]}
      BY <2>4 DEF IInv, IndexIsExact
    <3>2. {r \in Message : published'[r] # None /\ x \in LiveRefs(trees'[published'[r]])}
            = {r \in holders : published[r] \notin S}
      BY <1>1, <1>8, <2>1, QueueAssumption
    <3>3. QED
      BY <1>8, <2>4, <3>1, <3>2
  <2>5. QED
    BY <2>2, <2>3, <2>4 DEF IndexIsExact
<1>14. DetachedIsQuiet'
  BY <1>1, <1>2, <1>4, <1>9 DEF IInv, DetachedIsQuiet
<1>15. ResumesFinishedRun'
  BY <1>6 DEF IInv, ResumesFinishedRun
<1>16. OverIsReported'
  <2>1. ASSUME NEW c \in Claim, tasks[c].stage \in OverStage
        PROVE  trees'[tasks[c].tree].state[tasks[c].node] # "in_progress"
    BY <1>7, <2>1 DEF IInv, OverIsReported, Runnable
  <2>2. QED
    BY <1>6, <2>1 DEF OverIsReported
<1>17. LiveSessionsAreOwned'
  <2>1. ASSUME NEW t \in Allocated', NEW m \in Message
        PROVE  /\ trees'[t].session[m] <= claims
               /\ trees'[t].session[m] \in Claim =>
                    trees'[t].session[m] = trees'[t].active /\ m = trees'[t].claimed
    <3>1. t \in Allocated /\ t \in Tree
      BY <1>1, <1>4
    <3>2. /\ trees[t].session[m] <= claims
          /\ trees[t].session[m] \in Claim =>
               trees[t].session[m] = trees[t].active /\ m = trees[t].claimed
      BY <3>1 DEF IInv, LiveSessionsAreOwned
    <3>3. 0 <= claims /\ 0 \notin Claim
      BY <1>1
    <3>4. CASE t \in S
      BY <1>2, <1>4, <2>1, <3>1, <3>2, <3>3, <3>4
    <3>5. CASE t \notin S
      BY <1>2, <3>1, <3>2, <3>5
    <3>6. QED
      BY <3>4, <3>5
  <2>2. QED
    BY <1>6, <2>1 DEF LiveSessionsAreOwned
<1>18. QED
  BY <1>10, <1>11, <1>12, <1>13, <1>14, <1>15, <1>16, <1>17 DEF IInv

(* Clearing a chat cancels its trees and forgets them.                     *)
LEMMA ClearChatStep ==
  ASSUME IInv, NEW chat \in Chat, ClearChat(chat)
  PROVE  IInv'
<1>1. PICK S \in Reached({t \in Published : ChatOf[trees[t].root] = chat}) :
        /\ trees' = Discard(CancelTrees(S), S)
        /\ tasks' = CancelTasks(tasks, CancelTrees(S), S)
        /\ Detach(S)
  BY DEF ClearChat
<1>2. S \in SUBSET Published /\ S \in SUBSET Allocated
  BY <1>1, PublishedIsAllocated DEF Reached
<1>3. trees \in [Tree -> TreeType \cup {None}] /\ Allocated \subseteq Tree
  BY DEF IInv, TypeOK, Allocated
<1> DEFINE ts == CancelTrees(S)
<1>4. \A t \in Tree : ts[t] = IF t \in S THEN CancelAll(trees[t]) ELSE trees[t]
  BY DEF CancelTrees
<1>5. \A t \in S :
        /\ ConsistentTree(ts[t])
        /\ ts[t].root = trees[t].root /\ ts[t].active = trees[t].active
        /\ ts[t].claimed = trees[t].claimed
        /\ trees[t].cancelled => ts[t].cancelled
        /\ ts[t].active # 0 => ts[t].cancelled
        /\ \A m \in Message : /\ ts[t].state[m] \notin Runnable
                              /\ ts[t].session[m] \in {0, trees[t].session[m]}
  <2>1. ASSUME NEW t \in S
        PROVE  /\ ConsistentTree(ts[t])
               /\ ts[t].root = trees[t].root /\ ts[t].active = trees[t].active
               /\ ts[t].claimed = trees[t].claimed
               /\ trees[t].cancelled => ts[t].cancelled
               /\ ts[t].active # 0 => ts[t].cancelled
               /\ \A m \in Message : /\ ts[t].state[m] \notin Runnable
                                     /\ ts[t].session[m] \in {0, trees[t].session[m]}
    <3>1. /\ ts[t] = CancelAll(trees[t])
          /\ ConsistentTree(trees[t]) /\ trees[t] \in TreeType
      BY <1>2, <1>3, <1>4, <2>1, AllocatedTree
    <3> HIDE DEF ts
    <3>2. QED
      BY <3>1, CancelAllQuiets DEF Calms
  <2>2. QED
    BY <2>1
<1>6. ts \in [Tree -> TreeType \cup {None}]
  <2>1. \A t \in Tree : ts[t] \in TreeType \cup {None}
    BY <1>3, <1>4, <1>5 DEF ConsistentTree
  <2>2. ts = [t \in Tree |-> IF t \in S THEN CancelAll(trees[t]) ELSE trees[t]]
    BY DEF CancelTrees
  <2> HIDE DEF ts
  <2>3. QED
    BY <2>1, <2>2
<1>7. \A t \in Tree \ S : ts[t] = trees[t]
  BY <1>4
<1>8. UNCHANGED <<claims, admitted>>
  BY DEF ClearChat
<1> HIDE DEF ts
<1>9. trees' = Discard(ts, S) /\ tasks' = CancelTasks(tasks, ts, S) /\ Detach(S)
  BY <1>1 DEF ts
<1>10. QED
  BY <1>2, <1>5, <1>6, <1>7, <1>8, <1>9, DetachStep

(* Clearing a whole conversation detaches it; clearing part of it prunes   *)
(* the tree and forgets the references of what was deleted.                *)
LEMMA ClearReplyStep ==
  ASSUME IInv, NEW r \in Ref, ClearReply(r)
  PROVE  IInv'
<1> DEFINE t == TreeFor(r)
           left == [trees EXCEPT ![t] = RemoveSubtree(@, r)]
           u == RemoveSubtree(trees[t], r)
           forgotten == ReplySubtree(trees[t], r)
<1>1. t # None /\ r \in LiveRefs(trees[t]) /\ UNCHANGED <<claims, admitted>>
      /\ tasks' = CancelTasks(tasks, left, {t})
  BY DEF ClearReply
<1>2. t \in Allocated /\ t \in Tree /\ ConsistentTree(trees[t]) /\ trees[t] \in TreeType
      /\ t \in Published /\ index[r] \in Message /\ published[index[r]] = t
  BY <1>1, ResolvedTree, AllocatedTree DEF Published
<1>3. /\ trees \in [Tree -> TreeType \cup {None}] /\ tasks \in [Claim -> SlotType]
      /\ admitted \in Nat /\ claims \in Nat /\ Claim \subseteq 1..claims
      /\ index \in [Ref -> Message \cup {None}] /\ Allocated \subseteq Tree
      /\ published \in [Message -> Tree \cup {None}]
  BY DEF IInv, TypeOK, Allocated
<1>4. /\ ConsistentTree(u)
      /\ u.root = trees[t].root /\ u.active = trees[t].active /\ u.claimed = trees[t].claimed
      /\ u.cancelled = (trees[t].cancelled
                        \/ (trees[t].active # 0 /\ trees[t].claimed \in AffectedNodes(trees[t], r)))
      /\ \A m \in Message : u.state[m] \in Runnable => u.state[m] = trees[t].state[m]
      /\ trees[t].state[trees[t].claimed] # "in_progress" => u.state[u.claimed] # "in_progress"
      /\ \A m \in Message : u.session[m] = trees[t].session[m] \/ u.session[m] = 0
      /\ LiveRefs(u) = LiveRefs(trees[t]) \ forgotten
      /\ trees[t].root \in RemovedNodes(trees[t], r) => Present(u) = {}
  BY <1>1, <1>2, RemoveSubtreeConsistent
<1>5. u \in TreeType /\ u.cancelled \in BOOLEAN /\ u.claimed \in Message
  BY <1>4 DEF ConsistentTree, TreeType
<1>6. /\ left \in [Tree -> TreeType \cup {None}]
      /\ \A k \in Tree : left[k] = IF k = t THEN u ELSE trees[k]
  BY <1>2, <1>3, <1>5
<1> HIDE DEF u, left
<1>7. CASE Prompt(trees[t].root) \in forgotten
  <2>1. trees' = Discard(left, {t}) /\ Detach({t})
    BY <1>7 DEF ClearReply, left
  <2>2. trees[t].root \in RemovedNodes(trees[t], r)
    <3>1. CASE Prompt(trees[t].root) = r
      <4>1. trees[t].root \in Present(trees[t])
        BY <1>1, <3>1 DEF LiveRefs, Owner, Prompt
      <4>2. QED
        BY <1>2, <3>1, <4>1, RemovedIsClosed
    <3>2. CASE Prompt(trees[t].root) # r
      BY <1>7, <3>2 DEF ReplySubtree, Owner, Prompt
    <3>3. QED
      BY <3>1, <3>2
  <2>3. \A m \in Message : u.state[m] = "absent"
    BY <1>4, <2>2 DEF Present
  <2>4. u.active # 0 => u.cancelled
    BY <1>4, <1>5, <2>3 DEF ConsistentTree, TreeConsistent, ClaimIsEntered
  <2>5. \A k \in {t} :
          /\ ConsistentTree(left[k])
          /\ left[k].root = trees[k].root /\ left[k].active = trees[k].active
          /\ left[k].claimed = trees[k].claimed
          /\ trees[k].cancelled => left[k].cancelled
          /\ left[k].active # 0 => left[k].cancelled
          /\ \A m \in Message : /\ left[k].state[m] \notin Runnable
                                /\ left[k].session[m] \in {0, trees[k].session[m]}
    <3>1. left[t] = u
      BY <1>2, <1>6
    <3>2. trees[t].cancelled => u.cancelled
      BY <1>4
    <3>3. \A m \in Message : /\ u.state[m] \notin Runnable
                             /\ u.session[m] \in {0, trees[t].session[m]}
      BY <1>4, <2>3 DEF Runnable
    <3> HIDE DEF t
    <3>4. QED
      BY <1>4, <2>4, <3>1, <3>2, <3>3
  <2>6. \A k \in Tree \ {t} : left[k] = trees[k]
    BY <1>6
  <2> HIDE DEF t
  <2>7. QED
    BY <1>1, <1>2, <1>6, <2>1, <2>5, <2>6, DetachStep
<1>8. CASE Prompt(trees[t].root) \notin forgotten
  <2>1. /\ trees' = left /\ UNCHANGED published
        /\ index' = [x \in Ref |-> IF x \in forgotten THEN None ELSE index[x]]
    BY <1>8 DEF ClearReply, left
  <2>2. Allocated' = Allocated /\ Published' = Published
    BY <1>2, <1>5, <1>6, <2>1, NoneIsNoTree DEF Allocated, Published
  <2>3. \A k \in {t} : /\ left[k].active = trees[k].active
                       /\ left[k].cancelled \in BOOLEAN
                       /\ trees[k].cancelled => left[k].cancelled
    BY <1>2, <1>4, <1>5, <1>6
  <2>4. /\ tasks' \in [Claim -> SlotType] /\ Claim' = Claim
        /\ \A c \in Claim :
             /\ tasks'[c].tree = tasks[c].tree /\ tasks'[c].root = tasks[c].root
             /\ tasks'[c].node = tasks[c].node /\ tasks'[c].resume = tasks[c].resume
             /\ tasks'[c].stage = tasks[c].stage
             /\ tasks'[c].cancel = IF tasks[c].tree = t THEN u.cancelled ELSE tasks[c].cancel
    <3>1. {t} \in SUBSET Allocated /\ left[t] = u
      BY <1>2, <1>6
    <3> HIDE DEF t
    <3>2. QED
      BY <1>1, <2>3, <3>1, CancelledSlots DEF Claim
  <2>5. TypeOK'
    BY <1>1, <1>3, <1>6, <2>1, <2>4 DEF TypeOK
  <2>6. TreesConsistent'
    BY <1>4, <1>6, <2>1, <2>2 DEF IInv, TreesConsistent, ConsistentTree, Allocated
  <2>7. ClaimsAreTasks'
    <3>1. \A k \in Allocated : left[k].active = trees[k].active /\ left[k].root = trees[k].root
                               /\ left[k].claimed = trees[k].claimed
      BY <1>3, <1>4, <1>6
    <3>2. \A c \in Claim : tasks[c].tree \in Allocated
                           /\ left[tasks[c].tree].cancelled = tasks'[c].cancel
      BY <1>3, <1>6, <2>4, ClaimsTree
    <3>3. QED
      BY <2>1, <2>2, <2>4, <3>1, <3>2 DEF IInv, ClaimsAreTasks
  <2>8. IndexIsExact'
    <3>1. \A s \in Message : published[s] # None =>
            /\ published[s] \in Allocated /\ trees[published[s]].root = s
            /\ left[published[s]].root = s
            /\ Prompt(s) \in LiveRefs(left[published[s]])
      BY <1>3, <1>4, <1>6, <1>8 DEF IInv, IndexIsExact
    <3>2. \A s, k \in Message : published[s] = published[k] /\ published[s] # None => s = k
      BY DEF IInv, IndexIsExact
    <3>3. \A x \in Ref : x \in forgotten => x \in LiveRefs(trees[t])
      BY DEF ReplySubtree
    <3>4. ASSUME NEW x \in Ref
          PROVE  {s \in Message : published[s] # None /\ x \in LiveRefs(left[published[s]])}
                   = IF x \in forgotten \/ index[x] = None THEN {} ELSE {index[x]}
      <4> DEFINE holders == {s \in Message : published[s] # None /\ x \in LiveRefs(trees[published[s]])}
      <4>1. holders = IF index[x] = None THEN {} ELSE {index[x]}
        BY <3>4 DEF IInv, IndexIsExact
      <4>2. \A s \in Message : published[s] # None =>
              (x \in LiveRefs(left[published[s]]) <=>
                 x \in LiveRefs(trees[published[s]]) /\ ~(published[s] = t /\ x \in forgotten))
        BY <1>3, <1>4, <1>6, <3>1
      <4>3. x \in forgotten => index[x] \in Message /\ index[x] = index[r]
        <5>1. x \in forgotten => index[r] \in holders
          BY <1>1, <1>2, <3>3
        <5>2. QED
          BY <4>1, <5>1, <1>2
      <4> HIDE DEF holders, t
      <4>4. {s \in Message : published[s] # None /\ x \in LiveRefs(left[published[s]])}
              = {s \in holders : ~(published[s] = t /\ x \in forgotten)}
        BY <4>2 DEF holders
      <4>5. QED
        BY <1>2, <4>1, <4>3, <4>4
    <3>5. \A x \in Ref : index'[x] = IF x \in forgotten THEN None ELSE index[x]
      BY <2>1
    <3>6. QED
      BY <2>1, <2>2, <3>1, <3>2, <3>4, <3>5 DEF IndexIsExact
  <2>9. DetachedIsQuiet'
    BY <1>2, <1>6, <2>1, <2>2, <1>3 DEF IInv, DetachedIsQuiet
  <2>10. ResumesFinishedRun'
    BY <2>4 DEF IInv, ResumesFinishedRun
  <2>11. OverIsReported'
    <3>1. ASSUME NEW c \in Claim, tasks[c].stage \in OverStage
          PROVE  left[tasks[c].tree].state[tasks[c].node] # "in_progress"
      <4>1. trees[tasks[c].tree].state[tasks[c].node] # "in_progress"
        BY <3>1 DEF IInv, OverIsReported
      <4>2. QED
        BY <1>4, <1>6, <4>1, <3>1, ClaimsTree
    <3>2. QED
      BY <2>1, <2>4, <3>1 DEF OverIsReported
  <2>12. LiveSessionsAreOwned'
    <3>1. ASSUME NEW k \in Allocated, NEW m \in Message
          PROVE  /\ left[k].session[m] <= claims
                 /\ left[k].session[m] \in Claim =>
                      left[k].session[m] = left[k].active /\ m = left[k].claimed
      <4>1. /\ trees[k].session[m] <= claims
            /\ trees[k].session[m] \in Claim =>
                 trees[k].session[m] = trees[k].active /\ m = trees[k].claimed
        BY <3>1 DEF IInv, LiveSessionsAreOwned
      <4>2. 0 <= claims /\ 0 \notin Claim
        BY <1>3
      <4>3. QED
        BY <1>3, <1>4, <1>6, <3>1, <4>1, <4>2
    <3>2. QED
      BY <1>1, <2>1, <2>2, <2>4, <3>1 DEF LiveSessionsAreOwned
  <2>13. QED
    BY <2>5, <2>6, <2>7, <2>8, <2>9, <2>10, <2>11, <2>12 DEF IInv
<1>9. QED
  BY <1>7, <1>8

-----------------------------------------------------------------------------
(* The id of the next claim is new: no slot, tree or session has it.       *)
LEMMA NextClaimIsNew ==
  ASSUME IInv
  PROVE  /\ NextClaim \in Nat \ {0} /\ NextClaim \notin Claim
         /\ claims \in Nat /\ 0 \notin Claim /\ \A c \in Claim : c \in Nat /\ c < NextClaim
         /\ \A t \in Allocated : trees[t].active # NextClaim
<1>1. claims \in Nat /\ Claim \subseteq 1..claims
  BY DEF IInv, TypeOK
<1>2. /\ NextClaim \in Nat \ {0} /\ NextClaim \notin Claim
      /\ 0 \notin Claim /\ \A c \in Claim : c \in Nat /\ c < NextClaim
  BY <1>1 DEF NextClaim
<1>3. \A t \in Allocated : trees[t].active # 0 => trees[t].active \in Claim
  BY DEF IInv, ClaimsAreTasks
<1>4. QED
  BY <1>1, <1>2, <1>3

(* A published tree that makes a new claim, and gets a task for it, keeps  *)
(* the invariant if it ran nothing else.                                   *)
LEMMA LaunchStep ==
  ASSUME IInv, NEW t \in Tree, NEW u, NEW announce \in BOOLEAN, NEW slots,
         DOMAIN slots \subseteq Claim, \A c \in DOMAIN slots : slots[c] = tasks[c],
         \A c \in DOMAIN slots : tasks[c].tree # t,
         \A k \in Allocated \ {t} : trees[k].active # 0 => trees[k].active \in DOMAIN slots,
         ConsistentTree(u), u.active = NextClaim, ~u.cancelled,
         \A m \in Message : u.session[m] <= claims /\ u.session[m] \notin DOMAIN slots,
         trees' = [trees EXCEPT ![t] = u],
         tasks' = Launch(slots, t, u, announce),
         claims' = NextClaim, admitted' \in Nat,
         published' \in [Message -> Tree \cup {None}],
         index' \in [Ref -> Message \cup {None}],
         IndexIsExact', t \in Published', Published \subseteq Published'
  PROVE  IInv'
<1> DEFINE kept == DOMAIN slots
<1>1. /\ trees \in [Tree -> TreeType \cup {None}] /\ tasks \in [Claim -> SlotType]
      /\ claims \in Nat /\ Claim \subseteq 1..claims /\ Allocated \subseteq Tree
      /\ NextClaim \in Nat \ {0} /\ NextClaim \notin Claim /\ NextClaim = claims + 1
      /\ NextClaim \notin kept /\ kept \in SUBSET Claim
  BY NextClaimIsNew DEF IInv, TypeOK, Allocated, NextClaim
<1>2. u \in TreeType /\ u.cancelled = FALSE
  BY DEF ConsistentTree, TreeType
<1>3. /\ trees' \in [Tree -> TreeType \cup {None}]
      /\ \A k \in Tree : trees'[k] = IF k = t THEN u ELSE trees[k]
      /\ Allocated' = Allocated \cup {t}
  BY <1>1, <1>2, NoneIsNoTree DEF Allocated
<1>4. /\ Claim' = kept \cup {NextClaim}
      /\ \A c \in kept : tasks'[c] = tasks[c]
      /\ tasks'[NextClaim] \in SlotType
      /\ tasks'[NextClaim].tree = t /\ tasks'[NextClaim].root = u.root
      /\ tasks'[NextClaim].node = u.claimed /\ tasks'[NextClaim].stage = "created"
      /\ tasks'[NextClaim].cancel = FALSE
      /\ tasks' = [c \in kept \cup {NextClaim} |-> tasks'[c]]
      /\ \/ tasks'[NextClaim].resume = 0
         \/ \E m \in Message : tasks'[NextClaim].resume = u.session[m]
  <2> DEFINE slot == [tree |-> t, root |-> u.root, node |-> u.claimed,
                      resume |-> ParentSession(u, u.claimed),
                      announce |-> announce, stage |-> "created",
                      captured |-> FALSE, cancel |-> FALSE]
  <2>1. /\ u.root \in Message /\ u.claimed \in Message /\ u.session \in [Message -> Nat]
        /\ u.reference \in [Message -> Ref \cup {None}]
    BY <1>2 DEF TreeType
  <2>2. \/ ParentSession(u, u.claimed) = 0
        \/ \E m \in Message : ParentSession(u, u.claimed) = u.session[m]
    BY <2>1 DEF ParentSession, Ref, Owner
  <2>3. slot \in SlotType
    BY <2>1, <2>2 DEF SlotType, TaskStage
  <2>4. tasks' = [c \in DOMAIN slots \cup {NextClaim} |->
                    IF c # NextClaim THEN slots[c] ELSE slot]
    BY DEF Launch
  <2>5. DOMAIN slots \cup {NextClaim} = kept \cup {NextClaim}
    OBVIOUS
  <2>6. /\ slot.tree = t /\ slot.root = u.root /\ slot.node = u.claimed
        /\ slot.stage = "created" /\ slot.cancel = FALSE
        /\ slot.resume = ParentSession(u, u.claimed)
    OBVIOUS
  <2> HIDE DEF slot
  <2>7. tasks' = [c \in kept \cup {NextClaim} |-> IF c # NextClaim THEN slots[c] ELSE slot]
    BY <2>4, <2>5
  <2>8. QED
    BY <1>1, <2>2, <2>3, <2>6, <2>7 DEF Claim
<1>5. tasks' \in [Claim' -> SlotType] /\ Claim' \subseteq 1..claims'
  <2>1. \A c \in kept \cup {NextClaim} : tasks'[c] \in SlotType
    BY <1>1, <1>4
  <2>2. tasks' \in [kept \cup {NextClaim} -> SlotType]
    BY <1>4, <2>1
  <2>3. claims' = claims + 1 /\ \A c \in Claim : c \in 1..claims
    BY <1>1
  <2> HIDE DEF kept
  <2>4. Claim' = kept \cup {NextClaim} /\ \A c \in kept : c \in Claim
    BY <1>1, <1>4
  <2>5. tasks' \in [Claim' -> SlotType]
    BY <2>2, <2>4
  <2>6. \A c \in Claim' : c \in 1..claims'
    BY <1>1, <2>3, <2>4
  <2>7. QED
    BY <2>5, <2>6
<1>6. TypeOK'
  BY <1>1, <1>3, <1>5 DEF TypeOK
<1>7. TreesConsistent'
  BY <1>3 DEF IInv, TreesConsistent, ConsistentTree, Allocated
<1>8. ClaimsAreTasks'
  <2>1. \A c \in kept : /\ tasks[c].tree \in Allocated \ {t}
                        /\ trees[tasks[c].tree].active = c
                        /\ trees[tasks[c].tree].claimed = tasks[c].node
                        /\ trees[tasks[c].tree].root = tasks[c].root
                        /\ trees[tasks[c].tree].cancelled = tasks[c].cancel
    BY ClaimsTree
  <2>2. \A k \in Allocated \ {t} : trees[k].active # 0 => tasks[trees[k].active].tree = k
    BY DEF IInv, ClaimsAreTasks
  <2>3. \A k \in Allocated' : trees'[k].active # 0 =>
          trees'[k].active \in Claim' /\ tasks'[trees'[k].active].tree = k
    BY <1>1, <1>3, <1>4, <2>2
  <2>4. \A c \in Claim' : /\ tasks'[c].tree \in Allocated'
                          /\ trees'[tasks'[c].tree].active = c
                          /\ trees'[tasks'[c].tree].claimed = tasks'[c].node
                          /\ trees'[tasks'[c].tree].root = tasks'[c].root
                          /\ trees'[tasks'[c].tree].cancelled = tasks'[c].cancel
    <3>1. ASSUME NEW c \in kept
          PROVE  /\ tasks'[c].tree \in Allocated'
                 /\ trees'[tasks'[c].tree].active = c
                 /\ trees'[tasks'[c].tree].claimed = tasks'[c].node
                 /\ trees'[tasks'[c].tree].root = tasks'[c].root
                 /\ trees'[tasks'[c].tree].cancelled = tasks'[c].cancel
      <4>1. tasks'[c] = tasks[c] /\ tasks[c].tree \in Allocated \ {t}
        BY <1>4, <2>1, <3>1
      <4>2. trees'[tasks[c].tree] = trees[tasks[c].tree] /\ tasks[c].tree \in Allocated'
        BY <1>1, <1>3, <4>1
      <4>3. QED
        BY <2>1, <3>1, <4>1, <4>2
    <3>2. /\ tasks'[NextClaim].tree \in Allocated'
          /\ trees'[tasks'[NextClaim].tree].active = NextClaim
          /\ trees'[tasks'[NextClaim].tree].claimed = tasks'[NextClaim].node
          /\ trees'[tasks'[NextClaim].tree].root = tasks'[NextClaim].root
          /\ trees'[tasks'[NextClaim].tree].cancelled = tasks'[NextClaim].cancel
      <4>1. trees'[t] = u /\ t \in Allocated'
        BY <1>3
      <4>2. QED
        BY <1>2, <1>4, <4>1
    <3>3. QED
      BY <1>4, <3>1, <3>2
  <2>5. QED
    BY <2>3, <2>4 DEF ClaimsAreTasks
<1>9. DetachedIsQuiet'
  BY <1>1, <1>3 DEF IInv, DetachedIsQuiet
<1>10. ResumesFinishedRun'
  <2>1. \A c \in kept : tasks'[c].resume < c /\ tasks'[c].resume \notin Claim'
    <3>1. \A c \in kept : /\ tasks[c].resume < c /\ tasks[c].resume \notin kept
                          /\ c \in Nat /\ c < NextClaim /\ tasks[c].resume \in Nat
      BY <1>1, NextClaimIsNew DEF IInv, ResumesFinishedRun, SlotType
    <3>2. \A c \in kept : tasks[c].resume # NextClaim
      BY <1>1, <3>1
    <3>3. QED
      BY <1>4, <3>1, <3>2
  <2>2. tasks'[NextClaim].resume \in Nat
    BY <1>4 DEF SlotType
  <2>3. tasks'[NextClaim].resume <= claims /\ tasks'[NextClaim].resume \notin kept
    BY <1>1, <1>4, NextClaimIsNew
  <2>4. tasks'[NextClaim].resume < NextClaim
    BY <1>1, <2>2, <2>3
  <2>5. QED
    BY <1>1, <1>4, <2>1, <2>2, <2>3, <2>4 DEF ResumesFinishedRun
<1>11. OverIsReported'
  <2>1. ASSUME NEW c \in kept, tasks[c].stage \in OverStage
        PROVE  trees'[tasks[c].tree].state[tasks[c].node] # "in_progress"
    BY <1>3, <2>1, ClaimsTree DEF IInv, OverIsReported
  <2>2. "created" \notin OverStage
    BY DEF OverStage
  <2>3. QED
    BY <1>4, <2>1, <2>2 DEF OverIsReported
<1>12. LiveSessionsAreOwned'
  <2>1. ASSUME NEW k \in Allocated', NEW m \in Message
        PROVE  /\ trees'[k].session[m] <= claims'
               /\ trees'[k].session[m] \in Claim' =>
                    trees'[k].session[m] = trees'[k].active /\ m = trees'[k].claimed
    <3>1. trees'[k].session[m] \in Nat
      BY <1>2, <1>3, <2>1, AllocatedTree DEF TreeType
    <3>2. CASE k = t
      <4>1. trees'[k].session[m] <= claims /\ trees'[k].session[m] \notin kept
        BY <1>3, <2>1, <3>2
      <4>2. QED
        BY <1>1, <1>4, <3>1, <4>1
    <3>3. CASE k # t
      <4>1. /\ trees'[k] = trees[k]
            /\ trees[k].session[m] <= claims
            /\ trees[k].session[m] \in Claim =>
                 trees[k].session[m] = trees[k].active /\ m = trees[k].claimed
        BY <1>1, <1>3, <2>1, <3>3 DEF IInv, LiveSessionsAreOwned
      <4>2. trees[k].session[m] # NextClaim
        BY <1>1, <3>1, <4>1
      <4>3. QED
        BY <1>1, <1>4, <3>1, <4>1, <4>2
    <3>4. QED
      BY <3>2, <3>3
  <2>2. QED
    BY <2>1 DEF LiveSessionsAreOwned
<1>13. QED
  BY <1>6, <1>7, <1>8, <1>9, <1>10, <1>11, <1>12 DEF IInv

(* A message the index does not know is in no published tree.              *)
LEMMA UnknownMessage ==
  ASSUME IInv, NEW m \in Message, TreeFor(Prompt(m)) = None
  PROVE  /\ published[m] = None /\ index[Prompt(m)] = None /\ index[Status(m)] = None
         /\ \A t \in Published : trees[t].state[m] = "absent"
<1> DEFINE holders(x) == {s \in Message : published[s] # None /\ x \in LiveRefs(trees[published[s]])}
<1>1. /\ Prompt(m) \in Ref /\ Status(m) \in Ref /\ Owner(Prompt(m)) = m /\ Owner(Status(m)) = m
      /\ Prompt(m)[2] = "prompt" /\ Status(m)[2] = "status"
  BY DEF Ref, Prompt, Status, Owner
<1>2. \A x \in Ref : holders(x) = IF index[x] = None THEN {} ELSE {index[x]}
  BY DEF IInv, IndexIsExact
<1>3. \A x \in Ref : index[x] \in Message \cup {None}
  BY DEF IInv, TypeOK
<1>4. index[Prompt(m)] = None
  BY <1>1, <1>2, <1>3 DEF TreeFor
<1>5. \A s \in Message : published[s] # None => Prompt(m) \notin LiveRefs(trees[published[s]])
  BY <1>1, <1>2, <1>4
<1>6. published[m] = None
  BY <1>5 DEF IInv, IndexIsExact
<1>7. \A s \in Message : published[s] # None => m \notin Present(trees[published[s]])
  BY <1>1, <1>5 DEF LiveRefs
<1>8. \A s \in Message : published[s] # None => Status(m) \notin LiveRefs(trees[published[s]])
  BY <1>1, <1>7 DEF LiveRefs
<1>9. index[Status(m)] = None
  BY <1>1, <1>2, <1>3, <1>8
<1>10. \A t \in Published : trees[t].state[m] = "absent"
  BY <1>7, QueueAssumption DEF Published, Present
<1>11. QED
  BY <1>4, <1>6, <1>9, <1>10

\* A step that changes nothing.
LEMMA Stutter ==
  ASSUME IInv, UNCHANGED vars
  PROVE  IInv'
BY DEF vars, IInv, TypeOK, TreesConsistent, ClaimsAreTasks, IndexIsExact,
   DetachedIsQuiet, ResumesFinishedRun, OverIsReported, LiveSessionsAreOwned,
   Allocated, Claim, Published

(* A message delivered twice changes nothing (manager.py admit).           *)
LEMMA AdmitDuplicateStep ==
  ASSUME IInv, NEW m \in Message, AdmitDuplicate(m)
  PROVE  UNCHANGED vars
<1> DEFINE t == TreeFor(Prompt(m))
<1>1. /\ t # None /\ LaunchIfClaimed(t)
      /\ trees' = [trees EXCEPT ![t] = EnqueueOrClaim(trees[t], m, NextClaim)]
      /\ UNCHANGED <<published, index, admitted>>
  BY DEF AdmitDuplicate
<1>2. t \in Allocated /\ ConsistentTree(trees[t])
  BY <1>1, ResolvedTree, AllocatedTree DEF Prompt, Ref
<1>3. EnqueueOrClaim(trees[t], m, NextClaim) = trees[t]
  BY <1>2, DuplicateChangesNothing
<1> HIDE DEF t
<1>4. trees' = trees
  BY <1>1, <1>2, <1>3 DEF IInv, TypeOK
<1>5. trees'[t].active # NextClaim
  BY <1>2, <1>4, NextClaimIsNew
<1>6. QED
  BY <1>1, <1>4, <1>5 DEF LaunchIfClaimed, vars

(* A message that starts a conversation.                                   *)
LEMMA AdmitRootStep ==
  ASSUME IInv, NEW m \in Message, AdmitRoot(m)
  PROVE  IInv'
<1> DEFINE u == EnqueueOrClaim(NewTree(m), m, NextClaim)
<1>1. /\ TreeFor(Prompt(m)) = None
      /\ index' = [index EXCEPT ![Prompt(m)] = m, ![Status(m)] = m]
      /\ admitted' = admitted + 1
  BY DEF AdmitRoot
<1>2. PICK t \in Tree :
        /\ trees[t] = None
        /\ trees' = [trees EXCEPT ![t] = u]
        /\ published' = [published EXCEPT ![m] = t]
        /\ LaunchIfClaimed(t)
  BY DEF AdmitRoot
<1>3. /\ ConsistentTree(u)
      /\ u.root = m /\ u.active = NextClaim /\ u.claimed = m /\ ~u.cancelled
      /\ LiveRefs(u) = {Prompt(m), Status(m)}
      /\ \A k \in Message : u.session[k] = 0
  BY NextClaimIsNew, NewTreeConsistent
<1> HIDE DEF u
<1>4. /\ trees \in [Tree -> TreeType \cup {None}] /\ admitted' \in Nat
      /\ published \in [Message -> Tree \cup {None}] /\ index \in [Ref -> Message \cup {None}]
      /\ Published \in SUBSET Allocated /\ t \notin Allocated /\ t # None
      /\ Prompt(m) \in Ref /\ Status(m) \in Ref /\ m # None
  BY <1>1, <1>2, PublishedIsAllocated, QueueAssumption, MessageAssumption
     DEF IInv, TypeOK, Allocated, Prompt, Status, Ref
<1>5. trees'[t] = u
  BY <1>2, <1>4
<1>6. tasks' = Launch(tasks, t, u, FALSE) /\ claims' = NextClaim
  BY <1>2, <1>3, <1>5 DEF LaunchIfClaimed
<1>7. /\ published[m] = None /\ index[Prompt(m)] = None /\ index[Status(m)] = None
  BY <1>1, UnknownMessage
<1>8. /\ published' \in [Message -> Tree \cup {None}]
      /\ \A r \in Message : published'[r] = IF r = m THEN t ELSE published[r]
      /\ index' \in [Ref -> Message \cup {None}]
      /\ \A x \in Ref : index'[x] = IF x \in {Prompt(m), Status(m)} THEN m ELSE index[x]
  BY <1>1, <1>2, <1>4
<1>9. Published \subseteq Published' /\ t \in Published'
  BY <1>4, <1>7, <1>8, QueueAssumption DEF Published
<1>10. IndexIsExact'
  <2>1. \A s \in Message \ {m} : published[s] # None =>
          /\ published[s] \in Allocated /\ published[s] # t
          /\ trees'[published[s]] = trees[published[s]]
    BY <1>2, <1>4 DEF IInv, IndexIsExact, Allocated
  <2>2. t \in Allocated' /\ Allocated \subseteq Allocated'
    BY <1>2, <1>3, <1>4, <1>5, NoneIsNoTree DEF Allocated, ConsistentTree
  <2>3. \A r \in Message : published'[r] # None =>
          /\ published'[r] \in Allocated'
          /\ trees'[published'[r]].root = r
          /\ Prompt(r) \in LiveRefs(trees'[published'[r]])
    BY <1>3, <1>5, <1>8, <2>1, <2>2 DEF IInv, IndexIsExact
  <2>4. \A r, s \in Message : published'[r] = published'[s] /\ published'[r] # None => r = s
    BY <1>8, <2>1 DEF IInv, IndexIsExact
  <2>5. ASSUME NEW x \in Ref
        PROVE  {r \in Message : published'[r] # None /\ x \in LiveRefs(trees'[published'[r]])}
                 = IF index'[x] = None THEN {} ELSE {index'[x]}
    <3> DEFINE holders == {r \in Message : published[r] # None /\ x \in LiveRefs(trees[published[r]])}
    <3>1. holders = IF index[x] = None THEN {} ELSE {index[x]}
      BY <2>5 DEF IInv, IndexIsExact
    <3>2. {r \in Message : published'[r] # None /\ x \in LiveRefs(trees'[published'[r]])}
            = holders \cup (IF x \in LiveRefs(u) THEN {m} ELSE {})
      BY <1>4, <1>5, <1>7, <1>8, <2>1
    <3>3. QED
      BY <1>3, <1>4, <1>7, <1>8, <2>5, <3>1, <3>2
  <2>6. QED
    BY <2>3, <2>4, <2>5 DEF IndexIsExact
<1>11. \A c \in Claim : tasks[c].tree # t
  BY <1>4, ClaimsTree
<1>12. \A k \in Allocated \ {t} : trees[k].active # 0 => trees[k].active \in Claim
  BY DEF IInv, ClaimsAreTasks
<1>13. DOMAIN tasks = Claim
  BY DEF Claim
<1>14. \A k \in Message : u.session[k] <= claims /\ u.session[k] \notin Claim
  BY <1>3, NextClaimIsNew
<1>15. QED
  BY <1>2, <1>3, <1>4, <1>6, <1>8, <1>9, <1>10, <1>11, <1>12, <1>13, <1>14, LaunchStep

(* A published tree that makes no claim keeps the invariant: it goes on    *)
(* with the claim it had, or becomes idle and that claim's slot goes.      *)
LEMMA IdleStep ==
  ASSUME IInv, NEW t \in Published, NEW u, ConsistentTree(u), u.root = trees[t].root,
         Claim' \subseteq Claim,
         \/ /\ Claim' = Claim
            /\ u.active = trees[t].active /\ u.claimed = trees[t].claimed
            /\ u.cancelled = trees[t].cancelled
            /\ trees[t].active # 0 /\ trees[t].state[u.claimed] # "in_progress"
                 => u.state[u.claimed] # "in_progress"
         \/ /\ Claim' = Claim \ {trees[t].active}
            /\ trees[t].active # 0 /\ u.active = 0,
         \A m \in Message : u.session[m] = trees[t].session[m] \/ u.session[m] = 0,
         trees' = [trees EXCEPT ![t] = u], tasks' = [c \in Claim' |-> tasks[c]],
         UNCHANGED <<published, claims>>, admitted' \in Nat,
         index' \in [Ref -> Message \cup {None}], IndexIsExact'
  PROVE  IInv'
<1> DEFINE kept == Claim'
<1>1. /\ trees \in [Tree -> TreeType \cup {None}] /\ tasks \in [Claim -> SlotType]
      /\ claims \in Nat /\ Claim \subseteq 1..claims /\ Allocated \subseteq Tree
      /\ published \in [Message -> Tree \cup {None}]
      /\ t \in Allocated /\ t \in Tree /\ u \in TreeType /\ 0 \notin Claim
  BY PublishedIsAllocated, NextClaimIsNew DEF IInv, TypeOK, Allocated, ConsistentTree
<1>2. /\ trees' \in [Tree -> TreeType \cup {None}]
      /\ \A k \in Tree : trees'[k] = IF k = t THEN u ELSE trees[k]
      /\ Allocated' = Allocated /\ Published' = Published
  BY <1>1, NoneIsNoTree DEF Allocated, Published
<1>3. Claim' = kept /\ \A c \in kept : tasks'[c] = tasks[c]
  OBVIOUS
<1>4. TypeOK'
  BY <1>1, <1>2, <1>3 DEF TypeOK
<1>5. TreesConsistent'
  BY <1>2 DEF IInv, TreesConsistent, ConsistentTree, Allocated
<1>6. \A c \in Claim : /\ tasks[c].tree \in Allocated /\ trees[tasks[c].tree].active = c
                       /\ trees[tasks[c].tree].claimed = tasks[c].node
                       /\ trees[tasks[c].tree].root = tasks[c].root
                       /\ trees[tasks[c].tree].cancelled = tasks[c].cancel
  BY ClaimsTree
<1>7. \A k \in Allocated : trees[k].active # 0 =>
        trees[k].active \in Claim /\ tasks[trees[k].active].tree = k
  BY DEF IInv, ClaimsAreTasks
<1>8. \A c \in kept : tasks[c].tree = t =>
        /\ kept = Claim
        /\ u.active = trees[t].active /\ u.claimed = trees[t].claimed
        /\ u.cancelled = trees[t].cancelled /\ trees[t].active # 0
        /\ trees[t].state[u.claimed] # "in_progress" => u.state[u.claimed] # "in_progress"
  BY <1>1, <1>6
<1>9. ClaimsAreTasks'
  <2>1. \A k \in Allocated : trees'[k].active # 0 =>
          trees'[k].active \in kept /\ tasks[trees'[k].active].tree = k
    BY <1>1, <1>2, <1>7
  <2>2. ASSUME NEW c \in kept
        PROVE  /\ trees'[tasks[c].tree].active = c
               /\ trees'[tasks[c].tree].claimed = tasks[c].node
               /\ trees'[tasks[c].tree].root = tasks[c].root
               /\ trees'[tasks[c].tree].cancelled = tasks[c].cancel
    <3>1. CASE tasks[c].tree = t
      <4>1. trees'[tasks[c].tree] = u
        BY <1>1, <1>2, <3>1
      <4>2. QED
        BY <1>6, <1>8, <2>2, <3>1, <4>1
    <3>2. CASE tasks[c].tree # t
      <4>1. trees'[tasks[c].tree] = trees[tasks[c].tree]
        BY <1>1, <1>2, <1>6, <2>2, <3>2
      <4>2. QED
        BY <1>6, <2>2, <4>1
    <3>3. QED
      BY <3>1, <3>2
  <2>3. QED
    BY Z3T(30), <1>2, <1>3, <1>6, <2>1, <2>2 DEF ClaimsAreTasks
<1>10. DetachedIsQuiet'
  BY <1>1, <1>2 DEF IInv, DetachedIsQuiet
<1>11. ResumesFinishedRun'
  BY <1>3 DEF IInv, ResumesFinishedRun
<1>12. OverIsReported'
  <2>1. ASSUME NEW c \in kept, tasks[c].stage \in OverStage
        PROVE  trees'[tasks[c].tree].state[tasks[c].node] # "in_progress"
    <3>1. trees[tasks[c].tree].state[tasks[c].node] # "in_progress"
      BY <2>1 DEF IInv, OverIsReported
    <3>2. QED
      BY <1>1, <1>2, <1>6, <1>8, <2>1, <3>1
  <2>2. QED
    BY <1>3, <2>1 DEF OverIsReported
<1>13. LiveSessionsAreOwned'
  <2>1. ASSUME NEW k \in Allocated, NEW m \in Message
        PROVE  /\ trees'[k].session[m] <= claims
               /\ trees'[k].session[m] \in kept =>
                    trees'[k].session[m] = trees'[k].active /\ m = trees'[k].claimed
    <3>1. /\ trees[k].session[m] <= claims
          /\ trees[k].session[m] \in Claim =>
               trees[k].session[m] = trees[k].active /\ m = trees[k].claimed
      BY <2>1 DEF IInv, LiveSessionsAreOwned
    <3>2. 0 <= claims
      BY <1>1
    <3>3. CASE k = t
      BY <1>1, <1>2, <3>1, <3>2, <3>3
    <3>4. CASE k # t
      BY <1>1, <1>2, <2>1, <3>1, <3>4
    <3>5. QED
      BY <3>3, <3>4
  <2>2. QED
    BY <1>2, <1>3, <2>1 DEF LiveSessionsAreOwned
<1>14. QED
  BY <1>4, <1>5, <1>9, <1>10, <1>11, <1>12, <1>13 DEF IInv

(* A reply joins the conversation of the message it answers.               *)
LEMMA AdmitReplyStep ==
  ASSUME IInv, NEW m \in Message, NEW r \in Ref, AdmitReply(m, r)
  PROVE  IInv'
<1> DEFINE t == TreeFor(r)
           u == EnqueueOrClaim(AddNode(trees[t], m, r), m, NextClaim)
<1>1. /\ TreeFor(Prompt(m)) = None /\ t # None /\ r \in LiveRefs(trees[t])
      /\ trees' = [trees EXCEPT ![t] = u]
      /\ index' = [index EXCEPT ![Prompt(m)] = trees[t].root, ![Status(m)] = trees[t].root]
      /\ LaunchIfClaimed(t) /\ admitted' = admitted + 1 /\ UNCHANGED published
  BY DEF AdmitReply
<1>2. /\ t \in Allocated /\ t \in Published /\ ConsistentTree(trees[t])
      /\ index[r] \in Message /\ published[index[r]] = t /\ trees[t].root = index[r]
  BY <1>1, ResolvedTree, AllocatedTree DEF Published, Allocated
<1>3. trees[t].state[m] = "absent"
  BY <1>1, <1>2, UnknownMessage
<1>4. /\ ConsistentTree(u) /\ u.root = trees[t].root
      /\ IF trees[t].active = 0
         THEN u.active = NextClaim /\ u.claimed = m /\ ~u.cancelled
         ELSE /\ u.active = trees[t].active /\ u.claimed = trees[t].claimed
              /\ u.cancelled = trees[t].cancelled
      /\ \A k \in Message \ {m} : u.state[k] = trees[t].state[k]
      /\ u.state[m] = "in_progress" => trees[t].active = 0
      /\ \A k \in Message : u.session[k] = trees[t].session[k] \/ u.session[k] = 0
      /\ LiveRefs(u) = LiveRefs(trees[t]) \cup {Prompt(m), Status(m)}
  BY <1>1, <1>2, <1>3, NextClaimIsNew, AddReplyConsistent
<1> HIDE DEF u, t
<1>5. /\ trees \in [Tree -> TreeType \cup {None}] /\ admitted' \in Nat
      /\ published \in [Message -> Tree \cup {None}] /\ index \in [Ref -> Message \cup {None}]
      /\ tasks \in [Claim -> SlotType] /\ Allocated \subseteq Tree
      /\ Published \in SUBSET Allocated
      /\ Prompt(m) \in Ref /\ Status(m) \in Ref /\ index[r] # None
  BY <1>1, <1>2, PublishedIsAllocated, MessageAssumption
     DEF IInv, TypeOK, Allocated, Prompt, Status, Ref
<1>6. /\ index' \in [Ref -> Message \cup {None}]
      /\ \A x \in Ref : index'[x] = IF x \in {Prompt(m), Status(m)} THEN index[r] ELSE index[x]
      /\ index[Prompt(m)] = None /\ index[Status(m)] = None
  BY <1>1, <1>2, <1>5, UnknownMessage
<1>7. \A k \in Tree : trees'[k] = IF k = t THEN u ELSE trees[k]
  BY <1>1, <1>5
<1>8. IndexIsExact'
  <2>1. Allocated' = Allocated
    BY <1>2, <1>4, <1>5, <1>7, NoneIsNoTree DEF Allocated, ConsistentTree
  <2>2. \A s \in Message : published[s] # None =>
          /\ published[s] \in Allocated /\ trees[published[s]].root = s
          /\ Prompt(s) \in LiveRefs(trees[published[s]])
          /\ published[s] = t <=> s = index[r]
    BY <1>2 DEF IInv, IndexIsExact
  <2>3. \A s \in Message : published[s] # None =>
          /\ trees'[published[s]].root = s
          /\ Prompt(s) \in LiveRefs(trees'[published[s]])
    BY <1>4, <1>5, <1>7, <2>2
  <2>4. \A s, k \in Message : published[s] = published[k] /\ published[s] # None => s = k
    BY DEF IInv, IndexIsExact
  <2>5. ASSUME NEW x \in Ref
        PROVE  {s \in Message : published[s] # None /\ x \in LiveRefs(trees'[published[s]])}
                 = IF index'[x] = None THEN {} ELSE {index'[x]}
    <3> DEFINE holders == {s \in Message : published[s] # None /\ x \in LiveRefs(trees[published[s]])}
    <3>1. holders = IF index[x] = None THEN {} ELSE {index[x]}
      BY <2>5 DEF IInv, IndexIsExact
    <3>2. {s \in Message : published[s] # None /\ x \in LiveRefs(trees'[published[s]])}
            = holders \cup (IF x \in {Prompt(m), Status(m)} THEN {index[r]} ELSE {})
      <4>1. \A s \in Message : published[s] # None =>
              (x \in LiveRefs(trees'[published[s]]) <=>
                 \/ x \in LiveRefs(trees[published[s]])
                 \/ s = index[r] /\ x \in {Prompt(m), Status(m)})
        BY <1>4, <1>5, <1>7, <2>2
      <4>2. published[index[r]] # None
        BY <1>1, <1>2
      <4>3. QED
        BY <1>2, <4>1, <4>2
    <3> HIDE DEF holders
    <3>3. QED
      BY <1>5, <1>6, <2>5, <3>1, <3>2
  <2>6. QED
    BY <1>1, <2>1, <2>2, <2>3, <2>4, <2>5 DEF IndexIsExact
<1>9. CASE trees[t].active = 0
  <2>1. tasks' = Launch(tasks, t, u, FALSE) /\ claims' = NextClaim
    BY <1>1, <1>2, <1>4, <1>5, <1>7, <1>9 DEF LaunchIfClaimed
  <2>2. \A c \in Claim : tasks[c].tree # t
    BY <1>9, ClaimsTree
  <2>3. \A k \in Allocated \ {t} : trees[k].active # 0 => trees[k].active \in Claim
    BY DEF IInv, ClaimsAreTasks
  <2>4. DOMAIN tasks = Claim
    BY DEF Claim
  <2>5. \A k \in Message : u.session[k] <= claims /\ u.session[k] \notin Claim
    <3>1. \A k \in Message : trees[t].session[k] <= claims /\ trees[t].session[k] \notin Claim
      BY <1>2, <1>9, NextClaimIsNew DEF IInv, LiveSessionsAreOwned
    <3>2. QED
      BY <1>4, <3>1, NextClaimIsNew
  <2>6. t \in Published' /\ Published \subseteq Published'
    BY <1>1, <1>2 DEF Published
  <2>7. u.active = NextClaim /\ ~u.cancelled /\ ConsistentTree(u) /\ t \in Tree
    BY <1>2, <1>4, <1>5, <1>9
  <2>8. published' \in [Message -> Tree \cup {None}]
    BY <1>1, <1>5
  <2>9. QED
    BY <1>1, <1>5, <1>6, <1>8, <2>1, <2>2, <2>3, <2>4, <2>5, <2>6, <2>7, <2>8, LaunchStep
<1>10. CASE trees[t].active # 0
  <2>1. u.active # NextClaim
    BY <1>2, <1>4, <1>10, NextClaimIsNew
  <2>2. tasks' = tasks /\ claims' = claims
    BY <1>1, <1>2, <1>5, <1>7, <2>1 DEF LaunchIfClaimed
  <2>3. tasks' = [c \in Claim |-> tasks[c]]
    BY <1>5, <2>2
  <2>4. trees[t].claimed \in Message
    BY <1>2 DEF ConsistentTree, TreeType
  <2>5. trees[t].state[u.claimed] # "in_progress" => u.state[u.claimed] # "in_progress"
    BY <1>4, <1>10, <2>4
  <2>6. /\ Claim' = Claim /\ tasks' = [c \in Claim' |-> tasks[c]]
        /\ u.active = trees[t].active /\ u.claimed = trees[t].claimed
        /\ u.cancelled = trees[t].cancelled
    BY <1>4, <1>10, <2>2, <2>3 DEF Claim
  <2>7. QED
    BY <1>1, <1>2, <1>4, <1>5, <1>6, <1>8, <2>2, <2>5, <2>6, IdleStep
<1>11. QED
  BY <1>9, <1>10

(* A finished claim is released, and its tree handed to the next node.     *)
LEMMA FinishStep ==
  ASSUME IInv, NEW c \in Claim, tasks[c].stage \in OverStage, Finish(c)
  PROVE  IInv'
<1> DEFINE t == tasks[c].tree
           u == FinishAndClaimNext(trees[t], c, NextClaim)
           detached == {t} \ {published[tasks[c].root]}
           kept == Claim \ {c}
<1>1. /\ trees' = Discard([trees EXCEPT ![t] = u], detached)
      /\ claims' = IF u.active = NextClaim THEN NextClaim ELSE claims
      /\ tasks' = Pop(IF u.active = NextClaim /\ detached = {}
                      THEN Launch(tasks, t, u, TRUE) ELSE tasks, c)
      /\ UNCHANGED <<published, index, admitted>>
  BY DEF Finish
<1>2. /\ c \in Nat \ {0} /\ t \in Tree /\ t \in Allocated /\ ConsistentTree(trees[t])
      /\ trees[t].active = c /\ trees[t].claimed = tasks[c].node
      /\ trees[t].root = tasks[c].root /\ tasks[c].root \in Message
      /\ trees[t].state[trees[t].claimed] # "in_progress"
  BY ClaimsTree DEF IInv, OverIsReported, SlotType
<1>3. /\ ConsistentTree(u) /\ u.root = trees[t].root /\ LiveRefs(u) = LiveRefs(trees[t])
      /\ \/ u.active = 0 /\ u.state = trees[t].state
         \/ u.active = NextClaim /\ ~u.cancelled /\ trees[t].state[u.claimed] = "pending"
      /\ u.session = trees[t].session
  BY <1>2, NextClaimIsNew, FinishConsistent
<1> HIDE DEF u, t, detached
<1>4. /\ trees \in [Tree -> TreeType \cup {None}] /\ admitted' \in Nat
      /\ published \in [Message -> Tree \cup {None}] /\ index \in [Ref -> Message \cup {None}]
      /\ tasks \in [Claim -> SlotType] /\ Allocated \subseteq Tree /\ DOMAIN tasks = Claim
      /\ Published \in SUBSET Allocated /\ NextClaim # 0
      /\ claims \in Nat /\ Claim \subseteq 1..claims /\ NextClaim \notin Claim
  BY <1>1, PublishedIsAllocated, NextClaimIsNew DEF IInv, TypeOK, Allocated, Claim
<1>5. \A k \in Tree : [trees EXCEPT ![t] = u][k] = IF k = t THEN u ELSE trees[k]
  BY <1>4
<1>6. detached = IF t \in Published THEN {} ELSE {t}
  <2>1. CASE t \in Published
    <3>1. PICK s \in Message : published[s] = t
      BY <2>1 DEF Published
    <3>2. s = tasks[c].root
      BY <1>2, <3>1, QueueAssumption DEF IInv, IndexIsExact
    <3>3. QED
      BY <2>1, <3>1, <3>2 DEF detached
  <2>2. CASE t \notin Published
    BY <1>2, <2>2 DEF detached, Published
  <2>3. QED
    BY <2>1, <2>2
<1>7. \A k \in Allocated \ {t} : trees[k].active # 0 => trees[k].active \in kept
  BY <1>2, ClaimsTree DEF IInv, ClaimsAreTasks
<1>8. \A d \in kept : tasks[d].tree # t
  BY <1>2, ClaimsTree
<1>9. CASE t \in Published
  <2>1. trees' = [trees EXCEPT ![t] = u]
    <3>1. trees' = [k \in Tree |-> [trees EXCEPT ![t] = u][k]]
      BY <1>1, <1>6, <1>9 DEF Discard
    <3>2. QED
      BY <1>4, <3>1
  <2>2. Allocated' = Allocated
    BY <1>2, <1>3, <1>4, <2>1, NoneIsNoTree DEF Allocated, ConsistentTree
  <2>3. IndexIsExact'
    <3>1. \A s \in Message : published[s] # None =>
            /\ published[s] \in Allocated
            /\ LiveRefs(trees'[published[s]]) = LiveRefs(trees[published[s]])
            /\ trees'[published[s]].root = trees[published[s]].root
      BY <1>3, <1>4, <2>1 DEF IInv, IndexIsExact
    <3>2. QED
      BY ZenonT(30), <1>1, <2>2, <3>1 DEF IInv, IndexIsExact
  <2>4. CASE u.active = NextClaim
    <3> DEFINE slots == Pop(tasks, c)
    <3>1. /\ DOMAIN slots = kept /\ \A d \in kept : slots[d] = tasks[d]
      BY <1>4 DEF Pop
    <3>2. tasks' = Pop(Launch(tasks, t, u, TRUE), c) /\ claims' = NextClaim
      BY <1>1, <1>6, <1>9, <2>4
    <3>3. tasks' = Launch(slots, t, u, TRUE)
      <4>1. tasks' = [d \in (Claim \cup {u.active}) \ {c} |->
              IF d # u.active THEN tasks[d]
              ELSE [tree |-> t, root |-> u.root, node |-> u.claimed,
                    resume |-> ParentSession(u, u.claimed),
                    announce |-> TRUE, stage |-> "created",
                    captured |-> FALSE, cancel |-> FALSE]]
        BY <1>4, <3>2 DEF Pop, Launch
      <4>2. (Claim \cup {u.active}) \ {c} = kept \cup {u.active}
        BY <1>4, <2>4
      <4> HIDE DEF slots, kept
      <4>3. QED
        BY <3>1, <4>1, <4>2 DEF Launch
    <3> HIDE DEF slots
    <3>4. \A k \in Message : u.session[k] <= claims /\ u.session[k] \notin kept
      BY <1>2, <1>3 DEF IInv, LiveSessionsAreOwned
    <3>5. ~u.cancelled
      BY <1>3, <1>4, <2>4
    <3>6. DOMAIN slots \subseteq Claim /\ published' \in [Message -> Tree \cup {None}]
          /\ index' \in [Ref -> Message \cup {None}]
      BY <1>1, <1>4, <3>1
    <3>7. t \in Published' /\ Published \subseteq Published' /\ t \in Tree
      BY <1>1, <1>2, <1>9 DEF Published
    <3>8. /\ \A d \in DOMAIN slots : slots[d] = tasks[d] /\ tasks[d].tree # t
          /\ \A k \in Allocated \ {t} : trees[k].active # 0 => trees[k].active \in DOMAIN slots
          /\ \A k \in Message : u.session[k] <= claims /\ u.session[k] \notin DOMAIN slots
      BY <1>7, <1>8, <3>1, <3>4
    <3> HIDE DEF kept
    <3>9. QED
      BY <1>3, <1>4, <2>1, <2>3, <2>4, <3>2, <3>3, <3>5, <3>6, <3>7, <3>8, LaunchStep
  <2>5. CASE u.active # NextClaim
    <3>1. tasks' = [d \in kept |-> tasks[d]] /\ claims' = claims
      BY <1>1, <1>4, <2>5 DEF Pop
    <3>2. /\ Claim' = Claim \ {trees[t].active} /\ tasks' = [d \in Claim' |-> tasks[d]]
          /\ trees[t].active # 0 /\ u.active = 0
      BY <1>2, <1>3, <2>5, <3>1 DEF Claim
    <3>3. QED
      BY <1>1, <1>3, <1>4, <1>9, <2>1, <2>3, <3>1, <3>2, IdleStep
  <2>6. QED
    BY <2>4, <2>5
<1>10. CASE t \notin Published
  <2>1. u.active = 0
    <3>1. ASSUME u.active = NextClaim
          PROVE  FALSE
      <4>1. trees[t].state[u.claimed] = "pending" /\ u.claimed \in Message
        BY <1>3, <1>4, <3>1 DEF ConsistentTree, TreeType
      <4>2. \A k \in Message : trees[t].state[k] \notin Runnable
        BY <1>2, <1>10 DEF IInv, DetachedIsQuiet
      <4>3. QED
        BY <4>1, <4>2 DEF Runnable
    <3>2. QED
      BY <1>3, <3>1
  <2>2. /\ trees' \in [Tree -> TreeType \cup {None}]
        /\ \A k \in Tree : trees'[k] = IF k = t THEN None ELSE trees[k]
    <3>1. trees' = [k \in Tree |-> IF k = t THEN None ELSE trees[k]]
      BY <1>1, <1>2, <1>5, <1>6, <1>10, <2>1 DEF Discard
    <3>2. QED
      BY <1>4, <3>1
  <2>3. /\ tasks' = [d \in kept |-> tasks[d]] /\ claims' = claims
        /\ Claim' = kept
    BY <1>1, <1>4, <2>1 DEF Pop, Claim
  <2>4. Allocated' = Allocated \ {t} /\ Published' = Published
    BY <1>1, <1>4, <2>2 DEF Allocated, Published
  <2>5. TypeOK'
    BY <1>1, <1>4, <2>2, <2>3 DEF TypeOK
  <2>6. TreesConsistent'
    BY <1>4, <2>2, <2>4 DEF IInv, TreesConsistent
  <2>7. ClaimsAreTasks'
    <3>1. \A k \in Allocated \ {t} : trees'[k] = trees[k]
      BY <1>4, <2>2
    <3>2. QED
      BY <1>7, <1>8, <2>3, <2>4, <3>1 DEF IInv, ClaimsAreTasks
  <2>8. IndexIsExact'
    <3>1. \A s \in Message : published[s] # None =>
            published[s] \in Allocated' /\ trees'[published[s]] = trees[published[s]]
      BY <1>4, <1>10, <2>2, <2>4 DEF IInv, IndexIsExact, Published
    <3>2. QED
      BY ZenonT(30), <1>1, <3>1 DEF IInv, IndexIsExact
  <2>9. DetachedIsQuiet'
    BY <1>4, <2>2, <2>4 DEF IInv, DetachedIsQuiet
  <2>10. ResumesFinishedRun' /\ OverIsReported'
    BY <1>8, <2>2, <2>3, ClaimsTree DEF IInv, ResumesFinishedRun, OverIsReported
  <2>11. LiveSessionsAreOwned'
    BY <1>4, <2>2, <2>3, <2>4 DEF IInv, LiveSessionsAreOwned
  <2>12. QED
    BY <2>5, <2>6, <2>7, <2>8, <2>9, <2>10, <2>11 DEF IInv
<1>11. QED
  BY <1>9, <1>10

-----------------------------------------------------------------------------
(* Every step of the manager, of the loop, of the CLI and of the commands  *)
(* keeps the invariant.                                                    *)
LEMMA NextInvariant ==
  ASSUME IInv, [Next]_vars
  PROVE  IInv'
<1>1. ASSUME NEW m \in Message, Admit(m)
      PROVE  IInv'
  <2>1. CASE AdmitDuplicate(m)
    BY <2>1, AdmitDuplicateStep, Stutter
  <2>2. CASE AdmitRoot(m)
    BY <2>2, AdmitRootStep
  <2>3. ASSUME NEW r \in Ref, AdmitReply(m, r)
        PROVE  IInv'
    BY <2>3, AdmitReplyStep
  <2>4. QED
    BY <1>1, <2>1, <2>2, <2>3 DEF Admit
<1>2. ASSUME NEW c \in Claim, LoopStep(c)
      PROVE  IInv'
  <2>1. CASE FinishClaim(c)
    BY <2>1, FinishStep DEF FinishClaim, At, OverStage
  <2>2. CASE RecoverUnentered(c)
    BY <2>2, FinishStep DEF RecoverUnentered, At, OverStage
  <2>3. CASE RunnerCancelled(c)
    BY <2>3, RunnerSteps
  <2>4. CASE EnterTask(c) \/ CancelledUnentered(c) \/ Announced(c) \/ RunnerCleanedUp(c)
    BY <2>4, TaskSteps
  <2>5. QED
    BY <1>2, <2>1, <2>2, <2>3, <2>4 DEF LoopStep
<1>3. ASSUME NEW c \in Claim, CliStep(c)
      PROVE  IInv'
  <2>1. CASE RunnerGotSession(c)
    BY <2>1, TaskSteps
  <2>2. CASE \/ RunnerSessionLimit(c) \/ RunnerSessionInfo(c) \/ RunnerErrorEvent(c)
             \/ RunnerComplete(c) \/ RunnerFails(c)
    BY <2>2, RunnerSteps
  <2>3. QED
    BY <1>3, <2>1, <2>2 DEF CliStep
<1>4. ASSUME Command
      PROVE  IInv'
  BY <1>4, StopReplyStep, ClearReplyStep, ClearReplyRaisesStep, StopAllStep, ClearChatStep
     DEF Command
<1>5. CASE UNCHANGED vars
  BY <1>5, Stutter
<1>6. QED
  BY <1>1, <1>2, <1>3, <1>4, <1>5 DEF Next

(* The strengthened invariant holds in every reachable state, for any      *)
(* number of conversations, messages, chats and tasks.                     *)
THEOREM InductiveInvariant == Spec => []IInv
<1>1. Init => IInv
  BY InitInvariant
<1>2. IInv /\ [Next]_vars => IInv'
  BY NextInvariant
<1>3. QED
  BY <1>1, <1>2, PTL DEF Spec

(* Every variable keeps its type.                                          *)
THEOREM TypeCorrect == Spec => []TypeOK
<1>1. IInv => TypeOK
  BY DEF IInv
<1>2. QED
  BY <1>1, InductiveInvariant, PTL

(* No tree ever loses a queued prompt, runs two prompts at once or keeps   *)
(* part of a cleared reply subtree (runtime.py, graph.py).                 *)
THEOREM TreesStayConsistent == Spec => []TreesConsistent
<1>1. IInv => TreesConsistent
  BY DEF IInv
<1>2. QED
  BY <1>1, InductiveInvariant, PTL

(* A tree executes a claim exactly as long as the processor has its task:  *)
(* a conversation is never stuck behind a claim nobody will release, and   *)
(* never runs two tasks (processor.py launch, _finish_and_continue).       *)
THEOREM OneTaskPerClaim == Spec => []ClaimsAreTasks
<1>1. IInv => ClaimsAreTasks
  BY DEF IInv
<1>2. QED
  BY <1>1, InductiveInvariant, PTL

(* The repository's index agrees with the graphs of the published trees:   *)
(* a reply finds its conversation, and only a live one (repository.py).    *)
THEOREM RepliesResolve == Spec => []IndexIsExact
<1>1. IInv => IndexIsExact
  BY DEF IInv
<1>2. QED
  BY <1>1, InductiveInvariant, PTL

(* A conversation cleared while it runs never starts another prompt        *)
(* (manager.py _clear_scope, _remove_message_subtree, _finish_claim).      *)
THEOREM ClearedStaysQuiet == Spec => []DetachedIsQuiet
<1>1. IInv => DetachedIsQuiet
  BY DEF IInv
<1>2. QED
  BY <1>1, InductiveInvariant, PTL

(* Two live runs never share a CLI session (runtime.py _claim,             *)
(* node_runner.py).                                                        *)
THEOREM SessionsAreNotShared == Spec => []ResumesFinishedRun
<1>1. IInv => ResumesFinishedRun
  BY DEF IInv
<1>2. QED
  BY <1>1, InductiveInvariant, PTL

(* A run that is over has reported its prompt before the conversation is   *)
(* handed to the next one (node_runner.py _process_node_impl).             *)
THEOREM RunsAreReported == Spec => []OverIsReported
<1>1. IInv => OverIsReported
  BY DEF IInv
<1>2. QED
  BY <1>1, InductiveInvariant, PTL

-----------------------------------------------------------------------------
(* The order of arrival. *)

ServesInOrder == \A t \in Allocated : InOrder(trees[t], trees'[t])

\* A tree that a step leaves alone, or whose queue is empty.
LEMMA LeftInOrder ==
  ASSUME IInv, NEW t \in Allocated, trees'[t] = trees[t] \/ trees[t].active = 0
  PROVE  InOrder(trees[t], trees'[t])
<1>1. /\ trees[t] \in TreeType
      /\ \A k \in Queued(trees[t]) : trees[t].state[k] = "pending"
      /\ trees[t].active = 0 => Queued(trees[t]) = {}
  BY AllocatedTree
     DEF ConsistentTree, TreeConsistent, QueueIsPending, QueueHasOwner, Queued
<1>2. CASE trees'[t] = trees[t]
  BY <1>1, <1>2, LeavingInOrder
<1>3. CASE trees[t].active = 0
  BY <1>1, <1>3 DEF InOrder
<1>4. QED
  BY <1>2, <1>3

\* A step that changes the tree t alone, and may discard it.
LEMMA OneTreeInOrder ==
  ASSUME IInv, NEW t \in Allocated, NEW u, InOrder(trees[t], u), u.active = trees[t].active,
         NEW S \in SUBSET Tree,
         \/ trees' = [trees EXCEPT ![t] = u]
         \/ trees' = Discard([trees EXCEPT ![t] = u], S)
  PROVE  ServesInOrder
<1>1. trees \in [Tree -> TreeType \cup {None}] /\ Allocated \subseteq Tree
  BY DEF IInv, TypeOK, Allocated
<1>2. ASSUME NEW k \in Allocated
      PROVE  InOrder(trees[k], trees'[k])
  <2> DEFINE v == IF k = t THEN u ELSE trees[k]
  <2>1. [trees EXCEPT ![t] = u][k] = v /\ v.active = trees[k].active
    BY <1>1
  <2>2. trees'[k] = v \/ trees[k].active = 0
    BY <1>1, <2>1 DEF Discard
  <2>3. QED
    BY <2>2, LeftInOrder
<1>3. QED
  BY <1>2 DEF ServesInOrder

(* What admission does to the queues (manager.py admit).                   *)
LEMMA AdmitInOrder ==
  ASSUME IInv, NEW m \in Message, Admit(m)
  PROVE  ServesInOrder
<1>1. CASE AdmitDuplicate(m)
  <2>1. trees' = trees
    BY <1>1, AdmitDuplicateStep DEF vars
  <2>2. QED
    BY <2>1, LeftInOrder DEF ServesInOrder
<1>2. CASE AdmitRoot(m)
  <2>1. PICK t \in Tree :
          /\ trees[t] = None
          /\ trees' = [trees EXCEPT ![t] = EnqueueOrClaim(NewTree(m), m, NextClaim)]
    BY <1>2 DEF AdmitRoot
  <2>2. \A k \in Allocated : k # t /\ trees'[k] = trees[k]
    BY <2>1 DEF Allocated, IInv, TypeOK
  <2>3. QED
    BY <2>2, LeftInOrder DEF ServesInOrder
<1>3. ASSUME NEW r \in Ref, AdmitReply(m, r)
      PROVE  ServesInOrder
  <2> DEFINE t == TreeFor(r)
             u == EnqueueOrClaim(AddNode(trees[t], m, r), m, NextClaim)
  <2>1. /\ t # None /\ trees' = [trees EXCEPT ![t] = u] /\ TreeFor(Prompt(m)) = None
    BY <1>3 DEF AdmitReply
  <2>2. t \in Allocated /\ ConsistentTree(trees[t])
    BY <2>1, ResolvedTree, AllocatedTree
  <2>3. trees[t].state[m] = "absent"
    <3>1. index[r] \in Message /\ published[index[r]] = t
      BY <2>1, ResolvedTree
    <3>2. t \in Published
      BY <2>2, <3>1 DEF Published, Allocated
    <3>3. QED
      BY <2>1, <3>2, UnknownMessage
  <2>4. NextClaim \in Nat
    BY NextClaimIsNew
  <2>5. InOrder(trees[t], u)
    BY <2>2, <2>3, <2>4, AddReplyInOrder
  <2> HIDE DEF u, t
  <2>6. \A k \in Allocated : trees'[k] = IF k = t THEN u ELSE trees[k]
    BY <2>1, <2>2 DEF IInv, TypeOK, Allocated
  <2>7. QED
    BY <2>5, <2>6, LeftInOrder DEF ServesInOrder
<1>4. QED
  BY <1>1, <1>2, <1>3 DEF Admit

(* What the end of a claim does: a detached tree has nothing queued.       *)
LEMMA FinishServesInOrder ==
  ASSUME IInv, NEW c \in Claim, Finish(c)
  PROVE  ServesInOrder
<1> DEFINE t == tasks[c].tree
           u == FinishAndClaimNext(trees[t], c, NextClaim)
           detached == {t} \ {published[tasks[c].root]}
<1>1. trees' = Discard([trees EXCEPT ![t] = u], detached)
  BY DEF Finish
<1>2. /\ c \in Nat \ {0} /\ t \in Tree /\ t \in Allocated /\ ConsistentTree(trees[t])
      /\ trees[t].active = c /\ trees[t].root = tasks[c].root /\ tasks[c].root \in Message
  BY ClaimsTree DEF SlotType
<1>3. InOrder(trees[t], u)
  BY <1>2, NextClaimIsNew, FinishInOrder
<1>4. t \notin Published => Queued(trees[t]) = {}
  BY <1>2 DEF IInv, DetachedIsQuiet, ConsistentTree, TreeConsistent, QueueIsPending,
     Queued, Runnable
<1>5. t \in Published => detached = {}
  BY <1>2, QueueAssumption DEF Published, IInv, IndexIsExact
<1> HIDE DEF u, t
<1>6. ASSUME NEW k \in Allocated
      PROVE  InOrder(trees[k], trees'[k])
  <2>1. /\ trees \in [Tree -> TreeType \cup {None}] /\ k \in Tree
    BY DEF IInv, TypeOK, Allocated
  <2>2. CASE k # t
    <3>1. trees'[k] = trees[k]
      BY <1>1, <2>1, <2>2 DEF Discard
    <3>2. QED
      BY <3>1, LeftInOrder
  <2>3. CASE k = t /\ t \in Published
    <3>1. trees'[k] = u
      BY <1>1, <1>2, <1>5, <2>1, <2>3 DEF Discard
    <3>2. QED
      BY <1>3, <2>3, <3>1
  <2>4. CASE k = t /\ t \notin Published
    BY <1>4, <2>4 DEF InOrder
  <2>5. QED
    BY <2>2, <2>3, <2>4
<1>7. QED
  BY <1>6 DEF ServesInOrder

(* A report reaches one tree, or none.                                     *)
LEMMA ReportServesInOrder ==
  ASSUME IInv, NEW c \in Claim, NEW u, Report(c, u),
         Target(c) # None => InOrder(trees[Target(c)], u)
  PROVE  ServesInOrder
<1>1. Target(c) # None => Target(c) \in Allocated
  BY ReportReaches
<1>2. \A k \in Allocated : trees'[k] = IF Target(c) # None /\ k = Target(c) THEN u ELSE trees[k]
  BY <1>1 DEF Report, IInv, TypeOK, Allocated
<1>3. QED
  BY <1>2, LeftInOrder DEF ServesInOrder

(* What the runner of a claim does.                                        *)
LEMMA RunnerServesInOrder ==
  ASSUME IInv, NEW c \in Claim,
         \/ RunnerSessionLimit(c) \/ RunnerSessionInfo(c) \/ RunnerErrorEvent(c)
         \/ RunnerComplete(c) \/ RunnerFails(c) \/ RunnerCancelled(c)
  PROVE  ServesInOrder
<1> DEFINE t == trees[Target(c)]
<1>1. c \in Nat \ {0} /\ tasks[c].captured \in BOOLEAN
  BY ClaimsTree DEF SlotType
<1>2. Target(c) # None => ConsistentTree(t)
  BY ReportReaches, AllocatedTree
<1>3. Target(c) # None =>
        /\ InOrder(t, RecordSession(t, c)) /\ InOrder(t, CompleteClaim(t, c, tasks[c].captured))
        /\ InOrder(t, FailClaim(t, c, TRUE)) /\ InOrder(t, FailClaim(t, c, FALSE))
  BY <1>1, <1>2, ReportsInOrder
<1>4. \/ Report(c, RecordSession(t, c)) \/ Report(c, CompleteClaim(t, c, tasks[c].captured))
      \/ Report(c, FailClaim(t, c, TRUE)) \/ Report(c, FailClaim(t, c, FALSE))
  BY DEF RunnerSessionLimit, RunnerSessionInfo, RunnerErrorEvent, RunnerComplete,
     RunnerFails, RunnerCancelled
<1> HIDE DEF t
<1>5. QED
  BY <1>3, <1>4, ReportServesInOrder DEF t

(* What a stop or a clear of whole trees does.                             *)
LEMMA CancelTreesInOrder ==
  ASSUME IInv, NEW S, trees' = CancelTrees(S) \/ trees' = Discard(CancelTrees(S), S)
  PROVE  ServesInOrder
<1>1. ASSUME NEW k \in Allocated
      PROVE  InOrder(trees[k], trees'[k])
  <2> DEFINE u == IF k \in S THEN Cancel(trees[k], Message) ELSE trees[k]
  <2>1. k \in Tree /\ ConsistentTree(trees[k]) /\ trees[k] \in TreeType
    BY AllocatedTree
  <2>2. CancelTrees(S)[k] = u /\ u.active = trees[k].active
    BY <2>1, CancelEffect DEF CancelTrees, CancelAll
  <2>3. trees'[k] = u \/ trees[k].active = 0
    BY <2>1, <2>2 DEF Discard
  <2>4. InOrder(trees[k], Cancel(trees[k], Message))
    BY <2>1, CancelInOrder
  <2>5. QED
    BY <2>3, <2>4, LeftInOrder
<1>2. QED
  BY <1>1 DEF ServesInOrder

(* What the commands do (manager.py).                                      *)
LEMMA CommandServesInOrder ==
  ASSUME IInv, Command
  PROVE  ServesInOrder
<1>1. ASSUME NEW r \in Ref, StopReply(r) \/ ClearReply(r) \/ ClearReplyRaises(r)
      PROVE  ServesInOrder
  <2> DEFINE t == TreeFor(r)
  <2>1. t # None /\ Owner(r) \in Message
    BY <1>1 DEF StopReply, ClearReply, ClearReplyRaises, Ref, Owner
  <2>2. t \in Allocated /\ t \in Tree /\ ConsistentTree(trees[t]) /\ trees[t] \in TreeType
    BY <2>1, ResolvedTree, AllocatedTree
  <2>3. CASE StopReply(r)
    <3>1. \/ trees' = trees
          \/ trees' = [trees EXCEPT ![t] = Cancel(trees[t], {Owner(r)})]
      BY <2>3 DEF StopReply, CancelNode
    <3>2. /\ InOrder(trees[t], Cancel(trees[t], {Owner(r)}))
          /\ Cancel(trees[t], {Owner(r)}).active = trees[t].active
      BY <2>1, <2>2, CancelInOrder, CancelEffect
    <3> HIDE DEF t
    <3>3. CASE trees' = trees
      BY <3>3, LeftInOrder DEF ServesInOrder
    <3>4. CASE trees' = [trees EXCEPT ![t] = Cancel(trees[t], {Owner(r)})]
      BY <2>2, <3>2, <3>4, OneTreeInOrder
    <3>5. QED
      BY <3>1, <3>3, <3>4
  <2>4. CASE ClearReply(r)
    <3> DEFINE u == RemoveSubtree(trees[t], r)
    <3>1. \/ trees' = [trees EXCEPT ![t] = u]
          \/ trees' = Discard([trees EXCEPT ![t] = u], {t})
      BY <2>4 DEF ClearReply
    <3>2. InOrder(trees[t], u)
      BY <2>2, RemoveSubtreeInOrder
    <3>3. u.active = trees[t].active
      BY <2>2, <2>4, RemoveSubtreeConsistent DEF ClearReply
    <3> HIDE DEF t, u
    <3>4. QED
      BY <2>2, <3>1, <3>2, <3>3, OneTreeInOrder
  <2>5. CASE ClearReplyRaises(r)
    <3>1. PICK S \in SUBSET (AffectedNodes(trees[t], r) \ {trees[t].claimed}) :
            trees' = [trees EXCEPT ![t] = Cancel(trees[t], S)]
      BY <2>5 DEF ClearReplyRaises
    <3>2. S \in SUBSET Message
      BY <2>1, <3>1 DEF AffectedNodes, RemovedNodes, Present
    <3>3. InOrder(trees[t], Cancel(trees[t], S)) /\ Cancel(trees[t], S).active = trees[t].active
      BY <2>2, <3>2, CancelInOrder, CancelEffect
    <3> HIDE DEF t
    <3>4. QED
      BY <2>2, <3>1, <3>3, OneTreeInOrder
  <2>6. QED
    BY <1>1, <2>3, <2>4, <2>5
<1>2. CASE StopAll
  <2>1. PICK S \in Reached(Published) : trees' = CancelTrees(S)
    BY <1>2 DEF StopAll
  <2>2. QED
    BY ONLY IInv, <2>1, CancelTreesInOrder
<1>3. ASSUME NEW chat \in Chat, ClearChat(chat)
      PROVE  ServesInOrder
  <2>1. PICK S \in Reached({t \in Published : ChatOf[trees[t].root] = chat}) :
          trees' = Discard(CancelTrees(S), S)
    BY <1>3 DEF ClearChat
  <2>2. QED
    BY ONLY IInv, <2>1, CancelTreesInOrder
<1>4. CASE \E r \in Ref : StopReply(r) \/ ClearReply(r) \/ ClearReplyRaises(r)
  BY <1>1, <1>4
<1>5. CASE \E chat \in Chat : ClearChat(chat)
  BY <1>3, <1>5
<1>6. QED
  BY <1>2, <1>4, <1>5 DEF Command

(* Prompts of a conversation run in the order in which they arrived: none  *)
(* overtakes another in the queue, and the one claimed next was at its     *)
(* front (queue.py, runtime.py finish_and_claim_next).                     *)
THEOREM ServedInOrder == Spec => ArrivalOrder
<1>1. IInv /\ Next => ServesInOrder
  <2>1. SUFFICES ASSUME IInv, Next PROVE ServesInOrder
    OBVIOUS
  <2>2. ASSUME NEW c \in Claim, LoopStep(c) \/ CliStep(c)
        PROVE  ServesInOrder
    <3>1. CASE FinishClaim(c) \/ RecoverUnentered(c)
      BY <2>1, <3>1, FinishServesInOrder DEF FinishClaim, RecoverUnentered
    <3>2. CASE \/ RunnerSessionLimit(c) \/ RunnerSessionInfo(c) \/ RunnerErrorEvent(c)
               \/ RunnerComplete(c) \/ RunnerFails(c) \/ RunnerCancelled(c)
      BY <2>1, <3>2, RunnerServesInOrder
    <3>3. CASE \/ EnterTask(c) \/ CancelledUnentered(c) \/ Announced(c)
               \/ RunnerGotSession(c) \/ RunnerCleanedUp(c)
      <4>1. trees' = trees
        BY <3>3 DEF EnterTask, CancelledUnentered, Announced, RunnerGotSession, RunnerCleanedUp
      <4>2. QED
        BY <2>1, <4>1, LeftInOrder DEF ServesInOrder
    <3>4. QED
      BY <2>2, <3>1, <3>2, <3>3 DEF LoopStep, CliStep
  <2>3. CASE \E m \in Message : Admit(m)
    BY <2>1, <2>3, AdmitInOrder
  <2>4. CASE Command
    BY <2>1, <2>4, CommandServesInOrder
  <2>5. QED
    BY <2>1, <2>2, <2>3, <2>4 DEF Next
<1> DEFINE Served == \A t \in Allocated :
                       ~\E m, k \in Queued(trees[t]) :
                          /\ trees[t].position[m] < trees[t].position[k]
                          /\ trees'[t].position[m] > 0
                          /\ \/ trees'[t].position[k] \in 1..trees'[t].position[m]
                             \/ trees'[t].state[k] = "in_progress"
<1>2. ServesInOrder => Served
  BY DEF ServesInOrder, InOrder
<1>3. IInv /\ [Next]_vars => [Served]_trees
  BY <1>1, <1>2 DEF vars
<1>4. Spec => [][Served]_trees
  BY <1>3, InductiveInvariant, PTL DEF Spec
<1>5. QED
  BY <1>4 DEF ArrivalOrder
=============================================================================
