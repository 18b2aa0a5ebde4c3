----------------------------- MODULE TreeQueue -----------------------------
(***************************************************************************)
(* The messaging tree queue: TreeQueueManager and its TreeRepository       *)
(* (messaging/trees/manager.py, repository.py), the asyncio tasks of       *)
(* TreeQueueProcessor (processor.py) and the node runner each task executes *)
(* (messaging/node_runner.py, node_event_pipeline.py).                     *)
(*                                                                         *)
(* A manager operation holds the manager's lock and never suspends while   *)
(* it does, so it is one step.  Between two suspension points a task is    *)
(* one step too; everything else may run in between.                       *)
(***************************************************************************)
EXTENDS MessageTree

CONSTANTS
  Tree,           \* identities of the MessageTree objects in memory
  Chat,           \* message scopes: one per platform chat
  ChatOf,         \* the chat a message was sent in
  MaxAdmissions   \* bound: nodes admitted in a behaviour

ASSUME QueueAssumption ==
  /\ None \notin Tree
  /\ ChatOf \in [Message -> Chat]
  /\ MaxAdmissions \in Nat

VARIABLES
  trees,      \* the tree objects, published or still referenced by a task
  published,  \* TreeRepository._trees: tree object by identity (the root)
  index,      \* TreeRepository._reference_to_tree: identity by reference
  tasks,      \* TreeQueueProcessor._tasks: task slot by claim id
  claims,     \* claims made so far; the next claim gets the next id
  admitted    \* nodes admitted so far

vars == <<trees, published, index, tasks, claims, admitted>>

(***************************************************************************)
(* Where the task of a slot is suspended:                                  *)
(*   created     asyncio.create_task() was called, the body not entered    *)
(*   announcing  in the started and queue-updated callbacks of a successor *)
(*   starting    the runner is acquiring a managed CLI session             *)
(*   running     the runner is consuming the CLI's events                  *)
(*   cleanup     the runner's finally clause is removing the CLI session   *)
(*   finishing   the runner is over, the claim not yet released            *)
(*   unentered   the task was cancelled before it entered its body         *)
(***************************************************************************)
TaskStage == {"created", "announcing", "starting", "running", "cleanup",
              "finishing", "unentered"}

SlotType ==
  [tree : Tree,
   root : Message,       \* claim.identity
   node : Message,       \* claim.node
   resume : Nat,         \* claim.parent_session_id
   announce : BOOLEAN,
   stage : TaskStage,
   captured : BOOLEAN,   \* the runner learned the CLI's real session id
   cancel : BOOLEAN]     \* cancellation_requested, and task.cancel() called

Claim == DOMAIN tasks
Published == {t \in Tree : \E r \in Message : published[r] = t}

NextClaim == claims + 1

\* get_tree_for_reference(): the published tree that owns a reference.
TreeFor(r) == IF index[r] = None THEN None ELSE published[index[r]]

\* A detached tree is referenced by the task of its active claim only: without
\* one the object is garbage.
Discard(ts, S) ==
  [t \in Tree |-> IF t \in S /\ ts[t].active = 0 THEN None ELSE ts[t]]

-----------------------------------------------------------------------------
(* Slots. *)

\* launch(): attach a task to the claim a tree has just made.
Launch(slots, t, tree, announce) ==
  [c \in DOMAIN slots \cup {tree.active} |->
     IF c # tree.active THEN slots[c]
     ELSE [tree |-> t, root |-> tree.root, node |-> tree.claimed,
           resume |-> ParentSession(tree, tree.claimed),
           announce |-> announce, stage |-> "created",
           captured |-> FALSE, cancel |-> FALSE]]

Pop(slots, c) == [k \in DOMAIN slots \ {c} |-> slots[k]]

\* cancel(), for the claims the trees of S, now ts, have just cancelled.
CancelTasks(slots, ts, S) ==
  [c \in DOMAIN slots |->
     IF \E t \in S : ts[t].active = c /\ ts[t].cancelled
     THEN [slots[c] EXCEPT !.cancel = TRUE] ELSE slots[c]]

GoTo(c, stage) == tasks' = [tasks EXCEPT ![c].stage = stage]

-----------------------------------------------------------------------------
(* Admission, TreeQueueManager.admit(). *)

\* After t took the message in, start the claim it made, if it made one.
LaunchIfClaimed(t) ==
  /\ tasks' = IF trees'[t].active = NextClaim
              THEN Launch(tasks, t, trees'[t], FALSE) ELSE tasks
  /\ claims' = IF trees'[t].active = NextClaim THEN NextClaim ELSE claims

\* A message the index knows already: the platform delivered it again.
AdmitDuplicate(m) ==
  /\ TreeFor(Prompt(m)) # None
  /\ LET t == TreeFor(Prompt(m))
     IN  /\ trees' = [trees EXCEPT ![t] = EnqueueOrClaim(@, m, NextClaim)]
         /\ LaunchIfClaimed(t)
  /\ UNCHANGED <<published, index, admitted>>

AdmitRoot(m) ==
  /\ admitted < MaxAdmissions
  /\ TreeFor(Prompt(m)) = None
  /\ \E t \in Tree :
       /\ trees[t] = None
       /\ trees' = [trees EXCEPT ![t] = EnqueueOrClaim(NewTree(m), m, NextClaim)]
       /\ published' = [published EXCEPT ![m] = t]
       /\ LaunchIfClaimed(t)
  /\ index' = [index EXCEPT ![Prompt(m)] = m, ![Status(m)] = m]
  /\ admitted' = admitted + 1

\* r is the message replied to.
AdmitReply(m, r) ==
  /\ admitted < MaxAdmissions
  /\ TreeFor(Prompt(m)) = None
  /\ ChatOf[m] = ChatOf[Owner(r)]
  /\ LET t == TreeFor(r)
     IN  /\ t # None /\ r \in LiveRefs(trees[t])
         /\ trees' = [trees EXCEPT ![t] = EnqueueOrClaim(AddNode(@, m, r), m, NextClaim)]
         /\ index' = [index EXCEPT ![Prompt(m)] = trees[t].root,
                                   ![Status(m)] = trees[t].root]
         /\ LaunchIfClaimed(t)
  /\ admitted' = admitted + 1
  /\ UNCHANGED published

-----------------------------------------------------------------------------
(* The life of a claim's task, TreeQueueProcessor._run_claim(). *)

At(c, stage) == tasks[c].stage = stage
NotCancelled(c) == ~tasks[c].cancel

EnterTask(c) ==
  /\ At(c, "created") /\ NotCancelled(c)
  /\ GoTo(c, IF tasks[c].announce THEN "announcing" ELSE "starting")
  /\ UNCHANGED <<trees, published, index, claims, admitted>>

\* CancelledError is thrown into a coroutine that never ran: no finally clause.
CancelledUnentered(c) ==
  /\ At(c, "created") /\ tasks[c].cancel
  /\ GoTo(c, "unentered")
  /\ UNCHANGED <<trees, published, index, claims, admitted>>

Announced(c) ==
  /\ At(c, "announcing")
  /\ GoTo(c, IF tasks[c].cancel THEN "finishing" ELSE "starting")
  /\ UNCHANGED <<trees, published, index, claims, admitted>>

\* _finish_claim(), then the slot is popped: release the claim and, if the tree
\* is still published, launch its successor.
Finish(c) ==
  LET t == tasks[c].tree
      finished == FinishAndClaimNext(trees[t], c, NextClaim)
      succeeded == finished.active = NextClaim
      detached == {t} \ {published[tasks[c].root]}
  IN  /\ trees' = Discard([trees EXCEPT ![t] = finished], detached)
      /\ claims' = IF succeeded THEN NextClaim ELSE claims
      /\ tasks' = Pop(IF succeeded /\ detached = {}
                      THEN Launch(tasks, t, finished, TRUE) ELSE tasks, c)
      /\ UNCHANGED <<published, index, admitted>>

FinishClaim(c) == At(c, "finishing") /\ Finish(c)

\* Mutants of RecoverUnentered: the successor is claimed and gets no task; the claim
\* of a detached tree is not recovered.
RecoverWithoutLaunch(c) ==
  LET t == tasks[c].tree
      finished == FinishAndClaimNext(trees[t], c, NextClaim)
  IN  /\ At(c, "unentered")
      /\ trees' = Discard([trees EXCEPT ![t] = finished], {t} \ Published)
      /\ claims' = IF finished.active = NextClaim THEN NextClaim ELSE claims
      /\ tasks' = Pop(tasks, c)
      /\ UNCHANGED <<published, index, admitted>>
RecoverPublished(c) ==
  At(c, "unentered") /\ published[tasks[c].root] = tasks[c].tree /\ Finish(c)

\* The task's done callback, or cancel(), scheduled a recovery task.
RecoverUnentered(c) == At(c, "unentered") /\ Finish(c)

-----------------------------------------------------------------------------
(* The node runner, MessagingNodeRunner._process_node_impl().  It reports  *)
(* through the manager, which looks the tree up by the claim's identity.   *)

Target(c) == published[tasks[c].root]
Report(c, outcome) ==
  trees' = IF Target(c) = None THEN trees ELSE [trees EXCEPT ![Target(c)] = outcome]

RunnerGotSession(c) ==
  /\ At(c, "starting") /\ NotCancelled(c)
  /\ GoTo(c, "running")
  /\ UNCHANGED <<trees, published, index, claims, admitted>>

\* Mutant of RunnerSessionLimit: the refused prompt is not reported as failed.
RunnerSessionLimitSilent(c) ==
  /\ At(c, "starting") /\ NotCancelled(c)
  /\ GoTo(c, "cleanup")
  /\ UNCHANGED <<trees, published, index, claims, admitted>>

\* get_or_create_session() raised RuntimeError.
RunnerSessionLimit(c) ==
  /\ At(c, "starting") /\ NotCancelled(c)
  /\ Report(c, FailClaim(trees[Target(c)], c, FALSE))
  /\ GoTo(c, "cleanup")
  /\ UNCHANGED <<published, index, claims, admitted>>

\* A session_info event: the real session id is registered and recorded once.
RunnerSessionInfo(c) ==
  /\ At(c, "running") /\ NotCancelled(c) /\ ~tasks[c].captured
  /\ Report(c, RecordSession(trees[Target(c)], c))
  /\ tasks' = [tasks EXCEPT ![c].captured = TRUE]
  /\ UNCHANGED <<published, index, claims, admitted>>

\* An error event other than the exit: descendants keep waiting.
RunnerErrorEvent(c) ==
  /\ At(c, "running") /\ NotCancelled(c)
  /\ Report(c, FailClaim(trees[Target(c)], c, FALSE))
  /\ UNCHANGED <<published, index, tasks, claims, admitted>>

\* Exit with code 0.
RunnerComplete(c) ==
  /\ At(c, "running") /\ NotCancelled(c)
  /\ Report(c, CompleteClaim(trees[Target(c)], c, tasks[c].captured))
  /\ GoTo(c, "cleanup")
  /\ UNCHANGED <<published, index, claims, admitted>>

\* Exit with an error, end of stream without a terminal event, or an exception
\* the runner handles.
RunnerFails(c) ==
  /\ tasks[c].stage \in {"starting", "running"} /\ NotCancelled(c)
  /\ Report(c, FailClaim(trees[Target(c)], c, TRUE))
  /\ GoTo(c, "cleanup")
  /\ UNCHANGED <<published, index, claims, admitted>>

\* CancelledError is delivered at the runner's next resumption.
RunnerCancelled(c) ==
  /\ tasks[c].stage \in {"starting", "running"} /\ tasks[c].cancel
  /\ Report(c, FailClaim(trees[Target(c)], c, FALSE))
  /\ GoTo(c, "cleanup")
  /\ UNCHANGED <<published, index, claims, admitted>>

RunnerCleanedUp(c) ==
  /\ At(c, "cleanup")
  /\ GoTo(c, "finishing")
  /\ UNCHANGED <<trees, published, index, claims, admitted>>

-----------------------------------------------------------------------------
(* Stop and clear commands. *)

\* cancel_node(): stop the node that owns a replied-to message.
StopReply(r) ==
  LET t == TreeFor(r)
      m == Owner(r)
  IN  /\ t # None /\ r \in LiveRefs(trees[t])
      /\ IF Unreportable(trees[t]) /\ trees[t].claimed = m
         THEN UNCHANGED <<trees, tasks>>
         ELSE /\ trees' = [trees EXCEPT ![t] = CancelNode(@, m)]
              /\ tasks' = CancelTasks(tasks, trees', {t})
      /\ UNCHANGED <<published, index, claims, admitted>>

\* The trees of S that cancel_all() reaches: a tree it raises for ends the loop,
\* and the order of the loop is the order the trees were published in.
Reached(S) ==
  LET raising == {t \in S : Unreportable(trees[t])}
  IN  IF raising = {} THEN {S} ELSE SUBSET (S \ raising)

\* Mutant of CancelTrees: the trees are left running.
CancelNothing(S) == trees

CancelTrees(S) == [t \in Tree |-> IF t \in S THEN CancelAll(trees[t]) ELSE trees[t]]

\* cancel_all().
StopAll ==
  /\ \E S \in Reached(Published) :
       trees' = CancelTrees(S) /\ tasks' = CancelTasks(tasks, CancelTrees(S), S)
  /\ UNCHANGED <<published, index, claims, admitted>>

Detach(S) ==
  /\ published' = [r \in Message |-> IF published[r] \in S THEN None ELSE published[r]]
  /\ index' = [r \in Ref |->
                 IF index[r] # None /\ published[index[r]] \in S THEN None ELSE index[r]]

\* clear_scope(): cancel and detach every tree of a chat.
ClearChat(chat) ==
  /\ \E S \in Reached({t \in Published : ChatOf[trees[t].root] = chat}) :
       /\ trees' = Discard(CancelTrees(S), S)
       /\ tasks' = CancelTasks(tasks, CancelTrees(S), S)
       /\ Detach(S)
  /\ UNCHANGED <<claims, admitted>>

\* remove_message_subtree(): delete a message and the replies below it.
ClearReply(r) ==
  LET t == TreeFor(r)
      left == [trees EXCEPT ![t] = RemoveSubtree(@, r)]
      forgotten == ReplySubtree(trees[t], r)
  IN  /\ t # None /\ r \in LiveRefs(trees[t])
      /\ ~(Unreportable(trees[t]) /\ trees[t].claimed \in AffectedNodes(trees[t], r))
      /\ IF Prompt(trees[t].root) \in forgotten
         THEN trees' = Discard(left, {t}) /\ Detach({t})
         ELSE /\ trees' = left
              /\ index' = [x \in Ref |-> IF x \in forgotten THEN None ELSE index[x]]
              /\ UNCHANGED published
      /\ tasks' = CancelTasks(tasks, left, {t})
      /\ UNCHANGED <<claims, admitted>>

\* The same call when it raises: some of the nodes are already cancelled, and
\* nothing is removed.
ClearReplyRaises(r) ==
  LET t == TreeFor(r)
      affected == AffectedNodes(trees[t], r)
  IN  /\ t # None /\ r \in LiveRefs(trees[t])
      /\ Unreportable(trees[t]) /\ trees[t].claimed \in affected
      /\ \E S \in SUBSET (affected \ {trees[t].claimed}) :
           trees' = [trees EXCEPT ![t] = Cancel(@, S)]
      /\ UNCHANGED <<published, index, tasks, claims, admitted>>

-----------------------------------------------------------------------------
Init ==
  /\ trees = [t \in Tree |-> None]
  /\ published = [r \in Message |-> None]
  /\ index = [r \in Ref |-> None]
  /\ tasks = [c \in {} |-> None]
  /\ claims = 0
  /\ admitted = 0

Admit(m) == AdmitDuplicate(m) \/ AdmitRoot(m) \/ \E r \in Ref : AdmitReply(m, r)

\* The steps the event loop takes by itself.
LoopStep(c) ==
  \/ EnterTask(c) \/ CancelledUnentered(c) \/ Announced(c)
  \/ FinishClaim(c) \/ RecoverUnentered(c)
  \/ RunnerCancelled(c) \/ RunnerCleanedUp(c)

\* The steps that depend on the Claude CLI process.
CliStep(c) ==
  \/ RunnerGotSession(c) \/ RunnerSessionLimit(c) \/ RunnerSessionInfo(c)
  \/ RunnerErrorEvent(c) \/ RunnerComplete(c) \/ RunnerFails(c)

Command ==
  \/ \E r \in Ref : StopReply(r) \/ ClearReply(r) \/ ClearReplyRaises(r)
  \/ StopAll
  \/ \E chat \in Chat : ClearChat(chat)

Next ==
  \/ \E m \in Message : Admit(m)
  \/ \E c \in Claim : LoopStep(c) \/ CliStep(c)
  \/ Command

Spec == Init /\ [][Next]_vars
=============================================================================
