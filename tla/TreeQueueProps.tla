--------------------------- MODULE TreeQueueProps ---------------------------
(***************************************************************************)
(* What the messaging tree queue promises.                                 *)
(***************************************************************************)
EXTENDS TreeQueue

Allocated == {t \in Tree : trees[t] # None}

-----------------------------------------------------------------------------
(* Every variable has its type: trees are well-formed aggregates, the      *)
(* repository maps identities to tree objects, and slots are task slots.   *)
TypeOK ==
  /\ trees \in [Tree -> TreeType \cup {None}]
  /\ published \in [Message -> Tree \cup {None}]
  /\ index \in [Ref -> Message \cup {None}]
  /\ Claim \subseteq 1..claims
  /\ tasks \in [Claim -> SlotType]
  /\ claims \in Nat
  /\ admitted \in Nat

-----------------------------------------------------------------------------
(* Every tree is consistent (MessageTree): no prompt is lost between being *)
(* queued and being claimed, at most one is in progress, and a clear takes *)
(* the whole reply subtree.                                                *)
TreesConsistent == \A t \in Allocated : TreeConsistent(trees[t])

-----------------------------------------------------------------------------
(* The claims trees are executing and the task slots of the processor are  *)
(* the same claims: no claim is left without a task to release it, and two *)
(* tasks never run prompts of the same conversation at once (manager.py    *)
(* _finish_claim, processor.py launch and _finish_and_continue).           *)
ClaimsAreTasks ==
  /\ \A t \in Allocated : trees[t].active # 0 =>
       trees[t].active \in Claim /\ tasks[trees[t].active].tree = t
  /\ \A c \in Claim :
       LET t == tasks[c].tree
       IN  /\ t \in Allocated
           /\ trees[t].active = c
           /\ trees[t].claimed = tasks[c].node
           /\ trees[t].root = tasks[c].root
           /\ trees[t].cancelled = tasks[c].cancel

(* The reference index resolves exactly the live references of the         *)
(* published trees, each to the tree that holds it: a reply never reaches  *)
(* a cleared message, nor a tree detached by a clear (repository.py).      *)
IndexIsExact ==
  /\ \A r \in Message :
       published[r] # None =>
         /\ published[r] \in Allocated
         /\ trees[published[r]].root = r
         /\ Prompt(r) \in LiveRefs(trees[published[r]])
  /\ \A r, s \in Message : published[r] = published[s] /\ published[r] # None => r = s
  /\ \A x \in Ref :
       LET holders == {r \in Message : published[r] # None /\ x \in LiveRefs(trees[published[r]])}
       IN  holders = IF index[x] = None THEN {} ELSE {index[x]}

(* A detached tree runs nothing and starts nothing any more: what is left  *)
(* of it is at most the cancelled task of its last claim (manager.py       *)
(* _clear_scope, _finish_claim).                                           *)
DetachedIsQuiet ==
  \A t \in Allocated \ Published :
    /\ \A m \in Message : trees[t].state[m] \notin Runnable
    /\ trees[t].active # 0 /\ trees[t].cancelled

(* A prompt resumes its parent's CLI session only when the run that        *)
(* recorded the session is over: two CLI processes never share a session   *)
(* (runtime.py _claim, parent_session_id).                                 *)
ResumesFinishedRun ==
  \A c \in Claim : tasks[c].resume < c /\ tasks[c].resume \notin Claim

-----------------------------------------------------------------------------
(* A claim whose runner is over, or whose task never started, has been     *)
(* reported: its node is not in progress any more when the tree is handed  *)
(* to the next one (node_runner.py _process_node_impl, processor.py).      *)
OverStage == {"cleanup", "finishing", "unentered"}
OverIsReported ==
  \A c \in Claim : tasks[c].stage \in OverStage =>
    trees[tasks[c].tree].state[tasks[c].node] # "in_progress"

(* A session a live run recorded belongs to the node it is running.        *)
LiveSessionsAreOwned ==
  \A t \in Allocated, m \in Message :
    /\ trees[t].session[m] <= claims
    /\ trees[t].session[m] \in Claim =>
         trees[t].session[m] = trees[t].active /\ m = trees[t].claimed

\* The inductive invariant.
IInv ==
  /\ TypeOK /\ TreesConsistent /\ ClaimsAreTasks /\ IndexIsExact /\ DetachedIsQuiet
  /\ ResumesFinishedRun /\ OverIsReported /\ LiveSessionsAreOwned

-----------------------------------------------------------------------------
(* Prompts of a conversation run in the order they arrived: queued nodes   *)
(* never overtake each other, and the one claimed next was at the front of *)
(* the queue (queue.py, runtime.py finish_and_claim_next).                 *)
ArrivalOrder ==
  [][\A t \in Allocated :
       ~\E m, k \in Queued(trees[t]) :
          /\ trees[t].position[m] < trees[t].position[k]
          /\ trees'[t].position[m] > 0
          /\ \/ trees'[t].position[k] \in 1..trees'[t].position[m]
             \/ trees'[t].state[k] = "in_progress"]_trees

(* cancel_all() says it does "Atomically cancel every runnable node present *)
(* at the transition" (runtime.py), and stop_all_tasks() "Stop every pending *)
(* and active messaging task" (workflow.py): whatever trees a stop reaches, *)
(* no node of a published tree is left to run after it.                    *)
StopAllStopsEverything ==
  \A S \in Reached(Published), m \in Message :
    \A t \in Published : CancelTrees(S)[t].state[m] \notin Runnable

-----------------------------------------------------------------------------
(* Liveness, under the fairness the event loop gives: a task that can take *)
(* a step of its own is resumed.  Nothing is assumed of the Claude CLI.    *)
Fairness == \A c \in 1..MaxAdmissions : WF_vars(c \in Claim /\ LoopStep(c))
FairSpec == Spec /\ Fairness

(* No claim stays cancelled for ever: whatever its task was doing when it  *)
(* was cancelled, it is released in the end (processor.py cancel,          *)
(* _task_done, _recover_unentered_task, _finish_and_continue).             *)
CancelledIsReleased ==
  \A c \in 1..MaxAdmissions : []<>(c \in Claim => ~tasks[c].cancel)

(* A waiting prompt never waits for anything but a running CLI: again and  *)
(* again it is claimed or cancelled, or the claim ahead of it is at its    *)
(* CLI session (processor.py launch, manager.py _finish_claim).            *)
Waiting(t, m) == t \in Published /\ trees[t].position[m] > 0
CliIsRunning(t) ==
  \E c \in Claim : tasks[c].tree = t /\ tasks[c].stage \in {"starting", "running"}
QueueWaitsForCliOnly ==
  \A t \in Tree, m \in Message :
    []<>(Waiting(t, m) => CliIsRunning(t))
=============================================================================
