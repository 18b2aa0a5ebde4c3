# Formal models of free-claude-code

free-claude-code (FCC) is an asyncio program that stands between Claude Code clients and other
model providers. It serves the Anthropic and the Responses API over HTTP, translates requests to
upstream providers behind a shared admission controller, and runs a messaging bot (Telegram,
Discord) that drives managed Claude CLI sessions from chat messages. This directory holds TLA+
models of it, the TLC runs that check them and TLAPS proofs about them.

Paths below are relative to `src/free_claude_code/` of the repository.

- [Inventory](#inventory): the parts, their state, how they interact, what is hard
- [Modules](#modules): what models what, and how state and actions correspond to code
- [Runs](#runs): what each one checks, bounds, fairness
- [Proofs](#proofs): what is proved, from what, and how
- [Findings](#findings): where code and documents disagree
- [Limits](#limits), [Not modelled](#not-modelled) and [Plan](#plan)

## Inventory

The program runs on one event loop, so "concurrency" mostly means interleaving at `await`.
Exceptions: session persistence (timer threads) and the Codex account (several processes share a
credential file).

| Part | State | Hard | Correct when |
|---|---|---|---|
| Message tree, `messaging/trees/{runtime,graph,node,queue}.py` | one conversation: nodes, references, FIFO queue, active claim | operations compose in any order; a removed status leaves its prompt | no waiting prompt is lost; at most one in progress; clears take whole subtrees |
| Tree queue, `messaging/trees/{manager,repository,processor}.py` | published trees, reference index, a task per claim | a detached tree drains while its identity is published again; tasks cancelled before they start | claims and tasks correspond; the index is exact; every claim is released |
| Node runner, `messaging/node_runner.py`, `ui_updates.py`, `transcript/` | the run of one claim and what is shown of it | cancellation at each suspension point; parallel subagents; failing edits | it reports before it is released; the last message shows transcript and outcome |
| Messaging workflow, `messaging/{workflow,turn_intake}.py` | stop and clear generations, recent messages, status ownership | a stop or clear between the posting of a status and admission | a turn that began before a stop does not run after it; cleared prompts stay cleared |
| Session store, `messaging/session/` | document, dirty flag, debounced writer threads | threads race on file and flag; crash between change and write | the file never goes back; a flush leaves nothing behind |
| Delivery, `messaging/{limiter,outbox}.py` | queue of operations by key, one worker | coalesced edits, retries, shutdown with waiters | every waiter is answered; edits go forward |
| Voice notes, `messaging/voice.py`, `voice_flow.py` | pending claims and handoffs | cancelled while transcribing or handing off | a note is settled by exactly one side |
| Managed sessions, `cli/managed/` | sessions by id, pending ids, closing set | removal racing with registration and stop-all; a stop that fails | nothing started is lost; nothing starts in a forgotten session |
| Provider admission, `providers/admission.py` | recovery episode, slots, retry sessions | permits that go stale while a call queues; cancelled leaders | a circuit breaker with an owned probe; slots are conserved |
| Provider streams, `providers/openai_chat/`, `stream_recovery.py`, `core/anthropic/streaming/` | attempt, held-back events, block ledger | cut streams: retry, recover, repair | the client sees one well-formed message, nothing twice |
| Native tool markup, `providers/nvidia_nim/native_tool_stream.py` | framer per field, parsed calls | tags split over chunks and fields | markup never leaks, calls are those written |
| Responses API, `core/openai_responses/`, `openai_codex/provider.py` | open items, output | retried, failed, cut upstreams | every item is opened, filled and finished once |
| Histories, `core/anthropic/conversion.py`, `core/openai_responses/{input,provider_input}.py` | pending tool calls, deferred text | late, partial, mixed tool results | all is said once, in order, results after their calls |
| Request repair, key pool, `openai_chat/provider.py`, `keypool.py`, `output_cap.py` | body, learned limits, current key | concurrent rotation; repeated refusals | only what was refused is given up; overloaded keys are left |
| Provider generations, `runtime/provider_manager.py`, `providers/runtime/` | generations with leases, refresh task | last release racing with replacement and shutdown | a generation is closed once, never under a lease |
| Requests, `api/`, `application/execution.py`, `core/usage_tracking.py` | response stream and its lease, usage record | disconnects during clean-up; a reader that stops early | one release, one truthful record |
| Routing, `application/{routing,reasoning}.py`, model lists | catalog, counters | names that outlive saves and discoveries | a name reaches its model or is refused |
| Codex account, `providers/openai_codex/{auth,login}.py` | credentials on disk, login attempt | one-time tokens shared by processes; cancelled logins | a good token survives; no listener without owner |
| Settings, `config/`, `runtime/application.py` | values by source, running values | masked, pooled, locked, retired values | running is what a restart would load |
| Server life, `cli/commands.py`, `runtime/{application,bootstrap}.py` | supervisor, started parts | failure halfway through start or close | handlers never meet what is gone; servers do not overlap |

How the parts meet: the workflow calls the tree queue and gives it the node runner as a callback; a
claim's task runs the runner, which asks the session pool for a CLI process, edits its status
message through the delivery queue and reports back. Every change of a tree is saved in the store. A
request takes a lease on a provider generation; each of its upstream attempts goes through that
generation's admission controller; what comes back is translated to the API of the client.

Every hazard we know of is in `PROJECT.json` under `hazards`, at its line, with the properties that
would catch it, or a note that says why none does.

## Modules

| Module | Models |
|---|---|
| `MessageTree` | a tree with its graph and queue: operators from a tree to a tree |
| `TreeQueue`, `TreeQueueProps` | manager, repository, processor tasks and node runner: the state machine; its properties and `IInv` |
| `ChatWorkflow` | one chat: prompts, `/stop`, `/clear`, store and message log around the trees |
| `DurableStore`, `SessionPersistence` | what the store promises; the store, its timer threads and three locks |
| `MessageDelivery` | outbox and rate limiter of one platform |
| `VoiceNotes` | voice notes before and while messaging handles them |
| `ManagedSessions` | the pool of CLI sessions and the process of each |
| `TurnDisplay` | events to transcript to status message |
| `RecoveryCircuit`, `ProviderAdmission`, `ProviderAdmissionProps` | an abstract circuit breaker; the admission controller and the three kinds of calls through it; its properties and the refinement |
| `StreamTranslation` | one chat stream translated to an Anthropic event stream |
| `NativeTools` | tool calls written as markup into text |
| `ResponsesBridge` | a Responses client served by a provider that speaks Responses or not |
| `HistoryConversion`, `ReasoningReplay` | histories rewritten for a provider; reasoning given back to it |
| `RequestFallback` | refused requests, their repairs, and the key pool |
| `ProviderGenerations`, `RequestLifetime` | generations, leases, discovery, replacement, shutdown; requests over them, and their usage records |
| `ModelRouting` | which model answers, what is offered, with what reasoning |
| `AccountTokens`, `LoginFlow` | credentials over processes; login attempts within one |
| `AdminSettings`, `ServerLifecycle` | where a setting comes from and when it takes effect; supervisor, runtime and messaging from start to close |
| `MCTreeQueue`, `MCProviderAdmission`, `MCService`, `MCMessaging`, `MCGateway`, `MCModelRouting` | instances for TLC |
| `RecursionLemmas` | lemmas about functions defined by recursion over numbers |
| `TreeQueueProofs` | proofs about trees and the tree queue |
| `ProviderAdmissionProofs`, `ProviderAdmissionSafety` | proofs about admission: the refinement; its safety properties |
| `MessagingProofs` | proofs about voice notes, delivery, the session pool, chat commands, the display of a turn and the store |
| `StreamProofs` | proofs about the stream translation and the Responses bridge |
| `RequestLifetimeProofs`, `GatewayProofs` | proofs about generations and requests; about login, tokens, request repair, settings, server life and routing |

Operators that no action uses (`SaveCoalesces`, `EntersUnchecked`, `CancelNothing` and the like;
their comment says what is wrong with them) are faulty versions of the definition after them. Each
is substituted for it to see that a property notices.

A conversion that is a function of its input (`MessageTree`, `HistoryConversion`, parts of
`ModelRouting`) is an operator; the machine around it enumerates the inputs, one piece per step.

### The tree queue

Every public method of the Python tree runs under a lock it never suspends in, so a method is an
*operator* on trees. `TreeQueue` holds the state of the manager: `trees` are tree *objects*,
`published` the repository's map from identity (root message) to object, `index` its map from a
reference (prompt or status message) to identity, and `tasks` the processor's slots by claim id.
The distinction of object and identity is the heart of the model: after a clear, an object is
detached and drains while a new object may be published under its identity.

| Code | Model |
|---|---|
| `TreeQueueManager.admit` | `AdmitDuplicate`, `AdmitRoot`, `AdmitReply` |
| `launch`, `_run_claim`, `_finish_and_continue` | `Launch`, `EnterTask`, `CancelledUnentered`, `Announced`, `FinishClaim` |
| `_task_done`, `_recover_unentered_task` | `RecoverUnentered` |
| `node_runner._process_node_impl` | `RunnerGotSession` ... `RunnerCleanedUp`, split where it awaits |
| `cancel_node`, `cancel_all`, `clear_scope`, `remove_message_subtree` | `StopReply`, `StopAll`, `ClearChat`, `ClearReply`, `ClearReplyRaises` |

A drain after a command waits at most five seconds, so the model does not wait for it: whatever a
command cancelled may still be anywhere. `Reached(S)` is the nondeterminism of Python's dict order
in loops that may raise halfway.

### Provider admission

`calls[c].pc` is the suspension point a call is at; an action is what runs from there to the next
one. The controller's `Condition` is never held across a suspension, so each block under it is an
operator on a state record, and an action is a pipeline of them: a failing chat attempt is
`Gate(ReleaseSlot(Failed(Now, c)), c)`, as `retry()`, `aclose()` and `open_attempt()` run without
an await between them, while a Codex attempt closes its response first and asks for a token.

| Code | Model |
|---|---|
| `_wait_for_gate` | `Gate`, `PassGate`, `Lead`; `Recheck`, `BackoffEnds` after its suspensions |
| `open_attempt` | `LimiterAdmits`, `SlotResumes`, `Claim` |
| `_attempt_succeeded/_corrected/_rejected/_failed/_abandoned` | `Succeeded`, `Corrected`, `Rejected`, `Failed`, `Abandoned` |
| `aclose` of an unanswered attempt (shielded task) | `CancelUpstream`, `AbandonRuns`, `AbandonedLeaves`, in either order |
| `_create_stream`, `run`, `_collect_recovery_output` | `StreamOpens`, `Corrects`, `Fails`, `FirstEvent`, `StreamEnds`, `StreamCut`, `RecoversMidstream`, `Closed` |
| `_run_stream` of Codex | the same, with `AccessGranted` and `AccessEnds` before the gate |
| `asyncio.Semaphore`, `Condition` | `free`, `queue`, `ReleaseSlot`; `NotifyAll` (external: first come first served, a released slot is handed over before its taker resumes, and until then a newcomer queues behind it: `Resuming`, `Woken`) |

Time is two bits of the episode: whether `ready_at` and `terminal_until` are past. Closing a stream
is not a place where a call is cancelled: httpcore shields it. `RecoveryCircuit` says what all of
that is for, in six short actions over `mode`, `owner` and the calls whose attempt is unanswered
(`asking`).

### The session store

A version stands for the contents of the document. `writer[w]` is where thread `w` is: timers are
named after the save generation that armed them, the event loop is writer 0. A section of the timer
lock calls nothing and is one step; the store lock (`storeLock`) and the writer lock are held over
several.

| Code | Model |
|---|---|
| `store.py` mutators and `schedule_save` | `SaveBegins`, `SaveSchedules` |
| `clear_scope` and `write_data` | `ClearBegins`, `ClearSupersedes`, then as any writer |
| `flush_pending_save` | `FlushBegins`, `FlushClaims` |
| `_claim_timer`, `_save_from_timer` | `TimerFires`, `TakesSnapshot` |
| `_write_if_current`, `_mark_clean_if_current` | `EntersWriter`, `Writes`, `WriteFails`, `Marks`, `Cleans`, `WriterFails` |
| end of the process, `_load` | `Crash` |

`promised` is a history variable: the newest contents for which a clear or a flush returned normally.

### Messaging

- `ChatWorkflow`: `handler[h].at` is the suspension point of a prompt's or command's handler; the
  trees are reduced to which prompts are held, queued and running, so that the generations, the
  message log, the store and the order of deletions can be followed. A stop saves its snapshots one
  step after it took them, as the code does.
- `MessageDelivery`: `queue`, the operation the worker holds, and who waits for which; operations of
  one key are compacted when they are enqueued. A failed fire-and-forget call is enqueued again.
- `ManagedSessions`: the three maps of the manager under its lock, `_closing`, and the process of a
  session; a removal is shielded, and the caller can be cancelled again while it waits.
- `VoiceNotes`: the registry (`pending`, handoffs, exclusion of the caller's own handoff), the flow
  and the commands that cancel one or all.
- `TurnDisplay`: segments and the stack of open Tasks, the status line, the last edit sent and the
  last one that arrived. A result closes a Task by its id, by a prefix of it either way, or by a
  guess if the Task has none, as the code has it; ids are sequences, so that "10" extends "1". A turn
  in which that cannot tell results apart is `muddled`, and only there may a subagent's text be shown.

### The gateway

- `StreamTranslation`: pieces of text, reasoning and tool calls arrive, the ledger opens and closes
  blocks, the holdback keeps events until its deadline; a failure is retried while nothing was sent,
  else recovered by a second request whose answer continues the open blocks.
- `NativeTools`: text is a sequence of tokens (half tags, tags, words); the framer of each field and
  the grammar of a block are the code's.
- `ResponsesBridge`: the upstream's items become Anthropic blocks and those become items again.
- `HistoryConversion`: three conversions, each against what was said.
- `RequestFallback`: bodies are the sets of optional parts they still have and a token limit.
- `ProviderGenerations`/`RequestLifetime`: `gen[g]` has leases, clients and flags; `lease[h]` is the
  generation a holder retains. `RequestLifetime` EXTENDS the former and adds the requests.
- `ModelRouting`: saves change the settings, discovery the catalog; a client keeps a name and asks.
- `AccountTokens`: two processes, one file, an authority that renews a token once. A request is
  cancelled at any await; the thread it waits for goes on after the lock was given back, and writes
  late, deletes late, or gets a lock that nobody wants. `GoodTokenSurvives` excepts what such threads
  do, which may cost another process its good credentials.
- `LoginFlow`: login attempts, the operations on them and what the runtime is told. A start that is
  cancelled while its listener starts leaks it, and a failed listing of the models is recorded like
  one that succeeded; `LoginsAreSettled` says what holds all the same.
- `AdminSettings`: six places a value may come from, four kinds of settings.
- `ServerLifecycle`: the supervisor's loop, the steps of start and close and which of them fail.

## Runs

Each passing run ends within about three minutes on two workers.

| Run | Instance | Shows |
|---|---|---|
| `queue` | one tree and 3 prompts, or 2 tree objects and 2 prompts delivered again; 3 admissions, with fairness; 304 thousand states | queueing, failures spreading, stops and clears of any subtree keep a tree consistent and serve it in order; a detached tree beside its successor; index, slots and trees agree; every cancelled claim is released; a queued prompt waits for nothing but a running CLI |
| `admission_gate` | a one-shot call, a chat and a Codex stream, or two chat streams; 2 attempts, 2 slots, every cancellation, with fairness; 178 thousand | slots are conserved, leaders act, outcomes are shared, the circuit breaker is implemented, and every call ends unless a leader was lost or cut streams hold every slot and wait for one another's |
| `service` | a request, an administrative operation, discovery and shutdown, 2 generations, an account, with fairness; 284 thousand | clients are closed only when nobody retains them, all are in the end, each stream leaves one record |
| `messaging` | the six machines of the messaging side; 3.2 million | see below |
| `gateway` | ten machines of the gateway; 669 thousand | see below |
| `stop`, `admission_leader`, `admission_slots`, `cut`, `rotation`, `usage`, `details` | small | violations: see [findings](#findings) |

`messaging` and `gateway` are sums of machines that share no state: a behaviour picks one at the
start (`machine`) and runs it alone. That explores each machine in full, exactly as a run of its own
would, and the view leaves out the machines at rest.

| Machine | Instance | Properties |
|---|---|---|
| store (461 thousand states) | 3 changes, 1 failed write, 1 crash | `ImplementsDurableStore`, `NothingIsForgotten` |
| chat (418) | 2 prompts, 2 commands, 1 trouble | `CommandsAreComplete` |
| display (2051) | 4 events, 2 Tasks, 3 ids - one a prefix of another, one that looks like a Task's - or none, size limit 2, 1 lost edit | `TurnIsShown` |
| pool (142) | 2 turns, 2 ids, one the parent's, 2 cancellations, 1 stop-all, 1 failure | `SessionsAreAccountedFor` |
| delivery (155) | 3 calls over 2 keys, 1 retry, 2 errors | `EveryWaiterIsServed`, `EditsGoForward` |
| voice (18) | 2 notes of one voice message, 2 commands | `VoiceIsSettled` |
| fallback (191) | 2 concurrent requests, 2 keys, quota 3, 3 sends | `RequestsAdapt` |
| stream (79) | 3 attempts, 2 chunks each, 2 tools | `ClientSeesLedger` |
| login (120) | 2 attempts, 4 operations | `LoginsAreSettled` |
| bridge (49) | 2 items, 2 pieces each, 2 tries | `ResponseIsWhole` |
| account (115) | 2 processes, 3 credentials, 3 calls | `GoodTokenSurvives` |
| native (42) | blocks of up to 27 tokens, depth 2, 3 cuts | `CallsAreTheModels` |
| history (29) | 5 entries | `HistoryIsKept`, `ReasoningIsReplayed` |
| route (28) | 2 endpoints, 2 models, 1 tier | `NamesAreHonoured` |
| life (10) | 2 restarts, 2 failing steps | `LifecycleIsOrdered` |
| settings (6) | 2 saves, every source of each value | `RunningIsEffective` |

Why the bounds suffice. Three prompts make the shortest queue in which order, a failure that spreads
past one reply and a clear from the middle differ. Two tree objects and a root delivered twice is
the least in which identity and object come apart; a third object would be another one that drains.
One chat suffices as commands of different chats touch disjoint trees. For admission, two attempts
give a first failure, a retry and an exhausted budget; three calls give a leader, a follower and a
call in flight that answers late; two slots are fewer than the three calls and a nested attempt
need, and as many as two recovering chat streams hold. Three changes of the store give a timer
superseded while another thread writes (the proofs drop the bound). Two commands over two prompts
give a stop and a clear that overlap each other and an admission. Three calls to a platform of which
two share a key give compaction behind a call the worker holds. A pool needs a second turn to take
over the session of the first while it is removed. Two processes give every race on the credential
file; a third would repeat the role of one. Three attempts give an early retry and a recovery; two
pieces per block give a cut in the middle. Five entries hold a call, its two halves of results and
text on both sides. Every block of markup that is a call fits in 27 tokens, lists, repeated
arguments and two calls in a block among them, and one is longer (`BlockBound`). Where a mutant
names the fault a bound must leave room for, the run finds it well within it.

Reductions. In `queue` an action constraint keeps the instance to the two shapes above
(`StaysSmall`), and messages and tree objects, and in `messaging` commands, prompts and turns that
are alike, take their names in the order in which they come (`NamedInOrder`). In `admission_gate` an
action constraint says who may come (`FewCome`). None of these hides a behaviour from a liveness
property: they hold back arrivals, which no fairness demands, and never a step of those who came.

Fairness. `TreeQueue!Fairness` is weak fairness of the steps a task takes by itself (`LoopStep`):
asyncio resumes every task that can run. Nothing is assumed of the Claude CLI, which may run for
ever. `ProviderAdmission!FairSpec` adds that upstream answers or times out (the HTTP client has read
timeouts), that streams end, the sliding window moves on and sleeps are finite. Weak fairness
suffices since `asyncio.Semaphore` is first come first served, which the model keeps. Nobody has to
arrive, leave or fail. `EveryCallEnds` excepts behaviours in which a leader was lost (`Orphaned`)
or, from some time on, cut streams hold every slot and wait for one another's (`SlotsLocked`), which
findings 2 and 3 are about. Two chat streams over two slots do reach the latter in `admission_gate`.
`RequestLifetime!ServiceFairness` is the same for tasks of the runtime; a request ends because
upstreams do, and nothing forces a request, a replacement or a shutdown to come. `RetiredCloses`
excepts failed cleanups and a shutdown that was given up.

The tree queue is checked for deadlock. The other runs leave that out: their calls, edits and saves
are finite, so they come to rest with nothing to do.

## Proofs

`TreeQueueProofs` proves for any finite set of messages, any trees, chats and bound:

| Theorem | Property |
|---|---|
| `InductiveInvariant` | `Spec => []IInv` |
| `TypeCorrect` | `TypeOK` |
| `TreesStayConsistent` | `TreesConsistent` |
| `OneTaskPerClaim` | `ClaimsAreTasks` |
| `RepliesResolve` | `IndexIsExact` |
| `ClearedStaysQuiet` | `DetachedIsQuiet` |
| `SessionsAreNotShared` | `ResumesFinishedRun` |
| `RunsAreReported` | `OverIsReported` |
| `ServedInOrder` | `ArrivalOrder` |

Assumptions: `MessageAssumption` (messages are finite, `None` is neither a message nor a
reference), `NoneIsNoTree` (`None` is no tree record) and `QueueAssumption`. TLC evaluates them in
each run.

The argument. The invariants need each other, so they are proved as one, `IInv`:

- *Trees alone.* `TreeQueueProofs` first shows that each tree operator keeps `TreeConsistent` when its
  precondition holds, and what it does to the active claim, the live references and the runnable
  nodes. Queue positions are a function from messages, so that no induction over a sequence is
  needed.
- `ClaimsAreTasks` ties claims to tasks. It is what makes a finishing task's claim that of its own
  tree, and so lets a release start the next prompt of the right conversation.
- `DetachedIsQuiet` is needed by `ClaimsAreTasks`: a detached tree that finishes must not claim.
- `IndexIsExact` is needed so that a reply is added to the tree that holds its parent, and a new
  root's identity is free.
- `ResumesFinishedRun` is not inductive alone. A reply reads its parent's session when it is
  claimed; that the run which recorded it is over follows from `LiveSessionsAreOwned` (a live run's
  session is that of the tree's claimed node) and from the tree having no active claim then.
- `OverIsReported` (a runner that is over has reported) lets `finish` leave no node in progress.

Each action's proof has one step per conjunct it can disturb; the rest is `UNCHANGED`.

`ServedInOrder` needs nothing beyond `IInv` of the state before a step: lemmas show of
each tree operator that what it leaves in the queue keeps its order (`InOrder`), whichever nodes it
drops, and that a claim takes the front. A discarded tree had an empty queue.

`ProviderAdmissionProofs` proves for any calls (finitely many or not), attempt budget and slots:

| Theorem | Property |
|---|---|
| `AdmissionTypeCorrect` | `TypeOK` |
| `CircuitImplemented` | `ImplementsCircuit` |

Assumptions: `AdmissionAssumption` (`None` is no call, budget and slots are positive) and
`NoneIsNoEpisode`.

The argument. An action applies operators to a state record, so the inductive invariant is a
predicate on such records, `Good(s)`: types; the semaphore's queue holds exactly the queued calls;
an ended episode has neither leader nor probe, and only a leader probes (without that a stale
permit could match a probe); and a call on its way to an attempt has one left in its budget, as the
bound on `attempts` is not inductive otherwise. One lemma per operator says that it keeps `Good`
and what it does to the two things the circuit sees: the episode and the set of unanswered
attempts. An outcome `Settles` the circuit, the gate `Passes` through it, abandoning a probe
`Yields` it. The action lemmas compose those into one step each (`Lands`), and `AbsStepIsCircuitStep`
shows that every such composition is one step of `RecoveryCircuit`, the delicate case being a late
answer whose call goes straight on through the gate.

`MessagingProofs` proves about the store for any number of changes, failed writes and crashes:

| Theorem | Property |
|---|---|
| `StoreInvariant` | `StoreSpec => []StoreInv` |
| `NothingForgotten` | `NothingIsForgotten` |
| `StoreImplemented` | `ImplementsDurableStore` |

Assumption: `StoreAssumption` (the bounds are naturals).

The argument is about generations. The contents of the current one change only when a newer one is
made, as a change holds the store lock until it has made its generation (`ChangesAreGenerations`).
So whoever holds a snapshot of the current generation holds the current contents, and a snapshot
that passed the check at the writer lock lies between the file and them (`SnapshotsAreCurrent`):
that makes a write a step of `Persist`, although it may be overtaken by a change while it runs. That
only one thread is in the writer's section is part of it, as two writers would put their snapshots
in place in any order. `LoopHasWritten` says that nobody replaces what the event loop has written
before its operation returns, which makes a return a `Promise`; it needs `GenerationsArePast`, so
that no timer is of the generation that is about to be made. `SomethingIsComing` is the inductive
form of `NothingIsForgotten`, which must also hold while the event loop is in the middle of an
operation.

`ProviderAdmissionSafety` proves, from the same assumptions:

| Theorem | Property |
|---|---|
| `SlotsConserved` | `SlotsAreConserved` |
| `LeadersAct` | `LeaderWillAct` |
| `OutcomeShared` | `CoalescedShareOutcome` |
| `FailedStay` | `FailedStaysOut` |

There are two inductive invariants over state records. `Conserved` counts the pairs of a call and
what it holds a slot for, a finite set by construction even if `Calls` is not; inside a step the count is
off by the attempt that ends (`Cleared`) until its slot is given back or passes to the queue.
`Sound` says of each call what it may look like at its place (`Suits`: shape, permit, its part in
the episode), and that episodes are numbered (`Dated`). `LeaderWillAct` is part of it and is not
inductive without the rest: a late answer moves the episode only if its permit is of the
episode's number, so the numbers have to be known to be past.

`RequestLifetimeProofs` proves for any requests, operations, providers and bounds:

| Theorem | Property |
|---|---|
| `GenerationsNotClosedInUse` | `NeverClosedInUse` |
| `GenerationsOwned` | `EveryGenerationIsOwned` |
| `RetiredStaysRetired` | `RetiredIsFinal` |
| `RequestsRecordedOnce` | `RecordedOnce` |

Assumption: `GenerationsAssumption` (requests and operations are finite, as their leases are
counted, and the names of holders differ). The invariant `GenInv` ties each generation to its
holders, each discovery to `refreshTask` (only a discovery that it names is unfinished, so a
discovery never begins on a generation that was replaced), the lock to the operation that has it,
and close() to what is left to close. That a closed manager retains nothing needs all four.
`RequestInv` adds which leases, bodies and records go together at each stage of a request.

`MessagingProofs` proves for any messages, calls, turns, commands and bounds:

| Theorem | Property | Invariant, beside the types |
|---|---|---|
| `VoiceSettled` | `VoiceIsSettled` | a handler that may run is awaited by its flow, and by a command if its note is taken; a handoff that ended unrun was cancelled by one of the two; commands wait for no command that waits |
| `WaitersServed` | `EveryWaiterIsServed` | a key is queued once, just if it has an operation; a call waits in one place; who waits for an operation waits under its key |
| `EditsShownInOrder` | `EditsGoForward` | a task not run yet was asked for after all that ran; of one message, the operation in the queue was asked for after the one the worker has, and that after the one shown, but for retries and awaited calls |
| `SessionsAccounted` | `SessionsAreAccountedFor` | the two id maps are inverse; a handle names one session; a session in the maps has a turn that will leave it, or is being closed, and one out of them has no process |
| `TurnShown` | `TurnIsShown` | `DisplayInv`, see below |
| `CommandsComplete` | `CommandsAreComplete` | the lock is held while a command saves or clears; the store exceeds the trees only then; a token of the present era excludes that a stop overtook its prompt |

Assumptions: `SessionsAssumption` and `ChatAssumption` (names of different kinds differ, a parent is
a session id), `DeliveryAssumption`, `LimitAssumption` (the limit of a view is a natural);
`VoiceNotes` needs none. `CommandsAreComplete` shows why the invariant is about eras: that an
overtaken prompt stays out follows only from its token being older than the present stop generation
at the time it is admitted, through the whole of a stop.

`DisplayInv` has two parts. `TalkInv` is about who speaks: the stack of subagents is the list of
Tasks at work (`TasksFollow`), so a piece is the main agent's just if the stack is empty, as long as
ids do not muddle the turn: then a result closes just the last Task, and that of another tool none;
an open block of the main agent writes to the last segment (`WritesLast`), without which a piece
could land before an older one; and the pieces in the segments are those the main agent said, in
order (`PiecesKept`). `ViewInv` is about the screen: what was rendered last is shown unless an edit
was lost; an error, once in the transcript, stays in it and in every view, even when a view is cut;
and a turn that is over shows its end. A view keeps an error that is not cut off because `Visible`
drops nothing but empty texts, which is an induction over the segments, done with `Climbs`.

`StreamProofs` proves `ClientSees`, that is `ClientSeesLedger`, for any number of tools, attempts
and chunks (`StreamAssumption`: they are naturals). The client is a fold over events, the ledger the
work of nested loops, so nothing here is true of one step alone. The lemmas say of each operator on
ledgers what it does to a pair of a ledger and the client its events make: `Sound` says that the
client who has received all events, sent and held back, has exactly the blocks of the ledger
(`Told`), and that the ledger knows which of them are open (`Formed`). The operators compose because
receiving one more event is one more step of the client (`ReceivesOne`). `StreamInv` says that an
attempt that streams is `Sound`; that before a commit the client has nothing at all, so that a
discarded attempt leaves no trace; and that the ledger without what it has not sent is `Shaded`: the
client knows the open blocks, which is what a failure that reports itself has to close. A
continuation or repair starts from a `Sound` ledger; `ToolsWhole` of it at the end gives the last
conjunct of the property.

It also proves `ResponseWhole`, that is `ResponseIsWhole`, for any number of items, pieces and tries,
without an assumption on a constant. The bridge has two halves that share nothing but the events
between them: the adapter turns upstream items into blocks, the assembler blocks into response items.
`BridgeInv` says that the assembler, once it has processed what is still held back, fits the adapter
(`Fit`): each block the adapter has written is a slot, and the blocks open on one side are those open
on the other, every other slot being done once (`Aligned`); each call that was started and each sealed
reasoning has a slot of its own, and no other item has one (`Housed`); and the slots hold what was
said, in order, a call that got its last piece being whole (`Spoken`). It has to be said of the
assembler *with* the held events, for the property says nothing of these and a later push releases
them all at once; without `~committed => assembler = NewAssembler` a retry could leave a slot of an
attempt the client never saw. The proof follows one operator of the adapter after the other and says
what its events do to an assembler that fits; the events that end a stream only close blocks and settle
the status, and closing a block leaves what its slot holds alone. `ProcessAll`, `Flush` and
`CloseTools` are loops, and `Climbs` takes a fact about one turn to the last.

`RecursionLemmas` is what makes these proofs possible. The library's induction theorems take an
operator as parameter and cannot be used, so the lemmas take *functions* and *sets*: `Climbs` goes
from each number to the next, `Leads` says that a recursive function over `0..N` exists and where its
steps lead. They follow from `LeastNumber`, that a set of numbers has a least one, which follows
from the well-foundedness of `<` on naturals.

`GatewayProofs` proves for any attempts, processes, requests, values, restarts and models:

| Theorem | Property | Invariant, beside the types |
|---|---|---|
| `LoginsSettled` | `LoginsAreSettled` | an attempt under way is the one shown or awaited by the command that took it; a listener that is not leaked has such an attempt, or the operation that starts one, and a leaked one an attempt that was never published; pending revisions are in order and none is older than the one recorded |
| `GoodTokensSurvive` | `GoodTokenSurvives` | who reads, posts or writes holds the file lock; what is saved meanwhile is the token being posted, or one of the property's exceptions: what a thread of a cancelled request wrote, or is still to write |
| `RequestsAlwaysAdapt` | `RequestsAdapt` | a body only shrinks, so one that was refused cannot come back; the learned limit is the least reported; a request that gave up a key finds the pool as it left it if nobody else used it |
| `RunningStaysEffective` | `RunningIsEffective` | the property itself |
| `LifecycleStaysOrdered` | `LifecycleIsOrdered` | what the runtime owns at each step of start and close, and what supervisor, loop and server know of each other |
| `NamesStayHonoured` | `NamesAreHonoured` | settings are savable ones and the client's name is a name; the rest is about the operators: a listed model has a first candidate, and the router of one request picks it |

Assumptions: `AccountAssumption` (the marker for no process is none); `FallbackAssumption` (a pool
has two keys or more, a quota above one); `SettingsAssumption` (the template has a value for each
setting); `RoutingAssumption` (what may be saved is valid, as the validation before a save makes it;
names of providers, numbers of endpoints and the marker for none differ). Every pool of the program
has the default quota of three. `ApiKeyPool` would accept one, and the theorem be false of it: each
use rotates then, so a request that left an overloaded key of two would get it again.

Model-checked only, and why:

- The liveness properties, for liveness and ENABLED are outside the prover's reach.
- `HistoryIsKept`, `ReasoningIsReplayed`, `CallsAreTheModels`: their modules are conversions and a
  grammar over recursive data and use RECURSIVE operators, about which tlapm proves nothing.
- The properties of the violated runs, of course.

## Findings

1. `stop` / `StopAllStopsEverything`. Clearing the status message of an active prompt leaves its
   node without a status while its claim drains. A stop in that window raises in `_ui_target()`
   and ends its loop: queued prompts and later trees keep running, though `workflow.py` says "Stop
   every pending and active messaging task".
2. `admission_leader` / `LeaderIsLive`. A Codex call that leads a recovery episode asks for its
   access token outside of any attempt. If it is cancelled there, or the account was disconnected,
   the episode keeps a leader that is gone, and every later call waits for ever. ARCHITECTURE.md
   says that leader cancellation transfers ownership to a waiter.
3. `admission_slots` / `BackoffHoldsNoSlot`. Midstream recovery opens its attempt while the cut
   stream's slot is still held. ARCHITECTURE.md says that slots are never held during backoff. With
   as many recoveries as slots, they wait for each other.
4. `cut` / `CutShortIsNotCompleted`. A response that the upstream cut short in a tool call reaches a
   client of the Responses API as completed, its call done with half its input:
   `final_stop_reason` answers `tool_use` whatever the provider's reason. ARCHITECTURE.md says that
   `max_tokens` becomes `response.incomplete`.
5. `rotation` / `SharedModelsRotate`. The counters that rotate requests over endpoints with the same
   model belong to a router that lives for one request, so the first endpoint gets them all.
   `routing.py` speaks of rotation across requests.
6. `usage` / `CompletionIsRecorded`. The Responses adapter returns at the terminal event and closes
   the tracked stream before its end is read, so completed requests are recorded as cancelled.
   `usage_tracking.py` says that closing after completion keeps the earlier status.
7. `details` / `DetailsReachTheirMessage`. `apply_reasoning_details_replay` gives the reasoning
   details of a turn to the first assistant message it has not passed yet, which is an earlier turn's
   if that turn had none. Its docstring says "on their converted assistant messages".
   `ReasoningIsReplayed` says what is left: each detail is given back once, in order, and never behind
   its own message.

The first three and the last were reproduced on the Python code.

## Limits

- The machines of `messaging` and `gateway` are not composed with each other: `ChatWorkflow` has
  its own small picture of the trees instead of `TreeQueue`, and the runner appears in `TreeQueue`
  (its claims), `ManagedSessions` (its session) and `TurnDisplay` (its edits).
- Contents are pieces, tokens or versions; texts, Markdown and layout are left out.
- Which errors are retryable is a choice of the environment.
- The sliding windows and lengths of delays are "some time later". A call whose limiter has room
  passes a suspension point that the code skips; this adds interleavings and removes none.
- A close of a stream that raises is not modelled (it would lose its slot; hazard at
  `openai_codex/provider.py:330`).
- `GoodTokenSurvives`, `LoginsAreSettled`, `TurnIsShown` and `SessionsAreAccountedFor` name what they
  except: late threads of cancelled requests; leaked listeners and failed listings; turns that ids
  muddle; a removal cut short by a second cancellation, which leaves a session in the closing set.
- Settings outside of the Admin manifest are not modelled. One that only `FCC_ENV_FILE` holds
  (`LOG_LEVEL`, `SPACE_ID`) is lost to the running server by an apply, until it restarts.
- What is shown of prompts that are still queued is not modelled (hazard at
  `messaging/trees/processor.py:170`).
- Trees restored from a snapshot, and what a stop's snapshots say of a node, are not modelled:
  `ChatWorkflow` follows which prompts the store holds.

## Not modelled

The web frontend, scripts and smoke tests (outside of the program); SDK calls of Telegram and
Discord and the CLI's output (I/O); the manifest of settings (a table); web tools, images, documents
and schema clean-up; the usage ring buffer's statistics; vendors that only shape a request. The
notes in `PROJECT.json` say it per component.

## Plan

What is left, most valuable first:

1. Snapshots: what restore makes of a saved tree, and stops that save theirs late.
2. An abstract first-come-first-served server per conversation that `TreeQueue` implements.
3. The status messages of queued prompts: `TurnDisplay` with the announcements of the queue.
4. The sliding window as a function checked against its definition.
