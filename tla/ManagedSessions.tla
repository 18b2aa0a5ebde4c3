--------------------------- MODULE ManagedSessions ---------------------------
(***************************************************************************)
(* The pool of managed Claude CLI sessions: cli/managed/manager.py, with   *)
(* the subprocess of each session (cli/managed/session.py) and the pids    *)
(* that an exit of the server kills (cli/process_registry.py).  A turn is  *)
(* one run of MessagingNodeRunner, the only user of the pool besides       *)
(* stop_all(); it may be cancelled at any await.                           *)
(***************************************************************************)
EXTENDS FiniteSets, Naturals

CONSTANTS
  Turn,        \* runs of the node runner; a session is named after its creator
  SessionId,   \* identifiers the Claude CLI reports
  ParentOf,    \* claim.parent_session_id of each turn, or NoId
  NoId, NoTurn,
  StopAll,     \* the caller of stop_all()
  MaxCancels,  \* bound: cancellations of one turn
  MaxStopAlls, \* bound: calls of stop_all()
  MaxFailures  \* bound: launches, stops and kills that raise

Session == Turn
Handle == SessionId \cup Turn   \* "pending_<uuid>" is the turn itself
Shield(s) == <<"stop", s>>      \* the task that shields stop() in start_task()

\* A temporary id, "pending_<uuid>", is none that the CLI reports.
ASSUME SessionsAssumption ==
  /\ NoId \notin Handle /\ SessionId \cap Turn = {}
  /\ ParentOf \in [Turn -> SessionId \cup {NoId}]
  /\ NoTurn \notin Turn /\ StopAll \notin Turn /\ StopAll # NoTurn
  /\ \A s \in Session : Shield(s) \notin Turn \cup {NoTurn, StopAll}
  /\ MaxCancels \in Nat /\ MaxStopAlls \in Nat /\ MaxFailures \in Nat

VARIABLES
  turn,        \* each turn: where it is, its session, its local ids
  cli,         \* each session and its subprocess
  pendingAs,   \* _pending_sessions, by handle
  realAs,      \* _sessions, by handle
  aliasOf,     \* _temp_to_real
  tempOf,      \* _real_to_temp
  closingSet,  \* _closing_sessions
  poolLock,    \* _lock: the turn in remove_session(), or StopAll
  stopAll,     \* stop_all(): sessions it has not tried to stop yet
  shielded,    \* sessions a shielded stop() is still to stop
  poolBudget   \* cancellations, stop_all() calls and failures so far

registry == <<pendingAs, realAs, aliasOf, tempOf, closingSet>>
poolVars == <<turn, cli, registry, poolLock, stopAll, shielded, poolBudget>>

(***************************************************************************)
(* Where a turn is: opening (before get_or_create_session returned), ready *)
(* (waiting for _cli_lock), launching, streaming, recording (a session id  *)
(* was registered, and is being recorded), killing (start_task() waits for *)
(* its shielded stop), draining (it waits for the pipes to close), leaving *)
(* (before remove_session), removing (in it, with the lock), left.         *)
(***************************************************************************)
\* driver: the turn whose start_task() holds _cli_lock; dropped: that generator
\* was left at a yield; stopper: who holds _lifecycle_lock, a turn launching or
\* whoever is in stop().

PoolInit ==
  /\ turn = [t \in Turn |-> [at |-> "opening", session |-> NoTurn,
                             temp |-> NoId, captured |-> NoId,
                             reported |-> NoId, cancels |-> 0]]
  /\ cli = [s \in Session |-> [made |-> FALSE, process |-> "none", pid |-> FALSE, closed |-> FALSE,
                               driver |-> NoTurn, dropped |-> FALSE, stopper |-> NoTurn]]
  /\ pendingAs = [h \in Handle |-> NoTurn]
  /\ realAs = [h \in Handle |-> NoTurn]
  /\ aliasOf = [h \in Handle |-> NoId]
  /\ tempOf = [h \in Handle |-> NoId]
  /\ closingSet = {}
  /\ poolLock = NoTurn
  /\ stopAll = {}
  /\ shielded = {}
  /\ poolBudget = [stopAlls |-> 0, failures |-> 0]

-----------------------------------------------------------------------------
(* What the manager knows. *)

Lookup(h) == IF aliasOf[h] # NoId THEN aliasOf[h] ELSE h

\* _session_for_id().
SessionFor(h) ==
  IF realAs[Lookup(h)] # NoTurn THEN realAs[Lookup(h)] ELSE pendingAs[Lookup(h)]

KnownAs(s) == {h \in Handle : pendingAs[h] = s \/ realAs[h] = s}
Known == {s \in Session : KnownAs(s) # {} \/ s \in closingSet}

\* _forget_session().
Forget(s) ==
  LET reals == {h \in Handle : realAs[h] = s}
      temps == {tempOf[h] : h \in reals} \ {NoId}
  IN  /\ pendingAs' = [h \in Handle |-> IF pendingAs[h] = s THEN NoTurn ELSE pendingAs[h]]
      /\ realAs' = [h \in Handle |-> IF realAs[h] = s THEN NoTurn ELSE realAs[h]]
      /\ tempOf' = [h \in Handle |-> IF h \in reals THEN NoId ELSE tempOf[h]]
      /\ aliasOf' = [h \in Handle |-> IF h \in temps THEN NoId ELSE aliasOf[h]]
      /\ closingSet' = closingSet \ {s}

Fails == /\ poolBudget.failures < MaxFailures
         /\ poolBudget' = [poolBudget EXCEPT !.failures = @ + 1]
Goes(t, stage) == turn' = [turn EXCEPT ![t].at = stage]

-----------------------------------------------------------------------------
(* A turn. *)

\* get_or_create_session() finds a session that is being closed, and raises.
OpensClosing(t) ==
  /\ turn[t].at = "opening" /\ poolLock = NoTurn
  /\ ParentOf[t] # NoId
  /\ SessionFor(ParentOf[t]) \in closingSet
  /\ Goes(t, "leaving")
  /\ UNCHANGED <<cli, registry, poolLock, stopAll, shielded, poolBudget>>

\* It finds one that another turn still has.
OpensShared(t) ==
  /\ turn[t].at = "opening" /\ poolLock = NoTurn
  /\ ParentOf[t] # NoId
  /\ SessionFor(ParentOf[t]) \notin closingSet \cup {NoTurn}
  /\ turn' = [turn EXCEPT ![t].at = "ready", ![t].session = SessionFor(ParentOf[t]),
                          ![t].captured = Lookup(ParentOf[t])]
  /\ UNCHANGED <<cli, registry, poolLock, stopAll, shielded, poolBudget>>

OpensNew(t) ==
  LET temp == IF ParentOf[t] = NoId THEN t ELSE ParentOf[t]
  IN  /\ turn[t].at = "opening" /\ poolLock = NoTurn
      /\ ParentOf[t] # NoId => SessionFor(ParentOf[t]) = NoTurn
      /\ turn' = [turn EXCEPT ![t].at = "ready", ![t].session = t, ![t].temp = temp]
      /\ cli' = [cli EXCEPT ![t].made = TRUE]
      /\ pendingAs' = [pendingAs EXCEPT ![temp] = t]
      /\ UNCHANGED <<realAs, aliasOf, tempOf, closingSet, poolLock, stopAll, shielded, poolBudget>>

\* Mutant of Starts: whether the session was closed meanwhile is not looked at.
StartsUnchecked(t) ==
  LET s == turn[t].session
  IN  /\ turn[t].at = "ready"
      /\ cli[s].driver = NoTurn /\ cli[s].stopper = NoTurn
      /\ cli' = [cli EXCEPT ![s].driver = t, ![s].stopper = t]
      /\ Goes(t, "launching")
      /\ UNCHANGED <<registry, poolLock, stopAll, shielded, poolBudget>>

\* start_task() has both locks of the session, and finds it closed or launches.
Starts(t) ==
  LET s == turn[t].session
  IN  /\ turn[t].at = "ready"
      /\ cli[s].driver = NoTurn /\ cli[s].stopper = NoTurn
      /\ IF cli[s].closed
         THEN Goes(t, "leaving") /\ UNCHANGED cli
         ELSE /\ Goes(t, "launching")
              /\ cli' = [cli EXCEPT ![s].driver = t, ![s].stopper = t]
      /\ UNCHANGED <<registry, poolLock, stopAll, shielded, poolBudget>>

Launches(t) ==
  /\ turn[t].at = "launching"
  /\ cli' = [cli EXCEPT ![turn[t].session].process = "live", ![turn[t].session].pid = TRUE,
                        ![turn[t].session].stopper = NoTurn]
  /\ Goes(t, "streaming")
  /\ UNCHANGED <<registry, poolLock, stopAll, shielded, poolBudget>>

GivesUpLaunch(t) ==
  /\ turn[t].at = "launching"
  /\ cli' = [cli EXCEPT ![turn[t].session].driver = NoTurn, ![turn[t].session].stopper = NoTurn]

LaunchFails(t) ==
  /\ GivesUpLaunch(t) /\ Goes(t, "leaving") /\ Fails
  /\ UNCHANGED <<registry, poolLock, stopAll, shielded>>

\* register_real_session_id(), for the first session_info of a new session.
Registers(t, id) ==
  LET s == pendingAs[turn[t].temp]
  IN  /\ turn[t].at = "streaming" /\ turn[t].temp # NoId /\ poolLock = NoTurn
      /\ s # NoTurn /\ s \notin closingSet
      /\ SessionFor(id) \in {NoTurn, s}
      /\ pendingAs' = [pendingAs EXCEPT ![turn[t].temp] = NoTurn]
      /\ realAs' = [realAs EXCEPT ![id] = s]
      /\ aliasOf' = [aliasOf EXCEPT ![turn[t].temp] = id]
      /\ tempOf' = [tempOf EXCEPT ![id] = turn[t].temp]
      /\ turn' = [turn EXCEPT ![t].at = "recording", ![t].reported = id]
      /\ UNCHANGED <<cli, closingSet, poolLock, stopAll, shielded, poolBudget>>

\* It refuses, and the runner raises out of its loop over start_task().
RegistrationFails(t, id) ==
  LET s == pendingAs[turn[t].temp]
  IN  /\ turn[t].at = "streaming" /\ turn[t].temp # NoId /\ poolLock = NoTurn
      /\ \/ s \in closingSet \cup {NoTurn}
         \/ SessionFor(id) \notin {NoTurn, s}
      /\ cli' = [cli EXCEPT ![turn[t].session].dropped = TRUE]
      /\ Goes(t, "leaving")
      /\ UNCHANGED <<registry, poolLock, stopAll, shielded, poolBudget>>

\* record_session() returned; only now the runner's own variables change.
Recorded(t) ==
  /\ turn[t].at = "recording"
  /\ turn' = [turn EXCEPT ![t].at = "streaming", ![t].temp = NoId,
                          ![t].captured = turn[t].reported]
  /\ UNCHANGED <<cli, registry, poolLock, stopAll, shielded, poolBudget>>

\* The subprocess ends, by itself or killed.
ProcessEnds(s) ==
  /\ cli[s].process = "live"
  /\ cli' = [cli EXCEPT ![s].process = "dead"]
  /\ UNCHANGED <<turn, registry, poolLock, stopAll, shielded, poolBudget>>

\* start_task() is over, and gives up the pid of a process known to be dead.
GeneratorEnds(s) ==
  cli' = [cli EXCEPT ![s].driver = NoTurn, ![s].dropped = FALSE,
                     ![s].pid = IF cli[s].process = "dead" THEN FALSE ELSE @]

\* The stream was read to its end.
Exits(t) ==
  /\ turn[t].at = "streaming" /\ cli[turn[t].session].process = "dead"
  /\ GeneratorEnds(turn[t].session)
  /\ Goes(t, "leaving")
  /\ UNCHANGED <<registry, poolLock, stopAll, shielded, poolBudget>>

\* A generator that was left behind is closed by the event loop; it waits for
\* the end of the error stream.
GeneratorCloses(s) ==
  /\ cli[s].dropped /\ cli[s].process = "dead"
  /\ GeneratorEnds(s)
  /\ UNCHANGED <<turn, registry, poolLock, stopAll, shielded, poolBudget>>

-----------------------------------------------------------------------------
(* Cancellation, at each await. *)

CancelledAt(t, stages, next) ==
  /\ turn[t].at \in stages /\ turn[t].cancels < MaxCancels
  /\ turn' = [turn EXCEPT ![t].at = next, ![t].cancels = @ + 1]
  /\ UNCHANGED poolBudget

CancelledEarly(t) ==
  /\ CancelledAt(t, {"opening", "ready"}, "leaving")
  /\ UNCHANGED <<cli, registry, poolLock, stopAll, shielded>>

CancelledLaunch(t) ==
  /\ CancelledAt(t, {"launching"}, "leaving")
  /\ GivesUpLaunch(t)
  /\ UNCHANGED <<registry, poolLock, stopAll, shielded>>

\* In the loop over start_task(): the generator stays where it is.
CancelledOutside(t) ==
  /\ CancelledAt(t, {"streaming", "recording"}, "leaving")
  /\ cli' = [cli EXCEPT ![turn[t].session].dropped = TRUE]
  /\ UNCHANGED <<registry, poolLock, stopAll, shielded>>

\* In start_task(), which stops its session before it lets the error go on.
CancelledReading(t) ==
  /\ CancelledAt(t, {"streaming"}, "killing")
  /\ shielded' = shielded \cup {turn[t].session}
  /\ UNCHANGED <<cli, registry, poolLock, stopAll>>

\* At its end, where it waits for the exit code.
CancelledWaiting(t) ==
  /\ CancelledAt(t, {"streaming"}, "leaving")
  /\ GeneratorEnds(turn[t].session)
  /\ UNCHANGED <<registry, poolLock, stopAll, shielded>>

CancelledKilling(t) ==
  /\ CancelledAt(t, {"killing"}, "draining")
  /\ UNCHANGED <<cli, registry, poolLock, stopAll, shielded>>

CancelledDraining(t) ==
  /\ CancelledAt(t, {"draining"}, "leaving")
  /\ GeneratorEnds(turn[t].session)
  /\ UNCHANGED <<registry, poolLock, stopAll, shielded>>

\* Before or in remove_session(): the session stays with the manager.
CancelledLeaving(t) ==
  /\ CancelledAt(t, {"leaving"}, "cut")
  /\ UNCHANGED <<cli, registry, poolLock, stopAll, shielded>>

CancelledRemoving(t) ==
  /\ CancelledAt(t, {"removing"}, "cut")
  /\ poolLock' = NoTurn
  /\ cli' = [s \in Session |-> [cli[s] EXCEPT !.stopper = IF @ = t THEN NoTurn ELSE @]]
  /\ UNCHANGED <<registry, stopAll, shielded>>

-----------------------------------------------------------------------------
(* Stopping sessions. *)

\* The session that remove_session() finds under the ids the runner kept.
Owner(t) == SessionFor(IF turn[t].captured # NoId THEN turn[t].captured ELSE turn[t].temp)
HasHandle(t) == turn[t].captured # NoId \/ turn[t].temp # NoId

LeavesNothing(t) ==
  /\ turn[t].at = "leaving"
  /\ HasHandle(t) => poolLock = NoTurn /\ Owner(t) = NoTurn
  /\ Goes(t, "left")
  /\ UNCHANGED <<cli, registry, poolLock, stopAll, shielded, poolBudget>>

Removes(t) ==
  /\ turn[t].at = "leaving" /\ HasHandle(t)
  /\ poolLock = NoTurn /\ Owner(t) # NoTurn
  /\ poolLock' = t
  /\ closingSet' = closingSet \cup {Owner(t)}
  /\ Goes(t, "removing")
  /\ UNCHANGED <<cli, pendingAs, realAs, aliasOf, tempOf, stopAll, shielded, poolBudget>>

StopAllBegins ==
  /\ poolLock = NoTurn /\ poolBudget.stopAlls < MaxStopAlls
  /\ poolBudget' = [poolBudget EXCEPT !.stopAlls = @ + 1]
  /\ poolLock' = StopAll
  /\ stopAll' = Known
  /\ closingSet' = Known
  /\ UNCHANGED <<turn, cli, pendingAs, realAs, aliasOf, tempOf, shielded>>

StopAllEnds ==
  /\ poolLock = StopAll /\ stopAll = {}
  /\ poolLock' = NoTurn
  /\ UNCHANGED <<turn, cli, registry, stopAll, shielded, poolBudget>>

\* Who is to stop which session.
Stops(o, s) ==
  \/ o \in Turn /\ turn[o].at = "removing" /\ Owner(o) = s
  \/ o = StopAll /\ poolLock = StopAll /\ s \in stopAll
  \/ o = Shield(s) /\ s \in shielded

\* stop() has _lifecycle_lock, and kills what there is.
StopBegins(o, s) ==
  /\ Stops(o, s) /\ cli[s].stopper = NoTurn
  /\ cli' = [cli EXCEPT ![s].stopper = o, ![s].closed = TRUE]
  /\ UNCHANGED <<turn, registry, poolLock, stopAll, shielded, poolBudget>>

\* stop() returned; its caller goes on with the answer.
StopReturns(o, s, stopped) ==
  /\ cli' = [cli EXCEPT ![s].stopper = NoTurn, ![s].pid = IF stopped THEN FALSE ELSE @]
  /\ turn' = [t \in Turn |->
                 IF t = o THEN [turn[t] EXCEPT !.at = "left"]
                 ELSE IF o = Shield(s) /\ turn[t].at = "killing" /\ turn[t].session = s
                 THEN [turn[t] EXCEPT !.at = "draining"] ELSE turn[t]]
  /\ poolLock' = IF o \in Turn THEN NoTurn ELSE poolLock
  /\ stopAll' = IF o = StopAll THEN stopAll \ {s} ELSE stopAll
  /\ shielded' = IF o = Shield(s) THEN shielded \ {s} ELSE shielded
  /\ IF stopped /\ o # Shield(s) THEN Forget(s) ELSE UNCHANGED registry

\* The end of the subprocess, if there was one, is confirmed.
Stopped(o, s) ==
  /\ cli[s].stopper = o /\ Stops(o, s)
  /\ cli[s].process # "live"
  /\ StopReturns(o, s, TRUE)
  /\ UNCHANGED poolBudget

\* Killing it raised; the session stays with the manager, as closing.
StopFails(o, s) ==
  /\ cli[s].stopper = o /\ Stops(o, s)
  /\ cli[s].process # "none"
  /\ StopReturns(o, s, FALSE)
  /\ Fails

Drains(t) ==
  /\ turn[t].at = "draining" /\ cli[turn[t].session].process = "dead"
  /\ GeneratorEnds(turn[t].session)
  /\ Goes(t, "leaving")
  /\ UNCHANGED <<registry, poolLock, stopAll, shielded, poolBudget>>

Gone == {"left", "cut"}
PoolDone ==
  /\ \A t \in Turn : turn[t].at \in Gone
  /\ poolLock = NoTurn
  /\ UNCHANGED poolVars

PoolNext ==
  \/ \E t \in Turn :
       \/ OpensClosing(t) \/ OpensShared(t) \/ OpensNew(t)
       \/ Starts(t) \/ Launches(t) \/ LaunchFails(t) \/ Recorded(t) \/ Exits(t)
       \/ CancelledEarly(t) \/ CancelledLaunch(t) \/ CancelledOutside(t)
       \/ CancelledReading(t) \/ CancelledWaiting(t)
       \/ CancelledKilling(t) \/ CancelledDraining(t)
       \/ CancelledLeaving(t) \/ CancelledRemoving(t)
       \/ LeavesNothing(t) \/ Removes(t) \/ Drains(t)
       \/ \E id \in SessionId : Registers(t, id) \/ RegistrationFails(t, id)
  \/ \E s \in Session :
       \/ ProcessEnds(s) \/ GeneratorCloses(s)
       \/ \E o \in Turn \cup {StopAll, Shield(s)} :
            StopBegins(o, s) \/ Stopped(o, s) \/ StopFails(o, s)
  \/ StopAllBegins \/ StopAllEnds \/ PoolDone

PoolSpec == PoolInit /\ [][PoolNext]_poolVars

-----------------------------------------------------------------------------
(* A subprocess that runs belongs to a session the manager still knows,    *)
(* and its pid is registered for the exit of the server; so nothing starts *)
(* in a session after it was forgotten (manager.py remove_session,         *)
(* stop_all; session.py start_task, stop).                                 *)
NoProcessEscapes ==
  \A s \in Session :
    /\ cli[s].process = "live" => cli[s].pid /\ s \in Known
    /\ cli[s].made /\ s \notin Known => cli[s].closed /\ ~cli[s].pid

(* When the turns that had a session are over, the manager has forgotten   *)
(* it, however their session ids changed on the way - unless one of them   *)
(* was cancelled again while it was leaving, or stopping the process       *)
(* raised (node_runner.py _process_node_impl; manager.py                   *)
(* register_real_session_id, remove_session).                              *)
SessionsAreReleased ==
  \A s \in Session :
    LET users == {t \in Turn : turn[t].session = s}
    IN  /\ cli[s].made /\ s \in Known /\ poolLock = NoTurn
        /\ \A t \in users : turn[t].at \in Gone
        => \/ \E t \in users : turn[t].at = "cut"
           \/ s \in closingSet /\ poolBudget.failures > 0

(* A session has one handle at a time, and the two halves of the mapping   *)
(* between temporary and real ids agree (manager.py _temp_to_real,         *)
(* _real_to_temp, _forget_session).                                        *)
OneHandleEach ==
  /\ \A s \in Session : Cardinality(KnownAs(s)) <= 1
  /\ \A h, g \in Handle : aliasOf[h] = g <=> tempOf[g] = h

(* The three together: nothing that the manager started is lost.           *)
SessionsAreAccountedFor == NoProcessEscapes /\ SessionsAreReleased /\ OneHandleEach
=============================================================================
