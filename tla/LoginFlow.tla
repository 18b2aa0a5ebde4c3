------------------------------ MODULE LoginFlow ------------------------------
(***************************************************************************)
(* How an account is connected (providers/openai_codex/auth.py, login.py): *)
(* by a browser that is sent back to a listener on localhost, or by a code *)
(* the user enters elsewhere.  One operation at a time holds the operation *)
(* lock; the login task, and requests that refresh tokens, take only the   *)
(* state lock.  The runtime learns of the account when the Admin page asks *)
(* for its status.  An operation ends too if its request is cancelled.     *)
(***************************************************************************)
EXTENDS FiniteSets, Sequences, Naturals

CONSTANTS
  MaxLogins,     \* bound: logins
  MaxOperations  \* bound: operations and refreshes

ASSUME LoginAssumption == MaxLogins \in Nat /\ MaxOperations \in Nat

Attempt == 1..MaxLogins
Ports == 2  \* that a listener may be bound to

VARIABLES
  op,        \* what holds _operation_lock, where it is, and for which attempt
  stateLock, \* who awaits something while it holds _state_lock
  display,   \* the attempt a status shows, how it signs in, and whose address
  current,   \* _login_task, 0 for None
  task,      \* the login task of each attempt
  listener,  \* the callback listener of each; "leaked" is one nobody will close
  answer,    \* the future each listener sets
  owned,     \* _credentials: the attempt that brought them, 0 for None
  revision,
  shut,      \* _closed
  syncs,     \* calls of connected_provider_changed() that wait or run
  recorded,  \* the revision the application has told the runtime of
  known,     \* the runtime offers the models of the account
  listed,    \* the last listing that was asked for when it changed brought them
  used       \* operations so far

attempts == <<display, current, task, listener, answer>>
runtime == <<syncs, recorded, known, listed>>
loginVars == <<op, stateLock, attempts, owned, revision, shut, runtime, used>>

Nothing == [does |-> "nothing", at |-> "free", n |-> 0]
NoAttempt == [n |-> 0, mode |-> "none", address |-> 0]
Underway(a) == a # 0 /\ task[a] \notin {"none", "over"}
Bound == {a \in Attempt : listener[a] \in {"open", "leaked"}}
NoOperation == op = Nothing
Uses == used < MaxOperations /\ used' = used + 1
Becomes(a, stage) == task' = [task EXCEPT ![a] = stage]
ClosesListener(a) == listener' = [listener EXCEPT ![a] = IF @ = "open" THEN "closed" ELSE @]

LoginInit ==
  /\ op = Nothing /\ stateLock = "no" /\ display = NoAttempt /\ current = 0
  /\ task = [a \in Attempt |-> "none"]
  /\ listener = [a \in Attempt |-> "none"] /\ answer = [a \in Attempt |-> "unused"]
  /\ owned = 0 /\ revision = 0 /\ shut = FALSE
  /\ syncs = <<>> /\ recorded = 0 /\ known = FALSE /\ listed = TRUE
  /\ used = 0

-----------------------------------------------------------------------------
(* start_login().  While an attempt is pending it only tells its status.   *)

StartBegins(a, mode) ==
  /\ NoOperation /\ stateLock = "no" /\ ~shut /\ ~Underway(current)
  /\ \A b \in Attempt : b < a <=> answer[b] # "unused"
  /\ Uses
  /\ display' = [n |-> a, mode |-> mode, address |-> 0]
  /\ answer' = [answer EXCEPT ![a] = "awaited"]
  /\ op' = [does |-> "start", at |-> "binding", n |-> a]
  /\ UNCHANGED <<stateLock, current, task, listener, owned, revision, shut, runtime>>

Binds ==
  /\ op.at = "binding" /\ display.mode = "browser" /\ Cardinality(Bound) < Ports
  /\ listener' = [listener EXCEPT ![op.n] = "open"]
  /\ op' = [op EXCEPT !.at = "publishing"]
  /\ UNCHANGED <<stateLock, display, current, task, answer, owned, revision, shut, runtime, used>>
DeviceCodeComes ==
  /\ op.at = "binding" /\ display.mode = "device"
  /\ op' = [op EXCEPT !.at = "publishing"]
  /\ UNCHANGED <<stateLock, attempts, owned, revision, shut, runtime, used>>
StartFails ==
  /\ op.at = "binding"
  /\ op' = [op EXCEPT !.at = "undoing"]
  /\ UNCHANGED <<stateLock, attempts, owned, revision, shut, runtime, used>>

\* Mutant of StartCut: the listener is forgotten.
StartCutOpen ==
  /\ op.at \in {"binding", "publishing"}
  /\ op' = [op EXCEPT !.at = "undoing"]
  /\ UNCHANGED <<stateLock, attempts, owned, revision, shut, runtime, used>>

\* Cancelled.  A listener that is listening, but whose start() has not returned,
\* is nobody's: it is never closed and keeps its port for as long as the server runs.
StartCut ==
  /\ op.at \in {"binding", "publishing"}
  /\ \/ ClosesListener(op.n)
     \/ op.at = "binding" /\ display.mode = "browser" /\ Cardinality(Bound) < Ports
        /\ listener' = [listener EXCEPT ![op.n] = "leaked"]
  /\ op' = [op EXCEPT !.at = "undoing"]
  /\ UNCHANGED <<stateLock, display, current, task, answer, owned, revision, shut, runtime, used>>

StartUndone ==
  /\ op.at = "undoing" /\ stateLock = "no"
  /\ display' = NoAttempt /\ op' = Nothing
  /\ UNCHANGED <<stateLock, current, task, listener, answer, owned, revision, shut, runtime, used>>

StartPublishes ==
  /\ op.at = "publishing" /\ stateLock = "no"
  /\ current' = op.n /\ Becomes(op.n, "waiting")
  /\ display' = [display EXCEPT !.address = op.n]
  /\ op' = Nothing
  /\ UNCHANGED <<stateLock, listener, answer, owned, revision, shut, runtime, used>>

-----------------------------------------------------------------------------
(* The login task.                                                         *)

\* The first valid callback counts.
CallbackComes(a, said) ==
  /\ listener[a] = "open" /\ task[a] # "none" /\ answer[a] = "awaited"
  /\ answer' = [answer EXCEPT ![a] = said]
  /\ UNCHANGED <<op, stateLock, display, current, task, listener, owned, revision, shut, runtime, used>>

Steps(a, from, to) ==
  /\ task[a] = from /\ Becomes(a, to)
  /\ UNCHANGED <<op, stateLock, display, current, listener, answer, owned, revision, shut, runtime, used>>
GrantComes(a) == (listener[a] = "open" => answer[a] = "code") /\ Steps(a, "waiting", "exchanging")
GrantFails(a) == answer[a] # "code" /\ Steps(a, "waiting", "failing")  \* or is too late
Exchanges(a) == Steps(a, "exchanging", "writing") \/ Steps(a, "exchanging", "failing")
WritesCredentials(a) == Steps(a, "writing", "storing") \/ Steps(a, "writing", "failing")
NotesFailure(a) == stateLock = "no" /\ Steps(a, "failing", "leaving")

Stores(a) ==
  /\ task[a] = "storing" /\ stateLock = "no"
  /\ owned' = a /\ revision' = revision + 1
  /\ Becomes(a, "leaving")
  /\ UNCHANGED <<op, stateLock, display, current, listener, answer, shut, runtime, used>>

Leaves(a) ==
  /\ task[a] = "leaving" /\ stateLock = "no"
  /\ Becomes(a, "over") /\ ClosesListener(a)
  /\ IF current = a THEN current' = 0 /\ display' = NoAttempt ELSE UNCHANGED <<current, display>>
  /\ UNCHANGED <<op, stateLock, answer, owned, revision, shut, runtime, used>>

\* A cancellation: a task that was leaving does not wait for the lock again.
CancelsTask(a) ==
  IF ~Underway(a) THEN UNCHANGED <<task, listener>>
  ELSE IF task[a] = "leaving" THEN Becomes(a, "over") /\ ClosesListener(a)
  ELSE Becomes(a, "leaving") /\ UNCHANGED listener

-----------------------------------------------------------------------------
(* cancel_login(), disconnect() and close().                               *)

TakesLogin(does) ==
  /\ NoOperation /\ stateLock = "no" /\ (does # "cancel" => ~shut)
  /\ Uses
  /\ display' = NoAttempt /\ current' = 0
  /\ CancelsTask(current)
  /\ shut' = (shut \/ does = "close")
  /\ op' = [does |-> does, at |-> "draining", n |-> current]
  /\ UNCHANGED <<stateLock, answer, owned, revision, runtime>>

Drained ==
  /\ op.at = "draining" /\ ~Underway(op.n)
  /\ IF op.does = "disconnect"
     THEN stateLock = "no" /\ stateLock' = "disconnect" /\ op' = [op EXCEPT !.at = "removing"]
     ELSE op' = Nothing /\ UNCHANGED stateLock
  /\ UNCHANGED <<attempts, owned, revision, shut, runtime, used>>

\* The command is cancelled, and with it once more the task it waits for.
DrainCut ==
  /\ op.at = "draining"
  /\ CancelsTask(op.n) /\ op' = Nothing
  /\ UNCHANGED <<stateLock, display, current, answer, owned, revision, shut, runtime, used>>

Disconnects ==
  /\ op.at = "removing"
  /\ owned' = 0 /\ revision' = revision + 1
  /\ syncs' = Append(syncs, [revision |-> revision', connected |-> FALSE])
  /\ stateLock' = "no" /\ op' = Nothing
  /\ UNCHANGED <<attempts, shut, recorded, known, listed, used>>
DisconnectFails ==
  /\ op.at = "removing"
  /\ stateLock' = "no" /\ op' = Nothing
  /\ UNCHANGED <<attempts, owned, revision, shut, runtime, used>>

-----------------------------------------------------------------------------
(* Requests that refresh the tokens, and requests for the status.          *)

RefreshBegins ==
  /\ stateLock = "no" /\ owned # 0 /\ Uses
  /\ stateLock' = "refresh"
  /\ UNCHANGED <<op, attempts, owned, revision, shut, runtime>>
RefreshEnds ==
  /\ stateLock = "refresh" /\ stateLock' = "no"
  /\ \/ UNCHANGED <<owned, revision>>
     \/ revision' = revision + 1 /\ owned' \in {owned, 0}
  /\ UNCHANGED <<op, attempts, shut, runtime, used>>

AsksStatus ==
  /\ recorded # revision /\ Len(syncs) < 2
  /\ syncs' = Append(syncs, [revision |-> revision, connected |-> owned # 0])
  /\ UNCHANGED <<op, stateLock, attempts, owned, revision, shut, recorded, known, listed, used>>
\* The revision is recorded too when the models could not be listed: the failure
\* is only logged, and what was offered before stays.
Synchronizes ==
  /\ syncs # <<>> /\ syncs' = Tail(syncs)
  /\ recorded' = Head(syncs).revision
  /\ IF Head(syncs).connected THEN listed' \in BOOLEAN /\ known' = (known \/ listed')
     ELSE known' = FALSE /\ UNCHANGED listed
  /\ UNCHANGED <<op, stateLock, attempts, owned, revision, shut, used>>
\* Cancelled, or refused as the runtime shuts down.
SyncFails ==
  /\ syncs # <<>> /\ syncs' = Tail(syncs)
  /\ UNCHANGED <<op, stateLock, attempts, owned, revision, shut, recorded, known, listed, used>>
\* Any reader of the models drops those of an account that is gone; a refresh of
\* all of them, after a save or asked for, lists those of an account there is.
ModelsRead ==
  /\ known' \in IF owned = 0 THEN {FALSE} ELSE {known, TRUE}
  /\ UNCHANGED <<op, stateLock, attempts, owned, revision, shut, syncs, recorded, listed, used>>

LoginNext ==
  \/ \E a \in Attempt, mode \in {"browser", "device"} : StartBegins(a, mode)
  \/ Binds \/ DeviceCodeComes \/ StartFails \/ StartCut \/ StartUndone \/ StartPublishes
  \/ \E a \in Attempt :
       \/ \E said \in {"code", "error"} : CallbackComes(a, said)
       \/ GrantComes(a) \/ GrantFails(a) \/ Exchanges(a) \/ WritesCredentials(a)
       \/ NotesFailure(a) \/ Stores(a) \/ Leaves(a)
  \/ \E does \in {"cancel", "disconnect", "close"} : TakesLogin(does)
  \/ Drained \/ DrainCut \/ Disconnects \/ DisconnectFails
  \/ RefreshBegins \/ RefreshEnds \/ AsksStatus \/ Synchronizes \/ SyncFails
  \/ ModelsRead

LoginSpec == LoginInit /\ [][LoginNext]_loginVars

-----------------------------------------------------------------------------
\* What status() calls connecting.
Connecting == Underway(current)

(* A listener is bound only for an attempt that is pending or is being     *)
(* started, so at most one such is; the one exception is the listener a    *)
(* cancelled start leaks (login.py:126-129), and that attempt has no login *)
(* task and is shown no more once the start is undone, so no callback of   *)
(* it brings credentials.  An attempt is shown as long as it is pending,   *)
(* with its own address, and none is shown after it; an attempt that a     *)
(* command has taken can no longer store credentials, and once the manager *)
(* is closed none is left.  When the application has told the runtime of   *)
(* the newest credentials, the runtime offers no models if there are none, *)
(* and the account's if it is connected, except when the last listing of   *)
(* them failed, which nothing but a later refresh makes good (auth.py,     *)
(* login.py, application.py connected_account_status, discovery.py).       *)
LoginsAreSettled ==
  /\ \A a \in Attempt :
       /\ a \in Bound =>
            \/ Underway(a) \/ (op.does = "start" /\ op.n = a /\ op.at = "publishing")
            \/ /\ listener[a] = "leaked" /\ task[a] = "none" /\ current # a /\ owned # a
               /\ display.n = a => op.at = "undoing"
       /\ Underway(a) /\ current # a => task[a] = "leaving"
       /\ shut /\ NoOperation => ~Underway(a) /\ listener[a] # "open"
  /\ Cardinality({a \in Bound : listener[a] # "leaked"}) <= 1
  /\ Connecting =>
       /\ display.n = current /\ display.address = current
       /\ display.mode = "browser" => listener[current] = "open"
  /\ NoOperation /\ ~Connecting => display = NoAttempt
  /\ syncs = <<>> /\ recorded = revision => IF owned = 0 THEN ~known ELSE known \/ ~listed
=============================================================================
