---------------------------- MODULE GatewayProofs ----------------------------
(***************************************************************************)
(* Proofs about the gateway: how an account is connected (LoginFlow) and   *)
(* its tokens are kept fresh (AccountTokens), how a request adapts to what *)
(* a provider refuses (RequestFallback), how settings are changed while    *)
(* the server runs (AdminSettings), how the server starts and stops        *)
(* (ServerLifecycle) and which model answers (ModelRouting).  Each part    *)
(* states an inductive invariant of its specification, one lemma for each  *)
(* action, and the theorem that the property of the runs always holds.     *)
(***************************************************************************)
EXTENDS LoginFlow, AccountTokens, RequestFallback, AdminSettings, ServerLifecycle,
        ModelRouting, FiniteSetTheorems, RecursionLemmas, TLAPS

-----------------------------------------------------------------------------
(* How an account is connected. *)

LoginOperation ==
  [does : {"nothing", "start", "cancel", "disconnect", "close"},
   at : {"free", "binding", "publishing", "undoing", "draining", "removing"},
   n : Attempt \cup {0}]
LoginDisplay ==
  [n : Attempt \cup {0}, mode : {"none", "browser", "device"}, address : Attempt \cup {0}]
LoginStage ==
  {"none", "waiting", "exchanging", "writing", "storing", "failing", "leaving", "over"}
Sync == [revision : Nat, connected : BOOLEAN]

SignInTypes ==
  /\ op \in LoginOperation /\ display \in LoginDisplay /\ current \in Attempt \cup {0}
  /\ task \in [Attempt -> LoginStage]
  /\ listener \in [Attempt -> {"none", "open", "leaked", "closed"}]
  /\ answer \in [Attempt -> {"unused", "awaited", "code", "error"}] /\ shut \in BOOLEAN
RuntimeTypes ==
  /\ owned \in Attempt \cup {0} /\ revision \in Nat
  /\ syncs \in Seq(Sync) /\ recorded \in Nat /\ known \in BOOLEAN /\ listed \in BOOLEAN

\* An attempt that is under way is the one shown, or a command that took it
\* waits for it to end; only such a one, or one being started, has a listener.
AttemptInv(a) ==
  /\ answer[a] = "unused" => task[a] = "none" /\ listener[a] = "none"
  /\ listener[a] = "open" =>
       Underway(a) \/ (op.does = "start" /\ op.n = a /\ op.at = "publishing")
  /\ listener[a] = "leaked" => task[a] = "none"
  /\ Underway(a) => \/ current = a
                    \/ op.at = "draining" /\ op.n = a /\ task[a] = "leaving"

\* What the operation under way, if any, has done to the attempt shown.
OperationInv ==
  /\ op.does = "nothing" => op = Nothing
  /\ op.does = "start" <=> op.at \in {"binding", "publishing", "undoing"}
  /\ op.at \in {"draining", "removing"} => op.does \in {"cancel", "disconnect", "close"}
  /\ current # 0 =>
       /\ op = Nothing /\ Underway(current) /\ ~shut
       /\ display.n = current /\ display.address = current
       /\ display.mode = "browser" => listener[current] = "open"
  /\ op.does = "start" =>
       /\ ~shut /\ op.n \in Attempt /\ display.n = op.n
       /\ task[op.n] = "none" /\ answer[op.n] # "unused"
       /\ op.at = "binding" => listener[op.n] = "none"
       /\ op.at = "publishing" =>
            listener[op.n] = (IF display.mode = "browser" THEN "open" ELSE "none")
  /\ op.does # "start" /\ current = 0 => display = NoAttempt

\* No models of an account that is gone; those of the one there is, if listed.
ModelsTold == IF owned = 0 THEN ~known ELSE known \/ ~listed

\* The application tells the runtime of revisions in their order, and of the
\* newest one truly.
RuntimeInv ==
  /\ RuntimeTypes /\ recorded <= revision
  /\ \A i \in 1..Len(syncs) :
       /\ recorded <= syncs[i].revision /\ syncs[i].revision <= revision
       /\ syncs[i].revision = revision => (syncs[i].connected <=> owned # 0)
  /\ \A i, j \in 1..Len(syncs) : i <= j => syncs[i].revision <= syncs[j].revision
  /\ recorded = revision => ModelsTold

SignInInv == SignInTypes /\ OperationInv /\ \A a \in Attempt : AttemptInv(a)
\* The attempt that brought the credentials is over, or is leaving.
OwnedInv == owned # 0 => task[owned] \in {"leaving", "over"}
LoginInv == SignInInv /\ RuntimeInv /\ OwnedInv

(* The operations of the manager are records of their own kind.            *)
LEMMA OperationNames ==
  /\ Nothing \in LoginOperation /\ Nothing.does = "nothing" /\ Nothing.at = "free"
  /\ NoAttempt \in LoginDisplay /\ NoAttempt.n = 0
  /\ 0 \notin Attempt
BY DEF Nothing, NoAttempt, LoginOperation, LoginDisplay, Attempt

(* An operation that goes to another place.                                *)
LEMMA OperationGoes ==
  ASSUME op \in LoginOperation,
         NEW at \in {"free", "binding", "publishing", "undoing", "draining", "removing"},
         op' = [op EXCEPT !.at = at]
  PROVE  op' \in LoginOperation /\ op'.at = at /\ op'.does = op.does /\ op'.n = op.n
BY DEF LoginOperation

(* The starting of an attempt.                                             *)
LEMMA AttemptBegins ==
  ASSUME SignInInv, NEW a \in Attempt, NEW mode \in {"browser", "device"}, StartBegins(a, mode)
  PROVE  SignInInv'
<1>1. /\ SignInTypes /\ OperationInv /\ op = Nothing /\ ~shut /\ ~Underway(current)
      /\ answer[a] = "unused"
      /\ display' = [n |-> a, mode |-> mode, address |-> 0]
      /\ answer' = [answer EXCEPT ![a] = "awaited"]
      /\ op' = [does |-> "start", at |-> "binding", n |-> a]
      /\ UNCHANGED <<current, task, listener, shut>>
  BY DEF SignInInv, StartBegins, NoOperation, Attempt
<1>2. /\ display' \in LoginDisplay /\ display'.n = a /\ op' \in LoginOperation
      /\ op'.does = "start" /\ op'.at = "binding" /\ op'.n = a
  BY <1>1 DEF LoginDisplay, LoginOperation
<1>3. /\ answer' \in [Attempt -> {"unused", "awaited", "code", "error"}]
      /\ answer'[a] = "awaited" /\ \A b \in Attempt \ {a} : answer'[b] = answer[b]
  BY <1>1 DEF SignInTypes
<1>4. task[a] = "none" /\ listener[a] = "none" /\ current = 0
  BY <1>1 DEF SignInInv, AttemptInv, OperationInv
<1>5. SignInTypes'
  BY <1>1, <1>2, <1>3 DEF SignInTypes
<1>6. OperationInv'
  BY <1>1, <1>2, <1>3, <1>4 DEF OperationInv
<1>7. ASSUME NEW b \in Attempt PROVE AttemptInv(b)'
  <2>1. AttemptInv(b) /\ (answer'[b] = "unused" => answer[b] = "unused")
    BY <1>3 DEF SignInInv
  <2>2. op.at = "free" /\ op.does = "nothing"
    BY <1>1, OperationNames
  <2> QED
    BY <1>1, <1>4, <2>1, <2>2 DEF AttemptInv, Underway
<1> QED
  BY <1>5, <1>6, <1>7 DEF SignInInv

(* A browser is awaited once a listener is bound, a device at once.        *)
LEMMA AttemptBinds ==
  ASSUME SignInInv, Binds \/ DeviceCodeComes
  PROVE  SignInInv'
<1>1. /\ SignInTypes /\ OperationInv /\ op.at = "binding"
      /\ op' = [op EXCEPT !.at = "publishing"]
      /\ UNCHANGED <<display, current, task, answer, shut>>
      /\ \/ listener' = [listener EXCEPT ![op.n] = "open"] /\ display.mode = "browser"
         \/ listener' = listener /\ display.mode = "device"
  BY DEF SignInInv, Binds, DeviceCodeComes, attempts
<1>2. /\ op \in LoginOperation /\ op.does = "start" /\ op.n \in Attempt /\ op # Nothing
      /\ op' \in LoginOperation /\ op'.does = "start" /\ op'.n = op.n /\ op'.at = "publishing"
  BY <1>1, OperationGoes, OperationNames DEF SignInTypes, OperationInv
<1>3. /\ listener' \in [Attempt -> {"none", "open", "leaked", "closed"}]
      /\ \A b \in Attempt \ {op.n} : listener'[b] = listener[b]
      /\ listener'[op.n] = (IF display.mode = "browser" THEN "open" ELSE "none")
  BY <1>1, <1>2 DEF SignInTypes, OperationInv
<1>4. SignInTypes'
  BY <1>1, <1>2, <1>3 DEF SignInTypes
<1>5. OperationInv'
  BY <1>1, <1>2, <1>3 DEF OperationInv
<1>6. ASSUME NEW b \in Attempt PROVE AttemptInv(b)'
  <2>1. AttemptInv(b) /\ (b = op.n => answer[b] # "unused" /\ task[b] = "none")
    BY <1>1, <1>2 DEF SignInInv, OperationInv
  <2> QED
    BY <1>1, <1>2, <1>3, <2>1 DEF AttemptInv, Underway
<1> QED
  BY <1>4, <1>5, <1>6 DEF SignInInv

(* A start that fails or is cut closes the listener it knows of.           *)
LEMMA AttemptFails ==
  ASSUME SignInInv, StartFails \/ StartCut
  PROVE  SignInInv'
<1>1. /\ SignInTypes /\ OperationInv /\ op.at \in {"binding", "publishing"}
      /\ op' = [op EXCEPT !.at = "undoing"]
      /\ UNCHANGED <<display, current, task, answer, shut>>
      /\ \/ listener' = listener /\ op.at = "binding"
         \/ listener' = [listener EXCEPT ![op.n] = "leaked"]
         \/ listener' = [listener EXCEPT ![op.n] = IF @ = "open" THEN "closed" ELSE @]
  BY DEF SignInInv, StartFails, StartCut, attempts, ClosesListener
<1>2. /\ op \in LoginOperation /\ op.does = "start" /\ op.n \in Attempt /\ op # Nothing
      /\ op' \in LoginOperation /\ op'.does = "start" /\ op'.n = op.n /\ op'.at = "undoing"
  BY <1>1, OperationGoes, OperationNames DEF SignInTypes, OperationInv
<1>3. /\ listener' \in [Attempt -> {"none", "open", "leaked", "closed"}]
      /\ \A b \in Attempt \ {op.n} : listener'[b] = listener[b]
      /\ listener'[op.n] # "open"
  <2>1. op.at = "binding" => listener[op.n] = "none"
    BY <1>1, <1>2 DEF OperationInv
  <2> QED
    BY <1>1, <1>2, <2>1 DEF SignInTypes
<1>4. SignInTypes'
  BY <1>1, <1>2, <1>3 DEF SignInTypes
<1>5. OperationInv'
  BY <1>1, <1>2, <1>3 DEF OperationInv
<1>6. ASSUME NEW b \in Attempt PROVE AttemptInv(b)'
  <2>1. AttemptInv(b) /\ (b = op.n => answer[b] # "unused" /\ task[b] = "none")
    BY <1>1, <1>2 DEF SignInInv, OperationInv
  <2> QED
    BY <1>1, <1>2, <1>3, <2>1 DEF AttemptInv, Underway
<1> QED
  BY <1>4, <1>5, <1>6 DEF SignInInv

(* A failed start is forgotten.                                            *)
LEMMA AttemptUndone ==
  ASSUME SignInInv, StartUndone
  PROVE  SignInInv'
<1>1. /\ SignInTypes /\ OperationInv /\ op.at = "undoing" /\ op.does = "start"
      /\ display' = NoAttempt /\ op' = Nothing
      /\ UNCHANGED <<current, task, listener, answer, shut>>
  BY DEF SignInInv, StartUndone, OperationInv
<1>2. op # Nothing /\ current = 0
  BY <1>1, OperationNames DEF OperationInv
<1>3. SignInTypes'
  BY <1>1, OperationNames DEF SignInTypes
<1>4. OperationInv'
  BY <1>1, <1>2, OperationNames DEF OperationInv
<1>5. ASSUME NEW b \in Attempt PROVE AttemptInv(b)'
  <2>1. AttemptInv(b)
    BY DEF SignInInv
  <2> QED
    BY <1>1, <2>1, OperationNames DEF AttemptInv, Underway
<1> QED
  BY <1>3, <1>4, <1>5 DEF SignInInv

(* An attempt whose address is published is under way.                     *)
LEMMA AttemptPublished ==
  ASSUME SignInInv, StartPublishes
  PROVE  SignInInv'
<1>1. /\ SignInTypes /\ OperationInv /\ op.at = "publishing" /\ op.does = "start"
      /\ op.n \in Attempt /\ display.n = op.n /\ ~shut /\ answer[op.n] # "unused"
      /\ listener[op.n] # "leaked" /\ (display.mode = "browser" => listener[op.n] = "open")
      /\ current' = op.n /\ task' = [task EXCEPT ![op.n] = "waiting"]
      /\ display' = [display EXCEPT !.address = op.n] /\ op' = Nothing
      /\ UNCHANGED <<listener, answer, shut>>
  BY DEF SignInInv, StartPublishes, OperationInv, Becomes
<1>2. op # Nothing /\ current = 0
  BY <1>1, OperationNames DEF OperationInv
<1>3. PICK a \in Attempt : a = op.n
  BY <1>1
<1>4. /\ display' \in LoginDisplay /\ display'.n = a /\ display'.address = a
      /\ display'.mode = display.mode
  <2>1. display \in LoginDisplay /\ display' = [display EXCEPT !.address = a]
    BY <1>1, <1>3 DEF SignInTypes
  <2> QED
    BY <1>1, <1>3, <2>1 DEF LoginDisplay
<1>5. /\ task' \in [Attempt -> LoginStage] /\ task'[a] = "waiting"
      /\ \A b \in Attempt \ {a} : task'[b] = task[b]
  BY <1>1, <1>3 DEF SignInTypes, LoginStage
<1>6. SignInTypes'
  BY <1>1, <1>3, <1>4, <1>5, OperationNames DEF SignInTypes
<1>7. OperationInv'
  BY <1>1, <1>3, <1>4, <1>5, OperationNames DEF OperationInv, Underway
<1>8. ASSUME NEW b \in Attempt PROVE AttemptInv(b)'
  <2>1. AttemptInv(b)
    BY DEF SignInInv
  <2> QED
    BY <1>1, <1>2, <1>3, <1>5, <2>1, OperationNames DEF AttemptInv, Underway
<1> QED
  BY <1>6, <1>7, <1>8 DEF SignInInv

(* A callback comes to a listener.                                         *)
LEMMA CallbackHeard ==
  ASSUME SignInInv, NEW a \in Attempt, NEW said \in {"code", "error"}, CallbackComes(a, said)
  PROVE  SignInInv'
<1>1. /\ SignInTypes /\ OperationInv /\ answer' = [answer EXCEPT ![a] = said]
      /\ answer[a] # "unused" /\ UNCHANGED <<op, display, current, task, listener, shut>>
  BY DEF SignInInv, CallbackComes
<1>2. /\ answer' \in [Attempt -> {"unused", "awaited", "code", "error"}]
      /\ \A b \in Attempt : answer'[b] = "unused" <=> answer[b] = "unused"
  BY <1>1 DEF SignInTypes
<1>3. SignInTypes' /\ OperationInv'
  BY <1>1, <1>2 DEF SignInTypes, OperationInv, Underway
<1>4. ASSUME NEW b \in Attempt PROVE AttemptInv(b)'
  <2>1. AttemptInv(b)
    BY DEF SignInInv
  <2> QED
    BY <1>1, <1>2, <2>1 DEF AttemptInv, Underway
<1> QED
  BY <1>3, <1>4 DEF SignInInv

(* The login task goes on, to its leaving at the latest.                   *)
LEMMA TaskGoesOn ==
  ASSUME SignInInv, NEW a \in Attempt,
         NEW from \in LoginStage \ {"none", "leaving", "over"},
         NEW to \in LoginStage \ {"none", "over"},
         task[a] = from, task' = [task EXCEPT ![a] = to],
         UNCHANGED <<op, display, current, listener, answer, shut>>
  PROVE  SignInInv'
<1>1. /\ SignInTypes /\ OperationInv /\ task' \in [Attempt -> LoginStage]
      /\ task'[a] \notin {"none", "over"} /\ task[a] \notin {"none", "leaving", "over"}
      /\ \A b \in Attempt \ {a} : task'[b] = task[b]
  BY DEF SignInInv, SignInTypes
<1>2. current = a
  BY <1>1, OperationNames DEF SignInInv, AttemptInv, Underway
<1>3. SignInTypes'
  BY <1>1 DEF SignInTypes
<1>4. OperationInv'
  BY <1>1, <1>2, OperationNames DEF OperationInv, Underway
<1>5. ASSUME NEW b \in Attempt PROVE AttemptInv(b)'
  <2>1. AttemptInv(b)
    BY DEF SignInInv
  <2> QED
    BY <1>1, <1>2, <2>1, OperationNames DEF AttemptInv, Underway
<1> QED
  BY <1>3, <1>4, <1>5 DEF SignInInv

(* A step of the login task.                                               *)
LEMMA TaskSteps ==
  ASSUME SignInInv, NEW a \in Attempt,
         \/ GrantComes(a) \/ GrantFails(a) \/ Exchanges(a) \/ WritesCredentials(a)
         \/ NotesFailure(a) \/ Stores(a)
  PROVE  SignInInv'
<1>1. PICK from \in LoginStage \ {"none", "leaving", "over"},
           to \in LoginStage \ {"none", "over"} :
        task[a] = from /\ task' = [task EXCEPT ![a] = to]
  BY DEF GrantComes, GrantFails, Exchanges, WritesCredentials, NotesFailure, Stores, Steps,
         Becomes, LoginStage
<1>2. UNCHANGED <<op, display, current, listener, answer, shut>>
  BY DEF GrantComes, GrantFails, Exchanges, WritesCredentials, NotesFailure, Stores, Steps
<1> QED
  BY <1>1, <1>2, TaskGoesOn

(* The listener of an attempt is closed, if it is open.                    *)
LEMMA ListenerCloses ==
  ASSUME SignInTypes, NEW a \in Attempt, ClosesListener(a)
  PROVE  /\ listener' \in [Attempt -> {"none", "open", "leaked", "closed"}]
         /\ listener'[a] # "open" /\ (listener[a] # "open" => listener'[a] = listener[a])
         /\ listener'[a] = "leaked" => listener[a] = "leaked"
         /\ \A b \in Attempt \ {a} : listener'[b] = listener[b]
BY DEF SignInTypes, ClosesListener

(* The login task ends, and what a status shows of it.                     *)
LEMMA TaskLeaves ==
  ASSUME SignInInv, NEW a \in Attempt, Leaves(a)
  PROVE  SignInInv'
<1>1. /\ SignInTypes /\ OperationInv /\ task[a] = "leaving" /\ ClosesListener(a)
      /\ task' = [task EXCEPT ![a] = "over"] /\ UNCHANGED <<op, answer, shut>>
      /\ \/ current = a /\ current' = 0 /\ display' = NoAttempt
         \/ current # a /\ current' = current /\ display' = display
  BY DEF SignInInv, Leaves, Becomes
<1>2. /\ task' \in [Attempt -> LoginStage] /\ task'[a] = "over"
      /\ \A b \in Attempt \ {a} : task'[b] = task[b]
  BY <1>1 DEF SignInTypes, LoginStage
<1>3. /\ listener' \in [Attempt -> {"none", "open", "leaked", "closed"}] /\ listener'[a] # "open"
      /\ \A b \in Attempt \ {a} : listener'[b] = listener[b]
      /\ listener'[a] # "leaked"
  BY <1>1, ListenerCloses DEF SignInInv, AttemptInv
<1>4. answer[a] # "unused"
  BY <1>1 DEF SignInInv, AttemptInv
<1>5. SignInTypes'
  BY <1>1, <1>2, <1>3, OperationNames DEF SignInTypes
<1>6. op.does = "start" => op.n # a
  BY <1>1 DEF OperationInv
<1>7. OperationInv'
  <2>1. CASE current = a
    <3>1. op = Nothing /\ current' = 0 /\ display' = NoAttempt
      BY <1>1, <2>1, OperationNames DEF OperationInv
    <3> QED
      BY <1>1, <3>1, OperationNames DEF OperationInv
  <2>2. CASE current # a
    <3>1. current' = current /\ display' = display
      BY <1>1, <2>2
    <3>2. current # 0 => Underway(current)' /\ listener'[current] = listener[current]
      BY <1>1, <1>2, <1>3, <2>2 DEF OperationInv, SignInTypes, Underway
    <3>3. op.does = "start" => task'[op.n] = task[op.n] /\ listener'[op.n] = listener[op.n]
      BY <1>1, <1>2, <1>3, <1>6 DEF OperationInv
    <3> QED
      BY <1>1, <3>1, <3>2, <3>3 DEF OperationInv
  <2> QED
    BY <2>1, <2>2
<1>8. ASSUME NEW b \in Attempt PROVE AttemptInv(b)'
  <2>1. AttemptInv(b)
    BY DEF SignInInv
  <2>2. CASE b = a
    BY <1>1, <1>2, <1>3, <1>4, <2>2 DEF AttemptInv, Underway
  <2>3. CASE b # a
    BY <1>1, <1>2, <1>3, <2>1, <2>3 DEF AttemptInv, Underway
  <2> QED
    BY <2>2, <2>3
<1> QED
  BY <1>5, <1>7, <1>8 DEF SignInInv

(* A task that is cancelled leaves, or has left.                           *)
LEMMA TaskCancelled ==
  ASSUME SignInTypes, NEW a \in Attempt \cup {0}, CancelsTask(a)
  PROVE  /\ task' \in [Attempt -> LoginStage]
         /\ listener' \in [Attempt -> {"none", "open", "leaked", "closed"}]
         /\ \A b \in Attempt \ {a} : task'[b] = task[b] /\ listener'[b] = listener[b]
         /\ Underway(a) => \/ task'[a] = "leaving" /\ listener'[a] = listener[a]
                           \/ task'[a] = "over" /\ listener'[a] # "open"
         /\ \A b \in Attempt : listener'[b] = "leaked" => listener[b] = "leaked"
         /\ Underway(a) /\ task[a] = "leaving" => task'[a] = "over"
         /\ ~Underway(a) => task' = task /\ listener' = listener
<1>1. CASE ~Underway(a)
  BY <1>1 DEF CancelsTask, SignInTypes
<1>2. CASE Underway(a)
  <2>1. a \in Attempt
    BY <1>2 DEF Underway
  <2>2. CASE task[a] = "leaving"
    <3>1. task' = [task EXCEPT ![a] = "over"] /\ ClosesListener(a)
      BY <1>2, <2>2 DEF CancelsTask, Becomes
    <3> QED
      BY <1>2, <2>1, <3>1, ListenerCloses DEF SignInTypes, LoginStage
  <2>3. CASE task[a] # "leaving"
    <3>1. task' = [task EXCEPT ![a] = "leaving"] /\ listener' = listener
      BY <1>2, <2>3 DEF CancelsTask, Becomes
    <3> QED
      BY <1>2, <2>1, <2>3, <3>1 DEF SignInTypes, LoginStage
  <2> QED
    BY <2>2, <2>3
<1> QED
  BY <1>1, <1>2

(* A command takes the attempt.                                            *)
LEMMA LoginTaken ==
  ASSUME SignInInv, NEW does \in {"cancel", "disconnect", "close"}, TakesLogin(does)
  PROVE  SignInInv'
<1>1. /\ SignInTypes /\ OperationInv /\ op = Nothing /\ CancelsTask(current)
      /\ display' = NoAttempt /\ current' = 0 /\ answer' = answer
      /\ shut' = (shut \/ does = "close")
      /\ op' = [does |-> does, at |-> "draining", n |-> current]
      /\ current \in Attempt \cup {0}
  BY DEF SignInInv, TakesLogin, NoOperation, SignInTypes
<1>2. /\ op' \in LoginOperation /\ op'.does = does /\ op'.at = "draining" /\ op'.n = current
  BY <1>1 DEF LoginOperation
<1>3. /\ task' \in [Attempt -> LoginStage]
      /\ listener' \in [Attempt -> {"none", "open", "leaked", "closed"}]
      /\ \A b \in Attempt \ {current} : task'[b] = task[b] /\ listener'[b] = listener[b]
      /\ Underway(current) => \/ task'[current] = "leaving" /\ listener'[current] = listener[current]
                              \/ task'[current] = "over" /\ listener'[current] # "open"
      /\ \A b \in Attempt : listener'[b] = "leaked" => listener[b] = "leaked"
      /\ ~Underway(current) => task' = task /\ listener' = listener
  BY <1>1, TaskCancelled
<1>4. shut' \in BOOLEAN
  BY <1>1
<1>5. SignInTypes'
  BY <1>1, <1>2, <1>3, <1>4, OperationNames DEF SignInTypes
<1>6. op'.does # "start" /\ op'.does # "nothing"
  BY <1>2
<1>7. OperationInv'
  BY <1>1, <1>2, <1>6 DEF OperationInv
<1>8. ASSUME NEW b \in Attempt PROVE AttemptInv(b)'
  <2>1. AttemptInv(b) /\ op.does # "start" /\ op.at # "draining"
    BY <1>1, OperationNames DEF SignInInv
  <2>2. CASE b = current
    <3>1. Underway(b) => answer[b] # "unused"
      BY <2>1 DEF AttemptInv, Underway
    <3> QED
      BY <1>1, <1>2, <1>3, <2>1, <2>2, <3>1 DEF AttemptInv, Underway
  <2>3. CASE b # current
    BY <1>1, <1>2, <1>3, <2>1, <2>3 DEF AttemptInv, Underway
  <2> QED
    BY <2>2, <2>3
<1> QED
  BY <1>5, <1>7, <1>8 DEF SignInInv

(* The command ends once the task it took has, or is cancelled, and with   *)
(* it the task once more.                                                  *)
LEMMA LoginDrained ==
  ASSUME SignInInv, Drained \/ DrainCut
  PROVE  SignInInv'
<1>1. /\ SignInTypes /\ OperationInv /\ op.at = "draining" /\ op \in LoginOperation
      /\ op.n \in Attempt \cup {0} /\ op.does \in {"cancel", "disconnect", "close"}
      /\ UNCHANGED <<display, current, answer, shut>>
      /\ \/ op' = Nothing \/ (op.does = "disconnect" /\ op' = [op EXCEPT !.at = "removing"])
      /\ \/ ~Underway(op.n) /\ task' = task /\ listener' = listener
         \/ CancelsTask(op.n)
  BY DEF SignInInv, SignInTypes, LoginOperation, Drained, DrainCut, attempts, OperationInv
<1>2. /\ op' \in LoginOperation /\ op'.does # "start"
      /\ op'.at \notin {"draining", "binding", "publishing", "undoing"}
      /\ op'.does = "nothing" => op' = Nothing
      /\ op'.at = "removing" => op'.does \in {"cancel", "disconnect", "close"}
  BY <1>1, OperationGoes, OperationNames
<1>3. op.does # "start" /\ op # Nothing /\ current = 0
  BY <1>1, OperationNames DEF OperationInv
<1>4. /\ task' \in [Attempt -> LoginStage]
      /\ listener' \in [Attempt -> {"none", "open", "leaked", "closed"}]
      /\ \A b \in Attempt \ {op.n} : task'[b] = task[b] /\ listener'[b] = listener[b]
      /\ Underway(op.n) => task'[op.n] = "over" /\ listener'[op.n] # "open"
      /\ \A b \in Attempt : listener'[b] = "leaked" => listener[b] = "leaked"
      /\ ~Underway(op.n) => task' = task /\ listener' = listener
  <2>1. CASE CancelsTask(op.n)
    <3>1. Underway(op.n) => task[op.n] = "leaving"
      BY <1>1, <1>3, OperationNames DEF SignInInv, AttemptInv, Underway
    <3> QED
      BY <1>1, <2>1, <3>1, TaskCancelled
  <2>2. CASE ~Underway(op.n) /\ task' = task /\ listener' = listener
    BY <1>1, <2>2 DEF SignInTypes
  <2> QED
    BY <1>1, <2>1, <2>2
<1>5. SignInTypes'
  BY <1>1, <1>2, <1>4 DEF SignInTypes
<1>6. OperationInv'
  BY <1>1, <1>2, <1>3 DEF OperationInv
<1>7. ASSUME NEW b \in Attempt PROVE AttemptInv(b)'
  <2>1. AttemptInv(b)
    BY DEF SignInInv
  <2>2. CASE b = op.n
    BY <1>1, <1>2, <1>3, <1>4, <2>1, <2>2, OperationNames DEF AttemptInv, Underway
  <2>3. CASE b # op.n
    BY <1>1, <1>2, <1>3, <1>4, <2>1, <2>3, OperationNames DEF AttemptInv, Underway
  <2> QED
    BY <2>2, <2>3
<1> QED
  BY <1>5, <1>6, <1>7 DEF SignInInv

(* The credentials are removed, or not.                                    *)
LEMMA LoginRemoved ==
  ASSUME SignInInv, Disconnects \/ DisconnectFails
  PROVE  SignInInv'
<1>1. /\ SignInTypes /\ OperationInv /\ op.at = "removing" /\ op' = Nothing
      /\ UNCHANGED <<display, current, task, listener, answer, shut>>
  BY DEF SignInInv, Disconnects, DisconnectFails, attempts
<1>2. op.does # "start" /\ op # Nothing /\ current = 0 /\ display = NoAttempt
  BY <1>1, OperationNames DEF OperationInv
<1>3. SignInTypes'
  BY <1>1, OperationNames DEF SignInTypes
<1>4. OperationInv'
  BY <1>1, <1>2, OperationNames DEF OperationInv
<1>5. ASSUME NEW b \in Attempt PROVE AttemptInv(b)'
  <2>1. AttemptInv(b)
    BY DEF SignInInv
  <2> QED
    BY <1>1, <1>2, <2>1, OperationNames DEF AttemptInv, Underway
<1> QED
  BY <1>3, <1>4, <1>5 DEF SignInInv

(* The credentials change, and the revision with them; the application may *)
(* be told of the new one at once.                                         *)
LEMMA RevisionGrows ==
  ASSUME RuntimeInv, owned' \in Attempt \cup {0}, revision' = revision + 1,
         recorded' = recorded, known' = known, listed' = listed,
         \/ syncs' = syncs
         \/ syncs' = Append(syncs, [revision |-> revision + 1, connected |-> FALSE]) /\ owned' = 0
  PROVE  RuntimeInv'
<1>1. /\ revision \in Nat /\ syncs \in Seq(Sync) /\ recorded \in Nat /\ recorded <= revision
      /\ \A i \in 1..Len(syncs) :
           syncs[i].revision \in Nat /\ recorded <= syncs[i].revision /\ syncs[i].revision <= revision
  <2>1. \A i \in 1..Len(syncs) : syncs[i] \in Sync
    BY DEF RuntimeInv, RuntimeTypes
  <2> QED
    BY <2>1 DEF RuntimeInv, RuntimeTypes, Sync
<1>2. CASE syncs' = syncs
  BY <1>1, <1>2 DEF RuntimeInv, RuntimeTypes
<1>3. CASE syncs' = Append(syncs, [revision |-> revision + 1, connected |-> FALSE]) /\ owned' = 0
  <2>1. PICK s \in Sync : /\ s = [revision |-> revision + 1, connected |-> FALSE]
                          /\ s.revision = revision + 1 /\ ~s.connected
    <3> DEFINE r == [revision |-> revision + 1, connected |-> FALSE]
    <3>1. r \in Sync /\ r.revision = revision + 1 /\ ~r.connected
      BY <1>1 DEF Sync
    <3> QED
      BY <3>1
  <2>2. /\ syncs' \in Seq(Sync) /\ Len(syncs') = Len(syncs) + 1 /\ Len(syncs) \in Nat
        /\ \A i \in 1..Len(syncs) : syncs'[i] = syncs[i]
        /\ syncs'[Len(syncs) + 1] = s
    BY <1>1, <1>3, <2>1
  <2>3. \A i \in 1..Len(syncs') : i \in 1..Len(syncs) \/ syncs'[i] = s
    BY <2>2
  <2>4. RuntimeTypes'
    BY <1>1, <2>2 DEF RuntimeInv, RuntimeTypes
  <2>5. ASSUME NEW i \in 1..Len(syncs')
        PROVE  /\ recorded' <= syncs'[i].revision /\ syncs'[i].revision <= revision'
               /\ syncs'[i].revision = revision' => (syncs'[i].connected <=> owned' # 0)
    <3>1. CASE i \in 1..Len(syncs)
      BY <1>1, <2>2, <3>1
    <3>2. CASE syncs'[i] = s
      BY <1>1, <1>3, <2>1, <3>2
    <3> QED
      BY <2>3, <3>1, <3>2
  <2>6. ASSUME NEW i \in 1..Len(syncs'), NEW j \in 1..Len(syncs'), i <= j
        PROVE  syncs'[i].revision <= syncs'[j].revision
    <3>1. CASE j \in 1..Len(syncs)
      <4>1. i \in 1..Len(syncs)
        BY <2>2, <2>6, <3>1
      <4> QED
        BY <2>2, <2>6, <3>1, <4>1 DEF RuntimeInv
    <3>2. CASE syncs'[j] = s
      BY <2>1, <2>5, <3>2
    <3> QED
      BY <2>3, <3>1, <3>2
  <2> QED
    BY <1>1, <2>4, <2>5, <2>6 DEF RuntimeInv, ModelsTold
<1> QED
  BY <1>2, <1>3

(* The application asks for the status of the account.                     *)
LEMMA StatusAsked ==
  ASSUME RuntimeInv, AsksStatus
  PROVE  RuntimeInv'
<1>1. /\ revision \in Nat /\ syncs \in Seq(Sync) /\ recorded \in Nat /\ recorded <= revision
      /\ \A i \in 1..Len(syncs) : recorded <= syncs[i].revision /\ syncs[i].revision <= revision
      /\ syncs' = Append(syncs, [revision |-> revision, connected |-> owned # 0])
      /\ UNCHANGED <<owned, revision, recorded, known, listed>>
  BY DEF RuntimeInv, RuntimeTypes, AsksStatus
<1>2. PICK b \in BOOLEAN : b <=> owned # 0
  OBVIOUS
<1>3. PICK s \in Sync : /\ s = [revision |-> revision, connected |-> owned # 0]
                        /\ s.revision = revision /\ (s.connected <=> owned # 0)
  <2> DEFINE r == [revision |-> revision, connected |-> owned # 0]
  <2>1. r \in Sync /\ r.revision = revision /\ (r.connected <=> owned # 0)
    <3>1. (owned # 0) \in BOOLEAN
      OBVIOUS
    <3> QED
      BY <1>1, <3>1 DEF Sync
  <2> QED
    BY <2>1
<1>4. /\ syncs' \in Seq(Sync) /\ Len(syncs') = Len(syncs) + 1 /\ Len(syncs) \in Nat
      /\ \A i \in 1..Len(syncs) : syncs'[i] = syncs[i]
      /\ syncs'[Len(syncs) + 1] = s
  BY <1>1, <1>3
<1>5. \A i \in 1..Len(syncs') : i \in 1..Len(syncs) \/ syncs'[i] = s
  BY <1>4
<1>6. RuntimeTypes'
  BY <1>1, <1>4 DEF RuntimeInv, RuntimeTypes
<1>7. ASSUME NEW i \in 1..Len(syncs')
      PROVE  /\ recorded <= syncs'[i].revision /\ syncs'[i].revision <= revision
             /\ syncs'[i].revision = revision => (syncs'[i].connected <=> owned # 0)
  <2>1. CASE i \in 1..Len(syncs)
    BY <1>4, <2>1 DEF RuntimeInv
  <2>2. CASE syncs'[i] = s
    BY <1>1, <1>3, <2>2
  <2> QED
    BY <1>5, <2>1, <2>2
<1>8. ASSUME NEW i \in 1..Len(syncs'), NEW j \in 1..Len(syncs'), i <= j
      PROVE  syncs'[i].revision <= syncs'[j].revision
  <2>1. CASE j \in 1..Len(syncs)
    <3>1. i \in 1..Len(syncs)
      BY <1>4, <1>8, <2>1
    <3> QED
      BY <1>4, <1>8, <2>1, <3>1 DEF RuntimeInv
  <2>2. CASE syncs'[j] = s
    BY <1>3, <1>7, <2>2
  <2> QED
    BY <1>5, <2>1, <2>2
<1> QED
  BY <1>1, <1>6, <1>7, <1>8 DEF RuntimeInv, ModelsTold

(* The application tells the runtime what it was told first, or fails to.  *)
LEMMA RuntimeTold ==
  ASSUME RuntimeInv, Synchronizes \/ SyncFails
  PROVE  RuntimeInv'
<1>1. /\ revision \in Nat /\ syncs \in Seq(Sync) /\ syncs # <<>> /\ syncs' = Tail(syncs)
      /\ recorded \in Nat /\ recorded <= revision /\ known \in BOOLEAN
      /\ UNCHANGED <<owned, revision>>
  BY DEF RuntimeInv, RuntimeTypes, Synchronizes, SyncFails
<1>2. /\ Len(syncs) \in Nat \ {0} /\ 1 \in 1..Len(syncs) /\ syncs' \in Seq(Sync)
      /\ Len(syncs') = Len(syncs) - 1 /\ \A i \in 1..Len(syncs') : syncs'[i] = syncs[i + 1]
      /\ Head(syncs) = syncs[1]
  BY <1>1
<1>3. PICK s \in Sync : s = syncs[1] /\ s.revision \in Nat /\ s.connected \in BOOLEAN
  <2>1. syncs[1] \in Sync
    BY <1>1, <1>2
  <2>2. \A r \in Sync : r.revision \in Nat /\ r.connected \in BOOLEAN
    BY DEF Sync
  <2> QED
    BY <2>1, <2>2
<1>4. /\ recorded <= s.revision /\ s.revision <= revision
      /\ s.revision = revision => (s.connected <=> owned # 0)
  BY <1>2, <1>3 DEF RuntimeInv
<1>5. \A i \in 1..Len(syncs) : syncs[i] \in Sync /\ syncs[i].revision \in Nat
  <2>1. \A i \in 1..Len(syncs) : syncs[i] \in Sync
    BY <1>1
  <2>2. \A r \in Sync : r.revision \in Nat
    BY DEF Sync
  <2> QED
    BY <2>1, <2>2
<1>6. /\ recorded' \in Nat /\ known' \in BOOLEAN /\ listed' \in BOOLEAN
      /\ recorded' <= s.revision /\ recorded' >= recorded
      /\ recorded' = revision => ModelsTold'
  <2>1. CASE Synchronizes
    <3>1. /\ recorded' = s.revision
          /\ IF s.connected THEN listed' \in BOOLEAN /\ known' = (known \/ listed')
             ELSE known' = FALSE /\ listed' = listed
      BY <1>2, <1>3, <2>1 DEF Synchronizes
    <3>2. listed \in BOOLEAN
      BY DEF RuntimeInv, RuntimeTypes
    <3>3. /\ recorded' \in Nat /\ known' \in BOOLEAN /\ listed' \in BOOLEAN
          /\ s.connected => known' \/ ~listed'
          /\ ~s.connected => ~known'
      BY <1>1, <1>3, <3>1, <3>2
    <3> QED
      BY <1>1, <1>3, <1>4, <3>1, <3>3 DEF ModelsTold
  <2>2. CASE SyncFails
    <3>1. UNCHANGED <<recorded, known, listed>>
      BY <2>2 DEF SyncFails
    <3>2. listed \in BOOLEAN /\ (recorded = revision => ModelsTold)
      BY DEF RuntimeInv, RuntimeTypes
    <3> QED
      BY <1>1, <1>3, <1>4, <3>1, <3>2 DEF ModelsTold
  <2> QED
    BY <2>1, <2>2
<1>7. RuntimeTypes'
  BY <1>1, <1>2, <1>6 DEF RuntimeInv, RuntimeTypes
<1>8. ASSUME NEW i \in 1..Len(syncs')
      PROVE  /\ recorded' <= syncs'[i].revision /\ syncs'[i].revision <= revision
             /\ syncs'[i].revision = revision => (syncs'[i].connected <=> owned # 0)
  <2>1. /\ i + 1 \in 1..Len(syncs) /\ syncs'[i] = syncs[i + 1] /\ 1 <= i + 1
        /\ syncs[i + 1].revision \in Nat
    BY <1>2, <1>5
  <2>2. s.revision <= syncs[i + 1].revision
    BY <1>2, <1>3, <2>1 DEF RuntimeInv
  <2>3. recorded' <= syncs[i + 1].revision
    BY <1>3, <1>6, <2>1, <2>2
  <2> QED
    BY <2>1, <2>3 DEF RuntimeInv
<1>9. ASSUME NEW i \in 1..Len(syncs'), NEW j \in 1..Len(syncs'), i <= j
      PROVE  syncs'[i].revision <= syncs'[j].revision
  <2>1. /\ i + 1 \in 1..Len(syncs) /\ syncs'[i] = syncs[i + 1]
        /\ j + 1 \in 1..Len(syncs) /\ syncs'[j] = syncs[j + 1] /\ i + 1 <= j + 1
    BY <1>2, <1>9
  <2> QED
    BY <2>1 DEF RuntimeInv
<1>10. recorded' <= revision
  BY <1>1, <1>3, <1>4, <1>6
<1> QED
  BY <1>1, <1>6, <1>7, <1>8, <1>9, <1>10 DEF RuntimeInv

(* Who reads the models offers none of an account that is gone.            *)
LEMMA RuntimeRead ==
  ASSUME RuntimeInv, ModelsRead
  PROVE  RuntimeInv'
<1>1. /\ UNCHANGED <<owned, revision, syncs, recorded, listed>>
      /\ known' \in BOOLEAN /\ (owned = 0 => ~known') /\ (known /\ owned # 0 => known')
  BY DEF RuntimeInv, RuntimeTypes, ModelsRead
<1>2. RuntimeTypes' /\ (ModelsTold => ModelsTold')
  BY <1>1 DEF RuntimeInv, RuntimeTypes, ModelsTold
<1> QED
  BY <1>1, <1>2 DEF RuntimeInv

(* In the beginning no account is connected and no login is under way.     *)
LEMMA LoginInvInit ==
  ASSUME LoginInit
  PROVE  LoginInv
<1>1. SignInTypes /\ RuntimeTypes
  <2>1. SignInTypes
    BY OperationNames DEF LoginInit, SignInTypes, LoginStage
  <2>2. <<>> \in Seq(Sync)
    OBVIOUS
  <2> QED
    BY <2>1, <2>2 DEF LoginInit, RuntimeTypes
<1>2. OperationInv
  BY OperationNames DEF LoginInit, OperationInv
<1>3. \A a \in Attempt : AttemptInv(a)
  BY DEF LoginInit, AttemptInv, Underway
<1>4. RuntimeInv
  BY <1>1 DEF LoginInit, RuntimeInv, ModelsTold
<1> QED
  BY <1>1, <1>2, <1>3, <1>4 DEF LoginInv, SignInInv, OwnedInv, LoginInit

(* Who brought the credentials does not log in again.                      *)
LEMMA OwnedKept ==
  ASSUME LoginInv, [LoginNext]_loginVars
  PROVE  OwnedInv'
<1>1. SignInTypes /\ OwnedInv /\ owned \in Attempt \cup {0} /\ OperationInv /\ RuntimeInv
  BY DEF LoginInv, SignInInv, RuntimeInv, RuntimeTypes
<1>2. ASSUME NEW a \in Attempt, task[a] \in {"leaving", "over"}
      PROVE  task'[a] \in {"leaving", "over"}
  <2>1. CASE task' = task
    BY <1>2, <2>1
  <2>2. CASE \E b \in Attempt, stage \in LoginStage :
               /\ task[b] \notin {"leaving", "over"} \/ stage \in {"leaving", "over"}
               /\ task' = [task EXCEPT ![b] = stage]
    BY <1>1, <1>2, <2>2 DEF SignInTypes
  <2>3. CASE StartPublishes
    BY <1>1, <1>2, <2>3 DEF StartPublishes, Becomes, OperationInv, SignInTypes
  <2>4. ASSUME NEW b \in Attempt,
               \/ GrantComes(b) \/ GrantFails(b) \/ Exchanges(b) \/ WritesCredentials(b)
               \/ NotesFailure(b) \/ Stores(b) \/ Leaves(b)
        PROVE  task'[a] \in {"leaving", "over"}
    <3>1. \E stage \in LoginStage :
            /\ task[b] \notin {"leaving", "over"} \/ stage \in {"leaving", "over"}
            /\ task' = [task EXCEPT ![b] = stage]
      BY <2>4 DEF GrantComes, GrantFails, Exchanges, WritesCredentials, NotesFailure, Stores,
                  Leaves, Steps, Becomes, LoginStage
    <3> QED
      BY <2>2, <3>1
  <2>5. ASSUME \E does \in {"cancel", "disconnect", "close"} : TakesLogin(does) \/ DrainCut
        PROVE  task'[a] \in {"leaving", "over"}
    <3>1. PICK b \in Attempt \cup {0} : CancelsTask(b)
      BY <1>1, <2>5 DEF TakesLogin, DrainCut, SignInTypes, LoginOperation
    <3>2. CASE ~Underway(b)
      BY <2>1, <3>1, <3>2 DEF CancelsTask
    <3>3. CASE Underway(b)
      <4>1. b \in Attempt
        BY <3>3 DEF Underway
      <4>2. \E stage \in LoginStage :
              stage \in {"leaving", "over"} /\ task' = [task EXCEPT ![b] = stage]
        BY <3>1, <3>3 DEF CancelsTask, Becomes, LoginStage
      <4> QED
        BY <2>2, <4>1, <4>2
    <3> QED
      BY <3>2, <3>3
  <2> QED
    BY <2>1, <2>3, <2>4, <2>5
       DEF LoginNext, loginVars, attempts, StartBegins, Binds, DeviceCodeComes, StartFails,
           StartCut, StartUndone, CallbackComes, TakesLogin, Drained, Disconnects,
           DisconnectFails, RefreshBegins, RefreshEnds, AsksStatus, Synchronizes, SyncFails,
           ModelsRead
<1>3. \/ owned' \in {owned, 0}
      \/ \E a \in Attempt : owned' = a /\ task' = [task EXCEPT ![a] = "leaving"]
  BY DEF LoginNext, loginVars, attempts, StartBegins, Binds, DeviceCodeComes, StartFails,
         StartCut, StartUndone, StartPublishes, CallbackComes, GrantComes, GrantFails,
         Exchanges, WritesCredentials, NotesFailure, Stores, Leaves, Steps, Becomes, TakesLogin,
         Drained, DrainCut, Disconnects, DisconnectFails, RefreshBegins, RefreshEnds,
         AsksStatus, Synchronizes, SyncFails, ModelsRead
<1>4. CASE owned' \in {owned, 0}
  BY <1>1, <1>2, <1>4 DEF OwnedInv
<1>5. ASSUME NEW a \in Attempt, owned' = a, task' = [task EXCEPT ![a] = "leaving"]
      PROVE  OwnedInv'
  BY <1>1, <1>5 DEF OwnedInv, SignInTypes
<1> QED
  BY <1>3, <1>4, <1>5

(* Every step keeps the invariant.                                         *)
LEMMA LoginInvNext ==
  ASSUME LoginInv, [LoginNext]_loginVars
  PROVE  LoginInv'
<1>1. SignInInv /\ RuntimeInv
  BY DEF LoginInv
<1>0. OwnedInv'
  BY OwnedKept
<1>2. ASSUME UNCHANGED <<owned, revision, runtime>>
      PROVE  RuntimeInv'
  BY <1>1, <1>2 DEF RuntimeInv, RuntimeTypes, runtime, ModelsTold
<1>3. ASSUME UNCHANGED <<op, attempts, shut>>
      PROVE  SignInInv'
  <2>1. SignInTypes' /\ OperationInv'
    BY <1>1, <1>3 DEF SignInInv, SignInTypes, OperationInv, Underway, attempts
  <2>2. ASSUME NEW b \in Attempt PROVE AttemptInv(b)'
    <3>1. AttemptInv(b)
      BY <1>1 DEF SignInInv
    <3> QED
      BY <1>3, <3>1 DEF AttemptInv, Underway, attempts
  <2> QED
    BY <2>1, <2>2 DEF SignInInv
<1>4. CASE \/ \E a \in Attempt, mode \in {"browser", "device"} : StartBegins(a, mode)
           \/ Binds \/ DeviceCodeComes \/ StartFails \/ StartCut \/ StartUndone \/ StartPublishes
  <2>1. SignInInv'
    BY <1>1, <1>4, AttemptBegins, AttemptBinds, AttemptFails, AttemptUndone, AttemptPublished
  <2>2. UNCHANGED <<owned, revision, runtime>>
    BY <1>4 DEF StartBegins, Binds, DeviceCodeComes, StartFails, StartCut, StartUndone,
                StartPublishes
  <2> QED
    BY <1>0, <1>2, <2>1, <2>2 DEF LoginInv
<1>5. ASSUME NEW a \in Attempt,
             \/ \E said \in {"code", "error"} : CallbackComes(a, said)
             \/ GrantComes(a) \/ GrantFails(a) \/ Exchanges(a) \/ WritesCredentials(a)
             \/ NotesFailure(a) \/ Leaves(a)
      PROVE  LoginInv'
  <2>1. SignInInv'
    BY <1>1, <1>5, CallbackHeard, TaskSteps, TaskLeaves
  <2>2. UNCHANGED <<owned, revision, runtime>>
    BY <1>5 DEF CallbackComes, GrantComes, GrantFails, Exchanges, WritesCredentials,
                NotesFailure, Leaves, Steps
  <2> QED
    BY <1>0, <1>2, <2>1, <2>2 DEF LoginInv
<1>6. ASSUME NEW a \in Attempt, Stores(a)
      PROVE  LoginInv'
  <2>1. SignInInv'
    BY <1>1, <1>6, TaskSteps
  <2>2. RuntimeInv'
    BY <1>1, <1>6, RevisionGrows DEF Stores, runtime
  <2> QED
    BY <1>0, <2>1, <2>2 DEF LoginInv
<1>7. CASE \/ \E does \in {"cancel", "disconnect", "close"} : TakesLogin(does)
           \/ Drained \/ DrainCut \/ DisconnectFails
  <2>1. SignInInv'
    BY <1>1, <1>7, LoginTaken, LoginDrained, LoginRemoved
  <2>2. UNCHANGED <<owned, revision, runtime>>
    BY <1>7 DEF TakesLogin, Drained, DrainCut, DisconnectFails
  <2> QED
    BY <1>0, <1>2, <2>1, <2>2 DEF LoginInv
<1>8. CASE Disconnects
  <2>1. SignInInv'
    BY <1>1, <1>8, LoginRemoved
  <2>2. RuntimeInv'
    <3>1. /\ owned' = 0 /\ revision' = revision + 1 /\ recorded' = recorded
          /\ UNCHANGED <<known, listed>>
      BY <1>8 DEF Disconnects
    <3>2. syncs' = Append(syncs, [revision |-> revision + 1, connected |-> FALSE])
      BY <1>8, <3>1 DEF Disconnects
    <3> QED
      BY <1>1, <3>1, <3>2, RevisionGrows
  <2> QED
    BY <1>0, <2>1, <2>2 DEF LoginInv
<1>9. CASE \/ RefreshBegins \/ RefreshEnds \/ AsksStatus \/ Synchronizes \/ SyncFails
           \/ ModelsRead
  <2>1. UNCHANGED <<op, attempts, shut>>
    BY <1>9 DEF RefreshBegins, RefreshEnds, AsksStatus, Synchronizes, SyncFails, ModelsRead
  <2>2. RuntimeInv'
    <3>1. CASE RefreshBegins
      BY <1>2, <3>1 DEF RefreshBegins
    <3>2. CASE RefreshEnds
      <4>1. UNCHANGED <<syncs, recorded, known, listed>>
        BY <3>2 DEF RefreshEnds, runtime
      <4>2. CASE UNCHANGED <<owned, revision>>
        BY <1>2, <4>1, <4>2 DEF runtime
      <4>3. CASE revision' = revision + 1 /\ owned' \in {owned, 0}
        <5>1. owned' \in Attempt \cup {0}
          BY <1>1, <4>3 DEF RuntimeInv, RuntimeTypes
        <5> QED
          BY <1>1, <4>1, <4>3, <5>1, RevisionGrows
      <4> QED
        BY <3>2, <4>2, <4>3 DEF RefreshEnds
    <3>3. CASE AsksStatus \/ Synchronizes \/ SyncFails \/ ModelsRead
      BY <1>1, <3>3, StatusAsked, RuntimeTold, RuntimeRead
    <3> QED
      BY <1>9, <3>1, <3>2, <3>3
  <2> QED
    BY <1>0, <1>3, <2>1, <2>2 DEF LoginInv
<1>10. CASE UNCHANGED loginVars
  BY <1>0, <1>2, <1>3, <1>10 DEF loginVars, LoginInv
<1> QED
  BY <1>4, <1>5, <1>6, <1>7, <1>8, <1>9, <1>10 DEF LoginNext

(* At most one listener is open, and for an attempt that is pending or is  *)
(* being started; what a status shows is the pending attempt; nothing is   *)
(* left of a login a command took, nor after close(); and the runtime      *)
(* knows what it was told of the newest credentials (auth.py, login.py).   *)
THEOREM LoginsSettled == LoginSpec => []LoginsAreSettled
<1>1. LoginInit => LoginInv
  BY LoginInvInit
<1>2. LoginInv /\ [LoginNext]_loginVars => LoginInv'
  BY LoginInvNext
<1>3. LoginInv => LoginsAreSettled
  <2> SUFFICES ASSUME LoginInv PROVE LoginsAreSettled
    OBVIOUS
  <2>1. SignInTypes /\ OperationInv /\ RuntimeInv /\ \A a \in Attempt : AttemptInv(a)
    BY DEF LoginInv, SignInInv
  <2>2. \A a \in Attempt : Underway(a) =>
          (current = a \/ (current = 0 /\ op.at = "draining" /\ op.n = a)) /\ op.does # "start"
    BY <2>1, OperationNames DEF AttemptInv, OperationInv
  <2>3. \A a \in Attempt : listener[a] = "open" =>
          Underway(a) \/ (op.does = "start" /\ op.n = a /\ op.at = "publishing" /\ current = 0)
    BY <2>1, OperationNames DEF AttemptInv, OperationInv
  <2>4. Cardinality({a \in Bound : listener[a] # "leaked"}) <= 1
    <3> DEFINE x == IF current # 0 THEN current ELSE op.n
               open == {a \in Bound : listener[a] # "leaked"}
    <3>1. open \subseteq {x}
      BY <2>2, <2>3, OperationNames DEF Bound
    <3>2. IsFiniteSet({x}) /\ Cardinality({x}) = 1
      BY FS_Singleton
    <3> HIDE DEF x, open
    <3>3. IsFiniteSet(open) /\ Cardinality(open) <= 1
      BY <3>1, <3>2, FS_Subset
    <3> QED
      BY <3>3 DEF open
  <2>5. ASSUME NEW a \in Attempt
        PROVE  /\ listener[a] = "open" =>
                    Underway(a) \/ (op.does = "start" /\ op.n = a /\ op.at = "publishing")
               /\ Underway(a) /\ current # a => task[a] = "leaving"
               /\ shut /\ NoOperation => ~Underway(a) /\ listener[a] # "open"
    BY <2>1, <2>2, <2>3, OperationNames DEF AttemptInv, OperationInv, NoOperation
  <2>9. ASSUME NEW a \in Attempt, listener[a] = "leaked"
        PROVE  task[a] = "none" /\ current # a /\ owned # a /\ (display.n = a => op.at = "undoing")
    <3>1. task[a] = "none" /\ a # 0
      BY <2>1, <2>9, OperationNames DEF AttemptInv
    <3>2. current # a
      BY <2>1, <3>1 DEF OperationInv, Underway
    <3>3. owned # a
      BY <3>1 DEF LoginInv, OwnedInv
    <3>4. CASE op.does = "start"
      <4>1. /\ op.at \in {"binding", "publishing", "undoing"} /\ display.n = op.n
            /\ op.at = "binding" => listener[op.n] = "none"
            /\ op.at = "publishing" => listener[op.n] # "leaked"
        BY <2>1, <3>4 DEF OperationInv
      <4> QED
        BY <2>9, <3>1, <3>2, <3>3, <4>1
    <3>5. CASE op.does # "start"
      <4>1. display = NoAttempt \/ display.n = current
        BY <2>1, <3>5 DEF OperationInv
      <4> QED
        BY <3>1, <3>2, <3>3, <4>1, OperationNames
    <3> QED
      BY <3>1, <3>2, <3>3, <3>4, <3>5
  <2>6. Connecting =>
          /\ display.n = current /\ display.address = current
          /\ display.mode = "browser" => listener[current] = "open"
    BY <2>1 DEF Connecting, Underway, OperationInv
  <2>7. NoOperation /\ ~Connecting => display = NoAttempt
    BY <2>1, OperationNames DEF NoOperation, Connecting, OperationInv
  <2>8. syncs = <<>> /\ recorded = revision => IF owned = 0 THEN ~known ELSE known \/ ~listed
    BY <2>1 DEF RuntimeInv, ModelsTold
  <2> QED
    BY <2>4, <2>5, <2>6, <2>7, <2>8, <2>9 DEF LoginsAreSettled, Bound
<1> QED
  BY <1>1, <1>2, <1>3, PTL DEF LoginSpec

-----------------------------------------------------------------------------
(* The credentials that processes share. *)

AccountOperation ==
  [at : {"idle", "locking", "reading", "posting", "writing", "rejected", "removing", "erasing",
         "granting", "storing", "closing"},
   new : Nat]
\* Credentials that were issued; none is known before that.
AccountTypes ==
  /\ issued \in Nat /\ saved \in 0..issued /\ accepted \subseteq 1..issued
  /\ memory \in [Server -> 0..issued]
  /\ refresh \in [Server -> AccountOperation] /\ login \in [Server -> AccountOperation]
  /\ \A p \in Server : refresh[p].new <= issued /\ login[p].new <= issued
  /\ late \subseteq astray /\ late \subseteq 0..issued /\ unlinks \in Nat /\ waits \in Nat

\* Whoever reads, posts or writes has the file locked.
FileLocked(p) ==
  /\ refresh[p].at \in {"reading", "posting", "writing", "rejected", "erasing"} =>
       fileLock = <<p, "refresh">>
  /\ login[p].at = "writing" => fileLock = <<p, "login">>

\* What is saved while a process posts its own token, or writes the answer, is
\* that token, or about to expire, or was written behind the lock; a token that
\* was rejected, or was exchanged, is no longer accepted.
Posted(p) ==
  /\ refresh[p].at \in {"posting", "writing", "rejected"} =>
       saved \in {NoToken, memory[p]} \cup expiring \cup astray
  /\ refresh[p].at \in {"writing", "rejected"} => memory[p] \notin accepted

AccountInv == AccountTypes /\ \A p \in Server : FileLocked(p) /\ Posted(p)

(* The stages of an operation that goes on, or is over.                    *)
LEMMA RefreshGoes ==
  ASSUME AccountTypes, NEW p \in Server,
         NEW at \in {"locking", "reading", "posting", "writing", "rejected", "removing",
                     "erasing"},
         Refreshes(p, at)
  PROVE  /\ refresh' \in [Server -> AccountOperation]
         /\ refresh'[p].at = at /\ refresh'[p].new = refresh[p].new
         /\ \A q \in Server \ {p} : refresh'[q] = refresh[q]
<1>1. /\ refresh \in [Server -> AccountOperation] /\ refresh[p] \in AccountOperation
      /\ refresh' = [refresh EXCEPT ![p].at = at]
  BY DEF AccountTypes, Refreshes
<1>2. /\ refresh'[p] = [refresh[p] EXCEPT !.at = at]
      /\ \A q \in Server \ {p} : refresh'[q] = refresh[q]
  BY <1>1
<1>3. refresh'[p] \in AccountOperation /\ refresh'[p].at = at /\ refresh'[p].new = refresh[p].new
  BY <1>1, <1>2 DEF AccountOperation
<1> QED
  BY <1>1, <1>2, <1>3

(* An operation that rests knows of no new credentials.                    *)
LEMMA RestIsEmpty ==
  AtRest \in AccountOperation /\ AtRest.at = "idle" /\ AtRest.new = 0
BY DEF AtRest, NoToken, AccountOperation

(* A refresh is over.                                                      *)
LEMMA RefreshRests ==
  ASSUME AccountTypes, NEW p \in Server, EndsRefresh(p)
  PROVE  /\ refresh' \in [Server -> AccountOperation]
         /\ refresh'[p].at = "idle" /\ refresh'[p].new = 0
         /\ \A q \in Server \ {p} : refresh'[q] = refresh[q]
BY RestIsEmpty DEF AccountTypes, EndsRefresh

(* A login is over.                                                        *)
LEMMA LoginRests ==
  ASSUME AccountTypes, NEW p \in Server, EndsLogin(p)
  PROVE  /\ login' \in [Server -> AccountOperation]
         /\ login'[p].at = "idle" /\ login'[p].new = 0
         /\ \A q \in Server \ {p} : login'[q] = login[q]
BY RestIsEmpty DEF AccountTypes, EndsLogin

(* A login goes to another stage, with the credentials it brings.          *)
LEMMA LoginGoes ==
  ASSUME AccountTypes, NEW p \in Server, NEW new \in Nat,
         NEW at \in {"idle", "granting", "locking", "writing", "storing", "closing"},
         \/ login' = [login EXCEPT ![p].at = at] /\ new = login[p].new
         \/ login' = [login EXCEPT ![p] = [at |-> at, new |-> new]]
  PROVE  /\ login' \in [Server -> AccountOperation] /\ login'[p].at = at /\ login'[p].new = new
         /\ \A q \in Server \ {p} : login'[q] = login[q]
<1>1. login \in [Server -> AccountOperation] /\ login[p] \in AccountOperation
  BY DEF AccountTypes
<1>2. PICK r \in AccountOperation : r.at = at /\ r.new = new /\ login' = [login EXCEPT ![p] = r]
  <2>1. CASE login' = [login EXCEPT ![p].at = at] /\ new = login[p].new
    <3> DEFINE r == [login[p] EXCEPT !.at = at]
    <3>1. r \in AccountOperation /\ r.at = at /\ r.new = new
      BY <1>1, <2>1 DEF AccountOperation
    <3>2. login' = [login EXCEPT ![p] = r]
      BY <2>1
    <3> QED
      BY <3>1, <3>2
  <2>2. CASE login' = [login EXCEPT ![p] = [at |-> at, new |-> new]]
    <3> DEFINE r == [at |-> at, new |-> new]
    <3>1. r \in AccountOperation /\ r.at = at /\ r.new = new
      BY DEF AccountOperation
    <3> QED
      BY <2>2, <3>1
  <2> QED
    BY <2>1, <2>2
<1> QED
  BY <1>1, <1>2

(* Only the lock of the operation itself is given back.                    *)
LEMMA OthersStayLocked ==
  ASSUME NEW p \in Server, NEW who \in {"refresh", "login"}, Unlocks(p, who),
         NEW q \in Server, NEW by \in {"refresh", "login"}, fileLock = <<q, by>>,
         q # p \/ by # who
  PROVE  fileLock' = fileLock
BY DEF Unlocks

(* A step of one process that leaves the file and the authority alone, or  *)
(* is done by the process that has the file locked.                        *)
LEMMA AccountStep ==
  ASSUME AccountInv, AccountTypes', NEW p \in Server,
         \A q \in Server \ {p} : /\ refresh'[q] = refresh[q] /\ login'[q] = login[q]
                                 /\ memory'[q] = memory[q],
         \A q \in Server \ {p}, by \in {"refresh", "login"} :
           fileLock = <<q, by>> => fileLock' = fileLock,
         expiring \subseteq expiring', astray \subseteq astray',
         accepted' \subseteq accepted \cup {issued + 1},
         saved' = saved \/ \A q \in Server \ {p} : fileLock # <<q, "refresh">>,
         FileLocked(p)', Posted(p)'
  PROVE  AccountInv'
<1>1. ASSUME NEW q \in Server \ {p}
      PROVE  FileLocked(q)' /\ Posted(q)'
  <2>1. FileLocked(q) /\ Posted(q)
    BY DEF AccountInv
  <2>2. FileLocked(q)'
    BY <2>1 DEF FileLocked
  <2>3. refresh[q].at \in {"posting", "writing", "rejected"} => saved' = saved
    BY <2>1 DEF FileLocked
  <2>4. memory[q] # issued + 1
    BY DEF AccountInv, AccountTypes
  <2> QED
    BY <2>1, <2>2, <2>3, <2>4 DEF Posted
<1> QED
  BY <1>1 DEF AccountInv

(* Access and recovery begin a refresh, or take over what is saved.        *)
LEMMA RefreshAsked ==
  ASSUME AccountInv, NEW p \in Server, AccessRefreshes(p) \/ RecoverReloads(p)
  PROVE  AccountInv'
<1>1. /\ AccountTypes /\ FileLocked(p) /\ refresh[p].at = "idle"
      /\ UNCHANGED <<saved, issued, accepted, expiring, login, fileLock, late,
                     astray, unlinks, waits>>
      /\ refresh' = refresh \/ Refreshes(p, "locking")
      /\ memory' = memory \/ memory' = [memory EXCEPT ![p] = saved]
  BY DEF AccountInv, AccessRefreshes, RecoverReloads, authority, threads
<1>2. /\ refresh' \in [Server -> AccountOperation] /\ refresh'[p].at \in {"idle", "locking"}
      /\ refresh'[p].new = refresh[p].new
      /\ \A q \in Server \ {p} : refresh'[q] = refresh[q]
  <2>1. CASE refresh' = refresh
    BY <1>1, <2>1 DEF AccountTypes
  <2>2. CASE Refreshes(p, "locking")
    BY <1>1, <2>2, RefreshGoes
  <2> QED
    BY <1>1, <2>1, <2>2
<1>3. memory' \in [Server -> 0..issued] /\ \A q \in Server \ {p} : memory'[q] = memory[q]
  BY <1>1 DEF AccountTypes
<1>4. AccountTypes'
  BY <1>1, <1>2, <1>3 DEF AccountTypes
<1>5. FileLocked(p)' /\ Posted(p)'
  BY <1>1, <1>2 DEF FileLocked, Posted
<1> QED
  BY <1>1, <1>2, <1>3, <1>4, <1>5, AccountStep

(* A refresh, or a disconnect, gets the file locked.                       *)
LEMMA RefreshGetsLock ==
  ASSUME AccountInv, NEW p \in Server, RefreshLocks(p) \/ DisconnectLocks(p)
  PROVE  AccountInv'
<1>1. PICK at \in {"reading", "erasing"} : Refreshes(p, at)
  BY DEF RefreshLocks, DisconnectLocks
<1>2. /\ AccountTypes /\ FileLocked(p) /\ Free /\ fileLock' = <<p, "refresh">>
      /\ UNCHANGED <<saved, memory, issued, accepted, expiring, login, late,
                     astray, unlinks, waits>>
  BY DEF AccountInv, RefreshLocks, DisconnectLocks, authority, threads
<1>3. /\ refresh' \in [Server -> AccountOperation]
      /\ refresh'[p].at = at /\ refresh'[p].new = refresh[p].new
      /\ \A q \in Server \ {p} : refresh'[q] = refresh[q]
  BY <1>1, <1>2, RefreshGoes
<1>4. AccountTypes'
  BY <1>2, <1>3 DEF AccountTypes
<1>5. \A q \in Server : \A by : fileLock # <<q, by>>
  BY <1>2, AccountAssumption DEF Free, Unlocked
<1>6. FileLocked(p)' /\ Posted(p)'
  BY <1>2, <1>3, <1>5 DEF FileLocked, Posted
<1> QED
  BY <1>2, <1>3, <1>4, <1>5, <1>6, AccountStep

(* What a thread of a cancelled operation is to write was issued.          *)
LEMMA AbandonsKeeps ==
  ASSUME AccountTypes, NEW stage, NEW new \in SUBSET (0..issued), Abandons(stage, new)
  PROVE  /\ late' \subseteq astray' /\ late' \subseteq 0..issued /\ astray \subseteq astray'
         /\ late' \subseteq late \cup new /\ unlinks' \in Nat /\ waits' \in Nat
<1>1. late' = late \cup new /\ astray' = astray \cup new
  BY DEF Abandons
<1>2. unlinks' \in {unlinks, unlinks + 1} /\ waits' \in {waits, waits + 1}
  BY DEF Abandons, AccountTypes
<1> QED
  BY <1>1, <1>2 DEF AccountTypes

(* A refresh that ends without writing: it gives up, takes over what is    *)
(* saved, or is cancelled, and a thread may still write its answer.        *)
LEMMA RefreshIsOver ==
  ASSUME AccountInv, AccountTypes', NEW p \in Server, EndsRefresh(p), Unlocks(p, "refresh"),
         \A q \in Server \ {p} : memory'[q] = memory[q],
         login' = login, expiring' = expiring, astray \subseteq astray',
         accepted' \subseteq accepted \cup {issued + 1},
         saved' = saved \/ fileLock = <<p, "refresh">>
  PROVE  AccountInv'
<1>1. /\ refresh'[p].at = "idle" /\ \A q \in Server \ {p} : refresh'[q] = refresh[q]
  BY RefreshRests DEF AccountInv
<1>2. FileLocked(p)' /\ Posted(p)'
  <2>1. FileLocked(p)
    BY DEF AccountInv
  <2>2. login[p].at = "writing" => fileLock' = <<p, "login">>
    BY <2>1, OthersStayLocked DEF FileLocked
  <2> QED
    BY <1>1, <2>2 DEF FileLocked, Posted
<1>3. \A q \in Server \ {p}, by \in {"refresh", "login"} :
        fileLock = <<q, by>> => fileLock' = fileLock
  BY OthersStayLocked
<1>4. saved' = saved \/ \A q \in Server \ {p} : fileLock # <<q, "refresh">>
  OBVIOUS
<1> QED
  BY <1>1, <1>2, <1>3, <1>4, AccountStep

(* The ways a refresh or a disconnect ends.                                *)
LEMMA RefreshEndsInv ==
  ASSUME AccountInv, NEW p \in Server,
         \/ RefreshGivesUp(p) \/ RefreshWrites(p) \/ RefreshDeletes(p) \/ RefreshCancelled(p)
         \/ DisconnectEnds(p)
  PROVE  AccountInv'
<1>1. AccountTypes /\ FileLocked(p)
  BY DEF AccountInv
<1>2. /\ EndsRefresh(p) /\ Unlocks(p, "refresh") /\ login' = login /\ expiring' = expiring
      /\ refresh[p].at # "idle"
  BY DEF RefreshGivesUp, RefreshWrites, RefreshDeletes, RefreshCancelled, DisconnectEnds,
         authority
<1>3. PICK new \in 0..issued : new = refresh[p].new
  BY <1>1 DEF AccountTypes, AccountOperation
<1>4. /\ refresh' \in [Server -> AccountOperation] /\ refresh'[p].new = 0
      /\ \A q \in Server \ {p} : refresh'[q] = refresh[q]
  BY <1>1, <1>2, RefreshRests
<1>5. CASE RefreshGivesUp(p) \/ RefreshCancelled(p)
  <2>1. \/ issued' = issued /\ accepted' = accepted
        \/ issued' = issued + 1 /\ accepted' = (accepted \ {memory[p]}) \cup {issued + 1}
    BY <1>5 DEF RefreshGivesUp, RefreshCancelled, Renews, Issues
  <2>2. /\ memory' = memory /\ saved' \in 0..issued
        /\ saved' = saved \/ fileLock = <<p, "refresh">>
    BY <1>1, <1>3, <1>5 DEF RefreshGivesUp, RefreshCancelled, AccountTypes, FileLocked
  <2>4. /\ late' \subseteq astray' /\ late' \subseteq 0..issued /\ astray \subseteq astray'
        /\ unlinks' \in Nat /\ waits' \in Nat
    <3>1. CASE RefreshGivesUp(p)
      BY <1>1, <3>1 DEF RefreshGivesUp, threads, AccountTypes
    <3>2. CASE RefreshCancelled(p)
      <4>1. PICK left \in {{}, {new}} : Abandons(refresh[p].at, left)
        BY <1>3, <3>2 DEF RefreshCancelled
      <4> QED
        BY <1>1, <4>1, AbandonsKeeps
    <3> QED
      BY <1>5, <3>1, <3>2
  <2>3. AccountTypes'
    <3>1. /\ issued' \in Nat /\ issued <= issued' /\ accepted' \subseteq 1..issued'
          /\ 0..issued \subseteq 0..issued'
      <4>1. issued \in Nat /\ accepted \subseteq 1..issued
        BY <1>1 DEF AccountTypes
      <4>2. CASE issued' = issued /\ accepted' = accepted
        BY <4>1, <4>2
      <4>3. CASE issued' = issued + 1 /\ accepted' = (accepted \ {memory[p]}) \cup {issued + 1}
        <5>1. 1..issued \subseteq 1..issued' /\ issued + 1 \in 1..issued'
          BY <4>1, <4>3
        <5>2. accepted' \subseteq 1..issued'
          BY <4>1, <4>3, <5>1
        <5> QED
          BY <4>1, <4>3, <5>2
      <4> QED
        BY <2>1, <4>2, <4>3
    <3>2. \A q \in Server : refresh'[q].new <= issued' /\ login'[q].new <= issued'
      <4>1. \A q \in Server : /\ refresh[q].new \in Nat /\ refresh[q].new <= issued
                              /\ login[q].new \in Nat /\ login[q].new <= issued
        BY <1>1 DEF AccountTypes, AccountOperation
      <4> QED
        BY <1>1, <1>2, <1>4, <3>1, <4>1 DEF AccountTypes
    <3> QED
      BY <1>1, <1>2, <1>4, <2>2, <2>4, <3>1, <3>2 DEF AccountTypes
  <2> QED
    BY <1>2, <2>1, <2>2, <2>3, <2>4, RefreshIsOver
<1>6. CASE RefreshWrites(p) \/ RefreshDeletes(p) \/ DisconnectEnds(p)
  <2>1. PICK k \in 0..issued : saved' = k /\ memory' = [memory EXCEPT ![p] = k]
    BY <1>1, <1>3, <1>6 DEF RefreshWrites, RefreshDeletes, DisconnectEnds, NoToken, AccountTypes
  <2>2. UNCHANGED <<issued, accepted, late,
                    astray, unlinks, waits>> /\ fileLock = <<p, "refresh">>
    BY <1>1, <1>6 DEF RefreshWrites, RefreshDeletes, DisconnectEnds, authority, threads, FileLocked
  <2>3. memory' \in [Server -> 0..issued] /\ \A q \in Server \ {p} : memory'[q] = memory[q]
    BY <1>1, <2>1 DEF AccountTypes
  <2>4. AccountTypes'
    BY <1>1, <1>2, <1>4, <2>1, <2>2, <2>3 DEF AccountTypes
  <2> QED
    BY <1>2, <2>2, <2>3, <2>4, RefreshIsOver
<1> QED
  BY <1>5, <1>6

(* Under the lock a process takes over what is saved, if it is good for    *)
(* some time; else what is saved is its own, or about to expire, or no     *)
(* credentials at all.                                                     *)
LEMMA RefreshReadsInv ==
  ASSUME AccountInv, NEW p \in Server, RefreshReads(p)
  PROVE  AccountInv'
<1>1. /\ AccountTypes /\ FileLocked(p) /\ refresh[p].at = "reading"
      /\ UNCHANGED <<saved, issued, accepted, expiring, login, late, astray, unlinks, waits>>
  BY DEF AccountInv, RefreshReads, authority, threads
<1>2. CASE saved \notin {NoToken, memory[p]} /\ saved \notin expiring
  <2>1. memory' = [memory EXCEPT ![p] = saved] /\ EndsRefresh(p) /\ Unlocks(p, "refresh")
    BY <1>2 DEF RefreshReads
  <2>2. /\ refresh' \in [Server -> AccountOperation] /\ refresh'[p].new = 0
        /\ \A q \in Server \ {p} : refresh'[q] = refresh[q]
    BY <1>1, <2>1, RefreshRests
  <2>3. memory' \in [Server -> 0..issued] /\ \A q \in Server \ {p} : memory'[q] = memory[q]
    BY <1>1, <2>1 DEF AccountTypes
  <2>4. AccountTypes'
    BY <1>1, <2>2, <2>3 DEF AccountTypes
  <2> QED
    BY <1>1, <2>1, <2>3, <2>4, RefreshIsOver
<1>3. CASE saved \in {NoToken, memory[p]} \cup expiring
  <2>1. Refreshes(p, "posting") /\ UNCHANGED <<memory, fileLock>>
    BY <1>3 DEF RefreshReads
  <2>2. /\ refresh' \in [Server -> AccountOperation]
        /\ refresh'[p].at = "posting" /\ refresh'[p].new = refresh[p].new
        /\ \A q \in Server \ {p} : refresh'[q] = refresh[q]
    BY <1>1, <2>1, RefreshGoes
  <2>3. AccountTypes'
    BY <1>1, <2>1, <2>2 DEF AccountTypes
  <2>4. FileLocked(p)' /\ Posted(p)'
    BY <1>1, <1>3, <2>1, <2>2 DEF FileLocked, Posted
  <2> QED
    BY <1>1, <2>1, <2>2, <2>3, <2>4, AccountStep
<1> QED
  BY <1>2, <1>3

(* The authority renews the token, or rejects it.                          *)
LEMMA RefreshIsAnswered ==
  ASSUME AccountInv, NEW p \in Server, RefreshAnswered(p) \/ RefreshRejected(p)
  PROVE  AccountInv'
<1>1. /\ AccountTypes /\ FileLocked(p) /\ Posted(p) /\ refresh[p].at = "posting"
      /\ UNCHANGED <<saved, memory, expiring, login, fileLock, late, astray, unlinks, waits>>
  BY DEF AccountInv, RefreshAnswered, RefreshRejected, Renews, authority, threads
<1>2. CASE RefreshAnswered(p)
  <2>1. /\ issued' = issued + 1 /\ accepted' = (accepted \ {memory[p]}) \cup {issued + 1}
        /\ refresh' = [refresh EXCEPT ![p] = [at |-> "writing", new |-> issued + 1]]
    BY <1>2 DEF RefreshAnswered, Renews, Issues
  <2>2. PICK r \in AccountOperation : /\ r.at = "writing" /\ r.new = issued + 1
                                      /\ refresh' = [refresh EXCEPT ![p] = r]
    <3> DEFINE r == [at |-> "writing", new |-> issued + 1]
    <3>1. r \in AccountOperation /\ r.at = "writing" /\ r.new = issued + 1
      BY <1>1 DEF AccountOperation, AccountTypes
    <3> QED
      BY <2>1, <3>1
  <2>3. /\ refresh' \in [Server -> AccountOperation] /\ refresh'[p] = r
        /\ \A q \in Server \ {p} : refresh'[q] = refresh[q]
    BY <1>1, <2>2 DEF AccountTypes
  <2>4. issued \in Nat /\ \A q \in Server : refresh'[q].new \in Nat /\ login[q].new \in Nat
    BY <1>1, <2>3 DEF AccountTypes, AccountOperation
  <2>5. /\ memory' \in [Server -> 0..issued'] /\ saved' \in 0..issued'
        /\ accepted' \subseteq 1..issued' /\ late' \subseteq 0..issued'
    <3>1. 0..issued \subseteq 0..issued' /\ 1..issued \subseteq 1..issued' /\ issued' \in 1..issued'
      BY <2>1, <2>4
    <3> QED
      BY <1>1, <2>1, <3>1 DEF AccountTypes
  <2>6. \A q \in Server : refresh'[q].new <= issued' /\ login'[q].new <= issued'
    BY <1>1, <2>1, <2>2, <2>3, <2>4 DEF AccountTypes
  <2>7. AccountTypes'
    BY <1>1, <2>1, <2>3, <2>4, <2>5, <2>6 DEF AccountTypes
  <2>8. memory[p] \notin accepted'
    BY <1>1, <2>1 DEF AccountTypes
  <2>9. FileLocked(p)' /\ Posted(p)'
    BY <1>1, <2>2, <2>3, <2>8 DEF FileLocked, Posted
  <2> QED
    BY <1>1, <2>1, <2>3, <2>7, <2>9, AccountStep
<1>3. CASE RefreshRejected(p)
  <2>1. memory[p] \notin accepted /\ Refreshes(p, "rejected") /\ UNCHANGED <<issued, accepted>>
    BY <1>3 DEF RefreshRejected, authority
  <2>2. /\ refresh' \in [Server -> AccountOperation]
        /\ refresh'[p].at = "rejected" /\ refresh'[p].new = refresh[p].new
        /\ \A q \in Server \ {p} : refresh'[q] = refresh[q]
    BY <1>1, <2>1, RefreshGoes
  <2>3. AccountTypes'
    BY <1>1, <2>1, <2>2 DEF AccountTypes
  <2>4. FileLocked(p)' /\ Posted(p)'
    BY <1>1, <2>1, <2>2 DEF FileLocked, Posted
  <2> QED
    BY <1>1, <2>1, <2>2, <2>3, <2>4, AccountStep
<1> QED
  BY <1>2, <1>3

(* A thread of a cancelled operation writes the file, or deletes it,       *)
(* behind the lock.                                                        *)
LEMMA LateFileInv ==
  ASSUME AccountInv, LateDelete \/ \E k : LateWrite(k)
  PROVE  AccountInv'
<1>1. PICK k : /\ AccountTypes /\ saved' = k /\ k \in {0} \cup late
               /\ late' \subseteq late /\ unlinks' \in Nat
               /\ UNCHANGED <<astray, waits, memory, issued, accepted, expiring, refresh, login,
                             fileLock>>
  BY DEF AccountInv, AccountTypes, LateWrite, LateDelete, NoToken, authority
<1>2. k \in 0..issued /\ k \in {NoToken} \cup astray
  BY <1>1 DEF AccountTypes, NoToken
<1>3. AccountTypes'
  BY <1>1, <1>2 DEF AccountTypes
<1>4. ASSUME NEW p \in Server PROVE FileLocked(p)' /\ Posted(p)'
  <2>1. FileLocked(p) /\ Posted(p)
    BY DEF AccountInv
  <2> QED
    BY <1>1, <1>2, <2>1 DEF FileLocked, Posted
<1> QED
  BY <1>3, <1>4 DEF AccountInv

(* A thread that nobody waits for gets the lock if it is free, and gives   *)
(* it back.                                                                *)
LEMMA StrayInv ==
  ASSUME AccountInv, StrayLocks \/ StrayUnlocks
  PROVE  AccountInv'
<1>1. /\ AccountTypes /\ waits' \in Nat
      /\ UNCHANGED <<saved, memory, issued, accepted, expiring, refresh, login, late, astray,
                    unlinks>>
      /\ fileLock' = fileLock \/ \A p \in Server : \A by : fileLock # <<p, by>>
  BY AccountAssumption
  DEF AccountInv, AccountTypes, StrayLocks, StrayUnlocks, Free, Unlocked, authority, threads
<1>2. AccountTypes'
  BY <1>1 DEF AccountTypes
<1>3. ASSUME NEW p \in Server PROVE FileLocked(p)' /\ Posted(p)'
  <2>1. FileLocked(p) /\ Posted(p)
    BY DEF AccountInv
  <2> QED
    BY <1>1, <2>1 DEF FileLocked, Posted
<1> QED
  BY <1>2, <1>3 DEF AccountInv

(* Credentials come close to their end.                                    *)
LEMMA ExpiresInv ==
  ASSUME AccountInv, NEW k, Expires(k)
  PROVE  AccountInv'
<1>1. /\ AccountTypes /\ expiring \subseteq expiring'
      /\ UNCHANGED <<saved, memory, issued, accepted, refresh, login, fileLock, late,
                     astray, unlinks, waits>>
  BY DEF AccountInv, Expires, threads
<1>2. AccountTypes'
  BY <1>1 DEF AccountTypes
<1>3. ASSUME NEW p \in Server PROVE FileLocked(p)' /\ Posted(p)'
  <2>1. FileLocked(p) /\ Posted(p)
    BY DEF AccountInv
  <2> QED
    BY <1>1, <2>1 DEF FileLocked, Posted
<1> QED
  BY <1>2, <1>3 DEF AccountInv

(* A login that moves, and has the file locked if it is to write.          *)
LEMMA LoginMoves ==
  ASSUME AccountInv, NEW p \in Server,
         NEW at \in {"idle", "granting", "locking", "writing", "storing", "closing"},
         NEW new \in Nat, new <= issued',
         \/ login' = [login EXCEPT ![p].at = at] /\ new = login[p].new
         \/ login' = [login EXCEPT ![p] = [at |-> at, new |-> new]],
         \/ issued' = issued /\ accepted' = accepted
         \/ issued' = issued + 1 /\ accepted' = accepted \cup {issued + 1},
         UNCHANGED <<saved, memory, expiring, refresh>>,
         astray \subseteq astray', late' \subseteq astray',
         late' \subseteq late \cup {login[p].new}, unlinks' \in Nat, waits' \in Nat,
         \/ at # "writing" /\ (fileLock' = fileLock \/ Unlocks(p, "login"))
         \/ at = "writing" /\ Free /\ fileLock' = <<p, "login">>
  PROVE  AccountInv'
<1>1. AccountTypes /\ FileLocked(p) /\ Posted(p) /\ issued \in Nat
  BY DEF AccountInv, AccountTypes
<1>2. /\ login' \in [Server -> AccountOperation] /\ login'[p].at = at /\ login'[p].new = new
      /\ \A q \in Server \ {p} : login'[q] = login[q]
  BY <1>1, LoginGoes
<1>3. \A q \in Server : /\ refresh[q].new \in Nat /\ refresh[q].new <= issued
                        /\ login[q].new \in Nat /\ login[q].new <= issued
  BY <1>1 DEF AccountTypes, AccountOperation
<1>4. issued' \in Nat /\ issued <= issued' /\ 0..issued \subseteq 0..issued'
  BY <1>1
<1>5. accepted' \subseteq 1..issued'
  BY <1>1 DEF AccountTypes
<1>6. login[p].new \in 0..issued'
  BY <1>3, <1>4
<1>7. \A q \in Server : login'[q].new <= issued' /\ refresh'[q].new <= issued'
  <2>1. ASSUME NEW q \in Server PROVE login'[q].new <= issued' /\ refresh'[q].new <= issued'
    <3>1. refresh[q].new <= issued' /\ login[q].new <= issued'
      BY <1>1, <1>3, <1>4
    <3> QED
      BY <1>2, <3>1
  <2> QED
    BY <2>1
<1>8. AccountTypes'
  BY <1>1, <1>2, <1>4, <1>5, <1>6, <1>7 DEF AccountTypes
<1>9. Posted(p)'
  <2>1. memory[p] # issued + 1
    BY <1>1 DEF AccountTypes
  <2> QED
    BY <1>1, <2>1 DEF Posted
<1>10. CASE at = "writing"
  <2>1. \A q \in Server : \A by : fileLock # <<q, by>>
    BY <1>10, AccountAssumption DEF Free, Unlocked
  <2>2. FileLocked(p)'
    BY <1>1, <1>2, <1>10, <2>1 DEF FileLocked
  <2> QED
    BY <1>2, <1>8, <1>9, <2>1, <2>2, AccountStep
<1>11. CASE at # "writing"
  <2>1. \A q \in Server, by \in {"refresh", "login"} :
          fileLock = <<q, by>> /\ (q # p \/ by # "login") => fileLock' = fileLock
    BY <1>11, OthersStayLocked
  <2>2. FileLocked(p)'
    BY <1>1, <1>2, <1>11, <2>1 DEF FileLocked
  <2>3. \A q \in Server \ {p}, by \in {"refresh", "login"} :
          fileLock = <<q, by>> => fileLock' = fileLock
    BY <2>1
  <2> QED
    BY <1>2, <1>8, <1>9, <2>2, <2>3, AccountStep
<1> QED
  BY <1>10, <1>11

(* A login that begins, is granted, fails, waits for the lock, or is cut   *)
(* short.                                                                  *)
LEMMA LoginSteps ==
  ASSUME AccountInv, NEW p \in Server,
         \/ LoginStarts(p) \/ LoginGranted(p) \/ LoginLocks(p)
         \/ LoginFails(p) /\ login[p].at # "writing"
         \/ CancelLogin(p) \/ DisconnectBegins(p)
  PROVE  AccountInv'
<1>1. /\ AccountTypes /\ issued \in Nat /\ late \subseteq astray
      /\ unlinks \in Nat /\ waits \in Nat
  BY DEF AccountInv, AccountTypes
<1>2. login[p].new \in Nat /\ login[p].new <= issued
  BY <1>1 DEF AccountTypes, AccountOperation
<1>3. CASE LoginStarts(p)
  <2>1. /\ login' = [login EXCEPT ![p].at = "granting"]
        /\ UNCHANGED <<saved, memory, issued, accepted, expiring, refresh, fileLock, late,
                       astray, unlinks, waits>>
    BY <1>3 DEF LoginStarts, authority, threads
  <2> QED
    BY <1>1, <1>2, <2>1, LoginMoves
<1>4. CASE LoginGranted(p)
  <2>1. /\ login' = [login EXCEPT ![p] = [at |-> "locking", new |-> issued + 1]]
        /\ issued' = issued + 1 /\ accepted' = accepted \cup {issued + 1}
        /\ UNCHANGED <<saved, memory, expiring, refresh, fileLock, late,
                       astray, unlinks, waits>>
    BY <1>4 DEF LoginGranted, Issues, threads
  <2>2. issued + 1 \in Nat /\ issued + 1 <= issued'
    BY <1>1, <2>1
  <2> QED
    BY <1>1, <2>1, <2>2, LoginMoves
<1>5. CASE LoginFails(p) /\ login[p].at # "writing"
  <2>1. /\ login' = [login EXCEPT ![p] = [at |-> "idle", new |-> 0]] /\ Unlocks(p, "login")
        /\ UNCHANGED <<saved, memory, issued, accepted, expiring, refresh, late, astray, unlinks,
                      waits>>
    BY <1>5 DEF LoginFails, EndsLogin, AtRest, NoToken, authority, threads
  <2>2. 0 \in Nat /\ 0 <= issued'
    BY <1>1, <2>1
  <2> QED
    BY <1>1, <2>1, <2>2, LoginMoves
<1>6. CASE LoginLocks(p)
  <2>1. /\ login' = [login EXCEPT ![p].at = "writing"] /\ Free /\ fileLock' = <<p, "login">>
        /\ UNCHANGED <<saved, memory, issued, accepted, expiring, refresh, late,
                       astray, unlinks, waits>>
    BY <1>6 DEF LoginLocks, authority, threads
  <2> QED
    BY <1>1, <1>2, <2>1, LoginMoves
<1>7. CASE CancelLogin(p) \/ DisconnectBegins(p)
  <2>1. PICK next \in {"idle", "closing"} : LoginCut(p, next)
    BY <1>7 DEF CancelLogin, DisconnectBegins
  <2>2. /\ login' = [login EXCEPT ![p] = [at |-> next, new |-> 0]] /\ Unlocks(p, "login")
        /\ UNCHANGED <<saved, memory, issued, accepted, expiring, refresh>>
        /\ astray \subseteq astray' /\ late' \subseteq astray'
        /\ late' \subseteq late \cup {login[p].new} /\ unlinks' \in Nat /\ waits' \in Nat
    <3>1. PICK left \in {{}, {login[p].new}} : Abandons(login[p].at, left)
      BY <2>1 DEF LoginCut
    <3>2. left \in SUBSET (0..issued)
      BY <1>1, <1>2
    <3> QED
      BY <1>1, <2>1, <3>1, <3>2, AbandonsKeeps DEF LoginCut, NoToken, authority
  <2>3. 0 \in Nat /\ 0 <= issued'
    BY <1>1, <2>2
  <2> QED
    BY <2>2, <2>3, LoginMoves
<1> QED
  BY <1>3, <1>4, <1>5, <1>6, <1>7

(* A login writes what it was granted, or fails in that, and the process   *)
(* takes it over.                                                          *)
LEMMA LoginSaves ==
  ASSUME AccountInv, NEW p \in Server,
         \/ LoginWrites(p) \/ LoginStores(p)
         \/ LoginFails(p) /\ login[p].at = "writing"
  PROVE  AccountInv'
<1>1. /\ AccountTypes /\ FileLocked(p) /\ Posted(p)
      /\ UNCHANGED <<issued, accepted, expiring, refresh, late, astray, unlinks, waits>>
  BY DEF AccountInv, LoginWrites, LoginStores, LoginFails, authority, threads
<1>2. login[p].new \in 0..issued /\ login[p] \in AccountOperation
  BY <1>1 DEF AccountTypes, AccountOperation
<1>3. CASE LoginWrites(p) \/ (LoginFails(p) /\ login[p].at = "writing")
  <2>1. /\ login[p].at = "writing" /\ saved' \in {saved, login[p].new} /\ Unlocks(p, "login")
        /\ memory' = memory
    BY <1>3 DEF LoginWrites, LoginFails
  <2>2. /\ login' \in [Server -> AccountOperation] /\ login'[p].at # "writing"
        /\ login'[p].new \in 0..issued /\ \A q \in Server \ {p} : login'[q] = login[q]
    <3>1. CASE LoginWrites(p)
      <4>1. login' = [login EXCEPT ![p].at = "storing"]
        BY <3>1 DEF LoginWrites
      <4> QED
        BY <1>1, <1>2, <4>1, LoginGoes DEF AccountOperation
    <3>2. CASE LoginFails(p)
      <4>1. EndsLogin(p) /\ 0 \in 0..issued
        BY <1>1, <3>2 DEF LoginFails, AccountTypes
      <4> QED
        BY <1>1, <4>1, LoginRests
    <3> QED
      BY <1>3, <3>1, <3>2
  <2>3. fileLock = <<p, "login">> /\ \A q \in Server : fileLock # <<q, "refresh">>
    BY <1>1, <2>1 DEF FileLocked
  <2>4. AccountTypes'
    BY <1>1, <1>2, <2>1, <2>2 DEF AccountTypes
  <2>5. refresh[p].at \notin {"reading", "posting", "writing", "rejected", "erasing"}
    BY <1>1, <2>3 DEF FileLocked
  <2>6. FileLocked(p)' /\ Posted(p)'
    BY <1>1, <2>2, <2>5 DEF FileLocked, Posted
  <2>7. \A q \in Server \ {p}, by \in {"refresh", "login"} :
          fileLock = <<q, by>> => fileLock' = fileLock
    BY <2>3
  <2> QED
    BY <1>1, <2>1, <2>2, <2>3, <2>4, <2>6, <2>7, AccountStep
<1>4. CASE LoginStores(p)
  <2>1. /\ refresh[p].at = "idle" /\ memory' = [memory EXCEPT ![p] = login[p].new]
        /\ EndsLogin(p) /\ saved' = saved /\ fileLock' = fileLock
    BY <1>4 DEF LoginStores
  <2>2. /\ login' \in [Server -> AccountOperation] /\ login'[p].at = "idle"
        /\ login'[p].new = 0 /\ \A q \in Server \ {p} : login'[q] = login[q]
    BY <1>1, <2>1, LoginRests
  <2>3. memory' \in [Server -> 0..issued] /\ \A q \in Server \ {p} : memory'[q] = memory[q]
    BY <1>1, <1>2, <2>1 DEF AccountTypes
  <2>4. AccountTypes'
    BY <1>1, <2>1, <2>2, <2>3 DEF AccountTypes
  <2>5. FileLocked(p)' /\ Posted(p)'
    BY <1>1, <2>1, <2>2 DEF FileLocked, Posted
  <2> QED
    BY <1>1, <2>1, <2>2, <2>3, <2>4, <2>5, AccountStep
<1> QED
  BY <1>3, <1>4

(* A disconnect revokes the token of its process, or is cancelled then.    *)
LEMMA DisconnectRevokesInv ==
  ASSUME AccountInv, NEW p \in Server, DisconnectRevokes(p) \/ DisconnectCancelled(p)
  PROVE  AccountInv'
<1>1. /\ AccountTypes /\ FileLocked(p) /\ Posted(p) /\ EndsLogin(p)
      /\ accepted' \subseteq accepted
      /\ UNCHANGED <<saved, memory, issued, expiring, fileLock, late, astray, unlinks, waits>>
      /\ \/ Refreshes(p, "removing")
         \/ refresh' = refresh
      /\ login[p].at = "closing"
  BY DEF AccountInv, DisconnectRevokes, DisconnectCancelled, threads
<1>2. /\ refresh' \in [Server -> AccountOperation]
      /\ refresh'[p].at = "removing" \/ refresh'[p].at = refresh[p].at
      /\ refresh'[p].new = refresh[p].new
      /\ \A q \in Server \ {p} : refresh'[q] = refresh[q]
  <2>1. CASE Refreshes(p, "removing")
    BY <1>1, <2>1, RefreshGoes
  <2>2. CASE refresh' = refresh
    BY <1>1, <2>2 DEF AccountTypes
  <2> QED
    BY <1>1, <2>1, <2>2
<1>3. /\ login' \in [Server -> AccountOperation] /\ login'[p].at = "idle"
      /\ login'[p].new = 0 /\ \A q \in Server \ {p} : login'[q] = login[q]
  BY <1>1, LoginRests
<1>4. AccountTypes'
  BY <1>1, <1>2, <1>3 DEF AccountTypes
<1>5. FileLocked(p)' /\ Posted(p)'
  BY <1>1, <1>2, <1>3 DEF FileLocked, Posted
<1> QED
  BY <1>1, <1>2, <1>3, <1>4, <1>5, AccountStep

(* In the beginning every process knows the credentials that are saved.    *)
LEMMA AccountInvInit ==
  ASSUME AccountInit
  PROVE  AccountInv
<1>1. /\ issued = 1 /\ saved = 1 /\ accepted = {1} /\ late = {} /\ astray = {}
      /\ unlinks = 0 /\ waits = 0
      /\ memory = [p \in Server |-> 1]
      /\ refresh = [p \in Server |-> AtRest] /\ login = [p \in Server |-> AtRest]
  BY DEF AccountInit
<1>2. AccountTypes
  BY <1>1, RestIsEmpty DEF AccountTypes
<1>3. \A p \in Server : FileLocked(p) /\ Posted(p)
  BY <1>1, RestIsEmpty DEF FileLocked, Posted
<1> QED
  BY <1>2, <1>3 DEF AccountInv

(* Every step keeps the invariant.                                         *)
LEMMA AccountInvNext ==
  ASSUME AccountInv, [AccountNext]_accountVars
  PROVE  AccountInv'
<1>1. CASE \E k \in Credential : Expires(k) \/ LateWrite(k)
  BY <1>1, ExpiresInv, LateFileInv
<1>2. ASSUME NEW p \in Server,
             \/ AccessRefreshes(p) \/ RecoverReloads(p) \/ RefreshLocks(p) \/ RefreshGivesUp(p)
             \/ RefreshReads(p) \/ RefreshAnswered(p) \/ RefreshWrites(p) \/ RefreshRejected(p)
             \/ RefreshDeletes(p) \/ RefreshCancelled(p)
      PROVE  AccountInv'
  BY <1>2, RefreshAsked, RefreshGetsLock, RefreshEndsInv, RefreshReadsInv, RefreshIsAnswered
<1>3. ASSUME NEW p \in Server,
             \/ LoginStarts(p) \/ LoginGranted(p) \/ LoginFails(p) \/ LoginLocks(p)
             \/ LoginWrites(p) \/ LoginStores(p) \/ CancelLogin(p)
             \/ DisconnectBegins(p) \/ DisconnectRevokes(p) \/ DisconnectCancelled(p)
             \/ DisconnectLocks(p) \/ DisconnectEnds(p)
      PROVE  AccountInv'
  BY <1>3, LoginSteps, LoginSaves, DisconnectRevokesInv, RefreshGetsLock, RefreshEndsInv
<1>4. CASE UNCHANGED accountVars
  <2>1. AccountTypes'
    BY <1>4 DEF accountVars, threads, AccountInv, AccountTypes
  <2>2. ASSUME NEW p \in Server PROVE FileLocked(p)' /\ Posted(p)'
    <3>1. FileLocked(p) /\ Posted(p)
      BY DEF AccountInv
    <3> QED
      BY <1>4, <3>1 DEF accountVars, threads, FileLocked, Posted
  <2> QED
    BY <2>1, <2>2 DEF AccountInv
<1>5. CASE LateDelete \/ StrayLocks \/ StrayUnlocks
  BY <1>5, LateFileInv, StrayInv
<1> QED
  BY <1>1, <1>2, <1>3, <1>4, <1>5 DEF AccountNext, AccountDone

(* What replaces or removes the saved credentials, if it is neither a      *)
(* login, nor a disconnect, nor a thread of a cancelled request, is a      *)
(* refresh that writes or deletes.                                         *)
LEMMA WhoWrites ==
  ASSUME AccountTypes, [AccountNext]_accountVars, saved' # saved
  PROVE  \/ \E p \in Server : login[p].at = "writing" /\ login'[p].at # "writing"
         \/ \E p \in Server : refresh[p].at = "erasing" /\ refresh'[p].at = "idle"
         \/ late \ late' # {} \/ unlinks' < unlinks
         \/ \E p \in Server : refresh[p].at \in {"writing", "rejected"}
<1>1. CASE \E k \in Credential : Expires(k) \/ LateWrite(k)
  BY <1>1 DEF Expires, LateWrite
<1>2. CASE LateDelete \/ StrayLocks \/ StrayUnlocks
  BY <1>2 DEF LateDelete, StrayLocks, StrayUnlocks, AccountTypes
<1>3. ASSUME NEW p \in Server,
             \/ AccessRefreshes(p) \/ RecoverReloads(p) \/ RefreshLocks(p) \/ RefreshReads(p)
             \/ RefreshAnswered(p) \/ RefreshRejected(p) \/ RefreshCancelled(p)
             \/ LoginStarts(p) \/ LoginGranted(p) \/ LoginLocks(p) \/ LoginStores(p)
             \/ CancelLogin(p) \/ DisconnectBegins(p) \/ DisconnectRevokes(p)
             \/ DisconnectCancelled(p) \/ DisconnectLocks(p)
      PROVE  FALSE
  BY <1>3
  DEF AccessRefreshes, RecoverReloads, RefreshLocks, RefreshReads, RefreshAnswered,
      RefreshRejected, RefreshCancelled, LoginStarts, LoginGranted, LoginLocks, LoginStores,
      CancelLogin, DisconnectBegins, LoginCut, DisconnectRevokes, DisconnectCancelled,
      DisconnectLocks
<1>4. ASSUME NEW p \in Server, RefreshGivesUp(p) \/ RefreshWrites(p) \/ RefreshDeletes(p)
      PROVE  refresh[p].at \in {"writing", "rejected"}
  BY <1>4 DEF RefreshGivesUp, RefreshWrites, RefreshDeletes
<1>5. ASSUME NEW p \in Server, DisconnectEnds(p)
      PROVE  refresh[p].at = "erasing" /\ refresh'[p].at = "idle"
  BY <1>5, RefreshRests DEF DisconnectEnds
<1>6. ASSUME NEW p \in Server, LoginWrites(p) \/ LoginFails(p)
      PROVE  login[p].at = "writing" /\ login'[p].at # "writing"
  <2>1. login[p].at = "writing"
    BY <1>6 DEF LoginWrites, LoginFails
  <2>2. CASE LoginWrites(p)
    <3>1. login' = [login EXCEPT ![p].at = "storing"] /\ login[p] \in AccountOperation
      BY <2>2 DEF LoginWrites, AccountTypes
    <3> QED
      BY <2>1, <3>1, LoginGoes DEF AccountOperation
  <2>3. CASE LoginFails(p)
    BY <2>1, <2>3, LoginRests DEF LoginFails
  <2> QED
    BY <1>6, <2>1, <2>2, <2>3
<1>7. CASE UNCHANGED accountVars \/ AccountDone
  BY <1>7 DEF accountVars, AccountDone
<1> QED
  BY <1>1, <1>2, <1>3, <1>4, <1>5, <1>6, <1>7 DEF AccountNext

(* Only a login, a disconnect or a thread of a cancelled request replaces  *)
(* or removes credentials the authority would still renew, unless they     *)
(* were about to expire or were written behind the lock (auth.py           *)
(* _refresh_locked).                                                       *)
THEOREM GoodTokensSurvive == AccountSpec => GoodTokenSurvives
<1> DEFINE Survives ==
      saved' # saved /\ saved \in accepted
        => \/ \E p \in Server : login[p].at = "writing" /\ login'[p].at # "writing"
           \/ \E p \in Server : refresh[p].at = "erasing" /\ refresh'[p].at = "idle"
           \/ late \ late' # {} \/ unlinks' < unlinks
           \/ saved \in expiring \cup astray
<1>1. AccountInit => AccountInv
  BY AccountInvInit
<1>2. AccountInv /\ [AccountNext]_accountVars => AccountInv'
  BY AccountInvNext
<1>3. AccountInv /\ [AccountNext]_accountVars => [Survives]_accountVars
  <2>1. AccountInv /\ saved \in accepted
          => \A p \in Server : refresh[p].at \in {"writing", "rejected"}
                => saved \in expiring \cup astray
    BY DEF AccountInv, AccountTypes, Posted, NoToken
  <2> QED
    BY <2>1, WhoWrites DEF AccountInv
<1> QED
  BY <1>1, <1>2, <1>3, PTL DEF AccountSpec, GoodTokenSurvives

-----------------------------------------------------------------------------
(* How a chat request is made acceptable. *)

Body == [tokens : 1..Asked, fields : SUBSET Refusable]
ChatRequest ==
  [at : {"new", "ready", "sent", "done", "failed"}, body : Body,
   used : SUBSET {"usage", "specific"}, sends : Nat, key : 0..NumKeys,
   rejected : SUBSET Body, named : SUBSET Refusable, left : 0..NumKeys, lone : BOOLEAN]
KeyPool == [index : 1..NumKeys, calls : Nat, spree : Nat]
Caps == [learned : 1..Asked \cup {NoCap}, reported : SUBSET (1..Asked)]

FallbackTypes ==
  /\ vendor \in {"plain", "nim", "mistral"} /\ caps \in Caps /\ keys \in KeyPool
  /\ outbound \in [Sender -> ChatRequest]

\* The least of the limits an upstream named is known.
CapsInv ==
  /\ caps.learned = NoCap <=> caps.reported = {}
  /\ caps.reported # {} =>
       caps.learned \in caps.reported /\ \A c \in caps.reported : caps.learned <= c

\* A key is not used more often in a row than the pool counts.
KeysInv == keys.calls < Quota /\ keys.spree <= keys.calls + 1

\* A body only shrinks, so one that was refused does not come back by itself.
BodyFits(s) ==
  /\ outbound[s].body.tokens \in {Asked} \cup caps.reported
  /\ Offered \ outbound[s].body.fields \subseteq UNION {With(f) : f \in outbound[s].named}
  /\ \A b \in outbound[s].rejected :
       /\ outbound[s].body.tokens <= b.tokens
       /\ outbound[s].body.fields \subseteq b.fields
  /\ outbound[s].body \notin outbound[s].rejected

\* A request that gave up a key finds the pool as it left it.
KeyFits(s) ==
  /\ outbound[s].at = "sent" /\ outbound[s].lone => outbound[s].key # outbound[s].left
  /\ outbound[s].at = "ready" /\ outbound[s].lone =>
       keys.index # outbound[s].left /\ keys.calls = 0
  /\ outbound[s].at \notin {"ready", "sent"} => ~outbound[s].lone

SenderInv(s) == BodyFits(s) /\ KeyFits(s)

FallbackInv ==
  FallbackTypes /\ CapsInv /\ KeysInv /\ \A s \in Sender : SenderInv(s)

(* The record of a request after a step: its own, and that of another one  *)
(* that knows whether the pool was used.                                   *)
LEMMA SenderGets ==
  ASSUME FallbackTypes, NEW s \in Sender, NEW r \in ChatRequest,
         \/ outbound' = [outbound EXCEPT ![s] = r]
         \/ outbound' = Touched([outbound EXCEPT ![s] = r], s)
  PROVE  /\ outbound' \in [Sender -> ChatRequest] /\ outbound'[s] = r
         /\ \A t \in Sender \ {s} :
              /\ outbound'[t] = outbound[t] \/ outbound'[t] = [outbound[t] EXCEPT !.lone = FALSE]
              /\ outbound' = Touched([outbound EXCEPT ![s] = r], s) => ~outbound'[t].lone
<1>1. outbound \in [Sender -> ChatRequest]
  BY DEF FallbackTypes
<1>2. CASE outbound' = [outbound EXCEPT ![s] = r] /\ outbound' # Touched([outbound EXCEPT ![s] = r], s)
  BY <1>1, <1>2
<1>3. CASE outbound' = Touched([outbound EXCEPT ![s] = r], s)
  <2>1. ASSUME NEW q \in ChatRequest
        PROVE  [q EXCEPT !.lone = FALSE] \in ChatRequest /\ ~[q EXCEPT !.lone = FALSE].lone
    BY DEF ChatRequest
  <2>2. /\ outbound'[s] = r
        /\ \A t \in Sender \ {s} : outbound'[t] = [outbound[t] EXCEPT !.lone = FALSE]
        /\ outbound' = [t \in Sender |-> outbound'[t]]
    BY <1>1, <1>3 DEF Touched
  <2>3. ASSUME NEW t \in Sender \ {s}
        PROVE  outbound'[t] \in ChatRequest /\ ~outbound'[t].lone
    <3>1. outbound[t] \in ChatRequest
      BY <1>1
    <3>2. outbound'[t] = [outbound[t] EXCEPT !.lone = FALSE]
      BY <2>2
    <3> QED
      BY <2>1, <3>1, <3>2
  <2>4. outbound' \in [Sender -> ChatRequest]
    BY <2>2, <2>3
  <2> QED
    BY <2>2, <2>3, <2>4
<1> QED
  BY <1>2, <1>3

(* A body that stays as it was fits as before.                             *)
LEMMA SameBodyFits ==
  ASSUME NEW s \in Sender, BodyFits(s), vendor' = vendor, caps.reported \subseteq caps'.reported,
         outbound'[s].body = outbound[s].body, outbound'[s].rejected = outbound[s].rejected,
         outbound'[s].named = outbound[s].named
  PROVE  BodyFits(s)'
<1>1. Offered' = Offered /\ \A f : With(f)' = With(f)
  BY DEF Offered, With
<1>2. UNION {With(f)' : f \in outbound'[s].named} = UNION {With(f) : f \in outbound[s].named}
  BY <1>1
<1> QED
  BY <1>1, <1>2 DEF BodyFits

(* The body a request begins with fits.                                    *)
LEMMA NewBodyFits ==
  ASSUME NEW s \in Sender, vendor' = vendor, outbound'[s].rejected = {},
         outbound'[s].body = [tokens |-> Asked, fields |-> Offered]
  PROVE  BodyFits(s)'
<1>1. Offered' = Offered
  BY DEF Offered
<1>2. outbound'[s].body.tokens = Asked /\ outbound'[s].body.fields = Offered
  OBVIOUS
<1> QED
  BY <1>1, <1>2 DEF BodyFits

(* A step of one request: what the others keep of their claims.            *)
LEMMA SenderStepKeeps ==
  ASSUME FallbackInv, NEW s \in Sender, NEW r \in ChatRequest, vendor' = vendor,
         \/ outbound' = [outbound EXCEPT ![s] = r] /\ keys' = keys
         \/ outbound' = Touched([outbound EXCEPT ![s] = r], s),
         caps' \in Caps, CapsInv', caps.reported \subseteq caps'.reported,
         keys' \in KeyPool, KeysInv',
         SenderInv(s)'
  PROVE  FallbackInv'
<1>1. /\ FallbackTypes /\ outbound' \in [Sender -> ChatRequest]
      /\ \A t \in Sender \ {s} :
           /\ outbound'[t] = outbound[t] \/ outbound'[t] = [outbound[t] EXCEPT !.lone = FALSE]
           /\ keys' = keys \/ ~outbound'[t].lone
  BY SenderGets DEF FallbackInv
<1>2. ASSUME NEW t \in Sender \ {s} PROVE SenderInv(t)'
  <2>1. SenderInv(t) /\ outbound[t] \in ChatRequest
    BY <1>1 DEF FallbackInv, FallbackTypes
  <2>2. /\ outbound'[t].at = outbound[t].at /\ outbound'[t].body = outbound[t].body
        /\ outbound'[t].rejected = outbound[t].rejected /\ outbound'[t].named = outbound[t].named
        /\ outbound'[t].key = outbound[t].key /\ outbound'[t].left = outbound[t].left
        /\ outbound'[t].lone => outbound[t].lone
    BY <1>1, <2>1 DEF ChatRequest
  <2>3. outbound'[t].lone => keys' = keys
    BY <1>1
  <2>4. BodyFits(t)'
    BY <2>1, <2>2, SameBodyFits DEF SenderInv
  <2>5. KeyFits(t)'
    BY <2>1, <2>2, <2>3 DEF SenderInv, KeyFits
  <2> QED
    BY <2>4, <2>5 DEF SenderInv
<1>3. FallbackTypes'
  BY <1>1 DEF FallbackTypes
<1> QED
  BY <1>2, <1>3 DEF FallbackInv

(* A body that shrank is none of those refused before, unless it did not.  *)
LEMMA SmallerIsFresh ==
  ASSUME NEW old \in Body, NEW b \in Body, NEW x \in Body,
         b.tokens <= old.tokens, b.fields \subseteq old.fields,
         old.tokens <= x.tokens, old.fields \subseteq x.fields
  PROVE  b.tokens <= x.tokens /\ b.fields \subseteq x.fields /\ (b = x => b = old)
<1>1. /\ b.tokens \in 1..Asked /\ old.tokens \in 1..Asked /\ x.tokens \in 1..Asked /\ Asked \in Nat
      /\ b = [tokens |-> b.tokens, fields |-> b.fields]
      /\ old = [tokens |-> old.tokens, fields |-> old.fields]
  BY FallbackAssumption DEF Body
<1>2. b.tokens <= x.tokens /\ b.fields \subseteq x.fields
  BY <1>1
<1>3. ASSUME b = x PROVE b = old
  <2>1. old.tokens = b.tokens
    BY <1>1, <1>3
  <2>2. old.fields = b.fields
    BY <1>3
  <2> QED
    BY <1>1, <2>1, <2>2
<1> QED
  BY <1>2, <1>3

(* What is known of a request, spelled out once.                           *)
LEMMA SenderKnown ==
  ASSUME FallbackInv, NEW s \in Sender
  PROVE  /\ outbound[s] \in ChatRequest /\ SenderInv(s)
         /\ outbound[s].body \in Body /\ outbound[s].rejected \in SUBSET Body
         /\ outbound[s].named \in SUBSET Refusable /\ outbound[s].used \in SUBSET {"usage", "specific"}
         /\ outbound[s].sends \in Nat /\ outbound[s].lone \in BOOLEAN
         /\ outbound[s].key \in 0..NumKeys /\ outbound[s].left \in 0..NumKeys
         /\ caps \in Caps /\ keys \in KeyPool
  BY DEF FallbackInv, FallbackTypes, ChatRequest

(* A request that ends, and a new one, claim nothing.                      *)
LEMMA EndedIsFresh ==
  ASSUME FallbackInv, NEW at \in {"new", "done", "failed"}
  PROVE  /\ SenderEnded(at) \in ChatRequest
         /\ SenderEnded(at).at = at /\ SenderEnded(at).body = [tokens |-> Asked, fields |-> Offered]
         /\ SenderEnded(at).rejected = {} /\ SenderEnded(at).named = {} /\ ~SenderEnded(at).lone
<1>1. Offered \in SUBSET Refusable /\ Asked \in 1..Asked
  BY FallbackAssumption DEF Offered, Refusable
<1>2. 0 \in 0..NumKeys
  BY FallbackAssumption
<1> QED
  BY <1>1, <1>2 DEF SenderEnded, NewSender, ChatRequest, Body

(* The keys after a use and after a failure; with more than one key, a      *)
(* failure moves the pool away from the current one.                       *)
LEMMA KeysMove ==
  ASSUME keys \in KeyPool, KeysInv
  PROVE  /\ NextKey(keys.index) \in 1..NumKeys /\ NextKey(keys.index) # keys.index
         /\ Acquired \in KeyPool /\ Acquired.calls < Quota /\ Acquired.spree <= Acquired.calls + 1
         /\ keys.calls = 0 => Acquired.index = keys.index
         /\ MarkFailure \in KeyPool /\ MarkFailure.index = NextKey(keys.index)
         /\ MarkFailure.calls = 0 /\ MarkFailure.spree = 0
<1>1. /\ keys.index \in 1..NumKeys /\ keys.calls \in Nat /\ keys.spree \in Nat
      /\ keys = [index |-> keys.index, calls |-> keys.calls, spree |-> keys.spree]
      /\ keys.calls < Quota /\ keys.spree <= keys.calls + 1
      /\ NumKeys \in Nat /\ NumKeys > 1 /\ Quota \in Nat /\ Quota > 1
  BY FallbackAssumption DEF KeyPool, KeysInv
<1>2. NextKey(keys.index) \in 1..NumKeys /\ NextKey(keys.index) # keys.index
  <2>1. CASE keys.index = NumKeys
    <3>1. keys.index % NumKeys = 0
      BY <1>1, <2>1
    <3> QED
      BY <1>1, <2>1, <3>1 DEF NextKey
  <2>2. CASE keys.index # NumKeys
    <3>1. keys.index % NumKeys = keys.index
      BY <1>1, <2>2
    <3> QED
      BY <1>1, <2>2, <3>1 DEF NextKey
  <2> QED
    BY <2>1, <2>2
<1>3. /\ MarkFailure \in KeyPool /\ MarkFailure.index = NextKey(keys.index)
      /\ MarkFailure.calls = 0 /\ MarkFailure.spree = 0
  BY <1>2 DEF MarkFailure, KeyPool
<1>4. CASE keys.calls + 1 >= Quota
  <2>1. Acquired = [index |-> NextKey(keys.index), calls |-> 0, spree |-> 1]
    BY <1>4 DEF Acquired
  <2> QED
    BY <1>1, <1>2, <1>3, <1>4, <2>1 DEF KeyPool
<1>5. CASE ~(keys.calls + 1 >= Quota)
  <2>1. Acquired = [index |-> keys.index, calls |-> keys.calls + 1, spree |-> keys.spree + 1]
    BY <1>1, <1>5 DEF Acquired
  <2> QED
    BY <1>1, <1>2, <1>3, <1>5, <2>1 DEF KeyPool
<1> QED
  BY <1>4, <1>5

-----------------------------------------------------------------------------
(* A request begins with the limit that is known.                          *)
LEMMA BeginsKeeps ==
  ASSUME FallbackInv, NEW s \in Sender, SenderBegins(s)
  PROVE  FallbackInv'
<1> DEFINE b == Lowered(outbound[s].body)
           r == [outbound[s] EXCEPT !.at = "ready", !.body = b]
<1>1. /\ outbound[s] \in ChatRequest /\ SenderInv(s) /\ outbound[s].body \in Body
      /\ outbound[s].rejected \in SUBSET Body /\ caps \in Caps /\ keys \in KeyPool
      /\ CapsInv /\ KeysInv
  BY SenderKnown DEF FallbackInv
<1>2. /\ b \in Body /\ b.tokens <= outbound[s].body.tokens /\ b.fields = outbound[s].body.fields
      /\ b.tokens \in {outbound[s].body.tokens} \cup caps.reported
  <2>1. CASE caps.learned = NoCap
    BY <1>1, <2>1, FallbackAssumption DEF Body, Lowered
  <2>2. CASE caps.learned # NoCap
    <3>1. caps.learned \in 1..Asked /\ caps.learned \in caps.reported
      BY <1>1, <2>2 DEF Caps, CapsInv
    <3>2. /\ outbound[s].body.tokens \in 1..Asked /\ Asked \in Nat
      BY <1>1, FallbackAssumption DEF Body
    <3>3. /\ Lower(outbound[s].body.tokens, caps.learned) \in {outbound[s].body.tokens, caps.learned}
          /\ Lower(outbound[s].body.tokens, caps.learned) <= outbound[s].body.tokens
      BY <3>1, <3>2 DEF Lower
    <3> QED
      BY <1>1, <2>2, <3>1, <3>2, <3>3 DEF Body, Lowered
  <2> QED
    BY <2>1, <2>2
<1>3. /\ outbound' = [outbound EXCEPT ![s] = r]
      /\ outbound[s].at = "new" /\ vendor' = vendor /\ caps' = caps /\ keys' = keys
  BY <1>1 DEF SenderBegins, FallbackInv, FallbackTypes, ChatRequest
<1>4. /\ r \in ChatRequest /\ r.at = "ready" /\ r.body = b /\ r.rejected = outbound[s].rejected
      /\ r.named = outbound[s].named /\ r.lone = outbound[s].lone
  <2> HIDE DEF b
  <2> QED
    BY <1>1, <1>2 DEF ChatRequest
<1>5. /\ \A x \in outbound[s].rejected : b.tokens <= x.tokens /\ b.fields \subseteq x.fields
      /\ b \in outbound[s].rejected => b = outbound[s].body
  <2> HIDE DEF b
  <2>1. \A x \in outbound[s].rejected :
          outbound[s].body.tokens <= x.tokens /\ outbound[s].body.fields \subseteq x.fields
    BY <1>1 DEF SenderInv, BodyFits, KeyFits
  <2>2. ASSUME NEW x \in outbound[s].rejected
        PROVE  b.tokens <= x.tokens /\ b.fields \subseteq x.fields /\ (b = x => b = outbound[s].body)
    <3>1. x \in Body /\ outbound[s].body.tokens <= x.tokens /\ outbound[s].body.fields \subseteq x.fields
      BY <1>1, <2>1
    <3> QED
      BY <1>1, <1>2, <3>1, SmallerIsFresh
  <2> QED
    BY <2>2
<1> HIDE DEF b, r
<1>6. outbound'[s] = r /\ ~r.lone
  BY <1>1, <1>3, <1>4, SenderGets DEF FallbackInv, SenderInv, KeyFits
<1>7. SenderInv(s)'
  <2>1. BodyFits(s)'
    BY <1>1, <1>2, <1>3, <1>4, <1>5, <1>6 DEF SenderInv, BodyFits, Offered, With
  <2>2. KeyFits(s)'
    BY <1>1, <1>2, <1>3, <1>4, <1>5, <1>6 DEF SenderInv, KeyFits
  <2> QED
    BY <2>1, <2>2 DEF SenderInv
<1> QED
  BY <1>1, <1>3, <1>4, <1>7, SenderStepKeeps DEF CapsInv, KeysInv

(* A request ends, answered or not.                                        *)
LEMMA EndsKeeps ==
  ASSUME FallbackInv, NEW s \in Sender, NEW at \in {"done", "failed"},
         outbound' = [outbound EXCEPT ![s] = SenderEnded(at)], UNCHANGED <<vendor, caps, keys>>
  PROVE  FallbackInv'
<1> DEFINE r == SenderEnded(at)
<1>1. /\ r \in ChatRequest /\ r.at = at /\ r.body = [tokens |-> Asked, fields |-> Offered]
      /\ r.rejected = {} /\ r.named = {} /\ ~r.lone
  BY EndedIsFresh
<1> HIDE DEF r
<1>2. outbound'[s] = r
  BY <1>1, SenderGets DEF FallbackInv, r
<1>3. SenderInv(s)'
  <2>1. BodyFits(s)'
    BY <1>1, <1>2 DEF SenderInv, BodyFits, Offered, With
  <2>2. KeyFits(s)'
    BY <1>1, <1>2 DEF SenderInv, KeyFits
  <2> QED
    BY <2>1, <2>2 DEF SenderInv
<1>4. caps \in Caps /\ keys \in KeyPool /\ CapsInv /\ KeysInv
  BY DEF FallbackInv, FallbackTypes
<1>5. outbound' = [outbound EXCEPT ![s] = r]
  BY DEF r
<1> QED
  BY <1>1, <1>3, <1>4, <1>5, SenderStepKeeps DEF CapsInv, KeysInv

(* A request is sent: the key is the one the pool was left with, if nobody *)
(* has used it since.                                                      *)
LEMMA SendsKeeps ==
  ASSUME FallbackInv, NEW s \in Sender, Sends(s)
  PROVE  FallbackInv'
<1> DEFINE r == [outbound[s] EXCEPT !.at = "sent", !.sends = @ + 1, !.key = Acquired.index]
<1>1. /\ outbound[s] \in ChatRequest /\ SenderInv(s) /\ keys \in KeyPool /\ caps \in Caps
      /\ CapsInv /\ KeysInv /\ outbound[s].sends \in Nat
  BY SenderKnown DEF FallbackInv
<1>2. /\ Acquired \in KeyPool /\ Acquired.calls < Quota /\ Acquired.spree <= Acquired.calls + 1
      /\ keys.calls = 0 => Acquired.index = keys.index
  BY <1>1, KeysMove
<1>3. Acquired.index \in 0..NumKeys
  BY <1>2, FallbackAssumption DEF KeyPool
<1>4. /\ r \in ChatRequest /\ r.at = "sent" /\ r.key = Acquired.index
      /\ r.body = outbound[s].body /\ r.rejected = outbound[s].rejected
      /\ r.named = outbound[s].named /\ r.lone = outbound[s].lone /\ r.left = outbound[s].left
  <2> DEFINE k == Acquired.index
  <2>1. k \in 0..NumKeys /\ outbound[s].sends + 1 \in Nat
    BY <1>1, <1>3
  <2> HIDE DEF k
  <2>2. /\ r = [outbound[s] EXCEPT !.at = "sent", !.sends = outbound[s].sends + 1, !.key = k]
    BY <1>1 DEF k, ChatRequest
  <2> HIDE DEF r
  <2>3. r \in ChatRequest /\ r.key = k
    BY <1>1, <2>1, <2>2 DEF ChatRequest
  <2> QED
    BY <1>1, <2>2, <2>3 DEF k, ChatRequest
<1>5. /\ outbound' = Touched([outbound EXCEPT ![s] = r], s)
      /\ keys' = Acquired /\ vendor' = vendor /\ caps' = caps /\ outbound[s].at = "ready"
  <2>1. outbound \in [Sender -> ChatRequest]
    BY DEF FallbackInv, FallbackTypes
  <2>2. [outbound EXCEPT ![s].at = "sent", ![s].sends = @ + 1, ![s].key = Acquired.index]
          = [outbound EXCEPT ![s] = r]
    BY <1>1, <2>1 DEF ChatRequest
  <2> QED
    BY <2>2 DEF Sends
<1> HIDE DEF r
<1>6. outbound'[s] = r
  BY <1>4, <1>5, SenderGets DEF FallbackInv
<1>7. r.lone => keys.index # outbound[s].left /\ keys.calls = 0
  BY <1>1, <1>4, <1>5 DEF SenderInv, KeyFits
<1>8. SenderInv(s)'
  <2>1. BodyFits(s)'
    BY <1>1, <1>2, <1>4, <1>5, <1>6, <1>7, SameBodyFits DEF SenderInv
  <2>2. KeyFits(s)'
    BY <1>1, <1>2, <1>4, <1>5, <1>6, <1>7 DEF SenderInv, KeyFits
  <2> QED
    BY <2>1, <2>2 DEF SenderInv
<1> QED
  BY <1>1, <1>2, <1>4, <1>5, <1>8, SenderStepKeeps DEF CapsInv, KeysInv

(* The body that was accepted is sent anew.                                *)
LEMMA BreaksKeeps ==
  ASSUME FallbackInv, NEW s \in Sender, StreamBreaks(s)
  PROVE  FallbackInv'
<1> DEFINE r == [outbound[s] EXCEPT !.at = "new", !.used = {}, !.lone = FALSE]
<1>1. /\ outbound[s] \in ChatRequest /\ SenderInv(s) /\ keys \in KeyPool /\ caps \in Caps
      /\ CapsInv /\ KeysInv
  BY SenderKnown DEF FallbackInv
<1>2. /\ r \in ChatRequest /\ r.at = "new" /\ r.body = outbound[s].body
      /\ r.rejected = outbound[s].rejected /\ r.named = outbound[s].named /\ ~r.lone
  BY <1>1 DEF ChatRequest
<1>3. outbound' = [outbound EXCEPT ![s] = r] /\ vendor' = vendor /\ caps' = caps /\ keys' = keys
  BY <1>1 DEF StreamBreaks, FallbackInv, FallbackTypes, ChatRequest
<1> HIDE DEF r
<1>4. outbound'[s] = r
  BY <1>2, <1>3, SenderGets DEF FallbackInv
<1>5. SenderInv(s)'
  <2>1. BodyFits(s)'
    BY <1>1, <1>2, <1>3, <1>4, SameBodyFits DEF SenderInv
  <2>2. KeyFits(s)'
    BY <1>1, <1>2, <1>3, <1>4 DEF SenderInv, KeyFits
  <2> QED
    BY <2>1, <2>2 DEF SenderInv
<1> QED
  BY <1>1, <1>2, <1>3, <1>5, SenderStepKeeps DEF CapsInv, KeysInv

(* It times out: it is sent again as it was, or ends.                      *)
LEMMA TimesOutKeeps ==
  ASSUME FallbackInv, NEW s \in Sender, TimesOut(s)
  PROVE  FallbackInv'
<1> DEFINE r == [outbound[s] EXCEPT !.at = "ready", !.lone = FALSE]
<1>1. /\ outbound[s] \in ChatRequest /\ SenderInv(s) /\ keys \in KeyPool /\ caps \in Caps
      /\ CapsInv /\ KeysInv
  BY SenderKnown DEF FallbackInv
<1>2. UNCHANGED <<vendor, caps, keys>> /\ outbound[s].at = "sent"
  BY DEF TimesOut
<1>3. CASE CanSend(outbound[s])
  <2>1. /\ r \in ChatRequest /\ r.at = "ready" /\ r.body = outbound[s].body
        /\ r.rejected = outbound[s].rejected /\ r.named = outbound[s].named /\ ~r.lone
    BY <1>1 DEF ChatRequest
  <2>2. outbound' = [outbound EXCEPT ![s] = r]
    BY <1>1, <1>3 DEF TimesOut, FallbackInv, FallbackTypes
  <2> HIDE DEF r
  <2>3. outbound'[s] = r
    BY <2>1, <2>2, SenderGets DEF FallbackInv
  <2>4. SenderInv(s)'
    <3>1. BodyFits(s)'
      BY <1>1, <1>2, <2>1, <2>2, <2>3 DEF SenderInv, BodyFits, Offered, With
    <3>2. KeyFits(s)'
      BY <1>1, <1>2, <2>1, <2>2, <2>3 DEF SenderInv, KeyFits
    <3> QED
      BY <3>1, <3>2 DEF SenderInv, BodyFits, KeyFits
  <2> QED
    BY <1>1, <1>2, <2>1, <2>2, <2>4, SenderStepKeeps DEF CapsInv, KeysInv
<1>4. CASE ~CanSend(outbound[s])
  <2>1. outbound' = [outbound EXCEPT ![s] = SenderEnded("failed")]
    BY <1>1, <1>4 DEF TimesOut, FallbackInv, FallbackTypes
  <2> QED
    BY <1>2, <2>1, EndsKeeps
<1> QED
  BY <1>3, <1>4

(* The key is overloaded: the pool moves on, and the request with it.      *)
LEMMA OverloadedKeeps ==
  ASSUME FallbackInv, NEW s \in Sender, Overloaded(s)
  PROVE  FallbackInv'
<1> DEFINE lone == keys.index = outbound[s].key
           r == IF CanSend([outbound[s] EXCEPT !.lone = lone])
                THEN [outbound[s] EXCEPT !.lone = lone, !.at = "ready", !.left = outbound[s].key]
                ELSE SenderEnded("failed")
<1>1. /\ outbound[s] \in ChatRequest /\ SenderInv(s) /\ keys \in KeyPool /\ caps \in Caps
      /\ CapsInv /\ KeysInv
  BY SenderKnown DEF FallbackInv
<1>2. /\ MarkFailure \in KeyPool /\ MarkFailure.index # keys.index
      /\ MarkFailure.calls = 0 /\ MarkFailure.spree = 0
  BY <1>1, KeysMove
<1>3. /\ keys' = MarkFailure /\ vendor' = vendor /\ caps' = caps
      /\ outbound' = Touched([outbound EXCEPT ![s] = r], s)
  <2>1. lone \in BOOLEAN
    OBVIOUS
  <2> HIDE DEF lone
  <2>2. [[outbound[s] EXCEPT !.lone = lone] EXCEPT !.at = "ready", !.left = [outbound[s] EXCEPT !.lone = lone].key]
          = [outbound[s] EXCEPT !.lone = lone, !.at = "ready", !.left = outbound[s].key]
    BY <1>1, <2>1 DEF ChatRequest
  <2> USE DEF lone
  <2> QED
    BY <2>2 DEF Overloaded
<1>4. /\ r \in ChatRequest /\ r.at \in {"ready", "failed"}
      /\ \/ /\ r.at = "ready" /\ r.body = outbound[s].body /\ r.left = outbound[s].key
            /\ r.rejected = outbound[s].rejected /\ r.named = outbound[s].named
            /\ r.lone => keys.index = outbound[s].key
         \/ /\ r.at = "failed" /\ r.body = [tokens |-> Asked, fields |-> Offered]
            /\ r.rejected = {} /\ r.named = {} /\ ~r.lone
  <2>1. CASE CanSend([outbound[s] EXCEPT !.lone = lone])
    <3>1. lone \in BOOLEAN /\ (lone => keys.index = outbound[s].key)
      OBVIOUS
    <3>2. r = [outbound[s] EXCEPT !.lone = lone, !.at = "ready", !.left = outbound[s].key]
      BY <2>1
    <3> HIDE DEF r, lone
    <3> QED
      BY <1>1, <3>1, <3>2 DEF ChatRequest
  <2>2. CASE ~CanSend([outbound[s] EXCEPT !.lone = lone])
    <3>1. r = SenderEnded("failed")
      BY <2>2
    <3> HIDE DEF r, lone
    <3> QED
      BY <3>1, EndedIsFresh
  <2> QED
    BY <2>1, <2>2
<1> HIDE DEF r, lone
<1>5. outbound'[s] = r
  BY <1>3, <1>4, SenderGets DEF FallbackInv
<1>6. SenderInv(s)'
  <2>1. BodyFits(s)'
    <3>1. CASE r.at = "ready"
      BY <1>1, <1>3, <1>4, <1>5, <3>1, SameBodyFits DEF SenderInv
    <3>2. CASE r.at = "failed"
      BY <1>3, <1>4, <1>5, <3>2, NewBodyFits
    <3> QED
      BY <1>4, <3>1, <3>2
  <2>2. KeyFits(s)'
    BY <1>1, <1>2, <1>3, <1>4, <1>5 DEF SenderInv, KeyFits
  <2> QED
    BY <2>1, <2>2 DEF SenderInv
<1>7. KeysInv'
  BY <1>2, <1>3, FallbackAssumption DEF KeysInv
<1> QED
  BY <1>1, <1>2, <1>3, <1>4, <1>6, <1>7, SenderStepKeeps DEF CapsInv

(* A body that was refused and shrank is a new one.                        *)
LEMMA RefusedBodyFits ==
  ASSUME FallbackInv, NEW s \in Sender, vendor' = vendor, NEW b \in Body,
         b.tokens <= outbound[s].body.tokens, b.fields \subseteq outbound[s].body.fields,
         b # outbound[s].body, b.tokens \in {outbound[s].body.tokens} \cup caps'.reported,
         caps.reported \subseteq caps'.reported,
         outbound'[s].body = b, outbound'[s].rejected \subseteq outbound[s].rejected \cup {outbound[s].body},
         outbound[s].named \subseteq outbound'[s].named,
         outbound[s].body.fields \ b.fields \subseteq UNION {With(f) : f \in outbound'[s].named}
  PROVE  BodyFits(s)'
<1>1. /\ BodyFits(s) /\ outbound[s].body \in Body /\ outbound[s].rejected \in SUBSET Body
  BY SenderKnown DEF SenderInv
<1>2. Offered' = Offered /\ \A f : With(f)' = With(f)
  BY DEF Offered, With
<1>3. UNION {With(f)' : f \in outbound'[s].named} = UNION {With(f) : f \in outbound'[s].named}
  BY <1>2
<1>4. Offered \ b.fields \subseteq UNION {With(f) : f \in outbound'[s].named}
  <2>1. Offered \ outbound[s].body.fields \subseteq UNION {With(f) : f \in outbound'[s].named}
    BY <1>1 DEF BodyFits
  <2> QED
    BY <2>1
<1>5. \A x \in outbound'[s].rejected :
        outbound[s].body.tokens <= x.tokens /\ outbound[s].body.fields \subseteq x.fields
  <2>1. outbound[s].body.tokens <= outbound[s].body.tokens
    BY <1>1, FallbackAssumption DEF Body
  <2> QED
    BY <1>1, <2>1 DEF BodyFits
<1>6. outbound'[s].rejected \in SUBSET Body
  BY <1>1
<1>7. /\ \A x \in outbound'[s].rejected : b.tokens <= x.tokens /\ b.fields \subseteq x.fields
      /\ b \notin outbound'[s].rejected
  <2>1. ASSUME NEW x \in outbound'[s].rejected
        PROVE  b.tokens <= x.tokens /\ b.fields \subseteq x.fields /\ b # x
    <3>1. /\ x \in Body /\ outbound[s].body.tokens <= x.tokens
          /\ outbound[s].body.fields \subseteq x.fields
      BY <1>5, <1>6
    <3> QED
      BY <1>1, <3>1, SmallerIsFresh
  <2> QED
    BY <2>1
<1>8. b.tokens \in {Asked} \cup caps'.reported
  BY <1>1 DEF BodyFits
<1> QED
  BY <1>2, <1>3, <1>4, <1>7, <1>8 DEF BodyFits

(* What an answer that names a limit makes known.                          *)
LEMMA LearnedIsLeast ==
  ASSUME caps \in Caps, CapsInv, NEW cap \in 1..Asked,
         caps' = [learned |-> Learned(cap), reported |-> caps.reported \cup {cap}]
  PROVE  /\ Learned(cap) \in 1..Asked /\ Learned(cap) \in caps'.reported
         /\ caps' \in Caps /\ CapsInv' /\ caps.reported \subseteq caps'.reported
<1>1. /\ caps.reported \in SUBSET (1..Asked) /\ caps.learned \in 1..Asked \cup {NoCap}
      /\ NoCap \notin 1..Asked /\ Asked \in Nat
  BY FallbackAssumption DEF Caps
<1>2. CASE caps.learned = NoCap
  <2>1. Learned(cap) = cap /\ caps.reported = {}
    BY <1>2 DEF Learned, CapsInv
  <2> QED
    BY <1>1, <2>1 DEF Caps, CapsInv
<1>3. CASE caps.learned # NoCap
  <2>1. /\ Learned(cap) = Lower(caps.learned, cap) /\ caps.learned \in caps.reported
        /\ \A c \in caps.reported : caps.learned <= c
    BY <1>3 DEF Learned, CapsInv
  <2>2. /\ Learned(cap) \in {caps.learned, cap} /\ Learned(cap) <= cap /\ Learned(cap) <= caps.learned
    BY <1>1, <1>3, <2>1 DEF Lower
  <2>3. Learned(cap) \in 1..Asked /\ Learned(cap) \in caps'.reported
    BY <1>1, <1>3, <2>1, <2>2
  <2>4. \A c \in caps'.reported : Learned(cap) <= c
    BY <1>1, <1>3, <2>1, <2>2
  <2> QED
    BY <1>1, <2>3, <2>4 DEF Caps, CapsInv
<1> QED
  BY <1>2, <1>3

(* The upstream names a limit: the request is cut to it, or ends.          *)
LEMMA CapRejectedKeeps ==
  ASSUME FallbackInv, NEW s \in Sender, NEW cap \in 1..Asked, CapRejected(s, cap)
  PROVE  FallbackInv'
<1> DEFINE old == outbound[s].body
           l == Learned(cap)
           req == [outbound[s] EXCEPT !.rejected = @ \cup {outbound[s].body}, !.lone = FALSE]
           bodies == Clamp(req.body, l)
           b == CHOOSE x \in bodies : TRUE
           r == IF bodies = {} THEN SenderEnded("failed")
                ELSE IF ~CanSend(req) THEN SenderEnded("failed")
                ELSE [req EXCEPT !.at = "ready", !.body = b]
<1>1. /\ outbound[s] \in ChatRequest /\ SenderInv(s) /\ keys \in KeyPool /\ caps \in Caps
      /\ CapsInv /\ KeysInv /\ old \in Body /\ outbound[s].rejected \in SUBSET Body
  BY SenderKnown DEF FallbackInv
<1>2. /\ outbound' = [outbound EXCEPT ![s] = r] /\ vendor' = vendor /\ keys' = keys
      /\ caps' = [learned |-> Learned(cap), reported |-> caps.reported \cup {cap}]
  BY DEF CapRejected
<1>3. /\ l \in 1..Asked /\ l \in caps'.reported
      /\ caps' \in Caps /\ CapsInv' /\ caps.reported \subseteq caps'.reported
  BY <1>1, <1>2, LearnedIsLeast
<1>4. /\ req.body = old /\ req.rejected = outbound[s].rejected \cup {old}
      /\ req \in ChatRequest /\ req.named = outbound[s].named /\ ~req.lone
  BY <1>1 DEF ChatRequest
<1> HIDE DEF l, req
<1>5. ASSUME bodies # {}
      PROVE  b \in Body /\ b.tokens = l /\ l < old.tokens /\ b.fields = old.fields
  <2>1. bodies = {[old EXCEPT !.tokens = l]} /\ old.tokens > l
    BY <1>4, <1>5 DEF Clamp
  <2>2. b = [old EXCEPT !.tokens = l]
    BY <2>1
  <2>3. l < old.tokens
    BY <1>1, <1>3, <2>1, FallbackAssumption DEF Body
  <2> HIDE DEF b, bodies, old
  <2> QED
    BY <1>1, <1>3, <2>2, <2>3 DEF Body
<1> HIDE DEF b, bodies
<1>6. CASE bodies # {} /\ CanSend(req)
  <2>1. r = [req EXCEPT !.at = "ready", !.body = b]
    BY <1>6
  <2> HIDE DEF r
  <2>2. /\ r \in ChatRequest /\ r.at = "ready" /\ r.body = b /\ ~r.lone
        /\ r.rejected = outbound[s].rejected \cup {old} /\ r.named = outbound[s].named
    BY <1>4, <1>5, <1>6, <2>1 DEF ChatRequest
  <2>3. outbound'[s] = r
    BY <1>2, <2>2, SenderGets DEF FallbackInv
  <2>4. BodyFits(s)'
    <3>1. b.tokens <= old.tokens /\ b # old
      BY <1>1, <1>3, <1>5, <1>6, FallbackAssumption DEF Body
    <3>2. old.fields \ b.fields \subseteq UNION {With(f) : f \in outbound'[s].named}
      BY <1>5, <1>6
    <3>3. b \in Body /\ b.fields \subseteq old.fields /\ b.tokens \in caps'.reported
      BY <1>3, <1>5, <1>6
    <3> QED
      BY <1>2, <1>3, <2>2, <2>3, <3>1, <3>2, <3>3, RefusedBodyFits
  <2>5. KeyFits(s)'
    BY <2>2, <2>3 DEF KeyFits
  <2> QED
    BY <1>1, <1>2, <1>3, <2>2, <2>4, <2>5, SenderStepKeeps DEF SenderInv, KeysInv
<1>7. CASE ~(bodies # {} /\ CanSend(req))
  <2>1. r = SenderEnded("failed")
    BY <1>7
  <2> HIDE DEF r
  <2>2. /\ r \in ChatRequest /\ r.at = "failed" /\ r.body = [tokens |-> Asked, fields |-> Offered]
        /\ r.rejected = {} /\ ~r.lone
    BY <2>1, EndedIsFresh
  <2>3. outbound'[s] = r
    BY <1>2, <2>2, SenderGets DEF FallbackInv
  <2>4. BodyFits(s)'
    BY <1>2, <2>2, <2>3, NewBodyFits
  <2>5. KeyFits(s)'
    BY <2>2, <2>3 DEF KeyFits
  <2> QED
    BY <1>1, <1>2, <1>3, <2>2, <2>4, <2>5, SenderStepKeeps DEF SenderInv, KeysInv
<1> QED
  BY <1>6, <1>7

(* A repair gives up what the upstream named, and something of it.         *)
LEMMA RepairDrops ==
  ASSUME vendor \in {"plain", "nim", "mistral"}, NEW req, req.body \in Body,
         NEW field \in Refusable, NEW x \in Repair(req, field)
  PROVE  /\ x.kind \in {"usage", "specific"} /\ x.body \in Body /\ x.body # req.body
         /\ x.body.tokens = req.body.tokens /\ x.body.fields \subseteq req.body.fields
         /\ req.body.fields \ x.body.fields \subseteq With(field)
<1>1. ASSUME NEW gone, gone \cap req.body.fields # {}, gone \subseteq With(field),
             x.body = [req.body EXCEPT !.fields = req.body.fields \ gone]
      PROVE  /\ x.body \in Body /\ x.body # req.body
             /\ x.body.tokens = req.body.tokens /\ x.body.fields \subseteq req.body.fields
             /\ req.body.fields \ x.body.fields \subseteq With(field)
  <2>1. req.body.fields \in SUBSET Refusable /\ req.body.tokens \in 1..Asked
    BY DEF Body
  <2>2. x.body = [tokens |-> req.body.tokens, fields |-> req.body.fields \ gone]
    BY <1>1 DEF Body
  <2>3. x.body.fields = req.body.fields \ gone /\ x.body.tokens = req.body.tokens
    BY <2>2
  <2>4. x.body \in Body
    BY <2>1, <2>2 DEF Body
  <2>5. x.body.fields # req.body.fields
    BY <1>1, <2>3
  <2> QED
    BY <1>1, <2>3, <2>4, <2>5
<1>2. \/ x.kind = "usage" /\ field = "usage" /\ x.body \in WithoutUsage(req.body)
      \/ x.kind = "specific" /\ x.body \in Specific(req.body, field)
  BY DEF Repair
<1>3. CASE x.kind = "usage" /\ field = "usage" /\ x.body \in WithoutUsage(req.body)
  <2>1. /\ {"usage"} \cap req.body.fields # {} /\ {"usage"} \subseteq With(field)
        /\ x.body = [req.body EXCEPT !.fields = req.body.fields \ {"usage"}]
    BY <1>3 DEF WithoutUsage, With
  <2> DEFINE gone == {"usage"}
  <2>2. /\ gone \cap req.body.fields # {} /\ gone \subseteq With(field)
        /\ x.body = [req.body EXCEPT !.fields = req.body.fields \ gone]
    BY <2>1
  <2> HIDE DEF gone
  <2> QED
    BY <1>1, <1>3, <2>2
<1>4. CASE x.kind = "specific" /\ x.body \in Specific(req.body, field)
  <2> DEFINE gone == IF vendor = "nim" THEN NimDrops(field)
                     ELSE IF vendor = "mistral" /\ MistralKnows(field) THEN MistralDrops ELSE {}
  <2>1. gone \subseteq With(field)
    BY DEF NimDrops, MistralKnows, MistralDrops, With
  <2>2. Specific(req.body, field) = IF gone \cap req.body.fields = {} THEN {}
                                    ELSE {[req.body EXCEPT !.fields = req.body.fields \ gone]}
    BY DEF Specific
  <2> HIDE DEF gone
  <2>3. /\ gone \cap req.body.fields # {}
        /\ x.body = [req.body EXCEPT !.fields = req.body.fields \ gone]
    BY <1>4, <2>2
  <2> QED
    BY <1>1, <1>4, <2>1, <2>3
<1> QED
  BY <1>2, <1>3, <1>4

\* Only what is refused with status 400 is refused for good.
Refused(s, status) == IF status = 400 THEN {outbound[s].body} ELSE {}

\* What a request becomes of whom the upstream refused a field.
BecomesRefused(s, field, status, r) ==
  /\ IF status = 500
     THEN keys' = MarkFailure /\ outbound' = Touched([outbound EXCEPT ![s] = r], s)
     ELSE keys' = keys /\ outbound' = [outbound EXCEPT ![s] = r]
  /\ ~r.lone /\ r.at \in {"ready", "failed"}
  /\ \/ /\ r.at = "failed" /\ r.body = [tokens |-> Asked, fields |-> Offered] /\ r.rejected = {}
     \/ /\ r.rejected = outbound[s].rejected \cup Refused(s, status)
        /\ r.named = outbound[s].named \cup {field}
        /\ \/ r.body = outbound[s].body /\ status = 500
           \/ /\ r.body # outbound[s].body /\ r.body.tokens = outbound[s].body.tokens
              /\ r.body.fields \subseteq outbound[s].body.fields
              /\ outbound[s].body.fields \ r.body.fields \subseteq With(field)

(* The upstream refuses a field: the request gives it up or ends.  Only a  *)
(* hosted model that says so with status 500 may see the body again.       *)
LEMMA FieldRejectedGets ==
  ASSUME FallbackInv, NEW s \in Sender, NEW field \in Refusable, NEW status \in {400, 500},
         FieldRejected(s, field, status)
  PROVE  \E r \in ChatRequest : BecomesRefused(s, field, status, r)
<1> DEFINE req == [outbound[s] EXCEPT !.rejected = @ \cup Refused(s, status),
                                      !.named = @ \cup {field}, !.lone = FALSE]
           repairs == Repair(req, field)
           x == CHOOSE z \in repairs : TRUE
           told == [req EXCEPT !.used = @ \cup {x.kind}]
           r == IF repairs = {}
                THEN IF status = 500 /\ CanSend(req) THEN [req EXCEPT !.at = "ready"] ELSE SenderEnded("failed")
                ELSE IF CanSend(req) THEN [told EXCEPT !.at = "ready", !.body = x.body] ELSE SenderEnded("failed")
<1>1. /\ outbound[s] \in ChatRequest /\ outbound[s].body \in Body
      /\ outbound[s].rejected \in SUBSET Body /\ outbound[s].named \in SUBSET Refusable
      /\ vendor \in {"plain", "nim", "mistral"}
  BY SenderKnown DEF FallbackInv, FallbackTypes
<1>2. /\ IF status = 500
         THEN keys' = MarkFailure /\ outbound' = Touched([outbound EXCEPT ![s] = r], s)
         ELSE keys' = keys /\ outbound' = [outbound EXCEPT ![s] = r]
  BY DEF FieldRejected, Refused
<1>3. /\ req \in ChatRequest /\ req.body = outbound[s].body
      /\ req.rejected = outbound[s].rejected \cup Refused(s, status)
      /\ req.named = outbound[s].named \cup {field} /\ ~req.lone
      /\ req.used \in SUBSET {"usage", "specific"}
  <2>1. /\ outbound[s].rejected \cup Refused(s, status) \in SUBSET Body
        /\ outbound[s].named \cup {field} \in SUBSET Refusable
    BY <1>1 DEF Refused
  <2> QED
    BY <1>1, <2>1 DEF ChatRequest
<1> HIDE DEF req
<1>4. ASSUME repairs # {}
      PROVE  /\ x.kind \in {"usage", "specific"} /\ x.body \in Body /\ x.body # outbound[s].body
             /\ x.body.tokens = outbound[s].body.tokens
             /\ x.body.fields \subseteq outbound[s].body.fields
             /\ outbound[s].body.fields \ x.body.fields \subseteq With(field)
  <2>1. x \in repairs
    BY <1>4
  <2> HIDE DEF x
  <2> QED
    BY <1>1, <1>3, <2>1, RepairDrops
<1> HIDE DEF repairs, x
<1>5. CASE repairs = {} /\ status = 500 /\ CanSend(req)
  <2>1. r = [req EXCEPT !.at = "ready"]
    BY <1>5
  <2> HIDE DEF r, told
  <2>2. /\ r \in ChatRequest /\ r.at = "ready" /\ r.body = outbound[s].body /\ ~r.lone
        /\ r.rejected = outbound[s].rejected \cup Refused(s, status)
        /\ r.named = outbound[s].named \cup {field}
    BY <1>3, <2>1 DEF ChatRequest
  <2>3. BecomesRefused(s, field, status, r)
    BY <1>2, <1>5, <2>2 DEF BecomesRefused
  <2> QED
    BY <2>2, <2>3
<1>6. CASE repairs # {} /\ CanSend(req)
  <2>1. r = [told EXCEPT !.at = "ready", !.body = x.body]
    BY <1>6
  <2>2. /\ told \in ChatRequest /\ told.rejected = req.rejected /\ told.named = req.named
        /\ told.lone = req.lone
    BY <1>3, <1>4, <1>6 DEF ChatRequest
  <2> HIDE DEF r, told
  <2>3. /\ r \in ChatRequest /\ r.at = "ready" /\ r.body = x.body /\ ~r.lone
        /\ r.rejected = outbound[s].rejected \cup Refused(s, status)
        /\ r.named = outbound[s].named \cup {field}
    <3>1. x.body \in Body
      BY <1>4, <1>6
    <3>2. r \in ChatRequest
      BY <2>1, <2>2, <3>1 DEF ChatRequest
    <3>3. /\ r.at = "ready" /\ r.body = x.body
          /\ r.lone = told.lone /\ r.rejected = told.rejected /\ r.named = told.named
      BY <2>1, <2>2 DEF ChatRequest
    <3> QED
      BY <1>3, <2>2, <3>2, <3>3
  <2>4. /\ r.body # outbound[s].body /\ r.body.tokens = outbound[s].body.tokens
        /\ r.body.fields \subseteq outbound[s].body.fields
        /\ outbound[s].body.fields \ r.body.fields \subseteq With(field)
    BY <1>4, <1>6, <2>3
  <2>5. BecomesRefused(s, field, status, r)
    BY <1>2, <2>3, <2>4 DEF BecomesRefused
  <2> QED
    BY <2>3, <2>5
<1>7. CASE ~(repairs = {} /\ status = 500 /\ CanSend(req)) /\ ~(repairs # {} /\ CanSend(req))
  <2>1. r = SenderEnded("failed")
    BY <1>7
  <2> HIDE DEF r, told
  <2>2. /\ r \in ChatRequest /\ r.at = "failed" /\ r.body = [tokens |-> Asked, fields |-> Offered]
        /\ r.rejected = {} /\ ~r.lone
    BY <2>1, EndedIsFresh
  <2>3. BecomesRefused(s, field, status, r)
    BY <1>2, <2>2 DEF BecomesRefused
  <2> QED
    BY <2>2, <2>3
<1> QED
  BY <1>5, <1>6, <1>7

(* The body that comes after fits, and the pool with it.                   *)
LEMMA FieldRejectedKeeps ==
  ASSUME FallbackInv, NEW s \in Sender, NEW field \in Refusable, NEW status \in {400, 500},
         FieldRejected(s, field, status)
  PROVE  FallbackInv'
<1>1. /\ outbound[s] \in ChatRequest /\ SenderInv(s) /\ keys \in KeyPool /\ caps \in Caps
      /\ CapsInv /\ KeysInv /\ outbound[s].body \in Body /\ outbound[s].rejected \in SUBSET Body
  BY SenderKnown DEF FallbackInv
<1>2. /\ MarkFailure \in KeyPool /\ MarkFailure.calls = 0 /\ MarkFailure.spree = 0
  BY <1>1, KeysMove
<1>3. vendor' = vendor /\ caps' = caps
  BY DEF FieldRejected
<1>4. PICK r \in ChatRequest : BecomesRefused(s, field, status, r)
  BY FieldRejectedGets
<1>5. /\ \/ outbound' = [outbound EXCEPT ![s] = r] /\ keys' = keys
         \/ outbound' = Touched([outbound EXCEPT ![s] = r], s)
      /\ keys' \in KeyPool /\ KeysInv'
  <2>1. CASE status = 500
    BY <1>2, <1>4, <2>1, FallbackAssumption DEF KeysInv, BecomesRefused
  <2>2. CASE status # 500
    BY <1>1, <1>4, <2>2 DEF KeysInv, BecomesRefused
  <2> QED
    BY <2>1, <2>2
<1>6. outbound'[s] = r
  BY <1>5, SenderGets DEF FallbackInv
<1>7. KeyFits(s)'
  BY <1>4, <1>6 DEF KeyFits, BecomesRefused
<1>8. BodyFits(s)'
  <2>1. CASE r.at = "failed" /\ r.body = [tokens |-> Asked, fields |-> Offered] /\ r.rejected = {}
    BY <1>3, <1>6, <2>1, NewBodyFits
  <2>2. CASE /\ r.rejected = outbound[s].rejected \cup Refused(s, status)
             /\ r.named = outbound[s].named \cup {field}
             /\ r.body = outbound[s].body /\ status = 500
    <3>0. r.rejected = outbound[s].rejected
      BY <2>2 DEF Refused
    <3>1. Offered' = Offered /\ \A f : With(f)' = With(f)
      BY <1>3 DEF Offered, With
    <3>2. UNION {With(f) : f \in outbound[s].named} \subseteq UNION {With(f)' : f \in outbound'[s].named}
      BY <1>6, <2>2, <3>1
    <3>3. outbound[s].body.tokens <= outbound[s].body.tokens
      BY <1>1, FallbackAssumption DEF Body
    <3> QED
      BY <1>1, <1>3, <1>6, <2>2, <3>0, <3>1, <3>2, <3>3 DEF SenderInv, BodyFits
  <2>3. CASE /\ r.rejected = outbound[s].rejected \cup Refused(s, status)
             /\ r.named = outbound[s].named \cup {field}
             /\ r.body # outbound[s].body /\ r.body.tokens = outbound[s].body.tokens
             /\ r.body.fields \subseteq outbound[s].body.fields
             /\ outbound[s].body.fields \ r.body.fields \subseteq With(field)
    <3>1. /\ r.body \in Body /\ r.body.tokens <= outbound[s].body.tokens
      BY <1>1, <2>3, FallbackAssumption DEF ChatRequest, Body
    <3>2. outbound[s].body.fields \ r.body.fields \subseteq UNION {With(f) : f \in outbound'[s].named}
      BY <1>6, <2>3
    <3>3. outbound'[s].rejected \subseteq outbound[s].rejected \cup {outbound[s].body}
      BY <1>6, <2>3 DEF Refused
    <3> QED
      BY <1>3, <1>6, <2>3, <3>1, <3>2, <3>3, RefusedBodyFits
  <2> QED
    BY <1>4, <2>1, <2>2, <2>3 DEF BecomesRefused
<1> QED
  BY <1>1, <1>3, <1>5, <1>7, <1>8, SenderStepKeeps DEF SenderInv, CapsInv

-----------------------------------------------------------------------------
(* No request claims anything before the first is made.                    *)
LEMMA FallbackInvInit == FallbackInit => FallbackInv
<1> SUFFICES ASSUME FallbackInit PROVE FallbackInv
  OBVIOUS
<1>1. /\ NewSender \in ChatRequest /\ NewSender.at = "new" /\ ~NewSender.lone /\ NewSender.rejected = {}
      /\ NewSender.body = [tokens |-> Asked, fields |-> Offered]
  <2>1. Offered \in SUBSET Refusable /\ Asked \in 1..Asked /\ 0 \in 0..NumKeys
    BY FallbackAssumption DEF Offered
  <2> QED
    BY <2>1 DEF NewSender, ChatRequest, Body
<1>2. caps \in Caps /\ CapsInv
  BY DEF FallbackInit, Caps, CapsInv
<1>3. keys \in KeyPool /\ KeysInv
  BY FallbackAssumption DEF FallbackInit, KeyPool, KeysInv
<1>4. FallbackTypes /\ \A s \in Sender : outbound[s] = NewSender
  BY <1>1, <1>2, <1>3 DEF FallbackTypes, FallbackInit
<1>5. ASSUME NEW s \in Sender PROVE SenderInv(s)
  <2>1. outbound[s].body.tokens = Asked /\ outbound[s].body.fields = Offered
    BY <1>1, <1>4
  <2> QED
    BY <1>1, <1>4, <2>1 DEF SenderInv, BodyFits, KeyFits
<1> QED
  BY <1>2, <1>3, <1>4, <1>5 DEF FallbackInv

(* No step of a request breaks what is claimed of any of them.             *)
LEMMA FallbackInvNext == FallbackInv /\ [FallbackNext]_fallbackVars => FallbackInv'
<1> SUFFICES ASSUME FallbackInv, [FallbackNext]_fallbackVars PROVE FallbackInv'
  OBVIOUS
<1>1. CASE UNCHANGED fallbackVars
  <2>1. UNCHANGED <<vendor, caps, keys, outbound>>
    BY <1>1 DEF fallbackVars
  <2>2. FallbackTypes' /\ CapsInv' /\ KeysInv'
    BY <2>1 DEF FallbackInv, FallbackTypes, CapsInv, KeysInv
  <2>3. ASSUME NEW s \in Sender PROVE SenderInv(s)'
    <3>1. SenderInv(s)
      BY DEF FallbackInv
    <3> QED
      BY <2>1, <3>1, SameBodyFits DEF SenderInv, KeyFits
  <2> QED
    BY <2>2, <2>3 DEF FallbackInv
<1>2. CASE FallbackNext
  <2>1. PICK s \in Sender : SenderStep(s)
    BY <1>2 DEF FallbackNext
  <2>2. CASE SenderBegins(s) \/ Sends(s) \/ StreamBreaks(s) \/ Overloaded(s) \/ TimesOut(s)
    BY <2>2, BeginsKeeps, SendsKeeps, BreaksKeeps, OverloadedKeeps, TimesOutKeeps
  <2>3. CASE Accepted(s) \/ FailsOtherwise(s)
    BY <2>3, EndsKeeps DEF Accepted, FailsOtherwise
  <2>4. CASE \E cap \in 1..Asked : CapRejected(s, cap)
    BY <2>4, CapRejectedKeeps
  <2>5. CASE \E field \in Refusable, status \in {400, 500} : FieldRejected(s, field, status)
    BY <2>5, FieldRejectedKeeps
  <2> QED
    BY <2>1, <2>2, <2>3, <2>4, <2>5 DEF SenderStep
<1> QED
  BY <1>1, <1>2

(* For any number of requests, keys and tokens: a body refused for its     *)
(* form with status 400 is never sent again, only what an upstream named   *)
(* is given up, the least limit it named is the one remembered, no key is  *)
(* used beyond its quota in a row, and an overloaded key is left for       *)
(* another one (provider.py, keypool.py, output_cap.py).                   *)
THEOREM RequestsAlwaysAdapt == FallbackSpec => []RequestsAdapt
<1>1. FallbackInv => RequestsAdapt
  <2> SUFFICES ASSUME FallbackInv PROVE RequestsAdapt
    OBVIOUS
  <2>1. CapsInv /\ keys.spree <= Quota
    BY FallbackAssumption DEF FallbackInv, FallbackTypes, KeysInv, KeyPool
  <2>2. \A s \in Sender : BodyFits(s) /\ KeyFits(s)
    BY DEF FallbackInv, SenderInv
  <2> QED
    BY <2>1, <2>2 DEF RequestsAdapt, CapsInv, BodyFits, KeyFits
<1> QED
  BY <1>1, FallbackInvInit, FallbackInvNext, PTL DEF FallbackSpec

-----------------------------------------------------------------------------
(* The settings the server runs with. *)

(* A file that is written has every setting.                               *)
LEMMA TargetIsComplete ==
  ASSUME NEW edits, NEW s \in Setting
  PROVE  /\ Target(edits)[s] # Unset
         /\ Edited(edits, s) = Unset => Target(edits)[s] = FirstOf(env[s], Template[s])
         /\ Edited(edits, s) # Unset => Target(edits)[s] = Edited(edits, s)
<1>1. Target(edits)[s] = FirstOf(Edited(edits, s), FirstOf(env[s], Template[s]))
  BY DEF Target
<1> QED
  BY <1>1, SettingsAssumption DEF FirstOf

(* What is taken over at once is what a start would load: of a setting     *)
(* that needs no restart, and of the token if it did not change.           *)
LEMMA PreparedIsEffective ==
  ASSUME NEW edits, NEW s \in Setting, Pending(edits) = {}, s = "auth" => process[s] = Unset
  PROVE  Prepared(Target(edits))[s] = Effective(Target(edits))[s]
<1> DEFINE T == Target(edits)
           e == Edited(edits, s)
<1>1. /\ T[s] # Unset
      /\ e = Unset => T[s] = FirstOf(env[s], Template[s])
      /\ e # Unset => T[s] = e
  BY TargetIsComplete
<1>2. s = "auth" => e = Unset \/ e = ValueState[s]
  BY DEF Pending, Needs
<1> SUFFICES Prepared(T)[s] = Effective(T)[s]
  OBVIOUS
<1> HIDE DEF T, e
<1>3. ValueState[s] = FirstOf(process[s], FirstOf(Dotenv(env, s), Template[s]))
  BY DEF ValueState
<1>4. /\ Prepared(T)[s] = Prefers(s, Dotenv(env, s), IF Locked(s) THEN ValueState[s] ELSE T[s])
      /\ Effective(T)[s] = Prefers(s, Dotenv(T, s), FirstOf(process[s], FirstOf(Dotenv(T, s), Default[s])))
  BY DEF Prepared, Effective
<1>5. CASE process[s] # Unset
  BY <1>3, <1>4, <1>5 DEF Prefers, Locked, FirstOf
<1>6. CASE process[s] = Unset /\ explicit[s] # Unset
  BY <1>3, <1>4, <1>6 DEF Prefers, Locked, FirstOf, Dotenv
<1>7. CASE process[s] = Unset /\ explicit[s] = Unset
  <2>1. Effective(T)[s] = T[s]
    BY <1>1, <1>4, <1>7 DEF Prefers, FirstOf, Dotenv
  <2>2. CASE s # "auth"
    BY <1>4, <1>7, <2>1, <2>2 DEF Prefers, Locked
  <2>3. CASE s = "auth"
    <3>1. ValueState[s] = FirstOf(env[s], Template[s])
      BY <1>3, <1>7 DEF FirstOf, Dotenv
    <3>2. T[s] = FirstOf(env[s], Template[s])
      BY <1>1, <1>2, <2>3, <3>1
    <3>3. Prepared(T)[s] = FirstOf(env[s], T[s])
      BY <1>4, <1>7, <2>3 DEF Prefers, Locked, FirstOf, Dotenv
    <3> QED
      BY <2>1, <3>2, <3>3 DEF FirstOf
  <2> QED
    BY <2>2, <2>3
<1> QED
  BY <1>5, <1>6, <1>7

(* Whatever the sources and the edits, the running server uses what a      *)
(* restart would load, unless a restart is due - but for an auth token     *)
(* that is in the process environment too (application.py                  *)
(* apply_admin_config, persistence.py prepare_admin_update, settings.py).  *)
THEOREM RunningStaysEffective == SettingsSpec => []RunningIsEffective
<1>1. SettingsInit => RunningIsEffective
  BY DEF SettingsInit, RunningIsEffective
<1>2. RunningIsEffective /\ [SettingsNext]_settingsVars => RunningIsEffective'
  <2> SUFFICES ASSUME RunningIsEffective, [SettingsNext]_settingsVars, ~due', NEW s \in Setting
               PROVE  running'[s] = Effective(env)'[s] \/ (s = "auth" /\ process'[s] # Unset)
    BY DEF RunningIsEffective
  <2>1. CASE UNCHANGED settingsVars
    <3>1. UNCHANGED <<process, explicit, env, running, due>>
      BY <2>1 DEF settingsVars
    <3>2. Effective(env)' = Effective(env)
      BY <3>1 DEF Effective, Dotenv
    <3> QED
      BY <3>1, <3>2 DEF RunningIsEffective
  <2>2. CASE Boots
    <3>1. env' = Migrated /\ running' = Effective(Migrated) /\ UNCHANGED <<process, explicit>>
      BY <2>2 DEF Boots
    <3>2. Effective(env)' = Effective(Migrated)
      BY <3>1 DEF Effective, Dotenv
    <3> QED
      BY <3>1, <3>2
  <2>3. ASSUME NEW edits \in Edits, Saves(edits)
        PROVE  running'[s] = Effective(env)'[s] \/ (s = "auth" /\ process'[s] # Unset)
    <3>1. /\ Pending(edits) = {} /\ running' = Prepared(Target(edits))
          /\ env' = Target(edits) /\ UNCHANGED <<process, explicit>>
      BY <2>3 DEF Saves
    <3>2. Effective(env)' = Effective(Target(edits))
      BY <3>1 DEF Effective, Dotenv
    <3> QED
      BY <3>1, <3>2, PreparedIsEffective
  <2> QED
    BY <2>1, <2>2, <2>3 DEF SettingsNext
<1> QED
  BY <1>1, <1>2, PTL DEF SettingsSpec

-----------------------------------------------------------------------------
(* The life of the server. *)

Supervisor == [scheduled : BOOLEAN, running : BOOLEAN, stop : BOOLEAN, gen : Nat]
RunLoop == [at : {"off", "top", "building", "running", "over"}, gen : Nat, cut : BOOLEAN]
Uvicorn == [at : {"none", "starting", "serving", "stopping", "returned"}, exit : BOOLEAN]
Starting == {"warming", "composing", "connecting", "waiting", "announcing"}
Emptying == {"voice", "providers", "accounts"}
Closing == {"quiescing", "draining", "releasing"} \cup Emptying
Halted == {"none", "abandoned", "closed", "unclosed"}
Runtime == [at : Starting \cup Closing \cup Halted \cup {"started"},
            why : {"none", "startup", "messaging", "shutdown"}]
Everything == Messaging \cup NewOwn \cup {"ingress"}

LifeTypes ==
  /\ sup \in Supervisor /\ loop \in RunLoop /\ server \in Uvicorn /\ rt \in Runtime
  /\ own \subseteq Everything /\ busy \in BOOLEAN /\ talk \in BOOLEAN

\* There is a server where the loop waits for one, and the runtime works only
\* for a server that starts or stops; what it is asked for reaches the server.
LoopInv ==
  /\ loop.at # "off" => thread = "alive"
  /\ sup.scheduled => loop.at = "off"
  /\ loop.at = "running" <=> server.at # "none"
  /\ server.at \in {"none", "returned"} => ~busy /\ ~talk /\ rt.at \in Halted
  /\ server.at = "serving" => rt.at = "started"
  /\ loop.at \in {"off", "top", "building"} => own = {}
  /\ server.at \in {"starting", "serving"} /\ (sup.stop \/ sup.gen # loop.gen) => server.exit

\* What the runtime owns at each step.
OwnInv ==
  /\ "ingress" \in own => own = Everything
  /\ rt.at \in {"warming", "composing"} => own = NewOwn
  /\ rt.at = "connecting" => own = NewOwn \cup Messaging
  /\ rt.at \in {"waiting", "announcing"} => own = Everything
  /\ rt.at \in {"started", "abandoned"} => own \in {Everything, NewOwn}
  /\ rt.at \in {"quiescing", "draining", "releasing"} => NewOwn \subseteq own
  /\ rt.at \in {"draining", "releasing"} => "ingress" \notin own /\ ~busy
  /\ rt.at = "releasing" => "workflow" \notin own /\ "cli" \notin own /\ ~talk
  /\ rt.at \in {"voice", "providers", "accounts"} => rt.why # "messaging"
  /\ rt.at = "voice" => own = NewOwn
  /\ rt.at = "providers" => own = {"providers", "accounts"}
  /\ rt.at = "accounts" => own = {"accounts"}
  /\ rt.at = "closed" => own = {}

LifeInv == LifeTypes /\ LoopInv /\ OwnInv /\ HandlersAreServed

(* What the steps of the supervisor and of the server leave of the runtime *)
(* it keeps.                                                               *)
LEMMA RuntimeIdle ==
  ASSUME LifeInv, UNCHANGED rtVars
  PROVE  /\ rt' \in Runtime /\ own' \subseteq Everything /\ busy' \in BOOLEAN /\ talk' \in BOOLEAN
         /\ OwnInv' /\ HandlersAreServed' /\ rt' = rt /\ own' = own /\ busy' = busy /\ talk' = talk
<1>1. rt' = rt /\ own' = own /\ busy' = busy /\ talk' = talk
  BY DEF rtVars
<1> QED
  BY <1>1 DEF LifeInv, LifeTypes, OwnInv, HandlersAreServed

(* The fields of the records.                                              *)
LEMMA LifeFields ==
  ASSUME LifeTypes
  PROVE  /\ sup.scheduled \in BOOLEAN /\ sup.running \in BOOLEAN /\ sup.stop \in BOOLEAN /\ sup.gen \in Nat
         /\ loop.at \in {"off", "top", "building", "running", "over"} /\ loop.gen \in Nat
         /\ loop.cut \in BOOLEAN
         /\ server.at \in {"none", "starting", "serving", "stopping", "returned"}
         /\ server.exit \in BOOLEAN
         /\ rt.at \in Starting \cup Closing \cup Halted \cup {"started"}
         /\ rt.why \in {"none", "startup", "messaging", "shutdown"}
  BY DEF LifeTypes, Supervisor, RunLoop, Uvicorn, Runtime

(* The supervisor schedules, begins and ends its loop.                     *)
LEMMA SupervisorKeeps ==
  ASSUME LifeInv,
         RunScheduled \/ ThreadStarts \/ RunBegins \/ ReadsGeneration \/ Decides \/ Quits
  PROVE  LifeInv'
<1>1. LifeTypes /\ LoopInv /\ OwnInv
  BY DEF LifeInv
<1>2. UNCHANGED rtVars
  BY DEF RunScheduled, ThreadStarts, RunBegins, ReadsGeneration, Decides, Quits
<1>3. /\ rt' = rt /\ own' = own /\ busy' = busy /\ talk' = talk /\ OwnInv' /\ HandlersAreServed'
  BY <1>2, RuntimeIdle
<1>4. sup' \in Supervisor /\ loop' \in RunLoop /\ server' \in Uvicorn
  <2>1. CASE RunScheduled \/ ThreadStarts
    BY <1>1, <2>1 DEF RunScheduled, ThreadStarts, LifeTypes, Supervisor
  <2>2. CASE RunBegins
    BY <1>1, <2>2 DEF RunBegins, LifeTypes, Supervisor, RunLoop
  <2>3. CASE ReadsGeneration
    BY <1>1, <2>3 DEF ReadsGeneration, LifeTypes, Supervisor, RunLoop
  <2>4. CASE Decides
    BY <1>1, <2>4 DEF Decides, LifeTypes, RunLoop, Uvicorn
  <2>5. CASE Quits
    BY <1>1, <2>5 DEF Quits, LifeTypes, Supervisor, Uvicorn
  <2> QED
    BY <2>1, <2>2, <2>3, <2>4, <2>5
<1>5. LoopInv'
  <2>1. CASE RunScheduled
    <3>1. /\ sup'.scheduled /\ sup'.stop = sup.stop /\ sup'.gen = sup.gen
          /\ loop' = loop /\ server' = server /\ thread = "none"
      BY <1>1, <2>1 DEF RunScheduled, LifeTypes, Supervisor
    <3> QED
      BY <1>1, <1>3, <3>1 DEF LoopInv
  <2>2. CASE ThreadStarts
    BY <1>1, <1>3, <2>2 DEF ThreadStarts, LoopInv
  <2>3. CASE RunBegins
    <3>1. /\ ~sup'.scheduled /\ sup'.stop = sup.stop /\ sup'.gen = sup.gen
          /\ loop'.at \in {"top", "over"} /\ loop.at = "off" /\ loop'.gen = loop.gen
          /\ server' = server /\ thread' = "alive"
      BY <1>1, <2>3 DEF RunBegins, LifeTypes, Supervisor, RunLoop
    <3> QED
      BY <1>1, <1>3, <3>1 DEF LoopInv
  <2>4. CASE ReadsGeneration
    <3>1. /\ sup' = sup /\ loop.at = "top" /\ loop'.at \in {"over", "building"}
          /\ server' = server /\ thread' = thread
      BY <1>1, <2>4 DEF ReadsGeneration, LifeTypes, RunLoop
    <3> QED
      BY <1>1, <1>3, <3>1 DEF LoopInv
  <2>5. CASE Decides
    <3>1. /\ sup' = sup /\ loop.at = "running" /\ server.at = "returned"
          /\ loop'.at \in {"over", "top"} /\ (loop'.at = "top" => rt.at = "closed")
          /\ server'.at = "none" /\ thread' = thread
      BY <1>1, <2>5 DEF Decides, LifeTypes, RunLoop
    <3>2. loop'.at = "top" => own = {}
      BY <1>1, <3>1 DEF OwnInv
    <3> QED
      BY <1>1, <1>3, <3>1, <3>2 DEF LoopInv
  <2>6. CASE Quits
    <3>1. /\ ~sup'.scheduled /\ sup'.stop /\ loop' = loop /\ thread' = thread
          /\ server'.at = server.at /\ (server'.at # "none" => server'.exit)
      BY <1>1, <2>6 DEF Quits, LifeTypes, Supervisor, Uvicorn
    <3> QED
      BY <1>1, <1>3, <3>1 DEF LoopInv
  <2> QED
    BY <2>1, <2>2, <2>3, <2>4, <2>5, <2>6
<1> QED
  BY <1>1, <1>3, <1>4, <1>5 DEF LifeInv, LifeTypes

(* A restart is asked for while a server runs, or none is made yet.        *)
LEMMA ServerToldKeeps ==
  ASSUME LifeInv, Restarts \/ Interrupted \/ StartupServes
  PROVE  LifeInv'
<1>1. LifeTypes /\ LoopInv /\ OwnInv
  BY DEF LifeInv
<1>2. UNCHANGED rtVars
  BY DEF Restarts, Interrupted, StartupServes
<1>3. /\ rt' = rt /\ own' = own /\ busy' = busy /\ talk' = talk /\ OwnInv' /\ HandlersAreServed'
  BY <1>2, RuntimeIdle
<1>4. CASE Restarts
  <2>1. /\ sup'.scheduled = sup.scheduled /\ sup'.stop = sup.stop /\ sup' \in Supervisor
        /\ loop' = loop /\ thread' = thread
    BY <1>1, <1>4 DEF Restarts, LifeTypes, Supervisor
  <2>2. /\ server' \in Uvicorn /\ server'.at = server.at
        /\ ~sup.scheduled /\ server.at # "none" => server'.exit
    BY <1>1, <1>4 DEF Restarts, LifeTypes, Uvicorn
  <2>3. server.at # "none" => ~sup.scheduled
    BY <1>1 DEF LoopInv
  <2>4. LoopInv'
    BY <1>1, <1>3, <2>1, <2>2, <2>3 DEF LoopInv
  <2> QED
    BY <1>1, <1>3, <2>1, <2>2, <2>4 DEF LifeInv, LifeTypes
<1>5. CASE Interrupted
  <2>1. /\ sup' = sup /\ loop' \in RunLoop /\ loop'.at = loop.at /\ loop'.gen = loop.gen
        /\ server' \in Uvicorn /\ server'.at = server.at /\ server'.exit /\ thread' = thread
    BY <1>1, <1>5 DEF Interrupted, LifeTypes, RunLoop, Uvicorn
  <2>2. LoopInv'
    BY <1>1, <1>3, <2>1 DEF LoopInv
  <2> QED
    BY <1>1, <1>3, <2>1, <2>2 DEF LifeInv, LifeTypes
<1>6. CASE StartupServes
  <2>1. /\ sup' = sup /\ loop' = loop /\ thread' = thread /\ rt.at = "started"
        /\ server' \in Uvicorn /\ server.at = "starting" /\ server'.at = "serving"
        /\ server'.exit = server.exit
    BY <1>1, <1>6 DEF StartupServes, LifeTypes, Uvicorn
  <2>2. LoopInv'
    BY <1>1, <1>3, <2>1 DEF LoopInv
  <2> QED
    BY <1>1, <1>3, <2>1, <2>2 DEF LifeInv, LifeTypes
<1> QED
  BY <1>4, <1>5, <1>6

(* A server is made, returns, and is left behind.                          *)
LEMMA ServerTurnKeeps ==
  ASSUME LifeInv, Publishes \/ StartupReturns \/ ShutdownReturns \/ ShutdownBegins \/ RunEndsHere
  PROVE  LifeInv'
<1>1. LifeTypes /\ LoopInv /\ OwnInv /\ HandlersAreServed
  BY DEF LifeInv
<1>2. CASE Publishes
  <2>1. /\ sup' = sup /\ thread' = thread /\ loop.at = "building"
        /\ loop' \in RunLoop /\ loop'.at = "running" /\ loop'.gen = loop.gen
        /\ server' \in Uvicorn /\ server'.at = "starting"
        /\ server'.exit = (sup.stop \/ sup.gen # loop.gen)
    BY <1>1, <1>2 DEF Publishes, LifeTypes, RunLoop, Uvicorn
  <2>2. /\ rt' \in Runtime /\ rt'.at = "warming" /\ own' = NewOwn /\ busy' = busy /\ talk' = talk
    BY <1>2 DEF Publishes, Runtime, Starting
  <2>3. ~busy /\ ~talk /\ own' \subseteq Everything
    BY <1>1, <2>1, <2>2 DEF LoopInv, Everything
  <2>4. LoopInv'
    BY <1>1, <2>1, <2>2, <2>3 DEF LoopInv
  <2>5. OwnInv' /\ HandlersAreServed'
    BY <2>2, <2>3 DEF OwnInv, HandlersAreServed, NewOwn
  <2> QED
    BY <1>1, <2>1, <2>2, <2>3, <2>4, <2>5 DEF LifeInv, LifeTypes
<1>3. CASE StartupReturns \/ ShutdownReturns
  <2>1. /\ sup' = sup /\ loop' = loop /\ thread' = thread /\ own' = own
        /\ server' \in Uvicorn /\ server'.at = "returned" /\ server.at # "none" /\ ~busy' /\ ~talk'
        /\ busy' \in BOOLEAN /\ talk' \in BOOLEAN
    BY <1>1, <1>3 DEF StartupReturns, ShutdownReturns, ServerReturns, LifeTypes, Uvicorn
  <2>2. /\ rt' \in Runtime /\ rt'.at \in {"abandoned", "closed", "unclosed"}
        /\ rt'.at = "abandoned" => rt.at = "started"
        /\ rt'.at # "abandoned" => rt' = rt
    BY <1>1, <1>3 DEF StartupReturns, ShutdownReturns, LifeTypes, Runtime, Halted
  <2>3. LoopInv'
    BY <1>1, <2>1, <2>2 DEF LoopInv, Halted
  <2>4. OwnInv'
    BY <1>1, <2>1, <2>2 DEF OwnInv
  <2> QED
    BY <1>1, <2>1, <2>2, <2>3, <2>4 DEF LifeInv, LifeTypes, HandlersAreServed
<1>4. CASE ShutdownBegins
  <2>1. /\ sup' = sup /\ loop' = loop /\ thread' = thread /\ own' = own /\ busy' = busy /\ talk' = talk
        /\ server' \in Uvicorn /\ server.at = "serving" /\ server'.at = "stopping"
        /\ rt' \in Runtime /\ rt'.at = "quiescing"
    BY <1>1, <1>4 DEF ShutdownBegins, LifeTypes, Uvicorn, Runtime, Closing
  <2>2. NewOwn \subseteq own
    BY <1>1, <2>1 DEF LoopInv, OwnInv, Everything
  <2>3. LoopInv'
    BY <1>1, <2>1 DEF LoopInv
  <2>4. OwnInv' /\ HandlersAreServed'
    BY <1>1, <2>1, <2>2 DEF OwnInv, HandlersAreServed
  <2> QED
    BY <1>1, <2>1, <2>3, <2>4 DEF LifeInv, LifeTypes
<1>5. CASE RunEndsHere
  <2>1. /\ loop.at = "over" /\ loop' \in RunLoop /\ loop'.at = "off"
        /\ sup' \in Supervisor /\ sup'.scheduled = sup.scheduled
        /\ server' = server /\ busy' = busy /\ talk' = talk
        /\ rt' \in Runtime /\ rt'.at = "none" /\ own' = {}
    BY <1>1, <1>5 DEF RunEndsHere, LifeTypes, Supervisor, RunLoop, Runtime, Halted
  <2>2. server.at = "none" /\ ~busy /\ ~talk
    BY <1>1, <2>1 DEF LoopInv
  <2>3. LoopInv'
    BY <1>1, <2>1, <2>2 DEF LoopInv, Halted
  <2>4. OwnInv' /\ HandlersAreServed'
    BY <2>1, <2>2 DEF OwnInv, HandlersAreServed
  <2> QED
    BY <1>1, <2>1, <2>3, <2>4 DEF LifeInv, LifeTypes
<1> QED
  BY <1>2, <1>3, <1>4, <1>5

-----------------------------------------------------------------------------
(* The runtime works for a server that starts or stops, so what is claimed *)
(* of the loop stays.                                                      *)
LEMMA RuntimeWorks ==
  ASSUME LifeInv, UNCHANGED supVars, rt.at \in Starting \cup Closing,
         rt' \in Runtime, own' \subseteq Everything, busy' \in BOOLEAN, talk' \in BOOLEAN,
         OwnInv', HandlersAreServed'
  PROVE  LifeInv'
<1>1. LifeTypes /\ LoopInv
  BY DEF LifeInv
<1>2. sup' = sup /\ loop' = loop /\ thread' = thread /\ server' = server
  BY DEF supVars
<1>3. server.at \notin {"none", "returned", "serving"}
  BY <1>1 DEF LoopInv, Starting, Closing, Emptying, Halted
<1>4. LoopInv'
  BY <1>1, <1>2, <1>3 DEF LoopInv
<1> QED
  BY <1>1, <1>2, <1>4 DEF LifeInv, LifeTypes

(* The record of a step.                                                   *)
LEMMA StepGoes ==
  ASSUME rt \in Runtime, NEW from, NEW to \in Starting \cup Closing \cup Halted \cup {"started"},
         Step(from, to)
  PROVE  rt.at = from /\ rt' \in Runtime /\ rt'.at = to /\ rt'.why = rt.why
  BY DEF Step, Runtime

(* Where a failed step leads: back to the beginning only from messaging.   *)
LEMMA GiveUpGoes ==
  ASSUME rt \in Runtime
  PROVE  /\ GiveUp \in Runtime /\ GiveUp.at \in {"quiescing", "unclosed"}
         /\ GiveUp.at = "quiescing" => rt.why = "messaging"
  BY DEF GiveUp, Runtime, Closing, Halted

(* The runtime starts: what it made is everything the next step needs.     *)
LEMMA StartKeeps ==
  ASSUME LifeInv,
         Warms \/ Composes \/ Connects \/ BecomesReady \/ Announces
  PROVE  LifeInv'
<1>1. LifeTypes /\ LoopInv /\ OwnInv /\ HandlersAreServed /\ rt \in Runtime
  BY DEF LifeInv, LifeTypes
<1>2. UNCHANGED supVars /\ busy' = busy /\ talk' = talk
  BY DEF Warms, Composes, Connects, BecomesReady, Announces
<1>3. CASE Warms
  <2>1. rt.at = "warming" /\ rt' \in Runtime /\ rt'.at \in {"started", "composing"} /\ own' = own
    BY <1>1, <1>3, StepGoes DEF Warms, Starting
  <2>2. OwnInv' /\ HandlersAreServed'
    BY <1>1, <1>2, <2>1 DEF OwnInv, HandlersAreServed
  <2> QED
    BY <1>1, <1>2, <2>1, <2>2, RuntimeWorks DEF LifeTypes, Starting
<1>4. CASE Composes
  <2>1. /\ rt.at = "composing" /\ rt' \in Runtime /\ rt'.at = "connecting"
        /\ own' = NewOwn \cup Messaging
    BY <1>1, <1>4, StepGoes DEF Composes, Starting, OwnInv
  <2>2. OwnInv' /\ HandlersAreServed'
    BY <1>1, <1>2, <2>1 DEF OwnInv, HandlersAreServed, Messaging, NewOwn
  <2> QED
    BY <1>1, <1>2, <2>1, <2>2, RuntimeWorks DEF LifeTypes, Starting, Everything
<1>5. CASE Connects
  <2>1. /\ rt.at = "connecting" /\ rt' \in Runtime /\ rt'.at \in {"waiting", "announcing"}
        /\ own' = Everything
    BY <1>1, <1>5, StepGoes DEF Connects, Starting, OwnInv, Everything
  <2>2. OwnInv' /\ HandlersAreServed'
    BY <1>1, <1>2, <2>1 DEF OwnInv, HandlersAreServed, Everything, Messaging, NewOwn
  <2> QED
    BY <1>1, <1>2, <2>1, <2>2, RuntimeWorks DEF LifeTypes, Starting
<1>6. CASE BecomesReady \/ Announces
  <2>1. /\ rt.at \in {"waiting", "announcing"} /\ rt' \in Runtime
        /\ rt'.at \in {"announcing", "started"}
        /\ own' = own
    BY <1>1, <1>6, StepGoes DEF BecomesReady, Announces, Starting
  <2>2. OwnInv' /\ HandlersAreServed'
    BY <1>1, <1>2, <2>1 DEF OwnInv, HandlersAreServed
  <2> QED
    BY <1>1, <1>2, <2>1, <2>2, RuntimeWorks DEF LifeTypes, Starting
<1> QED
  BY <1>3, <1>4, <1>5, <1>6

(* A step of the start fails: what was made so far is closed in order.     *)
LEMMA StartFailsKeeps ==
  ASSUME LifeInv, WarmFails \/ ComposeFails \/ ConnectFails \/ AnnounceFails
  PROVE  LifeInv'
<1>1. LifeTypes /\ LoopInv /\ OwnInv /\ HandlersAreServed /\ rt \in Runtime
  BY DEF LifeInv, LifeTypes
<1>2. /\ UNCHANGED supVars /\ busy' = busy /\ talk' = talk
      /\ rt' \in Runtime /\ rt'.at = "quiescing"
      /\ rt.at \in {"warming", "composing", "connecting", "waiting", "announcing"}
  BY DEF WarmFails, ComposeFails, ConnectFails, AnnounceFails, StartCloses, Runtime, Closing
<1>3. /\ NewOwn \subseteq own /\ NewOwn \subseteq own' /\ own \subseteq own'
      /\ own' \subseteq Everything
      /\ "ingress" \in own' => "ingress" \in own
  <2>1. NewOwn \subseteq own
    BY <1>1, <1>2 DEF OwnInv, Everything
  <2>2. CASE ComposeFails
    <3>1. PICK made \in {{}, {"delivery"}, {"delivery", "cli"}, Messaging} : own' = own \cup made
      BY <2>2 DEF ComposeFails
    <3>2. "ingress" \notin made /\ made \subseteq Everything
      BY DEF Messaging, Everything
    <3> QED
      BY <1>1, <2>1, <3>1, <3>2 DEF LifeTypes
  <2>3. CASE WarmFails \/ ConnectFails \/ AnnounceFails
    BY <1>1, <2>1, <2>3 DEF WarmFails, ConnectFails, AnnounceFails, LifeTypes
  <2> QED
    BY <1>1, <2>2, <2>3
<1>4. OwnInv' /\ HandlersAreServed'
  BY <1>1, <1>2, <1>3 DEF OwnInv, HandlersAreServed
<1> QED
  BY <1>1, <1>2, <1>3, <1>4, RuntimeWorks DEF LifeTypes, Starting

(* The runtime closes in order: no message finds what it needs gone.       *)
LEMMA CloseKeeps ==
  ASSUME LifeInv, Quiesces \/ WorkflowDrains \/ Releases
  PROVE  LifeInv'
<1>1. LifeTypes /\ LoopInv /\ OwnInv /\ HandlersAreServed /\ rt \in Runtime /\ own \subseteq Everything
  BY DEF LifeInv, LifeTypes
<1>2. UNCHANGED supVars
  BY DEF Quiesces, WorkflowDrains, Releases
<1>3. CASE Quiesces
  <2>1. /\ rt.at = "quiescing" /\ rt' \in Runtime /\ rt'.at = "draining"
        /\ ~busy /\ busy' = busy /\ talk' = talk /\ own' = own \ {"ingress"}
    BY <1>1, <1>3, StepGoes DEF Quiesces, Closing
  <2>2. OwnInv' /\ HandlersAreServed'
    BY <1>1, <2>1 DEF OwnInv, HandlersAreServed, NewOwn
  <2> QED
    BY <1>1, <1>2, <2>1, <2>2, RuntimeWorks DEF LifeTypes, Closing
<1>4. CASE WorkflowDrains
  <2>1. /\ rt.at = "draining" /\ rt' \in Runtime /\ rt'.at = "releasing"
        /\ ~talk' /\ talk' \in BOOLEAN /\ busy' = busy /\ own' = own \ {"workflow", "cli"}
    BY <1>1, <1>4, StepGoes DEF WorkflowDrains, Closing
  <2>2. OwnInv' /\ HandlersAreServed'
    BY <1>1, <2>1 DEF OwnInv, HandlersAreServed, NewOwn
  <2> QED
    BY <1>1, <1>2, <2>1, <2>2, RuntimeWorks DEF LifeTypes, Closing
<1>5. CASE Releases
  <2>1. /\ rt.at = "releasing" /\ rt' \in Runtime /\ rt'.at \in {"started", "voice"}
        /\ (rt'.at = "voice" => rt'.why # "messaging")
        /\ talk' = talk /\ busy' = busy /\ own' = own \ {"delivery"}
    BY <1>1, <1>5, StepGoes DEF Releases, Closing, Emptying
  <2>2. own' = NewOwn
    BY <1>1, <2>1 DEF OwnInv, NewOwn, Everything, Messaging
  <2>3. ~busy /\ ~talk
    BY <1>1, <2>1 DEF OwnInv
  <2>4. OwnInv' /\ HandlersAreServed'
    BY <2>1, <2>2, <2>3 DEF OwnInv, HandlersAreServed, NewOwn
  <2> QED
    BY <1>1, <1>2, <2>1, <2>4, RuntimeWorks DEF LifeTypes, Closing
<1> QED
  BY <1>3, <1>4, <1>5

(* What is not of the messaging is closed one after the other.             *)
LEMMA EmptyKeeps ==
  ASSUME LifeInv, NEW resource \in NewOwn, Closes(resource) \/ CloseFails(resource)
  PROVE  LifeInv'
<1>1. LifeTypes /\ LoopInv /\ OwnInv /\ HandlersAreServed /\ rt \in Runtime /\ own \subseteq Everything
  BY DEF LifeInv, LifeTypes
<1>2. UNCHANGED supVars /\ rt.at = resource /\ busy' = busy /\ talk' = talk
  BY DEF Closes, CloseFails, StepFails, Step
<1>3. /\ ~busy /\ ~talk /\ "ingress" \notin own
  BY <1>1, <1>2 DEF OwnInv, HandlersAreServed, NewOwn, Messaging, Everything
<1>4. CASE Closes(resource)
  <2>1. /\ rt' \in Runtime /\ rt'.at = After(resource) /\ own' = own \ {resource} /\ rt'.why = rt.why
        /\ After(resource) \in {"providers", "accounts", "closed"}
    <3>1. After(resource) \in {"providers", "accounts", "closed"}
      BY DEF After, NewOwn
    <3> QED
      BY <1>1, <1>4, <3>1, StepGoes DEF Closes, Closing, Emptying, Halted
  <2>2. /\ rt'.why # "messaging"
        /\ rt'.at = "providers" => own' = {"providers", "accounts"}
        /\ rt'.at = "accounts" => own' = {"accounts"}
        /\ rt'.at = "closed" => own' = {}
    BY <1>1, <1>2, <2>1 DEF OwnInv, NewOwn, After
  <2>3. OwnInv' /\ HandlersAreServed'
    BY <1>2, <1>3, <2>1, <2>2 DEF OwnInv, HandlersAreServed
  <2> QED
    BY <1>1, <1>2, <2>1, <2>3, RuntimeWorks DEF LifeTypes, Closing, Emptying, NewOwn
<1>5. CASE CloseFails(resource)
  <2>1. own' = own /\ rt' \in Runtime /\ rt'.at = "unclosed"
    BY <1>1, <1>2, <1>5, GiveUpGoes DEF CloseFails, StepFails, OwnInv, NewOwn
  <2>2. OwnInv' /\ HandlersAreServed'
    BY <1>2, <1>3, <2>1 DEF OwnInv, HandlersAreServed
  <2> QED
    BY <1>1, <1>2, <2>1, <2>2, RuntimeWorks DEF LifeTypes, Closing, Emptying, NewOwn
<1> QED
  BY <1>4, <1>5

(* A step of the closing fails: nothing goes that a handler still needs.   *)
LEMMA CloseFailsKeeps ==
  ASSUME LifeInv, QuiesceFails \/ DrainFails \/ ReleaseFails
  PROVE  LifeInv'
<1>1. /\ LifeTypes /\ LoopInv /\ OwnInv /\ HandlersAreServed /\ rt \in Runtime
      /\ own \subseteq Everything
      /\ busy \in BOOLEAN /\ talk \in BOOLEAN
  BY DEF LifeInv, LifeTypes
<1>2. /\ UNCHANGED supVars /\ busy' = busy /\ rt' \in Runtime /\ rt'.at \in {"quiescing", "unclosed"}
      /\ rt.at \in {"quiescing", "draining", "releasing"}
  BY <1>1, GiveUpGoes DEF QuiesceFails, DrainFails, ReleaseFails, StepFails
<1>3. own' \in {own, own \ {"ingress"}} /\ talk' \in BOOLEAN /\ (talk' => talk)
  <2>1. CASE QuiesceFails
    BY <1>1, <2>1 DEF QuiesceFails
  <2>2. CASE DrainFails
    <3>1. own' = own /\ talk' \in {talk, FALSE}
      BY <2>2 DEF DrainFails
    <3>2. CASE talk' = talk
      BY <1>1, <3>1, <3>2
    <3>3. CASE talk' = FALSE
      BY <3>1, <3>3
    <3> QED
      BY <3>1, <3>2, <3>3, Zenon
  <2>3. CASE ReleaseFails
    BY <1>1, <2>3 DEF ReleaseFails
  <2> QED
    BY <2>1, <2>2, <2>3
<1>4. NewOwn \subseteq own
  BY <1>1, <1>2 DEF OwnInv
<1>5. CASE own' = own
  <2>1. OwnInv'
    BY <1>1, <1>2, <1>4, <1>5 DEF OwnInv
  <2>2. HandlersAreServed'
    BY <1>1, <1>2, <1>3, <1>5 DEF HandlersAreServed
  <2> QED
    BY <1>1, <1>2, <1>3, <1>5, <2>1, <2>2, RuntimeWorks DEF Closing
<1>6. CASE own' = own \ {"ingress"}
  <2>1. OwnInv'
    BY <1>1, <1>2, <1>4, <1>6 DEF OwnInv, NewOwn
  <2>2. HandlersAreServed'
    BY <1>1, <1>2, <1>3, <1>6 DEF HandlersAreServed, Messaging, NewOwn
  <2> QED
    BY <1>1, <1>2, <1>3, <1>6, <2>1, <2>2, RuntimeWorks DEF Closing
<1> QED
  BY <1>3, <1>5, <1>6

(* A message comes while the platform delivers, and its turn goes on.      *)
LEMMA MessageKeeps ==
  ASSUME LifeInv, HandlerBegins \/ HandlerEnds \/ TurnEnds
  PROVE  LifeInv'
<1>1. /\ LifeTypes /\ LoopInv /\ OwnInv /\ HandlersAreServed
  BY DEF LifeInv, LifeTypes
<1>2. /\ sup' = sup /\ loop' = loop /\ thread' = thread /\ server' = server
      /\ rt' = rt /\ own' = own
  BY DEF HandlerBegins, HandlerEnds, TurnEnds, supVars
<1>3. /\ busy' \in BOOLEAN /\ talk' \in BOOLEAN
      /\ busy' => busy \/ ("ingress" \in own /\ server.at \in {"starting", "serving", "stopping"})
      /\ talk' => talk \/ busy
  <2>1. busy \in BOOLEAN /\ talk \in BOOLEAN
    BY <1>1 DEF LifeTypes
  <2>2. CASE HandlerBegins
    BY <2>1, <2>2 DEF HandlerBegins
  <2>3. CASE HandlerEnds
    BY <2>1, <2>3 DEF HandlerEnds
  <2>4. CASE TurnEnds
    BY <2>1, <2>4 DEF TurnEnds
  <2> QED
    BY <2>2, <2>3, <2>4
<1>4. HandlersAreServed'
  BY <1>1, <1>2, <1>3 DEF OwnInv, HandlersAreServed, Everything, Messaging, NewOwn
<1>5. rt.at = "releasing" => ~talk'
  BY <1>1, <1>3 DEF OwnInv
<1>6. OwnInv'
  BY <1>1, <1>2, <1>3, <1>5 DEF OwnInv
<1>7. LoopInv'
  BY <1>1, <1>2, <1>3 DEF LoopInv
<1> QED
  BY <1>1, <1>2, <1>3, <1>4, <1>6, <1>7 DEF LifeInv, LifeTypes

-----------------------------------------------------------------------------
(* Before the loop first runs there is nothing to own.                     *)
LEMMA LifeInvInit == LifeInit => LifeInv
<1> SUFFICES ASSUME LifeInit PROVE LifeInv
  OBVIOUS
<1>1. LifeTypes
  BY DEF LifeInit, LifeTypes, Supervisor, RunLoop, Uvicorn, Runtime, Halted
<1>2. LoopInv
  BY DEF LifeInit, LoopInv, Halted
<1>3. OwnInv /\ HandlersAreServed
  BY DEF LifeInit, OwnInv, HandlersAreServed
<1> QED
  BY <1>1, <1>2, <1>3 DEF LifeInv

(* No step of the supervisor, the server, the runtime or a message breaks it. *)
LEMMA LifeInvNext == LifeInv /\ [LifeNext]_lifeVars => LifeInv'
<1> SUFFICES ASSUME LifeInv, [LifeNext]_lifeVars PROVE LifeInv'
  OBVIOUS
<1>1. CASE UNCHANGED lifeVars
  <2>1. UNCHANGED <<sup, loop, thread, server, rt, own, busy, talk>>
    BY <1>1 DEF lifeVars
  <2>2. LifeTypes' /\ HandlersAreServed'
    BY <2>1 DEF LifeInv, LifeTypes, HandlersAreServed
  <2>3. LoopInv' /\ OwnInv'
    BY <2>1 DEF LifeInv, LoopInv, OwnInv
  <2> QED
    BY <2>2, <2>3 DEF LifeInv
<1>2. CASE LifeNext
  BY <1>2, SupervisorKeeps, ServerToldKeeps, ServerTurnKeeps, StartKeeps, StartFailsKeeps, CloseKeeps,
     EmptyKeeps, CloseFailsKeeps, MessageKeeps DEF LifeNext
<1> QED
  BY <1>1, <1>2

(* However often the server restarts and whatever step fails: a message    *)
(* handler finds everything it needs, no server runs with half of its      *)
(* messaging, and the next server is made only after the one before it     *)
(* released everything (application.py _cleanup_messaging,                 *)
(* _close_owned_resources, commands.py run).                               *)
THEOREM LifecycleStaysOrdered == LifeSpec => []LifecycleIsOrdered
<1>1. LifeInv => LifecycleIsOrdered
  <2> SUFFICES ASSUME LifeInv PROVE LifecycleIsOrdered
    OBVIOUS
  <2>1. LoopInv /\ OwnInv /\ HandlersAreServed
    BY DEF LifeInv
  <2>2. NothingIsHalfOpen
    BY <2>1 DEF OwnInv, NothingIsHalfOpen, Everything
  <2>3. OneServerAtATime
    BY <2>1 DEF LoopInv, OneServerAtATime
  <2> QED
    BY <2>1, <2>2, <2>3 DEF LifecycleIsOrdered
<1> QED
  BY <1>1, LifeInvInit, LifeInvNext, PTL DEF LifeSpec

-----------------------------------------------------------------------------
(* Which model answers. *)

(* The settings are valid ones, and the client keeps a name.               *)
RoutingInv == settings \in Savable /\ chosen \in Name

(* A reference to a provider of the catalog is what is sent to.            *)
LEMMA DirectIsSent ==
  ASSUME RoutingInv, chosen.ref.provider \in Catalog
  PROVE  LET to == Resolved(settings, chosen, NewRouter)
         IN to = chosen.ref /\ Outcome(settings, to) \in {"served", "unavailable"}
<1>1. Resolved(settings, chosen, NewRouter) = chosen.ref
  BY DEF Resolved, DirectRoute, Direct
<1>2. chosen.ref.provider # NoProvider /\ chosen.ref.provider \notin Numbered
  BY RoutingAssumption
<1>3. Outcome(settings, chosen.ref) \in {"served", "unavailable"}
  BY <1>2 DEF Outcome
<1> QED
  BY <1>1, <1>3

(* A name that says no thinking is asked for without.                      *)
LEMMA QuietIsQuiet ==
  ASSUME chosen.ref.provider \in Catalog, chosen.form = "quiet", NEW i \in Intent
  PROVE  Reasoning(settings, chosen, i) = NoReasoning
<1>1. Preference(settings, chosen) = "off"
  BY DEF Preference, DirectRoute, Direct
<1>2. PreferredPolicy("off", i) = NoReasoning
  BY DEF PreferredPolicy
<1>3. PreferredPolicy(Preference(settings, chosen), i) = NoReasoning
  BY <1>1, <1>2
<1> QED
  BY <1>3 DEF Reasoning

(* A new router takes the first of the endpoints that list a model.        *)
LEMMA FirstIsPicked ==
  ASSUME NEW m \in ModelId, NEW C \in SUBSET Numbered, C # {}
  PROVE  Picked(NewRouter, m, C) \in C
<1>1. NumEndpoints \in Nat /\ C \subseteq Nat /\ C # {}
  BY RoutingAssumption DEF Numbered
<1>2. IsFiniteSet(C)
  <2>1. IsFiniteSet(1..NumEndpoints) /\ C \subseteq 1..NumEndpoints
    BY <1>1, FS_Interval DEF Numbered
  <2> QED
    BY <2>1, FS_Subset
<1>3. Cardinality(C) \in Nat /\ Cardinality(C) # 0
  BY <1>2, FS_CardinalityType, FS_EmptySet
<1>4. NewRouter[m] % Cardinality(C) = 0
  BY <1>3 DEF NewRouter
<1>5. PICK x \in C : \A y \in C : x <= y
  BY <1>1, LeastNumber
<1>6. {c \in C : c < x} = {}
  <2>1. ASSUME NEW c \in C PROVE ~(c < x)
    <3>1. c \in Nat /\ x \in Nat /\ x <= c
      BY <1>1, <1>5
    <3> QED
      BY <3>1
  <2> QED
    BY <2>1
<1>7. Cardinality({c \in C : c < x}) = 0
  BY <1>6, FS_EmptySet
<1>8. \E n \in C : Cardinality({c \in C : c < n}) = NewRouter[m] % Cardinality(C)
  BY <1>4, <1>7
<1> QED
  BY <1>8 DEF Picked

(* A model that endpoints list is sent to one that lists it.               *)
LEMMA ListedIsServed ==
  ASSUME RoutingInv, chosen.ref.provider \notin Catalog,
         RouteOf(settings, chosen).provider = NoProvider,
         NEW n \in settings.on, RouteOf(settings, chosen).model \in settings.lists[n]
  PROVE  LET to == Resolved(settings, chosen, NewRouter)
             route == RouteOf(settings, chosen)
         IN /\ to.provider \in settings.on /\ route.model \in settings.lists[to.provider]
            /\ Outcome(settings, to) = "served"
<1> DEFINE m == RouteOf(settings, chosen).model
           C == Candidates(settings, m)
           p == Picked(NewRouter, m, C)
<1>1. settings \in Settings /\ settings.on \subseteq Numbered /\ settings.lists \in [Numbered -> SUBSET ModelId]
  BY RoutingAssumption DEF RoutingInv, Settings
<1>2. m \in ModelId /\ n \in C /\ C \in SUBSET Numbered
  BY <1>1 DEF Candidates
<1>3. p \in C
  BY <1>2, FirstIsPicked
<1>4. p \in settings.on /\ m \in settings.lists[p] /\ p \in Numbered /\ p # NoProvider
  BY <1>1, <1>3, RoutingAssumption DEF Candidates
<1>5. Resolved(settings, chosen, NewRouter) = Ref(p, m)
  BY <1>2 DEF Resolved, DirectRoute, Direct
<1>6. Ref(p, m).provider = p
  BY DEF Ref
<1>7. Outcome(settings, Ref(p, m)) = "served"
  BY <1>4, <1>6 DEF Outcome
<1> QED
  BY <1>4, <1>5, <1>6, <1>7

(* Whatever is saved and discovered, a name of a provider of the catalog   *)
(* reaches its model or is refused, a no-thinking name asks for no         *)
(* reasoning, and a model that endpoints list is served by one that lists  *)
(* it (ModelRouter.resolve, model_cache.py).                               *)
THEOREM NamesStayHonoured == RoutingSpec => []NamesAreHonoured
<1>1. RoutingInit => RoutingInv
  BY DEF RoutingInit, RoutingInv
<1>2. RoutingInv /\ [RoutingNext]_routingVars => RoutingInv'
  <2> SUFFICES ASSUME RoutingInv, [RoutingNext]_routingVars PROVE RoutingInv'
    OBVIOUS
  <2>1. CASE UNCHANGED routingVars
    BY <2>1 DEF routingVars, RoutingInv
  <2>2. CASE \E s \in Savable : SavesSettings(s)
    BY <2>2 DEF SavesSettings, RoutingInv
  <2>3. ASSUME NEW p \in Catalog \cup Numbered, NEW ms \in SUBSET ModelId,
               NEW found \in [ms -> {"yes", "no"}], Discovers(p, found)
        PROVE  RoutingInv'
    BY <2>3 DEF Discovers, RoutingInv
  <2>4. CASE \E name \in Name : Chooses(name)
    BY <2>4 DEF Chooses, RoutingInv
  <2>5. CASE Requests
    BY <2>5 DEF Requests, RoutingInv
  <2> QED
    BY <2>1, <2>2, <2>3, <2>4, <2>5 DEF RoutingNext
<1>3. RoutingInv => NamesAreHonoured
  <2> SUFFICES ASSUME RoutingInv PROVE NamesAreHonoured
    OBVIOUS
  <2> QED
    BY DirectIsSent, QuietIsQuiet, ListedIsServed DEF NamesAreHonoured
<1> QED
  BY <1>1, <1>2, <1>3, PTL DEF RoutingSpec

==============================================================================
