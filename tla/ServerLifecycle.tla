-------------------------- MODULE ServerLifecycle --------------------------
(***************************************************************************)
(* The life of the server process.  A supervisor runs one server after the *)
(* other on its thread; the tray of the desktop and the Admin page ask it  *)
(* to restart or to stop.  Each server has a runtime that owns everything  *)
(* it opened, takes messages from a platform, and releases what it owns in *)
(* order: it stops taking messages, drains the workflow, and only then     *)
(* closes what the messages need.  A step that fails keeps the rest.       *)
(***************************************************************************)
EXTENDS Naturals

CONSTANTS MaxRestarts, MaxStepFaults

VARIABLES
  sup,       \* ServerSupervisor
  loop,      \* its run(): where it is, the restart generation it last read
  thread,    \* the thread of run(): "none", "scheduled", "alive"
  tray,      \* the desktop's tray: "none" for a console, "shown", "quit"
  server,    \* the uvicorn server of the current turn of the loop
  rt,        \* ApplicationRuntime: where it is, and why it is closing
  own,       \* what it still owns
  platform,  \* "telegram", "discord" or "none"
  busy,      \* a message handler of the platform runs
  talk,      \* a turn of the workflow runs
  stepFaults

lifeVars == <<sup, loop, thread, tray, server, rt, own, platform, busy, talk, stepFaults>>
supVars == <<sup, loop, thread, tray, server>>
rtVars == <<rt, own, platform, busy, talk>>

\* delivery stands for the platform's runtime: its outbox, limiter and SDK.
Messaging == {"delivery", "cli", "workflow"}
NewOwn == {"voice", "providers", "accounts"}

Faulty == stepFaults < MaxStepFaults /\ stepFaults' = stepFaults + 1

-----------------------------------------------------------------------------
LifeInit ==
  /\ sup = [scheduled |-> FALSE, running |-> FALSE, stop |-> FALSE, gen |-> 0]
  /\ loop = [at |-> "off", gen |-> 0, cut |-> FALSE]
  /\ tray \in {"none", "shown"} /\ thread = IF tray = "none" THEN "alive" ELSE "none"
  /\ server = [at |-> "none", exit |-> FALSE]
  /\ rt = [at |-> "none", why |-> "none"] /\ own = {} /\ busy = FALSE /\ talk = FALSE
  /\ platform \in {"telegram", "discord", "none"}
  /\ stepFaults = 0

(* The supervisor.  Each action but Builds holds its lock.                 *)

\* schedule_run(), then the tray's thread starts.
RunScheduled ==
  /\ tray = "shown" /\ thread = "none"
  /\ ~sup.stop /\ ~sup.scheduled /\ ~sup.running
  /\ sup' = [sup EXCEPT !.scheduled = TRUE] /\ thread' = "scheduled"
  /\ UNCHANGED <<loop, tray, server, rtVars, stepFaults>>
ThreadStarts ==
  /\ thread = "scheduled" /\ thread' = "alive"
  /\ UNCHANGED <<sup, loop, tray, server, rtVars, stepFaults>>

RunBegins ==
  /\ thread = "alive" /\ loop.at = "off"
  /\ sup' = [sup EXCEPT !.scheduled = FALSE, !.running = ~sup.stop]
  /\ loop' = [loop EXCEPT !.at = IF sup.stop THEN "over" ELSE "top", !.cut = FALSE]
  /\ UNCHANGED <<thread, tray, server, rtVars, stepFaults>>

ReadsGeneration ==
  /\ loop.at = "top"
  /\ loop' = IF sup.stop THEN [loop EXCEPT !.at = "over"] ELSE [loop EXCEPT !.at = "building", !.gen = sup.gen]
  /\ UNCHANGED <<sup, thread, tray, server, rtVars, stepFaults>>

\* Mutant of Publishes: a server made while it was asked to stop is not told.
PublishesDeaf ==
  /\ loop.at = "building"
  /\ loop' = [loop EXCEPT !.at = "running"]
  /\ server' = [at |-> "starting", exit |-> FALSE]
  /\ rt' = [at |-> "warming", why |-> "none"] /\ own' = NewOwn
  /\ UNCHANGED <<sup, thread, tray, platform, busy, talk, stepFaults>>

Publishes ==
  /\ loop.at = "building"
  /\ loop' = [loop EXCEPT !.at = "running"]
  /\ server' = [at |-> "starting", exit |-> sup.stop \/ sup.gen # loop.gen]
  /\ rt' = [at |-> "warming", why |-> "none"] /\ own' = NewOwn
  /\ UNCHANGED <<sup, thread, tray, platform, busy, talk, stepFaults>>

\* The next server is made only after this one released everything.
Decides ==
  LET again == sup.gen # loop.gen /\ ~sup.stop /\ rt.at = "closed" /\ ~loop.cut
  IN /\ loop.at = "running" /\ server.at = "returned"
     /\ loop' = [loop EXCEPT !.at = IF again THEN "top" ELSE "over"]
     /\ server' = [at |-> "none", exit |-> FALSE]
     /\ UNCHANGED <<sup, thread, tray, rtVars, stepFaults>>

\* What a server left behind ended with its event loop, and kill_all_best_effort
\* ends its CLI processes.
RunEndsHere ==
  /\ loop.at = "over" /\ thread = "alive"
  /\ sup' = [sup EXCEPT !.running = FALSE]
  /\ loop' = [loop EXCEPT !.at = "off"] /\ thread' = IF tray = "none" THEN "gone" ELSE "none"
  /\ rt' = [at |-> "none", why |-> "none"] /\ own' = {}
  /\ UNCHANGED <<tray, server, platform, busy, talk, stepFaults>>

\* request_restart(), from the tray or from the Admin page of a live server.
Restarts ==
  /\ tray = "shown" \/ server.at = "serving"
  /\ ~sup.stop /\ sup.gen < MaxRestarts /\ (sup.scheduled \/ sup.running)
  /\ sup' = [sup EXCEPT !.gen = @ + 1]
  /\ server' = IF ~sup.scheduled /\ server.at # "none" THEN [server EXCEPT !.exit = TRUE] ELSE server
  /\ UNCHANGED <<loop, thread, tray, rtVars, stepFaults>>

\* The tray ends: request_stop(), and the thread is joined.
Quits ==
  /\ tray = "shown" /\ tray' = "quit"
  /\ sup' = [sup EXCEPT !.stop = TRUE, !.scheduled = FALSE]
  /\ server' = IF server.at # "none" THEN [server EXCEPT !.exit = TRUE] ELSE server
  /\ UNCHANGED <<loop, thread, rtVars, stepFaults>>

-----------------------------------------------------------------------------
(* The server: uvicorn with the lifespan of the runtime.  Told to exit     *)
(* while it starts, it returns as soon as it has started.                  *)

Interrupted ==
  /\ tray = "none" /\ server.at \in {"starting", "serving"} /\ ~loop.cut
  /\ server' = [server EXCEPT !.exit = TRUE] /\ loop' = [loop EXCEPT !.cut = TRUE]
  /\ UNCHANGED <<sup, thread, tray, rtVars, stepFaults>>

ServerReturns == server' = [server EXCEPT !.at = "returned"] /\ busy' = FALSE /\ talk' = FALSE

StartupServes ==
  /\ server.at = "starting" /\ rt.at = "started" /\ ~server.exit
  /\ server' = [server EXCEPT !.at = "serving"]
  /\ UNCHANGED <<sup, loop, thread, tray, rtVars, stepFaults>>
StartupReturns ==
  /\ server.at = "starting" /\ ServerReturns
  /\ \/ rt.at = "started" /\ server.exit /\ rt' = [rt EXCEPT !.at = "abandoned"]
     \/ rt.at \in {"closed", "unclosed"} /\ rt' = rt
  /\ UNCHANGED <<sup, loop, thread, tray, own, platform, stepFaults>>

ShutdownBegins ==
  /\ server.at = "serving" /\ server.exit
  /\ server' = [server EXCEPT !.at = "stopping"]
  /\ rt' = [at |-> "quiescing", why |-> "shutdown"]
  /\ UNCHANGED <<sup, loop, thread, tray, own, platform, busy, talk, stepFaults>>

ShutdownReturns ==
  /\ server.at = "stopping" /\ rt.at \in {"closed", "unclosed"} /\ ServerReturns
  /\ UNCHANGED <<sup, loop, thread, tray, rt, own, platform, stepFaults>>

-----------------------------------------------------------------------------
(* The runtime starts (start).                                             *)

Step(from, to) == rt.at = from /\ rt' = [rt EXCEPT !.at = to]
StartCloses(why) == rt' = [at |-> "quiescing", why |-> why]

Warms ==
  /\ Step("warming", IF platform = "none" THEN "started" ELSE "composing")
  /\ UNCHANGED <<supVars, own, platform, busy, talk, stepFaults>>
WarmFails ==
  /\ rt.at = "warming" /\ Faulty /\ StartCloses("startup")
  /\ UNCHANGED <<supVars, own, platform, busy, talk>>

\* The platform, the CLI sessions and the workflow, which restores its trees
\* before messages can come.  Making one of them may raise.
Composes ==
  /\ Step("composing", "connecting") /\ own' = own \cup Messaging
  /\ UNCHANGED <<supVars, platform, busy, talk, stepFaults>>
ComposeFails ==
  /\ rt.at = "composing" /\ Faulty /\ StartCloses("messaging")
  /\ \E made \in {{}, {"delivery"}, {"delivery", "cli"}, Messaging} : own' = own \cup made
  /\ UNCHANGED <<supVars, platform, busy, talk>>

\* Discord may deliver before it is ready; Telegram polls last of all.
Connects ==
  /\ Step("connecting", IF platform = "discord" THEN "waiting" ELSE "announcing")
  /\ own' = own \cup {"ingress"}
  /\ UNCHANGED <<supVars, platform, busy, talk, stepFaults>>
BecomesReady ==
  /\ Step("waiting", "announcing")
  /\ UNCHANGED <<supVars, own, platform, busy, talk, stepFaults>>
ConnectFails ==
  /\ rt.at \in {"connecting", "waiting"} /\ Faulty /\ StartCloses("messaging")
  /\ UNCHANGED <<supVars, own, platform, busy, talk>>

\* Restored statuses are repaired and the notice is posted.
Announces ==
  /\ Step("announcing", "started")
  /\ UNCHANGED <<supVars, own, platform, busy, talk, stepFaults>>
AnnounceFails ==
  /\ rt.at = "announcing" /\ Faulty /\ StartCloses("messaging")
  /\ UNCHANGED <<supVars, own, platform, busy, talk>>

-----------------------------------------------------------------------------
(* The runtime closes (close, _close_owned_resources, _cleanup_messaging). *)

\* Where a step that failed leads.  Without its messaging a server may run,
\* but not with half of it.
GiveUp == IF rt.why = "messaging" THEN [at |-> "quiescing", why |-> "startup"] ELSE [rt EXCEPT !.at = "unclosed"]

StepFails(step) == rt.at = step /\ Faulty /\ rt' = GiveUp /\ UNCHANGED <<supVars, platform>>

QuiesceFails ==
  /\ "delivery" \in own /\ StepFails("quiescing")
  /\ own' \in {own, own \ {"ingress"}}
  /\ UNCHANGED <<busy, talk>>

\* No message comes any more, and the handlers have ended.
Quiesces ==
  /\ Step("quiescing", "draining")
  /\ ~busy /\ own' = own \ {"ingress"}
  /\ UNCHANGED <<supVars, platform, busy, talk, stepFaults>>

DrainFails ==
  /\ own \cap {"workflow", "cli"} # {} /\ StepFails("draining")
  /\ talk' \in {talk, FALSE}
  /\ UNCHANGED <<own, busy>>
\* Turns are cancelled and awaited, and the store is flushed.
WorkflowDrains ==
  /\ Step("draining", "releasing")
  /\ talk' = FALSE /\ own' = own \ {"workflow", "cli"}
  /\ UNCHANGED <<supVars, platform, busy, stepFaults>>

ReleaseFails ==
  /\ "delivery" \in own /\ StepFails("releasing")
  /\ UNCHANGED <<own, busy, talk>>
Releases ==
  /\ Step("releasing", IF rt.why = "messaging" THEN "started" ELSE "voice")
  /\ own' = own \ {"delivery"}
  /\ UNCHANGED <<supVars, platform, busy, talk, stepFaults>>

After(resource) == CASE resource = "voice" -> "providers" [] resource = "providers" -> "accounts" [] OTHER -> "closed"
CloseFails(resource) == StepFails(resource) /\ UNCHANGED <<own, busy, talk>>
Closes(resource) ==
  /\ Step(resource, After(resource))
  /\ own' = own \ {resource}
  /\ UNCHANGED <<supVars, platform, busy, talk, stepFaults>>

-----------------------------------------------------------------------------
(* Messages: a handler may start a turn and end before it.                 *)

HandlerBegins ==
  /\ "ingress" \in own /\ server.at \in {"starting", "serving", "stopping"} /\ ~busy
  /\ busy' = TRUE
  /\ UNCHANGED <<supVars, rt, own, platform, talk, stepFaults>>
HandlerEnds ==
  /\ busy /\ busy' = FALSE
  /\ talk' \in {talk, TRUE}
  /\ UNCHANGED <<supVars, rt, own, platform, stepFaults>>
TurnEnds ==
  /\ talk /\ talk' = FALSE
  /\ UNCHANGED <<supVars, rt, own, platform, busy, stepFaults>>

LifeNext ==
  \/ RunScheduled \/ ThreadStarts \/ RunBegins \/ ReadsGeneration \/ Publishes \/ Decides \/ RunEndsHere
  \/ Restarts \/ Quits \/ Interrupted
  \/ StartupServes \/ StartupReturns \/ ShutdownBegins \/ ShutdownReturns
  \/ Warms \/ WarmFails \/ Composes \/ ComposeFails \/ Connects \/ BecomesReady \/ ConnectFails
  \/ Announces \/ AnnounceFails
  \/ Quiesces \/ QuiesceFails \/ WorkflowDrains \/ DrainFails \/ Releases \/ ReleaseFails
  \/ \E resource \in NewOwn : Closes(resource) \/ CloseFails(resource)
  \/ HandlerBegins \/ HandlerEnds \/ TurnEnds

LifeSpec == LifeInit /\ [][LifeNext]_lifeVars

-----------------------------------------------------------------------------
(* Whatever step of starting or closing fails, a message handler finds the *)
(* whole workflow and everything it needs, and a turn finds the CLI        *)
(* sessions, the delivery and the providers (application.py                *)
(* _cleanup_messaging, _close_owned_resources).                            *)
HandlersAreServed ==
  /\ busy => (Messaging \cup NewOwn) \subseteq own
  /\ talk => {"cli", "delivery", "providers", "accounts"} \subseteq own

(* A server runs with the whole of its messaging or without any of it, and *)
(* one that says it is closed released everything (application.py          *)
(* _start_messaging_if_configured, close).                                 *)
NothingIsHalfOpen ==
  /\ (rt.at = "started") => (own \in {Messaging \cup NewOwn \cup {"ingress"}, NewOwn})
  /\ (rt.at = "closed") => (own = {})

(* A server is made only after the one before it released everything, and  *)
(* every server that is not over knows of a stop or a restart that it is   *)
(* asked for (commands.py run, _run_once, request_restart, request_stop).  *)
OneServerAtATime ==
  /\ (loop.at \in {"top", "building"}) => (own = {})
  /\ (server.at \in {"starting", "serving"} /\ (sup.stop \/ sup.gen # loop.gen)) => server.exit

(* The three together. *)
LifecycleIsOrdered == HandlersAreServed /\ NothingIsHalfOpen /\ OneServerAtATime
=============================================================================
