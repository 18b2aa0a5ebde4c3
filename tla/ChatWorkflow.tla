---------------------------- MODULE ChatWorkflow ----------------------------
(***************************************************************************)
(* One chat as the messaging workflow handles it (messaging/workflow.py,   *)
(* turn_intake.py, commands.py): prompts, the status messages posted for   *)
(* them, /stop and /clear with and without a reply, and the startup        *)
(* notice.  The tree manager is reduced to which prompts its trees hold    *)
(* and whether they wait, run or have ended (see TreeQueue for the rest).  *)
(* Of the messages themselves the model follows the statuses, named after  *)
(* their prompts, and the notice; feedback to commands is left out.        *)
(***************************************************************************)
EXTENDS Naturals, FiniteSets

CONSTANTS Prompt, Command, Notice,  \* messages of users; the startup notice
          NoMessage,
          MaxTroubles               \* bound: deletions and writes that fail

ASSUME ChatAssumption ==
  /\ Prompt \cap Command = {} /\ Notice \notin Prompt \cup Command
  /\ NoMessage \notin Prompt \cup Command \cup {Notice}
  /\ MaxTroubles \in Nat

VARIABLES chat,      \* messages the platform shows
          log,       \* ManagedMessageLog of the chat
          node,      \* the prompts in the trees
          stored,    \* the prompts in the session store
          handler,   \* where the handling of each message stands
          latch,     \* holder of _state_lock, or NoMessage
          era,       \* _stop_generation and the chat's clear generation
          troubles,  \* failures so far
          spared,    \* messages whose deletion was tried, failed, and given up
          overtaken  \* prompts received before a stop or clear that has ended

chatVars == <<chat, log, node, stored, handler, latch, era, troubles, spared, overtaken>>

Message == Prompt \cup Command \cup {Notice}

Absent == [state |-> "none", root |-> NoMessage, above |-> {}]
Idle == [at |-> "new", kind |-> "none", target |-> NoMessage, token |-> <<0, 0>>, ids |-> {}]

Held == {m \in Prompt : node[m].state # "none"}
Tree(root) == {m \in Held : node[m].root = root}
Busy(nodes, root) == \E m \in Prompt : nodes[m].root = root /\ nodes[m].state = "active"

\* A tree without an active prompt claims one that waits, if there is one.
Claimed(nodes) ==
  {next \in [Prompt -> {nodes[m] : m \in Prompt} \cup {[nodes[m] EXCEPT !.state = "active"] : m \in Prompt}] :
     /\ \A m \in Prompt : next[m] = nodes[m]
          \/ (nodes[m].state = "queued" /\ ~Busy(nodes, nodes[m].root) /\ next[m] = [nodes[m] EXCEPT !.state = "active"])
     /\ \A m \in Prompt : nodes[m].state = "queued" => Busy(next, nodes[m].root)
     /\ \A m, o \in Prompt : next[m].state = "active" /\ next[o].state = "active" /\ next[m].root = next[o].root => m = o}
Ended(nodes, set) == [m \in Prompt |-> IF m \in set THEN [nodes[m] EXCEPT !.state = "ended"] ELSE nodes[m]]
Removed(nodes, set) == [m \in Prompt |-> IF m \in set THEN Absent ELSE nodes[m]]

\* A handler that is over keeps nothing.
ChatMoves(m, at) ==
  handler' = [handler EXCEPT ![m] = IF at = "over" THEN [Idle EXCEPT !.at = at] ELSE [@ EXCEPT !.at = at]]
Fallible(n) == troubles + n <= MaxTroubles /\ troubles' = troubles + n

\* The log keeps a message once; and drops those it is told to.
Logs(m) == log' = log \cup {m}
Unlogs(ids) == log' = log \ ids

\* Deletion is tried once; the caller goes on as if it had worked.
Deletes(ids, works) ==
  IF works THEN chat' = chat \ ids /\ UNCHANGED <<troubles, spared>>
  ELSE Fallible(1) /\ spared' = spared \cup ids /\ UNCHANGED chat

ChatInit ==
  /\ chat = {} /\ log = {} /\ stored = {} /\ spared = {} /\ overtaken = {}
  /\ node = [m \in Prompt |-> Absent]
  /\ handler = [m \in Message |-> Idle]
  /\ latch = NoMessage /\ era = <<0, 0>> /\ troubles = 0

-----------------------------------------------------------------------------
(* A prompt.                                                               *)

\* The token is read under the state lock.
Arrives(m) ==
  /\ m \in Prompt /\ handler[m].at = "new" /\ latch = NoMessage
  /\ handler' = [handler EXCEPT ![m].at = "resolving", ![m].token = era]
  /\ UNCHANGED <<chat, log, node, stored, latch, era, troubles, spared, overtaken>>

\* Mutant of Records: the token is read late, when the status is posted.
ReadsLate(m) ==
  /\ handler[m].at = "recording"
  /\ Logs(m)
  /\ handler' = [handler EXCEPT ![m].at = "admitting", ![m].token = era]
  /\ UNCHANGED <<chat, node, stored, latch, era, troubles, spared, overtaken>>

\* A reply to a message no tree holds starts a tree of its own.
Resolves(m, parent) ==
  /\ handler[m].at = "resolving"
  /\ parent = NoMessage \/ (parent # m /\ parent \in Held)
  /\ handler' = [handler EXCEPT ![m].at = "posting", ![m].target = parent]
  /\ UNCHANGED <<chat, log, node, stored, latch, era, troubles, spared, overtaken>>

\* The platform shows a message before its sender runs again.
StatusSent(m) ==
  /\ handler[m].at = "posting"
  /\ chat' = chat \cup {m}
  /\ ChatMoves(m, "recording")
  /\ UNCHANGED <<log, node, stored, latch, era, troubles, spared, overtaken>>

StatusFails(m) ==
  /\ handler[m].at = "posting" /\ Fallible(1)
  /\ ChatMoves(m, "over")
  /\ UNCHANGED <<chat, log, node, stored, latch, era, spared, overtaken>>

Records(m) ==
  /\ m \in Prompt /\ handler[m].at = "recording"
  /\ Logs(m)
  /\ ChatMoves(m, "admitting")
  /\ UNCHANGED <<chat, node, stored, latch, era, troubles, spared, overtaken>>

\* Admission and the snapshot of its tree are one step under the lock.
Admits(m) ==
  LET parent == handler[m].target
      new == IF parent = NoMessage THEN [state |-> "queued", root |-> m, above |-> {m}]
             ELSE [state |-> "queued", root |-> node[parent].root, above |-> node[parent].above \cup {m}]
  IN /\ handler[m].at = "admitting" /\ latch = NoMessage
     /\ handler[m].token = era
     /\ parent # NoMessage => parent \in Held
     /\ node' \in Claimed([node EXCEPT ![m] = new])
     /\ stored' = stored \cup {m} \cup Tree(new.root)
     /\ ChatMoves(m, "over")
     /\ UNCHANGED <<chat, log, latch, era, troubles, spared, overtaken>>

\* A stop or clear came in between, or the parent is gone: the status goes.
Rejects(m) ==
  /\ handler[m].at = "admitting" /\ latch = NoMessage
  /\ handler[m].token = era => handler[m].target # NoMessage /\ handler[m].target \notin Held
  /\ handler' = [handler EXCEPT ![m].at = "discarding", ![m].ids = {m}]
  /\ UNCHANGED <<chat, log, node, stored, latch, era, troubles, spared, overtaken>>

\* The messages are forgotten even if the deletion fails.
TurnDiscards(m, works) ==
  /\ handler[m].at = "discarding"
  /\ Deletes(handler[m].ids, works)
  /\ IF handler[m].kind = "clear" THEN UNCHANGED log ELSE Unlogs(handler[m].ids)
  /\ ChatMoves(m, "over")
  /\ UNCHANGED <<node, stored, latch, era, overtaken>>

\* A run ends: it reports, its tree is saved, and the tree claims the next.
RunEnds(m) ==
  /\ node[m].state = "active"
  /\ node' \in Claimed(Ended(node, {m}))
  /\ stored' = stored \cup Tree(node[m].root)
  /\ UNCHANGED <<chat, log, handler, latch, era, troubles, spared, overtaken>>

-----------------------------------------------------------------------------
(* Commands.                                                               *)

CommandArrives(c, kind, target) ==
  /\ c \in Command /\ handler[c].at = "new" /\ latch = NoMessage
  /\ (target = NoMessage) = (kind \in {"stop", "clear"})
  /\ target # NoMessage => handler[target].at # "new"
  /\ handler' = [handler EXCEPT ![c].at = "command", ![c].kind = kind, ![c].target = target]
  /\ UNCHANGED <<chat, log, node, stored, latch, era, troubles, spared, overtaken>>

Handling(c, kind) == handler[c].at = "command" /\ handler[c].kind = kind /\ latch = NoMessage
Received == {m \in Prompt : handler[m].at # "new"}

\* Stop everything: the generation, then the trees; the snapshots that came
\* back are saved a step later, still under the lock.
StopsAll(c) ==
  LET open == {m \in Prompt : node[m].state \in {"queued", "active"}}
  IN /\ Handling(c, "stop")
     /\ era' = <<era[1] + 1, era[2]>> /\ node' = Ended(node, open)
     /\ latch' = c
     /\ handler' = [handler EXCEPT ![c].at = "saving"]
     /\ UNCHANGED <<chat, log, stored, troubles, spared, overtaken>>

StopsReply(c) ==
  LET m == handler[c].target
  IN /\ Handling(c, "stop_reply")
     /\ IF node[m].state \in {"queued", "active"}
        THEN /\ node' \in Claimed(Ended(node, {m})) /\ latch' = c
             /\ handler' = [handler EXCEPT ![c].at = "saving"]
        ELSE ChatMoves(c, "over") /\ UNCHANGED <<node, latch>>
     /\ UNCHANGED <<chat, log, stored, era, troubles, spared, overtaken>>

StopSaves(c) ==
  /\ handler[c].at = "saving"
  /\ stored' = stored \cup Held /\ latch' = NoMessage
  /\ overtaken' = IF handler[c].kind = "stop" THEN overtaken \cup (Received \ Held) ELSE overtaken
  /\ ChatMoves(c, "over")
  /\ UNCHANGED <<chat, log, node, era, troubles, spared>>

\* Clear the chat: everything known of it is collected, the generation moves,
\* the trees are detached; then the store is cleared, and only then are the
\* messages deleted, out of the lock.
Collected == log \cup Held

TakesDown(c) ==
  /\ Handling(c, "clear")
  /\ handler' = [handler EXCEPT ![c].at = "clearing", ![c].ids = Collected]
  /\ era' = <<era[1], era[2] + 1>> /\ node' = Removed(node, Held)
  /\ latch' = c
  /\ UNCHANGED <<chat, log, stored, troubles, spared, overtaken>>

\* The store write may fail: then nothing is deleted.
ClearsStore(c, works) ==
  /\ handler[c].at = "clearing"
  /\ stored' = {} /\ latch' = NoMessage /\ overtaken' = overtaken \cup Received
  /\ IF works THEN log' = {} /\ ChatMoves(c, "discarding") /\ UNCHANGED <<troubles, spared>>
     ELSE /\ Fallible(1) /\ log' = {} /\ ChatMoves(c, "over")
          /\ spared' = spared \cup handler[c].ids
  /\ UNCHANGED <<chat, node, era>>

\* Clear a message and its replies: trees and store in one section.
ClearsReply(c) ==
  LET m == handler[c].target
      below == {o \in Held : m \in node[o].above}
  IN /\ Handling(c, "clear_reply")
     /\ IF m \in Held
        THEN /\ node' \in Claimed(Removed(node, below))
             /\ stored' = stored \ below
             /\ handler' = [handler EXCEPT ![c].at = "discarding", ![c].ids = below]
        ELSE ChatMoves(c, "over") /\ UNCHANGED <<node, stored>>
     /\ UNCHANGED <<chat, log, latch, era, troubles, spared, overtaken>>

-----------------------------------------------------------------------------
(* The startup notice (publish_startup_notice).                            *)

NoticeStarts ==
  /\ handler[Notice].at = "new" /\ latch = NoMessage
  /\ handler' = [handler EXCEPT ![Notice].at = "posting", ![Notice].token = era]
  /\ UNCHANGED <<chat, log, node, stored, latch, era, troubles, spared, overtaken>>

\* Kept if no clear came in between, its publisher was not cancelled, and it
\* could be recorded.
Current(n) == handler[n].token[2] = era[2]
NoticeFinal(recorded) ==
  /\ handler[Notice].at = "recording" /\ latch = NoMessage
  /\ IF Current(Notice) /\ recorded
     THEN Logs(Notice) /\ ChatMoves(Notice, "over") /\ UNCHANGED troubles
     ELSE /\ IF Current(Notice) THEN Fallible(1) ELSE UNCHANGED troubles
          /\ ChatMoves(Notice, "discarding") /\ UNCHANGED log
  /\ UNCHANGED <<chat, node, stored, latch, era, spared, overtaken>>

\* A notice that cannot be deleted is logged for a later clear.
NoticeDiscarded(works, tracked) ==
  /\ handler[Notice].at = "discarding" /\ latch = NoMessage
  /\ IF works THEN /\ chat' = chat \ {Notice} /\ Unlogs({Notice})
                   /\ UNCHANGED <<troubles, spared>>
     ELSE IF tracked THEN Fallible(1) /\ Logs(Notice) /\ UNCHANGED <<chat, spared>>
     ELSE Fallible(1) /\ spared' = spared \cup {Notice} /\ UNCHANGED <<chat, log>>
  /\ ChatMoves(Notice, "over")
  /\ UNCHANGED <<node, stored, latch, era, overtaken>>

ChatNext ==
  \/ \E m \in Prompt : Arrives(m) \/ Admits(m) \/ Rejects(m) \/ RunEnds(m)
  \/ \E m \in Prompt, parent \in Prompt \cup {NoMessage} : Resolves(m, parent)
  \/ \E m \in Prompt \cup {Notice} : StatusSent(m) \/ StatusFails(m) \/ Records(m)
  \/ \E m \in Prompt \cup Command, works \in BOOLEAN : TurnDiscards(m, works)
  \/ \E c \in Command, target \in Prompt \cup {NoMessage} :
       \E kind \in {"stop", "clear", "stop_reply", "clear_reply"} : CommandArrives(c, kind, target)
  \/ \E c \in Command : StopsAll(c) \/ StopsReply(c) \/ StopSaves(c) \/ TakesDown(c) \/ ClearsReply(c)
  \/ \E c \in Command, works \in BOOLEAN : ClearsStore(c, works)
  \/ NoticeStarts
  \/ \E recorded \in BOOLEAN : NoticeFinal(recorded)
  \/ \E works, tracked \in BOOLEAN : NoticeDiscarded(works, tracked)

ChatSpec == ChatInit /\ [][ChatNext]_chatVars

-----------------------------------------------------------------------------
(* Properties.                                                             *)

(* A status or notice the bot posted and nobody handles any more can still *)
(* be cleared: it is logged or in a tree, unless its deletion failed and   *)
(* was given up (workflow.py record_outgoing_message, _clear_chat).        *)
NoOrphans ==
  \A m \in Prompt \cup {Notice} : m \in chat /\ handler[m].at = "over" =>
    \/ m \in log \cup spared \cup Held
    \/ \E c \in Command : handler[c].at \in {"clearing", "discarding"} /\ m \in handler[c].ids

(* What was cleared is not restored: with no command half-way, the store   *)
(* holds only prompts the trees hold, so a restart cannot bring back a     *)
(* cleared one (workflow.py _clear_reply, _clear_chat).                    *)
ClearedStaysCleared == latch = NoMessage => stored \subseteq Held

(* A prompt received before a stop or a clear that has ended, and not      *)
(* admitted by then, never runs (workflow.py _admit_if_current,            *)
(* turn_intake.py handle_message).                                         *)
StopReachesPrompts == \A m \in overtaken : node[m].state \notin {"queued", "active"}

(* The three together: commands reach every message of the chat, once.     *)
CommandsAreComplete == NoOrphans /\ ClearedStaysCleared /\ StopReachesPrompts

=============================================================================
