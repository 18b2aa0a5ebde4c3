---------------------------- MODULE TurnDisplay ----------------------------
(***************************************************************************)
(* What a user is shown of a turn.  The runner of a claim reads the events *)
(* of the Claude CLI, applies them to a transcript, edits the status       *)
(* message with it, at most once a second unless it must, and reports how  *)
(* the claim ended.  Text and thinking of a subagent are not shown: while  *)
(* a Task has no result the transcript keeps it on a stack, and guesses    *)
(* from its id which Task a result belongs to.  A piece of text or         *)
(* thinking is known by its place among all of them.                       *)
(***************************************************************************)
EXTENDS SequencesExt, Naturals

CONSTANTS
  ToolId,     \* ids of tool calls and results: sequences, "10" is <<1, 0>>
  TaskLike,   \* the ids with "task" in them
  MaxEvents, MaxTasks, Limit, MaxLost

None == 0
Unnamed == <<>>  \* no id, in an event; on the stack, a synthetic marker
AnyId == ToolId \cup {Unnamed}

ASSUME LimitAssumption == Limit \in Nat
ASSUME IdAssumption == ToolId \subseteq Seq(Nat) \ {Unnamed} /\ TaskLike \subseteq ToolId

VARIABLES
  claude,     \* the process: does it stream, who works, what was said, by whom
  segs,    \* segments of the transcript
  open,    \* segment that a streamed block of an index writes to
  stack,   \* Tasks the transcript thinks are open
  nameOf,  \* the tool an id was last used for
  screen,  \* the status message: shown, last rendered, whether an edit was lost
  reader     \* the runner, and the state of its claim

displayVars == <<claude, segs, open, stack, nameOf, screen, reader>>

Index == {0, 1}
Prose == {"text", "thinking"}

DisplayInit ==
  /\ \E streams \in BOOLEAN :
       claude = [streams |-> streams, block |-> <<>>, working |-> <<>>, started |-> 0, said |-> <<>>, muddled |-> FALSE, events |-> 0]
  /\ segs = <<>> /\ stack = <<>> /\ nameOf = [id \in ToolId |-> "none"]
  /\ open = [kind \in Prose \cup {"tool"} |-> [i \in Index |-> None]]
  /\ screen = [shown |-> [segs |-> <<>>, cut |-> FALSE, status |-> "queued"], last |-> <<>>, lost |-> FALSE, failed |-> 0]
  /\ reader = [at |-> "starting", had |-> FALSE, status |-> "none", error |-> FALSE, end |-> "none", claim |-> "running", spread |-> FALSE]

-----------------------------------------------------------------------------
(* The status message.                                                     *)

\* A text without text leaves no trace.
Visible(s) ==
  LET kept[n \in 0..Len(s)] ==
        IF n = 0 THEN <<>>
        ELSE IF s[n].kind = "text" /\ s[n].pieces = <<>> THEN kept[n - 1] ELSE Append(kept[n - 1], s[n])
  IN kept[Len(s)]

\* What is too long loses its oldest.
Rendered(s, status) ==
  LET n == Len(Visible(s))
  IN [segs |-> SubSeq(Visible(s), IF n > Limit THEN n - Limit + 1 ELSE 1, n), cut |-> n > Limit, status |-> status]

\* A forced update.  What was rendered counts as shown before it is sent, so
\* an edit that fails is not repeated.
Forced(s, status) ==
  LET view == Rendered(s, status)
      sent == [screen EXCEPT !.last = <<view>>]
  IN IF (view.segs = <<>> /\ status = "none") \/ screen.last = <<view>> THEN {screen}
     ELSE {[sent EXCEPT !.shown = view, !.lost = FALSE]}
          \cup IF screen.failed < MaxLost THEN {[sent EXCEPT !.lost = TRUE, !.failed = @ + 1]} ELSE {}

\* Any other update is dropped within a second of the last.
Throttled(s, status) == {screen} \cup Forced(s, status)

-----------------------------------------------------------------------------
(* The transcript.                                                         *)

Segment(kind, pieces) == [kind |-> kind, pieces |-> pieces, calls |-> 0]
InSubagent == stack # <<>>

\* At most one of the kinds lets go of the index.
ClosedBlock(o, i) ==
  LET held == SelectSeq(<<"tool", "thinking", "text">>, LAMBDA kind : o[kind][i] # None)
  IN IF held = <<>> THEN o ELSE [o EXCEPT ![held[1]][i] = None]

\* A tool a subagent calls is counted at its Task, and is no segment.
ToolShown ==
  IF InSubagent THEN [segs EXCEPT ![Last(stack).seg].calls = @ + 1]
  ELSE Append(segs, Segment("tool", <<>>))

Named(id, name) == IF id = Unnamed THEN nameOf ELSE [nameOf EXCEPT ![id] = name]

\* An event of a tool in a stream lets go of its index.
Loosened == IF claude.streams THEN {ClosedBlock(open, i) : i \in Index} ELSE {open}

Alike(one, other) ==
  /\ Unnamed \notin {one, other}
  /\ IsPrefix(one, other) \/ IsPrefix(other, one)

\* The id may be that of a result for a Task without one.
Guessed(id) == id = Unnamed \/ (id \in TaskLike /\ nameOf[id] # "tool")

\* Mutant of Popped: a result closes the Tasks with its own id and no other.
PoppedExact(id) == SelectSeq(stack, LAMBDA task : task.id # id)

\* A result closes the last Task with an id like its own and those started
\* after it; if there is none, the last Task if that has no id.
Popped(id) ==
  LET hits == {i \in DOMAIN stack : Alike(stack[i].id, id)}
  IN IF hits # {} THEN SubSeq(stack, 1, (CHOOSE i \in hits : \A j \in hits : j <= i) - 1)
     ELSE IF InSubagent /\ Last(stack).id = Unnamed /\ Guessed(id) THEN Front(stack)
     ELSE stack

-----------------------------------------------------------------------------
(* Events.  The main agent works when no Task is open, otherwise the Tasks  *)
(* do; each event of the process is one step of the runner.                *)

Reading == reader.at = "reading"
Attended == reader.at \in {"starting", "reading"} /\ reader.end = "none"
Happens == Reading /\ reader.end = "none" /\ claude.events < MaxEvents
Worker == IF claude.working = <<>> THEN {None} ELSE {t.n : t \in ToSet(claude.working)}
NewPiece == Len(claude.said) + 1
Spoken(c, by) == [c EXCEPT !.said = Append(@, by), !.events = @ + 1]
Elapsed(c) == [c EXCEPT !.events = @ + 1]
StatusOf(kind) == IF kind = "thinking" THEN "thinking" ELSE "working"

Heard(status) == reader' = [reader EXCEPT !.had = TRUE, !.status = status]

\* A message of the CLI: text or thinking in one piece.
WholePiece(kind, by) ==
  /\ Happens /\ ~claude.streams
  /\ claude' = Spoken(claude, by)
  /\ segs' = IF InSubagent THEN segs ELSE Append(segs, Segment(kind, <<NewPiece>>))
  /\ screen' \in Throttled(segs', StatusOf(kind)) /\ Heard(StatusOf(kind))
  /\ UNCHANGED <<open, stack, nameOf>>

\* The same as a block of a stream.
StreamStart(kind, i) ==
  /\ Happens /\ claude.streams /\ claude.block = <<>>
  /\ claude' = [Elapsed(claude) EXCEPT !.block = <<kind, i>>]
  /\ IF InSubagent THEN UNCHANGED <<segs, open>>
     ELSE segs' = Append(segs, Segment(kind, <<>>)) /\ open' = [ClosedBlock(open, i) EXCEPT ![kind][i] = Len(segs) + 1]
  /\ screen' \in Throttled(segs', StatusOf(kind)) /\ Heard(StatusOf(kind))
  /\ UNCHANGED <<stack, nameOf>>

StreamDelta(by) ==
  /\ Happens /\ claude.block # <<>>
  /\ claude' = Spoken(claude, by)
  /\ LET kind == claude.block[1]
         i == claude.block[2]
     IN /\ IF InSubagent THEN UNCHANGED <<segs, open>>
           ELSE IF open[kind][i] # None
           THEN segs' = [segs EXCEPT ![open[kind][i]].pieces = Append(@, NewPiece)] /\ UNCHANGED open
           ELSE segs' = Append(segs, Segment(kind, <<NewPiece>>)) /\ open' = [open EXCEPT ![kind][i] = Len(segs) + 1]
        /\ screen' \in Throttled(segs', StatusOf(kind)) /\ Heard(StatusOf(kind))
  /\ UNCHANGED <<stack, nameOf>>

StreamStop ==
  /\ Happens /\ claude.block # <<>>
  /\ claude' = [Elapsed(claude) EXCEPT !.block = <<>>]
  /\ open' = ClosedBlock(open, claude.block[2])
  /\ screen' \in Forced(segs, reader.status) /\ Heard(reader.status)
  /\ UNCHANGED <<segs, stack, nameOf>>

ToolUse(id) ==
  /\ Happens /\ claude.block = <<>> /\ claude' = Elapsed(claude)
  /\ segs' = ToolShown /\ nameOf' = Named(id, "tool") /\ open' \in Loosened
  /\ screen' \in Throttled(segs', "tools") /\ Heard("tools")
  /\ UNCHANGED stack

TaskStarts(id) ==
  /\ Happens /\ claude.block = <<>> /\ claude.started < MaxTasks
  /\ LET n == claude.started + 1
     IN /\ claude' = [Elapsed(claude) EXCEPT !.started = n, !.working = Append(@, [n |-> n, id |-> id])]
        /\ segs' = Append(segs, Segment("subagent", <<>>))
        /\ stack' = Append(stack, [id |-> id, seg |-> Len(segs) + 1])
  /\ nameOf' = Named(id, "Task") /\ open' \in Loosened
  /\ screen' \in Throttled(segs', "subagent") /\ Heard("subagent")

\* The id of a result is like that of an open Task.
LikeATask(id) == \E i \in DOMAIN claude.working : Alike(claude.working[i].id, id)

\* ... or is taken for that of the last Task, which has none.
TakenForLast(id) ==
  claude.working # <<>> /\ Last(claude.working).id = Unnamed /\ ~LikeATask(id) /\ Guessed(id)

\* A Task has its result, in a turn that is not muddled: before any that was
\* started earlier, under an id by which it is known.
KnownByLast(id) ==
  LET task == Last(claude.working)
  IN Alike(task.id, id) \/ TakenForLast(id)

Result(id, working, muddled) ==
  /\ Happens /\ claude.block = <<>>
  /\ claude' = [Elapsed(claude) EXCEPT !.working = working, !.muddled = @ \/ muddled]
  /\ stack' = Popped(id)
  /\ screen' \in Throttled(segs, "tools") /\ Heard("tools")
  /\ UNCHANGED <<segs, open, nameOf>>

TaskEnds(k, id) ==
  Result(id, RemoveAt(claude.working, k), k < Len(claude.working) \/ ~KnownByLast(id))

\* The result of any other tool, in which there is no segment, but which may be
\* taken for that of a Task.
ToolAnswered(id) ==
  Result(id, claude.working, LikeATask(id) \/ TakenForLast(id))

-----------------------------------------------------------------------------
(* The runner.                                                             *)

Failed(t, spread) == [t EXCEPT !.claim = "error", !.spread = @ \/ spread]
ErrorSegment(s) == Append(s, Segment("error", <<>>))

SessionOpens ==
  /\ reader.at = "starting" /\ reader' = [reader EXCEPT !.at = "reading"]
  /\ UNCHANGED <<claude, segs, open, stack, nameOf, screen>>

SessionRefused ==
  /\ reader.at = "starting" /\ reader' = [Failed(reader, FALSE) EXCEPT !.at = "done", !.end = "refused"]
  /\ segs' = ErrorSegment(segs) /\ screen' \in Forced(segs', "limit")
  /\ UNCHANGED <<claude, open, stack, nameOf>>

\* An error that is not the exit fails the claim, but may not be the end of it.
ErrorEvent ==
  /\ Happens
  /\ claude' = [Elapsed(claude) EXCEPT !.block = <<>>]
  /\ segs' = ErrorSegment(segs) /\ screen' \in Forced(segs', "error")
  /\ reader' = [Failed(reader, FALSE) EXCEPT !.had = TRUE, !.error = TRUE]
  /\ UNCHANGED <<open, stack, nameOf>>

\* Exit code 0 completes the claim even then.
ExitsWell ==
  /\ Reading /\ reader.end = "none" /\ claude.block = <<>>
  /\ segs' = IF reader.had THEN segs ELSE Append(segs, Segment("text", <<None>>))
  /\ screen' \in Forced(segs', "complete")
  /\ reader' = [reader EXCEPT !.end = "complete", !.claim = "completed"]
  /\ UNCHANGED <<claude, open, stack, nameOf>>

\* Another code after an error adds nothing to what is shown.
ExitsBadly ==
  /\ Reading /\ reader.end = "none"
  /\ IF reader.error THEN UNCHANGED <<segs, screen>>
     ELSE segs' = ErrorSegment(segs) /\ screen' \in Forced(segs', "error")
  /\ reader' = [Failed(reader, TRUE) EXCEPT !.end = "exit"]
  /\ UNCHANGED <<claude, open, stack, nameOf>>

\* The stream is over.
StreamEnds == Reading /\ reader.end # "none" /\ reader' = [reader EXCEPT !.at = "done"] /\ UNCHANGED <<claude, segs, open, stack, nameOf, screen>>

\* The session cannot be registered, or reading from the process fails.
ReadingRaises ==
  /\ Attended
  /\ segs' = ErrorSegment(segs) /\ screen' \in Forced(segs', "failed")
  /\ reader' = [Failed(reader, TRUE) EXCEPT !.at = "done", !.end = "raised"]
  /\ UNCHANGED <<claude, open, stack, nameOf>>

\* The task of the runner is cancelled.  After /clear nothing is shown.
TurnCancelled(reason) ==
  /\ Attended
  /\ segs' = IF reason = "other" THEN ErrorSegment(segs) ELSE segs
  /\ IF reason = "clear" THEN UNCHANGED screen
     ELSE screen' \in Forced(segs', IF reason = "stop" THEN "stopped" ELSE "cancelled")
  /\ reader' = [Failed(reader, FALSE) EXCEPT !.at = "done", !.end = reason]
  /\ UNCHANGED <<claude, open, stack, nameOf>>

DisplayNext ==
  \/ SessionOpens \/ SessionRefused
  \/ \E kind \in Prose, by \in Worker : WholePiece(kind, by)
  \/ \E kind \in Prose, i \in Index : StreamStart(kind, i)
  \/ \E by \in Worker : StreamDelta(by)
  \/ StreamStop
  \/ \E id \in AnyId :
       \/ ToolUse(id) \/ TaskStarts(id) \/ ToolAnswered(id)
       \/ \E k \in DOMAIN claude.working : TaskEnds(k, id)
  \/ ErrorEvent \/ ExitsWell \/ ExitsBadly \/ StreamEnds \/ ReadingRaises
  \/ \E reason \in {"stop", "clear", "other"} : TurnCancelled(reason)

DisplaySpec == DisplayInit /\ [][DisplayNext]_displayVars

-----------------------------------------------------------------------------
TurnOver == reader.at = "done"
ShownPieces == (UNION {ToSet(segs[i].pieces) : i \in DOMAIN segs}) \ {None}
PiecesInOrder ==
  \A i, j \in DOMAIN segs : \A a \in DOMAIN segs[i].pieces, b \in DOMAIN segs[j].pieces :
    LET one == segs[i].pieces[a]
        other == segs[j].pieces[b]
    IN (None \notin {one, other} /\ (i < j \/ (i = j /\ a < b))) => one < other
FinalStatus ==
  [complete |-> "complete", exit |-> "error", raised |-> "failed", stop |-> "stopped", other |-> "cancelled", refused |-> "limit"]

(* At the end of a turn the message shows the whole transcript, as much as *)
(* fits, and how the claim ended, unless the last edit failed: completed   *)
(* if and only if the claim is, also after an error that was not the last  *)
(* word.  Only a terminal failure reaches the prompts queued behind it.    *)
(* What is said is shown in its order, each piece once, and it is what the *)
(* main agent said and nothing a subagent did.  The exceptions are turns   *)
(* that ids muddle: a Task is answered before one started later; its       *)
(* result has an id it is not known by; or the result of another tool has  *)
(* an id like that of an open Task - the one a prefix of the other, "10"   *)
(* for "1" - or is taken for that of a Task without an id (node_runner.py, *)
(* ui_updates.py, buffer.py, subagents.py).                                *)
TurnIsShown ==
  /\ (TurnOver /\ ~screen.lost /\ reader.end # "clear") =>
       IF reader.end = "exit" /\ reader.error
       THEN \E view \in {screen.shown} : view.status # "complete" /\ (view.cut \/ \E i \in DOMAIN view.segs : view.segs[i].kind = "error")
       ELSE screen.shown = Rendered(segs, FinalStatus[reader.end])
  /\ TurnOver => (reader.claim = "completed" <=> reader.end = "complete")
  /\ reader.spread <=> reader.end \in {"exit", "raised"}
  /\ PiecesInOrder
  /\ ~claude.muddled => ShownPieces = {n \in DOMAIN claude.said : claude.said[n] = None}
=============================================================================
