-------------------------- MODULE StreamTranslation --------------------------
(***************************************************************************)
(* One OpenAI-chat request translated into an Anthropic event stream       *)
(* (providers/openai_chat/provider.py, _OpenAIChatStreamRunner).  Upstream *)
(* chunks become events of the stream ledger; the first events are held    *)
(* back so that an early cut can be retried unseen; a later cut is         *)
(* recovered by repairing tool arguments or by continuing the text.        *)
(*                                                                         *)
(* An argument text is abstracted to how much JSON it is: "none", "part",  *)
(* "rest" (what completes a part), "whole", or "broken" for ever.          *)
(***************************************************************************)
EXTENDS Naturals, Sequences, SequencesExt

CONSTANTS NumTools,      \* how many upstream tool calls there may be
          KindOf,        \* "plain", "task" (buffered, one delta) or "aliased"
          MaxAttempts,   \* of the retry session
          MaxChunks      \* bound: upstream chunks of a request

ASSUME StreamAssumption == NumTools \in Nat /\ MaxAttempts \in Nat /\ MaxChunks \in Nat

VARIABLES ledger,   \* AnthropicStreamLedger, with `out`, the events of a step
          hold,     \* RecoveryHoldbackBuffer
          client,   \* what the events received so far amount to
          run       \* the rest of the runner

streamVars == <<ledger, hold, client, run>>

\* Upstream tool calls have indexes.
Tool == 0..(NumTools - 1)
Contents == {"none", "part", "rest", "whole", "broken", "empty"}

\* Two argument fragments put together.
Join(old, new) ==
  CASE old = "none" -> new
    [] new = "none" -> old
    [] old = "part" /\ new = "part" -> "part"
    [] old = "part" /\ new = "rest" -> "whole"
    [] OTHER -> "broken"

\* An operation for one tool call after the other.
EachTool(Op(_, _), l) ==
  LET done[n \in 0..NumTools] == IF n = 0 THEN l ELSE Op(done[n - 1], n - 1)
  IN done[NumTools]

-----------------------------------------------------------------------------
(* The ledger.  Block i of the stream is blocks[i]; 0 is "no block".       *)

NewTool == [block |-> 0, named |-> FALSE, pre |-> "none", buffer |-> "none", emitted |-> FALSE]
NewLedger == [blocks |-> <<>>, thinking |-> 0, text |-> 0, tools |-> [t \in Tool |-> NewTool], out |-> <<>>]

Tell(l, event) == [l EXCEPT !.out = Append(@, event)]
IsOpen(l, i) == IF i = 0 THEN FALSE ELSE l.blocks[i].open

Start(l, type) ==
  [Tell(l, <<"start", Len(l.blocks) + 1, type>>) EXCEPT
     !.blocks = Append(@, [type |-> type, open |-> TRUE, content |-> "none"])]
Delta(l, i, content) ==
  [Tell(l, <<"delta", i, content>>) EXCEPT !.blocks[i].content = Join(@, content)]
Stop(l, i) == [Tell(l, <<"stop", i>>) EXCEPT !.blocks[i].open = FALSE]

StopIf(l, i) == IF IsOpen(l, i) THEN Stop(l, i) ELSE l
CloseContent(l) == StopIf(StopIf(l, l.thinking), l.text)

EnsureThinking(l) ==
  LET closed == StopIf(l, l.text)
  IN IF IsOpen(l, l.thinking) THEN closed
     ELSE [Start(closed, "thinking") EXCEPT !.thinking = Len(l.blocks) + 1]
EnsureText(l) ==
  LET closed == StopIf(l, l.thinking)
  IN IF IsOpen(l, l.text) THEN closed
     ELSE [Start(closed, "text") EXCEPT !.text = Len(l.blocks) + 1]

\* Some words of text or of thinking: never repaired, so one "whole" will do.
Write(l, i) == [Tell(l, <<"delta", i, "whole">>) EXCEPT !.blocks[i].content = "whole"]
Says(l) == LET e == EnsureText(l) IN Write(e, e.text)
Thinks(l) == LET e == EnsureThinking(l) IN Write(e, e.thinking)

\* A tool call found in the text: a whole block of its own.
TextTool(l) ==
  LET n == Len(l.blocks) + 1
  IN Stop(Delta(Start(CloseContent(l), "tool_use"), n, "whole"), n)

ToolBlocks(l) == {i \in DOMAIN l.blocks : l.blocks[i].type = "tool_use"}
Started(l) == {t \in Tool : l.tools[t].block # 0}
HasTool(l) == ToolBlocks(l) # {}
Generated(l) == l.text # 0 \/ l.thinking # 0 \/ HasTool(l)
ToolsWhole(l) == \A i \in ToolBlocks(l) : l.blocks[i].content = "whole"
Salvageable(l) == HasTool(l) /\ ToolsWhole(l)
HasWords(l, type) == \E i \in DOMAIN l.blocks : l.blocks[i].type = type /\ l.blocks[i].content = "whole"

CloseAll(l) ==
  EachTool(LAMBDA acc, t : IF l.tools[t].block # 0 THEN Stop(acc, l.tools[t].block) ELSE acc, CloseContent(l))

\* close_unclosed_blocks: the last opened block is closed first.
CloseUnclosed(l) ==
  LET last == Len(l.blocks)
      closed[n \in 0..last] == IF n = 0 THEN l ELSE StopIf(closed[n - 1], last + 1 - n)
  IN closed[last]

Completes(l, reason) == Tell(Tell(CloseAll(l), <<"message_delta", reason>>), <<"message_stop">>)
StopReason(l) == IF HasTool(l) THEN "tool_use" ELSE "end_turn"

-----------------------------------------------------------------------------
(* Tool calls.                                                             *)

\* _emit_tool_arg_delta: Task and aliased arguments wait until they are whole.
Args(kind, l, t, piece) ==
  LET tool == l.tools[t]
      all == Join(tool.buffer, piece)
  IN IF piece = "none" \/ tool.emitted THEN l
     ELSE IF kind[t] = "plain" THEN Delta(l, tool.block, piece)
     ELSE IF all # "whole" THEN [l EXCEPT !.tools[t].buffer = all]
     ELSE Delta([l EXCEPT !.tools[t].buffer = "none", !.tools[t].emitted = (kind[t] = "task")],
                tool.block, "whole")

OpensTool(l, t) ==
  [Start(l, "tool_use") EXCEPT !.tools[t].block = Len(l.blocks) + 1, !.tools[t].pre = "none"]

\* process_tool_call: a name opens the block, and arguments that came before
\* it are sent first.  Arguments without a name are kept.
ToolCall(kind, l, t, named, piece) ==
  LET known == [l EXCEPT !.tools[t].named = @ \/ named]
  IN IF known.tools[t].block # 0 THEN Args(kind, known, t, piece)
     ELSE IF known.tools[t].named THEN Args(kind, Args(kind, OpensTool(known, t), t, l.tools[t].pre), t, piece)
     ELSE [known EXCEPT !.tools[t].pre = Join(@, piece)]

\* What a tool sends next, given what it sent so far.
Pieces(sent) == CASE sent = "none" -> {"none", "part", "whole"}
                  [] sent = "part" -> {"none", "rest"}
                  [] OTHER -> {"none"}

FlushNames(l) ==
  EachTool(LAMBDA acc, t : IF run.names[t] = "exact" THEN ToolCall(KindOf, acc, t, TRUE, "none") ELSE acc, l)
\* Task arguments that are still not whole become an empty object.
FlushArgs(l, kind) ==
  EachTool(LAMBDA acc, t :
             IF acc.tools[t].buffer # "none" /\ KindOf[t] = kind
             THEN Delta([acc EXCEPT !.tools[t].buffer = "none"], acc.tools[t].block,
                        IF kind = "task" THEN "empty" ELSE acc.tools[t].buffer)
             ELSE acc,
           l)
FlushAliases(l) == FlushArgs(l, "aliased")
FlushTasks(l) == FlushArgs(l, "task")

-----------------------------------------------------------------------------
(* The client, as strict as the repository's stream contract.              *)

NewClient == [started |-> 0, blocks |-> <<>>, bad |-> FALSE, over |-> "no"]

OpenAt(c, i) == i \in DOMAIN c.blocks /\ c.blocks[i].open
Lawful(c, e) ==
  /\ c.over = "no"
  /\ (e[1] = "message_start") = (c.started = 0)
  /\ e[1] = "start" => e[2] = Len(c.blocks) + 1
  /\ e[1] \in {"delta", "stop"} => OpenAt(c, e[2])
  /\ e[1] \in {"message_stop", "error"} => \A i \in DOMAIN c.blocks : ~c.blocks[i].open
  /\ e[1] = "message_stop" => c.blocks # <<>>

See(c, e) ==
  IF ~Lawful(c, e) THEN [c EXCEPT !.bad = TRUE]
  ELSE CASE e[1] = "message_start" -> [c EXCEPT !.started = 1]
         [] e[1] = "start" -> [c EXCEPT !.blocks = Append(@, [type |-> e[3], open |-> TRUE, content |-> "none"])]
         [] e[1] = "delta" -> [c EXCEPT !.blocks[e[2]].content =
                                 IF c.blocks[e[2]].type = "tool_use" THEN Join(@, e[3]) ELSE "whole"]
         [] e[1] = "stop" -> [c EXCEPT !.blocks[e[2]].open = FALSE]
         [] e[1] = "message_stop" -> [c EXCEPT !.over = "stopped"]
         [] e[1] = "error" -> [c EXCEPT !.over = "error"]
         [] OTHER -> c
Receives(c, events) ==
  LET seen[n \in 0..Len(events)] == IF n = 0 THEN c ELSE See(seen[n - 1], events[n])
  IN seen[Len(events)]

-----------------------------------------------------------------------------
(* The holdback buffer.                                                    *)

NewHold == [events |-> <<>>, committed |-> FALSE]

\* Events of a step are held until time or size `due`s the buffer.
Push(l, due) ==
  LET all == hold.events \o l.out
  IN /\ ledger' = [l EXCEPT !.out = <<>>]
     /\ IF hold.committed \/ (due /\ l.out # <<>>)
        THEN client' = Receives(client, all) /\ hold' = [events |-> <<>>, committed |-> TRUE]
        ELSE UNCHANGED client /\ hold' = [hold EXCEPT !.events = all]

-----------------------------------------------------------------------------
NoneYet == [t \in Tool |-> "none"]
WithAttempt(r) == [r EXCEPT !.finish = FALSE, !.left = "nothing", !.names = NoneYet, !.sent = NoneYet]

StreamInit ==
  /\ ledger = NewLedger /\ hold = NewHold /\ client = NewClient
  /\ \E reasons \in BOOLEAN :
       run = [phase |-> "opening", attempts |-> 0, chunks |-> 0, reasoning |-> reasons,
              error |-> "none", recovered |-> FALSE, finish |-> FALSE, left |-> "nothing",
              names |-> NoneYet, sent |-> NoneYet]

Remaining == MaxAttempts - run.attempts

\* The message starts, then an attempt is opened; earlier ones may have failed.
Opens(n) ==
  /\ run.phase = "opening" /\ n \in 1..Remaining
  /\ run' = [run EXCEPT !.phase = "streaming", !.attempts = @ + n]
  /\ Push(Tell(ledger, <<"message_start">>), FALSE)

Chunk(l, r) ==
  /\ run.phase = "streaming" /\ run.chunks < MaxChunks
  /\ run' = [r EXCEPT !.chunks = @ + 1]
  /\ \E due \in BOOLEAN : Push(l, due)

\* An empty reasoning delta opens a block and says nothing.
Reasons(words) ==
  Chunk(IF ~run.reasoning THEN ledger ELSE IF words THEN Thinks(ledger) ELSE EnsureThinking(ledger), run)

\* The parsers find thinking, text or a tool in the content, or nothing yet,
\* and keep what they cannot classify.
Put(l, found) ==
  CASE found = "thinking" -> IF run.reasoning THEN Thinks(l) ELSE l
    [] found = "text" -> Says(l)
    [] found = "tool" -> TextTool(l)
    [] OTHER -> l
Found == {"nothing", "thinking", "text", "tool"}
Content(found, left) ==
  /\ found # "nothing" \/ left # "nothing"
  /\ Chunk(Put(ledger, found), [run EXCEPT !.left = left])

\* A name may be held back while it could be the start of an alias.
Calls(t, name, piece) ==
  /\ piece \in Pieces(run.sent[t])
  /\ name = "none" => piece # "none"
  /\ name # "none" => ~ledger.tools[t].named
  /\ name = "partial" => run.names[t] = "none"
  /\ Chunk(ToolCall(KindOf, CloseContent(ledger), t, name = "full", piece),
           [run EXCEPT !.sent[t] = Join(@, piece),
                       !.names[t] = CASE name = "none" -> @ [] name = "full" -> "none" [] OTHER -> name])

Finishes ==
  /\ run.phase = "streaming" /\ ~run.finish
  /\ run' = [run EXCEPT !.finish = TRUE]
  /\ UNCHANGED <<ledger, hold, client>>

\* A stream cut short has no finish reason, or stops in the middle of a name.
Truncated == ~run.finish \/ \E t \in Tool : run.names[t] = "partial"

Ends ==
  LET parsed == Put(ledger, run.left)
      named == FlushNames(parsed)
      silent == \/ ~Generated(named)
                \/ ~HasTool(named) /\ ~HasWords(named, "text") /\ HasWords(named, "thinking")
      filled == IF silent THEN Says(named) ELSE named
      args == FlushTasks(FlushAliases(filled))
      all == Completes(args, StopReason(args))
  IN /\ run.phase = "streaming" /\ ~Truncated
     /\ ledger' = [all EXCEPT !.out = <<>>]
     /\ client' = Receives(client, hold.events \o all.out)
     /\ hold' = [events |-> <<>>, committed |-> TRUE]
     /\ run' = [run EXCEPT !.phase = "done"]

-----------------------------------------------------------------------------
(* Failures (stream_recovery.py, advance_failure).                         *)

\* Mutant of MayRetry: also when the client has seen something.
MayRetryLate(retryable) ==
  /\ retryable /\ Remaining > 0 /\ ~Salvageable(ledger)
  /\ ~(Generated(ledger) /\ Remaining = 1)

\* Unseen so far: start again.  Once something was generated, the last
\* attempt is kept for recovery.
MayRetry(retryable) ==
  /\ retryable /\ Remaining > 0 /\ ~hold.committed /\ ~Salvageable(ledger)
  /\ ~(Generated(ledger) /\ Remaining = 1)

MayRecover(retryable) == retryable /\ Generated(ledger) /\ (Remaining > 0 \/ Salvageable(ledger))

\* The request fails: the client is told only if it has seen something, or
\* if what it has not seen is a complete tool call.
Breaks(l, due) ==
  LET seen == hold.committed \/ (due /\ l.out # <<>>) \/ Salvageable(l)
      closed == CloseUnclosed(l)
  IN /\ run' = [run EXCEPT !.phase = "failed"]
     /\ ledger' = [IF seen THEN closed ELSE l EXCEPT !.out = <<>>]
     /\ hold' = [events |-> <<>>, committed |-> seen]
     /\ client' = IF seen THEN Receives(client, Append(hold.events \o closed.out, <<"error">>)) ELSE client

\* The ledger as it stood when recovery began to write to it, events unsent.
Unsent(l) == [l EXCEPT !.out = <<>>]

Handles(error) ==
  LET retryable == error # "fatal"
  IN IF MayRetry(retryable)
     THEN /\ ledger' = NewLedger /\ hold' = NewHold
          /\ run' = [WithAttempt(run) EXCEPT !.phase = "opening"]
          /\ UNCHANGED client
     ELSE IF MayRecover(retryable)
     THEN /\ run' = [run EXCEPT !.phase = "recovering", !.error = error]
          /\ UNCHANGED <<ledger, hold, client>>
     ELSE Breaks(ledger, FALSE)

OpenFails == run.phase = "opening" /\ Breaks(ledger, FALSE)

\* The upstream stream raises, or ends without its terminal marker.
Cut(error) == run.phase = "streaming" /\ Handles(error)
RunsOut == run.phase = "streaming" /\ Truncated /\ Handles("cut")

\* A chunk can raise half-way: here after it closed the content blocks.
BadChunk(due) == run.phase = "streaming" /\ Breaks(CloseContent(ledger), due)

-----------------------------------------------------------------------------
(* Recovery.  Its events stay in ledger.out until it has succeeded.        *)

Recovered(l) ==
  LET all == Completes(l, StopReason(l))
  IN /\ ledger' = [all EXCEPT !.out = <<>>]
     /\ client' = Receives(client, hold.events \o all.out)
     /\ hold' = [events |-> <<>>, committed |-> TRUE]
     /\ run' = [run EXCEPT !.phase = "done", !.recovered = TRUE]

Salvages == run.phase = "recovering" /\ Salvageable(ledger) /\ Recovered(ledger)

\* What an accepted answer adds to the arguments.
Suffix(content) == IF content = "none" THEN "whole" ELSE "rest"

\* The suffix of a cut tool call is asked for, one call after the other.
\* What was buffered but never sent is sent with it.
Repairs(t, n) ==
  LET i == ledger.tools[t].block
  IN /\ run.phase = "recovering" /\ HasTool(ledger) /\ n \in 1..Remaining
     /\ t \in Started(ledger) /\ ledger.blocks[i].content \in {"none", "part"}
     /\ \A u \in Started(ledger) : u < t => ledger.blocks[ledger.tools[u].block].content = "whole"
     /\ ledger' = Delta(ledger, i, Suffix(ledger.blocks[i].content))
     /\ run' = [run EXCEPT !.attempts = @ + n]
     /\ UNCHANGED <<hold, client>>

\* A continuation adds thinking, text and, when the upstream broke the tool
\* protocol and was given the tools again, complete calls.  Recovered calls
\* carry no aliases.
Unaliased == [t \in Tool |-> IF KindOf[t] = "task" THEN "task" ELSE "plain"]
Continues(adds, calls) ==
  LET thought == IF "thinking" \in adds THEN Thinks(ledger) ELSE ledger
      said == IF "text" \in adds THEN Says(thought) ELSE thought
      called == EachTool(LAMBDA acc, t : IF t \in calls THEN ToolCall(Unaliased, acc, t, TRUE, "whole") ELSE acc,
                         CloseContent(said))
  IN /\ run.phase = "recovering" /\ ~HasTool(ledger) /\ Remaining > 0
     /\ \E type \in {"text", "thinking"} : HasWords(ledger, type)
     /\ ~(adds = {} /\ calls = {})
     /\ "thinking" \in adds => run.reasoning
     /\ calls # {} => run.error = "protocol"
     /\ Recovered(IF calls = {} THEN said ELSE called)

\* Attempts run out, fail, or return nothing that fits.
GivesUp == run.phase = "recovering" /\ ~Salvageable(ledger) /\ Breaks(Unsent(ledger), FALSE)

StreamNext ==
  \/ \E n \in 1..MaxAttempts : Opens(n)
  \/ \E words \in BOOLEAN : Reasons(words)
  \/ \E found, left \in Found : Content(found, left)
  \/ \E t \in Tool, name \in {"none", "partial", "exact", "full"}, piece \in Contents : Calls(t, name, piece)
  \/ Finishes
  \/ Ends
  \/ OpenFails
  \/ \E error \in {"cut", "protocol", "fatal"} : Cut(error)
  \/ RunsOut
  \/ \E due \in BOOLEAN : BadChunk(due)
  \/ Salvages
  \/ \E t \in Tool, n \in 1..MaxAttempts : Repairs(t, n)
  \/ \E adds \in SUBSET {"thinking", "text"}, calls \in SUBSET Tool : Continues(adds, calls)
  \/ GivesUp

StreamSpec == StreamInit /\ [][StreamNext]_streamVars

-----------------------------------------------------------------------------
(* Properties.                                                             *)

(* What the client has and what is held back for it are together what the  *)
(* ledger wrote for this attempt: nothing of a discarded attempt is seen,  *)
(* nothing of this one is lost or sent twice.  And whatever is retried,    *)
(* repaired or given up, a client that receives anything receives one      *)
(* well-formed message: one start, blocks opened once, written only while  *)
(* open, all closed, at least one of them, and one end.  If it ends well   *)
(* after its stream was cut in a tool call, every tool input in it is      *)
(* complete (provider.py run, _recovery_events, _repair_tool_args,         *)
(* stream_recovery.py, stream_contracts.py).                               *)
ClientSeesLedger ==
  /\ ~client.bad
  /\ run.phase = "done" => client.over = "stopped"
  /\ run.phase = "failed" => client.over = (IF client.started = 0 THEN "no" ELSE "error")
  /\ run.phase \in {"streaming", "done"} => Receives(client, hold.events).blocks = ledger.blocks
  /\ run.phase = "done" /\ run.recovered /\ run.error = "cut" =>
       \A i \in DOMAIN client.blocks : client.blocks[i].type = "tool_use" => client.blocks[i].content = "whole"
=============================================================================
