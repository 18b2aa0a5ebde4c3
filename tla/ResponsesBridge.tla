-------------------------- MODULE ResponsesBridge --------------------------
(***************************************************************************)
(* A client that speaks the Responses API served by a provider that speaks *)
(* it too: the upstream stream becomes Anthropic events (the adapter) and  *)
(* these become the client's stream (the assembler).  Between the two the  *)
(* provider holds events back for a moment, so an attempt that fails early *)
(* is tried again unseen.  What the upstream says is a sequence of items,  *)
(* each with pieces of text or arguments; items may be open together.      *)
(***************************************************************************)
EXTENDS SequencesExt, Naturals

CONSTANTS MaxItems, MaxPieces, MaxTries

VARIABLES
  attempt,
  upstream,   \* items of this attempt: their kind, pieces sent, whether done
  said,       \* pieces of this attempt in the order they came
  upEnd,      \* how the upstream ended
  adapter,    \* ResponsesProviderStream with its ledger
  held,       \* events held back
  committed,  \* events are passed on
  assembler   \* ResponsesStreamAssembler with its ledger

bridgeVars == <<attempt, upstream, said, upEnd, adapter, held, committed, assembler>>

IsCall(kind) == kind \in {"call", "custom"}
Piece(i, k, last) == [attempt |-> attempt, item |-> i, k |-> k, last |-> last]

\* Anthropic events.
BlockStart(b, kind, i) == [event |-> "start", block |-> b, kind |-> kind, item |-> i]
BlockDelta(b, piece) == [event |-> "delta", block |-> b, piece |-> piece]
BlockStop(b) == [event |-> "stop", block |-> b]
Reason(why) == [event |-> "reason", why |-> why]
MessageStop == [event |-> "end"]

-----------------------------------------------------------------------------
(* The adapter.  One text or thinking block is open at a time, and any     *)
(* number of tool blocks.                                                  *)

NewAdapter == [blocks |-> 0, open |-> "none", openBlock |-> 0, tools |-> <<>>]
OpenTool(block) == [block |-> block, started |-> TRUE, received |-> FALSE, stopped |-> FALSE]
NoTool == [block |-> 0, started |-> FALSE, received |-> FALSE, stopped |-> FALSE]

CloseParts(a) ==
  [a |-> [a EXCEPT !.open = "none"], out |-> IF a.open = "none" THEN <<>> ELSE <<BlockStop(a.openBlock)>>]

NewBlock(a) == [a EXCEPT !.blocks = @ + 1]
Ensure(a, kind) ==
  LET closed == CloseParts(a)
      b == a.blocks + 1
  IN IF a.open = kind THEN [a |-> a, out |-> <<>>]
     ELSE [a |-> [NewBlock(closed.a) EXCEPT !.open = kind, !.openBlock = b],
           out |-> Append(closed.out, BlockStart(b, kind, 0))]

EnsureTool(a, i, kind) ==
  LET closed == CloseParts(a)
  IN IF a.tools[i].started THEN closed
     ELSE [a |-> [NewBlock(closed.a) EXCEPT !.tools[i] = OpenTool(a.blocks + 1)],
           out |-> Append(closed.out, BlockStart(a.blocks + 1, kind, i))]

\* A delta of an item.  What reasoning says openly is a thinking block.
BlockKind(kind) == IF kind = "sealed" THEN "thinking" ELSE kind
AdapterDelta(a, i, kind, piece) ==
  LET at == IF IsCall(kind) THEN EnsureTool(a, i, kind) ELSE Ensure(a, BlockKind(kind))
      b == IF IsCall(kind) THEN at.a.tools[i].block ELSE at.a.openBlock
  IN [a |-> IF IsCall(kind) THEN [at.a EXCEPT !.tools[i].received = TRUE] ELSE at.a,
      out |-> Append(at.out, BlockDelta(b, piece))]

\* An item is done: a call may bring its arguments only now; reasoning may be
\* sealed, and is then a block of its own.
AdapterDone(a, i, kind, piece) ==
  CASE IsCall(kind) ->
         LET at == EnsureTool(a, i, kind)
             b == at.a.tools[i].block
             late == IF at.a.tools[i].received \/ piece = <<>> THEN <<>> ELSE <<BlockDelta(b, piece[1])>>
         IN [a |-> [at.a EXCEPT !.tools[i].stopped = TRUE, !.tools[i].started = FALSE],
             out |-> at.out \o late \o <<BlockStop(b)>>]
    [] kind = "sealed" ->
         LET closed == CloseParts(a)
         IN [a |-> NewBlock(closed.a),
             out |-> closed.out \o <<BlockStart(a.blocks + 1, "sealed", i), BlockStop(a.blocks + 1)>>]
    [] OTHER -> [a |-> a, out |-> <<>>]

CloseTools(tools) ==
  FlattenSeq([i \in DOMAIN tools |-> IF tools[i].started THEN <<BlockStop(tools[i].block)>> ELSE <<>>])
CloseBlocks(a) == CloseParts(a).out \o CloseTools(a.tools)

\* The response ends.  One without content says a blank, and one that made a
\* tool call ends in "tool_use" (final_stop_reason).
AdapterFinish(a, incomplete) ==
  CloseBlocks(a)
  \o (IF a.blocks > 0 THEN <<>> ELSE <<BlockStart(1, "text", 0), BlockStop(1)>>)
  \o <<Reason(IF \E i \in DOMAIN a.tools : a.tools[i].block > 0 THEN "tool_use"
              ELSE IF incomplete THEN "max_tokens" ELSE "end_turn"),
       MessageStop>>

-----------------------------------------------------------------------------
(* The assembler.  A slot of the output is reserved when its block starts  *)
(* and filled when it ends.                                                *)

NewAssembler == [started |-> FALSE, slots |-> <<>>, active |-> <<>>, refused |-> FALSE, stop |-> "none", status |-> "open"]
Active(m, b) == {n \in DOMAIN m.active : m.active[n].block = b}

\* Arguments are valid JSON when there are none or all of them.
Whole(pieces) == pieces = <<>> \/ Last(pieces).last
Complete(m, b) ==
  LET n == CHOOSE x \in Active(m, b) : TRUE
      slot == m.active[n].slot
      valid == m.slots[slot].kind # "call" \/ Whole(m.slots[slot].pieces)
      rest == [m EXCEPT !.active = RemoveAt(@, n)]
  IN IF Active(m, b) = {} THEN m
     ELSE IF valid THEN [rest EXCEPT !.slots[slot].done = @ + 1] ELSE [rest EXCEPT !.refused = TRUE]

\* The blocks that are left, in the order of their slots.
Flush(m) ==
  LET left[n \in 0..Len(m.active)] == IF n = 0 THEN m ELSE Complete(left[n - 1], m.active[n].block)
  IN left[Len(m.active)]

FinishResponse(m) ==
  LET flushed == Flush(m)
  IN [flushed EXCEPT !.status = IF flushed.refused THEN "failed"
                                ELSE IF flushed.stop = "max_tokens" THEN "incomplete" ELSE "completed"]
FailExecution(m) == [Flush(m) EXCEPT !.status = "failed"]

Process(m, event) ==
  IF m.status # "open" THEN m
  ELSE CASE event.event = "start" ->
              LET r == Complete(m, event.block)
              IN [r EXCEPT !.started = TRUE,
                           !.slots = Append(@, [kind |-> event.kind, item |-> event.item, pieces |-> <<>>, done |-> 0]),
                           !.active = Append(@, [block |-> event.block, slot |-> Len(r.slots) + 1])]
         [] event.event = "delta" ->
              LET slots == {m.active[n].slot : n \in Active(m, event.block)}
              IN [m EXCEPT !.slots = [n \in DOMAIN @ |->
                    IF n \in slots THEN [@[n] EXCEPT !.pieces = Append(m.slots[n].pieces, event.piece)] ELSE @[n]]]
         [] event.event = "stop" -> Complete(m, event.block)
         [] event.event = "reason" -> [m EXCEPT !.stop = event.why]
         [] event.event = "end" -> FinishResponse(m)
ProcessAll(m, events) ==
  LET after[n \in 0..Len(events)] == IF n = 0 THEN m ELSE Process(after[n - 1], events[n])
  IN after[Len(events)]

-----------------------------------------------------------------------------
BridgeInit ==
  /\ attempt = 1 /\ upstream = <<>> /\ said = <<>> /\ upEnd = "none"
  /\ adapter = NewAdapter
  /\ held = <<>> /\ committed = FALSE
  /\ assembler = NewAssembler

\* Events leave the adapter: held back, or passed on with all that was held,
\* because the time or the size of the holdback is over.
Pushed(events) ==
  \E commit \in {committed, TRUE} :
    /\ committed' = commit
    /\ held' = IF commit THEN <<>> ELSE held \o events
    /\ assembler' = IF commit THEN ProcessAll(assembler, held \o events) ELSE assembler

UpstreamRuns == upEnd = "none"
Listening == UpstreamRuns /\ assembler.status = "open"

\* response.output_item.added.
ItemAdded(kind) ==
  /\ Listening /\ Len(upstream) < MaxItems
  /\ upstream' = Append(upstream, [kind |-> kind, sent |-> 0, last |-> FALSE, done |-> FALSE])
  /\ adapter' = [adapter EXCEPT !.tools = Append(@, NoTool)]
  /\ UNCHANGED <<attempt, said, upEnd, held, committed, assembler>>

\* A delta of text, of reasoning or of arguments.
DeltaComes(i, last) ==
  LET piece == Piece(i, upstream[i].sent + 1, last)
      fed == AdapterDelta(adapter, i, upstream[i].kind, piece)
  IN /\ Listening /\ ~upstream[i].done /\ ~upstream[i].last /\ upstream[i].sent < MaxPieces
     /\ upstream' = [upstream EXCEPT ![i].sent = @ + 1, ![i].last = last]
     /\ said' = Append(said, piece)
     /\ adapter' = fed.a /\ Pushed(fed.out)
     /\ UNCHANGED <<attempt, upEnd>>

\* response.output_item.done.
ItemDone(i) ==
  LET whole == IF IsCall(upstream[i].kind) /\ upstream[i].sent = 0 THEN <<Piece(i, 1, TRUE)>> ELSE <<>>
      fed == AdapterDone(adapter, i, upstream[i].kind, whole)
  IN /\ Listening /\ ~upstream[i].done /\ (upstream[i].sent > 0 => upstream[i].last)
     /\ upstream' = [upstream EXCEPT ![i].done = TRUE]
     /\ said' = said \o whole
     /\ adapter' = fed.a /\ Pushed(fed.out)
     /\ UNCHANGED <<attempt, upEnd>>

\* response.completed or response.incomplete.
UpstreamFinishes(how) ==
  LET events == AdapterFinish(adapter, how = "incomplete")
  IN /\ Listening /\ how \in {"completed", "incomplete"}
     /\ how = "completed" => \A i \in DOMAIN upstream : upstream[i].done
     /\ upEnd' = how /\ committed' = TRUE /\ held' = <<>>
     /\ assembler' = ProcessAll(assembler, held \o events)
     /\ UNCHANGED <<attempt, upstream, said, adapter>>

\* Mutant of RetriesUnseen: what was held back is not discarded.
RetriesKeeping ==
  /\ Listening /\ ~committed /\ attempt < MaxTries
  /\ attempt' = attempt + 1
  /\ upstream' = <<>> /\ said' = <<>> /\ adapter' = NewAdapter
  /\ UNCHANGED <<upEnd, held, committed, assembler>>

\* The stream fails before anything was passed on: another attempt.
RetriesUnseen ==
  /\ Listening /\ ~committed /\ attempt < MaxTries
  /\ attempt' = attempt + 1
  /\ upstream' = <<>> /\ said' = <<>> /\ adapter' = NewAdapter
  /\ held' = <<>>
  /\ UNCHANGED <<upEnd, committed, assembler>>

\* It fails for good.  What is open is closed, and the client's response fails;
\* with nothing passed on the request itself fails.
FailsForGood ==
  /\ Listening /\ upEnd' = "failed"
  /\ held' = <<>>
  /\ assembler' = IF committed THEN FailExecution(ProcessAll(assembler, CloseBlocks(adapter))) ELSE assembler
  /\ UNCHANGED <<attempt, upstream, said, adapter, committed>>

BridgeNext ==
  \/ \E kind \in {"text", "thinking", "sealed", "call", "custom"} : ItemAdded(kind)
  \/ \E i \in DOMAIN upstream : \E last \in BOOLEAN : DeltaComes(i, last)
  \/ \E i \in DOMAIN upstream : ItemDone(i)
  \/ \E how \in {"completed", "incomplete"} : UpstreamFinishes(how)
  \/ RetriesUnseen \/ FailsForGood

BridgeSpec == BridgeInit /\ [][BridgeNext]_bridgeVars

-----------------------------------------------------------------------------
(* What the client was given of a kind of item, and what was said of it.   *)
GivenBy(slots, kind) ==
  FlattenSeq([n \in DOMAIN slots |-> IF slots[n].kind = kind THEN slots[n].pieces ELSE <<>>])
Given(kind) == GivenBy(assembler.slots, kind)

\* The pieces of some items, in the order they came.
PiecesOf(pieces, items) ==
  FlattenSeq([n \in DOMAIN pieces |-> IF pieces[n].item \in items THEN <<pieces[n]>> ELSE <<>>])
ItemsOfKind(items, kind) == {i \in DOMAIN items : BlockKind(items[i].kind) = kind}
Said(kind) == PiecesOf(said, ItemsOfKind(upstream, kind))

(* When the upstream completed, so has the client's response: every item   *)
(* it was told of is done once, with all that was said, in order, and each *)
(* call and each sealed reasoning is an item of its own.  A response that  *)
(* ends otherwise holds a beginning of it, and no half of a function call. *)
(* Nothing of an attempt that was tried again is in it, and it ends when   *)
(* the upstream does (assembler.py, completion.py, provider_stream.py,     *)
(* openai_codex/provider.py _run_stream).                                  *)
ResponseIsWhole ==
  LET slots == assembler.slots
  IN /\ \A kind \in {"text", "thinking"} : IsPrefix(Given(kind), Said(kind))
     /\ \A n \in DOMAIN slots :
          /\ IsCall(slots[n].kind) => IsPrefix(slots[n].pieces, PiecesOf(said, {slots[n].item}))
          /\ slots[n].done <= 1
          /\ (slots[n].kind = "call" /\ slots[n].done = 1) => Whole(slots[n].pieces)
     /\ (upEnd = "completed") =>
          /\ assembler.status = "completed"
          /\ \A kind \in {"text", "thinking"} : Given(kind) = Said(kind)
          /\ \A n \in DOMAIN slots : slots[n].done = 1
          /\ \A i \in DOMAIN upstream : (upstream[i].kind \in {"call", "custom", "sealed"}) =>
               Cardinality({n \in DOMAIN slots : slots[n].item = i}) = 1
          /\ \A n \in DOMAIN slots : IsCall(slots[n].kind) =>
               slots[n].pieces = PiecesOf(said, {slots[n].item})
     /\ (assembler.status # "open") <=> (upEnd # "none" /\ committed)

(* "Anthropic `max_tokens` becomes `response.incomplete`" and "completion  *)
(* reasons remain canonical until that same assembler chooses the terminal *)
(* event" (ARCHITECTURE.md): a response the upstream cut short does not    *)
(* reach the client as a completed one.                                    *)
CutShortIsNotCompleted ==
  upEnd = "incomplete" => assembler.status # "completed"
=============================================================================
