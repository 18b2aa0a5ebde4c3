-------------------------- MODULE HistoryConversion --------------------------
(***************************************************************************)
(* The history a client sends along, rewritten for the provider.  A client *)
(* of the Responses API sends items, which become Anthropic messages; a    *)
(* client of the Messages API sends those.  For a chat provider they are   *)
(* reordered, because it wants every tool result directly behind its call; *)
(* for a Responses provider they become items again.  An entry of the      *)
(* history is known by its position, a call and its result by the          *)
(* position of the call.                                                   *)
(***************************************************************************)
EXTENDS SequencesExt, Naturals

CONSTANT MaxEntries

VARIABLES
  speaker,   \* the API the client speaks
  history,   \* what it says, in its order
  messages,  \* the Anthropic messages
  pending,   \* reasoning that waits for the message it belongs to
  dropped    \* calls with invalid arguments, which are left out

historyVars == <<speaker, history, messages, pending, dropped>>

Block(kind, n) == [kind |-> kind, n |-> n]
Kinds(blocks) == {blocks[i].kind : i \in DOMAIN blocks}
Of(blocks, kind) == LET those == SelectSeq(blocks, LAMBDA b : b.kind = kind) IN [i \in DOMAIN those |-> those[i].n]
\* Content is a list of blocks, or (listed is FALSE) an empty string.
NewMessage(role, content, reasoning) ==
  [role |-> role, content |-> content, listed |-> content # <<>>, reasoning |-> reasoning]

-----------------------------------------------------------------------------
(* From Responses items.                                                   *)

NoPending == [text |-> <<>>, sealed |-> <<>>]
FlushPending(ms) ==
  IF pending = NoPending THEN ms ELSE Append(ms, NewMessage("assistant", pending.sealed, pending.text))

\* The last message, if it holds nothing but calls and their reasoning.
EndsInCalls(ms) ==
  /\ ms # <<>> /\ Last(ms).role = "assistant"
  /\ "call" \in Kinds(Last(ms).content) /\ Kinds(Last(ms).content) \subseteq {"sealed", "think", "call"}
EndsInResults(ms) ==
  /\ ms # <<>> /\ Last(ms).role = "user" /\ Kinds(Last(ms).content) = {"result"}

ReplaceLast(ms, m) == Append(Front(ms), m)
JoinPending(m) == [m EXCEPT !.reasoning = @ \o pending.text, !.content = pending.sealed \o @, !.listed = TRUE]

AddCall(ms, block) ==
  LET m == JoinPending(IF EndsInCalls(ms) THEN Last(ms) ELSE NewMessage("assistant", <<>>, <<>>))
      more == [m EXCEPT !.content = Append(@, block)]
  IN IF EndsInCalls(ms) THEN ReplaceLast(ms, more) ELSE Append(ms, more)

AddResult(ms, block) ==
  LET settled == IF EndsInCalls(ms) THEN ReplaceLast(ms, JoinPending(Last(ms))) ELSE FlushPending(ms)
  IN IF EndsInResults(settled)
     THEN ReplaceLast(settled, [Last(settled) EXCEPT !.content = Append(@, block)])
     ELSE Append(settled, NewMessage("user", <<block>>, <<>>))

-----------------------------------------------------------------------------
HistoryInit ==
  /\ speaker \in {"responses", "messages"}
  /\ history = <<>> /\ messages = <<>> /\ pending = NoPending /\ dropped = {}

NextPlace == Len(history) + 1
Entered(entry) == Len(history) < MaxEntries /\ history' = Append(history, entry)
Resulted == {history[i].n : i \in {j \in DOMAIN history : history[j].kind = "result"}}
Unanswered == {i \in DOMAIN history : history[i].kind \in {"call", "bad"}} \ Resulted
Fewer(n, kind) == Len(Of(history, kind)) < n

(* One item of a client of the Responses API.                              *)
ReasoningItem(kind) ==
  /\ speaker = "responses" /\ Entered(Block(kind, NextPlace))
  /\ pending' = IF kind = "think" THEN [pending EXCEPT !.text = Append(@, NextPlace)]
                ELSE [pending EXCEPT !.sealed = Append(@, Block(kind, NextPlace))]
  /\ UNCHANGED <<speaker, messages, dropped>>

AssistantItem ==
  /\ speaker = "responses" /\ Entered(Block("text", NextPlace))
  /\ messages' = Append(messages, NewMessage("assistant", Append(pending.sealed, Block("text", NextPlace)), pending.text))
  /\ pending' = NoPending
  /\ UNCHANGED <<speaker, dropped>>

UserItem ==
  /\ speaker = "responses" /\ Entered(Block("user", NextPlace))
  /\ messages' = Append(FlushPending(messages), NewMessage("user", <<Block("user", NextPlace)>>, <<>>))
  /\ pending' = NoPending
  /\ UNCHANGED <<speaker, dropped>>

\* It goes to the top of the request.
SystemItem ==
  /\ speaker = "responses" /\ Entered(Block("system", NextPlace))
  /\ messages' = FlushPending(messages) /\ pending' = NoPending
  /\ UNCHANGED <<speaker, dropped>>

CallItem ==
  /\ speaker = "responses" /\ Entered(Block("call", NextPlace))
  /\ messages' = AddCall(messages, Block("call", NextPlace)) /\ pending' = NoPending
  /\ UNCHANGED <<speaker, dropped>>
InvalidCallItem ==
  /\ speaker = "responses" /\ Entered(Block("bad", NextPlace))
  /\ dropped' = dropped \cup {NextPlace}
  /\ UNCHANGED <<speaker, messages, pending>>

ResultItem(c) ==
  /\ speaker = "responses" /\ Entered(Block("result", c))
  /\ IF c \in dropped THEN UNCHANGED <<messages, pending>>
     ELSE messages' = AddResult(messages, Block("result", c)) /\ pending' = NoPending
  /\ UNCHANGED <<speaker, dropped>>

\* A block of a client of the Messages API, in the message of its role.
RoleOf(kind) == IF kind = "system" THEN "system" ELSE IF kind \in {"user", "result"} THEN "user" ELSE "assistant"
MessageBlock(block) ==
  /\ speaker = "messages" /\ Entered(block)
  /\ messages' = IF messages # <<>> /\ Last(messages).role = RoleOf(block.kind)
                 THEN ReplaceLast(messages, [Last(messages) EXCEPT !.content = Append(@, block)])
                 ELSE Append(messages, NewMessage(RoleOf(block.kind), <<block>>, <<>>))
  /\ UNCHANGED <<speaker, pending, dropped>>

HistoryNext ==
  \/ ReasoningItem("think") \/ (Fewer(2, "sealed") /\ ReasoningItem("sealed"))
  \/ AssistantItem \/ UserItem \/ (Fewer(1, "system") /\ SystemItem)
  \/ CallItem \/ (Fewer(1, "bad") /\ InvalidCallItem)
  \/ \E c \in Unanswered : ResultItem(c)
  \/ \E kind \in {"think", "text", "user", "call"} : MessageBlock(Block(kind, NextPlace))
  \/ Fewer(2, "sealed") /\ MessageBlock(Block("sealed", NextPlace))
  \/ Fewer(1, "system") /\ MessageBlock(Block("system", NextPlace))
  \/ \E c \in Unanswered : MessageBlock(Block("result", c))

HistorySpec == HistoryInit /\ [][HistoryNext]_historyVars

-----------------------------------------------------------------------------
(* To chat messages.  Reasoning is replayed in a field of its own, in tags *)
(* in the text, or not at all.                                             *)

ChatMessage(role) == [role |-> role, text |-> <<>>, calls |-> <<>>, field |-> <<>>, tags |-> <<>>, answers |-> 0]
UserMessage(n) == [ChatMessage("user") EXCEPT !.text = <<n>>]
ToolMessage(c) == [ChatMessage("tool") EXCEPT !.answers = c]
Boundary == ChatMessage("boundary")  \* an assistant's, but marked

AssistantMessage(blocks, reasoning, mode) ==
  [ChatMessage("assistant") EXCEPT
     !.text = Of(blocks, "text"),
     !.tags = IF mode = "tags" THEN Of(blocks, "think") ELSE <<>>,
     !.field = IF mode # "field" THEN <<>> ELSE IF reasoning # <<>> THEN reasoning ELSE Of(blocks, "think")]

\* A message without blocks is an empty string; only there are tags made of
\* reasoning that came beside the content.
EmptyMessage(m, mode) ==
  [ChatMessage("assistant") EXCEPT !.field = IF mode = "field" THEN m.reasoning ELSE <<>>,
                                   !.tags = IF mode = "tags" THEN m.reasoning ELSE <<>>]

\* A turn with calls.  What the model said behind its first call waits for the
\* results.
PlainSegment(m) == [required |-> <<>>, first |-> <<m>>, deferred |-> <<>>, emitted |-> FALSE]
ToolTurn(m, mode) ==
  LET first == SelectInSeq(m.content, LAMBDA b : b.kind = "call")
      calls == Of(m.content, "call")
      later == SelectSeq(SubSeq(m.content, first, Len(m.content)), LAMBDA b : b.kind # "call")
  IN [required |-> calls,
      first |-> <<[AssistantMessage(SubSeq(m.content, 1, first - 1), m.reasoning, mode) EXCEPT !.calls = calls]>>,
      deferred |-> IF later = <<>> THEN <<>> ELSE <<AssistantMessage(later, m.reasoning, mode)>>,
      emitted |-> FALSE]

NoSegments == [output |-> <<>>, segments |-> <<>>, results |-> {}]
Emission(s) ==
  (IF s.emitted THEN <<>> ELSE s.first) \o [i \in DOMAIN s.required |-> ToolMessage(s.required[i])] \o s.deferred

\* Segments leave in order, up to the first turn that lacks a result; the calls
\* of that turn are out already.
Drain(l) ==
  LET Answered(n) == \A m \in 1..n : ToSet(l.segments[m].required) \subseteq l.results
      ready == CHOOSE n \in 0..Len(l.segments) : Answered(n) /\ (n < Len(l.segments) => ~Answered(n + 1))
      rest == SubSeq(l.segments, ready + 1, Len(l.segments))
      out == l.output \o FlattenSeq([n \in 1..ready |-> Emission(l.segments[n])])
  IN IF rest = <<>> THEN [l EXCEPT !.output = out, !.segments = <<>>]
     ELSE [l EXCEPT !.output = out \o IF rest[1].emitted THEN <<>> ELSE rest[1].first,
                    !.segments = [rest EXCEPT ![1].emitted = TRUE]]
AddSegment(l, s) == Drain([l EXCEPT !.segments = Append(@, s)])

\* Mutant of RecordResult: a result is passed on where it comes.
RecordPlainly(l, c) == AddSegment([l EXCEPT !.results = @ \cup {c}], PlainSegment(ToolMessage(c)))

RecordResult(l, c) ==
  IF \E i \in DOMAIN l.segments : c \in ToSet(l.segments[i].required) THEN [l EXCEPT !.results = @ \cup {c}]
  ELSE AddSegment(l, PlainSegment(ToolMessage(c)))

AddUserBlock(l, b) == IF b.kind = "result" THEN RecordResult(l, b.n) ELSE AddSegment(l, PlainSegment(UserMessage(b.n)))

AddMessage(l, m, mode) ==
  IF m.role # "assistant" THEN Drain(FoldLeft(AddUserBlock, l, m.content))
  ELSE IF ~m.listed THEN AddSegment(l, PlainSegment(EmptyMessage(m, mode)))
  ELSE IF "call" \in Kinds(m.content) THEN AddSegment(l, ToolTurn(m, mode))
  ELSE AddSegment(l, PlainSegment(AssistantMessage(m.content, m.reasoning, mode)))

\* A user may not speak directly after a tool, nor twice in a row.
CloseTurn(out, m) ==
  IF m.role = "user" /\ out # <<>> /\ Last(out).role = "tool" THEN out \o <<Boundary, m>> ELSE Append(out, m)
Coalesce(out, m) ==
  IF m.role = "user" /\ out # <<>> /\ Last(out).role = "user"
  THEN ReplaceLast(out, [Last(out) EXCEPT !.text = @ \o m.text]) ELSE Append(out, m)

Settled == FlushPending(messages)
ChatOf(ms, mode) ==
  LET ledger == Drain(FoldLeft(LAMBDA l, m : AddMessage(l, m, mode), NoSegments, ms))
      closed == FoldLeft(CloseTurn, <<>>, ledger.output)
  IN [ok |-> ledger.segments = <<>>, out |-> FoldLeft(Coalesce, <<>>, closed)]
Chat(mode) == ChatOf(Settled, mode)

-----------------------------------------------------------------------------
(* To Responses items.                                                     *)

ReasoningItems(m) ==
  LET text == m.reasoning \o Of(m.content, "think")
      sealed == Of(m.content, "sealed")
  IN IF sealed # <<>>
     THEN [i \in DOMAIN sealed |-> [kind |-> "reasoning", text |-> IF i = 1 THEN text ELSE <<>>, sealed |-> {sealed[i]}]]
     ELSE IF text # <<>> THEN <<[kind |-> "reasoning", text |-> text, sealed |-> {}]>> ELSE <<>>

SpokenItems(m) == SelectSeq(m.content, LAMBDA b : b.kind \notin {"think", "sealed"})
ItemsOf(m) ==
  IF m.role = "system" THEN <<>>
  ELSE IF m.listed THEN ReasoningItems(m) \o SpokenItems(m)
  ELSE ReasoningItems(m) \o <<Block("empty", 0)>>
Items == FlattenSeq([i \in DOMAIN Settled |-> ItemsOf(Settled[i])])

-----------------------------------------------------------------------------
Remembered == {i \in DOMAIN history : history[i].kind # "bad" /\ (history[i].kind = "result" => history[i].n \notin dropped)}
SaidAs(kind) == {i \in Remembered : history[i].kind = kind}
Speech == SaidAs("user") \cup SaidAs("text") \cup SaidAs("call")
          \cup IF speaker = "messages" THEN SaidAs("system") ELSE {}

\* Whether an entry comes before another once the calls of an Anthropic message
\* are taken together at the first of them.
InContent(i, m) == Block(history[i].kind, history[i].n) \in ToSet(m.content)
MessageOf(i) == CHOOSE k \in DOMAIN Settled : InContent(i, Settled[k]) \/ i \in ToSet(Settled[k].reasoning)
Before(i, j) ==
  LET CallBefore(k) == \E c \in SaidAs("call") : c < k /\ MessageOf(c) = MessageOf(k)
      Rank(k) == IF history[k].kind = "call" THEN 1
                 ELSE IF CallBefore(k) /\ InContent(k, Settled[MessageOf(k)]) THEN 2 ELSE 0
  IN IF MessageOf(i) # MessageOf(j) THEN i < j ELSE Rank(i) < Rank(j) \/ (Rank(i) = Rank(j) /\ i < j)

\* Where an entry is, as a message and a place in it.
Places(out, n) == {m \in DOMAIN out : n \in ToSet(out[m].text) \cup ToSet(out[m].calls)}
FieldPlaces(out, n) == {m \in DOMAIN out : n \in ToSet(out[m].field)}
Ordered(out, i, j) ==
  \A m \in Places(out, i), k \in Places(out, j) :
    LET all == out[m].text \o out[m].calls
    IN m < k \/ (m = k /\ \A a, b \in DOMAIN all : (all[a] = i /\ all[b] = j) => a < b)

\* Each call is followed at once by its results, in the order of the calls, and
\* no result is anywhere else.
ResultsFollow(out) ==
  /\ \A m \in DOMAIN out : \A n \in DOMAIN out[m].calls :
       m + n \in DOMAIN out /\ out[m + n].answers = out[m].calls[n]
  /\ \A m \in DOMAIN out : out[m].role = "tool" =>
       Cardinality({k \in DOMAIN out : out[k].answers = out[m].answers}) = 1
       /\ \E k \in DOMAIN out : out[m].answers \in ToSet(out[k].calls)

(* A history in which every call has its result is accepted, and no other; *)
(* the chat history then holds everything said once and in order, each     *)
(* call directly followed by its results, no user behind a tool or another *)
(* user, and reasoning replayed in a field once and no later than what     *)
(* followed it, or not at all when it is not to be replayed.  A Responses  *)
(* provider is sent the same in the client's own order, sealed reasoning   *)
(* with it (conversion.py, input.py, provider_input.py).                   *)
HistoryIsKept == history # <<>> =>
  /\ \A mode \in {"field", "tags", "none"} :
       LET chat == Chat(mode)
           out == chat.out
       IN /\ chat.ok <=> SaidAs("call") \subseteq Resulted
          /\ chat.ok =>
               /\ ResultsFollow(out)
               /\ \A i \in Speech : Cardinality(Places(out, i)) = 1
               /\ \A i, j \in Speech : (i # j /\ Before(i, j)) => Ordered(out, i, j)
               /\ \A m \in 2..Len(out) : out[m].role = "user" => out[m - 1].role \in {"assistant", "boundary"}
               /\ \A i \in SaidAs("think") :
                    IF mode # "field" THEN FieldPlaces(out, i) = {}
                    ELSE /\ Cardinality(FieldPlaces(out, i)) = 1
                         /\ \A j \in Speech : Before(i, j) => \A m \in FieldPlaces(out, i), k \in Places(out, j) : m <= k
  /\ LET spoken == SelectSeq(Items, LAMBDA item : item.kind \notin {"reasoning", "empty"})
         told == SelectSeq([i \in DOMAIN history |-> IF i \in Remembered THEN history[i] ELSE Block("none", 0)],
                           LAMBDA b : b.kind \notin {"none", "think", "sealed", "system"})
         Tells(i) == {k \in DOMAIN Items : Items[k].kind = "reasoning"
                                           /\ (i \in ToSet(Items[k].text) \/ i \in Items[k].sealed)}
     IN /\ spoken = told
        /\ \A i \in SaidAs("think") \cup SaidAs("sealed") : Cardinality(Tells(i)) = 1
=============================================================================
