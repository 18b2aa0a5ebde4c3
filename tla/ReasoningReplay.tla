--------------------------- MODULE ReasoningReplay ---------------------------
(***************************************************************************)
(* How the reasoning of earlier turns is given back to the providers that  *)
(* ask for it.  DeepSeek wants the reasoning of every turn with calls, and *)
(* no other; gateways want their opaque details back; Google wants each    *)
(* step of the current turn to begin with a signed call.                   *)
(***************************************************************************)
EXTENDS HistoryConversion

IsCalling(m) == m.role = "assistant" /\ "call" \in Kinds(m.content)

-----------------------------------------------------------------------------
(* DeepSeek.                                                               *)

ThinksFirst(m) ==
  \/ m.reasoning # <<>>
  \/ "think" \in Kinds(SubSeq(m.content, 1, SelectInSeq(m.content, LAMBDA b : b.kind = "call")))

HasToolHistory(ms) == \E i \in DOMAIN ms : IsCalling(ms[i]) \/ (ms[i].role = "user" /\ "result" \in Kinds(ms[i].content))
AllReplayable(ms) ==
  /\ \E i \in DOMAIN ms : IsCalling(ms[i])
  /\ \A i \in DOMAIN ms : IsCalling(ms[i]) => ThinksFirst(ms[i])

\* A request that cannot give back what is wanted is made without thinking.
ThinkingStays(ms) == HasToolHistory(ms) => AllReplayable(ms)

\* Mutant of Sanitized: only what is sealed is left out.
SanitizedSealed(m) ==
  IF m.role # "assistant" THEN m ELSE [m EXCEPT !.content = SelectSeq(@, LAMBDA b : b.kind # "sealed")]

Sanitized(m) ==
  IF m.role # "assistant" THEN m
  ELSE LET gone == IF IsCalling(m) THEN {"sealed"} ELSE {"sealed", "think"}
           kept == SelectSeq(m.content, LAMBDA b : b.kind \notin gone)
       IN [m EXCEPT !.content = kept, !.listed = kept # <<>>, !.reasoning = IF IsCalling(m) THEN @ ELSE <<>>]

DeepSeekChat(ms) == ChatOf([i \in DOMAIN ms |-> Sanitized(ms[i])], "field")

-----------------------------------------------------------------------------
(* Opaque details.  Those of a turn go to the first assistant message that *)
(* is behind the one the details of the turn before went to.               *)

AssistantDetails(ms) ==
  SelectSeq([i \in DOMAIN ms |-> IF ms[i].role = "assistant" THEN Of(ms[i].content, "sealed") ELSE <<>>],
            LAMBDA details : details # <<>>)

DetailsReplay(out, ms) ==
  LET Attach(done, details) ==
        LET free == {k \in DOMAIN out : k > done.cursor /\ out[k].role = "assistant"}
            k == CHOOSE x \in free : \A y \in free : x <= y
        IN IF free = {} THEN done ELSE [cursor |-> k, at |-> [done.at EXCEPT ![k] = details]]
  IN FoldLeft(Attach, [cursor |-> 0, at |-> [k \in DOMAIN out |-> <<>>]], AssistantDetails(ms)).at

-----------------------------------------------------------------------------
(* Signatures.  Those of calls that are remembered are given back; a step  *)
(* of the current turn whose first call has none says so.                  *)

CurrentTurn(out) ==
  LET users == {k \in DOMAIN out : out[k].role = "user"}
  IN {k \in DOMAIN out : \A u \in users : u < k}

Signatures(out, known) ==
  LET Given(k, n) == IF out[k].calls[n] \in known THEN "own" ELSE "none"
  IN [k \in DOMAIN out |-> [n \in DOMAIN out[k].calls |->
        IF k \in CurrentTurn(out) /\ n = 1 /\ Given(k, n) = "none" THEN "skip" ELSE Given(k, n)]]

-----------------------------------------------------------------------------
\* The message an entry is sent in, and whether it calls.
InCalling(i) == IsCalling(Settled[MessageOf(i)])
Bare(out) == SelectSeq([k \in DOMAIN out |-> [out[k] EXCEPT !.field = <<>>]],
                       LAMBDA m : m \notin {ChatMessage("assistant"), Boundary})

(* DeepSeek is sent what anyone else is, the reasoning of turns with calls *)
(* once and no other; if it is to think, every call comes with reasoning.  *)
(* Every detail is given back once, in the order of the messages and never *)
(* behind its own message.  It is not always given back with that message: *)
(* where every message so far had details it is in the right turn, and     *)
(* where one had none it may go to an earlier turn's message, which        *)
(* DetailsReachTheirMessage below shows against the code's own words.      *)
(* In the turn that is under way every step begins with a signed call,     *)
(* with the very signature if it is remembered (compat.py,                 *)
(* reasoning_details.py, thought_signatures.py).                           *)
ReasoningIsReplayed == history # <<>> =>
  LET chat == Chat("field")
      out == chat.out
      deep == DeepSeekChat(Settled)
      details == DetailsReplay(out, Settled)
      given == FlattenSeq(details)
      users == SaidAs("user") \cup SaidAs("system")
      Sealed(k) == k \in DOMAIN Settled /\ Settled[k].role = "assistant" /\ "sealed" \in Kinds(Settled[k].content)
  IN /\ deep.ok = chat.ok
     /\ chat.ok =>
          /\ Bare(deep.out) = Bare(Chat("none").out)
          /\ \A i \in SaidAs("think") : Cardinality(FieldPlaces(deep.out, i)) = IF InCalling(i) THEN 1 ELSE 0
          /\ ThinkingStays(Settled) => \A k \in DOMAIN deep.out : deep.out[k].calls # <<>> => deep.out[k].field # <<>>
          /\ Len(given) = Cardinality(SaidAs("sealed")) /\ ToSet(given) = SaidAs("sealed")
          /\ \A a, b \in DOMAIN given : a < b => MessageOf(given[a]) <= MessageOf(given[b])
          /\ \A i \in SaidAs("sealed"), j \in Speech : MessageOf(i) = MessageOf(j) =>
               \A k \in DOMAIN details, p \in Places(out, j) : i \in ToSet(details[k]) =>
                 /\ k <= p
                 /\ (\A m \in 1..MessageOf(i) : Settled[m].role = "assistant" => Sealed(m)) =>
                      \A q \in DOMAIN out : (k <= q /\ q < p) => out[q].role # "user"
          /\ \A known \in SUBSET SaidAs("call") :
               \A i \in SaidAs("call") : \A k \in Places(out, i) :
                 LET signed == Signatures(out, known)[k]
                 IN /\ i \in known => \E n \in DOMAIN signed : out[k].calls[n] = i /\ signed[n] = "own"
                    /\ (\A u \in users : u < i) => signed[1] # "none"

\* The chat messages a message of the history was converted to.
Converted(out, m) == UNION {Places(out, j) : j \in {i \in Speech : MessageOf(i) = m}}

(* "Replay opaque reasoning details on their converted assistant messages" *)
(* (reasoning_details.py): a detail is put on a chat message that its own  *)
(* message was converted to.  The code puts it on the first assistant      *)
(* message it has not passed yet, whosever that is.                        *)
DetailsReachTheirMessage ==
  LET chat == Chat("field")
      details == DetailsReplay(chat.out, Settled)
      At(i) == {k \in DOMAIN details : i \in ToSet(details[k])}
  IN chat.ok => \A i \in SaidAs("sealed") :
       LET own == Converted(chat.out, MessageOf(i))
       IN own # {} => At(i) \subseteq own
=============================================================================
