---------------------------- MODULE NativeTools ----------------------------
(***************************************************************************)
(* Tool calls a model writes as markup into its visible text or its        *)
(* reasoning, when the server that hosts it does not take them out.  The   *)
(* stream cuts the text anywhere; what is before the markup is sent as it  *)
(* comes, the block is held back, and at the end it becomes tool calls     *)
(* with arguments typed by the schemas of the tools, or the stream fails   *)
(* and is tried again.  Text is a sequence of tokens: the two halves of    *)
(* the namespace every tag begins with, tags, and words.                   *)
(***************************************************************************)
EXTENDS SequencesExt, Integers

CONSTANTS MaxBlock, MaxDepth, MaxCut

VARIABLES
  written,     \* what the model writes into each field, and what it means
  place,       \* how much of it has come
  framer,      \* _MiniMaxM3ToolFramer of each field
  passed,       \* text passed on to the client
  structured,  \* proper tool calls came as well
  made,        \* the tool calls made of the markup
  outcome

nativeVars == <<written, place, framer, passed, structured, made, outcome>>

Field == {"content", "reasoning"}

Word(w) == <<"text", w>>
Blank == Word(" ")
Namespace == <<<<"namespace", "1">>, <<"namespace", "2">>>>
Tag(kind, name) == Append(Namespace, <<kind, name>>)
StartTag == Tag("block", "start")
EndTag == Tag("block", "end")
IsBlank(text) == \A i \in DOMAIN text : text[i] = Blank
Strip(text) == SelectSeq(text, LAMBDA token : token # Blank)

Begins(text, marker) == IsPrefix(marker, text)
Skip(text, n) == SubSeq(text, n + 1, Len(text))
Least(S) == CHOOSE n \in S : \A m \in S : n <= m
Most(S) == CHOOSE n \in S : \A m \in S : n >= m
Find(text, marker) ==
  LET at == {i \in 1..Len(text) : Begins(Skip(text, i - 1), marker)}
  IN IF at = {} THEN 0 ELSE Least(at)

\* Length of the longest end of the text that may begin the marker.
PartialMarker(text, marker) ==
  Most({n \in 0..(Len(marker) - 1) : n <= Len(text) /\ Begins(marker, Skip(text, Len(text) - n))})

-----------------------------------------------------------------------------
(* The framer of one field.                                                *)

NewFramer == [mode |-> "text", tail |-> <<>>, block |-> <<>>]
Passed(f, text) == [f |-> f, text |-> text, bad |-> FALSE]
Rejected == [f |-> NewFramer, text |-> <<>>, bad |-> TRUE]
Holding(f, text) ==
  IF Len(f.block) + Len(text) > MaxBlock THEN Rejected
  ELSE Passed([f EXCEPT !.block = @ \o text], <<>>)

FeedBlock(f, text) ==
  LET all == f.tail \o text
      end == Find(all, EndTag)
      held == PartialMarker(all, EndTag)
      rest == Skip(all, end + Len(EndTag) - 1)
  IN IF end = 0
     THEN Holding([f EXCEPT !.tail = Skip(all, Len(all) - held)], SubSeq(all, 1, Len(all) - held))
     ELSE IF IsBlank(rest)
     THEN Holding([f EXCEPT !.mode = "after", !.tail = <<>>], SubSeq(all, 1, end - 1))
     ELSE Rejected

\* Mutant of FeedText: a start that is cut in two is not held back.
FeedTextWhole(f, text) ==
  LET start == Find(text, StartTag)
  IN IF start > 0
     THEN [FeedBlock([f EXCEPT !.mode = "block"], Skip(text, start + Len(StartTag) - 1))
             EXCEPT !.text = SubSeq(text, 1, start - 1)]
     ELSE IF Find(text, Namespace) > 0 THEN Rejected ELSE Passed(f, text)

FeedText(f, text) ==
  LET all == f.tail \o text
      start == Find(all, StartTag)
      held == PartialMarker(all, StartTag)
      expected == IF start > 0 THEN start ELSE Len(all) - held + 1
  IN IF Find(all, Namespace) \notin {0, expected} THEN Rejected
     ELSE IF start > 0
     THEN [FeedBlock([f EXCEPT !.mode = "block", !.tail = <<>>], Skip(all, start + Len(StartTag) - 1))
             EXCEPT !.text = SubSeq(all, 1, start - 1)]
     ELSE Passed([f EXCEPT !.tail = Skip(all, Len(all) - held)], SubSeq(all, 1, Len(all) - held))

Feed(f, text) ==
  CASE f.mode = "text" -> FeedText(f, text)
    [] f.mode = "block" -> FeedBlock(f, text)
    [] f.mode = "after" -> IF IsBlank(text) THEN Passed(f, <<>>) ELSE Rejected

\* The end of the stream.  With proper tool calls, half a block is no error.
Finish(f, complete) ==
  IF f.mode = "text"
  THEN IF Find(f.tail, Namespace) = 0 THEN Passed([f EXCEPT !.mode = "finished"], f.tail)
       ELSE IF complete THEN Rejected ELSE Passed([f EXCEPT !.mode = "finished"], <<>>)
  ELSE IF f.mode = "block" /\ complete THEN Rejected
  ELSE Passed([f EXCEPT !.mode = IF @ = "after" THEN "called" ELSE "finished"], <<>>)

-----------------------------------------------------------------------------
(* The block: invokes with arguments, nested elements with text between.   *)

Malformed == [ok |-> FALSE]

RECURSIVE Element(_, _), Within(_, _, _)
\* The element at the start of the text: what it is, and the text after it.
Element(text, depth) ==
  IF depth > MaxDepth \/ ~Begins(text, Namespace) \/ Len(text) < 3 THEN Malformed
  ELSE IF text[3][1] # "open" THEN Malformed
  ELSE Within([name |-> text[3][2], text |-> <<>>, children |-> <<>>], Skip(text, 3), depth)
\* The rest of an element that is open.
Within(el, text, depth) ==
  LET next == Find(text, Namespace)
      more == [el EXCEPT !.text = @ \o SubSeq(text, 1, next - 1)]
      rest == Skip(text, next - 1)
      child == Element(rest, depth + 1)
  IN IF next = 0 THEN Malformed
     ELSE IF Begins(rest, Tag("close", el.name)) THEN [ok |-> TRUE, el |-> more, rest |-> Skip(rest, 3)]
     ELSE IF child.ok THEN Within([more EXCEPT !.children = Append(@, child.el)], child.rest, depth)
     ELSE Malformed

RECURSIVE Elements(_, _)
Elements(text, found) ==
  IF IsBlank(text) THEN [ok |-> TRUE, els |-> found]
  ELSE IF text[1] = Blank THEN Elements(Tail(text), found)
  ELSE LET el == Element(text, 1) IN IF el.ok THEN Elements(el.rest, Append(found, el.el)) ELSE Malformed

\* A schema: its type, or alternatives of which one is not null.
SchemaType(schema) ==
  IF schema.type # "any" THEN schema.type
  ELSE LET types == {schema.of[i].type : i \in DOMAIN schema.of} \ {"null"}
       IN IF Cardinality(types) = 1 THEN CHOOSE t \in types : TRUE ELSE "any"
AnySchema == [type |-> "any", of |-> <<>>]

Leaf(text) == [leaf |-> text]
Typed(type, w) == [type |-> type, is |-> w]
List(items) == [list |-> items]
Object(fields) == [object |-> fields]  \* a set of names with values
WrongType == [wrong |-> TRUE]

Coerce(text, type) ==
  LET word == IF Len(Strip(text)) = 1 THEN Strip(text)[1][2] ELSE "words"
  IN CASE type = "integer" -> IF word = "7" THEN Typed("integer", word) ELSE WrongType
       [] type = "boolean" -> IF word = "true" THEN Typed("boolean", word) ELSE WrongType
       [] type = "array" -> IF word = "[]" THEN List(<<>>) ELSE WrongType
       [] type \in {"object", "null"} -> WrongType
       [] OTHER -> Leaf(text)

\* An argument given twice becomes a list.
PutField(fields, name, value) ==
  LET had == {f \in fields : f[1] = name}
      again == {<<name, IF DOMAIN f[2] = {"list"} THEN List(Append(f[2].list, value)) ELSE List(<<f[2], value>>)>> : f \in had}
  IN (fields \ had) \cup IF had = {} THEN {<<name, value>>} ELSE again

SchemaOf(schema, name) ==
  IF schema.type = "object" /\ name \in DOMAIN schema.of THEN schema.of[name] ELSE AnySchema

RECURSIVE Value(_, _)
ObjectOf(els, schema) ==
  FoldLeft(LAMBDA fields, el : PutField(fields, el.name, Value(el, SchemaOf(schema, el.name))), {}, els)
Value(el, schema) ==
  IF el.children = <<>> THEN Coerce(el.text, SchemaType(schema))
  ELSE IF SchemaType(schema) = "array"
  THEN List([i \in DOMAIN el.children |-> Value(el.children[i], IF schema.type = "array" THEN schema.of[1] ELSE AnySchema)])
  ELSE LET fields == ObjectOf(el.children, schema)
       IN Object(IF IsBlank(el.text) THEN fields ELSE PutField(fields, "$text", Leaf(el.text)))

\* What jsonschema refuses of it: a list where a word belongs.
RECURSIVE Fits(_, _)
Fits(value, schema) ==
  CASE DOMAIN value = {"wrong"} -> FALSE
    [] DOMAIN value = {"list"} ->
         /\ SchemaType(schema) \in {"array", "any"}
         /\ \A i \in DOMAIN value.list : Fits(value.list[i], IF schema.type = "array" THEN schema.of[1] ELSE AnySchema)
    [] DOMAIN value = {"object"} ->
         /\ SchemaType(schema) \in {"object", "any"}
         /\ \A f \in value.object : Fits(f[2], SchemaOf(schema, f[1]))
    [] OTHER -> TRUE

String == [type |-> "string"]
Optional == [type |-> "any", of |-> <<[type |-> "integer"], [type |-> "null"]>>]
Strings == [type |-> "array", of |-> <<String>>]
\* The tools the request declares.
Tools == [a |-> [type |-> "object", of |-> [s |-> String, n |-> Optional, l |-> Strings]]]

RECURSIVE CallsIn(_, _)
CallsIn(block, found) ==
  IF IsBlank(block) THEN IF found = <<>> THEN Malformed ELSE [ok |-> TRUE, calls |-> found]
  ELSE IF block[1] = Blank THEN CallsIn(Tail(block), found)
  ELSE IF ~Begins(block, Namespace) \/ Len(block) < 3 THEN Malformed
  ELSE IF block[3][1] # "invoke" THEN Malformed
  ELSE LET end == Find(block, Tag("end", "invoke"))
           name == block[3][2]
           els == Elements(SubSeq(block, 4, end - 1), <<>>)
       IN IF end = 0 \/ name \notin DOMAIN Tools THEN Malformed
          ELSE IF ~els.ok THEN Malformed
          ELSE LET args == Object(ObjectOf(els.els, Tools[name]))
               IN IF Fits(args, Tools[name])
                  THEN CallsIn(Skip(block, end + 2), Append(found, [name |-> name, args |-> args])) ELSE Malformed

-----------------------------------------------------------------------------
(* What a model writes: the external format the framer reads.              *)

El(name, inside) == Tag("open", name) \o inside \o Tag("close", name)
Invoke(name, inside) == Tag("invoke", name) \o inside \o Tag("end", "invoke")
Some == <<Word("w")>>
Seven == <<Word("7")>>
CallOf(fields) == <<[name |-> "a", args |-> Object(fields)]>>

\* Blocks and the calls they stand for.
GoodBlocks == {
  <<Invoke("a", <<>>), CallOf({})>>,
  <<Invoke("a", El("s", Some) \o <<Blank>> \o El("n", Seven)), CallOf({<<"s", Leaf(Some)>>, <<"n", Typed("integer", "7")>>})>>,
  <<Invoke("a", El("l", El("i", Some) \o El("i", Seven))), CallOf({<<"l", List(<<Leaf(Some), Leaf(Seven)>>)>>})>>,
  <<Invoke("a", El("o", Some \o El("s", Some))), CallOf({<<"o", Object({<<"s", Leaf(Some)>>, <<"$text", Leaf(Some)>>})>>})>>,
  <<Invoke("a", El("o", Some) \o El("o", Some)) \o <<Blank>> \o Invoke("a", <<>>),
    CallOf({<<"o", List(<<Leaf(Some), Leaf(Some)>>)>>}) \o CallOf({})>> }
Oversized == Invoke("a", El("l", El("i", Some) \o El("i", Some) \o El("i", Some)))
BadBlocks == {
  <<>>, Some, Invoke("b", <<>>), Invoke("a", Some), Invoke("a", El("n", Some)), Invoke("a", El("s", Some) \o El("s", Some)),
  Invoke("a", Tag("open", "s") \o Some), Invoke("a", Tag("open", "s") \o Tag("close", "n")),
  Invoke("a", El("o", El("o", El("o", Some)))), Tag("invoke", "a"), Oversized }
\* Every good block can come whole; the oversized one would be a call too.
ASSUME BlockBound == (\A b \in GoodBlocks : Len(b[1]) <= MaxBlock) /\ MaxBlock < Len(Oversized)

Visible == {<<>>, Some, Append(Some, Namespace[1])}
Answer(visible, markup, calls, good) == [visible |-> visible, text |-> visible \o markup, calls |-> calls, good |-> good]
Plain == {Answer(v, <<>>, <<>>, TRUE) : v \in Visible}
Good == {Answer(v, StartTag \o b[1] \o EndTag \o t, b[2], TRUE) : v \in Visible, b \in GoodBlocks, t \in {<<>>, <<Blank>>, <<Blank, Word("w")>>}}
Bad ==
  {Answer(v, StartTag \o b \o EndTag, <<>>, FALSE) : v \in {<<>>, Some}, b \in BadBlocks}
  \cup {Answer(Some, Tag("invoke", "a"), <<>>, FALSE), Answer(Some, Namespace \o Some, <<>>, FALSE)}

NativeInit ==
  /\ \/ \E m \in Plain \cup Good \cup Bad, n \in {Answer(v, <<>>, <<>>, TRUE) : v \in {<<>>, Some}}, f \in Field :
          written = [g \in Field |-> IF g = f THEN m ELSE n]
     \/ \E m \in Good : m.text = StartTag \o Invoke("a", <<>>) \o EndTag /\ written = [f \in Field |-> m]
  /\ place = [f \in Field |-> 0] /\ framer = [f \in Field |-> NewFramer]
  /\ passed = [f \in Field |-> <<>>]
  /\ structured = FALSE /\ made = <<>> /\ outcome = "open"

\* The part of the field that has come.
Come(f) == SubSeq(written[f].text, 1, place[f])

\* A chunk with the next n tokens of a field.
ChunkComes(f, n) ==
  LET fed == Feed(framer[f], SubSeq(written[f].text, place[f] + 1, place[f] + n))
  IN /\ outcome = "open" /\ place[f] + n <= Len(written[f].text)
     /\ place' = [place EXCEPT ![f] = @ + n]
     /\ framer' = [framer EXCEPT ![f] = fed.f]
     /\ passed' = [passed EXCEPT ![f] = @ \o fed.text]
     /\ outcome' = IF fed.bad THEN "failed" ELSE "open"
     /\ UNCHANGED <<written, structured, made>>

\* A chunk with a proper tool call, passed on as it is.
StructuredChunk ==
  /\ outcome = "open" /\ ~structured /\ structured' = TRUE
  /\ UNCHANGED <<written, place, framer, passed, made, outcome>>

\* The finish reason comes, or the stream ends without one.
StreamFinishes ==
  LET ends == [f \in Field |-> Finish(framer[f], ~structured)]
      blocks == IF structured THEN {} ELSE {f \in Field : ends[f].f.mode = "called"}
      parsed == IF Cardinality(blocks) = 1 THEN CallsIn(framer[CHOOSE f \in blocks : TRUE].block, <<>>)
                ELSE IF blocks = {} THEN [ok |-> TRUE, calls |-> <<>>] ELSE Malformed
      ok == ~(\E f \in Field : ends[f].bad) /\ parsed.ok
  IN /\ outcome = "open"
     /\ framer' = [f \in Field |-> ends[f].f]
     /\ outcome' = IF ok THEN "done" ELSE "failed"
     /\ passed' = IF ok THEN [f \in Field |-> passed[f] \o ends[f].text] ELSE passed
     /\ made' = IF ok THEN parsed.calls ELSE <<>>
     /\ UNCHANGED <<written, place, structured>>

NativeNext ==
  \/ \E f \in Field, n \in 1..MaxCut : ChunkComes(f, n)
  \/ StructuredChunk
  \/ StreamFinishes

NativeSpec == NativeInit /\ [][NativeNext]_nativeVars

-----------------------------------------------------------------------------
(* However the stream is cut and wherever it ends: the client is passed the *)
(* text the model wrote before its markup, in order and never any markup;  *)
(* the calls made are those the model wrote, none when proper calls came;  *)
(* a malformed, doubled or unfinished block makes none and fails the       *)
(* stream, and nothing else does (native_tool_stream.py).                  *)
InBlock(f) == Find(Come(f), StartTag) > 0
CallsAreTheModels ==
  LET blocks == {f \in Field : InBlock(f)}
      sound == Cardinality(blocks) <= 1 /\ \A f \in Field :
                 /\ Find(Come(f), Namespace) > 0 => InBlock(f) /\ written[f].good
                 /\ InBlock(f) => Find(Come(f), EndTag) > 0 /\ IsBlank(Skip(Come(f), Find(Come(f), EndTag) + 2))
  IN /\ \A f \in Field :
          IF outcome = "done" /\ Find(Come(f), Namespace) = 0 THEN passed[f] = Come(f)
          ELSE IsPrefix(passed[f], written[f].visible)
     /\ (outcome = "done" /\ ~structured) =>
          /\ sound
          /\ \A f \in blocks : passed[f] = written[f].visible
          /\ made = IF blocks = {} THEN <<>> ELSE written[CHOOSE f \in blocks : TRUE].calls
     /\ (outcome = "done" /\ structured) => made = <<>>
     /\ outcome = "failed" => ~sound
=============================================================================
