---------------------------- MODULE StreamProofs -----------------------------
(***************************************************************************)
(* What a client receives of a stream is what was said in it: proofs about *)
(* StreamTranslation and, below, ResponsesBridge.  The ledger and the      *)
(* client are followed event by event: a ledger is sound if the client,    *)
(* once it receives what is held back and what is unsent, has exactly its  *)
(* blocks, and if every open block of it is one that somebody will close.  *)
(* Each operation keeps a ledger sound; the loops over tool calls do by    *)
(* the lemmas on recursion.  So it is with the bridge: its adapter writes  *)
(* blocks, and its assembler, once it has what is held back, has a slot    *)
(* for each of them.                                                       *)
(***************************************************************************)
EXTENDS StreamTranslation, ResponsesBridge, RecursionLemmas, FiniteSetTheorems, TLAPS

-----------------------------------------------------------------------------
(* What a ledger, a client and a run are. *)

BlockType == {"text", "thinking", "tool_use"}
BlockRecord == [type : BlockType, open : BOOLEAN, content : Contents]
ToolRecord == [block : Nat, named : BOOLEAN, pre : Contents, buffer : Contents, emitted : BOOLEAN]
Event ==
  {<<"message_start">>, <<"message_stop">>, <<"error">>} \cup ({"message_delta"} \X {"tool_use", "end_turn"})
    \cup ({"stop"} \X Nat) \cup ({"start"} \X Nat \X BlockType) \cup ({"delta"} \X Nat \X Contents)
LedgerRecord == [blocks : Seq(BlockRecord), thinking : Nat, text : Nat, tools : [Tool -> ToolRecord], out : Seq(Event)]
HoldRecord == [events : Seq(Event), committed : BOOLEAN]
ClientRecord == [started : {0, 1}, blocks : Seq(BlockRecord), bad : BOOLEAN, over : {"no", "stopped", "error"}]
RunRecord ==
  [phase : {"opening", "streaming", "recovering", "done", "failed"}, attempts : Nat, chunks : Nat, reasoning : BOOLEAN,
   error : {"none", "cut", "protocol", "fatal"}, recovered : BOOLEAN, finish : BOOLEAN, left : Found,
   names : [Tool -> {"none", "partial", "exact"}], sent : [Tool -> Contents]]

\* The client that has seen all of ledger l.
ClientOf(l, over) == [started |-> 1, blocks |-> l.blocks, bad |-> FALSE, over |-> over]

\* The client once it has received the events h and those of the ledger.
View(c, h, l) == Receives(c, h \o l.out)

\* The client has of ledger l, once it receives what is held and what is unsent,
\* exactly its blocks.
Told(c, h, l) == l \in LedgerRecord /\ View(c, h, l) = ClientOf(l, "no")

\* Each part of a ledger knows its block, and no open block is forgotten.
Formed(l) ==
  /\ l.thinking # 0 => l.thinking \in DOMAIN l.blocks /\ l.blocks[l.thinking].type = "thinking"
  /\ l.text # 0 => l.text \in DOMAIN l.blocks /\ l.blocks[l.text].type = "text"
  /\ \A t \in Tool :
       /\ l.tools[t].block # 0 => /\ l.tools[t].block \in DOMAIN l.blocks
                                  /\ l.blocks[l.tools[t].block].type = "tool_use"
                                  /\ l.blocks[l.tools[t].block].open
                                  /\ \A u \in Tool : l.tools[u].block = l.tools[t].block => u = t
       /\ l.tools[t].buffer # "none" => l.tools[t].block # 0
  /\ \A i \in DOMAIN l.blocks : l.blocks[i].open => i = l.thinking \/ i = l.text \/ \E t \in Tool : i = l.tools[t].block
Sound(c, h, l) == Told(c, h, l) /\ Formed(l)

\* The client knows which blocks of the ledger are open; what is in them may differ.
Shaded(c, h, l) ==
  LET d == View(c, h, l)
  IN /\ l \in LedgerRecord /\ d \in ClientRecord /\ d.started = 1 /\ ~d.bad /\ d.over = "no"
     /\ Len(d.blocks) = Len(l.blocks)
     /\ \A i \in DOMAIN l.blocks : d.blocks[i].open = l.blocks[i].open

\* The inductive invariant of StreamSpec, of client c, holdback buffer hd, ledger l and run r.
StreamInvOf(c, hd, l, r) ==
  /\ l \in LedgerRecord /\ hd \in HoldRecord /\ c \in ClientRecord /\ r \in RunRecord
  /\ hd.committed => hd.events = <<>>
  /\ r.recovered => r.phase = "done"
  /\ r.phase = "opening" => l = NewLedger /\ hd = NewHold /\ c = NewClient
  /\ r.phase \in {"streaming", "recovering"} =>
       /\ ~hd.committed => c = NewClient
       /\ Sound(c, hd.events, l)
       /\ Shaded(c, hd.events, Unsent(l))
  /\ r.phase = "streaming" => l.out = <<>>
  /\ r.phase = "done" => /\ c = ClientOf(l, "stopped") /\ hd.events = <<>>
                         /\ r.recovered /\ r.error = "cut" => ToolsWhole(l)
  /\ r.phase = "failed" => ~c.bad /\ c.over = (IF c.started = 0 THEN "no" ELSE "error")
StreamInv == StreamInvOf(client, hold, ledger, run)

-----------------------------------------------------------------------------
(* The client receives one event after the other.                          *)

\* What the client is after each event.
Seen(f, c, ev) == f = [n \in 0..Len(ev) |-> IF n = 0 THEN c ELSE See(f[n - 1], ev[n])]
SeenTo(f, c, ev, N) == f = [n \in 0..N |-> IF n = 0 THEN c ELSE See(f[n - 1], ev[n])]

(* A client that sees some number of events has come somewhere after each. *)
LEMMA SeenExists ==
  ASSUME NEW c, NEW ev
  PROVE  \A N \in Nat : \E f : SeenTo(f, c, ev, N)
<1> DEFINE Fails == {N \in Nat : ~ \E f : SeenTo(f, c, ev, N)}
<1> SUFFICES ASSUME Fails # {} PROVE FALSE
  OBVIOUS
<1>1. PICK N \in Fails : \A m \in Fails : N <= m
  <2>1. Fails \in SUBSET Nat
    OBVIOUS
  <2> QED
    BY <2>1, LeastNumber
<1>2. N \in Nat /\ ~ \E f : SeenTo(f, c, ev, N)
  OBVIOUS
<1>3. CASE N = 0
  <2> DEFINE f == [n \in 0..0 |-> c]
  <2>1. f = [n \in 0..0 |-> IF n = 0 THEN c ELSE See(f[n - 1], ev[n])]
    <3>1. \A n \in 0..0 : n = 0
      OBVIOUS
    <3> QED
      BY <3>1
  <2> QED
    BY <1>2, <1>3, <2>1 DEF SeenTo
<1>4. CASE N # 0
  <2>1. N - 1 \in Nat /\ ~(N <= N - 1)
    BY <1>2, <1>4
  <2>2. PICK f : SeenTo(f, c, ev, N - 1)
    BY <1>1, <2>1
  <2> DEFINE g == [n \in 0..N |-> IF n = N THEN See(f[N - 1], ev[N]) ELSE f[n]]
  <2>3. \A n \in 0..N : g[n] = IF n = 0 THEN c ELSE See(g[n - 1], ev[n])
    <3> SUFFICES ASSUME NEW n \in 0..N PROVE g[n] = IF n = 0 THEN c ELSE See(g[n - 1], ev[n])
      OBVIOUS
    <3>1. CASE n = N
      <4>1. n - 1 \in 0..N /\ n - 1 # N /\ n # 0
        BY <3>1, <1>2, <1>4
      <4>2. g[n - 1] = f[N - 1] /\ g[n] = See(f[N - 1], ev[N])
        BY <3>1, <4>1
      <4> HIDE DEF g
      <4> QED
        BY <3>1, <4>1, <4>2
    <3>2. CASE n # N
      <4>1. n \in 0..(N - 1) /\ (n # 0 => n - 1 \in 0..N /\ n - 1 # N)
        BY <3>2, <1>2
      <4>2. g[n] = f[n] /\ (n # 0 => g[n - 1] = f[n - 1])
        BY <3>2, <4>1
      <4>3. f[n] = IF n = 0 THEN c ELSE See(f[n - 1], ev[n])
        BY <2>2, <4>1 DEF SeenTo
      <4> HIDE DEF g
      <4> QED
        BY <4>1, <4>2, <4>3
    <3> QED
      BY <3>1, <3>2
  <2>4. SeenTo(g, c, ev, N)
    <3>1. g = [n \in 0..N |-> g[n]]
      OBVIOUS
    <3> HIDE DEF g
    <3> QED
      BY <2>3, <3>1 DEF SeenTo
  <2> QED
    BY <1>2, <2>4
<1> QED
  BY <1>3, <1>4

(* So what it receives is what it has seen after the last of them.         *)
LEMMA ReceivesSeen ==
  ASSUME NEW c, NEW ev, Len(ev) \in Nat
  PROVE  \E f : Seen(f, c, ev) /\ Receives(c, ev) = f[Len(ev)]
<1> DEFINE F == CHOOSE f : Seen(f, c, ev)
<1>1. \E f : Seen(f, c, ev)
  <2>1. \E f : SeenTo(f, c, ev, Len(ev))
    BY SeenExists
  <2> QED
    BY <2>1 DEF Seen, SeenTo
<1>2. Seen(F, c, ev)
  BY <1>1
<1>3. Receives(c, ev) = F[Len(ev)]
  BY DEF Receives, Seen
<1> HIDE DEF F
<1> QED
  BY <1>2, <1>3

(* Nothing received changes nothing.                                       *)
LEMMA ReceivesNone == ASSUME NEW c PROVE Receives(c, <<>>) = c
<1>1. PICK f : Seen(f, c, <<>>) /\ Receives(c, <<>>) = f[0]
  BY ReceivesSeen
<1> QED
  BY <1>1 DEF Seen

(* One more event received is seen after all the others.                   *)
LEMMA ReceivesOne ==
  ASSUME NEW c, NEW S, NEW ev \in Seq(S), NEW e \in S
  PROVE  Receives(c, Append(ev, e)) = See(Receives(c, ev), e)
<1> DEFINE N == Len(ev)
           all == Append(ev, e)
<1>1. N \in Nat /\ Len(all) = N + 1 /\ all[N + 1] = e /\ \A n \in 1..N : all[n] = ev[n]
  OBVIOUS
<1>2. PICK f : Seen(f, c, all) /\ Receives(c, all) = f[N + 1]
  <2> HIDE DEF all
  <2>1. Len(all) \in Nat
    BY <1>1
  <2>2. \E f : Seen(f, c, all) /\ Receives(c, all) = f[Len(all)]
    BY <2>1, ReceivesSeen
  <2> QED
    BY <2>2, <1>1
<1>3. PICK g : Seen(g, c, ev) /\ Receives(c, ev) = g[N]
  BY <1>1, ReceivesSeen
<1> HIDE DEF N, all
<1>4. f[0] = c /\ \A n \in 1..(N + 1) : f[n] = See(f[n - 1], all[n])
  <2>1. f = [n \in 0..(N + 1) |-> IF n = 0 THEN c ELSE See(f[n - 1], all[n])]
    BY <1>1, <1>2 DEF Seen
  <2>2. 0 \in 0..(N + 1) /\ \A n \in 1..(N + 1) : n \in 0..(N + 1) /\ n # 0
    BY <1>1
  <2> QED
    BY <2>1, <2>2
<1>5. g[0] = c /\ \A n \in 1..N : g[n] = See(g[n - 1], ev[n])
  <2>1. g = [n \in 0..N |-> IF n = 0 THEN c ELSE See(g[n - 1], ev[n])]
    BY <1>3 DEF Seen, N
  <2>2. 0 \in 0..N /\ \A n \in 1..N : n \in 0..N /\ n # 0
    BY <1>1
  <2> QED
    BY <2>1, <2>2
<1> DEFINE D == [n \in 0..N |-> {g[n]}]
<1>6. f[0] \in D[0]
  BY <1>1, <1>4, <1>5
<1>7. \A n \in 1..N : f[n - 1] \in D[n - 1] => f[n] \in D[n]
  <2> SUFFICES ASSUME NEW n \in 1..N, f[n - 1] \in D[n - 1] PROVE f[n] \in D[n]
    OBVIOUS
  <2>1. n \in 1..(N + 1) /\ n \in 0..N /\ n - 1 \in 0..N
    BY <1>1
  <2>2. f[n - 1] = g[n - 1] /\ all[n] = ev[n]
    BY <2>1, <1>1
  <2> QED
    BY <2>1, <2>2, <1>4, <1>5
<1>8. N \in 0..N /\ f[N] = g[N]
  <2> HIDE DEF D
  <2>1. \A n \in 0..N : f[n] \in D[n]
    BY <1>1, <1>6, <1>7, Climbs
  <2> USE DEF D
  <2> QED
    BY <2>1, <1>1
<1>9. f[N + 1] = See(f[N], e)
  <2>1. N + 1 \in 1..(N + 1) /\ (N + 1) - 1 = N
    BY <1>1
  <2> QED
    BY <1>1, <1>4, <2>1
<1> QED
  BY <1>2, <1>3, <1>8, <1>9 DEF all

-----------------------------------------------------------------------------
(* What the ledger writes, the client reads.                               *)

(* Two argument texts put together are an argument text.                   *)
LEMMA JoinTyped == \A old, new \in Contents : Join(old, new) \in Contents
BY DEF Join, Contents

(* What the ledger writes are events.                                      *)
LEMMA Events ==
  /\ <<"message_start">> \in Event /\ <<"message_stop">> \in Event /\ <<"error">> \in Event
  /\ \A reason \in {"tool_use", "end_turn"} : <<"message_delta", reason>> \in Event
  /\ \A i \in Nat : <<"stop", i>> \in Event
  /\ \A i \in Nat, type \in BlockType : <<"start", i, type>> \in Event
  /\ \A i \in Nat, content \in Contents : <<"delta", i, content>> \in Event
BY DEF Event, BlockType

(* Appending to the second of two parts appends to the whole.              *)
LEMMA JoinedAppend ==
  ASSUME NEW S, NEW g \in Seq(S), NEW r \in Seq(S), NEW e \in S
  PROVE  g \o Append(r, e) = Append(g \o r, e)
OBVIOUS

(* An event that is appended is the next one the client will see.          *)
LEMMA ViewNext ==
  ASSUME NEW c, NEW h \in Seq(Event), NEW l, l.out \in Seq(Event), NEW e \in Event, NEW m, m.out = Append(l.out, e)
  PROVE  View(c, h, m) = See(View(c, h, l), e)
<1>1. h \o m.out = Append(h \o l.out, e)
  BY JoinedAppend
<1>2. h \o l.out \in Seq(Event)
  OBVIOUS
<1>3. Receives(c, Append(h \o l.out, e)) = See(Receives(c, h \o l.out), e)
  <2> DEFINE g == h \o l.out
  <2>1. g \in Seq(Event)
    BY <1>2
  <2> HIDE DEF g
  <2>2. Receives(c, Append(g, e)) = See(Receives(c, g), e)
    BY <2>1, ReceivesOne
  <2> QED
    BY <2>2 DEF g
<1> QED
  BY <1>1, <1>3 DEF View

(* Only the events decide what the client will have seen.                  *)
LEMMA ViewSame == ASSUME NEW c, NEW h, NEW l, NEW m, m.out = l.out PROVE View(c, h, m) = View(c, h, l)
BY DEF View

(* An entry of a sequence, and the sequence with another entry there.      *)
LEMMA Entry ==
  ASSUME NEW S, NEW s \in Seq(S), NEW i \in DOMAIN s
  PROVE  /\ s[i] \in S /\ i \in Nat /\ i # 0 /\ i \in 1..Len(s)
         /\ \A x \in S : [s EXCEPT ![i] = x] \in Seq(S)
OBVIOUS

(* What the parts of a ledger are.                                         *)
LEMMA LedgerTyped ==
  ASSUME NEW l \in LedgerRecord
  PROVE  /\ l.blocks \in Seq(BlockRecord) /\ l.out \in Seq(Event) /\ Len(l.blocks) \in Nat
         /\ l.thinking \in Nat /\ l.text \in Nat /\ l.tools \in [Tool -> ToolRecord]
         /\ \A t \in Tool : l.tools[t] \in ToolRecord
BY DEF LedgerRecord

(* A ledger with other events and other blocks, field by field.            *)
LEMMA LedgerFields ==
  ASSUME NEW l \in LedgerRecord, NEW o, NEW b
  PROVE  LET t == [l EXCEPT !.out = o]
         IN /\ t.blocks = l.blocks
            /\ [t EXCEPT !.blocks = b] =
                 [blocks |-> b, thinking |-> l.thinking, text |-> l.text, tools |-> l.tools, out |-> o]
<1> DEFINE t == [l EXCEPT !.out = o]
<1>1. t = [blocks |-> l.blocks, thinking |-> l.thinking, text |-> l.text, tools |-> l.tools, out |-> o]
  BY DEF LedgerRecord
<1> HIDE DEF t
<1>2. [t EXCEPT !.blocks = b] = [blocks |-> b, thinking |-> l.thinking, text |-> l.text, tools |-> l.tools, out |-> o]
  BY <1>1
<1>3. t.blocks = l.blocks
  BY <1>1
<1> QED
  BY <1>2, <1>3 DEF t

(* A client with other blocks, field by field.                             *)
LEMMA ClientFields ==
  ASSUME NEW l, NEW b
  PROVE  LET d == ClientOf(l, "no")
         IN /\ d.blocks = l.blocks
            /\ [d EXCEPT !.blocks = b] = [started |-> 1, blocks |-> b, bad |-> FALSE, over |-> "no"]
<1> DEFINE d == ClientOf(l, "no")
<1>1. d = [started |-> 1, blocks |-> l.blocks, bad |-> FALSE, over |-> "no"]
  BY DEF ClientOf
<1> HIDE DEF d
<1>2. [d EXCEPT !.blocks = b] = [started |-> 1, blocks |-> b, bad |-> FALSE, over |-> "no"]
  <2> DEFINE no == FALSE
  <2>1. d = [started |-> 1, blocks |-> l.blocks, bad |-> no, over |-> "no"]
    BY <1>1
  <2> HIDE DEF no
  <2>2. [d EXCEPT !.blocks = b] = [started |-> 1, blocks |-> b, bad |-> no, over |-> "no"]
    BY <2>1
  <2> QED
    BY <2>2 DEF no
<1>3. d.blocks = l.blocks
  BY <1>1
<1> QED
  BY <1>2, <1>3 DEF d

\* An event is written and read.
LEMMA Emits ==
  ASSUME NEW c, NEW h \in Seq(Event), NEW l, Told(c, h, l), NEW e \in Event, NEW b \in Seq(BlockRecord),
         See(ClientOf(l, "no"), e) = [started |-> 1, blocks |-> b, bad |-> FALSE, over |-> "no"],
         NEW m, m = [blocks |-> b, thinking |-> l.thinking, text |-> l.text, tools |-> l.tools, out |-> Append(l.out, e)]
  PROVE  /\ Told(c, h, m) /\ m.blocks = b
         /\ m.thinking = l.thinking /\ m.text = l.text /\ m.tools = l.tools
<1>1. l \in LedgerRecord /\ View(c, h, l) = ClientOf(l, "no")
  BY DEF Told
<1>2. l.out \in Seq(Event)
  BY <1>1, LedgerTyped
<1>3. m.out = Append(l.out, e) /\ m.blocks = b /\ m.thinking = l.thinking /\ m.text = l.text /\ m.tools = l.tools
  OBVIOUS
<1>4. View(c, h, m) = ClientOf(m, "no")
  <2>1. View(c, h, m) = See(View(c, h, l), e)
    BY <1>2, <1>3, ViewNext
  <2>2. ClientOf(m, "no") = [started |-> 1, blocks |-> b, bad |-> FALSE, over |-> "no"]
    BY <1>3 DEF ClientOf
  <2> QED
    BY <1>1, <2>1, <2>2
<1>5. m \in LedgerRecord
  <2>1. Append(l.out, e) \in Seq(Event)
    BY <1>2
  <2> QED
    BY <1>1, <2>1, LedgerTyped DEF LedgerRecord
<1> QED
  BY <1>3, <1>4, <1>5 DEF Told

(* A block that is closed is otherwise what it was, and so are the others. *)
LEMMA BlocksStopped ==
  ASSUME NEW b \in Seq(BlockRecord), NEW i \in DOMAIN b
  PROVE  LET n == [b EXCEPT ![i].open = FALSE]
         IN /\ DOMAIN n = DOMAIN b
            /\ \A j \in DOMAIN b : /\ n[j].type = b[j].type /\ n[j].content = b[j].content
                                   /\ n[j].open <=> b[j].open /\ j # i
<1>1. \A j \in DOMAIN b : b[j] \in BlockRecord
  OBVIOUS
<1>2. ~ [b[i] EXCEPT !.open = FALSE].open
  BY <1>1 DEF BlockRecord
<1>3. [b[i] EXCEPT !.open = FALSE].type = b[i].type /\ [b[i] EXCEPT !.open = FALSE].content = b[i].content
  BY <1>1 DEF BlockRecord
<1> QED
  BY <1>2, <1>3

(* A block that is written is as open as it was, and the others are what   *)
(* they were.                                                              *)
LEMMA BlocksWritten ==
  ASSUME NEW b \in Seq(BlockRecord), NEW i \in DOMAIN b, NEW x
  PROVE  LET n == [b EXCEPT ![i].content = x]
         IN /\ DOMAIN n = DOMAIN b
            /\ \A j \in DOMAIN b : /\ n[j].type = b[j].type /\ (n[j].open <=> b[j].open)
                                   /\ n[j].content = IF j = i THEN x ELSE b[j].content
<1>1. b[i] \in BlockRecord
  OBVIOUS
<1> DEFINE r == [b[i] EXCEPT !.content = x]
<1>2. r.type = b[i].type /\ (r.open <=> b[i].open) /\ r.content = x
  BY <1>1 DEF BlockRecord
<1> HIDE DEF r
<1>3. [b EXCEPT ![i].content = x] = [b EXCEPT ![i] = r]
  BY DEF r
<1>4. \A j \in DOMAIN b : [b EXCEPT ![i] = r][j] = IF j = i THEN r ELSE b[j]
  OBVIOUS
<1> QED
  BY <1>2, <1>3, <1>4

(* A block that is appended is the last, and the others are what they      *)
(* were.                                                                   *)
LEMMA BlocksAdded ==
  ASSUME NEW b \in Seq(BlockRecord), NEW x
  PROVE  LET n == Append(b, x)
         IN /\ Len(b) \in Nat /\ DOMAIN n = DOMAIN b \cup {Len(b) + 1} /\ Len(b) + 1 \notin DOMAIN b /\ Len(b) + 1 # 0
            /\ n[Len(b) + 1] = x
            /\ \A j \in DOMAIN b : n[j] = b[j] /\ j # Len(b) + 1 /\ j # 0
OBVIOUS

\* A block is added, closed or written.
Added(l, m, type) ==
  LET n == Len(l.blocks) + 1
  IN /\ m.thinking = l.thinking /\ m.text = l.text /\ m.tools = l.tools
     /\ DOMAIN m.blocks = DOMAIN l.blocks \cup {n} /\ n \notin DOMAIN l.blocks /\ n \in Nat /\ n # 0
     /\ m.blocks[n].type = type /\ m.blocks[n].open
     /\ \A j \in DOMAIN l.blocks : m.blocks[j] = l.blocks[j] /\ j # n /\ j # 0
Stopped(l, m, i) ==
  /\ m.thinking = l.thinking /\ m.text = l.text /\ m.tools = l.tools
  /\ DOMAIN m.blocks = DOMAIN l.blocks
  /\ \A j \in DOMAIN l.blocks : /\ m.blocks[j].type = l.blocks[j].type
                                /\ m.blocks[j].content = l.blocks[j].content
                                /\ m.blocks[j].open <=> l.blocks[j].open /\ j # i
Written(l, m) ==
  /\ m.thinking = l.thinking /\ m.text = l.text /\ m.tools = l.tools
  /\ DOMAIN m.blocks = DOMAIN l.blocks
  /\ \A j \in DOMAIN l.blocks : m.blocks[j].type = l.blocks[j].type /\ (m.blocks[j].open <=> l.blocks[j].open)

(* The client learns of every block the ledger opens (start_block).        *)
LEMMA StartTold ==
  ASSUME NEW c, NEW h \in Seq(Event), NEW l, Told(c, h, l), NEW type \in BlockType
  PROVE  Told(c, h, Start(l, type)) /\ Added(l, Start(l, type), type)
<1> DEFINE m == Start(l, type)
           block == [type |-> type, open |-> TRUE, content |-> "none"]
           b == Append(l.blocks, block)
           e == <<"start", Len(l.blocks) + 1, type>>
           d == ClientOf(l, "no")
<1>1. l \in LedgerRecord
  BY DEF Told
<1>2. l.blocks \in Seq(BlockRecord) /\ Len(l.blocks) \in Nat
  BY <1>1, LedgerTyped
<1>3. block \in BlockRecord
  BY DEF BlockRecord, Contents
<1>4. e \in Event /\ b \in Seq(BlockRecord)
  BY <1>2, <1>3, Events
<1>5. m = [blocks |-> b, thinking |-> l.thinking, text |-> l.text, tools |-> l.tools, out |-> Append(l.out, e)]
  <2> DEFINE t == [l EXCEPT !.out = Append(l.out, e)]
  <2>1. t.blocks = l.blocks
    BY <1>1, LedgerFields
  <2>2. [t EXCEPT !.blocks = b] =
          [blocks |-> b, thinking |-> l.thinking, text |-> l.text, tools |-> l.tools, out |-> Append(l.out, e)]
    <3> DEFINE o == Append(l.out, e)
    <3> HIDE DEF o, b, e
    <3>1. [[l EXCEPT !.out = o] EXCEPT !.blocks = b] =
            [blocks |-> b, thinking |-> l.thinking, text |-> l.text, tools |-> l.tools, out |-> o]
      BY <1>1, LedgerFields
    <3> QED
      BY <3>1 DEF o
  <2>3. m = [t EXCEPT !.blocks = b]
    BY <2>1 DEF Start, Tell
  <2> QED
    BY <2>2, <2>3
<1>6. See(d, e) = [started |-> 1, blocks |-> b, bad |-> FALSE, over |-> "no"]
  <2>1. Lawful(d, e)
    BY DEF Lawful, ClientOf
  <2>2. See(d, e) = [d EXCEPT !.blocks = Append(@, block)]
    BY <2>1 DEF See
  <2> QED
    BY <2>2 DEF ClientOf
<1>7. /\ DOMAIN b = DOMAIN l.blocks \cup {Len(l.blocks) + 1} /\ Len(l.blocks) + 1 \notin DOMAIN l.blocks
      /\ b[Len(l.blocks) + 1] = block /\ \A j \in DOMAIN l.blocks : b[j] = l.blocks[j] /\ j # Len(l.blocks) + 1 /\ j # 0
  BY <1>2, <1>3, BlocksAdded
<1> HIDE DEF m, b, e
<1>8. Told(c, h, m) /\ m.blocks = b /\ m.thinking = l.thinking /\ m.text = l.text /\ m.tools = l.tools
  BY <1>4, <1>5, <1>6, Emits
<1>9. Added(l, m, type)
  BY <1>7, <1>8, <1>2 DEF Added
<1> QED
  BY <1>8, <1>9 DEF m

(* The client learns of every block the ledger closes (stop_block).        *)
LEMMA StopTold ==
  ASSUME NEW c, NEW h \in Seq(Event), NEW l, Told(c, h, l), NEW i \in DOMAIN l.blocks, l.blocks[i].open
  PROVE  Told(c, h, Stop(l, i)) /\ Stopped(l, Stop(l, i), i)
<1> DEFINE m == Stop(l, i)
           b == [l.blocks EXCEPT ![i].open = FALSE]
           e == <<"stop", i>>
           d == ClientOf(l, "no")
<1>1. l \in LedgerRecord
  BY DEF Told
<1>2. l.blocks \in Seq(BlockRecord) /\ i \in Nat /\ l.blocks[i] \in BlockRecord
  BY <1>1, LedgerTyped, Entry
<1>3. [l.blocks[i] EXCEPT !.open = FALSE] \in BlockRecord
  BY <1>2 DEF BlockRecord
<1>4. e \in Event /\ b \in Seq(BlockRecord)
  BY <1>2, <1>3, Events, Entry
<1>5. m = [blocks |-> b, thinking |-> l.thinking, text |-> l.text, tools |-> l.tools, out |-> Append(l.out, e)]
  <2> DEFINE t == [l EXCEPT !.out = Append(l.out, e)]
  <2>1. t.blocks = l.blocks
    BY <1>1, LedgerFields
  <2>2. [t EXCEPT !.blocks = b] =
          [blocks |-> b, thinking |-> l.thinking, text |-> l.text, tools |-> l.tools, out |-> Append(l.out, e)]
    <3> DEFINE o == Append(l.out, e)
    <3> HIDE DEF o, b, e
    <3>1. [[l EXCEPT !.out = o] EXCEPT !.blocks = b] =
            [blocks |-> b, thinking |-> l.thinking, text |-> l.text, tools |-> l.tools, out |-> o]
      BY <1>1, LedgerFields
    <3> QED
      BY <3>1 DEF o
  <2>3. m = [t EXCEPT !.blocks = b]
    BY <2>1 DEF Stop, Tell
  <2> QED
    BY <2>2, <2>3
<1>6. See(d, e) = [started |-> 1, blocks |-> b, bad |-> FALSE, over |-> "no"]
  <2>1. Lawful(d, e)
    BY DEF Lawful, ClientOf, OpenAt
  <2>2. See(d, e) = [d EXCEPT !.blocks[i].open = FALSE]
    BY <2>1 DEF See
  <2> QED
    BY <2>2 DEF ClientOf
<1>7. /\ DOMAIN b = DOMAIN l.blocks
      /\ \A j \in DOMAIN l.blocks : b[j].type = l.blocks[j].type /\ b[j].content = l.blocks[j].content
      /\ \A j \in DOMAIN l.blocks : b[j].open <=> (l.blocks[j].open /\ j # i)
  BY <1>2, <1>3, BlocksStopped
<1> HIDE DEF m, b, e
<1>8. Told(c, h, m) /\ m.blocks = b /\ m.thinking = l.thinking /\ m.text = l.text /\ m.tools = l.tools
  BY <1>4, <1>5, <1>6, Emits
<1>9. Stopped(l, m, i)
  BY <1>7, <1>8 DEF Stopped
<1> QED
  BY <1>8, <1>9 DEF m

(* The client has of a tool call the arguments that the ledger notes for   *)
(* it (emit_tool_delta).                                                   *)
LEMMA DeltaTold ==
  ASSUME NEW c, NEW h \in Seq(Event), NEW l, Told(c, h, l), NEW i \in DOMAIN l.blocks, l.blocks[i].open,
         l.blocks[i].type = "tool_use", NEW content \in Contents
  PROVE  Told(c, h, Delta(l, i, content)) /\ Written(l, Delta(l, i, content))
<1> DEFINE m == Delta(l, i, content)
           b == [l.blocks EXCEPT ![i].content = Join(@, content)]
           e == <<"delta", i, content>>
           d == ClientOf(l, "no")
<1>1. l \in LedgerRecord
  BY DEF Told
<1>2. l.blocks \in Seq(BlockRecord) /\ i \in Nat /\ l.blocks[i] \in BlockRecord
  BY <1>1, LedgerTyped, Entry
<1>3. [l.blocks[i] EXCEPT !.content = Join(@, content)] \in BlockRecord
  <2>1. l.blocks[i].content \in Contents
    BY <1>2 DEF BlockRecord
  <2>2. Join(l.blocks[i].content, content) \in Contents
    BY <2>1, JoinTyped
  <2> QED
    BY <1>2, <2>2 DEF BlockRecord
<1>4. e \in Event /\ b \in Seq(BlockRecord)
  BY <1>2, <1>3, Events, Entry
<1>5. m = [blocks |-> b, thinking |-> l.thinking, text |-> l.text, tools |-> l.tools, out |-> Append(l.out, e)]
  <2> DEFINE t == [l EXCEPT !.out = Append(l.out, e)]
  <2>1. t.blocks = l.blocks
    BY <1>1, LedgerFields
  <2>2. [t EXCEPT !.blocks = b] =
          [blocks |-> b, thinking |-> l.thinking, text |-> l.text, tools |-> l.tools, out |-> Append(l.out, e)]
    <3> DEFINE o == Append(l.out, e)
    <3> HIDE DEF o, b, e
    <3>1. [[l EXCEPT !.out = o] EXCEPT !.blocks = b] =
            [blocks |-> b, thinking |-> l.thinking, text |-> l.text, tools |-> l.tools, out |-> o]
      BY <1>1, LedgerFields
    <3> QED
      BY <3>1 DEF o
  <2>3. m = [t EXCEPT !.blocks = b]
    BY <2>1 DEF Delta, Tell
  <2> QED
    BY <2>2, <2>3
<1>6. See(d, e) = [started |-> 1, blocks |-> b, bad |-> FALSE, over |-> "no"]
  <2>1. Lawful(d, e)
    BY DEF Lawful, ClientOf, OpenAt
  <2>2. d.blocks = l.blocks
    BY DEF ClientOf
  <2>3. See(d, e) = [d EXCEPT !.blocks[i].content = Join(@, content)]
    BY <2>1, <2>2 DEF See
  <2>4. See(d, e) = [d EXCEPT !.blocks = b]
    BY <2>2, <2>3
  <2> QED
    BY <2>4, ClientFields
<1>7. /\ DOMAIN b = DOMAIN l.blocks
      /\ \A j \in DOMAIN l.blocks : b[j].type = l.blocks[j].type /\ (b[j].open <=> l.blocks[j].open)
  BY <1>2, <1>3, BlocksWritten
<1> HIDE DEF m, b, e
<1>8. Told(c, h, m) /\ m.blocks = b /\ m.thinking = l.thinking /\ m.text = l.text /\ m.tools = l.tools
  BY <1>4, <1>5, <1>6, Emits
<1>9. Written(l, m)
  BY <1>7, <1>8 DEF Written
<1> QED
  BY <1>8, <1>9 DEF m

(* Words that the ledger writes reach the client (emit_text_delta,         *)
(* emit_thinking_delta).                                                   *)
LEMMA WriteTold ==
  ASSUME NEW c, NEW h \in Seq(Event), NEW l, Told(c, h, l), NEW i \in DOMAIN l.blocks, l.blocks[i].open,
         l.blocks[i].type # "tool_use"
  PROVE  Told(c, h, Write(l, i)) /\ Written(l, Write(l, i))
<1> DEFINE m == Write(l, i)
           b == [l.blocks EXCEPT ![i].content = "whole"]
           e == <<"delta", i, "whole">>
           d == ClientOf(l, "no")
<1>1. l \in LedgerRecord
  BY DEF Told
<1>2. l.blocks \in Seq(BlockRecord) /\ i \in Nat /\ l.blocks[i] \in BlockRecord /\ "whole" \in Contents
  BY <1>1, LedgerTyped, Entry DEF Contents
<1>3. [l.blocks[i] EXCEPT !.content = "whole"] \in BlockRecord
  BY <1>2 DEF BlockRecord
<1>4. e \in Event /\ b \in Seq(BlockRecord)
  BY <1>2, <1>3, Events, Entry
<1>5. m = [blocks |-> b, thinking |-> l.thinking, text |-> l.text, tools |-> l.tools, out |-> Append(l.out, e)]
  <2> DEFINE t == [l EXCEPT !.out = Append(l.out, e)]
  <2>1. t.blocks = l.blocks
    BY <1>1, LedgerFields
  <2>2. [t EXCEPT !.blocks = b] =
          [blocks |-> b, thinking |-> l.thinking, text |-> l.text, tools |-> l.tools, out |-> Append(l.out, e)]
    <3> DEFINE o == Append(l.out, e)
    <3> HIDE DEF o, b, e
    <3>1. [[l EXCEPT !.out = o] EXCEPT !.blocks = b] =
            [blocks |-> b, thinking |-> l.thinking, text |-> l.text, tools |-> l.tools, out |-> o]
      BY <1>1, LedgerFields
    <3> QED
      BY <3>1 DEF o
  <2>3. m = [t EXCEPT !.blocks = b]
    BY <2>1 DEF Write, Tell
  <2> QED
    BY <2>2, <2>3
<1>6. See(d, e) = [started |-> 1, blocks |-> b, bad |-> FALSE, over |-> "no"]
  <2>1. Lawful(d, e)
    BY DEF Lawful, ClientOf, OpenAt
  <2>2. d.blocks = l.blocks
    BY DEF ClientOf
  <2>3. See(d, e) = [d EXCEPT !.blocks[i].content = "whole"]
    BY <2>1, <2>2 DEF See
  <2>4. See(d, e) = [d EXCEPT !.blocks = b]
    BY <2>2, <2>3
  <2> QED
    BY <2>4, ClientFields
<1>7. /\ DOMAIN b = DOMAIN l.blocks
      /\ \A j \in DOMAIN l.blocks : b[j].type = l.blocks[j].type /\ (b[j].open <=> l.blocks[j].open)
  BY <1>2, <1>3, BlocksWritten
<1> HIDE DEF m, b, e
<1>8. Told(c, h, m) /\ m.blocks = b /\ m.thinking = l.thinking /\ m.text = l.text /\ m.tools = l.tools
  BY <1>4, <1>5, <1>6, Emits
<1>9. Written(l, m)
  BY <1>7, <1>8 DEF Written
<1> QED
  BY <1>8, <1>9 DEF m

-----------------------------------------------------------------------------
(* Blocks of thinking and of text.                                         *)

\* Other fields of a ledger than the blocks and the events.
LEMMA Relabelled ==
  ASSUME NEW c, NEW h, NEW l, Told(c, h, l), NEW m \in LedgerRecord, m.blocks = l.blocks, m.out = l.out
  PROVE  Told(c, h, m)
BY ViewSame DEF Told, ClientOf

(* A ledger whose thinking is in another block.                            *)
LEMMA ThinkingSet ==
  ASSUME NEW l \in LedgerRecord, NEW n \in Nat
  PROVE  LET m == [l EXCEPT !.thinking = n]
         IN /\ m \in LedgerRecord /\ m.blocks = l.blocks /\ m.out = l.out /\ m.thinking = n /\ m.text = l.text
            /\ m.tools = l.tools
BY DEF LedgerRecord

(* A ledger whose text is in another block.                                *)
LEMMA TextSet ==
  ASSUME NEW l \in LedgerRecord, NEW n \in Nat
  PROVE  LET m == [l EXCEPT !.text = n]
         IN /\ m \in LedgerRecord /\ m.blocks = l.blocks /\ m.out = l.out /\ m.text = n /\ m.thinking = l.thinking
            /\ m.tools = l.tools
BY DEF LedgerRecord

(* Closing the block of thinking or of text, if it is open, keeps a ledger *)
(* sound.                                                                  *)
LEMMA StopContent ==
  ASSUME NEW c, NEW h \in Seq(Event), NEW l, Sound(c, h, l), NEW i \in {l.thinking, l.text}
  PROVE  Sound(c, h, StopIf(l, i)) /\ Stopped(l, StopIf(l, i), i)
<1> DEFINE m == StopIf(l, i)
<1>1. l \in LedgerRecord /\ Told(c, h, l) /\ Formed(l)
  BY DEF Sound, Told
<1>2. l.blocks \in Seq(BlockRecord)
  BY <1>1, LedgerTyped
<1>3. CASE ~ IsOpen(l, i)
  <2>1. m = l
    BY <1>3 DEF StopIf
  <2>2. \A j \in DOMAIN l.blocks : l.blocks[j].open => j # i
    BY <1>2, <1>3 DEF IsOpen
  <2>3. Stopped(l, l, i)
    BY <2>2 DEF Stopped
  <2> QED
    BY <2>1, <2>3
<1>4. CASE IsOpen(l, i)
  <2>1. m = Stop(l, i) /\ i # 0 /\ l.blocks[i].open
    BY <1>4 DEF StopIf, IsOpen
  <2>2. i \in DOMAIN l.blocks /\ l.blocks[i].type # "tool_use"
    BY <1>1, <2>1 DEF Formed
  <2>3. Told(c, h, m) /\ Stopped(l, m, i)
    BY <1>1, <2>1, <2>2, StopTold
  <2>4. Formed(m)
    <3> HIDE DEF m
    <3> QED
      BY <1>1, <2>2, <2>3 DEF Formed, Stopped
  <2> QED
    BY <2>3, <2>4 DEF Sound
<1> QED
  BY <1>3, <1>4

(* Closing both leaves open at most the blocks of tool calls               *)
(* (close_content_blocks).                                                 *)
LEMMA CloseContentSound ==
  ASSUME NEW c, NEW h \in Seq(Event), NEW l, Sound(c, h, l)
  PROVE  LET m == CloseContent(l)
         IN /\ Sound(c, h, m)
            /\ m.thinking = l.thinking /\ m.text = l.text /\ m.tools = l.tools
            /\ DOMAIN m.blocks = DOMAIN l.blocks
            /\ \A j \in DOMAIN l.blocks : /\ m.blocks[j].type = l.blocks[j].type
                                          /\ m.blocks[j].content = l.blocks[j].content
                                          /\ m.blocks[j].open => j \notin {l.thinking, l.text}
<1> DEFINE k == StopIf(l, l.thinking)
           m == StopIf(k, l.text)
<1>1. Sound(c, h, k) /\ Stopped(l, k, l.thinking)
  BY StopContent
<1> HIDE DEF k
<1>2. k.text = l.text
  BY <1>1 DEF Stopped
<1>3. Sound(c, h, m) /\ Stopped(k, m, l.text)
  BY <1>1, <1>2, StopContent
<1>4. CloseContent(l) = m
  BY DEF CloseContent, k
<1> HIDE DEF m
<1> QED
  BY <1>1, <1>3, <1>4 DEF Stopped

\* More was said, and no tool was called.
Spoke(l, m) ==
  /\ m.tools = l.tools
  /\ DOMAIN l.blocks \subseteq DOMAIN m.blocks
  /\ \A j \in DOMAIN m.blocks : m.blocks[j].type = "tool_use" => j \in DOMAIN l.blocks /\ l.blocks[j].type = "tool_use"

(* A block of thinking is open then, and no tool was called                *)
(* (ensure_thinking_block).                                                *)
LEMMA EnsureThinkingSound ==
  ASSUME NEW c, NEW h \in Seq(Event), NEW l, Sound(c, h, l)
  PROVE  LET m == EnsureThinking(l)
         IN /\ Sound(c, h, m) /\ Spoke(l, m)
            /\ m.thinking \in DOMAIN m.blocks /\ m.blocks[m.thinking].open /\ m.blocks[m.thinking].type = "thinking"
<1> DEFINE k == StopIf(l, l.text)
           m == EnsureThinking(l)
<1>1. Sound(c, h, k) /\ Stopped(l, k, l.text) /\ Formed(l)
  BY StopContent DEF Sound
<1>2. l \in LedgerRecord /\ k \in LedgerRecord /\ Told(c, h, k) /\ Formed(k)
  BY <1>1 DEF Sound, Told
<1>3. Len(k.blocks) = Len(l.blocks) /\ Len(l.blocks) \in Nat
  <2> HIDE DEF k
  <2>1. l.blocks \in Seq(BlockRecord) /\ k.blocks \in Seq(BlockRecord) /\ DOMAIN k.blocks = DOMAIN l.blocks
    BY <1>1, <1>2, LedgerTyped DEF Stopped
  <2> QED
    BY <2>1
<1>4. CASE IsOpen(l, l.thinking)
  <2>1. m = k
    BY <1>4 DEF EnsureThinking
  <2>2. l.thinking \in DOMAIN l.blocks /\ l.blocks[l.thinking].open /\ l.blocks[l.thinking].type = "thinking"
        /\ l.thinking # l.text
    BY <1>1, <1>4 DEF IsOpen, Formed
  <2> HIDE DEF k, m
  <2> QED
    BY <1>1, <2>1, <2>2 DEF Stopped, Spoke, m
<1>5. CASE ~ IsOpen(l, l.thinking)
  <2> DEFINE s == Start(k, "thinking")
             n == Len(l.blocks) + 1
  <2>1. m = [s EXCEPT !.thinking = n]
    BY <1>5 DEF EnsureThinking
  <2>2. Told(c, h, s) /\ Added(k, s, "thinking")
    <3>1. "thinking" \in BlockType
      BY DEF BlockType
    <3> HIDE DEF k
    <3> QED
      BY <1>2, <3>1, StartTold
  <2> HIDE DEF s, m, k
  <2>3. /\ m \in LedgerRecord /\ m.blocks = s.blocks /\ m.out = s.out
        /\ m.thinking = n /\ m.text = k.text /\ m.tools = k.tools
    <3>1. s \in LedgerRecord /\ n \in Nat
      BY <2>2, <1>3 DEF Told
    <3>2. s.text = k.text /\ s.tools = k.tools
      BY <2>2 DEF Added
    <3> HIDE DEF n
    <3>3. /\ m \in LedgerRecord /\ m.blocks = s.blocks /\ m.out = s.out
          /\ m.thinking = n /\ m.text = s.text /\ m.tools = s.tools
      BY <2>1, <3>1, ThinkingSet
    <3> QED
      BY <3>2, <3>3
  <2>4. Told(c, h, m)
    BY <2>2, <2>3, Relabelled
  <2>5. /\ DOMAIN m.blocks = DOMAIN k.blocks \cup {n} /\ n \notin DOMAIN k.blocks /\ n # 0
        /\ m.blocks[n].type = "thinking" /\ m.blocks[n].open
        /\ \A j \in DOMAIN k.blocks : m.blocks[j] = k.blocks[j] /\ j # n /\ j # 0
    BY <1>3, <2>2, <2>3 DEF Added
  <2> HIDE DEF n
  <2>7. \A j \in DOMAIN k.blocks : k.blocks[j].open => j # k.thinking
    BY <1>1, <1>5, <2>5 DEF Stopped, IsOpen
  <2>8. Formed(m)
    BY <1>2, <2>3, <2>5, <2>7 DEF Formed
  <2>9. Spoke(l, m)
    BY <1>1, <2>3, <2>5 DEF Spoke, Stopped
  <2> QED
    BY <2>3, <2>4, <2>5, <2>8, <2>9 DEF Sound, m
<1> QED
  BY <1>4, <1>5

(* A block of text is open then, and no tool was called                    *)
(* (ensure_text_block).                                                    *)
LEMMA EnsureTextSound ==
  ASSUME NEW c, NEW h \in Seq(Event), NEW l, Sound(c, h, l)
  PROVE  LET m == EnsureText(l)
         IN /\ Sound(c, h, m) /\ Spoke(l, m)
            /\ m.text \in DOMAIN m.blocks /\ m.blocks[m.text].open /\ m.blocks[m.text].type = "text"
<1> DEFINE k == StopIf(l, l.thinking)
           m == EnsureText(l)
<1>1. Sound(c, h, k) /\ Stopped(l, k, l.thinking) /\ Formed(l)
  BY StopContent DEF Sound
<1>2. l \in LedgerRecord /\ k \in LedgerRecord /\ Told(c, h, k) /\ Formed(k)
  BY <1>1 DEF Sound, Told
<1>3. Len(k.blocks) = Len(l.blocks) /\ Len(l.blocks) \in Nat
  <2> HIDE DEF k
  <2>1. l.blocks \in Seq(BlockRecord) /\ k.blocks \in Seq(BlockRecord) /\ DOMAIN k.blocks = DOMAIN l.blocks
    BY <1>1, <1>2, LedgerTyped DEF Stopped
  <2> QED
    BY <2>1
<1>4. CASE IsOpen(l, l.text)
  <2>1. m = k
    BY <1>4 DEF EnsureText
  <2>2. l.text \in DOMAIN l.blocks /\ l.blocks[l.text].open /\ l.blocks[l.text].type = "text"
        /\ l.text # l.thinking
    BY <1>1, <1>4 DEF IsOpen, Formed
  <2> HIDE DEF k, m
  <2> QED
    BY <1>1, <2>1, <2>2 DEF Stopped, Spoke, m
<1>5. CASE ~ IsOpen(l, l.text)
  <2> DEFINE s == Start(k, "text")
             n == Len(l.blocks) + 1
  <2>1. m = [s EXCEPT !.text = n]
    BY <1>5 DEF EnsureText
  <2>2. Told(c, h, s) /\ Added(k, s, "text")
    <3>1. "text" \in BlockType
      BY DEF BlockType
    <3> HIDE DEF k
    <3> QED
      BY <1>2, <3>1, StartTold
  <2> HIDE DEF s, m, k
  <2>3. /\ m \in LedgerRecord /\ m.blocks = s.blocks /\ m.out = s.out
        /\ m.text = n /\ m.thinking = k.thinking /\ m.tools = k.tools
    <3>1. s \in LedgerRecord /\ n \in Nat
      BY <2>2, <1>3 DEF Told
    <3>2. s.thinking = k.thinking /\ s.tools = k.tools
      BY <2>2 DEF Added
    <3> HIDE DEF n
    <3>3. /\ m \in LedgerRecord /\ m.blocks = s.blocks /\ m.out = s.out
          /\ m.text = n /\ m.thinking = s.thinking /\ m.tools = s.tools
      BY <2>1, <3>1, TextSet
    <3> QED
      BY <3>2, <3>3
  <2>4. Told(c, h, m)
    BY <2>2, <2>3, Relabelled
  <2>5. /\ DOMAIN m.blocks = DOMAIN k.blocks \cup {n} /\ n \notin DOMAIN k.blocks /\ n # 0
        /\ m.blocks[n].type = "text" /\ m.blocks[n].open
        /\ \A j \in DOMAIN k.blocks : m.blocks[j] = k.blocks[j] /\ j # n /\ j # 0
    BY <1>3, <2>2, <2>3 DEF Added
  <2> HIDE DEF n
  <2>7. \A j \in DOMAIN k.blocks : k.blocks[j].open => j # k.text
    BY <1>1, <1>5, <2>5 DEF Stopped, IsOpen
  <2>8. Formed(m)
    BY <1>2, <2>3, <2>5, <2>7 DEF Formed
  <2>9. Spoke(l, m)
    BY <1>1, <2>3, <2>5 DEF Spoke, Stopped
  <2> QED
    BY <2>3, <2>4, <2>5, <2>8, <2>9 DEF Sound, m
<1> QED
  BY <1>4, <1>5

(* Writing to blocks does not change which are open and what they are for. *)
LEMMA WrittenFormed == ASSUME NEW l, Formed(l), NEW m, Written(l, m) PROVE Formed(m)
BY DEF Formed, Written

(* Words written to an open block keep a ledger sound.                     *)
LEMMA WriteSound ==
  ASSUME NEW c, NEW h \in Seq(Event), NEW l, Sound(c, h, l), NEW i \in DOMAIN l.blocks, l.blocks[i].open,
         l.blocks[i].type # "tool_use"
  PROVE  Sound(c, h, Write(l, i)) /\ Spoke(l, Write(l, i)) /\ DOMAIN Write(l, i).blocks = DOMAIN l.blocks
<1>1. Told(c, h, l) /\ Formed(l)
  BY DEF Sound
<1>2. Told(c, h, Write(l, i)) /\ Written(l, Write(l, i))
  BY <1>1, WriteTold
<1>3. Formed(Write(l, i)) /\ Spoke(l, Write(l, i))
  BY <1>1, <1>2, WrittenFormed DEF Spoke, Written
<1> QED
  BY <1>2, <1>3 DEF Sound, Written

(* What was said in two steps was said.                                    *)
LEMMA SpokeTwice == ASSUME NEW k, NEW l, NEW m, Spoke(k, l), Spoke(l, m) PROVE Spoke(k, m)
BY DEF Spoke

(* Some text is said, in a block that is there then.                       *)
LEMMA SaysSound ==
  ASSUME NEW c, NEW h \in Seq(Event), NEW l, Sound(c, h, l)
  PROVE  Sound(c, h, Says(l)) /\ Spoke(l, Says(l)) /\ DOMAIN Says(l).blocks # {}
<1> DEFINE k == EnsureText(l)
<1>1. /\ Sound(c, h, k) /\ Spoke(l, k)
      /\ k.text \in DOMAIN k.blocks /\ k.blocks[k.text].open /\ k.blocks[k.text].type = "text"
  BY EnsureTextSound
<1>2. Says(l) = Write(k, k.text)
  BY DEF Says
<1> HIDE DEF k
<1>3. Sound(c, h, Write(k, k.text)) /\ Spoke(k, Write(k, k.text)) /\ DOMAIN Write(k, k.text).blocks # {}
  <2> DEFINE i == k.text
  <2>1. i \in DOMAIN k.blocks /\ k.blocks[i].open /\ k.blocks[i].type # "tool_use"
    BY <1>1
  <2> HIDE DEF i
  <2>2. Sound(c, h, Write(k, i)) /\ Spoke(k, Write(k, i)) /\ DOMAIN Write(k, i).blocks # {}
    BY <1>1, <2>1, WriteSound
  <2> QED
    BY <2>2 DEF i
<1> QED
  BY <1>1, <1>2, <1>3, SpokeTwice

(* Some thinking is said, in a block that is there then.                   *)
LEMMA ThinksSound ==
  ASSUME NEW c, NEW h \in Seq(Event), NEW l, Sound(c, h, l)
  PROVE  Sound(c, h, Thinks(l)) /\ Spoke(l, Thinks(l)) /\ DOMAIN Thinks(l).blocks # {}
<1> DEFINE k == EnsureThinking(l)
<1>1. /\ Sound(c, h, k) /\ Spoke(l, k)
      /\ k.thinking \in DOMAIN k.blocks /\ k.blocks[k.thinking].open /\ k.blocks[k.thinking].type = "thinking"
  BY EnsureThinkingSound
<1>2. Thinks(l) = Write(k, k.thinking)
  BY DEF Thinks
<1> HIDE DEF k
<1>3. Sound(c, h, Write(k, k.thinking)) /\ Spoke(k, Write(k, k.thinking)) /\ DOMAIN Write(k, k.thinking).blocks # {}
  <2> DEFINE i == k.thinking
  <2>1. i \in DOMAIN k.blocks /\ k.blocks[i].open /\ k.blocks[i].type # "tool_use"
    BY <1>1
  <2> HIDE DEF i
  <2>2. Sound(c, h, Write(k, i)) /\ Spoke(k, Write(k, i)) /\ DOMAIN Write(k, i).blocks # {}
    BY <1>1, <2>1, WriteSound
  <2> QED
    BY <2>2 DEF i
<1> QED
  BY <1>1, <1>2, <1>3, SpokeTwice

-----------------------------------------------------------------------------
(* Tool calls.                                                             *)

(* A tool call found in the text is opened, sent and closed at once.       *)
LEMMA TextToolSound ==
  ASSUME NEW c, NEW h \in Seq(Event), NEW l, Sound(c, h, l)
  PROVE  Sound(c, h, TextTool(l))
<1> DEFINE n == Len(l.blocks) + 1
           k == CloseContent(l)
           s == Start(k, "tool_use")
           d == Delta(s, n, "whole")
           m == Stop(d, n)
<1>1. TextTool(l) = m
  BY DEF TextTool
<1>2. l.blocks \in Seq(BlockRecord)
  BY LedgerTyped DEF Sound, Told
<1>3. Told(c, h, k) /\ Formed(k) /\ k.blocks \in Seq(BlockRecord) /\ DOMAIN k.blocks = DOMAIN l.blocks
  <2>1. Sound(c, h, k) /\ DOMAIN k.blocks = DOMAIN l.blocks
    BY CloseContentSound
  <2> HIDE DEF k
  <2> QED
    BY <2>1, LedgerTyped DEF Sound, Told
<1>4. Told(c, h, s) /\ Added(k, s, "tool_use")
  <2>1. "tool_use" \in BlockType
    BY DEF BlockType
  <2> HIDE DEF k
  <2> QED
    BY <1>3, <2>1, StartTold
<1> HIDE DEF k, s
<1>5. n = Len(k.blocks) + 1
  BY <1>2, <1>3
<1> HIDE DEF n
<1>6. Told(c, h, d) /\ Written(s, d)
  <2>1. n \in DOMAIN s.blocks /\ s.blocks[n].open /\ s.blocks[n].type = "tool_use" /\ "whole" \in Contents
    BY <1>4, <1>5 DEF Added, Contents
  <2> QED
    BY <1>4, <2>1, DeltaTold
<1> HIDE DEF d
<1>7. Told(c, h, m) /\ Stopped(d, m, n)
  <2>1. n \in DOMAIN d.blocks /\ d.blocks[n].open
    BY <1>4, <1>5, <1>6 DEF Added, Written
  <2> QED
    BY <1>6, <2>1, StopTold
<1> HIDE DEF m
<1>8. /\ m.thinking = k.thinking /\ m.text = k.text /\ m.tools = k.tools
      /\ DOMAIN m.blocks = DOMAIN k.blocks \cup {n} /\ ~m.blocks[n].open
      /\ \A j \in DOMAIN k.blocks : m.blocks[j].type = k.blocks[j].type /\ (m.blocks[j].open <=> k.blocks[j].open)
  BY <1>4, <1>5, <1>6, <1>7 DEF Added, Written, Stopped
<1>9. Formed(m)
  BY <1>3, <1>8 DEF Formed
<1> QED
  BY <1>1, <1>7, <1>9 DEF Sound

(* A ledger with other notes about its tool calls.                         *)
LEMMA ToolsSet ==
  ASSUME NEW l \in LedgerRecord, NEW g \in [Tool -> ToolRecord]
  PROVE  LET m == [l EXCEPT !.tools = g]
         IN /\ m \in LedgerRecord /\ m.blocks = l.blocks /\ m.out = l.out /\ m.thinking = l.thinking /\ m.text = l.text
            /\ m.tools = g
BY DEF LedgerRecord

\* What is noted of tool t changes, and neither its block nor anything else.
LEMMA Noted ==
  ASSUME NEW c, NEW h, NEW l, Sound(c, h, l), NEW t \in Tool, NEW r \in ToolRecord,
         r.block = l.tools[t].block, r.buffer # "none" => r.block # 0,
         NEW m, m = [l EXCEPT !.tools = [l.tools EXCEPT ![t] = r]]
  PROVE  Sound(c, h, m) /\ m.tools[t] = r /\ m.blocks = l.blocks /\ \A u \in Tool : m.tools[u].block = l.tools[u].block
<1> DEFINE g == [l.tools EXCEPT ![t] = r]
<1>1. l \in LedgerRecord /\ l.tools \in [Tool -> ToolRecord] /\ Told(c, h, l) /\ Formed(l)
  BY LedgerTyped DEF Sound, Told
<1>2. g \in [Tool -> ToolRecord] /\ \A u \in Tool : g[u] = IF u = t THEN r ELSE l.tools[u]
  BY <1>1
<1>3. m = [l EXCEPT !.tools = g]
  OBVIOUS
<1> HIDE DEF g
<1>4. /\ m \in LedgerRecord /\ m.blocks = l.blocks /\ m.out = l.out /\ m.thinking = l.thinking /\ m.text = l.text
      /\ m.tools = g
  BY <1>1, <1>2, <1>3, ToolsSet
<1>5. Told(c, h, m)
  BY <1>1, <1>4, Relabelled
<1>6. \A u \in Tool : /\ m.tools[u].block = l.tools[u].block
                      /\ m.tools[u].buffer # "none" => m.tools[u].block # 0
  BY <1>1, <1>2, <1>4 DEF Formed
<1>7. Formed(m)
  BY <1>1, <1>4, <1>6 DEF Formed
<1> QED
  BY <1>2, <1>4, <1>5, <1>6, <1>7 DEF Sound

(* Arguments sent to a started call keep a ledger sound.                   *)
LEMMA DeltaSound ==
  ASSUME NEW c, NEW h \in Seq(Event), NEW l, Sound(c, h, l), NEW t \in Tool, l.tools[t].block # 0, NEW content \in Contents
  PROVE  LET m == Delta(l, l.tools[t].block, content)
         IN Sound(c, h, m) /\ Written(l, m)
<1> DEFINE i == l.tools[t].block
<1>1. Told(c, h, l) /\ Formed(l)
  BY DEF Sound
<1>2. i \in DOMAIN l.blocks /\ l.blocks[i].open /\ l.blocks[i].type = "tool_use"
  BY <1>1 DEF Formed
<1> HIDE DEF i
<1>3. Told(c, h, Delta(l, i, content)) /\ Written(l, Delta(l, i, content))
  BY <1>1, <1>2, DeltaTold
<1> QED
  BY <1>1, <1>3, WrittenFormed DEF Sound, i

\* The blocks are as many as they were, and those of the tools the same.
KeepsTools(l, m) == DOMAIN m.blocks = DOMAIN l.blocks /\ \A u \in Tool : m.tools[u].block = l.tools[u].block

(* Arguments that arrive are sent or buffered, whatever the kind of the    *)
(* tool (_emit_tool_arg_delta).                                            *)
LEMMA ArgsSound ==
  ASSUME NEW c, NEW h \in Seq(Event), NEW l, Sound(c, h, l), NEW kind, NEW t \in Tool, l.tools[t].block # 0,
         NEW piece \in Contents
  PROVE  Sound(c, h, Args(kind, l, t, piece)) /\ KeepsTools(l, Args(kind, l, t, piece))
<1> DEFINE m == Args(kind, l, t, piece)
           tool == l.tools[t]
           all == Join(tool.buffer, piece)
<1>1. l \in LedgerRecord /\ tool \in ToolRecord
  BY LedgerTyped DEF Sound, Told
<1>2. all \in Contents
  <2>1. tool.buffer \in Contents
    BY <1>1 DEF ToolRecord
  <2> HIDE DEF tool
  <2> QED
    BY <2>1, JoinTyped
<1>3. CASE piece = "none" \/ tool.emitted
  <2>1. m = l
    BY <1>3 DEF Args
  <2> HIDE DEF m
  <2> QED
    BY <2>1 DEF KeepsTools, m
<1>4. CASE ~(piece = "none" \/ tool.emitted) /\ kind[t] = "plain"
  <2>1. m = Delta(l, l.tools[t].block, piece)
    BY <1>4 DEF Args
  <2> HIDE DEF m
  <2>2. Sound(c, h, m) /\ Written(l, m)
    BY <2>1, DeltaSound
  <2> QED
    BY <2>2 DEF KeepsTools, Written, m
<1>5. CASE ~(piece = "none" \/ tool.emitted) /\ kind[t] # "plain" /\ all # "whole"
  <2> DEFINE r == [tool EXCEPT !.buffer = all]
  <2>1. m = [l EXCEPT !.tools[t].buffer = all]
    BY <1>5 DEF Args
  <2>2. m = [l EXCEPT !.tools = [l.tools EXCEPT ![t] = r]]
    BY <2>1
  <2> HIDE DEF m, all
  <2>3. r \in ToolRecord /\ r.block = l.tools[t].block /\ r.block # 0
    BY <1>1, <1>2 DEF ToolRecord
  <2> HIDE DEF r, tool
  <2>4. Sound(c, h, m) /\ m.blocks = l.blocks /\ \A u \in Tool : m.tools[u].block = l.tools[u].block
    BY <2>2, <2>3, Noted
  <2> QED
    BY <2>4 DEF KeepsTools, m
<1>6. CASE ~(piece = "none" \/ tool.emitted) /\ kind[t] # "plain" /\ all = "whole"
  <2> DEFINE b == (kind[t] = "task")
             k == [l EXCEPT !.tools[t].buffer = "none", !.tools[t].emitted = b]
             r == [tool EXCEPT !.buffer = "none", !.emitted = b]
  <2>1. m = Delta(k, tool.block, "whole")
    BY <1>6 DEF Args
  <2>2. b \in BOOLEAN
    OBVIOUS
  <2> HIDE DEF m, all, b
  <2>3. k = [l EXCEPT !.tools = [l.tools EXCEPT ![t] = r]]
    BY <1>1, LedgerTyped DEF LedgerRecord, ToolRecord
  <2>4. r \in ToolRecord /\ r.block = l.tools[t].block /\ r.block # 0
    BY <1>1, <2>2 DEF ToolRecord, Contents
  <2> HIDE DEF r, k
  <2>5. Sound(c, h, k) /\ k.blocks = l.blocks /\ \A u \in Tool : k.tools[u].block = l.tools[u].block
    <3> HIDE DEF tool
    <3> QED
      BY <2>3, <2>4, Noted
  <2>6. m = Delta(k, k.tools[t].block, "whole") /\ k.tools[t].block # 0 /\ "whole" \in Contents
    BY <2>1, <2>5 DEF Contents
  <2>7. Sound(c, h, m) /\ Written(k, m)
    BY <2>5, <2>6, DeltaSound
  <2> QED
    BY <2>5, <2>7 DEF KeepsTools, Written, m
<1> QED
  BY <1>3, <1>4, <1>5, <1>6

(* A tool call gets a block that no other has.                             *)
LEMMA OpensToolSound ==
  ASSUME NEW c, NEW h \in Seq(Event), NEW l, Sound(c, h, l), NEW t \in Tool, l.tools[t].block = 0
  PROVE  /\ Sound(c, h, OpensTool(l, t)) /\ OpensTool(l, t).tools[t].block # 0
         /\ DOMAIN l.blocks \subseteq DOMAIN OpensTool(l, t).blocks
<1> DEFINE m == OpensTool(l, t)
           s == Start(l, "tool_use")
           n == Len(l.blocks) + 1
           r == [l.tools[t] EXCEPT !.block = n, !.pre = "none"]
           g == [l.tools EXCEPT ![t] = r]
<1>1. l \in LedgerRecord /\ Told(c, h, l) /\ Formed(l) /\ l.tools[t] \in ToolRecord /\ l.tools \in [Tool -> ToolRecord]
  BY LedgerTyped DEF Sound, Told
<1>2. Told(c, h, s) /\ Added(l, s, "tool_use")
  <2>1. "tool_use" \in BlockType
    BY DEF BlockType
  <2> QED
    BY <1>1, <2>1, StartTold
<1>3. m = [s EXCEPT !.tools[t].block = n, !.tools[t].pre = "none"]
  BY DEF OpensTool
<1> HIDE DEF s, m
<1>4. s \in LedgerRecord /\ s.tools = l.tools /\ n \in Nat /\ n # 0 /\ n \notin DOMAIN l.blocks
  BY <1>2 DEF Told, Added
<1> HIDE DEF n
<1>5. m = [s EXCEPT !.tools = g]
  BY <1>1, <1>3, <1>4 DEF LedgerRecord, ToolRecord
<1>6. r \in ToolRecord /\ r.block = n /\ r.buffer = l.tools[t].buffer
  BY <1>1, <1>4 DEF ToolRecord, Contents
<1> HIDE DEF r
<1>7. g \in [Tool -> ToolRecord] /\ \A u \in Tool : g[u] = IF u = t THEN r ELSE l.tools[u]
  BY <1>1, <1>6
<1> HIDE DEF g
<1>8. /\ m \in LedgerRecord /\ m.blocks = s.blocks /\ m.out = s.out /\ m.thinking = s.thinking /\ m.text = s.text
      /\ m.tools = g
  BY <1>4, <1>5, <1>7, ToolsSet
<1>9. Told(c, h, m)
  BY <1>2, <1>8, Relabelled
<1>10. /\ m.thinking = l.thinking /\ m.text = l.text
       /\ DOMAIN m.blocks = DOMAIN l.blocks \cup {n} /\ m.blocks[n].type = "tool_use" /\ m.blocks[n].open
       /\ \A j \in DOMAIN l.blocks : m.blocks[j] = l.blocks[j] /\ j # n
  BY <1>2, <1>4, <1>8 DEF Added, n
<1>11. m.tools[t].block = n /\ m.tools[t].buffer = l.tools[t].buffer
       /\ \A u \in Tool : u # t => m.tools[u] = l.tools[u]
  BY <1>6, <1>7, <1>8
<1>12. Formed(m)
  <2>1. \A u \in Tool : /\ m.tools[u].block # 0 => /\ m.tools[u].block \in DOMAIN m.blocks
                                                   /\ m.blocks[m.tools[u].block].type = "tool_use"
                                                   /\ m.blocks[m.tools[u].block].open
                                                   /\ \A v \in Tool : m.tools[v].block = m.tools[u].block => v = u
                        /\ m.tools[u].buffer # "none" => m.tools[u].block # 0
    <3> SUFFICES ASSUME NEW u \in Tool
                 PROVE  /\ m.tools[u].block # 0 => /\ m.tools[u].block \in DOMAIN m.blocks
                                                   /\ m.blocks[m.tools[u].block].type = "tool_use"
                                                   /\ m.blocks[m.tools[u].block].open
                                                   /\ \A v \in Tool : m.tools[v].block = m.tools[u].block => v = u
                        /\ m.tools[u].buffer # "none" => m.tools[u].block # 0
      OBVIOUS
    <3>1. CASE u = t
      BY <3>1, <1>1, <1>4, <1>10, <1>11 DEF Formed
    <3>2. CASE u # t
      BY <3>2, <1>1, <1>4, <1>10, <1>11 DEF Formed
    <3> QED
      BY <3>1, <3>2
  <2>2. \A j \in DOMAIN m.blocks : m.blocks[j].open => j = m.thinking \/ j = m.text \/ \E u \in Tool : j = m.tools[u].block
    <3> SUFFICES ASSUME NEW j \in DOMAIN m.blocks, m.blocks[j].open
                 PROVE  j = m.thinking \/ j = m.text \/ \E u \in Tool : j = m.tools[u].block
      OBVIOUS
    <3>1. CASE j = n
      BY <3>1, <1>11
    <3>2. CASE j # n
      <4>1. j \in DOMAIN l.blocks /\ l.blocks[j].open
        BY <3>2, <1>10
      <4>2. j = l.thinking \/ j = l.text \/ \E u \in Tool : j = l.tools[u].block
        BY <4>1, <1>1 DEF Formed
      <4>3. ASSUME NEW u \in Tool, j = l.tools[u].block PROVE u # t
        <5>1. j # 0
          BY <4>1, <1>1, LedgerTyped
        <5> QED
          BY <4>3, <5>1
      <4> QED
        BY <4>2, <4>3, <1>10, <1>11
    <3> QED
      BY <3>1, <3>2
  <2>3. /\ m.thinking # 0 => m.thinking \in DOMAIN m.blocks /\ m.blocks[m.thinking].type = "thinking"
        /\ m.text # 0 => m.text \in DOMAIN m.blocks /\ m.blocks[m.text].type = "text"
    BY <1>1, <1>10 DEF Formed
  <2> QED
    BY <2>1, <2>2, <2>3 DEF Formed
<1> QED
  BY <1>4, <1>9, <1>10, <1>11, <1>12 DEF Sound, m

(* A piece of a tool call keeps a ledger sound, and no block is lost       *)
(* (process_tool_call).                                                    *)
LEMMA ToolCallSound ==
  ASSUME NEW c, NEW h \in Seq(Event), NEW l, Sound(c, h, l), NEW kind, NEW t \in Tool, NEW named \in BOOLEAN,
         NEW piece \in Contents
  PROVE  /\ Sound(c, h, ToolCall(kind, l, t, named, piece))
         /\ DOMAIN l.blocks \subseteq DOMAIN ToolCall(kind, l, t, named, piece).blocks
<1> DEFINE known == [l EXCEPT !.tools[t].named = @ \/ named]
           b == (l.tools[t].named \/ named)
           r == [l.tools[t] EXCEPT !.named = b]
           pre == l.tools[t].pre
<1>1. l.tools[t] \in ToolRecord /\ Formed(l) /\ pre \in Contents
  BY LedgerTyped DEF Sound, Told, ToolRecord
<1>2. known = [l EXCEPT !.tools = [l.tools EXCEPT ![t] = r]]
  OBVIOUS
<1>3. b \in BOOLEAN
  OBVIOUS
<1> HIDE DEF b, known
<1>4. r \in ToolRecord /\ r.block = l.tools[t].block /\ r.buffer = l.tools[t].buffer /\ r.pre = pre
  BY <1>1, <1>3 DEF ToolRecord
<1> HIDE DEF r, pre
<1>5. r.buffer # "none" => r.block # 0
  BY <1>1, <1>4 DEF Formed
<1>6. Sound(c, h, known) /\ known.tools[t] = r /\ known.blocks = l.blocks
  <2>1. r \in ToolRecord /\ r.block = l.tools[t].block /\ (r.buffer # "none" => r.block # 0)
    BY <1>4, <1>5
  <2>2. known = [l EXCEPT !.tools = [l.tools EXCEPT ![t] = r]]
    BY <1>2
  <2>3. Sound(c, h, known)
    BY <2>1, <2>2, Noted
  <2>4. known.tools[t] = r /\ known.blocks = l.blocks
    <3>1. l \in LedgerRecord /\ l.tools \in [Tool -> ToolRecord]
      BY LedgerTyped DEF Sound, Told
    <3> QED
      BY <2>1, <2>2, <3>1, ToolsSet
  <2> QED
    BY <2>3, <2>4
<1>7. ToolCall(kind, l, t, named, piece) =
        IF known.tools[t].block # 0 THEN Args(kind, known, t, piece)
        ELSE IF known.tools[t].named THEN Args(kind, Args(kind, OpensTool(known, t), t, pre), t, piece)
        ELSE [known EXCEPT !.tools[t].pre = Join(@, piece)]
  BY DEF ToolCall, known, pre
<1>8. CASE known.tools[t].block # 0
  <2>1. Sound(c, h, Args(kind, known, t, piece)) /\ KeepsTools(known, Args(kind, known, t, piece))
    BY <1>6, <1>8, ArgsSound
  <2> QED
    BY <1>6, <1>7, <1>8, <2>1 DEF KeepsTools
<1>9. CASE known.tools[t].block = 0 /\ known.tools[t].named
  <2> DEFINE o == OpensTool(known, t)
             a == Args(kind, o, t, pre)
  <2>1. Sound(c, h, o) /\ o.tools[t].block # 0 /\ DOMAIN l.blocks \subseteq DOMAIN o.blocks
    BY <1>6, <1>9, OpensToolSound
  <2> HIDE DEF o
  <2>2. Sound(c, h, a) /\ KeepsTools(o, a)
    BY <1>1, <2>1, ArgsSound
  <2> HIDE DEF a
  <2>3. a.tools[t].block # 0
    BY <2>1, <2>2 DEF KeepsTools
  <2>4. Sound(c, h, Args(kind, a, t, piece)) /\ KeepsTools(a, Args(kind, a, t, piece))
    BY <2>2, <2>3, ArgsSound
  <2>5. ToolCall(kind, l, t, named, piece) = Args(kind, a, t, piece)
    BY <1>7, <1>9 DEF a, o
  <2> QED
    BY <2>1, <2>2, <2>4, <2>5 DEF KeepsTools
<1>10. CASE known.tools[t].block = 0 /\ ~known.tools[t].named
  <2> DEFINE x == Join(known.tools[t].pre, piece)
             q == [known.tools[t] EXCEPT !.pre = x]
             m == [known EXCEPT !.tools[t].pre = x]
  <2>1. x \in Contents
    BY <1>1, <1>4, <1>6, JoinTyped
  <2> HIDE DEF x
  <2>2. m = [known EXCEPT !.tools = [known.tools EXCEPT ![t] = q]]
    OBVIOUS
  <2>3. q \in ToolRecord /\ q.block = known.tools[t].block /\ q.buffer = known.tools[t].buffer
    BY <1>4, <1>6, <2>1 DEF ToolRecord
  <2> HIDE DEF q, m
  <2>4. Sound(c, h, m) /\ m.blocks = known.blocks
    BY <1>4, <1>5, <1>6, <2>2, <2>3, Noted
  <2>5. ToolCall(kind, l, t, named, piece) = m
    BY <1>7, <1>10 DEF m, x
  <2> QED
    BY <1>6, <2>4, <2>5
<1> QED
  BY <1>8, <1>9, <1>10

-----------------------------------------------------------------------------
(* One tool call after the other.                                          *)

\* What calls lead to: no block is lost.
Called(c, h, l, n) == {d \in LedgerRecord : Sound(c, h, d) /\ DOMAIN l.blocks \subseteq DOMAIN d.blocks}

(* Names held back until the end open their calls.                         *)
LEMMA FlushNamesSound ==
  ASSUME NEW c, NEW h \in Seq(Event), NEW l, Sound(c, h, l)
  PROVE  Sound(c, h, FlushNames(l)) /\ DOMAIN l.blocks \subseteq DOMAIN FlushNames(l).blocks
<1> DEFINE N == NumTools
           Step(d, n) == IF run.names[n - 1] = "exact" THEN ToolCall(KindOf, d, n - 1, TRUE, "none") ELSE d
           Is(f) == f = [n \in 0..N |-> IF n = 0 THEN l ELSE Step(f[n - 1], n)]
           F == CHOOSE f : Is(f)
<1>0. N \in Nat
  BY StreamAssumption
<1>1. \A n \in 1..N : \A d \in Called(c, h, l, n - 1) : d \in LedgerRecord /\ Step(d, n) \in Called(c, h, l, n)
  <2> SUFFICES ASSUME NEW n \in 1..N, NEW d \in Called(c, h, l, n - 1)
               PROVE  d \in LedgerRecord /\ Step(d, n) \in Called(c, h, l, n)
    OBVIOUS
  <2>1. Sound(c, h, d) /\ DOMAIN l.blocks \subseteq DOMAIN d.blocks /\ d \in LedgerRecord
    BY DEF Called
  <2>2. CASE run.names[n - 1] = "exact"
    <3> DEFINE m == ToolCall(KindOf, d, n - 1, TRUE, "none")
    <3>1. n - 1 \in Tool /\ TRUE \in BOOLEAN /\ "none" \in Contents
      BY <1>0 DEF Tool, Contents
    <3>2. Sound(c, h, m) /\ DOMAIN d.blocks \subseteq DOMAIN m.blocks
      BY <2>1, <3>1, ToolCallSound
    <3>3. Step(d, n) = m
      BY <2>2
    <3> HIDE DEF m, Step
    <3> QED
      BY <2>1, <3>2, <3>3 DEF Called, Sound, Told
  <2>3. CASE run.names[n - 1] # "exact"
    BY <2>1, <2>3 DEF Called
  <2> QED
    BY <2>2, <2>3
<1>2. l \in Called(c, h, l, 0)
  BY DEF Called, Sound, Told
<1>3. \E f : Is(f)
  <2> DEFINE D == [n \in 0..N |-> Called(c, h, l, n)]
             U == LedgerRecord
             G == [p \in LedgerRecord \X (1..N) |-> Step(p[1], p[2])]
  <2>1. \A n \in 1..N : n \in 0..N /\ n - 1 \in 0..N /\ n # 0
    BY <1>0
  <2>2. l \in D[0]
    BY <1>0, <1>2
  <2>3. \A n \in 0..N : D[n] \in SUBSET U
    BY DEF Called
  <2>4. \A n \in 1..N : \A d \in D[n - 1] : d \in U /\ Step(d, n) \in D[n]
    BY <1>1, <2>1
  <2>5. \A n \in 1..N : \A d \in U : G[<<d, n>>] = Step(d, n)
    OBVIOUS
  <2> HIDE DEF D, G, Step, N, U
  <2>6. PICK f \in [0..N -> U] : f[0] = l /\ \A n \in 1..N : f[n] = G[<<f[n - 1], n>>] /\ f[n - 1] \in D[n - 1]
    <3>1. \A n \in 1..N : \A d \in D[n - 1] : G[<<d, n>>] \in D[n]
      BY <2>4, <2>5
    <3>2. Leads(N, U, l, G, D)
      BY <1>0, <2>2, <2>3, <3>1 DEF Leads
    <3> QED
      BY <3>2, RecursionExists
  <2>7. f = [n \in 0..N |-> IF n = 0 THEN l ELSE Step(f[n - 1], n)]
    <3>1. \A n \in 1..N : G[<<f[n - 1], n>>] = Step(f[n - 1], n)
      BY <2>4, <2>5, <2>6
    <3>2. \A n \in 0..N : n = 0 \/ (n # 0 /\ n \in 1..N)
      BY <1>0
    <3> QED
      BY <2>6, <3>1, <3>2
  <2> QED
    BY <2>7
<1>4. Is(F)
  BY <1>3
<1>5. FlushNames(l) = F[N]
  BY DEF FlushNames, EachTool
<1> HIDE DEF F
<1>6. F[0] = l /\ \A n \in 1..N : F[n] = Step(F[n - 1], n)
  <2>1. 0 \in 0..N /\ \A n \in 1..N : n \in 0..N /\ n # 0
    BY <1>0
  <2> QED
    BY <1>4, <2>1
<1> HIDE DEF Step
<1>7. F[N] \in Called(c, h, l, N)
  <2> DEFINE D == [n \in 0..N |-> Called(c, h, l, n)]
  <2>1. F[0] \in D[0]
    BY <1>0, <1>2, <1>6
  <2>2. ASSUME NEW n \in 1..N, F[n - 1] \in D[n - 1] PROVE F[n] \in D[n]
    <3>1. n \in 0..N /\ n - 1 \in 0..N
      BY <1>0
    <3> QED
      BY <2>2, <3>1, <1>1, <1>6
  <2>3. \A n \in 0..N : F[n] \in D[n]
    <3> HIDE DEF D
    <3> QED
      BY <1>0, <2>1, <2>2, Climbs
  <2> QED
    BY <1>0, <2>3
<1> HIDE DEF Is
<1> QED
  BY <1>5, <1>7 DEF Called

\* What deltas lead to: no block is lost or added.
Filled(c, h, l, n) == {d \in LedgerRecord : Sound(c, h, d) /\ DOMAIN d.blocks = DOMAIN l.blocks}

(* Arguments held back until the end are sent to calls that have a block.  *)
LEMMA FlushArgsSound ==
  ASSUME NEW c, NEW h \in Seq(Event), NEW l, Sound(c, h, l), NEW kind
  PROVE  Sound(c, h, FlushArgs(l, kind)) /\ DOMAIN FlushArgs(l, kind).blocks = DOMAIN l.blocks
<1> DEFINE N == NumTools
           Step(d, n) == IF d.tools[n - 1].buffer # "none" /\ KindOf[n - 1] = kind
                         THEN Delta([d EXCEPT !.tools[n - 1].buffer = "none"], d.tools[n - 1].block,
                                    IF kind = "task" THEN "empty" ELSE d.tools[n - 1].buffer)
                         ELSE d
           Is(f) == f = [n \in 0..N |-> IF n = 0 THEN l ELSE Step(f[n - 1], n)]
           F == CHOOSE f : Is(f)
<1>0. N \in Nat
  BY StreamAssumption
<1>1. \A n \in 1..N : \A d \in Filled(c, h, l, n - 1) : d \in LedgerRecord /\ Step(d, n) \in Filled(c, h, l, n)
  <2> SUFFICES ASSUME NEW n \in 1..N, NEW d \in Filled(c, h, l, n - 1)
               PROVE  d \in LedgerRecord /\ Step(d, n) \in Filled(c, h, l, n)
    OBVIOUS
  <2>1. Sound(c, h, d) /\ DOMAIN d.blocks = DOMAIN l.blocks /\ d \in LedgerRecord
    BY DEF Filled
  <2>2. CASE d.tools[n - 1].buffer # "none" /\ KindOf[n - 1] = kind
    <3> DEFINE t == n - 1
               x == IF kind = "task" THEN "empty" ELSE d.tools[t].buffer
               k == [d EXCEPT !.tools[t].buffer = "none"]
               r == [d.tools[t] EXCEPT !.buffer = "none"]
               m == Delta(k, d.tools[t].block, x)
    <3>1. Step(d, n) = m
      BY <2>2
    <3>2. t \in Tool
      BY <1>0 DEF Tool
    <3>3. k = [d EXCEPT !.tools = [d.tools EXCEPT ![t] = r]]
      OBVIOUS
    <3> HIDE DEF Step, t, m, k
    <3>4. d.tools[t] \in ToolRecord
      BY <2>1, <3>2, LedgerTyped
    <3>5. x \in Contents
      BY <3>4 DEF ToolRecord, Contents
    <3>6. r \in ToolRecord /\ r.block = d.tools[t].block /\ (r.buffer # "none" => r.block # 0)
      BY <3>4 DEF ToolRecord, Contents
    <3> HIDE DEF r, x
    <3>7. Sound(c, h, k) /\ k.blocks = d.blocks /\ \A u \in Tool : k.tools[u].block = d.tools[u].block
      BY <2>1, <3>2, <3>3, <3>6, Noted
    <3>8. d.tools[t].block # 0
      BY <2>1, <2>2, <3>2 DEF Sound, Formed, t
    <3>9. m = Delta(k, k.tools[t].block, x) /\ k.tools[t].block # 0
      BY <3>2, <3>7, <3>8 DEF m
    <3>10. Sound(c, h, m) /\ Written(k, m)
      BY <3>2, <3>5, <3>7, <3>9, DeltaSound
    <3> QED
      BY <2>1, <3>1, <3>7, <3>10 DEF Filled, Sound, Told, Written
  <2>3. CASE ~(d.tools[n - 1].buffer # "none" /\ KindOf[n - 1] = kind)
    BY <2>1, <2>3 DEF Filled
  <2> QED
    BY <2>2, <2>3
<1>2. l \in Filled(c, h, l, 0)
  BY DEF Filled, Sound, Told
<1>3. \E f : Is(f)
  <2> DEFINE D == [n \in 0..N |-> Filled(c, h, l, n)]
             U == LedgerRecord
             G == [p \in LedgerRecord \X (1..N) |-> Step(p[1], p[2])]
  <2>1. \A n \in 1..N : n \in 0..N /\ n - 1 \in 0..N /\ n # 0
    BY <1>0
  <2>2. l \in D[0]
    BY <1>0, <1>2
  <2>3. \A n \in 0..N : D[n] \in SUBSET U
    BY DEF Filled
  <2>4. \A n \in 1..N : \A d \in D[n - 1] : d \in U /\ Step(d, n) \in D[n]
    BY <1>1, <2>1
  <2>5. \A n \in 1..N : \A d \in U : G[<<d, n>>] = Step(d, n)
    OBVIOUS
  <2> HIDE DEF D, G, Step, N, U
  <2>6. PICK f \in [0..N -> U] : f[0] = l /\ \A n \in 1..N : f[n] = G[<<f[n - 1], n>>] /\ f[n - 1] \in D[n - 1]
    <3>1. \A n \in 1..N : \A d \in D[n - 1] : G[<<d, n>>] \in D[n]
      BY <2>4, <2>5
    <3>2. Leads(N, U, l, G, D)
      BY <1>0, <2>2, <2>3, <3>1 DEF Leads
    <3> QED
      BY <3>2, RecursionExists
  <2>7. f = [n \in 0..N |-> IF n = 0 THEN l ELSE Step(f[n - 1], n)]
    <3>1. \A n \in 1..N : G[<<f[n - 1], n>>] = Step(f[n - 1], n)
      BY <2>4, <2>5, <2>6
    <3>2. \A n \in 0..N : n = 0 \/ (n # 0 /\ n \in 1..N)
      BY <1>0
    <3> QED
      BY <2>6, <3>1, <3>2
  <2> QED
    BY <2>7
<1>4. Is(F)
  BY <1>3
<1>5. FlushArgs(l, kind) = F[N]
  BY DEF FlushArgs, EachTool
<1> HIDE DEF F
<1>6. F[0] = l /\ \A n \in 1..N : F[n] = Step(F[n - 1], n)
  <2>1. 0 \in 0..N /\ \A n \in 1..N : n \in 0..N /\ n # 0
    BY <1>0
  <2> QED
    BY <1>4, <2>1
<1> HIDE DEF Step
<1>7. F[N] \in Filled(c, h, l, N)
  <2> DEFINE D == [n \in 0..N |-> Filled(c, h, l, n)]
  <2>1. F[0] \in D[0]
    BY <1>0, <1>2, <1>6
  <2>2. ASSUME NEW n \in 1..N, F[n - 1] \in D[n - 1] PROVE F[n] \in D[n]
    <3>1. n \in 0..N /\ n - 1 \in 0..N
      BY <1>0
    <3> QED
      BY <2>2, <3>1, <1>1, <1>6
  <2>3. \A n \in 0..N : F[n] \in D[n]
    <3> HIDE DEF D
    <3> QED
      BY <1>0, <2>1, <2>2, Climbs
  <2> QED
    BY <1>0, <2>3
<1> HIDE DEF Is
<1> QED
  BY <1>5, <1>7 DEF Filled

\* The calls of a continuation, one after the other.
CallsEach(l, calls) ==
  EachTool(LAMBDA acc, t : IF t \in calls THEN ToolCall(Unaliased, acc, t, TRUE, "whole") ELSE acc, l)

(* The complete calls of a continuation are written one after the other.   *)
LEMMA CallsEachSound ==
  ASSUME NEW c, NEW h \in Seq(Event), NEW l, Sound(c, h, l), NEW calls
  PROVE  Sound(c, h, CallsEach(l, calls)) /\ DOMAIN l.blocks \subseteq DOMAIN CallsEach(l, calls).blocks
<1> DEFINE N == NumTools
           Step(d, n) == IF n - 1 \in calls THEN ToolCall(Unaliased, d, n - 1, TRUE, "whole") ELSE d
           Is(f) == f = [n \in 0..N |-> IF n = 0 THEN l ELSE Step(f[n - 1], n)]
           F == CHOOSE f : Is(f)
<1>0. N \in Nat
  BY StreamAssumption
<1>1. \A n \in 1..N : \A d \in Called(c, h, l, n - 1) : d \in LedgerRecord /\ Step(d, n) \in Called(c, h, l, n)
  <2> SUFFICES ASSUME NEW n \in 1..N, NEW d \in Called(c, h, l, n - 1)
               PROVE  d \in LedgerRecord /\ Step(d, n) \in Called(c, h, l, n)
    OBVIOUS
  <2>1. Sound(c, h, d) /\ DOMAIN l.blocks \subseteq DOMAIN d.blocks /\ d \in LedgerRecord
    BY DEF Called
  <2>2. CASE n - 1 \in calls
    <3> DEFINE m == ToolCall(Unaliased, d, n - 1, TRUE, "whole")
    <3>1. n - 1 \in Tool /\ TRUE \in BOOLEAN /\ "whole" \in Contents
      BY <1>0 DEF Tool, Contents
    <3>2. Sound(c, h, m) /\ DOMAIN d.blocks \subseteq DOMAIN m.blocks
      BY <2>1, <3>1, ToolCallSound
    <3>3. Step(d, n) = m
      BY <2>2
    <3> HIDE DEF m, Step
    <3> QED
      BY <2>1, <3>2, <3>3 DEF Called, Sound, Told
  <2>3. CASE n - 1 \notin calls
    BY <2>1, <2>3 DEF Called
  <2> QED
    BY <2>2, <2>3
<1>2. l \in Called(c, h, l, 0)
  BY DEF Called, Sound, Told
<1>3. \E f : Is(f)
  <2> DEFINE D == [n \in 0..N |-> Called(c, h, l, n)]
             U == LedgerRecord
             G == [p \in LedgerRecord \X (1..N) |-> Step(p[1], p[2])]
  <2>1. \A n \in 1..N : n \in 0..N /\ n - 1 \in 0..N /\ n # 0
    BY <1>0
  <2>2. l \in D[0]
    BY <1>0, <1>2
  <2>3. \A n \in 0..N : D[n] \in SUBSET U
    BY DEF Called
  <2>4. \A n \in 1..N : \A d \in D[n - 1] : d \in U /\ Step(d, n) \in D[n]
    BY <1>1, <2>1
  <2>5. \A n \in 1..N : \A d \in U : G[<<d, n>>] = Step(d, n)
    OBVIOUS
  <2> HIDE DEF D, G, Step, N, U
  <2>6. PICK f \in [0..N -> U] : f[0] = l /\ \A n \in 1..N : f[n] = G[<<f[n - 1], n>>] /\ f[n - 1] \in D[n - 1]
    <3>1. \A n \in 1..N : \A d \in D[n - 1] : G[<<d, n>>] \in D[n]
      BY <2>4, <2>5
    <3>2. Leads(N, U, l, G, D)
      BY <1>0, <2>2, <2>3, <3>1 DEF Leads
    <3> QED
      BY <3>2, RecursionExists
  <2>7. f = [n \in 0..N |-> IF n = 0 THEN l ELSE Step(f[n - 1], n)]
    <3>1. \A n \in 1..N : G[<<f[n - 1], n>>] = Step(f[n - 1], n)
      BY <2>4, <2>5, <2>6
    <3>2. \A n \in 0..N : n = 0 \/ (n # 0 /\ n \in 1..N)
      BY <1>0
    <3> QED
      BY <2>6, <3>1, <3>2
  <2> QED
    BY <2>7
<1>4. Is(F)
  BY <1>3
<1>5. CallsEach(l, calls) = F[N]
  BY DEF CallsEach, EachTool
<1> HIDE DEF F
<1>6. F[0] = l /\ \A n \in 1..N : F[n] = Step(F[n - 1], n)
  <2>1. 0 \in 0..N /\ \A n \in 1..N : n \in 0..N /\ n # 0
    BY <1>0
  <2> QED
    BY <1>4, <2>1
<1> HIDE DEF Step
<1>7. F[N] \in Called(c, h, l, N)
  <2> DEFINE D == [n \in 0..N |-> Called(c, h, l, n)]
  <2>1. F[0] \in D[0]
    BY <1>0, <1>2, <1>6
  <2>2. ASSUME NEW n \in 1..N, F[n - 1] \in D[n - 1] PROVE F[n] \in D[n]
    <3>1. n \in 0..N /\ n - 1 \in 0..N
      BY <1>0
    <3> QED
      BY <2>2, <3>1, <1>1, <1>6
  <2>3. \A n \in 0..N : F[n] \in D[n]
    <3> HIDE DEF D
    <3> QED
      BY <1>0, <2>1, <2>2, Climbs
  <2> QED
    BY <1>0, <2>3
<1> HIDE DEF Is
<1> QED
  BY <1>5, <1>7 DEF Called

\* Block i is that of a tool call before the nth.
ToolBefore(l, i, n) == \E t \in Tool : t < n /\ l.tools[t].block # 0 /\ i = l.tools[t].block

\* What closing leads to: of the blocks of k, those of the first n calls are closed.
ClosedFrom(c, h, k, n) ==
  {d \in LedgerRecord :
     /\ Told(c, h, d) /\ d.tools = k.tools /\ DOMAIN d.blocks = DOMAIN k.blocks
     /\ \A j \in DOMAIN k.blocks : /\ d.blocks[j].type = k.blocks[j].type
                                   /\ d.blocks[j].content = k.blocks[j].content
                                   /\ d.blocks[j].open <=> k.blocks[j].open /\ ~ToolBefore(k, j, n)}

(* Closing the content blocks and the calls leaves no block open: nothing  *)
(* else was.                                                               *)
LEMMA CloseAllSound ==
  ASSUME NEW c, NEW h \in Seq(Event), NEW l, Sound(c, h, l)
  PROVE  LET m == CloseAll(l)
         IN /\ Told(c, h, m) /\ DOMAIN m.blocks = DOMAIN l.blocks
            /\ \A j \in DOMAIN l.blocks : /\ m.blocks[j].type = l.blocks[j].type
                                          /\ m.blocks[j].content = l.blocks[j].content
                                          /\ ~m.blocks[j].open
<1> DEFINE N == NumTools
           k == CloseContent(l)
           Step(d, n) == IF l.tools[n - 1].block # 0 THEN Stop(d, l.tools[n - 1].block) ELSE d
           Is(f) == f = [n \in 0..N |-> IF n = 0 THEN k ELSE Step(f[n - 1], n)]
           F == CHOOSE f : Is(f)
<1>0. N \in Nat
  BY StreamAssumption
<1>10. /\ Sound(c, h, k) /\ k.thinking = l.thinking /\ k.text = l.text /\ k.tools = l.tools
       /\ DOMAIN k.blocks = DOMAIN l.blocks
       /\ \A j \in DOMAIN l.blocks : /\ k.blocks[j].type = l.blocks[j].type
                                     /\ k.blocks[j].content = l.blocks[j].content
                                     /\ k.blocks[j].open => j \notin {l.thinking, l.text}
  <2>1. Sound(c, h, k) /\ k.thinking = l.thinking /\ k.text = l.text /\ k.tools = l.tools
        /\ DOMAIN k.blocks = DOMAIN l.blocks
    BY CloseContentSound
  <2>2. ASSUME NEW j \in DOMAIN l.blocks
        PROVE  /\ k.blocks[j].type = l.blocks[j].type
               /\ k.blocks[j].content = l.blocks[j].content
               /\ k.blocks[j].open => j \notin {l.thinking, l.text}
    BY CloseContentSound
  <2> HIDE DEF k
  <2> QED
    BY <2>1, <2>2
<1> HIDE DEF k
<1>1. \A n \in 1..N : \A d \in ClosedFrom(c, h, k, n - 1) : d \in LedgerRecord /\ Step(d, n) \in ClosedFrom(c, h, k, n)
  <2> SUFFICES ASSUME NEW n \in 1..N, NEW d \in ClosedFrom(c, h, k, n - 1)
               PROVE  d \in LedgerRecord /\ Step(d, n) \in ClosedFrom(c, h, k, n)
    OBVIOUS
  <2> DEFINE t == n - 1
             i == l.tools[t].block
  <2>1. /\ d \in LedgerRecord /\ Told(c, h, d) /\ d.tools = k.tools /\ DOMAIN d.blocks = DOMAIN k.blocks
        /\ \A j \in DOMAIN k.blocks : /\ d.blocks[j].type = k.blocks[j].type
                                      /\ d.blocks[j].content = k.blocks[j].content
                                      /\ d.blocks[j].open <=> k.blocks[j].open /\ ~ToolBefore(k, j, n - 1)
    BY DEF ClosedFrom
  <2>2. t \in Tool /\ \A u \in Tool : u < n <=> u < t \/ u = t
    BY <1>0 DEF Tool
  <2>3. Step(d, n) = IF i # 0 THEN Stop(d, i) ELSE d
    OBVIOUS
  <2> HIDE DEF Step
  <2>4. \A j : ToolBefore(k, j, n) <=> ToolBefore(k, j, t) \/ (i # 0 /\ j = i)
    BY <1>10, <2>2 DEF ToolBefore
  <2>5. CASE i # 0
    <3> DEFINE m == Stop(d, i)
    <3>1. i \in DOMAIN k.blocks /\ k.blocks[i].open /\ \A u \in Tool : k.tools[u].block = i => u = t
      BY <2>2, <2>5, <1>10 DEF Sound, Formed
    <3>2. ~ToolBefore(k, i, t)
      <4>1. ~(t < t)
        BY <2>2 DEF Tool
      <4> QED
        BY <3>1, <4>1 DEF ToolBefore
    <3>3. i \in DOMAIN d.blocks /\ d.blocks[i].open
      BY <2>1, <3>1, <3>2
    <3> HIDE DEF i
    <3>4. Told(c, h, m) /\ Stopped(d, m, i)
      BY <2>1, <3>3, StopTold
    <3> HIDE DEF m
    <3>5. \A j \in DOMAIN k.blocks : m.blocks[j].open <=> k.blocks[j].open /\ ~ToolBefore(k, j, n)
      BY <2>1, <2>4, <2>5, <3>4 DEF Stopped
    <3>6. m \in ClosedFrom(c, h, k, n)
      BY <2>1, <3>4, <3>5 DEF ClosedFrom, Stopped, Told
    <3> QED
      BY <2>1, <2>3, <2>5, <3>6 DEF m
  <2>6. CASE i = 0
    <3> HIDE DEF i
    <3>1. d \in ClosedFrom(c, h, k, n)
      BY <2>1, <2>4, <2>6 DEF ClosedFrom
    <3> QED
      BY <2>1, <2>3, <2>6, <3>1
  <2> QED
    BY <2>5, <2>6
<1>2. k \in ClosedFrom(c, h, k, 0)
  <2>1. \A j : ~ToolBefore(k, j, 0)
    BY <1>0 DEF ToolBefore, Tool
  <2> QED
    BY <1>10, <2>1 DEF ClosedFrom, Sound, Told
<1>3. \E f : Is(f)
  <2> DEFINE D == [n \in 0..N |-> ClosedFrom(c, h, k, n)]
             U == LedgerRecord
             G == [p \in LedgerRecord \X (1..N) |-> Step(p[1], p[2])]
  <2>1. \A n \in 1..N : n \in 0..N /\ n - 1 \in 0..N /\ n # 0
    BY <1>0
  <2>2. k \in D[0]
    BY <1>0, <1>2
  <2>3. \A n \in 0..N : D[n] \in SUBSET U
    BY DEF ClosedFrom
  <2>4. \A n \in 1..N : \A d \in D[n - 1] : d \in U /\ Step(d, n) \in D[n]
    BY <1>1, <2>1
  <2>5. \A n \in 1..N : \A d \in U : G[<<d, n>>] = Step(d, n)
    OBVIOUS
  <2> HIDE DEF D, G, Step, N, U
  <2>6. PICK f \in [0..N -> U] : f[0] = k /\ \A n \in 1..N : f[n] = G[<<f[n - 1], n>>] /\ f[n - 1] \in D[n - 1]
    <3>1. \A n \in 1..N : \A d \in D[n - 1] : G[<<d, n>>] \in D[n]
      BY <2>4, <2>5
    <3>2. Leads(N, U, k, G, D)
      BY <1>0, <2>2, <2>3, <3>1 DEF Leads
    <3> QED
      BY <3>2, RecursionExists
  <2>7. f = [n \in 0..N |-> IF n = 0 THEN k ELSE Step(f[n - 1], n)]
    <3>1. \A n \in 1..N : G[<<f[n - 1], n>>] = Step(f[n - 1], n)
      BY <2>4, <2>5, <2>6
    <3>2. \A n \in 0..N : n = 0 \/ (n # 0 /\ n \in 1..N)
      BY <1>0
    <3> QED
      BY <2>6, <3>1, <3>2
  <2> QED
    BY <2>7
<1>4. Is(F)
  BY <1>3
<1>5. CloseAll(l) = F[N]
  BY DEF CloseAll, EachTool, k
<1> HIDE DEF F
<1>6. F[0] = k /\ \A n \in 1..N : F[n] = Step(F[n - 1], n)
  <2>1. 0 \in 0..N /\ \A n \in 1..N : n \in 0..N /\ n # 0
    BY <1>0
  <2> QED
    BY <1>4, <2>1
<1> HIDE DEF Step
<1>7. F[N] \in ClosedFrom(c, h, k, N)
  <2> DEFINE D == [n \in 0..N |-> ClosedFrom(c, h, k, n)]
  <2>1. F[0] \in D[0]
    BY <1>0, <1>2, <1>6
  <2>2. ASSUME NEW n \in 1..N, F[n - 1] \in D[n - 1] PROVE F[n] \in D[n]
    <3>1. n \in 0..N /\ n - 1 \in 0..N
      BY <1>0
    <3> QED
      BY <2>2, <3>1, <1>1, <1>6
  <2>3. \A n \in 0..N : F[n] \in D[n]
    <3> HIDE DEF D
    <3> QED
      BY <1>0, <2>1, <2>2, Climbs
  <2> QED
    BY <1>0, <2>3
<1> HIDE DEF Is
<1> DEFINE m == F[N]
<1>12. /\ Told(c, h, m) /\ DOMAIN m.blocks = DOMAIN l.blocks
       /\ \A j \in DOMAIN l.blocks : m.blocks[j].type = l.blocks[j].type /\ m.blocks[j].content = l.blocks[j].content
  BY <1>7, <1>10 DEF ClosedFrom
<1>13. \A j \in DOMAIN l.blocks : ~m.blocks[j].open
  <2> SUFFICES ASSUME NEW j \in DOMAIN l.blocks, m.blocks[j].open PROVE FALSE
    OBVIOUS
  <2>1. k.blocks[j].open /\ ~ToolBefore(k, j, N)
    BY <1>7, <1>10 DEF ClosedFrom
  <2>2. j = k.thinking \/ j = k.text \/ \E t \in Tool : j = k.tools[t].block
    BY <1>10, <2>1 DEF Sound, Formed
  <2>3. PICK t \in Tool : j = k.tools[t].block
    BY <1>10, <2>1, <2>2
  <2>4. t < N /\ j # 0
    <3>1. j # 0
      BY <1>10, LedgerTyped DEF Sound, Told
    <3> QED
      BY <1>0, <3>1 DEF Tool
  <2> QED
    BY <2>1, <2>3, <2>4 DEF ToolBefore
<1> HIDE DEF m
<1> QED
  BY <1>5, <1>12, <1>13 DEF m

-----------------------------------------------------------------------------
(* The end of a message, and its failure.                                  *)

\* All blocks are closed, and are otherwise what they were.
Closed(l, m) ==
  /\ DOMAIN m.blocks = DOMAIN l.blocks
  /\ \A j \in DOMAIN l.blocks : /\ m.blocks[j].type = l.blocks[j].type
                                /\ m.blocks[j].content = l.blocks[j].content
                                /\ ~m.blocks[j].open

(* A ledger with other events.                                             *)
LEMMA OutSet ==
  ASSUME NEW l \in LedgerRecord, NEW o \in Seq(Event)
  PROVE  LET m == [l EXCEPT !.out = o]
         IN /\ m \in LedgerRecord /\ m.blocks = l.blocks /\ m.out = o /\ m.thinking = l.thinking /\ m.text = l.text
            /\ m.tools = l.tools
BY DEF LedgerRecord

(* A ledger with one more event.                                           *)
LEMMA TellSet ==
  ASSUME NEW l \in LedgerRecord, NEW e \in Event
  PROVE  Tell(l, e) \in LedgerRecord /\ Tell(l, e).blocks = l.blocks /\ Tell(l, e).out = Append(l.out, e)
<1>1. Append(l.out, e) \in Seq(Event)
  BY LedgerTyped
<1> DEFINE o == Append(l.out, e)
<1> HIDE DEF o
<1>2. LET m == [l EXCEPT !.out = o]
      IN m \in LedgerRecord /\ m.blocks = l.blocks /\ m.out = o
  BY <1>1, OutSet DEF o
<1>3. Tell(l, e) = [l EXCEPT !.out = o]
  BY DEF Tell, o
<1> QED
  BY <1>2, <1>3 DEF o

(* The client of a ledger that is completed has all its blocks, closed,    *)
(* and knows that it is over.                                              *)
LEMMA CompletesSound ==
  ASSUME NEW c, NEW h \in Seq(Event), NEW l, Sound(c, h, l), DOMAIN l.blocks # {}, NEW reason \in {"tool_use", "end_turn"}
  PROVE  LET m == Completes(l, reason)
         IN m \in LedgerRecord /\ View(c, h, m) = ClientOf(m, "stopped") /\ Closed(l, m)
<1> DEFINE k == CloseAll(l)
           e == <<"message_delta", reason>>
           f == <<"message_stop">>
           s == Tell(k, e)
           m == Tell(s, f)
<1>1. Told(c, h, k) /\ Closed(l, k)
  <2>1. Told(c, h, k) /\ DOMAIN k.blocks = DOMAIN l.blocks
    BY CloseAllSound
  <2>2. \A j \in DOMAIN l.blocks : /\ k.blocks[j].type = l.blocks[j].type
                                  /\ k.blocks[j].content = l.blocks[j].content
                                  /\ ~k.blocks[j].open
    BY CloseAllSound
  <2> HIDE DEF k
  <2> QED
    BY <2>1, <2>2 DEF Closed
<1>2. Completes(l, reason) = m
  BY DEF Completes
<1> HIDE DEF k
<1>3. k \in LedgerRecord /\ View(c, h, k) = ClientOf(k, "no") /\ k.out \in Seq(Event)
  BY <1>1, LedgerTyped DEF Told
<1>4. e \in Event /\ f \in Event /\ e[1] = "message_delta" /\ f[1] = "message_stop"
  BY Events
<1> HIDE DEF e, f
<1>5. /\ s \in LedgerRecord /\ s.blocks = k.blocks /\ s.out = Append(k.out, e) /\ s.out \in Seq(Event)
  BY <1>3, <1>4, TellSet, LedgerTyped
<1> HIDE DEF s
<1>6. /\ m \in LedgerRecord /\ m.blocks = k.blocks /\ m.out = Append(s.out, f)
  BY <1>4, <1>5, TellSet
<1> HIDE DEF m
<1> DEFINE d == ClientOf(k, "no")
<1>7. d.started = 1 /\ d.over = "no" /\ d.blocks = k.blocks
  BY DEF ClientOf
<1>8. View(c, h, s) = d
  <2>1. View(c, h, s) = See(d, e)
    BY <1>3, <1>4, <1>5, ViewNext
  <2>2. Lawful(d, e)
    BY <1>4, <1>7 DEF Lawful
  <2> HIDE DEF d
  <2> QED
    BY <1>4, <2>1, <2>2 DEF See
<1>9. View(c, h, m) = See(d, f)
  <2> HIDE DEF d
  <2>0. m.out = Append(s.out, f) /\ s.out \in Seq(Event) /\ f \in Event
    BY <1>4, <1>5, <1>6
  <2>1. View(c, h, m) = See(View(c, h, s), f)
    BY <2>0, ViewNext
  <2> QED
    BY <2>1, <1>8
<1>10. Lawful(d, f)
  <2>1. \A j \in DOMAIN k.blocks : ~k.blocks[j].open
    BY <1>1 DEF Closed
  <2>2. k.blocks # <<>>
    BY <1>1 DEF Closed
  <2> HIDE DEF d
  <2> QED
    BY <2>1, <2>2, <1>4, <1>7 DEF Lawful
<1>11. See(d, f) = [d EXCEPT !.over = "stopped"]
  <2> HIDE DEF d
  <2> QED
    BY <1>4, <1>10 DEF See
<1>12. [d EXCEPT !.over = "stopped"] = ClientOf(m, "stopped")
  <2> DEFINE no == FALSE
             x == [started |-> 1, blocks |-> k.blocks, bad |-> no, over |-> "no"]
  <2>1. d = x /\ ClientOf(m, "stopped") = [started |-> 1, blocks |-> k.blocks, bad |-> no, over |-> "stopped"]
    BY <1>6 DEF ClientOf
  <2> HIDE DEF d, no
  <2>2. [x EXCEPT !.over = "stopped"] = [started |-> 1, blocks |-> k.blocks, bad |-> no, over |-> "stopped"]
    OBVIOUS
  <2> QED
    BY <2>1, <2>2
<1>13. Closed(l, m)
  BY <1>1, <1>6 DEF Closed
<1> QED
  BY <1>2, <1>6, <1>9, <1>11, <1>12, <1>13

(* A client that knows all of a ledger knows which blocks are open.        *)
LEMMA ToldShaded ==
  ASSUME NEW c, NEW h, NEW l, Told(c, h, l)
  PROVE  Shaded(c, h, l)
<1> DEFINE d == ClientOf(l, "no")
<1>1. l \in LedgerRecord /\ View(c, h, l) = d
  BY DEF Told
<1>2. d \in ClientRecord /\ d.started = 1 /\ ~d.bad /\ d.over = "no" /\ d.blocks = l.blocks
  BY <1>1, LedgerTyped DEF ClientOf, ClientRecord
<1> HIDE DEF d
<1> QED
  BY <1>1, <1>2 DEF Shaded

(* Blocks of which one is closed are blocks.                               *)
LEMMA StoppedTyped ==
  ASSUME NEW b \in Seq(BlockRecord), NEW i \in DOMAIN b
  PROVE  [b EXCEPT ![i].open = FALSE] \in Seq(BlockRecord) /\ Len([b EXCEPT ![i].open = FALSE]) = Len(b)
<1> DEFINE r == [b[i] EXCEPT !.open = FALSE]
<1>1. b[i] \in BlockRecord
  BY Entry
<1>2. r \in BlockRecord
  BY <1>1 DEF BlockRecord
<1> HIDE DEF r
<1>3. [b EXCEPT ![i] = r] \in Seq(BlockRecord) /\ Len([b EXCEPT ![i] = r]) = Len(b)
  BY <1>2
<1>4. [b EXCEPT ![i].open = FALSE] = [b EXCEPT ![i] = r]
  BY DEF r
<1> QED
  BY <1>3, <1>4

(* A ledger with a block closed, field by field.                           *)
LEMMA StopShape ==
  ASSUME NEW l \in LedgerRecord, NEW i
  PROVE  Stop(l, i) = [blocks |-> [l.blocks EXCEPT ![i].open = FALSE], thinking |-> l.thinking, text |-> l.text,
                       tools |-> l.tools, out |-> Append(l.out, <<"stop", i>>)]
<1> DEFINE m == Stop(l, i)
           b == [l.blocks EXCEPT ![i].open = FALSE]
           e == <<"stop", i>>
           t == [l EXCEPT !.out = Append(l.out, e)]
<1>1. t.blocks = l.blocks
  BY LedgerFields
<1>2. [t EXCEPT !.blocks = b] =
        [blocks |-> b, thinking |-> l.thinking, text |-> l.text, tools |-> l.tools, out |-> Append(l.out, e)]
  BY LedgerFields
<1>3. m = [t EXCEPT !.blocks = b]
  BY <1>1 DEF Stop, Tell
<1> QED
  BY <1>2, <1>3

(* Closing a block that the client knows to be open is lawful, whatever    *)
(* was written to it.                                                      *)
LEMMA StopShaded ==
  ASSUME NEW c, NEW h \in Seq(Event), NEW l, Shaded(c, h, l), NEW i \in DOMAIN l.blocks, l.blocks[i].open
  PROVE  Shaded(c, h, Stop(l, i)) /\ Stopped(l, Stop(l, i), i)
<1> DEFINE d == View(c, h, l)
           e == <<"stop", i>>
           b == [l.blocks EXCEPT ![i].open = FALSE]
           o == Append(l.out, e)
           m == Stop(l, i)
           a == [d.blocks EXCEPT ![i].open = FALSE]
           x == [d EXCEPT !.blocks = a]
<1>1. /\ l \in LedgerRecord /\ d \in ClientRecord /\ d.started = 1 /\ ~d.bad /\ d.over = "no"
      /\ Len(d.blocks) = Len(l.blocks)
      /\ \A j \in DOMAIN l.blocks : d.blocks[j].open = l.blocks[j].open
  BY DEF Shaded
<1>2. l.blocks \in Seq(BlockRecord) /\ l.out \in Seq(Event) /\ i \in Nat /\ d.blocks \in Seq(BlockRecord)
  <2>1. d.blocks \in Seq(BlockRecord)
    BY <1>1 DEF ClientRecord
  <2> QED
    BY <1>1, <2>1, LedgerTyped
<1>3. e \in Event /\ e[1] = "stop" /\ e[2] = i
  BY <1>2, Events
<1>4. m = [blocks |-> b, thinking |-> l.thinking, text |-> l.text, tools |-> l.tools, out |-> o]
  BY <1>1, StopShape
<1>5. /\ DOMAIN b = DOMAIN l.blocks /\ b \in Seq(BlockRecord) /\ Len(b) = Len(l.blocks)
      /\ \A j \in DOMAIN l.blocks : /\ b[j].type = l.blocks[j].type /\ b[j].content = l.blocks[j].content
                                    /\ b[j].open <=> l.blocks[j].open /\ j # i
  <2>1. b \in Seq(BlockRecord) /\ Len(b) = Len(l.blocks)
    BY <1>2, StoppedTyped
  <2> QED
    BY <1>2, <2>1, BlocksStopped
<1>6. i \in DOMAIN d.blocks /\ d.blocks[i].open /\ DOMAIN d.blocks = DOMAIN l.blocks
  <2> HIDE DEF d
  <2> QED
    BY <1>1, <1>2
<1>7. /\ a \in Seq(BlockRecord) /\ Len(a) = Len(d.blocks)
      /\ \A j \in DOMAIN d.blocks : a[j].open <=> d.blocks[j].open /\ j # i
  <2> HIDE DEF d
  <2>1. a \in Seq(BlockRecord) /\ Len(a) = Len(d.blocks)
    BY <1>2, <1>6, StoppedTyped
  <2> QED
    BY <1>2, <1>6, <2>1, BlocksStopped
<1> HIDE DEF b, o, m
<1>8. m.out = o /\ m.blocks = b /\ m.thinking = l.thinking /\ m.text = l.text /\ m.tools = l.tools
  BY <1>4
<1>9. m \in LedgerRecord
  <2>1. o \in Seq(Event)
    BY <1>2, <1>3 DEF o
  <2> QED
    BY <1>1, <1>4, <1>5, <2>1, LedgerTyped DEF LedgerRecord
<1> HIDE DEF d, e
<1>10. View(c, h, m) = See(d, e)
  <2>1. View(c, h, m) = See(View(c, h, l), e)
    BY <1>2, <1>3, <1>8, ViewNext DEF o
  <2> QED
    BY <2>1 DEF d
<1>11. Lawful(d, e)
  BY <1>1, <1>3, <1>6 DEF Lawful, OpenAt
<1>12. See(d, e) = x
  BY <1>3, <1>11 DEF See
<1> HIDE DEF a
<1>13. x \in ClientRecord /\ x.started = 1 /\ ~x.bad /\ x.over = "no" /\ x.blocks = a
  BY <1>1, <1>7 DEF ClientRecord
<1> HIDE DEF x
<1>14. \A j \in DOMAIN m.blocks : x.blocks[j].open = m.blocks[j].open
  <2> SUFFICES ASSUME NEW j \in DOMAIN l.blocks PROVE a[j].open = b[j].open
    BY <1>5, <1>8, <1>13
  <2>1. a[j].open <=> b[j].open
    BY <1>1, <1>5, <1>6, <1>7
  <2>2. a[j] \in BlockRecord /\ b[j] \in BlockRecord
    BY <1>1, <1>2, <1>5, <1>7
  <2> QED
    BY <2>1, <2>2 DEF BlockRecord
<1>15. Shaded(c, h, m)
  BY <1>1, <1>5, <1>7, <1>8, <1>9, <1>10, <1>12, <1>13, <1>14 DEF Shaded
<1>16. Stopped(l, m, i)
  BY <1>5, <1>8 DEF Stopped
<1> QED
  BY <1>15, <1>16 DEF m

\* What closing leads to: the last n blocks are closed.
ClosedTo(c, h, l, n) ==
  {d \in LedgerRecord : /\ Shaded(c, h, d) /\ DOMAIN d.blocks = DOMAIN l.blocks
                        /\ \A j \in DOMAIN l.blocks : j + n > Len(l.blocks) => ~d.blocks[j].open}

(* Once the blocks are closed from the last to the first, none is open,    *)
(* for the client either (close_unclosed_blocks).                          *)
LEMMA CloseUnclosedShaded ==
  ASSUME NEW c, NEW h \in Seq(Event), NEW l, Shaded(c, h, l)
  PROVE  LET m == CloseUnclosed(l)
         IN Shaded(c, h, m) /\ \A j \in DOMAIN m.blocks : ~m.blocks[j].open
<1> DEFINE N == Len(l.blocks)
           Step(d, n) == StopIf(d, N + 1 - n)
           Is(f) == f = [n \in 0..N |-> IF n = 0 THEN l ELSE Step(f[n - 1], n)]
           F == CHOOSE f : Is(f)
<1>0. N \in Nat
  BY LedgerTyped DEF Shaded
<1>10. l \in LedgerRecord /\ DOMAIN l.blocks = 1..N
  <2>1. l \in LedgerRecord /\ l.blocks \in Seq(BlockRecord)
    BY LedgerTyped DEF Shaded
  <2> QED
    BY <2>1
<1>1. \A n \in 1..N : \A d \in ClosedTo(c, h, l, n - 1) : d \in LedgerRecord /\ Step(d, n) \in ClosedTo(c, h, l, n)
  <2> SUFFICES ASSUME NEW n \in 1..N, NEW d \in ClosedTo(c, h, l, n - 1)
               PROVE  d \in LedgerRecord /\ Step(d, n) \in ClosedTo(c, h, l, n)
    OBVIOUS
  <2> DEFINE i == N + 1 - n
  <2>1. /\ d \in LedgerRecord /\ Shaded(c, h, d) /\ DOMAIN d.blocks = DOMAIN l.blocks
        /\ \A j \in DOMAIN l.blocks : j + (n - 1) > N => ~d.blocks[j].open
    BY DEF ClosedTo
  <2>2. i \in 1..N /\ i # 0
    BY <1>0
  <2>3. \A j \in 1..N : j + n > N => j + (n - 1) > N \/ j = i
    BY <1>0
  <2>4. Step(d, n) = IF d.blocks[i].open THEN Stop(d, i) ELSE d
    BY <2>2 DEF StopIf, IsOpen
  <2> HIDE DEF Step, i, N
  <2>5. CASE d.blocks[i].open
    <3> DEFINE m == Stop(d, i)
    <3>1. i \in DOMAIN d.blocks
      BY <1>10, <2>1, <2>2
    <3>2. Shaded(c, h, m) /\ Stopped(d, m, i)
      BY <2>1, <2>5, <3>1, StopShaded
    <3> HIDE DEF m
    <3>3. \A j \in DOMAIN l.blocks : j + n > N => ~m.blocks[j].open
      BY <1>10, <2>1, <2>3, <3>2 DEF Stopped
    <3>4. m \in ClosedTo(c, h, l, n)
      BY <2>1, <3>2, <3>3 DEF ClosedTo, Stopped, Shaded, N
    <3> QED
      BY <2>1, <2>4, <2>5, <3>4 DEF m
  <2>6. CASE ~d.blocks[i].open
    <3>1. \A j \in DOMAIN l.blocks : j + n > N => ~d.blocks[j].open
      BY <1>10, <2>1, <2>3, <2>6
    <3> QED
      BY <2>1, <2>4, <2>6, <3>1 DEF ClosedTo, N
  <2> QED
    BY <2>5, <2>6
<1>2. l \in ClosedTo(c, h, l, 0)
  BY <1>0, <1>10 DEF ClosedTo
<1>3. \E f : Is(f)
  <2> DEFINE D == [n \in 0..N |-> ClosedTo(c, h, l, n)]
             U == LedgerRecord
             G == [p \in LedgerRecord \X (1..N) |-> Step(p[1], p[2])]
  <2>1. \A n \in 1..N : n \in 0..N /\ n - 1 \in 0..N /\ n # 0
    BY <1>0
  <2>2. l \in D[0]
    BY <1>0, <1>2
  <2>3. \A n \in 0..N : D[n] \in SUBSET U
    BY DEF ClosedTo
  <2>4. \A n \in 1..N : \A d \in D[n - 1] : d \in U /\ Step(d, n) \in D[n]
    BY <1>1, <2>1
  <2>5. \A n \in 1..N : \A d \in U : G[<<d, n>>] = Step(d, n)
    OBVIOUS
  <2> HIDE DEF D, G, Step, N, U
  <2>6. PICK f \in [0..N -> U] : f[0] = l /\ \A n \in 1..N : f[n] = G[<<f[n - 1], n>>] /\ f[n - 1] \in D[n - 1]
    <3>1. \A n \in 1..N : \A d \in D[n - 1] : G[<<d, n>>] \in D[n]
      BY <2>4, <2>5
    <3>2. Leads(N, U, l, G, D)
      BY <1>0, <2>2, <2>3, <3>1 DEF Leads
    <3> QED
      BY <3>2, RecursionExists
  <2>7. f = [n \in 0..N |-> IF n = 0 THEN l ELSE Step(f[n - 1], n)]
    <3>1. \A n \in 1..N : G[<<f[n - 1], n>>] = Step(f[n - 1], n)
      BY <2>4, <2>5, <2>6
    <3>2. \A n \in 0..N : n = 0 \/ (n # 0 /\ n \in 1..N)
      BY <1>0
    <3> QED
      BY <2>6, <3>1, <3>2
  <2> QED
    BY <2>7
<1>4. Is(F)
  BY <1>3
<1>5. CloseUnclosed(l) = F[N]
  BY DEF CloseUnclosed
<1> HIDE DEF F
<1>6. F[0] = l /\ \A n \in 1..N : F[n] = Step(F[n - 1], n)
  <2>1. 0 \in 0..N /\ \A n \in 1..N : n \in 0..N /\ n # 0
    BY <1>0
  <2> QED
    BY <1>4, <2>1
<1> HIDE DEF Step
<1>7. F[N] \in ClosedTo(c, h, l, N)
  <2> DEFINE D == [n \in 0..N |-> ClosedTo(c, h, l, n)]
  <2>1. F[0] \in D[0]
    BY <1>0, <1>2, <1>6
  <2>2. ASSUME NEW n \in 1..N, F[n - 1] \in D[n - 1] PROVE F[n] \in D[n]
    <3>1. n \in 0..N /\ n - 1 \in 0..N
      BY <1>0
    <3> QED
      BY <2>2, <3>1, <1>1, <1>6
  <2>3. \A n \in 0..N : F[n] \in D[n]
    <3> HIDE DEF D
    <3> QED
      BY <1>0, <2>1, <2>2, Climbs
  <2>4. N \in 0..N
    BY <1>0
  <2> HIDE DEF N
  <2> QED
    BY <2>3, <2>4
<1> HIDE DEF Is
<1> DEFINE m == F[N]
<1>12. Shaded(c, h, m) /\ \A j \in DOMAIN m.blocks : ~m.blocks[j].open
  <2>1. \A j \in 1..N : j + N > N
    BY <1>0
  <2> QED
    BY <1>7, <1>10, <2>1 DEF ClosedTo
<1> HIDE DEF m
<1> QED
  BY <1>5, <1>12 DEF m

(* So the error that follows is lawful, and ends the message.              *)
LEMMA ErrorTold ==
  ASSUME NEW c, NEW h \in Seq(Event), NEW l, Shaded(c, h, l)
  PROVE  LET m == CloseUnclosed(l)
             d == Receives(c, Append(h \o m.out, <<"error">>))
         IN m \in LedgerRecord /\ d \in ClientRecord /\ d.started = 1 /\ ~d.bad /\ d.over = "error"
<1> DEFINE m == CloseUnclosed(l)
           e == <<"error">>
           v == View(c, h, m)
           d == Receives(c, Append(h \o m.out, e))
<1>1. Shaded(c, h, m) /\ \A j \in DOMAIN m.blocks : ~m.blocks[j].open
  BY CloseUnclosedShaded
<1> HIDE DEF m
<1>2. /\ m \in LedgerRecord /\ v \in ClientRecord /\ v.started = 1 /\ ~v.bad /\ v.over = "no"
      /\ Len(v.blocks) = Len(m.blocks)
      /\ \A j \in DOMAIN m.blocks : v.blocks[j].open = m.blocks[j].open
  BY <1>1 DEF Shaded
<1>3. m.out \in Seq(Event) /\ m.blocks \in Seq(BlockRecord) /\ v.blocks \in Seq(BlockRecord)
  <2>1. v.blocks \in Seq(BlockRecord)
    BY <1>2 DEF ClientRecord
  <2> QED
    BY <1>2, <2>1, LedgerTyped
<1>4. d = See(v, e)
  <2>1. h \o m.out \in Seq(Event)
    BY <1>3
  <2>2. e \in Event
    BY Events
  <2> HIDE DEF e
  <2> QED
    BY <2>1, <2>2, ReceivesOne DEF View
<1> HIDE DEF v, d
<1>5. Lawful(v, e)
  <2>1. DOMAIN v.blocks = DOMAIN m.blocks
    BY <1>2, <1>3
  <2> QED
    BY <1>1, <1>2, <2>1 DEF Lawful
<1>6. d = [v EXCEPT !.over = "error"]
  BY <1>4, <1>5 DEF See
<1>7. d \in ClientRecord /\ d.started = 1 /\ ~d.bad /\ d.over = "error"
  BY <1>2, <1>6 DEF ClientRecord
<1> QED
  BY <1>2, <1>7 DEF d, m

-----------------------------------------------------------------------------
(* The steps of the runner.                                                *)

(* How a ledger is formed does not depend on its events.                   *)
LEMMA FormedSame ==
  ASSUME NEW l, Formed(l), NEW m, m.blocks = l.blocks, m.thinking = l.thinking, m.text = l.text, m.tools = l.tools
  PROVE  Formed(m)
BY DEF Formed

(* A ledger whose events are all held or sent has none to take back.       *)
LEMMA UnsentShaded ==
  ASSUME NEW c, NEW h, NEW l, Told(c, h, l), l.out = <<>>
  PROVE  Shaded(c, h, Unsent(l))
<1>1. /\ l \in LedgerRecord /\ <<>> \in Seq(Event)
  BY DEF Told
<1>2. Unsent(l) \in LedgerRecord /\ Unsent(l).blocks = l.blocks /\ Unsent(l).out = l.out
  BY <1>1, OutSet DEF Unsent
<1>3. Told(c, h, Unsent(l))
  BY <1>2, Relabelled
<1> QED
  BY <1>3, ToldShaded

\* What holds of a message that is being written.
Running(c, hd, l) ==
  /\ l \in LedgerRecord /\ hd \in HoldRecord /\ c \in ClientRecord
  /\ hd.committed => hd.events = <<>>
  /\ ~hd.committed => c = NewClient
  /\ Sound(c, hd.events, l)

(* Held or sent, the events of a step are not lost, and none of them stays *)
(* in the ledger (RecoveryHoldbackBuffer.push).                            *)
LEMMA PushKept ==
  ASSUME NEW l, Running(client, hold, l), NEW due \in BOOLEAN, Push(l, due)
  PROVE  Running(client', hold', ledger') /\ ledger'.out = <<>>
<1> DEFINE all == hold.events \o l.out
           d == ClientOf(l, "no")
<1>1. /\ l \in LedgerRecord /\ hold \in HoldRecord /\ client \in ClientRecord
      /\ hold.committed => hold.events = <<>>
      /\ ~hold.committed => client = NewClient
      /\ Receives(client, all) = d /\ Formed(l)
  BY DEF Running, Sound, Told, View
<1>2. all \in Seq(Event) /\ all \o <<>> = all /\ <<>> \in Seq(Event) /\ <<>> \o <<>> = <<>>
  BY <1>1, LedgerTyped DEF HoldRecord
<1> HIDE DEF all
<1>3. ledger' = [l EXCEPT !.out = <<>>]
  BY DEF Push
<1>4. /\ ledger' \in LedgerRecord /\ ledger'.blocks = l.blocks /\ ledger'.out = <<>>
      /\ ledger'.thinking = l.thinking /\ ledger'.text = l.text /\ ledger'.tools = l.tools
  BY <1>1, <1>2, <1>3, OutSet
<1>5. Formed(ledger') /\ ClientOf(ledger', "no") = d
  BY <1>1, <1>4, FormedSame DEF ClientOf
<1>6. CASE hold.committed \/ (due /\ l.out # <<>>)
  <2>1. client' = d /\ hold' = [events |-> <<>>, committed |-> TRUE]
    BY <1>1, <1>6 DEF Push, all
  <2>2. hold' \in HoldRecord /\ hold'.events = <<>> /\ hold'.committed
    BY <1>2, <2>1 DEF HoldRecord
  <2>3. d \in ClientRecord
    BY <1>1, LedgerTyped DEF ClientOf, ClientRecord
  <2> HIDE DEF d
  <2>4. View(client', hold'.events, ledger') = d
    BY <1>2, <1>4, <2>1, <2>2, ReceivesNone DEF View
  <2> QED
    BY <1>4, <1>5, <2>1, <2>2, <2>3, <2>4 DEF Running, Sound, Told
<1>7. CASE ~(hold.committed \/ (due /\ l.out # <<>>))
  <2>1. client' = client /\ hold' = [hold EXCEPT !.events = all]
    BY <1>7 DEF Push, all
  <2>2. hold' \in HoldRecord /\ hold'.events = all /\ ~hold'.committed
    BY <1>1, <1>2, <1>7, <2>1 DEF HoldRecord
  <2> HIDE DEF d
  <2>3. View(client', hold'.events, ledger') = d
    BY <1>1, <1>2, <1>4, <2>1, <2>2 DEF View
  <2> QED
    BY <1>1, <1>4, <1>5, <1>7, <2>1, <2>2, <2>3 DEF Running, Sound, Told
<1> QED
  BY <1>6, <1>7

(* While it streams or recovers, a message is being written.               *)
LEMMA RunningOf ==
  ASSUME StreamInv, run.phase \in {"streaming", "recovering"}
  PROVE  Running(client, hold, ledger) /\ ~run.recovered
BY DEF StreamInv, StreamInvOf, Running

\* The message goes on.
LEMMA StreamsOn ==
  ASSUME NEW c, NEW hd, NEW l, NEW r, Running(c, hd, l), l.out = <<>>, r \in RunRecord, r.phase = "streaming", ~r.recovered
  PROVE  StreamInvOf(c, hd, l, r)
<1>1. Shaded(c, hd.events, Unsent(l))
  BY UnsentShaded DEF Running, Sound
<1> QED
  BY <1>1 DEF StreamInvOf, Running

(* What the parts of a run are.                                            *)
LEMMA RunTyped ==
  ASSUME NEW r \in RunRecord
  PROVE  /\ r.phase \in {"opening", "streaming", "recovering", "done", "failed"} /\ r.attempts \in Nat /\ r.chunks \in Nat
         /\ r.reasoning \in BOOLEAN /\ r.error \in {"none", "cut", "protocol", "fatal"} /\ r.recovered \in BOOLEAN
         /\ r.finish \in BOOLEAN /\ r.left \in Found
         /\ r.names \in [Tool -> {"none", "partial", "exact"}] /\ r.sent \in [Tool -> Contents]
BY DEF RunRecord

(* A chunk that leaves a sound ledger is pushed, and the stream goes on.   *)
LEMMA ChunkKept ==
  ASSUME StreamInv, NEW l, NEW r \in RunRecord, Running(client, hold, l), r.phase = "streaming", ~r.recovered, Chunk(l, r)
  PROVE  StreamInv'
<1>1. PICK due \in BOOLEAN : Push(l, due)
  BY DEF Chunk
<1>2. Running(client', hold', ledger') /\ ledger'.out = <<>>
  BY <1>1, PushKept
<1>3. run' = [r EXCEPT !.chunks = run.chunks + 1] \/ run' = [r EXCEPT !.chunks = @ + 1]
  BY DEF Chunk
<1>4. r.chunks \in Nat /\ run.chunks \in Nat
  BY RunTyped DEF StreamInv, StreamInvOf
<1>5. run' \in RunRecord /\ run'.phase = "streaming" /\ ~run'.recovered
  <2>1. PICK n \in Nat : run' = [r EXCEPT !.chunks = n]
    BY <1>3, <1>4
  <2> QED
    BY <2>1 DEF RunRecord
<1>6. StreamInv'
  BY <1>2, <1>5, StreamsOn DEF StreamInv
<1> QED
  BY <1>6

(* What a request starts with.                                             *)
LEMMA NewTyped == NewLedger \in LedgerRecord /\ NewHold \in HoldRecord /\ NewClient \in ClientRecord /\ Formed(NewLedger)
<1>1. NewTool \in ToolRecord
  BY DEF NewTool, ToolRecord, Contents
<1>2. NewLedger \in LedgerRecord
  BY <1>1 DEF NewLedger, LedgerRecord
<1>3. NewHold \in HoldRecord /\ NewClient \in ClientRecord
  BY DEF NewHold, HoldRecord, NewClient, ClientRecord
<1>4. /\ NewLedger.thinking = 0 /\ NewLedger.text = 0 /\ NewLedger.blocks = <<>>
      /\ \A t \in Tool : NewLedger.tools[t].block = 0 /\ NewLedger.tools[t].buffer = "none"
  BY DEF NewLedger, NewTool
<1>5. Formed(NewLedger)
  BY <1>4 DEF Formed
<1> QED
  BY <1>2, <1>3, <1>5

(* A request that starts has sent nothing.                                 *)
LEMMA StreamStarts == StreamInit => StreamInv
<1> SUFFICES ASSUME StreamInit PROVE StreamInv
  OBVIOUS
<1>1. ledger = NewLedger /\ hold = NewHold /\ client = NewClient
  BY DEF StreamInit
<1>2. run \in RunRecord /\ run.phase = "opening" /\ ~run.recovered
  <2>1. NoneYet \in [Tool -> {"none", "partial", "exact"}] /\ NoneYet \in [Tool -> Contents] /\ "nothing" \in Found
    BY DEF NoneYet, Contents, Found
  <2> QED
    BY <2>1 DEF StreamInit, RunRecord
<1>3. hold.committed => hold.events = <<>>
  BY <1>1 DEF NewHold
<1> QED
  BY <1>1, <1>2, <1>3, NewTyped DEF StreamInv, StreamInvOf

(* The first event of a message is its start.                              *)
LEMMA OpensKept ==
  ASSUME StreamInv, NEW n \in 1..MaxAttempts, Opens(n)
  PROVE  StreamInv'
<1> DEFINE e == <<"message_start">>
           l == Tell(ledger, e)
<1>1. /\ run.phase = "opening" /\ ledger = NewLedger /\ hold = NewHold /\ client = NewClient /\ run \in RunRecord
      /\ ~run.recovered
  BY DEF StreamInv, StreamInvOf, Opens
<1>2. n \in Nat
  BY StreamAssumption
<1>3. run' \in RunRecord /\ run'.phase = "streaming" /\ ~run'.recovered
  <2>1. run' = [run EXCEPT !.phase = "streaming", !.attempts = @ + n]
    BY DEF Opens
  <2>2. run.attempts + n \in Nat
    BY <1>1, <1>2, RunTyped
  <2> QED
    BY <1>1, <2>1, <2>2 DEF RunRecord
<1>4. Push(l, FALSE)
  BY DEF Opens
<1>5. e \in Event /\ e[1] = "message_start"
  BY Events
<1> HIDE DEF e
<1>6. /\ l \in LedgerRecord /\ l.blocks = <<>> /\ l.out = <<e>>
      /\ l.thinking = NewLedger.thinking /\ l.text = NewLedger.text /\ l.tools = NewLedger.tools
  <2>1. l = [blocks |-> <<>>, thinking |-> 0, text |-> 0, tools |-> [t \in Tool |-> NewTool], out |-> <<e>>]
    BY <1>1 DEF Tell, NewLedger
  <2>2. l \in LedgerRecord
    BY <1>1, <1>5, NewTyped, TellSet
  <2> HIDE DEF l
  <2> QED
    BY <2>1, <2>2 DEF NewLedger
<1> HIDE DEF l
<1>7. Formed(l)
  BY <1>6, NewTyped, FormedSame DEF NewLedger
<1>8. View(client, hold.events, l) = ClientOf(l, "no")
  <2>1. hold.events \o l.out = Append(<<>>, e) /\ <<>> \in Seq(Event)
    BY <1>1, <1>6 DEF NewHold
  <2>2. Receives(client, Append(<<>>, e)) = See(client, e)
    <3>1. Receives(client, Append(<<>>, e)) = See(Receives(client, <<>>), e)
      BY <1>5, <2>1, ReceivesOne
    <3>2. Receives(client, <<>>) = client
      BY ReceivesNone
    <3> QED
      BY <3>1, <3>2
  <2>3. See(client, e) = [started |-> 1, blocks |-> <<>>, bad |-> FALSE, over |-> "no"]
    <3>1. Lawful(client, e)
      BY <1>1, <1>5 DEF Lawful, NewClient
    <3>2. See(client, e) = [client EXCEPT !.started = 1]
      BY <1>5, <3>1 DEF See
    <3> DEFINE no == FALSE
    <3>3. client = [started |-> 0, blocks |-> <<>>, bad |-> no, over |-> "no"]
      BY <1>1 DEF NewClient
    <3> HIDE DEF no
    <3>4. [client EXCEPT !.started = 1] = [started |-> 1, blocks |-> <<>>, bad |-> no, over |-> "no"]
      BY <3>3
    <3> QED
      BY <3>2, <3>4 DEF no
  <2> QED
    BY <1>6, <2>1, <2>2, <2>3 DEF View, ClientOf
<1>9. Running(client, hold, l)
  <2>1. hold.committed => hold.events = <<>>
    BY <1>1 DEF NewHold
  <2> QED
    BY <1>1, <1>6, <1>7, <1>8, <2>1, NewTyped DEF Running, Sound, Told
<1>10. Running(client', hold', ledger') /\ ledger'.out = <<>>
  <2>1. FALSE \in BOOLEAN
    OBVIOUS
  <2> QED
    BY <1>4, <1>9, <2>1, PushKept
<1>11. StreamInv'
  BY <1>3, <1>10, StreamsOn DEF StreamInv
<1> QED
  BY <1>11

\* A ledger that is sound can take the place of the one there is.
LEMMA RunningWith ==
  ASSUME NEW l, Running(client, hold, l), NEW m, Sound(client, hold.events, m)
  PROVE  Running(client, hold, m)
BY DEF Running, Sound, Told

(* Reasoning that arrives is thinking that is said.                        *)
LEMMA ReasonsKept ==
  ASSUME StreamInv, NEW words \in BOOLEAN, Reasons(words)
  PROVE  StreamInv'
<1> DEFINE l == IF ~run.reasoning THEN ledger ELSE IF words THEN Thinks(ledger) ELSE EnsureThinking(ledger)
<1>1. Chunk(l, run)
  BY DEF Reasons
<1>2. run.phase = "streaming" /\ run \in RunRecord
  BY <1>1 DEF Chunk, StreamInv, StreamInvOf
<1>3. Running(client, hold, ledger) /\ ~run.recovered
  BY <1>2, RunningOf
<1>4. Sound(client, hold.events, ledger) /\ hold.events \in Seq(Event)
  BY <1>3 DEF Running, HoldRecord
<1>5. Sound(client, hold.events, l)
  BY <1>4, ThinksSound, EnsureThinkingSound
<1> HIDE DEF l
<1>6. Running(client, hold, l)
  BY <1>3, <1>5, RunningWith
<1> QED
  BY <1>1, <1>2, <1>3, <1>6, ChunkKept

(* What the parsers found keeps a ledger sound.                            *)
LEMMA PutSound ==
  ASSUME NEW c, NEW h \in Seq(Event), NEW l, Sound(c, h, l), NEW found
  PROVE  Sound(c, h, Put(l, found))
<1>1. Sound(c, h, Thinks(l))
  BY ThinksSound
<1>2. Sound(c, h, Says(l))
  BY SaysSound
<1>3. Sound(c, h, TextTool(l))
  BY TextToolSound
<1> QED
  BY <1>1, <1>2, <1>3 DEF Put

(* Content that arrives is thinking, text or a tool call.                  *)
LEMMA ContentKept ==
  ASSUME StreamInv, NEW found \in Found, NEW left \in Found, Content(found, left)
  PROVE  StreamInv'
<1> DEFINE l == Put(ledger, found)
           r == [run EXCEPT !.left = left]
<1>1. Chunk(l, r)
  BY DEF Content
<1>2. run.phase = "streaming" /\ run \in RunRecord
  BY <1>1 DEF Chunk, StreamInv, StreamInvOf
<1>3. Running(client, hold, ledger) /\ ~run.recovered
  BY <1>2, RunningOf
<1>4. Sound(client, hold.events, ledger) /\ hold.events \in Seq(Event)
  BY <1>3 DEF Running, HoldRecord
<1>5. Sound(client, hold.events, l)
  BY <1>4, PutSound
<1> HIDE DEF l
<1>6. Running(client, hold, l)
  BY <1>3, <1>5, RunningWith
<1>7. r \in RunRecord /\ r.phase = "streaming" /\ ~r.recovered
  BY <1>2, <1>3 DEF RunRecord
<1> HIDE DEF r
<1> QED
  BY <1>1, <1>6, <1>7, ChunkKept

(* A piece of a tool call arrives after the content blocks were closed.    *)
LEMMA CallsKept ==
  ASSUME StreamInv, NEW t \in Tool, NEW name \in {"none", "partial", "exact", "full"}, NEW piece \in Contents,
         Calls(t, name, piece)
  PROVE  StreamInv'
<1> DEFINE k == CloseContent(ledger)
           b == (name = "full")
           l == ToolCall(KindOf, k, t, b, piece)
           x == Join(run.sent[t], piece)
           y == CASE name = "none" -> run.names[t] [] name = "full" -> "none" [] OTHER -> name
           r == [run EXCEPT !.sent[t] = x, !.names[t] = y]
<1>1. run.phase = "streaming" /\ run \in RunRecord
  BY DEF Calls, Chunk, StreamInv, StreamInvOf
<1>2. run.sent \in [Tool -> Contents] /\ run.names \in [Tool -> {"none", "partial", "exact"}]
  BY <1>1, RunTyped
<1>3. Chunk(l, r)
  BY DEF Calls
<1>4. x \in Contents /\ y \in {"none", "partial", "exact"}
  BY <1>2, JoinTyped
<1> HIDE DEF x, y
<1>5. r \in RunRecord /\ r.phase = "streaming" /\ r.recovered = run.recovered
  <2> DEFINE f == [run.sent EXCEPT ![t] = x]
             g == [run.names EXCEPT ![t] = y]
  <2>1. f \in [Tool -> Contents] /\ g \in [Tool -> {"none", "partial", "exact"}]
    BY <1>2, <1>4
  <2>2. r = [run EXCEPT !.sent = f, !.names = g]
    BY <1>1 DEF RunRecord
  <2> HIDE DEF f, g, r
  <2> QED
    BY <1>1, <2>1, <2>2 DEF RunRecord
<1> HIDE DEF r
<1>6. Running(client, hold, ledger) /\ ~run.recovered
  BY <1>1, RunningOf
<1>7. Sound(client, hold.events, ledger) /\ hold.events \in Seq(Event)
  BY <1>6 DEF Running, HoldRecord
<1>8. Sound(client, hold.events, k)
  BY <1>7, CloseContentSound
<1>9. b \in BOOLEAN
  OBVIOUS
<1> HIDE DEF k, b
<1>10. Sound(client, hold.events, l)
  BY <1>7, <1>8, <1>9, ToolCallSound
<1> HIDE DEF l
<1>11. Running(client, hold, l)
  BY <1>6, <1>10, RunningWith
<1> QED
  BY <1>3, <1>5, <1>6, <1>11, ChunkKept

(* A finish reason changes nothing that was written.                       *)
LEMMA FinishesKept ==
  ASSUME StreamInv, Finishes
  PROVE  StreamInv'
<1>1. run' = [run EXCEPT !.finish = TRUE] /\ ledger' = ledger /\ hold' = hold /\ client' = client
      /\ run.phase = "streaming" /\ run \in RunRecord /\ ledger.out = <<>>
  BY DEF Finishes, StreamInv, StreamInvOf
<1>2. Running(client, hold, ledger) /\ ~run.recovered
  BY <1>1, RunningOf
<1>3. run' \in RunRecord /\ run'.phase = "streaming" /\ ~run'.recovered
  BY <1>1, <1>2 DEF RunRecord
<1>4. Running(client', hold', ledger') /\ ledger'.out = <<>>
  BY <1>1, <1>2
<1>5. StreamInv'
  BY <1>3, <1>4, StreamsOn DEF StreamInv
<1> QED
  BY <1>5

\* The message is completed.
LEMMA DoneKept ==
  ASSUME NEW l, Running(client, hold, l), DOMAIN l.blocks # {}, NEW reason \in {"tool_use", "end_turn"},
         NEW m, m = Completes(l, reason),
         ledger' = [m EXCEPT !.out = <<>>],
         client' = Receives(client, hold.events \o m.out),
         hold' = [events |-> <<>>, committed |-> TRUE],
         run' \in RunRecord, run'.phase = "done",
         run'.recovered /\ run'.error = "cut" => ToolsWhole(l)
  PROVE  StreamInv'
<1>1. Sound(client, hold.events, l) /\ hold.events \in Seq(Event)
  BY DEF Running, HoldRecord
<1>2. m \in LedgerRecord /\ View(client, hold.events, m) = ClientOf(m, "stopped") /\ Closed(l, m)
  BY <1>1, CompletesSound
<1>3. <<>> \in Seq(Event)
  OBVIOUS
<1>4. ledger' \in LedgerRecord /\ ledger'.blocks = m.blocks
  BY <1>2, <1>3, OutSet
<1>5. client' = ClientOf(ledger', "stopped")
  BY <1>2, <1>4 DEF View, ClientOf
<1>6. client' \in ClientRecord
  <2>1. ledger'.blocks \in Seq(BlockRecord)
    BY <1>4 DEF LedgerRecord
  <2>2. \A b \in Seq(BlockRecord) : [started |-> 1, blocks |-> b, bad |-> FALSE, over |-> "stopped"] \in ClientRecord
    BY DEF ClientRecord
  <2> QED
    BY <1>5, <2>1, <2>2 DEF ClientOf
<1>7. hold' \in HoldRecord /\ hold'.events = <<>>
  BY <1>3 DEF HoldRecord
<1>8. ToolsWhole(l) => ToolsWhole(ledger')
  BY <1>2, <1>4 DEF ToolsWhole, ToolBlocks, Closed
<1>9. StreamInvOf(client', hold', ledger', run')
  BY <1>4, <1>5, <1>6, <1>7, <1>8 DEF StreamInvOf
<1> QED
  BY <1>9 DEF StreamInv

(* Where something was generated there is a block.                         *)
LEMMA SomeBlock ==
  ASSUME NEW l, Formed(l), Generated(l)
  PROVE  DOMAIN l.blocks # {}
BY DEF Formed, Generated, HasTool, ToolBlocks

(* At the end everything held back is written, and something always is.    *)
LEMMA EndsKept ==
  ASSUME StreamInv, Ends
  PROVE  StreamInv'
<1> DEFINE h == hold.events
           parsed == Put(ledger, run.left)
           named == FlushNames(parsed)
           silent == \/ ~Generated(named)
                     \/ ~HasTool(named) /\ ~HasWords(named, "text") /\ HasWords(named, "thinking")
           filled == IF silent THEN Says(named) ELSE named
           aliases == FlushAliases(filled)
           args == FlushTasks(aliases)
           all == Completes(args, StopReason(args))
<1>1. /\ run.phase = "streaming"
      /\ ledger' = [all EXCEPT !.out = <<>>]
      /\ client' = Receives(client, hold.events \o all.out)
      /\ hold' = [events |-> <<>>, committed |-> TRUE]
      /\ run' = [run EXCEPT !.phase = "done"]
  BY DEF Ends
<1>2. run \in RunRecord /\ Running(client, hold, ledger) /\ ~run.recovered
  BY <1>1, RunningOf DEF StreamInv, StreamInvOf
<1>3. Sound(client, h, ledger) /\ h \in Seq(Event)
  BY <1>2 DEF Running, HoldRecord
<1>4. run' \in RunRecord /\ run'.phase = "done" /\ ~run'.recovered
  BY <1>1, <1>2 DEF RunRecord
<1> HIDE DEF all
<1>5. Sound(client, h, parsed)
  BY <1>3, PutSound
<1> HIDE DEF parsed
<1>6. Sound(client, h, named)
  BY <1>3, <1>5, FlushNamesSound
<1> HIDE DEF named
<1>7. Sound(client, h, filled) /\ DOMAIN filled.blocks # {}
  <2>1. CASE silent
    <3>1. filled = Says(named)
      BY <2>1
    <3> HIDE DEF filled
    <3> QED
      BY <1>3, <1>6, <3>1, SaysSound
  <2>2. CASE ~silent
    <3>1. filled = named /\ Generated(named)
      BY <2>2
    <3> HIDE DEF filled
    <3> QED
      BY <1>6, <3>1, SomeBlock DEF Sound
  <2> HIDE DEF silent
  <2> QED
    BY <2>1, <2>2
<1> HIDE DEF filled
<1>8. Sound(client, h, aliases) /\ DOMAIN aliases.blocks = DOMAIN filled.blocks
  BY <1>3, <1>7, FlushArgsSound DEF FlushAliases
<1> HIDE DEF aliases
<1>9. Sound(client, h, args) /\ DOMAIN args.blocks = DOMAIN aliases.blocks
  BY <1>3, <1>8, FlushArgsSound DEF FlushTasks
<1>10. all = Completes(args, StopReason(args)) /\ StopReason(args) \in {"tool_use", "end_turn"}
  BY DEF all, StopReason
<1> HIDE DEF args
<1>11. Running(client, hold, args)
  BY <1>2, <1>9, RunningWith
<1> QED
  BY <1>1, <1>4, <1>7, <1>8, <1>9, <1>10, <1>11, DoneKept

(* A client that has seen something is told of the failure, and another    *)
(* one nothing.                                                            *)
LEMMA BreaksKept ==
  ASSUME NEW l \in LedgerRecord, hold \in HoldRecord, client \in ClientRecord, run \in RunRecord, ~run.recovered,
         ~hold.committed => client = NewClient,
         NEW due \in BOOLEAN,
         hold.committed \/ due \/ Salvageable(l) => Shaded(client, hold.events, l),
         Breaks(l, due)
  PROVE  StreamInv'
<1> DEFINE seen == hold.committed \/ (due /\ l.out # <<>>) \/ Salvageable(l)
           m == CloseUnclosed(l)
<1>1. /\ run' = [run EXCEPT !.phase = "failed"]
      /\ ledger' = [IF seen THEN m ELSE l EXCEPT !.out = <<>>]
      /\ hold' = [events |-> <<>>, committed |-> seen]
      /\ client' = IF seen THEN Receives(client, Append(hold.events \o m.out, <<"error">>)) ELSE client
  BY DEF Breaks
<1>2. run' \in RunRecord /\ run'.phase = "failed" /\ ~run'.recovered
  BY <1>1 DEF RunRecord
<1>3. <<>> \in Seq(Event) /\ seen \in BOOLEAN /\ hold.events \in Seq(Event)
  BY DEF HoldRecord, Salvageable, HasTool
<1>4. hold' \in HoldRecord /\ hold'.events = <<>>
  <2> HIDE DEF seen
  <2> QED
    BY <1>1, <1>3 DEF HoldRecord
<1>5. ledger' \in LedgerRecord /\ client' \in ClientRecord /\ ~client'.bad
      /\ client'.over = (IF client'.started = 0 THEN "no" ELSE "error")
  <2>1. CASE seen
    <3>1. Shaded(client, hold.events, l)
      BY <2>1
    <3>2. /\ m \in LedgerRecord
          /\ ledger' = [m EXCEPT !.out = <<>>]
          /\ client' \in ClientRecord /\ client'.started = 1 /\ ~client'.bad /\ client'.over = "error"
      BY <1>1, <1>3, <2>1, <3>1, ErrorTold
    <3> HIDE DEF m, seen
    <3>3. ledger' \in LedgerRecord
      BY <1>3, <3>2, OutSet
    <3> QED
      BY <3>2, <3>3
  <2>2. CASE ~seen
    <3>1. ledger' = [l EXCEPT !.out = <<>>] /\ client' = NewClient
      BY <1>1, <2>2
    <3>2. ledger' \in LedgerRecord
      BY <1>3, <3>1, OutSet
    <3>3. client' \in ClientRecord
      BY <3>1, NewTyped
    <3>4. ~client'.bad /\ client'.over = "no" /\ client'.started = 0
      BY <3>1 DEF NewClient
    <3> QED
      BY <3>2, <3>3, <3>4
  <2> HIDE DEF seen
  <2> QED
    BY <2>1, <2>2
<1>6. StreamInvOf(client', hold', ledger', run')
  BY <1>2, <1>4, <1>5 DEF StreamInvOf
<1> QED
  BY <1>6 DEF StreamInv

(* Before the stream is open nothing can have been seen.                   *)
LEMMA OpenFailsKept ==
  ASSUME StreamInv, OpenFails
  PROVE  StreamInv'
<1>1. /\ run.phase = "opening" /\ ledger = NewLedger /\ hold = NewHold /\ client = NewClient /\ run \in RunRecord
      /\ ~run.recovered
  BY DEF StreamInv, StreamInvOf, OpenFails
<1>2. ~hold.committed /\ ~Salvageable(ledger)
  BY <1>1 DEF NewHold, NewLedger, Salvageable, HasTool, ToolBlocks
<1>3. Breaks(ledger, FALSE) /\ FALSE \in BOOLEAN
  BY DEF OpenFails
<1> QED
  BY <1>1, <1>2, <1>3, NewTyped, BreaksKept

(* A failure of a stream is retried unseen, recovered from or reported     *)
(* (advance_failure).                                                      *)
LEMMA HandlesKept ==
  ASSUME StreamInv, run.phase = "streaming", NEW error \in {"cut", "protocol", "fatal"}, Handles(error)
  PROVE  StreamInv'
<1> DEFINE retryable == error # "fatal"
<1>1. /\ run \in RunRecord /\ Running(client, hold, ledger) /\ ~run.recovered
      /\ Shaded(client, hold.events, Unsent(ledger))
  BY RunningOf DEF StreamInv, StreamInvOf
<1>2. /\ ledger \in LedgerRecord /\ hold \in HoldRecord /\ client \in ClientRecord
      /\ hold.committed => hold.events = <<>>
      /\ ~hold.committed => client = NewClient
      /\ Sound(client, hold.events, ledger)
  BY <1>1 DEF Running
<1>3. CASE MayRetry(retryable)
  <2>1. ledger' = NewLedger /\ hold' = NewHold /\ client' = NewClient
        /\ run' = [WithAttempt(run) EXCEPT !.phase = "opening"]
    BY <1>2, <1>3 DEF Handles, MayRetry
  <2>2. run' \in RunRecord /\ run'.phase = "opening" /\ ~run'.recovered
    <3>1. NoneYet \in [Tool -> {"none", "partial", "exact"}] /\ NoneYet \in [Tool -> Contents] /\ "nothing" \in Found
      BY DEF NoneYet, Contents, Found
    <3>2. run' = [run EXCEPT !.phase = "opening", !.finish = FALSE, !.left = "nothing", !.names = NoneYet,
                             !.sent = NoneYet]
      BY <1>1, <2>1 DEF WithAttempt, RunRecord
    <3> QED
      BY <1>1, <3>1, <3>2 DEF RunRecord
  <2>3. hold'.committed => hold'.events = <<>>
    BY <2>1 DEF NewHold
  <2>4. StreamInvOf(client', hold', ledger', run')
    BY <2>1, <2>2, <2>3, NewTyped DEF StreamInvOf
  <2> QED
    BY <2>4 DEF StreamInv
<1>4. CASE ~MayRetry(retryable) /\ MayRecover(retryable)
  <2>1. run' = [run EXCEPT !.phase = "recovering", !.error = error]
        /\ ledger' = ledger /\ hold' = hold /\ client' = client
    BY <1>4 DEF Handles
  <2>2. run' \in RunRecord /\ run'.phase = "recovering" /\ ~run'.recovered
    BY <1>1, <2>1 DEF RunRecord
  <2>3. StreamInvOf(client', hold', ledger', run')
    BY <1>1, <1>2, <2>1, <2>2 DEF StreamInvOf
  <2> QED
    BY <2>3 DEF StreamInv
<1>5. CASE ~MayRetry(retryable) /\ ~MayRecover(retryable)
  <2>1. Breaks(ledger, FALSE) /\ FALSE \in BOOLEAN
    BY <1>5 DEF Handles
  <2>2. Shaded(client, hold.events, ledger)
    BY <1>2, ToldShaded DEF Sound
  <2> QED
    BY <1>1, <1>2, <2>1, <2>2, BreaksKept
<1> HIDE DEF retryable
<1> QED
  BY <1>3, <1>4, <1>5

(* The stream raises.                                                      *)
LEMMA CutKept ==
  ASSUME StreamInv, NEW error \in {"cut", "protocol", "fatal"}, Cut(error)
  PROVE  StreamInv'
BY HandlesKept DEF Cut

(* The stream ends too early.                                              *)
LEMMA RunsOutKept ==
  ASSUME StreamInv, RunsOut
  PROVE  StreamInv'
BY HandlesKept DEF RunsOut

(* A chunk raises after it closed the content blocks.                      *)
LEMMA BadChunkKept ==
  ASSUME StreamInv, NEW due \in BOOLEAN, BadChunk(due)
  PROVE  StreamInv'
<1> DEFINE l == CloseContent(ledger)
<1>1. /\ Running(client, hold, ledger) /\ ~run.recovered /\ run \in RunRecord /\ Breaks(l, due)
  BY RunningOf DEF StreamInv, StreamInvOf, BadChunk
<1>2. /\ hold \in HoldRecord /\ client \in ClientRecord
      /\ ~hold.committed => client = NewClient
      /\ Sound(client, hold.events, ledger) /\ hold.events \in Seq(Event)
  BY <1>1 DEF Running, HoldRecord
<1>3. Sound(client, hold.events, l)
  BY <1>2, CloseContentSound
<1> HIDE DEF l
<1>4. l \in LedgerRecord /\ Shaded(client, hold.events, l)
  BY <1>3, ToldShaded DEF Sound, Told
<1> QED
  BY <1>1, <1>2, <1>4, BreaksKept

(* Recovery takes back what it wrote: what the client knows to be open is  *)
(* still what is.                                                          *)
LEMMA GivesUpKept ==
  ASSUME StreamInv, GivesUp
  PROVE  StreamInv'
<1>1. /\ run \in RunRecord /\ ~run.recovered /\ hold \in HoldRecord /\ client \in ClientRecord
      /\ ~hold.committed => client = NewClient
      /\ Shaded(client, hold.events, Unsent(ledger))
      /\ Breaks(Unsent(ledger), FALSE)
  BY DEF StreamInv, StreamInvOf, GivesUp
<1>2. Unsent(ledger) \in LedgerRecord /\ FALSE \in BOOLEAN
  BY <1>1 DEF Shaded
<1> QED
  BY <1>1, <1>2, BreaksKept

(* A ledger whose tool calls are all whole is completed as it is.          *)
LEMMA SalvagesKept ==
  ASSUME StreamInv, Salvages
  PROVE  StreamInv'
<1> DEFINE m == Completes(ledger, StopReason(ledger))
<1>1. /\ run.phase = "recovering" /\ Salvageable(ledger)
      /\ ledger' = [m EXCEPT !.out = <<>>]
      /\ client' = Receives(client, hold.events \o m.out)
      /\ hold' = [events |-> <<>>, committed |-> TRUE]
      /\ run' = [run EXCEPT !.phase = "done", !.recovered = TRUE]
  BY DEF Salvages, Recovered
<1>2. run \in RunRecord /\ Running(client, hold, ledger)
  BY <1>1, RunningOf DEF StreamInv, StreamInvOf
<1>3. run' \in RunRecord /\ run'.phase = "done"
  BY <1>1, <1>2 DEF RunRecord
<1>4. DOMAIN ledger.blocks # {} /\ ToolsWhole(ledger)
  BY <1>1 DEF Salvageable, HasTool, ToolBlocks
<1>5. StopReason(ledger) \in {"tool_use", "end_turn"}
  BY DEF StopReason
<1>6. m = Completes(ledger, StopReason(ledger))
  OBVIOUS
<1> HIDE DEF m
<1> QED
  BY <1>1, <1>2, <1>3, <1>4, <1>5, <1>6, DoneKept

\* As much was sent, and the same blocks are open.
LEMMA WrittenShaded ==
  ASSUME NEW c, NEW h, NEW l, Shaded(c, h, Unsent(l)), l \in LedgerRecord, NEW m \in LedgerRecord, Written(l, m)
  PROVE  Shaded(c, h, Unsent(m))
<1> DEFINE x == Unsent(l)
           y == Unsent(m)
           d == View(c, h, x)
<1>1. <<>> \in Seq(Event)
  OBVIOUS
<1>2. x.blocks = l.blocks /\ x.out = <<>> /\ x \in LedgerRecord
  BY <1>1, OutSet DEF Unsent
<1>3. y.blocks = m.blocks /\ y.out = <<>> /\ y \in LedgerRecord
  BY <1>1, OutSet DEF Unsent
<1>4. View(c, h, y) = d
  BY <1>2, <1>3, ViewSame
<1>5. /\ d \in ClientRecord /\ d.started = 1 /\ ~d.bad /\ d.over = "no"
      /\ Len(d.blocks) = Len(l.blocks)
      /\ \A i \in DOMAIN l.blocks : d.blocks[i].open = l.blocks[i].open
  BY <1>2 DEF Shaded
<1> HIDE DEF x, y, d
<1>6. l.blocks \in Seq(BlockRecord) /\ m.blocks \in Seq(BlockRecord)
  BY LedgerTyped
<1>7. Len(m.blocks) = Len(l.blocks) /\ DOMAIN m.blocks = DOMAIN l.blocks
  BY <1>6 DEF Written
<1>8. \A i \in DOMAIN m.blocks : m.blocks[i].open = l.blocks[i].open
  <2> SUFFICES ASSUME NEW i \in DOMAIN m.blocks PROVE m.blocks[i].open = l.blocks[i].open
    OBVIOUS
  <2>1. m.blocks[i].open \in BOOLEAN /\ l.blocks[i].open \in BOOLEAN
    <3>1. m.blocks[i] \in BlockRecord /\ l.blocks[i] \in BlockRecord
      BY <1>6, <1>7
    <3> QED
      BY <3>1 DEF BlockRecord
  <2>2. m.blocks[i].open <=> l.blocks[i].open
    BY <1>7 DEF Written
  <2> QED
    BY <2>1, <2>2
<1> QED
  BY <1>3, <1>4, <1>5, <1>7, <1>8 DEF Shaded, y

(* The suffix of a cut tool call is appended to its arguments.             *)
LEMMA RepairsKept ==
  ASSUME StreamInv, NEW t \in Tool, NEW n \in 1..MaxAttempts, Repairs(t, n)
  PROVE  StreamInv'
<1> DEFINE i == ledger.tools[t].block
           x == Suffix(ledger.blocks[i].content)
           m == Delta(ledger, i, x)
<1>1. /\ run.phase = "recovering" /\ t \in Started(ledger)
      /\ ledger' = m
      /\ run' = [run EXCEPT !.attempts = @ + n]
      /\ hold' = hold /\ client' = client
  BY DEF Repairs
<1>2. /\ run \in RunRecord /\ Running(client, hold, ledger) /\ ~run.recovered
      /\ Shaded(client, hold.events, Unsent(ledger))
  BY <1>1, RunningOf DEF StreamInv, StreamInvOf
<1>3. /\ ledger \in LedgerRecord /\ hold \in HoldRecord /\ client \in ClientRecord /\ hold.events \in Seq(Event)
      /\ hold.committed => hold.events = <<>>
      /\ ~hold.committed => client = NewClient
      /\ Sound(client, hold.events, ledger)
  BY <1>2 DEF Running, HoldRecord
<1>4. run' \in RunRecord /\ run'.phase = "recovering" /\ ~run'.recovered
  <2>1. run.attempts + n \in Nat
    BY <1>2, RunTyped, StreamAssumption
  <2> QED
    BY <1>1, <1>2, <2>1 DEF RunRecord
<1>5. ledger.tools[t].block # 0
  BY <1>1 DEF Started
<1>6. x \in Contents
  BY DEF Suffix, Contents
<1> HIDE DEF x
<1>7. Sound(client, hold.events, m) /\ Written(ledger, m)
  BY <1>3, <1>5, <1>6, DeltaSound
<1> HIDE DEF m
<1>8. m \in LedgerRecord
  BY <1>7 DEF Sound, Told
<1>9. Shaded(client, hold.events, Unsent(m))
  BY <1>2, <1>3, <1>7, <1>8, WrittenShaded
<1>10. StreamInvOf(client', hold', ledger', run')
  BY <1>1, <1>3, <1>4, <1>7, <1>8, <1>9 DEF StreamInvOf
<1> QED
  BY <1>10 DEF StreamInv

(* A continuation speaks on; after a cut it calls no tool, and there was   *)
(* none.                                                                   *)
LEMMA ContinuesKept ==
  ASSUME StreamInv, NEW adds \in SUBSET {"thinking", "text"}, NEW calls \in SUBSET Tool, Continues(adds, calls)
  PROVE  StreamInv'
<1> DEFINE h == hold.events
           thought == IF "thinking" \in adds THEN Thinks(ledger) ELSE ledger
           spoken == IF "text" \in adds THEN Says(thought) ELSE thought
           closed == CloseContent(spoken)
           called == CallsEach(closed, calls)
           l == IF calls = {} THEN spoken ELSE called
           m == Completes(l, StopReason(l))
<1>1. /\ run.phase = "recovering" /\ ~HasTool(ledger)
      /\ \E type \in {"text", "thinking"} : HasWords(ledger, type)
      /\ calls # {} => run.error = "protocol"
      /\ Recovered(l)
  BY DEF Continues, CallsEach
<1>2. run \in RunRecord /\ Running(client, hold, ledger)
  BY <1>1, RunningOf DEF StreamInv, StreamInvOf
<1>3. Sound(client, h, ledger) /\ h \in Seq(Event)
  BY <1>2 DEF Running, HoldRecord
<1>4. DOMAIN ledger.blocks # {} /\ ToolBlocks(ledger) = {}
  BY <1>1 DEF HasWords, HasTool
<1>5. /\ ledger' = [m EXCEPT !.out = <<>>]
      /\ client' = Receives(client, hold.events \o m.out)
      /\ hold' = [events |-> <<>>, committed |-> TRUE]
      /\ run' = [run EXCEPT !.phase = "done", !.recovered = TRUE]
  BY <1>1 DEF Recovered
<1> HIDE DEF m
<1>6. Sound(client, h, thought) /\ Spoke(ledger, thought)
  <2>1. Spoke(ledger, ledger)
    BY DEF Spoke
  <2>2. Sound(client, h, Thinks(ledger)) /\ Spoke(ledger, Thinks(ledger))
    BY <1>3, ThinksSound
  <2> QED
    BY <1>3, <2>1, <2>2
<1> HIDE DEF thought
<1>7. Sound(client, h, spoken) /\ Spoke(ledger, spoken)
  <2>1. Sound(client, h, Says(thought)) /\ Spoke(thought, Says(thought))
    BY <1>3, <1>6, SaysSound
  <2>2. Spoke(ledger, Says(thought))
    BY <1>6, <2>1, SpokeTwice
  <2> QED
    BY <1>6, <2>1, <2>2
<1> HIDE DEF spoken
<1>8. DOMAIN spoken.blocks # {} /\ ToolsWhole(spoken)
  <2>1. ToolBlocks(spoken) = {}
    BY <1>4, <1>7 DEF Spoke, ToolBlocks
  <2> QED
    BY <1>4, <1>7, <2>1 DEF Spoke, ToolsWhole
<1>9. Sound(client, h, closed) /\ DOMAIN closed.blocks = DOMAIN spoken.blocks
  <2>1. Sound(client, h, spoken) /\ h \in Seq(Event)
    BY <1>3, <1>7
  <2> HIDE DEF closed, h
  <2>2. Sound(client, h, CloseContent(spoken)) /\ DOMAIN CloseContent(spoken).blocks = DOMAIN spoken.blocks
    BY <2>1, CloseContentSound
  <2> QED
    BY <2>2 DEF closed
<1> HIDE DEF closed
<1>10. Sound(client, h, called) /\ DOMAIN closed.blocks \subseteq DOMAIN called.blocks
  BY <1>3, <1>9, CallsEachSound
<1> HIDE DEF called
<1>11. Sound(client, h, l) /\ DOMAIN l.blocks # {} /\ (run.error = "cut" => ToolsWhole(l))
  BY <1>1, <1>7, <1>8, <1>9, <1>10
<1> HIDE DEF l
<1>12. run' \in RunRecord /\ run'.phase = "done" /\ run'.error = run.error
  BY <1>2, <1>5 DEF RunRecord
<1>13. m = Completes(l, StopReason(l)) /\ StopReason(l) \in {"tool_use", "end_turn"}
  BY DEF m, StopReason
<1>14. Running(client, hold, l)
  BY <1>2, <1>11, RunningWith
<1> QED
  BY <1>5, <1>11, <1>12, <1>13, <1>14, DoneKept

(* Every step of the runner keeps the invariant.                           *)
LEMMA StreamStep == StreamInv /\ [StreamNext]_streamVars => StreamInv'
<1> SUFFICES ASSUME StreamInv, [StreamNext]_streamVars PROVE StreamInv'
  OBVIOUS
<1>1. ASSUME NEW n \in 1..MaxAttempts, Opens(n) PROVE StreamInv'
  BY <1>1, OpensKept
<1>2. ASSUME NEW words \in BOOLEAN, Reasons(words) PROVE StreamInv'
  BY <1>2, ReasonsKept
<1>3. ASSUME NEW found \in Found, NEW left \in Found, Content(found, left) PROVE StreamInv'
  BY <1>3, ContentKept
<1>4. ASSUME NEW t \in Tool, NEW name \in {"none", "partial", "exact", "full"}, NEW piece \in Contents,
             Calls(t, name, piece)
      PROVE  StreamInv'
  BY <1>4, CallsKept
<1>5. CASE Finishes
  BY <1>5, FinishesKept
<1>6. CASE Ends
  BY <1>6, EndsKept
<1>7. CASE OpenFails
  BY <1>7, OpenFailsKept
<1>8. ASSUME NEW error \in {"cut", "protocol", "fatal"}, Cut(error) PROVE StreamInv'
  BY <1>8, CutKept
<1>9. CASE RunsOut
  BY <1>9, RunsOutKept
<1>10. ASSUME NEW due \in BOOLEAN, BadChunk(due) PROVE StreamInv'
  BY <1>10, BadChunkKept
<1>11. CASE Salvages
  BY <1>11, SalvagesKept
<1>12. ASSUME NEW t \in Tool, NEW n \in 1..MaxAttempts, Repairs(t, n) PROVE StreamInv'
  BY <1>12, RepairsKept
<1>13. ASSUME NEW adds \in SUBSET {"thinking", "text"}, NEW calls \in SUBSET Tool, Continues(adds, calls)
       PROVE  StreamInv'
  BY <1>13, ContinuesKept
<1>14. CASE GivesUp
  BY <1>14, GivesUpKept
<1>15. CASE UNCHANGED streamVars
  BY <1>15 DEF streamVars, StreamInv
<1> QED
  BY <1>1, <1>2, <1>3, <1>4, <1>5, <1>6, <1>7, <1>8, <1>9, <1>10, <1>11, <1>12, <1>13, <1>14, <1>15 DEF StreamNext

(* The invariant says of a client all that is claimed.                     *)
LEMMA StreamTells == StreamInv => ClientSeesLedger
<1> SUFFICES ASSUME StreamInv PROVE ClientSeesLedger
  OBVIOUS
<1>1. StreamInvOf(client, hold, ledger, run)
  BY DEF StreamInv
<1>2. hold \in HoldRecord /\ ledger \in LedgerRecord /\ run \in RunRecord
  BY <1>1 DEF StreamInvOf
<1>3. hold.events \in Seq(Event) /\ hold.events \o <<>> = hold.events
  BY <1>2 DEF HoldRecord
<1>4. CASE run.phase = "opening"
  BY <1>1, <1>4 DEF StreamInvOf, ClientSeesLedger, NewClient
<1>5. CASE run.phase \in {"streaming", "recovering"}
  <2>1. /\ hold.committed => hold.events = <<>>
        /\ ~hold.committed => client = NewClient
        /\ Sound(client, hold.events, ledger)
        /\ Shaded(client, hold.events, Unsent(ledger))
    BY <1>1, <1>5 DEF StreamInvOf
  <2>2. ~client.bad
    <3>1. CASE hold.committed
      <4>1. Unsent(ledger).out = <<>>
        BY <1>2, OutSet DEF Unsent
      <4>2. View(client, hold.events, Unsent(ledger)) = client
        BY <1>3, <2>1, <3>1, <4>1, ReceivesNone DEF View
      <4> QED
        BY <2>1, <4>2 DEF Shaded
    <3>2. CASE ~hold.committed
      BY <2>1, <3>2 DEF NewClient
    <3> QED
      BY <3>1, <3>2
  <2>3. run.phase = "streaming" => Receives(client, hold.events).blocks = ledger.blocks
    <3> SUFFICES ASSUME run.phase = "streaming" PROVE Receives(client, hold.events).blocks = ledger.blocks
      OBVIOUS
    <3>1. ledger.out = <<>>
      BY <1>1 DEF StreamInvOf
    <3>2. Receives(client, hold.events) = ClientOf(ledger, "no")
      BY <1>3, <2>1, <3>1 DEF Sound, Told, View
    <3> QED
      BY <3>2 DEF ClientOf
  <2> QED
    BY <1>5, <2>2, <2>3 DEF ClientSeesLedger
<1>6. CASE run.phase = "done"
  <2>1. /\ client = ClientOf(ledger, "stopped") /\ hold.events = <<>>
        /\ run.recovered /\ run.error = "cut" => ToolsWhole(ledger)
    BY <1>1, <1>6 DEF StreamInvOf
  <2>2. ~client.bad /\ client.over = "stopped" /\ client.blocks = ledger.blocks
    BY <2>1 DEF ClientOf
  <2>3. Receives(client, hold.events) = client
    BY <2>1, ReceivesNone
  <2>4. run.recovered /\ run.error = "cut" =>
          \A i \in DOMAIN client.blocks : client.blocks[i].type = "tool_use" => client.blocks[i].content = "whole"
    BY <2>1, <2>2 DEF ToolsWhole, ToolBlocks
  <2> QED
    BY <1>6, <2>2, <2>3, <2>4 DEF ClientSeesLedger
<1>7. CASE run.phase = "failed"
  BY <1>1, <1>7 DEF StreamInvOf, ClientSeesLedger
<1>8. run.phase \in {"opening", "streaming", "recovering", "done", "failed"}
  BY <1>2, RunTyped
<1> QED
  BY <1>4, <1>5, <1>6, <1>7, <1>8

(* For any number of tool calls, of any kind, of attempts and of chunks:   *)
(* the client of a stream that was retried, held back, cut, repaired,      *)
(* continued or given up has of this attempt what the ledger wrote, in one *)
(* well-formed message (_OpenAIChatStreamRunner.run, stream_recovery.py).  *)
THEOREM ClientSees == StreamSpec => []ClientSeesLedger
<1>1. StreamSpec => []StreamInv
  BY StreamStarts, StreamStep, PTL DEF StreamSpec
<1> QED
  BY <1>1, StreamTells, PTL

-----------------------------------------------------------------------------
(* The bridge to a client of the Responses API.                            *)

PieceRecord == [attempt : Nat, item : Nat, k : Nat, last : BOOLEAN]
ItemKind == {"text", "thinking", "sealed", "call", "custom"}
ItemRecord == [kind : ItemKind, sent : Nat, last : BOOLEAN, done : BOOLEAN]
CallRecord == [block : Nat, started : BOOLEAN, received : BOOLEAN, stopped : BOOLEAN]
AdapterRecord == [blocks : Nat, open : {"none", "text", "thinking"}, openBlock : Nat, tools : Seq(CallRecord)]
SlotRecord == [kind : ItemKind, item : Nat, pieces : Seq(PieceRecord), done : Nat]
ActiveRecord == [block : Nat, slot : Nat]
StopWord == {"none", "tool_use", "max_tokens", "end_turn"}
ResponseStatus == {"open", "completed", "incomplete", "failed"}
AssemblerRecord == [started : BOOLEAN, slots : Seq(SlotRecord), active : Seq(ActiveRecord),
                    refused : BOOLEAN, stop : StopWord, status : ResponseStatus]

QuietEvent == [event : {"stop"}, block : Nat] \cup [event : {"reason"}, why : StopWord] \cup [event : {"end"}]
BridgeEvent ==
  QuietEvent \cup [event : {"start"}, block : Nat, kind : ItemKind, item : Nat]
             \cup [event : {"delta"}, block : Nat, piece : PieceRecord]

\* Each active entry is the open slot of its block, and what is done is whole.
Orderly(m) ==
  /\ m \in AssemblerRecord
  /\ \A n \in DOMAIN m.active : /\ m.active[n].slot = m.active[n].block
                                /\ m.active[n].block \in DOMAIN m.slots
                                /\ m.slots[m.active[n].block].done = 0
  /\ \A n, k \in DOMAIN m.active : m.active[n].block = m.active[k].block => n = k
  /\ \A n \in DOMAIN m.slots : /\ m.slots[n].done <= 1
                               /\ (m.slots[n].kind = "call" /\ m.slots[n].done = 1) => Whole(m.slots[n].pieces)
Opened(m) == {m.active[n].block : n \in DOMAIN m.active}

\* An assembler that may take more, and has refused nothing.
Taking(m) == Orderly(m) /\ m.status = "open" /\ m.stop = "none" /\ ~m.refused

\* The adapter's blocks are the assembler's slots; what it has open is open there, the rest is done.
Parts(a) == IF a.open = "none" THEN {} ELSE {a.blocks}
StartedBlocks(a) == {a.tools[i].block : i \in {j \in DOMAIN a.tools : a.tools[j].started}}
Aligned(a, m) ==
  /\ a \in AdapterRecord /\ Taking(m)
  /\ Len(m.slots) = a.blocks
  /\ a.open # "none" => a.openBlock = a.blocks /\ a.blocks > 0 /\ m.slots[a.blocks].kind = a.open
  /\ Opened(m) = Parts(a) \cup StartedBlocks(a)
  /\ \A n \in DOMAIN m.slots : n \notin Opened(m) => m.slots[n].done = 1

\* Each call and each sealed reasoning has its slot, and only such items have one.
Home(slots, i) == {n \in DOMAIN slots : slots[n].item = i}
CallKept(tool, item, home) ==
  /\ tool.block = 0 => item.sent = 0 /\ ~item.last /\ ~item.done /\ home = {}
  /\ tool.block # 0 => home = {tool.block}
  /\ tool.started <=> (tool.block # 0 /\ ~item.done)
  /\ tool.received <=> item.sent > 0
Housed(a, u, m) ==
  /\ u \in Seq(ItemRecord) /\ Len(a.tools) = Len(u)
  /\ \A i \in DOMAIN u :
       IF IsCall(u[i].kind) THEN CallKept(a.tools[i], u[i], Home(m.slots, i))
       ELSE /\ ~a.tools[i].started /\ a.tools[i].block = 0
            /\ IF u[i].kind = "sealed" /\ u[i].done THEN \E n \in DOMAIN m.slots : Home(m.slots, i) = {n}
               ELSE Home(m.slots, i) = {}
  /\ \A n \in DOMAIN m.slots :
       IF m.slots[n].kind \in {"text", "thinking"} THEN m.slots[n].item = 0
       ELSE m.slots[n].item \in DOMAIN u /\ u[m.slots[n].item].kind = m.slots[n].kind

\* The slots hold what was said.
Spoken(u, p, m) ==
  /\ p \in Seq(PieceRecord)
  /\ \A n \in DOMAIN p : p[n].item \in DOMAIN u
  /\ \A kind \in {"text", "thinking"} : GivenBy(m.slots, kind) = PiecesOf(p, ItemsOfKind(u, kind))
  /\ \A n \in DOMAIN m.slots : IsCall(m.slots[n].kind) => m.slots[n].pieces = PiecesOf(p, {m.slots[n].item})
  /\ \A i \in DOMAIN u : IsCall(u[i].kind) =>
       /\ (u[i].sent = 0 /\ ~u[i].done /\ ~u[i].last) => PiecesOf(p, {i}) = <<>>
       /\ u[i].last => Whole(PiecesOf(p, {i}))

Fit(a, u, p, m) == Aligned(a, m) /\ Housed(a, u, m) /\ Spoken(u, p, m)

\* The inductive invariant: the assembler, once it has what is held back, fits.
BridgeInv ==
  /\ attempt \in Nat /\ held \in Seq(BridgeEvent)
  /\ committed \in BOOLEAN
  /\ committed => held = <<>>
  /\ ~committed => assembler = NewAssembler
  /\ upEnd \in {"none", "completed", "incomplete", "failed"}
  /\ upEnd = "none" => Fit(adapter, upstream, said, ProcessAll(assembler, held))
  /\ upEnd # "none" => ResponseIsWhole

-----------------------------------------------------------------------------
(* Sequences: one element removed, parts put together.                     *)

(* Without one of its elements a sequence is one shorter; those after it   *)
(* move up.                                                                *)
LEMMA RemovedAt ==
  ASSUME NEW S, NEW s \in Seq(S), NEW n \in DOMAIN s
  PROVE  /\ RemoveAt(s, n) \in Seq(S)
         /\ Len(RemoveAt(s, n)) = Len(s) - 1
         /\ \A k \in 1..(Len(s) - 1) : RemoveAt(s, n)[k] = IF k < n THEN s[k] ELSE s[k + 1]
<1> DEFINE N == Len(s)
           one == SubSeq(s, 1, n - 1)
           two == SubSeq(s, n + 1, N)
<1>1. N \in Nat /\ n \in 1..N /\ n \in Nat /\ n >= 1 /\ n <= N
  OBVIOUS
<1>2. one \in Seq(S) /\ Len(one) = n - 1 /\ \A k \in 1..(n - 1) : one[k] = s[k]
  BY <1>1
<1>3. two \in Seq(S) /\ Len(two) = N - n /\ \A k \in 1..(N - n) : two[k] = s[n + k]
  BY <1>1
<1>4. RemoveAt(s, n) = one \o two
  BY DEF RemoveAt
<1> HIDE DEF one, two, N
<1>5. (one \o two) \in Seq(S) /\ Len(one \o two) = N - 1
  <2>0. one \in Seq(S) /\ two \in Seq(S)
    BY <1>2, <1>3
  <2>1. (one \o two) \in Seq(S) /\ Len(one \o two) = Len(one) + Len(two)
    BY <2>0
  <2> QED
    BY <2>1, <1>1, <1>2, <1>3
<1>6. ASSUME NEW k \in 1..(N - 1) PROVE (one \o two)[k] = IF k < n THEN s[k] ELSE s[k + 1]
  <2>1. CASE k < n
    <3>1. k \in 1..(n - 1) /\ k \in 1..Len(one)
      BY <2>1, <1>1, <1>2
    <3> QED
      BY <2>1, <3>1, <1>2, <1>3
  <2>2. CASE ~(k < n)
    <3>1. k - (n - 1) \in 1..(N - n) /\ ~(k <= Len(one)) /\ n + (k - (n - 1)) = k + 1
      BY <2>2, <1>1, <1>2
    <3>2. (one \o two)[k] = two[k - (n - 1)]
      <4>1. k \in 1..(Len(one) + Len(two))
        BY <1>1, <1>2, <1>3
      <4>2. (one \o two)[k] = two[k - Len(one)]
        BY <3>1, <4>1, <1>2, <1>3
      <4> QED
        BY <4>2, <1>2
    <3> QED
      BY <2>2, <3>1, <3>2, <1>3
  <2> QED
    BY <2>1, <2>2
<1> QED
  BY <1>4, <1>5, <1>6 DEF N

\* What parts are put together to, one after the other.
Joins(g, s, T) ==
  /\ g \in [0..Len(s) -> Seq(T)]
  /\ g[0] = <<>>
  /\ \A n \in 1..Len(s) : g[n] = g[n - 1] \o s[n]

(* Parts that are put together are so one after the other.                 *)
LEMMA FlatJoins ==
  ASSUME NEW T, NEW s \in Seq(Seq(T))
  PROVE  \E g : Joins(g, s, T) /\ FlattenSeq(s) = g[Len(s)]
<1> DEFINE N == Len(s)
           Step(d, n) == d \o s[n]
           Is(f) == f = [i \in 1..N |-> IF i = 1 THEN s[i] ELSE f[i - 1] \o s[i]]
           F == CHOOSE f : Is(f)
<1>1. N \in Nat /\ \A n \in 1..N : s[n] \in Seq(T)
  OBVIOUS
<1>2. CASE N = 0
  <2> DEFINE g == [n \in 0..N |-> <<>>]
  <2>1. s = <<>>
    BY <1>2
  <2>2. FlattenSeq(s) = <<>>
    BY <2>1, <1>2 DEF FlattenSeq
  <2>3. Joins(g, s, T)
    BY <1>2 DEF Joins
  <2> QED
    BY <2>2, <2>3, <1>2
<1>3. CASE N # 0
  <2>1. \E f : Is(f)
    <3> DEFINE D == [n \in 0..N |-> Seq(T)]
               U == Seq(T)
               G == [p \in U \X (1..N) |-> Step(p[1], p[2])]
    <3>1. \A n \in 1..N : n \in 0..N /\ n - 1 \in 0..N /\ n # 0
      BY <1>1
    <3>2. <<>> \in D[0] /\ \A n \in 0..N : D[n] \in SUBSET U
      BY <1>1
    <3>3. \A n \in 1..N : \A d \in U : Step(d, n) \in U
      BY <1>1
    <3>4. \A n \in 1..N : \A d \in U : G[<<d, n>>] = Step(d, n)
      OBVIOUS
    <3>5. \A n \in 1..N : \A d \in D[n - 1] : G[<<d, n>>] \in D[n]
      BY <3>1, <3>3, <3>4
    <3> HIDE DEF D, G, Step
    <3>6. PICK f \in [0..N -> U] : f[0] = <<>> /\ \A n \in 1..N : f[n] = G[<<f[n - 1], n>>] /\ f[n - 1] \in D[n - 1]
      <4>1. Leads(N, U, <<>>, G, D)
        BY <1>1, <3>2, <3>5 DEF Leads
      <4> HIDE DEF N, U
      <4> QED
        BY <4>1, RecursionExists
    <3>7. \A n \in 1..N : f[n] = f[n - 1] \o s[n]
      <4>1. \A n \in 1..N : f[n - 1] \in U
        BY <3>1, <3>6
      <4> QED
        BY <3>4, <3>6, <4>1 DEF Step
    <3> DEFINE h == [n \in 1..N |-> f[n]]
    <3>8. \A n \in 1..N : h[n] = IF n = 1 THEN s[n] ELSE h[n - 1] \o s[n]
      <4> SUFFICES ASSUME NEW n \in 1..N PROVE h[n] = IF n = 1 THEN s[n] ELSE h[n - 1] \o s[n]
        OBVIOUS
      <4>1. CASE n = 1
        <5>1. f[n] = <<>> \o s[n]
          <6>1. f[n] = f[n - 1] \o s[n]
            BY <3>7
          <6>2. n - 1 = 0
            BY <4>1
          <6> QED
            BY <6>1, <6>2, <3>6
        <5>2. s[n] \in Seq(T)
          BY <1>1
        <5> QED
          BY <4>1, <5>1, <5>2
      <4>2. CASE n # 1
        <5>1. n - 1 \in 1..N
          BY <4>2, <1>1
        <5> QED
          BY <4>2, <5>1, <3>7
      <4> QED
        BY <4>1, <4>2
    <3>9. Is(h)
      <4>1. h = [n \in 1..N |-> h[n]]
        OBVIOUS
      <4> HIDE DEF h
      <4> QED
        BY <3>8, <4>1
    <3> QED
      BY <3>9
  <2>2. Is(F)
    BY <2>1
  <2>3. FlattenSeq(s) = F[N]
    BY <1>3 DEF FlattenSeq
  <2> HIDE DEF F
  <2>4. \A n \in 1..N : F[n] = IF n = 1 THEN s[n] ELSE F[n - 1] \o s[n]
    BY <2>2
  <2> HIDE DEF Is
  <2> DEFINE g == [n \in 0..N |-> IF n = 0 THEN <<>> ELSE F[n]]
             D == [n \in 0..N |-> Seq(T)]
  <2>5. g[0] = <<>> /\ \A n \in 1..N : g[n] = F[n]
    BY <1>1
  <2>6. \A n \in 0..N : g[n] \in D[n]
    <3>1. g[0] \in D[0]
      BY <2>5, <1>1
    <3>2. ASSUME NEW n \in 1..N, g[n - 1] \in D[n - 1] PROVE g[n] \in D[n]
      <4>1. n \in 0..N /\ n - 1 \in 0..N /\ s[n] \in Seq(T)
        BY <1>1
      <4>2. CASE n = 1
        <5>1. g[n] = s[n]
          BY <4>2, <2>4, <2>5
        <5>2. g[n] \in Seq(T)
          BY <4>1, <5>1
        <5>3. D[n] = Seq(T)
          BY <4>1
        <5> HIDE DEF g, D
        <5> QED
          BY <5>2, <5>3
      <4>3. CASE n # 1
        <5>1. n - 1 \in 1..N
          BY <4>3, <1>1
        <5>2. F[n] = g[n - 1] \o s[n] /\ g[n - 1] \in Seq(T)
          BY <5>1, <4>1, <4>3, <2>4, <2>5, <3>2
        <5>3. g[n] \in Seq(T) /\ D[n] = Seq(T)
          <6>1. D[n] = Seq(T)
            BY <4>1
          <6>2. g[n] = g[n - 1] \o s[n]
            BY <5>2, <2>5
          <6> HIDE DEF g, D
          <6> QED
            BY <4>1, <5>2, <6>1, <6>2
        <5> HIDE DEF g, D
        <5> QED
          BY <5>3
      <4> QED
        BY <4>2, <4>3
    <3> HIDE DEF g, D
    <3> QED
      BY <1>1, <3>1, <3>2, Climbs
  <2>7. \A n \in 1..N : g[n] = g[n - 1] \o s[n]
    <3> SUFFICES ASSUME NEW n \in 1..N PROVE g[n] = g[n - 1] \o s[n]
      OBVIOUS
    <3>1. CASE n = 1
      <4>1. n - 1 = 0 /\ g[n - 1] = <<>> /\ s[n] \in Seq(T)
        BY <3>1, <2>5, <1>1
      <4>2. g[n] = s[n]
        BY <3>1, <2>4, <2>5
      <4> HIDE DEF g
      <4> QED
        BY <4>1, <4>2
    <3>2. CASE n # 1
      <4>1. n - 1 \in 1..N
        BY <3>2, <1>1
      <4> HIDE DEF g
      <4> QED
        BY <3>2, <4>1, <2>4, <2>5
    <3> QED
      BY <3>1, <3>2
  <2>8. g \in [0..N -> Seq(T)]
    BY <2>6
  <2>9. FlattenSeq(s) = g[N]
    BY <2>3, <2>5, <1>1, <1>3
  <2> HIDE DEF g
  <2> QED
    BY <2>5, <2>7, <2>8, <2>9 DEF Joins
<1> QED
  BY <1>2, <1>3

(* What is put together is a sequence; nothing, of no parts.               *)
LEMMA FlatTyped ==
  ASSUME NEW T, NEW s \in Seq(Seq(T))
  PROVE  FlattenSeq(s) \in Seq(T) /\ (s = <<>> => FlattenSeq(s) = <<>>)
<1>1. PICK g : Joins(g, s, T) /\ FlattenSeq(s) = g[Len(s)]
  BY FlatJoins
<1>2. Len(s) \in 0..Len(s)
  OBVIOUS
<1> QED
  BY <1>1, <1>2 DEF Joins

(* One more part comes at the end.                                         *)
LEMMA FlatAppend ==
  ASSUME NEW T, NEW s \in Seq(Seq(T)), NEW x \in Seq(T)
  PROVE  FlattenSeq(Append(s, x)) = FlattenSeq(s) \o x
<1> DEFINE N == Len(s)
           t == Append(s, x)
<1>1. N \in Nat /\ t \in Seq(Seq(T)) /\ Len(t) = N + 1 /\ t[N + 1] = x /\ \A n \in 1..N : t[n] = s[n]
  OBVIOUS
<1>2. PICK g : Joins(g, s, T) /\ FlattenSeq(s) = g[N]
  BY FlatJoins
<1> HIDE DEF t
<1>3. PICK h : Joins(h, t, T) /\ FlattenSeq(t) = h[Len(t)]
  BY <1>1, FlatJoins
<1> HIDE DEF N
<1> DEFINE D == [n \in 0..N |-> {g[n]}]
<1>4. h[0] \in D[0]
  BY <1>1, <1>2, <1>3 DEF Joins
<1>5. ASSUME NEW n \in 1..N, h[n - 1] \in D[n - 1] PROVE h[n] \in D[n]
  <2>1. n \in 0..N /\ n - 1 \in 0..N /\ n \in 1..Len(t) /\ t[n] = s[n]
    BY <1>1
  <2> QED
    BY <2>1, <1>5, <1>2, <1>3 DEF Joins, N
<1>6. h[N] = g[N]
  <2>1. N \in 0..N
    BY <1>1
  <2>2. \A n \in 0..N : h[n] \in D[n]
    <3> HIDE DEF D
    <3> QED
      BY <1>1, <1>4, <1>5, Climbs
  <2> QED
    BY <2>1, <2>2
<1>7. h[N + 1] = h[N] \o x
  <2>1. N + 1 \in 1..Len(t) /\ (N + 1) - 1 = N
    BY <1>1
  <2> QED
    BY <2>1, <1>1, <1>3 DEF Joins
<1> QED
  BY <1>1, <1>2, <1>3, <1>6, <1>7 DEF t

(* Parts that are all empty come to nothing.                               *)
LEMMA FlatEmpty ==
  ASSUME NEW T, NEW s \in Seq(Seq(T)), \A n \in 1..Len(s) : s[n] = <<>>
  PROVE  FlattenSeq(s) = <<>>
<1>1. PICK g : Joins(g, s, T) /\ FlattenSeq(s) = g[Len(s)]
  BY FlatJoins
<1> DEFINE N == Len(s)
           D == [n \in 0..N |-> {<<>>}]
<1>2. N \in Nat /\ N \in 0..N /\ <<>> \o <<>> = <<>>
  OBVIOUS
<1>3. g[0] \in D[0]
  BY <1>1, <1>2 DEF Joins
<1>4. ASSUME NEW n \in 1..N, g[n - 1] \in D[n - 1] PROVE g[n] \in D[n]
  <2>1. n \in 0..N /\ n - 1 \in 0..N
    BY <1>2
  <2>2. g[n - 1] = <<>> /\ s[n] = <<>> /\ g[n] = g[n - 1] \o s[n]
    BY <2>1, <1>1, <1>4 DEF Joins
  <2> QED
    BY <2>1, <2>2
<1>5. \A n \in 0..N : g[n] \in D[n]
  <2> HIDE DEF D, N
  <2> QED
    BY <1>2, <1>3, <1>4, Climbs
<1> QED
  BY <1>1, <1>2, <1>5

-----------------------------------------------------------------------------
(* The assembler processes one event after the other.                      *)

\* What the assembler is after each event.
Worked(f, c, ev) == f = [n \in 0..Len(ev) |-> IF n = 0 THEN c ELSE Process(f[n - 1], ev[n])]
WorkedTo(f, c, ev, N) == f = [n \in 0..N |-> IF n = 0 THEN c ELSE Process(f[n - 1], ev[n])]

(* There is an assembler after each of the events.                         *)
LEMMA WorkedExists ==
  ASSUME NEW c, NEW ev
  PROVE  \A N \in Nat : \E f : WorkedTo(f, c, ev, N)
<1> DEFINE Fails == {N \in Nat : ~ \E f : WorkedTo(f, c, ev, N)}
<1> SUFFICES ASSUME Fails # {} PROVE FALSE
  OBVIOUS
<1>1. PICK N \in Fails : \A m \in Fails : N <= m
  <2>1. Fails \in SUBSET Nat
    OBVIOUS
  <2> QED
    BY <2>1, LeastNumber
<1>2. N \in Nat /\ ~ \E f : WorkedTo(f, c, ev, N)
  OBVIOUS
<1>3. CASE N = 0
  <2> DEFINE f == [n \in 0..0 |-> c]
  <2>1. f = [n \in 0..0 |-> IF n = 0 THEN c ELSE Process(f[n - 1], ev[n])]
    <3>1. \A n \in 0..0 : n = 0
      OBVIOUS
    <3> QED
      BY <3>1
  <2> QED
    BY <1>2, <1>3, <2>1 DEF WorkedTo
<1>4. CASE N # 0
  <2>1. N - 1 \in Nat /\ ~(N <= N - 1)
    BY <1>2, <1>4
  <2>2. PICK f : WorkedTo(f, c, ev, N - 1)
    BY <1>1, <2>1
  <2> DEFINE g == [n \in 0..N |-> IF n = N THEN Process(f[N - 1], ev[N]) ELSE f[n]]
  <2>3. \A n \in 0..N : g[n] = IF n = 0 THEN c ELSE Process(g[n - 1], ev[n])
    <3> SUFFICES ASSUME NEW n \in 0..N PROVE g[n] = IF n = 0 THEN c ELSE Process(g[n - 1], ev[n])
      OBVIOUS
    <3>1. CASE n = N
      <4>1. n - 1 \in 0..N /\ n - 1 # N /\ n # 0
        BY <3>1, <1>2, <1>4
      <4>2. g[n - 1] = f[N - 1] /\ g[n] = Process(f[N - 1], ev[N])
        BY <3>1, <4>1
      <4> HIDE DEF g
      <4> QED
        BY <3>1, <4>1, <4>2
    <3>2. CASE n # N
      <4>1. n \in 0..(N - 1) /\ (n # 0 => n - 1 \in 0..N /\ n - 1 # N)
        BY <3>2, <1>2
      <4>2. g[n] = f[n] /\ (n # 0 => g[n - 1] = f[n - 1])
        BY <3>2, <4>1
      <4>3. f[n] = IF n = 0 THEN c ELSE Process(f[n - 1], ev[n])
        BY <2>2, <4>1 DEF WorkedTo
      <4> HIDE DEF g
      <4> QED
        BY <4>1, <4>2, <4>3
    <3> QED
      BY <3>1, <3>2
  <2>4. WorkedTo(g, c, ev, N)
    <3>1. g = [n \in 0..N |-> g[n]]
      OBVIOUS
    <3> HIDE DEF g
    <3> QED
      BY <2>3, <3>1 DEF WorkedTo
  <2> QED
    BY <1>2, <2>4
<1> QED
  BY <1>3, <1>4

(* What all of them make of it is what it is after the last.               *)
LEMMA ProcessedOnes ==
  ASSUME NEW c, NEW ev, Len(ev) \in Nat
  PROVE  \E f : Worked(f, c, ev) /\ ProcessAll(c, ev) = f[Len(ev)]
<1> DEFINE F == CHOOSE f : Worked(f, c, ev)
<1>1. \E f : Worked(f, c, ev)
  <2>1. \E f : WorkedTo(f, c, ev, Len(ev))
    BY WorkedExists
  <2> QED
    BY <2>1 DEF Worked, WorkedTo
<1>2. Worked(F, c, ev)
  BY <1>1
<1>3. ProcessAll(c, ev) = F[Len(ev)]
  BY DEF ProcessAll, Worked
<1> HIDE DEF F
<1> QED
  BY <1>2, <1>3

(* No events change nothing.                                               *)
LEMMA ProcessNone == ASSUME NEW c PROVE ProcessAll(c, <<>>) = c
<1>1. PICK f : Worked(f, c, <<>>) /\ ProcessAll(c, <<>>) = f[0]
  BY ProcessedOnes
<1> QED
  BY <1>1 DEF Worked

(* One more event is processed after all the others.                       *)
LEMMA ProcessOne ==
  ASSUME NEW c, NEW S, NEW ev \in Seq(S), NEW e \in S
  PROVE  ProcessAll(c, Append(ev, e)) = Process(ProcessAll(c, ev), e)
<1> DEFINE N == Len(ev)
           all == Append(ev, e)
<1>1. N \in Nat /\ Len(all) = N + 1 /\ all[N + 1] = e /\ \A n \in 1..N : all[n] = ev[n]
  OBVIOUS
<1>2. PICK f : Worked(f, c, all) /\ ProcessAll(c, all) = f[N + 1]
  <2> HIDE DEF all
  <2>1. Len(all) \in Nat
    BY <1>1
  <2>2. \E f : Worked(f, c, all) /\ ProcessAll(c, all) = f[Len(all)]
    BY <2>1, ProcessedOnes
  <2> QED
    BY <2>2, <1>1
<1>3. PICK g : Worked(g, c, ev) /\ ProcessAll(c, ev) = g[N]
  BY <1>1, ProcessedOnes
<1> HIDE DEF N, all
<1>4. f[0] = c /\ \A n \in 1..(N + 1) : f[n] = Process(f[n - 1], all[n])
  <2>1. f = [n \in 0..(N + 1) |-> IF n = 0 THEN c ELSE Process(f[n - 1], all[n])]
    BY <1>1, <1>2 DEF Worked
  <2>2. 0 \in 0..(N + 1) /\ \A n \in 1..(N + 1) : n \in 0..(N + 1) /\ n # 0
    BY <1>1
  <2> QED
    BY <2>1, <2>2
<1>5. g[0] = c /\ \A n \in 1..N : g[n] = Process(g[n - 1], ev[n])
  <2>1. g = [n \in 0..N |-> IF n = 0 THEN c ELSE Process(g[n - 1], ev[n])]
    BY <1>3 DEF Worked, N
  <2>2. 0 \in 0..N /\ \A n \in 1..N : n \in 0..N /\ n # 0
    BY <1>1
  <2> QED
    BY <2>1, <2>2
<1> DEFINE D == [n \in 0..N |-> {g[n]}]
<1>6. f[0] \in D[0]
  BY <1>1, <1>4, <1>5
<1>7. \A n \in 1..N : f[n - 1] \in D[n - 1] => f[n] \in D[n]
  <2> SUFFICES ASSUME NEW n \in 1..N, f[n - 1] \in D[n - 1] PROVE f[n] \in D[n]
    OBVIOUS
  <2>1. n \in 1..(N + 1) /\ n \in 0..N /\ n - 1 \in 0..N
    BY <1>1
  <2>2. f[n - 1] = g[n - 1] /\ all[n] = ev[n]
    BY <2>1, <1>1
  <2> QED
    BY <2>1, <2>2, <1>4, <1>5
<1>8. N \in 0..N /\ f[N] = g[N]
  <2> HIDE DEF D
  <2>1. \A n \in 0..N : f[n] \in D[n]
    BY <1>1, <1>6, <1>7, Climbs
  <2> USE DEF D
  <2> QED
    BY <2>1, <1>1
<1>9. f[N + 1] = Process(f[N], e)
  <2>1. N + 1 \in 1..(N + 1) /\ (N + 1) - 1 = N
    BY <1>1
  <2> QED
    BY <1>1, <1>4, <2>1
<1> QED
  BY <1>2, <1>3, <1>8, <1>9 DEF all

(* Events after other events are processed after them.                     *)
LEMMA ProcessMore ==
  ASSUME NEW c, NEW S, NEW ev \in Seq(S), NEW more \in Seq(S)
  PROVE  ProcessAll(c, ev \o more) = ProcessAll(ProcessAll(c, ev), more)
<1> DEFINE N == Len(more)
           P(n) == SubSeq(more, 1, n)
           m == ProcessAll(c, ev)
           f == [n \in 0..N |-> ProcessAll(c, ev \o P(n))]
           g == [n \in 0..N |-> ProcessAll(m, P(n))]
           D == [n \in 0..N |-> {g[n]}]
<1>1. N \in Nat /\ N \in 0..N /\ P(0) = <<>> /\ P(N) = more
  OBVIOUS
<1>2. f[0] \in D[0]
  <2>1. ev \o P(0) = ev
    BY <1>1
  <2>2. g[0] = m
    <3>1. g[0] = ProcessAll(m, <<>>)
      <4>1. 0 \in 0..N
        BY <1>1
      <4> HIDE DEF m, P
      <4>2. g[0] = ProcessAll(m, P(0))
        BY <4>1
      <4> QED
        BY <4>2, <1>1
    <3> HIDE DEF g, m
    <3> QED
      BY <3>1, ProcessNone
  <2>3. 0 \in 0..N
    BY <1>1
  <2> QED
    BY <2>1, <2>2, <2>3
<1>3. ASSUME NEW n \in 1..N, f[n - 1] \in D[n - 1] PROVE f[n] \in D[n]
  <2>1. n \in 0..N /\ n - 1 \in 0..N /\ more[n] \in S
    BY <1>1
  <2>2. P(n - 1) \in Seq(S) /\ P(n) = Append(P(n - 1), more[n])
    BY <2>1, <1>1
  <2>3. (ev \o P(n - 1)) \in Seq(S) /\ ev \o P(n) = Append(ev \o P(n - 1), more[n])
    <3> HIDE DEF P
    <3>1. ev \o Append(P(n - 1), more[n]) = Append(ev \o P(n - 1), more[n])
      BY <2>1, <2>2
    <3> QED
      BY <2>2, <3>1
  <2>4. f[n - 1] = g[n - 1] /\ f[n - 1] = ProcessAll(c, ev \o P(n - 1)) /\ g[n - 1] = ProcessAll(m, P(n - 1))
    BY <1>3, <2>1
  <2>5. f[n] = ProcessAll(c, ev \o P(n)) /\ g[n] = ProcessAll(m, P(n)) /\ D[n] = {g[n]}
    BY <2>1
  <2> HIDE DEF f, g, D, P, m
  <2>6. ProcessAll(c, Append(ev \o P(n - 1), more[n])) = Process(ProcessAll(c, ev \o P(n - 1)), more[n])
    <3> DEFINE t == ev \o P(n - 1)
    <3>1. t \in Seq(S)
      BY <2>3
    <3> HIDE DEF t
    <3>2. ProcessAll(c, Append(t, more[n])) = Process(ProcessAll(c, t), more[n])
      BY <2>1, <3>1, ProcessOne
    <3> QED
      BY <3>2 DEF t
  <2>7. ProcessAll(m, Append(P(n - 1), more[n])) = Process(ProcessAll(m, P(n - 1)), more[n])
    BY <2>1, <2>2, ProcessOne
  <2> QED
    BY <2>2, <2>3, <2>4, <2>5, <2>6, <2>7
<1>4. \A n \in 0..N : f[n] \in D[n]
  <2> HIDE DEF f, g, D, N
  <2> QED
    BY <1>1, <1>2, <1>3, Climbs
<1>5. f[N] = g[N]
  BY <1>1, <1>4
<1> QED
  BY <1>1, <1>5

(* A single event.                                                         *)
LEMMA ProcessSingle ==
  ASSUME NEW c, NEW e
  PROVE  ProcessAll(c, <<e>>) = Process(c, e)
<1> DEFINE none == <<>>
           only == {e}
<1>1. <<e>> = Append(<<>>, e) /\ none \in Seq(only) /\ e \in only
  OBVIOUS
<1>2. ProcessAll(c, Append(<<>>, e)) = Process(ProcessAll(c, <<>>), e)
  <2> HIDE DEF none, only
  <2>1. ProcessAll(c, Append(none, e)) = Process(ProcessAll(c, none), e)
    BY <1>1, ProcessOne
  <2> QED
    BY <2>1 DEF none
<1> QED
  BY <1>1, <1>2, ProcessNone

-----------------------------------------------------------------------------
(* What an event does to the assembler.                                    *)

\* The slots are the same but for what is done.
SameSlots(m, d) ==
  /\ Len(d.slots) = Len(m.slots)
  /\ \A n \in DOMAIN m.slots : /\ d.slots[n].kind = m.slots[n].kind
                               /\ d.slots[n].item = m.slots[n].item
                               /\ d.slots[n].pieces = m.slots[n].pieces

(* To complete a block that is not open changes nothing.                   *)
LEMMA CompleteNone ==
  ASSUME NEW m, NEW b, b \notin Opened(m)
  PROVE  Complete(m, b) = m
<1>1. Active(m, b) = {}
  BY DEF Active, Opened
<1> QED
  BY <1>1 DEF Complete

\* What becomes of the open block b.
Completed(m, b, d) ==
  /\ d \in AssemblerRecord
  /\ d.status = m.status /\ d.stop = m.stop
  /\ IF m.slots[b].kind # "call" \/ Whole(m.slots[b].pieces)
     THEN d.slots = [m.slots EXCEPT ![b].done = 1] /\ d.refused = m.refused
     ELSE d.slots = m.slots
  /\ \E n \in DOMAIN m.active : m.active[n].block = b /\ d.active = RemoveAt(m.active, n)

(* An open block that is completed is done, unless it is half of a         *)
(* function call, which is refused.                                        *)
LEMMA CompleteOpen ==
  ASSUME NEW m, Orderly(m), NEW b \in Opened(m)
  PROVE  Completed(m, b, Complete(m, b))
<1> DEFINE n == CHOOSE x \in Active(m, b) : TRUE
           left == RemoveAt(m.active, n)
           valid == m.slots[b].kind # "call" \/ Whole(m.slots[b].pieces)
           filled == [m.slots EXCEPT ![b].done = @ + 1]
           d == Complete(m, b)
<1>1. n \in DOMAIN m.active /\ m.active[n].block = b /\ Active(m, b) # {}
  <2>1. Active(m, b) # {}
    BY DEF Active, Opened
  <2>2. n \in Active(m, b)
    BY <2>1
  <2> QED
    BY <2>1, <2>2 DEF Active
<1> HIDE DEF n
<1>2. m \in AssemblerRecord /\ m.active[n].slot = b /\ b \in DOMAIN m.slots /\ m.slots[b].done = 0
  BY <1>1 DEF Orderly
<1>3. m.active \in Seq(ActiveRecord) /\ m.slots \in Seq(SlotRecord) /\ left \in Seq(ActiveRecord)
  <2>1. m.active \in Seq(ActiveRecord) /\ m.slots \in Seq(SlotRecord)
    BY <1>2 DEF AssemblerRecord
  <2> QED
    BY <2>1, <1>1, RemovedAt
<1>4. d = IF valid THEN [[m EXCEPT !.active = left] EXCEPT !.slots[b].done = @ + 1]
                   ELSE [[m EXCEPT !.active = left] EXCEPT !.refused = TRUE]
  BY <1>1, <1>2 DEF Complete, n
<1>5. filled = [m.slots EXCEPT ![b].done = 1] /\ filled \in Seq(SlotRecord)
  <2>1. m.slots[b] \in SlotRecord /\ m.slots[b].done + 1 = 1
    BY <1>2, <1>3
  <2>2. [m.slots[b] EXCEPT !.done = 1] \in SlotRecord
    BY <2>1 DEF SlotRecord
  <2>3. filled = [m.slots EXCEPT ![b] = [m.slots[b] EXCEPT !.done = 1]]
    BY <2>1, <1>2
  <2> QED
    BY <2>1, <2>2, <2>3, <1>2, <1>3
<1> HIDE DEF left, d
<1>6. CASE valid
  <2>1. d = [[m EXCEPT !.active = left] EXCEPT !.slots = filled]
    BY <1>4, <1>6, <1>2 DEF AssemblerRecord
  <2> HIDE DEF filled
  <2>2. d = [started |-> m.started, slots |-> filled, active |-> left, refused |-> m.refused, stop |-> m.stop, status |-> m.status]
    BY <2>1, <1>2 DEF AssemblerRecord
  <2>3. d \in AssemblerRecord
    BY <2>2, <1>2, <1>3, <1>5 DEF AssemblerRecord
  <2> QED
    BY <2>2, <2>3, <1>1, <1>5, <1>6 DEF Completed, left, d
<1>7. CASE ~valid
  <2>1. d = [[m EXCEPT !.active = left] EXCEPT !.refused = TRUE]
    BY <1>4, <1>7
  <2>2. d = [started |-> m.started, slots |-> m.slots, active |-> left, refused |-> TRUE, stop |-> m.stop, status |-> m.status]
    BY <2>1, <1>2 DEF AssemblerRecord
  <2>3. d \in AssemblerRecord
    BY <2>2, <1>2, <1>3 DEF AssemblerRecord
  <2> QED
    BY <2>2, <2>3, <1>1, <1>7 DEF Completed, left, d
<1> QED
  BY <1>6, <1>7

(* The assembler is as orderly then, with one block less open and nothing  *)
(* else changed.                                                           *)
LEMMA CompletedOrderly ==
  ASSUME NEW m, Orderly(m), NEW b \in Opened(m), NEW d, Completed(m, b, d)
  PROVE  Orderly(d) /\ Opened(d) = Opened(m) \ {b} /\ SameSlots(m, d)
<1>1. PICK n \in DOMAIN m.active : m.active[n].block = b /\ d.active = RemoveAt(m.active, n)
  BY DEF Completed
<1> DEFINE act == m.active
           N == Len(m.active)
<1>2. /\ m \in AssemblerRecord /\ d \in AssemblerRecord /\ act \in Seq(ActiveRecord) /\ m.slots \in Seq(SlotRecord)
      /\ d.active \in Seq(ActiveRecord) /\ d.slots \in Seq(SlotRecord)
      /\ N \in Nat /\ n \in 1..N /\ DOMAIN act = 1..N /\ DOMAIN d.active = 1..Len(d.active)
  BY DEF Orderly, Completed, AssemblerRecord
<1>3. /\ Len(d.active) = N - 1
      /\ \A k \in 1..(N - 1) : d.active[k] = IF k < n THEN act[k] ELSE act[k + 1]
  BY <1>1, <1>2, RemovedAt
<1>4. /\ \A k \in DOMAIN act : act[k].slot = act[k].block /\ act[k].block \in DOMAIN m.slots /\ m.slots[act[k].block].done = 0
      /\ \A k, j \in DOMAIN act : act[k].block = act[j].block => k = j
  BY DEF Orderly
<1> HIDE DEF act, N
<1> DEFINE from(k) == IF k < n THEN k ELSE k + 1
<1>5. \A k \in 1..(N - 1) : from(k) \in 1..N /\ from(k) # n /\ d.active[k] = act[from(k)]
  BY <1>2, <1>3
<1>6. \A k, j \in 1..(N - 1) : from(k) = from(j) => k = j
  BY <1>2
<1>7. \A j \in 1..N : j # n => \E k \in 1..(N - 1) : from(k) = j
  <2> SUFFICES ASSUME NEW j \in 1..N, j # n PROVE \E k \in 1..(N - 1) : from(k) = j
    OBVIOUS
  <2>1. CASE j < n
    <3>1. j \in 1..(N - 1) /\ from(j) = j
      BY <2>1, <1>2
    <3> QED
      BY <3>1
  <2>2. CASE ~(j < n)
    <3>1. j - 1 \in 1..(N - 1) /\ from(j - 1) = j
      BY <2>2, <1>2
    <3> QED
      BY <3>1
  <2> QED
    BY <2>1, <2>2
<1> HIDE DEF from
<1>8. DOMAIN d.slots = DOMAIN m.slots /\ Len(d.slots) = Len(m.slots)
      /\ \A k \in DOMAIN m.slots : /\ d.slots[k].kind = m.slots[k].kind
                                   /\ d.slots[k].item = m.slots[k].item
                                   /\ d.slots[k].pieces = m.slots[k].pieces
                                   /\ k # b => d.slots[k] = m.slots[k]
  <2>1. b \in DOMAIN m.slots /\ m.slots[b] \in SlotRecord
    BY <1>1, <1>2, <1>4 DEF act
  <2>2. CASE d.slots = m.slots
    BY <2>2
  <2>3. CASE d.slots = [m.slots EXCEPT ![b].done = 1]
    <3>1. d.slots = [m.slots EXCEPT ![b] = [m.slots[b] EXCEPT !.done = 1]]
      BY <2>3
    <3>2. DOMAIN d.slots = DOMAIN m.slots /\ Len(d.slots) = Len(m.slots)
      BY <3>1, <1>2
    <3>3. d.slots[b] = [m.slots[b] EXCEPT !.done = 1] /\ \A k \in DOMAIN m.slots : k # b => d.slots[k] = m.slots[k]
      BY <3>1, <2>1
    <3>4. d.slots[b].kind = m.slots[b].kind /\ d.slots[b].item = m.slots[b].item /\ d.slots[b].pieces = m.slots[b].pieces
      BY <3>3, <2>1 DEF SlotRecord
    <3> QED
      BY <3>2, <3>3, <3>4
  <2> QED
    BY <2>2, <2>3 DEF Completed
<1>9. d.slots[b].done <= 1 /\ ((d.slots[b].kind = "call" /\ d.slots[b].done = 1) => Whole(d.slots[b].pieces))
  <2>1. b \in DOMAIN m.slots /\ m.slots[b] \in SlotRecord /\ m.slots[b].done = 0
    BY <1>1, <1>2, <1>4 DEF act
  <2>2. CASE m.slots[b].kind # "call" \/ Whole(m.slots[b].pieces)
    <3>1. d.slots = [m.slots EXCEPT ![b].done = 1]
      BY <2>2 DEF Completed
    <3>2. d.slots[b].done = 1
      BY <3>1, <2>1 DEF SlotRecord
    <3> QED
      BY <3>2, <2>1, <2>2, <1>8
  <2>3. CASE ~(m.slots[b].kind # "call" \/ Whole(m.slots[b].pieces))
    <3>1. d.slots = m.slots
      BY <2>3 DEF Completed
    <3> QED
      BY <3>1, <2>1
  <2> QED
    BY <2>2, <2>3
<1>10. Orderly(d)
  <2>1. \A k \in DOMAIN d.active : /\ d.active[k].slot = d.active[k].block /\ d.active[k].block \in DOMAIN d.slots
                                   /\ d.slots[d.active[k].block].done = 0
    <3> SUFFICES ASSUME NEW k \in 1..(N - 1)
                 PROVE  /\ d.active[k].slot = d.active[k].block /\ d.active[k].block \in DOMAIN d.slots
                        /\ d.slots[d.active[k].block].done = 0
      BY <1>2, <1>3
    <3>1. from(k) \in DOMAIN act /\ d.active[k] = act[from(k)] /\ from(k) # n
      BY <1>2, <1>5
    <3>2. act[from(k)].block # b
      BY <3>1, <1>1, <1>2, <1>4 DEF act
    <3> QED
      BY <3>1, <3>2, <1>4, <1>8
  <2>2. \A k, j \in DOMAIN d.active : d.active[k].block = d.active[j].block => k = j
    <3> SUFFICES ASSUME NEW k \in 1..(N - 1), NEW j \in 1..(N - 1), d.active[k].block = d.active[j].block PROVE k = j
      BY <1>2, <1>3
    <3>1. from(k) \in DOMAIN act /\ d.active[k] = act[from(k)] /\ from(j) \in DOMAIN act /\ d.active[j] = act[from(j)]
      BY <1>2, <1>5
    <3> QED
      BY <3>1, <1>4, <1>6
  <2>3. \A k \in DOMAIN d.slots : d.slots[k].done <= 1 /\ ((d.slots[k].kind = "call" /\ d.slots[k].done = 1) => Whole(d.slots[k].pieces))
    <3> SUFFICES ASSUME NEW k \in DOMAIN m.slots
                 PROVE  d.slots[k].done <= 1 /\ ((d.slots[k].kind = "call" /\ d.slots[k].done = 1) => Whole(d.slots[k].pieces))
      BY <1>8
    <3>1. CASE k = b
      BY <3>1, <1>9
    <3>2. CASE k # b
      BY <3>2, <1>8 DEF Orderly
    <3> QED
      BY <3>1, <3>2
  <2> QED
    BY <2>1, <2>2, <2>3, <1>2 DEF Orderly
<1>11. Opened(d) = Opened(m) \ {b}
  <2>1. ASSUME NEW x \in Opened(d) PROVE x \in Opened(m) /\ x # b
    <3>1. PICK k \in 1..(N - 1) : x = d.active[k].block
      BY <1>2, <1>3 DEF Opened
    <3>2. from(k) \in DOMAIN act /\ from(k) # n /\ x = act[from(k)].block
      BY <3>1, <1>2, <1>5
    <3>3. x # b
      BY <3>2, <1>1, <1>2, <1>4 DEF act
    <3> QED
      BY <3>2, <3>3 DEF Opened, act
  <2>2. ASSUME NEW x \in Opened(m), x # b PROVE x \in Opened(d)
    <3>1. PICK j \in DOMAIN act : x = act[j].block
      BY DEF Opened, act
    <3>2. j \in 1..N /\ j # n
      BY <3>1, <2>2, <1>1, <1>2 DEF act
    <3>3. PICK k \in 1..(N - 1) : from(k) = j
      BY <3>2, <1>7
    <3>4. k \in DOMAIN d.active /\ x = d.active[k].block
      BY <3>1, <3>3, <1>2, <1>3, <1>5
    <3> QED
      BY <3>4 DEF Opened
  <2> QED
    BY <2>1, <2>2
<1> QED
  BY <1>8, <1>10, <1>11 DEF SameSlots

\* The assembler d is m with one more slot, which is open.
SlotStarted(m, d, b, kind, i) ==
  /\ Taking(d) /\ Opened(d) = Opened(m) \cup {b}
  /\ d.slots = Append(m.slots, [kind |-> kind, item |-> i, pieces |-> <<>>, done |-> 0])

(* A block that starts takes the next slot.                                *)
LEMMA StartProcessed ==
  ASSUME NEW m, Taking(m), NEW kind \in ItemKind, NEW i \in Nat, NEW b, b = Len(m.slots) + 1
  PROVE  SlotStarted(m, Process(m, BlockStart(b, kind, i)), b, kind, i)
<1> DEFINE x == [kind |-> kind, item |-> i, pieces |-> <<>>, done |-> 0]
           y == [block |-> b, slot |-> b]
           d == Process(m, BlockStart(b, kind, i))
           e == BlockStart(b, kind, i)
<1>1. /\ m \in AssemblerRecord /\ m.slots \in Seq(SlotRecord) /\ m.active \in Seq(ActiveRecord)
      /\ Len(m.slots) \in Nat /\ Len(m.active) \in Nat /\ b \in Nat /\ b \notin DOMAIN m.slots
  BY DEF Taking, Orderly, AssemblerRecord
<1>2. b \notin Opened(m)
  BY <1>1 DEF Taking, Orderly, Opened
<1>3. Complete(m, b) = m
  BY <1>2, CompleteNone
<1>4. d = [m EXCEPT !.started = TRUE, !.slots = Append(@, x), !.active = Append(@, y)]
  <2>1. e.event = "start" /\ e.block = b /\ e.kind = kind /\ e.item = i
    BY DEF BlockStart
  <2> HIDE DEF e
  <2>2. Process(m, e) = [m EXCEPT !.started = TRUE, !.slots = Append(@, x), !.active = Append(@, y)]
    BY <2>1, <1>3 DEF Process, Taking
  <2> QED
    BY <2>2 DEF e
<1> HIDE DEF d
<1>5. d = [started |-> TRUE, slots |-> Append(m.slots, x), active |-> Append(m.active, y), refused |-> m.refused,
           stop |-> m.stop, status |-> m.status]
  <2> HIDE DEF x, y
  <2> QED
    BY <1>4, <1>1 DEF AssemblerRecord
<1>6. x \in SlotRecord /\ y \in ActiveRecord
  BY <1>1 DEF SlotRecord, ActiveRecord
<1>7. d \in AssemblerRecord
  <2> HIDE DEF x, y
  <2> QED
    BY <1>1, <1>5, <1>6 DEF AssemblerRecord
<1>8. /\ DOMAIN d.slots = 1..b /\ d.slots[b] = x /\ \A n \in DOMAIN m.slots : n \in DOMAIN d.slots /\ n # b /\ d.slots[n] = m.slots[n]
      /\ \A n \in DOMAIN d.slots : n = b \/ n \in DOMAIN m.slots
  <2> HIDE DEF x, y
  <2> QED
    BY <1>1, <1>5
<1>9. /\ DOMAIN d.active = 1..(Len(m.active) + 1) /\ d.active[Len(m.active) + 1] = y
      /\ \A n \in DOMAIN m.active : n \in DOMAIN d.active /\ d.active[n] = m.active[n]
      /\ \A n \in DOMAIN d.active : n = Len(m.active) + 1 \/ n \in DOMAIN m.active
  <2> HIDE DEF x, y
  <2> QED
    BY <1>1, <1>5
<1>10. Opened(d) = Opened(m) \cup {b}
  <2>1. y.block = b
    OBVIOUS
  <2> HIDE DEF y
  <2>2. \A n \in DOMAIN d.active : d.active[n].block \in Opened(m) \cup {b}
    BY <1>9, <2>1 DEF Opened
  <2>3. \A n \in DOMAIN m.active : m.active[n].block \in Opened(d)
    BY <1>9 DEF Opened
  <2>4. b \in Opened(d)
    <3>1. Len(m.active) + 1 \in DOMAIN d.active
      BY <1>1, <1>9
    <3> QED
      BY <3>1, <1>9, <2>1 DEF Opened
  <2> QED
    BY <2>2, <2>3, <2>4 DEF Opened
<1>11. Orderly(d)
  <2>1. y.block = b /\ y.slot = b /\ x.done = 0 /\ x.kind = kind
    OBVIOUS
  <2> HIDE DEF x, y
  <2>2. \A n \in DOMAIN d.active : /\ d.active[n].slot = d.active[n].block /\ d.active[n].block \in DOMAIN d.slots
                                   /\ d.slots[d.active[n].block].done = 0
    <3> SUFFICES ASSUME NEW n \in DOMAIN d.active
                 PROVE  /\ d.active[n].slot = d.active[n].block /\ d.active[n].block \in DOMAIN d.slots
                        /\ d.slots[d.active[n].block].done = 0
      OBVIOUS
    <3>1. CASE n = Len(m.active) + 1
      BY <3>1, <2>1, <1>1, <1>8, <1>9
    <3>2. CASE n \in DOMAIN m.active
      <4>1. m.active[n].slot = m.active[n].block /\ m.active[n].block \in DOMAIN m.slots
            /\ m.slots[m.active[n].block].done = 0
        BY <3>2 DEF Taking, Orderly
      <4>2. d.active[n] = m.active[n]
        BY <3>2, <1>9
      <4> QED
        BY <4>1, <4>2, <1>8
    <3> QED
      BY <3>1, <3>2, <1>9
  <2>3. \A n, k \in DOMAIN d.active : d.active[n].block = d.active[k].block => n = k
    <3>1. \A n \in DOMAIN m.active : d.active[n].block # b
      BY <1>2, <1>9 DEF Opened
    <3>2. \A n, k \in DOMAIN m.active : d.active[n].block = d.active[k].block => n = k
      BY <1>9 DEF Taking, Orderly
    <3> QED
      BY <3>1, <3>2, <2>1, <1>9
  <2>4. \A n \in DOMAIN d.slots : d.slots[n].done <= 1 /\ ((d.slots[n].kind = "call" /\ d.slots[n].done = 1) => Whole(d.slots[n].pieces))
    BY <2>1, <1>8 DEF Taking, Orderly
  <2> QED
    BY <2>2, <2>3, <2>4, <1>7 DEF Orderly
<1>12. Taking(d)
  BY <1>5, <1>11 DEF Taking
<1> QED
  BY <1>5, <1>10, <1>12 DEF d, SlotStarted

(* A delta goes to the slot of its block.                                  *)
LEMMA DeltaProcessed ==
  ASSUME NEW m, Taking(m), NEW b \in Opened(m), NEW piece \in PieceRecord
  PROVE  LET d == Process(m, BlockDelta(b, piece))
         IN /\ Taking(d) /\ Opened(d) = Opened(m)
            /\ d.slots = [m.slots EXCEPT ![b].pieces = Append(@, piece)]
<1> DEFINE e == BlockDelta(b, piece)
           d == Process(m, BlockDelta(b, piece))
           grown == [m.slots EXCEPT ![b].pieces = Append(@, piece)]
<1>1. m \in AssemblerRecord /\ m.slots \in Seq(SlotRecord) /\ b \in DOMAIN m.slots /\ m.slots[b] \in SlotRecord /\ m.slots[b].done = 0
  BY DEF Taking, Orderly, AssemblerRecord, Opened
<1>2. {m.active[n].slot : n \in Active(m, b)} = {b}
  <2>1. \A n \in Active(m, b) : m.active[n].slot = b
    BY DEF Active, Taking, Orderly
  <2>2. Active(m, b) # {}
    BY DEF Active, Opened
  <2> QED
    BY <2>1, <2>2
<1>3. d = [m EXCEPT !.slots = [n \in DOMAIN @ |->
             IF n \in {b} THEN [@[n] EXCEPT !.pieces = Append(m.slots[n].pieces, piece)] ELSE @[n]]]
  <2>1. e.event = "delta" /\ e.block = b /\ e.piece = piece
    BY DEF BlockDelta
  <2> HIDE DEF e
  <2>2. Process(m, e) = [m EXCEPT !.slots = [n \in DOMAIN @ |->
             IF n \in {b} THEN [@[n] EXCEPT !.pieces = Append(m.slots[n].pieces, piece)] ELSE @[n]]]
    BY <2>1, <1>2 DEF Process, Taking
  <2> QED
    BY <2>2 DEF e
<1>4. d = [m EXCEPT !.slots = grown]
  <2>1. [n \in DOMAIN m.slots |-> IF n \in {b} THEN [m.slots[n] EXCEPT !.pieces = Append(m.slots[n].pieces, piece)] ELSE m.slots[n]]
        = grown
    BY <1>1
  <2> HIDE DEF d, grown
  <2> QED
    BY <1>1, <1>3, <2>1 DEF AssemblerRecord
<1>5. grown \in Seq(SlotRecord) /\ DOMAIN grown = DOMAIN m.slots
      /\ grown[b].done = 0 /\ grown[b].kind = m.slots[b].kind /\ \A n \in DOMAIN m.slots : n # b => grown[n] = m.slots[n]
  <2>1. m.slots[b].pieces \in Seq(PieceRecord)
    BY <1>1 DEF SlotRecord
  <2> DEFINE g == [m.slots[b] EXCEPT !.pieces = Append(@, piece)]
  <2>2. g \in SlotRecord /\ g.done = 0 /\ g.kind = m.slots[b].kind
    <3> DEFINE s == m.slots[b]
               more == Append(s.pieces, piece)
    <3>1. s \in SlotRecord /\ s.done = 0 /\ more \in Seq(PieceRecord) /\ g = [s EXCEPT !.pieces = more]
      BY <1>1, <2>1
    <3> HIDE DEF s, more, g
    <3>2. g \in SlotRecord /\ g.done = 0 /\ g.kind = s.kind
      BY <3>1 DEF SlotRecord
    <3> QED
      BY <3>2 DEF s
  <2>3. grown = [m.slots EXCEPT ![b] = g]
    BY <1>1
  <2> HIDE DEF g, grown
  <2> QED
    BY <2>2, <2>3, <1>1
<1> HIDE DEF d, grown
<1>6. d = [started |-> m.started, slots |-> grown, active |-> m.active, refused |-> m.refused, stop |-> m.stop, status |-> m.status]
  BY <1>4, <1>1 DEF AssemblerRecord
<1>7. d \in AssemblerRecord
  BY <1>6, <1>1, <1>5 DEF AssemblerRecord
<1>8. Orderly(d)
  <2>1. \A n \in DOMAIN d.active : /\ d.active[n].slot = d.active[n].block /\ d.active[n].block \in DOMAIN d.slots
                                   /\ d.slots[d.active[n].block].done = 0
    BY <1>5, <1>6 DEF Taking, Orderly
  <2>2. \A n \in DOMAIN d.slots : d.slots[n].done <= 1 /\ ((d.slots[n].kind = "call" /\ d.slots[n].done = 1) => Whole(d.slots[n].pieces))
    BY <1>5, <1>6 DEF Taking, Orderly
  <2>3. \A n, k \in DOMAIN d.active : d.active[n].block = d.active[k].block => n = k
    BY <1>6 DEF Taking, Orderly
  <2> QED
    BY <1>7, <2>1, <2>2, <2>3 DEF Orderly
<1> QED
  BY <1>6, <1>8 DEF Taking, Opened, d, grown

(* A block that stops is done, if it is not half of a function call.       *)
LEMMA StopProcessed ==
  ASSUME NEW m, Taking(m), NEW b \in Opened(m), m.slots[b].kind # "call" \/ Whole(m.slots[b].pieces)
  PROVE  LET d == Process(m, BlockStop(b))
         IN /\ Taking(d) /\ Opened(d) = Opened(m) \ {b}
            /\ d.slots = [m.slots EXCEPT ![b].done = 1]
<1> DEFINE e == BlockStop(b)
           d == Complete(m, b)
<1>1. Process(m, e) = d
  <2>1. e.event = "stop" /\ e.block = b
    BY DEF BlockStop
  <2> HIDE DEF e
  <2> QED
    BY <2>1 DEF Process, Taking
<1>2. Orderly(m)
  BY DEF Taking
<1>3. Completed(m, b, d)
  BY <1>2, CompleteOpen
<1> HIDE DEF d, e
<1>4. Orderly(d) /\ Opened(d) = Opened(m) \ {b}
  BY <1>2, <1>3, CompletedOrderly
<1>5. d.status = m.status /\ d.stop = m.stop /\ d.slots = [m.slots EXCEPT ![b].done = 1] /\ d.refused = m.refused
  BY <1>3 DEF Completed
<1>6. Taking(d)
  BY <1>4, <1>5 DEF Taking
<1> QED
  BY <1>1, <1>4, <1>5, <1>6 DEF e

-----------------------------------------------------------------------------
(* What changes nothing but what is done.                                  *)

Quieted(m) == {d \in AssemblerRecord : Orderly(d) /\ SameSlots(m, d)}

(* To complete a block, or none, does so.                                  *)
LEMMA CompleteQuiet ==
  ASSUME NEW m, NEW d \in Quieted(m), NEW b
  PROVE  Complete(d, b) \in Quieted(m) /\ Complete(d, b).status = d.status /\ Complete(d, b).stop = d.stop
<1> DEFINE x == Complete(d, b)
<1>1. Orderly(d) /\ SameSlots(m, d) /\ d \in AssemblerRecord
  BY DEF Quieted
<1>2. CASE b \notin Opened(d)
  BY <1>1, <1>2, CompleteNone
<1>3. CASE b \in Opened(d)
  <2>1. Completed(d, b, x)
    BY <1>1, <1>3, CompleteOpen
  <2> HIDE DEF x
  <2>2. Orderly(x) /\ SameSlots(d, x)
    BY <1>1, <1>3, <2>1, CompletedOrderly
  <2>3. x \in AssemblerRecord /\ x.status = d.status /\ x.stop = d.stop
    BY <2>1 DEF Completed
  <2>4. DOMAIN d.slots = DOMAIN m.slots
    <3>1. d.slots \in Seq(SlotRecord)
      BY <1>1 DEF AssemblerRecord
    <3>2. DOMAIN d.slots = 1..Len(d.slots)
      BY <3>1
    <3> QED
      BY <3>2, <1>1, <2>2 DEF SameSlots
  <2> QED
    BY <1>1, <2>2, <2>3, <2>4 DEF SameSlots, Quieted, x
<1> QED
  BY <1>2, <1>3

(* So does a flush.                                                        *)
LEMMA FlushQuiet ==
  ASSUME NEW m, NEW l \in Quieted(m)
  PROVE  /\ Flush(l) \in Quieted(m)
         /\ l.active = <<>> => Flush(l) = l
<1> DEFINE N == Len(l.active)
           Step(d, n) == Complete(d, l.active[n].block)
           Is(f) == f = [n \in 0..N |-> IF n = 0 THEN l ELSE Step(f[n - 1], n)]
           F == CHOOSE f : Is(f)
<1>0. N \in Nat
  BY DEF Quieted, AssemblerRecord
<1>1. \A n \in 1..N : \A d \in Quieted(m) : Step(d, n) \in Quieted(m)
  BY CompleteQuiet
<1>3. \E f : Is(f)
  <2> DEFINE D == [n \in 0..N |-> Quieted(m)]
             U == Quieted(m)
             G == [p \in U \X (1..N) |-> Step(p[1], p[2])]
  <2>1. \A n \in 1..N : n \in 0..N /\ n - 1 \in 0..N /\ n # 0
    BY <1>0
  <2>2. l \in D[0] /\ \A n \in 0..N : D[n] \in SUBSET U
    BY <1>0
  <2>4. \A n \in 1..N : \A d \in D[n - 1] : d \in U /\ Step(d, n) \in D[n]
    BY <1>1, <2>1
  <2>5. \A n \in 1..N : \A d \in U : G[<<d, n>>] = Step(d, n)
    OBVIOUS
  <2> HIDE DEF D, G, Step, N, U
  <2>6. PICK f \in [0..N -> U] : f[0] = l /\ \A n \in 1..N : f[n] = G[<<f[n - 1], n>>] /\ f[n - 1] \in D[n - 1]
    <3>1. \A n \in 1..N : \A d \in D[n - 1] : G[<<d, n>>] \in D[n]
      BY <2>4, <2>5
    <3>2. Leads(N, U, l, G, D)
      BY <1>0, <2>2, <3>1 DEF Leads
    <3> QED
      BY <3>2, RecursionExists
  <2>7. f = [n \in 0..N |-> IF n = 0 THEN l ELSE Step(f[n - 1], n)]
    <3>1. \A n \in 1..N : G[<<f[n - 1], n>>] = Step(f[n - 1], n)
      BY <2>4, <2>5, <2>6
    <3>2. \A n \in 0..N : n = 0 \/ (n # 0 /\ n \in 1..N)
      BY <1>0
    <3> QED
      BY <2>6, <3>1, <3>2
  <2> QED
    BY <2>7
<1>4. Is(F)
  BY <1>3
<1>5. Flush(l) = F[N]
  BY DEF Flush
<1> HIDE DEF F
<1>6. F[0] = l /\ \A n \in 1..N : F[n] = Step(F[n - 1], n)
  <2>1. 0 \in 0..N /\ \A n \in 1..N : n \in 0..N /\ n # 0
    BY <1>0
  <2> QED
    BY <1>4, <2>1
<1> HIDE DEF Step
<1>7. F[N] \in Quieted(m)
  <2> DEFINE D == [n \in 0..N |-> Quieted(m)]
  <2>1. F[0] \in D[0]
    BY <1>0, <1>6
  <2>2. ASSUME NEW n \in 1..N, F[n - 1] \in D[n - 1] PROVE F[n] \in D[n]
    <3>1. n \in 0..N /\ n - 1 \in 0..N
      BY <1>0
    <3> QED
      BY <2>2, <3>1, <1>1, <1>6
  <2>3. \A n \in 0..N : F[n] \in D[n]
    <3> HIDE DEF D
    <3> QED
      BY <1>0, <2>1, <2>2, Climbs
  <2>4. N \in 0..N
    BY <1>0
  <2> HIDE DEF N
  <2> QED
    BY <2>3, <2>4
<1>8. l.active = <<>> => N = 0
  OBVIOUS
<1> HIDE DEF Is, N
<1> QED
  BY <1>5, <1>6, <1>7, <1>8

(* And every event that starts nothing and brings nothing.                 *)
LEMMA ProcessQuiet ==
  ASSUME NEW m, NEW d \in Quieted(m), NEW e \in QuietEvent
  PROVE  Process(d, e) \in Quieted(m)
<1>1. d \in AssemblerRecord /\ Orderly(d) /\ SameSlots(m, d)
  BY DEF Quieted
<1>2. CASE d.status # "open"
  BY <1>2 DEF Process
<1>3. CASE d.status = "open" /\ e \in [event : {"stop"}, block : Nat]
  <2>1. e.event = "stop" /\ Process(d, e) = Complete(d, e.block)
    BY <1>3 DEF Process
  <2> QED
    BY <2>1, CompleteQuiet
<1>4. CASE d.status = "open" /\ e \in [event : {"reason"}, why : StopWord]
  <2> DEFINE x == [d EXCEPT !.stop = e.why]
  <2>1. e.event = "reason" /\ e.why \in StopWord /\ Process(d, e) = x
    BY <1>4 DEF Process
  <2>2. x = [started |-> d.started, slots |-> d.slots, active |-> d.active, refused |-> d.refused, stop |-> e.why, status |-> d.status]
    BY <1>1 DEF AssemblerRecord
  <2> HIDE DEF x
  <2>3. x \in AssemblerRecord
    BY <1>1, <2>1, <2>2 DEF AssemblerRecord
  <2>4. Orderly(x)
    BY <1>1, <2>2, <2>3 DEF Orderly
  <2>5. SameSlots(m, x)
    BY <1>1, <2>2 DEF SameSlots
  <2> QED
    BY <2>1, <2>3, <2>4, <2>5 DEF Quieted
<1>5. CASE d.status = "open" /\ e \in [event : {"end"}]
  <2> DEFINE f == Flush(d)
             st == IF f.refused THEN "failed" ELSE IF f.stop = "max_tokens" THEN "incomplete" ELSE "completed"
             x == [f EXCEPT !.status = st]
  <2>1. e.event = "end" /\ Process(d, e) = x
    BY <1>5 DEF Process, FinishResponse
  <2>2. f \in AssemblerRecord /\ Orderly(f) /\ SameSlots(m, f)
    BY FlushQuiet DEF Quieted
  <2>3. st \in ResponseStatus
    BY DEF ResponseStatus
  <2> HIDE DEF f, st
  <2>4. x = [started |-> f.started, slots |-> f.slots, active |-> f.active, refused |-> f.refused, stop |-> f.stop, status |-> st]
    BY <2>2 DEF AssemblerRecord
  <2> HIDE DEF x
  <2>5. x \in AssemblerRecord
    BY <2>2, <2>3, <2>4 DEF AssemblerRecord
  <2>6. Orderly(x)
    BY <2>2, <2>4, <2>5 DEF Orderly
  <2>7. SameSlots(m, x)
    BY <2>2, <2>4 DEF SameSlots
  <2> QED
    BY <2>1, <2>5, <2>6, <2>7 DEF Quieted
<1> QED
  BY <1>2, <1>3, <1>4, <1>5 DEF QuietEvent

(* Any number of them.                                                     *)
LEMMA ProcessQuiets ==
  ASSUME NEW m, NEW l \in Quieted(m), NEW ev \in Seq(QuietEvent)
  PROVE  ProcessAll(l, ev) \in Quieted(m)
<1> DEFINE N == Len(ev)
           P(n) == SubSeq(ev, 1, n)
           f == [n \in 0..N |-> ProcessAll(l, P(n))]
           D == [n \in 0..N |-> Quieted(m)]
<1>1. N \in Nat /\ N \in 0..N /\ 0 \in 0..N /\ P(0) = <<>> /\ P(N) = ev
  OBVIOUS
<1>2. f[0] \in D[0]
  <2> HIDE DEF P
  <2>1. f[0] = ProcessAll(l, P(0)) /\ D[0] = Quieted(m)
    BY <1>1
  <2>2. ProcessAll(l, <<>>) = l
    BY ProcessNone
  <2> HIDE DEF f, D
  <2> QED
    BY <2>1, <2>2, <1>1
<1>3. ASSUME NEW n \in 1..N, f[n - 1] \in D[n - 1] PROVE f[n] \in D[n]
  <2>1. n \in 0..N /\ n - 1 \in 0..N /\ ev[n] \in QuietEvent
    BY <1>1
  <2>2. P(n - 1) \in Seq(QuietEvent) /\ P(n) = Append(P(n - 1), ev[n])
    BY <2>1, <1>1
  <2>3. f[n - 1] = ProcessAll(l, P(n - 1)) /\ f[n - 1] \in Quieted(m)
    BY <1>3, <2>1
  <2>4. f[n] = ProcessAll(l, P(n)) /\ D[n] = Quieted(m)
    BY <2>1
  <2> HIDE DEF f, D, P
  <2>5. ProcessAll(l, Append(P(n - 1), ev[n])) = Process(ProcessAll(l, P(n - 1)), ev[n])
    BY <2>1, <2>2, ProcessOne
  <2>6. Process(f[n - 1], ev[n]) \in Quieted(m)
    BY <2>1, <2>3, ProcessQuiet
  <2> QED
    BY <2>2, <2>3, <2>4, <2>5, <2>6
<1>4. \A n \in 0..N : f[n] \in D[n]
  <2> HIDE DEF f, D, N
  <2> QED
    BY <1>1, <1>2, <1>3, Climbs
<1>5. ProcessAll(l, P(N)) \in Quieted(m)
  <2> HIDE DEF P
  <2> QED
    BY <1>1, <1>4
<1> QED
  BY <1>1, <1>5

-----------------------------------------------------------------------------
(* What is given, and what was said.                                       *)

\* The pieces of each slot of a kind.
GivenParts(s, kind) == [n \in DOMAIN s |-> IF s[n].kind = kind THEN s[n].pieces ELSE <<>>]
\* Each piece that is of some items.
SaidParts(p, items) == [n \in DOMAIN p |-> IF p[n].item \in items THEN <<p[n]>> ELSE <<>>]

(* The parts of slots and of pieces are pieces.                            *)
LEMMA PartsTyped ==
  /\ \A s \in Seq(SlotRecord) : \A kind : GivenParts(s, kind) \in Seq(Seq(PieceRecord))
  /\ \A p \in Seq(PieceRecord) : \A items : SaidParts(p, items) \in Seq(Seq(PieceRecord))
<1>1. ASSUME NEW s \in Seq(SlotRecord), NEW kind PROVE GivenParts(s, kind) \in Seq(Seq(PieceRecord))
  <2>1. Len(s) \in Nat /\ DOMAIN s = 1..Len(s) /\ \A n \in 1..Len(s) : s[n] \in SlotRecord
    OBVIOUS
  <2>2. \A n \in 1..Len(s) : (IF s[n].kind = kind THEN s[n].pieces ELSE <<>>) \in Seq(PieceRecord)
    BY <2>1 DEF SlotRecord
  <2> DEFINE g == [n \in 1..Len(s) |-> IF s[n].kind = kind THEN s[n].pieces ELSE <<>>]
  <2>3. g \in Seq(Seq(PieceRecord))
    BY <2>1, <2>2
  <2> QED
    BY <2>1, <2>3 DEF GivenParts
<1>2. ASSUME NEW p \in Seq(PieceRecord), NEW items PROVE SaidParts(p, items) \in Seq(Seq(PieceRecord))
  <2>1. Len(p) \in Nat /\ DOMAIN p = 1..Len(p) /\ \A n \in 1..Len(p) : p[n] \in PieceRecord
    OBVIOUS
  <2>2. \A n \in 1..Len(p) : (IF p[n].item \in items THEN <<p[n]>> ELSE <<>>) \in Seq(PieceRecord)
    BY <2>1
  <2> DEFINE g == [n \in 1..Len(p) |-> IF p[n].item \in items THEN <<p[n]>> ELSE <<>>]
  <2>3. g \in Seq(Seq(PieceRecord))
    BY <2>1, <2>2
  <2> QED
    BY <2>1, <2>3 DEF SaidParts
<1> QED
  BY <1>1, <1>2

(* With no slot nothing is given, with no piece nothing said.              *)
LEMMA NothingGiven ==
  /\ \A kind : GivenBy(<<>>, kind) = <<>>
  /\ \A items : PiecesOf(<<>>, items) = <<>>
<1>1. \A kind : GivenParts(<<>>, kind) = <<>>
  BY DEF GivenParts
<1>2. \A items : SaidParts(<<>>, items) = <<>>
  BY DEF SaidParts
<1>3. FlattenSeq(<<>>) = <<>>
  BY DEF FlattenSeq
<1> QED
  BY <1>1, <1>2, <1>3 DEF GivenBy, PiecesOf, GivenParts, SaidParts

(* What is given is pieces, and a further slot gives more.                 *)
LEMMA GivenMore ==
  ASSUME NEW s \in Seq(SlotRecord), NEW x \in SlotRecord, NEW kind
  PROVE  /\ GivenBy(s, kind) \in Seq(PieceRecord)
         /\ GivenBy(Append(s, x), kind) = IF x.kind = kind THEN GivenBy(s, kind) \o x.pieces ELSE GivenBy(s, kind)
<1> DEFINE y == IF x.kind = kind THEN x.pieces ELSE <<>>
           g == GivenParts(s, kind)
           t == Append(s, x)
<1>1. g \in Seq(Seq(PieceRecord)) /\ y \in Seq(PieceRecord)
  <2>1. x.pieces \in Seq(PieceRecord)
    BY DEF SlotRecord
  <2>2. y \in Seq(PieceRecord)
    BY <2>1
  <2> HIDE DEF y
  <2> QED
    BY <2>2, PartsTyped
<1>2. GivenParts(t, kind) = Append(g, y)
  <2>1. Len(s) \in Nat /\ DOMAIN s = 1..Len(s) /\ DOMAIN t = 1..(Len(s) + 1) /\ t[Len(s) + 1] = x /\ \A n \in 1..Len(s) : t[n] = s[n]
    OBVIOUS
  <2>2. Len(g) = Len(s) /\ DOMAIN g = 1..Len(s)
    BY <2>1, <1>1 DEF GivenParts
  <2> DEFINE a == Append(g, y)
  <2>3. DOMAIN a = 1..(Len(s) + 1) /\ a[Len(s) + 1] = y /\ \A n \in 1..Len(s) : a[n] = g[n]
    BY <1>1, <2>1, <2>2
  <2>4. a = [n \in 1..(Len(s) + 1) |-> a[n]]
    <3>1. a \in Seq(Seq(PieceRecord))
      BY <1>1
    <3> HIDE DEF a
    <3> QED
      BY <3>1, <2>3
  <2> HIDE DEF a, t
  <2>5. \A n \in 1..(Len(s) + 1) : a[n] = IF t[n].kind = kind THEN t[n].pieces ELSE <<>>
    <3> SUFFICES ASSUME NEW n \in 1..(Len(s) + 1) PROVE a[n] = IF t[n].kind = kind THEN t[n].pieces ELSE <<>>
      OBVIOUS
    <3>1. CASE n = Len(s) + 1
      BY <3>1, <2>1, <2>3
    <3>2. CASE n # Len(s) + 1
      <4>1. n \in 1..Len(s)
        BY <3>2, <2>1
      <4> QED
        BY <4>1, <2>1, <2>3 DEF GivenParts
    <3> QED
      BY <3>1, <3>2
  <2> QED
    BY <2>1, <2>4, <2>5 DEF GivenParts, a
<1> HIDE DEF g, y, t
<1>3. FlattenSeq(Append(g, y)) = FlattenSeq(g) \o y /\ FlattenSeq(g) \in Seq(PieceRecord)
  BY <1>1, FlatAppend, FlatTyped
<1>4. GivenBy(s, kind) = FlattenSeq(g) /\ GivenBy(t, kind) = FlattenSeq(GivenParts(t, kind))
  BY DEF GivenBy, GivenParts, g
<1>5. FlattenSeq(g) \o <<>> = FlattenSeq(g)
  BY <1>3
<1> QED
  BY <1>2, <1>3, <1>4, <1>5 DEF y, t

(* Only kinds and pieces matter.                                           *)
LEMMA GivenSame ==
  ASSUME NEW s, NEW t, NEW kind, DOMAIN t = DOMAIN s,
         \A n \in DOMAIN s : t[n].kind = s[n].kind /\ (s[n].kind = kind => t[n].pieces = s[n].pieces)
  PROVE  GivenBy(t, kind) = GivenBy(s, kind)
<1>1. GivenParts(t, kind) = GivenParts(s, kind)
  BY DEF GivenParts
<1> QED
  BY <1>1 DEF GivenBy, GivenParts

\* The slots when one has a further piece.
WithPiece(s, b, piece) == [s EXCEPT ![b].pieces = Append(@, piece)]

(* A piece put into the last slot is given last.                           *)
LEMMA GivenLast ==
  ASSUME NEW s \in Seq(SlotRecord), Len(s) > 0, NEW kind, s[Len(s)].kind = kind, NEW piece \in PieceRecord
  PROVE  GivenBy(WithPiece(s, Len(s), piece), kind) = Append(GivenBy(s, kind), piece)
<1> DEFINE N == Len(s)
           front == SubSeq(s, 1, N - 1)
           x == s[N]
           y == [x EXCEPT !.pieces = Append(@, piece)]
           t == [s EXCEPT ![N].pieces = Append(@, piece)]
<1>1. N \in Nat /\ N \in 1..N /\ x \in SlotRecord /\ front \in Seq(SlotRecord) /\ s = Append(front, x)
  OBVIOUS
<1>2. y \in SlotRecord /\ y.kind = kind /\ y.pieces = Append(x.pieces, piece) /\ x.pieces \in Seq(PieceRecord)
  <2> DEFINE more == Append(x.pieces, piece)
  <2>1. x.pieces \in Seq(PieceRecord)
    BY <1>1 DEF SlotRecord
  <2>2. more \in Seq(PieceRecord) /\ y = [x EXCEPT !.pieces = more] /\ x.kind = kind
    BY <2>1
  <2> HIDE DEF x, more, y
  <2>3. y \in SlotRecord /\ y.kind = kind /\ y.pieces = more
    BY <1>1, <2>2 DEF SlotRecord
  <2> QED
    BY <2>1, <2>3 DEF more
<1>3. t = Append(front, y)
  <2>1. t = [s EXCEPT ![N] = y]
    BY <1>1
  <2>2. Len(front) = N - 1 /\ \A n \in 1..(N - 1) : front[n] = s[n]
    BY <1>1
  <2> DEFINE a == Append(front, y)
  <2> HIDE DEF y, t, front
  <2>3. Len(t) = N /\ DOMAIN t = 1..N /\ DOMAIN a = 1..N /\ a \in Seq(SlotRecord) /\ t \in Seq(SlotRecord)
    BY <1>1, <1>2, <2>1, <2>2
  <2>4. \A n \in 1..N : a[n] = t[n]
    <3> SUFFICES ASSUME NEW n \in 1..N PROVE a[n] = t[n]
      OBVIOUS
    <3>1. CASE n = N
      BY <3>1, <1>1, <1>2, <2>1, <2>2
    <3>2. CASE n # N
      BY <3>2, <1>1, <1>2, <2>1, <2>2
    <3> QED
      BY <3>1, <3>2
  <2> HIDE DEF a
  <2>5. a = t
    BY <2>3, <2>4
  <2> QED
    BY <2>5 DEF a
<1> HIDE DEF front, x, y, t, N
<1>4. GivenBy(t, kind) = GivenBy(front, kind) \o y.pieces /\ GivenBy(s, kind) = GivenBy(front, kind) \o x.pieces
      /\ GivenBy(front, kind) \in Seq(PieceRecord)
  <2>1. x.kind = kind
    BY DEF x, N
  <2>2. GivenBy(Append(front, y), kind) = GivenBy(front, kind) \o y.pieces
    <3>1. GivenBy(Append(front, y), kind) = IF y.kind = kind THEN GivenBy(front, kind) \o y.pieces ELSE GivenBy(front, kind)
      <4>1. y \in SlotRecord
        BY <1>2
      <4> QED
        BY <1>1, <4>1, GivenMore
    <3> QED
      BY <3>1, <1>2
  <2>3. GivenBy(Append(front, x), kind) = GivenBy(front, kind) \o x.pieces /\ GivenBy(front, kind) \in Seq(PieceRecord)
    BY <1>1, <2>1, GivenMore
  <2> QED
    BY <1>1, <1>3, <2>2, <2>3
<1> DEFINE g == GivenBy(front, kind)
<1>5. g \in Seq(PieceRecord)
  BY <1>4
<1> HIDE DEF g
<1>6. g \o Append(x.pieces, piece) = Append(g \o x.pieces, piece)
  <2>1. x.pieces \in Seq(PieceRecord) /\ piece \in PieceRecord
    BY <1>2
  <2> QED
    BY <2>1, <1>5, JoinedAppend
<1> QED
  BY <1>2, <1>4, <1>6 DEF g, t, N, WithPiece

(* What was said is pieces, and a further piece is said last.              *)
LEMMA SaidMore ==
  ASSUME NEW p \in Seq(PieceRecord), NEW x \in PieceRecord, NEW items
  PROVE  /\ PiecesOf(p, items) \in Seq(PieceRecord)
         /\ PiecesOf(Append(p, x), items) = IF x.item \in items THEN Append(PiecesOf(p, items), x) ELSE PiecesOf(p, items)
<1> DEFINE y == IF x.item \in items THEN <<x>> ELSE <<>>
           g == SaidParts(p, items)
           t == Append(p, x)
<1>1. g \in Seq(Seq(PieceRecord)) /\ y \in Seq(PieceRecord)
  BY PartsTyped
<1>2. SaidParts(t, items) = Append(g, y)
  <2>1. Len(p) \in Nat /\ DOMAIN p = 1..Len(p) /\ DOMAIN t = 1..(Len(p) + 1) /\ t[Len(p) + 1] = x /\ \A n \in 1..Len(p) : t[n] = p[n]
    OBVIOUS
  <2>2. Len(g) = Len(p) /\ DOMAIN g = 1..Len(p)
    BY <2>1, <1>1 DEF SaidParts
  <2> DEFINE a == Append(g, y)
  <2>3. DOMAIN a = 1..(Len(p) + 1) /\ a[Len(p) + 1] = y /\ \A n \in 1..Len(p) : a[n] = g[n]
    BY <1>1, <2>1, <2>2
  <2>4. a = [n \in 1..(Len(p) + 1) |-> a[n]]
    <3>1. a \in Seq(Seq(PieceRecord))
      BY <1>1
    <3> HIDE DEF a
    <3> QED
      BY <3>1, <2>3
  <2> HIDE DEF a, t
  <2>5. \A n \in 1..(Len(p) + 1) : a[n] = IF t[n].item \in items THEN <<t[n]>> ELSE <<>>
    <3> SUFFICES ASSUME NEW n \in 1..(Len(p) + 1) PROVE a[n] = IF t[n].item \in items THEN <<t[n]>> ELSE <<>>
      OBVIOUS
    <3>1. CASE n = Len(p) + 1
      BY <3>1, <2>1, <2>3
    <3>2. CASE n # Len(p) + 1
      <4>1. n \in 1..Len(p)
        BY <3>2, <2>1
      <4> QED
        BY <4>1, <2>1, <2>3 DEF SaidParts
    <3> QED
      BY <3>1, <3>2
  <2> QED
    BY <2>1, <2>4, <2>5 DEF SaidParts, a
<1> HIDE DEF g, y, t
<1>3. FlattenSeq(Append(g, y)) = FlattenSeq(g) \o y /\ FlattenSeq(g) \in Seq(PieceRecord)
  BY <1>1, FlatAppend, FlatTyped
<1>4. PiecesOf(p, items) = FlattenSeq(g) /\ PiecesOf(t, items) = FlattenSeq(SaidParts(t, items))
  BY DEF PiecesOf, SaidParts, g
<1>5. FlattenSeq(g) \o <<>> = FlattenSeq(g) /\ FlattenSeq(g) \o <<x>> = Append(FlattenSeq(g), x)
  BY <1>3
<1> QED
  BY <1>2, <1>3, <1>4, <1>5 DEF y, t

(* Items of which nothing was said make no difference.                     *)
LEMMA SaidSame ==
  ASSUME NEW p, NEW items, NEW others, \A n \in DOMAIN p : p[n].item \in items <=> p[n].item \in others
  PROVE  PiecesOf(p, items) = PiecesOf(p, others)
<1>1. SaidParts(p, items) = SaidParts(p, others)
  BY DEF SaidParts
<1> QED
  BY <1>1 DEF PiecesOf, SaidParts

(* Nothing was said of items of which there are no pieces.                 *)
LEMMA SaidNone ==
  ASSUME NEW p \in Seq(PieceRecord), NEW items, \A n \in DOMAIN p : p[n].item \notin items
  PROVE  PiecesOf(p, items) = <<>>
<1> DEFINE g == SaidParts(p, items)
<1>1. g \in Seq(Seq(PieceRecord)) /\ \A n \in DOMAIN p : g[n] = <<>>
  BY PartsTyped DEF SaidParts
<1>2. DOMAIN g = DOMAIN p /\ DOMAIN g = 1..Len(g)
  BY <1>1 DEF SaidParts
<1> HIDE DEF g
<1>3. FlattenSeq(g) = <<>>
  BY <1>1, <1>2, FlatEmpty
<1> QED
  BY <1>3 DEF PiecesOf, SaidParts, g

-----------------------------------------------------------------------------
(* The adapter closes and opens blocks.                                    *)

(* The slots of an orderly assembler.                                      *)
LEMMA SlotsTyped ==
  ASSUME NEW m, Orderly(m)
  PROVE  /\ m \in AssemblerRecord /\ m.slots \in Seq(SlotRecord) /\ Len(m.slots) \in Nat /\ DOMAIN m.slots = 1..Len(m.slots)
         /\ \A n \in DOMAIN m.slots : m.slots[n] \in SlotRecord
         /\ Opened(m) \subseteq DOMAIN m.slots
BY DEF Orderly, AssemblerRecord, Opened

(* When a slot is done, the slots are the same but for that.               *)
LEMMA DoneSlot ==
  ASSUME NEW m, Orderly(m), NEW d, Orderly(d), NEW b \in DOMAIN m.slots, d.slots = [m.slots EXCEPT ![b].done = 1]
  PROVE  SameSlots(m, d) /\ DOMAIN d.slots = DOMAIN m.slots
         /\ d.slots[b].done = 1 /\ \A n \in DOMAIN m.slots : n # b => d.slots[n] = m.slots[n]
<1> DEFINE s == m.slots
           x == [s[b] EXCEPT !.done = 1]
<1>1. s \in Seq(SlotRecord) /\ s[b] \in SlotRecord /\ DOMAIN s = 1..Len(s) /\ b \in DOMAIN s
  BY SlotsTyped
<1>2. d.slots = [s EXCEPT ![b] = x]
  BY <1>1
<1>3. x.done = 1 /\ x.kind = s[b].kind /\ x.item = s[b].item /\ x.pieces = s[b].pieces
  BY <1>1 DEF SlotRecord
<1> HIDE DEF x, s
<1>4. DOMAIN d.slots = DOMAIN s /\ d.slots[b] = x /\ \A n \in DOMAIN s : n # b => d.slots[n] = s[n]
  BY <1>1, <1>2
<1>5. Len(d.slots) = Len(s)
  <2>1. DOMAIN d.slots = 1..Len(d.slots) /\ Len(d.slots) \in Nat /\ Len(s) \in Nat
    BY <1>1, SlotsTyped
  <2> QED
    BY <2>1, <1>1, <1>4
<1>6. \A n \in DOMAIN s : d.slots[n].kind = s[n].kind /\ d.slots[n].item = s[n].item /\ d.slots[n].pieces = s[n].pieces
  BY <1>3, <1>4
<1> QED
  BY <1>3, <1>4, <1>5, <1>6 DEF SameSlots, s

(* Where the slots hold the same, everything is where it was.              *)
LEMMA StayHoused ==
  ASSUME NEW a, NEW c, NEW u, NEW p, NEW m, NEW d, Housed(a, u, m), Spoken(u, p, m),
         c.tools = a.tools, SameSlots(m, d), DOMAIN d.slots = DOMAIN m.slots
  PROVE  Housed(c, u, d) /\ Spoken(u, p, d)
<1>1. \A n \in DOMAIN m.slots : /\ d.slots[n].kind = m.slots[n].kind
                                /\ d.slots[n].item = m.slots[n].item
                                /\ d.slots[n].pieces = m.slots[n].pieces
  BY DEF SameSlots
<1>2. \A i : Home(d.slots, i) = Home(m.slots, i)
  BY <1>1 DEF Home
<1>3. Housed(c, u, d)
  BY <1>1, <1>2 DEF Housed
<1>4. \A kind : GivenBy(d.slots, kind) = GivenBy(m.slots, kind)
  BY <1>1, GivenSame
<1>5. Spoken(u, p, d)
  BY <1>1, <1>4 DEF Spoken
<1> QED
  BY <1>3, <1>5

(* A started tool has an open slot of its own.                             *)
LEMMA StartedTool ==
  ASSUME NEW a, NEW u, NEW p, NEW m, Fit(a, u, p, m), NEW i \in DOMAIN a.tools, a.tools[i].started
  PROVE  /\ i \in DOMAIN u /\ IsCall(u[i].kind) /\ ~u[i].done
         /\ a.tools[i].block \in Opened(m) /\ a.tools[i].block \in DOMAIN m.slots
         /\ m.slots[a.tools[i].block].kind = u[i].kind
         /\ m.slots[a.tools[i].block].item = i
<1>1. a.tools[i].block \in Opened(m)
  BY DEF Fit, Aligned, StartedBlocks
<1>2. DOMAIN a.tools = DOMAIN u
  <2>1. a.tools \in Seq(CallRecord) /\ u \in Seq(ItemRecord) /\ Len(a.tools) = Len(u)
    BY DEF Fit, Aligned, Housed, AdapterRecord
  <2> QED
    BY <2>1
<1>3. i \in DOMAIN u /\ IsCall(u[i].kind) /\ CallKept(a.tools[i], u[i], Home(m.slots, i))
  BY <1>2 DEF Fit, Housed
<1>4. Home(m.slots, i) = {a.tools[i].block} /\ ~u[i].done
  BY <1>3 DEF CallKept
<1>5. a.tools[i].block \in DOMAIN m.slots /\ m.slots[a.tools[i].block].item = i
  BY <1>4 DEF Home
<1>6. i # 0
  <2>1. u \in Seq(ItemRecord)
    BY DEF Fit, Housed
  <2> QED
    BY <2>1, <1>3
<1>7. m.slots[a.tools[i].block].kind = u[i].kind
  BY <1>5, <1>6 DEF Fit, Housed
<1> QED
  BY <1>1, <1>3, <1>4, <1>5, <1>7

(* An open part is closed.                                                 *)
LEMMA PartsClosed ==
  ASSUME NEW a, NEW u, NEW p, NEW m, Fit(a, u, p, m)
  PROVE  LET c == CloseParts(a)
         IN /\ Fit(c.a, u, p, ProcessAll(m, c.out))
            /\ c.a.open = "none" /\ c.a.tools = a.tools /\ c.a.blocks = a.blocks
            /\ c.out \in Seq(BridgeEvent)
<1> DEFINE c == [a EXCEPT !.open = "none"]
<1>1. a \in AdapterRecord /\ CloseParts(a).a = c
  BY DEF Fit, Aligned, CloseParts
<1>2. c \in AdapterRecord /\ c.open = "none" /\ c.tools = a.tools /\ c.blocks = a.blocks /\ c.openBlock = a.openBlock
  BY <1>1 DEF AdapterRecord
<1>3. CASE a.open = "none"
  <2>1. c = a
    BY <1>1, <1>3 DEF AdapterRecord
  <2>2. CloseParts(a).out = <<>> /\ <<>> \in Seq(BridgeEvent)
    BY <1>3 DEF CloseParts
  <2>3. ProcessAll(m, <<>>) = m
    BY ProcessNone
  <2> QED
    BY <1>1, <1>2, <2>1, <2>2, <2>3
<1>4. CASE a.open # "none"
  <2> DEFINE b == a.blocks
             e == BlockStop(a.openBlock)
             d == Process(m, BlockStop(b))
  <2>1. /\ a.openBlock = b /\ b > 0 /\ m.slots[b].kind = a.open /\ Taking(m) /\ Orderly(m) /\ b \in Opened(m)
        /\ Opened(m) = {b} \cup StartedBlocks(a) /\ b \in Nat
        /\ a.open \in {"text", "thinking"}
    BY <1>4 DEF Fit, Aligned, Taking, Parts, AdapterRecord
  <2>2. Taking(d) /\ Opened(d) = Opened(m) \ {b} /\ d.slots = [m.slots EXCEPT ![b].done = 1]
    <3>1. m.slots[b].kind # "call"
      BY <2>1
    <3> QED
      BY <2>1, <3>1, StopProcessed
  <2>3. ProcessAll(m, CloseParts(a).out) = d /\ CloseParts(a).out \in Seq(BridgeEvent)
    <3>1. CloseParts(a).out = <<e>>
      BY <1>4 DEF CloseParts
    <3>2. e \in BridgeEvent
      BY <2>1 DEF BlockStop, BridgeEvent, QuietEvent
    <3>3. ProcessAll(m, <<e>>) = Process(m, e) /\ Process(m, e) = d
      BY <2>1, ProcessSingle
    <3> HIDE DEF e, d
    <3> QED
      BY <3>1, <3>2, <3>3
  <2> HIDE DEF d
  <2>4. Orderly(d) /\ b \in DOMAIN m.slots
    BY <2>1, <2>2, SlotsTyped DEF Taking
  <2>5. SameSlots(m, d) /\ DOMAIN d.slots = DOMAIN m.slots
        /\ d.slots[b].done = 1 /\ \A n \in DOMAIN m.slots : n # b => d.slots[n] = m.slots[n]
    BY <2>1, <2>2, <2>4, DoneSlot
  <2> HIDE DEF c
  <2>6. Housed(c, u, d) /\ Spoken(u, p, d)
    <3>1. Housed(a, u, m) /\ Spoken(u, p, m)
      BY DEF Fit
    <3> QED
      BY <3>1, <2>5, <1>2, StayHoused
  <2>7. b \notin StartedBlocks(a)
    <3> SUFFICES ASSUME NEW i \in DOMAIN a.tools, a.tools[i].started, a.tools[i].block = b PROVE FALSE
      BY DEF StartedBlocks
    <3>1. m.slots[b].kind = u[i].kind /\ IsCall(u[i].kind)
      BY StartedTool
    <3> QED
      BY <3>1, <2>1 DEF IsCall
  <2>8. Aligned(c, d)
    <3>1. Parts(c) = {} /\ StartedBlocks(c) = StartedBlocks(a)
      BY <1>2 DEF Parts, StartedBlocks
    <3>2. Opened(d) = Parts(c) \cup StartedBlocks(c)
      BY <3>1, <2>1, <2>2, <2>7
    <3>3. \A n \in DOMAIN d.slots : n \notin Opened(d) => d.slots[n].done = 1
      BY <2>2, <2>5 DEF Fit, Aligned
    <3>4. Len(d.slots) = c.blocks
      BY <2>5, <1>2 DEF SameSlots, Fit, Aligned
    <3> QED
      BY <1>2, <2>2, <3>2, <3>3, <3>4 DEF Aligned
  <2> QED
    BY <1>1, <1>2, <2>3, <2>6, <2>8 DEF Fit
<1> HIDE DEF c
<1> QED
  BY <1>3, <1>4

(* A new slot that holds nothing changes nothing that is said.             *)
LEMMA SpokenMore ==
  ASSUME NEW u, NEW p, NEW m, NEW d, NEW x \in SlotRecord, Orderly(m), Spoken(u, p, m),
         d.slots = Append(m.slots, x), x.pieces = <<>>, IsCall(x.kind) => PiecesOf(p, {x.item}) = <<>>
  PROVE  Spoken(u, p, d)
<1>1. m.slots \in Seq(SlotRecord) /\ Len(m.slots) \in Nat /\ DOMAIN m.slots = 1..Len(m.slots)
  BY SlotsTyped
<1>2. DOMAIN d.slots = 1..(Len(m.slots) + 1) /\ d.slots[Len(m.slots) + 1] = x /\ \A n \in DOMAIN m.slots : d.slots[n] = m.slots[n]
  BY <1>1
<1>3. \A kind : GivenBy(d.slots, kind) = GivenBy(m.slots, kind)
  <2> SUFFICES ASSUME NEW kind PROVE GivenBy(d.slots, kind) = GivenBy(m.slots, kind)
    OBVIOUS
  <2> DEFINE g == GivenBy(m.slots, kind)
  <2>1. g \in Seq(PieceRecord) /\ GivenBy(d.slots, kind) = IF x.kind = kind THEN g \o x.pieces ELSE g
    BY <1>1, GivenMore
  <2> HIDE DEF g
  <2>2. g \o <<>> = g
    BY <2>1
  <2> QED
    BY <2>1, <2>2 DEF g
<1>4. \A n \in DOMAIN d.slots : IsCall(d.slots[n].kind) => d.slots[n].pieces = PiecesOf(p, {d.slots[n].item})
  <2> SUFFICES ASSUME NEW n \in DOMAIN d.slots, IsCall(d.slots[n].kind) PROVE d.slots[n].pieces = PiecesOf(p, {d.slots[n].item})
    OBVIOUS
  <2>1. CASE n = Len(m.slots) + 1
    BY <2>1, <1>2
  <2>2. CASE n # Len(m.slots) + 1
    <3>1. n \in DOMAIN m.slots
      BY <2>2, <1>1, <1>2
    <3> QED
      BY <3>1, <1>2 DEF Spoken
  <2> QED
    BY <2>1, <2>2
<1> QED
  BY <1>3, <1>4 DEF Spoken

(* A new slot is one more home of its item.                                *)
LEMMA HomeMore ==
  ASSUME NEW s \in Seq(SlotRecord), NEW x, NEW i
  PROVE  Home(Append(s, x), i) = IF x.item = i THEN Home(s, i) \cup {Len(s) + 1} ELSE Home(s, i)
<1> DEFINE t == Append(s, x)
<1>1. Len(s) \in Nat /\ DOMAIN s = 1..Len(s) /\ DOMAIN t = 1..(Len(s) + 1) /\ t[Len(s) + 1] = x /\ \A n \in 1..Len(s) : t[n] = s[n]
  OBVIOUS
<1> HIDE DEF t
<1>2. Home(t, i) = IF x.item = i THEN Home(s, i) \cup {Len(s) + 1} ELSE Home(s, i)
  <2>1. \A n : n \in 1..(Len(s) + 1) <=> (n \in 1..Len(s) \/ n = Len(s) + 1)
    BY <1>1
  <2>2. \A n : n \in Home(t, i) <=> (n \in 1..(Len(s) + 1) /\ t[n].item = i)
    BY <1>1 DEF Home
  <2>3. \A n : n \in Home(s, i) <=> (n \in 1..Len(s) /\ s[n].item = i)
    BY <1>1 DEF Home
  <2>4. CASE x.item = i
    <3>1. \A n : n \in Home(t, i) <=> n \in Home(s, i) \cup {Len(s) + 1}
      BY <2>1, <2>2, <2>3, <2>4, <1>1
    <3> QED
      BY <3>1, <2>4
  <2>5. CASE x.item # i
    <3>1. \A n : n \in Home(t, i) <=> n \in Home(s, i)
      BY <2>1, <2>2, <2>3, <2>5, <1>1
    <3> QED
      BY <3>1, <2>5
  <2> QED
    BY <2>4, <2>5
<1> QED
  BY <1>2 DEF t

\* The adapter with a part that has a block of its own.
WithPart(a, kind) == [NewBlock(a) EXCEPT !.open = kind, !.openBlock = a.blocks + 1]

(* A part opens a block of its own.                                        *)
LEMMA PartOpens ==
  ASSUME NEW a, NEW u, NEW p, NEW m, Fit(a, u, p, m), a.open = "none", NEW kind \in {"text", "thinking"}
  PROVE  Fit(WithPart(a, kind), u, p, Process(m, BlockStart(a.blocks + 1, kind, 0)))
<1> DEFINE b == a.blocks + 1
           c == WithPart(a, kind)
           d == Process(m, BlockStart(b, kind, 0))
           x == [kind |-> kind, item |-> 0, pieces |-> <<>>, done |-> 0]
<1>1. a \in AdapterRecord /\ Taking(m) /\ Orderly(m) /\ Len(m.slots) = a.blocks /\ a.blocks \in Nat
      /\ Opened(m) = StartedBlocks(a)
  BY DEF Fit, Aligned, Taking, Parts, AdapterRecord
<1>2. c = [blocks |-> b, open |-> kind, openBlock |-> b, tools |-> a.tools]
  <2>1. NewBlock(a) = [blocks |-> b, open |-> a.open, openBlock |-> a.openBlock, tools |-> a.tools]
    BY <1>1 DEF NewBlock, AdapterRecord
  <2>2. c = [NewBlock(a) EXCEPT !.open = kind, !.openBlock = b]
    BY DEF WithPart
  <2> DEFINE n == NewBlock(a)
  <2>3. n = [blocks |-> b, open |-> a.open, openBlock |-> a.openBlock, tools |-> a.tools]
        /\ c = [n EXCEPT !.open = kind, !.openBlock = b]
    BY <2>1, <2>2
  <2>4. b \in Nat
    BY <1>1
  <2> HIDE DEF b, c, n
  <2>5. n \in AdapterRecord /\ n.blocks = b /\ n.tools = a.tools
    BY <1>1, <2>3, <2>4 DEF AdapterRecord
  <2>6. c = [blocks |-> n.blocks, open |-> kind, openBlock |-> b, tools |-> n.tools]
    BY <2>3, <2>5 DEF AdapterRecord
  <2> QED
    BY <2>5, <2>6
<1> HIDE DEF c
<1>3. c \in AdapterRecord /\ c.blocks = b /\ c.open = kind /\ c.openBlock = b /\ c.tools = a.tools
  <2> HIDE DEF b
  <2>1. b \in Nat
    BY <1>1 DEF b
  <2>2. c.blocks = b /\ c.open = kind /\ c.openBlock = b /\ c.tools = a.tools
    BY <1>2
  <2> QED
    BY <1>1, <1>2, <2>1, <2>2 DEF AdapterRecord
<1>4. Taking(d) /\ Opened(d) = Opened(m) \cup {b} /\ d.slots = Append(m.slots, x)
  <2>1. kind \in ItemKind /\ 0 \in Nat /\ b = Len(m.slots) + 1
    BY <1>1 DEF ItemKind
  <2> HIDE DEF b, x, d
  <2>2. SlotStarted(m, Process(m, BlockStart(b, kind, 0)), b, kind, 0)
    BY <2>1, <1>1, StartProcessed
  <2> QED
    BY <2>2 DEF d, x, SlotStarted
<1> HIDE DEF d
<1>5. x \in SlotRecord /\ x.pieces = <<>> /\ x.item = 0 /\ x.kind = kind /\ ~IsCall(x.kind)
  BY DEF SlotRecord, ItemKind, IsCall
<1> HIDE DEF x
<1>6. m.slots \in Seq(SlotRecord) /\ DOMAIN m.slots = 1..a.blocks /\ DOMAIN d.slots = 1..b /\ Len(d.slots) = b
      /\ d.slots[b] = x /\ \A n \in DOMAIN m.slots : d.slots[n] = m.slots[n]
  <2>1. m.slots \in Seq(SlotRecord) /\ DOMAIN m.slots = 1..a.blocks
    BY <1>1, SlotsTyped
  <2> QED
    BY <2>1, <1>1, <1>4
<1>7. Spoken(u, p, d)
  <2>1. Spoken(u, p, m)
    BY DEF Fit
  <2> QED
    BY <2>1, <1>1, <1>4, <1>5, SpokenMore
<1>8. Housed(c, u, d)
  <2>1. Housed(a, u, m)
    BY DEF Fit
  <2>2. \A i \in DOMAIN u : Home(d.slots, i) = Home(m.slots, i)
    <3>1. \A i \in DOMAIN u : x.item # i
      <4>1. u \in Seq(ItemRecord)
        BY <2>1 DEF Housed
      <4> QED
        BY <4>1, <1>5
    <3> QED
      BY <3>1, <1>4, <1>6, HomeMore
  <2>3. c.tools = a.tools
    BY <1>3
  <2>4. \A i \in DOMAIN u :
       IF IsCall(u[i].kind) THEN CallKept(c.tools[i], u[i], Home(d.slots, i))
       ELSE /\ ~c.tools[i].started /\ c.tools[i].block = 0
            /\ IF u[i].kind = "sealed" /\ u[i].done THEN \E n \in DOMAIN d.slots : Home(d.slots, i) = {n}
               ELSE Home(d.slots, i) = {}
    <3>1. \A n \in DOMAIN m.slots : n \in DOMAIN d.slots
      BY <1>6, <1>1
    <3> QED
      BY <2>1, <2>2, <2>3, <3>1 DEF Housed
  <2>5. \A n \in DOMAIN d.slots :
       IF d.slots[n].kind \in {"text", "thinking"} THEN d.slots[n].item = 0
       ELSE d.slots[n].item \in DOMAIN u /\ u[d.slots[n].item].kind = d.slots[n].kind
    <3> SUFFICES ASSUME NEW n \in DOMAIN d.slots
                 PROVE  IF d.slots[n].kind \in {"text", "thinking"} THEN d.slots[n].item = 0
                        ELSE d.slots[n].item \in DOMAIN u /\ u[d.slots[n].item].kind = d.slots[n].kind
      OBVIOUS
    <3>1. CASE n = b
      BY <3>1, <1>5, <1>6
    <3>2. CASE n # b
      <4>1. n \in DOMAIN m.slots
        BY <3>2, <1>1, <1>6
      <4> QED
        BY <4>1, <1>6, <2>1 DEF Housed
    <3> QED
      BY <3>1, <3>2
  <2> QED
    BY <2>1, <2>3, <2>4, <2>5 DEF Housed
<1>9. Aligned(c, d)
  <2>1. Parts(c) = {b} /\ StartedBlocks(c) = StartedBlocks(a) /\ c.open = kind /\ c.openBlock = c.blocks /\ c.blocks = b
    BY <1>3 DEF Parts, StartedBlocks
  <2>2. Opened(d) = Parts(c) \cup StartedBlocks(c)
    BY <2>1, <1>1, <1>4
  <2>3. d.slots[b].kind = kind /\ b > 0
    BY <1>1, <1>5, <1>6
  <2>4. \A n \in DOMAIN d.slots : n \notin Opened(d) => d.slots[n].done = 1
    <3> SUFFICES ASSUME NEW n \in DOMAIN d.slots, n \notin Opened(d) PROVE d.slots[n].done = 1
      OBVIOUS
    <3>1. n \in DOMAIN m.slots /\ n \notin Opened(m)
      BY <1>1, <1>4, <1>6
    <3> QED
      BY <3>1, <1>6 DEF Fit, Aligned
  <2> HIDE DEF b
  <2> QED
    BY <1>3, <1>4, <1>6, <2>1, <2>2, <2>3, <2>4 DEF Aligned
<1> QED
  BY <1>7, <1>8, <1>9 DEF Fit, d, c

(* What a part is ensured with leads to it being open.                     *)
LEMMA PartEnsured ==
  ASSUME NEW a, NEW u, NEW p, NEW m, Fit(a, u, p, m), NEW kind \in {"text", "thinking"}
  PROVE  LET e == Ensure(a, kind)
         IN /\ Fit(e.a, u, p, ProcessAll(m, e.out))
            /\ e.a.open = kind
            /\ e.out \in Seq(BridgeEvent)
<1>1. CASE a.open = kind
  <2>1. Ensure(a, kind).a = a /\ Ensure(a, kind).out = <<>>
    BY <1>1 DEF Ensure
  <2>2. ProcessAll(m, <<>>) = m /\ <<>> \in Seq(BridgeEvent)
    BY ProcessNone
  <2> QED
    BY <2>1, <2>2, <1>1
<1>2. CASE a.open # kind
  <2> DEFINE c == CloseParts(a)
             s == BlockStart(a.blocks + 1, kind, 0)
             n == WithPart(c.a, kind)
  <2>1. Ensure(a, kind).a = n /\ Ensure(a, kind).out = Append(c.out, s)
    <3>1. Ensure(a, kind).a = [NewBlock(c.a) EXCEPT !.open = kind, !.openBlock = a.blocks + 1]
          /\ Ensure(a, kind).out = Append(c.out, s)
      BY <1>2 DEF Ensure
    <3>2. c.a.blocks = a.blocks
      BY PartsClosed
    <3> HIDE DEF c, s
    <3> QED
      BY <3>1, <3>2 DEF WithPart
  <2>2. Fit(c.a, u, p, ProcessAll(m, c.out)) /\ c.a.open = "none" /\ c.a.blocks = a.blocks /\ c.out \in Seq(BridgeEvent)
    BY PartsClosed
  <2> HIDE DEF c
  <2>3. a.blocks \in Nat /\ c.a \in AdapterRecord
    BY <2>2 DEF Fit, Aligned, AdapterRecord
  <2>4. s \in BridgeEvent
    BY <2>3 DEF BridgeEvent, BlockStart, ItemKind
  <2>5. Fit(n, u, p, Process(ProcessAll(m, c.out), s))
    <3>1. s = BlockStart(c.a.blocks + 1, kind, 0)
      BY <2>2
    <3> HIDE DEF s
    <3>2. Fit(n, u, p, Process(ProcessAll(m, c.out), BlockStart(c.a.blocks + 1, kind, 0)))
      BY <2>2, PartOpens
    <3> QED
      BY <3>1, <3>2
  <2>6. n.open = kind
    BY <2>3 DEF NewBlock, AdapterRecord, WithPart
  <2> HIDE DEF s, n
  <2>7. ProcessAll(m, Append(c.out, s)) = Process(ProcessAll(m, c.out), s) /\ Append(c.out, s) \in Seq(BridgeEvent)
    BY <2>2, <2>4, ProcessOne
  <2> QED
    BY <2>1, <2>5, <2>6, <2>7
<1> QED
  BY <1>1, <1>2

\* The adapter with a tool that has a block of its own.
WithTool(a, i) == [NewBlock(a) EXCEPT !.tools[i] = OpenTool(a.blocks + 1)]

(* What is known of the call an item is.                                   *)
LEMMA CallHoused ==
  ASSUME NEW a, NEW u, NEW m, Housed(a, u, m), NEW i \in DOMAIN u, IsCall(u[i].kind)
  PROVE  CallKept(a.tools[i], u[i], Home(m.slots, i))
BY DEF Housed

(* A call opens a block of its own.                                        *)
LEMMA ToolOpens ==
  ASSUME NEW a, NEW u, NEW p, NEW m, Fit(a, u, p, m), a.open = "none",
         NEW i \in DOMAIN u, IsCall(u[i].kind), ~u[i].done, ~a.tools[i].started
  PROVE  /\ Fit(WithTool(a, i), u, p, Process(m, BlockStart(a.blocks + 1, u[i].kind, i)))
         /\ WithTool(a, i).open = "none"
         /\ WithTool(a, i).tools[i].started
<1> DEFINE b == a.blocks + 1
           c == WithTool(a, i)
           kind == u[i].kind
           tool == OpenTool(b)
           tools == [a.tools EXCEPT ![i] = tool]
           d == Process(m, BlockStart(b, kind, i))
           x == [kind |-> kind, item |-> i, pieces |-> <<>>, done |-> 0]
<1>1. a \in AdapterRecord /\ Taking(m) /\ Orderly(m) /\ Len(m.slots) = a.blocks /\ a.blocks \in Nat
      /\ Opened(m) = StartedBlocks(a) /\ a.tools \in Seq(CallRecord)
  BY DEF Fit, Aligned, Taking, Parts, AdapterRecord
<1>2. /\ u \in Seq(ItemRecord) /\ Len(a.tools) = Len(u) /\ DOMAIN a.tools = DOMAIN u /\ i \in DOMAIN a.tools
      /\ u[i] \in ItemRecord /\ kind \in ItemKind /\ i \in Nat /\ i # 0
  <2>1. u \in Seq(ItemRecord) /\ Len(a.tools) = Len(u)
    BY DEF Fit, Housed
  <2>2. DOMAIN a.tools = DOMAIN u /\ i \in DOMAIN a.tools /\ u[i] \in ItemRecord /\ i \in Nat /\ i # 0
    BY <2>1, <1>1
  <2>3. kind \in ItemKind
    BY <2>2 DEF ItemRecord
  <2> QED
    BY <2>1, <2>2, <2>3
<1>3. /\ a.tools[i].block = 0 /\ u[i].sent = 0 /\ ~u[i].last /\ Home(m.slots, i) = {}
  <2>1. CallKept(a.tools[i], u[i], Home(m.slots, i))
    BY CallHoused DEF Fit
  <2> QED
    BY <2>1 DEF CallKept
<1>4. tool \in CallRecord /\ tool.block = b /\ tool.started /\ ~tool.received
  BY <1>1 DEF OpenTool, CallRecord
<1>5. c \in AdapterRecord /\ c.blocks = b /\ c.open = "none" /\ c.tools = tools
  <2> DEFINE n == NewBlock(a)
  <2>1. b \in Nat
    BY <1>1
  <2>2. n = [blocks |-> b, open |-> a.open, openBlock |-> a.openBlock, tools |-> a.tools]
    BY <1>1 DEF NewBlock, AdapterRecord
  <2>3. c = [n EXCEPT !.tools[i] = tool]
    BY DEF WithTool
  <2>4. tools \in Seq(CallRecord)
    <3> HIDE DEF tool
    <3> QED
      BY <1>1, <1>2, <1>4
  <2> HIDE DEF b, c, n, tool
  <2>5. n \in AdapterRecord /\ n.blocks = b /\ n.tools = a.tools /\ n.open = "none"
    BY <1>1, <2>1, <2>2 DEF AdapterRecord
  <2>6. c = [n EXCEPT !.tools = tools]
    BY <2>3, <2>5, <1>2
  <2> HIDE DEF tools
  <2>7. c = [blocks |-> n.blocks, open |-> n.open, openBlock |-> n.openBlock, tools |-> tools]
    BY <2>5, <2>6 DEF AdapterRecord
  <2>8. c.blocks = b /\ c.open = "none" /\ c.tools = tools
    BY <2>5, <2>7
  <2>9. c \in AdapterRecord
    BY <2>4, <2>5, <2>7 DEF AdapterRecord
  <2> QED
    BY <2>8, <2>9
<1> HIDE DEF tool, c
<1>6. /\ DOMAIN tools = DOMAIN u /\ Len(tools) = Len(u) /\ tools[i] = tool
      /\ \A j \in DOMAIN u : j # i => tools[j] = a.tools[j]
  BY <1>1, <1>2, <1>4
<1> HIDE DEF tools
<1>7. Taking(d) /\ Opened(d) = Opened(m) \cup {b} /\ d.slots = Append(m.slots, x)
  <2>1. b = Len(m.slots) + 1
    BY <1>1
  <2> HIDE DEF b, x, d, kind
  <2>2. SlotStarted(m, Process(m, BlockStart(b, kind, i)), b, kind, i)
    <3>1. kind \in ItemKind /\ i \in Nat /\ Taking(m)
      BY <1>1, <1>2
    <3> QED
      BY <2>1, <3>1, StartProcessed
  <2> QED
    BY <2>2 DEF d, x, SlotStarted
<1> HIDE DEF d
<1>8. x \in SlotRecord /\ x.pieces = <<>> /\ x.item = i /\ x.kind = kind
  BY <1>2 DEF SlotRecord
<1> HIDE DEF x
<1>9. m.slots \in Seq(SlotRecord) /\ DOMAIN m.slots = 1..a.blocks /\ DOMAIN d.slots = 1..b /\ Len(d.slots) = b
      /\ d.slots[b] = x /\ \A n \in DOMAIN m.slots : d.slots[n] = m.slots[n]
  <2>1. m.slots \in Seq(SlotRecord) /\ DOMAIN m.slots = 1..a.blocks
    BY <1>1, SlotsTyped
  <2> QED
    BY <2>1, <1>1, <1>7
<1>10. Spoken(u, p, d)
  <2>1. Spoken(u, p, m)
    BY DEF Fit
  <2>2. PiecesOf(p, {i}) = <<>>
    BY <2>1, <1>3 DEF Spoken
  <2> QED
    BY <2>1, <2>2, <1>1, <1>7, <1>8, SpokenMore
<1>11. Housed(c, u, d)
  <2>1. Housed(a, u, m)
    BY DEF Fit
  <2>2. Home(d.slots, i) = {b} /\ \A j \in DOMAIN u : j # i => Home(d.slots, j) = Home(m.slots, j)
    <3>1. \A j : Home(d.slots, j) = IF x.item = j THEN Home(m.slots, j) \cup {Len(m.slots) + 1} ELSE Home(m.slots, j)
      <4> SUFFICES ASSUME NEW j
                   PROVE  Home(d.slots, j) = IF x.item = j THEN Home(m.slots, j) \cup {Len(m.slots) + 1} ELSE Home(m.slots, j)
        OBVIOUS
      <4> DEFINE s == m.slots
      <4>1. s \in Seq(SlotRecord) /\ d.slots = Append(s, x)
        BY <1>7, <1>9
      <4> HIDE DEF s, x
      <4>2. Home(Append(s, x), j) = IF x.item = j THEN Home(s, j) \cup {Len(s) + 1} ELSE Home(s, j)
        BY <4>1, HomeMore
      <4> QED
        BY <4>1, <4>2 DEF s
    <3> QED
      BY <3>1, <1>1, <1>3, <1>8
  <2>3. CallKept(tool, u[i], {b})
    BY <1>1, <1>3, <1>4 DEF CallKept
  <2>4. \A j \in DOMAIN u :
       IF IsCall(u[j].kind) THEN CallKept(tools[j], u[j], Home(d.slots, j))
       ELSE /\ ~tools[j].started /\ tools[j].block = 0
            /\ IF u[j].kind = "sealed" /\ u[j].done THEN \E n \in DOMAIN d.slots : Home(d.slots, j) = {n}
               ELSE Home(d.slots, j) = {}
    <3> SUFFICES ASSUME NEW j \in DOMAIN u
                 PROVE  IF IsCall(u[j].kind) THEN CallKept(tools[j], u[j], Home(d.slots, j))
                        ELSE /\ ~tools[j].started /\ tools[j].block = 0
                             /\ IF u[j].kind = "sealed" /\ u[j].done THEN \E n \in DOMAIN d.slots : Home(d.slots, j) = {n}
                                ELSE Home(d.slots, j) = {}
      OBVIOUS
    <3>1. CASE j = i
      BY <3>1, <2>2, <2>3, <1>6
    <3>2. CASE j # i
      <4>1. tools[j] = a.tools[j] /\ Home(d.slots, j) = Home(m.slots, j) /\ \A n \in DOMAIN m.slots : n \in DOMAIN d.slots
        BY <3>2, <2>2, <1>1, <1>6, <1>9
      <4> QED
        BY <4>1, <2>1 DEF Housed
    <3> QED
      BY <3>1, <3>2
  <2>5. \A n \in DOMAIN d.slots :
       IF d.slots[n].kind \in {"text", "thinking"} THEN d.slots[n].item = 0
       ELSE d.slots[n].item \in DOMAIN u /\ u[d.slots[n].item].kind = d.slots[n].kind
    <3> SUFFICES ASSUME NEW n \in DOMAIN d.slots
                 PROVE  IF d.slots[n].kind \in {"text", "thinking"} THEN d.slots[n].item = 0
                        ELSE d.slots[n].item \in DOMAIN u /\ u[d.slots[n].item].kind = d.slots[n].kind
      OBVIOUS
    <3>1. CASE n = b
      <4>1. kind \notin {"text", "thinking"}
        BY DEF IsCall
      <4> QED
        BY <3>1, <4>1, <1>8, <1>9
    <3>2. CASE n # b
      <4>1. n \in DOMAIN m.slots
        BY <3>2, <1>1, <1>9
      <4> QED
        BY <4>1, <1>9, <2>1 DEF Housed
    <3> QED
      BY <3>1, <3>2
  <2> QED
    BY <1>2, <1>5, <1>6, <2>4, <2>5 DEF Housed
<1>12. Aligned(c, d)
  <2>1. Parts(c) = {}
    BY <1>5 DEF Parts
  <2>2. StartedBlocks(c) = StartedBlocks(a) \cup {b}
    <3>1. \A j \in DOMAIN u : c.tools[j].started <=> (j = i \/ a.tools[j].started)
      BY <1>4, <1>5, <1>6
    <3>2. DOMAIN c.tools = DOMAIN u /\ c.tools[i].block = b /\ \A j \in DOMAIN u : j # i => c.tools[j].block = a.tools[j].block
      BY <1>4, <1>5, <1>6
    <3>3. StartedBlocks(c) \subseteq StartedBlocks(a) \cup {b}
      BY <3>1, <3>2, <1>2 DEF StartedBlocks
    <3>4. StartedBlocks(a) \subseteq StartedBlocks(c)
      BY <3>1, <3>2, <1>2 DEF StartedBlocks
    <3>5. b \in StartedBlocks(c)
      BY <3>1, <3>2 DEF StartedBlocks
    <3> QED
      BY <3>3, <3>4, <3>5
  <2>3. Opened(d) = Parts(c) \cup StartedBlocks(c)
    BY <2>1, <2>2, <1>1, <1>7
  <2>4. \A n \in DOMAIN d.slots : n \notin Opened(d) => d.slots[n].done = 1
    <3> SUFFICES ASSUME NEW n \in DOMAIN d.slots, n \notin Opened(d) PROVE d.slots[n].done = 1
      OBVIOUS
    <3>1. n \in DOMAIN m.slots /\ n \notin Opened(m)
      BY <1>1, <1>7, <1>9
    <3> QED
      BY <3>1, <1>9 DEF Fit, Aligned
  <2> HIDE DEF b
  <2> QED
    BY <1>5, <1>7, <1>9, <2>3, <2>4 DEF Aligned
<1>13. c.tools[i].started
  BY <1>4, <1>5, <1>6
<1> QED
  BY <1>5, <1>10, <1>11, <1>12, <1>13 DEF Fit, d, c

(* What a call is ensured with leads to it being started, and no part open. *)
LEMMA ToolEnsured ==
  ASSUME NEW a, NEW u, NEW p, NEW m, Fit(a, u, p, m), NEW i \in DOMAIN u, IsCall(u[i].kind), ~u[i].done
  PROVE  LET e == EnsureTool(a, i, u[i].kind)
         IN /\ Fit(e.a, u, p, ProcessAll(m, e.out))
            /\ e.a.tools[i].started
            /\ e.out \in Seq(BridgeEvent)
<1> DEFINE c == CloseParts(a)
           s == BlockStart(a.blocks + 1, u[i].kind, i)
           n == WithTool(c.a, i)
           e == EnsureTool(a, i, u[i].kind)
<1>1. Fit(c.a, u, p, ProcessAll(m, c.out)) /\ c.a.open = "none" /\ c.a.tools = a.tools /\ c.a.blocks = a.blocks
      /\ c.out \in Seq(BridgeEvent)
  BY PartsClosed
<1>2. CASE a.tools[i].started
  <2>1. e = c
    BY <1>2 DEF EnsureTool
  <2> QED
    BY <2>1, <1>1, <1>2
<1>3. CASE ~a.tools[i].started
  <2>1. e.a = n /\ e.out = Append(c.out, s)
    <3>1. e.a = [NewBlock(c.a) EXCEPT !.tools[i] = OpenTool(a.blocks + 1)] /\ e.out = Append(c.out, s)
      BY <1>3 DEF EnsureTool
    <3> HIDE DEF c, s, e
    <3> QED
      BY <3>1, <1>1 DEF WithTool
  <2> HIDE DEF c, e
  <2>2. a.blocks \in Nat /\ u[i] \in ItemRecord /\ i \in Nat
    <3>1. c.a \in AdapterRecord /\ u \in Seq(ItemRecord)
      BY <1>1 DEF Fit, Aligned, Housed
    <3> QED
      BY <3>1, <1>1 DEF AdapterRecord
  <2>3. s \in BridgeEvent
    BY <2>2 DEF BridgeEvent, BlockStart, ItemRecord
  <2>4. s = BlockStart(c.a.blocks + 1, u[i].kind, i)
    BY <1>1
  <2> HIDE DEF s
  <2>5. Fit(n, u, p, Process(ProcessAll(m, c.out), s)) /\ n.tools[i].started
    BY <1>1, <1>3, <2>4, ToolOpens
  <2> HIDE DEF n
  <2>6. ProcessAll(m, Append(c.out, s)) = Process(ProcessAll(m, c.out), s) /\ Append(c.out, s) \in Seq(BridgeEvent)
    BY <1>1, <2>3, ProcessOne
  <2> QED
    BY <2>1, <2>5, <2>6 DEF e
<1> QED
  BY <1>2, <1>3

-----------------------------------------------------------------------------
(* Items and tools change one at a time.                                   *)

\* Nothing but what is known of item i changes, and not its kind.
ItemChanged(u, v, i) ==
  /\ v \in Seq(ItemRecord) /\ Len(v) = Len(u) /\ DOMAIN v = DOMAIN u
  /\ \A j \in DOMAIN u : v[j].kind = u[j].kind
  /\ \A j \in DOMAIN u : j # i => v[j] = u[j]

\* Nothing but the tool of item i changes, and not its block.
ToolChanged(a, c, i) ==
  /\ c \in AdapterRecord /\ c.blocks = a.blocks /\ c.open = a.open /\ c.openBlock = a.openBlock
  /\ Len(c.tools) = Len(a.tools) /\ DOMAIN c.tools = DOMAIN a.tools
  /\ c.tools[i].block = a.tools[i].block
  /\ \A j \in DOMAIN a.tools : j # i => c.tools[j] = a.tools[j]

\* The items with another one in place i.
Replaced(u, i, x, v) ==
  /\ v \in Seq(ItemRecord) /\ Len(v) = Len(u) /\ DOMAIN v = DOMAIN u /\ v[i] = x
  /\ \A j \in DOMAIN u : j # i => v[j] = u[j]

(* Items of which one is another.                                          *)
LEMMA ItemReplaced ==
  ASSUME NEW u \in Seq(ItemRecord), NEW i \in DOMAIN u, NEW x \in ItemRecord
  PROVE  Replaced(u, i, x, [u EXCEPT ![i] = x])
<1> DEFINE v == [u EXCEPT ![i] = x]
<1>1. Len(u) \in Nat /\ DOMAIN u = 1..Len(u) /\ \A j \in 1..Len(u) : u[j] \in ItemRecord
  OBVIOUS
<1>2. v = [j \in 1..Len(u) |-> IF j = i THEN x ELSE u[j]]
  BY <1>1
<1>3. \A j \in 1..Len(u) : (IF j = i THEN x ELSE u[j]) \in ItemRecord
  BY <1>1
<1> HIDE DEF v
<1>4. v \in [1..Len(u) -> ItemRecord]
  BY <1>2, <1>3
<1>5. v \in Seq(ItemRecord) /\ Len(v) = Len(u)
  BY <1>1, <1>4
<1>6. Replaced(u, i, x, v)
  BY <1>1, <1>2, <1>5 DEF Replaced
<1> QED
  BY <1>6 DEF v

\* The items with a further piece of item i.
OneMore(u, i, l) == [u EXCEPT ![i].sent = @ + 1, ![i].last = l]

(* A further piece of an item comes.                                       *)
LEMMA ItemSent ==
  ASSUME NEW u \in Seq(ItemRecord), NEW i \in DOMAIN u, NEW l \in BOOLEAN,
         NEW v, v = OneMore(u, i, l)
  PROVE  /\ ItemChanged(u, v, i)
         /\ v[i].sent = u[i].sent + 1 /\ v[i].last = l /\ v[i].done = u[i].done
<1> DEFINE x == [u[i] EXCEPT !.sent = @ + 1, !.last = l]
<1>1. u[i] \in ItemRecord /\ v = [u EXCEPT ![i] = x]
  <2> DEFINE y == [u[i] EXCEPT !.sent = @ + 1]
             w == [u EXCEPT ![i] = y]
  <2>1. w = [u EXCEPT ![i].sent = @ + 1] /\ u[i] \in ItemRecord
    OBVIOUS
  <2>2. v = [w EXCEPT ![i].last = l]
    BY <2>1 DEF OneMore
  <2>3. x = [y EXCEPT !.last = l]
    OBVIOUS
  <2> HIDE DEF y, x
  <2>4. w[i] = y
    OBVIOUS
  <2>5. [w EXCEPT ![i].last = l] = [w EXCEPT ![i] = x]
    BY <2>3, <2>4
  <2>6. [w EXCEPT ![i] = x] = [u EXCEPT ![i] = x]
    OBVIOUS
  <2> HIDE DEF w
  <2> QED
    BY <2>1, <2>2, <2>5, <2>6
<1>2. x \in ItemRecord /\ x.kind = u[i].kind /\ x.sent = u[i].sent + 1 /\ x.last = l /\ x.done = u[i].done
  <2> DEFINE y == u[i]
  <2>1. y \in ItemRecord
    BY <1>1
  <2> DEFINE z == [y EXCEPT !.sent = y.sent + 1]
  <2>2. z \in ItemRecord /\ z.kind = y.kind /\ z.sent = y.sent + 1 /\ z.done = y.done
    <3> HIDE DEF x, y
    <3> QED
      BY <2>1 DEF ItemRecord
  <2>3. x = [z EXCEPT !.last = l]
    OBVIOUS
  <2> HIDE DEF x, y, z
  <2>4. x \in ItemRecord /\ x.kind = z.kind /\ x.sent = z.sent /\ x.last = l /\ x.done = z.done
    BY <2>2, <2>3 DEF ItemRecord
  <2> QED
    BY <2>2, <2>4 DEF y
<1> HIDE DEF x
<1>3. v \in Seq(ItemRecord) /\ Len(v) = Len(u) /\ DOMAIN v = DOMAIN u /\ v[i] = x /\ \A j \in DOMAIN u : j # i => v[j] = u[j]
  <2>1. Replaced(u, i, x, [u EXCEPT ![i] = x])
    BY <1>2, ItemReplaced
  <2>2. Replaced(u, i, x, v)
    BY <2>1, <1>1
  <2> QED
    BY <2>2 DEF Replaced
<1> QED
  BY <1>2, <1>3 DEF ItemChanged

(* An item is done.                                                        *)
LEMMA ItemIsDone ==
  ASSUME NEW u \in Seq(ItemRecord), NEW i \in DOMAIN u, NEW v, v = [u EXCEPT ![i].done = TRUE]
  PROVE  /\ ItemChanged(u, v, i)
         /\ v[i].sent = u[i].sent /\ v[i].last = u[i].last /\ v[i].done
<1> DEFINE x == [u[i] EXCEPT !.done = TRUE]
<1>1. u[i] \in ItemRecord /\ v = [u EXCEPT ![i] = x]
  OBVIOUS
<1>2. x \in ItemRecord /\ x.kind = u[i].kind /\ x.sent = u[i].sent /\ x.last = u[i].last /\ x.done
  BY <1>1 DEF ItemRecord
<1> HIDE DEF x
<1>3. v \in Seq(ItemRecord) /\ Len(v) = Len(u) /\ DOMAIN v = DOMAIN u /\ v[i] = x /\ \A j \in DOMAIN u : j # i => v[j] = u[j]
  <2>1. Replaced(u, i, x, [u EXCEPT ![i] = x])
    BY <1>2, ItemReplaced
  <2>2. Replaced(u, i, x, v)
    BY <2>1, <1>1
  <2> QED
    BY <2>2 DEF Replaced
<1> QED
  BY <1>2, <1>3 DEF ItemChanged

(* The items of a kind stay those they are.                                *)
LEMMA ItemsStay ==
  ASSUME NEW u, NEW v, NEW i, ItemChanged(u, v, i)
  PROVE  \A kind : ItemsOfKind(v, kind) = ItemsOfKind(u, kind)
BY DEF ItemChanged, ItemsOfKind

(* What was said is so whatever is known of an item, if it is true of it.  *)
LEMMA SpokenChanged ==
  ASSUME NEW u, NEW v, NEW i \in DOMAIN u, NEW p, NEW m, Spoken(u, p, m), ItemChanged(u, v, i),
         IsCall(u[i].kind) => /\ (v[i].sent = 0 /\ ~v[i].done /\ ~v[i].last) => PiecesOf(p, {i}) = <<>>
                              /\ v[i].last => Whole(PiecesOf(p, {i}))
  PROVE  Spoken(v, p, m)
<1>1. DOMAIN v = DOMAIN u /\ \A kind : ItemsOfKind(v, kind) = ItemsOfKind(u, kind)
  <2>1. \A kind : ItemsOfKind(v, kind) = ItemsOfKind(u, kind)
    BY ItemsStay
  <2> QED
    BY <2>1 DEF ItemChanged
<1>2. \A j \in DOMAIN v : IsCall(v[j].kind) =>
       /\ (v[j].sent = 0 /\ ~v[j].done /\ ~v[j].last) => PiecesOf(p, {j}) = <<>>
       /\ v[j].last => Whole(PiecesOf(p, {j}))
  <2> SUFFICES ASSUME NEW j \in DOMAIN v, IsCall(v[j].kind)
               PROVE  /\ (v[j].sent = 0 /\ ~v[j].done /\ ~v[j].last) => PiecesOf(p, {j}) = <<>>
                      /\ v[j].last => Whole(PiecesOf(p, {j}))
    OBVIOUS
  <2>1. j \in DOMAIN u /\ IsCall(u[j].kind)
    BY <1>1 DEF ItemChanged
  <2>2. CASE j = i
    BY <2>1, <2>2
  <2>3. CASE j # i
    <3>1. v[j] = u[j]
      BY <2>1, <2>3 DEF ItemChanged
    <3> QED
      BY <2>1, <3>1 DEF Spoken
  <2> QED
    BY <2>2, <2>3
<1> QED
  BY <1>1, <1>2 DEF Spoken

\* The tools of the other items stay what they are.
ToolsKept(a, c, u, i) ==
  /\ Len(c.tools) = Len(a.tools)
  /\ \A j \in DOMAIN u : j # i => c.tools[j] = a.tools[j]

\* The item i is where it belongs.
ItemHoused(tool, item, m, i) ==
  IF IsCall(item.kind) THEN CallKept(tool, item, Home(m.slots, i))
  ELSE /\ ~tool.started /\ tool.block = 0
       /\ IF item.kind = "sealed" /\ item.done THEN \E n \in DOMAIN m.slots : Home(m.slots, i) = {n}
          ELSE Home(m.slots, i) = {}

(* The slots keep their items when one changes, if its own are right.      *)
LEMMA HousedChanged ==
  ASSUME NEW a, NEW c, NEW u, NEW v, NEW i \in DOMAIN u, NEW m, Housed(a, u, m), ItemChanged(u, v, i),
         ToolsKept(a, c, u, i), ItemHoused(c.tools[i], v[i], m, i)
  PROVE  Housed(c, v, m)
<1>1. v \in Seq(ItemRecord) /\ Len(c.tools) = Len(v) /\ DOMAIN v = DOMAIN u /\ \A j \in DOMAIN u : v[j].kind = u[j].kind
  BY DEF ItemChanged, Housed, ToolsKept
<1>2. \A j \in DOMAIN v :
       IF IsCall(v[j].kind) THEN CallKept(c.tools[j], v[j], Home(m.slots, j))
       ELSE /\ ~c.tools[j].started /\ c.tools[j].block = 0
            /\ IF v[j].kind = "sealed" /\ v[j].done THEN \E n \in DOMAIN m.slots : Home(m.slots, j) = {n}
               ELSE Home(m.slots, j) = {}
  <2> SUFFICES ASSUME NEW j \in DOMAIN u
               PROVE  IF IsCall(v[j].kind) THEN CallKept(c.tools[j], v[j], Home(m.slots, j))
                      ELSE /\ ~c.tools[j].started /\ c.tools[j].block = 0
                           /\ IF v[j].kind = "sealed" /\ v[j].done THEN \E n \in DOMAIN m.slots : Home(m.slots, j) = {n}
                              ELSE Home(m.slots, j) = {}
    BY <1>1
  <2>1. CASE j = i
    BY <2>1 DEF ItemHoused
  <2>2. CASE j # i
    <3>1. v[j] = u[j] /\ c.tools[j] = a.tools[j]
      BY <2>2 DEF ItemChanged, ToolsKept
    <3> QED
      BY <3>1 DEF Housed
  <2> QED
    BY <2>1, <2>2
<1>3. \A n \in DOMAIN m.slots :
       IF m.slots[n].kind \in {"text", "thinking"} THEN m.slots[n].item = 0
       ELSE m.slots[n].item \in DOMAIN v /\ v[m.slots[n].item].kind = m.slots[n].kind
  BY <1>1 DEF Housed
<1> QED
  BY <1>1, <1>2, <1>3 DEF Housed

(* A slot with a further piece.                                            *)
LEMMA PieceSlot ==
  ASSUME NEW m, Orderly(m), NEW d, Orderly(d), NEW b \in DOMAIN m.slots, NEW piece \in PieceRecord,
         d.slots = [m.slots EXCEPT ![b].pieces = Append(@, piece)]
  PROVE  /\ Len(d.slots) = Len(m.slots) /\ DOMAIN d.slots = DOMAIN m.slots
         /\ \A n \in DOMAIN m.slots : /\ d.slots[n].kind = m.slots[n].kind
                                      /\ d.slots[n].item = m.slots[n].item
                                      /\ d.slots[n].done = m.slots[n].done
         /\ d.slots[b].pieces = Append(m.slots[b].pieces, piece)
         /\ \A n \in DOMAIN m.slots : n # b => d.slots[n] = m.slots[n]
<1> DEFINE s == m.slots
           more == Append(s[b].pieces, piece)
           x == [s[b] EXCEPT !.pieces = more]
<1>1. s \in Seq(SlotRecord) /\ s[b] \in SlotRecord /\ DOMAIN s = 1..Len(s) /\ b \in DOMAIN s
  BY SlotsTyped
<1>2. d.slots = [s EXCEPT ![b] = x]
  BY <1>1
<1>3. x.done = s[b].done /\ x.kind = s[b].kind /\ x.item = s[b].item /\ x.pieces = more
  <2> HIDE DEF more
  <2> QED
    BY <1>1 DEF SlotRecord
<1> HIDE DEF x, s, more
<1>4. DOMAIN d.slots = DOMAIN s /\ d.slots[b] = x /\ \A n \in DOMAIN s : n # b => d.slots[n] = s[n]
  BY <1>1, <1>2
<1>5. Len(d.slots) = Len(s)
  <2>1. DOMAIN d.slots = 1..Len(d.slots) /\ Len(d.slots) \in Nat /\ Len(s) \in Nat
    BY <1>1, SlotsTyped DEF s
  <2> QED
    BY <2>1, <1>1, <1>4
<1>6. \A n \in DOMAIN s : d.slots[n].kind = s[n].kind /\ d.slots[n].item = s[n].item /\ d.slots[n].done = s[n].done
  BY <1>3, <1>4
<1> QED
  BY <1>3, <1>4, <1>5, <1>6 DEF s, more

(* What is open stays so, where the slots keep their kinds and their ends. *)
LEMMA StayAligned ==
  ASSUME NEW a, NEW c, NEW m, NEW d, Aligned(a, m), Taking(d), Opened(d) = Opened(m),
         Len(d.slots) = Len(m.slots), DOMAIN d.slots = DOMAIN m.slots,
         \A n \in DOMAIN m.slots : d.slots[n].kind = m.slots[n].kind /\ d.slots[n].done = m.slots[n].done,
         c \in AdapterRecord, c.blocks = a.blocks, c.open = a.open, c.openBlock = a.openBlock, StartedBlocks(c) = StartedBlocks(a)
  PROVE  Aligned(c, d)
<1>1. Parts(c) = Parts(a)
  BY DEF Parts
<1>2. a.open # "none" => a.blocks \in DOMAIN m.slots
  <2> SUFFICES ASSUME a.open # "none" PROVE a.blocks \in DOMAIN m.slots
    OBVIOUS
  <2>1. Orderly(m) /\ a.blocks \in Opened(m)
    BY DEF Aligned, Parts, Taking
  <2> QED
    BY <2>1, SlotsTyped
<1> QED
  BY <1>1, <1>2 DEF Aligned

-----------------------------------------------------------------------------
(* A piece is said, and a call ends.                                       *)

(* The last slot, of a kind, takes a piece of an item of that kind.        *)
LEMMA PartGrown ==
  ASSUME NEW u, NEW p, NEW m, NEW d, Orderly(m), Orderly(d), Spoken(u, p, m), Len(m.slots) > 0,
         NEW b, b = Len(m.slots), NEW i \in DOMAIN u, NEW piece \in PieceRecord, piece.item = i,
         m.slots[b].kind \in {"text", "thinking"}, m.slots[b].kind = BlockKind(u[i].kind), ~IsCall(u[i].kind),
         \A n \in DOMAIN m.slots : IsCall(m.slots[n].kind) =>
            m.slots[n].item \in DOMAIN u /\ u[m.slots[n].item].kind = m.slots[n].kind,
         d.slots = [m.slots EXCEPT ![b].pieces = Append(@, piece)]
  PROVE  Spoken(u, Append(p, piece), d)
<1> DEFINE q == Append(p, piece)
           s == m.slots
<1>1. s \in Seq(SlotRecord) /\ Len(s) \in Nat /\ DOMAIN s = 1..Len(s) /\ b \in DOMAIN s
  BY SlotsTyped
<1>2. /\ Len(d.slots) = Len(s) /\ DOMAIN d.slots = DOMAIN s
      /\ \A n \in DOMAIN s : d.slots[n].kind = s[n].kind /\ d.slots[n].item = s[n].item
      /\ \A n \in DOMAIN s : n # b => d.slots[n] = s[n]
  BY <1>1, PieceSlot
<1>3. p \in Seq(PieceRecord) /\ \A n \in DOMAIN p : p[n].item \in DOMAIN u
  BY DEF Spoken
<1>4. q \in Seq(PieceRecord) /\ \A n \in DOMAIN q : q[n].item \in DOMAIN u
  <2>1. Len(p) \in Nat /\ DOMAIN p = 1..Len(p) /\ DOMAIN q = 1..(Len(p) + 1) /\ q[Len(p) + 1] = piece
        /\ \A n \in 1..Len(p) : q[n] = p[n]
    BY <1>3
  <2>2. q \in Seq(PieceRecord)
    BY <1>3
  <2>3. ASSUME NEW n \in DOMAIN q PROVE q[n].item \in DOMAIN u
    <3> HIDE DEF q
    <3>1. CASE n = Len(p) + 1
      BY <3>1, <2>1
    <3>2. CASE n # Len(p) + 1
      <4>1. n \in 1..Len(p)
        BY <3>2, <2>1
      <4> QED
        BY <4>1, <2>1, <1>3
    <3> QED
      BY <3>1, <3>2
  <2> QED
    BY <2>2, <2>3
<1>5. \A items : PiecesOf(q, items) = IF i \in items THEN Append(PiecesOf(p, items), piece) ELSE PiecesOf(p, items)
  BY <1>3, SaidMore
<1> HIDE DEF q
<1>6. \A kind \in {"text", "thinking"} : GivenBy(d.slots, kind) = PiecesOf(q, ItemsOfKind(u, kind))
  <2> SUFFICES ASSUME NEW kind \in {"text", "thinking"} PROVE GivenBy(d.slots, kind) = PiecesOf(q, ItemsOfKind(u, kind))
    OBVIOUS
  <2>1. GivenBy(s, kind) = PiecesOf(p, ItemsOfKind(u, kind))
    BY DEF Spoken
  <2>2. i \in ItemsOfKind(u, kind) <=> s[b].kind = kind
    BY DEF ItemsOfKind
  <2>3. CASE s[b].kind = kind
    <3>1. GivenBy(WithPiece(s, Len(s), piece), kind) = Append(GivenBy(s, kind), piece)
      <4>1. s \in Seq(SlotRecord) /\ Len(s) > 0 /\ s[Len(s)].kind = kind
        BY <1>1, <2>3
      <4> HIDE DEF s
      <4> QED
        BY <4>1, GivenLast
    <3>2. d.slots = WithPiece(s, Len(s), piece)
      BY DEF WithPiece
    <3> QED
      BY <3>1, <3>2, <2>1, <2>2, <2>3, <1>5
  <2>4. CASE s[b].kind # kind
    <3>1. \A n \in DOMAIN s : d.slots[n].kind = s[n].kind /\ (s[n].kind = kind => d.slots[n].pieces = s[n].pieces)
      BY <1>2, <2>4
    <3>2. GivenBy(d.slots, kind) = GivenBy(s, kind)
      <4> DEFINE t == d.slots
      <4>1. DOMAIN t = DOMAIN s
        BY <1>2
      <4>2. \A n \in DOMAIN s : t[n].kind = s[n].kind /\ (s[n].kind = kind => t[n].pieces = s[n].pieces)
        BY <3>1
      <4> HIDE DEF s, t
      <4>3. GivenBy(t, kind) = GivenBy(s, kind)
        BY <4>1, <4>2, GivenSame
      <4> QED
        BY <4>3 DEF t
    <3> QED
      BY <3>2, <2>1, <2>2, <2>4, <1>5
  <2> QED
    BY <2>3, <2>4
<1>7. \A n \in DOMAIN d.slots : IsCall(d.slots[n].kind) => d.slots[n].pieces = PiecesOf(q, {d.slots[n].item})
  <2> SUFFICES ASSUME NEW n \in DOMAIN s, IsCall(s[n].kind) PROVE d.slots[n].pieces = PiecesOf(q, {d.slots[n].item})
    BY <1>2
  <2>1. n # b
    BY DEF IsCall
  <2>2. s[n].item # i
    OBVIOUS
  <2>3. s[n].pieces = PiecesOf(p, {s[n].item})
    BY DEF Spoken
  <2>4. PiecesOf(q, {s[n].item}) = PiecesOf(p, {s[n].item})
    BY <1>5, <2>2
  <2> QED
    BY <2>1, <2>3, <2>4, <1>2
<1>8. \A j \in DOMAIN u : IsCall(u[j].kind) => PiecesOf(q, {j}) = PiecesOf(p, {j})
  BY <1>5
<1> QED
  BY <1>4, <1>6, <1>7, <1>8 DEF Spoken, q

(* The slot of a call takes a piece of it.                                 *)
LEMMA CallGrown ==
  ASSUME NEW u, NEW p, NEW m, NEW d, Orderly(m), Orderly(d), Spoken(u, p, m),
         NEW b \in DOMAIN m.slots, NEW i \in DOMAIN u, NEW v, ItemChanged(u, v, i), NEW piece \in PieceRecord, piece.item = i,
         IsCall(u[i].kind), m.slots[b].kind = u[i].kind, Home(m.slots, i) = {b},
         v[i].sent = 0 => v[i].last, v[i].last => piece.last,
         d.slots = [m.slots EXCEPT ![b].pieces = Append(@, piece)]
  PROVE  Spoken(v, Append(p, piece), d)
<1> DEFINE q == Append(p, piece)
           s == m.slots
<1>1. s \in Seq(SlotRecord) /\ Len(s) \in Nat /\ DOMAIN s = 1..Len(s) /\ s[b].item = i
  BY SlotsTyped DEF Home
<1>2. /\ Len(d.slots) = Len(s) /\ DOMAIN d.slots = DOMAIN s
      /\ \A n \in DOMAIN s : d.slots[n].kind = s[n].kind /\ d.slots[n].item = s[n].item
      /\ \A n \in DOMAIN s : n # b => d.slots[n] = s[n]
      /\ d.slots[b].pieces = Append(s[b].pieces, piece)
  BY <1>1, PieceSlot
<1>3. p \in Seq(PieceRecord) /\ \A n \in DOMAIN p : p[n].item \in DOMAIN u
  BY DEF Spoken
<1>4. q \in Seq(PieceRecord) /\ \A n \in DOMAIN q : q[n].item \in DOMAIN u
  <2>1. Len(p) \in Nat /\ DOMAIN p = 1..Len(p) /\ DOMAIN q = 1..(Len(p) + 1) /\ q[Len(p) + 1] = piece
        /\ \A n \in 1..Len(p) : q[n] = p[n]
    BY <1>3
  <2>2. q \in Seq(PieceRecord)
    BY <1>3
  <2>3. ASSUME NEW n \in DOMAIN q PROVE q[n].item \in DOMAIN u
    <3> HIDE DEF q
    <3>1. CASE n = Len(p) + 1
      BY <3>1, <2>1
    <3>2. CASE n # Len(p) + 1
      <4>1. n \in 1..Len(p)
        BY <3>2, <2>1
      <4> QED
        BY <4>1, <2>1, <1>3
    <3> QED
      BY <3>1, <3>2
  <2> QED
    BY <2>2, <2>3
<1>5. \A items : PiecesOf(q, items) = IF i \in items THEN Append(PiecesOf(p, items), piece) ELSE PiecesOf(p, items)
  BY <1>3, SaidMore
<1>6. PiecesOf(p, {i}) \in Seq(PieceRecord) /\ Whole(Append(PiecesOf(p, {i}), piece)) = piece.last
  <2>1. PiecesOf(p, {i}) \in Seq(PieceRecord)
    BY <1>3, SaidMore
  <2> DEFINE g == PiecesOf(p, {i})
  <2> HIDE DEF g
  <2>2. g \in Seq(PieceRecord)
    BY <2>1 DEF g
  <2>3. Append(g, piece) # <<>> /\ Last(Append(g, piece)) = piece
    BY <2>2 DEF Last
  <2>4. Whole(Append(g, piece)) = piece.last
    BY <2>3 DEF Whole, PieceRecord
  <2> QED
    BY <2>2, <2>4 DEF g
<1> HIDE DEF q
<1>7. \A kind \in {"text", "thinking"} : GivenBy(d.slots, kind) = PiecesOf(q, ItemsOfKind(u, kind))
  <2> SUFFICES ASSUME NEW kind \in {"text", "thinking"} PROVE GivenBy(d.slots, kind) = PiecesOf(q, ItemsOfKind(u, kind))
    OBVIOUS
  <2>1. GivenBy(s, kind) = PiecesOf(p, ItemsOfKind(u, kind))
    BY DEF Spoken
  <2>2. i \notin ItemsOfKind(u, kind) /\ s[b].kind # kind
    BY DEF ItemsOfKind, IsCall, BlockKind
  <2>3. \A n \in DOMAIN s : d.slots[n].kind = s[n].kind /\ (s[n].kind = kind => d.slots[n].pieces = s[n].pieces)
    BY <1>2, <2>2
  <2>4. GivenBy(d.slots, kind) = GivenBy(s, kind)
    <3> DEFINE t == d.slots
    <3>1. DOMAIN t = DOMAIN s
      BY <1>2
    <3>2. \A n \in DOMAIN s : t[n].kind = s[n].kind /\ (s[n].kind = kind => t[n].pieces = s[n].pieces)
      BY <2>3
    <3> HIDE DEF s, t
    <3>3. GivenBy(t, kind) = GivenBy(s, kind)
      BY <3>1, <3>2, GivenSame
    <3> QED
      BY <3>3 DEF t
  <2> QED
    BY <2>1, <2>2, <2>4, <1>5
<1>8. \A n \in DOMAIN d.slots : IsCall(d.slots[n].kind) => d.slots[n].pieces = PiecesOf(q, {d.slots[n].item})
  <2> SUFFICES ASSUME NEW n \in DOMAIN s, IsCall(s[n].kind) PROVE d.slots[n].pieces = PiecesOf(q, {d.slots[n].item})
    BY <1>2
  <2>1. s[n].pieces = PiecesOf(p, {s[n].item})
    BY DEF Spoken
  <2>2. CASE n = b
    <3>1. d.slots[b].item = i /\ d.slots[b].pieces = Append(PiecesOf(p, {i}), piece)
      BY <2>1, <2>2, <1>1, <1>2
    <3> QED
      BY <2>2, <3>1, <1>5
  <2>3. CASE n # b
    <3>1. s[n].item # i
      BY <2>3 DEF Home
    <3>2. PiecesOf(q, {s[n].item}) = PiecesOf(p, {s[n].item})
      BY <1>5, <3>1
    <3> QED
      BY <2>1, <2>3, <3>2, <1>2
  <2> QED
    BY <2>2, <2>3
<1>9. DOMAIN v = DOMAIN u /\ \A kind : ItemsOfKind(v, kind) = ItemsOfKind(u, kind)
  <2>1. \A kind : ItemsOfKind(v, kind) = ItemsOfKind(u, kind)
    BY ItemsStay
  <2> QED
    BY <2>1 DEF ItemChanged
<1>10. \A j \in DOMAIN v : IsCall(v[j].kind) =>
       /\ (v[j].sent = 0 /\ ~v[j].done /\ ~v[j].last) => PiecesOf(q, {j}) = <<>>
       /\ v[j].last => Whole(PiecesOf(q, {j}))
  <2> SUFFICES ASSUME NEW j \in DOMAIN u, IsCall(v[j].kind)
               PROVE  /\ (v[j].sent = 0 /\ ~v[j].done /\ ~v[j].last) => PiecesOf(q, {j}) = <<>>
                      /\ v[j].last => Whole(PiecesOf(q, {j}))
    BY <1>9
  <2>1. CASE j = i
    <3>1. PiecesOf(q, {j}) = Append(PiecesOf(p, {i}), piece)
      BY <2>1, <1>5
    <3> QED
      BY <2>1, <3>1, <1>6
  <2>2. CASE j # i
    <3>1. PiecesOf(q, {j}) = PiecesOf(p, {j}) /\ v[j] = u[j]
      BY <2>2, <1>5 DEF ItemChanged
    <3> QED
      BY <3>1 DEF Spoken
  <2> QED
    BY <2>1, <2>2
<1> QED
  BY <1>4, <1>7, <1>8, <1>9, <1>10 DEF Spoken, q

(* The slots are housed alike where they are of the same kinds and items.  *)
LEMMA HousedSame ==
  ASSUME NEW a, NEW u, NEW m, NEW d, Housed(a, u, m), DOMAIN d.slots = DOMAIN m.slots,
         \A n \in DOMAIN m.slots : d.slots[n].kind = m.slots[n].kind /\ d.slots[n].item = m.slots[n].item
  PROVE  Housed(a, u, d)
<1>1. \A i : Home(d.slots, i) = Home(m.slots, i)
  BY DEF Home
<1> QED
  BY <1>1 DEF Housed

(* What a fit says of the types.                                           *)
LEMMA FitTyped ==
  ASSUME NEW a, NEW u, NEW p, NEW m, Fit(a, u, p, m)
  PROVE  /\ a \in AdapterRecord /\ a.blocks \in Nat /\ a.tools \in Seq(CallRecord)
         /\ u \in Seq(ItemRecord) /\ p \in Seq(PieceRecord) /\ Len(a.tools) = Len(u) /\ DOMAIN a.tools = DOMAIN u
         /\ Taking(m) /\ Orderly(m)
         /\ \A i \in DOMAIN u : i \in Nat /\ i # 0 /\ u[i] \in ItemRecord /\ a.tools[i] \in CallRecord
<1>1. a \in AdapterRecord /\ u \in Seq(ItemRecord) /\ p \in Seq(PieceRecord) /\ Len(a.tools) = Len(u) /\ Taking(m) /\ Orderly(m)
  BY DEF Fit, Aligned, Housed, Spoken, Taking
<1>2. a.blocks \in Nat /\ a.tools \in Seq(CallRecord)
  BY <1>1 DEF AdapterRecord
<1>3. DOMAIN a.tools = DOMAIN u /\ \A i \in DOMAIN u : i \in Nat /\ i # 0 /\ u[i] \in ItemRecord /\ a.tools[i] \in CallRecord
  BY <1>1, <1>2
<1> QED
  BY <1>1, <1>2, <1>3

\* The slot of block b, and nothing else, has a further piece.
PieceGoes(m, b, piece, d) ==
  /\ Taking(d) /\ Orderly(d) /\ Opened(d) = Opened(m) /\ b \in DOMAIN m.slots
  /\ d.slots = [m.slots EXCEPT ![b].pieces = Append(@, piece)]
  /\ Len(d.slots) = Len(m.slots) /\ DOMAIN d.slots = DOMAIN m.slots
  /\ \A n \in DOMAIN m.slots : /\ d.slots[n].kind = m.slots[n].kind
                               /\ d.slots[n].item = m.slots[n].item
                               /\ d.slots[n].done = m.slots[n].done

(* A delta goes to the slot of its block.                                  *)
LEMMA DeltaGoes ==
  ASSUME NEW m, Taking(m), NEW b \in Opened(m), NEW piece \in PieceRecord
  PROVE  PieceGoes(m, b, piece, Process(m, BlockDelta(b, piece)))
<1> DEFINE d == Process(m, BlockDelta(b, piece))
<1>1. Taking(d) /\ Opened(d) = Opened(m) /\ d.slots = [m.slots EXCEPT ![b].pieces = Append(@, piece)]
  BY DeltaProcessed
<1> HIDE DEF d
<1>2. Orderly(m) /\ Orderly(d)
  BY <1>1 DEF Taking
<1>3. b \in DOMAIN m.slots
  BY <1>2, SlotsTyped
<1>4. /\ Len(d.slots) = Len(m.slots) /\ DOMAIN d.slots = DOMAIN m.slots
      /\ \A n \in DOMAIN m.slots : /\ d.slots[n].kind = m.slots[n].kind
                                   /\ d.slots[n].item = m.slots[n].item
                                   /\ d.slots[n].done = m.slots[n].done
  BY <1>1, <1>2, <1>3, PieceSlot
<1>5. PieceGoes(m, b, piece, d)
  BY <1>1, <1>2, <1>3, <1>4 DEF PieceGoes
<1> QED
  BY <1>5 DEF d

(* A piece of an item that is no call goes to the open part.               *)
LEMMA PartSpoken ==
  ASSUME NEW a, NEW u, NEW p, NEW m, Fit(a, u, p, m), NEW i \in DOMAIN u, ~IsCall(u[i].kind), a.open = BlockKind(u[i].kind),
         NEW v, ItemChanged(u, v, i), v[i].done = u[i].done,
         NEW piece \in PieceRecord, piece.item = i
  PROVE  Fit(a, v, Append(p, piece), Process(m, BlockDelta(a.openBlock, piece)))
<1> DEFINE b == a.openBlock
           d == Process(m, BlockDelta(b, piece))
<1>1. /\ a \in AdapterRecord /\ u \in Seq(ItemRecord) /\ Taking(m) /\ Orderly(m) /\ u[i] \in ItemRecord
      /\ Housed(a, u, m) /\ Spoken(u, p, m) /\ Aligned(a, m)
  BY FitTyped DEF Fit
<1>2. a.open \in {"text", "thinking"}
  BY <1>1 DEF ItemRecord, ItemKind, IsCall, BlockKind
<1>3. b = a.blocks /\ b > 0 /\ b = Len(m.slots) /\ m.slots[b].kind = a.open /\ b \in Opened(m)
  BY <1>1, <1>2 DEF Aligned, Parts
<1>4. /\ Taking(d) /\ Orderly(d) /\ Opened(d) = Opened(m) /\ b \in DOMAIN m.slots
      /\ d.slots = [m.slots EXCEPT ![b].pieces = Append(@, piece)]
      /\ Len(d.slots) = Len(m.slots) /\ DOMAIN d.slots = DOMAIN m.slots
      /\ \A n \in DOMAIN m.slots : /\ d.slots[n].kind = m.slots[n].kind
                                   /\ d.slots[n].item = m.slots[n].item
                                   /\ d.slots[n].done = m.slots[n].done
  <2> HIDE DEF b
  <2>1. PieceGoes(m, b, piece, Process(m, BlockDelta(b, piece)))
    BY <1>1, <1>3, DeltaGoes
  <2> QED
    BY <2>1 DEF PieceGoes
<1> HIDE DEF d
<1>5. Spoken(v, Append(p, piece), d)
  <2>1. \A n \in DOMAIN m.slots : IsCall(m.slots[n].kind) =>
            m.slots[n].item \in DOMAIN u /\ u[m.slots[n].item].kind = m.slots[n].kind
    BY <1>1 DEF Housed, IsCall
  <2>2. Len(m.slots) > 0 /\ m.slots[b].kind \in {"text", "thinking"} /\ m.slots[b].kind = BlockKind(u[i].kind)
    BY <1>2, <1>3
  <2> HIDE DEF b
  <2>3. Spoken(u, Append(p, piece), d)
    BY <1>1, <1>3, <1>4, <2>1, <2>2, PartGrown
  <2> QED
    BY <2>3, SpokenChanged
<1>6. Housed(a, v, d)
  <2>1. ItemHoused(a.tools[i], v[i], m, i)
    BY <1>1 DEF Housed, ItemHoused, ItemChanged
  <2>2. Housed(a, v, m)
    <3>1. ToolsKept(a, a, u, i)
      BY DEF ToolsKept
    <3> QED
      BY <1>1, <2>1, <3>1, HousedChanged
  <2> QED
    BY <2>2, <1>4, HousedSame
<1>7. Aligned(a, d)
  BY <1>1, <1>4, StayAligned
<1> QED
  BY <1>5, <1>6, <1>7 DEF Fit, d, b

(* The blocks of the started tools, when one changes.                      *)
LEMMA StartedSame ==
  ASSUME NEW a, NEW c, NEW i \in DOMAIN a.tools, ToolChanged(a, c, i), c.tools[i].started = a.tools[i].started
  PROVE  StartedBlocks(c) = StartedBlocks(a)
<1>1. DOMAIN c.tools = DOMAIN a.tools
      /\ \A j \in DOMAIN a.tools : c.tools[j].started = a.tools[j].started /\ c.tools[j].block = a.tools[j].block
  BY DEF ToolChanged
<1> QED
  BY <1>1 DEF StartedBlocks

(* A piece of a call goes to the block of the call.                        *)
LEMMA CallSpoken ==
  ASSUME NEW a, NEW c, NEW u, NEW v, NEW p, NEW m, Fit(a, u, p, m),
         NEW i \in DOMAIN u, IsCall(u[i].kind), a.tools[i].started,
         ItemChanged(u, v, i), v[i].done = u[i].done, v[i].sent = 0 => v[i].last,
         ToolChanged(a, c, i), c.tools[i].started = a.tools[i].started, c.tools[i].received <=> v[i].sent > 0,
         NEW piece \in PieceRecord, piece.item = i, v[i].last => piece.last
  PROVE  Fit(c, v, Append(p, piece), Process(m, BlockDelta(a.tools[i].block, piece)))
<1> DEFINE b == a.tools[i].block
           d == Process(m, BlockDelta(b, piece))
           home == Home(m.slots, i)
<1>1. /\ a \in AdapterRecord /\ u \in Seq(ItemRecord) /\ Taking(m) /\ Orderly(m) /\ u[i] \in ItemRecord
      /\ Housed(a, u, m) /\ Spoken(u, p, m) /\ Aligned(a, m) /\ i \in DOMAIN a.tools
  BY FitTyped DEF Fit
<1>2. CallKept(a.tools[i], u[i], home)
  BY <1>1, CallHoused
<1>3. b # 0 /\ home = {b} /\ ~u[i].done
  BY <1>2 DEF CallKept
<1>4. b \in Opened(m) /\ m.slots[b].kind = u[i].kind
  BY <1>1, StartedTool
<1>5. /\ Taking(d) /\ Orderly(d) /\ Opened(d) = Opened(m) /\ b \in DOMAIN m.slots
      /\ d.slots = [m.slots EXCEPT ![b].pieces = Append(@, piece)]
      /\ Len(d.slots) = Len(m.slots) /\ DOMAIN d.slots = DOMAIN m.slots
      /\ \A n \in DOMAIN m.slots : /\ d.slots[n].kind = m.slots[n].kind
                                   /\ d.slots[n].item = m.slots[n].item
                                   /\ d.slots[n].done = m.slots[n].done
  <2> HIDE DEF b
  <2>1. PieceGoes(m, b, piece, Process(m, BlockDelta(b, piece)))
    BY <1>1, <1>4, DeltaGoes
  <2> QED
    BY <2>1 DEF PieceGoes
<1> HIDE DEF d, home
<1>6. Housed(c, v, m) /\ Housed(c, v, d)
  <2>1. CallKept(c.tools[i], v[i], home)
    <3>1. c.tools[i].block = b
      BY DEF ToolChanged
    <3> HIDE DEF b
    <3> QED
      BY <3>1, <1>2, <1>3 DEF CallKept
  <2>2. ToolsKept(a, c, u, i)
    BY FitTyped DEF ToolChanged, ToolsKept
  <2>3. ItemHoused(c.tools[i], v[i], m, i)
    BY <2>1 DEF home, ItemHoused, ItemChanged
  <2>4. Housed(c, v, m)
    <3>1. Housed(a, u, m) /\ ItemChanged(u, v, i)
      BY <1>1
    <3> QED
      BY <3>1, <2>2, <2>3, HousedChanged
  <2> QED
    BY <2>4, <1>5, HousedSame
<1>7. v[i].kind = u[i].kind /\ i \in DOMAIN v
  BY DEF ItemChanged
<1>8. Spoken(v, Append(p, piece), d)
  <2>1. b \in DOMAIN m.slots /\ m.slots[b].kind = u[i].kind /\ Home(m.slots, i) = {b}
    BY <1>3, <1>4, <1>5 DEF home
  <2> HIDE DEF b
  <2> QED
    BY <1>1, <1>5, <2>1, CallGrown
<1>9. Aligned(c, d)
  <2>1. StartedBlocks(c) = StartedBlocks(a)
    BY <1>1, StartedSame
  <2> QED
    BY <1>1, <1>5, <2>1, StayAligned DEF ToolChanged
<1> QED
  BY <1>6, <1>8, <1>9 DEF Fit, d, b

(* A tool that stops takes its block from those that are open.             *)
LEMMA StartedBut ==
  ASSUME NEW a, NEW c, NEW u, NEW p, NEW m, Fit(a, u, p, m), NEW i \in DOMAIN a.tools, a.tools[i].started,
         ToolChanged(a, c, i), ~c.tools[i].started
  PROVE  StartedBlocks(c) = StartedBlocks(a) \ {a.tools[i].block}
<1>1. DOMAIN c.tools = DOMAIN a.tools /\ \A j \in DOMAIN a.tools : j # i => c.tools[j] = a.tools[j]
  BY DEF ToolChanged
<1>2. ASSUME NEW j \in DOMAIN a.tools, a.tools[j].started, j # i PROVE a.tools[j].block # a.tools[i].block
  <2>1. m.slots[a.tools[j].block].item = j
    BY <1>2, StartedTool
  <2>2. m.slots[a.tools[i].block].item = i
    BY StartedTool
  <2> QED
    BY <2>1, <2>2, <1>2
<1>3. ASSUME NEW b \in StartedBlocks(c) PROVE b \in StartedBlocks(a) \ {a.tools[i].block}
  <2>1. PICK j \in DOMAIN a.tools : c.tools[j].started /\ c.tools[j].block = b
    BY <1>1, <1>3 DEF StartedBlocks
  <2>2. j # i
    BY <2>1
  <2>3. a.tools[j].started /\ a.tools[j].block = b
    BY <2>1, <2>2, <1>1
  <2> QED
    BY <2>2, <2>3, <1>2 DEF StartedBlocks
<1>4. ASSUME NEW b \in StartedBlocks(a), b # a.tools[i].block PROVE b \in StartedBlocks(c)
  <2>1. PICK j \in DOMAIN a.tools : a.tools[j].started /\ a.tools[j].block = b
    BY <1>4 DEF StartedBlocks
  <2>2. c.tools[j] = a.tools[j]
    BY <2>1, <1>1, <1>4
  <2> QED
    BY <2>1, <2>2, <1>1 DEF StartedBlocks
<1> QED
  BY <1>3, <1>4

(* A call that is done stops its block.                                    *)
LEMMA CallStopped ==
  ASSUME NEW a, NEW c, NEW u, NEW v, NEW p, NEW m, Fit(a, u, p, m),
         NEW i \in DOMAIN u, IsCall(u[i].kind), a.tools[i].started, u[i].kind = "call" => Whole(PiecesOf(p, {i})),
         ItemChanged(u, v, i), v[i].done, v[i].sent = u[i].sent, v[i].last => Whole(PiecesOf(p, {i})),
         ToolChanged(a, c, i), ~c.tools[i].started, c.tools[i].received <=> a.tools[i].received
  PROVE  Fit(c, v, p, Process(m, BlockStop(a.tools[i].block)))
<1> DEFINE b == a.tools[i].block
           d == Process(m, BlockStop(b))
<1>1. /\ a \in AdapterRecord /\ u \in Seq(ItemRecord) /\ Taking(m) /\ Orderly(m) /\ u[i] \in ItemRecord
      /\ Housed(a, u, m) /\ Spoken(u, p, m) /\ Aligned(a, m) /\ i \in DOMAIN a.tools
  BY FitTyped DEF Fit
<1>2. CallKept(a.tools[i], u[i], Home(m.slots, i))
  BY <1>1, CallHoused
<1>3. b # 0 /\ Home(m.slots, i) = {b}
  BY <1>2 DEF CallKept
<1>4. b \in Opened(m) /\ b \in DOMAIN m.slots /\ m.slots[b].kind = u[i].kind /\ m.slots[b].item = i
  BY <1>1, StartedTool
<1>5. Taking(d) /\ Opened(d) = Opened(m) \ {b} /\ d.slots = [m.slots EXCEPT ![b].done = 1]
  <2>1. m.slots[b].kind # "call" \/ Whole(m.slots[b].pieces)
    <3>1. m.slots[b].pieces = PiecesOf(p, {i})
      BY <1>1, <1>4 DEF Spoken
    <3> QED
      BY <3>1, <1>4
  <2> HIDE DEF b
  <2> QED
    BY <1>1, <1>4, <2>1, StopProcessed
<1> HIDE DEF d
<1>6. SameSlots(m, d) /\ DOMAIN d.slots = DOMAIN m.slots
      /\ d.slots[b].done = 1 /\ \A n \in DOMAIN m.slots : n # b => d.slots[n] = m.slots[n]
  <2>1. Orderly(d)
    BY <1>5 DEF Taking
  <2> HIDE DEF b
  <2> QED
    BY <1>1, <1>4, <1>5, <2>1, DoneSlot
<1>7. Housed(a, u, d) /\ Spoken(u, p, d)
  BY <1>1, <1>6, StayHoused
<1>8. Spoken(v, p, d)
  BY <1>7, SpokenChanged
<1>9. Housed(c, v, d)
  <2>1. Home(d.slots, i) = Home(m.slots, i)
    BY <1>6 DEF SameSlots, Home
  <2>2. CallKept(c.tools[i], v[i], Home(d.slots, i))
    <3>1. c.tools[i].block = b
      BY DEF ToolChanged
    <3> HIDE DEF b
    <3> QED
      BY <2>1, <3>1, <1>2, <1>3 DEF CallKept
  <2>3. ItemHoused(c.tools[i], v[i], d, i)
    BY <2>2 DEF ItemHoused, ItemChanged
  <2>4. ToolsKept(a, c, u, i)
    BY FitTyped DEF ToolChanged, ToolsKept
  <2> QED
    BY <1>7, <2>3, <2>4, HousedChanged
<1>10. Aligned(c, d)
  <2>1. StartedBlocks(c) = StartedBlocks(a) \ {b}
    BY <1>1, StartedBut
  <2>2. c \in AdapterRecord /\ c.blocks = a.blocks /\ c.open = a.open /\ c.openBlock = a.openBlock /\ Parts(c) = Parts(a)
    BY DEF ToolChanged, Parts
  <2>3. a.open # "none" => a.blocks \in DOMAIN m.slots /\ a.blocks # b
    <3> SUFFICES ASSUME a.open # "none" PROVE a.blocks \in DOMAIN m.slots /\ a.blocks # b
      OBVIOUS
    <3>1. a.blocks \in Opened(m) /\ m.slots[a.blocks].kind = a.open /\ a.open \in {"text", "thinking"}
      BY <1>1 DEF Aligned, Parts, AdapterRecord
    <3>2. a.blocks \in DOMAIN m.slots
      BY <1>1, <3>1, SlotsTyped
    <3> QED
      BY <3>1, <3>2, <1>4 DEF IsCall
  <2>4. Opened(d) = Parts(c) \cup StartedBlocks(c)
    <3>1. b \notin Parts(a)
      BY <2>3 DEF Parts
    <3>2. Opened(m) = Parts(a) \cup StartedBlocks(a)
      BY <1>1 DEF Aligned
    <3> QED
      BY <3>1, <3>2, <2>1, <2>2, <1>5
  <2>5. Len(d.slots) = c.blocks
    BY <1>1, <1>6, <2>2 DEF SameSlots, Aligned
  <2>6. c.open # "none" => c.openBlock = c.blocks /\ c.blocks > 0 /\ d.slots[c.blocks].kind = c.open
    BY <1>1, <1>6, <2>2, <2>3 DEF Aligned
  <2>7. \A n \in DOMAIN d.slots : n \notin Opened(d) => d.slots[n].done = 1
    BY <1>1, <1>5, <1>6 DEF Aligned
  <2> QED
    BY <1>5, <2>2, <2>4, <2>5, <2>6, <2>7 DEF Aligned
<1> QED
  BY <1>8, <1>9, <1>10 DEF Fit, d, b

(* Text or open reasoning that is done changes nothing else.               *)
LEMMA OtherDone ==
  ASSUME NEW a, NEW u, NEW v, NEW p, NEW m, Fit(a, u, p, m),
         NEW i \in DOMAIN u, u[i].kind \in {"text", "thinking"}, ItemChanged(u, v, i)
  PROVE  Fit(a, v, p, m)
<1>1. Housed(a, u, m) /\ Spoken(u, p, m) /\ Aligned(a, m) /\ ~IsCall(u[i].kind)
  BY DEF Fit, IsCall
<1>2. Spoken(v, p, m)
  BY <1>1, SpokenChanged
<1>3. ItemHoused(a.tools[i], v[i], m, i)
  BY <1>1 DEF Housed, ItemHoused, ItemChanged
<1>4. ToolsKept(a, a, u, i)
  BY DEF ToolsKept
<1>5. Housed(a, v, m)
  BY <1>1, <1>3, <1>4, HousedChanged
<1> QED
  BY <1>1, <1>2, <1>5 DEF Fit

(* Nothing fits nothing.                                                   *)
LEMMA FitNew == Fit(NewAdapter, <<>>, <<>>, NewAssembler)
<1>1. NewAdapter \in AdapterRecord
  BY DEF NewAdapter, AdapterRecord
<1>2. NewAssembler \in AssemblerRecord
  BY DEF NewAssembler, AssemblerRecord, StopWord, ResponseStatus
<1>3. Opened(NewAssembler) = {} /\ Parts(NewAdapter) = {} /\ StartedBlocks(NewAdapter) = {}
  BY DEF NewAdapter, NewAssembler, Opened, Parts, StartedBlocks
<1>4. Taking(NewAssembler)
  BY <1>2 DEF Taking, Orderly, NewAssembler
<1>5. Aligned(NewAdapter, NewAssembler)
  BY <1>1, <1>3, <1>4 DEF Aligned, NewAdapter, NewAssembler
<1>6. Housed(NewAdapter, <<>>, NewAssembler)
  BY DEF Housed, NewAdapter, NewAssembler
<1>7. Spoken(<<>>, <<>>, NewAssembler)
  <2>1. NewAssembler.slots = <<>>
    BY DEF NewAssembler
  <2>2. \A kind : GivenBy(NewAssembler.slots, kind) = <<>>
    BY <2>1, NothingGiven
  <2>3. \A items : PiecesOf(<<>>, items) = <<>>
    BY NothingGiven
  <2> QED
    BY <2>1, <2>2, <2>3 DEF Spoken
<1> QED
  BY <1>5, <1>6, <1>7 DEF Fit

(* Sealed reasoning that is done is a block of its own, done at once.      *)
LEMMA SealedDone ==
  ASSUME NEW a, NEW u, NEW v, NEW p, NEW m, Fit(a, u, p, m), a.open = "none",
         NEW i \in DOMAIN u, u[i].kind = "sealed", ~u[i].done, ItemChanged(u, v, i), v[i].done,
         NEW b, b = a.blocks + 1
  PROVE  Fit(NewBlock(a), v, p, Process(Process(m, BlockStart(b, "sealed", i)), BlockStop(b)))
<1> DEFINE c == NewBlock(a)
           x == [kind |-> "sealed", item |-> i, pieces |-> <<>>, done |-> 0]
           d == Process(m, BlockStart(b, "sealed", i))
           e == Process(d, BlockStop(b))
<1>1. /\ a \in AdapterRecord /\ u \in Seq(ItemRecord) /\ Taking(m) /\ Orderly(m) /\ a.blocks \in Nat
      /\ Housed(a, u, m) /\ Spoken(u, p, m) /\ Aligned(a, m) /\ i \in Nat
  BY FitTyped DEF Fit
<1>2. Len(m.slots) = a.blocks /\ Opened(m) = StartedBlocks(a) /\ Home(m.slots, i) = {} /\ ~a.tools[i].started /\ a.tools[i].block = 0
  <2>1. Len(m.slots) = a.blocks /\ Opened(m) = StartedBlocks(a)
    BY <1>1 DEF Aligned, Parts
  <2>2. Home(m.slots, i) = {} /\ ~a.tools[i].started /\ a.tools[i].block = 0
    BY <1>1 DEF Housed, IsCall
  <2> QED
    BY <2>1, <2>2
<1>3. c \in AdapterRecord /\ c.blocks = b /\ c.open = "none" /\ c.tools = a.tools
  <2>1. c = [blocks |-> b, open |-> a.open, openBlock |-> a.openBlock, tools |-> a.tools]
    BY <1>1 DEF NewBlock, AdapterRecord
  <2>2. b \in Nat
    BY <1>1
  <2> HIDE DEF c
  <2> QED
    BY <1>1, <2>1, <2>2 DEF AdapterRecord
<1> HIDE DEF c
<1>4. Taking(d) /\ Opened(d) = Opened(m) \cup {b} /\ d.slots = Append(m.slots, x)
  <2>1. b = Len(m.slots) + 1 /\ "sealed" \in ItemKind
    BY <1>2 DEF ItemKind
  <2> HIDE DEF x, d
  <2>2. SlotStarted(m, Process(m, BlockStart(b, "sealed", i)), b, "sealed", i)
    BY <2>1, <1>1, StartProcessed
  <2> QED
    BY <2>2 DEF d, x, SlotStarted
<1>5. x \in SlotRecord /\ x.pieces = <<>> /\ x.item = i /\ x.kind = "sealed" /\ ~IsCall(x.kind)
  BY <1>1 DEF SlotRecord, ItemKind, IsCall
<1> HIDE DEF x, d
<1>6. m.slots \in Seq(SlotRecord) /\ DOMAIN m.slots = 1..a.blocks /\ DOMAIN d.slots = 1..b /\ Len(d.slots) = b
      /\ d.slots[b] = x /\ \A n \in DOMAIN m.slots : d.slots[n] = m.slots[n]
  <2>1. m.slots \in Seq(SlotRecord) /\ DOMAIN m.slots = 1..a.blocks
    BY <1>1, <1>2, SlotsTyped
  <2> QED
    BY <2>1, <1>1, <1>4
<1>7. Taking(e) /\ Opened(e) = Opened(d) \ {b} /\ e.slots = [d.slots EXCEPT ![b].done = 1]
  <2>1. b \in Opened(d) /\ Taking(d) /\ (d.slots[b].kind # "call" \/ Whole(d.slots[b].pieces))
    BY <1>4, <1>5, <1>6
  <2> QED
    BY <2>1, StopProcessed
<1> HIDE DEF e
<1>8. SameSlots(d, e) /\ DOMAIN e.slots = DOMAIN d.slots
      /\ e.slots[b].done = 1 /\ \A n \in DOMAIN d.slots : n # b => e.slots[n] = d.slots[n]
  <2>1. Orderly(d) /\ Orderly(e) /\ b \in DOMAIN d.slots
    BY <1>1, <1>4, <1>6, <1>7 DEF Taking
  <2> QED
    BY <2>1, <1>7, DoneSlot
<1>9. Spoken(v, p, d)
  <2>1. Spoken(u, p, d)
    BY <1>1, <1>4, <1>5, SpokenMore
  <2> QED
    BY <2>1, SpokenChanged DEF IsCall
<1>10. Housed(c, v, d)
  <2>1. v \in Seq(ItemRecord) /\ Len(c.tools) = Len(v) /\ DOMAIN v = DOMAIN u /\ v[i].kind = "sealed"
        /\ \A j \in DOMAIN u : v[j].kind = u[j].kind
    BY <1>1, <1>3 DEF ItemChanged, Housed
  <2>2. \A j : Home(d.slots, j) = IF i = j THEN Home(m.slots, j) \cup {b} ELSE Home(m.slots, j)
    <3> SUFFICES ASSUME NEW j
                 PROVE  Home(d.slots, j) = IF i = j THEN Home(m.slots, j) \cup {b} ELSE Home(m.slots, j)
      OBVIOUS
    <3>1. Home(Append(m.slots, x), j) = IF x.item = j THEN Home(m.slots, j) \cup {Len(m.slots) + 1} ELSE Home(m.slots, j)
      <4> DEFINE s == m.slots
      <4>1. s \in Seq(SlotRecord)
        BY <1>6
      <4> HIDE DEF s
      <4>2. Home(Append(s, x), j) = IF x.item = j THEN Home(s, j) \cup {Len(s) + 1} ELSE Home(s, j)
        BY <4>1, HomeMore
      <4> QED
        BY <4>2 DEF s
    <3> QED
      BY <3>1, <1>2, <1>4, <1>5
  <2>3. ASSUME NEW j \in DOMAIN v
        PROVE  IF IsCall(v[j].kind) THEN CallKept(c.tools[j], v[j], Home(d.slots, j))
               ELSE /\ ~c.tools[j].started /\ c.tools[j].block = 0
                    /\ IF v[j].kind = "sealed" /\ v[j].done THEN \E n \in DOMAIN d.slots : Home(d.slots, j) = {n}
                       ELSE Home(d.slots, j) = {}
    <3>1. CASE j = i
      <4>1. Home(d.slots, i) = {b}
        BY <2>2, <1>2
      <4>2. b \in DOMAIN d.slots
        BY <1>1, <1>6
      <4> QED
        BY <3>1, <4>1, <4>2, <2>1, <1>2, <1>3 DEF IsCall
    <3>2. CASE j # i
      <4>1. Home(d.slots, j) = Home(m.slots, j)
        BY <3>2, <2>2
      <4>2. v[j] = u[j] /\ c.tools[j] = a.tools[j] /\ j \in DOMAIN u
        BY <3>2, <2>1, <2>3, <1>3 DEF ItemChanged
      <4>3. \A n \in DOMAIN m.slots : n \in DOMAIN d.slots
        BY <1>1, <1>6
      <4> QED
        BY <4>1, <4>2, <4>3, <1>1 DEF Housed
    <3> QED
      BY <3>1, <3>2
  <2>4. ASSUME NEW n \in DOMAIN d.slots
        PROVE  IF d.slots[n].kind \in {"text", "thinking"} THEN d.slots[n].item = 0
               ELSE d.slots[n].item \in DOMAIN v /\ v[d.slots[n].item].kind = d.slots[n].kind
    <3>1. CASE n = b
      BY <3>1, <2>1, <1>5, <1>6
    <3>2. CASE n # b
      <4>1. n \in DOMAIN m.slots
        BY <3>2, <1>1, <1>6
      <4>2. IF m.slots[n].kind \in {"text", "thinking"} THEN m.slots[n].item = 0
            ELSE m.slots[n].item \in DOMAIN u /\ u[m.slots[n].item].kind = m.slots[n].kind
        BY <4>1, <1>1 DEF Housed
      <4>3. d.slots[n] = m.slots[n]
        BY <3>2, <4>1, <1>6
      <4> QED
        BY <4>2, <4>3, <2>1
    <3> QED
      BY <3>1, <3>2
  <2> QED
    BY <2>1, <2>3, <2>4 DEF Housed
<1>11. Housed(c, v, e) /\ Spoken(v, p, e)
  BY <1>8, <1>9, <1>10, StayHoused
<1>12. Aligned(c, e)
  <2>1. Parts(c) = {} /\ StartedBlocks(c) = StartedBlocks(a)
    BY <1>3 DEF Parts, StartedBlocks
  <2>2. b \notin Opened(m)
    <3>1. Opened(m) \subseteq DOMAIN m.slots
      BY <1>1, SlotsTyped
    <3> QED
      BY <3>1, <1>1, <1>6
  <2>3. Opened(e) = Parts(c) \cup StartedBlocks(c)
    BY <2>1, <2>2, <1>2, <1>4, <1>7
  <2>4. Len(e.slots) = c.blocks
    BY <1>3, <1>6, <1>8 DEF SameSlots
  <2>5. ASSUME NEW n \in DOMAIN e.slots, n \notin Opened(e) PROVE e.slots[n].done = 1
    <3>1. CASE n = b
      BY <3>1, <1>8
    <3>2. CASE n # b
      <4>1. n \in DOMAIN m.slots /\ n \notin Opened(m)
        BY <3>2, <2>5, <1>1, <1>4, <1>6, <1>7, <1>8
      <4>2. m.slots[n].done = 1
        BY <4>1, <1>1 DEF Aligned
      <4>3. e.slots[n] = d.slots[n] /\ d.slots[n] = m.slots[n]
        BY <4>1, <3>2, <1>6, <1>8
      <4> QED
        BY <4>2, <4>3
    <3> QED
      BY <3>1, <3>2
  <2> QED
    BY <1>3, <1>7, <2>3, <2>4, <2>5 DEF Aligned
<1> QED
  BY <1>11, <1>12 DEF Fit, c, d, e

\* What is known of an item at first.
NewItem(kind) == [kind |-> kind, sent |-> 0, last |-> FALSE, done |-> FALSE]

(* A further item has no slot yet, and nothing was said of it.             *)
LEMMA ItemComes ==
  ASSUME NEW a, NEW u, NEW p, NEW m, Fit(a, u, p, m), NEW kind \in ItemKind
  PROVE  Fit([a EXCEPT !.tools = Append(@, NoTool)], Append(u, NewItem(kind)), p, m)
<1> DEFINE x == NewItem(kind)
           v == Append(u, x)
           tools == Append(a.tools, NoTool)
           c == [a EXCEPT !.tools = tools]
           N == Len(u)
<1>1. /\ a \in AdapterRecord /\ u \in Seq(ItemRecord) /\ Orderly(m) /\ a.tools \in Seq(CallRecord) /\ Len(a.tools) = N
      /\ Housed(a, u, m) /\ Spoken(u, p, m) /\ Aligned(a, m) /\ p \in Seq(PieceRecord) /\ N \in Nat
  BY FitTyped DEF Fit
<1>2. x \in ItemRecord /\ x.sent = 0 /\ ~x.last /\ ~x.done /\ x.kind = kind
  BY DEF NewItem, ItemRecord
<1>3. NoTool \in CallRecord /\ NoTool.block = 0 /\ ~NoTool.started /\ ~NoTool.received
  BY DEF NoTool, CallRecord
<1> HIDE DEF x
<1>4. v \in Seq(ItemRecord) /\ Len(v) = N + 1 /\ DOMAIN v = 1..(N + 1) /\ DOMAIN u = 1..N /\ v[N + 1] = x
      /\ \A j \in 1..N : v[j] = u[j]
  BY <1>1, <1>2
<1>5. tools \in Seq(CallRecord) /\ Len(tools) = N + 1 /\ DOMAIN tools = 1..(N + 1) /\ DOMAIN a.tools = 1..N
      /\ tools[N + 1] = NoTool /\ \A j \in 1..N : tools[j] = a.tools[j]
  BY <1>1, <1>3
<1> HIDE DEF v, tools
<1>6. c \in AdapterRecord /\ c.blocks = a.blocks /\ c.open = a.open /\ c.openBlock = a.openBlock /\ c.tools = tools
  BY <1>1, <1>5 DEF AdapterRecord
<1> HIDE DEF c, N
<1>7. StartedBlocks(c) = StartedBlocks(a)
  <2>1. ASSUME NEW b \in StartedBlocks(c) PROVE b \in StartedBlocks(a)
    <3>1. PICK j \in 1..(N + 1) : tools[j].started /\ tools[j].block = b
      BY <2>1, <1>5, <1>6 DEF StartedBlocks
    <3>2. j # N + 1
      BY <3>1, <1>3, <1>5
    <3>3. j \in 1..N
      BY <3>2, <1>1
    <3> QED
      BY <3>1, <3>3, <1>5 DEF StartedBlocks
  <2>2. ASSUME NEW b \in StartedBlocks(a) PROVE b \in StartedBlocks(c)
    <3>1. PICK j \in 1..N : a.tools[j].started /\ a.tools[j].block = b
      BY <2>2, <1>5 DEF StartedBlocks
    <3>2. j \in 1..(N + 1)
      BY <1>1
    <3> QED
      BY <3>1, <3>2, <1>5, <1>6 DEF StartedBlocks
  <2> QED
    BY <2>1, <2>2
<1>8. Aligned(c, m)
  <2>1. Parts(c) = Parts(a)
    BY <1>6 DEF Parts
  <2> QED
    BY <2>1, <1>1, <1>6, <1>7 DEF Aligned
<1>9. \A n \in DOMAIN m.slots : m.slots[n].item # N + 1
  <2> SUFFICES ASSUME NEW n \in DOMAIN m.slots PROVE m.slots[n].item # N + 1
    OBVIOUS
  <2>1. m.slots[n].item = 0 \/ m.slots[n].item \in 1..N
    BY <1>1, <1>4 DEF Housed
  <2> QED
    BY <2>1, <1>1
<1>10. Housed(c, v, m)
  <2>1. ASSUME NEW j \in 1..(N + 1)
        PROVE  IF IsCall(v[j].kind) THEN CallKept(tools[j], v[j], Home(m.slots, j))
               ELSE /\ ~tools[j].started /\ tools[j].block = 0
                    /\ IF v[j].kind = "sealed" /\ v[j].done THEN \E n \in DOMAIN m.slots : Home(m.slots, j) = {n}
                       ELSE Home(m.slots, j) = {}
    <3>1. CASE j = N + 1
      <4>1. Home(m.slots, j) = {}
        BY <3>1, <1>9 DEF Home
      <4>2. CallKept(NoTool, x, {})
        BY <1>2, <1>3 DEF CallKept
      <4> QED
        BY <3>1, <4>1, <4>2, <1>2, <1>3, <1>4, <1>5
    <3>2. CASE j # N + 1
      <4>1. j \in 1..N
        BY <3>2, <1>1
      <4>2. v[j] = u[j] /\ tools[j] = a.tools[j] /\ j \in DOMAIN u
        BY <4>1, <1>4, <1>5
      <4> QED
        BY <4>2, <1>1 DEF Housed
    <3> QED
      BY <3>1, <3>2
  <2>2. ASSUME NEW n \in DOMAIN m.slots
        PROVE  IF m.slots[n].kind \in {"text", "thinking"} THEN m.slots[n].item = 0
               ELSE m.slots[n].item \in DOMAIN v /\ v[m.slots[n].item].kind = m.slots[n].kind
    <3>1. \A j \in DOMAIN u : j \in DOMAIN v /\ v[j] = u[j]
      BY <1>1, <1>4
    <3> QED
      BY <3>1, <1>1 DEF Housed
  <2> QED
    BY <2>1, <2>2, <1>4, <1>5, <1>6 DEF Housed
<1>11. \A n \in DOMAIN p : p[n].item \in 1..N
  BY <1>1, <1>4 DEF Spoken
<1>12. ASSUME NEW k PROVE PiecesOf(p, ItemsOfKind(v, k)) = PiecesOf(p, ItemsOfKind(u, k))
  <2>1. \A n \in DOMAIN p : p[n].item \in ItemsOfKind(v, k) <=> p[n].item \in ItemsOfKind(u, k)
    <3>1. \A j \in 1..N : j \in ItemsOfKind(v, k) <=> j \in ItemsOfKind(u, k)
      BY <1>1, <1>4 DEF ItemsOfKind
    <3> QED
      BY <3>1, <1>11
  <2> QED
    BY <2>1, SaidSame
<1>13. PiecesOf(p, {N + 1}) = <<>>
  <2>1. \A n \in DOMAIN p : p[n].item \notin {N + 1}
    BY <1>1, <1>11
  <2> QED
    BY <2>1, <1>1, SaidNone
<1>14. Spoken(v, p, m)
  <2>1. ASSUME NEW j \in 1..(N + 1), IsCall(v[j].kind)
        PROVE  /\ (v[j].sent = 0 /\ ~v[j].done /\ ~v[j].last) => PiecesOf(p, {j}) = <<>>
               /\ v[j].last => Whole(PiecesOf(p, {j}))
    <3>1. CASE j = N + 1
      BY <3>1, <1>2, <1>4, <1>13
    <3>2. CASE j # N + 1
      <4>1. j \in 1..N
        BY <3>2, <1>1
      <4>2. v[j] = u[j] /\ j \in DOMAIN u
        BY <4>1, <1>4
      <4> QED
        BY <4>2, <2>1, <1>1 DEF Spoken
    <3> QED
      BY <3>1, <3>2
  <2>2. \A n \in DOMAIN p : p[n].item \in DOMAIN v
    BY <1>1, <1>4, <1>11
  <2>3. \A k \in {"text", "thinking"} : GivenBy(m.slots, k) = PiecesOf(p, ItemsOfKind(v, k))
    BY <1>1, <1>12 DEF Spoken
  <2> QED
    BY <2>1, <2>2, <2>3, <1>1, <1>4 DEF Spoken
<1> QED
  BY <1>8, <1>10, <1>14 DEF Fit, c, v, x, tools

-----------------------------------------------------------------------------
(* The adapter on what it is told.                                         *)

(* Another tool in the place of one of the same block.                     *)
LEMMA ToolReplaced ==
  ASSUME NEW a \in AdapterRecord, NEW i \in DOMAIN a.tools, NEW x \in CallRecord, x.block = a.tools[i].block
  PROVE  /\ ToolChanged(a, [a EXCEPT !.tools = [a.tools EXCEPT ![i] = x]], i)
         /\ [a EXCEPT !.tools = [a.tools EXCEPT ![i] = x]].tools[i] = x
<1> DEFINE s == a.tools
           t == [s EXCEPT ![i] = x]
           c == [a EXCEPT !.tools = t]
<1>1. s \in Seq(CallRecord) /\ Len(s) \in Nat /\ DOMAIN s = 1..Len(s) /\ \A j \in 1..Len(s) : s[j] \in CallRecord
  BY DEF AdapterRecord
<1>2. t = [j \in 1..Len(s) |-> IF j = i THEN x ELSE s[j]]
  BY <1>1
<1>3. \A j \in 1..Len(s) : (IF j = i THEN x ELSE s[j]) \in CallRecord
  BY <1>1
<1> HIDE DEF t
<1>4. t \in [1..Len(s) -> CallRecord]
  BY <1>2, <1>3
<1>5. t \in Seq(CallRecord) /\ Len(t) = Len(s)
  BY <1>1, <1>4
<1>6. DOMAIN t = DOMAIN s /\ t[i] = x /\ \A j \in DOMAIN s : j # i => t[j] = s[j]
  BY <1>1, <1>2
<1>7. c \in AdapterRecord /\ c.blocks = a.blocks /\ c.open = a.open /\ c.openBlock = a.openBlock /\ c.tools = t
  BY <1>5 DEF AdapterRecord
<1> HIDE DEF c
<1>8. ToolChanged(a, c, i) /\ c.tools[i] = x
  BY <1>5, <1>6, <1>7 DEF ToolChanged
<1> QED
  BY <1>8 DEF c, t

(* A tool that has received something.                                     *)
LEMMA ToolReceived ==
  ASSUME NEW a \in AdapterRecord, NEW i \in DOMAIN a.tools, NEW c, c = [a EXCEPT !.tools[i].received = TRUE]
  PROVE  ToolChanged(a, c, i) /\ c.tools[i].started = a.tools[i].started /\ c.tools[i].received
<1> DEFINE x == [a.tools[i] EXCEPT !.received = TRUE]
           d == [a EXCEPT !.tools = [a.tools EXCEPT ![i] = x]]
<1>1. a.tools \in Seq(CallRecord) /\ a.tools[i] \in CallRecord
  BY DEF AdapterRecord
<1>2. x \in CallRecord /\ x.block = a.tools[i].block /\ x.started = a.tools[i].started /\ x.received
  BY <1>1 DEF CallRecord
<1>3. c = d
  BY DEF AdapterRecord
<1> HIDE DEF x
<1>4. ToolChanged(a, d, i) /\ d.tools[i] = x
  BY <1>2, ToolReplaced
<1> HIDE DEF d
<1> QED
  BY <1>2, <1>3, <1>4

(* A tool that is stopped.                                                 *)
LEMMA ToolStopped ==
  ASSUME NEW a \in AdapterRecord, NEW i \in DOMAIN a.tools,
         NEW c, c = [a EXCEPT !.tools[i].stopped = TRUE, !.tools[i].started = FALSE]
  PROVE  ToolChanged(a, c, i) /\ ~c.tools[i].started /\ c.tools[i].received = a.tools[i].received
<1> DEFINE y == [a.tools[i] EXCEPT !.stopped = TRUE]
           x == [y EXCEPT !.started = FALSE]
           d == [a EXCEPT !.tools = [a.tools EXCEPT ![i] = x]]
           w == [a EXCEPT !.tools[i].stopped = TRUE]
<1>1. a.tools \in Seq(CallRecord) /\ a.tools[i] \in CallRecord
  BY DEF AdapterRecord
<1>2. y \in CallRecord /\ y.block = a.tools[i].block /\ y.received = a.tools[i].received
  BY <1>1 DEF CallRecord
<1>3. x \in CallRecord /\ x.block = a.tools[i].block /\ x.received = a.tools[i].received /\ ~x.started
  <2> HIDE DEF y
  <2> QED
    BY <1>2 DEF CallRecord
<1>4. c = d
  <2>1. w = [a EXCEPT !.tools = [a.tools EXCEPT ![i] = y]]
    BY DEF AdapterRecord
  <2>2. c = [w EXCEPT !.tools[i].started = FALSE]
    OBVIOUS
  <2>3. w \in AdapterRecord /\ w.tools = [a.tools EXCEPT ![i] = y] /\ w.tools[i] = y
    <3> HIDE DEF y
    <3>1. ToolChanged(a, [a EXCEPT !.tools = [a.tools EXCEPT ![i] = y]], i)
      BY <1>2, ToolReplaced
    <3>2. w \in AdapterRecord
      BY <2>1, <3>1 DEF ToolChanged
    <3>3. w.tools = [a.tools EXCEPT ![i] = y]
      <4> HIDE DEF w
      <4> QED
        BY <2>1 DEF AdapterRecord
    <3> QED
      BY <3>2, <3>3, <1>1
  <2> HIDE DEF w, y
  <2>4. [w EXCEPT !.tools[i].started = FALSE] = [w EXCEPT !.tools = [w.tools EXCEPT ![i] = x]]
    BY <2>3 DEF AdapterRecord
  <2> HIDE DEF x
  <2>5. [w.tools EXCEPT ![i] = x] = [a.tools EXCEPT ![i] = x]
    BY <2>3, <1>1
  <2>6. [w EXCEPT !.tools = [a.tools EXCEPT ![i] = x]] = [a EXCEPT !.tools = [a.tools EXCEPT ![i] = x]]
    BY <2>1 DEF AdapterRecord
  <2> QED
    BY <2>2, <2>4, <2>5, <2>6
<1> HIDE DEF x, y
<1>5. ToolChanged(a, d, i) /\ d.tools[i] = x
  BY <1>3, ToolReplaced
<1> HIDE DEF d
<1> QED
  BY <1>3, <1>4, <1>5

(* A delta of an item is said.                                             *)
LEMMA DeltaFits ==
  ASSUME NEW a, NEW u, NEW v, NEW p, NEW m, Fit(a, u, p, m), NEW i \in DOMAIN u, ~u[i].done,
         ItemChanged(u, v, i), v[i].sent = u[i].sent + 1, v[i].done = u[i].done,
         NEW piece \in PieceRecord, piece.item = i, v[i].last => piece.last
  PROVE  LET f == AdapterDelta(a, i, u[i].kind, piece)
         IN /\ Fit(f.a, v, Append(p, piece), ProcessAll(m, f.out))
            /\ f.out \in Seq(BridgeEvent)
<1> DEFINE f == AdapterDelta(a, i, u[i].kind, piece)
<1>1. u[i] \in ItemRecord
  BY FitTyped
<1>2. CASE IsCall(u[i].kind)
  <2> DEFINE at == EnsureTool(a, i, u[i].kind)
             b == at.a.tools[i].block
             e == BlockDelta(b, piece)
             c == [at.a EXCEPT !.tools[i].received = TRUE]
  <2>1. f.a = c /\ f.out = Append(at.out, e)
    BY <1>2 DEF AdapterDelta
  <2>2. Fit(at.a, u, p, ProcessAll(m, at.out)) /\ at.a.tools[i].started /\ at.out \in Seq(BridgeEvent)
    BY <1>2, ToolEnsured
  <2> HIDE DEF at, f
  <2>3. at.a \in AdapterRecord /\ i \in DOMAIN at.a.tools /\ at.a.tools[i] \in CallRecord
    BY <2>2, FitTyped
  <2>4. e \in BridgeEvent
    BY <2>3 DEF BridgeEvent, BlockDelta, CallRecord
  <2>5. ToolChanged(at.a, c, i) /\ c.tools[i].started = at.a.tools[i].started /\ c.tools[i].received
    BY <2>3, ToolReceived
  <2>6. v[i].sent > 0 /\ v[i].sent # 0
    BY <1>1 DEF ItemRecord
  <2> HIDE DEF c
  <2>7. Fit(c, v, Append(p, piece), Process(ProcessAll(m, at.out), e))
    BY <1>2, <2>2, <2>5, <2>6, CallSpoken
  <2> HIDE DEF e
  <2>8. ProcessAll(m, Append(at.out, e)) = Process(ProcessAll(m, at.out), e) /\ Append(at.out, e) \in Seq(BridgeEvent)
    BY <2>2, <2>4, ProcessOne
  <2> QED
    BY <2>1, <2>7, <2>8 DEF f
<1>3. CASE ~IsCall(u[i].kind)
  <2> DEFINE kind == BlockKind(u[i].kind)
             at == Ensure(a, kind)
             e == BlockDelta(at.a.openBlock, piece)
  <2>1. f.a = at.a /\ f.out = Append(at.out, e)
    BY <1>3 DEF AdapterDelta
  <2>2. kind \in {"text", "thinking"}
    BY <1>1, <1>3 DEF ItemRecord, ItemKind, IsCall, BlockKind
  <2> HIDE DEF kind
  <2>3. Fit(at.a, u, p, ProcessAll(m, at.out)) /\ at.a.open = kind /\ at.out \in Seq(BridgeEvent)
    BY <2>2, PartEnsured
  <2> HIDE DEF at, f
  <2>4. e \in BridgeEvent
    <3>1. at.a.openBlock \in Nat
      BY <2>3, FitTyped DEF AdapterRecord
    <3> QED
      BY <3>1 DEF BridgeEvent, BlockDelta
  <2>5. Fit(at.a, v, Append(p, piece), Process(ProcessAll(m, at.out), e))
    BY <1>3, <2>3, PartSpoken DEF kind
  <2> HIDE DEF e
  <2>6. ProcessAll(m, Append(at.out, e)) = Process(ProcessAll(m, at.out), e) /\ Append(at.out, e) \in Seq(BridgeEvent)
    BY <2>3, <2>4, ProcessOne
  <2> QED
    BY <2>1, <2>5, <2>6 DEF f
<1> QED
  BY <1>2, <1>3

(* An item that is known to be whole, though nothing of it was sent.       *)
LEMMA ItemWhole ==
  ASSUME NEW u \in Seq(ItemRecord), NEW i \in DOMAIN u
  PROVE  \E v : /\ ItemChanged(u, v, i) /\ v[i].sent = u[i].sent /\ v[i].last /\ v[i].done = u[i].done
<1> DEFINE x == [u[i] EXCEPT !.last = TRUE]
<1>1. u[i] \in ItemRecord
  OBVIOUS
<1>2. x \in ItemRecord /\ x.kind = u[i].kind /\ x.sent = u[i].sent /\ x.done = u[i].done /\ x.last
  BY <1>1 DEF ItemRecord
<1> HIDE DEF x
<1>3. Replaced(u, i, x, [u EXCEPT ![i] = x])
  BY <1>2, ItemReplaced
<1>4. PICK v : Replaced(u, i, x, v)
  BY <1>3
<1>5. ItemChanged(u, v, i) /\ v[i] = x
  BY <1>2, <1>4 DEF Replaced, ItemChanged
<1> QED
  BY <1>2, <1>5

(* Two events after others are processed one after the other.              *)
LEMMA ProcessTwo ==
  ASSUME NEW m, NEW ev \in Seq(BridgeEvent), NEW e \in BridgeEvent, NEW f \in BridgeEvent
  PROVE  /\ ProcessAll(m, ev \o <<e, f>>) = Process(Process(ProcessAll(m, ev), e), f)
         /\ ev \o <<e, f>> \in Seq(BridgeEvent)
<1> DEFINE one == Append(ev, e)
<1>1. ev \o <<e, f>> = Append(one, f) /\ one \in Seq(BridgeEvent) /\ Append(one, f) \in Seq(BridgeEvent)
  OBVIOUS
<1>2. ProcessAll(m, one) = Process(ProcessAll(m, ev), e)
  BY ProcessOne
<1> HIDE DEF one
<1>3. ProcessAll(m, Append(one, f)) = Process(ProcessAll(m, one), f)
  BY <1>1, ProcessOne
<1> QED
  BY <1>1, <1>2, <1>3

(* A call that is done: its arguments may come only now.                   *)
LEMMA CallDone ==
  ASSUME NEW a, NEW u, NEW v, NEW p, NEW m, Fit(a, u, p, m),
         NEW i \in DOMAIN u, IsCall(u[i].kind), ~u[i].done, u[i].sent > 0 => u[i].last,
         ItemChanged(u, v, i), v[i].sent = u[i].sent, v[i].done,
         NEW piece \in PieceRecord, piece.item = i, piece.last,
         NEW whole, whole = IF u[i].sent = 0 THEN <<piece>> ELSE <<>>
  PROVE  LET f == AdapterDone(a, i, u[i].kind, whole)
         IN /\ Fit(f.a, v, p \o whole, ProcessAll(m, f.out))
            /\ f.out \in Seq(BridgeEvent)
<1> DEFINE f == AdapterDone(a, i, u[i].kind, whole)
           at == EnsureTool(a, i, u[i].kind)
           b == at.a.tools[i].block
           late == IF at.a.tools[i].received \/ whole = <<>> THEN <<>> ELSE <<BlockDelta(b, whole[1])>>
           c == [at.a EXCEPT !.tools[i].stopped = TRUE, !.tools[i].started = FALSE]
           g == BlockStop(b)
<1>1. f.a = c /\ f.out = at.out \o late \o <<g>>
  <2>1. u[i].kind # "sealed"
    BY DEF IsCall
  <2> QED
    BY <2>1 DEF AdapterDone
<1>2. Fit(at.a, u, p, ProcessAll(m, at.out)) /\ at.a.tools[i].started /\ at.out \in Seq(BridgeEvent)
  BY ToolEnsured
<1> HIDE DEF at, f
<1>3. at.a \in AdapterRecord /\ i \in DOMAIN at.a.tools /\ at.a.tools[i] \in CallRecord
      /\ u \in Seq(ItemRecord) /\ u[i] \in ItemRecord /\ p \in Seq(PieceRecord)
  BY <1>2, FitTyped
<1>4. g \in BridgeEvent
  BY <1>3 DEF BridgeEvent, QuietEvent, BlockStop, CallRecord
<1>5. ToolChanged(at.a, c, i) /\ ~c.tools[i].started /\ c.tools[i].received = at.a.tools[i].received
  BY <1>3, ToolStopped
<1>6. at.a.tools[i].received <=> u[i].sent > 0
  <2> DEFINE m1 == ProcessAll(m, at.out)
  <2>1. Housed(at.a, u, m1)
    BY <1>2 DEF Fit
  <2> HIDE DEF m1
  <2>2. CallKept(at.a.tools[i], u[i], Home(m1.slots, i))
    BY <2>1, CallHoused
  <2> QED
    BY <2>2 DEF CallKept
<1> HIDE DEF c
<1>7. CASE u[i].sent = 0
  <2> DEFINE e == BlockDelta(b, piece)
             q == Append(p, piece)
             m1 == ProcessAll(m, at.out)
             m2 == Process(m1, e)
  <2>1. late = <<e>> /\ p \o whole = q
    <3>1. whole = <<piece>> /\ whole # <<>> /\ whole[1] = piece /\ ~at.a.tools[i].received
      BY <1>6, <1>7
    <3> QED
      BY <3>1, <1>3
  <2>2. e \in BridgeEvent
    BY <1>3 DEF BridgeEvent, BlockDelta, CallRecord
  <2>3. PICK w : ItemChanged(u, w, i) /\ w[i].sent = u[i].sent /\ w[i].last /\ w[i].done = u[i].done
    BY <1>3, ItemWhole
  <2>4. Fit(at.a, w, q, m2)
    <3>1. ToolChanged(at.a, at.a, i)
      BY <1>3 DEF ToolChanged
    <3>2. at.a.tools[i].received <=> w[i].sent > 0
      BY <2>3, <1>6
    <3>3. w[i].last => piece.last
      OBVIOUS
    <3>4. w[i].sent = 0 => w[i].last
      BY <2>3
    <3> QED
      BY <1>2, <2>3, <3>1, <3>2, <3>3, <3>4, CallSpoken
  <2>5. ItemChanged(w, v, i) /\ i \in DOMAIN w /\ IsCall(w[i].kind) /\ v[i].sent = w[i].sent
    BY <2>3 DEF ItemChanged
  <2>6. Whole(PiecesOf(q, {i}))
    <3> HIDE DEF m2, q
    <3>1. Spoken(w, q, m2)
      BY <2>4 DEF Fit
    <3> QED
      BY <3>1, <2>3, <2>5 DEF Spoken
  <2> HIDE DEF m2, q
  <2>7. Fit(c, v, q, Process(m2, g))
    BY <1>2, <1>5, <2>4, <2>5, <2>6, CallStopped
  <2> HIDE DEF e, g
  <2>8. ProcessAll(m, at.out \o <<e>> \o <<g>>) = Process(Process(ProcessAll(m, at.out), e), g)
        /\ at.out \o <<e>> \o <<g>> \in Seq(BridgeEvent)
    <3> DEFINE t == at.out
    <3>1. t \in Seq(BridgeEvent)
      BY <1>2
    <3> HIDE DEF t
    <3>2. t \o <<e>> \o <<g>> = t \o <<e, g>>
      BY <1>4, <2>2, <3>1
    <3>3. ProcessAll(m, t \o <<e, g>>) = Process(Process(ProcessAll(m, t), e), g) /\ t \o <<e, g>> \in Seq(BridgeEvent)
      BY <1>4, <2>2, <3>1, ProcessTwo
    <3> QED
      BY <3>2, <3>3 DEF t
  <2> QED
    BY <1>1, <2>1, <2>7, <2>8 DEF f, m2
<1>8. CASE u[i].sent # 0
  <2>1. u[i].sent > 0 /\ u[i].last
    BY <1>3, <1>8 DEF ItemRecord
  <2>2. whole = <<>> /\ late = <<>>
    BY <1>8
  <2>3. p \o whole = p /\ at.out \o late \o <<g>> = Append(at.out, g)
    <3> DEFINE t == at.out
    <3>1. t \in Seq(BridgeEvent)
      BY <1>2
    <3> HIDE DEF t
    <3>2. t \o <<>> \o <<g>> = Append(t, g)
      BY <3>1, <1>4
    <3>3. p \o <<>> = p
      BY <1>3
    <3> HIDE DEF late
    <3> QED
      BY <2>2, <3>2, <3>3 DEF t
  <2>4. Whole(PiecesOf(p, {i}))
    <3> DEFINE m1 == ProcessAll(m, at.out)
    <3>1. Spoken(u, p, m1)
      BY <1>2 DEF Fit
    <3> HIDE DEF m1
    <3> QED
      BY <3>1, <2>1 DEF Spoken
  <2>5. Fit(c, v, p, Process(ProcessAll(m, at.out), g))
    BY <1>2, <1>5, <2>4, CallStopped
  <2> HIDE DEF g
  <2>6. ProcessAll(m, Append(at.out, g)) = Process(ProcessAll(m, at.out), g) /\ Append(at.out, g) \in Seq(BridgeEvent)
    BY <1>2, <1>4, ProcessOne
  <2> QED
    BY <1>1, <2>3, <2>5, <2>6 DEF f
<1> QED
  BY <1>7, <1>8

(* An item that is done fits as such.                                      *)
LEMMA DoneFits ==
  ASSUME NEW a, NEW u, NEW v, NEW p, NEW m, Fit(a, u, p, m),
         NEW i \in DOMAIN u, ~u[i].done, u[i].sent > 0 => u[i].last,
         ItemChanged(u, v, i), v[i].sent = u[i].sent, v[i].done,
         NEW piece \in PieceRecord, piece.item = i, piece.last,
         NEW whole, whole = IF IsCall(u[i].kind) /\ u[i].sent = 0 THEN <<piece>> ELSE <<>>
  PROVE  LET f == AdapterDone(a, i, u[i].kind, whole)
         IN /\ Fit(f.a, v, p \o whole, ProcessAll(m, f.out))
            /\ f.out \in Seq(BridgeEvent)
<1> DEFINE f == AdapterDone(a, i, u[i].kind, whole)
<1>1. u[i] \in ItemRecord /\ p \in Seq(PieceRecord) /\ i \in Nat
  BY FitTyped
<1>2. CASE IsCall(u[i].kind)
  <2>1. whole = IF u[i].sent = 0 THEN <<piece>> ELSE <<>>
    BY <1>2
  <2> QED
    BY <1>2, <2>1, CallDone
<1>3. CASE u[i].kind = "sealed"
  <2> DEFINE c == CloseParts(a)
             b == a.blocks + 1
             s == BlockStart(b, "sealed", i)
             e == BlockStop(b)
  <2>1. ~IsCall(u[i].kind)
    BY <1>3 DEF IsCall
  <2>2. whole = <<>> /\ p \o whole = p
    BY <2>1, <1>1
  <2>3. f.a = NewBlock(c.a) /\ f.out = c.out \o <<s, e>>
    BY <1>3, <2>1 DEF AdapterDone
  <2>4. Fit(c.a, u, p, ProcessAll(m, c.out)) /\ c.a.open = "none" /\ c.a.blocks = a.blocks /\ c.out \in Seq(BridgeEvent)
    BY PartsClosed
  <2> HIDE DEF c, f
  <2>5. s \in BridgeEvent /\ e \in BridgeEvent
    <3>1. b \in Nat
      BY FitTyped
    <3> QED
      BY <3>1, <1>1 DEF BridgeEvent, QuietEvent, BlockStart, BlockStop, ItemKind
  <2>6. Fit(NewBlock(c.a), v, p, Process(Process(ProcessAll(m, c.out), s), e))
    <3>1. b = c.a.blocks + 1
      BY <2>4
    <3> HIDE DEF b
    <3> QED
      BY <1>3, <2>4, <3>1, SealedDone
  <2> HIDE DEF s, e
  <2>7. ProcessAll(m, c.out \o <<s, e>>) = Process(Process(ProcessAll(m, c.out), s), e)
        /\ c.out \o <<s, e>> \in Seq(BridgeEvent)
    <3> DEFINE t == c.out
    <3>1. t \in Seq(BridgeEvent)
      BY <2>4
    <3> HIDE DEF t
    <3>2. ProcessAll(m, t \o <<s, e>>) = Process(Process(ProcessAll(m, t), s), e) /\ t \o <<s, e>> \in Seq(BridgeEvent)
      BY <2>5, <3>1, ProcessTwo
    <3> QED
      BY <3>2 DEF t
  <2> QED
    BY <2>2, <2>3, <2>6, <2>7 DEF f
<1>4. CASE u[i].kind \in {"text", "thinking"}
  <2>1. ~IsCall(u[i].kind)
    BY <1>4 DEF IsCall
  <2>2. whole = <<>> /\ p \o whole = p
    BY <2>1, <1>1
  <2>3. f.a = a /\ f.out = <<>>
    BY <1>4, <2>1 DEF AdapterDone
  <2>4. Fit(a, v, p, m)
    BY <1>4, OtherDone
  <2>5. ProcessAll(m, <<>>) = m /\ <<>> \in Seq(BridgeEvent)
    BY ProcessNone
  <2> HIDE DEF f
  <2> QED
    BY <2>2, <2>3, <2>4, <2>5 DEF f
<1> QED
  BY <1>1, <1>2, <1>3, <1>4 DEF ItemRecord, ItemKind, IsCall

-----------------------------------------------------------------------------
(* The response ends.                                                      *)

(* A sequence begins with itself, and with nothing.                        *)
LEMMA Beginnings ==
  ASSUME NEW S, NEW s \in Seq(S)
  PROVE  IsPrefix(s, s) /\ IsPrefix(<<>>, s)
<1>1. Len(s) \in Nat /\ Len(s) <= Len(s) /\ Len(<<>>) = 0 /\ 0 <= Len(s)
  OBVIOUS
<1>2. SubSeq(<<>>, 1, 0) = SubSeq(s, 1, 0)
  OBVIOUS
<1> QED
  BY <1>1, <1>2 DEF IsPrefix

(* What was said of some items is pieces.                                  *)
LEMMA SaidTyped ==
  ASSUME NEW p \in Seq(PieceRecord), NEW items
  PROVE  PiecesOf(p, items) \in Seq(PieceRecord)
<1> DEFINE g == SaidParts(p, items)
<1>1. g \in Seq(Seq(PieceRecord))
  BY PartsTyped
<1> HIDE DEF g
<1>2. FlattenSeq(g) \in Seq(PieceRecord)
  BY <1>1, FlatTyped
<1> QED
  BY <1>2 DEF PiecesOf, SaidParts, g

\* A response holds a beginning of what was said, and no half of a function call that is done.
HoldsBeginning(u, p, r) ==
  /\ \A kind \in {"text", "thinking"} : IsPrefix(GivenBy(r.slots, kind), PiecesOf(p, ItemsOfKind(u, kind)))
  /\ \A n \in DOMAIN r.slots :
       /\ IsCall(r.slots[n].kind) => IsPrefix(r.slots[n].pieces, PiecesOf(p, {r.slots[n].item}))
       /\ r.slots[n].done <= 1
       /\ (r.slots[n].kind = "call" /\ r.slots[n].done = 1) => Whole(r.slots[n].pieces)

\* A response holds all that was said.
HoldsAll(u, p, r) ==
  /\ \A kind \in {"text", "thinking"} : GivenBy(r.slots, kind) = PiecesOf(p, ItemsOfKind(u, kind))
  /\ \A n \in DOMAIN r.slots : r.slots[n].done = 1
  /\ \A i \in DOMAIN u : (u[i].kind \in {"call", "custom", "sealed"}) =>
       Cardinality({n \in DOMAIN r.slots : r.slots[n].item = i}) = 1
  /\ \A n \in DOMAIN r.slots : IsCall(r.slots[n].kind) => r.slots[n].pieces = PiecesOf(p, {r.slots[n].item})

(* What quiet events leave of slots that hold what was said.               *)
LEMMA QuietHolds ==
  ASSUME NEW a, NEW u, NEW p, NEW m, Fit(a, u, p, m), NEW r \in Quieted(m)
  PROVE  HoldsBeginning(u, p, r)
<1>1. Orderly(m) /\ Orderly(r) /\ SameSlots(m, r) /\ Spoken(u, p, m) /\ p \in Seq(PieceRecord)
  BY FitTyped DEF Fit, Quieted
<1>2. DOMAIN r.slots = DOMAIN m.slots
  <2>1. DOMAIN r.slots = 1..Len(r.slots) /\ DOMAIN m.slots = 1..Len(m.slots)
    BY <1>1, SlotsTyped
  <2> QED
    BY <2>1, <1>1 DEF SameSlots
<1>3. \A n \in DOMAIN m.slots : /\ r.slots[n].kind = m.slots[n].kind
                                /\ r.slots[n].item = m.slots[n].item
                                /\ r.slots[n].pieces = m.slots[n].pieces
  BY <1>1 DEF SameSlots
<1>4. ASSUME NEW kind \in {"text", "thinking"}
      PROVE  IsPrefix(GivenBy(r.slots, kind), PiecesOf(p, ItemsOfKind(u, kind)))
  <2>1. GivenBy(r.slots, kind) = GivenBy(m.slots, kind)
    BY <1>2, <1>3, GivenSame
  <2>2. GivenBy(m.slots, kind) = PiecesOf(p, ItemsOfKind(u, kind))
    BY <1>1 DEF Spoken
  <2>3. PiecesOf(p, ItemsOfKind(u, kind)) \in Seq(PieceRecord)
    BY <1>1, SaidTyped
  <2> QED
    BY <2>1, <2>2, <2>3, Beginnings
<1>5. ASSUME NEW n \in DOMAIN r.slots
      PROVE  /\ IsCall(r.slots[n].kind) => IsPrefix(r.slots[n].pieces, PiecesOf(p, {r.slots[n].item}))
             /\ r.slots[n].done <= 1
             /\ (r.slots[n].kind = "call" /\ r.slots[n].done = 1) => Whole(r.slots[n].pieces)
  <2>1. PiecesOf(p, {r.slots[n].item}) \in Seq(PieceRecord)
    BY <1>1, SaidTyped
  <2>2. IsPrefix(PiecesOf(p, {r.slots[n].item}), PiecesOf(p, {r.slots[n].item}))
    BY <2>1, Beginnings
  <2>3. IsCall(r.slots[n].kind) => r.slots[n].pieces = PiecesOf(p, {r.slots[n].item})
    BY <1>1, <1>2, <1>3 DEF Spoken
  <2>4. /\ r.slots[n].done <= 1
        /\ (r.slots[n].kind = "call" /\ r.slots[n].done = 1) => Whole(r.slots[n].pieces)
    BY <1>1 DEF Orderly
  <2> QED
    BY <2>2, <2>3, <2>4
<1> QED
  BY <1>4, <1>5 DEF HoldsBeginning

(* Before anything was passed on the response holds nothing.               *)
LEMMA NothingHeld ==
  ASSUME NEW u, NEW p \in Seq(PieceRecord)
  PROVE  HoldsBeginning(u, p, NewAssembler)
<1>1. NewAssembler.slots = <<>>
  BY DEF NewAssembler
<1>2. ASSUME NEW kind \in {"text", "thinking"}
      PROVE  IsPrefix(GivenBy(NewAssembler.slots, kind), PiecesOf(p, ItemsOfKind(u, kind)))
  <2>1. GivenBy(NewAssembler.slots, kind) = <<>>
    BY <1>1, NothingGiven
  <2>2. PiecesOf(p, ItemsOfKind(u, kind)) \in Seq(PieceRecord)
    BY SaidTyped
  <2> QED
    BY <2>1, <2>2, Beginnings
<1> QED
  BY <1>1, <1>2 DEF HoldsBeginning

(* To close the blocks is quiet, and nothing where no tool is started.     *)
LEMMA CloseIsQuiet ==
  ASSUME NEW a \in AdapterRecord
  PROVE  /\ CloseParts(a).out \in Seq(QuietEvent)
         /\ CloseTools(a.tools) \in Seq(QuietEvent)
         /\ StartedBlocks(a) = {} => CloseTools(a.tools) = <<>>
<1> DEFINE t == a.tools
           N == Len(t)
           g == [i \in DOMAIN t |-> IF t[i].started THEN <<BlockStop(t[i].block)>> ELSE <<>>]
<1>1. t \in Seq(CallRecord) /\ N \in Nat /\ DOMAIN t = 1..N /\ a.openBlock \in Nat /\ \A i \in 1..N : t[i].block \in Nat
  <2>1. t \in Seq(CallRecord) /\ a.openBlock \in Nat
    BY DEF AdapterRecord
  <2>2. \A i \in 1..N : t[i] \in CallRecord
    BY <2>1
  <2> QED
    BY <2>1, <2>2 DEF CallRecord
<1>2. \A b \in Nat : BlockStop(b) \in QuietEvent
  BY DEF BlockStop, QuietEvent
<1>3. CloseParts(a).out \in Seq(QuietEvent)
  <2> DEFINE e == BlockStop(a.openBlock)
  <2>1. e \in QuietEvent
    BY <1>1, <1>2
  <2>2. CloseParts(a).out = IF a.open = "none" THEN <<>> ELSE <<e>>
    BY DEF CloseParts
  <2> HIDE DEF e
  <2> QED
    BY <2>1, <2>2
<1>4. g \in Seq(Seq(QuietEvent))
  <2>1. \A i \in 1..N : (IF t[i].started THEN <<BlockStop(t[i].block)>> ELSE <<>>) \in Seq(QuietEvent)
    <3> SUFFICES ASSUME NEW i \in 1..N PROVE (IF t[i].started THEN <<BlockStop(t[i].block)>> ELSE <<>>) \in Seq(QuietEvent)
      OBVIOUS
    <3>1. BlockStop(t[i].block) \in QuietEvent
      BY <1>1, <1>2
    <3> QED
      BY <3>1
  <2> DEFINE h == [i \in 1..N |-> IF t[i].started THEN <<BlockStop(t[i].block)>> ELSE <<>>]
  <2>2. h \in [1..N -> Seq(QuietEvent)]
    BY <2>1
  <2>3. g = h
    BY <1>1
  <2> HIDE DEF h, g
  <2> QED
    BY <1>1, <2>2, <2>3
<1>5. StartedBlocks(a) = {} => \A i \in 1..N : g[i] = <<>>
  BY <1>1 DEF StartedBlocks
<1>6. CloseTools(a.tools) = FlattenSeq(g) /\ DOMAIN g = 1..N
  BY <1>1 DEF CloseTools
<1> HIDE DEF g, N
<1>7. Len(g) = N
  BY <1>1, <1>4, <1>6
<1>8. FlattenSeq(g) \in Seq(QuietEvent)
  BY <1>4, FlatTyped
<1>9. StartedBlocks(a) = {} => FlattenSeq(g) = <<>>
  <2> SUFFICES ASSUME StartedBlocks(a) = {} PROVE FlattenSeq(g) = <<>>
    OBVIOUS
  <2>1. \A i \in 1..Len(g) : g[i] = <<>>
    BY <1>5, <1>7
  <2> QED
    BY <2>1, <1>4, FlatEmpty
<1> QED
  BY <1>3, <1>6, <1>8, <1>9

(* What is orderly is as quiet as it is.                                   *)
LEMMA QuietSelf ==
  ASSUME NEW m, Orderly(m)
  PROVE  m \in Quieted(m)
BY DEF Quieted, Orderly, SameSlots

(* With no block, or with every item done, no tool is started.             *)
LEMMA NoneStarted ==
  ASSUME NEW a, NEW u, NEW p, NEW m, Fit(a, u, p, m), a.blocks = 0 \/ \A i \in DOMAIN u : u[i].done
  PROVE  StartedBlocks(a) = {}
<1> SUFFICES ASSUME NEW i \in DOMAIN a.tools, a.tools[i].started PROVE FALSE
  BY DEF StartedBlocks
<1>1. i \in DOMAIN u /\ ~u[i].done /\ a.tools[i].block \in DOMAIN m.slots
  BY StartedTool
<1>2. CASE a.blocks = 0
  <2>1. m.slots \in Seq(SlotRecord) /\ Len(m.slots) = 0
    BY <1>2, FitTyped, SlotsTyped DEF Fit, Aligned
  <2> QED
    BY <2>1, <1>1
<1> QED
  BY <1>1, <1>2

\* What the adapter says before it says why it stops.
Closing(a) ==
  CloseBlocks(a) \o (IF a.blocks > 0 THEN <<>> ELSE <<BlockStart(1, "text", 0), BlockStop(1)>>)

(* When nothing but a part may be open, closing leaves nothing open.       *)
LEMMA ClosingFits ==
  ASSUME NEW a, NEW u, NEW p, NEW m, Fit(a, u, p, m), StartedBlocks(a) = {}
  PROVE  /\ Closing(a) \in Seq(BridgeEvent)
         /\ \E c : Fit(c, u, p, ProcessAll(m, Closing(a))) /\ c.open = "none" /\ StartedBlocks(c) = {}
<1> DEFINE c == CloseParts(a)
           m1 == ProcessAll(m, c.out)
<1>1. Fit(c.a, u, p, m1) /\ c.a.open = "none" /\ c.a.tools = a.tools /\ c.a.blocks = a.blocks /\ c.out \in Seq(BridgeEvent)
  BY PartsClosed
<1>2. CloseTools(a.tools) = <<>> /\ a.blocks \in Nat
  BY FitTyped, CloseIsQuiet
<1>3. StartedBlocks(c.a) = {}
  BY <1>1 DEF StartedBlocks
<1>4. CloseBlocks(a) = c.out
  <2>1. CloseBlocks(a) = c.out \o <<>>
    BY <1>2 DEF CloseBlocks
  <2> DEFINE t == c.out
  <2>2. t \in Seq(BridgeEvent)
    BY <1>1
  <2> HIDE DEF t
  <2>3. t \o <<>> = t
    BY <2>2
  <2> QED
    BY <2>1, <2>3 DEF t
<1>5. CASE a.blocks > 0
  <2>1. Closing(a) = c.out
    <3> DEFINE t == c.out
    <3>1. t \in Seq(BridgeEvent)
      BY <1>1
    <3> HIDE DEF t
    <3>2. t \o <<>> = t
      BY <3>1
    <3> QED
      BY <3>2, <1>4, <1>5 DEF Closing, t
  <2> HIDE DEF c
  <2> QED
    BY <2>1, <1>1, <1>3
<1>6. CASE ~(a.blocks > 0)
  <2> DEFINE s == BlockStart(1, "text", 0)
             e == BlockStop(1)
             n == WithPart(c.a, "text")
             d == CloseParts(n)
             m2 == Process(m1, s)
             m3 == Process(m2, e)
  <2>1. a.blocks = 0
    BY <1>2, <1>6
  <2>2. Closing(a) = c.out \o <<s, e>>
    BY <1>4, <1>6 DEF Closing
  <2>3. s \in BridgeEvent /\ e \in BridgeEvent
    BY DEF BridgeEvent, QuietEvent, BlockStart, BlockStop, ItemKind
  <2>4. ProcessAll(m, c.out \o <<s, e>>) = m3 /\ c.out \o <<s, e>> \in Seq(BridgeEvent)
    <3> DEFINE t == c.out
    <3>1. t \in Seq(BridgeEvent)
      BY <1>1
    <3> HIDE DEF t, s, e
    <3>2. ProcessAll(m, t \o <<s, e>>) = Process(Process(ProcessAll(m, t), s), e) /\ t \o <<s, e>> \in Seq(BridgeEvent)
      BY <2>3, <3>1, ProcessTwo
    <3> QED
      BY <3>2 DEF t
  <2> HIDE DEF c, m1
  <2>5. Fit(n, u, p, m2)
    <3>1. c.a.blocks + 1 = 1
      BY <1>1, <2>1
    <3>2. Fit(n, u, p, Process(m1, BlockStart(c.a.blocks + 1, "text", 0)))
      BY <1>1, PartOpens
    <3> QED
      BY <3>1, <3>2
  <2>6. n.open = "text" /\ n.openBlock = 1
    <3>1. n \in AdapterRecord /\ c.a \in AdapterRecord
      BY <1>1, <2>5, FitTyped
    <3> QED
      BY <3>1, <1>1, <2>1 DEF WithPart, NewBlock, AdapterRecord
  <2>7. d.out = <<e>>
    BY <2>6 DEF CloseParts
  <2>8. Fit(d.a, u, p, ProcessAll(m2, d.out)) /\ d.a.open = "none" /\ d.a.tools = n.tools
    <3> HIDE DEF n, m2
    <3> QED
      BY <2>5, PartsClosed
  <2>9. ProcessAll(m2, d.out) = m3
    <3> HIDE DEF d, m2, e
    <3> QED
      BY <2>7, ProcessSingle
  <2>10. StartedBlocks(d.a) = {}
    <3>1. n.tools = c.a.tools
      <4>1. n \in AdapterRecord /\ c.a \in AdapterRecord
        BY <1>1, <2>5, FitTyped
      <4> QED
        BY <4>1 DEF WithPart, NewBlock, AdapterRecord
    <3> HIDE DEF d, n
    <3> QED
      BY <3>1, <2>8, <1>3 DEF StartedBlocks
  <2> HIDE DEF d, m3, m2, s, e, n
  <2> QED
    BY <2>2, <2>4, <2>8, <2>9, <2>10
<1> QED
  BY <1>5, <1>6

(* The last two events end the response.                                   *)
LEMMA LastEvents ==
  ASSUME NEW m, NEW x \in Quieted(m), NEW why \in StopWord
  PROVE  LET r == Process(Process(x, Reason(why)), MessageStop)
         IN /\ r \in Quieted(m) /\ r.status # "open"
            /\ (x.status = "open" /\ x.active = <<>> /\ ~x.refused /\ why # "max_tokens") =>
                 r.status = "completed" /\ r.slots = x.slots
<1> DEFINE e == Reason(why)
           y == Process(x, e)
           r == Process(y, MessageStop)
<1>1. e \in QuietEvent /\ MessageStop \in QuietEvent
  BY DEF QuietEvent, Reason, MessageStop
<1>2. y \in Quieted(m)
  <2> HIDE DEF e
  <2> QED
    BY <1>1, ProcessQuiet
<1>3. x \in AssemblerRecord
  BY DEF Quieted
<1>4. x.status = "open" => y = [x EXCEPT !.stop = why]
  BY DEF Process, Reason
<1>5. x.status = "open" => y.status = "open" /\ y.stop = why /\ y.active = x.active /\ y.refused = x.refused /\ y.slots = x.slots
  <2> HIDE DEF y
  <2> QED
    BY <1>3, <1>4 DEF AssemblerRecord
<1> HIDE DEF y
<1>6. r \in Quieted(m)
  BY <1>1, <1>2, ProcessQuiet
<1>7. y.status # "open" => r = y
  BY DEF Process
<1>8. y.status = "open" => r = FinishResponse(y)
  BY DEF Process, MessageStop
<1> DEFINE f == Flush(y)
           how == IF f.refused THEN "failed" ELSE IF f.stop = "max_tokens" THEN "incomplete" ELSE "completed"
<1>9. f \in Quieted(m) /\ (y.active = <<>> => f = y)
  BY <1>2, FlushQuiet
<1>10. FinishResponse(y) = [f EXCEPT !.status = how]
  BY DEF FinishResponse
<1> HIDE DEF f, r
<1>11. FinishResponse(y).status = how /\ FinishResponse(y).slots = f.slots
  <2>1. f \in AssemblerRecord
    BY <1>9 DEF Quieted
  <2> HIDE DEF how
  <2> QED
    BY <2>1, <1>10 DEF AssemblerRecord
<1>12. r.status # "open"
  <2>1. how # "open"
    OBVIOUS
  <2> HIDE DEF how
  <2> QED
    BY <2>1, <1>7, <1>8, <1>11
<1>13. ASSUME x.status = "open", x.active = <<>>, ~x.refused, why # "max_tokens"
       PROVE  r.status = "completed" /\ r.slots = x.slots
  <2>1. y.status = "open" /\ f = y
    BY <1>5, <1>9, <1>13
  <2>2. how = "completed"
    BY <2>1, <1>5, <1>13
  <2> QED
    BY <2>1, <2>2, <1>5, <1>8, <1>11, <1>13
<1> QED
  BY <1>6, <1>12, <1>13 DEF r, y

\* Why the response ends.
WhyStops(a, incomplete) ==
  IF \E i \in DOMAIN a.tools : a.tools[i].block > 0 THEN "tool_use"
  ELSE IF incomplete THEN "max_tokens" ELSE "end_turn"

(* The adapter closes what is open and says why.                           *)
LEMMA FinishSays ==
  ASSUME NEW a, NEW incomplete, NEW m, Closing(a) \in Seq(BridgeEvent)
  PROVE  /\ ProcessAll(m, AdapterFinish(a, incomplete))
              = Process(Process(ProcessAll(m, Closing(a)), Reason(WhyStops(a, incomplete))), MessageStop)
         /\ AdapterFinish(a, incomplete) \in Seq(BridgeEvent)
<1> DEFINE t == Closing(a)
           e == Reason(WhyStops(a, incomplete))
<1>1. AdapterFinish(a, incomplete) = t \o <<e, MessageStop>>
  BY DEF AdapterFinish, Closing, WhyStops
<1>2. e \in BridgeEvent /\ MessageStop \in BridgeEvent
  BY DEF BridgeEvent, QuietEvent, Reason, MessageStop, WhyStops, StopWord
<1> HIDE DEF t, e
<1>3. ProcessAll(m, t \o <<e, MessageStop>>) = Process(Process(ProcessAll(m, t), e), MessageStop)
      /\ t \o <<e, MessageStop>> \in Seq(BridgeEvent)
  BY <1>2, ProcessTwo DEF t
<1> QED
  BY <1>1, <1>3 DEF t, e

(* However the upstream finishes, the response ends with a beginning of    *)
(* what was said.                                                          *)
LEMMA FinishBegins ==
  ASSUME NEW a, NEW u, NEW p, NEW m, Fit(a, u, p, m), NEW incomplete
  PROVE  LET r == ProcessAll(m, AdapterFinish(a, incomplete))
         IN HoldsBeginning(u, p, r) /\ r.status # "open" /\ AdapterFinish(a, incomplete) \in Seq(BridgeEvent)
<1> DEFINE why == WhyStops(a, incomplete)
           x == ProcessAll(m, Closing(a))
           r == ProcessAll(m, AdapterFinish(a, incomplete))
<1>1. why \in StopWord
  BY DEF WhyStops, StopWord
<1>2. a \in AdapterRecord /\ a.blocks \in Nat /\ Orderly(m)
  BY FitTyped
<1>3. CASE StartedBlocks(a) = {}
  <2>1. Closing(a) \in Seq(BridgeEvent)
    BY <1>3, ClosingFits
  <2>2. PICK c : Fit(c, u, p, x)
    BY <1>3, ClosingFits
  <2>3. r = Process(Process(x, Reason(why)), MessageStop) /\ AdapterFinish(a, incomplete) \in Seq(BridgeEvent)
    BY <2>1, FinishSays
  <2> HIDE DEF x, r, why
  <2>4. x \in Quieted(x)
    BY <2>2, FitTyped, QuietSelf
  <2>5. r \in Quieted(x) /\ r.status # "open"
    BY <1>1, <2>3, <2>4, LastEvents
  <2> QED
    BY <2>2, <2>3, <2>5, QuietHolds DEF r
<1>4. CASE StartedBlocks(a) # {}
  <2>1. a.blocks > 0
    BY <1>2, <1>4, NoneStarted
  <2> DEFINE t == CloseParts(a).out
             s == CloseTools(a.tools)
  <2>2. t \in Seq(QuietEvent) /\ s \in Seq(QuietEvent)
    BY <1>2, CloseIsQuiet
  <2>3. Closing(a) = t \o s \o <<>>
    BY <2>1 DEF Closing, CloseBlocks
  <2> HIDE DEF t, s
  <2>4. t \o s \o <<>> \in Seq(QuietEvent)
    BY <2>2
  <2>5. Closing(a) \in Seq(QuietEvent) /\ Closing(a) \in Seq(BridgeEvent)
    <3>1. QuietEvent \subseteq BridgeEvent
      BY DEF BridgeEvent
    <3>2. Seq(QuietEvent) \subseteq Seq(BridgeEvent)
      BY <3>1
    <3> QED
      BY <2>3, <2>4, <3>2
  <2>6. r = Process(Process(x, Reason(why)), MessageStop) /\ AdapterFinish(a, incomplete) \in Seq(BridgeEvent)
    BY <2>5, FinishSays
  <2>7. x \in Quieted(m)
    BY <1>2, <2>5, QuietSelf, ProcessQuiets
  <2> HIDE DEF x, r, why
  <2>8. r \in Quieted(m) /\ r.status # "open"
    BY <1>1, <2>6, <2>7, LastEvents
  <2> QED
    BY <2>6, <2>8, QuietHolds DEF r
<1> QED
  BY <1>3, <1>4

(* With nothing open and every item done, the slots hold all that was said. *)
LEMMA FitHolds ==
  ASSUME NEW c, NEW u, NEW p, NEW x, Fit(c, u, p, x), c.open = "none", StartedBlocks(c) = {}, \A i \in DOMAIN u : u[i].done
  PROVE  HoldsAll(u, p, x) /\ x.active = <<>>
<1>1. Aligned(c, x) /\ Housed(c, u, x) /\ Spoken(u, p, x) /\ Orderly(x) /\ x \in AssemblerRecord
  BY FitTyped, SlotsTyped DEF Fit
<1>2. Opened(x) = {}
  BY <1>1 DEF Aligned, Parts
<1>3. x.active = <<>>
  <2>1. x.active \in Seq(ActiveRecord)
    BY <1>1 DEF AssemblerRecord
  <2>2. DOMAIN x.active = {}
    BY <1>2 DEF Opened
  <2> DEFINE s == x.active
  <2>3. s \in Seq(ActiveRecord) /\ DOMAIN s = {}
    BY <2>1, <2>2
  <2> HIDE DEF s
  <2>4. s = <<>>
    BY <2>3
  <2> QED
    BY <2>4 DEF s
<1>4. \A n \in DOMAIN x.slots : x.slots[n].done = 1
  BY <1>1, <1>2 DEF Aligned
<1>5. ASSUME NEW i \in DOMAIN u, u[i].kind \in {"call", "custom", "sealed"}
      PROVE  Cardinality({n \in DOMAIN x.slots : x.slots[n].item = i}) = 1
  <2>1. CASE IsCall(u[i].kind)
    <3>1. CallKept(c.tools[i], u[i], Home(x.slots, i))
      BY <1>1, <2>1, CallHoused
    <3>2. Home(x.slots, i) = {c.tools[i].block}
      BY <3>1 DEF CallKept
    <3> QED
      BY <3>2, FS_Singleton DEF Home
  <2>2. CASE ~IsCall(u[i].kind)
    <3>1. u[i].kind = "sealed"
      BY <1>5, <2>2 DEF IsCall
    <3>2. PICK n \in DOMAIN x.slots : Home(x.slots, i) = {n}
      BY <3>1, <2>2, <1>1 DEF Housed
    <3> QED
      BY <3>2, FS_Singleton DEF Home
  <2> QED
    BY <2>1, <2>2
<1> QED
  BY <1>1, <1>3, <1>4, <1>5 DEF HoldsAll, Spoken

(* When every item is done the response is completed, and holds it all.    *)
LEMMA FinishHolds ==
  ASSUME NEW a, NEW u, NEW p, NEW m, Fit(a, u, p, m), \A i \in DOMAIN u : u[i].done
  PROVE  LET r == ProcessAll(m, AdapterFinish(a, FALSE))
         IN HoldsAll(u, p, r) /\ r.status = "completed"
<1> DEFINE why == WhyStops(a, FALSE)
           x == ProcessAll(m, Closing(a))
           r == ProcessAll(m, AdapterFinish(a, FALSE))
<1>1. why \in StopWord /\ why # "max_tokens"
  BY DEF WhyStops, StopWord
<1>2. StartedBlocks(a) = {}
  BY NoneStarted
<1>3. Closing(a) \in Seq(BridgeEvent)
  BY <1>2, ClosingFits
<1>4. PICK c : Fit(c, u, p, x) /\ c.open = "none" /\ StartedBlocks(c) = {}
  BY <1>2, ClosingFits
<1>5. r = Process(Process(x, Reason(why)), MessageStop)
  BY <1>3, FinishSays
<1> HIDE DEF x, r, why
<1>6. HoldsAll(u, p, x) /\ x.active = <<>>
  BY <1>4, FitHolds
<1>7. x \in Quieted(x) /\ x.status = "open" /\ ~x.refused
  BY <1>4, FitTyped, QuietSelf DEF Taking
<1>8. r.status = "completed" /\ r.slots = x.slots
  BY <1>1, <1>5, <1>6, <1>7, LastEvents
<1>9. HoldsAll(u, p, r)
  BY <1>6, <1>8 DEF HoldsAll
<1> QED
  BY <1>8, <1>9 DEF r

(* When the upstream fails the response fails, with a beginning of it.     *)
LEMMA FailBegins ==
  ASSUME NEW a, NEW u, NEW p, NEW m, Fit(a, u, p, m)
  PROVE  LET r == FailExecution(ProcessAll(m, CloseBlocks(a)))
         IN HoldsBeginning(u, p, r) /\ r.status = "failed"
<1> DEFINE x == ProcessAll(m, CloseBlocks(a))
           f == Flush(x)
           r == FailExecution(x)
<1>1. a \in AdapterRecord /\ Orderly(m)
  BY FitTyped
<1>2. CloseBlocks(a) \in Seq(QuietEvent)
  <2> DEFINE t == CloseParts(a).out
             s == CloseTools(a.tools)
  <2>1. t \in Seq(QuietEvent) /\ s \in Seq(QuietEvent)
    BY <1>1, CloseIsQuiet
  <2>2. CloseBlocks(a) = t \o s
    BY DEF CloseBlocks
  <2> HIDE DEF t, s
  <2> QED
    BY <2>1, <2>2
<1>3. x \in Quieted(m)
  BY <1>1, <1>2, QuietSelf, ProcessQuiets
<1> HIDE DEF x
<1>4. f \in Quieted(m)
  BY <1>3, FlushQuiet
<1>5. r = [f EXCEPT !.status = "failed"]
  BY DEF FailExecution
<1> HIDE DEF f, r
<1>6. r.status = "failed" /\ r.slots = f.slots
  <2>1. f \in AssemblerRecord
    BY <1>4 DEF Quieted
  <2> QED
    BY <2>1, <1>5 DEF AssemblerRecord
<1>7. HoldsBeginning(u, p, f)
  BY <1>4, QuietHolds
<1>8. HoldsBeginning(u, p, r)
  BY <1>6, <1>7 DEF HoldsBeginning
<1> QED
  BY <1>6, <1>8 DEF r, x

-----------------------------------------------------------------------------
(* The steps of the bridge.                                                *)

(* Events that are pushed are held back, or processed with all that was.   *)
LEMMA PushedOn ==
  ASSUME BridgeInv, NEW events \in Seq(BridgeEvent), Pushed(events)
  PROVE  /\ ProcessAll(assembler', held') = ProcessAll(ProcessAll(assembler, held), events)
         /\ held' \in Seq(BridgeEvent) /\ committed' \in BOOLEAN
         /\ committed' => held' = <<>>
         /\ ~committed' => assembler' = NewAssembler
<1>1. held \in Seq(BridgeEvent) /\ committed \in BOOLEAN /\ (~committed => assembler = NewAssembler)
  BY DEF BridgeInv
<1> DEFINE all == held \o events
<1>2. ProcessAll(assembler, all) = ProcessAll(ProcessAll(assembler, held), events) /\ all \in Seq(BridgeEvent)
  BY <1>1, ProcessMore
<1>3. PICK commit \in {committed, TRUE} :
        /\ committed' = commit
        /\ held' = IF commit THEN <<>> ELSE all
        /\ assembler' = IF commit THEN ProcessAll(assembler, all) ELSE assembler
  BY DEF Pushed
<1> HIDE DEF all
<1>4. CASE commit = TRUE
  <2>1. held' = <<>> /\ assembler' = ProcessAll(assembler, all) /\ committed' = TRUE
    BY <1>3, <1>4
  <2>2. ProcessAll(assembler', <<>>) = assembler'
    BY ProcessNone
  <2> QED
    BY <2>1, <2>2, <1>2
<1>5. CASE commit = FALSE
  <2>1. held' = all /\ assembler' = assembler /\ committed' = FALSE /\ committed = FALSE
    BY <1>3, <1>5
  <2> QED
    BY <2>1, <1>1, <1>2
<1> QED
  BY <1>1, <1>3, <1>4, <1>5

(* While the upstream runs the response is whole as far as it goes.        *)
LEMMA BridgeHolds == BridgeInv => ResponseIsWhole
<1> SUFFICES ASSUME BridgeInv, upEnd = "none" PROVE ResponseIsWhole
  BY DEF BridgeInv
<1> DEFINE m == ProcessAll(assembler, held)
<1>1. Fit(adapter, upstream, said, m) /\ committed \in BOOLEAN
  BY DEF BridgeInv
<1>2. HoldsBeginning(upstream, said, assembler) /\ assembler.status = "open"
  <2>1. CASE committed
    <3>1. m = assembler
      BY <2>1, ProcessNone DEF BridgeInv
    <3> HIDE DEF m
    <3>2. assembler \in Quieted(assembler) /\ assembler.status = "open"
      BY <1>1, <3>1, FitTyped, QuietSelf DEF Taking
    <3> QED
      BY <1>1, <3>1, <3>2, QuietHolds
  <2>2. CASE ~committed
    <3>1. assembler = NewAssembler /\ NewAssembler.status = "open"
      BY <2>2 DEF BridgeInv, NewAssembler
    <3>2. said \in Seq(PieceRecord)
      BY <1>1, FitTyped
    <3> QED
      BY <3>1, <3>2, NothingHeld
  <2> QED
    BY <2>1, <2>2, <1>1
<1> QED
  BY <1>2 DEF ResponseIsWhole, HoldsBeginning, Given, Said

(* A new item is told of.                                                  *)
LEMMA AddedKeeps ==
  ASSUME BridgeInv, NEW kind \in ItemKind, ItemAdded(kind)
  PROVE  BridgeInv'
<1>1. Fit(adapter, upstream, said, ProcessAll(assembler, held))
  BY DEF BridgeInv, ItemAdded, Listening, UpstreamRuns
<1>2. Fit([adapter EXCEPT !.tools = Append(@, NoTool)], Append(upstream, NewItem(kind)), said, ProcessAll(assembler, held))
  BY <1>1, ItemComes
<1>3. /\ upstream' = Append(upstream, NewItem(kind)) /\ adapter' = [adapter EXCEPT !.tools = Append(@, NoTool)]
      /\ said' = said /\ assembler' = assembler /\ held' = held /\ attempt' = attempt /\ upEnd' = upEnd /\ committed' = committed
      /\ upEnd = "none"
  BY DEF ItemAdded, NewItem, Listening, UpstreamRuns
<1>4. Fit(adapter', upstream', said', ProcessAll(assembler', held'))
  BY <1>2, <1>3
<1> QED
  BY <1>3, <1>4 DEF BridgeInv

(* A delta comes.                                                          *)
LEMMA DeltaKeeps ==
  ASSUME BridgeInv, NEW i \in DOMAIN upstream, NEW last \in BOOLEAN, DeltaComes(i, last)
  PROVE  BridgeInv'
<1> DEFINE piece == Piece(i, upstream[i].sent + 1, last)
           kind == upstream[i].kind
           fed == AdapterDelta(adapter, i, kind, piece)
           m == ProcessAll(assembler, held)
           v == [upstream EXCEPT ![i].sent = @ + 1, ![i].last = last]
<1>1. /\ upEnd = "none" /\ ~upstream[i].done /\ upstream' = v /\ said' = Append(said, piece)
      /\ adapter' = fed.a /\ Pushed(fed.out) /\ attempt' = attempt /\ upEnd' = upEnd
  BY DEF DeltaComes, Listening, UpstreamRuns
<1>2. Fit(adapter, upstream, said, m) /\ attempt \in Nat
  BY <1>1 DEF BridgeInv
<1>3. upstream \in Seq(ItemRecord) /\ upstream[i] \in ItemRecord /\ i \in Nat
  BY <1>2, FitTyped
<1>4. piece \in PieceRecord /\ piece.item = i /\ piece.last = last
  BY <1>2, <1>3 DEF Piece, PieceRecord, ItemRecord
<1>5. ItemChanged(upstream, v, i) /\ v[i].sent = upstream[i].sent + 1 /\ v[i].last = last /\ v[i].done = upstream[i].done
  <2>1. v = OneMore(upstream, i, last)
    BY DEF OneMore
  <2> HIDE DEF v
  <2> QED
    BY <2>1, <1>3, ItemSent
<1> HIDE DEF m, v, piece
<1>6. Fit(fed.a, v, Append(said, piece), ProcessAll(m, fed.out)) /\ fed.out \in Seq(BridgeEvent)
  BY <1>1, <1>2, <1>4, <1>5, DeltaFits
<1> HIDE DEF fed
<1>7. /\ ProcessAll(assembler', held') = ProcessAll(m, fed.out)
      /\ held' \in Seq(BridgeEvent) /\ committed' \in BOOLEAN
      /\ committed' => held' = <<>>
      /\ ~committed' => assembler' = NewAssembler
  BY <1>1, <1>6, PushedOn DEF m
<1>8. Fit(adapter', upstream', said', ProcessAll(assembler', held'))
  BY <1>1, <1>6, <1>7
<1> QED
  BY <1>1, <1>2, <1>7, <1>8 DEF BridgeInv

(* An item is done.                                                        *)
LEMMA DoneKeeps ==
  ASSUME BridgeInv, NEW i \in DOMAIN upstream, ItemDone(i)
  PROVE  BridgeInv'
<1> DEFINE piece == Piece(i, 1, TRUE)
           kind == upstream[i].kind
           whole == IF IsCall(kind) /\ upstream[i].sent = 0 THEN <<piece>> ELSE <<>>
           fed == AdapterDone(adapter, i, kind, whole)
           m == ProcessAll(assembler, held)
           v == [upstream EXCEPT ![i].done = TRUE]
<1>1. /\ upEnd = "none" /\ ~upstream[i].done /\ (upstream[i].sent > 0 => upstream[i].last)
      /\ upstream' = v /\ said' = said \o whole
      /\ adapter' = fed.a /\ Pushed(fed.out) /\ attempt' = attempt /\ upEnd' = upEnd
  BY DEF ItemDone, Listening, UpstreamRuns
<1>2. Fit(adapter, upstream, said, m) /\ attempt \in Nat
  BY <1>1 DEF BridgeInv
<1>3. upstream \in Seq(ItemRecord) /\ upstream[i] \in ItemRecord /\ i \in Nat
  BY <1>2, FitTyped
<1>4. piece \in PieceRecord /\ piece.item = i /\ piece.last
  BY <1>2, <1>3 DEF Piece, PieceRecord
<1>5. ItemChanged(upstream, v, i) /\ v[i].sent = upstream[i].sent /\ v[i].done
  <2>1. v = [upstream EXCEPT ![i].done = TRUE]
    OBVIOUS
  <2> HIDE DEF v
  <2> QED
    BY <2>1, <1>3, ItemIsDone
<1> HIDE DEF m, v, piece
<1>6. Fit(fed.a, v, said \o whole, ProcessAll(m, fed.out)) /\ fed.out \in Seq(BridgeEvent)
  <2> DEFINE w == whole
  <2>1. w = IF IsCall(upstream[i].kind) /\ upstream[i].sent = 0 THEN <<piece>> ELSE <<>>
    OBVIOUS
  <2> HIDE DEF w
  <2>2. LET f == AdapterDone(adapter, i, upstream[i].kind, w)
        IN Fit(f.a, v, said \o w, ProcessAll(m, f.out)) /\ f.out \in Seq(BridgeEvent)
    BY <1>1, <1>2, <1>4, <1>5, <2>1, DoneFits
  <2> QED
    BY <2>2 DEF w
<1> HIDE DEF fed, whole
<1>7. /\ ProcessAll(assembler', held') = ProcessAll(m, fed.out)
      /\ held' \in Seq(BridgeEvent) /\ committed' \in BOOLEAN
      /\ committed' => held' = <<>>
      /\ ~committed' => assembler' = NewAssembler
  BY <1>1, <1>6, PushedOn DEF m
<1>8. Fit(adapter', upstream', said', ProcessAll(assembler', held'))
  BY <1>1, <1>6, <1>7
<1> QED
  BY <1>1, <1>2, <1>7, <1>8 DEF BridgeInv

(* The upstream finishes.                                                  *)
LEMMA FinishKeeps ==
  ASSUME BridgeInv, NEW how \in {"completed", "incomplete"}, UpstreamFinishes(how)
  PROVE  BridgeInv'
<1> DEFINE inc == how = "incomplete"
           events == AdapterFinish(adapter, inc)
           m == ProcessAll(assembler, held)
           r == ProcessAll(m, events)
<1>1. /\ upEnd = "none" /\ (how = "completed" => \A i \in DOMAIN upstream : upstream[i].done)
      /\ upEnd' = how /\ committed' = TRUE /\ held' = <<>> /\ assembler' = ProcessAll(assembler, held \o events)
      /\ attempt' = attempt /\ upstream' = upstream /\ said' = said
  BY DEF UpstreamFinishes, Listening, UpstreamRuns
<1>2. Fit(adapter, upstream, said, m) /\ attempt \in Nat /\ held \in Seq(BridgeEvent)
  BY <1>1 DEF BridgeInv
<1> HIDE DEF m
<1>3. HoldsBeginning(upstream, said, r) /\ r.status # "open" /\ events \in Seq(BridgeEvent)
  BY <1>2, FinishBegins
<1>4. how = "completed" => HoldsAll(upstream, said, r) /\ r.status = "completed"
  <2> SUFFICES ASSUME how = "completed" PROVE HoldsAll(upstream, said, r) /\ r.status = "completed"
    OBVIOUS
  <2>1. inc = FALSE
    OBVIOUS
  <2>2. LET x == ProcessAll(m, AdapterFinish(adapter, FALSE))
        IN HoldsAll(upstream, said, x) /\ x.status = "completed"
    BY <1>1, <1>2, FinishHolds
  <2> QED
    BY <2>1, <2>2
<1> HIDE DEF events
<1>5. assembler' = r
  <2>1. ProcessAll(assembler, held \o events) = ProcessAll(m, events)
    BY <1>2, <1>3, ProcessMore DEF m
  <2> QED
    BY <2>1, <1>1
<1> HIDE DEF r
<1>6. ResponseIsWhole'
  <2>1. HoldsBeginning(upstream', said', assembler') /\ assembler'.status # "open"
    BY <1>1, <1>3, <1>5
  <2>2. upEnd' = "completed" => HoldsAll(upstream', said', assembler') /\ assembler'.status = "completed"
    BY <1>1, <1>4, <1>5
  <2>3. upEnd' # "none" /\ committed'
    BY <1>1
  <2> QED
    BY <2>1, <2>2, <2>3 DEF ResponseIsWhole, HoldsBeginning, HoldsAll, Given, Said
<1>7. <<>> \in Seq(BridgeEvent)
  OBVIOUS
<1> QED
  BY <1>1, <1>2, <1>6, <1>7 DEF BridgeInv

(* Another attempt begins unseen.                                          *)
LEMMA RetryKeeps ==
  ASSUME BridgeInv, RetriesUnseen
  PROVE  BridgeInv'
<1>1. /\ ~committed /\ attempt' = attempt + 1 /\ upstream' = <<>> /\ said' = <<>> /\ adapter' = NewAdapter
      /\ held' = <<>> /\ upEnd' = upEnd /\ committed' = committed /\ assembler' = assembler /\ upEnd = "none"
  BY DEF RetriesUnseen, Listening, UpstreamRuns
<1>2. assembler = NewAssembler /\ attempt \in Nat /\ committed \in BOOLEAN
  BY <1>1 DEF BridgeInv
<1>3. ProcessAll(assembler', held') = NewAssembler
  BY <1>1, <1>2, ProcessNone
<1>4. Fit(adapter', upstream', said', ProcessAll(assembler', held'))
  BY <1>1, <1>3, FitNew
<1>5. <<>> \in Seq(BridgeEvent)
  OBVIOUS
<1> QED
  BY <1>1, <1>2, <1>4, <1>5 DEF BridgeInv

(* The stream fails for good.                                              *)
LEMMA FailureKeeps ==
  ASSUME BridgeInv, FailsForGood
  PROVE  BridgeInv'
<1> DEFINE m == ProcessAll(assembler, held)
<1>1. /\ upEnd = "none" /\ upEnd' = "failed" /\ held' = <<>>
      /\ assembler' = IF committed THEN FailExecution(ProcessAll(assembler, CloseBlocks(adapter))) ELSE assembler
      /\ attempt' = attempt /\ upstream' = upstream /\ said' = said /\ committed' = committed
  BY DEF FailsForGood, Listening, UpstreamRuns
<1>2. Fit(adapter, upstream, said, m) /\ attempt \in Nat /\ committed \in BOOLEAN
  BY <1>1 DEF BridgeInv
<1>3. HoldsBeginning(upstream, said, assembler') /\ (assembler'.status # "open" <=> committed)
  <2>1. CASE committed
    <3>1. m = assembler
      BY <2>1, ProcessNone DEF BridgeInv
    <3> HIDE DEF m
    <3> DEFINE r == FailExecution(ProcessAll(m, CloseBlocks(adapter)))
    <3>2. HoldsBeginning(upstream, said, r) /\ r.status = "failed"
      BY <1>2, FailBegins
    <3>3. assembler' = r
      BY <1>1, <2>1, <3>1
    <3> HIDE DEF r
    <3> QED
      BY <2>1, <3>2, <3>3
  <2>2. CASE ~committed
    <3>1. assembler' = NewAssembler /\ NewAssembler.status = "open"
      BY <1>1, <2>2 DEF BridgeInv, NewAssembler
    <3>2. said \in Seq(PieceRecord)
      BY <1>2, FitTyped
    <3> QED
      BY <2>2, <3>1, <3>2, NothingHeld
  <2> QED
    BY <2>1, <2>2, <1>2
<1>4. ResponseIsWhole'
  <2>1. HoldsBeginning(upstream', said', assembler')
    BY <1>1, <1>3
  <2>2. (assembler'.status # "open") <=> (upEnd' # "none" /\ committed')
    BY <1>1, <1>3
  <2>3. upEnd' # "completed"
    BY <1>1
  <2> QED
    BY <2>1, <2>2, <2>3 DEF ResponseIsWhole, HoldsBeginning, Given, Said
<1>5. <<>> \in Seq(BridgeEvent) /\ (~committed => assembler' = NewAssembler)
  BY <1>1 DEF BridgeInv
<1> QED
  BY <1>1, <1>2, <1>4, <1>5 DEF BridgeInv

(* When the upstream completed, so has the response, with all that was     *)
(* said, once and in order; however it ends, the response holds a          *)
(* beginning of it and no half of a function call (assembler.py,           *)
(* completion.py, provider_stream.py, _run_stream).                        *)
THEOREM ResponseWhole == BridgeSpec => []ResponseIsWhole
<1>1. BridgeInit => BridgeInv
  <2> SUFFICES ASSUME BridgeInit PROVE BridgeInv
    OBVIOUS
  <2>1. ProcessAll(assembler, held) = NewAssembler
    BY ProcessNone DEF BridgeInit
  <2>2. Fit(adapter, upstream, said, ProcessAll(assembler, held))
    BY <2>1, FitNew DEF BridgeInit
  <2>3. <<>> \in Seq(BridgeEvent)
    OBVIOUS
  <2> QED
    BY <2>2, <2>3 DEF BridgeInit, BridgeInv
<1>2. BridgeInv /\ [BridgeNext]_bridgeVars => BridgeInv'
  <2> SUFFICES ASSUME BridgeInv, [BridgeNext]_bridgeVars PROVE BridgeInv'
    OBVIOUS
  <2>1. ASSUME NEW kind \in {"text", "thinking", "sealed", "call", "custom"}, ItemAdded(kind) PROVE BridgeInv'
    BY <2>1, AddedKeeps DEF ItemKind
  <2>2. ASSUME NEW i \in DOMAIN upstream, NEW last \in BOOLEAN, DeltaComes(i, last) PROVE BridgeInv'
    BY <2>2, DeltaKeeps
  <2>3. ASSUME NEW i \in DOMAIN upstream, ItemDone(i) PROVE BridgeInv'
    BY <2>3, DoneKeeps
  <2>4. ASSUME NEW how \in {"completed", "incomplete"}, UpstreamFinishes(how) PROVE BridgeInv'
    BY <2>4, FinishKeeps
  <2>5. CASE RetriesUnseen
    BY <2>5, RetryKeeps
  <2>6. CASE FailsForGood
    BY <2>6, FailureKeeps
  <2>7. CASE UNCHANGED bridgeVars
    BY <2>7 DEF bridgeVars, BridgeInv, ResponseIsWhole, Given, Said
  <2> QED
    BY <2>1, <2>2, <2>3, <2>4, <2>5, <2>6, <2>7 DEF BridgeNext
<1> QED
  BY <1>1, <1>2, BridgeHolds, PTL DEF BridgeSpec

=============================================================================
