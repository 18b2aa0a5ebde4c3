----------------------- MODULE ProviderAdmissionProofs -----------------------
(***************************************************************************)
(* The admission controller keeps its types and implements the circuit     *)
(* breaker, for any calls, attempt budgets and slots.                      *)
(***************************************************************************)
EXTENDS ProviderAdmissionProps, SequenceTheorems, TLAPS

\* A call that is to make an attempt has one left.
Coming == {"idle", "access", "waiting", "notified", "backoff", "limiter", "queued", "granted"}
Budgeted ==
  {r \in CallType : r.pc \in Coming \/ (r.pc = "closing" /\ r.next = "retry")
                      => r.attempts < MaxAttempts}

StateType ==
  [calls : [Calls -> Budgeted], episode : EpisodeType \cup {None},
   generation : Nat, free : Nat, queue : Seq(Calls)]

\* The queue of the semaphore holds the queued calls, each once.
QueueOK(s) ==
  /\ \A i, j \in DOMAIN s.queue : s.queue[i] = s.queue[j] => i = j
  /\ \A c \in Calls :
       s.calls[c].pc = "queued" <=> \E i \in DOMAIN s.queue : s.queue[i] = c

\* An ended episode has neither leader nor probe; only a leader probes.
EpisodeOK(e) ==
  e # None =>
    /\ e.phase # "open" => e.leader = None /\ ~e.probing
    /\ e.leader = None => ~e.probing

Good(s) == s \in StateType /\ QueueOK(s) /\ EpisodeOK(s.episode)

\* The circuit breaker of an episode, and the calls without an answer.
ModeOf(e) ==
  IF e = None THEN "closed"
  ELSE IF e.phase # "open" THEN e.phase
  ELSE IF e.probing THEN "probing" ELSE "open"
OwnerOf(e) == IF e = None THEN None ELSE e.leader
Asks(r) == r.pc \in {"upstream", "streaming"} /\ ~r.resolved
Asking(s) == {c \in Calls : Asks(s.calls[c])}

\* A step of a pipeline that leaves c where it is.
Keeps(s, t, c) ==
  /\ Good(t)
  /\ t.calls[c].pc = s.calls[c].pc /\ t.calls[c].attempts = s.calls[c].attempts
  /\ Asking(t) = Asking(s)

\* The last step of a pipeline: c is no longer asking.
Moves(s, t, c) == Good(t) /\ Asking(t) = Asking(s) \ {c}

\* The episode passes from e to f as in an abstract step of call c: nothing,
\* an answer, a passage of the gate, or a probe that is given back.
Same(e, f) == ModeOf(f) = ModeOf(e) /\ OwnerOf(f) = OwnerOf(e)
Settles(e, f, c) ==
  \/ Same(e, f)
  \/ /\ ModeOf(e) = "closed" \/ (ModeOf(e) = "probing" /\ OwnerOf(e) = c)
     /\ <<ModeOf(f), OwnerOf(f)>> \in {<<"closed", None>>, <<"open", c>>, <<"cooling", None>>}
Passes(e, f, c) ==
  <<ModeOf(f), OwnerOf(f)>> \in Circuit!Passages(c, ModeOf(e), OwnerOf(e))
Yields(e, f, c) ==
  /\ ModeOf(e) \in {"open", "probing"} /\ OwnerOf(e) = c
  /\ ModeOf(f) = "open" /\ OwnerOf(f) = None

-----------------------------------------------------------------------------
(* The primitive changes of a state. *)

PutC(s, c, r) == [s EXCEPT !.calls[c] = r]
PutE(s, e) == [s EXCEPT !.episode = e]

(* A call that is not queued goes to any place but the queue.              *)
LEMMA PutCall ==
  ASSUME NEW s, Good(s), NEW c \in Calls, s.calls[c].pc # "queued",
         NEW r \in Budgeted, r.pc # "queued"
  PROVE  /\ Good(PutC(s, c, r)) /\ PutC(s, c, r).calls[c] = r
         /\ PutC(s, c, r).episode = s.episode
         /\ Asks(r) => Asking(PutC(s, c, r)) = Asking(s) \cup {c}
         /\ ~Asks(r) => Asking(PutC(s, c, r)) = Asking(s) \ {c}
<1> DEFINE t == PutC(s, c, r)
<1>1. t \in StateType /\ t.calls = [s.calls EXCEPT ![c] = r]
      /\ t.queue = s.queue /\ t.episode = s.episode
  BY DEF Good, StateType, PutC
<1>2. t.calls[c] = r /\ \A d \in Calls : d # c => t.calls[d] = s.calls[d]
  BY <1>1 DEF Good, StateType
<1> HIDE DEF t
<1>3. QueueOK(t)
  BY <1>1, <1>2 DEF Good, QueueOK
<1>4. /\ Asks(r) => Asking(t) = Asking(s) \cup {c}
      /\ ~Asks(r) => Asking(t) = Asking(s) \ {c}
  BY <1>2 DEF Asking
<1>5. QED
  BY <1>1, <1>2, <1>3, <1>4 DEF Good, t

(* A call that stays where it is and is as resolved as before.             *)
LEMMA PutKeeps ==
  ASSUME NEW s, Good(s), NEW c \in Calls, NEW r \in Budgeted,
         r.pc = s.calls[c].pc, r.resolved = s.calls[c].resolved
  PROVE  /\ Good(PutC(s, c, r)) /\ PutC(s, c, r).calls[c] = r
         /\ PutC(s, c, r).episode = s.episode /\ Asking(PutC(s, c, r)) = Asking(s)
<1> DEFINE t == PutC(s, c, r)
<1>1. t \in StateType /\ t.calls = [s.calls EXCEPT ![c] = r]
      /\ t.queue = s.queue /\ t.episode = s.episode
  BY DEF Good, StateType, PutC
<1>2. t.calls[c] = r /\ \A d \in Calls : d # c => t.calls[d] = s.calls[d]
  BY <1>1 DEF Good, StateType
<1> HIDE DEF t
<1>3. QueueOK(t)
  BY <1>1, <1>2 DEF Good, QueueOK
<1>4. Asking(t) = Asking(s)
  BY <1>2 DEF Asking, Asks
<1>5. QED
  BY <1>1, <1>2, <1>3, <1>4 DEF Good, t

(* The episode is replaced.                                                *)
LEMMA PutEpisode ==
  ASSUME NEW s, Good(s), NEW e \in EpisodeType \cup {None}, EpisodeOK(e)
  PROVE  /\ Good(PutE(s, e)) /\ PutE(s, e).calls = s.calls
         /\ PutE(s, e).episode = e /\ Asking(PutE(s, e)) = Asking(s)
BY DEF Good, StateType, QueueOK, Asking, PutE

(* notify_all() wakes the calls that wait, and does nothing else.          *)
LEMMA NotifyAllKeeps ==
  ASSUME NEW s, Good(s)
  PROVE  /\ Good(NotifyAll(s))
         /\ NotifyAll(s).episode = s.episode
         /\ Asking(NotifyAll(s)) = Asking(s)
         /\ \A c \in Calls : s.calls[c].pc # "waiting" =>
              NotifyAll(s).calls[c] = s.calls[c]
<1> DEFINE t == NotifyAll(s)
<1>1. /\ t.calls = [c \in Calls |-> IF s.calls[c].pc = "waiting"
                                  THEN [s.calls[c] EXCEPT !.pc = "notified"]
                                  ELSE s.calls[c]]
      /\ t.queue = s.queue /\ t.episode = s.episode
      /\ t.generation = s.generation /\ t.free = s.free
      /\ t = [calls |-> t.calls, episode |-> s.episode, generation |-> s.generation,
              free |-> s.free, queue |-> s.queue]
  BY DEF Good, StateType, NotifyAll
<1>2. \A c \in Calls : s.calls[c] \in Budgeted
  BY DEF Good, StateType
<1>3. \A c \in Calls : s.calls[c].pc = "waiting" =>
        /\ t.calls[c] \in Budgeted /\ t.calls[c].pc = "notified"
  BY <1>1, <1>2 DEF Budgeted, Coming, CallType, Place
<1>4. \A c \in Calls : s.calls[c].pc # "waiting" => t.calls[c] = s.calls[c]
  BY <1>1
<1>5. t.calls \in [Calls -> Budgeted]
  BY <1>1, <1>2, <1>3, <1>4
<1> HIDE DEF t
<1>6. t \in StateType
  BY <1>1, <1>5 DEF Good, StateType
<1>7. QueueOK(t)
  BY <1>1, <1>3, <1>4 DEF Good, QueueOK
<1>8. Asking(t) = Asking(s)
  BY <1>3, <1>4 DEF Asking, Asks
<1>9. QED
  BY <1>1, <1>4, <1>6, <1>7, <1>8 DEF Good, t

(* A released slot is free, or the next queued call's.                     *)
LEMMA ReleaseSlotKeeps ==
  ASSUME NEW s, Good(s)
  PROVE  /\ Good(ReleaseSlot(s))
         /\ ReleaseSlot(s).episode = s.episode
         /\ Asking(ReleaseSlot(s)) = Asking(s)
         /\ \A c \in Calls : s.calls[c].pc # "queued" =>
              ReleaseSlot(s).calls[c] = s.calls[c]
<1>1. CASE s.queue = <<>>
  BY <1>1 DEF Good, StateType, QueueOK, Asking, ReleaseSlot
<1>2. CASE s.queue # <<>>
  <2> DEFINE h == Head(s.queue)
             r == [s.calls[h] EXCEPT !.pc = "granted"]
             t == ReleaseSlot(s)
  <2>1. s.queue \in Seq(Calls) /\ Len(s.queue) >= 1 /\ h = s.queue[1]
    BY <1>2 DEF Good, StateType
  <2>2. h \in Calls /\ s.calls[h].pc = "queued"
    BY <2>1 DEF Good, QueueOK
  <2>3. /\ t.calls = [s.calls EXCEPT ![h] = r] /\ t.queue = Tail(s.queue)
        /\ t.episode = s.episode /\ t.generation = s.generation /\ t.free = s.free
        /\ t = [calls |-> t.calls, episode |-> s.episode, generation |-> s.generation,
                free |-> s.free, queue |-> t.queue]
    BY <1>2 DEF Good, StateType, ReleaseSlot
  <2>4. r \in Budgeted /\ r.pc = "granted"
    <3>1. s.calls[h] \in Budgeted
      BY <2>2 DEF Good, StateType
    <3>2. QED
      BY <2>2, <3>1 DEF Budgeted, Coming, CallType, Place
  <2>5. /\ t.calls[h] = r /\ \A d \in Calls : d # h => t.calls[d] = s.calls[d]
        /\ t.calls \in [Calls -> Budgeted]
    BY <2>2, <2>3, <2>4 DEF Good, StateType
  <2>6. /\ t.queue \in Seq(Calls) /\ Len(t.queue) = Len(s.queue) - 1
        /\ \A i \in 1..Len(t.queue) : t.queue[i] = s.queue[i + 1]
    BY <2>1, <2>3
  <2> HIDE DEF t, h, r
  <2>7. t \in StateType
    BY <2>3, <2>5, <2>6 DEF Good, StateType
  <2>8. \A d \in Calls : (\E i \in DOMAIN t.queue : t.queue[i] = d)
                         <=> d # h /\ \E i \in DOMAIN s.queue : s.queue[i] = d
    <3> SUFFICES ASSUME NEW d \in Calls
                 PROVE  (\E i \in DOMAIN t.queue : t.queue[i] = d)
                         <=> d # h /\ \E i \in DOMAIN s.queue : s.queue[i] = d
      OBVIOUS
    <3>1. ASSUME NEW i \in 1..Len(t.queue), t.queue[i] = d
          PROVE  d # h /\ \E k \in DOMAIN s.queue : s.queue[k] = d
      <4>1. i + 1 \in 1..Len(s.queue) /\ s.queue[i + 1] = d /\ 1 \in 1..Len(s.queue)
        BY <2>1, <2>6, <3>1
      <4>2. QED
        BY <2>1, <4>1 DEF Good, QueueOK
    <3>2. ASSUME NEW i \in 1..Len(s.queue), s.queue[i] = d, d # h
          PROVE  \E k \in 1..Len(t.queue) : t.queue[k] = d
      <4>1. i - 1 \in 1..Len(t.queue) /\ t.queue[i - 1] = d
        BY <2>1, <2>6, <3>2
      <4>2. QED
        BY <4>1
    <3>3. DOMAIN t.queue = 1..Len(t.queue) /\ DOMAIN s.queue = 1..Len(s.queue)
      BY <2>1, <2>6
    <3>4. QED
      BY <3>1, <3>2, <3>3
  <2>9. \A i, j \in DOMAIN t.queue : t.queue[i] = t.queue[j] => i = j
    <3> SUFFICES ASSUME NEW i \in 1..Len(t.queue), NEW j \in 1..Len(t.queue),
                        t.queue[i] = t.queue[j]
                 PROVE  i = j
      BY <2>6
    <3>1. i + 1 \in 1..Len(s.queue) /\ j + 1 \in 1..Len(s.queue)
          /\ s.queue[i + 1] = s.queue[j + 1]
      BY <2>1, <2>6
    <3>2. i + 1 = j + 1
      BY <2>1, <3>1 DEF Good, QueueOK
    <3>3. QED
      BY <3>2
  <2>10. QueueOK(t)
    BY <2>2, <2>4, <2>5, <2>8, <2>9 DEF Good, QueueOK
  <2>11. Asking(t) = Asking(s)
    BY <2>2, <2>4, <2>5 DEF Asking, Asks
  <2>12. QED
    BY <2>2, <2>3, <2>5, <2>7, <2>10, <2>11 DEF Good, t
<1>3. QED
  BY <1>1, <1>2

(* The calls woken are the first in the queue; the others move up.         *)
LEMMA WokenParts ==
  ASSUME NEW s, Good(s)
  PROVE  \E n \in Nat :
           LET t == Woken(s) IN
           /\ n <= s.free /\ n <= Len(s.queue) /\ (n = s.free \/ n = Len(s.queue))
           /\ t.free = s.free - n /\ t.episode = s.episode /\ t.generation = s.generation
           /\ t.queue \in Seq(Calls) /\ Len(t.queue) = Len(s.queue) - n
           /\ \A i \in 1..Len(t.queue) : t.queue[i] = s.queue[n + i]
           /\ t.calls = [c \in Calls |->
                IF \E i \in 1..n : s.queue[i] = c THEN [s.calls[c] EXCEPT !.pc = "granted"]
                ELSE s.calls[c]]
           /\ t = [calls |-> t.calls, episode |-> s.episode, generation |-> s.generation,
                   free |-> s.free - n, queue |-> t.queue]
<1> DEFINE m == Len(s.queue)
           n == IF s.free < m THEN s.free ELSE m
           q == SubSeq(s.queue, n + 1, m)
           f == [c \in Calls |->
                   IF \E i \in 1..n : s.queue[i] = c THEN [s.calls[c] EXCEPT !.pc = "granted"]
                   ELSE s.calls[c]]
           t == Woken(s)
<1>1. s.queue \in Seq(Calls) /\ m \in Nat /\ s.free \in Nat /\ n \in Nat
  BY DEF Good, StateType
<1>2. n <= s.free /\ n <= m /\ (n = s.free \/ n = m)
  BY <1>1
<1>3. q \in Seq(Calls) /\ Len(q) = m - n /\ \A i \in 1..Len(q) : q[i] = s.queue[n + i]
  <2> HIDE DEF n
  <2>1. n + 1 \in 1..m + 1 /\ \A k \in 1..m : s.queue[k] \in Calls
    BY <1>1, <1>2
  <2>2. /\ q \in Seq(Calls) /\ Len(q) = m - n
        /\ \A i \in 1..m - n : q[i] = s.queue[n + i]
    BY <1>1, <1>2, <2>1, SubSeqProperties
  <2> QED
    BY <2>2
<1>4. t = [calls |-> f, episode |-> s.episode, generation |-> s.generation,
           free |-> s.free - n, queue |-> q]
  <2>1. t = [s EXCEPT !.free = s.free - n, !.queue = q, !.calls = f]
    BY DEF Woken
  <2>2. s = [calls |-> s.calls, episode |-> s.episode, generation |-> s.generation,
             free |-> s.free, queue |-> s.queue]
    BY DEF Good, StateType
  <2> HIDE DEF n, q, f, t
  <2> QED
    BY <2>1, <2>2
<1> HIDE DEF n, q, f, t
<1>5. /\ t.calls = f /\ t.queue = q /\ t.free = s.free - n /\ t.episode = s.episode
      /\ t.generation = s.generation
  BY <1>4
<1> QED
  BY <1>1, <1>2, <1>3, <1>4, <1>5 DEF t, f

(* Those who are woken were queued, and the rest of the queue is as before.*)
LEMMA WokenKeeps ==
  ASSUME NEW s, Good(s)
  PROVE  /\ Good(Woken(s))
         /\ Woken(s).episode = s.episode /\ Woken(s).generation = s.generation
         /\ Asking(Woken(s)) = Asking(s)
         /\ \A c \in Calls : \/ Woken(s).calls[c] = s.calls[c]
                             \/ /\ s.calls[c].pc = "queued"
                                /\ Woken(s).calls[c] = [s.calls[c] EXCEPT !.pc = "granted"]
<1> DEFINE t == Woken(s)
           m == Len(s.queue)
<1>1. PICK n \in Nat :
           /\ n <= s.free /\ n <= m
           /\ t.free = s.free - n /\ t.episode = s.episode /\ t.generation = s.generation
           /\ t.queue \in Seq(Calls) /\ Len(t.queue) = m - n
           /\ \A i \in 1..Len(t.queue) : t.queue[i] = s.queue[n + i]
           /\ t.calls = [c \in Calls |->
                IF \E i \in 1..n : s.queue[i] = c THEN [s.calls[c] EXCEPT !.pc = "granted"]
                ELSE s.calls[c]]
           /\ t = [calls |-> t.calls, episode |-> s.episode, generation |-> s.generation,
                   free |-> s.free - n, queue |-> t.queue]
  BY WokenParts
<1> HIDE DEF t
<1>2. /\ s.queue \in Seq(Calls) /\ m \in Nat /\ s.free \in Nat /\ DOMAIN s.queue = 1..m
      /\ s.calls \in [Calls -> Budgeted] /\ DOMAIN t.queue = 1..Len(t.queue)
  BY <1>1 DEF Good, StateType
<1>3. ASSUME NEW c \in Calls, \E i \in 1..n : s.queue[i] = c
      PROVE  /\ s.calls[c].pc = "queued"
             /\ t.calls[c] = [s.calls[c] EXCEPT !.pc = "granted"]
             /\ t.calls[c] \in Budgeted /\ t.calls[c].pc = "granted"
  <2>1. PICK i \in 1..n : s.queue[i] = c
    BY <1>3
  <2>2. i \in 1..m
    BY <1>1, <1>2
  <2>3. s.calls[c].pc = "queued" /\ s.calls[c] \in Budgeted
    BY <1>2, <2>1, <2>2 DEF Good, QueueOK
  <2>4. t.calls[c] = [s.calls[c] EXCEPT !.pc = "granted"]
    BY <1>1, <1>3
  <2> QED
    BY <2>3, <2>4 DEF Budgeted, Coming, CallType, Place
<1>4. ASSUME NEW c \in Calls, ~\E i \in 1..n : s.queue[i] = c
      PROVE  t.calls[c] = s.calls[c]
  BY <1>1, <1>4
<1>5. t.calls \in [Calls -> Budgeted]
  <2>1. \A c \in Calls : t.calls[c] \in Budgeted
    BY <1>2, <1>3, <1>4
  <2>2. t.calls = [c \in Calls |-> t.calls[c]]
    BY <1>1
  <2> QED
    BY <2>1, <2>2
<1>6. t \in StateType
  <2>1. s.free - n \in Nat
    BY <1>1, <1>2
  <2> QED
    BY <1>1, <1>5, <2>1 DEF Good, StateType
<1>7. \A i, j \in DOMAIN t.queue : t.queue[i] = t.queue[j] => i = j
  <2> SUFFICES ASSUME NEW i \in 1..Len(t.queue), NEW j \in 1..Len(t.queue),
                      t.queue[i] = t.queue[j]
               PROVE  i = j
    BY <1>2
  <2>1. n + i \in 1..m /\ n + j \in 1..m /\ s.queue[n + i] = s.queue[n + j]
    BY <1>1, <1>2
  <2>2. n + i = n + j
    BY <1>2, <2>1 DEF Good, QueueOK
  <2> QED
    BY <2>2
<1>8. ASSUME NEW c \in Calls
      PROVE  t.calls[c].pc = "queued" <=> \E i \in DOMAIN t.queue : t.queue[i] = c
  <2>1. ASSUME NEW i \in 1..Len(t.queue), t.queue[i] = c
        PROVE  t.calls[c].pc = "queued"
    <3>1. n + i \in 1..m /\ s.queue[n + i] = c
      BY <1>1, <1>2, <2>1
    <3>2. ASSUME NEW k \in 1..n, s.queue[k] = c PROVE FALSE
      <4>1. k \in 1..m /\ k # n + i
        BY <1>1, <1>2
      <4> QED
        BY <1>2, <3>1, <3>2, <4>1 DEF Good, QueueOK
    <3>3. s.calls[c].pc = "queued"
      BY <1>2, <3>1 DEF Good, QueueOK
    <3> QED
      BY <1>4, <3>2, <3>3
  <2>2. ASSUME t.calls[c].pc = "queued"
        PROVE  \E i \in 1..Len(t.queue) : t.queue[i] = c
    <3>1. ~\E i \in 1..n : s.queue[i] = c
      BY <1>3, <2>2
    <3>2. s.calls[c].pc = "queued"
      BY <1>4, <2>2, <3>1
    <3>3. PICK k \in 1..m : s.queue[k] = c
      BY <1>2, <3>2 DEF Good, QueueOK
    <3>4. k - n \in 1..Len(t.queue) /\ n + (k - n) = k
      BY <1>1, <1>2, <3>1, <3>3
    <3> QED
      BY <1>1, <3>3, <3>4
  <2> QED
    BY <1>2, <2>1, <2>2
<1>9. QueueOK(t)
  BY <1>7, <1>8 DEF QueueOK
<1>10. Asking(t) = Asking(s)
  <2>1. \A c \in Calls : Asks(t.calls[c]) <=> Asks(s.calls[c])
    BY <1>3, <1>4 DEF Asks
  <2> QED
    BY <2>1 DEF Asking
<1> QED
  BY <1>1, <1>3, <1>4, <1>6, <1>9, <1>10 DEF Good, t

-----------------------------------------------------------------------------
(* Outcomes and the episode. *)

(* A probe that matches is the probe of an open episode.                   *)
LEMMA MatchingIsProbing ==
  ASSUME NEW s, Good(s), NEW c \in Calls, MatchingProbe(s, c)
  PROVE  /\ s.episode \in EpisodeType /\ s.episode # None
         /\ s.episode.phase = "open" /\ s.episode.leader = c /\ s.episode.probing
         /\ ModeOf(s.episode) = "probing" /\ OwnerOf(s.episode) = c
<1>1. /\ s.episode \in EpisodeType /\ s.episode # None
      /\ s.episode.leader = c /\ s.episode.probing
  BY DEF Good, StateType, MatchingProbe
<1>2. s.episode.phase = "open"
  BY <1>1 DEF Good, EpisodeOK
<1>3. QED
  BY <1>1, <1>2 DEF ModeOf, OwnerOf

(* A success or a rejection closes the episode it is the probe of.         *)
LEMMA RejectedKeeps ==
  ASSUME NEW s, Good(s), NEW c \in Calls, s.calls[c].pc # "waiting"
  PROVE  /\ Keeps(s, Rejected(s, c), c) /\ Settles(s.episode, Rejected(s, c).episode, c)
         /\ Rejected(s, c).calls[c] = s.calls[c]
<1> DEFINE u == PutE(s, None)
           t == IF MatchingProbe(s, c) THEN NotifyAll(u) ELSE s
<1>1. CASE MatchingProbe(s, c)
  <2>1. Good(u) /\ u.calls = s.calls /\ u.episode = None /\ Asking(u) = Asking(s)
    BY PutEpisode DEF EpisodeOK
  <2>2. /\ Good(NotifyAll(u)) /\ NotifyAll(u).episode = None
        /\ Asking(NotifyAll(u)) = Asking(s) /\ NotifyAll(u).calls[c] = s.calls[c]
    <3> HIDE DEF u
    <3>1. QED
      BY <2>1, NotifyAllKeeps
  <2>3. ModeOf(s.episode) = "probing" /\ OwnerOf(s.episode) = c
    BY <1>1, MatchingIsProbing
  <2>4. QED
    <3> HIDE DEF u
    <3>1. t = NotifyAll(u)
      BY <1>1
    <3>2. Keeps(s, t, c) /\ Settles(s.episode, t.episode, c) /\ t.calls[c] = s.calls[c]
      BY <2>2, <2>3, <3>1 DEF Keeps, Settles, ModeOf, OwnerOf
    <3>3. QED
      BY <3>2 DEF Rejected, PutE, u
<1>2. CASE ~MatchingProbe(s, c)
  <2>1. Rejected(s, c) = s
    BY <1>2 DEF Rejected
  <2>2. QED
    BY <2>1 DEF Keeps, Settles, Same
<1>3. QED
  BY <1>1, <1>2

(* An attempt that was resolved before decides nothing.                    *)
LEMMA SucceededKeeps ==
  ASSUME NEW s, Good(s), NEW c \in Calls, s.calls[c].pc # "waiting"
  PROVE  /\ Keeps(s, Succeeded(s, c), c) /\ Settles(s.episode, Succeeded(s, c).episode, c)
         /\ Succeeded(s, c).calls[c] = s.calls[c]
         /\ s.calls[c].resolved => Succeeded(s, c).episode = s.episode
<1>1. CASE s.calls[c].resolved
  BY <1>1 DEF Succeeded, Keeps, Settles, Same
<1>2. CASE ~s.calls[c].resolved
  BY <1>2, RejectedKeeps DEF Succeeded
<1>3. QED
  BY <1>1, <1>2

(* A correction keeps the probe's owner and lets it probe again at once.   *)
LEMMA CorrectedKeeps ==
  ASSUME NEW s, Good(s), NEW c \in Calls, s.calls[c].pc # "waiting"
  PROVE  /\ Keeps(s, Corrected(s, c), c) /\ Settles(s.episode, Corrected(s, c).episode, c)
         /\ s.calls[c].resolved => Corrected(s, c).episode = s.episode
<1>1. CASE ~s.calls[c].resolved /\ MatchingProbe(s, c)
  <2> DEFINE e == [s.episode EXCEPT !.probing = FALSE, !.ready = TRUE]
             u == PutE(s, e)
  <2>1. /\ s.episode \in EpisodeType /\ s.episode # None
        /\ s.episode.phase = "open" /\ s.episode.leader = c
        /\ ModeOf(s.episode) = "probing" /\ OwnerOf(s.episode) = c
    BY <1>1, MatchingIsProbing
  <2>2. e \in EpisodeType /\ ~e.probing /\ e.leader = c /\ e.phase = "open"
    BY <2>1 DEF EpisodeType
  <2>3. e # None /\ EpisodeOK(e) /\ c # None
    BY <2>2, NoneIsNoEpisode, AdmissionAssumption DEF EpisodeOK
  <2> HIDE DEF e
  <2>4. Good(u) /\ u.calls = s.calls /\ u.episode = e /\ Asking(u) = Asking(s)
    BY <2>2, <2>3, PutEpisode
  <2>5. Corrected(s, c) = NotifyAll(u)
    <3>1. u = [s EXCEPT !.episode.probing = FALSE, !.episode.ready = TRUE]
      BY DEF Good, StateType, PutE, u, e
    <3>2. QED
      BY <1>1, <3>1 DEF Corrected
  <2> HIDE DEF u
  <2>6. /\ Good(NotifyAll(u)) /\ NotifyAll(u).episode = e
        /\ Asking(NotifyAll(u)) = Asking(s) /\ NotifyAll(u).calls[c] = s.calls[c]
    BY <2>4, NotifyAllKeeps
  <2>7. QED
    BY <1>1, <2>1, <2>2, <2>3, <2>5, <2>6 DEF Keeps, Settles, ModeOf, OwnerOf
<1>2. CASE s.calls[c].resolved \/ ~MatchingProbe(s, c)
  BY <1>2 DEF Corrected, Keeps, Settles, Same
<1>3. QED
  BY <1>1, <1>2

(* A probe that is given back leaves an open episode without a leader.     *)
LEMMA AbandonedKeeps ==
  ASSUME NEW s, Good(s), NEW c \in Calls
  PROVE  /\ Good(Abandoned(s, c)) /\ Asking(Abandoned(s, c)) = Asking(s)
         /\ s.calls[c].pc # "waiting" => Abandoned(s, c).calls[c] = s.calls[c]
         /\ Same(s.episode, Abandoned(s, c).episode) \/ Yields(s.episode, Abandoned(s, c).episode, c)
         /\ ~MatchingProbe(s, c) => Abandoned(s, c) = s
<1>1. CASE MatchingProbe(s, c)
  <2> DEFINE e == [s.episode EXCEPT !.leader = None, !.probing = FALSE, !.ready = TRUE]
             u == PutE(s, e)
  <2>1. /\ s.episode \in EpisodeType /\ s.episode # None
        /\ s.episode.phase = "open" /\ s.episode.leader = c
        /\ ModeOf(s.episode) = "probing" /\ OwnerOf(s.episode) = c
    BY <1>1, MatchingIsProbing
  <2>2. e \in EpisodeType /\ ~e.probing /\ e.leader = None /\ e.phase = "open"
    BY <2>1 DEF EpisodeType
  <2>3. e # None /\ EpisodeOK(e)
    BY <2>2, NoneIsNoEpisode DEF EpisodeOK
  <2> HIDE DEF e
  <2>4. Good(u) /\ u.calls = s.calls /\ u.episode = e /\ Asking(u) = Asking(s)
    BY <2>2, <2>3, PutEpisode
  <2>5. Abandoned(s, c) = NotifyAll(u)
    <3>1. u = [s EXCEPT !.episode.leader = None, !.episode.probing = FALSE,
                        !.episode.ready = TRUE]
      BY DEF Good, StateType, PutE, u, e
    <3>2. QED
      BY <1>1, <3>1 DEF Abandoned
  <2> HIDE DEF u
  <2>6. /\ Good(NotifyAll(u)) /\ NotifyAll(u).episode = e
        /\ Asking(NotifyAll(u)) = Asking(s)
        /\ s.calls[c].pc # "waiting" => NotifyAll(u).calls[c] = s.calls[c]
    BY <2>4, NotifyAllKeeps
  <2>7. QED
    BY <1>1, <2>1, <2>2, <2>3, <2>5, <2>6 DEF Yields, ModeOf, OwnerOf
<1>2. CASE ~MatchingProbe(s, c)
  BY <1>2 DEF Abandoned, Same
<1>3. QED
  BY <1>1, <1>2

(* A new episode takes the place of the one there was.                     *)
LEMMA StartEpisodeGood ==
  ASSUME NEW s, Good(s), NEW leader \in Calls \cup {None}, NEW ready \in BOOLEAN
  PROVE  LET t == StartEpisode(s, leader, ready)
         IN  /\ Good(t) /\ t.calls = s.calls /\ Asking(t) = Asking(s)
             /\ t.episode \in EpisodeType /\ t.episode # None
             /\ t.episode.leader = leader /\ t.episode.ready = ready
             /\ ~t.episode.probing /\ t.episode.phase = "open"
<1> DEFINE e == [gen |-> s.generation, leader |-> leader, ready |-> ready,
                 probing |-> FALSE, waiters |-> {}, phase |-> "open"]
           t == StartEpisode(s, leader, ready)
<1>1. e \in EpisodeType /\ e.leader = leader /\ e.ready = ready /\ ~e.probing
      /\ e.phase = "open"
  BY DEF Good, StateType, EpisodeType
<1>2. t.calls = s.calls /\ t.episode = e /\ t.queue = s.queue /\ t.free = s.free
      /\ t.generation = s.generation + 1
      /\ t = [calls |-> s.calls, episode |-> e, generation |-> s.generation + 1,
              free |-> s.free, queue |-> s.queue]
  <2>1. t = [s EXCEPT !.episode = e, !.generation = s.generation + 1]
    BY DEF StartEpisode
  <2> HIDE DEF e, t
  <2>2. QED
    BY <2>1 DEF Good, StateType
<1>3. e # None /\ EpisodeOK(e)
  BY <1>1, NoneIsNoEpisode DEF EpisodeOK
<1> HIDE DEF e, t
<1>4. Good(t) /\ Asking(t) = Asking(s)
  BY <1>1, <1>2, <1>3 DEF Good, StateType, QueueOK, Asking
<1>5. QED
  BY <1>1, <1>2, <1>3, <1>4 DEF t

(* A retryable failure opens a closed circuit, reopens it when it was the  *)
(* probe's, and otherwise leaves it alone.                                 *)
LEMMA FailedWithAttemptsLeftKeeps ==
  ASSUME NEW s, Good(s), NEW c \in Calls, s.calls[c].pc \notin {"waiting", "queued"}
  PROVE  /\ Keeps(s, FailedWithAttemptsLeft(s, c), c)
         /\ Settles(s.episode, FailedWithAttemptsLeft(s, c).episode, c)
<1> DEFINE t == FailedWithAttemptsLeft(s, c)
<1>0. c # None
  BY AdmissionAssumption
<1>1. CASE s.episode = None
  <2> DEFINE u == StartEpisode(s, c, FALSE)
  <2>1. /\ Good(u) /\ u.calls = s.calls /\ Asking(u) = Asking(s)
        /\ u.episode # None /\ u.episode.leader = c
        /\ ~u.episode.probing /\ u.episode.phase = "open"
    <3> HIDE DEF t
    <3>1. c \in Calls \cup {None} /\ FALSE \in BOOLEAN
      OBVIOUS
    <3>2. QED
      BY ZenonT(30), <3>1, StartEpisodeGood
  <2>2. t = NotifyAll(u)
    BY <1>1 DEF FailedWithAttemptsLeft
  <2> HIDE DEF u, t
  <2>3. QED
    BY <1>1, <2>1, <2>2, NotifyAllKeeps DEF Keeps, Settles, ModeOf, OwnerOf, t
<1>2. CASE s.episode # None /\ MatchingProbe(s, c)
  <2> DEFINE e == [s.episode EXCEPT !.probing = FALSE, !.ready = FALSE]
             u == PutE(s, e)
  <2>1. /\ s.episode \in EpisodeType
        /\ s.episode.phase = "open" /\ s.episode.leader = c
        /\ ModeOf(s.episode) = "probing" /\ OwnerOf(s.episode) = c
    BY <1>2, MatchingIsProbing
  <2>2. e \in EpisodeType /\ ~e.probing /\ e.leader = c /\ e.phase = "open"
    BY <2>1 DEF EpisodeType
  <2>3. e # None /\ EpisodeOK(e)
    BY <1>0, <2>2, NoneIsNoEpisode DEF EpisodeOK
  <2> HIDE DEF e
  <2>4. Good(u) /\ u.calls = s.calls /\ u.episode = e /\ Asking(u) = Asking(s)
    BY <2>2, <2>3, PutEpisode
  <2>5. t = NotifyAll(u)
    <3>1. u = [s EXCEPT !.episode.probing = FALSE, !.episode.ready = FALSE]
      BY DEF Good, StateType, PutE, u, e
    <3>2. QED
      BY <1>2, <3>1 DEF FailedWithAttemptsLeft
  <2> HIDE DEF u, t
  <2>6. /\ Good(NotifyAll(u)) /\ NotifyAll(u).episode = e
        /\ Asking(NotifyAll(u)) = Asking(s) /\ NotifyAll(u).calls[c] = s.calls[c]
    BY <2>4, NotifyAllKeeps
  <2>7. QED
    BY <2>1, <2>2, <2>3, <2>5, <2>6 DEF Keeps, Settles, ModeOf, OwnerOf, t
<1>3. CASE s.episode # None /\ ~MatchingProbe(s, c) /\ s.episode.phase # "open"
  <2> DEFINE r == [s.calls[c] EXCEPT !.failed = TRUE]
             u == PutC(s, c, r)
  <2>1. s.calls[c] \in Budgeted
    BY DEF Good, StateType
  <2>2. /\ r \in Budgeted /\ r.pc = s.calls[c].pc
        /\ r.resolved = s.calls[c].resolved /\ r.attempts = s.calls[c].attempts
    BY <2>1 DEF Budgeted, Coming, CallType
  <2> HIDE DEF r
  <2>4. Good(u) /\ u.calls[c] = r /\ u.episode = s.episode /\ Asking(u) = Asking(s)
    BY <2>2, PutKeeps
  <2>5. t = NotifyAll(u)
    <3>1. u = [s EXCEPT !.calls[c].failed = TRUE]
      BY DEF PutC, u, r
    <3>2. QED
      BY <1>3, <3>1 DEF FailedWithAttemptsLeft
  <2> HIDE DEF u, t
  <2>6. /\ Good(NotifyAll(u)) /\ NotifyAll(u).episode = s.episode
        /\ Asking(NotifyAll(u)) = Asking(s) /\ NotifyAll(u).calls[c] = r
    BY <2>2, <2>4, NotifyAllKeeps
  <2>7. QED
    BY <2>2, <2>5, <2>6 DEF Keeps, Settles, Same, t
<1>4. CASE s.episode # None /\ ~MatchingProbe(s, c) /\ s.episode.phase = "open"
  <2> DEFINE e == [s.episode EXCEPT !.waiters = @ \cup {c}]
             u == PutE(s, e)
  <2>1. s.episode \in EpisodeType
    BY <1>4 DEF Good, StateType
  <2>2. /\ e \in EpisodeType /\ e.probing = s.episode.probing
        /\ e.leader = s.episode.leader /\ e.phase = s.episode.phase
    BY <2>1 DEF EpisodeType
  <2>3. e # None /\ EpisodeOK(e)
    BY <1>4, <2>2, NoneIsNoEpisode DEF EpisodeOK, Good
  <2> HIDE DEF e
  <2>4. Good(u) /\ u.calls = s.calls /\ u.episode = e /\ Asking(u) = Asking(s)
    BY <2>2, <2>3, PutEpisode
  <2>5. t = NotifyAll(u)
    <3>1. u = [s EXCEPT !.episode.waiters = @ \cup {c}]
      BY DEF Good, StateType, PutE, u, e
    <3>2. QED
      BY <1>4, <3>1 DEF FailedWithAttemptsLeft
  <2> HIDE DEF u, t
  <2>6. /\ Good(NotifyAll(u)) /\ NotifyAll(u).episode = e
        /\ Asking(NotifyAll(u)) = Asking(s) /\ NotifyAll(u).calls[c] = s.calls[c]
    BY <2>4, NotifyAllKeeps
  <2>7. Same(s.episode, e)
    BY <1>4, <2>2, <2>3 DEF Same, ModeOf, OwnerOf
  <2>8. QED
    BY <2>5, <2>6, <2>7 DEF Keeps, Settles, t
<1>5. QED
  BY <1>1, <1>2, <1>3, <1>4

(* The last failure cools a closed circuit or one it was the probe of.     *)
LEMMA FailedForGoodKeeps ==
  ASSUME NEW s, Good(s), NEW c \in Calls, s.calls[c].pc \notin {"waiting", "queued"}
  PROVE  /\ Keeps(s, FailedForGood(s, c), c)
         /\ Settles(s.episode, FailedForGood(s, c).episode, c)
<1>1. CASE s.episode # None /\ ~MatchingProbe(s, c)
  BY <1>1 DEF FailedForGood, Keeps, Settles, Same
<1>2. CASE s.episode = None \/ MatchingProbe(s, c)
  <2> DEFINE u == IF s.episode = None THEN StartEpisode(s, None, TRUE) ELSE s
             e == [u.episode EXCEPT !.leader = None, !.probing = FALSE,
                                    !.phase = "cooling", !.waiters = {}]
             f == [w \in Calls |-> [u.calls[w] EXCEPT
                     !.failed = u.calls[w].failed \/ w \in u.episode.waiters]]
             v == [u EXCEPT !.calls = f]
             x == PutE(v, e)
  <2>1. /\ Good(u) /\ u.calls = s.calls /\ Asking(u) = Asking(s)
        /\ u.episode \in EpisodeType
    <3>1. CASE s.episode = None
      <4>1. u = StartEpisode(s, None, TRUE)
        BY <3>1
      <4> HIDE DEF u, e, f, v, x
      <4>2. QED
        BY ZenonT(30), <4>1, StartEpisodeGood
    <3>2. CASE s.episode # None
      BY <1>2, <3>2, MatchingIsProbing
    <3>3. QED
      BY <3>1, <3>2
  <2>2. FailedForGood(s, c) = NotifyAll(x)
    <3>1. FailedForGood(s, c) =
            NotifyAll([u EXCEPT !.episode.leader = None, !.episode.probing = FALSE,
                                !.episode.phase = "cooling", !.episode.waiters = {},
                                !.calls = f])
      BY <1>2 DEF FailedForGood
    <3> HIDE DEF u
    <3>2. x = [u EXCEPT !.episode.leader = None, !.episode.probing = FALSE,
                        !.episode.phase = "cooling", !.episode.waiters = {},
                        !.calls = f]
      <4> DEFINE a == [u EXCEPT !.episode.leader = None, !.episode.probing = FALSE,
                                !.episode.phase = "cooling", !.episode.waiters = {}]
      <4>1. a = PutE(u, e) /\ a.calls = u.calls
        BY <2>1 DEF Good, StateType, EpisodeType, PutE
      <4>2. x = [PutE(u, e) EXCEPT !.calls = f]
        BY <2>1 DEF Good, StateType, PutE
      <4> HIDE DEF e, f, v, x
      <4>3. QED
        BY <4>1, <4>2
    <3>3. QED
      BY <3>1, <3>2
  <2> HIDE DEF u
  <2>3. e \in EpisodeType /\ ~e.probing /\ e.leader = None /\ e.phase = "cooling"
    BY <2>1 DEF EpisodeType
  <2>4. e # None /\ EpisodeOK(e)
    BY <2>3, NoneIsNoEpisode DEF EpisodeOK
  <2> HIDE DEF e
  <2>5. \A w \in Calls : /\ f[w] \in Budgeted /\ f[w].pc = u.calls[w].pc
                         /\ f[w].resolved = u.calls[w].resolved
                         /\ f[w].attempts = u.calls[w].attempts
    <3>1. \A w \in Calls : u.calls[w] \in Budgeted
      BY <2>1 DEF Good, StateType
    <3>2. QED
      BY ZenonT(30), <3>1 DEF Budgeted, Coming, CallType
  <2>6. f \in [Calls -> Budgeted]
    BY <2>5
  <2> HIDE DEF f
  <2>7. v.calls = f /\ v.episode = u.episode /\ v.queue = u.queue
        /\ v.generation = u.generation /\ v.free = u.free
        /\ v = [calls |-> f, episode |-> u.episode, generation |-> u.generation,
                free |-> u.free, queue |-> u.queue]
    BY <2>1 DEF Good, StateType
  <2> HIDE DEF v
  <2>8. Good(v) /\ Asking(v) = Asking(s)
    <3>1. v \in StateType
      BY <2>1, <2>6, <2>7 DEF Good, StateType
    <3>2. QueueOK(v) /\ EpisodeOK(v.episode)
      BY <2>1, <2>5, <2>7 DEF Good, QueueOK
    <3>3. Asking(v) = Asking(s)
      BY <2>1, <2>5, <2>7 DEF Asking, Asks
    <3>4. QED
      BY <3>1, <3>2, <3>3 DEF Good
  <2>9. Good(x) /\ x.calls = f /\ x.episode = e /\ Asking(x) = Asking(s)
    BY <2>3, <2>4, <2>7, <2>8, PutEpisode
  <2> HIDE DEF x
  <2>10. x.calls[c].pc = s.calls[c].pc /\ x.calls[c].attempts = s.calls[c].attempts
    BY <2>1, <2>5, <2>9
  <2>11. /\ Good(NotifyAll(x)) /\ NotifyAll(x).episode = e
         /\ Asking(NotifyAll(x)) = Asking(s) /\ NotifyAll(x).calls[c].pc = s.calls[c].pc
         /\ NotifyAll(x).calls[c].attempts = s.calls[c].attempts
    BY <2>9, <2>10, NotifyAllKeeps
  <2>12. Settles(s.episode, e, c)
    <3>1. ModeOf(e) = "cooling" /\ OwnerOf(e) = None
      BY <2>3, <2>4 DEF ModeOf, OwnerOf
    <3>2. ModeOf(s.episode) = "closed"
          \/ (ModeOf(s.episode) = "probing" /\ OwnerOf(s.episode) = c)
      BY <1>2, MatchingIsProbing DEF ModeOf
    <3>3. QED
      BY <3>1, <3>2 DEF Settles
  <2>13. QED
    BY <2>2, <2>11, <2>12 DEF Keeps
<1>3. QED
  BY <1>1, <1>2

(* A retryable failure, whatever is left of the session's attempts.        *)
LEMMA FailedKeeps ==
  ASSUME NEW s, Good(s), NEW c \in Calls, s.calls[c].pc \notin {"waiting", "queued"}
  PROVE  Keeps(s, Failed(s, c), c) /\ Settles(s.episode, Failed(s, c).episode, c)
BY FailedWithAttemptsLeftKeeps, FailedForGoodKeeps DEF Failed

-----------------------------------------------------------------------------
(* Leaving and the gate. *)

(* A call that leaves asks no more.                                        *)
LEMMA LeaveMoves ==
  ASSUME NEW s, Good(s), NEW c \in Calls, s.calls[c].pc # "queued"
  PROVE  Moves(s, Leave(s, c), c) /\ Leave(s, c).episode = s.episode
<1>1. s.calls[c] \in Budgeted
  BY DEF Good, StateType
<1>2. CASE s.calls[c].outer
  <2> DEFINE r == [s.calls[c] EXCEPT !.pc = "closing", !.outer = FALSE,
                                     !.resolved = TRUE, !.next = "leave"]
  <2>1. r \in Budgeted /\ r.pc # "queued" /\ ~Asks(r)
    BY <1>1 DEF Budgeted, Coming, CallType, Place, Asks
  <2>2. Leave(s, c) = PutC(s, c, r)
    BY <1>2 DEF Leave, PutC
  <2> HIDE DEF r
  <2>3. QED
    BY <2>1, <2>2, PutCall DEF Moves
<1>3. CASE ~s.calls[c].outer
  <2> DEFINE r == [s.calls[c] EXCEPT !.pc = "done"]
  <2>1. r \in Budgeted /\ r.pc # "queued" /\ ~Asks(r)
    BY <1>1 DEF Budgeted, Coming, CallType, Place, Asks
  <2>2. Leave(s, c) = PutC(s, c, r)
    BY <1>3 DEF Leave, At, PutC
  <2> HIDE DEF r
  <2>3. QED
    BY <2>1, <2>2, PutCall DEF Moves
<1>4. QED
  BY <1>2, <1>3

(* Nor does one that gets a permit, or a generation to wait for.           *)
LEMMA PermitMoves ==
  ASSUME NEW s, Good(s), NEW c \in Calls, s.calls[c].pc # "queued", MayRetry(s, c),
         NEW place \in {"waiting", "backoff", "limiter"},
         NEW probe \in BOOLEAN, NEW gen \in Nat
  PROVE  /\ Moves(s, Permit(s, c, place, probe, gen), c)
         /\ Permit(s, c, place, probe, gen).episode = s.episode
<1> DEFINE r == [s.calls[c] EXCEPT !.pc = place,
                                   !.permit = [probe |-> probe, gen |-> gen]]
<1>1. s.calls[c] \in Budgeted
  BY DEF Good, StateType
<1>2. r \in Budgeted /\ r.pc # "queued" /\ ~Asks(r)
  BY <1>1 DEF Budgeted, Coming, CallType, Place, Asks, MayRetry
<1>3. Permit(s, c, place, probe, gen) = PutC(s, c, r)
  BY DEF Permit, PutC
<1> HIDE DEF r
<1>4. QED
  BY <1>2, <1>3, PutCall DEF Moves

(* Whoever comes to an open episode that is its own or nobody's owns it    *)
(* then, and probes unless there is a backoff to wait for.                 *)
LEMMA LeadMoves ==
  ASSUME NEW s, Good(s), NEW c \in Calls, s.calls[c].pc # "queued", MayRetry(s, c),
         s.episode # None, s.episode.phase = "open", s.episode.leader \in {c, None}
  PROVE  /\ Moves(s, Lead(s, c), c)
         /\ OwnerOf(Lead(s, c).episode) = c
         /\ ModeOf(Lead(s, c).episode) \in {"open", "probing"}
         /\ s.episode.probing \/ s.episode.ready => ModeOf(Lead(s, c).episode) = "probing"
<1> DEFINE e == IF s.episode.leader = c THEN s.episode
                ELSE [s.episode EXCEPT !.leader = c, !.waiters = @ \ {c}]
           t == PutE(s, e)
           p == [e EXCEPT !.probing = TRUE]
           u == PutE(t, p)
<1>1. s.episode \in EpisodeType
  BY DEF Good, StateType
<1>2. /\ e \in EpisodeType /\ e.leader = c /\ e.phase = "open"
      /\ e.probing = s.episode.probing /\ e.ready = s.episode.ready
  BY <1>1 DEF EpisodeType
<1>3. e.gen \in Nat /\ e.probing \in BOOLEAN /\ e.ready \in BOOLEAN
  BY <1>2 DEF EpisodeType
<1>4. p \in EpisodeType /\ p.leader = c /\ p.phase = "open" /\ p.probing /\ p.gen = e.gen
  BY <1>2 DEF EpisodeType
<1>5. c # None /\ e # None /\ p # None /\ EpisodeOK(e) /\ EpisodeOK(p)
  BY <1>2, <1>4, NoneIsNoEpisode, AdmissionAssumption DEF EpisodeOK
<1>6. Lead(s, c) = CASE e.probing -> Permit(t, c, "waiting", FALSE, e.gen)
                     [] ~e.probing /\ e.ready -> Permit(u, c, "limiter", TRUE, e.gen)
                     [] OTHER -> Permit(t, c, "backoff", FALSE, e.gen)
  <2>1. t.episode = e /\ [t EXCEPT !.episode.probing = TRUE] = u
    BY DEF Good, StateType, PutE
  <2>2. QED
    BY <2>1 DEF Lead, PutE
<1> HIDE DEF e, p
<1>7. Good(t) /\ t.calls = s.calls /\ t.episode = e /\ Asking(t) = Asking(s)
  BY <1>2, <1>5, PutEpisode
<1> HIDE DEF t
<1>8. Good(u) /\ u.calls = s.calls /\ u.episode = p /\ Asking(u) = Asking(s)
  BY <1>4, <1>5, <1>7, PutEpisode
<1> HIDE DEF u
<1>9. CASE e.probing
  <2>1. Lead(s, c) = Permit(t, c, "waiting", FALSE, e.gen)
    BY <1>6, <1>9
  <2>2. Moves(t, Lead(s, c), c) /\ Lead(s, c).episode = e
    <3>1. t.calls[c].pc # "queued" /\ FALSE \in BOOLEAN /\ e.gen \in Nat
      BY <1>3, <1>7
    <3>2. Good(t) /\ MayRetry(t, c)
      BY <1>7 DEF MayRetry
    <3>3. "waiting" \in {"waiting", "backoff", "limiter"}
      OBVIOUS
    <3>4. /\ Moves(t, Permit(t, c, "waiting", FALSE, e.gen), c)
          /\ Permit(t, c, "waiting", FALSE, e.gen).episode = t.episode
      BY <3>1, <3>2, <3>3, PermitMoves
    <3>5. QED
      BY <1>7, <2>1, <3>4
  <2>3. QED
    BY <1>2, <1>5, <1>7, <1>9, <2>2 DEF Moves, ModeOf, OwnerOf
<1>10. CASE ~e.probing /\ e.ready
  <2>1. Lead(s, c) = Permit(u, c, "limiter", TRUE, e.gen)
    BY <1>6, <1>10
  <2>2. Moves(u, Lead(s, c), c) /\ Lead(s, c).episode = p
    <3>1. u.calls[c].pc # "queued" /\ TRUE \in BOOLEAN /\ e.gen \in Nat
      BY <1>3, <1>8
    <3>2. Good(u) /\ MayRetry(u, c)
      BY <1>8 DEF MayRetry
    <3>3. "limiter" \in {"waiting", "backoff", "limiter"}
      OBVIOUS
    <3>4. /\ Moves(u, Permit(u, c, "limiter", TRUE, e.gen), c)
          /\ Permit(u, c, "limiter", TRUE, e.gen).episode = u.episode
      BY <3>1, <3>2, <3>3, PermitMoves
    <3>5. QED
      BY <1>8, <2>1, <3>4
  <2>3. QED
    BY <1>4, <1>5, <1>8, <2>2 DEF Moves, ModeOf, OwnerOf
<1>11. CASE ~e.probing /\ ~e.ready
  <2>1. Lead(s, c) = Permit(t, c, "backoff", FALSE, e.gen)
    BY <1>6, <1>11
  <2>2. Moves(t, Lead(s, c), c) /\ Lead(s, c).episode = e
    <3>1. t.calls[c].pc # "queued" /\ FALSE \in BOOLEAN /\ e.gen \in Nat
      BY <1>3, <1>7
    <3>2. Good(t) /\ MayRetry(t, c)
      BY <1>7 DEF MayRetry
    <3>3. "backoff" \in {"waiting", "backoff", "limiter"}
      OBVIOUS
    <3>4. /\ Moves(t, Permit(t, c, "backoff", FALSE, e.gen), c)
          /\ Permit(t, c, "backoff", FALSE, e.gen).episode = t.episode
      BY <3>1, <3>2, <3>3, PermitMoves
    <3>5. QED
      BY <1>7, <2>1, <3>4
  <2>3. QED
    BY <1>2, <1>5, <1>7, <1>11, <2>2 DEF Moves, ModeOf, OwnerOf
<1>12. QED
  BY <1>3, <1>9, <1>10, <1>11

(* Whatever the gate makes of the episode is a passage of the circuit.     *)
LEMMA PassGateMoves ==
  ASSUME NEW s, Good(s), NEW c \in Calls, s.calls[c].pc # "queued", MayRetry(s, c)
  PROVE  Moves(s, PassGate(s, c), c) /\ Passes(s.episode, PassGate(s, c).episode, c)
<1> DEFINE e == s.episode
           t == PassGate(s, c)
<1>0. c # None
  BY AdmissionAssumption
<1>1. CASE e = None
  <2>1. t = Permit(s, c, "limiter", FALSE, 0)
    BY <1>1 DEF PassGate
  <2> HIDE DEF t
  <2>2. Moves(s, t, c) /\ t.episode = e
    BY <2>1, PermitMoves
  <2>3. QED
    BY <2>2 DEF Passes, Circuit!Passages, t
<1>2. CASE e # None /\ e.phase = "cooling"
  <2>1. t = Leave(s, c)
    BY <1>2 DEF PassGate
  <2> HIDE DEF t
  <2>2. Moves(s, t, c) /\ t.episode = e
    BY <2>1, LeaveMoves
  <2>3. QED
    BY <2>2 DEF Passes, Circuit!Passages, t
<1>3. CASE e # None /\ e.phase = "cooled"
  <2> DEFINE u == StartEpisode(s, c, TRUE)
  <2>1. t = Lead(u, c)
    BY <1>3 DEF PassGate
  <2> HIDE DEF t, e
  <2>2. /\ Good(u) /\ u.calls = s.calls /\ Asking(u) = Asking(s)
        /\ u.episode # None /\ u.episode.leader = c /\ u.episode.ready
        /\ u.episode.phase = "open"
    <3>1. c \in Calls \cup {None} /\ TRUE \in BOOLEAN
      OBVIOUS
    <3>2. QED
      BY ZenonT(30), <3>1, StartEpisodeGood
  <2> HIDE DEF u
  <2>3. Moves(u, t, c) /\ ModeOf(t.episode) = "probing" /\ OwnerOf(t.episode) = c
    BY <2>1, <2>2, LeadMoves DEF MayRetry
  <2>4. ModeOf(s.episode) = "cooled"
    BY <1>3 DEF ModeOf, e
  <2>5. QED
    BY <2>2, <2>3, <2>4 DEF Moves, Passes, Circuit!Passages, t
<1>4. CASE e # None /\ e.phase = "open" /\ e.leader \in {c, None}
  <2>1. t = Lead(s, c)
    BY <1>4 DEF PassGate
  <2> HIDE DEF t
  <2>2. /\ Moves(s, t, c) /\ OwnerOf(t.episode) = c
        /\ ModeOf(t.episode) \in {"open", "probing"}
        /\ e.probing => ModeOf(t.episode) = "probing"
    BY <1>4, <2>1, LeadMoves
  <2>3. /\ OwnerOf(e) = e.leader /\ ModeOf(e) \in {"open", "probing"}
        /\ ModeOf(e) = "probing" => e.probing /\ e.leader = c
    BY <1>4 DEF ModeOf, OwnerOf, Good, EpisodeOK
  <2>4. CASE ModeOf(e) = "probing"
    BY <1>0, <2>2, <2>3, <2>4 DEF Passes, Circuit!Passages, t
  <2>5. CASE ModeOf(e) = "open"
    BY <1>4, <2>2, <2>3, <2>5 DEF Passes, Circuit!Passages, t
  <2>6. QED
    BY <2>3, <2>4, <2>5
<1>5. CASE e # None /\ e.phase = "open" /\ e.leader \notin {c, None}
  <2> DEFINE f == [e EXCEPT !.waiters = @ \cup {c}]
             u == PutE(s, f)
  <2>1. e \in EpisodeType
    BY <1>5 DEF Good, StateType
  <2>2. /\ f \in EpisodeType /\ f.probing = e.probing /\ f.leader = e.leader
        /\ f.phase = e.phase /\ e.gen \in Nat
    BY <2>1 DEF EpisodeType
  <2>3. f # None /\ EpisodeOK(f)
    BY <1>5, <2>2, NoneIsNoEpisode DEF EpisodeOK, Good
  <2>4. t = Permit(u, c, "waiting", FALSE, e.gen)
    <3>1. u = [s EXCEPT !.episode.waiters = @ \cup {c}]
      BY DEF Good, StateType, PutE
    <3> HIDE DEF u
    <3>2. QED
      BY <1>5, <3>1 DEF PassGate
  <2>5. ModeOf(f) = ModeOf(e) /\ OwnerOf(f) = OwnerOf(e)
    BY <1>5, <2>2, <2>3 DEF ModeOf, OwnerOf
  <2> HIDE DEF f, t
  <2>6. Good(u) /\ u.calls = s.calls /\ u.episode = f /\ Asking(u) = Asking(s)
    BY <2>2, <2>3, PutEpisode
  <2> HIDE DEF u
  <2>7. Moves(u, t, c) /\ t.episode = f
    <3>1. u.calls[c].pc # "queued" /\ MayRetry(u, c) /\ FALSE \in BOOLEAN
      BY <2>6 DEF MayRetry
    <3>2. /\ Moves(u, Permit(u, c, "waiting", FALSE, e.gen), c)
          /\ Permit(u, c, "waiting", FALSE, e.gen).episode = u.episode
      BY <2>2, <2>6, <3>1, PermitMoves
    <3>3. QED
      BY <2>4, <2>6, <3>2
  <2>8. QED
    BY <2>5, <2>6, <2>7 DEF Moves, Passes, Circuit!Passages, t
<1>6. e = None \/ e.phase \in {"open", "cooling", "cooled"}
  BY DEF Good, StateType, EpisodeType
<1>7. QED
  BY <1>1, <1>2, <1>3, <1>4, <1>5, <1>6

(* So does a call that comes back to the gate, or finds it has failed.     *)
LEMMA GateMoves ==
  ASSUME NEW s, Good(s), NEW c \in Calls, s.calls[c].pc # "queued", MayRetry(s, c)
  PROVE  Moves(s, Gate(s, c), c) /\ Passes(s.episode, Gate(s, c).episode, c)
BY PassGateMoves, LeaveMoves DEF Gate, Passes, Circuit!Passages

(* What comes after an attempt takes the call on, away or to the gate.     *)
LEMMA ProceedMoves ==
  ASSUME NEW s, Good(s), NEW c \in Calls, s.calls[c].pc # "queued", NEW next,
         next # "leave" => MayRetry(s, c)
  PROVE  Moves(s, Proceed(s, c, next), c) /\ Passes(s.episode, Proceed(s, c, next).episode, c)
<1>1. CASE next = "leave"
  BY <1>1, LeaveMoves DEF Proceed, Passes, Circuit!Passages
<1>2. CASE next # "leave" /\ next = "retry" /\ c \in Codex
  <2> DEFINE r == [s.calls[c] EXCEPT !.pc = "access"]
  <2>1. s.calls[c] \in Budgeted
    BY DEF Good, StateType
  <2>2. r \in Budgeted /\ r.pc # "queued" /\ ~Asks(r)
    BY <1>2, <2>1 DEF Budgeted, Coming, CallType, Place, Asks, MayRetry
  <2>3. Proceed(s, c, next) = PutC(s, c, r)
    BY <1>2 DEF Proceed, At, PutC
  <2> HIDE DEF r
  <2>4. QED
    BY <2>2, <2>3, PutCall DEF Moves, Passes, Circuit!Passages
<1>3. CASE next # "leave" /\ ~(next = "retry" /\ c \in Codex)
  BY <1>3, GateMoves DEF Proceed
<1>4. QED
  BY <1>1, <1>2, <1>3

(* The end of an attempt ends its asking.                                  *)
LEMMA AfterAnswerMoves ==
  ASSUME NEW s, Good(s), NEW c \in Calls, s.calls[c].pc \in {"upstream", "streaming"},
         NEW next \in {"retry", "leave"},
         next # "leave" => MayRetry(s, c)
  PROVE  /\ Moves(s, AfterAnswer(s, c, next), c)
         /\ Passes(s.episode, AfterAnswer(s, c, next).episode, c)
<1>1. s.calls[c] \in Budgeted
  BY DEF Good, StateType
<1>2. CASE c \in Codex \/ s.calls[c].pc = "streaming"
  <2> DEFINE r == [s.calls[c] EXCEPT !.pc = "closing", !.resolved = TRUE, !.next = next]
  <2>1. r \in Budgeted /\ r.pc # "queued" /\ ~Asks(r)
    BY <1>1 DEF Budgeted, Coming, CallType, Place, Asks, MayRetry
  <2>2. AfterAnswer(s, c, next) = PutC(s, c, r)
    BY <1>2 DEF AfterAnswer, PutC
  <2> HIDE DEF r
  <2>3. QED
    BY <2>1, <2>2, PutCall DEF Moves, Passes, Circuit!Passages
<1>3. CASE ~(c \in Codex \/ s.calls[c].pc = "streaming")
  <2> DEFINE r == [s.calls[c] EXCEPT !.resolved = TRUE]
             u == PutC(s, c, r)
             v == ReleaseSlot(u)
  <2>1. r \in Budgeted /\ r.pc # "queued" /\ ~Asks(r)
    BY <1>1 DEF Budgeted, Coming, CallType, Place, Asks
  <2>2. AfterAnswer(s, c, next) = Proceed(v, c, next)
    BY <1>3 DEF AfterAnswer, PutC
  <2>7. r.attempts = s.calls[c].attempts
    BY <1>1 DEF Budgeted, CallType
  <2> HIDE DEF r
  <2>3. Good(u) /\ u.calls[c] = r /\ u.episode = s.episode /\ Asking(u) = Asking(s) \ {c}
    BY <2>1, PutCall
  <2> HIDE DEF u
  <2>4. Good(v) /\ v.calls[c] = r /\ v.episode = s.episode /\ Asking(v) = Asking(s) \ {c}
    BY <2>1, <2>3, ReleaseSlotKeeps
  <2> HIDE DEF v
  <2>5. Moves(v, Proceed(v, c, next), c) /\ Passes(v.episode, Proceed(v, c, next).episode, c)
    <3>1. v.calls[c].pc # "queued" /\ (next # "leave" => MayRetry(v, c))
      BY <2>1, <2>4, <2>7 DEF MayRetry
    <3>2. QED
      BY <2>4, <3>1, ProceedMoves
  <2>6. QED
    BY <2>2, <2>4, <2>5 DEF Moves
<1>4. QED
  BY <1>2, <1>3

(* A call that joins the queue, and one that leaves it.                    *)
LEMMA JoinQueueKeeps ==
  ASSUME NEW s, Good(s), NEW c \in Calls, s.calls[c].pc = "limiter"
  PROVE  LET t == [At(s, c, "queued") EXCEPT !.queue = Append(@, c)]
         IN  Good(t) /\ t.episode = s.episode /\ Asking(t) = Asking(s)
<1> DEFINE r == [s.calls[c] EXCEPT !.pc = "queued"]
           q == Append(s.queue, c)
           t == [At(s, c, "queued") EXCEPT !.queue = Append(@, c)]
<1>1. s.calls[c] \in Budgeted /\ s.queue \in Seq(Calls)
  BY DEF Good, StateType
<1>2. r \in Budgeted /\ r.pc = "queued" /\ ~Asks(r) /\ ~Asks(s.calls[c])
  BY <1>1 DEF Budgeted, Coming, CallType, Place, Asks
<1>3. /\ t.calls = [s.calls EXCEPT ![c] = r] /\ t.queue = q /\ t.episode = s.episode
      /\ t = [calls |-> t.calls, episode |-> s.episode, generation |-> s.generation,
              free |-> s.free, queue |-> q]
  <2> DEFINE a == At(s, c, "queued")
  <2>1. /\ a.calls = [s.calls EXCEPT ![c] = r] /\ a.queue = s.queue
        /\ a = [calls |-> a.calls, episode |-> s.episode, generation |-> s.generation,
                free |-> s.free, queue |-> s.queue]
    <3>1. a = PutC(s, c, r)
      BY DEF At, PutC
    <3> HIDE DEF a, q, r, t
    <3>2. QED
      BY <3>1 DEF Good, StateType, PutC
  <2>2. t = [a EXCEPT !.queue = q]
    BY <2>1
  <2> HIDE DEF a, q, t
  <2>3. QED
    BY <2>1, <2>2
<1>4. /\ q \in Seq(Calls) /\ Len(q) = Len(s.queue) + 1 /\ q[Len(q)] = c
      /\ \A i \in 1..Len(s.queue) : q[i] = s.queue[i]
  BY <1>1
<1> HIDE DEF t, q, r
<1>5. t.calls[c] = r /\ t.calls \in [Calls -> Budgeted]
      /\ \A d \in Calls : d # c => t.calls[d] = s.calls[d]
  BY <1>2, <1>3 DEF Good, StateType
<1>6. t \in StateType
  BY <1>3, <1>4, <1>5 DEF Good, StateType
<1>7. \A i \in 1..Len(s.queue) : s.queue[i] # c
  BY <1>1 DEF Good, QueueOK
<1>8. QueueOK(t)
  <2>1. \A i, j \in 1..Len(q) : q[i] = q[j] => i = j
    BY Z3T(30), <1>1, <1>4, <1>7 DEF Good, QueueOK
  <2>2. \A d \in Calls : t.calls[d].pc = "queued" <=> \E i \in 1..Len(q) : q[i] = d
    <3> SUFFICES ASSUME NEW d \in Calls
                 PROVE  t.calls[d].pc = "queued" <=> \E i \in 1..Len(q) : q[i] = d
      OBVIOUS
    <3>1. CASE d = c
      BY <1>1, <1>2, <1>4, <1>5, <3>1
    <3>2. CASE d # c
      <4>1. (\E i \in 1..Len(q) : q[i] = d) <=> \E i \in 1..Len(s.queue) : s.queue[i] = d
        BY SMTT(30), <1>1, <1>4, <3>2
      <4>2. QED
        BY <1>1, <1>5, <3>2, <4>1 DEF Good, QueueOK
    <3>3. QED
      BY <3>1, <3>2
  <2>3. QED
    BY SMTT(30), <1>3, <1>4, <2>1, <2>2 DEF QueueOK
<1>9. Asking(t) = Asking(s)
  BY <1>2, <1>5 DEF Asking
<1>10. QED
  BY <1>3, <1>6, <1>8, <1>9 DEF Good, t

(* Taking out one element moves up those behind it.                        *)
LEMMA TakeOut ==
  ASSUME NEW S, NEW u \in Seq(S), NEW i \in 1..Len(u)
  PROVE  LET q == SubSeq(u, 1, i - 1) \o SubSeq(u, i + 1, Len(u))
         IN  /\ q \in Seq(S) /\ Len(q) = Len(u) - 1
             /\ \A k \in 1..Len(u) - 1 : q[k] = IF k < i THEN u[k] ELSE u[k + 1]
<1> DEFINE a == SubSeq(u, 1, i - 1)
           b == SubSeq(u, i + 1, Len(u))
           n == Len(u)
<1>0. n \in Nat /\ \A k \in 1..n : u[k] \in S
  OBVIOUS
<1>1. a \in Seq(S) /\ Len(a) = i - 1 /\ \A k \in 1..i - 1 : a[k] = u[k]
  BY <1>0, SubSeqProperties
<1>2. b \in Seq(S) /\ Len(b) = n - i /\ \A k \in 1..n - i : b[k] = u[i + k]
  BY <1>0, SubSeqProperties
<1> HIDE DEF a, b
<1>3. /\ a \o b \in Seq(S) /\ Len(a \o b) = Len(a) + Len(b)
      /\ \A k \in 1..Len(a) + Len(b) :
           (a \o b)[k] = IF k <= Len(a) THEN a[k] ELSE b[k - Len(a)]
  BY <1>1, <1>2, ConcatProperties
<1>4. Len(a) + Len(b) = n - 1
  BY <1>0, <1>1, <1>2
<1>5. ASSUME NEW k \in 1..n - 1
      PROVE  (a \o b)[k] = IF k < i THEN u[k] ELSE u[k + 1]
  <2>1. CASE k < i
    BY <1>1, <1>3, <1>4, <2>1
  <2>2. CASE ~(k < i)
    <3>1. /\ k \in Nat /\ i \in Nat /\ k - (i - 1) \in 1..n - i
          /\ i + (k - (i - 1)) = k + 1 /\ ~(k <= i - 1)
      BY <1>0, <2>2
    <3>2. (a \o b)[k] = b[k - (i - 1)]
      BY <1>1, <1>3, <1>4, <3>1
    <3>3. QED
      BY <1>2, <2>2, <3>1, <3>2
  <2>3. QED
    BY <2>1, <2>2
<1>6. QED
  BY <1>3, <1>4, <1>5 DEF a, b

(* Its place is taken out, and the calls behind it move up.                *)
LEMMA LeaveQueueKeeps ==
  ASSUME NEW s, Good(s), NEW c \in Calls, s.calls[c].pc = "queued"
  PROVE  /\ Good(LeaveQueue(s, c)) /\ LeaveQueue(s, c).calls[c].pc = "limiter"
         /\ LeaveQueue(s, c).episode = s.episode
         /\ Asking(LeaveQueue(s, c)) = Asking(s)
<1> DEFINE r == [s.calls[c] EXCEPT !.pc = "limiter"]
           i == CHOOSE k \in DOMAIN s.queue : s.queue[k] = c
           q == SubSeq(s.queue, 1, i - 1) \o SubSeq(s.queue, i + 1, Len(s.queue))
           t == LeaveQueue(s, c)
           n == Len(s.queue)
<1>1. s.calls[c] \in Budgeted /\ s.queue \in Seq(Calls) /\ DOMAIN s.queue = 1..n /\ n \in Nat
  BY DEF Good, StateType
<1>2. r \in Budgeted /\ r.pc = "limiter" /\ ~Asks(r) /\ ~Asks(s.calls[c])
  BY <1>1 DEF Budgeted, Coming, CallType, Place, Asks
<1>3. i \in 1..n /\ s.queue[i] = c
  BY <1>1 DEF Good, QueueOK
<1>4. /\ t.calls = [s.calls EXCEPT ![c] = r] /\ t.queue = q /\ t.episode = s.episode
      /\ t = [calls |-> t.calls, episode |-> s.episode, generation |-> s.generation,
              free |-> s.free, queue |-> q]
  <2> DEFINE a == At(s, c, "limiter")
  <2>1. /\ a.calls = [s.calls EXCEPT ![c] = r] /\ a.queue = s.queue
        /\ a = [calls |-> a.calls, episode |-> s.episode, generation |-> s.generation,
                free |-> s.free, queue |-> s.queue]
    <3>1. a = PutC(s, c, r)
      BY DEF At, PutC
    <3> HIDE DEF a, q, r, t
    <3>2. QED
      BY <3>1 DEF Good, StateType, PutC
  <2>2. t = [a EXCEPT !.queue = q]
    BY <2>1 DEF LeaveQueue
  <2> HIDE DEF a, q, t
  <2>3. QED
    BY <2>1, <2>2
<1> HIDE DEF i
<1>5. /\ q \in Seq(Calls) /\ Len(q) = n - 1
      /\ \A k \in 1..n - 1 : q[k] = IF k < i THEN s.queue[k] ELSE s.queue[k + 1]
  BY <1>1, <1>3, TakeOut
<1> HIDE DEF t, q, r
<1>6. t.calls[c] = r /\ t.calls \in [Calls -> Budgeted]
      /\ \A d \in Calls : d # c => t.calls[d] = s.calls[d]
  BY <1>2, <1>4 DEF Good, StateType
<1>7. t \in StateType
  BY <1>4, <1>5, <1>6 DEF Good, StateType
<1>8. \A k, l \in 1..n : s.queue[k] = s.queue[l] => k = l
  BY <1>1 DEF Good, QueueOK
<1>9. QueueOK(t)
  <2>1. DOMAIN t.queue = 1..n - 1 /\ t.queue = q
    BY <1>4, <1>5
  <2>2. \A k \in 1..n - 1 : k \in 1..n /\ k + 1 \in 1..n
    BY <1>1
  <2> HIDE DEF n
  <2>3. \A k, l \in 1..n - 1 : q[k] = q[l] => k = l
    <3> SUFFICES ASSUME NEW k \in 1..n - 1, NEW l \in 1..n - 1, q[k] = q[l]
                 PROVE  k = l
      OBVIOUS
    <3> DEFINE f(m) == IF m < i THEN m ELSE m + 1
    <3>1. f(k) \in 1..n /\ f(l) \in 1..n /\ s.queue[f(k)] = s.queue[f(l)]
      BY <1>5, <2>2
    <3>2. f(k) = f(l)
      BY <1>8, <3>1
    <3>3. QED
      BY <1>1, <1>3, <3>2
  <2>4. \A d \in Calls : t.calls[d].pc = "queued" <=> \E k \in 1..n - 1 : q[k] = d
    <3> SUFFICES ASSUME NEW d \in Calls
                 PROVE  t.calls[d].pc = "queued" <=> \E k \in 1..n - 1 : q[k] = d
      OBVIOUS
    <3>1. CASE d = c
      <4>1. t.calls[d].pc # "queued"
        BY <1>2, <1>6, <3>1
      <4>2. ASSUME NEW k \in 1..n - 1
            PROVE  q[k] # c
        <5>1. CASE k < i
          BY <1>1, <1>3, <1>5, <1>8, <2>2, <5>1
        <5>2. CASE ~(k < i)
          <6>1. q[k] = s.queue[k + 1] /\ k + 1 # i
            BY <1>1, <1>3, <1>5, <5>2
          <6>2. QED
            BY <1>3, <1>8, <2>2, <6>1
        <5>3. QED
          BY <5>1, <5>2
      <4>3. QED
        BY <3>1, <4>1, <4>2
    <3>2. CASE d # c
      <4>1. ASSUME NEW k \in 1..n, s.queue[k] = d
            PROVE  \E l \in 1..n - 1 : q[l] = d
        <5>1. CASE k < i
          <6>1. k \in 1..n - 1
            BY <1>1, <1>3, <5>1
          <6>2. QED
            BY <1>5, <4>1, <5>1, <6>1
        <5>2. CASE k > i
          <6>1. k - 1 \in 1..n - 1 /\ ~(k - 1 < i) /\ k - 1 + 1 = k
            BY <1>1, <1>3, <5>2
          <6>2. QED
            BY <1>5, <4>1, <6>1
        <5>3. k # i
          BY <1>3, <3>2, <4>1
        <5>4. QED
          BY <1>1, <1>3, <5>1, <5>2, <5>3
      <4>2. ASSUME NEW l \in 1..n - 1, q[l] = d
            PROVE  \E k \in 1..n : s.queue[k] = d
        BY <1>5, <2>2, <4>2
      <4>3. s.calls[d].pc = "queued" <=> \E k \in 1..n : s.queue[k] = d
        BY <1>1 DEF Good, QueueOK
      <4>4. QED
        BY <1>6, <3>2, <4>1, <4>2, <4>3
    <3>3. QED
      BY <3>1, <3>2
  <2>5. QED
    BY <2>1, <2>3, <2>4 DEF QueueOK
<1>10. Asking(t) = Asking(s)
  BY <1>2, <1>6 DEF Asking
<1>11. QED
  BY <1>2, <1>4, <1>6, <1>7, <1>9, <1>10 DEF Good, t

-----------------------------------------------------------------------------
(* Steps of the controller as steps of the circuit breaker. *)

\* What call c makes of a state s in one action, seen from the circuit.
Stays(s, t) == Same(s.episode, t.episode) /\ Asking(t) = Asking(s)
Starts(s, t, c) ==
  /\ c \notin Asking(s) /\ Asking(t) = Asking(s) \cup {c}
  /\ Same(s.episode, t.episode)
  /\ \/ ModeOf(s.episode) = "closed"
     \/ ModeOf(s.episode) = "probing" /\ OwnerOf(s.episode) = c
Answers(s, t, c) ==
  /\ c \in Asking(s) /\ Asking(t) = Asking(s) \ {c}
  /\ \E e : Settles(s.episode, e, c) /\ Passes(e, t.episode, c)
Drops(s, t, c) == Asking(t) = Asking(s) \ {c} /\ Same(s.episode, t.episode)
AbsStep(s, t, c) ==
  \/ Stays(s, t) \/ Starts(s, t, c) \/ Answers(s, t, c) \/ Drops(s, t, c)
  \/ Passes(s.episode, t.episode, c) /\ Asking(t) = Asking(s)
  \/ Yields(s.episode, t.episode, c) /\ Asking(t) = Asking(s)

\* A step of the circuit, with its variables given before and after.
CircuitStep(m, o, a, mm, oo, aa, c) ==
  \/ m = mm /\ o = oo /\ a = aa
  \/ /\ c \notin a
     /\ m = "closed" \/ (m = "probing" /\ o = c)
     /\ aa = a \cup {c} /\ mm = m /\ oo = o
  \/ /\ c \in a /\ aa = a \ {c}
     /\ \E x \in IF m = "probing" /\ o = c
                 THEN {<<"closed", None>>, <<"open", c>>, <<"open", None>>,
                       <<"cooling", None>>}
                 ELSE IF m = "closed"
                 THEN {<<"closed", None>>, <<"open", c>>, <<"cooling", None>>}
                 ELSE {<<m, o>>} :
          <<mm, oo>> \in Circuit!Passages(c, x[1], x[2])
  \/ <<mm, oo>> \in Circuit!Passages(c, m, o) /\ aa = a
  \/ m \in {"open", "probing"} /\ o = c /\ mm = "open" /\ oo = None /\ aa = a
  \/ c \in a /\ aa = a \ {c} /\ mm = m /\ oo = o

(* An answer that settles nothing and is the probe's is a probe dropped.   *)
LEMMA AbsStepIsCircuitStep ==
  ASSUME NEW s, Good(s), NEW t, NEW c \in Calls, AbsStep(s, t, c)
  PROVE  CircuitStep(ModeOf(s.episode), OwnerOf(s.episode), Asking(s),
                     ModeOf(t.episode), OwnerOf(t.episode), Asking(t), c)
<1> DEFINE m == ModeOf(s.episode)
           o == OwnerOf(s.episode)
           mm == ModeOf(t.episode)
           oo == OwnerOf(t.episode)
<1>1. CASE Stays(s, t)
  BY <1>1 DEF Stays, Same, CircuitStep
<1>2. CASE Starts(s, t, c)
  BY <1>2 DEF Starts, Same, CircuitStep
<1>3. CASE Drops(s, t, c)
  BY <1>3 DEF Drops, Same, CircuitStep
<1>4. CASE Passes(s.episode, t.episode, c) /\ Asking(t) = Asking(s)
  BY <1>4 DEF Passes, CircuitStep
<1>5. CASE Yields(s.episode, t.episode, c) /\ Asking(t) = Asking(s)
  BY <1>5 DEF Yields, CircuitStep
<1>6. CASE Answers(s, t, c)
  <2>1. PICK e : Settles(s.episode, e, c) /\ Passes(e, t.episode, c)
    BY <1>6 DEF Answers
  <2> DEFINE x == <<ModeOf(e), OwnerOf(e)>>
  <2>2. c \in Asking(s) /\ Asking(t) = Asking(s) \ {c}
    BY <1>6 DEF Answers
  <2>3. <<mm, oo>> \in Circuit!Passages(c, x[1], x[2])
    BY <2>1 DEF Passes
  <2>4. CASE Same(s.episode, e) /\ m = "probing" /\ o = c
    <3>1. mm = m /\ oo = o
      BY <2>1, <2>4 DEF Same, Passes, Circuit!Passages
    <3>2. QED
      BY <2>2, <3>1 DEF CircuitStep
  <2>5. CASE Same(s.episode, e) /\ m = "closed"
    <3>1. o = None
      BY <2>5 DEF ModeOf, OwnerOf, Good, StateType, EpisodeType
    <3>2. x = <<"closed", None>>
      BY <2>5, <3>1 DEF Same
    <3>3. QED
      BY <2>2, <2>3, <2>5, <3>2 DEF CircuitStep
  <2>6. CASE Same(s.episode, e) /\ m # "closed" /\ ~(m = "probing" /\ o = c)
    <3>1. x = <<m, o>>
      BY <2>6 DEF Same
    <3>2. QED
      BY <2>2, <2>3, <2>6, <3>1 DEF CircuitStep
  <2>7. CASE ~Same(s.episode, e)
    <3>1. /\ m = "closed" \/ (m = "probing" /\ o = c)
          /\ x \in {<<"closed", None>>, <<"open", c>>, <<"cooling", None>>}
      BY <2>1, <2>7 DEF Settles
    <3>2. QED
      BY <2>2, <2>3, <3>1 DEF CircuitStep
  <2>8. QED
    BY <2>4, <2>5, <2>6, <2>7
<1>7. QED
  BY <1>1, <1>2, <1>3, <1>4, <1>5, <1>6 DEF AbsStep

(* A step of a call is a step of the circuit or leaves it as it is.        *)
LEMMA CircuitStepIsNext ==
  ASSUME NEW c \in Calls,
         CircuitStep(ModeOf(episode), OwnerOf(episode), Asking(Now),
                     ModeOf(episode'), OwnerOf(episode'), Asking(Now)', c)
  PROVE  [Circuit!Next]_(Circuit!vars)
BY ZenonT(30) DEF CircuitStep, Circuit!Next, Circuit!vars, Circuit!Start, Circuit!Answer,
       Circuit!Pass, Circuit!Yield, Circuit!Drop, ModeOf, OwnerOf, Asking, Asks, Now

-----------------------------------------------------------------------------
(* The actions. *)

\* An action takes the state to a good one, by a step of the circuit.
Lands(t, c) == Good(t) /\ AbsStep(Now, t, c)

(* A call that asks nothing passes the gate.                               *)
LEMMA PassingLands ==
  ASSUME NEW s, NEW t, NEW c \in Calls, Asking(s) = Asking(Now), s.episode = episode,
         c \notin Asking(Now), Moves(s, t, c), Passes(s.episode, t.episode, c)
  PROVE  Lands(t, c)
BY DEF Lands, AbsStep, Moves, Now

(* A call that asks is answered, and passes the gate.                      *)
LEMMA AnsweringLands ==
  ASSUME NEW u, NEW c \in Calls, Good(Now), calls[c].pc \in {"upstream", "streaming"},
         Keeps(Now, u, c), Settles(episode, u.episode, c),
         calls[c].resolved => u.episode = episode,
         NEW next \in {"retry", "leave"},
         next # "leave" => MayRetry(Now, c)
  PROVE  Lands(AfterAnswer(u, c, next), c)
<1> DEFINE t == AfterAnswer(u, c, next)
<1>1. Now.calls = calls /\ Now.episode = episode
  BY DEF Now
<1>2. Good(u) /\ u.calls[c].pc \in {"upstream", "streaming"} /\ Asking(u) = Asking(Now)
  BY <1>1 DEF Keeps
<1>3. Moves(u, t, c) /\ Passes(u.episode, t.episode, c)
  <2>1. next # "leave" => MayRetry(u, c)
    BY <1>1 DEF Keeps, MayRetry
  <2>2. QED
    BY <1>2, <2>1, AfterAnswerMoves
<1> HIDE DEF t
<1>4. CASE calls[c].resolved
  <2>1. c \notin Asking(Now)
    BY <1>1, <1>4 DEF Asking, Asks
  <2>2. QED
    BY <1>2, <1>3, <1>4, <2>1, PassingLands DEF t
<1>5. CASE ~calls[c].resolved
  <2>1. c \in Asking(Now)
    BY <1>1, <1>5 DEF Asking, Asks
  <2>2. QED
    BY <1>1, <1>2, <1>3, <2>1 DEF Lands, AbsStep, Answers, Moves, t
<1>6. QED
  BY <1>4, <1>5

(* A call that asks nothing leaves.                                        *)
LEMMA LeavingLands ==
  ASSUME NEW s, Good(s), NEW c \in Calls, s.calls[c].pc # "queued",
         Asking(s) = Asking(Now), c \notin Asking(Now),
         Same(episode, s.episode) \/ Yields(episode, s.episode, c)
  PROVE  Lands(Leave(s, c), c)
<1>1. Moves(s, Leave(s, c), c) /\ Leave(s, c).episode = s.episode
  BY LeaveMoves
<1>2. QED
  BY <1>1 DEF Lands, AbsStep, Stays, Same, Yields, Moves, Now

(* A permit that is not current is no active probe.                        *)
LEMMA StaleIsNotProbe ==
  ASSUME NEW s, Good(s), NEW c \in Calls, ~PermitIsCurrent(s, c)
  PROVE  Abandoned(s, c) = s
BY MatchingIsProbing DEF PermitIsCurrent, Abandoned, MatchingProbe

(* A current permit lets its call start an attempt.                        *)
LEMMA CurrentStarts ==
  ASSUME NEW s, Good(s), NEW c \in Calls, PermitIsCurrent(s, c)
  PROVE  \/ ModeOf(s.episode) = "closed"
         \/ ModeOf(s.episode) = "probing" /\ OwnerOf(s.episode) = c
BY MatchingIsProbing DEF PermitIsCurrent, ModeOf

(* Before its attempt a call asks nothing and has an attempt left.         *)
LEMMA ComingAsksNothing ==
  ASSUME Good(Now), NEW c \in Calls, calls[c].pc \in Coming
  PROVE  MayRetry(Now, c) /\ c \notin Asking(Now)
<1>1. calls[c] \in Budgeted
  BY DEF Good, StateType, Now
<1>2. calls[c].attempts < MaxAttempts
  BY <1>1 DEF Budgeted
<1>3. ~Asks(calls[c])
  BY DEF Coming, Asks
<1>4. QED
  BY <1>2, <1>3 DEF MayRetry, Asking, Now

(* Starting an attempt, with a permit that is current.                     *)
LEMMA ClaimLands ==
  ASSUME Good(Now), NEW s, Good(s), NEW c \in Calls, s.calls[c] = calls[c],
         Asking(s) = Asking(Now), s.episode = episode, calls[c].pc \in {"limiter", "granted"},
         PermitIsCurrent(Now, c)
  PROVE  Lands(Claim(s, c), c)
<1> DEFINE r == [calls[c] EXCEPT !.pc = "upstream", !.attempts = @ + 1, !.resolved = FALSE]
<1>1. MayRetry(Now, c) /\ c \notin Asking(Now) /\ Now.calls = calls /\ Now.episode = episode
  BY ComingAsksNothing DEF Coming, Now
<1>2. calls[c] \in CallType /\ calls[c].attempts < MaxAttempts
  BY <1>1 DEF Good, StateType, Budgeted, MayRetry
<1>3. r \in Budgeted /\ r.pc = "upstream" /\ Asks(r)
  <2>1. calls[c].attempts + 1 \in 0..MaxAttempts
    BY <1>2, AdmissionAssumption DEF CallType
  <2>2. QED
    BY ZenonT(30), <1>2, <2>1 DEF Budgeted, Coming, CallType, Place, Asks
<1>4. Claim(s, c) = PutC(s, c, r)
  BY DEF Claim, PutC
<1> HIDE DEF r
<1>5. /\ Good(PutC(s, c, r)) /\ PutC(s, c, r).episode = episode
      /\ Asking(PutC(s, c, r)) = Asking(s) \cup {c}
  BY <1>3, PutCall
<1>6. QED
  BY <1>1, <1>4, <1>5, CurrentStarts DEF Lands, AbsStep, Starts, Same

(* Steps on the way to an attempt.                                         *)
LEMMA ToTheGateLands ==
  ASSUME Good(Now), NEW c \in Calls,
         Start(c) \/ AccessGranted(c) \/ AccessEnds(c) \/ Recheck(c)
  PROVE  \E t : Become(t) /\ Lands(t, c)
<1>1. Now.calls = calls /\ Now.episode = episode
  BY DEF Now
<1>2. calls[c].pc \in Coming /\ calls[c].pc # "queued"
  BY DEF Start, AccessGranted, AccessEnds, Recheck, Coming
<1>3. MayRetry(Now, c) /\ c \notin Asking(Now)
  BY <1>2, ComingAsksNothing
<1>4. CASE Start(c)
  <2>1. Moves(Now, Proceed(Now, c, "retry"), c)
        /\ Passes(Now.episode, Proceed(Now, c, "retry").episode, c)
    BY <1>1, <1>2, <1>3, ProceedMoves
  <2>2. QED
    BY <1>1, <1>3, <1>4, <2>1, PassingLands DEF Start
<1>5. CASE AccessGranted(c) \/ Recheck(c)
  <2>1. Moves(Now, Gate(Now, c), c) /\ Passes(Now.episode, Gate(Now, c).episode, c)
    BY <1>1, <1>2, <1>3, GateMoves
  <2>2. QED
    BY <1>1, <1>3, <1>5, <2>1, PassingLands DEF AccessGranted, Recheck
<1>6. CASE AccessEnds(c)
  <2> DEFINE r == [calls[c] EXCEPT !.pc = "done"]
  <2>1. calls[c] \in Budgeted
    BY <1>1 DEF Good, StateType
  <2>2. r \in Budgeted /\ r.pc # "queued" /\ ~Asks(r)
    BY <2>1 DEF Budgeted, Coming, CallType, Place, Asks
  <2>3. At(Now, c, "done") = PutC(Now, c, r)
    BY <1>1 DEF At, PutC
  <2> HIDE DEF r
  <2>4. Moves(Now, At(Now, c, "done"), c) /\ At(Now, c, "done").episode = episode
    BY <1>1, <1>2, <2>2, <2>3, PutCall DEF Moves
  <2>5. QED
    BY <1>1, <1>3, <1>6, <2>4, PassingLands DEF AccessEnds, Passes, Circuit!Passages
<1>7. QED
  BY <1>4, <1>5, <1>6

(* The leader's sleep ends.                                                *)
LEMMA BackoffEndsLands ==
  ASSUME Good(Now), NEW c \in Calls, BackoffEnds(c)
  PROVE  \E t : Become(t) /\ Lands(t, c)
<1>1. Now.calls = calls /\ Now.episode = episode
  BY DEF Now
<1>2. calls[c].pc \in Coming /\ calls[c].pc # "queued"
  BY DEF BackoffEnds, Coming
<1>3. MayRetry(Now, c) /\ c \notin Asking(Now)
  BY <1>2, ComingAsksNothing
<1> DEFINE wakes == /\ episode # None /\ episode.gen = calls[c].permit.gen
                    /\ episode.phase = "open" /\ episode.leader = c /\ ~episode.probing
<1>4. CASE ~wakes
  <2>1. Moves(Now, Gate(Now, c), c) /\ Passes(Now.episode, Gate(Now, c).episode, c)
    BY <1>1, <1>2, <1>3, GateMoves
  <2>2. QED
    BY <1>1, <1>3, <1>4, <2>1, PassingLands DEF BackoffEnds
<1>5. CASE wakes
  <2> DEFINE e == [episode EXCEPT !.probing = TRUE]
             u == PutE(Now, e)
             t == Permit(u, c, "limiter", TRUE, episode.gen)
  <2>1. episode \in EpisodeType /\ c # None
    BY <1>1, <1>5, AdmissionAssumption DEF Good, StateType
  <2>2. /\ e \in EpisodeType /\ e.probing /\ e.leader = c /\ e.phase = "open"
        /\ episode.gen \in Nat
    BY <1>5, <2>1 DEF EpisodeType
  <2>3. e # None /\ EpisodeOK(e)
    BY <2>1, <2>2, NoneIsNoEpisode DEF EpisodeOK
  <2>4. [Now EXCEPT !.episode.probing = TRUE] = u
    BY <1>1 DEF PutE
  <2>5. Become(t)
    BY <1>5, <2>4 DEF BackoffEnds
  <2> HIDE DEF e
  <2>6. Good(u) /\ u.calls = calls /\ u.episode = e /\ Asking(u) = Asking(Now)
    BY <1>1, <2>2, <2>3, PutEpisode
  <2> HIDE DEF u
  <2>7. u.calls[c].pc # "queued" /\ MayRetry(u, c)
    BY <1>1, <1>2, <1>3, <2>6 DEF MayRetry
  <2>8. Moves(u, t, c) /\ t.episode = u.episode
    <3>1. "limiter" \in {"waiting", "backoff", "limiter"} /\ TRUE \in BOOLEAN
      OBVIOUS
    <3>2. QED
      BY ZenonT(30), <2>2, <2>6, <2>7, <3>1, PermitMoves
  <2>9. Passes(episode, e, c)
    BY <1>5, <2>2, <2>3 DEF Passes, Circuit!Passages, ModeOf, OwnerOf
  <2> HIDE DEF t
  <2>10. Lands(t, c)
    BY <1>1, <1>3, <2>6, <2>8, <2>9 DEF Lands, AbsStep, Moves
  <2>11. QED
    BY <2>5, <2>10
<1>6. QED
  BY <1>4, <1>5

(* The limiter admits the call, or its slot is there.                      *)
LEMMA ToTheAttemptLands ==
  ASSUME Good(Now), NEW c \in Calls, LimiterAdmits(c) \/ SlotResumes(c)
  PROVE  \E t : Become(t) /\ Lands(t, c)
<1>1. /\ Now.calls = calls /\ Now.episode = episode /\ Now.free = free
      /\ Now.queue = queue /\ Now.generation = generation
  BY DEF Now
<1>2. calls[c].pc \in Coming /\ calls[c].pc \in {"limiter", "granted"}
  BY DEF LimiterAdmits, SlotResumes, Coming
<1>3. MayRetry(Now, c) /\ c \notin Asking(Now)
  BY <1>2, ComingAsksNothing
<1>4. CASE LimiterAdmits(c) /\ ~PermitIsCurrent(Now, c)
  <2>1. Become(Gate(Now, c))
    BY <1>4, StaleIsNotProbe DEF LimiterAdmits
  <2>2. Moves(Now, Gate(Now, c), c) /\ Passes(Now.episode, Gate(Now, c).episode, c)
    BY <1>1, <1>2, <1>3, GateMoves
  <2>3. QED
    BY <1>1, <1>3, <2>1, <2>2, PassingLands
<1>5. CASE LimiterAdmits(c) /\ PermitIsCurrent(Now, c) /\ free > 0 /\ queue = <<>> /\ ~Resuming(Now)
  <2> DEFINE u == [Now EXCEPT !.free = @ - 1]
  <2>1. Become(Claim(u, c))
    BY <1>5 DEF LimiterAdmits
  <2>2. Good(u) /\ u.calls = calls /\ u.episode = episode
    BY <1>1, <1>5 DEF Good, StateType, QueueOK
  <2> HIDE DEF u
  <2>3. Asking(u) = Asking(Now)
    BY <1>1, <2>2 DEF Asking
  <2>4. QED
    BY <2>3, <1>2, <1>5, <2>1, <2>2, ClaimLands
<1>6. CASE LimiterAdmits(c) /\ PermitIsCurrent(Now, c) /\ ~(free > 0 /\ queue = <<>> /\ ~Resuming(Now))
  <2> DEFINE t == [At(Now, c, "queued") EXCEPT !.queue = Append(@, c)]
  <2>1. Become(t)
    BY <1>6 DEF LimiterAdmits
  <2>2. Now.calls[c].pc = "limiter"
    BY <1>1, <1>6 DEF LimiterAdmits
  <2>3. Good(t) /\ t.episode = episode /\ Asking(t) = Asking(Now)
    BY <1>1, <2>2, JoinQueueKeeps
  <2>4. QED
    BY <1>1, <2>1, <2>3 DEF Lands, AbsStep, Stays, Same
<1>7. CASE SlotResumes(c) /\ PermitIsCurrent(Now, c)
  <2>1. Become(Claim(Woken(Now), c)) /\ calls[c].pc = "granted"
    BY <1>7 DEF SlotResumes
  <2>2. /\ Good(Woken(Now)) /\ Woken(Now).episode = episode
        /\ Woken(Now).calls[c] = calls[c] /\ Asking(Woken(Now)) = Asking(Now)
    BY <1>1, <2>1, WokenKeeps
  <2>3. QED
    BY <1>1, <1>2, <1>7, <2>1, <2>2, ClaimLands
<1>8. CASE SlotResumes(c) /\ ~PermitIsCurrent(Now, c)
  <2> DEFINE w == Woken(Now)
             u == ReleaseSlot(w)
  <2>1. Become(Gate(Abandoned(u, c), c)) /\ calls[c].pc = "granted"
    BY <1>8 DEF SlotResumes
  <2>0. Good(w) /\ w.episode = episode /\ w.calls[c] = calls[c] /\ Asking(w) = Asking(Now)
    BY <1>1, <2>1, WokenKeeps
  <2> HIDE DEF w
  <2>2. Good(u) /\ u.episode = episode /\ u.calls[c] = calls[c] /\ Asking(u) = Asking(Now)
    BY <2>0, <2>1, ReleaseSlotKeeps
  <2> HIDE DEF u
  <2>3. ~PermitIsCurrent(u, c)
    BY <1>1, <1>8, <2>2 DEF PermitIsCurrent, MatchingProbe
  <2>4. Become(Gate(u, c))
    BY <2>1, <2>2, <2>3, StaleIsNotProbe
  <2>5. u.calls[c].pc # "queued" /\ MayRetry(u, c)
    BY <1>1, <1>2, <1>3, <2>2 DEF MayRetry
  <2>6. Moves(u, Gate(u, c), c) /\ Passes(u.episode, Gate(u, c).episode, c)
    BY <2>2, <2>5, GateMoves
  <2>7. QED
    BY <1>3, <2>2, <2>4, <2>6, PassingLands
<1>9. QED
  BY <1>4, <1>5, <1>6, <1>7, <1>8

(* Upstream answers, and an accepted stream ends.                          *)
LEMMA AnswerLands ==
  ASSUME Good(Now), NEW c \in Calls,
         Returns(c) \/ Corrects(c) \/ Fails(c) \/ StreamEnds(c) \/ StreamCut(c)
  PROVE  \E t : Become(t) /\ Lands(t, c)
<1>1. Now.calls = calls /\ Now.episode = episode
  BY DEF Now
<1>2. calls[c].pc \in {"upstream", "streaming"}
  BY DEF Returns, Corrects, Fails, StreamEnds, StreamCut
<1>3. /\ Now.calls[c].pc # "waiting"
      /\ Now.calls[c].pc \notin {"waiting", "queued"}
  BY <1>1, <1>2
<1>4. CASE Returns(c)
  <2>1. PICK u : u = Succeeded(Now, c)
    OBVIOUS
  <2>2. /\ Keeps(Now, u, c) /\ Settles(episode, u.episode, c)
        /\ calls[c].resolved => u.episode = episode
    BY <1>1, <1>3, <2>1, SucceededKeeps
  <2>3. Become(AfterAnswer(u, c, "leave"))
    BY <1>4, <2>1 DEF Returns
  <2>4. QED
    BY <1>2, <2>2, <2>3, AnsweringLands
<1>5. CASE Corrects(c)
  <2>1. PICK u : u = Corrected(Now, c)
    OBVIOUS
  <2>2. /\ Keeps(Now, u, c) /\ Settles(episode, u.episode, c)
        /\ calls[c].resolved => u.episode = episode
    BY <1>1, <1>3, <2>1, CorrectedKeeps
  <2>3. Become(AfterAnswer(u, c, "retry")) /\ MayRetry(Now, c)
    BY <1>5, <2>1 DEF Corrects
  <2>4. QED
    BY <1>2, <2>2, <2>3, AnsweringLands
<1>6. CASE Fails(c)
  <2>1. ~calls[c].resolved
    BY <1>6 DEF Fails
  <2>2. CASE \E next \in {"retry", "leave"} :
               /\ Become(AfterAnswer(Rejected(Now, c), c, next))
               /\ next # "leave" => MayRetry(Now, c)
    <3>1. PICK next \in {"retry", "leave"} :
            /\ Become(AfterAnswer(Rejected(Now, c), c, next))
            /\ next # "leave" => MayRetry(Now, c)
      BY <2>2
    <3>2. PICK u : u = Rejected(Now, c)
      OBVIOUS
    <3>3. Keeps(Now, u, c) /\ Settles(episode, u.episode, c)
      BY <1>1, <1>3, <3>2, RejectedKeeps
    <3>4. QED
      BY <1>2, <2>1, <3>1, <3>2, <3>3, AnsweringLands
  <2>3. CASE Become(AfterAnswer(Failed(Now, c), c,
                                IF MayRetry(Now, c) THEN "retry" ELSE "leave"))
    <3>1. PICK u : u = Failed(Now, c)
      OBVIOUS
    <3>2. PICK next \in {"retry", "leave"} :
            next = IF MayRetry(Now, c) THEN "retry" ELSE "leave"
      OBVIOUS
    <3>3. Keeps(Now, u, c) /\ Settles(episode, u.episode, c)
      BY <1>1, <1>3, <3>1, FailedKeeps
    <3>4. Become(AfterAnswer(u, c, next)) /\ (next # "leave" => MayRetry(Now, c))
      BY <2>3, <3>1, <3>2
    <3>5. QED
      BY <1>2, <2>1, <3>3, <3>4, AnsweringLands
  <2>4. QED
    BY <1>6, <2>2, <2>3 DEF Fails, Nexts
<1>7. CASE StreamEnds(c) \/ StreamCut(c)
  <2>1. PICK next \in {"retry", "leave"} :
          Become(AfterAnswer(Now, c, next)) /\ (next # "leave" => MayRetry(Now, c))
    BY <1>7 DEF StreamEnds, StreamCut, Nexts
  <2>2. Keeps(Now, Now, c) /\ Settles(episode, Now.episode, c)
    BY <1>1 DEF Keeps, Settles, Same
  <2>3. QED
    BY <1>1, <1>2, <2>1, <2>2, AnsweringLands
<1>8. QED
  BY <1>4, <1>5, <1>6, <1>7

(* A stream opens, is accepted, or is to be recovered after it was cut.    *)
LEMMA StreamLands ==
  ASSUME Good(Now), NEW c \in Calls,
         StreamOpens(c) \/ FirstEvent(c) \/ RecoversMidstream(c)
  PROVE  \E t : Become(t) /\ Lands(t, c)
<1>1. Now.calls = calls /\ Now.episode = episode
  BY DEF Now
<1>2. calls[c] \in Budgeted /\ calls[c].pc # "queued" /\ calls[c].pc # "waiting"
  BY <1>1 DEF Good, StateType, StreamOpens, FirstEvent, RecoversMidstream
<1>3. CASE StreamOpens(c)
  <2> DEFINE r == [calls[c] EXCEPT !.pc = "streaming"]
  <2>1. r \in Budgeted /\ r.pc # "queued" /\ (Asks(r) <=> c \in Asking(Now))
    BY <1>1, <1>2, <1>3 DEF StreamOpens, Budgeted, Coming, CallType, Place, Asks, Asking
  <2>2. Become(PutC(Now, c, r))
    BY <1>1, <1>3 DEF StreamOpens, At, PutC
  <2> HIDE DEF r
  <2>3. /\ Good(PutC(Now, c, r)) /\ PutC(Now, c, r).episode = episode
        /\ Asking(PutC(Now, c, r)) = Asking(Now)
    <3>1. Now.calls[c].pc # "queued"
      BY <1>1, <1>2
    <3>2. /\ Good(PutC(Now, c, r)) /\ PutC(Now, c, r).episode = Now.episode
          /\ Asks(r) => Asking(PutC(Now, c, r)) = Asking(Now) \cup {c}
          /\ ~Asks(r) => Asking(PutC(Now, c, r)) = Asking(Now) \ {c}
      <4>1. r \in Budgeted /\ r.pc # "queued"
        BY <2>1
      <4>2. QED
        BY <3>1, <4>1, PutCall
    <3>3. QED
      BY <1>1, <2>1, <3>2
  <2>4. QED
    BY <1>1, <2>2, <2>3 DEF Lands, AbsStep, Stays, Same
<1>4. CASE FirstEvent(c)
  <2> DEFINE u == Succeeded(Now, c)
             r == [u.calls[c] EXCEPT !.resolved = TRUE]
  <2>1. /\ Good(u) /\ u.calls[c] = calls[c] /\ Asking(u) = Asking(Now)
        /\ Settles(episode, u.episode, c)
    BY <1>1, <1>2, SucceededKeeps DEF Keeps
  <2>2. r \in Budgeted /\ r.pc # "queued" /\ ~Asks(r)
    BY <1>2, <2>1 DEF Budgeted, Coming, CallType, Place, Asks
  <2>3. Become(PutC(u, c, r))
    BY <1>4 DEF FirstEvent, PutC
  <2>4. c \in Asking(Now)
    BY <1>1, <1>4 DEF FirstEvent, Asking, Asks
  <2> HIDE DEF u, r
  <2>5. /\ Good(PutC(u, c, r)) /\ PutC(u, c, r).episode = u.episode
        /\ Asking(PutC(u, c, r)) = Asking(Now) \ {c}
    BY <1>2, <2>1, <2>2, PutCall
  <2>6. Passes(u.episode, u.episode, c)
    BY DEF Passes, Circuit!Passages
  <2>7. QED
    BY <1>1, <2>1, <2>3, <2>4, <2>5, <2>6 DEF Lands, AbsStep, Answers
<1>5. CASE RecoversMidstream(c)
  <2> DEFINE r == [calls[c] EXCEPT !.outer = TRUE]
             u == PutC(Now, c, r)
  <2>1. /\ r \in Budgeted /\ r.pc = calls[c].pc /\ r.resolved = calls[c].resolved
        /\ r.attempts = calls[c].attempts
    BY <1>2 DEF Budgeted, CallType
  <2>2. Become(Gate(u, c)) /\ MayRetry(Now, c)
    BY <1>1, <1>5 DEF RecoversMidstream, PutC
  <2>3. c \notin Asking(Now)
    BY <1>1, <1>5 DEF RecoversMidstream, Asking, Asks
  <2> HIDE DEF r
  <2>4. Good(u) /\ u.calls[c] = r /\ u.episode = episode /\ Asking(u) = Asking(Now)
    BY <1>1, <2>1, PutKeeps
  <2> HIDE DEF u
  <2>5. u.calls[c].pc # "queued" /\ MayRetry(u, c)
    BY <1>1, <1>2, <2>1, <2>2, <2>4 DEF MayRetry
  <2>6. Moves(u, Gate(u, c), c) /\ Passes(u.episode, Gate(u, c).episode, c)
    BY <2>4, <2>5, GateMoves
  <2>7. QED
    BY <2>2, <2>3, <2>4, <2>6, PassingLands
<1>6. QED
  BY <1>3, <1>4, <1>5

(* Attempts are closed, answered or not.                                   *)
LEMMA ClosingLands ==
  ASSUME Good(Now), NEW c \in Calls,
         Closed(c) \/ AbandonRuns(c) \/ AbandonedLeaves(c)
         \/ CancelUpstream(c) \/ CancelStreaming(c)
  PROVE  \E t : Become(t) /\ Lands(t, c)
<1>1. Now.calls = calls /\ Now.episode = episode
  BY DEF Now
<1>2. calls[c] \in Budgeted
  BY <1>1 DEF Good, StateType
<1>3. CASE (Closed(c) /\ calls[c].resolved) \/ AbandonedLeaves(c)
  <2> DEFINE u == ReleaseSlot(Now)
             next == IF Closed(c) THEN calls[c].next ELSE "leave"
  <2>1. c \notin Asking(Now) /\ calls[c].pc # "queued" /\ calls[c].pc \in {"closing", "abandoning"}
    BY <1>1, <1>3 DEF Closed, AbandonedLeaves, Asking, Asks
  <2>2. Good(u) /\ u.episode = episode /\ u.calls[c] = calls[c] /\ Asking(u) = Asking(Now)
    BY <1>1, <2>1, ReleaseSlotKeeps
  <2>3. Become(Proceed(u, c, next))
    BY <1>1, <1>3 DEF Closed, AbandonedLeaves, Proceed
  <2>4. next # "leave" => MayRetry(u, c)
    BY <1>2, <1>3, <2>2 DEF Closed, Budgeted, CallType, MayRetry
  <2> HIDE DEF u, next
  <2>5. Moves(u, Proceed(u, c, next), c) /\ Passes(u.episode, Proceed(u, c, next).episode, c)
    BY <2>1, <2>2, <2>4, ProceedMoves
  <2>6. QED
    BY <2>1, <2>2, <2>3, <2>5, PassingLands
<1>4. CASE (Closed(c) /\ ~calls[c].resolved) \/ CancelUpstream(c)
  <2> DEFINE r == [calls[c] EXCEPT !.pc = "abandoning", !.pending = calls[c].permit.probe]
  <2>1. r \in Budgeted /\ r.pc # "queued" /\ ~Asks(r)
    BY <1>2 DEF Budgeted, Coming, CallType, Place, Asks
  <2>2. calls[c].pc # "queued"
    BY <1>4 DEF Closed, CancelUpstream
  <2>3. Become(PutC(Now, c, r))
    <3>1. Become([At(Now, c, "abandoning") EXCEPT !.calls[c].pending = calls[c].permit.probe])
      BY <1>4 DEF Closed, CancelUpstream
    <3>2. [At(Now, c, "abandoning") EXCEPT !.calls[c].pending = calls[c].permit.probe]
            = PutC(Now, c, r)
      BY <1>1, <1>2 DEF At, PutC, Budgeted, CallType, Good, StateType
    <3>3. QED
      BY <3>1, <3>2
  <2> HIDE DEF r
  <2>4. /\ Good(PutC(Now, c, r)) /\ PutC(Now, c, r).episode = episode
        /\ Asking(PutC(Now, c, r)) = Asking(Now) \ {c}
    BY <1>1, <2>1, <2>2, PutCall
  <2>5. QED
    BY <1>1, <2>3, <2>4 DEF Lands, AbsStep, Drops, Same
<1>5. CASE CancelStreaming(c)
  <2> DEFINE r == [calls[c] EXCEPT !.pc = "closing", !.next = "leave"]
  <2>1. r \in Budgeted /\ r.pc # "queued" /\ ~Asks(r)
    BY <1>2 DEF Budgeted, Coming, CallType, Place, Asks
  <2>2. calls[c].pc # "queued"
    BY <1>5 DEF CancelStreaming
  <2>3. Become(PutC(Now, c, r))
    <3>1. Become([At(Now, c, "closing") EXCEPT !.calls[c].next = "leave"])
      BY <1>5 DEF CancelStreaming
    <3>2. [At(Now, c, "closing") EXCEPT !.calls[c].next = "leave"] = PutC(Now, c, r)
      BY <1>1, <1>2 DEF At, PutC, Budgeted, CallType, Good, StateType
    <3>3. QED
      BY <3>1, <3>2
  <2> HIDE DEF r
  <2>4. /\ Good(PutC(Now, c, r)) /\ PutC(Now, c, r).episode = episode
        /\ Asking(PutC(Now, c, r)) = Asking(Now) \ {c}
    BY <1>1, <2>1, <2>2, PutCall
  <2>5. QED
    BY <1>1, <2>3, <2>4 DEF Lands, AbsStep, Drops, Same
<1>6. CASE AbandonRuns(c)
  <2> DEFINE r == [calls[c] EXCEPT !.pending = FALSE]
             u == PutC(Now, c, r)
  <2>1. r \in Budgeted /\ r.pc = calls[c].pc /\ r.resolved = calls[c].resolved
    BY <1>2 DEF Budgeted, CallType
  <2>2. Become(Abandoned(u, c))
    BY <1>1, <1>6 DEF AbandonRuns, PutC
  <2> HIDE DEF r
  <2>3. Good(u) /\ u.episode = episode /\ Asking(u) = Asking(Now)
    BY <1>1, <2>1, PutKeeps
  <2> HIDE DEF u
  <2>4. /\ Good(Abandoned(u, c)) /\ Asking(Abandoned(u, c)) = Asking(Now)
        /\ Same(episode, Abandoned(u, c).episode) \/ Yields(episode, Abandoned(u, c).episode, c)
    BY <2>3, AbandonedKeeps
  <2>5. QED
    BY <1>1, <2>2, <2>4 DEF Lands, AbsStep, Stays
<1>7. QED
  BY <1>3, <1>4, <1>5, <1>6

(* A call is cancelled before its attempt.                                 *)
LEMMA CancelLands ==
  ASSUME Good(Now), NEW c \in Calls,
         CancelWaiting(c) \/ CancelInBackoff(c) \/ CancelInLimiter(c)
         \/ CancelInQueue(c) \/ CancelGranted(c)
  PROVE  \E t : Become(t) /\ Lands(t, c)
<1>1. Now.calls = calls /\ Now.episode = episode
  BY DEF Now
<1>2. calls[c].pc \in Coming
  BY DEF CancelWaiting, CancelInBackoff, CancelInLimiter, CancelInQueue, CancelGranted, Coming
<1>3. c \notin Asking(Now)
  BY <1>2, ComingAsksNothing
<1>4. CASE CancelWaiting(c)
  <2> DEFINE e == [episode EXCEPT !.waiters = @ \ {c}]
             u == PutE(Now, e)
  <2>1. calls[c].pc # "queued"
    BY <1>4 DEF CancelWaiting
  <2>2. CASE episode # None /\ episode.gen = calls[c].permit.gen /\ episode.leader # c
    <3>1. episode \in EpisodeType /\ EpisodeOK(episode)
      BY <1>1, <2>2 DEF Good, StateType
    <3>2. /\ e \in EpisodeType /\ e.probing = episode.probing
          /\ e.leader = episode.leader /\ e.phase = episode.phase
      BY <3>1 DEF EpisodeType
    <3>3. e # None /\ EpisodeOK(e) /\ Same(episode, e)
      BY <2>2, <3>1, <3>2, NoneIsNoEpisode DEF EpisodeOK, Same, ModeOf, OwnerOf
    <3>4. [Now EXCEPT !.episode.waiters = @ \ {c}] = u
      BY <1>1 DEF PutE
    <3>5. Become(Leave(u, c))
      BY <1>4, <2>2, <3>4 DEF CancelWaiting
    <3> HIDE DEF e
    <3>6. Good(u) /\ u.calls = calls /\ u.episode = e /\ Asking(u) = Asking(Now)
      BY <1>1, <3>2, <3>3, PutEpisode
    <3> HIDE DEF u
    <3>7. QED
      BY <1>3, <2>1, <3>3, <3>5, <3>6, LeavingLands
  <2>3. CASE ~(episode # None /\ episode.gen = calls[c].permit.gen /\ episode.leader # c)
    <3>1. Become(Leave(Now, c))
      BY <1>4, <2>3 DEF CancelWaiting
    <3>2. QED
      BY <1>1, <1>3, <2>1, <3>1, LeavingLands DEF Same
  <2>4. QED
    BY <2>2, <2>3
<1>5. CASE CancelInBackoff(c)
  <2> DEFINE e == [episode EXCEPT !.leader = None]
             u == PutE(Now, e)
             gives == /\ episode # None /\ episode.gen = calls[c].permit.gen
                      /\ episode.leader = c /\ ~episode.probing
  <2>1. calls[c].pc # "queued" /\ calls[c].pc # "waiting"
    BY <1>5 DEF CancelInBackoff
  <2>2. CASE gives
    <3>1. episode \in EpisodeType /\ EpisodeOK(episode) /\ c # None
      BY <1>1, <2>2, AdmissionAssumption DEF Good, StateType
    <3>2. /\ e \in EpisodeType /\ ~e.probing /\ e.leader = None
          /\ e.phase = "open" /\ episode.phase = "open"
      BY <2>2, <3>1 DEF EpisodeType, EpisodeOK
    <3>3. e # None /\ EpisodeOK(e) /\ Yields(episode, e, c)
      BY <2>2, <3>2, NoneIsNoEpisode DEF EpisodeOK, Yields, ModeOf, OwnerOf
    <3>4. [Now EXCEPT !.episode.leader = None] = u
      BY <1>1 DEF PutE
    <3>5. Become(Leave(NotifyAll(u), c))
      BY <1>5, <2>2, <3>4 DEF CancelInBackoff
    <3> HIDE DEF e
    <3>6. Good(u) /\ u.calls = calls /\ u.episode = e /\ Asking(u) = Asking(Now)
      BY <1>1, <3>2, <3>3, PutEpisode
    <3> HIDE DEF u
    <3>7. /\ Good(NotifyAll(u)) /\ NotifyAll(u).calls[c] = calls[c]
          /\ NotifyAll(u).episode = e /\ Asking(NotifyAll(u)) = Asking(Now)
      BY <2>1, <3>6, NotifyAllKeeps
    <3>8. QED
      BY <1>3, <2>1, <3>3, <3>5, <3>7, LeavingLands
  <2>3. CASE ~gives
    <3>1. Become(Leave(Now, c))
      BY <1>5, <2>3 DEF CancelInBackoff
    <3>2. QED
      BY <1>1, <1>3, <2>1, <3>1, LeavingLands DEF Same
  <2>4. QED
    BY <2>2, <2>3
<1>6. CASE CancelInLimiter(c) \/ CancelInQueue(c) \/ CancelGranted(c)
  <2>1. PICK s : /\ Become(Leave(Abandoned(s, c), c)) /\ Good(s)
                 /\ s.calls[c].pc # "queued" /\ s.calls[c].pc # "waiting"
                 /\ s.episode = episode /\ Asking(s) = Asking(Now)
    <3>1. CASE CancelInLimiter(c)
      BY <1>1, <3>1 DEF CancelInLimiter
    <3>2. CASE CancelInQueue(c)
      <4> DEFINE u == LeaveQueue(Now, c)
      <4>1. calls[c].pc = "queued" /\ Become(Leave(Abandoned(Woken(u), c), c))
        BY <3>2 DEF CancelInQueue
      <4>2. /\ Good(u) /\ u.calls[c].pc = "limiter" /\ u.episode = episode
            /\ Asking(u) = Asking(Now)
        BY <1>1, <4>1, LeaveQueueKeeps
      <4> HIDE DEF u
      <4>3. /\ Good(Woken(u)) /\ Woken(u).calls[c].pc = "limiter" /\ Woken(u).episode = episode
            /\ Asking(Woken(u)) = Asking(Now)
        BY <4>2, WokenKeeps
      <4>4. QED
        BY <4>1, <4>3
    <3>3. CASE CancelGranted(c)
      <4> DEFINE u == Woken(Now)
      <4>1. calls[c].pc = "granted" /\ Become(Leave(Abandoned(ReleaseSlot(u), c), c))
        BY <3>3 DEF CancelGranted
      <4>2. /\ Good(u) /\ u.calls[c] = calls[c] /\ u.episode = episode
            /\ Asking(u) = Asking(Now)
        BY <1>1, <4>1, WokenKeeps
      <4> HIDE DEF u
      <4>3. /\ Good(ReleaseSlot(u)) /\ ReleaseSlot(u).calls[c] = calls[c]
            /\ ReleaseSlot(u).episode = episode /\ Asking(ReleaseSlot(u)) = Asking(Now)
        BY <4>1, <4>2, ReleaseSlotKeeps
      <4>4. QED
        BY <4>1, <4>3
    <3>4. QED
      BY <1>6, <3>1, <3>2, <3>3
  <2>2. /\ Good(Abandoned(s, c)) /\ Abandoned(s, c).calls[c] = s.calls[c]
        /\ Asking(Abandoned(s, c)) = Asking(Now)
        /\ Same(episode, Abandoned(s, c).episode) \/ Yields(episode, Abandoned(s, c).episode, c)
    BY <2>1, AbandonedKeeps
  <2>3. QED
    BY <1>3, <2>1, <2>2, LeavingLands
<1>7. QED
  BY <1>4, <1>5, <1>6

-----------------------------------------------------------------------------
(* The specification. *)

(* Every action of a call is covered.                                      *)
LEMMA CallStepLands ==
  ASSUME Good(Now), NEW c \in Calls, Start(c) \/ Advance(c) \/ AccessEnds(c) \/ Cancel(c)
  PROVE  \E t : Become(t) /\ Lands(t, c)
BY ToTheGateLands, BackoffEndsLands, ToTheAttemptLands, AnswerLands, StreamLands,
   ClosingLands, CancelLands DEF Advance, Cancel

(* The state an action becomes is the next one.                            *)
LEMMA BecomeIsNext ==
  ASSUME NEW t, Good(t), Become(t)
  PROVE  Now' = t
BY DEF Become, Now, Good, StateType

(* Initially nobody has come and the circuit is closed.                    *)
LEMMA InitGood ==
  ASSUME Init
  PROVE  Good(Now) /\ Circuit!Init
<1>1. calls \in [Calls -> Budgeted]
  BY AdmissionAssumption DEF Init, Budgeted, Coming, CallType, Place
<1>2. Now \in StateType
  BY <1>1, AdmissionAssumption DEF Init, Now, StateType
<1>3. QueueOK(Now) /\ EpisodeOK(Now.episode)
  BY DEF Init, Now, QueueOK, EpisodeOK
<1>4. Circuit!Init
  BY DEF Init, Circuit!Init
<1>5. QED
  BY <1>2, <1>3, <1>4 DEF Good

(* Every step leads to a good state, by a step of the circuit.             *)
LEMMA StepGood ==
  ASSUME Good(Now), [Next]_vars
  PROVE  Good(Now') /\ [Circuit!Next]_(Circuit!vars)
<1>1. Now.calls = calls /\ Now.episode = episode
  BY DEF Now
<1>2. ASSUME NEW c \in Calls, Start(c) \/ Advance(c) \/ AccessEnds(c) \/ Cancel(c)
      PROVE  Good(Now') /\ [Circuit!Next]_(Circuit!vars)
  <2>1. PICK t : Become(t) /\ Lands(t, c)
    BY <1>2, CallStepLands
  <2>2. Now' = t /\ Good(Now') /\ AbsStep(Now, Now', c)
    BY <2>1, BecomeIsNext DEF Lands
  <2>3. Now'.episode = episode'
    BY DEF Now
  <2>4. CircuitStep(ModeOf(episode), OwnerOf(episode), Asking(Now),
                    ModeOf(episode'), OwnerOf(episode'), Asking(Now'), c)
    BY <1>1, <2>2, <2>3, AbsStepIsCircuitStep
  <2>5. Asking(Now') = Asking(Now)'
    BY DEF Asking
  <2>6. QED
    BY <2>2, <2>4, <2>5, CircuitStepIsNext
<1>3. CASE BackoffElapses \/ CooldownElapses
  <2>1. PutE(Now, episode') = Now' /\ calls' = calls /\ episode # None
    BY <1>3 DEF BackoffElapses, CooldownElapses, PutE, Now
  <2>2. episode \in EpisodeType /\ EpisodeOK(episode)
    BY <1>1, <2>1 DEF Good, StateType
  <2>3. /\ episode' \in EpisodeType
        /\ episode'.leader = episode.leader /\ episode'.probing = episode.probing
        /\ \/ episode'.phase = episode.phase
           \/ episode.phase = "cooling" /\ episode'.phase = "cooled"
    BY <1>3, <2>2 DEF BackoffElapses, CooldownElapses, EpisodeType
  <2>4. episode' # None /\ EpisodeOK(episode')
    BY <2>1, <2>2, <2>3, NoneIsNoEpisode DEF EpisodeOK
  <2>5. Good(Now')
    BY <2>1, <2>3, <2>4, PutEpisode
  <2>6. [Circuit!Next]_(Circuit!vars)
    BY <2>1, <2>3, <2>4 DEF Circuit!Next, Circuit!vars, Circuit!Cool
  <2>7. QED
    BY <2>5, <2>6
<1>4. CASE UNCHANGED vars
  BY <1>4 DEF vars, Now, Circuit!vars
<1>5. QED
  BY <1>2, <1>3, <1>4 DEF Next

(* The types are an invariant of the controller: attempts never exceed the *)
(* budget, a slot is queued for once, and an ended episode is nobody's.    *)
THEOREM AdmissionTypeCorrect == Spec => []TypeOK
<1>1. Init => Good(Now)
  BY InitGood
<1>2. Good(Now) /\ [Next]_vars => Good(Now)'
  <2>1. ASSUME Good(Now')
        PROVE  Good(Now)'
    BY <2>1 DEF Good, StateType, QueueOK, EpisodeOK
  <2>2. QED
    BY <2>1, StepGood
<1>3. Good(Now) => TypeOK
  BY DEF Good, StateType, QueueOK, Budgeted, Now, TypeOK
<1>4. QED
  BY <1>1, <1>2, <1>3, PTL DEF Spec

(* The controller implements the circuit breaker (ImplementsCircuit).      *)
THEOREM CircuitImplemented == Spec => ImplementsCircuit
<1>1. Init => Good(Now) /\ Circuit!Init
  BY InitGood
<1>2. Good(Now) /\ [Next]_vars => Good(Now)' /\ [Circuit!Next]_(Circuit!vars)
  <2>1. ASSUME Good(Now')
        PROVE  Good(Now)'
    BY <2>1 DEF Good, StateType, QueueOK, EpisodeOK
  <2>2. QED
    BY <2>1, StepGood
<1>3. QED
  BY <1>1, <1>2, PTL DEF Spec, ImplementsCircuit, Circuit!Spec
=============================================================================
