---------------------- MODULE ProviderAdmissionSafety ----------------------
(***************************************************************************)
(* The semaphore of the admission controller loses no slot and counts none *)
(* twice; the leader of an episode is a call that will act; an episode is  *)
(* ended for whoever waits for it; and a call that failed stays out.       *)
(*                                                                         *)
(* A step is followed through its pipeline (the answer, what it does to    *)
(* the episode, the slot given back, the call going on).  For the slots,   *)
(* Level says that a part of it moves no slot, Settled that it ends an     *)
(* attempt, Cleared that the count is right but for the attempt that is    *)
(* ending.  For the episode, Others says that all is well but for the call *)
(* of the step, Apart what the step may do to the other calls, Ahead and   *)
(* Shares what it may do to the episode, and Ends that its call comes to   *)
(* rest; an action is then said to behave (Behaves).                       *)
(***************************************************************************)
EXTENDS ProviderAdmissionProofs, FiniteSetTheorems

-----------------------------------------------------------------------------
(* The slots of the semaphore. *)

\* A record of a call holds a slot for its attempt, or for its cut stream.
Occupies(r) == r.pc \in {"granted", "upstream", "streaming", "closing", "abandoning"}
Uses(r, kind) == (kind = "attempt" /\ Occupies(r)) \/ (kind = "outer" /\ r.outer)
HeldIn(s) == {h \in Calls \X {"attempt", "outer"} : Uses(s.calls[h[1]], h[2])}

\* Free slots and held ones add up, and nobody waits for a slot that is free but
\* behind one of C that has still to take its own.  The attempt of c counts as
\* released in Cleared.
Adds(s, H) == IsFiniteSet(H) /\ s.free + Cardinality(H) = Slots
NoneIdle(s, C) == s.queue # <<>> => s.free = 0 \/ \E d \in C : s.calls[d].pc = "granted"
Conserved(s) == Adds(s, HeldIn(s)) /\ NoneIdle(s, Calls)
Cleared(s, c) == Adds(s, HeldIn(s) \ {<<c, "attempt">>}) /\ NoneIdle(s, Calls \ {c})

\* A step of a pipeline that moves no slot, and one that ends the attempt of c,
\* which may go on to close the stream it was recovering.
Alike(r, q) ==
  (Occupies(r) <=> Occupies(q)) /\ r.outer = q.outer /\ (r.pc = "granted" => q.pc = "granted")
Level(s, t) ==
  /\ t.free = s.free /\ t.queue = s.queue
  /\ \A d \in Calls : Alike(s.calls[d], t.calls[d])
Settled(s, t, c) ==
  /\ t.free = s.free /\ t.queue = s.queue
  /\ \A d \in Calls : d # c => Alike(s.calls[d], t.calls[d])
  /\ \/ ~Occupies(t.calls[c]) /\ (t.calls[c].outer <=> s.calls[c].outer)
     \/ Occupies(t.calls[c]) /\ s.calls[c].outer /\ ~t.calls[c].outer

(* A step that moves no slot keeps the count.                              *)
LEMMA LevelCounts ==
  ASSUME NEW s, NEW t, Level(s, t)
  PROVE  /\ HeldIn(t) = HeldIn(s)
         /\ Conserved(s) => Conserved(t)
         /\ \A c \in Calls : Cleared(s, c) => Cleared(t, c)
<1>1. HeldIn(t) = HeldIn(s)
  BY DEF HeldIn, Uses, Level, Alike
<1>2. \A C \in SUBSET Calls : NoneIdle(s, C) => NoneIdle(t, C)
  BY DEF NoneIdle, Level, Alike
<1>3. \A c \in Calls : Calls \ {c} \in SUBSET Calls
  OBVIOUS
<1>4. QED
  BY <1>1, <1>2, <1>3 DEF Conserved, Cleared, Adds, Level

(* Two such steps are one.                                                 *)
LEMMA LevelChains ==
  ASSUME NEW s, NEW t, NEW u, Level(s, t), Level(t, u)
  PROVE  Level(s, u)
BY DEF Level, Alike

(* One element of a finite set is exchanged for another.                   *)
LEMMA SwapCounts ==
  ASSUME NEW S, IsFiniteSet(S), NEW x, x \in S, NEW y, y \notin S
  PROVE  IsFiniteSet((S \ {x}) \cup {y}) /\ Cardinality((S \ {x}) \cup {y}) = Cardinality(S)
<1> DEFINE T == S \ {x}
<1>1. IsFiniteSet(T) /\ Cardinality(T) = Cardinality(S) - 1 /\ Cardinality(S) \in Nat
  BY FS_RemoveElement, FS_CardinalityType
<1>2. y \notin T
  OBVIOUS
<1> HIDE DEF T
<1>3. IsFiniteSet(T \cup {y}) /\ Cardinality(T \cup {y}) = Cardinality(T) + 1
  BY <1>1, <1>2, FS_AddElement
<1>4. QED
  BY <1>1, <1>3 DEF T

(* The end of an attempt whose slot was given back keeps the count: the    *)
(* stream still to be closed passes its slot on.                           *)
LEMMA SettledCounts ==
  ASSUME NEW s, NEW t, NEW c \in Calls, Cleared(s, c), Settled(s, t, c)
  PROVE  Conserved(t)
<1> DEFINE a == <<c, "attempt">>
           o == <<c, "outer">>
           H == HeldIn(s) \ {a}
<1>1. a # o
  OBVIOUS
<1>0. NoneIdle(t, Calls)
  BY DEF Cleared, NoneIdle, Settled, Alike
<1>2. CASE ~Occupies(t.calls[c]) /\ (t.calls[c].outer <=> s.calls[c].outer)
  <2>1. HeldIn(t) = H
    BY <1>2 DEF HeldIn, Uses, Settled, Alike
  <2>2. QED
    BY <1>0, <2>1 DEF Conserved, Cleared, Adds, Settled
<1>3. CASE Occupies(t.calls[c]) /\ s.calls[c].outer /\ ~t.calls[c].outer
  <2>1. o \in H /\ a \notin H /\ IsFiniteSet(H)
    BY <1>1, <1>3 DEF HeldIn, Uses, Cleared, Adds
  <2>2. HeldIn(t) = (H \ {o}) \cup {a}
    BY <1>1, <1>3 DEF HeldIn, Uses, Settled, Alike
  <2> HIDE DEF a, o, H
  <2>3. IsFiniteSet(HeldIn(t)) /\ Cardinality(HeldIn(t)) = Cardinality(H)
    BY <2>1, <2>2, SwapCounts
  <2>4. QED
    BY <1>0, <2>3 DEF Conserved, Cleared, Adds, Settled, H, a
<1>4. QED
  BY <1>2, <1>3 DEF Settled

(* A call that holds no slot for an attempt has none to give back.         *)
LEMMA IdleIsCleared ==
  ASSUME NEW s, NEW c \in Calls, Conserved(s), ~Occupies(s.calls[c])
  PROVE  Cleared(s, c)
<1>1. HeldIn(s) \ {<<c, "attempt">>} = HeldIn(s)
  BY DEF HeldIn, Uses
<1>2. NoneIdle(s, Calls \ {c})
  BY DEF Conserved, NoneIdle, Occupies
<1>3. QED
  BY <1>1, <1>2 DEF Conserved, Cleared

(* What replacing the record of a call, or the episode, leaves alone.      *)
LEMMA PutFields ==
  ASSUME NEW s, Good(s), NEW c \in Calls, NEW r
  PROVE  /\ PutC(s, c, r).free = s.free /\ PutC(s, c, r).queue = s.queue
         /\ PutC(s, c, r).calls[c] = r
         /\ \A d \in Calls : d # c => PutC(s, c, r).calls[d] = s.calls[d]
BY DEF PutC, Good, StateType

(* notify_all() moves no slot, nor does a change of the episode or of what *)
(* sessions have as their error.                                           *)
LEMMA NotifyAllLevel ==
  ASSUME NEW s, NEW t, t \in StateType, t.free = s.free, t.queue = s.queue,
         \A d \in Calls : t.calls[d].pc = s.calls[d].pc /\ t.calls[d].outer = s.calls[d].outer
  PROVE  Level(s, NotifyAll(t))
<1>1. /\ NotifyAll(t).free = t.free /\ NotifyAll(t).queue = t.queue
      /\ \A c \in Calls : NotifyAll(t).calls[c] =
           IF t.calls[c].pc = "waiting" THEN [t.calls[c] EXCEPT !.pc = "notified"]
           ELSE t.calls[c]
  BY DEF NotifyAll, StateType
<1>2. \A c \in Calls : t.calls[c] \in CallType
  BY DEF StateType, Budgeted
<1>3. ASSUME NEW d \in Calls
      PROVE  Alike(s.calls[d], NotifyAll(t).calls[d])
  <2>1. t.calls[d] \in CallType
    BY <1>2
  <2>2. CASE t.calls[d].pc = "waiting"
    <3>1. NotifyAll(t).calls[d] = [t.calls[d] EXCEPT !.pc = "notified"]
      BY <1>1, <2>2
    <3>2. QED
      BY <2>1, <2>2, <3>1 DEF Alike, Occupies, CallType
  <2>3. CASE t.calls[d].pc # "waiting"
    <3>1. NotifyAll(t).calls[d] = t.calls[d]
      BY <1>1, <2>3
    <3>2. QED
      BY <2>3, <3>1 DEF Alike, Occupies
  <2>4. QED
    BY <2>2, <2>3
<1>4. QED
  BY <1>1, <1>3 DEF Level

(* A step that changes neither calls nor slots moves none.                 *)
LEMMA SameLevel ==
  ASSUME NEW s
  PROVE  Level(s, s)
BY DEF Level, Alike

(* What the outcome of an attempt does to the episode moves no slot.       *)
LEMMA RejectedLevel ==
  ASSUME NEW s, Good(s), NEW c \in Calls
  PROVE  Level(s, Rejected(s, c))
<1> DEFINE t == [s EXCEPT !.episode = None]
<1>1. t \in StateType /\ t.calls = s.calls /\ t.free = s.free /\ t.queue = s.queue
  BY DEF Good, StateType
<1>2. Rejected(s, c) \in {s, NotifyAll(t)}
  BY DEF Rejected
<1> HIDE DEF t
<1>3. QED
  BY <1>1, <1>2, NotifyAllLevel, SameLevel

(* A success moves no slot.                                                *)
LEMMA SucceededLevel ==
  ASSUME NEW s, Good(s), NEW c \in Calls
  PROVE  Level(s, Succeeded(s, c))
BY RejectedLevel, SameLevel DEF Succeeded

(* Nor does a probe whose answer corrects the provider.                    *)
LEMMA CorrectedLevel ==
  ASSUME NEW s, Good(s), NEW c \in Calls
  PROVE  Level(s, Corrected(s, c))
<1> DEFINE t == [s EXCEPT !.episode.probing = FALSE, !.episode.ready = TRUE]
<1>1. CASE ~s.calls[c].resolved /\ MatchingProbe(s, c)
  <2>1. s.episode \in EpisodeType
    BY <1>1, MatchingIsProbing
  <2>2. t \in StateType /\ t.calls = s.calls /\ t.free = s.free /\ t.queue = s.queue
    BY <2>1 DEF Good, StateType, EpisodeType
  <2>3. Corrected(s, c) = NotifyAll(t)
    BY <1>1 DEF Corrected
  <2> HIDE DEF t
  <2>4. QED
    BY <2>2, <2>3, NotifyAllLevel
<1>2. QED
  BY <1>1, SameLevel DEF Corrected

(* Nor does a probe that is given up.                                      *)
LEMMA AbandonedLevel ==
  ASSUME NEW s, Good(s), NEW c \in Calls
  PROVE  Level(s, Abandoned(s, c))
<1> DEFINE t == [s EXCEPT !.episode.leader = None, !.episode.probing = FALSE,
                          !.episode.ready = TRUE]
<1>1. CASE MatchingProbe(s, c)
  <2>1. s.episode \in EpisodeType
    BY <1>1, MatchingIsProbing
  <2>2. t \in StateType /\ t.calls = s.calls /\ t.free = s.free /\ t.queue = s.queue
    BY <2>1 DEF Good, StateType, EpisodeType
  <2>3. Abandoned(s, c) = NotifyAll(t)
    BY <1>1 DEF Abandoned
  <2> HIDE DEF t
  <2>4. QED
    BY <2>2, <2>3, NotifyAllLevel
<1>2. QED
  BY <1>1, SameLevel DEF Abandoned

(* What the start of an episode leaves alone.                              *)
LEMMA StartEpisodeFields ==
  ASSUME NEW s, Good(s), NEW leader, leader \in Calls \cup {None},
         NEW ready, ready \in BOOLEAN
  PROVE  /\ Good(StartEpisode(s, leader, ready))
         /\ StartEpisode(s, leader, ready).calls = s.calls
         /\ StartEpisode(s, leader, ready).free = s.free
         /\ StartEpisode(s, leader, ready).queue = s.queue
         /\ StartEpisode(s, leader, ready).episode \in EpisodeType
<1> DEFINE e == [gen |-> s.generation, leader |-> leader, ready |-> ready,
                 probing |-> FALSE, waiters |-> {}, phase |-> "open"]
<1>1. StartEpisode(s, leader, ready) = [s EXCEPT !.episode = e, !.generation = @ + 1]
  BY DEF StartEpisode
<1> HIDE DEF e
<1>2. /\ StartEpisode(s, leader, ready).free = s.free
      /\ StartEpisode(s, leader, ready).queue = s.queue
  BY <1>1 DEF Good, StateType
<1>3. QED
  BY <1>2, StartEpisodeGood, ZenonT(30)

(* A failure that may be retried moves no slot.                            *)
LEMMA FailedWithAttemptsLeftLevel ==
  ASSUME NEW s, Good(s), NEW c \in Calls
  PROVE  Level(s, FailedWithAttemptsLeft(s, c))
<1> DEFINE u == IF s.episode = None THEN StartEpisode(s, c, FALSE)
                ELSE IF MatchingProbe(s, c)
                THEN [s EXCEPT !.episode.probing = FALSE, !.episode.ready = FALSE]
                ELSE IF s.episode.phase # "open"
                THEN [s EXCEPT !.calls[c].failed = TRUE]
                ELSE [s EXCEPT !.episode.waiters = @ \cup {c}]
<1>1. CASE s.episode = None
  <2>1. u = StartEpisode(s, c, FALSE)
    BY <1>1
  <2> HIDE DEF u
  <2>2. /\ Good(u) /\ u.calls = s.calls
        /\ u.free = s.free /\ u.queue = s.queue
    <3>1. c \in Calls \cup {None} /\ FALSE \in BOOLEAN
      OBVIOUS
    <3>2. QED
      BY Zenon, <2>1, <3>1, StartEpisodeFields
  <2>3. Level(s, NotifyAll(u))
    BY <2>2, NotifyAllLevel DEF Good
  <2>4. QED
    BY <2>3 DEF u, FailedWithAttemptsLeft
<1>2. CASE s.episode # None /\ (MatchingProbe(s, c) \/ s.episode.phase = "open")
  <2>1. s.episode \in EpisodeType
    BY <1>2 DEF Good, StateType
  <2>2. u = [s EXCEPT !.episode.probing = FALSE, !.episode.ready = FALSE]
        \/ u = [s EXCEPT !.episode.waiters = @ \cup {c}]
    BY <1>2
  <2> HIDE DEF u
  <2>3. u \in StateType /\ u.calls = s.calls /\ u.free = s.free /\ u.queue = s.queue
    <3>1. CASE u = [s EXCEPT !.episode.probing = FALSE, !.episode.ready = FALSE]
      BY <2>1, <3>1 DEF Good, StateType, EpisodeType
    <3>2. CASE u = [s EXCEPT !.episode.waiters = @ \cup {c}]
      BY <2>1, <3>2 DEF Good, StateType, EpisodeType
    <3>3. QED
      BY <2>2, <3>1, <3>2
  <2>4. Level(s, NotifyAll(u))
    BY <2>3, NotifyAllLevel
  <2>5. QED
    BY <2>4 DEF u, FailedWithAttemptsLeft
<1>3. CASE s.episode # None /\ ~MatchingProbe(s, c) /\ s.episode.phase # "open"
  <2> DEFINE r == [s.calls[c] EXCEPT !.failed = TRUE]
  <2>1. u = PutC(s, c, r)
    BY <1>3 DEF PutC
  <2>2. s.calls[c] \in Budgeted
    BY DEF Good, StateType
  <2>3. r \in Budgeted /\ r.pc = s.calls[c].pc /\ r.resolved = s.calls[c].resolved
        /\ r.outer = s.calls[c].outer
    BY <2>2 DEF Budgeted, Coming, CallType
  <2> HIDE DEF u, r
  <2>4. Good(u) /\ u.free = s.free /\ u.queue = s.queue
        /\ u.calls[c] = r /\ \A d \in Calls : d # c => u.calls[d] = s.calls[d]
    BY <2>1, <2>3, PutKeeps, PutFields
  <2>5. Level(s, NotifyAll(u))
    BY <2>3, <2>4, NotifyAllLevel DEF Good
  <2>6. QED
    BY <2>5 DEF u, FailedWithAttemptsLeft
<1>4. QED
  BY <1>1, <1>2, <1>3

(* Nor does one that exhausts the attempts.                                *)
LEMMA FailedForGoodLevel ==
  ASSUME NEW s, Good(s), NEW c \in Calls
  PROVE  Level(s, FailedForGood(s, c))
<1>1. CASE s.episode # None /\ ~MatchingProbe(s, c)
  BY <1>1, SameLevel DEF FailedForGood
<1>2. CASE s.episode = None \/ MatchingProbe(s, c)
  <2> DEFINE u == IF s.episode = None THEN StartEpisode(s, None, TRUE) ELSE s
             f == [w \in Calls |-> [u.calls[w] EXCEPT
                     !.failed = u.calls[w].failed \/ w \in u.episode.waiters]]
             a == [u EXCEPT !.episode.leader = None, !.episode.probing = FALSE,
                            !.episode.phase = "cooling", !.episode.waiters = {}]
             x == [u EXCEPT !.episode.leader = None, !.episode.probing = FALSE,
                            !.episode.phase = "cooling", !.episode.waiters = {},
                            !.calls = f]
  <2>1. /\ u \in StateType /\ u.calls = s.calls /\ u.free = s.free /\ u.queue = s.queue
        /\ u.episode \in EpisodeType
    <3>1. CASE s.episode = None
      <4>1. u = StartEpisode(s, None, TRUE)
        BY <3>1
      <4> HIDE DEF u, f, a, x
      <4>2. QED
        BY ZenonT(30), <4>1, StartEpisodeFields DEF Good
    <3>2. CASE s.episode # None
      BY <1>2, <3>2, MatchingIsProbing DEF Good
    <3>3. QED
      BY <3>1, <3>2
  <2>2. FailedForGood(s, c) = NotifyAll(x)
    BY <1>2 DEF FailedForGood
  <2> HIDE DEF u
  <2>3. a \in StateType /\ a.calls = u.calls /\ a.free = u.free /\ a.queue = u.queue
    BY <2>1 DEF StateType, EpisodeType
  <2>4. x = [a EXCEPT !.calls = f]
    BY <2>1 DEF StateType
  <2> HIDE DEF a, x
  <2>5. \A w \in Calls : /\ f[w] \in Budgeted /\ f[w].pc = u.calls[w].pc
                         /\ f[w].outer = u.calls[w].outer
    <3>1. \A w \in Calls : u.calls[w] \in Budgeted
      BY <2>1 DEF StateType
    <3>2. QED
      BY ZenonT(30), <3>1 DEF Budgeted, Coming, CallType
  <2>6. f \in [Calls -> Budgeted]
    BY <2>5
  <2> HIDE DEF f
  <2>7. x \in StateType /\ x.calls = f /\ x.free = s.free /\ x.queue = s.queue
    BY <2>1, <2>3, <2>4, <2>6 DEF StateType
  <2>8. Level(s, NotifyAll(x))
    BY <2>1, <2>5, <2>7, NotifyAllLevel
  <2>9. QED
    BY <2>2, <2>8
<1>3. QED
  BY <1>1, <1>2

(* So no failure moves a slot.                                             *)
LEMMA FailedLevel ==
  ASSUME NEW s, Good(s), NEW c \in Calls
  PROVE  Level(s, Failed(s, c))
BY FailedWithAttemptsLeftLevel, FailedForGoodLevel DEF Failed

(* A slot that is given back is free, or its next owner's.                 *)
LEMMA ReleaseSlotClears ==
  ASSUME NEW s, Good(s), Conserved(s), NEW c \in Calls, Occupies(s.calls[c])
  PROVE  Cleared(ReleaseSlot(s), c)
<1> DEFINE t == ReleaseSlot(s)
           a == <<c, "attempt">>
           H == HeldIn(s)
<1>1. IsFiniteSet(H) /\ a \in H /\ Cardinality(H) \in Nat /\ s.free \in Nat
  BY FS_CardinalityType DEF Conserved, Adds, HeldIn, Uses, Good, StateType
<1>2. IsFiniteSet(H \ {a}) /\ Cardinality(H \ {a}) = Cardinality(H) - 1
  BY <1>1, FS_RemoveElement, Zenon
<1>3. CASE s.queue = <<>>
  <2>1. t.calls = s.calls /\ t.free = s.free + 1 /\ t.queue = <<>>
    BY <1>3 DEF ReleaseSlot, Good, StateType
  <2>2. HeldIn(t) = H
    BY <2>1 DEF HeldIn
  <2> HIDE DEF t, a, H
  <2>3. QED
    BY <1>1, <1>2, <2>1, <2>2 DEF Cleared, Conserved, Adds, NoneIdle, H, t, a
<1>4. CASE s.queue # <<>>
  <2> DEFINE h == Head(s.queue)
             b == <<h, "attempt">>
  <2>1. h \in Calls /\ s.calls[h].pc = "queued"
    BY <1>4 DEF Good, StateType, QueueOK
  <2>2. /\ t.calls = [s.calls EXCEPT ![h] = [s.calls[h] EXCEPT !.pc = "granted"]]
        /\ t.free = s.free /\ t.queue = Tail(s.queue)
    BY <1>4 DEF ReleaseSlot, Good, StateType
  <2>3. h # c
    BY <2>1 DEF Occupies
  <2>4. s.calls[h] \in CallType
    BY <2>1 DEF Good, StateType, Budgeted
  <2>5. /\ t.calls[h].pc = "granted" /\ t.calls[h].outer = s.calls[h].outer
        /\ \A d \in Calls : d # h => t.calls[d] = s.calls[d]
    BY <2>1, <2>2, <2>4 DEF Good, StateType, CallType
  <2>6. b \notin H /\ a # b
    BY <2>1, <2>3 DEF HeldIn, Uses, Occupies
  <2> HIDE DEF t, h
  <2>7. HeldIn(t) \ {a} = (H \ {a}) \cup {b}
    BY <2>1, <2>3, <2>5 DEF HeldIn, Uses, Occupies
  <2> HIDE DEF a, b, H
  <2>8. IsFiniteSet(HeldIn(t) \ {a}) /\ Cardinality(HeldIn(t) \ {a}) = Cardinality(H)
    BY <1>1, <2>6, <2>7, SwapCounts
  <2>9. NoneIdle(t, Calls \ {c})
    BY <2>1, <2>3, <2>5 DEF NoneIdle
  <2>10. QED
    BY <2>2, <2>8, <2>9 DEF Cleared, Conserved, Adds, H, t, a
<1>5. QED
  BY <1>3, <1>4

(* Those who are woken take free slots; then none is idle.                 *)
LEMMA WokenCounts ==
  ASSUME NEW s, Good(s), Conserved(s)
  PROVE  Conserved(Woken(s)) /\ (Woken(s).queue # <<>> => Woken(s).free = 0)
<1> DEFINE t == Woken(s)
           m == Len(s.queue)
<1>1. PICK n \in Nat :
           /\ n <= s.free /\ n <= m /\ (n = s.free \/ n = m)
           /\ t.free = s.free - n
           /\ t.queue \in Seq(Calls) /\ Len(t.queue) = m - n
           /\ t.calls = [c \in Calls |->
                IF \E i \in 1..n : s.queue[i] = c THEN [s.calls[c] EXCEPT !.pc = "granted"]
                ELSE s.calls[c]]
  BY WokenParts
<1> HIDE DEF t
<1>2. /\ s.queue \in Seq(Calls) /\ m \in Nat /\ s.free \in Nat /\ DOMAIN s.queue = 1..m
      /\ s.calls \in [Calls -> CallType]
  BY DEF Good, StateType, Budgeted
<1> DEFINE F == [i \in 1..n |-> <<s.queue[i], "attempt">>]
           W == {<<s.queue[i], "attempt">> : i \in 1..n}
           H == HeldIn(s)
<1>3. \A i \in 1..n : i \in 1..m /\ s.queue[i] \in Calls /\ s.calls[s.queue[i]].pc = "queued"
  BY <1>1, <1>2 DEF Good, QueueOK
<1>4. IsFiniteSet(W) /\ Cardinality(W) = n
  <2>1. F \in Bijection(1..n, W)
    <3>1. \A i, j \in 1..n : F[i] = F[j] => i = j
      BY <1>2, <1>3 DEF Good, QueueOK
    <3>2. F \in [1..n -> W] /\ \A w \in W : \E i \in 1..n : F[i] = w
      OBVIOUS
    <3> HIDE DEF F, W
    <3> QED
      BY <3>1, <3>2 DEF Bijection, Injection, Surjection, IsInjective
  <2>2. IsFiniteSet(1..n) /\ Cardinality(1..n) = n
    BY FS_Interval
  <2> HIDE DEF F, W
  <2> QED
    BY <2>1, <2>2, FS_Bijection DEF ExistsBijection
<1>5. H \cap W = {}
  BY <1>3 DEF HeldIn, Uses, Occupies
<1>6. HeldIn(t) = H \cup W
  <2>1. ASSUME NEW c \in Calls, \E i \in 1..n : s.queue[i] = c
        PROVE  t.calls[c].pc = "granted" /\ t.calls[c].outer = s.calls[c].outer
    BY <1>1, <1>2, <2>1 DEF CallType
  <2>2. ASSUME NEW c \in Calls, ~\E i \in 1..n : s.queue[i] = c
        PROVE  t.calls[c] = s.calls[c]
    BY <1>1, <2>2
  <2>3. ASSUME NEW c \in Calls, NEW kind \in {"attempt", "outer"}
        PROVE  <<c, kind>> \in HeldIn(t) <=> <<c, kind>> \in H \cup W
    <3>1. <<c, kind>> \in HeldIn(t) <=> Uses(t.calls[c], kind)
      BY DEF HeldIn
    <3>2. <<c, kind>> \in H <=> Uses(s.calls[c], kind)
      BY DEF HeldIn
    <3>3. <<c, kind>> \in W <=> kind = "attempt" /\ \E i \in 1..n : s.queue[i] = c
      OBVIOUS
    <3>4. CASE \E i \in 1..n : s.queue[i] = c
      <4>1. ~Occupies(s.calls[c]) /\ Occupies(t.calls[c])
        BY <1>3, <2>1, <3>4 DEF Occupies
      <4> QED
        BY <2>1, <3>1, <3>2, <3>3, <3>4, <4>1 DEF Uses
    <3>5. CASE ~\E i \in 1..n : s.queue[i] = c
      BY <2>2, <3>1, <3>2, <3>3, <3>5
    <3> QED
      BY <3>4, <3>5
  <2>4. HeldIn(t) \subseteq Calls \X {"attempt", "outer"} /\ H \subseteq Calls \X {"attempt", "outer"}
    BY DEF HeldIn
  <2>5. W \subseteq Calls \X {"attempt", "outer"}
    BY <1>3
  <2> HIDE DEF H, W
  <2>6. ASSUME NEW h \in Calls \X {"attempt", "outer"} PROVE h \in HeldIn(t) <=> h \in H \cup W
    <3>1. PICK c \in Calls, kind \in {"attempt", "outer"} : h = <<c, kind>>
      OBVIOUS
    <3> QED
      BY <2>3, <3>1
  <2> QED
    BY <2>4, <2>5, <2>6
<1> HIDE DEF F, W, H
<1>7. IsFiniteSet(H) /\ Cardinality(H) \in Nat /\ s.free + Cardinality(H) = Slots
  BY FS_CardinalityType DEF Conserved, Adds, H
<1>8. IsFiniteSet(HeldIn(t)) /\ Cardinality(HeldIn(t)) = Cardinality(H) + n
  <2>1. Cardinality(H \cap W) = 0
    BY <1>5, FS_EmptySet, Zenon
  <2>2. IsFiniteSet(H \cup W) /\ Cardinality(H \cup W) = Cardinality(H) + Cardinality(W) - Cardinality(H \cap W)
    BY <1>4, <1>7, FS_Union
  <2> QED
    BY <1>4, <1>6, <1>7, <2>1, <2>2
<1>9. t.queue # <<>> => t.free = 0
  BY <1>1, <1>2
<1> QED
  BY <1>1, <1>2, <1>7, <1>8, <1>9 DEF Conserved, Adds, NoneIdle, t

(* A call that leaves, or goes to wait, sleep or pass the limiter, has     *)
(* ended its attempt.  The state it leaves may differ in the episode.      *)
LEMMA LeaveSettles ==
  ASSUME NEW s, Good(s), NEW c \in Calls
  PROVE  Settled(s, Leave(s, c), c)
<1>1. s.calls[c] \in CallType
  BY DEF Good, StateType, Budgeted
<1>2. CASE s.calls[c].outer
  <2> DEFINE r == [s.calls[c] EXCEPT !.pc = "closing", !.outer = FALSE,
                                     !.resolved = TRUE, !.next = "leave"]
  <2>1. Occupies(r) /\ ~r.outer
    BY <1>1 DEF CallType, Occupies
  <2>2. Leave(s, c) = PutC(s, c, r)
    BY <1>2 DEF Leave, PutC
  <2> HIDE DEF r
  <2>3. QED
    BY <1>2, <2>1, <2>2, PutFields DEF Settled, Alike
<1>3. CASE ~s.calls[c].outer
  <2> DEFINE r == [s.calls[c] EXCEPT !.pc = "done"]
  <2>1. ~Occupies(r) /\ r.outer = s.calls[c].outer
    BY <1>1 DEF CallType, Occupies
  <2>2. Leave(s, c) = PutC(s, c, r)
    BY <1>3 DEF Leave, At, PutC
  <2> HIDE DEF r
  <2>3. QED
    BY <2>1, <2>2, PutFields DEF Settled, Alike
<1>4. QED
  BY <1>2, <1>3

\* As far as its slots go, t is s.
SameSlots(s, t) ==
  /\ t \in StateType
  /\ t.calls = s.calls /\ t.free = s.free /\ t.queue = s.queue

(* A call that is given a permit, or is refused it, ended its attempt.     *)
LEMMA PermitSettles ==
  ASSUME NEW s, NEW t, SameSlots(s, t), NEW c \in Calls,
         NEW place \in {"waiting", "backoff", "limiter"}, NEW probe, NEW gen
  PROVE  Settled(s, Permit(t, c, place, probe, gen), c)
<1> DEFINE q == [probe |-> probe, gen |-> gen]
           r == [t.calls[c] EXCEPT !.pc = place, !.permit = q]
           u == Permit(t, c, place, probe, gen)
<1>1. t.calls[c] \in CallType
  BY DEF SameSlots, StateType, Budgeted
<1>2. u = [t EXCEPT !.calls[c] = r]
  BY DEF Permit
<1>3. ~Occupies(r) /\ r.outer = s.calls[c].outer
  BY <1>1 DEF SameSlots, CallType, Occupies
<1> HIDE DEF r, u
<1>4. /\ u.free = s.free /\ u.queue = s.queue /\ u.calls[c] = r
      /\ \A d \in Calls : d # c => u.calls[d] = s.calls[d]
  BY <1>2 DEF SameSlots, StateType
<1>5. QED
  BY <1>3, <1>4 DEF Settled, Alike, u

(* So has one that becomes the leader.                                     *)
LEMMA LeadSettles ==
  ASSUME NEW s, NEW t, SameSlots(s, t), NEW c \in Calls, t.episode \in EpisodeType
  PROVE  Settled(s, Lead(t, c), c)
<1> DEFINE e == IF t.episode.leader = c THEN t.episode
                ELSE [t.episode EXCEPT !.leader = c, !.waiters = @ \ {c}]
           u == [t EXCEPT !.episode = e]
           v == [u EXCEPT !.episode.probing = TRUE]
<1>1. e \in EpisodeType
  BY DEF EpisodeType
<1>2. Lead(t, c) = CASE e.probing -> Permit(u, c, "waiting", FALSE, e.gen)
                     [] ~e.probing /\ e.ready -> Permit(v, c, "limiter", TRUE, e.gen)
                     [] OTHER -> Permit(u, c, "backoff", FALSE, e.gen)
  BY DEF Lead
<1> HIDE DEF e
<1>3. SameSlots(s, u)
  BY <1>1 DEF SameSlots, StateType
<1>4. SameSlots(s, v)
  BY <1>1 DEF SameSlots, StateType, EpisodeType
<1> HIDE DEF u, v
<1>5. /\ Settled(s, Permit(u, c, "waiting", FALSE, e.gen), c)
      /\ Settled(s, Permit(v, c, "limiter", TRUE, e.gen), c)
      /\ Settled(s, Permit(u, c, "backoff", FALSE, e.gen), c)
  BY <1>3, <1>4, PermitSettles
<1>6. e.probing \in BOOLEAN /\ e.ready \in BOOLEAN
  BY <1>1 DEF EpisodeType
<1>7. Lead(t, c) \in {Permit(u, c, "waiting", FALSE, e.gen),
                      Permit(v, c, "limiter", TRUE, e.gen),
                      Permit(u, c, "backoff", FALSE, e.gen)}
  BY <1>2, <1>6
<1>8. QED
  BY <1>5, <1>7

(* So has one that comes to the gate.                                      *)
LEMMA GateSettles ==
  ASSUME NEW s, Good(s), NEW c \in Calls
  PROVE  Settled(s, Gate(s, c), c)
<1> DEFINE e == s.episode
<1>1. CASE s.calls[c].failed \/ (e # None /\ e.phase = "cooling")
  BY <1>1, LeaveSettles DEF Gate, PassGate
<1>2. CASE ~s.calls[c].failed /\ e = None
  <2>1. Gate(s, c) = Permit(s, c, "limiter", FALSE, 0)
    BY <1>2 DEF Gate, PassGate
  <2>2. QED
    BY <2>1, PermitSettles DEF Good, SameSlots
<1>3. CASE ~s.calls[c].failed /\ e # None /\ e.phase # "cooling"
  <2>1. e \in EpisodeType
    BY <1>3 DEF Good, StateType
  <2>2. CASE e.phase = "cooled"
    <3>1. Gate(s, c) = Lead(StartEpisode(s, c, TRUE), c)
      BY <1>3, <2>2 DEF Gate, PassGate
    <3>2. c \in Calls \cup {None} /\ TRUE \in BOOLEAN
      OBVIOUS
    <3>3. SameSlots(s, StartEpisode(s, c, TRUE)) /\ StartEpisode(s, c, TRUE).episode \in EpisodeType
      BY Zenon, <3>2, StartEpisodeFields DEF SameSlots, Good
    <3>4. QED
      BY <3>1, <3>3, LeadSettles
  <2>3. CASE e.phase # "cooled" /\ e.leader \in {c, None}
    <3>1. Gate(s, c) = Lead(s, c)
      BY <1>3, <2>3 DEF Gate, PassGate
    <3>2. QED
      BY <2>1, <3>1, LeadSettles DEF SameSlots, Good
  <2>4. CASE e.phase # "cooled" /\ e.leader \notin {c, None}
    <3> DEFINE t == [s EXCEPT !.episode.waiters = @ \cup {c}]
    <3>1. Gate(s, c) = Permit(t, c, "waiting", FALSE, e.gen)
      BY <1>3, <2>4 DEF Gate, PassGate
    <3>2. SameSlots(s, t)
      BY <2>1 DEF SameSlots, Good, StateType, EpisodeType
    <3> HIDE DEF t
    <3>3. QED
      BY <3>1, <3>2, PermitSettles
  <2>5. QED
    BY <2>2, <2>3, <2>4
<1>4. QED
  BY <1>1, <1>2, <1>3

(* So has one that goes on to its next place.                              *)
LEMMA ProceedSettles ==
  ASSUME NEW s, Good(s), NEW c \in Calls, NEW next
  PROVE  Settled(s, Proceed(s, c, next), c)
<1>1. CASE next # "leave" /\ next = "retry" /\ c \in Codex
  <2> DEFINE r == [s.calls[c] EXCEPT !.pc = "access"]
  <2>1. s.calls[c] \in CallType
    BY DEF Good, StateType, Budgeted
  <2>2. ~Occupies(r) /\ r.outer = s.calls[c].outer
    BY <2>1 DEF CallType, Occupies
  <2>3. Proceed(s, c, next) = PutC(s, c, r)
    BY <1>1 DEF Proceed, At, PutC
  <2> HIDE DEF r
  <2>4. QED
    BY <2>2, <2>3, PutFields DEF Settled, Alike
<1>2. CASE next = "leave"
  BY <1>2, LeaveSettles DEF Proceed
<1>3. CASE next # "leave" /\ ~(next = "retry" /\ c \in Codex)
  BY <1>3, GateSettles DEF Proceed
<1>4. QED
  BY <1>1, <1>2, <1>3

(* The end of an attempt, with its slot given back or kept to be closed.   *)
LEMMA AttemptEnds ==
  ASSUME NEW s, Good(s), Conserved(s), NEW c \in Calls, Occupies(s.calls[c]), NEW next
  PROVE  /\ Conserved(Leave(ReleaseSlot(s), c))
         /\ Conserved(Gate(ReleaseSlot(s), c))
         /\ Conserved(Proceed(ReleaseSlot(s), c, next))
<1>1. Good(ReleaseSlot(s)) /\ Cleared(ReleaseSlot(s), c)
  BY ReleaseSlotKeeps, ReleaseSlotClears
<1>2. QED
  BY <1>1, LeaveSettles, GateSettles, ProceedSettles, SettledCounts

(* What follows an answer keeps the count.                                 *)
LEMMA AfterAnswerConserves ==
  ASSUME NEW s, Good(s), Conserved(s), NEW c \in Calls,
         s.calls[c].pc \in {"upstream", "streaming"}, NEW next \in {"retry", "leave"},
         next # "leave" => MayRetry(s, c)
  PROVE  Conserved(AfterAnswer(s, c, next))
<1>1. s.calls[c] \in Budgeted
  BY DEF Good, StateType
<1>2. CASE c \in Codex \/ s.calls[c].pc = "streaming"
  <2> DEFINE r == [s.calls[c] EXCEPT !.pc = "closing", !.resolved = TRUE, !.next = next]
  <2>1. Alike(s.calls[c], r)
    BY <1>1 DEF Alike, Occupies, Budgeted, CallType
  <2>2. AfterAnswer(s, c, next) = PutC(s, c, r)
    BY <1>2 DEF AfterAnswer, PutC
  <2> HIDE DEF r
  <2>3. Level(s, PutC(s, c, r))
    BY <2>1, PutFields DEF Level, Alike
  <2>4. QED
    BY <2>2, <2>3, LevelCounts
<1>3. CASE ~(c \in Codex \/ s.calls[c].pc = "streaming")
  <2> DEFINE r == [s.calls[c] EXCEPT !.resolved = TRUE]
             t == PutC(s, c, r)
  <2>1. /\ r \in Budgeted /\ r.pc = s.calls[c].pc /\ r.outer = s.calls[c].outer
    BY <1>1 DEF Budgeted, Coming, CallType
  <2>2. AfterAnswer(s, c, next) = Proceed(ReleaseSlot(t), c, next)
    BY <1>3 DEF AfterAnswer, PutC
  <2> HIDE DEF r
  <2>3. Good(t)
    BY <2>1, PutCall
  <2>4. Level(s, t) /\ Occupies(t.calls[c])
    BY <2>1, PutFields DEF Level, Alike, Occupies
  <2> HIDE DEF t
  <2>5. QED
    BY <2>2, <2>3, <2>4, LevelCounts, AttemptEnds
<1>4. QED
  BY <1>2, <1>3

-----------------------------------------------------------------------------
(* The count over the actions. *)

\* An action leaves the slots accounted for.
Balances == \E t : Become(t) /\ Conserved(t)

(* Steps on the way to the gate, and from one that holds no slot.          *)
LEMMA ToTheGateBalances ==
  ASSUME Good(Now), Conserved(Now), NEW c \in Calls,
         Start(c) \/ AccessGranted(c) \/ AccessEnds(c) \/ Recheck(c) \/ BackoffEnds(c)
  PROVE  Balances
<1>1. Now.calls = calls /\ Now.episode = episode
  BY DEF Now
<1>2. ~Occupies(calls[c])
  BY DEF Start, AccessGranted, AccessEnds, Recheck, BackoffEnds, Occupies
<1>3. Cleared(Now, c)
  BY <1>1, <1>2, IdleIsCleared
<1>4. \A next : Conserved(Proceed(Now, c, next))
  BY <1>3, ProceedSettles, SettledCounts
<1>5. Conserved(Gate(Now, c))
  BY <1>3, GateSettles, SettledCounts
<1>6. CASE Start(c)
  BY <1>4, <1>6 DEF Balances, Start
<1>7. CASE AccessGranted(c) \/ Recheck(c)
  BY <1>5, <1>7 DEF Balances, AccessGranted, Recheck
<1>8. CASE AccessEnds(c)
  <2> DEFINE r == [calls[c] EXCEPT !.pc = "done"]
  <2>1. calls[c] \in CallType
    BY <1>1 DEF Good, StateType, Budgeted
  <2>2. ~Occupies(r) /\ r.outer = calls[c].outer
    BY <2>1 DEF CallType, Occupies
  <2>3. At(Now, c, "done") = PutC(Now, c, r)
    BY <1>1 DEF At, PutC
  <2> HIDE DEF r
  <2>4. Settled(Now, At(Now, c, "done"), c)
    BY <1>1, <2>2, <2>3, PutFields DEF Settled, Alike
  <2>5. QED
    BY <1>3, <1>8, <2>4, SettledCounts DEF Balances, AccessEnds
<1>9. CASE BackoffEnds(c)
  <2> DEFINE t == [Now EXCEPT !.episode.probing = TRUE]
  <2>1. CASE /\ episode # None /\ episode.gen = calls[c].permit.gen
             /\ episode.phase = "open" /\ episode.leader = c /\ ~episode.probing
    <3>1. episode \in EpisodeType
      BY <1>1, <2>1 DEF Good, StateType
    <3>2. SameSlots(Now, t)
      BY <1>1, <3>1 DEF SameSlots, Good, StateType, EpisodeType
    <3>3. Become(Permit(t, c, "limiter", TRUE, episode.gen))
      BY <1>9, <2>1 DEF BackoffEnds
    <3> HIDE DEF t
    <3>4. Settled(Now, Permit(t, c, "limiter", TRUE, episode.gen), c)
      BY <3>2, PermitSettles
    <3>5. QED
      BY <1>3, <3>3, <3>4, SettledCounts DEF Balances
  <2>2. QED
    BY <1>5, <1>9, <2>1 DEF Balances, BackoffEnds
<1>10. QED
  BY <1>6, <1>7, <1>8, <1>9

(* A call that claims its slot keeps it.                                   *)
LEMMA ClaimCounts ==
  ASSUME NEW s, Good(s), Conserved(s), s.queue # <<>> => s.free = 0,
         NEW c \in Calls, Occupies(s.calls[c])
  PROVE  Conserved(Claim(s, c))
<1> DEFINE r == [s.calls[c] EXCEPT !.pc = "upstream", !.resolved = FALSE,
                                   !.attempts = s.calls[c].attempts + 1]
           t == PutC(s, c, r)
<1>1. s.calls[c] \in CallType
  BY DEF Good, StateType, Budgeted
<1>2. Occupies(r) /\ r.outer = s.calls[c].outer
  BY <1>1 DEF Occupies, CallType
<1>3. Claim(s, c) = PutC(s, c, r)
  BY DEF Claim, PutC
<1> HIDE DEF r
<1>4. /\ t.free = s.free /\ t.queue = s.queue /\ t.calls[c] = r
      /\ \A d \in Calls : d # c => t.calls[d] = s.calls[d]
  BY PutFields
<1> HIDE DEF t
<1>5. HeldIn(t) = HeldIn(s)
  BY <1>2, <1>4 DEF HeldIn, Uses
<1>6. QED
  BY <1>3, <1>4, <1>5 DEF Conserved, Adds, NoneIdle, t

(* A slot is taken when one is free, or waited for when none is, or when   *)
(* another call has still to take its own.                                 *)
LEMMA LimiterBalances ==
  ASSUME Good(Now), Conserved(Now), NEW c \in Calls, LimiterAdmits(c)
  PROVE  Balances
<1>1. /\ Now.calls = calls /\ Now.episode = episode /\ Now.free = free /\ Now.queue = queue
      /\ calls[c].pc = "limiter" /\ ~Occupies(calls[c])
  BY DEF Now, LimiterAdmits, Occupies
<1>2. calls[c] \in CallType /\ calls \in [Calls -> Budgeted] /\ queue \in Seq(Calls) /\ free \in Nat
  BY <1>1 DEF Good, StateType, Budgeted
<1>3. CASE ~PermitIsCurrent(Now, c)
  <2>1. Level(Now, Abandoned(Now, c)) /\ Good(Abandoned(Now, c))
    BY AbandonedLevel, AbandonedKeeps
  <2>2. Cleared(Abandoned(Now, c), c)
    BY <1>1, <2>1, IdleIsCleared, LevelCounts
  <2>3. Conserved(Gate(Abandoned(Now, c), c))
    BY <2>1, <2>2, GateSettles, SettledCounts
  <2>4. QED
    BY <1>3, <2>3 DEF Balances, LimiterAdmits
<1>4. CASE PermitIsCurrent(Now, c) /\ free > 0 /\ queue = <<>> /\ ~Resuming(Now)
  <2> DEFINE s == [Now EXCEPT !.free = @ - 1]
             r == [calls[c] EXCEPT !.pc = "upstream", !.resolved = FALSE,
                                   !.attempts = calls[c].attempts + 1]
             t == Claim(s, c)
             a == <<c, "attempt">>
             H == HeldIn(Now)
  <2>1. Become(t)
    BY <1>4 DEF LimiterAdmits
  <2>2. t.free = free - 1 /\ t.queue = queue /\ t.calls = [calls EXCEPT ![c] = r]
    BY DEF Claim, Now
  <2>3. Occupies(r) /\ r.outer = calls[c].outer
    BY <1>2 DEF CallType, Occupies
  <2> HIDE DEF r, t
  <2>4. HeldIn(t) = H \cup {a}
    BY <1>1, <1>2, <2>2, <2>3 DEF HeldIn, Uses
  <2>5. a \notin H /\ IsFiniteSet(H)
    BY <1>1 DEF HeldIn, Uses, Conserved, Adds
  <2> HIDE DEF a, H
  <2>6. /\ IsFiniteSet(HeldIn(t)) /\ Cardinality(HeldIn(t)) = Cardinality(H) + 1
        /\ Cardinality(H) \in Nat
    BY <2>4, <2>5, FS_AddElement, FS_CardinalityType
  <2>7. free + Cardinality(H) = Slots
    BY <1>1 DEF Conserved, Adds, H
  <2>8. Conserved(t)
    BY <1>2, <1>4, <2>2, <2>6, <2>7 DEF Conserved, Adds, NoneIdle
  <2>9. QED
    BY <2>1, <2>8 DEF Balances
<1>5. CASE PermitIsCurrent(Now, c) /\ ~(free > 0 /\ queue = <<>> /\ ~Resuming(Now))
  <2> DEFINE s == At(Now, c, "queued")
             t == [s EXCEPT !.queue = Append(@, c)]
             r == [calls[c] EXCEPT !.pc = "queued"]
  <2>1. Become(t)
    BY <1>5 DEF LimiterAdmits
  <2>2. t.free = free /\ t.calls = [calls EXCEPT ![c] = r]
    BY DEF At, Now
  <2>3. ~Occupies(r) /\ r.outer = calls[c].outer
    BY <1>2 DEF CallType, Occupies
  <2> HIDE DEF r, s, t
  <2>4. HeldIn(t) = HeldIn(Now)
    BY <1>1, <1>2, <2>2, <2>3 DEF HeldIn, Uses
  <2>5. free = 0 \/ \E d \in Calls : calls[d].pc = "granted"
    BY <1>1, <1>2, <1>5 DEF Conserved, NoneIdle, Resuming
  <2>6. \A d \in Calls : calls[d].pc = "granted" => t.calls[d].pc = "granted"
    BY <1>1, <1>2, <2>2
  <2>8. Conserved(t)
    BY <1>1, <2>2, <2>4, <2>5, <2>6 DEF Conserved, Adds, NoneIdle
  <2>7. QED
    BY <2>1, <2>8 DEF Balances
<1>6. QED
  BY <1>3, <1>4, <1>5

(* The slot of a stale permit is given back.                               *)
LEMMA SlotResumesBalances ==
  ASSUME Good(Now), Conserved(Now), NEW c \in Calls, SlotResumes(c)
  PROVE  Balances
<1>1. Now.calls = calls /\ calls[c].pc = "granted" /\ Occupies(calls[c])
  BY DEF Now, SlotResumes, Occupies
<1> DEFINE w == Woken(Now)
<1>4. Good(w) /\ Conserved(w) /\ (w.queue # <<>> => w.free = 0) /\ Occupies(w.calls[c])
  BY <1>1, WokenKeeps, WokenCounts
<1>2. CASE PermitIsCurrent(Now, c)
  BY <1>2, <1>4, ClaimCounts DEF Balances, SlotResumes
<1>3. CASE ~PermitIsCurrent(Now, c)
  <2>0. Become(Gate(Abandoned(ReleaseSlot(w), c), c))
    BY <1>3 DEF SlotResumes
  <2> HIDE DEF w
  <2>1. Good(ReleaseSlot(w)) /\ Cleared(ReleaseSlot(w), c)
    BY <1>4, ReleaseSlotKeeps, ReleaseSlotClears
  <2>2. Good(Abandoned(ReleaseSlot(w), c)) /\ Cleared(Abandoned(ReleaseSlot(w), c), c)
    BY <2>1, AbandonedLevel, AbandonedKeeps, LevelCounts
  <2>3. Conserved(Gate(Abandoned(ReleaseSlot(w), c), c))
    BY <2>2, GateSettles, SettledCounts
  <2>4. QED
    BY <2>0, <2>3 DEF Balances
<1>5. QED
  BY <1>2, <1>3

(* Whatever an answer does to the episode, the attempt ends as above.      *)
LEMMA AnswerBalances ==
  ASSUME Good(Now), Conserved(Now), NEW c \in Calls,
         Returns(c) \/ Corrects(c) \/ Fails(c) \/ StreamEnds(c) \/ StreamCut(c)
  PROVE  Balances
<1>1. Now.calls = calls /\ calls[c].pc \in {"upstream", "streaming"}
  BY DEF Now, Returns, Corrects, Fails, StreamEnds, StreamCut
<1>2. ASSUME NEW u, Keeps(Now, u, c), Level(Now, u), NEW next \in {"retry", "leave"},
             next # "leave" => MayRetry(Now, c)
      PROVE  Conserved(AfterAnswer(u, c, next))
  <2>1. /\ Good(u) /\ u.calls[c].pc \in {"upstream", "streaming"}
        /\ next # "leave" => MayRetry(u, c)
    BY <1>1, <1>2 DEF Keeps, MayRetry
  <2>2. QED
    BY <1>2, <2>1, LevelCounts, AfterAnswerConserves
<1>3. /\ Keeps(Now, Now, c) /\ Keeps(Now, Succeeded(Now, c), c)
      /\ Keeps(Now, Corrected(Now, c), c) /\ Keeps(Now, Rejected(Now, c), c)
      /\ Keeps(Now, Failed(Now, c), c)
  BY <1>1, SucceededKeeps, CorrectedKeeps, RejectedKeeps, FailedKeeps DEF Keeps
<1>4. /\ Level(Now, Now) /\ Level(Now, Succeeded(Now, c))
      /\ Level(Now, Corrected(Now, c)) /\ Level(Now, Rejected(Now, c))
      /\ Level(Now, Failed(Now, c))
  BY SameLevel, SucceededLevel, CorrectedLevel, RejectedLevel, FailedLevel
<1>5. \A next \in Nexts(c) : next \in {"retry", "leave"} /\ (next # "leave" => MayRetry(Now, c))
  BY DEF Nexts
<1>6. CASE Returns(c)
  BY <1>2, <1>3, <1>4, <1>6 DEF Balances, Returns
<1>7. CASE Corrects(c)
  BY <1>2, <1>3, <1>4, <1>7 DEF Balances, Corrects
<1>8. CASE Fails(c)
  <2>1. CASE \E next \in IF calls[c].outer /\ calls[c].pc = "upstream"
                         THEN Nexts(c) ELSE {"leave"} :
               Become(AfterAnswer(Rejected(Now, c), c, next))
    <3>1. PICK next \in {"retry", "leave"} :
            /\ next # "leave" => MayRetry(Now, c)
            /\ Become(AfterAnswer(Rejected(Now, c), c, next))
      BY <1>5, <2>1
    <3>2. Conserved(AfterAnswer(Rejected(Now, c), c, next))
      BY <1>2, <1>3, <1>4, <3>1
    <3>3. QED
      BY <3>1, <3>2 DEF Balances
  <2>2. CASE Become(AfterAnswer(Failed(Now, c), c,
                                IF MayRetry(Now, c) THEN "retry" ELSE "leave"))
    <3>1. PICK next \in {"retry", "leave"} :
            /\ next # "leave" => MayRetry(Now, c)
            /\ Become(AfterAnswer(Failed(Now, c), c, next))
      BY <2>2
    <3>2. Conserved(AfterAnswer(Failed(Now, c), c, next))
      BY <1>2, <1>3, <1>4, <3>1
    <3>3. QED
      BY <3>1, <3>2 DEF Balances
  <2>3. QED
    BY <1>8, <2>1, <2>2 DEF Fails
<1>9. CASE StreamEnds(c) \/ StreamCut(c)
  <2>1. PICK next \in {"retry", "leave"} :
          /\ next # "leave" => MayRetry(Now, c)
          /\ Become(AfterAnswer(Now, c, next))
    BY <1>5, <1>9 DEF StreamEnds, StreamCut
  <2>2. Conserved(AfterAnswer(Now, c, next))
    BY <1>2, <1>3, <1>4, <2>1
  <2>3. QED
    BY <2>1, <2>2 DEF Balances
<1>10. QED
  BY <1>6, <1>7, <1>8, <1>9

(* A stream is opened, accepted, or recovered: the recovery takes a second *)
(* slot later and keeps the first one.                                     *)
LEMMA StreamBalances ==
  ASSUME Good(Now), Conserved(Now), NEW c \in Calls,
         StreamOpens(c) \/ FirstEvent(c) \/ RecoversMidstream(c)
  PROVE  Balances
<1>1. Now.calls = calls /\ calls[c].pc \in {"upstream", "streaming"}
  BY DEF Now, StreamOpens, FirstEvent, RecoversMidstream
<1>2. calls[c] \in Budgeted /\ Occupies(calls[c])
  BY <1>1 DEF Good, StateType, Occupies
<1>3. CASE StreamOpens(c)
  <2> DEFINE r == [calls[c] EXCEPT !.pc = "streaming"]
  <2>1. Alike(calls[c], r)
    BY <1>1, <1>2 DEF Alike, Occupies, Budgeted, CallType
  <2>2. At(Now, c, "streaming") = PutC(Now, c, r)
    BY <1>1 DEF At, PutC
  <2> HIDE DEF r
  <2>3. Level(Now, PutC(Now, c, r))
    BY <1>1, <2>1, PutFields DEF Level, Alike
  <2>4. QED
    BY <1>3, <2>2, <2>3, LevelCounts DEF Balances, StreamOpens
<1>4. CASE FirstEvent(c)
  <2> DEFINE u == Succeeded(Now, c)
             r == [u.calls[c] EXCEPT !.resolved = TRUE]
  <2>1. Good(u) /\ Level(Now, u)
    BY <1>1, <1>4, SucceededKeeps, SucceededLevel DEF Keeps, FirstEvent
  <2> HIDE DEF u
  <2>2. u.calls[c] \in CallType
    BY <2>1 DEF Good, StateType, Budgeted
  <2>3. Alike(u.calls[c], r)
    BY <2>2 DEF Alike, Occupies, CallType
  <2>4. [u EXCEPT !.calls[c].resolved = TRUE] = PutC(u, c, r)
    BY DEF PutC
  <2> HIDE DEF r
  <2>5. Level(u, PutC(u, c, r))
    BY <2>1, <2>3, PutFields DEF Level, Alike
  <2>6. Conserved(PutC(u, c, r))
    BY <2>1, <2>5, LevelCounts
  <2>7. Become(PutC(u, c, r))
    BY <1>4, <2>4 DEF FirstEvent, u
  <2>8. QED
    BY <2>6, <2>7 DEF Balances
<1>5. CASE RecoversMidstream(c)
  <2> DEFINE r == [calls[c] EXCEPT !.outer = TRUE]
             t == PutC(Now, c, r)
             a == <<c, "attempt">>
             o == <<c, "outer">>
             H == HeldIn(Now)
  <2>1. ~calls[c].outer /\ calls[c].pc = "streaming"
    BY <1>5 DEF RecoversMidstream
  <2>2. r \in Budgeted /\ r.pc = "streaming" /\ r.resolved = calls[c].resolved /\ r.outer
    BY <1>2, <2>1 DEF Budgeted, Coming, CallType
  <2>3. Become(Gate(t, c))
    BY <1>5 DEF RecoversMidstream, PutC, Now
  <2> HIDE DEF r
  <2>4. Good(t) /\ t.calls[c] = r
    BY <1>1, <2>1, <2>2, PutKeeps
  <2>5. /\ t.free = Now.free /\ t.queue = Now.queue
        /\ \A d \in Calls : d # c => t.calls[d] = calls[d]
    BY <1>1, PutFields
  <2> HIDE DEF t
  <2>6. a \in H /\ o \notin H /\ a # o
    BY <1>1, <1>2, <2>1 DEF HeldIn, Uses
  <2>7. HeldIn(t) \ {a} = (H \ {a}) \cup {o}
    BY <1>1, <2>1, <2>2, <2>4, <2>5 DEF HeldIn, Uses, Occupies
  <2>8. IsFiniteSet(H)
    BY DEF Conserved, Adds
  <2> HIDE DEF a, o, H
  <2>9. /\ IsFiniteSet(HeldIn(t) \ {a})
        /\ Cardinality(HeldIn(t) \ {a}) = Cardinality(H)
    BY <2>6, <2>7, <2>8, SwapCounts
  <2>13. NoneIdle(t, Calls \ {c})
    BY <1>1, <2>1, <2>5 DEF Conserved, NoneIdle
  <2>10. Cleared(t, c)
    BY <2>5, <2>9, <2>13 DEF Cleared, Conserved, Adds, a, H
  <2>11. Conserved(Gate(t, c))
    BY <2>4, <2>10, GateSettles, SettledCounts
  <2>12. QED
    BY <2>3, <2>11 DEF Balances
<1>6. QED
  BY <1>3, <1>4, <1>5

(* An attempt is closed: its slot is given back, once, by the close or, if *)
(* it is unanswered, after the task that gives its probe back.             *)
LEMMA ClosingBalances ==
  ASSUME Good(Now), Conserved(Now), NEW c \in Calls,
         Closed(c) \/ AbandonRuns(c) \/ AbandonedLeaves(c)
         \/ CancelUpstream(c) \/ CancelStreaming(c)
  PROVE  Balances
<1>1. Now.calls = calls /\ calls[c] \in Budgeted
  BY DEF Now, Good, StateType
<1>2. CASE Closed(c) /\ calls[c].resolved
  <2>1. Occupies(calls[c])
    BY <1>2 DEF Closed, Occupies
  <2>2. Conserved(Proceed(ReleaseSlot(Now), c, calls[c].next))
    BY <1>1, <2>1, AttemptEnds
  <2>3. QED
    BY <1>2, <2>2 DEF Balances, Closed
<1>3. CASE AbandonedLeaves(c)
  <2>1. Occupies(calls[c])
    BY <1>3 DEF AbandonedLeaves, Occupies
  <2>2. Conserved(Leave(ReleaseSlot(Now), c))
    BY <1>1, <2>1, AttemptEnds
  <2>3. QED
    BY <1>3, <2>2 DEF Balances, AbandonedLeaves
<1>4. CASE AbandonRuns(c)
  <2> DEFINE r == [calls[c] EXCEPT !.pending = FALSE]
             t == PutC(Now, c, r)
  <2>1. r \in Budgeted /\ r.pc = calls[c].pc /\ r.resolved = calls[c].resolved
        /\ r.outer = calls[c].outer
    BY <1>1 DEF Budgeted, Coming, CallType
  <2>2. Become(Abandoned(t, c))
    BY <1>4 DEF AbandonRuns, PutC, Now
  <2> HIDE DEF r
  <2>3. Good(t) /\ Level(Now, t)
    BY <1>1, <2>1, PutKeeps, PutFields DEF Level, Alike, Occupies
  <2> HIDE DEF t
  <2>4. Conserved(Abandoned(t, c))
    BY <2>3, AbandonedLevel, LevelCounts
  <2>5. QED
    BY <2>2, <2>4 DEF Balances
<1>5. CASE (Closed(c) /\ ~calls[c].resolved) \/ CancelUpstream(c)
  <2> DEFINE r == [calls[c] EXCEPT !.pc = "abandoning", !.pending = calls[c].permit.probe]
             t == PutC(Now, c, r)
  <2>1. Alike(calls[c], r)
    BY <1>1, <1>5 DEF Alike, Occupies, Budgeted, CallType, Closed, CancelUpstream
  <2>2. t = [At(Now, c, "abandoning") EXCEPT !.calls[c].pending = calls[c].permit.probe]
    BY <1>1 DEF At, PutC, Now, Good, StateType, Budgeted, CallType
  <2>3. Become(t)
    BY <1>5, <2>2 DEF Closed, CancelUpstream
  <2> HIDE DEF r
  <2>4. Level(Now, t)
    BY <1>1, <2>1, PutFields DEF Level, Alike
  <2>5. QED
    BY <2>3, <2>4, LevelCounts DEF Balances
<1>6. CASE CancelStreaming(c)
  <2> DEFINE r == [calls[c] EXCEPT !.pc = "closing", !.next = "leave"]
             t == PutC(Now, c, r)
  <2>1. Alike(calls[c], r)
    BY <1>1, <1>6 DEF Alike, Occupies, Budgeted, CallType, CancelStreaming
  <2>2. t = [At(Now, c, "closing") EXCEPT !.calls[c].next = "leave"]
    BY <1>1 DEF At, PutC, Now, Good, StateType, Budgeted, CallType
  <2>3. Become(t)
    BY <1>6, <2>2 DEF CancelStreaming
  <2> HIDE DEF r
  <2>4. Level(Now, t)
    BY <1>1, <2>1, PutFields DEF Level, Alike
  <2>5. QED
    BY <2>3, <2>4, LevelCounts DEF Balances
<1>7. QED
  BY <1>2, <1>3, <1>4, <1>5, <1>6

(* A call that leaves the queue held no slot of the attempt it waited for. *)
LEMMA LeaveQueueClears ==
  ASSUME NEW s, Good(s), Conserved(s), NEW c \in Calls, s.calls[c].pc = "queued"
  PROVE  Conserved(LeaveQueue(s, c)) /\ ~Occupies(LeaveQueue(s, c).calls[c])
<1> DEFINE r == [s.calls[c] EXCEPT !.pc = "limiter"]
           t == LeaveQueue(s, c)
<1>1. s.calls[c] \in CallType /\ s.queue # <<>>
  BY DEF Good, StateType, Budgeted, QueueOK
<1>2. t.calls = [s.calls EXCEPT ![c] = r] /\ t.free = s.free
  BY DEF LeaveQueue, At, Good, StateType
<1>3. ~Occupies(r) /\ r.outer = s.calls[c].outer /\ ~Occupies(s.calls[c])
  BY <1>1 DEF CallType, Occupies
<1> HIDE DEF r, t
<1>4. HeldIn(t) = HeldIn(s) /\ ~Occupies(t.calls[c])
  BY <1>2, <1>3 DEF HeldIn, Uses, Good, StateType
<1>5. \A d \in Calls : s.calls[d].pc = "granted" => t.calls[d].pc = "granted"
  BY <1>2 DEF Good, StateType
<1>6. Conserved(t)
  BY <1>1, <1>2, <1>4, <1>5 DEF Conserved, Adds, NoneIdle
<1>7. QED
  BY <1>4, <1>6 DEF t

(* A cancelled call gives back the slot it was granted, and no other.      *)
LEMMA CancelBalances ==
  ASSUME Good(Now), Conserved(Now), NEW c \in Calls,
         CancelWaiting(c) \/ CancelInBackoff(c) \/ CancelInLimiter(c)
         \/ CancelInQueue(c) \/ CancelGranted(c)
  PROVE  Balances
<1>1. Now.calls = calls /\ Now.episode = episode
  BY DEF Now
<1>2. CASE CancelGranted(c)
  <2>1. Occupies(calls[c])
    BY <1>2 DEF CancelGranted, Occupies
  <2> DEFINE w == Woken(Now)
  <2>2. Good(w) /\ Conserved(w) /\ Occupies(w.calls[c])
    BY <1>1, <1>2, <2>1, WokenKeeps, WokenCounts DEF CancelGranted
  <2>3. Become(Leave(Abandoned(ReleaseSlot(w), c), c))
    BY <1>2 DEF CancelGranted
  <2> HIDE DEF w
  <2>4. Good(ReleaseSlot(w)) /\ Cleared(ReleaseSlot(w), c)
    BY <2>2, ReleaseSlotKeeps, ReleaseSlotClears
  <2>5. Good(Abandoned(ReleaseSlot(w), c)) /\ Cleared(Abandoned(ReleaseSlot(w), c), c)
    BY <2>4, AbandonedLevel, AbandonedKeeps, LevelCounts
  <2>6. Conserved(Leave(Abandoned(ReleaseSlot(w), c), c))
    BY <2>5, LeaveSettles, SettledCounts
  <2>7. QED
    BY <2>3, <2>6 DEF Balances
<1>3. CASE CancelInQueue(c)
  <2> DEFINE u == LeaveQueue(Now, c)
             w == Woken(u)
  <2>1. Good(u) /\ u.calls[c].pc = "limiter" /\ Conserved(u)
    BY <1>1, <1>3, LeaveQueueKeeps, LeaveQueueClears DEF CancelInQueue
  <2>2. Become(Leave(Abandoned(w, c), c))
    BY <1>3 DEF CancelInQueue
  <2> HIDE DEF u
  <2>3. Good(w) /\ Conserved(w) /\ ~Occupies(w.calls[c])
    BY <2>1, WokenKeeps, WokenCounts DEF Occupies
  <2> HIDE DEF w
  <2>4. Good(Abandoned(w, c)) /\ Cleared(Abandoned(w, c), c)
    BY <2>3, IdleIsCleared, AbandonedLevel, AbandonedKeeps, LevelCounts
  <2>5. Conserved(Leave(Abandoned(w, c), c))
    BY <2>4, LeaveSettles, SettledCounts
  <2>6. QED
    BY <2>2, <2>5 DEF Balances
<1>4. CASE CancelInLimiter(c)
  <2>1. Cleared(Now, c)
    BY <1>1, <1>4, IdleIsCleared DEF CancelInLimiter, Occupies
  <2>2. Good(Abandoned(Now, c)) /\ Cleared(Abandoned(Now, c), c)
    BY <2>1, AbandonedLevel, AbandonedKeeps, LevelCounts
  <2>3. Conserved(Leave(Abandoned(Now, c), c))
    BY <2>2, LeaveSettles, SettledCounts
  <2>4. QED
    BY <1>4, <2>3 DEF Balances, CancelInLimiter
<1>5. CASE CancelWaiting(c) \/ CancelInBackoff(c)
  <2>1. Cleared(Now, c)
    BY <1>1, <1>5, IdleIsCleared DEF CancelWaiting, CancelInBackoff, Occupies
  <2>2. ASSUME NEW t, Good(t), Level(Now, t)
        PROVE  Conserved(Leave(t, c))
    BY <2>1, <2>2, LevelCounts, LeaveSettles, SettledCounts
  <2>3. Good(Now) /\ Level(Now, Now)
    BY SameLevel
  <2>4. CASE CancelWaiting(c)
    <3> DEFINE t == [Now EXCEPT !.episode.waiters = @ \ {c}]
    <3>1. CASE episode # None /\ episode.gen = calls[c].permit.gen /\ episode.leader # c
      <4>1. episode \in EpisodeType
        BY <1>1, <3>1 DEF Good, StateType
      <4>2. SameSlots(Now, t)
        BY <1>1, <4>1 DEF SameSlots, Good, StateType, EpisodeType
      <4>3. t.episode # None /\ t.episode.phase = episode.phase
            /\ t.episode.leader = episode.leader /\ t.episode.probing = episode.probing
        <5>1. t.episode = [episode EXCEPT !.waiters = @ \ {c}]
          BY DEF Now
        <5> HIDE DEF t
        <5>2. t.episode \in EpisodeType
          BY <4>1, <5>1 DEF EpisodeType
        <5>3. QED
          BY <4>1, <5>1, <5>2, NoneIsNoEpisode DEF EpisodeType
      <4>4. Become(Leave(t, c))
        BY <2>4, <3>1 DEF CancelWaiting
      <4> HIDE DEF t
      <4>5. Good(t) /\ Level(Now, t)
        BY <1>1, <3>1, <4>2, <4>3 DEF Good, QueueOK, EpisodeOK, SameSlots, Level, Alike
      <4>6. QED
        BY <2>2, <4>4, <4>5 DEF Balances
    <3>2. QED
      BY <2>2, <2>3, <2>4, <3>1 DEF Balances, CancelWaiting
  <2>5. CASE CancelInBackoff(c)
    <3> DEFINE t == [Now EXCEPT !.episode.leader = None]
    <3>1. CASE /\ episode # None /\ episode.gen = calls[c].permit.gen
               /\ episode.leader = c /\ ~episode.probing
      <4>1. episode \in EpisodeType
        BY <1>1, <3>1 DEF Good, StateType
      <4>2. SameSlots(Now, t)
        BY <1>1, <4>1 DEF SameSlots, Good, StateType, EpisodeType
      <4>3. t.episode # None /\ t.episode.leader = None /\ ~t.episode.probing
        BY <1>1, <3>1, <4>1, NoneIsNoEpisode DEF Good, StateType, EpisodeType
      <4>4. Become(Leave(NotifyAll(t), c))
        BY <2>5, <3>1 DEF CancelInBackoff
      <4> HIDE DEF t
      <4>5. Good(t)
        BY <1>1, <3>1, <4>2, <4>3 DEF Good, QueueOK, EpisodeOK, SameSlots
      <4>6. Good(NotifyAll(t)) /\ Level(Now, NotifyAll(t))
        BY <1>1, <4>2, <4>5, NotifyAllKeeps, NotifyAllLevel DEF SameSlots
      <4>7. QED
        BY <2>2, <4>4, <4>6 DEF Balances
    <3>2. QED
      BY <2>2, <2>3, <2>5, <3>1 DEF Balances, CancelInBackoff
  <2>6. QED
    BY <1>5, <2>4, <2>5
<1>6. QED
  BY <1>2, <1>3, <1>4, <1>5

(* Every step keeps the count.                                             *)
LEMMA StepConserves ==
  ASSUME Good(Now), Conserved(Now), [Next]_vars
  PROVE  Conserved(Now)'
<1>1. ASSUME Balances
      PROVE  Conserved(Now)'
  <2>1. PICK t : Become(t) /\ Conserved(t)
    BY <1>1 DEF Balances
  <2>2. HeldIn(Now)' = HeldIn(t) /\ free' = t.free /\ queue' = t.queue
    BY <2>1 DEF Become, HeldIn, Now
  <2>3. QED
    BY <2>1, <2>2 DEF Conserved, Adds, NoneIdle, Become, Now
<1>2. ASSUME NEW c \in Calls, Start(c) \/ Advance(c) \/ AccessEnds(c) \/ Cancel(c)
      PROVE  Conserved(Now)'
  <2>1. Balances
    BY <1>2, ToTheGateBalances, LimiterBalances, SlotResumesBalances, AnswerBalances,
       StreamBalances, ClosingBalances, CancelBalances DEF Advance, Cancel
  <2>2. QED
    BY <1>1, <2>1
<1>3. CASE BackoffElapses \/ CooldownElapses \/ UNCHANGED vars
  <2>1. calls' = calls /\ free' = free /\ queue' = queue
    BY <1>3 DEF BackoffElapses, CooldownElapses, vars
  <2>2. HeldIn(Now)' = HeldIn(Now)
    BY <2>1 DEF HeldIn, Now
  <2>3. QED
    BY <2>1, <2>2 DEF Conserved, Adds, NoneIdle, Now
<1>4. QED
  BY <1>2, <1>3 DEF Next

(* The slots held are the ones the property counts.                        *)
LEMMA HeldIsHeld == HeldIn(Now) = Held
<1>1. ASSUME NEW h \in Calls \X {"attempt", "outer"}
      PROVE  Uses(Now.calls[h[1]], h[2]) <=> h[2] \in Holding(h[1])
  BY DEF Uses, Occupies, Holding, Now
<1>2. QED
  BY <1>1 DEF HeldIn, Held

(* No slot of the provider's semaphore is lost or given back twice, and    *)
(* none is idle while a call waits for one but behind another that has     *)
(* still to take its own (SlotsAreConserved).                              *)
THEOREM SlotsConserved == Spec => []SlotsAreConserved
<1>1. Init => Good(Now) /\ Conserved(Now)
  <2> SUFFICES ASSUME Init PROVE Good(Now) /\ Conserved(Now)
    OBVIOUS
  <2>1. HeldIn(Now) = {} /\ free = Slots /\ queue = <<>>
    BY DEF Init, HeldIn, Uses, Occupies, Now
  <2>2. IsFiniteSet({}) /\ Cardinality({}) = 0
    BY FS_EmptySet, Zenon
  <2>3. Slots + 0 = Slots
    BY AdmissionAssumption
  <2>4. Conserved(Now)
    BY <2>1, <2>2, <2>3 DEF Conserved, Adds, NoneIdle, Now
  <2>5. QED
    BY <2>4, InitGood
<1>2. Good(Now) /\ Conserved(Now) /\ [Next]_vars => Good(Now)' /\ Conserved(Now)'
  <2>1. ASSUME Good(Now')
        PROVE  Good(Now)'
    BY <2>1 DEF Good, StateType, QueueOK, EpisodeOK
  <2>2. QED
    BY <2>1, StepGood, StepConserves
<1>3. Conserved(Now) => SlotsAreConserved
  BY HeldIsHeld DEF Conserved, Adds, NoneIdle, Resuming, SlotsAreConserved, Now
<1>4. QED
  BY <1>1, <1>2, <1>3, PTL DEF Spec

-----------------------------------------------------------------------------
(* Who leads an episode, and who has failed. *)

\* A call that failed with its episode, and one that waits for one, is aside:
\* it has no attempt in progress.
Aside(r) ==
  r.pc \in {"waiting", "notified", "access", "done"} \/ (r.pc = "closing" /\ r.resolved)

\* The leader of e has not failed, waits for nobody, and is where it will act.
Heads(e, c, r) ==
  /\ ~r.failed /\ c \notin e.waiters
  /\ IF e.probing
     THEN /\ r.permit = [probe |-> TRUE, gen |-> e.gen]
          /\ \/ r.pc \in {"limiter", "queued", "granted"}
             \/ r.pc \in {"upstream", "streaming", "closing"} /\ ~r.resolved
             \/ r.pending
     ELSE \/ r.pc = "backoff" /\ r.permit.gen = e.gen
          \/ r.pc = "access"
          \/ r.pc = "closing" /\ r.next = "retry"
          \/ AccessInterrupted /\ c \in Codex /\ r.pc = "done"

\* The record of a call, by itself and with the episode.
Shape(c, r) ==
  /\ r.failed => Aside(r)
  /\ r.pending => \/ r.pc \in {"abandoning", "done"}
                  \/ r.pc = "closing" /\ r.resolved /\ r.next = "leave"
  /\ r.pc = "closing" /\ r.next = "retry" => r.resolved
  /\ r.pc = "access" => c \in Codex
Joins(e, c, r) ==
  e # None =>
    /\ e.leader = c => Heads(e, c, r)
    /\ c \in e.waiters => Aside(r)
    /\ e.phase = "open" /\ r.pc \in {"waiting", "notified"} /\ r.permit.gen = e.gen
         => c \in e.waiters
Suits(s, c) ==
  /\ Shape(c, s.calls[c]) /\ s.calls[c].permit.gen < s.generation
  /\ Joins(s.episode, c, s.calls[c])

\* Episodes are numbered, and an ended one has no waiters.
Dated(s) ==
  s.episode # None => /\ s.episode.gen < s.generation
                      /\ s.episode.phase # "open" => s.episode.waiters = {}

\* All is well, and all is well but for c, which a step is moving.
Sound(s) == Good(s) /\ Dated(s) /\ \A d \in Calls : Suits(s, d)
Others(s, c) == Good(s) /\ Dated(s) /\ \A d \in Calls : d # c => Suits(s, d)

\* What a step of c does to another call, and to the episode.
Beside(r, q) ==
  /\ q.attempts = r.attempts /\ q.permit = r.permit /\ q.resolved = r.resolved
  /\ q.next = r.next /\ q.pending = r.pending
  /\ \/ q.pc = r.pc
     \/ r.pc = "waiting" /\ q.pc = "notified"
     \/ r.pc = "queued" /\ q.pc = "granted"
  /\ r.failed => q.failed
LedBy(s, c) == s.episode # None /\ s.episode.leader = c
Apart(s, t, c) ==
  \A d \in Calls : d # c => /\ Beside(s.calls[d], t.calls[d])
                            /\ LedBy(t, d) => LedBy(s, d)
Turns(s, t, c) ==
  t.episode # None =>
    /\ \A d \in Calls : d # c /\ t.episode.leader = d =>
         /\ LedBy(s, d)
         /\ t.episode.probing = s.episode.probing /\ t.episode.gen = s.episode.gen
         /\ t.calls[d].failed => s.calls[d].failed
    /\ \A d \in Calls : d # c /\ d \in t.episode.waiters =>
         s.episode # None /\ d \in s.episode.waiters
    /\ t.episode.phase = "open" =>
         \/ t.episode.gen >= s.generation
         \/ /\ s.episode # None /\ s.episode.phase = "open" /\ t.episode.gen = s.episode.gen
            /\ s.episode.waiters \ {c} \subseteq t.episode.waiters

\* The episode stays as ended as it was, or a new one has begun; or it ends,
\* and those that waited for it have failed.
Ahead(s, t) ==
  /\ s.generation <= t.generation
  /\ t.episode # None =>
       \/ t.episode.gen >= s.generation
       \/ s.episode # None /\ t.episode.gen = s.episode.gen /\ t.episode.phase = s.episode.phase
Shares(s, t) ==
  /\ s.generation <= t.generation
  /\ t.episode # None =>
       \/ t.episode.gen >= s.generation
       \/ /\ s.episode # None /\ t.episode.gen = s.episode.gen
          /\ \/ t.episode.phase = s.episode.phase
             \/ \A d \in s.episode.waiters : t.calls[d].failed

(* The parts of a good state.                                              *)
LEMMA GoodParts ==
  ASSUME NEW s, Good(s)
  PROVE  /\ \A d \in Calls : s.calls[d] \in CallType
         /\ s.episode # None => s.episode \in EpisodeType
         /\ s.generation \in Nat
         /\ \A d \in Calls : s.calls[d].permit.gen \in Nat
         /\ \A d \in Calls : s.calls[d] \in Budgeted
BY DEF Good, StateType, Budgeted, CallType

(* A call that is only woken, or granted a slot, still suits a state whose *)
(* episode was turned by another one.                                      *)
LEMMA OthersGo ==
  ASSUME NEW s, NEW t, NEW c \in Calls, Others(s, c), Good(t), Dated(t), Turns(s, t, c),
         s.generation <= t.generation,
         \A d \in Calls : d # c =>
           /\ Beside(s.calls[d], t.calls[d])
           /\ t.calls[d].failed => s.calls[d].failed \/ Aside(s.calls[d])
  PROVE  Others(t, c) /\ Apart(s, t, c)
<1>1. ASSUME NEW d \in Calls, d # c
      PROVE  Suits(t, d) /\ (LedBy(t, d) => LedBy(s, d))
  <2> DEFINE r == s.calls[d]  q == t.calls[d]  e == s.episode  f == t.episode
  <2>1. /\ Suits(s, d) /\ Beside(r, q)
        /\ q.failed => r.failed \/ Aside(r)
    BY <1>1 DEF Others
  <2>2. /\ s.generation \in Nat /\ t.generation \in Nat
        /\ r.permit.gen \in Nat /\ r \in CallType /\ q \in CallType
        /\ e # None => e \in EpisodeType /\ e.gen \in Nat
        /\ f # None => f \in EpisodeType /\ f.gen \in Nat
    BY GoodParts DEF Others, EpisodeType
  <2>3. /\ Shape(d, r) /\ r.permit.gen < s.generation /\ Joins(e, d, r)
        /\ q.attempts = r.attempts /\ q.permit = r.permit /\ q.resolved = r.resolved
        /\ q.next = r.next /\ q.pending = r.pending
        /\ \/ q.pc = r.pc
           \/ r.pc = "waiting" /\ q.pc = "notified"
           \/ r.pc = "queued" /\ q.pc = "granted"
        /\ r.failed => q.failed
    BY <2>1 DEF Suits, Beside
  <2>4. f # None =>
          /\ f.leader = d => /\ e # None /\ e.leader = d
                             /\ f.probing = e.probing /\ f.gen = e.gen
                             /\ q.failed => r.failed
          /\ d \in f.waiters => e # None /\ d \in e.waiters
          /\ f.phase = "open" =>
               \/ f.gen >= s.generation
               \/ /\ e # None /\ e.phase = "open" /\ f.gen = e.gen
                  /\ d \in e.waiters => d \in f.waiters
    BY <1>1 DEF Turns, LedBy
  <2>5. /\ LedBy(t, d) => LedBy(s, d)
        /\ q.permit.gen < t.generation
    BY <2>2, <2>3, <2>4 DEF LedBy
  <2> HIDE DEF r, q, e, f
  <2>6. Aside(r) => Aside(q)
    BY <2>3 DEF Aside
  <2>7. Shape(d, q)
    BY <2>1, <2>3, <2>6 DEF Shape
  <2>8. ASSUME f # None, f.leader = d PROVE Heads(f, d, q)
    BY <2>3, <2>4, <2>8 DEF Joins, Heads
  <2>9. ASSUME f # None, d \in f.waiters PROVE Aside(q)
    BY <2>3, <2>4, <2>6, <2>9 DEF Joins
  <2>10. ASSUME f # None, f.phase = "open", q.pc \in {"waiting", "notified"},
                q.permit.gen = f.gen
         PROVE  d \in f.waiters
    <3>1. ~(f.gen >= s.generation)
      BY <2>2, <2>3, <2>10
    <3>2. r.pc \in {"waiting", "notified"}
      BY <2>3, <2>10
    <3>3. QED
      BY <2>3, <2>4, <2>10, <3>1, <3>2 DEF Joins
  <2>11. QED
    BY <2>5, <2>7, <2>8, <2>9, <2>10 DEF Joins, Suits, r, q, e, f
<1>2. QED
  BY <1>1 DEF Others, Apart

(* Steps of a pipeline are a step.                                         *)
LEMMA ApartChains ==
  ASSUME NEW s, NEW t, NEW u, NEW c, Apart(s, t, c), Apart(t, u, c)
  PROVE  Apart(s, u, c)
BY DEF Apart, Beside

(* So are steps that do not end an episode, after one that may.            *)
LEMMA AheadChains ==
  ASSUME NEW s, NEW t, NEW u, NEW c, Good(s), Good(t), Good(u), Dated(s), Dated(t),
         Shares(s, t), Ahead(t, u), Apart(t, u, c),
         t.calls[c].failed => u.calls[c].failed
  PROVE  /\ Shares(s, u)
         /\ Ahead(s, t) => Ahead(s, u)
<1>1. /\ s.generation \in Nat /\ t.generation \in Nat /\ u.generation \in Nat
      /\ s.episode # None => s.episode.gen \in Nat
      /\ t.episode # None => t.episode.gen \in Nat
      /\ u.episode # None => u.episode.gen \in Nat
      /\ s.episode # None => s.episode.waiters \subseteq Calls
  BY GoodParts DEF EpisodeType
<1>2. \A d \in Calls : t.calls[d].failed => u.calls[d].failed
  BY DEF Apart, Beside
<1>3. QED
  BY <1>1, <1>2 DEF Shares, Ahead, Dated

(* notify_all() after the episode was turned.                              *)
LEMMA NotifyGoes ==
  ASSUME NEW s, NEW u, NEW c \in Calls, Others(s, c), Good(u), Dated(u), Turns(s, u, c),
         s.generation <= u.generation, s.calls[c].pc # "waiting",
         \A d \in Calls : d # c => u.calls[d] = s.calls[d],
         u.calls[c].pc = s.calls[c].pc
  PROVE  /\ Others(NotifyAll(u), c) /\ Apart(s, NotifyAll(u), c)
         /\ NotifyAll(u).episode = u.episode /\ NotifyAll(u).generation = u.generation
         /\ NotifyAll(u).calls[c] = u.calls[c]
<1> DEFINE t == NotifyAll(u)
<1>1. /\ Good(t) /\ t.episode = u.episode
      /\ t.calls[c] = u.calls[c]
  BY NotifyAllKeeps
<1>2. /\ t.generation = u.generation
      /\ \A d \in Calls : t.calls[d] = IF u.calls[d].pc = "waiting"
                                       THEN [u.calls[d] EXCEPT !.pc = "notified"]
                                       ELSE u.calls[d]
  BY DEF NotifyAll, Good, StateType
<1>3. \A d \in Calls : u.calls[d] \in CallType
  BY GoodParts
<1>4. ASSUME NEW d \in Calls, d # c
      PROVE  Beside(s.calls[d], t.calls[d]) /\ t.calls[d].failed = s.calls[d].failed
  <2>1. s.calls[d] \in CallType /\ s.calls[d] = u.calls[d]
    BY <1>3, <1>4
  <2>2. CASE s.calls[d].pc = "waiting"
    <3>1. t.calls[d] = [s.calls[d] EXCEPT !.pc = "notified"]
      BY <1>2, <2>1, <2>2
    <3>2. QED
      BY <2>1, <2>2, <3>1 DEF Beside, CallType
  <2>3. CASE s.calls[d].pc # "waiting"
    BY <1>2, <2>1, <2>3 DEF Beside
  <2>4. QED
    BY <2>2, <2>3
<1> HIDE DEF t
<1>5. Dated(t)
  BY <1>1, <1>2 DEF Dated
<1>6. Turns(s, t, c)
  BY <1>1, <1>4 DEF Turns
<1>7. Others(t, c) /\ Apart(s, t, c)
  BY <1>1, <1>2, <1>4, <1>5, <1>6, OthersGo
<1>8. QED
  BY <1>1, <1>2, <1>7 DEF t

(* A step that leaves all but the record of c alone.                       *)
LEMMA PutGoes ==
  ASSUME NEW s, NEW c \in Calls, Others(s, c), NEW r, Good(PutC(s, c, r))
  PROVE  /\ Others(PutC(s, c, r), c) /\ Apart(s, PutC(s, c, r), c)
         /\ Ahead(s, PutC(s, c, r))
         /\ PutC(s, c, r).episode = s.episode /\ PutC(s, c, r).generation = s.generation
         /\ PutC(s, c, r).calls[c] = r
<1> DEFINE t == PutC(s, c, r)
<1>1. /\ t.episode = s.episode /\ t.generation = s.generation /\ t.calls[c] = r
      /\ \A d \in Calls : d # c => t.calls[d] = s.calls[d]
  BY PutFields DEF Others, PutC, Good, StateType
<1>2. s.generation \in Nat
  BY GoodParts DEF Others
<1> HIDE DEF t
<1>3. Others(t, c)
  BY <1>1 DEF Others, Dated, Suits, t
<1>4. Apart(s, t, c) /\ Ahead(s, t)
  BY <1>1, <1>2 DEF Apart, Beside, LedBy, Ahead
<1>5. QED
  BY <1>1, <1>3, <1>4 DEF t

(* A slot that is given back moves nobody but the next in the queue.       *)
LEMMA ReleaseSlotGoes ==
  ASSUME NEW s, NEW c \in Calls, Others(s, c), s.calls[c].pc # "queued"
  PROVE  /\ Others(ReleaseSlot(s), c) /\ Apart(s, ReleaseSlot(s), c)
         /\ Ahead(s, ReleaseSlot(s))
         /\ ReleaseSlot(s).episode = s.episode
         /\ ReleaseSlot(s).generation = s.generation
         /\ ReleaseSlot(s).calls[c] = s.calls[c]
<1> DEFINE t == ReleaseSlot(s)
<1>1. /\ Good(t) /\ t.episode = s.episode /\ t.calls[c] = s.calls[c]
      /\ s.generation \in Nat
  BY ReleaseSlotKeeps, GoodParts DEF Others
<1>2. t.generation = s.generation
  BY DEF ReleaseSlot, Others, Good, StateType
<1>3. \A d \in Calls : Beside(s.calls[d], t.calls[d]) /\ t.calls[d].failed = s.calls[d].failed
  <2>1. CASE s.queue = <<>>
    <3>1. t.calls = s.calls
      BY <2>1 DEF ReleaseSlot, Others, Good, StateType
    <3>2. QED
      BY <3>1 DEF Beside
  <2>2. CASE s.queue # <<>>
    <3> DEFINE h == Head(s.queue)
    <3>1. h \in Calls /\ s.calls[h].pc = "queued" /\ s.calls[h] \in CallType
      BY <2>2, GoodParts DEF Others, Good, StateType, QueueOK
    <3>2. t.calls = [s.calls EXCEPT ![h] = [s.calls[h] EXCEPT !.pc = "granted"]]
      BY <2>2 DEF ReleaseSlot, Others, Good, StateType
    <3> HIDE DEF t, h
    <3>3. /\ t.calls[h] = [s.calls[h] EXCEPT !.pc = "granted"]
          /\ \A d \in Calls : d # h => t.calls[d] = s.calls[d]
      BY <3>1, <3>2 DEF Others, Good, StateType
    <3>4. QED
      BY <3>1, <3>3 DEF Beside, CallType
  <2>3. QED
    BY <2>1, <2>2
<1> HIDE DEF t
<1>4. Dated(t) /\ Turns(s, t, c) /\ Ahead(s, t) /\ s.generation <= t.generation
  BY <1>1, <1>2, <1>3 DEF Others, Dated, Turns, Ahead, LedBy
<1>5. Others(t, c) /\ Apart(s, t, c)
  BY <1>1, <1>3, <1>4, OthersGo
<1>6. QED
  BY <1>1, <1>2, <1>4, <1>5 DEF t

(* Those who are woken do no more than take their slots.                   *)
LEMMA WokenGoes ==
  ASSUME NEW s, NEW c \in Calls, Others(s, c), s.calls[c].pc # "queued"
  PROVE  /\ Others(Woken(s), c) /\ Apart(s, Woken(s), c)
         /\ Ahead(s, Woken(s))
         /\ Woken(s).episode = s.episode
         /\ Woken(s).generation = s.generation
         /\ Woken(s).calls[c] = s.calls[c]
<1> DEFINE t == Woken(s)
<1>1. /\ Good(t) /\ t.episode = s.episode /\ t.calls[c] = s.calls[c]
      /\ t.generation = s.generation /\ s.generation \in Nat
      /\ \A d \in Calls : \/ t.calls[d] = s.calls[d]
                          \/ /\ s.calls[d].pc = "queued"
                             /\ t.calls[d] = [s.calls[d] EXCEPT !.pc = "granted"]
  BY WokenKeeps, GoodParts DEF Others
<1> HIDE DEF t
<1>2. \A d \in Calls : s.calls[d] \in CallType
  BY GoodParts DEF Others
<1>3. \A d \in Calls : Beside(s.calls[d], t.calls[d]) /\ t.calls[d].failed = s.calls[d].failed
  BY <1>1, <1>2 DEF Beside, CallType
<1>4. Dated(t) /\ Turns(s, t, c) /\ Ahead(s, t) /\ s.generation <= t.generation
  BY <1>1, <1>3 DEF Others, Dated, Turns, Ahead, LedBy
<1>5. Others(t, c) /\ Apart(s, t, c)
  BY <1>1, <1>3, <1>4, OthersGo
<1>6. QED
  BY <1>1, <1>4, <1>5 DEF t

(* Two such steps are one.                                                 *)
LEMMA StepsGo ==
  ASSUME NEW s, NEW t, NEW u, NEW c \in Calls, Good(s), Dated(s), Others(t, c), Others(u, c),
         Apart(s, t, c), Apart(t, u, c), Ahead(s, t), Ahead(t, u),
         t.calls[c].failed => u.calls[c].failed
  PROVE  Apart(s, u, c) /\ Ahead(s, u)
<1>1. Shares(s, t) /\ Good(t) /\ Good(u) /\ Dated(t)
  BY DEF Shares, Ahead, Others
<1>2. QED
  BY <1>1, AheadChains, ApartChains

(* A call that had its slot wakes who may have one, and gives it back.     *)
LEMMA WokenReleases ==
  ASSUME NEW s, NEW c \in Calls, Others(s, c), s.calls[c].pc = "granted"
  PROVE  LET u == ReleaseSlot(Woken(s)) IN
         /\ Others(u, c) /\ Apart(s, u, c) /\ Ahead(s, u) /\ Good(u)
         /\ u.episode = s.episode /\ u.generation = s.generation /\ u.calls[c] = s.calls[c]
<1> DEFINE t == Woken(s)
           u == ReleaseSlot(t)
<1>1. /\ Others(t, c) /\ Apart(s, t, c) /\ Ahead(s, t) /\ t.episode = s.episode
      /\ t.generation = s.generation /\ t.calls[c] = s.calls[c]
  BY WokenGoes
<1> HIDE DEF t
<1>2. /\ Others(u, c) /\ Apart(t, u, c) /\ Ahead(t, u) /\ u.episode = t.episode
      /\ u.generation = t.generation /\ u.calls[c] = t.calls[c]
  BY <1>1, ReleaseSlotGoes
<1> HIDE DEF u
<1>3. Apart(s, u, c) /\ Ahead(s, u)
  BY <1>1, <1>2, StepsGo DEF Others
<1>4. QED
  BY <1>1, <1>2, <1>3 DEF Others, t, u

-----------------------------------------------------------------------------
(* What outcomes do to leaders and waiters. *)

\* The call may come to the gate: it leads no episode, or one that it does not
\* probe and that it can lead on.
Ready(s, c) ==
  LedBy(s, c) => ~s.episode.probing /\ ~s.calls[c].failed /\ c \notin s.episode.waiters

\* If the call leads, it is with its probe.
Probes(s, c) ==
  LedBy(s, c) => MatchingProbe(s, c) /\ ~s.calls[c].failed /\ c \notin s.episode.waiters

(* A rejection, or a success, ends the episode of its probe.               *)
LEMMA RejectedGoes ==
  ASSUME NEW s, NEW c \in Calls, Others(s, c), s.calls[c].pc # "waiting"
  PROVE  /\ Others(Rejected(s, c), c) /\ Apart(s, Rejected(s, c), c) /\ Ahead(s, Rejected(s, c))
         /\ Rejected(s, c).generation = s.generation
         /\ Rejected(s, c).calls[c] = s.calls[c]
         /\ Rejected(s, c).episode \in {s.episode, None}
         /\ Probes(s, c) => ~LedBy(Rejected(s, c), c)
<1> DEFINE u == PutE(s, None)
<1>0. s.generation \in Nat
  BY GoodParts DEF Others
<1>1. CASE MatchingProbe(s, c)
  <2>1. Good(u) /\ u.calls = s.calls /\ u.episode = None /\ u.generation = s.generation
    BY PutEpisode DEF EpisodeOK, Others, PutE, Good, StateType
  <2>2. Rejected(s, c) = NotifyAll(u)
    BY <1>1 DEF Rejected, PutE
  <2> HIDE DEF u
  <2>3. Dated(u) /\ Turns(s, u, c)
    BY <2>1 DEF Dated, Turns
  <2>4. /\ Others(NotifyAll(u), c) /\ Apart(s, NotifyAll(u), c)
        /\ NotifyAll(u).episode = None /\ NotifyAll(u).generation = s.generation
        /\ NotifyAll(u).calls[c] = s.calls[c]
    BY <1>0, <2>1, <2>3, NotifyGoes
  <2>5. QED
    BY <1>0, <2>2, <2>4 DEF Ahead, LedBy
<1>2. CASE ~MatchingProbe(s, c)
  BY <1>0, <1>2 DEF Rejected, Apart, Beside, Ahead, Probes
<1>3. QED
  BY <1>1, <1>2

(* A success of an attempt without an answer is such an answer.            *)
LEMMA SucceededGoes ==
  ASSUME NEW s, NEW c \in Calls, Others(s, c), s.calls[c].pc # "waiting", ~s.calls[c].resolved
  PROVE  /\ Others(Succeeded(s, c), c) /\ Apart(s, Succeeded(s, c), c)
         /\ Ahead(s, Succeeded(s, c))
         /\ Succeeded(s, c).generation = s.generation
         /\ Succeeded(s, c).calls[c] = s.calls[c]
         /\ Succeeded(s, c).episode \in {s.episode, None}
         /\ Probes(s, c) => ~LedBy(Succeeded(s, c), c)
BY RejectedGoes DEF Succeeded

(* A probe that is answered with a correction, or given up, is over: its   *)
(* call leads on, or nobody does.                                          *)
LEMMA TurnGoes ==
  ASSUME NEW s, NEW c \in Calls, Others(s, c), s.calls[c].pc # "waiting",
         LedBy(s, c), NEW f \in EpisodeType, EpisodeOK(f), f.gen = s.episode.gen,
         f.leader \in {c, None}, f.phase = s.episode.phase,
         s.episode.waiters \subseteq f.waiters, f.waiters \subseteq s.episode.waiters \cup {c}
  PROVE  /\ Others(NotifyAll(PutE(s, f)), c) /\ Apart(s, NotifyAll(PutE(s, f)), c)
         /\ Ahead(s, NotifyAll(PutE(s, f)))
         /\ NotifyAll(PutE(s, f)).generation = s.generation
         /\ NotifyAll(PutE(s, f)).calls[c] = s.calls[c]
         /\ NotifyAll(PutE(s, f)).episode = f
<1> DEFINE u == PutE(s, f)
<1>1. /\ Good(u) /\ u.calls = s.calls /\ u.episode = f /\ u.generation = s.generation
      /\ s.generation \in Nat /\ f # None /\ s.episode # None /\ None \notin Calls
      /\ s.episode \in EpisodeType
  BY PutEpisode, GoodParts, NoneIsNoEpisode, AdmissionAssumption
     DEF Others, PutE, Good, StateType, LedBy
<1>2. s.episode.phase = "open"
  BY <1>1 DEF LedBy, Others, Good, EpisodeOK
<1> HIDE DEF u
<1>3. Dated(u) /\ Turns(s, u, c)
  BY <1>1, <1>2 DEF Dated, Turns, Others
<1>4. /\ Others(NotifyAll(u), c) /\ Apart(s, NotifyAll(u), c)
      /\ NotifyAll(u).episode = f /\ NotifyAll(u).generation = s.generation
      /\ NotifyAll(u).calls[c] = s.calls[c]
  BY <1>1, <1>3, NotifyGoes
<1>5. Ahead(s, NotifyAll(u))
  BY <1>1, <1>4 DEF Ahead
<1>6. QED
  BY <1>4, <1>5 DEF u

(* A correction lets its call lead on.                                     *)
LEMMA CorrectedGoes ==
  ASSUME NEW s, NEW c \in Calls, Others(s, c), s.calls[c].pc # "waiting", Probes(s, c)
  PROVE  /\ Others(Corrected(s, c), c) /\ Apart(s, Corrected(s, c), c)
         /\ Ahead(s, Corrected(s, c))
         /\ Corrected(s, c).generation = s.generation
         /\ Corrected(s, c).calls[c] = s.calls[c]
         /\ ~s.calls[c].resolved => Ready(Corrected(s, c), c)
<1> DEFINE t == Corrected(s, c)
<1>0. s.generation \in Nat
  BY GoodParts DEF Others
<1>1. CASE ~s.calls[c].resolved /\ MatchingProbe(s, c)
  <2> DEFINE e == s.episode
             f == [e EXCEPT !.probing = FALSE, !.ready = TRUE]
  <2>1. e \in EpisodeType /\ e # None /\ e.phase = "open" /\ e.leader = c
    BY <1>1, MatchingIsProbing DEF Others
  <2>2. /\ f \in EpisodeType /\ f.gen = e.gen /\ f.leader = c /\ f.phase = e.phase
        /\ f.waiters = e.waiters /\ ~f.probing
    BY <2>1 DEF EpisodeType
  <2>3. EpisodeOK(f)
    BY <2>1, <2>2, AdmissionAssumption DEF EpisodeOK
  <2>4. t = NotifyAll(PutE(s, f))
    BY <1>1 DEF Corrected, PutE, Others, Good, StateType
  <2>5. LedBy(s, c)
    BY <2>1 DEF LedBy
  <2> HIDE DEF f, t
  <2>6. /\ Others(t, c) /\ Apart(s, t, c) /\ Ahead(s, t) /\ t.generation = s.generation
        /\ t.calls[c] = s.calls[c] /\ t.episode = f
    BY <2>1, <2>2, <2>3, <2>4, <2>5, TurnGoes
  <2>7. Ready(t, c)
    BY <2>2, <2>5, <2>6 DEF Ready, Probes
  <2>8. QED
    BY <2>6, <2>7 DEF t
<1>2. CASE s.calls[c].resolved \/ ~MatchingProbe(s, c)
  BY <1>0, <1>2 DEF Corrected, Apart, Beside, Ahead, Probes, Ready
<1>3. QED
  BY <1>1, <1>2

(* An abandoned probe leaves the episode to whoever comes.                 *)
LEMMA AbandonedGoes ==
  ASSUME NEW s, NEW c \in Calls, Others(s, c), s.calls[c].pc # "waiting"
  PROVE  /\ Others(Abandoned(s, c), c) /\ Apart(s, Abandoned(s, c), c)
         /\ Ahead(s, Abandoned(s, c))
         /\ Abandoned(s, c).generation = s.generation
         /\ Abandoned(s, c).calls[c] = s.calls[c]
         /\ \/ Abandoned(s, c).episode = s.episode
            \/ s.episode # None /\ Abandoned(s, c).episode.waiters = s.episode.waiters
         /\ MatchingProbe(s, c) => ~LedBy(Abandoned(s, c), c)
         /\ Probes(s, c) => ~LedBy(Abandoned(s, c), c)
<1> DEFINE t == Abandoned(s, c)
<1>0. s.generation \in Nat
  BY GoodParts DEF Others
<1>1. CASE MatchingProbe(s, c)
  <2> DEFINE e == s.episode
             f == [e EXCEPT !.leader = None, !.probing = FALSE, !.ready = TRUE]
  <2>1. e \in EpisodeType /\ e # None /\ e.phase = "open" /\ e.leader = c
    BY <1>1, MatchingIsProbing DEF Others
  <2>2. /\ f \in EpisodeType /\ f.gen = e.gen /\ f.leader = None /\ f.phase = e.phase
        /\ f.waiters = e.waiters /\ ~f.probing
    BY <2>1 DEF EpisodeType
  <2>3. EpisodeOK(f)
    BY <2>1, <2>2 DEF EpisodeOK
  <2>4. t = NotifyAll(PutE(s, f))
    BY <1>1 DEF Abandoned, PutE, Others, Good, StateType
  <2>5. LedBy(s, c)
    BY <2>1 DEF LedBy
  <2> HIDE DEF f, t
  <2>6. /\ Others(t, c) /\ Apart(s, t, c) /\ Ahead(s, t) /\ t.generation = s.generation
        /\ t.calls[c] = s.calls[c] /\ t.episode = f
    BY <2>1, <2>2, <2>3, <2>4, <2>5, TurnGoes
  <2>7. ~LedBy(t, c)
    BY <2>2, <2>6, AdmissionAssumption DEF LedBy
  <2>8. QED
    BY <2>1, <2>2, <2>6, <2>7 DEF t
<1>2. CASE ~MatchingProbe(s, c)
  BY <1>0, <1>2 DEF Abandoned, Apart, Beside, Ahead, Probes
<1>3. QED
  BY <1>1, <1>2

(* A new episode concerns nobody yet.                                      *)
LEMMA NewEpisodeGoes ==
  ASSUME NEW s, NEW c \in Calls, Others(s, c), NEW t, Good(t), t.calls = s.calls,
         t.generation = s.generation + 1, t.episode \in EpisodeType,
         t.episode.gen = s.generation, t.episode.leader \in {c, None},
         t.episode.waiters = {}, t.episode.phase = "open"
  PROVE  /\ Dated(t) /\ Turns(s, t, c) /\ Ahead(s, t)
         /\ Others(t, c) /\ Apart(s, t, c) /\ t.episode # None
<1>1. s.generation \in Nat /\ t.episode # None /\ None \notin Calls
  BY GoodParts, NoneIsNoEpisode, AdmissionAssumption DEF Others
<1>2. Dated(t)
  BY <1>1 DEF Dated
<1>3. Turns(s, t, c)
  BY <1>1 DEF Turns
<1>4. \A d \in Calls : Beside(s.calls[d], t.calls[d]) /\ t.calls[d].failed = s.calls[d].failed
  BY DEF Beside
<1>5. Others(t, c) /\ Apart(s, t, c)
  BY <1>1, <1>2, <1>3, <1>4, OthersGo
<1>6. QED
  BY <1>1, <1>2, <1>3, <1>5 DEF Ahead

(* The fields of a new episode that c leads.                               *)
LEMMA LedEpisode ==
  ASSUME NEW s, NEW c \in Calls, Others(s, c), NEW ready \in BOOLEAN, NEW t,
         t = StartEpisode(s, c, ready)
  PROVE  /\ Good(t) /\ t.calls = s.calls
         /\ t.generation = s.generation + 1 /\ t.episode \in EpisodeType
         /\ t.episode.gen = s.generation /\ t.episode.leader = c
         /\ t.episode.waiters = {} /\ t.episode.phase = "open"
         /\ ~t.episode.probing
<1>1. Good(s) /\ c \in Calls \cup {None} /\ ready \in BOOLEAN
  BY DEF Others
<1>2. Good(t) /\ t.calls = s.calls /\ t.episode \in EpisodeType
  BY <1>1, StartEpisodeFields, Zenon
<1>3. /\ t.episode = [gen |-> s.generation, leader |-> c, ready |-> ready,
                      probing |-> FALSE, waiters |-> {}, phase |-> "open"]
      /\ t.generation = s.generation + 1
  BY <1>1 DEF StartEpisode, Good, StateType
<1>4. QED
  BY <1>2, <1>3

(* The episode of a failure that nothing is left to repair.                *)
LEMMA UnledEpisode ==
  ASSUME NEW s, NEW c \in Calls, Others(s, c), NEW t, t = StartEpisode(s, None, TRUE)
  PROVE  /\ Good(t) /\ t.calls = s.calls
         /\ t.generation = s.generation + 1 /\ t.episode \in EpisodeType
         /\ t.episode.gen = s.generation /\ t.episode.waiters = {}
<1>1. Good(s) /\ None \in Calls \cup {None} /\ TRUE \in BOOLEAN
  BY DEF Others
<1>2. Good(t) /\ t.calls = s.calls /\ t.episode \in EpisodeType
  BY <1>1, StartEpisodeFields, Zenon
<1>3. t.episode.gen = s.generation /\ t.episode.waiters = {} /\ t.generation = s.generation + 1
  BY <1>1 DEF StartEpisode, Good, StateType
<1>4. QED
  BY <1>2, <1>3

\* What an outcome does to the record of its call: at most, it has failed.
Marked(r, q) == q \in {r, [r EXCEPT !.failed = TRUE]}

(* A failure with attempts left opens, prolongs or joins an episode, or    *)
(* shares the outcome of one that has ended.                               *)
LEMMA FailedWithAttemptsLeftGoes ==
  ASSUME NEW s, NEW c \in Calls, Others(s, c), s.calls[c].pc \in {"upstream", "streaming"},
         Probes(s, c), ~s.calls[c].failed
  PROVE  LET t == FailedWithAttemptsLeft(s, c) IN
         /\ Others(t, c) /\ Apart(s, t, c) /\ Ahead(s, t)
         /\ Marked(s.calls[c], t.calls[c]) /\ Ready(t, c)
<1> DEFINE t == FailedWithAttemptsLeft(s, c)
           e == s.episode
<1>0. s.generation \in Nat /\ s.calls[c] \in CallType /\ Good(s) /\ None \notin Calls
  BY GoodParts, AdmissionAssumption DEF Others
<1>1. CASE e = None
  <2> DEFINE u == StartEpisode(s, c, FALSE)
  <2>1. /\ Good(u) /\ Dated(u) /\ Turns(s, u, c) /\ Ahead(s, u)
        /\ u.generation = s.generation + 1 /\ u.calls = s.calls /\ ~u.episode.probing
        /\ u.episode.waiters = {}
    <3>1. PICK ready \in BOOLEAN : u = StartEpisode(s, c, ready)
      <4>1. FALSE \in BOOLEAN /\ u = StartEpisode(s, c, FALSE)
        OBVIOUS
      <4>2. QED
        BY <4>1, Zenon
    <3> HIDE DEF t, e, u
    <3>2. /\ Good(u) /\ u.calls = s.calls
          /\ u.generation = s.generation + 1 /\ u.episode \in EpisodeType
          /\ u.episode.gen = s.generation /\ u.episode.leader = c
          /\ u.episode.waiters = {} /\ u.episode.phase = "open"
          /\ ~u.episode.probing
      BY <3>1, LedEpisode
    <3>3. QED
      BY <3>2, NewEpisodeGoes
  <2>2. t = NotifyAll(u)
    BY <1>1 DEF FailedWithAttemptsLeft
  <2> HIDE DEF u, t, e
  <2>3. /\ Others(t, c) /\ Apart(s, t, c) /\ t.episode = u.episode
        /\ t.generation = u.generation /\ t.calls[c] = s.calls[c]
    BY <1>0, <2>1, <2>2, NotifyGoes
  <2>4. Ahead(s, t) /\ Ready(t, c)
    BY <2>1, <2>3 DEF Ahead, Ready
  <2>5. QED
    BY <2>3, <2>4 DEF Marked, t
<1>2. CASE e # None /\ MatchingProbe(s, c)
  <2> DEFINE f == [e EXCEPT !.probing = FALSE, !.ready = FALSE]
  <2>1. e \in EpisodeType /\ e # None /\ e.phase = "open" /\ e.leader = c
    BY <1>2, MatchingIsProbing DEF Others
  <2>2. /\ f \in EpisodeType /\ f.gen = e.gen /\ f.leader = c /\ f.phase = e.phase
        /\ f.waiters = e.waiters /\ ~f.probing
    BY <2>1 DEF EpisodeType
  <2>3. EpisodeOK(f)
    BY <1>0, <2>1, <2>2 DEF EpisodeOK
  <2>4. t = NotifyAll(PutE(s, f))
    BY <1>2 DEF FailedWithAttemptsLeft, PutE, Others, Good, StateType
  <2>5. LedBy(s, c)
    BY <2>1 DEF LedBy
  <2> HIDE DEF f, t
  <2>6. /\ Others(t, c) /\ Apart(s, t, c) /\ Ahead(s, t) /\ t.generation = s.generation
        /\ t.calls[c] = s.calls[c] /\ t.episode = f
    BY <2>1, <2>2, <2>3, <2>4, <2>5, TurnGoes
  <2>7. Ready(t, c)
    BY <2>2, <2>5, <2>6 DEF Ready, Probes
  <2>8. QED
    BY <2>6, <2>7 DEF t, Marked
<1>3. CASE e # None /\ ~MatchingProbe(s, c) /\ e.phase # "open"
  <2> DEFINE r == [s.calls[c] EXCEPT !.failed = TRUE]
             u == PutC(s, c, r)
  <2>1. t = NotifyAll(u)
    BY <1>3 DEF FailedWithAttemptsLeft, PutC
  <2>2. r \in Budgeted /\ r.pc = s.calls[c].pc /\ r.resolved = s.calls[c].resolved
    <3>1. s.calls[c] \in Budgeted
      BY <1>0, GoodParts
    <3>2. QED
      BY <3>1 DEF Budgeted, Coming, CallType
  <2> HIDE DEF r, u, t
  <2>3. Good(u) /\ u.episode = e
    BY <1>0, <2>2, PutKeeps DEF u
  <2>4. /\ Others(u, c) /\ Ahead(s, u) /\ u.generation = s.generation /\ u.calls[c] = r
        /\ \A d \in Calls : d # c => u.calls[d] = s.calls[d]
    BY <1>0, <2>3, PutGoes, PutFields DEF u
  <2>5. Turns(s, u, c) /\ Dated(u)
    BY <2>3, <2>4 DEF Turns, Others, LedBy
  <2>6. /\ Others(t, c) /\ Apart(s, t, c) /\ t.episode = e
        /\ t.generation = s.generation /\ t.calls[c] = r
    BY <1>0, <2>1, <2>2, <2>3, <2>4, <2>5, NotifyGoes
  <2>7. ~LedBy(t, c)
    BY <1>0, <1>3, <2>6 DEF LedBy, Good, EpisodeOK
  <2>8. Ahead(s, t)
    BY <1>0, <2>6 DEF Ahead
  <2>9. QED
    BY <2>6, <2>7, <2>8 DEF t, r, Marked, Ready
<1>4. CASE e # None /\ ~MatchingProbe(s, c) /\ e.phase = "open"
  <2> DEFINE f == [e EXCEPT !.waiters = @ \cup {c}]
             u == PutE(s, f)
  <2>1. e \in EpisodeType /\ ~LedBy(s, c)
    BY <1>0, <1>4, GoodParts DEF Probes
  <2>2. /\ f \in EpisodeType /\ f.gen = e.gen /\ f.leader = e.leader /\ f.phase = e.phase
        /\ f.waiters = e.waiters \cup {c} /\ f.probing = e.probing
    BY <2>1 DEF EpisodeType
  <2>3. EpisodeOK(f)
    BY <1>0, <1>4, <2>1, <2>2 DEF EpisodeOK, Good
  <2>4. t = NotifyAll(u)
    BY <1>0, <1>4 DEF FailedWithAttemptsLeft, PutE, Good, StateType
  <2>5. Good(u) /\ u.calls = s.calls /\ u.episode = f
    BY <1>0, <2>2, <2>3, PutEpisode
  <2>6. u.generation = s.generation
    BY <1>0 DEF PutE, Good, StateType
  <2> HIDE DEF f, u, t
  <2>7. Dated(u) /\ Turns(s, u, c)
    BY <1>4, <2>2, <2>5, <2>6 DEF Others, Dated, Turns, LedBy
  <2>8. /\ Others(t, c) /\ Apart(s, t, c) /\ t.episode = f
        /\ t.generation = s.generation /\ t.calls[c] = s.calls[c]
    BY <1>0, <2>4, <2>5, <2>6, <2>7, NotifyGoes
  <2>9. Ready(t, c) /\ Ahead(s, t)
    BY <1>0, <1>4, <2>1, <2>2, <2>8 DEF Ready, LedBy, Ahead
  <2>10. QED
    BY <2>8, <2>9 DEF t, Marked
<1>5. QED
  BY <1>1, <1>2, <1>3, <1>4

(* A failure of the last attempt ends the episode it decides, and fails    *)
(* whoever waits for it.                                                   *)
LEMMA FailedForGoodGoes ==
  ASSUME NEW s, NEW c \in Calls, Others(s, c), s.calls[c].pc \in {"upstream", "streaming"},
         Probes(s, c)
  PROVE  LET t == FailedForGood(s, c) IN
         /\ Others(t, c) /\ Apart(s, t, c) /\ Shares(s, t)
         /\ Marked(s.calls[c], t.calls[c]) /\ ~LedBy(t, c)
<1> DEFINE t == FailedForGood(s, c)
<1>0. /\ s.generation \in Nat /\ s.calls[c] \in CallType /\ Good(s) /\ None \notin Calls
      /\ Good(t)
  BY GoodParts, AdmissionAssumption, FailedForGoodKeeps DEF Others, Keeps
<1>1. CASE s.episode # None /\ ~MatchingProbe(s, c)
  <2>1. t = s
    BY <1>1 DEF FailedForGood
  <2> HIDE DEF t
  <2>2. Others(t, c) /\ Apart(s, t, c) /\ Shares(s, t) /\ ~LedBy(t, c)
    BY <1>0, <1>1, <2>1 DEF Apart, Beside, Shares, Probes
  <2>3. QED
    BY <2>1, <2>2 DEF Marked, t
<1>2. CASE s.episode = None \/ MatchingProbe(s, c)
  <2> DEFINE u == IF s.episode = None THEN StartEpisode(s, None, TRUE) ELSE s
             g == [w \in Calls |-> [u.calls[w] EXCEPT
                     !.failed = u.calls[w].failed \/ w \in u.episode.waiters]]
             f == [u.episode EXCEPT !.leader = None, !.probing = FALSE,
                                    !.phase = "cooling", !.waiters = {}]
             x == [u EXCEPT !.episode.leader = None, !.episode.probing = FALSE,
                            !.episode.phase = "cooling", !.episode.waiters = {},
                            !.calls = g]
             e == u.episode
  <2>1. /\ Good(u) /\ u.calls = s.calls /\ e \in EpisodeType /\ e # None
        /\ s.generation <= u.generation /\ u.generation \in Nat
        /\ e.gen \in Nat /\ e.gen < u.generation
        /\ \/ e.gen = s.generation /\ e.waiters = {}
           \/ s.episode # None /\ e = s.episode
    <3>1. CASE s.episode = None
      <4>1. u = StartEpisode(s, None, TRUE)
        BY <3>1
      <4> HIDE DEF u, t, f, g, x
      <4>2. /\ Good(u) /\ u.calls = s.calls /\ u.generation = s.generation + 1
            /\ u.episode \in EpisodeType
            /\ u.episode.gen = s.generation /\ u.episode.waiters = {}
        BY <4>1, UnledEpisode
      <4>3. u.episode # None
        BY <4>2, NoneIsNoEpisode
      <4>4. QED
        BY <1>0, <4>2, <4>3
    <3>2. CASE s.episode # None
      <4>1. s.episode \in EpisodeType /\ s.episode.gen < s.generation
        BY <1>0, <3>2, GoodParts DEF Others, Dated
      <4>2. QED
        BY <1>0, <3>2, <4>1 DEF EpisodeType
    <3>3. QED
      BY <3>1, <3>2
  <2>2. t = NotifyAll(x)
    BY <1>2 DEF FailedForGood
  <2>3. /\ f \in EpisodeType /\ f.gen = e.gen /\ f.leader = None /\ f.phase = "cooling"
        /\ f.waiters = {} /\ f # None
    BY <2>1, NoneIsNoEpisode DEF EpisodeType
  <2>4. x.episode = f /\ x.calls = g /\ x.generation = u.generation
    BY <2>1 DEF Good, StateType
  <2>5. \A d \in Calls : u.calls[d] = s.calls[d] /\ u.calls[d] \in CallType
    BY <2>1, GoodParts
  <2>6. \A d \in Calls : g[d] = [s.calls[d] EXCEPT !.failed = @ \/ d \in e.waiters]
    BY <2>5
  <2> HIDE DEF u, g, f, x, e, t
  <2>7. /\ t.episode = f /\ t.generation = u.generation
        /\ \A d \in Calls : t.calls[d] = IF g[d].pc = "waiting"
                                         THEN [g[d] EXCEPT !.pc = "notified"] ELSE g[d]
    BY <2>2, <2>4 DEF NotifyAll
  <2>8. ASSUME NEW d \in Calls
        PROVE  /\ Beside(s.calls[d], t.calls[d])
               /\ t.calls[d].failed <=> s.calls[d].failed \/ d \in e.waiters
    <3>1. s.calls[d] \in CallType
      BY <2>5
    <3>2. PICK b \in BOOLEAN : /\ g[d] = [s.calls[d] EXCEPT !.failed = b]
                               /\ b <=> s.calls[d].failed \/ d \in e.waiters
      <4>1. CASE s.calls[d].failed \/ d \in e.waiters
        <5>1. (s.calls[d].failed \/ d \in e.waiters) = TRUE
          BY <4>1
        <5>2. g[d] = [s.calls[d] EXCEPT !.failed = TRUE]
          BY <2>6, <5>1, Zenon
        <5>3. QED
          BY <4>1, <5>2
      <4>2. CASE ~(s.calls[d].failed \/ d \in e.waiters)
        <5>1. (s.calls[d].failed \/ d \in e.waiters) = FALSE
          BY <4>2
        <5>2. g[d] = [s.calls[d] EXCEPT !.failed = FALSE]
          BY <2>6, <5>1, Zenon
        <5>3. QED
          BY <4>2, <5>2
      <4>3. QED
        BY <4>1, <4>2
    <3>3. CASE s.calls[d].pc = "waiting"
      <4>1. t.calls[d] = [g[d] EXCEPT !.pc = "notified"]
        BY <2>7, <3>1, <3>2, <3>3 DEF CallType
      <4>2. QED
        BY <3>1, <3>2, <3>3, <4>1 DEF Beside, CallType
    <3>4. CASE s.calls[d].pc # "waiting"
      <4>1. t.calls[d] = g[d]
        BY <2>7, <3>1, <3>2, <3>4 DEF CallType
      <4>2. QED
        BY <3>1, <3>2, <3>4, <4>1 DEF Beside, CallType
    <3>5. QED
      BY <3>3, <3>4
  <2>9. \A d \in Calls : d # c /\ d \in e.waiters => Aside(s.calls[d])
    BY <2>1 DEF Others, Suits, Joins
  <2>10. Dated(t) /\ Turns(s, t, c) /\ ~LedBy(t, c) /\ s.generation <= t.generation
    BY <1>0, <2>1, <2>3, <2>7 DEF Dated, Turns, LedBy
  <2>11. Others(t, c) /\ Apart(s, t, c)
    BY <1>0, <2>8, <2>9, <2>10, OthersGo
  <2>12. Shares(s, t)
    <3>1. s.episode # None /\ e = s.episode => \A d \in s.episode.waiters : t.calls[d].failed
      BY <2>1, <2>8 DEF EpisodeType
    <3>2. QED
      BY <1>0, <2>1, <2>3, <2>7, <3>1 DEF Shares
  <2>13. Marked(s.calls[c], t.calls[c])
    <3>1. t.calls[c] = g[c]
      BY <1>0, <2>6, <2>7 DEF CallType
    <3>2. s.calls[c].failed \in BOOLEAN
      BY <1>0 DEF CallType
    <3>3. g[c] = [s.calls[c] EXCEPT !.failed = s.calls[c].failed \/ c \in e.waiters]
      BY <2>6
    <3>4. CASE c \in e.waiters
      <4>1. (s.calls[c].failed \/ c \in e.waiters) = TRUE
        BY <3>4
      <4>2. QED
        BY <3>1, <3>3, <4>1, Zenon DEF Marked
    <3>5. CASE c \notin e.waiters
      <4>1. (s.calls[c].failed \/ c \in e.waiters) = s.calls[c].failed
        BY <3>2, <3>5
      <4>2. g[c] = [s.calls[c] EXCEPT !.failed = s.calls[c].failed]
        BY <3>3, <4>1, Zenon
      <4>3. g[c] = s.calls[c]
        BY <1>0, <4>2 DEF CallType
      <4>4. QED
        BY <3>1, <4>3 DEF Marked
    <3>6. QED
      BY <3>4, <3>5
  <2>14. QED
    BY <2>10, <2>11, <2>12, <2>13 DEF t
<1>3. QED
  BY <1>1, <1>2

(* Either way the call may come to the gate, unless it has no attempt left.*)
LEMMA FailedGoes ==
  ASSUME NEW s, NEW c \in Calls, Others(s, c), s.calls[c].pc \in {"upstream", "streaming"},
         Probes(s, c), ~s.calls[c].failed
  PROVE  LET t == Failed(s, c) IN
         /\ Others(t, c) /\ Apart(s, t, c) /\ Shares(s, t)
         /\ Marked(s.calls[c], t.calls[c]) /\ Ready(t, c)
         /\ ~MayRetry(s, c) => ~LedBy(t, c)
<1>1. CASE MayRetry(s, c)
  <2>1. Failed(s, c) = FailedWithAttemptsLeft(s, c)
    BY <1>1 DEF Failed
  <2>2. QED
    BY <1>1, <2>1, FailedWithAttemptsLeftGoes DEF Shares, Ahead
<1>2. CASE ~MayRetry(s, c)
  <2>1. Failed(s, c) = FailedForGood(s, c)
    BY <1>2 DEF Failed
  <2>2. QED
    BY <1>2, <2>1, FailedForGoodGoes DEF Ready
<1>3. QED
  BY <1>1, <1>2

-----------------------------------------------------------------------------
(* Where the call of a step ends up. *)

\* The call has come to rest: all is well again, and a call that had failed
\* still has, made no attempt and leads nothing.
Ends(s, t, c) ==
  /\ Sound(t) /\ Apart(s, t, c) /\ Ahead(s, t)
  /\ t.calls[c].failed = s.calls[c].failed /\ t.calls[c].attempts = s.calls[c].attempts
  /\ s.calls[c].failed => ~LedBy(t, c)

\* A call that is on its way to the gate, or out.
Able(s, c) == s.calls[c].permit.gen < s.generation /\ s.calls[c].pc # "queued"

(* A step that ends well after one that went well.                         *)
LEMMA EndsChain ==
  ASSUME NEW s, NEW u, NEW t, NEW c \in Calls, Others(s, c), Others(u, c),
         Apart(s, u, c), Ahead(s, u), u.calls[c].failed = s.calls[c].failed,
         u.calls[c].attempts = s.calls[c].attempts, Ends(u, t, c)
  PROVE  Ends(s, t, c)
<1>1. /\ Good(s) /\ Good(u) /\ Good(t) /\ Dated(s) /\ Dated(u)
      /\ Shares(s, u) /\ Ahead(u, t) /\ Apart(u, t, c)
      /\ u.calls[c].failed => t.calls[c].failed
  BY DEF Others, Ends, Sound, Ahead, Shares
<1>2. Ahead(s, t)
  BY <1>1, AheadChains
<1>3. Apart(s, t, c)
  BY <1>1, ApartChains
<1>4. QED
  BY <1>2, <1>3 DEF Ends

(* Putting the record of c where it suits the state ends the step.         *)
LEMMA PutEnds ==
  ASSUME NEW s, NEW c \in Calls, Others(s, c), NEW r, Good(PutC(s, c, r)),
         Shape(c, r), r.permit.gen < s.generation, Joins(s.episode, c, r),
         r.failed = s.calls[c].failed, r.attempts = s.calls[c].attempts,
         r.failed => ~LedBy(s, c)
  PROVE  Ends(s, PutC(s, c, r), c)
<1> DEFINE t == PutC(s, c, r)
<1>1. /\ Others(t, c) /\ Apart(s, t, c) /\ Ahead(s, t)
      /\ t.episode = s.episode /\ t.generation = s.generation /\ t.calls[c] = r
  BY PutGoes
<1> HIDE DEF t
<1>2. Sound(t)
  BY <1>1 DEF Sound, Others, Suits
<1>3. QED
  BY <1>1, <1>2 DEF Ends, LedBy, t

\* If the call leads, a task is to give its probe back.
Released(s, c) ==
  LedBy(s, c) => /\ s.calls[c].pending /\ s.episode.probing
                 /\ Heads(s.episode, c, s.calls[c])

(* A call that leads no episode may leave, and so may one whose probe is   *)
(* still to be given back.                                                 *)
LEMMA LeaveEnds ==
  ASSUME NEW s, NEW c \in Calls, Others(s, c), Able(s, c), Released(s, c)
  PROVE  Ends(s, Leave(s, c), c)
<1>1. Good(s) /\ s.calls[c] \in Budgeted /\ s.calls[c] \in CallType
  BY GoodParts DEF Others
<1>2. CASE s.calls[c].outer
  <2> DEFINE r == [s.calls[c] EXCEPT !.pc = "closing", !.outer = FALSE,
                                     !.resolved = TRUE, !.next = "leave"]
  <2>1. /\ r.pc = "closing" /\ r.resolved /\ r.next = "leave"
        /\ r.failed = s.calls[c].failed /\ r.attempts = s.calls[c].attempts
        /\ r.permit = s.calls[c].permit /\ r.pending = s.calls[c].pending
    BY <1>1 DEF CallType
  <2>2. Leave(s, c) = PutC(s, c, r)
    BY <1>2 DEF Leave, PutC
  <2> HIDE DEF r
  <2>3. Good(PutC(s, c, r))
    BY <1>1, <2>2, LeaveMoves DEF Moves, Able
  <2>4. Shape(c, r) /\ Joins(s.episode, c, r)
    BY <2>1 DEF Shape, Aside, Joins, LedBy, Released, Heads
  <2>5. r.failed => ~LedBy(s, c)
    BY <2>1 DEF Released, Heads
  <2>6. QED
    BY <2>1, <2>2, <2>3, <2>4, <2>5, PutEnds DEF Able
<1>3. CASE ~s.calls[c].outer
  <2> DEFINE r == [s.calls[c] EXCEPT !.pc = "done"]
  <2>1. /\ r.pc = "done"
        /\ r.failed = s.calls[c].failed /\ r.attempts = s.calls[c].attempts
        /\ r.permit = s.calls[c].permit /\ r.pending = s.calls[c].pending
    BY <1>1 DEF CallType
  <2>2. Leave(s, c) = PutC(s, c, r)
    BY <1>3 DEF Leave, At, PutC
  <2> HIDE DEF r
  <2>3. Good(PutC(s, c, r))
    BY <1>1, <2>2, LeaveMoves DEF Moves, Able
  <2>4. Shape(c, r) /\ Joins(s.episode, c, r)
    BY <2>1 DEF Shape, Aside, Joins, LedBy, Released, Heads
  <2>5. r.failed => ~LedBy(s, c)
    BY <2>1 DEF Released, Heads
  <2>6. QED
    BY <2>1, <2>2, <2>3, <2>4, <2>5, PutEnds DEF Able
<1>4. QED
  BY <1>2, <1>3

(* A call that is given a permit that suits the episode.                   *)
LEMMA PermitEnds ==
  ASSUME NEW s, NEW c \in Calls, Others(s, c), Able(s, c), MayRetry(s, c),
         ~s.calls[c].failed, ~s.calls[c].pending,
         NEW place \in {"waiting", "backoff", "limiter"},
         NEW probe \in BOOLEAN, NEW gen \in Nat, gen < s.generation,
         \A r : /\ r.pc = place /\ r.permit = [probe |-> probe, gen |-> gen]
                /\ ~r.failed
                => Joins(s.episode, c, r)
  PROVE  Ends(s, Permit(s, c, place, probe, gen), c)
<1> DEFINE p == [probe |-> probe, gen |-> gen]
           r == [s.calls[c] EXCEPT !.pc = place, !.permit = p]
<1>1. Good(s) /\ s.calls[c] \in CallType
  BY GoodParts DEF Others
<1>2. /\ r.pc = place /\ r.permit = p /\ r.failed = s.calls[c].failed
      /\ r.attempts = s.calls[c].attempts /\ r.pending = s.calls[c].pending
      /\ p.gen = gen
  BY <1>1 DEF CallType
<1>3. Permit(s, c, place, probe, gen) = PutC(s, c, r)
  BY DEF Permit, PutC
<1>4. Joins(s.episode, c, r)
  BY <1>2
<1> HIDE DEF r, p
<1>5. Good(PutC(s, c, r))
  BY <1>1, <1>3, PermitMoves DEF Moves, Able
<1>6. Shape(c, r) /\ r.permit.gen < s.generation
  BY <1>2 DEF Shape
<1>7. QED
  BY <1>2, <1>3, <1>4, <1>5, <1>6, PutEnds

(* An episode that goes to c, or that c joins or leaves, concerns nobody   *)
(* else.                                                                   *)
LEMMA PutEpisodeGoes ==
  ASSUME NEW s, NEW c \in Calls, Others(s, c), NEW f \in EpisodeType, EpisodeOK(f),
         s.episode # None, f.gen = s.episode.gen, f.phase = s.episode.phase,
         \/ f.leader \in {c, None}
         \/ f.leader = s.episode.leader /\ f.probing = s.episode.probing,
         f.waiters \ {c} = s.episode.waiters \ {c},
         f.phase # "open" => f.waiters = {}
  PROVE  /\ Others(PutE(s, f), c) /\ Apart(s, PutE(s, f), c) /\ Ahead(s, PutE(s, f))
         /\ PutE(s, f).generation = s.generation /\ PutE(s, f).calls = s.calls
         /\ PutE(s, f).episode = f
<1> DEFINE u == PutE(s, f)
<1>1. /\ Good(u) /\ u.calls = s.calls /\ u.episode = f /\ u.generation = s.generation
      /\ s.generation \in Nat /\ f # None /\ None \notin Calls
      /\ s.episode \in EpisodeType
  BY PutEpisode, GoodParts, NoneIsNoEpisode, AdmissionAssumption
     DEF Others, PutE, Good, StateType, LedBy
<1> HIDE DEF u
<1>2. Dated(u)
  BY <1>1 DEF Dated, Others
<1>3. Turns(s, u, c)
  <2>1. \A d \in Calls : d # c => (d \in f.waiters <=> d \in s.episode.waiters)
    OBVIOUS
  <2>2. f.phase = "open" => s.episode.waiters \ {c} \subseteq f.waiters
    OBVIOUS
  <2>3. \A d \in Calls : d # c /\ f.leader = d =>
          /\ s.episode.leader = d /\ f.probing = s.episode.probing
    BY <1>1
  <2>4. QED
    BY <1>1, <2>1, <2>2, <2>3 DEF Turns, LedBy
<1>4. \A d \in Calls : Beside(s.calls[d], u.calls[d]) /\ u.calls[d].failed = s.calls[d].failed
  BY <1>1 DEF Beside
<1>5. Others(u, c) /\ Apart(s, u, c)
  BY <1>1, <1>2, <1>3, <1>4, OthersGo
<1>6. QED
  BY <1>1, <1>5 DEF Ahead, u

(* A call that may lead the episode probes it or sleeps.                   *)
LEMMA LeadEnds ==
  ASSUME NEW s, NEW c \in Calls, Others(s, c), Able(s, c), MayRetry(s, c),
         ~s.calls[c].failed, ~s.calls[c].pending, Ready(s, c),
         s.episode # None, s.episode.phase = "open", s.episode.leader \in {c, None}
  PROVE  Ends(s, Lead(s, c), c)
<1> DEFINE e == IF s.episode.leader = c THEN s.episode
                ELSE [s.episode EXCEPT !.leader = c, !.waiters = @ \ {c}]
           t == PutE(s, e)
           p == [e EXCEPT !.probing = TRUE]
           u == PutE(s, p)
<1>1. /\ s.episode \in EpisodeType /\ EpisodeOK(s.episode) /\ c # None
      /\ s.episode.gen < s.generation
  BY GoodParts, AdmissionAssumption DEF Others, Good, Dated
<1>2. /\ e \in EpisodeType /\ e.leader = c /\ e.phase = "open"
      /\ ~e.probing /\ e.gen = s.episode.gen
      /\ e.waiters = s.episode.waiters \ {c}
  BY <1>1 DEF EpisodeType, Ready, LedBy, EpisodeOK
<1>3. e.gen \in Nat /\ e.ready \in BOOLEAN
  BY <1>2 DEF EpisodeType
<1>4. /\ p \in EpisodeType /\ p.leader = c /\ p.phase = "open" /\ p.probing
      /\ p.gen = e.gen /\ p.waiters = e.waiters
  BY <1>2 DEF EpisodeType
<1>5. EpisodeOK(e) /\ EpisodeOK(p)
  BY <1>1, <1>2, <1>4 DEF EpisodeOK
<1>6. Lead(s, c) = IF e.ready THEN Permit(u, c, "limiter", TRUE, e.gen)
                   ELSE Permit(t, c, "backoff", FALSE, e.gen)
  <2>1. t.episode = e /\ [t EXCEPT !.episode.probing = TRUE] = u
    BY DEF Others, Good, StateType, PutE
  <2>2. Lead(s, c) = CASE e.probing -> Permit(t, c, "waiting", FALSE, e.gen)
                       [] ~e.probing /\ e.ready -> Permit(u, c, "limiter", TRUE, e.gen)
                       [] OTHER -> Permit(t, c, "backoff", FALSE, e.gen)
    BY <2>1 DEF Lead, PutE
  <2> HIDE DEF e, t, u
  <2>3. QED
    BY <1>2, <2>2
<1> HIDE DEF e, p
<1>7. /\ Others(t, c) /\ Apart(s, t, c) /\ Ahead(s, t) /\ t.generation = s.generation
      /\ t.calls = s.calls /\ t.episode = e
  BY <1>2, <1>5, PutEpisodeGoes
<1>8. /\ Others(u, c) /\ Apart(s, u, c) /\ Ahead(s, u) /\ u.generation = s.generation
      /\ u.calls = s.calls /\ u.episode = p
  BY <1>2, <1>4, <1>5, PutEpisodeGoes
<1> HIDE DEF t, u
<1>9. /\ Able(t, c) /\ MayRetry(t, c) /\ Able(u, c) /\ MayRetry(u, c)
      /\ e.gen < s.generation
  BY <1>1, <1>2, <1>7, <1>8 DEF Able, MayRetry
<1>10. CASE e.ready
  <2>1. \A r : /\ r.pc = "limiter" /\ r.permit = [probe |-> TRUE, gen |-> e.gen]
               /\ ~r.failed
               => Joins(p, c, r)
    BY <1>2, <1>4 DEF Joins, Heads
  <2>2. Ends(u, Permit(u, c, "limiter", TRUE, e.gen), c)
    BY <1>3, <1>8, <1>9, <2>1, PermitEnds
  <2>3. QED
    BY <1>6, <1>8, <1>10, <2>2, EndsChain
<1>11. CASE ~e.ready
  <2>1. \A r : /\ r.pc = "backoff" /\ r.permit = [probe |-> FALSE, gen |-> e.gen]
               /\ ~r.failed
               => Joins(e, c, r)
    <3>1. [probe |-> FALSE, gen |-> e.gen].gen = e.gen
      OBVIOUS
    <3>2. QED
      BY <1>2, <3>1 DEF Joins, Heads
  <2>2. Ends(t, Permit(t, c, "backoff", FALSE, e.gen), c)
    BY <1>3, <1>7, <1>9, <2>1, PermitEnds
  <2>3. QED
    BY <1>6, <1>7, <1>11, <2>2, EndsChain
<1>12. QED
  BY <1>10, <1>11

(* A call that comes to the gate leaves with its error, passes, leads,     *)
(* waits or sleeps.                                                        *)
LEMMA GateEnds ==
  ASSUME NEW s, NEW c \in Calls, Others(s, c), Able(s, c), MayRetry(s, c),
         ~s.calls[c].pending, Ready(s, c)
  PROVE  Ends(s, Gate(s, c), c)
<1> DEFINE e == s.episode
<1>0. Good(s) /\ s.generation \in Nat /\ c # None
  BY GoodParts, AdmissionAssumption DEF Others
<1>1. CASE s.calls[c].failed
  <2>1. Gate(s, c) = Leave(s, c) /\ ~LedBy(s, c)
    BY <1>1 DEF Gate, Ready
  <2>2. QED
    BY <2>1, LeaveEnds DEF Released
<1>2. CASE ~s.calls[c].failed /\ e = None
  <2>1. Gate(s, c) = Permit(s, c, "limiter", FALSE, 0)
    BY <1>2 DEF Gate, PassGate
  <2>2. 0 \in Nat /\ 0 < s.generation
    <3>1. s.calls[c].permit.gen \in Nat
      BY <1>0, GoodParts
    <3>2. QED
      BY <1>0, <3>1 DEF Able
  <2>3. \A r : Joins(e, c, r)
    BY <1>2 DEF Joins
  <2>4. QED
    BY <1>2, <2>1, <2>2, <2>3, PermitEnds
<1>3. CASE ~s.calls[c].failed /\ e # None /\ e.phase = "cooling"
  <2>1. Gate(s, c) = Leave(s, c) /\ ~LedBy(s, c)
    BY <1>0, <1>3 DEF Gate, PassGate, LedBy, Good, EpisodeOK
  <2>2. QED
    BY <2>1, LeaveEnds DEF Released
<1>4. CASE ~s.calls[c].failed /\ e # None /\ e.phase = "cooled"
  <2> DEFINE u == StartEpisode(s, c, TRUE)
  <2>1. Gate(s, c) = Lead(u, c)
    BY <1>4 DEF Gate, PassGate
  <2>2. PICK ready \in BOOLEAN : u = StartEpisode(s, c, ready)
    <3>1. TRUE \in BOOLEAN /\ u = StartEpisode(s, c, TRUE)
      OBVIOUS
    <3>2. QED
      BY <3>1, Zenon
  <2> HIDE DEF u, e
  <2>3. /\ Others(u, c) /\ Apart(s, u, c) /\ Ahead(s, u)
        /\ u.generation = s.generation + 1 /\ u.calls = s.calls
        /\ u.episode # None /\ u.episode.leader = c /\ ~u.episode.probing
        /\ u.episode.waiters = {} /\ u.episode.phase = "open"
    <3>1. /\ Good(u) /\ u.calls = s.calls
          /\ u.generation = s.generation + 1 /\ u.episode \in EpisodeType
          /\ u.episode.gen = s.generation /\ u.episode.leader = c
          /\ u.episode.waiters = {} /\ u.episode.phase = "open"
          /\ ~u.episode.probing
      BY <2>2, LedEpisode
    <3>2. QED
      BY <3>1, NewEpisodeGoes
  <2>4. s.calls[c].permit.gen \in Nat
    BY <1>0, GoodParts
  <2>5. Able(u, c) /\ MayRetry(u, c) /\ Ready(u, c)
    BY <1>0, <1>4, <2>3, <2>4 DEF Able, MayRetry, Ready, e
  <2>6. Ends(u, Lead(u, c), c)
    BY <1>4, <2>3, <2>5, LeadEnds
  <2>7. QED
    BY <2>1, <2>3, <2>6, EndsChain
<1>5. CASE ~s.calls[c].failed /\ e # None /\ e.phase = "open" /\ e.leader \in {c, None}
  <2>1. Gate(s, c) = Lead(s, c)
    BY <1>5 DEF Gate, PassGate
  <2>2. QED
    BY <1>5, <2>1, LeadEnds
<1>6. CASE ~s.calls[c].failed /\ e # None /\ e.phase = "open" /\ e.leader \notin {c, None}
  <2> DEFINE f == [e EXCEPT !.waiters = @ \cup {c}]
             u == PutE(s, f)
  <2>1. e \in EpisodeType /\ EpisodeOK(e) /\ e.gen < s.generation
    BY <1>0, <1>6, GoodParts DEF Good, Others, Dated
  <2>2. /\ f \in EpisodeType /\ f.gen = e.gen /\ f.leader = e.leader /\ f.phase = e.phase
        /\ f.waiters = e.waiters \cup {c} /\ f.probing = e.probing /\ e.gen \in Nat
    BY <2>1 DEF EpisodeType
  <2>3. EpisodeOK(f)
    BY <1>6, <2>1, <2>2 DEF EpisodeOK
  <2>4. Gate(s, c) = Permit(u, c, "waiting", FALSE, e.gen)
    BY <1>0, <1>6 DEF Gate, PassGate, PutE, Good, StateType
  <2> HIDE DEF f
  <2>5. /\ Others(u, c) /\ Apart(s, u, c) /\ Ahead(s, u) /\ u.generation = s.generation
        /\ u.calls = s.calls /\ u.episode = f
    BY <1>6, <2>2, <2>3, PutEpisodeGoes
  <2> HIDE DEF u
  <2>6. \A r : r.pc = "waiting" => Joins(f, c, r)
    BY <1>6, <2>2 DEF Joins, Aside
  <2>7. Able(u, c) /\ MayRetry(u, c)
    BY <2>5 DEF Able, MayRetry
  <2>8. Ends(u, Permit(u, c, "waiting", FALSE, e.gen), c)
    BY <1>6, <2>1, <2>2, <2>5, <2>6, <2>7, PermitEnds
  <2>9. QED
    BY <2>4, <2>5, <2>8, EndsChain
<1>7. e # None => e.phase \in {"open", "cooling", "cooled"}
  BY <1>0, GoodParts DEF EpisodeType
<1>8. QED
  BY <1>1, <1>2, <1>3, <1>4, <1>5, <1>6, <1>7

(* A call goes on, to the token, the gate or its end.                      *)
LEMMA ProceedEnds ==
  ASSUME NEW s, NEW c \in Calls, Others(s, c), Able(s, c), NEW next \in {"retry", "leave"},
         next = "retry" => MayRetry(s, c) /\ ~s.calls[c].pending,
         Ready(s, c), next = "leave" => ~LedBy(s, c)
  PROVE  Ends(s, Proceed(s, c, next), c)
<1>1. CASE next = "retry" /\ c \in Codex
  <2> DEFINE r == [s.calls[c] EXCEPT !.pc = "access"]
  <2>1. Good(s) /\ s.calls[c] \in CallType
    BY GoodParts DEF Others
  <2>2. /\ r.pc = "access" /\ r.permit = s.calls[c].permit /\ r.failed = s.calls[c].failed
        /\ r.attempts = s.calls[c].attempts /\ r.pending = s.calls[c].pending
    BY <2>1 DEF CallType
  <2>3. Proceed(s, c, next) = PutC(s, c, r)
    BY <1>1 DEF Proceed, At, PutC
  <2> HIDE DEF r
  <2>4. Good(PutC(s, c, r))
    BY <1>1, <2>1, <2>3, ProceedMoves DEF Moves, Able
  <2>5. Shape(c, r) /\ Joins(s.episode, c, r)
    BY <1>1, <2>2 DEF Shape, Joins, Aside, Heads, Ready, LedBy
  <2>6. r.failed => ~LedBy(s, c)
    BY <2>2 DEF Ready
  <2>7. QED
    BY <2>2, <2>3, <2>4, <2>5, <2>6, PutEnds DEF Able
<1>2. CASE next = "leave"
  BY <1>2, LeaveEnds DEF Proceed, Released
<1>3. CASE next = "retry" /\ c \notin Codex
  BY <1>3, GateEnds DEF Proceed
<1>4. QED
  BY <1>1, <1>2, <1>3

(* What follows an answer.                                                 *)
LEMMA AfterAnswerEnds ==
  ASSUME NEW s, NEW c \in Calls, Others(s, c), Able(s, c), ~s.calls[c].pending,
         s.calls[c].pc \in {"upstream", "streaming"}, NEW next \in {"retry", "leave"},
         next = "retry" => MayRetry(s, c),
         Ready(s, c), next = "leave" => ~LedBy(s, c)
  PROVE  Ends(s, AfterAnswer(s, c, next), c)
<1>1. Good(s) /\ s.calls[c] \in Budgeted /\ s.calls[c] \in CallType
  BY GoodParts DEF Others
<1>2. CASE c \in Codex \/ s.calls[c].pc = "streaming"
  <2> DEFINE r == [s.calls[c] EXCEPT !.pc = "closing", !.resolved = TRUE, !.next = next]
  <2>1. /\ r.pc = "closing" /\ r.resolved /\ r.next = next
        /\ r.permit = s.calls[c].permit /\ r.failed = s.calls[c].failed
        /\ r.attempts = s.calls[c].attempts /\ r.pending = s.calls[c].pending
    BY <1>1 DEF CallType
  <2>2. AfterAnswer(s, c, next) = PutC(s, c, r)
    BY <1>2 DEF AfterAnswer, PutC
  <2> HIDE DEF r
  <2>3. Good(PutC(s, c, r))
    BY <1>1, <2>2, AfterAnswerMoves DEF Moves
  <2>4. Shape(c, r) /\ Joins(s.episode, c, r)
    BY <2>1 DEF Shape, Joins, Aside, Heads, Ready, LedBy
  <2>5. r.failed => ~LedBy(s, c)
    BY <2>1 DEF Ready
  <2>6. QED
    BY <2>1, <2>2, <2>3, <2>4, <2>5, PutEnds DEF Able
<1>3. CASE ~(c \in Codex \/ s.calls[c].pc = "streaming")
  <2> DEFINE r == [s.calls[c] EXCEPT !.resolved = TRUE]
             t == PutC(s, c, r)
             u == ReleaseSlot(t)
  <2>1. /\ r \in Budgeted /\ r.pc = s.calls[c].pc /\ r.permit = s.calls[c].permit
        /\ r.failed = s.calls[c].failed /\ r.attempts = s.calls[c].attempts
        /\ r.pending = s.calls[c].pending
    BY <1>1 DEF Budgeted, Coming, CallType
  <2>2. AfterAnswer(s, c, next) = Proceed(u, c, next)
    BY <1>3 DEF AfterAnswer, PutC
  <2> HIDE DEF r
  <2>3. Good(t)
    BY <1>1, <2>1, PutCall
  <2>4. /\ Others(t, c) /\ Apart(s, t, c) /\ Ahead(s, t) /\ t.episode = s.episode
        /\ t.generation = s.generation /\ t.calls[c] = r
    BY <2>3, PutGoes
  <2> HIDE DEF t
  <2>5. t.calls[c].pc # "queued"
    BY <2>1, <2>4
  <2>6. /\ Others(u, c) /\ Apart(t, u, c) /\ Ahead(t, u) /\ u.episode = s.episode
        /\ u.generation = s.generation /\ u.calls[c] = r
    BY <2>4, <2>5, ReleaseSlotGoes
  <2> HIDE DEF u
  <2>7. /\ Able(u, c) /\ Ready(u, c)
        /\ next = "leave" => ~LedBy(u, c)
        /\ next = "retry" => MayRetry(u, c) /\ ~u.calls[c].pending
    BY <2>1, <2>6 DEF Able, Ready, LedBy, MayRetry
  <2>8. Ends(u, Proceed(u, c, next), c)
    BY <2>6, <2>7, ProceedEnds
  <2>9. Ends(t, Proceed(u, c, next), c)
    BY <2>4, <2>6, <2>8, EndsChain
  <2>10. QED
    BY <2>1, <2>2, <2>4, <2>9, EndsChain
<1>4. QED
  BY <1>2, <1>3

-----------------------------------------------------------------------------
(* The actions keep the leaders and the failed calls in their places. *)

\* An action of c leaves all well; it ends an episode only with its waiters; and
\* if c had failed it still has, made no attempt and leads nothing.
Behaves(c) ==
  \E t : /\ Become(t) /\ Sound(t) /\ Apart(Now, t, c) /\ Shares(Now, t)
         /\ calls[c].failed => /\ t.calls[c].failed /\ t.calls[c].attempts = calls[c].attempts
                               /\ ~LedBy(t, c)

(* A step whose call ends up well.                                         *)
LEMMA EndsBehaves ==
  ASSUME Sound(Now), NEW c \in Calls, NEW u, NEW t,
         Others(u, c), Apart(Now, u, c), Shares(Now, u), Ends(u, t, c), Become(t),
         calls[c].failed => /\ u.calls[c].failed
                            /\ u.calls[c].attempts = calls[c].attempts
  PROVE  Behaves(c)
<1>1. /\ Good(Now) /\ Good(u) /\ Good(t) /\ Dated(Now) /\ Dated(u)
      /\ Ahead(u, t) /\ Apart(u, t, c) /\ u.calls[c].failed => t.calls[c].failed
  BY DEF Sound, Others, Ends
<1>2. Shares(Now, t) /\ Apart(Now, t, c)
  BY <1>1, AheadChains, ApartChains DEF Sound, Others, Ends
<1>3. calls[c].failed => /\ t.calls[c].failed /\ t.calls[c].attempts = calls[c].attempts
                         /\ ~LedBy(t, c)
  BY DEF Ends
<1>4. QED
  BY <1>2, <1>3 DEF Behaves, Ends

(* A state in which all is well is one in which all is well but for c.     *)
LEMMA SoundNow ==
  ASSUME Sound(Now), NEW c \in Calls
  PROVE  /\ Others(Now, c) /\ Apart(Now, Now, c) /\ Ahead(Now, Now) /\ Shares(Now, Now)
         /\ Suits(Now, c) /\ Good(Now)
         /\ Now.calls = calls /\ Now.episode = episode /\ Now.generation = generation
         /\ calls[c] \in CallType /\ calls[c] \in Budgeted
         /\ calls[c].permit.gen < generation
<1>1. /\ Now.calls = calls /\ Now.episode = episode /\ Now.generation = generation
      /\ generation \in Nat /\ calls[c] \in CallType /\ calls[c] \in Budgeted
  BY GoodParts DEF Now, Sound
<1>2. Apart(Now, Now, c) /\ Ahead(Now, Now) /\ Shares(Now, Now)
  BY <1>1 DEF Apart, Beside, Ahead, Shares
<1>3. QED
  BY <1>1, <1>2 DEF Sound, Others, Suits

(* An action that only changes the record of c, to one that suits.         *)
LEMMA RecordBehaves ==
  ASSUME Sound(Now), NEW c \in Calls, NEW t, Become(t), Good(t),
         t.episode = episode, t.generation = generation,
         \A d \in Calls : d # c => t.calls[d] = calls[d],
         Shape(c, t.calls[c]), t.calls[c].permit.gen < generation,
         Joins(episode, c, t.calls[c]),
         calls[c].failed => /\ t.calls[c].failed /\ t.calls[c].attempts = calls[c].attempts
                            /\ ~LedBy(Now, c)
  PROVE  Behaves(c)
<1>1. /\ Now.calls = calls /\ Now.episode = episode /\ Now.generation = generation
      /\ generation \in Nat
  BY SoundNow, GoodParts DEF Now, Sound
<1>2. Sound(t)
  BY <1>1 DEF Sound, Dated, Suits
<1>3. Apart(Now, t, c) /\ Shares(Now, t)
  BY <1>1 DEF Apart, Beside, Shares, LedBy
<1>4. ~LedBy(Now, c) => ~LedBy(t, c)
  BY <1>1 DEF LedBy
<1>5. QED
  BY <1>2, <1>3, <1>4 DEF Behaves

\* A call on its attempt, or about to make it.
Trying(r) ==
  \/ r.pc \in {"limiter", "queued", "granted", "upstream", "streaming"}
  \/ r.pc = "closing" /\ ~r.resolved

(* Such a call has not failed and waits for nobody; if it leads, its permit*)
(* is the probe, and it has no answer.                                     *)
LEMMA TryingProbes ==
  ASSUME Sound(Now), NEW c \in Calls, Trying(calls[c])
  PROVE  /\ Probes(Now, c) /\ ~calls[c].failed /\ ~calls[c].pending
         /\ episode # None => c \notin episode.waiters
         /\ calls[c].pc \in {"upstream", "streaming"} /\ calls[c].resolved => ~LedBy(Now, c)
         /\ LedBy(Now, c) => /\ episode.probing /\ episode.phase = "open"
                             /\ calls[c].permit = [probe |-> TRUE, gen |-> episode.gen]
                             /\ calls[c].permit.probe = TRUE
                             /\ calls[c].permit.gen = episode.gen
<1>1. /\ Shape(c, calls[c]) /\ Joins(episode, c, calls[c])
      /\ Now.calls = calls /\ Now.episode = episode /\ EpisodeOK(episode)
      /\ None \notin Calls
  BY SoundNow, AdmissionAssumption DEF Suits, Good
<1>2. ~calls[c].failed /\ ~calls[c].pending /\ (episode # None => c \notin episode.waiters)
  BY <1>1 DEF Shape, Joins, Aside, Trying
<1>3. ASSUME LedBy(Now, c)
      PROVE  /\ episode.probing /\ episode.phase = "open"
             /\ calls[c].permit = [probe |-> TRUE, gen |-> episode.gen]
             /\ ~(calls[c].pc \in {"upstream", "streaming"} /\ calls[c].resolved)
  <2>1. episode # None /\ episode.leader = c /\ Heads(episode, c, calls[c])
    BY <1>1, <1>3 DEF LedBy, Joins
  <2>2. episode.probing
    BY <1>1, <2>1 DEF Heads, Trying, Shape
  <2>3. episode.phase = "open"
    BY <1>1, <2>1 DEF EpisodeOK
  <2>4. QED
    BY <1>2, <2>1, <2>2, <2>3 DEF Heads
<1>4. LedBy(Now, c) => calls[c].permit.probe = TRUE /\ calls[c].permit.gen = episode.gen
  BY <1>3
<1>5. Probes(Now, c)
  BY <1>1, <1>2, <1>3, <1>4 DEF Probes, MatchingProbe, LedBy
<1>6. QED
  BY <1>2, <1>3, <1>4, <1>5

(* A call on its way to the gate may come to it.                           *)
LEMMA ComingReady ==
  ASSUME Sound(Now), NEW c \in Calls,
         \/ calls[c].pc \in {"idle", "access", "waiting", "notified", "backoff"}
         \/ calls[c].pc = "closing" /\ calls[c].resolved /\ calls[c].next = "retry"
  PROVE  /\ Ready(Now, c) /\ Able(Now, c) /\ ~calls[c].pending
         /\ calls[c].pc \in {"idle", "waiting", "notified"} => ~LedBy(Now, c)
         /\ calls[c].pc = "backoff" /\ LedBy(Now, c) => calls[c].permit.gen = episode.gen
<1>1. /\ Shape(c, calls[c]) /\ Joins(episode, c, calls[c])
      /\ Now.calls = calls /\ Now.episode = episode /\ Now.generation = generation
      /\ calls[c].permit.gen < generation
  BY SoundNow DEF Suits
<1>2. ~calls[c].pending
  BY <1>1 DEF Shape
<1>3. LedBy(Now, c) =>
        /\ ~episode.probing /\ ~calls[c].failed /\ c \notin episode.waiters
        /\ calls[c].pc \notin {"idle", "waiting", "notified"}
        /\ calls[c].pc = "backoff" => calls[c].permit.gen = episode.gen
  BY <1>1, <1>2 DEF LedBy, Joins, Heads
<1>4. QED
  BY <1>1, <1>2, <1>3 DEF Ready, Able

(* Calls that come to the gate, or end while they ask for the token.       *)
LEMMA ToTheGateBehaves ==
  ASSUME Sound(Now), NEW c \in Calls,
         Start(c) \/ AccessGranted(c) \/ AccessEnds(c) \/ Recheck(c)
  PROVE  Behaves(c)
<1>1. /\ Others(Now, c) /\ Apart(Now, Now, c) /\ Shares(Now, Now) /\ Good(Now)
      /\ Now.calls = calls /\ Now.episode = episode /\ Now.generation = generation
      /\ calls[c] \in Budgeted /\ calls[c] \in CallType
      /\ Suits(Now, c)
  BY SoundNow
<1>2. /\ calls[c].pc \in {"idle", "access", "waiting", "notified", "backoff"}
      /\ calls[c].pc \in Coming
  BY DEF Start, AccessGranted, AccessEnds, Recheck, Coming
<1>3. Ready(Now, c) /\ Able(Now, c) /\ ~calls[c].pending /\ MayRetry(Now, c)
  BY <1>1, <1>2, ComingReady, ComingAsksNothing
<1>4. CASE Start(c)
  <2>1. ~LedBy(Now, c)
    BY <1>4, ComingReady DEF Start
  <2>2. Ends(Now, Proceed(Now, c, "retry"), c)
    BY <1>1, <1>3, <2>1, ProceedEnds
  <2>3. QED
    BY <1>1, <1>4, <2>2, EndsBehaves DEF Start
<1>5. CASE AccessGranted(c) \/ Recheck(c)
  <2>1. Ends(Now, Gate(Now, c), c)
    BY <1>1, <1>3, GateEnds
  <2>2. QED
    BY <1>1, <1>5, <2>1, EndsBehaves DEF AccessGranted, Recheck
<1>6. CASE AccessEnds(c)
  <2> DEFINE r == [calls[c] EXCEPT !.pc = "done"]
             t == PutC(Now, c, r)
  <2>1. /\ r.pc = "done" /\ r.permit = calls[c].permit /\ r.failed = calls[c].failed
        /\ r.attempts = calls[c].attempts /\ r.pending = calls[c].pending
        /\ r.resolved = calls[c].resolved /\ r.next = calls[c].next
    BY <1>1 DEF CallType
  <2>2. r \in Budgeted
    BY <1>1 DEF Budgeted, Coming, CallType, Place
  <2>3. At(Now, c, "done") = t
    BY <1>1 DEF At, PutC
  <2> HIDE DEF r
  <2>4. Good(t)
    BY <1>1, <1>2, <2>1, <2>2, PutCall
  <2>5. /\ calls[c].pc = "access" /\ AccessInterrupted /\ c \in Codex
    BY <1>1, <1>6 DEF AccessEnds, Suits, Shape
  <2>6. Shape(c, r)
    BY <1>3, <2>1 DEF Shape, Aside
  <2>7. Joins(episode, c, r)
    BY <1>1, <1>3, <2>1, <2>5 DEF Joins, Suits, Aside, Heads, Ready, LedBy
  <2>8. Ends(Now, t, c)
    BY <1>1, <1>3, <2>1, <2>4, <2>6, <2>7, PutEnds DEF Suits, Ready
  <2> HIDE DEF t
  <2>9. QED
    BY <1>1, <1>6, <2>3, <2>8, EndsBehaves DEF AccessEnds
<1>7. QED
  BY <1>4, <1>5, <1>6

(* The leader's sleep ends: it probes, or comes to the gate.               *)
LEMMA BackoffEndsBehaves ==
  ASSUME Sound(Now), NEW c \in Calls, BackoffEnds(c)
  PROVE  Behaves(c)
<1>1. /\ Others(Now, c) /\ Apart(Now, Now, c) /\ Shares(Now, Now) /\ Good(Now)
      /\ Now.calls = calls /\ Now.episode = episode /\ Now.generation = generation
  BY SoundNow
<1>2. calls[c].pc = "backoff" /\ calls[c].pc \in Coming
  BY DEF BackoffEnds, Coming
<1>3. Ready(Now, c) /\ Able(Now, c) /\ ~calls[c].pending /\ MayRetry(Now, c)
  BY <1>1, <1>2, ComingReady, ComingAsksNothing
<1> DEFINE wakes == /\ episode # None /\ episode.gen = calls[c].permit.gen
                    /\ episode.phase = "open" /\ episode.leader = c /\ ~episode.probing
<1>4. CASE ~wakes
  <2>1. Ends(Now, Gate(Now, c), c)
    BY <1>1, <1>3, GateEnds
  <2>2. QED
    BY <1>1, <1>4, <2>1, EndsBehaves DEF BackoffEnds
<1>5. CASE wakes
  <2>1. episode.ready /\ episode \in EpisodeType
    BY <1>1, <1>5, GoodParts DEF BackoffEnds, Sleeps
  <2>2. ~calls[c].failed
    BY <1>1, <1>3, <1>5 DEF Ready, LedBy
  <2>3. Lead(Now, c) = Permit([Now EXCEPT !.episode.probing = TRUE],
                              c, "limiter", TRUE, episode.gen)
    <3>1. [Now EXCEPT !.episode = episode] = Now
      BY DEF Now
    <3>2. QED
      BY <1>1, <1>5, <2>1, <3>1 DEF Lead
  <2>4. Ends(Now, Lead(Now, c), c)
    BY <1>1, <1>3, <1>5, <2>2, LeadEnds
  <2>5. Become(Lead(Now, c))
    BY <1>5, <2>3 DEF BackoffEnds
  <2>6. QED
    BY <1>1, <2>4, <2>5, EndsBehaves
<1>6. QED
  BY <1>4, <1>5

(* The record of a call that starts its attempt suits.                     *)
LEMMA ClaimBehaves ==
  ASSUME Sound(Now), NEW c \in Calls, calls[c].pc \in {"limiter", "granted"},
         NEW s, Others(s, c), Apart(Now, s, c), Ahead(Now, s), s.calls[c] = calls[c],
         s.episode = episode, s.generation = generation, Become(Claim(s, c))
  PROVE  Behaves(c)
<1> DEFINE r == [calls[c] EXCEPT !.pc = "upstream", !.resolved = FALSE,
                                 !.attempts = calls[c].attempts + 1]
           t == Claim(s, c)
<1>1. /\ Now.calls = calls /\ Now.episode = episode /\ Now.generation = generation
      /\ calls[c] \in Budgeted /\ calls[c] \in CallType /\ Good(Now)
      /\ calls[c].permit.gen < generation /\ Suits(Now, c)
  BY SoundNow
<1>2. Trying(calls[c]) /\ MayRetry(Now, c)
  BY ComingAsksNothing, <1>1 DEF Trying, Coming
<1>3. /\ ~calls[c].failed /\ ~calls[c].pending
      /\ episode # None => c \notin episode.waiters
      /\ LedBy(Now, c) => /\ episode.probing
                          /\ calls[c].permit = [probe |-> TRUE, gen |-> episode.gen]
  BY <1>2, TryingProbes
<1>4. /\ r.pc = "upstream" /\ ~r.resolved /\ ~r.failed /\ ~r.pending
      /\ r.permit = calls[c].permit
  BY <1>1, <1>3 DEF CallType
<1>5. r \in Budgeted
  <2>1. calls[c].attempts + 1 \in 0..MaxAttempts
    BY <1>1, <1>2, AdmissionAssumption DEF CallType, MayRetry
  <2>2. QED
    BY ZenonT(30), <1>1, <2>1 DEF Budgeted, Coming, CallType, Place
<1>6. t = PutC(s, c, r)
  BY DEF Claim, PutC
<1> HIDE DEF r, t
<1>7. Good(t)
  BY <1>4, <1>5, <1>6, PutCall DEF Others
<1>8. /\ Others(t, c) /\ Apart(s, t, c) /\ Ahead(s, t) /\ t.episode = episode
      /\ t.generation = generation /\ t.calls[c] = r
  BY <1>6, <1>7, PutGoes
<1>9. Shape(c, r) /\ Joins(episode, c, r)
  BY <1>1, <1>3, <1>4 DEF Shape, Joins, Heads, LedBy
<1>10. Sound(t)
  BY <1>1, <1>4, <1>8, <1>9 DEF Sound, Others, Suits
<1>11. Apart(Now, t, c) /\ Shares(Now, t)
  <2>1. Shares(Now, s) /\ Good(s) /\ Dated(s) /\ Dated(Now)
    BY DEF Shares, Ahead, Others, Sound
  <2>2. s.calls[c].failed => t.calls[c].failed
    BY <1>3
  <2> QED
    BY <1>1, <1>7, <1>8, <2>1, <2>2, AheadChains, ApartChains
<1>12. QED
  BY <1>3, <1>6, <1>10, <1>11 DEF Behaves, t

(* The limiter, and the semaphore.                                         *)
LEMMA ToTheAttemptBehaves ==
  ASSUME Sound(Now), NEW c \in Calls, LimiterAdmits(c) \/ SlotResumes(c)
  PROVE  Behaves(c)
<1>1. /\ Others(Now, c) /\ Apart(Now, Now, c) /\ Shares(Now, Now) /\ Good(Now)
      /\ Now.calls = calls /\ Now.episode = episode /\ Now.generation = generation
      /\ Now.free = free /\ Now.queue = queue
      /\ calls[c] \in CallType /\ Able(Now, c)
  BY SoundNow DEF Now, Able, LimiterAdmits, SlotResumes
<1>2. calls[c].pc \in Coming /\ calls[c].pc \in {"limiter", "granted"} /\ Trying(calls[c])
  BY DEF LimiterAdmits, SlotResumes, Coming, Trying
<1>3. MayRetry(Now, c)
  BY <1>1, <1>2, ComingAsksNothing
<1>4. /\ Probes(Now, c) /\ ~calls[c].failed /\ ~calls[c].pending
      /\ episode # None => c \notin episode.waiters
      /\ LedBy(Now, c) => /\ episode.probing /\ episode.phase = "open"
                          /\ calls[c].permit = [probe |-> TRUE, gen |-> episode.gen]
                          /\ calls[c].permit.probe = TRUE
  BY <1>2, TryingProbes
<1>5. CASE ~PermitIsCurrent(Now, c)
  <2>1. ~LedBy(Now, c)
    BY <1>1, <1>4, <1>5 DEF PermitIsCurrent, Probes
  <2>2. CASE LimiterAdmits(c)
    <3>1. Become(Gate(Now, c))
      BY <1>1, <1>5, <2>2, StaleIsNotProbe DEF LimiterAdmits
    <3>2. Ends(Now, Gate(Now, c), c)
      BY <1>1, <1>3, <1>4, <2>1, GateEnds DEF Ready
    <3>3. QED
      BY <1>1, <3>1, <3>2, EndsBehaves
  <2>3. CASE SlotResumes(c)
    <3> DEFINE u == ReleaseSlot(Woken(Now))
    <3>1. /\ Others(u, c) /\ Apart(Now, u, c) /\ Ahead(Now, u) /\ u.episode = episode
          /\ u.generation = generation /\ u.calls[c] = calls[c] /\ Good(u)
      BY <1>1, <2>3, WokenReleases DEF SlotResumes
    <3>2. ~PermitIsCurrent(u, c)
      BY <1>1, <1>5, <3>1 DEF PermitIsCurrent, MatchingProbe
    <3>3. Become(Gate(Abandoned(u, c), c))
      BY <1>5, <2>3 DEF SlotResumes
    <3> HIDE DEF u
    <3>4. Become(Gate(u, c))
      BY <3>1, <3>2, <3>3, StaleIsNotProbe
    <3>5. Able(u, c) /\ MayRetry(u, c) /\ Ready(u, c)
      BY <1>1, <1>3, <2>1, <3>1 DEF Able, MayRetry, Ready, LedBy
    <3>6. Ends(u, Gate(u, c), c)
      BY <1>4, <3>1, <3>5, GateEnds
    <3>7. Shares(Now, u)
      BY <3>1 DEF Shares, Ahead
    <3>8. QED
      BY <1>1, <3>1, <3>4, <3>6, <3>7, EndsBehaves
  <2>4. QED
    BY <2>2, <2>3
<1>6. CASE PermitIsCurrent(Now, c) /\ SlotResumes(c)
  <2> DEFINE w == Woken(Now)
  <2>1. Become(Claim(w, c)) /\ Now.calls[c].pc # "queued"
    BY <1>1, <1>6 DEF SlotResumes
  <2>2. /\ Others(w, c) /\ Apart(Now, w, c) /\ Ahead(Now, w) /\ w.calls[c] = calls[c]
        /\ w.episode = episode /\ w.generation = generation
    BY <1>1, <2>1, WokenGoes
  <2> HIDE DEF w
  <2>3. QED
    BY <1>2, <1>6, <2>1, <2>2, ClaimBehaves
<1>7. CASE PermitIsCurrent(Now, c) /\ LimiterAdmits(c) /\ free > 0 /\ queue = <<>> /\ ~Resuming(Now)
  <2> DEFINE s == [Now EXCEPT !.free = @ - 1]
  <2>1. free \in Nat /\ free - 1 \in Nat
    BY <1>1, <1>7 DEF Good, StateType
  <2>2. s \in StateType /\ s.queue = queue
    BY <1>1, <2>1 DEF Good, StateType
  <2>3. s.calls = calls /\ s.episode = episode /\ s.generation = generation
    BY DEF Now
  <2>4. Become(Claim(s, c))
    BY <1>7 DEF LimiterAdmits
  <2> HIDE DEF s
  <2>5. Good(s)
    BY <1>1, <2>2, <2>3 DEF Good, QueueOK
  <2>8. Others(s, c)
    BY <1>1, <2>3, <2>5 DEF Others, Dated, Suits
  <2>9. generation \in Nat
    BY <1>1 DEF Good, StateType
  <2>6. Others(s, c) /\ Apart(Now, s, c) /\ Ahead(Now, s)
    BY <1>1, <2>3, <2>8, <2>9 DEF Apart, Beside, LedBy, Ahead
  <2>7. QED
    BY <1>2, <1>7, <2>3, <2>4, <2>6, ClaimBehaves
<1>8. CASE PermitIsCurrent(Now, c) /\ LimiterAdmits(c) /\ ~(free > 0 /\ queue = <<>> /\ ~Resuming(Now))
  <2> DEFINE r == [calls[c] EXCEPT !.pc = "queued"]
             t == [At(Now, c, "queued") EXCEPT !.queue = Append(@, c)]
  <2>1. Become(t)
    BY <1>8 DEF LimiterAdmits
  <2>2. Good(t) /\ t.episode = episode
    BY <1>1, <1>8, JoinQueueKeeps DEF LimiterAdmits
  <2>3. /\ r.pc = "queued" /\ ~r.failed /\ ~r.pending /\ r.permit = calls[c].permit
        /\ r.resolved = calls[c].resolved
    BY <1>1, <1>4 DEF CallType
  <2>4. t.generation = generation /\ t.calls = [calls EXCEPT ![c] = r]
    BY DEF At, Now
  <2> HIDE DEF r, t
  <2>5. t.calls[c] = r /\ \A d \in Calls : d # c => t.calls[d] = calls[d]
    BY <1>1, <2>4 DEF Good, StateType
  <2>6. Shape(c, r) /\ Joins(episode, c, r)
    BY <1>1, <1>4, <2>3 DEF Shape, Joins, Heads, LedBy
  <2>7. r.permit.gen < generation
    BY <1>1, <2>3 DEF Able
  <2>8. QED
    BY <1>4, <2>1, <2>2, <2>3, <2>4, <2>5, <2>6, <2>7, RecordBehaves
<1>9. QED
  BY <1>5, <1>6, <1>7, <1>8

(* Attempts that are answered, or fail.                                    *)
LEMMA AnswerBehaves ==
  ASSUME Sound(Now), NEW c \in Calls,
         Returns(c) \/ Corrects(c) \/ Fails(c) \/ StreamEnds(c) \/ StreamCut(c)
  PROVE  Behaves(c)
<1>1. /\ Others(Now, c) /\ Apart(Now, Now, c) /\ Shares(Now, Now) /\ Good(Now)
      /\ Now.calls = calls /\ Now.episode = episode /\ Now.generation = generation
      /\ calls[c] \in CallType /\ calls[c].permit.gen < generation
  BY SoundNow
<1>2. calls[c].pc \in {"upstream", "streaming"} /\ Trying(calls[c])
  BY DEF Returns, Corrects, Fails, StreamEnds, StreamCut, Trying
<1>3. /\ Probes(Now, c) /\ ~calls[c].failed /\ ~calls[c].pending
      /\ calls[c].resolved => ~LedBy(Now, c)
  BY <1>2, TryingProbes
<1>4. ASSUME NEW u, Others(u, c), Apart(Now, u, c), Shares(Now, u),
             Marked(calls[c], u.calls[c]), Ready(u, c), NEW next \in {"retry", "leave"},
             next = "retry" => MayRetry(Now, c), next = "leave" => ~LedBy(u, c),
             Become(AfterAnswer(u, c, next))
      PROVE  Behaves(c)
  <2>1. /\ u.calls[c].pc = calls[c].pc /\ u.calls[c].permit = calls[c].permit
        /\ u.calls[c].pending = calls[c].pending /\ u.calls[c].attempts = calls[c].attempts
    BY <1>1, <1>4 DEF Marked, CallType
  <2>2. generation <= u.generation /\ generation \in Nat /\ u.generation \in Nat
        /\ calls[c].permit.gen \in Nat
    BY <1>1, <1>4, GoodParts DEF Shares, Others
  <2>3. Able(u, c) /\ ~u.calls[c].pending /\ (next = "retry" => MayRetry(u, c))
    BY <1>1, <1>2, <1>3, <1>4, <2>1, <2>2 DEF Able, MayRetry
  <2>4. Ends(u, AfterAnswer(u, c, next), c)
    BY <1>2, <1>4, <2>1, <2>3, AfterAnswerEnds
  <2>5. QED
    BY <1>3, <1>4, <2>4, EndsBehaves
<1>5. ASSUME NEW u, Others(u, c), Apart(Now, u, c), Ahead(Now, u), u.calls[c] = calls[c],
             Ready(u, c)
      PROVE  Shares(Now, u) /\ Marked(calls[c], u.calls[c])
  BY <1>5 DEF Shares, Ahead, Marked
<1>6. \A next \in Nexts(c) : next \in {"retry", "leave"} /\ (next # "leave" => MayRetry(Now, c))
  BY DEF Nexts
<1>7. CASE Returns(c)
  <2> DEFINE u == Succeeded(Now, c)
  <2>1. /\ Others(u, c) /\ Apart(Now, u, c) /\ Ahead(Now, u) /\ u.calls[c] = calls[c]
        /\ ~LedBy(u, c)
    <3>1. CASE calls[c].resolved
      BY <1>1, <1>3, <3>1, SoundNow DEF Succeeded
    <3>2. CASE ~calls[c].resolved
      BY <1>1, <1>2, <1>3, <3>2, SucceededGoes
    <3>3. QED
      BY <3>1, <3>2
  <2>2. Become(AfterAnswer(u, c, "leave"))
    BY <1>7 DEF Returns
  <2> HIDE DEF u
  <2>3. Ready(u, c)
    BY <2>1 DEF Ready
  <2>4. QED
    BY <1>4, <1>5, <2>1, <2>2, <2>3
<1>8. CASE Corrects(c)
  <2> DEFINE u == Corrected(Now, c)
  <2>1. /\ Others(u, c) /\ Apart(Now, u, c) /\ Ahead(Now, u) /\ u.calls[c] = calls[c]
        /\ Ready(u, c)
    <3>1. CASE calls[c].resolved
      BY <1>1, <1>3, <3>1, SoundNow DEF Corrected, Ready
    <3>2. CASE ~calls[c].resolved
      BY <1>1, <1>2, <1>3, <3>2, CorrectedGoes
    <3>3. QED
      BY <3>1, <3>2
  <2>2. Become(AfterAnswer(u, c, "retry")) /\ MayRetry(Now, c)
    BY <1>8 DEF Corrects
  <2> HIDE DEF u
  <2>3. QED
    BY <1>4, <1>5, <2>1, <2>2
<1>9. CASE Fails(c)
  <2>1. ~calls[c].resolved
    BY <1>9 DEF Fails
  <2>2. CASE \E next \in IF calls[c].outer /\ calls[c].pc = "upstream"
                         THEN Nexts(c) ELSE {"leave"} :
               Become(AfterAnswer(Rejected(Now, c), c, next))
    <3> DEFINE u == Rejected(Now, c)
    <3>1. PICK next \in {"retry", "leave"} :
            /\ next # "leave" => MayRetry(Now, c)
            /\ Become(AfterAnswer(u, c, next))
      BY <1>6, <2>2
    <3>2. /\ Others(u, c) /\ Apart(Now, u, c) /\ Ahead(Now, u) /\ u.calls[c] = calls[c]
          /\ ~LedBy(u, c)
      BY <1>1, <1>2, <1>3, RejectedGoes
    <3> HIDE DEF u
    <3>3. Ready(u, c)
      BY <3>2 DEF Ready
    <3>4. QED
      BY <1>4, <1>5, <3>1, <3>2, <3>3
  <2>3. CASE Become(AfterAnswer(Failed(Now, c), c,
                                IF MayRetry(Now, c) THEN "retry" ELSE "leave"))
    <3> DEFINE u == Failed(Now, c)
    <3>1. PICK next \in {"retry", "leave"} :
            /\ next = "retry" <=> MayRetry(Now, c)
            /\ Become(AfterAnswer(u, c, next))
      BY <2>3
    <3>2. /\ Others(u, c) /\ Apart(Now, u, c) /\ Shares(Now, u)
          /\ Marked(calls[c], u.calls[c]) /\ Ready(u, c)
          /\ ~MayRetry(Now, c) => ~LedBy(u, c)
      BY <1>1, <1>2, <1>3, FailedGoes
    <3> HIDE DEF u
    <3>3. QED
      BY <1>4, <3>1, <3>2
  <2>4. QED
    BY <1>9, <2>2, <2>3 DEF Fails
<1>10. CASE StreamEnds(c) \/ StreamCut(c)
  <2>1. PICK next \in {"retry", "leave"} :
          /\ next # "leave" => MayRetry(Now, c)
          /\ Become(AfterAnswer(Now, c, next))
    BY <1>6, <1>10 DEF StreamEnds, StreamCut
  <2>2. ~LedBy(Now, c) /\ Ready(Now, c)
    BY <1>3, <1>10 DEF StreamEnds, StreamCut, Ready
  <2>3. Marked(calls[c], Now.calls[c])
    BY <1>1 DEF Marked
  <2>4. QED
    BY <1>1, <1>4, <2>1, <2>2, <2>3
<1>11. QED
  BY <1>7, <1>8, <1>9, <1>10

(* Streams that open, are accepted, or are recovered.                      *)
LEMMA StreamBehaves ==
  ASSUME Sound(Now), NEW c \in Calls,
         StreamOpens(c) \/ FirstEvent(c) \/ RecoversMidstream(c)
  PROVE  Behaves(c)
<1>1. /\ Others(Now, c) /\ Apart(Now, Now, c) /\ Shares(Now, Now) /\ Good(Now)
      /\ Now.calls = calls /\ Now.episode = episode /\ Now.generation = generation
      /\ calls[c] \in CallType /\ calls[c] \in Budgeted /\ calls[c].permit.gen < generation
      /\ Suits(Now, c)
  BY SoundNow
<1>2. calls[c].pc \in {"upstream", "streaming"} /\ Trying(calls[c])
  BY DEF StreamOpens, FirstEvent, RecoversMidstream, Trying
<1>3. /\ Probes(Now, c) /\ ~calls[c].failed /\ ~calls[c].pending
      /\ calls[c].resolved => ~LedBy(Now, c)
      /\ episode # None => c \notin episode.waiters
      /\ LedBy(Now, c) => /\ episode.probing
                          /\ calls[c].permit = [probe |-> TRUE, gen |-> episode.gen]
  BY <1>2, TryingProbes
<1>4. CASE StreamOpens(c)
  <2> DEFINE r == [calls[c] EXCEPT !.pc = "streaming"]
             t == PutC(Now, c, r)
  <2>1. /\ r.pc = "streaming" /\ r.resolved = calls[c].resolved /\ ~r.failed /\ ~r.pending
        /\ r.permit = calls[c].permit
    BY <1>1, <1>3 DEF CallType
  <2>2. r \in Budgeted
    BY <1>1, <1>4 DEF Budgeted, Coming, CallType, Place, StreamOpens
  <2>3. At(Now, c, "streaming") = t
    BY <1>1 DEF At, PutC
  <2> HIDE DEF r
  <2>4. /\ Good(t) /\ t.episode = episode /\ t.calls[c] = r
        /\ \A d \in Calls : d # c => t.calls[d] = calls[d]
    BY <1>1, <1>2, <2>1, <2>2, PutCall, PutFields
  <2>5. t.generation = generation
    BY DEF PutC, Now
  <2>6. Shape(c, r) /\ Joins(episode, c, r)
    BY <1>1, <1>2, <1>3, <2>1 DEF Shape, Joins, Heads, LedBy
  <2>7. Become(t)
    BY <1>4, <2>3 DEF StreamOpens
  <2> HIDE DEF t
  <2>8. QED
    BY <1>1, <1>3, <2>1, <2>4, <2>5, <2>6, <2>7, RecordBehaves
<1>5. CASE FirstEvent(c)
  <2> DEFINE u == Succeeded(Now, c)
             r == [calls[c] EXCEPT !.resolved = TRUE]
  <2>1. ~calls[c].resolved /\ calls[c].pc = "streaming"
    BY <1>5 DEF FirstEvent
  <2>2. /\ Others(u, c) /\ Apart(Now, u, c) /\ Ahead(Now, u) /\ u.calls[c] = calls[c]
        /\ ~LedBy(u, c) /\ u.episode \in {episode, None} /\ u.generation = generation
    BY <1>1, <1>2, <1>3, <2>1, SucceededGoes
  <2>3. /\ r.pc = "streaming" /\ r.resolved /\ ~r.failed /\ ~r.pending
        /\ r.permit = calls[c].permit /\ r.attempts = calls[c].attempts /\ r \in Budgeted
        /\ r.failed = calls[c].failed
    BY <1>1, <1>3, <2>1 DEF CallType, Budgeted, Coming
  <2>4. Become(PutC(u, c, r))
    BY <1>5, <2>2 DEF FirstEvent, PutC
  <2> HIDE DEF u, r
  <2>5. Good(PutC(u, c, r))
    BY <2>1, <2>2, <2>3, PutCall DEF Others
  <2>6. Shape(c, r) /\ Joins(u.episode, c, r)
    BY <1>3, <2>2, <2>3 DEF Shape, Joins, LedBy
  <2>7. Ends(u, PutC(u, c, r), c)
    <3>1. r.permit.gen < u.generation
      BY <1>1, <2>2, <2>3
    <3>2. r.failed = u.calls[c].failed /\ r.attempts = u.calls[c].attempts
      BY <2>2, <2>3
    <3>3. r.failed => ~LedBy(u, c)
      BY <2>2
    <3>4. QED
      BY <2>2, <2>5, <2>6, <3>1, <3>2, <3>3, PutEnds
  <2>8. Shares(Now, u)
    BY <2>2 DEF Shares, Ahead
  <2>9. QED
    BY <1>3, <2>2, <2>4, <2>7, <2>8, EndsBehaves
<1>6. CASE RecoversMidstream(c)
  <2> DEFINE r == [calls[c] EXCEPT !.outer = TRUE]
             u == PutC(Now, c, r)
  <2>1. calls[c].resolved /\ calls[c].pc = "streaming" /\ MayRetry(Now, c) /\ ~LedBy(Now, c)
    BY <1>3, <1>6 DEF RecoversMidstream
  <2>2. /\ r.pc = "streaming" /\ r.resolved = calls[c].resolved /\ ~r.failed /\ ~r.pending
        /\ r.permit = calls[c].permit /\ r.attempts = calls[c].attempts /\ r \in Budgeted
    BY <1>1, <1>3, <2>1 DEF CallType, Budgeted, Coming
  <2>3. Become(Gate(u, c))
    BY <1>6 DEF RecoversMidstream, PutC, Now
  <2> HIDE DEF r
  <2>4. Good(u)
    <3>1. r.pc = Now.calls[c].pc /\ r.resolved = Now.calls[c].resolved
      BY <1>1, <2>1, <2>2
    <3>2. Good(Now) /\ r \in Budgeted
      BY <1>1, <2>2
    <3>3. QED
      BY <3>1, <3>2, PutKeeps
  <2>5. /\ Others(u, c) /\ Apart(Now, u, c) /\ Ahead(Now, u) /\ u.episode = episode
        /\ u.generation = generation /\ u.calls[c] = r
    BY <1>1, <2>4, PutGoes
  <2> HIDE DEF u
  <2>6. /\ Able(u, c) /\ MayRetry(u, c) /\ Ready(u, c) /\ ~u.calls[c].pending
    BY <1>1, <2>1, <2>2, <2>5 DEF Able, MayRetry, Ready, LedBy
  <2>7. Ends(u, Gate(u, c), c)
    BY <2>5, <2>6, GateEnds
  <2>8. Shares(Now, u)
    BY <2>5 DEF Shares, Ahead
  <2>9. QED
    BY <1>3, <2>3, <2>5, <2>7, <2>8, EndsBehaves
<1>7. QED
  BY <1>4, <1>5, <1>6

(* A step that ends with its call on its way out.                          *)
LEMMA LeaveBehaves ==
  ASSUME Sound(Now), NEW c \in Calls, NEW u, Others(u, c), Apart(Now, u, c), Ahead(Now, u),
         Able(u, c), Released(u, c), Become(Leave(u, c)),
         u.calls[c].failed = calls[c].failed, u.calls[c].attempts = calls[c].attempts
  PROVE  Behaves(c)
<1>1. Ends(u, Leave(u, c), c)
  BY LeaveEnds
<1>2. Shares(Now, u)
  BY DEF Shares, Ahead
<1>3. QED
  BY <1>1, <1>2, EndsBehaves

(* An attempt that ends unanswered is closed, and its probe given back.    *)
LEMMA ClosingBehaves ==
  ASSUME Sound(Now), NEW c \in Calls,
         Closed(c) \/ AbandonRuns(c) \/ AbandonedLeaves(c)
         \/ CancelUpstream(c) \/ CancelStreaming(c)
  PROVE  Behaves(c)
<1>1. /\ Others(Now, c) /\ Apart(Now, Now, c) /\ Ahead(Now, Now) /\ Good(Now)
      /\ Now.calls = calls /\ Now.episode = episode /\ Now.generation = generation
      /\ calls[c] \in CallType /\ calls[c] \in Budgeted /\ calls[c].permit.gen < generation
      /\ Shape(c, calls[c]) /\ Joins(episode, c, calls[c])
  BY SoundNow DEF Suits
<1>2. calls[c].pc # "queued" /\ calls[c].pc # "waiting"
  BY <1>1 DEF Closed, AbandonRuns, AbandonedLeaves, CancelUpstream, CancelStreaming, Shape
<1>3. CASE \/ Closed(c) /\ calls[c].resolved
           \/ AbandonedLeaves(c)
  <2> DEFINE u == ReleaseSlot(Now)
  <2>1. /\ Others(u, c) /\ Apart(Now, u, c) /\ Ahead(Now, u) /\ u.episode = episode
        /\ u.generation = generation /\ u.calls[c] = calls[c]
    BY <1>1, <1>2, ReleaseSlotGoes
  <2>2. Able(u, c) /\ (LedBy(u, c) <=> LedBy(Now, c))
    BY <1>1, <1>2, <2>1 DEF Able, LedBy
  <2>3. CASE Closed(c) /\ calls[c].resolved /\ calls[c].next = "retry"
    <3>1. Ready(Now, c) /\ ~calls[c].pending
      BY <2>3, ComingReady DEF Closed
    <3>2. Ready(u, c) /\ MayRetry(u, c) /\ ~u.calls[c].pending
      BY <1>1, <2>1, <2>2, <2>3, <3>1 DEF Ready, LedBy, MayRetry, Budgeted, Closed
    <3>3. Become(Proceed(u, c, "retry"))
      BY <2>3 DEF Closed
    <3> HIDE DEF u
    <3>4. Ends(u, Proceed(u, c, "retry"), c)
      BY <2>1, <2>2, <3>2, ProceedEnds
    <3>5. Shares(Now, u)
      BY <2>1 DEF Shares, Ahead
    <3>6. QED
      BY <2>1, <3>3, <3>4, <3>5, EndsBehaves
  <2>4. CASE \/ Closed(c) /\ calls[c].resolved /\ calls[c].next = "leave"
             \/ AbandonedLeaves(c)
    <3>1. LedBy(Now, c) => /\ calls[c].pending /\ episode.probing
                           /\ Heads(episode, c, calls[c])
      BY <1>1, <2>4 DEF LedBy, Joins, Heads, Closed, AbandonedLeaves
    <3>2. Released(u, c)
      BY <2>1, <2>2, <3>1 DEF Released
    <3>3. Become(Leave(u, c))
      BY <2>4 DEF Closed, AbandonedLeaves, Proceed
    <3> HIDE DEF u
    <3>4. QED
      BY <2>1, <2>2, <3>2, <3>3, LeaveBehaves
  <2>5. calls[c].next \in {"retry", "leave"}
    BY <1>1 DEF CallType
  <2>6. QED
    BY <1>3, <2>3, <2>4, <2>5
<1>4. CASE AbandonRuns(c)
  <2> DEFINE r == [calls[c] EXCEPT !.pending = FALSE]
             u == PutC(Now, c, r)
             t == Abandoned(u, c)
  <2>1. /\ r \in Budgeted /\ r.pc = calls[c].pc /\ r.resolved = calls[c].resolved
        /\ r.permit = calls[c].permit /\ r.failed = calls[c].failed
        /\ r.attempts = calls[c].attempts /\ r.next = calls[c].next /\ ~r.pending
    BY <1>1 DEF Budgeted, Coming, CallType
  <2>2. Become(t)
    BY <1>4 DEF AbandonRuns, PutC, Now
  <2> HIDE DEF r
  <2>3. Good(u)
    BY <1>1, <2>1, PutKeeps
  <2>4. /\ Others(u, c) /\ Apart(Now, u, c) /\ Ahead(Now, u) /\ u.episode = episode
        /\ u.generation = generation /\ u.calls[c] = r
    BY <1>1, <2>3, PutGoes
  <2> HIDE DEF u
  <2>5. /\ Others(t, c) /\ Apart(u, t, c) /\ Ahead(u, t) /\ t.generation = generation
        /\ t.calls[c] = r
        /\ t.episode = episode \/ (episode # None /\ t.episode.waiters = episode.waiters)
        /\ MatchingProbe(u, c) => ~LedBy(t, c)
    BY <1>2, <2>1, <2>4, AbandonedGoes
  <2>6. ~MatchingProbe(u, c) => t.episode = episode
    BY <2>3, <2>4, AbandonedKeeps
  <2> HIDE DEF t
  <2>7. LedBy(t, c) => Heads(t.episode, c, r) /\ ~r.failed
    <3> SUFFICES ASSUME LedBy(t, c) PROVE Heads(t.episode, c, r) /\ ~r.failed
      OBVIOUS
    <3>1. ~MatchingProbe(u, c) /\ t.episode = episode /\ LedBy(Now, c)
      BY <1>1, <2>5, <2>6 DEF LedBy
    <3>2. episode # None /\ episode.leader = c /\ Heads(episode, c, calls[c])
      BY <1>1, <3>1 DEF LedBy, Joins
    <3>3. ASSUME episode.probing PROVE FALSE
      <4>1. calls[c].permit.probe /\ calls[c].permit.gen = episode.gen
        BY <3>2, <3>3 DEF Heads
      <4>2. QED
        BY <2>1, <2>4, <3>1, <3>2, <3>3, <4>1 DEF MatchingProbe
    <3>4. calls[c].pending
      BY <1>4 DEF AbandonRuns
    <3>5. QED
      BY <1>1, <2>1, <3>1, <3>2, <3>3, <3>4 DEF Heads, Shape
  <2>8. Shape(c, r)
    BY <1>1, <2>1 DEF Shape, Aside
  <2>9. Joins(t.episode, c, r)
    <3>1. t.episode # None /\ c \in t.episode.waiters => Aside(r)
      BY <1>1, <2>1, <2>5 DEF Joins, Aside
    <3>2. r.pc \notin {"waiting", "notified"}
      BY <1>1, <1>4, <2>1 DEF Shape, AbandonRuns
    <3>3. QED
      BY <2>7, <3>1, <3>2 DEF Joins, LedBy
  <2>10. Suits(t, c)
    BY <1>1, <2>1, <2>5, <2>8, <2>9 DEF Suits
  <2>11. Sound(t)
    BY <2>5, <2>10 DEF Sound, Others
  <2>12. Shares(Now, t) /\ Apart(Now, t, c)
    <3>1. Good(Now) /\ Good(u) /\ Good(t) /\ Dated(Now) /\ Dated(u)
      BY <1>1, <2>4, <2>5 DEF Others
    <3>2. Shares(Now, u) /\ (u.calls[c].failed => t.calls[c].failed)
      BY <2>4, <2>5 DEF Shares, Ahead
    <3>3. QED
      BY <2>4, <2>5, <3>1, <3>2, AheadChains, ApartChains
  <2>13. QED
    BY <2>1, <2>2, <2>5, <2>7, <2>11, <2>12 DEF Behaves
<1>5. CASE (Closed(c) /\ ~calls[c].resolved) \/ CancelUpstream(c) \/ CancelStreaming(c)
  <2>1. Trying(calls[c])
    BY <1>5 DEF Trying, Closed, CancelUpstream, CancelStreaming
  <2>2. /\ ~calls[c].failed /\ ~calls[c].pending
        /\ episode # None => c \notin episode.waiters
        /\ calls[c].pc \in {"upstream", "streaming"} /\ calls[c].resolved => ~LedBy(Now, c)
        /\ LedBy(Now, c) => /\ episode.probing
                            /\ calls[c].permit = [probe |-> TRUE, gen |-> episode.gen]
                            /\ calls[c].permit.probe = TRUE
    BY <2>1, TryingProbes
  <2>3. CASE (Closed(c) /\ ~calls[c].resolved) \/ CancelUpstream(c)
    <3> DEFINE r == [calls[c] EXCEPT !.pc = "abandoning", !.pending = calls[c].permit.probe]
               t == PutC(Now, c, r)
    <3>1. /\ r.pc = "abandoning" /\ r.pending = calls[c].permit.probe /\ ~r.failed
          /\ r.permit = calls[c].permit
      BY <1>1, <2>2 DEF CallType
    <3>2. r \in Budgeted
      BY ZenonT(30), <1>1 DEF Budgeted, Coming, CallType, Place
    <3>3. t = [At(Now, c, "abandoning") EXCEPT !.calls[c].pending = calls[c].permit.probe]
      BY <1>1 DEF At, PutC, Now, Good, StateType, Budgeted, CallType
    <3>4. Become(t)
      BY <2>3, <3>3 DEF Closed, CancelUpstream
    <3>5. t.generation = generation
      BY DEF PutC, Now
    <3> HIDE DEF r
    <3>6. /\ Good(t) /\ t.episode = episode /\ t.calls[c] = r
          /\ \A d \in Calls : d # c => t.calls[d] = calls[d]
      BY <1>1, <1>2, <3>1, <3>2, PutCall, PutFields
    <3> HIDE DEF t
    <3>7. Shape(c, r)
      BY <3>1 DEF Shape
    <3>8. Joins(episode, c, r)
      BY <2>2, <3>1 DEF Joins, Heads, LedBy, Now
    <3>9. QED
      BY <1>1, <2>2, <3>1, <3>4, <3>5, <3>6, <3>7, <3>8, RecordBehaves
  <2>4. CASE CancelStreaming(c)
    <3> DEFINE r == [calls[c] EXCEPT !.pc = "closing", !.next = "leave"]
               t == PutC(Now, c, r)
    <3>1. /\ r.pc = "closing" /\ r.next = "leave" /\ ~r.failed /\ ~r.pending
          /\ r.permit = calls[c].permit /\ r.resolved = calls[c].resolved
      BY <1>1, <2>2 DEF CallType
    <3>2. r \in Budgeted
      BY ZenonT(30), <1>1 DEF Budgeted, Coming, CallType, Place
    <3>3. t = [At(Now, c, "closing") EXCEPT !.calls[c].next = "leave"]
      BY <1>1 DEF At, PutC, Now, Good, StateType, Budgeted, CallType
    <3>4. Become(t) /\ calls[c].pc = "streaming"
      BY <2>4, <3>3 DEF CancelStreaming
    <3>5. t.generation = generation
      BY DEF PutC, Now
    <3> HIDE DEF r
    <3>6. /\ Good(t) /\ t.episode = episode /\ t.calls[c] = r
          /\ \A d \in Calls : d # c => t.calls[d] = calls[d]
      BY <1>1, <1>2, <3>1, <3>2, PutCall, PutFields
    <3> HIDE DEF t
    <3>7. Shape(c, r)
      BY <3>1 DEF Shape
    <3>8. Joins(episode, c, r)
      BY <2>2, <3>1, <3>4 DEF Joins, Heads, LedBy, Now
    <3>9. QED
      BY <1>1, <2>2, <3>1, <3>4, <3>5, <3>6, <3>7, <3>8, RecordBehaves
  <2>5. QED
    BY <1>5, <2>3, <2>4
<1>6. QED
  BY <1>3, <1>4, <1>5

(* A call that takes its place in the queue back moves nobody else.        *)
LEMMA LeaveQueueGoes ==
  ASSUME NEW s, NEW c \in Calls, Others(s, c), s.calls[c].pc = "queued"
  PROVE  /\ Others(LeaveQueue(s, c), c) /\ Apart(s, LeaveQueue(s, c), c)
         /\ Ahead(s, LeaveQueue(s, c))
         /\ LeaveQueue(s, c).episode = s.episode
         /\ LeaveQueue(s, c).generation = s.generation
         /\ LeaveQueue(s, c).calls[c] = [s.calls[c] EXCEPT !.pc = "limiter"]
<1> DEFINE t == LeaveQueue(s, c)
<1>1. /\ Good(t) /\ t.episode = s.episode /\ s.generation \in Nat
      /\ t.calls[c].pc = "limiter"
  BY LeaveQueueKeeps, GoodParts DEF Others
<1>2. /\ t.generation = s.generation
      /\ t.calls[c] = [s.calls[c] EXCEPT !.pc = "limiter"]
      /\ \A d \in Calls : d # c => t.calls[d] = s.calls[d]
  BY DEF LeaveQueue, At, Others, Good, StateType
<1> HIDE DEF t
<1>3. Others(t, c)
  BY <1>1, <1>2 DEF Others, Dated, Suits
<1>4. Apart(s, t, c) /\ Ahead(s, t)
  BY <1>1, <1>2 DEF Apart, Beside, LedBy, Ahead
<1>5. QED
  BY <1>1, <1>2, <1>3, <1>4 DEF t

(* A probe that is given back by a call that leaves.                       *)
LEMMA GiveBackBehaves ==
  ASSUME Sound(Now), NEW c \in Calls, NEW u, Others(u, c), Apart(Now, u, c), Ahead(Now, u),
         Probes(u, c), Able(u, c), u.calls[c].pc # "waiting",
         u.calls[c].failed = calls[c].failed, u.calls[c].attempts = calls[c].attempts,
         Become(Leave(Abandoned(u, c), c))
  PROVE  Behaves(c)
<1> DEFINE t == Abandoned(u, c)
<1>1. /\ Others(t, c) /\ Apart(u, t, c) /\ Ahead(u, t) /\ t.generation = u.generation
      /\ t.calls[c] = u.calls[c] /\ ~LedBy(t, c)
  BY AbandonedGoes
<1> HIDE DEF t
<1>2. Apart(Now, t, c) /\ Ahead(Now, t)
  <2>1. Good(Now) /\ Good(u) /\ Good(t) /\ Dated(Now) /\ Dated(u) /\ Shares(Now, u)
    BY <1>1 DEF Others, Sound, Shares, Ahead
  <2>2. QED
    BY <1>1, <2>1, AheadChains, ApartChains
<1>3. Able(t, c) /\ Released(t, c)
  BY <1>1 DEF Able, Released
<1>4. QED
  BY <1>1, <1>2, <1>3, LeaveBehaves DEF t

(* A cancelled call that waits, sleeps or has not started its attempt.     *)
LEMMA CancelBehaves ==
  ASSUME Sound(Now), NEW c \in Calls,
         \/ CancelWaiting(c) \/ CancelInBackoff(c) \/ CancelInLimiter(c)
         \/ CancelInQueue(c) \/ CancelGranted(c)
  PROVE  Behaves(c)
<1>1. /\ Others(Now, c) /\ Apart(Now, Now, c) /\ Ahead(Now, Now) /\ Good(Now)
      /\ Now.calls = calls /\ Now.episode = episode /\ Now.generation = generation
      /\ calls[c] \in CallType /\ calls[c].permit.gen < generation
      /\ episode # None => episode \in EpisodeType
      /\ EpisodeOK(episode) /\ Dated(Now) /\ c # None
  BY SoundNow, GoodParts, AdmissionAssumption DEF Good, Others
<1>2. CASE CancelWaiting(c)
  <2>1. Able(Now, c) /\ ~LedBy(Now, c)
    BY <1>2, ComingReady DEF CancelWaiting
  <2>2. CASE episode # None /\ episode.gen = calls[c].permit.gen /\ episode.leader # c
    <3> DEFINE f == [episode EXCEPT !.waiters = @ \ {c}]
               u == PutE(Now, f)
    <3>1. /\ f \in EpisodeType /\ f.gen = episode.gen /\ f.leader = episode.leader
          /\ f.phase = episode.phase /\ f.probing = episode.probing
          /\ f.waiters = episode.waiters \ {c}
      BY <1>1, <2>2 DEF EpisodeType
    <3>2. EpisodeOK(f) /\ (f.phase # "open" => f.waiters = {})
      BY <1>1, <2>2, <3>1 DEF EpisodeOK, Dated
    <3>3. Become(Leave(u, c))
      BY <1>2, <2>2 DEF CancelWaiting, PutE, Now
    <3> HIDE DEF f
    <3>4. /\ Others(u, c) /\ Apart(Now, u, c) /\ Ahead(Now, u) /\ u.generation = generation
          /\ u.calls = calls /\ u.episode = f
      BY <1>1, <2>2, <3>1, <3>2, PutEpisodeGoes
    <3> HIDE DEF u
    <3>5. Able(u, c) /\ Released(u, c)
      BY <1>1, <2>1, <2>2, <3>1, <3>4 DEF Able, Released, LedBy
    <3>6. QED
      BY <3>3, <3>4, <3>5, LeaveBehaves
  <2>3. CASE ~(episode # None /\ episode.gen = calls[c].permit.gen /\ episode.leader # c)
    <3>1. Become(Leave(Now, c))
      BY <1>2, <2>3 DEF CancelWaiting
    <3>2. QED
      BY <1>1, <2>1, <3>1, LeaveBehaves DEF Released
  <2>4. QED
    BY <2>2, <2>3
<1>3. CASE CancelInBackoff(c)
  <2>1. /\ Able(Now, c) /\ calls[c].pc = "backoff"
        /\ LedBy(Now, c) => episode.gen = calls[c].permit.gen /\ ~episode.probing
    BY <1>1, <1>3, ComingReady DEF CancelInBackoff, Ready
  <2>2. CASE LedBy(Now, c)
    <3> DEFINE f == [episode EXCEPT !.leader = None]
               u == NotifyAll(PutE(Now, f))
    <3>1. /\ episode # None /\ episode.leader = c /\ episode \in EpisodeType
      BY <1>1, <2>2 DEF LedBy
    <3>2. /\ f \in EpisodeType /\ f.gen = episode.gen /\ f.leader = None
          /\ f.phase = episode.phase /\ f.probing = episode.probing
          /\ f.waiters = episode.waiters
      BY <3>1 DEF EpisodeType
    <3>3. EpisodeOK(f)
      BY <1>1, <2>1, <2>2, <3>1, <3>2 DEF EpisodeOK
    <3>4. Become(Leave(u, c))
      BY <1>3, <2>1, <2>2, <3>1 DEF CancelInBackoff, PutE, Now
    <3> HIDE DEF f
    <3>5. /\ Others(u, c) /\ Apart(Now, u, c) /\ Ahead(Now, u) /\ u.generation = generation
          /\ u.calls[c] = calls[c] /\ u.episode = f
      BY <1>1, <2>1, <2>2, <3>1, <3>2, <3>3, TurnGoes
    <3> HIDE DEF u
    <3>6. Able(u, c) /\ Released(u, c)
      BY <1>1, <2>1, <3>2, <3>5 DEF Able, Released, LedBy
    <3>7. QED
      BY <3>4, <3>5, <3>6, LeaveBehaves
  <2>3. CASE ~LedBy(Now, c)
    <3>1. Become(Leave(Now, c))
      BY <1>1, <1>3, <2>3 DEF CancelInBackoff, LedBy
    <3>2. QED
      BY <1>1, <2>1, <2>3, <3>1, LeaveBehaves DEF Released
  <2>4. QED
    BY <2>2, <2>3
<1>4. CASE CancelInLimiter(c) \/ CancelInQueue(c) \/ CancelGranted(c)
  <2>1. Trying(calls[c])
    BY <1>4 DEF Trying, CancelInLimiter, CancelInQueue, CancelGranted
  <2>2. Probes(Now, c)
    BY <2>1, TryingProbes
  <2>3. ASSUME NEW u, u.episode = episode, u.generation = generation,
               u.calls[c].permit = calls[c].permit, u.calls[c].failed = calls[c].failed,
               u.calls[c].pc \in {"limiter", "granted"}
        PROVE  Probes(u, c) /\ Able(u, c)
    BY <1>1, <2>2, <2>3 DEF Probes, Able, LedBy, MatchingProbe
  <2>4. CASE CancelInLimiter(c)
    <3>1. calls[c].pc = "limiter" /\ Become(Leave(Abandoned(Now, c), c))
      BY <2>4 DEF CancelInLimiter
    <3>2. Probes(Now, c) /\ Able(Now, c)
      BY <1>1, <2>3, <3>1
    <3>3. QED
      BY <1>1, <3>1, <3>2, GiveBackBehaves
  <2>5. CASE CancelGranted(c)
    <3> DEFINE u == ReleaseSlot(Woken(Now))
    <3>1. calls[c].pc = "granted" /\ Become(Leave(Abandoned(u, c), c))
      BY <2>5 DEF CancelGranted
    <3>2. /\ Others(u, c) /\ Apart(Now, u, c) /\ Ahead(Now, u) /\ u.episode = episode
          /\ u.generation = generation /\ u.calls[c] = calls[c]
      BY <1>1, <3>1, WokenReleases
    <3> HIDE DEF u
    <3>3. Probes(u, c) /\ Able(u, c)
      BY <2>3, <3>1, <3>2
    <3>4. QED
      BY <3>1, <3>2, <3>3, GiveBackBehaves
  <2>6. CASE CancelInQueue(c)
    <3> DEFINE v == LeaveQueue(Now, c)
               u == Woken(v)
    <3>1. calls[c].pc = "queued" /\ Become(Leave(Abandoned(u, c), c))
      BY <2>6 DEF CancelInQueue
    <3>0. /\ Others(v, c) /\ Apart(Now, v, c) /\ Ahead(Now, v) /\ v.episode = episode
          /\ v.generation = generation /\ v.calls[c] = [calls[c] EXCEPT !.pc = "limiter"]
      BY <1>1, <3>1, LeaveQueueGoes
    <3>2. /\ Others(u, c) /\ Apart(Now, u, c) /\ Ahead(Now, u) /\ u.episode = episode
          /\ u.generation = generation /\ u.calls[c] = [calls[c] EXCEPT !.pc = "limiter"]
      <4> HIDE DEF v
      <4>1. v.calls[c].pc # "queued"
        BY <1>1, <3>0 DEF CallType
      <4>2. /\ Others(u, c) /\ Apart(v, u, c) /\ Ahead(v, u) /\ u.episode = v.episode
            /\ u.generation = v.generation /\ u.calls[c] = v.calls[c]
        BY <3>0, <4>1, WokenGoes
      <4> HIDE DEF u
      <4> QED
        BY <1>1, <3>0, <4>2, StepsGo
    <3> HIDE DEF u
    <3>3. /\ u.calls[c].permit = calls[c].permit /\ u.calls[c].failed = calls[c].failed
          /\ u.calls[c].pc = "limiter" /\ u.calls[c].attempts = calls[c].attempts
      BY <1>1, <3>2 DEF CallType
    <3>4. Probes(u, c) /\ Able(u, c)
      BY <2>3, <3>2, <3>3
    <3>5. QED
      BY <3>1, <3>2, <3>3, <3>4, GiveBackBehaves
  <2>7. QED
    BY <1>4, <2>4, <2>5, <2>6
<1>5. QED
  BY <1>2, <1>3, <1>4

(* Every step of a call.                                                   *)
LEMMA CallStepBehaves ==
  ASSUME Sound(Now), NEW c \in Calls, Start(c) \/ Advance(c) \/ AccessEnds(c) \/ Cancel(c)
  PROVE  Behaves(c)
BY ToTheGateBehaves, BackoffEndsBehaves, ToTheAttemptBehaves, AnswerBehaves,
   StreamBehaves, ClosingBehaves, CancelBehaves DEF Advance, Cancel

\* What a step does for the calls that wait for an episode, and for those that failed.
Honours ==
  /\ Shares(Now, Now')
  /\ \A c \in Calls : calls[c].failed =>
       /\ calls'[c].failed /\ calls'[c].attempts = calls[c].attempts
       /\ LedBy(Now', c) => LedBy(Now, c)

(* Every step keeps all well, and honours the outcome of an episode.       *)
LEMMA StepSound ==
  ASSUME Sound(Now), [Next]_vars
  PROVE  Sound(Now') /\ Honours
<1>1. /\ Now.calls = calls /\ Now.episode = episode /\ Now.generation = generation
      /\ generation \in Nat /\ Now'.calls = calls' /\ Now'.episode = episode'
      /\ Now'.generation = generation' /\ Good(Now) /\ Dated(Now) /\ \A d \in Calls : Suits(Now, d)
  BY GoodParts DEF Now, Sound
<1>2. ASSUME NEW c \in Calls, Behaves(c)
      PROVE  Sound(Now') /\ Honours
  <2>1. PICK t : /\ Become(t) /\ Sound(t) /\ Apart(Now, t, c) /\ Shares(Now, t)
                 /\ calls[c].failed => /\ t.calls[c].failed
                                       /\ t.calls[c].attempts = calls[c].attempts
                                       /\ ~LedBy(t, c)
    BY <1>2 DEF Behaves
  <2>2. Now' = t
    BY <2>1, BecomeIsNext DEF Sound, Good
  <2>3. \A d \in Calls : d # c => /\ Beside(calls[d], t.calls[d])
                                  /\ LedBy(t, d) => LedBy(Now, d)
    BY <1>1, <2>1 DEF Apart
  <2>4. t.calls = calls'
    BY <2>1 DEF Become
  <2>5. \A d \in Calls : calls[d].failed =>
          /\ t.calls[d].failed /\ t.calls[d].attempts = calls[d].attempts
          /\ LedBy(t, d) => LedBy(Now, d)
    BY <2>1, <2>3 DEF Beside
  <2>6. QED
    BY <2>1, <2>2, <2>4, <2>5 DEF Honours
<1>3. CASE UNCHANGED vars
  <2>1. Now' = Now /\ calls' = calls
    BY <1>3 DEF vars, Now
  <2>2. QED
    BY <1>1, <2>1 DEF Sound, Honours, Shares
<1>4. CASE BackoffElapses \/ CooldownElapses
  <2>1. /\ calls' = calls /\ generation' = generation /\ free' = free /\ queue' = queue
        /\ episode # None /\ episode \in EpisodeType
    BY <1>1, <1>4, GoodParts DEF BackoffElapses, CooldownElapses
  <2>2. /\ episode' \in EpisodeType /\ episode'.gen = episode.gen
        /\ episode'.leader = episode.leader /\ episode'.probing = episode.probing
        /\ episode'.waiters = episode.waiters
        /\ \/ episode'.phase = episode.phase
           \/ episode'.phase # "open" /\ episode.phase # "open"
    BY <1>4, <2>1 DEF BackoffElapses, CooldownElapses, EpisodeType
  <2>3. Good(Now')
    BY <1>1, <1>4, <2>1, StepGood DEF Next
  <2>4. Dated(Now')
    BY <1>1, <2>1, <2>2 DEF Dated
  <2>5. ASSUME NEW d \in Calls PROVE Suits(Now', d)
    <3>1. Shape(d, calls[d]) /\ calls[d].permit.gen < generation /\ Joins(episode, d, calls[d])
      BY <1>1 DEF Suits
    <3>2. Joins(episode', d, calls[d])
      BY <2>1, <2>2, <3>1 DEF Joins, Heads
    <3>3. QED
      BY <1>1, <2>1, <3>1, <3>2 DEF Suits
  <2>6. Sound(Now')
    BY <2>3, <2>4, <2>5 DEF Sound
  <2>7. Honours
    <3>1. \A c \in Calls : LedBy(Now', c) => LedBy(Now, c)
      BY <1>1, <2>1, <2>2 DEF LedBy
    <3>2. episode'.phase = episode.phase \/ episode.waiters = {}
      BY <1>1, <2>1, <2>2 DEF Dated
    <3>3. Shares(Now, Now')
      BY <1>1, <2>1, <2>2, <3>2 DEF Shares
    <3>4. QED
      BY <2>1, <3>1, <3>3 DEF Honours
  <2>8. QED
    BY <2>6, <2>7
<1>5. QED
  BY <1>2, <1>3, <1>4, CallStepBehaves DEF Next

(* All is well at the start, and ever after.                               *)
LEMMA AlwaysSound == Spec => []Sound(Now) /\ [][Sound(Now) /\ Sound(Now') /\ Honours]_vars
<1>1. Init => Sound(Now)
  <2> SUFFICES ASSUME Init PROVE Sound(Now)
    OBVIOUS
  <2>1. /\ episode = None /\ generation = 1 /\ Now.calls = calls
        /\ Now.episode = episode /\ Now.generation = generation
    BY DEF Init, Now
  <2>2. ASSUME NEW d \in Calls
        PROVE  /\ calls[d].pc = "idle" /\ ~calls[d].failed /\ ~calls[d].pending
               /\ calls[d].permit.gen = 0
    BY DEF Init
  <2>3. \A d \in Calls : Suits(Now, d)
    BY <2>1, <2>2 DEF Suits, Shape, Joins
  <2>4. QED
    BY <2>1, <2>3, InitGood DEF Sound, Dated
<1>2. Sound(Now) /\ [Next]_vars => Sound(Now)' /\ (Sound(Now) /\ Sound(Now') /\ Honours)
  <2>1. ASSUME Sound(Now')
        PROVE  Sound(Now)'
    BY <2>1 DEF Sound, Good, StateType, QueueOK, EpisodeOK, Dated, Suits, Shape, Joins,
                Heads, Aside
  <2>2. QED
    BY <2>1, StepSound
<1>3. QED
  BY <1>1, <1>2, PTL DEF Spec

(* The leader of an episode in progress is a call that will still move it  *)
(* (LeaderWillAct): with its probe, until the answer or the abandonment;   *)
(* without one, asleep at the gate or on its way to it.                    *)
THEOREM LeadersAct == Spec => []LeaderWillAct
<1>1. Sound(Now) => LeaderWillAct
  <2> SUFFICES ASSUME Sound(Now), episode # None PROVE LeaderWillAct
    BY DEF LeaderWillAct
  <2>1. /\ EpisodeOK(episode) /\ episode \in EpisodeType
        /\ episode.phase # "open" => episode.waiters = {}
    BY GoodParts DEF Sound, Good, Dated, Now
  <2>2. ASSUME episode.leader # None, ~Orphaned
        PROVE  LET l == calls[episode.leader] IN
               IF episode.probing
               THEN /\ l.permit = [probe |-> TRUE, gen |-> episode.gen]
                    /\ \/ l.pc \in {"limiter", "queued", "granted"}
                       \/ l.pc \in {"upstream", "streaming", "closing"} /\ ~l.resolved
                       \/ l.pending
               ELSE \/ l.pc = "backoff" /\ l.permit.gen = episode.gen
                    \/ l.pc = "access"
                    \/ l.pc = "closing" /\ l.next = "retry"
    <3>1. episode.leader \in Calls
      BY <2>1, <2>2 DEF EpisodeType
    <3>2. Heads(episode, episode.leader, calls[episode.leader])
      BY <3>1 DEF Sound, Suits, Joins, Now
    <3>3. QED
      BY <2>2, <3>2 DEF Heads, Orphaned
  <2>3. QED
    BY <2>1, <2>2 DEF LeaderWillAct, EpisodeOK
<1>2. QED
  BY <1>1, AlwaysSound, PTL

(* When an episode ends for want of attempts, whoever waits for it, or is  *)
(* to wait for it, shares the outcome (CoalescedShareOutcome).             *)
THEOREM OutcomeShared == Spec => CoalescedShareOutcome
<1> DEFINE Shared ==
             episode # None /\ episode.phase = "open" /\ episode' # None
               /\ episode'.gen = episode.gen /\ episode'.phase # "open"
             => \A c \in Calls :
                  \/ c \in episode.waiters
                  \/ calls[c].pc \in {"waiting", "notified"} /\ calls[c].permit.gen = episode.gen
                  => calls'[c].failed
<1>1. [Sound(Now) /\ Sound(Now') /\ Honours]_vars => [Shared]_vars
  <2> SUFFICES ASSUME Sound(Now), Honours,
                      episode # None, episode.phase = "open", episode' # None,
                      episode'.gen = episode.gen, episode'.phase # "open",
                      NEW c \in Calls,
                      \/ c \in episode.waiters
                      \/ /\ calls[c].pc \in {"waiting", "notified"}
                         /\ calls[c].permit.gen = episode.gen
               PROVE  calls'[c].failed
    OBVIOUS
  <2>1. /\ Now.calls = calls /\ Now.episode = episode /\ Now.generation = generation
        /\ Now'.calls = calls' /\ Now'.episode = episode'
    BY DEF Now
  <2>2. episode.gen \in Nat /\ generation \in Nat /\ episode.gen < generation
    BY <2>1, GoodParts DEF Sound, Dated, EpisodeType
  <2>3. \A d \in episode.waiters : calls'[d].failed
    BY <2>1, <2>2 DEF Honours, Shares
  <2>4. c \in episode.waiters
    BY <2>1 DEF Sound, Suits, Joins
  <2>5. QED
    BY <2>3, <2>4
<1>2. Spec => [][Shared]_vars
  BY <1>1, AlwaysSound, PTL
<1>3. QED
  BY <1>2 DEF CoalescedShareOutcome

(* The outcome stays with the call: it starts no attempt any more, and     *)
(* never turns into the leader of an episode (FailedStaysOut).             *)
THEOREM FailedStay == Spec => FailedStaysOut
<1> DEFINE Out == \A c \in Calls : calls[c].failed =>
                    /\ calls'[c].failed
                    /\ calls'[c].attempts = calls[c].attempts
                    /\ episode' # None /\ episode'.leader = c
                         => episode # None /\ episode.leader = c
<1>1. [Sound(Now) /\ Sound(Now') /\ Honours]_vars => [Out]_vars
  BY DEF Honours, LedBy, Now
<1>2. Spec => [][Out]_vars
  BY <1>1, AlwaysSound, PTL
<1>3. QED
  BY <1>2 DEF FailedStaysOut
=============================================================================
