--------------------------- MODULE MessagingProofs ---------------------------
(***************************************************************************)
(* Proofs about the messaging platform: the handling of voice notes        *)
(* (VoiceNotes), the delivery of messages (MessageDelivery), the pool of   *)
(* managed sessions (ManagedSessions), the commands of a chat              *)
(* (ChatWorkflow), the display of a turn (TurnDisplay) and the session     *)
(* store (SessionPersistence).  Each part states an inductive invariant of *)
(* its specification, one lemma for each action, and the theorem that the  *)
(* property of the runs always holds.                                      *)
(***************************************************************************)
EXTENDS VoiceNotes, MessageDelivery, ManagedSessions, ChatWorkflow, TurnDisplay, SessionPersistence,
        FiniteSetTheorems, RecursionLemmas, TLAPS

-----------------------------------------------------------------------------
(* The handling of voice notes. *)

Stage == {"new", "sending", "binding", "transcribing", "waiting", "ending",
          "discarding", "deleting", "over"}
Flow == [at : Stage, bound : BOOLEAN, handed : BOOLEAN, cut : BOOLEAN]
Handoff == [at : {"none", "created", "running", "over"}, cancelled : BOOLEAN]
VoiceTypes ==
  /\ flow \in [Note -> Flow]
  /\ owner \in [Voice -> Note \cup {NoNote}]
  /\ handoff \in [Note -> Handoff]
  /\ drains \in [Commander -> (SUBSET Note) \cup {NotCommanding}]
  /\ taken \in [Note -> {"no", "alone", "with status"}]
  /\ status \in [Note -> {"none", "shown", "deleted", "kept"}]

\* A note in the registry has a flow under way, and nobody has taken it.
OwnedIsOurs(n) ==
  /\ Owned(n) => flow[n].at \notin {"new", "over", "deleting"} /\ taken[n] = "no"
  /\ flow[n].at = "new" => taken[n] = "no" /\ status[n] = "none"

\* A handler that may run has a flow that waits for it; if its note is taken,
\* a command waits for it as well.
AliveIsAwaited(n) ==
  Alive(n) =>
    /\ flow[n].at \in {"waiting", "ending"}
    /\ taken[n] # "no" => \E c \in Commander : n \in drains[c]

\* A handoff that is over without its handler was cancelled: by its flow, which
\* then ends it, or by the command that has the status message.
HandoffIsExplained(n) ==
  /\ flow[n].at \in {"new", "sending", "binding", "transcribing"}
       => handoff[n].at = "none" /\ ~handoff[n].cancelled /\ ~flow[n].cut
  /\ handoff[n].at = "running" => flow[n].handed
  /\ handoff[n].at = "over" => flow[n].handed \/ handoff[n].cancelled \/ flow[n].cut
  /\ flow[n].at = "waiting" =>
       ~flow[n].cut /\ (handoff[n].cancelled => taken[n] = "with status")

\* What a flow that is bound has lost, it lost to a command, to its handler,
\* or to the platform in the middle of the two.
BoundIsExplained(n) ==
  /\ flow[n].at \in {"new", "sending", "binding"} => ~flow[n].bound
  /\ flow[n].at \in {"transcribing", "waiting"} => flow[n].bound
  /\ flow[n].at = "ending" => flow[n].handed \/ flow[n].cut
  /\ flow[n].bound /\ flow[n].at \notin {"deleting", "over"} /\ ~Owned(n)
       => flow[n].handed \/ flow[n].cut \/ taken[n] = "with status"

\* The status message of a flow that is over is somebody's.
StatusIsSettled(n) ==
  flow[n].at = "over" /\ status[n] = "shown"
    => flow[n].handed \/ taken[n] = "with status" \/ flow[n].cut

NoteInv(n) ==
  /\ OwnedIsOurs(n) /\ AliveIsAwaited(n) /\ HandoffIsExplained(n)
  /\ BoundIsExplained(n) /\ StatusIsSettled(n)

VoiceInv == VoiceTypes /\ CommandsEnd /\ \A n \in Note : NoteInv(n)

-----------------------------------------------------------------------------
(* Initially no note has come.                                             *)
LEMMA VoiceInitInv == VoiceInit => VoiceInv
<1> SUFFICES ASSUME VoiceInit PROVE VoiceInv
  OBVIOUS
<1>1. flow \in [Note -> Flow]
  BY DEF VoiceInit, Flow, Stage
<1>2. handoff \in [Note -> Handoff]
  BY DEF VoiceInit, Handoff
<1>3. owner \in [Voice -> Note \cup {NoNote}]
  BY DEF VoiceInit
<1>4. drains \in [Commander -> (SUBSET Note) \cup {NotCommanding}]
  BY DEF VoiceInit
<1>5. VoiceTypes
  BY <1>1, <1>2, <1>3, <1>4 DEF VoiceInit, VoiceTypes
<1>6. ASSUME NEW n \in Note
      PROVE  NoteInv(n)
  <2>1. /\ flow[n].at = "new" /\ ~flow[n].bound /\ ~flow[n].handed /\ ~flow[n].cut
        /\ handoff[n].at = "none" /\ ~handoff[n].cancelled
        /\ taken[n] = "no" /\ status[n] = "none"
    BY DEF VoiceInit
  <2>2. ~Owned(n)
    BY VoiceAssumption DEF VoiceInit, Owned, Voice
  <2>3. QED
    BY <2>1, <2>2 DEF NoteInv, OwnedIsOurs, AliveIsAwaited, Alive, HandoffIsExplained,
                      BoundIsExplained, StatusIsSettled
<1>7. CommandsEnd
  BY VoiceAssumption DEF VoiceInit, CommandsEnd, WaitsFor, NotCommanding, Commander
<1>8. QED
  BY <1>5, <1>6, <1>7 DEF VoiceInv

(* What the two helpers of the flow do.                                    *)
LEMMA EntersStage ==
  ASSUME VoiceTypes, NEW n \in Note, NEW stage \in Stage, Enters(n, stage)
  PROVE  /\ flow' \in [Note -> Flow] /\ flow'[n].at = stage
         /\ flow'[n].bound = flow[n].bound /\ flow'[n].handed = flow[n].handed
         /\ flow'[n].cut = flow[n].cut
         /\ \A m \in Note : m # n => flow'[m] = flow[m]
BY DEF VoiceTypes, Enters, Flow

(* Releasing notes leaves the other owners of voices as they were.         *)
LEMMA ReleasedOwned ==
  ASSUME VoiceTypes, NEW N \in SUBSET Note, Released(N)
  PROVE  /\ owner' \in [Voice -> Note \cup {NoNote}]
         /\ \A m \in Note : Owned(m)' <=> Owned(m) /\ m \notin N
<1>1. \A m \in Note : VoiceOf[m] \in Voice
  BY DEF Voice
<1>2. NoNote \notin Note
  BY VoiceAssumption
<1>3. QED
  BY <1>1, <1>2 DEF VoiceTypes, Released, Owned

(* A step of one note's flow or handoff concerns no other note.            *)
LEMMA NoteStep ==
  ASSUME VoiceInv, NEW n \in Note, VoiceTypes', drains' = drains, NoteInv(n)',
         \A m \in Note : m # n =>
           /\ flow'[m] = flow[m] /\ handoff'[m] = handoff[m]
           /\ taken'[m] = taken[m] /\ status'[m] = status[m]
           /\ Owned(m)' <=> Owned(m)
  PROVE  VoiceInv'
<1>1. ASSUME NEW m \in Note, m # n
      PROVE  NoteInv(m)'
  <2>1. NoteInv(m)
    BY DEF VoiceInv
  <2>2. OwnedIsOurs(m)' /\ AliveIsAwaited(m)'
    BY <1>1, <2>1 DEF NoteInv, OwnedIsOurs, AliveIsAwaited, Alive
  <2>3. HandoffIsExplained(m)' /\ BoundIsExplained(m)' /\ StatusIsSettled(m)'
    BY <1>1, <2>1 DEF NoteInv, HandoffIsExplained, BoundIsExplained, StatusIsSettled
  <2>4. QED
    BY <2>2, <2>3 DEF NoteInv
<1>2. CommandsEnd'
  BY DEF VoiceInv, CommandsEnd, WaitsFor
<1>3. QED
  BY <1>1, <1>2 DEF VoiceInv

\* What the invariant says of a note, in one place for the leaves below.
LEMMA NoteFacts ==
  ASSUME VoiceInv, NEW n \in Note
  PROVE  /\ flow[n] \in Flow /\ handoff[n] \in Handoff
         /\ taken[n] \in {"no", "alone", "with status"}
         /\ status[n] \in {"none", "shown", "deleted", "kept"}
         /\ NoteInv(n)
BY DEF VoiceInv, VoiceTypes

(* The claim is made when nobody owns the voice message.                   *)
LEMMA ReservesInv ==
  ASSUME VoiceInv, NEW n \in Note, Reserves(n)
  PROVE  VoiceInv'
<1>1. VoiceTypes /\ NoteInv(n) /\ flow[n].at = "new" /\ flow[n] \in Flow
  BY NoteFacts DEF VoiceInv, Reserves
<1>2. /\ handoff' = handoff /\ drains' = drains /\ taken' = taken /\ status' = status
      /\ taken[n] = "no" /\ status[n] = "none" /\ ~flow[n].bound
  BY <1>1 DEF Reserves, NoteInv, OwnedIsOurs, BoundIsExplained
<1>3. VoiceOf[n] \in Voice /\ NoNote \notin Note /\ \A m \in Note : VoiceOf[m] \in Voice
  BY VoiceAssumption DEF Voice
<1>4. CASE owner[VoiceOf[n]] = NoNote
  <2>1. Enters(n, "sending") /\ owner' = [owner EXCEPT ![VoiceOf[n]] = n]
    BY <1>4 DEF Reserves
  <2>2. /\ flow' \in [Note -> Flow] /\ flow'[n].at = "sending"
        /\ flow'[n].bound = flow[n].bound /\ flow'[n].handed = flow[n].handed
        /\ flow'[n].cut = flow[n].cut
        /\ \A m \in Note : m # n => flow'[m] = flow[m]
    BY <1>1, <2>1, EntersStage DEF Stage
  <2>3. VoiceTypes'
    BY <1>1, <1>2, <2>1, <2>2 DEF VoiceTypes
  <2>4. \A m \in Note : m # n => (Owned(m)' <=> Owned(m))
    BY <1>1, <1>3, <1>4, <2>1 DEF VoiceTypes, Owned
  <2>5. OwnedIsOurs(n)' /\ AliveIsAwaited(n)' /\ HandoffIsExplained(n)'
    BY <1>1, <1>2, <2>2 DEF NoteInv, OwnedIsOurs, AliveIsAwaited, Alive, HandoffIsExplained
  <2>6. BoundIsExplained(n)' /\ StatusIsSettled(n)'
    BY <1>1, <1>2, <2>2 DEF NoteInv, BoundIsExplained, StatusIsSettled
  <2>7. QED
    BY <1>2, <2>2, <2>3, <2>4, <2>5, <2>6, NoteStep DEF NoteInv
<1>5. CASE owner[VoiceOf[n]] # NoNote
  <2>1. Enters(n, "over") /\ owner' = owner
    BY <1>5 DEF Reserves
  <2>2. /\ flow' \in [Note -> Flow] /\ flow'[n].at = "over"
        /\ flow'[n].bound = flow[n].bound /\ flow'[n].handed = flow[n].handed
        /\ flow'[n].cut = flow[n].cut
        /\ \A m \in Note : m # n => flow'[m] = flow[m]
    BY <1>1, <2>1, EntersStage DEF Stage
  <2>3. VoiceTypes' /\ \A m \in Note : Owned(m)' <=> Owned(m)
    BY <1>1, <1>2, <2>1, <2>2 DEF VoiceTypes, Owned
  <2>4. OwnedIsOurs(n)' /\ AliveIsAwaited(n)' /\ HandoffIsExplained(n)'
    BY <1>1, <1>2, <2>2, <2>3
    DEF NoteInv, OwnedIsOurs, AliveIsAwaited, Alive, HandoffIsExplained
  <2>5. BoundIsExplained(n)' /\ StatusIsSettled(n)'
    BY <1>1, <1>2, <2>2, <2>3 DEF NoteInv, BoundIsExplained, StatusIsSettled
  <2>6. QED
    BY <1>2, <2>2, <2>3, <2>4, <2>5, NoteStep DEF NoteInv
<1>6. QED
  BY <1>4, <1>5

(* The status message is sent, or not.                                     *)
LEMMA SendsStatusInv ==
  ASSUME VoiceInv, NEW n \in Note, SendsStatus(n)
  PROVE  VoiceInv'
<1>1. /\ VoiceTypes /\ NoteInv(n) /\ flow[n].at = "sending" /\ Enters(n, "binding")
      /\ status' = [status EXCEPT ![n] = "shown"]
      /\ owner' = owner /\ handoff' = handoff /\ drains' = drains /\ taken' = taken
  BY NoteFacts DEF VoiceInv, SendsStatus
<1>2. /\ flow' \in [Note -> Flow] /\ flow'[n].at = "binding"
      /\ flow'[n].bound = flow[n].bound /\ flow'[n].handed = flow[n].handed
      /\ flow'[n].cut = flow[n].cut
      /\ \A m \in Note : m # n => flow'[m] = flow[m]
  BY <1>1, EntersStage DEF Stage
<1>3. /\ VoiceTypes' /\ status'[n] = "shown"
      /\ \A m \in Note : (Owned(m)' <=> Owned(m)) /\ (m # n => status'[m] = status[m])
  BY <1>1, <1>2 DEF VoiceTypes, Owned
<1>4. NoteInv(n)'
  BY <1>1, <1>2, <1>3 DEF NoteInv, OwnedIsOurs, AliveIsAwaited, Alive, HandoffIsExplained,
                          BoundIsExplained, StatusIsSettled
<1>5. QED
  BY <1>1, <1>2, <1>3, <1>4, NoteStep

(* A flow that fails before it hands its note off.                         *)
LEMMA FailsInv ==
  ASSUME VoiceInv, NEW n \in Note, SendFails(n) \/ TranscriptionFails(n)
  PROVE  VoiceInv'
<1>1. /\ VoiceTypes /\ NoteInv(n) /\ flow[n].at \in {"sending", "transcribing"}
      /\ Enters(n, "discarding") /\ owner' = owner /\ handoff' = handoff
      /\ drains' = drains /\ taken' = taken /\ status' = status
  BY NoteFacts DEF VoiceInv, SendFails, TranscriptionFails
<1>2. /\ flow' \in [Note -> Flow] /\ flow'[n].at = "discarding"
      /\ flow'[n].bound = flow[n].bound /\ flow'[n].handed = flow[n].handed
      /\ flow'[n].cut = flow[n].cut
      /\ \A m \in Note : m # n => flow'[m] = flow[m]
  BY <1>1, EntersStage DEF Stage
<1>3. VoiceTypes' /\ \A m \in Note : Owned(m)' <=> Owned(m)
  BY <1>1, <1>2 DEF VoiceTypes, Owned
<1>4. NoteInv(n)'
  BY <1>1, <1>2, <1>3 DEF NoteInv, OwnedIsOurs, AliveIsAwaited, Alive, HandoffIsExplained,
                          BoundIsExplained, StatusIsSettled
<1>5. QED
  BY <1>1, <1>2, <1>3, <1>4, NoteStep

(* The status is bound to a note that nobody took.                         *)
LEMMA BindsStatusInv ==
  ASSUME VoiceInv, NEW n \in Note, BindsStatus(n)
  PROVE  VoiceInv'
<1> DEFINE stage == IF Owned(n) THEN "transcribing" ELSE "discarding"
<1>1. /\ VoiceTypes /\ NoteInv(n) /\ flow[n].at = "binding"
      /\ owner' = owner /\ handoff' = handoff
      /\ drains' = drains /\ taken' = taken /\ status' = status
      /\ flow' = [flow EXCEPT ![n].at = stage, ![n].bound = Owned(n)]
  BY NoteFacts DEF VoiceInv, BindsStatus
<1>2. stage \in Stage /\ Owned(n) \in BOOLEAN
  BY DEF Stage, Owned
<1>3. /\ flow' \in [Note -> Flow] /\ flow'[n].at = stage
      /\ (flow'[n].bound <=> Owned(n)) /\ flow'[n].handed = flow[n].handed
      /\ flow'[n].cut = flow[n].cut
      /\ \A m \in Note : m # n => flow'[m] = flow[m]
  <2>1. flow \in [Note -> Flow] /\ flow[n] \in Flow
    BY <1>1 DEF VoiceTypes
  <2> HIDE DEF stage
  <2>2. PICK owned \in BOOLEAN : owned = Owned(n)
    BY <1>2
  <2>3. /\ flow'[n] = [flow[n] EXCEPT !.at = stage, !.bound = owned]
        /\ \A m \in Note : m # n => flow'[m] = flow[m]
    BY <1>1, <2>1, <2>2
  <2>4. flow'[n] \in Flow
    BY <1>2, <2>1, <2>3 DEF Flow
  <2>5. flow' \in [Note -> Flow]
    BY <1>1, <2>1, <2>3, <2>4
  <2> QED
    BY <2>1, <2>2, <2>3, <2>5 DEF Flow
<1>4. \/ Owned(n) /\ flow'[n].at = "transcribing" /\ flow'[n].bound
      \/ ~Owned(n) /\ flow'[n].at = "discarding" /\ ~flow'[n].bound
  BY <1>3
<1> HIDE DEF stage
<1>5. VoiceTypes' /\ \A m \in Note : Owned(m)' <=> Owned(m)
  BY <1>1, <1>3 DEF VoiceTypes, Owned
<1>6. NoteInv(n)'
  <2>1. OwnedIsOurs(n)' /\ AliveIsAwaited(n)' /\ HandoffIsExplained(n)'
    BY <1>1, <1>3, <1>4, <1>5 DEF NoteInv, OwnedIsOurs, AliveIsAwaited, Alive, HandoffIsExplained
  <2>2. BoundIsExplained(n)' /\ StatusIsSettled(n)'
    BY <1>1, <1>3, <1>4, <1>5 DEF NoteInv, BoundIsExplained, StatusIsSettled
  <2>3. QED
    BY <2>1, <2>2 DEF NoteInv
<1>7. QED
  BY <1>1, <1>3, <1>5, <1>6, NoteStep

(* Only a note that is still owned is handed off.                          *)
LEMMA HandsOffInv ==
  ASSUME VoiceInv, NEW n \in Note, HandsOff(n)
  PROVE  VoiceInv'
<1>1. /\ VoiceTypes /\ NoteInv(n) /\ flow[n].at = "transcribing"
      /\ owner' = owner /\ drains' = drains /\ taken' = taken /\ status' = status
  BY NoteFacts DEF VoiceInv, HandsOff
<1>2. CASE Owned(n)
  <2>1. Enters(n, "waiting") /\ handoff' = [handoff EXCEPT ![n].at = "created"]
    BY <1>2 DEF HandsOff
  <2>2. /\ flow' \in [Note -> Flow] /\ flow'[n].at = "waiting"
        /\ flow'[n].bound = flow[n].bound /\ flow'[n].handed = flow[n].handed
        /\ flow'[n].cut = flow[n].cut
        /\ \A m \in Note : m # n => flow'[m] = flow[m]
    BY <1>1, <2>1, EntersStage DEF Stage
  <2>3. /\ handoff' \in [Note -> Handoff] /\ handoff'[n].at = "created"
        /\ handoff'[n].cancelled = handoff[n].cancelled
        /\ \A m \in Note : m # n => handoff'[m] = handoff[m]
    BY <1>1, <2>1 DEF VoiceTypes, Handoff
  <2>4. VoiceTypes' /\ \A m \in Note : Owned(m)' <=> Owned(m)
    BY <1>1, <2>2, <2>3 DEF VoiceTypes, Owned
  <2>5. NoteInv(n)'
    <3>1. OwnedIsOurs(n)' /\ AliveIsAwaited(n)' /\ HandoffIsExplained(n)'
      BY <1>1, <1>2, <2>2, <2>3, <2>4
      DEF NoteInv, OwnedIsOurs, AliveIsAwaited, Alive, HandoffIsExplained
    <3>2. BoundIsExplained(n)' /\ StatusIsSettled(n)'
      BY <1>1, <1>2, <2>2, <2>3, <2>4 DEF NoteInv, BoundIsExplained, StatusIsSettled
    <3>3. QED
      BY <3>1, <3>2 DEF NoteInv
  <2>6. QED
    BY <1>1, <2>2, <2>3, <2>4, <2>5, NoteStep
<1>3. CASE ~Owned(n)
  <2>1. Enters(n, "discarding") /\ handoff' = handoff
    BY <1>3 DEF HandsOff
  <2>2. /\ flow' \in [Note -> Flow] /\ flow'[n].at = "discarding"
        /\ flow'[n].bound = flow[n].bound /\ flow'[n].handed = flow[n].handed
        /\ flow'[n].cut = flow[n].cut
        /\ \A m \in Note : m # n => flow'[m] = flow[m]
    BY <1>1, <2>1, EntersStage DEF Stage
  <2>3. VoiceTypes' /\ \A m \in Note : Owned(m)' <=> Owned(m)
    BY <1>1, <2>1, <2>2 DEF VoiceTypes, Owned
  <2>4. NoteInv(n)'
    BY <1>1, <1>3, <2>1, <2>2, <2>3
    DEF NoteInv, OwnedIsOurs, AliveIsAwaited, Alive, HandoffIsExplained,
        BoundIsExplained, StatusIsSettled
  <2>5. QED
    BY <1>1, <2>1, <2>2, <2>3, <2>4, NoteStep
<1>4. QED
  BY <1>2, <1>3

(* The handoff is over, and the claim given up.                            *)
LEMMA HandoffReturnsInv ==
  ASSUME VoiceInv, NEW n \in Note, NEW raised \in BOOLEAN, HandoffReturns(n, raised)
  PROVE  VoiceInv'
<1> DEFINE stage == IF flow[n].at = "ending" \/ (raised /\ Owned(n)) THEN "discarding" ELSE "over"
<1>1. /\ VoiceTypes /\ NoteInv(n) /\ flow[n].at \in {"waiting", "ending"}
      /\ handoff[n].at = "over" /\ Enters(n, stage) /\ Released({n})
      /\ handoff' = handoff /\ drains' = drains /\ taken' = taken /\ status' = status
  BY NoteFacts DEF VoiceInv, HandoffReturns
<1>2. stage \in {"discarding", "over"} /\ stage \in Stage
      /\ (stage = "over" => flow[n].at = "waiting")
  BY <1>1 DEF Stage
<1> HIDE DEF stage
<1>3. /\ flow' \in [Note -> Flow] /\ flow'[n].at = stage
      /\ flow'[n].bound = flow[n].bound /\ flow'[n].handed = flow[n].handed
      /\ flow'[n].cut = flow[n].cut
      /\ \A m \in Note : m # n => flow'[m] = flow[m]
  BY <1>1, <1>2, EntersStage
<1>4. /\ owner' \in [Voice -> Note \cup {NoNote}]
      /\ \A m \in Note : Owned(m)' <=> Owned(m) /\ m # n
  BY <1>1, ReleasedOwned
<1>5. VoiceTypes'
  BY <1>1, <1>3, <1>4 DEF VoiceTypes
<1>6. OwnedIsOurs(n)' /\ AliveIsAwaited(n)'
  BY <1>1, <1>2, <1>3, <1>4 DEF NoteInv, OwnedIsOurs, AliveIsAwaited, Alive
<1>7. HandoffIsExplained(n)' /\ BoundIsExplained(n)' /\ StatusIsSettled(n)'
  BY <1>1, <1>2, <1>3, <1>4
  DEF NoteInv, OwnedIsOurs, HandoffIsExplained, BoundIsExplained, StatusIsSettled
<1>8. QED
  BY <1>1, <1>3, <1>4, <1>5, <1>6, <1>7, NoteStep DEF NoteInv

(* The platform cancels the flow.                                          *)
LEMMA FlowCancelledInv ==
  ASSUME VoiceInv, NEW n \in Note, FlowCancelled(n)
  PROVE  VoiceInv'
<1>1. /\ VoiceTypes /\ NoteInv(n) /\ flow[n].at \in {"sending", "binding", "transcribing"}
      /\ owner' = owner /\ handoff' = handoff /\ drains' = drains /\ taken' = taken
      /\ status' = status \/ status' = [status EXCEPT ![n] = "shown"]
  BY NoteFacts DEF VoiceInv, FlowCancelled
<1>2. PICK half \in BOOLEAN : flow' = [flow EXCEPT ![n].at = "discarding", ![n].cut = half]
  BY DEF FlowCancelled
<1>3. /\ flow' \in [Note -> Flow] /\ flow'[n].at = "discarding"
      /\ flow'[n].bound = flow[n].bound /\ flow'[n].handed = flow[n].handed
      /\ \A m \in Note : m # n => flow'[m] = flow[m]
  <2>1. flow \in [Note -> Flow] /\ flow[n] \in Flow
    BY <1>1 DEF VoiceTypes
  <2>2. /\ flow'[n] = [flow[n] EXCEPT !.at = "discarding", !.cut = half]
        /\ \A m \in Note : m # n => flow'[m] = flow[m]
    BY <1>2, <2>1
  <2>3. flow'[n] \in Flow
    BY <2>1, <2>2 DEF Flow, Stage
  <2>4. flow' \in [Note -> Flow]
    BY <1>2, <2>1, <2>2, <2>3
  <2> QED
    BY <2>1, <2>2, <2>4 DEF Flow
<1>4. \A m \in Note : m # n => status'[m] = status[m]
  BY <1>1 DEF VoiceTypes
<1>5. VoiceTypes' /\ \A m \in Note : Owned(m)' <=> Owned(m)
  BY <1>1, <1>3 DEF VoiceTypes, Owned
<1>6. OwnedIsOurs(n)' /\ AliveIsAwaited(n)' /\ HandoffIsExplained(n)'
  BY <1>1, <1>3, <1>5 DEF NoteInv, OwnedIsOurs, AliveIsAwaited, Alive, HandoffIsExplained
<1>7. BoundIsExplained(n)' /\ StatusIsSettled(n)'
  BY <1>1, <1>3, <1>5 DEF NoteInv, HandoffIsExplained, BoundIsExplained, StatusIsSettled
<1>8. QED
  BY <1>1, <1>3, <1>4, <1>5, <1>6, <1>7, NoteStep DEF NoteInv

(* The platform cancels the wait for the handoff: whether the handler has  *)
(* the note is decided by whether the handoff had started.                 *)
LEMMA WaitCancelledInv ==
  ASSUME VoiceInv, NEW n \in Note, WaitCancelled(n)
  PROVE  VoiceInv'
<1>1. /\ VoiceTypes /\ NoteInv(n) /\ flow[n].at = "waiting"
      /\ owner' = owner /\ drains' = drains /\ taken' = taken /\ status' = status
      /\ handoff' = [handoff EXCEPT ![n].cancelled = Alive(n)]
      /\ flow' = [flow EXCEPT ![n].at = "ending", ![n].cut = ~flow[n].handed]
  BY NoteFacts DEF VoiceInv, WaitCancelled
<1>2. Alive(n) \in BOOLEAN /\ "ending" \in Stage /\ (~flow[n].handed) \in BOOLEAN
  BY DEF Stage, Alive
<1>3. /\ flow' \in [Note -> Flow] /\ flow'[n].at = "ending"
      /\ flow'[n].bound = flow[n].bound /\ flow'[n].handed = flow[n].handed
      /\ flow'[n].handed \/ flow'[n].cut
      /\ \A m \in Note : m # n => flow'[m] = flow[m]
  BY <1>1, <1>2 DEF VoiceTypes, Flow
<1>4. /\ handoff' \in [Note -> Handoff] /\ handoff'[n].at = handoff[n].at
      /\ \A m \in Note : m # n => handoff'[m] = handoff[m]
  <2>1. PICK b \in BOOLEAN : b = Alive(n)
    BY <1>2
  <2>2. /\ handoff \in [Note -> Handoff] /\ handoff[n] \in Handoff
        /\ handoff' = [handoff EXCEPT ![n].cancelled = b]
    BY <1>1, <2>1 DEF VoiceTypes
  <2>3. /\ handoff'[n] = [handoff[n] EXCEPT !.cancelled = b]
        /\ \A m \in Note : m # n => handoff'[m] = handoff[m]
    BY <2>2
  <2>4. handoff'[n] \in Handoff /\ handoff'[n].at = handoff[n].at
    BY <2>2, <2>3 DEF Handoff
  <2> QED
    BY <2>2, <2>3, <2>4
<1>5. VoiceTypes' /\ \A m \in Note : Owned(m)' <=> Owned(m)
  BY <1>1, <1>3, <1>4 DEF VoiceTypes, Owned
<1>6. OwnedIsOurs(n)' /\ AliveIsAwaited(n)' /\ HandoffIsExplained(n)'
  BY <1>1, <1>3, <1>4, <1>5 DEF NoteInv, OwnedIsOurs, AliveIsAwaited, Alive, HandoffIsExplained
<1>7. BoundIsExplained(n)' /\ StatusIsSettled(n)'
  BY <1>1, <1>3, <1>5 DEF NoteInv, BoundIsExplained, StatusIsSettled
<1>8. QED
  BY <1>1, <1>3, <1>4, <1>5, <1>6, <1>7, NoteStep DEF NoteInv

(* The claim is discarded, and the status deleted if it is the flow's.     *)
LEMMA DiscardsInv ==
  ASSUME VoiceInv, NEW n \in Note, Discards(n)
  PROVE  VoiceInv'
<1> DEFINE ours == status[n] = "shown" /\ ~flow[n].cut /\ ~flow[n].handed
                     /\ (Owned(n) \/ ~flow[n].bound)
           stage == IF ours THEN "deleting" ELSE "over"
<1>1. /\ VoiceTypes /\ NoteInv(n) /\ flow[n].at = "discarding" /\ Enters(n, stage)
      /\ Released({n})
      /\ handoff' = handoff /\ drains' = drains /\ taken' = taken /\ status' = status
  BY NoteFacts DEF VoiceInv, Discards
<1>2. stage \in {"deleting", "over"} /\ stage \in Stage
  BY DEF Stage
<1>3. stage = "over" /\ status[n] = "shown"
        => flow[n].handed \/ taken[n] = "with status" \/ flow[n].cut
  BY <1>1 DEF NoteInv, BoundIsExplained
<1> HIDE DEF stage
<1>4. /\ flow' \in [Note -> Flow] /\ flow'[n].at = stage
      /\ flow'[n].bound = flow[n].bound /\ flow'[n].handed = flow[n].handed
      /\ flow'[n].cut = flow[n].cut
      /\ \A m \in Note : m # n => flow'[m] = flow[m]
  BY <1>1, <1>2, EntersStage
<1>5. /\ owner' \in [Voice -> Note \cup {NoNote}]
      /\ \A m \in Note : Owned(m)' <=> Owned(m) /\ m # n
  BY <1>1, ReleasedOwned
<1>6. VoiceTypes'
  BY <1>1, <1>4, <1>5 DEF VoiceTypes
<1>7. OwnedIsOurs(n)' /\ AliveIsAwaited(n)' /\ HandoffIsExplained(n)'
  BY <1>1, <1>2, <1>4, <1>5
  DEF NoteInv, OwnedIsOurs, AliveIsAwaited, Alive, HandoffIsExplained
<1>8. BoundIsExplained(n)' /\ StatusIsSettled(n)'
  BY <1>1, <1>2, <1>3, <1>4 DEF NoteInv, BoundIsExplained, StatusIsSettled
<1>9. QED
  BY <1>1, <1>4, <1>5, <1>6, <1>7, <1>8, NoteStep DEF NoteInv

(* The note ends with the deletion of its status message.                  *)
LEMMA DeletesStatusInv ==
  ASSUME VoiceInv, NEW n \in Note, DeletesStatus(n)
  PROVE  VoiceInv'
<1>1. /\ VoiceTypes /\ NoteInv(n) /\ flow[n].at = "deleting" /\ Enters(n, "over")
      /\ owner' = owner /\ handoff' = handoff /\ drains' = drains /\ taken' = taken
  BY NoteFacts DEF VoiceInv, DeletesStatus
<1>2. PICK x \in {"deleted", "kept"} : status' = [status EXCEPT ![n] = x]
  BY DEF DeletesStatus
<1>3. /\ flow' \in [Note -> Flow] /\ flow'[n].at = "over"
      /\ flow'[n].bound = flow[n].bound /\ flow'[n].handed = flow[n].handed
      /\ flow'[n].cut = flow[n].cut
      /\ \A m \in Note : m # n => flow'[m] = flow[m]
  BY <1>1, EntersStage DEF Stage
<1>4. /\ VoiceTypes' /\ status'[n] # "shown"
      /\ \A m \in Note : (Owned(m)' <=> Owned(m)) /\ (m # n => status'[m] = status[m])
  BY <1>1, <1>2, <1>3 DEF VoiceTypes, Owned
<1>5. OwnedIsOurs(n)' /\ AliveIsAwaited(n)' /\ HandoffIsExplained(n)'
  BY <1>1, <1>3, <1>4 DEF NoteInv, OwnedIsOurs, AliveIsAwaited, Alive, HandoffIsExplained
<1>6. BoundIsExplained(n)' /\ StatusIsSettled(n)'
  BY <1>1, <1>3, <1>4 DEF NoteInv, BoundIsExplained, StatusIsSettled
<1>7. QED
  BY <1>1, <1>3, <1>4, <1>5, <1>6, NoteStep DEF NoteInv

(* The handoff runs, or ends before it has begun.                          *)
LEMMA HandoffStartsInv ==
  ASSUME VoiceInv, NEW n \in Note, HandoffStarts(n)
  PROVE  VoiceInv'
<1>1. /\ VoiceTypes /\ NoteInv(n) /\ handoff[n].at = "created" /\ flow[n] \in Flow
      /\ owner' = owner /\ drains' = drains /\ taken' = taken /\ status' = status
  BY NoteFacts DEF VoiceInv, HandoffStarts
<1>2. CASE handoff[n].cancelled
  <2>1. flow' = flow /\ handoff' = [handoff EXCEPT ![n].at = "over"]
    BY <1>2 DEF HandoffStarts
  <2>2. /\ handoff' \in [Note -> Handoff] /\ handoff'[n].at = "over"
        /\ handoff'[n].cancelled = handoff[n].cancelled
        /\ \A m \in Note : m # n => handoff'[m] = handoff[m]
    BY <1>1, <2>1 DEF VoiceTypes, Handoff
  <2>3. VoiceTypes' /\ \A m \in Note : Owned(m)' <=> Owned(m)
    BY <1>1, <2>1, <2>2 DEF VoiceTypes, Owned
  <2>4. OwnedIsOurs(n)' /\ AliveIsAwaited(n)' /\ HandoffIsExplained(n)'
    BY <1>1, <1>2, <2>1, <2>2, <2>3
    DEF NoteInv, OwnedIsOurs, AliveIsAwaited, Alive, HandoffIsExplained
  <2>5. BoundIsExplained(n)' /\ StatusIsSettled(n)'
    BY <1>1, <2>1, <2>3 DEF NoteInv, BoundIsExplained, StatusIsSettled
  <2>6. QED
    BY <1>1, <2>1, <2>2, <2>3, <2>4, <2>5, NoteStep DEF NoteInv
<1>3. CASE ~handoff[n].cancelled
  <2>1. /\ handoff' = [handoff EXCEPT ![n].at = "running"]
        /\ flow' = [flow EXCEPT ![n].handed = TRUE]
    BY <1>3 DEF HandoffStarts
  <2>2. /\ handoff' \in [Note -> Handoff] /\ handoff'[n].at = "running"
        /\ handoff'[n].cancelled = handoff[n].cancelled
        /\ \A m \in Note : m # n => handoff'[m] = handoff[m]
    BY <1>1, <2>1 DEF VoiceTypes, Handoff
  <2>3. /\ flow' \in [Note -> Flow] /\ flow'[n].at = flow[n].at
        /\ flow'[n].bound = flow[n].bound /\ flow'[n].handed
        /\ flow'[n].cut = flow[n].cut
        /\ \A m \in Note : m # n => flow'[m] = flow[m]
    BY <1>1, <2>1 DEF VoiceTypes, Flow
  <2>4. VoiceTypes' /\ \A m \in Note : Owned(m)' <=> Owned(m)
    BY <1>1, <2>2, <2>3 DEF VoiceTypes, Owned
  <2>5. OwnedIsOurs(n)' /\ AliveIsAwaited(n)' /\ HandoffIsExplained(n)'
    BY <1>1, <2>2, <2>3, <2>4
    DEF NoteInv, OwnedIsOurs, AliveIsAwaited, Alive, HandoffIsExplained
  <2>6. BoundIsExplained(n)' /\ StatusIsSettled(n)'
    BY <1>1, <2>3, <2>4 DEF NoteInv, BoundIsExplained, StatusIsSettled
  <2>7. QED
    BY <1>1, <2>2, <2>3, <2>4, <2>5, <2>6, NoteStep DEF NoteInv
<1>4. QED
  BY <1>2, <1>3

(* The handoff is over.                                                    *)
LEMMA HandoffEndsInv ==
  ASSUME VoiceInv, NEW n \in Note, HandoffEnds(n)
  PROVE  VoiceInv'
<1>1. /\ VoiceTypes /\ NoteInv(n) /\ handoff[n].at = "running" /\ flow' = flow
      /\ handoff' = [handoff EXCEPT ![n].at = "over"]
      /\ owner' = owner /\ drains' = drains /\ taken' = taken /\ status' = status
  BY NoteFacts DEF VoiceInv, HandoffEnds
<1>2. /\ handoff' \in [Note -> Handoff] /\ handoff'[n].at = "over"
      /\ handoff'[n].cancelled = handoff[n].cancelled
      /\ \A m \in Note : m # n => handoff'[m] = handoff[m]
  BY <1>1 DEF VoiceTypes, Handoff
<1>3. VoiceTypes' /\ \A m \in Note : Owned(m)' <=> Owned(m)
  BY <1>1, <1>2 DEF VoiceTypes, Owned
<1>4. OwnedIsOurs(n)' /\ AliveIsAwaited(n)' /\ HandoffIsExplained(n)'
  BY <1>1, <1>2, <1>3
  DEF NoteInv, OwnedIsOurs, AliveIsAwaited, Alive, HandoffIsExplained
<1>5. BoundIsExplained(n)' /\ StatusIsSettled(n)'
  BY <1>1, <1>3 DEF NoteInv, BoundIsExplained, StatusIsSettled
<1>6. QED
  BY <1>1, <1>2, <1>3, <1>4, <1>5, NoteStep DEF NoteInv

(* A command returns when none of the handlers it waits for may run.       *)
LEMMA CommandReturnsInv ==
  ASSUME VoiceInv, NEW c \in Commander, CommandReturns(c)
  PROVE  VoiceInv'
<1>1. /\ VoiceTypes /\ CommandsEnd /\ \A m \in Note : NoteInv(m)
      /\ drains[c] # NotCommanding /\ \A m \in drains[c] : ~Alive(m)
      /\ drains' = [drains EXCEPT ![c] = NotCommanding]
      /\ flow' = flow /\ owner' = owner /\ handoff' = handoff
      /\ taken' = taken /\ status' = status
  BY DEF VoiceInv, CommandReturns
<1>2. VoiceTypes' /\ \A d \in Commander : d # c => drains'[d] = drains[d]
  BY <1>1 DEF VoiceTypes
<1>3. drains'[c] = {NoNote} /\ NoNote \notin Note
  BY <1>1, VoiceAssumption DEF VoiceTypes, NotCommanding
<1>4. ASSUME NEW m \in Note
      PROVE  NoteInv(m)'
  <2>1. NoteInv(m) /\ (Owned(m)' <=> Owned(m)) /\ (Alive(m)' <=> Alive(m))
    BY <1>1 DEF Owned, Alive
  <2>2. AliveIsAwaited(m)'
    <3>1. SUFFICES ASSUME Alive(m), taken[m] # "no"
                   PROVE  \E d \in Commander : m \in drains'[d]
      BY <1>1, <2>1 DEF NoteInv, AliveIsAwaited
    <3>2. PICK d \in Commander : m \in drains[d]
      BY <2>1, <3>1 DEF NoteInv, AliveIsAwaited
    <3>3. d # c
      BY <1>1, <3>1, <3>2
    <3>4. QED
      BY <1>2, <3>2, <3>3
  <2>3. OwnedIsOurs(m)' /\ HandoffIsExplained(m)' /\ BoundIsExplained(m)' /\ StatusIsSettled(m)'
    BY <1>1, <2>1 DEF NoteInv, OwnedIsOurs, HandoffIsExplained, BoundIsExplained, StatusIsSettled
  <2>4. QED
    BY <2>2, <2>3 DEF NoteInv
<1>5. CommandsEnd'
  <2>1. \A x, y \in Note : WaitsFor(x, y)' => WaitsFor(x, y)
    BY <1>2, <1>3 DEF WaitsFor, Commander
  <2>2. QED
    BY <1>1, <2>1 DEF CommandsEnd
<1>6. QED
  BY <1>2, <1>4, <1>5 DEF VoiceInv

(* A command takes notes that no command excludes, its own included: the   *)
(* ones it waits for wait for nobody.                                      *)
LEMMA CommandsInv ==
  ASSUME VoiceInv, NEW c \in Commander, NEW N \in SUBSET Note, Commands(c, N)
  PROVE  VoiceInv'
<1>1. /\ VoiceTypes /\ CommandsEnd /\ \A m \in Note : NoteInv(m)
      /\ drains[c] = NotCommanding /\ Released(N)
      /\ taken' = [n \in Note |-> IF n \notin N THEN taken[n]
                                  ELSE IF flow[n].bound THEN "with status" ELSE "alone"]
      /\ handoff' = [n \in Note |-> IF n \in N /\ Alive(n)
                                    THEN [handoff[n] EXCEPT !.cancelled = TRUE]
                                    ELSE handoff[n]]
      /\ drains' = [drains EXCEPT ![c] = {n \in N : Alive(n)}]
      /\ flow' = flow /\ status' = status
  BY DEF VoiceInv, Commands
<1>2. \A m \in N : Owned(m) /\ m # c /\ drains[m] = NotCommanding
  BY DEF Commands, Excluded
<1>3. \A m \in Note : flow[m] \in Flow /\ handoff[m] \in Handoff /\ NoNote # m
  BY <1>1, VoiceAssumption DEF VoiceTypes
<1>4. \A m \in Note :
        /\ handoff'[m] \in Handoff /\ handoff'[m].at = handoff[m].at
        /\ handoff'[m].cancelled => handoff[m].cancelled \/ (m \in N /\ Alive(m))
        /\ m \notin N => handoff'[m] = handoff[m] /\ taken'[m] = taken[m]
        /\ m \in N => taken'[m] = IF flow[m].bound THEN "with status" ELSE "alone"
  BY <1>1, <1>3 DEF Handoff
<1>5. /\ owner' \in [Voice -> Note \cup {NoNote}]
      /\ \A m \in Note : Owned(m)' <=> Owned(m) /\ m \notin N
  BY <1>1, ReleasedOwned
<1>6. /\ drains'[c] = {n \in N : Alive(n)}
      /\ \A d \in Commander : d # c => drains'[d] = drains[d]
      /\ drains' \in [Commander -> (SUBSET Note) \cup {NotCommanding}]
  BY <1>1 DEF VoiceTypes
<1>7. VoiceTypes'
  <2>1. taken' \in [Note -> {"no", "alone", "with status"}]
    BY <1>1 DEF VoiceTypes
  <2>2. handoff' \in [Note -> Handoff]
    BY <1>1, <1>4
  <2>3. QED
    BY <1>1, <1>5, <1>6, <2>1, <2>2 DEF VoiceTypes
<1>8. ASSUME NEW m \in Note
      PROVE  NoteInv(m)'
  <2>1. NoteInv(m) /\ (Alive(m)' <=> Alive(m))
    BY <1>1, <1>4 DEF Alive
  <2>2. CASE m \in N
    <3>1. Owned(m) /\ ~Owned(m)'
      BY <1>2, <1>5, <2>2
    <3>2. /\ flow[m].at \notin {"new", "over", "deleting"} /\ taken[m] = "no"
          /\ taken'[m] # "no"
      BY <1>4, <2>1, <2>2, <3>1 DEF NoteInv, OwnedIsOurs
    <3>3. Alive(m) => m \in drains'[c]
      BY <1>6, <2>2
    <3>4. OwnedIsOurs(m)' /\ AliveIsAwaited(m)'
      BY <1>1, <2>1, <3>1, <3>2, <3>3 DEF NoteInv, OwnedIsOurs, AliveIsAwaited
    <3>5. flow[m].at \in {"new", "sending", "binding", "transcribing"} => ~Alive(m)
      BY <2>1 DEF NoteInv, HandoffIsExplained, Alive
    <3>6. flow[m].at = "waiting" => flow[m].bound
      BY <2>1 DEF NoteInv, BoundIsExplained
    <3>7. flow[m].bound => taken'[m] = "with status"
      BY <1>4, <2>2
    <3>8. HandoffIsExplained(m)'
      BY <1>1, <1>4, <2>1, <3>5, <3>6, <3>7 DEF NoteInv, HandoffIsExplained, Alive
    <3>9. BoundIsExplained(m)' /\ StatusIsSettled(m)'
      BY <1>1, <2>1, <3>2, <3>7 DEF NoteInv, BoundIsExplained, StatusIsSettled
    <3>10. QED
      BY <3>4, <3>8, <3>9 DEF NoteInv
  <2>3. CASE m \notin N
    <3>1. handoff'[m] = handoff[m] /\ taken'[m] = taken[m] /\ (Owned(m)' <=> Owned(m))
      BY <1>4, <1>5, <2>3
    <3>2. \A d \in Commander : m \in drains[d] => m \in drains'[d]
      BY <1>1, <1>3, <1>6 DEF NotCommanding
    <3>3. AliveIsAwaited(m)'
      BY <1>1, <2>1, <3>1, <3>2 DEF NoteInv, AliveIsAwaited
    <3>4. OwnedIsOurs(m)' /\ HandoffIsExplained(m)' /\ BoundIsExplained(m)' /\ StatusIsSettled(m)'
      BY <1>1, <2>1, <3>1 DEF NoteInv, OwnedIsOurs, HandoffIsExplained, BoundIsExplained,
                              StatusIsSettled
    <3>5. QED
      BY <3>3, <3>4 DEF NoteInv
  <2>4. QED
    BY <2>2, <2>3
<1>9. CommandsEnd'
  <2>1. \A x, y \in Note : WaitsFor(x, y)' =>
          \/ WaitsFor(x, y)
          \/ x = c /\ y # c /\ drains[y] = NotCommanding
    BY <1>2, <1>6 DEF WaitsFor, Commander
  <2>2. \A x, y \in Note : x # c /\ drains[x] = NotCommanding => ~WaitsFor(x, y)'
    BY <1>3, <1>6 DEF WaitsFor, Commander, NotCommanding
  <2>3. \A y \in Note : ~WaitsFor(c, y)
    BY <1>1, <1>3 DEF WaitsFor, NotCommanding
  <2>4. QED
    BY <1>1, <2>1, <2>2, <2>3 DEF CommandsEnd
<1>10. QED
  BY <1>7, <1>8, <1>9 DEF VoiceInv

(* A voice note is settled once, and by somebody: the handler of a note    *)
(* that a command took does not run when the command has returned, no      *)
(* status message is left behind, and commands that cancel each other's    *)
(* handoffs do not wait for each other (VoiceIsSettled).                   *)
THEOREM VoiceSettled == VoiceSpec => []VoiceIsSettled
<1>1. VoiceInit => VoiceInv
  BY VoiceInitInv
<1>2. VoiceInv /\ [VoiceNext]_voiceVars => VoiceInv'
  <2> SUFFICES ASSUME VoiceInv, [VoiceNext]_voiceVars PROVE VoiceInv'
    OBVIOUS
  <2>1. CASE UNCHANGED voiceVars
    <3>1. VoiceTypes' /\ CommandsEnd'
      BY <2>1 DEF voiceVars, VoiceInv, VoiceTypes, CommandsEnd, WaitsFor
    <3>2. ASSUME NEW n \in Note PROVE NoteInv(n)'
      BY <2>1 DEF voiceVars, VoiceInv, NoteInv, OwnedIsOurs, AliveIsAwaited, HandoffIsExplained,
                  BoundIsExplained, StatusIsSettled, Owned, Alive
    <3>3. QED
      BY <3>1, <3>2 DEF VoiceInv
  <2>2. CASE VoiceDone
    BY <2>1, <2>2 DEF VoiceDone
  <2>3. ASSUME NEW n \in Note,
               \/ Reserves(n) \/ SendsStatus(n) \/ SendFails(n) \/ BindsStatus(n)
               \/ TranscriptionFails(n) \/ HandsOff(n) \/ FlowCancelled(n) \/ WaitCancelled(n)
               \/ Discards(n) \/ DeletesStatus(n) \/ HandoffStarts(n) \/ HandoffEnds(n)
        PROVE  VoiceInv'
    BY <2>3, ReservesInv, SendsStatusInv, FailsInv, BindsStatusInv, HandsOffInv, FlowCancelledInv,
       WaitCancelledInv, DiscardsInv, DeletesStatusInv, HandoffStartsInv, HandoffEndsInv
  <2>4. QED
    BY <2>1, <2>2, <2>3, HandoffReturnsInv, CommandReturnsInv, CommandsInv DEF VoiceNext
<1>3. VoiceInv => VoiceIsSettled
  <2> SUFFICES ASSUME VoiceInv PROVE VoiceIsSettled
    OBVIOUS
  <2>1. ASSUME NEW n \in Note
        PROVE  /\ taken[n] # "no" /\ (\A c \in Commander : n \notin drains[c])
                    => ~Alive(n) /\ ~Owned(n)
               /\ flow[n].at = "over" /\ status[n] = "shown"
                    => flow[n].handed \/ taken[n] = "with status" \/ flow[n].cut
    BY DEF VoiceInv, NoteInv, OwnedIsOurs, AliveIsAwaited, StatusIsSettled
  <2>2. QED
    BY <2>1 DEF VoiceInv, VoiceIsSettled, VoiceHasOneOwner
<1>4. QED
  BY <1>1, <1>2, <1>3, PTL DEF VoiceSpec

-----------------------------------------------------------------------------
(* Delivery: whoever waits has an operation that will answer. *)

DeliveryStage == {"new", "detached", "scheduled", "waiting", "backoff"} \cup Over
DeliveryCall == [at : DeliveryStage, awaited : BOOLEAN, tries : Nat]
Operation == [func : Call \cup {Nobody}, waiters : SUBSET Call]
DeliveryTypes ==
  /\ call \in [Call -> DeliveryCall]
  /\ queue \in Seq(Key) /\ batch \in [Key -> Operation] /\ active \in Operation
  /\ worker \in {"idle", "held", "sending", "over"}
  /\ closing \in {"open", "outbox", "limiter", "closed"}

\* Whoever waits for an operation waits for one on the same key.
Serves(o, k) == /\ o.func = Nobody => o.waiters = {}
                /\ o.func # Nobody => KeyOf[o.func] = k
                /\ \A c \in o.waiters : KeyOf[c] = k

\* The queue has each key that has an operation, once.
QueueInv ==
  /\ \A i, j \in DOMAIN queue : queue[i] = queue[j] => i = j
  /\ \A k \in Key : /\ Serves(batch[k], k)
                    /\ batch[k].func # Nobody <=> \E i \in DOMAIN queue : queue[i] = k
ActiveInv ==
  /\ active.func = Nobody => active.waiters = {}
  /\ active.func # Nobody => Serves(active, KeyOf[active.func])
  /\ worker \in {"idle", "over"} => active.waiters = {}

\* A call waits in one place, and a call whose caller waits does nothing else.
CallInv(c) ==
  /\ call[c].at = "waiting" <=> c \in active.waiters \/ c \in batch[KeyOf[c]].waiters
  /\ c \notin active.waiters \/ c \notin batch[KeyOf[c]].waiters
  /\ call[c].awaited => call[c].at \in {"waiting"} \cup Over
  /\ closing # "open" => call[c].at # "detached"
  /\ closing = "closed" => call[c].at \in Over \cup {"new"}

\* A limiter that is shut down has nothing left to do.
ShutInv ==
  /\ closing \in {"limiter", "closed"} =>
       active.waiters = {} /\ queue = <<>> /\ \A k \in Key : batch[k] = Empty
  /\ closing = "closed" => worker = "over"
  /\ worker = "over" => closing \in {"limiter", "closed"}

DeliveryInv ==
  DeliveryTypes /\ QueueInv /\ ActiveInv /\ ShutInv /\ \A c \in Call : CallInv(c)

(* What a change of the stage of some calls leaves of the others.          *)
LEMMA ReachesFields ==
  ASSUME DeliveryTypes, NEW C,
         NEW stage \in DeliveryStage,
         call' = Reaches(C, stage)
  PROVE  /\ call' \in [Call -> DeliveryCall]
         /\ \A c \in Call : /\ call'[c].at = IF c \in C THEN stage ELSE call[c].at
                            /\ call'[c].awaited = call[c].awaited
<1>1. \A c \in Call : call'[c] = IF c \in C THEN [call[c] EXCEPT !.at = stage] ELSE call[c]
  BY DEF Reaches
<1>2. \A c \in Call : call[c] \in DeliveryCall
  BY DEF DeliveryTypes
<1>3. call' = [c \in Call |-> IF c \in C THEN [call[c] EXCEPT !.at = stage] ELSE call[c]]
  BY DEF Reaches
<1>4. \A c \in Call : call'[c] \in DeliveryCall
  BY <1>1, <1>2 DEF DeliveryCall
<1>5. QED
  BY <1>1, <1>2, <1>3, <1>4 DEF DeliveryCall

(* The same of one call.                                                   *)
LEMMA ReachesOne ==
  ASSUME DeliveryTypes, NEW c \in Call, NEW stage \in DeliveryStage,
         call' = Reaches({c}, stage)
  PROVE  /\ call' \in [Call -> DeliveryCall]
         /\ \A d \in Call : /\ call'[d].at = IF d = c THEN stage ELSE call[d].at
                            /\ call'[d].awaited = call[d].awaited
<1>1. /\ call' \in [Call -> DeliveryCall]
      /\ \A d \in Call : /\ call'[d].at = IF d \in {c} THEN stage ELSE call[d].at
                         /\ call'[d].awaited = call[d].awaited
  BY ReachesFields
<1>2. QED
  BY <1>1

(* What the queue is after an operation was put into it.                   *)
LEMMA PutsFields ==
  ASSUME DeliveryTypes, QueueInv, NEW c \in Call, Puts(c)
  PROVE  /\ queue' \in Seq(Key) /\ batch' \in [Key -> Operation] /\ QueueInv'
         /\ KeyOf[c] \in Key
         /\ batch'[KeyOf[c]].waiters = batch[KeyOf[c]].waiters \cup {c}
         /\ \A k \in Key : k # KeyOf[c] => batch'[k] = batch[k]
<1> DEFINE k == KeyOf[c]
           o == [func |-> c, waiters |-> batch[k].waiters \cup {c}]
<1>1. k \in Key /\ c # Nobody
  BY DeliveryAssumption DEF Key
<1>2. batch[k] \in Operation /\ queue \in Seq(Key)
  BY <1>1 DEF DeliveryTypes
<1>3. o \in Operation
  BY <1>1, <1>2 DEF Operation
<1>4. batch' = [batch EXCEPT ![k] = o]
  BY DEF Puts
<1>5. queue' = IF batch[k].func = Nobody THEN Append(queue, k) ELSE queue
  BY DEF Puts
<1>6. o.func = c /\ o.waiters = batch[k].waiters \cup {c}
  OBVIOUS
<1>7. Serves(o, k)
  BY <1>1, <1>6 DEF QueueInv, Serves
<1> HIDE DEF o, k
<1>8. /\ batch' \in [Key -> Operation] /\ batch'[k] = o
      /\ \A j \in Key : j # k => batch'[j] = batch[j]
  BY <1>1, <1>3, <1>4 DEF DeliveryTypes
<1>9. CASE batch[k].func = Nobody
  <2> DEFINE n == Len(queue)
  <2>1. /\ queue' = Append(queue, k) /\ n \in Nat /\ DOMAIN queue = 1..n
        /\ \A i \in 1..n : queue[i] # k
    BY <1>1, <1>2, <1>5, <1>9 DEF QueueInv
  <2>2. /\ DOMAIN queue' = 1..n + 1 /\ queue'[n + 1] = k
        /\ \A i \in 1..n : queue'[i] = queue[i]
        /\ queue' \in Seq(Key)
    BY <1>1, <1>2, <2>1
  <2>3. \A i, j \in DOMAIN queue' : queue'[i] = queue'[j] => i = j
    BY <2>1, <2>2 DEF QueueInv
  <2>4. ASSUME NEW j \in Key
        PROVE  /\ Serves(batch'[j], j)
               /\ batch'[j].func # Nobody <=> \E i \in DOMAIN queue' : queue'[i] = j
    <3>1. CASE j = k
      <4>1. n + 1 \in DOMAIN queue'
        BY <2>1, <2>2
      <4>2. QED
        BY <1>1, <1>6, <1>7, <1>8, <2>2, <3>1, <4>1
    <3>2. CASE j # k
      <4>1. /\ Serves(batch[j], j) /\ batch'[j] = batch[j]
            /\ batch[j].func # Nobody <=> \E i \in 1..n : queue[i] = j
        BY <1>8, <2>1, <3>2 DEF QueueInv
      <4>2. (\E i \in DOMAIN queue' : queue'[i] = j) <=> \E i \in 1..n : queue[i] = j
        BY <2>1, <2>2, <3>2
      <4>3. QED
        BY <4>1, <4>2
    <3>3. QED
      BY <3>1, <3>2
  <2>5. QED
    BY <1>1, <1>6, <1>8, <2>2, <2>3, <2>4 DEF QueueInv, k
<1>10. CASE batch[k].func # Nobody
  <2>1. queue' = queue
    BY <1>5, <1>10
  <2>2. QueueInv'
    <3>1. \A i, j \in DOMAIN queue' : queue'[i] = queue'[j] => i = j
      BY <2>1 DEF QueueInv
    <3>2. ASSUME NEW j \in Key
          PROVE  /\ Serves(batch'[j], j)
                 /\ batch'[j].func # Nobody <=> \E i \in DOMAIN queue' : queue'[i] = j
      BY <1>1, <1>6, <1>7, <1>8, <1>10, <2>1 DEF QueueInv
    <3>3. QED
      BY <3>1, <3>2 DEF QueueInv
  <2>3. QED
    BY <1>1, <1>2, <1>6, <1>8, <2>1, <2>2 DEF k
<1>11. QED
  BY <1>9, <1>10

(* A step that leaves the queue and the worker alone keeps their parts.    *)
LEMMA SameDelivery ==
  ASSUME DeliveryInv, delivery' = delivery, closing' = closing
  PROVE  /\ QueueInv' /\ ActiveInv' /\ ShutInv' /\ Empty' = Empty
         /\ queue' = queue /\ batch' = batch /\ active' = active /\ worker' = worker
         /\ queue \in Seq(Key) /\ batch \in [Key -> Operation] /\ active \in Operation
         /\ worker \in {"idle", "held", "sending", "over"}
         /\ closing \in {"open", "outbox", "limiter", "closed"}
<1>1. queue' = queue /\ batch' = batch /\ active' = active /\ worker' = worker
  BY DEF delivery
<1>2. QED
  BY <1>1 DEF DeliveryInv, DeliveryTypes, QueueInv, ActiveInv, ShutInv, Serves, Empty

(* A call that was not made yet, or is not run yet, is scheduled or refused. *)
LEMMA ComingKeepsDelivery ==
  ASSUME DeliveryInv, NEW c \in Call, Detaches(c) \/ Schedules(c) \/ Refuses(c)
  PROVE  DeliveryInv'
<1>1. delivery' = delivery /\ closing' = closing /\ call[c].at \in {"new", "detached"}
  BY DEF Detaches, Schedules, Refuses
<1>2. PICK stage \in {"detached", "scheduled", "failed"} :
        /\ stage \in DeliveryStage
        /\ call' = Reaches({c}, stage)
        /\ stage # "failed" => closing = "open"
  BY DEF Detaches, Schedules, Refuses, Open, DeliveryStage, Over
<1>3. /\ QueueInv' /\ ActiveInv' /\ ShutInv'
      /\ queue' = queue /\ batch' = batch /\ active' = active /\ worker' = worker
      /\ queue \in Seq(Key) /\ batch \in [Key -> Operation] /\ active \in Operation
      /\ worker \in {"idle", "held", "sending", "over"}
      /\ closing \in {"open", "outbox", "limiter", "closed"}
  BY <1>1, SameDelivery
<1>4. /\ call' \in [Call -> DeliveryCall]
      /\ \A d \in Call : /\ call'[d].at = IF d = c THEN stage ELSE call[d].at
                         /\ call'[d].awaited = call[d].awaited
  BY <1>2, ReachesOne DEF DeliveryInv, DeliveryStage, Over
<1>5. DeliveryTypes'
  BY <1>1, <1>3, <1>4 DEF DeliveryTypes
<1>6. ASSUME NEW d \in Call PROVE CallInv(d)'
  BY <1>1, <1>2, <1>3, <1>4 DEF DeliveryInv, CallInv, Over
<1>7. QED
  BY <1>3, <1>5, <1>6 DEF DeliveryInv

(* The caller of an awaited call puts its operation into the queue.        *)
LEMMA AwaitsKeepsDelivery ==
  ASSUME DeliveryInv, NEW c \in Call, Awaits(c)
  PROVE  DeliveryInv'
<1> DEFINE q == [at |-> "waiting", awaited |-> TRUE, tries |-> 0]
<1>1. /\ call[c].at = "new" /\ closing = "open" /\ Puts(c)
      /\ call' = [call EXCEPT ![c] = q]
      /\ active' = active /\ worker' = worker /\ closing' = closing
  BY DEF Awaits, Open
<1>2. /\ queue' \in Seq(Key) /\ batch' \in [Key -> Operation] /\ QueueInv'
      /\ KeyOf[c] \in Key
      /\ batch'[KeyOf[c]].waiters = batch[KeyOf[c]].waiters \cup {c}
      /\ \A k \in Key : k # KeyOf[c] => batch'[k] = batch[k]
  BY <1>1, PutsFields DEF DeliveryInv
<1>3. /\ q \in DeliveryCall
      /\ q.at = "waiting"
  BY DEF DeliveryCall, DeliveryStage
<1> HIDE DEF q
<1>4. /\ call'[c] = q /\ \A d \in Call : d # c => call'[d] = call[d]
      /\ DeliveryTypes'
  BY <1>1, <1>2, <1>3 DEF DeliveryInv, DeliveryTypes
<1>5. ActiveInv' /\ ShutInv'
  BY <1>1 DEF DeliveryInv, ActiveInv, ShutInv, Serves
<1>6. ASSUME NEW d \in Call PROVE CallInv(d)'
  <2>1. KeyOf[d] \in Key /\ CallInv(d) /\ CallInv(c)
    BY DEF Key, DeliveryInv
  <2>2. d # c => (d \in batch'[KeyOf[d]].waiters <=> d \in batch[KeyOf[d]].waiters)
    BY <1>2, <2>1
  <2>3. CASE d = c
    BY <1>1, <1>2, <1>3, <1>4, <2>1, <2>3 DEF CallInv
  <2>4. CASE d # c
    BY <1>1, <1>4, <2>1, <2>2, <2>4 DEF CallInv
  <2>5. QED
    BY <2>3, <2>4
<1>7. QED
  BY <1>2, <1>4, <1>5, <1>6 DEF DeliveryInv

(* A fire-and-forget call puts its operation into the queue, or fails.     *)
LEMMA EnqueuesKeepsDelivery ==
  ASSUME DeliveryInv, NEW c \in Call, Enqueues(c)
  PROVE  DeliveryInv'
<1>1. /\ call[c].at \in {"scheduled", "backoff"} /\ closing' = closing
      /\ active' = active /\ worker' = worker
  BY DEF Enqueues
<1>2. CASE Accepting
  <2>1. Puts(c) /\ call' = Reaches({c}, "waiting") /\ closing \in {"open", "outbox"}
    BY <1>2 DEF Enqueues, Accepting
  <2>2. /\ queue' \in Seq(Key) /\ batch' \in [Key -> Operation] /\ QueueInv'
        /\ KeyOf[c] \in Key
        /\ batch'[KeyOf[c]].waiters = batch[KeyOf[c]].waiters \cup {c}
        /\ \A k \in Key : k # KeyOf[c] => batch'[k] = batch[k]
    BY <2>1, PutsFields DEF DeliveryInv
  <2>3. /\ call' \in [Call -> DeliveryCall]
        /\ \A d \in Call : /\ call'[d].at = IF d = c THEN "waiting" ELSE call[d].at
                           /\ call'[d].awaited = call[d].awaited
    BY <2>1, ReachesOne DEF DeliveryInv, DeliveryStage, Over
  <2>4. DeliveryTypes'
    BY <1>1, <2>2, <2>3 DEF DeliveryInv, DeliveryTypes
  <2>5. ActiveInv' /\ ShutInv'
    BY <1>1, <2>1 DEF DeliveryInv, ActiveInv, ShutInv, Serves
  <2>6. ASSUME NEW d \in Call PROVE CallInv(d)'
    <3>1. KeyOf[d] \in Key /\ CallInv(d) /\ CallInv(c)
      BY DEF Key, DeliveryInv
    <3>2. d # c => (d \in batch'[KeyOf[d]].waiters <=> d \in batch[KeyOf[d]].waiters)
      BY <2>2, <3>1
    <3>3. CASE d = c
      BY <1>1, <2>1, <2>2, <2>3, <3>1, <3>3 DEF CallInv
    <3>4. CASE d # c
      BY <1>1, <2>3, <3>1, <3>2, <3>4 DEF CallInv
    <3>5. QED
      BY <3>3, <3>4
  <2>7. QED
    BY <2>2, <2>4, <2>5, <2>6 DEF DeliveryInv
<1>3. CASE ~Accepting
  <2>1. call' = Reaches({c}, "failed") /\ delivery' = delivery
    BY <1>3 DEF Enqueues, delivery
  <2>2. /\ QueueInv' /\ ActiveInv' /\ ShutInv'
        /\ queue' = queue /\ batch' = batch /\ active' = active /\ worker' = worker
        /\ queue \in Seq(Key) /\ batch \in [Key -> Operation] /\ active \in Operation
        /\ worker \in {"idle", "held", "sending", "over"}
        /\ closing \in {"open", "outbox", "limiter", "closed"}
    BY <1>1, <2>1, SameDelivery
  <2>3. /\ call' \in [Call -> DeliveryCall]
        /\ \A d \in Call : /\ call'[d].at = IF d = c THEN "failed" ELSE call[d].at
                           /\ call'[d].awaited = call[d].awaited
    BY <2>1, ReachesOne DEF DeliveryInv, DeliveryStage, Over
  <2>4. DeliveryTypes'
    BY <1>1, <2>2, <2>3 DEF DeliveryTypes
  <2>5. ASSUME NEW d \in Call PROVE CallInv(d)'
    BY <1>1, <2>2, <2>3 DEF DeliveryInv, CallInv, Over
  <2>6. QED
    BY <2>2, <2>4, <2>5 DEF DeliveryInv
<1>4. QED
  BY <1>2, <1>3

(* A caller that gives up waits no more; its operation stays.              *)
LEMMA GivesUpKeepsDelivery ==
  ASSUME DeliveryInv, NEW c \in Call, CallerGivesUp(c)
  PROVE  DeliveryInv'
<1>1. /\ call[c].at = "waiting" /\ call' = Reaches({c}, "cancelled")
      /\ batch' = [k \in Key |-> [batch[k] EXCEPT !.waiters = @ \ {c}]]
      /\ active' = [active EXCEPT !.waiters = @ \ {c}]
      /\ queue' = queue /\ worker' = worker /\ closing' = closing
  BY DEF CallerGivesUp
<1>2. DeliveryTypes /\ CallInv(c)
  BY DEF DeliveryInv
<1>3. /\ active' \in Operation /\ active'.func = active.func
      /\ active'.waiters = active.waiters \ {c}
  BY <1>1, <1>2 DEF DeliveryTypes, Operation
<1>4. /\ \A k \in Key : /\ batch'[k] \in Operation /\ batch'[k].func = batch[k].func
                        /\ batch'[k].waiters = batch[k].waiters \ {c}
      /\ batch' \in [Key -> Operation]
  BY <1>1, <1>2 DEF DeliveryTypes, Operation
<1>5. /\ call' \in [Call -> DeliveryCall]
      /\ \A d \in Call : /\ call'[d].at = IF d = c THEN "cancelled" ELSE call[d].at
                         /\ call'[d].awaited = call[d].awaited
  BY <1>1, <1>2, ReachesOne DEF DeliveryStage, Over
<1>6. DeliveryTypes'
  BY <1>1, <1>2, <1>3, <1>4, <1>5 DEF DeliveryTypes
<1>7. QueueInv'
  BY <1>1, <1>4 DEF DeliveryInv, QueueInv, Serves
<1>8. ActiveInv'
  BY <1>1, <1>3 DEF DeliveryInv, ActiveInv, Serves
<1>9. ShutInv'
  <2>1. closing \notin {"limiter", "closed"}
    <3>1. closing \in {"limiter", "closed"} => active.waiters = {} /\ batch[KeyOf[c]] = Empty
      BY DEF DeliveryInv, ShutInv, Key
    <3>2. QED
      BY <1>1, <1>2, <3>1 DEF CallInv, Empty
  <2>2. QED
    BY <1>1, <2>1 DEF DeliveryInv, ShutInv
<1>10. ASSUME NEW d \in Call PROVE CallInv(d)'
  <2>1. KeyOf[d] \in Key /\ CallInv(d)
    BY DEF Key, DeliveryInv
  <2>2. /\ active'.waiters = active.waiters \ {c}
        /\ batch'[KeyOf[d]].waiters = batch[KeyOf[d]].waiters \ {c}
        /\ call'[d].awaited = call[d].awaited /\ closing' = closing
    BY <1>1, <1>3, <1>4, <1>5, <2>1
  <2>3. CASE d = c
    <3>1. call'[d].at = "cancelled"
      BY <1>5, <2>3
    <3>2. QED
      BY <2>2, <2>3, <3>1 DEF CallInv, Over
  <2>4. CASE d # c
    <3>1. call'[d].at = call[d].at
      BY <1>5, <2>4
    <3>2. QED
      BY <2>1, <2>2, <2>4, <3>1 DEF CallInv
  <2>5. QED
    BY <2>3, <2>4
<1>11. QED
  BY <1>6, <1>7, <1>8, <1>9, <1>10 DEF DeliveryInv

(* What is left of a queue whose head was taken.                           *)
LEMMA TailOf ==
  ASSUME NEW S, NEW q \in Seq(S), q # <<>>, \A i, j \in DOMAIN q : q[i] = q[j] => i = j
  PROVE  /\ Tail(q) \in Seq(S) /\ Head(q) \in S
         /\ \A i, j \in DOMAIN Tail(q) : Tail(q)[i] = Tail(q)[j] => i = j
         /\ \A x : (\E i \in DOMAIN Tail(q) : Tail(q)[i] = x)
                     <=> x # Head(q) /\ \E i \in DOMAIN q : q[i] = x
<1> DEFINE n == Len(q)
<1>1. n \in Nat \ {0} /\ DOMAIN q = 1..n /\ Head(q) = q[1] /\ Head(q) \in S
  OBVIOUS
<1>2. /\ Tail(q) \in Seq(S) /\ DOMAIN Tail(q) = 1..n - 1
      /\ \A i \in 1..n - 1 : Tail(q)[i] = q[i + 1]
  OBVIOUS
<1> DEFINE t == Tail(q)
<1> HIDE DEF t, n
<1>3. \A i \in 1..n - 1 : i + 1 \in 1..n /\ i + 1 # 1
  BY <1>1
<1>4. \A i \in 1..n : i # 1 => i - 1 \in 1..n - 1 /\ (i - 1) + 1 = i
  BY <1>1
<1>5. ASSUME NEW i \in 1..n - 1, NEW j \in 1..n - 1, t[i] = t[j]
      PROVE  i = j
  <2>1. q[i + 1] = q[j + 1] /\ i + 1 \in DOMAIN q /\ j + 1 \in DOMAIN q
    BY <1>1, <1>2, <1>3, <1>5 DEF t
  <2>2. i + 1 = j + 1
    BY <2>1
  <2>3. QED
    BY <2>2
<1>6. ASSUME NEW x
      PROVE  (\E i \in 1..n - 1 : t[i] = x) <=> x # q[1] /\ \E i \in 1..n : q[i] = x
  <2>1. ASSUME NEW i \in 1..n - 1, t[i] = x
        PROVE  x # q[1] /\ \E j \in 1..n : q[j] = x
    <3>1. q[i + 1] = x /\ i + 1 \in 1..n /\ i + 1 # 1 /\ 1 \in 1..n
      BY <1>1, <1>2, <1>3, <2>1 DEF t
    <3>2. QED
      BY <1>1, <3>1
  <2>2. ASSUME x # q[1], NEW i \in 1..n, q[i] = x
        PROVE  \E j \in 1..n - 1 : t[j] = x
    <3>1. i # 1
      BY <2>2
    <3>2. i - 1 \in 1..n - 1 /\ t[i - 1] = x
      BY <1>2, <1>4, <2>2, <3>1 DEF t
    <3>3. QED
      BY <3>2
  <2>3. QED
    BY <2>1, <2>2
<1>7. QED
  BY <1>1, <1>2, <1>5, <1>6 DEF t

(* The worker takes the first operation with whoever waits for it.         *)
LEMMA TakesKeepsDelivery ==
  ASSUME DeliveryInv, WorkerTakes
  PROVE  DeliveryInv'
<1> DEFINE h == Head(queue)
<1>1. /\ worker = "idle" /\ queue # <<>> /\ active' = batch[h]
      /\ batch' = [batch EXCEPT ![h] = Empty] /\ queue' = Tail(queue) /\ worker' = "held"
      /\ call' = call /\ closing' = closing
  BY DEF WorkerTakes
<1>2. /\ DeliveryTypes /\ QueueInv /\ active.waiters = {} /\ Empty \in Operation
      /\ Empty.func = Nobody /\ Empty.waiters = {}
  BY <1>1 DEF DeliveryInv, ActiveInv, Empty, Operation
<1>3. /\ Tail(queue) \in Seq(Key) /\ h \in Key
      /\ \A i, j \in DOMAIN Tail(queue) : Tail(queue)[i] = Tail(queue)[j] => i = j
      /\ \A x : (\E i \in DOMAIN Tail(queue) : Tail(queue)[i] = x)
                  <=> x # h /\ \E i \in DOMAIN queue : queue[i] = x
  BY <1>1, <1>2, TailOf DEF QueueInv, DeliveryTypes
<1>4. \E i \in DOMAIN queue : queue[i] = h
  BY <1>1, <1>2 DEF DeliveryTypes
<1>5. Serves(batch[h], h) /\ batch[h].func # Nobody
  BY <1>2, <1>3, <1>4 DEF QueueInv
<1> HIDE DEF h
<1>6. /\ batch' \in [Key -> Operation] /\ batch'[h] = Empty
      /\ \A k \in Key : k # h => batch'[k] = batch[k]
      /\ batch[h] \in Operation
  BY <1>1, <1>2, <1>3 DEF DeliveryTypes
<1>7. DeliveryTypes'
  BY <1>1, <1>2, <1>3, <1>6 DEF DeliveryTypes
<1>8. QueueInv'
  <2>1. \A i, j \in DOMAIN queue' : queue'[i] = queue'[j] => i = j
    BY <1>1, <1>3
  <2>2. ASSUME NEW k \in Key
        PROVE  /\ Serves(batch'[k], k)
               /\ batch'[k].func # Nobody <=> \E i \in DOMAIN queue' : queue'[i] = k
    <3>1. CASE k = h
      <4>1. Serves(Empty, k)
        BY <1>2 DEF Serves
      <4>2. ~\E i \in DOMAIN queue' : queue'[i] = k
        BY <1>1, <1>3, <3>1
      <4> QED
        BY <1>2, <1>6, <3>1, <4>1, <4>2
    <3>2. CASE k # h
      <4>1. Serves(batch[k], k) /\ (batch[k].func # Nobody <=> \E i \in DOMAIN queue : queue[i] = k)
        BY <1>2 DEF QueueInv
      <4>2. (\E i \in DOMAIN queue' : queue'[i] = k) <=> \E i \in DOMAIN queue : queue[i] = k
        BY <1>1, <1>3, <3>2
      <4> QED
        BY <1>6, <3>2, <4>1, <4>2
    <3> QED
      BY <3>1, <3>2
  <2> QED
    BY <2>1, <2>2 DEF QueueInv, Serves
<1>9. ActiveInv'
  BY <1>1, <1>5 DEF ActiveInv, Serves
<1>10. ShutInv'
  BY <1>1 DEF DeliveryInv, ShutInv
<1>11. ASSUME NEW d \in Call PROVE CallInv(d)'
  <2>1. KeyOf[d] \in Key /\ CallInv(d) /\ Serves(batch[KeyOf[d]], KeyOf[d])
    BY <1>2 DEF Key, DeliveryInv, QueueInv
  <2>2. CASE KeyOf[d] = h
    BY <1>1, <1>2, <1>6, <2>1, <2>2 DEF CallInv
  <2>3. CASE KeyOf[d] # h
    BY <1>1, <1>2, <1>5, <1>6, <2>1, <2>3 DEF CallInv, Serves
  <2>4. QED
    BY <2>2, <2>3
<1>12. QED
  BY <1>7, <1>8, <1>9, <1>10, <1>11 DEF DeliveryInv

(* Whoever waited for the operation with the worker gets its outcome.      *)
LEMMA AnswersKeepsDelivery ==
  ASSUME DeliveryInv, NEW f \in [Call -> DeliveryCall], Answers(f),
         \A c \in Call : IF c \in active.waiters
                         THEN /\ f[c].at \in {"done", "failed", "cancelled", "backoff"}
                              /\ f[c].awaited = call[c].awaited
                              /\ f[c].at = "backoff" => ~call[c].awaited
                         ELSE f[c] = call[c]
  PROVE  DeliveryInv'
<1>1. /\ worker = "sending" /\ worker' = "idle" /\ call' = f /\ active' = Empty
      /\ queue' = queue /\ batch' = batch /\ closing' = closing /\ closing # "limiter"
  BY DEF Answers
<1>2. /\ DeliveryTypes /\ QueueInv /\ Empty \in Operation
      /\ Empty.func = Nobody /\ Empty.waiters = {} /\ closing # "closed"
  BY <1>1 DEF DeliveryInv, Empty, Operation, ShutInv
<1>3. DeliveryTypes' /\ QueueInv' /\ ActiveInv'
  BY <1>1, <1>2 DEF DeliveryTypes, QueueInv, ActiveInv, Serves
<1>4. ShutInv'
  BY <1>1, <1>2 DEF ShutInv
<1>5. ASSUME NEW d \in Call PROVE CallInv(d)'
  <2>1. KeyOf[d] \in Key /\ CallInv(d)
    BY DEF Key, DeliveryInv
  <2>2. QED
    BY <1>1, <1>2, <2>1 DEF CallInv, Over
<1>6. QED
  BY <1>3, <1>4, <1>5 DEF DeliveryInv

(* The operation was performed, was cancelled, or raised.                  *)
LEMMA OutcomeKeepsDelivery ==
  ASSUME DeliveryInv,
         Succeeds \/ OperationCancelled \/ \E transient \in BOOLEAN : Raises(transient)
  PROVE  DeliveryInv'
<1>1. \A c \in Call : call[c] \in DeliveryCall
  BY DEF DeliveryInv, DeliveryTypes
<1>2. ASSUME NEW stage \in {"done", "cancelled"}, Answers(Reaches(active.waiters, stage))
      PROVE  DeliveryInv'
  <2> DEFINE f == Reaches(active.waiters, stage)
  <2>1. f = [c \in Call |-> IF c \in active.waiters THEN [call[c] EXCEPT !.at = stage]
                            ELSE call[c]]
    BY DEF Reaches
  <2>2. Answers(f)
    BY <1>2
  <2> HIDE DEF f
  <2>3. ASSUME NEW c \in Call
        PROVE  /\ f[c] \in DeliveryCall
               /\ IF c \in active.waiters
                  THEN f[c].at = stage /\ f[c].awaited = call[c].awaited
                  ELSE f[c] = call[c]
    BY <1>1, <2>1 DEF DeliveryCall, DeliveryStage, Over
  <2>4. f \in [Call -> DeliveryCall]
    BY <2>1, <2>3
  <2>5. QED
    BY <2>2, <2>3, <2>4, AnswersKeepsDelivery
<1>3. ASSUME NEW transient \in BOOLEAN, Raises(transient)
      PROVE  DeliveryInv'
  <2> DEFINE f == [c \in Call |->
                     IF c \notin active.waiters THEN call[c]
                     ELSE IF transient /\ ~call[c].awaited /\ call[c].tries < MaxRetries
                     THEN [call[c] EXCEPT !.at = "backoff", !.tries = @ + 1]
                     ELSE [call[c] EXCEPT !.at = "failed"]]
  <2>1. Answers(f)
    BY <1>3 DEF Raises
  <2>2. ASSUME NEW c \in Call
        PROVE  /\ f[c] \in DeliveryCall
               /\ IF c \in active.waiters
                  THEN /\ f[c].at \in {"done", "failed", "backoff"}
                       /\ f[c].awaited = call[c].awaited
                       /\ f[c].at = "backoff" => ~call[c].awaited
                  ELSE f[c] = call[c]
    <3>1. f[c] = IF c \notin active.waiters THEN call[c]
                 ELSE IF transient /\ ~call[c].awaited /\ call[c].tries < MaxRetries
                 THEN [call[c] EXCEPT !.at = "backoff", !.tries = call[c].tries + 1]
                 ELSE [call[c] EXCEPT !.at = "failed"]
      OBVIOUS
    <3> HIDE DEF f
    <3>2. call[c] \in DeliveryCall
      BY <1>1
    <3>3. CASE c \notin active.waiters
      BY <3>1, <3>2, <3>3
    <3>4. CASE c \in active.waiters /\ f[c] = [call[c] EXCEPT !.at = "failed"]
      BY <3>2, <3>4 DEF DeliveryCall, DeliveryStage, Over
    <3>5. CASE /\ c \in active.waiters /\ ~call[c].awaited
               /\ f[c] = [call[c] EXCEPT !.at = "backoff", !.tries = call[c].tries + 1]
      <4>1. call[c].tries + 1 \in Nat
        BY <3>2 DEF DeliveryCall
      <4>2. QED
        BY <3>2, <3>5, <4>1 DEF DeliveryCall, DeliveryStage, Over
    <3>6. QED
      BY <3>1, <3>3, <3>4, <3>5
  <2>3. f \in [Call -> DeliveryCall]
    BY <2>2
  <2> HIDE DEF f
  <2>4. QED
    BY <2>1, <2>2, <2>3, AnswersKeepsDelivery
<1>4. QED
  BY <1>2, <1>3 DEF Succeeds, OperationCancelled

(* The worker waits for its turn to send.                                  *)
LEMMA ProceedsKeepsDelivery ==
  ASSUME DeliveryInv, WorkerProceeds
  PROVE  DeliveryInv'
<1>1. /\ worker = "held" /\ worker' = "sending" /\ closing # "limiter"
      /\ call' = call /\ queue' = queue /\ batch' = batch /\ active' = active
      /\ closing' = closing
  BY DEF WorkerProceeds
<1>2. DeliveryTypes' /\ QueueInv' /\ ActiveInv' /\ ShutInv'
  BY <1>1 DEF DeliveryInv, DeliveryTypes, QueueInv, ActiveInv, ShutInv, Serves
<1>3. \A d \in Call : CallInv(d)'
  BY <1>1 DEF DeliveryInv, CallInv
<1>4. QED
  BY <1>2, <1>3 DEF DeliveryInv

(* The outbox closes, and cancels the tasks that have not run.             *)
LEMMA OutboxKeepsDelivery ==
  ASSUME DeliveryInv, OutboxCloses
  PROVE  DeliveryInv'
<1> DEFINE C == {c \in Call : call[c].at = "detached"}
<1>1. /\ closing = "open" /\ closing' = "outbox" /\ call' = Reaches(C, "cancelled")
      /\ queue' = queue /\ batch' = batch /\ active' = active /\ worker' = worker
  BY DEF OutboxCloses, delivery
<1>2. /\ call' \in [Call -> DeliveryCall]
      /\ \A c \in Call : /\ call'[c].at = IF c \in C THEN "cancelled" ELSE call[c].at
                         /\ call'[c].awaited = call[c].awaited
  BY <1>1, ReachesFields DEF DeliveryInv, DeliveryStage, Over
<1>3. DeliveryTypes' /\ QueueInv' /\ ActiveInv'
  BY <1>1, <1>2 DEF DeliveryInv, DeliveryTypes, QueueInv, ActiveInv, Serves
<1>4. ShutInv'
  BY <1>1 DEF DeliveryInv, ShutInv
<1>5. ASSUME NEW d \in Call PROVE CallInv(d)'
  BY <1>1, <1>2 DEF DeliveryInv, CallInv, Over
<1>6. QED
  BY <1>3, <1>4, <1>5 DEF DeliveryInv

(* The limiter is shut down: whoever waits is cancelled.                   *)
LEMMA LimiterKeepsDelivery ==
  ASSUME DeliveryInv, LimiterCloses
  PROVE  DeliveryInv'
<1> DEFINE C == active.waiters \cup UNION {batch[k].waiters : k \in Key}
<1>1. /\ closing = "outbox" /\ closing' = "limiter" /\ call' = Reaches(C, "cancelled")
      /\ queue' = <<>> /\ batch' = [k \in Key |-> Empty]
      /\ active' = [active EXCEPT !.waiters = {}] /\ worker' = worker
  BY DEF LimiterCloses
<1>2. DeliveryTypes /\ Empty \in Operation /\ Empty.func = Nobody /\ Empty.waiters = {}
  BY DEF DeliveryInv, Empty, Operation
<1>3. /\ call' \in [Call -> DeliveryCall]
      /\ \A c \in Call : /\ call'[c].at = IF c \in C THEN "cancelled" ELSE call[c].at
                         /\ call'[c].awaited = call[c].awaited
  BY <1>1, <1>2, ReachesFields DEF DeliveryStage, Over
<1>4. \A c \in Call : call[c].at = "waiting" <=> c \in C
  <2>1. ASSUME NEW c \in Call PROVE call[c].at = "waiting" <=> c \in C
    <3>1. KeyOf[c] \in Key /\ CallInv(c)
      BY DEF Key, DeliveryInv
    <3>2. \A k \in Key : c \in batch[k].waiters => KeyOf[c] = k
      BY DEF DeliveryInv, QueueInv, Serves
    <3>3. QED
      BY <3>1, <3>2 DEF CallInv
  <2>2. QED
    BY <2>1
<1> HIDE DEF C
<1>5. /\ active' \in Operation /\ active'.func = active.func /\ active'.waiters = {}
      /\ batch' \in [Key -> Operation] /\ \A k \in Key : batch'[k] = Empty
  BY <1>1, <1>2 DEF DeliveryTypes, Operation
<1>6. <<>> \in Seq(Key) /\ DOMAIN <<>> = {}
  OBVIOUS
<1>7. DeliveryTypes'
  BY <1>1, <1>2, <1>3, <1>5, <1>6 DEF DeliveryTypes
<1>8. QueueInv'
  BY <1>1, <1>2, <1>5, <1>6 DEF QueueInv, Serves
<1>9. ActiveInv'
  BY <1>5 DEF ActiveInv, Serves, DeliveryInv
<1>10. ShutInv'
  BY <1>1, <1>5 DEF ShutInv, Empty
<1>11. ASSUME NEW d \in Call PROVE CallInv(d)'
  <2>1. KeyOf[d] \in Key /\ CallInv(d)
    BY DEF Key, DeliveryInv
  <2>2. QED
    BY <1>1, <1>2, <1>3, <1>4, <1>5, <2>1 DEF CallInv, Over
<1>12. QED
  BY <1>7, <1>8, <1>9, <1>10, <1>11 DEF DeliveryInv

(* The worker ends, with nobody waiting; then the tasks of calls do.       *)
LEMMA EndsKeepsDelivery ==
  ASSUME DeliveryInv, WorkerEnds \/ BackgroundEnds
  PROVE  DeliveryInv'
<1>0. DeliveryTypes /\ Empty \in Operation /\ Empty.func = Nobody /\ Empty.waiters = {}
  BY DEF DeliveryInv, Empty, Operation
<1>1. CASE WorkerEnds
  <2>1. /\ closing = "limiter" /\ worker' = "over" /\ active' = Empty
        /\ call' = Reaches(active.waiters, "cancelled")
        /\ queue' = queue /\ batch' = batch /\ closing' = closing
        /\ active.waiters = {}
    BY <1>1 DEF WorkerEnds, DeliveryInv, ShutInv
  <2>2. /\ call' \in [Call -> DeliveryCall]
        /\ \A c \in Call : /\ call'[c].at = call[c].at
                           /\ call'[c].awaited = call[c].awaited
    <3>1. /\ call' \in [Call -> DeliveryCall]
          /\ \A c \in Call : /\ call'[c].at = IF c \in active.waiters THEN "cancelled"
                                              ELSE call[c].at
                             /\ call'[c].awaited = call[c].awaited
      BY <1>0, <2>1, ReachesFields DEF DeliveryStage, Over
    <3>2. QED
      BY <2>1, <3>1
  <2>3. DeliveryTypes' /\ QueueInv' /\ ActiveInv'
    BY <1>0, <2>1, <2>2 DEF DeliveryInv, DeliveryTypes, QueueInv, ActiveInv, Serves
  <2>4. ShutInv'
    BY <1>0, <2>1 DEF DeliveryInv, ShutInv, Empty
  <2>5. ASSUME NEW d \in Call PROVE CallInv(d)'
    BY <1>0, <2>1, <2>2 DEF DeliveryInv, CallInv
  <2>6. QED
    BY <2>3, <2>4, <2>5 DEF DeliveryInv
<1>2. CASE BackgroundEnds
  <2> DEFINE C == {c \in Call : ~call[c].awaited /\ call[c].at \in {"scheduled", "waiting", "backoff"}}
  <2>1. /\ closing = "limiter" /\ closing' = "closed" /\ worker \notin {"idle", "held", "sending"}
        /\ call' = Reaches(C, "cancelled")
        /\ queue' = queue /\ batch' = batch /\ active' = active /\ worker' = worker
    BY <1>2 DEF BackgroundEnds, delivery, Running
  <2>2. /\ call' \in [Call -> DeliveryCall]
        /\ \A c \in Call : /\ call'[c].at = IF c \in C THEN "cancelled" ELSE call[c].at
                           /\ call'[c].awaited = call[c].awaited
    BY <1>0, <2>1, ReachesFields DEF DeliveryStage, Over
  <2>3. DeliveryTypes' /\ QueueInv' /\ ActiveInv'
    BY <1>0, <2>1, <2>2 DEF DeliveryInv, DeliveryTypes, QueueInv, ActiveInv, Serves
  <2>4. ShutInv'
    BY <1>0, <2>1 DEF DeliveryInv, ShutInv, DeliveryTypes, Empty
  <2>5. ASSUME NEW d \in Call PROVE CallInv(d)'
    <3>1. KeyOf[d] \in Key /\ CallInv(d) /\ call[d] \in DeliveryCall
      BY <1>0 DEF Key, DeliveryInv, DeliveryTypes
    <3>2. call[d].at # "waiting"
      BY <1>0, <2>1, <3>1 DEF CallInv, DeliveryInv, ShutInv
    <3>3. call'[d].at \in Over \cup {"new"}
      BY <2>1, <2>2, <3>1, <3>2 DEF CallInv, DeliveryCall, DeliveryStage, Over
    <3>4. QED
      BY <2>1, <2>2, <3>1, <3>2, <3>3 DEF CallInv, Over
  <2>6. QED
    BY <2>3, <2>4, <2>5 DEF DeliveryInv
<1>3. QED
  BY <1>1, <1>2

(* What every state of the delivery satisfies.                             *)
LEMMA DeliveryInvariant == DeliverySpec => []DeliveryInv
<1>1. DeliveryInit => DeliveryInv
  <2> SUFFICES ASSUME DeliveryInit PROVE DeliveryInv
    OBVIOUS
  <2>1. Empty \in Operation /\ Empty.func = Nobody /\ Empty.waiters = {}
    BY DEF Empty, Operation
  <2>2. <<>> \in Seq(Key) /\ DOMAIN <<>> = {}
    OBVIOUS
  <2>3. DeliveryTypes
    BY <2>1, <2>2 DEF DeliveryInit, DeliveryTypes, DeliveryCall, DeliveryStage, Over
  <2>4. QueueInv /\ ActiveInv /\ ShutInv
    BY <2>1, <2>2 DEF DeliveryInit, QueueInv, ActiveInv, ShutInv, Serves
  <2>5. ASSUME NEW c \in Call PROVE CallInv(c)
    <3>1. KeyOf[c] \in Key /\ call[c].at = "new" /\ ~call[c].awaited
      BY DEF Key, DeliveryInit
    <3>2. QED
      BY <2>1, <3>1 DEF DeliveryInit, CallInv
  <2>6. QED
    BY <2>3, <2>4, <2>5 DEF DeliveryInv
<1>2. DeliveryInv /\ [DeliveryNext]_deliveryVars => DeliveryInv'
  <2> SUFFICES ASSUME DeliveryInv, [DeliveryNext]_deliveryVars PROVE DeliveryInv'
    OBVIOUS
  <2>1. ASSUME UNCHANGED deliveryVars PROVE DeliveryInv'
    <3>1. call' = call /\ delivery' = delivery /\ closing' = closing
      BY <2>1 DEF deliveryVars
    <3>2. /\ QueueInv' /\ ActiveInv' /\ ShutInv'
          /\ queue' = queue /\ batch' = batch /\ active' = active /\ worker' = worker
      BY <3>1, SameDelivery
    <3>3. DeliveryTypes' /\ \A c \in Call : CallInv(c)'
      BY <3>1, <3>2 DEF DeliveryInv, DeliveryTypes, CallInv
    <3>4. QED
      BY <3>2, <3>3 DEF DeliveryInv
  <2>2. QED
    BY <2>1, ComingKeepsDelivery, AwaitsKeepsDelivery, EnqueuesKeepsDelivery,
       GivesUpKeepsDelivery, TakesKeepsDelivery, ProceedsKeepsDelivery,
       OutcomeKeepsDelivery, OutboxKeepsDelivery, LimiterKeepsDelivery, EndsKeepsDelivery
       DEF DeliveryNext, Delivered
<1>3. QED
  BY <1>1, <1>2, PTL DEF DeliverySpec

(* Whoever waits for a delivery has an operation that will answer it, and  *)
(* nobody waits for a limiter that is closed (EveryWaiterIsServed).        *)
THEOREM WaitersServed == DeliverySpec => []EveryWaiterIsServed
<1>1. DeliveryInv => EveryWaiterIsServed
  <2> SUFFICES ASSUME DeliveryInv PROVE EveryWaiterIsServed
    OBVIOUS
  <2>1. ASSUME NEW c \in Call
        PROVE  /\ call[c].at = "waiting" <=>
                    \/ c \in active.waiters /\ KeyOf[active.func] = KeyOf[c]
                    \/ c \in batch[KeyOf[c]].waiters
               /\ closing = "closed" => call[c].at \in Over \cup {"new"}
    BY DEF DeliveryInv, CallInv, ActiveInv, Serves
  <2>2. QED
    BY <2>1 DEF DeliveryInv, QueueInv, EveryWaiterIsServed
<1>2. QED
  BY <1>1, DeliveryInvariant, PTL

-----------------------------------------------------------------------------
(* Delivery: what a message shows. *)

Asked(c) == \E i \in DOMAIN ticket : ticket[i] = c

\* Calls whose operation was in the queue at some time, or will never be.
Placed(c) == Asked(c) /\ call[c].at # "scheduled"

\* c may be shown after d.
Follows(c, d) == c # d /\ call[c].tries = 0 /\ ~call[d].awaited => Later(c, d)

\* The limiter is asked for a call once.
TicketInv ==
  /\ ticket \in Seq(Call) /\ \A i, j \in DOMAIN ticket : ticket[i] = ticket[j] => i = j
  /\ \A c \in Call : /\ call[c].at \in {"new", "detached"} => ~Asked(c)
                     /\ call[c].at \in {"scheduled", "waiting", "backoff"} => Asked(c)
                     /\ call[c].at = "backoff" => call[c].tries > 0

\* Tasks that were not run yet were asked for after the others.
ScheduledInv ==
  \A c, d \in Call : call[c].at = "scheduled" /\ Placed(d) => Follows(c, d)

\* An operation went into the queue before it goes elsewhere.
PlacedInv ==
  /\ shown \in [Key -> Call \cup {Nobody}]
  /\ worker \in {"held", "sending"} => active.func # Nobody
  /\ \A c \in Call : active.func = c => Placed(c)
  /\ \A k \in Key, c \in Call : c \in {batch[k].func, shown[k]} => Placed(c)

\* Of one message, what is in the queue follows what the worker has, and that
\* what is shown.
InTurn(k) ==
  \A c, d \in Call :
    /\ batch[k].func = c /\ active.func = d /\ KeyOf[d] = k => Follows(c, d)
    /\ batch[k].func = c /\ shown[k] = d => Follows(c, d)
    /\ active.func = c /\ KeyOf[c] = k /\ shown[k] = d => Follows(c, d)

OrderInv == TicketInv /\ ScheduledInv /\ PlacedInv /\ \A k \in Key : InTurn(k)

(* Where a call stands among those the limiter was asked for.              *)
LEMMA PositionOf ==
  ASSUME TicketInv, NEW i \in DOMAIN ticket
  PROVE  Position(ticket[i]) = i
<1>1. \A j \in DOMAIN ticket : ticket[j] = ticket[i] => j = i
  BY DEF TicketInv
<1>2. QED
  BY <1>1 DEF Position

(* Of two calls one is later.                                              *)
LEMMA LaterIsTotal ==
  ASSUME TicketInv, NEW c \in Call, NEW d \in Call, Asked(c), Asked(d), c # d
  PROVE  Later(c, d) \/ Later(d, c)
<1>1. PICK i \in DOMAIN ticket : ticket[i] = c
  BY DEF Asked
<1>2. PICK j \in DOMAIN ticket : ticket[j] = d
  BY DEF Asked
<1>3. Position(c) = i /\ Position(d) = j /\ i # j
  BY <1>1, <1>2, PositionOf
<1>4. i \in Nat /\ j \in Nat
  BY DEF TicketInv
<1>5. QED
  BY <1>3, <1>4 DEF Later

(* The limiter is asked for a call: it is later than those before it, whose *)
(* order stays.                                                            *)
LEMMA AppendsTicket ==
  ASSUME TicketInv, NEW c \in Call, ~Asked(c), ticket' = Append(ticket, c)
  PROVE  /\ ticket' \in Seq(Call)
         /\ \A i, j \in DOMAIN ticket' : ticket'[i] = ticket'[j] => i = j
         /\ \A d \in Call : Asked(d)' <=> Asked(d) \/ d = c
         /\ \A d \in Call : Asked(d) => Later(c, d)'
         /\ \A d, e \in Call : Asked(d) /\ Asked(e) /\ Later(d, e) => Later(d, e)'
<1> DEFINE n == Len(ticket)
<1>1. ticket \in Seq(Call) /\ n \in Nat /\ DOMAIN ticket = 1..n
  BY DEF TicketInv
<1>2. /\ ticket' \in Seq(Call) /\ DOMAIN ticket' = 1..n + 1 /\ ticket'[n + 1] = c
      /\ \A i \in 1..n : ticket'[i] = ticket[i]
  BY <1>1
<1> HIDE DEF n
<1>3. \A i \in 1..n : ticket[i] # c
  BY <1>1 DEF Asked
<1>4. \A i, j \in DOMAIN ticket' : ticket'[i] = ticket'[j] => i = j
  BY <1>1, <1>2, <1>3 DEF TicketInv
<1>5. \A d : Asked(d)' <=> Asked(d) \/ d = c
  <2>1. n + 1 \in DOMAIN ticket' /\ \A i \in 1..n + 1 : i \in 1..n \/ i = n + 1
    BY <1>1, <1>2
  <2>2. QED
    BY <1>1, <1>2, <2>1 DEF Asked
<1>6. ASSUME NEW d, NEW i \in DOMAIN ticket', ticket'[i] = d
      PROVE  Position(d)' = i
  <2>1. \A j \in DOMAIN ticket' : ticket'[j] = d => j = i
    BY <1>4, <1>6
  <2>2. (CHOOSE j \in DOMAIN ticket' : ticket'[j] = d) = i
    BY <1>6, <2>1
  <2>3. QED
    BY <2>2 DEF Position
<1>7. Position(c)' = n + 1
  <2>1. n + 1 \in DOMAIN ticket'
    BY <1>1, <1>2
  <2>2. QED
    BY <1>2, <1>6, <2>1
<1>8. ASSUME NEW d, Asked(d)
      PROVE  Position(d)' = Position(d) /\ Position(d) \in 1..n
  <2>1. PICK i \in 1..n : ticket[i] = d
    BY <1>1, <1>8 DEF Asked
  <2>2. Position(d) = i
    BY <1>1, <2>1, PositionOf
  <2>3. ticket'[i] = d /\ i \in DOMAIN ticket'
    BY <1>1, <1>2, <2>1
  <2>4. QED
    BY <1>6, <2>2, <2>3
<1>9. QED
  BY <1>1, <1>2, <1>4, <1>5, <1>7, <1>8 DEF Later

\* What a step that asks for nothing may do to a call: no task is created, and
\* the one that runs first is the first that was asked for.
Moves(c) ==
  /\ call'[c].awaited = call[c].awaited /\ call'[c].tries >= call[c].tries
  /\ call'[c].at = "scheduled" => call[c].at = "scheduled"
  /\ call'[c].at \in {"new", "detached"} => call[c].at \in {"new", "detached"}
  /\ call[c].at \in {"new", "detached"} \cup Over => call'[c].at \in {"new", "detached"} \cup Over
  /\ call'[c].at = "backoff" => call'[c].tries > 0
  /\ call[c].at = "scheduled" /\ call'[c].at # "scheduled" =>
       \A d \in Call : call'[d].at = "scheduled" => ~Later(c, d)

\* What is in the queue stays, and in the order it has.
StillPlaced ==
  /\ \A c \in Call : Placed(c) => Placed(c)'
  /\ \A c, d \in Call : Placed(c) /\ Placed(d) /\ Follows(c, d) => Follows(c, d)'

(* Calls that move and are not asked for again keep their order.           *)
LEMMA MovesKeepOrder ==
  ASSUME DeliveryTypes, DeliveryTypes', TicketInv, ScheduledInv, ticket' = ticket,
         \A c \in Call : Moves(c)
  PROVE  TicketInv' /\ ScheduledInv' /\ StillPlaced
<1>1. \A c \in Call : /\ call[c] \in DeliveryCall /\ call'[c] \in DeliveryCall
                      /\ call[c].tries \in Nat /\ call'[c].tries \in Nat
  BY DEF DeliveryTypes, DeliveryCall
<1>2. /\ \A c : Asked(c)' <=> Asked(c)
      /\ \A c, d : Later(c, d)' <=> Later(c, d)
  BY DEF Asked, Later, Position
<1>3. ASSUME NEW c \in Call, NEW d \in Call, Follows(c, d)
      PROVE  Follows(c, d)'
  BY <1>1, <1>2, <1>3 DEF Follows, Moves
<1>4. ASSUME NEW c \in Call
      PROVE  /\ call'[c].at \in {"new", "detached"} => ~Asked(c)
             /\ call'[c].at \in {"scheduled", "waiting", "backoff"} => Asked(c)
             /\ call'[c].at = "backoff" => call'[c].tries > 0
  <2>1. call[c].at \in {"new", "detached"} \/ Asked(c) \/ call[c].at \in Over
    BY <1>1 DEF TicketInv, DeliveryCall, DeliveryStage
  <2>2. QED
    BY <1>1, <2>1 DEF TicketInv, Moves, Over
<1>5. TicketInv'
  BY <1>2, <1>4 DEF TicketInv
<1>6. ASSUME NEW c \in Call, Placed(c)
      PROVE  Placed(c)'
  BY <1>2, <1>6 DEF Placed, Moves
<1>7. ASSUME NEW c \in Call, NEW d \in Call, call'[c].at = "scheduled", Placed(d)'
      PROVE  Follows(c, d)'
  <2>1. Asked(c) /\ Asked(d) /\ call[c].at = "scheduled" /\ call'[d].at # "scheduled"
    BY <1>2, <1>7 DEF Placed, Moves, TicketInv
  <2>2. CASE call[d].at = "scheduled"
    <3>1. ~Later(d, c) /\ c # d
      BY <1>7, <2>1, <2>2 DEF Moves
    <3>2. Later(c, d)'
      BY <1>2, <2>1, <3>1, LaterIsTotal
    <3>3. QED
      BY <3>2 DEF Follows
  <2>3. CASE call[d].at # "scheduled"
    <3>1. Follows(c, d)
      BY <2>1, <2>3 DEF ScheduledInv, Placed
    <3>2. QED
      BY <1>3, <3>1
  <2>4. QED
    BY <2>2, <2>3
<1>8. QED
  BY <1>3, <1>5, <1>6, <1>7 DEF ScheduledInv, StillPlaced

(* A step that leaves operations where they are, or drops some.            *)
LEMMA DropsKeepTurn ==
  ASSUME DeliveryTypes, DeliveryTypes', PlacedInv, \A k \in Key : InTurn(k), StillPlaced,
         shown' = shown, active'.func \in {active.func, Nobody},
         worker' \in {"held", "sending"} =>
           worker \in {"held", "sending"} /\ active'.func = active.func,
         \A k \in Key : batch'[k].func \in {batch[k].func, Nobody}
  PROVE  PlacedInv' /\ \A k \in Key : InTurn(k)'
<1>1. PlacedInv'
  <2>1. \A c \in Call : active'.func = c => Placed(c)'
    BY DeliveryAssumption DEF PlacedInv, StillPlaced
  <2>2. \A k \in Key, c \in Call : c \in {batch'[k].func, shown'[k]} => Placed(c)'
    BY DeliveryAssumption DEF PlacedInv, StillPlaced
  <2>3. QED
    BY <2>1, <2>2 DEF PlacedInv
<1>2. ASSUME NEW k \in Key PROVE InTurn(k)'
  <2>1. SUFFICES ASSUME NEW c \in Call, NEW d \in Call
                 PROVE  /\ batch'[k].func = c /\ active'.func = d /\ KeyOf[d] = k => Follows(c, d)'
                        /\ batch'[k].func = c /\ shown'[k] = d => Follows(c, d)'
                        /\ active'.func = c /\ KeyOf[c] = k /\ shown'[k] = d => Follows(c, d)'
    BY DEF InTurn
  <2>2. /\ batch'[k].func = c => batch[k].func = c /\ Placed(c)
        /\ active'.func = c => active.func = c /\ Placed(c)
        /\ active'.func = d => active.func = d /\ Placed(d)
        /\ shown'[k] = d => shown[k] = d /\ Placed(d)
    BY DeliveryAssumption DEF PlacedInv
  <2>3. QED
    BY <2>2 DEF InTurn, StillPlaced
<1>3. QED
  BY <1>1, <1>2

(* A step that asks for nothing and puts nothing into the queue.           *)
LEMMA QuietKeepsOrder ==
  ASSUME DeliveryInv, DeliveryInv', OrderInv, ticket' = ticket, \A c \in Call : Moves(c),
         shown' = shown, active'.func \in {active.func, Nobody},
         worker' \in {"held", "sending"} =>
           worker \in {"held", "sending"} /\ active'.func = active.func,
         \A k \in Key : batch'[k].func \in {batch[k].func, Nobody}
  PROVE  OrderInv'
<1>1. DeliveryTypes /\ DeliveryTypes' /\ TicketInv /\ ScheduledInv /\ PlacedInv
      /\ \A k \in Key : InTurn(k)
  BY DEF DeliveryInv, OrderInv
<1>2. TicketInv' /\ ScheduledInv' /\ StillPlaced
  BY <1>1, MovesKeepOrder
<1>3. PlacedInv' /\ \A k \in Key : InTurn(k)'
  BY <1>1, <1>2, DropsKeepTurn
<1>4. QED
  BY <1>2, <1>3 DEF OrderInv

(* Some calls reach another stage.                                         *)
LEMMA ReachesMoves ==
  ASSUME DeliveryTypes, TicketInv, NEW C, NEW stage \in {"detached", "waiting"} \cup Over,
         call' = Reaches(C, stage),
         \A c \in Call : c \in C =>
           /\ stage = "detached" => call[c].at = "new"
           /\ stage = "waiting" => call[c].at \in {"scheduled", "backoff"}
           /\ call[c].at = "scheduled" =>
                \A d \in Call : d \notin C /\ call[d].at = "scheduled" => ~Later(c, d)
           /\ call[c].at \in Over => stage \in Over
  PROVE  \A c \in Call : Moves(c)
<1>1. \A c \in Call : call[c] \in DeliveryCall
  BY DEF DeliveryTypes
<1>2. ASSUME NEW c \in Call
      PROVE  /\ call'[c].at = IF c \in C THEN stage ELSE call[c].at
             /\ call'[c].awaited = call[c].awaited /\ call'[c].tries = call[c].tries
             /\ call[c].tries \in Nat
  <2>1. call'[c] = IF c \in C THEN [call[c] EXCEPT !.at = stage] ELSE call[c]
    BY DEF Reaches
  <2>2. QED
    BY <1>1, <2>1 DEF DeliveryCall
<1>3. ASSUME NEW c \in Call PROVE Moves(c)
  <2>1. /\ call'[c].awaited = call[c].awaited /\ call'[c].tries >= call[c].tries
        /\ call'[c].at = "scheduled" => call[c].at = "scheduled"
        /\ call'[c].at = "backoff" => call'[c].tries > 0
    BY <1>2 DEF TicketInv, Over
  <2>2. /\ call'[c].at \in {"new", "detached"} => call[c].at \in {"new", "detached"}
        /\ call[c].at \in {"new", "detached"} \cup Over => call'[c].at \in {"new", "detached"} \cup Over
    BY <1>2 DEF Over
  <2>3. call[c].at = "scheduled" /\ call'[c].at # "scheduled" =>
          \A d \in Call : call'[d].at = "scheduled" => ~Later(c, d)
    BY <1>2 DEF Over
  <2>4. QED
    BY <2>1, <2>2, <2>3 DEF Moves
<1>4. QED
  BY <1>3

(* A call that leaves, or is made a task that is not run yet.              *)
LEMMA LeavingKeepsOrder ==
  ASSUME DeliveryInv, DeliveryInv', OrderInv, NEW c \in Call,
         Detaches(c) \/ Refuses(c) \/ CallerGivesUp(c)
  PROVE  OrderInv'
<1>1. DeliveryTypes /\ TicketInv
  BY DEF DeliveryInv, OrderInv
<1>2. PICK stage \in {"detached"} \cup Over :
        /\ call' = Reaches({c}, stage)
        /\ stage = "detached" => call[c].at = "new"
        /\ call[c].at \in {"new", "detached", "waiting"}
  BY DEF Detaches, Refuses, CallerGivesUp, Over
<1>3. \A d \in Call : Moves(d)
  BY <1>1, <1>2, ReachesMoves DEF Over
<1>4. ticket' = ticket /\ shown' = shown /\ worker' = worker
  BY DEF Detaches, Refuses, CallerGivesUp, delivery
<1>5. active'.func = active.func /\ \A k \in Key : batch'[k].func = batch[k].func
  <2>1. CASE CallerGivesUp(c)
    <3>1. active \in Operation /\ \A k \in Key : batch[k] \in Operation
      BY <1>1 DEF DeliveryTypes
    <3>2. QED
      BY <2>1, <3>1 DEF CallerGivesUp, Operation
  <2>2. CASE Detaches(c) \/ Refuses(c)
    BY <2>2 DEF Detaches, Refuses, delivery
  <2>3. QED
    BY <2>1, <2>2
<1>6. QED
  BY <1>3, <1>4, <1>5, QuietKeepsOrder

(* Shutting down only drops operations; tasks that wait are all cancelled. *)
LEMMA ClosingKeepsOrder ==
  ASSUME DeliveryInv, DeliveryInv', OrderInv,
         OperationCancelled \/ OutboxCloses \/ LimiterCloses \/ WorkerEnds \/ BackgroundEnds
  PROVE  OrderInv'
<1>1. DeliveryTypes /\ TicketInv /\ \A c \in Call : CallInv(c)
  BY DEF DeliveryInv, OrderInv
<1>2. ticket' = ticket /\ shown' = shown
  BY DEF OperationCancelled, Answers, OutboxCloses, LimiterCloses, WorkerEnds, BackgroundEnds
<1>3. Empty.func = Nobody
  BY DEF Empty
<1>4. CASE OutboxCloses
  <2> DEFINE C == {c \in Call : call[c].at = "detached"}
  <2>1. call' = Reaches(C, "cancelled") /\ delivery' = delivery
    BY <1>4 DEF OutboxCloses
  <2>2. \A c \in Call : c \in C => call[c].at = "detached"
    OBVIOUS
  <2> HIDE DEF C
  <2>3. \A c \in Call : Moves(c)
    BY <1>1, <2>1, <2>2, ReachesMoves DEF Over
  <2>4. QED
    BY <1>2, <2>1, <2>3, QuietKeepsOrder DEF delivery
<1>5. CASE LimiterCloses
  <2> DEFINE C == active.waiters \cup UNION {batch[k].waiters : k \in Key}
  <2>1. /\ call' = Reaches(C, "cancelled") /\ worker' = worker
        /\ batch' = [k \in Key |-> Empty] /\ active' = [active EXCEPT !.waiters = {}]
    BY <1>5 DEF LimiterCloses
  <2>2. ASSUME NEW c \in Call, c \in C
        PROVE  call[c].at = "waiting"
    <3>1. CASE c \in active.waiters
      BY <1>1, <3>1 DEF CallInv
    <3>2. CASE c \notin active.waiters
      <4>1. PICK k \in Key : c \in batch[k].waiters
        BY <2>2, <3>2
      <4>2. KeyOf[c] = k
        BY <4>1 DEF DeliveryInv, QueueInv, Serves
      <4>3. QED
        BY <1>1, <4>1, <4>2 DEF CallInv
    <3>3. QED
      BY <3>1, <3>2
  <2> HIDE DEF C
  <2>3. \A c \in Call : Moves(c)
    BY <1>1, <2>1, <2>2, ReachesMoves DEF Over
  <2>4. active'.func = active.func
    BY <1>1, <2>1 DEF DeliveryTypes, Operation
  <2>5. \A k \in Key : batch'[k].func = Nobody
    BY <1>3, <2>1
  <2>6. QED
    BY <1>2, <2>1, <2>3, <2>4, <2>5, QuietKeepsOrder
<1>6. CASE OperationCancelled \/ WorkerEnds
  <2>1. /\ call' = Reaches(active.waiters, "cancelled") /\ worker' \in {"idle", "over"}
        /\ active' = Empty /\ batch' = batch
    BY <1>6 DEF OperationCancelled, Answers, WorkerEnds
  <2>2. \A c \in Call : c \in active.waiters => call[c].at = "waiting"
    BY <1>1 DEF CallInv
  <2>3. \A c \in Call : Moves(c)
    BY <1>1, <2>1, <2>2, ReachesMoves DEF Over
  <2>4. QED
    BY <1>2, <1>3, <2>1, <2>3, QuietKeepsOrder
<1>7. CASE BackgroundEnds
  <2> DEFINE C == {c \in Call : ~call[c].awaited /\ call[c].at \in {"scheduled", "waiting", "backoff"}}
  <2>1. call' = Reaches(C, "cancelled") /\ delivery' = delivery
    BY <1>7 DEF BackgroundEnds
  <2>2. \A c \in Call : call[c].at = "scheduled" => c \in C
    BY <1>1 DEF CallInv, Over
  <2> HIDE DEF C
  <2>3. \A c \in Call : Moves(c)
    BY <1>1, <2>1, <2>2, ReachesMoves DEF Over
  <2>4. QED
    BY <1>2, <2>1, <2>3, QuietKeepsOrder DEF delivery
<1>8. QED
  BY <1>4, <1>5, <1>6, <1>7

(* The limiter is asked for a call: by a task that is still to run, or by a *)
(* caller who waits.                                                       *)
LEMMA AskingKeepsOrder ==
  ASSUME DeliveryTypes, TicketInv, ScheduledInv, NEW c \in Call, ~Asked(c),
         ticket' = Append(ticket, c), \A d \in Call : d # c => call'[d] = call[d],
         call'[c].at \in {"scheduled", "waiting"},
         call'[c].at = "waiting" => call'[c].awaited
  PROVE  /\ TicketInv' /\ ScheduledInv' /\ StillPlaced /\ Asked(c)'
         /\ \A d \in Call : Placed(d) => Follows(c, d)'
<1>1. /\ ticket' \in Seq(Call)
      /\ \A i, j \in DOMAIN ticket' : ticket'[i] = ticket'[j] => i = j
      /\ \A d \in Call : Asked(d)' <=> Asked(d) \/ d = c
      /\ \A d \in Call : Asked(d) => Later(c, d)'
      /\ \A d, e \in Call : Asked(d) /\ Asked(e) /\ Later(d, e) => Later(d, e)'
  BY AppendsTicket
<1>2. TicketInv'
  <2>1. ASSUME NEW d \in Call
        PROVE  /\ call'[d].at \in {"new", "detached"} => ~Asked(d)'
               /\ call'[d].at \in {"scheduled", "waiting", "backoff"} => Asked(d)'
               /\ call'[d].at = "backoff" => call'[d].tries > 0
    BY <1>1 DEF TicketInv
  <2>2. QED
    BY <1>1, <2>1 DEF TicketInv
<1>3. ASSUME NEW d \in Call, NEW e \in Call, d # c, e # c, Asked(d), Asked(e), Follows(d, e)
      PROVE  Follows(d, e)'
  BY <1>1, <1>3 DEF Follows
<1>4. ASSUME NEW d \in Call, Placed(d)
      PROVE  d # c /\ Placed(d)' /\ Follows(c, d)'
  BY <1>1, <1>4 DEF Placed, Follows
<1>5. StillPlaced
  BY <1>3, <1>4 DEF StillPlaced, Placed
<1>6. ASSUME NEW d \in Call, NEW e \in Call, call'[d].at = "scheduled", Placed(e)'
      PROVE  Follows(d, e)'
  <2>1. CASE d = c
    <3>1. e # c /\ Asked(e)
      BY <1>1, <1>6, <2>1 DEF Placed
    <3>2. QED
      BY <1>1, <2>1, <3>1 DEF Follows
  <2>2. CASE d # c /\ e = c
    BY <1>6, <2>2 DEF Placed, Follows
  <2>3. CASE d # c /\ e # c
    <3>1. call[d].at = "scheduled" /\ Placed(e) /\ Asked(d) /\ Asked(e)
      BY <1>1, <1>6, <2>3 DEF Placed, TicketInv
    <3>2. QED
      BY <1>3, <2>3, <3>1 DEF ScheduledInv
  <2>4. QED
    BY <2>1, <2>2, <2>3
<1>7. QED
  BY <1>1, <1>2, <1>4, <1>5, <1>6 DEF ScheduledInv

(* An operation goes into the queue: behind whatever went there before it. *)
LEMMA PutsKeepTurn ==
  ASSUME DeliveryTypes, PlacedInv, \A k \in Key : InTurn(k), StillPlaced,
         NEW c \in Call, Puts(c), Placed(c)', \A d \in Call : Placed(d) => Follows(c, d)',
         active' = active, worker' = worker, shown' = shown
  PROVE  PlacedInv' /\ \A k \in Key : InTurn(k)'
<1>1. KeyOf[c] \in Key
  BY DEF Key
<1>2. batch'[KeyOf[c]].func = c /\ \A k \in Key : k # KeyOf[c] => batch'[k] = batch[k]
  BY <1>1 DEF Puts, DeliveryTypes
<1>3. PlacedInv'
  <2>1. \A d \in Call : active'.func = d => Placed(d)'
    BY DEF PlacedInv, StillPlaced
  <2>2. ASSUME NEW k \in Key, NEW d \in Call, d \in {batch'[k].func, shown'[k]}
        PROVE  Placed(d)'
    <3>1. d = c \/ d \in {batch[k].func, shown[k]}
      BY <1>2, <2>2
    <3>2. QED
      BY <3>1 DEF PlacedInv, StillPlaced
  <2>3. QED
    BY <2>1, <2>2 DEF PlacedInv
<1>4. ASSUME NEW k \in Key PROVE InTurn(k)'
  <2>1. SUFFICES ASSUME NEW d \in Call, NEW e \in Call
                 PROVE  /\ batch'[k].func = d /\ active'.func = e /\ KeyOf[e] = k => Follows(d, e)'
                        /\ batch'[k].func = d /\ shown'[k] = e => Follows(d, e)'
                        /\ active'.func = d /\ KeyOf[d] = k /\ shown'[k] = e => Follows(d, e)'
    BY DEF InTurn
  <2>2. /\ active.func = d => Placed(d)
        /\ active.func = e => Placed(e)
        /\ shown[k] = e => Placed(e)
        /\ batch[k].func = d => Placed(d)
    BY DEF PlacedInv
  <2>3. active'.func = d /\ KeyOf[d] = k /\ shown'[k] = e => Follows(d, e)'
    BY <2>2 DEF InTurn, StillPlaced
  <2>4. CASE k = KeyOf[c]
    BY <1>2, <2>2, <2>3, <2>4
  <2>5. CASE k # KeyOf[c]
    BY <1>2, <2>2, <2>3, <2>5 DEF InTurn, StillPlaced
  <2>6. QED
    BY <2>4, <2>5
<1>5. QED
  BY <1>3, <1>4

(* The limiter is asked for an edit that is not awaited.                   *)
LEMMA SchedulesKeepsOrder ==
  ASSUME DeliveryInv, DeliveryInv', OrderInv, NEW c \in Call, Schedules(c)
  PROVE  OrderInv'
<1>1. DeliveryTypes /\ DeliveryTypes' /\ TicketInv /\ ScheduledInv /\ PlacedInv
      /\ \A k \in Key : InTurn(k)
  BY DEF DeliveryInv, OrderInv
<1>2. /\ call[c].at \in {"new", "detached"} /\ call' = Reaches({c}, "scheduled")
      /\ ticket' = Append(ticket, c) /\ delivery' = delivery /\ shown' = shown
  BY DEF Schedules
<1>3. /\ \A d \in Call : d # c => call'[d] = call[d]
      /\ call'[c].at = "scheduled"
  BY <1>1, <1>2 DEF Reaches, DeliveryTypes, DeliveryCall
<1>4. TicketInv' /\ ScheduledInv' /\ StillPlaced
  BY <1>1, <1>2, <1>3, AskingKeepsOrder DEF TicketInv
<1>5. PlacedInv' /\ \A k \in Key : InTurn(k)'
  BY <1>1, <1>2, <1>4, DropsKeepTurn DEF delivery
<1>6. QED
  BY <1>4, <1>5 DEF OrderInv

(* A caller who waits puts the operation into the queue at once.           *)
LEMMA AwaitsKeepsOrder ==
  ASSUME DeliveryInv, DeliveryInv', OrderInv, NEW c \in Call, Awaits(c)
  PROVE  OrderInv'
<1>1. DeliveryTypes /\ DeliveryTypes' /\ TicketInv /\ ScheduledInv /\ PlacedInv
      /\ \A k \in Key : InTurn(k)
  BY DEF DeliveryInv, OrderInv
<1>2. /\ call[c].at = "new"
      /\ call' = [call EXCEPT ![c] = [at |-> "waiting", awaited |-> TRUE, tries |-> 0]]
      /\ ticket' = Append(ticket, c) /\ Puts(c)
      /\ active' = active /\ worker' = worker /\ shown' = shown
  BY DEF Awaits
<1>3. /\ \A d \in Call : d # c => call'[d] = call[d]
      /\ call'[c].at = "waiting" /\ call'[c].awaited
  BY <1>1, <1>2 DEF DeliveryTypes
<1>4. /\ TicketInv' /\ ScheduledInv' /\ StillPlaced /\ Asked(c)'
      /\ \A d \in Call : Placed(d) => Follows(c, d)'
  BY <1>1, <1>2, <1>3, AskingKeepsOrder DEF TicketInv
<1>5. Placed(c)'
  BY <1>3, <1>4 DEF Placed
<1>6. PlacedInv' /\ \A k \in Key : InTurn(k)'
  BY <1>1, <1>2, <1>4, <1>5, PutsKeepTurn
<1>7. QED
  BY <1>4, <1>6 DEF OrderInv

(* A task runs, at first in the order of the tickets, or again.            *)
LEMMA EnqueuesKeepsOrder ==
  ASSUME DeliveryInv, DeliveryInv', OrderInv, NEW c \in Call, Enqueues(c)
  PROVE  OrderInv'
<1>1. DeliveryTypes /\ DeliveryTypes' /\ TicketInv /\ ScheduledInv /\ PlacedInv
      /\ \A k \in Key : InTurn(k)
  BY DEF DeliveryInv, OrderInv
<1>2. /\ call[c].at \in {"scheduled", "backoff"}
      /\ call[c].at = "scheduled" =>
           \A d \in Call : call[d].at = "scheduled" => ~Later(c, d)
      /\ ticket' = ticket /\ active' = active /\ worker' = worker /\ shown' = shown
  BY DEF Enqueues
<1>3. CASE ~Accepting
  <2>1. call' = Reaches({c}, "failed") /\ batch' = batch
    BY <1>3 DEF Enqueues
  <2>2. \A d \in Call : Moves(d)
    BY <1>1, <1>2, <2>1, ReachesMoves DEF Over
  <2>3. QED
    BY <1>2, <2>1, <2>2, QuietKeepsOrder
<1>4. CASE Accepting
  <2>1. call' = Reaches({c}, "waiting") /\ Puts(c)
    BY <1>4 DEF Enqueues
  <2>2. \A d \in Call : Moves(d)
    BY <1>1, <1>2, <2>1, ReachesMoves DEF Over
  <2>3. TicketInv' /\ ScheduledInv' /\ StillPlaced
    BY <1>1, <1>2, <2>2, MovesKeepOrder
  <2>4. call'[c].at = "waiting" /\ call'[c].tries = call[c].tries
    BY <1>1, <2>1 DEF Reaches, DeliveryTypes, DeliveryCall
  <2>5. Placed(c)'
    BY <2>3, <2>4 DEF TicketInv, Placed
  <2>6. ASSUME NEW d \in Call, Placed(d)
        PROVE  Follows(c, d)'
    <3>1. CASE call[c].at = "scheduled"
      <4>1. Follows(c, d)
        BY <1>1, <2>6, <3>1 DEF ScheduledInv
      <4>2. call'[d].awaited = call[d].awaited
        BY <2>2 DEF Moves
      <4>3. QED
        BY <1>2, <2>4, <4>1, <4>2 DEF Follows, Later, Position
    <3>2. CASE call[c].at = "backoff"
      <4>1. call'[c].tries # 0
        BY <1>1, <2>4, <3>2 DEF TicketInv
      <4>2. QED
        BY <4>1 DEF Follows
    <3>3. QED
      BY <1>2, <3>1, <3>2
  <2>7. PlacedInv' /\ \A k \in Key : InTurn(k)'
    BY <1>1, <1>2, <2>1, <2>3, <2>5, <2>6, PutsKeepTurn
  <2>8. QED
    BY <2>3, <2>7 DEF OrderInv
<1>5. QED
  BY <1>3, <1>4

(* The worker takes an operation; its place in the order stays.            *)
LEMMA TakesKeepsOrder ==
  ASSUME DeliveryInv, DeliveryInv', OrderInv, WorkerTakes
  PROVE  OrderInv'
<1> DEFINE h == Head(queue)
<1>1. /\ DeliveryTypes /\ QueueInv /\ TicketInv /\ ScheduledInv /\ PlacedInv
      /\ \A k \in Key : InTurn(k)
  BY DEF DeliveryInv, OrderInv
<1>2. /\ active' = batch[h] /\ batch' = [batch EXCEPT ![h] = Empty] /\ queue # <<>>
      /\ call' = call /\ ticket' = ticket /\ shown' = shown
  BY DEF WorkerTakes
<1>3. h \in Key /\ 1 \in DOMAIN queue /\ queue[1] = h
  BY <1>1, <1>2 DEF DeliveryTypes
<1>4. batch[h].func \in Call /\ KeyOf[batch[h].func] = h
  <2>1. batch[h].func # Nobody /\ Serves(batch[h], h)
    BY <1>1, <1>3 DEF QueueInv
  <2>2. QED
    BY <1>1, <1>3, <2>1 DEF DeliveryTypes, Operation, Serves
<1> HIDE DEF h
<1>5. /\ batch'[h].func = Nobody
      /\ \A k \in Key : k # h => batch'[k] = batch[k]
  BY <1>1, <1>2, <1>3 DEF DeliveryTypes, Empty
<1>6. /\ \A c : Placed(c)' <=> Placed(c)
      /\ \A c, d : Follows(c, d)' <=> Follows(c, d)
  BY <1>2 DEF Placed, Asked, Follows, Later, Position
<1>7. TicketInv' /\ ScheduledInv'
  BY <1>1, <1>2, <1>6 DEF TicketInv, ScheduledInv, Asked
<1>8. PlacedInv'
  <2>1. \A c \in Call : active'.func = c => Placed(c)
    BY <1>1, <1>2, <1>3 DEF PlacedInv
  <2>2. \A k \in Key, c \in Call : c \in {batch'[k].func, shown'[k]} => Placed(c)
    BY <1>1, <1>2, <1>5, DeliveryAssumption DEF PlacedInv
  <2>3. active'.func # Nobody
    BY <1>2, <1>4, DeliveryAssumption
  <2>4. QED
    BY <1>1, <1>2, <1>6, <2>1, <2>2, <2>3 DEF PlacedInv
<1>9. ASSUME NEW k \in Key PROVE InTurn(k)'
  <2>1. SUFFICES ASSUME NEW c \in Call, NEW d \in Call
                 PROVE  /\ batch'[k].func = c /\ active'.func = d /\ KeyOf[d] = k => Follows(c, d)
                        /\ batch'[k].func = c /\ shown'[k] = d => Follows(c, d)
                        /\ active'.func = c /\ KeyOf[c] = k /\ shown'[k] = d => Follows(c, d)
    BY <1>6 DEF InTurn
  <2>2. CASE k = h
    BY <1>1, <1>2, <1>5, <2>2, DeliveryAssumption DEF InTurn
  <2>3. CASE k # h
    BY <1>1, <1>2, <1>4, <1>5, <2>3 DEF InTurn
  <2>4. QED
    BY <2>2, <2>3
<1>10. QED
  BY <1>7, <1>8, <1>9 DEF OrderInv

(* An operation that raised is gone; who tries again is no longer bound.   *)
LEMMA RaisesKeepsOrder ==
  ASSUME DeliveryInv, DeliveryInv', OrderInv, NEW transient \in BOOLEAN, Raises(transient)
  PROVE  OrderInv'
<1>1. DeliveryTypes /\ TicketInv /\ \A c \in Call : CallInv(c)
  BY DEF DeliveryInv, OrderInv
<1>2. /\ active' = Empty /\ worker' = "idle" /\ batch' = batch /\ ticket' = ticket /\ shown' = shown
      /\ call' = [c \in Call |->
                    IF c \notin active.waiters THEN call[c]
                    ELSE IF transient /\ ~call[c].awaited /\ call[c].tries < MaxRetries
                    THEN [call[c] EXCEPT !.at = "backoff", !.tries = @ + 1]
                    ELSE [call[c] EXCEPT !.at = "failed"]]
  BY DEF Raises, Answers
<1>3. ASSUME NEW c \in Call PROVE Moves(c)
  <2>1. call[c] \in DeliveryCall /\ call[c].tries \in Nat
    BY <1>1 DEF DeliveryTypes, DeliveryCall
  <2>2. call'[c] = IF c \notin active.waiters THEN call[c]
                   ELSE IF transient /\ ~call[c].awaited /\ call[c].tries < MaxRetries
                   THEN [call[c] EXCEPT !.at = "backoff", !.tries = call[c].tries + 1]
                   ELSE [call[c] EXCEPT !.at = "failed"]
    BY <1>2
  <2>3. CASE call'[c] = call[c]
    BY <1>1, <2>1, <2>3 DEF Moves, TicketInv, Over
  <2>4. CASE /\ c \in active.waiters
             /\ call'[c] = [call[c] EXCEPT !.at = "backoff", !.tries = call[c].tries + 1]
    <3>1. /\ call'[c].at = "backoff" /\ call'[c].tries = call[c].tries + 1
          /\ call'[c].awaited = call[c].awaited
      BY <2>1, <2>4 DEF DeliveryCall
    <3>2. call[c].at = "waiting"
      BY <1>1, <2>4 DEF CallInv
    <3>3. QED
      BY <2>1, <3>1, <3>2 DEF Moves, Over
  <2>5. CASE c \in active.waiters /\ call'[c] = [call[c] EXCEPT !.at = "failed"]
    <3>1. /\ call'[c].at = "failed" /\ call'[c].tries = call[c].tries
          /\ call'[c].awaited = call[c].awaited
      BY <2>1, <2>5 DEF DeliveryCall
    <3>2. call[c].at = "waiting"
      BY <1>1, <2>5 DEF CallInv
    <3>3. QED
      BY <2>1, <3>1, <3>2 DEF Moves, Over
  <2>6. QED
    BY <2>2, <2>3, <2>4, <2>5
<1>4. QED
  BY <1>2, <1>3, QuietKeepsOrder DEF Empty

(* What the worker had is shown, and what is queued follows it.            *)
LEMMA SucceedsKeepsOrder ==
  ASSUME DeliveryInv, DeliveryInv', OrderInv, Succeeds
  PROVE  OrderInv'
<1> DEFINE f == active.func
           j == KeyOf[f]
<1>1. /\ DeliveryTypes /\ DeliveryTypes' /\ TicketInv /\ ScheduledInv /\ PlacedInv
      /\ (\A k \in Key : InTurn(k)) /\ \A c \in Call : CallInv(c)
  BY DEF DeliveryInv, OrderInv
<1>2. /\ worker = "sending" /\ worker' = "idle" /\ active' = Empty /\ batch' = batch
      /\ ticket' = ticket /\ call' = Reaches(active.waiters, "done")
      /\ shown' = [shown EXCEPT ![j] = f]
  BY DEF Succeeds, Answers
<1>3. f \in Call /\ j \in Key /\ Placed(f)
  BY <1>1, <1>2 DEF PlacedInv, DeliveryTypes, Operation, Key
<1>4. \A c \in Call : c \in active.waiters => call[c].at = "waiting"
  BY <1>1 DEF CallInv
<1>5. \A c \in Call : Moves(c)
  BY <1>1, <1>2, <1>4, ReachesMoves DEF Over
<1>6. TicketInv' /\ ScheduledInv' /\ StillPlaced
  BY <1>1, <1>2, <1>5, MovesKeepOrder
<1>7. /\ shown' \in [Key -> Call \cup {Nobody}]
      /\ shown'[j] = f /\ \A k \in Key : k # j => shown'[k] = shown[k]
  BY <1>1, <1>2, <1>3 DEF PlacedInv
<1>8. active'.func = Nobody
  BY <1>2 DEF Empty
<1>9. f = active.func /\ j = KeyOf[f]
  OBVIOUS
<1> HIDE DEF f, j
<1>10. PlacedInv'
  <2>1. \A k \in Key, c \in Call : c \in {batch'[k].func, shown'[k]} => Placed(c)'
    BY <1>1, <1>2, <1>3, <1>6, <1>7 DEF PlacedInv, StillPlaced
  <2>2. QED
    BY <1>2, <1>7, <1>8, <2>1, DeliveryAssumption DEF PlacedInv
<1>11. ASSUME NEW k \in Key PROVE InTurn(k)'
  <2>1. SUFFICES ASSUME NEW c \in Call, NEW d \in Call, batch[k].func = c, shown'[k] = d
                 PROVE  Follows(c, d)'
    BY <1>2, <1>8, DeliveryAssumption DEF InTurn
  <2>2. Placed(c)
    BY <1>1, <2>1 DEF PlacedInv
  <2>3. CASE k = j
    BY <1>1, <1>3, <1>6, <1>7, <1>9, <2>1, <2>2, <2>3 DEF InTurn, StillPlaced
  <2>4. CASE k # j
    BY <1>1, <1>6, <1>7, <2>1, <2>2, <2>4 DEF InTurn, PlacedInv, StillPlaced
  <2>5. QED
    BY <2>3, <2>4
<1>12. QED
  BY <1>6, <1>10, <1>11 DEF OrderInv

(* No edit is shown after a newer one of its message, but for retries and  *)
(* edits that went to the queue ahead of those before them (EditsGoForward). *)
THEOREM EditsShownInOrder == DeliverySpec => EditsGoForward
<1>1. DeliveryInit => OrderInv
  <2>1. SUFFICES ASSUME DeliveryInit PROVE OrderInv
    OBVIOUS
  <2>2. /\ ticket = <<>> /\ <<>> \in Seq(Call) /\ DOMAIN <<>> = {}
        /\ \A c \in Call : call[c].at = "new"
        /\ worker = "idle" /\ active.func = Nobody
        /\ \A k \in Key : batch[k].func = Nobody /\ shown[k] = Nobody
        /\ shown \in [Key -> Call \cup {Nobody}]
    BY <2>1 DEF DeliveryInit, Empty
  <2>3. TicketInv /\ ScheduledInv
    BY <2>2 DEF TicketInv, ScheduledInv, Asked
  <2>4. PlacedInv /\ \A k \in Key : InTurn(k)
    BY <2>2, DeliveryAssumption DEF PlacedInv, InTurn
  <2>5. QED
    BY <2>3, <2>4 DEF OrderInv
<1>2. DeliveryInv /\ DeliveryInv' /\ OrderInv /\ [DeliveryNext]_deliveryVars => OrderInv'
  <2>1. SUFFICES ASSUME DeliveryInv, DeliveryInv', OrderInv, [DeliveryNext]_deliveryVars
                 PROVE  OrderInv'
    OBVIOUS
  <2>2. CASE WorkerProceeds \/ Delivered \/ UNCHANGED deliveryVars
    <3>1. /\ call' = call /\ ticket' = ticket /\ active' = active /\ batch' = batch
          /\ shown' = shown
          /\ worker' \in {"held", "sending"} => worker \in {"held", "sending"}
      BY <2>2 DEF WorkerProceeds, Delivered, deliveryVars, delivery
    <3>2. ASSUME NEW c \in Call PROVE Moves(c)
      <4>1. call[c].tries \in Nat
        BY <2>1 DEF DeliveryInv, DeliveryTypes, DeliveryCall
      <4>2. QED
        BY <2>1, <3>1, <4>1 DEF OrderInv, TicketInv, Moves
    <3>3. QED
      BY <2>1, <3>1, <3>2, QuietKeepsOrder
  <2>3. ASSUME NEW c \in Call,
               \/ Detaches(c) \/ Schedules(c) \/ Awaits(c) \/ Refuses(c)
               \/ Enqueues(c) \/ CallerGivesUp(c)
        PROVE  OrderInv'
    BY <2>1, <2>3, LeavingKeepsOrder, SchedulesKeepsOrder, AwaitsKeepsOrder, EnqueuesKeepsOrder
  <2>4. CASE \E transient \in BOOLEAN : Raises(transient)
    BY <2>1, <2>4, RaisesKeepsOrder
  <2>5. CASE \/ WorkerTakes \/ Succeeds \/ OperationCancelled
             \/ OutboxCloses \/ LimiterCloses \/ WorkerEnds \/ BackgroundEnds
    BY <2>1, <2>5, TakesKeepsOrder, SucceedsKeepsOrder, ClosingKeepsOrder
  <2>6. QED
    BY <2>1, <2>2, <2>3, <2>4, <2>5 DEF DeliveryNext
<1> DEFINE Forward ==
      \A k \in Key :
        shown[k] # Nobody /\ shown'[k] # shown[k] /\ ~Later(shown'[k], shown[k])
          => call[shown'[k]].tries > 0 \/ call[shown[k]].awaited
<1>3. DeliveryInv /\ OrderInv /\ [DeliveryNext]_deliveryVars => [Forward]_deliveryVars
  <2>1. SUFFICES ASSUME DeliveryInv, OrderInv, DeliveryNext, NEW k \in Key,
                        shown[k] # Nobody, shown'[k] # shown[k],
                        ~Later(shown'[k], shown[k])
                 PROVE  call[shown'[k]].tries > 0 \/ call[shown[k]].awaited
    OBVIOUS
  <2>2. Succeeds
    BY <2>1 DEF DeliveryNext, Detaches, Schedules, Awaits, Refuses, Enqueues, CallerGivesUp,
       WorkerTakes, WorkerProceeds, Raises, OperationCancelled, Answers, OutboxCloses,
       LimiterCloses, WorkerEnds, BackgroundEnds, Delivered, deliveryVars
  <2>3. PlacedInv /\ InTurn(k) /\ DeliveryTypes
    BY <2>1 DEF OrderInv, DeliveryInv
  <2>4. /\ worker = "sending" /\ shown' = [shown EXCEPT ![KeyOf[active.func]] = active.func]
    BY <2>2 DEF Succeeds, Answers
  <2>5. shown'[k] = active.func /\ KeyOf[active.func] = k
    BY <2>1, <2>3, <2>4 DEF PlacedInv
  <2>6. active.func \in Call /\ shown[k] \in Call /\ call[active.func].tries \in Nat
    BY <2>1, <2>3, <2>4 DEF PlacedInv, DeliveryTypes, Operation, DeliveryCall
  <2>7. Follows(active.func, shown[k])
    BY <2>3, <2>5, <2>6 DEF InTurn
  <2>8. QED
    BY <2>1, <2>5, <2>6, <2>7 DEF Follows
<1>4. DeliverySpec => []DeliveryInv
  BY DeliveryInvariant
<1>5. DeliverySpec => [][Forward]_deliveryVars
  BY <1>1, <1>2, <1>3, <1>4, PTL DEF DeliverySpec
<1>6. QED
  BY <1>5 DEF EditsGoForward

-----------------------------------------------------------------------------
(* The pool of managed sessions. *)

PoolStage == {"opening", "ready", "launching", "streaming", "recording", "killing",
              "draining", "leaving", "removing", "left", "cut"}
PoolTurn ==
  [at : PoolStage, session : Turn \cup {NoTurn}, temp : Handle \cup {NoId},
   captured : Handle \cup {NoId}, reported : SessionId \cup {NoId}, cancels : Nat]
PoolSession ==
  [made : BOOLEAN, process : {"none", "live", "dead"}, pid : BOOLEAN, closed : BOOLEAN,
   driver : Turn \cup {NoTurn}, dropped : BOOLEAN,
   stopper : Turn \cup {NoTurn, StopAll} \cup {Shield(s) : s \in Session}]

PoolTypes ==
  /\ turn \in [Turn -> PoolTurn] /\ cli \in [Session -> PoolSession]
  /\ pendingAs \in [Handle -> Turn \cup {NoTurn}] /\ realAs \in [Handle -> Turn \cup {NoTurn}]
  /\ aliasOf \in [Handle -> Handle \cup {NoId}] /\ tempOf \in [Handle -> Handle \cup {NoId}]
  /\ closingSet \subseteq Session /\ poolBudget \in [stopAlls : Nat, failures : Nat]

NamedBy(h, s) == pendingAs[h] = s \/ realAs[h] = s
Kept(s) == \E h \in Handle : NamedBy(h, s)

\* The two halves of the mapping agree, and every session has one handle.
MapInv ==
  /\ \A h \in Handle :
       /\ realAs[h] # NoTurn <=> tempOf[h] # NoId
       /\ pendingAs[h] # NoTurn => realAs[h] = NoTurn /\ aliasOf[h] = NoId
       /\ realAs[h] # NoTurn => aliasOf[h] \in {NoId, h}
  /\ \A h, g \in Handle : aliasOf[h] = g <=> tempOf[g] = h
  /\ \A s \in Session : \A h, g \in Handle : NamedBy(h, s) /\ NamedBy(g, s) => h = g
  /\ \A s \in closingSet : Kept(s)

\* What a turn has in hand: nothing before it opens a session; then a handle,
\* under which its session is found as long as the manager keeps it.
TurnInv(t) ==
  LET r == turn[t] IN
  /\ r.at = "opening" =>
       /\ r.session = NoTurn /\ r.temp = NoId /\ r.captured = NoId /\ ~cli[t].made
       /\ pendingAs[t] = NoTurn /\ realAs[t] = NoTurn /\ aliasOf[t] = NoId
  /\ r.at \in {"ready", "launching", "streaming", "recording", "killing", "draining"} =>
       r.session # NoTurn
  /\ r.temp \in SessionId \cup {t, NoId}
  /\ r.at \in {"ready", "launching", "streaming", "killing", "draining"} =>
       (r.captured # NoId <=> r.temp = NoId)
  /\ r.at = "recording" => r.captured = NoId /\ r.temp # NoId /\ r.reported # NoId
  /\ r.session # NoTurn =>
       /\ cli[r.session].made /\ HasHandle(t)
       /\ r.at \notin Gone /\ Kept(r.session) => Owner(t) = r.session
       /\ r.at = "recording" /\ Kept(r.session) => SessionFor(r.reported) = r.session
  /\ r.at = "launching" => cli[r.session].stopper = t /\ ~cli[r.session].closed
  /\ r.at = "removing" => poolLock = t /\ HasHandle(t) /\ Owner(t) \in closingSet

\* A session that the manager forgot is closed, without a process; one that it
\* keeps has a turn that is to remove it, or could not be stopped.
SessionInv(s) ==
  LET p == cli[s] IN
  /\ Kept(s) => /\ p.made
                /\ \/ \E t \in Turn : turn[t].session = s /\ turn[t].at # "left"
                   \/ s \in closingSet /\ poolBudget.failures > 0
  /\ p.made /\ ~Kept(s) => p.closed /\ ~p.pid
  /\ p.process = "live" => p.pid /\ Kept(s)
  /\ p.stopper # NoTurn =>
       \/ p.closed
       \/ p.stopper \in Turn /\ turn[p.stopper].at = "launching" /\ turn[p.stopper].session = s

PoolInv ==
  /\ PoolTypes /\ MapInv
  /\ \A t \in Turn : TurnInv(t)
  /\ \A s \in Session : SessionInv(s)

(* What the assumption says of the names of turns and sessions.            *)
LEMMA SessionNames ==
  /\ Session = Turn /\ NoTurn \notin Turn /\ StopAll \notin Turn /\ StopAll # NoTurn
  /\ Turn \subseteq Handle /\ SessionId \subseteq Handle /\ NoId \notin Handle
  /\ SessionId \cap Turn = {} /\ ParentOf \in [Turn -> SessionId \cup {NoId}]
  /\ \A s \in Turn : Shield(s) \notin Turn \cup {NoTurn, StopAll}
BY SessionsAssumption DEF Session, Handle

\* A session is found under a handle exactly when the handle, or the id that
\* replaced it, names the session.
LEMMA SessionIsNamed ==
  ASSUME PoolTypes, MapInv, NEW h \in Handle
  PROVE  /\ Lookup(h) \in Handle
         /\ SessionFor(h) \in Turn \cup {NoTurn}
         /\ \A s \in Turn : SessionFor(h) = s <=> NamedBy(Lookup(h), s)
         /\ SessionFor(h) = NoTurn =>
              aliasOf[h] = NoId /\ pendingAs[h] = NoTurn /\ realAs[h] = NoTurn
         /\ SessionFor(h) # NoTurn => SessionFor(Lookup(h)) = SessionFor(h)
<1> HIDE DEF Handle
<1>1. /\ pendingAs[h] \in Turn \cup {NoTurn} /\ realAs[h] \in Turn \cup {NoTurn}
      /\ aliasOf[h] \in Handle \cup {NoId}
  BY DEF PoolTypes
<1>2. CASE aliasOf[h] = NoId
  <2>1. Lookup(h) = h
    BY <1>2 DEF Lookup
  <2>2. pendingAs[h] # NoTurn => realAs[h] = NoTurn
    BY DEF MapInv
  <2> QED
    BY <1>1, <1>2, <2>1, <2>2, SessionNames DEF SessionFor, NamedBy
<1>3. CASE aliasOf[h] # NoId
  <2> DEFINE g == aliasOf[h]
  <2>1. Lookup(h) = g /\ g \in Handle
    BY <1>1, <1>3 DEF Lookup
  <2>2. tempOf[g] = h /\ tempOf[g] # NoId
    BY <2>1, SessionNames DEF MapInv
  <2>3. realAs[g] # NoTurn /\ pendingAs[g] = NoTurn /\ aliasOf[g] \in {NoId, g}
    BY <2>1, <2>2 DEF MapInv
  <2>4. realAs[g] \in Turn /\ pendingAs[g] \in Turn \cup {NoTurn}
    BY <2>1, <2>3 DEF PoolTypes
  <2>5. Lookup(g) = g
    BY <2>3 DEF Lookup
  <2> QED
    BY <2>1, <2>3, <2>4, <2>5, SessionNames DEF SessionFor, NamedBy
<1> QED
  BY <1>2, <1>3

(* A session that is found is one the manager keeps.                       *)
LEMMA FoundIsKept ==
  ASSUME PoolTypes, MapInv, NEW h \in Handle, SessionFor(h) # NoTurn
  PROVE  SessionFor(h) \in Turn /\ Kept(SessionFor(h))
BY SessionIsNamed DEF Kept

(* The manager knows the sessions it keeps, closing or not.                *)
LEMMA KnownIsKept ==
  ASSUME PoolTypes, MapInv
  PROVE  Known = {s \in Turn : Kept(s)}
BY SessionNames DEF Known, KnownAs, Kept, NamedBy, MapInv

\* What the registry says of sessions other than those of S is not changed.
Keeps(S) ==
  /\ \A h \in Handle : SessionFor(h) \notin S \cup {NoTurn} => SessionFor(h)' = SessionFor(h)
  /\ \A s \in Turn \ S : Kept(s)' <=> Kept(s)

\* Opening a new session under a handle that names none.
LEMMA NamesNew ==
  ASSUME PoolTypes, MapInv, MapInv', NEW t \in Turn, NEW temp \in Handle,
         SessionFor(temp) = NoTurn, ~Kept(t),
         pendingAs' = [pendingAs EXCEPT ![temp] = t],
         UNCHANGED <<realAs, aliasOf, tempOf, closingSet>>
  PROVE  Keeps({t}) /\ SessionFor(temp)' = t /\ Kept(t)'
<1> HIDE DEF Handle
<1>1. /\ aliasOf[temp] = NoId /\ pendingAs[temp] = NoTurn /\ realAs[temp] = NoTurn
  BY SessionIsNamed
<1>2. /\ pendingAs \in [Handle -> Turn \cup {NoTurn}] /\ realAs \in [Handle -> Turn \cup {NoTurn}]
  BY DEF PoolTypes
<1>3. /\ pendingAs'[temp] = t
      /\ \A h \in Handle : h # temp => pendingAs'[h] = pendingAs[h]
  BY <1>2
<1>4. \A s \in Turn \ {t} : Kept(s)' <=> Kept(s)
  BY <1>1, <1>3, SessionNames DEF Kept, NamedBy
<1>5. SessionFor(temp)' = t
  BY <1>1, <1>3 DEF SessionFor, Lookup
<1>6. Kept(t)'
  BY <1>3 DEF Kept, NamedBy
<1>7. ASSUME NEW h \in Handle, SessionFor(h) \notin {t} \cup {NoTurn}
      PROVE  SessionFor(h)' = SessionFor(h)
  <2>1. Lookup(h) \in Handle /\ NamedBy(Lookup(h), SessionFor(h))
    BY <1>7, SessionIsNamed
  <2>2. Lookup(h) # temp
    BY <1>1, <1>7, <2>1 DEF NamedBy
  <2>3. Lookup(h)' = Lookup(h)
    BY DEF Lookup
  <2> QED
    BY <1>3, <2>1, <2>2, <2>3 DEF SessionFor
<1> QED
  BY <1>4, <1>5, <1>6, <1>7 DEF Keeps

(* The mapping stays whole when a new session is opened.                   *)
LEMMA MapNew ==
  ASSUME PoolTypes, MapInv, NEW t \in Turn, NEW temp \in Handle,
         SessionFor(temp) = NoTurn, ~Kept(t),
         pendingAs' = [pendingAs EXCEPT ![temp] = t],
         UNCHANGED <<realAs, aliasOf, tempOf, closingSet>>
  PROVE  MapInv'
<1> HIDE DEF Handle
<1>1. /\ aliasOf[temp] = NoId /\ pendingAs[temp] = NoTurn /\ realAs[temp] = NoTurn
  BY SessionIsNamed
<1>2. pendingAs \in [Handle -> Turn \cup {NoTurn}] /\ closingSet \subseteq Turn
  BY SessionNames DEF PoolTypes
<1>3. /\ pendingAs'[temp] = t
      /\ \A h \in Handle : h # temp => pendingAs'[h] = pendingAs[h]
  BY <1>2
<1>4. /\ \A h \in Handle :
           /\ realAs'[h] # NoTurn <=> tempOf'[h] # NoId
           /\ pendingAs'[h] # NoTurn => realAs'[h] = NoTurn /\ aliasOf'[h] = NoId
           /\ realAs'[h] # NoTurn => aliasOf'[h] \in {NoId, h}
      /\ \A h, g \in Handle : aliasOf'[h] = g <=> tempOf'[g] = h
  BY <1>1, <1>3 DEF MapInv
<1>5. \A s \in Turn, h \in Handle : NamedBy(h, s)' <=> NamedBy(h, s) \/ (h = temp /\ s = t)
  BY <1>1, <1>3, SessionNames DEF NamedBy
<1>6. \A s \in Session : \A h, g \in Handle : NamedBy(h, s)' /\ NamedBy(g, s)' => h = g
  BY <1>5, SessionNames DEF Kept, MapInv
<1>7. \A s \in closingSet : Kept(s)'
  BY <1>2, <1>5 DEF Kept, MapInv
<1> QED
  BY <1>4, <1>6, <1>7 DEF MapInv

\* A handle that is given up for another of the same session.
LEMMA Renames ==
  ASSUME PoolTypes, MapInv, NEW s \in Turn, NEW temp \in Handle, NEW id \in Handle,
         pendingAs[temp] = s, s \notin closingSet, SessionFor(id) \in {NoTurn, s},
         pendingAs' = [pendingAs EXCEPT ![temp] = NoTurn],
         realAs' = [realAs EXCEPT ![id] = s],
         aliasOf' = [aliasOf EXCEPT ![temp] = id],
         tempOf' = [tempOf EXCEPT ![id] = temp],
         closingSet' = closingSet
  PROVE  MapInv' /\ Keeps({}) /\ SessionFor(id)' = s
<1> HIDE DEF Handle
<1>1. /\ pendingAs \in [Handle -> Turn \cup {NoTurn}] /\ realAs \in [Handle -> Turn \cup {NoTurn}]
      /\ aliasOf \in [Handle -> Handle \cup {NoId}] /\ tempOf \in [Handle -> Handle \cup {NoId}]
      /\ closingSet \subseteq Turn
  BY SessionNames DEF PoolTypes
<1>2. realAs[temp] = NoTurn /\ aliasOf[temp] = NoId /\ tempOf[temp] = NoId /\ NamedBy(temp, s)
  BY SessionNames DEF MapInv, NamedBy
<1>3. \A h \in Handle : NamedBy(h, s) => h = temp
  BY <1>2, SessionNames DEF MapInv
<1>4. SessionFor(id) = s => Lookup(id) = temp
  BY <1>3, SessionIsNamed
<1>5. \A h \in Handle : aliasOf[h] # temp
  BY <1>2, SessionNames DEF MapInv
<1>6. aliasOf[id] = NoId
  BY <1>2, <1>4, <1>5, SessionIsNamed DEF Lookup
<1>7. realAs[id] = NoTurn /\ pendingAs[id] \in {NoTurn, s} /\ (pendingAs[id] = s => id = temp)
  <2>1. CASE SessionFor(id) = NoTurn
    BY <2>1, SessionIsNamed, SessionNames
  <2>2. CASE SessionFor(id) = s
    <3>1. id = temp
      BY <1>4, <1>6, <2>2 DEF Lookup
    <3> QED
      BY <1>2, <3>1
  <2> QED
    BY <2>1, <2>2
<1>8. tempOf[id] = NoId
  BY <1>7 DEF MapInv
<1>9. /\ pendingAs'[temp] = NoTurn /\ \A h \in Handle : h # temp => pendingAs'[h] = pendingAs[h]
      /\ realAs'[id] = s /\ \A h \in Handle : h # id => realAs'[h] = realAs[h]
      /\ aliasOf'[temp] = id /\ \A h \in Handle : h # temp => aliasOf'[h] = aliasOf[h]
      /\ tempOf'[id] = temp /\ \A h \in Handle : h # id => tempOf'[h] = tempOf[h]
  BY <1>1
<1>10. pendingAs'[id] = NoTurn
  BY <1>7, <1>9
<1>11. \A h \in Handle :
         /\ realAs'[h] # NoTurn <=> tempOf'[h] # NoId
         /\ pendingAs'[h] # NoTurn => realAs'[h] = NoTurn /\ aliasOf'[h] = NoId
         /\ realAs'[h] # NoTurn => aliasOf'[h] \in {NoId, h}
  <2> TAKE h \in Handle
  <2>1. realAs'[h] # NoTurn <=> tempOf'[h] # NoId
    BY <1>9, SessionNames DEF MapInv
  <2>2. pendingAs'[h] # NoTurn => realAs'[h] = NoTurn /\ aliasOf'[h] = NoId
    BY <1>9, <1>10 DEF MapInv
  <2>3. realAs'[h] # NoTurn => aliasOf'[h] \in {NoId, h}
    <3>1. CASE h = id
      BY <1>6, <1>9, <3>1
    <3>2. CASE h # id
      BY <1>2, <1>9, <3>2 DEF MapInv
    <3> QED
      BY <3>1, <3>2
  <2> QED
    BY <2>1, <2>2, <2>3
<1>12. \A h, g \in Handle : aliasOf'[h] = g <=> tempOf'[g] = h
  <2> TAKE h, g \in Handle
  <2>1. CASE h = temp
    BY <1>2, <1>5, <1>8, <1>9, <2>1, SessionNames DEF MapInv
  <2>2. CASE h # temp
    BY <1>8, <1>9, <2>2, SessionNames DEF MapInv
  <2> QED
    BY <2>1, <2>2
<1>13. \A x \in Turn, h \in Handle :
         NamedBy(h, x)' <=> IF x = s THEN h = id ELSE NamedBy(h, x)
  <2> TAKE x \in Turn, h \in Handle
  <2>1. CASE x = s
    <3>1. h # id => ~NamedBy(h, x)'
      BY <1>2, <1>3, <1>9, <2>1, SessionNames DEF NamedBy
    <3>2. h = id => NamedBy(h, x)'
      BY <1>9, <2>1 DEF NamedBy
    <3> QED
      BY <2>1, <3>1, <3>2
  <2>2. CASE x # s
    BY <1>7, <1>9, <1>10, <2>2, SessionNames DEF NamedBy
  <2> QED
    BY <2>1, <2>2
<1>14. \A x \in Session : \A h, g \in Handle : NamedBy(h, x)' /\ NamedBy(g, x)' => h = g
  BY <1>13, SessionNames DEF MapInv
<1>15. \A x \in Turn : Kept(x)' <=> Kept(x)
  BY <1>2, <1>13 DEF Kept
<1>16. MapInv'
  BY <1>1, <1>11, <1>12, <1>14, <1>15 DEF MapInv
<1>17. SessionFor(id)' = s
  <2>1. Lookup(id)' = id
    BY <1>6, <1>9 DEF Lookup
  <2> QED
    BY <1>9, <2>1, SessionNames DEF SessionFor
<1>18. ASSUME NEW h \in Handle, SessionFor(h) # NoTurn
       PROVE  SessionFor(h)' = SessionFor(h)
  <2>1. Lookup(h) \in Handle /\ SessionFor(h) \in Turn /\ NamedBy(Lookup(h), SessionFor(h))
    BY <1>18, SessionIsNamed
  <2>2. CASE SessionFor(h) = s
    <3>1. h = temp
      BY <1>3, <1>5, <2>1, <2>2 DEF Lookup
    <3>2. Lookup(h)' = id
      BY <1>9, <3>1, SessionNames DEF Lookup
    <3> QED
      BY <1>9, <2>2, <3>2, SessionNames DEF SessionFor
  <2>3. CASE SessionFor(h) # s
    <3>1. h # temp
      BY <1>2, <2>3, SessionIsNamed DEF Lookup
    <3>2. Lookup(h)' = Lookup(h)
      BY <1>9, <3>1 DEF Lookup
    <3>3. Lookup(h) # temp /\ Lookup(h) # id
      BY <1>2, <1>7, <2>1, <2>3, SessionNames DEF NamedBy
    <3> QED
      BY <1>9, <2>1, <3>2, <3>3 DEF SessionFor
  <2> QED
    BY <2>2, <2>3
<1> QED
  BY <1>15, <1>16, <1>17, <1>18 DEF Keeps

\* What forgetting a session does to the registry.
LEMMA ForgetsOne ==
  ASSUME PoolTypes, MapInv, NEW s \in Turn, Forget(s)
  PROVE  /\ MapInv' /\ Keeps({s}) /\ ~Kept(s)'
         /\ closingSet' = closingSet \ {s}
         /\ \A h \in Handle :
              /\ pendingAs[h] = NoTurn => pendingAs'[h] = NoTurn
              /\ realAs[h] = NoTurn => realAs'[h] = NoTurn
              /\ aliasOf[h] = NoId => aliasOf'[h] = NoId
<1> HIDE DEF Handle
<1>1. /\ pendingAs \in [Handle -> Turn \cup {NoTurn}] /\ realAs \in [Handle -> Turn \cup {NoTurn}]
      /\ aliasOf \in [Handle -> Handle \cup {NoId}] /\ tempOf \in [Handle -> Handle \cup {NoId}]
      /\ closingSet \subseteq Turn
  BY SessionNames DEF PoolTypes
<1>2. /\ closingSet' = closingSet \ {s}
      /\ \A h \in Handle :
           /\ pendingAs'[h] = IF pendingAs[h] = s THEN NoTurn ELSE pendingAs[h]
           /\ realAs'[h] = IF realAs[h] = s THEN NoTurn ELSE realAs[h]
           /\ tempOf'[h] = IF realAs[h] = s THEN NoId ELSE tempOf[h]
  BY DEF Forget
<1>3. \A h \in Handle :
        aliasOf'[h] = IF \E g \in Handle : realAs[g] = s /\ tempOf[g] = h
                      THEN NoId ELSE aliasOf[h]
  BY SessionNames DEF Forget
<1>4. \A h \in Handle :
        aliasOf'[h] = IF aliasOf[h] # NoId /\ realAs[aliasOf[h]] = s THEN NoId ELSE aliasOf[h]
  <2> TAKE h \in Handle
  <2>1. (\E g \in Handle : realAs[g] = s /\ tempOf[g] = h)
          <=> aliasOf[h] # NoId /\ realAs[aliasOf[h]] = s
    <3>1. \A g \in Handle : aliasOf[h] = g <=> tempOf[g] = h
      BY DEF MapInv
    <3>2. aliasOf[h] \in Handle \cup {NoId}
      BY <1>1
    <3> QED
      BY <3>1, <3>2, SessionNames
  <2> QED
    BY <1>3, <2>1
<1>5. \A x \in Turn, h \in Handle : NamedBy(h, x)' <=> x # s /\ NamedBy(h, x)
  BY <1>2, SessionNames DEF NamedBy
<1>6. \A x \in Turn \ {s} : Kept(x)' <=> Kept(x)
  BY <1>5 DEF Kept
<1>7. ~Kept(s)'
  BY <1>5 DEF Kept
<1>8. \A h \in Handle :
        /\ realAs'[h] # NoTurn <=> tempOf'[h] # NoId
        /\ pendingAs'[h] # NoTurn => realAs'[h] = NoTurn /\ aliasOf'[h] = NoId
        /\ realAs'[h] # NoTurn => aliasOf'[h] \in {NoId, h}
  <2> TAKE h \in Handle
  <2>1. /\ realAs[h] # NoTurn <=> tempOf[h] # NoId
        /\ pendingAs[h] # NoTurn => realAs[h] = NoTurn /\ aliasOf[h] = NoId
        /\ realAs[h] # NoTurn => aliasOf[h] \in {NoId, h}
    BY DEF MapInv
  <2> QED
    BY <1>2, <1>4, <2>1, SessionNames
<1>9. \A h, g \in Handle : aliasOf'[h] = g <=> tempOf'[g] = h
  <2> TAKE h, g \in Handle
  <2>1. aliasOf[h] = g <=> tempOf[g] = h
    BY DEF MapInv
  <2> QED
    BY <1>2, <1>4, <2>1, SessionNames
<1>10. MapInv'
  <2>1. \A x \in Session : \A h, g \in Handle : NamedBy(h, x)' /\ NamedBy(g, x)' => h = g
    BY <1>5, SessionNames DEF MapInv
  <2>2. \A x \in closingSet' : Kept(x)'
    BY <1>1, <1>2, <1>6 DEF MapInv
  <2> QED
    BY <1>8, <1>9, <2>1, <2>2 DEF MapInv
<1>11. ASSUME NEW h \in Handle, SessionFor(h) \notin {s} \cup {NoTurn}
       PROVE  SessionFor(h)' = SessionFor(h)
  <2>1. Lookup(h) \in Handle /\ SessionFor(h) \in Turn /\ NamedBy(Lookup(h), SessionFor(h))
    BY <1>11, SessionIsNamed
  <2>2. realAs[Lookup(h)] # s /\ pendingAs[Lookup(h)] # s
    <3>1. ~NamedBy(Lookup(h), s)
      BY <1>11, SessionIsNamed
    <3> QED
      BY <3>1 DEF NamedBy
  <2>3. Lookup(h)' = Lookup(h)
    <3>1. CASE aliasOf[h] = NoId
      BY <1>4, <3>1 DEF Lookup
    <3>2. CASE aliasOf[h] # NoId
      BY <1>4, <2>2, <3>2 DEF Lookup
    <3> QED
      BY <3>1, <3>2
  <2> QED
    BY <1>2, <2>1, <2>2, <2>3 DEF SessionFor
<1>12. Keeps({s})
  BY <1>6, <1>11 DEF Keeps
<1> QED
  BY <1>2, <1>4, <1>7, <1>10, <1>12

(* A step that leaves the registry alone.                                  *)
LEMMA RegistryUnchanged ==
  ASSUME MapInv, UNCHANGED registry
  PROVE  MapInv' /\ Keeps({}) /\ closingSet' = closingSet
<1>1. /\ pendingAs' = pendingAs /\ realAs' = realAs /\ aliasOf' = aliasOf /\ tempOf' = tempOf
      /\ closingSet' = closingSet
  BY DEF registry
<1>2. MapInv'
  BY <1>1 DEF MapInv, NamedBy, Kept
<1>3. Keeps({})
  BY <1>1 DEF Keeps, NamedBy, Kept, SessionFor, Lookup
<1> QED
  BY <1>1, <1>2, <1>3

\* Sessions that are marked as closing.
LEMMA RegistryCloses ==
  ASSUME PoolTypes, MapInv, UNCHANGED <<pendingAs, realAs, aliasOf, tempOf>>,
         closingSet' \in SUBSET {s \in Turn : Kept(s)}
  PROVE  MapInv' /\ Keeps({})
<1> HIDE DEF Handle
<1>1. Keeps({})
  BY DEF Keeps, NamedBy, Kept, SessionFor, Lookup
<1>2. MapInv'
  BY DEF MapInv, NamedBy, Kept
<1> QED
  BY <1>1, <1>2

\* Where a turn may go while it has a session and streams from it.
Onwards == {"launching", "streaming", "killing", "draining"}

\* A turn that keeps its session and its ids, where the registry still knows
\* them, whatever else happens.
LEMMA TurnFrame ==
  ASSUME PoolTypes, MapInv, MapInv', NEW t \in Turn, TurnInv(t), NEW S, Keeps(S),
         turn'[t].session = turn[t].session, turn'[t].temp = turn[t].temp,
         turn'[t].captured = turn[t].captured, turn'[t].reported = turn[t].reported,
         \/ turn'[t].at = turn[t].at
         \/ turn'[t].at \in {"leaving", "left", "cut"}
         \/ turn'[t].at \in Onwards /\ turn[t].at \in {"ready"} \cup Onwards,
         turn[t].at \in Gone => turn'[t].at \in Gone,
         turn'[t].at = "opening" =>
           /\ ~cli'[t].made /\ pendingAs'[t] = NoTurn /\ realAs'[t] = NoTurn
           /\ aliasOf'[t] = NoId,
         turn[t].session # NoTurn =>
           /\ cli'[turn[t].session].made
           /\ \A s \in S : turn[t].session = s /\ turn'[t].at \notin Gone => ~Kept(s)',
         turn'[t].at = "launching" =>
           cli'[turn[t].session].stopper = t /\ ~cli'[turn[t].session].closed,
         turn'[t].at = "removing" =>
           poolLock' = t /\ Owner(t) \notin S /\ Owner(t) \in closingSet'
  PROVE  TurnInv(t)'
<1> HIDE DEF Handle
<1>1. /\ turn[t].session \in Turn \cup {NoTurn} /\ turn[t].temp \in Handle \cup {NoId}
      /\ turn[t].captured \in Handle \cup {NoId} /\ turn[t].reported \in SessionId \cup {NoId}
  BY SessionNames DEF PoolTypes, PoolTurn
<1>2. PICK s \in Turn \cup {NoTurn} : s = turn[t].session
  BY <1>1
<1>3. PICK id \in SessionId \cup {NoId} : id = turn[t].reported
  BY <1>1
<1>4. PICK own \in Handle \cup {NoId} :
        own = IF turn[t].captured # NoId THEN turn[t].captured ELSE turn[t].temp
  BY <1>1
<1>5. /\ HasHandle(t) <=> own # NoId
      /\ HasHandle(t)' <=> own # NoId
  BY <1>4 DEF HasHandle
<1>6. Owner(t) = SessionFor(own) /\ Owner(t)' = SessionFor(own)'
  BY <1>4 DEF Owner, SessionFor, Lookup
<1>7. /\ s # NoTurn => (Kept(turn[t].session)' <=> Kept(s)')
      /\ SessionFor(turn[t].reported)' = SessionFor(id)'
  BY <1>2, <1>3 DEF SessionFor, Lookup, Kept, NamedBy
<1>8. ASSUME turn'[t].at \notin Gone, s # NoTurn, Kept(s)'
      PROVE  Owner(t)' = s
  <2>1. s \in Turn \ S /\ turn[t].at \notin Gone
    BY <1>2, <1>8
  <2>2. Kept(s)
    BY <1>8, <2>1 DEF Keeps
  <2>3. own \in Handle /\ SessionFor(own) = s
    BY <1>2, <1>5, <1>6, <1>8, <2>1, <2>2 DEF TurnInv
  <2> QED
    BY <1>6, <1>8, <2>1, <2>3 DEF Keeps
<1>9. ASSUME turn'[t].at = "recording", s # NoTurn, Kept(s)'
      PROVE  SessionFor(id)' = s
  <2>1. s \in Turn \ S /\ turn[t].at = "recording"
    BY <1>2, <1>9 DEF Gone, Onwards
  <2>2. Kept(s)
    BY <1>9, <2>1 DEF Keeps
  <2>3. id \in Handle /\ SessionFor(id) = s
    BY <1>2, <1>3, <1>9, <2>1, <2>2, SessionNames DEF TurnInv
  <2> QED
    BY <1>9, <2>1, <2>3 DEF Keeps
<1>10. turn'[t].at = "opening" =>
         /\ turn'[t].session = NoTurn /\ turn'[t].temp = NoId /\ turn'[t].captured = NoId
         /\ ~cli'[t].made
         /\ pendingAs'[t] = NoTurn /\ realAs'[t] = NoTurn /\ aliasOf'[t] = NoId
  BY DEF TurnInv, Onwards
<1>11. /\ turn'[t].at \in {"ready", "launching", "streaming", "recording", "killing", "draining"} =>
            turn'[t].session # NoTurn
       /\ turn'[t].temp \in SessionId \cup {t, NoId}
       /\ turn'[t].at \in {"ready", "launching", "streaming", "killing", "draining"} =>
            (turn'[t].captured # NoId <=> turn'[t].temp = NoId)
       /\ turn'[t].at = "recording" =>
            turn'[t].captured = NoId /\ turn'[t].temp # NoId /\ turn'[t].reported # NoId
  BY DEF TurnInv, Onwards
<1>12. turn'[t].session # NoTurn =>
        /\ cli'[turn'[t].session].made /\ HasHandle(t)'
        /\ turn'[t].at \notin Gone /\ Kept(turn[t].session)' => Owner(t)' = turn'[t].session
        /\ turn'[t].at = "recording" /\ Kept(turn[t].session)' =>
             SessionFor(turn[t].reported)' = turn'[t].session
  <2>1. s # NoTurn => HasHandle(t)'
    BY <1>2, <1>5 DEF TurnInv
  <2> QED
    BY <1>2, <1>7, <1>8, <1>9, <2>1
<1>13. turn'[t].at = "launching" =>
         cli'[turn'[t].session].stopper = t /\ ~cli'[turn'[t].session].closed
  OBVIOUS
<1>14. ASSUME turn'[t].at = "removing"
       PROVE  poolLock' = t /\ HasHandle(t)' /\ Owner(t)' \in closingSet'
  <2>1. turn[t].at = "removing"
    BY <1>14 DEF Onwards
  <2>2. HasHandle(t) /\ Owner(t) \in closingSet
    BY <2>1 DEF TurnInv
  <2>3. Owner(t) # NoTurn /\ Owner(t) \notin S
    BY <1>14, <2>2, SessionNames DEF PoolTypes
  <2>4. Owner(t)' = Owner(t)
    BY <1>5, <1>6, <2>2, <2>3 DEF Keeps
  <2> QED
    BY <1>5, <1>14, <2>2, <2>4
<1> QED
  BY <1>10, <1>11, <1>12, <1>13, <1>14 DEF TurnInv

(* The types hold at the start.                                            *)
LEMMA PoolTypesInit == PoolInit => PoolTypes
BY SessionNames, SessionsAssumption
   DEF PoolInit, PoolTypes, PoolTurn, PoolStage, PoolSession, Session

\* A turn that goes to another stage, as it is or cancelled.
LEMMA TurnGoes ==
  ASSUME PoolTypes, NEW t \in Turn, NEW stage \in PoolStage, Goes(t, stage)
  PROVE  /\ turn' \in [Turn -> PoolTurn]
         /\ \A u \in Turn \ {t} : turn'[u] = turn[u]
         /\ turn'[t].at = stage
         /\ turn'[t].session = turn[t].session /\ turn'[t].temp = turn[t].temp
         /\ turn'[t].captured = turn[t].captured /\ turn'[t].reported = turn[t].reported
<1>1. turn \in [Turn -> PoolTurn] /\ turn' = [turn EXCEPT ![t].at = stage]
  BY DEF PoolTypes, Goes
<1>2. turn[t] \in PoolTurn
  BY <1>1
<1>3. turn'[t] = [turn[t] EXCEPT !.at = stage] /\ \A u \in Turn \ {t} : turn'[u] = turn[u]
  BY <1>1
<1>4. turn'[t] \in PoolTurn
  BY <1>2, <1>3 DEF PoolTurn
<1>5. turn' \in [Turn -> PoolTurn]
  BY <1>1, <1>2, <1>3, <1>4
<1> QED
  BY <1>2, <1>3, <1>5 DEF PoolTurn

(* A turn that is cancelled at an await.                                   *)
LEMMA TurnIsCancelled ==
  ASSUME PoolTypes, NEW t \in Turn, NEW stages, NEW next \in PoolStage,
         CancelledAt(t, stages, next)
  PROVE  /\ turn' \in [Turn -> PoolTurn]
         /\ \A u \in Turn \ {t} : turn'[u] = turn[u]
         /\ turn[t].at \in stages /\ turn'[t].at = next
         /\ turn'[t].session = turn[t].session /\ turn'[t].temp = turn[t].temp
         /\ turn'[t].captured = turn[t].captured /\ turn'[t].reported = turn[t].reported
         /\ poolBudget' = poolBudget
<1>1. /\ turn \in [Turn -> PoolTurn]
      /\ turn' = [turn EXCEPT ![t].at = next, ![t].cancels = @ + 1]
      /\ turn[t].at \in stages /\ poolBudget' = poolBudget
  BY DEF PoolTypes, CancelledAt
<1>2. turn[t] \in PoolTurn
  BY <1>1
<1>3. PICK n \in Nat : n = turn[t].cancels + 1
  <2>1. turn[t].cancels \in Nat
    BY <1>2 DEF PoolTurn
  <2> QED
    BY <2>1
<1>4. /\ turn'[t] = [turn[t] EXCEPT !.at = next, !.cancels = n]
      /\ \A u \in Turn \ {t} : turn'[u] = turn[u]
      /\ turn'[t] \in PoolTurn
  <2>1. /\ turn'[t] = [turn[t] EXCEPT !.at = next, !.cancels = n]
        /\ \A u \in Turn \ {t} : turn'[u] = turn[u]
    BY <1>1, <1>3
  <2>2. turn'[t] \in PoolTurn
    BY <1>2, <2>1 DEF PoolTurn
  <2> QED
    BY <2>1, <2>2
<1>5. turn' \in [Turn -> PoolTurn]
  BY <1>1, <1>2, <1>4
<1> QED
  BY <1>1, <1>2, <1>4, <1>5 DEF PoolTurn

\* The end of start_task(), and the other changes of a session.
LEMMA GeneratorStep ==
  ASSUME PoolTypes, NEW s \in Turn, GeneratorEnds(s)
  PROVE  /\ cli' \in [Session -> PoolSession]
         /\ \A x \in Turn \ {s} : cli'[x] = cli[x]
         /\ cli'[s].made = cli[s].made /\ cli'[s].closed = cli[s].closed
         /\ cli'[s].process = cli[s].process /\ cli'[s].stopper = cli[s].stopper
         /\ cli'[s].pid => cli[s].pid
         /\ cli'[s].process = "live" => (cli'[s].pid <=> cli[s].pid)
<1>1. cli \in [Turn -> PoolSession] /\ cli[s] \in PoolSession
  BY SessionNames DEF PoolTypes
<1>2. PICK pid \in BOOLEAN :
        /\ cli' = [cli EXCEPT ![s].driver = NoTurn, ![s].dropped = FALSE, ![s].pid = pid]
        /\ pid => cli[s].pid
        /\ cli[s].process = "live" => (pid <=> cli[s].pid)
  <2>1. CASE cli[s].process = "dead"
    BY <1>1, <2>1 DEF GeneratorEnds
  <2>2. CASE cli[s].process # "dead"
    <3>1. cli[s].pid \in BOOLEAN
      BY <1>1 DEF PoolSession
    <3>2. cli' = [cli EXCEPT ![s].driver = NoTurn, ![s].dropped = FALSE, ![s].pid = cli[s].pid]
      BY <2>2 DEF GeneratorEnds
    <3> QED
      BY <3>1, <3>2
  <2> QED
    BY <2>1, <2>2
<1> HIDE DEF PoolTypes
<1>3. /\ cli'[s] = [cli[s] EXCEPT !.driver = NoTurn, !.dropped = FALSE, !.pid = pid]
      /\ \A x \in Turn \ {s} : cli'[x] = cli[x]
  BY <1>1, <1>2
<1>4. cli'[s] \in PoolSession
  BY <1>1, <1>3 DEF PoolSession
<1>5. cli' \in [Session -> PoolSession]
  BY <1>1, <1>2, <1>3, <1>4, SessionNames
<1> QED
  BY <1>1, <1>2, <1>3, <1>5 DEF PoolSession

\* What a turn does to a session while the registry stays as it is.
CliMoves(t, x) ==
  /\ cli'[x].made <=> cli[x].made
  /\ cli'[x].closed <=> cli[x].closed
  /\ cli'[x].pid => cli[x].pid \/ (cli[x].made /\ ~cli[x].closed)
  /\ cli'[x].process = "live" =>
       cli'[x].pid /\ (cli[x].process = "live" \/ (cli[x].made /\ ~cli[x].closed))
  /\ \/ cli'[x].stopper = cli[x].stopper
     \/ cli[x].stopper = t /\ cli'[x].stopper = NoTurn
     \/ /\ cli[x].stopper = NoTurn /\ cli'[x].stopper = t
        /\ turn'[t].at = "launching" /\ turn'[t].session = x

(* A session that a turn leaves alone.                                     *)
LEMMA CliStays ==
  ASSUME PoolInv, NEW t, NEW x \in Turn, cli'[x] = cli[x]
  PROVE  CliMoves(t, x)
BY SessionNames DEF CliMoves, PoolInv, SessionInv

(* A step of one turn that leaves the registry as it is.                   *)
LEMMA PlainStep ==
  ASSUME PoolInv, PoolTypes', NEW t \in Turn, UNCHANGED registry,
         \A u \in Turn \ {t} : turn'[u] = turn[u],
         TurnInv(t)',
         poolLock' = poolLock \/ poolLock = t,
         \A x \in Turn : CliMoves(t, x),
         poolBudget'.failures >= poolBudget.failures,
         turn'[t].session = turn[t].session \/ turn[t].session = NoTurn,
         turn'[t].at = "left" => \A s \in Turn : turn[t].session = s => ~Kept(s),
         turn[t].at = "launching" => cli'[turn[t].session].stopper = NoTurn
  PROVE  PoolInv'
<1>1. /\ PoolTypes /\ MapInv /\ MapInv' /\ Keeps({}) /\ closingSet' = closingSet
      /\ pendingAs' = pendingAs /\ realAs' = realAs /\ aliasOf' = aliasOf
  BY RegistryUnchanged DEF PoolInv, registry
<1>2. \A x \in Turn : CliMoves(t, x)
  OBVIOUS
<1>3. ASSUME NEW u \in Turn
      PROVE  TurnInv(u)'
  <2>1. CASE u = t
    BY <2>1
  <2>2. CASE u # t
    <3>1. TurnInv(u) /\ turn'[u] = turn[u]
      BY <2>2 DEF PoolInv
    <3>2. turn[u].session \in Turn \cup {NoTurn}
      BY <1>1 DEF PoolTypes, PoolTurn
    <3>3. /\ turn[u].session # NoTurn => cli'[turn[u].session].made
          /\ turn[u].at = "opening" => ~cli'[u].made
      BY <1>2, <3>1, <3>2 DEF CliMoves, TurnInv
    <3>4. turn[u].at = "launching" =>
            cli'[turn[u].session].stopper = u /\ ~cli'[turn[u].session].closed
      BY <1>2, <2>2, <3>1, <3>2, SessionNames DEF CliMoves, TurnInv
    <3>5. turn[u].at = "removing" => poolLock' = u /\ Owner(u) \in closingSet'
      BY <1>1, <2>2, <3>1 DEF TurnInv
    <3>6. turn[u].at = "opening" =>
            pendingAs'[u] = NoTurn /\ realAs'[u] = NoTurn /\ aliasOf'[u] = NoId
      BY <1>1, <3>1 DEF TurnInv
    <3> QED
      BY <1>1, <3>1, <3>3, <3>4, <3>5, <3>6, TurnFrame
  <2> QED
    BY <2>1, <2>2
<1>4. ASSUME NEW s \in Turn
      PROVE  SessionInv(s)'
  <2>1. SessionInv(s) /\ CliMoves(t, s)
    BY SessionNames DEF PoolInv
  <2>2. Kept(s)' <=> Kept(s)
    BY <1>1 DEF Keeps
  <2>3. cli[s].made /\ ~cli[s].closed => Kept(s)
    BY <2>1 DEF SessionInv
  <2>4. Kept(s) =>
          \/ \E u \in Turn : turn'[u].session = s /\ turn'[u].at # "left"
          \/ s \in closingSet' /\ poolBudget'.failures > 0
    <3>1. CASE \E u \in Turn : turn[u].session = s /\ turn[u].at # "left"
      <4>1. PICK u \in Turn : turn[u].session = s /\ turn[u].at # "left"
        BY <3>1
      <4>2. CASE u = t
        BY <4>1, <4>2, SessionNames
      <4>3. CASE u # t
        BY <4>1, <4>3
      <4> QED
        BY <4>2, <4>3
    <3>2. CASE s \in closingSet /\ poolBudget.failures > 0
      <4>1. poolBudget.failures \in Nat /\ poolBudget'.failures \in Nat
        BY <1>1 DEF PoolTypes
      <4> QED
        BY <1>1, <3>2, <4>1
    <3> QED
      BY <2>1, <3>1, <3>2 DEF SessionInv
  <2>5. cli'[s].stopper # NoTurn =>
          \/ cli'[s].closed
          \/ /\ cli'[s].stopper \in Turn /\ turn'[cli'[s].stopper].at = "launching"
             /\ turn'[cli'[s].stopper].session = s
    <3>1. CASE cli'[s].stopper = cli[s].stopper /\ cli[s].stopper # NoTurn /\ ~cli[s].closed
      <4>1. PICK u \in Turn : u = cli[s].stopper /\ turn[u].at = "launching" /\ turn[u].session = s
        BY <2>1, <3>1 DEF SessionInv
      <4>2. u # t
        BY <3>1, <4>1
      <4> QED
        BY <3>1, <4>1, <4>2
    <3> QED
      BY <2>1, <3>1 DEF CliMoves
  <2> QED
    BY <2>1, <2>2, <2>3, <2>4, <2>5 DEF SessionInv, CliMoves
<1> QED
  BY <1>1, <1>3, <1>4, SessionNames DEF PoolInv

(* The types after such a step.                                            *)
LEMMA PlainTypes ==
  ASSUME PoolTypes, UNCHANGED registry, turn' \in [Turn -> PoolTurn],
         cli' \in [Session -> PoolSession], poolBudget' = poolBudget \/ Fails
  PROVE  /\ PoolTypes'
         /\ poolBudget'.failures >= poolBudget.failures
<1>1. poolBudget \in [stopAlls : Nat, failures : Nat]
  BY DEF PoolTypes
<1>2. poolBudget' \in [stopAlls : Nat, failures : Nat] /\ poolBudget'.failures >= poolBudget.failures
  BY <1>1 DEF Fails
<1> QED
  BY <1>2 DEF PoolTypes, registry

(* Such a step of a turn that keeps its session and its ids.               *)
LEMMA MoveStep ==
  ASSUME PoolInv, NEW t \in Turn, UNCHANGED registry, NEW stage,
         turn' \in [Turn -> PoolTurn], cli' \in [Session -> PoolSession],
         poolBudget' = poolBudget \/ Fails,
         \A u \in Turn \ {t} : turn'[u] = turn[u],
         turn'[t].at = stage,
         turn'[t].session = turn[t].session, turn'[t].temp = turn[t].temp,
         turn'[t].captured = turn[t].captured, turn'[t].reported = turn[t].reported,
         \/ stage \in {"leaving", "left", "cut"}
         \/ stage \in Onwards /\ turn[t].at \in {"ready"} \cup Onwards,
         turn[t].at \notin Gone,
         poolLock' = poolLock \/ poolLock = t,
         \A x \in Turn : CliMoves(t, x),
         stage = "left" => \A s \in Turn : turn[t].session = s => ~Kept(s),
         stage = "launching" =>
           cli'[turn[t].session].stopper = t /\ ~cli'[turn[t].session].closed,
         turn[t].at = "launching" => cli'[turn[t].session].stopper = NoTurn
  PROVE  PoolInv'
<1>1. /\ PoolTypes /\ MapInv /\ MapInv' /\ Keeps({}) /\ TurnInv(t)
  BY RegistryUnchanged DEF PoolInv
<1>2. PoolTypes' /\ poolBudget'.failures >= poolBudget.failures
  BY <1>1, PlainTypes
<1>3. turn[t].session \in Turn \cup {NoTurn}
  BY <1>1 DEF PoolTypes, PoolTurn
<1>4. turn[t].session # NoTurn => cli'[turn[t].session].made
  BY <1>1, <1>3 DEF CliMoves, TurnInv
<1>5. turn'[t].at # "opening" /\ turn'[t].at # "removing"
  BY DEF Onwards
<1>6. TurnInv(t)'
  BY <1>1, <1>4, <1>5, TurnFrame
<1> QED
  BY <1>2, <1>6, PlainStep

\* The stages a turn goes through without changing its session.
LEMMA TurnOnly ==
  ASSUME PoolInv, NEW t \in Turn,
         \/ OpensClosing(t) \/ CancelledEarly(t) \/ CancelledReading(t)
         \/ CancelledKilling(t) \/ CancelledLeaving(t) \/ LeavesNothing(t)
  PROVE  PoolInv'
<1>1. PoolTypes /\ MapInv /\ TurnInv(t)
  BY DEF PoolInv
<1>2. UNCHANGED <<cli, registry, poolLock, poolBudget>>
  BY DEF OpensClosing, CancelledEarly, CancelledReading, CancelledKilling, CancelledLeaving,
     LeavesNothing, CancelledAt
<1>3. cli' \in [Session -> PoolSession] /\ \A x \in Turn : CliMoves(t, x)
  BY <1>1, <1>2, CliStays DEF PoolTypes
<1>4. PICK stage \in {"leaving", "killing", "draining", "cut", "left"} :
        /\ turn' \in [Turn -> PoolTurn]
        /\ \A u \in Turn \ {t} : turn'[u] = turn[u]
        /\ turn'[t].at = stage
        /\ turn'[t].session = turn[t].session /\ turn'[t].temp = turn[t].temp
        /\ turn'[t].captured = turn[t].captured /\ turn'[t].reported = turn[t].reported
        /\ stage \in Onwards => turn[t].at \in {"ready"} \cup Onwards
        /\ turn[t].at \notin Gone /\ turn[t].at # "launching"
        /\ stage = "left" => LeavesNothing(t)
  <2>1. CASE OpensClosing(t)
    BY <1>1, <2>1, TurnGoes DEF OpensClosing, Onwards, Gone, PoolStage
  <2>2. CASE CancelledEarly(t)
    BY <1>1, <2>2, TurnIsCancelled DEF CancelledEarly, Onwards, Gone, PoolStage
  <2>3. CASE CancelledReading(t)
    BY <1>1, <2>3, TurnIsCancelled DEF CancelledReading, Onwards, Gone, PoolStage
  <2>4. CASE CancelledKilling(t)
    BY <1>1, <2>4, TurnIsCancelled DEF CancelledKilling, Onwards, Gone, PoolStage
  <2>5. CASE CancelledLeaving(t)
    BY <1>1, <2>5, TurnIsCancelled DEF CancelledLeaving, Onwards, Gone, PoolStage
  <2>6. CASE LeavesNothing(t)
    BY <1>1, <2>6, TurnGoes DEF LeavesNothing, Onwards, Gone, PoolStage
  <2> QED
    BY <2>1, <2>2, <2>3, <2>4, <2>5, <2>6
<1>5. ASSUME stage = "left", NEW s \in Turn, turn[t].session = s
      PROVE  ~Kept(s)
  <2>1. turn[t].at = "leaving" /\ (HasHandle(t) => Owner(t) = NoTurn)
    BY <1>4, <1>5 DEF LeavesNothing
  <2> QED
    BY <1>1, <1>5, <2>1, SessionNames DEF TurnInv, Gone
<1>6. stage # "launching" /\ (stage \in {"leaving", "left", "cut"} \/ stage \in Onwards)
  BY DEF Onwards
<1> QED
  BY <1>2, <1>3, <1>4, <1>5, <1>6, MoveStep

\* The end of start_task().
LEMMA GeneratorOver ==
  ASSUME PoolInv, NEW t \in Turn,
         Exits(t) \/ CancelledWaiting(t) \/ CancelledDraining(t) \/ Drains(t)
  PROVE  PoolInv'
<1>1. PoolTypes /\ MapInv /\ TurnInv(t)
  BY DEF PoolInv
<1>2. UNCHANGED <<registry, poolLock, poolBudget>> /\ GeneratorEnds(turn[t].session)
  BY DEF Exits, CancelledWaiting, CancelledDraining, Drains, CancelledAt
<1>3. /\ turn' \in [Turn -> PoolTurn]
      /\ \A u \in Turn \ {t} : turn'[u] = turn[u]
      /\ turn'[t].at = "leaving"
      /\ turn'[t].session = turn[t].session /\ turn'[t].temp = turn[t].temp
      /\ turn'[t].captured = turn[t].captured /\ turn'[t].reported = turn[t].reported
      /\ turn[t].at \in {"streaming", "draining"}
  <2>1. CASE Exits(t)
    BY <1>1, <2>1, TurnGoes DEF Exits, PoolStage
  <2>2. CASE CancelledWaiting(t)
    BY <1>1, <2>2, TurnIsCancelled DEF CancelledWaiting, PoolStage
  <2>3. CASE CancelledDraining(t)
    BY <1>1, <2>3, TurnIsCancelled DEF CancelledDraining, PoolStage
  <2>4. CASE Drains(t)
    BY <1>1, <2>4, TurnGoes DEF Drains, PoolStage
  <2> QED
    BY <2>1, <2>2, <2>3, <2>4
<1>4. PICK s \in Turn : s = turn[t].session
  BY <1>1, <1>3 DEF TurnInv, PoolTypes, PoolTurn
<1>5. /\ cli' \in [Session -> PoolSession]
      /\ \A x \in Turn \ {s} : cli'[x] = cli[x]
      /\ cli'[s].made = cli[s].made /\ cli'[s].closed = cli[s].closed
      /\ cli'[s].process = cli[s].process /\ cli'[s].stopper = cli[s].stopper
      /\ cli'[s].pid => cli[s].pid
      /\ cli'[s].process = "live" => (cli'[s].pid <=> cli[s].pid)
  BY <1>1, <1>2, <1>4, GeneratorStep
<1>6. \A x \in Turn : CliMoves(t, x)
  <2>1. CliMoves(t, s)
    <3>1. cli[s].process = "live" => cli[s].pid
      BY SessionNames DEF PoolInv, SessionInv
    <3> QED
      BY <1>5, <3>1 DEF CliMoves
  <2> QED
    BY <1>5, <2>1, CliStays
<1>7. turn[t].at # "launching" /\ turn[t].at \notin Gone
  BY <1>3 DEF Gone
<1> QED
  BY <1>2, <1>3, <1>5, <1>6, <1>7, MoveStep

\* A generator that is left at a yield.
LEMMA GeneratorDropped ==
  ASSUME PoolInv, NEW t \in Turn,
         CancelledOutside(t) \/ \E id \in SessionId : RegistrationFails(t, id)
  PROVE  PoolInv'
<1>1. PoolTypes /\ MapInv /\ TurnInv(t)
  BY DEF PoolInv
<1>2. /\ UNCHANGED <<registry, poolLock, poolBudget>>
      /\ cli' = [cli EXCEPT ![turn[t].session].dropped = TRUE]
  BY DEF CancelledOutside, RegistrationFails, CancelledAt
<1>3. /\ turn' \in [Turn -> PoolTurn]
      /\ \A u \in Turn \ {t} : turn'[u] = turn[u]
      /\ turn'[t].at = "leaving"
      /\ turn'[t].session = turn[t].session /\ turn'[t].temp = turn[t].temp
      /\ turn'[t].captured = turn[t].captured /\ turn'[t].reported = turn[t].reported
      /\ turn[t].at \in {"streaming", "recording"}
  <2>1. CASE CancelledOutside(t)
    BY <1>1, <2>1, TurnIsCancelled DEF CancelledOutside, PoolStage
  <2>2. CASE \E id \in SessionId : RegistrationFails(t, id)
    BY <1>1, <2>2, TurnGoes DEF RegistrationFails, PoolStage
  <2> QED
    BY <2>1, <2>2
<1>4. PICK s \in Turn : s = turn[t].session
  BY <1>1, <1>3 DEF TurnInv, PoolTypes, PoolTurn
<1>5. cli \in [Turn -> PoolSession] /\ cli[s] \in PoolSession
  BY <1>1, SessionNames DEF PoolTypes
<1>6. /\ cli'[s] = [cli[s] EXCEPT !.dropped = TRUE]
      /\ \A x \in Turn \ {s} : cli'[x] = cli[x]
  BY <1>2, <1>4, <1>5
<1>7. cli'[s] \in PoolSession
  BY <1>5, <1>6 DEF PoolSession
<1>8. cli' \in [Session -> PoolSession]
  BY <1>2, <1>4, <1>5, <1>6, <1>7, SessionNames
<1>9. \A x \in Turn : CliMoves(t, x)
  <2>1. CliMoves(t, s)
    <3>1. cli[s].process = "live" => cli[s].pid
      BY SessionNames DEF PoolInv, SessionInv
    <3> QED
      BY <1>5, <1>6, <3>1 DEF CliMoves, PoolSession
  <2> QED
    BY <1>6, <2>1, CliStays
<1>10. turn[t].at # "launching" /\ turn[t].at \notin Gone
  BY <1>3 DEF Gone
<1> QED
  BY <1>2, <1>3, <1>8, <1>9, <1>10, MoveStep

(* start_task() finds the session closed, or begins to launch.             *)
LEMMA TurnStarts ==
  ASSUME PoolInv, NEW t \in Turn, Starts(t)
  PROVE  PoolInv'
<1>1. PoolTypes /\ MapInv /\ TurnInv(t)
  BY DEF PoolInv
<1>2. /\ UNCHANGED <<registry, poolLock, poolBudget>> /\ turn[t].at = "ready"
      /\ cli[turn[t].session].stopper = NoTurn
  BY DEF Starts
<1>3. turn[t].at # "launching" /\ turn[t].at \notin Gone
  BY <1>2 DEF Gone
<1>4. PICK s \in Turn : s = turn[t].session
  BY <1>1, <1>2 DEF TurnInv, PoolTypes, PoolTurn
<1>5. cli \in [Turn -> PoolSession] /\ cli[s] \in PoolSession
  BY <1>1, SessionNames DEF PoolTypes
<1>6. CASE cli[s].closed
  <2>1. Goes(t, "leaving") /\ cli' = cli
    BY <1>4, <1>6 DEF Starts
  <2>2. cli' \in [Session -> PoolSession] /\ \A x \in Turn : CliMoves(t, x)
    BY <1>1, <2>1, CliStays DEF PoolTypes
  <2>3. "leaving" \in PoolStage
    BY DEF PoolStage
  <2> QED
    BY <1>1, <1>2, <1>3, <2>1, <2>2, <2>3, TurnGoes, MoveStep
<1>7. CASE ~cli[s].closed
  <2>1. Goes(t, "launching") /\ cli' = [cli EXCEPT ![s].driver = t, ![s].stopper = t]
    BY <1>4, <1>7 DEF Starts
  <2>2. /\ cli'[s] = [cli[s] EXCEPT !.driver = t, !.stopper = t]
        /\ \A x \in Turn \ {s} : cli'[x] = cli[x]
    BY <1>5, <2>1
  <2>3. cli'[s] \in PoolSession
    BY <1>5, <2>2 DEF PoolSession
  <2>4. cli' \in [Session -> PoolSession]
    BY <1>5, <2>1, <2>2, <2>3, SessionNames
  <2>5. "launching" \in PoolStage /\ "launching" \in Onwards
    BY DEF PoolStage, Onwards
  <2>6. /\ turn' \in [Turn -> PoolTurn]
        /\ \A u \in Turn \ {t} : turn'[u] = turn[u]
        /\ turn'[t].at = "launching"
        /\ turn'[t].session = turn[t].session /\ turn'[t].temp = turn[t].temp
        /\ turn'[t].captured = turn[t].captured /\ turn'[t].reported = turn[t].reported
    BY <1>1, <2>1, <2>5, TurnGoes
  <2>7. cli'[s].stopper = t /\ ~cli'[s].closed
    BY <1>5, <1>7, <2>2 DEF PoolSession
  <2>8. \A x \in Turn : CliMoves(t, x)
    <3>1. cli[s].process = "live" => cli[s].pid
      BY SessionNames DEF PoolInv, SessionInv
    <3>2. CliMoves(t, s)
      BY <1>2, <1>4, <1>5, <2>2, <2>6, <3>1 DEF CliMoves, PoolSession
    <3> QED
      BY <2>2, <3>2, CliStays
  <2> QED
    BY <1>2, <1>3, <1>4, <2>4, <2>5, <2>6, <2>7, <2>8, MoveStep
<1> QED
  BY <1>6, <1>7

(* The launch works, fails or is cancelled.                                *)
LEMMA TurnLaunches ==
  ASSUME PoolInv, NEW t \in Turn, Launches(t) \/ LaunchFails(t) \/ CancelledLaunch(t)
  PROVE  PoolInv'
<1>1. PoolTypes /\ MapInv /\ TurnInv(t)
  BY DEF PoolInv
<1>2. /\ UNCHANGED <<registry, poolLock>> /\ turn[t].at = "launching"
      /\ poolBudget' = poolBudget \/ Fails
  BY DEF Launches, LaunchFails, CancelledLaunch, CancelledAt, GivesUpLaunch
<1>3. turn[t].at \notin Gone /\ turn[t].at \in Onwards
  BY <1>2 DEF Gone, Onwards
<1>4. PICK s \in Turn : s = turn[t].session
  BY <1>1, <1>2 DEF TurnInv, PoolTypes, PoolTurn
<1>5. cli \in [Turn -> PoolSession] /\ cli[s] \in PoolSession
  BY <1>1, SessionNames DEF PoolTypes
<1>6. cli[s].stopper = t /\ ~cli[s].closed /\ cli[s].made
  BY <1>1, <1>2, <1>4, SessionNames DEF TurnInv
<1>7. cli[s].process = "live" => cli[s].pid
  BY SessionNames DEF PoolInv, SessionInv
<1>8. CASE Launches(t)
  <2>1. /\ Goes(t, "streaming")
        /\ cli' = [cli EXCEPT ![s].process = "live", ![s].pid = TRUE, ![s].stopper = NoTurn]
    BY <1>4, <1>8 DEF Launches
  <2>2. /\ cli'[s] = [cli[s] EXCEPT !.process = "live", !.pid = TRUE, !.stopper = NoTurn]
        /\ \A x \in Turn \ {s} : cli'[x] = cli[x]
    BY <1>5, <2>1
  <2>3. cli'[s] \in PoolSession
    BY <1>5, <2>2 DEF PoolSession
  <2>4. cli' \in [Session -> PoolSession]
    BY <1>5, <2>1, <2>2, <2>3, SessionNames
  <2>5. "streaming" \in PoolStage /\ "streaming" \in Onwards
    BY DEF PoolStage, Onwards
  <2>6. cli'[s].stopper = NoTurn
    BY <1>5, <2>2 DEF PoolSession
  <2>7. \A x \in Turn : CliMoves(t, x)
    <3>1. CliMoves(t, s)
      BY <1>5, <1>6, <2>2 DEF CliMoves, PoolSession
    <3> QED
      BY <2>2, <3>1, CliStays
  <2>8. /\ turn' \in [Turn -> PoolTurn]
        /\ \A u \in Turn \ {t} : turn'[u] = turn[u]
        /\ turn'[t].at = "streaming"
        /\ turn'[t].session = turn[t].session /\ turn'[t].temp = turn[t].temp
        /\ turn'[t].captured = turn[t].captured /\ turn'[t].reported = turn[t].reported
    BY <1>1, <2>1, <2>5, TurnGoes
  <2> QED
    BY <1>2, <1>3, <1>4, <2>4, <2>5, <2>6, <2>7, <2>8, MoveStep
<1>9. CASE LaunchFails(t) \/ CancelledLaunch(t)
  <2>1. cli' = [cli EXCEPT ![s].driver = NoTurn, ![s].stopper = NoTurn]
    BY <1>4, <1>9 DEF LaunchFails, CancelledLaunch, GivesUpLaunch
  <2>2. /\ cli'[s] = [cli[s] EXCEPT !.driver = NoTurn, !.stopper = NoTurn]
        /\ \A x \in Turn \ {s} : cli'[x] = cli[x]
    BY <1>5, <2>1
  <2>3. cli'[s] \in PoolSession
    BY <1>5, <2>2 DEF PoolSession
  <2>4. cli' \in [Session -> PoolSession]
    BY <1>5, <2>1, <2>2, <2>3, SessionNames
  <2>5. /\ turn' \in [Turn -> PoolTurn]
        /\ \A u \in Turn \ {t} : turn'[u] = turn[u]
        /\ turn'[t].at = "leaving"
        /\ turn'[t].session = turn[t].session /\ turn'[t].temp = turn[t].temp
        /\ turn'[t].captured = turn[t].captured /\ turn'[t].reported = turn[t].reported
    <3>1. "leaving" \in PoolStage
      BY DEF PoolStage
    <3> QED
      BY <1>1, <1>9, <3>1, TurnGoes, TurnIsCancelled DEF LaunchFails, CancelledLaunch
  <2>6. cli'[s].stopper = NoTurn
    BY <1>5, <2>2 DEF PoolSession
  <2>7. \A x \in Turn : CliMoves(t, x)
    <3>1. CliMoves(t, s)
      BY <1>5, <1>6, <1>7, <2>2 DEF CliMoves, PoolSession
    <3> QED
      BY <2>2, <3>1, CliStays
  <2> QED
    BY <1>2, <1>3, <1>4, <2>4, <2>5, <2>6, <2>7, MoveStep
<1> QED
  BY <1>8, <1>9

(* remove_session() is cancelled while it stops the session.               *)
LEMMA RemovalCancelled ==
  ASSUME PoolInv, NEW t \in Turn, CancelledRemoving(t)
  PROVE  PoolInv'
<1>1. PoolTypes /\ MapInv /\ TurnInv(t)
  BY DEF PoolInv
<1>2. /\ UNCHANGED <<registry, poolBudget>> /\ poolLock' = NoTurn
      /\ cli' = [s \in Turn |-> [cli[s] EXCEPT !.stopper = IF @ = t THEN NoTurn ELSE @]]
  BY SessionNames DEF CancelledRemoving, CancelledAt
<1>3. /\ turn' \in [Turn -> PoolTurn]
      /\ \A u \in Turn \ {t} : turn'[u] = turn[u]
      /\ turn'[t].at = "cut"
      /\ turn'[t].session = turn[t].session /\ turn'[t].temp = turn[t].temp
      /\ turn'[t].captured = turn[t].captured /\ turn'[t].reported = turn[t].reported
      /\ turn[t].at = "removing"
  BY <1>1, TurnIsCancelled DEF CancelledRemoving, PoolStage
<1>4. poolLock = t /\ turn[t].at # "launching" /\ turn[t].at \notin Gone
  BY <1>1, <1>3 DEF TurnInv, Gone
<1>5. ASSUME NEW x \in Turn
      PROVE  cli'[x] \in PoolSession /\ CliMoves(t, x)
  <2>1. cli[x] \in PoolSession
    BY <1>1, SessionNames DEF PoolTypes
  <2>2. cli[x].process = "live" => cli[x].pid
    BY SessionNames DEF PoolInv, SessionInv
  <2>3. CASE cli[x].stopper = t
    <3>1. cli'[x] = [cli[x] EXCEPT !.stopper = NoTurn]
      BY <1>2, <2>1, <2>3 DEF PoolSession
    <3> QED
      BY <2>1, <2>2, <2>3, <3>1 DEF CliMoves, PoolSession
  <2>4. CASE cli[x].stopper # t
    <3>1. cli'[x] = cli[x]
      BY <1>2, <2>1, <2>4 DEF PoolSession
    <3> QED
      BY <2>1, <3>1, CliStays
  <2> QED
    BY <2>3, <2>4
<1>6. cli' \in [Session -> PoolSession]
  BY <1>2, <1>5, SessionNames
<1>7. poolLock' = poolLock \/ poolLock = t
  BY <1>4
<1> HIDE <1>2
<1>8. UNCHANGED registry /\ poolBudget' = poolBudget
  BY <1>2
<1> QED
  BY <1>3, <1>4, <1>5, <1>6, <1>7, <1>8, MoveStep

(* The recorded id replaces the temporary one in the runner.               *)
LEMMA TurnRecorded ==
  ASSUME PoolInv, NEW t \in Turn, Recorded(t)
  PROVE  PoolInv'
<1>1. PoolTypes /\ MapInv /\ TurnInv(t)
  BY DEF PoolInv
<1>2. /\ UNCHANGED <<cli, registry, poolLock, poolBudget>> /\ turn[t].at = "recording"
      /\ turn \in [Turn -> PoolTurn]
      /\ turn' = [turn EXCEPT ![t].at = "streaming", ![t].temp = NoId,
                              ![t].captured = turn[t].reported]
  BY <1>1 DEF Recorded, PoolTypes
<1>3. turn[t] \in PoolTurn
  BY <1>2
<1>4. turn[t].reported \in SessionId /\ turn[t].session \in Turn /\ turn[t].reported \in Handle
  BY <1>1, <1>2, <1>3, SessionNames DEF TurnInv, PoolTurn
<1>5. /\ turn'[t] = [turn[t] EXCEPT !.at = "streaming", !.temp = NoId, !.captured = turn[t].reported]
      /\ \A u \in Turn \ {t} : turn'[u] = turn[u]
  BY <1>2
<1>6. turn'[t] \in PoolTurn
  BY <1>3, <1>4, <1>5 DEF PoolTurn, PoolStage
<1>7. turn' \in [Turn -> PoolTurn]
  BY <1>2, <1>3, <1>5, <1>6
<1>8. /\ turn'[t].at = "streaming" /\ turn'[t].temp = NoId /\ turn'[t].captured = turn[t].reported
      /\ turn'[t].session = turn[t].session /\ turn'[t].reported = turn[t].reported
  BY <1>3, <1>5 DEF PoolTurn
<1>9. cli' \in [Session -> PoolSession] /\ \A x \in Turn : CliMoves(t, x)
  BY <1>1, <1>2, CliStays DEF PoolTypes
<1>10. PoolTypes' /\ poolBudget'.failures >= poolBudget.failures
  BY <1>1, <1>2, <1>7, <1>9, PlainTypes
<1>11. UNCHANGED <<cli, pendingAs, realAs, aliasOf, tempOf>>
  BY <1>2 DEF registry
<1>12. HasHandle(t)' /\ Owner(t)' = SessionFor(turn[t].reported)
  BY <1>4, <1>8, <1>11, SessionNames DEF HasHandle, Owner, SessionFor, Lookup
<1>13. Kept(turn[t].session)' => Kept(turn[t].session)
  BY <1>8, <1>11 DEF Kept, NamedBy
<1>14. Kept(turn[t].session) => SessionFor(turn[t].reported) = turn[t].session
  BY <1>1, <1>2, <1>4, SessionNames DEF TurnInv
<1>15. cli'[turn'[t].session].made
  BY <1>1, <1>4, <1>8, <1>11, SessionNames DEF TurnInv
<1>16. TurnInv(t)'
  BY <1>4, <1>8, <1>12, <1>13, <1>14, <1>15, SessionNames DEF TurnInv
<1> QED
  BY <1>2, <1>5, <1>8, <1>9, <1>10, <1>16, PlainStep

(* A turn gets a session that another turn opened.                         *)
LEMMA TurnShares ==
  ASSUME PoolInv, NEW t \in Turn, OpensShared(t)
  PROVE  PoolInv'
<1>1. PoolTypes /\ MapInv /\ TurnInv(t)
  BY DEF PoolInv
<1>2. PICK h \in SessionId : h = ParentOf[t]
  BY SessionNames DEF OpensShared
<1>3. PICK s \in Turn : s = SessionFor(h)
  BY <1>1, <1>2, SessionIsNamed, SessionNames DEF OpensShared
<1>4. PICK g \in Handle : g = Lookup(h)
  BY <1>1, <1>2, SessionIsNamed, SessionNames
<1>5. SessionFor(g) = s /\ Kept(s)
  BY <1>1, <1>2, <1>3, <1>4, SessionIsNamed, FoundIsKept, SessionNames
<1>6. /\ UNCHANGED <<cli, registry, poolLock, poolBudget>> /\ turn[t].at = "opening"
      /\ turn \in [Turn -> PoolTurn]
      /\ turn' = [turn EXCEPT ![t].at = "ready", ![t].session = s, ![t].captured = g]
  BY <1>1, <1>2, <1>3, <1>4 DEF OpensShared, PoolTypes
<1>7. turn[t] \in PoolTurn /\ turn[t].session = NoTurn /\ turn[t].temp = NoId
  BY <1>1, <1>6 DEF TurnInv
<1>8. /\ turn'[t] = [turn[t] EXCEPT !.at = "ready", !.session = s, !.captured = g]
      /\ \A u \in Turn \ {t} : turn'[u] = turn[u]
  BY <1>6
<1>9. turn'[t] \in PoolTurn
  BY <1>7, <1>8 DEF PoolTurn, PoolStage
<1>10. turn' \in [Turn -> PoolTurn]
  BY <1>6, <1>7, <1>8, <1>9
<1>11. /\ turn'[t].at = "ready" /\ turn'[t].temp = NoId /\ turn'[t].captured = g
       /\ turn'[t].session = s
  BY <1>7, <1>8 DEF PoolTurn
<1>12. cli' \in [Session -> PoolSession] /\ \A x \in Turn : CliMoves(t, x)
  BY <1>1, <1>6, CliStays DEF PoolTypes
<1>13. PoolTypes' /\ poolBudget'.failures >= poolBudget.failures
  BY <1>1, <1>6, <1>10, <1>12, PlainTypes
<1>14. UNCHANGED <<cli, pendingAs, realAs, aliasOf, tempOf>>
  BY <1>6 DEF registry
<1>15. HasHandle(t)' /\ Owner(t)' = s
  BY <1>5, <1>11, <1>14, SessionNames DEF HasHandle, Owner, SessionFor, Lookup
<1>16. cli'[s].made
  BY <1>5, <1>14, SessionNames DEF PoolInv, SessionInv
<1>17. TurnInv(t)'
  BY <1>11, <1>15, <1>16, SessionNames DEF TurnInv
<1> QED
  BY <1>6, <1>7, <1>8, <1>11, <1>12, <1>13, <1>17, PlainStep

(* A turn opens a session of its own.                                      *)
LEMMA TurnOpens ==
  ASSUME PoolInv, NEW t \in Turn, OpensNew(t)
  PROVE  PoolInv'
<1>1. PoolTypes /\ MapInv /\ TurnInv(t) /\ SessionInv(t)
  BY SessionNames DEF PoolInv
<1>2. PICK temp \in SessionId \cup {t} : temp = IF ParentOf[t] = NoId THEN t ELSE ParentOf[t]
  BY SessionNames
<1>3. /\ turn[t].at = "opening" /\ poolLock = NoTurn
      /\ turn' = [turn EXCEPT ![t].at = "ready", ![t].session = t, ![t].temp = temp]
      /\ cli' = [cli EXCEPT ![t].made = TRUE]
      /\ pendingAs' = [pendingAs EXCEPT ![temp] = t]
      /\ UNCHANGED <<realAs, aliasOf, tempOf, closingSet, poolLock, poolBudget>>
  BY <1>2 DEF OpensNew
<1>4. /\ turn[t].session = NoTurn /\ turn[t].temp = NoId /\ turn[t].captured = NoId
      /\ ~cli[t].made /\ pendingAs[t] = NoTurn /\ realAs[t] = NoTurn /\ aliasOf[t] = NoId
  BY <1>1, <1>3 DEF TurnInv
<1>5. ~Kept(t)
  BY <1>1, <1>4 DEF SessionInv
<1>6. temp \in Handle /\ temp # NoId /\ SessionFor(temp) = NoTurn
  <2>1. CASE ParentOf[t] = NoId
    BY <1>2, <1>4, <2>1, SessionNames DEF SessionFor, Lookup
  <2>2. CASE ParentOf[t] # NoId
    BY <1>2, <2>2, SessionNames DEF OpensNew
  <2> QED
    BY <2>1, <2>2
<1>7. MapInv'
  BY <1>1, <1>3, <1>5, <1>6, MapNew
<1>8. Keeps({t}) /\ SessionFor(temp)' = t /\ Kept(t)'
  BY <1>1, <1>3, <1>5, <1>6, <1>7, NamesNew
<1>9. /\ turn \in [Turn -> PoolTurn] /\ turn[t] \in PoolTurn
      /\ cli \in [Turn -> PoolSession] /\ cli[t] \in PoolSession
  BY <1>1, SessionNames DEF PoolTypes
<1>10. /\ turn'[t] = [turn[t] EXCEPT !.at = "ready", !.session = t, !.temp = temp]
       /\ \A u \in Turn \ {t} : turn'[u] = turn[u]
       /\ cli'[t] = [cli[t] EXCEPT !.made = TRUE]
       /\ \A x \in Turn \ {t} : cli'[x] = cli[x]
  BY <1>3, <1>9
<1>11. turn'[t] \in PoolTurn /\ cli'[t] \in PoolSession
  <2>1. turn'[t] \in PoolTurn
    BY <1>6, <1>9, <1>10 DEF PoolTurn, PoolStage
  <2>2. cli'[t] \in PoolSession
    BY <1>9, <1>10 DEF PoolSession
  <2> QED
    BY <2>1, <2>2
<1>12. turn' \in [Turn -> PoolTurn] /\ cli' \in [Session -> PoolSession]
  <2>1. turn' \in [Turn -> PoolTurn]
    BY <1>3, <1>9, <1>10, <1>11
  <2>2. cli' \in [Session -> PoolSession]
    BY <1>3, <1>9, <1>10, <1>11, SessionNames
  <2> QED
    BY <2>1, <2>2
<1>13. PoolTypes'
  <2>1. pendingAs' \in [Handle -> Turn \cup {NoTurn}]
    BY <1>1, <1>3, <1>6 DEF PoolTypes
  <2> QED
    BY <1>1, <1>3, <1>12, <2>1 DEF PoolTypes
<1>14. /\ turn'[t].at = "ready" /\ turn'[t].session = t /\ turn'[t].temp = temp
       /\ turn'[t].captured = NoId
       /\ cli'[t].made /\ (cli'[t].closed <=> cli[t].closed) /\ (cli'[t].pid <=> cli[t].pid)
       /\ cli'[t].process = cli[t].process /\ cli'[t].stopper = cli[t].stopper
  <2>1. /\ turn'[t].at = "ready" /\ turn'[t].session = t
        /\ turn'[t].temp = temp /\ turn'[t].captured = NoId
    BY <1>4, <1>9, <1>10 DEF PoolTurn
  <2>2. /\ cli'[t].made /\ (cli'[t].closed <=> cli[t].closed) /\ (cli'[t].pid <=> cli[t].pid)
        /\ cli'[t].process = cli[t].process /\ cli'[t].stopper = cli[t].stopper
    BY <1>9, <1>10 DEF PoolSession
  <2> QED
    BY <2>1, <2>2
<1>15. HasHandle(t)' /\ Owner(t)' = t
  <2>1. Owner(t)' = SessionFor(temp)'
    BY <1>14 DEF Owner, SessionFor, Lookup
  <2> QED
    BY <1>6, <1>8, <1>14, <2>1 DEF HasHandle
<1>16. TurnInv(t)'
  BY <1>6, <1>14, <1>15, SessionNames DEF TurnInv
<1>17. \A u \in Turn \ {t} : turn[u].session # t
  BY <1>4, SessionNames DEF PoolInv, TurnInv
<1>18. ASSUME NEW u \in Turn \ {t}
       PROVE  TurnInv(u)'
  <2>1. TurnInv(u) /\ turn'[u] = turn[u] /\ cli'[u] = cli[u]
    BY <1>10 DEF PoolInv
  <2>2. turn[u].session \in Turn \cup {NoTurn}
    BY <1>1 DEF PoolTypes, PoolTurn
  <2>3. /\ turn[u].session # NoTurn => cli'[turn[u].session].made
        /\ turn[u].at = "opening" => ~cli'[u].made
    BY <1>10, <1>17, <2>1, <2>2 DEF TurnInv
  <2>4. turn[u].at = "launching" =>
          cli'[turn[u].session].stopper = u /\ ~cli'[turn[u].session].closed
    BY <1>10, <1>17, <2>1, <2>2 DEF TurnInv
  <2>5. turn[u].at # "removing"
    BY <1>3, <2>1, SessionNames DEF TurnInv
  <2>6. turn[u].at = "opening" =>
          pendingAs'[u] = NoTurn /\ realAs'[u] = NoTurn /\ aliasOf'[u] = NoId
    <3>1. u # temp /\ u \in Handle
      BY SessionNames
    <3>2. pendingAs'[u] = pendingAs[u]
      BY <1>1, <1>3, <3>1 DEF PoolTypes
    <3> QED
      BY <1>3, <2>1, <3>2 DEF TurnInv
  <2> QED
    BY <1>1, <1>7, <1>8, <1>17, <2>1, <2>3, <2>4, <2>5, <2>6, TurnFrame
<1>19. SessionInv(t)'
  <2>1. cli[t].process = "live" => cli[t].pid
    BY <1>1 DEF SessionInv
  <2>2. cli[t].stopper # NoTurn =>
          \/ cli[t].closed
          \/ cli[t].stopper \in Turn /\ turn[cli[t].stopper].at = "launching"
             /\ turn[cli[t].stopper].session = t
    BY <1>1 DEF SessionInv
  <2>3. cli'[t].stopper # NoTurn => cli'[t].closed
    BY <1>4, <1>14, <1>17, <2>2, SessionNames
  <2> QED
    BY <1>8, <1>14, <2>1, <2>3 DEF SessionInv
<1>20. ASSUME NEW s \in Turn \ {t}
       PROVE  SessionInv(s)'
  <2>1. SessionInv(s) /\ cli'[s] = cli[s] /\ (Kept(s)' <=> Kept(s))
    BY <1>8, <1>10, SessionNames DEF PoolInv, Keeps
  <2>2. \A u \in Turn : turn[u].session = s =>
          turn'[u].session = s /\ turn'[u].at = turn[u].at
    BY <1>4, <1>10, SessionNames
  <2>3. closingSet' = closingSet /\ poolBudget' = poolBudget
    BY <1>3
  <2>4. Kept(s)' => /\ cli'[s].made
                    /\ \/ \E u \in Turn : turn'[u].session = s /\ turn'[u].at # "left"
                       \/ s \in closingSet' /\ poolBudget'.failures > 0
    BY <2>1, <2>2, <2>3 DEF SessionInv
  <2>5. cli'[s].stopper # NoTurn =>
          \/ cli'[s].closed
          \/ cli'[s].stopper \in Turn /\ turn'[cli'[s].stopper].at = "launching"
             /\ turn'[cli'[s].stopper].session = s
    BY <2>1, <2>2 DEF SessionInv
  <2> QED
    BY <2>1, <2>4, <2>5 DEF SessionInv
<1> QED
  BY <1>7, <1>13, <1>16, <1>18, <1>19, <1>20, SessionNames DEF PoolInv

(* The first session_info of a new session is registered.                  *)
LEMMA TurnRegisters ==
  ASSUME PoolInv, NEW t \in Turn, NEW id \in SessionId, Registers(t, id)
  PROVE  PoolInv'
<1>1. PoolTypes /\ MapInv /\ TurnInv(t)
  BY DEF PoolInv
<1>2. PICK temp \in Handle : temp = turn[t].temp
  BY <1>1 DEF Registers, PoolTypes, PoolTurn
<1>3. PICK s \in Turn : s = pendingAs[temp]
  BY <1>1, <1>2 DEF Registers, PoolTypes
<1>4. /\ turn[t].at = "streaming" /\ poolLock = NoTurn /\ temp # NoId
      /\ s \notin closingSet /\ SessionFor(id) \in {NoTurn, s}
      /\ pendingAs' = [pendingAs EXCEPT ![temp] = NoTurn]
      /\ realAs' = [realAs EXCEPT ![id] = s]
      /\ aliasOf' = [aliasOf EXCEPT ![temp] = id]
      /\ tempOf' = [tempOf EXCEPT ![id] = temp]
      /\ turn' = [turn EXCEPT ![t].at = "recording", ![t].reported = id]
      /\ UNCHANGED <<cli, closingSet, poolLock, poolBudget>>
      /\ id \in Handle
  BY <1>2, <1>3, SessionNames DEF Registers
<1>5. temp \in SessionId \cup {t} /\ turn[t].captured = NoId /\ turn[t].session # NoTurn
  BY <1>1, <1>2, <1>4 DEF TurnInv
<1>6. MapInv' /\ Keeps({}) /\ SessionFor(id)' = s
  BY <1>1, <1>3, <1>4, Renames
<1>7. turn \in [Turn -> PoolTurn] /\ turn[t] \in PoolTurn
  BY <1>1 DEF PoolTypes
<1>8. /\ turn'[t] = [turn[t] EXCEPT !.at = "recording", !.reported = id]
      /\ \A u \in Turn \ {t} : turn'[u] = turn[u]
  BY <1>4, <1>7
<1>9. turn'[t] \in PoolTurn
  BY <1>7, <1>8 DEF PoolTurn, PoolStage
<1>10. turn' \in [Turn -> PoolTurn]
  BY <1>4, <1>7, <1>8, <1>9
<1>11. PoolTypes'
  <2>1. /\ pendingAs' \in [Handle -> Turn \cup {NoTurn}] /\ realAs' \in [Handle -> Turn \cup {NoTurn}]
        /\ aliasOf' \in [Handle -> Handle \cup {NoId}] /\ tempOf' \in [Handle -> Handle \cup {NoId}]
    BY <1>1, <1>4 DEF PoolTypes
  <2> QED
    BY <1>1, <1>4, <1>10, <2>1 DEF PoolTypes
<1>12. /\ turn'[t].at = "recording" /\ turn'[t].temp = temp /\ turn'[t].captured = NoId
       /\ turn'[t].session = turn[t].session /\ turn'[t].reported = id
  BY <1>2, <1>5, <1>7, <1>8 DEF PoolTurn
<1>13. PICK mine \in Turn : mine = turn[t].session
  BY <1>5, <1>7 DEF PoolTurn
<1>14. HasHandle(t)' /\ Owner(t)' = SessionFor(temp)'
  <2>1. HasHandle(t)'
    BY <1>4, <1>12 DEF HasHandle
  <2>2. Owner(t)' = SessionFor(temp)'
    BY <1>12 DEF Owner, SessionFor, Lookup
  <2> QED
    BY <2>1, <2>2
<1>15. Owner(t) = SessionFor(temp)
  BY <1>2, <1>5 DEF Owner
<1>16. SessionFor(temp) = s
  <2>1. realAs[temp] = NoTurn /\ aliasOf[temp] = NoId
    BY <1>1, <1>3, SessionNames DEF MapInv
  <2> QED
    BY <1>3, <2>1 DEF SessionFor, Lookup
<1>17. Kept(mine)' => mine = s /\ Owner(t)' = mine
  <2>1. Kept(mine)' => Kept(mine)
    BY <1>6 DEF Keeps
  <2>2. Kept(mine) => Owner(t) = mine
    BY <1>1, <1>4, <1>13, SessionNames DEF TurnInv, Gone
  <2>3. SessionFor(temp)' = s
    BY <1>6, <1>16, SessionNames DEF Keeps
  <2> QED
    BY <1>14, <1>15, <1>16, <2>1, <2>2, <2>3
<1>18. /\ Kept(turn[t].session)' <=> Kept(mine)'
       /\ SessionFor(turn[t].reported)' = SessionFor(id)'
  BY <1>12, <1>13 DEF Kept, NamedBy, SessionFor, Lookup
<1>19. cli'[mine].made
  BY <1>1, <1>4, <1>13, SessionNames DEF TurnInv
<1>20. TurnInv(t)'
  BY <1>4, <1>5, <1>6, <1>12, <1>13, <1>14, <1>17, <1>18, <1>19, SessionNames DEF TurnInv
<1>21. ASSUME NEW u \in Turn \ {t}
       PROVE  TurnInv(u)'
  <2>1. TurnInv(u) /\ turn'[u] = turn[u] /\ cli' = cli
    BY <1>4, <1>8 DEF PoolInv
  <2>2. /\ turn[u].session # NoTurn => cli'[turn[u].session].made
        /\ turn[u].at = "opening" => ~cli'[u].made
        /\ turn[u].at = "launching" =>
             cli'[turn[u].session].stopper = u /\ ~cli'[turn[u].session].closed
    BY <2>1 DEF TurnInv
  <2>3. turn[u].at # "removing"
    BY <1>4, <2>1, SessionNames DEF TurnInv
  <2>4. turn[u].at = "opening" =>
          pendingAs'[u] = NoTurn /\ realAs'[u] = NoTurn /\ aliasOf'[u] = NoId
    <3>1. u # temp /\ u # id /\ u \in Handle
      BY <1>5, SessionNames
    <3>2. pendingAs'[u] = pendingAs[u] /\ realAs'[u] = realAs[u] /\ aliasOf'[u] = aliasOf[u]
      BY <1>1, <1>4, <3>1 DEF PoolTypes
    <3> QED
      BY <2>1, <3>2 DEF TurnInv
  <2> QED
    BY <1>1, <1>6, <2>1, <2>2, <2>3, <2>4, TurnFrame
<1>22. ASSUME NEW x \in Turn
       PROVE  SessionInv(x)'
  <2>1. SessionInv(x) /\ cli'[x] = cli[x] /\ (Kept(x)' <=> Kept(x))
    BY <1>4, <1>6, SessionNames DEF PoolInv, Keeps
  <2>2. \A u \in Turn : /\ turn'[u].session = turn[u].session
                        /\ turn[u].at # "left" => turn'[u].at # "left"
                        /\ turn[u].at = "launching" => turn'[u].at = "launching"
    BY <1>4, <1>8, <1>12
  <2>3. closingSet' = closingSet /\ poolBudget' = poolBudget
    BY <1>4
  <2>4. Kept(x)' => /\ cli'[x].made
                    /\ \/ \E u \in Turn : turn'[u].session = x /\ turn'[u].at # "left"
                       \/ x \in closingSet' /\ poolBudget'.failures > 0
    BY <2>1, <2>2, <2>3 DEF SessionInv
  <2>5. cli'[x].stopper # NoTurn =>
          \/ cli'[x].closed
          \/ cli'[x].stopper \in Turn /\ turn'[cli'[x].stopper].at = "launching"
             /\ turn'[cli'[x].stopper].session = x
    BY <2>1, <2>2 DEF SessionInv
  <2> QED
    BY <2>1, <2>4, <2>5 DEF SessionInv
<1> QED
  BY <1>6, <1>11, <1>20, <1>21, <1>22, SessionNames DEF PoolInv

\* A step no turn takes part in.
LEMMA QuietStep ==
  ASSUME PoolInv, PoolTypes', UNCHANGED <<turn, pendingAs, realAs, aliasOf, tempOf>>,
         closingSet' \in SUBSET {s \in Turn : Kept(s)}, closingSet \subseteq closingSet',
         poolBudget'.failures >= poolBudget.failures,
         poolLock' = poolLock \/ poolLock \in {NoTurn, StopAll},
         \A x \in Turn :
           /\ cli'[x].made <=> cli[x].made
           /\ cli'[x].pid => cli[x].pid
           /\ cli'[x].process = "live" => cli'[x].pid /\ cli[x].process = "live"
           /\ \/ cli'[x].stopper = cli[x].stopper /\ (cli'[x].closed <=> cli[x].closed)
              \/ cli[x].stopper = NoTurn /\ cli'[x].closed
  PROVE  PoolInv'
<1> DEFINE Quiet(x) ==
           /\ cli'[x].made <=> cli[x].made
           /\ cli'[x].pid => cli[x].pid
           /\ cli'[x].process = "live" => cli'[x].pid /\ cli[x].process = "live"
           /\ \/ cli'[x].stopper = cli[x].stopper /\ (cli'[x].closed <=> cli[x].closed)
              \/ cli[x].stopper = NoTurn /\ cli'[x].closed
<1>1. \A x \in Turn : Quiet(x)
  OBVIOUS
<1>2. PoolTypes /\ MapInv
  BY DEF PoolInv
<1>3. MapInv' /\ Keeps({})
  BY <1>2, RegistryCloses
<1> HIDE DEF Quiet
<1>4. ASSUME NEW u \in Turn
      PROVE  TurnInv(u)'
  <2>1. TurnInv(u) /\ turn'[u] = turn[u]
    BY DEF PoolInv
  <2>2. turn[u].session \in Turn \cup {NoTurn}
    BY <1>2 DEF PoolTypes, PoolTurn
  <2>3. /\ turn[u].session # NoTurn => cli'[turn[u].session].made
        /\ turn[u].at = "opening" => ~cli'[u].made
    BY <1>1, <2>1, <2>2 DEF Quiet, TurnInv
  <2>4. ASSUME turn[u].at = "launching"
        PROVE  cli'[turn[u].session].stopper = u /\ ~cli'[turn[u].session].closed
    <3>1. turn[u].session \in Turn /\ cli[turn[u].session].stopper = u /\ ~cli[turn[u].session].closed
      BY <2>1, <2>2, <2>4 DEF TurnInv
    <3> QED
      BY <1>1, <3>1, SessionNames DEF Quiet
  <2>5. turn[u].at = "removing" => poolLock' = u /\ Owner(u) \in closingSet'
    BY <2>1, SessionNames DEF TurnInv
  <2>6. turn[u].at = "opening" =>
          pendingAs'[u] = NoTurn /\ realAs'[u] = NoTurn /\ aliasOf'[u] = NoId
    BY <2>1 DEF TurnInv
  <2> QED
    BY <1>2, <1>3, <2>1, <2>3, <2>4, <2>5, <2>6, TurnFrame
<1>5. ASSUME NEW x \in Turn
      PROVE  SessionInv(x)'
  <2>1. SessionInv(x) /\ Quiet(x) /\ (Kept(x)' <=> Kept(x))
    BY <1>1, <1>3, SessionNames DEF PoolInv, Keeps
  <2>2. x \in closingSet /\ poolBudget.failures > 0 => x \in closingSet' /\ poolBudget'.failures > 0
    <3>1. poolBudget.failures \in Nat /\ poolBudget'.failures \in Nat
      BY <1>2 DEF PoolTypes
    <3> QED
      BY <3>1
  <2>3. Kept(x)' => /\ cli'[x].made
                    /\ \/ \E u \in Turn : turn'[u].session = x /\ turn'[u].at # "left"
                       \/ x \in closingSet' /\ poolBudget'.failures > 0
    BY <2>1, <2>2 DEF SessionInv, Quiet
  <2>4. cli'[x].stopper # NoTurn =>
          \/ cli'[x].closed
          \/ cli'[x].stopper \in Turn /\ turn'[cli'[x].stopper].at = "launching"
             /\ turn'[cli'[x].stopper].session = x
    BY <2>1 DEF SessionInv, Quiet
  <2>5. cli'[x].made /\ ~Kept(x)' => cli'[x].closed /\ ~cli'[x].pid
    BY <2>1 DEF SessionInv, Quiet
  <2>6. cli'[x].process = "live" => cli'[x].pid /\ Kept(x)'
    BY <2>1 DEF SessionInv, Quiet
  <2> QED
    BY <2>3, <2>4, <2>5, <2>6 DEF SessionInv
<1> QED
  BY <1>3, <1>4, <1>5, SessionNames DEF PoolInv

(* A session that does not change meets what QuietStep asks.               *)
LEMMA SessionQuiet ==
  ASSUME PoolInv, NEW x \in Turn, cli'[x] = cli[x]
  PROVE  /\ cli'[x].made <=> cli[x].made
         /\ cli'[x].pid => cli[x].pid
         /\ cli'[x].process = "live" => cli'[x].pid /\ cli[x].process = "live"
         /\ \/ cli'[x].stopper = cli[x].stopper /\ (cli'[x].closed <=> cli[x].closed)
            \/ cli[x].stopper = NoTurn /\ cli'[x].closed
BY SessionNames DEF PoolInv, SessionInv

(* A session that is closing is still kept.                                *)
LEMMA ClosingKept ==
  ASSUME PoolInv
  PROVE  closingSet \in SUBSET {s \in Turn : Kept(s)}
BY SessionNames DEF PoolInv, PoolTypes, MapInv

(* The process ends, a generator closes, or stop() begins.                 *)
LEMMA SessionStep ==
  ASSUME PoolInv, NEW s \in Turn,
         \/ ProcessEnds(s) \/ GeneratorCloses(s)
         \/ \E o \in Turn \cup {StopAll, Shield(s)} : StopBegins(o, s)
  PROVE  PoolInv'
<1>1. PoolTypes /\ SessionInv(s)
  BY SessionNames DEF PoolInv
<1>2. UNCHANGED <<turn, pendingAs, realAs, aliasOf, tempOf, closingSet, poolLock, poolBudget>>
  BY DEF ProcessEnds, GeneratorCloses, StopBegins, registry
<1>3. cli \in [Turn -> PoolSession] /\ cli[s] \in PoolSession
  BY <1>1, SessionNames DEF PoolTypes
<1>4. cli[s].process = "live" => cli[s].pid
  BY <1>1 DEF SessionInv
<1>5. /\ cli' \in [Session -> PoolSession]
      /\ \A x \in Turn \ {s} : cli'[x] = cli[x]
      /\ cli'[s].made <=> cli[s].made
      /\ cli'[s].pid => cli[s].pid
      /\ cli'[s].process = "live" => cli'[s].pid /\ cli[s].process = "live"
      /\ \/ cli'[s].stopper = cli[s].stopper /\ (cli'[s].closed <=> cli[s].closed)
         \/ cli[s].stopper = NoTurn /\ cli'[s].closed
  <2>1. CASE ProcessEnds(s)
    <3>1. cli' = [cli EXCEPT ![s].process = "dead"]
      BY <2>1 DEF ProcessEnds
    <3>2. cli'[s] = [cli[s] EXCEPT !.process = "dead"] /\ \A x \in Turn \ {s} : cli'[x] = cli[x]
      BY <1>3, <3>1
    <3>3. cli'[s] \in PoolSession
      BY <1>3, <3>2 DEF PoolSession
    <3>4. cli' \in [Session -> PoolSession]
      BY <1>3, <3>1, <3>2, <3>3, SessionNames
    <3> QED
      BY <1>3, <3>2, <3>4 DEF PoolSession
  <2>2. CASE GeneratorCloses(s)
    <3>1. GeneratorEnds(s)
      BY <2>2 DEF GeneratorCloses
    <3> QED
      BY <1>1, <1>4, <3>1, GeneratorStep
  <2>3. CASE \E o \in Turn \cup {StopAll, Shield(s)} : StopBegins(o, s)
    <3>1. PICK o \in Turn \cup {StopAll, Shield(s)} : StopBegins(o, s)
      BY <2>3
    <3>2. cli[s].stopper = NoTurn /\ cli' = [cli EXCEPT ![s].stopper = o, ![s].closed = TRUE]
      BY <3>1 DEF StopBegins
    <3>3. /\ cli'[s] = [cli[s] EXCEPT !.stopper = o, !.closed = TRUE]
          /\ \A x \in Turn \ {s} : cli'[x] = cli[x]
      BY <1>3, <3>2
    <3>4. o \in Turn \cup {NoTurn, StopAll} \cup {Shield(x) : x \in Session}
      BY SessionNames
    <3>5. cli'[s] \in PoolSession
      BY <1>3, <3>3, <3>4 DEF PoolSession
    <3>6. cli' \in [Session -> PoolSession]
      BY <1>3, <3>2, <3>3, <3>5, SessionNames
    <3>7. cli'[s].closed /\ (cli'[s].made <=> cli[s].made) /\ (cli'[s].pid <=> cli[s].pid)
          /\ cli'[s].process = cli[s].process
      BY <1>3, <3>3 DEF PoolSession
    <3> QED
      BY <1>4, <3>2, <3>3, <3>6, <3>7
  <2> QED
    BY <2>1, <2>2, <2>3
<1>6. PoolTypes'
  BY <1>1, <1>2, <1>5 DEF PoolTypes
<1>7. poolBudget'.failures >= poolBudget.failures
  BY <1>1, <1>2 DEF PoolTypes
<1>8. closingSet' \in SUBSET {x \in Turn : Kept(x)} /\ closingSet \subseteq closingSet'
  BY <1>2, ClosingKept
<1>9. \A x \in Turn \ {s} :
        /\ cli'[x].made <=> cli[x].made
        /\ cli'[x].pid => cli[x].pid
        /\ cli'[x].process = "live" => cli'[x].pid /\ cli[x].process = "live"
        /\ \/ cli'[x].stopper = cli[x].stopper /\ (cli'[x].closed <=> cli[x].closed)
           \/ cli[x].stopper = NoTurn /\ cli'[x].closed
  BY <1>5, SessionQuiet
<1> QED
  BY <1>2, <1>5, <1>6, <1>7, <1>8, <1>9, QuietStep

(* stop_all() begins or ends, or nothing happens.                          *)
LEMMA StopAllStep ==
  ASSUME PoolInv, StopAllBegins \/ StopAllEnds \/ UNCHANGED poolVars
  PROVE  PoolInv'
<1>1. PoolTypes /\ MapInv
  BY DEF PoolInv
<1>2. UNCHANGED <<turn, cli, pendingAs, realAs, aliasOf, tempOf>>
  BY DEF StopAllBegins, StopAllEnds, registry, poolVars
<1>3. poolLock' = poolLock \/ poolLock \in {NoTurn, StopAll}
  BY DEF StopAllBegins, StopAllEnds, poolVars
<1>4. closingSet' \in SUBSET {s \in Turn : Kept(s)} /\ closingSet \subseteq closingSet'
  <2>1. CASE StopAllBegins
    BY <1>1, <2>1, KnownIsKept, ClosingKept DEF StopAllBegins
  <2>2. CASE StopAllEnds \/ UNCHANGED poolVars
    BY <2>2, ClosingKept DEF StopAllEnds, poolVars, registry
  <2> QED
    BY <2>1, <2>2
<1>5. /\ poolBudget' \in [stopAlls : Nat, failures : Nat]
      /\ poolBudget'.failures >= poolBudget.failures
  <2>1. poolBudget \in [stopAlls : Nat, failures : Nat]
    BY <1>1 DEF PoolTypes
  <2> QED
    BY <2>1 DEF StopAllBegins, StopAllEnds, poolVars
<1>6. PoolTypes'
  BY <1>1, <1>2, <1>4, <1>5, SessionNames DEF PoolTypes
<1>7. \A x \in Turn :
        /\ cli'[x].made <=> cli[x].made
        /\ cli'[x].pid => cli[x].pid
        /\ cli'[x].process = "live" => cli'[x].pid /\ cli[x].process = "live"
        /\ \/ cli'[x].stopper = cli[x].stopper /\ (cli'[x].closed <=> cli[x].closed)
           \/ cli[x].stopper = NoTurn /\ cli'[x].closed
  BY <1>2, SessionQuiet
<1> QED
  BY <1>2, <1>3, <1>4, <1>5, <1>6, <1>7, QuietStep

(* remove_session() marks the session as closing.                          *)
LEMMA RemovalBegins ==
  ASSUME PoolInv, NEW t \in Turn, Removes(t)
  PROVE  PoolInv'
<1>1. PoolTypes /\ MapInv /\ TurnInv(t)
  BY DEF PoolInv
<1>2. /\ turn[t].at = "leaving" /\ HasHandle(t) /\ poolLock = NoTurn /\ Owner(t) # NoTurn
      /\ poolLock' = t /\ Goes(t, "removing") /\ closingSet' = closingSet \cup {Owner(t)}
      /\ UNCHANGED <<cli, pendingAs, realAs, aliasOf, tempOf, poolBudget>>
  BY DEF Removes
<1>3. PICK own \in Handle : own = IF turn[t].captured # NoId THEN turn[t].captured ELSE turn[t].temp
  BY <1>1, <1>2 DEF HasHandle, PoolTypes, PoolTurn
<1>4. Owner(t) = SessionFor(own)
  BY <1>3 DEF Owner
<1>5. Owner(t) \in Turn /\ Kept(Owner(t))
  BY <1>1, <1>2, <1>4, FoundIsKept
<1>6. closingSet' \in SUBSET {s \in Turn : Kept(s)}
  BY <1>2, <1>5, ClosingKept
<1>7. MapInv' /\ Keeps({})
  BY <1>1, <1>2, <1>6, RegistryCloses
<1>8. /\ turn' \in [Turn -> PoolTurn]
      /\ \A u \in Turn \ {t} : turn'[u] = turn[u]
      /\ turn'[t].at = "removing"
      /\ turn'[t].session = turn[t].session /\ turn'[t].temp = turn[t].temp
      /\ turn'[t].captured = turn[t].captured /\ turn'[t].reported = turn[t].reported
  BY <1>1, <1>2, TurnGoes DEF PoolStage
<1>9. PoolTypes'
  BY <1>1, <1>2, <1>6, <1>8, SessionNames DEF PoolTypes
<1>10. HasHandle(t)' /\ Owner(t)' = Owner(t)
  BY <1>2, <1>8 DEF HasHandle, Owner, SessionFor, Lookup
<1>11. TurnInv(t)'
  <2>1. turn[t].session # NoTurn =>
          /\ cli'[turn[t].session].made
          /\ Kept(turn[t].session) => Owner(t) = turn[t].session
    BY <1>1, <1>2 DEF TurnInv, Gone
  <2>2. Kept(turn[t].session)' <=> Kept(turn[t].session)
    BY <1>2, <1>8 DEF Kept, NamedBy
  <2>3. turn[t].temp \in SessionId \cup {t, NoId}
    BY <1>1 DEF TurnInv
  <2> QED
    BY <1>2, <1>8, <1>10, <2>1, <2>2, <2>3 DEF TurnInv
<1>12. ASSUME NEW u \in Turn \ {t}
       PROVE  TurnInv(u)'
  <2>1. TurnInv(u) /\ turn'[u] = turn[u] /\ cli' = cli
    BY <1>2, <1>8 DEF PoolInv
  <2>2. /\ turn[u].session # NoTurn => cli'[turn[u].session].made
        /\ turn[u].at = "opening" => ~cli'[u].made
        /\ turn[u].at = "launching" =>
             cli'[turn[u].session].stopper = u /\ ~cli'[turn[u].session].closed
        /\ turn[u].at = "opening" =>
             pendingAs'[u] = NoTurn /\ realAs'[u] = NoTurn /\ aliasOf'[u] = NoId
    BY <1>2, <2>1 DEF TurnInv
  <2>3. turn[u].at # "removing"
    BY <1>2, <2>1, SessionNames DEF TurnInv
  <2> QED
    BY <1>1, <1>7, <2>1, <2>2, <2>3, TurnFrame
<1>13. ASSUME NEW x \in Turn
       PROVE  SessionInv(x)'
  <2>1. SessionInv(x) /\ cli'[x] = cli[x] /\ (Kept(x)' <=> Kept(x))
    BY <1>2, <1>7, SessionNames DEF PoolInv, Keeps
  <2>2. \A u \in Turn : /\ turn'[u].session = turn[u].session
                        /\ turn[u].at # "left" => turn'[u].at # "left"
                        /\ turn[u].at = "launching" => turn'[u].at = "launching"
    BY <1>2, <1>8
  <2>3. closingSet \subseteq closingSet' /\ poolBudget' = poolBudget
    BY <1>2
  <2>4. Kept(x)' => /\ cli'[x].made
                    /\ \/ \E u \in Turn : turn'[u].session = x /\ turn'[u].at # "left"
                       \/ x \in closingSet' /\ poolBudget'.failures > 0
    BY <2>1, <2>2, <2>3 DEF SessionInv
  <2>5. cli'[x].stopper # NoTurn =>
          \/ cli'[x].closed
          \/ cli'[x].stopper \in Turn /\ turn'[cli'[x].stopper].at = "launching"
             /\ turn'[cli'[x].stopper].session = x
    BY <2>1, <2>2 DEF SessionInv
  <2> QED
    BY <2>1, <2>4, <2>5 DEF SessionInv
<1> QED
  BY <1>7, <1>9, <1>11, <1>12, <1>13, SessionNames DEF PoolInv

\* What the return of stop() does to the turns and to the session.
LEMMA ReturnTurns ==
  ASSUME PoolTypes, NEW s \in Turn, NEW o \in Turn \cup {StopAll, Shield(s)},
         NEW stopped \in BOOLEAN, StopReturns(o, s, stopped)
  PROVE  /\ turn' \in [Turn -> PoolTurn]
         /\ \A u \in Turn :
              /\ turn'[u].session = turn[u].session /\ turn'[u].temp = turn[u].temp
              /\ turn'[u].captured = turn[u].captured /\ turn'[u].reported = turn[u].reported
              /\ \/ u # o /\ turn'[u].at = turn[u].at
                 \/ u = o /\ turn'[u].at = "left"
                 \/ u # o /\ turn[u].at = "killing" /\ turn'[u].at = "draining"
<1>1. turn' = [t \in Turn |->
                 IF t = o THEN [turn[t] EXCEPT !.at = "left"]
                 ELSE IF o = Shield(s) /\ turn[t].at = "killing" /\ turn[t].session = s
                 THEN [turn[t] EXCEPT !.at = "draining"] ELSE turn[t]]
  BY DEF StopReturns
<1>2. ASSUME NEW u \in Turn
      PROVE  /\ turn'[u] \in PoolTurn
             /\ turn'[u].session = turn[u].session /\ turn'[u].temp = turn[u].temp
             /\ turn'[u].captured = turn[u].captured /\ turn'[u].reported = turn[u].reported
             /\ \/ u # o /\ turn'[u].at = turn[u].at
                \/ u = o /\ turn'[u].at = "left"
                \/ u # o /\ turn[u].at = "killing" /\ turn'[u].at = "draining"
  <2>1. turn[u] \in PoolTurn
    BY DEF PoolTypes
  <2>2. CASE u = o
    <3>1. turn'[u] = [turn[u] EXCEPT !.at = "left"]
      BY <1>1, <2>2
    <3> QED
      BY <2>1, <2>2, <3>1 DEF PoolTurn, PoolStage
  <2>3. CASE u # o /\ o = Shield(s) /\ turn[u].at = "killing" /\ turn[u].session = s
    <3>1. turn'[u] = [turn[u] EXCEPT !.at = "draining"]
      BY <1>1, <2>3
    <3> QED
      BY <2>1, <2>3, <3>1 DEF PoolTurn, PoolStage
  <2>4. CASE u # o /\ ~(o = Shield(s) /\ turn[u].at = "killing" /\ turn[u].session = s)
    <3>1. turn'[u] = turn[u]
      BY <1>1, <2>4
    <3> QED
      BY <2>1, <2>4, <3>1
  <2> QED
    BY <2>2, <2>3, <2>4
<1> QED
  BY <1>1, <1>2

(* What the return of stop() does to its session.                          *)
LEMMA ReturnSession ==
  ASSUME PoolTypes, NEW s \in Turn, NEW o, NEW stopped \in BOOLEAN, StopReturns(o, s, stopped)
  PROVE  /\ cli' \in [Session -> PoolSession]
         /\ \A x \in Turn \ {s} : cli'[x] = cli[x]
         /\ cli'[s].made <=> cli[s].made
         /\ cli'[s].closed <=> cli[s].closed
         /\ cli'[s].process = cli[s].process
         /\ cli'[s].stopper = NoTurn
         /\ cli'[s].pid <=> cli[s].pid /\ ~stopped
<1>1. cli \in [Turn -> PoolSession] /\ cli[s] \in PoolSession
  BY SessionNames DEF PoolTypes
<1>2. PICK pid \in BOOLEAN :
        /\ cli' = [cli EXCEPT ![s].stopper = NoTurn, ![s].pid = pid]
        /\ pid <=> cli[s].pid /\ ~stopped
  <2>1. CASE stopped
    BY <1>1, <2>1 DEF StopReturns
  <2>2. CASE ~stopped
    <3>1. cli[s].pid \in BOOLEAN
      BY <1>1 DEF PoolSession
    <3>2. cli' = [cli EXCEPT ![s].stopper = NoTurn, ![s].pid = cli[s].pid]
      BY <2>2 DEF StopReturns
    <3> QED
      BY <2>2, <3>1, <3>2
  <2> QED
    BY <2>1, <2>2
<1>3. /\ cli'[s] = [cli[s] EXCEPT !.stopper = NoTurn, !.pid = pid]
      /\ \A x \in Turn \ {s} : cli'[x] = cli[x]
  BY <1>1, <1>2
<1>4. cli'[s] \in PoolSession
  BY <1>1, <1>3 DEF PoolSession
<1>5. cli' \in [Session -> PoolSession]
  BY <1>1, <1>2, <1>3, <1>4, SessionNames
<1> QED
  BY <1>1, <1>2, <1>3, <1>5 DEF PoolSession

(* The types of the registry after a session is forgotten.                 *)
LEMMA ForgetTypes ==
  ASSUME PoolTypes, NEW s \in Turn, Forget(s)
  PROVE  /\ pendingAs' \in [Handle -> Turn \cup {NoTurn}]
         /\ realAs' \in [Handle -> Turn \cup {NoTurn}]
         /\ aliasOf' \in [Handle -> Handle \cup {NoId}]
         /\ tempOf' \in [Handle -> Handle \cup {NoId}]
<1>1. /\ pendingAs' \in [Handle -> Turn \cup {NoTurn}]
      /\ realAs' \in [Handle -> Turn \cup {NoTurn}]
  BY DEF Forget, PoolTypes
<1>2. tempOf' \in [Handle -> Handle \cup {NoId}]
  BY DEF Forget, PoolTypes
<1>3. aliasOf' \in [Handle -> Handle \cup {NoId}]
  <2> DEFINE T == {tempOf[h] : h \in {g \in Handle : realAs[g] = s}} \ {NoId}
  <2>1. aliasOf' = [h \in Handle |-> IF h \in T THEN NoId ELSE aliasOf[h]]
    BY DEF Forget
  <2> HIDE DEF T
  <2> QED
    BY <2>1 DEF PoolTypes
<1> QED
  BY <1>1, <1>2, <1>3

\* stop() returned to a turn, to stop_all() or to the shield of a turn: the
\* session is forgotten, or is as closed as before.
LEMMA StopStep ==
  ASSUME PoolInv, NEW s \in Turn, NEW o \in Turn \cup {StopAll, Shield(s)},
         Stopped(o, s) \/ StopFails(o, s)
  PROVE  PoolInv'
<1>1. /\ PoolTypes /\ MapInv /\ SessionInv(s)
      /\ cli[s].stopper = o /\ Stops(o, s)
  BY SessionNames DEF PoolInv, Stopped, StopFails
<1>2. PICK stopped \in BOOLEAN :
        /\ StopReturns(o, s, stopped)
        /\ stopped => cli[s].process # "live" /\ poolBudget' = poolBudget
        /\ ~stopped => Fails
  <2>1. CASE Stopped(o, s)
    <3>1. PICK yes \in BOOLEAN : yes = TRUE
      OBVIOUS
    <3>2. StopReturns(o, s, yes) /\ cli[s].process # "live" /\ poolBudget' = poolBudget
      BY <2>1, <3>1, Zenon DEF Stopped
    <3> QED
      BY <3>1, <3>2
  <2>2. CASE StopFails(o, s)
    <3>1. PICK no \in BOOLEAN : no = FALSE
      OBVIOUS
    <3>2. StopReturns(o, s, no) /\ Fails
      BY <2>2, <3>1, Zenon DEF StopFails
    <3> QED
      BY <3>1, <3>2
  <2> QED
    BY <1>1, <2>1, <2>2 DEF Stopped, StopFails
<1>3. o # NoTurn /\ Shield(s) # StopAll /\ Shield(s) \notin Turn
  BY SessionNames
<1>4. \* Whoever stops the session has it closed.
      cli[s].closed
  <2>1. o \in Turn => turn[o].at = "removing"
    BY <1>1, SessionNames DEF Stops
  <2> QED
    BY <1>1, <1>3, <2>1 DEF SessionInv
<1>5. /\ o \in Turn => turn[o].at = "removing" /\ Owner(o) = s /\ poolLock = o /\ s \in closingSet
      /\ o = StopAll => poolLock = StopAll
      /\ o \notin Turn => poolLock' = poolLock
      /\ o \in Turn \/ o = StopAll \/ o = Shield(s)
  BY <1>1, <1>2, SessionNames DEF Stops, PoolInv, TurnInv, StopReturns
<1>6. /\ turn' \in [Turn -> PoolTurn]
      /\ \A u \in Turn :
           /\ turn'[u].session = turn[u].session /\ turn'[u].temp = turn[u].temp
           /\ turn'[u].captured = turn[u].captured /\ turn'[u].reported = turn[u].reported
           /\ \/ u # o /\ turn'[u].at = turn[u].at
              \/ u = o /\ turn'[u].at = "left"
              \/ u # o /\ turn[u].at = "killing" /\ turn'[u].at = "draining"
  BY <1>1, <1>2, ReturnTurns
<1>7. /\ cli' \in [Session -> PoolSession]
      /\ \A x \in Turn \ {s} : cli'[x] = cli[x]
      /\ cli'[s].made <=> cli[s].made
      /\ cli'[s].closed <=> cli[s].closed
      /\ cli'[s].process = cli[s].process
      /\ cli'[s].stopper = NoTurn
      /\ cli'[s].pid <=> cli[s].pid /\ ~stopped
  BY <1>1, <1>2, ReturnSession
<1>8. PICK S \in SUBSET Turn :
        /\ S = IF stopped /\ o # Shield(s) THEN {s} ELSE {}
        /\ MapInv' /\ Keeps(S) /\ closingSet' = closingSet \ S
        /\ \A x \in S : ~Kept(x)'
        /\ pendingAs' \in [Handle -> Turn \cup {NoTurn}]
        /\ realAs' \in [Handle -> Turn \cup {NoTurn}]
        /\ aliasOf' \in [Handle -> Handle \cup {NoId}]
        /\ tempOf' \in [Handle -> Handle \cup {NoId}]
        /\ \A h \in Handle :
             /\ pendingAs[h] = NoTurn => pendingAs'[h] = NoTurn
             /\ realAs[h] = NoTurn => realAs'[h] = NoTurn
             /\ aliasOf[h] = NoId => aliasOf'[h] = NoId
  <2>1. CASE stopped /\ o # Shield(s)
    <3>1. Forget(s)
      BY <1>2, <2>1 DEF StopReturns
    <3>2. /\ MapInv' /\ Keeps({s}) /\ ~Kept(s)'
          /\ closingSet' = closingSet \ {s}
          /\ \A h \in Handle :
               /\ pendingAs[h] = NoTurn => pendingAs'[h] = NoTurn
               /\ realAs[h] = NoTurn => realAs'[h] = NoTurn
               /\ aliasOf[h] = NoId => aliasOf'[h] = NoId
      BY <1>1, <3>1, ForgetsOne
    <3>3. /\ pendingAs' \in [Handle -> Turn \cup {NoTurn}]
          /\ realAs' \in [Handle -> Turn \cup {NoTurn}]
          /\ aliasOf' \in [Handle -> Handle \cup {NoId}]
          /\ tempOf' \in [Handle -> Handle \cup {NoId}]
      BY <1>1, <3>1, ForgetTypes
    <3>4. \A x \in {s} : ~Kept(x)'
      <4> TAKE x \in {s}
      <4>1. Kept(x)' <=> Kept(s)'
        BY DEF Kept, NamedBy
      <4> QED
        BY <3>2, <4>1
    <3>5. {s} = IF stopped /\ o # Shield(s) THEN {s} ELSE {}
      BY <2>1
    <3> WITNESS {s} \in SUBSET Turn
    <3> QED
      BY <3>2, <3>3, <3>4, <3>5
  <2>2. CASE ~(stopped /\ o # Shield(s))
    <3>1. UNCHANGED registry
      BY <1>2, <2>2 DEF StopReturns
    <3>2. MapInv' /\ Keeps({}) /\ closingSet' = closingSet
      BY <1>1, <3>1, RegistryUnchanged
    <3>3. /\ pendingAs' = pendingAs /\ realAs' = realAs /\ aliasOf' = aliasOf /\ tempOf' = tempOf
      BY <3>1 DEF registry
    <3> QED
      BY <1>1, <2>2, <3>2, <3>3 DEF PoolTypes
  <2> QED
    BY <2>1, <2>2
<1>9. /\ poolBudget' \in [stopAlls : Nat, failures : Nat]
      /\ poolBudget'.failures >= poolBudget.failures
      /\ ~stopped => poolBudget'.failures > 0
  <2>1. poolBudget \in [stopAlls : Nat, failures : Nat]
    BY <1>1 DEF PoolTypes
  <2> QED
    BY <1>2, <2>1 DEF Fails
<1>10. PoolTypes'
  BY <1>1, <1>6, <1>7, <1>8, <1>9 DEF PoolTypes
<1>11. ASSUME NEW u \in Turn
       PROVE  TurnInv(u)'
  <2>1. TurnInv(u)
    BY DEF PoolInv
  <2>2. turn[u].session \in Turn \cup {NoTurn}
    BY <1>1 DEF PoolTypes, PoolTurn
  <2>3. turn[u].session # NoTurn => cli'[turn[u].session].made
    BY <1>7, <2>1, <2>2 DEF TurnInv
  <2>4. \/ turn'[u].at = turn[u].at
        \/ turn'[u].at \in {"leaving", "left", "cut"}
        \/ turn'[u].at \in Onwards /\ turn[u].at \in {"ready"} \cup Onwards
    BY <1>6 DEF Onwards
  <2>5. turn[u].at \in Gone => turn'[u].at \in Gone
    BY <1>6 DEF Gone
  <2>6. ASSUME turn'[u].at = "opening"
        PROVE  ~cli'[u].made /\ pendingAs'[u] = NoTurn /\ realAs'[u] = NoTurn /\ aliasOf'[u] = NoId
    <3>1. turn[u].at = "opening" /\ u \in Handle
      BY <1>6, <2>6, SessionNames
    <3> QED
      BY <1>7, <1>8, <2>1, <3>1 DEF TurnInv
  <2>7. ASSUME turn'[u].at = "launching"
        PROVE  cli'[turn[u].session].stopper = u /\ ~cli'[turn[u].session].closed
    <3>1. turn[u].at = "launching"
      BY <1>6, <2>7
    <3>2. turn[u].session \in Turn \ {s}
      BY <1>4, <2>1, <2>2, <3>1 DEF TurnInv
    <3> QED
      BY <1>7, <2>1, <3>1, <3>2 DEF TurnInv
  <2>8. ASSUME turn'[u].at = "removing"
        PROVE  poolLock' = u /\ Owner(u) \notin S /\ Owner(u) \in closingSet'
    <3>1. turn[u].at = "removing" /\ u # o
      BY <1>6, <2>8
    <3>2. poolLock = u /\ Owner(u) \in closingSet
      BY <2>1, <3>1 DEF TurnInv
    <3>3. o = Shield(s)
      BY <1>5, <3>1, <3>2, SessionNames
    <3> QED
      BY <1>3, <1>5, <1>8, <3>2, <3>3
  <2>9. turn[u].session # NoTurn =>
          /\ cli'[turn[u].session].made
          /\ \A x \in S : turn[u].session = x /\ turn'[u].at \notin Gone => ~Kept(x)'
    BY <1>8, <2>3
  <2> QED
    BY <1>1, <1>6, <1>8, <2>1, <2>4, <2>5, <2>6, <2>7, <2>8, <2>9, TurnFrame
<1>12. ASSUME NEW x \in Turn, Kept(x)'
       PROVE  \/ \E u \in Turn : turn'[u].session = x /\ turn'[u].at # "left"
              \/ x \in closingSet' /\ poolBudget'.failures > 0
  <2>1. x \notin S /\ Kept(x) /\ SessionInv(x)
    BY <1>8, <1>12, SessionNames DEF Keeps, PoolInv
  <2>2. CASE x \in closingSet /\ poolBudget.failures > 0
    <3>1. poolBudget.failures \in Nat
      BY <1>1 DEF PoolTypes
    <3> QED
      BY <1>8, <1>9, <2>1, <2>2, <3>1
  <2>3. CASE \E u \in Turn : turn[u].session = x /\ turn[u].at # "left"
    <3>1. PICK u \in Turn : turn[u].session = x /\ turn[u].at # "left"
      BY <2>3
    <3>2. CASE u # o
      BY <1>6, <3>1, <3>2
    <3>3. CASE u = o
      <4>1. x = s
        <5>1. turn[u].at = "removing" /\ Owner(u) = s
          BY <1>5, <3>3
        <5>2. Owner(u) = x
          BY <2>1, <3>1, <5>1, SessionNames DEF PoolInv, TurnInv, Gone
        <5> QED
          BY <5>1, <5>2
      <4>2. ~stopped
        BY <1>3, <1>8, <2>1, <3>3, <4>1
      <4> QED
        BY <1>5, <1>8, <1>9, <2>1, <3>3, <4>1, <4>2
    <3> QED
      BY <3>2, <3>3
  <2> QED
    BY <2>1, <2>2, <2>3 DEF SessionInv
<1>13. SessionInv(s)'
  <2>1. Kept(s)' => Kept(s)
    BY <1>8 DEF Keeps
  <2>2. Kept(s) /\ ~Kept(s)' => stopped
    BY <1>8 DEF Keeps
  <2>3. /\ Kept(s) => cli[s].made
        /\ cli[s].made /\ ~Kept(s) => ~cli[s].pid
        /\ cli[s].process = "live" => cli[s].pid /\ Kept(s)
    BY <1>1 DEF SessionInv
  <2>4. stopped => cli[s].process # "live"
    BY <1>2
  <2> QED
    BY <1>4, <1>7, <1>12, <2>1, <2>2, <2>3, <2>4 DEF SessionInv
<1>14. ASSUME NEW x \in Turn \ {s}
       PROVE  SessionInv(x)'
  <2>1. SessionInv(x) /\ cli'[x] = cli[x] /\ (Kept(x)' <=> Kept(x))
    BY <1>7, <1>8, SessionNames DEF PoolInv, Keeps
  <2>2. \A u \in Turn : turn[u].at = "launching" => turn'[u].at = "launching"
    BY <1>5, <1>6
  <2>3. cli'[x].stopper # NoTurn =>
          \/ cli'[x].closed
          \/ cli'[x].stopper \in Turn /\ turn'[cli'[x].stopper].at = "launching"
             /\ turn'[cli'[x].stopper].session = x
    BY <1>6, <2>1, <2>2 DEF SessionInv
  <2>4. Kept(x)' => cli'[x].made
    BY <2>1 DEF SessionInv
  <2> QED
    BY <1>12, <2>1, <2>3, <2>4 DEF SessionInv
<1> QED
  BY <1>8, <1>10, <1>11, <1>13, <1>14, SessionNames DEF PoolInv

-----------------------------------------------------------------------------

(* The invariant of the pool holds at the start.                           *)
LEMMA PoolInvInit == PoolInit => PoolInv
<1> SUFFICES ASSUME PoolInit PROVE PoolInv
  OBVIOUS
<1>1. PoolTypes
  BY PoolTypesInit
<1>2. /\ \A h \in Handle : pendingAs[h] = NoTurn /\ realAs[h] = NoTurn
                           /\ aliasOf[h] = NoId /\ tempOf[h] = NoId
      /\ closingSet = {}
  BY DEF PoolInit
<1>3. MapInv
  BY <1>2, SessionNames DEF MapInv, NamedBy
<1>4. \A s \in Turn : ~Kept(s)
  BY <1>2, SessionNames DEF Kept, NamedBy
<1>5. /\ \A t \in Turn : /\ turn[t].at = "opening" /\ turn[t].session = NoTurn
                         /\ turn[t].temp = NoId /\ turn[t].captured = NoId
      /\ \A s \in Turn : ~cli[s].made /\ cli[s].process = "none" /\ cli[s].stopper = NoTurn
  BY SessionNames DEF PoolInit
<1>6. ASSUME NEW t \in Turn
      PROVE  TurnInv(t)
  BY <1>2, <1>5, SessionNames DEF TurnInv
<1>7. ASSUME NEW s \in Turn
      PROVE  SessionInv(s)
  BY <1>4, <1>5 DEF SessionInv
<1> QED
  BY <1>1, <1>3, <1>6, <1>7, SessionNames DEF PoolInv

(* Every step of the pool keeps it.                                        *)
LEMMA PoolInvNext == PoolInv /\ [PoolNext]_poolVars => PoolInv'
<1> SUFFICES ASSUME PoolInv, [PoolNext]_poolVars PROVE PoolInv'
  OBVIOUS
<1>1. ASSUME NEW t \in Turn,
             \/ OpensClosing(t) \/ OpensShared(t) \/ OpensNew(t)
             \/ Starts(t) \/ Launches(t) \/ LaunchFails(t) \/ Recorded(t) \/ Exits(t)
             \/ CancelledEarly(t) \/ CancelledLaunch(t) \/ CancelledOutside(t)
             \/ CancelledReading(t) \/ CancelledWaiting(t)
             \/ CancelledKilling(t) \/ CancelledDraining(t)
             \/ CancelledLeaving(t) \/ CancelledRemoving(t)
             \/ LeavesNothing(t) \/ Removes(t) \/ Drains(t)
             \/ \E id \in SessionId : Registers(t, id) \/ RegistrationFails(t, id)
      PROVE  PoolInv'
  BY <1>1, TurnOnly, GeneratorOver, GeneratorDropped, TurnStarts, TurnLaunches,
     RemovalCancelled, TurnRecorded, TurnShares, TurnOpens, TurnRegisters, RemovalBegins
<1>2. ASSUME NEW s \in Turn,
             \/ ProcessEnds(s) \/ GeneratorCloses(s)
             \/ \E o \in Turn \cup {StopAll, Shield(s)} :
                  StopBegins(o, s) \/ Stopped(o, s) \/ StopFails(o, s)
      PROVE  PoolInv'
  BY <1>2, SessionStep, StopStep
<1>3. CASE StopAllBegins \/ StopAllEnds \/ PoolDone \/ UNCHANGED poolVars
  BY <1>3, StopAllStep DEF PoolDone
<1> QED
  BY <1>1, <1>2, <1>3, SessionNames DEF PoolNext

\* The invariant says of each session what the property says.
LEMMA PoolInvAccounts == PoolInv => SessionsAreAccountedFor
<1> SUFFICES ASSUME PoolInv PROVE SessionsAreAccountedFor
  OBVIOUS
<1>1. PoolTypes /\ MapInv /\ Known = {s \in Turn : Kept(s)}
  BY KnownIsKept DEF PoolInv
<1>2. NoProcessEscapes
  BY <1>1, SessionNames DEF NoProcessEscapes, PoolInv, SessionInv
<1>3. SessionsAreReleased
  <2> SUFFICES ASSUME NEW s \in Turn, Kept(s), poolLock = NoTurn,
                      \A t \in Turn : turn[t].session = s => turn[t].at \in Gone,
                      ~(s \in closingSet /\ poolBudget.failures > 0)
               PROVE  \E t \in Turn : turn[t].session = s /\ turn[t].at = "cut"
    BY <1>1, SessionNames DEF SessionsAreReleased
  <2>1. PICK t \in Turn : turn[t].session = s /\ turn[t].at # "left"
    BY SessionNames DEF PoolInv, SessionInv
  <2> QED
    BY <2>1 DEF Gone
<1>4. ASSUME NEW s \in Turn
      PROVE  Cardinality(KnownAs(s)) <= 1
  <2>1. CASE KnownAs(s) = {}
    BY <2>1, FS_EmptySet
  <2>2. CASE KnownAs(s) # {}
    <3>1. PICK h \in Handle : NamedBy(h, s)
      BY <2>2 DEF KnownAs, NamedBy
    <3>2. KnownAs(s) = {h}
      BY <1>1, <3>1, SessionNames DEF KnownAs, NamedBy, MapInv
    <3>3. Cardinality({h}) = 1
      BY FS_Singleton
    <3> QED
      BY <3>2, <3>3
  <2> QED
    BY <2>1, <2>2
<1>5. OneHandleEach
  BY <1>1, <1>4, SessionNames DEF OneHandleEach, MapInv
<1> QED
  BY <1>2, <1>3, <1>5 DEF SessionsAreAccountedFor

(* No process of the pool escapes the manager, no session stays with it    *)
(* when its turns are over, and every session has one handle.              *)
THEOREM SessionsAccounted == PoolSpec => []SessionsAreAccountedFor
<1>1. PoolInit => PoolInv
  BY PoolInvInit
<1>2. PoolInv /\ [PoolNext]_poolVars => PoolInv'
  BY PoolInvNext
<1>3. PoolInv => SessionsAreAccountedFor
  BY PoolInvAccounts
<1> QED
  BY <1>1, <1>2, <1>3, PTL DEF PoolSpec

-----------------------------------------------------------------------------
(* The commands of a chat. *)

ChatStage == {"new", "resolving", "posting", "recording", "admitting", "discarding",
              "command", "saving", "clearing", "over"}
ChatKind == {"none", "stop", "clear", "stop_reply", "clear_reply"}
ChatHandler ==
  [at : ChatStage, kind : ChatKind, target : Prompt \cup {NoMessage},
   token : Nat \X Nat, ids : SUBSET (Prompt \cup {Notice})]
ChatNode ==
  [state : {"none", "queued", "active", "ended"}, root : Prompt \cup {NoMessage},
   above : SUBSET Prompt]
Posted == Prompt \cup {Notice}  \* whose messages the model follows

ChatTypes ==
  /\ chat \subseteq Posted /\ log \subseteq Posted
  /\ stored \subseteq Prompt /\ overtaken \subseteq Prompt
  /\ node \in [Prompt -> ChatNode] /\ handler \in [Message -> ChatHandler]
  /\ latch \in Command \cup {NoMessage} /\ era \in Nat \X Nat

\* The lock is held by the command that saves or clears, and a store that has
\* more than the trees is about to be cleared.
LatchInv ==
  /\ \A c \in Command : latch = c <=> handler[c].at \in {"saving", "clearing"}
  /\ (\E c \in Command : handler[c].at = "clearing") => Held = {}
  /\ (\A c \in Command : handler[c].at # "clearing") => stored \subseteq Held
  /\ \A c \in Command : handler[c].at = "command" /\ handler[c].kind = "stop_reply" =>
       handler[c].target \in Prompt

\* A message that a clear is to delete, or whose deletion was given up.
Given(m) ==
  \/ m \in spared
  \/ \E c \in Command : handler[c].at \in {"clearing", "discarding"} /\ m \in handler[c].ids

\* A message that is shown and no longer handled can be cleared, whatever a
\* clear under way is about to forget.
PostedInv(m) ==
  /\ handler[m].at \notin {"command", "saving", "clearing"}
  /\ handler[m].at \in {"new", "resolving", "posting"} => m \notin chat
  /\ m \in chat /\ handler[m].at = "over" =>
       \/ m \in log \cup Held /\ \A c \in Command : handler[c].at # "clearing"
       \/ Given(m)

\* A prompt under way is in no tree; one that a stop overtook cannot enter one.
Early == {"resolving", "posting", "recording", "admitting"}
PromptInv(m) ==
  /\ handler[m].at # "over" => node[m].state = "none"
  /\ handler[m].at = "discarding" => handler[m].ids = {m}
  /\ handler[m].at \in Early =>
       handler[m].token[1] <= era[1] /\ handler[m].token[2] <= era[2]
  /\ handler[m].at \in Early /\ handler[m].token = era =>
       /\ m \notin overtaken
       /\ \A c \in Command : handler[c].at # "clearing"
                             /\ ~(handler[c].at = "saving" /\ handler[c].kind = "stop")
  /\ m \in overtaken => handler[m].at # "new" /\ node[m].state = "none"

ChatInv ==
  /\ ChatTypes /\ LatchInv
  /\ \A m \in Posted : PostedInv(m)
  /\ \A m \in Prompt : PromptInv(m)

(* What the assumption says of the names of messages.                      *)
LEMMA ChatNames ==
  /\ Posted \cap Command = {} /\ NoMessage \notin Message
  /\ Prompt \subseteq Posted /\ Notice \in Posted /\ Notice \notin Prompt
  /\ Posted \subseteq Message /\ Command \subseteq Message /\ Message = Posted \cup Command
BY ChatAssumption DEF Posted, Message

(* A handler that goes to another stage.                                   *)
LEMMA ChatMovesOne ==
  ASSUME ChatTypes, NEW m \in Message, NEW at \in ChatStage, ChatMoves(m, at)
  PROVE  /\ handler' \in [Message -> ChatHandler]
         /\ \A o \in Message \ {m} : handler'[o] = handler[o]
         /\ handler'[m].at = at
         /\ at # "over" =>
              /\ handler'[m].ids = handler[m].ids /\ handler'[m].kind = handler[m].kind
              /\ handler'[m].token = handler[m].token
<1>1. handler \in [Message -> ChatHandler] /\ handler[m] \in ChatHandler
  BY DEF ChatTypes
<1>2. CASE at = "over"
  <2>1. PICK r \in ChatHandler : r = [Idle EXCEPT !.at = at] /\ r.at = at
    <3>1. Idle \in ChatHandler
      BY DEF Idle, ChatHandler, ChatStage, ChatKind
    <3> DEFINE r == [Idle EXCEPT !.at = at]
    <3>2. r \in ChatHandler /\ r.at = at
      <4> HIDE DEF Idle
      <4> QED
        BY <3>1 DEF ChatHandler
    <3> QED
      BY <3>2
  <2>2. handler' = [handler EXCEPT ![m] = r]
    BY <1>2, <2>1 DEF ChatMoves
  <2> QED
    BY <1>1, <1>2, <2>1, <2>2
<1>3. CASE at # "over"
  <2>1. handler' = [handler EXCEPT ![m].at = at]
    BY <1>3 DEF ChatMoves
  <2>2. /\ handler'[m] = [handler[m] EXCEPT !.at = at]
        /\ \A o \in Message \ {m} : handler'[o] = handler[o]
    BY <1>1, <2>1
  <2>3. handler'[m] \in ChatHandler
    BY <1>1, <2>2 DEF ChatHandler
  <2>4. handler' \in [Message -> ChatHandler]
    BY <1>1, <2>1, <2>2, <2>3
  <2> QED
    BY <1>1, <2>2, <2>4 DEF ChatHandler
<1> QED
  BY <1>2, <1>3

(* Claiming the next prompt of a tree changes nothing but its state.       *)
LEMMA ClaimedKeeps ==
  ASSUME NEW nodes \in [Prompt -> ChatNode], NEW next \in Claimed(nodes)
  PROVE  /\ next \in [Prompt -> ChatNode]
         /\ \A m \in Prompt : next[m].state = "none" <=> nodes[m].state = "none"
<1>1. /\ next \in [Prompt -> {nodes[m] : m \in Prompt}
                        \cup {[nodes[m] EXCEPT !.state = "active"] : m \in Prompt}]
      /\ \A m \in Prompt : \/ next[m] = nodes[m]
                           \/ /\ nodes[m].state = "queued"
                              /\ next[m] = [nodes[m] EXCEPT !.state = "active"]
  BY DEF Claimed
<1>2. ASSUME NEW m \in Prompt
      PROVE  next[m] \in ChatNode /\ (next[m].state = "none" <=> nodes[m].state = "none")
  <2>1. nodes[m] \in ChatNode
    OBVIOUS
  <2>2. CASE next[m] = nodes[m]
    BY <2>1, <2>2
  <2>3. CASE nodes[m].state = "queued" /\ next[m] = [nodes[m] EXCEPT !.state = "active"]
    BY <2>1, <2>3 DEF ChatNode
  <2> QED
    BY <1>1, <2>2, <2>3
<1> QED
  BY <1>1, <1>2

(* Ended and removed prompts.                                              *)
LEMMA EndedKeeps ==
  ASSUME NEW nodes \in [Prompt -> ChatNode], NEW set \in SUBSET Prompt,
         \A m \in set : nodes[m].state # "none"
  PROVE  /\ Ended(nodes, set) \in [Prompt -> ChatNode]
         /\ \A m \in Prompt : Ended(nodes, set)[m].state = "none" <=> nodes[m].state = "none"
<1>1. ASSUME NEW m \in Prompt
      PROVE  /\ Ended(nodes, set)[m] \in ChatNode
             /\ Ended(nodes, set)[m].state = "none" <=> nodes[m].state = "none"
  <2>1. nodes[m] \in ChatNode
    OBVIOUS
  <2>2. CASE m \in set
    <3>1. Ended(nodes, set)[m] = [nodes[m] EXCEPT !.state = "ended"]
      BY <2>2 DEF Ended
    <3> QED
      BY <2>1, <2>2, <3>1 DEF ChatNode
  <2>3. CASE m \notin set
    BY <2>1, <2>3 DEF Ended
  <2> QED
    BY <2>2, <2>3
<1> QED
  BY <1>1 DEF Ended

(* Removing prompts leaves the others in their trees.                      *)
LEMMA RemovedKeeps ==
  ASSUME NEW nodes \in [Prompt -> ChatNode], NEW set \in SUBSET Prompt
  PROVE  /\ Removed(nodes, set) \in [Prompt -> ChatNode]
         /\ \A m \in Prompt :
              Removed(nodes, set)[m].state = "none" <=> nodes[m].state = "none" \/ m \in set
<1>1. Absent \in ChatNode /\ Absent.state = "none"
  BY DEF Absent, ChatNode
<1> HIDE DEF Absent
<1> QED
  BY <1>1 DEF Removed

(* The trees of no prompt have changed.                                    *)
LEMMA HeldSame ==
  ASSUME \A m \in Prompt : node'[m].state = "none" <=> node[m].state = "none"
  PROVE  Held' = Held
BY DEF Held

(* A message given to a clear stays so while no command moves.             *)
LEMMA GivenStays ==
  ASSUME \A c \in Command : handler'[c] = handler[c], spared \subseteq spared',
         NEW m, Given(m)
  PROVE  Given(m)'
BY DEF Given

(* A step of the handling of one message, or of the run of one prompt.     *)
LEMMA MessageStep ==
  ASSUME ChatInv, ChatTypes', LatchInv', NEW p \in Posted,
         \A o \in Message \ {p} : handler'[o] = handler[o],
         latch' = latch, era' = era, overtaken' = overtaken,
         \A m \in Prompt \ {p} : node'[m].state = "none" <=> node[m].state = "none",
         \A m \in Posted \ {p} : /\ m \in chat' => m \in chat
                                 /\ m \in log => m \in log',
         spared \subseteq spared',
         PostedInv(p)', p \in Prompt => PromptInv(p)'
  PROVE  ChatInv'
<1>1. \A c \in Command : handler'[c] = handler[c]
  BY ChatNames
<1>2. ASSUME NEW m \in Posted \ {p}
      PROVE  PostedInv(m)'
  <2>1. PostedInv(m) /\ handler'[m] = handler[m]
    BY ChatNames DEF ChatInv
  <2>2. m \in Held => m \in Held'
    BY DEF Held
  <2>3. Given(m) => Given(m)'
    BY <1>1, GivenStays
  <2>4. (\A c \in Command : handler[c].at # "clearing")
          => \A c \in Command : handler'[c].at # "clearing"
    BY <1>1
  <2>5. m \in log => m \in log'
    OBVIOUS
  <2>6. m \in chat' => m \in chat
    OBVIOUS
  <2> QED
    BY <2>1, <2>2, <2>3, <2>4, <2>5, <2>6 DEF PostedInv
<1>3. ASSUME NEW m \in Prompt \ {p}
      PROVE  PromptInv(m)'
  <2>1. /\ PromptInv(m) /\ handler'[m] = handler[m]
        /\ node'[m].state = "none" <=> node[m].state = "none"
    BY ChatNames DEF ChatInv
  <2> QED
    BY <1>1, <2>1 DEF PromptInv
<1> QED
  BY <1>2, <1>3 DEF ChatInv

(* The lock and the store, when only messages are handled.                 *)
LEMMA LatchStays ==
  ASSUME LatchInv, \A c \in Command : handler'[c] = handler[c], latch' = latch,
         \A m \in Prompt : node'[m].state = "none" <=> node[m].state = "none",
         stored' = stored
  PROVE  LatchInv'
BY HeldSame DEF LatchInv

(* The prompts: arrival, the status, admission, rejection and the end.     *)
LEMMA PromptArrives ==
  ASSUME ChatInv, NEW p \in Prompt, Arrives(p)
  PROVE  ChatInv'
<1>1. /\ ChatTypes /\ LatchInv /\ PostedInv(p) /\ PromptInv(p)
      /\ handler[p].at = "new" /\ latch = NoMessage
      /\ handler' = [handler EXCEPT ![p].at = "resolving", ![p].token = era]
      /\ UNCHANGED <<chat, log, node, stored, latch, era, spared, overtaken>>
  BY ChatNames DEF ChatInv, Arrives
<1>2. handler \in [Message -> ChatHandler] /\ handler[p] \in ChatHandler /\ era \in Nat \X Nat
  BY <1>1, ChatNames DEF ChatTypes
<1>3. /\ handler'[p] = [handler[p] EXCEPT !.at = "resolving", !.token = era]
      /\ \A o \in Message \ {p} : handler'[o] = handler[o]
  BY <1>1, <1>2, ChatNames
<1>4. handler'[p] \in ChatHandler /\ handler'[p].at = "resolving" /\ handler'[p].token = era
  BY <1>2, <1>3 DEF ChatHandler, ChatStage
<1>5. handler' \in [Message -> ChatHandler]
  BY <1>1, <1>2, <1>3, <1>4
<1>6. ChatTypes'
  BY <1>1, <1>5 DEF ChatTypes
<1>7. \A c \in Command : handler'[c] = handler[c] /\ handler[c].at \notin {"saving", "clearing"}
  <2>1. \A c \in Command : c \in Message \ {p} /\ c # NoMessage
    BY ChatNames
  <2>2. \A c \in Command : handler[c].at \notin {"saving", "clearing"}
    BY <1>1, <2>1 DEF LatchInv
  <2> QED
    BY <1>3, <2>1, <2>2
<1>8. LatchInv'
  BY <1>1, <1>7, LatchStays
<1>9. PostedInv(p)'
  BY <1>1, <1>4 DEF PostedInv
<1>10. PromptInv(p)'
  <2>1. era[1] <= era[1] /\ era[2] <= era[2]
    BY <1>2
  <2>2. p \notin overtaken /\ node[p].state = "none"
    BY <1>1 DEF PromptInv
  <2> QED
    BY <1>1, <1>4, <1>7, <2>1, <2>2 DEF PromptInv
<1> QED
  BY <1>1, <1>3, <1>6, <1>8, <1>9, <1>10, ChatNames, MessageStep

(* A prompt finds the message it replies to, or none.                      *)
LEMMA PromptResolves ==
  ASSUME ChatInv, NEW p \in Prompt, NEW parent \in Prompt \cup {NoMessage}, Resolves(p, parent)
  PROVE  ChatInv'
<1>1. /\ ChatTypes /\ LatchInv /\ PostedInv(p) /\ PromptInv(p) /\ handler[p].at = "resolving"
      /\ handler' = [handler EXCEPT ![p].at = "posting", ![p].target = parent]
      /\ UNCHANGED <<chat, log, node, stored, latch, era, spared, overtaken>>
  BY ChatNames DEF ChatInv, Resolves
<1>2. handler \in [Message -> ChatHandler] /\ handler[p] \in ChatHandler
  BY <1>1, ChatNames DEF ChatTypes
<1>3. /\ handler'[p] = [handler[p] EXCEPT !.at = "posting", !.target = parent]
      /\ \A o \in Message \ {p} : handler'[o] = handler[o]
  BY <1>1, <1>2, ChatNames
<1>4. /\ handler'[p] \in ChatHandler /\ handler'[p].at = "posting"
      /\ handler'[p].token = handler[p].token
  BY <1>2, <1>3 DEF ChatHandler, ChatStage
<1>5. handler' \in [Message -> ChatHandler]
  BY <1>1, <1>2, <1>3, <1>4
<1>6. ChatTypes'
  BY <1>1, <1>5 DEF ChatTypes
<1>7. \A c \in Command : handler'[c] = handler[c]
  BY <1>3, ChatNames
<1>8. LatchInv'
  BY <1>1, <1>7, LatchStays
<1>9. PostedInv(p)'
  BY <1>1, <1>4 DEF PostedInv
<1>10. PromptInv(p)'
  BY <1>1, <1>4, <1>7 DEF PromptInv, Early
<1> QED
  BY <1>1, <1>3, <1>6, <1>8, <1>9, <1>10, ChatNames, MessageStep

(* Its status is shown and then recorded, or cannot be sent.               *)
LEMMA StatusInv ==
  ASSUME ChatInv, NEW p \in Posted, StatusSent(p) \/ StatusFails(p) \/ Records(p)
  PROVE  ChatInv'
<1>1. /\ ChatTypes /\ LatchInv /\ PostedInv(p) /\ (p \in Prompt => PromptInv(p))
      /\ UNCHANGED <<node, stored, latch, era, spared, overtaken>>
  BY DEF ChatInv, StatusSent, StatusFails, Records
<1>2. PICK at \in {"recording", "over", "admitting"} :
        /\ ChatMoves(p, at)
        /\ at = "recording" => handler[p].at = "posting" /\ chat' = chat \cup {p} /\ log' = log
        /\ at = "over" => handler[p].at = "posting" /\ chat' = chat /\ log' = log
        /\ at = "admitting" =>
             p \in Prompt /\ handler[p].at = "recording" /\ chat' = chat /\ log' = log \cup {p}
  <2>1. CASE StatusSent(p)
    BY <2>1 DEF StatusSent
  <2>2. CASE StatusFails(p)
    BY <2>2 DEF StatusFails
  <2>3. CASE Records(p)
    BY <2>3 DEF Records, Logs
  <2> QED
    BY <2>1, <2>2, <2>3
<1>3. /\ handler' \in [Message -> ChatHandler]
      /\ \A o \in Message \ {p} : handler'[o] = handler[o]
      /\ handler'[p].at = at
      /\ at # "over" => handler'[p].token = handler[p].token
  <2>1. at \in ChatStage
    BY DEF ChatStage
  <2> QED
    BY <1>1, <1>2, <2>1, ChatMovesOne, ChatNames
<1>4. ChatTypes'
  BY <1>1, <1>2, <1>3 DEF ChatTypes
<1>5. \A c \in Command : handler'[c] = handler[c]
  BY <1>3, ChatNames
<1>6. LatchInv'
  BY <1>1, <1>5, LatchStays
<1>7. PostedInv(p)'
  BY <1>1, <1>2, <1>3 DEF PostedInv
<1>8. p \in Prompt => PromptInv(p)'
  BY <1>1, <1>2, <1>3, <1>5 DEF PromptInv, Early
<1> QED
  BY <1>1, <1>2, <1>3, <1>4, <1>6, <1>7, <1>8, MessageStep

(* An admitted prompt enters a tree: its token is of the present.          *)
LEMMA PromptAdmitted ==
  ASSUME ChatInv, NEW p \in Prompt, Admits(p)
  PROVE  ChatInv'
<1> DEFINE parent == handler[p].target
           new == IF parent = NoMessage THEN [state |-> "queued", root |-> p, above |-> {p}]
                  ELSE [state |-> "queued", root |-> node[parent].root,
                        above |-> node[parent].above \cup {p}]
           nodes == [node EXCEPT ![p] = new]
<1>1. /\ ChatTypes /\ LatchInv /\ PostedInv(p) /\ PromptInv(p)
      /\ handler[p].at = "admitting" /\ latch = NoMessage /\ handler[p].token = era
      /\ parent # NoMessage => parent \in Held
      /\ node' \in Claimed(nodes) /\ ChatMoves(p, "over")
      /\ stored' = stored \cup {p} \cup Tree(new.root)
      /\ UNCHANGED <<chat, log, latch, era, spared, overtaken>>
  BY ChatNames DEF ChatInv, Admits
<1>2. node \in [Prompt -> ChatNode]
  BY <1>1 DEF ChatTypes
<1>3. new \in ChatNode /\ new.state # "none"
  <2>1. CASE parent = NoMessage
    BY <2>1 DEF ChatNode
  <2>2. CASE parent # NoMessage
    <3>1. parent \in Prompt /\ node[parent] \in ChatNode
      BY <1>1, <1>2, <2>2 DEF Held
    <3> QED
      BY <2>2, <3>1 DEF ChatNode
  <2> QED
    BY <2>1, <2>2
<1> HIDE DEF new
<1>4. nodes \in [Prompt -> ChatNode] /\ nodes[p] = new /\ \A m \in Prompt \ {p} : nodes[m] = node[m]
  BY <1>2, <1>3
<1> HIDE DEF nodes
<1>5. /\ node' \in [Prompt -> ChatNode] /\ node'[p].state # "none"
      /\ \A m \in Prompt \ {p} : node'[m].state = "none" <=> node[m].state = "none"
  BY <1>1, <1>3, <1>4, ClaimedKeeps
<1>6. Held' = Held \cup {p}
  BY <1>5 DEF Held
<1>7. /\ handler' \in [Message -> ChatHandler]
      /\ \A o \in Message \ {p} : handler'[o] = handler[o]
      /\ handler'[p].at = "over"
  <2>1. "over" \in ChatStage
    BY DEF ChatStage
  <2> QED
    BY <1>1, <2>1, ChatMovesOne, ChatNames
<1>8. \A c \in Command : handler'[c] = handler[c] /\ handler[c].at \notin {"saving", "clearing"}
  BY <1>1, <1>7, ChatNames DEF LatchInv
<1>9. stored \subseteq Held /\ Tree(new.root) \subseteq Held
  BY <1>1, <1>8 DEF LatchInv, Tree
<1>10. LatchInv'
  BY <1>1, <1>6, <1>8, <1>9 DEF LatchInv
<1>11. stored' \subseteq Prompt
  BY <1>1, <1>9 DEF Held
<1>12. ChatTypes'
  BY <1>1, <1>5, <1>7, <1>11 DEF ChatTypes
<1>13. PostedInv(p)'
  BY <1>6, <1>7, <1>8 DEF PostedInv
<1>14. PromptInv(p)'
  BY <1>1, <1>7 DEF PromptInv, Early
<1> QED
  BY <1>1, <1>5, <1>7, <1>10, <1>12, <1>13, <1>14, ChatNames, MessageStep

(* A prompt that came too late is to be discarded.                         *)
LEMMA PromptRejected ==
  ASSUME ChatInv, NEW p \in Prompt, Rejects(p)
  PROVE  ChatInv'
<1>1. /\ ChatTypes /\ LatchInv /\ PostedInv(p) /\ PromptInv(p) /\ handler[p].at = "admitting"
      /\ handler' = [handler EXCEPT ![p].at = "discarding", ![p].ids = {p}]
      /\ UNCHANGED <<chat, log, node, stored, latch, era, spared, overtaken>>
  BY ChatNames DEF ChatInv, Rejects
<1>2. handler \in [Message -> ChatHandler] /\ handler[p] \in ChatHandler
  BY <1>1, ChatNames DEF ChatTypes
<1>3. /\ handler'[p] = [handler[p] EXCEPT !.at = "discarding", !.ids = {p}]
      /\ \A o \in Message \ {p} : handler'[o] = handler[o]
  BY <1>1, <1>2, ChatNames
<1>4. handler'[p] \in ChatHandler /\ handler'[p].at = "discarding" /\ handler'[p].ids = {p}
  <2>1. PICK ids \in SUBSET (Prompt \cup {Notice}) : ids = {p}
    OBVIOUS
  <2>2. handler'[p] = [handler[p] EXCEPT !.at = "discarding", !.ids = ids]
    BY <1>3, <2>1
  <2> QED
    BY <1>2, <2>1, <2>2 DEF ChatHandler, ChatStage
<1>5. handler' \in [Message -> ChatHandler]
  BY <1>1, <1>2, <1>3, <1>4
<1>6. ChatTypes'
  BY <1>1, <1>5 DEF ChatTypes
<1>7. \A c \in Command : handler'[c] = handler[c]
  BY <1>3, ChatNames
<1>8. LatchInv'
  BY <1>1, <1>7, LatchStays
<1>9. PostedInv(p)'
  BY <1>1, <1>4 DEF PostedInv
<1>10. PromptInv(p)'
  BY <1>1, <1>4 DEF PromptInv, Early
<1> QED
  BY <1>1, <1>3, <1>6, <1>8, <1>9, <1>10, ChatNames, MessageStep

(* Its status is deleted, or given up.                                     *)
LEMMA PromptDiscarded ==
  ASSUME ChatInv, NEW p \in Prompt, NEW works \in BOOLEAN, TurnDiscards(p, works)
  PROVE  ChatInv'
<1>1. /\ ChatTypes /\ LatchInv /\ PostedInv(p) /\ PromptInv(p) /\ handler[p].at = "discarding"
      /\ Deletes(handler[p].ids, works) /\ ChatMoves(p, "over")
      /\ UNCHANGED <<node, stored, latch, era, overtaken>>
      /\ log' = log \/ log' = log \ handler[p].ids
  BY ChatNames DEF ChatInv, TurnDiscards, Unlogs
<1>2. handler[p].ids = {p} /\ node[p].state = "none"
  BY <1>1 DEF PromptInv
<1>3. /\ \/ chat' = chat \ {p} /\ spared' = spared
         \/ chat' = chat /\ spared' = spared \cup {p}
      /\ log' = log \/ log' = log \ {p}
  BY <1>1, <1>2 DEF Deletes
<1>4. /\ handler' \in [Message -> ChatHandler]
      /\ \A o \in Message \ {p} : handler'[o] = handler[o]
      /\ handler'[p].at = "over"
  <2>1. "over" \in ChatStage
    BY DEF ChatStage
  <2> QED
    BY <1>1, <2>1, ChatMovesOne, ChatNames
<1>5. ChatTypes'
  BY <1>1, <1>3, <1>4 DEF ChatTypes
<1>6. \A c \in Command : handler'[c] = handler[c]
  BY <1>4, ChatNames
<1>7. LatchInv'
  BY <1>1, <1>6, LatchStays
<1>8. PostedInv(p)'
  BY <1>3, <1>4 DEF PostedInv, Given
<1>9. PromptInv(p)'
  BY <1>1, <1>2, <1>4 DEF PromptInv, Early
<1> QED
  BY <1>1, <1>3, <1>4, <1>5, <1>7, <1>8, <1>9, ChatNames, MessageStep

(* A run ends, and its tree may start the next prompt.                     *)
LEMMA PromptRunEnds ==
  ASSUME ChatInv, NEW p \in Prompt, RunEnds(p)
  PROVE  ChatInv'
<1>1. /\ ChatTypes /\ LatchInv /\ PostedInv(p) /\ PromptInv(p)
      /\ node[p].state = "active" /\ node' \in Claimed(Ended(node, {p}))
      /\ stored' = stored \cup Tree(node[p].root)
      /\ UNCHANGED <<chat, log, handler, latch, era, spared, overtaken>>
  BY ChatNames DEF ChatInv, RunEnds
<1>2. /\ node' \in [Prompt -> ChatNode]
      /\ \A m \in Prompt : node'[m].state = "none" <=> node[m].state = "none"
  <2>1. node \in [Prompt -> ChatNode] /\ \A m \in {p} : node[m].state # "none"
    BY <1>1 DEF ChatTypes
  <2> QED
    BY <1>1, <2>1, EndedKeeps, ClaimedKeeps
<1>3. Held' = Held /\ Tree(node[p].root) \subseteq Held /\ p \in Held
  BY <1>1, <1>2, HeldSame DEF Tree, Held
<1>4. ChatTypes'
  BY <1>1, <1>2, <1>3 DEF ChatTypes, Held
<1>5. LatchInv'
  BY <1>1, <1>3 DEF LatchInv
<1>6. PostedInv(p)'
  BY <1>1, <1>3 DEF PostedInv, Given
<1>7. PromptInv(p)'
  BY <1>1, <1>2 DEF PromptInv
<1> QED
  BY <1>1, <1>2, <1>4, <1>5, <1>6, <1>7, ChatNames, MessageStep

(* The startup notice.                                                     *)
LEMMA NoticeStep ==
  ASSUME ChatInv,
         \/ NoticeStarts \/ \E recorded \in BOOLEAN : NoticeFinal(recorded)
         \/ \E works, tracked \in BOOLEAN : NoticeDiscarded(works, tracked)
  PROVE  ChatInv'
<1>1. /\ ChatTypes /\ LatchInv /\ PostedInv(Notice) /\ latch = NoMessage
      /\ UNCHANGED <<node, stored, latch, era, overtaken>>
  BY ChatNames DEF ChatInv, NoticeStarts, NoticeFinal, NoticeDiscarded
<1>2. /\ handler' \in [Message -> ChatHandler]
      /\ \A o \in Message \ {Notice} : handler'[o] = handler[o]
      /\ chat' \subseteq chat /\ log' \subseteq log \cup {Notice} /\ spared \subseteq spared'
      /\ \A m \in Posted \ {Notice} : /\ m \in chat' <=> m \in chat
                                      /\ m \in log => m \in log'
      /\ \/ handler'[Notice].at = "posting" /\ handler[Notice].at = "new"
         \/ handler'[Notice].at = "discarding"
         \/ /\ handler'[Notice].at = "over"
            /\ Notice \in log' \/ Notice \in spared' \/ Notice \notin chat'
  <2>1. CASE NoticeStarts
    <3>1. /\ handler \in [Message -> ChatHandler] /\ handler[Notice] \in ChatHandler
          /\ era \in Nat \X Nat /\ Notice \in Message
      BY <1>1, ChatNames DEF ChatTypes
    <3>2. /\ handler' = [handler EXCEPT ![Notice].at = "posting", ![Notice].token = era]
          /\ handler[Notice].at = "new" /\ UNCHANGED <<chat, log, spared>>
      BY <2>1 DEF NoticeStarts
    <3>3. /\ handler'[Notice] = [handler[Notice] EXCEPT !.at = "posting", !.token = era]
          /\ \A o \in Message \ {Notice} : handler'[o] = handler[o]
      BY <3>1, <3>2
    <3>4. handler'[Notice] \in ChatHandler /\ handler'[Notice].at = "posting"
      BY <3>1, <3>3 DEF ChatHandler, ChatStage
    <3>5. handler' \in [Message -> ChatHandler]
      BY <3>1, <3>2, <3>3, <3>4
    <3> QED
      BY <3>2, <3>3, <3>4, <3>5
  <2>2. CASE \E recorded \in BOOLEAN : NoticeFinal(recorded)
    <3>1. PICK at \in {"over", "discarding"} :
            /\ ChatMoves(Notice, at)
            /\ at = "over" => log' = log \cup {Notice}
            /\ at = "discarding" => log' = log
            /\ UNCHANGED <<chat, spared>>
      BY <2>2 DEF NoticeFinal, Logs
    <3>2. at \in ChatStage
      BY DEF ChatStage
    <3> QED
      BY <1>1, <3>1, <3>2, ChatMovesOne, ChatNames
  <2>3. CASE \E works, tracked \in BOOLEAN : NoticeDiscarded(works, tracked)
    <3>1. /\ ChatMoves(Notice, "over")
          /\ \/ chat' = chat \ {Notice} /\ log' = log \ {Notice} /\ spared' = spared
             \/ log' = log \cup {Notice} /\ chat' = chat /\ spared' = spared
             \/ spared' = spared \cup {Notice} /\ chat' = chat /\ log' = log
      BY <2>3 DEF NoticeDiscarded, Logs, Unlogs
    <3>2. "over" \in ChatStage
      BY DEF ChatStage
    <3> QED
      BY <1>1, <3>1, <3>2, ChatMovesOne, ChatNames
  <2> QED
    BY <2>1, <2>2, <2>3
<1>3. ChatTypes'
  BY <1>1, <1>2, ChatNames DEF ChatTypes
<1>4. \A c \in Command : handler'[c] = handler[c] /\ handler[c].at \notin {"saving", "clearing"}
  BY <1>1, <1>2, ChatNames DEF LatchInv
<1>5. LatchInv'
  BY <1>1, <1>4, LatchStays
<1>6. PostedInv(Notice)'
  BY <1>1, <1>2, <1>4 DEF PostedInv, Given
<1> QED
  BY <1>1, <1>2, <1>3, <1>5, <1>6, ChatNames, MessageStep

-----------------------------------------------------------------------------
(* The commands. *)

(* A step of a command that posts, logs and deletes nothing, and after     *)
(* which no clear is under way.                                            *)
LEMMA CommandStep ==
  ASSUME ChatInv, ChatTypes', LatchInv', NEW c \in Command,
         \A o \in Message \ {c} : handler'[o] = handler[o],
         \A d \in Command : handler[d].at # "clearing" /\ handler'[d].at # "clearing",
         handler[c].at # "discarding",
         \A m \in Prompt : node[m].state = "none" => node'[m].state = "none",
         \A m \in Held : m \in Held' \/ Given(m)',
         era' = era \/ (era' = <<era[1] + 1, era[2]>>),
         overtaken' \ overtaken \subseteq
           {m \in Prompt : /\ handler[m].at # "new" /\ node'[m].state = "none"
                           /\ handler[m].at \in Early => handler[m].token # era'},
         handler'[c].at = "saving" /\ handler'[c].kind = "stop" => era' # era,
         UNCHANGED <<chat, log, spared>>
  PROVE  ChatInv'
<1>1. ASSUME NEW m \in Posted
      PROVE  PostedInv(m)'
  <2>1. PostedInv(m) /\ handler'[m] = handler[m]
    BY ChatNames DEF ChatInv
  <2>2. Given(m) => Given(m)'
    <3>1. ASSUME NEW d \in Command, handler[d].at \in {"clearing", "discarding"},
                 m \in handler[d].ids
          PROVE  Given(m)'
      <4>1. d # c
        BY <3>1
      <4> QED
        BY <3>1, <4>1, ChatNames DEF Given
    <3> QED
      BY <3>1 DEF Given
  <2> QED
    BY <2>1, <2>2 DEF PostedInv
<1>2. ASSUME NEW m \in Prompt
      PROVE  PromptInv(m)'
  <2>1. PromptInv(m) /\ handler'[m] = handler[m] /\ handler[m] \in ChatHandler
    BY ChatNames DEF ChatInv, ChatTypes
  <2>2. handler[m].at \in Early =>
          handler'[m].token[1] <= era'[1] /\ handler'[m].token[2] <= era'[2]
    <3>1. handler[m].token \in Nat \X Nat /\ era \in Nat \X Nat
      BY <2>1 DEF ChatInv, ChatTypes, ChatHandler
    <3>2. era'[1] \in {era[1], era[1] + 1} /\ era'[2] = era[2]
      BY <3>1
    <3> QED
      BY <2>1, <3>1, <3>2 DEF PromptInv
  <2>3. m \in overtaken' => handler'[m].at # "new" /\ node'[m].state = "none"
    BY <2>1 DEF PromptInv
  <2>4. ASSUME handler[m].at \in Early, handler[m].token = era'
        PROVE  /\ m \notin overtaken'
               /\ \A d \in Command : ~(handler'[d].at = "saving" /\ handler'[d].kind = "stop")
    <3>1. era' = era
      <4>1. handler[m].token \in Nat \X Nat /\ era \in Nat \X Nat
        BY <2>1 DEF ChatInv, ChatTypes, ChatHandler
      <4>2. era' # <<era[1] + 1, era[2]>>
        BY <2>1, <2>4, <4>1 DEF PromptInv
      <4> QED
        BY <4>2
    <3>2. m \notin overtaken'
      BY <2>1, <2>4, <3>1 DEF PromptInv
    <3>3. ASSUME NEW d \in Command
          PROVE  ~(handler'[d].at = "saving" /\ handler'[d].kind = "stop")
      <4>1. CASE d = c
        BY <3>1, <4>1
      <4>2. CASE d # c
        BY <2>1, <2>4, <3>1, <4>2, ChatNames DEF PromptInv
      <4> QED
        BY <4>1, <4>2
    <3> QED
      BY <3>2, <3>3
  <2>5. handler'[m].at # "over" => node'[m].state = "none"
    BY <2>1 DEF PromptInv
  <2> QED
    BY <2>1, <2>2, <2>3, <2>4, <2>5 DEF PromptInv
<1> QED
  BY <1>1, <1>2 DEF ChatInv

(* A command is received.                                                  *)
LEMMA CommandArrivesInv ==
  ASSUME ChatInv, NEW c \in Command, NEW kind \in ChatKind, NEW target \in Prompt \cup {NoMessage},
         CommandArrives(c, kind, target)
  PROVE  ChatInv'
<1>1. /\ ChatTypes /\ LatchInv /\ handler[c].at = "new" /\ latch = NoMessage
      /\ handler' = [handler EXCEPT ![c].at = "command", ![c].kind = kind, ![c].target = target]
      /\ UNCHANGED <<chat, log, node, stored, latch, era, spared, overtaken>>
  BY DEF ChatInv, CommandArrives
<1>2. handler \in [Message -> ChatHandler] /\ handler[c] \in ChatHandler
  BY <1>1, ChatNames DEF ChatTypes
<1>3. /\ handler'[c] = [handler[c] EXCEPT !.at = "command", !.kind = kind, !.target = target]
      /\ \A o \in Message \ {c} : handler'[o] = handler[o]
  BY <1>1, <1>2, ChatNames
<1>4. /\ handler'[c] \in ChatHandler /\ handler'[c].at = "command"
      /\ handler'[c].kind = kind /\ handler'[c].target = target
  BY <1>2, <1>3 DEF ChatHandler, ChatStage
<1>5. handler' \in [Message -> ChatHandler]
  BY <1>1, <1>2, <1>3, <1>4
<1>6. ChatTypes'
  BY <1>1, <1>5 DEF ChatTypes
<1>7. \A d \in Command : /\ handler[d].at \notin {"saving", "clearing"}
                         /\ handler'[d].at \notin {"saving", "clearing"}
  BY <1>1, <1>3, <1>4, ChatNames DEF LatchInv
<1>8. Held' = Held
  BY <1>1 DEF Held
<1>9. LatchInv'
  <2>1. kind = "stop_reply" => target \in Prompt
    BY DEF CommandArrives
  <2>2. ASSUME NEW d \in Command, handler'[d].at = "command", handler'[d].kind = "stop_reply"
        PROVE  handler'[d].target \in Prompt
    <3>1. CASE d = c
      BY <1>4, <2>1, <2>2, <3>1
    <3>2. CASE d # c
      BY <1>1, <1>3, <2>2, <3>2, ChatNames DEF LatchInv
    <3> QED
      BY <3>1, <3>2
  <2>3. \A d \in Command : latch' = d <=> handler'[d].at \in {"saving", "clearing"}
    BY <1>1, <1>7, ChatNames
  <2> QED
    BY <1>1, <1>7, <1>8, <2>2, <2>3 DEF LatchInv
<1>10. handler[c].at # "discarding"
  BY <1>1
<1> QED
  BY <1>1, <1>3, <1>4, <1>6, <1>7, <1>8, <1>9, <1>10, CommandStep

(* Stopping everything, or one prompt, takes the lock.                     *)
LEMMA StopsInv ==
  ASSUME ChatInv, NEW c \in Command, StopsAll(c) \/ StopsReply(c)
  PROVE  ChatInv'
<1>1. /\ ChatTypes /\ LatchInv /\ handler[c].at = "command" /\ latch = NoMessage
      /\ UNCHANGED <<chat, log, stored, spared, overtaken>>
      /\ node \in [Prompt -> ChatNode] /\ handler \in [Message -> ChatHandler]
      /\ handler[c] \in ChatHandler
  BY ChatNames DEF ChatInv, ChatTypes, StopsAll, StopsReply, Handling
<1>2. \A d \in Command : handler[d].at \notin {"saving", "clearing"}
  BY <1>1, ChatNames DEF LatchInv
<1>3. CASE StopsAll(c) \/ (StopsReply(c) /\ handler[c].target \in Prompt
                           /\ node[handler[c].target].state \in {"queued", "active"})
  <2>1. /\ handler' = [handler EXCEPT ![c].at = "saving"] /\ latch' = c
        /\ era' = <<era[1] + 1, era[2]>> \/ (era' = era /\ handler[c].kind = "stop_reply")
    BY <1>3 DEF StopsAll, StopsReply, Handling
  <2>2. /\ node' \in [Prompt -> ChatNode]
        /\ \A m \in Prompt : node'[m].state = "none" <=> node[m].state = "none"
    <3>1. CASE StopsAll(c)
      <4> DEFINE ended == {m \in Prompt : node[m].state \in {"queued", "active"}}
      <4>1. node' = Ended(node, ended) /\ ended \in SUBSET Prompt
            /\ \A m \in ended : node[m].state # "none"
        BY <3>1 DEF StopsAll
      <4> HIDE DEF ended
      <4> QED
        BY <1>1, <4>1, EndedKeeps
    <3>2. CASE StopsReply(c) /\ handler[c].target \in Prompt
               /\ node[handler[c].target].state \in {"queued", "active"}
      <4>1. PICK m \in Prompt : m = handler[c].target
        BY <3>2
      <4>2. node' \in Claimed(Ended(node, {m})) /\ node[m].state # "none"
        BY <3>2, <4>1 DEF StopsReply
      <4> QED
        BY <1>1, <4>2, EndedKeeps, ClaimedKeeps
    <3> QED
      BY <1>3, <3>1, <3>2
  <2>3. /\ handler'[c] = [handler[c] EXCEPT !.at = "saving"]
        /\ \A o \in Message \ {c} : handler'[o] = handler[o]
    BY <1>1, <2>1, ChatNames
  <2>4. /\ handler'[c] \in ChatHandler /\ handler'[c].at = "saving"
        /\ handler'[c].kind = handler[c].kind
    BY <1>1, <2>3 DEF ChatHandler, ChatStage
  <2>5. handler' \in [Message -> ChatHandler]
    BY <1>1, <2>1, <2>3, <2>4
  <2>6. era \in Nat \X Nat /\ era' \in Nat \X Nat /\ era # <<era[1] + 1, era[2]>>
    BY <1>1, <2>1 DEF ChatTypes
  <2>7. ChatTypes'
    BY <1>1, <2>1, <2>2, <2>5, <2>6 DEF ChatTypes
  <2>8. Held' = Held
    BY <2>2, HeldSame
  <2>9. LatchInv'
    <3>1. \A d \in Command : latch' = d <=> handler'[d].at \in {"saving", "clearing"}
      BY <1>2, <2>1, <2>3, <2>4, ChatNames
    <3>2. \A d \in Command : handler'[d].at # "clearing"
      BY <1>2, <2>3, <2>4, ChatNames
    <3>3. ASSUME NEW d \in Command, handler'[d].at = "command", handler'[d].kind = "stop_reply"
          PROVE  handler'[d].target \in Prompt
      BY <1>1, <2>3, <2>4, <3>3, ChatNames DEF LatchInv
    <3> QED
      BY <1>1, <1>2, <2>8, <3>1, <3>2, <3>3 DEF LatchInv
  <2>10. \A d \in Command : handler[d].at # "clearing" /\ handler'[d].at # "clearing"
    BY <1>2, <2>3, <2>4, ChatNames
  <2>11. handler'[c].kind = "stop" => era' # era
    BY <2>1, <2>4, <2>6
  <2> QED
    BY <1>1, <2>1, <2>2, <2>3, <2>7, <2>8, <2>9, <2>10, <2>11, CommandStep
<1>4. CASE StopsReply(c) /\ node[handler[c].target].state \notin {"queued", "active"}
  <2>1. ChatMoves(c, "over") /\ node' = node /\ latch' = latch /\ era' = era
    BY <1>4 DEF StopsReply
  <2>2. /\ handler' \in [Message -> ChatHandler] /\ handler'[c].at = "over"
        /\ \A o \in Message \ {c} : handler'[o] = handler[o]
    <3>1. "over" \in ChatStage /\ c \in Message
      BY ChatNames DEF ChatStage
    <3> QED
      BY <1>1, <2>1, <3>1, ChatMovesOne
  <2>3. ChatTypes'
    BY <1>1, <2>1, <2>2 DEF ChatTypes
  <2>4. Held' = Held
    BY <2>1 DEF Held
  <2>5. \A d \in Command : /\ handler[d].at # "clearing" /\ handler'[d].at # "clearing"
                           /\ handler'[d].at \notin {"saving", "clearing"}
    BY <1>2, <2>2, ChatNames
  <2>6. LatchInv'
    <3>1. ASSUME NEW d \in Command, handler'[d].at = "command", handler'[d].kind = "stop_reply"
          PROVE  handler'[d].target \in Prompt
      BY <1>1, <2>2, <3>1, ChatNames DEF LatchInv
    <3>2. \A d \in Command : latch' = d <=> handler'[d].at \in {"saving", "clearing"}
      BY <1>1, <2>1, <2>5, ChatNames
    <3> QED
      BY <1>1, <1>2, <2>4, <2>5, <3>1, <3>2 DEF LatchInv
  <2>7. handler[c].at # "discarding" /\ handler'[c].at # "saving"
    BY <1>1, <2>2
  <2> QED
    BY <1>1, <2>1, <2>2, <2>3, <2>4, <2>5, <2>6, <2>7, CommandStep
<1> QED
  BY <1>1, <1>3, <1>4 DEF StopsReply, LatchInv, Handling

(* The lock after a step that leaves no command waiting for a reply.       *)
LEMMA TargetStays ==
  ASSUME LatchInv, NEW c \in Command, handler'[c].at # "command",
         \A o \in Message \ {c} : handler'[o] = handler[o]
  PROVE  \A d \in Command : handler'[d].at = "command" /\ handler'[d].kind = "stop_reply" =>
           handler'[d].target \in Prompt
BY ChatNames DEF LatchInv

(* A stop saves what it stopped, and gives back the lock.                  *)
LEMMA StopSavesInv ==
  ASSUME ChatInv, NEW c \in Command, StopSaves(c)
  PROVE  ChatInv'
<1>1. /\ ChatTypes /\ LatchInv /\ handler[c].at = "saving" /\ latch' = NoMessage
      /\ stored' = stored \cup Held /\ ChatMoves(c, "over")
      /\ UNCHANGED <<chat, log, node, era, spared>>
  BY DEF ChatInv, StopSaves
<1>2. /\ handler' \in [Message -> ChatHandler] /\ handler'[c].at = "over"
      /\ \A o \in Message \ {c} : handler'[o] = handler[o]
  <2>1. "over" \in ChatStage /\ c \in Message
    BY ChatNames DEF ChatStage
  <2> QED
    BY <1>1, <2>1, ChatMovesOne
<1>3. latch = c /\ \A d \in Command \ {c} : handler[d].at \notin {"saving", "clearing"}
  BY <1>1 DEF LatchInv
<1>4. \A d \in Command : /\ handler[d].at # "clearing"
                         /\ handler'[d].at \notin {"saving", "clearing"}
  BY <1>1, <1>2, <1>3, ChatNames
<1>5. overtaken' \ overtaken \subseteq
        {m \in Prompt : /\ handler[m].at # "new" /\ node'[m].state = "none"
                        /\ handler[m].at \in Early => handler[m].token # era'}
  <2>1. CASE handler[c].kind = "stop"
    <3>1. overtaken' = overtaken \cup (Received \ Held)
      BY <2>1 DEF StopSaves
    <3>2. ASSUME NEW m \in Received \ Held
          PROVE  /\ m \in Prompt /\ handler[m].at # "new" /\ node'[m].state = "none"
                 /\ handler[m].at \in Early => handler[m].token # era'
      BY <1>1, <2>1 DEF Received, Held, ChatInv, PromptInv
    <3> QED
      BY <3>1, <3>2
  <2>2. CASE handler[c].kind # "stop"
    BY <2>2 DEF StopSaves
  <2> QED
    BY <2>1, <2>2
<1>6. overtaken' \subseteq Prompt /\ Held' = Held
  BY <1>1, <1>5 DEF ChatTypes, Held
<1>7. stored \subseteq Held /\ stored' \subseteq Prompt
  BY <1>1, <1>4 DEF LatchInv, Held
<1>8. ChatTypes'
  BY <1>1, <1>2, <1>6, <1>7 DEF ChatTypes
<1>9. LatchInv'
  <2>1. \A d \in Command : handler'[d].at = "command" /\ handler'[d].kind = "stop_reply" =>
          handler'[d].target \in Prompt
    BY <1>1, <1>2, TargetStays
  <2> QED
    BY <1>1, <1>4, <1>6, <1>7, <2>1, ChatNames DEF LatchInv
<1>10. handler[c].at # "discarding" /\ handler'[c].at # "saving"
  BY <1>1, <1>2
<1> QED
  BY <1>1, <1>2, <1>4, <1>5, <1>6, <1>8, <1>9, <1>10, CommandStep

(* A message and its replies are cleared.                                  *)
LEMMA ClearsReplyInv ==
  ASSUME ChatInv, NEW c \in Command, ClearsReply(c)
  PROVE  ChatInv'
<1> DEFINE m0 == handler[c].target
           below == {o \in Held : m0 \in node[o].above}
<1>1. /\ ChatTypes /\ LatchInv /\ handler[c].at = "command" /\ latch = NoMessage
      /\ UNCHANGED <<chat, log, latch, era, spared, overtaken>>
      /\ node \in [Prompt -> ChatNode] /\ handler \in [Message -> ChatHandler]
      /\ handler[c] \in ChatHandler
  BY ChatNames DEF ChatInv, ChatTypes, ClearsReply, Handling
<1>2. \A d \in Command : handler[d].at \notin {"saving", "clearing"}
  BY <1>1, ChatNames DEF LatchInv
<1>3. stored \subseteq Held
  BY <1>1, <1>2 DEF LatchInv
<1>4. CASE m0 \in Held
  <2>1. /\ node' \in Claimed(Removed(node, below)) /\ stored' = stored \ below
        /\ handler' = [handler EXCEPT ![c].at = "discarding", ![c].ids = below]
        /\ below \subseteq Prompt
    BY <1>4 DEF ClearsReply, Held
  <2> HIDE DEF below
  <2>2. /\ node' \in [Prompt -> ChatNode]
        /\ \A m \in Prompt : node'[m].state = "none" <=> node[m].state = "none" \/ m \in below
    BY <1>1, <2>1, RemovedKeeps, ClaimedKeeps
  <2>3. PICK ids \in SUBSET (Prompt \cup {Notice}) : ids = below
    BY <2>1
  <2>4. /\ handler'[c] = [handler[c] EXCEPT !.at = "discarding", !.ids = ids]
        /\ \A o \in Message \ {c} : handler'[o] = handler[o]
    BY <1>1, <2>1, <2>3, ChatNames
  <2>5. handler'[c] \in ChatHandler /\ handler'[c].at = "discarding" /\ handler'[c].ids = ids
    BY <1>1, <2>4 DEF ChatHandler, ChatStage
  <2>6. handler' \in [Message -> ChatHandler]
    BY <1>1, <2>1, <2>4, <2>5
  <2>7. Held' = Held \ below
    BY <2>2 DEF Held
  <2>8. ChatTypes'
    BY <1>1, <2>1, <2>2, <2>6 DEF ChatTypes
  <2>9. \A d \in Command : handler'[d].at \notin {"saving", "clearing"}
    BY <1>2, <2>4, <2>5, ChatNames
  <2>10. LatchInv'
    <3>1. \A d \in Command : handler'[d].at = "command" /\ handler'[d].kind = "stop_reply" =>
            handler'[d].target \in Prompt
      BY <1>1, <2>4, <2>5, TargetStays
    <3> QED
      BY <1>1, <1>3, <2>1, <2>7, <2>9, <3>1, ChatNames DEF LatchInv
  <2>11. \A m \in Held : m \in Held' \/ Given(m)'
    BY <2>3, <2>5, <2>7 DEF Given
  <2>12. handler[c].at # "discarding" /\ handler'[c].at # "saving"
    BY <1>1, <2>5
  <2> QED
    BY <1>1, <1>2, <2>2, <2>4, <2>8, <2>9, <2>10, <2>11, <2>12, CommandStep
<1>5. CASE m0 \notin Held
  <2>1. ChatMoves(c, "over") /\ UNCHANGED <<node, stored>>
    BY <1>5 DEF ClearsReply
  <2>2. /\ handler' \in [Message -> ChatHandler] /\ handler'[c].at = "over"
        /\ \A o \in Message \ {c} : handler'[o] = handler[o]
    <3>1. "over" \in ChatStage /\ c \in Message
      BY ChatNames DEF ChatStage
    <3> QED
      BY <1>1, <2>1, <3>1, ChatMovesOne
  <2>3. ChatTypes' /\ Held' = Held
    BY <1>1, <2>1, <2>2 DEF ChatTypes, Held
  <2>4. \A d \in Command : handler'[d].at \notin {"saving", "clearing"}
    BY <1>2, <2>2, ChatNames
  <2>5. LatchInv'
    <3>1. \A d \in Command : handler'[d].at = "command" /\ handler'[d].kind = "stop_reply" =>
            handler'[d].target \in Prompt
      BY <1>1, <2>2, TargetStays
    <3> QED
      BY <1>1, <1>3, <2>1, <2>3, <2>4, <3>1, ChatNames DEF LatchInv
  <2>6. handler[c].at # "discarding" /\ handler'[c].at # "saving"
    BY <1>1, <2>2
  <2> QED
    BY <1>1, <1>2, <2>1, <2>2, <2>3, <2>4, <2>5, <2>6, CommandStep
<1> QED
  BY <1>4, <1>5

(* Clearing the chat collects what it knows of, takes the trees down and   *)
(* takes the lock; whoever was under way was received too early.           *)
LEMMA TakesDownInv ==
  ASSUME ChatInv, NEW c \in Command, TakesDown(c)
  PROVE  ChatInv'
<1>1. /\ ChatTypes /\ LatchInv /\ handler[c].at = "command" /\ latch = NoMessage /\ latch' = c
      /\ UNCHANGED <<chat, log, stored, spared, overtaken>>
      /\ node \in [Prompt -> ChatNode] /\ handler \in [Message -> ChatHandler]
      /\ handler[c] \in ChatHandler /\ era \in Nat \X Nat
      /\ era' = <<era[1], era[2] + 1>> /\ node' = Removed(node, Held)
      /\ handler' = [handler EXCEPT ![c].at = "clearing", ![c].ids = Collected]
  BY ChatNames DEF ChatInv, ChatTypes, TakesDown, Handling
<1>2. \A d \in Command : handler[d].at \notin {"saving", "clearing"}
  BY <1>1, ChatNames DEF LatchInv
<1>3. PICK ids \in SUBSET (Prompt \cup {Notice}) :
        ids = Collected /\ log \subseteq ids /\ Held \subseteq ids
  <2>1. Held \subseteq Prompt /\ log \subseteq Prompt \cup {Notice}
    BY <1>1 DEF ChatTypes, Posted, Held
  <2>2. Collected \in SUBSET (Prompt \cup {Notice})
    BY <2>1 DEF Collected
  <2>3. log \subseteq Collected /\ Held \subseteq Collected
    BY DEF Collected
  <2> QED
    BY <2>2, <2>3
<1>4. /\ handler'[c] = [handler[c] EXCEPT !.at = "clearing", !.ids = ids]
      /\ \A o \in Message \ {c} : handler'[o] = handler[o]
  BY <1>1, <1>3, ChatNames
<1>5. handler'[c] \in ChatHandler /\ handler'[c].at = "clearing" /\ handler'[c].ids = ids
  <2>1. handler[c] \in ChatHandler
    BY <1>1
  <2> QED
    BY <1>4, <2>1 DEF ChatHandler, ChatStage
<1>6. handler' \in [Message -> ChatHandler]
  BY <1>1, <1>4, <1>5
<1>7. /\ node' \in [Prompt -> ChatNode]
      /\ \A m \in Prompt : node'[m].state = "none"
  <2>1. Held \in SUBSET Prompt /\ \A m \in Prompt : node[m].state = "none" \/ m \in Held
    BY DEF Held
  <2> QED
    BY <1>1, <2>1, RemovedKeeps
<1>8. era' \in Nat \X Nat /\ era'[1] = era[1] /\ era'[2] = era[2] + 1
  BY <1>1
<1>9. ChatTypes'
  BY <1>1, <1>6, <1>7, <1>8 DEF ChatTypes
<1>10. LatchInv'
  <2>1. \A d \in Command : handler'[d].at = "command" /\ handler'[d].kind = "stop_reply" =>
          handler'[d].target \in Prompt
    BY <1>1, <1>4, <1>5, TargetStays
  <2>2. \A d \in Command : latch' = d <=> handler'[d].at \in {"saving", "clearing"}
    BY <1>1, <1>2, <1>4, <1>5, ChatNames
  <2>3. Held' = {}
    BY <1>7 DEF Held
  <2> QED
    BY <1>5, <2>1, <2>2, <2>3 DEF LatchInv
<1>11. ASSUME NEW m \in Posted
       PROVE  PostedInv(m)'
  <2>1. PostedInv(m) /\ handler'[m] = handler[m]
    BY <1>4, ChatNames DEF ChatInv
  <2>2. m \in log \cup Held \/ Given(m) => Given(m)'
    <3>1. m \in log \cup Held => Given(m)'
      BY <1>3, <1>5 DEF Given
    <3>2. ASSUME NEW d \in Command, handler[d].at \in {"clearing", "discarding"},
                 m \in handler[d].ids
          PROVE  Given(m)'
      <4>1. d # c /\ handler'[d] = handler[d]
        BY <1>1, <1>4, <3>2, ChatNames
      <4> QED
        BY <3>2, <4>1 DEF Given
    <3>3. m \in spared => Given(m)'
      BY <1>1 DEF Given
    <3> QED
      BY <3>1, <3>2, <3>3 DEF Given
  <2> QED
    BY <1>1, <2>1, <2>2 DEF PostedInv
<1>12. ASSUME NEW m \in Prompt
       PROVE  PromptInv(m)'
  <2>1. PromptInv(m) /\ handler'[m] = handler[m] /\ handler[m] \in ChatHandler
    BY <1>1, <1>4, ChatNames DEF ChatInv
  <2>2. handler[m].at \in Early =>
          /\ handler'[m].token[1] <= era'[1] /\ handler'[m].token[2] <= era'[2]
          /\ handler'[m].token # era'
    <3>1. handler[m].token \in Nat \X Nat
      BY <2>1 DEF ChatHandler
    <3>2. PICK a \in Nat, b \in Nat : handler[m].token[1] = a /\ handler[m].token[2] = b
      BY <3>1
    <3>3. PICK e \in Nat, f \in Nat : era[1] = e /\ era[2] = f
      BY <1>1
    <3>4. handler[m].at \in Early => a <= e /\ b <= f
      BY <2>1, <3>2, <3>3 DEF PromptInv
    <3> QED
      BY <1>8, <2>1, <3>2, <3>3, <3>4
  <2> QED
    BY <1>1, <1>7, <2>1, <2>2 DEF PromptInv
<1> QED
  BY <1>9, <1>10, <1>11, <1>12 DEF ChatInv

(* The store is cleared, or its write fails: the lock is given back.       *)
LEMMA ClearsStoreInv ==
  ASSUME ChatInv, NEW c \in Command, NEW works \in BOOLEAN, ClearsStore(c, works)
  PROVE  ChatInv'
<1>1. /\ ChatTypes /\ LatchInv /\ handler[c].at = "clearing" /\ latch' = NoMessage
      /\ stored' = {} /\ log' = {} /\ overtaken' = overtaken \cup Received
      /\ UNCHANGED <<chat, node, era>>
  BY DEF ChatInv, ClearsStore
<1>2. PICK at \in {"discarding", "over"} :
        /\ ChatMoves(c, at)
        /\ at = "discarding" => spared' = spared
        /\ at = "over" => spared' = spared \cup handler[c].ids
  BY DEF ClearsStore
<1>3. /\ handler' \in [Message -> ChatHandler] /\ handler'[c].at = at
      /\ \A o \in Message \ {c} : handler'[o] = handler[o]
      /\ at # "over" => handler'[c].ids = handler[c].ids
  <2>1. at \in ChatStage /\ c \in Message
    BY ChatNames DEF ChatStage
  <2> QED
    BY <1>1, <1>2, <2>1, ChatMovesOne
<1>4. latch = c /\ Held = {} /\ \A d \in Command \ {c} : handler[d].at \notin {"saving", "clearing"}
  BY <1>1 DEF LatchInv
<1>5. \A d \in Command : handler'[d].at \notin {"saving", "clearing"}
  BY <1>3, <1>4, ChatNames
<1>6. ChatTypes'
  BY <1>1, <1>3 DEF ChatTypes, Received
<1>7. LatchInv'
  <2>1. \A d \in Command : handler'[d].at = "command" /\ handler'[d].kind = "stop_reply" =>
          handler'[d].target \in Prompt
    BY <1>1, <1>3, TargetStays
  <2> QED
    BY <1>1, <1>5, <2>1, ChatNames DEF LatchInv
<1>8. ASSUME NEW m \in Posted
      PROVE  PostedInv(m)'
  <2>1. PostedInv(m) /\ handler'[m] = handler[m]
    BY <1>3, ChatNames DEF ChatInv
  <2>2. Given(m) => Given(m)'
    <3>1. ASSUME NEW d \in Command, handler[d].at \in {"clearing", "discarding"},
                 m \in handler[d].ids
          PROVE  Given(m)'
      <4>1. CASE d = c
        BY <1>2, <1>3, <3>1, <4>1 DEF Given
      <4>2. CASE d # c
        <5>1. handler'[d] = handler[d]
          BY <1>3, <4>2, ChatNames
        <5> QED
          BY <3>1, <5>1 DEF Given
      <4> QED
        BY <4>1, <4>2
    <3>2. m \in spared => Given(m)'
      BY <1>2 DEF Given
    <3> QED
      BY <3>1, <3>2 DEF Given
  <2> QED
    BY <1>1, <2>1, <2>2 DEF PostedInv
<1>9. ASSUME NEW m \in Prompt
      PROVE  PromptInv(m)'
  <2>1. PromptInv(m) /\ handler'[m] = handler[m]
    BY <1>3, ChatNames DEF ChatInv
  <2>2. node'[m].state = "none"
    BY <1>1, <1>4 DEF Held
  <2>3. handler[m].at \in Early => handler[m].token # era
    BY <1>1, <2>1 DEF PromptInv
  <2>4. m \in overtaken' => handler[m].at # "new"
    BY <1>1, <2>1 DEF PromptInv, Received
  <2> QED
    BY <1>1, <2>1, <2>2, <2>3, <2>4 DEF PromptInv
<1> QED
  BY <1>6, <1>7, <1>8, <1>9 DEF ChatInv

(* A clear deletes what it collected, or gives it up.                      *)
LEMMA CommandDiscards ==
  ASSUME ChatInv, NEW c \in Command, NEW works \in BOOLEAN, TurnDiscards(c, works)
  PROVE  ChatInv'
<1>1. /\ ChatTypes /\ LatchInv /\ handler[c].at = "discarding"
      /\ Deletes(handler[c].ids, works) /\ ChatMoves(c, "over")
      /\ UNCHANGED <<node, stored, latch, era, overtaken>>
      /\ log' = log \/ log' = log \ handler[c].ids
  BY DEF ChatInv, TurnDiscards, Unlogs
<1>2. /\ \/ chat' = chat \ handler[c].ids /\ spared' = spared
         \/ chat' = chat /\ spared' = spared \cup handler[c].ids
  BY <1>1 DEF Deletes
<1>3. /\ handler' \in [Message -> ChatHandler] /\ handler'[c].at = "over"
      /\ \A o \in Message \ {c} : handler'[o] = handler[o]
  <2>1. "over" \in ChatStage /\ c \in Message
    BY ChatNames DEF ChatStage
  <2> QED
    BY <1>1, <2>1, ChatMovesOne
<1>4. ChatTypes'
  BY <1>1, <1>2, <1>3 DEF ChatTypes
<1>5. Held' = Held
  BY <1>1 DEF Held
<1>6. \A d \in Command : d # c => handler'[d] = handler[d]
  BY <1>3, ChatNames
<1>7. LatchInv'
  <2>1. \A d \in Command : handler'[d].at = "command" /\ handler'[d].kind = "stop_reply" =>
          handler'[d].target \in Prompt
    BY <1>1, <1>3, TargetStays
  <2>2. \A d \in Command : /\ handler'[d].at \in {"saving", "clearing"}
                              <=> handler[d].at \in {"saving", "clearing"}
                           /\ handler'[d].at = "clearing" <=> handler[d].at = "clearing"
    BY <1>1, <1>3, <1>6
  <2> QED
    BY <1>1, <1>5, <2>1, <2>2 DEF LatchInv
<1>8. ASSUME NEW m \in Posted
      PROVE  PostedInv(m)'
  <2>1. PostedInv(m) /\ handler'[m] = handler[m]
    BY <1>3, ChatNames DEF ChatInv
  <2>2. \A d \in Command : handler[d].at # "clearing" => handler'[d].at # "clearing"
    BY <1>3, <1>6
  <2>3. CASE m \in handler[c].ids
    BY <1>1, <1>2, <2>1, <2>3 DEF PostedInv, Given
  <2>4. CASE m \notin handler[c].ids
    <3>1. Given(m) => Given(m)'
      <4>1. ASSUME NEW d \in Command, handler[d].at \in {"clearing", "discarding"},
                   m \in handler[d].ids
            PROVE  Given(m)'
        <5>1. handler'[d] = handler[d]
          BY <1>6, <2>4, <4>1
        <5> QED
          BY <4>1, <5>1 DEF Given
      <4>2. m \in spared => Given(m)'
        BY <1>2 DEF Given
      <4> QED
        BY <4>1, <4>2 DEF Given
    <3>2. (m \in chat' => m \in chat) /\ (m \in log => m \in log')
      BY <1>1, <1>2, <2>4
    <3> QED
      BY <1>5, <2>1, <2>2, <3>1, <3>2 DEF PostedInv
  <2> QED
    BY <2>3, <2>4
<1>9. ASSUME NEW m \in Prompt
      PROVE  PromptInv(m)'
  <2>1. PromptInv(m) /\ handler'[m] = handler[m]
    BY <1>3, ChatNames DEF ChatInv
  <2>2. \A d \in Command :
          /\ handler[d].at # "clearing" => handler'[d].at # "clearing"
          /\ ~(handler[d].at = "saving" /\ handler[d].kind = "stop")
               => ~(handler'[d].at = "saving" /\ handler'[d].kind = "stop")
    BY <1>3, <1>6
  <2> QED
    BY <1>1, <2>1, <2>2 DEF PromptInv
<1> QED
  BY <1>4, <1>7, <1>8, <1>9 DEF ChatInv

(* In the beginning nothing has arrived.                                   *)
LEMMA ChatInvInit ==
  ASSUME ChatInit
  PROVE  ChatInv
<1>1. /\ chat = {} /\ log = {} /\ stored = {} /\ spared = {} /\ overtaken = {}
      /\ latch = NoMessage /\ era = <<0, 0>>
  BY DEF ChatInit
<1>2. PICK r \in ChatHandler : r = Idle /\ r.at = "new"
  <2>1. Idle \in ChatHandler /\ Idle.at = "new"
    BY DEF Idle, ChatHandler, ChatStage, ChatKind
  <2> QED
    BY <2>1
<1>3. handler = [m \in Message |-> r]
  BY <1>2 DEF ChatInit
<1>4. PICK n \in ChatNode : n = Absent /\ n.state = "none"
  <2>1. Absent \in ChatNode /\ Absent.state = "none"
    BY DEF Absent, ChatNode
  <2> QED
    BY <2>1
<1>5. node = [m \in Prompt |-> n]
  BY <1>4 DEF ChatInit
<1>6. handler \in [Message -> ChatHandler] /\ \A m \in Message : handler[m].at = "new"
  BY <1>2, <1>3
<1>7. node \in [Prompt -> ChatNode] /\ \A m \in Prompt : node[m].state = "none"
  BY <1>4, <1>5
<1>8. ChatTypes
  BY <1>1, <1>6, <1>7 DEF ChatTypes
<1>9. LatchInv
  BY <1>1, <1>6, ChatNames DEF LatchInv
<1>10. \A m \in Posted : PostedInv(m)
  BY <1>1, <1>6, ChatNames DEF PostedInv
<1>11. \A m \in Prompt : PromptInv(m)
  BY <1>1, <1>6, <1>7, ChatNames DEF PromptInv, Early
<1> QED
  BY <1>8, <1>9, <1>10, <1>11 DEF ChatInv

(* Every step keeps the invariant.                                         *)
LEMMA ChatInvNext ==
  ASSUME ChatInv, [ChatNext]_chatVars
  PROVE  ChatInv'
<1>1. CASE \E m \in Prompt : Arrives(m) \/ Admits(m) \/ Rejects(m) \/ RunEnds(m)
  BY <1>1, PromptArrives, PromptAdmitted, PromptRejected, PromptRunEnds
<1>2. CASE \E m \in Prompt, parent \in Prompt \cup {NoMessage} : Resolves(m, parent)
  BY <1>2, PromptResolves
<1>3. CASE \E m \in Prompt \cup {Notice} : StatusSent(m) \/ StatusFails(m) \/ Records(m)
  BY <1>3, StatusInv DEF Posted
<1>4. CASE \E m \in Prompt \cup Command, works \in BOOLEAN : TurnDiscards(m, works)
  BY <1>4, PromptDiscarded, CommandDiscards
<1>5. CASE \E c \in Command, target \in Prompt \cup {NoMessage} :
             \E kind \in {"stop", "clear", "stop_reply", "clear_reply"} :
               CommandArrives(c, kind, target)
  BY <1>5, CommandArrivesInv DEF ChatKind
<1>6. CASE \E c \in Command : StopsAll(c) \/ StopsReply(c) \/ StopSaves(c) \/ TakesDown(c)
                              \/ ClearsReply(c)
  BY <1>6, StopsInv, StopSavesInv, TakesDownInv, ClearsReplyInv
<1>7. CASE \E c \in Command, works \in BOOLEAN : ClearsStore(c, works)
  BY <1>7, ClearsStoreInv
<1>8. CASE \/ NoticeStarts \/ \E recorded \in BOOLEAN : NoticeFinal(recorded)
           \/ \E works, tracked \in BOOLEAN : NoticeDiscarded(works, tracked)
  BY <1>8, NoticeStep
<1>9. CASE UNCHANGED chatVars
  BY <1>9 DEF chatVars, ChatInv, ChatTypes, LatchInv, PostedInv, PromptInv, Given, Held
<1> QED
  BY <1>1, <1>2, <1>3, <1>4, <1>5, <1>6, <1>7, <1>8, <1>9 DEF ChatNext

(* Commands reach every message of the chat, once: a status the bot posted *)
(* stays clearable, no step of a clear leaves a cleared prompt in the      *)
(* store, and a prompt a stop overtook never runs (workflow.py, commands). *)
THEOREM CommandsComplete == ChatSpec => []CommandsAreComplete
<1>1. ChatInit => ChatInv
  BY ChatInvInit
<1>2. ChatInv /\ [ChatNext]_chatVars => ChatInv'
  BY ChatInvNext
<1>3. ChatInv => CommandsAreComplete
  <2> SUFFICES ASSUME ChatInv PROVE CommandsAreComplete
    OBVIOUS
  <2>1. NoOrphans
    BY DEF NoOrphans, ChatInv, PostedInv, Given, Posted
  <2>2. ClearedStaysCleared
    BY ChatNames DEF ClearedStaysCleared, ChatInv, LatchInv
  <2>3. StopReachesPrompts
    BY DEF StopReachesPrompts, ChatInv, ChatTypes, PromptInv
  <2> QED
    BY <2>1, <2>2, <2>3 DEF CommandsAreComplete
<1> QED
  BY <1>1, <1>2, <1>3, PTL DEF ChatSpec
-----------------------------------------------------------------------------
(* The display of a turn.  The views first: what is left out of one, what *)
(* of an edit reaches the screen, and what the screen shows (ViewInv).     *)

SegmentKind == {"text", "thinking", "tool", "subagent", "error"}
SegmentRecord == [kind : SegmentKind, pieces : Seq(Nat), calls : Nat]
ViewStatus == {"queued", "none", "thinking", "working", "tools", "subagent", "limit", "error", "complete", "failed", "stopped", "cancelled"}
ViewRecord == [segs : Seq(SegmentRecord), cut : BOOLEAN, status : ViewStatus]
EndKind == {"none", "complete", "exit", "refused", "raised", "stop", "clear", "other"}
HasError(s) == \E i \in DOMAIN s : s[i].kind = "error"
TellsError(view) == view.status # "complete" /\ (view.cut \/ HasError(view.segs))

KeptBy(f, s) ==
  f = [n \in 0..Len(s) |->
        IF n = 0 THEN <<>>
        ELSE IF s[n].kind = "text" /\ s[n].pieces = <<>> THEN f[n - 1] ELSE Append(f[n - 1], s[n])]
KeptOf(s, n) ==
  {v \in Seq(SegmentRecord) : (\E i \in 1..n : s[i].kind = "error") => HasError(v)}

(* A segment that is kept, and a text that is left out, lose no error.     *)
LEMMA KeptStep ==
  ASSUME NEW s \in Seq(SegmentRecord), NEW n \in 1..Len(s), NEW v \in KeptOf(s, n - 1)
  PROVE  /\ s[n].kind = "text" => v \in KeptOf(s, n)
         /\ Append(v, s[n]) \in KeptOf(s, n)
<1>1. s[n] \in SegmentRecord /\ v \in Seq(SegmentRecord) /\ n \in Nat
  BY DEF KeptOf
<1>2. ASSUME s[n].kind = "text" PROVE v \in KeptOf(s, n)
  BY <1>1, <1>2 DEF KeptOf
<1>3. Append(v, s[n]) \in KeptOf(s, n)
  <2> DEFINE w == Append(v, s[n])
  <2>1. w \in Seq(SegmentRecord) /\ Len(w) = Len(v) + 1 /\ w[Len(v) + 1] = s[n] /\ \A i \in 1..Len(v) : w[i] = v[i]
    BY <1>1
  <2>2. HasError(v) => HasError(w)
    BY <1>1, <2>1 DEF HasError
  <2>3. s[n].kind = "error" => HasError(w)
    BY <1>1, <2>1 DEF HasError
  <2>4. (\E i \in 1..n : s[i].kind = "error") => s[n].kind = "error" \/ \E i \in 1..(n - 1) : s[i].kind = "error"
    BY <1>1
  <2> QED
    BY <2>1, <2>2, <2>3, <2>4 DEF KeptOf
<1> QED
  BY <1>2, <1>3

(* Leaving out the texts without text loses no error of the transcript.    *)
LEMMA VisibleFits ==
  ASSUME NEW s \in Seq(SegmentRecord)
  PROVE  Visible(s) \in Seq(SegmentRecord) /\ (HasError(s) => HasError(Visible(s)))
<1> DEFINE N == Len(s)
           D == [n \in 0..N |-> KeptOf(s, n)]
           Step(v, n) == IF s[n].kind = "text" /\ s[n].pieces = <<>> THEN v ELSE Append(v, s[n])
           G == [p \in Seq(SegmentRecord) \X (1..N) |-> Step(p[1], p[2])]
           F == CHOOSE f : KeptBy(f, s)
<1>0. N \in Nat
  OBVIOUS
<1>1. \A n \in 1..N : \A v \in KeptOf(s, n - 1) : v \in Seq(SegmentRecord) /\ Step(v, n) \in KeptOf(s, n)
  BY KeptStep DEF KeptOf
<1>2. <<>> \in KeptOf(s, 0)
  BY DEF KeptOf
<1>3. \E f : KeptBy(f, s)
  <2>1. <<>> \in D[0]
    BY <1>2, <1>0
  <2>2. \A n \in 1..N : n \in 0..N /\ n - 1 \in 0..N
    BY <1>0
  <2>3. \A n \in 1..N : \A v \in D[n - 1] : v \in Seq(SegmentRecord) /\ Step(v, n) \in D[n]
    BY <1>1, <2>2
  <2>4. \A n \in 1..N : \A v \in Seq(SegmentRecord) : G[<<v, n>>] = Step(v, n)
    OBVIOUS
  <2> DEFINE c == <<>>
             U == Seq(SegmentRecord)
  <2>0. c \in D[0]
    BY <2>1
  <2>9. \A n \in 0..N : D[n] \in SUBSET U
    BY DEF KeptOf
  <2> HIDE DEF D, G, Step, N, c, U
  <2>5. PICK f \in [0..N -> U] :
               f[0] = c /\ \A n \in 1..N : f[n] = G[<<f[n - 1], n>>] /\ f[n - 1] \in D[n - 1]
    <3>1. \A n \in 1..N : \A v \in D[n - 1] : G[<<v, n>>] \in D[n]
      BY <2>3, <2>4
    <3>2. Leads(N, U, c, G, D)
      BY <1>0, <2>0, <2>9, <3>1 DEF Leads
    <3> QED
      BY <3>2, RecursionExists
  <2>6. f = [n \in 0..N |-> IF n = 0 THEN c ELSE Step(f[n - 1], n)]
    <3>1. \A n \in 1..N : G[<<f[n - 1], n>>] = Step(f[n - 1], n)
      BY <2>2, <2>3, <2>4, <2>5
    <3>2. \A n \in 0..N : n = 0 \/ (n # 0 /\ n \in 1..N)
      BY <1>0
    <3> QED
      BY <2>5, <3>1, <3>2
  <2> USE DEF Step, N, c
  <2> QED
    BY <2>6 DEF KeptBy
<1>4. KeptBy(F, s)
  BY <1>3
<1>5. Visible(s) = F[N]
  BY DEF Visible, KeptBy
<1> HIDE DEF F
<1>6. \A n \in 1..N : F[n] = Step(F[n - 1], n)
  <2>1. \A n \in 1..N : n \in 0..N /\ n # 0
    BY <1>0
  <2> QED
    BY <1>4, <2>1 DEF KeptBy
<1>7. F[0] = <<>>
  BY <1>4, <1>0 DEF KeptBy
<1> HIDE DEF Step
<1>8. \A n \in 0..N : F[n] \in D[n]
  <2>1. F[0] \in D[0]
    BY <1>0, <1>2, <1>7
  <2>2. ASSUME NEW n \in 1..N, F[n - 1] \in D[n - 1] PROVE F[n] \in D[n]
    <3>1. n \in 0..N /\ n - 1 \in 0..N
      BY <1>0
    <3> QED
      BY <2>2, <3>1, <1>1, <1>6
  <2> HIDE DEF D
  <2> QED
    BY <1>0, <2>1, <2>2, Climbs
<1>9. F[N] \in KeptOf(s, N)
  BY <1>8, <1>0
<1> QED
  BY <1>5, <1>9 DEF KeptOf, HasError

(* Whatever the status, a view is one, and an error is seen in it unless   *)
(* it is cut.                                                              *)
LEMMA RenderedFits ==
  ASSUME NEW s \in Seq(SegmentRecord), NEW mark \in ViewStatus
  PROVE  /\ Rendered(s, mark) \in ViewRecord
         /\ Rendered(s, mark).status = mark
         /\ (HasError(s) /\ mark # "complete") => TellsError(Rendered(s, mark))
<1> DEFINE v == Visible(s)
           n == Len(v)
<1>1. v \in Seq(SegmentRecord) /\ n \in Nat /\ (HasError(s) => HasError(v))
  BY VisibleFits
<1> HIDE DEF v
<1> DEFINE w == SubSeq(v, IF n > Limit THEN n - Limit + 1 ELSE 1, n)
           b == n > Limit
<1>2. w \in Seq(SegmentRecord)
  BY <1>1, LimitAssumption
<1>3. ~(n > Limit) => w = v
  BY <1>1
<1>4. Rendered(s, mark) = [segs |-> w, cut |-> b, status |-> mark]
  BY DEF Rendered, v
<1>5. b \in BOOLEAN /\ (b <=> n > Limit)
  BY <1>1, LimitAssumption
<1> HIDE DEF b
<1> DEFINE r == Rendered(s, mark)
<1> HIDE DEF w
<1>6. r.segs = w /\ r.cut = b /\ r.status = mark
  BY <1>4
<1>7. r \in ViewRecord
  BY <1>2, <1>4, <1>5 DEF ViewRecord
<1> HIDE DEF r
<1>8. ASSUME HasError(s), mark # "complete" PROVE TellsError(r)
  <2>1. CASE n > Limit
    BY <2>1, <1>5, <1>6, <1>8 DEF TellsError
  <2>2. CASE ~(n > Limit)
    <3>1. HasError(r.segs)
      BY <2>2, <1>1, <1>3, <1>6, <1>8
    <3> QED
      BY <3>1, <1>6, <1>8 DEF TellsError
  <2> QED
    BY <2>1, <2>2
<1> QED
  BY <1>6, <1>7, <1>8 DEF r

-----------------------------------------------------------------------------
ScreenRecord == [shown : ViewRecord, last : Seq(ViewRecord), lost : BOOLEAN, failed : Nat]
ReaderRecord ==
  [at : {"starting", "reading", "done"}, had : BOOLEAN, status : ViewStatus \ {"complete"}, error : BOOLEAN,
   end : EndKind, claim : {"running", "error", "completed"}, spread : BOOLEAN]
ClaudeRecord ==
  [streams : BOOLEAN, block : {<<>>} \cup (Prose \X Index), working : Seq([n : Nat, id : AnyId]),
   started : Nat, said : Seq(Nat), muddled : BOOLEAN, events : Nat]

\* Unless the last edit was lost, what was rendered last is what is shown.
ScreenOk(x) == x \in ScreenRecord /\ (~x.lost /\ x.last # <<>> => x.last = <<x.shown>>)

(* An edit that is not throttled shows the view, unless it is lost or has  *)
(* nothing to say.                                                         *)
LEMMA ForcedFits ==
  ASSUME NEW s \in Seq(SegmentRecord), NEW mark \in ViewStatus, ScreenOk(screen), NEW x \in Forced(s, mark)
  PROVE  /\ ScreenOk(x)
         /\ x = screen \/ x.lost \/ x.shown = Rendered(s, mark)
         /\ mark # "none" => x.lost \/ x.shown = Rendered(s, mark)
<1> DEFINE view == Rendered(s, mark)
<1>1. view \in ViewRecord /\ screen \in ScreenRecord
  BY RenderedFits DEF ScreenOk
<1> HIDE DEF view
<1>2. <<view>> \in Seq(ViewRecord) /\ <<view>> # <<>>
  BY <1>1
<1>3. CASE x = screen /\ (screen.last = <<view>> \/ mark = "none")
  <2>1. screen.last = <<view>> /\ ~screen.lost => screen.shown = view
    <3>1. ASSUME screen.last = <<view>>, ~screen.lost PROVE <<view>> = <<screen.shown>>
      BY <3>1, <1>2 DEF ScreenOk
    <3> QED
      BY <3>1
  <2> QED
    BY <1>3, <2>1 DEF view
<1>4. CASE x = [[screen EXCEPT !.last = <<view>>] EXCEPT !.shown = view, !.lost = FALSE]
  <2>1. x.shown = view /\ x.last = <<view>> /\ x \in ScreenRecord
    BY <1>1, <1>2, <1>4 DEF ScreenRecord
  <2> QED
    BY <2>1 DEF ScreenOk, view
<1>5. CASE x = [[screen EXCEPT !.last = <<view>>] EXCEPT !.lost = TRUE, !.failed = @ + 1]
  <2>1. x = [shown |-> screen.shown, last |-> <<view>>, lost |-> TRUE, failed |-> screen.failed + 1]
    BY <1>1, <1>5 DEF ScreenRecord
  <2>2. screen.shown \in ViewRecord /\ screen.failed + 1 \in Nat
    BY <1>1 DEF ScreenRecord
  <2>3. x \in ScreenRecord /\ x.lost
    BY <2>1, <2>2, <1>2 DEF ScreenRecord
  <2> QED
    BY <2>3 DEF ScreenOk
<1> QED
  BY <1>3, <1>4, <1>5 DEF Forced, view

(* A throttled edit shows the view, is lost or is left for later.          *)
LEMMA ThrottledFits ==
  ASSUME NEW s \in Seq(SegmentRecord), NEW mark \in ViewStatus, ScreenOk(screen), NEW x \in Throttled(s, mark)
  PROVE  ScreenOk(x) /\ (x = screen \/ x.lost \/ x.shown = Rendered(s, mark))
<1>1. x = screen \/ x \in Forced(s, mark)
  BY DEF Throttled
<1> QED
  BY <1>1, ForcedFits

ReaderOk ==
  /\ reader \in ReaderRecord
  /\ reader.at = "starting" => reader.end = "none" /\ ~reader.error
  /\ reader.at = "reading" => reader.end \in {"none", "complete", "exit"}
  /\ reader.at = "done" => reader.end # "none"
  /\ reader.claim = "completed" <=> reader.end = "complete"
  /\ reader.spread <=> reader.end \in {"exit", "raised"}

\* An error is in the transcript, and on the screen.
ErrorShown ==
  (reader.error /\ reader.end = "none") => HasError(segs) /\ (~screen.lost => TellsError(screen.shown))

EndShown ==
  (reader.end \notin {"none", "clear"} /\ ~screen.lost) =>
     IF reader.end = "exit" /\ reader.error THEN TellsError(screen.shown)
     ELSE screen.shown = Rendered(segs, FinalStatus[reader.end])

ViewInv == segs \in Seq(SegmentRecord) /\ ScreenOk(screen) /\ ReaderOk /\ ErrorShown /\ EndShown

(* An event of the stream that is no error keeps what is known of the      *)
(* screen: an error seen once stays in every later view.                   *)
LEMMA ReadingGoesOn ==
  ASSUME ViewInv, Happens, NEW mark \in ViewStatus \ {"complete"},
         segs' \in Seq(SegmentRecord), HasError(segs) => HasError(segs'),
         screen' \in Throttled(segs', mark), Heard(mark)
  PROVE  ViewInv'
<1>1. ScreenOk(screen') /\ (screen' = screen \/ screen'.lost \/ screen'.shown = Rendered(segs', mark))
  BY ThrottledFits DEF ViewInv
<1>2. ReaderOk' /\ reader'.end = "none" /\ reader'.error = reader.error
  BY DEF ViewInv, ReaderOk, ReaderRecord, Heard, Happens, Reading
<1>3. ErrorShown'
  <2> SUFFICES ASSUME reader.error PROVE HasError(segs') /\ (~screen'.lost => TellsError(screen'.shown))
    BY <1>2 DEF ErrorShown
  <2>1. HasError(segs) /\ (~screen.lost => TellsError(screen.shown))
    BY DEF ViewInv, ErrorShown, Happens
  <2>2. TellsError(Rendered(segs', mark))
    BY <2>1, RenderedFits
  <2> QED
    BY <1>1, <2>1, <2>2
<1>4. EndShown'
  BY <1>2 DEF EndShown
<1> QED
  BY <1>1, <1>2, <1>3, <1>4 DEF ViewInv

(* Whatever a forced edit may leave, a throttled one may.                  *)
LEMMA ForcedIsThrottled == ASSUME NEW s, NEW mark, NEW x \in Forced(s, mark) PROVE x \in Throttled(s, mark)
  BY DEF Throttled

\* The last edit of a turn.
(* The last edit of a turn shows the whole transcript with the status of   *)
(* its end, unless it is lost.                                             *)
LEMMA LastEdit ==
  ASSUME ViewInv, NEW mark \in ViewStatus, mark # "none",
         segs' \in Seq(SegmentRecord), screen' \in Forced(segs', mark), ReaderOk',
         reader'.end # "none", reader'.end # "clear", FinalStatus[reader'.end] = mark,
         ~(reader'.end = "exit" /\ reader'.error)
  PROVE  ViewInv'
<1>1. ScreenOk(screen') /\ (screen'.lost \/ screen'.shown = Rendered(segs', mark))
  BY ForcedFits DEF ViewInv
<1>2. ErrorShown'
  BY DEF ErrorShown
<1>3. EndShown'
  BY <1>1 DEF EndShown
<1> QED
  BY <1>1, <1>2, <1>3 DEF ViewInv

-----------------------------------------------------------------------------
(* The pieces.                                                             *)

Shown(s) == (UNION {ToSet(s[i].pieces) : i \in DOMAIN s}) \ {None}
Ordered(s) ==
  \A i, j \in DOMAIN s : \A a \in DOMAIN s[i].pieces, b \in DOMAIN s[j].pieces :
    (None \notin {s[i].pieces[a], s[j].pieces[b]} /\ (i < j \/ (i = j /\ a < b))) => s[i].pieces[a] < s[j].pieces[b]
UpTo(s, m) == \A i \in DOMAIN s : \A a \in DOMAIN s[i].pieces : s[i].pieces[a] <= m

(* A piece is shown if it is in a segment.                                 *)
LEMMA InShown ==
  ASSUME NEW s, NEW x
  PROVE  x \in Shown(s) <=> x # None /\ \E i \in DOMAIN s : \E a \in DOMAIN s[i].pieces : s[i].pieces[a] = x
<1>1. x \in Shown(s) <=> x # None /\ \E i \in DOMAIN s : x \in ToSet(s[i].pieces)
  <2> DEFINE All == UNION {ToSet(s[i].pieces) : i \in DOMAIN s}
  <2>1. x \in All <=> \E i \in DOMAIN s : x \in ToSet(s[i].pieces)
    OBVIOUS
  <2>2. Shown(s) = All \ {None}
    BY DEF Shown
  <2> HIDE DEF All
  <2> QED
    BY <2>1, <2>2
<1>2. \A p : x \in ToSet(p) <=> \E a \in DOMAIN p : p[a] = x
  BY DEF ToSet
<1> QED
  BY <1>1, <1>2

(* The pieces of a segment are numbers.                                    *)
LEMMA PiecesTyped ==
  ASSUME NEW s \in Seq(SegmentRecord)
  PROVE  \A i \in DOMAIN s : /\ s[i] \in SegmentRecord /\ s[i].pieces \in Seq(Nat)
                            /\ \A a \in DOMAIN s[i].pieces : s[i].pieces[a] \in Nat
<1>1. \A i \in DOMAIN s : s[i] \in SegmentRecord
  OBVIOUS
<1>2. \A i \in DOMAIN s : s[i].pieces \in Seq(Nat)
  BY <1>1 DEF SegmentRecord
<1>3. \A i \in DOMAIN s : \A a \in DOMAIN s[i].pieces : s[i].pieces[a] \in Nat
  BY <1>2
<1> QED
  BY <1>1, <1>2, <1>3

\* A segment in which nothing is said.
Quiet(g) == g \in SegmentRecord /\ g.pieces \in {<<>>, <<None>>}

(* A segment in which nothing is said changes no piece that is shown.      *)
LEMMA QuietSegment ==
  ASSUME NEW s \in Seq(SegmentRecord), NEW g, Quiet(g)
  PROVE  LET t == Append(s, g)
         IN /\ t \in Seq(SegmentRecord) /\ Shown(t) = Shown(s)
            /\ Ordered(s) => Ordered(t)
            /\ \A m \in Nat : UpTo(s, m) => UpTo(t, m)
            /\ HasError(s) => HasError(t)
            /\ Len(t) = Len(s) + 1
<1> DEFINE t == Append(s, g)
           n == Len(s)
<1>1. n \in Nat /\ t \in Seq(SegmentRecord) /\ Len(t) = n + 1 /\ t[n + 1] = g /\ \A i \in 1..n : t[i] = s[i]
  BY DEF Quiet
<1>2. DOMAIN t = 1..(n + 1) /\ DOMAIN s = 1..n
  BY <1>1
<1> HIDE DEF t, n
<1>3. \A i \in DOMAIN t : (i \in DOMAIN s /\ t[i] = s[i]) \/ (i = n + 1 /\ t[i] = g)
  BY <1>1, <1>2
<1>4. \A i \in DOMAIN s : i \in DOMAIN t /\ t[i] = s[i]
  BY <1>1, <1>2
<1>5. \A a \in DOMAIN g.pieces : g.pieces[a] = None
  BY DEF Quiet
<1>6. Shown(t) = Shown(s)
  <2>1. ASSUME NEW x PROVE x \in Shown(t) <=> x \in Shown(s)
    BY <1>3, <1>4, <1>5, InShown
  <2> QED
    BY <2>1
<1>7. Ordered(s) => Ordered(t)
  BY <1>3, <1>5 DEF Ordered
<1>8. \A m \in Nat : UpTo(s, m) => UpTo(t, m)
  BY <1>3, <1>5 DEF UpTo, None
<1>9. HasError(s) => HasError(t)
  BY <1>4 DEF HasError
<1> QED
  BY <1>1, <1>6, <1>7, <1>8, <1>9 DEF t, n

(* A new segment with the next piece shows it after all the others.        *)
LEMMA SpokenSegment ==
  ASSUME NEW s \in Seq(SegmentRecord), NEW m \in Nat, UpTo(s, m), NEW g \in SegmentRecord, g.pieces = <<m + 1>>
  PROVE  LET t == Append(s, g)
         IN /\ t \in Seq(SegmentRecord) /\ Shown(t) = Shown(s) \cup {m + 1}
            /\ Ordered(s) => Ordered(t)
            /\ UpTo(t, m + 1)
            /\ HasError(s) => HasError(t)
            /\ Len(t) = Len(s) + 1
<1> DEFINE t == Append(s, g)
           n == Len(s)
<1>1. n \in Nat /\ t \in Seq(SegmentRecord) /\ Len(t) = n + 1 /\ t[n + 1] = g /\ \A i \in 1..n : t[i] = s[i]
  OBVIOUS
<1>2. DOMAIN t = 1..(n + 1) /\ DOMAIN s = 1..n
  BY <1>1
<1>a. \A i \in DOMAIN s : \A a \in DOMAIN s[i].pieces : s[i].pieces[a] \in Nat
  BY PiecesTyped
<1> HIDE DEF t, n
<1>3. \A i \in DOMAIN t : (i \in DOMAIN s /\ t[i] = s[i]) \/ (i = n + 1 /\ t[i] = g)
  BY <1>1, <1>2
<1>4. \A i \in DOMAIN s : i \in DOMAIN t /\ t[i] = s[i] /\ i < n + 1 /\ i \in Nat
  BY <1>1, <1>2
<1>5. DOMAIN g.pieces = {1} /\ g.pieces[1] = m + 1
  OBVIOUS
<1>6. Shown(t) = Shown(s) \cup {m + 1}
  <2>1. ASSUME NEW x PROVE x \in Shown(t) <=> (x \in Shown(s) \/ x = m + 1)
    <3>1. n + 1 \in DOMAIN t /\ t[n + 1] = g /\ m + 1 # None
      BY <1>1, <1>2 DEF None
    <3>2. ASSUME x \in Shown(t) PROVE x \in Shown(s) \/ x = m + 1
      BY <3>2, <1>3, <1>5, InShown
    <3>3. ASSUME x \in Shown(s) PROVE x \in Shown(t)
      BY <3>3, <1>4, InShown
    <3>4. m + 1 \in Shown(t)
      BY <3>1, <1>5, InShown
    <3> QED
      BY <3>2, <3>3, <3>4
  <2> QED
    BY <2>1
<1>7. ASSUME Ordered(s) PROVE Ordered(t)
  <2> SUFFICES ASSUME NEW i \in DOMAIN t, NEW j \in DOMAIN t, NEW a \in DOMAIN t[i].pieces, NEW b \in DOMAIN t[j].pieces,
                      None \notin {t[i].pieces[a], t[j].pieces[b]}, i < j \/ (i = j /\ a < b)
               PROVE  t[i].pieces[a] < t[j].pieces[b]
    BY DEF Ordered
  <2>1. CASE j \in DOMAIN s
    <3>1. i \in DOMAIN s
      BY <2>1, <1>3, <1>4, <1>1
    <3> QED
      BY <2>1, <3>1, <1>4, <1>7 DEF Ordered
  <2>2. CASE j = n + 1 /\ t[j] = g
    <3>1. b = 1 /\ t[j].pieces[b] = m + 1
      BY <2>2, <1>5
    <3>2. i \in DOMAIN s
      <4>1. CASE i = n + 1 /\ t[i] = g
        <5>1. a = 1
          BY <4>1, <1>5
        <5> QED
          BY <5>1, <3>1, <4>1, <2>2, <1>1
      <4> QED
        BY <4>1, <1>3
    <3>3. t[i] = s[i]
      BY <3>2, <1>4
    <3>4. t[i].pieces[a] <= m /\ t[i].pieces[a] \in Nat
      BY <3>2, <3>3, <1>a DEF UpTo
    <3> QED
      BY <3>1, <3>4
  <2> QED
    BY <2>1, <2>2, <1>3
<1>8. UpTo(t, m + 1)
  <2> SUFFICES ASSUME NEW i \in DOMAIN t, NEW a \in DOMAIN t[i].pieces PROVE t[i].pieces[a] <= m + 1
    BY DEF UpTo
  <2>1. CASE i \in DOMAIN s /\ t[i] = s[i]
    <3>1. t[i].pieces[a] <= m /\ t[i].pieces[a] \in Nat
      BY <2>1, <1>a DEF UpTo
    <3> QED
      BY <3>1
  <2>2. CASE i = n + 1 /\ t[i] = g
    BY <2>2, <1>5
  <2> QED
    BY <2>1, <2>2, <1>3
<1>9. HasError(s) => HasError(t)
  BY <1>4 DEF HasError
<1> QED
  BY <1>1, <1>6, <1>7, <1>8, <1>9 DEF t, n

(* The next piece written to the last segment is shown after all the       *)
(* others.                                                                 *)
LEMMA SpokenLast ==
  ASSUME NEW s \in Seq(SegmentRecord), NEW m \in Nat, UpTo(s, m), s # <<>>
  PROVE  LET t == [s EXCEPT ![Len(s)].pieces = Append(@, m + 1)]
         IN /\ t \in Seq(SegmentRecord) /\ Shown(t) = Shown(s) \cup {m + 1}
            /\ Ordered(s) => Ordered(t)
            /\ UpTo(t, m + 1)
            /\ HasError(s) => HasError(t)
            /\ Len(t) = Len(s)
<1> DEFINE n == Len(s)
           w == s[n].pieces
           v == Append(w, m + 1)
           k == Len(w)
           g == [s[n] EXCEPT !.pieces = v]
           t == [s EXCEPT ![n] = g]
<1>0. n \in Nat /\ n # 0 /\ n \in DOMAIN s /\ DOMAIN s = 1..n /\ s[n] \in SegmentRecord
  OBVIOUS
<1>1. w \in Seq(Nat) /\ k \in Nat
  BY <1>0 DEF SegmentRecord
<1>2. v \in Seq(Nat) /\ v[k + 1] = m + 1 /\ DOMAIN v = 1..(k + 1) /\ DOMAIN w = 1..k /\ \A a \in DOMAIN w : v[a] = w[a]
  BY <1>1
<1> HIDE DEF v, w, k
<1>3. g \in SegmentRecord /\ g.pieces = v /\ g.kind = s[n].kind
  BY <1>0, <1>2 DEF SegmentRecord
<1> HIDE DEF g
<1>4. t \in Seq(SegmentRecord) /\ Len(t) = n /\ DOMAIN t = DOMAIN s /\ t[n] = g
  BY <1>0, <1>3
<1>5. \A i \in DOMAIN s : i # n => t[i] = s[i]
  OBVIOUS
<1>6. t = [s EXCEPT ![Len(s)].pieces = Append(@, m + 1)]
  BY DEF g, v, w
<1>a. \A i \in DOMAIN s : \A a \in DOMAIN s[i].pieces : s[i].pieces[a] \in Nat /\ s[i].pieces[a] <= m
  BY PiecesTyped DEF UpTo
<1>b. \A a \in DOMAIN w : w[a] \in Nat /\ w[a] <= m
  BY <1>a, <1>0 DEF w
<1> HIDE DEF t
<1>7. Shown(t) = Shown(s) \cup {m + 1}
  <2>0. m + 1 # None /\ k + 1 \in DOMAIN v /\ (\A a \in DOMAIN v : a \in DOMAIN w \/ a = k + 1) /\ (\A a \in DOMAIN w : a \in DOMAIN v)
    BY <1>1, <1>2 DEF None
  <2>1. ASSUME NEW x, x \in Shown(t) PROVE x \in Shown(s) \/ x = m + 1
    <3>1. PICK i \in DOMAIN s : \E a \in DOMAIN t[i].pieces : t[i].pieces[a] = x
      BY <2>1, <1>4, InShown
    <3>2. x # None
      BY <2>1, InShown
    <3>3. CASE i = n
      <4>1. PICK a \in DOMAIN v : v[a] = x
        BY <3>1, <3>3, <1>3, <1>4
      <4>2. a \in DOMAIN w => x = s[i].pieces[a] /\ a \in DOMAIN s[i].pieces
        BY <4>1, <3>3, <1>2 DEF w
      <4> QED
        BY <4>1, <4>2, <3>2, <2>0, <1>2, InShown
    <3>4. CASE i # n
      BY <3>1, <3>2, <3>4, <1>5, InShown
    <3> QED
      BY <3>3, <3>4
  <2>2. ASSUME NEW x, x \in Shown(s) PROVE x \in Shown(t)
    <3>1. PICK i \in DOMAIN s : \E a \in DOMAIN s[i].pieces : s[i].pieces[a] = x
      BY <2>2, InShown
    <3>2. x # None
      BY <2>2, InShown
    <3>3. CASE i = n
      <4>1. PICK a \in DOMAIN w : w[a] = x
        BY <3>1, <3>3 DEF w
      <4>2. a \in DOMAIN t[n].pieces /\ t[n].pieces[a] = x
        BY <4>1, <2>0, <1>2, <1>3, <1>4
      <4> QED
        BY <4>2, <3>2, <1>0, <1>4, InShown
    <3>4. CASE i # n
      <4>1. i \in DOMAIN t /\ t[i] = s[i]
        BY <3>4, <1>4, <1>5
      <4> QED
        BY <4>1, <3>1, <3>2, InShown
    <3> QED
      BY <3>3, <3>4
  <2>3. m + 1 \in Shown(t)
    <3>1. k + 1 \in DOMAIN t[n].pieces /\ t[n].pieces[k + 1] = m + 1 /\ n \in DOMAIN t
      BY <2>0, <1>0, <1>2, <1>3, <1>4
    <3> QED
      BY <3>1, <2>0, InShown
  <2> QED
    BY <2>1, <2>2, <2>3
<1>8. ASSUME Ordered(s) PROVE Ordered(t)
  <2> SUFFICES ASSUME NEW i \in DOMAIN t, NEW j \in DOMAIN t, NEW a \in DOMAIN t[i].pieces, NEW b \in DOMAIN t[j].pieces,
                      None \notin {t[i].pieces[a], t[j].pieces[b]}, i < j \/ (i = j /\ a < b)
               PROVE  t[i].pieces[a] < t[j].pieces[b]
    BY DEF Ordered
  <2>0. i \in 1..n /\ j \in 1..n
    BY <1>0, <1>4
  <2>1. CASE j # n
    <3>1. i # n
      BY <2>0, <2>1, <1>0
    <3> QED
      BY <2>1, <3>1, <1>4, <1>5, <1>8 DEF Ordered
  <2>2. CASE j = n /\ b = k + 1
    <3>1. t[j].pieces[b] = m + 1
      BY <2>2, <1>2, <1>3, <1>4
    <3>2. CASE i = n
      <4>1. a \in DOMAIN w /\ t[i].pieces[a] = w[a]
        BY <3>2, <2>2, <1>1, <1>2, <1>3, <1>4
      <4> QED
        BY <3>1, <4>1, <1>b
    <3>3. CASE i # n
      BY <3>1, <3>3, <1>4, <1>5, <1>a
    <3> QED
      BY <3>2, <3>3
  <2>3. CASE j = n /\ b # k + 1
    <3>0. b \in DOMAIN v /\ t[j].pieces[b] = v[b]
      BY <2>3, <1>3, <1>4
    <3>9. b \in DOMAIN w /\ v[b] = w[b]
      BY <3>0, <2>3, <1>1, <1>2
    <3>1. b \in DOMAIN w /\ b \in DOMAIN s[j].pieces /\ t[j].pieces[b] = s[j].pieces[b]
      BY <3>0, <3>9, <2>3 DEF w
    <3>2. CASE i = n
      <4>2. a \in DOMAIN v /\ t[i].pieces[a] = v[a] /\ a < b
        BY <3>2, <2>3, <1>0, <1>3, <1>4
      <4>3. a \in DOMAIN w
        BY <4>2, <3>1, <1>1, <1>2
      <4>1. a \in DOMAIN s[i].pieces /\ t[i].pieces[a] = s[i].pieces[a]
        BY <4>2, <4>3, <3>2, <1>2 DEF w
      <4> QED
        BY <3>1, <4>1, <1>4, <1>8 DEF Ordered
    <3>3. CASE i # n
      BY <3>1, <3>3, <1>4, <1>5, <1>8 DEF Ordered
    <3> QED
      BY <3>2, <3>3
  <2> QED
    BY <2>1, <2>2, <2>3
<1>9. UpTo(t, m + 1)
  <2> SUFFICES ASSUME NEW i \in DOMAIN t, NEW a \in DOMAIN t[i].pieces PROVE t[i].pieces[a] <= m + 1
    BY DEF UpTo
  <2>1. CASE i # n
    BY <2>1, <1>4, <1>5, <1>a
  <2>2. CASE i = n
    <3>2. a \in DOMAIN v /\ t[i].pieces[a] = v[a]
      BY <2>2, <1>3, <1>4
    <3>3. a \in DOMAIN w \/ a = k + 1
      BY <3>2, <1>1, <1>2
    <3>1. (a \in DOMAIN w /\ t[i].pieces[a] = w[a]) \/ (a = k + 1 /\ t[i].pieces[a] = m + 1)
      BY <3>2, <3>3, <1>2
    <3> QED
      BY <3>1, <1>b
  <2> QED
    BY <2>1, <2>2
<1>10. HasError(s) => HasError(t)
  BY <1>3, <1>4, <1>5 DEF HasError
<1> QED
  BY <1>4, <1>6, <1>7, <1>8, <1>9, <1>10

(* Counting a tool call of a segment leaves its pieces alone.              *)
LEMMA CallAdded ==
  ASSUME NEW r \in SegmentRecord
  PROVE  LET g == [r EXCEPT !.calls = @ + 1]
         IN g \in SegmentRecord /\ g.pieces = r.pieces /\ g.kind = r.kind
<1>1. [r EXCEPT !.calls = @ + 1] = [kind |-> r.kind, pieces |-> r.pieces, calls |-> r.calls + 1]
  BY DEF SegmentRecord
<1>2. r.kind \in SegmentKind /\ r.pieces \in Seq(Nat) /\ r.calls + 1 \in Nat
  BY DEF SegmentRecord
<1> QED
  BY <1>1, <1>2 DEF SegmentRecord

(* Counting a tool call leaves the pieces of every segment alone.          *)
LEMMA CountedCall ==
  ASSUME NEW s \in Seq(SegmentRecord), NEW k
  PROVE  LET t == [s EXCEPT ![k].calls = @ + 1]
         IN /\ t \in Seq(SegmentRecord) /\ Shown(t) = Shown(s)
            /\ Ordered(s) => Ordered(t)
            /\ \A m \in Nat : UpTo(s, m) => UpTo(t, m)
            /\ HasError(s) => HasError(t)
            /\ Len(t) = Len(s)
<1> DEFINE t == [s EXCEPT ![k].calls = @ + 1]
<1>1. \A i \in DOMAIN s : s[i] \in SegmentRecord
  OBVIOUS
<1>2. t \in Seq(SegmentRecord) /\ Len(t) = Len(s) /\ DOMAIN t = DOMAIN s
  <2>1. CASE k \in DOMAIN s
    <3> DEFINE g == [s[k] EXCEPT !.calls = @ + 1]
    <3>1. s[k] \in SegmentRecord
      BY <1>1, <2>1
    <3>2. g \in SegmentRecord
      BY <3>1, CallAdded
    <3>3. t = [s EXCEPT ![k] = g]
      OBVIOUS
    <3> HIDE DEF g, t
    <3> QED
      BY <2>1, <3>2, <3>3
  <2>2. CASE k \notin DOMAIN s
    <3>1. t = s
      BY <2>2
    <3> QED
      BY <3>1
  <2> QED
    BY <2>1, <2>2
<1>3. \A i \in DOMAIN s : t[i].pieces = s[i].pieces /\ t[i].kind = s[i].kind
  BY <1>1 DEF SegmentRecord
<1> HIDE DEF t
<1>4. Shown(t) = Shown(s)
  BY <1>2, <1>3 DEF Shown
<1>5. Ordered(s) => Ordered(t)
  BY <1>2, <1>3 DEF Ordered
<1>6. \A m \in Nat : UpTo(s, m) => UpTo(t, m)
  BY <1>2, <1>3 DEF UpTo
<1>7. HasError(s) => HasError(t)
  BY <1>2, <1>3 DEF HasError
<1> QED
  BY <1>2, <1>4, <1>5, <1>6, <1>7 DEF t

-----------------------------------------------------------------------------
(* Who speaks.                                                             *)

\* The transcript's stack is the Tasks at work, unless ids muddled the turn.
TasksFollow ==
  LET w == claude.working
  IN /\ \A i \in DOMAIN w : w[i].n # None
     /\ ~claude.muddled => Len(stack) = Len(w) /\ \A i \in DOMAIN w : stack[i].id = w[i].id

\* A block of the main agent is written to the last segment.
WritesLast ==
  claude.block # <<>> =>
    /\ claude.streams
    /\ (stack = <<>> /\ reader.end = "none") => open[claude.block[1]][claude.block[2]] \in {None, Len(segs)}

SaidByMain(said) == {n \in DOMAIN said : said[n] = None}
PiecesKept ==
  /\ UpTo(segs, Len(claude.said))
  /\ Ordered(segs)
  /\ ~claude.muddled => Shown(segs) = SaidByMain(claude.said)

TalkType ==
  /\ claude \in ClaudeRecord
  /\ open \in [Prose \cup {"tool"} -> [Index -> Nat]]
  /\ stack \in Seq([id : AnyId, seg : Nat])
  /\ segs \in Seq(SegmentRecord)

TalkInv == TalkType /\ TasksFollow /\ WritesLast /\ PiecesKept

(* The main agent speaks exactly when the stack of subagents is empty,     *)
(* unless ids muddled the turn.                                            *)
LEMMA WhoSpeaks ==
  ASSUME TalkInv, NEW by \in Worker
  PROVE  by \in Nat /\ (~claude.muddled => (by = None <=> stack = <<>>))
<1> DEFINE w == claude.working
<1>1. w \in Seq([n : Nat, id : AnyId]) /\ stack \in Seq([id : AnyId, seg : Nat]) /\ claude.started \in Nat
  BY DEF TalkInv, TalkType, ClaudeRecord
<1>2. ASSUME NEW i \in DOMAIN w PROVE w[i].n \in Nat /\ w[i].n # None
  <2> DEFINE T == [n : Nat, id : AnyId]
  <2>1. w[i].n # None
    BY DEF TalkInv, TasksFollow
  <2>2. w \in Seq(T)
    BY <1>1
  <2>3. w[i] \in T
    <3> HIDE DEF w, T
    <3> QED
      BY <2>2
  <2> QED
    BY <2>1, <2>3
<1>3. ~claude.muddled => Len(stack) = Len(w)
  BY DEF TalkInv, TasksFollow
<1>4. CASE w = <<>>
  <2>1. by = None
    BY <1>4 DEF Worker
  <2>2. ~claude.muddled => stack = <<>>
    BY <1>1, <1>3, <1>4
  <2> QED
    BY <2>1, <2>2 DEF None
<1>5. CASE w # <<>>
  <2>1. PICK i \in DOMAIN w : by = w[i].n
    BY <1>5 DEF Worker, ToSet
  <2>2. ~claude.muddled => stack # <<>>
    BY <1>1, <1>3, <1>5
  <2> QED
    BY <2>1, <2>2, <1>2
<1> QED
  BY <1>4, <1>5

(* What the main agent has said grows by the piece it says.                *)
LEMMA SaidOneMore ==
  ASSUME NEW said \in Seq(Nat), NEW by \in Nat
  PROVE  LET t == Append(said, by)
         IN /\ t \in Seq(Nat) /\ Len(t) = Len(said) + 1
            /\ SaidByMain(t) = SaidByMain(said) \cup (IF by = None THEN {Len(said) + 1} ELSE {})
<1> DEFINE t == Append(said, by)
           m == Len(said)
<1>1. m \in Nat /\ t \in Seq(Nat) /\ Len(t) = m + 1 /\ t[m + 1] = by /\ \A i \in 1..m : t[i] = said[i]
  OBVIOUS
<1>2. DOMAIN t = 1..(m + 1) /\ DOMAIN said = 1..m
  BY <1>1
<1> HIDE DEF t, m
<1>3. ASSUME NEW x PROVE x \in SaidByMain(t) <=> (x \in SaidByMain(said) \/ (by = None /\ x = m + 1))
  <2>1. CASE x = m + 1
    BY <2>1, <1>1, <1>2 DEF SaidByMain
  <2>2. CASE x # m + 1
    <3>1. x \in DOMAIN t <=> x \in DOMAIN said
      BY <2>2, <1>1, <1>2
    <3> QED
      BY <3>1, <2>2, <1>1, <1>2 DEF SaidByMain
  <2> QED
    BY <2>1, <2>2
<1> QED
  BY <1>1, <1>3 DEF t, m

\* A piece is said, and shown unless a subagent says it.
LEMMA SpeechKept ==
  ASSUME TalkInv, NEW by \in Worker, claude'.said = Append(claude.said, by), claude'.muddled = claude.muddled,
         stack = <<>> => /\ Shown(segs') = Shown(segs) \cup {NewPiece}
                         /\ Ordered(segs) => Ordered(segs')
                         /\ UpTo(segs', NewPiece),
         stack # <<>> => segs' = segs
  PROVE  PiecesKept'
<1> DEFINE m == Len(claude.said)
<1>1. claude.said \in Seq(Nat) /\ m \in Nat /\ NewPiece = m + 1
  BY DEF TalkInv, TalkType, ClaudeRecord, NewPiece
<1>2. by \in Nat /\ (~claude.muddled => (by = None <=> stack = <<>>))
  BY WhoSpeaks
<1>3. /\ Len(claude'.said) = m + 1
      /\ SaidByMain(claude'.said) = SaidByMain(claude.said) \cup (IF by = None THEN {m + 1} ELSE {})
  BY <1>1, <1>2, SaidOneMore
<1>4. UpTo(segs, m + 1)
  BY <1>1, PiecesTyped DEF TalkInv, TalkType, PiecesKept, UpTo
<1>5. UpTo(segs', Len(claude'.said))
  BY <1>1, <1>3, <1>4
<1>6. Ordered(segs') /\ (~claude.muddled => Shown(segs') = SaidByMain(claude'.said))
  BY <1>1, <1>2, <1>3 DEF TalkInv, PiecesKept
<1> QED
  BY <1>5, <1>6 DEF PiecesKept

\* Nothing is said, and nothing more of what was is shown.
LEMMA SilenceKept ==
  ASSUME TalkInv, claude'.said = claude.said, ~claude'.muddled => ~claude.muddled,
         Shown(segs') = Shown(segs), Ordered(segs) => Ordered(segs'),
         \A m \in Nat : UpTo(segs, m) => UpTo(segs', m)
  PROVE  PiecesKept'
<1>1. Len(claude.said) \in Nat
  BY DEF TalkInv, TalkType, ClaudeRecord
<1> QED
  BY <1>1 DEF TalkInv, PiecesKept

(* A step that leaves the Tasks and the stack alone keeps them together.   *)
LEMMA TasksSame ==
  ASSUME TalkInv, claude'.working = claude.working, claude'.started = claude.started,
         claude'.muddled = claude.muddled, stack' = stack
  PROVE  TasksFollow'
BY DEF TalkInv, TasksFollow

(* Closing an index leaves numbers of segments.                            *)
LEMMA ClosedBlockTyped ==
  ASSUME NEW o \in [Prose \cup {"tool"} -> [Index -> Nat]], NEW i
  PROVE  ClosedBlock(o, i) \in [Prose \cup {"tool"} -> [Index -> Nat]]
<1>1. ASSUME NEW k PROVE [o EXCEPT ![k][i] = None] \in [Prose \cup {"tool"} -> [Index -> Nat]]
  <2>1. CASE k \in Prose \cup {"tool"}
    <3>1. [o[k] EXCEPT ![i] = None] \in [Index -> Nat]
      BY <2>1 DEF None
    <3> QED
      BY <3>1
  <2>2. CASE k \notin Prose \cup {"tool"}
    <3>1. [o EXCEPT ![k][i] = None] = o
      BY <2>2
    <3> QED
      BY <3>1
  <2> QED
    BY <2>1, <2>2
<1> QED
  BY <1>1 DEF ClosedBlock

(* So does an event of a tool.                                             *)
LEMMA LoosenedTyped ==
  ASSUME open \in [Prose \cup {"tool"} -> [Index -> Nat]], open' \in Loosened
  PROVE  open' \in [Prose \cup {"tool"} -> [Index -> Nat]]
BY ClosedBlockTyped DEF Loosened

-----------------------------------------------------------------------------
(* The steps.                                                              *)

DisplayInv == TalkInv /\ ViewInv

(* A kind of block has a status of its own, which is not the final one.    *)
LEMMA StatusTyped == \A kind \in Prose : StatusOf(kind) \in ViewStatus \ {"complete"}
BY DEF StatusOf, Prose, ViewStatus

(* A new segment is one, with the pieces it is given.                      *)
LEMMA NewSegment ==
  ASSUME NEW kind \in SegmentKind, NEW pieces \in Seq(Nat)
  PROVE  Segment(kind, pieces) \in SegmentRecord /\ Segment(kind, pieces).pieces = pieces
BY DEF Segment, SegmentRecord

(* A segment without pieces says nothing, nor does the placeholder.        *)
LEMMA QuietSegments ==
  ASSUME NEW kind \in SegmentKind
  PROVE  Quiet(Segment(kind, <<>>)) /\ Quiet(Segment(kind, <<None>>)) /\ Segment(kind, <<>>).kind = kind
<1>1. <<>> \in Seq(Nat) /\ <<None>> \in Seq(Nat)
  BY DEF None
<1>2. Segment(kind, <<>>).kind = kind
  BY DEF Segment
<1> QED
  BY <1>1, <1>2, NewSegment DEF Quiet

(* Saying a piece and passing an event leave the rest of the turn alone.   *)
LEMMA ClaudeSteps ==
  ASSUME NEW c \in ClaudeRecord
  PROVE  /\ \A by \in Nat : LET d == Spoken(c, by)
           IN /\ d \in ClaudeRecord /\ d.said = Append(c.said, by)
              /\ d.muddled = c.muddled /\ d.working = c.working /\ d.started = c.started /\ d.block = c.block /\ d.streams = c.streams
         /\ LET d == Elapsed(c)
            IN /\ d \in ClaudeRecord /\ d.said = c.said /\ d.muddled = c.muddled /\ d.working = c.working
               /\ d.started = c.started /\ d.block = c.block /\ d.streams = c.streams
<1>1. c = [streams |-> c.streams, block |-> c.block, working |-> c.working, started |-> c.started,
           said |-> c.said, muddled |-> c.muddled, events |-> c.events]
  BY DEF ClaudeRecord
<1>2. /\ c.streams \in BOOLEAN /\ c.block \in {<<>>} \cup (Prose \X Index) /\ c.working \in Seq([n : Nat, id : AnyId])
      /\ c.started \in Nat /\ c.said \in Seq(Nat) /\ c.muddled \in BOOLEAN /\ c.events + 1 \in Nat
  BY DEF ClaudeRecord
<1>3. ASSUME NEW by \in Nat
      PROVE  LET d == Spoken(c, by)
             IN /\ d \in ClaudeRecord /\ d.said = Append(c.said, by)
                /\ d.muddled = c.muddled /\ d.working = c.working /\ d.started = c.started /\ d.block = c.block /\ d.streams = c.streams
  <2> DEFINE s == Append(c.said, by)
             d == [streams |-> c.streams, block |-> c.block, working |-> c.working, started |-> c.started,
                   said |-> s, muddled |-> c.muddled, events |-> c.events + 1]
  <2>1. s \in Seq(Nat)
    BY <1>2
  <2> DEFINE k == c.events + 1
  <2>4. Spoken(c, by) = [c EXCEPT !.said = s, !.events = k]
    BY DEF Spoken
  <2> HIDE DEF s, k
  <2>2. Spoken(c, by) = [streams |-> c.streams, block |-> c.block, working |-> c.working, started |-> c.started,
                         said |-> s, muddled |-> c.muddled, events |-> k]
    BY <1>1, <2>4
  <2>3. d \in ClaudeRecord
    BY <1>2, <2>1 DEF ClaudeRecord
  <2> QED
    BY <2>2, <2>3 DEF s, k
<1>4. LET d == Elapsed(c)
      IN /\ d \in ClaudeRecord /\ d.said = c.said /\ d.muddled = c.muddled /\ d.working = c.working
         /\ d.started = c.started /\ d.block = c.block /\ d.streams = c.streams
  <2> DEFINE d == [streams |-> c.streams, block |-> c.block, working |-> c.working, started |-> c.started,
                   said |-> c.said, muddled |-> c.muddled, events |-> c.events + 1]
  <2>1. Elapsed(c) = d
    BY <1>1 DEF Elapsed
  <2>2. d \in ClaudeRecord
    BY <1>2 DEF ClaudeRecord
  <2> QED
    BY <2>1, <2>2
<1> QED
  BY <1>3, <1>4

(* Opening and closing a block leaves the rest of the turn alone.          *)
LEMMA BlockSet ==
  ASSUME NEW c \in ClaudeRecord, NEW block \in {<<>>} \cup (Prose \X Index)
  PROVE  LET d == [c EXCEPT !.block = block]
         IN /\ d \in ClaudeRecord /\ d.said = c.said /\ d.muddled = c.muddled /\ d.working = c.working
            /\ d.started = c.started /\ d.block = block /\ d.streams = c.streams
BY DEF ClaudeRecord

(* A whole piece arrives: the segment it makes comes after all the others. *)
LEMMA WholePieceKept ==
  ASSUME DisplayInv, NEW kind \in Prose, NEW by \in Worker, WholePiece(kind, by)
  PROVE  DisplayInv'
<1> USE DEF DisplayInv
<1>1. claude \in ClaudeRecord /\ segs \in Seq(SegmentRecord) /\ UpTo(segs, Len(claude.said)) /\ by \in Nat
  BY WhoSpeaks DEF TalkInv, TalkType, PiecesKept
<1>2. /\ claude' \in ClaudeRecord /\ claude'.said = Append(claude.said, by) /\ claude'.muddled = claude.muddled
      /\ claude'.working = claude.working /\ claude'.started = claude.started /\ claude'.block = claude.block
  BY <1>1, ClaudeSteps DEF WholePiece
<1>3. segs' = (IF stack # <<>> THEN segs ELSE Append(segs, Segment(kind, <<NewPiece>>))) /\ stack' = stack /\ open' = open
  BY DEF WholePiece, InSubagent
<1>4. stack = <<>> => /\ segs' \in Seq(SegmentRecord) /\ Shown(segs') = Shown(segs) \cup {NewPiece}
                      /\ Ordered(segs) => Ordered(segs')
                      /\ UpTo(segs', NewPiece)
                      /\ HasError(segs) => HasError(segs')
  <2>1. Len(claude.said) \in Nat /\ NewPiece = Len(claude.said) + 1
    BY <1>1 DEF ClaudeRecord, NewPiece
  <2>2. Segment(kind, <<NewPiece>>) \in SegmentRecord /\ Segment(kind, <<NewPiece>>).pieces = <<NewPiece>>
    <3>1. <<NewPiece>> \in Seq(Nat) /\ kind \in SegmentKind
      BY <2>1 DEF Prose, SegmentKind
    <3> QED
      BY <3>1, NewSegment
  <2> QED
    BY <1>1, <1>3, <2>1, <2>2, SpokenSegment
<1>5. PiecesKept'
  BY <1>2, <1>3, <1>4, SpeechKept
<1>6. TasksFollow'
  BY <1>2, <1>3, TasksSame
<1>7. segs' \in Seq(SegmentRecord) /\ (HasError(segs) => HasError(segs'))
  BY <1>1, <1>3, <1>4
<1>8. ViewInv'
  <2>1. Happens /\ screen' \in Throttled(segs', StatusOf(kind)) /\ Heard(StatusOf(kind))
    BY DEF WholePiece
  <2> QED
    BY <1>7, <2>1, StatusTyped, ReadingGoesOn
<1>9. WritesLast'
  BY <1>2 DEF WholePiece, WritesLast, TalkInv
<1> QED
  BY <1>2, <1>3, <1>5, <1>6, <1>7, <1>8, <1>9 DEF TalkInv, TalkType

(* A block of the stream starts, at the end of the transcript.             *)
LEMMA StreamStartKept ==
  ASSUME DisplayInv, NEW kind \in Prose, NEW i \in Index, StreamStart(kind, i)
  PROVE  DisplayInv'
<1> USE DEF DisplayInv
<1>1. claude \in ClaudeRecord /\ segs \in Seq(SegmentRecord) /\ open \in [Prose \cup {"tool"} -> [Index -> Nat]]
  BY DEF TalkInv, TalkType
<1>2. /\ claude' \in ClaudeRecord /\ claude'.said = claude.said /\ claude'.muddled = claude.muddled
      /\ claude'.working = claude.working /\ claude'.started = claude.started /\ claude'.block = <<kind, i>> /\ claude'.streams
  <2>1. claude' = [Elapsed(claude) EXCEPT !.block = <<kind, i>>] /\ claude.streams
    BY DEF StreamStart
  <2>2. <<kind, i>> \in Prose \X Index
    OBVIOUS
  <2> QED
    BY <1>1, <2>1, <2>2, ClaudeSteps, BlockSet
<1>3. stack' = stack
  BY DEF StreamStart
<1>6. /\ segs' \in Seq(SegmentRecord) /\ Shown(segs') = Shown(segs) /\ (Ordered(segs) => Ordered(segs'))
      /\ (\A m \in Nat : UpTo(segs, m) => UpTo(segs', m)) /\ (HasError(segs) => HasError(segs'))
      /\ open' \in [Prose \cup {"tool"} -> [Index -> Nat]] /\ WritesLast'
  <2>1. CASE stack = <<>>
    <3> DEFINE g == Segment(kind, <<>>)
    <3>1. segs' = Append(segs, g) /\ open' = [ClosedBlock(open, i) EXCEPT ![kind][i] = Len(segs) + 1]
      BY <2>1 DEF StreamStart, InSubagent
    <3>2. Quiet(g)
      BY QuietSegments DEF Prose, SegmentKind
    <3> HIDE DEF g
    <3>3. /\ segs' \in Seq(SegmentRecord) /\ Shown(segs') = Shown(segs) /\ (Ordered(segs) => Ordered(segs'))
          /\ (\A m \in Nat : UpTo(segs, m) => UpTo(segs', m)) /\ (HasError(segs) => HasError(segs'))
          /\ Len(segs') = Len(segs) + 1
      BY <1>1, <3>1, <3>2, QuietSegment
    <3>4. open' \in [Prose \cup {"tool"} -> [Index -> Nat]] /\ open'[kind][i] = Len(segs')
      <4> DEFINE o == ClosedBlock(open, i)
      <4>1. o \in [Prose \cup {"tool"} -> [Index -> Nat]]
        BY <1>1, ClosedBlockTyped
      <4>2. open' = [o EXCEPT ![kind][i] = Len(segs) + 1]
        BY <3>1
      <4>3. Len(segs) + 1 \in Nat
        BY <1>1
      <4> HIDE DEF o
      <4> QED
        BY <3>3, <4>1, <4>2, <4>3
    <3>6. claude'.block[1] = kind /\ claude'.block[2] = i
      BY <1>2
    <3>5. WritesLast'
      BY <1>2, <3>4, <3>6 DEF WritesLast
    <3> QED
      BY <3>3, <3>4, <3>5
  <2>2. CASE stack # <<>>
    <3>1. segs' = segs /\ open' = open
      BY <2>2 DEF StreamStart, InSubagent
    <3>2. WritesLast'
      BY <1>2, <1>3, <2>2 DEF WritesLast
    <3> QED
      BY <3>1, <3>2, <1>1
  <2> QED
    BY <2>1, <2>2
<1>7. PiecesKept'
  BY <1>2, <1>6, SilenceKept
<1>8. TasksFollow'
  BY <1>2, <1>3, TasksSame
<1>9. ViewInv'
  <2>1. Happens /\ screen' \in Throttled(segs', StatusOf(kind)) /\ Heard(StatusOf(kind))
    BY DEF StreamStart
  <2> QED
    BY <1>6, <2>1, StatusTyped, ReadingGoesOn
<1> QED
  BY <1>2, <1>3, <1>6, <1>7, <1>8, <1>9 DEF TalkInv, TalkType

(* A piece arrives in a block: the block of the main agent is the last     *)
(* segment.                                                                *)
LEMMA StreamDeltaKept ==
  ASSUME DisplayInv, NEW by \in Worker, StreamDelta(by)
  PROVE  DisplayInv'
<1> USE DEF DisplayInv
<1> DEFINE kind == claude.block[1]
           i == claude.block[2]
<1>1. claude \in ClaudeRecord /\ segs \in Seq(SegmentRecord) /\ UpTo(segs, Len(claude.said)) /\ by \in Nat
      /\ open \in [Prose \cup {"tool"} -> [Index -> Nat]]
  BY WhoSpeaks DEF TalkInv, TalkType, PiecesKept
<1>2. /\ claude' \in ClaudeRecord /\ claude'.said = Append(claude.said, by) /\ claude'.muddled = claude.muddled
      /\ claude'.working = claude.working /\ claude'.started = claude.started /\ claude'.block = claude.block
      /\ claude'.streams = claude.streams
  BY <1>1, ClaudeSteps DEF StreamDelta
<1>3. stack' = stack /\ claude.block # <<>> /\ Happens
  BY DEF StreamDelta
<1>4. kind \in Prose /\ i \in Index
  <2>1. claude.block \in Prose \X Index
    BY <1>1, <1>3 DEF ClaudeRecord
  <2> QED
    BY <2>1
<1>5. /\ stack # <<>> => segs' = segs /\ open' = open
      /\ (stack = <<>> /\ open[kind][i] # None) =>
           segs' = [segs EXCEPT ![open[kind][i]].pieces = Append(@, NewPiece)] /\ open' = open
      /\ (stack = <<>> /\ open[kind][i] = None) =>
           segs' = Append(segs, Segment(kind, <<NewPiece>>)) /\ open' = [open EXCEPT ![kind][i] = Len(segs) + 1]
  BY DEF StreamDelta, InSubagent
<1> HIDE DEF kind, i
<1>6. NewPiece = Len(claude.said) + 1 /\ Len(claude.said) \in Nat /\ Len(segs) \in Nat
  BY <1>1 DEF NewPiece, ClaudeRecord
<1>7. ASSUME stack = <<>>
      PROVE  /\ segs' \in Seq(SegmentRecord) /\ Shown(segs') = Shown(segs) \cup {NewPiece}
             /\ Ordered(segs) => Ordered(segs')
             /\ UpTo(segs', NewPiece)
             /\ HasError(segs) => HasError(segs')
             /\ open' \in [Prose \cup {"tool"} -> [Index -> Nat]]
             /\ open'[kind][i] \in {None, Len(segs')}
  <2>1. CASE open[kind][i] # None
    <3>1. open[kind][i] = Len(segs)
      BY <1>3, <1>7, <2>1 DEF TalkInv, WritesLast, Happens, kind, i
    <3>2. segs # <<>>
      BY <3>1, <2>1 DEF None
    <3>3. segs' = [segs EXCEPT ![Len(segs)].pieces = Append(@, Len(claude.said) + 1)] /\ open' = open
      BY <1>5, <1>6, <1>7, <2>1, <3>1
    <3> DEFINE m == Len(claude.said)
    <3>4. m \in Nat /\ UpTo(segs, m) /\ NewPiece = m + 1 /\ segs' = [segs EXCEPT ![Len(segs)].pieces = Append(@, m + 1)]
      BY <1>1, <1>6, <3>3
    <3> HIDE DEF m
    <3>5. /\ segs' \in Seq(SegmentRecord) /\ Shown(segs') = Shown(segs) \cup {m + 1}
          /\ Ordered(segs) => Ordered(segs')
          /\ UpTo(segs', m + 1)
          /\ HasError(segs) => HasError(segs')
          /\ Len(segs') = Len(segs)
      BY <3>2, <3>4, <1>1, SpokenLast
    <3> QED
      BY <1>1, <3>1, <3>3, <3>4, <3>5
  <2>2. CASE open[kind][i] = None
    <3> DEFINE g == Segment(kind, <<NewPiece>>)
    <3>1. segs' = Append(segs, g) /\ open' = [open EXCEPT ![kind][i] = Len(segs) + 1]
      BY <1>5, <1>7, <2>2
    <3>2. g \in SegmentRecord /\ g.pieces = <<NewPiece>>
      <4>1. <<NewPiece>> \in Seq(Nat) /\ kind \in SegmentKind
        BY <1>4, <1>6 DEF Prose, SegmentKind
      <4> QED
        BY <4>1, NewSegment
    <3> HIDE DEF g
    <3>3. /\ segs' \in Seq(SegmentRecord) /\ Shown(segs') = Shown(segs) \cup {NewPiece}
          /\ Ordered(segs) => Ordered(segs')
          /\ UpTo(segs', NewPiece)
          /\ HasError(segs) => HasError(segs')
          /\ Len(segs') = Len(segs) + 1
      BY <1>1, <1>6, <3>1, <3>2, SpokenSegment
    <3>4. open' \in [Prose \cup {"tool"} -> [Index -> Nat]] /\ open'[kind][i] = Len(segs) + 1
      BY <1>1, <1>4, <1>6, <3>1
    <3> QED
      BY <3>3, <3>4
  <2> QED
    BY <2>1, <2>2
<1>8. PiecesKept'
  BY <1>2, <1>5, <1>7, SpeechKept
<1>9. TasksFollow'
  BY <1>2, <1>3, TasksSame
<1>10. segs' \in Seq(SegmentRecord) /\ (HasError(segs) => HasError(segs')) /\ open' \in [Prose \cup {"tool"} -> [Index -> Nat]]
  BY <1>1, <1>5, <1>7
<1>11. ViewInv'
  <2>1. Happens /\ screen' \in Throttled(segs', StatusOf(kind)) /\ Heard(StatusOf(kind))
    BY DEF StreamDelta, kind
  <2> QED
    BY <1>4, <1>10, <2>1, StatusTyped, ReadingGoesOn
<1>12. WritesLast'
  BY <1>2, <1>3, <1>7 DEF WritesLast, TalkInv, kind, i
<1> QED
  BY <1>2, <1>3, <1>8, <1>9, <1>10, <1>11, <1>12 DEF TalkInv, TalkType

(* A block of the stream ends.                                             *)
LEMMA StreamStopKept ==
  ASSUME DisplayInv, StreamStop
  PROVE  DisplayInv'
<1> USE DEF DisplayInv
<1>1. claude \in ClaudeRecord /\ segs \in Seq(SegmentRecord) /\ open \in [Prose \cup {"tool"} -> [Index -> Nat]]
  BY DEF TalkInv, TalkType
<1>2. /\ claude' \in ClaudeRecord /\ claude'.said = claude.said /\ claude'.muddled = claude.muddled
      /\ claude'.working = claude.working /\ claude'.started = claude.started /\ claude'.block = <<>>
  <2> DEFINE c == Elapsed(claude)
  <2>1. /\ c \in ClaudeRecord /\ c.said = claude.said /\ c.muddled = claude.muddled
        /\ c.working = claude.working /\ c.started = claude.started
    BY <1>1, ClaudeSteps
  <2>2. claude' = [c EXCEPT !.block = <<>>]
    BY DEF StreamStop
  <2> HIDE DEF c
  <2> QED
    BY <2>1, <2>2, BlockSet
<1>3. stack' = stack /\ segs' = segs
  BY DEF StreamStop
<1>4. open' \in [Prose \cup {"tool"} -> [Index -> Nat]]
  BY <1>1, ClosedBlockTyped DEF StreamStop
<1>5. PiecesKept'
  BY <1>2, <1>3, SilenceKept
<1>6. TasksFollow'
  BY <1>2, <1>3, TasksSame
<1>7. ViewInv'
  <2>1. Happens /\ screen' \in Throttled(segs', reader.status) /\ Heard(reader.status)
    BY <1>3, ForcedIsThrottled DEF StreamStop
  <2>2. reader.status \in ViewStatus \ {"complete"}
    BY DEF ViewInv, ReaderOk, ReaderRecord
  <2> QED
    BY <1>1, <1>3, <2>1, <2>2, ReadingGoesOn
<1>8. WritesLast'
  BY <1>2 DEF WritesLast
<1> QED
  BY <1>1, <1>2, <1>3, <1>4, <1>5, <1>6, <1>7, <1>8 DEF TalkInv, TalkType

(* A tool is called: by the main agent in a segment of its own, by a       *)
(* subagent as one more of its calls.                                      *)
LEMMA ToolUseKept ==
  ASSUME DisplayInv, NEW id \in AnyId, ToolUse(id)
  PROVE  DisplayInv'
<1> USE DEF DisplayInv
<1>1. claude \in ClaudeRecord /\ segs \in Seq(SegmentRecord)
  BY DEF TalkInv, TalkType
<1>2. /\ claude' \in ClaudeRecord /\ claude'.said = claude.said /\ claude'.muddled = claude.muddled
      /\ claude'.working = claude.working /\ claude'.started = claude.started /\ claude'.block = <<>>
  BY <1>1, ClaudeSteps DEF ToolUse
<1>3. stack' = stack /\ segs' = ToolShown
  BY DEF ToolUse
<1>9. open' \in [Prose \cup {"tool"} -> [Index -> Nat]]
  BY LoosenedTyped DEF ToolUse, TalkInv, TalkType
<1>4. /\ segs' \in Seq(SegmentRecord) /\ Shown(segs') = Shown(segs) /\ (Ordered(segs) => Ordered(segs'))
      /\ (\A m \in Nat : UpTo(segs, m) => UpTo(segs', m)) /\ (HasError(segs) => HasError(segs'))
  <2>1. CASE InSubagent
    <3> DEFINE k == Last(stack).seg
    <3>1. segs' = [segs EXCEPT ![k].calls = @ + 1]
      BY <1>3, <2>1 DEF ToolShown
    <3> HIDE DEF k
    <3> QED
      BY <1>1, <3>1, CountedCall
  <2>2. CASE ~InSubagent
    <3> DEFINE g == Segment("tool", <<>>)
    <3>1. segs' = Append(segs, g)
      BY <1>3, <2>2 DEF ToolShown
    <3>2. Quiet(g)
      BY QuietSegments DEF SegmentKind
    <3> HIDE DEF g
    <3> QED
      BY <1>1, <3>1, <3>2, QuietSegment
  <2> QED
    BY <2>1, <2>2
<1>5. PiecesKept'
  BY <1>2, <1>4, SilenceKept
<1>6. TasksFollow'
  BY <1>2, <1>3, TasksSame
<1>7. ViewInv'
  <2>1. Happens /\ screen' \in Throttled(segs', "tools") /\ Heard("tools")
    BY DEF ToolUse
  <2>2. "tools" \in ViewStatus \ {"complete"}
    BY DEF ViewStatus
  <2> QED
    BY <1>4, <2>1, <2>2, ReadingGoesOn
<1>8. WritesLast'
  BY <1>2 DEF WritesLast
<1> QED
  BY <1>2, <1>3, <1>4, <1>5, <1>6, <1>7, <1>8, <1>9 DEF TalkInv, TalkType

(* A Task starts, and its subagent is pushed onto the stack.               *)
LEMMA TaskStartsKept ==
  ASSUME DisplayInv, NEW id \in AnyId, TaskStarts(id)
  PROVE  DisplayInv'
<1> USE DEF DisplayInv
<1> DEFINE n == claude.started + 1
           w == claude.working
           task == [n |-> n, id |-> id]
           frame == [id |-> id, seg |-> Len(segs) + 1]
<1>1. claude \in ClaudeRecord /\ segs \in Seq(SegmentRecord) /\ stack \in Seq([id : AnyId, seg : Nat])
      /\ w \in Seq([n : Nat, id : AnyId]) /\ claude.started \in Nat /\ Len(segs) \in Nat /\ n # None
  BY DEF TalkInv, TalkType, ClaudeRecord, None
<1>2. task \in [n : Nat, id : AnyId] /\ frame \in [id : AnyId, seg : Nat] /\ n \in Nat /\ task.n = n /\ task.id = id /\ frame.id = id
  BY <1>1
<1>3. /\ claude' = [Elapsed(claude) EXCEPT !.started = n, !.working = Append(@, task)]
      /\ segs' = Append(segs, Segment("subagent", <<>>))
      /\ stack' = Append(stack, frame)
      /\ claude.block = <<>>
  BY DEF TaskStarts
<1>11. open' \in [Prose \cup {"tool"} -> [Index -> Nat]]
  BY LoosenedTyped DEF TaskStarts, TalkInv, TalkType
<1> HIDE DEF task, frame
<1>4. /\ claude' \in ClaudeRecord /\ claude'.said = claude.said /\ claude'.muddled = claude.muddled
      /\ claude'.working = Append(w, task) /\ claude'.started = n /\ claude'.block = <<>>
  <2> DEFINE c == Elapsed(claude)
             v == Append(w, task)
  <2>1. c \in ClaudeRecord /\ c.said = claude.said /\ c.muddled = claude.muddled /\ c.working = w /\ c.block = <<>>
    BY <1>1, <1>3, ClaudeSteps
  <2>2. v \in Seq([n : Nat, id : AnyId])
    BY <1>1, <1>2
  <2>3. claude' = [c EXCEPT !.started = n, !.working = v]
    BY <1>3, <2>1
  <2> HIDE DEF c, v, n, w
  <2> QED
    BY <2>1, <2>2, <2>3, <1>2 DEF ClaudeRecord, v
<1>5. /\ segs' \in Seq(SegmentRecord) /\ Shown(segs') = Shown(segs) /\ (Ordered(segs) => Ordered(segs'))
      /\ (\A m \in Nat : UpTo(segs, m) => UpTo(segs', m)) /\ (HasError(segs) => HasError(segs'))
  <2> DEFINE g == Segment("subagent", <<>>)
  <2>1. segs' = Append(segs, g)
    BY <1>3
  <2>2. Quiet(g)
    BY QuietSegments DEF SegmentKind
  <2> HIDE DEF g
  <2> QED
    BY <1>1, <2>1, <2>2, QuietSegment
<1>6. PiecesKept'
  BY <1>4, <1>5, SilenceKept
<1>7. TasksFollow'
  <2> DEFINE v == Append(w, task)
  <2>1. /\ Len(v) = Len(w) + 1 /\ v[Len(w) + 1] = task /\ (\A i \in 1..Len(w) : v[i] = w[i])
        /\ DOMAIN v = 1..(Len(w) + 1) /\ DOMAIN w = 1..Len(w) /\ Len(w) \in Nat
    BY <1>1, <1>2
  <2>4. ~claude.muddled => Len(stack) = Len(w) /\ \A i \in DOMAIN w : stack[i].id = w[i].id
    BY DEF TalkInv, TasksFollow
  <2>5. /\ Len(stack') = Len(stack) + 1 /\ stack'[Len(stack) + 1] = frame /\ (\A i \in 1..Len(stack) : stack'[i] = stack[i])
        /\ Len(stack) \in Nat
    BY <1>1, <1>2, <1>3
  <2> HIDE DEF v, w
  <2>6. \A i \in DOMAIN v : v[i].n # None
    <3>1. \A i \in DOMAIN w : w[i].n # None
      BY DEF TalkInv, TasksFollow, w
    <3>2. task.n # None
      BY <1>1, <1>2
    <3>3. ASSUME NEW i \in DOMAIN v PROVE v[i].n # None
      <4>1. CASE i = Len(w) + 1
        BY <4>1, <2>1, <3>2
      <4>2. CASE i # Len(w) + 1
        <5>1. i \in DOMAIN w /\ v[i] = w[i]
          BY <4>2, <2>1
        <5> QED
          BY <5>1, <3>1
      <4> QED
        BY <4>1, <4>2
    <3> QED
      BY <3>3
  <2>8. ~claude.muddled => Len(stack') = Len(v) /\ \A i \in DOMAIN v : stack'[i].id = v[i].id
    <3> SUFFICES ASSUME ~claude.muddled PROVE Len(stack') = Len(v) /\ \A i \in DOMAIN v : stack'[i].id = v[i].id
      OBVIOUS
    <3>1. Len(stack') = Len(v)
      BY <2>1, <2>4, <2>5
    <3>2. ASSUME NEW i \in DOMAIN v PROVE stack'[i].id = v[i].id
      <4>1. CASE i = Len(w) + 1
        BY <4>1, <2>1, <2>4, <2>5, <1>2
      <4>2. CASE i # Len(w) + 1
        <5>1. i \in DOMAIN w /\ v[i] = w[i] /\ stack'[i] = stack[i]
          BY <4>2, <2>1, <2>4, <2>5
        <5> QED
          BY <5>1, <2>4
      <4> QED
        BY <4>1, <4>2
    <3> QED
      BY <3>1, <3>2
  <2>9. claude'.working = v /\ claude'.started = n /\ claude'.muddled = claude.muddled
    BY <1>4 DEF v, w
  <2> HIDE DEF n
  <2> QED
    BY <2>6, <2>8, <2>9 DEF TasksFollow
<1>8. ViewInv'
  <2>1. Happens /\ screen' \in Throttled(segs', "subagent") /\ Heard("subagent")
    BY DEF TaskStarts
  <2>2. "subagent" \in ViewStatus \ {"complete"}
    BY DEF ViewStatus
  <2> QED
    BY <1>5, <2>1, <2>2, ReadingGoesOn
<1>9. WritesLast'
  BY <1>4 DEF WritesLast
<1>10. stack' \in Seq([id : AnyId, seg : Nat])
  BY <1>1, <1>2, <1>3
<1> QED
  BY <1>4, <1>5, <1>6, <1>7, <1>8, <1>9, <1>10, <1>11 DEF TalkInv, TalkType

(* What a result leaves of the stack is a stack.                           *)
LEMMA PoppedTyped ==
  ASSUME stack \in Seq([id : AnyId, seg : Nat]), NEW id
  PROVE  Popped(id) \in Seq([id : AnyId, seg : Nat])
<1> DEFINE T == [id : AnyId, seg : Nat]
           hits == {i \in DOMAIN stack : Alike(stack[i].id, id)}
           h == CHOOSE i \in hits : \A j \in hits : j <= i
<1>1. CASE hits = {}
  <2>1. stack \in Seq(T)
    OBVIOUS
  <2> HIDE DEF T
  <2>2. InSubagent => Front(stack) \in Seq(T)
    <3> SUFFICES ASSUME stack # <<>> PROVE SubSeq(stack, 1, Len(stack) - 1) \in Seq(T)
      BY DEF InSubagent, Front
    <3>1. Len(stack) \in Nat /\ Len(stack) # 0
      BY <2>1
    <3> QED
      BY <2>1, <3>1
  <2>3. Popped(id) \in {stack} \cup (IF InSubagent THEN {Front(stack)} ELSE {})
    BY <1>1 DEF Popped
  <2> QED
    BY <2>1, <2>2, <2>3 DEF T
<1>2. CASE hits # {}
  <2>1. Popped(id) = SubSeq(stack, 1, h - 1)
    BY <1>2 DEF Popped
  <2>2. \E i \in hits : \A j \in hits : j <= i
    <3> DEFINE over == {m \in Nat : \A j \in hits : j <= m}
    <3>0. Len(stack) \in Nat /\ hits \subseteq 1..Len(stack)
      OBVIOUS
    <3>1. Len(stack) \in over
      BY <3>0
    <3>2. PICK m \in over : \A x \in over : m <= x
      <4>1. over \in SUBSET Nat /\ over # {}
        BY <3>1
      <4> HIDE DEF over
      <4> QED
        BY <4>1, LeastNumber
    <3> HIDE DEF hits
    <3>3. m \in Nat /\ \A j \in hits : j <= m
      OBVIOUS
    <3>4. m \in hits
      <4> SUFFICES ASSUME m \notin hits PROVE FALSE
        OBVIOUS
      <4>1. \A j \in hits : j <= m - 1 /\ j >= 1 /\ j \in Nat
        BY <3>0, <3>3
      <4>2. PICK j \in hits : TRUE
        BY <1>2
      <4>3. m - 1 \in Nat
        BY <4>1, <4>2, <3>3
      <4>4. m - 1 \in over
        BY <4>1, <4>3
      <4> QED
        BY <3>2, <3>3, <4>4
    <3> QED
      BY <3>3, <3>4
  <2>3. h \in hits
    BY <2>2
  <2>4. h \in 1..Len(stack)
    <3> HIDE DEF h
    <3>1. h \in DOMAIN stack
      BY <2>3
    <3> QED
      BY <3>1
  <2> HIDE DEF h, hits, T
  <2>5. SubSeq(stack, 1, h - 1) \in Seq(T)
    <3>1. h - 1 \in 0..Len(stack) /\ stack \in Seq(T)
      BY <2>4 DEF T
    <3> QED
      BY <3>1
  <2> QED
    BY <2>1, <2>5 DEF T
<1> QED
  BY <1>1, <1>2

(* What the transcript takes for the result of a Task, in a turn that is   *)
(* not muddled.                                                            *)
LEMMA HitsAreLike ==
  ASSUME TalkInv, ~claude.muddled, NEW id
  PROVE  LET hits == {i \in DOMAIN stack : Alike(stack[i].id, id)}
         IN /\ hits # {} <=> LikeATask(id)
            /\ stack = <<>> <=> claude.working = <<>>
            /\ stack # <<>> => /\ Last(stack).id = Last(claude.working).id
                               /\ Len(stack) \in DOMAIN stack /\ Last(stack) = stack[Len(stack)]
            /\ Len(stack) = Len(claude.working) /\ Len(stack) \in Nat /\ DOMAIN stack = 1..Len(stack)
<1> DEFINE w == claude.working
<1>1. stack \in Seq([id : AnyId, seg : Nat]) /\ w \in Seq([n : Nat, id : AnyId])
  BY DEF TalkInv, TalkType, ClaudeRecord
<1>2. Len(stack) = Len(w) /\ \A i \in DOMAIN w : stack[i].id = w[i].id
  BY DEF TalkInv, TasksFollow
<1>3. DOMAIN stack = DOMAIN w /\ DOMAIN stack = 1..Len(stack) /\ Len(stack) \in Nat
  BY <1>1, <1>2
<1>4. stack = <<>> <=> w = <<>>
  BY <1>1, <1>2
<1>5. stack # <<>> => /\ Len(stack) \in DOMAIN stack /\ Last(stack) = stack[Len(stack)]
                      /\ Last(w) = w[Len(stack)]
  BY <1>1, <1>2, <1>3 DEF Last
<1> QED
  BY <1>2, <1>3, <1>4, <1>5 DEF LikeATask

(* The result that ends the last Task closes it and no other.              *)
LEMMA PoppedLast ==
  ASSUME TalkInv, ~claude.muddled, claude.working # <<>>, NEW id, KnownByLast(id)
  PROVE  Popped(id) = SubSeq(stack, 1, Len(stack) - 1)
<1> DEFINE hits == {i \in DOMAIN stack : Alike(stack[i].id, id)}
           n == Len(stack)
<1>1. /\ hits # {} <=> LikeATask(id)
      /\ stack # <<>> /\ Last(stack).id = Last(claude.working).id
      /\ n \in DOMAIN stack /\ Last(stack) = stack[n] /\ n \in Nat /\ DOMAIN stack = 1..n
  BY HitsAreLike
<1>2. CASE Alike(Last(claude.working).id, id)
  <2>1. n \in hits /\ \A j \in hits : j <= n
    BY <1>1, <1>2
  <2>2. \A i \in hits : i \in Nat
    BY <1>1
  <2>3. Popped(id) = SubSeq(stack, 1, (CHOOSE i \in hits : \A j \in hits : j <= i) - 1)
    BY <2>1 DEF Popped
  <2> HIDE DEF hits, n
  <2>4. (CHOOSE i \in hits : \A j \in hits : j <= i) = n
    BY <2>1, <2>2, <1>1
  <2> QED
    BY <2>3, <2>4 DEF n
<1>3. CASE TakenForLast(id)
  <2>1. hits = {} /\ InSubagent /\ Last(stack).id = Unnamed /\ Guessed(id)
    BY <1>1, <1>3 DEF TakenForLast, InSubagent
  <2> QED
    BY <2>1 DEF Popped, Front
<1> QED
  BY <1>2, <1>3 DEF KnownByLast

(* Other results close no Task.                                            *)
LEMMA PoppedNone ==
  ASSUME TalkInv, ~claude.muddled, NEW id, ~LikeATask(id), ~TakenForLast(id)
  PROVE  Popped(id) = stack
<1> DEFINE hits == {i \in DOMAIN stack : Alike(stack[i].id, id)}
<1>1. /\ hits = {} /\ (stack # <<>> => Last(stack).id = Last(claude.working).id)
      /\ stack = <<>> <=> claude.working = <<>>
  BY HitsAreLike
<1>2. ~(InSubagent /\ Last(stack).id = Unnamed /\ Guessed(id))
  BY <1>1 DEF TakenForLast, InSubagent
<1> QED
  BY <1>1, <1>2 DEF Popped

(* A result keeps the transcript's stack and the Tasks at work together,   *)
(* if it muddles nothing.                                                  *)
LEMMA ResultKept ==
  ASSUME DisplayInv, NEW id \in AnyId, NEW v \in Seq([n : Nat, id : AnyId]), NEW b \in BOOLEAN,
         Result(id, v, b), \A i \in DOMAIN v : v[i].n # None,
         ~claude.muddled /\ ~b => Len(Popped(id)) = Len(v) /\ \A i \in DOMAIN v : Popped(id)[i].id = v[i].id
  PROVE  DisplayInv'
<1> USE DEF DisplayInv
<1>1. claude \in ClaudeRecord /\ segs \in Seq(SegmentRecord) /\ stack \in Seq([id : AnyId, seg : Nat])
      /\ claude.muddled \in BOOLEAN
  BY DEF TalkInv, TalkType, ClaudeRecord
<1>2. /\ claude' = [Elapsed(claude) EXCEPT !.working = v, !.muddled = @ \/ b]
      /\ segs' = segs /\ open' = open /\ stack' = Popped(id) /\ claude.block = <<>>
  BY DEF Result
<1>3. /\ claude' \in ClaudeRecord /\ claude'.said = claude.said /\ (claude'.muddled <=> claude.muddled \/ b)
      /\ claude'.working = v /\ claude'.block = <<>>
  <2> DEFINE c == Elapsed(claude)
             m == claude.muddled \/ b
  <2>1. c \in ClaudeRecord /\ c.said = claude.said /\ c.muddled = claude.muddled /\ c.block = <<>>
    BY <1>1, <1>2, ClaudeSteps
  <2>2. claude' = [c EXCEPT !.working = v, !.muddled = m] /\ m \in BOOLEAN
    BY <1>1, <1>2, <2>1
  <2> HIDE DEF c, m
  <2>3. claude' \in ClaudeRecord /\ claude'.said = c.said /\ claude'.muddled = m /\ claude'.working = v
        /\ claude'.block = c.block
    BY <2>1, <2>2 DEF ClaudeRecord
  <2> QED
    BY <2>1, <2>3 DEF m
<1>4. TasksFollow'
  BY <1>2, <1>3 DEF TasksFollow
<1>5. PiecesKept'
  <2>1. ~claude'.muddled => ~claude.muddled
    BY <1>3
  <2> QED
    BY <1>2, <1>3, <2>1, SilenceKept
<1>6. ViewInv'
  <2>1. Happens /\ screen' \in Throttled(segs', "tools") /\ Heard("tools")
    BY <1>2 DEF Result
  <2>2. "tools" \in ViewStatus \ {"complete"}
    BY DEF ViewStatus
  <2> QED
    BY <1>1, <1>2, <2>1, <2>2, ReadingGoesOn
<1>7. WritesLast'
  BY <1>3 DEF WritesLast
<1>8. stack' \in Seq([id : AnyId, seg : Nat])
  BY <1>1, <1>2, PoppedTyped
<1> QED
  BY <1>1, <1>2, <1>3, <1>4, <1>5, <1>6, <1>7, <1>8 DEF TalkInv, TalkType

(* A Task ends: the last one pops its own segment, if it is known by the   *)
(* id of its result; else the turn is muddled.                             *)
LEMMA TaskEndsKept ==
  ASSUME DisplayInv, NEW k \in DOMAIN claude.working, NEW id \in AnyId, TaskEnds(k, id)
  PROVE  DisplayInv'
<1> DEFINE w == claude.working
           v == RemoveAt(w, k)
           b == k < Len(w) \/ ~KnownByLast(id)
           T == [n : Nat, id : AnyId]
<1>1. w \in Seq(T) /\ Len(w) \in Nat /\ k \in 1..Len(w) /\ stack \in Seq([id : AnyId, seg : Nat])
  BY DEF DisplayInv, TalkInv, TalkType, ClaudeRecord
<1>3. /\ v \in Seq(T) /\ Len(v) = Len(w) - 1 /\ DOMAIN v = 1..(Len(w) - 1)
      /\ \A i \in DOMAIN v : v[i] = w[IF i < k THEN i ELSE i + 1]
  <2>1. v = SubSeq(w, 1, k - 1) \o SubSeq(w, k + 1, Len(w))
    BY DEF RemoveAt
  <2> HIDE DEF v, w, T
  <2> DEFINE a == SubSeq(w, 1, k - 1)
             c == SubSeq(w, k + 1, Len(w))
  <2>2. a \in Seq(T) /\ Len(a) = k - 1 /\ \A i \in 1..(k - 1) : a[i] = w[i]
    BY <1>1
  <2>3. c \in Seq(T) /\ Len(c) = Len(w) - k /\ \A i \in 1..(Len(w) - k) : c[i] = w[k + i]
    BY <1>1
  <2> HIDE DEF a, c
  <2>4. v = a \o c
    BY <2>1 DEF a, c
  <2>5. v \in Seq(T) /\ Len(v) = Len(w) - 1
    BY <2>2, <2>3, <2>4, <1>1
  <2>6. ASSUME NEW i \in 1..(Len(w) - 1) PROVE v[i] = w[IF i < k THEN i ELSE i + 1]
    <3>1. CASE i < k
      BY <3>1, <2>2, <2>3, <2>4, <1>1
    <3>2. CASE ~(i < k)
      <4>1. i \in Nat /\ i >= k /\ i <= Len(w) - 1
        BY <3>2, <1>1
      <4>2. i - (k - 1) \in 1..(Len(w) - k) /\ k + (i - (k - 1)) = i + 1
        BY <4>1, <1>1
      <4>4. i \in 1..(Len(a) + Len(c)) /\ ~(i <= Len(a)) /\ Len(a) \in Nat /\ Len(c) \in Nat
        BY <4>1, <2>2, <2>3, <1>1
      <4>3. v[i] = c[i - Len(a)]
        BY <4>4, <2>2, <2>3, <2>4
      <4> QED
        BY <4>2, <4>3, <3>2, <2>2, <2>3
    <3> QED
      BY <3>1, <3>2
  <2> QED
    BY <2>5, <2>6
<1>4. \A i \in DOMAIN v : v[i].n # None
  <2>1. \A i \in DOMAIN w : w[i].n # None
    BY DEF DisplayInv, TalkInv, TasksFollow
  <2>2. \A i \in DOMAIN v : (IF i < k THEN i ELSE i + 1) \in DOMAIN w
    BY <1>1, <1>3
  <2> HIDE DEF v, w
  <2> QED
    BY <1>3, <2>1, <2>2
<1>5. ASSUME ~claude.muddled, ~b
      PROVE  Len(Popped(id)) = Len(v) /\ \A i \in DOMAIN v : Popped(id)[i].id = v[i].id
  <2>1. k = Len(w) /\ w # <<>> /\ KnownByLast(id)
    BY <1>1, <1>5
  <2>2. Popped(id) = SubSeq(stack, 1, Len(stack) - 1)
    BY <1>5, <2>1, PoppedLast DEF DisplayInv
  <2>3. Len(stack) = Len(w) /\ \A i \in DOMAIN w : stack[i].id = w[i].id
    BY <1>5 DEF DisplayInv, TalkInv, TasksFollow
  <2>4. Len(Popped(id)) = Len(w) - 1 /\ \A i \in 1..(Len(w) - 1) : Popped(id)[i] = stack[i]
    BY <1>1, <2>2, <2>3
  <2> HIDE DEF v, w
  <2>5. ASSUME NEW i \in 1..(Len(w) - 1) PROVE v[i] = w[i] /\ i \in DOMAIN w
    <3>1. i \in DOMAIN v /\ i < k /\ DOMAIN w = 1..Len(w)
      BY <1>1, <1>3, <2>1
    <3> QED
      BY <1>1, <1>3, <3>1
  <2> QED
    BY <1>3, <2>3, <2>4, <2>5
<1>6. Result(id, v, b) /\ b \in BOOLEAN
  BY DEF TaskEnds
<1> HIDE DEF v, b
<1> QED
  BY <1>3, <1>4, <1>5, <1>6, ResultKept

(* The result of another tool closes no Task, unless it muddles the turn.  *)
LEMMA ToolAnsweredKept ==
  ASSUME DisplayInv, NEW id \in AnyId, ToolAnswered(id)
  PROVE  DisplayInv'
<1> DEFINE w == claude.working
           b == LikeATask(id) \/ TakenForLast(id)
<1>1. w \in Seq([n : Nat, id : AnyId]) /\ \A i \in DOMAIN w : w[i].n # None
  BY DEF DisplayInv, TalkInv, TalkType, TasksFollow, ClaudeRecord
<1>2. ASSUME ~claude.muddled, ~b
      PROVE  Len(Popped(id)) = Len(w) /\ \A i \in DOMAIN w : Popped(id)[i].id = w[i].id
  <2>1. Popped(id) = stack
    BY <1>2, PoppedNone DEF DisplayInv
  <2> QED
    BY <1>2, <2>1 DEF DisplayInv, TalkInv, TasksFollow
<1>3. Result(id, w, b) /\ b \in BOOLEAN
  BY DEF ToolAnswered, LikeATask, TakenForLast
<1> HIDE DEF w, b
<1> QED
  BY <1>1, <1>2, <1>3, ResultKept

\* Steps of the runner: what was said stays.
LEMMA TalkStays ==
  ASSUME TalkInv, claude' = claude \/ claude' = [Elapsed(claude) EXCEPT !.block = <<>>],
         segs' = segs \/ \E g : Quiet(g) /\ segs' = Append(segs, g),
         open' = open, stack' = stack,
         segs' = segs \/ reader'.end # "none" \/ claude'.block = <<>>, reader'.end = "none" => reader.end = "none"
  PROVE  TalkInv' /\ (HasError(segs) => HasError(segs'))
<1>1. claude \in ClaudeRecord /\ segs \in Seq(SegmentRecord)
  BY DEF TalkInv, TalkType
<1>2. /\ claude' \in ClaudeRecord /\ claude'.said = claude.said /\ claude'.muddled = claude.muddled
      /\ claude'.working = claude.working /\ claude'.started = claude.started
      /\ claude'.block = claude.block \/ claude'.block = <<>>
      /\ claude'.streams = claude.streams
  <2>1. CASE claude' = claude
    BY <2>1, <1>1
  <2>2. CASE claude' = [Elapsed(claude) EXCEPT !.block = <<>>]
    <3> DEFINE c == Elapsed(claude)
    <3>1. /\ c \in ClaudeRecord /\ c.said = claude.said /\ c.muddled = claude.muddled /\ c.working = claude.working
          /\ c.started = claude.started /\ c.streams = claude.streams
      BY <1>1, ClaudeSteps
    <3>2. claude' = [c EXCEPT !.block = <<>>]
      BY <2>2
    <3> HIDE DEF c
    <3> QED
      BY <3>1, <3>2, BlockSet
  <2> QED
    BY <2>1, <2>2
<1>3. /\ segs' \in Seq(SegmentRecord) /\ Shown(segs') = Shown(segs) /\ (Ordered(segs) => Ordered(segs'))
      /\ (\A m \in Nat : UpTo(segs, m) => UpTo(segs', m)) /\ (HasError(segs) => HasError(segs'))
  <2>1. ASSUME NEW g, Quiet(g), segs' = Append(segs, g)
        PROVE  /\ segs' \in Seq(SegmentRecord) /\ Shown(segs') = Shown(segs) /\ (Ordered(segs) => Ordered(segs'))
               /\ (\A m \in Nat : UpTo(segs, m) => UpTo(segs', m)) /\ (HasError(segs) => HasError(segs'))
    BY <1>1, <2>1, QuietSegment
  <2> QED
    BY <1>1, <2>1
<1>4. PiecesKept'
  BY <1>2, <1>3, SilenceKept
<1>5. TasksFollow'
  BY <1>2, TasksSame
<1>6. WritesLast'
  BY <1>2 DEF WritesLast, TalkInv
<1> QED
  BY <1>2, <1>3, <1>4, <1>5, <1>6 DEF TalkInv, TalkType

(* An error is a segment at the end, in which nothing is said.             *)
LEMMA ErrorAdded ==
  ASSUME NEW s \in Seq(SegmentRecord)
  PROVE  /\ ErrorSegment(s) \in Seq(SegmentRecord) /\ HasError(ErrorSegment(s))
         /\ \E g : Quiet(g) /\ ErrorSegment(s) = Append(s, g)
<1> DEFINE g == Segment("error", <<>>)
<1>1. Quiet(g) /\ g.kind = "error" /\ ErrorSegment(s) = Append(s, g)
  BY QuietSegments DEF SegmentKind, ErrorSegment
<1> HIDE DEF g
<1>2. Append(s, g) \in Seq(SegmentRecord) /\ Append(s, g)[Len(s) + 1] = g /\ Len(s) + 1 \in DOMAIN Append(s, g)
  BY <1>1 DEF Quiet
<1> QED
  BY <1>1, <1>2 DEF HasError

(* A failure changes the claim of the reader and nothing of where it is.   *)
LEMMA FailedFields ==
  ASSUME NEW r \in ReaderRecord, NEW b \in BOOLEAN
  PROVE  LET t == Failed(r, b)
         IN t \in ReaderRecord /\ t.claim = "error" /\ (t.spread <=> (r.spread \/ b)) /\ t.at = r.at /\ t.end = r.end
            /\ t.error = r.error
<1> DEFINE c == (r.spread \/ b)
<1>1. c \in BOOLEAN /\ (c <=> (r.spread \/ b))
  BY DEF ReaderRecord
<1>2. Failed(r, b) = [r EXCEPT !.claim = "error", !.spread = c]
  BY DEF Failed
<1> HIDE DEF c
<1> QED
  BY <1>1, <1>2 DEF ReaderRecord

(* A turn that does not complete is claimed an error, and its failure is   *)
(* spread to the replies when Claude Code exits badly or the reader        *)
(* raises.                                                                 *)
LEMMA ReaderEnds ==
  ASSUME ReaderOk, reader.end = "none", NEW b \in BOOLEAN, NEW at \in {"reading", "done"}, NEW end \in EndKind,
         reader' = [Failed(reader, b) EXCEPT !.at = at, !.end = end],
         end \notin {"none", "complete"}, b <=> end \in {"exit", "raised"}, at = "reading" => end = "exit"
  PROVE  ReaderOk' /\ reader'.end = end /\ reader'.error = reader.error
<1> DEFINE t == Failed(reader, b)
<1>1. t \in ReaderRecord /\ t.claim = "error" /\ (t.spread <=> (reader.spread \/ b)) /\ t.error = reader.error
  BY FailedFields DEF ReaderOk
<1>2. ~reader.spread
  BY DEF ReaderOk
<1>3. reader' = [t EXCEPT !.at = at, !.end = end]
  OBVIOUS
<1> HIDE DEF t
<1>4. /\ reader' \in ReaderRecord /\ reader'.at = at /\ reader'.end = end /\ reader'.claim = "error" /\ (reader'.spread <=> b)
      /\ reader'.error = reader.error
  BY <1>1, <1>2, <1>3 DEF ReaderRecord
<1> QED
  BY <1>4 DEF ReaderOk

(* The session is there, and reading begins.                               *)
LEMMA SessionOpensKept ==
  ASSUME DisplayInv, SessionOpens
  PROVE  DisplayInv'
<1> USE DEF DisplayInv
<1>1. UNCHANGED <<claude, segs, open, stack, screen>> /\ reader.at = "starting" /\ reader' = [reader EXCEPT !.at = "reading"]
  BY DEF SessionOpens
<1>2. ReaderOk' /\ reader'.end = reader.end /\ reader'.error = reader.error
  BY <1>1 DEF ViewInv, ReaderOk, ReaderRecord
<1>3. TalkInv'
  BY <1>1, <1>2, TalkStays
<1>4. ViewInv'
  BY <1>1, <1>2 DEF ViewInv, ScreenOk, ErrorShown, EndShown
<1> QED
  BY <1>3, <1>4

(* The last event has been read.                                           *)
LEMMA StreamEndsKept ==
  ASSUME DisplayInv, StreamEnds
  PROVE  DisplayInv'
<1> USE DEF DisplayInv
<1>1. UNCHANGED <<claude, segs, open, stack, screen>> /\ reader.end # "none" /\ reader' = [reader EXCEPT !.at = "done"]
  BY DEF StreamEnds
<1>2. ReaderOk' /\ reader'.end = reader.end /\ reader'.error = reader.error
  BY <1>1 DEF ViewInv, ReaderOk, ReaderRecord
<1>3. TalkInv'
  BY <1>1, <1>2, TalkStays
<1>4. ViewInv'
  BY <1>1, <1>2 DEF ViewInv, ScreenOk, ErrorShown, EndShown
<1> QED
  BY <1>3, <1>4

(* The pool refuses a session: the turn ends with an error and the limit   *)
(* status.                                                                 *)
LEMMA SessionRefusedKept ==
  ASSUME DisplayInv, SessionRefused
  PROVE  DisplayInv'
<1> USE DEF DisplayInv
<1>1. /\ reader.at = "starting" /\ reader' = [Failed(reader, FALSE) EXCEPT !.at = "done", !.end = "refused"]
      /\ segs' = ErrorSegment(segs) /\ screen' \in Forced(segs', "limit")
      /\ claude' = claude /\ open' = open /\ stack' = stack
  BY DEF SessionRefused
<1>2. segs \in Seq(SegmentRecord) /\ ReaderOk /\ reader.end = "none"
  BY <1>1 DEF ViewInv, ReaderOk
<1>3. ReaderOk' /\ reader'.end = "refused"
  BY <1>1, <1>2, ReaderEnds DEF EndKind
<1>4. segs' \in Seq(SegmentRecord) /\ \E g : Quiet(g) /\ segs' = Append(segs, g)
  BY <1>1, <1>2, ErrorAdded
<1>5. TalkInv'
  BY <1>1, <1>3, <1>4, TalkStays
<1>6. ViewInv'
  BY <1>1, <1>3, <1>4, LastEdit DEF ViewStatus, FinalStatus
<1> QED
  BY <1>5, <1>6

(* Claude Code reports an error: it is shown at once, unless the edit is   *)
(* lost.                                                                   *)
LEMMA ErrorEventKept ==
  ASSUME DisplayInv, ErrorEvent
  PROVE  DisplayInv'
<1> USE DEF DisplayInv
<1>1. /\ Happens /\ claude' = [Elapsed(claude) EXCEPT !.block = <<>>]
      /\ segs' = ErrorSegment(segs) /\ screen' \in Forced(segs', "error")
      /\ reader' = [Failed(reader, FALSE) EXCEPT !.had = TRUE, !.error = TRUE]
      /\ open' = open /\ stack' = stack
  BY DEF ErrorEvent
<1>2. segs \in Seq(SegmentRecord) /\ ReaderOk /\ reader.end = "none" /\ reader.at = "reading" /\ reader \in ReaderRecord /\ ScreenOk(screen)
  BY <1>1 DEF ViewInv, ReaderOk, Happens, Reading
<1>3. ReaderOk' /\ reader'.end = "none"
  <2> DEFINE t == Failed(reader, FALSE)
  <2>1. t \in ReaderRecord /\ t.claim = "error" /\ (t.spread <=> reader.spread) /\ t.at = "reading" /\ t.end = "none"
    BY <1>2, FailedFields
  <2>2. reader' = [t EXCEPT !.had = TRUE, !.error = TRUE]
    BY <1>1
  <2>3. ~reader.spread
    BY <1>2 DEF ReaderOk
  <2> HIDE DEF t
  <2>4. /\ reader' \in ReaderRecord /\ reader'.at = "reading" /\ reader'.end = "none" /\ reader'.claim = "error"
        /\ ~reader'.spread
    BY <2>1, <2>2, <2>3 DEF ReaderRecord
  <2> QED
    BY <2>4 DEF ReaderOk
<1>4. segs' \in Seq(SegmentRecord) /\ HasError(segs') /\ \E g : Quiet(g) /\ segs' = Append(segs, g)
  BY <1>1, <1>2, ErrorAdded
<1>5. TalkInv'
  <2>1. claude'.block = <<>>
    BY <1>1, ClaudeSteps, BlockSet DEF TalkInv, TalkType
  <2> QED
    BY <1>1, <1>2, <1>4, <2>1, TalkStays
<1>6. ScreenOk(screen') /\ (screen'.lost \/ screen'.shown = Rendered(segs', "error"))
  BY <1>1, <1>2, <1>4, ForcedFits DEF ViewStatus
<1>7. ErrorShown'
  <2>1. TellsError(Rendered(segs', "error"))
    BY <1>4, RenderedFits DEF ViewStatus
  <2> QED
    BY <1>4, <1>6, <2>1 DEF ErrorShown
<1>8. EndShown'
  BY <1>3 DEF EndShown
<1>9. ViewInv'
  BY <1>3, <1>4, <1>6, <1>7, <1>8 DEF ViewInv
<1> QED
  BY <1>5, <1>9

(* Claude Code exits well: the turn completes, with a placeholder if it    *)
(* said nothing.                                                           *)
LEMMA ExitsWellKept ==
  ASSUME DisplayInv, ExitsWell
  PROVE  DisplayInv'
<1> USE DEF DisplayInv
<1>1. /\ reader.at = "reading" /\ reader.end = "none"
      /\ segs' = (IF reader.had THEN segs ELSE Append(segs, Segment("text", <<None>>)))
      /\ screen' \in Forced(segs', "complete")
      /\ reader' = [reader EXCEPT !.end = "complete", !.claim = "completed"]
      /\ claude' = claude /\ open' = open /\ stack' = stack
  BY DEF ExitsWell, Reading
<1>2. segs \in Seq(SegmentRecord) /\ ReaderOk
  BY DEF ViewInv
<1>3. ReaderOk' /\ reader'.end = "complete"
  BY <1>1, <1>2 DEF ReaderOk, ReaderRecord, EndKind
<1>4. segs' \in Seq(SegmentRecord) /\ (segs' = segs \/ \E g : Quiet(g) /\ segs' = Append(segs, g))
  <2> DEFINE g == Segment("text", <<None>>)
  <2>1. Quiet(g)
    BY QuietSegments DEF SegmentKind
  <2>2. segs' = segs \/ segs' = Append(segs, g)
    BY <1>1
  <2> HIDE DEF g
  <2> QED
    BY <1>2, <2>1, <2>2, QuietSegment
<1>5. TalkInv'
  BY <1>1, <1>3, <1>4, TalkStays
<1>6. ViewInv'
  BY <1>1, <1>3, <1>4, LastEdit DEF ViewStatus, FinalStatus
<1> QED
  BY <1>5, <1>6

(* Claude Code exits badly: the error is shown, unless one has been.       *)
LEMMA ExitsBadlyKept ==
  ASSUME DisplayInv, ExitsBadly
  PROVE  DisplayInv'
<1> USE DEF DisplayInv
<1>1. /\ reader.at = "reading" /\ reader.end = "none"
      /\ IF reader.error THEN segs' = segs /\ screen' = screen
         ELSE segs' = ErrorSegment(segs) /\ screen' \in Forced(segs', "error")
      /\ reader' = [Failed(reader, TRUE) EXCEPT !.end = "exit"]
      /\ claude' = claude /\ open' = open /\ stack' = stack
  BY DEF ExitsBadly, Reading
<1>2. segs \in Seq(SegmentRecord) /\ ReaderOk /\ ScreenOk(screen)
  BY DEF ViewInv
<1>3. ReaderOk' /\ reader'.end = "exit" /\ reader'.error = reader.error
  <2> DEFINE t == Failed(reader, TRUE)
  <2>1. t \in ReaderRecord /\ t.at = "reading"
    BY <1>1, <1>2, FailedFields DEF ReaderOk
  <2>2. [t EXCEPT !.end = "exit"] = [t EXCEPT !.at = "reading", !.end = "exit"]
    <3> HIDE DEF t
    <3> QED
      BY <2>1 DEF ReaderRecord
  <2>3. reader' = [Failed(reader, TRUE) EXCEPT !.at = "reading", !.end = "exit"]
    BY <1>1, <2>2
  <2> QED
    BY <1>1, <1>2, <2>3, ReaderEnds DEF EndKind
<1>4. segs' \in Seq(SegmentRecord) /\ (segs' = segs \/ \E g : Quiet(g) /\ segs' = Append(segs, g))
  BY <1>1, <1>2, ErrorAdded
<1>5. TalkInv'
  BY <1>1, <1>3, <1>4, TalkStays
<1>6. ViewInv'
  <2>1. CASE reader.error
    <3>1. ~screen.lost => TellsError(screen.shown)
      BY <1>1, <2>1 DEF ViewInv, ErrorShown
    <3>2. segs' = segs /\ screen' = screen
      BY <1>1, <2>1
    <3>3. ScreenOk(screen')
      BY <1>2, <3>2
    <3>4. ErrorShown'
      BY <1>3 DEF ErrorShown
    <3>5. EndShown'
      BY <1>3, <2>1, <3>1, <3>2 DEF EndShown
    <3> QED
      BY <1>3, <1>4, <3>3, <3>4, <3>5 DEF ViewInv
  <2>2. CASE ~reader.error
    <3>1. screen' \in Forced(segs', "error")
      BY <1>1, <2>2
    <3>2. FinalStatus["exit"] = "error" /\ "error" \in ViewStatus
      BY DEF FinalStatus, ViewStatus
    <3> QED
      BY <1>3, <1>4, <2>2, <3>1, <3>2, LastEdit
  <2> QED
    BY <2>1, <2>2
<1> QED
  BY <1>5, <1>6

(* Reading raises: the turn ends with an error and is failed.              *)
LEMMA ReadingRaisesKept ==
  ASSUME DisplayInv, ReadingRaises
  PROVE  DisplayInv'
<1> USE DEF DisplayInv
<1>1. /\ reader.end = "none" /\ reader' = [Failed(reader, TRUE) EXCEPT !.at = "done", !.end = "raised"]
      /\ segs' = ErrorSegment(segs) /\ screen' \in Forced(segs', "failed")
      /\ claude' = claude /\ open' = open /\ stack' = stack
  BY DEF ReadingRaises, Attended
<1>2. segs \in Seq(SegmentRecord) /\ ReaderOk
  BY DEF ViewInv
<1>3. ReaderOk' /\ reader'.end = "raised"
  BY <1>1, <1>2, ReaderEnds DEF EndKind
<1>4. segs' \in Seq(SegmentRecord) /\ \E g : Quiet(g) /\ segs' = Append(segs, g)
  BY <1>1, <1>2, ErrorAdded
<1>5. TalkInv'
  BY <1>1, <1>3, <1>4, TalkStays
<1>6. ViewInv'
  BY <1>1, <1>3, <1>4, LastEdit DEF ViewStatus, FinalStatus
<1> QED
  BY <1>5, <1>6

(* The turn is cancelled: stopped, cleared or for another reason.          *)
LEMMA TurnCancelledKept ==
  ASSUME DisplayInv, NEW reason \in {"stop", "clear", "other"}, TurnCancelled(reason)
  PROVE  DisplayInv'
<1> USE DEF DisplayInv
<1> DEFINE mark == IF reason = "stop" THEN "stopped" ELSE "cancelled"
<1>1. /\ reader.end = "none" /\ reader' = [Failed(reader, FALSE) EXCEPT !.at = "done", !.end = reason]
      /\ segs' = (IF reason = "other" THEN ErrorSegment(segs) ELSE segs)
      /\ IF reason = "clear" THEN screen' = screen ELSE screen' \in Forced(segs', mark)
      /\ claude' = claude /\ open' = open /\ stack' = stack
  BY DEF TurnCancelled, Attended
<1>2. segs \in Seq(SegmentRecord) /\ ReaderOk /\ ScreenOk(screen)
  BY DEF ViewInv
<1>3. ReaderOk' /\ reader'.end = reason
  <2>1. reason \in EndKind /\ reason \notin {"none", "complete"} /\ (FALSE <=> reason \in {"exit", "raised"})
    BY DEF EndKind
  <2> QED
    BY <1>1, <1>2, <2>1, ReaderEnds
<1>4. segs' \in Seq(SegmentRecord) /\ (segs' = segs \/ \E g : Quiet(g) /\ segs' = Append(segs, g))
  BY <1>1, <1>2, ErrorAdded
<1>5. TalkInv'
  BY <1>1, <1>3, <1>4, TalkStays
<1>6. ViewInv'
  <2>1. CASE reason = "clear"
    BY <1>1, <1>2, <1>3, <1>4, <2>1 DEF ViewInv, ScreenOk, ErrorShown, EndShown
  <2>2. CASE reason # "clear"
    <3>1. mark \in ViewStatus /\ mark # "none" /\ FinalStatus[reason] = mark
      BY <2>2 DEF ViewStatus, FinalStatus
    <3>2. screen' \in Forced(segs', mark)
      BY <1>1, <2>2
    <3> HIDE DEF mark
    <3> QED
      BY <1>3, <1>4, <2>2, <3>1, <3>2, LastEdit
  <2> QED
    BY <2>1, <2>2
<1> QED
  BY <1>5, <1>6

-----------------------------------------------------------------------------
(* The invariant, and the property.                                        *)

(* A turn begins with an empty transcript and the queued status.           *)
LEMMA DisplayStarts == DisplayInit => DisplayInv
<1> SUFFICES ASSUME DisplayInit PROVE DisplayInv
  OBVIOUS
<1>1. PICK streams \in BOOLEAN :
        claude = [streams |-> streams, block |-> <<>>, working |-> <<>>, started |-> 0, said |-> <<>>, muddled |-> FALSE, events |-> 0]
  BY DEF DisplayInit
<1>2. /\ segs = <<>> /\ stack = <<>>
      /\ open = [kind \in Prose \cup {"tool"} |-> [i \in Index |-> None]]
      /\ screen = [shown |-> [segs |-> <<>>, cut |-> FALSE, status |-> "queued"], last |-> <<>>, lost |-> FALSE, failed |-> 0]
      /\ reader = [at |-> "starting", had |-> FALSE, status |-> "none", error |-> FALSE, end |-> "none", claim |-> "running", spread |-> FALSE]
  BY DEF DisplayInit
<1>3. TalkType
  BY <1>1, <1>2 DEF TalkType, ClaudeRecord, None
<1>4. TasksFollow
  BY <1>1, <1>2 DEF TasksFollow
<1>5. WritesLast
  BY <1>1 DEF WritesLast
<1>6. PiecesKept
  <2>1. \A x : x \notin Shown(segs)
    BY <1>2, InShown
  <2>2. UpTo(segs, Len(claude.said)) /\ Ordered(segs)
    BY <1>2 DEF UpTo, Ordered
  <2>3. \A x : x \notin SaidByMain(claude.said)
    BY <1>1 DEF SaidByMain
  <2> QED
    BY <2>1, <2>2, <2>3 DEF PiecesKept
<1>7. ScreenOk(screen)
  <2>1. screen.shown \in ViewRecord
    BY <1>2 DEF ViewRecord, ViewStatus
  <2> QED
    BY <1>2, <2>1 DEF ScreenOk, ScreenRecord
<1>8. ReaderOk
  BY <1>2 DEF ReaderOk, ReaderRecord, ViewStatus, EndKind
<1>9. ErrorShown /\ EndShown
  BY <1>2 DEF ErrorShown, EndShown
<1> QED
  BY <1>2, <1>3, <1>4, <1>5, <1>6, <1>7, <1>8, <1>9 DEF DisplayInv, TalkInv, ViewInv

(* Every step of a turn keeps the invariant.                               *)
LEMMA DisplayKept == DisplayInv /\ [DisplayNext]_displayVars => DisplayInv'
<1> SUFFICES ASSUME DisplayInv, [DisplayNext]_displayVars PROVE DisplayInv'
  OBVIOUS
<1>1. ASSUME NEW kind \in Prose, NEW by \in Worker, WholePiece(kind, by) PROVE DisplayInv'
  BY <1>1, WholePieceKept
<1>2. ASSUME NEW kind \in Prose, NEW i \in Index, StreamStart(kind, i) PROVE DisplayInv'
  BY <1>2, StreamStartKept
<1>3. ASSUME NEW by \in Worker, StreamDelta(by) PROVE DisplayInv'
  BY <1>3, StreamDeltaKept
<1>4. ASSUME NEW id \in AnyId, ToolUse(id) \/ TaskStarts(id) \/ ToolAnswered(id) PROVE DisplayInv'
  BY <1>4, ToolUseKept, TaskStartsKept, ToolAnsweredKept
<1>5. ASSUME NEW k \in DOMAIN claude.working, NEW id \in AnyId, TaskEnds(k, id) PROVE DisplayInv'
  BY <1>5, TaskEndsKept
<1>6. ASSUME NEW reason \in {"stop", "clear", "other"}, TurnCancelled(reason) PROVE DisplayInv'
  BY <1>6, TurnCancelledKept
<1>7. CASE UNCHANGED displayVars
  BY <1>7 DEF displayVars, DisplayInv, TalkInv, ViewInv, TalkType, TasksFollow, WritesLast, PiecesKept, ReaderOk, ErrorShown, EndShown
<1> QED
  BY <1>1, <1>2, <1>3, <1>4, <1>5, <1>6, <1>7, StreamStopKept, SessionOpensKept, SessionRefusedKept,
     ErrorEventKept, ExitsWellKept, ExitsBadlyKept, StreamEndsKept, ReadingRaisesKept
  DEF DisplayNext

(* The invariant says what TurnIsShown does of a turn that is over.        *)
LEMMA DisplayImplies == DisplayInv => TurnIsShown
<1> SUFFICES ASSUME DisplayInv PROVE TurnIsShown
  OBVIOUS
<1> USE DEF DisplayInv
<1>1. ASSUME TurnOver, ~screen.lost, reader.end # "clear"
      PROVE  IF reader.end = "exit" /\ reader.error
             THEN \E view \in {screen.shown} : view.status # "complete" /\ (view.cut \/ \E i \in DOMAIN view.segs : view.segs[i].kind = "error")
             ELSE screen.shown = Rendered(segs, FinalStatus[reader.end])
  <2>1. reader.end # "none"
    BY <1>1 DEF TurnOver, ViewInv, ReaderOk
  <2> QED
    BY <1>1, <2>1 DEF ViewInv, EndShown, TellsError, HasError
<1>2. reader.claim = "completed" <=> reader.end = "complete"
  BY DEF ViewInv, ReaderOk
<1>3. reader.spread <=> reader.end \in {"exit", "raised"}
  BY DEF ViewInv, ReaderOk
<1>4. PiecesInOrder /\ (~claude.muddled => ShownPieces = {n \in DOMAIN claude.said : claude.said[n] = None})
  <2>1. ShownPieces = Shown(segs)
    BY DEF ShownPieces, Shown
  <2>2. Ordered(segs) => PiecesInOrder
    BY DEF Ordered, PiecesInOrder
  <2> QED
    BY <2>1, <2>2 DEF TalkInv, PiecesKept, SaidByMain
<1> QED
  BY <1>1, <1>2, <1>3, <1>4 DEF TurnIsShown

(* The screen a turn leaves behind, for any number of indexes, Tasks and   *)
(* pieces, any ids and any limit: unless the last edit was lost, it shows  *)
(* the transcript with the status the turn ended with (or tells the error, *)
(* where Claude Code exits badly after one).  What is shown is in the      *)
(* order in which it was said, and unless ids muddled the turn it is all   *)
(* that the main agent said and nothing else.                              *)
THEOREM TurnShown == DisplaySpec => []TurnIsShown
<1>1. DisplayInit => DisplayInv
  BY DisplayStarts
<1>2. DisplayInv /\ [DisplayNext]_displayVars => DisplayInv'
  BY DisplayKept
<1>3. DisplayInv => TurnIsShown
  BY DisplayImplies
<1> QED
  BY <1>1, <1>2, <1>3, PTL DEF DisplaySpec

-----------------------------------------------------------------------------
(* The session store implements DurableStore and forgets nothing, for any  *)
(* number of changes, failed writes and crashes.                           *)
(*                                                                         *)
(* The argument is about generations.  The version of the current one      *)
(* changes only when a newer one is made, so every snapshot that may still *)
(* be written is of that version; whoever is writing holds the writer      *)
(* lock, and its snapshot lies between the file and that version.          *)

StoreStage == {"idle", "armed", "scheduling", "superseding", "claiming", "claimed", "snapped",
               "writing", "written", "cleaning", "failed", "ended"}

Thread == [at : StoreStage, gen : Nat, snap : Nat]
StoreTypes ==
  /\ version \in 0..MaxVersion /\ file \in Nat /\ promised \in Nat
  /\ dirty \in BOOLEAN /\ storeLock \in BOOLEAN /\ writerLock \in BOOLEAN
  /\ saveGen \in Nat /\ saveTimer \in Nat
  /\ writer \in [Writer -> Thread]

\* The contents a write of the current generation puts into the file.
Mutating == writer[Loop].at \in {"scheduling", "superseding"}
Base == IF Mutating THEN version - 1 ELSE version

\* A change holds the store lock until it has made its generation.
ChangesAreGenerations ==
  /\ Mutating => storeLock /\ version > 0
  /\ saveGen <= Base

\* No thread is of a generation to come, and a timer is of its own.
GenerationsArePast ==
  \A w \in Writer : /\ writer[w].gen <= saveGen
                    /\ writer[w].at = "armed" => w # Loop /\ writer[w].gen = w

\* What may be written is newer than the file, and exactly the current contents
\* if it is of the current generation.
SnapshotsAreCurrent ==
  /\ file <= Base
  /\ \A w \in Writer :
       /\ writer[w].at \in {"snapped", "writing"} /\ writer[w].gen = saveGen
            => writer[w].snap = Base
       /\ writer[w].at = "writing" =>
            /\ writerLock
            /\ file <= writer[w].snap /\ writer[w].snap <= Base
            /\ \A o \in Writer : writer[o].at = "writing" => o = w

\* What the event loop has written stays written until it returns.
LoopHasWritten ==
  /\ writer[Loop].at \in {"claimed", "snapped", "writing", "written", "cleaning"} =>
       writer[Loop].gen = saveGen
  /\ writer[Loop].at \in {"written", "cleaning"} =>
       /\ file = version
       /\ \A w \in Writer : writer[w].at = "writing" => writer[w].gen = saveGen

\* The current contents are in the file or on their way, or were refused.
Coming(w) ==
  \/ w = Loop /\ writer[w].at = "claiming"
  \/ /\ writer[w].gen = saveGen
     /\ \/ writer[w].at = "armed" /\ saveTimer = w
        \/ writer[w].at \in {"claimed", "snapped", "writing"}
SomethingIsComing == file # Base => saveGen \in refused \/ \E w \in Writer : Coming(w)

StoreInv ==
  /\ StoreTypes /\ ChangesAreGenerations /\ GenerationsArePast
  /\ SnapshotsAreCurrent /\ LoopHasWritten /\ SomethingIsComing

-----------------------------------------------------------------------------
USE StoreAssumption DEF Timer, Loop, Writer, contents, saving, budget, storeVars

\* The invariant holds when the process starts.
LEMMA StoreInvInit == StoreInit => StoreInv
<1> SUFFICES ASSUME StoreInit PROVE StoreInv
  OBVIOUS
<1>1. Fresh \in Thread
  BY DEF Fresh, Thread, StoreStage
<1>2. writer \in [Writer -> Thread] /\ version \in 0..MaxVersion
  BY <1>1 DEF StoreInit
<1>3. StoreTypes
  BY <1>2 DEF StoreInit, StoreTypes
<1> QED
  BY <1>3 DEF StoreInit, StoreInv, ChangesAreGenerations, GenerationsArePast, SnapshotsAreCurrent,
              LoopHasWritten, SomethingIsComing, Mutating, Base, Fresh

\* A thread that moves on keeps its type.
LEMMA MoveTyped ==
  ASSUME StoreTypes, NEW w \in Writer, NEW stage \in StoreStage, Move(w, stage)
  PROVE  writer' \in [Writer -> Thread]
<1>1. [writer[w] EXCEPT !.at = stage] \in Thread
  BY DEF StoreTypes, Thread
<1> QED  BY <1>1 DEF StoreTypes, Move

\* ... and every step keeps it.  The generations carry the weight: a snapshot taken before
\* the newest change is of an older generation, and is dropped at the writer lock.
LEMMA StoreInvNext == StoreInv /\ [StoreNext]_storeVars => StoreInv'
<1> SUFFICES ASSUME StoreInv, [StoreNext]_storeVars PROVE StoreInv'
  OBVIOUS
<1> USE DEF StoreInv, StoreTypes, Thread, Mutating, Base
<1>1. CASE SaveBegins
  <2>1. StoreTypes'
    BY <1>1 DEF SaveBegins, Move, Mutates, StoreStage, ChangesAreGenerations, SnapshotsAreCurrent
  <2>2. ChangesAreGenerations'
    BY <1>1 DEF SaveBegins, Move, Mutates, ChangesAreGenerations, SnapshotsAreCurrent
  <2>3. GenerationsArePast'
    BY <1>1 DEF SaveBegins, Move, Mutates, ChangesAreGenerations, GenerationsArePast,
                SnapshotsAreCurrent
  <2>4. SnapshotsAreCurrent'
    BY SMTT(30), <1>1 DEF SaveBegins, Move, Mutates, ChangesAreGenerations, GenerationsArePast,
                SnapshotsAreCurrent
  <2>5. LoopHasWritten'
    BY <1>1 DEF SaveBegins, Move, Mutates, ChangesAreGenerations, GenerationsArePast,
                SnapshotsAreCurrent, LoopHasWritten
  <2>6. SomethingIsComing'
    BY <1>1 DEF SaveBegins, Move, Mutates, ChangesAreGenerations, GenerationsArePast,
                SnapshotsAreCurrent, LoopHasWritten, SomethingIsComing, Coming
  <2> QED  BY <2>1, <2>2, <2>3, <2>4, <2>5, <2>6
<1>2. CASE SaveSchedules
  <2>1. StoreTypes'
    <3>1. saveGen' \in Timer /\ saveTimer' \in Nat
      BY <1>2 DEF SaveSchedules, ChangesAreGenerations
    <3>2. [at |-> "armed", gen |-> saveGen', snap |-> 0] \in Thread
      BY <3>1 DEF StoreStage
    <3>3. [writer[Loop] EXCEPT !.at = "idle"] \in Thread
      BY DEF StoreStage
    <3>4. writer' \in [Writer -> Thread]
      BY <1>2, <3>1, <3>2, <3>3 DEF SaveSchedules
    <3> QED  BY <1>2, <3>1, <3>4 DEF SaveSchedules
  <2>2. ChangesAreGenerations'
    BY <1>2 DEF SaveSchedules, ChangesAreGenerations, SnapshotsAreCurrent
  <2>3. GenerationsArePast'
    BY <1>2 DEF SaveSchedules, ChangesAreGenerations, GenerationsArePast, SnapshotsAreCurrent
  <2>4. SnapshotsAreCurrent'
    BY <1>2 DEF SaveSchedules, ChangesAreGenerations, GenerationsArePast, SnapshotsAreCurrent
  <2>5. LoopHasWritten'
    BY <1>2 DEF SaveSchedules, ChangesAreGenerations, GenerationsArePast, SnapshotsAreCurrent,
                LoopHasWritten
  <2>6. SomethingIsComing'
    BY <1>2 DEF SaveSchedules, ChangesAreGenerations, GenerationsArePast, SnapshotsAreCurrent,
                LoopHasWritten, SomethingIsComing, Coming
  <2> QED  BY <2>1, <2>2, <2>3, <2>4, <2>5, <2>6
<1>3. CASE ClearBegins
  <2>1. StoreTypes'
    BY <1>3 DEF ClearBegins, Move, Mutates, StoreStage, ChangesAreGenerations, SnapshotsAreCurrent
  <2>2. ChangesAreGenerations'
    BY <1>3 DEF ClearBegins, Move, Mutates, ChangesAreGenerations, SnapshotsAreCurrent
  <2>3. GenerationsArePast'
    BY <1>3 DEF ClearBegins, Move, Mutates, ChangesAreGenerations, GenerationsArePast,
                SnapshotsAreCurrent
  <2>4. SnapshotsAreCurrent'
    BY SMTT(30), <1>3 DEF ClearBegins, Move, Mutates, ChangesAreGenerations, GenerationsArePast,
                SnapshotsAreCurrent
  <2>5. LoopHasWritten'
    BY <1>3 DEF ClearBegins, Move, Mutates, ChangesAreGenerations, GenerationsArePast,
                SnapshotsAreCurrent, LoopHasWritten
  <2>6. SomethingIsComing'
    BY <1>3 DEF ClearBegins, Move, Mutates, ChangesAreGenerations, GenerationsArePast,
                SnapshotsAreCurrent, LoopHasWritten, SomethingIsComing, Coming
  <2> QED  BY <2>1, <2>2, <2>3, <2>4, <2>5, <2>6
<1>4. CASE ClearSupersedes
  <2>1. StoreTypes'
    BY <1>4 DEF ClearSupersedes, StoreStage, ChangesAreGenerations, SnapshotsAreCurrent
  <2>2. ChangesAreGenerations'
    BY <1>4 DEF ClearSupersedes, ChangesAreGenerations, SnapshotsAreCurrent
  <2>3. GenerationsArePast'
    BY <1>4 DEF ClearSupersedes, ChangesAreGenerations, GenerationsArePast, SnapshotsAreCurrent
  <2>4. SnapshotsAreCurrent'
    BY <1>4 DEF ClearSupersedes, ChangesAreGenerations, GenerationsArePast, SnapshotsAreCurrent
  <2>5. LoopHasWritten'
    BY <1>4 DEF ClearSupersedes, ChangesAreGenerations, GenerationsArePast, SnapshotsAreCurrent,
                LoopHasWritten
  <2>6. SomethingIsComing'
    BY <1>4 DEF ClearSupersedes, ChangesAreGenerations, GenerationsArePast, SnapshotsAreCurrent,
                LoopHasWritten, SomethingIsComing, Coming
  <2> QED  BY <2>1, <2>2, <2>3, <2>4, <2>5, <2>6
<1>5. CASE FlushBegins
  <2>1. StoreTypes'
    BY <1>5 DEF FlushBegins, Move, StoreStage, ChangesAreGenerations, SnapshotsAreCurrent
  <2>2. ChangesAreGenerations'
    BY <1>5 DEF FlushBegins, Move, ChangesAreGenerations, SnapshotsAreCurrent
  <2>3. GenerationsArePast'
    BY <1>5 DEF FlushBegins, Move, ChangesAreGenerations, GenerationsArePast, SnapshotsAreCurrent
  <2>4. SnapshotsAreCurrent'
    BY <1>5 DEF FlushBegins, Move, ChangesAreGenerations, GenerationsArePast, SnapshotsAreCurrent
  <2>5. LoopHasWritten'
    BY <1>5 DEF FlushBegins, Move, ChangesAreGenerations, GenerationsArePast, SnapshotsAreCurrent,
                LoopHasWritten
  <2>6. SomethingIsComing'
    BY <1>5 DEF FlushBegins, Move, ChangesAreGenerations, GenerationsArePast, SnapshotsAreCurrent,
                LoopHasWritten, SomethingIsComing, Coming
  <2> QED  BY <2>1, <2>2, <2>3, <2>4, <2>5, <2>6
<1>6. CASE FlushClaims
  <2>1. StoreTypes'
    BY ZenonT(30), <1>6 DEF FlushClaims, StoreStage, ChangesAreGenerations, SnapshotsAreCurrent
  <2>2. ChangesAreGenerations'
    BY <1>6 DEF FlushClaims, ChangesAreGenerations, SnapshotsAreCurrent
  <2>3. GenerationsArePast'
    BY <1>6 DEF FlushClaims, ChangesAreGenerations, GenerationsArePast, SnapshotsAreCurrent
  <2>4. SnapshotsAreCurrent'
    BY <1>6 DEF FlushClaims, ChangesAreGenerations, GenerationsArePast, SnapshotsAreCurrent
  <2>5. LoopHasWritten'
    BY <1>6 DEF FlushClaims, ChangesAreGenerations, GenerationsArePast, SnapshotsAreCurrent,
                LoopHasWritten
  <2>6. SomethingIsComing'
    BY <1>6 DEF FlushClaims, ChangesAreGenerations, GenerationsArePast, SnapshotsAreCurrent,
                LoopHasWritten, SomethingIsComing, Coming
  <2> QED  BY <2>1, <2>2, <2>3, <2>4, <2>5, <2>6
<1>7. CASE Crash
  <2>1. StoreTypes'
    <3>1. Fresh \in Thread
      BY DEF Fresh, StoreStage
    <3>2. file \in 0..MaxVersion
      BY DEF SnapshotsAreCurrent, ChangesAreGenerations
    <3> QED  BY <1>7, <3>1, <3>2 DEF Crash
  <2>2. ChangesAreGenerations'
    BY <1>7 DEF Crash, Fresh, ChangesAreGenerations, SnapshotsAreCurrent
  <2>3. GenerationsArePast'
    BY <1>7 DEF Crash, Fresh, ChangesAreGenerations, GenerationsArePast, SnapshotsAreCurrent
  <2>4. SnapshotsAreCurrent'
    BY <1>7 DEF Crash, Fresh, ChangesAreGenerations, GenerationsArePast, SnapshotsAreCurrent
  <2>5. LoopHasWritten'
    BY <1>7 DEF Crash, Fresh, ChangesAreGenerations, GenerationsArePast, SnapshotsAreCurrent,
                LoopHasWritten
  <2>6. SomethingIsComing'
    BY <1>7 DEF Crash, Fresh, ChangesAreGenerations, GenerationsArePast, SnapshotsAreCurrent,
                LoopHasWritten, SomethingIsComing, Coming
  <2> QED  BY <2>1, <2>2, <2>3, <2>4, <2>5, <2>6
<1>8. ASSUME NEW t \in Timer, TimerFires(t) PROVE StoreInv'
  <2>1. StoreTypes'
    BY <1>8 DEF TimerFires, Move, StoreStage, ChangesAreGenerations, SnapshotsAreCurrent
  <2>2. ChangesAreGenerations'
    BY <1>8 DEF TimerFires, Move, ChangesAreGenerations, SnapshotsAreCurrent
  <2>3. GenerationsArePast'
    BY <1>8 DEF TimerFires, Move, ChangesAreGenerations, GenerationsArePast, SnapshotsAreCurrent
  <2>4. SnapshotsAreCurrent'
    BY SMTT(30), <1>8 DEF TimerFires, Move, ChangesAreGenerations, GenerationsArePast, SnapshotsAreCurrent
  <2>5. LoopHasWritten'
    BY <1>8 DEF TimerFires, Move, ChangesAreGenerations, GenerationsArePast, SnapshotsAreCurrent,
                LoopHasWritten
  <2>6. SomethingIsComing'
    BY <1>8 DEF TimerFires, Move, ChangesAreGenerations, GenerationsArePast, SnapshotsAreCurrent,
                LoopHasWritten, SomethingIsComing, Coming
  <2> QED  BY <2>1, <2>2, <2>3, <2>4, <2>5, <2>6
<1>9. ASSUME NEW w \in Writer, TakesSnapshot(w) PROVE StoreInv'
  <2>1. StoreTypes'
    BY <1>9 DEF TakesSnapshot, StoreStage, ChangesAreGenerations, SnapshotsAreCurrent
  <2>2. ChangesAreGenerations'
    BY <1>9 DEF TakesSnapshot, ChangesAreGenerations, SnapshotsAreCurrent
  <2>3. GenerationsArePast'
    BY <1>9 DEF TakesSnapshot, ChangesAreGenerations, GenerationsArePast, SnapshotsAreCurrent
  <2>4. SnapshotsAreCurrent'
    BY <1>9 DEF TakesSnapshot, ChangesAreGenerations, GenerationsArePast, SnapshotsAreCurrent
  <2>5. LoopHasWritten'
    BY <1>9 DEF TakesSnapshot, ChangesAreGenerations, GenerationsArePast, SnapshotsAreCurrent,
                LoopHasWritten
  <2>6. SomethingIsComing'
    BY <1>9 DEF TakesSnapshot, ChangesAreGenerations, GenerationsArePast, SnapshotsAreCurrent,
                LoopHasWritten, SomethingIsComing, Coming
  <2> QED  BY <2>1, <2>2, <2>3, <2>4, <2>5, <2>6
<1>10. ASSUME NEW w \in Writer, EntersWriter(w) PROVE StoreInv'
  <2>1. StoreTypes'
    <3>1. "writing" \in StoreStage /\ Rest(w) \in StoreStage
      BY DEF StoreStage, Rest
    <3>2. writer' \in [Writer -> Thread]
      BY <1>10, <3>1, MoveTyped DEF EntersWriter
    <3> QED  BY <1>10, <3>2 DEF EntersWriter
  <2>2. ChangesAreGenerations'
    BY <1>10 DEF EntersWriter, Move, Rest, ChangesAreGenerations, SnapshotsAreCurrent
  <2>3. GenerationsArePast'
    BY <1>10 DEF EntersWriter, Move, Rest, ChangesAreGenerations, GenerationsArePast,
                 SnapshotsAreCurrent
  <2>4. SnapshotsAreCurrent'
    BY <1>10 DEF EntersWriter, Move, Rest, ChangesAreGenerations, GenerationsArePast,
                 SnapshotsAreCurrent
  <2>5. LoopHasWritten'
    BY <1>10 DEF EntersWriter, Move, Rest, ChangesAreGenerations, GenerationsArePast,
                 SnapshotsAreCurrent, LoopHasWritten
  <2>6. SomethingIsComing'
    BY <1>10 DEF EntersWriter, Move, Rest, ChangesAreGenerations, GenerationsArePast,
                 SnapshotsAreCurrent, LoopHasWritten, SomethingIsComing, Coming
  <2> QED  BY <2>1, <2>2, <2>3, <2>4, <2>5, <2>6
<1>11. ASSUME NEW w \in Writer, Writes(w) PROVE StoreInv'
  <2>1. StoreTypes'
    BY <1>11 DEF Writes, Move, StoreStage, ChangesAreGenerations, SnapshotsAreCurrent
  <2>2. ChangesAreGenerations'
    BY <1>11 DEF Writes, Move, ChangesAreGenerations, SnapshotsAreCurrent
  <2>3. GenerationsArePast'
    BY <1>11 DEF Writes, Move, ChangesAreGenerations, GenerationsArePast, SnapshotsAreCurrent
  <2>4. SnapshotsAreCurrent'
    BY <1>11 DEF Writes, Move, ChangesAreGenerations, GenerationsArePast, SnapshotsAreCurrent
  <2>5. LoopHasWritten'
    BY <1>11 DEF Writes, Move, ChangesAreGenerations, GenerationsArePast, SnapshotsAreCurrent,
                 LoopHasWritten
  <2>6. SomethingIsComing'
    <3>1. CASE writer[w].gen = saveGen
      BY <1>11, <3>1 DEF Writes, Move, ChangesAreGenerations, SnapshotsAreCurrent, SomethingIsComing
    <3>2. CASE writer[w].gen # saveGen
      <4>1. Base' = Base
        BY <1>11 DEF Writes, Move
      <4>2. \A o \in Writer : Coming(o) => Coming(o)'
        BY <1>11, <3>2 DEF Writes, Move, Coming
      <4> HIDE DEF Mutating
      <4>3. file = Base => file' = Base'
        BY SMTT(30), <1>11, <4>1 DEF Writes, Move, SnapshotsAreCurrent
      <4> QED  BY <1>11, <4>1, <4>2, <4>3 DEF Writes, SomethingIsComing
    <3> QED  BY <3>1, <3>2
  <2> QED  BY <2>1, <2>2, <2>3, <2>4, <2>5, <2>6
<1>12. ASSUME NEW w \in Writer, WriteFails(w) PROVE StoreInv'
  <2>1. StoreTypes'
    BY <1>12 DEF WriteFails, Move, StoreStage, ChangesAreGenerations, SnapshotsAreCurrent
  <2>2. ChangesAreGenerations'
    BY <1>12 DEF WriteFails, Move, ChangesAreGenerations, SnapshotsAreCurrent
  <2>3. GenerationsArePast'
    BY <1>12 DEF WriteFails, Move, ChangesAreGenerations, GenerationsArePast, SnapshotsAreCurrent
  <2>4. SnapshotsAreCurrent'
    BY <1>12 DEF WriteFails, Move, ChangesAreGenerations, GenerationsArePast, SnapshotsAreCurrent
  <2>5. LoopHasWritten'
    BY <1>12 DEF WriteFails, Move, ChangesAreGenerations, GenerationsArePast, SnapshotsAreCurrent,
                 LoopHasWritten
  <2>6. SomethingIsComing'
    BY <1>12 DEF WriteFails, Move, ChangesAreGenerations, GenerationsArePast, SnapshotsAreCurrent,
                 LoopHasWritten, SomethingIsComing, Coming
  <2> QED  BY <2>1, <2>2, <2>3, <2>4, <2>5, <2>6
<1>13. ASSUME NEW w \in Writer, Marks(w) PROVE StoreInv'
  <2>1. StoreTypes'
    <3>1. "cleaning" \in StoreStage /\ Rest(w) \in StoreStage
      BY DEF StoreStage, Rest
    <3>2. writer' \in [Writer -> Thread]
      BY <1>13, <3>1, MoveTyped DEF Marks, Returns
    <3>3. storeLock' \in BOOLEAN
      BY <1>13, Zenon DEF Marks, Returns
    <3>4. promised' \in Nat
      BY <1>13 DEF Marks, Returns
    <3> QED  BY <1>13, <3>2, <3>3, <3>4 DEF Marks
  <2>2. ChangesAreGenerations'
    BY <1>13 DEF Marks, Move, Returns, Rest, ChangesAreGenerations, SnapshotsAreCurrent
  <2>3. GenerationsArePast'
    BY <1>13 DEF Marks, Move, Returns, Rest, ChangesAreGenerations, GenerationsArePast,
                 SnapshotsAreCurrent
  <2>4. SnapshotsAreCurrent'
    BY <1>13 DEF Marks, Move, Returns, Rest, ChangesAreGenerations, GenerationsArePast,
                 SnapshotsAreCurrent
  <2>5. LoopHasWritten'
    BY <1>13 DEF Marks, Move, Returns, Rest, ChangesAreGenerations, GenerationsArePast,
                 SnapshotsAreCurrent, LoopHasWritten
  <2>6. SomethingIsComing'
    BY SMTT(30), <1>13 DEF Marks, Move, Returns, Rest, ChangesAreGenerations, GenerationsArePast,
                 SnapshotsAreCurrent, LoopHasWritten, SomethingIsComing, Coming
  <2> QED  BY <2>1, <2>2, <2>3, <2>4, <2>5, <2>6
<1>14. ASSUME NEW w \in Writer, Cleans(w) PROVE StoreInv'
  <2>1. StoreTypes'
    <3>1. Rest(w) \in StoreStage
      BY DEF StoreStage, Rest
    <3>2. writer' \in [Writer -> Thread]
      BY <1>14, <3>1, MoveTyped DEF Cleans, Returns
    <3>3. storeLock' \in BOOLEAN
      BY <1>14, Zenon DEF Cleans, Returns
    <3>4. promised' \in Nat
      BY <1>14 DEF Cleans, Returns
    <3> QED  BY <1>14, <3>2, <3>3, <3>4 DEF Cleans
  <2>2. ChangesAreGenerations'
    BY <1>14 DEF Cleans, Move, CanLock, Returns, Rest, ChangesAreGenerations, SnapshotsAreCurrent
  <2>3. GenerationsArePast'
    BY <1>14 DEF Cleans, Move, CanLock, Returns, Rest, ChangesAreGenerations, GenerationsArePast,
                 SnapshotsAreCurrent
  <2>4. SnapshotsAreCurrent'
    BY <1>14 DEF Cleans, Move, CanLock, Returns, Rest, ChangesAreGenerations, GenerationsArePast,
                 SnapshotsAreCurrent
  <2>5. LoopHasWritten'
    BY <1>14 DEF Cleans, Move, CanLock, Returns, Rest, ChangesAreGenerations, GenerationsArePast,
                 SnapshotsAreCurrent, LoopHasWritten
  <2>6. SomethingIsComing'
    BY <1>14 DEF Cleans, Move, CanLock, Returns, Rest, ChangesAreGenerations, GenerationsArePast,
                 SnapshotsAreCurrent, LoopHasWritten, SomethingIsComing, Coming
  <2> QED  BY <2>1, <2>2, <2>3, <2>4, <2>5, <2>6
<1>15. ASSUME NEW w \in Writer, WriterFails(w) PROVE StoreInv'
  <2>1. StoreTypes'
    BY <1>15 DEF WriterFails, Move, CanLock, Returns, Rest, StoreStage, ChangesAreGenerations,
                 SnapshotsAreCurrent
  <2>2. ChangesAreGenerations'
    BY <1>15 DEF WriterFails, Move, CanLock, Returns, Rest, ChangesAreGenerations,
                 SnapshotsAreCurrent
  <2>3. GenerationsArePast'
    BY <1>15 DEF WriterFails, Move, CanLock, Returns, Rest, ChangesAreGenerations,
                 GenerationsArePast, SnapshotsAreCurrent
  <2>4. SnapshotsAreCurrent'
    BY <1>15 DEF WriterFails, Move, CanLock, Returns, Rest, ChangesAreGenerations,
                 GenerationsArePast, SnapshotsAreCurrent
  <2>5. LoopHasWritten'
    BY <1>15 DEF WriterFails, Move, CanLock, Returns, Rest, ChangesAreGenerations,
                 GenerationsArePast, SnapshotsAreCurrent, LoopHasWritten
  <2>6. SomethingIsComing'
    BY <1>15 DEF WriterFails, Move, CanLock, Returns, Rest, ChangesAreGenerations,
                 GenerationsArePast, SnapshotsAreCurrent, LoopHasWritten, SomethingIsComing, Coming
  <2> QED  BY <2>1, <2>2, <2>3, <2>4, <2>5, <2>6
<1>16. CASE UNCHANGED storeVars
  BY <1>16 DEF ChangesAreGenerations, GenerationsArePast, SnapshotsAreCurrent, LoopHasWritten,
               SomethingIsComing, Coming
<1> QED  BY <1>1, <1>2, <1>3, <1>4, <1>5, <1>6, <1>7, <1>8, <1>9, <1>10, <1>11, <1>12, <1>13,
<1>14, <1>15, <1>16 DEF StoreNext

(* The invariant, for every behaviour of the store (store.py, persistence.py). *)
THEOREM StoreInvariant == StoreSpec => []StoreInv
<1>1. StoreInit => StoreInv
  BY StoreInvInit
<1>2. StoreInv /\ [StoreNext]_storeVars => StoreInv'
  BY StoreInvNext
<1> QED  BY <1>1, <1>2, PTL DEF StoreSpec

(* A change that is not in the file is on its way there, or its write was *)
(* refused (persistence.py schedule_save, _claim_timer, _save_from_timer). *)
THEOREM NothingForgotten == StoreSpec => []NothingIsForgotten
<1>1. StoreInv => NothingIsForgotten
  <2> SUFFICES ASSUME StoreInv, writer[Loop].at = "idle", file # version, saveGen \notin refused
               PROVE  \E t \in Timer : OnItsWay(t)
    BY DEF NothingIsForgotten
  <2>1. Base = version
    BY DEF Base, Mutating
  <2>2. PICK w \in Writer : Coming(w)
    BY <2>1 DEF StoreInv, SomethingIsComing
  <2>3. w \in Timer
    BY <2>2 DEF Coming
  <2>4. OnItsWay(w)
    BY <2>1, <2>2, <2>3 DEF StoreInv, SnapshotsAreCurrent, Coming, OnItsWay
  <2> QED  BY <2>3, <2>4
<1> QED  BY <1>1, StoreInvariant, PTL

-----------------------------------------------------------------------------
\* The file follows the memory: a write that is current or not yet overtaken brings it
\* forward, or repeats what it holds.
LEMMA WritesPersists ==
  ASSUME StoreInv, NEW w \in Writer, Writes(w)
  PROVE  Durable!Persist \/ UNCHANGED Durable!durableVars
<1>1. writer[w].snap \in Nat /\ file \in Nat /\ version \in Nat /\ Base \in Nat /\ Base <= version
  BY DEF StoreInv, StoreTypes, Thread, Base, Mutating, ChangesAreGenerations
<1>2. file' = writer[w].snap /\ UNCHANGED <<version, promised>>
  BY DEF Writes
<1>3. file <= writer[w].snap /\ writer[w].snap <= Base
  BY DEF Writes, StoreInv, SnapshotsAreCurrent
<1>4. file <= writer[w].snap /\ writer[w].snap <= version
  BY <1>1, <1>3
<1>5. CASE writer[w].snap = file
  BY <1>2, <1>5 DEF Durable!durableVars
<1>6. CASE writer[w].snap # file
  BY <1>1, <1>2, <1>4, <1>6 DEF Durable!Persist
<1> QED  BY <1>5, <1>6

\* What the event loop returns for is in the file.
LEMMA LoopPromises ==
  ASSUME StoreInv, NEW w \in Writer, Marks(w) \/ Cleans(w)
  PROVE  Durable!Promise \/ UNCHANGED Durable!durableVars
<1>1. CASE w = Loop
  BY <1>1 DEF Marks, Cleans, Returns, StoreInv, LoopHasWritten, Durable!Promise, Durable!durableVars
<1>2. CASE w # Loop
  BY <1>2 DEF Marks, Cleans, Returns, Durable!durableVars
<1> QED  BY <1>1, <1>2

\* Every step of the threads is a step of DurableStore, or changes nothing it speaks of.
LEMMA StepImplemented ==
  StoreInv /\ [StoreNext]_storeVars => [Durable!DurableNext]_(Durable!durableVars)
<1> SUFFICES ASSUME StoreInv, [StoreNext]_storeVars
             PROVE  Durable!DurableNext \/ UNCHANGED Durable!durableVars
  OBVIOUS
<1> USE DEF Durable!DurableNext
<1>1. CASE SaveBegins \/ ClearBegins
  BY <1>1 DEF SaveBegins, ClearBegins, Mutates, Durable!Change
<1>2. CASE SaveSchedules \/ ClearSupersedes \/ FlushBegins \/ FlushClaims
  BY <1>2 DEF SaveSchedules, ClearSupersedes, FlushBegins, FlushClaims, Durable!durableVars
<1>3. CASE Crash
  BY <1>3 DEF Crash, Durable!Restart
<1>4. ASSUME NEW t \in Timer, TimerFires(t) PROVE UNCHANGED Durable!durableVars
  BY <1>4 DEF TimerFires, Durable!durableVars
<1>5. ASSUME NEW w \in Writer, TakesSnapshot(w) \/ EntersWriter(w) \/ WriteFails(w)
      PROVE  UNCHANGED Durable!durableVars
  BY <1>5 DEF TakesSnapshot, EntersWriter, WriteFails, Durable!durableVars
<1>6. ASSUME NEW w \in Writer, Writes(w)
      PROVE  Durable!DurableNext \/ UNCHANGED Durable!durableVars
  BY <1>6, WritesPersists
<1>7. ASSUME NEW w \in Writer, Marks(w) \/ Cleans(w)
      PROVE  Durable!DurableNext \/ UNCHANGED Durable!durableVars
  BY <1>7, LoopPromises
<1>8. ASSUME NEW w \in Writer, WriterFails(w)
      PROVE  UNCHANGED Durable!durableVars
  BY <1>8 DEF WriterFails, Returns, Durable!durableVars
<1>9. CASE UNCHANGED storeVars
  BY <1>9 DEF Durable!durableVars
<1> QED  BY <1>1, <1>2, <1>3, <1>4, <1>5, <1>6, <1>7, <1>8, <1>9 DEF StoreNext

(* The store with its timers, locks, failed writes and crashes keeps the   *)
(* promises of DurableStore: the file never goes back, a restart continues *)
(* from it, and what a clear or a flush returned for is never lost.        *)
THEOREM StoreImplemented == StoreSpec => ImplementsDurableStore
<1>1. StoreInit => Durable!DurableInit
  BY DEF StoreInit, Durable!DurableInit
<1>2. StoreInv /\ [StoreNext]_storeVars => [Durable!DurableNext]_(Durable!durableVars)
  BY StepImplemented
<1> QED  BY <1>1, <1>2, StoreInvariant, PTL DEF StoreSpec, ImplementsDurableStore,
                                                Durable!DurableSpec

=============================================================================
