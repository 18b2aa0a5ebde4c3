----------------------------- MODULE VoiceNotes -----------------------------
(***************************************************************************)
(* Voice notes before and while messaging handles them: the flow of a note *)
(* through a platform (messaging/platforms/voice_flow.py) and the registry *)
(* that lets a command take a pending note away from its flow              *)
(* (messaging/voice.py).  The text of a note may itself be such a command, *)
(* so a handoff can cancel other handoffs while it is being cancelled.     *)
(* Each section of the registry's lock awaits nothing, and is one step.    *)
(***************************************************************************)
EXTENDS FiniteSets, Naturals

CONSTANTS
  Note,        \* deliveries of voice notes; the claim of a note is the note
  VoiceOf,     \* the message id of each
  NoNote,
  Outside,     \* a command that came as text
  MaxCommands  \* bound: commands

ASSUME VoiceAssumption ==
  DOMAIN VoiceOf = Note /\ NoNote \notin Note /\ Outside \notin Note /\ MaxCommands \in Nat

Voice == {VoiceOf[n] : n \in Note}

VARIABLES
  flow,      \* VoiceNoteFlow.handle() of each note
  owner,     \* _pending, by the id of the voice message
  handoff,   \* the handoff task of each note
  drains,    \* the handoffs a command waits for; it is in _active_cancellations
  taken,     \* notes that commands took, with what they were told of a status
  status,    \* the status message of each note
  commands   \* commands so far

voiceVars == <<flow, owner, handoff, drains, taken, status, commands>>

(***************************************************************************)
(* A flow is new, sending its status message, binding it, transcribing,    *)
(* waiting for its handoff, ending the handoff it started, discarding its  *)
(* claim, deleting the status, or over.  `cut' tells that the platform     *)
(* cancelled it when its status or its handoff was only half begun.        *)
(***************************************************************************)
Commander == Note \cup {Outside}
NotCommanding == {NoNote}

VoiceInit ==
  /\ flow = [n \in Note |-> [at |-> "new", bound |-> FALSE, handed |-> FALSE, cut |-> FALSE]]
  /\ owner = [v \in Voice |-> NoNote]
  /\ handoff = [n \in Note |-> [at |-> "none", cancelled |-> FALSE]]
  /\ drains = [c \in Commander |-> NotCommanding]
  /\ taken = [n \in Note |-> "no"]
  /\ status = [n \in Note |-> "none"]
  /\ commands = 0

Owned(n) == owner[VoiceOf[n]] = n
Released(N) == owner' = [v \in Voice |-> IF owner[v] \in N THEN NoNote ELSE owner[v]]
Enters(n, stage) == flow' = [flow EXCEPT ![n].at = stage]
Alive(n) == handoff[n].at \in {"created", "running"}

-----------------------------------------------------------------------------
(* The flow. *)

Reserves(n) ==
  /\ flow[n].at = "new"
  /\ IF owner[VoiceOf[n]] = NoNote
     THEN Enters(n, "sending") /\ owner' = [owner EXCEPT ![VoiceOf[n]] = n]
     ELSE Enters(n, "over") /\ UNCHANGED owner
  /\ UNCHANGED <<handoff, drains, taken, status, commands>>

SendsStatus(n) ==
  /\ flow[n].at = "sending"
  /\ status' = [status EXCEPT ![n] = "shown"]
  /\ Enters(n, "binding")
  /\ UNCHANGED <<owner, handoff, drains, taken, commands>>

SendFails(n) ==
  /\ flow[n].at = "sending"
  /\ Enters(n, "discarding")
  /\ UNCHANGED <<owner, handoff, drains, taken, status, commands>>

\* bind_status(), which fails when the note was taken meanwhile.
BindsStatus(n) ==
  /\ flow[n].at = "binding"
  /\ flow' = [flow EXCEPT ![n].at = IF Owned(n) THEN "transcribing" ELSE "discarding",
                          ![n].bound = Owned(n)]
  /\ UNCHANGED <<owner, handoff, drains, taken, status, commands>>

\* Downloading, validating or transcribing raised.
TranscriptionFails(n) ==
  /\ flow[n].at = "transcribing"
  /\ Enters(n, "discarding")
  /\ UNCHANGED <<owner, handoff, drains, taken, status, commands>>

\* Mutant of HandsOff: a note that was taken meanwhile is handed off all the same.
HandsOffAnyway(n) ==
  /\ flow[n].at = "transcribing"
  /\ handoff' = [handoff EXCEPT ![n].at = "created"]
  /\ Enters(n, "waiting")
  /\ UNCHANGED <<owner, drains, taken, status, commands>>

\* handoff(): a task for the message handler, or REJECTED.
HandsOff(n) ==
  /\ flow[n].at = "transcribing"
  /\ IF Owned(n)
     THEN Enters(n, "waiting") /\ handoff' = [handoff EXCEPT ![n].at = "created"]
     ELSE Enters(n, "discarding") /\ UNCHANGED handoff
  /\ UNCHANGED <<owner, drains, taken, status, commands>>

\* The handoff is over; _finish_ownership().  Only a handler that raised while
\* its flow still owned the note is the flow's failure.
HandoffReturns(n, raised) ==
  /\ flow[n].at \in {"waiting", "ending"} /\ handoff[n].at = "over"
  /\ flow[n].at = "ending" => raised
  /\ Enters(n, IF flow[n].at = "ending" \/ (raised /\ Owned(n)) THEN "discarding" ELSE "over")
  /\ Released({n})
  /\ UNCHANGED <<handoff, drains, taken, status, commands>>

\* The platform cancels the flow; the status may be on its way all the same.
FlowCancelled(n) ==
  /\ flow[n].at \in {"sending", "binding", "transcribing"}
  /\ \/ status' = status
     \/ flow[n].at = "sending" /\ status' = [status EXCEPT ![n] = "shown"]
  /\ flow' = [flow EXCEPT ![n].at = "discarding", ![n].cut = flow[n].at = "sending"]
  /\ UNCHANGED <<owner, handoff, drains, taken, commands>>

\* While it waits for the handoff, which is cancelled and drained.
WaitCancelled(n) ==
  /\ flow[n].at = "waiting"
  /\ handoff' = [handoff EXCEPT ![n].cancelled = Alive(n)]
  /\ flow' = [flow EXCEPT ![n].at = "ending", ![n].cut = ~flow[n].handed]
  /\ UNCHANGED <<owner, drains, taken, status, commands>>

\* _clear_failed_pending_voice(): discard(), and whether the status is ours.
Discards(n) ==
  /\ flow[n].at = "discarding"
  /\ Enters(n, IF status[n] = "shown" /\ ~flow[n].cut /\ ~flow[n].handed /\ (Owned(n) \/ ~flow[n].bound)
               THEN "deleting" ELSE "over")
  /\ Released({n})
  /\ UNCHANGED <<handoff, drains, taken, status, commands>>

\* A delete that fails is ignored.
DeletesStatus(n) ==
  /\ flow[n].at = "deleting"
  /\ \E deleted \in BOOLEAN : status' = [status EXCEPT ![n] = IF deleted THEN "deleted" ELSE "kept"]
  /\ Enters(n, "over")
  /\ UNCHANGED <<owner, handoff, drains, taken, commands>>

-----------------------------------------------------------------------------
(* The handoff task. *)

HandoffStarts(n) ==
  /\ handoff[n].at = "created"
  /\ IF handoff[n].cancelled
     THEN handoff' = [handoff EXCEPT ![n].at = "over"] /\ UNCHANGED flow
     ELSE /\ handoff' = [handoff EXCEPT ![n].at = "running"]
          /\ flow' = [flow EXCEPT ![n].handed = TRUE]
  /\ UNCHANGED <<owner, drains, taken, status, commands>>

HandoffEnds(n) ==
  /\ handoff[n].at = "running" /\ drains[n] = NotCommanding
  /\ handoff' = [handoff EXCEPT ![n].at = "over"]
  /\ UNCHANGED <<flow, owner, drains, taken, status, commands>>

-----------------------------------------------------------------------------
(* Commands: /stop and /clear, of one note or of all.                      *)

Excluded(c, n) == n = c \/ drains[n] # NotCommanding

\* cancel(), cancel_all(), cancel_scope(): the notes leave the registry at once,
\* their handoffs are cancelled, and the command waits for them.
Commands(c, N) ==
  /\ commands < MaxCommands
  /\ drains[c] = NotCommanding
  /\ c \in Note => handoff[c].at = "running"
  /\ \/ N = {n \in Note : Owned(n) /\ ~Excluded(c, n)}
     \/ \E n \in Note : Owned(n) /\ N = {n} \ {m \in Note : Excluded(c, m)}
  /\ commands' = commands + 1
  /\ Released(N)
  /\ taken' = [n \in Note |-> IF n \notin N THEN taken[n]
                              ELSE IF flow[n].bound THEN "with status" ELSE "alone"]
  /\ handoff' = [n \in Note |-> IF n \in N /\ Alive(n) THEN [handoff[n] EXCEPT !.cancelled = TRUE]
                                ELSE handoff[n]]
  /\ drains' = [drains EXCEPT ![c] = {n \in N : Alive(n)}]
  /\ UNCHANGED <<flow, status>>

CommandReturns(c) ==
  /\ drains[c] # NotCommanding
  /\ \A n \in drains[c] : ~Alive(n)
  /\ drains' = [drains EXCEPT ![c] = NotCommanding]
  /\ UNCHANGED <<flow, owner, handoff, taken, status, commands>>

VoiceDone ==
  /\ \A n \in Note : flow[n].at = "over"
  /\ drains[Outside] = NotCommanding
  /\ UNCHANGED voiceVars

VoiceNext ==
  \/ \E n \in Note :
       \/ Reserves(n) \/ SendsStatus(n) \/ SendFails(n) \/ BindsStatus(n)
       \/ TranscriptionFails(n) \/ HandsOff(n) \/ FlowCancelled(n) \/ WaitCancelled(n)
       \/ Discards(n) \/ DeletesStatus(n) \/ HandoffStarts(n) \/ HandoffEnds(n)
       \/ \E raised \in BOOLEAN : HandoffReturns(n, raised)
  \/ \E c \in Commander : CommandReturns(c) \/ \E N \in SUBSET Note : Commands(c, N)
  \/ VoiceDone

VoiceSpec == VoiceInit /\ [][VoiceNext]_voiceVars

-----------------------------------------------------------------------------
(* When a command that took a note has returned, its handler does not run  *)
(* and never will; and the status message of a flow that is over was given *)
(* to the handler or to the command, or the flow tried to delete it - but  *)
(* for a flow the platform cancelled in the middle of the two (voice.py    *)
(* cancel, handoff; voice_flow.py _clear_failed_pending_voice).            *)
VoiceHasOneOwner ==
  \A n \in Note :
    /\ taken[n] # "no" /\ (\A c \in Commander : n \notin drains[c]) => ~Alive(n) /\ ~Owned(n)
    /\ flow[n].at = "over" /\ status[n] = "shown"
         => flow[n].handed \/ taken[n] = "with status" \/ flow[n].cut

(* Voice commands that cancel each other do not wait for each other: the   *)
(* handoffs that commands wait for form no cycle (voice.py _is_excluded,   *)
(* _protect_claim).                                                        *)
WaitsFor(n, m) == m \in drains[n]
CommandsEnd ==
  \A n \in Note :
    /\ ~WaitsFor(n, n)
    /\ \A m \in Note : WaitsFor(n, m) => ~WaitsFor(m, n)
    /\ \A m, k \in Note : WaitsFor(n, m) /\ WaitsFor(m, k) => ~WaitsFor(k, n)

(* The two together: a voice note is settled once, and by somebody.        *)
VoiceIsSettled == VoiceHasOneOwner /\ CommandsEnd
=============================================================================
