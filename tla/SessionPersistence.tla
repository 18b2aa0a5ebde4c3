------------------------- MODULE SessionPersistence -------------------------
(***************************************************************************)
(* The session store and its debounced writer: messaging/session/store.py  *)
(* and persistence.py.  The event loop changes the contents and arms a     *)
(* timer thread for each change; timer threads and the event loop write    *)
(* the file, and meet at three locks.  A section of the timer lock calls   *)
(* nothing and takes no other lock, so it is one step; the store lock and  *)
(* the writer lock are held over several.                                  *)
(***************************************************************************)
EXTENDS Naturals

CONSTANTS
  MaxVersion,       \* bound: contents the memory goes through
  MaxWriteFaults,   \* bound: writes of the file that raise
  MaxCrashes        \* bound: ends of the process

ASSUME StoreAssumption ==
  MaxVersion \in Nat /\ MaxWriteFaults \in Nat /\ MaxCrashes \in Nat

\* A change makes one save generation and one timer thread, named after it.
Timer == 1..MaxVersion
Loop == 0
Writer == Timer \cup {Loop}

VARIABLES
  version,     \* contents of the store: conversation and managed messages
  file,        \* contents of the JSON file
  promised,    \* newest contents a clear or a flush returned normally for
  dirty,
  saveGen,     \* _save_generation
  saveTimer,   \* _save_timer: the armed timer, 0 for None
  writer,      \* where each thread is, with its pending write
  storeLock,   \* SessionStore._lock is held over several steps by the event loop
  writerLock,  \* _writer_lock is held, by the thread that is writing
  refused,     \* generations whose write raised
  faults, crashes

contents == <<version, file, promised>>
saving == <<saveGen, saveTimer>>
budget == <<refused, faults, crashes>>
storeVars == <<contents, dirty, saving, writer, storeLock, writerLock, budget>>

(***************************************************************************)
(* The stages of a thread:                                                 *)
(*   idle         the event loop between operations; a thread not started  *)
(*   armed        a timer waiting for its delay                            *)
(*   scheduling, superseding, claiming                                     *)
(*                the event loop in schedule_save, write_data, flush       *)
(*   claimed      it will take a snapshot of the store                     *)
(*   snapped      it has the snapshot, and waits for the writer lock       *)
(*   writing      the generation was current; the file is being replaced   *)
(*   written, cleaning, failed     it reports to the store                 *)
(*   ended        a timer thread that is over                              *)
(***************************************************************************)

Rest(w) == IF w = Loop THEN "idle" ELSE "ended"
Fresh == [at |-> "idle", gen |-> 0, snap |-> 0]
CanLock(w) == storeLock => w = Loop
Move(w, stage) == writer' = [writer EXCEPT ![w].at = stage]

StoreInit ==
  /\ version = 0 /\ file = 0 /\ promised = 0
  /\ dirty = FALSE
  /\ saveGen = 0 /\ saveTimer = 0
  /\ writer = [w \in Writer |-> Fresh]
  /\ storeLock = FALSE /\ writerLock = FALSE
  /\ refused = {} /\ faults = 0 /\ crashes = 0

-----------------------------------------------------------------------------
(* The event loop. *)

\* A method changed the contents, and calls schedule_save() or write_data()
\* without giving the store lock back.
Mutates(stage) ==
  /\ writer[Loop].at = "idle" /\ ~storeLock
  /\ version < MaxVersion
  /\ version' = version + 1
  /\ dirty' = TRUE
  /\ storeLock' = TRUE
  /\ Move(Loop, stage)
  /\ UNCHANGED <<file, promised, saving, writerLock, budget>>

SaveBegins == Mutates("scheduling")

\* Mutant of SaveSchedules: a pending timer is left to save the newer change too.
SaveCoalesces ==
  /\ writer[Loop].at = "scheduling"
  /\ saveGen' = saveGen + 1
  /\ saveTimer' = IF saveTimer # 0 THEN saveTimer ELSE saveGen'
  /\ writer' = [writer EXCEPT ![Loop].at = "idle",
                              ![saveGen'] = IF saveTimer # 0 THEN @
                                             ELSE [at |-> "armed", gen |-> saveGen', snap |-> 0]]
  /\ storeLock' = FALSE
  /\ UNCHANGED <<contents, dirty, writerLock, budget>>

\* schedule_save(): a new timer replaces the pending one, which will find itself
\* out of date if it fires all the same.
SaveSchedules ==
  /\ writer[Loop].at = "scheduling"
  /\ saveGen' = saveGen + 1
  /\ saveTimer' = saveGen'
  /\ writer' = [writer EXCEPT ![Loop].at = "idle",
                              ![saveGen'] = [at |-> "armed", gen |-> saveGen', snap |-> 0]]
  /\ storeLock' = FALSE
  /\ UNCHANGED <<contents, dirty, writerLock, budget>>

\* clear_scope(), which writes before it returns.
ClearBegins == Mutates("superseding")

ClearSupersedes ==
  /\ writer[Loop].at = "superseding"
  /\ saveGen' = saveGen + 1
  /\ saveTimer' = 0
  /\ writer' = [writer EXCEPT ![Loop] = [at |-> "snapped", gen |-> saveGen', snap |-> version]]
  /\ UNCHANGED <<contents, dirty, storeLock, writerLock, budget>>

\* flush_pending_save().
FlushBegins ==
  /\ writer[Loop].at = "idle" /\ ~storeLock
  /\ dirty' = TRUE
  /\ Move(Loop, "claiming")
  /\ UNCHANGED <<contents, saving, storeLock, writerLock, budget>>

FlushClaims ==
  /\ writer[Loop].at = "claiming"
  /\ saveTimer' = 0
  /\ writer' = [writer EXCEPT ![Loop].at = "claimed", ![Loop].gen = saveGen]
  /\ UNCHANGED <<contents, dirty, saveGen, storeLock, writerLock, budget>>

-----------------------------------------------------------------------------
(* Timer threads, and what they share with the event loop. *)

\* _claim_timer(), for a thread whose delay is over.
TimerFires(t) ==
  /\ writer[t].at = "armed"
  /\ IF t = saveGen /\ saveTimer # 0
     THEN saveTimer' = 0 /\ Move(t, "claimed")
     ELSE Move(t, "ended") /\ UNCHANGED saveTimer
  /\ UNCHANGED <<contents, dirty, saveGen, storeLock, writerLock, budget>>

TakesSnapshot(w) ==
  /\ writer[w].at = "claimed" /\ ~storeLock
  /\ writer' = [writer EXCEPT ![w].at = "snapped", ![w].snap = version]
  /\ UNCHANGED <<contents, dirty, saving, storeLock, writerLock, budget>>

\* Mutant of EntersWriter: a snapshot superseded meanwhile is written all the same.
EntersUnchecked(w) ==
  /\ writer[w].at = "snapped" /\ ~writerLock
  /\ Move(w, "writing") /\ writerLock' = TRUE
  /\ UNCHANGED <<contents, dirty, saving, storeLock, budget>>

\* _write_if_current(), up to the comparison of the generations.
EntersWriter(w) ==
  /\ writer[w].at = "snapped" /\ ~writerLock
  /\ IF writer[w].gen = saveGen
     THEN Move(w, "writing") /\ writerLock' = TRUE
     ELSE Move(w, Rest(w)) /\ UNCHANGED writerLock
  /\ UNCHANGED <<contents, dirty, saving, storeLock, budget>>

\* os.replace() puts the whole snapshot in place at once.
Writes(w) ==
  /\ writer[w].at = "writing"
  /\ file' = writer[w].snap
  /\ writerLock' = FALSE
  /\ Move(w, "written")
  /\ UNCHANGED <<version, promised, dirty, saving, storeLock, budget>>

WriteFails(w) ==
  /\ writer[w].at = "writing" /\ faults < MaxWriteFaults
  /\ faults' = faults + 1
  /\ refused' = refused \cup {writer[w].gen}
  /\ writerLock' = FALSE
  /\ Move(w, "failed")
  /\ UNCHANGED <<contents, dirty, saving, storeLock, crashes>>

\* The operation of the event loop returns, and gives up the store lock.
Returns(w, normally) ==
  /\ Move(w, Rest(w))
  /\ storeLock' = (storeLock /\ w # Loop)
  /\ promised' = IF w = Loop /\ normally THEN version ELSE promised

\* _mark_clean_if_current(): the decision, under the timer lock ...
Marks(w) ==
  /\ writer[w].at = "written"
  /\ IF saveTimer = 0 /\ writer[w].gen = saveGen
     THEN Move(w, "cleaning") /\ UNCHANGED <<promised, storeLock>>
     ELSE Returns(w, TRUE)
  /\ UNCHANGED <<version, file, dirty, saving, writerLock, budget>>

\* ... and the flag, under the store lock, some time later.
Cleans(w) ==
  /\ writer[w].at = "cleaning" /\ CanLock(w)
  /\ dirty' = FALSE
  /\ Returns(w, TRUE)
  /\ UNCHANGED <<version, file, saving, writerLock, budget>>

\* The error is raised to the caller of the event loop, and logged by a timer.
WriterFails(w) ==
  /\ writer[w].at = "failed" /\ CanLock(w)
  /\ dirty' = TRUE
  /\ Returns(w, FALSE)
  /\ UNCHANGED <<version, file, saving, writerLock, budget>>

\* The process ends, with its daemon threads; SessionStore._load() starts over.
Crash ==
  /\ crashes < MaxCrashes
  /\ crashes' = crashes + 1
  /\ version' = file
  /\ dirty' = FALSE
  /\ saveGen' = 0 /\ saveTimer' = 0
  /\ writer' = [w \in Writer |-> Fresh]
  /\ storeLock' = FALSE /\ writerLock' = FALSE
  /\ refused' = {}
  /\ UNCHANGED <<file, promised, faults>>

StoreNext ==
  \/ SaveBegins \/ SaveSchedules \/ ClearBegins \/ ClearSupersedes
  \/ FlushBegins \/ FlushClaims \/ Crash
  \/ \E t \in Timer : TimerFires(t)
  \/ \E w \in Writer :
       \/ TakesSnapshot(w) \/ EntersWriter(w) \/ Writes(w) \/ WriteFails(w)
       \/ Marks(w) \/ Cleans(w) \/ WriterFails(w)

StoreSpec == StoreInit /\ [][StoreNext]_storeVars

-----------------------------------------------------------------------------
(* The threads and their locks amount to DurableStore: the file never goes *)
(* back to an older state, whatever timers fire late, and what a clear or  *)
(* a flush has returned for survives every later write and crash           *)
(* (persistence.py _write_if_current, write_data, _claim_timer).           *)
Durable == INSTANCE DurableStore
ImplementsDurableStore == Durable!DurableSpec

(* A change that is not in the file yet is on its way there - its timer is *)
(* armed, or a thread holds the current generation - unless a write of     *)
(* that generation raised, which is not tried again (persistence.py        *)
(* schedule_save, _claim_timer, _save_from_timer).                         *)
OnItsWay(t) ==
  /\ writer[t].gen = saveGen
  /\ \/ writer[t].at = "armed" /\ saveTimer = t
     \/ writer[t].at = "claimed"
     \/ writer[t].at \in {"snapped", "writing"} /\ writer[t].snap = version
NothingIsForgotten ==
  writer[Loop].at = "idle" /\ file # version
    => saveGen \in refused \/ \E t \in Timer : OnItsWay(t)
=============================================================================
