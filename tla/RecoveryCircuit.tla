--------------------------- MODULE RecoveryCircuit ---------------------------
(***************************************************************************)
(* What provider admission promises about recovery, with the gate, the     *)
(* rate limiter, the slots, the waiting and the cancellation left out: a   *)
(* circuit breaker whose half-open probes belong to one owner at a time.   *)
(*                                                                         *)
(*   closed    anybody may start an upstream attempt                       *)
(*   open      nobody may; the owner, if there is one, will probe          *)
(*   probing   the owner alone may start an attempt, and its answer alone  *)
(*             decides what becomes of the circuit                         *)
(*   cooling   the owner ran out of attempts: nobody may, for a while      *)
(*   cooled    the next call to come will be the owner, and probe          *)
(*                                                                         *)
(* ProviderAdmission is shown to implement it.                             *)
(***************************************************************************)
CONSTANTS Calls, None

VARIABLES
  mode,     \* the state of the circuit
  owner,    \* the call that may probe, None when nobody claimed it
  asking    \* the calls whose upstream attempt has not been answered

vars == <<mode, owner, asking>>

Init == mode = "closed" /\ owner = None /\ asking = {}

\* An attempt starts with the circuit closed or as the probe of its owner.
Start(c) ==
  /\ c \notin asking
  /\ mode = "closed" \/ (mode = "probing" /\ owner = c)
  /\ asking' = asking \cup {c}
  /\ UNCHANGED <<mode, owner>>

\* What a call that comes to the gate may make of the circuit <<m, o>>.
Passages(c, m, o) ==
  {<<m, o>>}
  \cup {<<n, c>> : n \in CASE m = "open" /\ o \in {c, None} -> {"open", "probing"}
                          [] m = "cooled" -> {"probing"}
                          [] OTHER -> {}}

\* An answer to the probe settles the circuit; an answer to another attempt
\* can only open a closed one.  The call may go straight back to the gate.
Answer(c) ==
  /\ c \in asking
  /\ asking' = asking \ {c}
  /\ LET settled ==
           IF mode = "probing" /\ owner = c
           THEN {<<"closed", None>>, <<"open", c>>, <<"open", None>>,
                 <<"cooling", None>>}
           ELSE IF mode = "closed"
           THEN {<<"closed", None>>, <<"open", c>>, <<"cooling", None>>}
           ELSE {<<mode, owner>>}
     IN  \E s \in settled : <<mode', owner'>> \in Passages(c, s[1], s[2])

Pass(c) ==
  /\ <<mode', owner'>> \in Passages(c, mode, owner)
  /\ UNCHANGED asking

Cool == mode = "cooling" /\ mode' = "cooled" /\ UNCHANGED <<owner, asking>>

\* The owner goes away, with or without a probe, and leaves the circuit open.
Yield(c) ==
  /\ mode \in {"open", "probing"} /\ owner = c
  /\ mode' = "open" /\ owner' = None
  /\ UNCHANGED asking

\* A call that was not the probe goes away before its answer.
Drop(c) ==
  /\ c \in asking
  /\ asking' = asking \ {c}
  /\ UNCHANGED <<mode, owner>>

Next ==
  \/ \E c \in Calls : Start(c) \/ Answer(c) \/ Pass(c) \/ Yield(c) \/ Drop(c)
  \/ Cool

Spec == Init /\ [][Next]_vars
=============================================================================
