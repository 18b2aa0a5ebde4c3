--------------------------- MODULE RequestFallback ---------------------------
(***************************************************************************)
(* How a chat request is made acceptable.  An upstream that refuses a      *)
(* field of the request names it; the request is sent again without it.  A *)
(* limit on the output that it names is remembered for the requests that   *)
(* follow.  The requests of a provider take the keys of its pool in turn,  *)
(* and leave a key that is overloaded.                                     *)
(***************************************************************************)
EXTENDS Naturals, FiniteSets

CONSTANTS
  Sender,
  NumKeys,   \* a provider of one key has no pool
  Quota,     \* per_key_quota, the same for every pool
  MaxSends,
  Asked,     \* output tokens a request asks for
  NoCap

ASSUME FallbackAssumption ==
  /\ NumKeys \in Nat \ {0, 1} /\ Quota \in Nat \ {0, 1}
  /\ MaxSends \in Nat /\ Asked \in Nat \ {0} /\ NoCap \notin 1..Asked

\* What an upstream may refuse: the count of tokens of a stream, control of the
\* reasoning, arguments of the chat template, reasoning of earlier turns.
Refusable == {"usage", "control", "template", "replay"}

VARIABLES
  vendor,    \* the kind of provider
  caps,      \* learned limit on the output of the model
  keys,      \* the pool: current key, uses since the last rotation counted
  outbound   \* the requests

fallbackVars == <<vendor, caps, keys, outbound>>

\* rejected: bodies refused with status 400; named: what of; lone: nobody has
\* used the pool since this request gave up its key; spree: sends of a key.
Offered == IF vendor = "nim" THEN Refusable ELSE Refusable \ {"template"}
NewSender ==
  [at |-> "new", body |-> [tokens |-> Asked, fields |-> Offered], used |-> {}, sends |-> 0, key |-> 0,
   rejected |-> {}, named |-> {}, left |-> 0, lone |-> FALSE]

FallbackInit ==
  /\ vendor \in {"plain", "nim", "mistral"}
  /\ caps = [learned |-> NoCap, reported |-> {}]
  /\ keys = [index |-> 1, calls |-> 0, spree |-> 0]
  /\ outbound = [s \in Sender |-> NewSender]

-----------------------------------------------------------------------------
(* The pool.                                                               *)

NextKey(k) == (k % NumKeys) + 1

\* The use that fills the quota is the first of the next key.
Acquired ==
  IF keys.calls + 1 >= Quota THEN [index |-> NextKey(keys.index), calls |-> 0, spree |-> 1]
  ELSE [keys EXCEPT !.calls = @ + 1, !.spree = @ + 1]
MarkFailure == [index |-> NextKey(keys.index), calls |-> 0, spree |-> 0]

\* The pool is used by s.
Touched(reqs, s) == [t \in Sender |-> IF t = s THEN reqs[t] ELSE [reqs[t] EXCEPT !.lone = FALSE]]

-----------------------------------------------------------------------------
(* Another body, if there is one.                                          *)

Lower(a, b) == IF a < b THEN a ELSE b
Learned(cap) == IF caps.learned = NoCap THEN cap ELSE Lower(caps.learned, cap)

Lowered(body) ==
  IF caps.learned = NoCap THEN body ELSE [body EXCEPT !.tokens = Lower(@, caps.learned)]

\* Mutant of Clamp: a body within the limit is sent as it is.
ClampAlways(body, cap) == {[body EXCEPT !.tokens = Lower(@, cap)]}

Clamp(body, cap) == IF body.tokens > cap THEN {[body EXCEPT !.tokens = cap]} ELSE {}

WithoutUsage(body) == IF "usage" \in body.fields THEN {[body EXCEPT !.fields = @ \ {"usage"}]} ELSE {}

\* Control of the reasoning is one of the arguments of the template.
NimDrops(field) ==
  IF field = "template" THEN {"template", "control"} ELSE {field} \cap {"control", "replay"}

\* A rejection is known by any field of the reasoning, and they go together.
MistralKnows(field) == field \in {"control", "replay"}
MistralDrops == {"control", "replay"}

Specific(body, field) ==
  LET gone == IF vendor = "nim" THEN NimDrops(field)
              ELSE IF vendor = "mistral" /\ MistralKnows(field) THEN MistralDrops ELSE {}
  IN IF gone \cap body.fields = {} THEN {} ELSE {[body EXCEPT !.fields = @ \ gone]}

\* Each kind of repair but that of the limit is made once.
Repair(req, field) ==
  LET usage == IF field = "usage" /\ "usage" \notin req.used THEN WithoutUsage(req.body) ELSE {}
      specific == IF "specific" \notin req.used THEN Specific(req.body, field) ELSE {}
  IN {[kind |-> "usage", body |-> b] : b \in usage} \cup {[kind |-> "specific", body |-> b] : b \in specific}

CanSend(req) == req.sends < MaxSends
SenderEnded(at) == [NewSender EXCEPT !.at = at]

-----------------------------------------------------------------------------
(* The requests.                                                           *)

SenderBegins(s) ==
  /\ outbound[s].at = "new"
  /\ outbound' = [outbound EXCEPT ![s].at = "ready", ![s].body = Lowered(@)]
  /\ UNCHANGED <<vendor, caps, keys>>

Sends(s) ==
  /\ outbound[s].at = "ready" /\ CanSend(outbound[s])
  /\ keys' = Acquired
  /\ outbound' = Touched([outbound EXCEPT ![s].at = "sent", ![s].sends = @ + 1, ![s].key = Acquired.index], s)
  /\ UNCHANGED <<vendor, caps>>

Accepted(s) ==
  /\ outbound[s].at = "sent" /\ outbound' = [outbound EXCEPT ![s] = SenderEnded("done")]
  /\ UNCHANGED <<vendor, caps, keys>>

\* The stream opens and breaks before anything was shown: the body that was accepted is
\* sent anew, and may be repaired anew.
StreamBreaks(s) ==
  /\ outbound[s].at = "sent" /\ CanSend(outbound[s])
  /\ outbound' = [outbound EXCEPT ![s].at = "new", ![s].used = {}, ![s].lone = FALSE]
  /\ UNCHANGED <<vendor, caps, keys>>

\* The answer names a limit: it is learned even by a request that ends with it.
CapRejected(s, cap) ==
  /\ outbound[s].at = "sent"
  /\ LET req == [outbound[s] EXCEPT !.rejected = @ \cup {outbound[s].body}, !.lone = FALSE]
         bodies == Clamp(req.body, Learned(cap))
     IN outbound' = [outbound EXCEPT ![s] =
          IF bodies = {} THEN SenderEnded("failed")
          ELSE IF ~CanSend(req) THEN SenderEnded("failed")
          ELSE [req EXCEPT !.at = "ready", !.body = CHOOSE b \in bodies : TRUE]]
  /\ caps' = [learned |-> Learned(cap), reported |-> caps.reported \cup {cap}]
  /\ UNCHANGED <<vendor, keys>>

\* The answer names a field.  A hosted model may say so with status 500: then the
\* key is left as if it were overloaded, and a body nothing is to be done about
\* is sent again.
FieldRejected(s, field, status) ==
  /\ outbound[s].at = "sent" /\ field \in outbound[s].body.fields
  /\ status = 500 => vendor = "nim" /\ field = "control"
  /\ LET refused == IF status = 400 THEN {outbound[s].body} ELSE {}
         req == [outbound[s] EXCEPT !.rejected = @ \cup refused, !.named = @ \cup {field}, !.lone = FALSE]
         repairs == Repair(req, field)
         after == IF repairs = {} THEN IF status = 500 /\ CanSend(req) THEN [req EXCEPT !.at = "ready"] ELSE SenderEnded("failed")
                  ELSE LET r == CHOOSE x \in repairs : TRUE
                           told == [req EXCEPT !.used = @ \cup {r.kind}]
                       IN IF CanSend(req) THEN [told EXCEPT !.at = "ready", !.body = r.body] ELSE SenderEnded("failed")
     IN IF status = 500
        THEN keys' = MarkFailure /\ outbound' = Touched([outbound EXCEPT ![s] = after], s)
        ELSE UNCHANGED keys /\ outbound' = [outbound EXCEPT ![s] = after]
  /\ UNCHANGED <<vendor, caps>>

\* The next attempt uses the next key of the pool, whichever key failed.
Overloaded(s) ==
  /\ outbound[s].at = "sent"
  /\ keys' = MarkFailure
  /\ LET req == [outbound[s] EXCEPT !.lone = keys.index = outbound[s].key]
     IN outbound' = Touched([outbound EXCEPT ![s] =
          IF CanSend(req) THEN [req EXCEPT !.at = "ready", !.left = req.key] ELSE SenderEnded("failed")], s)
  /\ UNCHANGED <<vendor, caps>>

\* It times out: the next attempt takes the pool as it is.
TimesOut(s) ==
  /\ outbound[s].at = "sent"
  /\ outbound' = [outbound EXCEPT ![s] = IF CanSend(@) THEN [@ EXCEPT !.at = "ready", !.lone = FALSE] ELSE SenderEnded("failed")]
  /\ UNCHANGED <<vendor, caps, keys>>

FailsOtherwise(s) ==
  /\ outbound[s].at = "sent" /\ outbound' = [outbound EXCEPT ![s] = SenderEnded("failed")]
  /\ UNCHANGED <<vendor, caps, keys>>

SenderStep(s) ==
  \/ SenderBegins(s) \/ Sends(s) \/ Accepted(s) \/ StreamBreaks(s) \/ Overloaded(s) \/ TimesOut(s) \/ FailsOtherwise(s)
  \/ \E cap \in 1..Asked : CapRejected(s, cap)
  \/ \E field \in Refusable, status \in {400, 500} : FieldRejected(s, field, status)

FallbackNext == \E s \in Sender : SenderStep(s)
FallbackSpec == FallbackInit /\ [][FallbackNext]_fallbackVars

-----------------------------------------------------------------------------
\* What goes with a field that is refused.
With(field) ==
  {field} \cup (IF vendor = "nim" /\ field = "template" THEN {"control"} ELSE {})
          \cup (IF vendor = "mistral" /\ field \in {"control", "replay"} THEN {"control", "replay"} ELSE {})

(* A body refused for its form with status 400 is never sent again; only   *)
(* what the upstream named is given up, and of the output only what        *)
(* exceeds a limit it named, to this request or another, and the least of  *)
(* them is remembered.  A request that leaves an overloaded key takes      *)
(* another next, if nobody used the pool meanwhile, and no key is used     *)
(* more than its quota in a row (provider.py, keypool.py, output_cap.py).  *)
RequestsAdapt ==
  /\ caps.reported # {} =>
       caps.learned \in caps.reported /\ \A c \in caps.reported : caps.learned <= c
  /\ keys.spree <= Quota
  /\ \A s \in Sender :
       LET req == outbound[s]
       IN /\ req.body.tokens \in {Asked} \cup caps.reported
          /\ Offered \ req.body.fields \subseteq UNION {With(f) : f \in req.named}
          /\ req.at = "ready" => req.body \notin req.rejected
          /\ (req.at = "sent" /\ req.lone) => req.key # req.left
=============================================================================
