------------------------- MODULE MCProviderAdmission -------------------------
(* Instances of ProviderAdmission for TLC. *)
EXTENDS ProviderAdmissionProps

CONSTANTS chat, chat2, codex, once

\* Those who come are one call of each kind, or two chat streams, as many as
\* there are slots.  The steps of a call that has come are never held back.
FewCome ==
  LET come == {c \in Calls : calls'[c].pc # "idle"}
  IN come \subseteq {chat, codex, once} \/ come \subseteq {chat, chat2}
==============================================================================
