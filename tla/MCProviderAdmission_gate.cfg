\* One call of each kind, or two chat streams over two slots.
\* Calls are finite, so the system may stop.
SPECIFICATION FairSpec
CHECK_DEADLOCK FALSE
CONSTANTS
  None = None
  chat = chat
  chat2 = chat2
  codex = codex
  once = once
  Calls = {chat, chat2, codex, once}
  Chat = {chat, chat2}
  Codex = {codex}
  MaxAttempts = 2
  Slots = 2
  AccessInterrupted = TRUE
ACTION_CONSTRAINT FewCome
INVARIANTS
  SlotsAreConserved
  LeaderWillAct
PROPERTIES
  CoalescedShareOutcome
  FailedStaysOut
  ImplementsCircuit
  EveryCallEnds
