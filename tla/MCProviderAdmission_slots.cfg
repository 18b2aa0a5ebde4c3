\* A chat stream that is cut and recovers.
SPECIFICATION Spec
CHECK_DEADLOCK FALSE
CONSTANTS
  None = None
  chat = chat
  chat2 = chat2
  codex = codex
  once = once
  Calls = {chat, once}
  Chat = {chat}
  Codex = {}
  MaxAttempts = 2
  Slots = 2
  AccessInterrupted = FALSE
INVARIANTS
  BackoffHoldsNoSlot
