\* A Codex stream whose access to the token is interrupted.
SPECIFICATION Spec
CHECK_DEADLOCK FALSE
CONSTANTS
  None = None
  codex = codex
  chat = chat
  chat2 = chat2
  once = once
  Calls = {codex, once}
  Chat = {}
  Codex = {codex}
  MaxAttempts = 2
  Slots = 1
  AccessInterrupted = TRUE
INVARIANTS
  LeaderIsLive
