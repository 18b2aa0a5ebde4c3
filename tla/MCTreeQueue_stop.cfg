\* A stop while the task of a cleared answer is still draining.
SPECIFICATION Spec
CONSTANTS
  None = None
  m1 = m1
  m2 = m2
  m3 = m3
  t1 = t1
  t2 = t2
  chat = chat
  Message = {m1, m2}
  Tree = {t1, t2}
  Chat = {chat}
  ChatOf <- MCChatOf
  MaxAdmissions = 2
INVARIANT
  StopAllStopsEverything
