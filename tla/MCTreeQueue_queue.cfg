\* One tree of up to three prompts - queueing, propagation, subtree clears - or two
\* tree objects and two prompts, which may be delivered again after a clear: a detached
\* tree is still draining while its identity is published again.  Under the event
\* loop's fairness, whose steps the two constraints never cut.
SPECIFICATION FairSpec
CONSTANTS
  None = None
  m1 = m1
  m2 = m2
  m3 = m3
  t1 = t1
  t2 = t2
  chat = chat
  Message = {m1, m2, m3}
  Tree = {t1, t2}
  Chat = {chat}
  ChatOf <- MCChatOf
  MaxAdmissions = 3
ACTION_CONSTRAINTS
  StaysSmall
  NamedInOrder
INVARIANTS
  TreesConsistent
  ResumesFinishedRun
  DetachedIsQuiet
  ClaimsAreTasks
  IndexIsExact
  OverIsReported
PROPERTIES
  ArrivalOrder
  CancelledIsReleased
  QueueWaitsForCliOnly
