---------------------------- MODULE MCTreeQueue ----------------------------
(* Instances of TreeQueue for TLC: every message is sent in one chat. *)
EXTENDS TreeQueueProps, TLC

CONSTANTS chat, m1, m2, m3, t1, t2

MCChatOf == [m \in Message |-> chat]

\* The messages and the tree objects the state knows.
Known == {m \in Message : index[Prompt(m)] # None} \cup {tasks[c].node : c \in Claim}
           \cup UNION {Present(trees[t]) : t \in Allocated}

\* The instance is small in one of two ways: one tree of up to three prompts, or two
\* tree objects, one perhaps detached and still draining, and two prompts.  No step
\* leaves it.
StaysSmall == (Allocated # Tree \/ Cardinality(Known) <= 2)'

\* Names the state does not hold are alike, so one arrives only when it holds those
\* before it.
Named == Known \cup {trees[t].root : t \in Allocated} \cup {trees[t].claimed : t \in Allocated}
ArriveInOrder(order, known) ==
  \A i, j \in DOMAIN order :
    i < j /\ order[j] \in known' \ known => order[i] \in known
NamedInOrder ==
  ArriveInOrder(<<m1, m2, m3>>, Named) /\ ArriveInOrder(<<t1, t2>>, Allocated)
=============================================================================
