---------------------------- MODULE MCMessaging -----------------------------
(* Instances of the machines of the messaging side, which share no state   *)
(* with one another. A behaviour picks one of them at the start and runs   *)
(* it alone, so one run of TLC explores them all, each in full. A machine  *)
(* that may start in several states does so only when it is the one that   *)
(* runs.                                                                   *)
EXTENDS SessionPersistence, MessageDelivery, ManagedSessions, VoiceNotes, ChatWorkflow,
        TurnDisplay, TLC

CONSTANTS e1, e2, e3, k1, k2, c1, c2, q1, q2, t1, t2, P, R, n1, n2, v1

MCKeyOf == e1 :> k1 @@ e2 :> k1 @@ e3 :> k2
MCParentOf == t1 :> P @@ t2 :> P
MCVoiceOf == n1 :> v1 @@ n2 :> v1
MCToolId == {<<1>>, <<1, 0>>, <<2>>}
MCTaskLike == {<<2>>}

VARIABLE machine  \* the machine that runs
Machines == {"store", "delivery", "pool", "voice", "chat", "display"}

Resting == \* the states of the machines that do not run
  /\ machine # "store" => UNCHANGED storeVars
  /\ machine # "delivery" => UNCHANGED deliveryVars
  /\ machine # "pool" => UNCHANGED poolVars
  /\ machine # "voice" => UNCHANGED voiceVars
  /\ machine # "chat" => UNCHANGED chatVars
  /\ machine # "display" => UNCHANGED displayVars

\* What tells two states apart: the machine that runs.
MessagingView ==
  <<machine,
    CASE machine = "store" -> <<storeVars>>
      [] machine = "delivery" -> <<deliveryVars>>
      [] machine = "pool" -> <<poolVars>>
      [] machine = "voice" -> <<voiceVars>>
      [] machine = "chat" -> <<chatVars>>
      [] machine = "display" -> <<displayVars>> >>

allMessagingVars == <<machine, storeVars, deliveryVars, poolVars, voiceVars, chatVars, displayVars>>

MessagingInit ==
  /\ machine \in Machines
  /\ StoreInit /\ DeliveryInit /\ PoolInit /\ VoiceInit /\ ChatInit
  /\ DisplayInit /\ (machine # "display" => ~claude.streams)

\* Commands, prompts and turns that are alike are named in the order in which
\* they come.  None of them is ever new again.
NamedInOrder ==
  /\ handler'[c2].at # "new" => handler'[c1].at # "new"
  /\ handler'[q2].at # "new" => handler'[q1].at # "new"
  /\ turn'[t2].at # "opening" => turn'[t1].at # "opening"

MessagingNext ==
  /\ machine' = machine /\ Resting
  /\ \/ machine = "store" /\ StoreNext
     \/ machine = "delivery" /\ DeliveryNext
     \/ machine = "pool" /\ PoolNext
     \/ machine = "voice" /\ VoiceNext
     \/ machine = "chat" /\ ChatNext
     \/ machine = "display" /\ DisplayNext
  /\ NamedInOrder

MessagingSpec == MessagingInit /\ [][MessagingNext]_allMessagingVars
=============================================================================
