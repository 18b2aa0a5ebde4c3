----------------------------- MODULE MCGateway ------------------------------
(* Instances of the machines of the gateway, which share no state with one *)
(* another. A behaviour picks one of them at the start and runs it alone,  *)
(* so one run of TLC explores them all, each in full. A machine that may   *)
(* start in several states does so only when it is the one that runs.      *)
EXTENDS AccountTokens, StreamTranslation, AdminSettings, ServerLifecycle, NativeTools,
        ResponsesBridge, ReasoningReplay, RequestFallback, LoginFlow, MCModelRouting, TLC

CONSTANTS p1, p2, s1, s2

MCKindOf == 0 :> "task" @@ 1 :> "plain"

VARIABLE machine  \* the machine that runs
Machines == {"account", "stream", "settings", "life", "native", "bridge", "history",
             "fallback", "login", "route"}

Resting == \* the states of the machines that do not run
  /\ machine # "account" => UNCHANGED accountVars
  /\ machine # "stream" => UNCHANGED streamVars
  /\ machine # "settings" => UNCHANGED settingsVars
  /\ machine # "life" => UNCHANGED lifeVars
  /\ machine # "native" => UNCHANGED nativeVars
  /\ machine # "bridge" => UNCHANGED bridgeVars
  /\ machine # "history" => UNCHANGED historyVars
  /\ machine # "fallback" => UNCHANGED fallbackVars
  /\ machine # "login" => UNCHANGED loginVars
  /\ machine # "route" => UNCHANGED routingVars

\* What tells two states apart: the machine that runs.
GatewayView ==
  <<machine,
    CASE machine = "account" -> <<accountVars>>
      [] machine = "stream" -> <<streamVars>>
      [] machine = "settings" -> <<settingsVars>>
      [] machine = "life" -> <<lifeVars>>
      [] machine = "native" -> <<nativeVars>>
      [] machine = "bridge" -> <<bridgeVars>>
      [] machine = "history" -> <<historyVars>>
      [] machine = "fallback" -> <<fallbackVars>>
      [] machine = "login" -> <<loginVars>>
      [] machine = "route" -> <<routingVars>> >>

allGatewayVars == <<machine, accountVars, streamVars, settingsVars, lifeVars, nativeVars,
                    bridgeVars, historyVars, fallbackVars, loginVars, routingVars>>

GatewayInit ==
  /\ machine \in Machines
  /\ AccountInit /\ BridgeInit
  /\ StreamInit /\ (machine # "stream" => ~run.reasoning)
  /\ IF machine = "settings" THEN SettingsInit
     ELSE /\ process = Nowhere /\ explicit = Nowhere /\ env = Nowhere /\ retired = Unset
          /\ running = Nowhere /\ due = TRUE /\ saves = 0
  /\ LifeInit /\ (machine # "life" => tray = "none" /\ platform = "none")
  /\ NativeInit /\ (machine # "native" => written = [f \in Field |-> Answer(<<>>, <<>>, <<>>, TRUE)])
  /\ HistoryInit /\ (machine # "history" => speaker = "messages")
  /\ FallbackInit /\ (machine # "fallback" => vendor = "plain")
  /\ LoginInit
  /\ IF machine = "route" THEN RoutingInit
     ELSE /\ settings = CHOOSE s \in Savable : TRUE
          /\ chosen = [form |-> "plain", ref |-> Ref(z1, plain)]
          /\ catalog = <<>> /\ router = NewRouter /\ last = NotRouted

GatewayNext ==
  /\ machine' = machine /\ Resting
  /\ \/ machine = "account" /\ AccountNext
     \/ machine = "stream" /\ StreamNext
     \/ machine = "settings" /\ SettingsNext
     \/ machine = "life" /\ LifeNext
     \/ machine = "native" /\ NativeNext
     \/ machine = "bridge" /\ BridgeNext
     \/ machine = "history" /\ HistoryNext
     \/ machine = "fallback" /\ FallbackNext
     \/ machine = "login" /\ LoginNext
     \/ machine = "route" /\ RoutingNext

GatewaySpec == GatewayInit /\ [][GatewayNext]_allGatewayVars
=============================================================================
