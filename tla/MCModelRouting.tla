--------------------------- MODULE MCModelRouting ---------------------------
(* Two providers of the catalog, two endpoints, and a model whose name      *)
(* contains the word of a tier.  The administrator saves a model of the     *)
(* catalog, a numbered one or a bare one, with and without a route for the  *)
(* tier, endpoints that share models, and providers that lose their key.    *)
EXTENDS ModelRouting, TLC

CONSTANTS z1, z2, opus, plain

MCTierIn == opus :> "opus" @@ plain :> "root"

MCSaved(root, tier, lists, configured) ==
  [route |-> "root" :> root @@ "opus" :> tier,
   reasoning |-> "root" :> (IF configured = {z1} THEN "off" ELSE "client") @@ "opus" :> IF tier = NoRoute THEN "inherit" ELSE "high",
   on |-> IF root.provider = 1 THEN {2} ELSE {1, 2}, lists |-> lists, configured |-> configured]

MCSavable ==
  {MCSaved(root, tier, lists, configured) :
     root \in {Ref(z1, plain), Ref(1, opus), Ref(NoProvider, plain)},
     tier \in {NoRoute, Ref(z2, plain), Ref(NoProvider, opus)},
     lists \in {1 :> {plain} @@ 2 :> {plain, opus}, 1 :> {} @@ 2 :> {opus}},
     configured \in {{z1}, {z1, z2}}}
=============================================================================
