---------------------------- MODULE ModelRouting ----------------------------
(***************************************************************************)
(* Which model answers (application/routing.py, reasoning.py): the names   *)
(* GET /v1/models and the Codex catalog offer, the settings a request is   *)
(* routed with, and the reasoning it asks of the provider.  A client keeps *)
(* a name it was offered while settings are saved and models discovered.   *)
(*                                                                         *)
(* A reference is a provider and its model; a model id alone names         *)
(* NoProvider.  A name is a reference as it stands ("plain"), behind       *)
(* anthropic/ ("gateway"), or behind the prefix that says no thinking      *)
(* ("quiet").                                                              *)
(***************************************************************************)
EXTENDS Naturals, FiniteSets

CONSTANTS
  Catalog,       \* PROVIDER_CATALOG, SUPPORTED_PROVIDER_IDS
  NumEndpoints,  \* numbered OpenAI-compatible endpoints in the settings
  ModelId,       \* model ids, upstream's and Claude's
  NoProvider,    \* of a model id alone
  Tiers,         \* fable, opus, haiku, sonnet
  TierIn,        \* the tier whose word a model id contains, or "root"
  Savable,       \* the settings an administrator may save
  MaxKnown       \* bound: references in the cache

Numbered == 1..NumEndpoints
Ref(p, m) == [provider |-> p, model |-> m]
References == [provider : Catalog \cup Numbered \cup {NoProvider}, model : ModelId]
Name == [form : {"plain", "gateway", "quiet"}, ref : References]
NoRoute == Ref(NoProvider, NoProvider)
Preferences == {"inherit", "off", "client", "high"}
Intent == [thinking : {"absent", "disabled", "enabled", "budget"},
           effort : {"absent", "none", "low"}, classifies : BOOLEAN]

\* MODEL and MODEL_<TIER>, REASONING_*, the endpoints with a base URL and the
\* models they list, and the providers of the catalog that are configured.
Settings == [route : [Tiers \cup {"root"} -> References \cup {NoRoute}],
             reasoning : [Tiers \cup {"root"} -> Preferences],
             on : SUBSET Numbered, lists : [Numbered -> SUBSET ModelId],
             configured : SUBSET Catalog]

\* What Settings validates: every provider named exists, the root is complete.
Valid(s) == s.route["root"] # NoRoute /\ s.reasoning["root"] # "inherit"

\* A numbered endpoint is no entry of the catalog.
ASSUME RoutingAssumption ==
  /\ NoProvider \notin Catalog \cup Numbered /\ Catalog \cap Numbered = {}
  /\ NumEndpoints \in Nat /\ MaxKnown \in Nat /\ TierIn \in [ModelId -> Tiers \cup {"root"}]
  /\ \A s \in Savable : s \in Settings /\ Valid(s)

VARIABLES
  settings,  \* of the current generation
  catalog,   \* ProviderModelCache: what each cached reference says of thinking
  chosen,    \* the name the client keeps
  router,    \* _rotations of the router that handled the last request
  last       \* what the last request under these settings was routed to

routingVars == <<settings, catalog, chosen, router, last>>

-----------------------------------------------------------------------------
(* ModelRouter.resolve().                                                  *)

\* _direct_provider_model: a reference to a provider of the catalog, also as
\* decode_gateway_model_id() reads it.
Direct(name) == name.ref.provider \in Catalog

\* Mutant of DirectRoute: a tier's word anywhere in the name decides.
DirectUnlessTier(name) == Direct(name) /\ TierIn[name.ref.model] = "root"

DirectRoute(name) == Direct(name)

\* _matched_route, for a setting that may be absent.
Tier(name) == TierIn[name.ref.model]
RouteOf(s, name) ==
  IF s.route[Tier(name)] = NoRoute THEN s.route["root"] ELSE s.route[Tier(name)]

\* openai_compatible_model_candidates.
Candidates(s, m) == {n \in s.on : m \in s.lists[n]}

\* A handler, and so a router, is made for each request (MessagesHandler).
NewRouter == [m \in ModelId |-> 0]

\* _select_rotation_candidate takes the next in the order of the endpoints, and
\* counts only where there is a choice.
Picked(rotations, m, candidates) ==
  CHOOSE n \in candidates :
    Cardinality({c \in candidates : c < n}) = rotations[m] % Cardinality(candidates)
Counted(rotations, m, candidates) ==
  IF Cardinality(candidates) > 1 THEN [rotations EXCEPT ![m] = @ + 1] ELSE rotations

\* The reference sent to, still without a provider if nobody lists the model.
Resolved(s, name, rotations) ==
  LET ref == RouteOf(s, name)
      candidates == Candidates(s, ref.model)
  IN IF DirectRoute(name) THEN name.ref
     ELSE IF ref.provider = NoProvider /\ candidates # {}
     THEN Ref(Picked(rotations, ref.model, candidates), ref.model)
     ELSE ref

\* _validate_provider_id, then create_provider().
Outcome(s, ref) ==
  IF ref.provider = NoProvider THEN "unknown"
  ELSE IF ref.provider \in Numbered
  THEN IF ref.provider \in s.on THEN "served" ELSE "unknown"
  ELSE IF ref.provider \in s.configured THEN "served" ELSE "unavailable"

\* The preference that applies: a direct reference has the root's.
Preference(s, name) ==
  IF DirectRoute(name)
  THEN IF name.form = "quiet" THEN "off" ELSE s.reasoning["root"]
  ELSE IF s.reasoning[Tier(name)] = "inherit" THEN s.reasoning["root"]
  ELSE s.reasoning[Tier(name)]

-----------------------------------------------------------------------------
(* resolve_reasoning_policy().                                             *)

Policy(control, effort, budget) ==
  [control |-> control, effort |-> effort, budget |-> budget]
NoReasoning == Policy("off", "absent", FALSE)

ClientPolicy(intent) ==
  IF intent.effort = "none" THEN NoReasoning
  ELSE CASE intent.thinking = "disabled" -> Policy("off", intent.effort, FALSE)
         [] intent.thinking \in {"enabled", "budget"} ->
              Policy("on", intent.effort, intent.thinking = "budget")
         [] OTHER -> Policy("default", intent.effort, FALSE)

PreferredPolicy(preference, intent) ==
  CASE preference = "off" -> NoReasoning
    [] preference = "client" -> ClientPolicy(intent)
    [] OTHER -> Policy("on", preference, FALSE)

\* _apply_message_routing_policies: a safety classifier does not reason.
Reasoning(s, name, intent) ==
  LET policy == PreferredPolicy(Preference(s, name), intent)
  IN IF intent.classifies /\ policy.control # "off" THEN NoReasoning ELSE policy

-----------------------------------------------------------------------------
(* What is offered: build_models_list_response, build_codex_model_catalog. *)

\* The cache is cut to what is usable before it is read; the list shows only
\* what it has of the catalog's providers (cached_prefixed_model_infos).
Usable(s) == s.configured \cup s.on
Cached == {ref \in DOMAIN catalog : ref.provider \in Usable(settings)}
Shown == {ref \in Cached : ref.provider \in Catalog}
Configured == {settings.route[t] : t \in Tiers \cup {"root"}} \ {NoRoute}
MayThink(ref) == ref \notin Cached \/ catalog[ref] # "no"

Variants(ref) ==
  {[form |-> "quiet", ref |-> ref]} \cup
  IF MayThink(ref) THEN {[form |-> "gateway", ref |-> ref]} ELSE {}
Advertised ==
  UNION {Variants(ref) : ref \in Configured \cup Shown} \cup
  [form : {"plain"}, ref : [provider : {NoProvider}, model : ModelId]]  \* Claude's own

\* _candidate_from_model_id: a gateway name becomes its reference.
CodexSlugs ==
  LET listed == {name \in Advertised : name.ref.provider \in Catalog}
  IN {[form |-> "plain", ref |-> name.ref] : name \in {n \in listed : n.form = "gateway"}} \cup
     {name \in listed : name.form = "quiet" /\ ~MayThink(name.ref)}

-----------------------------------------------------------------------------
NotRouted == [model |-> NoProvider, to |-> 0, odd |-> FALSE]

RoutingInit ==
  /\ settings \in Savable
  /\ catalog = <<>>
  /\ chosen \in Name
  /\ router = NewRouter /\ last = NotRouted

\* An administrator saves other settings, or connects or disconnects the account
\* a provider is configured by.
SavesSettings(s) ==
  /\ settings' = s /\ last' = NotRouted /\ router' = NewRouter
  /\ catalog' = [ref \in {r \in Cached : r.provider \in Usable(s)} |-> catalog[ref]]
  /\ UNCHANGED chosen

\* A provider lists its models; one that is not usable any more is dropped.
Discovers(p, listed) ==
  /\ p \in Usable(settings)
  /\ catalog' = [ref \in {r \in Cached : r.provider # p} \cup {Ref(p, m) : m \in DOMAIN listed}
                 |-> IF ref.provider = p THEN listed[ref.model] ELSE catalog[ref]]
  /\ Cardinality(DOMAIN catalog') <= MaxKnown
  /\ UNCHANGED <<settings, chosen, router, last>>

\* The client takes a name from the list, or from the Codex catalog.
Chooses(name) ==
  /\ name \in Advertised \cup CodexSlugs
  /\ chosen' = name
  /\ UNCHANGED <<settings, catalog, router, last>>

\* A request for the name the client keeps.
Requests ==
  LET ref == RouteOf(settings, chosen)
      to == Resolved(settings, chosen, NewRouter)
      shared == ~DirectRoute(chosen) /\ ref.provider = NoProvider /\ to.provider # NoProvider
  IN /\ last' = IF shared THEN [model |-> ref.model, to |-> to.provider, odd |-> ~last.odd]
                ELSE last
     /\ router' = IF shared
                  THEN Counted(NewRouter, ref.model, Candidates(settings, ref.model))
                  ELSE NewRouter
     /\ UNCHANGED <<settings, catalog, chosen>>

RoutingNext ==
  \/ \E s \in Savable : SavesSettings(s)
  \/ \E p \in Catalog \cup Numbered, ms \in SUBSET ModelId : \E listed \in [ms -> {"yes", "no"}] :
       Discovers(p, listed)
  \/ \E name \in Name : Chooses(name)
  \/ Requests

RoutingSpec == RoutingInit /\ [][RoutingNext]_routingVars

-----------------------------------------------------------------------------
(* Whatever was saved or discovered since a client was offered a name of a *)
(* provider of the catalog, a request for it reaches that provider's model *)
(* or is refused, never another model, although the name may contain the   *)
(* word of a tier; a no-thinking name asks for no reasoning whatever the   *)
(* request and the settings say.  A model id that endpoints list is served *)
(* by one that lists it (ModelRouter.resolve, model_cache.py).             *)
NamesAreHonoured ==
  LET to == Resolved(settings, chosen, NewRouter)
      route == RouteOf(settings, chosen)
  IN /\ chosen.ref.provider \in Catalog =>
          /\ to = chosen.ref /\ Outcome(settings, to) \in {"served", "unavailable"}
          /\ chosen.form = "quiet" =>
               \A i \in Intent : Reasoning(settings, chosen, i) = NoReasoning
     /\ chosen.ref.provider \notin Catalog /\ route.provider = NoProvider =>
          \A n \in settings.on : route.model \in settings.lists[n] =>
            /\ to.provider \in settings.on /\ route.model \in settings.lists[to.provider]
            /\ Outcome(settings, to) = "served"

(* application/routing.py:61-64 speaks of rotation "across requests", and  *)
(* :145 of "Pick the endpoint for a request, rotating across duplicates".  *)
(* So two requests in a row for a model that several endpoints list do not *)
(* go to the same one.                                                     *)
SharedModelsRotate ==
  [][last.model # NoProvider /\ last'.model = last.model /\ last'.odd # last.odd
       /\ Cardinality(Candidates(settings, last.model)) > 1
     => last'.to # last.to]_routingVars
=============================================================================
