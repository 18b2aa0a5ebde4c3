\* Requests for a model that two endpoints list.
SPECIFICATION RoutingSpec
CONSTANTS
  z1 = z1
  z2 = z2
  opus = opus
  plain = plain
  Catalog = {z1, z2}
  NumEndpoints = 2
  ModelId = {opus, plain}
  NoProvider = NoProvider
  Tiers = {"opus"}
  TierIn <- MCTierIn
  Savable <- MCSavable
  MaxKnown = 1
PROPERTY
  SharedModelsRotate
