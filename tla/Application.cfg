SPECIFICATION ApplicationSpec
CONSTANTS
  r1 = r1  r2 = r2  alice = alice  bob = bob  root = root
  post = post  legacy = legacy  product = product
  Requests = {r1, r2}
  Claims <- MCClaims
  Seeds <- MCSeeds
  NoToken = NoToken  Initial = Initial  NoAuthor = NoAuthor  Nobody = Nobody
  Fields = {title, body}
  Names = {name}
  MaxShift = 1
SYMMETRY Symmetry
INVARIANTS NothingLeftOut EveryOperationGuarded AnswersAreTruthful RegistrationsSettled SchemaFollowsVersion
PROPERTIES ChangesAreEntitled
CHECK_DEADLOCK FALSE
