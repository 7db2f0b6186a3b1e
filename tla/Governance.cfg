SPECIFICATION Spec
CONSTANTS
  h1 = h1
  h2 = h2
  ann = ann
  bob = bob
  cyd = cyd
  bot = bot
  unit = unit
  sequence = sequence
  team = team
  rs = rs
  None = None
  Heads = {h1, h2}
  Humans = {ann, bob, cyd}
  Bots = {bot}
  Author = ann
  Checks = {unit, sequence}
  SequenceCheck = sequence
  Actors = {team}
  Rulesets = {rs}
  Settings <- OtherSettings
  FirstWorlds <- SomeWorlds
  PageSize = 2
  MaxAge = 0
  MaxTime = 1
  MaxChanges = 1
  MaxDisturbances = 2
  MaxCollections = 2
INVARIANTS
  TypeOK
  HeldWithinWindow
  EnforcedIsEnforced
  AuthorizedIsSatisfied
  SatisfiedIsAuthorized
  EnforcementIsOfOneWindow
CHECK_DEADLOCK FALSE
