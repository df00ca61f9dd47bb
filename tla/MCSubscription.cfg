CONSTANTS
  Targets = {t1}
  Clients = {y1, y2}
  Moderators = {y2}
  None = None
  MaxSubs <- MCMaxSubs
  MaxErrors <- MCMaxErrors
  MaxRounds <- MCMaxRounds
SPECIFICATION Spec
INVARIANT TypeOK
INVARIANT RegistryConsistent
INVARIANT ReadyMeansJoined
PROPERTY ReadyAnswered
PROPERTY IdleEviction
CHECK_DEADLOCK FALSE
