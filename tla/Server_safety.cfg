SPECIFICATION Spec
CONSTANTS
  Conns = {c1, c2, c3}
  MaxConnections = 2
  Peers = {vito, other, nocreds}
  AllowedUID = vito
  NoCreds = nocreds
  SystemdSocket = FALSE
SYMMETRY MCSymmetry
INVARIANTS
  TypeOK
  SlotsAccounted
  OnlyAuthorizedServed
  DrainLosesAtMostOne
  OnlyCancelledUpdateUnanswered
  RestartAnswerDelivered
  RestartNotForgotten
PROPERTIES
  ImplementsAdmission
  RunsOneLifetime
