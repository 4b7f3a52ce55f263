SPECIFICATION Spec
CONSTANTS
  Conns = {c1, c2}
  MaxConnections = 1
  Peers = {vito, other, nocreds}
  AllowedUID = vito
  NoCreds = nocreds
  SystemdSocket = TRUE
INVARIANT FailedUpdateAnswered
