CONSTANTS
  Clients = {c1, c2}
  Emails = {e1}
  Passwords = {p1, p2}
  None = None
  MaxConns = 1
  TokenLife = 1
  Secrets = {s1, NoSecret}
  NoSecret = NoSecret
  MaxRestarts = 1
  MaxStray = 1
  Horizon = 1
SPECIFICATION FairSpec
INVARIANTS TypeOK AcknowledgedStored RightPasswordAccepted AccessIsEarned
PROPERTY CallsEnd
