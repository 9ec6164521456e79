SPECIFICATION FairSpec
CONSTANTS
  c1 = c1
  c2 = c2
  v1 = v1
  s1 = s1
  q1 = q1
  NoClient = NoClient
  Clients <- MCClients
  Videos = {}
  Sessions <- MCSessions
  Queries = {}
  NumImages = 1
  MaxLogins = 1
  MaxInflight = 1
PROPERTIES
  RequestsAnswered
  BacklogServed
