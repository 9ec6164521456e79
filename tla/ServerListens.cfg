SPECIFICATION UndisturbedSpec
CONSTANTS
  c1 = c1
  c2 = c2
  v1 = v1
  s1 = s1
  q1 = q1
  NoClient = NoClient
  Clients <- MCClients
  Videos <- MCVideos
  Sessions <- MCSessions
  Queries = {}
  NumImages = 2
  MaxLogins = 1
  MaxInflight = 1
PROPERTIES
  ListensForever
