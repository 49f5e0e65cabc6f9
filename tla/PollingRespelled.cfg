SPECIFICATION FairSpec
CONSTANTS
  h1 = h1
  h2 = h2
  h3 = h3
  elsewhere = elsewhere
  Dest = {h1, h2, h3}
  Hosts <- TwoHosts
  Reported <- RespelledFirst
  Timeo = 1
  LoadBalance = FALSE
  MaxPolls = 1
  MaxDrift = 1
PROPERTY ConnectingEnds
