SPECIFICATION FairSpec
CONSTANTS
  h1 = h1
  h2 = h2
  h3 = h3
  elsewhere = elsewhere
  Dest = {h1, h2, h3}
  Hosts <- ThreeHosts
  Reported <- Faithful
  Timeo = 2
  LoadBalance = TRUE
  MaxPolls = 1
  MaxDrift = 1
INVARIANT TotalWaitBounded
INVARIANT WaitsOnLiveSocket
INVARIANT GivenUpAfterAllHosts
INVARIANT TimedOutNotRetried
PROPERTY ConnectingEnds
