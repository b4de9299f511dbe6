CONSTANTS
  Clients = {c1}
  Instances = {i1, i2}
  MaxFrame = 1
  Parts = 1
  MaxLaunch = 1
  Nobody = Nobody
  Stopper = Stopper
  Producer = Producer
SPECIFICATION FairSpec
PROPERTIES StopReturns
