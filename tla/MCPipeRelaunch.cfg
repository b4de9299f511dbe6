CONSTANTS
  Clients = {c1}
  Instances = {i1, i2}
  MaxFrame = 3
  Parts = 2
  MaxLaunch = 2
  Nobody = Nobody
  Stopper = Stopper
  Producer = Producer
SYMMETRY Symmetry
SPECIFICATION Spec
INVARIANTS IInv
PROPERTIES NeverBack ImplementsRegister ImplementsLink
