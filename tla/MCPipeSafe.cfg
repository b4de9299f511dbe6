CONSTANTS
  Clients = {c1, c2}
  Instances = {i1, i2}
  MaxFrame = 2
  Parts = 1
  MaxLaunch = 1
  Nobody = Nobody
  Stopper = Stopper
  Producer = Producer
SYMMETRY Symmetry
SPECIFICATION Spec
INVARIANTS NoTornFrame InStep Fresh HandlesOwned ClientCountExact StoppedMeansDeaf SomebodyAnswers
