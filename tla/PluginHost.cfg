SPECIFICATION Spec
CONSTANTS
  first = first
  second = second
  old = old
  new = new
  Installers <- TwoInstallers
  Shipped = "shipped"
  Versions <- TwoVersions
  Absent = Absent
  Nobody = Nobody
  MaxCrashes = 1
  MaxRefusals = 1
  Limit = 2
  MaxStarts = 3
  MaxClock = 1
INVARIANTS ActivationIsTransactional NeverTheCodeOfAnother
PROPERTY JobsKept
SYMMETRY Alike
