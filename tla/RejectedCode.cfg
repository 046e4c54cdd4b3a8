SPECIFICATION Spec
CONSTANTS
  first = first
  second = second
  old = old
  new = new
  Installers <- TwoInstallers
  Shipped = "shipped"
  Versions <- TwoVersions
  Absent = Absent
  Nobody = Nobody
  MaxCrashes = 0
  MaxRefusals = 0
  Limit = 2
  MaxStarts = 0
  MaxClock = 0
INVARIANT CurrentRunsTheInstalled
SYMMETRY Alike
