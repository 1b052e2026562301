CONSTANTS
  Files = {f1, f2}
  SettingsFile = f1
  Profiles = {p1, p2}
  Hosts = {h1}
  UserValues = {u1}
  Default = Default
  Missing = Missing
  Torn = Torn
  None = None
  MaxCrashes = 1
SPECIFICATION Spec
INVARIANTS ReferencesExist SessionRestores UserValueOnDisk
SYMMETRY ProfileSymmetry
