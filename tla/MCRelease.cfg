\* Two commands at a time, two in all with two asset names; the target directory may be configured.
SPECIFICATION Spec
CONSTANTS
  p1 = p1
  hyphen = hyphen
  underscore = underscore
  payload = payload
  other = other
  Projects = {p1}
  Names = {hyphen, underscore, payload, other}
  Payload = payload
  NoName = NoName
  Underscored <- MCUnderscored
  Layouts <- MCConfiguredLayouts
  MaxCode = 1
  Commands = {c1, c2}
  Keys = {k1}
  BadKey = BadKey
  DefaultAsset = DefaultAsset
  AssetNames = {fixed}
  BadAsset = BadAsset
  Compatible <- MCCompatible
  Torn = Torn
  MaxStarts = 2
CHECK_DEADLOCK FALSE
SYMMETRY MCSymmetry
INVARIANTS LockVouches LockAfterArchive SettledIsConsistent PayloadNotOlder
