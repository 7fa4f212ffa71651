\* One command at a time; the package of the project is renamed.
SPECIFICATION Spec
CONSTANTS
  p1 = p1
  hyphen = hyphen
  underscore = underscore
  payload = payload
  other = other
  Projects = {p1}
  Names = {hyphen, underscore, payload, other}
  Payload = payload
  NoName = NoName
  Underscored <- MCUnderscored
  Layouts <- MCRenamedLayouts
  MaxCode = 1
  Commands = {c1}
  Keys = {k1}
  BadKey = BadKey
  DefaultAsset = DefaultAsset
  AssetNames = {}
  BadAsset = BadAsset
  Compatible <- MCCompatible
  Torn = Torn
  MaxStarts = 2
CHECK_DEADLOCK FALSE
INVARIANT PayloadNotOlder
