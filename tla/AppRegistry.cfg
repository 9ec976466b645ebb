SPECIFICATION Spec
CONSTANTS
  tool = tool
  toolAll = toolAll
  other = other
  v1 = v1
  v2 = v2
  cmd = cmd
  mine = mine
  theirs = theirs
  first = first
  second = second
  republished = republished
  bundle = bundle
  rival = rival
  NoVersion = NoVersion
  NoId = NoId
  Line <- MCLine
  Version = {v1, v2}
  Command = {cmd}
  Product = {mine, theirs}
  CommandOf <- MCCommandOf
  ProductOf <- MCProductOf
  Release = {first, second, bundle, rival}
  App <- MCApp
  Req <- MCReq
INVARIANTS RegistryReadable
PROPERTIES UninstallNeverSwitches InstallKeepsCommands
