SPECIFICATION Spec
CONSTANTS
  p1 = p1
  p2 = p2
  tool = tool
  other = other
  v1 = v1
  cmd = cmd
  mine = mine
  theirs = theirs
  first = first
  republished = republished
  rival = rival
  Proc = {p1, p2}
  NoProc = NoProc
  NoReq = NoReq
  NoVersion = NoVersion
  NoId = NoId
  FreshHome = FALSE
  Line <- MCLine
  Version = {v1}
  Command = {cmd}
  Product = {mine, theirs}
  CommandOf <- MCCommandOf
  ProductOf <- MCProductOf
  Release = {first, rival}
  App <- MCApp
  Req <- MCReq
SYMMETRY Symmetry
INVARIANTS RegistryNamesArtifacts
PROPERTIES RunningKept CommandOwnerKept
