SPECIFICATION FairSpec
CONSTANTS
  p1 = p1
  p2 = p2
  tool = tool
  other = other
  v1 = v1
  cmd = cmd
  mine = mine
  theirs = theirs
  first = first
  republished = republished
  rival = rival
  Proc = {p1, p2}
  NoProc = NoProc
  NoReq = NoReq
  NoVersion = NoVersion
  NoId = NoId
  FreshHome = TRUE
  Line <- MCLine
  Version = {v1}
  Command = {cmd}
  Product = {mine, theirs}
  CommandOf <- MCCommandOf
  ProductOf <- MCProductOf
  Release = {first, republished}
  App <- MCApp
  Req <- MCReqExact
PROPERTIES PinHeld RefinesRegistry LockReleased
