SPECIFICATION Spec
CONSTANTS
  p1 = p1
  p2 = p2
  series = series
  exact = exact
  ga = ga
  patch = patch
  external = external
  slot = slot
  Proc = {p1, p2}
  NoProc = NoProc
  NoReq = NoReq
  NoId = NoId
  FreshHome = FALSE
  Id = {ga, patch}
  Managed = {ga, patch}
  Key = {slot}
  Req <- MCReq
  Accepts <- MCAccepts
  Removes <- MCRemoves
  ExactOf <- MCExactOf
  KeyOf <- MCKeyOf
  Rank <- MCRank
PROPERTIES PinHeld
