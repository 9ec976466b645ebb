SPECIFICATION Spec
CONSTANTS
  series = series
  exact = exact
  tool = tool
  ga = ga
  patch = patch
  external = external
  dist = dist
  java = java
  gradle = gradle
  NoId = NoId
  Key = {java, gradle}
  Managed = {ga, patch, dist}
  Req <- MCReq
  Id <- MCId
  Accepts <- MCAccepts
  Removes <- MCRemoves
  ExactOf <- MCExactOf
  KeyOf <- MCKeyOf
  Rank <- MCRank
INVARIANTS RegistryReadable
PROPERTIES UninstallKeepsDefaults
