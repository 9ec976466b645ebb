SPECIFICATION Spec
CONSTANTS
  Parts = {"project"}
  Proc = {"p", "q"}
  Family = {"java", "gradle"}
  Id = {"jdkA", "gradleA"}
  FamilyOf <- MCFamilyOf
  NoTarget = "none"
  Version = {"full", "short", "long"}
  Size <- MCSize
  Chunk = 3
  Limit = 8
  Entry = {"mime", "type", "open"}
  Options = {"one", "two"}
  Generated = {"m1", "m2", "t1", "o1"}
  Plan <- MCPlan
  Foreign = "foreign"
  NoProc = "nobody"
  MaxEdits = 2
  MaxRecord = 3
  Order <- MCOrder
  Core = "modules"
  MaxGeneration = 2
  Jvm = {"q"}
  Key = {"url", "maven", "mirror"}
  Content = {"jar", "other"}
  NoContent = "none"
  Pin <- MCPin
  Decays = 1
PROPERTIES OthersPreserved
