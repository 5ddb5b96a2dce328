\* Every input of a small set for every function.
SPECIFICATION Spec
CONSTANTS
  Timeout = 3
  Limit = 2
  MaxWait = 1
  MaxRows = 3
  MaxColumns = 3
  MaxDepth = 2
  RejectedTable = RejectedTable
  Width = 3
  MaxPairs = 3
  MaxIoRows = 3
  Worth = 2
  RejectedField = RejectedField
  MetadataKeys = {"id", "name", "image"}
  PayloadMax = 4
  ExpandedMax = 8
  MemberMax = 3
  MembersMax = 4
  UnsafeNames = {"../a"}
  RejectedBundle = RejectedBundle
  PartBytes = 2
  MaxParts = 2
  Contents <- MCContents
  Missing = Missing
  RejectedRestore = RejectedRestore
  Tolerance = 2
  MaxGroups = 1
  MaxOccurrences = 3
INVARIANTS
  CutsAreTold
  PackingIsExact
  BundlesRestore
  ReportInventsNothing
