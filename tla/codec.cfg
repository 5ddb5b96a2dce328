SPECIFICATION Spec
CONSTANTS
  attr1 = attr1
  attr2 = attr2
  cols = cols
  id1 = id1
  id2 = id2
  Values <- MCValues
  Namespace <- MCNamespace
  Weight <- MCWeight
  Definable <- MCDefinable
  Dicts = {attr1, attr2}
  Records <- MCRecords
  RefCost = 1
  DefCost = 1
  LiteralCost = 1
  MarkCost = 1
  MaxDefinitions = 3
  MaxDictionary = 8
  MaxRecord = 11
  ChunkLimit = 19
  MemberLimit = 16
  DecodedLimit = 25
  SourceLimit = 28
  MaxDamage = 1
CHECK_DEADLOCK FALSE
INVARIANTS TypeOK Faithful RejectsNeedDamage
