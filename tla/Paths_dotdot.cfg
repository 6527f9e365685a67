SPECIFICATION PathsSpec
CONSTANTS
  Names = {"a", "b"}
  BufSize = 10
  MaxDepth = 9
PROPERTY NormalizeKeepsMeaning
