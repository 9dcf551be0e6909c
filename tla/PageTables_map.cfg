SPECIFICATION Spec
CONSTANTS
  Index <- MCIndex
  Window <- MCWindow
  Frame = {0, 1}
  PoolSize = 7
  Image <- MCImage
CHECK_DEADLOCK FALSE
INVARIANTS TablesFormATree
PROPERTIES ImplementsPageMap
