SPECIFICATION Spec
CONSTANTS
  k1 = k1
  k2 = k2
  k3 = k3
  PluginA = PluginA
  PluginB = PluginB
  fd1 = fd1
  fd2 = fd2
  None = None
  Conns <- MCConns
  Names <- MCNames
  PluginName <- MCPluginName
  Fds <- MCFds
  DbFails = TRUE
CHECK_DEADLOCK FALSE
SYMMETRY MCSymmetry
INVARIANTS TypeOK NameHeldOnce NamesGivenBack NothingLeftBehind SocketStaysOwn
