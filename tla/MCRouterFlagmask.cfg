SPECIFICATION Spec
CONSTANTS
  Monitor = Monitor
  PluginA = PluginA
  PluginB = PluginB
  NoClient = NoClient
  Clients <- MCClients
  Internal <- MCInternal
  Stalled <- MCNobody
  Messages <- MCMessages
  FilterLists <- MCAllFilterLists
INVARIANT FlagmaskOrsFlags
