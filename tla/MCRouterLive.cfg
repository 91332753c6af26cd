SPECIFICATION FairSpec
CONSTANTS
  Monitor = Monitor
  PluginA = PluginA
  PluginB = PluginB
  NoClient = NoClient
  Clients <- MCClients
  Internal <- MCInternal
  Stalled <- MCStalled
  Messages <- MCOneMessage
  FilterLists <- MCOneFilterList
PROPERTIES MapLockReleased BroadcastReturns
