SPECIFICATION Spec
CONSTANTS
  Monitor = Monitor
  PluginA = PluginA
  PluginB = PluginB
  NoClient = NoClient
  Clients <- MCClients
  Internal <- MCInternal
  Stalled <- MCNobody
  Messages <- MCMessages
  FilterLists <- MCFilterLists
SYMMETRY MCSymmetry
INVARIANTS TypeOK ActiveCountExact NoCallIntoDestroyed
PROPERTIES MapStableWhileBroadcasting ImplementsBus
