SPECIFICATION PluginsFairSpec
CONSTANTS
  e1 = e1
  n1 = n1
  n2 = n2
  l1 = l1
  Extensions = {e1}
  Natives = {n1, n2}
  Luas = {l1}
  Needs <- MCNeeds
  Nobody = Nobody
  MaxRebuilds = 1
  MaxEvents = 3
CHECK_DEADLOCK FALSE
INVARIANTS
  PluginsTypeOK
  CallbackInLoaded
  ExtensionsOutliveModules
  CataloguePublishedOnce
PROPERTIES
  EventsEnd
