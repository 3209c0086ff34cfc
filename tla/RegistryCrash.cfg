SPECIFICATION AuthSpec
CONSTANTS
  Actors = {a1}
  Plugins = {p1, p2}
  Crashes = TRUE
  Fields = {token, url}
  Required = {token}
INVARIANT TypeOK
INVARIANT ConnectedIsStored
PROPERTY RecordedWhenBuilt
PROPERTY ImplementsInstalledPlugins
