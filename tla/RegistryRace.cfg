SPECIFICATION Spec
CONSTANTS
  Actors = {a1, a2}
  Plugins = {p1, p2}
  Crashes = FALSE
PROPERTIES ImplementsInstalledPlugins
