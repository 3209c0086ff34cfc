SPECIFICATION Spec
CONSTANTS
  Actors = {a1, a2}
  Plugins = {p1}
  Crashes = TRUE
PROPERTIES NeverRepaired
