SPECIFICATION Spec
CONSTANTS
  Index = {"users", "projects"}
  Builds = {"b1", "b2"}
  Ops = {"a", "b"}
  Manifests <- MCManifests
  Timeout = 1
  TTL = 2
CHECK_DEADLOCK FALSE
INVARIANT TypeOK
INVARIANT LoneBuildStored
INVARIANT AnsweredFromIndex
INVARIANT ServedAsDeclared
INVARIANT DeclaredIsServed
