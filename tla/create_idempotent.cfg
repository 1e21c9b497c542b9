\* A first request, its retry and a second retry or a request of another key;
\* two references, so that two keys may clash on one.
CONSTANTS
  Requests = {p1, p2, p3}
  Keys = {k1, k2}
  Refs = {r1, r2}
  Intents = {i1, i2, i3}
  NoOne = NoOne
  NoIntent = NoIntent
  NoKey = NoKey
  NoRef = NoRef
SPECIFICATION Spec
SYMMETRY CreateSymmetry
INVARIANTS
  TypeOK
  ConflictIsNeverARetry
  PublishedAtMostOnce
PROPERTIES
  ReleaseFreesOnlyItsOwn
  ImplementsOnce
CHECK_DEADLOCK FALSE
