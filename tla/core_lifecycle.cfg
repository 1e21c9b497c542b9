CONSTANTS
  Intents = {i1}
  h1 = h1
  h2 = h2
  Handlers <- MCHandlers
  Consumer = consumer
  NoIntent = NoIntent
  approve1 = approve1
  approve2 = approve2
  review = review
  reject = reject
  Evaluations <- MCEvaluations
  Decision <- MCDecision
  PatchTargets = {"UNDER_REVIEW", "APPROVED", "REJECTED", "EXPIRED", "CANCELLED"}
  MaxAnswers = 2
SPECIFICATION Spec
SYMMETRY Symmetry
INVARIANTS
  TypeOK
  NoSilentResolution
  ResolutionMatchesDecision
  PublishedOnlyAfterReview
PROPERTIES
  ClosedIsFinal
  ImplementsLifecycle
  ImplementsSerialWrites
  LostOnlyToPatch
CHECK_DEADLOCK FALSE
