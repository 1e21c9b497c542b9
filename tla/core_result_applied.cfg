CONSTANTS
  Intents = {i1}
  h1 = h1
  h2 = h2
  Handlers <- MCHandlers
  Consumer = consumer
  NoIntent = NoIntent
  approve1 = approve1
  approve2 = approve2
  review = review
  reject = reject
  Evaluations <- MCEvaluations
  Decision <- MCDecision
  PatchTargets = {"EXPIRED"}
  MaxAnswers = 1
SPECIFICATION Spec
INVARIANT
  ConsumedResultIsApplied
CHECK_DEADLOCK FALSE
