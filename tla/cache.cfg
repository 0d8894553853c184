SPECIFICATION Spec
CONSTANTS
  Keys = {1, 2, 3, 4}  RequestIDs = {1, 2}  VerifiedKeys = {4}
  AcceptedClasses = {"s292", "s332"}
  MaxEntries = 2  MaxPendingEntries = 1
  StateTTL = 2  PendingTTL = 2  MaxTries <- MCMaxTries  MaxTime = 2
  Answers <- MCAnswers
INVARIANTS TypeOK CacheBounded LatestAttemptOwnKey
PROPERTIES CompletedStaysOut FixedLifetime OldestEvicted
