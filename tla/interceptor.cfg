SPECIFICATION Spec
CONSTANTS
  k1 = k1  k2 = k2
  Keys = {k1, k2}  RequestIDs = {"q1"}
  AccountPlans = {"pro"}  EventPlans = {"", "team"}  AnswerPlans = {"", "team"}
  MaxTries = 2  MaxVersions = 2
SYMMETRY KeySymmetry
INVARIANTS TypeOK VerifiedOnly RefutationsRevoke CompletedLeavesNothing
