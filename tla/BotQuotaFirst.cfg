\* The system comes to rest once every request is answered.
CHECK_DEADLOCK FALSE
SPECIFICATION Spec
CONSTANTS
  r1 = r1
  r2 = r2
  r3 = r3
  Requests = {r1, r2}
  Plans = {"free", "pro"}
  FreePlan = "free"
  BotsMax <- SmallMax
  UnlimitedPlans = {}
  NoPlan = NoPlan
  FirstPlans <- FreeOrNone
  NoRequest = NoRequest
INVARIANTS
  LimitHolds
