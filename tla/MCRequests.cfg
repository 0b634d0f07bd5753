\* Three requests with one key; two finalizers and a deletion; two runs of the agent.
SPECIFICATION Spec
CONSTANTS
  r1 = r1
  r2 = r2
  r3 = r3
  k1 = k1
  Requests = {r1, r2, r3}
  Keys = {k1}
  KeyOf <- MCKeyOf
  Bodies = {"now", "later"}
  BodyOf <- MCBodyOf
  Immediate = {"now"}
  Calls = {call1}
  QuotaLimit = 1
  Assets = {a1, a2}
  Finalizers = {f1, f2}
  Deleters = {d1}
  LastRun = 2
  UseCore = TRUE
INVARIANTS RequestsTypeOK OnePostPerKey AnswersAreTrue  UploadIsWhole RunIsTakenOnce RunIsClosedOnce
PROPERTIES KeepsKeyContract KeyIsFreed  AbandonedIsReaped RunEnds
CHECK_DEADLOCK FALSE
