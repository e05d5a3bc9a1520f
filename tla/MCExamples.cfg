CONSTANTS
  Callers = {t1, t2}
  Pids = {p1, p2, p3}
  NULL = NULL
  Data = {d1, d2, d3}
  Mutexes = {m1, m2}
  Unlocked = Unlocked
SPECIFICATION MCSpec
INVARIANTS TypeOK WaitFindsAChild NothingLeftBehind VerdictsAddUp ThreadTypeOK SuccessIsTrue
PROPERTIES OwnVerdict CallsReturn ThreadsEnd
