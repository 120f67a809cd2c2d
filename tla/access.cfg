SPECIFICATION AccessSpec
CONSTANTS
  k1 = k1
  k2 = k2
  k3 = k3
  k4 = k4
  a1 = a1
  a2 = a2
  t1 = t1
  t2 = t2
  i1 = i1
  i2 = i2
  Instances = {i1, i2}
  Takers = {t1, t2}
  Operator = Operator
  Tests = {test}
  Attempts = {a1, a2}
  Secrets = {k1, k2, k3, k4}
  NoSecret = NoSecret
  Absent = Absent
  Torn = Torn
  FirstFiles <- MCFirstFiles
  Overrides = {"none", "token"}
  Asked <- MCAsked
  DefaultTTL = 3
  MaxTime = 3
  MaxInvites = 1
SYMMETRY Symmetry
INVARIANTS TakersKeepToTheirOwn TokensVerifyEverywhere
CHECK_DEADLOCK FALSE
