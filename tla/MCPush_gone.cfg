SPECIFICATION PushSpec
CONSTANTS
  Members = {o1, o2}
  Endpoints = {e1, e2}
  Asks = {r1, r2}
  Caster = caster
  PushStarts <- MPushStarts
PROPERTY GonePruned
CHECK_DEADLOCK FALSE
