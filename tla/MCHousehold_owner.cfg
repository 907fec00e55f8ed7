SPECIFICATION Spec
CONSTANTS
  t1 = t1
  t2 = t2
  c1 = c1
  d1 = d1
  g3 = g3
  m1 = m1
  m2 = m2
  Checks = {k1, k2}
  Answers = {w1, w2}
  Deltas = {0, 45}
  Devices = {d1, d2, d3}
  Challenges = {h1}
  KnownMax = 2
  MaxCheck = 2
  MaxTick = 1
  Logins = {s1, s2, s3}
  MaxAttempts = 2
  MaxCrash = 1
  Rules = {r1}
  Invites = {i1, i2}
  Visitors = {v1, v2}
  Openers = {q1, q2}
  Scopes <- MScopes
  Knowledge <- MKnowledge
  All = All
  NoCategory = NoCategory
  MaxUses = 2
  AccessStarts <- MAccessStarts
  Activators = {a1}
  Pass = Pass
  Days = 1
  MaxDay = 3
  MaxConfigure = 2
  Tabs = {g1, g3}
  Browsers = {m1, m2}
  BrowserOf <- MBrowserOf
  Ttl = 2
  MaxToday = 4
  MaxSignIn = 2
  MaxDeath = 1
  Requests = {x1, x2}
  BackupCodes = {y1, y2}
  MaxSetup = 2
  MaxVerify = 3
  MaxDisable = 1
  Exported = {e1, e2}
  Downloads = {w3, w4}
  Sealed = TRUE
  MaxAsk = 4
  MaxDrop = 2
  Messages = {p1, p2}
  Relatives = {f1}
  Attempts = 2
  SessionTtl = 2
  ExchangeStarts <- MExchangeStarts
  MaxAudio = 1
  MaxRecordings = 2
  MaxWire = 3
  CallStarts <- MCallStarts
INVARIANTS ScoreBacked AttemptsBounded CounterExpires AccessSound ActivatedUntouched SlotExplained FactorSound ExportsSound ExchangeSound CallsSound
PROPERTIES ActivationKept
CHECK_DEADLOCK FALSE
