SPECIFICATION Spec
CONSTANTS
  t1 = t1
  t2 = t2
  u1 = u1
  u2 = u2
  p1 = p1
  p2 = p2
  p3 = p3
  p4 = p4
  p5 = p5
  p6 = p6
  n1 = n1
  n2 = n2
  n3 = n3
  ty1 = ty1
  ty2 = ty2
  ca1 = ca1
  w1 = w1
  w2 = w2
  a1 = a1
  b1 = b1
  B1 = B1
  g1 = g1
  g2 = g2
  Queries = {q1, q2}
  Costs = {1, 2}
  Limits = {0, 2}
  Month = 2
  MaxHour = 4
  MaxQuery = 2
  MaxEdit = 1
  MaxRestart = 1
  Monitors = {m1}
  Pollers = {k1, k2}
  MaxVersion = 2
  BrowsingStarts <- MBrowsingStarts
  Learners = {o1, o2}
  Topics = {t1, t2}
  PrefStarts <- MPrefStarts
  AutoLists <- MAutoLists
  Gaps <- MGaps
  MaxTopics = 1
  LearnStarts <- MLearnStarts
  Loops = 3
  Restarts = {r1, r2}
  MaxGeneration = 4
  Uploads = {u1, u2}
  Clients = {c1, c2}
  Removals = {e1, e2}
  Chunks <- MChunks
  IngestStarts <- MIngestStarts
  Points = {p1, p2, p3, p4, p5, p6}
  Probes = {w1, w2}
  Anything = Anything
  Uncategorised = Uncategorised
  TopK = 2
  OverFetch = 2
  MinRelevant = 2
  EntryOf <- MEntryOf
  TypeOf <- MTypeOf
  CategoryOf <- MCategoryOf
  Scopings <- MScopings
  Closenesses <- MClosenesses
  RetrievalStarts <- MRetrievalStarts
  Talks = {1, 2}
  Turns = {1, 2}
  Facts = {1, 2, 3}
  Translated = {1, 2}
  MaxPairs = 4
  FactLimit = 2
  PerSource = 1
  Share = 2
  SampleCap = 2
  TrainingStarts <- MTrainingStarts
  Owners = {1, 2, 3}
  Addresses = {a1, b1, B1}
  Googles = {g1, g2}
  Calls = {r1, r2}
  NoGoogle = NoGoogle
  Lower <- MLower
  MailOf <- MMailOf
  AccountStarts <- MAccountStarts
  Members = {o1, o2}
  Endpoints = {e1, e2}
  Asks = {r1, r2}
  Caster = caster
  PushStarts <- MPushStarts
  Texts = {x1}
  Tongues = {en, fr}
  Target = en
  Untranslated = Untranslated
  Translators = {r1, r2}
  External = TRUE
  CacheTtl = 2
  Forever = 3
  TranslationStarts <- MTranslationStarts
INVARIANTS BudgetSound ChangesReported LoopsRun StoresAgree RetrievalSound TrainingSound AccountsSound PushSound
  TranslationSound
PROPERTIES PausesKept DeletedStays WantedIsTried RestartEnds UploadIsKept
CHECK_DEADLOCK FALSE
