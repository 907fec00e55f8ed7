-------------------------- MODULE KnowledgeProofs ---------------------------
(***************************************************************************)
(* What translations, the knowledge store, the search over it and the      *)
(* training data made of it promise, for every number of texts, uploads,   *)
(* requests, sources and exchanges.                                        *)
(***************************************************************************)
EXTENDS Translation, Ingestion, Retrieval, Training, FiniteSetTheorems, SequenceTheorems,
        WellFoundedInduction, TLAPS

-----------------------------------------------------------------------------
(* Translation: TranslationSound for every number of texts, languages and  *)
(* requests and every lifetime of the cache. It speaks of requests that    *)
(* were answered; what makes it inductive is what it takes for granted of  *)
(* the cache (CacheExplained: an entry that holds the text itself goes     *)
(* back to a blank answer, and expires CacheTtl after it) and of a request *)
(* under way (Underway: it stores what it was answered, under its own      *)
(* key).                                                                   *)

Answers == Keys \cup {Untranslated}
AnyKey == Keys \cup {<<>>}
JobPcs == {"none", "lookup", "external", "model", "store", "answered", "failed"}
Inquiries == [pc : JobPcs, key : AnyKey, answer : Answers, at : Int]

TranslationType ==
  /\ today \in Nat /\ blanks \subseteq Keys \X Nat
  /\ cached \in [Keys -> [value : Answers, until : Int]]
  /\ request \in [Translators -> Inquiries]

\* The blank answers that account for the text itself being answered until then.
BlankExplains(k, until) == \E b \in blanks : b[1] = k /\ until <= b[2] + CacheTtl

CacheExplained ==
  \A k \in Keys :
    \/ cached[k].value = k
    \/ cached[k].value = Untranslated /\ (cached[k].until = 0 \/ BlankExplains(k, cached[k].until))

Underway ==
  \A r \in Translators :
    /\ request[r].pc # "none" => KeyOf(r) \in Keys
    /\ request[r].pc = "store" => request[r].answer \in {KeyOf(r), Untranslated}

TranslationInv == TranslationType /\ CacheExplained /\ Underway /\ TranslationSound

-----------------------------------------------------------------------------
LEMMA TranslationInitial == TranslationInit => TranslationInv
<1> SUFFICES ASSUME TranslationInit PROVE TranslationInv
  OBVIOUS
<1>1. TranslationType
  BY DEF TranslationInit, TranslationType, Nobody, NoJob, Inquiries, JobPcs, AnyKey, Answers
<1>2. CacheExplained
  BY DEF TranslationInit, CacheExplained, Nobody
<1>3. Underway
  BY DEF TranslationInit, Underway, NoJob
<1>4. TranslationSound
  BY DEF TranslationInit, TranslationSound, NoJob
<1> QED
  BY <1>1, <1>2, <1>3, <1>4 DEF TranslationInv

LEMMA KeysAre == Keys \subseteq AnyKey /\ Keys \subseteq Answers /\ Untranslated \in Answers
BY DEF AnyKey, Answers

\* A key is a text and a language: the second part of it is what the request was given.
LEMMA KeyParts ==
  ASSUME NEW text \in Texts, NEW tongue \in Tongues
  PROVE  <<text, tongue>> \in Keys /\ <<text, tongue>>[2] = tongue
BY DEF Keys

\* A request that goes on changes as Proceeds says, and no other does.
LEMMA Turning ==
  ASSUME TranslationType, NEW r \in Translators, NEW pc \in JobPcs, NEW answer \in Answers,
         KeyOf(r) \in AnyKey, Proceeds(r, pc, answer)
  PROVE  /\ request' \in [Translators -> Inquiries]
         /\ request'[r].pc = pc /\ request'[r].answer = answer /\ request'[r].at = today
         /\ request'[r].key = request[r].key
         /\ \A s \in Translators \ {r} : request'[s] = request[s]
<1> DEFINE inquiry == [pc |-> pc, key |-> KeyOf(r), answer |-> answer, at |-> today]
<1>1. request' = [request EXCEPT ![r] = inquiry]
  BY DEF Proceeds
<1>2. inquiry \in Inquiries
  BY DEF Inquiries, TranslationType
<1>3. request'[r] = inquiry
  BY <1>1 DEF TranslationType
<1> HIDE DEF inquiry
<1>4. /\ request' \in [Translators -> Inquiries]
      /\ \A s \in Translators \ {r} : request'[s] = request[s]
  BY <1>1, <1>2 DEF TranslationType
<1> QED
  BY <1>3, <1>4 DEF inquiry, KeyOf

\* A request that was asked goes on, with an answer that is stored under its own key.
Acts(r) ==
  \/ LookUpCache(r) \/ MissCache(r) \/ TranslateExternally(r) \/ TranslateByModel(r)
  \/ ModelRaises(r) \/ StoreTranslation(r) \/ KeepUnstored(r)

LEMMA Acting ==
  ASSUME TranslationType, Underway, NEW r \in Translators, Acts(r)
  PROVE  /\ KeyOf(r) \in Keys
         /\ \E pc \in JobPcs, answer \in Answers :
              /\ Proceeds(r, pc, answer) /\ pc # "none"
              /\ pc = "store" => answer \in {KeyOf(r), Untranslated}
<1> DEFINE Goal == \E pc \in JobPcs, answer \in Answers :
                     /\ Proceeds(r, pc, answer) /\ pc # "none"
                     /\ pc = "store" => answer \in {KeyOf(r), Untranslated}
<1>1. request[r].pc # "none"
  BY DEF Acts, LookUpCache, MissCache, TranslateExternally, TranslateByModel, ModelRaises,
         StoreTranslation, KeepUnstored
<1>2. KeyOf(r) \in Keys
  BY <1>1 DEF Underway
<1>3. Miss \in {"external", "model"}
  BY DEF Miss
<1> USE DEF JobPcs
<1>4. CASE LookUpCache(r)
  <2>1. cached[KeyOf(r)].value \in Answers
    BY <1>2 DEF TranslationType
  <2>2. CASE Proceeds(r, "answered", cached[KeyOf(r)].value)
    BY <1>2, <2>1, <2>2
  <2>3. CASE Proceeds(r, Miss, Untranslated)
    BY <1>2, <1>3, <2>3, KeysAre
  <2> QED
    BY <1>4, <2>2, <2>3 DEF LookUpCache
<1>5. CASE MissCache(r)
  BY <1>2, <1>3, <1>5, KeysAre DEF MissCache
<1>6. CASE TranslateExternally(r)
  BY <1>2, <1>6, KeysAre DEF TranslateExternally
<1>7. CASE TranslateByModel(r)
  BY <1>2, <1>7, KeysAre DEF TranslateByModel
<1>8. CASE ModelRaises(r)
  BY <1>2, <1>8, KeysAre DEF ModelRaises
<1>9. CASE StoreTranslation(r) \/ KeepUnstored(r)
  <2>1. request[r].answer \in Answers
    BY DEF TranslationType, Inquiries
  <2>2. Proceeds(r, "answered", request[r].answer)
    BY <1>9 DEF StoreTranslation, KeepUnstored
  <2> QED
    BY <1>2, <2>1, <2>2
<1>10. Goal
  BY <1>4, <1>5, <1>6, <1>7, <1>8, <1>9 DEF Acts
<1> QED
  BY <1>2, <1>10

\* What asking for a translation does to the request.
LEMMA NewRequest ==
  ASSUME TranslationType, NEW r \in Translators, NEW text \in Texts, NEW tongue \in Tongues,
         AskTranslation(r, text, tongue)
  PROVE  /\ request' \in [Translators -> Inquiries]
         /\ request'[r].pc = IF tongue = Target THEN "answered" ELSE "lookup"
         /\ request'[r].answer = Untranslated /\ request'[r].key = <<text, tongue>>
         /\ \A s \in Translators \ {r} : request'[s] = request[s]
<1> DEFINE inquiry == [pc |-> IF tongue = Target THEN "answered" ELSE "lookup",
                   key |-> <<text, tongue>>, answer |-> Untranslated, at |-> today]
<1>1. request' = [request EXCEPT ![r] = inquiry]
  BY DEF AskTranslation
<1>2. inquiry \in Inquiries
  BY KeysAre, KeyParts DEF Inquiries, JobPcs, TranslationType
<1>3. request'[r] = inquiry
  BY <1>1 DEF TranslationType
<1> HIDE DEF inquiry
<1>4. /\ request' \in [Translators -> Inquiries]
      /\ \A s \in Translators \ {r} : request'[s] = request[s]
  BY <1>1, <1>2 DEF TranslationType
<1> QED
  BY <1>3, <1>4 DEF inquiry

\* A step is the clock, or one request's.
LEMMA Stepping ==
  ASSUME [TranslationNext]_translationVars
  PROVE  \/ \E r \in Translators, text \in Texts, tongue \in Tongues : AskTranslation(r, text, tongue)
         \/ \E r \in Translators : Acts(r)
         \/ DayPasses
         \/ UNCHANGED translationVars
BY DEF TranslationNext, Acts

LEMMA TranslationTyped ==
  TranslationType /\ Underway /\ [TranslationNext]_translationVars => TranslationType'
<1> SUFFICES ASSUME TranslationType, Underway, [TranslationNext]_translationVars
             PROVE TranslationType'
  OBVIOUS
<1>1. ASSUME NEW r \in Translators, NEW text \in Texts, NEW tongue \in Tongues,
             AskTranslation(r, text, tongue)
      PROVE  TranslationType'
  BY <1>1, NewRequest DEF AskTranslation, TranslationType
<1>2. ASSUME NEW r \in Translators, Acts(r) PROVE TranslationType'
  <2>1. KeyOf(r) \in Keys /\ request' \in [Translators -> Inquiries]
    BY <1>2, Acting, Turning, KeysAre
  <2>2. today' = today /\ blanks' \subseteq Keys \X Nat
    BY <1>2, <2>1
       DEF TranslationType, NoteBlank, Acts, LookUpCache, MissCache, TranslateExternally,
           TranslateByModel, ModelRaises, StoreTranslation, KeepUnstored
  <2>3. request[r].answer \in Answers /\ today + CacheTtl \in Int
    BY TranslationAssumption DEF TranslationType, Inquiries
  <2>4. CASE UNCHANGED cached
    BY <2>1, <2>2, <2>4 DEF TranslationType
  <2>5. CASE cached' = [cached EXCEPT ![KeyOf(r)] = AfterHit(@)]
    BY <2>1, <2>2, <2>5 DEF TranslationType, AfterHit
  <2>6. CASE cached' = [cached EXCEPT ![KeyOf(r)] =
                          [value |-> request[r].answer, until |-> today + CacheTtl]]
    BY <2>1, <2>2, <2>3, <2>6 DEF TranslationType
  <2> QED
    BY <1>2, <2>4, <2>5, <2>6
       DEF Acts, LookUpCache, MissCache, TranslateExternally, TranslateByModel, ModelRaises,
           StoreTranslation, KeepUnstored
<1>3. CASE DayPasses
  BY <1>3 DEF DayPasses, TranslationType
<1>4. CASE UNCHANGED translationVars
  BY <1>4 DEF translationVars, TranslationType
<1> QED
  BY <1>1, <1>2, <1>3, <1>4, Stepping

\* Blank answers are never forgotten: what they account for they account for later.
LEMMA BlanksStay == TranslationType /\ [TranslationNext]_translationVars => blanks \subseteq blanks'
BY DEF TranslationNext, translationVars, AskTranslation, LookUpCache, MissCache,
       TranslateExternally, TranslateByModel, ModelRaises, StoreTranslation, KeepUnstored,
       NoteBlank, DayPasses

LEMMA CacheStaysExplained ==
  TranslationInv /\ [TranslationNext]_translationVars => CacheExplained'
<1> SUFFICES ASSUME TranslationInv, [TranslationNext]_translationVars, NEW k \in Keys
             PROVE  \/ cached'[k].value = k
                    \/ /\ cached'[k].value = Untranslated
                       /\ \/ cached'[k].until = 0
                          \/ \E b \in blanks' : b[1] = k /\ cached'[k].until <= b[2] + CacheTtl
  BY DEF CacheExplained, BlankExplains
<1>1. blanks \subseteq blanks'
  BY BlanksStay DEF TranslationInv
<1>2. CASE cached'[k] = cached[k]
  BY <1>1, <1>2 DEF TranslationInv, CacheExplained, BlankExplains
<1>3. ASSUME NEW r \in Translators, LookUpCache(r) PROVE cached'[k] = cached[k]
  <2>1. CASE UNCHANGED cached
    BY <2>1
  <2>2. CASE cached' = [cached EXCEPT ![KeyOf(r)] = AfterHit(@)]
    BY <2>2 DEF AfterHit, TranslationInv, TranslationType
  <2> QED
    BY <1>3, <2>1, <2>2 DEF LookUpCache
<1>4. ASSUME NEW r \in Translators, StoreTranslation(r), k = KeyOf(r)
      PROVE  \/ cached'[k].value = k
             \/ /\ cached'[k].value = Untranslated
                /\ \E b \in blanks' : b[1] = k /\ cached'[k].until <= b[2] + CacheTtl
  <2> DEFINE entry == [value |-> request[r].answer, until |-> today + CacheTtl]
  <2>1. cached'[k] = entry
    BY <1>4 DEF StoreTranslation, TranslationInv, TranslationType
  <2>2. request[r].answer \in {k, Untranslated}
    BY <1>4 DEF StoreTranslation, TranslationInv, Underway
  <2>3. CASE request[r].answer = Untranslated
    <3>1. <<k, today>> \in blanks'
      BY <1>4, <2>3 DEF StoreTranslation, NoteBlank
    <3>2. today + CacheTtl <= <<k, today>>[2] + CacheTtl
      BY TranslationAssumption DEF TranslationInv, TranslationType
    <3> QED
      BY <2>1, <2>3, <3>1, <3>2
  <2> QED
    BY <2>1, <2>2, <2>3
<1>5. ASSUME NEW r \in Translators, StoreTranslation(r), k # KeyOf(r)
      PROVE  cached'[k] = cached[k]
  BY <1>5 DEF StoreTranslation, TranslationInv, TranslationType
<1>6. CASE UNCHANGED cached
  BY <1>2, <1>6
<1> QED
  BY <1>2, <1>3, <1>4, <1>5, <1>6
     DEF TranslationNext, translationVars, AskTranslation, MissCache, TranslateExternally,
         TranslateByModel, ModelRaises, KeepUnstored, DayPasses

LEMMA UnderwayStays ==
  TranslationInv /\ [TranslationNext]_translationVars => Underway'
<1> SUFFICES ASSUME TranslationInv, [TranslationNext]_translationVars PROVE Underway'
  OBVIOUS
<1>0. TranslationType /\ Underway
  BY DEF TranslationInv
<1>1. ASSUME NEW r \in Translators, NEW text \in Texts, NEW tongue \in Tongues,
             AskTranslation(r, text, tongue)
      PROVE  Underway'
  <2>1. /\ request'[r].key = <<text, tongue>> /\ request'[r].pc # "store"
        /\ \A s \in Translators \ {r} : request'[s] = request[s]
    BY <1>0, <1>1, NewRequest
  <2>2. request'[r].key \in Keys
    BY <2>1, KeyParts
  <2> QED BY <1>0, <2>1, <2>2 DEF Underway, KeyOf
<1>2. ASSUME NEW r \in Translators, Acts(r) PROVE Underway'
  <2>1. PICK pc \in JobPcs, answer \in Answers :
          /\ Proceeds(r, pc, answer) /\ pc # "none"
          /\ pc = "store" => answer \in {KeyOf(r), Untranslated}
    BY <1>0, <1>2, Acting
  <2>2. KeyOf(r) \in Keys /\ KeyOf(r) \in AnyKey
    BY <1>0, <1>2, Acting, KeysAre
  <2>3. /\ request'[r].pc = pc /\ request'[r].answer = answer
        /\ request'[r].key = request[r].key
        /\ \A s \in Translators \ {r} : request'[s] = request[s]
    BY <1>0, <2>1, <2>2, Turning
  <2> QED BY <1>0, <2>1, <2>2, <2>3 DEF Underway, KeyOf
<1>3. CASE UNCHANGED request
  BY <1>0, <1>3 DEF Underway, KeyOf
<1> QED
  BY <1>1, <1>2, <1>3, Stepping DEF translationVars, DayPasses

\* What is said of one request that was answered.
AnswerOf(r) ==
  request[r].pc = "answered" =>
    \/ request[r].answer = KeyOf(r)
    \/ /\ request[r].answer = Untranslated
       /\ \/ KeyOf(r)[2] = Target
          \/ \E b \in blanks : b[1] = KeyOf(r) /\ request[r].at < b[2] + CacheTtl

LEMMA AnswersStaySound ==
  TranslationInv /\ [TranslationNext]_translationVars => TranslationSound'
<1> SUFFICES ASSUME TranslationInv, [TranslationNext]_translationVars, NEW s \in Translators
             PROVE  AnswerOf(s)'
  BY DEF TranslationSound, AnswerOf
<1>1. TranslationType /\ Underway /\ CacheExplained /\ AnswerOf(s)
  BY DEF TranslationInv, TranslationSound, AnswerOf
<1>2. blanks \subseteq blanks'
  BY <1>1, BlanksStay
<1>3. CASE request'[s] = request[s]
  BY <1>1, <1>2, <1>3 DEF AnswerOf, KeyOf
<1>4. ASSUME NEW text \in Texts, NEW tongue \in Tongues, AskTranslation(s, text, tongue)
      PROVE  AnswerOf(s)'
  BY <1>1, <1>4, NewRequest DEF AnswerOf, KeyOf
<1>5. ASSUME Acts(s) PROVE AnswerOf(s)'
  <2>1. KeyOf(s) \in Keys
    BY <1>1, <1>5, Acting
  <2>2. ASSUME NEW pc \in JobPcs, NEW answer \in Answers, Proceeds(s, pc, answer)
        PROVE  /\ request'[s].pc = pc /\ request'[s].answer = answer
               /\ request'[s].at = today /\ KeyOf(s)' = KeyOf(s)
    BY <1>1, <2>1, <2>2, KeysAre, Turning DEF KeyOf
  <2>3. ASSUME NEW pc \in JobPcs \ {"answered"}, NEW answer \in Answers, Proceeds(s, pc, answer)
        PROVE  AnswerOf(s)'
    BY <2>2, <2>3 DEF AnswerOf
  <2>4. CASE LookUpCache(s) /\ Hit(s)
    <3> DEFINE entry == cached[KeyOf(s)]
    <3>1. entry.value \in Answers /\ entry.until \in Int /\ today \in Nat
      BY <1>1, <2>1 DEF TranslationType
    <3>2. entry.until > today /\ entry.until # 0
      BY <2>4, <3>1 DEF Hit
    <3>3. /\ request'[s].answer = entry.value
          /\ request'[s].at = today /\ KeyOf(s)' = KeyOf(s)
      BY <2>2, <2>4, <3>1 DEF LookUpCache, JobPcs
    <3>4. \/ entry.value = KeyOf(s)
          \/ entry.value = Untranslated /\ BlankExplains(KeyOf(s), entry.until)
      BY <1>1, <2>1, <3>2 DEF CacheExplained
    <3>5. ASSUME BlankExplains(KeyOf(s), entry.until)
          PROVE  \E b \in blanks : b[1] = KeyOf(s) /\ today < b[2] + CacheTtl
      <4>1. PICK b \in blanks : b[1] = KeyOf(s) /\ entry.until <= b[2] + CacheTtl
        BY <3>5 DEF BlankExplains
      <4>2. b[2] \in Int
        BY <1>1 DEF TranslationType
      <4> QED
        BY <3>1, <3>2, <4>1, <4>2, TranslationAssumption
    <3> QED
      BY <1>2, <3>3, <3>4, <3>5 DEF AnswerOf
  <2>5. CASE StoreTranslation(s) \/ KeepUnstored(s)
    <3>1. request[s].answer \in {KeyOf(s), Untranslated} /\ request[s].answer \in Answers
      BY <1>1, <2>5 DEF StoreTranslation, KeepUnstored, Underway, TranslationType, Inquiries
    <3>2. /\ request'[s].answer = request[s].answer
          /\ request'[s].at = today /\ KeyOf(s)' = KeyOf(s)
      BY <2>2, <2>5, <3>1 DEF StoreTranslation, KeepUnstored, JobPcs
    <3>3. CASE request[s].answer = Untranslated
      <4>1. <<KeyOf(s), today>> \in blanks'
        BY <2>5, <3>3 DEF StoreTranslation, KeepUnstored, NoteBlank
      <4>2. <<KeyOf(s), today>>[1] = KeyOf(s) /\ today < <<KeyOf(s), today>>[2] + CacheTtl
        BY <1>1, TranslationAssumption DEF TranslationType
      <4> QED
        BY <3>2, <3>3, <4>1, <4>2 DEF AnswerOf
    <3> QED
      BY <3>1, <3>2, <3>3 DEF AnswerOf
  <2>6. CASE \/ LookUpCache(s) /\ ~Hit(s)
             \/ MissCache(s) \/ TranslateExternally(s) \/ TranslateByModel(s) \/ ModelRaises(s)
    <3>1. \/ Proceeds(s, Miss, Untranslated) \/ Proceeds(s, "store", KeyOf(s))
          \/ Proceeds(s, "model", Untranslated) \/ Proceeds(s, "store", Untranslated)
          \/ Proceeds(s, "failed", Untranslated)
      BY <2>6 DEF LookUpCache, MissCache, TranslateExternally, TranslateByModel, ModelRaises
    <3> QED
      BY <2>1, <2>3, <3>1, KeysAre DEF JobPcs, Miss
  <2> QED
    BY <1>5, <2>4, <2>5, <2>6 DEF Acts
<1>6. ASSUME NEW r \in Translators \ {s}, Acts(r) PROVE request'[s] = request[s]
  BY <1>1, <1>6, Acting, Turning, KeysAre
<1>7. ASSUME NEW r \in Translators \ {s}, NEW text \in Texts, NEW tongue \in Tongues,
             AskTranslation(r, text, tongue)
      PROVE  request'[s] = request[s]
  BY <1>1, <1>7, NewRequest
<1>8. CASE UNCHANGED request
  BY <1>3, <1>8
<1> QED
  BY <1>3, <1>4, <1>5, <1>6, <1>7, <1>8, Stepping DEF translationVars, DayPasses

LEMMA TranslationStep ==
  TranslationInv /\ [TranslationNext]_translationVars => TranslationInv'
BY TranslationTyped, CacheStaysExplained, UnderwayStays, AnswersStaySound DEF TranslationInv

\* What translate() answers (services/multilingual.py) is the translation of the text of
\* its request from the language of it, or, while a blank answer accounts for it, the text.
THEOREM TranslationIsSound == TranslationSpec => []TranslationSound
<1>1. TranslationInit => TranslationInv
  BY TranslationInitial
<1>2. TranslationInv /\ [TranslationNext]_translationVars => TranslationInv'
  BY TranslationStep
<1>3. TranslationInv => TranslationSound
  BY DEF TranslationInv
<1> QED
  BY <1>1, <1>2, <1>3, PTL DEF TranslationSpec

-----------------------------------------------------------------------------
(* Ingestion: StoresAgree and DeletedStays for every number of uploads.    *)
(* Nothing relates one upload to another, so the invariant is the story of *)
(* each: how far its job and its polling can be when its row, its task and *)
(* its vectors are as they are.                                            *)

Tasks == {"none", "pending", "processing", "completed", "failed"}
Jobs == {"new", "run", "row", "end", "dead"}
AskStates == {NoAsk} \cup [pc : {"insert"}, on : Uploads]
RemovalStates == {NoAsk} \cup [pc : {"vectors", "row"}, on : Uploads]

IngestType ==
  /\ task \in [Uploads -> Tasks] /\ job \in [Uploads -> Jobs] /\ vectors \in [Uploads -> Nat]
  /\ persist \in [Uploads -> {"idle", "poll", "insert", "end"}]
  /\ entryRow \subseteq Uploads
  /\ ask \in [Clients -> AskStates] /\ removal \in [Removals -> RemovalStates]

\* Until the job of an upload has ended nobody else knows of it.
Unknown(u) ==
  /\ u \notin entryRow \cup removed /\ task[u] # "completed" /\ persist[u] # "insert"
  /\ \A c \in Clients : ask[c].on # u
  /\ \A d \in Removals : removal[d].on # u

Stages(u) ==
  /\ job[u] \in {"new", "run", "row"} => Unknown(u)
  /\ job[u] = "new" => vectors[u] = 0 /\ task[u] = "none" /\ persist[u] = "idle"
  /\ job[u] = "run" => Chunks[u] > 0 /\ (persist[u] = "poll" \/ u \in excused)
  /\ job[u] = "row" => Chunks[u] = 0 /\ vectors[u] = 1 /\ task[u] = "none" /\ persist[u] = "idle"
  /\ job[u] = "dead" \/ task[u] = "failed" => u \in excused

\* An upload that is, or will be, an entry: what RowIsIndexed says holds of it already.
Expected(u) ==
  \/ u \in entryRow \/ task[u] = "completed" \/ persist[u] = "insert"
  \/ \E c \in Clients : ask[c].on = u
Indexed(u) == u \in removed \cup excused \/ Removing(u) \/ vectors[u] = Whole(u)

\* What OrphansExplained says, and what a deletion has done when it comes to the row.
Explained(u) ==
  /\ vectors[u] > 0 /\ u \notin entryRow /\ job[u] \in {"end", "dead"}
       /\ persist[u] \in {"idle", "end"} /\ ~Removing(u) => u \in excused
  /\ \A d \in Removals : removal[d].on = u /\ removal[d].pc = "row" => vectors[u] = 0 \/ u \in excused

Story(u) == Stages(u) /\ (Expected(u) => Indexed(u)) /\ Explained(u)

IngestInv == IngestType /\ \A u \in Uploads : Story(u)

StaysForgotten(u) == Forgotten(u) => Forgotten(u)'

LEMMA NoAskIs == NoAsk.pc = "idle" /\ NoAsk.on = 0 /\ NoAsk \in AskStates /\ NoAsk \in RemovalStates
BY DEF NoAsk, AskStates, RemovalStates

LEMMA IngestInitial == IngestInit => IngestInv
<1> SUFFICES ASSUME IngestInit PROVE IngestInv
  OBVIOUS
<1>1. IngestType
  BY NoAskIs DEF IngestInit, IngestType, Tasks, Jobs
<1>2. ASSUME NEW u \in Uploads PROVE Story(u)
  BY NoAskIs, IngestionAssumption
  DEF IngestInit, Story, Stages, Unknown, Expected, Explained, Removing
<1> QED BY <1>1, <1>2 DEF IngestInv

\* An upload that a step does not touch.
SameRest(u) ==
  /\ task'[u] = task[u] /\ job'[u] = job[u] /\ vectors'[u] = vectors[u] /\ persist'[u] = persist[u]
  /\ (u \in entryRow') = (u \in entryRow) /\ (u \in removed') = (u \in removed)
  /\ u \in excused => u \in excused'
  /\ \A c \in Clients : ask'[c] = ask[c] \/ u \notin {ask[c].on, ask'[c].on}
  /\ \A d \in Removals : removal'[d] = removal[d] \/ u \notin {removal[d].on, removal'[d].on}

LEMMA OthersKept ==
  ASSUME NEW u \in Uploads, Story(u), SameRest(u)
  PROVE  Story(u)' /\ StaysForgotten(u)
<1>1. Removing(u)' <=> Removing(u)
  BY IngestionAssumption DEF SameRest, Removing, NoAsk
<1>2. (\E c \in Clients : ask'[c].on = u) <=> (\E c \in Clients : ask[c].on = u)
  BY DEF SameRest
<1>3. Stages(u)'
  BY DEF Story, SameRest, Stages, Unknown
<1>4. Expected(u)' => Indexed(u)'
  BY <1>1, <1>2 DEF Story, SameRest, Expected, Indexed, Whole
<1>5. Explained(u)'
  BY <1>1 DEF Story, SameRest, Explained
<1>6. StaysForgotten(u)
  BY DEF SameRest, StaysForgotten, Forgotten
<1> QED BY <1>3, <1>4, <1>5, <1>6 DEF Story

\* A step of the service or of what waits for it: one upload, and no request.
OfService(u, t, j, v, p) ==
  /\ task' = [task EXCEPT ![u] = t] /\ job' = [job EXCEPT ![u] = j]
  /\ vectors' = [vectors EXCEPT ![u] = v] /\ persist' = [persist EXCEPT ![u] = p]
  /\ UNCHANGED <<ask, removal, removed>>
  /\ t \in Tasks /\ j \in Jobs /\ v \in Nat /\ p \in {"idle", "poll", "insert", "end"}

LEMMA ServiceMoves ==
  ASSUME IngestInv, NEW u \in Uploads, NEW t, NEW j, NEW v, NEW p, OfService(u, t, j, v, p),
         entryRow' \in {entryRow, entryRow \cup {u}}, excused \subseteq excused',
         Story(u)', StaysForgotten(u)
  PROVE  IngestInv' /\ \A n \in Uploads : StaysForgotten(n)
<1>1. IngestType'
  BY DEF IngestInv, IngestType, OfService
<1>2. ASSUME NEW n \in Uploads, n # u PROVE Story(n)' /\ StaysForgotten(n)
  <2>1. /\ task'[n] = task[n] /\ job'[n] = job[n] /\ vectors'[n] = vectors[n]
        /\ persist'[n] = persist[n]
    BY <1>2 DEF IngestInv, IngestType, OfService
  <2>2. SameRest(n)
    BY <1>2, <2>1 DEF IngestInv, IngestType, OfService, SameRest
  <2> QED BY <2>2, OthersKept DEF IngestInv
<1> QED BY <1>1, <1>2 DEF IngestInv

\* What one such step makes of the upload.
LEMMA ServiceIs ==
  ASSUME IngestInv, NEW u \in Uploads, NEW t, NEW j, NEW v, NEW p, OfService(u, t, j, v, p)
  PROVE  task'[u] = t /\ job'[u] = j /\ vectors'[u] = v /\ persist'[u] = p
BY DEF IngestInv, IngestType, OfService

LEMMA UpdateTaskIs ==
  ASSUME IngestInv, NEW u \in Uploads, NEW status \in Tasks, UpdateTask(u, status)
  PROVE  \E t \in Tasks : /\ task' = [task EXCEPT ![u] = t] /\ t \in {"none", status}
                          /\ (t = "none" <=> task[u] = "none" \/ status = "none")
<1>1. task' = [task EXCEPT ![u] = IF task[u] = "none" THEN "none" ELSE status]
  BY Zenon DEF UpdateTask
<1> QED BY <1>1 DEF Tasks

LEMMA UploadStep ==
  ASSUME IngestInv, NEW u \in Uploads, Upload(u)
  PROVE  IngestInv' /\ \A n \in Uploads : StaysForgotten(n)
<1>1. OfService(u, "pending", "run", vectors[u], "poll")
  BY DEF Upload, IngestInv, IngestType, OfService, Tasks, Jobs
<1>2. /\ task'[u] = "pending" /\ job'[u] = "run" /\ vectors'[u] = vectors[u] /\ persist'[u] = "poll"
  BY <1>1, ServiceIs
<1>3. Story(u)' /\ StaysForgotten(u)
  BY <1>2
  DEF Upload, Calm, IngestInv, Story, Stages, Unknown, Expected, Explained, StaysForgotten, Forgotten
<1> QED BY <1>1, <1>3, ServiceMoves DEF Upload, Calm

LEMMA StoreChunkStep ==
  ASSUME IngestInv, NEW u \in Uploads, StoreChunk(u)
  PROVE  IngestInv' /\ \A n \in Uploads : StaysForgotten(n)
<1>1. PICK t \in Tasks : task' = [task EXCEPT ![u] = t] /\ t \in {"none", "processing"}
  BY UpdateTaskIs DEF StoreChunk, Tasks
<1>2. OfService(u, t, "run", vectors[u] + 1, persist[u])
  BY <1>1 DEF StoreChunk, Requests, IngestInv, IngestType, OfService, Jobs
<1>3. /\ task'[u] = t /\ job'[u] = "run" /\ vectors'[u] = vectors[u] + 1 /\ persist'[u] = persist[u]
  BY <1>2, ServiceIs
<1>4. Story(u)' /\ StaysForgotten(u)
  BY <1>1, <1>3
  DEF StoreChunk, Requests, Calm, IngestInv, Story, Stages, Unknown, Expected, Explained,
      StaysForgotten, Forgotten
<1> QED BY <1>2, <1>4, ServiceMoves DEF StoreChunk, Calm

LEMMA CompleteStep ==
  ASSUME IngestInv, NEW u \in Uploads, Complete(u)
  PROVE  IngestInv' /\ \A n \in Uploads : StaysForgotten(n)
<1>1. PICK t \in Tasks : task' = [task EXCEPT ![u] = t] /\ t \in {"none", "completed"}
  BY UpdateTaskIs DEF Complete, Tasks
<1>2. OfService(u, t, "end", vectors[u], persist[u])
  BY <1>1 DEF Complete, Requests, IngestInv, IngestType, OfService, Jobs
<1>3. /\ task'[u] = t /\ job'[u] = "end" /\ vectors'[u] = vectors[u] /\ persist'[u] = persist[u]
  BY <1>2, ServiceIs
<1>4. job[u] = "run" /\ vectors[u] = Whole(u) /\ Unknown(u) /\ (persist[u] = "poll" \/ u \in excused)
  BY DEF Complete, Whole, IngestInv, Story, Stages
<1>5. Story(u)' /\ StaysForgotten(u)
  BY <1>1, <1>3, <1>4
  DEF Complete, Requests, Calm, IngestInv, Story, Stages, Unknown, Expected, Indexed, Whole, Explained,
      StaysForgotten, Forgotten
<1> QED BY <1>2, <1>5, ServiceMoves DEF Complete, Calm

LEMMA FailJobStep ==
  ASSUME IngestInv, NEW u \in Uploads, FailJob(u)
  PROVE  IngestInv' /\ \A n \in Uploads : StaysForgotten(n)
<1>1. PICK t \in Tasks : task' = [task EXCEPT ![u] = t] /\ t \in {"none", "failed"}
  BY UpdateTaskIs DEF FailJob, Tasks
<1>2. OfService(u, t, "end", vectors[u], persist[u])
  BY <1>1 DEF FailJob, Requests, IngestInv, IngestType, OfService, Jobs
<1>3. /\ task'[u] = t /\ job'[u] = "end" /\ vectors'[u] = vectors[u] /\ persist'[u] = persist[u]
  BY <1>2, ServiceIs
<1>4. u \in excused' /\ Unknown(u) /\ entryRow' = entryRow /\ excused \subseteq excused'
  BY DEF FailJob, Strike, Requests, IngestInv, Story, Stages
<1>5. Story(u)' /\ StaysForgotten(u)
  BY <1>1, <1>3, <1>4
  DEF FailJob, Requests, IngestInv, Story, Stages, Unknown, Expected, Indexed, Explained,
      StaysForgotten, Forgotten
<1> QED BY <1>2, <1>4, <1>5, ServiceMoves

LEMMA TaskExpiresStep ==
  ASSUME IngestInv, NEW u \in Uploads, TaskExpires(u)
  PROVE  IngestInv' /\ \A n \in Uploads : StaysForgotten(n)
<1>1. OfService(u, "none", job[u], vectors[u], persist[u])
  BY DEF TaskExpires, Requests, IngestInv, IngestType, OfService, Tasks
<1>2. /\ task'[u] = "none" /\ job'[u] = job[u] /\ vectors'[u] = vectors[u] /\ persist'[u] = persist[u]
  BY <1>1, ServiceIs
<1>3. Story(u) /\ UNCHANGED <<ask, removal, removed, entryRow, excused>>
  BY DEF IngestInv, TaskExpires, Requests, Calm
<1>4. Story(u)'
  BY <1>2, <1>3
  DEF Story, Stages, Unknown, Expected, Indexed, Removing, Whole, Explained
<1>5. StaysForgotten(u)
  BY <1>2, <1>3 DEF StaysForgotten, Forgotten
<1> QED BY <1>1, <1>3, <1>4, <1>5, ServiceMoves

LEMMA IngestTextStep ==
  ASSUME IngestInv, NEW u \in Uploads, IngestText(u)
  PROVE  IngestInv' /\ \A n \in Uploads : StaysForgotten(n)
<1>1. OfService(u, task[u], "row", 1, persist[u])
  BY DEF IngestText, Requests, IngestInv, IngestType, OfService, Jobs
<1>2. /\ task'[u] = task[u] /\ job'[u] = "row" /\ vectors'[u] = 1 /\ persist'[u] = persist[u]
  BY <1>1, ServiceIs
<1>3. Story(u)' /\ StaysForgotten(u)
  BY <1>2
  DEF IngestText, Requests, Calm, IngestInv, Story, Stages, Unknown, Expected, Explained,
      StaysForgotten, Forgotten
<1> QED BY <1>1, <1>3, ServiceMoves DEF IngestText, Calm

LEMMA CommitTextStep ==
  ASSUME IngestInv, NEW u \in Uploads, CommitText(u)
  PROVE  IngestInv' /\ \A n \in Uploads : StaysForgotten(n)
<1>1. OfService(u, task[u], "end", vectors[u], persist[u])
  BY DEF CommitText, Requests, IngestInv, IngestType, OfService, Jobs
<1>2. /\ task'[u] = task[u] /\ job'[u] = "end" /\ vectors'[u] = vectors[u] /\ persist'[u] = persist[u]
  BY <1>1, ServiceIs
<1>3. /\ entryRow' \in {entryRow, entryRow \cup {u}} /\ excused \subseteq excused'
      /\ u \in entryRow' \/ u \in excused'
      /\ UNCHANGED <<ask, removal, removed>>
  BY DEF CommitText, Strike, Calm, Requests
<1>4. vectors[u] = Whole(u) /\ Unknown(u) /\ task[u] = "none" /\ persist[u] = "idle"
  BY DEF CommitText, Whole, IngestInv, Story, Stages
<1>5. Story(u)' /\ StaysForgotten(u)
  BY <1>2, <1>3, <1>4
  DEF Story, Stages, Unknown, Expected, Indexed, Whole, Explained, StaysForgotten, Forgotten
<1> QED BY <1>1, <1>3, <1>5, ServiceMoves

LEMMA AutoPersistStep ==
  ASSUME IngestInv, NEW u \in Uploads, AutoPersist(u)
  PROVE  IngestInv' /\ \A n \in Uploads : StaysForgotten(n)
<1> DEFINE p == IF task[u] = "completed" /\ u \notin entryRow THEN "insert" ELSE "end"
<1>1. OfService(u, task[u], job[u], vectors[u], p)
  BY DEF AutoPersist, IngestInv, IngestType, OfService
<1>2. /\ task'[u] = task[u] /\ job'[u] = job[u] /\ vectors'[u] = vectors[u] /\ persist'[u] = p
  BY <1>1, ServiceIs
<1>3. /\ Story(u) /\ UNCHANGED <<ask, removal, removed, entryRow, excused>>
      /\ persist[u] = "poll" /\ task[u] \in {"completed", "failed"}
  BY DEF IngestInv, AutoPersist, Calm
<1>4. Stages(u)'
  BY <1>2, <1>3 DEF Story, Stages, Unknown
<1>5. Expected(u)' => Indexed(u)'
  BY <1>2, <1>3 DEF Story, Expected, Indexed, Whole, Removing
<1>6. Explained(u)'
  BY <1>2, <1>3 DEF Story, Stages, Unknown, Explained, Removing
<1>7. StaysForgotten(u)
  BY <1>3 DEF StaysForgotten, Forgotten
<1> QED BY <1>1, <1>3, <1>4, <1>5, <1>6, <1>7, ServiceMoves DEF Story

LEMMA TimeOutStep ==
  ASSUME IngestInv, NEW u \in Uploads, TimeOut(u)
  PROVE  IngestInv' /\ \A n \in Uploads : StaysForgotten(n)
<1>1. OfService(u, task[u], job[u], vectors[u], "end")
  BY DEF TimeOut, IngestInv, IngestType, OfService
<1>2. /\ task'[u] = task[u] /\ job'[u] = job[u] /\ vectors'[u] = vectors[u] /\ persist'[u] = "end"
  BY <1>1, ServiceIs
<1>3. /\ Story(u) /\ UNCHANGED <<ask, removal, removed, entryRow>>
      /\ persist[u] = "poll" /\ u \in excused' /\ excused \subseteq excused'
  BY DEF IngestInv, TimeOut, Strike
<1>4. Story(u)'
  BY <1>2, <1>3 DEF Story, Stages, Unknown, Indexed, Explained
<1>5. StaysForgotten(u)
  BY <1>3 DEF StaysForgotten, Forgotten
<1> QED BY <1>1, <1>3, <1>4, <1>5, ServiceMoves

LEMMA InsertEntryStep ==
  ASSUME IngestInv, NEW u \in Uploads, InsertEntry(u)
  PROVE  IngestInv' /\ \A n \in Uploads : StaysForgotten(n)
<1>1. OfService(u, task[u], job[u], vectors[u], "end")
  BY DEF InsertEntry, IngestInv, IngestType, OfService
<1>2. /\ task'[u] = task[u] /\ job'[u] = job[u] /\ vectors'[u] = vectors[u] /\ persist'[u] = "end"
  BY <1>1, ServiceIs
<1>3. /\ Story(u) /\ UNCHANGED <<ask, removal, removed, excused>> /\ entryRow' = entryRow \cup {u}
      /\ persist[u] = "insert"
  BY DEF IngestInv, InsertEntry, Calm
<1>4. Stages(u)' /\ Explained(u)'
  BY <1>2, <1>3 DEF Story, Stages, Unknown, Explained
<1>5. Expected(u) /\ (Indexed(u) => Indexed(u)')
  BY <1>2, <1>3 DEF Expected, Indexed, Removing, Whole
<1>6. StaysForgotten(u)
  BY <1>3 DEF StaysForgotten, Forgotten
<1> QED BY <1>1, <1>3, <1>4, <1>5, <1>6, ServiceMoves DEF Story

\* A step of a client's request: the upload it is, or was, about.
LEMMA AskMoves ==
  ASSUME IngestInv, NEW u \in Uploads, NEW c \in Clients, NEW w \in AskStates,
         ask' = [ask EXCEPT ![c] = w], u \in {ask[c].on, w.on}, {ask[c].on, w.on} \subseteq {0, u},
         UNCHANGED <<task, job, vectors, persist, removal, removed>>,
         entryRow' \in {entryRow, entryRow \cup {u}}, excused \subseteq excused',
         Story(u)', StaysForgotten(u)
  PROVE  IngestInv' /\ \A n \in Uploads : StaysForgotten(n)
<1>1. IngestType'
  BY DEF IngestInv, IngestType
<1>2. ASSUME NEW n \in Uploads, n # u PROVE Story(n)' /\ StaysForgotten(n)
  <2>1. n \notin {ask[c].on, w.on}
    BY <1>2, IngestionAssumption
  <2>2. \A e \in Clients : ask'[e] = IF e = c THEN w ELSE ask[e]
    BY DEF IngestInv, IngestType
  <2>3. SameRest(n)
    BY <1>2, <2>1, <2>2 DEF SameRest
  <2> QED BY <2>3, OthersKept DEF IngestInv
<1> QED BY <1>1, <1>2 DEF IngestInv

LEMMA GetTaskStatusStep ==
  ASSUME IngestInv, NEW c \in Clients, NEW u \in Uploads, GetTaskStatus(c, u)
  PROVE  IngestInv' /\ \A n \in Uploads : StaysForgotten(n)
<1> DEFINE w == [pc |-> "insert", on |-> u]
<1>1. /\ ask' = [ask EXCEPT ![c] = w] /\ ask[c] = NoAsk /\ task[u] = "completed" /\ u \notin entryRow
      /\ UNCHANGED <<task, job, vectors, entryRow, persist, removal, removed, excused>>
  BY DEF GetTaskStatus
<1>2. w \in AskStates /\ w.on = u
  BY DEF AskStates
<1>3. \A e \in Clients : ask'[e] = IF e = c THEN w ELSE ask[e]
  BY <1>1 DEF IngestInv, IngestType
<1>4. Story(u) /\ Expected(u)
  BY <1>1 DEF IngestInv, Expected
<1>5. Stages(u)'
  BY <1>1, <1>4 DEF Story, Stages, Unknown
<1>6. Indexed(u)' /\ Explained(u)'
  BY <1>1, <1>4 DEF Story, Indexed, Removing, Whole, Explained
<1>7. StaysForgotten(u)
  BY <1>1 DEF StaysForgotten, Forgotten
<1> HIDE DEF w
<1> QED BY <1>1, <1>2, <1>5, <1>6, <1>7, NoAskIs, AskMoves DEF Story

LEMMA InsertAskedStep ==
  ASSUME IngestInv, NEW c \in Clients, InsertAsked(c)
  PROVE  IngestInv' /\ \A n \in Uploads : StaysForgotten(n)
<1>1. /\ ask' = [ask EXCEPT ![c] = NoAsk] /\ ask[c].pc = "insert" /\ entryRow' = entryRow \cup {ask[c].on}
      /\ UNCHANGED <<task, job, vectors, persist, removal, removed, excused>>
  BY DEF InsertAsked, Calm
<1>2. PICK u \in Uploads : ask[c].on = u
  BY <1>1, NoAskIs DEF IngestInv, IngestType, AskStates
<1>3. Story(u) /\ Expected(u) /\ ~Unknown(u)
  BY <1>2 DEF IngestInv, Expected, Unknown
<1>4. \A e \in Clients : ask'[e] = IF e = c THEN NoAsk ELSE ask[e]
  BY <1>1 DEF IngestInv, IngestType
<1>5. Stages(u)'
  BY <1>1, <1>3 DEF Story, Stages
<1>6. Indexed(u)' /\ Explained(u)'
  BY <1>1, <1>3 DEF Story, Indexed, Removing, Whole, Explained
<1>7. StaysForgotten(u)
  BY <1>2 DEF StaysForgotten, Forgotten
<1> QED BY <1>1, <1>2, <1>5, <1>6, <1>7, NoAskIs, AskMoves DEF Story

\* A step of a deletion.
LEMMA RemovalMoves ==
  ASSUME IngestInv, NEW u \in Uploads, NEW d \in Removals, NEW w \in RemovalStates,
         removal' = [removal EXCEPT ![d] = w], u \in {removal[d].on, w.on},
         {removal[d].on, w.on} \subseteq {0, u},
         UNCHANGED <<task, job, persist, ask>>,
         NEW v \in Nat, vectors' = [vectors EXCEPT ![u] = v],
         entryRow' \in {entryRow, entryRow \ {u}}, removed' \in {removed, removed \cup {u}},
         excused \subseteq excused',
         Story(u)', StaysForgotten(u)
  PROVE  IngestInv' /\ \A n \in Uploads : StaysForgotten(n)
<1>1. IngestType'
  BY DEF IngestInv, IngestType
<1>2. ASSUME NEW n \in Uploads, n # u PROVE Story(n)' /\ StaysForgotten(n)
  <2>1. n \notin {removal[d].on, w.on}
    BY <1>2, IngestionAssumption
  <2>2. \A e \in Removals : removal'[e] = IF e = d THEN w ELSE removal[e]
    BY DEF IngestInv, IngestType
  <2>3. vectors'[n] = vectors[n]
    BY <1>2 DEF IngestInv, IngestType
  <2>4. SameRest(n)
    BY <1>2, <2>1, <2>2, <2>3 DEF SameRest
  <2> QED BY <2>4, OthersKept DEF IngestInv
<1> QED BY <1>1, <1>2 DEF IngestInv

\* An upload somebody knows of: its job has ended.
LEMMA KnownIsLate ==
  ASSUME IngestInv, NEW u \in Uploads, ~Unknown(u)
  PROVE  job[u] \in {"end", "dead"}
BY DEF IngestInv, IngestType, Jobs, Story, Stages

LEMMA BeginDeleteStep ==
  ASSUME IngestInv, NEW d \in Removals, NEW u \in Uploads, BeginDelete(d, u)
  PROVE  IngestInv' /\ \A n \in Uploads : StaysForgotten(n)
<1> DEFINE w == [pc |-> "vectors", on |-> u]
<1>1. /\ removal' = [removal EXCEPT ![d] = w] /\ removal[d] = NoAsk /\ u \in entryRow
      /\ UNCHANGED <<task, job, vectors, entryRow, persist, ask, removed, excused>>
  BY DEF BeginDelete
<1>2. w \in RemovalStates /\ w.on = u /\ w.pc = "vectors" /\ w # NoAsk
  BY NoAskIs DEF RemovalStates
<1>3. \A e \in Removals : removal'[e] = IF e = d THEN w ELSE removal[e]
  BY <1>1 DEF IngestInv, IngestType
<1>4. Story(u) /\ job[u] \in {"end", "dead"}
  BY <1>1, KnownIsLate DEF IngestInv, Unknown
<1> HIDE DEF w
<1>5. Stages(u)'
  BY <1>1, <1>4 DEF Story, Stages
<1>6. Indexed(u)' /\ Explained(u)'
  BY <1>1, <1>2, <1>3, <1>4 DEF Story, Indexed, Removing, Whole, Explained
<1>7. StaysForgotten(u)
  BY <1>1 DEF StaysForgotten, Forgotten
<1>8. vectors' = [vectors EXCEPT ![u] = vectors[u]] /\ vectors[u] \in Nat
  BY <1>1 DEF IngestInv, IngestType
<1> QED BY <1>1, <1>2, <1>5, <1>6, <1>7, <1>8, NoAskIs, RemovalMoves DEF Story

LEMMA DeleteVectorsStep ==
  ASSUME IngestInv, NEW d \in Removals, DeleteVectors(d)
  PROVE  IngestInv' /\ \A n \in Uploads : StaysForgotten(n)
<1>1. /\ removal[d].pc = "vectors" /\ UNCHANGED <<task, job, entryRow, persist, ask, removed>>
      /\ removal' = [removal EXCEPT ![d] = [removal[d] EXCEPT !.pc = "row"]]
      /\ \/ vectors' = [vectors EXCEPT ![removal[d].on] = 0] /\ UNCHANGED excused
         \/ vectors' = vectors /\ excused' = excused \cup {removal[d].on}
  BY Zenon DEF DeleteVectors, Calm, Strike
<1>2. removal[d] \in [pc : {"vectors", "row"}, on : Uploads]
  BY <1>1, NoAskIs DEF IngestInv, IngestType, RemovalStates
<1>3. PICK u \in Uploads : removal[d].on = u
  BY <1>2
<1> DEFINE w == [pc |-> "row", on |-> u]
<1>4. [removal[d] EXCEPT !.pc = "row"] = w /\ w \in RemovalStates
  BY <1>2, <1>3 DEF RemovalStates
<1>5. w.on = u /\ w.pc = "row" /\ w # NoAsk
  BY NoAskIs
<1>6. removal' = [removal EXCEPT ![d] = w]
  BY <1>1, <1>4, Zenon
<1> HIDE DEF w
<1>7. \A e \in Removals : removal'[e] = IF e = d THEN w ELSE removal[e]
  BY <1>6 DEF IngestInv, IngestType
<1>8. Story(u) /\ job[u] \in {"end", "dead"}
  BY <1>3, KnownIsLate DEF IngestInv, Unknown
<1>9. PICK v \in Nat : /\ vectors' = [vectors EXCEPT ![u] = v] /\ excused \subseteq excused'
                       /\ vectors'[u] = v /\ (v = 0 \/ u \in excused')
  <2>1. CASE vectors' = [vectors EXCEPT ![u] = 0] /\ UNCHANGED excused
    BY <2>1 DEF IngestInv, IngestType
  <2>2. CASE vectors' = vectors /\ excused' = excused \cup {u}
    <3>1. vectors' = [vectors EXCEPT ![u] = vectors[u]] /\ vectors[u] \in Nat
      BY <2>2 DEF IngestInv, IngestType
    <3> QED BY <2>2, <3>1
  <2> QED BY <1>1, <1>3, <2>1, <2>2
<1>10. Stages(u)'
  BY <1>1, <1>8, <1>9 DEF Story, Stages
<1>11. Removing(u)' /\ Indexed(u)' /\ Explained(u)'
  BY <1>5, <1>7, <1>9 DEF Indexed, Removing, Explained
<1>12. StaysForgotten(u)
  BY <1>1 DEF StaysForgotten, Forgotten
<1>13. Story(u)' /\ UNCHANGED <<task, job, persist, ask>>
  BY <1>1, <1>10, <1>11 DEF Story
<1>14. u \in {removal[d].on, w.on} /\ {removal[d].on, w.on} \subseteq {0, u}
  BY <1>3, <1>5
<1>15. entryRow' \in {entryRow, entryRow \ {u}} /\ removed' \in {removed, removed \cup {u}}
  BY <1>1
<1>16. vectors' = [vectors EXCEPT ![u] = v] /\ v \in Nat /\ excused \subseteq excused'
  BY <1>9
<1> QED BY <1>4, <1>6, <1>12, <1>13, <1>14, <1>15, <1>16, RemovalMoves

LEMMA DeleteRowStep ==
  ASSUME IngestInv, NEW d \in Removals, DeleteRow(d)
  PROVE  IngestInv' /\ \A n \in Uploads : StaysForgotten(n)
<1>1. PICK u \in Uploads : removal[d].on = u
  BY NoAskIs DEF DeleteRow, IngestInv, IngestType, RemovalStates
<1>2. /\ removal[d].pc = "row" /\ UNCHANGED <<task, job, vectors, persist, ask, excused>>
      /\ removal' = [removal EXCEPT ![d] = NoAsk]
      /\ entryRow' = entryRow \ {u} /\ removed' = removed \cup {u}
  BY <1>1 DEF DeleteRow, Calm
<1>3. \A e \in Removals : removal'[e] = IF e = d THEN NoAsk ELSE removal[e]
  BY <1>2 DEF IngestInv, IngestType
<1>4. Story(u) /\ job[u] \in {"end", "dead"} /\ (vectors[u] = 0 \/ u \in excused) /\ vectors[u] \in Nat
  BY <1>1, <1>2, KnownIsLate DEF IngestInv, IngestType, Unknown, Story, Explained
<1>5. Stages(u)' /\ Indexed(u)'
  BY <1>2, <1>4 DEF Story, Stages, Indexed
<1>6. Explained(u)'
  BY <1>2, <1>4 DEF Explained
<1>7. StaysForgotten(u)
  BY <1>2 DEF StaysForgotten, Forgotten
<1>8. vectors' = [vectors EXCEPT ![u] = vectors[u]]
  BY <1>2 DEF IngestInv, IngestType
<1> QED BY <1>1, <1>2, <1>4, <1>5, <1>6, <1>7, <1>8, NoAskIs, RemovalMoves DEF Story

\* A crash strikes every upload under way.
LEMMA CrashServiceStep ==
  ASSUME IngestInv, CrashService
  PROVE  IngestInv' /\ \A n \in Uploads : StaysForgotten(n)
<1>1. /\ UNCHANGED <<task, vectors, entryRow, persist, ask, removal, removed>>
      /\ excused' = excused \cup {u \in Uploads : job[u] = "run"}
      /\ job' = [u \in Uploads |-> IF job[u] = "run" THEN "dead" ELSE job[u]]
  BY DEF CrashService, Strike, Requests
<1>2. IngestType'
  BY <1>1 DEF IngestInv, IngestType, Jobs
<1>3. ASSUME NEW u \in Uploads PROVE Story(u)' /\ StaysForgotten(u)
  <2>1. /\ job'[u] = IF job[u] = "run" THEN "dead" ELSE job[u]
        /\ job[u] = "run" => u \in excused'
        /\ u \in excused => u \in excused'
    BY <1>1
  <2>2. Stages(u)' /\ Explained(u)'
    BY <1>1, <2>1 DEF IngestInv, Story, Stages, Unknown, Explained, Removing
  <2>3. Expected(u)' => Indexed(u)'
    BY <1>1, <2>1 DEF IngestInv, Story, Expected, Indexed, Removing, Whole
  <2> QED BY <1>1, <2>2, <2>3 DEF Story, StaysForgotten, Forgotten
<1> QED BY <1>2, <1>3 DEF IngestInv

LEMMA CrashApiStep ==
  ASSUME IngestInv, CrashApi
  PROVE  IngestInv' /\ \A n \in Uploads : StaysForgotten(n)
<1>1. /\ UNCHANGED <<task, vectors, entryRow, removed>>
      /\ persist' = [u \in Uploads |-> IF persist[u] = "idle" THEN "idle" ELSE "end"]
      /\ ask' = [c \in Clients |-> NoAsk] /\ removal' = [d \in Removals |-> NoAsk]
      /\ job' = [u \in Uploads |-> IF job[u] = "row" THEN "end" ELSE job[u]]
      /\ excused' = excused \cup {u \in Uploads : persist[u] \in {"poll", "insert"} \/ job[u] = "row"}
                            \cup {removal[d].on : d \in {e \in Removals : removal[e] # NoAsk}}
  BY DEF CrashApi, Strike
<1>2. IngestType'
  BY <1>1, NoAskIs DEF IngestInv, IngestType, Jobs
<1>3. ASSUME NEW u \in Uploads PROVE Story(u)' /\ StaysForgotten(u)
  <2>1. /\ job'[u] = IF job[u] = "row" THEN "end" ELSE job[u]
        /\ persist'[u] = IF persist[u] = "idle" THEN "idle" ELSE "end"
        /\ persist[u] \in {"poll", "insert"} \/ job[u] = "row" \/ Removing(u) => u \in excused'
        /\ u \in excused => u \in excused'
    BY <1>1 DEF Removing
  <2>2. /\ \A c \in Clients : ask'[c].on = 0 /\ ask'[c].on # u
        /\ \A d \in Removals : removal'[d].on = 0 /\ removal'[d].on # u
    BY <1>1, NoAskIs, IngestionAssumption
  <2>3. persist[u] \in {"idle", "poll", "insert", "end"}
    BY DEF IngestInv, IngestType
  <2>4. Stages(u)'
    BY <1>1, <2>1, <2>2, <2>3 DEF IngestInv, Story, Stages, Unknown
  <2>5. Explained(u)'
    BY <1>1, <2>1, <2>2, <2>3 DEF IngestInv, Story, Stages, Unknown, Explained
  <2>6. Expected(u)' => Indexed(u)'
    BY <1>1, <2>1, <2>2, <2>3 DEF IngestInv, Story, Expected, Indexed, Whole
  <2>7. StaysForgotten(u)
    BY <1>1, <2>1, <2>2, <2>3 DEF StaysForgotten, Forgotten
  <2> QED BY <2>4, <2>5, <2>6, <2>7 DEF Story
<1> QED BY <1>2, <1>3 DEF IngestInv

LEMMA IngestStutters ==
  ASSUME IngestInv, UNCHANGED ingestVars
  PROVE  IngestInv' /\ \A n \in Uploads : StaysForgotten(n)
<1>1. IngestType'
  BY DEF IngestInv, IngestType, ingestVars
<1>2. ASSUME NEW u \in Uploads PROVE Story(u)' /\ StaysForgotten(u)
  <2>1. SameRest(u)
    BY DEF SameRest, ingestVars
  <2> QED BY <2>1, OthersKept DEF IngestInv
<1> QED BY <1>1, <1>2 DEF IngestInv

LEMMA IngestStepKeeps ==
  ASSUME IngestInv, [IngestNext]_ingestVars
  PROVE  IngestInv' /\ \A u \in Uploads : StaysForgotten(u)
<1>1. CASE IngestStep
  BY <1>1, StoreChunkStep, CompleteStep, AutoPersistStep, InsertEntryStep, CommitTextStep,
     InsertAskedStep, DeleteVectorsStep, DeleteRowStep DEF IngestStep
<1> QED BY <1>1, UploadStep, FailJobStep, TaskExpiresStep, IngestTextStep, TimeOutStep,
     GetTaskStatusStep, BeginDeleteStep, CrashServiceStep, CrashApiStep, IngestStutters
  DEF IngestNext

\* Redis, Qdrant and Postgres agree about every upload, or the failure is known: the row
\* follows the last of the vectors, and vectors without a row were left by a failure.
THEOREM StoresDoAgree == IngestSpec => []StoresAgree
<1>1. IngestInv => StoresAgree
  <2> SUFFICES ASSUME IngestInv PROVE RowIsIndexed /\ OrphansExplained
    BY DEF StoresAgree
  <2>1. RowIsIndexed
    BY DEF IngestInv, IngestType, Story, Expected, Indexed, RowIsIndexed
  <2> QED BY <2>1 DEF IngestInv, Story, Explained, OrphansExplained
<1> QED BY <1>1, IngestInitial, IngestStepKeeps, PTL DEF IngestSpec

\* Once the task of a deleted upload is forgotten, no poll and no insertion still under
\* way brings the entry back.
THEOREM DeletionsStay == IngestSpec => DeletedStays
<1>1. ASSUME IngestInv, [IngestNext]_ingestVars
      PROVE  [\A u \in Uploads : StaysForgotten(u)]_ingestVars
  BY <1>1, IngestStepKeeps
<1> QED BY <1>1, IngestInitial, IngestStepKeeps, PTL
  DEF IngestSpec, DeletedStays, StaysForgotten

-----------------------------------------------------------------------------
(* Retrieval: RetrievalSound for every number of questions, sources and    *)
(* entries, any fusion and any depth. A question under way holds what its  *)
(* sources answered; what is cut off never scores above what is kept.      *)

\* One result per entry.
OnePerEntry(R) == \A r \in R, s \in R : r.entry = s.entry => r = s

Scored(R) == IsFiniteSet(R) /\ \A r \in R : r.score \in Nat

\* The k leading ones: nothing that is left out has a higher score than one of them.
LEMMA LeadingIs ==
  ASSUME NEW items, Scored(items), NEW k \in Nat, NEW T \in Leading(items, k)
  PROVE  /\ T \subseteq items /\ Scored(T) /\ Cardinality(T) <= k
         /\ \A i \in items \ T : Cardinality(T) = k /\ \A t \in T : t.score >= i.score
<1>1. /\ T \in SUBSET items
      /\ Cardinality(T) = IF Cardinality(items) < k THEN Cardinality(items) ELSE k
      /\ \A a \in T, b \in items \ T : a.score >= b.score
  BY DEF Leading
<1>2. IsFiniteSet(T) /\ (Cardinality(items) = Cardinality(T) => items = T)
  BY <1>1, FS_Subset DEF Scored
<1>3. Cardinality(items) \in Nat
  BY FS_CardinalityType DEF Scored
<1> QED BY <1>1, <1>2, <1>3 DEF Scored

\* In a finite set of results every entry has one with its highest score.
LEMMA HighestIs ==
  ASSUME NEW R, Scored(R)
  PROVE  /\ Highest(R) \subseteq R /\ Scored(Highest(R))
         /\ \A r \in R : \E h \in Highest(R) : h.entry = r.entry /\ h.score >= r.score
<1>1. Highest(R) \in SUBSET R
  BY DEF Highest
<1>2. Scored(Highest(R))
  BY <1>1, FS_Subset DEF Scored
<1>3. ASSUME NEW r \in R PROVE \E h \in Highest(R) : h.entry = r.entry /\ h.score >= r.score
  <2> DEFINE Above(s) == {t \in R : t.entry = r.entry /\ t.score > s.score}
             Same == {t \in R : t.entry = r.entry /\ t.score >= r.score}
             Sets == {Above(s) : s \in Same}
  <2>1. r \in Same
    BY DEF Scored
  <2>2. Sets # {} /\ Sets \subseteq FiniteSubsetsOf(R)
    <3>1. ASSUME NEW s \in Same PROVE Above(s) \in FiniteSubsetsOf(R)
      BY FS_Subset DEF FiniteSubsetsOf, Scored
    <3> HIDE DEF Above, Same
    <3> QED BY <2>1, <3>1
  <2>3. IsWellFoundedOn(StrictSubsetOrdering(R), FiniteSubsetsOf(R))
    BY FS_StrictSubsetOrderingWellFounded
  <2>4. \E x \in Sets : \A y \in Sets : <<y, x>> \notin StrictSubsetOrdering(R)
    <3> HIDE DEF Sets
    <3> QED BY <2>2, <2>3, WFMin
  <2>5. PICK h \in Same : \A s \in Same : <<Above(s), Above(h)>> \notin StrictSubsetOrdering(R)
    <3> HIDE DEF Above, Same
    <3> QED BY <2>4
  <2>6. ASSUME NEW s \in R, s.entry = h.entry PROVE s.score <= h.score
    <3> SUFFICES ASSUME s.score > h.score PROVE FALSE
      BY DEF Scored
    <3>1. s \in Same /\ s \in Above(h) /\ s \notin Above(s)
      BY <2>6 DEF Scored
    <3>2. Above(s) \subseteq Above(h)
      BY DEF Scored
    <3>3. Above(s) \in SUBSET R /\ Above(h) \in SUBSET R
      OBVIOUS
    <3> HIDE DEF Above, Same
    <3> QED BY <2>5, <3>1, <3>2, <3>3 DEF StrictSubsetOrdering
  <2>7. h \in Highest(R)
    BY <2>6 DEF Highest
  <2> QED BY <2>7
<1> QED BY <1>1, <1>2, <1>3

\* As many of a finite set as can be told apart by their images.
LEMMA ToldApart ==
  ASSUME NEW S, NEW T, IsFiniteSet(T), NEW f \in [S -> T], \A a \in S, b \in S : f[a] = f[b] => a = b
  PROVE  IsFiniteSet(S) /\ Cardinality(S) <= Cardinality(T)
<1>1. f \in Injection(S, T)
  BY DEF Injection, IsInjective
<1> QED BY <1>1, FS_Injection

LEMMA ImageIsFinite ==
  ASSUME NEW S, NEW T, IsFiniteSet(S), NEW f \in [S -> T], \A t \in T : \E s \in S : f[s] = t
  PROVE  IsFiniteSet(T)
<1>1. f \in Surjection(S, T)
  BY DEF Surjection
<1> QED BY <1>1, FS_Surjection

Results == {[entry |-> EntryOf[p], score |-> n] : p \in Points, n \in Nat}

LEMMA ResultIs ==
  ASSUME NEW r \in Results
  PROVE  r = [entry |-> r.entry, score |-> r.score] /\ r.score \in Nat
BY DEF Results

\* An entry that is close enough has its place among the results, or TopK others have.
HasPlace(R, e, c) ==
  \/ \E s \in R : s.entry = e /\ s.score >= c
  \/ \E T \in SUBSET R : /\ Cardinality(T) = TopK /\ OnePerEntry(T)
                         /\ \A t \in T : t.entry # e /\ t.score >= c

\* And keeps it when the results are ranked, one per entry, and cut to TopK.
LEMMA RankedIs ==
  ASSUME NEW R \in SUBSET Results, IsFiniteSet(R), NEW T \in Leading(Highest(R), TopK)
  PROVE  /\ T \subseteq R /\ IsFiniteSet(T) /\ Cardinality(T) <= TopK /\ OnePerEntry(T)
         /\ \A e : \A c \in Nat : HasPlace(R, e, c) =>
              \/ \E s \in T : s.entry = e /\ s.score >= c
              \/ Cardinality(T) = TopK /\ \A t \in T : t.entry # e /\ t.score >= c
<1>1. Scored(R) /\ TopK \in Nat
  BY ResultIs, RetrievalAssumption DEF Scored
<1>2. /\ Highest(R) \subseteq R /\ Scored(Highest(R))
      /\ \A r \in R : \E h \in Highest(R) : h.entry = r.entry /\ h.score >= r.score
  BY <1>1, HighestIs
<1>3. /\ T \subseteq Highest(R) /\ Scored(T) /\ Cardinality(T) <= TopK
      /\ \A i \in Highest(R) \ T : Cardinality(T) = TopK /\ \A t \in T : t.score >= i.score
  BY <1>1, <1>2, LeadingIs
<1>4. OnePerEntry(Highest(R))
  <2> SUFFICES ASSUME NEW r \in Highest(R), NEW s \in Highest(R), r.entry = s.entry PROVE r = s
    BY DEF OnePerEntry
  <2>1. r \in Results /\ s \in Results
    BY <1>2
  <2>2. r.score <= s.score /\ s.score <= r.score
    BY <1>2 DEF Highest
  <2>3. r.score = s.score
    BY <2>1, <2>2, ResultIs
  <2> QED BY <2>1, <2>3, ResultIs
<1>5. ASSUME NEW e, NEW c \in Nat, HasPlace(R, e, c)
      PROVE  \/ \E s \in T : s.entry = e /\ s.score >= c
             \/ Cardinality(T) = TopK /\ \A t \in T : t.entry # e /\ t.score >= c
  <2>1. CASE \E s \in R : s.entry = e /\ s.score >= c
    <3>1. PICK h \in Highest(R) : h.entry = e /\ h.score >= c
      <4>1. PICK s \in R : s.entry = e /\ s.score >= c
        BY <2>1
      <4>2. PICK h \in Highest(R) : h.entry = s.entry /\ h.score >= s.score
        BY <1>2
      <4> QED BY <1>1, <1>2, <4>1, <4>2 DEF Scored
    <3>2. CASE h \in T
      BY <3>1, <3>2
    <3>3. CASE h \notin T
      <4>1. Cardinality(T) = TopK /\ \A t \in T : t.score >= c
        BY <1>2, <1>3, <3>1, <3>3 DEF Scored
      <4> QED BY <4>1
    <3> QED BY <3>2, <3>3
  <2>2. CASE \E U \in SUBSET R : /\ Cardinality(U) = TopK /\ OnePerEntry(U)
                                 /\ \A t \in U : t.entry # e /\ t.score >= c
    <3>1. PICK U \in SUBSET R : /\ Cardinality(U) = TopK /\ OnePerEntry(U)
                                /\ \A t \in U : t.entry # e /\ t.score >= c
      BY <2>2
    <3> DEFINE f == [u \in U |-> CHOOSE h \in Highest(R) : h.entry = u.entry /\ h.score >= u.score]
    <3>2. \A u \in U : f[u] \in Highest(R) /\ f[u].entry = u.entry /\ f[u].score >= u.score
      BY <1>2
    <3>3. \A u \in U : f[u].score >= c
      BY <1>1, <1>2, <3>1, <3>2 DEF Scored
    <3>4. \A a \in U, b \in U : f[a] = f[b] => a = b
      <4> HIDE DEF f
      <4> QED BY <3>1, <3>2 DEF OnePerEntry
    <3>5. f \in [U -> Highest(R)]
      BY <3>2
    <3> HIDE DEF f
    <3>6. SUFFICES ASSUME NEW a \in T, a.score < c PROVE FALSE
      <4>1. \A t \in T : t.score >= c
        BY <3>6, <1>3 DEF Scored
      <4>2. Cardinality(T) = TopK
        <5>1. CASE T = Highest(R)
          <6>1. Cardinality(U) <= Cardinality(T)
            BY <3>4, <3>5, <5>1, <1>3, ToldApart DEF Scored
          <6>2. Cardinality(T) \in Nat
            BY <1>3, FS_CardinalityType DEF Scored
          <6> QED BY <1>1, <1>3, <3>1, <6>1, <6>2
        <5>2. CASE T # Highest(R)
          BY <5>2, <1>3
        <5> QED BY <5>1, <5>2
      <4> QED BY <4>1, <4>2
    <3>7. \A u \in U : f[u] \in T \ {a}
      <4>1. ASSUME NEW u \in U PROVE f[u] \in T \ {a}
        <5>1. f[u] # a
          BY <3>3, <3>6, <1>3 DEF Scored
        <5>2. f[u] \in T
          <6>1. SUFFICES ASSUME f[u] \notin T PROVE FALSE
            OBVIOUS
          <6>2. a.score >= f[u].score /\ f[u].score >= c /\ f[u].score \in Nat /\ a.score \in Nat
            BY <1>2, <1>3, <3>2, <3>3, <6>1 DEF Scored
          <6> QED BY <6>2, <3>6
        <5> QED BY <5>1, <5>2
      <4> QED BY <4>1
    <3>8. f \in [U -> T \ {a}]
      BY <3>5, <3>7
    <3>9. IsFiniteSet(T \ {a}) /\ Cardinality(T \ {a}) = Cardinality(T) - 1
      BY <1>3, FS_RemoveElement DEF Scored
    <3>10. Cardinality(U) <= Cardinality(T \ {a})
      BY <3>4, <3>8, <3>9, ToldApart
    <3>11. Cardinality(T) \in Nat
      BY <1>3, FS_CardinalityType DEF Scored
    <3> QED BY <1>1, <1>3, <3>1, <3>9, <3>10, <3>11
  <2> QED BY <1>5, <2>1, <2>2 DEF HasPlace
<1>6. T \subseteq R /\ IsFiniteSet(T) /\ Cardinality(T) <= TopK
  BY <1>2, <1>3 DEF Scored
<1>7. OnePerEntry(T)
  BY <1>3, <1>4 DEF OnePerEntry
<1> QED BY <1>5, <1>6, <1>7

\* What one probe finds.
Close(probe, p, q) == closeness[probe][q] >= closeness[probe][p]

LEMMA FoundIs ==
  ASSUME closeness \in [Probes -> [Points -> Nat]], collection \subseteq Points,
         NEW probe \in Probes, NEW scope, NEW found \in Found(probe, scope)
  PROVE  /\ found \subseteq Results /\ IsFiniteSet(found) /\ Cardinality(found) <= TopK
         /\ OnePerEntry(found)
         /\ \A r \in found : \E p \in collection :
              Matches(p, scope) /\ EntryOf[p] = r.entry /\ closeness[probe][p] = r.score
         /\ \A p \in collection : Matches(p, scope) =>
              \/ HasPlace(found, EntryOf[p], closeness[probe][p])
              \/ Cardinality({q \in collection \ {p} : Matches(q, scope) /\ Close(probe, p, q)})
                   >= TopK * OverFetch
<1> DEFINE Here == {q \in collection : Matches(q, scope)}
           items == {[point |-> p, score |-> closeness[probe][p]] : p \in Here}
           Of(H) == {[entry |-> EntryOf[h.point], score |-> h.score] : h \in H}
<1>1. PICK hits \in Leading(items, Fetched) : found \in Leading(Highest(Of(hits)), TopK)
  BY DEF Found
<1>2. IsFiniteSet(Here) /\ Here \subseteq Points
  BY RetrievalAssumption, FS_Subset
<1>3. /\ \A a \in items : a.point \in Here /\ a.score = closeness[probe][a.point] /\ a.score \in Nat
      /\ \A p \in Here : [point |-> p, score |-> closeness[probe][p]] \in items
      /\ \A a \in items, b \in items : a.point = b.point => a = b
  BY <1>2
<1>4. Scored(items)
  <2> DEFINE f == [p \in Here |-> [point |-> p, score |-> closeness[probe][p]]]
  <2>1. f \in [Here -> items] /\ \A t \in items : \E p \in Here : f[p] = t
    OBVIOUS
  <2> HIDE DEF f, items, Here
  <2>2. IsFiniteSet(items)
    BY <1>2, <2>1, ImageIsFinite
  <2> QED BY <1>3, <2>2 DEF Scored
<1>5. Fetched \in Nat /\ Fetched = TopK * OverFetch
  BY RetrievalAssumption DEF Fetched
<1>6. \A r \in Of(hits) : \E h \in hits : r.entry = EntryOf[h.point] /\ r.score = h.score
  OBVIOUS
<1>7. ASSUME NEW h \in hits
      PROVE  \E r \in Of(hits) : r.entry = EntryOf[h.point] /\ r.score = h.score
  <2> DEFINE r == [entry |-> EntryOf[h.point], score |-> h.score]
  <2>1. r \in Of(hits)
    BY Zenon
  <2> HIDE DEF Of
  <2> QED BY <2>1
<1> HIDE DEF items
<1>8. /\ hits \subseteq items /\ Scored(hits) /\ Cardinality(hits) <= Fetched
      /\ \A i \in items \ hits : Cardinality(hits) = Fetched /\ \A t \in hits : t.score >= i.score
  BY <1>1, <1>4, <1>5, LeadingIs
<1>9. Of(hits) \subseteq Results /\ IsFiniteSet(Of(hits))
  <2> DEFINE f == [h \in hits |-> [entry |-> EntryOf[h.point], score |-> h.score]]
  <2>1. f \in [hits -> Of(hits)] /\ \A t \in Of(hits) : \E h \in hits : f[h] = t
    OBVIOUS
  <2>2. Of(hits) \subseteq Results
    BY <1>2, <1>3, <1>8 DEF Results
  <2> HIDE DEF f, Of
  <2> QED BY <1>8, <2>1, <2>2, ImageIsFinite DEF Scored
<1> HIDE DEF Of, Here
<1>10. /\ found \subseteq Of(hits) /\ IsFiniteSet(found) /\ Cardinality(found) <= TopK
       /\ OnePerEntry(found)
       /\ \A e : \A c \in Nat : HasPlace(Of(hits), e, c) =>
            \/ \E s \in found : s.entry = e /\ s.score >= c
            \/ Cardinality(found) = TopK /\ \A t \in found : t.entry # e /\ t.score >= c
  BY <1>1, <1>9, RankedIs
<1>11. ASSUME NEW e, NEW c \in Nat, HasPlace(Of(hits), e, c) PROVE HasPlace(found, e, c)
  BY <1>10, <1>11 DEF HasPlace
<1>12. ASSUME NEW r \in found
       PROVE  \E p \in collection :
                Matches(p, scope) /\ EntryOf[p] = r.entry /\ closeness[probe][p] = r.score
  <2>1. PICK h \in hits : r.entry = EntryOf[h.point] /\ r.score = h.score
    BY <1>6, <1>10
  <2> QED BY <1>3, <1>8, <2>1 DEF Here
<1>13. ASSUME NEW p \in collection, Matches(p, scope)
       PROVE  \/ HasPlace(found, EntryOf[p], closeness[probe][p])
              \/ Cardinality({q \in collection \ {p} : Matches(q, scope) /\ Close(probe, p, q)})
                   >= TopK * OverFetch
  <2> DEFINE i == [point |-> p, score |-> closeness[probe][p]]
             Others == {q \in collection \ {p} : Matches(q, scope) /\ Close(probe, p, q)}
  <2>1. p \in Here /\ i \in items /\ i.point = p /\ i.score = closeness[probe][p] /\ i.score \in Nat
    BY <1>3, <1>13 DEF Here
  <2> HIDE DEF i
  <2>2. CASE i \in hits
    <3>1. PICK r \in Of(hits) : r.entry = EntryOf[i.point] /\ r.score = i.score
      BY <1>7, <2>2
    <3>2. HasPlace(Of(hits), EntryOf[p], closeness[probe][p])
      BY <2>1, <3>1 DEF HasPlace
    <3> QED BY <1>11, <2>1, <3>2
  <2>3. CASE i \notin hits
    <3>1. Cardinality(hits) = Fetched /\ \A t \in hits : t.score >= i.score
      BY <1>8, <2>1, <2>3
    <3> DEFINE f == [h \in hits |-> h.point]
    <3>2. \A h \in hits : h.point \in Others
      BY <1>3, <1>8, <2>1, <2>3, <3>1 DEF Here, Close
    <3>3. \A a \in hits, b \in hits : f[a] = f[b] => a = b
      BY <1>3, <1>8
    <3>4. f \in [hits -> Others]
      <4> HIDE DEF Others
      <4> QED BY <3>2
    <3>5. IsFiniteSet(Others)
      BY RetrievalAssumption, FS_Subset
    <3> HIDE DEF f, Others
    <3>6. Cardinality(hits) <= Cardinality(Others)
      BY <3>3, <3>4, <3>5, ToldApart
    <3>7. Cardinality(Others) \in Nat
      BY <3>5, FS_CardinalityType
    <3>8. Cardinality(Others) >= TopK * OverFetch
      BY <1>5, <3>1, <3>6, <3>7
    <3> QED BY <3>8 DEF Others
  <2> QED BY <2>2, <2>3
<1> QED BY <1>9, <1>10, <1>12, <1>13

-----------------------------------------------------------------------------
Scopes == Scopings \cup
  [types : {Anything} \cup {{TypeOf[p]} : p \in Points}, categories : {Anything}]
QuestionStates ==
  [pc : {"none", "probing", "generating", "shown", "failed"}, via : {"search", "generate", "stream"},
   scope : Scopes \cup {NoQuestion.scope}, left : SUBSET Probes, results : SUBSET Results,
   sources : SUBSET Results]

RetrievalType ==
  /\ closeness \in [Probes -> [Points -> Nat]] /\ collection \subseteq Points
  /\ question \in QuestionStates /\ present \subseteq Points /\ steady \subseteq Points
  /\ asked \subseteq Probes

\* The result is the score of a chunk the question may see.
Backed(r) ==
  \E p \in present \cap Allowed, i \in asked : EntryOf[p] = r.entry /\ closeness[i][p] = r.score

Rivals(i, p) == {q \in (present \cap Allowed) \ {p} : closeness[i][q] >= closeness[i][p]}
Crowded(i, p) == Cardinality(Rivals(i, p)) >= TopK * OverFetch

\* While it is probed, a question has of every probe run what is close enough.
Probed ==
  /\ steady \subseteq collection /\ collection \subseteq present
  /\ question.left \subseteq asked /\ IsFiniteSet(question.results)
  /\ \A r \in question.results : Backed(r)
  /\ question.via = "search" =>
       /\ Cardinality(question.results) <= TopK /\ OnePerEntry(question.results)
       /\ \E i \in asked : asked = {i}
       /\ question.left = {} \/ question.results = {}
  /\ \A i \in asked \ question.left, p \in steady \cap Allowed :
       HasPlace(question.results, EntryOf[p], closeness[i][p]) \/ Crowded(i, p)

RetrievalInv ==
  /\ RetrievalType
  /\ question.pc = "probing" => Probed
  /\ question.pc \in {"generating", "shown"} => SourcesBacked /\ NothingBetter

LEMMA NoQuestionIs ==
  /\ NoQuestion \in QuestionStates /\ NoQuestion.pc = "none" /\ NoQuestion.results = {}
  /\ NoQuestion.sources = {} /\ NoQuestion.left = {}
BY DEF NoQuestion, QuestionStates

LEMMA RetrievalInitial == RetrievalInit => RetrievalInv
BY NoQuestionIs, RetrievalAssumption DEF RetrievalInit, RetrievalInv, RetrievalType

\* What is stored meanwhile makes more rivals, never fewer.
LEMMA RivalsGrow ==
  ASSUME RetrievalType, question'.scope = question.scope, UNCHANGED closeness,
         present \subseteq present', present' \subseteq Points, NEW i, NEW p, Crowded(i, p)
  PROVE  Crowded(i, p)'
<1>1. Rivals(i, p) \subseteq Rivals(i, p)'
  BY DEF Rivals, Allowed, Permits
<1>2. IsFiniteSet(Rivals(i, p)')
  BY RetrievalAssumption, FS_Subset DEF Rivals
<1>3. /\ Cardinality(Rivals(i, p)) <= Cardinality(Rivals(i, p)')
      /\ Cardinality(Rivals(i, p)) \in Nat /\ Cardinality(Rivals(i, p)') \in Nat
  <2> DEFINE S == Rivals(i, p)
             T == Rivals(i, p)'
  <2> HIDE DEF S, T
  <2>1. S \subseteq T /\ IsFiniteSet(T)
    BY <1>1, <1>2 DEF S, T
  <2>2. IsFiniteSet(S) /\ Cardinality(S) <= Cardinality(T)
    BY <2>1, FS_Subset
  <2>3. Cardinality(S) \in Nat /\ Cardinality(T) \in Nat
    BY <2>1, <2>2, FS_CardinalityType
  <2> QED BY <2>2, <2>3 DEF S, T
<1>4. TopK * OverFetch \in Nat
  BY RetrievalAssumption
<1> QED BY <1>3, <1>4 DEF Crowded

\* The sources shown stay sound, whatever the collection becomes.
LEMMA SourcesKept ==
  ASSUME RetrievalType, SourcesBacked, NothingBetter, UNCHANGED <<closeness, asked>>,
         question'.scope = question.scope, question'.sources = question.sources,
         question'.via = question.via,
         present \subseteq present', present' \subseteq Points, steady' \subseteq steady
  PROVE  SourcesBacked' /\ NothingBetter'
<1>1. Allowed' = Allowed
  BY DEF Allowed, Permits
<1>2. SourcesBacked'
  BY <1>1 DEF SourcesBacked
<1>3. ASSUME NEW i \in asked, NEW p \in steady' \cap Allowed,
             question.via = "search" \/ closeness[i][p] >= MinRelevant
      PROVE  \/ \E s \in question.sources : s.entry = EntryOf[p] /\ s.score >= closeness[i][p]
             \/ Cardinality({s \in question.sources :
                               s.entry # EntryOf[p] /\ s.score >= closeness[i][p]}) >= TopK
             \/ Crowded(i, p)'
  <2>1. \/ \E s \in question.sources : s.entry = EntryOf[p] /\ s.score >= closeness[i][p]
        \/ Cardinality({s \in question.sources :
                          s.entry # EntryOf[p] /\ s.score >= closeness[i][p]}) >= TopK
        \/ Crowded(i, p)
    BY <1>3, Zenon DEF NothingBetter, Crowded, Rivals
  <2> QED BY <2>1, RivalsGrow
<1>4. NothingBetter'
  BY <1>1, <1>3 DEF NothingBetter, Crowded, Rivals
<1> QED BY <1>2, <1>4

LEMMA StoreMoves ==
  ASSUME RetrievalInv, UNCHANGED <<question, closeness, asked>>,
         collection' \subseteq Points, present \subseteq present', present' \subseteq Points,
         steady' \subseteq steady,
         question.pc = "probing" => steady' \subseteq collection' /\ collection' \subseteq present'
  PROVE  RetrievalInv'
<1>1. RetrievalType'
  BY DEF RetrievalInv, RetrievalType
<1>2. Allowed' = Allowed
  BY DEF Allowed, Permits
<1>3. ASSUME question.pc = "probing" PROVE Probed'
  <2>1. Probed
    BY <1>3 DEF RetrievalInv
  <2>2. \A r \in question.results : Backed(r)'
    BY <1>2, <2>1 DEF Probed, Backed
  <2>3. ASSUME NEW i \in asked \ question.left, NEW p \in steady' \cap Allowed
        PROVE  HasPlace(question.results, EntryOf[p], closeness[i][p]) \/ Crowded(i, p)'
    <3>1. HasPlace(question.results, EntryOf[p], closeness[i][p]) \/ Crowded(i, p)
      BY <2>1 DEF Probed
    <3> QED BY <3>1, RivalsGrow DEF RetrievalInv
  <2> QED BY <1>2, <1>3, <2>1, <2>2, <2>3 DEF Probed, HasPlace
<1>4. ASSUME question.pc \in {"generating", "shown"} PROVE SourcesBacked' /\ NothingBetter'
  BY <1>4, SourcesKept DEF RetrievalInv
<1> QED BY <1>1, <1>3, <1>4 DEF RetrievalInv

LEMMA StorePointStep ==
  ASSUME RetrievalInv, NEW p \in Points, StorePoint(p)
  PROVE  RetrievalInv'
BY StoreMoves DEF StorePoint, RetrievalInv, RetrievalType, Probed

LEMMA DropEntryStep ==
  ASSUME RetrievalInv, NEW e, DropEntry(e)
  PROVE  RetrievalInv'
BY StoreMoves DEF DropEntry, RetrievalInv, RetrievalType, Probed

\* A new question: nothing is probed yet.
LEMMA BeginStep ==
  ASSUME RetrievalInv, NEW via \in {"search", "generate", "stream"}, NEW scope \in Scopes,
         NEW probes \in SUBSET Probes, Begin(via, scope, probes),
         via = "search" => \E i : probes = {i}
  PROVE  RetrievalInv'
<1> DEFINE q == [pc |-> "probing", via |-> via, scope |-> scope, left |-> probes,
                 results |-> {}, sources |-> {}]
<1>1. question' = q
  BY Zenon DEF Begin, NoQuestion
<1>2. q \in QuestionStates
  BY DEF QuestionStates
<1>3. /\ q.pc = "probing" /\ q.via = via /\ q.scope = scope /\ q.left = probes /\ q.results = {}
  OBVIOUS
<1> HIDE DEF q
<1>4. UNCHANGED <<collection, closeness>> /\ present' = collection /\ steady' = collection
      /\ asked' = probes
  BY DEF Begin
<1>5. RetrievalType'
  BY <1>1, <1>2, <1>4 DEF RetrievalInv, RetrievalType
<1>6. /\ IsFiniteSet(question'.results) /\ Cardinality(question'.results) <= TopK
      /\ OnePerEntry(question'.results)
  BY <1>1, <1>3, FS_EmptySet, RetrievalAssumption DEF OnePerEntry
<1>7. /\ asked' \ question'.left = {} /\ question'.left = asked' /\ question'.results = {}
      /\ steady' \subseteq collection' /\ collection' \subseteq present'
      /\ question'.via = "search" => \E i \in asked' : asked' = {i}
  BY <1>1, <1>3, <1>4
<1>8. Probed'
  BY <1>6, <1>7 DEF Probed
<1> QED BY <1>1, <1>3, <1>5, <1>8 DEF RetrievalInv

LEMMA ExtractQueriesStep ==
  ASSUME RetrievalInv, NEW via \in {"generate", "stream"}, NEW scope \in Scopings,
         NEW probes \in SUBSET Probes, ExtractQueries(via, scope, probes)
  PROVE  RetrievalInv'
BY BeginStep DEF ExtractQueries, Scopes

LEMMA SearchKnowledgeStep ==
  ASSUME RetrievalInv, NEW probe \in Probes, NEW p \in Points, NEW any \in BOOLEAN,
         SearchKnowledge(probe, IF any THEN Anything ELSE {TypeOf[p]})
  PROVE  RetrievalInv'
<1> DEFINE scope == [types |-> IF any THEN Anything ELSE {TypeOf[p]}, categories |-> Anything]
<1>1. scope \in Scopes
  BY DEF Scopes
<1>2. Begin("search", scope, {probe})
  BY DEF SearchKnowledge
<1> HIDE DEF scope
<1> QED BY <1>1, <1>2, BeginStep

\* What a probe makes of the question.
Run(q, probe, found) == [q EXCEPT !.left = @ \ {probe}, !.results = @ \cup found]

LEMMA RunIs ==
  ASSUME NEW q \in QuestionStates, NEW probe, NEW found \in SUBSET Results
  PROVE  /\ Run(q, probe, found) \in QuestionStates /\ Run(q, probe, found).pc = q.pc
         /\ Run(q, probe, found).via = q.via /\ Run(q, probe, found).scope = q.scope
         /\ Run(q, probe, found).left = q.left \ {probe}
         /\ Run(q, probe, found).results = q.results \cup found
<1> DEFINE left == q.left \ {probe}
           results == q.results \cup found
<1>1. left \in SUBSET Probes /\ results \in SUBSET Results
  BY DEF QuestionStates
<1>2. Run(q, probe, found) = [q EXCEPT !.left = left, !.results = results]
  BY Zenon DEF Run
<1> HIDE DEF left, results
<1>3. [q EXCEPT !.left = left, !.results = results] \in QuestionStates
  BY <1>1, Zenon DEF QuestionStates
<1>4. /\ Run(q, probe, found).pc = q.pc /\ Run(q, probe, found).via = q.via
      /\ Run(q, probe, found).scope = q.scope
      /\ Run(q, probe, found).left = left /\ Run(q, probe, found).results = results
  BY <1>2, Zenon DEF QuestionStates
<1> QED BY <1>2, <1>3, <1>4 DEF left, results

LEMMA MatchesIs == \A p, scope : Matches(p, scope) <=> Permits(scope, p)
BY DEF Matches, Permits

LEMMA RunProbeStep ==
  ASSUME RetrievalInv, NEW probe \in Probes, RunProbe(probe)
  PROVE  RetrievalInv'
<1>1. PICK found \in Found(probe, question.scope) : question' = Run(question, probe, found)
  BY Zenon DEF RunProbe, Run
<1>2. /\ question.pc = "probing" /\ probe \in question.left
      /\ UNCHANGED <<collection, closeness, present, steady, asked>>
  BY DEF RunProbe, Asking
<1>3. RetrievalType /\ Probed
  BY <1>2 DEF RetrievalInv
<1>4. /\ found \subseteq Results /\ IsFiniteSet(found) /\ Cardinality(found) <= TopK
      /\ OnePerEntry(found)
      /\ \A r \in found : \E p \in collection :
           /\ Matches(p, question.scope) /\ EntryOf[p] = r.entry /\ closeness[probe][p] = r.score
      /\ \A p \in collection : Matches(p, question.scope) =>
           \/ HasPlace(found, EntryOf[p], closeness[probe][p])
           \/ Cardinality({q \in collection \ {p} :
                             Matches(q, question.scope) /\ Close(probe, p, q)}) >= TopK * OverFetch
  BY <1>1, <1>3, FoundIs DEF RetrievalType
<1>5. /\ question' \in QuestionStates /\ question'.pc = "probing" /\ question'.via = question.via
      /\ question'.scope = question.scope /\ question'.left = question.left \ {probe}
      /\ question'.results = question.results \cup found
  BY <1>1, <1>2, <1>3, <1>4, RunIs DEF RetrievalType
<1>6. \A p : p \in Allowed <=> p \in Points /\ Matches(p, question.scope)
  BY MatchesIs DEF Allowed
<1>7. Allowed' = Allowed
  BY <1>5 DEF Allowed, Permits
<1>8. \A r \in question'.results : Backed(r)'
  <2>1. ASSUME NEW r \in found PROVE Backed(r)
    <3>1. PICK p \in collection :
            Matches(p, question.scope) /\ EntryOf[p] = r.entry /\ closeness[probe][p] = r.score
      BY <1>4
    <3>2. p \in present \cap Allowed /\ probe \in asked
      BY <1>2, <1>3, <1>6, <3>1 DEF RetrievalType, Probed
    <3> QED BY <3>1, <3>2 DEF Backed
  <2>2. \A r \in question'.results : Backed(r)
    BY <1>3, <1>5, <2>1 DEF Probed
  <2> QED BY <1>2, <1>7, <2>2 DEF Backed
<1>9. ASSUME NEW i \in asked \ question'.left, NEW p \in steady \cap Allowed
      PROVE  HasPlace(question'.results, EntryOf[p], closeness[i][p]) \/ Crowded(i, p)'
  <2>1. HasPlace(question.results, EntryOf[p], closeness[i][p])
          \/ HasPlace(found, EntryOf[p], closeness[i][p]) => HasPlace(question'.results, EntryOf[p], closeness[i][p])
    BY <1>5 DEF HasPlace
  <2>2. Crowded(i, p) => Crowded(i, p)'
    BY <1>2, <1>5, <1>7 DEF Crowded, Rivals
  <2>3. CASE i # probe
    BY <1>3, <1>5, <2>1, <2>2, <2>3 DEF Probed
  <2>4. CASE i = probe
    <3> DEFINE Others == {q \in collection \ {p} : Matches(q, question.scope) /\ Close(probe, p, q)}
    <3>1. p \in collection /\ Matches(p, question.scope)
      BY <1>3, <1>6 DEF Probed
    <3>2. HasPlace(found, EntryOf[p], closeness[probe][p]) \/ Cardinality(Others) >= TopK * OverFetch
      BY <1>4, <3>1
    <3>3. Others \subseteq Rivals(probe, p)
      BY <1>3, <1>6 DEF Probed, RetrievalType, Rivals, Close
    <3>4. IsFiniteSet(Rivals(probe, p)) /\ IsFiniteSet(Others)
      <4>1. Rivals(probe, p) \in SUBSET Points
        BY <1>3 DEF Rivals, RetrievalType
      <4> HIDE DEF Others
      <4>2. IsFiniteSet(Rivals(probe, p))
        BY <4>1, RetrievalAssumption, FS_Subset
      <4> QED BY <3>3, <4>2, FS_Subset
    <3> HIDE DEF Others
    <3>5. Cardinality(Others) <= Cardinality(Rivals(probe, p))
      BY <3>3, <3>4, FS_Subset
    <3>6. Cardinality(Others) \in Nat /\ Cardinality(Rivals(probe, p)) \in Nat /\ TopK * OverFetch \in Nat
      BY <3>4, FS_CardinalityType, RetrievalAssumption
    <3>7. Cardinality(Others) >= TopK * OverFetch => Crowded(probe, p)
      BY <3>5, <3>6 DEF Crowded
    <3> QED BY <2>1, <2>2, <2>4, <3>2, <3>7
  <2> QED BY <2>3, <2>4
<1>10. question.via = "search" =>
         /\ Cardinality(question'.results) <= TopK /\ OnePerEntry(question'.results)
         /\ \E i \in asked : asked = {i}
         /\ question'.left = {} \/ question'.results = {}
  <2> SUFFICES ASSUME question.via = "search"
               PROVE /\ question.results = {} /\ question'.left = {}
                     /\ \E i \in asked : asked = {i}
    BY <1>4, <1>5
  <2> QED BY <1>2, <1>3, <1>5 DEF Probed
<1>11. IsFiniteSet(question'.results) /\ question'.left \subseteq asked
  <2>1. IsFiniteSet(question.results \cup found)
    BY <1>3, <1>4, FS_Union DEF Probed
  <2> QED BY <1>3, <1>5, <2>1 DEF Probed
<1>12. Probed'
  BY <1>2, <1>3, <1>5, <1>7, <1>8, <1>9, <1>10, <1>11 DEF Probed, HasPlace
<1> QED BY <1>2, <1>3, <1>5, <1>12 DEF RetrievalInv, RetrievalType

\* What ends a question without an answer.
LEMMA FailureIs ==
  ASSUME RetrievalInv, question' = [NoQuestion EXCEPT !.pc = "failed"],
         UNCHANGED <<collection, closeness, present, steady, asked>>
  PROVE  RetrievalInv'
<1>1. question' \in QuestionStates /\ question'.pc = "failed"
  BY NoQuestionIs DEF QuestionStates
<1> QED BY <1>1 DEF RetrievalInv, RetrievalType

SourceOf(sources, e, c) ==
  \/ \E s \in sources : s.entry = e /\ s.score >= c
  \/ Cardinality({s \in sources : s.entry # e /\ s.score >= c}) >= TopK

\* The sources come of the results: what was close enough to a probe is among them, or
\* TopK others are, or its rivals filled what was fetched.
LEMMA SourcesCome ==
  ASSUME RetrievalType, question.pc = "probing", Probed, question.left = {},
         NEW sources \in SUBSET question.results,
         question'.sources = sources, question'.scope = question.scope,
         question'.via = question.via,
         UNCHANGED <<closeness, present, steady, asked>>,
         IsFiniteSet(sources), Cardinality(sources) <= TopK, OnePerEntry(sources),
         question.via # "search" => \A s \in sources : s.score >= MinRelevant,
         \A e : \A c \in Nat :
           (question.via = "search" \/ c >= MinRelevant) /\ HasPlace(question.results, e, c) =>
             SourceOf(sources, e, c)
  PROVE  SourcesBacked' /\ NothingBetter'
<1>1. Allowed' = Allowed
  BY DEF Allowed, Permits
<1>2. SourcesBacked'
  BY <1>1 DEF SourcesBacked, Probed, Backed, OnePerEntry
<1>3. ASSUME NEW i \in asked, NEW p \in steady \cap Allowed,
             question.via = "search" \/ closeness[i][p] >= MinRelevant
      PROVE  SourceOf(sources, EntryOf[p], closeness[i][p]) \/ Crowded(i, p)
  <2>1. HasPlace(question.results, EntryOf[p], closeness[i][p]) \/ Crowded(i, p)
    BY DEF Probed
  <2>2. closeness[i][p] \in Nat
    BY DEF RetrievalType
  <2> QED BY <1>3, <2>1, <2>2
<1>4. NothingBetter'
  BY <1>1, <1>3 DEF NothingBetter, SourceOf, Crowded, Rivals
<1> QED BY <1>2, <1>4

LEMMA RankSourcesStep ==
  ASSUME RetrievalInv, RankSources
  PROVE  RetrievalInv'
<1>1. PICK ranked \in Leading(Highest(question.results), TopK) :
        question' = [question EXCEPT
          !.sources = BuildContext(ranked), !.results = {},
          !.pc = IF question.via = "stream" THEN "shown" ELSE "generating"]
  BY DEF RankSources
<1>2. /\ question.pc = "probing" /\ question.left = {} /\ question.via # "search"
      /\ UNCHANGED <<collection, closeness, present, steady, asked>>
  BY DEF RankSources, Asking
<1>3. RetrievalType /\ Probed
  BY <1>2 DEF RetrievalInv
<1>4. question.results \in SUBSET Results /\ IsFiniteSet(question.results)
  BY <1>3 DEF RetrievalType, QuestionStates, Probed
<1>5. /\ ranked \subseteq question.results /\ IsFiniteSet(ranked) /\ Cardinality(ranked) <= TopK
      /\ OnePerEntry(ranked)
      /\ \A e : \A c \in Nat : HasPlace(question.results, e, c) =>
           \/ \E s \in ranked : s.entry = e /\ s.score >= c
           \/ Cardinality(ranked) = TopK /\ \A t \in ranked : t.entry # e /\ t.score >= c
  BY <1>4, RankedIs
<1> DEFINE sources == BuildContext(ranked)
           pc == IF question.via = "stream" THEN "shown" ELSE "generating"
<1>6. question' = [question EXCEPT !.sources = sources, !.results = {}, !.pc = pc]
  BY <1>1, Zenon
<1>7. sources \subseteq ranked /\ \A s \in ranked : s \in sources <=> s.score >= MinRelevant
  BY DEF BuildContext
<1>8. sources \in SUBSET Results /\ pc \in {"generating", "shown"}
      /\ {} \in SUBSET Results /\ pc \in {"none", "probing", "generating", "shown", "failed"}
  BY <1>4, <1>5, <1>7
<1>9. \A r \in Results : r.score \in Nat
  BY ResultIs
<1> HIDE DEF sources, pc
<1>10. /\ question' \in QuestionStates /\ question'.pc = pc /\ question'.sources = sources
       /\ question'.scope = question.scope /\ question'.via = question.via
  <2>1. question \in QuestionStates
    BY <1>3 DEF RetrievalType
  <2> QED BY <1>6, <1>8, <2>1, Zenon DEF QuestionStates
<1>11. IsFiniteSet(sources) /\ Cardinality(sources) <= TopK /\ OnePerEntry(sources)
  <2>1. IsFiniteSet(sources) /\ Cardinality(sources) <= Cardinality(ranked)
    BY <1>5, <1>7, FS_Subset
  <2>2. Cardinality(sources) \in Nat /\ Cardinality(ranked) \in Nat /\ TopK \in Nat
    BY <1>5, <2>1, FS_CardinalityType, RetrievalAssumption
  <2> QED BY <1>5, <1>7, <2>1, <2>2 DEF OnePerEntry
<1>12. ASSUME NEW e, NEW c \in Nat, c >= MinRelevant, HasPlace(question.results, e, c)
       PROVE  SourceOf(sources, e, c)
  <2>1. CASE \E s \in ranked : s.entry = e /\ s.score >= c
    <3>1. PICK s \in ranked : s.entry = e /\ s.score >= c
      BY <2>1
    <3>2. s.score >= MinRelevant
      BY <1>4, <1>5, <1>9, <1>12, <3>1, RetrievalAssumption
    <3> QED BY <1>7, <3>1, <3>2 DEF SourceOf
  <2>2. CASE Cardinality(ranked) = TopK /\ \A t \in ranked : t.entry # e /\ t.score >= c
    <3>1. \A t \in ranked : t.score >= MinRelevant
      BY <1>4, <1>5, <1>9, <1>12, <2>2, RetrievalAssumption
    <3>2. {s \in sources : s.entry # e /\ s.score >= c} = ranked
      BY <1>7, <2>2, <3>1
    <3>3. Cardinality({s \in sources : s.entry # e /\ s.score >= c}) = TopK
      BY <2>2, <3>2, Zenon
    <3> QED BY <3>3, RetrievalAssumption DEF SourceOf
  <2> QED BY <1>5, <1>12, <2>1, <2>2
<1>13. \A s \in sources : s.score >= MinRelevant
  BY <1>7
<1>14. sources \in SUBSET question.results
  BY <1>5, <1>7
<1>15. SourcesBacked' /\ NothingBetter'
  BY <1>2, <1>3, <1>10, <1>11, <1>12, <1>13, <1>14, SourcesCome
<1>16. RetrievalType'
  BY <1>2, <1>3, <1>10 DEF RetrievalType
<1> QED BY <1>8, <1>10, <1>15, <1>16 DEF RetrievalInv

LEMMA ShowResultsStep ==
  ASSUME RetrievalInv, ShowResults
  PROVE  RetrievalInv'
<1>1. /\ question.pc = "probing" /\ question.left = {} /\ question.via = "search"
      /\ question' = [question EXCEPT !.pc = "shown", !.sources = question.results]
      /\ UNCHANGED <<collection, closeness, present, steady, asked>>
  BY DEF ShowResults, Asking
<1>2. RetrievalType /\ Probed
  BY <1>1 DEF RetrievalInv
<1>3. question \in QuestionStates /\ "shown" \in {"none", "probing", "generating", "shown", "failed"}
  BY <1>2 DEF RetrievalType
<1>4. /\ question' \in QuestionStates /\ question'.pc = "shown"
      /\ question'.sources = question.results
      /\ question'.scope = question.scope /\ question'.via = question.via
  BY <1>1, <1>3, Zenon DEF QuestionStates
<1>5. /\ IsFiniteSet(question.results) /\ Cardinality(question.results) <= TopK
      /\ OnePerEntry(question.results)
  BY <1>1, <1>2 DEF Probed
<1>6. ASSUME NEW e, NEW c \in Nat, HasPlace(question.results, e, c)
      PROVE  SourceOf(question.results, e, c)
  <2>1. CASE \E T \in SUBSET question.results :
               /\ Cardinality(T) = TopK /\ OnePerEntry(T) /\ \A t \in T : t.entry # e /\ t.score >= c
    <3>1. PICK T \in SUBSET question.results :
            Cardinality(T) = TopK /\ \A t \in T : t.entry # e /\ t.score >= c
      BY <2>1
    <3> DEFINE S == {s \in question.results : s.entry # e /\ s.score >= c}
    <3>2. T \subseteq S /\ IsFiniteSet(S)
      BY <1>5, <3>1, FS_Subset
    <3> HIDE DEF S
    <3>3. Cardinality(T) <= Cardinality(S) /\ Cardinality(S) \in Nat
      BY <3>2, FS_Subset, FS_CardinalityType
    <3>4. Cardinality(S) >= TopK
      BY <3>1, <3>3, RetrievalAssumption
    <3> QED BY <3>4 DEF S, SourceOf
  <2> QED BY <1>6, <2>1 DEF HasPlace, SourceOf
<1>7. SourcesBacked' /\ NothingBetter'
  BY <1>1, <1>2, <1>4, <1>5, <1>6, SourcesCome
<1>8. RetrievalType'
  BY <1>1, <1>2, <1>4 DEF RetrievalType
<1> QED BY <1>4, <1>7, <1>8 DEF RetrievalInv

LEMMA GenerateStep ==
  ASSUME RetrievalInv, Generate
  PROVE  RetrievalInv'
<1>1. /\ question.pc = "generating" /\ UNCHANGED <<collection, closeness, present, steady, asked>>
      /\ \/ question' = [question EXCEPT !.pc = "shown"]
         \/ question' = [NoQuestion EXCEPT !.pc = "failed"]
  BY DEF Generate, Asking
<1>2. CASE question' = [question EXCEPT !.pc = "shown"]
  <2>1. /\ question' \in QuestionStates /\ question'.pc = "shown"
        /\ question'.sources = question.sources /\ question'.scope = question.scope
        /\ question'.via = question.via
    BY <1>2 DEF RetrievalInv, RetrievalType, QuestionStates
  <2>2. SourcesBacked' /\ NothingBetter'
    BY <1>1, <2>1, SourcesKept DEF RetrievalInv, RetrievalType
  <2> QED BY <1>1, <2>1, <2>2 DEF RetrievalInv, RetrievalType
<1>3. CASE question' = [NoQuestion EXCEPT !.pc = "failed"]
  BY <1>1, <1>3, FailureIs
<1> QED BY <1>1, <1>2, <1>3

LEMMA RetrievalStep ==
  ASSUME RetrievalInv, [RetrievalNext]_retrievalVars
  PROVE  RetrievalInv'
<1>1. CASE UNCHANGED retrievalVars
  BY <1>1, StoreMoves DEF retrievalVars, RetrievalInv, RetrievalType, Probed
<1>2. ASSUME FailProbe PROVE RetrievalInv'
  BY <1>2, FailureIs DEF FailProbe
<1> QED BY <1>1, <1>2, StorePointStep, DropEntryStep, ExtractQueriesStep, SearchKnowledgeStep,
     RunProbeStep, RankSourcesStep, GenerateStep, ShowResultsStep
  DEF RetrievalNext

\* Every source shown is a chunk the asker may see, stored while the question ran, at its
\* own score, and none that was closer and stored throughout is left out, but for chunks
\* of one entry that filled all search() fetches.
THEOREM RetrievalIsSound == RetrievalSpec => []RetrievalSound
<1>1. RetrievalInv => RetrievalSound
  BY DEF RetrievalInv, RetrievalSound, Asking
<1> QED BY <1>1, RetrievalInitial, RetrievalStep, PTL DEF RetrievalSpec

-----------------------------------------------------------------------------
(* Training: TrainingSound for every number of threads, exchanges, entries *)
(* and traits and every limit.  The loop over the rows is a recursive      *)
(* function: what it returns (Taken) is an invariant of its prefixes       *)
(* (LoopInv), for all of which the least prefix that breaks it is refuted. *)
(* What makes the property inductive: where each pair comes from (Own) and *)
(* that none is there twice (Fitting); what was left out of the exchanges  *)
(* that were read, and why (SeenUsed); and, while nothing moves, that a    *)
(* generation makes one list of pairs and no other (Steady, Made): the     *)
(* order in which rows and entries are read is the only one (SortedUnique).*)

Roles == {"user", "assistant"}
Messages == [of : Turns, role : Roles, long : BOOLEAN, thread : Talks]
TurnStates == {Nothing} \cup Talks \X {"open", "committed"}
Pairs == [source : {"conversation", "knowledge", "personality"}, input : Nat, output : Nat]

-----------------------------------------------------------------------------
(* What the loop over the rows returns.                                     *)

LEMMA FirstOfAll ==
  ASSUME NEW T, T \subseteq Nat, T # {}
  PROVE  \E x \in T : \A y \in T : x <= y
<1>1. PICK x \in T : \A y \in T : <<y, x>> \notin OpToRel(<, Nat)
  BY NatLessThanWellFounded, WFMin
<1>2. \A y \in T : ~(y < x)
  BY <1>1 DEF OpToRel
<1> QED BY <1>2

Empty == [pairs |-> <<>>, prev |-> 0, thread |-> 0]
Looped(g, N, rows) ==
  g = [n \in 0..N |-> IF n = 0 THEN Empty ELSE TakeRow(g[n - 1], rows[n])]

LEMMA LoopsExist ==
  ASSUME NEW rows, NEW N \in Nat PROVE \E g : Looped(g, N, rows)
<1> DEFINE T == {n \in Nat : ~\E g : Looped(g, n, rows)}
<1> SUFFICES T = {}
  OBVIOUS
<1> SUFFICES ASSUME T # {} PROVE FALSE
  OBVIOUS
<1>1. PICK m \in T : \A k \in T : m <= k
  BY FirstOfAll
<1>2. CASE m = 0
  <2>1. Looped([n \in 0..0 |-> Empty], 0, rows)
    BY DEF Looped
  <2> QED BY <1>1, <1>2, <2>1
<1>3. CASE m # 0
  <2>1. m - 1 \in Nat /\ m - 1 \notin T
    BY <1>1, <1>3
  <2>2. PICK g : Looped(g, m - 1, rows)
    BY <2>1
  <2>3. PICK h : h = [n \in 0..m |-> IF n = m THEN TakeRow(g[m - 1], rows[m]) ELSE g[n]]
    OBVIOUS
  <2>4. \A n \in 0..m - 1 : h[n] = g[n]
    BY <1>1, <2>3
  <2>5. \A n \in 0..m - 1 : g[n] = IF n = 0 THEN Empty ELSE TakeRow(g[n - 1], rows[n])
    BY <2>2 DEF Looped
  <2>6. \A n \in 0..m : h[n] = IF n = 0 THEN Empty ELSE TakeRow(h[n - 1], rows[n])
    <3> SUFFICES ASSUME NEW n \in 0..m
                 PROVE  h[n] = IF n = 0 THEN Empty ELSE TakeRow(h[n - 1], rows[n])
      OBVIOUS
    <3>1. CASE n = m
      BY <1>1, <1>3, <2>3, <2>4, <3>1
    <3>2. CASE n # m /\ n # 0
      <4>1. n \in 0..m - 1 /\ n - 1 \in 0..m - 1
        BY <1>1, <3>2
      <4> QED BY <2>4, <2>5, <3>2, <4>1
    <3>3. CASE n # m /\ n = 0
      BY <1>1, <2>4, <2>5, <3>3
    <3> QED BY <3>1, <3>2, <3>3
  <2>7. Looped(h, m, rows)
    BY <2>3, <2>6 DEF Looped
  <2> QED BY <1>1, <2>7
<1> QED BY <1>2, <1>3

LEMMA PairsLoop ==
  ASSUME NEW rows, Len(rows) \in Nat
  PROVE  \E g : Looped(g, Len(rows), rows) /\ FromConversations(rows) = g[Len(rows)].pairs
<1> DEFINE g == CHOOSE taken :
                  taken = [n \in 0..Len(rows) |->
                            IF n = 0 THEN [pairs |-> <<>>, prev |-> 0, thread |-> 0]
                            ELSE TakeRow(taken[n - 1], rows[n])]
<1>1. FromConversations(rows) = g[Len(rows)].pairs
  BY Zenon DEF FromConversations
<1>2. \E h : h = [n \in 0..Len(rows) |->
                   IF n = 0 THEN [pairs |-> <<>>, prev |-> 0, thread |-> 0]
                   ELSE TakeRow(h[n - 1], rows[n])]
  BY LoopsExist DEF Looped, Empty
<1>3. Looped(g, Len(rows), rows)
  BY <1>2, Zenon DEF Looped, Empty
<1> QED BY <1>1, <1>3

Accs == [pairs : Seq(Pairs), prev : Nat, thread : Nat]
LongUser(row) == row.long /\ row.role = "user"

LEMMA TurnsAre == /\ Turns \subseteq Nat \ {0} /\ Talks \subseteq Nat \ {0}
                  /\ Facts \subseteq Nat \ {0} /\ Translated \subseteq Facts
                  /\ MaxPairs \in Nat \ {0} /\ FactLimit \in Nat \ {0} /\ PerSource \in Nat \ {0}
                  /\ Share \in Nat \ {0} /\ SampleCap \in Nat \ {0}
BY TrainingAssumption

LEMMA TakeRowIs ==
  ASSUME NEW acc \in Accs, NEW row \in Messages
  PROVE  LET after == TakeRow(acc, row)
             pairs == row.long /\ row.role = "assistant" /\ acc.thread = row.thread /\ acc.prev # 0
         IN /\ after = [pairs |-> after.pairs, prev |-> after.prev, thread |-> after.thread]
            /\ Len(acc.pairs) >= MaxPairs => after = acc
            /\ Len(acc.pairs) < MaxPairs =>
                 /\ after.thread = row.thread
                 /\ after.prev = (IF LongUser(row) THEN row.of ELSE 0)
                 /\ after.pairs = (IF pairs THEN Append(acc.pairs, Pair("conversation", acc.prev, row.of))
                                 ELSE acc.pairs)
<1>1. /\ acc.pairs \in Seq(Pairs) /\ acc.prev \in Nat /\ acc.thread \in Nat
      /\ acc = [pairs |-> acc.pairs, prev |-> acc.prev, thread |-> acc.thread]
  BY DEF Accs
<1>2. row.of \in Nat \ {0} /\ row.thread \in Nat /\ row.role \in Roles /\ row.long \in BOOLEAN
  BY TurnsAre DEF Messages
<1>3. PICK prev : prev = IF acc.thread = row.thread THEN acc.prev ELSE 0
  OBVIOUS
<1>4. PICK here : here = [acc EXCEPT !.thread = row.thread, !.prev = 0]
  OBVIOUS
<1>5. here = [pairs |-> acc.pairs, prev |-> 0, thread |-> row.thread]
  BY <1>4, Zenon DEF Accs
<1>6. here.pairs = acc.pairs /\ here.prev = 0 /\ here.thread = row.thread
  BY <1>5
<1>7. PICK opened : opened = [here EXCEPT !.prev = row.of]
  OBVIOUS
<1>8. /\ opened = [pairs |-> opened.pairs, prev |-> opened.prev, thread |-> opened.thread]
      /\ opened.pairs = acc.pairs /\ opened.prev = row.of /\ opened.thread = row.thread
  BY <1>5, <1>7
<1>9. PICK more : more = Append(acc.pairs, Pair("conversation", prev, row.of))
  OBVIOUS
<1>10. PICK paired : paired = [here EXCEPT !.pairs = more]
  OBVIOUS
<1>11. /\ paired = [pairs |-> paired.pairs, prev |-> paired.prev, thread |-> paired.thread]
       /\ paired.pairs = more /\ paired.prev = 0 /\ paired.thread = row.thread
  BY <1>5, <1>10
<1>12. TakeRow(acc, row) =
         IF Len(acc.pairs) >= MaxPairs THEN acc
         ELSE IF ~row.long THEN here
         ELSE IF row.role = "user" THEN opened
         ELSE IF prev = 0 THEN here
         ELSE paired
  BY <1>3, <1>4, <1>6, <1>7, <1>9, <1>10, Zenon DEF TakeRow
<1>13. (Len(acc.pairs) >= MaxPairs <=> ~(Len(acc.pairs) < MaxPairs))
  BY <1>1, TurnsAre
<1>14. /\ TakeRow(acc, row) \in {acc, here, opened, paired}
       /\ here = [pairs |-> here.pairs, prev |-> here.prev, thread |-> here.thread]
  BY <1>5, <1>6, <1>12
<1>15. PICK w : w = TakeRow(acc, row)
  OBVIOUS
<1>16. w = [pairs |-> w.pairs, prev |-> w.prev, thread |-> w.thread]
  BY <1>1, <1>8, <1>11, <1>14, <1>15, Zenon
<1> QED BY <1>2, <1>3, <1>6, <1>8, <1>9, <1>11, <1>12, <1>13, <1>15, <1>16 DEF LongUser, Roles

\* A message of the owner and the answer that comes next in its thread.
Linked(rows, i) ==
  /\ rows[i - 1].thread = rows[i].thread /\ LongUser(rows[i - 1])
  /\ rows[i].long /\ rows[i].role = "assistant"
PairAt(rows, i) == Pair("conversation", rows[i - 1].of, rows[i].of)

\* What acc holds after n rows.
LoopInv(acc, n, rows) ==
  /\ acc \in Accs /\ Len(acc.pairs) <= MaxPairs
  /\ \A k \in 1..Len(acc.pairs) :
       \E i \in 2..n : Linked(rows, i) /\ acc.pairs[k] = PairAt(rows, i)
  /\ \A k, l \in 1..Len(acc.pairs) :
       \/ acc.pairs[k].input = acc.pairs[l].input
       \/ acc.pairs[k].output = acc.pairs[l].output
       => k = l
  /\ Len(acc.pairs) < MaxPairs =>
       /\ acc.thread = (IF n = 0 THEN 0 ELSE rows[n].thread)
       /\ acc.prev = (IF n # 0 /\ LongUser(rows[n]) THEN rows[n].of ELSE 0)
       /\ \A i \in 2..n : Linked(rows, i) => \E k \in 1..Len(acc.pairs) : acc.pairs[k] = PairAt(rows, i)

RowsDiffer(rows) ==
  \A i, j \in 1..Len(rows) : rows[i].of = rows[j].of /\ rows[i].role = rows[j].role => i = j

LEMMA LoopStep ==
  ASSUME NEW rows \in Seq(Messages), RowsDiffer(rows), NEW n \in 1..Len(rows), NEW acc,
         LoopInv(acc, n - 1, rows)
  PROVE  LoopInv(TakeRow(acc, rows[n]), n, rows)
<1> DEFINE after == TakeRow(acc, rows[n])
<1>1. /\ acc \in Accs /\ acc.pairs \in Seq(Pairs) /\ Len(acc.pairs) \in Nat
      /\ Len(acc.pairs) <= MaxPairs /\ acc.prev \in Nat /\ acc.thread \in Nat
  BY DEF LoopInv, Accs
<1>2. /\ \A i \in 1..Len(rows) : rows[i] \in Messages /\ rows[i].of \in Nat \ {0}
                               /\ rows[i].thread \in Nat \ {0}
      /\ Len(rows) \in Nat /\ n \in Nat
  <2>1. \A i \in 1..Len(rows) : rows[i] \in Messages
    OBVIOUS
  <2>2. \A row \in Messages : row.of \in Nat \ {0} /\ row.thread \in Nat \ {0}
    BY TurnsAre DEF Messages
  <2> QED BY <2>1, <2>2
<1>3. CASE Len(acc.pairs) >= MaxPairs
  <2>1. after = acc
    BY <1>1, <1>2, <1>3, TakeRowIs
  <2>2. ~(Len(acc.pairs) < MaxPairs)
    BY <1>1, <1>3, TurnsAre
  <2>3. \A i \in 2..n - 1 : i \in 2..n
    OBVIOUS
  <2> QED BY <2>1, <2>2, <2>3 DEF LoopInv
<1>4. ASSUME Len(acc.pairs) < MaxPairs PROVE LoopInv(after, n, rows)
  <2>1. rows[n] \in Messages
    BY <1>2
  <2>2. /\ after = [pairs |-> after.pairs, prev |-> after.prev, thread |-> after.thread]
        /\ after.thread = rows[n].thread
        /\ after.prev = (IF LongUser(rows[n]) THEN rows[n].of ELSE 0)
        /\ after.pairs = (IF /\ rows[n].long /\ rows[n].role = "assistant"
                             /\ acc.thread = rows[n].thread /\ acc.prev # 0
                          THEN Append(acc.pairs, Pair("conversation", acc.prev, rows[n].of))
                          ELSE acc.pairs)
    BY <1>1, <1>4, <2>1, TakeRowIs
  <2> HIDE DEF after
  <2>3. /\ acc.thread = (IF n - 1 = 0 THEN 0 ELSE rows[n - 1].thread)
        /\ acc.prev = (IF n - 1 # 0 /\ LongUser(rows[n - 1]) THEN rows[n - 1].of ELSE 0)
        /\ \A i \in 2..n - 1 : Linked(rows, i) =>
             \E k \in 1..Len(acc.pairs) : acc.pairs[k] = PairAt(rows, i)
        /\ \A k \in 1..Len(acc.pairs) :
             \E i \in 2..n - 1 : Linked(rows, i) /\ acc.pairs[k] = PairAt(rows, i)
        /\ \A k, l \in 1..Len(acc.pairs) :
             \/ acc.pairs[k].input = acc.pairs[l].input
             \/ acc.pairs[k].output = acc.pairs[l].output
             => k = l
    BY <1>4 DEF LoopInv
  <2>4. \A i \in 2..n : i \in 2..n - 1 \/ i = n
    BY <1>2
  <2>8. n \in Nat \ {0} /\ \A i \in 2..n - 1 : i \in 2..n
    BY <1>2
  <2>5. n # 1 => n - 1 \in 1..Len(rows) /\ rows[n - 1].of \in Nat \ {0}
    BY <1>2
  <2>6. CASE n \in 2..Len(rows) /\ Linked(rows, n)
    <3>1. PICK p : p = PairAt(rows, n)
      OBVIOUS
    <3>2. p \in Pairs /\ p.input = rows[n - 1].of /\ p.output = rows[n].of
      BY <1>2, <2>5, <2>6, <3>1 DEF PairAt, Pair, Pairs
    <3>3. after.pairs = Append(acc.pairs, p)
      BY <2>2, <2>3, <2>5, <2>6, <3>1 DEF Linked, PairAt
    <3>4. PICK L \in Nat : L = Len(acc.pairs)
      BY <1>1
    <3>5. /\ after.pairs \in Seq(Pairs) /\ Len(after.pairs) = L + 1 /\ after.pairs[L + 1] = p
          /\ \A k \in 1..L : after.pairs[k] = acc.pairs[k]
          /\ \A k \in 1..Len(after.pairs) : k \in 1..L \/ k = L + 1
      BY <1>1, <3>2, <3>3, <3>4, AppendProperties
    <3>6. after \in Accs /\ Len(after.pairs) <= MaxPairs
      <4>1. after.prev \in Nat /\ after.thread \in Nat
        BY <1>2, <2>2
      <4>2. after \in Accs
        BY <2>2, <3>5, <4>1 DEF Accs
      <4>3. L + 1 <= MaxPairs
        BY <1>4, <3>4, TurnsAre
      <4> QED BY <3>5, <4>2, <4>3
    <3>7. ASSUME NEW k \in 1..Len(after.pairs)
          PROVE  \E i \in 2..n : Linked(rows, i) /\ after.pairs[k] = PairAt(rows, i)
      <4>1. CASE k \in 1..L
        <5>1. PICK i \in 2..n - 1 : Linked(rows, i) /\ acc.pairs[k] = PairAt(rows, i)
          BY <2>3, <3>4, <4>1
        <5>2. i \in 2..n
          BY <2>8, <5>1
        <5>3. after.pairs[k] = PairAt(rows, i)
          BY <3>5, <4>1, <5>1
        <5> QED BY <5>1, <5>2, <5>3
      <4>2. CASE k = L + 1
        BY <2>6, <3>1, <3>5, <4>2
      <4> QED BY <3>5, <4>1, <4>2
    <3>8. ASSUME NEW k \in 1..L
          PROVE  acc.pairs[k].input # p.input /\ acc.pairs[k].output # p.output
      <4>1. PICK i \in 2..n - 1 : Linked(rows, i) /\ acc.pairs[k] = PairAt(rows, i)
        BY <2>3, <3>4, <3>8
      <4>2. /\ i - 1 \in 1..Len(rows) /\ i \in 1..Len(rows) /\ i # n /\ i - 1 # n - 1
            /\ n - 1 \in 1..Len(rows)
        BY <1>2, <2>6, <4>1
      <4>3. acc.pairs[k].input = rows[i - 1].of /\ acc.pairs[k].output = rows[i].of
        BY <4>1 DEF PairAt, Pair
      <4>4. /\ rows[i - 1].role = rows[n - 1].role /\ rows[i].role = rows[n].role
        BY <2>6, <4>1 DEF Linked, LongUser
      <4> QED BY <3>2, <4>2, <4>3, <4>4 DEF RowsDiffer
    <3>9. \A k, l \in 1..Len(after.pairs) :
            \/ after.pairs[k].input = after.pairs[l].input
            \/ after.pairs[k].output = after.pairs[l].output
            => k = l
      <4> SUFFICES ASSUME NEW k \in 1..Len(after.pairs), NEW l \in 1..Len(after.pairs),
                          \/ after.pairs[k].input = after.pairs[l].input
                          \/ after.pairs[k].output = after.pairs[l].output
                   PROVE  k = l
        OBVIOUS
      <4>1. CASE k \in 1..L /\ l \in 1..L
        <5>1. /\ k \in 1..Len(acc.pairs) /\ l \in 1..Len(acc.pairs)
              /\ after.pairs[k] = acc.pairs[k] /\ after.pairs[l] = acc.pairs[l]
          BY <3>4, <3>5, <4>1
        <5>2. \/ acc.pairs[k].input = acc.pairs[l].input
              \/ acc.pairs[k].output = acc.pairs[l].output
          BY <5>1
        <5> QED BY <2>3, <5>1, <5>2
      <4>2. CASE k \in 1..L /\ l = L + 1
        BY <3>5, <3>8, <4>2
      <4>3. CASE k = L + 1 /\ l \in 1..L
        BY <3>5, <3>8, <4>3
      <4> QED BY <3>5, <4>1, <4>2, <4>3
    <3>10. \A i \in 2..n : Linked(rows, i) =>
             \E k \in 1..Len(after.pairs) : after.pairs[k] = PairAt(rows, i)
      <4> SUFFICES ASSUME NEW i \in 2..n, Linked(rows, i)
                   PROVE  \E k \in 1..Len(after.pairs) : after.pairs[k] = PairAt(rows, i)
        OBVIOUS
      <4>1. CASE i = n
        BY <3>1, <3>5, <4>1
      <4>2. CASE i \in 2..n - 1
        <5>1. PICK k \in 1..L : acc.pairs[k] = PairAt(rows, i)
          BY <2>3, <3>4, <4>2
        <5> QED BY <3>5, <5>1
      <4> QED BY <2>4, <4>1, <4>2
    <3>11. /\ after.thread = (IF n = 0 THEN 0 ELSE rows[n].thread)
           /\ after.prev = (IF n # 0 /\ LongUser(rows[n]) THEN rows[n].of ELSE 0)
      BY <2>2, <2>8
    <3> QED BY <3>6, <3>7, <3>9, <3>10, <3>11 DEF LoopInv
  <2>7. CASE ~(n \in 2..Len(rows) /\ Linked(rows, n))
    <3>1. after.pairs = acc.pairs
      <4>1. CASE n = 1
        BY <2>2, <2>3, <4>1
      <4>2. CASE n # 1
        BY <1>2, <2>2, <2>3, <2>7, <4>2 DEF Linked
      <4> QED BY <4>1, <4>2
    <3>2. after \in Accs /\ Len(after.pairs) <= MaxPairs
      BY <1>1, <1>2, <2>2, <3>1 DEF Accs
    <3>3. \A k \in 1..Len(after.pairs) :
            \E i \in 2..n : Linked(rows, i) /\ after.pairs[k] = PairAt(rows, i)
      <4>1. \A i \in 2..n - 1 : i \in 2..n
        OBVIOUS
      <4> QED BY <2>3, <3>1, <4>1
    <3>4. \A i \in 2..n : Linked(rows, i) => i \in 2..n - 1
      BY <1>2, <2>4, <2>7
    <3>5. /\ after.thread = (IF n = 0 THEN 0 ELSE rows[n].thread)
          /\ after.prev = (IF n # 0 /\ LongUser(rows[n]) THEN rows[n].of ELSE 0)
      BY <2>2, <2>8
    <3>6. \A k, l \in 1..Len(after.pairs) :
            \/ after.pairs[k].input = after.pairs[l].input
            \/ after.pairs[k].output = after.pairs[l].output
            => k = l
      BY <2>3, <3>1
    <3>7. \A i \in 2..n : Linked(rows, i) =>
            \E k \in 1..Len(after.pairs) : after.pairs[k] = PairAt(rows, i)
      BY <2>3, <3>1, <3>4
    <3> QED BY <3>2, <3>3, <3>5, <3>6, <3>7 DEF LoopInv
  <2> QED BY <2>6, <2>7
<1> QED BY <1>1, <1>3, <1>4, TurnsAre

\* What the loop takes of the rows: no message twice and, if there is room, all that link.
Taken(pairs, rows) ==
  /\ pairs \in Seq(Pairs) /\ Len(pairs) <= MaxPairs
  /\ \A k \in 1..Len(pairs) :
       \E i \in 2..Len(rows) : Linked(rows, i) /\ pairs[k] = PairAt(rows, i)
  /\ \A k, l \in 1..Len(pairs) :
       pairs[k].input = pairs[l].input \/ pairs[k].output = pairs[l].output => k = l
  /\ Len(pairs) < MaxPairs =>
       \A i \in 2..Len(rows) : Linked(rows, i) =>
         \E k \in 1..Len(pairs) : pairs[k] = PairAt(rows, i)

LEMMA FromConversationsIs ==
  ASSUME NEW rows \in Seq(Messages), RowsDiffer(rows)
  PROVE  Taken(FromConversations(rows), rows)
<1>1. PICK N \in Nat : N = Len(rows)
  OBVIOUS
<1>2. PICK g : Looped(g, N, rows) /\ FromConversations(rows) = g[N].pairs
  BY <1>1, PairsLoop
<1>3. \A n \in 0..N : g[n] = IF n = 0 THEN Empty ELSE TakeRow(g[n - 1], rows[n])
  BY <1>2 DEF Looped
<1> DEFINE T == {n \in 0..N : ~LoopInv(g[n], n, rows)}
<1>4. T = {}
  <2> SUFFICES ASSUME T # {} PROVE FALSE
    OBVIOUS
  <2>0. T \subseteq Nat
    OBVIOUS
  <2>1. PICK m \in T : \A k \in T : m <= k
    BY <2>0, FirstOfAll
  <2>2. CASE m = 0
    <3>1. g[0] = Empty
      BY <1>1, <1>3
    <3>2. LoopInv(Empty, 0, rows)
      BY TurnsAre DEF LoopInv, Empty, Accs
    <3> QED BY <2>1, <2>2, <3>1, <3>2
  <2>3. CASE m # 0
    <3>1. m \in 1..N /\ m - 1 \in 0..N /\ m - 1 \notin T
      BY <2>1, <2>3
    <3>2. LoopInv(g[m - 1], m - 1, rows)
      BY <3>1
    <3>3. g[m] = TakeRow(g[m - 1], rows[m])
      BY <1>3, <2>3, <3>1
    <3>4. LoopInv(g[m], m, rows)
      BY <1>1, <3>1, <3>2, <3>3, LoopStep
    <3> QED BY <2>1, <3>4
  <2> QED BY <2>2, <2>3
<1>5. LoopInv(g[N], N, rows)
  BY <1>4
<1>6. g[N].pairs \in Seq(Pairs)
  BY <1>5 DEF LoopInv, Accs
<1>7. Taken(g[N].pairs, rows)
  BY <1>1, <1>5, <1>6 DEF LoopInv, Taken
<1> QED BY <1>2, <1>7

-----------------------------------------------------------------------------
(* Two enumerations of one set that ascend in one order are the same.       *)

Sorted(s, R) == \A i, j \in 1..Len(s) : i < j => <<s[i], s[j]>> \in R
Asymmetric(R) == \A x, y : ~(<<x, y>> \in R /\ <<y, x>> \in R)

LEMMA SortedAgree ==
  ASSUME NEW R, Asymmetric(R), NEW s, NEW q, Len(s) \in Nat, Len(q) \in Nat,
         Sorted(s, R), Sorted(q, R), RangeOf(s) = RangeOf(q)
  PROVE  Len(s) <= Len(q) /\ \A i \in 1..Len(s) : s[i] = q[i]
<1> DEFINE T == {n \in 1..Len(s) : n \notin 1..Len(q) \/ s[n] # q[n]}
<1>1. T = {}
  <2> SUFFICES ASSUME T # {} PROVE FALSE
    OBVIOUS
  <2>1. T \subseteq Nat
    OBVIOUS
  <2>2. PICK m \in T : \A n \in T : m <= n
    BY <2>1, FirstOfAll
  <2>3. m \in 1..Len(s) /\ \A n \in 1..m - 1 : n \in 1..Len(q) /\ s[n] = q[n]
    <3> SUFFICES ASSUME NEW n \in 1..m - 1 PROVE n \in 1..Len(q) /\ s[n] = q[n]
      OBVIOUS
    <3>1. n \in 1..Len(s) /\ ~(m <= n)
      BY <2>1
    <3> QED BY <2>2, <3>1
  <2>4. PICK k \in 1..Len(q) : q[k] = s[m]
    BY <2>3 DEF RangeOf
  <2>5. ~(k < m)
    <3> SUFFICES ASSUME k < m PROVE FALSE
      OBVIOUS
    <3>1. k \in 1..m - 1
      BY <2>3
    <3>2. s[k] = s[m] /\ k \in 1..Len(s)
      BY <2>3, <2>4, <3>1
    <3>3. <<s[k], s[m]>> \in R
      BY <2>3, <3>2 DEF Sorted
    <3> QED BY <3>2, <3>3 DEF Asymmetric
  <2>6. m \in 1..Len(q) /\ k # m
    <3>1. m \in 1..Len(q)
      BY <2>3, <2>4, <2>5
    <3> QED BY <2>2, <2>4, <3>1
  <2>7. PICK l \in 1..Len(s) : s[l] = q[m]
    BY <2>6 DEF RangeOf
  <2>8. ~(l < m)
    <3> SUFFICES ASSUME l < m PROVE FALSE
      OBVIOUS
    <3>1. l \in 1..m - 1
      BY <2>3
    <3>2. q[l] = q[m] /\ l \in 1..Len(q)
      BY <2>3, <2>7, <3>1
    <3>3. <<q[l], q[m]>> \in R
      BY <2>6, <3>2 DEF Sorted
    <3> QED BY <3>2, <3>3 DEF Asymmetric
  <2>9. l # m
    BY <2>2, <2>6, <2>7
  <2>10. <<s[m], s[l]>> \in R
    BY <2>3, <2>7, <2>8, <2>9 DEF Sorted
  <2>11. <<q[m], q[k]>> \in R
    BY <2>4, <2>5, <2>6 DEF Sorted
  <2> QED BY <2>4, <2>7, <2>10, <2>11 DEF Asymmetric
<1>2. \A n \in 1..Len(s) : n \in 1..Len(q) /\ s[n] = q[n]
  BY <1>1
<1>3. Len(s) <= Len(q)
  <2>1. CASE Len(s) = 0
    BY <2>1
  <2>2. CASE Len(s) # 0
    <3>1. Len(s) \in 1..Len(s)
      BY <2>2
    <3> QED BY <1>2, <3>1
  <2> QED BY <2>1, <2>2
<1> QED BY <1>2, <1>3

LEMMA SortedUnique ==
  ASSUME NEW R, Asymmetric(R), NEW S, NEW s \in Seq(S), NEW q \in Seq(S),
         Sorted(s, R), Sorted(q, R), RangeOf(s) = RangeOf(q)
  PROVE  s = q
<1>1. Len(s) \in Nat /\ Len(q) \in Nat
  OBVIOUS
<1>2. Len(s) <= Len(q) /\ \A i \in 1..Len(s) : s[i] = q[i]
  BY <1>1, SortedAgree
<1>3. Len(q) <= Len(s)
  BY <1>1, SortedAgree
<1> QED BY <1>1, <1>2, <1>3, SeqEqual

-----------------------------------------------------------------------------
(* The rows that are read.                                                  *)

TrainingType ==
  /\ talk \in Seq(Messages) /\ turnOf \in [Turns -> TurnStates] /\ facts \in Seq(Facts)
  /\ generation \in [pc : {"none", "facts", "asking", "ready"}, why : {"train", "evaluate"},
                     pairs : Seq(Pairs), todo : Seq(Facts), seen : SUBSET Turns]
  /\ baked \subseteq Pairs /\ sampled \in [samples : SUBSET Pairs, all : Seq(Pairs)]
  /\ moved \subseteq Moved
  /\ trainingLeft \in [{"turn", "fact", "run", "persona"} -> Nat]

\* An exchange has a row of its owner's, and, once it is committed, its answer, later on.
Told ==
  /\ \A i, j \in 1..Len(talk) : talk[i].of = talk[j].of /\ talk[i].role = talk[j].role => i = j
  /\ \A i \in 1..Len(talk) :
       /\ turnOf[talk[i].of] # Nothing /\ turnOf[talk[i].of][1] = talk[i].thread
       /\ talk[i].role = "assistant" => talk[i].of \in Committed
  /\ \A e \in Turns : turnOf[e] # Nothing =>
       \E i \in 1..Len(talk) : talk[i].of = e /\ talk[i].role = "user"
  /\ \A e \in Committed : \E i \in 1..Len(talk) : talk[i].of = e /\ talk[i].role = "assistant"
  /\ \A i, j \in 1..Len(talk) :
       talk[i].of = talk[j].of /\ talk[i].role = "user" /\ talk[j].role = "assistant" => i < j

Spoken == {FromConversations(Read(order)) :
             order \in {o \in [1..Cardinality(Rows) -> Rows] : InOrder(o)}}

LEMMA RowIs ==
  TrainingType => \A i \in 1..Len(talk) :
                    /\ talk[i] \in Messages /\ talk[i].of \in Turns /\ talk[i].thread \in Nat
                    /\ talk[i].role \in Roles /\ talk[i].long \in BOOLEAN
<1> SUFFICES ASSUME TrainingType, NEW i \in 1..Len(talk)
             PROVE  /\ talk[i] \in Messages /\ talk[i].of \in Turns /\ talk[i].thread \in Nat
                    /\ talk[i].role \in Roles /\ talk[i].long \in BOOLEAN
  OBVIOUS
<1>1. talk[i] \in Messages
  BY DEF TrainingType
<1> QED BY <1>1, TurnsAre DEF Messages

LEMMA RowsAre ==
  TrainingType => /\ Rows \subseteq 1..Len(talk) /\ Cardinality(Rows) \in Nat /\ Len(talk) \in Nat
<1> SUFFICES ASSUME TrainingType
             PROVE  /\ Rows \subseteq 1..Len(talk) /\ Cardinality(Rows) \in Nat
                    /\ Len(talk) \in Nat
  OBVIOUS
<1>1. Len(talk) \in Nat /\ Rows \subseteq 1..Len(talk)
  BY DEF TrainingType, Rows
<1>2. IsFiniteSet(1..Len(talk))
  BY <1>1, FS_Interval
<1>3. IsFiniteSet(Rows)
  BY <1>1, <1>2, FS_Subset
<1> QED BY <1>1, <1>3, FS_CardinalityType

LEMMA OrderIs ==
  ASSUME TrainingType, NEW order \in [1..Cardinality(Rows) -> Rows], InOrder(order)
  PROVE  /\ order \in Seq(Rows) /\ Len(order) = Cardinality(Rows) /\ Len(order) \in Nat
         /\ \A m \in 1..Len(order) : order[m] \in Rows
         /\ \A m, n \in 1..Len(order) : m < n <=> Before(order[m], order[n])
         /\ \A m, n \in 1..Len(order) : order[m] = order[n] => m = n
         /\ \A i \in Rows : \E m \in 1..Len(order) : order[m] = i
<1>1. order \in Seq(Rows) /\ Len(order) = Cardinality(Rows) /\ Len(order) \in Nat
  BY RowsAre
<1>2. \A m \in 1..Len(order) : order[m] \in Rows
  BY <1>1
<1>3. \A i, j \in Rows : ~(Before(i, j) /\ Before(j, i))
  BY RowIs, RowsAre DEF Before
<1>4. \A m, n \in 1..Len(order) : m < n => Before(order[m], order[n])
  BY DEF InOrder
<1>5. \A m, n \in 1..Len(order) : m < n <=> Before(order[m], order[n])
  <2> SUFFICES ASSUME NEW m \in 1..Len(order), NEW n \in 1..Len(order),
                      Before(order[m], order[n]), ~(m < n)
               PROVE  FALSE
    BY <1>4
  <2>1. order[m] \in Rows /\ order[n] \in Rows
    BY <1>2
  <2>2. n < m \/ n = m
    BY <1>1
  <2>3. ~Before(order[n], order[m])
    BY <1>3, <2>1
  <2> QED BY <1>4, <2>2, <2>3
<1>6. \A m, n \in 1..Len(order) : order[m] = order[n] => m = n
  <2> SUFFICES ASSUME NEW m \in 1..Len(order), NEW n \in 1..Len(order), order[m] = order[n]
               PROVE  m = n
    OBVIOUS
  <2>1. order[m] \in Rows /\ ~Before(order[m], order[n]) /\ ~Before(order[n], order[m])
    BY <1>2, <1>3
  <2> QED BY <1>1, <1>4, <2>1
<1>7. \A i \in Rows : \E m \in 1..Len(order) : order[m] = i
  BY DEF InOrder, RangeOf
<1> QED BY <1>1, <1>2, <1>5, <1>6, <1>7

LEMMA OrderUnique ==
  ASSUME TrainingType, NEW o \in [1..Cardinality(Rows) -> Rows], InOrder(o),
         NEW p \in [1..Cardinality(Rows) -> Rows], InOrder(p)
  PROVE  o = p
<1> DEFINE R == {x \in Rows \X Rows : Before(x[1], x[2])}
<1>1. Asymmetric(R)
  <2>1. \A i, j \in Rows : ~(Before(i, j) /\ Before(j, i))
    BY RowIs, RowsAre DEF Before
  <2>2. \A x, y : <<x, y>> \in R => x \in Rows /\ y \in Rows /\ Before(x, y)
    OBVIOUS
  <2> QED BY <2>1, <2>2 DEF Asymmetric
<1>2. o \in Seq(Rows) /\ p \in Seq(Rows)
  BY OrderIs
<1>3. Sorted(o, R) /\ Sorted(p, R)
  BY OrderIs DEF Sorted
<1>4. RangeOf(o) = RangeOf(p)
  BY DEF InOrder
<1> HIDE DEF R
<1> QED BY <1>1, <1>2, <1>3, <1>4, SortedUnique

LEMMA SpokenUnique ==
  ASSUME TrainingType, NEW c \in Spoken, NEW d \in Spoken PROVE c = d
BY OrderUnique DEF Spoken

LEMMA ReadIs ==
  ASSUME TrainingType, Told, NEW order \in [1..Cardinality(Rows) -> Rows], InOrder(order)
  PROVE  /\ Read(order) \in Seq(Messages) /\ Len(Read(order)) = Len(order)
         /\ \A m \in 1..Len(order) : Read(order)[m] = talk[order[m]]
         /\ RowsDiffer(Read(order))
<1>1. \A m \in 1..Len(order) : order[m] \in 1..Len(talk) /\ talk[order[m]] \in Messages
  BY OrderIs, RowsAre, RowIs
<1>2. /\ Read(order) \in Seq(Messages) /\ Len(Read(order)) = Len(order)
      /\ \A m \in 1..Len(order) : Read(order)[m] = talk[order[m]]
  BY <1>1, OrderIs DEF Read
<1>3. RowsDiffer(Read(order))
  <2> SUFFICES ASSUME NEW i \in 1..Len(order), NEW j \in 1..Len(order),
                      talk[order[i]].of = talk[order[j]].of,
                      talk[order[i]].role = talk[order[j]].role
               PROVE  i = j
    BY <1>2 DEF RowsDiffer
  <2>1. order[i] = order[j]
    BY <1>1 DEF Told
  <2> QED BY <2>1, OrderIs
<1> QED BY <1>2, <1>3

\* Where a pair of the conversations comes from: an answer, and a message of the same
\* thread that lies between what it answers and itself.
OwnPair(p) ==
  \E a, b, c \in 1..Len(talk) :
    /\ talk[a].of = p.input /\ talk[a].role = "user"
    /\ talk[b].of = p.output /\ talk[b].role = "assistant"
    /\ talk[c].of = p.output /\ talk[c].role = "user"
    /\ talk[a].thread = talk[b].thread /\ c <= a /\ a < b

Unlike(pairs) ==
  \A k, l \in 1..Len(pairs) :
    /\ pairs[k].source = "conversation" /\ pairs[l].source = "conversation"
    /\ pairs[k].input = pairs[l].input \/ pairs[k].output = pairs[l].output
    => k = l

\* A committed row of another exchange of the thread, between those of e.
Crossed(e, a, b) ==
  \E r \in 1..Len(talk) : /\ a < r /\ r < b /\ talk[r].of \in Committed \ {e}
                          /\ talk[r].thread = talk[a].thread
Used(e, pairs) ==
  \A a, b \in 1..Len(talk) :
    /\ talk[a].of = e /\ talk[a].role = "user" /\ talk[a].long
    /\ talk[b].of = e /\ talk[b].role = "assistant" /\ talk[b].long
    => \/ Len(pairs) >= MaxPairs \/ Crossed(e, a, b)
       \/ \E k \in 1..Len(pairs) : pairs[k] = Pair("conversation", e, e)

LEMMA PairIs ==
  ASSUME NEW x, NEW y, NEW z
  PROVE  Pair(x, y, z).source = x /\ Pair(x, y, z).input = y /\ Pair(x, y, z).output = z
BY DEF Pair

LEMMA SpokenIs ==
  ASSUME TrainingType, Told, NEW pairs \in Spoken
  PROVE  /\ pairs \in Seq(Pairs) /\ Len(pairs) \in Nat /\ Len(pairs) <= MaxPairs /\ Unlike(pairs)
         /\ \A k \in 1..Len(pairs) : pairs[k].source = "conversation" /\ OwnPair(pairs[k])
         /\ \A e \in Committed : Used(e, pairs)
<1>1. PICK order \in [1..Cardinality(Rows) -> Rows] :
        InOrder(order) /\ pairs = FromConversations(Read(order))
  BY DEF Spoken
<1>2. PICK rows : rows = Read(order)
  OBVIOUS
<1>3. /\ rows \in Seq(Messages) /\ Len(rows) = Len(order) /\ RowsDiffer(rows) /\ Len(rows) \in Nat
      /\ \A m \in 1..Len(rows) : rows[m] = talk[order[m]]
  BY <1>1, <1>2, ReadIs, OrderIs
<1>4. /\ pairs \in Seq(Pairs) /\ Len(pairs) <= MaxPairs
      /\ \A k \in 1..Len(pairs) :
           \E i \in 2..Len(rows) : Linked(rows, i) /\ pairs[k] = PairAt(rows, i)
      /\ \A k, l \in 1..Len(pairs) :
           pairs[k].input = pairs[l].input \/ pairs[k].output = pairs[l].output => k = l
      /\ Len(pairs) < MaxPairs =>
           \A i \in 2..Len(rows) : Linked(rows, i) =>
             \E k \in 1..Len(pairs) : pairs[k] = PairAt(rows, i)
  <2>1. pairs = FromConversations(rows)
    BY <1>1, <1>2
  <2>2. Taken(pairs, rows)
    BY <1>3, <2>1, FromConversationsIs
  <2> QED BY <2>2 DEF Taken
<1>5. Len(pairs) \in Nat
  BY <1>4
<1>6. Unlike(pairs)
  BY <1>4 DEF Unlike
<1>7. /\ \A m \in 1..Len(rows) : order[m] \in Rows /\ order[m] \in 1..Len(talk)
      /\ \A m, n \in 1..Len(rows) : m < n <=> Before(order[m], order[n])
      /\ \A i \in Rows : \E m \in 1..Len(rows) : order[m] = i
  BY <1>1, <1>3, OrderIs, RowsAre
<1>8. ASSUME NEW k \in 1..Len(pairs)
      PROVE  pairs[k].source = "conversation" /\ OwnPair(pairs[k])
  <2>1. PICK i \in 2..Len(rows) : Linked(rows, i) /\ pairs[k] = PairAt(rows, i)
    BY <1>4
  <2>2. i \in 1..Len(rows) /\ i - 1 \in 1..Len(rows) /\ i - 1 < i
    BY <1>3, <2>1
  <2>3. PICK a \in 1..Len(talk) : a = order[i - 1] /\ a \in Rows
    BY <1>7, <2>2
  <2>4. PICK b \in 1..Len(talk) : b = order[i] /\ b \in Rows
    BY <1>7, <2>2
  <2>5. rows[i - 1] = talk[a] /\ rows[i] = talk[b]
    BY <1>3, <2>2, <2>3, <2>4
  <2>6. /\ talk[a].role = "user" /\ talk[b].role = "assistant"
        /\ talk[a].thread = talk[b].thread
    BY <2>1, <2>5 DEF Linked, LongUser
  <2>7. /\ pairs[k].source = "conversation"
        /\ pairs[k].input = talk[a].of /\ pairs[k].output = talk[b].of
    BY <2>1, <2>5, PairIs DEF PairAt
  <2>8. a \in Nat /\ b \in Nat /\ talk[a].thread \in Nat
    BY RowIs
  <2>9. Before(a, b)
    BY <1>7, <2>2, <2>3, <2>4
  <2>10. a < b
    BY <2>6, <2>8, <2>9 DEF Before
  <2>11. talk[b].of \in Committed /\ talk[b].of \in Turns /\ turnOf[talk[b].of] # Nothing
    BY <2>4 DEF Rows, Committed
  <2>12. PICK c \in 1..Len(talk) : talk[c].of = talk[b].of /\ talk[c].role = "user"
    BY <2>11 DEF Told
  <2>13. c \in Rows /\ c < b /\ talk[c].thread = talk[b].thread
    <3>1. c \in Rows
      BY <2>11, <2>12 DEF Rows
    <3>2. c < b
      BY <2>6, <2>12 DEF Told
    <3>3. talk[c].thread = turnOf[talk[b].of][1] /\ talk[b].thread = turnOf[talk[b].of][1]
      BY <2>12 DEF Told
    <3> QED BY <3>1, <3>2, <3>3
  <2>14. PICK m \in 1..Len(rows) : order[m] = c
    BY <1>7, <2>13
  <2>15. ~(a < c)
    <3> SUFFICES ASSUME a < c PROVE FALSE
      OBVIOUS
    <3>1. Before(a, c) /\ Before(c, b)
      BY <2>6, <2>13 DEF Before
    <3>2. i - 1 < m /\ m < i
      BY <1>7, <2>2, <2>3, <2>4, <2>14, <3>1
    <3> QED BY <2>1, <2>14, <3>2
  <2>16. c <= a
    BY <2>8, <2>15
  <2> QED BY <2>6, <2>7, <2>10, <2>12, <2>16 DEF OwnPair
<1>9. ASSUME NEW e \in Committed, NEW a \in 1..Len(talk), NEW b \in 1..Len(talk),
             talk[a].of = e, talk[a].role = "user", talk[a].long,
             talk[b].of = e, talk[b].role = "assistant", talk[b].long,
             Len(pairs) < MaxPairs, ~Crossed(e, a, b)
      PROVE  \E k \in 1..Len(pairs) : pairs[k] = Pair("conversation", e, e)
  <2>1. a < b /\ talk[a].thread = talk[b].thread /\ a \in Rows /\ b \in Rows
    BY <1>9 DEF Told, Rows
  <2>2. PICK m \in 1..Len(rows) : order[m] = a
    BY <1>7, <2>1
  <2>3. PICK n \in 1..Len(rows) : order[n] = b
    BY <1>7, <2>1
  <2>4. m < n
    BY <1>7, <2>1, <2>2, <2>3 DEF Before
  <2>5. m + 1 \in 1..Len(rows) /\ n \in 2..Len(rows) /\ m < m + 1
    BY <1>3, <2>4
  <2>6. n = m + 1
    <3> SUFFICES ASSUME m + 1 < n PROVE FALSE
      BY <2>4
    <3>1. PICK r \in 1..Len(talk) : r = order[m + 1] /\ r \in Rows
      BY <1>7, <2>5
    <3>2. Before(a, r) /\ Before(r, b)
      BY <1>7, <2>2, <2>3, <2>5, <3>1
    <3>3. talk[r].thread \in Nat /\ talk[a].thread \in Nat /\ talk[r].role \in Roles
      BY RowIs
    <3>4. a < r /\ r < b /\ talk[r].thread = talk[a].thread
      BY <2>1, <3>2, <3>3 DEF Before
    <3>5. talk[r].of # e
      <4>1. talk[r].of = e => r = a \/ r = b
        BY <1>9, <3>3 DEF Told, Roles
      <4> QED BY <3>4, <4>1
    <3>6. talk[r].of \in Committed
      BY <3>1 DEF Rows
    <3> QED BY <1>9, <3>4, <3>5, <3>6 DEF Crossed
  <2>7. rows[n - 1] = talk[a] /\ rows[n] = talk[b]
    BY <1>3, <2>2, <2>3, <2>6
  <2>8. Linked(rows, n) /\ PairAt(rows, n) = Pair("conversation", e, e)
    BY <1>9, <2>1, <2>7 DEF Linked, LongUser, PairAt
  <2> QED BY <1>4, <1>9, <2>5, <2>8
<1>10. \A e \in Committed : Used(e, pairs)
  <2> SUFFICES ASSUME NEW e \in Committed PROVE Used(e, pairs)
    OBVIOUS
  <2>1. Len(pairs) >= MaxPairs \/ Len(pairs) < MaxPairs
    BY <1>5, TurnsAre
  <2> QED BY <1>9, <2>1 DEF Used
<1> QED BY <1>4, <1>5, <1>6, <1>8, <1>10

-----------------------------------------------------------------------------
(* TrainingSound for every number of threads, exchanges and entries.        *)

Descending(s) == \A i, j \in 1..Len(s) : i < j => s[i] > s[j]
Distinct(s) == \A k, l \in 1..Len(s) : s[k] = s[l] => k = l

Own ==
  \A k \in 1..Len(generation.pairs) :
    generation.pairs[k].source = "conversation" => OwnPair(generation.pairs[k])
SeenUsed ==
  generation.seen \subseteq Committed /\ \A e \in generation.seen : Used(e, generation.pairs)

\* No pair is there twice, and there is room for one of every entry left.
Fitting ==
  LET pairs == generation.pairs
      todo == generation.todo IN
  /\ Len(pairs) + Len(todo) <= MaxPairs /\ Descending(todo) /\ Distinct(pairs) /\ Unlike(pairs)
  /\ \A k \in 1..Len(pairs) :
       /\ pairs[k].source = "personality" => Doing("ready")
       /\ pairs[k].source = "knowledge" =>
            ~Doing("facts") /\ \A j \in 1..Len(todo) : pairs[k].input > todo[j]
  /\ Doing("none") => pairs = <<>> /\ todo = <<>>
  /\ Doing("facts") => todo = <<>> /\ Len(pairs) < MaxPairs

\* What a generation makes if nothing moves and the model never fails.
Known(q) == [i \in 1..Len(q) |-> Pair("knowledge", q[i], q[i])]
ReadOf(c) ==
  LET room == MaxPairs - Len(c) IN
  RangeOf(FirstOf(facts, IF room < FactLimit THEN room ELSE FactLimit)) \cap Translated
WithTraits(pairs) ==
  LET room == MaxPairs - Len(pairs)
      some == IF trainingLeft.persona < room THEN trainingLeft.persona ELSE room IN
  pairs \o [i \in 1..some |-> Pair("personality", i, i)]
Undisturbed(ps) ==
  \E c \in Spoken :
    \/ Len(c) >= MaxPairs /\ ps = c
    \/ /\ Len(c) < MaxPairs
       /\ \E q \in Seq(Facts) : /\ Descending(q) /\ RangeOf(q) = ReadOf(c)
                                /\ ps = WithTraits(c \o Known(q))
Partway(pairs, todo) ==
  \E c \in Spoken, q \in Seq(Facts) :
    /\ Len(c) < MaxPairs /\ Descending(q) /\ pairs = c \o Known(q)
    /\ RangeOf(q) \cup (RangeOf(todo) \cap Translated) = ReadOf(c)
    /\ \A i \in 1..Len(q), j \in 1..Len(todo) : q[i] > todo[j]

Steady ==
  "generation" \notin moved =>
    /\ Doing("facts") => generation.pairs \in Spoken
    /\ Doing("asking") => Partway(generation.pairs, generation.todo)
    /\ Doing("ready") => Undisturbed(generation.pairs)
Made ==
  /\ "generation" \in moved => "version" \in moved
  /\ "version" \notin moved => baked = {} \/ \E ps : Undisturbed(ps) /\ baked = Prompted(ps)

TrainingInv ==
  /\ TrainingType /\ Told /\ Descending(facts)
  /\ Own /\ SeenUsed /\ Fitting /\ Steady /\ Made /\ TestedApart

LEMMA GenerationIs ==
  TrainingType => /\ generation.pc \in {"none", "facts", "asking", "ready"}
                  /\ generation.why \in {"train", "evaluate"}
                  /\ generation.pairs \in Seq(Pairs) /\ Len(generation.pairs) \in Nat
                  /\ generation.todo \in Seq(Facts) /\ Len(generation.todo) \in Nat
                  /\ generation.seen \subseteq Turns /\ trainingLeft.persona \in Nat
                  /\ facts \in Seq(Facts) /\ Len(facts) \in Nat
BY DEF TrainingType

LEMMA CountDistinct ==
  ASSUME NEW S, NEW s \in Seq(S), Distinct(s)
  PROVE  Cardinality(RangeOf(s)) = Len(s)
<1>1. Len(s) \in Nat /\ DOMAIN s = 1..Len(s)
  OBVIOUS
<1>2. s \in Bijection(1..Len(s), RangeOf(s))
  <2>1. s \in [1..Len(s) -> RangeOf(s)]
    BY DEF RangeOf
  <2>2. \A x, y \in 1..Len(s) : s[x] = s[y] => x = y
    BY DEF Distinct
  <2>3. \A y \in RangeOf(s) : \E x \in 1..Len(s) : s[x] = y
    BY DEF RangeOf
  <2> QED BY <2>1, <2>2, <2>3 DEF Bijection, Injection, Surjection, IsInjective
<1>3. ExistsBijection(1..Len(s), RangeOf(s))
  BY <1>2 DEF ExistsBijection
<1> QED BY <1>1, <1>3, FS_CountingElements

LEMMA AtIs ==
  ASSUME Told, NEW i \in 1..Len(talk), NEW e, NEW role, talk[i].of = e, talk[i].role = role
  PROVE  At(e, role) = i
<1>1. \A j \in 1..Len(talk) : talk[j].of = e /\ talk[j].role = role => j = i
  BY DEF Told
<1> QED BY <1>1 DEF At

LEMMA InvOwnAnswer == TrainingType /\ Told /\ Own /\ Fitting => OwnAnswer
<1> SUFFICES ASSUME TrainingType, Told, Own, Fitting PROVE OwnAnswer
  OBVIOUS
<1> SUFFICES ASSUME NEW p \in Conversing
             PROVE  /\ turnOf[p.input][1] = turnOf[p.output][1]
                    /\ p.input # p.output => /\ At(p.output, "user") < At(p.input, "user")
                                             /\ At(p.input, "user") < At(p.output, "assistant")
                    /\ \A q \in Conversing : p.input = q.input \/ p.output = q.output => p = q
  BY DEF OwnAnswer
<1>1. PICK k \in 1..Len(generation.pairs) :
        p = generation.pairs[k] /\ p.source = "conversation" /\ OwnPair(p)
  BY DEF Conversing, RangeOf, Own
<1>2. PICK a \in 1..Len(talk), b \in 1..Len(talk), c \in 1..Len(talk) :
        /\ talk[a].of = p.input /\ talk[a].role = "user"
        /\ talk[b].of = p.output /\ talk[b].role = "assistant"
        /\ talk[c].of = p.output /\ talk[c].role = "user"
        /\ talk[a].thread = talk[b].thread /\ c <= a /\ a < b
  BY <1>1 DEF OwnPair
<1>3. turnOf[p.input][1] = turnOf[p.output][1]
  BY <1>2 DEF Told
<1>4. At(p.input, "user") = a /\ At(p.output, "assistant") = b /\ At(p.output, "user") = c
  BY <1>2, AtIs
<1>5. p.input # p.output => c < a
  BY <1>2
<1>6. ASSUME NEW q \in Conversing, p.input = q.input \/ p.output = q.output PROVE p = q
  <2>1. PICK l \in 1..Len(generation.pairs) :
          q = generation.pairs[l] /\ q.source = "conversation"
    BY DEF Conversing, RangeOf
  <2>2. k = l
    BY <1>1, <1>6, <2>1 DEF Fitting, Unlike
  <2> QED BY <1>1, <2>1, <2>2
<1> QED BY <1>2, <1>3, <1>4, <1>5, <1>6

LEMMA InvAllUsed == TrainingType /\ Told /\ SeenUsed => AllUsed
<1> SUFFICES ASSUME TrainingType, Told, SeenUsed, Len(generation.pairs) < MaxPairs,
                    NEW e \in generation.seen,
                    talk[At(e, "user")].long, talk[At(e, "assistant")].long,
                    \A f \in Committed \ {e} : turnOf[f][1] = turnOf[e][1] => Apart(e, f)
             PROVE  Pair("conversation", e, e) \in Conversing
  BY DEF AllUsed
<1>1. e \in Committed /\ e \in Turns /\ turnOf[e] # Nothing
  BY DEF SeenUsed, Committed
<1>2. PICK a \in 1..Len(talk) : talk[a].of = e /\ talk[a].role = "user"
  BY <1>1 DEF Told
<1>3. PICK b \in 1..Len(talk) : talk[b].of = e /\ talk[b].role = "assistant"
  BY <1>1 DEF Told
<1>4. At(e, "user") = a /\ At(e, "assistant") = b
  BY <1>2, <1>3, AtIs
<1>5. ~Crossed(e, a, b)
  <2> SUFFICES ASSUME NEW r \in 1..Len(talk), a < r, r < b, talk[r].of \in Committed \ {e},
                      talk[r].thread = talk[a].thread
               PROVE  FALSE
    BY DEF Crossed
  <2>1. PICK f : f = talk[r].of
    OBVIOUS
  <2>2. f \in Committed \ {e} /\ f \in Turns /\ turnOf[f] # Nothing
    BY <2>1 DEF Committed
  <2>3. turnOf[f][1] = turnOf[e][1]
    BY <1>2, <2>1 DEF Told
  <2>4. PICK u \in 1..Len(talk) : talk[u].of = f /\ talk[u].role = "user"
    BY <2>2 DEF Told
  <2>5. PICK v \in 1..Len(talk) : talk[v].of = f /\ talk[v].role = "assistant"
    BY <2>2 DEF Told
  <2>6. At(f, "user") = u /\ At(f, "assistant") = v /\ u < v
    <3>1. u < v
      BY <2>4, <2>5 DEF Told
    <3> QED BY <2>4, <2>5, <3>1, AtIs
  <2>7. talk[r].role \in Roles
    BY RowIs
  <2>8. r = u \/ r = v
    BY <2>1, <2>4, <2>5, <2>7 DEF Told, Roles
  <2>9. v < a \/ b < u
    BY <1>4, <2>2, <2>3, <2>6 DEF Apart
  <2> QED BY <2>6, <2>8, <2>9
<1>6. PICK k \in 1..Len(generation.pairs) : generation.pairs[k] = Pair("conversation", e, e)
  <2>1. ~(Len(generation.pairs) >= MaxPairs)
    BY GenerationIs, TurnsAre
  <2> QED BY <1>2, <1>3, <1>4, <1>5, <2>1 DEF SeenUsed, Used
<1>7. Pair("conversation", e, e).source = "conversation"
  BY PairIs
<1> QED BY <1>6, <1>7 DEF Conversing, RangeOf

LEMMA InvPairsBounded == TrainingType /\ Fitting => PairsBounded
<1> SUFFICES ASSUME TrainingType, Fitting PROVE PairsBounded
  OBVIOUS
<1>1. Len(generation.pairs) + Len(generation.todo) <= MaxPairs /\ Distinct(generation.pairs)
  BY DEF Fitting
<1>2. Len(generation.pairs) <= MaxPairs
  <2>1. Len(generation.pairs) \in Nat /\ Len(generation.todo) \in Nat
    BY GenerationIs
  <2>2. \A m, n \in Nat : m + n <= MaxPairs => m <= MaxPairs
    BY TurnsAre
  <2> QED BY <1>1, <2>1, <2>2
<1>3. Cardinality(RangeOf(generation.pairs)) = Len(generation.pairs)
  BY <1>1, GenerationIs, CountDistinct
<1> QED BY <1>2, <1>3 DEF PairsBounded

LEMMA HoldoutIs ==
  ASSUME NEW pairs \in Seq(Pairs), pairs # <<>>
  PROVE  HoldoutOf(pairs) \in Nat /\ 1 <= HoldoutOf(pairs) /\ HoldoutOf(pairs) <= Len(pairs)
<1>1. Len(pairs) \in Nat \ {0} /\ Share \in Nat \ {0}
  BY TurnsAre, EmptySeq
<1>2. Len(pairs) >= Share => /\ Len(pairs) \div Share \in Nat /\ 1 <= Len(pairs) \div Share
                             /\ Len(pairs) \div Share <= Len(pairs)
  BY <1>1
<1> QED BY <1>1, <1>2 DEF HoldoutOf

LEMMA FirstOfIs ==
  ASSUME NEW S, NEW s \in Seq(S), NEW n \in Nat
  PROVE  /\ FirstOf(s, n) \in Seq(S) /\ Len(FirstOf(s, n)) \in Nat
         /\ Len(FirstOf(s, n)) <= n /\ Len(FirstOf(s, n)) <= Len(s)
         /\ \A i \in 1..Len(FirstOf(s, n)) : FirstOf(s, n)[i] = s[i]
<1>1. PICK m \in 0..Len(s) : FirstOf(s, n) = SubSeq(s, 1, m) /\ m <= n
  <2>1. CASE Len(s) < n
    <3>1. FirstOf(s, n) = SubSeq(s, 1, Len(s)) /\ Len(s) \in 0..Len(s) /\ Len(s) <= n
      BY <2>1 DEF FirstOf
    <3> QED BY <3>1
  <2>2. CASE ~(Len(s) < n)
    <3>1. FirstOf(s, n) = SubSeq(s, 1, n) /\ n \in 0..Len(s)
      BY <2>2 DEF FirstOf
    <3> QED BY <3>1
  <2> QED BY <2>1, <2>2
<1>2. \A i \in 1..m : s[i] \in S
  BY <1>1
<1>3. /\ SubSeq(s, 1, m) \in Seq(S) /\ Len(SubSeq(s, 1, m)) = m
      /\ \A i \in 1..m : SubSeq(s, 1, m)[i] = s[i]
  BY <1>1, <1>2, SubSeqProperties
<1> QED BY <1>1, <1>3

LEMMA HeldOutIs ==
  ASSUME NEW pairs \in Seq(Pairs), pairs # <<>>
  PROVE  LET H == HoldoutOf(pairs)
             s == HeldOut(pairs) IN
         /\ s \in Seq(Pairs) /\ Len(s) = H
         /\ \A n \in 1..H : s[n] = pairs[Len(pairs) - H + n]
<1>1. PICK H \in Nat : H = HoldoutOf(pairs) /\ 1 <= H /\ H <= Len(pairs)
  BY HoldoutIs
<1>2. PICK L \in Nat : L = Len(pairs)
  OBVIOUS
<1>3. PICK s : s = HeldOut(pairs)
  OBVIOUS
<1>4. \A i \in L - H + 1..L : pairs[i] \in Pairs
  BY <1>1, <1>2
<1>5. L - H + 1 <= L /\ L - (L - H + 1) + 1 = H /\ L - H + 1 \in Int
  BY <1>1, <1>2
<1>6. s = SubSeq(pairs, L - H + 1, L)
  BY <1>1, <1>2, <1>3 DEF HeldOut
<1>7. /\ s \in Seq(Pairs) /\ Len(s) = L - (L - H + 1) + 1
      /\ \A n \in 1..L - (L - H + 1) + 1 : s[n] = pairs[(L - H + 1) + n - 1]
  BY <1>4, <1>5, <1>6, SubSeqProperties
<1>8. \A n \in 1..H : (L - H + 1) + n - 1 = L - H + n
  BY <1>1, <1>2
<1> QED BY <1>1, <1>2, <1>3, <1>5, <1>7, <1>8

LEMMA PromptedApart ==
  ASSUME NEW pairs \in Seq(Pairs), Distinct(pairs), pairs # <<>>, NEW p \in Prompted(pairs),
         p \in RangeOf(FirstOf(HeldOut(pairs), SampleCap))
  PROVE  Cardinality(FromSource(pairs, p.source)) < PerSource + HoldoutOf(pairs)
<1>1. PICK H \in Nat : H = HoldoutOf(pairs) /\ 1 <= H /\ H <= Len(pairs)
  BY HoldoutIs
<1>2. PICK L \in Nat : L = Len(pairs)
  OBVIOUS
<1>3. PICK j \in 1..L : p = pairs[j] /\ Cardinality(FromSource(pairs, p.source) \cap 1..j) <= PerSource
  BY <1>2 DEF Prompted
<1>4. PICK s : s = HeldOut(pairs)
  OBVIOUS
<1>5. s \in Seq(Pairs) /\ Len(s) = H /\ \A n \in 1..H : s[n] = pairs[L - H + n]
  BY <1>1, <1>2, <1>4, HeldOutIs
<1>6. RangeOf(FirstOf(s, SampleCap)) \subseteq RangeOf(s)
  <2>1. PICK t : t = FirstOf(s, SampleCap)
    OBVIOUS
  <2>2. /\ Len(t) \in Nat /\ Len(t) <= Len(s) /\ \A i \in 1..Len(t) : t[i] = s[i]
    BY <1>5, <2>1, FirstOfIs, TurnsAre
  <2>3. \A i \in 1..Len(t) : i \in 1..Len(s)
    BY <1>5, <2>2
  <2> QED BY <2>1, <2>2, <2>3 DEF RangeOf
<1>7. PICK n \in 1..H : p = pairs[L - H + n]
  <2>1. p \in RangeOf(s)
    BY <1>4, <1>6
  <2>2. PICK n \in 1..H : p = s[n]
    BY <1>5, <2>1 DEF RangeOf
  <2> QED BY <1>5, <2>2
<1>8. j = L - H + n
  <2>1. L - H + n \in 1..L
    BY <1>1, <1>2, <1>7
  <2>2. pairs[j] = pairs[L - H + n]
    BY <1>3, <1>7
  <2> QED BY <1>2, <2>1, <2>2 DEF Distinct
<1>9. PICK F : F = FromSource(pairs, p.source)
  OBVIOUS
<1>10. F \subseteq 1..L /\ F \subseteq (F \cap 1..j) \cup (j + 1..L)
  BY <1>2, <1>3, <1>9 DEF FromSource
<1>11. IsFiniteSet(1..L) /\ IsFiniteSet(j + 1..L) /\ Cardinality(j + 1..L) <= H - 1
  <2>1. /\ IsFiniteSet(j + 1..L) /\ Cardinality(j + 1..L) = IF j + 1 > L THEN 0 ELSE L - (j + 1) + 1
        /\ IsFiniteSet(1..L)
    BY FS_Interval
  <2>2. L - j <= H - 1 /\ 0 <= H - 1
    BY <1>1, <1>7, <1>8
  <2> QED BY <2>1, <2>2
<1>12. IsFiniteSet(F \cap 1..j) /\ IsFiniteSet(F)
  <2>1. F \cap 1..j \in SUBSET (1..L) /\ F \in SUBSET (1..L)
    BY <1>10
  <2> QED BY <1>11, <2>1, FS_Subset
<1>13. Cardinality((F \cap 1..j) \cup (j + 1..L)) <= PerSource + H - 1
  <2> DEFINE G == F \cap 1..j
             I == j + 1..L
  <2>1. Cardinality(G \cup I) = Cardinality(G) + Cardinality(I) - Cardinality(G \cap I)
    BY <1>11, <1>12, FS_Union
  <2>2. IsFiniteSet(G \cap I)
    BY <1>12, FS_Subset
  <2>3. Cardinality(G) \in Nat /\ Cardinality(I) \in Nat /\ Cardinality(G \cap I) \in Nat
    BY <1>11, <1>12, <2>2, FS_CardinalityType
  <2>4. Cardinality(G) <= PerSource
    BY <1>3, <1>9
  <2> HIDE DEF G, I
  <2>5. Cardinality(I) <= H - 1
    BY <1>11 DEF I
  <2>6. Cardinality(G \cup I) <= PerSource + H - 1
    BY <1>1, <2>1, <2>3, <2>4, <2>5, TurnsAre
  <2> QED BY <2>6 DEF G, I
<1>14. IsFiniteSet((F \cap 1..j) \cup (j + 1..L))
  BY <1>11, <1>12, FS_Union
<1>15. Cardinality(F) <= Cardinality((F \cap 1..j) \cup (j + 1..L))
  BY <1>10, <1>14, FS_Subset
<1>16. Cardinality(F) \in Nat /\ Cardinality((F \cap 1..j) \cup (j + 1..L)) \in Nat
  BY <1>12, <1>14, FS_CardinalityType
<1> QED BY <1>1, <1>9, <1>13, <1>15, <1>16, TurnsAre

LEMMA FactsAre == \A s \in Seq(Facts) : \A i \in 1..Len(s) : s[i] \in Facts /\ s[i] \in Nat
<1> SUFFICES ASSUME NEW s \in Seq(Facts), NEW i \in 1..Len(s) PROVE s[i] \in Facts /\ s[i] \in Nat
  OBVIOUS
<1>1. s[i] \in Facts
  OBVIOUS
<1>2. Facts \subseteq Nat
  BY TurnsAre
<1> QED BY <1>1, <1>2

LEMMA KnownIs ==
  ASSUME NEW q \in Seq(Facts)
  PROVE  /\ Known(q) \in Seq(Pairs) /\ Len(Known(q)) = Len(q) /\ Len(q) \in Nat
         /\ \A i \in 1..Len(q) : Known(q)[i] = Pair("knowledge", q[i], q[i])
<1>1. \A i \in 1..Len(q) : q[i] \in Nat
  BY FactsAre
<1>2. \A i \in 1..Len(q) : Pair("knowledge", q[i], q[i]) \in Pairs
  BY <1>1 DEF Pair, Pairs
<1> QED BY <1>2 DEF Known

LEMMA DescendingUnique ==
  ASSUME NEW q \in Seq(Facts), NEW r \in Seq(Facts), Descending(q), Descending(r),
         RangeOf(q) = RangeOf(r)
  PROVE  q = r
<1> DEFINE R == {x \in Nat \X Nat : x[1] > x[2]}
<1>1. Asymmetric(R)
  <2>1. \A x, y : <<x, y>> \in R => x \in Nat /\ y \in Nat /\ x > y
    OBVIOUS
  <2>2. \A x, y : ~(x \in Nat /\ y \in Nat /\ x > y /\ y > x)
    OBVIOUS
  <2> HIDE DEF R
  <2> QED BY <2>1, <2>2 DEF Asymmetric
<1>2. \A s \in Seq(Facts) : Descending(s) => Sorted(s, R)
  <2> SUFFICES ASSUME NEW s \in Seq(Facts), Descending(s),
                      NEW i \in 1..Len(s), NEW j \in 1..Len(s), i < j
               PROVE  <<s[i], s[j]>> \in R
    BY DEF Sorted
  <2>1. s[i] \in Nat /\ s[j] \in Nat
    BY FactsAre
  <2>2. s[i] > s[j]
    BY DEF Descending
  <2> QED BY <2>1, <2>2
<1> HIDE DEF R
<1> QED BY <1>1, <1>2, SortedUnique

LEMMA UndisturbedUnique ==
  ASSUME TrainingType, Told, NEW ps, NEW qs, Undisturbed(ps), Undisturbed(qs)
  PROVE  ps = qs
<1>1. PICK c \in Spoken :
        \/ Len(c) >= MaxPairs /\ ps = c
        \/ /\ Len(c) < MaxPairs
           /\ \E q \in Seq(Facts) : /\ Descending(q) /\ RangeOf(q) = ReadOf(c)
                                    /\ ps = WithTraits(c \o Known(q))
  BY DEF Undisturbed
<1>2. PICK d \in Spoken :
        \/ Len(d) >= MaxPairs /\ qs = d
        \/ /\ Len(d) < MaxPairs
           /\ \E q \in Seq(Facts) : /\ Descending(q) /\ RangeOf(q) = ReadOf(d)
                                    /\ qs = WithTraits(d \o Known(q))
  BY DEF Undisturbed
<1>3. c = d
  BY SpokenUnique
<1>4. CASE Len(c) < MaxPairs /\ ~(Len(c) >= MaxPairs)
  <2>1. PICK q \in Seq(Facts) : /\ Descending(q) /\ RangeOf(q) = ReadOf(c)
                                /\ ps = WithTraits(c \o Known(q))
    BY <1>1, <1>4
  <2>2. PICK r \in Seq(Facts) : /\ Descending(r) /\ RangeOf(r) = ReadOf(c)
                                /\ qs = WithTraits(c \o Known(r))
    BY <1>2, <1>3, <1>4
  <2>3. q = r
    BY <2>1, <2>2, DescendingUnique
  <2> QED BY <2>1, <2>2, <2>3
<1>5. CASE Len(c) >= MaxPairs /\ ~(Len(c) < MaxPairs)
  BY <1>1, <1>2, <1>3, <1>5
<1>6. Len(c) \in Nat
  BY SpokenIs
<1> QED BY <1>4, <1>5, <1>6, TurnsAre

LEMMA TrainingInitial == TrainingInit => TrainingInv
<1> SUFFICES ASSUME TrainingInit PROVE TrainingInv
  OBVIOUS
<1>1. /\ talk = <<>> /\ turnOf = [e \in Turns |-> Nothing] /\ facts = <<>>
      /\ generation = NoGeneration /\ baked = {} /\ sampled = NoSamples /\ moved = {}
  BY DEF TrainingInit
<1>2. /\ generation.pc = "none" /\ generation.why = "train" /\ generation.pairs = <<>>
      /\ generation.todo = <<>> /\ generation.seen = {}
  BY <1>1 DEF NoGeneration
<1>3. TrainingType
  <2>1. trainingLeft \in [{"turn", "fact", "run", "persona"} -> Nat]
    BY TrainingAssumption DEF TrainingInit
  <2>2. generation \in [pc : {"none", "facts", "asking", "ready"}, why : {"train", "evaluate"},
                        pairs : Seq(Pairs), todo : Seq(Facts), seen : SUBSET Turns]
    BY <1>1 DEF NoGeneration
  <2>3. sampled \in [samples : SUBSET Pairs, all : Seq(Pairs)]
    BY <1>1 DEF NoSamples
  <2>4. turnOf \in [Turns -> TurnStates]
    BY <1>1 DEF TurnStates
  <2> QED BY <1>1, <2>1, <2>2, <2>3, <2>4 DEF TrainingType
<1>4. Committed = {} /\ \A e \in Turns : turnOf[e] = Nothing
  BY <1>1 DEF Committed
<1>5. Told
  BY <1>1, <1>4 DEF Told
<1>6. Descending(facts) /\ Own /\ SeenUsed
  BY <1>1, <1>2 DEF Descending, Own, SeenUsed
<1>7. Fitting
  BY <1>2, TurnsAre DEF Fitting, Descending, Distinct, Unlike, Doing
<1>8. Steady /\ Made /\ TestedApart
  BY <1>1, <1>2 DEF Steady, Made, TestedApart, Doing, NoSamples
<1> QED BY <1>3, <1>5, <1>6, <1>7, <1>8 DEF TrainingInv

\* What one exchange adds leaves what was said before as it was.
LEMMA TalkGrows ==
  ASSUME TrainingType, NEW row \in Messages, talk' = Append(talk, row), row.of \notin Committed,
         Committed \subseteq Committed'
  PROVE  /\ \A p : OwnPair(p) => OwnPair(p)'
         /\ \A e \in Committed : \A ps : Used(e, ps) => Used(e, ps)'
<1>1. PICK L \in Nat : L = Len(talk)
  BY DEF TrainingType
<1>2. /\ Len(talk') = L + 1 /\ talk'[L + 1] = row
      /\ \A i \in 1..L : i \in 1..L + 1 /\ talk'[i] = talk[i]
      /\ \A i \in 1..L + 1 : i \in 1..L \/ i = L + 1
  BY <1>1, AppendProperties DEF TrainingType
<1>3. ASSUME NEW p, OwnPair(p) PROVE OwnPair(p)'
  <2>1. PICK a \in 1..L, b \in 1..L, c \in 1..L :
          /\ talk[a].of = p.input /\ talk[a].role = "user"
          /\ talk[b].of = p.output /\ talk[b].role = "assistant"
          /\ talk[c].of = p.output /\ talk[c].role = "user"
          /\ talk[a].thread = talk[b].thread /\ c <= a /\ a < b
    BY <1>1, <1>3 DEF OwnPair
  <2>2. talk'[a] = talk[a] /\ talk'[b] = talk[b] /\ talk'[c] = talk[c]
    BY <1>2
  <2> QED BY <1>2, <2>1, <2>2 DEF OwnPair
<1>4. ASSUME NEW e \in Committed, NEW ps, Used(e, ps) PROVE Used(e, ps)'
  <2> SUFFICES ASSUME NEW a \in 1..Len(talk'), NEW b \in 1..Len(talk'),
                      talk'[a].of = e, talk'[a].role = "user", talk'[a].long,
                      talk'[b].of = e, talk'[b].role = "assistant", talk'[b].long
               PROVE  \/ Len(ps) >= MaxPairs \/ Crossed(e, a, b)'
                      \/ \E k \in 1..Len(ps) : ps[k] = Pair("conversation", e, e)
    BY DEF Used
  <2>1. a \in 1..L /\ b \in 1..L
    BY <1>2
  <2>2. talk'[a] = talk[a] /\ talk'[b] = talk[b]
    BY <1>2, <2>1
  <2>3. \/ Len(ps) >= MaxPairs \/ Crossed(e, a, b)
        \/ \E k \in 1..Len(ps) : ps[k] = Pair("conversation", e, e)
    BY <1>1, <1>4, <2>1, <2>2 DEF Used
  <2>4. ASSUME Crossed(e, a, b) PROVE Crossed(e, a, b)'
    <3>1. PICK r \in 1..L : /\ a < r /\ r < b /\ talk[r].of \in Committed \ {e}
                            /\ talk[r].thread = talk[a].thread
      BY <1>1, <2>4 DEF Crossed
    <3>2. talk'[r] = talk[r] /\ r \in 1..Len(talk')
      BY <1>2
    <3> QED BY <2>2, <3>1, <3>2 DEF Crossed
  <2> QED BY <2>3, <2>4
<1> QED BY <1>3, <1>4

LEMMA ReduceIs ==
  ASSUME TrainingType, NEW what \in {"turn", "fact", "run"}, Reduce(what)
  PROVE  /\ trainingLeft' \in [{"turn", "fact", "run", "persona"} -> Nat]
         /\ trainingLeft'.persona = trainingLeft.persona
BY DEF TrainingType, Reduce

LEMMA GenerationKept ==
  ASSUME generation' = generation, Committed \subseteq Committed',
         \A p : OwnPair(p) => OwnPair(p)',
         \A e \in Committed : \A ps : Used(e, ps) => Used(e, ps)',
         Own, SeenUsed, Fitting
  PROVE  Own' /\ SeenUsed' /\ Fitting'
<1>1. Own'
  BY DEF Own
<1>2. SeenUsed'
  BY DEF SeenUsed
<1>3. Fitting'
  BY DEF Fitting, Doing
<1> QED BY <1>1, <1>2, <1>3

LEMMA UndisturbedKept ==
  ASSUME Spoken' = Spoken, facts' = facts, trainingLeft'.persona = trainingLeft.persona
  PROVE  /\ \A ps : Undisturbed(ps) => Undisturbed(ps)'
         /\ \A ps, todo : Partway(ps, todo) => Partway(ps, todo)'
<1>1. \A c : ReadOf(c)' = ReadOf(c) /\ WithTraits(c)' = WithTraits(c)
  BY DEF ReadOf, WithTraits
<1> QED BY <1>1 DEF Undisturbed, Partway

LEMMA ApartKept ==
  ASSUME Spoken' = Spoken, facts' = facts, trainingLeft'.persona = trainingLeft.persona,
         UNCHANGED <<generation, baked, sampled, moved>>, Steady, Made, TestedApart
  PROVE  Steady' /\ Made' /\ TestedApart'
<1>1. Steady'
  BY UndisturbedKept DEF Steady, Doing
<1>2. Made'
  BY UndisturbedKept DEF Made
<1>3. TestedApart'
  BY DEF TestedApart
<1> QED BY <1>1, <1>2, <1>3

LEMMA TurnIs ==
  ASSUME TrainingType, NEW e \in Turns, turnOf[e] # Nothing
  PROVE  turnOf[e][1] \in Talks /\ turnOf[e][2] \in {"open", "committed"}
<1>1. turnOf[e] \in Talks \X {"open", "committed"}
  BY DEF TrainingType, TurnStates
<1> QED BY <1>1

LEMMA StatesAre ==
  \A t \in Talks, pc \in {"open", "committed"} :
    /\ <<t, pc>> \in TurnStates /\ <<t, pc>> # Nothing
    /\ <<t, pc>>[1] = t /\ <<t, pc>>[2] = pc
BY DEF TurnStates, Nothing

LEMMA AskReplicaStep ==
  ASSUME TrainingInv, NEW e \in Turns, NEW t \in Talks, NEW long \in BOOLEAN, AskReplica(e, t, long)
  PROVE  TrainingInv'
<1>1. /\ TrainingType /\ Told /\ Descending(facts)
      /\ Own /\ SeenUsed /\ Fitting /\ Steady /\ Made /\ TestedApart
  BY DEF TrainingInv
<1>2. /\ turnOf[e] = Nothing /\ Reduce("turn")
      /\ turnOf' = [turnOf EXCEPT ![e] = <<t, "open">>]
      /\ UNCHANGED <<facts, generation, baked, sampled, moved>>
  BY DEF AskReplica
<1>3. PICK row : row = [of |-> e, role |-> "user", long |-> long, thread |-> t]
  OBVIOUS
<1>4. /\ row \in Messages /\ row.of = e /\ row.role = "user" /\ row.thread = t
      /\ talk' = Append(talk, row)
  BY <1>3 DEF Messages, Roles, AskReplica
<1>5. PICK L \in Nat : L = Len(talk)
  BY <1>1 DEF TrainingType
<1>6. /\ talk' \in Seq(Messages) /\ Len(talk') = L + 1 /\ talk'[L + 1] = row
      /\ \A i \in 1..L : i \in 1..L + 1 /\ talk'[i] = talk[i]
      /\ \A i \in 1..L + 1 : i \in 1..L \/ i = L + 1
  BY <1>1, <1>4, <1>5, AppendProperties DEF TrainingType
<1>7. /\ turnOf' \in [Turns -> TurnStates] /\ turnOf'[e] # Nothing
      /\ turnOf'[e][1] = t /\ turnOf'[e][2] = "open"
      /\ \A f \in Turns : f # e => turnOf'[f] = turnOf[f]
  BY <1>1, <1>2, StatesAre DEF TrainingType
<1>8. trainingLeft' \in [{"turn", "fact", "run", "persona"} -> Nat]
      /\ trainingLeft'.persona = trainingLeft.persona
  BY <1>1, <1>2, ReduceIs
<1>9. TrainingType'
  BY <1>1, <1>2, <1>6, <1>7, <1>8 DEF TrainingType
<1>10. Committed' = Committed /\ e \notin Committed
  BY <1>2, <1>7 DEF Committed
<1>11. \A i \in 1..L : talk[i].of # e /\ talk[i].of \in Turns
  BY <1>1, <1>2, <1>5, RowIs DEF Told
<1>12. Told'
  <2>1. \A i, j \in 1..L + 1 :
          talk'[i].of = talk'[j].of /\ talk'[i].role = talk'[j].role => i = j
    BY <1>1, <1>4, <1>5, <1>6, <1>11 DEF Told
  <2>2. \A i \in 1..L + 1 :
          /\ turnOf'[talk'[i].of] # Nothing /\ turnOf'[talk'[i].of][1] = talk'[i].thread
          /\ talk'[i].role = "assistant" => talk'[i].of \in Committed
    BY <1>1, <1>4, <1>5, <1>6, <1>7, <1>11 DEF Told
  <2>3. ASSUME NEW f \in Turns, turnOf'[f] # Nothing
        PROVE  \E i \in 1..L + 1 : talk'[i].of = f /\ talk'[i].role = "user"
    <3>1. CASE f = e
      BY <1>4, <1>5, <1>6, <3>1
    <3>2. CASE f # e
      <4>1. PICK i \in 1..L : talk[i].of = f /\ talk[i].role = "user"
        BY <1>1, <1>5, <1>7, <2>3, <3>2 DEF Told
      <4> QED BY <1>6, <4>1
    <3> QED BY <3>1, <3>2
  <2>4. ASSUME NEW f \in Committed
        PROVE  \E i \in 1..L + 1 : talk'[i].of = f /\ talk'[i].role = "assistant"
    <3>1. PICK i \in 1..L : talk[i].of = f /\ talk[i].role = "assistant"
      BY <1>1, <1>5 DEF Told
    <3> QED BY <1>6, <3>1
  <2>5. \A i, j \in 1..L + 1 :
          talk'[i].of = talk'[j].of /\ talk'[i].role = "user" /\ talk'[j].role = "assistant" => i < j
    BY <1>1, <1>4, <1>5, <1>6, <1>11 DEF Told
  <2> QED BY <1>6, <1>10, <2>1, <2>2, <2>3, <2>4, <2>5 DEF Told
<1>13. Spoken' = Spoken
  <2>1. Rows' = Rows /\ Rows \subseteq 1..L
    BY <1>4, <1>5, <1>6, <1>10 DEF Rows
  <2>2. \A i \in Rows : talk'[i] = talk[i]
    BY <1>6, <2>1
  <2>3. \A i, j \in Rows : Before(i, j)' <=> Before(i, j)
    BY <2>2 DEF Before
  <2>4. ASSUME NEW order \in [1..Cardinality(Rows) -> Rows]
        PROVE  /\ InOrder(order)' <=> InOrder(order)
               /\ Read(order)' = Read(order)
    <3>1. Len(order) = Cardinality(Rows) /\ \A n \in 1..Len(order) : order[n] \in Rows
      BY <1>1, RowsAre
    <3>2. InOrder(order)' <=> InOrder(order)
      BY <2>1, <2>3, <3>1 DEF InOrder
    <3>3. Read(order)' = Read(order)
      BY <2>2, <3>1 DEF Read
    <3> QED BY <3>2, <3>3
  <2> QED BY <2>1, <2>4 DEF Spoken
<1>14. /\ \A p : OwnPair(p) => OwnPair(p)'
       /\ \A f \in Committed : \A ps : Used(f, ps) => Used(f, ps)'
  BY <1>1, <1>4, <1>10, TalkGrows
<1>15. Own' /\ SeenUsed' /\ Fitting'
  BY <1>1, <1>2, <1>10, <1>14, GenerationKept
<1>16. Steady' /\ Made' /\ TestedApart'
  BY <1>1, <1>2, <1>8, <1>13, ApartKept
<1>17. Descending(facts)'
  BY <1>1, <1>2 DEF Descending
<1> QED BY <1>9, <1>12, <1>15, <1>16, <1>17 DEF TrainingInv

LEMMA MovedIs == "version" \in Moved /\ "generation" \in Moved
BY DEF Moved

LEMMA ApartMoved ==
  ASSUME moved' = Moved PROVE Steady' /\ Made' /\ TestedApart'
BY MovedIs DEF Steady, Made, TestedApart

LEMMA AnswerOwnerStep ==
  ASSUME TrainingInv, NEW e \in Turns, NEW long \in BOOLEAN, AnswerOwner(e, long)
  PROVE  TrainingInv'
<1>1. /\ TrainingType /\ Told /\ Descending(facts) /\ Own /\ SeenUsed /\ Fitting
  BY DEF TrainingInv
<1>2. /\ turnOf[e] # Nothing /\ turnOf[e][2] = "open" /\ moved' = Moved
      /\ turnOf' = [turnOf EXCEPT ![e] = <<turnOf[e][1], "committed">>]
      /\ UNCHANGED <<facts, generation, baked, sampled, trainingLeft>>
  BY DEF AnswerOwner
<1>3. PICK t \in Talks : t = turnOf[e][1]
  BY <1>1, <1>2, TurnIs
<1>4. PICK row : row = [of |-> e, role |-> "assistant", long |-> long, thread |-> t]
  OBVIOUS
<1>5. /\ row \in Messages /\ row.of = e /\ row.role = "assistant" /\ row.thread = t
      /\ talk' = Append(talk, row)
  BY <1>3, <1>4 DEF Messages, Roles, AnswerOwner
<1>6. PICK L \in Nat : L = Len(talk)
  BY <1>1 DEF TrainingType
<1>7. /\ talk' \in Seq(Messages) /\ Len(talk') = L + 1 /\ talk'[L + 1] = row
      /\ \A i \in 1..L : i \in 1..L + 1 /\ talk'[i] = talk[i]
      /\ \A i \in 1..L + 1 : i \in 1..L \/ i = L + 1
  BY <1>1, <1>5, <1>6, AppendProperties DEF TrainingType
<1>8. /\ turnOf' \in [Turns -> TurnStates] /\ turnOf'[e] # Nothing
      /\ turnOf'[e][1] = t /\ turnOf'[e][2] = "committed"
      /\ \A f \in Turns : f # e => turnOf'[f] = turnOf[f]
  BY <1>1, <1>2, <1>3, StatesAre DEF TrainingType
<1>9. TrainingType'
  BY <1>1, <1>2, <1>7, <1>8 DEF TrainingType
<1>10. Committed' = Committed \cup {e} /\ e \notin Committed
  BY <1>2, <1>8 DEF Committed
<1>11. \A i \in 1..L : /\ talk[i].of \in Turns /\ talk[i].role \in Roles
                       /\ talk[i].of = e => talk[i].role = "user" /\ talk[i].thread = t
  BY <1>1, <1>3, <1>6, <1>10, RowIs DEF Told, Roles
<1>12. Told'
  <2>1. \A i, j \in 1..L + 1 :
          talk'[i].of = talk'[j].of /\ talk'[i].role = talk'[j].role => i = j
    BY <1>1, <1>5, <1>6, <1>7, <1>11 DEF Told
  <2>2. \A i \in 1..L + 1 :
          /\ turnOf'[talk'[i].of] # Nothing /\ turnOf'[talk'[i].of][1] = talk'[i].thread
          /\ talk'[i].role = "assistant" => talk'[i].of \in Committed \cup {e}
    BY <1>1, <1>5, <1>6, <1>7, <1>8, <1>11 DEF Told
  <2>3. ASSUME NEW f \in Turns, turnOf'[f] # Nothing
        PROVE  \E i \in 1..L + 1 : talk'[i].of = f /\ talk'[i].role = "user"
    <3>1. turnOf[f] # Nothing
      BY <1>2, <1>8, <2>3
    <3>2. PICK i \in 1..L : talk[i].of = f /\ talk[i].role = "user"
      BY <1>1, <1>6, <3>1 DEF Told
    <3> QED BY <1>7, <3>2
  <2>4. ASSUME NEW f \in Committed \cup {e}
        PROVE  \E i \in 1..L + 1 : talk'[i].of = f /\ talk'[i].role = "assistant"
    <3>1. CASE f = e
      BY <1>5, <1>6, <1>7, <3>1
    <3>2. CASE f \in Committed
      <4>1. PICK i \in 1..L : talk[i].of = f /\ talk[i].role = "assistant"
        BY <1>1, <1>6, <3>2 DEF Told
      <4> QED BY <1>7, <4>1
    <3> QED BY <2>4, <3>1, <3>2
  <2>5. \A i, j \in 1..L + 1 :
          talk'[i].of = talk'[j].of /\ talk'[i].role = "user" /\ talk'[j].role = "assistant" => i < j
    BY <1>1, <1>5, <1>6, <1>7, <1>11 DEF Told
  <2> QED BY <1>7, <1>10, <2>1, <2>2, <2>3, <2>4, <2>5 DEF Told
<1>13. /\ \A p : OwnPair(p) => OwnPair(p)'
       /\ \A f \in Committed : \A ps : Used(f, ps) => Used(f, ps)'
  BY <1>1, <1>5, <1>10, TalkGrows
<1>14. Own' /\ SeenUsed' /\ Fitting'
  BY <1>1, <1>2, <1>10, <1>13, GenerationKept
<1>15. Descending(facts)'
  BY <1>1, <1>2 DEF Descending
<1> QED BY <1>2, <1>9, <1>12, <1>14, <1>15, ApartMoved DEF TrainingInv

\* The actions that add nothing to what was said.
LEMMA TalkKept ==
  ASSUME UNCHANGED <<talk, turnOf>>
  PROVE  /\ Told => Told'
         /\ Committed' = Committed /\ Rows' = Rows /\ Spoken' = Spoken
         /\ \A p : OwnPair(p) => OwnPair(p)'
         /\ \A e \in Committed : \A ps : Used(e, ps) => Used(e, ps)'
<1>1. Committed' = Committed
  BY DEF Committed
<1>2. Rows' = Rows
  BY <1>1 DEF Rows
<1>3. Spoken' = Spoken
  BY <1>2 DEF Spoken, InOrder, Before, Read
<1>4. Told => Told'
  BY <1>1 DEF Told
<1>5. \A p : OwnPair(p) => OwnPair(p)'
  BY DEF OwnPair
<1>6. \A e \in Committed : \A ps : Used(e, ps) => Used(e, ps)'
  BY <1>1 DEF Used, Crossed
<1> QED BY <1>1, <1>2, <1>3, <1>4, <1>5, <1>6

LEMMA StoreFactStep ==
  ASSUME TrainingInv, NEW f \in Facts, StoreFact(f)
  PROVE  TrainingInv'
<1>1. /\ TrainingType /\ Told /\ Descending(facts) /\ Own /\ SeenUsed /\ Fitting
  BY DEF TrainingInv
<1>2. /\ RangeOf(facts) = 1..f - 1 /\ Reduce("fact") /\ facts' = <<f>> \o facts /\ moved' = Moved
      /\ UNCHANGED <<talk, turnOf, generation, baked, sampled>>
  BY DEF StoreFact
<1>3. PICK L \in Nat : L = Len(facts)
  BY <1>1 DEF TrainingType
<1>4. /\ facts' \in Seq(Facts) /\ Len(facts') = L + 1 /\ facts'[1] = f
      /\ \A i \in 2..L + 1 : i - 1 \in 1..L /\ facts'[i] = facts[i - 1]
  <2>1. <<f>> \in Seq(Facts) /\ Len(<<f>>) = 1 /\ <<f>>[1] = f
    OBVIOUS
  <2>2. /\ facts' \in Seq(Facts) /\ Len(facts') = 1 + L
        /\ \A i \in 1..1 + L : facts'[i] = IF i <= 1 THEN <<f>>[i] ELSE facts[i - 1]
    BY <1>1, <1>2, <1>3, <2>1, ConcatProperties DEF TrainingType
  <2> QED BY <1>3, <2>1, <2>2
<1>5. Descending(facts)'
  <2> SUFFICES ASSUME NEW i \in 1..L + 1, NEW j \in 1..L + 1, i < j PROVE facts'[i] > facts'[j]
    BY <1>4 DEF Descending
  <2>1. j \in 2..L + 1 /\ j - 1 \in 1..L /\ facts'[j] = facts[j - 1]
    BY <1>3, <1>4
  <2>2. CASE i = 1
    <3>1. facts[j - 1] \in 1..f - 1 /\ f \in Nat
      BY <1>2, <1>3, <2>1, TurnsAre DEF RangeOf
    <3> QED BY <1>4, <2>1, <2>2, <3>1
  <2>3. CASE i # 1
    <3>1. i \in 2..L + 1 /\ i - 1 \in 1..L /\ facts'[i] = facts[i - 1] /\ i - 1 < j - 1
      BY <1>3, <1>4, <2>3
    <3> QED BY <1>1, <1>3, <2>1, <3>1 DEF Descending
  <2> QED BY <2>2, <2>3
<1>6. trainingLeft' \in [{"turn", "fact", "run", "persona"} -> Nat]
  BY <1>1, <1>2, ReduceIs
<1>7. TrainingType'
  BY <1>1, <1>2, <1>4, <1>6 DEF TrainingType
<1>8. Told' /\ Own' /\ SeenUsed' /\ Fitting'
  BY <1>1, <1>2, TalkKept, GenerationKept
<1> QED BY <1>2, <1>5, <1>7, <1>8, ApartMoved DEF TrainingInv

LEMMA NoGenerationIs ==
  /\ NoGeneration \in [pc : {"none", "facts", "asking", "ready"}, why : {"train", "evaluate"},
                       pairs : Seq(Pairs), todo : Seq(Facts), seen : SUBSET Turns]
  /\ NoGeneration.pc = "none" /\ NoGeneration.pairs = <<>> /\ NoGeneration.todo = <<>>
  /\ NoGeneration.seen = {}
BY DEF NoGeneration

LEMMA BeginGenerationStep ==
  ASSUME TrainingInv, NEW why \in {"train", "evaluate"}, BeginGeneration(why)
  PROVE  TrainingInv'
<1>1. /\ TrainingType /\ Told /\ Descending(facts) /\ Own /\ SeenUsed /\ Fitting
      /\ Steady /\ Made /\ TestedApart
  BY DEF TrainingInv
<1>2. /\ Reduce("run") /\ moved' = moved \ {"generation"}
      /\ UNCHANGED <<talk, turnOf, facts, baked, sampled>>
  BY DEF BeginGeneration
<1>3. PICK pairs \in Spoken :
        generation' = [pc |-> Onward(pairs, "facts"), why |-> why, pairs |-> pairs,
                       todo |-> <<>>, seen |-> Committed]
  BY DEF BeginGeneration, Spoken
<1>4. /\ generation'.pc = Onward(pairs, "facts") /\ generation'.pairs = pairs
      /\ generation'.todo = <<>> /\ generation'.seen = Committed
  BY <1>3
<1>5. /\ pairs \in Seq(Pairs) /\ Len(pairs) \in Nat /\ Len(pairs) <= MaxPairs /\ Unlike(pairs)
      /\ \A k \in 1..Len(pairs) : pairs[k].source = "conversation" /\ OwnPair(pairs[k])
      /\ \A e \in Committed : Used(e, pairs)
  BY <1>1, SpokenIs
<1>6. trainingLeft' \in [{"turn", "fact", "run", "persona"} -> Nat]
      /\ trainingLeft'.persona = trainingLeft.persona
  BY <1>1, <1>2, ReduceIs
<1>7. TrainingType'
  <2>1. Onward(pairs, "facts") \in {"none", "facts", "asking", "ready"} /\ Committed \subseteq Turns
    BY DEF Onward, Committed
  <2>2. generation' \in [pc : {"none", "facts", "asking", "ready"}, why : {"train", "evaluate"},
                         pairs : Seq(Pairs), todo : Seq(Facts), seen : SUBSET Turns]
    BY <1>3, <1>5, <2>1
  <2> QED BY <1>1, <1>2, <1>6, <2>2 DEF TrainingType
<1>8. Told' /\ Spoken' = Spoken /\ Committed' = Committed
  BY <1>1, <1>2, TalkKept
<1>9. Own'
  <2>1. \A k \in 1..Len(pairs) : OwnPair(pairs[k])'
    BY <1>2, <1>5, TalkKept
  <2> QED BY <1>4, <2>1 DEF Own
<1>10. SeenUsed'
  <2>1. \A e \in Committed : Used(e, pairs)'
    BY <1>2, <1>5, TalkKept
  <2> QED BY <1>4, <1>8, <2>1 DEF SeenUsed
<1>11. Fitting'
  <2>1. Distinct(pairs)
    BY <1>5 DEF Distinct, Unlike
  <2>2. Len(pairs) + Len(<<>>) <= MaxPairs /\ Descending(<<>>)
    BY <1>5, TurnsAre DEF Descending
  <2>3. Onward(pairs, "facts") # "none"
        /\ (Onward(pairs, "facts") = "facts" => Len(pairs) < MaxPairs)
    BY DEF Onward
  <2>4. \A k \in 1..Len(pairs) : pairs[k].source # "personality" /\ pairs[k].source # "knowledge"
    BY <1>5
  <2> QED BY <1>4, <1>5, <2>1, <2>2, <2>3, <2>4 DEF Fitting, Doing
<1>12. Steady'
  <2>1. Len(pairs) < MaxPairs \/ Len(pairs) >= MaxPairs
    BY <1>5, TurnsAre
  <2>2. ~(Len(pairs) < MaxPairs) => Undisturbed(pairs)'
    BY <1>8, <2>1 DEF Undisturbed
  <2> QED BY <1>4, <1>8, <2>2 DEF Steady, Doing, Onward
<1>13. Made' /\ TestedApart'
  <2>1. "version" \notin moved' => "version" \notin moved
    BY <1>2
  <2>2. \A ps : Undisturbed(ps) => Undisturbed(ps)'
    BY <1>2, <1>6, <1>8, UndisturbedKept
  <2>3. "generation" \notin moved'
    BY <1>2
  <2>4. Made'
    BY <1>1, <1>2, <2>1, <2>2, <2>3 DEF Made
  <2>5. TestedApart'
    BY <1>1, <1>2, <2>1 DEF TestedApart
  <2> QED BY <2>4, <2>5
<1>14. Descending(facts)'
  BY <1>1, <1>2 DEF Descending
<1> QED BY <1>7, <1>8, <1>9, <1>10, <1>11, <1>12, <1>13, <1>14 DEF TrainingInv

\* What an action that changes the generation only has to show.
LEMMA GenerationMoves ==
  ASSUME TrainingInv, UNCHANGED <<talk, turnOf, facts, baked, sampled, trainingLeft>>,
         generation' \in [pc : {"none", "facts", "asking", "ready"}, why : {"train", "evaluate"},
                          pairs : Seq(Pairs), todo : Seq(Facts), seen : SUBSET Turns],
         moved' \in {moved, Moved}, generation'.seen = generation.seen,
         \A k \in 1..Len(generation.pairs) : generation'.pairs[k] = generation.pairs[k],
         Len(generation.pairs) <= Len(generation'.pairs),
         \A k \in 1..Len(generation'.pairs) :
           k > Len(generation.pairs) => generation'.pairs[k].source # "conversation"
  PROVE  /\ TrainingType' /\ Told' /\ Descending(facts)' /\ Own' /\ SeenUsed' /\ Made' /\ TestedApart'
         /\ Unlike(generation'.pairs) /\ Spoken' = Spoken
<1>1. /\ TrainingType /\ Told /\ Descending(facts) /\ Own /\ SeenUsed /\ Fitting
      /\ Steady /\ Made /\ TestedApart
  BY DEF TrainingInv
<1>2. TrainingType'
  BY <1>1 DEF TrainingType
<1>3. Told' /\ Spoken' = Spoken /\ Committed' = Committed
  BY <1>1, TalkKept
<1>4. PICK old : old = generation.pairs
  OBVIOUS
<1>5. PICK new : new = generation'.pairs
  OBVIOUS
<1>6. /\ Len(old) \in Nat /\ Len(new) \in Nat /\ Len(old) <= Len(new)
      /\ \A k \in 1..Len(old) : k \in 1..Len(new) /\ new[k] = old[k]
      /\ \A k \in 1..Len(new) : k \in 1..Len(old) \/ new[k].source # "conversation"
  BY <1>1, <1>4, <1>5 DEF TrainingType
<1>7. Own'
  <2>1. \A k \in 1..Len(new) : new[k].source = "conversation" => OwnPair(new[k])
    BY <1>1, <1>4, <1>6 DEF Own
  <2>2. \A k \in 1..Len(new) : new[k].source = "conversation" => OwnPair(new[k])'
    BY <2>1, TalkKept
  <2> QED BY <1>5, <2>2 DEF Own
<1>8. SeenUsed'
  <2>1. ASSUME NEW e \in generation.seen PROVE Used(e, new)
    <3>1. Used(e, old)
      BY <1>1, <1>4 DEF SeenUsed
    <3>2. Len(old) >= MaxPairs => Len(new) >= MaxPairs
      BY <1>6, TurnsAre
    <3>3. \A x : (\E k \in 1..Len(old) : old[k] = x) => \E k \in 1..Len(new) : new[k] = x
      BY <1>6
    <3> QED BY <3>1, <3>2, <3>3 DEF Used
  <2>2. generation.seen \subseteq Committed
    BY <1>1 DEF SeenUsed
  <2>3. \A e \in generation.seen : Used(e, new)'
    BY <2>1, <2>2, TalkKept
  <2> QED BY <1>3, <1>5, <2>2, <2>3 DEF SeenUsed
<1>9. Made' /\ TestedApart'
  <2>1. CASE moved' = Moved
    BY <2>1, ApartMoved
  <2>2. CASE moved' = moved
    <3>1. Made'
      BY <1>1, <1>3, <2>2, UndisturbedKept DEF Made
    <3>2. TestedApart'
      BY <1>1, <2>2 DEF TestedApart
    <3> QED BY <3>1, <3>2
  <2> QED BY <2>1, <2>2
<1>10. Unlike(new)
  <2>1. Unlike(old)
    BY <1>1, <1>4 DEF Fitting
  <2>2. \A k \in 1..Len(new) : new[k].source = "conversation" => k \in 1..Len(old) /\ new[k] = old[k]
    BY <1>6
  <2> QED BY <2>1, <2>2 DEF Unlike
<1>11. Descending(facts)'
  BY <1>1 DEF Descending
<1> QED BY <1>2, <1>3, <1>5, <1>7, <1>8, <1>9, <1>10, <1>11

LEMMA ReadFactsStep == ASSUME TrainingInv, ReadFacts PROVE TrainingInv'
<1>1. /\ TrainingType /\ Told /\ Descending(facts) /\ Fitting /\ Steady
  BY DEF TrainingInv
<1>2. Doing("facts") /\ UNCHANGED <<talk, turnOf, facts, baked, sampled, moved, trainingLeft>>
  BY DEF ReadFacts
<1>3. PICK pairs \in Seq(Pairs) : pairs = generation.pairs /\ Len(pairs) \in Nat /\ Len(pairs) < MaxPairs
  BY <1>1, <1>2, GenerationIs DEF Fitting
<1>4. PICK n \in Nat : /\ n = IF MaxPairs - Len(pairs) < FactLimit THEN MaxPairs - Len(pairs) ELSE FactLimit
                       /\ n <= MaxPairs - Len(pairs)
  <2>1. MaxPairs - Len(pairs) \in Nat /\ FactLimit \in Nat
    BY <1>3, TurnsAre
  <2>2. CASE MaxPairs - Len(pairs) < FactLimit
    BY <2>1, <2>2
  <2>3. CASE ~(MaxPairs - Len(pairs) < FactLimit)
    BY <2>1, <2>3
  <2> QED BY <2>2, <2>3
<1>5. PICK todo : todo = FirstOf(facts, n)
  OBVIOUS
<1>6. /\ todo \in Seq(Facts) /\ Len(todo) \in Nat /\ Len(todo) <= n /\ Len(todo) <= Len(facts)
      /\ \A i \in 1..Len(todo) : todo[i] = facts[i]
  BY <1>1, <1>5, FirstOfIs, GenerationIs
<1>7. generation' = [generation EXCEPT !.todo = todo, !.pc = "asking"]
  BY <1>3, <1>4, <1>5 DEF ReadFacts
<1>8. generation' = [pc |-> "asking", why |-> generation.why, pairs |-> pairs, todo |-> todo,
                     seen |-> generation.seen]
  BY <1>1, <1>3, <1>7, Zenon DEF TrainingType
<1>9. /\ generation'.pc = "asking" /\ generation'.pairs = pairs /\ generation'.todo = todo
      /\ generation'.seen = generation.seen
  BY <1>8
<1>10. generation' \in [pc : {"none", "facts", "asking", "ready"}, why : {"train", "evaluate"},
                        pairs : Seq(Pairs), todo : Seq(Facts), seen : SUBSET Turns]
  BY <1>1, <1>6, <1>8, GenerationIs
<1>11. /\ TrainingType' /\ Told' /\ Descending(facts)' /\ Own' /\ SeenUsed' /\ Made' /\ TestedApart'
       /\ Unlike(pairs) /\ Spoken' = Spoken
  BY <1>2, <1>3, <1>9, <1>10, GenerationMoves
<1>12. Fitting'
  <2>1. Len(pairs) + Len(todo) <= MaxPairs
    BY <1>3, <1>4, <1>6, TurnsAre
  <2>2. Descending(todo)
    <3>1. \A i \in 1..Len(todo) : i \in 1..Len(facts)
      BY <1>1, <1>6, GenerationIs
    <3> QED BY <1>1, <1>6, <3>1 DEF Descending
  <2>3. Distinct(pairs) /\ \A k \in 1..Len(pairs) : /\ pairs[k].source # "personality"
                                                   /\ pairs[k].source # "knowledge"
    BY <1>1, <1>2, <1>3 DEF Fitting, Doing
  <2> QED BY <1>9, <1>11, <2>1, <2>2, <2>3 DEF Fitting, Doing
<1>13. Steady'
  <2> SUFFICES ASSUME "generation" \notin moved PROVE Partway(pairs, todo)'
    BY <1>2, <1>9 DEF Steady, Doing
  <2>1. pairs \in Spoken
    BY <1>1, <1>2, <1>3 DEF Steady
  <2>2. <<>> \in Seq(Facts) /\ Len(<<>>) = 0
    OBVIOUS
  <2>3. pairs = pairs \o Known(<<>>)
    <3>1. Known(<<>>) \in Seq(Pairs) /\ Len(Known(<<>>)) = 0
      BY <2>2, KnownIs
    <3>2. Known(<<>>) = <<>>
      BY <3>1, EmptySeq
    <3> QED BY <3>2, ConcatEmptySeq
  <2>4. Descending(<<>>) /\ RangeOf(<<>>) = {}
    BY <2>2 DEF Descending, RangeOf
  <2>5. ReadOf(pairs) = RangeOf(todo) \cap Translated
    BY <1>4, <1>5 DEF ReadOf
  <2>6. Partway(pairs, todo)
    <3>1. PICK q \in Seq(Facts) : q = <<>>
      BY <2>2
    <3>2. Descending(q) /\ pairs = pairs \o Known(q) /\ RangeOf(q) = {} /\ Len(q) = 0
      BY <2>2, <2>3, <2>4, <3>1
    <3>3. RangeOf(q) \cup (RangeOf(todo) \cap Translated) = ReadOf(pairs)
      BY <2>5, <3>2
    <3>4. \A i \in 1..Len(q), j \in 1..Len(todo) : q[i] > todo[j]
      BY <3>2
    <3> QED BY <1>3, <2>1, <3>2, <3>3, <3>4 DEF Partway
  <2> QED BY <1>2, <1>11, <2>6, UndisturbedKept
<1> QED BY <1>11, <1>12, <1>13 DEF TrainingInv

LEMMA TodoIs ==
  ASSUME NEW todo \in Seq(Facts), todo # <<>>, Descending(todo)
  PROVE  /\ Head(todo) \in Facts /\ Head(todo) = todo[1] /\ Tail(todo) \in Seq(Facts)
         /\ Len(todo) \in Nat /\ Len(Tail(todo)) = Len(todo) - 1 /\ Descending(Tail(todo))
         /\ RangeOf(todo) = RangeOf(Tail(todo)) \cup {Head(todo)}
         /\ \A j \in 1..Len(Tail(todo)) : /\ Tail(todo)[j] \in RangeOf(todo)
                                          /\ Head(todo) > Tail(todo)[j]
         /\ \A j \in 1..Len(Tail(todo)) : \E i \in 1..Len(todo) : Tail(todo)[j] = todo[i]
<1>1. PICK L \in Nat \ {0} : L = Len(todo)
  BY EmptySeq
<1>2. /\ Head(todo) \in Facts /\ Head(todo) = todo[1] /\ Tail(todo) \in Seq(Facts)
      /\ Len(Tail(todo)) = L - 1 /\ \A j \in 1..L - 1 : Tail(todo)[j] = todo[j + 1]
  BY <1>1, HeadTailProperties
<1>3. PICK rest : rest = Tail(todo)
  OBVIOUS
<1>4. \A j \in 1..L - 1 : j + 1 \in 1..L /\ j + 1 > 1 /\ rest[j] = todo[j + 1]
  BY <1>1, <1>2, <1>3
<1>5. \A i, j \in 1..L : i < j => todo[i] > todo[j]
  BY <1>1 DEF Descending
<1>6. Descending(rest)
  <2> SUFFICES ASSUME NEW i \in 1..L - 1, NEW j \in 1..L - 1, i < j PROVE rest[i] > rest[j]
    BY <1>2, <1>3 DEF Descending
  <2>1. i + 1 < j + 1
    OBVIOUS
  <2> QED BY <1>4, <1>5, <2>1
<1>7. RangeOf(todo) = RangeOf(rest) \cup {todo[1]}
  <2>1. \A i \in 1..L : i = 1 \/ \E j \in 1..L - 1 : j + 1 = i
    <3> SUFFICES ASSUME NEW i \in 1..L, i # 1 PROVE \E j \in 1..L - 1 : j + 1 = i
      OBVIOUS
    <3>1. i - 1 \in 1..L - 1 /\ (i - 1) + 1 = i
      BY <1>1
    <3> QED BY <3>1
  <2>2. 1 \in 1..L
    BY <1>1
  <2>3. RangeOf(todo) = {todo[i] : i \in 1..L} /\ RangeOf(rest) = {rest[j] : j \in 1..L - 1}
    BY <1>1, <1>2, <1>3 DEF RangeOf
  <2>4. \A i \in 1..L : todo[i] \in RangeOf(rest) \cup {todo[1]}
    <3> SUFFICES ASSUME NEW i \in 1..L, i # 1 PROVE todo[i] \in RangeOf(rest)
      OBVIOUS
    <3>1. PICK j \in 1..L - 1 : j + 1 = i
      BY <2>1
    <3>2. rest[j] = todo[i]
      BY <1>4, <3>1
    <3> QED BY <2>3, <3>2
  <2>5. \A j \in 1..L - 1 : rest[j] \in RangeOf(todo)
    BY <1>4, <2>3
  <2> QED BY <2>2, <2>3, <2>4, <2>5
<1>8. \A j \in 1..L - 1 : rest[j] \in RangeOf(todo) /\ todo[1] > rest[j]
  <2>1. 1 \in 1..L
    BY <1>1
  <2> QED BY <1>1, <1>4, <1>5, <2>1 DEF RangeOf
<1>9. \A j \in 1..L - 1 : \E i \in 1..L : rest[j] = todo[i]
  BY <1>4
<1> QED BY <1>1, <1>2, <1>3, <1>6, <1>7, <1>8, <1>9

LEMMA KnownMore ==
  ASSUME NEW c \in Seq(Pairs), NEW q \in Seq(Facts), NEW f \in Facts
  PROVE  /\ Append(q, f) \in Seq(Facts) /\ Len(Append(q, f)) = Len(q) + 1
         /\ c \o Known(Append(q, f)) = Append(c \o Known(q), Pair("knowledge", f, f))
         /\ RangeOf(Append(q, f)) = RangeOf(q) \cup {f}
<1>1. PICK r \in Seq(Facts) : r = Append(q, f)
  BY AppendProperties
<1>2. PICK L \in Nat : L = Len(q)
  OBVIOUS
<1>3. /\ Len(r) = L + 1 /\ r[L + 1] = f /\ \A i \in 1..L : r[i] = q[i]
      /\ \A i \in 1..L + 1 : i \in 1..L \/ i = L + 1
  BY <1>1, <1>2, AppendProperties
<1>4. PICK x \in Pairs : x = Pair("knowledge", f, f)
  BY TurnsAre DEF Pair, Pairs
<1>5. Known(r) = Append(Known(q), x)
  <2>1. /\ Append(Known(q), x) \in Seq(Pairs) /\ Len(Append(Known(q), x)) = L + 1
        /\ Append(Known(q), x)[L + 1] = x
        /\ \A i \in 1..L : Append(Known(q), x)[i] = Known(q)[i]
    BY <1>2, KnownIs, AppendProperties
  <2>2. /\ Known(r) \in Seq(Pairs) /\ Len(Known(r)) = L + 1
        /\ \A i \in 1..L + 1 : Known(r)[i] = Pair("knowledge", r[i], r[i])
    BY <1>3, KnownIs
  <2>3. \A i \in 1..L : Known(q)[i] = Pair("knowledge", q[i], q[i])
    BY <1>2, KnownIs
  <2>4. \A i \in 1..L + 1 : Known(r)[i] = Append(Known(q), x)[i]
    BY <1>3, <1>4, <2>1, <2>2, <2>3
  <2> QED BY <2>1, <2>2, <2>4, SeqEqual
<1>6. c \o Append(Known(q), x) = Append(c \o Known(q), x)
  <2>1. Known(q) \in Seq(Pairs) /\ <<x>> \in Seq(Pairs) /\ c \o Known(q) \in Seq(Pairs)
    BY KnownIs, ConcatProperties
  <2>2. Append(Known(q), x) = Known(q) \o <<x>> /\ Append(c \o Known(q), x) = (c \o Known(q)) \o <<x>>
    BY <2>1, AppendIsConcat
  <2> QED BY <2>1, <2>2, ConcatAssociative
<1>7. RangeOf(r) = RangeOf(q) \cup {f}
  <2>1. RangeOf(r) = {r[i] : i \in 1..L + 1} /\ RangeOf(q) = {q[i] : i \in 1..L}
    BY <1>2, <1>3 DEF RangeOf
  <2>2. L + 1 \in 1..L + 1 /\ \A i \in 1..L : i \in 1..L + 1
    BY <1>2
  <2> QED BY <1>3, <2>1, <2>2
<1> QED BY <1>1, <1>2, <1>3, <1>4, <1>5, <1>6, <1>7

LEMMA AskAboutFactStep == ASSUME TrainingInv, AskAboutFact PROVE TrainingInv'
<1>1. /\ TrainingType /\ Told /\ Descending(facts) /\ Fitting /\ Steady
  BY DEF TrainingInv
<1>2. /\ Doing("asking") /\ generation.todo # <<>>
      /\ UNCHANGED <<talk, turnOf, facts, baked, sampled, trainingLeft>>
  BY DEF AskAboutFact
<1>3. PICK pairs \in Seq(Pairs) : pairs = generation.pairs
  BY <1>1, GenerationIs
<1>4. PICK todo \in Seq(Facts) : todo = generation.todo /\ todo # <<>>
  BY <1>1, <1>2, GenerationIs
<1>5. PICK L \in Nat : L = Len(pairs)
  OBVIOUS
<1>6. /\ L + Len(todo) <= MaxPairs /\ Descending(todo) /\ Distinct(pairs)
      /\ \A k \in 1..L : /\ pairs[k].source # "personality"
                         /\ pairs[k].source = "knowledge" =>
                              \A j \in 1..Len(todo) : pairs[k].input > todo[j]
  BY <1>1, <1>2, <1>3, <1>4, <1>5 DEF Fitting, Doing
<1>7. PICK f \in Facts : f = Head(todo) /\ f = todo[1] /\ f \in Nat
  BY <1>4, <1>6, TodoIs, TurnsAre
<1>8. PICK rest \in Seq(Facts) : rest = Tail(todo)
  BY <1>4, <1>6, TodoIs
<1>9. /\ Len(todo) \in Nat \ {0} /\ Len(rest) \in Nat /\ Len(rest) = Len(todo) - 1
      /\ Descending(rest) /\ RangeOf(todo) = RangeOf(rest) \cup {f}
      /\ \A j \in 1..Len(rest) : f > rest[j] /\ \E i \in 1..Len(todo) : rest[j] = todo[i]
  <2>1. Len(todo) \in Nat \ {0}
    BY <1>4, EmptySeq
  <2> QED BY <1>4, <1>6, <1>7, <1>8, <2>1, TodoIs
<1>10. \A k \in 1..L : pairs[k].source = "knowledge" => /\ \A j \in 1..Len(rest) : pairs[k].input > rest[j]
                                                       /\ pairs[k].input > f
  <2>1. 1 \in 1..Len(todo)
    BY <1>9
  <2> QED BY <1>6, <1>7, <1>9, <2>1
<1>11. PICK x \in Pairs : x = Pair("knowledge", f, f) /\ x.source = "knowledge" /\ x.input = f
  <2>1. Pair("knowledge", f, f) \in Pairs
    BY <1>7 DEF Pair, Pairs
  <2> QED BY <2>1, PairIs
<1>12. ASSUME f \in Translated, moved' = moved,
              generation' = [generation EXCEPT !.todo = rest, !.pairs = Append(pairs, x)]
       PROVE  TrainingInv'
  <2>1. PICK more \in Seq(Pairs) : more = Append(pairs, x)
    BY AppendProperties
  <2>2. /\ Len(more) = L + 1 /\ more[L + 1] = x /\ \A k \in 1..L : more[k] = pairs[k]
        /\ \A k \in 1..L + 1 : k \in 1..L \/ k = L + 1
    BY <1>5, <2>1, AppendProperties
  <2>3. generation' = [pc |-> generation.pc, why |-> generation.why, pairs |-> more, todo |-> rest,
                       seen |-> generation.seen]
    BY <1>1, <1>12, <2>1, Zenon DEF TrainingType
  <2>4. /\ generation'.pc = "asking" /\ generation'.pairs = more /\ generation'.todo = rest
        /\ generation'.seen = generation.seen
    BY <1>2, <2>3 DEF Doing
  <2>5. generation' \in [pc : {"none", "facts", "asking", "ready"}, why : {"train", "evaluate"},
                         pairs : Seq(Pairs), todo : Seq(Facts), seen : SUBSET Turns]
    BY <1>1, <2>3, GenerationIs
  <2>6. /\ Len(generation.pairs) <= Len(generation'.pairs)
        /\ \A k \in 1..Len(generation.pairs) : generation'.pairs[k] = generation.pairs[k]
        /\ \A k \in 1..Len(generation'.pairs) :
             k > Len(generation.pairs) => generation'.pairs[k].source # "conversation"
    BY <1>3, <1>5, <1>11, <2>2, <2>4
  <2>7. /\ TrainingType' /\ Told' /\ Descending(facts)' /\ Own' /\ SeenUsed' /\ Made' /\ TestedApart'
        /\ Unlike(more) /\ Spoken' = Spoken
    BY <1>2, <1>12, <2>4, <2>5, <2>6, GenerationMoves
  <2>8. Fitting'
    <3>1. L + 1 + Len(rest) <= MaxPairs
      BY <1>6, <1>9, TurnsAre
    <3>2. Distinct(more)
      <4>1. \A k \in 1..L : pairs[k] # x
        <5> SUFFICES ASSUME NEW k \in 1..L, pairs[k] = x PROVE FALSE
          OBVIOUS
        <5>1. pairs[k].input > f /\ pairs[k].input = f
          BY <1>10, <1>11
        <5> QED BY <1>7, <5>1
      <4>2. \A k, l \in 1..L : pairs[k] = pairs[l] => k = l
        BY <1>5, <1>6 DEF Distinct
      <4> QED BY <2>2, <4>1, <4>2 DEF Distinct
    <3>3. \A k \in 1..L + 1 : /\ more[k].source # "personality"
                              /\ more[k].source = "knowledge" =>
                                   \A j \in 1..Len(rest) : more[k].input > rest[j]
      BY <1>6, <1>9, <1>10, <1>11, <2>2
    <3> QED BY <1>9, <2>2, <2>4, <2>7, <3>1, <3>2, <3>3 DEF Fitting, Doing
  <2>9. Steady'
    <3> SUFFICES ASSUME "generation" \notin moved PROVE Partway(more, rest)'
      BY <1>12, <2>4 DEF Steady, Doing
    <3>1. Partway(pairs, todo)
      BY <1>1, <1>2, <1>3, <1>4 DEF Steady
    <3>2. PICK c \in Spoken, q \in Seq(Facts) :
            /\ Len(c) < MaxPairs /\ Descending(q) /\ pairs = c \o Known(q)
            /\ RangeOf(q) \cup (RangeOf(todo) \cap Translated) = ReadOf(c)
            /\ \A i \in 1..Len(q), j \in 1..Len(todo) : q[i] > todo[j]
      BY <3>1 DEF Partway
    <3>3. c \in Seq(Pairs) /\ Len(q) \in Nat
      BY <1>1, SpokenIs
    <3>4. PICK r \in Seq(Facts) : r = Append(q, f)
      BY AppendProperties
    <3>5. /\ Len(r) = Len(q) + 1 /\ more = c \o Known(r) /\ RangeOf(r) = RangeOf(q) \cup {f}
      BY <1>11, <2>1, <3>2, <3>3, <3>4, KnownMore
    <3>6. /\ r[Len(q) + 1] = f /\ \A i \in 1..Len(q) : r[i] = q[i]
          /\ \A i \in 1..Len(q) + 1 : i \in 1..Len(q) \/ i = Len(q) + 1
      BY <3>3, <3>4, AppendProperties
    <3>7. \A i \in 1..Len(q) : q[i] > f /\ \A j \in 1..Len(rest) : q[i] > rest[j]
      <4>1. 1 \in 1..Len(todo)
        BY <1>9
      <4> QED BY <1>7, <1>9, <3>2, <4>1
    <3>8. Descending(r)
      <4>1. \A i, j \in 1..Len(q) : i < j => q[i] > q[j]
        BY <3>2 DEF Descending
      <4> SUFFICES ASSUME NEW i \in 1..Len(q) + 1, NEW j \in 1..Len(q) + 1, i < j PROVE r[i] > r[j]
        BY <3>5 DEF Descending
      <4>2. i \in 1..Len(q)
        BY <3>3
      <4>3. CASE j \in 1..Len(q)
        BY <3>6, <4>1, <4>2, <4>3
      <4>4. CASE j = Len(q) + 1
        BY <3>6, <3>7, <4>2, <4>4
      <4> QED BY <3>6, <4>3, <4>4
    <3>9. RangeOf(r) \cup (RangeOf(rest) \cap Translated) = ReadOf(c)
      BY <1>9, <1>12, <3>2, <3>5
    <3>10. \A i \in 1..Len(r), j \in 1..Len(rest) : r[i] > rest[j]
      BY <1>9, <3>5, <3>6, <3>7
    <3>11. Partway(more, rest)
      BY <3>2, <3>5, <3>8, <3>9, <3>10 DEF Partway
    <3> QED BY <1>2, <2>7, <3>11, UndisturbedKept
  <2> QED BY <2>7, <2>8, <2>9 DEF TrainingInv
<1>13. ASSUME moved' = (IF f \in Translated THEN Moved ELSE moved),
              generation' = [generation EXCEPT !.todo = rest]
       PROVE  TrainingInv'
  <2>1. generation' = [pc |-> generation.pc, why |-> generation.why, pairs |-> pairs, todo |-> rest,
                       seen |-> generation.seen]
    BY <1>1, <1>3, <1>13, Zenon DEF TrainingType
  <2>2. /\ generation'.pc = "asking" /\ generation'.pairs = pairs /\ generation'.todo = rest
        /\ generation'.seen = generation.seen
    BY <1>2, <2>1 DEF Doing
  <2>3. generation' \in [pc : {"none", "facts", "asking", "ready"}, why : {"train", "evaluate"},
                         pairs : Seq(Pairs), todo : Seq(Facts), seen : SUBSET Turns]
    BY <1>1, <2>1, GenerationIs
  <2>4. /\ Len(generation.pairs) <= Len(generation'.pairs)
        /\ \A k \in 1..Len(generation.pairs) : generation'.pairs[k] = generation.pairs[k]
        /\ \A k \in 1..Len(generation'.pairs) :
             k > Len(generation.pairs) => generation'.pairs[k].source # "conversation"
    BY <1>3, <1>5, <2>2
  <2>5. moved' \in {moved, Moved}
    BY <1>13
  <2>6. /\ TrainingType' /\ Told' /\ Descending(facts)' /\ Own' /\ SeenUsed' /\ Made' /\ TestedApart'
        /\ Unlike(pairs) /\ Spoken' = Spoken
    BY <1>2, <2>2, <2>3, <2>4, <2>5, GenerationMoves
  <2>7. Fitting'
    <3>1. L + Len(rest) <= MaxPairs
      BY <1>6, <1>9, TurnsAre
    <3> QED BY <1>5, <1>6, <1>9, <1>10, <2>2, <2>6, <3>1 DEF Fitting, Doing
  <2>8. Steady'
    <3> SUFFICES ASSUME "generation" \notin moved' PROVE Partway(pairs, rest)'
      BY <2>2 DEF Steady, Doing
    <3>1. f \notin Translated /\ moved' = moved
      BY <1>13, MovedIs
    <3>2. Partway(pairs, todo)
      BY <1>1, <1>2, <1>3, <1>4, <3>1 DEF Steady
    <3>3. PICK c \in Spoken, q \in Seq(Facts) :
            /\ Len(c) < MaxPairs /\ Descending(q) /\ pairs = c \o Known(q)
            /\ RangeOf(q) \cup (RangeOf(todo) \cap Translated) = ReadOf(c)
            /\ \A i \in 1..Len(q), j \in 1..Len(todo) : q[i] > todo[j]
      BY <3>2 DEF Partway
    <3>4. RangeOf(q) \cup (RangeOf(rest) \cap Translated) = ReadOf(c)
      BY <1>9, <3>1, <3>3
    <3>5. \A i \in 1..Len(q), j \in 1..Len(rest) : q[i] > rest[j]
      BY <1>9, <3>3
    <3>6. Partway(pairs, rest)
      BY <3>3, <3>4, <3>5 DEF Partway
    <3> QED BY <1>2, <2>6, <3>6, UndisturbedKept
  <2> QED BY <2>6, <2>7, <2>8 DEF TrainingInv
<1>14. \/ /\ f \in Translated /\ moved' = moved
          /\ generation' = [generation EXCEPT !.todo = rest, !.pairs = Append(pairs, x)]
       \/ /\ moved' = (IF f \in Translated THEN Moved ELSE moved)
          /\ generation' = [generation EXCEPT !.todo = rest]
  BY <1>3, <1>4, <1>7, <1>8, <1>11, Zenon DEF AskAboutFact
<1> QED BY <1>12, <1>13, <1>14

LEMMA WithTraitsIs ==
  ASSUME TrainingType, NEW pairs \in Seq(Pairs), Len(pairs) <= MaxPairs
  PROVE  /\ WithTraits(pairs) \in Seq(Pairs) /\ Len(WithTraits(pairs)) \in Nat
         /\ Len(pairs) <= Len(WithTraits(pairs)) /\ Len(WithTraits(pairs)) <= MaxPairs
         /\ \A k \in 1..Len(pairs) : WithTraits(pairs)[k] = pairs[k]
         /\ \A k \in 1..Len(WithTraits(pairs)) :
              \/ k \in 1..Len(pairs)
              \/ /\ k > Len(pairs)
                 /\ WithTraits(pairs)[k] = Pair("personality", k - Len(pairs), k - Len(pairs))
<1>1. PICK L \in Nat : L = Len(pairs) /\ L <= MaxPairs
  OBVIOUS
<1>2. PICK some \in Nat : /\ some = IF trainingLeft.persona < MaxPairs - L THEN trainingLeft.persona
                                   ELSE MaxPairs - L
                          /\ some <= MaxPairs - L
  <2>1. MaxPairs - L \in Nat /\ trainingLeft.persona \in Nat
    BY <1>1, TurnsAre, GenerationIs
  <2>2. CASE trainingLeft.persona < MaxPairs - L
    BY <2>1, <2>2
  <2>3. CASE ~(trainingLeft.persona < MaxPairs - L)
    BY <2>1, <2>3
  <2> QED BY <2>2, <2>3
<1>3. PICK traits : traits = [i \in 1..some |-> Pair("personality", i, i)]
  OBVIOUS
<1>4. /\ traits \in Seq(Pairs) /\ Len(traits) = some
      /\ \A i \in 1..some : traits[i] = Pair("personality", i, i)
  <2>1. \A i \in 1..some : Pair("personality", i, i) \in Pairs
    BY DEF Pair, Pairs
  <2> QED BY <1>3, <2>1
<1>5. WithTraits(pairs) = pairs \o traits
  BY <1>1, <1>2, <1>3 DEF WithTraits
<1>6. /\ pairs \o traits \in Seq(Pairs) /\ Len(pairs \o traits) = L + some
      /\ \A k \in 1..L + some : (pairs \o traits)[k] = IF k <= L THEN pairs[k] ELSE traits[k - L]
  BY <1>1, <1>4, ConcatProperties
<1>7. \A k \in 1..L + some : k \in 1..L \/ (k > L /\ ~(k <= L) /\ k - L \in 1..some)
  BY <1>1, <1>2
<1>8. \A k \in 1..L : k \in 1..L + some /\ k <= L
  BY <1>1, <1>2
<1>9. L <= L + some /\ L + some <= MaxPairs /\ L + some \in Nat
  BY <1>1, <1>2, TurnsAre
<1> QED BY <1>1, <1>4, <1>5, <1>6, <1>7, <1>8, <1>9

LEMMA AddPersonalityStep == ASSUME TrainingInv, AddPersonality PROVE TrainingInv'
<1>1. /\ TrainingType /\ Told /\ Descending(facts) /\ Fitting /\ Steady
  BY DEF TrainingInv
<1>2. /\ Doing("asking") /\ generation.todo = <<>>
      /\ UNCHANGED <<talk, turnOf, facts, baked, sampled, moved, trainingLeft>>
  BY DEF AddPersonality
<1>3. PICK pairs \in Seq(Pairs) : pairs = generation.pairs
  BY <1>1, GenerationIs
<1>4. PICK L \in Nat : L = Len(pairs)
  OBVIOUS
<1>5. /\ L <= MaxPairs /\ Distinct(pairs)
      /\ \A k \in 1..L : pairs[k].source # "personality"
  <2>1. L + Len(<<>>) <= MaxPairs /\ Distinct(pairs)
        /\ \A k \in 1..L : pairs[k].source # "personality"
    BY <1>1, <1>2, <1>3, <1>4 DEF Fitting, Doing
  <2> QED BY <2>1, TurnsAre
<1>6. PICK more \in Seq(Pairs) : more = WithTraits(pairs)
  BY <1>1, <1>4, <1>5, WithTraitsIs
<1>7. /\ Len(more) \in Nat /\ L <= Len(more) /\ Len(more) <= MaxPairs
      /\ \A k \in 1..L : more[k] = pairs[k]
      /\ \A k \in 1..Len(more) :
           k \in 1..L \/ (k > L /\ more[k] = Pair("personality", k - L, k - L))
  BY <1>1, <1>4, <1>5, <1>6, WithTraitsIs
<1>8. generation' = [generation EXCEPT !.pairs = more, !.pc = "ready"]
  BY <1>3, <1>6, Zenon DEF AddPersonality, WithTraits
<1>9. generation' = [pc |-> "ready", why |-> generation.why, pairs |-> more, todo |-> <<>>,
                     seen |-> generation.seen]
  BY <1>1, <1>2, <1>8, Zenon DEF TrainingType
<1>10. /\ generation'.pc = "ready" /\ generation'.pairs = more /\ generation'.todo = <<>>
       /\ generation'.seen = generation.seen
  BY <1>9
<1>11. generation' \in [pc : {"none", "facts", "asking", "ready"}, why : {"train", "evaluate"},
                        pairs : Seq(Pairs), todo : Seq(Facts), seen : SUBSET Turns]
  BY <1>1, <1>9, GenerationIs
<1>12. \A k \in 1..Len(more) :
         k \notin 1..L => k > L /\ more[k].source = "personality" /\ more[k].input = k - L
  <2> SUFFICES ASSUME NEW k \in 1..Len(more), k \notin 1..L
               PROVE  k > L /\ more[k].source = "personality" /\ more[k].input = k - L
    OBVIOUS
  <2>1. k > L /\ more[k] = Pair("personality", k - L, k - L)
    BY <1>7
  <2> QED BY <2>1, PairIs
<1>13. /\ Len(generation.pairs) <= Len(generation'.pairs)
       /\ \A k \in 1..Len(generation.pairs) : generation'.pairs[k] = generation.pairs[k]
       /\ \A k \in 1..Len(generation'.pairs) :
            k > Len(generation.pairs) => generation'.pairs[k].source # "conversation"
  BY <1>3, <1>4, <1>7, <1>10, <1>12
<1>14. /\ TrainingType' /\ Told' /\ Descending(facts)' /\ Own' /\ SeenUsed' /\ Made' /\ TestedApart'
       /\ Unlike(more) /\ Spoken' = Spoken
  BY <1>2, <1>10, <1>11, <1>13, GenerationMoves
<1>15. Fitting'
  <2>1. Distinct(more)
    <3> SUFFICES ASSUME NEW k \in 1..Len(more), NEW l \in 1..Len(more), more[k] = more[l]
                 PROVE  k = l
      BY DEF Distinct
    <3>1. CASE k \in 1..L /\ l \in 1..L
      BY <1>4, <1>5, <1>7, <3>1 DEF Distinct
    <3>2. CASE k \in 1..L /\ l \notin 1..L
      BY <1>5, <1>7, <1>12, <3>2
    <3>3. CASE k \notin 1..L /\ l \in 1..L
      BY <1>5, <1>7, <1>12, <3>3
    <3>4. CASE k \notin 1..L /\ l \notin 1..L
      <4>1. k - L = l - L
        BY <1>12, <3>4
      <4> QED BY <1>4, <1>7, <4>1
    <3> QED BY <3>1, <3>2, <3>3, <3>4
  <2>2. Len(more) + Len(<<>>) <= MaxPairs /\ Descending(<<>>) /\ Len(<<>>) = 0
    BY <1>7, TurnsAre DEF Descending
  <2> QED BY <1>10, <1>14, <2>1, <2>2 DEF Fitting, Doing
<1>16. Steady'
  <2> SUFFICES ASSUME "generation" \notin moved PROVE Undisturbed(more)'
    BY <1>2, <1>10 DEF Steady, Doing
  <2>1. Partway(pairs, <<>>)
    BY <1>1, <1>2, <1>3 DEF Steady
  <2>2. PICK c \in Spoken, q \in Seq(Facts) :
          /\ Len(c) < MaxPairs /\ Descending(q) /\ pairs = c \o Known(q)
          /\ RangeOf(q) \cup (RangeOf(<<>>) \cap Translated) = ReadOf(c)
    BY <2>1 DEF Partway
  <2>3. RangeOf(<<>>) = {}
    BY DEF RangeOf
  <2>4. RangeOf(q) = ReadOf(c) /\ more = WithTraits(c \o Known(q))
    BY <1>6, <2>2, <2>3
  <2>5. Undisturbed(more)
    BY <2>2, <2>4 DEF Undisturbed
  <2> QED BY <1>2, <1>14, <2>5, UndisturbedKept
<1> QED BY <1>14, <1>15, <1>16 DEF TrainingInv

\* No generation is under way any more.
LEMMA GenerationEnds ==
  ASSUME TrainingInv, UNCHANGED <<talk, turnOf, facts, trainingLeft>>,
         generation' = NoGeneration
  PROVE  Told' /\ Descending(facts)' /\ Own' /\ SeenUsed' /\ Fitting' /\ Steady'
<1>1. Told /\ Descending(facts)
  BY DEF TrainingInv
<1>2. Told'
  BY <1>1, TalkKept
<1>3. /\ generation'.pc = "none" /\ generation'.pairs = <<>> /\ generation'.todo = <<>>
      /\ generation'.seen = {}
  BY NoGenerationIs
<1>4. Descending(facts)' /\ Own' /\ SeenUsed'
  BY <1>1, <1>3 DEF Descending, Own, SeenUsed
<1>5. Fitting'
  BY <1>3, TurnsAre DEF Fitting, Descending, Distinct, Unlike, Doing
<1>6. Steady'
  BY <1>3 DEF Steady, Doing
<1> QED BY <1>2, <1>4, <1>5, <1>6

LEMMA BuildPromptStep == ASSUME TrainingInv, BuildPrompt PROVE TrainingInv'
<1>1. TrainingType /\ Steady /\ Made
  BY DEF TrainingInv
<1>2. /\ Doing("ready") /\ baked' = Prompted(generation.pairs)
      /\ moved' = (IF "generation" \in moved THEN Moved ELSE {})
      /\ sampled' = NoSamples /\ generation' = NoGeneration
      /\ UNCHANGED <<talk, turnOf, facts, trainingLeft>>
  BY DEF BuildPrompt
<1>3. Told' /\ Descending(facts)' /\ Own' /\ SeenUsed' /\ Fitting' /\ Steady'
  BY <1>2, GenerationEnds
<1>4. TrainingType'
  <2>1. baked' \subseteq Pairs
    <3>1. \A i \in 1..Len(generation.pairs) : generation.pairs[i] \in Pairs
      BY <1>1, GenerationIs
    <3> QED BY <1>2, <3>1 DEF Prompted
  <2>2. sampled' \in [samples : SUBSET Pairs, all : Seq(Pairs)]
    BY <1>2 DEF NoSamples
  <2>3. moved' \subseteq Moved
    BY <1>2
  <2> QED BY <1>1, <1>2, <2>1, <2>2, <2>3, NoGenerationIs DEF TrainingType
<1>5. Made'
  <2>1. CASE "generation" \in moved
    BY <1>2, <2>1, ApartMoved
  <2>2. CASE "generation" \notin moved
    <3>1. Undisturbed(generation.pairs)
      BY <1>1, <1>2, <2>2 DEF Steady
    <3>2. Spoken' = Spoken
      BY <1>2, TalkKept
    <3>3. PICK ps : ps = generation.pairs /\ baked' = Prompted(ps)
      BY <1>2
    <3>4. Undisturbed(ps)'
      BY <1>2, <3>1, <3>2, <3>3, UndisturbedKept
    <3> QED BY <1>2, <2>2, <3>3, <3>4 DEF Made
  <2> QED BY <2>1, <2>2
<1>6. TestedApart'
  BY <1>2 DEF TestedApart, NoSamples
<1> QED BY <1>3, <1>4, <1>5, <1>6 DEF TrainingInv

LEMMA EvaluateModelStep == ASSUME TrainingInv, EvaluateModel PROVE TrainingInv'
<1>1. TrainingType /\ Told /\ Fitting /\ Steady /\ Made /\ TestedApart
  BY DEF TrainingInv
<1>2. /\ Doing("ready") /\ generation' = NoGeneration
      /\ sampled' = IF generation.pairs = <<>> THEN sampled
                    ELSE [samples |-> RangeOf(FirstOf(HeldOut(generation.pairs), SampleCap)),
                          all |-> generation.pairs]
      /\ UNCHANGED <<talk, turnOf, facts, baked, moved, trainingLeft>>
  BY DEF EvaluateModel
<1>3. Told' /\ Descending(facts)' /\ Own' /\ SeenUsed' /\ Fitting' /\ Steady'
  BY <1>2, GenerationEnds
<1>4. PICK pairs \in Seq(Pairs) : pairs = generation.pairs
  BY <1>1, GenerationIs
<1>5. TrainingType'
  <2>1. CASE pairs = <<>>
    BY <1>1, <1>2, <1>4, <2>1, NoGenerationIs DEF TrainingType
  <2>2. CASE pairs # <<>>
    <3>1. RangeOf(FirstOf(HeldOut(pairs), SampleCap)) \subseteq Pairs
      <4>1. HeldOut(pairs) \in Seq(Pairs)
        BY <2>2, HeldOutIs
      <4>2. FirstOf(HeldOut(pairs), SampleCap) \in Seq(Pairs)
        BY <4>1, FirstOfIs, TurnsAre
      <4> QED BY <4>2 DEF RangeOf
    <3>2. sampled' \in [samples : SUBSET Pairs, all : Seq(Pairs)]
      BY <1>2, <1>4, <2>2, <3>1
    <3> QED BY <1>1, <1>2, <3>2, NoGenerationIs DEF TrainingType
  <2> QED BY <2>1, <2>2
<1>6. Made'
  <2>1. Spoken' = Spoken
    BY <1>2, TalkKept
  <2>2. \A ps : Undisturbed(ps) => Undisturbed(ps)'
    BY <1>2, <2>1, UndisturbedKept
  <2> QED BY <1>1, <1>2, <2>2 DEF Made
<1>7. TestedApart'
  <2>1. CASE pairs = <<>> \/ "version" \in moved
    BY <1>1, <1>2, <1>4, <2>1 DEF TestedApart
  <2>2. CASE pairs # <<>> /\ "version" \notin moved
    <3>1. Undisturbed(pairs)
      BY <1>1, <1>2, <1>4, <2>2 DEF Steady, Made
    <3>2. baked = {} \/ baked = Prompted(pairs)
      BY <1>1, <2>2, <3>1, UndisturbedUnique DEF Made
    <3>3. sampled'.all = pairs /\ sampled'.samples = RangeOf(FirstOf(HeldOut(pairs), SampleCap))
      BY <1>2, <1>4, <2>2
    <3>4. Distinct(pairs)
      BY <1>1, <1>4 DEF Fitting
    <3>5. \A p \in sampled'.samples \cap baked :
            Cardinality(FromSource(pairs, p.source)) < PerSource + HoldoutOf(pairs)
      BY <2>2, <3>2, <3>3, <3>4, PromptedApart
    <3> QED BY <1>2, <3>3, <3>5 DEF TestedApart
  <2> QED BY <2>1, <2>2
<1> QED BY <1>3, <1>5, <1>6, <1>7 DEF TrainingInv

LEMMA TrainingStutters == TrainingInv /\ UNCHANGED trainingVars => TrainingInv'
<1> SUFFICES ASSUME TrainingInv, UNCHANGED trainingVars PROVE TrainingInv'
  OBVIOUS
<1>1. /\ TrainingType /\ Told /\ Descending(facts) /\ Own /\ SeenUsed /\ Fitting
      /\ Steady /\ Made /\ TestedApart
  BY DEF TrainingInv
<1>2. /\ UNCHANGED <<talk, turnOf>> /\ UNCHANGED <<generation, baked, sampled, moved>>
      /\ facts' = facts /\ trainingLeft' = trainingLeft
  BY DEF trainingVars
<1>3. TrainingType' /\ Descending(facts)'
  BY <1>1, <1>2 DEF TrainingType, Descending
<1>4. Told' /\ Own' /\ SeenUsed' /\ Fitting'
  BY <1>1, <1>2, TalkKept, GenerationKept
<1>5. Steady' /\ Made' /\ TestedApart'
  BY <1>1, <1>2, TalkKept, ApartKept
<1> QED BY <1>3, <1>4, <1>5 DEF TrainingInv

LEMMA TrainingStep == TrainingInv /\ [TrainingNext]_trainingVars => TrainingInv'
<1> SUFFICES ASSUME TrainingInv, [TrainingNext]_trainingVars PROVE TrainingInv'
  OBVIOUS
<1>1. CASE \E e \in Turns, t \in Talks, long \in BOOLEAN : AskReplica(e, t, long)
  BY <1>1, AskReplicaStep
<1>2. CASE \E e \in Turns, long \in BOOLEAN : AnswerOwner(e, long)
  BY <1>2, AnswerOwnerStep
<1>3. CASE \E f \in Facts : StoreFact(f)
  BY <1>3, StoreFactStep
<1>4. CASE \E why \in {"train", "evaluate"} : BeginGeneration(why)
  BY <1>4, BeginGenerationStep
<1>5. CASE ReadFacts \/ AskAboutFact \/ AddPersonality \/ BuildPrompt \/ EvaluateModel
  BY <1>5, ReadFactsStep, AskAboutFactStep, AddPersonalityStep, BuildPromptStep, EvaluateModelStep
<1>6. CASE UNCHANGED trainingVars
  BY <1>6, TrainingStutters
<1> QED BY <1>1, <1>2, <1>3, <1>4, <1>5, <1>6 DEF TrainingNext

\* The pairs of the conversations are messages with their own answers and none of them is
\* used twice; none is left out while there is room; and, as long as nothing has moved since
\* a version was made, its evaluation does not test it on what it was trained on
\* (_pairs_from_conversations(), generate_training_pairs(), evaluate_model()).
THEOREM TrainingIsSound == TrainingSpec => []TrainingSound
<1>1. TrainingInv => TrainingSound
  BY InvOwnAnswer, InvAllUsed, InvPairsBounded DEF TrainingInv, TrainingSound
<1> QED BY <1>1, TrainingInitial, TrainingStep, PTL DEF TrainingSpec
=============================================================================
