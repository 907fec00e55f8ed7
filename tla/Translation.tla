----------------------------- MODULE Translation ------------------------------
(***************************************************************************)
(* Translations and their cache (services/multilingual.py,                 *)
(* routers/language.py): a request finds the language of its text, looks   *)
(* for the translation in Redis, asks an external service if there is one, *)
(* and the model, and stores what it answers.  Requests for one text       *)
(* overlap; Redis, the service and the model may fail.  What the model     *)
(* makes of a text is one translation or nothing.                          *)
(***************************************************************************)
EXTENDS Integers

CONSTANTS
  Texts, Tongues,     \* texts and languages
  Target,             \* the language that is asked for
  Translators,        \* requests in progress
  Untranslated,       \* an answer: the text itself
  External,           \* whether deepl or google is configured
  CacheTtl,           \* translation_cache_ttl_seconds
  Forever,            \* bound: the clock
  TranslationStarts   \* bound: requests

ASSUME TranslationAssumption ==
  /\ Target \in Tongues /\ External \in BOOLEAN /\ CacheTtl \in Nat \ {0} /\ Forever \in Nat
  /\ TranslationStarts \subseteq Nat

VARIABLES
  cached,     \* translate:* in Redis: what each key holds, until when
  request,    \* each request: where, its text and the language of it, the answer
  blanks,     \* ghost: when no translation was stored as one, by key
  today,
  jobsLeft    \* the bound that is left

translationVars == <<cached, request, blanks, today, jobsLeft>>

Keys == Texts \X Tongues
NoJob == [pc |-> "none", key |-> <<>>, answer |-> Untranslated, at |-> 0]
Nobody == [value |-> Untranslated, until |-> 0]
KeyOf(r) == request[r].key

TranslationInit ==
  /\ cached = [k \in Keys |-> Nobody] /\ request = [r \in Translators |-> NoJob]
  /\ blanks = {} /\ today = 0 /\ jobsLeft \in TranslationStarts

\* A request goes on, with the answer it has so far.
Proceeds(r, pc, answer) ==
  request' = [request EXCEPT ![r] = [pc |-> pc, key |-> KeyOf(r), answer |-> answer, at |-> today]]

\* The language is given, or detected by langdetect or the model, which may err: any.
AskTranslation(r, text, tongue) ==
  /\ request[r].pc \in {"none", "answered", "failed"} /\ jobsLeft > 0 /\ jobsLeft' = jobsLeft - 1
  /\ request' = [request EXCEPT ![r] =
       [pc |-> IF tongue = Target THEN "answered" ELSE "lookup",
        key |-> <<text, tongue>>, answer |-> Untranslated, at |-> today]]
  /\ UNCHANGED <<cached, blanks, today>>

\* What a hit does to the entry: it is not renewed.
\* BadAfterHit is a faulty variant of the definition that follows it, for the mutation
\* runs only.
BadAfterHit(entry) == [entry EXCEPT !.until = today + CacheTtl]

AfterHit(entry) == entry

Miss == IF External THEN "external" ELSE "model"
Hit(r) == cached[KeyOf(r)].until > today

LookUpCache(r) ==
  /\ request[r].pc = "lookup"
  /\ \/ /\ Hit(r) /\ Proceeds(r, "answered", cached[KeyOf(r)].value)
        /\ cached' = [cached EXCEPT ![KeyOf(r)] = AfterHit(@)]
     \/ ~Hit(r) /\ Proceeds(r, Miss, Untranslated) /\ UNCHANGED cached
  /\ UNCHANGED <<blanks, today, jobsLeft>>

\* Redis does not answer: a miss.
MissCache(r) ==
  /\ request[r].pc = "lookup" /\ Proceeds(r, Miss, Untranslated)
  /\ UNCHANGED <<cached, blanks, today, jobsLeft>>

TranslateExternally(r) ==
  /\ request[r].pc = "external"
  /\ Proceeds(r, "store", KeyOf(r)) \/ Proceeds(r, "model", Untranslated)
  /\ UNCHANGED <<cached, blanks, today, jobsLeft>>

\* A blank answer of the model stands for the text itself.
TranslateByModel(r) ==
  /\ request[r].pc = "model"
  /\ Proceeds(r, "store", KeyOf(r)) \/ Proceeds(r, "store", Untranslated)
  /\ UNCHANGED <<cached, blanks, today, jobsLeft>>

ModelRaises(r) ==
  /\ request[r].pc = "model" /\ Proceeds(r, "failed", Untranslated)
  /\ UNCHANGED <<cached, blanks, today, jobsLeft>>

\* What is noted of a request that ends without a translation.
NoteBlank(r) ==
  blanks' = IF request[r].answer = Untranslated THEN blanks \cup {<<KeyOf(r), today>>} ELSE blanks

StoreTranslation(r) ==
  /\ request[r].pc = "store" /\ Proceeds(r, "answered", request[r].answer) /\ NoteBlank(r)
  /\ cached' = [cached EXCEPT ![KeyOf(r)] = [value |-> request[r].answer, until |-> today + CacheTtl]]
  /\ UNCHANGED <<today, jobsLeft>>

\* Redis does not answer: the translation is not stored.
KeepUnstored(r) ==
  /\ request[r].pc = "store" /\ Proceeds(r, "answered", request[r].answer) /\ NoteBlank(r)
  /\ UNCHANGED <<cached, today, jobsLeft>>

DayPasses ==
  /\ today < Forever /\ today' = today + 1
  /\ UNCHANGED <<cached, request, blanks, jobsLeft>>

TranslationNext ==
  \/ \E r \in Translators, text \in Texts, tongue \in Tongues : AskTranslation(r, text, tongue)
  \/ \E r \in Translators :
       \/ LookUpCache(r) \/ MissCache(r) \/ TranslateExternally(r) \/ TranslateByModel(r)
       \/ ModelRaises(r) \/ StoreTranslation(r) \/ KeepUnstored(r)
  \/ DayPasses

TranslationSpec == TranslationInit /\ [][TranslationNext]_translationVars

-----------------------------------------------------------------------------
\* What is answered is the translation of that text from that language; the text itself
\* only where it is in the language asked for, or within CacheTtl of an answer of the
\* model that was blank, for this request or another: it is asked again after that.
TranslationSound ==
  \A r \in Translators :
    request[r].pc = "answered" =>
      \/ request[r].answer = KeyOf(r)
      \/ /\ request[r].answer = Untranslated
         /\ \/ KeyOf(r)[2] = Target
            \/ \E b \in blanks : b[1] = KeyOf(r) /\ request[r].at < b[2] + CacheTtl
=============================================================================
