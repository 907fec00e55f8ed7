------------------------------ MODULE Retrieval -------------------------------
(***************************************************************************)
(* Which entries an answer is grounded in (apps/ai: services/search.py,    *)
(* core/qdrant.py, routers/rag.py, routers/vectors.py): one question at a  *)
(* time, whose probes run one after the other while chunks of other        *)
(* uploads are stored and entries deleted.  How close a chunk is to a      *)
(* probe is an input.  So is the order among hits of equal score: Qdrant   *)
(* promises none.                                                          *)
(***************************************************************************)
EXTENDS Integers, FiniteSets

CONSTANTS
  Points,          \* the chunks there may be: one vector in the collection each
  EntryOf, TypeOf, CategoryOf,  \* the payload of each
  Anything,        \* None: an axis of a scope that is not restricted
  Uncategorised,   \* a payload without a category
  Scopings,        \* the scopes a question may be asked under
  Probes,          \* the search queries the model may make of a question
  Closenesses,     \* how close each chunk may be to each probe
  TopK, OverFetch, \* top_k, and the factor by which more is fetched to allow dedup
  MinRelevant,     \* MIN_RELEVANT_SCORE
  RetrievalStarts  \* bounds: chunks stored, entries deleted while the question runs

ASSUME RetrievalAssumption ==
  /\ {TopK, OverFetch} \subseteq Nat \ {0} /\ MinRelevant \in Nat /\ IsFiniteSet(Points)
  /\ Closenesses \subseteq [Probes -> [Points -> Nat]]
  /\ RetrievalStarts \subseteq [{"store", "drop"} -> Nat]

VARIABLES
  collection,    \* the points in Qdrant
  question,      \* the question: where, over which route, its scope, the probes left,
                 \* the results so far, the sources
  closeness,
  present,       \* ghost: the points stored at some moment of the question
  steady,        \* ghost: the points stored at every moment of it
  asked,         \* ghost: all its probes
  retrievalLeft  \* the bounds that are left

retrievalVars == <<collection, question, closeness, present, steady, asked, retrievalLeft>>

NoQuestion == [pc |-> "none", via |-> "search", scope |-> [types |-> Anything, categories |-> Anything],
               left |-> {}, results |-> {}, sources |-> {}]
Asking(pc) == question.pc = pc
Deduct(what) ==
  retrievalLeft[what] > 0 /\ retrievalLeft' = [retrievalLeft EXCEPT ![what] = @ - 1]

RetrievalInit ==
  /\ collection \in {Points, {}}
  /\ question = NoQuestion /\ closeness \in Closenesses
  /\ present = {} /\ steady = {} /\ asked = {}
  /\ retrievalLeft \in RetrievalStarts

\* upsert_embedding() and delete_by_entry_id(): one call to Qdrant each.
StorePoint(p) ==
  /\ p \notin collection /\ Deduct("store")
  /\ collection' = collection \cup {p} /\ present' = present \cup {p}
  /\ UNCHANGED <<question, closeness, steady, asked>>

OfEntry(e) == {p \in Points : EntryOf[p] = e}

DropEntry(e) ==
  /\ OfEntry(e) \cap collection # {} /\ Deduct("drop")
  /\ collection' = collection \ OfEntry(e) /\ steady' = steady \ OfEntry(e)
  /\ UNCHANGED <<question, closeness, present, asked>>

-----------------------------------------------------------------------------
(* The filter, and the ranking.                                             *)

\* Qdrant's filter: an empty list matches nothing, a missing category matches always.
Matches(p, scope) ==
  /\ scope.types # Anything => TypeOf[p] \in scope.types
  /\ scope.categories # Anything =>
       CategoryOf[p] \in scope.categories \/ CategoryOf[p] = Uncategorised

\* The k best of a set of scored items, ties broken in any way.
Leading(items, k) ==
  {T \in SUBSET items :
     /\ Cardinality(T) = IF Cardinality(items) < k THEN Cardinality(items) ELSE k
     /\ \A a \in T, b \in items \ T : a.score >= b.score}

\* One result per entry, with its highest score.
Highest(results) == {r \in results : \A s \in results : s.entry = r.entry => s.score <= r.score}

\* How many hits are fetched to allow dedup.
\* BadFetched is a faulty variant of the definition that follows it, for the mutation
\* runs only.
BadFetched == TopK

Fetched == TopK * OverFetch

\* KnowledgeSearch.search(): the results there may be.
Found(probe, scope) ==
  UNION {Leading(Highest({[entry |-> EntryOf[h.point], score |-> h.score] : h \in hits}), TopK) :
           hits \in Leading({[point |-> p, score |-> closeness[probe][p]] :
                               p \in {q \in collection : Matches(q, scope)}}, Fetched)}

-----------------------------------------------------------------------------
(* A question: the model makes probes of it, or it is its own probe.        *)

Begin(via, scope, probes) ==
  /\ Asking("none")
  /\ question' = [NoQuestion EXCEPT !.pc = "probing", !.via = via, !.scope = scope,
                                    !.left = probes]
  /\ present' = collection /\ steady' = collection /\ asked' = probes
  /\ UNCHANGED <<collection, closeness, retrievalLeft>>

ExtractQueries(via, scope, probes) ==
  via \in {"generate", "stream"} /\ probes # {} /\ Begin(via, scope, probes)

\* The search page: the owner's own entries, of one type or of any.
SearchKnowledge(probe, types) ==
  Begin("search", [types |-> types, categories |-> Anything], {probe})

RunProbe(probe) ==
  /\ Asking("probing") /\ probe \in question.left
  /\ \E found \in Found(probe, question.scope) :
       question' = [question EXCEPT !.left = @ \ {probe}, !.results = @ \cup found]
  /\ UNCHANGED <<collection, closeness, present, steady, asked, retrievalLeft>>

\* Embedding the probe or Qdrant fails: so does the question.
FailProbe ==
  /\ Asking("probing") /\ question' = [NoQuestion EXCEPT !.pc = "failed"]
  /\ UNCHANGED <<collection, closeness, present, steady, asked, retrievalLeft>>

\* The relevant ones of what is ranked become the context and its sources.
BuildContext(ranked) == {r \in ranked : r.score >= MinRelevant}

RankSources ==
  /\ Asking("probing") /\ question.left = {} /\ question.via # "search"
  /\ \E ranked \in Leading(Highest(question.results), TopK) :
       question' = [question EXCEPT
         !.sources = BuildContext(ranked), !.results = {},
         !.pc = IF question.via = "stream" THEN "shown" ELSE "generating"]
  /\ UNCHANGED <<collection, closeness, present, steady, asked, retrievalLeft>>

\* Only a stream shows its sources before there is an answer.
Generate ==
  /\ Asking("generating")
  /\ \/ question' = [question EXCEPT !.pc = "shown"]
     \/ question' = [NoQuestion EXCEPT !.pc = "failed"]
  /\ UNCHANGED <<collection, closeness, present, steady, asked, retrievalLeft>>

ShowResults ==
  /\ Asking("probing") /\ question.left = {} /\ question.via = "search"
  /\ question' = [question EXCEPT !.pc = "shown", !.sources = question.results]
  /\ UNCHANGED <<collection, closeness, present, steady, asked, retrievalLeft>>

RetrievalNext ==
  \/ \E p \in Points : StorePoint(p) \/ DropEntry(EntryOf[p])
  \/ \E via \in {"generate", "stream"}, scope \in Scopings, probes \in SUBSET Probes :
       ExtractQueries(via, scope, probes)
  \/ \E probe \in Probes, p \in Points, any \in BOOLEAN :
       SearchKnowledge(probe, IF any THEN Anything ELSE {TypeOf[p]})
  \/ \E probe \in Probes : RunProbe(probe)
  \/ FailProbe \/ RankSources \/ Generate \/ ShowResults

RetrievalSpec == RetrievalInit /\ [][RetrievalNext]_retrievalVars

-----------------------------------------------------------------------------
\* FamilyScope.permits() of the API, on an entry's own type and category.
Permits(scope, p) ==
  /\ scope.types # Anything => TypeOf[p] \in scope.types
  /\ scope.categories # Anything /\ CategoryOf[p] # Uncategorised =>
       CategoryOf[p] \in scope.categories

Allowed == {p \in Points : Permits(question.scope, p)}

\* What is shown is permitted as the API defines it, was stored while the question ran
\* (an entry deleted before is not quoted) at the score shown, once per entry, relevant
\* unless it is a search, and no more than there may be.
SourcesBacked ==
  /\ Cardinality(question.sources) <= TopK
  /\ \A s \in question.sources :
       /\ \E p \in present \cap Allowed, i \in asked :
            EntryOf[p] = s.entry /\ closeness[i][p] = s.score
       /\ \A t \in question.sources : t.entry = s.entry => t = s
       /\ question.via # "search" => s.score >= MinRelevant

\* No better entry is left out: one that was stored throughout and is close enough to
\* a probe is a source with a score no lower, unless TopK others are at least as close,
\* or the chunks of fewer entries filled all that is fetched.
NothingBetter ==
  \A i \in asked, p \in steady \cap Allowed :
    LET Rivals == {q \in (present \cap Allowed) \ {p} : closeness[i][q] >= closeness[i][p]} IN
    question.via = "search" \/ closeness[i][p] >= MinRelevant =>
      \/ \E s \in question.sources : s.entry = EntryOf[p] /\ s.score >= closeness[i][p]
      \/ Cardinality({s \in question.sources :
                        s.entry # EntryOf[p] /\ s.score >= closeness[i][p]}) >= TopK
      \/ Cardinality(Rivals) >= TopK * OverFetch

RetrievalSound == Asking("shown") => SourcesBacked /\ NothingBetter
=============================================================================
