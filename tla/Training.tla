------------------------------- MODULE Training -------------------------------
(***************************************************************************)
(* The training data of one owner (services/fine_tuner.py): the pairs made *)
(* of the owner's conversations, of knowledge, by asking the model about   *)
(* each entry, and of the personality, while messages and entries go on    *)
(* arriving; which of them are baked into the prompt of a version, and     *)
(* which a later evaluation of it takes for its samples.                   *)
(*                                                                         *)
(* The text of a pair is where it comes from.  Messages with one           *)
(* created_at, to the microsecond, are not modelled.                       *)
(***************************************************************************)
EXTENDS Integers, Sequences, FiniteSets

CONSTANTS
  Talks,          \* the owner's threads, numbered in the order of their ids
  Turns,          \* the exchanges, a message and its answer each, numbered as they begin
  Facts,          \* the entries of knowledge, numbered as they are stored
  Translated,     \* those with an english_translation of 60 characters or more
  MaxPairs,       \* finetune_max_pairs
  FactLimit,      \* the entries that are read at most (200)
  PerSource,      \* the pairs of each source that are baked in at most (12)
  Share,          \* one in how many pairs is held out: 1 / finetune_eval_holdout_ratio
  SampleCap,      \* the samples that are evaluated at most (20)
  TrainingStarts  \* bounds: exchanges, entries, generations; items of the personality

ASSUME TrainingAssumption ==
  /\ {MaxPairs, FactLimit, PerSource, Share, SampleCap} \subseteq Nat \ {0}
  /\ Talks \cup Turns \cup Facts \subseteq Nat \ {0} /\ Translated \subseteq Facts
  /\ TrainingStarts \subseteq [{"turn", "fact", "run", "persona"} -> Nat]

VARIABLES
  talk,           \* messages, in the order of their created_at
  turnOf,         \* each exchange: its thread, and whether it is committed
  facts,          \* knowledge_entries, newest first
  generation,     \* generate_training_pairs: why, where, the pairs, the entries left
  baked,          \* the pairs in the prompt of the version
  sampled,        \* the samples of its last evaluation
  moved,          \* ghost: since when something changed: the version's making, the
                  \* beginning of the generation
  trainingLeft    \* the bounds that are left, and the items of the personality

trainingVars == <<talk, turnOf, facts, generation, baked, sampled, moved, trainingLeft>>

Nothing == <<>>
NoGeneration == [pc |-> "none", why |-> "train", pairs |-> <<>>, todo |-> <<>>, seen |-> {}]
NoSamples == [samples |-> {}, all |-> <<>>]
Reduce(what) == trainingLeft[what] > 0 /\ trainingLeft' = [trainingLeft EXCEPT ![what] = @ - 1]
Doing(pc) == generation.pc = pc
Moved == {"version", "generation"}
RangeOf(s) == {s[i] : i \in 1..Len(s)}
FirstOf(s, n) == SubSeq(s, 1, IF Len(s) < n THEN Len(s) ELSE n)
Pair(source, input, output) == [source |-> source, input |-> input, output |-> output]

TrainingInit ==
  /\ talk = <<>> /\ turnOf = [e \in Turns |-> Nothing] /\ facts = <<>>
  /\ generation = NoGeneration /\ baked = {} /\ sampled = NoSamples /\ moved = {}
  /\ trainingLeft \in TrainingStarts

-----------------------------------------------------------------------------
(* What arrives meanwhile.  A message and its answer are committed together; *)
(* either may be too short to mean anything.                                *)

AskReplica(e, t, long) ==
  /\ turnOf[e] = Nothing /\ (\A f \in Turns : f < e => turnOf[f] # Nothing) /\ Reduce("turn")
  /\ turnOf' = [turnOf EXCEPT ![e] = <<t, "open">>]
  /\ talk' = Append(talk, [of |-> e, role |-> "user", long |-> long, thread |-> t])
  /\ UNCHANGED <<facts, generation, baked, sampled, moved>>

AnswerOwner(e, long) ==
  /\ turnOf[e] # Nothing /\ turnOf[e][2] = "open"
  /\ turnOf' = [turnOf EXCEPT ![e] = <<@[1], "committed">>]
  /\ talk' = Append(talk, [of |-> e, role |-> "assistant", long |-> long,
                         thread |-> turnOf[e][1]])
  /\ moved' = Moved
  /\ UNCHANGED <<facts, generation, baked, sampled, trainingLeft>>

StoreFact(f) ==
  /\ RangeOf(facts) = 1..f - 1 /\ Reduce("fact")
  /\ facts' = <<f>> \o facts /\ moved' = Moved
  /\ UNCHANGED <<talk, turnOf, generation, baked, sampled>>

-----------------------------------------------------------------------------
(* The pairs.                                                               *)

Committed == {e \in Turns : turnOf[e] # Nothing /\ turnOf[e][2] = "committed"}
Rows == {i \in 1..Len(talk) : talk[i].of \in Committed}

\* ORDER BY thread, created_at.
Before(i, j) ==
  talk[i].thread < talk[j].thread \/ (talk[i].thread = talk[j].thread /\ i < j)
InOrder(order) ==
  /\ order \in [1..Cardinality(Rows) -> Rows] /\ RangeOf(order) = Rows
  /\ \A m, n \in 1..Len(order) : m < n => Before(order[m], order[n])
Read(order) == [n \in 1..Len(order) |-> talk[order[n]]]

\* One row of the loop of _pairs_from_conversations(): acc holds the pairs, the thread
\* and the prompt that waits for an answer.
\* BadTakeRow and the other definitions named Bad... are faulty variants of the
\* definition that follows them, for the mutation runs only.
BadTakeRow(acc, row) ==
  IF Len(acc.pairs) >= MaxPairs \/ ~row.long THEN acc
  ELSE IF row.role = "user" THEN [acc EXCEPT !.prev = row.of]
  ELSE [acc EXCEPT !.prev = 0,
                   !.pairs = IF acc.prev = 0 THEN @
                             ELSE Append(@, Pair("conversation", acc.prev, row.of))]

TakeRow(acc, row) ==
  LET prev == IF acc.thread = row.thread THEN acc.prev ELSE 0
      here == [acc EXCEPT !.thread = row.thread, !.prev = 0] IN
  IF Len(acc.pairs) >= MaxPairs THEN acc
  ELSE IF ~row.long THEN here
  ELSE IF row.role = "user" THEN [here EXCEPT !.prev = row.of]
  ELSE IF prev = 0 THEN here
  ELSE [here EXCEPT !.pairs = Append(@, Pair("conversation", prev, row.of))]

FromConversations(rows) ==
  LET taken[n \in 0..Len(rows)] ==
        IF n = 0 THEN [pairs |-> <<>>, prev |-> 0, thread |-> 0]
        ELSE TakeRow(taken[n - 1], rows[n])
  IN taken[Len(rows)].pairs

\* generate_training_pairs() goes on to the next source while there is room.
Onward(pairs, pc) == IF Len(pairs) < MaxPairs THEN pc ELSE "ready"

BeginGeneration(why) ==
  /\ Doing("none") /\ Reduce("run") /\ (why = "evaluate" => baked # {})
  /\ \E order \in [1..Cardinality(Rows) -> Rows] :
       LET pairs == FromConversations(Read(order)) IN
         /\ InOrder(order)
         /\ generation' = [pc |-> Onward(pairs, "facts"), why |-> why, pairs |-> pairs,
                           todo |-> <<>>, seen |-> Committed]
  /\ moved' = moved \ {"generation"}
  /\ UNCHANGED <<talk, turnOf, facts, baked, sampled>>

\* The newest entries.
ReadFacts ==
  /\ Doing("facts")
  /\ LET room == MaxPairs - Len(generation.pairs) IN
     generation' = [generation EXCEPT
       !.todo = FirstOf(facts, IF room < FactLimit THEN room ELSE FactLimit), !.pc = "asking"]
  /\ UNCHANGED <<talk, turnOf, facts, baked, sampled, moved, trainingLeft>>

\* The model makes a question and an answer of an entry, or fails to.  One without a
\* translation is passed over.
AskAboutFact ==
  /\ Doing("asking") /\ generation.todo # <<>>
  /\ LET f == Head(generation.todo) IN
     \/ /\ f \in Translated /\ UNCHANGED moved
        /\ generation' = [generation EXCEPT !.todo = Tail(@),
                                            !.pairs = Append(@, Pair("knowledge", f, f))]
     \/ /\ moved' = IF f \in Translated THEN Moved ELSE moved
        /\ generation' = [generation EXCEPT !.todo = Tail(@)]
  /\ UNCHANGED <<talk, turnOf, facts, baked, sampled, trainingLeft>>

\* Phrases, and at last the traits.
AddPersonality ==
  /\ Doing("asking") /\ generation.todo = <<>>
  /\ LET room == MaxPairs - Len(generation.pairs)
         some == IF trainingLeft.persona < room THEN trainingLeft.persona ELSE room IN
     generation' = [generation EXCEPT
       !.pairs = @ \o [i \in 1..some |-> Pair("personality", i, i)], !.pc = "ready"]
  /\ UNCHANGED <<talk, turnOf, facts, baked, sampled, moved, trainingLeft>>

-----------------------------------------------------------------------------
(* What the pairs are for.                                                  *)

FromSource(pairs, source) == {i \in 1..Len(pairs) : pairs[i].source = source}

\* _build_pseudo_finetune_prompt(): the first pairs of each source.
Prompted(pairs) ==
  {pairs[i] : i \in {j \in 1..Len(pairs) :
                      Cardinality(FromSource(pairs, pairs[j].source) \cap 1..j) <= PerSource}}

BuildPrompt ==
  /\ Doing("ready") /\ generation.why = "train"
  /\ baked' = Prompted(generation.pairs)
  /\ moved' = IF "generation" \in moved THEN Moved ELSE {}
  /\ sampled' = NoSamples /\ generation' = NoGeneration
  /\ UNCHANGED <<talk, turnOf, facts, trainingLeft>>

HoldoutOf(pairs) == IF Len(pairs) < Share THEN 1 ELSE Len(pairs) \div Share
HeldOut(pairs) == SubSeq(pairs, Len(pairs) - HoldoutOf(pairs) + 1, Len(pairs))

EvaluateModel ==
  /\ Doing("ready") /\ generation.why = "evaluate"
  /\ sampled' = IF generation.pairs = <<>> THEN sampled
                ELSE [samples |-> RangeOf(FirstOf(HeldOut(generation.pairs), SampleCap)),
                      all |-> generation.pairs]
  /\ generation' = NoGeneration
  /\ UNCHANGED <<talk, turnOf, facts, baked, moved, trainingLeft>>

TrainingNext ==
  \/ \E e \in Turns, t \in Talks, long \in BOOLEAN : AskReplica(e, t, long)
  \/ \E e \in Turns, long \in BOOLEAN : AnswerOwner(e, long)
  \/ \E f \in Facts : StoreFact(f)
  \/ \E why \in {"train", "evaluate"} : BeginGeneration(why)
  \/ ReadFacts \/ AskAboutFact \/ AddPersonality \/ BuildPrompt \/ EvaluateModel

TrainingSpec == TrainingInit /\ [][TrainingNext]_trainingVars

-----------------------------------------------------------------------------
At(e, role) == CHOOSE i \in 1..Len(talk) : talk[i].of = e /\ talk[i].role = role
Conversing == {p \in RangeOf(generation.pairs) : p.source = "conversation"}

\* A prompt is paired with its own answer, unless it was asked while the answer to an
\* earlier message of the thread was still to come; no message is used twice.
OwnAnswer ==
  \A p \in Conversing :
    /\ turnOf[p.input][1] = turnOf[p.output][1]
    /\ p.input # p.output => /\ At(p.output, "user") < At(p.input, "user")
                             /\ At(p.input, "user") < At(p.output, "assistant")
    /\ \A q \in Conversing : p.input = q.input \/ p.output = q.output => p = q

\* An exchange that means something and that no other of its thread overlaps is used,
\* if there is room.
Apart(e, f) ==
  At(f, "assistant") < At(e, "user") \/ At(e, "assistant") < At(f, "user")

AllUsed ==
  ~Doing("none") /\ Len(generation.pairs) < MaxPairs =>
    \A e \in generation.seen :
      /\ talk[At(e, "user")].long /\ talk[At(e, "assistant")].long
      /\ \A f \in Committed \ {e} : turnOf[f][1] = turnOf[e][1] => Apart(e, f)
      => Pair("conversation", e, e) \in Conversing

PairsBounded ==
  /\ Len(generation.pairs) <= MaxPairs
  /\ Cardinality(RangeOf(generation.pairs)) = Len(generation.pairs)

\* evaluate_model() calls its samples held out.  They are, as long as nothing has moved
\* since the version was made, of a source with more pairs than are baked in and held
\* out together; a source with fewer is evaluated on what it was trained on.
TestedApart ==
  \A p \in sampled.samples \cap baked :
    \/ "version" \in moved
    \/ Cardinality(FromSource(sampled.all, p.source)) < PerSource + HoldoutOf(sampled.all)

TrainingSound == OwnAnswer /\ AllUsed /\ PairsBounded /\ TestedApart
=============================================================================
