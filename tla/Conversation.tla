---------------------------- MODULE Conversation ----------------------------
(***************************************************************************)
(* One conversation thread (services/conversation.py) and the handlers     *)
(* that write to it: chat and voice messages over REST, the owner's and    *)
(* the family's WebSockets, refusals, the owner's interventions; the       *)
(* rolling summary in Redis; the personality analysis a message may start  *)
(* (services/personality.py); and a client that pages back through the     *)
(* history.  A handler takes any thread of the owner, whoever opened it,   *)
(* so that all of them may meet in one thread.                             *)
(*                                                                         *)
(* A message is named by its place in the order of flushing.  created_at    *)
(* is taken then and kept in milliseconds, so that messages flushed one     *)
(* after the other may share it, and a query that orders by it may return   *)
(* those in any order.  Others see a message when its transaction commits,  *)
(* which may be after younger ones.                                         *)
(* Texts, languages, emotions and prompts are left out; knowledge is       *)
(* another component.                                                      *)
(***************************************************************************)
EXTENDS Integers, FiniteSets

CONSTANTS
  Handler,       \* requests and socket sessions open at the same time
  Window,        \* CONTEXT_WINDOW
  Threshold,     \* SUMMARIZE_THRESHOLD
  Batch,         \* SUMMARIZE_BATCH
  MinMessages,   \* MIN_MESSAGES_FOR_ANALYSIS
  AnalysisBatch, \* ANALYSIS_BATCH_SIZE
  MinSample,     \* the least number of messages an analysis takes
  Limit,         \* page size of the history
  MaxMessages,   \* bound: messages ever flushed
  MaxForced,     \* bound: refreshes with the force flag
  None           \* no handler, no page

ASSUME ConversationAssumption ==
  /\ Window \in Nat /\ Batch \in Nat /\ Threshold \in Nat
  /\ Threshold >= Batch + Window
  /\ MinMessages \in Nat /\ AnalysisBatch \in Nat \ {0} /\ MinSample \in Nat
  /\ Limit \in Nat \ {0} /\ MaxMessages \in Nat /\ MaxForced \in Nat

VARIABLES
  clock,     \* messages flushed so far
  stamp,     \* per message: its created_at
  stored,    \* the committed messages
  asked,     \* those of them whose role is user
  summary,   \* the messages the summary in Redis covers; empty when there is none
  analyzed,  \* messages_analyzed of the owner's profile
  forced,    \* refreshes begun with the force flag
  turn,      \* per handler: the message in progress, or None
  pager      \* the client's walk through the history, or None

vars == <<clock, stamp, stored, asked, summary, analyzed, forced, turn, pager>>

-----------------------------------------------------------------------------
Message == 1..MaxMessages
Kind  == {"request", "socket", "family"}
TurnPc == {"asked", "recalled", "prompted", "generating", "answered", "counting",
           "looking", "reading", "summarizing", "checking", "analyzing"}

(* asks and own are the uncommitted question and all uncommitted messages; *)
(* recall and window the two parts of the context; batch the messages to   *)
(* summarise; seen and size messages_analyzed as read and the sample        *)
TurnState == [kind : Kind, pc : TurnPc, asks : SUBSET Message, own : SUBSET Message,
              recall : SUBSET Message, window : SUBSET Message, batch : SUBSET Message,
              seen : Nat, size : Nat]

PagerState == [start : SUBSET Message, seen : SUBSET Message, cursor : Message, more : BOOLEAN]

At(h, pc) == turn[h] # None /\ turn[h].pc = pc
Goto(h, pc) == turn' = [turn EXCEPT ![h] = [@ EXCEPT !.pc = pc]]

Bounded(n, all) == IF Cardinality(all) < n THEN Cardinality(all) ELSE n

(* part holds the rows of ORDER BY created_at DESC LIMIT n *)
IsNewest(part, all, n) ==
  /\ part \subseteq all
  /\ Cardinality(part) = Bounded(n, all)
  /\ \A p \in part, a \in all \ part : stamp[a] <= stamp[p]

(* BadIsOldest and the other definitions named Bad... are faulty variants of *)
(* the one that follows them, for the mutation runs only.                  *)
BadIsOldest(part, all, n) == IsNewest(part, all, n)

(* part holds the rows of ORDER BY created_at ASC LIMIT n *)
IsOldest(part, all, n) ==
  /\ part \subseteq all
  /\ Cardinality(part) = Bounded(n, all)
  /\ \A p \in part, a \in all \ part : stamp[p] <= stamp[a]

-----------------------------------------------------------------------------
(* save_message: the next message gets its created_at, in the millisecond   *)
(* of the one before or in a later one.                                     *)

Now == IF clock = 0 THEN {1} ELSE {stamp[clock], stamp[clock] + 1}

Flush ==
  /\ clock < MaxMessages
  /\ clock' = clock + 1
  /\ \E ms \in Now : stamp' = [stamp EXCEPT ![clock + 1] = ms]

(* A message: asked, answered and committed in one transaction, except that *)
(* a family socket commits the question at once.                            *)

Ask(h, kind) ==
  /\ turn[h] = None /\ Flush
  /\ LET q == {clock + 1}
         own == IF kind = "family" THEN {} ELSE q
     IN  /\ turn' = [turn EXCEPT ![h] =
               [kind |-> kind, pc |-> "asked", asks |-> own, own |-> own, recall |-> {},
                window |-> {}, batch |-> {}, seen |-> 0, size |-> 0]]
         /\ IF kind = "family"
            THEN stored' = stored \cup q /\ asked' = asked \cup q
            ELSE UNCHANGED <<stored, asked>>
  /\ UNCHANGED <<summary, analyzed, forced, pager>>

(* load_context reads the summary, then the window *)
Recall(h) ==
  /\ At(h, "asked")
  /\ turn' = [turn EXCEPT ![h] = [@ EXCEPT !.pc = "recalled", !.recall = summary]]
  /\ UNCHANGED <<clock, stamp, stored, asked, summary, analyzed, forced, pager>>

LoadWindow(h) ==
  /\ At(h, "recalled")
  /\ \E window \in SUBSET (stored \cup turn[h].own) :
       /\ IsNewest(window, stored \cup turn[h].own, Window)
       /\ turn' = [turn EXCEPT ![h] = [@ EXCEPT !.pc = "prompted", !.window = window]]
  /\ UNCHANGED <<clock, stamp, stored, asked, summary, analyzed, forced, pager>>

(* The profile stays in the session: what the analysis adds to later is the *)
(* number read here.  The sockets do not read it.                           *)
ReadProfile(h) ==
  /\ At(h, "prompted")
  /\ turn' = [turn EXCEPT ![h] =
       [@ EXCEPT !.pc = "generating", !.recall = {}, !.window = {},
                 !.seen = IF turn[h].kind = "request" THEN analyzed ELSE 0]]
  /\ UNCHANGED <<clock, stamp, stored, asked, summary, analyzed, forced, pager>>

Answer(h) ==
  /\ At(h, "generating") /\ Flush
  /\ turn' = [turn EXCEPT ![h] =
       [@ EXCEPT !.pc = "answered", !.own = turn[h].own \cup {clock + 1}]]
  /\ UNCHANGED <<stored, asked, summary, analyzed, forced, pager>>

(* the AI service fails: a request is rolled back, a socket answers anyway *)
GenerateFails(h) ==
  /\ At(h, "generating") /\ turn[h].kind = "request"
  /\ turn' = [turn EXCEPT ![h] = None]
  /\ UNCHANGED <<clock, stamp, stored, asked, summary, analyzed, forced, pager>>

Commit(h) ==
  /\ At(h, "answered")
  /\ stored' = stored \cup turn[h].own
  /\ asked' = asked \cup turn[h].asks
  /\ turn' = [turn EXCEPT ![h] = [@ EXCEPT !.pc = "counting", !.own = {}, !.asks = {}]]
  /\ UNCHANGED <<clock, stamp, summary, analyzed, forced, pager>>

(* a topic the rule blocks: the refusal is stored with the question, with  *)
(* no call of another service in between                                   *)
Refuse ==
  /\ clock + 1 < MaxMessages
  /\ clock' = clock + 2
  /\ \E ms \in Now : \E later \in {ms, ms + 1} :
       stamp' = [stamp EXCEPT ![clock + 1] = ms, ![clock + 2] = later]
  /\ stored' = stored \cup {clock + 1, clock + 2}
  /\ asked' = asked \cup {clock + 1}
  /\ UNCHANGED <<summary, analyzed, forced, turn, pager>>

(* owner_intervene *)
Intervene ==
  /\ Flush
  /\ stored' = stored \cup {clock + 1}
  /\ UNCHANGED <<asked, summary, analyzed, forced, turn, pager>>

-----------------------------------------------------------------------------
(* maybe_summarize, at the end of every message *)

AfterSummary(h) ==
  turn' = [turn EXCEPT ![h] =
             IF turn[h].kind = "request" THEN [turn[h] EXCEPT !.pc = "checking", !.batch = {}]
                                         ELSE None]

CountMessages(h) ==
  /\ At(h, "counting")
  /\ IF Cardinality(stored) <= Threshold THEN AfterSummary(h) ELSE Goto(h, "looking")
  /\ UNCHANGED <<clock, stamp, stored, asked, summary, analyzed, forced, pager>>

LookForSummary(h) ==
  /\ At(h, "looking")
  /\ IF summary # {} THEN AfterSummary(h) ELSE Goto(h, "reading")
  /\ UNCHANGED <<clock, stamp, stored, asked, summary, analyzed, forced, pager>>

ReadOldest(h) ==
  /\ At(h, "reading")
  /\ \E batch \in SUBSET stored :
       /\ IsOldest(batch, stored, Batch)
       /\ turn' = [turn EXCEPT ![h] = [@ EXCEPT !.pc = "summarizing", !.batch = batch]]
  /\ UNCHANGED <<clock, stamp, stored, asked, summary, analyzed, forced, pager>>

StoreSummary(h) ==
  /\ At(h, "summarizing")
  /\ summary' = turn[h].batch
  /\ AfterSummary(h)
  /\ UNCHANGED <<clock, stamp, stored, asked, analyzed, forced, pager>>

SummaryFails(h) ==
  /\ At(h, "summarizing")
  /\ AfterSummary(h)
  /\ UNCHANGED <<clock, stamp, stored, asked, summary, analyzed, forced, pager>>

(* SUMMARY_TTL *)
ExpireSummary ==
  /\ summary # {} /\ summary' = {}
  /\ UNCHANGED <<clock, stamp, stored, asked, analyzed, forced, turn, pager>>

-----------------------------------------------------------------------------
(* PersonalityTracker, at the end of an owner's request or on its own *)

BadShouldAnalyze(seen) ==
  /\ Cardinality(asked) >= MinMessages
  /\ Cardinality(asked) > seen

ShouldAnalyze(seen) ==
  /\ Cardinality(asked) >= MinMessages
  /\ Cardinality(asked) - seen >= AnalysisBatch

SampleSize == Bounded(AnalysisBatch, asked)

EndTurn(h) ==
  /\ At(h, "checking")
  /\ turn' = [turn EXCEPT ![h] = None]
  /\ UNCHANGED <<clock, stamp, stored, asked, summary, analyzed, forced, pager>>

CheckAnalysis(h) ==
  /\ At(h, "checking")
  /\ ShouldAnalyze(turn[h].seen) /\ SampleSize >= MinSample
  /\ turn' = [turn EXCEPT ![h] = [@ EXCEPT !.pc = "analyzing", !.size = SampleSize]]
  /\ UNCHANGED <<clock, stamp, stored, asked, summary, analyzed, forced, pager>>

(* the page in the browser always sets the force flag *)
Refresh(h, force) ==
  /\ turn[h] = None
  /\ IF force THEN forced < MaxForced /\ forced' = forced + 1
              ELSE ShouldAnalyze(analyzed) /\ UNCHANGED forced
  /\ SampleSize >= MinSample
  /\ turn' = [turn EXCEPT ![h] =
        [kind |-> "request", pc |-> "analyzing", asks |-> {}, own |-> {}, recall |-> {},
         window |-> {}, batch |-> {}, seen |-> analyzed, size |-> SampleSize]]
  /\ UNCHANGED <<clock, stamp, stored, asked, summary, analyzed, pager>>

StoreAnalysis(h) ==
  /\ At(h, "analyzing")
  /\ analyzed' = turn[h].seen + turn[h].size
  /\ turn' = [turn EXCEPT ![h] = None]
  /\ UNCHANGED <<clock, stamp, stored, asked, summary, forced, pager>>

AnalysisFails(h) ==
  /\ At(h, "analyzing")
  /\ turn' = [turn EXCEPT ![h] = None]
  /\ UNCHANGED <<clock, stamp, stored, asked, summary, analyzed, forced, pager>>

-----------------------------------------------------------------------------
(* get_messages: the newest Limit messages, then those stamped before the   *)
(* oldest of the page the client has.                                       *)

BadBefore(cursor) == {m \in stored : stamp[m] < stamp[cursor] - 1}

Before(cursor) == {m \in stored : stamp[m] < stamp[cursor]}

Page(all, start, seen) ==
  \E page \in SUBSET all : \E oldest \in page :
    /\ IsNewest(page, all, Limit)
    /\ \A m \in page : stamp[oldest] <= stamp[m]
    /\ pager' = [start |-> start, seen |-> seen \cup page, cursor |-> oldest,
                 more |-> Cardinality(all) > Limit]

FirstPage ==
  /\ pager = None /\ stored # {}
  /\ Page(stored, stored, {})
  /\ UNCHANGED <<clock, stamp, stored, asked, summary, analyzed, forced, turn>>

NextPage ==
  /\ pager # None /\ pager.more
  /\ Page(Before(pager.cursor), pager.start, pager.seen)
  /\ UNCHANGED <<clock, stamp, stored, asked, summary, analyzed, forced, turn>>

CloseHistory ==
  /\ pager # None /\ ~pager.more
  /\ pager' = None
  /\ UNCHANGED <<clock, stamp, stored, asked, summary, analyzed, forced, turn>>

-----------------------------------------------------------------------------
Init ==
  /\ clock = 0 /\ stamp = [m \in Message |-> 0]
  /\ stored = {} /\ asked = {}
  /\ summary = {} /\ analyzed = 0 /\ forced = 0
  /\ turn = [h \in Handler |-> None]
  /\ pager = None

HandlerStep(h) ==
  \/ \E kind \in Kind : Ask(h, kind)
  \/ Recall(h) \/ LoadWindow(h) \/ ReadProfile(h)
  \/ Answer(h) \/ GenerateFails(h) \/ Commit(h)
  \/ CountMessages(h) \/ LookForSummary(h) \/ ReadOldest(h)
  \/ StoreSummary(h) \/ SummaryFails(h)
  \/ EndTurn(h) \/ CheckAnalysis(h) \/ \E force \in BOOLEAN : Refresh(h, force)
  \/ StoreAnalysis(h) \/ AnalysisFails(h)

Next ==
  \/ \E h \in Handler : HandlerStep(h)
  \/ Refuse \/ Intervene \/ ExpireSummary
  \/ FirstPage \/ NextPage \/ CloseHistory

Spec == Init /\ [][Next]_vars

-----------------------------------------------------------------------------
(* Properties. *)

(* The variables hold values of their types; a message is flushed before it *)
(* is used.                                                                 *)
TypeOK ==
  /\ clock \in 0..MaxMessages
  /\ stamp \in [Message -> Nat]
  /\ stored \subseteq 1..clock
  /\ asked \subseteq stored
  /\ summary \subseteq stored
  /\ analyzed \in Nat /\ forced \in 0..MaxForced
  /\ turn \in [Handler -> TurnState \cup {None}]
  /\ pager \in PagerState \cup {None}

(* The flushed messages of m's millisecond.                                 *)
Twins(m) == {n \in 1..clock : stamp[n] = stamp[m]}

(* load_context: "summary (if any) + last N messages".  No prompt holds a   *)
(* message both in the summary and word for word, however many turns,      *)
(* summarizers, expiries and late commits lie between the two reads, unless *)
(* three messages share its millisecond: then the two queries may order     *)
(* them differently.                                                        *)
NoDoubleContext ==
  \A h \in Handler : At(h, "prompted") =>
    \A m \in turn[h].recall \cap turn[h].window : Cardinality(Twins(m)) >= 3

(* What every prompt and every row keep.                                    *)
PromptsSound == TypeOK /\ NoDoubleContext

(* The client that walks back to the first page has seen every message that *)
(* was in the history when it began, although turns that began earlier      *)
(* commit older messages between its requests, except that the end of a     *)
(* page may separate messages of one millisecond: one it never sees shares  *)
(* it with one it saw.                                                      *)
PagesCoverHistory ==
  pager # None /\ ~pager.more =>
    \A m \in pager.start \ pager.seen : \E s \in pager.seen : stamp[s] = stamp[m]

(* messages_analyzed runs ahead of the owner's messages by at most a batch  *)
(* for every forced refresh, which counts the newest messages again, and by *)
(* none for the analyses a message starts, although they may add to a stale *)
(* number: so much later are the next automatic analyses.                   *)
AnalyzedBounded == analyzed <= Cardinality(asked) + AnalysisBatch * forced
=============================================================================
