------------------------- MODULE ConversationProofs -------------------------
(***************************************************************************)
(* What Conversation promises for any number of handlers, any window,      *)
(* batch, threshold and page size, and any number of messages; and what    *)
(* VoiceCall promises, at the end.                                         *)
(***************************************************************************)
EXTENDS Conversation, VoiceCall, FiniteSetTheorems, SequenceTheorems, TLAPS

(* MaxMessages bounds the messages, so that every set of them is finite. *)
LEMMA MessagesFinite ==
  ASSUME NEW S \in SUBSET Message
  PROVE  IsFiniteSet(S) /\ Cardinality(S) \in Nat
<1>1. MaxMessages \in Nat BY ConversationAssumption
<1>2. IsFiniteSet(1..MaxMessages) BY <1>1, FS_Interval
<1>3. IsFiniteSet(S) BY <1>2, FS_Subset DEF Message
<1> QED BY <1>3, FS_CardinalityType

(* A larger set of messages has at least as many elements. *)
LEMMA MessagesMonotone ==
  ASSUME NEW S \in SUBSET Message, NEW T \in SUBSET S
  PROVE  Cardinality(T) <= Cardinality(S)
<1>1. IsFiniteSet(S) BY MessagesFinite
<1> QED BY <1>1, FS_Subset

-----------------------------------------------------------------------------
(* Types. *)

LEMMA TypeInit == Init => TypeOK
<1> SUFFICES ASSUME Init PROVE TypeOK OBVIOUS
<1>1. MaxMessages \in Nat BY ConversationAssumption
<1>2. clock \in 0..MaxMessages BY <1>1 DEF Init
<1>3. stamp \in [Message -> Nat] /\ forced \in 0..MaxForced
  BY ConversationAssumption DEF Init
<1>4. turn \in [Handler -> TurnState \cup {None}] BY DEF Init
<1>5. pager \in PagerState \cup {None} BY DEF Init
<1> QED BY <1>2, <1>3, <1>4, <1>5 DEF Init, TypeOK

(* Replacing one handler's turn by a turn keeps the type of turn. *)
LEMMA TurnType ==
  ASSUME TypeOK, NEW h \in Handler, NEW t \in TurnState \cup {None}
  PROVE  [turn EXCEPT ![h] = t] \in [Handler -> TurnState \cup {None}]
BY DEF TypeOK

LEMMA TurnFields ==
  ASSUME TypeOK, NEW h \in Handler, turn[h] # None
  PROVE  turn[h] \in TurnState
BY DEF TypeOK

LEMMA AfterSummaryType ==
  ASSUME TypeOK, NEW h \in Handler, turn[h] # None, AfterSummary(h)
  PROVE  turn' \in [Handler -> TurnState \cup {None}]
<1>1. turn[h] \in TurnState BY TurnFields
<1>2. [turn[h] EXCEPT !.pc = "checking", !.batch = {}] \in TurnState
  BY <1>1 DEF TurnState, TurnPc
<1> QED BY <1>2, TurnType DEF AfterSummary

LEMMA GotoType ==
  ASSUME TypeOK, NEW h \in Handler, turn[h] # None, NEW pc \in TurnPc, Goto(h, pc)
  PROVE  turn' \in [Handler -> TurnState \cup {None}]
<1>1. turn[h] \in TurnState BY TurnFields
<1>2. [turn[h] EXCEPT !.pc = pc] \in TurnState BY <1>1 DEF TurnState
<1> QED BY <1>2, TurnType DEF Goto

LEMMA PageType ==
  ASSUME NEW all \in SUBSET Message, NEW start \in SUBSET Message, NEW seen \in SUBSET Message,
         Page(all, start, seen)
  PROVE  pager' \in PagerState
<1>1. PICK page \in SUBSET all : \E oldest \in page :
        pager' = [start |-> start, seen |-> seen \cup page, cursor |-> oldest,
                  more |-> Cardinality(all) > Limit]
  BY DEF Page
<1>2. PICK oldest \in page :
        pager' = [start |-> start, seen |-> seen \cup page, cursor |-> oldest,
                  more |-> Cardinality(all) > Limit]
  BY <1>1
<1>3. seen \cup page \in SUBSET Message OBVIOUS
<1>4. oldest \in Message OBVIOUS
<1>5. (Cardinality(all) > Limit) \in BOOLEAN OBVIOUS
<1> QED BY <1>2, <1>3, <1>4, <1>5, Zenon DEF PagerState

(* The next millisecond of a message is a number. *)
LEMMA NowType ==
  ASSUME TypeOK, clock < MaxMessages
  PROVE  Now \subseteq Nat /\ clock \in Nat /\ clock + 1 \in Message
<1>1. clock \in 0..MaxMessages /\ MaxMessages \in Nat BY ConversationAssumption DEF TypeOK
<1>2. clock + 1 \in Message BY <1>1 DEF Message
<1>3. CASE clock = 0 BY <1>1, <1>2, <1>3 DEF Now
<1>4. CASE clock # 0
  <2>1. clock \in Message BY <1>1, <1>4 DEF Message
  <2>2. stamp[clock] \in Nat BY <2>1 DEF TypeOK
  <2> QED BY <1>1, <1>2, <1>4, <2>2 DEF Now
<1> QED BY <1>3, <1>4

(* The stamps of the first n messages do not change. *)
Kept(a, a2, n) == \A m \in 1..n : a2[m] = a[m]

LEMMA FlushType ==
  ASSUME TypeOK, Flush
  PROVE  /\ clock \in Nat /\ clock + 1 \in 0..MaxMessages /\ clock' = clock + 1
         /\ stamp' \in [Message -> Nat] /\ Kept(stamp, stamp', clock)
<1>1. clock \in Nat /\ clock + 1 \in 0..MaxMessages /\ clock' = clock + 1
  BY ConversationAssumption DEF TypeOK, Flush
<1>2. PICK ms \in Now : stamp' = [stamp EXCEPT ![clock + 1] = ms] BY DEF Flush
<1>3. ms \in Nat /\ clock + 1 \in Message BY NowType DEF Flush
<1>4. stamp' \in [Message -> Nat] BY <1>2, <1>3 DEF TypeOK
<1>5. Kept(stamp, stamp', clock)
  <2> SUFFICES ASSUME NEW m \in 1..clock PROVE stamp'[m] = stamp[m] BY DEF Kept
  <2>1. m \in Message /\ m # clock + 1 BY <1>1, ConversationAssumption DEF Message
  <2> QED BY <1>2, <2>1 DEF TypeOK
<1> QED BY <1>1, <1>4, <1>5

LEMMA AskType ==
  ASSUME TypeOK, NEW h \in Handler, NEW kind \in Kind, Ask(h, kind)
  PROVE  TypeOK'
<1> DEFINE q == {clock + 1}
           own == IF kind = "family" THEN {} ELSE q
           t == [kind |-> kind, pc |-> "asked", asks |-> own, own |-> own, recall |-> {},
                 window |-> {}, batch |-> {}, seen |-> 0, size |-> 0]
<1>1. /\ clock \in Nat /\ clock + 1 \in 0..MaxMessages /\ clock' = clock + 1
      /\ stamp' \in [Message -> Nat]
  BY FlushType DEF Ask
<1>2. q \in SUBSET Message /\ own \in SUBSET Message BY <1>1, ConversationAssumption DEF Message
<1>3. turn' = [turn EXCEPT ![h] = t] BY DEF Ask
<1>4. t \in TurnState
  <2> HIDE DEF own
  <2> QED BY <1>2 DEF TurnState, TurnPc
<1> HIDE DEF t
<1>5. turn' \in [Handler -> TurnState \cup {None}] BY <1>3, <1>4, TurnType
<1>6. stored' \in SUBSET (stored \cup q) /\ stored \subseteq stored' /\ asked' \subseteq stored'
  BY DEF Ask, TypeOK
<1>7. stored' \subseteq 1..clock' BY <1>1, <1>6 DEF TypeOK
<1>8. summary' \subseteq stored' BY <1>6 DEF TypeOK, Ask
<1> QED BY <1>1, <1>5, <1>6, <1>7, <1>8 DEF TypeOK, Ask

LEMMA StoredMessages ==
  ASSUME TypeOK
  PROVE  stored \in SUBSET Message /\ asked \in SUBSET Message /\ summary \in SUBSET Message
BY ConversationAssumption DEF TypeOK, Message

(* A step that leaves the messages alone and gives the handlers and the     *)
(* counter well-typed values.                                               *)
LEMMA QuietType ==
  ASSUME TypeOK, UNCHANGED <<clock, stamp, stored, asked, pager>>,
         turn' \in [Handler -> TurnState \cup {None}],
         summary' \subseteq stored, analyzed' \in Nat, forced' \in 0..MaxForced
  PROVE  TypeOK'
BY DEF TypeOK

LEMMA RecallType ==
  ASSUME TypeOK, NEW h \in Handler, Recall(h)
  PROVE  TypeOK'
<1>1. turn[h] \in TurnState BY TurnFields DEF Recall, At
<1>2. [turn[h] EXCEPT !.pc = "recalled", !.recall = summary] \in TurnState
  BY <1>1, StoredMessages DEF TurnState, TurnPc
<1>3. turn' \in [Handler -> TurnState \cup {None}] BY <1>2, TurnType DEF Recall
<1> QED BY <1>3, QuietType DEF Recall, TypeOK

LEMMA LoadWindowType ==
  ASSUME TypeOK, NEW h \in Handler, LoadWindow(h)
  PROVE  TypeOK'
<1>1. turn[h] \in TurnState BY TurnFields DEF LoadWindow, At
<1>2. PICK window \in SUBSET (stored \cup turn[h].own) :
        turn' = [turn EXCEPT ![h] = [@ EXCEPT !.pc = "prompted", !.window = window]]
  BY DEF LoadWindow
<1>3. window \in SUBSET Message BY <1>1, StoredMessages DEF TurnState
<1>4. [turn[h] EXCEPT !.pc = "prompted", !.window = window] \in TurnState
  BY <1>1, <1>3 DEF TurnState, TurnPc
<1>5. turn' \in [Handler -> TurnState \cup {None}] BY <1>2, <1>4, TurnType
<1> QED BY <1>5, QuietType DEF LoadWindow, TypeOK

LEMMA ReadProfileType ==
  ASSUME TypeOK, NEW h \in Handler, ReadProfile(h)
  PROVE  TypeOK'
<1> DEFINE n == IF turn[h].kind = "request" THEN analyzed ELSE 0
<1>1. turn[h] \in TurnState BY TurnFields DEF ReadProfile, At
<1>2. n \in Nat BY DEF TypeOK
<1>3. turn' = [turn EXCEPT ![h] =
        [@ EXCEPT !.pc = "generating", !.recall = {}, !.window = {}, !.seen = n]]
  BY DEF ReadProfile
<1> HIDE DEF n
<1>4. [turn[h] EXCEPT !.pc = "generating", !.recall = {}, !.window = {}, !.seen = n] \in TurnState
  BY <1>1, <1>2 DEF TurnState, TurnPc
<1>5. turn' \in [Handler -> TurnState \cup {None}] BY <1>3, <1>4, TurnType
<1> QED BY <1>5, QuietType DEF ReadProfile, TypeOK

LEMMA AnswerType ==
  ASSUME TypeOK, NEW h \in Handler, Answer(h)
  PROVE  TypeOK'
<1>1. turn[h] \in TurnState BY TurnFields DEF Answer, At
<1>2. /\ clock \in Nat /\ clock' = clock + 1 /\ clock' \in 0..MaxMessages
      /\ stamp' \in [Message -> Nat]
  BY FlushType DEF Answer
<1>3. turn[h].own \cup {clock + 1} \in SUBSET Message
  BY <1>1, <1>2, ConversationAssumption DEF TurnState, Message
<1>4. [turn[h] EXCEPT !.pc = "answered", !.own = turn[h].own \cup {clock + 1}] \in TurnState
  BY <1>1, <1>3 DEF TurnState, TurnPc
<1>5. turn' \in [Handler -> TurnState \cup {None}] BY <1>4, TurnType DEF Answer
<1>6. stored \subseteq 1..clock' BY <1>2 DEF TypeOK
<1> QED BY <1>2, <1>5, <1>6 DEF Answer, TypeOK

-----------------------------------------------------------------------------
(* The inductive invariant.  A message is safe to summarise when more than  *)
(* Window other committed messages are no older: those never go away, so it *)
(* is in no later window, unless two of them at least have its stamp.  A    *)
(* handler that is about to read the oldest messages has seen more than     *)
(* Threshold of them.  A handler that is about to store an analysis adds no *)
(* more than the messages it did not count yet, and one batch for every     *)
(* forced refresh.                                                          *)

NoOlder(a, s, st) == {m \in st \ {s} : a[s] <= a[m]}

Safe(a, S, st) == \A s \in S : Cardinality(NoOlder(a, s, st)) > Window

Sharing(a, clk, m) == {n \in 1..clk : a[n] = a[m]}

TurnInv(t, clk, a, st, ask, f) ==
  t # None =>
    /\ t.asks \subseteq t.own /\ t.own \subseteq 1..clk
    /\ t.batch \subseteq st /\ t.recall \subseteq st
    /\ Safe(a, t.recall, st) /\ Safe(a, t.batch, st)
    /\ t.pc \in {"looking", "reading"} => Cardinality(st) > Threshold
    /\ t.pc = "prompted" =>
         \A m \in t.recall \cap t.window : Cardinality(Sharing(a, clk, m)) >= 3
    /\ t.pc = "analyzing" => t.seen + t.size <= Cardinality(ask) + AnalysisBatch * f

Met(m) == \E s \in pager.seen : stamp[s] = stamp[m]

PagerInv ==
  pager # None =>
    /\ pager.start \subseteq stored /\ pager.seen \subseteq stored /\ pager.cursor \in stored
    /\ \A m \in pager.start : Met(m) \/ stamp[m] < stamp[pager.cursor]
    /\ ~pager.more => \A m \in pager.start : Met(m)

IInv ==
  /\ TypeOK
  /\ Safe(stamp, summary, stored)
  /\ \A h \in Handler : TurnInv(turn[h], clock, stamp, stored, asked, forced)
  /\ AnalyzedBounded
  /\ PagerInv

LEMMA SafeGrows ==
  ASSUME NEW n \in 0..MaxMessages, NEW a, NEW a2, Kept(a, a2, n),
         NEW st \in SUBSET (1..n), NEW S \in SUBSET st,
         NEW st2 \in SUBSET Message, st \subseteq st2, Safe(a, S, st)
  PROVE  Safe(a2, S, st2)
<1> SUFFICES ASSUME NEW s \in S PROVE Cardinality(NoOlder(a2, s, st2)) > Window
  BY DEF Safe
<1>1. NoOlder(a2, s, st2) \in SUBSET Message BY DEF NoOlder
<1>2. NoOlder(a, s, st) \in SUBSET NoOlder(a2, s, st2) BY DEF NoOlder, Kept
<1>3. Cardinality(NoOlder(a, s, st)) <= Cardinality(NoOlder(a2, s, st2))
  BY <1>1, <1>2, MessagesMonotone
<1>4. Cardinality(NoOlder(a, s, st)) > Window BY DEF Safe
<1>5. Cardinality(NoOlder(a, s, st)) \in Nat /\ Cardinality(NoOlder(a2, s, st2)) \in Nat
  <2>1. NoOlder(a, s, st) \in SUBSET Message BY <1>1, <1>2
  <2> QED BY <1>1, <2>1, MessagesFinite
<1> QED BY <1>3, <1>4, <1>5, ConversationAssumption

(* The messages of a millisecond stay in it, and others may join them. *)
LEMMA SharingGrows ==
  ASSUME NEW n \in 0..MaxMessages, NEW n2 \in 0..MaxMessages, n <= n2,
         NEW a, NEW a2, Kept(a, a2, n), NEW m \in 1..n,
         Cardinality(Sharing(a, n, m)) >= 3
  PROVE  Cardinality(Sharing(a2, n2, m)) >= 3
<1>1. Sharing(a2, n2, m) \in SUBSET Message
  BY ConversationAssumption DEF Sharing, Message
<1>2. Sharing(a, n, m) \in SUBSET Sharing(a2, n2, m)
  BY ConversationAssumption DEF Sharing, Kept
<1>3. Sharing(a, n, m) \in SUBSET Message BY <1>1, <1>2
<1>4. Cardinality(Sharing(a, n, m)) <= Cardinality(Sharing(a2, n2, m))
  BY <1>1, <1>2, MessagesMonotone
<1>5. Cardinality(Sharing(a, n, m)) \in Nat /\ Cardinality(Sharing(a2, n2, m)) \in Nat
  BY <1>1, <1>3, MessagesFinite
<1> QED BY <1>4, <1>5

(* One batch for every forced refresh. *)
LEMMA BatchTimes ==
  ASSUME NEW f \in Nat, NEW f2 \in Nat, f <= f2
  PROVE  /\ AnalysisBatch * f \in Nat /\ AnalysisBatch * f2 \in Nat
         /\ AnalysisBatch * f <= AnalysisBatch * f2
         /\ AnalysisBatch * (f + 1) = AnalysisBatch * f + AnalysisBatch
<1>1. AnalysisBatch \in Nat BY ConversationAssumption
<1>2. PICK d \in Nat : f2 = f + d
  <2>1. f2 - f \in Nat /\ f2 = f + (f2 - f) OBVIOUS
  <2> QED BY <2>1
<1>3. \A b, x, y \in Nat : b * (x + y) = b * x + b * y /\ b * x \in Nat /\ b * y \in Nat
  BY SMT
<1>4. AnalysisBatch * f2 = AnalysisBatch * f + AnalysisBatch * d BY <1>1, <1>2, <1>3
<1>5. AnalysisBatch * f \in Nat /\ AnalysisBatch * d \in Nat BY <1>1, <1>3
<1>6. AnalysisBatch * (f + 1) = AnalysisBatch * f + AnalysisBatch * 1 BY <1>1, <1>3
<1> QED BY <1>1, <1>4, <1>5, <1>6

(* What holds of an idle or busy handler goes on holding while others flush *)
(* and commit messages and force refreshes.                                 *)
LEMMA TurnInvGrows ==
  ASSUME NEW t \in TurnState \cup {None}, NEW clk \in 0..MaxMessages,
         NEW clk2 \in 0..MaxMessages, clk <= clk2, NEW a, NEW a2, Kept(a, a2, clk),
         NEW st \in SUBSET (1..clk), NEW st2 \in SUBSET (1..clk2), st \subseteq st2,
         NEW ask \in SUBSET st, NEW ask2 \in SUBSET st2, ask \subseteq ask2,
         NEW f \in Nat, NEW f2 \in Nat, f <= f2,
         TurnInv(t, clk, a, st, ask, f)
  PROVE  TurnInv(t, clk2, a2, st2, ask2, f2)
<1> SUFFICES ASSUME t # None PROVE TurnInv(t, clk2, a2, st2, ask2, f2) BY DEF TurnInv
<1>1. t \in TurnState OBVIOUS
<1>2. t.asks \subseteq t.own /\ t.own \subseteq 1..clk2
  BY ConversationAssumption DEF TurnInv
<1>3. t.batch \in SUBSET st /\ t.recall \in SUBSET st BY DEF TurnInv
<1>9. st \in SUBSET Message /\ st2 \in SUBSET Message
  BY ConversationAssumption DEF Message
<1>10. ask \in SUBSET Message /\ ask2 \in SUBSET Message BY <1>9
<1>4. Safe(a2, t.recall, st2) /\ Safe(a2, t.batch, st2)
  BY <1>3, <1>9, SafeGrows DEF TurnInv
<1>5. /\ Cardinality(st) \in Nat /\ Cardinality(st2) \in Nat
      /\ Cardinality(ask) \in Nat /\ Cardinality(ask2) \in Nat
      /\ Cardinality(st) <= Cardinality(st2) /\ Cardinality(ask) <= Cardinality(ask2)
  BY <1>9, <1>10, MessagesFinite, MessagesMonotone
<1>6. t.pc \in {"looking", "reading"} => Cardinality(st2) > Threshold
  BY <1>5, ConversationAssumption DEF TurnInv
<1>7. ASSUME t.pc = "prompted", NEW m \in t.recall \cap t.window
      PROVE  Cardinality(Sharing(a2, clk2, m)) >= 3
  <2>1. m \in 1..clk BY <1>3
  <2>2. Cardinality(Sharing(a, clk, m)) >= 3 BY <1>7 DEF TurnInv
  <2> QED BY <2>1, <2>2, SharingGrows
<1>8. t.pc = "analyzing" => t.seen + t.size <= Cardinality(ask2) + AnalysisBatch * f2
  <2>1. /\ AnalysisBatch * f \in Nat /\ AnalysisBatch * f2 \in Nat
        /\ AnalysisBatch * f <= AnalysisBatch * f2
    BY BatchTimes
  <2>2. t.seen \in Nat /\ t.size \in Nat BY <1>1 DEF TurnState
  <2>3. \A x, y, c1, c2, b1, b2 \in Nat :
          x + y <= c1 + b1 /\ c1 <= c2 /\ b1 <= b2 => x + y <= c2 + b2
    OBVIOUS
  <2> HAVE t.pc = "analyzing"
  <2>4. t.seen + t.size <= Cardinality(ask) + AnalysisBatch * f BY DEF TurnInv
  <2> QED BY <1>5, <2>1, <2>2, <2>3, <2>4
<1> QED BY <1>2, <1>3, <1>4, <1>6, <1>7, <1>8 DEF TurnInv

(* Messages are flushed and committed, never taken back or stamped again. *)
Grows ==
  /\ clock <= clock' /\ Kept(stamp, stamp', clock)
  /\ stored \subseteq stored' /\ asked \subseteq asked' /\ forced <= forced'

LEMMA OtherTurn ==
  ASSUME IInv, TypeOK', Grows, NEW t \in TurnState \cup {None},
         TurnInv(t, clock, stamp, stored, asked, forced)
  PROVE  TurnInv(t, clock', stamp', stored', asked', forced')
<1>1. /\ clock \in 0..MaxMessages /\ stored \in SUBSET (1..clock) /\ asked \in SUBSET stored
      /\ forced \in Nat
  BY ConversationAssumption DEF IInv, TypeOK
<1>2. PICK clk2 : clk2 = clock' OBVIOUS
<1>3. PICK a2 : a2 = stamp' OBVIOUS
<1>4. PICK st2 : st2 = stored' OBVIOUS
<1>5. PICK ask2 : ask2 = asked' OBVIOUS
<1>6. PICK f2 : f2 = forced' OBVIOUS
<1>7. /\ clk2 \in 0..MaxMessages /\ st2 \in SUBSET (1..clk2) /\ ask2 \in SUBSET st2
      /\ f2 \in Nat
  BY <1>2, <1>4, <1>5, <1>6, ConversationAssumption DEF TypeOK
<1>8. /\ clock <= clk2 /\ Kept(stamp, a2, clock) /\ stored \subseteq st2
      /\ asked \subseteq ask2 /\ forced <= f2
  BY <1>2, <1>3, <1>4, <1>5, <1>6 DEF Grows
<1>9. TurnInv(t, clk2, a2, st2, ask2, f2) BY <1>1, <1>7, <1>8, TurnInvGrows
<1> QED BY <1>2, <1>3, <1>4, <1>5, <1>6, <1>9

(* A step of handler h establishes the invariant of every handler when it   *)
(* establishes that of h.                                                   *)
LEMMA TurnsKept ==
  ASSUME IInv, TypeOK', Grows, NEW h \in Handler, NEW t,
         turn' = [turn EXCEPT ![h] = t],
         TurnInv(t, clock', stamp', stored', asked', forced')
  PROVE  \A k \in Handler : TurnInv(turn'[k], clock', stamp', stored', asked', forced')
<1> SUFFICES ASSUME NEW k \in Handler
             PROVE  TurnInv(turn'[k], clock', stamp', stored', asked', forced')
  OBVIOUS
<1>1. CASE k = h BY <1>1 DEF IInv, TypeOK
<1>2. CASE k # h
  <2>1. turn'[k] = turn[k] BY <1>2 DEF IInv, TypeOK
  <2>2. turn[k] \in TurnState \cup {None} BY DEF IInv, TypeOK
  <2>3. TurnInv(turn[k], clock, stamp, stored, asked, forced) BY DEF IInv
  <2> QED BY <2>1, <2>2, <2>3, OtherTurn
<1> QED BY <1>1, <1>2

(* Nothing the client has seen or waits for changes while messages come. *)
LEMMA PagerGrows ==
  ASSUME IInv, TypeOK', Grows, UNCHANGED pager
  PROVE  PagerInv'
<1> SUFFICES ASSUME pager # None PROVE PagerInv' BY DEF PagerInv
<1>1. /\ pager.start \subseteq stored /\ pager.seen \subseteq stored /\ pager.cursor \in stored
      /\ \A m \in pager.start : Met(m) \/ stamp[m] < stamp[pager.cursor]
      /\ ~pager.more => \A m \in pager.start : Met(m)
  BY DEF IInv, PagerInv
<1>2. \A m \in stored : stamp'[m] = stamp[m] BY DEF IInv, TypeOK, Grows, Kept
<1>3. \A m \in pager.start : Met(m) => Met(m)' BY <1>1, <1>2 DEF Met
<1>4. stored \subseteq stored' BY DEF Grows
<1>5. /\ pager'.start \subseteq stored' /\ pager'.seen \subseteq stored'
      /\ pager'.cursor \in stored'
  BY <1>1, <1>4
<1>6. \A m \in pager'.start : Met(m)' \/ stamp'[m] < stamp'[pager'.cursor]
  BY <1>1, <1>2, <1>3
<1>7. ~pager'.more => \A m \in pager'.start : Met(m)' BY <1>1, <1>3
<1> QED BY <1>5, <1>6, <1>7 DEF PagerInv

(* A step that adds messages and leaves the summary, the counter and the    *)
(* pager alone.                                                             *)
LEMMA GrowStep ==
  ASSUME IInv, TypeOK', Grows, UNCHANGED <<summary, analyzed, pager>>,
         \A k \in Handler : TurnInv(turn'[k], clock', stamp', stored', asked', forced')
  PROVE  IInv'
<1>1. Safe(stamp', summary', stored')
  <2>1. PICK a2 : a2 = stamp' OBVIOUS
  <2>2. PICK st2 : st2 = stored' OBVIOUS
  <2>3. clock \in 0..MaxMessages /\ stored \in SUBSET (1..clock) /\ summary \in SUBSET stored
    BY DEF IInv, TypeOK
  <2>4. st2 \in SUBSET Message
    BY <2>2, ConversationAssumption DEF TypeOK, Message
  <2>5. Kept(stamp, a2, clock) /\ stored \subseteq st2 /\ Safe(stamp, summary, stored)
    BY <2>1, <2>2 DEF IInv, Grows
  <2>6. Safe(a2, summary, st2) BY <2>3, <2>4, <2>5, SafeGrows
  <2> QED BY <2>1, <2>2, <2>6
<1>2. AnalyzedBounded'
  <2>1. asked \in SUBSET Message BY StoredMessages DEF IInv
  <2>2. asked' \in SUBSET Message BY ConversationAssumption DEF TypeOK, Message
  <2>3. Cardinality(asked) <= Cardinality(asked') BY <2>2, MessagesMonotone DEF Grows
  <2>4. Cardinality(asked) \in Nat /\ Cardinality(asked') \in Nat
    BY <2>1, <2>2, MessagesFinite
  <2>5. forced \in Nat /\ forced' \in Nat /\ forced <= forced' /\ analyzed \in Nat
    BY ConversationAssumption DEF IInv, TypeOK, Grows
  <2>6. PICK f2 : f2 = forced' OBVIOUS
  <2>7. /\ AnalysisBatch * forced \in Nat /\ AnalysisBatch * f2 \in Nat
        /\ AnalysisBatch * forced <= AnalysisBatch * f2
    BY <2>5, <2>6, BatchTimes
  <2>8. analyzed <= Cardinality(asked) + AnalysisBatch * forced
    BY DEF IInv, AnalyzedBounded
  <2>9. \A x, c1, c2, b1, b2 \in Nat :
          x <= c1 + b1 /\ c1 <= c2 /\ b1 <= b2 => x <= c2 + b2
    OBVIOUS
  <2>10. analyzed <= Cardinality(asked') + AnalysisBatch * f2
    BY <2>3, <2>4, <2>5, <2>7, <2>8, <2>9
  <2> QED BY <2>6, <2>10 DEF AnalyzedBounded
<1>3. PagerInv' BY PagerGrows
<1> QED BY <1>1, <1>2, <1>3 DEF IInv

(* A step that leaves the messages alone. *)
LEMMA Still ==
  ASSUME IInv, UNCHANGED <<clock, stamp, stored, asked, forced>>
  PROVE  Grows
BY ConversationAssumption DEF Grows, Kept, IInv, TypeOK

(* A step of a handler that changes no message. *)
LEMMA TurnStep ==
  ASSUME IInv, TypeOK', NEW h \in Handler, NEW t,
         turn' = [turn EXCEPT ![h] = t],
         UNCHANGED <<clock, stamp, stored, asked, summary, analyzed, forced, pager>>,
         TurnInv(t, clock, stamp, stored, asked, forced)
  PROVE  IInv'
<1>1. Grows BY Still
<1>2. TurnInv(t, clock', stamp', stored', asked', forced') OBVIOUS
<1>3. \A k \in Handler : TurnInv(turn'[k], clock', stamp', stored', asked', forced')
  BY <1>1, <1>2, TurnsKept
<1> QED BY <1>1, <1>3, GrowStep

LEMMA NoTurn ==
  ASSUME NEW clk, NEW a, NEW st, NEW ask, NEW f
  PROVE  TurnInv(None, clk, a, st, ask, f)
BY DEF TurnInv

LEMMA AskKeeps ==
  ASSUME IInv, NEW h \in Handler, NEW kind \in Kind, Ask(h, kind)
  PROVE  IInv'
<1> DEFINE q == {clock + 1}
           own == IF kind = "family" THEN {} ELSE q
           t == [kind |-> kind, pc |-> "asked", asks |-> own, own |-> own, recall |-> {},
                 window |-> {}, batch |-> {}, seen |-> 0, size |-> 0]
<1>1. TypeOK' BY AskType DEF IInv
<1>2. turn' = [turn EXCEPT ![h] = t] BY DEF Ask
<1>3. /\ clock \in Nat /\ clock' = clock + 1 /\ Kept(stamp, stamp', clock)
  BY FlushType DEF Ask, IInv
<1>4. Grows
  <2>1. stored \subseteq stored' /\ asked \subseteq asked' /\ forced' = forced BY DEF Ask
  <2> QED BY <1>3, <2>1, ConversationAssumption DEF Grows, IInv, TypeOK
<1>5. TurnInv(t, clock', stamp', stored', asked', forced')
  <2>1. own \subseteq 1..clock' BY <1>3
  <2> HIDE DEF own
  <2> QED BY <2>1 DEF TurnInv, Safe
<1> HIDE DEF t
<1>6. \A k \in Handler : TurnInv(turn'[k], clock', stamp', stored', asked', forced')
  BY <1>1, <1>2, <1>4, <1>5, TurnsKept
<1> QED BY <1>1, <1>4, <1>6, GrowStep DEF Ask

LEMMA RecallKeeps ==
  ASSUME IInv, NEW h \in Handler, Recall(h)
  PROVE  IInv'
<1> DEFINE t == [turn[h] EXCEPT !.pc = "recalled", !.recall = summary]
<1>1. TypeOK' BY RecallType DEF IInv
<1>2. turn[h] \in TurnState /\ turn[h] # None BY TurnFields DEF Recall, At, IInv
<1>3. TurnInv(turn[h], clock, stamp, stored, asked, forced) /\ Safe(stamp, summary, stored) BY DEF IInv
<1>4. /\ t.asks = turn[h].asks /\ t.own = turn[h].own /\ t.batch = turn[h].batch
      /\ t.pc = "recalled" /\ t.recall = summary
  BY <1>2 DEF TurnState
<1>5. turn' = [turn EXCEPT ![h] = t] BY DEF Recall
<1> HIDE DEF t
<1>6. summary \subseteq stored BY DEF IInv, TypeOK
<1>7. TurnInv(t, clock, stamp, stored, asked, forced) BY <1>2, <1>3, <1>4, <1>6 DEF TurnInv
<1> QED BY <1>1, <1>5, <1>7, TurnStep DEF Recall

(* The heart of NoDoubleContext: of the more than Window messages that are  *)
(* no older than one of the window, two at least are outside, and so have   *)
(* its stamp.                                                               *)
LEMMA WindowMissesSafe ==
  ASSUME TypeOK, NEW st \in SUBSET (1..clock), NEW all \in SUBSET (1..clock), st \subseteq all,
         NEW S \in SUBSET st, Safe(stamp, S, st), NEW W, IsNewest(W, all, Window),
         NEW s \in S \cap W
  PROVE  Cardinality(Sharing(stamp, clock, s)) >= 3
<1> DEFINE Y == NoOlder(stamp, s, st)
           Out == Y \ W
           In == Y \cap W
<1>1. W \in SUBSET all BY DEF IsNewest
<1>2. clock \in Nat /\ 1..clock \subseteq Message
  BY ConversationAssumption DEF TypeOK, Message
<1>3. s \in 1..clock /\ s \notin Y BY DEF NoOlder
<1>4. Y \in SUBSET (1..clock) /\ Y \in SUBSET Message BY <1>2 DEF NoOlder
<1>5. Cardinality(Y) > Window BY DEF Safe
<1> HIDE DEF Y
<1>6. /\ IsFiniteSet(Y) /\ Cardinality(Y) \in Nat /\ IsFiniteSet(W) /\ Cardinality(W) \in Nat
      /\ IsFiniteSet(In) /\ Cardinality(In) \in Nat
      /\ IsFiniteSet(Out) /\ Cardinality(Out) \in Nat
  BY <1>1, <1>2, <1>4, MessagesFinite
<1>7. Cardinality(Out) = Cardinality(Y) - Cardinality(In) BY <1>6, FS_Difference
<1>8. Cardinality(In) + 1 <= Cardinality(W)
  <2>1. s \notin In BY <1>3
  <2>2. Cardinality(In \cup {s}) = Cardinality(In) + 1 BY <1>6, <2>1, FS_AddElement
  <2>3. In \cup {s} \in SUBSET W /\ W \in SUBSET Message BY <1>1, <1>2
  <2>4. Cardinality(In \cup {s}) <= Cardinality(W) BY <2>3, MessagesMonotone
  <2> QED BY <2>2, <2>4
<1>9. Cardinality(W) <= Window
  <2>1. Cardinality(all) \in Nat BY <1>2, MessagesFinite
  <2> QED BY <2>1, ConversationAssumption DEF IsNewest, Bounded
<1>10. Cardinality(Out) >= 2 BY <1>5, <1>6, <1>7, <1>8, <1>9, ConversationAssumption
<1>11. Out \cup {s} \subseteq Sharing(stamp, clock, s)
  <2> SUFFICES ASSUME NEW m \in Out PROVE m \in Sharing(stamp, clock, s)
    BY <1>3 DEF Sharing
  <2>1. stamp[s] <= stamp[m] BY DEF Y, NoOlder
  <2>2. m \in all \ W BY DEF Y, NoOlder
  <2>3. stamp[m] <= stamp[s] BY <2>2 DEF IsNewest
  <2>4. stamp[m] \in Nat /\ stamp[s] \in Nat BY <1>2, <1>3, <1>4 DEF TypeOK
  <2>5. m \in 1..clock BY <1>4
  <2> QED BY <2>1, <2>3, <2>4, <2>5 DEF Sharing
<1>12. Cardinality(Out \cup {s}) = Cardinality(Out) + 1
  <2>1. s \notin Out BY <1>3
  <2> QED BY <1>6, <2>1, FS_AddElement
<1>13. Sharing(stamp, clock, s) \in SUBSET Message BY <1>2 DEF Sharing
<1>14. /\ Cardinality(Out \cup {s}) <= Cardinality(Sharing(stamp, clock, s))
       /\ Cardinality(Sharing(stamp, clock, s)) \in Nat
  BY <1>11, <1>13, MessagesMonotone, MessagesFinite
<1> QED BY <1>6, <1>10, <1>12, <1>14

LEMMA LoadWindowKeeps ==
  ASSUME IInv, NEW h \in Handler, LoadWindow(h)
  PROVE  IInv'
<1>1. TypeOK' BY LoadWindowType DEF IInv
<1>2. turn[h] \in TurnState /\ turn[h] # None BY TurnFields DEF LoadWindow, At, IInv
<1>3. PICK window \in SUBSET (stored \cup turn[h].own) :
        /\ IsNewest(window, stored \cup turn[h].own, Window)
        /\ turn' = [turn EXCEPT ![h] = [@ EXCEPT !.pc = "prompted", !.window = window]]
  BY DEF LoadWindow
<1> DEFINE t == [turn[h] EXCEPT !.pc = "prompted", !.window = window]
<1>4. TurnInv(turn[h], clock, stamp, stored, asked, forced) BY DEF IInv
<1>5. /\ t.asks = turn[h].asks /\ t.own = turn[h].own /\ t.batch = turn[h].batch
      /\ t.pc = "prompted" /\ t.recall = turn[h].recall /\ t.window = window
  BY <1>2 DEF TurnState
<1>6. stored \in SUBSET (1..clock) /\ stored \cup turn[h].own \in SUBSET (1..clock)
  BY <1>2, <1>4 DEF TurnInv, IInv, TypeOK
<1>7. \A m \in turn[h].recall \cap window : Cardinality(Sharing(stamp, clock, m)) >= 3
  <2>1. /\ TypeOK /\ turn[h].recall \in SUBSET stored
        /\ Safe(stamp, turn[h].recall, stored)
    BY <1>2, <1>4 DEF TurnInv, IInv
  <2> QED BY <1>3, <1>6, <2>1, WindowMissesSafe
<1>8. turn' = [turn EXCEPT ![h] = t] BY <1>3
<1> HIDE DEF t
<1>9. TurnInv(t, clock, stamp, stored, asked, forced) BY <1>2, <1>4, <1>5, <1>7 DEF TurnInv
<1> QED BY <1>1, <1>8, <1>9, TurnStep DEF LoadWindow

LEMMA ReadProfileKeeps ==
  ASSUME IInv, NEW h \in Handler, ReadProfile(h)
  PROVE  IInv'
<1> DEFINE n == IF turn[h].kind = "request" THEN analyzed ELSE 0
           t == [turn[h] EXCEPT !.pc = "generating", !.recall = {}, !.window = {}, !.seen = n]
<1>1. TypeOK' BY ReadProfileType DEF IInv
<1>2. turn[h] \in TurnState /\ turn[h] # None BY TurnFields DEF ReadProfile, At, IInv
<1>3. turn' = [turn EXCEPT ![h] = t] BY DEF ReadProfile
<1> HIDE DEF n
<1>4. /\ t.asks = turn[h].asks /\ t.own = turn[h].own /\ t.batch = turn[h].batch
      /\ t.pc = "generating" /\ t.recall = {}
  BY <1>2 DEF TurnState
<1> HIDE DEF t
<1>5. TurnInv(t, clock, stamp, stored, asked, forced) BY <1>2, <1>4 DEF TurnInv, Safe, IInv
<1> QED BY <1>1, <1>3, <1>5, TurnStep DEF ReadProfile

LEMMA AnswerKeeps ==
  ASSUME IInv, NEW h \in Handler, Answer(h)
  PROVE  IInv'
<1> DEFINE t == [turn[h] EXCEPT !.pc = "answered", !.own = turn[h].own \cup {clock + 1}]
<1>1. TypeOK' BY AnswerType DEF IInv
<1>2. turn[h] \in TurnState /\ turn[h] # None BY TurnFields DEF Answer, At, IInv
<1>3. turn' = [turn EXCEPT ![h] = t] BY DEF Answer
<1>4. /\ t.asks = turn[h].asks /\ t.own = turn[h].own \cup {clock + 1}
      /\ t.batch = turn[h].batch /\ t.pc = "answered" /\ t.recall = turn[h].recall
  BY <1>2 DEF TurnState
<1> HIDE DEF t
<1>5. TurnInv(turn[h], clock, stamp, stored, asked, forced) BY DEF IInv
<1>6. clock \in Nat /\ clock' = clock + 1 /\ Kept(stamp, stamp', clock)
  BY FlushType DEF Answer, IInv
<1>7. t.own \subseteq 1..clock' BY <1>2, <1>4, <1>5, <1>6 DEF TurnInv
<1>8. Grows
  <2>1. UNCHANGED <<stored, asked, forced>> BY DEF Answer
  <2> QED BY <1>6, <2>1, ConversationAssumption DEF Grows, IInv, TypeOK
<1>9. TurnInv(turn[h], clock', stamp', stored', asked', forced')
  <2>1. turn[h] \in TurnState \cup {None} BY <1>2
  <2> QED BY <1>1, <1>5, <1>8, <2>1, OtherTurn
<1>10. TurnInv(t, clock', stamp', stored', asked', forced')
  BY <1>2, <1>4, <1>5, <1>7, <1>9 DEF TurnInv
<1>11. \A k \in Handler : TurnInv(turn'[k], clock', stamp', stored', asked', forced')
  BY <1>1, <1>3, <1>8, <1>10, TurnsKept
<1> QED BY <1>1, <1>8, <1>11, GrowStep DEF Answer

(* A handler that ends its message. *)
LEMMA TurnEnds ==
  ASSUME IInv, NEW h \in Handler, turn' = [turn EXCEPT ![h] = None],
         UNCHANGED <<clock, stamp, stored, asked, summary, analyzed, forced, pager>>
  PROVE  IInv'
<1>1. turn' \in [Handler -> TurnState \cup {None}] BY TurnType DEF IInv
<1>2. TypeOK' BY <1>1, QuietType DEF IInv, TypeOK
<1> QED BY <1>2, NoTurn, TurnStep

LEMMA CommitKeeps ==
  ASSUME IInv, NEW h \in Handler, Commit(h)
  PROVE  IInv'
<1> DEFINE t == [turn[h] EXCEPT !.pc = "counting", !.own = {}, !.asks = {}]
<1>1. turn[h] \in TurnState /\ turn[h] # None BY TurnFields DEF Commit, At, IInv
<1>2. TurnInv(turn[h], clock, stamp, stored, asked, forced) BY DEF IInv
<1>3. turn' = [turn EXCEPT ![h] = t] BY DEF Commit
<1>4. t \in TurnState BY <1>1 DEF TurnState, TurnPc
<1>5. /\ t.asks = {} /\ t.own = {} /\ t.batch = turn[h].batch
      /\ t.pc = "counting" /\ t.recall = turn[h].recall
  BY <1>1 DEF TurnState
<1> HIDE DEF t
<1>6. turn' \in [Handler -> TurnState \cup {None}] BY <1>3, <1>4, TurnType DEF IInv
<1>7. stored \subseteq stored' /\ asked \subseteq asked' BY DEF Commit
<1>8. asked' \subseteq stored' /\ stored' \subseteq 1..clock
  BY <1>1, <1>2 DEF Commit, TurnInv, IInv, TypeOK
<1>9. TypeOK' BY <1>6, <1>7, <1>8 DEF Commit, IInv, TypeOK
<1>10. Grows
  <2>1. UNCHANGED <<clock, stamp, forced>> BY DEF Commit
  <2> QED BY <1>7, <2>1, ConversationAssumption DEF Grows, Kept, IInv, TypeOK
<1>11. TurnInv(turn[h], clock', stamp', stored', asked', forced')
  <2>1. turn[h] \in TurnState \cup {None} BY <1>1
  <2> QED BY <1>2, <1>9, <1>10, <2>1, OtherTurn
<1>12. TurnInv(t, clock', stamp', stored', asked', forced')
  BY <1>1, <1>5, <1>11 DEF TurnInv
<1>13. \A k \in Handler : TurnInv(turn'[k], clock', stamp', stored', asked', forced')
  BY <1>3, <1>9, <1>10, <1>12, TurnsKept
<1> QED BY <1>9, <1>10, <1>13, GrowStep DEF Commit

(* A step outside the handlers that flushes and commits messages. *)
LEMMA OthersStep ==
  ASSUME IInv, TypeOK', Grows, UNCHANGED <<summary, analyzed, turn, pager>>
  PROVE  IInv'
<1>1. ASSUME NEW k \in Handler
      PROVE  TurnInv(turn'[k], clock', stamp', stored', asked', forced')
  <2>1. turn[k] \in TurnState \cup {None} BY DEF IInv, TypeOK
  <2>2. TurnInv(turn[k], clock, stamp, stored, asked, forced) BY DEF IInv
  <2> QED BY <2>1, <2>2, OtherTurn
<1> QED BY <1>1, GrowStep

LEMMA RefuseKeeps ==
  ASSUME IInv, Refuse
  PROVE  IInv'
<1>1. clock \in Nat /\ clock' = clock + 2 /\ clock' \in 0..MaxMessages
  BY ConversationAssumption DEF Refuse, IInv, TypeOK
<1>2. stored' \subseteq 1..clock' BY <1>1 DEF Refuse, IInv, TypeOK
<1>3. stored \subseteq stored' /\ asked \subseteq asked' /\ forced' = forced BY DEF Refuse
<1>4. asked' \subseteq stored' BY DEF Refuse, IInv, TypeOK
<1>5. PICK ms \in Now : \E later \in {ms, ms + 1} :
        stamp' = [stamp EXCEPT ![clock + 1] = ms, ![clock + 2] = later]
  BY DEF Refuse
<1>6. PICK later \in {ms, ms + 1} :
        stamp' = [stamp EXCEPT ![clock + 1] = ms, ![clock + 2] = later]
  BY <1>5
<1>7. ms \in Nat /\ later \in Nat
  <2>1. clock < MaxMessages BY <1>1, ConversationAssumption
  <2>2. ms \in Nat BY <2>1, NowType DEF IInv
  <2> QED BY <2>2
<1>8. stamp \in [Message -> Nat] BY DEF IInv, TypeOK
<1>9. PICK one : one = [stamp EXCEPT ![clock + 1] = ms] OBVIOUS
<1>10. stamp' = [one EXCEPT ![clock + 2] = later] BY <1>6, <1>9, Zenon
<1>11. one \in [Message -> Nat] BY <1>7, <1>8, <1>9
<1>12. stamp' \in [Message -> Nat] BY <1>7, <1>10, <1>11
<1>13. Kept(stamp, stamp', clock)
  <2> SUFFICES ASSUME NEW m \in 1..clock PROVE stamp'[m] = stamp[m] BY DEF Kept
  <2>1. m \in Message /\ m # clock + 1 /\ m # clock + 2
    BY <1>1, ConversationAssumption DEF Message
  <2>2. one[m] = stamp[m] BY <1>8, <1>9, <2>1
  <2> QED BY <1>10, <1>11, <2>1, <2>2
<1>14. TypeOK' BY <1>1, <1>2, <1>3, <1>4, <1>12 DEF Refuse, IInv, TypeOK
<1>15. Grows BY <1>1, <1>3, <1>13, ConversationAssumption DEF Grows, IInv, TypeOK
<1> QED BY <1>14, <1>15, OthersStep DEF Refuse

LEMMA InterveneKeeps ==
  ASSUME IInv, Intervene
  PROVE  IInv'
<1>1. /\ clock \in Nat /\ clock' = clock + 1 /\ clock' \in 0..MaxMessages
      /\ stamp' \in [Message -> Nat] /\ Kept(stamp, stamp', clock)
  BY FlushType DEF Intervene, IInv
<1>2. stored' \subseteq 1..clock' BY <1>1 DEF Intervene, IInv, TypeOK
<1>3. stored \subseteq stored' /\ asked \subseteq asked' /\ forced' = forced BY DEF Intervene
<1>4. TypeOK' BY <1>1, <1>2, <1>3 DEF Intervene, IInv, TypeOK
<1>5. Grows BY <1>1, <1>3, ConversationAssumption DEF Grows, IInv, TypeOK
<1> QED BY <1>4, <1>5, OthersStep DEF Intervene

-----------------------------------------------------------------------------
(* The steps of maybe_summarize. *)

LEMMA AfterSummaryKeeps ==
  ASSUME IInv, NEW h \in Handler, turn[h] # None, AfterSummary(h)
  PROVE  \E t \in TurnState \cup {None} :
           /\ turn' = [turn EXCEPT ![h] = t]
           /\ TurnInv(t, clock, stamp, stored, asked, forced)
<1> DEFINE u == [turn[h] EXCEPT !.pc = "checking", !.batch = {}]
<1>1. turn[h] \in TurnState BY TurnFields DEF IInv
<1>2. u \in TurnState BY <1>1 DEF TurnState, TurnPc
<1>3. /\ u.asks = turn[h].asks /\ u.own = turn[h].own /\ u.batch = {}
      /\ u.pc = "checking" /\ u.recall = turn[h].recall
  BY <1>1 DEF TurnState
<1>4. turn' = [turn EXCEPT ![h] = IF turn[h].kind = "request" THEN u ELSE None]
  BY DEF AfterSummary
<1> HIDE DEF u
<1>5. TurnInv(turn[h], clock, stamp, stored, asked, forced) BY DEF IInv
<1>6. TurnInv(u, clock, stamp, stored, asked, forced) BY <1>3, <1>5 DEF TurnInv, Safe
<1>7. CASE turn[h].kind = "request" BY <1>2, <1>4, <1>6, <1>7
<1>8. CASE turn[h].kind # "request"
  <2>1. turn' = [turn EXCEPT ![h] = None] BY <1>4, <1>8
  <2> QED BY <2>1, NoTurn
<1> QED BY <1>7, <1>8

(* maybe_summarize returns without touching the summary. *)
LEMMA SummaryKept ==
  ASSUME IInv, NEW h \in Handler, turn[h] # None, AfterSummary(h),
         UNCHANGED <<clock, stamp, stored, asked, summary, analyzed, forced, pager>>
  PROVE  IInv'
<1>1. PICK t \in TurnState \cup {None} :
        turn' = [turn EXCEPT ![h] = t] /\ TurnInv(t, clock, stamp, stored, asked, forced)
  BY AfterSummaryKeeps
<1>2. turn' \in [Handler -> TurnState \cup {None}] BY <1>1, TurnType DEF IInv
<1>3. TypeOK' BY <1>2, QuietType DEF IInv, TypeOK
<1> QED BY <1>1, <1>3, TurnStep

(* A handler that goes on to a control point that asks for nothing but,     *)
(* perhaps, more than Threshold messages.                                   *)
LEMMA GotoKeeps ==
  ASSUME IInv, NEW h \in Handler, turn[h] # None, NEW pc \in {"looking", "reading"},
         Goto(h, pc), Cardinality(stored) > Threshold,
         UNCHANGED <<clock, stamp, stored, asked, summary, analyzed, forced, pager>>
  PROVE  IInv'
<1> DEFINE t == [turn[h] EXCEPT !.pc = pc]
<1>1. turn[h] \in TurnState BY TurnFields DEF IInv
<1>2. pc \in TurnPc BY DEF TurnPc
<1>3. turn' \in [Handler -> TurnState \cup {None}] BY <1>2, GotoType DEF IInv
<1>4. TypeOK' BY <1>3, QuietType DEF IInv, TypeOK
<1>5. turn' = [turn EXCEPT ![h] = t] BY DEF Goto
<1>6. /\ t.asks = turn[h].asks /\ t.own = turn[h].own /\ t.batch = turn[h].batch
      /\ t.pc = pc /\ t.recall = turn[h].recall
  BY <1>1 DEF TurnState
<1> HIDE DEF t
<1>7. TurnInv(turn[h], clock, stamp, stored, asked, forced) BY DEF IInv
<1>8. TurnInv(t, clock, stamp, stored, asked, forced) BY <1>6, <1>7 DEF TurnInv
<1> QED BY <1>4, <1>5, <1>8, TurnStep

LEMMA CountMessagesKeeps ==
  ASSUME IInv, NEW h \in Handler, CountMessages(h)
  PROVE  IInv'
<1>1. turn[h] # None BY DEF CountMessages, At
<1>2. CASE Cardinality(stored) <= Threshold
  <2>1. AfterSummary(h) BY <1>2 DEF CountMessages
  <2> QED BY <1>1, <2>1, SummaryKept DEF CountMessages
<1>3. CASE ~(Cardinality(stored) <= Threshold)
  <2>1. Goto(h, "looking") BY <1>3 DEF CountMessages
  <2>2. Cardinality(stored) \in Nat BY StoredMessages, MessagesFinite DEF IInv
  <2>3. Cardinality(stored) > Threshold BY <1>3, <2>2, ConversationAssumption
  <2> QED BY <1>1, <2>1, <2>3, GotoKeeps DEF CountMessages
<1> QED BY <1>2, <1>3

LEMMA LookForSummaryKeeps ==
  ASSUME IInv, NEW h \in Handler, LookForSummary(h)
  PROVE  IInv'
<1>1. turn[h] # None /\ turn[h].pc = "looking" BY DEF LookForSummary, At
<1>2. CASE summary # {}
  <2>1. AfterSummary(h) BY <1>2 DEF LookForSummary
  <2> QED BY <1>1, <2>1, SummaryKept DEF LookForSummary
<1>3. CASE summary = {}
  <2>1. Goto(h, "reading") BY <1>3 DEF LookForSummary
  <2>2. Cardinality(stored) > Threshold BY <1>1 DEF IInv, TurnInv
  <2> QED BY <1>1, <2>1, <2>2, GotoKeeps DEF LookForSummary
<1> QED BY <1>2, <1>3

(* The oldest Batch of more than Threshold messages are safe: more than     *)
(* Window messages remain, none of them older.                              *)
LEMMA OldestSafe ==
  ASSUME NEW st \in SUBSET Message, Cardinality(st) > Threshold,
         NEW B, IsOldest(B, st, Batch)
  PROVE  Safe(stamp, B, st)
<1>1. B \in SUBSET st BY DEF IsOldest
<1>2. B \in SUBSET Message /\ st \ B \in SUBSET Message BY <1>1
<1>3. IsFiniteSet(st) /\ Cardinality(st) \in Nat /\ Cardinality(B) \in Nat
      /\ Cardinality(st \ B) \in Nat
  BY <1>2, MessagesFinite
<1>4. Cardinality(B) <= Batch BY <1>3, ConversationAssumption DEF IsOldest, Bounded
<1>5. Cardinality(st \ B) = Cardinality(st) - Cardinality(B)
  <2>1. st \cap B = B BY <1>1
  <2>2. Cardinality(st \ B) = Cardinality(st) - Cardinality(st \cap B) BY <1>3, FS_Difference
  <2> QED BY <2>1, <2>2
<1>6. Cardinality(st \ B) > Window BY <1>3, <1>4, <1>5, ConversationAssumption
<1> SUFFICES ASSUME NEW s \in B PROVE Cardinality(NoOlder(stamp, s, st)) > Window
  BY DEF Safe
<1>7. st \ B \subseteq NoOlder(stamp, s, st) BY DEF IsOldest, NoOlder
<1>8. NoOlder(stamp, s, st) \in SUBSET Message BY DEF NoOlder
<1>9. Cardinality(st \ B) <= Cardinality(NoOlder(stamp, s, st))
  BY <1>7, <1>8, MessagesMonotone
<1>10. Cardinality(NoOlder(stamp, s, st)) \in Nat BY <1>8, MessagesFinite
<1> QED BY <1>3, <1>6, <1>9, <1>10, ConversationAssumption

LEMMA ReadOldestKeeps ==
  ASSUME IInv, NEW h \in Handler, ReadOldest(h)
  PROVE  IInv'
<1>1. turn[h] \in TurnState /\ turn[h] # None /\ turn[h].pc = "reading"
  BY TurnFields DEF ReadOldest, At, IInv
<1>2. PICK batch \in SUBSET stored :
        /\ IsOldest(batch, stored, Batch)
        /\ turn' = [turn EXCEPT ![h] = [@ EXCEPT !.pc = "summarizing", !.batch = batch]]
  BY DEF ReadOldest
<1> DEFINE t == [turn[h] EXCEPT !.pc = "summarizing", !.batch = batch]
<1>3. turn' = [turn EXCEPT ![h] = t] BY <1>2
<1>4. stored \in SUBSET Message BY StoredMessages DEF IInv
<1>5. t \in TurnState BY <1>1, <1>4 DEF TurnState, TurnPc
<1>6. /\ t.asks = turn[h].asks /\ t.own = turn[h].own /\ t.batch = batch
      /\ t.pc = "summarizing" /\ t.recall = turn[h].recall
  BY <1>1 DEF TurnState
<1> HIDE DEF t
<1>7. TurnInv(turn[h], clock, stamp, stored, asked, forced) BY DEF IInv
<1>8. Safe(stamp, batch, stored) BY <1>1, <1>2, <1>4, <1>7, OldestSafe DEF TurnInv
<1>9. TurnInv(t, clock, stamp, stored, asked, forced) BY <1>1, <1>6, <1>7, <1>8 DEF TurnInv
<1>10. turn' \in [Handler -> TurnState \cup {None}] BY <1>3, <1>5, TurnType DEF IInv
<1>11. TypeOK' BY <1>10, QuietType DEF ReadOldest, IInv, TypeOK
<1> QED BY <1>3, <1>9, <1>11, TurnStep DEF ReadOldest

LEMMA StoreSummaryKeeps ==
  ASSUME IInv, NEW h \in Handler, StoreSummary(h)
  PROVE  IInv'
<1>1. turn[h] # None BY DEF StoreSummary, At
<1>2. PICK t \in TurnState \cup {None} :
        turn' = [turn EXCEPT ![h] = t] /\ TurnInv(t, clock, stamp, stored, asked, forced)
  BY <1>1, AfterSummaryKeeps DEF StoreSummary
<1>3. TurnInv(turn[h], clock, stamp, stored, asked, forced) BY DEF IInv
<1>4. summary' \subseteq stored /\ Safe(stamp, summary', stored) BY <1>1, <1>3 DEF TurnInv, StoreSummary
<1>5. turn' \in [Handler -> TurnState \cup {None}] BY <1>2, TurnType DEF IInv
<1>6. TypeOK' BY <1>4, <1>5, QuietType DEF StoreSummary, IInv, TypeOK
<1>7. Grows BY Still DEF StoreSummary
<1>8. TurnInv(t, clock', stamp', stored', asked', forced') BY <1>2 DEF StoreSummary
<1>9. \A k \in Handler : TurnInv(turn'[k], clock', stamp', stored', asked', forced')
  BY <1>2, <1>6, <1>7, <1>8, TurnsKept
<1>10. PagerInv' BY <1>6, <1>7, PagerGrows DEF StoreSummary
<1>11. AnalyzedBounded' BY DEF IInv, AnalyzedBounded, StoreSummary
<1>12. Safe(stamp', summary', stored') BY <1>4 DEF StoreSummary
<1> QED BY <1>6, <1>9, <1>10, <1>11, <1>12 DEF IInv

LEMMA ExpireSummaryKeeps ==
  ASSUME IInv, ExpireSummary
  PROVE  IInv'
<1>1. turn' \in [Handler -> TurnState \cup {None}] BY DEF ExpireSummary, IInv, TypeOK
<1>2. TypeOK' BY <1>1, QuietType DEF ExpireSummary, IInv, TypeOK
<1>3. \A k \in Handler : TurnInv(turn'[k], clock', stamp', stored', asked', forced') BY DEF ExpireSummary, IInv
<1>4. PagerInv'
  <2>1. Grows BY Still DEF ExpireSummary
  <2> QED BY <1>2, <2>1, PagerGrows DEF ExpireSummary
<1>5. AnalyzedBounded' BY DEF IInv, AnalyzedBounded, ExpireSummary
<1>6. Safe(stamp', summary', stored') BY DEF Safe, ExpireSummary
<1> QED BY <1>2, <1>3, <1>4, <1>5, <1>6 DEF IInv

-----------------------------------------------------------------------------
(* The steps of PersonalityTracker. *)

LEMMA SampleSizes ==
  ASSUME IInv
  PROVE  SampleSize \in Nat /\ SampleSize <= AnalysisBatch /\ Cardinality(asked) \in Nat
<1>1. Cardinality(asked) \in Nat BY StoredMessages, MessagesFinite DEF IInv
<1> QED BY <1>1, ConversationAssumption DEF SampleSize, Bounded

(* A batch is due only when none of its messages was counted. *)
LEMMA SampleFits ==
  ASSUME IInv, NEW seen \in Nat, ShouldAnalyze(seen)
  PROVE  seen + SampleSize <= Cardinality(asked)
<1>1. Cardinality(asked) - seen >= AnalysisBatch BY DEF ShouldAnalyze
<1> QED BY <1>1, SampleSizes, ConversationAssumption

LEMMA CheckAnalysisKeeps ==
  ASSUME IInv, NEW h \in Handler, CheckAnalysis(h)
  PROVE  IInv'
<1> DEFINE t == [turn[h] EXCEPT !.pc = "analyzing", !.size = SampleSize]
<1>1. turn[h] \in TurnState /\ turn[h] # None
  BY TurnFields DEF CheckAnalysis, At, IInv
<1>2. turn' = [turn EXCEPT ![h] = t] BY DEF CheckAnalysis
<1>3. SampleSize \in Nat BY SampleSizes
<1>4. t \in TurnState BY <1>1, <1>3 DEF TurnState, TurnPc
<1>5. /\ t.asks = turn[h].asks /\ t.own = turn[h].own /\ t.batch = turn[h].batch
      /\ t.pc = "analyzing" /\ t.recall = turn[h].recall
      /\ t.seen = turn[h].seen /\ t.size = SampleSize
  BY <1>1 DEF TurnState
<1> HIDE DEF t
<1>6. turn[h].seen \in Nat BY <1>1 DEF TurnState
<1>7. ShouldAnalyze(turn[h].seen) BY DEF CheckAnalysis
<1>8. t.seen + t.size <= Cardinality(asked) + AnalysisBatch * forced
  <2>1. t.seen + t.size <= Cardinality(asked) BY <1>5, <1>6, <1>7, SampleFits
  <2>2. AnalysisBatch * forced \in Nat BY BatchTimes, ConversationAssumption DEF IInv, TypeOK
  <2>3. t.seen + t.size \in Nat /\ Cardinality(asked) \in Nat BY <1>3, <1>5, <1>6, SampleSizes
  <2> QED BY <2>1, <2>2, <2>3
<1>9. TurnInv(turn[h], clock, stamp, stored, asked, forced) BY DEF IInv
<1>10. TurnInv(t, clock, stamp, stored, asked, forced) BY <1>1, <1>5, <1>8, <1>9 DEF TurnInv
<1>11. turn' \in [Handler -> TurnState \cup {None}] BY <1>2, <1>4, TurnType DEF IInv
<1>12. TypeOK' BY <1>11, QuietType DEF CheckAnalysis, IInv, TypeOK
<1> QED BY <1>2, <1>10, <1>12, TurnStep DEF CheckAnalysis

LEMMA RefreshKeeps ==
  ASSUME IInv, NEW h \in Handler, NEW force \in BOOLEAN, Refresh(h, force)
  PROVE  IInv'
<1> DEFINE t == [kind |-> "request", pc |-> "analyzing", asks |-> {}, own |-> {},
                 recall |-> {}, window |-> {}, batch |-> {}, seen |-> analyzed,
                 size |-> SampleSize]
<1>1. turn' = [turn EXCEPT ![h] = t] BY DEF Refresh
<1>2. /\ SampleSize \in Nat /\ analyzed \in Nat /\ Cardinality(asked) \in Nat
      /\ SampleSize <= AnalysisBatch /\ forced \in Nat /\ AnalysisBatch \in Nat
  BY SampleSizes, ConversationAssumption DEF IInv, TypeOK
<1>3. t \in TurnState BY <1>2 DEF TurnState, TurnPc, Kind
<1>4. /\ t.asks = {} /\ t.own = {} /\ t.batch = {} /\ t.recall = {}
      /\ t.pc = "analyzing" /\ t.seen = analyzed /\ t.size = SampleSize
  OBVIOUS
<1> HIDE DEF t
<1>5. forced' \in 0..MaxForced /\ forced <= forced'
  BY <1>2, ConversationAssumption DEF Refresh, IInv, TypeOK
<1>6. turn' \in [Handler -> TurnState \cup {None}] BY <1>1, <1>3, TurnType DEF IInv
<1>7. TypeOK' BY <1>5, <1>6, QuietType DEF Refresh, IInv, TypeOK
<1>8. Grows
  <2>1. UNCHANGED <<clock, stamp, stored, asked>> BY DEF Refresh
  <2> QED BY <1>5, <2>1, ConversationAssumption DEF Grows, Kept, IInv, TypeOK
<1>9. PICK f2 : f2 = forced' OBVIOUS
<1>10. t.seen + t.size <= Cardinality(asked) + AnalysisBatch * f2
  <2>1. /\ AnalysisBatch * forced \in Nat
        /\ AnalysisBatch * (forced + 1) = AnalysisBatch * forced + AnalysisBatch
    BY <1>2, BatchTimes
  <2>2. CASE force
    <3>1. f2 = forced + 1 BY <1>9, <2>2 DEF Refresh
    <3>2. analyzed <= Cardinality(asked) + AnalysisBatch * forced BY DEF IInv, AnalyzedBounded
    <3>3. AnalysisBatch * f2 = AnalysisBatch * forced + AnalysisBatch BY <2>1, <3>1
    <3> QED BY <1>2, <1>4, <2>1, <3>2, <3>3
  <2>3. CASE ~force
    <3>1. f2 = forced /\ ShouldAnalyze(analyzed) BY <1>9, <2>3 DEF Refresh
    <3>2. t.seen + t.size <= Cardinality(asked) BY <1>2, <1>4, <3>1, SampleFits
    <3> QED BY <1>2, <1>4, <2>1, <3>1, <3>2
  <2> QED BY <2>2, <2>3
<1>11. TurnInv(t, clock', stamp', stored', asked', forced')
  <2>1. asked' = asked BY DEF Refresh
  <2> QED BY <1>4, <1>9, <1>10, <2>1 DEF TurnInv, Safe
<1>12. \A k \in Handler : TurnInv(turn'[k], clock', stamp', stored', asked', forced')
  BY <1>1, <1>7, <1>8, <1>11, TurnsKept
<1> QED BY <1>7, <1>8, <1>12, GrowStep DEF Refresh

LEMMA StoreAnalysisKeeps ==
  ASSUME IInv, NEW h \in Handler, StoreAnalysis(h)
  PROVE  IInv'
<1>1. turn[h] \in TurnState /\ turn[h] # None /\ turn[h].pc = "analyzing"
  BY TurnFields DEF StoreAnalysis, At, IInv
<1>2. turn[h].seen \in Nat /\ turn[h].size \in Nat BY <1>1 DEF TurnState
<1>3. turn' = [turn EXCEPT ![h] = None] BY DEF StoreAnalysis
<1>4. turn' \in [Handler -> TurnState \cup {None}] BY <1>3, TurnType DEF IInv
<1>5. analyzed' \in Nat BY <1>2 DEF StoreAnalysis
<1>6. TypeOK' BY <1>4, <1>5, QuietType DEF StoreAnalysis, IInv, TypeOK
<1>7. AnalyzedBounded'
  <2>1. turn[h].seen + turn[h].size <= Cardinality(asked) + AnalysisBatch * forced
    BY <1>1 DEF IInv, TurnInv
  <2> QED BY <2>1 DEF AnalyzedBounded, StoreAnalysis
<1>8. Grows BY Still DEF StoreAnalysis
<1>9. PagerInv' BY <1>6, <1>8, PagerGrows DEF StoreAnalysis
<1>10. Safe(stamp', summary', stored') BY DEF IInv, StoreAnalysis
<1>11. TurnInv(None, clock', stamp', stored', asked', forced') BY NoTurn
<1>12. \A k \in Handler : TurnInv(turn'[k], clock', stamp', stored', asked', forced')
  BY <1>3, <1>6, <1>8, <1>11, TurnsKept
<1> QED BY <1>6, <1>7, <1>9, <1>10, <1>12 DEF IInv

-----------------------------------------------------------------------------
(* The steps of the client. *)

(* A page leaves behind only messages no younger than its oldest: the next  *)
(* one begins with those stamped before it, and those of its own stamp are  *)
(* the ones the client never sees.  The last page leaves none.              *)
LEMMA PageCovers ==
  ASSUME NEW all \in SUBSET stored, stored \in SUBSET Message,
         stamp \in [Message -> Nat], UNCHANGED <<stored, stamp>>,
         NEW start \in SUBSET stored, NEW seen \in SUBSET stored,
         \A m \in start : m \in all \/ \E s \in seen : stamp[s] = stamp[m],
         Page(all, start, seen)
  PROVE  PagerInv'
<1>1. PICK page \in SUBSET all : \E oldest \in page :
        /\ IsNewest(page, all, Limit)
        /\ pager' = [start |-> start, seen |-> seen \cup page, cursor |-> oldest,
                     more |-> Cardinality(all) > Limit]
  BY DEF Page
<1>2. PICK oldest \in page :
        /\ IsNewest(page, all, Limit)
        /\ pager' = [start |-> start, seen |-> seen \cup page, cursor |-> oldest,
                     more |-> Cardinality(all) > Limit]
  BY <1>1
<1>3. /\ pager'.start = start /\ pager'.seen = seen \cup page /\ pager'.cursor = oldest
      /\ pager'.more = (Cardinality(all) > Limit)
  BY <1>2
<1>4. ASSUME NEW m \in start
      PROVE  (\E s \in seen \cup page : stamp[s] = stamp[m]) \/ stamp[m] < stamp[oldest]
  <2>1. CASE \E s \in seen : stamp[s] = stamp[m] BY <2>1
  <2>2. CASE m \in page BY <2>2
  <2>3. CASE m \in all \ page
    <3>1. stamp[m] <= stamp[oldest] BY <1>2, <2>3 DEF IsNewest
    <3>2. m \in Message /\ oldest \in Message BY <2>3
    <3>3. stamp[m] \in Nat /\ stamp[oldest] \in Nat BY <3>2
    <3>4. CASE stamp[m] = stamp[oldest] BY <3>4
    <3>5. CASE stamp[m] # stamp[oldest] BY <3>1, <3>3, <3>5
    <3> QED BY <3>4, <3>5
  <2> QED BY <2>1, <2>2, <2>3
<1>5. ASSUME ~(Cardinality(all) > Limit), NEW m \in start
      PROVE  \E s \in seen \cup page : stamp[s] = stamp[m]
  <2>1. all \in SUBSET Message OBVIOUS
  <2>2. IsFiniteSet(all) /\ Cardinality(all) \in Nat BY <2>1, MessagesFinite
  <2>3. Cardinality(page) = Cardinality(all)
    BY <1>2, <1>5, <2>2, ConversationAssumption DEF IsNewest, Bounded
  <2>4. page = all BY <2>2, <2>3, FS_Subset
  <2> QED BY <2>4
<1>6. /\ pager'.start \subseteq stored' /\ pager'.seen \subseteq stored'
      /\ pager'.cursor \in stored'
  BY <1>3
<1>7. \A m \in pager'.start : Met(m)' \/ stamp'[m] < stamp'[pager'.cursor]
  BY <1>3, <1>4 DEF Met
<1>8. ~pager'.more => \A m \in pager'.start : Met(m)'
  BY <1>3, <1>5 DEF Met
<1> QED BY <1>6, <1>7, <1>8 DEF PagerInv

(* Opening and turning a page leaves everything else as it was. *)
LEMMA PagerStep ==
  ASSUME IInv, pager' \in PagerState \cup {None}, PagerInv',
         UNCHANGED <<clock, stamp, stored, asked, summary, analyzed, forced, turn>>
  PROVE  IInv'
<1>1. TypeOK' BY DEF IInv, TypeOK
<1>2. AnalyzedBounded' BY DEF IInv, AnalyzedBounded
<1> QED BY <1>1, <1>2 DEF IInv

LEMMA FirstPageKeeps ==
  ASSUME IInv, FirstPage
  PROVE  IInv'
<1>1. stored \in SUBSET Message BY StoredMessages DEF IInv
<1>2. Page(stored, stored, {}) BY DEF FirstPage
<1>3. {} \in SUBSET Message OBVIOUS
<1>4. pager' \in PagerState BY <1>1, <1>2, <1>3, PageType
<1>5. UNCHANGED <<stored, stamp>> /\ stamp \in [Message -> Nat]
  BY DEF FirstPage, IInv, TypeOK
<1>6. \A m \in stored : m \in stored \/ \E s \in {} : stamp[s] = stamp[m] OBVIOUS
<1>7. PagerInv'
  <2>1. stored \in SUBSET stored /\ {} \in SUBSET stored OBVIOUS
  <2> QED BY <1>1, <1>2, <1>5, <1>6, <2>1, PageCovers
<1> QED BY <1>4, <1>7, PagerStep DEF FirstPage

LEMMA NextPageKeeps ==
  ASSUME IInv, NextPage
  PROVE  IInv'
<1>1. stored \in SUBSET Message BY StoredMessages DEF IInv
<1>2. pager \in PagerState /\ pager # None BY DEF NextPage, IInv, TypeOK
<1>3. pager.start \in SUBSET Message /\ pager.seen \in SUBSET Message BY <1>2 DEF PagerState
<1>4. Page(Before(pager.cursor), pager.start, pager.seen) BY DEF NextPage
<1>5. Before(pager.cursor) \in SUBSET stored BY DEF Before
<1>6. Before(pager.cursor) \in SUBSET Message BY <1>1, <1>5
<1>7. pager' \in PagerState BY <1>3, <1>4, <1>6, PageType
<1>8. UNCHANGED <<stored, stamp>> /\ stamp \in [Message -> Nat]
  BY DEF NextPage, IInv, TypeOK
<1>9. /\ pager.start \in SUBSET stored /\ pager.seen \in SUBSET stored
      /\ \A m \in pager.start :
           m \in Before(pager.cursor) \/ \E s \in pager.seen : stamp[s] = stamp[m]
  <2>1. /\ pager.start \in SUBSET stored /\ pager.seen \in SUBSET stored
        /\ \A m \in pager.start : Met(m) \/ stamp[m] < stamp[pager.cursor]
    BY <1>2 DEF IInv, PagerInv
  <2> QED BY <2>1 DEF Met, Before
<1>10. PagerInv' BY <1>1, <1>4, <1>5, <1>8, <1>9, PageCovers
<1> QED BY <1>7, <1>10, PagerStep DEF NextPage

LEMMA CloseHistoryKeeps ==
  ASSUME IInv, CloseHistory
  PROVE  IInv'
<1>1. PagerInv' BY DEF CloseHistory, PagerInv
<1> QED BY <1>1, PagerStep DEF CloseHistory

-----------------------------------------------------------------------------
LEMMA IInvInit == Init => IInv
<1> SUFFICES ASSUME Init PROVE IInv OBVIOUS
<1>1. TypeOK BY TypeInit
<1>2. Safe(stamp, summary, stored) BY DEF Init, Safe
<1>3. \A h \in Handler : TurnInv(turn[h], clock, stamp, stored, asked, forced) BY DEF Init, TurnInv
<1>4. AnalyzedBounded
  <2>1. AnalysisBatch * 0 \in Nat BY BatchTimes
  <2> QED BY <2>1, FS_EmptySet DEF Init, AnalyzedBounded
<1>5. PagerInv BY DEF Init, PagerInv
<1> QED BY <1>1, <1>2, <1>3, <1>4, <1>5 DEF IInv

LEMMA HandlerKeeps ==
  ASSUME IInv, NEW h \in Handler, HandlerStep(h)
  PROVE  IInv'
<1>1. CASE \E kind \in Kind : Ask(h, kind) BY <1>1, AskKeeps
<1>2. CASE Recall(h) BY <1>2, RecallKeeps
<1>3. CASE LoadWindow(h) BY <1>3, LoadWindowKeeps
<1>4. CASE ReadProfile(h) BY <1>4, ReadProfileKeeps
<1>5. CASE Answer(h) BY <1>5, AnswerKeeps
<1>6. CASE GenerateFails(h) BY <1>6, TurnEnds DEF GenerateFails
<1>7. CASE Commit(h) BY <1>7, CommitKeeps
<1>8. CASE CountMessages(h) BY <1>8, CountMessagesKeeps
<1>9. CASE LookForSummary(h) BY <1>9, LookForSummaryKeeps
<1>10. CASE ReadOldest(h) BY <1>10, ReadOldestKeeps
<1>11. CASE StoreSummary(h) BY <1>11, StoreSummaryKeeps
<1>12. CASE SummaryFails(h) BY <1>12, SummaryKept DEF SummaryFails, At
<1>13. CASE EndTurn(h) BY <1>13, TurnEnds DEF EndTurn
<1>14. CASE CheckAnalysis(h) BY <1>14, CheckAnalysisKeeps
<1>15. CASE \E force \in BOOLEAN : Refresh(h, force) BY <1>15, RefreshKeeps
<1>16. CASE StoreAnalysis(h) BY <1>16, StoreAnalysisKeeps
<1>17. CASE AnalysisFails(h) BY <1>17, TurnEnds DEF AnalysisFails
<1> QED BY <1>1, <1>2, <1>3, <1>4, <1>5, <1>6, <1>7, <1>8, <1>9, <1>10, <1>11, <1>12,
           <1>13, <1>14, <1>15, <1>16, <1>17 DEF HandlerStep

LEMMA IInvNext == IInv /\ [Next]_vars => IInv'
<1> SUFFICES ASSUME IInv, [Next]_vars PROVE IInv' OBVIOUS
<1>1. CASE \E h \in Handler : HandlerStep(h) BY <1>1, HandlerKeeps
<1>2. CASE Refuse BY <1>2, RefuseKeeps
<1>3. CASE Intervene BY <1>3, InterveneKeeps
<1>4. CASE ExpireSummary BY <1>4, ExpireSummaryKeeps
<1>5. CASE FirstPage BY <1>5, FirstPageKeeps
<1>6. CASE NextPage BY <1>6, NextPageKeeps
<1>7. CASE CloseHistory BY <1>7, CloseHistoryKeeps
<1>8. CASE UNCHANGED vars
  <2>1. UNCHANGED <<clock, stamp, stored, asked, summary, analyzed, forced, turn>>
    BY <1>8 DEF vars
  <2>2. pager' = pager BY <1>8 DEF vars
  <2>3. pager' \in PagerState \cup {None} BY <2>2 DEF IInv, TypeOK
  <2>4. PagerInv' BY <2>1, <2>2 DEF IInv, PagerInv, Met
  <2> QED BY <2>1, <2>3, <2>4, PagerStep
<1> QED BY <1>1, <1>2, <1>3, <1>4, <1>5, <1>6, <1>7, <1>8 DEF Next

LEMMA IInvAlways == Spec => []IInv
BY IInvInit, IInvNext, PTL DEF Spec

-----------------------------------------------------------------------------
(* Every variable keeps its type; in particular no message is stored under  *)
(* a stamp that was not given out, and a summary names stored messages.     *)
THEOREM ConversationTypeOK == Spec => []TypeOK
<1>1. IInv => TypeOK BY DEF IInv
<1> QED BY <1>1, IInvAlways, PTL

(* load_context never puts a message in a prompt twice, unless three        *)
(* messages of its millisecond were flushed: whatever the number of turns   *)
(* and the sizes, provided Threshold >= Batch + Window, and whatever the    *)
(* order in which the database returns messages of one millisecond.         *)
THEOREM NothingRepeated == Spec => []PromptsSound
<1>1. IInv => NoDoubleContext
  BY DEF IInv, TurnInv, NoDoubleContext, At, Twins, Sharing
<1>2. IInv => PromptsSound BY <1>1 DEF IInv, PromptsSound
<1> QED BY <1>2, IInvAlways, PTL

(* get_messages: a message that was there when a walk to the first page     *)
(* began, and that the walk misses, has the created_at of one it saw,       *)
(* whatever commits meanwhile, whatever the page size and the stamps.       *)
THEOREM HistoryCovered == Spec => []PagesCoverHistory
<1>1. IInv => PagesCoverHistory BY DEF IInv, PagerInv, PagesCoverHistory, Met
<1> QED BY <1>1, IInvAlways, PTL

(* should_analyze and analyze_message_batch: messages_analyzed is ahead of  *)
(* the owner's messages by no more than a batch for every forced refresh,   *)
(* whatever analyses overlap.                                               *)
THEOREM CounterBounded == Spec => []AnalyzedBounded
<1>1. IInv => AnalyzedBounded BY DEF IInv
<1> QED BY <1>1, IInvAlways, PTL

-----------------------------------------------------------------------------
(* VoiceCall: CallsSound for every number of recordings and of chunks in   *)
(* them, of faces, texts and cancellations, and any wire. The frames of a  *)
(* recording are marks: its start, its chunks and its end; InOrder says    *)
(* how the marks on the wire, and the one the client would send next,      *)
(* follow one another, Expected what that leaves for the handler to hear   *)
(* where it is, and NoSooner that what comes is never earlier than what    *)
(* was heard or answered. Pictured says that an announcement is followed   *)
(* by its picture at once.                                                 *)

Stops == {"final", "cancel"}
Marks == {"start", "chunk"} \cup Stops
Frames == [kind : Marks \cup {"last", "face_frame", "jpeg", "message", "disconnect"}, of : Nat]
CallTurns == {"audio", "text"} \X Nat
Waits == {"auth", "outer", "recording", "single", "face", "transcribe", "hear", "generate",
          "speak", "failed", "gone"}
Sockets == [at : Waits, turn : CallTurns \cup {<<>>}, audio : Seq(Frames), thread : Nat, in : Nat]
Views == [rec : Nat, made : Nat, due : SUBSET Nat, up : BOOLEAN]
Replies == [turn : CallTurns, answer : {"done", "empty", "error"}, in : Nat]
Counts == [{"chunk", "face", "text", "cancel"} -> Nat]

CallType ==
  /\ view \in Views /\ (view.rec # 0 => view.rec = view.made) /\ callLeft \in Counts
  /\ wire \in Seq(Frames) /\ socket \in Sockets /\ callThreads \in Nat
  /\ spoken \subseteq CallTurns \X Nat /\ answered \in Seq(Replies)
  /\ faces \in [sent : SUBSET Nat, done : SUBSET Nat, heard : SUBSET Nat]

-----------------------------------------------------------------------------
(* The recordings on the wire.                                              *)

\* The mark the client sends next: more of the recording, or the start of another.
Due == IF view.rec # 0 THEN Frame("chunk", view.rec) ELSE Frame("start", view.made + 1)
Places == 1..(Len(wire) + 1)
Ahead(i) == IF i <= Len(wire) THEN wire[i] ELSE Due
IsMark(f) == f.kind \in Marks

\* What may come next after a mark: a start after a stop, the rest in its recording.
Follows(f, g) ==
  IF g.kind = "start" THEN f.kind \in Stops /\ f.of < g.of
  ELSE f.kind \in {"start", "chunk"} /\ f.of = g.of

InOrder ==
  \A i, j \in Places :
    i < j /\ IsMark(Ahead(i)) /\ IsMark(Ahead(j)) =>
      /\ Ahead(i).of <= Ahead(j).of
      /\ (\A k \in Places : i < k /\ k < j => ~IsMark(Ahead(k))) => Follows(Ahead(i), Ahead(j))

FirstMark(j) ==
  j \in Places /\ IsMark(Ahead(j)) /\ \A i \in Places : i < j => ~IsMark(Ahead(i))

\* A recording the handler hears is not over on the wire; one whose audio is due is.
Expected ==
  \A j \in Places : FirstMark(j) =>
    /\ socket.at = "recording" => Ahead(j).kind # "start" /\ Ahead(j).of = socket.turn[2]
    /\ socket.at = "single" => Ahead(j).kind = "start"

Spoken(t) == t # <<>> /\ t[1] = "audio"

Voiced(n) ==
  \/ Spoken(socket.turn) /\ n = socket.turn[2]
  \/ \E a \in DOMAIN answered : Spoken(answered[a].turn) /\ n = answered[a].turn[2]

\* No recording is heard, or answered, that is later than what comes.
NoSooner == \A n \in Nat : Voiced(n) => \A j \in Places : IsMark(Ahead(j)) => n <= Ahead(j).of

AnswersOrdered ==
  /\ \A a, b \in DOMAIN answered :
       a < b /\ Spoken(answered[a].turn) /\ Spoken(answered[b].turn) =>
         answered[a].turn[2] <= answered[b].turn[2]
  /\ \A a \in DOMAIN answered :
       Spoken(answered[a].turn) /\ Spoken(socket.turn) =>
         answered[a].turn[2] <= socket.turn[2]

-----------------------------------------------------------------------------
(* The handler, and the pictures.                                           *)

Hearing ==
  /\ socket.at \in {"recording", "single", "transcribe"} => Spoken(socket.turn)
  /\ socket.at \in {"hear", "generate", "speak"} => socket.turn # <<>>
  /\ socket.at \in {"auth", "outer", "single", "face"} => socket.audio = <<>>
  /\ socket.at = "auth" => wire = <<>>
  /\ socket.at \in {"recording", "transcribe"} =>
       \A i \in DOMAIN socket.audio :
         socket.audio[i].kind = "chunk" => socket.audio[i].of = socket.turn[2]

Stored ==
  /\ \A h \in spoken : h[1][1] = "audio" => h[2] = socket.thread /\ socket.thread # 0
  /\ socket.at = "generate" => socket.in # 0 /\ (socket.thread # 0 => socket.in = socket.thread)
  /\ socket.at = "speak" => <<socket.turn, socket.in>> \in spoken
  /\ \A a \in DOMAIN answered :
       answered[a].answer = "done" => <<answered[a].turn, answered[a].in>> \in spoken
  /\ \A h \in spoken :
       \/ \E a \in DOMAIN answered : answered[a].turn = h[1]
       \/ socket.at = "speak" /\ socket.turn = h[1]
       \/ socket.at \in {"failed", "gone"}

\* A picture follows its announcement at once, and what waits for one gets it.
Pictured ==
  /\ \A i \in 1..Len(wire) : wire[i].kind = "face_frame" =>
       i < Len(wire) /\ wire[i + 1] = Frame("jpeg", wire[i].of)
  /\ \A i \in 1..Len(wire) : wire[i].kind = "jpeg" =>
       /\ wire[i].of \in faces.sent
       /\ i = 1 => socket.at \in {"outer", "face", "recording", "failed", "gone"}
       /\ i > 1 => wire[i - 1].kind = "face_frame"
  /\ socket.at = "face" => wire # <<>> /\ wire[1].kind = "jpeg"
  /\ faces.done \cup faces.heard \subseteq faces.sent
  /\ \A n \in faces.sent :
       \/ n \in faces.done \cup faces.heard \/ socket.at \in {"failed", "gone"}
       \/ \E i \in 1..Len(wire) : wire[i] = Frame("jpeg", n)

CallInv ==
  /\ CallType /\ InOrder /\ Expected /\ NoSooner /\ AnswersOrdered /\ Hearing /\ Stored
  /\ Pictured

-----------------------------------------------------------------------------
(* What the wire says after a step.                                         *)

LEMMA DueIs == ASSUME CallType PROVE Due \in Frames /\ IsMark(Due) /\ Len(wire) \in Nat
BY DEF CallType, Views, Due, Frame, Frames, Marks, IsMark

LEMMA AheadIs ==
  ASSUME CallType
  PROVE  /\ \A i \in Places : Ahead(i) \in Frames
         /\ \A i \in 1..Len(wire) : i \in Places /\ Ahead(i) = wire[i] /\ wire[i] \in Frames
         /\ Len(wire) + 1 \in Places /\ Ahead(Len(wire) + 1) = Due
<1>1. wire \in Seq(Frames)
  BY DEF CallType
<1>2. \A i \in 1..Len(wire) : wire[i] \in Frames
  BY <1>1
<1> QED BY <1>2, DueIs DEF Places, Ahead

LEMMA AheadTyped ==
  ASSUME CallType' PROVE Due' \in Frames /\ IsMark(Due') /\ \A i \in Places' : Ahead(i)' \in Frames
<1>1. Due' \in Frames /\ IsMark(Due')
  BY DEF CallType, Views, Due, Frame, Frames, Marks, IsMark
<1>2. wire' \in Seq(Frames) /\ Len(wire') \in Nat
  BY DEF CallType
<1>3. \A i \in Places' : Ahead(i)' = IF i <= Len(wire') THEN wire'[i] ELSE Due'
  BY DEF Ahead
<1>4. \A i \in Places' : i \in 1..Len(wire') \/ i = Len(wire') + 1
  BY <1>2 DEF Places
<1>5. \A i \in 1..Len(wire') : wire'[i] \in Frames
  BY <1>2
<1> QED BY <1>1, <1>2, <1>3, <1>4, <1>5

\* Frame by frame, for wire' as for wire.
LEMMA Shifted ==
  ASSUME CallType, wire # <<>>, wire' = Tail(wire), view' = view
  PROVE  /\ wire' \in Seq(Frames) /\ Len(wire) > 0 /\ Head(wire) = wire[1] /\ Len(wire') = Len(wire) - 1
         /\ \A i \in 1..Len(wire') : i + 1 \in 1..Len(wire) /\ wire'[i] = wire[i + 1]
         /\ \A i \in Places' : i + 1 \in Places /\ Ahead(i)' = Ahead(i + 1)
         /\ \A k \in Places : k > 1 => k - 1 \in Places'
<1>1. wire \in Seq(Frames) /\ Len(wire) \in Nat
  BY DEF CallType
<1>2. /\ wire' \in Seq(Frames) /\ Len(wire) > 0 /\ Head(wire) = wire[1]
      /\ Len(wire') = Len(wire) - 1 /\ \A i \in 1..Len(wire') : wire'[i] = wire[i + 1]
  BY <1>1, HeadTailProperties
<1>3. Due' = Due
  BY DEF Due
<1> QED BY <1>1, <1>2, <1>3 DEF Places, Ahead

LEMMA TailInOrder ==
  ASSUME CallType, InOrder, \A i \in Places' : i + 1 \in Places /\ Ahead(i)' = Ahead(i + 1),
         \A k \in Places : k > 1 => k - 1 \in Places'
  PROVE  InOrder'
<1> SUFFICES ASSUME NEW i \in Places', NEW j \in Places', i < j,
                    IsMark(Ahead(i)'), IsMark(Ahead(j)')
             PROVE  /\ Ahead(i)'.of <= Ahead(j)'.of
                    /\ (\A k \in Places' : i < k /\ k < j => ~IsMark(Ahead(k)')) =>
                         Follows(Ahead(i)', Ahead(j)')
  BY DEF InOrder, IsMark, Follows
<1>1. /\ i + 1 \in Places /\ j + 1 \in Places /\ i + 1 < j + 1
      /\ Ahead(i)' = Ahead(i + 1) /\ Ahead(j)' = Ahead(j + 1)
  BY DEF Places
<1>2. Ahead(i)'.of <= Ahead(j)'.of
  BY <1>1 DEF InOrder
<1>3. ASSUME \A k \in Places' : i < k /\ k < j => ~IsMark(Ahead(k)')
      PROVE  \A k \in Places : i + 1 < k /\ k < j + 1 => ~IsMark(Ahead(k))
  <2> SUFFICES ASSUME NEW k \in Places, i + 1 < k, k < j + 1 PROVE ~IsMark(Ahead(k))
    OBVIOUS
  <2>1. k - 1 \in Places' /\ i < k - 1 /\ k - 1 < j /\ (k - 1) + 1 = k
    BY DEF Places
  <2> QED BY <1>3, <2>1
<1> QED BY <1>1, <1>2, <1>3 DEF InOrder

\* The first mark of the tail follows the mark that was received, or was the first already.
LEMMA FirstNext ==
  ASSUME CallType, InOrder, \A i \in Places' : i + 1 \in Places /\ Ahead(i)' = Ahead(i + 1),
         \A k \in Places : k > 1 => k - 1 \in Places', NEW j \in Places', FirstMark(j)'
  PROVE  /\ 1 \in Places /\ j + 1 \in Places /\ Ahead(j)' = Ahead(j + 1)
         /\ IsMark(Ahead(1)) => Follows(Ahead(1), Ahead(j)') /\ FirstMark(1)
         /\ ~IsMark(Ahead(1)) => FirstMark(j + 1)
<1>1. /\ 1 \in Places /\ j + 1 \in Places /\ 1 < j + 1 /\ Ahead(j)' = Ahead(j + 1)
      /\ IsMark(Ahead(j + 1))
  BY AheadIs, DueIs DEF Places, FirstMark
<1>2. ASSUME NEW k \in Places, 1 < k, k < j + 1 PROVE ~IsMark(Ahead(k))
  <2>1. k - 1 \in Places' /\ k - 1 < j /\ (k - 1) + 1 = k
    BY <1>2 DEF Places
  <2>2. ~IsMark(Ahead(k - 1)')
    BY <2>1 DEF FirstMark
  <2> QED BY <2>1, <2>2
<1>3. CASE IsMark(Ahead(1))
  <2>1. Follows(Ahead(1), Ahead(j + 1))
    BY <1>1, <1>2, <1>3 DEF InOrder
  <2>2. FirstMark(1)
    BY <1>1, <1>3 DEF FirstMark, Places
  <2> QED BY <1>1, <1>3, <2>1, <2>2
<1>4. CASE ~IsMark(Ahead(1))
  <2>1. \A k \in Places : k < j + 1 => k = 1 \/ 1 < k
    BY DEF Places
  <2>2. FirstMark(j + 1)
    BY <1>1, <1>2, <1>4, <2>1 DEF FirstMark
  <2> QED BY <1>1, <1>4, <2>2
<1> QED BY <1>3, <1>4

\* What a frame more makes of it.
LEMMA Grown ==
  ASSUME CallType, NEW g \in Frames, wire' = Append(wire, g)
  PROVE  /\ wire' \in Seq(Frames) /\ Len(wire') = Len(wire) + 1
         /\ \A i \in 1..Len(wire) : wire'[i] = wire[i] /\ i \in Places /\ i \in Places'
                                     /\ Ahead(i)' = Ahead(i) /\ Ahead(i) = wire[i]
         /\ wire'[Len(wire) + 1] = g
         /\ \A n : n = Len(wire) + 1 => n \in Places' /\ Ahead(n)' = g
         /\ \A n : n = Len(wire) + 2 => n \in Places' /\ Ahead(n)' = Due'
         /\ \A i \in Places' : i \in 1..Len(wire) \/ i = Len(wire) + 1 \/ i = Len(wire) + 2
<1>1. wire \in Seq(Frames) /\ Len(wire) \in Nat
  BY DEF CallType
<1>2. /\ wire' \in Seq(Frames) /\ Len(wire') = Len(wire) + 1
      /\ (\A i \in 1..Len(wire) : wire'[i] = wire[i]) /\ wire'[Len(wire) + 1] = g
  BY <1>1, AppendProperties
<1> QED BY <1>1, <1>2 DEF Places, Ahead

\* The next mark is the one that was due, or the stop in its place, and what is due after it
\* may follow it.
LEMMA MarkSent ==
  ASSUME CallType, InOrder, NEW g \in Frames, wire' = Append(wire, g), IsMark(g), Due' \in Frames,
         g.of = Due.of, g.kind = "start" <=> Due.kind = "start",
         IsMark(Due'), g.of <= Due'.of, Follows(g, Due')
  PROVE  /\ InOrder'
         /\ \A j \in Places' : IsMark(Ahead(j)') =>
              \E k \in Places : IsMark(Ahead(k)) /\ Ahead(k).of <= Ahead(j)'.of
         /\ \A j \in Places' : FirstMark(j)' =>
              \E k \in Places : /\ FirstMark(k) /\ Ahead(k).of = Ahead(j)'.of
                                /\ Ahead(k).kind = "start" <=> Ahead(j)'.kind = "start"
<1>0. PICK L \in Nat : L = Len(wire)
  BY DueIs
<1>1. /\ L \in Nat /\ Due \in Frames /\ IsMark(Due) /\ Due.of \in Nat /\ g.of \in Nat
      /\ Due'.of \in Nat /\ L + 1 \in Places /\ Ahead(L + 1) = Due
  BY <1>0, DueIs, AheadIs DEF Frames
<1>2. /\ \A i \in 1..L : i \in Places /\ i \in Places' /\ Ahead(i)' = Ahead(i)
      /\ L + 1 \in Places' /\ Ahead(L + 1)' = g
      /\ L + 2 \in Places' /\ Ahead(L + 2)' = Due'
      /\ \A i \in Places' : i \in 1..L \/ i = L + 1 \/ i = L + 2
  BY <1>0, Grown
<1>3. \A i \in Places : i \in 1..L \/ i = L + 1
  BY <1>0 DEF Places
<1>4. \A i \in 1..L : Ahead(i).of \in Nat
  BY <1>2, AheadIs DEF Frames
<1>5. InOrder'
  <2> SUFFICES ASSUME NEW i \in Places', NEW j \in Places', i < j,
                      IsMark(Ahead(i)'), IsMark(Ahead(j)')
               PROVE  /\ Ahead(i)'.of <= Ahead(j)'.of
                      /\ (\A k \in Places' : i < k /\ k < j => ~IsMark(Ahead(k)')) =>
                           Follows(Ahead(i)', Ahead(j)')
    BY DEF InOrder, IsMark, Follows
  <2>1. CASE j \in 1..L
    <3>1. i \in 1..L
      BY <1>1, <1>2, <2>1
    <3>2. Ahead(i)' = Ahead(i) /\ Ahead(j)' = Ahead(j) /\ i \in Places /\ j \in Places
      BY <1>2, <2>1, <3>1
    <3>3. \A k \in Places : i < k /\ k < j => k \in 1..L
      BY <1>1, <1>3, <2>1
    <3> QED BY <1>2, <3>2, <3>3 DEF InOrder
  <2>2. CASE j = L + 1
    <3>1. i \in 1..L
      BY <1>1, <1>2, <2>2
    <3>2. Ahead(i)' = Ahead(i) /\ Ahead(j)' = g /\ i \in Places /\ i < L + 1
      BY <1>1, <1>2, <2>2, <3>1
    <3>3. Ahead(i).of <= Due.of
      BY <1>1, <3>2 DEF InOrder
    <3>4. ASSUME \A k \in Places' : i < k /\ k < j => ~IsMark(Ahead(k)')
          PROVE  Follows(Ahead(i), Due)
      <4>1. \A k \in Places : i < k /\ k < L + 1 => k \in 1..L
        BY <1>1, <1>3
      <4>2. \A k \in Places : i < k /\ k < L + 1 => ~IsMark(Ahead(k))
        BY <1>2, <2>2, <3>4, <4>1
      <4> QED BY <1>1, <3>2, <4>2 DEF InOrder
    <3>5. Follows(Ahead(i), Due) => Follows(Ahead(i), g)
      BY DEF Follows
    <3> QED BY <3>2, <3>3, <3>4, <3>5
  <2>3. CASE j = L + 2
    <3>1. CASE i = L + 1
      BY <1>2, <2>3, <3>1
    <3>2. CASE i \in 1..L
      <4>1. Ahead(i)' = Ahead(i) /\ Ahead(j)' = Due' /\ i \in Places /\ i < L + 1
        BY <1>1, <1>2, <2>3, <3>2
      <4>2. Ahead(i).of <= Due.of
        BY <1>1, <4>1 DEF InOrder
      <4>3. Ahead(i).of <= Due'.of
        BY <1>1, <1>4, <3>2, <4>2
      <4>4. L + 1 \in Places' /\ i < L + 1 /\ L + 1 < j /\ IsMark(Ahead(L + 1)')
        BY <1>1, <1>2, <2>3, <4>1
      <4> QED BY <4>1, <4>3, <4>4
    <3> QED BY <1>1, <1>2, <2>3, <3>1, <3>2
  <2> QED BY <1>2, <2>1, <2>2, <2>3
<1>6. ASSUME NEW j \in Places', IsMark(Ahead(j)')
      PROVE  \E k \in Places : IsMark(Ahead(k)) /\ Ahead(k).of <= Ahead(j)'.of
  <2>1. CASE j \in 1..L
    BY <1>2, <1>4, <1>6, <2>1
  <2>2. CASE j = L + 1
    BY <1>1, <1>2, <2>2
  <2>3. CASE j = L + 2
    BY <1>1, <1>2, <2>3
  <2> QED BY <1>2, <2>1, <2>2, <2>3
<1>7. ASSUME NEW j \in Places', FirstMark(j)'
      PROVE  \E k \in Places : /\ FirstMark(k) /\ Ahead(k).of = Ahead(j)'.of
                               /\ Ahead(k).kind = "start" <=> Ahead(j)'.kind = "start"
  <2>0. IsMark(Ahead(j)') /\ \A i \in Places' : i < j => ~IsMark(Ahead(i)')
    BY <1>7 DEF FirstMark, IsMark
  <2>1. CASE j \in 1..L
    <3>1. \A i \in Places : i < j => i \in 1..L
      BY <1>1, <1>3, <2>1
    <3>2. FirstMark(j) /\ Ahead(j)' = Ahead(j) /\ j \in Places
      BY <1>2, <2>0, <2>1, <3>1 DEF FirstMark
    <3> QED BY <3>2
  <2>2. CASE j = L + 1
    <3>1. \A i \in Places : i < L + 1 => i \in 1..L /\ i \in Places' /\ i < j
      BY <1>1, <1>2, <1>3, <2>2
    <3>2. FirstMark(L + 1)
      BY <1>1, <1>2, <2>0, <3>1 DEF FirstMark
    <3> QED BY <1>1, <1>2, <2>2, <3>2
  <2>3. CASE j = L + 2
    BY <1>1, <1>2, <2>0, <2>3
  <2> QED BY <1>2, <2>1, <2>2, <2>3
<1> QED BY <1>5, <1>6, <1>7

\* Frames that are no marks leave the marks as they are.
LEMMA OtherSent ==
  ASSUME CallType, InOrder, wire' \in Seq(Frames), Len(wire') >= Len(wire), Due' = Due,
         \A i \in 1..Len(wire) : wire'[i] = wire[i],
         \A i \in Len(wire) + 1 .. Len(wire') : ~IsMark(wire'[i])
  PROVE  /\ InOrder'
         /\ \A j \in Places' : IsMark(Ahead(j)') =>
              \E k \in Places : IsMark(Ahead(k)) /\ Ahead(k).of <= Ahead(j)'.of
         /\ \A j \in Places' : FirstMark(j)' =>
              \E k \in Places : /\ FirstMark(k) /\ Ahead(k).of = Ahead(j)'.of
                                /\ Ahead(k).kind = "start" <=> Ahead(j)'.kind = "start"
<1>0. PICK L \in Nat, M \in Nat : L = Len(wire) /\ M = Len(wire') /\ L <= M
  BY DueIs
<1>1. L \in Nat /\ IsMark(Due) /\ Due.of \in Nat /\ L + 1 \in Places /\ Ahead(L + 1) = Due
  BY <1>0, DueIs, AheadIs DEF Frames
<1>2. /\ \A i \in 1..L : i \in Places /\ i \in Places' /\ Ahead(i)' = Ahead(i)
      /\ M + 1 \in Places' /\ Ahead(M + 1)' = Due
      /\ \A i \in L + 1 .. M : ~IsMark(Ahead(i)')
      /\ \A i \in Places' : i \in 1..L \/ i \in L + 1 .. M \/ i = M + 1
  BY <1>0 DEF Places, Ahead
<1>3. \A i \in Places : i \in 1..L \/ i = L + 1
  BY <1>0 DEF Places
<1>4. \A i \in Places : Ahead(i).of \in Nat
  BY AheadIs DEF Frames
\* Where a mark of wire' was.
<1> DEFINE Was(i) == IF i = M + 1 THEN L + 1 ELSE i
<1>5. \A i \in Places' : IsMark(Ahead(i)') =>
        /\ Was(i) \in Places /\ Ahead(i)' = Ahead(Was(i)) /\ i \in 1..L \cup {M + 1}
  BY <1>1, <1>2
<1>6. \A i, j \in 1..L \cup {M + 1} : i < j <=> Was(i) < Was(j)
  BY <1>0
<1>7. ASSUME NEW k \in Places
      PROVE  \E i \in Places' : i \in 1..L \cup {M + 1} /\ Was(i) = k /\ Ahead(i)' = Ahead(k)
  <2>1. CASE k \in 1..L
    BY <1>0, <1>2, <2>1
  <2>2. CASE k = L + 1
    BY <1>1, <1>2, <2>2
  <2> QED BY <1>3, <2>1, <2>2
<1> HIDE DEF Was
<1>8. InOrder'
  <2> SUFFICES ASSUME NEW i \in Places', NEW j \in Places', i < j,
                      IsMark(Ahead(i)'), IsMark(Ahead(j)')
               PROVE  /\ Ahead(i)'.of <= Ahead(j)'.of
                      /\ (\A k \in Places' : i < k /\ k < j => ~IsMark(Ahead(k)')) =>
                           Follows(Ahead(i)', Ahead(j)')
    BY DEF InOrder, IsMark, Follows
  <2>1. /\ Was(i) \in Places /\ Was(j) \in Places /\ Was(i) < Was(j) /\ {i, j} \subseteq 1..L \cup {M + 1}
        /\ Ahead(i)' = Ahead(Was(i)) /\ Ahead(j)' = Ahead(Was(j))
    BY <1>2, <1>5, <1>6
  <2>2. ASSUME \A k \in Places' : i < k /\ k < j => ~IsMark(Ahead(k)')
        PROVE  \A k \in Places : Was(i) < k /\ k < Was(j) => ~IsMark(Ahead(k))
    <3> SUFFICES ASSUME NEW k \in Places, Was(i) < k, k < Was(j) PROVE ~IsMark(Ahead(k))
      OBVIOUS
    <3>1. PICK n \in Places' : n \in 1..L \cup {M + 1} /\ Was(n) = k /\ Ahead(n)' = Ahead(k)
      BY <1>7
    <3>2. i < n /\ n < j
      BY <1>6, <2>1, <3>1
    <3> QED BY <2>2, <3>1, <3>2
  <2> QED BY <2>1, <2>2 DEF InOrder
<1>9. ASSUME NEW j \in Places', IsMark(Ahead(j)')
      PROVE  \E k \in Places : IsMark(Ahead(k)) /\ Ahead(k).of <= Ahead(j)'.of
  BY <1>4, <1>5, <1>9
<1>10. ASSUME NEW j \in Places', FirstMark(j)'
       PROVE  \E k \in Places : /\ FirstMark(k) /\ Ahead(k).of = Ahead(j)'.of
                                /\ Ahead(k).kind = "start" <=> Ahead(j)'.kind = "start"
  <2>1. IsMark(Ahead(j)') /\ \A i \in Places' : i < j => ~IsMark(Ahead(i)')
    BY <1>10 DEF FirstMark, IsMark
  <2>2. Was(j) \in Places /\ Ahead(j)' = Ahead(Was(j)) /\ j \in 1..L \cup {M + 1}
    BY <1>2, <1>5, <2>1
  <2>3. ASSUME NEW k \in Places, k < Was(j) PROVE ~IsMark(Ahead(k))
    <3>1. PICK n \in Places' : n \in 1..L \cup {M + 1} /\ Was(n) = k /\ Ahead(n)' = Ahead(k)
      BY <1>7
    <3>2. n < j
      BY <1>6, <2>2, <2>3, <3>1
    <3> QED BY <2>1, <3>1, <3>2
  <2>4. FirstMark(Was(j))
    BY <2>1, <2>2, <2>3 DEF FirstMark
  <2> QED BY <2>2, <2>4
<1> QED BY <1>8, <1>9, <1>10

\* What is expected of the wire goes on being so when the client sends: marks are at least
\* the marks there were, and the first of them is what it was.
LEMMA ExpectedStays ==
  ASSUME CallType, CallType', Expected, NoSooner, socket' = socket, answered' = answered,
         \A j \in Places' : IsMark(Ahead(j)') =>
           \E k \in Places : IsMark(Ahead(k)) /\ Ahead(k).of <= Ahead(j)'.of,
         \A j \in Places' : FirstMark(j)' =>
           \E k \in Places : /\ FirstMark(k) /\ Ahead(k).of = Ahead(j)'.of
                             /\ Ahead(k).kind = "start" <=> Ahead(j)'.kind = "start"
  PROVE  Expected' /\ NoSooner'
<1>1. Expected'
  BY DEF Expected
<1>2. NoSooner'
  <2> SUFFICES ASSUME NEW n \in Nat, Voiced(n)', NEW j \in Places', IsMark(Ahead(j)')
               PROVE  n <= Ahead(j)'.of
    BY DEF NoSooner, IsMark
  <2>1. PICK k \in Places : IsMark(Ahead(k)) /\ Ahead(k).of <= Ahead(j)'.of
    OBVIOUS
  <2>2. n <= Ahead(k).of
    BY <2>1 DEF Voiced, NoSooner
  <2>3. Ahead(k).of \in Nat /\ Ahead(j)'.of \in Nat
    <3>1. Ahead(k) \in Frames
      BY AheadIs
    <3>2. Ahead(j)' \in Frames
      BY AheadTyped
    <3> QED BY <3>1, <3>2 DEF Frames
  <2> QED BY <2>1, <2>2, <2>3
<1> QED BY <1>1, <1>2

-----------------------------------------------------------------------------
(* Where the handler is after a step, field by field.                       *)

Waiting(c, at) == [c EXCEPT !.at = at]
Turned(c, at, t) == [c EXCEPT !.at = at, !.turn = t]
Hears(c, f) == [c EXCEPT !.audio = Append(@, f)]
HearsOnly(c, f) == [c EXCEPT !.audio = <<f>>, !.at = "transcribe"]
Generating(c, in) == [c EXCEPT !.at = "generate", !.in = in]
Speaking(c, thread) == [c EXCEPT !.at = "speak", !.thread = thread]

LEMMA WaitingIs ==
  ASSUME NEW c \in Sockets, NEW at \in Waits
  PROVE  /\ Waiting(c, at) \in Sockets /\ Waiting(c, at).at = at
         /\ Waiting(c, at).turn = c.turn /\ Waiting(c, at).audio = c.audio
         /\ Waiting(c, at).thread = c.thread /\ Waiting(c, at).in = c.in
BY DEF Waiting, Sockets

LEMMA OuterIs ==
  ASSUME NEW c \in Sockets
  PROVE  /\ Outer(c) \in Sockets /\ Outer(c).at = "outer" /\ Outer(c).turn = <<>>
         /\ Outer(c).audio = <<>> /\ Outer(c).thread = c.thread /\ Outer(c).in = 0
<1>1. "outer" \in Waits /\ <<>> \in Seq(Frames) /\ 0 \in Nat
  BY DEF Waits
<1> QED BY <1>1, Zenon DEF Outer, Sockets

LEMMA TurnedIs ==
  ASSUME NEW c \in Sockets, NEW at \in Waits, NEW t \in CallTurns
  PROVE  /\ Turned(c, at, t) \in Sockets /\ Turned(c, at, t).at = at
         /\ Turned(c, at, t).turn = t /\ Turned(c, at, t).audio = c.audio
         /\ Turned(c, at, t).thread = c.thread /\ Turned(c, at, t).in = c.in
BY Zenon DEF Turned, Sockets

LEMMA HearsIs ==
  ASSUME NEW c \in Sockets, NEW f \in Frames
  PROVE  /\ Hears(c, f) \in Sockets /\ Hears(c, f).at = c.at /\ Hears(c, f).turn = c.turn
         /\ Hears(c, f).audio = Append(c.audio, f)
         /\ Hears(c, f).thread = c.thread /\ Hears(c, f).in = c.in
<1>1. Append(c.audio, f) \in Seq(Frames)
  BY DEF Sockets
<1> QED BY <1>1, Zenon DEF Hears, Sockets

LEMMA HearsOnlyIs ==
  ASSUME NEW c \in Sockets, NEW f \in Frames
  PROVE  /\ HearsOnly(c, f) \in Sockets /\ HearsOnly(c, f).at = "transcribe"
         /\ HearsOnly(c, f).turn = c.turn /\ HearsOnly(c, f).audio = <<f>>
         /\ HearsOnly(c, f).thread = c.thread /\ HearsOnly(c, f).in = c.in
<1>1. <<f>> \in Seq(Frames) /\ "transcribe" \in Waits
  BY DEF Waits
<1> QED BY <1>1, Zenon DEF HearsOnly, Sockets

LEMMA GeneratingIs ==
  ASSUME NEW c \in Sockets, NEW in \in Nat
  PROVE  /\ Generating(c, in) \in Sockets /\ Generating(c, in).at = "generate"
         /\ Generating(c, in).turn = c.turn /\ Generating(c, in).audio = c.audio
         /\ Generating(c, in).thread = c.thread /\ Generating(c, in).in = in
<1>1. "generate" \in Waits
  BY DEF Waits
<1> QED BY <1>1, Zenon DEF Generating, Sockets

LEMMA SpeakingIs ==
  ASSUME NEW c \in Sockets, NEW thread \in Nat
  PROVE  /\ Speaking(c, thread) \in Sockets /\ Speaking(c, thread).at = "speak"
         /\ Speaking(c, thread).turn = c.turn /\ Speaking(c, thread).audio = c.audio
         /\ Speaking(c, thread).thread = thread /\ Speaking(c, thread).in = c.in
<1>1. "speak" \in Waits
  BY DEF Waits
<1> QED BY <1>1, Zenon DEF Speaking, Sockets

\* What a frame does to a handler that is not waiting for a picture.
Takes(f) ==
  \/ /\ socket.at = "outer" /\ f.kind = "start"
     /\ socket' = Turned(socket, "recording", <<"audio", f.of>>)
  \/ /\ socket.at = "outer" /\ f.kind = "final"
     /\ socket' = Turned(socket, "single", <<"audio", f.of>>)
  \/ /\ socket.at = "outer" /\ f.kind = "face_frame" /\ socket' = Waiting(socket, "face")
  \/ /\ socket.at = "outer" /\ f.kind = "message"
     /\ socket' = Turned(socket, "hear", <<"text", f.of>>)
  \/ \E at \in {"failed", "gone"} : socket' = Waiting(socket, at)
  \/ socket.at = "outer" /\ f.kind = "cancel" /\ socket' = socket
  \/ /\ socket.at = "recording" /\ f.kind \in {"start", "face_frame", "message"}
     /\ socket' = socket
  \/ socket.at = "recording" /\ f.kind \in Binary /\ socket' = Hears(socket, f)
  \/ /\ socket.at = "recording" /\ f.kind \in Binary \cup {"final"}
     /\ socket' = Waiting(socket, "transcribe")
  \/ socket.at \in {"recording", "single"} /\ socket' = Outer(socket)
  \/ socket.at = "single" /\ f.kind \in Binary /\ socket' = HearsOnly(socket, f)

LEMMA ListenIs ==
  ASSUME NEW f \in Frames
  PROVE  /\ f.kind = "start" => Listen(f) = Turned(socket, "recording", <<"audio", f.of>>)
         /\ f.kind = "final" => Listen(f) = Turned(socket, "single", <<"audio", f.of>>)
         /\ f.kind = "face_frame" => Listen(f) = Waiting(socket, "face")
         /\ f.kind = "message" => Listen(f) = Turned(socket, "hear", <<"text", f.of>>)
         /\ f.kind \in Binary => Listen(f) = Waiting(socket, "failed")
         /\ f.kind = "disconnect" => Listen(f) = Waiting(socket, "gone")
         /\ f.kind = "cancel" => Listen(f) = socket
<1>1. PICK a : a = Turned(socket, "recording", <<"audio", f.of>>)
  OBVIOUS
<1>2. PICK b : b = Turned(socket, "single", <<"audio", f.of>>)
  OBVIOUS
<1>3. PICK c : c = Turned(socket, "hear", <<"text", f.of>>)
  OBVIOUS
<1>4. Listen(f) =
        CASE f.kind = "start" -> a [] f.kind = "final" -> b
          [] f.kind = "face_frame" -> Waiting(socket, "face") [] f.kind = "message" -> c
          [] f.kind \in Binary -> Waiting(socket, "failed")
          [] f.kind = "disconnect" -> Waiting(socket, "gone")
          [] OTHER -> socket
  BY <1>1, <1>2, <1>3, Zenon DEF Listen, Turned, Waiting
<1> QED BY <1>1, <1>2, <1>3, <1>4 DEF Binary

LEMMA ReceiveTakes ==
  ASSUME CallType, Receive
  PROVE  Takes(Head(wire)) /\ socket.at \in {"outer", "recording", "single"}
<1>1. PICK f \in Frames : f = Head(wire)
  BY HeadTailProperties DEF CallType, Receive
<1>2. socket.at \in {"outer", "recording", "single"}
  BY DEF Receive, Receiving
<1>3. Takes(f)
  <2>1. CASE socket.at = "outer"
    <3>1. socket' = Listen(f)
      BY <1>1, <2>1 DEF Receive
    <3>2. f.kind \in Binary \cup {"start", "final", "cancel", "face_frame", "message", "disconnect"}
      BY DEF Frames, Marks, Stops, Binary
    <3> QED BY <2>1, <3>1, <3>2, ListenIs DEF Takes
  <2>2. CASE socket.at = "recording"
    <3>1. socket' = Record(f)
      BY <1>1, <2>2 DEF Receive
    <3>2. Recorded(socket) \in {Outer(socket), Waiting(socket, "transcribe")}
      BY DEF Recorded, Waiting
    <3>3. CASE f.kind \in Binary
      <4>0. PICK a : a = Hears(socket, f)
        OBVIOUS
      <4>1. Record(f) =
              CASE f.kind \in Binary -> IF Len(socket.audio) = MaxAudio THEN Recorded(socket) ELSE a
                [] f.kind = "final" -> Recorded(socket)
                [] f.kind = "cancel" -> Outer(socket)
                [] f.kind = "disconnect" -> Waiting(socket, "gone")
                [] OTHER -> socket
        BY <4>0, Zenon DEF Record, Hears, Waiting
      <4>2. Record(f) = Recorded(socket) \/ Record(f) = a
        BY <3>3, <4>1 DEF Binary
      <4> QED BY <2>2, <3>1, <3>2, <3>3, <4>0, <4>2 DEF Takes
    <3>4. CASE f.kind = "final"
      <4>1. Record(f) = Recorded(socket)
        BY <3>4 DEF Record, Binary
      <4> QED BY <2>2, <3>1, <3>2, <3>4, <4>1 DEF Takes
    <3>5. CASE f.kind = "cancel"
      <4>1. Record(f) = Outer(socket)
        BY <3>5 DEF Record, Binary
      <4> QED BY <2>2, <3>1, <4>1 DEF Takes
    <3>6. CASE f.kind = "disconnect"
      <4>1. Record(f) = Waiting(socket, "gone")
        BY <3>6 DEF Record, Binary, Waiting
      <4> QED BY <3>1, <4>1 DEF Takes
    <3>7. CASE f.kind \in {"start", "face_frame", "message"}
      <4>1. Record(f) = socket
        BY <3>7 DEF Record, Binary
      <4> QED BY <2>2, <3>1, <3>7, <4>1 DEF Takes
    <3> QED BY <3>3, <3>4, <3>5, <3>6, <3>7 DEF Frames, Marks, Stops, Binary
  <2>3. CASE socket.at = "single"
    <3>1. socket' = Single(f)
      BY <1>1, <2>3 DEF Receive
    <3>2. CASE f.kind \in Binary
      <4>0. PICK a : a = HearsOnly(socket, f)
        OBVIOUS
      <4>1. Single(f) =
              CASE f.kind \in Binary -> a
                [] f.kind = "disconnect" -> Waiting(socket, "gone")
                [] OTHER -> Outer(socket)
        BY <4>0, Zenon DEF Single, HearsOnly, Waiting
      <4>2. Single(f) = a
        BY <3>2, <4>1 DEF Binary
      <4> QED BY <2>3, <3>1, <3>2, <4>0, <4>2 DEF Takes
    <3>3. CASE f.kind = "disconnect"
      <4>1. Single(f) = Waiting(socket, "gone")
        BY <3>3 DEF Single, Binary, Waiting
      <4> QED BY <3>1, <4>1 DEF Takes
    <3>4. CASE f.kind \notin Binary \cup {"disconnect"}
      <4>1. Single(f) = Outer(socket)
        BY <3>4 DEF Single, Binary
      <4> QED BY <2>3, <3>1, <4>1 DEF Takes
    <3> QED BY <3>2, <3>3, <3>4
  <2> QED BY <1>2, <2>1, <2>2, <2>3
<1> QED BY <1>1, <1>2, <1>3

\* The same, field by field.
Taken(f) ==
  \/ /\ socket.at = "outer" /\ f.kind = "start" /\ socket'.at = "recording"
     /\ socket'.turn = <<"audio", f.of>> /\ socket'.audio = socket.audio
  \/ /\ socket.at = "outer" /\ f.kind = "final" /\ socket'.at = "single"
     /\ socket'.turn = <<"audio", f.of>> /\ socket'.audio = socket.audio
  \/ /\ socket.at = "outer" /\ f.kind = "face_frame" /\ socket'.at = "face"
     /\ socket'.turn = socket.turn /\ socket'.audio = socket.audio
  \/ /\ socket.at = "outer" /\ f.kind = "message" /\ socket'.at = "hear"
     /\ socket'.turn = <<"text", f.of>> /\ socket'.audio = socket.audio
  \/ /\ socket'.at \in {"failed", "gone"}
     /\ socket'.turn = socket.turn /\ socket'.audio = socket.audio
  \/ /\ socket.at = "outer" /\ f.kind = "cancel" /\ socket'.at = "outer"
     /\ socket'.turn = socket.turn /\ socket'.audio = socket.audio
  \/ /\ socket.at = "recording" /\ f.kind \in {"start", "face_frame", "message"}
     /\ socket'.at = "recording"
     /\ socket'.turn = socket.turn /\ socket'.audio = socket.audio
  \/ /\ socket.at = "recording" /\ f.kind \in Binary /\ socket'.at = "recording"
     /\ socket'.turn = socket.turn /\ socket'.audio = Append(socket.audio, f)
  \/ /\ socket.at = "recording" /\ f.kind \in Binary \cup {"final"} /\ socket'.at = "transcribe"
     /\ socket'.turn = socket.turn /\ socket'.audio = socket.audio
  \/ /\ socket.at \in {"recording", "single"} /\ socket'.at = "outer"
     /\ socket'.turn = <<>> /\ socket'.audio = <<>>
  \/ /\ socket.at = "single" /\ f.kind \in Binary /\ socket'.at = "transcribe"
     /\ socket'.turn = socket.turn /\ socket'.audio = <<f>>

LEMMA TakenIs ==
  ASSUME CallType, NEW f \in Frames, Takes(f)
  PROVE  Taken(f) /\ socket' \in Sockets /\ socket'.thread = socket.thread
<1>1. socket \in Sockets /\ {<<"audio", f.of>>, <<"text", f.of>>} \subseteq CallTurns
  BY DEF CallType, Frames, CallTurns
<1>2. {"recording", "single", "face", "hear", "failed", "gone", "transcribe"} \subseteq Waits
  BY DEF Waits
<1>3. CASE socket' = Turned(socket, "recording", <<"audio", f.of>>) /\ socket.at = "outer" /\ f.kind = "start"
  <2>1. PICK t \in CallTurns : t = <<"audio", f.of>>
    BY <1>1
  <2>2. socket' = Turned(socket, "recording", t) /\ "recording" \in Waits
    BY <1>2, <1>3, <2>1
  <2>3. /\ socket' \in Sockets /\ socket'.at = "recording" /\ socket'.turn = t
        /\ socket'.audio = socket.audio /\ socket'.thread = socket.thread
    BY <1>1, <2>2, TurnedIs
  <2> QED BY <1>3, <2>1, <2>3 DEF Taken
<1>4. CASE socket' = Turned(socket, "single", <<"audio", f.of>>) /\ socket.at = "outer" /\ f.kind = "final"
  <2>1. PICK t \in CallTurns : t = <<"audio", f.of>>
    BY <1>1
  <2>2. socket' = Turned(socket, "single", t) /\ "single" \in Waits
    BY <1>2, <1>4, <2>1
  <2>3. /\ socket' \in Sockets /\ socket'.at = "single" /\ socket'.turn = t
        /\ socket'.audio = socket.audio /\ socket'.thread = socket.thread
    BY <1>1, <2>2, TurnedIs
  <2> QED BY <1>4, <2>1, <2>3 DEF Taken
<1>5. CASE socket' = Turned(socket, "hear", <<"text", f.of>>) /\ socket.at = "outer" /\ f.kind = "message"
  <2>1. PICK t \in CallTurns : t = <<"text", f.of>>
    BY <1>1
  <2>2. socket' = Turned(socket, "hear", t) /\ "hear" \in Waits
    BY <1>2, <1>5, <2>1
  <2>3. /\ socket' \in Sockets /\ socket'.at = "hear" /\ socket'.turn = t
        /\ socket'.audio = socket.audio /\ socket'.thread = socket.thread
    BY <1>1, <2>2, TurnedIs
  <2> QED BY <1>5, <2>1, <2>3 DEF Taken
<1>6. CASE socket' = Waiting(socket, "face") /\ socket.at = "outer" /\ f.kind = "face_frame"
  BY <1>1, <1>2, <1>6, WaitingIs DEF Taken
<1>7. CASE \E at \in {"failed", "gone"} : socket' = Waiting(socket, at)
  <2>1. PICK at \in Waits : at \in {"failed", "gone"} /\ socket' = Waiting(socket, at)
    BY <1>2, <1>7
  <2>2. /\ socket' \in Sockets /\ socket'.at = at /\ socket'.turn = socket.turn
        /\ socket'.audio = socket.audio /\ socket'.thread = socket.thread
    BY <1>1, <2>1, WaitingIs
  <2> QED BY <2>1, <2>2 DEF Taken
<1>8. CASE socket.at = "outer" /\ f.kind = "cancel" /\ socket' = socket
  BY <1>1, <1>8 DEF Taken
<1>9. CASE socket.at = "recording" /\ f.kind \in {"start", "face_frame", "message"} /\ socket' = socket
  BY <1>1, <1>9 DEF Taken
<1>10. CASE socket.at = "recording" /\ f.kind \in Binary /\ socket' = Hears(socket, f)
  BY <1>1, <1>10, HearsIs DEF Taken
<1>11. CASE /\ socket.at = "recording" /\ f.kind \in Binary \cup {"final"}
            /\ socket' = Waiting(socket, "transcribe")
  BY <1>1, <1>2, <1>11, WaitingIs DEF Taken
<1>12. CASE socket.at \in {"recording", "single"} /\ socket' = Outer(socket)
  BY <1>1, <1>12, OuterIs DEF Taken
<1>13. CASE socket.at = "single" /\ f.kind \in Binary /\ socket' = HearsOnly(socket, f)
  BY <1>1, <1>13, HearsOnlyIs DEF Taken
<1> QED BY <1>3, <1>4, <1>5, <1>6, <1>7, <1>8, <1>9, <1>10, <1>11, <1>12, <1>13 DEF Takes

-----------------------------------------------------------------------------
(* A frame received.                                                        *)

LEMMA ReceivedMarks ==
  ASSUME CallInv, NEW f \in Frames, f = Head(wire), Taken(f), wire # <<>>, wire' = Tail(wire),
         view' = view, answered' = answered, socket.at \in {"outer", "recording", "single"},
         socket' \in Sockets
  PROVE  InOrder' /\ Expected' /\ NoSooner' /\ AnswersOrdered'
<1>1. /\ CallType /\ InOrder /\ Expected /\ NoSooner /\ AnswersOrdered /\ Hearing
  BY DEF CallInv
<1>2. /\ \A i \in Places' : i + 1 \in Places /\ Ahead(i)' = Ahead(i + 1)
      /\ \A k \in Places : k > 1 => k - 1 \in Places'
      /\ Len(wire) > 0 /\ f = wire[1]
  BY <1>1, Shifted
<1>3. 1 \in Places /\ Ahead(1) = f
  BY <1>1, <1>2, AheadIs, DueIs
<1>4. InOrder'
  BY <1>1, <1>2, TailInOrder
<1>5. Expected'
  <2> SUFFICES ASSUME NEW j \in Places', FirstMark(j)'
               PROVE  /\ socket'.at = "recording" =>
                           Ahead(j)'.kind # "start" /\ Ahead(j)'.of = socket'.turn[2]
                      /\ socket'.at = "single" => Ahead(j)'.kind = "start"
    BY DEF Expected, FirstMark
  <2>1. /\ j + 1 \in Places /\ Ahead(j)' = Ahead(j + 1)
        /\ IsMark(f) => Follows(f, Ahead(j)') /\ FirstMark(1)
        /\ ~IsMark(f) => FirstMark(j + 1)
    BY <1>1, <1>2, <1>3, FirstNext
  <2>2. CASE socket'.at = "recording" /\ socket.at = "outer"
    BY <2>1, <2>2 DEF Taken, Follows, IsMark, Marks, Stops
  <2>3. CASE socket'.at = "recording" /\ socket.at = "recording"
    <3>1. socket'.turn = socket.turn
      BY <2>3 DEF Taken
    <3>2. CASE IsMark(f)
      <4>1. f.kind # "start" /\ f.of = socket.turn[2] /\ f.kind \notin Stops
        BY <1>1, <1>3, <2>1, <2>3, <3>2 DEF Expected, Taken, Stops, Binary
      <4> QED BY <2>1, <2>3, <3>1, <3>2, <4>1 DEF Follows
    <3>3. CASE ~IsMark(f)
      BY <1>1, <2>1, <2>3, <3>1, <3>3 DEF Expected
    <3> QED BY <3>2, <3>3
  <2>4. CASE socket'.at = "single"
    <3>1. f.kind = "final"
      BY <2>4 DEF Taken
    <3> QED BY <2>1, <2>4, <3>1 DEF Follows, IsMark, Marks, Stops
  <2> QED BY <2>2, <2>3, <2>4 DEF Taken
<1>6. \A n \in Nat : Voiced(n)' => Voiced(n) \/ (IsMark(f) /\ n = f.of)
  BY DEF Voiced, Spoken, Taken, IsMark, Marks, Stops
<1>7. \A j \in Places : IsMark(f) /\ IsMark(Ahead(j)) => f.of <= Ahead(j).of
  <2> SUFFICES ASSUME NEW j \in Places, IsMark(f), IsMark(Ahead(j)) PROVE f.of <= Ahead(j).of
    OBVIOUS
  <2>1. CASE j = 1
    BY <1>3, <2>1 DEF Frames
  <2>2. CASE 1 < j
    BY <1>1, <1>3, <2>2 DEF InOrder
  <2> QED BY <2>1, <2>2 DEF Places
<1>8. NoSooner'
  <2> SUFFICES ASSUME NEW n \in Nat, Voiced(n)', NEW j \in Places', IsMark(Ahead(j)')
               PROVE  n <= Ahead(j)'.of
    BY DEF NoSooner, IsMark
  <2>1. j + 1 \in Places /\ Ahead(j)' = Ahead(j + 1)
    BY <1>2
  <2> QED BY <1>1, <1>6, <1>7, <2>1 DEF NoSooner
<1>9. AnswersOrdered'
  <2>1. ASSUME NEW a \in DOMAIN answered, Spoken(answered[a].turn), Spoken(socket'.turn)
        PROVE  answered[a].turn[2] <= socket'.turn[2]
    <3>1. answered[a].turn \in CallTurns /\ answered[a].turn[2] \in Nat
      <4>1. answered[a] \in Replies
        BY <1>1 DEF CallType
      <4>2. answered[a].turn \in CallTurns
        BY <4>1 DEF Replies
      <4> QED BY <4>2 DEF CallTurns
    <3>2. Voiced(answered[a].turn[2])
      BY <2>1 DEF Voiced
    <3>3. CASE socket'.turn = socket.turn
      BY <1>1, <2>1, <3>3 DEF AnswersOrdered
    <3>4. CASE socket'.turn = <<"audio", f.of>> /\ IsMark(f)
      BY <1>1, <1>3, <3>1, <3>2, <3>4 DEF NoSooner
    <3> QED BY <2>1, <3>3, <3>4 DEF Taken, Spoken, IsMark, Marks, Stops
  <2> QED BY <1>1, <2>1 DEF AnswersOrdered
<1> QED BY <1>4, <1>5, <1>8, <1>9

LEMMA ReceivedHearing ==
  ASSUME CallInv, NEW f \in Frames, f = Head(wire), Taken(f), wire # <<>>, wire' = Tail(wire),
         socket.at \in {"outer", "recording", "single"}, socket' \in Sockets, view' = view
  PROVE  Hearing'
<1>1. CallType /\ Expected /\ Hearing
  BY DEF CallInv
<1>2. 1 \in Places /\ Ahead(1) = f /\ (IsMark(f) => FirstMark(1))
  <2>1. f = wire[1] /\ Len(wire) > 0
    BY <1>1, Shifted
  <2> QED BY <1>1, <2>1, AheadIs, DueIs DEF FirstMark, Places
<1>3. f.kind = "chunk" =>
        socket.at # "single" /\ (socket.at = "recording" => f.of = socket.turn[2])
  BY <1>1, <1>2 DEF Expected, IsMark, Marks
<1>4. socket.audio \in Seq(Frames) /\ socket'.at \in Waits
  BY <1>1 DEF CallType, Sockets
<1>5. \A i \in DOMAIN Append(socket.audio, f) :
        Append(socket.audio, f)[i] = IF i \in DOMAIN socket.audio THEN socket.audio[i] ELSE f
  BY <1>4, AppendProperties
<1>6. socket'.at \in {"recording", "transcribe"} =>
        \A i \in DOMAIN socket'.audio :
          socket'.audio[i].kind = "chunk" => socket'.audio[i].of = socket'.turn[2]
  <2>1. CASE socket.at = "outer"
    BY <1>1, <2>1 DEF Taken, Hearing
  <2>2. CASE socket.at = "recording"
    <3>1. CASE socket'.audio = Append(socket.audio, f)
      BY <1>1, <1>3, <1>5, <2>2, <3>1 DEF Taken, Hearing
    <3>2. CASE socket'.audio # Append(socket.audio, f)
      BY <1>1, <2>2, <3>2 DEF Taken, Hearing
    <3> QED BY <3>1, <3>2
  <2>3. CASE socket.at = "single"
    BY <1>3, <2>3 DEF Taken
  <2> QED BY <2>1, <2>2, <2>3
<1>7. /\ socket'.at \in {"recording", "single", "transcribe"} => Spoken(socket'.turn)
      /\ socket'.at \in {"hear", "generate", "speak"} => socket'.turn # <<>>
      /\ socket'.at # "auth"
  BY <1>1 DEF Taken, Hearing, Spoken
<1>8. socket'.at \in {"auth", "outer", "single", "face"} => socket'.audio = <<>>
  BY <1>1 DEF Taken, Hearing
<1> QED BY <1>6, <1>7, <1>8 DEF Hearing, Spoken

LEMMA NotEmpty == ASSUME NEW w \in Seq(Frames), Len(w) > 0 PROVE w # <<>>
OBVIOUS

LEMMA ReceivedPictures ==
  ASSUME CallInv, NEW f \in Frames, f = Head(wire), Taken(f), wire # <<>>, wire' = Tail(wire),
         socket.at \in {"outer", "recording", "single"}, socket' \in Sockets, view' = view,
         faces' = IF socket.at = "recording" /\ f.kind = "jpeg"
                  THEN [faces EXCEPT !.heard = @ \cup {f.of}] ELSE faces
  PROVE  Pictured' /\ faces' \in [sent : SUBSET Nat, done : SUBSET Nat, heard : SUBSET Nat]
<1>1. CallType /\ Pictured
  BY DEF CallInv
<1>2. /\ Len(wire) > 0 /\ f = wire[1] /\ Len(wire') = Len(wire) - 1 /\ Len(wire) \in Nat
      /\ \A i \in 1..Len(wire') : i + 1 \in 1..Len(wire) /\ wire'[i] = wire[i + 1]
      /\ wire' \in Seq(Frames)
  BY <1>1, Shifted, DueIs
<1>3. /\ faces \in [sent : SUBSET Nat, done : SUBSET Nat, heard : SUBSET Nat]
      /\ f.of \in Nat
  BY <1>1 DEF CallType, Frames
<1>4. /\ faces' \in [sent : SUBSET Nat, done : SUBSET Nat, heard : SUBSET Nat]
      /\ faces'.sent = faces.sent /\ faces'.done = faces.done
      /\ socket.at = "recording" /\ f.kind = "jpeg" => faces'.heard = faces.heard \cup {f.of}
      /\ ~(socket.at = "recording" /\ f.kind = "jpeg") => faces'.heard = faces.heard
  BY <1>3
<1>5. f.kind = "jpeg" => f.of \in faces.sent /\ socket.at \in {"outer", "recording"}
  BY <1>1, <1>2 DEF Pictured
<1>6. f.kind = "face_frame" => 1 < Len(wire) /\ wire[2] = Frame("jpeg", f.of)
  BY <1>1, <1>2 DEF Pictured
<1>7. \A i \in 1..Len(wire') : wire'[i].kind = "face_frame" =>
        i < Len(wire') /\ wire'[i + 1] = Frame("jpeg", wire'[i].of)
  BY <1>1, <1>2 DEF Pictured
<1>8. ASSUME NEW i \in 1..Len(wire'), wire'[i].kind = "jpeg"
      PROVE  /\ wire'[i].of \in faces'.sent
             /\ i = 1 => socket'.at \in {"outer", "face", "recording", "failed", "gone"}
             /\ i > 1 => wire'[i - 1].kind = "face_frame"
  <2>1. /\ i + 1 \in 1..Len(wire) /\ wire[i + 1].kind = "jpeg" /\ i + 1 > 1
        /\ wire'[i] = wire[i + 1]
    BY <1>2, <1>8
  <2>2. wire[i + 1].of \in faces.sent /\ wire[(i + 1) - 1].kind = "face_frame"
    BY <1>1, <2>1 DEF Pictured
  <2>3. i = 1 => f.kind = "face_frame"
    BY <1>2, <2>2
  <2>4. i = 1 => socket'.at \in {"outer", "face", "recording", "failed", "gone"}
    BY <2>3 DEF Taken, Binary
  <2>5. i > 1 => wire'[i - 1] = wire[i]
    BY <1>2
  <2> QED BY <1>4, <2>1, <2>2, <2>4, <2>5
<1>9. socket'.at = "face" => wire' # <<>> /\ wire'[1].kind = "jpeg"
  <2> SUFFICES ASSUME socket'.at = "face" PROVE wire' # <<>> /\ wire'[1].kind = "jpeg"
    OBVIOUS
  <2>1. f.kind = "face_frame"
    BY DEF Taken
  <2>2. 1 \in 1..Len(wire') /\ wire'[1] = wire[2] /\ wire[2].kind = "jpeg"
    BY <1>2, <1>6, <2>1 DEF Frame
  <2>3. PICK w \in Seq(Frames) : w = wire'
    BY <1>2
  <2>4. Len(w) > 0
    BY <1>2, <2>2, <2>3
  <2>5. w # <<>>
    BY <2>4, NotEmpty
  <2> QED BY <2>2, <2>3, <2>5, Zenon
<1>10. faces'.done \cup faces'.heard \subseteq faces'.sent
  BY <1>1, <1>4, <1>5 DEF Pictured
<1>11. ASSUME NEW n \in faces'.sent
       PROVE  \/ n \in faces'.done \cup faces'.heard \/ socket'.at \in {"failed", "gone"}
              \/ \E i \in 1..Len(wire') : wire'[i] = Frame("jpeg", n)
  <2>1. n \in faces.sent
    BY <1>4
  <2>2. CASE n \in faces.done \cup faces.heard
    BY <1>4, <2>2
  <2>3. ASSUME NEW i \in 1..Len(wire), wire[i] = Frame("jpeg", n)
        PROVE  \/ n \in faces'.done \cup faces'.heard \/ socket'.at \in {"failed", "gone"}
               \/ \E k \in 1..Len(wire') : wire'[k] = Frame("jpeg", n)
    <3>1. CASE i = 1
      <4>1. f.kind = "jpeg" /\ f.of = n
        BY <1>2, <2>3, <3>1 DEF Frame
      <4>2. CASE socket.at = "recording"
        BY <1>4, <4>1, <4>2
      <4>3. CASE socket.at = "outer"
        BY <4>1, <4>3 DEF Taken
      <4> QED BY <1>5, <4>1, <4>2, <4>3
    <3>2. CASE i > 1
      <4>1. i - 1 \in 1..Len(wire') /\ wire'[i - 1] = Frame("jpeg", n)
        BY <1>2, <2>3, <3>2
      <4> QED BY <4>1
    <3> QED BY <3>1, <3>2
  <2> QED BY <1>1, <2>1, <2>2, <2>3 DEF Pictured
<1> QED BY <1>4, <1>7, <1>8, <1>9, <1>10, <1>11 DEF Pictured

LEMMA ReceiveKeeps == ASSUME CallInv, Receive PROVE CallInv'
<1>1. /\ CallType /\ Stored /\ wire # <<>> /\ wire' = Tail(wire) /\ view' = view
      /\ callLeft' = callLeft /\ callThreads' = callThreads /\ spoken' = spoken
      /\ answered' = answered
  BY DEF CallInv, Receive, ServerOnly, Apart
<1>2. PICK f \in Frames : f = Head(wire)
  BY <1>1, HeadTailProperties DEF CallType
<1>3. socket.at \in {"outer", "recording", "single"} /\ Takes(f)
  BY <1>1, <1>2, ReceiveTakes
<1>4. Taken(f) /\ socket' \in Sockets /\ socket'.thread = socket.thread
  BY <1>1, <1>3, TakenIs
<1>5. InOrder' /\ Expected' /\ NoSooner' /\ AnswersOrdered'
  BY <1>1, <1>2, <1>3, <1>4, ReceivedMarks
<1>6. Hearing'
  BY <1>1, <1>2, <1>3, <1>4, ReceivedHearing
<1>7. faces' = IF socket.at = "recording" /\ f.kind = "jpeg"
               THEN [faces EXCEPT !.heard = @ \cup {f.of}] ELSE faces
  BY <1>2 DEF Receive
<1>8. Pictured' /\ faces' \in [sent : SUBSET Nat, done : SUBSET Nat, heard : SUBSET Nat]
  BY <1>1, <1>2, <1>3, <1>4, <1>7, ReceivedPictures
<1>9. Stored'
  <2>1. socket'.at \notin {"generate", "speak"} /\ socket.at \notin {"failed", "gone", "speak"}
    BY <1>3, <1>4 DEF Taken
  <2> QED BY <1>1, <1>4, <2>1 DEF Stored
<1>10. wire' \in Seq(Frames)
  BY <1>1, Shifted
<1>11. CallType'
  BY <1>1, <1>4, <1>8, <1>10 DEF CallType
<1> QED BY <1>5, <1>6, <1>8, <1>9, <1>11 DEF CallInv

\* What follows the announcement of a picture is the picture: it is answered.
LEMMA VerifyFaceKeeps == ASSUME CallInv, VerifyFace PROVE CallInv'
<1>1. /\ CallType /\ InOrder /\ Expected /\ NoSooner /\ AnswersOrdered /\ Hearing /\ Stored
      /\ Pictured
  BY DEF CallInv
<1>2. /\ socket.at = "face" /\ wire # <<>> /\ wire' = Tail(wire) /\ view' = view
      /\ callLeft' = callLeft /\ callThreads' = callThreads /\ spoken' = spoken
      /\ answered' = answered
  BY DEF VerifyFace, ServerOnly, Apart
<1>3. /\ \A i \in Places' : i + 1 \in Places /\ Ahead(i)' = Ahead(i + 1)
      /\ \A k \in Places : k > 1 => k - 1 \in Places'
      /\ Len(wire) > 0 /\ Head(wire) = wire[1] /\ Len(wire') = Len(wire) - 1
      /\ \A i \in 1..Len(wire') : i + 1 \in 1..Len(wire) /\ wire'[i] = wire[i + 1]
      /\ wire' \in Seq(Frames) /\ Len(wire) \in Nat
  BY <1>1, <1>2, Shifted, DueIs
<1>4. PICK f \in Frames : f = wire[1] /\ f = Head(wire)
  BY <1>1, <1>3, AheadIs
<1>5. f.kind = "jpeg" /\ f.of \in faces.sent /\ f.of \in Nat
  BY <1>1, <1>2, <1>3, <1>4 DEF Pictured, Frames
<1>6. socket' = Outer(socket) /\ faces' = [faces EXCEPT !.done = @ \cup {f.of}]
  BY <1>4, <1>5 DEF VerifyFace
<1>7. /\ socket' \in Sockets /\ socket'.at = "outer" /\ socket'.turn = <<>>
      /\ socket'.audio = <<>> /\ socket'.thread = socket.thread
  BY <1>1, <1>6, OuterIs DEF CallType
<1>8. /\ faces' \in [sent : SUBSET Nat, done : SUBSET Nat, heard : SUBSET Nat]
      /\ faces'.sent = faces.sent /\ faces'.done = faces.done \cup {f.of}
      /\ faces'.heard = faces.heard
  BY <1>1, <1>5, <1>6 DEF CallType
<1>9. CallType'
  BY <1>1, <1>2, <1>3, <1>7, <1>8 DEF CallType
<1>10. InOrder' /\ Expected'
  BY <1>1, <1>3, <1>7, TailInOrder DEF Expected
<1>11. NoSooner'
  <2> SUFFICES ASSUME NEW n \in Nat, Voiced(n)', NEW j \in Places', IsMark(Ahead(j)')
               PROVE  n <= Ahead(j)'.of
    BY DEF NoSooner, IsMark
  <2>1. Voiced(n) /\ j + 1 \in Places /\ Ahead(j)' = Ahead(j + 1)
    BY <1>2, <1>3, <1>7 DEF Voiced, Spoken
  <2> QED BY <1>1, <2>1 DEF NoSooner
<1>12. AnswersOrdered' /\ Hearing' /\ Stored'
  <2>1. AnswersOrdered'
    BY <1>1, <1>2, <1>7 DEF AnswersOrdered, Spoken
  <2>2. Hearing'
    BY <1>7 DEF Hearing
  <2>3. Stored'
    BY <1>1, <1>2, <1>7 DEF Stored
  <2> QED BY <2>1, <2>2, <2>3
<1>13. Pictured'
  <2>1. \A i \in 1..Len(wire') : wire'[i].kind = "face_frame" =>
          i < Len(wire') /\ wire'[i + 1] = Frame("jpeg", wire'[i].of)
    BY <1>1, <1>3 DEF Pictured
  <2>2. ASSUME NEW i \in 1..Len(wire'), wire'[i].kind = "jpeg"
        PROVE  wire'[i].of \in faces'.sent /\ (i > 1 => wire'[i - 1].kind = "face_frame")
    <3>1. /\ i + 1 \in 1..Len(wire) /\ wire[i + 1].kind = "jpeg" /\ i + 1 > 1
          /\ wire'[i] = wire[i + 1] /\ (i > 1 => wire'[i - 1] = wire[i])
      BY <1>3, <2>2
    <3>2. wire[i + 1].of \in faces.sent /\ wire[(i + 1) - 1].kind = "face_frame"
      BY <1>1, <3>1 DEF Pictured
    <3> QED BY <1>8, <3>1, <3>2
  <2>3. faces'.done \cup faces'.heard \subseteq faces'.sent
    BY <1>1, <1>5, <1>8 DEF Pictured
  <2>4. ASSUME NEW n \in faces'.sent
        PROVE  \/ n \in faces'.done \cup faces'.heard
               \/ \E i \in 1..Len(wire') : wire'[i] = Frame("jpeg", n)
    <3>1. CASE n \in faces.done \cup faces.heard
      BY <1>8, <3>1
    <3>2. ASSUME NEW i \in 1..Len(wire), wire[i] = Frame("jpeg", n)
          PROVE  \/ n \in faces'.done \cup faces'.heard
                 \/ \E k \in 1..Len(wire') : wire'[k] = Frame("jpeg", n)
      <4>1. CASE i = 1
        BY <1>4, <1>8, <3>2, <4>1 DEF Frame
      <4>2. CASE i > 1
        <5>1. i - 1 \in 1..Len(wire') /\ wire'[i - 1] = Frame("jpeg", n)
          BY <1>3, <3>2, <4>2
        <5> QED BY <5>1
      <4> QED BY <4>1, <4>2
    <3> QED BY <1>1, <1>2, <1>8, <2>4, <3>1, <3>2 DEF Pictured
  <2> QED BY <1>7, <2>1, <2>2, <2>3, <2>4 DEF Pictured
<1> QED BY <1>9, <1>10, <1>11, <1>12, <1>13 DEF CallInv

-----------------------------------------------------------------------------
(* The turn of the handler.                                                 *)

\* A step that takes no frame and voices nothing new leaves what the wire says.
LEMMA StillWire ==
  ASSUME CallInv, wire' = wire, view' = view, faces' = faces, callLeft' = callLeft,
         socket' \in Sockets, answered' \in Seq(Replies), callThreads' \in Nat,
         spoken' \subseteq CallTurns \X Nat,
         socket'.at \in {"outer", "hear", "generate", "speak", "failed", "gone"},
         socket.at \in {"auth", "face", "transcribe", "hear", "generate", "speak"},
         socket'.at \in {"hear", "generate", "speak"} =>
           socket.at \notin {"auth", "face"} /\ socket'.turn = socket.turn,
         socket'.at = "outer" => socket'.audio = <<>>,
         \A n \in Nat : Voiced(n)' => Voiced(n)
  PROVE  CallType' /\ InOrder' /\ Expected' /\ NoSooner' /\ Hearing' /\ Pictured'
<1>1. /\ CallType /\ InOrder /\ Expected /\ NoSooner /\ AnswersOrdered /\ Hearing /\ Stored
      /\ Pictured
  BY DEF CallInv
<1>2. CallType'
  BY <1>1 DEF CallType
<1>3. Places' = Places /\ \A i : Ahead(i)' = Ahead(i)
  BY DEF Places, Ahead, Due
<1>4. InOrder'
  BY <1>1, <1>3 DEF InOrder
<1>5. Expected'
  BY DEF Expected
<1>6. NoSooner'
  <2> SUFFICES ASSUME NEW n \in Nat, Voiced(n)', NEW j \in Places', IsMark(Ahead(j)')
               PROVE  n <= Ahead(j)'.of
    BY DEF NoSooner, IsMark
  <2>1. Voiced(n) /\ j \in Places /\ Ahead(j)' = Ahead(j)
    BY <1>3
  <2> QED BY <1>1, <2>1 DEF NoSooner
<1>7. Hearing'
  BY <1>1 DEF Hearing, Spoken
<1>8. Pictured'
  <2>1. ASSUME NEW i \in 1..Len(wire), wire[i].kind = "jpeg", i = 1
        PROVE  socket'.at \in {"outer", "face", "recording", "failed", "gone"}
    <3>1. socket.at \in {"outer", "face", "recording", "failed", "gone"}
      BY <1>1, <2>1 DEF Pictured
    <3> QED BY <3>1
  <2>2. socket'.at # "face" /\ socket.at \notin {"failed", "gone"}
    OBVIOUS
  <2> QED BY <1>1, <2>1, <2>2 DEF Pictured
<1> QED BY <1>2, <1>4, <1>5, <1>6, <1>7, <1>8

\* An answer closes the turn.
LEMMA CallAnswerKeeps ==
  ASSUME CallInv, NEW answer \in {"done", "empty", "error"}, SendAnswer(socket.turn, answer),
         socket' = Outer(socket), socket.at \in {"transcribe", "speak"},
         answer = "done" => socket.at = "speak",
         ServerOnly, Apart, UNCHANGED <<wire, faces>>
  PROVE  CallInv'
<1>1. CallType /\ AnswersOrdered /\ Hearing /\ Stored
  BY DEF CallInv
<1>2. /\ socket' \in Sockets /\ socket'.at = "outer" /\ socket'.turn = <<>>
      /\ socket'.audio = <<>> /\ socket'.thread = socket.thread
  BY <1>1, OuterIs DEF CallType
<1>3. PICK r : r = [turn |-> socket.turn, answer |-> answer, in |-> socket.in]
  OBVIOUS
<1>4. /\ r \in Replies /\ r.turn = socket.turn /\ r.answer = answer /\ r.in = socket.in
      /\ answered \in Seq(Replies) /\ answered' = Append(answered, r)
  <2>1. socket.turn \in CallTurns /\ socket.in \in Nat
    BY <1>1 DEF CallType, Sockets, Hearing, Spoken
  <2> QED BY <1>1, <1>3, <2>1 DEF Replies, SendAnswer, CallType
<1>5. PICK L \in Nat : L = Len(answered) /\ DOMAIN answered = 1..L
  BY <1>4, LenProperties
<1>6. /\ answered' \in Seq(Replies) /\ DOMAIN answered' = 1..(L + 1)
      /\ \A a \in 1..L : answered'[a] = answered[a]
      /\ answered'[L + 1] = r
  BY <1>4, <1>5, AppendProperties
<1>7. \A a \in DOMAIN answered' : a \in 1..L \/ a = L + 1
  BY <1>6
<1>8. \A n \in Nat : Voiced(n)' => Voiced(n)
  <2> SUFFICES ASSUME NEW n \in Nat, NEW a \in DOMAIN answered', Spoken(answered'[a].turn),
                      n = answered'[a].turn[2]
               PROVE  Voiced(n)
    BY <1>2 DEF Voiced, Spoken
  <2>1. CASE a \in 1..L
    BY <1>5, <1>6, <2>1 DEF Voiced
  <2>2. CASE a = L + 1
    BY <1>4, <1>6, <2>2 DEF Voiced
  <2> QED BY <1>7, <2>1, <2>2
<1>9. CallType' /\ InOrder' /\ Expected' /\ NoSooner' /\ Hearing' /\ Pictured'
  BY <1>1, <1>2, <1>6, <1>8, StillWire DEF CallType, ServerOnly, Apart
<1>10. AnswersOrdered'
  <2> SUFFICES ASSUME NEW a \in DOMAIN answered', NEW b \in DOMAIN answered', a < b,
                      Spoken(answered'[a].turn), Spoken(answered'[b].turn)
               PROVE  answered'[a].turn[2] <= answered'[b].turn[2]
    BY <1>2 DEF AnswersOrdered, Spoken
  <2>1. a \in 1..L /\ answered'[a] = answered[a]
    BY <1>6, <1>7
  <2>2. CASE b \in 1..L
    BY <1>1, <1>5, <1>6, <2>1, <2>2 DEF AnswersOrdered
  <2>3. CASE b = L + 1
    BY <1>1, <1>4, <1>5, <1>6, <2>1, <2>3 DEF AnswersOrdered
  <2> QED BY <1>7, <2>2, <2>3
<1>11. Stored'
  <2>1. spoken' = spoken
    BY DEF Apart
  <2>2. \A a \in DOMAIN answered' :
          answered'[a].answer = "done" => <<answered'[a].turn, answered'[a].in>> \in spoken
    <3> SUFFICES ASSUME NEW a \in DOMAIN answered', answered'[a].answer = "done"
                 PROVE  <<answered'[a].turn, answered'[a].in>> \in spoken
      OBVIOUS
    <3>1. CASE a \in 1..L
      BY <1>1, <1>5, <1>6, <3>1 DEF Stored
    <3>2. CASE a = L + 1
      BY <1>1, <1>4, <1>6, <3>2 DEF Stored
    <3> QED BY <1>7, <3>1, <3>2
  <2>3. ASSUME NEW h \in spoken PROVE \E a \in DOMAIN answered' : answered'[a].turn = h[1]
    <3>1. CASE \E a \in DOMAIN answered : answered[a].turn = h[1]
      <4>1. PICK a \in 1..L : answered[a].turn = h[1]
        BY <1>5, <3>1
      <4> QED BY <1>6, <4>1
    <3>2. CASE socket.turn = h[1]
      BY <1>4, <1>6, <3>2
    <3> QED BY <1>1, <3>1, <3>2 DEF Stored
  <2>4. \A h \in spoken : h[1][1] = "audio" => h[2] = socket'.thread /\ socket'.thread # 0
    BY <1>1, <1>2 DEF Stored
  <2> QED BY <1>2, <2>1, <2>2, <2>3, <2>4 DEF Stored
<1> QED BY <1>9, <1>10, <1>11 DEF CallInv

LEMMA AuthenticateKeeps ==
  ASSUME CallInv, NEW good \in BOOLEAN, Authenticate(good) PROVE CallInv'
<1>1. CallType /\ AnswersOrdered /\ Hearing /\ Stored
  BY DEF CallInv
<1>2. PICK at \in {"outer", "failed"} : socket' = Waiting(socket, at) /\ at \in Waits
  BY DEF Authenticate, Waiting, Waits
<1>3. /\ socket' \in Sockets /\ socket'.at = at /\ socket'.turn = socket.turn
      /\ socket'.audio = socket.audio /\ socket'.thread = socket.thread
  BY <1>1, <1>2, WaitingIs DEF CallType
<1>4. /\ socket.at = "auth" /\ wire' = wire /\ view' = view /\ faces' = faces
      /\ callLeft' = callLeft /\ callThreads' = callThreads /\ spoken' = spoken
      /\ answered' = answered
  BY DEF Authenticate, ServerOnly, Apart
<1>5. \A n \in Nat : Voiced(n)' => Voiced(n)
  BY <1>3, <1>4 DEF Voiced, Spoken
<1>6. CallType' /\ InOrder' /\ Expected' /\ NoSooner' /\ Hearing' /\ Pictured'
  BY <1>1, <1>2, <1>3, <1>4, <1>5, StillWire DEF CallType, Hearing
<1>7. AnswersOrdered'
  BY <1>1, <1>3, <1>4 DEF AnswersOrdered, Spoken
<1>8. Stored'
  BY <1>1, <1>3, <1>4 DEF Stored
<1> QED BY <1>6, <1>7, <1>8 DEF CallInv

LEMMA TranscribeKeeps ==
  ASSUME CallInv, NEW result \in {"speech", "empty", "error"}, Transcribe(result) PROVE CallInv'
<1>1. CallType /\ AnswersOrdered /\ Hearing /\ Stored
  BY DEF CallInv
<1>2. CASE result = "speech"
  <2>1. socket' = Waiting(socket, "hear") /\ "hear" \in Waits
    BY <1>2 DEF Transcribe, Waiting, Waits
  <2>2. /\ socket' \in Sockets /\ socket'.at = "hear" /\ socket'.turn = socket.turn
        /\ socket'.audio = socket.audio /\ socket'.thread = socket.thread
    BY <1>1, <2>1, WaitingIs DEF CallType
  <2>3. /\ socket.at = "transcribe" /\ wire' = wire /\ view' = view /\ faces' = faces
        /\ callLeft' = callLeft /\ callThreads' = callThreads /\ spoken' = spoken
        /\ answered' = answered
    BY <1>2 DEF Transcribe, ServerOnly, Apart
  <2>4. \A n \in Nat : Voiced(n)' => Voiced(n)
    BY <2>2, <2>3 DEF Voiced, Spoken
  <2>5. CallType' /\ InOrder' /\ Expected' /\ NoSooner' /\ Hearing' /\ Pictured'
    BY <1>1, <2>2, <2>3, <2>4, StillWire DEF CallType
  <2>6. AnswersOrdered'
    BY <1>1, <2>2, <2>3 DEF AnswersOrdered, Spoken
  <2>7. Stored'
    BY <1>1, <2>2, <2>3 DEF Stored
  <2> QED BY <2>5, <2>6, <2>7 DEF CallInv
<1>3. CASE result # "speech"
  BY <1>3, CallAnswerKeeps DEF Transcribe
<1> QED BY <1>2, <1>3

LEMMA HearKeeps == ASSUME CallInv, Hear PROVE CallInv'
<1>1. CallType /\ AnswersOrdered /\ Hearing /\ Stored
  BY DEF CallInv
<1>2. /\ callThreads \in Nat /\ socket \in Sockets /\ socket.thread \in Nat
  BY <1>1 DEF CallType, Sockets
<1>3. PICK in \in Nat : /\ in = IF socket.thread = 0 THEN callThreads + 1 ELSE socket.thread
                        /\ in # 0 /\ (socket.thread # 0 => in = socket.thread)
  BY <1>2
<1>4. socket' = Generating(socket, in)
  BY <1>3, Zenon DEF Hear, Generating
<1>5. /\ socket' \in Sockets /\ socket'.at = "generate" /\ socket'.turn = socket.turn
      /\ socket'.audio = socket.audio /\ socket'.thread = socket.thread /\ socket'.in = in
  BY <1>2, <1>4, GeneratingIs
<1>6. /\ socket.at = "hear" /\ wire' = wire /\ view' = view /\ faces' = faces
      /\ callLeft' = callLeft /\ spoken' = spoken /\ answered' = answered
      /\ callThreads' \in Nat
  BY <1>2 DEF Hear, ServerOnly
<1>7. \A n \in Nat : Voiced(n)' => Voiced(n)
  BY <1>5, <1>6 DEF Voiced, Spoken
<1>8. CallType' /\ InOrder' /\ Expected' /\ NoSooner' /\ Hearing' /\ Pictured'
  BY <1>1, <1>5, <1>6, <1>7, StillWire DEF CallType
<1>9. AnswersOrdered'
  BY <1>1, <1>5, <1>6 DEF AnswersOrdered, Spoken
<1>10. Stored'
  BY <1>1, <1>3, <1>5, <1>6 DEF Stored
<1> QED BY <1>8, <1>9, <1>10 DEF CallInv

LEMMA AnswerTurnKeeps ==
  ASSUME CallInv, NEW works \in BOOLEAN, AnswerTurn(works) PROVE CallInv'
<1>1. CallType /\ AnswersOrdered /\ Hearing /\ Stored
  BY DEF CallInv
<1>2. /\ socket \in Sockets /\ socket.thread \in Nat /\ socket.in \in Nat
      /\ socket.turn \in CallTurns /\ socket.at = "generate"
      /\ wire' = wire /\ view' = view /\ faces' = faces
      /\ callLeft' = callLeft /\ callThreads' = callThreads /\ answered' = answered
  BY <1>1 DEF CallType, Sockets, AnswerTurn, ServerOnly, Hearing
<1>3. CASE works
  <2>1. PICK t \in Nat : t = IF socket.turn[1] = "audio" THEN socket.in ELSE socket.thread
    BY <1>2
  <2>2. socket' = Speaking(socket, t)
    BY <1>3, <2>1, Zenon DEF AnswerTurn, Speaking
  <2>3. /\ socket' \in Sockets /\ socket'.at = "speak" /\ socket'.turn = socket.turn
        /\ socket'.audio = socket.audio /\ socket'.thread = t /\ socket'.in = socket.in
    BY <1>2, <2>2, SpeakingIs
  <2>4. spoken' = spoken \cup {<<socket.turn, socket.in>>}
    BY <1>3 DEF AnswerTurn
  <2>5. \A n \in Nat : Voiced(n)' => Voiced(n)
    BY <1>2, <2>3 DEF Voiced, Spoken
  <2>6. CallType' /\ InOrder' /\ Expected' /\ NoSooner' /\ Hearing' /\ Pictured'
    BY <1>1, <1>2, <2>3, <2>4, <2>5, StillWire DEF CallType
  <2>7. AnswersOrdered'
    BY <1>1, <1>2, <2>3 DEF AnswersOrdered, Spoken
  <2>8. Stored'
    <3>1. ASSUME NEW h \in spoken', h[1][1] = "audio"
          PROVE  h[2] = socket'.thread /\ socket'.thread # 0
      <4>1. CASE h \in spoken
        BY <1>1, <1>2, <2>1, <2>3, <3>1, <4>1 DEF Stored
      <4>2. CASE h = <<socket.turn, socket.in>>
        BY <1>1, <1>2, <2>1, <2>3, <3>1, <4>2 DEF Stored
      <4> QED BY <2>4, <4>1, <4>2
    <3>2. <<socket'.turn, socket'.in>> \in spoken'
      BY <2>3, <2>4
    <3>3. \A h \in spoken' : (\E a \in DOMAIN answered : answered[a].turn = h[1]) \/ socket.turn = h[1]
      BY <1>1, <1>2, <2>4 DEF Stored
    <3> QED BY <1>1, <1>2, <2>3, <2>4, <3>1, <3>2, <3>3 DEF Stored
  <2> QED BY <2>6, <2>7, <2>8 DEF CallInv
<1>4. CASE ~works
  <2>1. socket' = Waiting(socket, "failed") /\ "failed" \in Waits /\ spoken' = spoken
    BY <1>4 DEF AnswerTurn, Waiting, Waits
  <2>2. /\ socket' \in Sockets /\ socket'.at = "failed" /\ socket'.turn = socket.turn
        /\ socket'.audio = socket.audio /\ socket'.thread = socket.thread
    BY <1>1, <2>1, WaitingIs DEF CallType
  <2>3. \A n \in Nat : Voiced(n)' => Voiced(n)
    BY <1>2, <2>2 DEF Voiced, Spoken
  <2>4. CallType' /\ InOrder' /\ Expected' /\ NoSooner' /\ Hearing' /\ Pictured'
    BY <1>1, <1>2, <2>1, <2>2, <2>3, StillWire DEF CallType
  <2>5. AnswersOrdered'
    BY <1>1, <1>2, <2>2 DEF AnswersOrdered, Spoken
  <2>6. Stored'
    BY <1>1, <1>2, <2>1, <2>2 DEF Stored
  <2> QED BY <2>4, <2>5, <2>6 DEF CallInv
<1> QED BY <1>3, <1>4

LEMMA SpeakAnswerKeeps == ASSUME CallInv, SpeakAnswer PROVE CallInv'
BY CallAnswerKeeps DEF SpeakAnswer

LEMMA SendFailsKeeps == ASSUME CallInv, SendFails PROVE CallInv'
<1>1. CallType /\ AnswersOrdered /\ Hearing /\ Stored
  BY DEF CallInv
<1>2. socket' = Waiting(socket, "gone") /\ "gone" \in Waits
  BY DEF SendFails, Waiting, Waits
<1>3. /\ socket' \in Sockets /\ socket'.at = "gone" /\ socket'.turn = socket.turn
      /\ socket'.audio = socket.audio /\ socket'.thread = socket.thread
  BY <1>1, <1>2, WaitingIs DEF CallType
<1>4. /\ socket.at \in {"face", "transcribe", "hear", "speak"} /\ wire' = wire /\ view' = view
      /\ faces' = faces /\ callLeft' = callLeft /\ callThreads' = callThreads
      /\ spoken' = spoken /\ answered' = answered
  BY DEF SendFails, ServerOnly, Apart
<1>5. \A n \in Nat : Voiced(n)' => Voiced(n)
  BY <1>3, <1>4 DEF Voiced, Spoken
<1>6. CallType' /\ InOrder' /\ Expected' /\ NoSooner' /\ Hearing' /\ Pictured'
  BY <1>1, <1>3, <1>4, <1>5, StillWire DEF CallType
<1>7. AnswersOrdered'
  BY <1>1, <1>3, <1>4 DEF AnswersOrdered, Spoken
<1>8. Stored'
  BY <1>1, <1>3, <1>4 DEF Stored
<1> QED BY <1>6, <1>7, <1>8 DEF CallInv

-----------------------------------------------------------------------------
(* The client.                                                              *)

\* Nothing the client does disturbs what the handler has.
LEMMA ClientKeeps ==
  ASSUME CallInv, ClientOnly, Up, view' \in Views, view'.rec # 0 => view'.rec = view'.made,
         callLeft' \in Counts, wire' \in Seq(Frames),
         faces' \in [sent : SUBSET Nat, done : SUBSET Nat, heard : SUBSET Nat]
  PROVE  CallType' /\ AnswersOrdered' /\ Hearing' /\ Stored'
<1>1. /\ CallType /\ AnswersOrdered /\ Hearing /\ Stored /\ socket' = socket
      /\ answered' = answered /\ spoken' = spoken /\ callThreads' = callThreads
      /\ socket.at # "auth"
  BY DEF CallInv, ClientOnly, Up
<1>2. CallType'
  BY <1>1 DEF CallType
<1>3. AnswersOrdered' /\ Stored'
  BY <1>1 DEF AnswersOrdered, Stored
<1>4. Hearing'
  BY <1>1 DEF Hearing
<1> QED BY <1>2, <1>3, <1>4

LEMMA PlainSent ==
  ASSUME CallInv, NEW g \in Frames, g.kind \notin {"face_frame", "jpeg"}, wire' = Append(wire, g),
         socket' = socket, faces' = faces
  PROVE  Pictured'
<1>1. CallType /\ Pictured
  BY DEF CallInv
<1>2. PICK L \in Nat : L = Len(wire)
  BY <1>1, DueIs
<1>3. /\ \A i \in 1..L : wire'[i] = wire[i]
      /\ wire'[L + 1] = g /\ Len(wire') = L + 1 /\ wire' \in Seq(Frames)
  BY <1>1, <1>2, Grown
<1>4. \A i \in 1..Len(wire') : wire'[i].kind \in {"face_frame", "jpeg"} => i \in 1..L
  BY <1>3
<1>5. \A i \in 1..Len(wire') : wire'[i].kind = "face_frame" =>
        i < Len(wire') /\ wire'[i + 1] = Frame("jpeg", wire'[i].of)
  <2> SUFFICES ASSUME NEW i \in 1..Len(wire'), wire'[i].kind = "face_frame"
               PROVE  i < Len(wire') /\ wire'[i + 1] = Frame("jpeg", wire'[i].of)
    OBVIOUS
  <2>1. i \in 1..L /\ wire[i].kind = "face_frame" /\ wire'[i] = wire[i]
    BY <1>3, <1>4
  <2>2. i < L /\ wire[i + 1] = Frame("jpeg", wire[i].of)
    BY <1>1, <1>2, <2>1 DEF Pictured
  <2> QED BY <1>3, <2>1, <2>2
<1>6. \A i \in 1..Len(wire') : wire'[i].kind = "jpeg" =>
        /\ wire'[i].of \in faces.sent
        /\ i = 1 => socket.at \in {"outer", "face", "recording", "failed", "gone"}
        /\ i > 1 => wire'[i - 1].kind = "face_frame"
  <2> SUFFICES ASSUME NEW i \in 1..Len(wire'), wire'[i].kind = "jpeg"
               PROVE  /\ wire'[i].of \in faces.sent
                      /\ i = 1 => socket.at \in {"outer", "face", "recording", "failed", "gone"}
                      /\ i > 1 => wire'[i - 1].kind = "face_frame"
    OBVIOUS
  <2>1. i \in 1..L /\ wire[i].kind = "jpeg" /\ wire'[i] = wire[i]
    BY <1>3, <1>4
  <2>2. i > 1 => wire'[i - 1] = wire[i - 1]
    BY <1>3, <2>1
  <2> QED BY <1>1, <1>2, <2>1, <2>2 DEF Pictured
<1>7. ASSUME socket.at = "face" PROVE wire' # <<>> /\ wire'[1].kind = "jpeg"
  <2>1. wire # <<>> /\ wire[1].kind = "jpeg"
    BY <1>1, <1>7 DEF Pictured
  <2>2. 1 \in 1..L
    BY <1>1, <1>2, <2>1 DEF CallType
  <2>3. wire'[1] = wire[1] /\ Len(wire') > 0
    BY <1>2, <1>3, <2>2
  <2>4. wire' # <<>>
    BY <1>3, <2>3, NotEmpty
  <2> QED BY <2>1, <2>3, <2>4
<1>8. \A n \in faces.sent :
        \/ n \in faces.done \cup faces.heard \/ socket.at \in {"failed", "gone"}
        \/ \E i \in 1..Len(wire') : wire'[i] = Frame("jpeg", n)
  <2>1. \A n : (\E i \in 1..Len(wire) : wire[i] = Frame("jpeg", n)) =>
              \E i \in 1..Len(wire') : wire'[i] = Frame("jpeg", n)
    BY <1>2, <1>3
  <2> QED BY <1>1, <2>1 DEF Pictured
<1> QED BY <1>1, <1>5, <1>6, <1>7, <1>8 DEF Pictured

\* A mark sent, and the one that is due after it.
LEMMA MarkKeeps ==
  ASSUME CallInv, NEW g \in Frames, g.kind \in Marks, Send(<<g>>), ClientOnly,
         view' \in Views, view'.rec # 0 => view'.rec = view'.made, callLeft' \in Counts,
         faces' = faces, g.of = Due.of, g.kind = "start" <=> Due.kind = "start",
         g.of <= Due'.of, Follows(g, Due')
  PROVE  CallInv'
<1>1. CallType /\ InOrder /\ Expected /\ NoSooner /\ socket' = socket /\ answered' = answered
  BY DEF CallInv, ClientOnly
<1>2. wire' = Append(wire, g) /\ Up /\ wire' \in Seq(Frames)
  BY <1>1 DEF CallType, Send
<1>3. CallType' /\ AnswersOrdered' /\ Hearing' /\ Stored'
  BY <1>1, <1>2, ClientKeeps DEF CallType
<1>4. IsMark(g) /\ IsMark(Due') /\ Due' \in Frames
  BY <1>3, AheadTyped DEF IsMark
<1>5. /\ InOrder'
      /\ \A j \in Places' : IsMark(Ahead(j)') =>
           \E k \in Places : IsMark(Ahead(k)) /\ Ahead(k).of <= Ahead(j)'.of
      /\ \A j \in Places' : FirstMark(j)' =>
           \E k \in Places : /\ FirstMark(k) /\ Ahead(k).of = Ahead(j)'.of
                             /\ Ahead(k).kind = "start" <=> Ahead(j)'.kind = "start"
  BY <1>1, <1>2, <1>4, MarkSent
<1>6. Expected' /\ NoSooner'
  BY <1>1, <1>3, <1>5, ExpectedStays
<1>7. Pictured'
  <2>1. g.kind \notin {"face_frame", "jpeg"}
    BY DEF Marks, Stops
  <2> QED BY <1>1, <1>2, <2>1, PlainSent
<1> QED BY <1>3, <1>5, <1>6, <1>7 DEF CallInv

\* Another frame sent.
LEMMA PlainKeeps ==
  ASSUME CallInv, NEW g \in Frames, g.kind \notin Marks \cup {"face_frame", "jpeg"},
         Send(<<g>>), ClientOnly, view' \in Views, view'.rec # 0 => view'.rec = view'.made,
         callLeft' \in Counts, faces' = faces, Due' = Due
  PROVE  CallInv'
<1>1. CallType /\ InOrder /\ Expected /\ NoSooner /\ socket' = socket /\ answered' = answered
  BY DEF CallInv, ClientOnly
<1>2. wire' = Append(wire, g) /\ Up
  BY DEF Send, CallType
<1>3. PICK L \in Nat : L = Len(wire)
  BY <1>1, DueIs
<1>4. /\ wire' \in Seq(Frames) /\ Len(wire') = L + 1 /\ wire'[L + 1] = g
      /\ \A i \in 1..L : wire'[i] = wire[i]
  BY <1>1, <1>2, <1>3, Grown
<1>5. CallType' /\ AnswersOrdered' /\ Hearing' /\ Stored'
  BY <1>1, <1>2, <1>4, ClientKeeps DEF CallType
<1>6. /\ InOrder'
      /\ \A j \in Places' : IsMark(Ahead(j)') =>
           \E k \in Places : IsMark(Ahead(k)) /\ Ahead(k).of <= Ahead(j)'.of
      /\ \A j \in Places' : FirstMark(j)' =>
           \E k \in Places : /\ FirstMark(k) /\ Ahead(k).of = Ahead(j)'.of
                             /\ Ahead(k).kind = "start" <=> Ahead(j)'.kind = "start"
  <2>1. \A i \in Len(wire) + 1 .. Len(wire') : ~IsMark(wire'[i])
    BY <1>3, <1>4 DEF IsMark
  <2> QED BY <1>1, <1>3, <1>4, <2>1, OtherSent
<1>7. Expected' /\ NoSooner'
  BY <1>1, <1>5, <1>6, ExpectedStays
<1>8. Pictured'
  BY <1>1, <1>2, PlainSent
<1> QED BY <1>5, <1>6, <1>7, <1>8 DEF CallInv

LEMMA StartRecordingKeeps == ASSUME CallInv, StartRecording PROVE CallInv'
<1>1. /\ view \in Views /\ view.rec = 0 /\ view.made \in Nat /\ view.due \in SUBSET Nat
      /\ view.up \in BOOLEAN /\ callLeft \in Counts
  BY DEF CallInv, CallType, Views, StartRecording
<1>2. PICK g : g = Frame("start", view.made + 1)
  OBVIOUS
<1>3. g \in Frames /\ g.kind = "start" /\ g.of = view.made + 1
  BY <1>1, <1>2 DEF Frame, Frames, Marks
<1>4. view' = [rec |-> view.made + 1, made |-> view.made + 1, due |-> view.due, up |-> view.up]
  BY <1>1, Zenon DEF StartRecording, Views
<1>5. /\ view' \in Views /\ view'.rec = view'.made /\ Due' = Frame("chunk", view.made + 1)
      /\ Due = Frame("start", view.made + 1)
  BY <1>1, <1>4 DEF Views, Due
<1>6. /\ g.of = Due.of /\ Due.kind = "start" /\ g.of <= Due'.of /\ Follows(g, Due')
  BY <1>1, <1>3, <1>5 DEF Frame, Follows
<1>7. /\ Send(<<g>>) /\ ClientOnly /\ callLeft' = callLeft /\ faces' = faces
      /\ g.kind \in Marks
  BY <1>2, <1>3 DEF StartRecording, Marks
<1> QED BY <1>1, <1>3, <1>5, <1>6, <1>7, MarkKeeps

LEMMA CanSendIs ==
  ASSUME CallInv, NEW what \in {"chunk", "face", "text", "cancel"}, CanSend(what)
  PROVE  callLeft' \in Counts /\ callLeft[what] \in Nat
BY DEF CallInv, CallType, Counts, CanSend

LEMMA SendChunkKeeps == ASSUME CallInv, SendChunk PROVE CallInv'
<1>1. /\ view \in Views /\ view.rec # 0 /\ view.rec = view.made /\ view.rec \in Nat
      /\ view' = view
  BY DEF CallInv, CallType, Views, SendChunk
<1>2. PICK g : g = Frame("chunk", view.rec)
  OBVIOUS
<1>3. g \in Frames /\ g.kind = "chunk" /\ g.of = view.rec
  BY <1>1, <1>2 DEF Frame, Frames, Marks
<1>4. Due = g /\ Due' = g
  BY <1>1, <1>2 DEF Due
<1>5. Follows(g, Due') /\ g.of <= Due'.of
  BY <1>1, <1>3, <1>4 DEF Follows
<1>6. /\ Send(<<g>>) /\ ClientOnly /\ callLeft' \in Counts /\ faces' = faces
      /\ g.kind \in Marks
  BY <1>2, <1>3, CanSendIs DEF SendChunk, Marks
<1> QED BY <1>1, <1>3, <1>4, <1>5, <1>6, MarkKeeps

LEMMA StopRecordingKeeps ==
  ASSUME CallInv, NEW kind \in Stops, StopRecording(kind) PROVE CallInv'
<1>1. /\ view \in Views /\ view.rec # 0 /\ view.rec = view.made /\ view.rec \in Nat
      /\ view.made \in Nat /\ view.due \in SUBSET Nat /\ view.up \in BOOLEAN
      /\ callLeft \in Counts
  BY DEF CallInv, CallType, Views, StopRecording
<1>2. PICK g : g = Frame(kind, view.rec)
  OBVIOUS
<1>3. g \in Frames /\ g.kind = kind /\ g.of = view.rec
  BY <1>1, <1>2 DEF Frame, Frames, Marks
<1>4. view' = [rec |-> 0, made |-> view.made, due |-> view.due \cup {view.rec}, up |-> view.up]
  BY <1>1, Zenon DEF StopRecording, Views
<1>5. /\ view' \in Views /\ view'.rec = 0 /\ Due' = Frame("start", view.made + 1)
      /\ Due = Frame("chunk", view.rec)
  BY <1>1, <1>4 DEF Views, Due
<1>6. /\ g.of = Due.of /\ Due.kind # "start" /\ g.kind # "start" /\ g.of <= Due'.of
      /\ Follows(g, Due')
  BY <1>1, <1>3, <1>5 DEF Frame, Follows, Stops
<1>7. callLeft' \in Counts
  BY <1>1, CanSendIs DEF StopRecording
<1>8. Send(<<g>>) /\ ClientOnly /\ faces' = faces /\ g.kind \in Marks
  BY <1>2, <1>3 DEF StopRecording, Marks
<1> QED BY <1>3, <1>5, <1>6, <1>7, <1>8, MarkKeeps

LEMMA LastDataKeeps ==
  ASSUME CallInv, NEW u \in 1..MaxRecordings, LastData(u) PROVE CallInv'
<1>1. /\ view \in Views /\ (view.rec # 0 => view.rec = view.made) /\ u \in Nat
      /\ callLeft \in Counts
  BY DEF CallInv, CallType, Views, LastData
<1>2. /\ view' \in Views /\ view'.rec = view.rec /\ view'.made = view.made
      /\ Due' = Due
  BY <1>1 DEF LastData, Views, Due
<1>3. ClientOnly /\ callLeft' = callLeft /\ faces' = faces
  BY DEF LastData
<1>4. CASE Send(<<Frame("last", u)>>)
  <2>1. PICK g : g = Frame("last", u)
    OBVIOUS
  <2>2. g \in Frames /\ g.kind \notin Marks \cup {"face_frame", "jpeg"}
    BY <1>1, <2>1 DEF Frame, Frames, Marks, Stops
  <2> QED BY <1>1, <1>2, <1>3, <1>4, <2>1, <2>2, PlainKeeps
<1>5. CASE Up /\ wire' = wire
  <2>1. /\ CallType /\ InOrder /\ Expected /\ NoSooner /\ Pictured /\ wire \in Seq(Frames)
        /\ faces \in [sent : SUBSET Nat, done : SUBSET Nat, heard : SUBSET Nat]
        /\ socket' = socket /\ answered' = answered
    BY <1>3 DEF CallInv, CallType, ClientOnly
  <2>2. CallType' /\ AnswersOrdered' /\ Hearing' /\ Stored'
    BY <1>1, <1>2, <1>3, <1>5, <2>1, ClientKeeps
  <2>3. Places' = Places /\ \A i : Ahead(i)' = Ahead(i)
    BY <1>2, <1>5 DEF Places, Ahead
  <2>4. InOrder'
    BY <2>1, <2>3 DEF InOrder
  <2>5. Expected'
    BY <2>1, <2>3 DEF Expected, FirstMark
  <2>6. NoSooner'
    BY <2>1, <2>3 DEF NoSooner, Voiced
  <2>7. Pictured'
    BY <1>3, <1>5, <2>1 DEF Pictured
  <2> QED BY <2>2, <2>4, <2>5, <2>6, <2>7 DEF CallInv
<1> QED BY <1>4, <1>5 DEF LastData

LEMMA SendTextKeeps == ASSUME CallInv, SendText PROVE CallInv'
<1>1. /\ view \in Views /\ (view.rec # 0 => view.rec = view.made) /\ view' = view /\ Due' = Due
  BY DEF CallInv, CallType, SendText, Due
<1>2. callLeft' \in Counts /\ callLeft.text \in Nat
  BY CanSendIs DEF SendText
<1>3. PICK g : g = Frame("message", callLeft.text)
  OBVIOUS
<1>4. g \in Frames /\ g.kind \notin Marks \cup {"face_frame", "jpeg"}
  BY <1>2, <1>3 DEF Frame, Frames, Marks, Stops
<1>5. Send(<<g>>) /\ ClientOnly /\ faces' = faces
  BY <1>3 DEF SendText
<1> QED BY <1>1, <1>2, <1>4, <1>5, PlainKeeps

LEMMA HangUpKeeps == ASSUME CallInv, HangUp PROVE CallInv'
<1>1. /\ view \in Views /\ (view.rec # 0 => view.rec = view.made) /\ callLeft \in Counts
  BY DEF CallInv, CallType
<1>2. /\ view' \in Views /\ view'.rec = view.rec /\ view'.made = view.made /\ Due' = Due
      /\ callLeft' = callLeft
  BY <1>1 DEF HangUp, Views, Due
<1>3. PICK g : g = Frame("disconnect", 0)
  OBVIOUS
<1>4. g \in Frames /\ g.kind \notin Marks \cup {"face_frame", "jpeg"}
  BY <1>3 DEF Frame, Frames, Marks, Stops
<1>5. Send(<<g>>) /\ ClientOnly /\ faces' = faces
  BY <1>3 DEF HangUp
<1> QED BY <1>1, <1>2, <1>4, <1>5, PlainKeeps

\* The announcement and its picture go together.
LEMMA SendFaceFrameKeeps == ASSUME CallInv, SendFaceFrame PROVE CallInv'
<1>1. /\ CallType /\ InOrder /\ Expected /\ NoSooner /\ Pictured /\ view \in Views
      /\ (view.rec # 0 => view.rec = view.made) /\ view' = view /\ Due' = Due
      /\ socket' = socket /\ answered' = answered /\ Up /\ ClientOnly
  BY DEF CallInv, CallType, SendFaceFrame, Due, ClientOnly, Send
<1>2. PICK n \in Nat : n = callLeft.face /\ callLeft' \in Counts
  BY CanSendIs DEF SendFaceFrame
<1>3. PICK a \in Frames, b \in Frames :
        /\ a = Frame("face_frame", n) /\ b = Frame("jpeg", n)
        /\ a.kind = "face_frame" /\ a.of = n /\ b.kind = "jpeg" /\ b.of = n
  <2>1. /\ Frame("face_frame", n) \in Frames /\ Frame("face_frame", n).kind = "face_frame"
        /\ Frame("face_frame", n).of = n
    BY DEF Frame, Frames, Marks, Stops
  <2>2. Frame("jpeg", n) \in Frames /\ Frame("jpeg", n).kind = "jpeg" /\ Frame("jpeg", n).of = n
    BY DEF Frame, Frames, Marks, Stops
  <2> QED BY <2>1, <2>2
<1>4. wire' = wire \o <<a, b>> /\ faces' = [faces EXCEPT !.sent = @ \cup {n}]
  BY <1>2, <1>3 DEF SendFaceFrame, Send
<1>5. PICK L \in Nat : L = Len(wire)
  BY <1>1, DueIs
<1>6. /\ wire' \in Seq(Frames) /\ Len(wire') = L + 2 /\ wire'[L + 1] = a /\ wire'[L + 2] = b
      /\ \A i \in 1..L : wire'[i] = wire[i]
  BY <1>1, <1>4, <1>5 DEF CallType
<1>7. /\ faces' \in [sent : SUBSET Nat, done : SUBSET Nat, heard : SUBSET Nat]
      /\ faces'.sent = faces.sent \cup {n} /\ faces'.done = faces.done
      /\ faces'.heard = faces.heard
  BY <1>1, <1>4 DEF CallType
<1>8. CallType' /\ AnswersOrdered' /\ Hearing' /\ Stored'
  BY <1>1, <1>2, <1>6, <1>7, ClientKeeps
<1>9. /\ InOrder'
      /\ \A j \in Places' : IsMark(Ahead(j)') =>
           \E k \in Places : IsMark(Ahead(k)) /\ Ahead(k).of <= Ahead(j)'.of
      /\ \A j \in Places' : FirstMark(j)' =>
           \E k \in Places : /\ FirstMark(k) /\ Ahead(k).of = Ahead(j)'.of
                             /\ Ahead(k).kind = "start" <=> Ahead(j)'.kind = "start"
  <2>1. \A i \in L + 1 .. L + 2 : i = L + 1 \/ i = L + 2
    OBVIOUS
  <2>2. ~IsMark(a) /\ ~IsMark(b)
    BY <1>3 DEF IsMark, Marks, Stops
  <2>3. \A i \in Len(wire) + 1 .. Len(wire') : ~IsMark(wire'[i])
    BY <1>5, <1>6, <2>1, <2>2
  <2>4. Len(wire') >= Len(wire) /\ \A i \in 1..Len(wire) : wire'[i] = wire[i]
    BY <1>5, <1>6
  <2> QED BY <1>1, <1>6, <2>3, <2>4, OtherSent
<1>10. Expected' /\ NoSooner'
  BY <1>1, <1>8, <1>9, ExpectedStays
<1>11. Pictured'
  <2>1. \A i \in 1..Len(wire') : i \in 1..L \/ i = L + 1 \/ i = L + 2
    BY <1>6
  <2>2. ASSUME NEW i \in 1..Len(wire'), wire'[i].kind = "face_frame"
        PROVE  i < Len(wire') /\ wire'[i + 1] = Frame("jpeg", wire'[i].of)
    <3>1. CASE i \in 1..L
      <4>1. wire'[i] = wire[i] /\ i < L /\ wire[i + 1] = Frame("jpeg", wire[i].of)
        BY <1>1, <1>5, <1>6, <2>2, <3>1 DEF Pictured
      <4> QED BY <1>6, <3>1, <4>1
    <3>2. CASE i = L + 1
      BY <1>3, <1>6, <3>2
    <3>3. CASE i = L + 2
      BY <1>3, <1>6, <2>2, <3>3
    <3> QED BY <2>1, <3>1, <3>2, <3>3
  <2>3. ASSUME NEW i \in 1..Len(wire'), wire'[i].kind = "jpeg"
        PROVE  /\ wire'[i].of \in faces'.sent
               /\ i = 1 => socket.at \in {"outer", "face", "recording", "failed", "gone"}
               /\ i > 1 => wire'[i - 1].kind = "face_frame"
    <3>1. CASE i \in 1..L
      <4>1. wire'[i] = wire[i] /\ (i > 1 => wire'[i - 1] = wire[i - 1])
        BY <1>6, <3>1
      <4> QED BY <1>1, <1>5, <1>7, <2>3, <3>1, <4>1 DEF Pictured
    <3>2. CASE i = L + 1
      BY <1>3, <1>6, <2>3, <3>2
    <3>3. CASE i = L + 2
      <4>1. i - 1 = L + 1 /\ i # 1
        BY <3>3
      <4> QED BY <1>3, <1>6, <1>7, <3>3, <4>1
    <3> QED BY <2>1, <3>1, <3>2, <3>3
  <2>4. ASSUME socket.at = "face" PROVE wire' # <<>> /\ wire'[1].kind = "jpeg"
    <3>1. wire # <<>> /\ wire[1].kind = "jpeg"
      BY <1>1, <2>4 DEF Pictured
    <3>2. 1 \in 1..L
      BY <1>1, <1>5, <3>1 DEF CallType
    <3>3. wire'[1] = wire[1] /\ Len(wire') > 0
      BY <1>6, <3>2
    <3>4. wire' # <<>>
      BY <1>6, <3>3, NotEmpty
    <3> QED BY <3>1, <3>3, <3>4
  <2>5. faces'.done \cup faces'.heard \subseteq faces'.sent
    BY <1>1, <1>7 DEF Pictured
  <2>6. ASSUME NEW m \in faces'.sent
        PROVE  \/ m \in faces.done \cup faces.heard \/ socket.at \in {"failed", "gone"}
               \/ \E i \in 1..Len(wire') : wire'[i] = Frame("jpeg", m)
    <3>1. CASE m = n
      <4>1. L + 2 \in 1..Len(wire') /\ wire'[L + 2] = Frame("jpeg", m)
        BY <1>3, <1>6, <3>1
      <4> QED BY <4>1
    <3>2. CASE m \in faces.sent
      <4>1. (\E i \in 1..Len(wire) : wire[i] = Frame("jpeg", m)) =>
              \E i \in 1..Len(wire') : wire'[i] = Frame("jpeg", m)
        BY <1>5, <1>6
      <4> QED BY <1>1, <3>2, <4>1 DEF Pictured
    <3> QED BY <1>7, <3>1, <3>2
  <2> QED BY <1>1, <1>7, <2>2, <2>3, <2>4, <2>5, <2>6 DEF Pictured
<1> QED BY <1>8, <1>9, <1>10, <1>11 DEF CallInv

-----------------------------------------------------------------------------
LEMMA CallInitial == CallInit => CallInv
<1> SUFFICES ASSUME CallInit PROVE CallInv
  OBVIOUS
<1>1. CallType
  BY CallAssumption DEF CallInit, CallType, Views, Counts, Sockets, Waits
<1>2. Len(wire) = 0 /\ Places = {1} /\ DOMAIN answered = {}
  BY DEF CallInit, Places
<1>3. InOrder
  BY <1>2 DEF InOrder
<1>4. Expected /\ NoSooner /\ AnswersOrdered
  BY <1>2 DEF CallInit, Expected, NoSooner, Voiced, Spoken, AnswersOrdered
<1>5. Hearing /\ Stored
  BY <1>2 DEF CallInit, Hearing, Stored
<1>6. Pictured
  BY <1>2 DEF CallInit, Pictured
<1> QED BY <1>1, <1>3, <1>4, <1>5, <1>6 DEF CallInv

LEMMA CallStays == ASSUME CallInv, UNCHANGED callVars PROVE CallInv'
<1>1. /\ view' = view /\ callLeft' = callLeft /\ wire' = wire /\ socket' = socket
      /\ callThreads' = callThreads /\ spoken' = spoken /\ answered' = answered
      /\ faces' = faces
  BY DEF callVars
<1>2. /\ CallType /\ InOrder /\ Expected /\ NoSooner /\ AnswersOrdered /\ Hearing /\ Stored
      /\ Pictured
  BY DEF CallInv
<1>3. Places' = Places /\ \A i : Ahead(i)' = Ahead(i)
  BY <1>1 DEF Places, Ahead, Due
<1>4. CallType' /\ InOrder' /\ AnswersOrdered' /\ Hearing' /\ Stored' /\ Pictured'
  BY <1>1, <1>2, <1>3 DEF CallType, InOrder, AnswersOrdered, Hearing, Stored, Pictured
<1>5. Expected' /\ NoSooner'
  BY <1>1, <1>2, <1>3 DEF Expected, FirstMark, NoSooner, Voiced
<1> QED BY <1>4, <1>5 DEF CallInv

LEMMA CallStep == ASSUME CallInv, [CallNext]_callVars PROVE CallInv'
<1>1. CASE UNCHANGED callVars
  BY <1>1, CallStays
<1>2. ASSUME NEW kind \in {"final", "cancel"}, StopRecording(kind) PROVE CallInv'
  BY <1>2, StopRecordingKeeps DEF Stops
<1> QED
  BY <1>1, <1>2, StartRecordingKeeps, SendChunkKeeps, SendFaceFrameKeeps, SendTextKeeps,
     HangUpKeeps, LastDataKeeps, AuthenticateKeeps, ReceiveKeeps, VerifyFaceKeeps,
     TranscribeKeeps, HearKeeps, SpeakAnswerKeeps, SendFailsKeeps, AnswerTurnKeeps
  DEF CallNext

LEMMA CallInvSound == ASSUME CallInv PROVE CallsSound
<1>1. /\ CallType /\ AnswersOrdered /\ Hearing /\ Stored /\ Pictured
  BY DEF CallInv
<1>2. OwnAudio
  <2> SUFFICES ASSUME socket.at = "transcribe", NEW f \in Range(socket.audio), f.kind = "chunk"
               PROVE  f.of = socket.turn[2]
    BY DEF OwnAudio
  <2>1. PICK i \in DOMAIN socket.audio : f = socket.audio[i]
    BY DEF Range
  <2> QED BY <1>1, <2>1 DEF Hearing
<1>3. OneThread
  BY <1>1 DEF OneThread, Stored
<1>4. Announced
  <2>1. \A a \in DOMAIN answered : answered[a].turn # <<>>
    <3> SUFFICES ASSUME NEW a \in DOMAIN answered PROVE answered[a].turn # <<>>
      OBVIOUS
    <3>1. PICK t \in CallTurns : t = answered[a].turn
      <4>1. answered[a] \in Replies
        BY <1>1 DEF CallType
      <4> QED BY <4>1 DEF Replies
    <3>2. t = <<t[1], t[2]>>
      BY DEF CallTurns
    <3>3. Len(<<t[1], t[2]>>) = 2 /\ Len(<<>>) = 0
      OBVIOUS
    <3> QED BY <3>1, <3>2, <3>3
  <2> QED BY <1>1, <2>1 DEF Announced, Stored, AnswersOrdered, Spoken
<1>5. FacesSeen
  <2> SUFFICES ASSUME socket.at = "outer", wire = <<>> PROVE faces.sent = faces.done \cup faces.heard
    BY DEF FacesSeen
  <2>1. \A i \in 1..Len(wire) : FALSE
    OBVIOUS
  <2> QED BY <1>1, <2>1 DEF Pictured
<1> QED BY <1>2, <1>3, <1>4, <1>5 DEF CallsSound

\* What the handler transcribes, stores, announces and answers of a call is what it was sent
\* for it (video_call.py), however the frames of the client and its waits interleave.
THEOREM CallsAreSound == CallSpec => []CallsSound
<1>1. CallInv /\ [CallNext]_callVars => CallInv'
  BY CallStep
<1>2. CallInv => CallsSound
  BY CallInvSound
<1> QED BY CallInitial, <1>1, <1>2, PTL DEF CallSpec
=============================================================================
