------------------------------ MODULE Exchange -------------------------------
(***************************************************************************)
(* One message to the replica and its answer, over the routes of           *)
(* routers/chat.py and routers/family_chat.py, through the client of the   *)
(* AI service (core/ai_client.py with core/retry.py) and the service's     *)
(* retrieval and generation, with the model (Ollama), the vectors (Qdrant) *)
(* and Redis failing and coming back.  The fallback of core/degraded.py is *)
(* called by nothing and is no part of it.                                 *)
(***************************************************************************)
EXTENDS Integers, FiniteSets

CONSTANTS
  Messages,      \* the messages sent
  Relatives,      \* the threads of family members
  Attempts,      \* retry_ollama_attempts
  SessionTtl,    \* FAMILY_SESSION_TTL, in clock ticks
  ExchangeStarts \* bounds: failures of a service, lost replies and deaths, clock ticks

ASSUME ExchangeAssumption ==
  /\ {Attempts, SessionTtl} \subseteq Nat \ {0}
  /\ ExchangeStarts \subseteq [{"outage", "lost", "tick"} -> Nat]

VARIABLES
  up,            \* which of "ollama", "qdrant", "redis" answer
  turn,          \* the handler of each message
  history,       \* the messages table: what is committed, of which exchange
  vectors,       \* the vectors of ingested messages, by the attempt that made them
  entries,       \* the rows of knowledge_entries
  session,       \* family:session: the tick its key expires at
  clock,
  told,          \* what the client was told in the end
  learned,       \* ghost: the messages a client was told had been learned
  cause,         \* ghost: what failed a message's generation
  asked,         \* ghost: the family member who sent a message
  untracked,     \* ghost: the messages whose session could not be noted
  exchangeLeft   \* the bounds that are left

exchangeVars == <<up, turn, history, vectors, entries, session, clock, told, learned, cause,
                  asked, untracked,
                 exchangeLeft>>

Services == {"ollama", "qdrant", "redis"}
Streamed == {"ws", "familyws"}
Family == {"family", "familyws"}
NoTurn == [pc |-> "idle", via |-> "rest", who |-> "owner", tries |-> 0, entry |-> 0, got |-> FALSE,
           pending |-> {}]
Once(what) == exchangeLeft[what] > 0 /\ exchangeLeft' = [exchangeLeft EXCEPT ![what] = @ - 1]
At(m, pc) == turn[m].pc = pc
Go(m, pc) == turn' = [turn EXCEPT ![m].pc = pc, ![m].tries = 0]
StoredOf(m) == {h.what : h \in {g \in history : g.of = m}}
Row(m, what) == [of |-> m, what |-> what, at |-> clock]

ExchangeInit ==
  /\ up = Services
  /\ turn = [m \in Messages |-> NoTurn]
  /\ history = {} /\ vectors = {} /\ entries = {}
  /\ session = [v \in Relatives |-> 0] /\ clock = 1
  /\ told = [m \in Messages |-> "nothing"]
  /\ learned = {} /\ cause = [m \in Messages |-> {}] /\ untracked = {}
  /\ asked = {}
  /\ exchangeLeft \in ExchangeStarts

Fail(s) ==
  /\ s \in up /\ Once("outage") /\ up' = up \ {s}
  /\ UNCHANGED <<turn, history, vectors, entries, session, clock, told, learned, cause, asked,
                 untracked>>

Recover(s) ==
  /\ s \notin up /\ up' = up \cup {s}
  /\ UNCHANGED <<turn, history, vectors, entries, session, clock, told, learned, cause, asked,
                 untracked, exchangeLeft>>

Tick ==
  /\ Once("tick") /\ clock' = clock + 1
  /\ UNCHANGED <<up, turn, history, vectors, entries, session, told, learned, cause, asked, untracked>>

-----------------------------------------------------------------------------
(* Asking.                                                                  *)

\* The question is flushed into the open transaction.  Only an owner's text of more
\* than 20 characters is ingested.
Ask(m, via, who, long) ==
  /\ At(m, "idle") /\ told[m] = "nothing" /\ (via \in Family) = (who \in Relatives)
  /\ turn' = [turn EXCEPT ![m] = [NoTurn EXCEPT
       !.via = via, !.who = who, !.pending = {"question"},
       !.pc = IF long /\ via \notin Family THEN "ingest"
              ELSE IF via = "familyws" THEN "announce" ELSE "context"]]
  /\ asked' = IF via \in Family THEN asked \cup {<<m, who>>} ELSE asked
  /\ UNCHANGED <<up, history, vectors, entries, session, clock, told, learned, cause, untracked,
                 exchangeLeft>>

\* A topic the rule blocks is refused without asking the model: both are committed.
RefuseTopic(m, via, v) ==
  /\ At(m, "idle") /\ told[m] = "nothing" /\ via \in Family
  /\ turn' = [turn EXCEPT ![m] = [NoTurn EXCEPT !.via = via, !.who = v, !.pc = "track"]]
  /\ history' = history \cup {Row(m, "question"), Row(m, "refusal")}
  /\ asked' = asked \cup {<<m, v>>}
  /\ UNCHANGED <<up, vectors, entries, session, clock, told, learned, cause, untracked,
                 exchangeLeft>>

\* The stream for a family member commits the question before it asks the model.
Announce(m) ==
  /\ At(m, "announce") /\ history' = history \cup {Row(m, "question")}
  /\ turn' = [turn EXCEPT ![m].pc = "track", ![m].pending = {}]
  /\ UNCHANGED <<up, vectors, entries, session, clock, told, learned, cause, asked,
                 untracked, exchangeLeft>>

\* The service embeds the text under an entry of its own at every attempt.  A reply
\* that is lost on the way is a timeout, and the attempt is repeated.  A failure is
\* logged and the exchange goes on.
IngestOwnerText(m) ==
  LET try == turn[m].tries + 1
      On == IF turn[m].via = "ws" THEN "learning" ELSE "context" IN
  /\ At(m, "ingest")
  /\ \/ /\ {"ollama", "qdrant"} \subseteq up
        /\ vectors' = vectors \cup {<<m, try>>}
        /\ \/ turn' = [turn EXCEPT ![m].pc = On, ![m].tries = 0, ![m].entry = try]
              /\ UNCHANGED exchangeLeft
           \/ /\ Once("lost")
              /\ turn' = [turn EXCEPT ![m].pc = IF try < Attempts THEN "ingest" ELSE "context",
                                      ![m].tries = IF try < Attempts THEN try ELSE 0]
     \/ /\ ~{"ollama", "qdrant"} \subseteq up /\ Go(m, "context")
        /\ UNCHANGED <<vectors, exchangeLeft>>
  /\ UNCHANGED <<up, history, entries, session, clock, told, learned, cause, asked,
                 untracked>>

\* The socket's learning frame goes out before the transaction ends.
SendLearning(m) ==
  /\ At(m, "learning") /\ learned' = learned \cup {m} /\ Go(m, "context")
  /\ UNCHANGED <<up, history, vectors, entries, session, clock, told, cause, asked, untracked,
                 exchangeLeft>>

\* load_context reads the summary from Redis and lets its error through.
LoadContext(m) ==
  /\ At(m, "context")
  /\ IF "redis" \in up THEN Go(m, "search") /\ UNCHANGED told
     ELSE turn' = [turn EXCEPT ![m] = NoTurn] /\ told' = [told EXCEPT ![m] = "error"]
  /\ UNCHANGED <<up, history, vectors, entries, session, clock, learned, cause, asked, untracked,
                 exchangeLeft>>

-----------------------------------------------------------------------------
(* Generation: the service searches, which needs model and vectors, then    *)
(* lets the model answer.  Its errors are HTTP 502, which is not retried;   *)
(* in a stream they are an event without a type, which is passed over.      *)

\* What a generation that ended early leaves to be stored.  A broken connection is an
\* exception, after which there is an apology unless tokens came.
EndStream(m, broken) ==
  LET text == IF turn[m].got THEN "part" ELSE IF broken THEN "apology" ELSE "empty" IN
  turn' = [turn EXCEPT ![m].pc = "commit", ![m].tries = 0, ![m].pending = @ \cup {text}]

\* The routes that answer at once: the exception leaves the handler and the open
\* transaction is rolled back.
\* BadRollBack and the other definitions named Bad... are faulty variants of the
\* definition that follows them, for the mutation runs only.
BadRollBack(m) == turn' = [turn EXCEPT ![m] = NoTurn] /\ told' = [told EXCEPT ![m] = "apology"]

RollBack(m) == turn' = [turn EXCEPT ![m] = NoTurn] /\ told' = [told EXCEPT ![m] = "unavailable"]

GenerationFails(m, why) ==
  /\ cause' = [cause EXCEPT ![m] = @ \cup {why}]
  /\ IF turn[m].via \in Streamed THEN EndStream(m, FALSE) /\ UNCHANGED told ELSE RollBack(m)

Search(m) ==
  /\ At(m, "search")
  /\ \/ {"ollama", "qdrant"} \subseteq up /\ turn' = [turn EXCEPT ![m].pc = "generate"]
        /\ UNCHANGED <<cause, told>>
     \/ \E s \in {"ollama", "qdrant"} \ up : GenerationFails(m, s)
  /\ UNCHANGED <<up, history, vectors, entries, session, clock, learned, asked, untracked,
                 exchangeLeft>>

GenerateAnswer(m) ==
  /\ At(m, "generate")
  /\ \/ /\ "ollama" \in up /\ UNCHANGED <<cause, told>>
        /\ \/ turn' = [turn EXCEPT ![m].pc = "commit", ![m].tries = 0,
                                   ![m].pending = @ \cup {"answer"}]
           \/ turn[m].via \in Streamed /\ ~turn[m].got /\ turn' = [turn EXCEPT ![m].got = TRUE]
     \/ "ollama" \notin up /\ GenerationFails(m, "ollama")
  /\ UNCHANGED <<up, history, vectors, entries, session, clock, learned, asked, untracked,
                 exchangeLeft>>

\* The connection to the service breaks: a call is repeated from its beginning, a
\* stream cannot be.  A client that has gone while tokens are sent to it ends the
\* stream in the same way.
LoseReply(m) ==
  /\ turn[m].pc \in {"search", "generate"} /\ Once("lost")
  /\ IF turn[m].via \in Streamed
     THEN /\ EndStream(m, TRUE) /\ UNCHANGED told
          /\ cause' = [cause EXCEPT ![m] = @ \cup {"network"}]
     ELSE IF turn[m].tries + 1 < Attempts
     THEN turn' = [turn EXCEPT ![m].pc = "search", ![m].tries = @ + 1] /\ UNCHANGED <<cause, told>>
     ELSE RollBack(m) /\ cause' = [cause EXCEPT ![m] = @ \cup {"network"}]
  /\ UNCHANGED <<up, history, vectors, entries, session, clock, learned, asked, untracked>>

-----------------------------------------------------------------------------
(* The end of an exchange.                                                  *)

CommitExchange(m) ==
  /\ At(m, "commit")
  /\ history' = history \cup {Row(m, what) : what \in turn[m].pending}
  /\ entries' = IF turn[m].entry = 0 THEN entries ELSE entries \cup {<<m, turn[m].entry>>}
  /\ turn' = [turn EXCEPT ![m].pc = IF turn[m].via = "family" THEN "track" ELSE "reply"]
  /\ UNCHANGED <<up, vectors, session, clock, told, learned, cause, asked,
                 untracked, exchangeLeft>>

BadTrackSession(m) ==
  session' = [session EXCEPT ![turn[m].who] = IF @ > clock THEN @ ELSE clock + SessionTtl]

TrackSession(m) == session' = [session EXCEPT ![turn[m].who] = clock + SessionTtl]

\* Notifying the owner follows and swallows its errors.
Track(m) ==
  /\ At(m, "track")
  /\ IF "redis" \in up
     THEN /\ TrackSession(m) /\ UNCHANGED <<told, untracked>>
          /\ Go(m, IF StoredOf(m) = {"question"} THEN "context" ELSE "reply")
     ELSE /\ turn' = [turn EXCEPT ![m] = NoTurn] /\ told' = [told EXCEPT ![m] = "error"]
          /\ untracked' = untracked \cup {m} /\ UNCHANGED session
  /\ UNCHANGED <<up, history, vectors, entries, clock, learned, cause, asked, exchangeLeft>>

SendReply(m) ==
  /\ At(m, "reply") /\ turn' = [turn EXCEPT ![m] = NoTurn]
  /\ told' = [told EXCEPT ![m] = CHOOSE w \in StoredOf(m) : w # "question"]
  /\ UNCHANGED <<up, history, vectors, entries, session, clock, learned, cause, asked, untracked,
                 exchangeLeft>>

\* The process of the API dies, or a socket whose client has gone fails to send.
Die(m) ==
  /\ turn[m] # NoTurn /\ Once("lost")
  /\ turn' = [turn EXCEPT ![m] = NoTurn] /\ told' = [told EXCEPT ![m] = "error"]
  /\ untracked' = IF At(m, "track") THEN untracked \cup {m} ELSE untracked
  /\ UNCHANGED <<up, history, vectors, entries, session, clock, learned, cause, asked>>

ExchangeNext ==
  \/ \E s \in Services : Fail(s) \/ Recover(s)
  \/ Tick
  \/ \E m \in Messages :
       \/ \E via \in {"rest", "ws"}, long \in BOOLEAN : Ask(m, via, "owner", long)
       \/ \E via \in Family, v \in Relatives : Ask(m, via, v, FALSE) \/ RefuseTopic(m, via, v)
       \/ Announce(m) \/ IngestOwnerText(m) \/ SendLearning(m) \/ LoadContext(m) \/ Search(m)
       \/ GenerateAnswer(m) \/ LoseReply(m) \/ CommitExchange(m) \/ Track(m)
       \/ SendReply(m) \/ Die(m)

ExchangeSpec == ExchangeInit /\ [][ExchangeNext]_exchangeVars

-----------------------------------------------------------------------------
\* A question is stored with one answer, and alone only by the stream for a family
\* member, under way or stopped in between.
Paired ==
  \A m \in Messages : StoredOf(m) # {} =>
    /\ "question" \in StoredOf(m) /\ Cardinality(StoredOf(m)) <= 2
    /\ StoredOf(m) = {"question"} => turn[m].via = "familyws" \/ told[m] = "error"

\* What the client is told is what is stored: an answer, the tokens of one that broke
\* off, an apology, nothing at all, and nothing is stored of what was unavailable.
AnswerStored ==
  \A m \in Messages :
    /\ told[m] \notin {"nothing", "unavailable", "error"} => told[m] \in StoredOf(m)
    /\ told[m] = "unavailable" => StoredOf(m) = {} /\ cause[m] # {}
    /\ told[m] \in {"part", "apology", "empty"} => cause[m] # {}

\* A message is one row of knowledge at most, stored with its answer, and its vectors
\* are there; vectors no row names come of attempts whose reply was lost before, or of
\* an exchange that was not stored.  What was announced as learned is, but for that.
Taught ==
  /\ entries \subseteq vectors
  /\ \A e \in entries :
       /\ "question" \in StoredOf(e[1])
       /\ \A w \in vectors : w[1] = e[1] => w[2] <= e[2]
  /\ \A m \in learned : At(m, "idle") /\ told[m] # "error" => \E e \in entries : e[1] = m

\* A thread in which a family member's message was stored within the hour is among the
\* active sessions, unless the session could not be noted or is about to be.
SessionsShown ==
  \A h \in history :
    h.what \in {"question", "refusal"} /\ h.at + SessionTtl > clock /\ h.of \notin untracked =>
      \/ turn[h.of].pc = "track"
      \/ \A v \in Relatives : <<h.of, v>> \in asked => session[v] > clock

\* An exchange leaves messages, knowledge and session that agree with one another and
\* with what the client was told.
ExchangeSound == Paired /\ AnswerStored /\ Taught /\ SessionsShown

\* docs/websocket-protocol.md, "Degraded mode": without Qdrant the server "still
\* processes messages but falls back to plain generation without RAG".
DegradedAnswers ==
  \A m \in Messages : cause[m] = {"qdrant"} /\ At(m, "idle") => told[m] = "answer"
=============================================================================
