------------------------------ MODULE VoiceCall ------------------------------
(***************************************************************************)
(* A voice or video call: what the view sends (video-call-view.tsx over    *)
(* use-video-socket.ts) and the handler of its socket (video_call.py;      *)
(* voice_chat.py is the same loop without face frames and status).         *)
(* Frames keep their order on the wire; the handler takes the next one     *)
(* wherever it happens to be waiting.                                      *)
(***************************************************************************)
EXTENDS Integers, FiniteSets, Sequences, Functions

CONSTANTS
  MaxAudio,          \* the chunks that fit in voice_max_audio_mb
  MaxRecordings, MaxWire,   \* bounds on the recordings, and on the frames under way
  CallStarts         \* bounds on the other things the client sends

ASSUME CallAssumption ==
  /\ {MaxAudio, MaxRecordings, MaxWire} \subseteq Nat
  /\ CallStarts \subseteq [{"chunk", "face", "text", "cancel"} -> Nat]

VARIABLES
  view,          \* the client: the recording under way, those whose last data is due
  callLeft,      \* the bounds that are left
  wire,          \* the frames sent and not yet received
  socket,        \* the handler: where it waits, for which turn, with what audio
  callThreads,   \* the threads made so far
  spoken,        \* the turns whose question and answer are committed
  taught,        \* the turns ingested as knowledge
  answered,      \* ghost: the answers sent, in order
  faces          \* ghost: the face frames sent, answered, and taken for audio

callVars == <<view, callLeft, wire, socket, callThreads, spoken, taught, answered, faces>>

Frame(kind, of) == [kind |-> kind, of |-> of]
Binary == {"chunk", "last", "jpeg"}
Receiving == {"outer", "recording", "single", "face"}
Up == socket.at \notin {"auth", "failed", "gone"}

CallInit ==
  /\ view = [rec |-> 0, made |-> 0, due |-> {}, up |-> TRUE]
  /\ callLeft \in CallStarts
  /\ wire = <<>>
  /\ socket = [at |-> "auth", turn |-> <<>>, audio |-> <<>>, thread |-> 0, in |-> 0]
  /\ callThreads = 0 /\ spoken = {} /\ taught = {} /\ answered = <<>>
  /\ faces = [sent |-> {}, done |-> {}, heard |-> {}]

-----------------------------------------------------------------------------
(* The client.  It sends nothing before auth_ok.                           *)

Send(frames) == view.up /\ Up /\ Len(wire) < MaxWire /\ wire' = wire \o frames
CanSend(what) == callLeft[what] > 0 /\ callLeft' = [callLeft EXCEPT ![what] = @ - 1]
ClientOnly == UNCHANGED <<socket, callThreads, spoken, taught, answered>>

\* The effect that records while connected and not muted.
StartRecording ==
  /\ view.rec = 0 /\ view.made < MaxRecordings
  /\ view' = [view EXCEPT !.rec = view.made + 1, !.made = @ + 1]
  /\ Send(<<Frame("start", view.made + 1)>>)
  /\ ClientOnly /\ UNCHANGED <<callLeft, faces>>

SendChunk ==
  /\ view.rec # 0 /\ CanSend("chunk") /\ Send(<<Frame("chunk", view.rec)>>)
  /\ ClientOnly /\ UNCHANGED <<view, faces>>

\* The clean-up of that effect: stop() hands over the last data later, is_final goes now.
\* Cancelling is the hook's cancelAudio.
StopRecording(kind) ==
  /\ view.rec # 0 /\ (IF kind = "cancel" THEN CanSend("cancel") ELSE UNCHANGED callLeft)
  /\ view' = [view EXCEPT !.rec = 0, !.due = @ \cup {view.rec}]
  /\ Send(<<Frame(kind, view.rec)>>)
  /\ ClientOnly /\ UNCHANGED faces

\* ondataavailable after stop(): an empty blob is not sent.
LastData(u) ==
  /\ u \in view.due /\ view' = [view EXCEPT !.due = @ \ {u}]
  /\ Send(<<Frame("last", u)>>) \/ (view.up /\ Up /\ UNCHANGED wire)
  /\ ClientOnly /\ UNCHANGED <<callLeft, faces>>

\* Every five seconds, recording or not.
SendFaceFrame ==
  LET n == callLeft.face IN
    /\ CanSend("face") /\ Send(<<Frame("face_frame", n), Frame("jpeg", n)>>)
    /\ faces' = [faces EXCEPT !.sent = @ \cup {n}]
    /\ ClientOnly /\ UNCHANGED view

SendText ==
  /\ CanSend("text") /\ Send(<<Frame("message", callLeft.text)>>)
  /\ ClientOnly /\ UNCHANGED <<view, faces>>

HangUp ==
  /\ Send(<<Frame("disconnect", 0)>>) /\ view' = [view EXCEPT !.up = FALSE]
  /\ ClientOnly /\ UNCHANGED <<callLeft, faces>>

-----------------------------------------------------------------------------
(* The handler.                                                            *)

SendAnswer(turn, answer) ==
  answered' = Append(answered, [turn |-> turn, answer |-> answer, in |-> socket.in])
ServerOnly == UNCHANGED <<view, callLeft>>
Apart == UNCHANGED <<callThreads, spoken, taught>>

\* The token of the query or of a first message: anything wrong with it closes the socket.
Authenticate(good) ==
  /\ socket.at = "auth" /\ socket' = [socket EXCEPT !.at = IF good THEN "outer" ELSE "failed"]
  /\ ServerOnly /\ Apart /\ UNCHANGED <<wire, answered, faces>>

\* BadOuter is a faulty variant of the definition that follows it, for the mutation runs
\* only.
BadOuter(c) == [c EXCEPT !.at = "outer"]

\* The head of the loop.
Outer(c) == [c EXCEPT !.at = "outer", !.turn = <<>>, !.audio = <<>>, !.in = 0]

\* Where the handler is after a frame at the head of its loop.  receive_text on a
\* binary frame raises KeyError, which ends in close code 1011.
Listen(f) ==
  CASE f.kind = "start" -> [socket EXCEPT !.at = "recording", !.turn = <<"audio", f.of>>]
    [] f.kind = "final" -> [socket EXCEPT !.at = "single", !.turn = <<"audio", f.of>>]
    [] f.kind = "face_frame" -> [socket EXCEPT !.at = "face"]
    [] f.kind = "message" -> [socket EXCEPT !.at = "hear", !.turn = <<"text", f.of>>]
    [] f.kind \in Binary -> [socket EXCEPT !.at = "failed"]
    [] f.kind = "disconnect" -> [socket EXCEPT !.at = "gone"]
    [] OTHER -> socket

Recorded(c) == IF c.audio = <<>> THEN Outer(c) ELSE [c EXCEPT !.at = "transcribe"]

\* Where it is after a frame of a recording: any binary frame is audio, a control
\* other than is_final and cancel is passed over, the frame that is too much is dropped.
Record(f) ==
  CASE f.kind \in Binary -> IF Len(socket.audio) = MaxAudio THEN Recorded(socket)
                            ELSE [socket EXCEPT !.audio = Append(@, f)]
    [] f.kind = "final" -> Recorded(socket)
    [] f.kind = "cancel" -> Outer(socket)
    [] f.kind = "disconnect" -> [socket EXCEPT !.at = "gone"]
    [] OTHER -> socket

\* is_final without a start: the one frame that follows is the audio, or is lost.
Single(f) ==
  CASE f.kind \in Binary -> [socket EXCEPT !.audio = <<f>>, !.at = "transcribe"]
    [] f.kind = "disconnect" -> [socket EXCEPT !.at = "gone"]
    [] OTHER -> Outer(socket)

Receive ==
  /\ socket.at \in Receiving \ {"face"} /\ wire # <<>> /\ wire' = Tail(wire)
  /\ socket' = CASE socket.at = "outer" -> Listen(Head(wire))
               [] socket.at = "recording" -> Record(Head(wire))
               [] socket.at = "single" -> Single(Head(wire))
  /\ faces' = IF socket.at = "recording" /\ Head(wire).kind = "jpeg"
              THEN [faces EXCEPT !.heard = @ \cup {Head(wire).of}] ELSE faces
  /\ ServerOnly /\ Apart /\ UNCHANGED answered

\* Whatever follows face_frame is answered with a face_result, an error of the
\* verification and a missing picture too.
VerifyFace ==
  /\ socket.at = "face" /\ wire # <<>> /\ wire' = Tail(wire)
  /\ IF Head(wire).kind = "disconnect"
     THEN socket' = [socket EXCEPT !.at = "gone"] /\ UNCHANGED faces
     ELSE socket' = Outer(socket) /\ faces' = [faces EXCEPT !.done = @ \cup {Head(wire).of}]
  /\ ServerOnly /\ Apart /\ UNCHANGED answered

Transcribe(result) ==
  /\ socket.at = "transcribe"
  /\ IF result = "speech" THEN socket' = [socket EXCEPT !.at = "hear"] /\ UNCHANGED answered
     ELSE SendAnswer(socket.turn, result) /\ socket' = Outer(socket)
  /\ ServerOnly /\ Apart /\ UNCHANGED <<wire, faces>>

\* The thread of the call or a new one; the question is flushed and, from the owner,
\* ingested, and a failed ingestion is only logged.
Hear ==
  /\ socket.at = "hear"
  /\ socket' = [socket EXCEPT !.at = "generate",
                          !.in = IF socket.thread = 0 THEN callThreads + 1 ELSE socket.thread]
  /\ callThreads' = IF socket.thread = 0 THEN callThreads + 1 ELSE callThreads
  /\ taught' = taught \cup {socket.turn} \/ UNCHANGED taught
  /\ ServerOnly /\ UNCHANGED <<wire, spoken, answered, faces>>

\* Question and answer are committed together; an error rolls back and ends the call.
\* Only a spoken turn is remembered as the thread of the call.
AnswerTurn(works) ==
  /\ socket.at = "generate"
  /\ IF works
     THEN /\ spoken' = spoken \cup {<<socket.turn, socket.in>>}
          /\ socket' = [socket EXCEPT !.at = "speak",
                                  !.thread = IF socket.turn[1] = "audio" THEN socket.in ELSE @]
     ELSE socket' = [socket EXCEPT !.at = "failed"] /\ UNCHANGED spoken
  /\ ServerOnly /\ UNCHANGED <<wire, callThreads, taught, answered, faces>>

\* A speech that fails is silence, or an error before the done.
SpeakAnswer ==
  /\ socket.at = "speak" /\ SendAnswer(socket.turn, "done") /\ socket' = Outer(socket)
  /\ ServerOnly /\ Apart /\ UNCHANGED <<wire, faces>>

\* A send to a client that has hung up ends the handler.
SendFails ==
  /\ ~view.up /\ socket.at \in {"face", "transcribe", "hear", "speak"}
  /\ socket' = [socket EXCEPT !.at = "gone"]
  /\ ServerOnly /\ Apart /\ UNCHANGED <<wire, answered, faces>>

CallNext ==
  \/ StartRecording \/ SendChunk \/ SendFaceFrame \/ SendText \/ HangUp
  \/ \E kind \in {"final", "cancel"} : StopRecording(kind)
  \/ \E u \in 1..MaxRecordings : LastData(u)
  \/ \E good \in BOOLEAN : Authenticate(good)
  \/ Receive \/ VerifyFace
  \/ \E result \in {"speech", "empty", "error"} : Transcribe(result)
  \/ Hear \/ SpeakAnswer \/ SendFails
  \/ \E works \in BOOLEAN : AnswerTurn(works)

CallSpec == CallInit /\ [][CallNext]_callVars

-----------------------------------------------------------------------------
\* What is transcribed for a recording holds no sound that was sent in another one: audio
\* of a turn that failed, was cancelled or was too large is gone.  Only the last data of
\* the recording before may get in, when it is handed over after the new one starts.
OwnAudio ==
  socket.at = "transcribe" =>
    \A f \in Range(socket.audio) : f.kind = "chunk" => f.of = socket.turn[2]

\* The spoken turns of a call are all in one thread.
OneThread ==
  \A h, g \in spoken : h[1][1] = "audio" /\ g[1][1] = "audio" => h[2] = g[2]

\* An answer is announced only when it is stored where it says, and in the order of the
\* recordings (one that was too large may be answered twice: its is_final takes the last
\* data for another turn); what is stored was announced unless the call ended.
Announced ==
  /\ \A i \in DOMAIN answered : answered[i].answer = "done" =>
       <<answered[i].turn, answered[i].in>> \in spoken
  /\ \A i, j \in DOMAIN answered :
       i < j /\ answered[i].turn[1] = "audio" /\ answered[j].turn[1] = "audio" =>
         answered[i].turn[2] <= answered[j].turn[2]
  /\ \A h \in spoken :
       \/ \E i \in DOMAIN answered : answered[i].turn = h[1]
       \/ socket.at \in {"speak", "failed", "gone"}

\* A face frame is answered unless it came during a recording, and then it is heard
\* as sound; a control that takes the place of its announcement ends the call.
FacesSeen == socket.at = "outer" /\ wire = <<>> => faces.sent = faces.done \cup faces.heard

CallsSound == OwnAudio /\ OneThread /\ Announced /\ FacesSeen
=============================================================================
