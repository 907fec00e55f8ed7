-------------------------------- MODULE Guard --------------------------------
(***************************************************************************)
(* The identity guard of one owner (services/identity_guard.py): the       *)
(* suspicion score, the lockout and the challenges, Redis keys that expire,*)
(* and the list of known devices.  A request reads a key, waits for Redis, *)
(* the database or the AI service, and writes the key back.  What a        *)
(* detector answers, and whether an answer to a challenge is right, are    *)
(* inputs.  Time moves in half hours: SUSPICION_TTL is two of them,        *)
(* LOCKOUT_TTL one, and a challenge (five minutes) may end at any moment.  *)
(***************************************************************************)
EXTENDS Integers, Sequences

CONSTANTS
  Checks,        \* messages of the owner being checked
  Answers,       \* answers to challenges being judged
  Deltas,        \* what the detectors other than the device add to the score
  Devices,       \* client addresses
  Challenges,    \* identifiers of challenges
  KnownMax,      \* how many addresses are remembered (10)
  MaxCheck,      \* bound: checks begun
  MaxTick        \* bound: half hours

ASSUME GuardAssumption ==
  /\ Deltas \subseteq Nat /\ {MaxCheck, MaxTick} \subseteq Nat /\ KnownMax \in Nat \ {0}

VARIABLES
  score, ttl,    \* the score (0 when the key is absent), half hours until it expires
  lock,          \* half hours left of the lockout
  known,         \* the remembered addresses, oldest first
  chal,          \* what a challenge is: "new", "soft", "hard" or "gone"
  check, answer, \* the requests
  earned,        \* all that requests were entitled to add to the score
  guardLeft      \* the bounds: checks and half hours left

guardVars == <<score, ttl, lock, known, chal, check, answer, earned, guardLeft>>

ThresholdSoft == 30
ThresholdHard == 60
ThresholdLockout == 80
ScoreNewDevice == 15
Clamp(n) == IF n < 0 THEN 0 ELSE IF n > 100 THEN 100 ELSE n

NoCheck == [pc |-> "idle", sum |-> 0, hit |-> FALSE, ip |-> 0, list |-> <<>>]
NoAnswer == [pc |-> "idle", on |-> 0, passed |-> FALSE, held |-> 0]
Listed(list) == {list[k] : k \in 1..Len(list)}

GuardInit ==
  /\ score = 0 /\ ttl = 0 /\ lock = 0
  /\ known \in {<<>>} \cup {<<d>> : d \in Devices}
  /\ chal = [c \in Challenges |-> "new"]
  /\ check = [s \in Checks |-> NoCheck] /\ answer = [s \in Answers |-> NoAnswer]
  /\ earned = 0 /\ guardLeft = [check |-> MaxCheck, tick |-> MaxTick]

(***************************************************************************)
(* check().  A message while the lockout lasts, or of another role, changes*)
(* nothing.  BeginCheck reads the score, and the detectors answer d.       *)
(***************************************************************************)
BeginCheck(s, d) ==
  /\ check[s].pc = "idle" /\ lock = 0 /\ guardLeft.check > 0
  /\ check' = [check EXCEPT ![s] = [NoCheck EXCEPT !.pc = "detect", !.sum = score + d, !.hit = d # 0]]
  /\ earned' = earned + d /\ guardLeft' = [guardLeft EXCEPT !.check = @ - 1]
  /\ UNCHANGED <<score, ttl, lock, known, chal, answer>>

\* _check_new_device() reads the list; without an address, or from a known one, it
\* adds nothing
CheckNewDevice(s, ip) ==
  /\ check[s].pc = "detect"
  /\ check' = [check EXCEPT ![s] = IF ip \in Listed(known) THEN [@ EXCEPT !.pc = "score"]
                                    ELSE [@ EXCEPT !.pc = "device", !.ip = ip, !.list = known]]
  /\ UNCHANGED <<score, ttl, lock, known, chal, answer, earned, guardLeft>>

KeepLast(list) == IF Len(list) > KnownMax THEN Tail(list) ELSE list

\* and writes it back with the new address, which it reports unless it is the only one
RememberDevice(s) ==
  LET c == check[s]
      list == KeepLast(Append(c.list, c.ip))
      add == IF Len(list) > 1 THEN ScoreNewDevice ELSE 0 IN
  /\ c.pc = "device" /\ known' = list
  /\ check' = [check EXCEPT ![s].pc = "score", ![s].sum = @ + add, ![s].hit = @ \/ add # 0]
  /\ earned' = earned + add
  /\ UNCHANGED <<score, ttl, lock, chal, answer, guardLeft>>

SetScore(s) ==
  /\ check[s].pc = "score"
  /\ score' = Clamp(check[s].sum) /\ ttl' = 2
  /\ check' = [check EXCEPT ![s].pc = "respond", ![s].sum = Clamp(@)]
  /\ UNCHANGED <<lock, known, chal, answer, earned, guardLeft>>

\* the events, if any, are committed, and the score decides what follows
Challenge(s) ==
  /\ check[s].pc = "respond" /\ check' = [check EXCEPT ![s] = NoCheck]
  /\ \/ check[s].sum < ThresholdSoft /\ UNCHANGED <<lock, chal>>
     \/ check[s].hit /\ UNCHANGED <<lock, chal>>     \* the commit of the events failed
     \/ check[s].sum >= ThresholdLockout /\ lock' = 1 /\ UNCHANGED chal
     \/ /\ check[s].sum \in ThresholdSoft..(ThresholdLockout - 1) /\ UNCHANGED lock
        /\ \E c \in Challenges :
             /\ chal[c] = "new"
             /\ chal' = [chal EXCEPT ![c] = IF check[s].sum >= ThresholdHard THEN "hard" ELSE "soft"]
  /\ UNCHANGED <<score, ttl, known, answer, earned, guardLeft>>

(***************************************************************************)
(* evaluate_challenge().  A challenge that is gone changes nothing.        *)
(***************************************************************************)
Live(c) == chal[c] \in {"soft", "hard"}

\* BadBeginAnswer is a faulty variant of the definition that follows it, for the mutation
\* runs only.
BadBeginAnswer(s, c, passed) ==
  /\ answer[s].pc = "idle" /\ chal[c] # "new"
  /\ answer' = [answer EXCEPT ![s] = [pc |-> "judge", on |-> c, passed |-> passed, held |-> 0]]
  /\ earned' = IF passed \/ ~Live(c) THEN earned ELSE earned + 20
  /\ UNCHANGED <<score, ttl, lock, known, chal, check, guardLeft>>

BeginAnswer(s, c, passed) ==
  /\ answer[s].pc = "idle" /\ Live(c)
  /\ answer' = [answer EXCEPT ![s] = [pc |-> "judge", on |-> c, passed |-> passed, held |-> 0]]
  /\ earned' = IF passed THEN earned ELSE earned + 20
  /\ UNCHANGED <<score, ttl, lock, known, chal, check, guardLeft>>

JudgeAnswer(s) ==
  /\ answer[s].pc = "judge"
  /\ chal' = [chal EXCEPT ![answer[s].on] = "gone"]
  /\ answer' = [answer EXCEPT ![s].pc = "score", ![s].held = score]
  /\ UNCHANGED <<score, ttl, lock, known, check, earned, guardLeft>>

EvaluateChallenge(s) ==
  LET a == answer[s] IN
  /\ a.pc = "score" /\ answer' = [answer EXCEPT ![s] = NoAnswer]
  /\ score' = Clamp(IF a.passed THEN a.held - 40 ELSE a.held + 20) /\ ttl' = 2
  /\ lock' = IF a.passed THEN 0 ELSE lock
  /\ UNCHANGED <<known, chal, check, earned, guardLeft>>

ExpireChallenge(c) ==
  /\ Live(c) /\ chal' = [chal EXCEPT ![c] = "gone"]
  /\ UNCHANGED <<score, ttl, lock, known, check, answer, earned, guardLeft>>

HalfHour ==
  /\ guardLeft.tick > 0 /\ guardLeft' = [guardLeft EXCEPT !.tick = @ - 1]
  /\ lock' = Clamp(lock - 1) /\ ttl' = Clamp(ttl - 1)
  /\ score' = IF ttl <= 1 THEN 0 ELSE score
  /\ chal' = [c \in Challenges |-> IF Live(c) THEN "gone" ELSE chal[c]]
  /\ UNCHANGED <<known, check, answer, earned>>

GuardNext ==
  \/ \E s \in Checks :
       \/ \E d \in Deltas : BeginCheck(s, d)
       \/ \E ip \in Devices : CheckNewDevice(s, ip)
       \/ RememberDevice(s) \/ SetScore(s) \/ Challenge(s)
  \/ \E s \in Answers :
       \/ \E c \in Challenges, passed \in BOOLEAN : BeginAnswer(s, c, passed)
       \/ JudgeAnswer(s) \/ EvaluateChallenge(s)
  \/ \E c \in Challenges : ExpireChallenge(c)
  \/ HalfHour

GuardSpec == GuardInit /\ [][GuardNext]_guardVars

-----------------------------------------------------------------------------
\* However checks, answers and expiries interleave, and whatever a late write
\* brings back, the score never exceeds what the detectors and the wrong answers
\* to challenges that were alive added up to: nothing is counted twice, and an
\* answer to a challenge that is gone counts for nothing.
ScoreBacked == score <= earned
=============================================================================
