---------------------------- MODULE MCHousehold -----------------------------
\* The components around one owner that share no state (the identity guard, the
\* limiter of sign-ins, family access, legacy mode, the sign-ins, two-factor
\* authentication, the exports, the exchange of messages, the calls) in one run: each
\* behaviour moves one of them, chosen at the start.
EXTENDS Guard, RateLimit, Access, Legacy, Sessions, TwoFactor, Exports, Exchange, VoiceCall

CONSTANTS t1, t2, c1, d1, g3, m1, m2

VARIABLE scene

MScopes ==
  {[full |-> TRUE, types |-> All, categories |-> All]}
  \cup {[full |-> FALSE, types |-> t, categories |-> c] : t \in {All, {t1}}, c \in {{}, {c1}}}
  \cup {[full |-> FALSE, types |-> {}, categories |-> All]}
MKnowledge == {t1, t2} \X {c1, NoCategory}
MAccessStarts ==
  {[edit |-> 1, invite |-> 0, code |-> 1], [edit |-> 0, invite |-> 0, code |-> 4],
   [edit |-> 0, invite |-> 2, code |-> 0], [edit |-> 1, invite |-> 1, code |-> 0]}
MNoCall == [chunk |-> 2, face |-> 0, text |-> 1, cancel |-> 0]
MCallStarts == {MNoCall, [chunk |-> 2, face |-> 1, text |-> 0, cancel |-> 1]}
MExchangeStarts ==
  {[outage |-> 1, lost |-> 1, tick |-> 0], [outage |-> 0, lost |-> 0, tick |-> 2],
   [outage |-> 1, lost |-> 0, tick |-> 1]}
MBrowserOf == [t \in Tabs |-> IF t = g3 THEN m2 ELSE m1]

Init == /\ scene \in {"guard", "limit", "access", "legacy", "sessions", "factor", "exports",
                    "exchange", "call"}
        /\ GuardInit /\ LimitInit /\ AccessInit /\ LegacyInit /\ SessionsInit
        /\ TwoFactorInit /\ ExportsInit /\ ExchangeInit /\ CallInit
        /\ scene # "exchange" => exchangeLeft.outage = 0
        /\ scene # "call" => callLeft = MNoCall
        /\ known \in IF scene = "guard" THEN {<<>>, <<d1>>} ELSE {<<>>}
        /\ scene # "access" => accessLeft.code = 4

Guarding ==
  /\ scene = "guard"
  /\ UNCHANGED <<scene, limitVars, accessVars, legacyVars, sessionVars, factorVars,
                 exportVars, exchangeVars, callVars>>
Limiting ==
  /\ scene = "limit"
  /\ UNCHANGED <<scene, guardVars, accessVars, legacyVars, sessionVars, factorVars,
                 exportVars, exchangeVars, callVars>>
Visiting ==
  /\ scene = "access"
  /\ UNCHANGED <<scene, guardVars, limitVars, legacyVars, sessionVars, factorVars,
                 exportVars, exchangeVars, callVars>>
Waiting ==
  /\ scene = "legacy"
  /\ UNCHANGED <<scene, guardVars, limitVars, accessVars, sessionVars, factorVars,
                 exportVars, exchangeVars, callVars>>
Signing ==
  /\ scene = "sessions"
  /\ UNCHANGED <<scene, guardVars, limitVars, accessVars, legacyVars, factorVars,
                 exportVars, exchangeVars, callVars>>
Proving ==
  /\ scene = "factor"
  /\ UNCHANGED <<scene, guardVars, limitVars, accessVars, legacyVars, sessionVars,
                 exportVars, exchangeVars, callVars>>
Exporting ==
  /\ scene = "exports"
  /\ UNCHANGED <<scene, guardVars, limitVars, accessVars, legacyVars, sessionVars,
                 factorVars, exchangeVars, callVars>>
Exchanging ==
  /\ scene = "exchange"
  /\ UNCHANGED <<scene, guardVars, limitVars, accessVars, legacyVars, sessionVars,
                 factorVars, exportVars, callVars>>
Calling ==
  /\ scene = "call"
  /\ UNCHANGED <<scene, guardVars, limitVars, accessVars, legacyVars, sessionVars,
                 factorVars, exportVars, exchangeVars>>

\* The actions of the next-state relations of the modules, one by one, so that TLC
\* counts each of them.
Next ==
  \/ \E s \in Checks, d \in Deltas : Guarding /\ BeginCheck(s, d)
  \/ \E s \in Checks, ip \in Devices : Guarding /\ CheckNewDevice(s, ip)
  \/ \E s \in Checks : Guarding /\ RememberDevice(s)
  \/ \E s \in Checks : Guarding /\ SetScore(s)
  \/ \E s \in Checks : Guarding /\ Challenge(s)
  \/ \E s \in Answers, c \in Challenges, passed \in BOOLEAN : Guarding /\ BeginAnswer(s, c, passed)
  \/ \E s \in Answers : Guarding /\ JudgeAnswer(s)
  \/ \E s \in Answers : Guarding /\ EvaluateChallenge(s)
  \/ \E c \in Challenges : Guarding /\ ExpireChallenge(c)
  \/ Guarding /\ HalfHour
  \/ \E s \in Logins : Limiting /\ CheckLockout(s)
  \/ \E s \in Logins : Limiting /\ CheckAttempts(s)
  \/ \E s \in Logins : Limiting /\ LockOut(s)
  \/ \E s \in Logins : Limiting /\ DeleteAttempts(s)
  \/ \E s \in Logins : Limiting /\ Verify(s)
  \/ \E s \in Logins : Limiting /\ RecordAttempt(s)
  \/ \E s \in Logins : Limiting /\ ExpireAttempts(s)
  \/ \E s \in Logins : Limiting /\ ClearAttempts(s)
  \/ Limiting /\ WindowEnds
  \/ Limiting /\ LockoutEnds
  \/ Limiting /\ LimitCrash
  \/ \E r \in Rules, s \in Scopes : Visiting /\ CreateRule(r, s)
  \/ \E r \in Rules, s \in Scopes, state \in {"active", "off"} : Visiting /\ UpdateRule(r, s, state)
  \/ \E r \in Rules : Visiting /\ DeleteRule(r)
  \/ \E i \in Invites, r \in Rules, max \in 1..MaxUses : Visiting /\ GenerateInvite(i, r, max)
  \/ \E i \in Invites : Visiting /\ ExpireInvite(i)
  \/ \E v \in Visitors, i \in Invites : Visiting /\ MatchInvite(v, i)
  \/ \E v \in Visitors : Visiting /\ CheckRule(v)
  \/ \E v \in Visitors : Visiting /\ UseInvite(v)
  \/ \E r \in Rules : Visiting /\ FamilyLogin(r)
  \/ \E q \in Openers : Visiting /\ EnsureFamilyCode(q)
  \/ \E q \in Openers : Visiting /\ RegenerateFamilyCode(q)
  \/ \E q \in Openers : Visiting /\ AssignNewFamilyCode(q)
  \/ Waiting /\ NextDay
  \/ Waiting /\ EditOwner
  \/ Waiting /\ Speak
  \/ Waiting /\ BeginPass
  \/ Waiting /\ ReadOwner
  \/ \E trigger \in {"manual", "inactivity", "trusted_person"} : Waiting /\ ConfigureLegacy(trigger)
  \/ \E a \in Activators : Waiting /\ BeginActivate(a)
  \/ \E a \in Actors : Waiting /\ Activate(a)
  \/ \E a \in Actors : Waiting /\ Abandon(a)
  \/ \E t \in Tabs : Signing /\ SignIn(t)
  \/ \E t \in Tabs : Signing /\ StoreRefreshToken(t)
  \/ \E t \in Tabs : Signing /\ Answer(t)
  \/ \E t \in Tabs : Signing /\ TryRefresh(t)
  \/ \E t \in Tabs : Signing /\ RefreshTokens(t)
  \/ \E t \in Tabs : Signing /\ Revoke(t)
  \/ \E t \in Tabs : Signing /\ SignOut(t)
  \/ \E t \in Tabs : Signing /\ Logout(t)
  \/ \E t \in Tabs : Signing /\ ClearTokens(t)
  \/ Signing /\ Tomorrow
  \/ Signing /\ Death
  \/ \E q \in Requests : Proving /\ BeginSetup(q)
  \/ \E q \in Requests : Proving /\ Setup(q)
  \/ \E q \in Requests, op \in {"verify", "delete"}, n \in 1..MaxSetup, c \in BackupCodes \cup {"app"} :
       Proving /\ BeginVerify(q, op, <<n, c>>)
  \/ \E q \in Requests : Proving /\ Verify2FA(q)
  \/ \E q \in Requests : Proving /\ Disable(q)
  \/ \E q \in Requests : Proving /\ Abort(q)
  \/ \E e \in Exported : Exporting /\ CreateExport(e)
  \/ \E e \in Exported : Exporting /\ BuildArchive(e)
  \/ \E e \in Exported : Exporting /\ StopBuilding(e)
  \/ \E d \in Downloads, e \in Exported : Exporting /\ Download(d, e)
  \/ \E d \in Downloads : Exporting /\ MarkDownloaded(d)
  \/ \E d \in Downloads : Exporting /\ Serve(d)
  \/ \E d \in Downloads : Exporting /\ DropDownload(d)
  \/ \E s \in Services : Exchanging /\ Fail(s)
  \/ \E s \in Services : Exchanging /\ Recover(s)
  \/ Exchanging /\ Tick
  \/ \E m \in Messages, via \in {"rest", "ws"}, long \in BOOLEAN : Exchanging /\ Ask(m, via, "owner", long)
  \/ \E m \in Messages, via \in Family, v \in Relatives : Exchanging /\ Ask(m, via, v, FALSE)
  \/ \E m \in Messages, via \in Family, v \in Relatives : Exchanging /\ RefuseTopic(m, via, v)
  \/ \E m \in Messages : Exchanging /\ Announce(m)
  \/ \E m \in Messages : Exchanging /\ IngestOwnerText(m)
  \/ \E m \in Messages : Exchanging /\ SendLearning(m)
  \/ \E m \in Messages : Exchanging /\ LoadContext(m)
  \/ \E m \in Messages : Exchanging /\ Search(m)
  \/ \E m \in Messages : Exchanging /\ GenerateAnswer(m)
  \/ \E m \in Messages : Exchanging /\ LoseReply(m)
  \/ \E m \in Messages : Exchanging /\ CommitExchange(m)
  \/ \E m \in Messages : Exchanging /\ Track(m)
  \/ \E m \in Messages : Exchanging /\ SendReply(m)
  \/ \E m \in Messages : Exchanging /\ Die(m)
  \/ Calling /\ StartRecording
  \/ Calling /\ SendChunk
  \/ Calling /\ SendFaceFrame
  \/ Calling /\ SendText
  \/ Calling /\ HangUp
  \/ \E kind \in {"final", "cancel"} : Calling /\ StopRecording(kind)
  \/ \E u \in 1..MaxRecordings : Calling /\ LastData(u)
  \/ \E good \in BOOLEAN : Calling /\ Authenticate(good)
  \/ Calling /\ Receive
  \/ Calling /\ VerifyFace
  \/ \E result \in {"speech", "empty", "error"} : Calling /\ Transcribe(result)
  \/ Calling /\ Hear
  \/ \E works \in BOOLEAN : Calling /\ AnswerTurn(works)
  \/ Calling /\ SpeakAnswer
  \/ Calling /\ SendFails

Spec == Init /\ [][Next]_<<scene, guardVars, limitVars, accessVars, legacyVars, sessionVars,
                           factorVars, exportVars, exchangeVars, callVars>>
=============================================================================
