---------------------------- MODULE BillingProofs ----------------------------
(***************************************************************************)
(* Type correctness of Billing, and what holds of the charges however many *)
(* workers, requests and webhooks overlap: what was paid for is kept, a    *)
(* charge that is recorded is repeated only if its pass overlapped another *)
(* worker's, and auto-pay that is off stops the charges.                   *)
(***************************************************************************)
EXTENDS Billing, FiniteSetTheorems, TLAPS

-----------------------------------------------------------------------------
(* A session's UPDATE leaves a well-formed row. *)
LEMMA MergeType ==
  ASSUME NEW cur \in Row, NEW old \in Row, NEW new \in Row
  PROVE  Merge(cur, old, new) \in Row
BY DEF Merge, Row

LEMMA LeaveType ==
  ASSUME NEW row \in Row
  PROVE  LeaveSurvival(row) \in Row
<1>1. ExitSurvival(row) \in Row
  BY DEF ExitSurvival, Row
<1>2. QED BY <1>1 DEF LeaveSurvival

LEMMA MergeColumns ==
  ASSUME NEW cur, NEW old, NEW new
  PROVE  /\ Merge(cur, old, new).expires = IF new.expires = old.expires
                                          THEN cur.expires ELSE new.expires
         /\ Merge(cur, old, new).next = IF new.next = old.next
                                       THEN cur.next ELSE new.next
BY DEF Merge

(* Every computation on a snapshot yields a well-formed row. *)
LEMMA RenewType ==
  ASSUME NEW row \in Row, NEW now \in Day
  PROVE  RenewSucceeded(row, now) \in Row /\ RenewFailed(row, now) \in Row
<1>1. now + Period \in Day /\ row.count \in Nat
  BY BillingAssumption DEF Day, Row
<1>2. [row EXCEPT !.expires = now + Period, !.count = 0, !.next = None] \in Row
  BY <1>1 DEF Row
<1>3. RenewFailed(row, now) \in Row
  <2> DEFINE n == row.count + 1
             counted == [row EXCEPT !.count = n]
  <2>1. n \in Nat /\ now + n \in Day
    BY <1>1 DEF Day
  <2>2. counted \in Row
    BY <2>1 DEF Row
  <2> HIDE DEF n, counted
  <2>3. [counted EXCEPT !.next = now + n] \in Row
    BY <2>1, <2>2 DEF Row
  <2>4. EnterSurvival(counted, now) \in Row
    BY <2>2 DEF EnterSurvival, Row
  <2>5. QED
    BY <2>3, <2>4 DEF RenewFailed, n, counted
<1>4. QED
  BY <1>2, <1>3, LeaveType DEF RenewSucceeded

LEMMA WebhookType ==
  ASSUME NEW row \in Row, NEW now \in Day
  PROVE  /\ InvoiceSucceeded(row, now) \in Row
         /\ InvoiceFailed(row, now) \in Row
         /\ SubscriptionDeleted(row) \in Row
<1>1. now + Period \in Day /\ row.count + 1 \in Nat
  BY BillingAssumption DEF Day, Row
<1>2. [row EXCEPT !.expires = now + Period, !.count = 0] \in Row
  BY <1>1 DEF Row
<1>3. InvoiceFailed(row, now) \in Row
  <2>1. [row EXCEPT !.count = row.count + 1] \in Row
    BY <1>1 DEF Row
  <2>2. EnterSurvival([row EXCEPT !.count = row.count + 1], now) \in Row
    BY <2>1 DEF EnterSurvival, Row
  <2>3. QED BY <2>1, <2>2 DEF InvoiceFailed
<1>4. SubscriptionDeleted(row) \in Row
  BY DEF SubscriptionDeleted, Row
<1>5. QED
  BY <1>2, <1>3, <1>4, LeaveType DEF InvoiceSucceeded

LEMMA SubscribedType ==
  ASSUME NEW row \in Row, NEW now \in Day, NEW s \in SubId
  PROVE  Subscribed(row, s, now) \in Row
<1>1. now + Period \in Day
  BY BillingAssumption DEF Day
<1>2. [row EXCEPT !.sub = s, !.auto = TRUE, !.expires = now + Period] \in Row
  BY <1>1 DEF Row
<1>3. QED
  BY <1>2, LeaveType DEF Subscribed

-----------------------------------------------------------------------------
LEMMA TypeInit == Init => TypeOK
BY BillingAssumption DEF Init, TypeOK, NewRow, Row, Day, SubStatus, SubId

LEMMA StartPassType ==
  ASSUME TypeOK, NEW w \in Worker, StartPass(w)
  PROVE  TypeOK'
<1>1. ASSUME NEW v \in Worker PROVE pass'[v] \in Pass \cup {None}
  <2>1. CASE v = w
    BY <2>1 DEF TypeOK, StartPass, Pass, Day
  <2>2. CASE v # w /\ pass[v] # None
    <3>1. pass'[v] = [pass[v] EXCEPT !.alone = FALSE] /\ pass[v] \in Pass
      BY <2>2 DEF TypeOK, StartPass
    <3> QED BY <3>1 DEF Pass
  <2>3. CASE v # w /\ pass[v] = None
    BY <2>3 DEF StartPass
  <2> QED BY <2>1, <2>2, <2>3
<1>2. pass' \in [Worker -> Pass \cup {None}]
  BY <1>1 DEF StartPass
<1> QED BY <1>2 DEF TypeOK, StartPass

LEMMA PayType ==
  ASSUME TypeOK, NEW w \in Worker, NEW o \in Owner, NEW known \in BOOLEAN, Selected(w, o),
         Pay(w, o, known)
  PROVE  ledger' \in [Owner -> Seq(Charge)] /\ unwilled' \in [Owner -> Nat]
<1>1. [day |-> day, known |-> known, alone |-> pass[w].alone] \in Charge
  BY DEF TypeOK, Selected, Pass, Charge
<1>2. ledger' \in [Owner -> Seq(Charge)]
  BY <1>1 DEF Pay, TypeOK
<1>3. unwilled' \in [Owner -> Nat]
  BY DEF Pay, TypeOK
<1> QED BY <1>2, <1>3

LEMMA CheckOwnerType ==
  ASSUME TypeOK, NEW w \in Worker, NEW o \in Owner,
         CheckOwner(w, o)
  PROVE  TypeOK'
<1> DEFINE row == pass[w].snap[o]
<1>1. Selected(w, o) /\ pass[w] \in Pass /\ row \in Row /\ day \in Day
  BY DEF CheckOwner, CheckIdle, CheckCharged, CheckDeclined, Selected, TypeOK, Pass
<1>2. ASSUME NEW new \in Row, PassDone(w, o, new)
      PROVE  pass' \in [Worker -> Pass \cup {None}]
  BY <1>1, <1>2 DEF PassDone, Pass, TypeOK
<1>3. ASSUME NEW new \in Row, Commit(o, row, new)
      PROVE  db' \in [Owner -> Row]
  BY <1>1, <1>3, MergeType DEF Commit, TypeOK
<1>4. RenewSucceeded(row, day) \in Row /\ RenewFailed(row, day) \in Row
  BY <1>1, RenewType
<1>5. CASE CheckIdle(w, o)
  BY <1>1, <1>2, <1>5 DEF CheckIdle, TypeOK
<1>6. CASE CheckCharged(w, o)
  <2>1. db' \in [Owner -> Row] /\ pass' \in [Worker -> Pass \cup {None}]
    BY <1>2, <1>3, <1>4, <1>6 DEF CheckCharged
  <2>2. ledger' \in [Owner -> Seq(Charge)] /\ unwilled' \in [Owner -> Nat]
    BY <1>1, <1>6, PayType DEF CheckCharged
  <2>3. QED BY <1>6, <2>1, <2>2 DEF CheckCharged, TypeOK
<1>7. CASE CheckDeclined(w, o)
  <2>1. db' \in [Owner -> Row] /\ pass' \in [Worker -> Pass \cup {None}]
    BY <1>2, <1>3, <1>4, <1>7 DEF CheckDeclined
  <2>2. ledger' \in [Owner -> Seq(Charge)] /\ unwilled' \in [Owner -> Nat] /\ faults' \in Nat
    <3>1. CASE UNCHANGED <<ledger, unwilled, faults>>
      BY <3>1 DEF TypeOK
    <3>2. CASE Pay(w, o, FALSE) /\ Fault
      <4>1. ledger' \in [Owner -> Seq(Charge)] /\ unwilled' \in [Owner -> Nat]
        BY <1>1, <3>2, PayType
      <4>2. faults' \in Nat
        BY <3>2 DEF Fault, TypeOK
      <4> QED BY <4>1, <4>2
    <3> QED BY <1>7, <3>1, <3>2 DEF CheckDeclined
  <2>3. QED BY <1>7, <2>1, <2>2 DEF CheckDeclined, TypeOK
<1>8. QED
  BY <1>5, <1>6, <1>7 DEF CheckOwner

LEMMA CrashPassType ==
  ASSUME TypeOK, NEW w \in Worker, NEW o \in Owner, CrashPass(w, o)
  PROVE  TypeOK'
<1>1. ledger' \in [Owner -> Seq(Charge)] /\ unwilled' \in [Owner -> Nat]
  BY PayType DEF CrashPass, TypeOK
<1>2. pass' \in [Worker -> Pass \cup {None}] /\ faults' \in Nat
  BY DEF CrashPass, Fault, TypeOK
<1>3. QED
  BY <1>1, <1>2 DEF CrashPass, TypeOK

LEMMA BeginType ==
  ASSUME TypeOK, NEW r \in Request, NEW op \in Op, NEW o \in Owner, Begin(r, op, o)
  PROVE  request' \in [Request -> Handler \cup {None}]
BY DEF TypeOK, Begin, Handler

LEMMA StartRequestType ==
  ASSUME TypeOK, NEW r \in Request, NEW op \in Op, NEW o \in Owner,
         StartRequest(r, op, o)
  PROVE  TypeOK'
BY BeginType DEF TypeOK, StartRequest

LEMMA DeliverType ==
  ASSUME TypeOK, NEW r \in Request, NEW e \in events, Deliver(r, e)
  PROVE  TypeOK'
<1>1. e.type \in Op /\ e.owner \in Owner
  BY DEF TypeOK, Event, Op
<1>2. request' \in [Request -> Handler \cup {None}]
  BY <1>1, BeginType DEF Deliver
<1>3. QED
  BY <1>2 DEF TypeOK, Deliver

(* The rest of a handler: the committed row is well-formed if the handler's *)
(* own copy is.                                                            *)
LEMMA SaveType ==
  ASSUME TypeOK, NEW r \in Request, request[r] # None, NEW new \in Row, Save(r, new)
  PROVE  db' \in [Owner -> Row] /\ unwilled' \in [Owner -> Nat]
<1>1. request[r].owner \in Owner /\ request[r].snap \in Row
  BY DEF TypeOK, Handler
<1>2. QED
  BY <1>1, MergeType DEF Save, Commit, TypeOK

LEMMA FinishRequestType ==
  ASSUME TypeOK, NEW r \in Request, FinishRequest(r)
  PROVE  TypeOK'
<1> DEFINE h == request[r]
<1>1. request' = [request EXCEPT ![r] = None] /\ h # None
  BY DEF FinishRequest, FinishRejected, FinishSetup, FinishCancel, FinishAutoPay,
         FinishSucceeded, FinishFailed, FinishDeleted, FinishSubscribe, Finish
<1>2. /\ request' \in [Request -> Handler \cup {None}]
      /\ h \in Handler /\ h.owner \in Owner /\ h.snap \in Row /\ day \in Day
  BY <1>1 DEF TypeOK, Handler
<1>3. CASE FinishRejected(r)
  BY <1>2, <1>3 DEF FinishRejected, TypeOK
<1>4. CASE FinishSetup(r)
  <2>1. [h.snap EXCEPT !.customer = TRUE] \in Row
    BY <1>2 DEF Row
  <2>2. db' \in [Owner -> Row] /\ unwilled' \in [Owner -> Nat]
    BY <1>1, <1>4, <2>1, SaveType DEF FinishSetup
  <2>3. QED BY <1>2, <1>4, <2>2 DEF FinishSetup, TypeOK
<1>5. CASE FinishCancel(r)
  <2>1. [h.snap EXCEPT !.auto = FALSE] \in Row
    BY <1>2 DEF Row
  <2>2. db' \in [Owner -> Row] /\ unwilled' \in [Owner -> Nat]
    BY <1>1, <1>5, <2>1, SaveType DEF FinishCancel
  <2>3. subs' \in [Owner -> [SubId -> SubStatus]]
    BY <1>2, <1>5 DEF FinishCancel, TypeOK, SubStatus
  <2>4. QED BY <1>2, <1>5, <2>2, <2>3 DEF FinishCancel, TypeOK
<1>6. CASE FinishAutoPay(r)
  <2>1. \A on \in BOOLEAN : [h.snap EXCEPT !.auto = on] \in Row
    BY <1>2 DEF Row
  <2>2. db' \in [Owner -> Row] /\ unwilled' \in [Owner -> Nat]
    BY <1>1, <1>6, <2>1, SaveType DEF FinishAutoPay
  <2>3. QED BY <1>2, <1>6, <2>2 DEF FinishAutoPay, TypeOK
<1>7. CASE FinishSucceeded(r)
  <2>1. db' \in [Owner -> Row] /\ unwilled' \in [Owner -> Nat]
    BY <1>1, <1>2, <1>7, WebhookType, SaveType DEF FinishSucceeded
  <2>2. QED BY <1>2, <1>7, <2>1 DEF FinishSucceeded, TypeOK
<1>8. CASE FinishFailed(r)
  <2>1. db' \in [Owner -> Row] /\ unwilled' \in [Owner -> Nat]
    BY <1>1, <1>2, <1>8, WebhookType, SaveType DEF FinishFailed
  <2>2. QED BY <1>2, <1>8, <2>1 DEF FinishFailed, TypeOK
<1>9. CASE FinishDeleted(r)
  <2>1. db' \in [Owner -> Row] /\ unwilled' \in [Owner -> Nat]
    BY <1>1, <1>2, <1>9, WebhookType, SaveType DEF FinishDeleted
  <2>2. QED BY <1>2, <1>9, <2>1 DEF FinishDeleted, TypeOK
<1>10. ASSUME NEW s \in SubId, FinishSubscribe(r, s)
       PROVE  TypeOK'
  <2>1. db' \in [Owner -> Row] /\ unwilled' \in [Owner -> Nat]
    BY <1>1, <1>2, <1>10, SubscribedType, SaveType DEF FinishSubscribe
  <2>2. subs' \in [Owner -> [SubId -> SubStatus]]
    BY <1>2, <1>10 DEF FinishSubscribe, TypeOK, SubStatus
  <2>3. QED BY <1>2, <1>10, <2>1, <2>2 DEF FinishSubscribe, TypeOK
<1>11. QED
  BY <1>3, <1>4, <1>5, <1>6, <1>7, <1>8, <1>9, <1>10 DEF FinishRequest

LEMMA EnvironmentType ==
  ASSUME TypeOK, NEW o \in Owner
  PROVE  /\ \A s \in SubId : SettleInvoice(o, s) => TypeOK'
         /\ \A s \in SubId : EndSubscription(o, s) => TypeOK'
         /\ Tick => TypeOK'
<1>2. ASSUME NEW s \in SubId, SettleInvoice(o, s) PROVE TypeOK'
  <2>1. events' \in SUBSET Event
    BY <1>2 DEF SettleInvoice, TypeOK, Event, EventType
  <2>2. subs' \in [Owner -> [SubId -> SubStatus]]
    BY <1>2 DEF SettleInvoice, TypeOK, SubStatus
  <2>3. QED BY <1>2, <2>1, <2>2 DEF SettleInvoice, TypeOK
<1>3. ASSUME NEW s \in SubId, EndSubscription(o, s) PROVE TypeOK'
  <2>1. events' \in SUBSET Event
    BY <1>3 DEF EndSubscription, TypeOK, Event, EventType
  <2>2. subs' \in [Owner -> [SubId -> SubStatus]]
    BY <1>3 DEF EndSubscription, TypeOK, SubStatus
  <2>3. QED BY <1>3, <2>1, <2>2 DEF EndSubscription, TypeOK
<1>4. ASSUME Tick PROVE TypeOK'
  BY <1>4 DEF TypeOK, Tick, Day
<1>5. QED BY <1>2, <1>3, <1>4

(* Every column, session and Stripe object keeps its type. *)
THEOREM BillingTypeOK == Spec => []TypeOK
<1>1. TypeOK /\ [Next]_vars => TypeOK'
  <2> SUFFICES ASSUME TypeOK, [Next]_vars PROVE TypeOK'
    OBVIOUS
  <2>1. CASE UNCHANGED vars
    BY <2>1 DEF vars, TypeOK
  <2>2. ASSUME NEW w \in Worker, StartPass(w) PROVE TypeOK'
    BY <2>2, StartPassType
  <2>3. ASSUME NEW w \in Worker, NEW o \in Owner, CheckOwner(w, o) \/ CrashPass(w, o)
        PROVE  TypeOK'
    BY <2>3, CheckOwnerType, CrashPassType
  <2>4. ASSUME NEW r \in Request, NEW o \in Owner, NEW op \in Op, StartRequest(r, op, o)
        PROVE  TypeOK'
    BY <2>4, StartRequestType
  <2>5. ASSUME NEW r \in Request, NEW e \in events, Deliver(r, e) PROVE TypeOK'
    BY <2>5, DeliverType
  <2>6. ASSUME NEW r \in Request, FinishRequest(r) PROVE TypeOK'
    BY <2>6, FinishRequestType
  <2>7. CASE Tick
    BY <2>7 DEF TypeOK, Tick, Day
  <2>8. QED
    BY <2>1, <2>2, <2>3, <2>4, <2>5, <2>6, <2>7, EnvironmentType DEF Next
<1>2. QED
  BY TypeInit, <1>1, PTL DEF Spec

-----------------------------------------------------------------------------
(* The charges of any number of workers.                                    *)

(* What every handler but the declined renewal does to a row: the expiry is *)
(* kept or moved to a period from today, the retry day is kept or cleared.  *)
RowStep(o) ==
  /\ db'[o].expires \in {db[o].expires, day + Period}
  /\ db'[o].next \in {db[o].next, None}

LEMMA CommitRow ==
  ASSUME TypeOK, NEW o \in Owner, NEW old \in Row, NEW new \in Row, Commit(o, old, new),
         new.expires \in {old.expires, day + Period},
         new.next \in {old.next, None}
  PROVE  \A p \in Owner : RowStep(p)
<1>1. db'[o] = Merge(db[o], old, new) /\ \A p \in Owner \ {o} : db'[p] = db[p]
  BY DEF Commit, TypeOK
<1>2. RowStep(o)
  BY <1>1 DEF RowStep, Merge
<1>3. QED
  BY <1>1, <1>2 DEF RowStep

LEMMA LeaveRow ==
  ASSUME NEW row \in Row
  PROVE  /\ LeaveSurvival(row).expires = row.expires
         /\ LeaveSurvival(row).next \in {row.next, None}
BY DEF LeaveSurvival, ExitSurvival, Row

LEMMA FinishRequestRow ==
  ASSUME TypeOK, NEW r \in Request, FinishRequest(r)
  PROVE  \A o \in Owner : RowStep(o)
<1> DEFINE h == request[r]
<1>1. h # None
  BY DEF FinishRequest, FinishRejected, FinishSetup, FinishCancel, FinishAutoPay,
         FinishSucceeded, FinishFailed, FinishDeleted, FinishSubscribe, Finish
<1>2. /\ h.owner \in Owner /\ h.snap \in Row /\ day \in Day
      /\ day + Period \in Day
  BY <1>1, BillingAssumption DEF TypeOK, Handler, Day
<1>3. ASSUME NEW new \in Row, Save(r, new),
             new.expires \in {h.snap.expires, day + Period},
             new.next \in {h.snap.next, None}
      PROVE  \A o \in Owner : RowStep(o)
  BY <1>2, <1>3, CommitRow DEF Save
<1>4. CASE FinishRejected(r)
  BY <1>4 DEF FinishRejected, RowStep
<1>5. CASE FinishSetup(r)
  <2> DEFINE new == [h.snap EXCEPT !.customer = TRUE]
  <2>1. new \in Row /\ new.expires = h.snap.expires /\ new.next = h.snap.next
    BY <1>2 DEF Row
  <2>2. QED BY <1>3, <1>5, <2>1 DEF FinishSetup
<1>6. CASE FinishCancel(r)
  <2> DEFINE new == [h.snap EXCEPT !.auto = FALSE]
  <2>1. new \in Row /\ new.expires = h.snap.expires /\ new.next = h.snap.next
    BY <1>2 DEF Row
  <2>2. QED BY <1>3, <1>6, <2>1 DEF FinishCancel
<1>7. CASE FinishAutoPay(r)
  <2>1. PICK on \in BOOLEAN : Save(r, [h.snap EXCEPT !.auto = on])
    BY <1>7 DEF FinishAutoPay
  <2> DEFINE new == [h.snap EXCEPT !.auto = on]
  <2>2. new \in Row /\ new.expires = h.snap.expires /\ new.next = h.snap.next
    BY <1>2 DEF Row
  <2>3. QED BY <1>3, <2>1, <2>2
<1>8. CASE FinishSucceeded(r)
  <2> DEFINE paid == [h.snap EXCEPT !.expires = day + Period, !.count = 0]
  <2>1. paid \in Row /\ paid.expires = day + Period /\ paid.next = h.snap.next
    BY <1>2 DEF Row
  <2>2. InvoiceSucceeded(h.snap, day) = LeaveSurvival(paid)
    BY DEF InvoiceSucceeded
  <2>3. QED BY <1>3, <1>8, <2>1, <2>2, LeaveRow, LeaveType DEF FinishSucceeded
<1>9. CASE FinishFailed(r)
  <2> DEFINE new == InvoiceFailed(h.snap, day)
  <2>1. new.expires = h.snap.expires /\ new.next = h.snap.next
    BY <1>2 DEF InvoiceFailed, EnterSurvival, Row
  <2>2. new \in Row
    BY <1>2, WebhookType
  <2>3. Save(r, new)
    BY <1>9 DEF FinishFailed
  <2>4. QED BY <1>3, <2>1, <2>2, <2>3
<1>10. CASE FinishDeleted(r)
  <2> DEFINE new == SubscriptionDeleted(h.snap)
  <2>1. new.expires = h.snap.expires /\ new.next = h.snap.next
    BY <1>2 DEF SubscriptionDeleted, Row
  <2>2. QED BY <1>2, <1>3, <1>10, <2>1, WebhookType DEF FinishDeleted
<1>11. ASSUME NEW s \in SubId, FinishSubscribe(r, s)
       PROVE  \A o \in Owner : RowStep(o)
  <2> DEFINE paid == [h.snap EXCEPT !.sub = s, !.auto = TRUE, !.expires = day + Period]
  <2>1. paid \in Row /\ paid.expires = day + Period /\ paid.next = h.snap.next
    BY <1>2 DEF Row
  <2>2. Subscribed(h.snap, s, day) = LeaveSurvival(paid)
    BY DEF Subscribed
  <2>3. QED BY <1>3, <1>11, <2>1, <2>2, LeaveRow, LeaveType DEF FinishSubscribe
<1>12. QED
  BY <1>4, <1>5, <1>6, <1>7, <1>8, <1>9, <1>10, <1>11 DEF FinishRequest

\* The row of an owner moves on: its expiry only grows, to at most a period from today.
ExpiryGrows(o) ==
  /\ db[o].expires # None => db'[o].expires # None /\ db'[o].expires >= db[o].expires
  /\ db'[o].expires # None => db'[o].expires <= day + Period

\* What every recorded charge bought is in the row, nothing is from the future, and what a
\* pass has read of an owner it has yet to check has only grown since.
Calendar ==
  /\ PaidKept
  /\ \A o \in Owner : db[o].expires # None => db[o].expires <= day + Period
  /\ \A o \in Owner : \A i \in 1..Len(ledger[o]) : ledger[o][i].day <= day
  /\ \A w \in Worker : pass[w] # None =>
       /\ pass[w].now <= day
       /\ \A o \in pass[w].todo : pass[w].snap[o].expires # None =>
            db[o].expires # None /\ db[o].expires >= pass[w].snap[o].expires

\* Beside a pass that is alone no other is open, and only it sets a retry day.
Solitude ==
  \A w \in Worker : pass[w] # None /\ pass[w].alone =>
    /\ \A v \in Worker \ {w} : pass[v] = None
    /\ \A o \in pass[w].todo : db[o].next \in {pass[w].snap[o].next, None}

LastCharge(o) == ledger[o][Len(ledger[o])]

\* The last charge of an owner, if it is recorded and of a pass that was alone, is known to
\* a row or to what a pass has read: neither renews nor retries before the period is over.
Cleared(o, row) ==
  LastCharge(o).known /\ LastCharge(o).alone =>
    /\ row.expires # None /\ row.expires >= LastCharge(o).day + Period
    /\ row.next # None => row.next > LastCharge(o).day + Period

AllClear(o) ==
  Len(ledger[o]) > 0 =>
    /\ Cleared(o, db[o])
    /\ \A w \in Worker : pass[w] # None /\ o \in pass[w].todo => Cleared(o, pass[w].snap[o])

ChargeInv == Calendar /\ Solitude /\ (\A o \in Owner : AllClear(o)) /\ RepeatsExplained

LEMMA Columns ==
  ASSUME TypeOK, NEW o \in Owner
  PROVE  /\ db[o].expires \in Nat \cup {None} /\ db[o].next \in Nat \cup {None}
         /\ ledger[o] \in Seq(Charge) /\ Len(ledger[o]) \in Nat
         /\ \A i \in 1..Len(ledger[o]) : ledger[o][i] \in Charge /\ ledger[o][i].day \in Nat
         /\ Len(ledger[o]) > 0 => LastCharge(o) \in Charge /\ LastCharge(o).day \in Nat
         /\ day \in Nat /\ Period \in Nat \ {0} /\ None \notin Int
<1>1. ledger[o] \in Seq(Charge) /\ db[o] \in Row /\ day \in Nat
  BY DEF TypeOK, Day
<1>2. \A c \in Charge : c.day \in Nat
  BY DEF Charge, Day
<1>3. \A i \in 1..Len(ledger[o]) : ledger[o][i] \in Charge
  BY <1>1
<1>4. Len(ledger[o]) \in Nat
  BY <1>1
<1>5. Len(ledger[o]) > 0 => LastCharge(o) \in Charge
  BY <1>3, <1>4 DEF LastCharge
<1> QED BY <1>1, <1>2, <1>3, <1>4, <1>5, BillingAssumption DEF Row, Day

LEMMA SnapColumns ==
  ASSUME TypeOK, NEW w \in Worker, pass[w] # None, NEW o \in pass[w].todo
  PROVE  /\ o \in Owner /\ pass[w].snap[o] \in Row /\ pass[w].now \in Nat
         /\ pass[w].snap[o].expires \in Nat \cup {None}
         /\ pass[w].snap[o].next \in Nat \cup {None} /\ pass[w].alone \in BOOLEAN
<1>1. pass[w] \in Pass
  BY DEF TypeOK
<1>2. /\ o \in Owner /\ pass[w].snap[o] \in Row /\ pass[w].now \in Nat
      /\ pass[w].alone \in BOOLEAN
  BY <1>1 DEF Pass, Day
<1> QED BY <1>2 DEF Row, Day

-----------------------------------------------------------------------------
(* What a step does to the passes.                                          *)

\* A pass goes on, with fewer owners left, or begins.
GoesOn(w) ==
  /\ pass[w] # None /\ pass'[w].now = pass[w].now /\ pass'[w].todo \subseteq pass[w].todo
  /\ pass'[w].alone => pass[w].alone
  /\ \A p \in pass'[w].todo : pass'[w].snap[p] = pass[w].snap[p]

Begins(w) ==
  /\ pass'[w].now = day /\ pass'[w].todo = Owner /\ pass'[w].snap = db /\ db' = db
  /\ pass'[w].alone => \A v \in Worker \ {w} : pass'[v] = None

PassesMove == \A w \in Worker : pass'[w] # None => GoesOn(w) \/ Begins(w)

\* No pass that goes on alone is beside one that begins.
AloneMoves ==
  \A w \in Worker : pass'[w] # None /\ pass'[w].alone =>
    \A v \in Worker \ {w} : pass[v] = None => pass'[v] = None

\* Owner o is dealt with.
LEMMA PassDoneMoves ==
  ASSUME TypeOK, NEW w \in Worker, NEW o \in Owner, NEW row \in Row,
         Selected(w, o), PassDone(w, o, row)
  PROVE  /\ PassesMove /\ AloneMoves
         /\ pass'[w] # None => o \notin pass'[w].todo
         /\ \A v \in Worker \ {w} : pass'[v] = pass[v]
<1>1. pass[w] \in Pass /\ pass[w] # None
  BY DEF TypeOK, Selected
<1>2. \A v \in Worker \ {w} : pass'[v] = pass[v]
  BY DEF PassDone, TypeOK
<1>3. pass'[w] # None =>
        /\ pass'[w].now = pass[w].now /\ pass'[w].todo = pass[w].todo \ {o}
        /\ pass'[w].alone = pass[w].alone
        /\ \A p \in Owner \ {o} : pass'[w].snap[p] = pass[w].snap[p]
  BY <1>1 DEF PassDone, TypeOK, Pass
<1>4. pass[w].todo \subseteq Owner
  BY <1>1 DEF Pass
<1>5. PassesMove
  BY <1>2, <1>3, <1>4, <1>1 DEF PassesMove, GoesOn
<1> QED BY <1>1, <1>2, <1>3, <1>5 DEF AloneMoves

LEMMA PassKept ==
  ASSUME \A w \in Worker : pass'[w] \in {pass[w], None}
  PROVE  PassesMove /\ AloneMoves
BY DEF PassesMove, GoesOn, AloneMoves

LEMMA StartPassMoves ==
  ASSUME TypeOK, NEW w \in Worker, StartPass(w)
  PROVE  PassesMove /\ AloneMoves
<1>1. /\ pass[w] = None /\ db' = db
      /\ pass'[w] = [todo |-> Owner, snap |-> db, now |-> day,
                     alone |-> \A u \in Worker : pass[u] = None]
  BY DEF StartPass
<1>2. ASSUME NEW v \in Worker \ {w}
      PROVE  \/ pass[v] # None /\ pass'[v] = [pass[v] EXCEPT !.alone = FALSE]
             \/ pass[v] = None /\ pass'[v] = None
  BY DEF StartPass
<1>3. ASSUME NEW v \in Worker \ {w}, pass'[v] # None PROVE GoesOn(v) /\ ~pass'[v].alone
  <2>1. pass[v] \in Pass /\ pass[v] # None /\ pass'[v] = [pass[v] EXCEPT !.alone = FALSE]
    BY <1>2, <1>3 DEF TypeOK
  <2> QED BY <2>1 DEF GoesOn, Pass
<1>4. pass'[w].alone => \A v \in Worker \ {w} : pass'[v] = None
  <2>1. PICK solo \in BOOLEAN : solo = (\A u \in Worker : pass[u] = None)
    BY Zenon
  <2>2. pass'[w] = [todo |-> Owner, snap |-> db, now |-> day, alone |-> solo]
    BY <1>1, <2>1, Zenon
  <2>3. pass'[w].alone = solo
    BY <2>2
  <2>4. solo => \A u \in Worker : pass[u] = None
    BY <2>1, Zenon
  <2> QED BY <1>2, <2>3, <2>4
<1>5. Begins(w)
  BY <1>1, <1>4 DEF Begins
<1>6. PassesMove
  BY <1>3, <1>5 DEF PassesMove
<1>7. ASSUME NEW u \in Worker, pass'[u] # None, pass'[u].alone, NEW v \in Worker \ {u},
             pass[v] = None
      PROVE  pass'[v] = None
  <2>1. u = w
    BY <1>3, <1>7
  <2> QED BY <1>2, <1>7, <2>1
<1>8. AloneMoves
  BY <1>7 DEF AloneMoves
<1> QED BY <1>6, <1>8

-----------------------------------------------------------------------------
(* What a step has to show.                                                 *)

\* What the step adds to the ledger.
Pays(o, c) == ledger' = [ledger EXCEPT ![o] = Append(@, c)]

LEMMA PaysIs ==
  ASSUME TypeOK, NEW o \in Owner, NEW c \in Charge, Pays(o, c)
  PROVE  /\ Len(ledger'[o]) = Len(ledger[o]) + 1 /\ LastCharge(o)' = c
         /\ \A i \in 1..Len(ledger[o]) : ledger'[o][i] = ledger[o][i]
         /\ ledger'[o][Len(ledger[o]) + 1] = c
         /\ \A p \in Owner \ {o} : ledger'[p] = ledger[p] /\ LastCharge(p)' = LastCharge(p)
<1>1. ledger[o] \in Seq(Charge) /\ ledger \in [Owner -> Seq(Charge)]
  BY DEF TypeOK
<1>2. ledger'[o] = Append(ledger[o], c) /\ \A p \in Owner \ {o} : ledger'[p] = ledger[p]
  BY <1>1 DEF Pays
<1> QED BY <1>1, <1>2 DEF LastCharge

\* The calendar: a step of today that moves the rows on, and what it charges and records.
LEMMA CalendarMoves ==
  ASSUME TypeOK, TypeOK', Calendar, day' \in {day, day + 1}, PassesMove,
         \A o \in Owner : ExpiryGrows(o),
         \/ ledger' = ledger
         \/ \E o \in Owner, c \in Charge :
              /\ Pays(o, c) /\ c.day = day
              /\ c.known => db'[o].expires # None /\ db'[o].expires >= day + Period
  PROVE  Calendar'
<1>1. day \in Nat /\ day' >= day /\ day' \in Nat /\ Period \in Nat /\ None \notin Int
  BY BillingAssumption DEF TypeOK, Day
<1>2. ASSUME NEW o \in Owner, NEW i \in 1..Len(ledger'[o])
      PROVE  /\ ledger'[o][i].day <= day'
             /\ ledger'[o][i].known => /\ db'[o].expires # None
                                       /\ db'[o].expires >= ledger'[o][i].day + Period
  <2>1. ASSUME i \in 1..Len(ledger[o]), ledger'[o][i] = ledger[o][i]
        PROVE  /\ ledger'[o][i].day <= day'
               /\ ledger'[o][i].known => /\ db'[o].expires # None
                                         /\ db'[o].expires >= ledger'[o][i].day + Period
    <3>1. /\ ledger[o][i].day \in Nat /\ ledger[o][i].day <= day
          /\ ledger[o][i].known => /\ db[o].expires # None
                                   /\ db[o].expires >= ledger[o][i].day + Period
      BY <2>1, Columns DEF Calendar, PaidKept
    <3>2. db[o].expires \in Nat \cup {None} /\ db'[o].expires \in Nat \cup {None}
      BY Columns DEF TypeOK, Row, Day
    <3> QED BY <1>1, <2>1, <3>1, <3>2 DEF ExpiryGrows
  <2>2. CASE ledger' = ledger
    BY <1>2, <2>1, <2>2
  <2>3. ASSUME NEW p \in Owner, NEW c \in Charge, Pays(p, c), c.day = day,
               c.known => db'[p].expires # None /\ db'[p].expires >= day + Period
        PROVE  /\ ledger'[o][i].day <= day'
               /\ ledger'[o][i].known => /\ db'[o].expires # None
                                         /\ db'[o].expires >= ledger'[o][i].day + Period
    <3>1. CASE o # p
      BY <1>2, <2>1, <2>3, <3>1, PaysIs
    <3>2. CASE o = p
      <4>1. Len(ledger[o]) \in Nat /\ Len(ledger'[o]) = Len(ledger[o]) + 1
        BY <2>3, <3>2, PaysIs, Columns
      <4>2. i \in 1..Len(ledger[o]) \/ i = Len(ledger[o]) + 1
        BY <1>2, <4>1
      <4>3. CASE i \in 1..Len(ledger[o])
        BY <2>1, <2>3, <3>2, <4>3, PaysIs
      <4>4. CASE i = Len(ledger[o]) + 1
        BY <1>1, <2>3, <3>2, <4>4, PaysIs
      <4> QED BY <4>2, <4>3, <4>4
    <3> QED BY <3>1, <3>2
  <2> QED BY <2>2, <2>3
<1>3. ASSUME NEW o \in Owner, db'[o].expires # None PROVE db'[o].expires <= day' + Period
  <2>1. db'[o].expires \in Nat /\ db'[o].expires <= day + Period
    BY <1>3 DEF ExpiryGrows, TypeOK, Row, Day
  <2> QED BY <1>1, <2>1
<1>4. ASSUME NEW w \in Worker, pass'[w] # None
      PROVE  /\ pass'[w].now <= day'
             /\ \A o \in pass'[w].todo : pass'[w].snap[o].expires # None =>
                  db'[o].expires # None /\ db'[o].expires >= pass'[w].snap[o].expires
  <2>1. CASE GoesOn(w)
    <3>1. pass[w] # None /\ pass'[w].now = pass[w].now /\ pass[w].now <= day /\ pass[w].now \in Nat
      BY <2>1 DEF GoesOn, Calendar, TypeOK, Pass, Day
    <3>2. ASSUME NEW o \in pass'[w].todo, pass'[w].snap[o].expires # None
          PROVE  db'[o].expires # None /\ db'[o].expires >= pass'[w].snap[o].expires
      <4>1. o \in pass[w].todo /\ pass'[w].snap[o] = pass[w].snap[o]
        BY <2>1, <3>2 DEF GoesOn
      <4>2. /\ o \in Owner /\ pass[w].snap[o].expires \in Nat
            /\ db[o].expires # None /\ db[o].expires >= pass[w].snap[o].expires
        BY <3>1, <3>2, <4>1, SnapColumns DEF Calendar
      <4>3. ExpiryGrows(o) /\ db[o].expires \in Nat /\ db'[o].expires \in Nat \cup {None}
        BY <4>2, Columns DEF TypeOK, Row, Day
      <4> QED BY <4>1, <4>2, <4>3 DEF ExpiryGrows
    <3> QED BY <1>1, <3>1, <3>2
  <2>2. CASE Begins(w)
    BY <1>1, <2>2, Columns DEF Begins
  <2> QED BY <1>4, <2>1, <2>2 DEF PassesMove
<1> QED BY <1>2, <1>3, <1>4 DEF Calendar, PaidKept

LEMMA SolitudeMoves ==
  ASSUME TypeOK, Solitude, PassesMove, AloneMoves,
         \A w \in Worker : \A o \in Owner :
           pass'[w] # None /\ o \in pass'[w].todo /\ pass[w] # None /\ pass[w].alone =>
             db'[o].next \in {db[o].next, None}
  PROVE  Solitude'
<1> SUFFICES ASSUME NEW w \in Worker, pass'[w] # None, pass'[w].alone
             PROVE  /\ \A v \in Worker \ {w} : pass'[v] = None
                    /\ \A o \in pass'[w].todo : db'[o].next \in {pass'[w].snap[o].next, None}
  BY DEF Solitude
<1>1. CASE GoesOn(w)
  <2>1. pass[w] # None /\ pass[w].alone /\ \A v \in Worker \ {w} : pass[v] = None
    BY <1>1 DEF GoesOn, Solitude
  <2>2. \A v \in Worker \ {w} : pass'[v] = None
    BY <2>1 DEF AloneMoves
  <2>3. ASSUME NEW o \in pass'[w].todo PROVE db'[o].next \in {pass'[w].snap[o].next, None}
    <3>1. o \in pass[w].todo /\ pass'[w].snap[o] = pass[w].snap[o]
      BY <1>1, <2>3 DEF GoesOn
    <3>2. o \in Owner /\ db[o].next \in {pass[w].snap[o].next, None}
      BY <2>1, <3>1, SnapColumns DEF Solitude
    <3>3. db'[o].next \in {db[o].next, None}
      BY <2>1, <2>3, <3>2
    <3> QED BY <3>1, <3>2, <3>3
  <2> QED BY <2>2, <2>3
<1>2. CASE Begins(w)
  BY <1>2 DEF Begins
<1> QED BY <1>1, <1>2 DEF PassesMove

\* A charge of an owner whose last one is recorded, and of a pass that was alone, happens
\* only after the period of that one is over.
LEMMA ChargeIsDue ==
  ASSUME TypeOK, ChargeInv, NEW w \in Worker, NEW o \in Owner, Selected(w, o),
         MustCharge(pass[w].snap[o], pass[w].now), Len(ledger[o]) > 0,
         LastCharge(o).known, LastCharge(o).alone
  PROVE  day > LastCharge(o).day + Period
<1> DEFINE row == pass[w].snap[o]
           now == pass[w].now
<1>1. /\ now \in Nat /\ day \in Nat /\ LastCharge(o).day \in Nat /\ Period \in Nat
      /\ row.expires \in Nat \cup {None} /\ row.next \in Nat \cup {None}
      /\ None \notin Int
  BY Columns, SnapColumns DEF Selected
<1>2. now <= day /\ Cleared(o, row)
  BY DEF ChargeInv, Calendar, Selected, AllClear
<1>3. CASE RetryDue(row, now)
  BY <1>1, <1>2, <1>3 DEF RetryDue, Cleared
<1>4. CASE RenewalDue(row, now)
  BY <1>1, <1>2, <1>4 DEF RenewalDue, Cleared
<1>5. QED
  BY <1>3, <1>4 DEF MustCharge

\* An owner who is not charged stays clear, if a retry day is set only after the period.
LEMMA StaysClear ==
  ASSUME NEW o \in Owner, TypeOK, TypeOK', AllClear(o), PassesMove, ledger'[o] = ledger[o],
         ExpiryGrows(o),
         \/ db'[o].next \in {db[o].next, None}
         \/ /\ db'[o].next \in Nat /\ db'[o].next > day
            /\ Len(ledger[o]) > 0 /\ LastCharge(o).known /\ LastCharge(o).alone =>
                 day > LastCharge(o).day + Period
  PROVE  AllClear(o)'
<1> SUFFICES ASSUME Len(ledger[o]) > 0, LastCharge(o).known, LastCharge(o).alone
             PROVE  /\ Cleared(o, db[o])'
                    /\ \A w \in Worker : pass'[w] # None /\ o \in pass'[w].todo =>
                         Cleared(o, pass[w].snap[o])'
  BY DEF AllClear, Cleared, LastCharge
<1>1. LastCharge(o)' = LastCharge(o)
  BY DEF LastCharge
<1>2. /\ LastCharge(o).day \in Nat /\ Period \in Nat /\ day \in Nat /\ None \notin Int
      /\ db[o].expires \in Nat \cup {None} /\ db'[o].expires \in Nat \cup {None}
      /\ db[o].next \in Nat \cup {None}
  BY Columns DEF TypeOK, Row, Day
<1>3. Cleared(o, db[o])'
  BY <1>1, <1>2 DEF AllClear, Cleared, ExpiryGrows
<1>4. ASSUME NEW w \in Worker, pass'[w] # None, o \in pass'[w].todo
      PROVE  Cleared(o, pass[w].snap[o])'
  <2>1. CASE GoesOn(w)
    <3>1. pass[w] # None /\ o \in pass[w].todo /\ pass'[w].snap[o] = pass[w].snap[o]
      BY <1>4, <2>1 DEF GoesOn
    <3> QED BY <1>1, <3>1 DEF AllClear, Cleared
  <2>2. CASE Begins(w)
    BY <1>1, <1>3, <2>2 DEF Begins, Cleared
  <2> QED BY <1>4, <2>1, <2>2 DEF PassesMove
<1> QED BY <1>3, <1>4

\* Nothing is charged.
LEMMA NoCharge ==
  ASSUME TypeOK, TypeOK', ChargeInv, ledger' = ledger, day' \in {day, day + 1},
         PassesMove, AloneMoves, \A o \in Owner : ExpiryGrows(o),
         \A w \in Worker : \A o \in Owner :
           pass'[w] # None /\ o \in pass'[w].todo /\ pass[w] # None /\ pass[w].alone =>
             db'[o].next \in {db[o].next, None},
         \A o \in Owner :
           \/ db'[o].next \in {db[o].next, None}
           \/ /\ db'[o].next \in Nat /\ db'[o].next > day
              /\ Len(ledger[o]) > 0 /\ LastCharge(o).known /\ LastCharge(o).alone =>
                   day > LastCharge(o).day + Period
  PROVE  ChargeInv'
<1>1. Calendar' /\ Solitude'
  BY CalendarMoves, SolitudeMoves DEF ChargeInv
<1>2. ASSUME NEW o \in Owner PROVE AllClear(o)'
  BY StaysClear DEF ChargeInv
<1>3. RepeatsExplained'
  BY DEF ChargeInv, RepeatsExplained
<1> QED BY <1>1, <1>2, <1>3 DEF ChargeInv

\* A pass charges owner o: a charge that is recorded, of a pass that is alone, is the last
\* thing that any pass had to do for the owner.
LEMMA Charging ==
  ASSUME NEW w \in Worker, NEW o \in Owner, NEW c \in Charge,
         TypeOK, TypeOK', ChargeInv, Selected(w, o), MustCharge(pass[w].snap[o], pass[w].now),
         Pays(o, c), c.day = day, day' = day, PassesMove, AloneMoves,
         \A p \in Owner : ExpiryGrows(p),
         \A v \in Worker : \A p \in Owner :
           pass'[v] # None /\ p \in pass'[v].todo /\ pass[v] # None /\ pass[v].alone =>
             db'[p].next \in {db[p].next, None},
         \A p \in Owner \ {o} : db'[p].next \in {db[p].next, None},
         c.known => db'[o].expires # None /\ db'[o].expires >= day + Period,
         c.known /\ c.alone =>
           db'[o].next = None /\ \A v \in Worker : pass'[v] # None => o \notin pass'[v].todo
  PROVE  ChargeInv'
<1>1. Calendar'
  BY CalendarMoves DEF ChargeInv
<1>2. Solitude'
  BY SolitudeMoves DEF ChargeInv
<1>3. /\ LastCharge(o)' = c /\ Len(ledger'[o]) = Len(ledger[o]) + 1 /\ Len(ledger[o]) \in Nat
      /\ \A i \in 1..Len(ledger[o]) : ledger'[o][i] = ledger[o][i]
      /\ ledger'[o][Len(ledger[o]) + 1] = c
      /\ \A p \in Owner \ {o} : ledger'[p] = ledger[p]
  BY PaysIs, Columns
<1>4. AllClear(o)'
  BY <1>3 DEF AllClear, Cleared
<1>5. ASSUME NEW p \in Owner \ {o} PROVE AllClear(p)'
  BY <1>3, <1>5, StaysClear DEF ChargeInv
<1>6. RepeatsExplained'
  <2> SUFFICES ASSUME NEW p \in Owner, NEW i \in 1..Len(ledger'[p]) - 1
               PROVE  \/ ledger'[p][i + 1].day > ledger'[p][i].day + Period
                      \/ ~ledger'[p][i].known \/ ~ledger'[p][i].alone
    BY DEF RepeatsExplained
  <2>1. CASE p # o
    BY <1>3, <2>1 DEF ChargeInv, RepeatsExplained
  <2>2. CASE p = o /\ i # Len(ledger[o])
    <3>1. i \in 1..Len(ledger[o]) - 1 /\ i \in 1..Len(ledger[o]) /\ i + 1 \in 1..Len(ledger[o])
      BY <1>3, <2>2
    <3> QED BY <1>3, <2>2, <3>1 DEF ChargeInv, RepeatsExplained
  <2>3. CASE p = o /\ i = Len(ledger[o])
    <3>1. /\ Len(ledger[o]) > 0 /\ ledger'[o][i] = LastCharge(o) /\ ledger'[o][i + 1] = c
      BY <1>3, <2>3 DEF LastCharge
    <3> QED BY <2>3, <3>1, ChargeIsDue
  <2> QED BY <2>1, <2>2, <2>3
<1> QED BY <1>1, <1>2, <1>4, <1>5, <1>6 DEF ChargeInv

-----------------------------------------------------------------------------
(* The steps of the daily pass.                                             *)

LEMMA RowStepGrows ==
  ASSUME TypeOK, Calendar, NEW o \in Owner, RowStep(o)
  PROVE  ExpiryGrows(o)
<1>1. /\ day \in Nat /\ Period \in Nat \ {0} /\ None \notin Int
      /\ db[o].expires \in Nat \cup {None}
      /\ db[o].expires # None => db[o].expires <= day + Period
  BY Columns DEF Calendar
<1> QED BY <1>1 DEF RowStep, ExpiryGrows

\* Beside the pass of w none is alone that still has o to do.
LEMMA NoOtherAlone ==
  ASSUME TypeOK, Solitude, NEW w \in Worker, NEW o \in Owner, NEW row \in Row,
         Selected(w, o), PassDone(w, o, row)
  PROVE  /\ \A v \in Worker : pass'[v] # None /\ o \in pass'[v].todo /\ pass[v] # None =>
              ~pass[v].alone
         /\ pass[w].alone => \A v \in Worker : pass'[v] # None => o \notin pass'[v].todo
<1>1. /\ pass'[w] # None => o \notin pass'[w].todo
      /\ \A v \in Worker \ {w} : pass'[v] = pass[v]
      /\ pass[w] # None
  BY PassDoneMoves DEF Selected
<1> QED BY <1>1 DEF Solitude

LEMMA CheckIdleKeeps ==
  ASSUME TypeOK, TypeOK', ChargeInv, NEW w \in Worker, NEW o \in Owner, CheckIdle(w, o)
  PROVE  ChargeInv'
<1>1. /\ Selected(w, o) /\ pass[w].snap[o] \in Row /\ PassDone(w, o, pass[w].snap[o])
      /\ UNCHANGED <<day, db, ledger>>
  BY SnapColumns DEF CheckIdle, Selected
<1>2. PassesMove /\ AloneMoves
  BY <1>1, PassDoneMoves
<1>3. \A p \in Owner : RowStep(p) /\ ExpiryGrows(p)
  BY <1>1, RowStepGrows DEF RowStep, ChargeInv
<1> QED BY <1>1, <1>2, <1>3, NoCharge DEF RowStep

\* The step that takes the money and records it.
LEMMA CheckChargedKeeps ==
  ASSUME TypeOK, TypeOK', ChargeInv, NEW w \in Worker, NEW o \in Owner, CheckCharged(w, o)
  PROVE  ChargeInv'
<1> DEFINE row == pass[w].snap[o]
           new == RenewSucceeded(row, day)
           c == [day |-> day, known |-> TRUE, alone |-> pass[w].alone]
<1>1. /\ Selected(w, o) /\ row \in Row /\ PassDone(w, o, new) /\ day' = day
      /\ MustCharge(row, pass[w].now) /\ Pays(o, c)
      /\ day \in Nat /\ Period \in Nat \ {0} /\ None \notin Int /\ pass[w].alone \in BOOLEAN
  BY SnapColumns, Columns DEF CheckCharged, Selected, Pay, Pays
<1>2. new \in Row /\ new.expires = day + Period /\ new.next = None
  <2> DEFINE paid == [row EXCEPT !.expires = day + Period, !.count = 0, !.next = None]
  <2>1. paid \in Row /\ paid.expires = day + Period /\ paid.next = None
    <3>1. day + Period \in Day
      BY <1>1 DEF Day
    <3>2. QED BY <1>1, <3>1 DEF Row
  <2>2. new = LeaveSurvival(paid)
    BY DEF RenewSucceeded
  <2> HIDE DEF paid, new
  <2>3. QED BY <2>1, <2>2, LeaveRow, LeaveType
<1>3. db'[o] = Merge(db[o], row, new) /\ \A p \in Owner \ {o} : db'[p] = db[p]
  BY DEF CheckCharged, Commit, TypeOK
<1>4. c \in Charge /\ c.day = day /\ c.known /\ c.alone = pass[w].alone
  BY <1>1 DEF Charge, Day
<1>5. /\ row.expires \in Nat \cup {None} /\ db[o].expires \in Nat \cup {None}
      /\ row.next \in Nat \cup {None} /\ db[o].next \in Nat \cup {None}
      /\ db[o].expires # None => db[o].expires <= day + Period
      /\ row.expires # None => db[o].expires # None /\ db[o].expires >= row.expires
      /\ pass[w].alone => db[o].next \in {row.next, None}
  BY <1>1, Columns, SnapColumns DEF Selected, ChargeInv, Calendar, Solitude
<1> HIDE DEF row, new, c
<1>6. db'[o].expires = day + Period /\ db'[o].next \in {db[o].next, None}
  BY <1>1, <1>2, <1>3, <1>5, MergeColumns
<1>7. pass[w].alone => db'[o].next = None
  BY <1>2, <1>3, <1>5, MergeColumns
<1>8. \A p \in Owner : RowStep(p) /\ ExpiryGrows(p)
  BY <1>3, <1>6, RowStepGrows DEF RowStep, ChargeInv
<1>9. PassesMove /\ AloneMoves
  BY <1>1, <1>2, PassDoneMoves
<1>10. pass[w].alone => \A v \in Worker : pass'[v] # None => o \notin pass'[v].todo
  BY <1>1, <1>2, NoOtherAlone DEF ChargeInv
<1>11. MustCharge(pass[w].snap[o], pass[w].now)
  BY <1>1 DEF row
<1>12. db'[o].expires # None /\ db'[o].expires >= day + Period
  BY <1>1, <1>6
<1> QED BY <1>1, <1>4, <1>7, <1>8, <1>9, <1>10, <1>11, <1>12, Charging DEF RowStep

\* What a declined charge does to the row: a retry day later than today.
LEMMA DeclinedRow ==
  ASSUME TypeOK, NEW row \in Row, NEW o \in Owner, Commit(o, row, RenewFailed(row, day))
  PROVE  /\ RenewFailed(row, day) \in Row
         /\ db'[o].expires = db[o].expires
         /\ db'[o].next = db[o].next \/ (db'[o].next \in Nat /\ db'[o].next > day)
         /\ \A p \in Owner \ {o} : db'[p] = db[p]
<1> DEFINE new == RenewFailed(row, day)
<1>1. day \in Nat /\ row.count \in Nat /\ None \notin Int
  BY Columns DEF Row
<1>2. new \in Row
  BY <1>1, RenewType DEF Day
<1>3. new.expires = row.expires /\ (new.next = row.next \/ new.next = day + (row.count + 1))
  BY DEF RenewFailed, EnterSurvival, Row
<1>4. db'[o] = Merge(db[o], row, new) /\ \A p \in Owner \ {o} : db'[p] = db[p]
  BY DEF Commit, TypeOK
<1> HIDE DEF new
<1>5. db'[o].expires = db[o].expires /\ db'[o].next \in {db[o].next, day + (row.count + 1)}
  BY <1>3, <1>4, MergeColumns
<1>6. new \in Row /\ \A p \in Owner \ {o} : db'[p] = db[p]
  BY <1>2, <1>4
<1>7. day + (row.count + 1) \in Nat /\ day + (row.count + 1) > day
  BY <1>1
<1> QED BY <1>5, <1>6, <1>7 DEF new

LEMMA CheckDeclinedKeeps ==
  ASSUME TypeOK, TypeOK', ChargeInv, NEW w \in Worker, NEW o \in Owner, CheckDeclined(w, o)
  PROVE  ChargeInv'
<1> DEFINE row == pass[w].snap[o]
           new == RenewFailed(row, day)
<1>1. /\ Selected(w, o) /\ row \in Row /\ PassDone(w, o, new) /\ Commit(o, row, new)
      /\ MustCharge(row, pass[w].now) /\ day' = day
  BY SnapColumns DEF CheckDeclined, Selected
<1>2. /\ new \in Row /\ db'[o].expires = db[o].expires
      /\ db'[o].next = db[o].next \/ (db'[o].next \in Nat /\ db'[o].next > day)
      /\ \A p \in Owner \ {o} : db'[p] = db[p]
  BY <1>1, DeclinedRow
<1> HIDE DEF new
<1>3. PassesMove /\ AloneMoves
  BY <1>1, <1>2, PassDoneMoves
<1>4. ASSUME NEW p \in Owner PROVE ExpiryGrows(p)
  <2>1. db'[p].expires = db[p].expires
    BY <1>2
  <2> QED BY <2>1, Columns DEF ExpiryGrows, ChargeInv, Calendar
<1>5. ASSUME NEW v \in Worker, NEW p \in Owner, pass'[v] # None, p \in pass'[v].todo,
             pass[v] # None, pass[v].alone
      PROVE  db'[p].next \in {db[p].next, None}
  <2>1. p # o
    BY <1>1, <1>2, <1>5, NoOtherAlone DEF ChargeInv
  <2> QED BY <1>2, <2>1
<1>6. MustCharge(pass[w].snap[o], pass[w].now)
  BY <1>1
<1>7. CASE UNCHANGED <<ledger, unwilled, faults>>
  <2>1. Len(ledger[o]) > 0 /\ LastCharge(o).known /\ LastCharge(o).alone =>
          day > LastCharge(o).day + Period
    BY <1>1, <1>6, ChargeIsDue
  <2>2. ASSUME NEW p \in Owner
        PROVE  \/ db'[p].next \in {db[p].next, None}
               \/ /\ db'[p].next \in Nat /\ db'[p].next > day
                  /\ Len(ledger[p]) > 0 /\ LastCharge(p).known /\ LastCharge(p).alone =>
                       day > LastCharge(p).day + Period
    BY <1>2, <2>1
  <2>3. ledger' = ledger
    BY <1>7
  <2> QED BY <1>1, <1>3, <1>4, <1>5, <2>2, <2>3, NoCharge
<1>8. CASE Pay(w, o, FALSE) /\ Fault
  <2> DEFINE c == [day |-> day, known |-> FALSE, alone |-> pass[w].alone]
  <2>1. Pays(o, c)
    BY <1>8 DEF Pay, Pays
  <2>2. pass[w].alone \in BOOLEAN /\ day \in Nat
    BY <1>1, SnapColumns, Columns DEF Selected
  <2>3. c \in Charge /\ c.day = day /\ ~c.known
    BY <2>2 DEF Charge, Day
  <2>4. \A p \in Owner \ {o} : db'[p].next \in {db[p].next, None}
    BY <1>2
  <2> HIDE DEF c
  <2> QED BY <1>1, <1>3, <1>4, <1>5, <1>6, <2>1, <2>3, <2>4, Charging
<1> QED BY <1>7, <1>8 DEF CheckDeclined

LEMMA CrashPassKeeps ==
  ASSUME TypeOK, TypeOK', ChargeInv, NEW w \in Worker, NEW o \in Owner, CrashPass(w, o)
  PROVE  ChargeInv'
<1>1. Selected(w, o) /\ UNCHANGED <<day, db>> /\ pass' = [pass EXCEPT ![w] = None]
  BY DEF CrashPass
<1>2. PassesMove /\ AloneMoves
  BY <1>1, PassKept DEF TypeOK
<1>3. \A p \in Owner : RowStep(p) /\ ExpiryGrows(p)
  BY <1>1, RowStepGrows DEF RowStep, ChargeInv
<1>4. CASE UNCHANGED <<ledger, unwilled>>
  BY <1>1, <1>2, <1>3, <1>4, NoCharge DEF RowStep
<1>5. CASE MustCharge(pass[w].snap[o], pass[w].now) /\ Pay(w, o, FALSE)
  <2> DEFINE c == [day |-> day, known |-> FALSE, alone |-> pass[w].alone]
  <2>1. Pays(o, c)
    BY <1>5 DEF Pay, Pays
  <2>2. pass[w].alone \in BOOLEAN /\ day \in Nat
    BY <1>1, SnapColumns, Columns DEF Selected
  <2>3. c \in Charge /\ c.day = day /\ ~c.known
    BY <2>2 DEF Charge, Day
  <2> HIDE DEF c
  <2> QED BY <1>1, <1>2, <1>3, <1>5, <2>1, <2>3, Charging DEF RowStep
<1> QED BY <1>4, <1>5 DEF CrashPass

-----------------------------------------------------------------------------
(* The other steps, and the theorems.                                       *)

LEMMA ChargeInitial == Init => ChargeInv
<1> SUFFICES ASSUME Init PROVE ChargeInv
  OBVIOUS
<1>1. \A o \in Owner : ledger[o] = <<>> /\ db[o].expires = None
  BY DEF Init, NewRow
<1>2. \A o \in Owner : Len(ledger[o]) = 0
  BY <1>1
<1>3. \A w \in Worker : pass[w] = None
  BY DEF Init
<1> QED BY <1>1, <1>2, <1>3 DEF ChargeInv, Calendar, PaidKept, Solitude, AllClear, RepeatsExplained

\* A step that charges nobody, and moves the rows as requests do.
LEMMA RowsMove ==
  ASSUME TypeOK, TypeOK', ChargeInv, ledger' = ledger, day' \in {day, day + 1},
         PassesMove, AloneMoves, \A o \in Owner : RowStep(o)
  PROVE  ChargeInv'
<1>1. \A o \in Owner : ExpiryGrows(o)
  BY RowStepGrows DEF ChargeInv
<1> QED BY <1>1, NoCharge DEF RowStep

LEMMA FinishRequestFrame ==
  ASSUME TypeOK, NEW r \in Request, FinishRequest(r)
  PROVE  day' = day /\ pass' = pass /\ ledger' = ledger
BY DEF FinishRequest, FinishRejected, FinishSetup, FinishCancel, FinishAutoPay,
       FinishSucceeded, FinishFailed, FinishDeleted, FinishSubscribe

LEMMA ChargeStep ==
  ASSUME TypeOK, TypeOK', ChargeInv, [Next]_vars
  PROVE  ChargeInv'
<1>1. ASSUME NEW w \in Worker, StartPass(w) PROVE ChargeInv'
  BY <1>1, StartPassMoves, RowsMove DEF StartPass, RowStep
<1>2. ASSUME NEW w \in Worker, NEW o \in Owner, CheckOwner(w, o) \/ CrashPass(w, o)
      PROVE  ChargeInv'
  BY <1>2, CheckIdleKeeps, CheckChargedKeeps, CheckDeclinedKeeps, CrashPassKeeps DEF CheckOwner
<1>3. ASSUME NEW r \in Request, FinishRequest(r) PROVE ChargeInv'
  BY <1>3, FinishRequestRow, FinishRequestFrame, PassKept, RowsMove
<1>4. ASSUME UNCHANGED <<db, pass, ledger>>, day' \in {day, day + 1} PROVE ChargeInv'
  BY <1>4, PassKept, RowsMove DEF RowStep
<1> QED BY <1>1, <1>2, <1>3, <1>4
        DEF Next, StartRequest, Deliver, SettleInvoice, EndSubscription, Tick, vars

\* However many workers, requests and webhooks overlap, a month is charged once more only
\* after a charge that was not recorded or that was made while passes overlapped.
THEOREM RepeatsAreExplained == Spec => []RepeatsExplained
<1>1. TypeOK /\ TypeOK' /\ ChargeInv /\ [Next]_vars => ChargeInv'
  BY ChargeStep
<1>2. ChargeInv => RepeatsExplained
  BY DEF ChargeInv
<1> QED BY ChargeInitial, <1>1, <1>2, BillingTypeOK, PTL DEF Spec

\* What a recorded charge paid for is never taken back by the write of a stale snapshot.
THEOREM PaidPeriodsKept == Spec => []PaidKept
<1>1. TypeOK /\ TypeOK' /\ ChargeInv /\ [Next]_vars => ChargeInv'
  BY ChargeStep
<1>2. ChargeInv => PaidKept
  BY DEF ChargeInv, Calendar
<1> QED BY ChargeInitial, <1>1, <1>2, BillingTypeOK, PTL DEF Spec

-----------------------------------------------------------------------------
(* Auto-pay that is off.                                                    *)

\* The passes that may still charge the owner.
Willing(o) == {w \in Worker : pass[w] # None /\ o \in pass[w].todo /\ pass[w].snap[o].auto}

\* While auto-pay is off, each worker has one charge to make at most.
OffHolds(o) ==
  IF db[o].auto THEN unwilled[o] = 0
  ELSE unwilled[o] + Cardinality(Willing(o)) <= Cardinality(Worker)

LEMMA WillingIs ==
  ASSUME NEW o \in Owner
  PROVE  /\ IsFiniteSet(Willing(o)) /\ Cardinality(Willing(o)) \in Nat
         /\ Cardinality(Willing(o)) <= Cardinality(Worker) /\ Cardinality(Worker) \in Nat
<1>1. Willing(o) \subseteq Worker
  BY DEF Willing
<1> QED BY <1>1, FS_Subset, FS_CardinalityType, BillingAssumption

\* Auto-pay is switched on, or no charge is made and no pass becomes willing, or a willing
\* pass makes its charge.
LEMMA OffMoves ==
  ASSUME TypeOK, TypeOK', NEW o \in Owner, OffHolds(o),
         db'[o].auto => unwilled'[o] = 0,
         \/ db'[o].auto
         \/ unwilled'[o] = unwilled[o] /\ Willing(o)' \subseteq Willing(o)
         \/ \E w \in Willing(o) : /\ ~db[o].auto /\ unwilled'[o] = unwilled[o] + 1
                                  /\ Willing(o)' \subseteq Willing(o) \ {w}
  PROVE  OffHolds(o)'
<1>1. unwilled[o] \in Nat
  BY DEF TypeOK
<1>2. CASE db'[o].auto
  BY <1>2 DEF OffHolds
<1>3. CASE ~db'[o].auto /\ unwilled'[o] = unwilled[o] /\ Willing(o)' \subseteq Willing(o)
  <2>1. Cardinality(Willing(o)') <= Cardinality(Willing(o)) /\ Cardinality(Willing(o)') \in Nat
    BY <1>3, WillingIs, FS_Subset, FS_CardinalityType
  <2> QED BY <1>1, <1>3, <2>1, WillingIs DEF OffHolds
<1>4. ASSUME ~db'[o].auto, NEW w \in Willing(o), ~db[o].auto, unwilled'[o] = unwilled[o] + 1,
             Willing(o)' \subseteq Willing(o) \ {w}
      PROVE  OffHolds(o)'
  <2>1. /\ IsFiniteSet(Willing(o) \ {w})
        /\ Cardinality(Willing(o) \ {w}) = Cardinality(Willing(o)) - 1
    BY <1>4, WillingIs, FS_RemoveElement
  <2>2. /\ Cardinality(Willing(o)') <= Cardinality(Willing(o) \ {w})
        /\ Cardinality(Willing(o)') \in Nat
    BY <1>4, <2>1, FS_Subset, FS_CardinalityType
  <2> QED BY <1>1, <1>4, <2>1, <2>2, WillingIs DEF OffHolds
<1> QED BY <1>2, <1>3, <1>4

\* A pass goes on or ends: for none of the owners does it become willing.
LEMMA WillingFalls ==
  ASSUME TypeOK, NEW w \in Worker, NEW o \in Owner, NEW row \in Row, Selected(w, o),
         PassDone(w, o, row) \/ pass' = [pass EXCEPT ![w] = None]
  PROVE  /\ \A p \in Owner : Willing(p)' \subseteq Willing(p)
         /\ w \notin Willing(o)'
<1>1. /\ \A v \in Worker \ {w} : pass'[v] = pass[v]
      /\ pass'[w] # None => /\ pass'[w].todo \subseteq pass[w].todo \ {o} /\ pass[w] # None
                            /\ \A p \in pass'[w].todo : pass'[w].snap[p] = pass[w].snap[p]
  <2>1. CASE PassDone(w, o, row)
    <3>1. PassesMove /\ (pass'[w] # None => o \notin pass'[w].todo)
          /\ \A v \in Worker \ {w} : pass'[v] = pass[v]
      BY <2>1, PassDoneMoves
    <3>2. pass[w] \in Pass /\ pass[w] # None
      BY DEF Selected, TypeOK
    <3>3. pass'[w] # None => /\ pass'[w].todo = pass[w].todo \ {o}
                             /\ \A p \in Owner \ {o} : pass'[w].snap[p] = pass[w].snap[p]
      BY <2>1, <3>2 DEF PassDone, TypeOK, Pass
    <3> QED BY <3>1, <3>2, <3>3 DEF Pass
  <2>2. CASE pass' = [pass EXCEPT ![w] = None]
    BY <2>2 DEF TypeOK
  <2> QED BY <2>1, <2>2
<1> QED BY <1>1 DEF Willing

\* Neither outcome of a renewal touches auto-pay.
LEMMA AutoKept ==
  ASSUME TypeOK, NEW o \in Owner, NEW row \in Row,
         Commit(o, row, RenewSucceeded(row, day)) \/ Commit(o, row, RenewFailed(row, day))
  PROVE  \A p \in Owner : db'[p].auto = db[p].auto
<1>1. RenewSucceeded(row, day).auto = row.auto
  <2> DEFINE paid == [row EXCEPT !.expires = day + Period, !.count = 0, !.next = None]
  <2>1. paid.auto = row.auto
    BY DEF Row
  <2>2. LeaveSurvival(paid).auto = row.auto
    <3>1. ExitSurvival(paid).auto = row.auto
      BY DEF ExitSurvival, Row
    <3> QED BY <2>1, <3>1 DEF LeaveSurvival
  <2> QED BY <2>2 DEF RenewSucceeded
<1>2. RenewFailed(row, day).auto = row.auto
  BY DEF RenewFailed, EnterSurvival, Row
<1>3. PICK new : new.auto = row.auto /\ Commit(o, row, new)
  BY <1>1, <1>2
<1>4. db'[o] = Merge(db[o], row, new) /\ \A p \in Owner \ {o} : db'[p] = db[p]
  BY <1>3 DEF Commit, TypeOK
<1>5. Merge(db[o], row, new).auto = db[o].auto
  BY <1>3 DEF Merge
<1> QED BY <1>4, <1>5

\* A pass charges an owner, or does not.
LEMMA PassOff ==
  ASSUME TypeOK, TypeOK', \A o \in Owner : OffHolds(o), NEW w \in Worker, NEW o \in Owner,
         CheckOwner(w, o) \/ CrashPass(w, o)
  PROVE  \A p \in Owner : OffHolds(p)'
<1> DEFINE row == pass[w].snap[o]
<1>1. Selected(w, o) /\ row \in Row
  BY SnapColumns DEF CheckOwner, CheckIdle, CheckCharged, CheckDeclined, CrashPass, Selected
<1>2. \A p \in Owner : db'[p].auto = db[p].auto
  BY <1>1, AutoKept DEF CheckOwner, CheckIdle, CheckCharged, CheckDeclined, CrashPass
<1>3. (\A p \in Owner : Willing(p)' \subseteq Willing(p)) /\ w \notin Willing(o)'
  <2>1. day \in Day
    BY DEF TypeOK
  <2>2. RenewSucceeded(row, day) \in Row /\ RenewFailed(row, day) \in Row
    BY <1>1, <2>1, RenewType
  <2> QED BY <1>1, <2>2, WillingFalls DEF CheckOwner, CheckIdle, CheckCharged, CheckDeclined, CrashPass
<1>4. CASE unwilled' = unwilled
  BY <1>2, <1>3, <1>4, OffMoves DEF OffHolds
<1>5. ASSUME NEW known \in BOOLEAN, MustCharge(row, pass[w].now), Pay(w, o, known)
      PROVE  \A p \in Owner : OffHolds(p)'
  <2>1. w \in Willing(o)
    BY <1>1, <1>5 DEF MustCharge, Selected, Willing
  <2>2. /\ unwilled'[o] = IF db[o].auto THEN 0 ELSE unwilled[o] + 1
        /\ \A p \in Owner \ {o} : unwilled'[p] = unwilled[p]
    BY <1>5 DEF Pay, TypeOK
  <2>3. OffHolds(o)'
    <3>1. db'[o].auto => unwilled'[o] = 0
      BY <1>2, <2>2
    <3>2. db'[o].auto \/ (~db[o].auto /\ unwilled'[o] = unwilled[o] + 1)
      BY <1>2, <2>2
    <3>3. Willing(o)' \subseteq Willing(o) \ {w}
      BY <1>3
    <3> QED BY <2>1, <3>1, <3>2, <3>3, OffMoves
  <2>4. ASSUME NEW p \in Owner \ {o} PROVE OffHolds(p)'
    BY <1>2, <1>3, <2>2, OffMoves DEF OffHolds
  <2> QED BY <2>3, <2>4
<1> QED BY <1>4, <1>5 DEF CheckOwner, CheckIdle, CheckCharged, CheckDeclined, CrashPass

\* A handler's write forgets the charges when it switches auto-pay on.
LEMMA SaveOff ==
  ASSUME TypeOK, NEW r \in Request, FinishRequest(r)
  PROVE  \A o \in Owner : \/ db'[o].auto /\ unwilled'[o] = 0
                          \/ ~db'[o].auto /\ unwilled'[o] = unwilled[o]
                          \/ db'[o] = db[o] /\ unwilled'[o] = unwilled[o]
<1>1. ASSUME NEW new, request[r] # None, Save(r, new)
      PROVE  \A o \in Owner : \/ db'[o].auto /\ unwilled'[o] = 0
                              \/ ~db'[o].auto /\ unwilled'[o] = unwilled[o]
                              \/ db'[o] = db[o] /\ unwilled'[o] = unwilled[o]
  <2> DEFINE p == request[r].owner
             row == Merge(db[p], request[r].snap, new)
  <2>1. /\ p \in Owner /\ db' = [db EXCEPT ![p] = row]
        /\ unwilled' = [unwilled EXCEPT ![p] = IF row.auto THEN 0 ELSE @]
    BY <1>1 DEF Save, Commit, TypeOK, Handler
  <2> HIDE DEF p, row
  <2> QED BY <2>1 DEF TypeOK
<1>2. CASE FinishRejected(r)
  BY <1>2 DEF FinishRejected
<1>3. CASE ~FinishRejected(r)
  <2>1. \E new : request[r] # None /\ Save(r, new)
    BY <1>3 DEF FinishRequest, FinishSetup, FinishCancel, FinishAutoPay, FinishSucceeded,
                FinishFailed, FinishDeleted, FinishSubscribe, Finish
  <2> QED BY <1>1, <2>1
<1> QED BY <1>2, <1>3

LEMMA OffStep ==
  ASSUME TypeOK, TypeOK', \A o \in Owner : OffHolds(o), [Next]_vars
  PROVE  \A o \in Owner : OffHolds(o)'
<1>1. ASSUME NEW w \in Worker, StartPass(w), NEW o \in Owner PROVE OffHolds(o)'
  <2>1. /\ db' = db /\ unwilled' = unwilled /\ pass[w] = None
        /\ pass'[w].snap = db
    BY <1>1 DEF StartPass
  <2>2. ASSUME ~db[o].auto, NEW v \in Willing(o)' PROVE v \in Willing(o)
    <3>1. v \in Worker /\ pass'[v] # None /\ o \in pass'[v].todo /\ pass'[v].snap[o].auto
      BY <2>2 DEF Willing
    <3>2. v # w
      BY <2>1, <2>2, <3>1
    <3>3. pass[v] \in Pass /\ pass[v] # None /\ pass'[v] = [pass[v] EXCEPT !.alone = FALSE]
      BY <1>1, <3>1, <3>2 DEF StartPass, TypeOK
    <3>4. pass'[v].todo = pass[v].todo /\ pass'[v].snap = pass[v].snap
      BY <3>3 DEF Pass
    <3> QED BY <3>1, <3>3, <3>4 DEF Willing
  <2>3. CASE db[o].auto
    BY <2>1, <2>3 DEF OffHolds
  <2>4. CASE ~db[o].auto
    BY <2>1, <2>2, <2>4, OffMoves
  <2> QED BY <2>3, <2>4
<1>2. ASSUME NEW w \in Worker, NEW o \in Owner, CheckOwner(w, o) \/ CrashPass(w, o)
      PROVE  \A p \in Owner : OffHolds(p)'
  BY <1>2, PassOff
<1>3. ASSUME NEW r \in Request, FinishRequest(r), NEW o \in Owner PROVE OffHolds(o)'
  <2>1. Willing(o)' = Willing(o)
    BY <1>3, FinishRequestFrame DEF Willing
  <2>2. CASE db'[o].auto /\ unwilled'[o] = 0
    BY <2>2 DEF OffHolds
  <2>3. CASE ~db'[o].auto /\ unwilled'[o] = unwilled[o]
    BY <2>1, <2>3, OffMoves
  <2>4. CASE db'[o] = db[o] /\ unwilled'[o] = unwilled[o]
    BY <2>1, <2>4 DEF OffHolds
  <2> QED BY <1>3, <2>2, <2>3, <2>4, SaveOff
<1>4. ASSUME UNCHANGED <<db, pass, unwilled>>, NEW o \in Owner PROVE OffHolds(o)'
  BY <1>4 DEF OffHolds, Willing
<1> QED BY <1>1, <1>2, <1>3, <1>4
        DEF Next, StartRequest, Deliver, SettleInvoice, EndSubscription, Tick, vars

\* Once auto-pay is off, no more charges are made than there are passes already open.
THEOREM OffStops == Spec => []OffStopsCharges
<1>1. Init => \A o \in Owner : OffHolds(o)
  <2> SUFFICES ASSUME Init, NEW o \in Owner PROVE OffHolds(o)
    OBVIOUS
  <2>1. ~db[o].auto /\ unwilled[o] = 0
    BY DEF Init, NewRow
  <2> QED BY <2>1, WillingIs DEF OffHolds
<1>2. TypeOK /\ TypeOK' /\ (\A o \in Owner : OffHolds(o)) /\ [Next]_vars =>
        (\A o \in Owner : OffHolds(o))'
  BY OffStep
<1>3. TypeOK /\ (\A o \in Owner : OffHolds(o)) => OffStopsCharges
  <2> SUFFICES ASSUME TypeOK, NEW o \in Owner, OffHolds(o) PROVE unwilled[o] <= Cardinality(Worker)
    BY DEF OffStopsCharges
  <2>1. unwilled[o] \in Nat
    BY DEF TypeOK
  <2> QED BY <2>1, WillingIs DEF OffHolds
<1> QED BY <1>1, <1>2, <1>3, BillingTypeOK, PTL DEF Spec
=============================================================================
