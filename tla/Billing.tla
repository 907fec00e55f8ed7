------------------------------- MODULE Billing -------------------------------
(***************************************************************************)
(* Hosting payments and survival mode (services/self_manager.py).          *)
(*                                                                         *)
(* One row of billing_configs per owner is read and written by             *)
(*   - the daily self-preservation pass of every API worker process,       *)
(*   - the owner's own requests (setup, subscribe, cancel, auto-pay),      *)
(*   - Stripe's webhook deliveries, which may be late, repeated or lost.   *)
(* No handler locks the row.  A handler reads it into the objects of its   *)
(* database session, computes on that snapshot, and at commit writes only  *)
(* the columns it changed (SQLAlchemy, expire_on_commit=False).  The daily *)
(* pass reads the rows of all owners before it works on the first one.     *)
(*                                                                         *)
(* A charge is asked of Stripe without an idempotency key, and what comes   *)
(* back as an error counts as a decline: also a reply that is lost after    *)
(* Stripe took the money.                                                   *)
(*                                                                         *)
(* Time is counted in days.  Wording, card details, payment logs, the       *)
(* auto_pay_llm column and the feature switches that survival mode turns    *)
(* off in two other tables are left out: no property depends on them.      *)
(***************************************************************************)
EXTENDS FiniteSets, Integers, Sequences

CONSTANTS
  Owner,        \* owners, one billing_configs row each
  Worker,       \* API worker processes, each runs the daily loop
  Request,      \* request-handler tasks that may be open at the same time
  Period,       \* days paid for by one payment (30 in the code)
  MaxSubs,      \* bound: subscriptions Stripe creates per owner
  MaxInvoices,  \* bound: subscription invoices Stripe settles
  MaxFaults,    \* bound: crashes of a worker, and lost replies to a charge
  MaxCount,     \* bound: value of payment_retry_count
  MaxDay,       \* bound: last day of a run
  None          \* NULL in a nullable column, or no session

ASSUME BillingAssumption ==
  /\ Period \in Nat \ {0}
  /\ MaxSubs \in Nat /\ MaxInvoices \in Nat /\ MaxFaults \in Nat
  /\ MaxCount \in Nat /\ MaxDay \in Nat
  /\ IsFiniteSet(Worker)
  /\ None \notin Int

VARIABLES
  day,       \* today
  db,        \* committed billing_configs rows
  pass,      \* per worker: the daily pass in progress, or None
  request,   \* per task: the handler in progress, or None
  subs,      \* Stripe: status of each subscription of an owner
  events,    \* Stripe: webhook events on their way, possibly for ever
  ledger,    \* Stripe: an owner's one-time charges that were paid
  invoices,  \* Stripe: number of settled subscription invoices
  faults,    \* number of crashes and lost replies so far
  unwilled   \* ghost: the one-time charges since auto-pay was last on, per owner

vars == <<day, db, pass, request, subs, events, ledger, invoices,
          faults, unwilled>>

-----------------------------------------------------------------------------
MaxRetries == 3
Day        == Nat
SubId      == 1..MaxSubs
SubStatus  == {"none", "active", "unpaid", "canceling", "ended"}
EventType  == {"succeeded", "failed", "deleted"}

Row == [customer : BOOLEAN,           \* stripe_customer_id is set
        sub      : SubId \cup {None}, \* stripe_subscription_id
        auto     : BOOLEAN,           \* auto_pay_hosting
        expires  : Day \cup {None},   \* hosting_expires_at
        survival : BOOLEAN,           \* survival_mode
        entered  : Day \cup {None},   \* survival_mode_entered_at
        count    : Nat,               \* payment_retry_count
        next     : Day \cup {None}]   \* next_retry_at

NewRow == [customer |-> FALSE, sub |-> None, auto |-> FALSE, expires |-> None,
           survival |-> FALSE, entered |-> None, count |-> 0, next |-> None]

Event   == [type : EventType, owner : Owner]
\* alone (a ghost): no other pass has been open since this one began
Pass    == [todo : SUBSET Owner, snap : [Owner -> Row], now : Day, alone : BOOLEAN]
\* known: the success was recorded; alone: that of the pass
Charge  == [day : Day, known : BOOLEAN, alone : BOOLEAN]
Op      == {"setup", "subscribe", "cancel", "auto_on", "auto_off"} \cup EventType
Handler == [op : Op, owner : Owner, snap : Row]

-----------------------------------------------------------------------------
(* Computations on a snapshot.  A definition named Bad... is a faulty      *)
(* variant of the one after it; only the mutation runs use it.             *)

ExitSurvival(row) ==
  [row EXCEPT !.survival = FALSE, !.entered = None, !.count = 0, !.next = None]

LeaveSurvival(row) == IF row.survival THEN ExitSurvival(row) ELSE row

EnterSurvival(row, now) == [row EXCEPT !.survival = TRUE, !.entered = now]

RenewSucceeded(row, now) ==
  LeaveSurvival([row EXCEPT !.expires = now + Period, !.count = 0, !.next = None])

BadRenewFailed(row, now) == [row EXCEPT !.next = now + 1]

RenewFailed(row, now) ==
  LET n == row.count + 1
      counted == [row EXCEPT !.count = n]
  IN  IF n < MaxRetries THEN [counted EXCEPT !.next = now + n]
                        ELSE EnterSurvival(counted, now)

BadInvoiceSucceeded(row, now) ==
  LeaveSurvival([row EXCEPT !.expires = now + Period, !.count = row.count - 1])

InvoiceSucceeded(row, now) ==
  LeaveSurvival([row EXCEPT !.expires = now + Period, !.count = 0])

InvoiceFailed(row, now) ==
  LET counted == [row EXCEPT !.count = row.count + 1]
  IN  IF counted.count >= MaxRetries THEN EnterSurvival(counted, now)
                                     ELSE counted

Subscribed(row, s, now) ==
  LeaveSurvival([row EXCEPT !.sub = s, !.auto = TRUE, !.expires = now + Period])

SubscriptionDeleted(row) == [row EXCEPT !.sub = None, !.auto = FALSE]

(* _check_single_owner, step 1: a scheduled retry has come due *)
RetryDue(row, now) ==
  /\ row.count > 0 /\ row.count < MaxRetries
  /\ row.next # None /\ now >= row.next
  /\ row.auto

BadRenewalDue(row, now) ==
  /\ row.expires # None /\ row.expires <= now
  /\ row.auto /\ ~row.survival

(* _check_single_owner, step 2: the paid period is over *)
RenewalDue(row, now) ==
  /\ row.expires # None /\ row.expires < now
  /\ row.auto /\ ~row.survival

BadMustCharge(row, now) ==
  (RetryDue(row, now) \/ (row.expires # None /\ row.expires < now)) /\ row.customer

(* renew_hosting is called, and gets past its own two guards *)
MustCharge(row, now) ==
  /\ RetryDue(row, now) \/ RenewalDue(row, now)
  /\ row.customer /\ row.auto

BadMerge(cur, old, new) == new

(* The UPDATE of a session: a column is written iff the handler changed it. *)
Merge(cur, old, new) ==
  LET Col(c, o, n) == IF n = o THEN c ELSE n
  IN [customer |-> Col(cur.customer, old.customer, new.customer),
      sub      |-> Col(cur.sub, old.sub, new.sub),
      auto     |-> Col(cur.auto, old.auto, new.auto),
      expires  |-> Col(cur.expires, old.expires, new.expires),
      survival |-> Col(cur.survival, old.survival, new.survival),
      entered  |-> Col(cur.entered, old.entered, new.entered),
      count    |-> Col(cur.count, old.count, new.count),
      next     |-> Col(cur.next, old.next, new.next)]

Commit(o, old, new) == db' = [db EXCEPT ![o] = Merge(@, old, new)]

-----------------------------------------------------------------------------
(* The daily pass. *)

StartPass(w) ==
  /\ pass[w] = None
  /\ pass' = [v \in Worker |->
       CASE v = w -> [todo |-> Owner, snap |-> db, now |-> day,
                      alone |-> \A u \in Worker : pass[u] = None]
         [] v # w /\ pass[v] # None -> [pass[v] EXCEPT !.alone = FALSE]
         [] OTHER -> None]
  /\ UNCHANGED <<day, db, request, subs, events, ledger, invoices, faults, unwilled>>

(* owner o has been dealt with; row is what the session now holds of it *)
PassDone(w, o, row) ==
  LET p == pass[w]
  IN  pass' = [pass EXCEPT ![w] =
                 IF p.todo = {o} THEN None
                 ELSE [todo |-> p.todo \ {o}, snap |-> [p.snap EXCEPT ![o] = row],
                       now  |-> p.now, alone |-> p.alone]]

(* Stripe takes the money. *)
Pay(w, o, known) ==
  /\ ledger' = [ledger EXCEPT ![o] =
                  Append(@, [day |-> day, known |-> known, alone |-> pass[w].alone])]
  /\ unwilled' = [unwilled EXCEPT ![o] = IF db[o].auto THEN 0 ELSE @ + 1]

Fault == faults < MaxFaults /\ faults' = faults + 1

Selected(w, o) == pass[w] # None /\ o \in pass[w].todo

CheckIdle(w, o) ==
  /\ Selected(w, o)
  /\ LET row == pass[w].snap[o]
     IN  ~MustCharge(row, pass[w].now) /\ PassDone(w, o, row)
  /\ UNCHANGED <<day, db, request, subs, events, ledger, invoices, faults, unwilled>>

CheckCharged(w, o) ==
  /\ Selected(w, o)
  /\ LET row == pass[w].snap[o]
         new == RenewSucceeded(row, day)
     IN  /\ MustCharge(row, pass[w].now)
         /\ Commit(o, row, new)
         /\ PassDone(w, o, new)
  /\ Pay(w, o, TRUE)
  /\ UNCHANGED <<day, request, subs, events, invoices, faults>>

(* stripe.StripeError: a decline, or a reply that is lost.                 *)
CheckDeclined(w, o) ==
  /\ Selected(w, o)
  /\ LET row == pass[w].snap[o]
         new == RenewFailed(row, day)
     IN  /\ MustCharge(row, pass[w].now)
         /\ Commit(o, row, new)
         /\ PassDone(w, o, new)
  /\ \/ UNCHANGED <<ledger, unwilled, faults>>
     \/ Pay(w, o, FALSE) /\ Fault
  /\ UNCHANGED <<day, request, subs, events, invoices>>

(* The process dies in a pass: before a charge, or after Stripe took the    *)
(* money and before the commit.                                            *)
CrashPass(w, o) ==
  /\ Selected(w, o) /\ Fault
  /\ \/ UNCHANGED <<ledger, unwilled>>
     \/ MustCharge(pass[w].snap[o], pass[w].now) /\ Pay(w, o, FALSE)
  /\ pass' = [pass EXCEPT ![w] = None]
  /\ UNCHANGED <<day, db, request, subs, events, invoices>>

-----------------------------------------------------------------------------
(* Requests and webhooks: the read, then the rest of the handler. *)

Begin(r, op, o) ==
  /\ request[r] = None
  /\ request' = [request EXCEPT ![r] = [op |-> op, owner |-> o, snap |-> db[o]]]

StartRequest(r, op, o) ==
  /\ op \notin EventType
  /\ op = "subscribe" => subs[o][MaxSubs] = "none"
  /\ Begin(r, op, o)
  /\ UNCHANGED <<day, db, pass, subs, events, ledger, invoices, faults, unwilled>>

(* Stripe delivers an event; it may deliver it again later. *)
Deliver(r, e) ==
  /\ e \in events
  /\ e.type = "failed" => db[e.owner].count < MaxCount
  /\ Begin(r, e.type, e.owner)
  /\ events' \in {events, events \ {e}}
  /\ UNCHANGED <<day, db, pass, subs, ledger, invoices, faults, unwilled>>

Finish(r, op) ==
  /\ request[r] # None /\ request[r].op = op
  /\ request' = [request EXCEPT ![r] = None]

Save(r, new) ==
  LET o == request[r].owner
      old == request[r].snap
  IN  /\ Commit(o, old, new)
      /\ unwilled' = [unwilled EXCEPT ![o] = IF Merge(db[o], old, new).auto THEN 0 ELSE @]

(* what Stripe.Subscription.retrieve or modify finds *)
RecordedStatus(h) == IF h.snap.sub = None THEN "none" ELSE subs[h.owner][h.snap.sub]

(* the handler raises or returns before it changes anything *)
Rejected(h) ==
  \/ h.op = "subscribe" /\ ~h.snap.customer
  \/ h.op = "subscribe" /\ RecordedStatus(h) \in {"active", "canceling"}
  \/ h.op = "cancel" /\ RecordedStatus(h) \in {"none", "ended"}

FinishRejected(r) ==
  /\ request[r] # None /\ Rejected(request[r])
  /\ request' = [request EXCEPT ![r] = None]
  /\ UNCHANGED <<day, db, pass, subs, events, ledger, invoices, faults, unwilled>>

FinishSetup(r) ==
  /\ Finish(r, "setup")
  /\ Save(r, [request[r].snap EXCEPT !.customer = TRUE])
  /\ UNCHANGED <<day, pass, subs, events, ledger, invoices, faults>>

(* The first invoice of the new subscription may already have failed; the  *)
(* code does not look at the status.                                       *)
FinishSubscribe(r, s) ==
  /\ Finish(r, "subscribe") /\ ~Rejected(request[r])
  /\ LET o == request[r].owner
     IN  /\ subs[o][s] = "none"
         /\ \A t \in SubId : t < s => subs[o][t] # "none"
         /\ \E status \in {"active", "unpaid"} :
              subs' = [subs EXCEPT ![o] = [@ EXCEPT ![s] = status]]
  /\ Save(r, Subscribed(request[r].snap, s, day))
  /\ UNCHANGED <<day, pass, events, ledger, invoices, faults>>

FinishCancel(r) ==
  /\ Finish(r, "cancel") /\ ~Rejected(request[r])
  /\ LET o == request[r].owner
         s == request[r].snap.sub
     IN  subs' = IF subs[o][s] = "active"
                 THEN [subs EXCEPT ![o] = [@ EXCEPT ![s] = "canceling"]] ELSE subs
  /\ Save(r, [request[r].snap EXCEPT !.auto = FALSE])
  /\ UNCHANGED <<day, pass, events, ledger, invoices, faults>>

FinishAutoPay(r) ==
  /\ \E on \in BOOLEAN :
       /\ Finish(r, IF on THEN "auto_on" ELSE "auto_off")
       /\ Save(r, [request[r].snap EXCEPT !.auto = on])
  /\ UNCHANGED <<day, pass, subs, events, ledger, invoices, faults>>

FinishSucceeded(r) ==
  /\ Finish(r, "succeeded")
  /\ Save(r, InvoiceSucceeded(request[r].snap, day))
  /\ UNCHANGED <<day, pass, subs, events, ledger, invoices, faults>>

FinishFailed(r) ==
  /\ Finish(r, "failed")
  /\ Save(r, InvoiceFailed(request[r].snap, day))
  /\ UNCHANGED <<day, pass, subs, events, ledger, invoices, faults>>

FinishDeleted(r) ==
  /\ Finish(r, "deleted")
  /\ Save(r, SubscriptionDeleted(request[r].snap))
  /\ UNCHANGED <<day, pass, subs, events, ledger, invoices, faults>>

-----------------------------------------------------------------------------
(* Stripe, and the calendar. *)

SettleInvoice(o, s) ==
  /\ invoices < MaxInvoices
  /\ subs[o][s] \in {"active", "unpaid"}
  /\ \E paid \in BOOLEAN :
       /\ subs' = [subs EXCEPT ![o] =
                     [@ EXCEPT ![s] = IF paid THEN "active" ELSE "unpaid"]]
       /\ events' = events \cup
                    {[type |-> IF paid THEN "succeeded" ELSE "failed", owner |-> o]}
  /\ invoices' = invoices + 1
  /\ UNCHANGED <<day, db, pass, request, ledger, faults, unwilled>>

EndSubscription(o, s) ==
  /\ subs[o][s] \in {"canceling", "unpaid"}
  /\ subs' = [subs EXCEPT ![o] = [@ EXCEPT ![s] = "ended"]]
  /\ events' = events \cup {[type |-> "deleted", owner |-> o]}
  /\ UNCHANGED <<day, db, pass, request, ledger, invoices, faults, unwilled>>

Tick ==
  /\ day < MaxDay
  /\ day' = day + 1
  /\ UNCHANGED <<db, pass, request, subs, events, ledger, invoices, faults, unwilled>>

-----------------------------------------------------------------------------
Init ==
  /\ day = 0
  /\ db = [o \in Owner |-> NewRow]
  /\ pass = [w \in Worker |-> None]
  /\ request = [r \in Request |-> None]
  /\ subs = [o \in Owner |-> [s \in SubId |-> "none"]]
  /\ events = {}
  /\ ledger = [o \in Owner |-> <<>>]
  /\ invoices = 0
  /\ faults = 0
  /\ unwilled = [o \in Owner |-> 0]

CheckOwner(w, o) == CheckIdle(w, o) \/ CheckCharged(w, o) \/ CheckDeclined(w, o)

FinishRequest(r) ==
  \/ FinishRejected(r) \/ FinishSetup(r) \/ FinishCancel(r) \/ FinishAutoPay(r)
  \/ FinishSucceeded(r) \/ FinishFailed(r) \/ FinishDeleted(r)
  \/ \E s \in SubId : FinishSubscribe(r, s)

Next ==
  \/ \E w \in Worker : StartPass(w)
  \/ \E w \in Worker, o \in Owner : CheckOwner(w, o) \/ CrashPass(w, o)
  \/ \E r \in Request, o \in Owner, op \in Op : StartRequest(r, op, o)
  \/ \E r \in Request, e \in events : Deliver(r, e)
  \/ \E r \in Request : FinishRequest(r)
  \/ \E o \in Owner, s \in SubId : SettleInvoice(o, s) \/ EndSubscription(o, s)
  \/ Tick

Spec == Init /\ [][Next]_vars

(* The daily loop of a live worker keeps running and Stripe answers every   *)
(* charge one way or the other; a request that was begun is carried through.*)
FairSpec ==
  /\ Spec
  /\ \A w \in Worker : WF_vars(StartPass(w))
  /\ \A w \in Worker, o \in Owner : WF_vars(CheckOwner(w, o))
  /\ \A r \in Request : WF_vars(FinishRequest(r))

-----------------------------------------------------------------------------
(* Properties. *)

(* Every column and every snapshot holds a value of its type; a retry      *)
(* counter in particular never goes below zero.                            *)
TypeOK ==
  /\ day \in Day
  /\ db \in [Owner -> Row]
  /\ pass \in [Worker -> Pass \cup {None}]
  /\ request \in [Request -> Handler \cup {None}]
  /\ subs \in [Owner -> [SubId -> SubStatus]]
  /\ events \in SUBSET Event
  /\ ledger \in [Owner -> Seq(Charge)]
  /\ invoices \in Nat
  /\ faults \in Nat
  /\ unwilled \in [Owner -> Nat]

(* A paid month is paid once: two one-time charges of an owner are more     *)
(* than Period days apart, although requests and webhooks write the row     *)
(* from snapshots taken before the charge.                                  *)
ChargesSpaced ==
  \A o \in Owner : \A i \in 1..Len(ledger[o]) - 1 :
    ledger[o][i + 1].day > ledger[o][i].day + Period

(* A month is charged once more only after a charge that the row does not   *)
(* know of, its reply or its worker lost before the commit, or one of a     *)
(* pass that overlapped that of another worker: nothing requests, webhooks  *)
(* and retries do makes a charge that is recorded be repeated.              *)
RepeatsExplained ==
  \A o \in Owner : \A i \in 1..Len(ledger[o]) - 1 :
    \/ ledger[o][i + 1].day > ledger[o][i].day + Period
    \/ ~ledger[o][i].known \/ ~ledger[o][i].alone

(* What was paid for is never taken back: however handlers overlap, no      *)
(* write of a stale snapshot moves the expiry before the end of a period    *)
(* whose charge was recorded.                                               *)
PaidKept ==
  \A o \in Owner : \A i \in 1..Len(ledger[o]) :
    ledger[o][i].known => /\ db[o].expires # None
                          /\ db[o].expires >= ledger[o][i].day + Period

(* Auto-pay that is switched off, by the owner or with the subscription,    *)
(* stops the charges: as long as it is off no worker charges more than      *)
(* once, from a snapshot of the pass that was open.                         *)
OffStopsCharges == \A o \in Owner : unwilled[o] <= Cardinality(Worker)

Overdue(o) ==
  /\ db[o].expires # None /\ db[o].expires < day
  /\ db[o].auto /\ db[o].customer /\ ~db[o].survival

(* An owner whose period ran out with auto-pay on does not stay that way:   *)
(* a payment succeeds, auto-pay is switched off or survival mode begins.    *)
OverdueIsSettled == \A o \in Owner : Overdue(o) ~> ~Overdue(o)
=============================================================================
