--------------------------------- MODULE Push ---------------------------------
(***************************************************************************)
(* Push notifications (services/push.py, routers/push.py,                  *)
(* services/admin/maintenance.py): browsers subscribe and unsubscribe      *)
(* while notifications are sent to their owners, to one on request or to   *)
(* all by a broadcast, which uses one session of the database for them     *)
(* all.  The calls to the push service do not give way to other requests   *)
(* of the process; the database is read before and written after them.     *)
(*                                                                         *)
(* A row that is not there is passed over by a DELETE, with a warning, and *)
(* fails an UPDATE; a commit that fails leaves its session unusable.       *)
(***************************************************************************)
EXTENDS Integers, FiniteSets

CONSTANTS
  Members,     \* owners
  Endpoints,   \* what the push service knows a browser by
  Asks,        \* requests in progress
  Caster,      \* the broadcast, the only sender that is not a request
  PushStarts   \* bounds: subscriptions, removals, tests, endpoints that go, broadcasts

ASSUME PushAssumption ==
  /\ Caster \notin Asks /\ IsFiniteSet(Members)
  /\ PushStarts \subseteq [{"join", "leave", "test", "go", "cast"} -> Nat]

VARIABLES
  subscription,  \* push_subscriptions: an id, an endpoint and an owner each
  departed,       \* ghost: the ids of the rows that are no more
  gone,          \* the endpoints for which the push service answers 404 or 410
  wish,          \* each request, and the owner the broadcast is at: what, whose, the
                 \* endpoint, the row found, the rows listed, delivered, to be pruned, and
                 \* (a ghost) the ids of those the push service answered 404 or 410 for
  cast,          \* the broadcast: where, the owners left, its count, and the rows it
                 \* delivered to in a send whose commit failed
  wanted,        \* ghost: the endpoints whose browser was told that it is subscribed
  reached,       \* ghost: the deliveries of the broadcast
  pushLeft       \* the bounds that are left

pushVars == <<subscription, departed, gone, wish, cast, wanted, reached, pushLeft>>

Sender == Asks \cup {Caster}
NoWish == [op |-> "none", of |-> "none", endpoint |-> "none", row |-> 0,
           subs |-> {}, fine |-> {}, stale |-> {}, dead |-> {}]
NoCast == [pc |-> "none", left |-> {}, count |-> 0, lost |-> {}]
On(endpoint) == {s \in subscription : s.endpoint = endpoint}
Ids(rows) == {s.id : s \in rows}
Present == Ids(subscription)
Leaves(s) == wish' = [wish EXCEPT ![s] = NoWish]
Allot(what) == pushLeft[what] > 0 /\ pushLeft' = [pushLeft EXCEPT ![what] = @ - 1]

PushInit ==
  /\ subscription = {} /\ departed = {} /\ gone = {}
  /\ wish = [s \in Sender |-> NoWish] /\ cast = NoCast /\ wanted = {} /\ reached = 0
  /\ pushLeft \in PushStarts

-----------------------------------------------------------------------------
(* Browsers.                                                                *)

\* The row of the endpoint, whoever's it is, or none.
Subscribe(r, m, e) ==
  /\ wish[r] = NoWish /\ e \notin gone /\ Allot("join")
  /\ \E i \in IF On(e) = {} THEN {0} ELSE Ids(On(e)) :
       wish' = [wish EXCEPT ![r] = [NoWish EXCEPT !.op = "join", !.of = m, !.endpoint = e, !.row = i]]
  /\ UNCHANGED <<subscription, departed, gone, cast, wanted, reached>>

\* A new row, unless another request made it first; or the row that was found, which
\* changes hands, unless it is there no more.
Goes(r) == IF wish[r].row = 0 THEN On(wish[r].endpoint) = {} ELSE wish[r].row \in Present
NextRow == Cardinality(subscription) + Cardinality(departed) + 1

CommitSubscribe(r) ==
  /\ wish[r].op = "join" /\ Goes(r) /\ Leaves(r)
  /\ subscription' =
       IF wish[r].row = 0
       THEN subscription \cup {[id |-> NextRow, endpoint |-> wish[r].endpoint, of |-> wish[r].of]}
       ELSE {IF s.id = wish[r].row THEN [s EXCEPT !.of = wish[r].of] ELSE s : s \in subscription}
  /\ wanted' = wanted \cup {wish[r].endpoint}
  /\ UNCHANGED <<departed, gone, cast, reached, pushLeft>>

RefuseSubscribe(r) ==
  /\ wish[r].op = "join" /\ ~Goes(r) /\ Leaves(r)
  /\ UNCHANGED <<subscription, departed, gone, cast, wanted, reached, pushLeft>>

Unsubscribe(r, m, e) ==
  /\ wish[r] = NoWish /\ Allot("leave")
  /\ \E s \in On(e) :
       /\ s.of = m
       /\ wish' = [wish EXCEPT ![r] = [NoWish EXCEPT !.op = "leave", !.endpoint = e, !.row = s.id]]
  /\ UNCHANGED <<subscription, departed, gone, cast, wanted, reached>>

RemoveRows(ids) ==
  /\ subscription' = {s \in subscription : s.id \notin ids}
  /\ departed' = departed \cup (Present \cap ids)

CommitUnsubscribe(r) ==
  /\ wish[r].op = "leave" /\ Leaves(r)
  /\ RemoveRows({wish[r].row}) /\ wanted' = wanted \ {wish[r].endpoint}
  /\ UNCHANGED <<gone, cast, reached, pushLeft>>

EndpointGoes(e) ==
  /\ e \notin gone /\ Allot("go") /\ gone' = gone \cup {e}
  /\ UNCHANGED <<subscription, departed, wish, cast, wanted, reached>>

-----------------------------------------------------------------------------
(* send_to_owner().                                                         *)

Owned(m) == {s \in subscription : s.of = m}
Listing(m) == [NoWish EXCEPT !.op = "send", !.of = m, !.subs = Owned(m)]

SendTest(r, m) ==
  /\ wish[r] = NoWish /\ Owned(m) # {} /\ Allot("test")
  /\ wish' = [wish EXCEPT ![r] = Listing(m)]
  /\ UNCHANGED <<subscription, departed, gone, cast, wanted, reached>>

\* Each row listed is delivered, or fails.  What the push service answered is looked at
\* only if it is true, and an answer of 400 or more is not: its status is never seen.
Answer(row) == IF row.endpoint \in gone THEN 410 ELSE 503
Seen(status) == IF status < 400 THEN status ELSE 0

\* BadStale and the other definitions named Bad... are faulty variants of the
\* definition that follows them, for the mutation runs only.
BadStale(failed) == failed

Stale(failed) == {row \in failed : Seen(Answer(row)) \in {404, 410}}

Webpush(s) ==
  /\ wish[s].op = "send"
  /\ \E failed \in SUBSET wish[s].subs :
       /\ \A row \in wish[s].subs : row.endpoint \in gone => row \in failed
       /\ wish' = [wish EXCEPT ![s].op = "sent", ![s].fine = wish[s].subs \ failed,
                               ![s].stale = Stale(failed),
                               ![s].dead = Ids({row \in failed : row.endpoint \in gone})]
       /\ reached' = IF s = Caster THEN reached + Cardinality(wish[s].subs \ failed) ELSE reached
  /\ UNCHANGED <<subscription, departed, gone, cast, wanted, pushLeft>>

Lasting(s) == Ids(wish[s].fine) \subseteq Present

CommitSend(s) ==
  /\ wish[s].op = "sent" /\ Lasting(s) /\ Leaves(s) /\ RemoveRows(Ids(wish[s].stale))
  /\ cast' = IF s = Caster THEN [cast EXCEPT !.pc = "next", !.count = @ + Cardinality(wish[s].fine)]
             ELSE cast
  /\ UNCHANGED <<gone, wanted, reached, pushLeft>>

\* broadcast_notification() logs the error and goes on, with a session that is of no use:
\* nobody else is sent anything, and its own last commit fails.
FailSend(s) ==
  /\ wish[s].op = "sent" /\ ~Lasting(s) /\ Leaves(s)
  /\ cast' = IF s = Caster THEN [cast EXCEPT !.pc = "failed", !.lost = Ids(wish[s].fine)] ELSE cast
  /\ UNCHANGED <<subscription, departed, gone, wanted, reached, pushLeft>>

BeginBroadcast ==
  /\ cast = NoCast /\ Allot("cast") /\ cast' = [NoCast EXCEPT !.pc = "next", !.left = Members]
  /\ UNCHANGED <<subscription, departed, gone, wish, wanted, reached>>

BroadcastTo(m) ==
  /\ cast.pc = "next" /\ m \in cast.left
  /\ wish' = [wish EXCEPT ![Caster] = IF Owned(m) = {} THEN NoWish ELSE Listing(m)]
  /\ cast' = [cast EXCEPT !.left = @ \ {m}, !.pc = IF Owned(m) = {} THEN "next" ELSE "sending"]
  /\ UNCHANGED <<subscription, departed, gone, wanted, reached, pushLeft>>

EndBroadcast ==
  /\ cast.pc = "next" /\ cast.left = {} /\ cast' = [cast EXCEPT !.pc = "done"]
  /\ UNCHANGED <<subscription, departed, gone, wish, wanted, reached, pushLeft>>

PushNext ==
  \/ \E r \in Asks, m \in Members, e \in Endpoints : Subscribe(r, m, e) \/ Unsubscribe(r, m, e)
  \/ \E r \in Asks : CommitSubscribe(r) \/ RefuseSubscribe(r) \/ CommitUnsubscribe(r)
  \/ \E e \in Endpoints : EndpointGoes(e)
  \/ \E r \in Asks, m \in Members : SendTest(r, m)
  \/ \E s \in Sender : Webpush(s) \/ CommitSend(s) \/ FailSend(s)
  \/ BeginBroadcast \/ EndBroadcast
  \/ \E m \in Members : BroadcastTo(m)

PushSpec == PushInit /\ [][PushNext]_pushVars

-----------------------------------------------------------------------------
\* A browser that was told it is subscribed still is, once, until it unsubscribes: no
\* failed delivery and no removal decided on an earlier row takes it away.
StaysSubscribed ==
  \A e \in Endpoints :
    Cardinality(On(e)) <= 1 /\ (e \in wanted => On(e) # {})

\* The count recorded with a broadcast is that of its deliveries, to every owner.  It
\* fails only if a browser it had just delivered to unsubscribed before the commit; what it
\* had counted by then, which is never recorded, lacks that one owner's deliveries.
CountsAgree ==
  /\ cast.pc = "done" => cast.count = reached
  /\ cast.pc = "failed" => /\ cast.lost \cap departed # {}
                          /\ reached = cast.count + Cardinality(cast.lost)

PushSound == StaysSubscribed /\ CountsAgree

\* send_to_owner(): "Subscriptions that the push service rejects with 404/410 are pruned
\* automatically."  When a send has committed, none of those it was told are gone is left.
GonePruned ==
  [][\A s \in Sender :
       wish[s].op = "sent" /\ Lasting(s) /\ wish'[s] # wish[s] =>
         \A row \in subscription' : row.id \notin wish[s].dead]_pushVars
=============================================================================
