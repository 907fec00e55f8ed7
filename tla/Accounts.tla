------------------------------- MODULE Accounts -------------------------------
(***************************************************************************)
(* The rows of the owners (services/auth.py, routers/auth.py) and their    *)
(* face and voice profiles (services/face_verify.py, services/             *)
(* voice_verify.py): making an account, signing in with Google, editing    *)
(* the profile, setting a password, enrolling and checking.  Each request  *)
(* reads a row, awaits, and commits the columns it changed of the row it   *)
(* read; the unique indexes on email and google_id have the last word.     *)
(* Whether a sample matches a profile is an input.                         *)
(***************************************************************************)
EXTENDS Integers, FiniteSets

CONSTANTS
  Owners,        \* the ids there may be
  Addresses,     \* e-mail addresses
  Lower,         \* the lower-case form of each
  Googles,       \* Google accounts
  MailOf,        \* the address of each, in lower case
  Calls,         \* requests in progress
  NoGoogle,
  AccountStarts  \* bounds: accounts made, Google sign-ins, edits, passwords, profiles, checks,
                 \* deaths of the process

ASSUME AccountsAssumption ==
  /\ Owners \subseteq Nat \ {0} /\ IsFiniteSet(Owners) /\ NoGoogle \notin Googles
  /\ Lower \in [Addresses -> Addresses] /\ MailOf \in [Googles -> Addresses]
  /\ \A a \in Addresses : Lower[Lower[a]] = Lower[a]
  /\ \A g \in Googles : Lower[MailOf[g]] = MailOf[g]
  /\ 0 \notin Addresses \cup Googles
  /\ AccountStarts \subseteq
       [{"setup", "google", "edit", "password", "profile", "check", "death"} -> Nat]

Columns == {"email", "google", "password", "face", "voice"}
Kinds == {"face", "voice"}

VARIABLES
  owner,         \* the owners table
  call,          \* each request: what it is, where, its row, as read and as changed
  storage,       \* the profiles on disk, by number
  checks,        \* verification_logs: the kind, the owner, the profile compared
  wrote,         \* ghost: per row and column, what the last commit to change it wrote
  had,           \* ghost: the lower-case addresses a row has had
  home,          \* ghost: the row each Google account signed in to last
  accountsLeft   \* the bounds that are left

accountVars == <<owner, call, storage, checks, wrote, had, home, accountsLeft>>

NoRow == [c \in Columns |-> 0]
NoCall == [op |-> "none", pc |-> "none", of |-> 0, was |-> NoRow, new |-> NoRow, by |-> NoGoogle]
Account(email, google) ==
  [c \in Columns |-> IF c = "email" THEN email ELSE IF c = "google" THEN google ELSE 0]
Existing == {o \in Owners : owner[o] # NoRow}
NextId == CHOOSE o \in Owners \ Existing : \A p \in Owners \ Existing : o <= p
Spend(what) == accountsLeft[what] > 0 /\ accountsLeft' = [accountsLeft EXCEPT ![what] = @ - 1]
Free(r) == call[r] = NoCall
Is(r, op, pc) == call[r].op = op /\ call[r].pc = pc
End(r) == call' = [call EXCEPT ![r] = NoCall]
Start(r, op, pc, o, new) ==
  call' = [call EXCEPT ![r] = [NoCall EXCEPT !.op = op, !.pc = pc, !.of = o,
                                             !.was = owner[o], !.new = new]]

AccountsInit ==
  /\ owner = [o \in Owners |-> NoRow] /\ call = [r \in Calls |-> NoCall]
  /\ storage = {} /\ checks = {} /\ wrote = owner /\ had = [o \in Owners |-> {}]
  /\ home = [g \in Googles |-> 0]
  /\ accountsLeft \in AccountStarts

-----------------------------------------------------------------------------
(* The two ways a request ends in the table.                                *)

Clash(o, row) ==
  \E p \in Existing \ {o} :
    \/ owner[p].email = row.email
    \/ row.google # NoGoogle /\ owner[p].google = row.google

Insert(o, row) ==
  /\ owner' = [owner EXCEPT ![o] = row] /\ wrote' = [wrote EXCEPT ![o] = row]
  /\ had' = [had EXCEPT ![o] = @ \cup {Lower[row.email]}]

Changed(r) == {c \in Columns : call[r].new[c] # call[r].was[c]}

\* The UPDATE names the columns that are not as they were read.
\* BadUpdated and the other definitions named Bad... are faulty variants of the
\* definition that follows them, for the mutation runs only.
BadUpdated(r, row) == call[r].new

Updated(r, row) == [c \in Columns |-> IF c \in Changed(r) THEN call[r].new[c] ELSE row[c]]

Commit(r) ==
  LET o == call[r].of
      row == Updated(r, owner[o]) IN
  /\ ~Clash(o, row)
  /\ owner' = [owner EXCEPT ![o] = row]
  /\ wrote' = [wrote EXCEPT ![o] = [c \in Columns |-> IF c \in Changed(r) THEN call[r].new[c]
                                                      ELSE @[c]]]
  /\ had' = [had EXCEPT ![o] = @ \cup {Lower[row.email]}]
  /\ End(r)

Refused(r) ==
  /\ \/ call[r].pc = "insert" /\ (Owners = Existing \/ Clash(0, call[r].new))
     \/ call[r].pc = "commit" /\ Clash(call[r].of, Updated(r, owner[call[r].of]))
  /\ End(r)
  /\ UNCHANGED <<owner, storage, checks, wrote, had, home, accountsLeft>>

-----------------------------------------------------------------------------
(* Accounts.                                                                *)

\* setup_owner() and update_profile() look for the very address.
Taken(email) == \E p \in Existing : owner[p].email = email

SetupOwner(r, email) ==
  /\ Free(r) /\ ~Taken(email) /\ Spend("setup")
  /\ call' = [call EXCEPT ![r] = [NoCall EXCEPT !.op = "setup", !.pc = "insert",
                                                !.new = Account(email, NoGoogle)]]
  /\ UNCHANGED <<owner, storage, checks, wrote, had, home>>

InsertOwner(r) ==
  /\ Is(r, "setup", "insert") /\ Existing # Owners /\ ~Clash(0, call[r].new)
  /\ Insert(NextId, call[r].new) /\ End(r)
  /\ UNCHANGED <<storage, checks, home, accountsLeft>>

UpdateProfile(r, o, email) ==
  /\ Free(r) /\ o \in Existing /\ (email # owner[o].email => ~Taken(email)) /\ Spend("edit")
  /\ Start(r, "update", "commit", o, [owner[o] EXCEPT !.email = email])
  /\ UNCHANGED <<owner, storage, checks, wrote, had, home>>

\* The current password is asked for if there is one: the client gives the right one.
SetPassword(r, o) ==
  /\ Free(r) /\ o \in Existing /\ Spend("password")
  /\ Start(r, "password", "commit", o, [owner[o] EXCEPT !.password = accountsLeft.password])
  /\ UNCHANGED <<owner, storage, checks, wrote, had, home>>

CommitOwner(r) ==
  /\ call[r].op \in {"update", "password", "enroll"} /\ call[r].pc = "commit" /\ Commit(r)
  /\ UNCHANGED <<storage, checks, home, accountsLeft>>

-----------------------------------------------------------------------------
(* Google: by its id, then by its address in lower case, then a new row.    *)

OfGoogle(g) == {o \in Existing : owner[o].google = g}
OfMail(g) == {o \in Existing : Lower[owner[o].email] = MailOf[g]}

LookUpGoogle(r, g) ==
  /\ Free(r) /\ Spend("google")
  /\ IF OfGoogle(g) # {}
     THEN home' = [home EXCEPT ![g] = CHOOSE o \in OfGoogle(g) : TRUE] /\ UNCHANGED call
     ELSE /\ call' = [call EXCEPT ![r] = [NoCall EXCEPT !.op = "google", !.pc = "mail", !.by = g]]
          /\ UNCHANGED home
  /\ UNCHANGED <<owner, storage, checks, wrote, had>>

\* Two rows with one address in lower case are an error.
LookUpMail(r) ==
  /\ Is(r, "google", "mail")
  /\ LET g == call[r].by IN
     \/ OfMail(g) = {} /\ call' = [call EXCEPT ![r].pc = "insert", ![r].new = Account(MailOf[g], g)]
     \/ \E o \in OfMail(g) :
          /\ OfMail(g) = {o}
          /\ call' = [call EXCEPT ![r].pc = "commit", ![r].of = o, ![r].was = owner[o],
                                  ![r].new = [owner[o] EXCEPT !.google = g]]
     \/ Cardinality(OfMail(g)) > 1 /\ End(r)
  /\ UNCHANGED <<owner, storage, checks, wrote, had, home, accountsLeft>>

LinkGoogle(r) ==
  /\ Is(r, "google", "commit") /\ Commit(r)
  /\ home' = [home EXCEPT ![call[r].by] = call[r].of]
  /\ UNCHANGED <<storage, checks, accountsLeft>>

InsertViaGoogle(r) ==
  /\ Is(r, "google", "insert") /\ Existing # Owners /\ ~Clash(0, call[r].new)
  /\ Insert(NextId, call[r].new) /\ home' = [home EXCEPT ![call[r].by] = NextId] /\ End(r)
  /\ UNCHANGED <<storage, checks, accountsLeft>>

-----------------------------------------------------------------------------
(* Faces and voices: the average of the samples is saved, then the row is   *)
(* read and its reference changed.                                          *)

NextProfile == Cardinality(storage) + 1

EnrollProfile(r, o, kind) ==
  /\ Free(r) /\ o \in Existing /\ Spend("profile")
  /\ storage' = storage \cup {NextProfile}
  /\ call' = [call EXCEPT ![r] = [NoCall EXCEPT !.op = "enroll", !.pc = kind, !.of = o,
                                                !.new = [NoRow EXCEPT ![kind] = NextProfile]]]
  /\ UNCHANGED <<owner, checks, wrote, had, home>>

ReadEnrolled(r, kind) ==
  /\ Is(r, "enroll", kind)
  /\ Start(r, "enroll", "commit", call[r].of,
           [owner[call[r].of] EXCEPT ![kind] = call[r].new[kind]])
  /\ UNCHANGED <<owner, storage, checks, wrote, had, home, accountsLeft>>

\* A check reads the row and the profile, works on the sample elsewhere, then logs.
CheckProfile(r, o, kind) ==
  /\ Free(r) /\ o \in Existing /\ owner[o][kind] # 0 /\ Spend("check")
  /\ Start(r, "check", kind, o, owner[o])
  /\ UNCHANGED <<owner, storage, checks, wrote, had, home>>

LogVerification(r, kind) ==
  /\ Is(r, "check", kind)
  /\ checks' = checks \cup {[kind |-> kind, of |-> call[r].of, against |-> call[r].was[kind]]}
  /\ End(r)
  /\ UNCHANGED <<owner, storage, wrote, had, home, accountsLeft>>

\* The process dies, or the samples turn out to show no face after others were read.
DropCall(r) ==
  /\ ~Free(r) /\ Spend("death") /\ End(r)
  /\ UNCHANGED <<owner, storage, checks, wrote, had, home>>

AccountsNext ==
  \E r \in Calls :
    \/ \E a \in Addresses : SetupOwner(r, a) \/ \E o \in Owners : UpdateProfile(r, o, a)
    \/ InsertOwner(r) \/ CommitOwner(r) \/ Refused(r) \/ DropCall(r)
    \/ \E g \in Googles : LookUpGoogle(r, g)
    \/ LookUpMail(r) \/ LinkGoogle(r) \/ InsertViaGoogle(r)
    \/ \E o \in Owners : SetPassword(r, o)
    \/ \E o \in Owners, k \in Kinds : EnrollProfile(r, o, k) \/ CheckProfile(r, o, k)
    \/ \E k \in Kinds : ReadEnrolled(r, k) \/ LogVerification(r, k)

AccountsSpec == AccountsInit /\ [][AccountsNext]_accountVars

-----------------------------------------------------------------------------
\* Requests that overlap on one row leave each other's changes: every column is what
\* the last commit that changed it wrote, whoever edited, linked or enrolled meanwhile.
ColumnsKept == \A o \in Existing : owner[o] = wrote[o]

\* A Google account signs in to one row, and stays linked to the row it signed in to
\* unless another took it over: one whose address that row has had.
LinksKept ==
  /\ \A g \in Googles : Cardinality(OfGoogle(g)) <= 1
  /\ \A g \in {h \in Googles : home[h] # 0 /\ owner[home[h]].google # h} :
       \E other \in Googles \ {g} :
         owner[home[g]].google = other /\ MailOf[other] \in had[home[g]]

\* The profile a row names is on disk and was enrolled for nobody else, also when an
\* enrolment died half way, and so is what a check compared.
ProfilesStored ==
  /\ \A o \in Existing, k \in Kinds :
       owner[o][k] # 0 =>
         /\ owner[o][k] \in storage
         /\ \A p \in Existing, l \in Kinds : owner[p][l] = owner[o][k] => <<p, l>> = <<o, k>>
  /\ \A c \in checks : c.against \in storage

AccountsSound == ColumnsKept /\ LinksKept /\ ProfilesStored
=============================================================================
