------------------------------ MODULE TwoFactor ------------------------------
(***************************************************************************)
(* Two-factor authentication of an owner (TwoFactorManager and             *)
(* DataDestroyer of services/security.py, and their routes).  A request    *)
(* reads the row, works on what it read, and writes what it changed of it: *)
(* the ORM sends only the columns whose value differs from the one read,   *)
(* and refuses an UPDATE of a row that is gone.  The entries of audit_logs *)
(* follow in transactions of their own and decide nothing; they are left   *)
(* out.                                                                    *)
(***************************************************************************)
EXTENDS Integers, FiniteSets

CONSTANTS
  Requests,
  BackupCodes,                   \* the codes of a set, BACKUP_CODE_COUNT of them
  MaxSetup, MaxVerify, MaxDisable   \* bounds

ASSUME TwoFactorAssumption ==
  /\ IsFiniteSet(BackupCodes) /\ {MaxSetup, MaxVerify, MaxDisable} \subseteq Nat

VARIABLES
  factor,        \* the row of two_factor_auth
  request,       \* what a request has read, and its code
  confirmed,     \* ghost: the secrets a code was accepted for
  spent,         \* ghost: the backup codes that were accepted
  tangled,       \* ghost: a setup and a verification overlapped, since the last clean setup
  doubled,       \* ghost: so did two verifications with backup codes
  factorLeft     \* the bounds that are left

factorVars == <<factor, request, confirmed, spent, tangled, doubled, factorLeft>>

\* A secret is the number of the setup that made it; a backup code says which one made it.
NoFactor == [id |-> 0, secret |-> 0, codes |-> {}, enabled |-> FALSE]
NoRequest == [pc |-> "idle", op |-> "none", read |-> NoFactor, code |-> <<0, "app">>, met |-> {}]
There == factor.id # 0
Setups == MaxSetup - factorLeft.setup
Use(what) == factorLeft[what] > 0 /\ factorLeft' = [factorLeft EXCEPT ![what] = @ - 1]

TwoFactorInit ==
  /\ factor = NoFactor /\ request = [r \in Requests |-> NoRequest]
  /\ confirmed = {} /\ spent = {} /\ tangled = FALSE /\ doubled = FALSE
  /\ factorLeft = [setup |-> MaxSetup, verify |-> MaxVerify, disable |-> MaxDisable]

Read(r, op, code) ==
  /\ request[r] = NoRequest
  /\ request' = [request EXCEPT ![r] =
       [pc |-> "read", op |-> op, read |-> factor, code |-> code, met |-> {}]]
  /\ UNCHANGED <<factor, confirmed, spent, tangled, doubled>>

\* r has committed a write of the row; the others under way will have met it
Commit(r, op) ==
  request' = [q \in Requests |->
    IF q = r THEN NoRequest
    ELSE IF request[q].pc = "read" THEN [request[q] EXCEPT !.met = @ \cup {op}]
    ELSE request[q]]

\* an exception, or the wrong code: nothing is written
Refuse(r) ==
  /\ request' = [request EXCEPT ![r] = NoRequest]
  /\ UNCHANGED <<factor, confirmed, spent, tangled, doubled, factorLeft>>

(***************************************************************************)
(* setup()                                                                 *)
(***************************************************************************)
BeginSetup(r) == Use("setup") /\ Read(r, "setup", <<Setups + 1, "app">>)

\* BadEnabled and the other definitions named Bad... are faulty variants of the definition
\* that follows them, for the mutation runs only.
BadEnabled(was) == factor.enabled

\* enabled = False is sent only if the row was read as enabled
Enabled(was) == factor.enabled /\ ~was.enabled

Setup(r) ==
  LET n == request[r].code[1]
      was == request[r].read
  IN /\ request[r].pc = "read" /\ request[r].op = "setup"
     /\ IF was.id # factor.id THEN Refuse(r)   \* no such row, or one already
        ELSE /\ factor' = [id |-> IF There THEN factor.id ELSE n, secret |-> n,
                           codes |-> {n} \X BackupCodes, enabled |-> Enabled(was)]
             /\ Commit(r, "setup")
             /\ tangled' = (request[r].met \cap {"app", "code"} # {}) /\ doubled' = FALSE
             /\ UNCHANGED <<confirmed, spent, factorLeft>>

(***************************************************************************)
(* verify(), of a request of its own or of delete_owner(), which asks for  *)
(* a code when the row says enabled.  The latter then always fails, in     *)
(* _cascade_delete(), and its deletions are rolled back.                   *)
(***************************************************************************)
BeginVerify(r, op, code) ==
  /\ There /\ Use("verify") /\ op \in {"verify", "delete"}
  /\ op = "delete" => factor.enabled
  /\ code \in (1..Setups) \X (BackupCodes \cup {"app"})
  /\ Read(r, op, code)

Accepts(was, code) == code = <<was.secret, "app">> \/ code \in was.codes

BadKeep(was, code) == was.codes

Keep(was, code) == was.codes \ {code}

Verify2FA(r) ==
  LET was == request[r].read
      code == request[r].code
      backup == code[2] # "app"
  IN /\ request[r].pc = "read" /\ request[r].op \in {"verify", "delete"}
     /\ IF ~Accepts(was, code) \/ was.id # factor.id THEN Refuse(r)
        ELSE /\ factor' = [factor EXCEPT !.enabled = @ \/ ~was.enabled,
                             !.codes = IF backup THEN Keep(was, code) ELSE @]
             /\ Commit(r, IF backup THEN "code" ELSE "app")
             /\ confirmed' = confirmed \cup {code[1]}
             /\ spent' = IF backup THEN spent \cup {code} ELSE spent
             /\ tangled' = (tangled \/ "setup" \in request[r].met)
             /\ doubled' = (doubled \/ (backup /\ "code" \in request[r].met))
             /\ UNCHANGED factorLeft

\* disable(), with the right password: a DELETE of whatever is there
Disable(r) ==
  /\ request[r] = NoRequest /\ Use("disable") /\ factor' = NoFactor /\ Commit(r, "disable")
  /\ UNCHANGED <<confirmed, spent, tangled, doubled>>

\* the process dies, or the request is dropped
Abort(r) == request[r] # NoRequest /\ Refuse(r)

TwoFactorNext ==
  \E r \in Requests :
    \/ BeginSetup(r) \/ Setup(r) \/ Verify2FA(r) \/ Disable(r) \/ Abort(r)
    \/ \E op \in {"verify", "delete"}, n \in 1..MaxSetup, c \in BackupCodes \cup {"app"} :
         BeginVerify(r, op, <<n, c>>)

TwoFactorSpec == TwoFactorInit /\ [][TwoFactorNext]_factorVars

-----------------------------------------------------------------------------
\* A secret is asked for only once its owner has shown a code of it, and the codes are
\* those shown with it, unless a setup and a verification overlapped.
Confirmed ==
  ~tangled => (factor.enabled => factor.secret \in confirmed)
              /\ factor.codes \subseteq {factor.secret} \X BackupCodes

\* A backup code is accepted once, unless requests overlapped.
CodesOnce == factor.codes \cap spent # {} => tangled \/ doubled

FactorSound == Confirmed /\ CodesOnce
=============================================================================
