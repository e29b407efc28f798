------------------------------ MODULE Accounts ------------------------------
(***************************************************************************)
(* User accounts: signing up and in by an emailed code, a password or an   *)
(* identity provider, moving to another address, and deletion with its     *)
(* 90-day window -- AuthService and UserServiceV2 over their repositories. *)
(*                                                                         *)
(* As in Orders, a request is a handler and an action one round trip.      *)
(* Requests overlap freely and may end at any await.                       *)
(*                                                                         *)
(* Left out: tokens (what follows a sign-in is its issueTokens), profile   *)
(* fields and passwords (any account's owner may know a password), mail.   *)
(***************************************************************************)
EXTENDS Integers, FiniteSets

CONSTANTS
    Users, NoUser,    \* ids the database can hand out, and the absence of one
    Emails, NoEmail,  \* normalized addresses, and the absence of a row
    AppleIds, NoApple,\* what an identity token's `sub` can be
    CodeIds, NoCode,  \* ids of verification_codes rows
    Requests,         \* concurrently running handlers
    MAX_CODE_ATTEMPTS,
    MaxChanges        \* bound: address changes pending at once

ASSUME AccountsAssumption ==
    /\ NoUser \notin Users
    /\ NoEmail \notin Emails
    /\ NoApple \notin AppleIds
    /\ NoCode \notin CodeIds
    /\ MAX_CODE_ATTEMPTS \in Nat \ {0}
    /\ MaxChanges \in Nat
    /\ IsFiniteSet(Requests)

VARIABLES
    account,  \* table users
    codes,    \* table verification_codes, without the expired rows
    changes,  \* table email_changes, without the expired rows: <<user, new address>>
    areq,     \* the running handlers
    proven    \* history: addresses somebody has shown to be theirs

vars == <<account, codes, changes, areq, proven>>

-----------------------------------------------------------------------------
(* Rows *)

Vacant == [email |-> NoEmail, apple |-> NoApple, verified |-> FALSE,
           deleted |-> FALSE, deletedAt |-> "never"]

NoCodeRow == [email |-> NoEmail, attempts |-> 0]

Exists(u) == account[u].email # NoEmail

Owns(u, e) == account[u].email = e

\* Mutant: the address is looked up before the insert, and not constrained.
UniqueApple(u, row) ==
    \A v \in Users \ {u} :
        Exists(v) /\ row.apple # NoApple => account[v].apple # row.apple

\* The unique columns of table users (googleId is one too: an insert that fails
\* on it is one of those that end at their await).
Unique(u, row) ==
    \A v \in Users \ {u} :
        Exists(v) => /\ account[v].email # row.email
                     /\ row.apple # NoApple => account[v].apple # row.apple

\* What a flush makes of a row: only the columns that differ from what the
\* request's entity manager loaded are written.
Written(row, loaded, patch) ==
    LET column(c) == IF patch[c] # loaded[c] THEN patch[c] ELSE row[c]
    IN  [email |-> column("email"), apple |-> column("apple"),
         verified |-> column("verified"), deleted |-> column("deleted"),
         deletedAt |-> column("deletedAt")]

-----------------------------------------------------------------------------
(* Handlers: `loaded` is the account as this request's entity manager has  *)
(* it; `findOne({ id })` answers from there once it is loaded.             *)

Resting == [pc |-> "idle", op |-> "none", uid |-> NoUser, email |-> NoEmail,
            apple |-> NoApple, code |-> NoCode, attempts |-> 0,
            loaded |-> Vacant]

Handle(r, q) == areq' = [areq EXCEPT ![r] = q]

Begin(r, q) == areq[r].pc = "idle" /\ Handle(r, q)

\* A flush of `patch`: the handler goes on as `next`, or ends by throwing when
\* a unique column is taken.  A row that is gone is not written.
Flush(r, patch, next) ==
    LET u == areq[r].uid
        row == Written(account[u], areq[r].loaded, patch)
    IN  IF ~Exists(u)
        THEN Handle(r, next) /\ UNCHANGED account
        ELSE IF Unique(u, row)
        THEN Handle(r, next) /\ account' = [account EXCEPT ![u] = row]
        ELSE Handle(r, Resting) /\ UNCHANGED account

\* Mutant: a new code is stored beside the old ones.
ToDropCodesLater(q) ==
    [Resting EXCEPT !.pc = IF q.op = "code" THEN "addCode" ELSE "dropCodes",
                    !.op = q.op, !.email = q.email]

\* The handler is to delete the codes of its address, and forgets the rest.
ToDropCodes(q) ==
    [Resting EXCEPT !.pc = "dropCodes", !.op = q.op, !.email = q.email]

\* The handler q signs in to the account it loaded.
SignedIn(q) ==
    IF q.op # "verify" THEN Resting
    ELSE IF q.loaded.verified THEN ToDropCodes(q) ELSE [q EXCEPT !.pc = "mark"]

\* Mutant: the 90 days are not looked at.
RecognizedAnyTime(q, u, row) ==
    LET k == [q EXCEPT !.uid = u, !.loaded = row]
    IN  IF row.deleted THEN [k EXCEPT !.pc = "reactivate"] ELSE SignedIn(k)

\* ... once reactivateIfWithinWindow lets it.
Recognized(q, u, row) ==
    LET k == [q EXCEPT !.uid = u, !.loaded = row]
    IN  IF ~row.deleted THEN SignedIn(k)
        ELSE IF row.deletedAt = "recent" THEN [k EXCEPT !.pc = "reactivate"]
        ELSE Resting

-----------------------------------------------------------------------------
(* Signing up and in *)

Found(q, u) ==
    CASE q.op = "code"  -> ToDropCodes(q)
      [] q.op = "apple" -> [q EXCEPT !.pc = "link", !.uid = u, !.loaded = account[u]]
      [] OTHER          -> Recognized(q, u, account[u])

NotFound(q) ==
    IF q.op \in {"verify", "password"} THEN Resting ELSE [q EXCEPT !.pc = "insert"]

\* The handler q looks up the account of its address.
LookUp(r, q) ==
    \/ \E u \in Users : Owns(u, q.email) /\ Handle(r, Found(q, u))
    \/ (\A u \in Users : ~Owns(u, q.email)) /\ Handle(r, NotFound(q))

\* requestEmailCode and sign-in-password start with the account of the address.
RequestCode(r, e) ==
    /\ areq[r].pc = "idle"
    /\ LookUp(r, [Resting EXCEPT !.op = "code", !.email = e])
    /\ UNCHANGED <<account, codes, changes, proven>>

SignInWithPassword(r, e) ==
    /\ areq[r].pc = "idle"
    /\ LookUp(r, [Resting EXCEPT !.op = "password", !.email = e])
    /\ UNCHANGED <<account, codes, changes, proven>>

\* A verified Google token vouches for its address.
SignInWithGoogle(r, e) ==
    /\ areq[r].pc = "idle"
    /\ LookUp(r, [Resting EXCEPT !.op = "google", !.email = e])
    /\ proven' = proven \cup {e}
    /\ UNCHANGED <<account, codes, changes>>

\* Apple: the account is looked up by `sub` first (twice; the second answer
\* decides).  The token may withhold the address (NoEmail), and vouches for it
\* otherwise.
SignInWithApple(r, a, e) ==
    /\ \/ \E u \in Users :
            /\ Exists(u) /\ account[u].apple = a
            /\ Begin(r, Recognized([Resting EXCEPT !.op = "apple"], u, account[u]))
       \/ /\ \A u \in Users : Exists(u) => account[u].apple # a
          /\ e # NoEmail
          /\ Begin(r, [Resting EXCEPT !.pc = "byEmail", !.op = "apple",
                                      !.email = e, !.apple = a])
    /\ proven' = proven \cup ({e} \ {NoEmail})
    /\ UNCHANGED <<account, codes, changes>>

\* The account of the address, after the code or the Apple identity was looked up.
FindByEmail(r) ==
    /\ areq[r].pc = "byEmail"
    /\ LookUp(r, areq[r])
    /\ UNCHANGED <<account, codes, changes, proven>>

\* An id nothing refers to: uuids are not handed out twice.
Fresh(u) ==
    /\ ~Exists(u)
    /\ \A r \in Requests : areq[r].uid # u
    /\ \A e \in Emails : <<u, e>> \notin changes

InsertAccount(r) ==
    LET q == areq[r]
        row == [Vacant EXCEPT !.email = q.email, !.apple = q.apple,
                              !.verified = q.op # "code"]
    IN  /\ q.pc = "insert"
        /\ \E u \in Users :
              /\ Fresh(u)
              /\ IF Unique(u, row)
                 THEN /\ account' = [account EXCEPT ![u] = row]
                      /\ Handle(r, IF q.op = "code" THEN ToDropCodes(q) ELSE Resting)
                 ELSE Handle(r, Resting) /\ UNCHANGED account
        /\ UNCHANGED <<codes, changes, proven>>

\* createWithApple: links the identity to the account of its address.
LinkApple(r) ==
    LET q == areq[r]
        patch == [q.loaded EXCEPT !.apple = q.apple, !.verified = TRUE]
    IN  /\ q.pc = "link"
        /\ Flush(r, patch, Recognized(q, q.uid, patch))
        /\ UNCHANGED <<codes, changes, proven>>

\* Reactivation on sign-in, and restoreUser: both columns are cleared.
Reactivate(r) ==
    LET q == areq[r]
        patch == [q.loaded EXCEPT !.deleted = FALSE, !.deletedAt = "never"]
    IN  /\ q.pc = "reactivate"
        /\ Flush(r, patch, SignedIn([q EXCEPT !.loaded = patch]))
        /\ UNCHANGED <<codes, changes, proven>>

-----------------------------------------------------------------------------
(* Codes *)

\* deleteByEmail: before a new code, after a right one, or after the last
\* wrong guess.
DropCodes(r) ==
    LET q == areq[r]
    IN  /\ q.pc = "dropCodes"
        /\ codes' = [c \in CodeIds |->
                        IF codes[c].email = q.email THEN NoCodeRow ELSE codes[c]]
        /\ Handle(r, IF q.op = "code" THEN [q EXCEPT !.pc = "addCode"] ELSE Resting)
        /\ UNCHANGED <<account, changes, proven>>

AddCode(r) ==
    /\ areq[r].pc = "addCode"
    /\ \E c \in CodeIds :
          /\ codes[c].email = NoEmail
          /\ \A q \in Requests : areq[q].code # c
          /\ codes' = [codes EXCEPT ![c] = [email |-> areq[r].email, attempts |-> 0]]
    /\ Handle(r, Resting)
    /\ UNCHANGED <<account, changes, proven>>

\* Mutant: an exhausted code still takes guesses.
EnterCodeAgain(r, e) ==
    /\ \E c \in CodeIds, right \in BOOLEAN :
          LET q == [Resting EXCEPT !.op = "verify", !.email = e]
          IN  /\ codes[c].email = e
              /\ Begin(r, IF right THEN [q EXCEPT !.pc = "byEmail"]
                          ELSE [q EXCEPT !.pc = "count", !.code = c,
                                         !.attempts = codes[c].attempts])
              /\ proven' = IF right THEN proven \cup {e} ELSE proven
    /\ UNCHANGED <<account, codes, changes>>

\* verifyEmailCode reads one row of the address, whichever comes first, and
\* compares.  Expired rows are turned away like missing ones.
EnterCode(r, e) ==
    /\ \E c \in CodeIds, right \in BOOLEAN :
          LET q == [Resting EXCEPT !.op = "verify", !.email = e]
              usable == codes[c].attempts < MAX_CODE_ATTEMPTS
          IN  /\ codes[c].email = e
              /\ Begin(r, IF ~usable THEN ToDropCodes(q)
                          ELSE IF right THEN [q EXCEPT !.pc = "byEmail"]
                          ELSE [q EXCEPT !.pc = "count", !.code = c,
                                         !.attempts = codes[c].attempts])
              /\ proven' = IF usable /\ right THEN proven \cup {e} ELSE proven
    /\ UNCHANGED <<account, codes, changes>>

\* incrementAttempts writes the sum of what this request loaded.
CountGuess(r) ==
    LET q == areq[r]
        attempts == q.attempts + 1
    IN  /\ q.pc = "count"
        /\ codes' = IF codes[q.code].email = NoEmail THEN codes
                    ELSE [codes EXCEPT ![q.code].attempts = attempts]
        /\ Handle(r, IF attempts >= MAX_CODE_ATTEMPTS THEN ToDropCodes(q) ELSE Resting)
        /\ UNCHANGED <<account, changes, proven>>

MarkVerified(r) ==
    LET q == areq[r]
    IN  /\ q.pc = "mark"
        /\ Flush(r, [q.loaded EXCEPT !.verified = TRUE], ToDropCodes(q))
        /\ UNCHANGED <<codes, changes, proven>>

-----------------------------------------------------------------------------
(* Deletion *)

\* Mutant: a deleted account is deleted again.
DeleteAgain(r, u) ==
    /\ Exists(u)
    /\ Begin(r, [Resting EXCEPT !.pc = "delete", !.op = "delete", !.uid = u,
                                !.loaded = account[u]])
    /\ UNCHANGED <<account, codes, changes, proven>>

DeleteAccount(r, u) ==
    /\ Exists(u) /\ ~account[u].deleted
    /\ Begin(r, [Resting EXCEPT !.pc = "delete", !.op = "delete", !.uid = u,
                                !.loaded = account[u]])
    /\ UNCHANGED <<account, codes, changes, proven>>

SaveDeletion(r) ==
    LET q == areq[r]
    IN  /\ q.pc = "delete"
        /\ Flush(r, [q.loaded EXCEPT !.deleted = TRUE, !.deletedAt = "recent"], Resting)
        /\ UNCHANGED <<codes, changes, proven>>

RestoreUser(r, u) ==
    /\ Exists(u) /\ account[u].deleted
    /\ Begin(r, [Resting EXCEPT !.pc = "reactivate", !.op = "restore", !.uid = u,
                                !.loaded = account[u]])
    /\ UNCHANGED <<account, codes, changes, proven>>

HardDeleteUser(u) ==
    /\ Exists(u)
    /\ account' = [account EXCEPT ![u] = Vacant]
    /\ UNCHANGED <<codes, changes, areq, proven>>

\* 90 days pass; no sign-in lasts from one side of that moment to the other.
WindowCloses(u) ==
    /\ account[u].deletedAt = "recent"
    /\ \A r \in Requests : areq[r].uid # u
    /\ account' = [account EXCEPT ![u].deletedAt = "old"]
    /\ UNCHANGED <<codes, changes, areq, proven>>

-----------------------------------------------------------------------------
(* Changing the address *)

\* getActiveUserOrThrow
Active(u) == Exists(u) /\ ~account[u].deleted

RequestEmailChange(r, u, e) ==
    /\ Active(u) /\ account[u].email # e
    /\ Begin(r, [Resting EXCEPT !.pc = "target", !.op = "change", !.uid = u,
                                !.email = e, !.loaded = account[u]])
    /\ UNCHANGED <<account, codes, changes, proven>>

\* Mutant: any code will do, for any address.
ConfirmAnyChange(r, u, e) ==
    /\ Begin(r, [Resting EXCEPT !.pc = "owner", !.op = "confirm", !.uid = u, !.email = e])
    /\ UNCHANGED <<account, codes, changes, proven>>

\* findValid finds the pending change whose code was mailed to its new address.
ConfirmEmailChange(r, u, e) ==
    /\ <<u, e>> \in changes
    /\ Begin(r, [Resting EXCEPT !.pc = "owner", !.op = "confirm", !.uid = u, !.email = e])
    /\ proven' = proven \cup {e}
    /\ UNCHANGED <<account, codes, changes>>

FindOwner(r) ==
    LET q == areq[r]
    IN  /\ q.pc = "owner"
        /\ Handle(r, IF ~Active(q.uid) THEN Resting
                     ELSE [q EXCEPT !.pc = "target", !.loaded = account[q.uid]])
        /\ UNCHANGED <<account, codes, changes, proven>>

ToDropChanges(q) == [q EXCEPT !.pc = "dropChanges", !.loaded = Vacant]

FindTarget(r) ==
    LET q == areq[r]
        taken == \E v \in Users \ {q.uid} : Owns(v, q.email)
    IN  /\ q.pc = "target"
        /\ Handle(r, IF taken THEN Resting
                     ELSE IF q.op = "change" THEN ToDropChanges(q)
                     ELSE [q EXCEPT !.pc = "saveEmail"])
        /\ UNCHANGED <<account, codes, changes, proven>>

SaveEmail(r) ==
    LET q == areq[r]
    IN  /\ q.pc = "saveEmail"
        /\ Flush(r, [q.loaded EXCEPT !.email = q.email], ToDropChanges(q))
        /\ UNCHANGED <<codes, changes, proven>>

DropChanges(r) ==
    LET q == areq[r]
    IN  /\ q.pc = "dropChanges"
        /\ changes' = {x \in changes : x[1] # q.uid}
        /\ Handle(r, IF q.op = "change" THEN [q EXCEPT !.pc = "addChange"] ELSE Resting)
        /\ UNCHANGED <<account, codes, proven>>

AddChange(r) ==
    LET q == areq[r]
    IN  /\ q.pc = "addChange"
        /\ Cardinality(changes) < MaxChanges
        /\ changes' = changes \cup {<<q.uid, q.email>>}
        /\ Handle(r, Resting)
        /\ UNCHANGED <<account, codes, proven>>

-----------------------------------------------------------------------------

\* Ten minutes pass.
CodeExpires ==
    /\ \/ /\ \E c \in CodeIds : /\ codes[c].email # NoEmail
                                /\ codes' = [codes EXCEPT ![c] = NoCodeRow]
          /\ UNCHANGED changes
       \/ \E x \in changes : changes' = changes \ {x} /\ UNCHANGED codes
    /\ UNCHANGED <<account, areq, proven>>

\* The handler ends at an await: the process dies or the database fails.
Crash(r) ==
    /\ areq[r].pc # "idle"
    /\ Handle(r, Resting)
    /\ UNCHANGED <<account, codes, changes, proven>>

Init ==
    /\ account = [u \in Users |-> Vacant]
    /\ codes = [c \in CodeIds |-> NoCodeRow]
    /\ changes = {}
    /\ areq = [r \in Requests |-> Resting]
    /\ proven = {}

SignIn(r) ==
    \/ \E e \in Emails : \/ RequestCode(r, e) \/ EnterCode(r, e)
                         \/ SignInWithPassword(r, e) \/ SignInWithGoogle(r, e)
    \/ \E a \in AppleIds, e \in Emails \cup {NoEmail} : SignInWithApple(r, a, e)

OwnAccount(r) ==
    \E u \in Users :
        \/ DeleteAccount(r, u) \/ RestoreUser(r, u)
        \/ \E e \in Emails : RequestEmailChange(r, u, e) \/ ConfirmEmailChange(r, u, e)

Continue(r) ==
    \/ FindByEmail(r) \/ InsertAccount(r) \/ LinkApple(r) \/ Reactivate(r)
    \/ DropCodes(r) \/ AddCode(r) \/ CountGuess(r) \/ MarkVerified(r)
    \/ SaveDeletion(r) \/ FindOwner(r) \/ FindTarget(r) \/ SaveEmail(r)
    \/ DropChanges(r) \/ AddChange(r)

Next ==
    \/ \E r \in Requests : SignIn(r) \/ OwnAccount(r) \/ Continue(r) \/ Crash(r)
    \/ \E u \in Users : HardDeleteUser(u) \/ WindowCloses(u)
    \/ CodeExpires

Spec == Init /\ [][Next]_vars

-----------------------------------------------------------------------------
(* Properties *)

UserRow == [email : Emails \cup {NoEmail}, apple : AppleIds \cup {NoApple},
            verified : BOOLEAN, deleted : BOOLEAN,
            deletedAt : {"never", "recent", "old"}]

CodeRow == [email : Emails \cup {NoEmail}, attempts : Nat]

AccountSteps == {"byEmail", "insert", "link", "reactivate", "dropCodes", "addCode",
                 "count", "mark", "delete", "owner", "target", "saveEmail",
                 "dropChanges", "addChange"}

AccountOps == {"code", "password", "google", "apple", "verify", "delete", "restore",
               "change", "confirm"}

AccountHandler == [pc : AccountSteps \cup {"idle"}, op : AccountOps \cup {"none"},
                   uid : Users \cup {NoUser}, email : Emails \cup {NoEmail},
                   apple : AppleIds \cup {NoApple}, code : CodeIds \cup {NoCode},
                   attempts : Nat, loaded : UserRow]

\* Every column and every local variable of a handler has its type.
TypeOK ==
    /\ account \in [Users -> UserRow]
    /\ codes \in [CodeIds -> CodeRow]
    /\ changes \subseteq Users \X Emails
    /\ areq \in [Requests -> AccountHandler]
    /\ proven \subseteq Emails

\* One account per address and per Apple identity, whichever ways of signing up and
\* of changing an address overlap ("one account per address", normalizeEmail).
OneAccountPerAddress ==
    \A u, v \in Users : u # v /\ Exists(u) /\ Exists(v) =>
        /\ account[u].email # account[v].email
        /\ account[u].apple = account[v].apple => account[u].apple = NoApple

\* `deleted` and `deletedAt` agree: a flush that writes only what differs from a
\* stale copy never leaves a dated live account or an undated deleted one, which
\* the next sign-in would take for one deleted in 1970.
DeletionIsDated ==
    \A u \in Users : account[u].deleted <=> account[u].deletedAt # "never"

\* A verified address is one somebody showed to be theirs, also when the account
\* changes address between the check of a code and the mark it leads to.
VerifiedAddressesAreProven ==
    \A u \in Users : account[u].verified => account[u].email \in proven

\* No code is ever guessed at more often than the limit counts to, not even between
\* the last counted guess and the deletion of the code.
GuessesAreBounded == \A c \in CodeIds : codes[c].attempts <= MAX_CODE_ATTEMPTS

\* The codes an address can be signed in with.
CodesOf(e) == {c \in CodeIds : codes[c].email = e}

\* "One active code per email: replace any existing one." (requestEmailCode)
OneActiveCode == \A e \in Emails : Cardinality(CodesOf(e)) <= 1

\* What that replacement does give: an address has as many codes at most as there
\* are requests at once, however many were asked for one after the other, and
\* wherever handlers end between the deletion and the insert.
CodesAreReplaced == \A e \in Emails : Cardinality(CodesOf(e)) <= Cardinality(Requests)

\* No two running requests ask for a code for one address.
CodeRequestsApart ==
    \A q, r \in Requests :
        q # r /\ areq[q].op = "code" /\ areq[r].op = "code" =>
            areq[q].email # areq[r].email

\* A sign-in never brings back an account whose 90 days are over; only an
\* administrator does.
ReactivatedInTime ==
    [][\A u \in Users :
          account[u].deletedAt = "old" /\ Exists(u)' /\ ~account'[u].deleted =>
              \E r \in Requests : areq[r].uid = u /\ areq[r].op = "restore"]_vars

=============================================================================
