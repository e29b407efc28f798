-------------------------- MODULE AccountsProofs ---------------------------
(***************************************************************************)
(* Theorems about Accounts: signing up and in, codes and the life of an    *)
(* account, for every number of users, addresses, codes and overlapping    *)
(* requests.                                                               *)
(***************************************************************************)
EXTENDS Accounts, FiniteSetTheorems, TLAPS

-----------------------------------------------------------------------------
(* The inductive invariant *)

\* `deleted` and `deletedAt` of a row agree.
DatedRow(row) == row.deleted <=> row.deletedAt # "never"

\* What a handler's local variables say to each other.
HandlerFits(q) ==
    /\ q.pc \in {"link", "reactivate", "mark", "delete", "owner", "target",
                 "saveEmail", "dropChanges", "addChange"} => q.uid \in Users
    /\ q.pc \in {"byEmail", "insert", "link", "dropCodes", "addCode", "target",
                 "owner", "saveEmail", "dropChanges", "addChange"} => q.email \in Emails
    /\ q.op = "verify" => q.email \in Emails
    /\ q.op = "change" => q.pc \in {"target", "dropChanges", "addChange"}
    /\ q.pc = "count" =>
          q.op = "verify" /\ q.code \in CodeIds /\ q.attempts < MAX_CODE_ATTEMPTS
    /\ DatedRow(q.loaded)
    /\ q.pc = "reactivate" => q.loaded.deleted
    /\ q.pc = "reactivate" /\ q.op # "restore" => q.loaded.deletedAt = "recent"
    /\ q.pc = "delete" => ~q.loaded.deleted
    /\ q.pc \in {"owner", "target"} => q.op \in {"change", "confirm"}
    /\ q.pc = "saveEmail" => q.op = "confirm"
    /\ q.pc = "link" => q.op = "apple"
    /\ q.pc = "byEmail" => q.op \in {"apple", "verify"}
    /\ q.pc = "mark" => q.op = "verify"

\* What it may rely on: an address it is about to write or to mark verified is
\* known to be somebody's, also when the account has another one by now, and the
\* account it saw in time is still in time.
Vouched(q, acc, known) ==
    /\ q.pc \in {"byEmail", "insert", "link", "owner", "target", "saveEmail"}
       /\ q.op \notin {"code", "change"} => q.email \in known
    /\ q.pc \in {"link", "mark"} \/ (q.pc = "reactivate" /\ q.op = "verify") =>
          (acc[q.uid].email # NoEmail => acc[q.uid].email \in known)
    /\ q.pc \in {"link", "reactivate"} /\ q.op # "restore"
       /\ q.loaded.deletedAt # "old" => acc[q.uid].deletedAt # "old"

Sound(q, acc, known) == HandlerFits(q) /\ Vouched(q, acc, known)

\* Rows of `users`: dated, proven when verified, and blank when there is none.
RowFits(row, known) ==
    /\ DatedRow(row)
    /\ row.verified => row.email \in known
    /\ row.email = NoEmail => row = Vacant

AccountsInv ==
    /\ TypeOK
    /\ OneAccountPerAddress
    /\ GuessesAreBounded
    /\ \A u \in Users : RowFits(account[u], proven)
    /\ \A r \in Requests : Sound(areq[r], account, proven)

-----------------------------------------------------------------------------
(* Handlers *)

\* Nothing is asked of an idle handler.
LEMMA RestingSound ==
  ASSUME NEW acc, NEW known
  PROVE  Resting \in AccountHandler /\ Sound(Resting, acc, known)
BY DEF Resting, Vacant, AccountHandler, UserRow, Sound, HandlerFits, Vouched, DatedRow

\* To delete the codes of an address takes the address only.
LEMMA ToDropCodesSound ==
  ASSUME NEW q \in AccountHandler, q.email \in Emails, q.op # "change", NEW acc, NEW known
  PROVE  ToDropCodes(q) \in AccountHandler /\ Sound(ToDropCodes(q), acc, known)
<1>1. ToDropCodes(q) \in AccountHandler
  BY RestingSound DEF ToDropCodes, AccountHandler, AccountSteps
<1>2. HandlerFits(ToDropCodes(q))
  BY DEF ToDropCodes, Resting, Vacant, AccountHandler, HandlerFits, DatedRow
<1>3. Vouched(ToDropCodes(q), acc, known)
  BY DEF ToDropCodes, Resting, Vouched
<1>. QED
  BY <1>1, <1>2, <1>3 DEF Sound

\* A handler that signs in is sound when the code it goes by was mailed to an
\* address that is known.
LEMMA SignedInSound ==
  ASSUME NEW q \in AccountHandler, NEW acc, NEW known,
         q.uid \in Users, DatedRow(q.loaded), q.op # "change",
         q.op = "verify" =>
             /\ q.email \in Emails
             /\ acc[q.uid].email # NoEmail => acc[q.uid].email \in known
  PROVE  SignedIn(q) \in AccountHandler /\ Sound(SignedIn(q), acc, known)
<1>1. CASE q.op = "verify" /\ ~q.loaded.verified
  <2>. DEFINE k == [q EXCEPT !.pc = "mark"]
  <2>1. k \in AccountHandler /\ k.pc = "mark" /\ k.op = "verify" /\ k.uid = q.uid
        /\ k.email = q.email /\ k.loaded = q.loaded
    BY <1>1 DEF AccountHandler, AccountSteps
  <2>2. SignedIn(q) = k
    BY <1>1 DEF SignedIn
  <2>. HIDE DEF k
  <2>3. Sound(k, acc, known)
    BY <1>1, <2>1 DEF Sound, HandlerFits, Vouched
  <2>. QED
    BY <2>1, <2>2, <2>3
<1>2. CASE q.op # "verify"
  BY <1>2, RestingSound DEF SignedIn
<1>3. CASE q.op = "verify" /\ q.loaded.verified
  BY <1>3, ToDropCodesSound DEF SignedIn
<1>. QED
  BY <1>1, <1>2, <1>3

\* ... and so is one that was let in, possibly to reactivate the account first.
LEMMA RecognizedSound ==
  ASSUME NEW q \in AccountHandler, NEW u \in Users, NEW row \in UserRow,
         NEW acc, NEW known,
         DatedRow(row), q.op # "change",
         row.deletedAt = "recent" => acc[u].deletedAt # "old",
         q.op = "verify" =>
             /\ q.email \in Emails
             /\ acc[u].email # NoEmail => acc[u].email \in known
  PROVE  /\ Recognized(q, u, row) \in AccountHandler
         /\ Sound(Recognized(q, u, row), acc, known)
<1>. DEFINE k == [q EXCEPT !.uid = u, !.loaded = row]
<1>1. k \in AccountHandler /\ k.uid = u /\ k.loaded = row /\ k.op = q.op
      /\ k.email = q.email
  BY DEF AccountHandler
<1>2. Recognized(q, u, row) =
        IF ~row.deleted THEN SignedIn(k)
        ELSE IF row.deletedAt = "recent" THEN [k EXCEPT !.pc = "reactivate"]
        ELSE Resting
  BY DEF Recognized
<1>. HIDE DEF k
<1>3. CASE ~row.deleted
  BY <1>1, <1>2, <1>3, SignedInSound
<1>4. CASE row.deleted /\ row.deletedAt = "recent"
  <2>. DEFINE j == [k EXCEPT !.pc = "reactivate"]
  <2>1. j \in AccountHandler /\ j.pc = "reactivate" /\ j.uid = u /\ j.loaded = row
        /\ j.op = q.op /\ j.email = q.email
    BY <1>1 DEF AccountHandler, AccountSteps
  <2>. HIDE DEF j
  <2>2. Sound(j, acc, known)
    BY <1>4, <2>1 DEF Sound, HandlerFits, Vouched
  <2>. QED
    BY <1>2, <1>4, <2>1, <2>2 DEF j
<1>5. CASE row.deleted /\ row.deletedAt # "recent"
  BY <1>2, <1>5, RestingSound
<1>. QED
  BY <1>3, <1>4, <1>5

\* A handler stays sound while others write, as long as they write known
\* addresses to its account, and neither bring it to life nor let its days pass.
LEMMA SoundKept ==
  ASSUME NEW q \in AccountHandler, NEW acc, NEW acc2, NEW known, NEW known2,
         Sound(q, acc, known), known \subseteq known2,
         q.uid \in Users =>
            /\ acc2[q.uid].email # NoEmail =>
                  /\ acc[q.uid].email # NoEmail
                  /\ acc2[q.uid].email = acc[q.uid].email \/ acc2[q.uid].email \in known2
            /\ acc2[q.uid].deletedAt = "old" => acc[q.uid].deletedAt = "old"
  PROVE  Sound(q, acc2, known2)
<1>1. Vouched(q, acc2, known2)
  BY DEF Sound, Vouched, HandlerFits
<1>. QED
  BY <1>1 DEF Sound

\* A step that moves one handler, and may write codes and pending changes.
LEMMA HandlerMoves ==
  ASSUME AccountsInv, NEW r \in Requests, NEW q \in AccountHandler,
         areq' = [areq EXCEPT ![r] = q], UNCHANGED account,
         proven \subseteq proven', proven' \subseteq Emails,
         Sound(q, account, proven'),
         codes' \in [CodeIds -> CodeRow], GuessesAreBounded',
         changes' \subseteq Users \X Emails
  PROVE  AccountsInv'
<1>1. TypeOK'
  BY DEF AccountsInv, TypeOK
<1>2. OneAccountPerAddress'
  BY DEF AccountsInv, OneAccountPerAddress, Exists
<1>3. \A u \in Users : RowFits(account'[u], proven')
  BY DEF AccountsInv, RowFits
<1>4. \A s \in Requests : Sound(areq'[s], account', proven')
  <2>. TAKE s \in Requests
  <2>1. CASE s = r
    BY <2>1 DEF AccountsInv, TypeOK
  <2>2. CASE s # r
    <3>1. areq'[s] = areq[s] /\ areq[s] \in AccountHandler
      BY <2>2 DEF AccountsInv, TypeOK
    <3>2. Sound(areq[s], account, proven)
      BY DEF AccountsInv
    <3>3. Sound(areq[s], account, proven')
      BY <3>1, <3>2, SoundKept
    <3>. QED
      BY <3>1, <3>3
  <2>. QED
    BY <2>1, <2>2
<1>. QED
  BY <1>1, <1>2, <1>3, <1>4 DEF AccountsInv

\* A step of no handler that may write codes and pending changes.
LEMMA HandlersStay ==
  ASSUME AccountsInv, UNCHANGED <<account, areq, proven>>,
         codes' \in [CodeIds -> CodeRow], GuessesAreBounded',
         changes' \subseteq Users \X Emails
  PROVE  AccountsInv'
BY DEF AccountsInv, TypeOK, OneAccountPerAddress, Exists

\* The bound on the guesses is only moved by steps that write codes.
LEMMA CodesStay ==
  ASSUME AccountsInv, UNCHANGED codes
  PROVE  codes' \in [CodeIds -> CodeRow] /\ GuessesAreBounded'
BY DEF AccountsInv, TypeOK, GuessesAreBounded

-----------------------------------------------------------------------------
(* Looking an account up *)

LEMMA FoundSound ==
  ASSUME AccountsInv, NEW q \in AccountHandler, NEW u \in Users, NEW known,
         q.email \in Emails, Owns(u, q.email), q.op # "change",
         q.op \in {"apple", "verify"} => q.email \in known
  PROVE  Found(q, u) \in AccountHandler /\ Sound(Found(q, u), account, known)
<1>1. account[u] \in UserRow /\ DatedRow(account[u]) /\ account[u].email = q.email
  BY DEF AccountsInv, TypeOK, RowFits, Owns
<1>2. CASE q.op = "code"
  BY <1>2, ToDropCodesSound DEF Found
<1>3. CASE q.op = "apple"
  <2>. DEFINE k == [q EXCEPT !.pc = "link", !.uid = u, !.loaded = account[u]]
  <2>1. k \in AccountHandler /\ k.pc = "link" /\ k.op = "apple" /\ k.uid = u
        /\ k.loaded = account[u] /\ k.email = q.email
    BY <1>1, <1>3 DEF AccountHandler, AccountSteps
  <2>2. Found(q, u) = k
    BY <1>3 DEF Found
  <2>. HIDE DEF k
  <2>3. Sound(k, account, known)
    BY <1>1, <1>3, <2>1 DEF Sound, HandlerFits, Vouched
  <2>. QED
    BY <2>1, <2>2, <2>3
<1>4. CASE q.op \notin {"code", "apple"}
  <2>1. Found(q, u) = Recognized(q, u, account[u])
    BY <1>4 DEF Found
  <2>. QED
    BY <1>1, <2>1, RecognizedSound
<1>. QED
  BY <1>2, <1>3, <1>4

LEMMA NotFoundSound ==
  ASSUME NEW q \in AccountHandler, NEW acc, NEW known, q.email \in Emails,
         DatedRow(q.loaded), q.op # "change",
         q.op \in {"apple", "google"} => q.email \in known,
         q.op \in {"code", "google", "apple", "verify", "password"}
  PROVE  NotFound(q) \in AccountHandler /\ Sound(NotFound(q), acc, known)
<1>1. CASE q.op \in {"verify", "password"}
  BY <1>1, RestingSound DEF NotFound
<1>2. CASE q.op \notin {"verify", "password"}
  <2>. DEFINE k == [q EXCEPT !.pc = "insert"]
  <2>1. k \in AccountHandler /\ k.pc = "insert" /\ k.op = q.op /\ k.email = q.email
        /\ k.loaded = q.loaded
    BY DEF AccountHandler, AccountSteps
  <2>2. NotFound(q) = k
    BY <1>2 DEF NotFound
  <2>. HIDE DEF k
  <2>3. Sound(k, acc, known)
    BY <1>2, <2>1 DEF Sound, HandlerFits, Vouched
  <2>. QED
    BY <2>1, <2>2, <2>3
<1>. QED
  BY <1>1, <1>2

\* A handler that looks up the account of an address which, unless a code is
\* requested or a password entered, is known.
LEMMA LookUpKeeps ==
  ASSUME AccountsInv, NEW r \in Requests, NEW q \in AccountHandler, LookUp(r, q),
         q.email \in Emails, DatedRow(q.loaded),
         q.op \in {"code", "google", "apple", "verify", "password"},
         q.op \in {"apple", "google", "verify"} => q.email \in proven',
         UNCHANGED <<account, codes, changes>>,
         proven \subseteq proven', proven' \subseteq Emails
  PROVE  AccountsInv'
<1>1. changes' \subseteq Users \X Emails
  BY DEF AccountsInv, TypeOK
<1>2. CASE \E u \in Users : Owns(u, q.email) /\ Handle(r, Found(q, u))
  <2>1. PICK u \in Users : Owns(u, q.email) /\ Handle(r, Found(q, u))
    BY <1>2
  <2>2. Found(q, u) \in AccountHandler /\ Sound(Found(q, u), account, proven')
    BY <2>1, FoundSound
  <2>. QED
    BY <1>1, <2>1, <2>2, HandlerMoves, CodesStay DEF Handle
<1>3. CASE Handle(r, NotFound(q))
  <2>1. NotFound(q) \in AccountHandler /\ Sound(NotFound(q), account, proven')
    BY NotFoundSound
  <2>. QED
    BY <1>1, <1>3, <2>1, HandlerMoves, CodesStay DEF Handle
<1>. QED
  BY <1>2, <1>3 DEF LookUp

-----------------------------------------------------------------------------
(* Writing a row *)

\* Every handler stays sound when a row changes gently: see SoundKept.
LEMMA RowChanges ==
  ASSUME AccountsInv, NEW u \in Users, NEW row \in UserRow,
         account' = [account EXCEPT ![u] = row], UNCHANGED <<codes, changes, proven>>,
         RowFits(row, proven), row.email = NoEmail \/ Unique(u, row),
         row.email # NoEmail =>
             \/ \A s \in Requests : areq'[s].uid # u
             \/ Exists(u) /\ (row.email = account[u].email \/ row.email \in proven),
         row.deletedAt = "old" =>
             account[u].deletedAt = "old" \/ \A s \in Requests : areq'[s].uid # u,
         areq' \in [Requests -> AccountHandler],
         \A s \in Requests : Sound(areq'[s], account, proven)
  PROVE  AccountsInv'
<1>1. \A v \in Users : account'[v] = IF v = u THEN row ELSE account[v]
  BY DEF AccountsInv, TypeOK
<1>2. TypeOK'
  BY DEF AccountsInv, TypeOK
<1>3. OneAccountPerAddress'
  <2>. SUFFICES ASSUME NEW v \in Users, NEW w \in Users, v # w, Exists(v)', Exists(w)'
                PROVE  /\ account'[v].email # account'[w].email
                       /\ account'[v].apple = account'[w].apple =>
                             account'[v].apple = NoApple
    BY DEF OneAccountPerAddress
  <2>1. CASE v # u /\ w # u
    BY <1>1, <2>1 DEF AccountsInv, OneAccountPerAddress, Exists
  <2>2. CASE v = u
    BY <1>1, <2>2 DEF Unique, Exists
  <2>3. CASE w = u
    BY <1>1, <2>3 DEF Unique, Exists
  <2>. QED
    BY <2>1, <2>2, <2>3
<1>4. \A v \in Users : RowFits(account'[v], proven')
  BY <1>1 DEF AccountsInv
<1>5. \A s \in Requests : Sound(areq'[s], account', proven')
  <2>. TAKE s \in Requests
  <2>1. areq'[s] \in AccountHandler /\ Sound(areq'[s], account, proven)
    OBVIOUS
  <2>. QED
    BY <1>1, <2>1, SoundKept DEF Exists
<1>. QED
  BY <1>2, <1>3, <1>4, <1>5, CodesStay DEF AccountsInv

\* A flush writes an address that is known, or none; marks verified an account
\* whose address is known, or leaves the mark; and writes both columns of a
\* deletion or neither.
LEMMA AccountFlushKeeps ==
  ASSUME AccountsInv, NEW r \in Requests, NEW patch \in UserRow,
         NEW next \in AccountHandler, areq[r].uid \in Users,
         Flush(r, patch, next), UNCHANGED <<codes, changes, proven>>,
         patch.email = areq[r].loaded.email \/ patch.email \in proven,
         \/ patch.verified = areq[r].loaded.verified
         \/ /\ patch.email = areq[r].loaded.email
            /\ Exists(areq[r].uid) => account[areq[r].uid].email \in proven,
         \/ /\ patch.deleted = areq[r].loaded.deleted
            /\ patch.deletedAt = areq[r].loaded.deletedAt
         \/ /\ patch.deleted # areq[r].loaded.deleted
            /\ patch.deletedAt # areq[r].loaded.deletedAt
            /\ DatedRow(patch) /\ patch.deletedAt # "old",
         Sound(next, account, proven)
  PROVE  AccountsInv'
<1>. DEFINE u == areq[r].uid
            loaded == areq[r].loaded
            row == Written(account[u], loaded, patch)
<1>1. u \in Users /\ account[u] \in UserRow /\ loaded \in UserRow
  BY DEF AccountsInv, TypeOK, AccountHandler
<1>2. proven \subseteq Emails /\ changes' \subseteq Users \X Emails
  BY DEF AccountsInv, TypeOK
<1>3. CASE Handle(r, next) /\ UNCHANGED account
  BY <1>2, <1>3, HandlerMoves, CodesStay DEF Handle
<1>4. CASE Handle(r, Resting) /\ UNCHANGED account
  BY <1>2, <1>4, RestingSound, HandlerMoves, CodesStay DEF Handle
<1>5. CASE /\ Exists(u) /\ Unique(u, row)
           /\ Handle(r, next) /\ account' = [account EXCEPT ![u] = row]
  <2>1. /\ row.email = IF patch.email # loaded.email THEN patch.email ELSE account[u].email
        /\ row.apple = IF patch.apple # loaded.apple THEN patch.apple ELSE account[u].apple
        /\ row.verified = IF patch.verified # loaded.verified
                          THEN patch.verified ELSE account[u].verified
        /\ row.deleted = IF patch.deleted # loaded.deleted
                         THEN patch.deleted ELSE account[u].deleted
        /\ row.deletedAt = IF patch.deletedAt # loaded.deletedAt
                           THEN patch.deletedAt ELSE account[u].deletedAt
    BY DEF Written
  <2>2. row \in UserRow
    BY <1>1 DEF Written, UserRow
  <2>. HIDE DEF row
  <2>3. row.email = account[u].email \/ row.email \in proven
    BY <2>1
  <2>4. RowFits(account[u], proven)
    BY <1>1 DEF AccountsInv
  <2>5. row.email # NoEmail
    BY <1>2, <1>5, <2>3, AccountsAssumption DEF Exists
  <2>6. DatedRow(row)
    BY <1>1, <2>1, <2>4 DEF RowFits, DatedRow, UserRow
  <2>7. row.verified => row.email \in proven
    BY <1>5, <2>1, <2>3, <2>4 DEF RowFits
  <2>8. row.deletedAt = "old" => account[u].deletedAt = "old"
    BY <2>1
  <2>. QED
    BY <1>1, <1>2, <1>5, <2>2, <2>3, <2>5, <2>6, <2>7, <2>8, RowChanges
    DEF AccountsInv, TypeOK, Handle, RowFits
<1>. QED
  BY <1>3, <1>4, <1>5 DEF Flush

-----------------------------------------------------------------------------
(* The steps *)

\* What a running handler is, spelled out.
LEMMA Running ==
  ASSUME AccountsInv, NEW r \in Requests
  PROVE  /\ areq[r] \in AccountHandler /\ areq[r].loaded \in UserRow
         /\ HandlerFits(areq[r]) /\ Vouched(areq[r], account, proven)
BY DEF AccountsInv, TypeOK, Sound, AccountHandler

\* A handler that moves and writes no code and no pending change.
LEMMA HandlerOnly ==
  ASSUME AccountsInv, NEW r \in Requests, NEW q \in AccountHandler, Handle(r, q),
         UNCHANGED <<account, codes, changes>>,
         proven \subseteq proven', proven' \subseteq Emails,
         Sound(q, account, proven')
  PROVE  AccountsInv'
<1>1. changes' \subseteq Users \X Emails
  BY DEF AccountsInv, TypeOK
<1>. QED
  BY <1>1, HandlerMoves, CodesStay DEF Handle

LEMMA SignInKeeps ==
  ASSUME AccountsInv, NEW r \in Requests, SignIn(r)
  PROVE  AccountsInv'
<1>0. proven \subseteq Emails
  BY DEF AccountsInv, TypeOK
<1>1. ASSUME NEW e \in Emails, RequestCode(r, e)
      PROVE  AccountsInv'
  <2>. DEFINE q == [Resting EXCEPT !.op = "code", !.email = e]
  <2>1. q \in AccountHandler /\ q.op = "code" /\ q.email = e /\ DatedRow(q.loaded)
    BY DEF Resting, Vacant, AccountHandler, AccountOps, UserRow, DatedRow
  <2>2. LookUp(r, q)
    BY <1>1 DEF RequestCode
  <2>. HIDE DEF q
  <2>. QED
    BY <1>0, <1>1, <2>1, <2>2, LookUpKeeps DEF RequestCode
<1>2. ASSUME NEW e \in Emails, SignInWithPassword(r, e)
      PROVE  AccountsInv'
  <2>. DEFINE q == [Resting EXCEPT !.op = "password", !.email = e]
  <2>1. q \in AccountHandler /\ q.op = "password" /\ q.email = e /\ DatedRow(q.loaded)
    BY DEF Resting, Vacant, AccountHandler, AccountOps, UserRow, DatedRow
  <2>2. LookUp(r, q)
    BY <1>2 DEF SignInWithPassword
  <2>. HIDE DEF q
  <2>. QED
    BY <1>0, <1>2, <2>1, <2>2, LookUpKeeps DEF SignInWithPassword
<1>3. ASSUME NEW e \in Emails, SignInWithGoogle(r, e)
      PROVE  AccountsInv'
  <2>. DEFINE q == [Resting EXCEPT !.op = "google", !.email = e]
  <2>1. q \in AccountHandler /\ q.op = "google" /\ q.email = e /\ DatedRow(q.loaded)
    BY DEF Resting, Vacant, AccountHandler, AccountOps, UserRow, DatedRow
  <2>2. LookUp(r, q)
    BY <1>3 DEF SignInWithGoogle
  <2>. HIDE DEF q
  <2>. QED
    BY <1>0, <1>3, <2>1, <2>2, LookUpKeeps DEF SignInWithGoogle
<1>4. ASSUME NEW a \in AppleIds, NEW e \in Emails \cup {NoEmail},
             SignInWithApple(r, a, e)
      PROVE  AccountsInv'
  <2>0. /\ proven' = proven \cup ({e} \ {NoEmail}) /\ proven' \subseteq Emails
        /\ UNCHANGED <<account, codes, changes>>
    BY <1>0, <1>4 DEF SignInWithApple
  <2>1. ASSUME NEW u \in Users,
               Handle(r, Recognized([Resting EXCEPT !.op = "apple"], u, account[u]))
        PROVE  AccountsInv'
    <3>. DEFINE q == [Resting EXCEPT !.op = "apple"]
    <3>1. q \in AccountHandler /\ q.op = "apple"
      BY DEF Resting, Vacant, AccountHandler, AccountOps, UserRow
    <3>2. account[u] \in UserRow /\ DatedRow(account[u])
      BY DEF AccountsInv, TypeOK, RowFits
    <3>. HIDE DEF q
    <3>3. /\ Recognized(q, u, account[u]) \in AccountHandler
          /\ Sound(Recognized(q, u, account[u]), account, proven')
      BY <3>1, <3>2, RecognizedSound
    <3>. QED
      BY <2>0, <2>1, <3>3, HandlerOnly DEF q
  <2>2. CASE /\ e # NoEmail
             /\ Handle(r, [Resting EXCEPT !.pc = "byEmail", !.op = "apple",
                                          !.email = e, !.apple = a])
    <3>. DEFINE q == [Resting EXCEPT !.pc = "byEmail", !.op = "apple",
                                     !.email = e, !.apple = a]
    <3>1. q \in AccountHandler /\ q.pc = "byEmail" /\ q.op = "apple" /\ q.email = e
          /\ DatedRow(q.loaded)
      BY <2>2 DEF Resting, Vacant, AccountHandler, AccountSteps, AccountOps, UserRow,
                  DatedRow
    <3>. HIDE DEF q
    <3>2. Sound(q, account, proven')
      BY <2>0, <2>2, <3>1 DEF Sound, HandlerFits, Vouched
    <3>. QED
      BY <2>0, <2>2, <3>1, <3>2, HandlerOnly DEF q
  <2>. QED
    BY <1>4, <2>1, <2>2 DEF SignInWithApple, Begin
<1>5. ASSUME NEW e \in Emails, EnterCode(r, e)
      PROVE  AccountsInv'
  <2>1. PICK c \in CodeIds, right \in BOOLEAN :
          LET q == [Resting EXCEPT !.op = "verify", !.email = e]
              usable == codes[c].attempts < MAX_CODE_ATTEMPTS
          IN  /\ codes[c].email = e
              /\ Begin(r, IF ~usable THEN ToDropCodes(q)
                          ELSE IF right THEN [q EXCEPT !.pc = "byEmail"]
                          ELSE [q EXCEPT !.pc = "count", !.code = c,
                                         !.attempts = codes[c].attempts])
              /\ proven' = IF usable /\ right THEN proven \cup {e} ELSE proven
    BY <1>5 DEF EnterCode
  <2>. DEFINE q == [Resting EXCEPT !.op = "verify", !.email = e]
              usable == codes[c].attempts < MAX_CODE_ATTEMPTS
              k == [q EXCEPT !.pc = "byEmail"]
              j == [q EXCEPT !.pc = "count", !.code = c, !.attempts = codes[c].attempts]
  <2>2. q \in AccountHandler /\ q.op = "verify" /\ q.email = e /\ DatedRow(q.loaded)
    BY DEF Resting, Vacant, AccountHandler, AccountOps, UserRow, DatedRow
  <2>3. UNCHANGED <<account, codes, changes>> /\ codes[c].attempts \in Nat
    BY <1>5 DEF EnterCode, AccountsInv, TypeOK, CodeRow
  <2>4. Handle(r, IF ~usable THEN ToDropCodes(q) ELSE IF right THEN k ELSE j)
    BY <2>1 DEF Begin
  <2>5. k \in AccountHandler /\ k.pc = "byEmail" /\ k.op = "verify" /\ k.email = e
        /\ k.loaded = q.loaded
    BY <2>2 DEF AccountHandler, AccountSteps
  <2>6. j \in AccountHandler /\ j.pc = "count" /\ j.op = "verify" /\ j.email = e
        /\ j.loaded = q.loaded /\ j.code = c /\ j.attempts = codes[c].attempts
    BY <2>2, <2>3 DEF AccountHandler, AccountSteps
  <2>7. proven' = (IF usable /\ right THEN proven \cup {e} ELSE proven)
        /\ proven' \subseteq Emails
    BY <1>0, <2>1
  <2>. HIDE DEF q, k, j
  <2>8. CASE ~usable
    BY <2>2, <2>3, <2>4, <2>7, <2>8, ToDropCodesSound, HandlerOnly
  <2>9. CASE usable /\ right
    <3>1. Sound(k, account, proven')
      BY <2>2, <2>5, <2>7, <2>9 DEF Sound, HandlerFits, Vouched
    <3>. QED
      BY <2>3, <2>4, <2>5, <2>7, <2>9, <3>1, HandlerOnly
  <2>10. CASE usable /\ ~right
    <3>1. Sound(j, account, proven')
      BY <2>2, <2>6, <2>10 DEF Sound, HandlerFits, Vouched
    <3>. QED
      BY <2>3, <2>4, <2>6, <2>7, <2>10, <3>1, HandlerOnly
  <2>. QED
    BY <2>8, <2>9, <2>10
<1>. QED
  BY <1>1, <1>2, <1>3, <1>4, <1>5 DEF SignIn

LEMMA OwnAccountKeeps ==
  ASSUME AccountsInv, NEW r \in Requests, OwnAccount(r)
  PROVE  AccountsInv'
<1>0. proven \subseteq Emails /\ \A u \in Users : account[u] \in UserRow /\ DatedRow(account[u])
  BY DEF AccountsInv, TypeOK, RowFits
<1>1. ASSUME NEW u \in Users, DeleteAccount(r, u)
      PROVE  AccountsInv'
  <2>. DEFINE q == [Resting EXCEPT !.pc = "delete", !.op = "delete", !.uid = u,
                                   !.loaded = account[u]]
  <2>1. q \in AccountHandler /\ q.pc = "delete" /\ q.op = "delete" /\ q.uid = u
        /\ q.loaded = account[u]
    BY <1>0 DEF Resting, AccountHandler, AccountSteps, AccountOps
  <2>2. Handle(r, q) /\ ~account[u].deleted /\ UNCHANGED <<account, codes, changes, proven>>
    BY <1>1 DEF DeleteAccount, Begin
  <2>. HIDE DEF q
  <2>3. Sound(q, account, proven)
    BY <1>0, <2>1, <2>2 DEF Sound, HandlerFits, Vouched
  <2>. QED
    BY <1>0, <2>1, <2>2, <2>3, HandlerOnly
<1>2. ASSUME NEW u \in Users, RestoreUser(r, u)
      PROVE  AccountsInv'
  <2>. DEFINE q == [Resting EXCEPT !.pc = "reactivate", !.op = "restore", !.uid = u,
                                   !.loaded = account[u]]
  <2>1. q \in AccountHandler /\ q.pc = "reactivate" /\ q.op = "restore" /\ q.uid = u
        /\ q.loaded = account[u]
    BY <1>0 DEF Resting, AccountHandler, AccountSteps, AccountOps
  <2>2. Handle(r, q) /\ account[u].deleted /\ UNCHANGED <<account, codes, changes, proven>>
    BY <1>2 DEF RestoreUser, Begin
  <2>. HIDE DEF q
  <2>3. Sound(q, account, proven)
    BY <1>0, <2>1, <2>2 DEF Sound, HandlerFits, Vouched
  <2>. QED
    BY <1>0, <2>1, <2>2, <2>3, HandlerOnly
<1>3. ASSUME NEW u \in Users, NEW e \in Emails, RequestEmailChange(r, u, e)
      PROVE  AccountsInv'
  <2>. DEFINE q == [Resting EXCEPT !.pc = "target", !.op = "change", !.uid = u,
                                   !.email = e, !.loaded = account[u]]
  <2>1. q \in AccountHandler /\ q.pc = "target" /\ q.op = "change" /\ q.uid = u
        /\ q.email = e /\ q.loaded = account[u]
    BY <1>0 DEF Resting, AccountHandler, AccountSteps, AccountOps
  <2>2. Handle(r, q) /\ UNCHANGED <<account, codes, changes, proven>>
    BY <1>3 DEF RequestEmailChange, Begin
  <2>. HIDE DEF q
  <2>3. Sound(q, account, proven)
    BY <1>0, <2>1 DEF Sound, HandlerFits, Vouched
  <2>. QED
    BY <1>0, <2>1, <2>2, <2>3, HandlerOnly
<1>4. ASSUME NEW u \in Users, NEW e \in Emails, ConfirmEmailChange(r, u, e)
      PROVE  AccountsInv'
  <2>. DEFINE q == [Resting EXCEPT !.pc = "owner", !.op = "confirm", !.uid = u,
                                   !.email = e]
  <2>1. q \in AccountHandler /\ q.pc = "owner" /\ q.op = "confirm" /\ q.uid = u
        /\ q.email = e /\ DatedRow(q.loaded)
    BY DEF Resting, Vacant, AccountHandler, AccountSteps, AccountOps, UserRow, DatedRow
  <2>2. /\ Handle(r, q) /\ UNCHANGED <<account, codes, changes>>
        /\ proven' = proven \cup {e}
    BY <1>4 DEF ConfirmEmailChange, Begin
  <2>. HIDE DEF q
  <2>3. Sound(q, account, proven')
    BY <2>1, <2>2 DEF Sound, HandlerFits, Vouched
  <2>. QED
    BY <1>0, <2>1, <2>2, <2>3, HandlerOnly
<1>. QED
  BY <1>1, <1>2, <1>3, <1>4 DEF OwnAccount

LEMMA FlushesKeep ==
  ASSUME AccountsInv, NEW r \in Requests,
         LinkApple(r) \/ Reactivate(r) \/ MarkVerified(r) \/ SaveDeletion(r) \/ SaveEmail(r)
  PROVE  AccountsInv'
<1>. DEFINE q == areq[r]
<1>0. /\ q \in AccountHandler /\ q.loaded \in UserRow
      /\ HandlerFits(q) /\ Vouched(q, account, proven)
      /\ proven \subseteq Emails
  BY Running DEF AccountsInv, TypeOK
<1>1. CASE LinkApple(r)
  <2>. DEFINE patch == [q.loaded EXCEPT !.apple = q.apple, !.verified = TRUE]
  <2>1. /\ patch \in UserRow /\ patch.email = q.loaded.email
        /\ patch.deleted = q.loaded.deleted /\ patch.deletedAt = q.loaded.deletedAt
    BY <1>0 DEF UserRow, AccountHandler
  <2>2. /\ q.pc = "link" /\ Flush(r, patch, Recognized(q, q.uid, patch))
        /\ UNCHANGED <<codes, changes, proven>>
    BY <1>1 DEF LinkApple
  <2>. HIDE DEF patch
  <2>3. /\ q.uid \in Users /\ q.op = "apple" /\ DatedRow(patch)
        /\ Exists(q.uid) => account[q.uid].email \in proven
        /\ patch.deletedAt = "recent" => account[q.uid].deletedAt # "old"
    BY <1>0, <2>1, <2>2 DEF HandlerFits, Vouched, DatedRow, Exists
  <2>4. /\ Recognized(q, q.uid, patch) \in AccountHandler
        /\ Sound(Recognized(q, q.uid, patch), account, proven)
    BY <1>0, <2>1, <2>3, RecognizedSound
  <2>. QED
    BY <2>1, <2>2, <2>3, <2>4, AccountFlushKeeps
<1>2. CASE Reactivate(r)
  <2>. DEFINE patch == [q.loaded EXCEPT !.deleted = FALSE, !.deletedAt = "never"]
              k == [q EXCEPT !.loaded = patch]
  <2>1. /\ patch \in UserRow /\ patch.email = q.loaded.email
        /\ patch.verified = q.loaded.verified
        /\ patch.deleted = FALSE /\ patch.deletedAt = "never"
    BY <1>0 DEF UserRow
  <2>2. /\ q.pc = "reactivate" /\ Flush(r, patch, SignedIn(k))
        /\ UNCHANGED <<codes, changes, proven>>
    BY <1>2 DEF Reactivate
  <2>. HIDE DEF patch
  <2>3. k \in AccountHandler /\ k.uid = q.uid /\ k.op = q.op /\ k.email = q.email
        /\ k.loaded = patch
    BY <1>0, <2>1 DEF AccountHandler
  <2>. HIDE DEF k
  <2>4. /\ q.uid \in Users /\ DatedRow(patch) /\ q.op # "change"
        /\ q.loaded.deleted /\ q.loaded.deletedAt # "never"
        /\ q.op = "verify" =>
             /\ q.email \in Emails
             /\ account[q.uid].email # NoEmail => account[q.uid].email \in proven
    BY <1>0, <2>1, <2>2 DEF HandlerFits, Vouched, DatedRow
  <2>5. SignedIn(k) \in AccountHandler /\ Sound(SignedIn(k), account, proven)
    BY <2>3, <2>4, SignedInSound
  <2>. QED
    BY <2>1, <2>2, <2>4, <2>5, AccountFlushKeeps
<1>3. CASE MarkVerified(r)
  <2>. DEFINE patch == [q.loaded EXCEPT !.verified = TRUE]
  <2>1. /\ patch \in UserRow /\ patch.email = q.loaded.email
        /\ patch.deleted = q.loaded.deleted /\ patch.deletedAt = q.loaded.deletedAt
    BY <1>0 DEF UserRow
  <2>2. /\ q.pc = "mark" /\ Flush(r, patch, ToDropCodes(q))
        /\ UNCHANGED <<codes, changes, proven>>
    BY <1>3 DEF MarkVerified
  <2>. HIDE DEF patch
  <2>3. /\ q.uid \in Users /\ q.email \in Emails /\ q.op # "change"
        /\ Exists(q.uid) => account[q.uid].email \in proven
    BY <1>0, <2>2 DEF HandlerFits, Vouched, Exists
  <2>4. ToDropCodes(q) \in AccountHandler /\ Sound(ToDropCodes(q), account, proven)
    BY <1>0, <2>3, ToDropCodesSound
  <2>. QED
    BY <2>1, <2>2, <2>3, <2>4, AccountFlushKeeps
<1>4. CASE SaveDeletion(r)
  <2>. DEFINE patch == [q.loaded EXCEPT !.deleted = TRUE, !.deletedAt = "recent"]
  <2>1. /\ patch \in UserRow /\ patch.email = q.loaded.email
        /\ patch.verified = q.loaded.verified
        /\ patch.deleted = TRUE /\ patch.deletedAt = "recent"
    BY <1>0 DEF UserRow
  <2>2. /\ q.pc = "delete" /\ Flush(r, patch, Resting)
        /\ UNCHANGED <<codes, changes, proven>>
    BY <1>4 DEF SaveDeletion
  <2>. HIDE DEF patch
  <2>3. /\ q.uid \in Users /\ DatedRow(patch)
        /\ ~q.loaded.deleted /\ q.loaded.deletedAt = "never"
    BY <1>0, <2>1, <2>2 DEF HandlerFits, DatedRow
  <2>. QED
    BY <2>1, <2>2, <2>3, RestingSound, AccountFlushKeeps
<1>5. CASE SaveEmail(r)
  <2>. DEFINE patch == [q.loaded EXCEPT !.email = q.email]
              k == ToDropChanges(q)
  <2>1. /\ q.pc = "saveEmail" /\ Flush(r, patch, k)
        /\ UNCHANGED <<codes, changes, proven>>
    BY <1>5 DEF SaveEmail
  <2>2. q.uid \in Users /\ q.email \in proven /\ q.email \in Emails /\ q.op = "confirm"
    BY <1>0, <2>1 DEF HandlerFits, Vouched
  <2>3. /\ patch \in UserRow /\ patch.email = q.email
        /\ patch.verified = q.loaded.verified
        /\ patch.deleted = q.loaded.deleted /\ patch.deletedAt = q.loaded.deletedAt
    BY <1>0 DEF UserRow, AccountHandler
  <2>4. k \in AccountHandler /\ k.pc = "dropChanges" /\ k.op = "confirm"
        /\ k.uid = q.uid /\ k.email = q.email /\ DatedRow(k.loaded)
    BY <1>0, <2>2 DEF ToDropChanges, Vacant, AccountHandler, AccountSteps, UserRow, DatedRow
  <2>. HIDE DEF patch, k
  <2>5. Sound(k, account, proven)
    BY <2>2, <2>4 DEF Sound, HandlerFits, Vouched
  <2>. QED
    BY <2>1, <2>2, <2>3, <2>4, <2>5, AccountFlushKeeps
<1>. QED
  BY <1>1, <1>2, <1>3, <1>4, <1>5

LEMMA InsertAccountKeeps ==
  ASSUME AccountsInv, NEW r \in Requests, InsertAccount(r)
  PROVE  AccountsInv'
<1>. DEFINE q == areq[r]
            row == [Vacant EXCEPT !.email = q.email, !.apple = q.apple,
                                  !.verified = q.op # "code"]
            next == IF q.op = "code" THEN ToDropCodes(q) ELSE Resting
<1>0. /\ q \in AccountHandler /\ HandlerFits(q) /\ Vouched(q, account, proven)
      /\ proven \subseteq Emails
  BY Running DEF AccountsInv, TypeOK
<1>1. q.pc = "insert" /\ q.email \in Emails /\ q.op # "change"
      /\ (q.op # "code" => q.email \in proven) /\ UNCHANGED <<codes, changes, proven>>
  BY <1>0 DEF InsertAccount, HandlerFits, Vouched
<1>2. next \in AccountHandler /\ Sound(next, account, proven)
  BY <1>0, <1>1, ToDropCodesSound, RestingSound
<1>3. PICK u \in Users :
         /\ Fresh(u)
         /\ IF Unique(u, row)
            THEN /\ account' = [account EXCEPT ![u] = row]
                 /\ Handle(r, next)
            ELSE Handle(r, Resting) /\ UNCHANGED account
  BY DEF InsertAccount
<1>4. CASE Handle(r, Resting) /\ UNCHANGED account
  BY <1>0, <1>1, <1>4, RestingSound, HandlerOnly
<1>5. CASE Unique(u, row) /\ account' = [account EXCEPT ![u] = row] /\ Handle(r, next)
  <2>1. /\ row \in UserRow /\ row.email = q.email /\ row.deletedAt = "never"
        /\ row.deleted = FALSE /\ row.verified = (q.op # "code")
    BY <1>0 DEF Vacant, UserRow, AccountHandler
  <2>2. RowFits(row, proven)
    BY <1>1, <2>1, AccountsAssumption DEF RowFits, DatedRow
  <2>3. next.uid = NoUser \/ next.uid = Resting.uid
    BY DEF ToDropCodes, Resting
  <2>4. next.uid # u
    BY <2>3, AccountsAssumption DEF Resting
  <2>. HIDE DEF row, next
  <2>5. /\ areq' \in [Requests -> AccountHandler]
        /\ \A s \in Requests : areq'[s] = IF s = r THEN next ELSE areq[s]
    BY <1>2, <1>5 DEF AccountsInv, TypeOK, Handle
  <2>6. \A s \in Requests : areq'[s].uid # u /\ Sound(areq'[s], account, proven)
    BY <1>2, <1>3, <2>4, <2>5 DEF Fresh, AccountsInv
  <2>. QED
    BY <1>1, <1>5, <2>1, <2>2, <2>5, <2>6, RowChanges
<1>. QED
  BY <1>3, <1>4, <1>5

\* An administrator's deletion and the end of the 90 days.
LEMMA RowsKeep ==
  ASSUME AccountsInv, NEW u \in Users, HardDeleteUser(u) \/ WindowCloses(u)
  PROVE  AccountsInv'
<1>0. /\ areq \in [Requests -> AccountHandler]
      /\ \A s \in Requests : Sound(areq[s], account, proven)
      /\ account[u] \in UserRow /\ RowFits(account[u], proven)
  BY DEF AccountsInv, TypeOK
<1>1. CASE HardDeleteUser(u)
  <2>1. /\ Vacant \in UserRow /\ RowFits(Vacant, proven) /\ Vacant.email = NoEmail
        /\ Vacant.deletedAt = "never"
    BY DEF Vacant, UserRow, RowFits, DatedRow
  <2>. QED
    BY <1>0, <1>1, <2>1, RowChanges DEF HardDeleteUser
<1>2. CASE WindowCloses(u)
  <2>. DEFINE row == [account[u] EXCEPT !.deletedAt = "old"]
  <2>1. /\ row \in UserRow /\ row.email = account[u].email /\ row.apple = account[u].apple
        /\ row.verified = account[u].verified /\ row.deleted = account[u].deleted
        /\ row.deletedAt = "old"
    BY <1>0 DEF UserRow
  <2>2. /\ account[u].deletedAt = "recent" /\ \A s \in Requests : areq[s].uid # u
        /\ account' = [account EXCEPT ![u] = row] /\ UNCHANGED <<codes, changes, areq, proven>>
    BY <1>2 DEF WindowCloses, AccountsInv, TypeOK
  <2>. HIDE DEF row
  <2>3. Exists(u)
    BY <1>0, <2>2 DEF RowFits, Exists, Vacant
  <2>4. RowFits(row, proven)
    BY <1>0, <2>1, <2>2, <2>3 DEF RowFits, DatedRow, Exists
  <2>5. Unique(u, row)
    BY <2>1, <2>3 DEF Unique, AccountsInv, OneAccountPerAddress
  <2>. QED
    BY <1>0, <2>1, <2>2, <2>4, <2>5, RowChanges
<1>. QED
  BY <1>1, <1>2

\* The steps of a running handler that write no row of `users`.
LEMMA ContinueKeeps ==
  ASSUME AccountsInv, NEW r \in Requests, Continue(r)
  PROVE  AccountsInv'
<1>. DEFINE q == areq[r]
<1>0. /\ q \in AccountHandler /\ q.loaded \in UserRow
      /\ HandlerFits(q) /\ Vouched(q, account, proven)
      /\ proven \subseteq Emails /\ changes \subseteq Users \X Emails
  BY Running DEF AccountsInv, TypeOK
<1>1. CASE FindByEmail(r)
  BY <1>0, <1>1, LookUpKeeps DEF FindByEmail, HandlerFits, Vouched
<1>2. CASE DropCodes(r)
  <2>. DEFINE k == IF q.op = "code" THEN [q EXCEPT !.pc = "addCode"] ELSE Resting
  <2>1. q.pc = "dropCodes" /\ q.email \in Emails /\ UNCHANGED <<account, changes, proven>>
        /\ areq' = [areq EXCEPT ![r] = k]
    BY <1>0, <1>2 DEF DropCodes, HandlerFits, Handle
  <2>2. ASSUME q.op = "code"
        PROVE  k \in AccountHandler /\ Sound(k, account, proven)
    <3>1. k \in AccountHandler /\ k.pc = "addCode" /\ k.op = "code" /\ k.email = q.email
          /\ k.loaded = q.loaded
      BY <1>0, <2>2 DEF AccountHandler, AccountSteps
    <3>. HIDE DEF k
    <3>2. Sound(k, account, proven)
      BY <1>0, <2>1, <3>1 DEF Sound, HandlerFits, Vouched
    <3>. QED
      BY <3>1, <3>2
  <2>3. k \in AccountHandler /\ Sound(k, account, proven)
    BY <2>2, RestingSound
  <2>4. codes' = [c \in CodeIds |->
                     IF codes[c].email = q.email THEN NoCodeRow ELSE codes[c]]
    BY <1>2 DEF DropCodes
  <2>5. NoCodeRow \in CodeRow /\ NoCodeRow.attempts = 0
    BY DEF NoCodeRow, CodeRow
  <2>6. codes' \in [CodeIds -> CodeRow]
    BY <2>4, <2>5 DEF AccountsInv, TypeOK
  <2>7. GuessesAreBounded'
    BY <2>4, <2>5, AccountsAssumption DEF AccountsInv, GuessesAreBounded
  <2>. HIDE DEF k
  <2>. QED
    BY <1>0, <2>1, <2>3, <2>6, <2>7, HandlerMoves
<1>3. CASE AddCode(r)
  <2>1. PICK c \in CodeIds :
            codes' = [codes EXCEPT ![c] = [email |-> q.email, attempts |-> 0]]
    BY <1>3 DEF AddCode
  <2>2. q.email \in Emails /\ UNCHANGED <<account, changes, proven>>
        /\ areq' = [areq EXCEPT ![r] = Resting]
    BY <1>0, <1>3 DEF AddCode, HandlerFits, Handle
  <2>3. codes' \in [CodeIds -> CodeRow]
    BY <2>1, <2>2 DEF AccountsInv, TypeOK, CodeRow
  <2>4. GuessesAreBounded'
    BY <2>1, AccountsAssumption DEF AccountsInv, TypeOK, GuessesAreBounded
  <2>. QED
    BY <1>0, <2>2, <2>3, <2>4, RestingSound, HandlerMoves
<1>4. CASE CountGuess(r)
  <2>. DEFINE attempts == q.attempts + 1
              k == IF attempts >= MAX_CODE_ATTEMPTS THEN ToDropCodes(q) ELSE Resting
  <2>1. /\ q.pc = "count" /\ UNCHANGED <<account, changes, proven>>
        /\ areq' = [areq EXCEPT ![r] = k]
        /\ codes' = IF codes[q.code].email = NoEmail THEN codes
                    ELSE [codes EXCEPT ![q.code].attempts = attempts]
    BY <1>4 DEF CountGuess, Handle
  <2>2. q.code \in CodeIds /\ attempts \in Nat /\ attempts <= MAX_CODE_ATTEMPTS
    BY <1>0, <2>1, AccountsAssumption DEF HandlerFits, AccountHandler
  <2>3. codes' \in [CodeIds -> CodeRow]
    BY <2>1, <2>2 DEF AccountsInv, TypeOK, CodeRow
  <2>4. GuessesAreBounded'
    BY <2>1, <2>2 DEF AccountsInv, TypeOK, CodeRow, GuessesAreBounded
  <2>5. q.op = "verify" => q.email \in Emails
    BY <1>0 DEF HandlerFits
  <2>6. q.op = "verify"
    BY <1>0, <2>1 DEF HandlerFits
  <2>7. k \in AccountHandler /\ Sound(k, account, proven)
    BY <1>0, <2>5, <2>6, ToDropCodesSound, RestingSound
  <2>. HIDE DEF k
  <2>. QED
    BY <1>0, <2>1, <2>3, <2>4, <2>7, HandlerMoves
<1>5. CASE FindOwner(r)
  <2>. DEFINE k == [q EXCEPT !.pc = "target", !.loaded = account[q.uid]]
  <2>1. /\ q.pc = "owner" /\ UNCHANGED <<account, codes, changes, proven>>
        /\ Handle(r, Resting) \/ Handle(r, k)
    BY <1>5 DEF FindOwner
  <2>2. q.uid \in Users /\ q.email \in Emails /\ q.op # "change"
        /\ (q.op # "code" => q.email \in proven)
    BY <1>0, <2>1 DEF HandlerFits, Vouched
  <2>3. account[q.uid] \in UserRow /\ DatedRow(account[q.uid])
    BY <2>2 DEF AccountsInv, TypeOK, RowFits
  <2>4. k \in AccountHandler /\ k.pc = "target" /\ k.op = q.op /\ k.uid = q.uid
        /\ k.email = q.email /\ k.loaded = account[q.uid]
    BY <1>0, <2>3 DEF AccountHandler, AccountSteps
  <2>. HIDE DEF k
  <2>5. Sound(k, account, proven)
    BY <1>0, <2>1, <2>2, <2>3, <2>4 DEF Sound, HandlerFits, Vouched
  <2>. QED
    BY <1>0, <2>1, <2>4, <2>5, RestingSound, HandlerOnly
<1>6. CASE FindTarget(r)
  <2>. DEFINE k == [q EXCEPT !.pc = "saveEmail"]
              d == ToDropChanges(q)
  <2>1. /\ q.pc = "target" /\ UNCHANGED <<account, codes, changes, proven>>
        /\ \/ Handle(r, Resting)
           \/ q.op = "change" /\ Handle(r, d)
           \/ q.op # "change" /\ Handle(r, k)
    BY <1>6 DEF FindTarget
  <2>2. q.uid \in Users /\ q.email \in Emails
    BY <1>0, <2>1 DEF HandlerFits
  <2>3. k \in AccountHandler /\ k.pc = "saveEmail" /\ k.op = q.op /\ k.uid = q.uid
        /\ k.email = q.email /\ k.loaded = q.loaded
    BY <1>0 DEF AccountHandler, AccountSteps
  <2>4. d \in AccountHandler /\ d.pc = "dropChanges" /\ d.op = q.op /\ d.uid = q.uid
        /\ d.email = q.email /\ DatedRow(d.loaded)
    <3>1. Vacant \in UserRow /\ DatedRow(Vacant)
      BY DEF Vacant, UserRow, DatedRow
    <3>. QED
      BY <1>0, <3>1 DEF ToDropChanges, AccountHandler, AccountSteps
  <2>. HIDE DEF k, d
  <2>5. q.op # "change" => Sound(k, account, proven)
    BY <1>0, <2>1, <2>2, <2>3 DEF Sound, HandlerFits, Vouched
  <2>6. Sound(d, account, proven)
    BY <1>0, <2>1, <2>2, <2>4 DEF Sound, HandlerFits, Vouched
  <2>. QED
    BY <1>0, <2>1, <2>3, <2>4, <2>5, <2>6, RestingSound, HandlerOnly
<1>7. CASE DropChanges(r)
  <2>. DEFINE k == IF q.op = "change" THEN [q EXCEPT !.pc = "addChange"] ELSE Resting
  <2>1. /\ q.pc = "dropChanges" /\ UNCHANGED <<account, codes, proven>>
        /\ areq' = [areq EXCEPT ![r] = k] /\ changes' \subseteq changes
    BY <1>7 DEF DropChanges, Handle
  <2>2. ASSUME q.op = "change"
        PROVE  k \in AccountHandler /\ Sound(k, account, proven)
    <3>1. k \in AccountHandler /\ k.pc = "addChange" /\ k.op = "change" /\ k.uid = q.uid
          /\ k.email = q.email /\ k.loaded = q.loaded
      BY <1>0, <2>2 DEF AccountHandler, AccountSteps
    <3>. HIDE DEF k
    <3>2. Sound(k, account, proven)
      BY <1>0, <2>1, <3>1 DEF Sound, HandlerFits, Vouched
    <3>. QED
      BY <3>1, <3>2
  <2>3. k \in AccountHandler /\ Sound(k, account, proven)
    BY <2>2, RestingSound
  <2>. HIDE DEF k
  <2>. QED
    BY <1>0, <2>1, <2>3, HandlerMoves, CodesStay
<1>8. CASE AddChange(r)
  <2>1. /\ q.pc = "addChange" /\ UNCHANGED <<account, codes, proven>>
        /\ areq' = [areq EXCEPT ![r] = Resting] /\ changes' = changes \cup {<<q.uid, q.email>>}
    BY <1>8 DEF AddChange, Handle
  <2>2. changes' \subseteq Users \X Emails
    BY <1>0, <2>1 DEF HandlerFits
  <2>. QED
    BY <1>0, <2>1, <2>2, RestingSound, HandlerMoves, CodesStay
<1>. QED
  BY <1>1, <1>2, <1>3, <1>4, <1>5, <1>6, <1>7, <1>8, InsertAccountKeeps, FlushesKeep DEF Continue

LEMMA ExpiryKeeps ==
  ASSUME AccountsInv, CodeExpires
  PROVE  AccountsInv'
<1>0. UNCHANGED <<account, areq, proven>>
  BY DEF CodeExpires
<1>1. CASE \E c \in CodeIds : codes' = [codes EXCEPT ![c] = NoCodeRow] /\ UNCHANGED changes
  <2>1. NoCodeRow \in CodeRow /\ NoCodeRow.attempts = 0
    BY DEF NoCodeRow, CodeRow
  <2>2. codes' \in [CodeIds -> CodeRow] /\ changes' \subseteq Users \X Emails
    BY <1>1, <2>1 DEF AccountsInv, TypeOK
  <2>3. GuessesAreBounded'
    BY <1>1, <2>1, AccountsAssumption DEF AccountsInv, TypeOK, GuessesAreBounded
  <2>. QED
    BY <1>0, <2>2, <2>3, HandlersStay
<1>2. CASE changes' \subseteq changes /\ UNCHANGED codes
  <2>1. changes' \subseteq Users \X Emails
    BY <1>2 DEF AccountsInv, TypeOK
  <2>. QED
    BY <1>0, <1>2, <2>1, CodesStay, HandlersStay
<1>. QED
  BY <1>1, <1>2 DEF CodeExpires

-----------------------------------------------------------------------------
(* Theorems *)

LEMMA InvInit == Init => AccountsInv
<1>. SUFFICES ASSUME Init PROVE AccountsInv
  OBVIOUS
<1>. USE AccountsAssumption
<1>1. Vacant \in UserRow /\ Vacant.email = NoEmail /\ RowFits(Vacant, proven)
  BY DEF Vacant, UserRow, RowFits, DatedRow
<1>2. NoCodeRow \in CodeRow /\ NoCodeRow.attempts = 0
  BY DEF NoCodeRow, CodeRow
<1>3. TypeOK
  BY <1>1, <1>2, RestingSound DEF Init, TypeOK
<1>4. OneAccountPerAddress /\ GuessesAreBounded
  BY <1>1, <1>2 DEF Init, OneAccountPerAddress, GuessesAreBounded, Exists
<1>. QED
  BY <1>1, <1>3, <1>4, RestingSound DEF Init, AccountsInv

LEMMA InvStep == AccountsInv /\ [Next]_vars => AccountsInv'
<1>. SUFFICES ASSUME AccountsInv, [Next]_vars PROVE AccountsInv'
  OBVIOUS
<1>1. ASSUME NEW r \in Requests, Crash(r) PROVE AccountsInv'
  BY <1>1, RestingSound, HandlerOnly DEF Crash, AccountsInv, TypeOK
<1>2. CASE UNCHANGED vars
  BY <1>2, CodesStay, HandlersStay DEF vars, AccountsInv, TypeOK
<1>. QED
  BY <1>1, <1>2, SignInKeeps, OwnAccountKeeps, ContinueKeeps, RowsKeep, ExpiryKeeps
  DEF Next

LEMMA AccountsInvariant == Spec => []AccountsInv
BY InvInit, InvStep, PTL DEF Spec

\* Columns and local variables keep their types, whatever overlaps and wherever
\* handlers end.
THEOREM AccountTypesHold == Spec => []TypeOK
<1>1. AccountsInv => TypeOK
  BY DEF AccountsInv
<1>. QED
  BY <1>1, AccountsInvariant, PTL

\* There is one account per address and per Apple identity.
THEOREM AddressesAreUnique == Spec => []OneAccountPerAddress
<1>1. AccountsInv => OneAccountPerAddress
  BY DEF AccountsInv
<1>. QED
  BY <1>1, AccountsInvariant, PTL

\* No overlap of deletions, restorations and reactivations separates `deleted`
\* from `deletedAt`.
THEOREM DeletionsAreDated == Spec => []DeletionIsDated
<1>1. AccountsInv => DeletionIsDated
  BY DEF AccountsInv, DeletionIsDated, RowFits, DatedRow
<1>. QED
  BY <1>1, AccountsInvariant, PTL

\* No way to a verified account avoids the proof that its address is somebody's.
THEOREM VerifiedMeansProven == Spec => []VerifiedAddressesAreProven
<1>1. AccountsInv => VerifiedAddressesAreProven
  BY DEF AccountsInv, VerifiedAddressesAreProven, RowFits
<1>. QED
  BY <1>1, AccountsInvariant, PTL

\* The counter of a code never passes the limit, however many codes an address
\* has and however many guesses overlap.
THEOREM GuessesStayBounded == Spec => []GuessesAreBounded
<1>1. AccountsInv => GuessesAreBounded
  BY DEF AccountsInv
<1>. QED
  BY <1>1, AccountsInvariant, PTL

\* A flush brings only the handler's account back, and only when told to.
LEMMA FlushRevives ==
  ASSUME AccountsInv, NEW r \in Requests, NEW patch, NEW next, NEW u \in Users,
         Flush(r, patch, next), areq[r].uid \in Users,
         account[u].deleted, ~account'[u].deleted
  PROVE  u = areq[r].uid /\ patch.deleted # areq[r].loaded.deleted /\ ~patch.deleted
BY DEF Flush, Written, AccountsInv, TypeOK

\* Signing in brings no account back after its 90 days.
THEOREM ReactivationIsInTime == Spec => ReactivatedInTime
<1>. DEFINE InTime ==
       \A u \in Users :
          account[u].deletedAt = "old" /\ Exists(u)' /\ ~account'[u].deleted =>
              \E r \in Requests : areq[r].uid = u /\ areq[r].op = "restore"
<1>1. AccountsInv /\ [Next]_vars => [InTime]_vars
  <2>. SUFFICES ASSUME AccountsInv, Next, NEW u \in Users,
                       account[u].deletedAt = "old", Exists(u)', ~account'[u].deleted
                PROVE  \E r \in Requests : areq[r].uid = u /\ areq[r].op = "restore"
    OBVIOUS
  <2>1. account[u].deleted /\ Exists(u)
    BY DEF AccountsInv, RowFits, DatedRow, Exists, Vacant
  <2>2. account' # account
    BY <2>1
  <2>3. ASSUME NEW v \in Users, HardDeleteUser(v) \/ WindowCloses(v)
        PROVE  FALSE
    BY <2>1, <2>3, AccountsAssumption
    DEF HardDeleteUser, WindowCloses, Vacant, AccountsInv, TypeOK, UserRow, Exists
  <2>4. ASSUME NEW r \in Requests, InsertAccount(r)
        PROVE  FALSE
    BY <2>1, <2>4 DEF InsertAccount, Fresh, AccountsInv, TypeOK
  <2>5. ASSUME NEW r \in Requests,
               LinkApple(r) \/ MarkVerified(r) \/ SaveDeletion(r) \/ SaveEmail(r)
        PROVE  FALSE
    <3>. DEFINE q == areq[r]
    <3>1. q.loaded \in UserRow /\ HandlerFits(q)
      BY Running
    <3>2. CASE LinkApple(r)
      <4>. DEFINE patch == [q.loaded EXCEPT !.apple = q.apple, !.verified = TRUE]
      <4>1. Flush(r, patch, Recognized(q, q.uid, patch)) /\ q.uid \in Users
        BY <3>1, <3>2 DEF LinkApple, HandlerFits
      <4>2. patch.deleted = q.loaded.deleted
        BY <3>1 DEF UserRow
      <4>. HIDE DEF patch
      <4>. QED
        BY <2>1, <4>1, <4>2, FlushRevives
    <3>3. CASE MarkVerified(r)
      <4>. DEFINE patch == [q.loaded EXCEPT !.verified = TRUE]
      <4>1. Flush(r, patch, ToDropCodes(q)) /\ q.uid \in Users
        BY <3>1, <3>3 DEF MarkVerified, HandlerFits
      <4>2. patch.deleted = q.loaded.deleted
        BY <3>1 DEF UserRow
      <4>. HIDE DEF patch
      <4>. QED
        BY <2>1, <4>1, <4>2, FlushRevives
    <3>4. CASE SaveDeletion(r)
      <4>. DEFINE patch == [q.loaded EXCEPT !.deleted = TRUE, !.deletedAt = "recent"]
      <4>1. Flush(r, patch, Resting) /\ q.uid \in Users
        BY <3>1, <3>4 DEF SaveDeletion, HandlerFits
      <4>2. patch.deleted = TRUE
        BY <3>1 DEF UserRow
      <4>. HIDE DEF patch
      <4>. QED
        BY <2>1, <4>1, <4>2, FlushRevives
    <3>5. CASE SaveEmail(r)
      <4>. DEFINE patch == [q.loaded EXCEPT !.email = q.email]
      <4>1. Flush(r, patch, ToDropChanges(q)) /\ q.uid \in Users
        BY <3>1, <3>5 DEF SaveEmail, HandlerFits
      <4>2. patch.deleted = q.loaded.deleted
        BY <3>1 DEF UserRow
      <4>. HIDE DEF patch
      <4>. QED
        BY <2>1, <4>1, <4>2, FlushRevives
    <3>. QED
      BY <2>5, <3>2, <3>3, <3>4, <3>5
  <2>6. ASSUME NEW r \in Requests, Reactivate(r)
        PROVE  areq[r].uid = u /\ areq[r].op = "restore"
    <3>. DEFINE q == areq[r]
    <3>1. /\ q.loaded \in UserRow /\ HandlerFits(q) /\ Vouched(q, account, proven)
          /\ q.pc = "reactivate"
      BY <2>6, Running DEF Reactivate
    <3>2. q.uid = u
      BY <2>1, <2>6, <3>1, FlushRevives DEF Reactivate, HandlerFits
    <3>. QED
      BY <3>1, <3>2 DEF HandlerFits, Vouched
  <2>. QED
    BY <2>2, <2>3, <2>4, <2>5, <2>6
    DEF Next, SignIn, OwnAccount, Continue, RequestCode, EnterCode, SignInWithPassword,
        SignInWithGoogle, SignInWithApple, DeleteAccount, RestoreUser, RequestEmailChange,
        ConfirmEmailChange, FindByEmail, DropCodes, AddCode, CountGuess, FindOwner,
        FindTarget, DropChanges, AddChange, CodeExpires, Crash
<1>. QED
  BY <1>1, AccountsInvariant, PTL DEF Spec, ReactivatedInTime

-----------------------------------------------------------------------------
(* Codes are replaced *)

\* The handlers that deleted the codes of an address and have not added theirs.
Adders(e) == {r \in Requests : areq[r].pc = "addCode" /\ areq[r].email = e}

\* A code comes with a handler that deleted the others.
CodesInv ==
    \A e \in Emails :
        /\ IsFiniteSet(CodesOf(e))
        /\ Cardinality(CodesOf(e)) + Cardinality(Adders(e)) <= Cardinality(Requests)

\* Whoever is about to add a code finds none when requests are apart.
LoneInv ==
    /\ \A r \in Requests : areq[r].pc = "addCode" =>
          areq[r].op = "code" /\ CodesOf(areq[r].email) = {}
    /\ \A e \in Emails : CodesOf(e) = {} \/ \E c \in CodeIds : CodesOf(e) = {c}

\* Adding a code is only ever next to deleting the others.
LEMMA SignedInElsewhere ==
  ASSUME NEW q \in AccountHandler
  PROVE  SignedIn(q).pc # "addCode" /\ ToDropCodes(q).pc # "addCode"
<1>1. ToDropCodes(q).pc # "addCode" /\ Resting.pc # "addCode"
  BY DEF ToDropCodes, Resting
<1>2. [q EXCEPT !.pc = "mark"].pc = "mark"
  BY DEF AccountHandler
<1>. QED
  BY <1>1, <1>2 DEF SignedIn

LEMMA RecognizedElsewhere ==
  ASSUME NEW q \in AccountHandler, NEW u \in Users, NEW row \in UserRow
  PROVE  Recognized(q, u, row).pc # "addCode"
<1>. DEFINE k == [q EXCEPT !.uid = u, !.loaded = row]
<1>1. k \in AccountHandler /\ [k EXCEPT !.pc = "reactivate"].pc = "reactivate"
  BY DEF AccountHandler
<1>2. Recognized(q, u, row) \in {SignedIn(k), [k EXCEPT !.pc = "reactivate"], Resting}
  BY DEF Recognized
<1>3. Resting.pc # "addCode"
  BY DEF Resting
<1>. HIDE DEF k
<1>. QED
  BY <1>1, <1>2, <1>3, SignedInElsewhere

LEMMA LookedUpElsewhere ==
  ASSUME AccountsInv, NEW q \in AccountHandler, NEW r \in Requests, LookUp(r, q)
  PROVE  \E k : Handle(r, k) /\ k.pc # "addCode"
<1>1. NotFound(q).pc # "addCode"
  BY DEF NotFound, Resting, AccountHandler
<1>2. ASSUME NEW u \in Users PROVE Found(q, u).pc # "addCode"
  <2>1. account[u] \in UserRow
    BY DEF AccountsInv, TypeOK
  <2>2. [q EXCEPT !.pc = "link", !.uid = u, !.loaded = account[u]].pc = "link"
    BY DEF AccountHandler
  <2>3. Found(q, u) \in {ToDropCodes(q), Recognized(q, u, account[u]),
                         [q EXCEPT !.pc = "link", !.uid = u, !.loaded = account[u]]}
    BY DEF Found
  <2>. QED
    BY <2>1, <2>2, <2>3, SignedInElsewhere, RecognizedElsewhere
<1>. QED
  BY <1>1, <1>2 DEF LookUp

\* Every other step leaves no more codes, and no more handlers about to add one.
LEMMA OtherStepsAddNothing ==
  ASSUME AccountsInv, [Next]_vars, \A r \in Requests : ~DropCodes(r) /\ ~AddCode(r)
  PROVE  /\ \A c \in CodeIds : codes'[c].email \in {codes[c].email, NoEmail}
         /\ \A r \in Requests : areq'[r] = areq[r] \/ areq'[r].pc # "addCode"
<1>. DEFINE Kept == /\ \A c \in CodeIds : codes'[c].email \in {codes[c].email, NoEmail}
                    /\ \A r \in Requests : areq'[r] = areq[r] \/ areq'[r].pc # "addCode"
<1>. USE DEF AccountsInv
<1>0. areq \in [Requests -> AccountHandler] /\ codes \in [CodeIds -> CodeRow]
      /\ Resting \in AccountHandler /\ Resting.pc = "idle"
  BY RestingSound DEF TypeOK, Resting
<1>1. ASSUME NEW r \in Requests, NEW k, Handle(r, k), k.pc # "addCode",
             codes' = codes \/ CountGuess(r)
      PROVE  Kept
  <2>1. \A x \in Requests : areq'[x] = areq[x] \/ areq'[x].pc # "addCode"
    BY <1>0, <1>1 DEF Handle
  <2>2. \A c \in CodeIds : codes'[c].email = codes[c].email
    BY <1>0, <1>1 DEF CountGuess, CodeRow
  <2>. QED
    BY <2>1, <2>2
<1>2. ASSUME NEW r \in Requests, NEW patch, NEW next, Flush(r, patch, next),
             next.pc # "addCode", codes' = codes
      PROVE  Kept
  BY <1>0, <1>1, <1>2 DEF Flush
<1>3. ASSUME NEW r \in Requests, SignIn(r) PROVE Kept
  <2>1. ASSUME NEW q \in AccountHandler, LookUp(r, q), codes' = codes PROVE Kept
    BY <1>1, <2>1, LookedUpElsewhere
  <2>2. ASSUME NEW op \in AccountOps, NEW e \in Emails, codes' = codes,
               LookUp(r, [Resting EXCEPT !.op = op, !.email = e])
        PROVE  Kept
    <3>. DEFINE q == [Resting EXCEPT !.op = op, !.email = e]
    <3>1. q \in AccountHandler
      BY <1>0 DEF AccountHandler
    <3>2. LookUp(r, q)
      BY <2>2
    <3>. HIDE DEF q
    <3>. QED
      BY <2>1, <2>2, <3>1, <3>2
  <2>3. ASSUME NEW e \in Emails, RequestCode(r, e) \/ SignInWithPassword(r, e)
                                 \/ SignInWithGoogle(r, e)
        PROVE  Kept
    <3>1. {"code", "password", "google"} \subseteq AccountOps /\ codes' = codes
      BY <2>3 DEF AccountOps, RequestCode, SignInWithPassword, SignInWithGoogle
    <3>2. \/ LookUp(r, [Resting EXCEPT !.op = "code", !.email = e])
          \/ LookUp(r, [Resting EXCEPT !.op = "password", !.email = e])
          \/ LookUp(r, [Resting EXCEPT !.op = "google", !.email = e])
      BY <2>3, Zenon DEF RequestCode, SignInWithPassword, SignInWithGoogle
    <3>3. "code" \in AccountOps /\ "password" \in AccountOps /\ "google" \in AccountOps
      BY <3>1
    <3>. HIDE DEF Kept
    <3>. QED
      BY <2>2, <3>1, <3>2, <3>3, Zenon
  <2>4. ASSUME NEW e \in Emails, EnterCode(r, e) PROVE Kept
    <3>. DEFINE q == [Resting EXCEPT !.op = "verify", !.email = e]
                j(c) == [q EXCEPT !.pc = "count", !.code = c,
                                  !.attempts = codes[c].attempts]
                k == [q EXCEPT !.pc = "byEmail"]
    <3>1. q \in AccountHandler
      BY <1>0 DEF AccountHandler, AccountOps
    <3>2. k.pc = "byEmail" /\ \A c : j(c).pc = "count"
      BY <3>1 DEF AccountHandler
    <3>3. PICK c \in CodeIds, right \in BOOLEAN :
             Begin(r, IF ~(codes[c].attempts < MAX_CODE_ATTEMPTS) THEN ToDropCodes(q)
                      ELSE IF right THEN k ELSE j(c))
      BY <2>4, Zenon DEF EnterCode
    <3>4. codes' = codes /\ Handle(r, IF ~(codes[c].attempts < MAX_CODE_ATTEMPTS)
                                      THEN ToDropCodes(q)
                                      ELSE IF right THEN k ELSE j(c))
      BY <2>4, <3>3, Zenon DEF EnterCode, Begin
    <3>. HIDE DEF q, j, k
    <3>. QED
      BY <1>1, <3>1, <3>2, <3>4, SignedInElsewhere
  <2>5. ASSUME NEW a \in AppleIds, NEW e \in Emails \cup {NoEmail}, SignInWithApple(r, a, e)
        PROVE  Kept
    <3>. DEFINE q == [Resting EXCEPT !.op = "apple"]
                k == [Resting EXCEPT !.pc = "byEmail", !.op = "apple", !.email = e,
                                     !.apple = a]
    <3>1. q \in AccountHandler /\ k.pc = "byEmail" /\ codes' = codes
      BY <1>0, <2>5 DEF AccountHandler, AccountOps, Resting, SignInWithApple
    <3>2. \/ \E u \in Users : Handle(r, Recognized(q, u, account[u]))
          \/ Handle(r, k)
      BY <2>5 DEF SignInWithApple, Begin
    <3>3. \A u \in Users : account[u] \in UserRow
      BY DEF TypeOK
    <3>. HIDE DEF q, k
    <3>. QED
      BY <1>1, <3>1, <3>2, <3>3, RecognizedElsewhere
  <2>. QED
    BY <1>3, <2>3, <2>4, <2>5 DEF SignIn
<1>4. ASSUME NEW r \in Requests, OwnAccount(r) PROVE Kept
  <2>. PICK u \in Users : \/ DeleteAccount(r, u) \/ RestoreUser(r, u)
                          \/ \E e \in Emails : RequestEmailChange(r, u, e)
                                               \/ ConfirmEmailChange(r, u, e)
    BY <1>4 DEF OwnAccount
  <2>. DEFINE d == [Resting EXCEPT !.pc = "delete", !.op = "delete", !.uid = u,
                                   !.loaded = account[u]]
              k == [Resting EXCEPT !.pc = "reactivate", !.op = "restore", !.uid = u,
                                   !.loaded = account[u]]
              t(e) == [Resting EXCEPT !.pc = "target", !.op = "change", !.uid = u,
                                      !.email = e, !.loaded = account[u]]
              o(e) == [Resting EXCEPT !.pc = "owner", !.op = "confirm", !.uid = u,
                                      !.email = e]
  <2>1. d.pc = "delete" /\ k.pc = "reactivate"
        /\ \A e : t(e).pc = "target" /\ o(e).pc = "owner"
    BY DEF Resting
  <2>2. codes' = codes
    BY Zenon DEF DeleteAccount, RestoreUser, RequestEmailChange, ConfirmEmailChange
  <2>3. \/ Handle(r, d) \/ Handle(r, k)
        \/ \E e \in Emails : Handle(r, t(e)) \/ Handle(r, o(e))
    BY Zenon DEF DeleteAccount, RestoreUser, RequestEmailChange, ConfirmEmailChange, Begin
  <2>. HIDE DEF d, k, t, o
  <2>. QED
    BY <1>1, <2>1, <2>2, <2>3
<1>5. ASSUME NEW r \in Requests, Continue(r) PROVE Kept
  <2>. DEFINE q == areq[r]
  <2>0. q \in AccountHandler /\ HandlerFits(q) /\ q.loaded \in UserRow
    BY Running
  <2>1. \A pc : [q EXCEPT !.pc = pc].pc = pc
    BY <2>0 DEF AccountHandler
  <2>2. ToDropChanges(q).pc = "dropChanges"
    BY <2>0 DEF AccountHandler, ToDropChanges
  <2>3. CASE FindByEmail(r)
    BY <1>1, <2>0, <2>3, LookedUpElsewhere DEF FindByEmail
  <2>4. CASE InsertAccount(r)
    BY <1>0, <1>1, <2>0, <2>4, SignedInElsewhere DEF InsertAccount
  <2>5. CASE LinkApple(r)
    <3>. DEFINE patch == [q.loaded EXCEPT !.apple = q.apple, !.verified = TRUE]
    <3>1. patch \in UserRow /\ q.uid \in Users
      BY <2>0, <2>5 DEF UserRow, AccountHandler, HandlerFits, LinkApple
    <3>2. Flush(r, patch, Recognized(q, q.uid, patch)) /\ codes' = codes
      BY <2>5 DEF LinkApple
    <3>. HIDE DEF patch
    <3>. QED
      BY <1>2, <2>0, <3>1, <3>2, RecognizedElsewhere
  <2>6. CASE Reactivate(r)
    <3>. DEFINE patch == [q.loaded EXCEPT !.deleted = FALSE, !.deletedAt = "never"]
                k == [q EXCEPT !.loaded = patch]
    <3>1. k \in AccountHandler
      BY <2>0 DEF UserRow, AccountHandler
    <3>2. Flush(r, patch, SignedIn(k)) /\ codes' = codes
      BY <2>6 DEF Reactivate
    <3>. HIDE DEF patch, k
    <3>. QED
      BY <1>2, <3>1, <3>2, SignedInElsewhere
  <2>7. CASE CountGuess(r)
    BY <1>0, <1>1, <2>0, <2>7, SignedInElsewhere DEF CountGuess
  <2>8. CASE MarkVerified(r)
    BY <1>2, <2>0, <2>8, SignedInElsewhere DEF MarkVerified
  <2>9. CASE SaveDeletion(r)
    BY <1>0, <1>2, <2>9 DEF SaveDeletion
  <2>10. CASE FindOwner(r)
    <3>1. [q EXCEPT !.pc = "target", !.loaded = account[q.uid]].pc = "target"
      BY <2>0 DEF AccountHandler
    <3>. QED
      BY <1>0, <1>1, <2>10, <3>1 DEF FindOwner
  <2>11. CASE FindTarget(r)
    BY <1>0, <1>1, <2>1, <2>2, <2>11 DEF FindTarget
  <2>12. CASE SaveEmail(r)
    BY <1>2, <2>2, <2>12 DEF SaveEmail
  <2>13. CASE DropChanges(r)
    BY <1>0, <1>1, <2>1, <2>13 DEF DropChanges
  <2>14. CASE AddChange(r)
    BY <1>0, <1>1, <2>14 DEF AddChange
  <2>15. DropCodes(r) \/ AddCode(r) => FALSE
    OBVIOUS
  <2>. HIDE DEF Kept
  <2>. QED
    BY <1>5, <2>3, <2>4, <2>5, <2>6, <2>7, <2>8, <2>9, <2>10, <2>11, <2>12, <2>13, <2>14,
       <2>15 DEF Continue
<1>6. ASSUME NEW r \in Requests, Crash(r) PROVE Kept
  BY <1>0, <1>1, <1>6 DEF Crash
<1>7. ASSUME NEW u \in Users, HardDeleteUser(u) \/ WindowCloses(u) PROVE Kept
  BY <1>7 DEF HardDeleteUser, WindowCloses
<1>8. CASE CodeExpires
  BY <1>0, <1>8 DEF CodeExpires, NoCodeRow
<1>9. CASE UNCHANGED vars
  BY <1>9 DEF vars
<1>10. Kept
  <2>1. CASE Next
    BY <1>3, <1>4, <1>5, <1>6, <1>7, <1>8, <2>1 DEF Next
  <2>. QED
    BY <1>9, <2>1
<1>. QED
  BY <1>10 DEF Kept

\* Fewer codes, and no more handlers about to add one.
LEMMA OtherStepsShrink ==
  ASSUME AccountsInv, [Next]_vars, \A r \in Requests : ~DropCodes(r) /\ ~AddCode(r),
         NEW e \in Emails
  PROVE  CodesOf(e)' \subseteq CodesOf(e) /\ Adders(e)' \subseteq Adders(e)
<1>1. /\ \A c \in CodeIds : codes'[c].email \in {codes[c].email, NoEmail}
      /\ \A r \in Requests : areq'[r] = areq[r] \/ areq'[r].pc # "addCode"
  BY OtherStepsAddNothing
<1>. QED
  BY <1>1, AccountsAssumption DEF CodesOf, Adders

\* The deletion leaves no code of the address, and touches no other.
LEMMA DropEffect ==
  ASSUME AccountsInv, NEW r \in Requests, DropCodes(r), NEW e \in Emails
  PROVE  /\ CodesOf(e)' = IF e = areq[r].email THEN {} ELSE CodesOf(e)
         /\ areq[r].email \in Emails /\ areq[r].pc = "dropCodes"
         /\ \A x \in Requests \ {r} : areq'[x] = areq[x]
         /\ areq'[r].pc = "addCode" =>
               areq'[r].op = "code" /\ areq'[r].email = areq[r].email
<1>. DEFINE q == areq[r]
<1>1. q \in AccountHandler /\ q.pc = "dropCodes" /\ HandlerFits(q)
  BY Running DEF DropCodes
<1>2. q.email \in Emails
  BY <1>1 DEF HandlerFits
<1>3. \A c \in CodeIds :
         codes'[c] = IF codes[c].email = q.email THEN NoCodeRow ELSE codes[c]
  BY DEF DropCodes
<1>4. CodesOf(e)' = IF e = q.email THEN {} ELSE CodesOf(e)
  BY <1>2, <1>3, AccountsAssumption DEF NoCodeRow, CodesOf
<1>5. areq' = [areq EXCEPT ![r] = IF q.op = "code" THEN [q EXCEPT !.pc = "addCode"]
                                  ELSE Resting]
  BY DEF DropCodes, Handle
<1>6. \A x \in Requests \ {r} : areq'[x] = areq[x]
  BY <1>5 DEF AccountsInv, TypeOK
<1>7. areq'[r].pc = "addCode" => areq'[r].op = "code" /\ areq'[r].email = q.email
  BY <1>1, <1>5 DEF AccountsInv, TypeOK, Resting, AccountHandler
<1>. QED
  BY <1>1, <1>2, <1>4, <1>6, <1>7

\* The insert adds one code to the address, and its handler is done.
LEMMA AddEffect ==
  ASSUME AccountsInv, NEW r \in Requests, AddCode(r), NEW e \in Emails
  PROVE  /\ e = areq[r].email =>
               \E c \in CodeIds : CodesOf(e)' = CodesOf(e) \cup {c}
         /\ e # areq[r].email => CodesOf(e)' = CodesOf(e)
         /\ areq[r].email \in Emails /\ areq[r].pc = "addCode"
         /\ \A x \in Requests \ {r} : areq'[x] = areq[x]
         /\ areq'[r].pc # "addCode"
<1>. DEFINE q == areq[r]
<1>1. q \in AccountHandler /\ q.pc = "addCode" /\ HandlerFits(q)
  BY Running DEF AddCode
<1>2. q.email \in Emails
  BY <1>1 DEF HandlerFits
<1>3. PICK c \in CodeIds :
         /\ codes[c].email = NoEmail
         /\ codes' = [codes EXCEPT ![c] = [email |-> q.email, attempts |-> 0]]
  BY DEF AddCode
<1>4. /\ codes'[c].email = q.email
      /\ \A d \in CodeIds \ {c} : codes'[d] = codes[d]
  BY <1>3 DEF AccountsInv, TypeOK
<1>5. e = q.email => CodesOf(e)' = CodesOf(e) \cup {c}
  BY <1>4 DEF CodesOf
<1>6. e # q.email => CodesOf(e)' = CodesOf(e)
  BY <1>3, <1>4, AccountsAssumption DEF CodesOf
<1>7. areq' = [areq EXCEPT ![r] = Resting]
  BY DEF AddCode, Handle
<1>8. areq'[r].pc # "addCode" /\ \A x \in Requests \ {r} : areq'[x] = areq[x]
  BY <1>7 DEF AccountsInv, TypeOK, Resting
<1>. QED
  BY <1>1, <1>2, <1>5, <1>6, <1>8

\* A code comes with the handler it takes the place of.
LEMMA CodesInvStep ==
  ASSUME AccountsInv, CodesInv, [Next]_vars
  PROVE  CodesInv'
<1>. SUFFICES ASSUME NEW e \in Emails
              PROVE  /\ IsFiniteSet(CodesOf(e)')
                     /\ Cardinality(CodesOf(e)') + Cardinality(Adders(e)')
                           <= Cardinality(Requests)
  BY DEF CodesInv
<1>0. /\ IsFiniteSet(CodesOf(e)) /\ Cardinality(CodesOf(e)) \in Nat
      /\ IsFiniteSet(Requests) /\ Cardinality(Requests) \in Nat
      /\ IsFiniteSet(Adders(e)) /\ Cardinality(Adders(e)) \in Nat
      /\ IsFiniteSet(Adders(e)') /\ Cardinality(Adders(e)') \in Nat
      /\ Cardinality(Adders(e)') <= Cardinality(Requests)
      /\ Cardinality(CodesOf(e)) + Cardinality(Adders(e)) <= Cardinality(Requests)
  <2>1. IsFiniteSet(Requests) /\ Adders(e) \subseteq Requests /\ Adders(e)' \subseteq Requests
    BY AccountsAssumption DEF Adders
  <2>. QED
    BY <2>1, FS_Subset, FS_CardinalityType DEF CodesInv
<1>1. CASE \A r \in Requests : ~DropCodes(r) /\ ~AddCode(r)
  <2>1. CodesOf(e)' \subseteq CodesOf(e) /\ Adders(e)' \subseteq Adders(e)
    BY <1>1, OtherStepsShrink
  <2>. HIDE DEF CodesInv
  <2>2. /\ IsFiniteSet(CodesOf(e)') /\ Cardinality(CodesOf(e)') <= Cardinality(CodesOf(e))
        /\ Cardinality(Adders(e)') <= Cardinality(Adders(e))
    BY <1>0, <2>1, FS_Subset
  <2>3. Cardinality(CodesOf(e)') \in Nat
    BY <2>2, FS_CardinalityType
  <2>. QED
    BY <1>0, <2>2, <2>3
<1>2. ASSUME NEW r \in Requests, DropCodes(r)
      PROVE  /\ IsFiniteSet(CodesOf(e)')
             /\ Cardinality(CodesOf(e)') + Cardinality(Adders(e)') <= Cardinality(Requests)
  <2>1. CASE e = areq[r].email
    <3>1. CodesOf(e)' = {}
      BY <1>2, <2>1, DropEffect
    <3>. QED
      BY <1>0, <3>1, FS_EmptySet
  <2>2. CASE e # areq[r].email
    <3>1. CodesOf(e)' = CodesOf(e)
      BY <1>2, <2>2, DropEffect
    <3>2. Adders(e)' = Adders(e)
      BY <1>2, <2>2, DropEffect DEF Adders
    <3>. QED
      BY <1>0, <3>1, <3>2
  <2>. QED
    BY <2>1, <2>2
<1>3. ASSUME NEW r \in Requests, AddCode(r)
      PROVE  /\ IsFiniteSet(CodesOf(e)')
             /\ Cardinality(CodesOf(e)') + Cardinality(Adders(e)') <= Cardinality(Requests)
  <2>1. CASE e = areq[r].email
    <3>1. PICK c \in CodeIds : CodesOf(e)' = CodesOf(e) \cup {c}
      BY <1>3, <2>1, AddEffect
    <3>2. Adders(e)' = Adders(e) \ {r} /\ r \in Adders(e)
      BY <1>3, <2>1, AddEffect DEF Adders
    <3>3. Cardinality(Adders(e)') = Cardinality(Adders(e)) - 1
      BY <1>0, <3>2, FS_RemoveElement
    <3>4. IsFiniteSet(CodesOf(e)')
          /\ Cardinality(CodesOf(e)') \in {Cardinality(CodesOf(e)), Cardinality(CodesOf(e)) + 1}
      BY <1>0, <3>1, FS_AddElement
    <3>. QED
      BY <1>0, <3>3, <3>4
  <2>2. CASE e # areq[r].email
    <3>1. CodesOf(e)' = CodesOf(e)
      BY <1>3, <2>2, AddEffect
    <3>2. Adders(e)' = Adders(e)
      BY <1>3, <2>2, AddEffect DEF Adders
    <3>. QED
      BY <1>0, <3>1, <3>2
  <2>. QED
    BY <2>1, <2>2
<1>. QED
  BY <1>1, <1>2, <1>3

LEMMA CodesInitOK == ASSUME Init PROVE CodesInv /\ LoneInv
<1>1. \A e \in Emails : CodesOf(e) = {} /\ Adders(e) = {}
  BY AccountsAssumption DEF Init, NoCodeRow, Resting, CodesOf, Adders
<1>2. Cardinality({}) = 0 /\ IsFiniteSet({}) /\ Cardinality(Requests) \in Nat
  BY AccountsAssumption, FS_EmptySet, FS_CardinalityType
<1>3. CodesInv
  BY <1>1, <1>2 DEF CodesInv
<1>4. \A r \in Requests : areq[r].pc # "addCode"
  BY DEF Init, Resting
<1>. QED
  BY <1>1, <1>3, <1>4 DEF LoneInv

\* An address has no more codes than there are requests at once, however many were
\* asked for, guessed at, expired or given up half-way.
THEOREM CodesDoReplace == Spec => []CodesAreReplaced
<1>1. Init => CodesInv
  BY CodesInitOK
<1>2. AccountsInv /\ CodesInv /\ [Next]_vars => CodesInv'
  BY CodesInvStep
<1>3. CodesInv => CodesAreReplaced
  <2>. SUFFICES ASSUME CodesInv, NEW e \in Emails
                PROVE  Cardinality(CodesOf(e)) <= Cardinality(Requests)
    BY DEF CodesAreReplaced
  <2>1. IsFiniteSet(Adders(e))
    BY AccountsAssumption, FS_Subset DEF Adders
  <2>2. /\ Cardinality(Adders(e)) \in Nat /\ Cardinality(Requests) \in Nat
        /\ Cardinality(CodesOf(e)) \in Nat
    BY <2>1, AccountsAssumption, FS_CardinalityType DEF CodesInv
  <2>. QED
    BY <2>2 DEF CodesInv
<1>. QED
  BY <1>1, <1>2, <1>3, AccountsInvariant, PTL DEF Spec

\* Who asked for a code and deleted the old ones finds none when it adds its own.
LEMMA LoneInvStep ==
  ASSUME AccountsInv, LoneInv, CodeRequestsApart, [Next]_vars
  PROVE  LoneInv'
<1>0. \A e \in Emails, x \in Requests :
         areq[x].pc = "addCode" /\ areq[x].email = e => CodesOf(e) = {}
  BY DEF LoneInv
<1>1. CASE \A r \in Requests : ~DropCodes(r) /\ ~AddCode(r)
  <2>1. \A e \in Emails : CodesOf(e)' \subseteq CodesOf(e)
    BY <1>1, OtherStepsShrink
  <2>2. \A x \in Requests : areq'[x].pc = "addCode" =>
           areq'[x] = areq[x] /\ areq[x].email \in Emails
    BY <1>1, OtherStepsAddNothing, Running DEF HandlerFits
  <2>. QED
    BY <2>1, <2>2 DEF LoneInv
<1>2. ASSUME NEW r \in Requests, DropCodes(r) PROVE LoneInv'
  <2>1. \A e \in Emails : CodesOf(e)' = {} \/ CodesOf(e)' = CodesOf(e)
    BY <1>2, DropEffect
  <2>2. \A x \in Requests : areq'[x].pc = "addCode" =>
           /\ areq'[x].op = "code" /\ areq'[x].email \in Emails
           /\ x # r => areq'[x] = areq[x]
           /\ x = r => areq'[x].email = areq[r].email
    <3>1. areq[r].email \in Emails
      BY <1>2, Running DEF HandlerFits, DropCodes
    <3>2. /\ \A x \in Requests \ {r} : areq'[x] = areq[x]
          /\ areq'[r].pc = "addCode" =>
                areq'[r].op = "code" /\ areq'[r].email = areq[r].email
      BY <1>2, <3>1, DropEffect
    <3>3. \A x \in Requests : areq[x].pc = "addCode" =>
             areq[x].op = "code" /\ areq[x].email \in Emails
      BY Running DEF HandlerFits, LoneInv
    <3>. QED
      BY <3>1, <3>2, <3>3
  <2>3. \A e \in Emails : e = areq[r].email => CodesOf(e)' = {}
    BY <1>2, DropEffect
  <2>. QED
    BY <1>0, <2>1, <2>2, <2>3 DEF LoneInv
<1>3. ASSUME NEW r \in Requests, AddCode(r) PROVE LoneInv'
  <2>1. \A e \in Emails : /\ e = areq[r].email => \E c \in CodeIds : CodesOf(e)' = {c}
                          /\ e # areq[r].email => CodesOf(e)' = CodesOf(e)
    BY <1>0, <1>3, AddEffect
  <2>2. \A x \in Requests : areq'[x].pc = "addCode" =>
           /\ x # r /\ areq'[x] = areq[x] /\ areq[x].email \in Emails
           /\ areq[x].op = "code" /\ areq[x].email # areq[r].email
    <3>1. areq[r].email \in Emails /\ areq[r].pc = "addCode" /\ areq[r].op = "code"
      BY <1>3, Running DEF HandlerFits, AddCode, LoneInv
    <3>2. areq'[r].pc # "addCode" /\ \A x \in Requests \ {r} : areq'[x] = areq[x]
      BY <1>3, <3>1, AddEffect
    <3>3. \A x \in Requests : areq[x].pc = "addCode" =>
             areq[x].op = "code" /\ areq[x].email \in Emails
      BY Running DEF HandlerFits, LoneInv
    <3>. QED
      BY <3>1, <3>2, <3>3 DEF CodeRequestsApart
  <2>. QED
    BY <1>0, <2>1, <2>2 DEF LoneInv
<1>. QED
  BY <1>1, <1>2, <1>3

\* While no two requests ask for a code for one address at once, it has one code at
\* most: the replacement does what its comment says, wherever handlers end and
\* whatever sign-ins, guesses and expiries come between.
THEOREM OneCodeWhenApart == Spec /\ []CodeRequestsApart => []OneActiveCode
<1>1. Init => LoneInv
  BY CodesInitOK
<1>2. AccountsInv /\ LoneInv /\ CodeRequestsApart /\ [Next]_vars => LoneInv'
  BY LoneInvStep
<1>3. LoneInv => OneActiveCode
  <2>1. \A c \in CodeIds : Cardinality({c}) = 1
    BY FS_Singleton
  <2>2. Cardinality({}) = 0
    BY FS_EmptySet
  <2>. QED
    BY <2>1, <2>2 DEF LoneInv, OneActiveCode
<1>. QED
  BY <1>1, <1>2, <1>3, AccountsInvariant, PTL DEF Spec

=============================================================================
