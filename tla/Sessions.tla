------------------------------ MODULE Sessions ------------------------------
(***************************************************************************)
(* Sessions: the one refresh token a member holds, its rotation and its    *)
(* revocation, and the password beside it in the same row -- AuthService,  *)
(* the refresh strategy and UserServiceV2 over PostgresUserRepository.     *)
(*                                                                         *)
(* An action is one round trip: a handler that loaded the row keeps it in  *)
(* its entity manager, checks what it loaded and writes later.  A token is *)
(* an id (its jti), a hash is what it was made from.                       *)
(*                                                                         *)
(* Left out: expiry (it only takes tokens away), the access token (it is   *)
(* not stored and cannot be revoked) and reactivation (see Accounts).      *)
(***************************************************************************)
EXTENDS FiniteSets

CONSTANTS
    Members,                  \* the accounts; they are not removed here
    Tokens, NoToken,          \* refresh tokens, and the absence of one
    Passwords, NoPassword,
    Calls                     \* concurrently running handlers

ASSUME SessionsAssumption ==
    /\ NoToken \notin Tokens
    /\ NoPassword \notin Passwords

VARIABLES
    secret,   \* table users, its columns hashedRefreshToken and password
    bearer,   \* <<token, member>>: the tokens handed out so far
    call,     \* the running handlers
    retired   \* history: tokens that were replaced or revoked

sessionVars == <<secret, bearer, call, retired>>

-----------------------------------------------------------------------------
(* Rows and handlers *)

NoSecret == [refresh |-> NoToken, password |-> NoPassword]

NoCall == [pc |-> "idle", member |-> {}, loaded |-> NoSecret]

\* Mutant: a flush writes the row as it was loaded.
WholeRow(row, loaded, patch) == patch

\* A flush writes the columns that differ from the row the handler loaded.
Columns(row, loaded, patch) ==
    [refresh  |-> IF patch.refresh # loaded.refresh
                  THEN patch.refresh ELSE row.refresh,
     password |-> IF patch.password # loaded.password
                  THEN patch.password ELSE row.password]

\* A caller with an access token, which outlives every revocation.
Authenticated(m) == \E t \in Tokens : <<t, m>> \in bearer

\* A handler loads the row of m, to go on at pc.
LoadSecret(c, m, pc) ==
    /\ call[c].pc = "idle"
    /\ call' = [call EXCEPT ![c] = [pc |-> pc, member |-> {m},
                                    loaded |-> secret[m]]]

\* The handler c writes its patch and ends.
SaveSecret(c, m, patch) ==
    LET row == Columns(secret[m], call[c].loaded, patch)
    IN  /\ secret' = [secret EXCEPT ![m] = row]
        /\ retired' = retired \cup ({secret[m].refresh} \ {NoToken, row.refresh})
        /\ call' = [call EXCEPT ![c] = NoCall]

-----------------------------------------------------------------------------
(* Signing in, refreshing, logging out *)

SignInByPassword(c, m, p) ==
    /\ secret[m].password = p
    /\ p # NoPassword
    /\ LoadSecret(c, m, "issue")
    /\ UNCHANGED <<secret, bearer, retired>>

\* By a code, Google or Apple: what decides is not in these columns.
SignInOtherwise(c, m) ==
    /\ LoadSecret(c, m, "issue")
    /\ UNCHANGED <<secret, bearer, retired>>

\* The strategy compares the presented token with the stored hash.
Refresh(c, t, m) ==
    /\ <<t, m>> \in bearer
    /\ secret[m].refresh = t
    /\ LoadSecret(c, m, "issue")
    /\ UNCHANGED <<secret, bearer, retired>>

\* issueTokens: a token nobody had, stored and handed out.
IssueTokens(c, t) ==
    \E m \in call[c].member :
        /\ call[c].pc = "issue"
        /\ \A n \in Members : <<t, n>> \notin bearer
        /\ SaveSecret(c, m, [call[c].loaded EXCEPT !.refresh = t])
        /\ bearer' = bearer \cup {<<t, m>>}

Logout(c, m) ==
    /\ Authenticated(m)
    /\ LoadSecret(c, m, "clear")
    /\ UNCHANGED <<secret, bearer, retired>>

ClearRefreshToken(c) ==
    \E m \in call[c].member :
        /\ call[c].pc = "clear"
        /\ SaveSecret(c, m, [call[c].loaded EXCEPT !.refresh = NoToken])
        /\ UNCHANGED bearer

-----------------------------------------------------------------------------
(* Passwords.  The new hash differs from the loaded one even when the       *)
(* password does not: writing it again changes nothing.                     *)

CreatePassword(c, m) ==
    /\ Authenticated(m)
    /\ secret[m].password = NoPassword
    /\ LoadSecret(c, m, "password")
    /\ UNCHANGED <<secret, bearer, retired>>

UpdatePassword(c, m, old) ==
    /\ Authenticated(m)
    /\ old # NoPassword
    /\ secret[m].password = old
    /\ LoadSecret(c, m, "password")
    /\ UNCHANGED <<secret, bearer, retired>>

SavePassword(c, p) ==
    \E m \in call[c].member :
        /\ call[c].pc = "password"
        /\ SaveSecret(c, m, [call[c].loaded EXCEPT !.password = p])
        /\ UNCHANGED bearer

\* Names and the rest of the profile: other columns of the same row.
UpdateProfile(c, m) ==
    /\ Authenticated(m)
    /\ LoadSecret(c, m, "profile")
    /\ UNCHANGED <<secret, bearer, retired>>

SaveProfile(c) ==
    \E m \in call[c].member :
        /\ call[c].pc = "profile"
        /\ SaveSecret(c, m, call[c].loaded)
        /\ UNCHANGED bearer

\* The handler ends at an await: the process died or the database answered with
\* an error.
CallEnds(c) ==
    /\ call[c].pc # "idle"
    /\ call' = [call EXCEPT ![c] = NoCall]
    /\ UNCHANGED <<secret, bearer, retired>>

-----------------------------------------------------------------------------
SessionInit ==
    /\ secret = [m \in Members |-> NoSecret]
    /\ bearer = {}
    /\ call = [c \in Calls |-> NoCall]
    /\ retired = {}

SessionNext ==
    \E c \in Calls :
        \/ \E m \in Members, p \in Passwords : SignInByPassword(c, m, p)
        \/ \E m \in Members : SignInOtherwise(c, m)
        \/ \E t \in Tokens, m \in Members : Refresh(c, t, m)
        \/ \E t \in Tokens : IssueTokens(c, t)
        \/ \E m \in Members : Logout(c, m)
        \/ ClearRefreshToken(c)
        \/ \E m \in Members : CreatePassword(c, m)
        \/ \E m \in Members, p \in Passwords : UpdatePassword(c, m, p)
        \/ \E p \in Passwords : SavePassword(c, p)
        \/ \E m \in Members : UpdateProfile(c, m)
        \/ SaveProfile(c)
        \/ CallEnds(c)

SessionSpec == SessionInit /\ [][SessionNext]_sessionVars

-----------------------------------------------------------------------------
(* Properties *)

Secret == [refresh : Tokens \cup {NoToken}, password : Passwords \cup {NoPassword}]

\* The values the variables take.
SessionTypeOK ==
    /\ secret \in [Members -> Secret]
    /\ bearer \subseteq Tokens \X Members
    /\ call \in [Calls -> [pc : {"idle", "issue", "clear", "password", "profile"},
                           member : SUBSET Members, loaded : Secret]]
    /\ retired \subseteq Tokens

\* A refresh token that was replaced or revoked is never accepted again:
\* whatever overlaps -- a password or a profile saved from a row that was loaded
\* before a logout, a refresh that was checked before another one rotated the token -- it
\* never comes back into the column (issueTokens, logout).
RetiredTokensStayOut ==
    \A m \in Members : secret[m].refresh \notin retired

=============================================================================
