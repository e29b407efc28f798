----------------------------- MODULE Onboarding -----------------------------
(***************************************************************************)
(* A business and the link its owner's account keeps to it: two rows that  *)
(* no transaction and no foreign key ties together -- BusinessService and  *)
(* UserServiceV2.setBusinessId over their repositories.                    *)
(*                                                                         *)
(* An action is one round trip; one that fails leaves the rows alone.      *)
(*                                                                         *)
(* Left out: the profile of a business (its logo is a holder in Images),   *)
(* reads, and the removal of an owner's row.                               *)
(***************************************************************************)
EXTENDS FiniteSets

CONSTANTS
    Owners, NoOwner,         \* accounts, and the owner of a row that is not there
    Businesses, NoBusiness,  \* ids the database hands out, and the absence of one
    Desks                    \* concurrently running handlers

ASSUME OnboardingAssumption ==
    /\ NoOwner \notin Owners
    /\ NoBusiness \notin Businesses

VARIABLES
    business,  \* table businesses: the owner of each row
    owner,     \* table users: businessId and deleted
    desk,      \* the running handlers
    strays     \* history: businesses whose link went wrong in a known way

onboardingVars == <<business, owner, desk, strays>>

-----------------------------------------------------------------------------
NewOwner == [link |-> NoBusiness, deleted |-> FALSE]

Vacated == [pc |-> "idle", op |-> "none", owner |-> NoOwner, business |-> NoBusiness]

\* The handler d goes on at pc.
Proceed(d, pc) == desk' = [desk EXCEPT ![d].pc = pc]

Leave(d) == desk' = [desk EXCEPT ![d] = Vacated]

\* A handler that created its business takes it back when the link fails; one
\* that was asked to attach a business only fails.
LinkFails(d) == IF desk[d].op = "create" THEN Proceed(d, "undo") ELSE Leave(d)

\* create: the business is inserted first, whatever the owner already has.
CreateBusiness(d, o) ==
    /\ desk[d].pc = "idle"
    /\ \E b \in Businesses :
          /\ business[b] = NoOwner
          /\ b \notin strays
          /\ \A e \in Desks : desk[e].business # b
          /\ business' = [business EXCEPT ![b] = o]
          /\ desk' = [desk EXCEPT ![d] = [pc |-> "link", op |-> "create",
                                          owner |-> o, business |-> b]]
    /\ UNCHANGED <<owner, strays>>

\* PATCH /users/:id/business takes any id.  Here it is one of the caller's own,
\* sent while nothing else of the caller's is running.
AttachBusiness(d, o, b) ==
    /\ desk[d].pc = "idle"
    /\ business[b] = o
    /\ \A e \in Desks : desk[e].owner # o
    /\ desk' = [desk EXCEPT ![d] = [pc |-> "link", op |-> "attach",
                                    owner |-> o, business |-> b]]
    /\ UNCHANGED <<business, owner, strays>>

\* setBusinessId: the owner is read and must be active and have none.
SetBusinessId(d) ==
    LET row == owner[desk[d].owner]
    IN  /\ desk[d].pc = "link"
        /\ IF row.deleted \/ row.link # NoBusiness
           THEN LinkFails(d)
           ELSE Proceed(d, "save")
        /\ UNCHANGED <<business, owner, strays>>

\* ... and is written later, over a link another handler made meanwhile.
SaveLink(d) ==
    LET o == desk[d].owner
    IN  /\ desk[d].pc = "save"
        /\ strays' = (strays \cup ({owner[o].link} \ {NoBusiness}))
                        \ {desk[d].business}
        /\ owner' = [owner EXCEPT ![o].link = desk[d].business]
        /\ Leave(d)
        /\ UNCHANGED business

\* Either round trip of the link may fail: both are inside the `try`.
LinkErrs(d) ==
    /\ desk[d].pc \in {"link", "save"}
    /\ LinkFails(d)
    /\ UNCHANGED <<business, owner, strays>>

\* Mutant: the owner's businesses are removed, not the one just created.
RollBackByOwner(d) ==
    /\ desk[d].pc = "undo"
    /\ business' = [b \in Businesses |->
                       IF business[b] = desk[d].owner THEN NoOwner ELSE business[b]]
    /\ Leave(d)
    /\ UNCHANGED <<owner, strays>>

RollBack(d) ==
    /\ desk[d].pc = "undo"
    /\ business' = [business EXCEPT ![desk[d].business] = NoOwner]
    /\ Leave(d)
    /\ UNCHANGED <<owner, strays>>

\* The process dies, or the compensating delete fails: nothing tries again.
DeskEnds(d) ==
    /\ desk[d].pc # "idle"
    /\ strays' = strays \cup (IF desk[d].op = "create" THEN {desk[d].business} ELSE {})
    /\ Leave(d)
    /\ UNCHANGED <<business, owner>>

\* Deletion of the account and its reactivation (see Accounts).
DeleteOwner(o) ==
    /\ owner' = [owner EXCEPT ![o].deleted = ~@]
    /\ UNCHANGED <<business, desk, strays>>

-----------------------------------------------------------------------------
OnboardingInit ==
    /\ business = [b \in Businesses |-> NoOwner]
    /\ owner = [o \in Owners |-> NewOwner]
    /\ desk = [d \in Desks |-> Vacated]
    /\ strays = {}

OnboardingNext ==
    \/ \E d \in Desks :
          \/ \E o \in Owners : CreateBusiness(d, o)
          \/ \E o \in Owners, b \in Businesses : AttachBusiness(d, o, b)
          \/ SetBusinessId(d)
          \/ SaveLink(d)
          \/ LinkErrs(d)
          \/ RollBack(d)
          \/ DeskEnds(d)
    \/ \E o \in Owners : DeleteOwner(o)

OnboardingSpec == OnboardingInit /\ [][OnboardingNext]_onboardingVars

-----------------------------------------------------------------------------
(* Properties *)

\* The values the variables take.
OnboardingTypeOK ==
    /\ business \in [Businesses -> Owners \cup {NoOwner}]
    /\ owner \in [Owners -> [link : Businesses \cup {NoBusiness}, deleted : BOOLEAN]]
    /\ desk \in [Desks -> [pc : {"idle", "link", "save", "undo"},
                           op : {"none", "create", "attach"},
                           owner : Owners \cup {NoOwner},
                           business : Businesses \cup {NoBusiness}]]
    /\ strays \subseteq Businesses

\* The business an account names is there and is its own, through overlapping
\* creations, links that fail and rollbacks: a rollback never takes back a
\* business somebody was linked to (create's catch block).
LinkedBusinessExists ==
    \A o \in Owners : owner[o].link # NoBusiness => business[owner[o].link] = o

\* "The just-created business is rolled back so no orphan is left behind": a
\* business its owner's account does not name is still being linked, or its
\* handler died or could not take it back, or the link of an overlapping creation
\* replaced it.  A link that is refused or fails leaves none (create).
NoOrphanIsLeft ==
    \A b \in Businesses \ strays :
        business[b] # NoOwner =>
            \/ owner[business[b]].link = b
            \/ \E d \in Desks : desk[d].business = b

\* Accounts and businesses name each other: no link leads nowhere, no business is
\* left that nobody can reach (BusinessService.create, setBusinessId).
BusinessesAreOwned == LinkedBusinessExists /\ NoOrphanIsLeft

=============================================================================
