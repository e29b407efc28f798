------------------------------ MODULE Seeding -------------------------------
(***************************************************************************)
(* The script scripts/seed-test-accounts.ts: for each test tenant it wipes *)
(* what an earlier run left, found through the tenant's user, and inserts  *)
(* a user, a business and what belongs to it.  There is no transaction: a  *)
(* run may stop between any two statements, and is then run again.         *)
(* Between the runs the tenants are used.                                  *)
(*                                                                         *)
(* A tenant's rows are known by the run that made their business.  Left    *)
(* out: the rows' contents, and one statement per row (a run stops between *)
(* tables here, which leaves no less behind than one that stops inside).   *)
(***************************************************************************)
EXTENDS Integers, Sequences

CONSTANTS
    Tenants,   \* the sequence of the test tenants
    MaxSeeds   \* bound: how often the script is run

TenantSet == {Tenants[i] : i \in 1 .. Len(Tenants)}

\* No two tenants have one email.
ASSUME SeedingAssumption ==
    /\ Tenants \in Seq(TenantSet)
    /\ \A i, j \in 1 .. Len(Tenants) : i # j => Tenants[i] # Tenants[j]
    /\ Tenants # <<>>
    /\ MaxSeeds \in Nat

VARIABLES
    tenant,   \* table users: the runs of this tenant's users (one at most)
    left,     \* the other tables: for each tenant, the runs that have rows there
    seed,     \* the script
    seeds     \* the number of the current or last run

seedingVars == <<tenant, left, seed, seeds>>

-----------------------------------------------------------------------------
\* The tables in the order they are wiped, before the business and the user.
WipeOrder == <<"invoices", "orders", "stock_adjustments", "resources", "customers",
               "businesses">>

\* The tables in the order they are filled, after the user.
SeedOrder == <<"businesses", "customers", "resources", "orders", "invoices">>

Tables == {WipeOrder[i] : i \in 1 .. Len(WipeOrder)}

NoSeed == [pc |-> "idle", who |-> 1, at |-> 1, found |-> {}]

Who == Tenants[seed.who]

StartSeed ==
    /\ seed.pc = "idle"
    /\ seeds < MaxSeeds
    /\ seeds' = seeds + 1
    /\ seed' = [NoSeed EXCEPT !.pc = "find"]
    /\ UNCHANGED <<tenant, left>>

\* Mutant: the users go before what belongs to them.
FindAndWipeUser ==
    /\ seed.pc = "find"
    /\ seed' = [seed EXCEPT !.pc = IF tenant[Who] = {} THEN "user" ELSE "wipe",
                            !.at = 1, !.found = tenant[Who]]
    /\ tenant' = [tenant EXCEPT ![Who] = {}]
    /\ UNCHANGED <<left, seeds>>

\* The users with the tenant's email, and their businesses.
FindTenant ==
    /\ seed.pc = "find"
    /\ seed' = [seed EXCEPT !.pc = IF tenant[Who] = {} THEN "user" ELSE "wipe",
                            !.at = 1, !.found = tenant[Who]]
    /\ UNCHANGED <<tenant, left, seeds>>

\* A table of the businesses found; then the users.
WipeTable ==
    LET table == WipeOrder[seed.at]
    IN  /\ seed.pc = "wipe"
        /\ left' = [left EXCEPT ![table][Who] = @ \ seed.found]
        /\ seed' = IF seed.at < Len(WipeOrder) THEN [seed EXCEPT !.at = @ + 1]
                   ELSE [seed EXCEPT !.pc = "wipeUser", !.at = 1]
        /\ UNCHANGED <<tenant, seeds>>

WipeUser ==
    /\ seed.pc = "wipeUser"
    /\ tenant' = [tenant EXCEPT ![Who] = @ \ seed.found]
    /\ seed' = [seed EXCEPT !.pc = "user"]
    /\ UNCHANGED <<left, seeds>>

\* The email is unique.
InsertTenant ==
    /\ seed.pc = "user"
    /\ tenant[Who] = {}
    /\ tenant' = [tenant EXCEPT ![Who] = {seeds}]
    /\ seed' = [seed EXCEPT !.pc = "fill", !.at = 1]
    /\ UNCHANGED <<left, seeds>>

\* After the last table the order is linked to its invoice, and the next tenant
\* has its turn.
FillTable ==
    LET table == SeedOrder[seed.at]
    IN  /\ seed.pc = "fill"
        /\ left' = [left EXCEPT ![table][Who] = @ \cup {seeds}]
        /\ seed' = IF seed.at < Len(SeedOrder) THEN [seed EXCEPT !.at = @ + 1]
                   ELSE IF seed.who < Len(Tenants)
                   THEN [NoSeed EXCEPT !.pc = "find", !.who = seed.who + 1]
                   ELSE [seed EXCEPT !.pc = "done"]
        /\ UNCHANGED <<tenant, seeds>>

CloseSeed ==
    /\ seed.pc = "done"
    /\ seed' = NoSeed
    /\ UNCHANGED <<tenant, left, seeds>>

\* The script stops: a statement failed, or it was interrupted.
SeedStops ==
    /\ seed.pc \notin {"idle", "done"}
    /\ seed' = NoSeed
    /\ UNCHANGED <<tenant, left, seeds>>

\* Someone signs in as the tenant and moves stock, sells and bills.
UseTenant(t, table) ==
    /\ seed.pc = "idle"
    /\ \E k \in tenant[t] :
          /\ k \in left["businesses"][t]
          /\ left' = [left EXCEPT ![table][t] = @ \cup {k}]
    /\ UNCHANGED <<tenant, seed, seeds>>

\* The script is not run again.
Seeded ==
    /\ seed.pc = "idle" /\ seeds = MaxSeeds
    /\ UNCHANGED seedingVars

-----------------------------------------------------------------------------
SeedingInit ==
    /\ tenant = [t \in TenantSet |-> {}]
    /\ left = [table \in Tables |-> [t \in TenantSet |-> {}]]
    /\ seed = NoSeed
    /\ seeds = 0

SeedingNext ==
    \/ StartSeed
    \/ FindTenant
    \/ WipeTable
    \/ WipeUser
    \/ InsertTenant
    \/ FillTable
    \/ CloseSeed
    \/ SeedStops
    \/ \E t \in TenantSet, table \in Tables : UseTenant(t, table)
    \/ Seeded

SeedingSpec == SeedingInit /\ [][SeedingNext]_seedingVars

-----------------------------------------------------------------------------
(* Properties *)

\* The values the variables take.
SeedingTypeOK ==
    /\ tenant \in [TenantSet -> SUBSET (1 .. MaxSeeds)]
    /\ left \in [Tables -> [TenantSet -> SUBSET (1 .. MaxSeeds)]]
    /\ seed.pc \in {"idle", "find", "wipe", "wipeUser", "user", "fill", "done"}
    /\ seed.who \in 1 .. Len(Tenants) /\ seed.found \subseteq 1 .. MaxSeeds
    /\ seeds \in 0 .. MaxSeeds

\* "Idempotent: re-running wipes the two test tenants": wherever a run stopped,
\* every row of a tenant's tables is found through the tenant's user, so that the
\* next run can wipe it, and a run that ends leaves its own rows only (wipe,
\* seedTenant).
SeedingIsRepeatable ==
    /\ \A t \in TenantSet, table \in Tables : left[table][t] \subseteq tenant[t]
    /\ seed.pc = "done" =>
          \A t \in TenantSet :
              /\ tenant[t] = {seeds}
              /\ \A i \in 1 .. Len(SeedOrder) : left[SeedOrder[i]][t] = {seeds}

=============================================================================
