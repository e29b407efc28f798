----------------------------- MODULE Customers ------------------------------
(***************************************************************************)
(* The customers of one business: created one by one or imported in        *)
(* batches, edited and deleted -- CustomerService over                     *)
(* PostgresCustomerRepository.  No column is unique: what keeps an address *)
(* from appearing twice is a count before each write.                      *)
(*                                                                         *)
(* An action is one round trip, and handlers overlap.  An email is an      *)
(* address in one of its spellings; only the count ignores the spelling.   *)
(*                                                                         *)
(* Left out: names, phones and notes, lists (see Listing), and the other   *)
(* businesses, whose rows no query here sees.                              *)
(***************************************************************************)
EXTENDS Integers, Sequences, FiniteSets

CONSTANTS
    People,                \* ids the database hands out
    Addresses, Spellings,
    NoAddress, Absent,     \* a customer without email, and a row that is not there
    Clerks,                \* concurrently running handlers
    MaxBatch               \* bound: rows of an import (a shorter one does no more)

CustomerEmails == Addresses \X Spellings

ASSUME CustomersAssumption ==
    /\ NoAddress \notin CustomerEmails /\ Absent \notin CustomerEmails /\ NoAddress # Absent
    /\ MaxBatch \in Nat \ {0}

VARIABLES
    customer,  \* table customers: the email of each row
    clerk,     \* the running handlers
    raced,     \* history: addresses two handlers were about to write at once
    seen       \* history: addresses some customer has had

customerVars == <<customer, clerk, raced, seen>>

-----------------------------------------------------------------------------
Folded(e) == IF e \in CustomerEmails THEN {e[1]} ELSE {}

NoReport == [created |-> {}, skipped |-> {}, failed |-> {}]

OffDuty == [pc |-> "idle", op |-> "none", id |-> {}, email |-> NoAddress,
            loaded |-> NoAddress, batch |-> <<>>, index |-> 0, report |-> NoReport]

Do(c, q) == clerk' = [clerk EXCEPT ![c] = q]

\* Mutant: the count compares spellings.
EmailExistsAsSpelt(e) == \E p \in People : customer[p] = e

\* emailExists: a count of the rows whose email is this one in any spelling.
EmailExists(e) ==
    \E p \in People : customer[p] \in CustomerEmails /\ Folded(customer[p]) = Folded(e)

\* The handler c is about to write e: notes who else is about to write its address.
Claim(c, e) ==
    raced' = raced \cup {a \in Folded(e) :
                \E d \in Clerks \ {c} : /\ clerk[d].pc \in {"insert", "reread", "flush"}
                                        /\ a \in Folded(clerk[d].email)}

-----------------------------------------------------------------------------
(* Creating one *)

\* Without an email nothing is counted.
CreateCustomer(c, e) ==
    /\ clerk[c].pc = "idle"
    /\ Do(c, [OffDuty EXCEPT !.op = "create", !.email = e,
                             !.pc = IF e = NoAddress THEN "insert" ELSE "count"])
    /\ UNCHANGED <<customer, raced, seen>>

\* What a handler does with a taken address: an import skips the row, the other
\* handlers answer 409.
Taken(q) ==
    IF q.op = "import"
    THEN [q EXCEPT !.pc = "row", !.report.skipped = @ \cup {q.index}]
    ELSE OffDuty

\* ... and with a free one.
Free(q) == [q EXCEPT !.pc = IF q.op = "update" THEN "reread" ELSE "insert"]

CountEmail(c) ==
    LET q == clerk[c]
    IN  /\ q.pc = "count"
        /\ IF EmailExists(q.email)
           THEN Do(c, Taken(q)) /\ UNCHANGED raced
           ELSE Do(c, Free(q)) /\ Claim(c, q.email)
        /\ UNCHANGED <<customer, seen>>

Insert(c) ==
    LET q == clerk[c]
    IN  /\ q.pc = "insert"
        /\ \E p \in People :
              /\ customer[p] = Absent
              /\ \A d \in Clerks : p \notin clerk[d].id
              /\ customer' = [customer EXCEPT ![p] = q.email]
        /\ Do(c, IF q.op = "import"
                 THEN [q EXCEPT !.pc = "row", !.report.created = @ \cup {q.index}]
                 ELSE OffDuty)
        /\ seen' = seen \cup Folded(q.email)
        /\ UNCHANGED raced

-----------------------------------------------------------------------------
(* Importing a batch *)

BulkCreate(c, batch) ==
    /\ clerk[c].pc = "idle"
    /\ Do(c, [OffDuty EXCEPT !.op = "import", !.pc = "row", !.batch = batch])
    /\ UNCHANGED <<customer, raced, seen>>

\* The address of row i was in the batch before.
IsBatchDuplicate(batch, i) ==
    \E j \in 1 .. i - 1 : Folded(batch[i]) # {} /\ Folded(batch[j]) = Folded(batch[i])

\* The next row: skipped, inserted as it is, or counted first.
NextRow(c) ==
    LET q == clerk[c]
        i == q.index + 1
        e == q.batch[i]
        k == [q EXCEPT !.index = i, !.email = e]
    IN  /\ q.pc = "row"
        /\ i <= Len(q.batch)
        /\ Do(c, IF IsBatchDuplicate(q.batch, i) THEN Taken(k)
                 ELSE [k EXCEPT !.pc = IF e = NoAddress THEN "insert" ELSE "count"])
        /\ UNCHANGED <<customer, raced, seen>>

\* Mutant: a row that cannot be counted or written is reported as a duplicate.
RowSkipped(c) ==
    LET q == clerk[c]
    IN  /\ q.op = "import"
        /\ q.pc \in {"count", "insert"}
        /\ Do(c, Taken(q))
        /\ UNCHANGED <<customer, raced, seen>>

\* A count or an insert that fails is reported, and the import goes on.
RowFails(c) ==
    LET q == clerk[c]
    IN  /\ q.op = "import"
        /\ q.pc \in {"count", "insert"}
        /\ Do(c, [q EXCEPT !.pc = "row", !.report.failed = @ \cup {q.index}])
        /\ UNCHANGED <<customer, raced, seen>>

ReportImport(c) ==
    /\ clerk[c].pc = "row"
    /\ clerk[c].index = Len(clerk[c].batch)
    /\ Do(c, OffDuty)
    /\ UNCHANGED <<customer, raced, seen>>

-----------------------------------------------------------------------------
(* Editing and deleting *)

\* The email it has, in the same spelling, is not counted.
UpdateCustomer(c, p, e) ==
    /\ clerk[c].pc = "idle"
    /\ customer[p] # Absent
    /\ LET counted == e # NoAddress /\ e # customer[p]
       IN  /\ Do(c, [OffDuty EXCEPT !.op = "update", !.id = {p}, !.email = e,
                                    !.pc = IF counted THEN "count" ELSE "reread"])
           /\ IF counted THEN UNCHANGED raced ELSE Claim(c, e)
    /\ UNCHANGED <<customer, seen>>

\* The repository reads the row again ...
Reread(c) ==
    LET q == clerk[c]
    IN  /\ q.pc = "reread"
        /\ \E p \in q.id :
              Do(c, IF customer[p] = Absent THEN OffDuty
                    ELSE [q EXCEPT !.pc = "flush", !.loaded = customer[p]])
        /\ UNCHANGED <<customer, raced, seen>>

\* ... and writes the email if it differs from that.
SaveCustomer(c) ==
    LET q == clerk[c]
    IN  /\ q.pc = "flush"
        /\ \E p \in q.id :
              IF customer[p] = Absent \/ q.email = q.loaded
              THEN UNCHANGED <<customer, seen>>
              ELSE /\ customer' = [customer EXCEPT ![p] = q.email]
                   /\ seen' = seen \cup Folded(q.email)
        /\ Do(c, OffDuty)
        /\ UNCHANGED raced

DeleteCustomer(p) ==
    /\ customer[p] # Absent
    /\ customer' = [customer EXCEPT ![p] = Absent]
    /\ UNCHANGED <<clerk, raced, seen>>

\* The handler ends at an await; what an import inserted stays.
ClerkEnds(c) ==
    /\ clerk[c].pc # "idle"
    /\ Do(c, OffDuty)
    /\ UNCHANGED <<customer, raced, seen>>

-----------------------------------------------------------------------------
CustomerInit ==
    /\ customer = [p \in People |-> Absent]
    /\ clerk = [c \in Clerks |-> OffDuty]
    /\ raced = {}
    /\ seen = {}

Batches == [1 .. MaxBatch -> CustomerEmails \cup {NoAddress}]

CustomerNext ==
    \/ \E c \in Clerks :
          \/ \E e \in CustomerEmails \cup {NoAddress} : CreateCustomer(c, e)
          \/ \E batch \in Batches : BulkCreate(c, batch)
          \/ \E p \in People, e \in CustomerEmails \cup {NoAddress} :
                UpdateCustomer(c, p, e)
          \/ CountEmail(c)
          \/ Insert(c)
          \/ NextRow(c)
          \/ RowFails(c)
          \/ ReportImport(c)
          \/ Reread(c)
          \/ SaveCustomer(c)
          \/ ClerkEnds(c)
    \/ \E p \in People : DeleteCustomer(p)

CustomerSpec == CustomerInit /\ [][CustomerNext]_customerVars

-----------------------------------------------------------------------------
(* Properties *)

\* The values the variables take.
CustomerTypeOK ==
    /\ customer \in [People -> CustomerEmails \cup {NoAddress, Absent}]
    /\ \A c \in Clerks :
          /\ clerk[c].pc \in {"idle", "count", "insert", "row", "reread", "flush"}
          /\ clerk[c].op \in {"none", "create", "import", "update"}
          /\ clerk[c].id \subseteq People
          /\ clerk[c].email \in CustomerEmails \cup {NoAddress}
          /\ clerk[c].index \in 0 .. Len(clerk[c].batch)
    /\ raced \subseteq Addresses
    /\ seen \subseteq Addresses

\* Two customers of a business have one address only if two handlers were about
\* to write it at once: no sequence of creations, imports, edits and deletions,
\* in any spelling and with handlers that fail half-way, makes a duplicate
\* (create, bulkCreate, update).
NoDuplicateAddresses ==
    \A p, q \in People :
        /\ p # q
        /\ customer[p] \in CustomerEmails
        /\ customer[q] \in CustomerEmails
        /\ Folded(customer[p]) = Folded(customer[q])
        => Folded(customer[p]) \subseteq raced

\* The report of an import tells what became of each row so far: every row is in
\* one list, an address is created once, and a row is skipped only for an address
\* some customer had or that an earlier row of the batch failed on (bulkCreate).
ImportReportIsTrue ==
    \A c \in Clerks :
        LET q == clerk[c]
            r == q.report
            settled == IF q.pc = "row" THEN q.index ELSE q.index - 1
        IN  q.op = "import" =>
              /\ r.created \cup r.skipped \cup r.failed = 1 .. settled
              /\ r.created \cap r.skipped = {}
              /\ (r.created \cup r.skipped) \cap r.failed = {}
              /\ \A i \in r.created : ~IsBatchDuplicate(q.batch, i)
              /\ \A i \in r.skipped :
                    \/ Folded(q.batch[i]) \subseteq seen
                    \/ \E j \in r.failed : j < i /\ Folded(q.batch[j]) = Folded(q.batch[i])

=============================================================================
