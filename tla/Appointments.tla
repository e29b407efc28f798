---------------------------- MODULE Appointments ----------------------------
(***************************************************************************)
(* The appointments of one business: booked, moved, invited to, marked and *)
(* deleted -- AppointmentService over PostgresAppointmentRepository.       *)
(*                                                                         *)
(* An action is one round trip, and handlers overlap.  The repository      *)
(* reads the row again before it writes, and writes the columns that then  *)
(* differ.                                                                 *)
(*                                                                         *)
(* Left out: title, notes, location, invitees, recurrence (columns written *)
(* as they are sent), and the invitees that are not customers.             *)
(***************************************************************************)
EXTENDS Integers, FiniteSets

CONSTANTS
    Slots,     \* ids the database hands out
    Guests,    \* ids of customers
    LastHour,  \* bound: appointments start and end in 0 .. LastHour
    Planners   \* concurrently running handlers

ASSUME AppointmentsAssumption == LastHour \in Nat

Hours == 0 .. LastHour
\* Nothing asks which of completed, attended and cancelled a status is.
Statuses == {"scheduled", "settled"}

VARIABLES
    appointment,  \* table appointments: the set holding the row, or nothing
    guests,       \* table customers: the rows that are there
    planner,      \* the running handlers
    clashed       \* history: rows written after somebody else moved them

appointmentVars == <<appointment, guests, planner, clashed>>

-----------------------------------------------------------------------------
Span(row) == <<row.start, row.end>>

Booking(start, end) == [start |-> start, end |-> end, status |-> "scheduled"]

NoPlan == [pc |-> "idle", id |-> {}, patch |-> {}, columns |-> {},
           loaded |-> {}, unchecked |-> {}]

Plan(c, q) == planner' = [planner EXCEPT ![c] = q]

\* Mutant: the end is compared with the start the caller sent, and with no
\* other.
SentRangeIsValid(sent, start, end) == sent = {"start", "end"} => end > start

\* assertValidRange, called when either end is sent.
RangeIsValid(sent, start, end) == sent # {} => end > start

\* Columns `columns` of patch, the others of row.
Patched(row, patch, columns) ==
    [start  |-> IF "start" \in columns THEN patch.start ELSE row.start,
     end    |-> IF "end" \in columns THEN patch.end ELSE row.end,
     status |-> IF "status" \in columns THEN patch.status ELSE row.status]

-----------------------------------------------------------------------------
\* What a handler keeps of a row: the columns it will write.
Kept(row, columns) == Patched(Booking(0, 0), row, columns)

\* A handler whose request is valid: it looks the invitees up, then it writes.
Checked(id, columns, patch, invitees) ==
    [pc |-> "invite", id |-> id, patch |-> {patch}, columns |-> columns,
     loaded |-> {}, unchecked |-> invitees]

\* A range that is not one is answered 400; then the invitees are looked up.
\* (Nobody books when the ids have run out: a bound.)
BookAppointment(c, start, end, invitees) ==
    /\ planner[c].pc = "idle"
    /\ \E s \in Slots : appointment[s] = {}
    /\ RangeIsValid({"start", "end"}, start, end)
    /\ Plan(c, Checked({}, {}, Booking(start, end), invitees))
    /\ UNCHANGED <<appointment, guests, clashed>>

\* The row is read; what is sent of its range replaces what it says, and the
\* range is written as a whole.
UpdateAppointment(c, s, sent, start, end, invitees) ==
    /\ planner[c].pc = "idle"
    /\ \E row \in appointment[s] :
          LET columns == IF sent = {} THEN {} ELSE {"start", "end"}
              patch == Patched(row, Booking(start, end), sent)
          IN  /\ RangeIsValid(sent, patch.start, patch.end)
              /\ Plan(c, Checked({s}, columns, Kept(patch, columns), invitees))
    /\ UNCHANGED <<appointment, guests, clashed>>

UpdateStatus(c, s, status) ==
    /\ planner[c].pc = "idle"
    /\ \E row \in appointment[s] :
          Plan(c, Checked({s}, {"status"}, Kept([row EXCEPT !.status = status], {"status"}), {}))
    /\ UNCHANGED <<appointment, guests, clashed>>

\* validateInvitees: the customers are looked up at once, in any order; one that
\* is missing fails the request.
CheckInvitee(c, g) ==
    /\ planner[c].pc = "invite"
    /\ g \in planner[c].unchecked
    /\ Plan(c, IF g \in guests THEN [planner[c] EXCEPT !.unchecked = @ \ {g}]
               ELSE NoPlan)
    /\ UNCHANGED <<appointment, guests, clashed>>

InsertAppointment(c) ==
    LET q == planner[c]
    IN  /\ q.pc = "invite" /\ q.id = {} /\ q.unchecked = {}
        /\ \E s \in Slots :
              /\ appointment[s] = {}
              /\ \A d \in Planners : s \notin planner[d].id
              /\ appointment' = [appointment EXCEPT ![s] = q.patch]
        /\ Plan(c, NoPlan)
        /\ UNCHANGED <<guests, clashed>>

\* The repository reads the row again ...
RereadAppointment(c) ==
    LET q == planner[c]
    IN  /\ q.pc = "invite" /\ q.id # {} /\ q.unchecked = {}
        /\ \E s \in q.id :
              Plan(c, IF appointment[s] = {} THEN NoPlan
                      ELSE [q EXCEPT !.pc = "flush", !.loaded = {Kept(row, q.columns) : row \in appointment[s]}])
        /\ UNCHANGED <<appointment, guests, clashed>>

\* ... and writes the columns of the patch that differ from it.
FlushAppointment(c) ==
    LET q == planner[c]
    IN  /\ q.pc = "flush"
        /\ \E s \in q.id, patch \in q.patch, loaded \in q.loaded :
              LET changed == {k \in q.columns : patch[k] # loaded[k]}
              IN  /\ appointment' = [appointment EXCEPT ![s] =
                         {Patched(row, patch, changed) : row \in appointment[s]}]
                  /\ clashed' = clashed \cup
                         {t \in {s} : \E row \in appointment[s] :
                             Span(Kept(row, q.columns)) # Span(loaded)}
        /\ Plan(c, NoPlan)
        /\ UNCHANGED guests

DeleteAppointment(s) ==
    /\ appointment[s] # {}
    /\ appointment' = [appointment EXCEPT ![s] = {}]
    /\ clashed' = clashed \ {s}
    /\ UNCHANGED <<guests, planner>>

\* Customers come and go (see Customers); nothing looks at their appointments.
CustomersChange(g) ==
    /\ guests' = IF g \in guests THEN guests \ {g} ELSE guests \cup {g}
    /\ UNCHANGED <<appointment, planner, clashed>>

PlannerEnds(c) ==
    /\ planner[c].pc # "idle"
    /\ Plan(c, NoPlan)
    /\ UNCHANGED <<appointment, guests, clashed>>

-----------------------------------------------------------------------------
AppointmentInit ==
    /\ appointment = [s \in Slots |-> {}]
    /\ guests = Guests
    /\ planner = [c \in Planners |-> NoPlan]
    /\ clashed = {}

\* What a column may be sent as; one value is enough for one that is not sent.
Sent(column, sent) == IF column \in sent THEN Hours ELSE {0}

AppointmentNext ==
    \/ \E c \in Planners :
          \/ \E start, end \in Hours, i \in SUBSET Guests : BookAppointment(c, start, end, i)
          \/ \E s \in Slots, sent \in SUBSET {"start", "end"}, i \in SUBSET Guests :
             \E start \in Sent("start", sent), end \in Sent("end", sent) :
                UpdateAppointment(c, s, sent, start, end, i)
          \/ \E s \in Slots, status \in Statuses : UpdateStatus(c, s, status)
          \/ \E g \in Guests : CheckInvitee(c, g)
          \/ InsertAppointment(c)
          \/ RereadAppointment(c)
          \/ FlushAppointment(c)
          \/ PlannerEnds(c)
    \/ \E s \in Slots : DeleteAppointment(s)
    \/ \E g \in Guests : CustomersChange(g)

AppointmentSpec == AppointmentInit /\ [][AppointmentNext]_appointmentVars

-----------------------------------------------------------------------------
(* Properties *)

AppointmentRow == [start : Hours, end : Hours, status : Statuses]

\* The values the variables take.
AppointmentTypeOK ==
    /\ appointment \in [Slots -> SUBSET AppointmentRow]
    /\ guests \subseteq Guests
    /\ planner \in [Planners -> [pc : {"idle", "invite", "flush"},
                                 id : SUBSET Slots,
                                 patch : SUBSET AppointmentRow,
                                 columns : SUBSET {"start", "end", "status"},
                                 loaded : SUBSET AppointmentRow,
                                 unchecked : SUBSET Guests]]
    /\ clashed \subseteq Slots

\* An appointment ends after it starts, also when one request sends only its start
\* and another only its end, in any overlap -- unless one of them wrote after the
\* other had moved the row that its own repository call read (create, update).
RangesAreValid ==
    \A s \in Slots \ clashed : \A row \in appointment[s] : row.end > row.start

=============================================================================
