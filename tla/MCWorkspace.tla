---------------------------- MODULE MCWorkspace -----------------------------
(***************************************************************************)
(* The parts of the system that share no column with each other, for TLC.  *)
(* Whatever they do together, each of them sees its own steps only: one of *)
(* them, the focus, moves, and the others stay as they began.              *)
(***************************************************************************)
EXTENDS Accounts, Sessions, Onboarding, Images, Customers, Appointments, Listing,
        Migration, Seeding, Reports, Mailing, Vat, TLC

VARIABLE focus

Parts == {"accounts", "sessions", "onboarding", "images", "customers", "appointments",
          "lists", "migration", "seeding", "reports", "mail", "vat"}

workspaceVars == <<vars, sessionVars, onboardingVars, imageVars, customerVars,
                   appointmentVars, listingVars, migrationVars, seedingVars, reportVars,
                   mailVars, bill, focus>>

\* Values for the constants that a cfg cannot write.
TestTenants == <<"alice", "bob">>
UpTo == 0 .. 420

\* The parts take their handlers from the same model values, and those whose ids
\* are alike take them from the same ones.
Symmetric == Permutations(Calls) \cup Permutations(People)

\* One beginning is enough for a part that does not move.
WorkspaceInit ==
    /\ focus \in Parts
    /\ Init /\ SessionInit /\ OnboardingInit /\ ImageInit /\ CustomerInit
    /\ AppointmentInit /\ ListingInit /\ SeedingInit /\ ReportInit /\ MailInit
    /\ IF focus = "migration" THEN MigrationInit ELSE Holds(<<>>) /\ AtRest
    /\ bill \in Bills(0)

Moves(part) ==
    /\ focus = part
    /\ UNCHANGED focus

\* Every envelope of the bound was used, and every handler is done.
NothingToSend ==
    /\ \A e \in Envelopes : ~Sealed(e)
    /\ \A s \in Senders : sender[s].pc = "idle"
    /\ UNCHANGED mailVars

WorkspaceNext ==
    \/ /\ Moves("accounts") /\ Next
       /\ UNCHANGED <<sessionVars, onboardingVars, imageVars, customerVars,
                      appointmentVars, listingVars, migrationVars,
                      seedingVars, reportVars, mailVars, bill>>
    \/ /\ Moves("sessions") /\ SessionNext
       /\ UNCHANGED <<vars, onboardingVars, imageVars, customerVars,
                      appointmentVars, listingVars, migrationVars,
                      seedingVars, reportVars, mailVars, bill>>
    \/ /\ Moves("onboarding") /\ OnboardingNext
       /\ UNCHANGED <<vars, sessionVars, imageVars, customerVars,
                      appointmentVars, listingVars, migrationVars,
                      seedingVars, reportVars, mailVars, bill>>
    \/ /\ Moves("images") /\ ImageNext
       /\ UNCHANGED <<vars, sessionVars, onboardingVars, customerVars,
                      appointmentVars, listingVars, migrationVars,
                      seedingVars, reportVars, mailVars, bill>>
    \/ /\ Moves("customers") /\ CustomerNext
       /\ UNCHANGED <<vars, sessionVars, onboardingVars, imageVars,
                      appointmentVars, listingVars, migrationVars,
                      seedingVars, reportVars, mailVars, bill>>
    \/ /\ Moves("appointments") /\ AppointmentNext
       /\ UNCHANGED <<vars, sessionVars, onboardingVars, imageVars,
                      customerVars, listingVars, migrationVars, seedingVars,
                      reportVars, mailVars, bill>>
    \/ /\ Moves("lists") /\ ListingNext
       /\ UNCHANGED <<vars, sessionVars, onboardingVars, imageVars,
                      customerVars, appointmentVars, migrationVars,
                      seedingVars, reportVars, mailVars, bill>>
    \/ /\ Moves("migration") /\ MigrationNext
       /\ UNCHANGED <<vars, sessionVars, onboardingVars, imageVars,
                      customerVars, appointmentVars, listingVars, seedingVars,
                      reportVars, mailVars, bill>>
    \/ /\ Moves("seeding") /\ SeedingNext
       /\ UNCHANGED <<vars, sessionVars, onboardingVars, imageVars,
                      customerVars, appointmentVars, listingVars,
                      migrationVars, reportVars, mailVars, bill>>
    \/ /\ Moves("reports") /\ ReportNext
       /\ UNCHANGED <<vars, sessionVars, onboardingVars, imageVars,
                      customerVars, appointmentVars, listingVars,
                      migrationVars, seedingVars, mailVars, bill>>
    \/ /\ Moves("mail") /\ (MailNext \/ NothingToSend)
       /\ UNCHANGED <<vars, sessionVars, onboardingVars, imageVars,
                      customerVars, appointmentVars, listingVars,
                      migrationVars, seedingVars, reportVars, bill>>
    \/ /\ Moves("vat") /\ (IF bill.subtotal = 0 THEN Compute ELSE UNCHANGED bill)
       /\ UNCHANGED <<vars, sessionVars, onboardingVars, imageVars,
                      customerVars, appointmentVars, listingVars,
                      migrationVars, seedingVars, reportVars, mailVars>>

WorkspaceSpec == WorkspaceInit /\ [][WorkspaceNext]_workspaceVars

\* The values the variables of all parts take.
WorkspaceTypeOK ==
    /\ TypeOK /\ SessionTypeOK /\ OnboardingTypeOK /\ ImageTypeOK /\ CustomerTypeOK
    /\ AppointmentTypeOK /\ ListingTypeOK /\ MigrationTypeOK /\ SeedingTypeOK
    /\ ReportTypeOK /\ MailTypeOK

=============================================================================
