------------------------------ MODULE Mailing -------------------------------
(***************************************************************************)
(* Sending mail and keeping a log of it -- MailService over the provider   *)
(* (Resend) and the table mails -- as InvoiceService.send uses it: an      *)
(* invoice is mailed, then its sent_at is written.                         *)
(*                                                                         *)
(* Whatever the provider does, an attempt is logged and the caller goes    *)
(* on: only the log itself can stop it.  The other callers (codes,         *)
(* welcomes) use the same send, and nothing is written after it.           *)
(*                                                                         *)
(* Left out: addresses, subjects, templates.                               *)
(***************************************************************************)
EXTENDS FiniteSets

CONSTANTS
    Envelopes,  \* attempts to send, and the ids of their rows
    Letters,    \* invoices
    Notices,    \* what the other callers mail
    NoLetter,   \* nothing
    Senders     \* concurrently running handlers

ASSUME MailingAssumption == Letters \cap Notices = {} /\ NoLetter \notin Letters \cup Notices

VARIABLES
    mails,      \* table mails: the status of each attempt, "none" without a row
    addressed,  \* what each attempt sends
    sentAt,     \* table invoices: those with a sent_at
    sender,     \* the running handlers
    accepted,   \* the provider: attempts whose mail it took
    unheard,    \* history: attempts whose answer was lost
    unlogged    \* history: attempts whose handler ended before the log had them

mailVars == <<mails, addressed, sentAt, sender, accepted, unheard, unlogged>>

-----------------------------------------------------------------------------
\* Envelopes are used one after the other, in any order.
Sealed(e) == addressed[e] = NoLetter

NoMail == [pc |-> "idle", envelope |-> {}, status |-> "none"]

Carries(s, e) == e \in sender[s].envelope

\* send begins: the mail goes to the provider.
SendMail(s, e, letter) ==
    /\ sender[s].pc = "idle" /\ Sealed(e)
    /\ addressed' = [addressed EXCEPT ![e] = letter]
    /\ sender' = [sender EXCEPT ![s] = [NoMail EXCEPT !.pc = "provider", !.envelope = {e}]]
    /\ UNCHANGED <<mails, sentAt, accepted, unheard, unlogged>>

\* The answer, as send notes it.
Noted(s, status) ==
    /\ sender[s].pc = "provider"
    /\ sender' = [sender EXCEPT ![s].pc = "log", ![s].status = status]
    /\ UNCHANGED <<mails, addressed, sentAt, unlogged>>

ProviderAccepts(s) ==
    /\ Noted(s, "sent")
    /\ accepted' = accepted \cup sender[s].envelope
    /\ UNCHANGED unheard

\* Mutant: what is no exception is a success.
ProviderRefusesUnseen(s) == Noted(s, "sent") /\ UNCHANGED <<accepted, unheard>>

\* result.error, or an exception before the provider had the mail.
ProviderRefuses(s) == Noted(s, "failed") /\ UNCHANGED <<accepted, unheard>>

\* An exception after it: the answer is lost.
AnswerIsLost(s) ==
    /\ Noted(s, "failed")
    /\ accepted' = accepted \cup sender[s].envelope
    /\ unheard' = unheard \cup sender[s].envelope

\* The row of the attempt; send returns.
LogMail(s) ==
    /\ sender[s].pc = "log"
    /\ mails' = [e \in Envelopes |-> IF Carries(s, e) THEN sender[s].status ELSE mails[e]]
    /\ sender' = [sender EXCEPT ![s] = IF \E e \in @.envelope : addressed[e] \in Letters
                                       THEN [@ EXCEPT !.pc = "stamp"] ELSE NoMail]
    /\ UNCHANGED <<addressed, sentAt, accepted, unheard, unlogged>>

\* InvoiceService.send, whatever became of the mail.
StampInvoice(s) ==
    /\ sender[s].pc = "stamp"
    /\ sentAt' = sentAt \cup {addressed[e] : e \in sender[s].envelope}
    /\ sender' = [sender EXCEPT ![s] = NoMail]
    /\ UNCHANGED <<mails, addressed, accepted, unheard, unlogged>>

\* The log's insert or the invoice's update fails, or the process dies: after the
\* provider had the mail, or before.
SenderEnds(s) ==
    /\ sender[s].pc # "idle"
    /\ sender' = [sender EXCEPT ![s] = NoMail]
    /\ unlogged' = unlogged \cup {e \in sender[s].envelope : mails[e] = "none"}
    /\ accepted' \in {accepted, IF sender[s].pc = "provider"
                                THEN accepted \cup sender[s].envelope ELSE accepted}
    /\ UNCHANGED <<mails, addressed, sentAt, unheard>>

-----------------------------------------------------------------------------
MailInit ==
    /\ mails = [e \in Envelopes |-> "none"]
    /\ addressed = [e \in Envelopes |-> NoLetter]
    /\ sentAt = {}
    /\ sender = [s \in Senders |-> NoMail]
    /\ accepted = {} /\ unheard = {} /\ unlogged = {}

MailNext ==
    \E s \in Senders :
        \/ \E e \in Envelopes, letter \in Letters \cup Notices : SendMail(s, e, letter)
        \/ ProviderAccepts(s)
        \/ ProviderRefuses(s)
        \/ AnswerIsLost(s)
        \/ LogMail(s)
        \/ StampInvoice(s)
        \/ SenderEnds(s)

MailSpec == MailInit /\ [][MailNext]_mailVars

-----------------------------------------------------------------------------
(* Properties *)

\* The values the variables take.
MailTypeOK ==
    /\ mails \in [Envelopes -> {"none", "sent", "failed"}]
    /\ addressed \in [Envelopes -> Letters \cup Notices \cup {NoLetter}]
    /\ sentAt \subseteq Letters
    /\ sender \in [Senders -> [pc : {"idle", "provider", "log", "stamp"},
                               envelope : SUBSET Envelopes,
                               status : {"none", "sent", "failed"}]]
    /\ accepted \cup unheard \cup unlogged \subseteq Envelopes

\* "Send an email via Resend and persist a record of the attempt": a mail the log
\* calls sent was taken by the provider, one it calls failed was not, unless the
\* answer was lost, and one that was taken is in the log once its handler ended,
\* unless it died or the log refused it.  An invoice has a sent_at only when an
\* attempt to mail it is in the log (send, InvoiceService.send).
MailLogIsTrue ==
    /\ \A e \in Envelopes :
           /\ mails[e] = "sent" => e \in accepted
           /\ mails[e] = "failed" => e \notin accepted \ unheard
           /\ e \in accepted /\ mails[e] = "none" =>
                  e \in unlogged \/ \E s \in Senders : Carries(s, e) /\ sender[s].pc = "log"
    /\ \A letter \in sentAt : \E e \in Envelopes : addressed[e] = letter /\ mails[e] # "none"

=============================================================================
