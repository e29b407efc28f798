------------------------------ MODULE Reports -------------------------------
(***************************************************************************)
(* The revenue of the dashboard: what all invoices were paid, in the last  *)
(* window and in the one before it, and day by day -- DashboardService     *)
(* over PostgresInvoiceRepository, beside payments that are recorded.      *)
(*                                                                         *)
(* A report is four queries that run at once, each of which sees the table *)
(* as it then is.  An invoice keeps the sum of its payments and the date   *)
(* of one, the last to be recorded: a client may send any date with it.    *)
(*                                                                         *)
(* Left out: stock and best sellers, recent invoices, the trend (a         *)
(* quotient of two figures); overlapping payments, which Invoices has.     *)
(***************************************************************************)
EXTENDS Integers, FiniteSets, Functions

CONSTANTS
    Bookings,  \* invoices of the business
    Price,     \* what each comes to
    Window,    \* the 30 days of the trend, in instants
    Ranges,    \* the windows of the chart
    LastDay    \* bound: instants are 0 .. LastDay

ASSUME ReportsAssumption ==
    /\ IsFiniteSet(Bookings)
    /\ Price \in Nat
    /\ Window \in Nat \ {0}
    /\ Ranges \subseteq Nat \ {0}
    /\ LastDay \in Nat /\ LastDay >= 2 * Window

Days == 0 .. LastDay
Figures == {"total", "last30Days", "previous30Days", "dailyRevenue"}

VARIABLES
    booking,    \* table invoices: amount_paid and payment_date
    today,      \* the clock
    report,     \* the report that runs
    income,     \* history: what was paid, by the date it was paid at
    backdated,  \* history: a payment was dated before one of the same invoice
    unsettled   \* history: a payment was recorded since the report began

reportVars == <<booking, today, report, income, backdated, unsettled>>

-----------------------------------------------------------------------------
Unpaid == [paid |-> 0, date |-> 0]

NoDays == [d \in Days |-> 0]

\* `now`, the chart's range, the figures still to come, and those that came.
NoSummary == [pc |-> "idle", now |-> 0, range |-> 0, awaited |-> {},
             sum |-> [f \in Figures |-> 0], days |-> NoDays]

Paid(when) ==
    SumFunctionOnSet([b \in Bookings |-> booking[b].paid],
                     {b \in Bookings : booking[b].paid > 0 /\ booking[b].date \in when})

\* Mutant: both ends belong to the window.
SumAmountPaidClosed(from, to) == Paid({d \in Days : from <= d /\ d <= to})

\* sumAmountPaid: the window holds its beginning and not its end.
SumAmountPaid(from, to) == Paid({d \in Days : from <= d /\ d < to})

\* dailyRevenue: both ends belong to it.
DailyRevenue(from, to) ==
    [d \in Days |-> IF from <= d /\ d <= to THEN Paid({d}) ELSE 0]

-----------------------------------------------------------------------------
\* recordPayment: the amount is added, the date replaced.
Pay(b, amount, date) ==
    /\ booking[b].paid + amount <= Price
    /\ booking' = [booking EXCEPT ![b] = [paid |-> @.paid + amount, date |-> date]]
    /\ income' = [income EXCEPT ![date] = @ + amount]
    /\ backdated' = (backdated \/ (booking[b].paid > 0 /\ date < booking[b].date))
    /\ unsettled' = (unsettled \/ report.pc # "idle")
    /\ UNCHANGED <<today, report>>

\* getSummary takes the time and sends its queries.
GetSummary(range) ==
    /\ report.pc = "idle"
    /\ report' = [NoSummary EXCEPT !.pc = "running", !.now = today, !.range = range,
                                  !.awaited = Figures]
    /\ unsettled' = FALSE
    /\ UNCHANGED <<booking, today, income, backdated>>

\* A query is answered: the last of them ends the report.
Answered(figure) ==
    /\ report.pc = "running" /\ figure \in report.awaited
    /\ UNCHANGED <<booking, today, income, backdated, unsettled>>

Awaiting(figure) == report.awaited \ {figure}

Progressed(figure) == IF Awaiting(figure) = {} THEN "done" ELSE "running"

SumFigure(figure, amount) ==
    /\ Answered(figure)
    /\ report' = [report EXCEPT !.sum[figure] = amount, !.awaited = Awaiting(figure),
                                !.pc = Progressed(figure)]

GetTotal == SumFigure("total", Paid(Days))

GetLast == SumFigure("last30Days", SumAmountPaid(report.now - Window, report.now))

GetPrevious ==
    SumFigure("previous30Days",
              SumAmountPaid(report.now - 2 * Window, report.now - Window))

GetDailyRevenue ==
    /\ Answered("dailyRevenue")
    /\ report' = [report EXCEPT !.days = DailyRevenue(report.now - report.range, report.now),
                                !.awaited = Awaiting("dailyRevenue"),
                                !.pc = Progressed("dailyRevenue")]

\* The client has its report, or a query failed and all are dropped.
ReportEnds ==
    /\ report.pc # "idle"
    /\ report' = NoSummary
    /\ UNCHANGED <<booking, today, income, backdated, unsettled>>

DayPasses ==
    /\ today < LastDay
    /\ today' = today + 1
    /\ UNCHANGED <<booking, report, income, backdated, unsettled>>

-----------------------------------------------------------------------------
\* The first report has two windows behind it.
ReportInit ==
    /\ booking = [b \in Bookings |-> Unpaid]
    /\ today = 2 * Window
    /\ report = NoSummary
    /\ income = NoDays
    /\ backdated = FALSE
    /\ unsettled = FALSE

ReportNext ==
    \/ \E b \in Bookings, amount \in 1 .. Price, date \in Days : Pay(b, amount, date)
    \/ \E range \in Ranges : GetSummary(range)
    \/ GetTotal
    \/ GetLast
    \/ GetPrevious
    \/ GetDailyRevenue
    \/ ReportEnds
    \/ DayPasses

ReportSpec == ReportInit /\ [][ReportNext]_reportVars

-----------------------------------------------------------------------------
(* Properties *)

\* The values the variables take.
ReportTypeOK ==
    /\ booking \in [Bookings -> [paid : 0 .. Price, date : Days]]
    /\ today \in Days
    /\ report.pc \in {"idle", "running", "done"}
    /\ report.now \in Days /\ report.range \in Ranges \cup {0}
    /\ report.awaited \subseteq Figures
    /\ report.sum \in [Figures -> Nat] /\ report.days \in [Days -> Nat]
    /\ income \in [Days -> Nat]
    /\ backdated \in BOOLEAN /\ unsettled \in BOOLEAN

\* What was paid from `from` on and before `to`.
Income(from, to) == SumFunctionOnSet(income, {d \in Days : from <= d /\ d < to})

\* What the chart shows for that time.
Charted(from, to) == SumFunctionOnSet(report.days, {d \in Days : from <= d /\ d < to})

\* "Total collected + last-30d vs prior-30d trend (revenue = amountPaid)": a
\* report no payment came into counts each cedi that was paid in its total, and in
\* one of the two windows at most; a chart that reaches as far back shows day by day
\* what each window counts, and what is paid at the very instant besides.  And unless a client
\* dated payments back, no money that came in the last window is counted before it:
\* an invoice counts where its last payment is, which may lie ahead (getRevenue,
\* getDailyRevenue, sumAmountPaid, dailyRevenue, recordPayment).
RevenueIsCounted ==
    report.pc = "done" /\ ~unsettled =>
        LET last     == report.sum["last30Days"]
            previous == report.sum["previous30Days"]
            start30  == report.now - Window
            start60  == report.now - 2 * Window
        IN  /\ report.sum["total"] = Income(0, LastDay + 1)
            /\ last + previous <= report.sum["total"]
            /\ report.range >= Window => Charted(start30, report.now) = last
            /\ report.range >= 2 * Window => Charted(start60, start30) = previous
            /\ backdated \/ last + Paid({d \in Days : d >= report.now})
                                >= Income(start30, report.now)

=============================================================================
