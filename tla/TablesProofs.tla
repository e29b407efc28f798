--------------------------- MODULE TablesProofs ----------------------------
(***************************************************************************)
(* Theorems about what reads or fills whole tables: Reports, Listing,      *)
(* Migration and Seeding, for every number of rows, pages and steps, and   *)
(* about all the parts of MCWorkspace side by side.                        *)
(***************************************************************************)
EXTENDS MCWorkspace, AccountsProofs, BusinessRowsProofs, SumLemmas

-----------------------------------------------------------------------------
(***************************************************************************)
(* Reports: the figures of the dashboard.                                  *)
(***************************************************************************)

(* More about sums *)

LEMMA SumDisjoint ==
    ASSUME NEW f, NEW S, NEW T, IsFiniteSet(S), IsFiniteSet(T), S \cap T = {},
           IntegerOn(f, S \cup T)
    PROVE  SumFunctionOnSet(f, S \cup T) = SumFunctionOnSet(f, S) + SumFunctionOnSet(f, T)
<1> DEFINE W == {U \in SUBSET T : SumFunctionOnSet(f, S \cup U)
                                      = SumFunctionOnSet(f, S) + SumFunctionOnSet(f, U)}
<1>1. ASSUME NEW U \in SUBSET T, \A V \in SUBSET U : V # U => V \in W
      PROVE  U \in W
  <2>1. IsFiniteSet(U) BY FS_Subset
  <2>2. IntegerOn(f, S) /\ IntegerOn(f, U) BY DEF IntegerOn
  <2>3. SumFunctionOnSet(f, S) \in Int BY <2>2, SumInt
  <2>4. CASE U = {}
    <3>1. SumFunctionOnSet(f, U) = 0 /\ S \cup U = S BY <2>4, SumEmpty
    <3> QED BY <2>3, <3>1
  <2>5. CASE U # {}
    <3>1. PICK x \in U : TRUE BY <2>5
    <3> DEFINE V == U \ {x}
    <3>2. V \in W BY <1>1, <3>1
    <3>3. IsFiniteSet(V) /\ IsFiniteSet(S \cup V) BY <2>1, FS_RemoveElement, FS_Union
    <3>4. V \cup {x} = U /\ (S \cup V) \cup {x} = S \cup U /\ x \notin V /\ x \notin S \cup V
      BY <3>1
    <3>5. IntegerOn(f, (S \cup V) \cup {x}) /\ IntegerOn(f, V \cup {x}) /\ IntegerOn(f, V)
          /\ f[x] \in Int
      BY <2>2, <3>1, <3>4 DEF IntegerOn
    <3> HIDE DEF V
    <3>6. SumFunctionOnSet(f, U) = f[x] + SumFunctionOnSet(f, V)
      BY <3>3, <3>4, <3>5, SumAdd
    <3>7. SumFunctionOnSet(f, S \cup U) = f[x] + SumFunctionOnSet(f, S \cup V)
      BY <3>3, <3>4, <3>5, SumAdd
    <3>8. SumFunctionOnSet(f, V) \in Int BY <3>3, <3>5, SumInt
    <3> QED BY <2>3, <3>2, <3>5, <3>6, <3>7, <3>8
  <2> QED BY <2>4, <2>5
<1> HIDE DEF W
<1>2. T \in W BY <1>1, SubsetInduction
<1> QED BY <1>2 DEF W

LEMMA SumNat ==
    ASSUME NEW f, NEW S, IsFiniteSet(S), \A x \in S : f[x] \in Nat
    PROVE  SumFunctionOnSet(f, S) \in Nat
<1> DEFINE z == [x \in S |-> 0]
<1>1. IntegerOn(f, S) /\ IntegerOn(z, S) /\ \A x \in S : z[x] <= f[x] /\ z[x] = 0
  BY DEF IntegerOn
<1> HIDE DEF z
<1>2. SumFunctionOnSet(z, S) = 0 BY <1>1, SumOfZeros
<1>3. SumFunctionOnSet(f, S) \in Int /\ SumFunctionOnSet(z, S) <= SumFunctionOnSet(f, S)
  BY <1>1, SumInt, SumAtMost
<1> QED BY <1>2, <1>3

-----------------------------------------------------------------------------
(* What was paid at certain times *)

Invoices == [Bookings -> [paid : 0 .. Price, date : Days]]

Amounts == [b \in Bookings |-> booking[b].paid]
PaidAt(when) == {b \in Bookings : booking[b].paid > 0 /\ booking[b].date \in when}

\* What each invoice counts for.
Part(when) == [b \in Bookings |-> IF booking[b].date \in when THEN booking[b].paid ELSE 0]

LEMMA DaysAreFinite == IsFiniteSet(Days) /\ Days \subseteq Nat /\ Days \subseteq Int
BY ReportsAssumption, FS_Interval DEF Days

LEMMA AmountsAre ==
    ASSUME booking \in Invoices
    PROVE  /\ \A when : IsFiniteSet(PaidAt(when)) /\ PaidAt(when) \subseteq Bookings
           /\ \A b \in Bookings : booking[b].paid \in Nat /\ Amounts[b] \in Nat
           /\ \A S \in SUBSET Bookings : IntegerOn(Amounts, S)
<1>1. \A b \in Bookings : booking[b].paid \in Nat /\ Amounts[b] \in Nat
  BY ReportsAssumption DEF Amounts, Invoices
<1>2. \A when : PaidAt(when) \in SUBSET Bookings BY DEF PaidAt
<1>3. \A when : IsFiniteSet(PaidAt(when)) BY <1>2, FS_Subset, ReportsAssumption
<1> QED BY <1>1, <1>2, <1>3 DEF IntegerOn

LEMMA PaidIs == \A when : Paid(when) = SumFunctionOnSet(Amounts, PaidAt(when))
BY DEF Paid, Amounts, PaidAt

LEMMA PaidNat == ASSUME booking \in Invoices, NEW when PROVE Paid(when) \in Nat
<1>1. \A b \in PaidAt(when) : Amounts[b] \in Nat BY AmountsAre
<1> QED BY <1>1, AmountsAre, PaidIs, SumNat

\* Times that exclude each other add up.
LEMMA PaidAddsUp ==
    ASSUME booking \in Invoices, NEW S, NEW T, S \cap T = {}
    PROVE  Paid(S \cup T) = Paid(S) + Paid(T)
<1>1. PaidAt(S \cup T) = PaidAt(S) \cup PaidAt(T) /\ PaidAt(S) \cap PaidAt(T) = {}
  BY DEF PaidAt
<1>2. IntegerOn(Amounts, PaidAt(S) \cup PaidAt(T)) BY AmountsAre
<1>3. SumFunctionOnSet(Amounts, PaidAt(S) \cup PaidAt(T))
          = SumFunctionOnSet(Amounts, PaidAt(S)) + SumFunctionOnSet(Amounts, PaidAt(T))
  BY <1>1, <1>2, AmountsAre, SumDisjoint
<1> QED BY <1>1, <1>3, PaidIs

LEMMA PaidIsSum ==
    ASSUME booking \in Invoices, NEW when
    PROVE  /\ Paid(when) = SumFunctionOnSet(Part(when), Bookings)
           /\ IntegerOn(Part(when), Bookings)
<1> DEFINE S == PaidAt(when)
           f == Part(when)
<1>1. \A b \in Bookings : f[b] \in Int BY AmountsAre DEF Part
<1>2. \A b \in Bookings \ S : f[b] = 0
  <2> SUFFICES ASSUME NEW b \in Bookings \ S PROVE f[b] = 0 OBVIOUS
  <2>1. booking[b].paid \in Nat BY AmountsAre
  <2>2. CASE booking[b].date \in when
    <3>1. ~(booking[b].paid > 0) BY <2>2 DEF PaidAt
    <3> QED BY <2>1, <2>2, <3>1 DEF Part
  <2>3. CASE booking[b].date \notin when BY <2>3 DEF Part
  <2> QED BY <2>2, <2>3
<1>3. \A b \in S : f[b] = Amounts[b] BY DEF PaidAt, Part, Amounts
<1>4. IntegerOn(f, Bookings) BY <1>1 DEF IntegerOn
<1>5. S \in SUBSET Bookings /\ IsFiniteSet(S) BY AmountsAre
<1> HIDE DEF S, f
<1>6. SumFunctionOnSet(f, Bookings) = SumFunctionOnSet(f, S)
  BY <1>2, <1>4, <1>5, SumWithout, ReportsAssumption
<1>7. SumFunctionOnSet(f, S) = SumFunctionOnSet(Amounts, S) BY <1>3, <1>5, SumSame
<1> QED BY <1>4, <1>6, <1>7, PaidIs DEF S, f

PartsAgree == \A when : Paid(when) = SumFunctionOnSet(Part(when), Bookings)

BookingsFit == booking \in Invoices

LEMMA PartsDoAgree == BookingsFit => PartsAgree
BY PaidIsSum DEF PartsAgree, BookingsFit

\* Day by day or at once: the sum is the same.
LEMMA PaidByDay ==
    ASSUME booking \in Invoices, NEW D \in SUBSET Days, NEW g, \A d \in D : g[d] = Paid({d})
    PROVE  SumFunctionOnSet(g, D) = Paid(D)
<1> DEFINE W == {U \in SUBSET D : SumFunctionOnSet(g, U) = Paid(U)}
<1>0. IsFiniteSet(D) BY DaysAreFinite, FS_Subset
<1>1. ASSUME NEW U \in SUBSET D, \A V \in SUBSET U : V # U => V \in W
      PROVE  U \in W
  <2>1. IsFiniteSet(U) BY <1>0, FS_Subset
  <2>2. CASE U = {}
    <3>1. PaidAt({}) = {} BY DEF PaidAt
    <3>2. SumFunctionOnSet(g, U) = 0 /\ Paid({}) = 0 BY <2>2, <3>1, SumEmpty, PaidIs
    <3> QED BY <2>2, <3>2
  <2>3. CASE U # {}
    <3>1. PICK d \in U : TRUE BY <2>3
    <3> DEFINE V == U \ {d}
    <3>2. V \in W BY <1>1, <3>1
    <3>3. IsFiniteSet(V) BY <2>1, FS_RemoveElement
    <3>4. V \cup {d} = U /\ d \notin V /\ V \cap {d} = {} BY <3>1
    <3>5. \A x \in U : g[x] \in Int
      <4>1. \A x \in U : g[x] = Paid({x}) BY <1>1
      <4> SUFFICES ASSUME NEW x \in U PROVE g[x] \in Int OBVIOUS
      <4>2. Paid({x}) \in Nat BY PaidNat
      <4>3. g[x] \in Nat BY <4>1, <4>2
      <4> QED BY <4>3
    <3>6. IntegerOn(g, V \cup {d}) BY <3>4, <3>5 DEF IntegerOn
    <3> HIDE DEF V
    <3>7. SumFunctionOnSet(g, U) = g[d] + SumFunctionOnSet(g, V) BY <3>3, <3>4, <3>6, SumAdd
    <3>8. Paid(U) = Paid(V) + Paid({d}) BY <3>4, PaidAddsUp
    <3>9. g[d] = Paid({d}) /\ Paid(V) \in Nat /\ Paid({d}) \in Nat BY <3>1, PaidNat
    <3> QED BY <3>2, <3>7, <3>8, <3>9
  <2> QED BY <2>2, <2>3
<1> HIDE DEF W
<1>2. D \in W BY <1>0, <1>1, SubsetInduction
<1> QED BY <1>2 DEF W

-----------------------------------------------------------------------------
(* The inductive invariant *)

ReportRec == [pc : {"idle", "running", "done"}, now : Days, range : Ranges \cup {0},
              awaited : SUBSET Figures, sum : [Figures -> Nat], days : [Days -> Nat]]

Now == report.now

\* The answers that came are right, if no payment was recorded meanwhile.
AnswersStand ==
    report.pc # "idle" /\ ~unsettled =>
        /\ "total" \notin report.awaited => report.sum["total"] = Paid(Days)
        /\ "last30Days" \notin report.awaited =>
               report.sum["last30Days"] = SumAmountPaid(Now - Window, Now)
        /\ "previous30Days" \notin report.awaited =>
               report.sum["previous30Days"] = SumAmountPaid(Now - 2 * Window, Now - Window)
        /\ "dailyRevenue" \notin report.awaited =>
               report.days = DailyRevenue(Now - report.range, Now)

From(x) == {d \in Days : d >= x}

\* What came in is what the invoices were paid, and no invoice counts before
\* money that came with it, unless one was dated back.
NothingIsMissed ==
    /\ Paid(Days) = SumFunctionOnSet(income, Days)
    /\ backdated \/ \A x \in Int : Paid(From(x)) >= SumFunctionOnSet(income, From(x))

ReportInv ==
    /\ booking \in Invoices
    /\ today \in Days
    /\ report \in ReportRec
    /\ income \in [Days -> Nat]
    /\ backdated \in BOOLEAN /\ unsettled \in BOOLEAN
    /\ report.pc = "done" => report.awaited = {}
    /\ AnswersStand
    /\ NothingIsMissed

-----------------------------------------------------------------------------
(* Steps *)

LEMMA NoSummaryIs ==
    NoSummary \in ReportRec /\ NoSummary.pc = "idle"
<1>1. 0 \in Days BY ReportsAssumption DEF Days
<1> QED BY <1>1 DEF NoSummary, NoDays, ReportRec

LEMMA IncomeIs ==
    ASSUME income \in [Days -> Nat]
    PROVE  \A S \in SUBSET Days : /\ IsFiniteSet(S) /\ IntegerOn(income, S)
                                  /\ \A d \in S : income[d] \in Nat
                                  /\ SumFunctionOnSet(income, S) \in Nat
<1> SUFFICES ASSUME NEW S \in SUBSET Days
             PROVE  /\ IsFiniteSet(S) /\ IntegerOn(income, S)
                    /\ \A d \in S : income[d] \in Nat
                    /\ SumFunctionOnSet(income, S) \in Nat
  OBVIOUS
<1>1. IsFiniteSet(S) BY DaysAreFinite, FS_Subset
<1>2. \A d \in S : income[d] \in Nat OBVIOUS
<1>3. SumFunctionOnSet(income, S) \in Nat BY <1>1, <1>2, SumNat
<1> QED BY <1>1, <1>2, <1>3 DEF IntegerOn

LEMMA ReportInitOK == ASSUME ReportInit PROVE ReportInv
<1>1. booking \in Invoices
  <2>1. Unpaid \in [paid : 0 .. Price, date : Days]
    BY ReportsAssumption DEF Unpaid, Days
  <2> QED BY <2>1 DEF ReportInit, Invoices
<1>2. today \in Days BY ReportsAssumption DEF ReportInit, Days
<1>3. income \in [Days -> Nat] /\ \A d \in Days : income[d] = 0 BY DEF ReportInit, NoDays
<1>4. \A when : Paid(when) = 0
  <2>1. \A when : PaidAt(when) = {} BY DEF PaidAt, ReportInit, Unpaid
  <2> QED BY <2>1, PaidIs, SumEmpty
<1>5. \A S \in SUBSET Days : SumFunctionOnSet(income, S) = 0
  BY <1>3, IncomeIs, SumOfZeros
<1>6. NothingIsMissed
  <2>1. \A x : From(x) \in SUBSET Days /\ Days \in SUBSET Days BY DEF From
  <2>2. SumFunctionOnSet(income, Days) = 0 BY <1>5, <2>1
  <2>3. \A x : SumFunctionOnSet(income, From(x)) = 0 BY <1>5, <2>1
  <2> QED BY <1>4, <2>2, <2>3 DEF NothingIsMissed
<1> QED
  BY <1>1, <1>2, <1>3, <1>6, NoSummaryIs DEF ReportInit, ReportInv, AnswersStand

\* What a payment adds to what was paid at certain times.
LEMMA PayCounts ==
    ASSUME ReportInv, NEW b \in Bookings, NEW amount \in 1 .. Price, NEW date \in Days,
           Pay(b, amount, date), NEW when
    PROVE  /\ booking' \in Invoices
           /\ Paid(when)' = Paid(when)
                  - (IF booking[b].date \in when THEN booking[b].paid ELSE 0)
                  + (IF date \in when THEN booking[b].paid + amount ELSE 0)
<1>1. /\ booking' = [booking EXCEPT ![b] = [paid |-> booking[b].paid + amount, date |-> date]]
      /\ booking[b].paid + amount <= Price
  BY DEF Pay
<1>2. booking \in Invoices BY DEF ReportInv
<1>3. booking[b].paid \in 0 .. Price BY <1>2 DEF Invoices
<1>4. booking[b].paid + amount \in 0 .. Price BY <1>1, <1>3, ReportsAssumption
<1>5. booking' \in Invoices BY <1>1, <1>2, <1>4 DEF Invoices
<1> DEFINE f == Part(when)
           g == Part(when)'
<1>6. /\ f[b] = IF booking[b].date \in when THEN booking[b].paid ELSE 0
      /\ g[b] = IF date \in when THEN booking[b].paid + amount ELSE 0
  BY <1>1, <1>2 DEF Part, Invoices
<1>7. \A c \in Bookings \ {b} : g[c] = f[c] BY <1>1, <1>2 DEF Part, Invoices
<1>8. g[b] \in Int BY <1>3, <1>4, <1>6
<1>9. Paid(when) = SumFunctionOnSet(f, Bookings) /\ IntegerOn(f, Bookings)
  BY <1>2, PaidIsSum
<1>10. Paid(when)' = SumFunctionOnSet(g, Bookings)
  <2>1. BookingsFit' => PartsAgree' BY PartsDoAgree, PTL
  <2> QED BY <1>5, <2>1 DEF BookingsFit, PartsAgree
<1> HIDE DEF f, g
<1>11. SumFunctionOnSet(g, Bookings) = SumFunctionOnSet(f, Bookings) - f[b] + g[b]
  BY <1>7, <1>8, <1>9, SumChange, ReportsAssumption
<1> QED BY <1>5, <1>6, <1>9, <1>10, <1>11

LEMMA PayKeeps ==
    ASSUME ReportInv, NEW b \in Bookings, NEW amount \in 1 .. Price, NEW date \in Days,
           Pay(b, amount, date)
    PROVE  ReportInv'
<1> DEFINE old == booking[b].paid
           was == booking[b].date
<1>1. /\ old + amount <= Price
      /\ income' = [income EXCEPT ![date] = @ + amount]
      /\ backdated' = (backdated \/ (old > 0 /\ date < was))
      /\ unsettled' = (unsettled \/ report.pc # "idle")
      /\ UNCHANGED <<today, report>>
  BY DEF Pay
<1>2. /\ booking \in Invoices /\ old \in Nat /\ was \in Days /\ was \in Int
      /\ amount \in Nat /\ date \in Int
  <2>1. amount \in Nat BY ReportsAssumption
  <2>2. booking \in [Bookings -> [paid : 0 .. Price, date : Days]] BY DEF ReportInv, Invoices
  <2>3. old \in Nat /\ was \in Days BY <2>2, ReportsAssumption
  <2>4. Days \subseteq Int BY DaysAreFinite
  <2>5. was \in Int /\ date \in Int BY <2>3, <2>4
  <2> QED BY <2>1, <2>2, <2>3, <2>5 DEF Invoices
<1>3. booking' \in Invoices BY PayCounts
<1>4. \A when : Paid(when)' = Paid(when) - (IF was \in when THEN old ELSE 0)
                                + (IF date \in when THEN old + amount ELSE 0)
  BY PayCounts
<1> HIDE DEF old, was
<1>5. income \in [Days -> Nat] /\ income' \in [Days -> Nat] BY <1>1, <1>2 DEF ReportInv
<1>6. ASSUME NEW S \in SUBSET Days
      PROVE  SumFunctionOnSet(income', S)
                 = SumFunctionOnSet(income, S) + (IF date \in S THEN amount ELSE 0)
  <2>1. IsFiniteSet(S) /\ IntegerOn(income, S) /\ SumFunctionOnSet(income, S) \in Nat
    BY <1>5, IncomeIs
  <2>2. \A d \in S \ {date} : income'[d] = income[d] BY <1>1, <1>5
  <2>3. CASE date \in S
    <3>1. income'[date] = income[date] + amount /\ income[date] \in Nat BY <1>1, <1>5
    <3>2. income'[date] \in Int BY <1>5
    <3>3. SumFunctionOnSet(income', S) = SumFunctionOnSet(income, S) - income[date] + income'[date]
      BY <2>1, <2>2, <2>3, <3>2, SumChange
    <3> QED BY <1>2, <2>1, <2>3, <3>1, <3>3
  <2>4. CASE date \notin S
    <3>1. \A d \in S : income'[d] = income[d] BY <2>2, <2>4
    <3>2. SumFunctionOnSet(income', S) = SumFunctionOnSet(income, S) BY <2>1, <3>1, SumSame
    <3> QED BY <2>1, <2>4, <3>2
  <2> QED BY <2>3, <2>4
<1>7. NothingIsMissed'
  <2>1. \A x : From(x) \in SUBSET Days BY DEF From
  <2>2. \A when : Paid(when) \in Nat BY <1>2, PaidNat
  <2>3. \A S \in SUBSET Days : SumFunctionOnSet(income, S) \in Nat BY <1>5, IncomeIs
  <2>4. Paid(Days)' = SumFunctionOnSet(income', Days)
    <3>1. Paid(Days)' = Paid(Days) - old + (old + amount) BY <1>2, <1>4
    <3>2. SumFunctionOnSet(income', Days) = SumFunctionOnSet(income, Days) + amount BY <1>6
    <3>3. Paid(Days) = SumFunctionOnSet(income, Days) BY DEF ReportInv, NothingIsMissed
    <3>4. Paid(Days) \in Nat BY <2>2
    <3> QED BY <1>2, <3>1, <3>2, <3>3, <3>4
  <2>5. ASSUME ~backdated', NEW x \in Int
        PROVE  Paid(From(x))' >= SumFunctionOnSet(income', From(x))
    <3> DEFINE S == From(x)
               p == Paid(S)
               q == SumFunctionOnSet(income, S)
    <3>1. p \in Nat /\ q \in Nat BY <2>1, <2>2, <2>3
    <3>2. p >= q BY <1>1, <2>5 DEF ReportInv, NothingIsMissed
    <3>3. SumFunctionOnSet(income', S) = q + (IF date \in S THEN amount ELSE 0)
      BY <1>6, <2>1
    <3>4. Paid(S)' = p - (IF was \in S THEN old ELSE 0) + (IF date \in S THEN old + amount ELSE 0)
      BY <1>4
    <3>5. date \in S <=> date >= x BY DEF From
    <3>6. was \in S <=> was >= x BY <1>2 DEF From
    <3>7. old = 0 \/ date >= was
      <4>1. ~(old > 0 /\ date < was) BY <1>1, <2>5, Zenon
      <4> QED BY <1>2, <4>1
    <3> HIDE DEF p, q, S
    <3>8. CASE date \in S
      <4>1. SumFunctionOnSet(income', S) = q + amount BY <3>3, <3>8
      <4>2. Paid(S)' = p - (IF was \in S THEN old ELSE 0) + (old + amount) BY <3>4, <3>8
      <4>3. CASE was \in S
        <5>1. Paid(S)' = p - old + (old + amount) BY <4>2, <4>3
        <5> QED BY <1>2, <3>1, <3>2, <4>1, <5>1 DEF S
      <4>4. CASE was \notin S
        <5>1. Paid(S)' = p - 0 + (old + amount) BY <4>2, <4>4
        <5> QED BY <1>2, <3>1, <3>2, <4>1, <5>1 DEF S
      <4> QED BY <4>3, <4>4
    <3>9. CASE date \notin S
      <4>1. SumFunctionOnSet(income', S) = q BY <3>1, <3>3, <3>9
      <4>2. was \in S => old = 0 BY <1>2, <3>5, <3>6, <3>7, <3>9
      <4>3. (IF was \in S THEN old ELSE 0) = 0 BY <4>2
      <4>4. Paid(S)' = p BY <3>1, <3>4, <3>9, <4>3
      <4> QED BY <3>2, <4>1, <4>4 DEF S
    <3> QED BY <3>8, <3>9
  <2>6. \A x \in Int : From(x)' = From(x) BY DEF From
  <2>7. ~backdated' => \A x \in Int : Paid(From(x))' >= SumFunctionOnSet(income', From(x))
    BY <2>5
  <2> QED BY <2>4, <2>7 DEF NothingIsMissed
<1>8. AnswersStand' BY <1>1 DEF AnswersStand
<1> QED BY <1>1, <1>3, <1>5, <1>7, <1>8 DEF ReportInv

\* Nothing was paid: what an unfinished report has yet to ask stays the same.
LEMMA PaidStays ==
    ASSUME UNCHANGED booking
    PROVE  /\ \A when : Paid(when)' = Paid(when)
           /\ \A x, y : SumAmountPaid(x, y)' = SumAmountPaid(x, y)
           /\ \A x, y : DailyRevenue(x, y)' = DailyRevenue(x, y)
BY DEF Paid, SumAmountPaid, DailyRevenue

LEMMA MissedStays ==
    ASSUME ReportInv, UNCHANGED <<booking, income, backdated>> PROVE NothingIsMissed'
BY PaidStays DEF ReportInv, NothingIsMissed, From

\* The report moves alone.
LEMMA ReportKeeps ==
    ASSUME ReportInv, UNCHANGED <<booking, income, backdated, today>>,
           report' \in ReportRec, unsettled' \in BOOLEAN,
           report'.pc = "done" => report'.awaited = {}, AnswersStand'
    PROVE  ReportInv'
BY MissedStays DEF ReportInv

\* A query is answered: its figure is what it is now, and the others stand.
LEMMA SumKeeps ==
    ASSUME ReportInv, NEW figure \in Figures \ {"dailyRevenue"}, NEW amount \in Nat,
           figure = "total" => amount = Paid(Days),
           figure = "last30Days" => amount = SumAmountPaid(Now - Window, Now),
           figure = "previous30Days" => amount = SumAmountPaid(Now - 2 * Window, Now - Window),
           SumFigure(figure, amount)
    PROVE  ReportInv'
<1>1. /\ report.pc = "running" /\ figure \in report.awaited
      /\ UNCHANGED <<booking, today, income, backdated, unsettled>>
      /\ report' = [report EXCEPT !.sum[figure] = amount, !.awaited = report.awaited \ {figure},
                                  !.pc = Progressed(figure)]
  BY DEF SumFigure, Answered, Awaiting
<1>2. report \in ReportRec BY DEF ReportInv
<1>3. Progressed(figure) \in {"running", "done"} BY DEF Progressed
<1>4. /\ report' \in ReportRec
      /\ report'.now = report.now /\ report'.range = report.range /\ report'.days = report.days
      /\ report'.awaited = report.awaited \ {figure} /\ report'.pc = Progressed(figure)
      /\ report'.sum[figure] = amount
      /\ \A f \in Figures \ {figure} : report'.sum[f] = report.sum[f]
  BY <1>1, <1>2, <1>3 DEF ReportRec
<1>5. report'.pc = "done" => report'.awaited = {}
  BY <1>4 DEF Progressed, Awaiting
<1>6. AnswersStand'
  <2>1. Now' = Now BY <1>4 DEF Now
  <2>2. {"total", "last30Days", "previous30Days"} \subseteq Figures BY DEF Figures
  <2>3. ~unsettled =>
          /\ "total" \notin report.awaited => report.sum["total"] = Paid(Days)
          /\ "last30Days" \notin report.awaited =>
                 report.sum["last30Days"] = SumAmountPaid(Now - Window, Now)
          /\ "previous30Days" \notin report.awaited =>
                 report.sum["previous30Days"] = SumAmountPaid(Now - 2 * Window, Now - Window)
          /\ "dailyRevenue" \notin report.awaited =>
                 report.days = DailyRevenue(Now - report.range, Now)
    BY <1>1 DEF ReportInv, AnswersStand
  <2>4. /\ Paid(Days)' = Paid(Days)
        /\ \A x, y : SumAmountPaid(x, y)' = SumAmountPaid(x, y)
        /\ \A x, y : DailyRevenue(x, y)' = DailyRevenue(x, y)
    BY <1>1, PaidStays DEF Days
  <2>5. ~unsettled' =>
          /\ "total" \notin report'.awaited => report'.sum["total"] = Paid(Days)
          /\ "last30Days" \notin report'.awaited =>
                 report'.sum["last30Days"] = SumAmountPaid(Now - Window, Now)
          /\ "previous30Days" \notin report'.awaited =>
                 report'.sum["previous30Days"] = SumAmountPaid(Now - 2 * Window, Now - Window)
          /\ "dailyRevenue" \notin report'.awaited =>
                 report'.days = DailyRevenue(Now - report'.range, Now)
    BY <1>1, <1>4, <2>2, <2>3
  <2> QED BY <2>1, <2>4, <2>5 DEF AnswersStand, Now
<1> QED BY <1>1, <1>4, <1>5, <1>6, ReportKeeps DEF ReportInv

LEMMA DailyNat == ASSUME booking \in Invoices PROVE \A x, y : DailyRevenue(x, y) \in [Days -> Nat]
BY PaidNat DEF DailyRevenue

LEMMA DailyKeeps == ASSUME ReportInv, GetDailyRevenue PROVE ReportInv'
<1> DEFINE figure == "dailyRevenue"
           days == DailyRevenue(Now - report.range, Now)
<1>1. /\ report.pc = "running" /\ figure \in report.awaited
      /\ UNCHANGED <<booking, today, income, backdated, unsettled>>
      /\ report' = [report EXCEPT !.days = days, !.awaited = report.awaited \ {figure},
                                  !.pc = Progressed(figure)]
  BY DEF GetDailyRevenue, Answered, Awaiting, Now
<1>2. report \in ReportRec /\ days \in [Days -> Nat] BY DailyNat DEF ReportInv
<1>3. Progressed(figure) \in {"running", "done"} BY DEF Progressed
<1> HIDE DEF days
<1>4. /\ report' \in ReportRec
      /\ report'.now = report.now /\ report'.range = report.range /\ report'.days = days
      /\ report'.awaited = report.awaited \ {figure} /\ report'.pc = Progressed(figure)
      /\ report'.sum = report.sum
  BY <1>1, <1>2, <1>3 DEF ReportRec
<1>5. report'.pc = "done" => report'.awaited = {}
  BY <1>4 DEF Progressed, Awaiting
<1>6. AnswersStand'
  <2>1. Now' = Now BY <1>4 DEF Now
  <2>2. ~unsettled =>
          /\ "total" \notin report.awaited => report.sum["total"] = Paid(Days)
          /\ "last30Days" \notin report.awaited =>
                 report.sum["last30Days"] = SumAmountPaid(Now - Window, Now)
          /\ "previous30Days" \notin report.awaited =>
                 report.sum["previous30Days"] = SumAmountPaid(Now - 2 * Window, Now - Window)
    BY <1>1 DEF ReportInv, AnswersStand
  <2>3. /\ Paid(Days)' = Paid(Days)
        /\ \A x, y : SumAmountPaid(x, y)' = SumAmountPaid(x, y)
        /\ \A x, y : DailyRevenue(x, y)' = DailyRevenue(x, y)
    BY <1>1, PaidStays DEF Days
  <2>4. ~unsettled' =>
          /\ "total" \notin report'.awaited => report'.sum["total"] = Paid(Days)
          /\ "last30Days" \notin report'.awaited =>
                 report'.sum["last30Days"] = SumAmountPaid(Now - Window, Now)
          /\ "previous30Days" \notin report'.awaited =>
                 report'.sum["previous30Days"] = SumAmountPaid(Now - 2 * Window, Now - Window)
    BY <1>1, <1>4, <2>2
  <2>5. report'.days = DailyRevenue(Now - report'.range, Now) BY <1>4 DEF days
  <2> QED BY <2>1, <2>3, <2>4, <2>5 DEF AnswersStand, Now
<1> QED BY <1>1, <1>4, <1>5, <1>6, ReportKeeps DEF ReportInv

LEMMA ReportStep == ASSUME ReportInv, [ReportNext]_reportVars PROVE ReportInv'
<1>0. booking \in Invoices /\ \A x, y : SumAmountPaid(x, y) \in Nat
  BY PaidNat DEF ReportInv, SumAmountPaid
<1>1. CASE GetTotal
  <2>1. Paid(Days) \in Nat BY <1>0, PaidNat
  <2> QED BY <1>1, <2>1, SumKeeps DEF GetTotal, Figures
<1>2. CASE GetLast BY <1>0, <1>2, SumKeeps DEF GetLast, Figures, Now
<1>3. CASE GetPrevious BY <1>0, <1>3, SumKeeps DEF GetPrevious, Figures, Now
<1>4. ASSUME NEW range \in Ranges, GetSummary(range) PROVE ReportInv'
  <2>1. /\ report' = [pc |-> "running", now |-> today, range |-> range, awaited |-> Figures,
                      sum |-> NoSummary.sum, days |-> NoSummary.days]
        /\ UNCHANGED <<booking, today, income, backdated>> /\ unsettled' = FALSE
    BY <1>4 DEF GetSummary, NoSummary
  <2>2. report' \in ReportRec BY <2>1, NoSummaryIs DEF ReportRec, ReportInv
  <2>3. AnswersStand' BY <2>1 DEF AnswersStand, Figures
  <2> QED BY <2>1, <2>2, <2>3, ReportKeeps
<1>5. CASE ReportEnds
  <2>1. report' = NoSummary /\ UNCHANGED <<booking, today, income, backdated, unsettled>>
    BY <1>5 DEF ReportEnds
  <2>2. AnswersStand' BY <2>1, NoSummaryIs DEF AnswersStand
  <2> QED BY <2>1, <2>2, NoSummaryIs, ReportKeeps DEF ReportInv
<1>6. CASE DayPasses \/ UNCHANGED reportVars
  <2>1. /\ UNCHANGED <<booking, report, income, backdated, unsettled>>
        /\ today' \in Days
    BY <1>6, ReportsAssumption DEF DayPasses, reportVars, ReportInv, Days
  <2>2. AnswersStand'
    BY <2>1, PaidStays DEF AnswersStand, ReportInv, Now, Days
  <2> QED BY <2>1, <2>2, MissedStays DEF ReportInv
<1> QED BY <1>1, <1>2, <1>3, <1>4, <1>5, <1>6, PayKeeps, DailyKeeps DEF ReportNext

-----------------------------------------------------------------------------
(* Theorems *)

LEMMA ReportInvariant == ReportSpec => []ReportInv
<1>1. ReportInit => ReportInv BY ReportInitOK
<1>2. ReportInv /\ [ReportNext]_reportVars => ReportInv' BY ReportStep
<1> QED BY <1>1, <1>2, PTL DEF ReportSpec

\* The instants from one on and before another.
Within(from, to) == {d \in Days : from <= d /\ d < to}

\* A chart that holds all these instants shows what was paid in them.
LEMMA ChartedIsPaid ==
    ASSUME ReportInv, NEW begin \in Int, NEW end \in Int,
           report.days = DailyRevenue(begin, end),
           NEW from \in Int, NEW to \in Int, begin <= from, to <= end
    PROVE  Charted(from, to) = Paid(Within(from, to))
<1> DEFINE D == Within(from, to)
<1>1. D \in SUBSET Days /\ Days \subseteq Int BY DaysAreFinite DEF Within
<1>2. \A d \in D : report.days[d] = Paid({d})
  <2> SUFFICES ASSUME NEW d \in D PROVE report.days[d] = Paid({d}) OBVIOUS
  <2>1. d \in Days /\ d \in Int /\ from <= d /\ d < to BY <1>1 DEF Within
  <2>2. begin <= d /\ d <= end BY <2>1
  <2> QED BY <2>1, <2>2 DEF DailyRevenue
<1>3. booking \in Invoices BY DEF ReportInv
<1>4. SumFunctionOnSet(report.days, D) = Paid(D)
  <2> HIDE DEF D
  <2> QED BY <1>1, <1>2, <1>3, PaidByDay
<1> QED BY <1>4 DEF Charted, Within

LEMMA ReportsAreRight == ASSUME ReportInv PROVE RevenueIsCounted
<1> DEFINE last     == report.sum["last30Days"]
           previous == report.sum["previous30Days"]
           start30  == Now - Window
           start60  == Now - 2 * Window
<1> SUFFICES ASSUME report.pc = "done", ~unsettled
             PROVE  /\ report.sum["total"] = Income(0, LastDay + 1)
                    /\ last + previous <= report.sum["total"]
                    /\ report.range >= Window => Charted(start30, Now) = last
                    /\ report.range >= 2 * Window => Charted(start60, start30) = previous
                    /\ backdated \/ last + Paid({d \in Days : d >= Now})
                                        >= Income(start30, Now)
  BY DEF RevenueIsCounted, Now
<1>1. /\ booking \in Invoices /\ report \in ReportRec /\ income \in [Days -> Nat]
      /\ report.awaited = {}
  BY DEF ReportInv
<1>2. /\ report.sum["total"] = Paid(Days)
      /\ last = SumAmountPaid(start30, Now)
      /\ previous = SumAmountPaid(start60, start30)
      /\ report.days = DailyRevenue(Now - report.range, Now)
  BY <1>1 DEF ReportInv, AnswersStand
<1>3. /\ Now \in Int /\ Now \in Nat /\ Now <= LastDay /\ Window \in Nat /\ Window > 0
      /\ LastDay \in Nat /\ report.range \in Nat
  <2>1. report.now \in Days /\ report.range \in Ranges \cup {0} BY <1>1 DEF ReportRec
  <2>2. Window \in Nat /\ Window > 0 /\ LastDay \in Nat /\ \A n \in Ranges : n \in Nat
    BY ReportsAssumption
  <2>3. report.range \in Nat BY <2>1, <2>2
  <2>4. Now \in Int /\ Now \in Nat /\ Now <= LastDay BY <2>1, <2>2 DEF Now, Days
  <2> QED BY <2>2, <2>3, <2>4
<1>4. /\ start30 \in Int /\ start60 \in Int /\ start60 <= start30 /\ start30 <= Now
      /\ Now - report.range \in Int
  BY <1>3
<1>5. \A when : Paid(when) \in Nat BY <1>1, PaidNat
<1>6. last = Paid(Within(start30, Now)) /\ previous = Paid(Within(start60, start30))
  BY <1>2 DEF SumAmountPaid, Within
<1> HIDE DEF last, previous, start30, start60
<1>7. report.sum["total"] = Income(0, LastDay + 1)
  <2>1. {d \in Days : 0 <= d /\ d < LastDay + 1} = Days BY <1>3 DEF Days
  <2>2. Paid(Days) = SumFunctionOnSet(income, Days) BY DEF ReportInv, NothingIsMissed
  <2> QED BY <1>2, <2>1, <2>2 DEF Income
<1>8. last + previous <= report.sum["total"]
  <2> DEFINE A == Within(start30, Now)
             B == Within(start60, start30)
             C == Days \ (A \cup B)
  <2>1. A \cap B = {}
    <3>1. ~\E d \in Days : start30 <= d /\ d < start30 BY <1>4, DaysAreFinite
    <3> QED BY <3>1 DEF Within
  <2>2. (A \cup B) \cap C = {} /\ (A \cup B) \cup C = Days BY DEF Within
  <2> HIDE DEF A, B, C
  <2>3. Paid(A \cup B) = Paid(A) + Paid(B) BY <1>1, <2>1, PaidAddsUp
  <2>4. Paid(Days) = Paid(A \cup B) + Paid(C) BY <1>1, <2>2, PaidAddsUp
  <2>5. Paid(A) \in Nat /\ Paid(B) \in Nat /\ Paid(C) \in Nat BY <1>5
  <2>6. last = Paid(A) /\ previous = Paid(B) BY <1>6 DEF A, B
  <2> QED BY <1>2, <2>3, <2>4, <2>5, <2>6
<1>9. report.range >= Window => Charted(start30, Now) = last
  <2> SUFFICES ASSUME report.range >= Window PROVE Charted(start30, Now) = last OBVIOUS
  <2>1. Now - report.range <= start30 BY <1>3 DEF start30
  <2> QED BY <1>2, <1>3, <1>4, <1>6, <2>1, ChartedIsPaid
<1>10. report.range >= 2 * Window => Charted(start60, start30) = previous
  <2> SUFFICES ASSUME report.range >= 2 * Window
               PROVE  Charted(start60, start30) = previous
    OBVIOUS
  <2>1. Now - report.range <= start60 BY <1>3 DEF start60
  <2> QED BY <1>2, <1>3, <1>4, <1>6, <2>1, ChartedIsPaid
<1>11. backdated \/ last + Paid({d \in Days : d >= Now}) >= Income(start30, Now)
  <2> SUFFICES ASSUME ~backdated
               PROVE  last + Paid(From(Now)) >= Income(start30, Now)
    BY DEF From
  <2> DEFINE A == Within(start30, Now)
  <2>1. A \cap From(Now) = {} /\ A \cup From(Now) = From(start30)
    <3>1. \A d \in Days : d \in Int BY DaysAreFinite
    <3>2. \A d \in Days : ~(d < Now /\ d >= Now) BY <1>3, <3>1
    <3>3. \A d \in Days : (start30 <= d /\ d < Now) \/ d >= Now <=> d >= start30
      BY <1>3, <1>4, <3>1
    <3>4. A \cap From(Now) = {} BY <3>2 DEF Within, From
    <3>5. A \cup From(Now) = From(start30) BY <3>3 DEF Within, From
    <3> QED BY <3>4, <3>5
  <2>2. Paid(From(start30)) = Paid(A) + Paid(From(Now)) BY <1>1, <2>1, PaidAddsUp
  <2>3. Paid(From(start30)) >= SumFunctionOnSet(income, From(start30))
    BY <1>4 DEF ReportInv, NothingIsMissed
  <2>4. A \in SUBSET Days /\ From(Now) \in SUBSET Days BY DEF Within, From
  <2> HIDE DEF A
  <2>5. /\ IsFiniteSet(A) /\ IsFiniteSet(From(Now))
        /\ SumFunctionOnSet(income, A) \in Nat /\ SumFunctionOnSet(income, From(Now)) \in Nat
        /\ IntegerOn(income, A \cup From(Now))
    <3>1. A \cup From(Now) \in SUBSET Days BY <2>4
    <3> QED BY <1>1, <2>4, <3>1, IncomeIs
  <2>6. SumFunctionOnSet(income, From(start30))
            = SumFunctionOnSet(income, A) + SumFunctionOnSet(income, From(Now))
    <3>1. SumFunctionOnSet(income, A \cup From(Now))
              = SumFunctionOnSet(income, A) + SumFunctionOnSet(income, From(Now))
      BY <2>1, <2>5, SumDisjoint
    <3> QED BY <2>1, <3>1
  <2>7. Income(start30, Now) = SumFunctionOnSet(income, A) BY DEF Income, A, Within
  <2>8. last = Paid(A) BY <1>6 DEF A
  <2>9. Paid(A) \in Nat /\ Paid(From(Now)) \in Nat BY <1>5
  <2> QED BY <2>2, <2>3, <2>5, <2>6, <2>7, <2>8, <2>9
<1> QED BY <1>7, <1>8, <1>9, <1>10, <1>11

\* The table, the clock and the reports keep their types (amount_paid,
\* payment_date, the answer of getSummary).
THEOREM ReportTypesHold == ReportSpec => []ReportTypeOK
<1>1. ReportInv => ReportTypeOK BY DEF ReportInv, ReportTypeOK, ReportRec, Invoices
<1> QED BY <1>1, ReportInvariant, PTL

\* For every number of invoices and every window, a report no payment came into
\* counts all revenue once, its chart agrees with its figures, and no money is
\* counted before it came in unless a payment was dated back (getSummary,
\* sumAmountPaid, dailyRevenue, recordPayment).
THEOREM RevenueCounts == ReportSpec => []RevenueIsCounted
<1>1. ReportInv => RevenueIsCounted BY ReportsAreRight
<1> QED BY <1>1, ReportInvariant, PTL

-----------------------------------------------------------------------------
(***************************************************************************)
(* Listing: a walk over the pages of a list.                               *)
(***************************************************************************)

(* The order of a list *)

\* No other row came in its millisecond.
Uniquely(r) == \A q \in Records \ {r} : table[q] # table[r]

\* The rows that come before r in every order, if it is unique.
Newer(r) == {q \in Present : table[q] > table[r]}
Rank(r) == Cardinality(Newer(r))

TableType == [Records -> -1 .. MaxStamp]

LEMMA PresentIsFinite ==
    /\ IsFiniteSet(Present) /\ Cardinality(Present) \in Nat /\ Present \subseteq Records
    /\ \A r : IsFiniteSet(Newer(r)) /\ Rank(r) \in Nat /\ Newer(r) \subseteq Present
<1>1. Present \in SUBSET Records BY DEF Present
<1>2. IsFiniteSet(Present) BY <1>1, FS_Subset, ListingAssumption
<1>3. \A r : Newer(r) \in SUBSET Present BY DEF Newer
<1>4. \A r : IsFiniteSet(Newer(r)) BY <1>2, <1>3, FS_Subset
<1> QED BY <1>1, <1>2, <1>3, <1>4, FS_CardinalityType DEF Rank

LEMMA StampsAre ==
    ASSUME table \in TableType PROVE \A r \in Records : table[r] \in Int
BY ListingAssumption DEF TableType

\* A unique row has its place in every order, right after the newer ones.
LEMMA PlaceOfUnique ==
    ASSUME table \in TableType, NEW r \in Present, Uniquely(r), NEW sorted \in NewestFirst
    PROVE  /\ Rank(r) + 1 \in DOMAIN sorted
           /\ sorted[Rank(r) + 1] = r
           /\ Rank(r) < Cardinality(Present)
<1> DEFINE n == Cardinality(Present)
<1>1. n \in Nat /\ IsFiniteSet(Present) /\ Present \subseteq Records BY PresentIsFinite
<1>2. /\ sorted \in [1 .. n -> Present]
      /\ \A i, j \in 1 .. n : i < j => sorted[i] # sorted[j] /\ table[sorted[i]] >= table[sorted[j]]
  <2>1. sorted \in [1 .. n -> Present] BY DEF NewestFirst
  <2>2. DOMAIN sorted = 1 .. n BY <2>1
  <2> QED BY <2>1, <2>2 DEF NewestFirst
<1> HIDE DEF n
<1>3. sorted \in Injection(1 .. n, Present)
  <2>1. \A i, j \in 1 .. n : i < j \/ j < i \/ i = j BY <1>1
  <2>2. \A i, j \in 1 .. n : sorted[i] = sorted[j] => i = j BY <1>2, <2>1
  <2> QED BY <1>2, <2>2 DEF Injection, IsInjective
<1>4. sorted \in Surjection(1 .. n, Present)
  <2>1. Cardinality(1 .. n) = n BY <1>1, FS_Interval
  <2> QED BY <1>1, <1>3, <2>1, FS_Injection DEF n
<1>5. PICK k \in 1 .. n : sorted[k] = r BY <1>4 DEF Surjection
<1> DEFINE m == k - 1
           head == [i \in 1 .. m |-> sorted[i]]
<1>6. m \in Nat /\ k = m + 1 /\ \A i \in 1 .. m : i \in 1 .. n /\ i < k BY <1>1, <1>5
<1> HIDE DEF m
<1>7. \A q \in Records : table[q] \in Int BY StampsAre
<1>8. \A i \in 1 .. m : sorted[i] \in Newer(r)
  <2> SUFFICES ASSUME NEW i \in 1 .. m PROVE sorted[i] \in Newer(r) OBVIOUS
  <2>1. sorted[i] \in Present /\ sorted[i] # r /\ table[sorted[i]] >= table[r]
    BY <1>2, <1>5, <1>6
  <2>2. table[sorted[i]] # table[r] /\ sorted[i] \in Records /\ r \in Records
    BY <1>1, <2>1 DEF Uniquely
  <2> QED BY <1>7, <2>1, <2>2 DEF Newer
<1>9. \A q \in Newer(r) : \E i \in 1 .. m : sorted[i] = q
  <2> SUFFICES ASSUME NEW q \in Newer(r) PROVE \E i \in 1 .. m : sorted[i] = q OBVIOUS
  <2>1. q \in Present /\ table[q] > table[r] /\ q \in Records /\ r \in Records
    BY <1>1 DEF Newer
  <2>2. PICK i \in 1 .. n : sorted[i] = q BY <1>4, <2>1 DEF Surjection
  <2>3. ~(table[r] >= table[q]) BY <1>7, <2>1
  <2>4. i # k /\ ~(k < i) BY <1>2, <1>5, <2>1, <2>2, <2>3, <1>7
  <2>5. i \in 1 .. m BY <1>1, <1>5, <1>6, <2>2, <2>4
  <2> QED BY <2>2, <2>5
<1>10. head \in Bijection(1 .. m, Newer(r))
  <2>1. head \in [1 .. m -> Newer(r)] BY <1>8
  <2>2. \A i, j \in 1 .. m : head[i] = head[j] => i = j
    BY <1>3, <1>6 DEF Injection, IsInjective
  <2>3. \A q \in Newer(r) : \E i \in 1 .. m : head[i] = q BY <1>9
  <2> QED BY <2>1, <2>2, <2>3 DEF Bijection, Injection, Surjection, IsInjective
<1>11. Rank(r) = m
  BY <1>6, <1>10, FS_CountingElements DEF Rank, ExistsBijection
<1>12. DOMAIN sorted = 1 .. n BY <1>2
<1>13. m < n BY <1>1, <1>5, <1>6
<1> QED BY <1>5, <1>6, <1>11, <1>12, <1>13 DEF n

\* There are rows in some order, so a unique row's rank is below their number.
LEMMA RankIsBelow ==
    ASSUME NEW r \in Present, table \in TableType
    PROVE  Rank(r) < Cardinality(Present)
<1>1. r \notin Newer(r) BY StampsAre, PresentIsFinite DEF Newer
<1>2. Newer(r) \in SUBSET Present /\ Newer(r) # Present BY <1>1, PresentIsFinite
<1>3. Rank(r) <= Cardinality(Present) /\ Rank(r) # Cardinality(Present)
  BY <1>2, PresentIsFinite, FS_Subset DEF Rank
<1> QED BY <1>3, PresentIsFinite

-----------------------------------------------------------------------------
(* Pages *)

\* A walk's page and limit are sent as they are.
LEMMA PagingIs ==
    ASSUME NEW page \in Nat \ {0}, NEW limit \in 1 .. MaxLimit
    PROVE  /\ NormalizePaging(page, limit).skip = (page - 1) * limit
           /\ NormalizePaging(page, limit).limit = limit
<1>1. page > 0 /\ limit # 0 /\ ~(limit > MaxLimit) BY ListingAssumption
<1> QED BY <1>1 DEF NormalizePaging

LEMMA FirstLimitIs ==
    ASSUME NEW limit \in 0 .. MaxLimit PROVE NormalizePaging(0, limit).limit \in 1 .. MaxLimit
BY ListingAssumption DEF NormalizePaging

\* The rows before a page, and the pages of more rows than that.
LEMMA NextPage ==
    ASSUME NEW page \in Nat \ {0}, NEW limit \in Nat \ {0}
    PROVE  /\ (page - 1) * limit \in Nat
           /\ page * limit = (page - 1) * limit + limit
           /\ (page + 1) - 1 = page
<1>1. \A p, l \in Nat : p * l \in Nat /\ (p + 1) * l = p * l + l OBVIOUS
<1>2. page - 1 \in Nat /\ page = (page - 1) + 1 OBVIOUS
<1> QED BY <1>1, <1>2

LEMMA Quotient ==
    ASSUME NEW a \in Nat, NEW b \in Nat \ {0}
    PROVE  a \div b \in Nat /\ a < b * (a \div b) + b
<1>1. \A x, y \in Int : y > 0 => x < (x \div y) * y + y BY Z3
<1>2. \A x, y \in Int : y > 0 /\ x >= 0 => x \div y >= 0 BY Z3
<1>3. a \div b \in Int OBVIOUS
<1>4. a \in Int /\ b \in Int /\ b > 0 /\ a >= 0 OBVIOUS
<1>5. a < (a \div b) * b + b /\ a \div b >= 0 BY <1>1, <1>2, <1>4
<1>6. (a \div b) * b = b * (a \div b) BY <1>3
<1> QED BY <1>3, <1>5, <1>6

LEMMA MorePages ==
    ASSUME NEW page \in Nat \ {0}, NEW limit \in Nat \ {0}, NEW count \in Nat,
           count > page * limit
    PROVE  page < TotalPages(count, limit)
<1> DEFINE a == count + limit - 1
           q == a \div limit
<1>1. a \in Nat /\ a >= page * limit + limit
  <2>1. page * limit \in Nat OBVIOUS
  <2> QED BY <2>1
<1> HIDE DEF a
<1>2. q \in Nat /\ a < limit * q + limit BY <1>1, Quotient
<1> HIDE DEF q
<1>3. ASSUME q <= page PROVE FALSE
  <2>1. limit * q <= limit * page BY <1>2, <1>3
  <2>2. limit * page = page * limit /\ limit * q \in Nat BY <1>2
  <2> QED BY <1>1, <1>2, <2>1, <2>2
<1>4. q > page BY <1>2, <1>3
<1> QED BY <1>4 DEF TotalPages, q, a

-----------------------------------------------------------------------------
(* The inductive invariant *)

WalkRec == [pc : {"idle", "query", "found", "counted", "answered", "done"},
            page : Nat \ {0}, limit : 1 .. MaxLimit, found : SUBSET Records,
            count : Int, had : SUBSET Records, shown : SUBSET Records]

Before == (walk.page - 1) * walk.limit
UpToHere == walk.page * walk.limit

\* A unique row that was there at the start and was not shown yet is not on the
\* pages before this one; if it is not on this one either, the count tells that
\* there is another.
NothingIsPassed ==
    \A r \in walk.had :
        Uniquely(r) =>
            /\ walk.pc \in {"query", "counted"} => r \in walk.shown \/ Rank(r) >= Before
            /\ walk.pc \in {"found", "answered"} =>
                  r \in walk.shown \cup walk.found \/ Rank(r) >= UpToHere
            /\ walk.pc = "answered" =>
                  r \in walk.shown \cup walk.found \/ walk.count > UpToHere
            /\ walk.pc = "done" => r \in walk.shown

\* No row is newer than the clock; during an undisturbed walk the rows it began
\* with are there.
ListingInv ==
    /\ table \in TableType
    /\ now \in 0 .. MaxStamp
    /\ \A r \in Records : table[r] <= now
    /\ walk \in WalkRec
    /\ disturbed \in BOOLEAN
    /\ walk.pc \in {"counted", "answered"} => walk.count \in Nat
    /\ walk.pc # "idle" /\ ~disturbed => walk.had \subseteq Present
    /\ walk.pc = "counted" /\ ~disturbed => walk.count = Cardinality(Present)
    /\ walk.pc # "idle" /\ ~disturbed => NothingIsPassed

-----------------------------------------------------------------------------
(* Steps *)

LEMMA ListingInitOK == ASSUME ListingInit PROVE ListingInv
<1>1. NoWalk \in WalkRec /\ NoWalk.pc = "idle" BY ListingAssumption DEF NoWalk, WalkRec
<1>2. table \in TableType /\ \A r \in Records : table[r] = -1
  BY ListingAssumption DEF ListingInit, TableType
<1>3. now = 0 /\ 0 \in 0 .. MaxStamp /\ walk = NoWalk /\ disturbed \in BOOLEAN
  <2>1. disturbed = FALSE /\ now = 0 /\ walk = NoWalk BY DEF ListingInit
  <2>2. disturbed \in BOOLEAN BY <2>1, Zenon
  <2> QED BY <2>1, <2>2, ListingAssumption
<1>4. \A r \in Records : table[r] <= now BY <1>2, <1>3
<1> QED BY <1>1, <1>2, <1>3, <1>4 DEF ListingInv

\* The table stays, and so does every rank.
LEMMA RanksStay ==
    ASSUME UNCHANGED table
    PROVE  /\ Present' = Present
           /\ \A r : (Uniquely(r)' <=> Uniquely(r)) /\ Rank(r)' = Rank(r)
BY DEF Present, Uniquely, Rank, Newer

LEMMA ListingStartKeeps ==
    ASSUME ListingInv, NEW limit \in 0 .. MaxLimit, StartWalk(limit) PROVE ListingInv'
<1>1. /\ walk' = [pc |-> "query", page |-> 1, limit |-> NormalizePaging(0, limit).limit,
                  found |-> {}, count |-> -1, had |-> Present, shown |-> {}]
      /\ disturbed' = FALSE /\ UNCHANGED <<table, now>>
  BY DEF StartWalk, NoWalk
<1>2. walk' \in WalkRec BY <1>1, FirstLimitIs, PresentIsFinite DEF WalkRec
<1>3. Before' = 0
  <2>1. walk'.page - 1 = 0 /\ walk'.limit \in Nat BY <1>1, <1>2, ListingAssumption DEF WalkRec
  <2>2. \A n \in Nat : 0 * n = 0 OBVIOUS
  <2> QED BY <2>1, <2>2 DEF Before
<1>4. \A r : Rank(r)' >= 0 BY <1>1, RanksStay, PresentIsFinite
<1>5. NothingIsPassed' BY <1>1, <1>3, <1>4 DEF NothingIsPassed
<1>6. walk'.had \subseteq Present' BY <1>1, RanksStay
<1> QED BY <1>1, <1>2, <1>5, <1>6 DEF ListingInv

\* The rows of a page: a unique row whose rank is on it is found.
LEMMA ListingFindKeeps == ASSUME ListingInv, FindPage PROVE ListingInv'
<1> DEFINE skip == Before
           limit == walk.limit
<1>1. /\ walk \in WalkRec /\ table \in TableType
      /\ walk.page \in Nat \ {0} /\ limit \in 1 .. MaxLimit /\ limit \in Nat \ {0}
  BY ListingAssumption DEF ListingInv, WalkRec
<1>2. PICK found \in FindAnswers(skip, limit) :
          walk' = [walk EXCEPT !.found = found,
                               !.pc = IF walk.pc = "query" THEN "found" ELSE "answered"]
  BY <1>1, PagingIs DEF FindPage, Before
<1>3. walk.pc \in {"query", "counted"} /\ UNCHANGED <<table, now, disturbed>> BY DEF FindPage
<1>4. PICK sorted \in NewestFirst :
          found = {sorted[i] : i \in DOMAIN sorted \cap (skip + 1 .. skip + limit)}
  BY DEF FindAnswers
<1>5. found \subseteq Records
  <2>1. \A i \in DOMAIN sorted : sorted[i] \in Present BY DEF NewestFirst
  <2> QED BY <1>4, <2>1, PresentIsFinite
<1>6. /\ walk' \in WalkRec /\ walk'.page = walk.page /\ walk'.limit = walk.limit
      /\ walk'.had = walk.had /\ walk'.shown = walk.shown /\ walk'.count = walk.count
      /\ walk'.found = found
      /\ walk'.pc = IF walk.pc = "query" THEN "found" ELSE "answered"
  BY <1>1, <1>2, <1>3, <1>5 DEF WalkRec
<1>7. skip \in Nat /\ UpToHere = skip + limit
  BY <1>1, NextPage DEF Before, UpToHere
<1> HIDE DEF skip, limit
<1>8. ASSUME ~disturbed, NEW r \in walk.had, Uniquely(r), r \notin walk.shown, r \notin found
      PROVE  Rank(r) >= UpToHere
  <2>1. r \in Present /\ Rank(r) >= skip BY <1>3, <1>8 DEF ListingInv, NothingIsPassed, skip
  <2>2. Rank(r) + 1 \in DOMAIN sorted /\ sorted[Rank(r) + 1] = r
    BY <1>1, <1>8, <2>1, PlaceOfUnique
  <2>3. Rank(r) + 1 \notin skip + 1 .. skip + limit BY <1>4, <1>8, <2>2
  <2>4. Rank(r) \in Nat BY PresentIsFinite
  <2> QED BY <1>1, <1>7, <2>1, <2>3, <2>4 DEF limit
<1>9. ~disturbed => NothingIsPassed'
  <2> SUFFICES ASSUME ~disturbed, NEW r \in walk'.had, Uniquely(r)'
               PROVE  /\ r \in walk'.shown \cup walk'.found \/ Rank(r)' >= UpToHere'
                      /\ walk'.pc = "answered" =>
                            r \in walk'.shown \cup walk'.found \/ walk'.count > UpToHere'
    BY <1>3, <1>6 DEF NothingIsPassed
  <2>1. r \in walk.had /\ Uniquely(r) /\ Rank(r)' = Rank(r) /\ UpToHere' = UpToHere
    BY <1>3, <1>6, RanksStay DEF UpToHere
  <2>2. r \in walk.shown \/ r \in found \/ Rank(r) >= UpToHere BY <1>8, <2>1
  <2>3. ASSUME walk'.pc = "answered", r \notin walk.shown, r \notin found
        PROVE  walk'.count > UpToHere
    <3>1. walk.pc = "counted" BY <1>3, <1>6, <2>3
    <3>2. walk.count = Cardinality(Present) /\ r \in Present BY <2>1, <3>1 DEF ListingInv
    <3>3. Rank(r) < Cardinality(Present) BY <1>1, <3>2, RankIsBelow
    <3>4. Rank(r) \in Nat /\ Cardinality(Present) \in Nat BY PresentIsFinite
    <3> QED BY <1>1, <1>6, <1>7, <2>2, <2>3, <3>2, <3>3, <3>4 DEF limit
  <2> QED BY <1>6, <2>1, <2>2, <2>3
<1> QED BY <1>1, <1>3, <1>6, <1>9, RanksStay DEF ListingInv

\* The count: it is above the rank of every row.
LEMMA CountRowsKeeps == ASSUME ListingInv, CountRows PROVE ListingInv'
<1> DEFINE n == Cardinality(Present)
<1>1. /\ walk \in WalkRec /\ table \in TableType
      /\ walk.page \in Nat \ {0} /\ walk.limit \in Nat \ {0}
  BY ListingAssumption DEF ListingInv, WalkRec
<1>2. /\ walk.pc \in {"query", "found"} /\ UNCHANGED <<table, now, disturbed>>
      /\ walk' = [walk EXCEPT !.count = n,
                              !.pc = IF walk.pc = "query" THEN "counted" ELSE "answered"]
  BY DEF CountRows
<1>3. n \in Nat BY PresentIsFinite
<1> HIDE DEF n
<1>4. /\ walk' \in WalkRec /\ walk'.page = walk.page /\ walk'.limit = walk.limit
      /\ walk'.had = walk.had /\ walk'.shown = walk.shown /\ walk'.found = walk.found
      /\ walk'.count = n
      /\ walk'.pc = IF walk.pc = "query" THEN "counted" ELSE "answered"
  <2> DEFINE p == IF walk.pc = "query" THEN "counted" ELSE "answered"
  <2>1. p \in {"idle", "query", "found", "counted", "answered", "done"} OBVIOUS
  <2>2. walk' = [walk EXCEPT !.count = n, !.pc = p] BY <1>2
  <2>3. walk' = [pc |-> p, page |-> walk.page, limit |-> walk.limit, found |-> walk.found,
                 count |-> n, had |-> walk.had, shown |-> walk.shown]
    <3> HIDE DEF p
    <3> QED BY <1>1, <2>2 DEF WalkRec
  <2>4. /\ walk.page \in Nat \ {0} /\ walk.limit \in 1 .. MaxLimit /\ walk.found \subseteq Records
        /\ walk.had \subseteq Records /\ walk.shown \subseteq Records /\ n \in Int
    BY <1>1, <1>3 DEF WalkRec
  <2> HIDE DEF p
  <2>5. walk' \in WalkRec BY <2>1, <2>3, <2>4 DEF WalkRec
  <2> QED BY <2>3, <2>5 DEF p
<1>5. ~disturbed => NothingIsPassed'
  <2> SUFFICES ASSUME ~disturbed, NEW r \in walk'.had, Uniquely(r)'
               PROVE  /\ walk'.pc = "counted" => r \in walk'.shown \/ Rank(r)' >= Before'
                      /\ walk'.pc = "answered" =>
                            /\ r \in walk'.shown \cup walk'.found \/ Rank(r)' >= UpToHere'
                            /\ r \in walk'.shown \cup walk'.found \/ walk'.count > UpToHere'
    BY <1>2, <1>4 DEF NothingIsPassed
  <2>1. /\ r \in walk.had /\ Uniquely(r) /\ Rank(r)' = Rank(r)
        /\ UpToHere' = UpToHere /\ Before' = Before
    BY <1>2, <1>4, RanksStay DEF UpToHere, Before
  <2>2. r \in Present BY <1>2, <2>1 DEF ListingInv
  <2>3. Rank(r) < n /\ Rank(r) \in Nat BY <1>1, <2>2, RankIsBelow, PresentIsFinite DEF n
  <2>4. UpToHere \in Nat BY <1>1, NextPage DEF UpToHere
  <2>5. walk.pc = "query" => r \in walk.shown \/ Rank(r) >= Before
    BY <2>1 DEF ListingInv, NothingIsPassed
  <2>6. walk.pc = "found" => r \in walk.shown \cup walk.found \/ Rank(r) >= UpToHere
    BY <2>1 DEF ListingInv, NothingIsPassed
  <2>7. walk.pc = "found" => r \in walk.shown \cup walk.found \/ n > UpToHere
    BY <1>3, <2>3, <2>4, <2>6
  <2> QED BY <1>2, <1>4, <2>1, <2>5, <2>6, <2>7
<1>6. Present' = Present BY <1>2, RanksStay
<1> QED BY <1>2, <1>3, <1>4, <1>5, <1>6 DEF ListingInv, n

\* The page is shown: if a unique row is still to come, there is another page.
LEMMA ListingReadKeeps == ASSUME ListingInv, ReadPage PROVE ListingInv'
<1> DEFINE more == walk.page < TotalPages(walk.count, walk.limit)
<1>1. /\ walk \in WalkRec /\ walk.page \in Nat \ {0} /\ walk.limit \in Nat \ {0}
  BY ListingAssumption DEF ListingInv, WalkRec
<1>2. /\ walk.pc = "answered" /\ UNCHANGED <<table, now, disturbed>>
      /\ walk' = [walk EXCEPT !.shown = walk.shown \cup walk.found, !.found = {}, !.count = -1,
                              !.pc = IF more THEN "query" ELSE "done",
                              !.page = walk.page + 1]
  BY DEF ReadPage
<1>3. walk.count \in Nat BY <1>2 DEF ListingInv
<1>4. walk.count > UpToHere => more BY <1>1, <1>3, MorePages DEF UpToHere
<1> HIDE DEF more
<1>5. /\ walk' \in WalkRec /\ walk'.page = walk.page + 1 /\ walk'.limit = walk.limit
      /\ walk'.had = walk.had /\ walk'.shown = walk.shown \cup walk.found
      /\ walk'.pc = IF more THEN "query" ELSE "done"
  <2> DEFINE p == IF more THEN "query" ELSE "done"
             next == walk.page + 1
             shown == walk.shown \cup walk.found
  <2>1. /\ p \in {"idle", "query", "found", "counted", "answered", "done"}
        /\ next \in Nat \ {0}
    BY <1>1
  <2>2. walk' = [walk EXCEPT !.shown = shown, !.found = {}, !.count = -1, !.pc = p,
                             !.page = next]
    BY <1>2
  <2>3. /\ walk.limit \in 1 .. MaxLimit /\ shown \subseteq Records
        /\ walk.had \subseteq Records /\ -1 \in Int
    BY <1>1 DEF WalkRec
  <2> HIDE DEF p, next, shown
  <2>4. walk' = [pc |-> p, page |-> next, limit |-> walk.limit, found |-> {},
                 count |-> -1, had |-> walk.had, shown |-> shown]
    BY <1>1, <2>2 DEF WalkRec
  <2>5. walk' \in WalkRec BY <2>1, <2>3, <2>4 DEF WalkRec
  <2> QED BY <2>4, <2>5 DEF p, next, shown
<1>6. Before' = UpToHere BY <1>1, <1>5, NextPage DEF Before, UpToHere
<1>7. ~disturbed => NothingIsPassed'
  <2> SUFFICES ASSUME ~disturbed, NEW r \in walk'.had, Uniquely(r)'
               PROVE  /\ walk'.pc = "query" => r \in walk'.shown \/ Rank(r)' >= Before'
                      /\ walk'.pc = "done" => r \in walk'.shown
    BY <1>5 DEF NothingIsPassed
  <2>1. r \in walk.had /\ Uniquely(r) /\ Rank(r)' = Rank(r)
    BY <1>2, <1>5, RanksStay
  <2>2. /\ r \in walk.shown \cup walk.found \/ Rank(r) >= UpToHere
        /\ r \in walk.shown \cup walk.found \/ walk.count > UpToHere
    BY <1>2, <2>1 DEF ListingInv, NothingIsPassed
  <2> QED BY <1>4, <1>5, <1>6, <2>1, <2>2
<1>8. Present' = Present BY <1>2, RanksStay
<1> QED BY <1>2, <1>5, <1>7, <1>8 DEF ListingInv

LEMMA CloseKeeps == ASSUME ListingInv, CloseWalk PROVE ListingInv'
<1>1. NoWalk \in WalkRec /\ NoWalk.pc = "idle" BY ListingAssumption DEF NoWalk, WalkRec
<1> QED BY <1>1 DEF CloseWalk, ListingInv

\* A row that comes pushes others back, and brings none forward.
LEMMA AddKeeps == ASSUME ListingInv, NEW r \in Records, AddRecord(r) PROVE ListingInv'
<1>1. /\ table[r] < 0 /\ r \notin walk.had /\ UNCHANGED <<now, walk>>
      /\ table' = [table EXCEPT ![r] = now]
      /\ disturbed' = (disturbed \/ walk.pc \in {"found", "counted"})
  BY DEF AddRecord
<1>2. table \in TableType /\ now \in 0 .. MaxStamp /\ now \in Int /\ now >= 0
  BY ListingAssumption DEF ListingInv
<1>3. /\ table' \in TableType
      /\ \A q \in Records : table'[q] = IF q = r THEN now ELSE table[q]
      /\ \A q \in Records : table[q] \in Int /\ table'[q] \in Int
  BY <1>1, <1>2, StampsAre, ListingAssumption DEF TableType
<1>4. \A q \in Records : table'[q] <= now BY <1>1, <1>2, <1>3 DEF ListingInv
<1>5. Present' = Present \cup {r} BY <1>2, <1>3 DEF Present
<1>6. \A x \in Present : Uniquely(x)' => Uniquely(x)
  <2> SUFFICES ASSUME NEW x \in Present, Uniquely(x)', NEW q \in Records \ {x}
               PROVE  table[q] # table[x]
    BY DEF Uniquely
  <2>1. x \in Records /\ table[x] >= 0 /\ x # r /\ table'[x] = table[x]
    BY <1>1, <1>3 DEF Present
  <2>2. table'[q] # table'[x] BY DEF Uniquely
  <2>3. CASE q = r BY <1>1, <1>3, <2>1, <2>3
  <2>4. CASE q # r BY <1>3, <2>1, <2>2, <2>4
  <2> QED BY <2>3, <2>4
<1>7. ASSUME NEW x \in Present PROVE Rank(x)' >= Rank(x) /\ Rank(x) \in Nat /\ Rank(x)' \in Nat
  <2> DEFINE A == Newer(x)
             B == Newer(x)'
  <2>1. x \in Records /\ x # r /\ table'[x] = table[x] BY <1>1, <1>3 DEF Present
  <2>2. A \subseteq B
    <3> SUFFICES ASSUME NEW q \in A PROVE q \in B OBVIOUS
    <3>1. q \in Present /\ table[q] > table[x] BY DEF Newer
    <3>2. q \in Records /\ q # r /\ table'[q] = table[q] BY <1>1, <1>3, <3>1 DEF Present
    <3> QED BY <1>5, <2>1, <3>1, <3>2 DEF Newer
  <2>3. B \in SUBSET Records
    <3>1. B \subseteq Present' BY DEF Newer
    <3> QED BY <1>5, <3>1, PresentIsFinite
  <2>4. Rank(x) = Cardinality(A) /\ Rank(x)' = Cardinality(B) BY DEF Rank
  <2> HIDE DEF A, B
  <2>5. IsFiniteSet(B) BY <2>3, FS_Subset, ListingAssumption
  <2>6. IsFiniteSet(A) /\ Cardinality(A) <= Cardinality(B) BY <2>2, <2>5, FS_Subset
  <2>7. Cardinality(A) \in Nat /\ Cardinality(B) \in Nat BY <2>5, <2>6, FS_CardinalityType
  <2> QED BY <2>4, <2>6, <2>7
<1>8. disturbed' \in BOOLEAN BY <1>1
<1>9. ASSUME walk'.pc # "idle", ~disturbed'
      PROVE  /\ walk'.had \subseteq Present' /\ NothingIsPassed'
             /\ walk'.pc = "counted" => walk'.count = Cardinality(Present')
  <2>1. ~disturbed /\ walk.pc \notin {"found", "counted"} /\ walk.pc # "idle"
    BY <1>1, <1>9
  <2>2. walk.had \subseteq Present /\ NothingIsPassed BY <2>1 DEF ListingInv
  <2>3. Before' = Before /\ UpToHere' = UpToHere /\ Before \in Int /\ UpToHere \in Int
    <3>1. walk.page \in Nat \ {0} /\ walk.limit \in Nat \ {0}
      BY ListingAssumption DEF ListingInv, WalkRec
    <3> QED BY <1>1, <3>1, NextPage DEF Before, UpToHere
  <2>4. NothingIsPassed'
    <3> SUFFICES ASSUME NEW x \in walk'.had, Uniquely(x)'
                 PROVE  /\ walk'.pc = "query" => x \in walk'.shown \/ Rank(x)' >= Before'
                        /\ walk'.pc = "answered" =>
                              /\ x \in walk'.shown \cup walk'.found \/ Rank(x)' >= UpToHere'
                              /\ x \in walk'.shown \cup walk'.found \/ walk'.count > UpToHere'
                        /\ walk'.pc = "done" => x \in walk'.shown
      BY <1>1, <2>1 DEF NothingIsPassed
    <3>1. x \in walk.had /\ x \in Present /\ Uniquely(x) BY <1>1, <1>6, <2>2
    <3>2. Rank(x)' >= Rank(x) /\ Rank(x) \in Nat /\ Rank(x)' \in Nat BY <1>7, <3>1
    <3>3. /\ walk.pc = "query" => x \in walk.shown \/ Rank(x) >= Before
          /\ walk.pc = "answered" =>
                /\ x \in walk.shown \cup walk.found \/ Rank(x) >= UpToHere
                /\ x \in walk.shown \cup walk.found \/ walk.count > UpToHere
          /\ walk.pc = "done" => x \in walk.shown
      BY <2>2, <3>1 DEF NothingIsPassed
    <3> QED BY <1>1, <2>3, <3>2, <3>3
  <2> QED BY <1>1, <1>5, <2>1, <2>2, <2>4
<1> QED BY <1>1, <1>2, <1>3, <1>4, <1>8, <1>9 DEF ListingInv

LEMMA RemoveKeeps == ASSUME ListingInv, NEW r \in Records, RemoveRecord(r) PROVE ListingInv'
<1>1. table' = [table EXCEPT ![r] = -1] /\ UNCHANGED <<now, walk>> /\ disturbed' = TRUE
  BY DEF RemoveRecord
<1>2. table \in TableType /\ now \in 0 .. MaxStamp /\ -1 \in -1 .. MaxStamp
  BY ListingAssumption DEF ListingInv
<1>3. table' \in TableType /\ \A q \in Records : table'[q] = IF q = r THEN -1 ELSE table[q]
  BY <1>1, <1>2 DEF TableType
<1>4. \A q \in Records : table'[q] <= now BY <1>2, <1>3, ListingAssumption DEF ListingInv
<1> QED BY <1>1, <1>3, <1>4 DEF ListingInv

\* The clock, and no step.
LEMMA TickKeeps == ASSUME ListingInv, Tick \/ UNCHANGED listingVars PROVE ListingInv'
<1>1. UNCHANGED <<table, walk, disturbed>> BY DEF Tick, listingVars
<1>2. now' \in 0 .. MaxStamp /\ now <= now' /\ now \in Int /\ now' \in Int
  BY ListingAssumption DEF Tick, listingVars, ListingInv
<1>3. \A r \in Records : table'[r] <= now'
  BY <1>1, <1>2, StampsAre DEF ListingInv
<1>4. NothingIsPassed => NothingIsPassed'
  BY <1>1, RanksStay DEF NothingIsPassed, Before, UpToHere
<1>5. Present' = Present BY <1>1, RanksStay
<1> QED BY <1>1, <1>2, <1>3, <1>4, <1>5 DEF ListingInv

LEMMA ListingStep == ASSUME ListingInv, [ListingNext]_listingVars PROVE ListingInv'
BY ListingStartKeeps, ListingFindKeeps, CountRowsKeeps, ListingReadKeeps, CloseKeeps, AddKeeps, RemoveKeeps, TickKeeps
DEF ListingNext

-----------------------------------------------------------------------------
(* Theorems *)

LEMMA ListingInvariant == ListingSpec => []ListingInv
<1>1. ListingInit => ListingInv BY ListingInitOK
<1>2. ListingInv /\ [ListingNext]_listingVars => ListingInv' BY ListingStep
<1> QED BY <1>1, <1>2, PTL DEF ListingSpec

\* The table, the clock and the walk keep their types (created_at, the paging of
\* a request).
THEOREM ListingTypesHold == ListingSpec => []ListingTypeOK
<1>1. ListingInv => ListingTypeOK
  BY ListingAssumption DEF ListingInv, ListingTypeOK, TableType, WalkRec
<1> QED BY <1>1, ListingInvariant, PTL

\* However long the list, whatever the limit and however many rows come between
\* the pages, a walk shows every row it began with that shares its millisecond
\* with no other (normalizePaging, paginate, findAndCount).
THEOREM WalksAreComplete == ListingSpec => []WalkShowsEveryRow
<1>1. ListingInv => WalkShowsEveryRow
  BY DEF ListingInv, NothingIsPassed, Uniquely, WalkShowsEveryRow
<1> QED BY <1>1, ListingInvariant, PTL

-----------------------------------------------------------------------------
(***************************************************************************)
(* Migration: the rows of the old database in the new one.                 *)
(***************************************************************************)

(* The inductive invariant *)

\* The collections that have a document.
Existing == {c \in Collections : legacy[c].state # "absent"}

\* What a column is rewritten to by run k once all collections are read ...
Rewritten(k, c, f) ==
    LET target == legacy[c].refs[f.to]
    IN  CASE target = "empty" -> Null
          [] target = "set" /\ f.to \in Existing -> NewId(k, f.to)
          [] OTHER -> IF f.kind = "nullable" THEN Null ELSE OldHex

\* ... the row it makes of the document of c, and all the rows it loads.
RowOf(k, c) ==
    [id |-> NewId(k, c),
     refs |-> {[field |-> f, value |-> Rewritten(k, c, f)] : f \in Fields(c)}]

Load(k) == [c \in Collections |-> IF Loadable(c) THEN {RowOf(k, c)} ELSE {}]

\* How far the run is.
Done(pc, at) == job.pc = pc => at

MigrationInv ==
    /\ run \in 0 .. MaxRuns
    /\ job \in [pc : {"idle", "read", "transform", "truncate", "insert", "commit"},
                at : 1 .. Len(LoadOrder), dry : BOOLEAN]
    /\ idMap \subseteq Collections /\ docs \subseteq Collections
    /\ job.pc # "idle" => run >= 1
    /\ job.pc = "read" =>
          /\ docs = {LoadOrder[i] : i \in 1 .. job.at - 1} \cap Existing
          /\ idMap = docs
    /\ job.pc = "transform" => docs = Existing /\ idMap = Existing
    /\ job.pc \in {"transform", "truncate"} => job.at = 1
    /\ job.pc \in {"truncate", "insert", "commit"} => rows = Load(run)
    /\ job.pc = "insert" => \A i \in 1 .. job.at - 1 : staged[LoadOrder[i]] = rows[LoadOrder[i]]
    /\ job.pc = "commit" => staged = rows
    /\ DOMAIN staged = Collections /\ staged = [c \in Collections |-> staged[c]]
    /\ tables = NoRows \/ \E k \in 1 .. run : tables = Load(k)

-----------------------------------------------------------------------------
(* Collections and rows *)

LEMMA OrderIs ==
    /\ Len(LoadOrder) = 11
    /\ \A i \in 1 .. 11 : LoadOrder[i] \in Collections
    /\ \A c \in Collections : \E i \in 1 .. 11 : c = LoadOrder[i]
<1>1. Len(LoadOrder) = 11 BY DEF LoadOrder
<1> QED BY <1>1 DEF Collections

LEMMA FieldsPoint == \A c \in Collections : \A f \in Fields(c) : f.to \in Collections
<1>1. {"businesses", "customers", "resources", "invoices", "orders", "users"} \subseteq Collections
  <2>1. /\ LoadOrder[1] = "businesses" /\ LoadOrder[2] = "users" /\ LoadOrder[3] = "customers"
        /\ LoadOrder[4] = "resources" /\ LoadOrder[5] = "orders" /\ LoadOrder[6] = "invoices"
    BY DEF LoadOrder
  <2> QED BY <2>1, OrderIs
<1> SUFFICES ASSUME NEW c \in Collections, NEW f \in Fields(c) PROVE f.to \in Collections
  OBVIOUS
<1>2. f.to \in {"businesses", "customers", "resources", "invoices", "orders", "users"}
  BY DEF Fields, Field, BusinessFields, UserFields, CustomerFields, ResourceFields,
         OrderFields, InvoiceFields, AppointmentFields, EmailChangeFields
<1> QED BY <1>1, <1>2

\* Only an empty reference becomes null where it is required.
LEMMA RequiredAreKept ==
    ASSUME NEW k \in Nat \ {0}, NEW c \in Collections, NEW f \in Fields(c), f.kind = "required"
    PROVE  Rewritten(k, c, f) = Null <=> legacy[c].refs[f.to] = "empty"
<1>1. NewId(k, f.to) # Null
  <2>1. NewId(k, f.to).run = k /\ Null.run = 0 BY DEF NewId, Null
  <2> QED BY <2>1
<1>2. OldHex # Null
  <2>1. OldHex.of = "hex" /\ Null.of = "null" BY DEF OldHex, Null
  <2> QED BY <2>1
<1> QED BY <1>1, <1>2 DEF Rewritten

\* Once all is read, the transformers make the rows of this run.
LEMMA TransformLoads ==
    ASSUME run \in Nat \ {0}, docs = Existing, idMap = Existing,
           rows' = [c \in Collections |->
                       {row \in {Transformed(d) : d \in docs \cap {c}} : Valid(c, row)}]
    PROVE  rows' = Load(run)
<1> SUFFICES ASSUME NEW c \in Collections
             PROVE  {row \in {Transformed(d) : d \in docs \cap {c}} : Valid(c, row)}
                    = IF Loadable(c) THEN {RowOf(run, c)} ELSE {}
  BY DEF Load
<1>1. Transformed(c) = RowOf(run, c)
  <2>1. \A f \in Fields(c) : Remap(f, legacy[c].refs[f.to]) = Rewritten(run, c, f)
    BY DEF Remap, Rewritten
  <2> QED BY <2>1 DEF Transformed, RowOf
<1>2. Valid(c, RowOf(run, c)) <=> Loadable(c)
  <2>1. (\A ref \in RowOf(run, c).refs : ref.field.kind = "required" => ref.value # Null)
        <=> \A f \in Fields(c) : f.kind = "required" => Rewritten(run, c, f) # Null
    <3>1. RowOf(run, c).refs = {[field |-> f, value |-> Rewritten(run, c, f)] : f \in Fields(c)}
      BY DEF RowOf
    <3>2. \A f \in Fields(c) :
              LET ref == [field |-> f, value |-> Rewritten(run, c, f)]
              IN  ref \in RowOf(run, c).refs /\ ref.field = f /\ ref.value = Rewritten(run, c, f)
      BY <3>1
    <3>3. ASSUME \A ref \in RowOf(run, c).refs : ref.field.kind = "required" => ref.value # Null,
                 NEW f \in Fields(c), f.kind = "required"
          PROVE  Rewritten(run, c, f) # Null
      BY <3>2, <3>3
    <3>4. ASSUME \A f \in Fields(c) : f.kind = "required" => Rewritten(run, c, f) # Null,
                 NEW ref \in RowOf(run, c).refs, ref.field.kind = "required"
          PROVE  ref.value # Null
      <4>1. PICK f \in Fields(c) : ref = [field |-> f, value |-> Rewritten(run, c, f)]
        BY <3>1
      <4>2. ref.field = f /\ ref.value = Rewritten(run, c, f) BY <4>1
      <4> QED BY <3>4, <4>2
    <3> QED BY <3>3, <3>4
  <2>2. \A f \in Fields(c) : f.kind = "required" =>
            (Rewritten(run, c, f) # Null <=> legacy[c].refs[f.to] # "empty")
    BY RequiredAreKept
  <2> QED BY <2>1, <2>2 DEF Valid, Loadable
<1>3. Loadable(c) => c \in docs BY DEF Loadable, Existing
<1>4. CASE c \in docs
  <2>1. {Transformed(d) : d \in docs \cap {c}} = {RowOf(run, c)} BY <1>1, <1>4
  <2> QED BY <2>1, <1>2
<1>5. CASE c \notin docs
  <2>1. {Transformed(d) : d \in docs \cap {c}} = {} BY <1>5
  <2> QED BY <2>1, <1>3, <1>5
<1> QED BY <1>4, <1>5

-----------------------------------------------------------------------------
(* Steps *)

LEMMA MigrationInitOK == ASSUME MigrationInit PROVE MigrationInv
BY OrderIs, MigrationAssumption DEF MigrationInit, AtRest, MigrationInv, NoJob, NoRows

\* What a load is depends on the legacy database only.
LEMMA LoadStays ==
    ASSUME UNCHANGED legacy
    PROVE  Existing' = Existing /\ \A k : Load(k)' = Load(k)
BY DEF Existing, Load, Loadable, RowOf, Rewritten

\* The script moves to the next collection, or on.
LEMMA NextIs ==
    ASSUME MigrationInv, NEW pc \in {"transform", "commit"}, NextCollection(pc)
    PROVE  /\ job.at \in 1 .. 11
           /\ job' \in [pc : {"idle", "read", "transform", "truncate", "insert", "commit"},
                        at : 1 .. Len(LoadOrder), dry : BOOLEAN]
           /\ job.at < 11 => job'.pc = job.pc /\ job'.at = job.at + 1
           /\ job.at = 11 => job'.pc = pc /\ job'.at = 1
<1>1. /\ job \in [pc : {"idle", "read", "transform", "truncate", "insert", "commit"},
                  at : 1 .. 11, dry : BOOLEAN]
      /\ Len(LoadOrder) = 11
  BY OrderIs DEF MigrationInv
<1>2. CASE job.at < 11
  <2>1. job' = [job EXCEPT !.at = job.at + 1] BY <1>1, <1>2 DEF NextCollection
  <2>2. job.at + 1 \in 1 .. 11 /\ job.at # 11 BY <1>1, <1>2
  <2> QED BY <1>1, <2>1, <2>2
<1>3. CASE job.at = 11
  <2>1. job' = [job EXCEPT !.at = 1, !.pc = pc] BY <1>1, <1>3 DEF NextCollection
  <2>2. ~(job.at < 11) BY <1>3
  <2>3. job' \in [pc : {"idle", "read", "transform", "truncate", "insert", "commit"},
                  at : 1 .. 11, dry : BOOLEAN]
    <3>1. job' = [pc |-> pc, at |-> 1, dry |-> job.dry] /\ job.dry \in BOOLEAN BY <1>1, <2>1
    <3>2. pc \in {"idle", "read", "transform", "truncate", "insert", "commit"} OBVIOUS
    <3>3. 1 \in 1 .. 11 OBVIOUS
    <3> QED BY <3>1, <3>2, <3>3
  <2>4. job'.pc = pc /\ job'.at = 1 BY <1>1, <2>1
  <2> QED BY <1>1, <1>3, <2>2, <2>3, <2>4
<1> QED BY <1>1, <1>2, <1>3

\* The tables after a step that leaves them alone.
LEMMA TablesStay ==
    ASSUME MigrationInv, UNCHANGED <<legacy, run, tables>>
    PROVE  tables' = NoRows \/ \E k \in 1 .. run' : tables' = Load(k)'
BY LoadStays DEF MigrationInv

LEMMA MigrationStartKeeps ==
    ASSUME MigrationInv, NEW dry \in BOOLEAN, StartMigration(dry) PROVE MigrationInv'
<1>1. /\ run < MaxRuns /\ run' = run + 1 /\ UNCHANGED <<legacy, tables>>
      /\ job' = [pc |-> "read", at |-> 1, dry |-> dry]
      /\ docs' = {} /\ idMap' = {} /\ staged' = NoRows
  BY DEF StartMigration, NoJob
<1>2. run' \in 0 .. MaxRuns /\ run' >= 1 /\ \A k \in 1 .. run : k \in 1 .. run'
  BY <1>1, MigrationAssumption DEF MigrationInv
<1>3. tables' = NoRows \/ \E k \in 1 .. run' : tables' = Load(k)'
  BY <1>1, <1>2, LoadStays DEF MigrationInv
<1>4. {LoadOrder[i] : i \in 1 .. job'.at - 1} = {} BY <1>1
<1> QED BY <1>1, <1>2, <1>3, <1>4, OrderIs DEF MigrationInv, NoRows

LEMMA MigrationReadKeeps == ASSUME MigrationInv, ReadCollection PROVE MigrationInv'
<1>1. /\ job.pc = "read" /\ NextCollection("transform")
      /\ docs' = IF legacy[At].state = "absent" THEN docs ELSE docs \cup {At}
      /\ idMap' = IF legacy[At].state = "absent" THEN idMap ELSE idMap \cup {At}
      /\ UNCHANGED <<legacy, run, rows, staged, tables>>
  BY DEF ReadCollection
<1>2. /\ job.at \in 1 .. 11
      /\ job' \in [pc : {"idle", "read", "transform", "truncate", "insert", "commit"},
                   at : 1 .. Len(LoadOrder), dry : BOOLEAN]
      /\ job.at < 11 => job'.pc = job.pc /\ job'.at = job.at + 1
      /\ job.at = 11 => job'.pc = "transform" /\ job'.at = 1
  BY <1>1, NextIs
<1>3. /\ docs = {LoadOrder[i] : i \in 1 .. job.at - 1} \cap Existing
      /\ idMap = docs
  BY <1>1 DEF MigrationInv
<1>4. At = LoadOrder[job.at] /\ At \in Collections BY <1>2, OrderIs DEF At
<1>5. {LoadOrder[i] : i \in 1 .. job.at} = {LoadOrder[i] : i \in 1 .. job.at - 1} \cup {At}
  BY <1>2, <1>4
<1>6. docs' = {LoadOrder[i] : i \in 1 .. job.at} \cap Existing /\ idMap' = docs'
  BY <1>1, <1>3, <1>4, <1>5 DEF Existing
<1>7. tables' = NoRows \/ \E k \in 1 .. run' : tables' = Load(k)'
  BY <1>1, LoadStays DEF MigrationInv
<1>8. docs' \subseteq Collections /\ idMap' \subseteq Collections BY <1>6 DEF Existing
<1>9. CASE job.at < 11
  <2>1. job'.at - 1 = job.at /\ job'.pc = "read" BY <1>1, <1>2, <1>9
  <2> QED BY <1>1, <1>2, <1>6, <1>7, <1>8, <2>1, LoadStays DEF MigrationInv
<1>10. CASE job.at = 11
  <2>1. {LoadOrder[i] : i \in 1 .. 11} = Collections BY OrderIs
  <2>2. docs' = Existing BY <1>6, <1>10, <2>1 DEF Existing
  <2>3. job'.pc = "transform" /\ job'.at = 1 BY <1>2, <1>10
  <2> QED BY <1>1, <1>2, <1>6, <1>7, <1>8, <2>2, <2>3, LoadStays DEF MigrationInv
<1> QED BY <1>2, <1>9, <1>10

LEMMA TransformKeeps == ASSUME MigrationInv, Transform PROVE MigrationInv'
<1>1. /\ job.pc = "transform" /\ UNCHANGED <<legacy, run, docs, idMap, staged, tables>>
      /\ rows' = [c \in Collections |->
                     {row \in {Transformed(d) : d \in docs \cap {c}} : Valid(c, row)}]
      /\ job' = IF job.dry THEN NoJob ELSE [job EXCEPT !.pc = "truncate"]
  BY DEF Transform
<1>2. run \in Nat \ {0} /\ docs = Existing /\ idMap = Existing
  BY <1>1, MigrationAssumption DEF MigrationInv
<1>3. rows' = Load(run)
  <2> HIDE DEF MigrationInv
  <2> QED BY <1>1, <1>2, TransformLoads
<1>4. rows' = Load(run)' BY <1>1, <1>3 DEF Load, Loadable, RowOf, Rewritten, Existing
<1>5. /\ job' \in [pc : {"idle", "read", "transform", "truncate", "insert", "commit"},
                   at : 1 .. Len(LoadOrder), dry : BOOLEAN]
      /\ job'.pc \in {"idle", "truncate"} /\ job'.at = 1
  BY <1>1, OrderIs DEF MigrationInv, NoJob
<1>6. tables' = NoRows \/ \E k \in 1 .. run' : tables' = Load(k)'
  BY <1>1, LoadStays DEF MigrationInv
<1> QED BY <1>1, <1>2, <1>4, <1>5, <1>6 DEF MigrationInv

\* The rows are loaded: only the script and the transaction move.
LEMMA LoadingKeeps ==
    ASSUME MigrationInv, UNCHANGED <<legacy, run, docs, idMap, rows, tables>>,
           job.pc \in {"truncate", "insert"},
           job' \in [pc : {"idle", "read", "transform", "truncate", "insert", "commit"},
                     at : 1 .. Len(LoadOrder), dry : BOOLEAN],
           job'.pc \in {"insert", "commit"},
           DOMAIN staged' = Collections, staged' = [c \in Collections |-> staged'[c]],
           job'.pc = "insert" =>
               \A i \in 1 .. job'.at - 1 : staged'[LoadOrder[i]] = rows[LoadOrder[i]],
           job'.pc = "commit" => staged' = rows
    PROVE  MigrationInv'
<1>1. rows' = Load(run)' /\ run >= 1
  BY DEF MigrationInv, Load, Loadable, RowOf, Rewritten, Existing
<1>2. tables' = NoRows \/ \E k \in 1 .. run' : tables' = Load(k)' BY TablesStay
<1> QED BY <1>1, <1>2 DEF MigrationInv

LEMMA TruncateKeeps == ASSUME MigrationInv, Truncate PROVE MigrationInv'
<1>1. /\ job.pc = "truncate" /\ UNCHANGED <<legacy, run, docs, idMap, rows, tables>>
      /\ staged' = NoRows /\ job' = [job EXCEPT !.pc = "insert"]
  BY DEF Truncate
<1>2. job \in [pc : {"idle", "read", "transform", "truncate", "insert", "commit"},
               at : 1 .. Len(LoadOrder), dry : BOOLEAN]
  BY DEF MigrationInv
<1>3. /\ job' \in [pc : {"idle", "read", "transform", "truncate", "insert", "commit"},
                   at : 1 .. Len(LoadOrder), dry : BOOLEAN]
      /\ job'.pc = "insert" /\ job'.at = 1
  BY <1>1, <1>2 DEF MigrationInv
<1>4. DOMAIN staged' = Collections /\ staged' = [c \in Collections |-> staged'[c]]
  BY <1>1 DEF NoRows
<1>5. \A i \in 1 .. job'.at - 1 : staged'[LoadOrder[i]] = rows[LoadOrder[i]] BY <1>3
<1> HIDE DEF MigrationInv
<1> QED BY <1>1, <1>3, <1>4, <1>5, LoadingKeeps

\* A run loads its rows into the transaction ...
LEMMA InsertKeeps == ASSUME MigrationInv, InsertRows PROVE MigrationInv'
<1>1. /\ job.pc = "insert" /\ NextCollection("commit")
      /\ staged' = [staged EXCEPT ![At] = rows[At]]
      /\ UNCHANGED <<legacy, run, docs, idMap, rows, tables>>
  BY DEF InsertRows
<1>2. /\ job.at \in 1 .. 11
      /\ job' \in [pc : {"idle", "read", "transform", "truncate", "insert", "commit"},
                   at : 1 .. Len(LoadOrder), dry : BOOLEAN]
      /\ job.at < 11 => job'.pc = "insert" /\ job'.at = job.at + 1
      /\ job.at = 11 => job'.pc = "commit"
  BY <1>1, NextIs
<1>3. At = LoadOrder[job.at] /\ At \in Collections BY <1>2, OrderIs DEF At
<1>4. /\ DOMAIN staged = Collections /\ staged = [c \in Collections |-> staged[c]]
      /\ \A i \in 1 .. job.at - 1 : staged[LoadOrder[i]] = rows[LoadOrder[i]]
      /\ rows = Load(run)
  BY <1>1 DEF MigrationInv
<1>5. /\ DOMAIN staged' = Collections /\ staged' = [c \in Collections |-> staged'[c]]
      /\ \A c \in Collections : staged'[c] = IF c = At THEN rows[At] ELSE staged[c]
  BY <1>1, <1>3, <1>4
<1>6. \A i \in 1 .. job.at : staged'[LoadOrder[i]] = rows[LoadOrder[i]]
  <2> SUFFICES ASSUME NEW i \in 1 .. job.at PROVE staged'[LoadOrder[i]] = rows[LoadOrder[i]]
    OBVIOUS
  <2>1. i \in 1 .. 11 /\ (i = job.at \/ i \in 1 .. job.at - 1) BY <1>2
  <2>2. LoadOrder[i] \in Collections BY <2>1, OrderIs
  <2> QED BY <1>3, <1>4, <1>5, <2>1, <2>2
<1>7. job'.pc = "insert" => \A i \in 1 .. job'.at - 1 : staged'[LoadOrder[i]] = rows[LoadOrder[i]]
  <2>1. CASE job.at < 11
    <3>1. job'.at - 1 = job.at BY <1>2, <2>1
    <3> QED BY <1>6, <3>1
  <2>2. CASE job.at = 11 BY <1>2, <2>2
  <2> QED BY <1>2, <2>1, <2>2
<1>8. job'.pc = "commit" => staged' = rows
  <2> SUFFICES ASSUME job'.pc = "commit" PROVE staged' = rows OBVIOUS
  <2>1. job.at = 11 BY <1>2
  <2>2. \A c \in Collections : staged'[c] = rows[c] BY <1>6, <2>1, OrderIs
  <2>3. rows = [c \in Collections |-> rows[c]] BY <1>4 DEF Load
  <2> QED BY <1>5, <2>2, <2>3
<1>9. job'.pc \in {"insert", "commit"} BY <1>2
<1> HIDE DEF MigrationInv
<1> QED BY <1>1, <1>2, <1>5, <1>7, <1>8, <1>9, LoadingKeeps

\* ... and commits them.
LEMMA CommitKeeps == ASSUME MigrationInv, Commit PROVE MigrationInv'
<1>1. /\ job.pc = "commit" /\ tables' = staged /\ job' = NoJob
      /\ UNCHANGED <<legacy, run, docs, idMap, rows, staged>>
  BY DEF Commit
<1>2. tables' = Load(run)' /\ run \in 1 .. run'
  BY <1>1, MigrationAssumption DEF MigrationInv, Load, Loadable, RowOf, Rewritten, Existing
<1>3. \E k \in 1 .. run' : tables' = Load(k)'
  <2>1. PICK k \in 1 .. run' : k = run BY <1>2
  <2>2. tables' = Load(k)
    <3>1. tables' = Load(run) BY <1>1 DEF MigrationInv
    <3> QED BY <2>1, <3>1
  <2> QED BY <1>1, <2>2, LoadStays
<1>4. job' \in [pc : {"idle", "read", "transform", "truncate", "insert", "commit"},
                at : 1 .. Len(LoadOrder), dry : BOOLEAN]
  BY <1>1, OrderIs DEF NoJob
<1>5. job'.pc = "idle" BY <1>1 DEF NoJob
<1> QED BY <1>1, <1>3, <1>4, <1>5 DEF MigrationInv

\* A run that fails leaves the tables alone.
LEMMA FailKeeps == ASSUME MigrationInv, MigrationFails PROVE MigrationInv'
<1>1. job' = NoJob /\ UNCHANGED <<legacy, run, docs, idMap, rows, staged, tables>>
  BY DEF MigrationFails
<1>2. job' \in [pc : {"idle", "read", "transform", "truncate", "insert", "commit"},
                at : 1 .. Len(LoadOrder), dry : BOOLEAN]
  BY <1>1, OrderIs DEF NoJob
<1>3. job'.pc = "idle" BY <1>1 DEF NoJob
<1>4. tables' = NoRows \/ \E k \in 1 .. run' : tables' = Load(k)' BY <1>1, TablesStay
<1> QED BY <1>1, <1>2, <1>3, <1>4 DEF MigrationInv

LEMMA StutterKeeps == ASSUME MigrationInv, UNCHANGED migrationVars PROVE MigrationInv'
<1>1. tables' = NoRows \/ \E k \in 1 .. run' : tables' = Load(k)'
  BY TablesStay DEF migrationVars
<1>2. Existing' = Existing /\ Load(run)' = Load(run)
  BY DEF migrationVars, Load, Loadable, RowOf, Rewritten, Existing
<1> QED BY <1>1, <1>2 DEF migrationVars, MigrationInv

LEMMA MigrationStep == ASSUME MigrationInv, [MigrationNext]_migrationVars PROVE MigrationInv'
<1>1. CASE Finished \/ UNCHANGED migrationVars BY <1>1, StutterKeeps DEF Finished
<1> QED
  BY <1>1, MigrationStartKeeps, MigrationReadKeeps, TransformKeeps, TruncateKeeps, InsertKeeps, CommitKeeps,
     FailKeeps
  DEF MigrationNext

-----------------------------------------------------------------------------
(* Theorems *)

LEMMA MigrationInvariant == MigrationSpec => []MigrationInv
<1>1. MigrationInit => MigrationInv BY MigrationInitOK
<1>2. MigrationInv /\ [MigrationNext]_migrationVars => MigrationInv' BY MigrationStep
<1> QED BY <1>1, <1>2, PTL DEF MigrationSpec

\* A load is whole, and its rows point to one another as the documents did.
LEMMA LoadsAreFaithful ==
    ASSUME MigrationInv PROVE MigrationIsFaithful
<1>1. CASE tables = NoRows
  BY <1>1 DEF MigrationIsFaithful, LoadIsAllOrNothing, RelationsPreserved, NoRows
<1>2. ASSUME NEW k \in 1 .. run, tables = Load(k) PROVE MigrationIsFaithful
  <2>1. \A c \in Collections : tables[c] = IF Loadable(c) THEN {RowOf(k, c)} ELSE {}
    BY <1>2 DEF Load
  <2>2. \A c : RowOf(k, c).id = NewId(k, c) BY DEF RowOf
  <2>3. LoadIsAllOrNothing
    <3>1. ASSUME NEW c \in Collections
          PROVE  {row.id : row \in tables[c]} = IF Loadable(c) THEN {NewId(k, c)} ELSE {}
      BY <2>1, <2>2
    <3> QED BY <3>1 DEF LoadIsAllOrNothing
  <2>4. ASSUME NEW c \in Collections, NEW row \in tables[c], NEW f \in Fields(c),
               legacy[c].refs[f.to] = "set", Loadable(f.to)
        PROVE  \E target \in tables[f.to] : [field |-> f, value |-> target.id] \in row.refs
    <3>1. f.to \in Collections BY FieldsPoint
    <3>2. RowOf(k, f.to) \in tables[f.to] BY <2>1, <2>4, <3>1
    <3>3. f.to \in Existing BY <2>4, <3>1 DEF Loadable, Existing
    <3>4. Rewritten(k, c, f) = NewId(k, f.to)
      <4>1. legacy[c].refs[f.to] = "set" /\ legacy[c].refs[f.to] # "empty" BY <2>4
      <4> QED BY <3>3, <4>1 DEF Rewritten
    <3>5. row = RowOf(k, c)
      <4>1. row \in IF Loadable(c) THEN {RowOf(k, c)} ELSE {} BY <2>1, <2>4
      <4> QED BY <4>1
    <3>6. [field |-> f, value |-> Rewritten(k, c, f)] \in row.refs BY <3>5 DEF RowOf
    <3> QED BY <2>2, <3>2, <3>4, <3>6
  <2> QED BY <2>3, <2>4 DEF MigrationIsFaithful, RelationsPreserved
<1> QED BY <1>1, <1>2 DEF MigrationInv

\* Whatever the legacy database holds and however often the script fails and is
\* run again, the tables hold one whole load with its relations, or none (main).
THEOREM MigrationsAreFaithful == MigrationSpec => []MigrationIsFaithful
BY MigrationInvariant, LoadsAreFaithful, PTL

\* The script and its maps keep their types, and every collection has its table.
THEOREM MigrationTypesHold == MigrationSpec => []MigrationTypeOK
<1>1. MigrationInv => MigrationTypeOK
  <2> SUFFICES ASSUME MigrationInv PROVE MigrationTypeOK OBVIOUS
  <2>1. DOMAIN tables = Collections BY DEF MigrationInv, NoRows, Load
  <2> QED BY <2>1 DEF MigrationInv, MigrationTypeOK
<1> QED BY <1>1, MigrationInvariant, PTL

-----------------------------------------------------------------------------
(***************************************************************************)
(* Seeding: running the script again.                                      *)
(***************************************************************************)

(* The inductive invariant *)

\* Rows are found through the tenant's user.
RowsAreFound == \A t \in TenantSet, part \in Tables : left[part][t] \subseteq tenant[t]

\* The tenant has the rows of this run and no others.
FreshlySeeded(t) ==
    /\ tenant[t] = {seeds}
    /\ \A i \in 1 .. Len(SeedOrder) : left[SeedOrder[i]][t] = {seeds}

\* How far the run is with the current tenant.
Progress ==
    /\ seed.pc = "wipe" =>
          /\ seed.at \in 1 .. Len(WipeOrder)
          /\ seed.found = tenant[Who]
          /\ \A j \in 1 .. seed.at - 1 : left[WipeOrder[j]][Who] = {}
    /\ seed.pc = "wipeUser" =>
          /\ seed.found = tenant[Who]
          /\ \A part \in Tables : left[part][Who] = {}
    /\ seed.pc = "user" => tenant[Who] = {}
    /\ seed.pc = "fill" =>
          /\ seed.at \in 1 .. Len(SeedOrder)
          /\ tenant[Who] = {seeds}
          /\ \A j \in 1 .. seed.at - 1 : left[SeedOrder[j]][Who] = {seeds}

\* The tenants before it are done.
Behind ==
    /\ seed.pc # "idle" => \A i \in 1 .. seed.who - 1 : FreshlySeeded(Tenants[i])
    /\ seed.pc = "done" => \A t \in TenantSet : FreshlySeeded(t)

SeedingInv ==
    /\ SeedingTypeOK
    /\ seed \in [pc : {"idle", "find", "wipe", "wipeUser", "user", "fill", "done"},
                 who : Nat, at : Nat, found : SUBSET (1 .. MaxSeeds)]
    /\ seed.pc # "idle" => seeds >= 1
    /\ RowsAreFound
    /\ Progress
    /\ Behind

-----------------------------------------------------------------------------
(* Steps *)

LEMMA Orders ==
    /\ Len(WipeOrder) = 6 /\ Len(SeedOrder) = 5
    /\ \A i \in 1 .. 6 : WipeOrder[i] \in Tables
    /\ \A part \in Tables : \E i \in 1 .. 6 : part = WipeOrder[i]
    /\ \A i \in 1 .. 5 : SeedOrder[i] \in Tables
<1>1. Len(WipeOrder) = 6 /\ Len(SeedOrder) = 5 BY DEF WipeOrder, SeedOrder
<1>2. \A i \in 1 .. 6 : WipeOrder[i] \in Tables BY <1>1 DEF Tables
<1>3. \A part \in Tables : \E i \in 1 .. 6 : part = WipeOrder[i] BY <1>1 DEF Tables
<1>4. /\ SeedOrder[1] = WipeOrder[6] /\ SeedOrder[2] = WipeOrder[5]
      /\ SeedOrder[3] = WipeOrder[4] /\ SeedOrder[4] = WipeOrder[2]
      /\ SeedOrder[5] = WipeOrder[1]
  BY DEF WipeOrder, SeedOrder
<1>5. \A i \in 1 .. 5 : i = 1 \/ i = 2 \/ i = 3 \/ i = 4 \/ i = 5 OBVIOUS
<1>6. \A i \in 1 .. 5 : SeedOrder[i] \in Tables BY <1>2, <1>4, <1>5
<1> QED BY <1>1, <1>2, <1>3, <1>6

LEMMA TenantsAre ==
    /\ Len(Tenants) \in Nat \ {0}
    /\ \A i \in 1 .. Len(Tenants) : Tenants[i] \in TenantSet
    /\ \A t \in TenantSet : \E i \in 1 .. Len(Tenants) : t = Tenants[i]
BY SeedingAssumption DEF TenantSet

LEMMA SeedingInitOK == ASSUME SeedingInit PROVE SeedingInv
BY SeedingAssumption, TenantsAre
DEF SeedingInit, SeedingInv, SeedingTypeOK, NoSeed, RowsAreFound, Progress, Behind

\* A script that does not run has no progress to tell of.
LEMMA RestKeeps ==
    ASSUME SeedingInv, seed' = NoSeed, UNCHANGED <<tenant, left, seeds>>
    PROVE  SeedingInv'
BY TenantsAre
DEF SeedingInv, SeedingTypeOK, NoSeed, RowsAreFound, Progress, Behind

LEMMA SeedingStartKeeps == ASSUME SeedingInv, StartSeed PROVE SeedingInv'
<1>1. /\ seeds' = seeds + 1 /\ seeds < MaxSeeds /\ UNCHANGED <<tenant, left>>
      /\ seed' = [pc |-> "find", who |-> 1, at |-> 1, found |-> {}]
  BY DEF StartSeed, NoSeed
<1> QED
  BY <1>1, TenantsAre, SeedingAssumption
  DEF SeedingInv, SeedingTypeOK, RowsAreFound, Progress, Behind

LEMMA SeedingFindKeeps == ASSUME SeedingInv, FindTenant PROVE SeedingInv'
<1>1. /\ seed.pc = "find" /\ UNCHANGED <<tenant, left, seeds>>
      /\ seed' = [seed EXCEPT !.pc = IF tenant[Who] = {} THEN "user" ELSE "wipe",
                              !.at = 1, !.found = tenant[Who]]
  BY DEF FindTenant
<1>2. seed.who \in 1 .. Len(Tenants) /\ Who \in TenantSet
  BY TenantsAre DEF SeedingInv, SeedingTypeOK, Who
<1>3. tenant[Who] \in SUBSET (1 .. MaxSeeds) BY <1>2 DEF SeedingInv, SeedingTypeOK
<1>4. /\ seed'.pc = IF tenant[Who] = {} THEN "user" ELSE "wipe"
      /\ seed'.at = 1 /\ seed'.found = tenant[Who] /\ seed'.who = seed.who /\ Who' = Who
  BY <1>1 DEF SeedingInv, Who
<1>5. SeedingTypeOK' BY <1>1, <1>2, <1>3, <1>4 DEF SeedingInv, SeedingTypeOK
<1>6. seed' \in [pc : {"idle", "find", "wipe", "wipeUser", "user", "fill", "done"},
                 who : Nat, at : Nat, found : SUBSET (1 .. MaxSeeds)]
  BY <1>1, <1>3 DEF SeedingInv
<1>7. RowsAreFound' BY <1>1 DEF SeedingInv, RowsAreFound
<1>8. Progress' BY <1>1, <1>4, Orders DEF Progress
<1>9. Behind' BY <1>1, <1>4 DEF SeedingInv, Behind, FreshlySeeded
<1> QED BY <1>1, <1>4, <1>5, <1>6, <1>7, <1>8, <1>9 DEF SeedingInv

\* One tenant's rows of one table are changed.
LEMMA LeftChanges ==
    ASSUME SeedingInv, NEW part \in Tables, NEW t \in TenantSet,
           NEW new \in SUBSET (1 .. MaxSeeds), left' = [left EXCEPT ![part][t] = new]
    PROVE  /\ left' \in [Tables -> [TenantSet -> SUBSET (1 .. MaxSeeds)]]
           /\ \A x \in Tables, u \in TenantSet :
                  left'[x][u] = IF x = part /\ u = t THEN new ELSE left[x][u]
BY DEF SeedingInv, SeedingTypeOK

\* The tenant whose turn it is is none of those before it.
LEMMA WhoIs ==
    ASSUME SeedingInv
    PROVE  /\ seed.who \in 1 .. Len(Tenants) /\ Who \in TenantSet
           /\ \A i \in 1 .. seed.who - 1 : Tenants[i] \in TenantSet /\ Tenants[i] # Who
           /\ seed.who = Len(Tenants) =>
                \A t \in TenantSet : t = Who \/ \E i \in 1 .. seed.who - 1 : t = Tenants[i]
<1>1. seed.who \in 1 .. Len(Tenants) BY DEF SeedingInv, SeedingTypeOK
<1> DEFINE w == seed.who
           n == Len(Tenants)
<1>2. w \in 1 .. n /\ n \in Nat BY <1>1, TenantsAre
<1> HIDE DEF w, n
<1>3. \A i \in 1 .. w - 1 : i \in 1 .. n /\ i # w BY <1>2
<1>4. w = n => \A i \in 1 .. n : i = w \/ i \in 1 .. w - 1 BY <1>2
<1>5. Who = Tenants[w] BY DEF Who, w
<1>6. \A i \in 1 .. w - 1 : Tenants[i] \in TenantSet /\ Tenants[i] # Who
  BY <1>2, <1>3, <1>5, TenantsAre, SeedingAssumption DEF n
<1>7. w = n => \A t \in TenantSet : t = Who \/ \E i \in 1 .. w - 1 : t = Tenants[i]
  BY <1>4, <1>5, TenantsAre DEF n
<1> QED BY <1>2, <1>5, <1>6, <1>7, TenantsAre DEF w, n

LEMMA WipeKeeps == ASSUME SeedingInv, WipeTable PROVE SeedingInv'
<1> DEFINE part == WipeOrder[seed.at]
           last == ~(seed.at < Len(WipeOrder))
<1>1. /\ seed.pc = "wipe" /\ UNCHANGED <<tenant, seeds>>
      /\ left' = [left EXCEPT ![part][Who] = @ \ seed.found]
      /\ seed' = IF seed.at < Len(WipeOrder) THEN [seed EXCEPT !.at = @ + 1]
                 ELSE [seed EXCEPT !.pc = "wipeUser", !.at = 1]
  BY DEF WipeTable
<1>2. /\ seed.at \in 1 .. 6 /\ seed.found = tenant[Who]
      /\ \A j \in 1 .. seed.at - 1 : left[WipeOrder[j]][Who] = {}
  BY <1>1, Orders DEF SeedingInv, Progress
<1>3. part \in Tables /\ Who \in TenantSet BY <1>2, Orders, WhoIs
<1>4. left[part][Who] \ seed.found = {} BY <1>2, <1>3 DEF SeedingInv, RowsAreFound
<1>5. left' = [left EXCEPT ![part][Who] = {}] BY <1>1, <1>3, <1>4 DEF SeedingInv, SeedingTypeOK
<1>6. /\ left' \in [Tables -> [TenantSet -> SUBSET (1 .. MaxSeeds)]]
      /\ \A x \in Tables, u \in TenantSet :
             left'[x][u] = IF x = part /\ u = Who THEN {} ELSE left[x][u]
  <2> HIDE DEF part
  <2> QED BY <1>3, <1>5, LeftChanges
<1>7. /\ seed' \in [pc : {"idle", "find", "wipe", "wipeUser", "user", "fill", "done"},
                    who : Nat, at : Nat, found : SUBSET (1 .. MaxSeeds)]
      /\ seed'.who = seed.who /\ seed'.found = seed.found /\ Who' = Who
      /\ seed.at < 6 => seed'.pc = "wipe" /\ seed'.at = seed.at + 1
      /\ seed.at = 6 => seed'.pc = "wipeUser"
  <2>1. CASE seed.at < 6
    <3>1. seed' = [seed EXCEPT !.at = seed.at + 1] BY <1>1, <2>1, Orders
    <3>2. seed.at + 1 \in Nat /\ seed.at # 6 BY <1>2, <2>1
    <3>3. seed.pc = "wipe" BY <1>1
    <3> QED BY <3>1, <3>2, <3>3, <2>1 DEF SeedingInv, Who
  <2>2. CASE seed.at = 6
    <3>1. seed' = [seed EXCEPT !.pc = "wipeUser", !.at = 1] BY <1>1, <2>2, Orders
    <3>2. seed \in [pc : {"idle", "find", "wipe", "wipeUser", "user", "fill", "done"},
                    who : Nat, at : Nat, found : SUBSET (1 .. MaxSeeds)]
      BY DEF SeedingInv
    <3>3. seed'.who = seed.who /\ seed'.found = seed.found /\ seed'.pc = "wipeUser"
      BY <3>1, <3>2
    <3>4. Who' = Who BY <3>3 DEF Who
    <3>5. ~(seed.at < 6) BY <2>2
    <3>6. seed' \in [pc : {"idle", "find", "wipe", "wipeUser", "user", "fill", "done"},
                     who : Nat, at : Nat, found : SUBSET (1 .. MaxSeeds)]
      BY <3>1, <3>2
    <3> QED BY <3>3, <3>4, <3>5, <3>6
  <2> QED BY <1>2, <2>1, <2>2
<1>8. SeedingTypeOK' BY <1>1, <1>2, <1>6, <1>7 DEF SeedingInv, SeedingTypeOK
<1>9. RowsAreFound' BY <1>1, <1>6 DEF SeedingInv, RowsAreFound
<1>10. \A j \in 1 .. seed.at : left'[WipeOrder[j]][Who] = {}
  <2> SUFFICES ASSUME NEW j \in 1 .. seed.at PROVE left'[WipeOrder[j]][Who] = {} OBVIOUS
  <2>1. j \in 1 .. 6 /\ (j = seed.at \/ j \in 1 .. seed.at - 1) BY <1>2
  <2>2. WipeOrder[j] \in Tables BY <2>1, Orders
  <2> QED BY <1>2, <1>3, <1>6, <2>1, <2>2
<1>11. Progress'
  <2>1. CASE seed.at < 6
    <3>1. seed'.at - 1 = seed.at /\ seed'.at \in 1 .. 6 BY <1>2, <1>7, <2>1
    <3> QED BY <1>1, <1>2, <1>7, <1>10, <2>1, <3>1, Orders DEF Progress
  <2>2. CASE seed.at = 6
    <3>1. \A x \in Tables : left'[x][Who] = {} BY <1>10, <2>2, Orders
    <3> QED BY <1>1, <1>2, <1>7, <2>2, <3>1 DEF Progress
  <2> QED BY <1>2, <2>1, <2>2
<1>12. \A i \in 1 .. seed.who - 1 : FreshlySeeded(Tenants[i])'
  <2> SUFFICES ASSUME NEW i \in 1 .. seed.who - 1 PROVE FreshlySeeded(Tenants[i])' OBVIOUS
  <2>1. FreshlySeeded(Tenants[i]) /\ Tenants[i] \in TenantSet /\ Tenants[i] # Who
    BY <1>1, WhoIs DEF SeedingInv, Behind
  <2>2. \A j \in 1 .. 5 : left'[SeedOrder[j]][Tenants[i]] = left[SeedOrder[j]][Tenants[i]]
    BY <1>6, <2>1, Orders
  <2> QED BY <1>1, <2>1, <2>2, Orders DEF FreshlySeeded
<1>13. Behind' BY <1>2, <1>7, <1>12 DEF Behind
<1> QED BY <1>1, <1>7, <1>8, <1>9, <1>11, <1>13 DEF SeedingInv

\* A tenant's user is changed, and none of the rows; those before it stay fresh.
LEMMA UserKeeps ==
    ASSUME SeedingInv, NEW new \in SUBSET (1 .. MaxSeeds),
           seed.pc \in {"wipeUser", "user"},
           tenant' = [tenant EXCEPT ![Who] = new], UNCHANGED <<left, seeds>>,
           \A part \in Tables : left[part][Who] = {}
    PROVE  /\ tenant' \in [TenantSet -> SUBSET (1 .. MaxSeeds)]
           /\ tenant'[Who] = new
           /\ RowsAreFound'
           /\ \A i \in 1 .. seed.who - 1 : FreshlySeeded(Tenants[i])'
<1>1. Who \in TenantSet BY WhoIs
<1>2. /\ tenant' \in [TenantSet -> SUBSET (1 .. MaxSeeds)]
      /\ \A t \in TenantSet : tenant'[t] = IF t = Who THEN new ELSE tenant[t]
  BY <1>1 DEF SeedingInv, SeedingTypeOK
<1>3. \A i \in 1 .. seed.who - 1 :
          FreshlySeeded(Tenants[i]) /\ Tenants[i] \in TenantSet /\ Tenants[i] # Who
  BY WhoIs DEF SeedingInv, Behind
<1>4. RowsAreFound' BY <1>2 DEF SeedingInv, RowsAreFound
<1>5. \A i \in 1 .. seed.who - 1 : FreshlySeeded(Tenants[i])' BY <1>2, <1>3 DEF FreshlySeeded
<1> QED BY <1>1, <1>2, <1>4, <1>5

LEMMA WipeUserKeeps == ASSUME SeedingInv, WipeUser PROVE SeedingInv'
<1>1. /\ seed.pc = "wipeUser" /\ UNCHANGED <<left, seeds>>
      /\ tenant' = [tenant EXCEPT ![Who] = @ \ seed.found]
      /\ seed' = [seed EXCEPT !.pc = "user"]
  BY DEF WipeUser
<1>2. seed.found = tenant[Who] /\ \A part \in Tables : left[part][Who] = {}
  BY <1>1 DEF SeedingInv, Progress
<1>3. tenant' = [tenant EXCEPT ![Who] = {}] BY <1>1, <1>2
<1>4. /\ tenant' \in [TenantSet -> SUBSET (1 .. MaxSeeds)]
      /\ tenant'[Who] = {} /\ RowsAreFound'
      /\ \A i \in 1 .. seed.who - 1 : FreshlySeeded(Tenants[i])'
  BY <1>1, <1>2, <1>3, UserKeeps
<1>5. /\ seed' \in [pc : {"idle", "find", "wipe", "wipeUser", "user", "fill", "done"},
                    who : Nat, at : Nat, found : SUBSET (1 .. MaxSeeds)]
      /\ seed'.who = seed.who /\ seed'.found = seed.found /\ Who' = Who /\ seed'.pc = "user"
  BY <1>1 DEF SeedingInv, Who
<1>6. SeedingTypeOK' BY <1>1, <1>4, <1>5 DEF SeedingInv, SeedingTypeOK
<1>7. Progress' BY <1>4, <1>5 DEF Progress
<1>8. Behind' BY <1>4, <1>5 DEF Behind
<1> QED BY <1>1, <1>4, <1>5, <1>6, <1>7, <1>8 DEF SeedingInv

LEMMA InsertTenantKeeps == ASSUME SeedingInv, InsertTenant PROVE SeedingInv'
<1>1. /\ seed.pc = "user" /\ UNCHANGED <<left, seeds>> /\ tenant[Who] = {}
      /\ tenant' = [tenant EXCEPT ![Who] = {seeds}]
      /\ seed' = [seed EXCEPT !.pc = "fill", !.at = 1]
  BY DEF InsertTenant
<1>2. \A part \in Tables : left[part][Who] = {}
  BY <1>1, WhoIs DEF SeedingInv, RowsAreFound
<1>3. {seeds} \in SUBSET (1 .. MaxSeeds) BY <1>1 DEF SeedingInv, SeedingTypeOK
<1>4. /\ tenant' \in [TenantSet -> SUBSET (1 .. MaxSeeds)]
      /\ tenant'[Who] = {seeds} /\ RowsAreFound'
      /\ \A i \in 1 .. seed.who - 1 : FreshlySeeded(Tenants[i])'
  BY <1>1, <1>2, <1>3, UserKeeps
<1>5. /\ seed' \in [pc : {"idle", "find", "wipe", "wipeUser", "user", "fill", "done"},
                    who : Nat, at : Nat, found : SUBSET (1 .. MaxSeeds)]
      /\ seed'.who = seed.who /\ seed'.found = seed.found /\ Who' = Who /\ seed'.pc = "fill"
      /\ seed'.at = 1
  BY <1>1 DEF SeedingInv, Who
<1>6. SeedingTypeOK' BY <1>1, <1>4, <1>5 DEF SeedingInv, SeedingTypeOK
<1>7. Progress' BY <1>1, <1>4, <1>5, Orders DEF Progress
<1>8. Behind' BY <1>4, <1>5 DEF Behind
<1> QED BY <1>1, <1>4, <1>5, <1>6, <1>7, <1>8 DEF SeedingInv

LEMMA FillKeeps == ASSUME SeedingInv, FillTable PROVE SeedingInv'
<1> DEFINE part == SeedOrder[seed.at]
<1>1. /\ seed.pc = "fill" /\ UNCHANGED <<tenant, seeds>>
      /\ left' = [left EXCEPT ![part][Who] = @ \cup {seeds}]
      /\ seed' = IF seed.at < Len(SeedOrder) THEN [seed EXCEPT !.at = @ + 1]
                 ELSE IF seed.who < Len(Tenants)
                 THEN [NoSeed EXCEPT !.pc = "find", !.who = seed.who + 1]
                 ELSE [seed EXCEPT !.pc = "done"]
  BY DEF FillTable
<1>2. /\ seed.at \in 1 .. 5 /\ tenant[Who] = {seeds}
      /\ \A j \in 1 .. seed.at - 1 : left[SeedOrder[j]][Who] = {seeds}
  BY <1>1, Orders DEF SeedingInv, Progress
<1>3. part \in Tables /\ Who \in TenantSet BY <1>2, Orders, WhoIs
<1>4. left[part][Who] \cup {seeds} = {seeds} BY <1>2, <1>3 DEF SeedingInv, RowsAreFound
<1>5. left' = [left EXCEPT ![part][Who] = {seeds}] BY <1>1, <1>3, <1>4 DEF SeedingInv, SeedingTypeOK
<1>6. {seeds} \in SUBSET (1 .. MaxSeeds) BY <1>1 DEF SeedingInv, SeedingTypeOK
<1>7. /\ left' \in [Tables -> [TenantSet -> SUBSET (1 .. MaxSeeds)]]
      /\ \A x \in Tables, u \in TenantSet :
             left'[x][u] = IF x = part /\ u = Who THEN {seeds} ELSE left[x][u]
  <2> HIDE DEF part
  <2> QED BY <1>3, <1>5, <1>6, LeftChanges
<1>8. RowsAreFound' BY <1>1, <1>2, <1>7 DEF SeedingInv, RowsAreFound
<1>9. \A j \in 1 .. seed.at : left'[SeedOrder[j]][Who] = {seeds}
  <2> SUFFICES ASSUME NEW j \in 1 .. seed.at PROVE left'[SeedOrder[j]][Who] = {seeds} OBVIOUS
  <2>1. j \in 1 .. 5 /\ (j = seed.at \/ j \in 1 .. seed.at - 1) BY <1>2
  <2>2. SeedOrder[j] \in Tables BY <2>1, Orders
  <2> QED BY <1>2, <1>3, <1>7, <2>1, <2>2
<1>10. \A i \in 1 .. seed.who - 1 : FreshlySeeded(Tenants[i])'
  <2> SUFFICES ASSUME NEW i \in 1 .. seed.who - 1 PROVE FreshlySeeded(Tenants[i])' OBVIOUS
  <2>1. FreshlySeeded(Tenants[i]) /\ Tenants[i] \in TenantSet /\ Tenants[i] # Who
    BY <1>1, WhoIs DEF SeedingInv, Behind
  <2>2. \A j \in 1 .. 5 : left'[SeedOrder[j]][Tenants[i]] = left[SeedOrder[j]][Tenants[i]]
    BY <1>7, <2>1, Orders
  <2> QED BY <1>1, <2>1, <2>2, Orders DEF FreshlySeeded
<1>11. seed.at = 5 =>
           tenant'[Who] = {seeds'} /\ \A i \in 1 .. Len(SeedOrder) : left'[SeedOrder[i]][Who] = {seeds'}
  BY <1>1, <1>2, <1>9, Orders
<1>12. seed.who \in 1 .. Len(Tenants) /\ seed.who \in Nat /\ Len(Tenants) \in Nat
  BY WhoIs, TenantsAre
<1>13. CASE seed.at < 5
  <2>1. /\ seed' \in [pc : {"idle", "find", "wipe", "wipeUser", "user", "fill", "done"},
                      who : Nat, at : Nat, found : SUBSET (1 .. MaxSeeds)]
        /\ seed'.who = seed.who /\ seed'.found = seed.found /\ Who' = Who
        /\ seed'.pc = "fill" /\ seed'.at = seed.at + 1
    BY <1>1, <1>2, <1>13, Orders DEF SeedingInv, Who
  <2>2. SeedingTypeOK' BY <1>1, <1>7, <1>12, <2>1 DEF SeedingInv, SeedingTypeOK
  <2>3. seed'.at - 1 = seed.at /\ seed'.at \in 1 .. 5 BY <1>2, <2>1, <1>13
  <2>4. Progress' BY <1>1, <1>2, <1>9, <2>1, <2>3, Orders DEF Progress
  <2>5. Behind' BY <1>10, <2>1 DEF Behind
  <2> QED BY <1>1, <1>8, <2>1, <2>2, <2>4, <2>5 DEF SeedingInv
<1>14. CASE seed.at = 5 /\ seed.who < Len(Tenants)
  <2> DEFINE next == seed.who + 1
  <2>0. next \in 1 .. Len(Tenants) /\ next \in Nat /\ next - 1 = seed.who
    <3> DEFINE n == Len(Tenants)
               w == seed.who
    <3>1. w \in Nat /\ n \in Nat /\ w < n BY <1>12, <1>14
    <3> HIDE DEF n, w
    <3>2. w + 1 \in 1 .. n /\ w + 1 \in Nat /\ (w + 1) - 1 = w BY <3>1
    <3> QED BY <3>2 DEF n, w
  <2>1. seed' = [pc |-> "find", who |-> next, at |-> 1, found |-> {}]
    <3>1. seed' = [NoSeed EXCEPT !.pc = "find", !.who = next] BY <1>1, <1>14, Orders
    <3> HIDE DEF next
    <3> QED BY <3>1 DEF NoSeed
  <2> HIDE DEF next
  <2>2. SeedingTypeOK'
    <3>1. /\ seed'.pc = "find" /\ seed'.who = next /\ seed'.found = {} BY <2>1
    <3>2. tenant' = tenant /\ seeds' = seeds BY <1>1
    <3> QED BY <1>7, <2>0, <3>1, <3>2 DEF SeedingInv, SeedingTypeOK
  <2>3. Progress' BY <2>1 DEF Progress
  <2>4. \A i \in 1 .. seed.who : i = seed.who \/ i \in 1 .. seed.who - 1 BY <1>12
  <2>5. \A i \in 1 .. seed.who : FreshlySeeded(Tenants[i])'
    <3> SUFFICES ASSUME NEW i \in 1 .. seed.who PROVE FreshlySeeded(Tenants[i])' OBVIOUS
    <3>1. CASE i = seed.who
      <4>1. Tenants[i] = Who BY <3>1 DEF Who
      <4> QED BY <4>1, <1>11, <1>14 DEF FreshlySeeded
    <3>2. CASE i \in 1 .. seed.who - 1 BY <3>2, <1>10
    <3> QED BY <2>4, <3>1, <3>2
  <2>6. Behind' BY <2>0, <2>1, <2>5 DEF Behind
  <2>7. seed' \in [pc : {"idle", "find", "wipe", "wipeUser", "user", "fill", "done"},
                   who : Nat, at : Nat, found : SUBSET (1 .. MaxSeeds)]
    BY <2>0, <2>1
  <2> QED BY <1>1, <1>8, <2>2, <2>3, <2>6, <2>7 DEF SeedingInv
<1>15. CASE seed.at = 5 /\ ~(seed.who < Len(Tenants))
  <2>1. /\ seed' \in [pc : {"idle", "find", "wipe", "wipeUser", "user", "fill", "done"},
                      who : Nat, at : Nat, found : SUBSET (1 .. MaxSeeds)]
        /\ seed'.who = seed.who /\ seed'.found = seed.found /\ Who' = Who /\ seed'.pc = "done"
    BY <1>1, <1>15, Orders DEF SeedingInv, Who
  <2>2. SeedingTypeOK' BY <1>1, <1>7, <1>12, <2>1 DEF SeedingInv, SeedingTypeOK
  <2>3. Progress' BY <2>1 DEF Progress
  <2>4. seed.who = Len(Tenants) BY <1>12, <1>15
  <2>5. \A t \in TenantSet : FreshlySeeded(t)'
    <3> SUFFICES ASSUME NEW t \in TenantSet PROVE FreshlySeeded(t)' OBVIOUS
    <3>1. CASE t = Who BY <3>1, <1>11, <1>15 DEF FreshlySeeded
    <3>2. CASE \E i \in 1 .. seed.who - 1 : t = Tenants[i] BY <3>2, <1>10
    <3> QED BY <2>4, <3>1, <3>2, WhoIs
  <2>6. Behind' BY <1>10, <2>1, <2>5 DEF Behind
  <2> QED BY <1>1, <1>8, <2>1, <2>2, <2>3, <2>6 DEF SeedingInv
<1> QED BY <1>2, <1>13, <1>14, <1>15

LEMMA UseKeeps ==
    ASSUME SeedingInv, NEW t \in TenantSet, NEW part \in Tables, UseTenant(t, part)
    PROVE  SeedingInv'
<1>1. PICK k \in tenant[t] : left' = [left EXCEPT ![part][t] = @ \cup {k}]
  BY DEF UseTenant
<1>2. seed.pc = "idle" /\ UNCHANGED <<tenant, seed, seeds>> BY DEF UseTenant
<1>3. /\ left[part][t] \cup {k} \subseteq tenant[t]
      /\ left[part][t] \cup {k} \in SUBSET (1 .. MaxSeeds)
  BY DEF SeedingInv, SeedingTypeOK, RowsAreFound
<1> DEFINE new == left[part][t] \cup {k}
<1>4. left' = [left EXCEPT ![part][t] = new] BY <1>1 DEF SeedingInv, SeedingTypeOK
<1> HIDE DEF new
<1>5. new \subseteq tenant[t] /\ new \in SUBSET (1 .. MaxSeeds) BY <1>3 DEF new
<1>6. /\ left' \in [Tables -> [TenantSet -> SUBSET (1 .. MaxSeeds)]]
      /\ \A x \in Tables, u \in TenantSet :
             left'[x][u] = IF x = part /\ u = t THEN new ELSE left[x][u]
  BY <1>4, <1>5, LeftChanges
<1>7. SeedingTypeOK' BY <1>2, <1>6 DEF SeedingInv, SeedingTypeOK
<1>8. RowsAreFound' BY <1>2, <1>5, <1>6 DEF SeedingInv, RowsAreFound
<1>9. Progress' /\ Behind' BY <1>2 DEF Progress, Behind
<1> QED BY <1>2, <1>7, <1>8, <1>9 DEF SeedingInv

LEMMA SeedingStep == ASSUME SeedingInv, [SeedingNext]_seedingVars PROVE SeedingInv'
<1>1. CASE CloseSeed \/ SeedStops BY <1>1, RestKeeps DEF CloseSeed, SeedStops
<1>2. CASE UNCHANGED seedingVars
  BY <1>2
  DEF seedingVars, SeedingInv, SeedingTypeOK, RowsAreFound, Progress, Behind, FreshlySeeded, Who
<1>3. CASE Seeded BY <1>2, <1>3 DEF Seeded
<1> QED
  BY <1>1, <1>2, <1>3, SeedingStartKeeps, SeedingFindKeeps, WipeKeeps, WipeUserKeeps, InsertTenantKeeps,
     FillKeeps, UseKeeps
  DEF SeedingNext

-----------------------------------------------------------------------------
(* Theorems *)

LEMMA SeedingInvariant == SeedingSpec => []SeedingInv
<1>1. SeedingInit => SeedingInv BY SeedingInitOK
<1>2. SeedingInv /\ [SeedingNext]_seedingVars => SeedingInv' BY SeedingStep
<1> QED BY <1>1, <1>2, PTL DEF SeedingSpec

\* The rows and the script keep their types.
THEOREM SeedingTypesHold == SeedingSpec => []SeedingTypeOK
<1>1. SeedingInv => SeedingTypeOK BY DEF SeedingInv
<1> QED BY <1>1, SeedingInvariant, PTL

\* Wherever its runs stopped, the script finds all rows of all its tenants, and
\* a run that ends leaves those it inserted (wipe, seedTenant).
THEOREM SeedingRepeats == SeedingSpec => []SeedingIsRepeatable
<1>1. SeedingInv => SeedingIsRepeatable
  BY DEF SeedingInv, RowsAreFound, Behind, FreshlySeeded, SeedingIsRepeatable
<1> QED BY <1>1, SeedingInvariant, PTL

-----------------------------------------------------------------------------
(***************************************************************************)
(* The workspace: all the parts that share no column, side by side.  Each  *)
(* of them behaves there as it does alone, so what holds of it alone holds *)
(* of all of them together.                                                *)
(***************************************************************************)

\* A step of the workspace is a step of every part, or invisible in it.
LEMMA WorkspaceStep ==
    ASSUME [WorkspaceNext]_workspaceVars
    PROVE  /\ [Next]_vars
           /\ [SessionNext]_sessionVars /\ [OnboardingNext]_onboardingVars
           /\ [ImageNext]_imageVars /\ [CustomerNext]_customerVars
           /\ [AppointmentNext]_appointmentVars /\ [ListingNext]_listingVars
           /\ [MigrationNext]_migrationVars /\ [SeedingNext]_seedingVars
           /\ [ReportNext]_reportVars /\ [MailNext]_mailVars
           /\ [Compute]_bill
<1>1. CASE UNCHANGED workspaceVars
  BY <1>1, Zenon DEF workspaceVars
<1>2. CASE WorkspaceNext
  BY <1>2, Zenon DEF WorkspaceNext, NothingToSend
<1> QED BY <1>1, <1>2

\* Accounts, sessions, businesses and their owners, images, customers, appointments,
\* lists, the seeding script, reports and mail are in the workspace what they are alone.
LEMMA WorkspaceParts ==
    WorkspaceSpec => /\ Spec /\ SessionSpec /\ OnboardingSpec /\ ImageSpec /\ CustomerSpec
                     /\ AppointmentSpec /\ ListingSpec /\ SeedingSpec /\ ReportSpec
                     /\ MailSpec
<1>1. WorkspaceInit => /\ Init /\ SessionInit /\ OnboardingInit /\ ImageInit /\ CustomerInit
                       /\ AppointmentInit /\ ListingInit /\ SeedingInit /\ ReportInit
                       /\ MailInit
  BY DEF WorkspaceInit
<1>2. [WorkspaceNext]_workspaceVars =>
          /\ [Next]_vars
          /\ [SessionNext]_sessionVars /\ [OnboardingNext]_onboardingVars
          /\ [ImageNext]_imageVars /\ [CustomerNext]_customerVars
          /\ [AppointmentNext]_appointmentVars /\ [ListingNext]_listingVars
          /\ [SeedingNext]_seedingVars /\ [ReportNext]_reportVars /\ [MailNext]_mailVars
  BY WorkspaceStep
<1> QED
  BY <1>1, <1>2, PTL
  DEF WorkspaceSpec, Spec, SessionSpec, OnboardingSpec, ImageSpec, CustomerSpec,
      AppointmentSpec, ListingSpec, SeedingSpec, ReportSpec, MailSpec

\* The migration also begins with no documents at all there, and the breakdown with
\* the one of a subtotal of zero: their invariants do not mind.
LEMMA WorkspaceMigrates == WorkspaceSpec => []MigrationInv
<1>1. WorkspaceInit => MigrationInv
  <2> SUFFICES ASSUME WorkspaceInit PROVE MigrationInv OBVIOUS
  <2>1. AtRest BY DEF WorkspaceInit, MigrationInit
  <2> QED
    BY <2>1, OrderIs, MigrationAssumption DEF AtRest, MigrationInv, NoJob, NoRows
<1>2. MigrationInv /\ [WorkspaceNext]_workspaceVars => MigrationInv'
  BY WorkspaceStep, MigrationStep
<1> QED BY <1>1, <1>2, PTL DEF WorkspaceSpec

LEMMA WorkspaceCharges == WorkspaceSpec => []ChargedAsTheLawSays
<1>1. WorkspaceInit => ChargedAsTheLawSays
  BY BillIsNear DEF WorkspaceInit, ChargedAsTheLawSays
<1>2. ChargedAsTheLawSays /\ [WorkspaceNext]_workspaceVars => ChargedAsTheLawSays'
  BY WorkspaceStep, ChargedStep
<1> QED BY <1>1, <1>2, PTL DEF WorkspaceSpec

\* Every column, local variable and answer of every part keeps its type, whichever
\* part moves, fails or ends (all services beside the orders and invoices).
THEOREM WorkspaceTypesHold == ASSUME ~Swaps PROVE WorkspaceSpec => []WorkspaceTypeOK
<1>1. MigrationInv => MigrationTypeOK
  <2> SUFFICES ASSUME MigrationInv PROVE MigrationTypeOK OBVIOUS
  <2>1. DOMAIN tables = Collections BY DEF MigrationInv, NoRows, Load
  <2> QED BY <2>1 DEF MigrationInv, MigrationTypeOK
<1>2. WorkspaceSpec => []MigrationTypeOK
  BY <1>1, WorkspaceMigrates, PTL
<1>3. ImageSpec => []ImageTypeOK
  BY ImageTypesHold
<1> QED
  BY <1>2, <1>3, WorkspaceParts, AccountTypesHold, SessionTypesHold, OnboardingTypesHold, CustomerTypesHold,
     AppointmentTypesHold, ListingTypesHold, SeedingTypesHold, ReportTypesHold,
     MailTypesHold, PTL DEF WorkspaceTypeOK

\* What is proved of each part alone stays true of all of them side by side: codes,
\* tokens, businesses, images, customers, imports, appointments, lists, the migration, the
\* seeding, the figures, the mail log and the tax.
THEOREM WorkspaceIsSound ==
    ASSUME ~Swaps
    PROVE  WorkspaceSpec => [](/\ CodesAreReplaced
                               /\ RetiredTokensStayOut /\ BusinessesAreOwned
                               /\ NoBrokenImage /\ ReplacedImagesGo
                               /\ NoDuplicateAddresses /\ ImportReportIsTrue
                               /\ RangesAreValid /\ WalkShowsEveryRow
                               /\ MigrationIsFaithful /\ SeedingIsRepeatable
                               /\ RevenueIsCounted /\ MailLogIsTrue
                               /\ ChargedAsTheLawSays)
<1>1. ImageSpec => []NoBrokenImage /\ []ReplacedImagesGo
  BY ImagesAreThere, ReplacedImagesLeave, PTL
<1>2. WorkspaceSpec => []MigrationIsFaithful
  BY WorkspaceMigrates, LoadsAreFaithful, PTL
<1> QED
  BY <1>1, <1>2, WorkspaceParts, WorkspaceCharges, CodesDoReplace, RetiredTokensNeverReturn,
     AccountsAndBusinessesAgree, CustomerAddressesAreUnique, ImportsAreReported,
     AppointmentsAreRanges, WalksAreComplete, SeedingRepeats, RevenueCounts,
     LogTellsWhatWasSent, PTL

=============================================================================
