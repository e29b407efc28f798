-------------------------------- MODULE Vat ---------------------------------
(***************************************************************************)
(* The Ghana VAT breakdown of an invoice, as InvoiceService.create         *)
(* computes it: money in pesewas, rates in tenths of a percent.            *)
(*                                                                         *)
(* round2 is Math.round on binary floats: it yields the nearest pesewa,    *)
(* and of two equally near ones either, since the product that should lie  *)
(* half way is a float next to it, above or below.                         *)
(***************************************************************************)
EXTENDS Integers

CONSTANTS Subtotals  \* what the orders of an invoice can come to

ASSUME VatAssumption == Subtotals \subseteq Nat

VARIABLE bill  \* the amounts of the invoice last computed

VAT_RATE == 150
NHIL_RATE == 25
GETFUND_RATE == 25

\* The whole pesewas nearest to n thousandths.
Rounded(n) ==
    {k \in {n \div 1000, n \div 1000 + 1} : n - 1000 * k \in -500 .. 500}

\* Equal rates on the same subtotal are the same float, hence the same levy.
Levies(subtotal) ==
    {levies \in Rounded(subtotal * NHIL_RATE) \X Rounded(subtotal * GETFUND_RATE) :
        NHIL_RATE = GETFUND_RATE => levies[1] = levies[2]}

\* Mutant: VAT on the bare subtotal.
BareBase(subtotal, levies) == subtotal

\* VAT is charged on the levy-inclusive base.
VatBase(subtotal, levies) == subtotal + levies[1] + levies[2]

\* What the customer may be asked to pay, with the amounts of the breakdown.
Bills(subtotal) ==
    UNION {{[subtotal |-> subtotal, nhil |-> levies[1], getfund |-> levies[2], vat |-> vat,
             total |-> subtotal + levies[1] + levies[2] + vat] :
                vat \in Rounded(VatBase(subtotal, levies) * VAT_RATE)} :
                    levies \in Levies(subtotal)}

Compute == \E subtotal \in Subtotals : bill' \in Bills(subtotal)

VatInit == \E subtotal \in Subtotals : bill \in Bills(subtotal)

VatSpec == VatInit /\ [][Compute]_bill

-----------------------------------------------------------------------------

\* Within 1.65 pesewas of the statutory 1.05 * 1.15 = 483 / 400 of the subtotal.
AsTheLawSays(b) == 400 * b.total - 483 * b.subtotal \in -660 .. 660

\* The customer is charged the statutory 1.05 * 1.15 of the subtotal to within two
\* pesewas, whatever the roundings of the three taxes do on top of each other.
ChargedAsTheLawSays == AsTheLawSays(bill)

=============================================================================
