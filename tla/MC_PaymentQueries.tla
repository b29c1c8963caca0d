------------------------- MODULE MC_PaymentQueries --------------------------
(* PaymentQueries for TLC.  The amounts are those of the code divided by  *)
(* 10^6 and rounded down, which keeps their order: check_currency_amount  *)
(* bounds by 9999'9999'9999, convert_labeled_price clamps to 2^40.        *)
EXTENDS PaymentQueries

MCMaxAmount == 999999
MCSentinel == 1099511

\* A form with a price of 2^41 and tips of every kind (negative, too big,
\* more than four valid ones); one with a negative price out of range and
\* no tips; one with nothing to repair.
MCRawInvoices ==
    { [price |-> 2199023, maxTip |-> -5, tips |-> <<3, -1, 1000000, 1, 2, 4, 5>>, tip |-> -1],
      [price |-> -2000000, maxTip |-> 1000000, tips |-> <<>>, tip |-> 1000000],
      [price |-> 500, maxTip |-> 10, tips |-> <<1, 2>>, tip |-> 7] }
=============================================================================
