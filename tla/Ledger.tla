------------------------------- MODULE Ledger -------------------------------
(***************************************************************************)
(* Double-entry postings, translated from ledger/ledger.go.  A posting is  *)
(* what its entries debit and credit, summed by kind of account: every     *)
(* posting of an order concerns one seller and one currency, and an entry  *)
(* of amount zero is not made.                                             *)
(***************************************************************************)
EXTENDS Integers

Kinds == {"platform_revenue", "seller_pending", "seller_available", "refunds",
          "reserves", "provider_clearing"}

Nothing == [k \in Kinds |-> 0]

\* What stands on the six kinds of accounts together.
Total(f) == f["platform_revenue"] + f["seller_pending"] + f["seller_available"]
              + f["refunds"] + f["reserves"] + f["provider_clearing"]

Validate(p) == Total(p.debit) > 0 /\ Total(p.debit) = Total(p.credit)

PaymentCaptured(gross, fee) ==
  [debit  |-> [Nothing EXCEPT !["provider_clearing"] = gross],
   credit |-> [Nothing EXCEPT !["platform_revenue"] = fee,
                              !["seller_pending"] = gross - fee]]

EarningsReleased(amount) ==
  [debit  |-> [Nothing EXCEPT !["seller_pending"] = amount],
   credit |-> [Nothing EXCEPT !["seller_available"] = amount]]

SellerAccount(sellerFundsAvailable) ==
  IF sellerFundsAvailable THEN "seller_available" ELSE "seller_pending"

\* The refunds account is debited and credited once: it only passes through.
RefundIssued_wholeFromSeller(amount, fee, sellerFundsAvailable) ==
  [debit  |-> [Nothing EXCEPT !["refunds"] = amount,
                              ![SellerAccount(sellerFundsAvailable)] = amount],
   credit |-> [Nothing EXCEPT !["provider_clearing"] = amount,
                              !["refunds"] = amount]]
RefundIssued(amount, fee, sellerFundsAvailable) ==
  [debit  |-> [Nothing EXCEPT !["refunds"] = amount,
                              !["platform_revenue"] = fee,
                              ![SellerAccount(sellerFundsAvailable)] = amount - fee],
   credit |-> [Nothing EXCEPT !["provider_clearing"] = amount,
                              !["refunds"] = amount]]

ManualAdjustment(from, to, amount) ==
  [debit  |-> [Nothing EXCEPT ![from] = amount],
   credit |-> [Nothing EXCEPT ![to] = amount]]

\* A balance is credits minus debits.
Apply_unsigned(balance, p) == [k \in Kinds |-> balance[k] + p.credit[k] + p.debit[k]]
Apply(balance, p) == [k \in Kinds |-> balance[k] + p.credit[k] - p.debit[k]]

=============================================================================
