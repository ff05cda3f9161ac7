-------------------------- MODULE MCPaymentCapture --------------------------
(* TLC instance of PaymentCapture.                                           *)
EXTENDS PaymentCapture

CONSTANTS e1, e2, s1

=============================================================================
