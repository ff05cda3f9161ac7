------------------------------ MODULE MCQRCode ------------------------------
(* TLC instance of QRCode: a text as long as a chain name, an address and an *)
(* amount, one that needs two blocks, and one that fits no version.          *)
EXTENDS QRCode

Text(n) == [i \in 1..n |-> 48 + ((7 * i) % 75)]
Texts == {Text(67), Text(120), Text(140)}

=============================================================================
