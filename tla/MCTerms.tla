------------------------------ MODULE MCTerms ------------------------------
(* An instance of PaymentTerms for TLC: three words, two at a time.        *)
EXTENDS PaymentTerms
=============================================================================
