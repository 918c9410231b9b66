----------------------------- MODULE MCLoyalty -----------------------------
\* Instances of Loyalty for TLC: a direct sale and a divided account.
EXTENDS Loyalty

DirectaYCuenta == [f \in Facturas |-> IF f = 1 THEN 1 ELSE 2]
UnPunto       == [f \in Facturas |-> 1]
=============================================================================
