------------------------------ MODULE MCLicense ------------------------------
(* Instances of LicenseUpdate for TLC: the requests are interchangeable.     *)
EXTENDS LicenseUpdate, TLC

Symmetry == Permutations(Request)
=============================================================================
