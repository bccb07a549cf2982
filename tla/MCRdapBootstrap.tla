---------------------------- MODULE MCRdapBootstrap ---------------------------
(* Instances of RdapBootstrap for TLC. *)
EXTENDS RdapBootstrap

CONSTANTS com, new

\* The second TLD is delegated after the first document was published.
Delegated == [v \in Versions |-> IF v = 1 THEN {com} ELSE {com, new}]
===============================================================================
