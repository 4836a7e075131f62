---------------------------- MODULE MCOndxClient ----------------------------
(* Instances of OndxClient for TLC.                                        *)
EXTENDS OndxClient, TLC

CONSTANTS c1, c2, local, site, thunder, other

\* Two profiles: the second one is created with either client and changed to the
\* other.
SiteSettings == (local :> {}) @@ (site :> {thunder, other})

Terminals == Permutations(Commands)
=============================================================================
