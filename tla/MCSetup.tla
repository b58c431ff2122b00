------------------------------- MODULE MCSetup -------------------------------
EXTENDS Setup, TLC

CONSTANTS cidr1, cidr2, r1, r2, r3, n1

MCSource == (r1 :> cidr1) @@ (r2 :> cidr2) @@ (r3 :> cidr2)

\* No file, and one from before CONTROL_PLANE with the credentials of both
\* providers.
MCFiles ==
    {Absent, [NoSettings EXCEPT !.families = Families, !.trusted = cidr1, !.other = n1]}
=============================================================================
