-------------------------- MODULE MCQualification --------------------------
EXTENDS Qualification

MCHostChecks == <<"released", "selected">>
MCLinuxChecks == <<"selected">>
=============================================================================
