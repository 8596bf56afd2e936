------------------------------ MODULE MCProtection ------------------------------
EXTENDS Protection

CONSTANTS m1, g1, g2

MCGroups == <<<<m1>>, <<g1, g2>>>>
MCConditions == <<"temp_high", "humid_high">>

=============================================================================
