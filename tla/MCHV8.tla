------------------------------- MODULE MCHV8 -------------------------------
EXTENDS HV8
=============================================================================
