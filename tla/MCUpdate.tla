------------------------------ MODULE MCUpdate ------------------------------
EXTENDS SelfUpdate
TheThree == {"panel", "schedule", "netpulse"}
JustThePanel == {"panel"}
=============================================================================
