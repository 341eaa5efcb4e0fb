------------------------------- MODULE MCSeedRun -------------------------------
(* Values of SeedRun's constants: two instances, one with an account beside the *)
(* external one.                                                                *)
EXTENDS SeedRun, TLC

MCAccounts == <<1, 0>>

================================================================================
