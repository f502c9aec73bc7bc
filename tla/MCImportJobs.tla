---------------------------- MODULE MCImportJobs ----------------------------
(* ImportJobs on small instances.                                          *)
EXTENDS ImportJobs, TLC

=============================================================================
