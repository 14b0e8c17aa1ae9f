------------------------------ MODULE MCShell -------------------------------
(* Models of Shell.                                                        *)
EXTENDS Shell
=============================================================================
