------------------------------ MODULE MCFdTable ------------------------------
(* Instances of FdTable for TLC: the UART of this system, which the        *)
(* standard streams use, and a file system.                                *)
EXTENDS FdTable

CONSTANTS uart, hostfs

MCCallbacks ==
  uart :> {"close", "read", "write"} @@ hostfs :> {"open", "close", "read", "lseek", "fstat"}
=============================================================================
