---------------------------- MODULE MCProcesses ----------------------------
(* The instance of Processes that TLC checks. *)
EXTENDS Processes

NoneOrChild == {{}, {"CHLD"}}
=============================================================================
