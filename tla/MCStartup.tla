------------------------------ MODULE MCStartup ------------------------------
(* Processes that start on one key file and one socket, alone.                 *)
EXTENDS Startup

MCSpec == StartInit /\ [][StartNext]_startVars
=============================================================================
