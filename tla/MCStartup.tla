------------------------------ MODULE MCStartup ------------------------------
(* Both profiles and an unknown one, on clusters that grant any set of        *)
(* permissions.                                                               *)
EXTENDS Startup
==============================================================================
