------------------------------- MODULE MCAgent -------------------------------
(* Three sessions that race for the agent of one pod.                        *)
EXTENDS Agent

CONSTANTS s1, s2, s3

ThreeSessions == {s1, s2, s3}
==============================================================================
