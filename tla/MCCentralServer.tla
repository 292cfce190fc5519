---------------------------- MODULE MCCentralServer ----------------------------
(* Instances of CentralServer for TLC. *)
EXTENDS CentralServer

CONSTANTS u1, u2, u3

MCUsers == <<u1, u2>>
=============================================================================
