-------------------------- MODULE MCPortReservation --------------------------
(***************************************************************************)
(* Small instances of PortReservation for TLC.                             *)
(***************************************************************************)
EXTENDS PortReservation

CONSTANTS t1, t2
=============================================================================
