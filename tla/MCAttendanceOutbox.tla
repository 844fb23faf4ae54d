-------------------------- MODULE MCAttendanceOutbox --------------------------
(* AttendanceOutbox for TLC: two attestations, one of them never
   accepted. *)
EXTENDS AttendanceOutbox
=============================================================================
