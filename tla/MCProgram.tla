----------------------------- MODULE MCProgram -----------------------------
(* The instances of the four components together. *)
EXTENDS Program, MCScan, MCSession, MCIndexStore, MCSkills
=============================================================================
