------------------------------ MODULE MCLiveTV ------------------------------
(* An instance of LiveTV: two channels, each with a programme that moves on. *)
EXTENDS LiveTV

CONSTANTS one, two

=============================================================================
