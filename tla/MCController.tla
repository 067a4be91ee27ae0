---------------------------- MODULE MCController ----------------------------
(* Instances of Controller for TLC: a device that sends nothing but its    *)
(* answers to the connection check.                                        *)
EXTENDS Controller, TLC

=============================================================================
