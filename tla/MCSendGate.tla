---- MODULE MCSendGate ----
(* Instances of SendGate for TLC.                                           *)
EXTENDS SendGate
====
