---- MODULE MCSessionTopology ----
(* Instances of SessionTopology for TLC.                                    *)
EXTENDS SessionTopology
====
