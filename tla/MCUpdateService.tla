---- MODULE MCUpdateService ----
(* Instances of UpdateService for TLC.                                      *)
EXTENDS UpdateService

Rel(v, b, d) == [version |-> v, bytes |-> b, digest |-> d]
NoRelease == Rel(0, 0, FALSE)

\* The version that runs, a newer one, the newer one published again with other bytes, and
\* a newer one still that comes without a digest.
Published == {Rel(1, 1, TRUE), Rel(2, 2, TRUE), Rel(2, 3, TRUE), Rel(3, 4, FALSE)}
====
