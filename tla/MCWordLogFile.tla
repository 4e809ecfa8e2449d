--------------------------- MODULE MCWordLogFile ---------------------------
(***************************************************************************)
(* WordLogFile with two fibers in one process and one in another.          *)
(***************************************************************************)
EXTENDS WordLogFile, TLC

CONSTANTS p1, p2, w1, w2, w3

MCProcesses == {p1, p2}
MCWriters   == {w1, w2, w3}
MCProcessOf == w1 :> p1 @@ w2 :> p1 @@ w3 :> p2
============================================================================
