--------------------------- MODULE MCTimeoutList ---------------------------
(* A timeout list of up to four objects.                                    *)
EXTENDS TimeoutList
CONSTANTS o1, o2, o3, o4
MCObjs == {o1, o2, o3, o4}
=============================================================================
