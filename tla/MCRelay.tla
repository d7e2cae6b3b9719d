------------------------------- MODULE MCRelay -------------------------------
(* Relay with streams long enough to fill and drain both channels twice.    *)
EXTENDS Relay
MCSends == [client |-> 4, remote |-> 4]
=============================================================================
