-------------------------------- MODULE Pipe --------------------------------
(***************************************************************************)
(* What one direction of a relayed session promises its two ends, with no  *)
(* buffer, watcher or socket in sight: bytes come out in the order they    *)
(* went in, end of stream comes out only after all of them, and once the   *)
(* pipe breaks nothing more comes out.  IOChannel implements it.           *)
(***************************************************************************)
EXTENDS Sequences, SequencesExt

VARIABLES
    sent,       \* what the producer's end put in
    delivered,  \* what came out at the consumer's end
    closed,     \* the producer's end finished
    finished,   \* the consumer's end was told so
    broken      \* the session is over or the consumer's peer is gone

pipeVars == <<sent, delivered, closed, finished, broken>>

PipeInit ==
    /\ delivered = <<>>
    /\ ~closed /\ ~finished /\ ~broken

(* One step may accept and deliver at once: a write that bypasses the       *)
(* buffer.  It may also be the pipe's last.                                 *)
Transfer ==
    /\ ~broken /\ ~finished
    /\ IsPrefix(sent, sent') /\ (closed => closed' /\ sent' = sent)
    /\ IsPrefix(delivered, delivered') /\ IsPrefix(delivered', sent')
    /\ finished' => closed' /\ delivered' = sent'

Break ==
    /\ broken'
    /\ UNCHANGED <<sent, delivered, closed, finished>>

PipeNext == Transfer \/ Break

PipeSpec == PipeInit /\ [][PipeNext]_pipeVars
=============================================================================
