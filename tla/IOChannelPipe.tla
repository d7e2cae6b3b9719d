---------------------------- MODULE IOChannelPipe ----------------------------
(***************************************************************************)
(* IOChannel implements Pipe: the refinement mapping hides the buffer, the *)
(* watchers and the kernel's queue.  It is in a module of its own so that  *)
(* Relay can instantiate IOChannel once for each of its channels.          *)
(***************************************************************************)
EXTENDS IOChannel

P == INSTANCE Pipe WITH
    sent <- Take(Input, nread), delivered <- out, closed <- producer_eof,
    finished <- fin, broken <- (reset \/ dead)

(* What the owner of a channel relies on: the bytes that leave are a prefix *)
(* of those that were written, and an orderly end comes behind the last.    *)
ImplementsPipe == P!PipeSpec
=============================================================================
