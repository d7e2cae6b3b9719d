---------------------------- MODULE MCIOChannel ----------------------------
(* IOChannel on a stream of six distinct bytes.  With all bytes different,  *)
(* any loss, repetition or exchange shows in the contents of out and buf.   *)
EXTENDS IOChannelPipe
MCInput == <<"a", "b", "c", "d", "e", "f">>
MCByte == {"a", "b", "c", "d", "e", "f"}
=============================================================================
