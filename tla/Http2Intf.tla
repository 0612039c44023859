----------------------------- MODULE Http2Intf -----------------------------
(***************************************************************************)
(* The HTTP/2 requests of http2intf.c.                                     *)
(*                                                                         *)
(* A request connects, sends the send buffer and receives until the node   *)
(* has closed the stream or nothing comes for half a second.  recv_callback *)
(* turns every error into "nothing came", so a request that timed out or    *)
(* was cut off ends like a complete one: with BOAT_SUCCESS and whatever     *)
(* has arrived in the caller's response buffer.                             *)
(***************************************************************************)
EXTENDS Integers

CONSTANT NoAnswer    \* bytes that are no message

\* A response buffer: how many bytes it counts (fewer than the five of the
\* gRPC header or more), the messages it may unpack to, and whether it was
\* freed while its length still counts.
EmptyBuf == [len |-> "none", may |-> {NoAnswer}, freed |-> FALSE]

\* What may come of an answer before the connection is given up.
Pieces == {"none", "short", "part", "whole"}

\* A piece of answer a is appended to what is there.  A whole answer behind
\* the rest of another may unpack or not: the bytes in between are skipped as
\* unknown fields or not.
on_data_chunk_recv_callback(buf, piece, a) ==
  CASE piece = "none"  -> {buf}
    [] piece = "short" -> {[len |-> l, may |-> {NoAnswer}, freed |-> FALSE] :
                             l \in IF buf.len = "none" THEN {"short"}
                                   ELSE IF buf.len = "short" THEN {"short", "long"} ELSE {"long"}}
    [] piece = "part"  -> {[len |-> "long", may |-> {NoAnswer}, freed |-> FALSE]}
    [] piece = "whole" -> {[len |-> "long", freed |-> FALSE,
                            may |-> IF buf.len = "none" THEN {a} ELSE {a, NoAnswer}]}

\* http2IntfContext: the sockets that are open and the response buffer.
http2Init == [ctx |-> "ok", open |-> 0, buf |-> EmptyBuf]

\* Without memory for the send buffer the context is freed and handed out.
http2Init_NoBuffer == [ctx |-> "freed", open |-> 0, buf |-> EmptyBuf]

http2DeInit(http2) == [http2 EXCEPT !.ctx = "none"]

\* BoatConnect or BoatTlsInit: a new socket, whatever the old one is.
Connected(http2) == [http2 EXCEPT !.open = @ + 1]

\* Mutant: the end of the stream does not close the socket.
Mutant_on_stream_close_callback(http2) == http2

\* The node has answered everything and closes the stream.
on_stream_close_callback(http2) == [http2 EXCEPT !.open = @ - 1]

\* How a request that reached the node ends: the caller's buffer and the
\* result.  Only a whole answer comes with the end of the stream.
Received(http2, piece, a) ==
  {[(IF piece = "whole" THEN on_stream_close_callback(http2) ELSE http2) EXCEPT !.buf = b] :
     b \in on_data_chunk_recv_callback(http2.buf, piece, a)}
=============================================================================
