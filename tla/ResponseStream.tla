--------------------------- MODULE ResponseStream ---------------------------
(***************************************************************************)
(* What a client may read on the connection of a command: the chunks of    *)
(* each output stream in order, none missing and none twice, then one      *)
(* response that ends the stream, and nothing after it.  A connection that *)
(* breaks off leaves a prefix of that.  Command is shown to implement it.  *)
(***************************************************************************)
EXTENDS Integers, Sequences, FiniteSets

CONSTANTS Streams,  \* stdout and stderr
          Ends      \* the responses that end the stream

VARIABLE out  \* what the client was sent: <<stream, number>> or <<end, 0>>

Ended == \E i \in DOMAIN out : out[i][1] \in Ends

Sent(s) == Cardinality({i \in DOMAIN out : out[i][1] = s})

Init == out = <<>>

Chunk(s) == ~Ended /\ out' = Append(out, <<s, Sent(s) + 1>>)

End(e) == ~Ended /\ out' = Append(out, <<e, 0>>)

Next == (\E s \in Streams : Chunk(s)) \/ (\E e \in Ends : End(e))

Spec == Init /\ [][Next]_out
=============================================================================
