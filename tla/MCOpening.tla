----------------------------- MODULE MCOpening -----------------------------
(* Small instances of Opening.  Streams whose handshake is sent: not buffered,
   with buffers smaller than a head, and, for the flushing blocking client,
   larger ones. *)
EXTENDS Opening

MCClients == {[async |-> TRUE, cap |-> 0], [async |-> TRUE, cap |-> 2],
              [async |-> FALSE, cap |-> 0], [async |-> FALSE, cap |-> 4]}

MCServers == {[async |-> TRUE, cap |-> 2], [async |-> FALSE, cap |-> 0],
              [async |-> FALSE, cap |-> 2]}

\* A server over a BufStream with room for its response, and such a client.
MCBufServers == {[async |-> FALSE, cap |-> 4]}
MCBufClients == {[async |-> FALSE, cap |-> 4]}

=============================================================================
