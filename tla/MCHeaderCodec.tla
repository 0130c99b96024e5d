---------------------------- MODULE MCHeaderCodec ----------------------------
(* Small instance of HeaderCodec: the long form of the length has three bytes
   instead of eight, and the lengths are those where a form begins or ends. *)
EXTENDS HeaderCodec

MCLens == {0, 125, 126, 65535, 65536, 256 ^ 3 - 1}
MCKeys == {<<1, 2, 3, 4>>, <<255, 0, 127, 128>>}

=============================================================================
