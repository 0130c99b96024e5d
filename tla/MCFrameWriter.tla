---------------------------- MODULE MCFrameWriter ----------------------------
(* Small instances of FrameWriter: payloads of 0, 1 and 6 bytes, so that a short
   message follows a long one in the reused buffer; chunk sizes 2 and 3, of which
   only the first leaves every fragment header whole. *)
EXTENDS FrameWriter

MCConfigs == [mask : BOOLEAN, renew : BOOLEAN, fragment : {0, 2, 3}]

MCFragmenting == [mask : {FALSE}, renew : {FALSE}, fragment : {2}]

=============================================================================
