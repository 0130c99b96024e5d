---------------------------- MODULE MCFrameReader ----------------------------
(* Small instance of FrameReader: every opcode, both values of fin, bodies that
   split a two-byte character, every control defect and both header defects;
   merging and not, under the three UTF-8 policies. *)
EXTENDS FrameReader

MCConfigs ==
    [check_rsv : {TRUE}, max_size : {TRUE}, merge_frame : BOOLEAN,
     validate_utf8 : Policies]
    \cup
    [check_rsv : {FALSE}, max_size : {FALSE}, merge_frame : {TRUE},
     validate_utf8 : {"FastFail"}]

MCDataFrames ==
    [code : {"Text", "Binary", "Continue"}, fin : BOOLEAN, head : {"ok"},
     body : {<<"a">>, <<"h">>, <<"t">>}, ctl : {"ok"}]

MCControlFrames ==
    [code : {"Ping"}, fin : BOOLEAN, head : {"ok"}, body : {<<>>}, ctl : {"ok", "long"}]
    \cup
    [code : {"Close"}, fin : {TRUE}, head : {"ok"}, body : {<<>>}, ctl : ControlBodies]

MCOddFrames ==
    [code : {"Binary"}, fin : {TRUE}, head : {"rsv", "large"}, body : {<<"a">>}, ctl : {"ok"}]
    \cup
    [code : {"Reserved"}, fin : {TRUE}, head : {"ok"}, body : {<<>>}, ctl : {"ok"}]

MCFrames == MCDataFrames \cup MCControlFrames \cup MCOddFrames

=============================================================================
