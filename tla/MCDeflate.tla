------------------------------ MODULE MCDeflate ------------------------------
(* Small instance of Deflate.  Windows of 8 to 11 bits span one earlier block,
   wider ones two.  The sizes lie around the room compress makes: 3 bytes
   overflow it, 1 and 6 fit; 12 bytes may be packed into less than 12.  A Ping of
   125 bytes is the longest one allowed. *)
EXTENDS Deflate, TLC

Extend(params) == [pmd |-> TRUE, params |-> params @@ [n \in Names |-> <<>>]]
Flags(s, c, sbits, cbits) ==
    Extend("server_no_context_takeover" :> s @@ "client_no_context_takeover" :> c
           @@ "server_max_window_bits" :> sbits @@ "client_max_window_bits" :> cbits)

None == <<>>
Set == <<NoValue>>

MCOffers ==
    { <<>>,                                              \* no extension
      <<Flags(None, None, None, Set)>>,                  \* what browsers offer
      <<Flags(Set, Set, <<9>>, <<12>>)>>,
      <<Flags(None, Set, None, None), [Extend(<<>>) EXCEPT !.pmd = FALSE]>>,
      <<Flags(Set, Set, None, None), Flags(None, None, <<15>>, <<10>>)>>,
      <<Flags(None, None, <<8>>, None)>>,
      <<Flags(None, None, <<16>>, None)>>,
      <<Flags(Set, Set \o Set, None, None)>>,
      <<Extend("unknown" :> Set)>> }

MCConfigs ==
    { [auto_fragment_size |-> 0, merge_frame |-> TRUE, validate_utf8 |-> "FastFail"],
      [auto_fragment_size |-> 6, merge_frame |-> TRUE, validate_utf8 |-> "On"],
      [auto_fragment_size |-> 0, merge_frame |-> FALSE, validate_utf8 |-> "Off"] }

MCSizes == "Text" :> {0, 1, 3, 12} @@ "Ping" :> {0, 125, 126}
MCSmallSizes == "Text" :> {4}
MCPackings == {<<1, 3>>, <<3, 5>>, <<4, 6>>, <<6, 8>>, <<12, 14>>, <<12, 5>>}
MCReach == [w \in WindowBit |-> IF w < 12 THEN 1 ELSE 2]

=============================================================================
