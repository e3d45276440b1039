----------------------------- MODULE MC_Framing -----------------------------
(* Constants of Framing for TLC.  The tag values stand for the values of  *)
(* MessageType::get_type() (sgtypes, outside this repository); the model  *)
(* only needs them distinct.                                               *)
EXTENDS TLC

MCTypeTag ==
    ("OpenChannelNodeNegotiateMessage" :> 1) @@ ("ChannelTransactionRequest" :> 2)
    @@ ("ChannelTransactionResponse" :> 3) @@ ("ErrorMessage" :> 4)
    @@ ("BalanceQueryRequest" :> 5) @@ ("BalanceQueryResponse" :> 6)
    @@ ("MultiHopChannelTransactionRequest" :> 7)

(* Frames a peer may send: empty, one byte, an unknown tag, a response    *)
(* whose body does not decode, an ErrorMessage and a balance request      *)
(* whose bodies do not decode, a negotiate message and a well-formed      *)
(* balance request.                                                        *)
MCForeignFrames == {<< >>, <<0>>, <<1, 0>>, <<0, 3, 255>>, <<0, 4, 255>>,
                    <<0, 5, 255>>, <<0, 1>>, <<0, 5>>}

(* An ErrorMessage whose body does not decode, logged and dropped, and a  *)
(* well-formed balance request, answered.                                  *)
MCSomeForeignFrames == {<<0, 4, 255>>, <<0, 5>>}

MCNoForeignFrames == {}
=============================================================================
