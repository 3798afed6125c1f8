---------------------------- MODULE MCPacketCodec ----------------------------
(* The instance of PacketCodec for TLC: one-bit bytes, lengths of two bytes, *)
(* and a payload long enough to need both.                                  *)
EXTENDS PacketCodec

MCIds == {<<>>, <<0>>, <<1>>}
MCPayloads == {<<>>, <<1>>, <<0, 1, 1>>}
=============================================================================
