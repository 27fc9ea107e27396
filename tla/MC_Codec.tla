------------------------------- MODULE MC_Codec -------------------------------
(* The codec with the code's own checksum (CalcCRC16 <- CRC16), on payloads *)
(* up to one byte longer than permitted, read with nothing behind them, or  *)
(* with two bytes, as IG4U_HAL_Recv reads them: a sync word or zeros.       *)
EXTENDS IG4U_Codec

BytesBehind == {<<>>, <<HEADER_BYTE_0, HEADER_BYTE_1>>, <<0, 0>>}
=============================================================================
