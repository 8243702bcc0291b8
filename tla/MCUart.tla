------------------------------- MODULE MCUart -------------------------------
(* Bytes of two bits, four ticks to a bit, two cycles to a tick.           *)
EXTENDS Uart

MCByte == {<<1, 0>>, <<0, 1>>}
=============================================================================
