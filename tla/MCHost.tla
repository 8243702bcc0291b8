------------------------------- MODULE MCHost -------------------------------
(* Two blocks of RAM and of input, small buffers.  The second reply of the *)
(* debugging tool is longer than what on_init throws away and the transmit *)
(* buffer holds.                                                           *)
EXTENDS Host

MCDbgReg == <<2, 0, 0, 0>>
MCImage == <<17, 34, 51>>
MCRamData == <<17, 34, 51, 0>>
MCInput == <<49, 50>>
IO(o, b) == [op |-> o, byte |-> b]
MCProgram == <<IO("in", 0), IO("out", 72), IO("out", 0), IO("out", 73), IO("ret", 0)>>
MCToolPackets == {<<3>>, <<7, 8, 255, 11>>, <<9, 0, 0, 0, 12, 0, 1>>}
=============================================================================
