---------------------------- MODULE MCSerialPort ----------------------------
(* One port; a rate with a constant and one without; a length that is not   *)
(* one of the four.                                                        *)
EXTENDS SerialPort

MCBuilt == {[baud |-> 9600, bytesize |-> 7, parity |-> "odd",
             stopbits |-> "one", flow |-> "hardware"]}
=============================================================================
