------------------------------- MODULE MC_Vcom --------------------------------
(* The line codings given to the model checker.                            *)
EXTENDS Vcom

\* 9600 8N1, which the UART takes as it is.
Coding8N1 == [baud |-> 9600, stop |-> 0, parity |-> 0, data |-> 8]

\* Mark parity (CDC ParityType 3), which UartConfiguration refuses.
CodingMark == [baud |-> 9600, stop |-> 0, parity |-> 3, data |-> 8]

\* Nine data bits, which UartConfiguration programs as sixteen.
Coding9N1 == [baud |-> 9600, stop |-> 0, parity |-> 0, data |-> 9]

McCodings == {Coding8N1, CodingMark}
McCodingsNine == {Coding8N1, Coding9N1}
=============================================================================
