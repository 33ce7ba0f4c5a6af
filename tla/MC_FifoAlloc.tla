----------------------------- MODULE MC_FifoAlloc -----------------------------
(* FifoAlloc on the descriptor tables a LUFA device of this shape passes   *)
(* to USB_Init: the control endpoint first, then up to three endpoints     *)
(* among an interrupt IN/OUT of 8 bytes, a bulk of 64 bytes and an         *)
(* isochronous one of 940 bytes, at addresses 0x81, 0x82 and 0x02.  The    *)
(* isochronous size brings the totals to the 512-word limit.               *)
EXTENDS FifoAlloc

ControlEp == [addr |-> 0, type |-> 0, size |-> 64]

EpChoices == {[addr |-> a, type |-> ts[1], size |-> ts[2]] :
                 a \in {129, 130, 2}, ts \in {<<3, 8>>, <<2, 64>>, <<1, 940>>}}

\* Tables of the control endpoint and at most three others, distinct
\* addresses.
McTables ==
    {t \in {<<ControlEp>>}
              \cup {<<ControlEp, e>> : e \in EpChoices}
              \cup {<<ControlEp, e, f>> : e, f \in EpChoices}
              \cup {<<ControlEp, e, f, g>> : e, f, g \in EpChoices} :
        \A x, y \in 2 .. Len(t) : x # y => t[x].addr # t[y].addr}
====
