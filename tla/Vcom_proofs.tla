------------------------------ MODULE Vcom_proofs ------------------------------
(***************************************************************************)
(* Proofs about the CDC bridge of Vcom, for every byte alphabet, set of    *)
(* line codings and bound: the type invariant, that VCOM_Bridge passes    *)
(* every UART byte to the host without loss or reordering, and the first  *)
(* byte of every host packet to the UART, once and in order.              *)
(***************************************************************************)
EXTENDS Vcom, SequenceTheorems, TLAPS

USE VcomAssumption

(***************************************************************************)
(* The strengthening of UartToHostLossless.  The IN bank is empty except   *)
(* while the loop waits on it, and the loop writes with the TX endpoint    *)
(* selected: the handler restores the selection a class request changed.   *)
(* So WriteTx never overwrites a packet the host has not read, and never   *)
(* writes its byte into another endpoint.                                  *)
(***************************************************************************)
InBankInv ==
    /\ TypeOK
    /\ fg # "waitIn" => txPkt = <<>>
    /\ fg \in {"writeTx", "waitIn"} => sel = "TX"
    /\ UartToHostLossless

(***************************************************************************)
(* The strengthening of HostToUartPerPacket: an armed RX endpoint is       *)
(* empty, so a packet the host sends never lands on one the loop has not   *)
(* read.                                                                   *)
(***************************************************************************)
OutBankInv ==
    /\ TypeOK
    /\ rxArmed => rxPkt = <<>>
    /\ HostToUartPerPacket
-----------------------------------------------------------------------------
\* The bulk OUT packets the host sends are byte sequences.
LEMMA PacketsAreSeqs == Packets \subseteq Seq(Bytes)
<1> SUFFICES ASSUME NEW pkt \in Packets PROVE pkt \in Seq(Bytes)
  OBVIOUS
<1>1. PICK n \in 1 .. MaxPacket : pkt \in [1 .. n -> Bytes]
  BY DEF Packets
<1>2. QED
  BY <1>1, SeqDef, VcomAssumption

\* UartConfiguration programs a frame the USART has, or leaves the one it
\* had: the default cases return before FRAME is written.
LEMMA UartConfigurationFrame ==
  ASSUME NEW c \in Codings, uart \in UartFrames
  PROVE  UartConfiguration(c) \in UartFrames
BY CodingsAssumption DEF UartConfiguration, UartFrames, FrameDataBits, LineCodings

\* SetupHardware and USB_Init leave the bridge well typed.
LEMMA TypingInit == Init => TypeOK
<1> SUFFICES ASSUME Init PROVE TypeOK
  OBVIOUS
<1>1. lineEncoding \in LineCodings /\ uart \in UartFrames
  BY DEF Init, LineEncodingInit, LineCodings, SerialPortInit, UartFrames
<1>2. tmp \in Bytes
  BY DEF Init
<1>3. {rxPkt, txPkt, uartRx, uartTx, hostOut, written, hostIn} \subseteq Seq(Bytes)
  BY EmptySeq DEF Init
<1>4. hostPkts \in Seq(Seq(Bytes))
  BY EmptySeq DEF Init
<1>5. QED
  BY <1>1, <1>2, <1>3, <1>4 DEF Init, TypeOK, Endpoints

\* Every step of the loop, of a class event, of the host and of the peer
\* keeps each variable in its range.
LEMMA TypingStep == TypeOK /\ [Next]_vars => TypeOK'
<1> SUFFICES ASSUME TypeOK, [Next]_vars PROVE TypeOK'
  OBVIOUS
<1> USE DEF TypeOK
<1>1. CASE SelectRx \/ SelectTx \/ WaitIn
  BY <1>1 DEF SelectRx, SelectTx, WaitIn, Endpoints, logVars, fgVars
<1>2. CASE ReadRx
  <2>1. CASE sel = "RX" /\ rxPkt # <<>>
    <3>1. Head(rxPkt) \in Bytes
      BY <2>1, HeadTailProperties
    <3>2. Append(uartTx, Head(rxPkt)) \in Seq(Bytes)
      BY <3>1, AppendProperties
    <3>3. QED
      BY <1>2, <2>1, <3>1, <3>2, EmptySeq DEF ReadRx
  <2>5. CASE ~(sel = "RX" /\ rxPkt # <<>>)
    BY <1>2, <2>5 DEF ReadRx
  <2>6. QED
    BY <2>1, <2>5
<1>3. CASE CheckUart
  <2>1. CASE uartRx # <<>>
    BY <1>3, <2>1, HeadTailProperties DEF CheckUart, logVars
  <2>2. CASE uartRx = <<>>
    BY <1>3, <2>2 DEF CheckUart, logVars
  <2>3. QED
    BY <2>1, <2>2
<1>4. CASE WriteTx
  <2>1. Append(written, tmp) \in Seq(Bytes) /\ <<tmp>> \in Seq(Bytes)
    BY AppendProperties, EmptySeq, AppendIsConcat, ConcatEmptySeq
  <2>2. QED
    BY <1>4, <2>1 DEF WriteTx
<1>11. CASE ConfigurationChanged
  <2>1. lineEncoding' \in LineCodings
    BY <1>11 DEF ConfigurationChanged, LineCodings
  <2>2. UNCHANGED <<uart, acked, sel, fg, tmp, uartRx>>
    BY <1>11 DEF ConfigurationChanged, fgVars
  <2>3. {rxPkt', txPkt', uartTx', hostOut', written', hostIn'} \subseteq Seq(Bytes)
    BY <1>11, EmptySeq DEF ConfigurationChanged
  <2>4. hostPkts' \in Seq(Seq(Bytes))
    BY <1>11, EmptySeq DEF ConfigurationChanged
  <2>5. QED
    BY <1>11, <2>1, <2>2, <2>3, <2>4 DEF ConfigurationChanged
<1>12. CASE Deconfigure
  BY <1>12 DEF Deconfigure, fgVars, logVars
<1>13. ASSUME NEW c \in Codings, SetLineEncoding(c) PROVE TypeOK'
  BY <1>13, UartConfigurationFrame, CodingsAssumption DEF SetLineEncoding, fgVars, logVars
<1>14. ASSUME NEW pkt \in Packets, HostOut(pkt) PROVE TypeOK'
  <2>1. pkt \in Seq(Bytes)
    BY PacketsAreSeqs
  <2>2. hostOut \o pkt \in Seq(Bytes)
    BY <2>1, ConcatProperties
  <2>3. Append(hostPkts, pkt) \in Seq(Seq(Bytes))
    BY <2>1, AppendProperties
  <2>4. QED
    BY <1>14, <2>1, <2>2, <2>3 DEF HostOut, fgVars
<1>15. CASE HostIn
  BY <1>15, ConcatProperties, EmptySeq DEF HostIn, fgVars
<1>16. ASSUME NEW b \in Bytes, UartPeer(b) PROVE TypeOK'
  BY <1>16, AppendProperties DEF UartPeer, fgVars
<1>17. CASE UNCHANGED vars
  BY <1>17 DEF vars
<1>18. QED
  BY <1>1, <1>2, <1>3, <1>4, <1>11, <1>12, <1>13, <1>14, <1>15, <1>16, <1>17
  DEF Next, Bridge

\* Type correctness of the bridge: in particular UartConfiguration never
\* programs a FRAME field the USART does not have.
THEOREM Typing == Spec => []TypeOK
BY TypingInit, TypingStep, PTL DEF Spec
-----------------------------------------------------------------------------
\* The loop starts with both banks empty and nothing written or read.
LEMMA InBankInit == Init => InBankInv
BY TypingInit DEF Init, InBankInv, UartToHostLossless

(***************************************************************************)
(* No step breaks InBankInv: WriteTx appends to written the byte it puts   *)
(* in the empty IN bank, HostIn moves the bank to hostIn, WaitIn leaves    *)
(* only an empty bank, the configuration event empties everything, and no *)
(* class request changes the loop's selection.                             *)
(***************************************************************************)
LEMMA InBankStep == InBankInv /\ [Next]_vars => InBankInv'
<1> SUFFICES ASSUME InBankInv, [Next]_vars PROVE InBankInv'
  OBVIOUS
<1>1. TypeOK'
  BY TypingStep DEF InBankInv
<1>2. TypeOK
  BY DEF InBankInv
<1> USE DEF InBankInv, UartToHostLossless
<1>3. CASE SelectRx \/ ReadRx \/ CheckUart \/ SelectTx \/ WaitIn
  BY <1>1, <1>3 DEF SelectRx, ReadRx, CheckUart, SelectTx, WaitIn, logVars
<1>4. CASE WriteTx
  <2>1. sel = "TX" /\ txPkt = <<>>
    BY <1>4 DEF WriteTx
  <2>2. written = hostIn
    BY <1>2, <2>1, ConcatEmptySeq DEF TypeOK
  <2>3. Append(written, tmp) = hostIn \o <<tmp>>
    BY <1>2, <2>2, AppendIsConcat DEF TypeOK
  <2>4. QED
    BY <1>1, <1>4, <2>1, <2>3 DEF WriteTx
<1>5. CASE ConfigurationChanged
  BY <1>1, <1>5, ConcatEmptySeq, EmptySeq DEF ConfigurationChanged, fgVars
<1>6. CASE HostIn
  <2>1. hostIn' \o txPkt' = hostIn \o txPkt
    BY <1>2, <1>6, ConcatProperties, ConcatEmptySeq DEF HostIn, TypeOK
  <2>2. QED
    BY <1>1, <1>6, <2>1 DEF HostIn, fgVars
<1>7. CASE Deconfigure \/ (\E c \in Codings : SetLineEncoding(c))
             \/ (\E pkt \in Packets : HostOut(pkt)) \/ (\E b \in Bytes : UartPeer(b))
  BY <1>1, <1>7 DEF Deconfigure, SetLineEncoding, HostOut, UartPeer, fgVars,
                     logVars
<1>8. CASE UNCHANGED vars
  BY <1>1, <1>8 DEF vars
<1>9. QED
  BY <1>3, <1>4, <1>5, <1>6, <1>7, <1>8 DEF Next, Bridge

\* UART to host: every byte VCOM_Bridge writes reaches the host once and in
\* order, the one still in the IN bank aside, whatever class request or
\* reset the interrupt runs between the loop's Endpoint_SelectEndpoint and
\* Endpoint_Write_8.
THEOREM UartToHost == Spec => []UartToHostLossless
<1>1. Spec => []InBankInv
  BY InBankInit, InBankStep, PTL DEF Spec
<1>2. QED
  BY <1>1, PTL DEF InBankInv
-----------------------------------------------------------------------------
\* A packet of the host is a non-empty byte sequence.
LEMMA PacketShape ==
  ASSUME NEW pkt \in Packets
  PROVE  pkt \in Seq(Bytes) /\ pkt # <<>>
<1>1. PICK n \in 1 .. MaxPacket : pkt \in [1 .. n -> Bytes]
  BY DEF Packets
<1>2. pkt \in Seq(Bytes)
  BY PacketsAreSeqs DEF Packets
<1>3. Len(pkt) = n
  BY <1>1, <1>2, LenProperties
<1>4. QED
  BY <1>2, <1>3, EmptySeq

\* The loop starts with the OUT endpoint empty and nothing sent.
LEMMA OutBankInit == Init => OutBankInv
BY TypingInit, EmptySeq DEF Init, OutBankInv, HostToUartPerPacket

(***************************************************************************)
(* No step breaks OutBankInv: the host only sends to the armed, hence      *)
(* empty, endpoint, so its packet is the last one logged; ReadRx passes    *)
(* that packet's first byte to the USART, empties the endpoint and         *)
(* re-arms it; the configuration event empties everything.                 *)
(***************************************************************************)
LEMMA OutBankStep == OutBankInv /\ [Next]_vars => OutBankInv'
<1> SUFFICES ASSUME OutBankInv, [Next]_vars PROVE OutBankInv'
  OBVIOUS
<1>1. TypeOK'
  BY TypingStep DEF OutBankInv
<1>2. TypeOK
  BY DEF OutBankInv
<1>3. CASE ReadRx
  <2>1. CASE sel = "RX" /\ rxPkt # <<>>
    <3>1. /\ uartTx' = Append(uartTx, Head(rxPkt))
          /\ rxPkt' = <<>> /\ rxArmed' = TRUE /\ hostPkts' = hostPkts
      BY <1>3, <2>1 DEF ReadRx
    <3>2. /\ Len(uartTx) + 1 = Len(hostPkts)
          /\ \A i \in 1 .. Len(uartTx) : uartTx[i] = hostPkts[i][1]
          /\ rxPkt = hostPkts[Len(hostPkts)]
      BY <2>1 DEF OutBankInv, HostToUartPerPacket
    <3>3. Head(rxPkt) = hostPkts[Len(uartTx) + 1][1]
      BY <1>2, <2>1, <3>2 DEF TypeOK
    <3>4. /\ Len(uartTx') = Len(uartTx) + 1
          /\ \A i \in 1 .. Len(uartTx) + 1 :
                uartTx'[i] = IF i = Len(uartTx) + 1 THEN Head(rxPkt) ELSE uartTx[i]
      <4>1. Head(rxPkt) \in Bytes
        BY <1>2, <2>1, HeadTailProperties DEF TypeOK
      <4>2. QED
        BY <1>2, <3>1, <4>1, AppendProperties DEF TypeOK
    <3>5. QED
      BY <1>1, <3>1, <3>2, <3>3, <3>4 DEF OutBankInv, HostToUartPerPacket
  <2>2. CASE ~(sel = "RX" /\ rxPkt # <<>>)
    BY <1>1, <1>3, <2>2 DEF ReadRx, OutBankInv, HostToUartPerPacket
  <2>3. QED
    BY <2>1, <2>2
<1>4. CASE \E pkt \in Packets : HostOut(pkt)
  <2>1. PICK pkt \in Packets : HostOut(pkt)
    BY <1>4
  <2>2. pkt \in Seq(Bytes) /\ pkt # <<>>
    BY PacketShape
  <2>3. /\ rxPkt' = pkt /\ rxArmed' = FALSE /\ uartTx' = uartTx
        /\ hostPkts' = Append(hostPkts, pkt)
    BY <2>1 DEF HostOut
  <2>4. /\ Len(uartTx) = Len(hostPkts)
        /\ \A i \in 1 .. Len(uartTx) : uartTx[i] = hostPkts[i][1]
    BY <2>1 DEF HostOut, OutBankInv, HostToUartPerPacket
  <2>5. /\ Len(hostPkts') = Len(hostPkts) + 1
        /\ hostPkts'[Len(hostPkts')] = pkt
        /\ \A i \in 1 .. Len(hostPkts) : hostPkts'[i] = hostPkts[i]
    BY <1>2, <2>2, <2>3, AppendProperties DEF TypeOK
  <2>6. QED
    BY <1>1, <2>2, <2>3, <2>4, <2>5 DEF OutBankInv, HostToUartPerPacket
<1>5. CASE ConfigurationChanged
  BY <1>1, <1>5 DEF ConfigurationChanged, OutBankInv, HostToUartPerPacket
<1>6. CASE SelectRx \/ CheckUart \/ SelectTx \/ WriteTx \/ WaitIn \/ Deconfigure
             \/ (\E c \in Codings : SetLineEncoding(c)) \/ HostIn
             \/ (\E b \in Bytes : UartPeer(b)) \/ UNCHANGED vars
  BY <1>1, <1>6 DEF SelectRx, CheckUart, SelectTx, WriteTx, WaitIn,
                    Deconfigure, SetLineEncoding, HostIn, UartPeer, vars,
                    logVars, fgVars, OutBankInv, HostToUartPerPacket
<1>7. QED
  BY <1>3, <1>4, <1>5, <1>6 DEF Next, Bridge

(***************************************************************************)
(* Host to UART, for every packet size: USART_Tx gets the first byte of    *)
(* each bulk OUT packet the host sends, once and in order, the packet      *)
(* still in the endpoint aside.  That the rest of a longer packet is lost  *)
(* is the vcom_out_packet_truncated run.                                   *)
(***************************************************************************)
THEOREM HostToUart == Spec => []HostToUartPerPacket
<1>1. Spec => []OutBankInv
  BY OutBankInit, OutBankStep, PTL DEF Spec
<1>2. QED
  BY <1>1, PTL DEF OutBankInv
====
