-------------------------------- MODULE Vcom ---------------------------------
(***************************************************************************)
(* The virtual serial port of the VCP demo (VirtualSerial.c): the bridge   *)
(* loop VCOM_Bridge that main runs in the foreground, the CDC class        *)
(* requests and the configuration event that the interrupt handler runs    *)
(* in the middle of it, the UART set up by SerialPortInit, the host on the *)
(* bulk endpoints and the peer on the UART line.                           *)
(*                                                                         *)
(* The device state is abstracted to whether the host has configured it.  *)
(* Handlers run from USB_IRQHandler preempt the loop between any two of    *)
(* its steps; the OUT-endpoint handler saves the loop's endpoint selection *)
(* and restores it after the request (USBInterrupt_EFM32GG.c:166-171).     *)
(***************************************************************************)
EXTENDS Naturals, Sequences

CONSTANTS
    Bytes,        \* the data bytes the model tells apart
    Codings,      \* the line codings the host may ask for
    MaxPacket,    \* the longest bulk OUT packet the host sends
    MaxXfer,      \* bound on the bytes sent each way
    UartRxDepth   \* the USART receive buffer (RXDATA and its FIFO)

\* A CDC_LineEncoding_t: BaudRateBPS, CharFormat, ParityType, DataBits.
LineCodings == [baud : Nat, stop : Nat, parity : Nat, data : Nat]

ASSUME CodingsAssumption == Codings \subseteq LineCodings

ASSUME VcomAssumption ==
    /\ Bytes # {}
    /\ MaxPacket \in Nat \ {0}
    /\ MaxXfer \in Nat \ {0}
    /\ UartRxDepth \in Nat \ {0}

\* The endpoints the loop selects: the control endpoint, CDC_RX_EPADDR and
\* CDC_TX_EPADDR.
Endpoints == {"CTRL", "RX", "TX"}

\* No SET_LINE_CODING acknowledged yet.
NoCoding == [baud |-> 0, stop |-> 0, parity |-> 0, data |-> 0]

VARIABLES
    configured,    \* USB_DeviceState = DEVICE_STATE_Configured
    lineEncoding,  \* LineEncoding
    uart,          \* the USART's FRAME and baud rate
    acked,         \* the last line coding the class handler acknowledged
    sel,           \* the selected endpoint
    fg,            \* where VCOM_Bridge is
    tmp,           \* its local byte
    rxPkt,         \* the bulk OUT packet in the RX endpoint
    rxArmed,       \* the RX endpoint accepts a packet (Endpoint_ClearOUT)
    txPkt,         \* the bulk IN packet waiting for the host
    uartRx,        \* bytes in the USART receive buffer
    uartTx,        \* bytes the bridge sent on the USART this session
    hostOut,       \* bytes the host sent on bulk OUT this session
    hostPkts,      \* the bulk OUT packets the host sent this session
    written,       \* bytes the bridge wrote for the host this session
    hostIn,        \* bytes the host received on bulk IN this session
    sent           \* bytes sent so far each way, for the bound

vars == <<configured, lineEncoding, uart, acked, sel, fg, tmp, rxPkt, rxArmed,
          txPkt, uartRx, uartTx, hostOut, hostPkts, written, hostIn, sent>>

fgVars == <<fg, tmp>>
logVars == <<uartTx, hostOut, hostPkts, written, hostIn>>

(***************************************************************************)
(* UartConfiguration, lines 126-179: the frame is built field by field,    *)
(* and an unknown value returns before any register is written.  Nine      *)
(* data bits select UART_FRAME_DATABITS_SIXTEEN.                           *)
(***************************************************************************)
FrameDataBits(n) == IF n = 9 THEN 16 ELSE n

\* UartConfiguration without the default cases: every coding is written.
UartConfiguration_NoDefault(c) ==
    [baud |-> c.baud, stop |-> c.stop, parity |-> c.parity,
     data |-> FrameDataBits(c.data)]

UartConfiguration(c) ==
    IF c.data \in 5 .. 9 /\ c.parity \in 0 .. 2 /\ c.stop \in 0 .. 2
      THEN [baud |-> c.baud, stop |-> c.stop, parity |-> c.parity,
            data |-> FrameDataBits(c.data)]
      ELSE uart

\* The LineEncoding the firmware starts with, lines 102-106: 8N1 at an
\* unknown (0) baud rate.
LineEncodingInit == [baud |-> 0, stop |-> 0, parity |-> 0, data |-> 8]

\* SerialPortInit: USART_InitAsync with USART_INITASYNC_DEFAULT, 115200 8N1.
SerialPortInit == [baud |-> 115200, stop |-> 0, parity |-> 0, data |-> 8]

\* SetupHardware, then the main loop: the UART is set up before USB_Init,
\* the loop starts with the control endpoint selected and no endpoint of
\* the CDC interface configured.
Init ==
    /\ configured = FALSE
    /\ lineEncoding = LineEncodingInit
    /\ uart = SerialPortInit
    /\ acked = NoCoding
    /\ sel = "CTRL"
    /\ fg = "selRx"
    /\ tmp = CHOOSE b \in Bytes : TRUE
    /\ rxPkt = <<>>
    /\ rxArmed = FALSE
    /\ txPkt = <<>>
    /\ uartRx = <<>>
    /\ uartTx = <<>>
    /\ hostOut = <<>>
    /\ hostPkts = <<>>
    /\ written = <<>>
    /\ hostIn = <<>>
    /\ sent = [out |-> 0, uart |-> 0]

-----------------------------------------------------------------------------
(* VCOM_Bridge, lines 325-346, one step per endpoint access.               *)

\* Line 332.
SelectRx ==
    /\ fg = "selRx"
    /\ sel' = "RX"
    /\ fg' = "readRx"
    /\ UNCHANGED <<configured, lineEncoding, uart, acked, tmp, rxPkt, rxArmed,
                   txPkt, uartRx, logVars, sent>>

\* ReadRx with Endpoint_ClearOUT left out: the packet stays in the endpoint.
ReadRx_NoClear ==
    /\ fg = "readRx"
    /\ IF sel = "RX" /\ rxPkt # <<>>
         THEN /\ tmp' = Head(rxPkt)
              /\ uartTx' = Append(uartTx, Head(rxPkt))
         ELSE UNCHANGED <<tmp, uartTx>>
    /\ fg' = "checkUart"
    /\ UNCHANGED <<configured, lineEncoding, uart, acked, sel, rxPkt, rxArmed,
                   txPkt, uartRx, hostOut, hostPkts, written, hostIn, sent>>

\* Lines 333-336: a received packet gives its first byte (Endpoint_Read_8)
\* to USART_Tx, and Endpoint_ClearOUT releases the packet, the bytes after
\* the first included, and re-arms the endpoint.  The three calls are one
\* step: the handler only empties the endpoint after a bus reset.
ReadRx ==
    /\ fg = "readRx"
    /\ IF sel = "RX" /\ rxPkt # <<>>
         THEN /\ tmp' = Head(rxPkt)
              /\ uartTx' = Append(uartTx, Head(rxPkt))
              /\ rxPkt' = <<>>
              /\ rxArmed' = TRUE
         ELSE UNCHANGED <<tmp, uartTx, rxPkt, rxArmed>>
    /\ fg' = "checkUart"
    /\ UNCHANGED <<configured, lineEncoding, uart, acked, sel, txPkt,
                   uartRx, hostOut, hostPkts, written, hostIn, sent>>

\* Lines 338-339: RXDATAV, a byte from the USART.
CheckUart ==
    /\ fg = "checkUart"
    /\ IF uartRx # <<>>
         THEN /\ tmp' = Head(uartRx)
              /\ uartRx' = Tail(uartRx)
              /\ fg' = "selTx"
         ELSE /\ fg' = "selRx"
              /\ UNCHANGED <<tmp, uartRx>>
    /\ UNCHANGED <<configured, lineEncoding, uart, acked, sel, rxPkt, rxArmed,
                   txPkt, logVars, sent>>

\* Line 340.
SelectTx ==
    /\ fg = "selTx"
    /\ sel' = "TX"
    /\ fg' = "writeTx"
    /\ UNCHANGED <<configured, lineEncoding, uart, acked, tmp, rxPkt, rxArmed,
                   txPkt, uartRx, logVars, sent>>

\* Lines 341-342: Endpoint_Write_8 and Endpoint_ClearIN on the selected
\* endpoint; only the TX endpoint carries the byte to the host.
WriteTx ==
    /\ fg = "writeTx"
    /\ written' = Append(written, tmp)
    /\ txPkt' = IF sel = "TX" THEN <<tmp>> ELSE txPkt
    /\ fg' = "waitIn"
    /\ UNCHANGED <<configured, lineEncoding, uart, acked, sel, tmp, rxPkt,
                   rxArmed, uartRx, uartTx, hostOut, hostPkts, hostIn, sent>>

\* Line 343: while (!Endpoint_IsINReady()); no timeout.  The loop always
\* has the TX endpoint selected here (the handler restores the selection a
\* class request changes), so the bank it polls is txPkt.
WaitIn ==
    /\ fg = "waitIn"
    /\ txPkt = <<>>
    /\ fg' = "selRx"
    /\ UNCHANGED <<configured, lineEncoding, uart, acked, sel, tmp, rxPkt,
                   rxArmed, txPkt, uartRx, logVars, sent>>

Bridge == SelectRx \/ ReadRx \/ CheckUart \/ SelectTx \/ WriteTx \/ WaitIn

-----------------------------------------------------------------------------
(***************************************************************************)
(* The class events, run by Handle_OEPINT through the control-request      *)
(* processor at any point of the loop.  The handler saves the selected    *)
(* endpoint before the request and selects it again after it              *)
(* (USBInterrupt_EFM32GG.c:167-170), so sel is left as the loop had it.   *)
(***************************************************************************)

\* EVENT_USB_Device_ConfigurationChanged, lines 230-248: the CDC endpoints
\* are configured afresh (their buffers emptied), the baud rate reported to
\* the host is reset to 0 and the RX endpoint is armed.  A new session of
\* the byte logs starts here.
ConfigurationChanged ==
    /\ configured' = TRUE
    /\ lineEncoding' = [lineEncoding EXCEPT !.baud = 0]
    /\ rxPkt' = <<>>
    /\ rxArmed' = TRUE
    /\ txPkt' = <<>>
    /\ uartTx' = <<>>
    /\ hostOut' = <<>>
    /\ hostPkts' = <<>>
    /\ written' = <<>>
    /\ hostIn' = <<>>
    /\ UNCHANGED <<uart, acked, sel, fgVars, uartRx, sent>>

\* A bus reset (Handle_USBRST) leaves the device unconfigured; the loop
\* does not look at USB_DeviceState and the data endpoints keep what they
\* hold until they are configured again.
Deconfigure ==
    /\ configured
    /\ configured' = FALSE
    /\ UNCHANGED <<lineEncoding, uart, acked, sel, fgVars, rxPkt, rxArmed,
                   txPkt, uartRx, logVars, sent>>

\* The SetLineEncoding request with the handler's restore left out: the
\* control endpoint stays selected when the loop resumes.
SetLineEncoding_NoRestore(c) ==
    /\ configured
    /\ lineEncoding' = c
    /\ uart' = UartConfiguration(c)
    /\ acked' = c
    /\ sel' = "CTRL"
    /\ UNCHANGED <<configured, fgVars, rxPkt, rxArmed, txPkt, uartRx, logVars,
                   sent>>

\* EVENT_USB_Device_ControlRequest, CDC_REQ_SetLineEncoding, lines 272-283:
\* the coding is read into LineEncoding, the status stage is acknowledged
\* and UartConfiguration applied; the request is reported handled whether
\* the UART took the coding or not.  GetLineEncoding and
\* SetControlLineState change nothing the model holds.
SetLineEncoding(c) ==
    /\ configured
    /\ lineEncoding' = c
    /\ uart' = UartConfiguration(c)
    /\ acked' = c
    /\ UNCHANGED <<configured, sel, fgVars, rxPkt, rxArmed, txPkt, uartRx,
                   logVars, sent>>

-----------------------------------------------------------------------------
(* The host and the peer on the UART line.                                 *)

\* The bulk OUT packets the host may send.
Packets == UNION {[1 .. n -> Bytes] : n \in 1 .. MaxPacket}

\* The host sends a packet to the armed RX endpoint.
HostOut(pkt) ==
    /\ configured
    /\ rxArmed
    /\ sent.out + Len(pkt) <= MaxXfer
    /\ rxPkt' = pkt
    /\ rxArmed' = FALSE
    /\ hostOut' = hostOut \o pkt
    /\ hostPkts' = Append(hostPkts, pkt)
    /\ sent' = [sent EXCEPT !.out = @ + Len(pkt)]
    /\ UNCHANGED <<configured, lineEncoding, uart, acked, sel, fgVars, txPkt,
                   uartRx, uartTx, written, hostIn>>

\* The host reads the IN packet of the TX endpoint.
HostIn ==
    /\ configured
    /\ txPkt # <<>>
    /\ hostIn' = hostIn \o txPkt
    /\ txPkt' = <<>>
    /\ UNCHANGED <<configured, lineEncoding, uart, acked, sel, fgVars, rxPkt,
                   rxArmed, uartRx, uartTx, hostOut, hostPkts, written, sent>>

\* The peer sends a byte; the USART drops it when its receive buffer is
\* full (an overrun), since the loop may be busy waiting on the host.
UartPeer(b) ==
    /\ sent.uart < MaxXfer
    /\ uartRx' = IF Len(uartRx) < UartRxDepth THEN Append(uartRx, b) ELSE uartRx
    /\ sent' = [sent EXCEPT !.uart = @ + 1]
    /\ UNCHANGED <<configured, lineEncoding, uart, acked, sel, fgVars, rxPkt,
                   rxArmed, txPkt, uartTx, hostOut, hostPkts, written, hostIn>>

Next ==
    \/ Bridge
    \/ ConfigurationChanged
    \/ Deconfigure
    \/ \E c \in Codings : SetLineEncoding(c)
    \/ \E pkt \in Packets : HostOut(pkt)
    \/ HostIn
    \/ \E b \in Bytes : UartPeer(b)

\* main calls VCOM_Bridge forever; the host and the peer are not fair.
Spec == Init /\ [][Next]_vars /\ WF_vars(Bridge)

-----------------------------------------------------------------------------
\* The UART frames the code can program: data bits 5-8 or 16, parity
\* none, odd or even, stop bits one, one and a half or two.
UartFrames == [baud : Nat, stop : 0 .. 2, parity : 0 .. 2,
               data : {5, 6, 7, 8, 16}]

\* Every variable keeps its range; in particular UartConfiguration never
\* programs a FRAME field the USART does not have.
TypeOK ==
    /\ configured \in BOOLEAN
    /\ lineEncoding \in LineCodings
    /\ uart \in UartFrames
    /\ acked \in Codings \cup {NoCoding}
    /\ sel \in Endpoints
    /\ fg \in {"selRx", "readRx", "checkUart", "selTx", "writeTx", "waitIn"}
    /\ tmp \in Bytes
    /\ rxPkt \in Seq(Bytes) /\ txPkt \in Seq(Bytes) /\ uartRx \in Seq(Bytes)
    /\ rxArmed \in BOOLEAN
    /\ {uartTx, hostOut, written, hostIn} \subseteq Seq(Bytes)
    /\ hostPkts \in Seq(Seq(Bytes))

\* Host to UART, within a configuration: the bytes VCOM_Bridge has passed
\* to USART_Tx, followed by the packet still in the RX endpoint, are
\* exactly the bytes the host sent; nothing is lost, duplicated or
\* reordered by Endpoint_Read_8 and Endpoint_ClearOUT.
HostToUartLossless == uartTx \o rxPkt = hostOut

\* Host to UART packet by packet, within a configuration: USART_Tx has
\* been given the first byte of every bulk OUT packet the host sent, once
\* each and in the order sent, except the last packet while it still waits
\* in the RX endpoint.  No packet is skipped, overwritten or read twice by
\* the loop's Endpoint_IsOUTReceived, Endpoint_Read_8 and Endpoint_ClearOUT
\* against the host and the configuration event; whatever the packet size.
HostToUartPerPacket ==
    /\ Len(uartTx) + (IF rxPkt = <<>> THEN 0 ELSE 1) = Len(hostPkts)
    /\ \A i \in 1 .. Len(uartTx) : uartTx[i] = hostPkts[i][1]
    /\ rxPkt # <<>> => rxPkt = hostPkts[Len(hostPkts)]

\* UART to host, within a configuration: the bytes the host has read,
\* followed by the IN packet still waiting, are exactly the bytes
\* VCOM_Bridge wrote, even when a class request runs in the interrupt
\* between the loop's Endpoint_SelectEndpoint and Endpoint_Write_8.
UartToHostLossless == written = hostIn \o txPkt

\* After a SET_LINE_CODING is acknowledged the UART runs with the coding
\* the host set: the frame and the baud rate that GET_LINE_CODING reports.
UartTracksAckedCoding ==
    acked # NoCoding =>
        uart = [baud |-> acked.baud, stop |-> acked.stop,
                parity |-> acked.parity, data |-> acked.data]

====
