------------------------------ MODULE FifoAlloc ------------------------------
(***************************************************************************)
(* USB_Fifo_Init (USBController_EFM32GG.c), the FIFO allocator that        *)
(* USB_Init runs on the endpoint descriptor table: the walk that fills the *)
(* endpoint registry and the two address-to-slot index tables, the receive *)
(* FIFO and EP0 transmit FIFO setup, the nested loop that places the other *)
(* transmit FIFOs, and the final size check.  One step per loop iteration. *)
(* Sizes are in 32-bit words, as the code keeps them.                      *)
(***************************************************************************)
EXTENDS Integers, Sequences

CONSTANTS
    MaxFifoSize,     \* MAX_FIFO_SIZE
    MaxNumOutEps,    \* MAX_NUM_OUT_EPS
    MaxNumInEps,     \* MAX_NUM_IN_EPS
    MaxNumTxFifos,   \* MAX_NUM_TX_FIFOS
    Tables           \* the descriptor tables USB_Init may be given

\* bmAttributes & CONFIG_DESC_BM_TRANSFERTYPE.
EP_TYPE_CONTROL == 0
EP_TYPE_BULK == 2

\* An entry of the table: bEndpointAddress, transfer type, wMaxPacketSize.
Descriptors == [addr : 0 .. 255, type : 0 .. 3, size : 0 .. 1023]

ASSUME FifoConstantsAssumption ==
    /\ MaxFifoSize \in Nat
    /\ MaxNumOutEps \in Nat \ {0}
    /\ MaxNumInEps \in Nat \ {0}
    /\ MaxNumTxFifos \in Nat \ {0}
ASSUME TablesAssumption ==
    \A t \in Tables : t \in Seq(Descriptors) /\ Len(t) > 0

\* The 4-bit endpoint numbers that index inEpAddr2EpIndex/outEpAddr2EpIndex.
EpNums == 0 .. 15

\* A slot of dev->ep[] as the memset in USB_Init leaves it.
ZeroEp == [in |-> FALSE, addr |-> 0, num |-> 0, type |-> 0, size |-> 0,
           txFifoNum |-> 0, fifoSize |-> 0]

\* A transmit FIFO that no register describes yet.
NoRegion == [start |-> 0, depth |-> 0]

VARIABLES
    table,      \* endpoint_desc: the descriptors after the count byte
    pc,         \* "desc", "rx", "tx", "check" or "done"
    numEps,     \* numEps
    txFifoNum,  \* txFifoNum
    totalRx,    \* totalRxFifoSize
    totalTx,    \* totalTxFifoSize
    eps,        \* dev->ep[]
    inIdx,      \* dev->inEpAddr2EpIndex[]
    outIdx,     \* dev->outEpAddr2EpIndex[]
    grxfsiz,    \* USB->GRXFSIZ
    gnptx,      \* USB->GNPTXFSIZ: start and depth of transmit FIFO 0
    dieptxf,    \* USB_DIEPTXFS[j - 1]: start and depth of transmit FIFO j
    start,      \* start
    depth,      \* depth
    j, i,       \* the loop indices of the transmit FIFO loop
    flushed     \* USBHAL_FlushTxFifo/FlushRxFifo were reached

vars == <<table, pc, numEps, txFifoNum, totalRx, totalTx, eps, inIdx, outIdx,
          grxfsiz, gnptx, dieptxf, start, depth, j, i, flushed>>

\* dev->ep[] has a slot for each descriptor and the one after the last.
Slots == 0 .. Len(table)

(***************************************************************************)
(* USBD_GetEpFromAddr (emlib): the slot an index table gives for the       *)
(* address, EP0 when the table says 0 for endpoint number 0, none else.    *)
(***************************************************************************)
NoEp == -1
GetEpFromAddr(addr) ==
    LET idx == IF addr >= 128 THEN inIdx[addr % 16] ELSE outIdx[addr % 16]
    IN  IF idx # 0 THEN idx ELSE IF addr % 16 = 0 THEN 0 ELSE NoEp

Init ==
    /\ table \in Tables
    /\ pc = "desc"
    /\ numEps = 0
    /\ txFifoNum = 0
    /\ totalRx = 0
    /\ totalTx = 0
    /\ eps = [k \in Slots |-> ZeroEp]
    /\ inIdx = [n \in EpNums |-> 0]
    /\ outIdx = [n \in EpNums |-> 0]
    /\ grxfsiz = 0
    /\ gnptx = NoRegion
    /\ dieptxf = [f \in 1 .. MaxNumTxFifos |-> NoRegion]
    /\ start = 0
    /\ depth = 0
    /\ j = 1
    /\ i = 1
    /\ flushed = FALSE

\* Mutant: a non-control OUT endpoint without its status word.
DescStep_NoStatusWord ==
    /\ pc = "desc"
    /\ LET d    == table[numEps + 1]
           in   == d.addr >= 128
           num  == d.addr % 16
           mult == IF d.type = EP_TYPE_BULK THEN 2 ELSE 1
           fs   == (d.size \div 4) * mult
       IN  /\ eps' = [eps EXCEPT ![numEps] =
                        [in |-> in, addr |-> d.addr, num |-> num,
                         type |-> d.type, size |-> d.size, fifoSize |-> fs,
                         txFifoNum |-> IF in THEN txFifoNum ELSE @.txFifoNum]]
           /\ txFifoNum' = IF in THEN txFifoNum + 1 ELSE txFifoNum
           /\ inIdx' = IF in THEN [inIdx EXCEPT ![num] = numEps + 1] ELSE inIdx
           /\ outIdx' = IF ~in /\ d.type # EP_TYPE_CONTROL
                          THEN [outIdx EXCEPT ![num] = numEps + 1] ELSE outIdx
           /\ totalTx' = IF in THEN totalTx + fs ELSE totalTx
           /\ totalRx' = IF in THEN totalRx ELSE totalRx + fs
    /\ numEps' = numEps + 1
    /\ pc' = IF numEps + 1 < Len(table) THEN "desc" ELSE "rx"
    /\ UNCHANGED <<table, grxfsiz, gnptx, dieptxf, start, depth, j, i, flushed>>

(***************************************************************************)
(* One iteration of the descriptor walk, lines 68-107: the next slot is    *)
(* filled from the descriptor; an IN endpoint takes the next transmit FIFO *)
(* number and its index entry, a non-control OUT endpoint its index entry; *)
(* both index entries are written after numEps was incremented.            *)
(***************************************************************************)
DescStep ==
    /\ pc = "desc"
    /\ LET d    == table[numEps + 1]
           in   == d.addr >= 128
           num  == d.addr % 16
           mult == IF d.type = EP_TYPE_BULK THEN 2 ELSE 1
           fs   == IF in THEN (d.size \div 4) * mult
                   ELSE IF d.type = EP_TYPE_CONTROL THEN d.size \div 4
                   ELSE (d.size \div 4 + 1) * mult
       IN  /\ eps' = [eps EXCEPT ![numEps] =
                        [in |-> in, addr |-> d.addr, num |-> num,
                         type |-> d.type, size |-> d.size, fifoSize |-> fs,
                         txFifoNum |-> IF in THEN txFifoNum ELSE @.txFifoNum]]
           /\ txFifoNum' = IF in THEN txFifoNum + 1 ELSE txFifoNum
           /\ inIdx' = IF in THEN [inIdx EXCEPT ![num] = numEps + 1] ELSE inIdx
           /\ outIdx' = IF ~in /\ d.type # EP_TYPE_CONTROL
                          THEN [outIdx EXCEPT ![num] = numEps + 1] ELSE outIdx
           /\ totalTx' = IF in THEN totalTx + fs ELSE totalTx
           /\ totalRx' = IF in THEN totalRx ELSE totalRx + fs
    /\ numEps' = numEps + 1
    /\ pc' = IF numEps + 1 < Len(table) THEN "desc" ELSE "rx"
    /\ UNCHANGED <<table, grxfsiz, gnptx, dieptxf, start, depth, j, i, flushed>>

\* Lines 108-123: the receive FIFO takes the OUT sizes and the fixed reserve;
\* transmit FIFO 0 follows it with the depth of slot 0.
RxSetup ==
    /\ pc = "rx"
    /\ LET rx == totalRx + 10 + 1 + 2 * (MaxNumOutEps + 1)
       IN  /\ totalRx' = rx
           /\ grxfsiz' = rx
           /\ start' = rx
           /\ depth' = eps[0].fifoSize
           /\ gnptx' = [start |-> rx, depth |-> eps[0].fifoSize]
    /\ pc' = "tx"
    /\ UNCHANGED <<table, numEps, txFifoNum, totalTx, eps, inIdx, outIdx,
                   dieptxf, j, i, flushed>>

\* Mutant: the start cursor is not advanced past the previous FIFO.
TxStep_NoAdvance ==
    /\ pc = "tx"
    /\ LET k == GetEpFromAddr(128 + i)
       IN  IF k # NoEp /\ eps[k].txFifoNum = j
             THEN /\ depth' = eps[k].fifoSize
                  /\ dieptxf' = [dieptxf EXCEPT ![j] =
                                   [start |-> start, depth |-> eps[k].fifoSize]]
                  /\ UNCHANGED start
             ELSE UNCHANGED <<start, depth, dieptxf>>
    /\ IF i < MaxNumInEps THEN i' = i + 1 /\ j' = j
                          ELSE i' = 1 /\ j' = j + 1
    /\ pc' = IF i = MaxNumInEps /\ j = MaxNumTxFifos THEN "check" ELSE "tx"
    /\ UNCHANGED <<table, numEps, txFifoNum, totalRx, totalTx, eps, inIdx,
                   outIdx, grxfsiz, gnptx, flushed>>

\* Mutant: the inner loop runs to i = MAX_NUM_IN_EPS + 1.
TxStep_InnerBound ==
    /\ pc = "tx"
    /\ LET k == GetEpFromAddr(128 + i)
       IN  IF k # NoEp /\ eps[k].txFifoNum = j
             THEN /\ start' = start + depth
                  /\ depth' = eps[k].fifoSize
                  /\ dieptxf' = [dieptxf EXCEPT ![j] =
                                   [start |-> start + depth,
                                    depth |-> eps[k].fifoSize]]
             ELSE UNCHANGED <<start, depth, dieptxf>>
    /\ IF i <= MaxNumInEps THEN i' = i + 1 /\ j' = j
                           ELSE i' = 1 /\ j' = j + 1
    /\ pc' = IF i > MaxNumInEps /\ j = MaxNumTxFifos THEN "check" ELSE "tx"
    /\ UNCHANGED <<table, numEps, txFifoNum, totalRx, totalTx, eps, inIdx,
                   outIdx, grxfsiz, gnptx, flushed>>

\* One iteration of the loop of lines 127-140: the IN endpoint number i is
\* looked up, and when the slot found has transmit FIFO j, that FIFO is
\* placed right after the previous one.
TxStep ==
    /\ pc = "tx"
    /\ LET k == GetEpFromAddr(128 + i)
       IN  IF k # NoEp /\ eps[k].txFifoNum = j
             THEN /\ start' = start + depth
                  /\ depth' = eps[k].fifoSize
                  /\ dieptxf' = [dieptxf EXCEPT ![j] =
                                   [start |-> start + depth,
                                    depth |-> eps[k].fifoSize]]
             ELSE UNCHANGED <<start, depth, dieptxf>>
    /\ IF i < MaxNumInEps THEN i' = i + 1 /\ j' = j
                          ELSE i' = 1 /\ j' = j + 1
    /\ pc' = IF i = MaxNumInEps /\ j = MaxNumTxFifos THEN "check" ELSE "tx"
    /\ UNCHANGED <<table, numEps, txFifoNum, totalRx, totalTx, eps, inIdx,
                   outIdx, grxfsiz, gnptx, flushed>>

\* Lines 142-147: over the limit the function returns with the registers
\* written; otherwise it flushes the FIFOs.
SizeCheck ==
    /\ pc = "check"
    /\ flushed' = (totalRx + totalTx <= MaxFifoSize)
    /\ pc' = "done"
    /\ UNCHANGED <<table, numEps, txFifoNum, totalRx, totalTx, eps, inIdx,
                   outIdx, grxfsiz, gnptx, dieptxf, start, depth, j, i>>

Next == DescStep \/ RxSetup \/ TxStep \/ SizeCheck

\* The allocator is a terminating loop run with interrupts disabled.
Spec == Init /\ [][Next]_vars /\ WF_vars(Next)

-----------------------------------------------------------------------------
(* Properties.                                                             *)

Regions == [start : Nat, depth : Nat]

\* The slots of dev->ep[] (USBD_Ep_TypeDef, the fields USB_Fifo_Init uses).
EpRecords == [in : BOOLEAN, addr : 0 .. 255, num : EpNums, type : 0 .. 3,
              size : 0 .. 1023, txFifoNum : Nat, fifoSize : Nat]

TypeOK ==
    /\ table \in Tables
    /\ pc \in {"desc", "rx", "tx", "check", "done"}
    /\ numEps \in 0 .. Len(table)
    /\ {txFifoNum, totalRx, totalTx, grxfsiz, start, depth} \subseteq Nat
    /\ eps \in [Slots -> EpRecords]
    /\ inIdx \in [EpNums -> Slots]
    /\ outIdx \in [EpNums -> Slots]
    /\ gnptx \in Regions
    /\ dieptxf \in [1 .. MaxNumTxFifos -> Regions]
    /\ j \in 1 .. MaxNumTxFifos + 1
    /\ i \in 1 .. MaxNumInEps
    /\ flushed \in BOOLEAN

\* The transmit FIFOs the loop of lines 127-140 has placed.
Programmed == {f \in 1 .. MaxNumTxFifos : dieptxf[f] # NoRegion}

Disjoint(r, q) == r.start + r.depth <= q.start \/ q.start + q.depth <= r.start

\* Spec 4.1: transmit FIFOs lie back to back after the receive FIFO.  When
\* the allocator is done, no two placed transmit FIFOs (FIFO 0 included)
\* overlap and none overlaps the receive FIFO; it is about the start/depth
\* cursor of the nested loop and the lookups that drive it.
TxFifosDisjoint ==
    pc = "done" =>
        /\ \A f \in Programmed :
              /\ dieptxf[f].start >= grxfsiz
              /\ Disjoint(dieptxf[f], gnptx)
              /\ \A g \in Programmed \ {f} : Disjoint(dieptxf[f], dieptxf[g])
        /\ gnptx.start >= grxfsiz

\* The receive FIFO depth as spec 4.1 gives it, from the table alone: the
\* words of every OUT-direction entry (packetSize/4 for control, else
\* (packetSize/4 + 1) times 2 for bulk, times 1 otherwise) and the reserve
\* 10 + 1 + 2 * (MAX_NUM_OUT_EPS + 1).
OutWords(d) ==
    IF d.addr >= 128 THEN 0
    ELSE IF d.type = EP_TYPE_CONTROL THEN d.size \div 4
    ELSE (d.size \div 4 + 1) * (IF d.type = EP_TYPE_BULK THEN 2 ELSE 1)
SpecRxDepth ==
    LET sum[k \in 0 .. Len(table)] ==
            IF k = 0 THEN 0 ELSE sum[k - 1] + OutWords(table[k])
    IN  sum[Len(table)] + 10 + 1 + 2 * (MaxNumOutEps + 1)

\* Once GRXFSIZ is written, it holds the depth spec 4.1 computes from the
\* table: it is about the per-entry size rules of the descriptor walk.
RxDepthPerSpec == pc \in {"tx", "check", "done"} => grxfsiz = SpecRxDepth

\* Spec 4.1: each IN endpoint gets a transmit FIFO of its own (FIFO 0 is
\* the control endpoint's), placed with its size.  It is about the
\* transmit FIFO numbering of line 92 and the lookups of line 129.
EachInEpOwnFifo ==
    pc = "done" =>
        \A k \in 0 .. numEps - 1 :
            eps[k].in =>
                /\ eps[k].txFifoNum \in Programmed
                /\ dieptxf[eps[k].txFifoNum].depth = eps[k].fifoSize

\* Spec 4.3: the index tables map an endpoint address to its registry
\* slot.  Every endpoint walked so far is found at its own slot by
\* USBD_GetEpFromAddr; it is about the index writes of lines 94 and 102.
LookupFindsSlot ==
    \A k \in 0 .. numEps - 1 : GetEpFromAddr(eps[k].addr) = k

\* Spec 4.1: the FIFOs fit in the MAX_FIFO_SIZE words of FIFO RAM.  When
\* the size check of lines 142-143 lets the allocation through, every
\* placed transmit FIFO ends within the RAM.
LayoutWithinRam ==
    flushed =>
        /\ gnptx.start + gnptx.depth <= MaxFifoSize
        /\ \A f \in Programmed : dieptxf[f].start + dieptxf[f].depth <= MaxFifoSize

====
