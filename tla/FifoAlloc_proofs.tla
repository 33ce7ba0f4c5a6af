--------------------------- MODULE FifoAlloc_proofs ---------------------------
(***************************************************************************)
(* Proofs about USB_Fifo_Init (FifoAlloc), for every descriptor table and  *)
(* every value of the MAX_* constants: the type invariant, and that the    *)
(* nested loop of lines 127-140 places the transmit FIFOs back to back,    *)
(* after the receive FIFO and transmit FIFO 0 and without overlap.         *)
(***************************************************************************)
EXTENDS FifoAlloc, SequenceTheorems, TLAPS

USE FifoConstantsAssumption

(***************************************************************************)
(* The strengthening of TypeOK: the descriptor walk only runs while a      *)
(* descriptor is left to read, the transmit loop starts at FIFO 1 and only *)
(* runs while j names a transmit FIFO.                                     *)
(***************************************************************************)
TypeInv ==
    /\ TypeOK
    /\ pc = "desc" => numEps < Len(table)
    /\ pc \in {"desc", "rx"} => j = 1
    /\ pc = "tx" => j <= MaxNumTxFifos

\* USB_Init hands over a non-empty table of descriptors.
LEMMA TableShape ==
  ASSUME NEW t \in Tables
  PROVE  /\ t \in Seq(Descriptors)
         /\ Len(t) \in Nat \ {0}
         /\ \A n \in 1 .. Len(t) : t[n] \in Descriptors
<1>1. t \in Seq(Descriptors) /\ Len(t) > 0
  BY TablesAssumption
<1>2. QED
  BY <1>1, LenProperties, ElementOfSeq

\* The memset of USB_Init and the zeroed counters are well typed.
LEMMA TypeInvInit == Init => TypeInv
<1> SUFFICES ASSUME Init PROVE TypeInv
  OBVIOUS
<1>1. Len(table) \in Nat \ {0}
  BY TableShape DEF Init
<1>2. eps \in [Slots -> EpRecords]
  BY DEF Init, ZeroEp, EpRecords, EpNums
<1>3. inIdx \in [EpNums -> Slots] /\ outIdx \in [EpNums -> Slots]
  BY <1>1 DEF Init, Slots
<1>4. gnptx \in Regions /\ dieptxf \in [1 .. MaxNumTxFifos -> Regions]
  BY DEF Init, NoRegion, Regions
<1>5. numEps \in 0 .. Len(table) /\ numEps < Len(table)
      /\ j \in 1 .. MaxNumTxFifos + 1 /\ i \in 1 .. MaxNumInEps
  BY <1>1 DEF Init
<1>6. {txFifoNum, totalRx, totalTx, grxfsiz, start, depth} \subseteq Nat
  BY DEF Init
<1>7. QED
  BY <1>2, <1>3, <1>4, <1>5, <1>6 DEF Init, TypeInv, TypeOK

\* The conjuncts of TypeOK, one by one.
LEMMA TypeFacts ==
  ASSUME TypeOK
  PROVE  /\ table \in Tables
         /\ pc \in {"desc", "rx", "tx", "check", "done"}
         /\ numEps \in 0 .. Len(table)
         /\ txFifoNum \in Nat /\ totalRx \in Nat /\ totalTx \in Nat
         /\ grxfsiz \in Nat /\ start \in Nat /\ depth \in Nat
         /\ eps \in [Slots -> EpRecords]
         /\ inIdx \in [EpNums -> Slots]
         /\ outIdx \in [EpNums -> Slots]
         /\ gnptx \in Regions
         /\ dieptxf \in [1 .. MaxNumTxFifos -> Regions]
         /\ j \in 1 .. MaxNumTxFifos + 1
         /\ i \in 1 .. MaxNumInEps
         /\ flushed \in BOOLEAN
BY DEF TypeOK

\* The numeric fields of a slot.
LEMMA EpFields ==
  ASSUME NEW e \in EpRecords
  PROVE  e.txFifoNum \in Nat /\ e.fifoSize \in Nat
BY Zenon DEF EpRecords

\* The words USB_Fifo_Init computes from a descriptor are naturals, and its
\* endpoint number indexes the address tables.
LEMMA DescriptorWords ==
  ASSUME NEW d \in Descriptors
  PROVE  /\ d.addr % 16 \in EpNums
         /\ \A m \in {1, 2} : /\ (d.size \div 4) * m \in Nat
                             /\ (d.size \div 4 + 1) * m \in Nat
         /\ d.size \div 4 \in Nat
BY DEF Descriptors, EpNums

\* The slot USBD_GetEpFromAddr finds is a slot of dev->ep[] or none.
LEMMA GetEpFromAddrRange ==
  ASSUME inIdx \in [EpNums -> Slots], outIdx \in [EpNums -> Slots],
         NEW addr \in Nat
  PROVE  GetEpFromAddr(addr) \in Slots \cup {NoEp}
<1>1. addr % 16 \in EpNums
  BY DEF EpNums
<1>2. QED
  BY <1>1 DEF GetEpFromAddr, Slots, NoEp

(***************************************************************************)
(* Every iteration keeps the types: the walk fills slot numEps from the    *)
(* descriptor numEps + 1 and writes slot numbers of at most Len(table)     *)
(* into the index tables; the transmit loop reads a slot the index tables  *)
(* give and advances j only up to MAX_NUM_TX_FIFOS + 1.                    *)
(***************************************************************************)
LEMMA TypeInvStep == TypeInv /\ [Next]_vars => TypeInv'
<1> SUFFICES ASSUME TypeInv, [Next]_vars PROVE TypeInv'
  OBVIOUS
<1>1. TypeOK
  BY DEF TypeInv
<1>2. table \in Tables /\ numEps \in 0 .. Len(table)
  BY <1>1, TypeFacts
<1>3. /\ {txFifoNum, totalRx, totalTx, grxfsiz, start, depth} \subseteq Nat
      /\ i \in 1 .. MaxNumInEps /\ j \in 1 .. MaxNumTxFifos + 1
  BY <1>1, TypeFacts
<1>4. eps \in [Slots -> EpRecords]
  BY <1>1, TypeFacts
<1>5. inIdx \in [EpNums -> Slots] /\ outIdx \in [EpNums -> Slots]
  BY <1>1, TypeFacts
<1>6. gnptx \in Regions /\ dieptxf \in [1 .. MaxNumTxFifos -> Regions]
  BY <1>1, TypeFacts
<1>7. CASE DescStep
  <2>1. pc = "desc" /\ numEps < Len(table)
    BY <1>7 DEF DescStep, TypeInv
  <2>2. PICK d \in Descriptors : d = table[numEps + 1]
    <3>1. numEps + 1 \in 1 .. Len(table)
      BY <1>2, <2>1
    <3>2. QED
      BY <1>2, <3>1, TableShape
  <2> DEFINE in   == d.addr >= 128
             num  == d.addr % 16
             mult == IF d.type = EP_TYPE_BULK THEN 2 ELSE 1
             fs   == IF in THEN (d.size \div 4) * mult
                     ELSE IF d.type = EP_TYPE_CONTROL THEN d.size \div 4
                     ELSE (d.size \div 4 + 1) * mult
             slot == [in |-> in, addr |-> d.addr, num |-> num,
                      type |-> d.type, size |-> d.size, fifoSize |-> fs,
                      txFifoNum |-> IF in THEN txFifoNum
                                    ELSE eps[numEps].txFifoNum]
  <2>3. d.addr \in 0 .. 255 /\ d.type \in 0 .. 3 /\ d.size \in 0 .. 1023
    BY <2>2, Zenon DEF Descriptors
  <2>4. num \in EpNums /\ fs \in Nat
    <3>1. mult \in {1, 2}
      OBVIOUS
    <3>2. QED
      BY <2>2, <3>1, DescriptorWords
  <2>5. eps[numEps].txFifoNum \in Nat
    <3>1. eps[numEps] \in EpRecords
      BY <1>2, <1>4 DEF Slots
    <3>2. QED
      BY <3>1, EpFields
  <2>6. slot \in EpRecords
    BY <1>3, <2>3, <2>4, <2>5 DEF EpRecords
  <2>7. /\ eps' = [eps EXCEPT ![numEps] = slot]
        /\ txFifoNum' = IF in THEN txFifoNum + 1 ELSE txFifoNum
        /\ inIdx' = IF in THEN [inIdx EXCEPT ![num] = numEps + 1] ELSE inIdx
        /\ outIdx' = IF ~in /\ d.type # EP_TYPE_CONTROL
                       THEN [outIdx EXCEPT ![num] = numEps + 1] ELSE outIdx
        /\ totalTx' = IF in THEN totalTx + fs ELSE totalTx
        /\ totalRx' = IF in THEN totalRx ELSE totalRx + fs
        /\ numEps' = numEps + 1
        /\ pc' = IF numEps + 1 < Len(table) THEN "desc" ELSE "rx"
        /\ UNCHANGED <<table, grxfsiz, gnptx, dieptxf, start, depth, j, i,
                       flushed>>
    BY <1>7, <2>2 DEF DescStep
  <2>8. Slots' = Slots /\ numEps + 1 \in Slots
    BY <1>2, <2>1, <2>7 DEF Slots
  <2>9. eps' \in [Slots' -> EpRecords]
    BY <1>4, <2>6, <2>7, <2>8
  <2>10. inIdx' \in [EpNums -> Slots'] /\ outIdx' \in [EpNums -> Slots']
    BY <1>5, <2>4, <2>7, <2>8
  <2>11. /\ txFifoNum' \in Nat /\ totalTx' \in Nat /\ totalRx' \in Nat
         /\ grxfsiz' \in Nat /\ start' \in Nat /\ depth' \in Nat
    BY <1>3, <2>4, <2>7
  <2>12. /\ numEps' \in 0 .. Len(table')
         /\ pc' \in {"desc", "rx"} /\ (pc' = "desc" => numEps' < Len(table'))
    BY <1>2, <2>1, <2>7
  <2>13. /\ table' \in Tables
         /\ gnptx' \in Regions /\ dieptxf' \in [1 .. MaxNumTxFifos -> Regions]
         /\ i' \in 1 .. MaxNumInEps /\ j' \in 1 .. MaxNumTxFifos + 1
         /\ flushed' \in BOOLEAN
    BY <1>1, <1>2, <1>3, <1>6, <2>7, TypeFacts
  <2>14. /\ {txFifoNum', totalRx', totalTx', grxfsiz', start', depth'} \subseteq Nat
         /\ pc' \in {"desc", "rx", "tx", "check", "done"}
    BY <2>11, <2>12
  <2>16. TypeOK'
    BY <2>9, <2>10, <2>12, <2>13, <2>14, Zenon DEF TypeOK
  <2>17. j = 1
    BY <2>1 DEF TypeInv
  <2>15. QED
    BY <2>7, <2>12, <2>16, <2>17 DEF TypeInv
<1>8. CASE RxSetup
  <2>1. eps[0].fifoSize \in Nat
    <3>1. eps[0] \in EpRecords
      BY <1>2, <1>4 DEF Slots
    <3>2. QED
      BY <3>1, EpFields
  <2>2. /\ {txFifoNum', totalRx', totalTx', grxfsiz', start', depth'} \subseteq Nat
        /\ gnptx' \in Regions /\ pc' = "tx"
        /\ UNCHANGED <<table, numEps, txFifoNum, totalTx, eps, inIdx, outIdx,
                       dieptxf, j, i, flushed>>
    BY <1>3, <1>8, <2>1 DEF RxSetup, Regions
  <2>3. /\ table' \in Tables /\ numEps' \in 0 .. Len(table')
        /\ pc' \in {"desc", "rx", "tx", "check", "done"}
    BY <1>2, <2>2
  <2>6. eps' \in [Slots' -> EpRecords]
    BY <1>4, <2>2 DEF Slots
  <2>7. inIdx' \in [EpNums -> Slots'] /\ outIdx' \in [EpNums -> Slots']
    BY <1>5, <2>2 DEF Slots
  <2>8. /\ dieptxf' \in [1 .. MaxNumTxFifos -> Regions]
        /\ i' \in 1 .. MaxNumInEps /\ j' \in 1 .. MaxNumTxFifos + 1
        /\ flushed' \in BOOLEAN
    BY <1>1, <1>3, <1>6, <2>2, TypeFacts
  <2>9. TypeOK'
    BY <2>2, <2>3, <2>6, <2>7, <2>8, Zenon DEF TypeOK
  <2>4. j = 1
    BY <1>8 DEF RxSetup, TypeInv
  <2>5. QED
    BY <2>2, <2>9, <2>4 DEF TypeInv
<1>9. CASE TxStep
  <2>1. pc = "tx" /\ j <= MaxNumTxFifos
    BY <1>9 DEF TxStep, TypeInv
  <2> DEFINE k == GetEpFromAddr(128 + i)
  <2>2. k \in Slots \cup {NoEp}
    BY <1>3, <1>5, GetEpFromAddrRange
  <2>3. UNCHANGED <<table, numEps, txFifoNum, totalRx, totalTx, eps, inIdx,
                    outIdx, grxfsiz, gnptx, flushed>>
    BY <1>9 DEF TxStep
  <2>4. start' \in Nat /\ depth' \in Nat
        /\ dieptxf' \in [1 .. MaxNumTxFifos -> Regions]
    <3>1. CASE k # NoEp /\ eps[k].txFifoNum = j
      <4>1. PICK e \in EpRecords : e = eps[k]
        BY <1>4, <2>2, <3>1
      <4>2. e.fifoSize \in Nat
        BY EpFields
      <4>3. /\ start' = start + depth /\ depth' = e.fifoSize
            /\ dieptxf' = [dieptxf EXCEPT ![j] = [start |-> start + depth,
                                                  depth |-> e.fifoSize]]
        BY <1>9, <3>1, <4>1 DEF TxStep
      <4>4. [start |-> start + depth, depth |-> e.fifoSize] \in Regions
        BY <1>3, <4>2 DEF Regions
      <4>5. j \in 1 .. MaxNumTxFifos
        BY <1>3, <2>1
      <4>6. dieptxf' \in [1 .. MaxNumTxFifos -> Regions]
        BY <1>6, <4>3, <4>4, <4>5
      <4>7. QED
        BY <1>3, <4>2, <4>3, <4>6
    <3>2. CASE ~(k # NoEp /\ eps[k].txFifoNum = j)
      <4>1. UNCHANGED <<start, depth, dieptxf>>
        BY <1>9, <3>2 DEF TxStep
      <4>2. QED
        BY <1>3, <1>6, <4>1
    <3>3. QED
      BY <3>1, <3>2
  <2>5. /\ i' \in 1 .. MaxNumInEps /\ j' \in 1 .. MaxNumTxFifos + 1
        /\ pc' \in {"tx", "check"} /\ (pc' = "tx" => j' <= MaxNumTxFifos)
    BY <1>3, <1>9, <2>1 DEF TxStep
  <2>6. /\ table' \in Tables /\ numEps' \in 0 .. Len(table')
        /\ eps' \in [Slots' -> EpRecords]
        /\ inIdx' \in [EpNums -> Slots'] /\ outIdx' \in [EpNums -> Slots']
        /\ gnptx' \in Regions /\ flushed' \in BOOLEAN
        /\ {txFifoNum', totalRx', totalTx', grxfsiz', start', depth'} \subseteq Nat
        /\ pc' \in {"desc", "rx", "tx", "check", "done"}
    BY <1>1, <1>2, <1>3, <1>4, <1>5, <1>6, <2>3, <2>4, <2>5, TypeFacts DEF Slots
  <2>7. TypeOK'
    BY <2>4, <2>5, <2>6, Zenon DEF TypeOK
  <2>8. QED
    BY <2>5, <2>7, Zenon DEF TypeInv
<1>10. CASE SizeCheck
  <2>1. /\ pc' = "done" /\ flushed' \in BOOLEAN
        /\ UNCHANGED <<table, numEps, txFifoNum, totalRx, totalTx, eps, inIdx,
                       outIdx, grxfsiz, gnptx, dieptxf, start, depth, j, i>>
    BY <1>10 DEF SizeCheck
  <2>2. /\ table' \in Tables /\ numEps' \in 0 .. Len(table')
        /\ eps' \in [Slots' -> EpRecords]
        /\ inIdx' \in [EpNums -> Slots'] /\ outIdx' \in [EpNums -> Slots']
        /\ gnptx' \in Regions /\ dieptxf' \in [1 .. MaxNumTxFifos -> Regions]
        /\ {txFifoNum', totalRx', totalTx', grxfsiz', start', depth'} \subseteq Nat
        /\ i' \in 1 .. MaxNumInEps /\ j' \in 1 .. MaxNumTxFifos + 1
    BY <1>2, <1>3, <1>4, <1>5, <1>6, <2>1 DEF Slots
  <2>3. TypeOK'
    BY <2>1, <2>2, Zenon DEF TypeOK
  <2>4. QED
    BY <2>1, <2>3, Zenon DEF TypeInv
<1>11. CASE UNCHANGED vars
  <2>1. /\ table' \in Tables /\ numEps' \in 0 .. Len(table')
        /\ eps' \in [Slots' -> EpRecords]
        /\ inIdx' \in [EpNums -> Slots'] /\ outIdx' \in [EpNums -> Slots']
        /\ gnptx' \in Regions /\ dieptxf' \in [1 .. MaxNumTxFifos -> Regions]
        /\ {txFifoNum', totalRx', totalTx', grxfsiz', start', depth'} \subseteq Nat
        /\ i' \in 1 .. MaxNumInEps /\ j' \in 1 .. MaxNumTxFifos + 1
    BY <1>2, <1>3, <1>4, <1>5, <1>6, <1>11 DEF vars, Slots
  <2>3. TypeOK'
    BY <1>1, <1>11, <2>1, TypeFacts, Zenon DEF vars, TypeOK
  <2>2. QED
    BY <1>11, <2>3, Zenon DEF vars, TypeInv
<1>12. QED
  BY <1>7, <1>8, <1>9, <1>10, <1>11 DEF Next

\* Type correctness of USB_Fifo_Init, for every table USB_Init may be given.
THEOREM Typing == Spec => []TypeOK
<1>1. TypeInv => TypeOK
  BY DEF TypeInv
<1>2. QED
  BY TypeInvInit, TypeInvStep, <1>1, PTL DEF Spec

-----------------------------------------------------------------------------
(***************************************************************************)
(* The transmit FIFO layout.  TxFifosDisjoint speaks of the final state    *)
(* only; what makes it true is that USB_Fifo_Init places every FIFO at the *)
(* running end start + depth of what it placed before: gnptx right after   *)
(* the receive FIFO, then each dieptxf[j] after all of those.  LayoutInv   *)
(* says this of every state of the walk.                                   *)
(***************************************************************************)
LayoutInv ==
    /\ TypeInv
    /\ pc \in {"desc", "rx"} => Programmed = {}
    /\ pc \in {"tx", "check", "done"} =>
          /\ gnptx.start = grxfsiz
          /\ gnptx.start + gnptx.depth <= start + depth
          /\ \A f \in Programmed :
                /\ gnptx.start + gnptx.depth <= dieptxf[f].start
                /\ dieptxf[f].start + dieptxf[f].depth <= start + depth
          /\ \A f, g \in Programmed : f # g => Disjoint(dieptxf[f], dieptxf[g])

\* A region that ends where another begins does not overlap it.
LEMMA Abutting ==
  ASSUME NEW r \in Regions, NEW q \in Regions, r.start + r.depth <= q.start
  PROVE  /\ Disjoint(r, q) /\ Disjoint(q, r)
         /\ r.start <= q.start
BY DEF Regions, Disjoint

LEMMA LayoutInvInit == Init => LayoutInv
<1> SUFFICES ASSUME Init PROVE LayoutInv
  OBVIOUS
<1>1. TypeInv
  BY TypeInvInit
<1>2. Programmed = {}
  BY DEF Init, Programmed
<1>3. QED
  BY <1>1, <1>2 DEF LayoutInv, Init

LEMMA LayoutInvStep == LayoutInv /\ [Next]_vars => LayoutInv'
<1> SUFFICES ASSUME LayoutInv, [Next]_vars PROVE LayoutInv'
  OBVIOUS
<1>1. TypeInv /\ TypeOK
  BY DEF LayoutInv, TypeInv
<1>2. TypeInv' /\ TypeOK'
  BY <1>1, TypeInvStep DEF TypeInv
<1>3. /\ start \in Nat /\ depth \in Nat /\ grxfsiz \in Nat
      /\ gnptx \in Regions /\ dieptxf \in [1 .. MaxNumTxFifos -> Regions]
      /\ j \in 1 .. MaxNumTxFifos + 1
  BY <1>1, TypeFacts
<1>4. /\ start' \in Nat /\ depth' \in Nat
      /\ dieptxf' \in [1 .. MaxNumTxFifos -> Regions]
  BY <1>2 DEF TypeOK
<1>5. CASE DescStep
  <2>1. pc = "desc" /\ pc' \in {"desc", "rx"} /\ dieptxf' = dieptxf
    BY <1>5 DEF DescStep
  <2>2. Programmed' = {}
    BY <2>1 DEF LayoutInv, Programmed
  <2>3. QED
    BY <1>2, <2>1, <2>2 DEF LayoutInv
<1>6. CASE RxSetup
  <2>1. /\ pc = "rx" /\ pc' = "tx" /\ dieptxf' = dieptxf
        /\ gnptx'.start = grxfsiz' /\ gnptx'.start = start'
        /\ gnptx'.depth = depth'
    BY <1>6 DEF RxSetup
  <2>2. Programmed' = {}
    BY <2>1 DEF LayoutInv, Programmed
  <2>3. gnptx'.start + gnptx'.depth <= start' + depth'
    <3>1. PICK gp \in Regions : gp = gnptx'
      BY <1>2 DEF TypeOK
    <3>2. gp.start = start' /\ gp.depth = depth'
      BY <2>1, <3>1
    <3>3. gp.start + gp.depth <= start' + depth'
      <4>1. start' \in Nat /\ depth' \in Nat
        BY <1>4
      <4>2. gp.start + gp.depth = start' + depth'
        BY <3>2, Zenon
      <4>3. QED
        BY <4>1, <4>2
    <3>4. QED
      BY <3>1, <3>3, Zenon
  <2>4. QED
    BY <1>2, <2>1, <2>2, <2>3 DEF LayoutInv
<1>7. CASE TxStep
  <2> DEFINE k == GetEpFromAddr(128 + i)
  <2>1. /\ pc = "tx" /\ pc' \in {"tx", "check"}
        /\ UNCHANGED <<gnptx, grxfsiz>>
    BY <1>7 DEF TxStep
  <2>2. /\ gnptx.start = grxfsiz
        /\ gnptx.start + gnptx.depth <= start + depth
        /\ \A f \in Programmed :
              /\ gnptx.start + gnptx.depth <= dieptxf[f].start
              /\ dieptxf[f].start + dieptxf[f].depth <= start + depth
        /\ \A f, g \in Programmed : f # g => Disjoint(dieptxf[f], dieptxf[g])
    BY <2>1 DEF LayoutInv
  <2>3. CASE k # NoEp /\ eps[k].txFifoNum = j
    <3> DEFINE r == [start |-> start + depth, depth |-> depth']
    <3>1. /\ start' = start + depth
          /\ dieptxf' = [dieptxf EXCEPT ![j] = r]
      BY <1>7, <2>3 DEF TxStep
    <3>2. r \in Regions /\ r.start + r.depth = start' + depth'
      BY <1>3, <1>4, <3>1 DEF Regions
    <3>3. j \in 1 .. MaxNumTxFifos
      BY <1>1, <1>3, <2>1 DEF TypeInv
    <3>4. Programmed' \subseteq Programmed \cup {j}
      BY <1>3, <3>1, <3>3 DEF Programmed
    <3>5. \A f \in Programmed' \ {j} : dieptxf'[f] = dieptxf[f] /\ f \in Programmed
      BY <1>3, <3>1, <3>3, <3>4
    <3>6. dieptxf'[j] = r
      BY <1>3, <3>1, <3>3
    <3>7. gnptx.start + gnptx.depth <= start' + depth'
      <4>1. PICK gn \in Regions : gn = gnptx
        BY <1>3
      <4>2. gn.start + gn.depth <= start + depth
        BY <2>2, <4>1
      <4>3. QED
        BY <1>3, <1>4, <3>1, <4>1, <4>2 DEF Regions
    <3>8. ASSUME NEW f \in Programmed'
          PROVE  /\ gnptx.start + gnptx.depth <= dieptxf'[f].start
                 /\ dieptxf'[f].start + dieptxf'[f].depth <= start' + depth'
                 /\ \A g \in Programmed' :
                       f # g => Disjoint(dieptxf'[f], dieptxf'[g])
      <4>1. PICK pf \in Regions : pf = dieptxf[f]
        BY <1>3, <3>3, <3>4 DEF Programmed
      <4>2. CASE f = j
        <5>1. gnptx.start + gnptx.depth <= r.start
          BY <2>2
        <5>2. ASSUME NEW g \in Programmed', f # g
              PROVE  Disjoint(dieptxf'[f], dieptxf'[g])
          <6>1. PICK pg \in Regions : pg = dieptxf[g]
            BY <1>3, <3>3, <3>4, <5>2 DEF Programmed
          <6>2. pg.start + pg.depth <= r.start /\ dieptxf'[g] = pg
            BY <2>2, <3>5, <4>2, <5>2, <6>1
          <6>3. QED
            BY <3>2, <3>6, <4>2, <6>1, <6>2, Abutting
        <5>3. dieptxf'[f] = r
          BY <3>6, <4>2
        <5>4. r.start + r.depth <= start' + depth'
          BY <1>4, <3>2
        <5>5. QED
          BY <5>1, <5>2, <5>3, <5>4, Zenon
      <4>3. CASE f # j
        <5>1. f \in Programmed /\ dieptxf'[f] = pf
          BY <3>5, <4>1, <4>3
        <5>2. gnptx.start + gnptx.depth <= pf.start
              /\ pf.start + pf.depth <= start + depth
          BY <2>2, <4>1, <5>1
        <5>3. pf.start + pf.depth <= start' + depth'
          BY <1>3, <1>4, <3>1, <4>1, <5>2 DEF Regions
        <5>4. ASSUME NEW g \in Programmed', f # g
              PROVE  Disjoint(dieptxf'[f], dieptxf'[g])
          <6>1. CASE g = j
            BY <3>2, <3>6, <5>1, <5>2, <6>1, <4>1, Abutting
          <6>2. CASE g # j
            BY <2>2, <3>5, <4>1, <5>1, <5>4, <6>2, Zenon
          <6>3. QED
            BY <6>1, <6>2
        <5>5. QED
          BY <5>1, <5>2, <5>3, <5>4
      <4>4. QED
        BY <4>2, <4>3
    <3>9. QED
      BY <1>2, <2>1, <3>7, <3>8 DEF LayoutInv
  <2>4. CASE ~(k # NoEp /\ eps[k].txFifoNum = j)
    <3>1. UNCHANGED <<start, depth, dieptxf>>
      BY <1>7, <2>4 DEF TxStep
    <3>2. Programmed' = Programmed
      BY <3>1 DEF Programmed
    <3>3. QED
      BY <1>2, <2>1, <2>2, <3>1, <3>2 DEF LayoutInv
  <2>5. QED
    BY <2>3, <2>4
<1>8. CASE SizeCheck
  <2>1. /\ pc = "check" /\ pc' = "done"
        /\ UNCHANGED <<gnptx, grxfsiz, dieptxf, start, depth>>
    BY <1>8 DEF SizeCheck
  <2>2. Programmed' = Programmed
    BY <2>1 DEF Programmed
  <2>3. QED
    BY <1>2, <2>1, <2>2 DEF LayoutInv
<1>9. CASE UNCHANGED vars
  <2>1. Programmed' = Programmed
    BY <1>9 DEF vars, Programmed
  <2>2. QED
    BY <1>2, <1>9, <2>1 DEF vars, LayoutInv
<1>10. QED
  BY <1>5, <1>6, <1>7, <1>8, <1>9 DEF Next

\* The FIFOs USB_Fifo_Init programs into GNPTXFSIZ and the DIEPTXFn
\* registers lie above the receive FIFO and overlap neither each other nor
\* the non-periodic transmit FIFO, for every descriptor table.
THEOREM TxFifosApart == Spec => []TxFifosDisjoint
<1>1. LayoutInv => TxFifosDisjoint
  <2> SUFFICES ASSUME LayoutInv, pc = "done"
               PROVE  /\ \A f \in Programmed :
                            /\ dieptxf[f].start >= grxfsiz
                            /\ Disjoint(dieptxf[f], gnptx)
                            /\ \A g \in Programmed \ {f} :
                                  Disjoint(dieptxf[f], dieptxf[g])
                      /\ gnptx.start >= grxfsiz
    BY DEF TxFifosDisjoint
  <2>1. gnptx \in Regions /\ dieptxf \in [1 .. MaxNumTxFifos -> Regions]
        /\ grxfsiz \in Nat
    BY TypeFacts DEF LayoutInv, TypeInv
  <2>2. gnptx.start = grxfsiz
    BY DEF LayoutInv
  <2>3. ASSUME NEW f \in Programmed
        PROVE  /\ dieptxf[f].start >= grxfsiz
               /\ Disjoint(dieptxf[f], gnptx)
    <3>1. PICK pf \in Regions : pf = dieptxf[f]
      BY <2>1 DEF Programmed
    <3>2. gnptx.start + gnptx.depth <= pf.start
      BY <3>1 DEF LayoutInv
    <3>3. QED
      BY <2>1, <2>2, <3>1, <3>2, Abutting
  <2>4. \A f \in Programmed : \A g \in Programmed \ {f} :
           Disjoint(dieptxf[f], dieptxf[g])
    BY DEF LayoutInv
  <2>5. QED
    BY <2>1, <2>2, <2>3, <2>4
<1>2. QED
  BY LayoutInvInit, LayoutInvStep, <1>1, PTL DEF Spec

-----------------------------------------------------------------------------
(***************************************************************************)
(* The receive FIFO depth.  SpecRxDepth sums the OUT endpoints' words with *)
(* a recursive function over the whole table; USB_Fifo_Init adds them up  *)
(* in totalRx one descriptor at a time.  The walk itself carries the       *)
(* induction: after numEps descriptors some function satisfies the sum's  *)
(* equation up to numEps, and every one that does ends in what totalRx     *)
(* holds.                                                                  *)
(***************************************************************************)

\* g is the running sum of OutWords over the first n entries of t.
IsSumOf(g, t, n) ==
    g = [k \in 0 .. n |-> IF k = 0 THEN 0 ELSE g[k - 1] + OutWords(t[k])]

\* The constant words USB_Fifo_Init adds to the OUT endpoints' (line 113).
RxOverhead == 10 + 1 + 2 * (MaxNumOutEps + 1)

\* The OUT endpoints' words counted so far: totalRx until RxSetup adds the
\* overhead to it.
RxWords == IF pc \in {"desc", "rx"} THEN totalRx ELSE totalRx - RxOverhead

\* OUT endpoints take whole words; IN endpoints none.
LEMMA OutWordsNat ==
  ASSUME NEW d \in Descriptors
  PROVE  OutWords(d) \in Nat
<1>1. /\ d.size \div 4 \in Nat
      /\ (d.size \div 4 + 1) * 1 \in Nat /\ (d.size \div 4 + 1) * 2 \in Nat
  BY DescriptorWords
<1>2. QED
  BY <1>1 DEF OutWords

\* A running sum up to n extends by the next entry to one up to n + 1.
LEMMA SumExtend ==
  ASSUME NEW t, NEW n \in Nat, NEW f, IsSumOf(f, t, n)
  PROVE  IsSumOf([k \in 0 .. n + 1 |-> IF k <= n THEN f[k]
                                         ELSE f[n] + OutWords(t[n + 1])],
                 t, n + 1)
BY DEF IsSumOf

\* A running sum up to n + 1 restricts to one up to n, and its last value
\* adds the last entry's words to the value before it.
LEMMA SumRestrict ==
  ASSUME NEW t, NEW n \in Nat, NEW g, IsSumOf(g, t, n + 1)
  PROVE  /\ IsSumOf([k \in 0 .. n |-> g[k]], t, n)
         /\ [k \in 0 .. n |-> g[k]][n] = g[n]
         /\ g[n + 1] = g[n] + OutWords(t[n + 1])
BY DEF IsSumOf

\* The recursive sum SpecRxDepth uses is total when some function
\* satisfies its equation and every one that does ends in total.
LEMMA SumChoose ==
  ASSUME NEW t, NEW total,
         \E f : IsSumOf(f, t, Len(t)),
         \A f : IsSumOf(f, t, Len(t)) => f[Len(t)] = total
  PROVE  LET sum[k \in 0 .. Len(t)] ==
                 IF k = 0 THEN 0 ELSE sum[k - 1] + OutWords(t[k])
         IN  sum[Len(t)] = total
BY Zenon DEF IsSumOf

RxSumInv ==
    /\ TypeInv
    /\ pc # "desc" => numEps = Len(table)
    /\ pc \in {"tx", "check", "done"} => grxfsiz = totalRx
    /\ \E g : IsSumOf(g, table, numEps)
    /\ \A g : IsSumOf(g, table, numEps) => g[numEps] = RxWords

LEMMA RxSumInvInit == Init => RxSumInv
<1> SUFFICES ASSUME Init PROVE RxSumInv
  OBVIOUS
<1>1. TypeInv
  BY TypeInvInit
<1>2. pc = "desc" /\ numEps = 0 /\ RxWords = 0
  BY DEF Init, RxWords
<1>3. IsSumOf([k \in 0 .. 0 |-> 0], table, 0)
  BY DEF IsSumOf
<1>4. \A g : IsSumOf(g, table, 0) => g[0] = 0
  BY DEF IsSumOf
<1>5. QED
  BY <1>1, <1>2, <1>3, <1>4 DEF RxSumInv

\* One descriptor of the walk adds its OUT words to totalRx.
LEMMA DescStepRx ==
  ASSUME TypeInv, DescStep
  PROVE  /\ numEps < Len(table)
         /\ table[numEps + 1] \in Descriptors
         /\ totalRx' = totalRx + OutWords(table[numEps + 1])
<1>1. pc = "desc" /\ numEps < Len(table) /\ table \in Tables
      /\ numEps \in Nat
  BY DEF DescStep, TypeInv, TypeOK
<1>2. PICK d \in Descriptors : d = table[numEps + 1]
  BY <1>1, TableShape
<1>3. totalRx' = IF d.addr >= 128 THEN totalRx
                 ELSE totalRx + (IF d.type = EP_TYPE_CONTROL THEN d.size \div 4
                                 ELSE (d.size \div 4 + 1)
                                        * (IF d.type = EP_TYPE_BULK THEN 2 ELSE 1))
  BY <1>2 DEF DescStep
<1>4. totalRx \in Nat
  BY DEF TypeInv, TypeOK
<1>5. totalRx' = totalRx + OutWords(d)
  BY <1>3, <1>4 DEF OutWords
<1>6. QED
  BY <1>1, <1>2, <1>5

LEMMA RxSumInvStep == RxSumInv /\ [Next]_vars => RxSumInv'
<1> SUFFICES ASSUME RxSumInv, [Next]_vars PROVE RxSumInv'
  OBVIOUS
<1>1. TypeInv /\ TypeInv'
  BY TypeInvStep DEF RxSumInv
<1>2. numEps \in Nat /\ totalRx \in Nat /\ table \in Tables
  BY <1>1, TypeFacts DEF TypeInv
<1>3. CASE DescStep
  <2>1. /\ numEps < Len(table)
        /\ totalRx' = totalRx + OutWords(table[numEps + 1])
    BY <1>1, <1>3, DescStepRx
  <2>2. /\ pc = "desc" /\ pc' \in {"desc", "rx"}
        /\ numEps' = numEps + 1 /\ table' = table
        /\ (pc' = "rx" => numEps + 1 = Len(table))
    BY <1>2, <1>3, <2>1 DEF DescStep
  <2>3. RxWords = totalRx /\ RxWords' = totalRx'
    BY <2>2 DEF RxWords
  <2>4. PICK f : IsSumOf(f, table, numEps)
    BY DEF RxSumInv
  <2>5. \E g : IsSumOf(g, table, numEps + 1)
    BY <1>2, <2>4, SumExtend
  <2>6. ASSUME NEW g, IsSumOf(g, table, numEps + 1)
        PROVE  g[numEps + 1] = totalRx'
    <3>1. /\ IsSumOf([k \in 0 .. numEps |-> g[k]], table, numEps)
          /\ [k \in 0 .. numEps |-> g[k]][numEps] = g[numEps]
          /\ g[numEps + 1] = g[numEps] + OutWords(table[numEps + 1])
      BY <1>2, <2>6, SumRestrict
    <3>2. g[numEps] = totalRx
      BY <2>3, <3>1 DEF RxSumInv
    <3>3. QED
      BY <2>1, <3>1, <3>2
  <2>7. QED
    BY <1>1, <2>2, <2>3, <2>5, <2>6 DEF RxSumInv
<1>4. CASE RxSetup
  <2>1. /\ pc = "rx" /\ pc' = "tx"
        /\ totalRx' = totalRx + 10 + 1 + 2 * (MaxNumOutEps + 1)
        /\ grxfsiz' = totalRx'
        /\ UNCHANGED <<table, numEps>>
    BY <1>4, Zenon DEF RxSetup
  <2>2. RxWords' = RxWords
    BY <1>2, <2>1 DEF RxWords, RxOverhead
  <2>3. QED
    BY <1>1, <2>1, <2>2 DEF RxSumInv
<1>5. CASE TxStep \/ SizeCheck
  <2>1. /\ pc \in {"tx", "check"} /\ pc' \in {"tx", "check", "done"}
        /\ UNCHANGED <<table, numEps, totalRx, grxfsiz>>
    BY <1>5 DEF TxStep, SizeCheck
  <2>2. RxWords' = RxWords
    BY <2>1 DEF RxWords
  <2>3. QED
    BY <1>1, <2>1, <2>2 DEF RxSumInv
<1>6. CASE UNCHANGED vars
  <2>1. RxWords' = RxWords
    BY <1>6 DEF vars, RxWords
  <2>2. QED
    BY <1>1, <1>6, <2>1 DEF vars, RxSumInv
<1>7. QED
  BY <1>3, <1>4, <1>5, <1>6 DEF Next

\* The receive FIFO USB_Fifo_Init programs into GRXFSIZ has the depth spec
\* section 4.1 gives it, the OUT endpoints' words plus the fixed overhead,
\* for every descriptor table: the running total of the descriptor loop
\* and the addition at line 113 compute exactly that sum.
THEOREM RxDepth == Spec => []RxDepthPerSpec
<1>1. RxSumInv => RxDepthPerSpec
  <2> SUFFICES ASSUME RxSumInv, pc \in {"tx", "check", "done"}
               PROVE  grxfsiz = SpecRxDepth
    BY DEF RxDepthPerSpec
  <2>1. numEps = Len(table) /\ grxfsiz = totalRx /\ totalRx \in Nat
    BY TypeFacts DEF RxSumInv, TypeInv
  <2>2. LET sum[k \in 0 .. Len(table)] ==
                IF k = 0 THEN 0 ELSE sum[k - 1] + OutWords(table[k])
        IN  sum[Len(table)] = totalRx - RxOverhead
    <3>1. \E f : IsSumOf(f, table, Len(table))
      BY <2>1 DEF RxSumInv
    <3>2. \A f : IsSumOf(f, table, Len(table)) => f[Len(table)] = totalRx - RxOverhead
      BY <2>1 DEF RxSumInv, RxWords
    <3>3. QED
      BY <3>1, <3>2, SumChoose
  <2>3. QED
    BY <2>1, <2>2 DEF SpecRxDepth, RxOverhead
<1>2. QED
  BY RxSumInvInit, RxSumInvStep, <1>1, PTL DEF Spec
====
