--------------------------- MODULE UsbDevice_proofs ---------------------------
(***************************************************************************)
(* Proofs about the interrupt handler of UsbDevice, for every value of the *)
(* constants: the type invariant, and that a configured device has an      *)
(* address as long as the HAL leaves WKUPINT masked.                       *)
(***************************************************************************)
EXTENDS UsbDevice, Descriptors_proofs, TLAPS

USE HalAssumption, NumConfigurationsAssumption, NoSetupAssumption

\* The request field of a SETUP packet that sits in EP0.
IsSetConfiguration(p) == p # NoSetup /\ p.bRequest = "SET_CONFIGURATION"

(***************************************************************************)
(* The strengthening of ConfiguredImpliesAddressed.  A SET_CONFIGURATION   *)
(* waiting in EP0 was sent to an addressed device, and the reset handler,  *)
(* the only step that clears the address, also wipes it; WKUPINT is never  *)
(* unmasked, so Handle_WKUPINT never restores Configured from a stale      *)
(* configuration number.                                                   *)
(***************************************************************************)
AddressInv ==
    /\ TypeOK
    /\ devState = "Configured" => addrSet
    /\ IsSetConfiguration(doep0Setup) => addrSet
    /\ "WKUPINT" \notin gintmsk
    /\ "WKUPINT" \notin status

-----------------------------------------------------------------------------
\* The shapes the register record of USB_Init takes.
RegRecords ==
    [gintmsk : SUBSET CoreInts, gintsts : SUBSET LatchedInts,
     doep0Setup : {NoSetup}, diepInt : BOOLEAN, vregIF : SUBSET {"H", "L"},
     ien : SUBSET {"H", "L"}]

\* The registers USB_Init leaves, whatever the boot left in them: both
\* quiesce steps wipe masks and flags, the VREGO enables clear both VREGO
\* flags, and only the forced one is set again.
LEMMA InitRegisters ==
  ASSUME Init
  PROVE  /\ devState = "Unattached" /\ configNum = 0 /\ addrSet = FALSE
         /\ gintsts = {} /\ gintmsk = {"USBSUSP", "SOF"}
         /\ doep0Setup = NoSetup /\ diepInt = FALSE /\ ep0Armed = FALSE
         /\ bus \in {"Detached", "Attached"}
         /\ vregIF = IF Vbus THEN {"H"} ELSE {"L"}
         /\ hostAddr = FALSE /\ hostCtl = NoSetup /\ hostDesc = NoReply
         /\ isr = "idle" /\ status = {}
<1>1. PICK r \in PriorRegs : InitState(InitDevice(Quiesce(Quiesce(r))))
  BY DEF Init
<1> DEFINE q == Quiesce(Quiesce(r))
           h == USB_INT_Enable(q, "H")
           v == USB_INT_Enable(h, "L")
           f == VregoForced(v)
           s1 == USB_INT_Enable(f, "USBSUSP")
<1>2. /\ q \in RegRecords
      /\ q.gintmsk = {} /\ q.gintsts = {} /\ q.doep0Setup = NoSetup
      /\ q.diepInt = FALSE
  BY <1>1 DEF PriorRegs, RegRecords, Quiesce, USB_INT_DisableAllInterrupts,
              USB_INT_ClearAllInterrupts
<1>3. /\ h \in RegRecords
      /\ h.gintmsk = {} /\ h.gintsts = {} /\ h.doep0Setup = NoSetup
      /\ h.diepInt = FALSE /\ h.vregIF \subseteq {"L"}
  BY <1>2 DEF RegRecords, USB_INT_Enable, CoreInts
<1>4. /\ v \in RegRecords
      /\ v.gintmsk = {} /\ v.gintsts = {} /\ v.doep0Setup = NoSetup
      /\ v.diepInt = FALSE /\ v.vregIF = {}
  BY <1>3 DEF RegRecords, USB_INT_Enable, CoreInts
<1>5. /\ f \in RegRecords
      /\ f.gintmsk = {} /\ f.gintsts = {} /\ f.doep0Setup = NoSetup
      /\ f.diepInt = FALSE /\ f.vregIF = IF Vbus THEN {"H"} ELSE {"L"}
  BY <1>4 DEF RegRecords, VregoForced
<1>6. /\ s1 \in RegRecords
      /\ s1.gintmsk = {"USBSUSP"} /\ s1.gintsts = {} /\ s1.doep0Setup = NoSetup
      /\ s1.diepInt = FALSE /\ s1.vregIF = IF Vbus THEN {"H"} ELSE {"L"}
  BY <1>5 DEF RegRecords, USB_INT_Enable, CoreInts
<1>7. LET d == USB_INT_Enable(s1, "SOF")
      IN  /\ d = InitDevice(q)
          /\ d.gintmsk = {"USBSUSP", "SOF"} /\ d.gintsts = {}
          /\ d.doep0Setup = NoSetup /\ d.diepInt = FALSE
          /\ d.vregIF = IF Vbus THEN {"H"} ELSE {"L"}
  BY <1>6 DEF RegRecords, USB_INT_Enable, CoreInts, InitDevice
<1>8. QED
  BY <1>1, <1>7 DEF InitState, Init

\* The state USB_Init leaves is well typed.
LEMMA TypingInit == Init => TypeOK
<1> SUFFICES ASSUME Init PROVE TypeOK
  OBVIOUS
<1>1. devState \in DeviceStates /\ bus \in BusStates /\ vregIF \subseteq {"H", "L"}
  BY InitRegisters DEF DeviceStates, BusStates
<1>2. configNum \in 0 .. NumConfigurations
  BY InitRegisters
<1>3. gintsts \subseteq LatchedInts /\ gintmsk \subseteq CoreInts
      /\ status \subseteq CoreInts
  BY InitRegisters DEF LatchedInts, CoreInts
<1>4. QED
  BY <1>1, <1>2, <1>3, InitRegisters DEF TypeOK

\* Every step of the host or of the handler keeps each variable in its
\* range: the masks stay within the core interrupt bits, the configuration
\* number within the configurations that exist (the control-request
\* processor stalls a SET_CONFIGURATION above FIXED_NUM_CONFIGURATIONS).
LEMMA TypingStep == TypeOK /\ [Next]_vars => TypeOK'
<1> SUFFICES ASSUME TypeOK, [Next]_vars PROVE TypeOK'
  OBVIOUS
<1> USE DEF TypeOK, CoreInts, LatchedInts, DeviceStates, BusStates
<1>1. CASE Host
  <2>1. CASE VbusOn
    BY <2>1 DEF VbusOn
  <2>2. CASE VbusOff
    BY <2>2 DEF VbusOff
  <2>3. CASE HostReset
    BY <2>3 DEF HostReset
  <2>4. CASE ResetEnd
    BY <2>4 DEF ResetEnd
  <2>5. CASE BusIdle
    BY <2>5 DEF BusIdle
  <2>6. CASE HostResume
    BY <2>6 DEF HostResume
  <2>7. CASE Sof
    BY <2>7 DEF Sof
  <2>8. ASSUME NEW p \in SetupPackets, HostSetup(p)
        PROVE TypeOK'
    BY <2>8 DEF HostSetup
  <2>9. QED
    BY <1>1, <2>1, <2>2, <2>3, <2>4, <2>5, <2>6, <2>7, <2>8 DEF Host
<1>2. CASE USB_IRQHandler
  <2>1. UNCHANGED <<configNum, addrSet, doep0Setup, diepInt, bus, hostAddr,
                    hostCtl, hostDesc>>
    BY <1>2 DEF USB_IRQHandler
  <2>2. devState' \in DeviceStates /\ vregIF' \subseteq {"H", "L"}
        /\ isr' \in {"idle", "dispatch"} /\ ep0Armed' \in BOOLEAN
    BY <1>2 DEF USB_IRQHandler
  <2>3. gintmsk' \subseteq CoreInts /\ gintsts' \subseteq LatchedInts
        /\ status' \subseteq CoreInts
    BY <1>2 DEF USB_IRQHandler, Raised, VregHigh, VregLow
  <2>4. QED
    BY <2>1, <2>2, <2>3
<1>3. CASE Handle_RESETDET
  BY <1>3 DEF Handle_RESETDET, Dispatched
<1>4. CASE Handle_WKUPINT
  BY <1>4 DEF Handle_WKUPINT, Dispatched
<1>5. CASE Handle_USBSUSP
  BY <1>5 DEF Handle_USBSUSP, Dispatched
<1>6. CASE Handle_SOF
  BY <1>6 DEF Handle_SOF, Dispatched
<1>7. CASE Handle_ENUMDONE
  BY <1>7 DEF Handle_ENUMDONE, Dispatched
<1>8. CASE Handle_USBRST
  BY <1>8 DEF Handle_USBRST, Dispatched
<1>9. CASE Handle_IEPINT
  BY <1>9 DEF Handle_IEPINT, Dispatched
<1>10. CASE Handle_OEPINT
  <2>1. CASE doep0Setup = NoSetup
    BY <1>10, <2>1 DEF Handle_OEPINT, Dispatched
  <2>2. CASE doep0Setup # NoSetup
    <3>1. /\ doep0Setup \in SetupPackets
          /\ ProcessControlRequest(doep0Setup)
          /\ status' \subseteq CoreInts
          /\ UNCHANGED <<gintsts, gintmsk, ep0Armed, vregIF, bus, isr>>
          /\ doep0Setup' = NoSetup
      BY <1>10, <2>2 DEF Handle_OEPINT, Dispatched
    <3> DEFINE q == doep0Setup
    <3>2. q.wValue \in Nat
      BY <3>1 DEF SetupPackets, DescriptorRequests
    <3>3. CASE q.bRequest = "SET_ADDRESS"
      BY <3>1, <3>3 DEF ProcessControlRequest
    <3>4. CASE q.bRequest = "SET_CONFIGURATION" /\ q.wValue <= NumConfigurations
      BY <3>1, <3>2, <3>4 DEF ProcessControlRequest
    <3>5. CASE q.bRequest = "GET_DESCRIPTOR"
      <4>1. q.wValue \in DescriptorRequests
        BY <3>1, <3>5 DEF SetupPackets
      <4>2. CALLBACK_USB_GetDescriptor(q.wValue) \in Replies
        BY <4>1 DEF Replies
      <4>3. /\ GetDescriptorRequest(q)
            /\ hostCtl' = NoSetup
            /\ UNCHANGED <<devState, configNum, addrSet, hostAddr>>
        BY <3>1, <3>5 DEF ProcessControlRequest
      <4>4. hostDesc' \in {NoReply} \cup [wValue : DescriptorRequests, got : Replies]
        BY <4>1, <4>2, <4>3 DEF GetDescriptorRequest
      <4>5. diepInt' \in BOOLEAN
        BY <4>3 DEF GetDescriptorRequest
      <4>6. QED
        BY <3>1, <4>3, <4>4, <4>5
    <3>6. CASE ~(q.bRequest = "SET_ADDRESS")
               /\ ~(q.bRequest = "SET_CONFIGURATION" /\ q.wValue <= NumConfigurations)
               /\ ~(q.bRequest = "GET_DESCRIPTOR")
      BY <3>1, <3>6 DEF ProcessControlRequest
    <3>7. QED
      BY <3>3, <3>4, <3>5, <3>6
  <2>3. QED
    BY <2>1, <2>2
<1>11. CASE IsrExit
  BY <1>11 DEF IsrExit
<1>12. CASE UNCHANGED vars
  BY <1>12 DEF vars
<1>13. QED
  BY <1>1, <1>2, <1>3, <1>4, <1>5, <1>6, <1>7, <1>8, <1>9, <1>10, <1>11,
     <1>12 DEF Next, Isr

\* Type correctness of the interrupt handler, the host and the bus: TypeOK
\* holds in every reachable state, whatever the HAL mask and the number of
\* configurations.
THEOREM Typing == Spec => []TypeOK
BY TypingInit, TypingStep, PTL DEF Spec

-----------------------------------------------------------------------------
\* USB_Init leaves an unconfigured device with WKUPINT masked.
LEMMA AddressInvInit == Init => AddressInv
BY TypingInit, InitRegisters DEF AddressInv, IsSetConfiguration

\* No step of the host or of the handler breaks AddressInv when the HAL
\* leaves WKUPINT masked: the reset handler clears the address and the
\* SETUP in EP0 together and enters Default, the control-request processor
\* configures only a device whose SET_CONFIGURATION came to its address.
LEMMA AddressInvStep ==
  ASSUME "WKUPINT" \notin HalIntMask
  PROVE  AddressInv /\ [Next]_vars => AddressInv'
<1> SUFFICES ASSUME AddressInv, [Next]_vars PROVE AddressInv'
  OBVIOUS
<1>1. TypeOK'
  BY TypingStep DEF AddressInv
<1> USE DEF AddressInv, IsSetConfiguration
<1>2. CASE Host
  <2>1. CASE VbusOn \/ VbusOff \/ HostReset \/ ResetEnd \/ BusIdle
             \/ HostResume \/ Sof
    BY <1>1, <2>1 DEF VbusOn, VbusOff, HostReset, ResetEnd, BusIdle,
                       HostResume, Sof
  <2>2. ASSUME NEW p \in SetupPackets, HostSetup(p)
        PROVE AddressInv'
    BY <1>1, <2>2 DEF HostSetup, HostMaySend
  <2>3. QED
    BY <1>2, <2>1, <2>2 DEF Host
<1>3. CASE USB_IRQHandler
  BY <1>1, <1>3 DEF USB_IRQHandler, VregHigh, VregLow
<1>4. CASE Handle_RESETDET \/ Handle_USBSUSP \/ Handle_SOF \/ Handle_IEPINT
  BY <1>1, <1>4 DEF Handle_RESETDET, Handle_USBSUSP, Handle_SOF,
                     Handle_IEPINT, Dispatched
<1>5. CASE Handle_WKUPINT
  BY <1>5 DEF Handle_WKUPINT, Dispatched
<1>6. CASE Handle_ENUMDONE \/ Handle_USBRST
  BY <1>1, <1>6 DEF Handle_ENUMDONE, Handle_USBRST, Dispatched
<1>7. CASE Handle_OEPINT
  <2>1. CASE doep0Setup = NoSetup
    BY <1>1, <1>7, <2>1 DEF Handle_OEPINT, Dispatched
  <2>2. CASE doep0Setup # NoSetup
    <3> DEFINE q == doep0Setup
    <3>1. /\ ProcessControlRequest(q)
          /\ status' \subseteq status
          /\ UNCHANGED gintmsk
          /\ doep0Setup' = NoSetup
      BY <1>7, <2>2 DEF Handle_OEPINT, Dispatched
    <3>2. CASE q.bRequest = "SET_ADDRESS"
      BY <1>1, <3>1, <3>2 DEF ProcessControlRequest
    <3>3. CASE q.bRequest = "SET_CONFIGURATION"
      BY <1>1, <2>2, <3>1, <3>3 DEF ProcessControlRequest
    <3>4. CASE q.bRequest # "SET_ADDRESS" /\ q.bRequest # "SET_CONFIGURATION"
      BY <1>1, <3>1, <3>4 DEF ProcessControlRequest
    <3>5. QED
      BY <3>2, <3>3, <3>4
  <2>3. QED
    BY <2>1, <2>2
<1>8. CASE IsrExit
  BY <1>1, <1>8 DEF IsrExit
<1>9. CASE UNCHANGED vars
  BY <1>1, <1>9 DEF vars
<1>10. QED
  BY <1>2, <1>3, <1>4, <1>5, <1>6, <1>7, <1>8, <1>9 DEF Next, Isr

\* USB 2.0 9.1.1 for this driver: with the interrupt set of emlib's
\* USBDHAL_EnableInts, which leaves WKUPINT masked, a device that
\* USB_DeviceState calls Configured always has its address set; the reset
\* handler's stale configuration number is never read back.
THEOREM ConfiguredHasAddress ==
  ASSUME "WKUPINT" \notin HalIntMask
  PROVE  Spec => []ConfiguredImpliesAddressed
<1>1. AddressInv => ConfiguredImpliesAddressed
  BY DEF AddressInv, ConfiguredImpliesAddressed
<1>2. QED
  BY AddressInvInit, AddressInvStep, <1>1, PTL DEF Spec

-----------------------------------------------------------------------------
(***************************************************************************)
(* The strengthening of PowerStateAgrees.  Once the VREGOSL of an unplug   *)
(* is served the device is Unattached with every core interrupt masked     *)
(* and the handler idle; a present VBUS on an Unattached device has its    *)
(* VREGOSH still flagged.  Neither needs a stable VBUS or a HAL mask.      *)
(***************************************************************************)
PowerInv ==
    /\ TypeOK
    /\ (bus = "Detached" /\ "L" \notin vregIF)
          => (devState = "Unattached" /\ gintmsk = {} /\ isr = "idle")
    /\ (Vbus /\ devState = "Unattached") => "H" \in vregIF

\* USB_Init_Device forces the VREGO flag of the present VBUS level on an
\* Unattached device.
LEMMA PowerInvInit == Init => PowerInv
BY TypingInit, InitRegisters DEF PowerInv, Vbus

(***************************************************************************)
(* No step breaks PowerInv.  The handler's entry serves VREGOSL into       *)
(* Unattached with everything masked, VREGOSH into Powered, and with no    *)
(* VREGO flag keeps a device whose state already agreed; the dispatched    *)
(* handlers never enter Unattached and run while the handler is not idle;  *)
(* host steps happen with the handler idle and either keep VBUS or flag    *)
(* its change.                                                             *)
(***************************************************************************)
LEMMA PowerInvStep == PowerInv /\ [Next]_vars => PowerInv'
<1> SUFFICES ASSUME PowerInv, [Next]_vars PROVE PowerInv'
  OBVIOUS
<1>1. TypeOK'
  BY TypingStep DEF PowerInv
<1> USE DEF PowerInv, Vbus
<1>2. CASE Host
  <2>1. CASE VbusOn \/ VbusOff
    BY <1>1, <2>1 DEF VbusOn, VbusOff
  <2>2. CASE HostReset \/ ResetEnd \/ BusIdle \/ HostResume \/ Sof
    BY <1>1, <2>2 DEF HostReset, ResetEnd, BusIdle, HostResume, Sof
  <2>3. ASSUME NEW p \in SetupPackets, HostSetup(p)
        PROVE PowerInv'
    BY <1>1, <2>3 DEF HostSetup
  <2>4. QED
    BY <1>2, <2>1, <2>2, <2>3 DEF Host
<1>3. CASE USB_IRQHandler
  <2>1. vregIF' = {} /\ bus' = bus
    BY <1>3 DEF USB_IRQHandler
  <2>2. CASE VregLow
    <3>1. devState' = "Unattached" /\ gintmsk' = {} /\ isr' = "idle"
      BY <1>3, <2>2 DEF USB_IRQHandler
    <3>2. QED
      BY <1>1, <2>1, <2>2, <3>1 DEF VregLow
  <2>3. CASE ~VregLow /\ VregHigh
    <3>1. devState' = "Powered"
      BY <1>3, <2>3 DEF USB_IRQHandler
    <3>2. QED
      BY <1>1, <2>1, <2>3, <3>1 DEF VregHigh
  <2>4. CASE ~VregLow /\ ~VregHigh
    <3>1. devState' = devState /\ gintmsk' = gintmsk
      BY <1>3, <2>4 DEF USB_IRQHandler
    <3>2. gintmsk = {} => isr' = "idle"
      BY <1>3, <2>4 DEF USB_IRQHandler
    <3>3. QED
      BY <1>1, <2>1, <2>4, <3>1, <3>2 DEF VregLow, VregHigh
  <2>5. QED
    BY <2>2, <2>3, <2>4
<1>4. CASE Handle_RESETDET \/ Handle_WKUPINT \/ Handle_USBSUSP \/ Handle_SOF
             \/ Handle_ENUMDONE \/ Handle_USBRST \/ Handle_IEPINT
  BY <1>1, <1>4 DEF Handle_RESETDET, Handle_WKUPINT, Handle_USBSUSP,
                     Handle_SOF, Handle_ENUMDONE, Handle_USBRST,
                     Handle_IEPINT, Dispatched
<1>5. CASE Handle_OEPINT
  <2>1. isr = "dispatch" /\ UNCHANGED <<vregIF, bus, isr>>
    BY <1>5 DEF Handle_OEPINT, Dispatched
  <2>2. devState' # "Unattached" \/ devState' = devState
    BY <1>5 DEF Handle_OEPINT, ProcessControlRequest, GetDescriptorRequest
  <2>3. QED
    BY <1>1, <2>1, <2>2
<1>6. CASE IsrExit
  BY <1>1, <1>6 DEF IsrExit
<1>7. CASE UNCHANGED vars
  BY <1>1, <1>7 DEF vars
<1>8. QED
  BY <1>2, <1>3, <1>4, <1>5, <1>6, <1>7 DEF Next, Isr

\* The device state agrees with VBUS whenever the handler has served the
\* last VREGO flag, for every HAL mask and whether or not VBUS bounces:
\* the STATUS re-checks of USB_IRQHandler and the VREGO interrupt that
\* USB_Init_Device forces keep USB_DeviceState Unattached exactly when the
\* cable is out.
THEOREM PowerAgrees == Spec => []PowerStateAgrees
<1>1. PowerInv => PowerStateAgrees
  BY DEF PowerInv, PowerStateAgrees, Vbus
<1>2. QED
  BY PowerInvInit, PowerInvStep, <1>1, PTL DEF Spec

-----------------------------------------------------------------------------
(***************************************************************************)
(* The descriptors the host receives.  DescriptorRepliesPerSpec is about   *)
(* the last reply the host completed; what makes it hold is that the reply *)
(* is always the callback's answer to the wValue the host sent: the        *)
(* request processor records CALLBACK_USB_GetDescriptor(p.wValue) for the  *)
(* very packet p the host is waiting on, and nothing else writes it.       *)
(***************************************************************************)
ReplyInv ==
    /\ TypeOK
    /\ hostDesc # NoReply =>
          hostDesc.got = CALLBACK_USB_GetDescriptor(hostDesc.wValue)

LEMMA ReplyInvInit == Init => ReplyInv
<1> SUFFICES ASSUME Init PROVE ReplyInv
  OBVIOUS
<1>1. TypeOK
  BY TypingInit
<1>2. hostDesc = NoReply
  BY InitRegisters
<1>3. QED
  BY <1>1, <1>2 DEF ReplyInv

LEMMA ReplyInvStep == ReplyInv /\ [Next]_vars => ReplyInv'
<1> SUFFICES ASSUME ReplyInv, [Next]_vars PROVE ReplyInv'
  OBVIOUS
<1>1. TypeOK'
  BY TypingStep DEF ReplyInv
<1>2. CASE hostDesc' = hostDesc
  BY <1>1, <1>2 DEF ReplyInv
<1>3. CASE Host
  <2>1. CASE VbusOn \/ VbusOff \/ HostReset \/ ResetEnd \/ BusIdle
             \/ HostResume \/ Sof
    BY <1>2, <2>1 DEF VbusOn, VbusOff, HostReset, ResetEnd, BusIdle,
                       HostResume, Sof
  <2>2. ASSUME NEW p \in SetupPackets, HostSetup(p)
        PROVE ReplyInv'
    BY <1>2, <2>2 DEF HostSetup
  <2>3. QED
    BY <1>3, <2>1, <2>2 DEF Host
<1>4. CASE USB_IRQHandler \/ IsrExit
  BY <1>2, <1>4 DEF USB_IRQHandler, IsrExit
<1>5. CASE Handle_RESETDET \/ Handle_WKUPINT \/ Handle_USBSUSP \/ Handle_SOF
             \/ Handle_ENUMDONE \/ Handle_USBRST \/ Handle_IEPINT
  BY <1>2, <1>5 DEF Handle_RESETDET, Handle_WKUPINT, Handle_USBSUSP,
                     Handle_SOF, Handle_ENUMDONE, Handle_USBRST, Handle_IEPINT
<1>6. CASE Handle_OEPINT
  <2>1. CASE doep0Setup = NoSetup
    BY <1>2, <1>6, <2>1 DEF Handle_OEPINT
  <2>2. CASE doep0Setup # NoSetup
    <3> DEFINE q == doep0Setup
    <3>1. ProcessControlRequest(q)
      BY <1>6, <2>2 DEF Handle_OEPINT
    <3>2. CASE q.bRequest = "GET_DESCRIPTOR"
      <4>1. q.bRequest # "SET_ADDRESS"
            /\ ~(q.bRequest = "SET_CONFIGURATION" /\ q.wValue <= NumConfigurations)
        BY <3>2
      <4>2. hostDesc' = IF hostCtl = q
                        THEN [wValue |-> q.wValue,
                              got |-> CALLBACK_USB_GetDescriptor(q.wValue)]
                        ELSE hostDesc
        BY <3>1, <3>2, <4>1 DEF ProcessControlRequest, GetDescriptorRequest
      <4>3. QED
        BY <1>1, <4>2 DEF ReplyInv
    <3>3. CASE q.bRequest # "GET_DESCRIPTOR"
      BY <1>2, <3>1, <3>3 DEF ProcessControlRequest
    <3>4. QED
      BY <3>2, <3>3
  <2>3. QED
    BY <2>1, <2>2
<1>7. CASE UNCHANGED vars
  BY <1>2, <1>7 DEF vars
<1>8. QED
  BY <1>3, <1>4, <1>5, <1>6, <1>7 DEF Next, Isr

\* Every GET_DESCRIPTOR the host sees answered gives it the descriptor it
\* asked for, parsable and sent whole, or a stall when the device has none,
\* through any interleaving of resets, setups and handlers, whenever the
\* device descriptor names exactly the strings CALLBACK_USB_GetDescriptor
\* serves (LUFA's ids: manufacturer 1, product 2, no serial string).
THEOREM DescriptorReplies ==
  ASSUME StringsServed
  PROVE  Spec => []DescriptorRepliesPerSpec
<1>1. ReplyInv => DescriptorRepliesPerSpec
  <2> SUFFICES ASSUME ReplyInv, hostDesc # NoReply
               PROVE  ReplyPerSpec(hostDesc.wValue, hostDesc.got)
    BY DEF DescriptorRepliesPerSpec
  <2>1. hostDesc.wValue \in Nat
    BY DEF ReplyInv, TypeOK, DescriptorRequests
  <2>2. hostDesc.got = CALLBACK_USB_GetDescriptor(hostDesc.wValue)
    BY DEF ReplyInv
  <2>3. QED
    BY <2>1, <2>2, CallbackPerSpec
<1>2. QED
  BY ReplyInvInit, ReplyInvStep, <1>1, PTL DEF Spec
====
