------------------------------ MODULE UsbDevice ------------------------------
(***************************************************************************)
(* The device-mode USB controller driver of the EFM32GG port of LUFA: the  *)
(* top-level interrupt handler USB_IRQHandler with its per-event handlers  *)
(* (USBInterrupt_EFM32GG.c), the device state they keep, and the host and  *)
(* bus that raise the events.  The state is the one USB_Init leaves        *)
(* (USBController_EFM32GG.c); the control-request processor the OUT-       *)
(* endpoint handler calls is modelled at its interface.                    *)
(*                                                                         *)
(* The handler is split into its entry (power events and the one read of   *)
(* the interrupt status), one step per HANDLE_INT and the exit; the host   *)
(* and the bus act between two invocations.                                *)
(***************************************************************************)
EXTENDS Naturals, FiniteSets, Sequences, Descriptors

CONSTANTS
    HalIntMask,         \* the core interrupts USBDHAL_EnableInts unmasks
    NoSetup,            \* no SETUP packet received
    NoReply,            \* no descriptor received
    VbusBounces         \* VBUS may drop and return before the handler runs

\* The core interrupt bits the handler dispatches on (GINTSTS); IEPINT and
\* OEPINT summarise the per-endpoint flags, the others are latched by the core.
CoreInts == {"RESETDET", "WKUPINT", "USBSUSP", "SOF", "ENUMDONE", "USBRST",
             "IEPINT", "OEPINT"}
LatchedInts == CoreInts \ {"IEPINT", "OEPINT"}

\* The HANDLE_INT order of USB_IRQHandler, as a rank.
Rank == [x \in CoreInts |->
            CASE x = "RESETDET" -> 1 [] x = "WKUPINT" -> 2 [] x = "USBSUSP" -> 3
              [] x = "SOF" -> 4 [] x = "ENUMDONE" -> 5 [] x = "USBRST" -> 6
              [] x = "IEPINT" -> 7 [] x = "OEPINT" -> 8]

DeviceStates == {"Unattached", "Powered", "Default", "Addressed",
                 "Configured", "Suspended"}

\* Bus as the device's port sees it: no VBUS, powered before the first reset,
\* in reset, active (SOFs), idle for more than 3 ms.
BusStates == {"Detached", "Attached", "Reset", "Active", "Suspended"}

\* The descriptors a host asks for while it enumerates: the device, the
\* configuration, the language table and strings 1 to 3, and the device
\* qualifier a full-speed device has not got (type in the high byte).
DescriptorRequests == {256, 512, 768, 769, 770, 771, 1536}

\* The SETUP packets the model distinguishes: the two standard requests that
\* change the device state (the configuration value may be out of range),
\* GET_DESCRIPTOR and any CDC class request.
SetupPackets ==
    [bRequest : {"SET_ADDRESS", "CLASS"}, wValue : {1}]
      \cup [bRequest : {"SET_CONFIGURATION"}, wValue : 0 .. NumConfigurations + 1]
      \cup [bRequest : {"GET_DESCRIPTOR"}, wValue : DescriptorRequests]

ASSUME HalAssumption ==
    /\ HalIntMask \subseteq CoreInts
    /\ {"USBRST", "OEPINT"} \subseteq HalIntMask
ASSUME NumConfigurationsAssumption == NumConfigurations \in Nat \ {0}
ASSUME NoSetupAssumption == NoSetup \notin SetupPackets
ASSUME VbusBouncesAssumption == VbusBounces \in BOOLEAN

VARIABLES
    devState,    \* USB_DeviceState
    configNum,   \* USB_Device_ConfigurationNumber
    addrSet,     \* DCFG.DEVADDR # 0 (USB_Device_IsAddressSet)
    gintsts,     \* latched bits of GINTSTS
    gintmsk,     \* GINTMSK
    doep0Setup,  \* the SETUP flag of DOEP0INT with the packet it stands for
    diepInt,     \* some DIEPx.INT flag is set (a control IN stage completed)
    ep0Armed,    \* DOEP0CTL.EPENA: EP0 can take a SETUP packet
    vregIF,      \* pending USB->IF flags: "H" = VREGOSH, "L" = VREGOSL
    bus,         \* the bus, driven by the host
    hostAddr,    \* the host has addressed the device since its last reset
    hostCtl,     \* the control transfer the host is waiting on, or NoSetup
    hostDesc,    \* the last GET_DESCRIPTOR the host completed, or NoReply
    isr,         \* where USB_IRQHandler is: "idle" or "dispatch"
    status       \* its local copy of the interrupt status

vars == <<devState, configNum, addrSet, gintsts, gintmsk, doep0Setup, diepInt,
          ep0Armed, vregIF, bus, hostAddr, hostCtl, hostDesc, isr, status>>

\* USB->STATUS.VREGOS: the regulator senses VBUS.
Vbus == bus # "Detached"

\* The core interrupts raised now: the latched bits and the summaries of the
\* endpoint flags.
Raised == gintsts \cup (IF doep0Setup # NoSetup THEN {"OEPINT"} ELSE {})
                  \cup (IF diepInt THEN {"IEPINT"} ELSE {})

\* The USB interrupt line: an unmasked core interrupt or a VREGO flag (both
\* VREGO flags are enabled in USB->IEN from USB_Init on).
IrqPending == (Raised \cap gintmsk # {}) \/ vregIF # {}

(***************************************************************************)
(* The interrupt registers USB_Init writes, as a record: GINTMSK, GINTSTS, *)
(* EP0's SETUP flag and the IN flags, and the VREGO bits of USB->IF and    *)
(* USB->IEN ("H" for VREGOSH, "L" for VREGOSL).                            *)
(***************************************************************************)

\* USB_INT_DisableAllInterrupts: every device interrupt mask is zeroed.
USB_INT_DisableAllInterrupts(r) == [r EXCEPT !.gintmsk = {}]

\* USB_INT_ClearAllInterrupts: the flags of every endpoint and GINTSTS are
\* written with ones, which clears them.
USB_INT_ClearAllInterrupts(r) ==
    [r EXCEPT !.gintsts = {}, !.doep0Setup = NoSetup, !.diepInt = FALSE]

\* USB_INT_Enable: a core interrupt is unmasked in GINTMSK; a VREGO
\* interrupt has its flag cleared in USB->IFC and is enabled in USB->IEN.
USB_INT_Enable(r, i) ==
    IF i \in CoreInts THEN [r EXCEPT !.gintmsk = @ \cup {i}]
    ELSE [r EXCEPT !.vregIF = @ \ {i}, !.ien = @ \cup {i}]

\* USB_Disable and USB_ResetInterface both disable and clear everything.
Quiesce(r) == USB_INT_ClearAllInterrupts(USB_INT_DisableAllInterrupts(r))

\* USB_Init_Device: the VREGO interrupts are enabled, the one matching
\* STATUS.VREGOS is forced through USB->IFS, then suspend and SOF are
\* unmasked.
VregoForced(r) == [r EXCEPT !.vregIF = @ \cup {IF Vbus THEN "H" ELSE "L"}]
InitDevice(r) ==
    LET vrego == VregoForced(USB_INT_Enable(USB_INT_Enable(r, "H"), "L"))
    IN  USB_INT_Enable(USB_INT_Enable(vrego, "USBSUSP"), "SOF")

\* The registers before USB_Init: whatever the boot left latched or masked.
PriorRegs ==
    [gintmsk : SUBSET CoreInts, gintsts : SUBSET LatchedInts,
     doep0Setup : {NoSetup}, diepInt : BOOLEAN, vregIF : SUBSET {"H", "L"},
     ien : {{}}]

\* The variables agree with the register record r; the rest of the state is
\* USB_Init_Device's: Unattached, configuration 0, no address, EP0 not yet
\* armed, and the handler idle.
InitState(r) ==
    /\ gintmsk = r.gintmsk
    /\ gintsts = r.gintsts
    /\ doep0Setup = r.doep0Setup
    /\ diepInt = r.diepInt
    /\ vregIF = r.vregIF
    /\ devState = "Unattached"
    /\ configNum = 0
    /\ addrSet = FALSE
    /\ ep0Armed = FALSE
    /\ hostAddr = FALSE
    /\ hostCtl = NoSetup
    /\ hostDesc = NoReply
    /\ isr = "idle"
    /\ status = {}

\* Mutant: USB_Init_Device does not force the VREGO interrupt of the
\* present VBUS level.
Init_NoForce ==
    /\ bus \in {"Detached", "Attached"}
    /\ \E r \in PriorRegs :
          InitState(USB_INT_Enable(USB_INT_Enable(
             USB_INT_Enable(USB_INT_Enable(Quiesce(Quiesce(r)), "H"), "L"),
             "USBSUSP"), "SOF"))

(***************************************************************************)
(* The state USB_Init(EndpointDescriptors) leaves: USB_Disable, then       *)
(* USB_ResetInterface, then USB_Init_Device, with the cable in or out.     *)
(***************************************************************************)
Init ==
    /\ bus \in {"Detached", "Attached"}
    /\ \E r \in PriorRegs : InitState(InitDevice(Quiesce(Quiesce(r))))

-----------------------------------------------------------------------------
(* The host and the bus.                                                   *)

\* The cable is plugged in: VREGOS rises and VREGOSH is flagged.  Unless
\* VBUS bounces, the handler has served the VREGOSL of the unplug first.
VbusOn ==
    /\ bus = "Detached"
    /\ VbusBounces \/ "L" \notin vregIF
    /\ bus' = "Attached"
    /\ vregIF' = vregIF \cup {"H"}
    /\ UNCHANGED <<devState, configNum, addrSet, gintsts, gintmsk, doep0Setup,
                   diepInt, ep0Armed, hostAddr, hostCtl, hostDesc, isr, status>>

\* The cable is pulled: VREGOS falls and VREGOSL is flagged; the host forgets
\* the device.
VbusOff ==
    /\ bus # "Detached"
    /\ bus' = "Detached"
    /\ vregIF' = vregIF \cup {"L"}
    /\ hostAddr' = FALSE
    /\ hostCtl' = NoSetup
    /\ UNCHANGED <<devState, configNum, addrSet, gintsts, gintmsk, doep0Setup,
                   diepInt, ep0Armed, hostDesc, isr, status>>

\* The device has served the connect: the host waits 100 ms after a connect
\* before it resets, and the bus is idle 3 ms before a suspend, while the
\* handler serves the VREGO flag first on entry.
ConnectSeen == "H" \notin vregIF

\* The host drives a bus reset: USBRST is latched, and RESETDET too when the
\* port was suspended.
HostReset ==
    /\ bus \in {"Attached", "Active", "Suspended"}
    /\ ConnectSeen
    /\ bus' = "Reset"
    /\ gintsts' = gintsts \cup {"USBRST"}
                          \cup (IF bus = "Suspended" THEN {"RESETDET"} ELSE {})
    /\ hostAddr' = FALSE
    /\ hostCtl' = NoSetup
    /\ UNCHANGED <<devState, configNum, addrSet, gintmsk, doep0Setup, diepInt,
                   ep0Armed, vregIF, hostDesc, isr, status>>

\* The reset ends and the port speed is enumerated: ENUMDONE is latched.
ResetEnd ==
    /\ bus = "Reset"
    /\ bus' = "Active"
    /\ gintsts' = gintsts \cup {"ENUMDONE"}
    /\ UNCHANGED <<devState, configNum, addrSet, gintmsk, doep0Setup, diepInt,
                   ep0Armed, vregIF, hostAddr, hostCtl, hostDesc, isr, status>>

\* The bus stays idle for 3 ms: USBSUSP is latched.
BusIdle ==
    /\ bus \in {"Attached", "Active"}
    /\ ConnectSeen
    /\ bus' = "Suspended"
    /\ gintsts' = gintsts \cup {"USBSUSP"}
    /\ UNCHANGED <<devState, configNum, addrSet, gintmsk, doep0Setup, diepInt,
                   ep0Armed, vregIF, hostAddr, hostCtl, hostDesc, isr, status>>

\* The host resumes the bus: WKUPINT is latched.
HostResume ==
    /\ bus = "Suspended"
    /\ bus' = "Active"
    /\ gintsts' = gintsts \cup {"WKUPINT"}
    /\ UNCHANGED <<devState, configNum, addrSet, gintmsk, doep0Setup, diepInt,
                   ep0Armed, vregIF, hostAddr, hostCtl, hostDesc, isr, status>>

\* A start of frame: SOF is latched.
Sof ==
    /\ bus = "Active"
    /\ gintsts' = gintsts \cup {"SOF"}
    /\ UNCHANGED <<devState, configNum, addrSet, gintmsk, doep0Setup, diepInt,
                   ep0Armed, vregIF, bus, hostAddr, hostCtl, hostDesc, isr, status>>

\* The requests a host that follows chapter 9 sends: descriptors at any
\* time (the device descriptor first, at address 0), an address once, then
\* configuration and class requests.
HostMaySend(p) ==
    CASE p.bRequest = "SET_ADDRESS"    -> ~hostAddr
      [] p.bRequest = "GET_DESCRIPTOR" -> TRUE
      [] OTHER                         -> hostAddr

\* The host starts a control transfer; the SETUP stage lands in EP0, which
\* the hardware disarms.  The core only takes packets sent to the address in
\* DCFG, the one the host believes the device has.
HostSetup(p) ==
    /\ bus = "Active"
    /\ addrSet = hostAddr
    /\ ep0Armed
    /\ doep0Setup = NoSetup
    /\ hostCtl = NoSetup
    /\ HostMaySend(p)
    /\ doep0Setup' = p
    /\ ep0Armed' = FALSE
    /\ hostCtl' = p
    /\ UNCHANGED <<devState, configNum, addrSet, gintsts, gintmsk, diepInt,
                   vregIF, bus, hostAddr, hostDesc, isr, status>>

\* Resets and reset recovery last 10 ms, suspend takes 3 ms of idle: the bus
\* changes between two invocations of the handler, never within the few
\* microseconds it takes to dispatch.  What the host does while the handler
\* is blocked (in a long control transfer) happens before its next entry.
Host ==
    /\ isr = "idle"
    /\ \/ VbusOn \/ VbusOff \/ HostReset \/ ResetEnd \/ BusIdle \/ HostResume
       \/ Sof \/ \E p \in SetupPackets : HostSetup(p)

-----------------------------------------------------------------------------
(* USB_IRQHandler.                                                         *)

\* Lines 77-84: VREGOSH flagged and STATUS still shows VBUS.
VregHigh == "H" \in vregIF /\ Vbus
\* Mutant: VREGOSL acted on without re-reading STATUS.VREGOS.
VregLowNoRecheck == "L" \in vregIF

\* Lines 85-92: VREGOSL flagged and STATUS still shows no VBUS.
VregLow == "L" \in vregIF /\ ~Vbus

(***************************************************************************)
(* Entry, lines 75-102.  The VREGO flags are cleared and acted on only     *)
(* when STATUS confirms them, VREGOSH first and VREGOSL after it (its      *)
(* writes are the last): power present unmasks reset and suspend           *)
(* (USBDHAL_EnableUsbResetAndSuspendInt clears GINTSTS and sets GINTMSK),  *)
(* power absent masks everything.  Then USBHAL_GetCoreInts reads GINTSTS   *)
(* under GINTMSK once and acknowledges what it read; nothing unmasked      *)
(* means EP0 is re-armed and the handler returns.                          *)
(***************************************************************************)
USB_IRQHandler ==
    /\ isr = "idle"
    /\ IrqPending
    /\ LET msk == IF VregLow THEN {}
                  ELSE IF VregHigh THEN {"USBRST", "USBSUSP"} ELSE gintmsk
           sts == IF VregHigh \/ VregLow THEN {} ELSE gintsts
           st  == (sts \cup (Raised \ LatchedInts)) \cap msk
       IN  /\ devState' = IF VregLow THEN "Unattached"
                          ELSE IF VregHigh THEN "Powered" ELSE devState
           /\ gintmsk' = msk
           /\ gintsts' = sts \ st
           /\ vregIF' = {}
           /\ status' = st
           /\ IF st = {} THEN ep0Armed' = TRUE /\ isr' = "idle"
                         ELSE isr' = "dispatch" /\ UNCHANGED ep0Armed
    /\ UNCHANGED <<configNum, addrSet, doep0Setup, diepInt, bus, hostAddr,
                   hostCtl, hostDesc>>

\* HANDLE_INT(x): x is the first raised bit in the dispatch order; it is
\* handled and taken out of the local status.
Dispatched(x) ==
    /\ isr = "dispatch"
    /\ x \in status
    /\ \A y \in status : Rank[x] <= Rank[y]
    /\ status' = status \ {x}
    /\ UNCHANGED <<vregIF, bus, isr>>

\* Reset detected while suspended: back to Default.
Handle_RESETDET ==
    /\ Dispatched("RESETDET")
    /\ gintsts' = gintsts \ {"RESETDET"}
    /\ devState' = "Default"
    /\ UNCHANGED <<configNum, addrSet, gintmsk, doep0Setup, diepInt, ep0Armed,
                   hostAddr, hostCtl, hostDesc>>

\* Wakeup: restore the state from the configuration number and address.
Handle_WKUPINT ==
    /\ Dispatched("WKUPINT")
    /\ gintsts' = gintsts \ {"WKUPINT"}
    /\ devState' = IF configNum # 0 THEN "Configured"
                   ELSE IF addrSet THEN "Addressed" ELSE "Powered"
    /\ UNCHANGED <<configNum, addrSet, gintmsk, doep0Setup, diepInt, ep0Armed,
                   hostAddr, hostCtl, hostDesc>>

\* Suspend: the state becomes Suspended whatever it was.
Handle_USBSUSP ==
    /\ Dispatched("USBSUSP")
    /\ gintsts' = gintsts \ {"USBSUSP"}
    /\ devState' = "Suspended"
    /\ UNCHANGED <<configNum, addrSet, gintmsk, doep0Setup, diepInt, ep0Armed,
                   hostAddr, hostCtl, hostDesc>>

\* Start of frame: acknowledged; the sofInt callback is NULL.
Handle_SOF ==
    /\ Dispatched("SOF")
    /\ gintsts' = gintsts \ {"SOF"}
    /\ UNCHANGED <<devState, configNum, addrSet, gintmsk, doep0Setup, diepInt,
                   ep0Armed, hostAddr, hostCtl, hostDesc>>

\* Mutant: speed enumeration treated as entering Default.
Handle_ENUMDONE_EnterDefault ==
    /\ Dispatched("ENUMDONE")
    /\ gintsts' = gintsts \ {"ENUMDONE"}
    /\ gintmsk' = HalIntMask
    /\ devState' = "Default"
    /\ UNCHANGED <<configNum, addrSet, doep0Setup, diepInt, ep0Armed,
                   hostAddr, hostCtl, hostDesc>>

\* Speed enumeration done: acknowledge and USBDHAL_EnableInts.
Handle_ENUMDONE ==
    /\ Dispatched("ENUMDONE")
    /\ gintsts' = gintsts \ {"ENUMDONE"}
    /\ gintmsk' = HalIntMask
    /\ UNCHANGED <<devState, configNum, addrSet, doep0Setup, diepInt, ep0Armed,
                   hostAddr, hostCtl, hostDesc>>

\* Mutant: the reset handler does not enter Default.
Handle_USBRST_KeepState ==
    /\ Dispatched("USBRST")
    /\ doep0Setup' = NoSetup
    /\ diepInt' = FALSE
    /\ addrSet' = FALSE
    /\ ep0Armed' = TRUE
    /\ gintmsk' = HalIntMask \cup {"SOF"}
    /\ UNCHANGED <<devState, configNum, gintsts, hostAddr, hostCtl, hostDesc>>

\* Mutant: the reset handler does not clear the device address.
Handle_USBRST_KeepAddress ==
    /\ Dispatched("USBRST")
    /\ doep0Setup' = NoSetup
    /\ diepInt' = FALSE
    /\ ep0Armed' = TRUE
    /\ gintmsk' = HalIntMask \cup {"SOF"}
    /\ devState' = "Default"
    /\ UNCHANGED <<configNum, addrSet, gintsts, hostAddr, hostCtl, hostDesc>>

\* Bus reset: clear every endpoint flag, reset the address, arm EP0 for a
\* SETUP, unmask the HAL set and SOF, and enter Default.  The configuration
\* number is left as it was.
Handle_USBRST ==
    /\ Dispatched("USBRST")
    /\ doep0Setup' = NoSetup
    /\ diepInt' = FALSE
    /\ addrSet' = FALSE
    /\ ep0Armed' = TRUE
    /\ gintmsk' = HalIntMask \cup {"SOF"}
    /\ devState' = "Default"
    /\ UNCHANGED <<configNum, gintsts, hostAddr, hostCtl, hostDesc>>

\* IN endpoint interrupt: USBDHAL_GetInEpInts reads and clears the flags.
Handle_IEPINT ==
    /\ Dispatched("IEPINT")
    /\ diepInt' = FALSE
    /\ UNCHANGED <<devState, configNum, addrSet, gintsts, gintmsk, doep0Setup,
                   ep0Armed, hostAddr, hostCtl, hostDesc>>

\* What the host takes away from a GET_DESCRIPTOR: the callback's answer.
Replies == {CALLBACK_USB_GetDescriptor(w) : w \in DescriptorRequests}

\* LUFA's GET_DESCRIPTOR: the callback's descriptor is sent, or the request
\* is stalled when it returns NO_DESCRIPTOR; a host still waiting on the
\* transfer records what it got.
GetDescriptorRequest(p) ==
    LET d == CALLBACK_USB_GetDescriptor(p.wValue)
    IN  /\ hostDesc' = IF hostCtl = p THEN [wValue |-> p.wValue, got |-> d]
                       ELSE hostDesc
        /\ diepInt' = (diepInt \/ d.size # NO_DESCRIPTOR)

\* Mutant: SET_CONFIGURATION accepted whatever its value.
ProcessControlRequest_NoRangeCheck(p) ==
    /\ hostCtl' = NoSetup
    /\ CASE p.bRequest = "SET_ADDRESS" ->
              /\ addrSet' = TRUE
              /\ devState' = "Addressed"
              /\ hostAddr' = (hostAddr \/ hostCtl = p)
              /\ diepInt' = TRUE
              /\ UNCHANGED <<configNum, hostDesc>>
         [] p.bRequest = "SET_CONFIGURATION" ->
              /\ configNum' = p.wValue
              /\ devState' = IF p.wValue # 0 THEN "Configured"
                             ELSE IF addrSet THEN "Addressed" ELSE "Powered"
              /\ diepInt' = TRUE
              /\ UNCHANGED <<addrSet, hostAddr, hostDesc>>
         [] p.bRequest = "GET_DESCRIPTOR" ->
              /\ GetDescriptorRequest(p)
              /\ UNCHANGED <<devState, configNum, addrSet, hostAddr>>
         [] OTHER ->
              /\ diepInt' = TRUE
              /\ UNCHANGED <<devState, configNum, addrSet, hostAddr, hostDesc>>

(***************************************************************************)
(* USB_Device_ProcessControlRequest on SETUP packet p, at its interface:   *)
(* the class handler EVENT_USB_Device_ControlRequest first, then the       *)
(* standard SET_ADDRESS, SET_CONFIGURATION (a value above the number of    *)
(* configurations is stalled) and GET_DESCRIPTOR.  The host's transfer     *)
(* ends and a control IN stage raises an EP0 IN flag; a host that reset    *)
(* the bus meanwhile has abandoned the transfer and learns nothing.        *)
(***************************************************************************)
ProcessControlRequest(p) ==
    /\ hostCtl' = NoSetup
    /\ CASE p.bRequest = "SET_ADDRESS" ->
              /\ addrSet' = TRUE
              /\ devState' = "Addressed"
              /\ hostAddr' = (hostAddr \/ hostCtl = p)
              /\ diepInt' = TRUE
              /\ UNCHANGED <<configNum, hostDesc>>
         [] p.bRequest = "SET_CONFIGURATION" /\ p.wValue <= NumConfigurations ->
              /\ configNum' = p.wValue
              /\ devState' = IF p.wValue # 0 THEN "Configured"
                             ELSE IF addrSet THEN "Addressed" ELSE "Powered"
              /\ diepInt' = TRUE
              /\ UNCHANGED <<addrSet, hostAddr, hostDesc>>
         [] p.bRequest = "GET_DESCRIPTOR" ->
              /\ GetDescriptorRequest(p)
              /\ UNCHANGED <<devState, configNum, addrSet, hostAddr>>
         [] OTHER ->
              /\ diepInt' = TRUE
              /\ UNCHANGED <<devState, configNum, addrSet, hostAddr, hostDesc>>

\* OUT endpoint interrupt: USBDHAL_GetOutEpInts reads and clears EP0's
\* flags; a SETUP flag hands the packet to the control-request processor,
\* with the control endpoint selected and the selection restored after.
Handle_OEPINT ==
    /\ Dispatched("OEPINT")
    /\ doep0Setup' = NoSetup
    /\ IF doep0Setup # NoSetup
         THEN ProcessControlRequest(doep0Setup)
         ELSE UNCHANGED <<devState, configNum, addrSet, diepInt, hostAddr,
                          hostCtl, hostDesc>>
    /\ UNCHANGED <<gintsts, gintmsk, ep0Armed>>

\* Exit, lines 113-114: re-arm EP0 and return.
IsrExit ==
    /\ isr = "dispatch"
    /\ status = {}
    /\ ep0Armed' = TRUE
    /\ isr' = "idle"
    /\ UNCHANGED <<devState, configNum, addrSet, gintsts, gintmsk, doep0Setup,
                   diepInt, vregIF, bus, hostAddr, hostCtl, hostDesc, status>>

Isr ==
    \/ USB_IRQHandler
    \/ Handle_RESETDET \/ Handle_WKUPINT \/ Handle_USBSUSP \/ Handle_SOF
    \/ Handle_ENUMDONE \/ Handle_USBRST \/ Handle_IEPINT \/ Handle_OEPINT
    \/ IsrExit

Next == Host \/ Isr

\* The NVIC takes a pending USB interrupt as soon as the foreground leaves
\* its short critical sections, and the handler runs to its end: the
\* handler is weakly fair.  The host and the bus are not.
Spec == Init /\ [][Next]_vars /\ WF_vars(Isr)

-----------------------------------------------------------------------------
(* Properties.                                                             *)

TypeOK ==
    /\ devState \in DeviceStates
    /\ configNum \in 0 .. NumConfigurations
    /\ addrSet \in BOOLEAN
    /\ gintsts \subseteq LatchedInts
    /\ gintmsk \subseteq CoreInts
    /\ doep0Setup \in SetupPackets \cup {NoSetup}
    /\ diepInt \in BOOLEAN
    /\ ep0Armed \in BOOLEAN
    /\ vregIF \subseteq {"H", "L"}
    /\ bus \in BusStates
    /\ hostAddr \in BOOLEAN
    /\ hostCtl \in SetupPackets \cup {NoSetup}
    /\ hostDesc \in {NoReply} \cup [wValue : DescriptorRequests, got : Replies]
    /\ isr \in {"idle", "dispatch"}
    /\ status \subseteq CoreInts

\* USB 2.0 9.1.1: a configured device has an address.  It is about
\* Handle_USBRST, which clears the address, and Handle_WKUPINT, which
\* restores Configured from USB_Device_ConfigurationNumber.
ConfiguredImpliesAddressed == devState = "Configured" => addrSet

\* Once the handler has served the last VREGO flag, the device state agrees
\* with VBUS: Unattached exactly when no VBUS.  It is about the STATUS re-
\* checks of lines 80 and 87, the order VREGOSH before VREGOSL, and the
\* VREGO interrupt USB_Init_Device forces at the end of initialisation.
PowerStateAgrees ==
    (isr = "idle" /\ vregIF = {}) => (Vbus <=> devState # "Unattached")

\* A bus reset is honoured: the device ends up in Default with address 0,
\* unless VBUS goes away.  It is about the interrupt masks set by the power
\* handler, ENUMDONE and USBRST, and the acknowledge in USBHAL_GetCoreInts.
BusResetHonoured ==
    bus = "Reset" ~> ((devState = "Default" /\ ~addrSet) \/ bus = "Detached")

\* Spec section 4.4: on wakeup the device leaves Suspended.  Once the host
\* has resumed the bus and keeps it active, the device does not stay
\* Suspended; it is about the WKUPINT mask and the HANDLE_INT order.
ResumeLeavesSuspended ==
    (bus = "Active" /\ devState = "Suspended")
        ~> (devState # "Suspended" \/ bus # "Active")

\* USB 2.0 9.4.3 and spec section 6: every GET_DESCRIPTOR the host sees
\* answered gives it a descriptor it can parse, of the type it asked for and
\* sent whole, and a request is stalled only when the device has no such
\* descriptor (a string the device descriptor names is always served).  It
\* is about CALLBACK_USB_GetDescriptor's switch and sizes and the lengths
\* written in Descriptors.c, through the request processor and bus resets.
DescriptorRepliesPerSpec ==
    hostDesc # NoReply => ReplyPerSpec(hostDesc.wValue, hostDesc.got)

\* The device state tracker of spec section 4.4, seen through USB_DeviceState,
\* DCFG.DEVADDR and USB_Device_ConfigurationNumber.
DSM == INSTANCE DeviceStateMachine
           WITH state <- devState, address <- addrSet, config <- configNum

\* Spec section 4.4: the register-level handler implements the event-driven
\* state machine: every step of USB_IRQHandler, its handlers and the request
\* processor is one transition of section 4.4 or leaves the state, address
\* and configuration alone.  It is about the VREGO block (Powered only from
\* Unattached), the masks that keep RESETDET and WKUPINT out, and the reset
\* handler clearing the address.
DeviceStateRefinement == DSM!ASpec
====
