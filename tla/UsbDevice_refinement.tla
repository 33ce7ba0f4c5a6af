------------------------- MODULE UsbDevice_refinement -------------------------
(***************************************************************************)
(* The interrupt handler of UsbDevice implements the device state machine  *)
(* of spec section 4.4 (DeviceStateMachine) under the refinement mapping   *)
(* devState, addrSet, configNum |-> state, address, config, for every      *)
(* number of configurations, as long as the HAL leaves WKUPINT and         *)
(* RESETDET masked and VBUS does not drop and return before the handler    *)
(* runs.                                                                   *)
(***************************************************************************)
EXTENDS UsbDevice_proofs

USE VbusBouncesAssumption

(***************************************************************************)
(* The strengthening the refinement needs beyond AddressInv.  RESETDET     *)
(* never reaches the handler's status.  Once the VREGOSL of an unplug is   *)
(* served the device is Unattached, with every core interrupt masked and   *)
(* the handler idle.  A VREGOSH still flagged with VBUS present was raised *)
(* on an Unattached device and not yet served, and only between two       *)
(* invocations of the handler.                                             *)
(***************************************************************************)
RefInv ==
    /\ AddressInv
    /\ "RESETDET" \notin gintmsk
    /\ "RESETDET" \notin status
    /\ (bus = "Detached" /\ "L" \notin vregIF)
          => (devState = "Unattached" /\ gintmsk = {} /\ isr = "idle")
    /\ ("H" \in vregIF /\ Vbus) => devState = "Unattached"
    /\ "H" \in vregIF => isr = "idle"

\* The conditions under which the handler implements section 4.4: emlib's
\* interrupt set and a VBUS that is stable while an interrupt is pending.
NoBounceNoWakeup ==
    /\ "WKUPINT" \notin HalIntMask
    /\ "RESETDET" \notin HalIntMask
    /\ ~VbusBounces

-----------------------------------------------------------------------------
\* USB_Init leaves RESETDET masked; an unplugged cable comes with VREGOSL
\* flagged, a plugged one with VREGOSH on an Unattached device.
LEMMA RefInvInit == Init => RefInv
BY AddressInvInit, InitRegisters DEF RefInv, Vbus

\* The power facts of RefInv are kept by every step: only VbusOn flags
\* VREGOSH, on a device the handler has taken to Unattached; only the
\* handler's entry clears the VREGO flags; host steps happen with the
\* handler idle and change no device state.
LEMMA RefInvStep ==
  ASSUME NoBounceNoWakeup
  PROVE  RefInv /\ [Next]_vars => RefInv'
<1> SUFFICES ASSUME RefInv, [Next]_vars PROVE RefInv'
  OBVIOUS
<1>1. AddressInv'
  BY AddressInvStep DEF RefInv, NoBounceNoWakeup
<1>2. TypeOK
  BY DEF RefInv, AddressInv
<1> USE DEF RefInv, Vbus
<1>3. CASE Host
  <2>1. CASE VbusOn
    BY <1>1, <1>3, <2>1 DEF VbusOn, NoBounceNoWakeup, Host
  <2>2. CASE VbusOff
    BY <1>1, <1>3, <2>2 DEF VbusOff, Host
  <2>3. CASE HostReset \/ ResetEnd \/ BusIdle \/ HostResume \/ Sof
    BY <1>1, <1>3, <2>3 DEF HostReset, ResetEnd, BusIdle, HostResume, Sof,
                             ConnectSeen, Host
  <2>4. ASSUME NEW p \in SetupPackets, HostSetup(p)
        PROVE RefInv'
    BY <1>1, <1>3, <2>4 DEF HostSetup, Host
  <2>5. QED
    BY <1>3, <2>1, <2>2, <2>3, <2>4 DEF Host
<1>4. CASE USB_IRQHandler
  <2>1. "RESETDET" \notin gintmsk'
    BY <1>2, <1>4 DEF USB_IRQHandler, NoBounceNoWakeup, VregHigh, VregLow
  <2>2. "RESETDET" \notin status'
    BY <1>2, <1>4, <2>1 DEF USB_IRQHandler, Raised, LatchedInts
  <2>3. QED
    BY <1>1, <1>4, <2>1, <2>2 DEF USB_IRQHandler, VregHigh, VregLow
<1>5. CASE Handle_RESETDET \/ Handle_WKUPINT
  BY <1>5 DEF Handle_RESETDET, Handle_WKUPINT, Dispatched, AddressInv
<1>6. CASE Handle_USBSUSP \/ Handle_SOF \/ Handle_IEPINT
  BY <1>1, <1>6 DEF Handle_USBSUSP, Handle_SOF, Handle_IEPINT, Dispatched
<1>7. CASE Handle_ENUMDONE \/ Handle_USBRST
  BY <1>1, <1>7 DEF Handle_ENUMDONE, Handle_USBRST, Dispatched,
                     NoBounceNoWakeup
<1>8. CASE Handle_OEPINT
  BY <1>1, <1>8 DEF Handle_OEPINT, Dispatched, ProcessControlRequest
<1>9. CASE IsrExit
  BY <1>1, <1>9 DEF IsrExit
<1>10. CASE UNCHANGED vars
  BY <1>1, <1>10 DEF vars
<1>11. QED
  BY <1>3, <1>4, <1>5, <1>6, <1>7, <1>8, <1>9, <1>10 DEF Next, Isr

-----------------------------------------------------------------------------
\* USB_Init leaves the device as section 4.4 starts it.
LEMMA InitRefines == Init => DSM!AInit
BY InitRegisters DEF DSM!AInit

(***************************************************************************)
(* Every step is a step of section 4.4 or leaves devState, addrSet and     *)
(* configNum alone: the handler's entry is PowerAbsent or PowerPresent     *)
(* (RefInv gives the Unattached that PowerPresent requires), the suspend   *)
(* and reset handlers are Suspend and BusReset, the request processor is   *)
(* SetAddress or SetConfiguration, and the RESETDET and WKUPINT handlers   *)
(* never run.                                                              *)
(***************************************************************************)
LEMMA StepRefines ==
  RefInv /\ [Next]_vars => [DSM!ANext]_DSM!avars
<1> SUFFICES ASSUME RefInv, [Next]_vars PROVE [DSM!ANext]_DSM!avars
  OBVIOUS
<1>1. TypeOK
  BY DEF RefInv, AddressInv
<1> DEFINE Stutter == UNCHANGED <<devState, addrSet, configNum>>
<1>2. Stutter => [DSM!ANext]_DSM!avars
  BY DEF DSM!avars
<1>3. CASE Host
  <2>1. Stutter
    BY <1>3 DEF Host, VbusOn, VbusOff, HostReset, ResetEnd, BusIdle,
                HostResume, Sof, HostSetup
  <2>2. QED
    BY <1>2, <2>1
<1>4. CASE USB_IRQHandler
  <2>1. CASE VregLow
    BY <1>4, <2>1 DEF USB_IRQHandler, DSM!ANext, DSM!PowerAbsent
  <2>2. CASE ~VregLow /\ VregHigh
    <3>1. devState = "Unattached"
      BY <2>2 DEF RefInv, VregHigh
    <3>2. QED
      BY <1>4, <2>2, <3>1 DEF USB_IRQHandler, DSM!ANext, DSM!PowerPresent
  <2>3. CASE ~VregLow /\ ~VregHigh
    BY <1>2, <1>4, <2>3 DEF USB_IRQHandler
  <2>4. QED
    BY <2>1, <2>2, <2>3
<1>5. CASE Handle_RESETDET \/ Handle_WKUPINT
  BY <1>5 DEF Handle_RESETDET, Handle_WKUPINT, Dispatched, RefInv, AddressInv
<1>6. CASE Handle_USBSUSP
  BY <1>6 DEF Handle_USBSUSP, Dispatched, DSM!ANext, DSM!Suspend
<1>7. CASE Handle_USBRST
  BY <1>7 DEF Handle_USBRST, Dispatched, DSM!ANext, DSM!BusReset
<1>8. CASE Handle_SOF \/ Handle_ENUMDONE \/ Handle_IEPINT \/ IsrExit
  BY <1>2, <1>8 DEF Handle_SOF, Handle_ENUMDONE, Handle_IEPINT, IsrExit,
                     Dispatched
<1>9. CASE Handle_OEPINT
  <2>1. CASE doep0Setup = NoSetup
    BY <1>2, <1>9, <2>1 DEF Handle_OEPINT
  <2>2. CASE doep0Setup # NoSetup
    <3> DEFINE q == doep0Setup
    <3>1. q \in SetupPackets /\ ProcessControlRequest(q)
      BY <1>1, <1>9, <2>2 DEF Handle_OEPINT, TypeOK
    <3>2. CASE q.bRequest = "SET_ADDRESS"
      BY <3>1, <3>2 DEF ProcessControlRequest, DSM!ANext, DSM!SetAddress
    <3>3. CASE q.bRequest = "SET_CONFIGURATION" /\ q.wValue <= NumConfigurations
      <4>1. q.wValue \in 0 .. NumConfigurations
        BY <3>1, <3>3 DEF SetupPackets
      <4>2. DSM!SetConfiguration(q.wValue)
        BY <3>1, <3>3 DEF ProcessControlRequest, DSM!SetConfiguration
      <4>3. QED
        BY <4>1, <4>2 DEF DSM!ANext
    <3>4. CASE q.bRequest = "GET_DESCRIPTOR"
      BY <1>2, <3>1, <3>4 DEF ProcessControlRequest
    <3>5. CASE ~(q.bRequest = "SET_ADDRESS")
               /\ ~(q.bRequest = "SET_CONFIGURATION" /\ q.wValue <= NumConfigurations)
               /\ ~(q.bRequest = "GET_DESCRIPTOR")
      BY <1>2, <3>1, <3>5 DEF ProcessControlRequest
    <3>6. QED
      BY <3>2, <3>3, <3>4, <3>5
  <2>3. QED
    BY <2>1, <2>2
<1>10. CASE UNCHANGED vars
  BY <1>2, <1>10 DEF vars
<1>11. QED
  BY <1>3, <1>4, <1>5, <1>6, <1>7, <1>8, <1>9, <1>10 DEF Next, Isr

\* Spec section 4.4 for this driver: with emlib's interrupt set and a VBUS
\* that does not bounce under a pending interrupt, USB_IRQHandler, its
\* handlers and the request processor implement the device state machine.
THEOREM Refinement ==
  ASSUME NoBounceNoWakeup
  PROVE  Spec => DeviceStateRefinement
<1>1. Spec => []RefInv
  BY RefInvInit, RefInvStep, PTL DEF Spec
<1>2. QED
  BY <1>1, InitRefines, StepRefines, PTL DEF Spec, DeviceStateRefinement,
     DSM!ASpec
====
