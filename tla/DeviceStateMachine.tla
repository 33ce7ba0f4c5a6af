-------------------------- MODULE DeviceStateMachine --------------------------
(***************************************************************************)
(* The device state tracker as spec section 4.4 describes it: a Mealy      *)
(* machine over the six chapter-9 states, driven by one bus event at a     *)
(* time, with the device address and the selected configuration it        *)
(* consults on wakeup.  The address and configuration changes come from    *)
(* the standard requests SET_ADDRESS and SET_CONFIGURATION (section 6, the *)
(* control-request processor).  This is what the interrupt handler of      *)
(* UsbDevice promises; it knows nothing of registers, masks or dispatch.   *)
(***************************************************************************)
EXTENDS Naturals

CONSTANT NumConfigurations

VARIABLES
    state,     \* the DeviceState singleton
    address,   \* a device address has been assigned
    config     \* the selected configuration, 0 for none

avars == <<state, address, config>>

AInit ==
    /\ state = "Unattached"
    /\ address = FALSE
    /\ config = 0

\* Power-present interrupt: Powered, only from Unattached.
PowerPresent ==
    /\ state = "Unattached"
    /\ state' = "Powered"
    /\ UNCHANGED <<address, config>>

\* Power-absent interrupt: Unattached unconditionally.
PowerAbsent ==
    /\ state' = "Unattached"
    /\ UNCHANGED <<address, config>>

\* USB reset detected while suspended: Default.
ResetDetected ==
    /\ state = "Suspended"
    /\ state' = "Default"
    /\ UNCHANGED <<address, config>>

\* Bus reset: Default unconditionally, the address cleared.
BusReset ==
    /\ state' = "Default"
    /\ address' = FALSE
    /\ UNCHANGED config

\* Suspend: Suspended unconditionally.
Suspend ==
    /\ state' = "Suspended"
    /\ UNCHANGED <<address, config>>

\* Wakeup: Configured if a configuration is selected, else Addressed if an
\* address is assigned, else Powered.
Wakeup ==
    /\ state' = IF config # 0 THEN "Configured"
                ELSE IF address THEN "Addressed" ELSE "Powered"
    /\ UNCHANGED <<address, config>>

\* SET_ADDRESS.
SetAddress ==
    /\ address' = TRUE
    /\ state' = "Addressed"
    /\ UNCHANGED config

\* SET_CONFIGURATION n, for a configuration that exists or 0.
SetConfiguration(n) ==
    /\ config' = n
    /\ state' = IF n # 0 THEN "Configured"
                ELSE IF address THEN "Addressed" ELSE "Powered"
    /\ UNCHANGED address

ANext ==
    \/ PowerPresent \/ PowerAbsent \/ ResetDetected \/ BusReset \/ Suspend
    \/ Wakeup \/ SetAddress
    \/ \E n \in 0 .. NumConfigurations : SetConfiguration(n)

ASpec == AInit /\ [][ANext]_avars
====
