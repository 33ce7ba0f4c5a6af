---------------------------- MODULE MC_UsbDevice ----------------------------
(* Model-checking instance of UsbDevice: one configuration, NoSetup a model *)
(* value, and the two readings of the external USBDHAL_EnableInts mask.    *)
EXTENDS UsbDevice

\* The set the emlib HAL unmasks (sofInt callback NULL): no WKUPINT and no
\* RESETDET, which no code under src/ unmasks either.
EmlibIntMask == {"USBSUSP", "USBRST", "ENUMDONE", "IEPINT", "OEPINT"}

\* A HAL that also unmasks wakeup and reset-in-suspend, the events the
\* handler has code for.
WakeupIntMask == EmlibIntMask \cup {"WKUPINT", "RESETDET"}
====
