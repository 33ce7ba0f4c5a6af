# TLA+ models of the EFM32GG LUFA virtual serial port

This directory holds the formal models of the firmware under `src/`. The firmware is the LUFA USB device core ported to the EFM32 Giant Gecko DWC-OTG controller, plus the CDC "VCP" demo that bridges a USB virtual serial port to USART1 on the STK3700. The project has three kinds of artefact:

- models written from the C source, in TLA+;
- TLC configurations that check them on small instances;
- TLAPS proofs that hold for every value of the constants.

`PROJECT.json` lists the components, runs, mutants, the source lines each definition models, the findings, the hazards and the theorems.

## The system and how its parts interact

| Part | Source | Runs in |
|---|---|---|
| Controller bring-up: `USB_Init`, `USB_Disable`, `USB_ResetInterface`, `USB_Init_Device` | `USBController_EFM32GG.c` | `main` |
| FIFO allocator `USB_Fifo_Init` | `USBController_EFM32GG.c` | `main`, once |
| Interrupt dispatcher `USB_IRQHandler` and the eight `Handle_USB_GINTSTS_*` handlers | `src/src/.../USBInterrupt_EFM32GG.c` | USB interrupt |
| CDC application: `VCOM_Bridge`, `EVENT_USB_Device_ConfigurationChanged`, `EVENT_USB_Device_ControlRequest`, `UartConfiguration` | `VirtualSerial.c` | loop in `main`; events in the interrupt |
| `SerialPortInit` | `STK3700/Serial.h` | `main` |
| Descriptors and `CALLBACK_USB_GetDescriptor` | `VCP/Descriptors.c` | called by the request processor, in the interrupt |

There are two execution contexts, the foreground loop and the USB interrupt. The control-request processor (LUFA, outside `src/`) runs inside `Handle_USB_GINTSTS_OEPINT` when a SETUP arrives. The CDC events are called from it. The handler saves the loop's endpoint selection before the request and restores it after (lines 167-170). There is no other lock: the interrupt preempts the loop between any two of its register accesses.

## Modules

### `UsbDevice.tla`: the interrupt handler, the host and the bus

**State:**
- `devState` is `USB_DeviceState`.
- `configNum` is `USB_Device_ConfigurationNumber`.
- `addrSet` stands for `DCFG.DEVADDR # 0`.
- `gintsts` and `gintmsk` are the core interrupt registers.
- `doep0Setup` and `diepInt` are the endpoint flags. `doep0Setup` carries the SETUP packet.
- `ep0Armed` is `DOEP0CTL.EPENA`.
- `vregIF` holds the VREGO flags of `USB->IF`.
- `isr` and `status` are the handler's position and its local copy of the status word.
- `bus`, `hostAddr` and `hostCtl` are the host's side; `hostDesc` is the last GET_DESCRIPTOR answer the host received.

**Actions:** one invocation of `USB_IRQHandler` is a sequence of steps:
- `USB_IRQHandler`: the VREGO block, then `USBHAL_GetCoreInts`, which reads, masks and acknowledges.
- One step per handler, taken in the `HANDLE_INT` order (`Rank`, `Dispatched`).
- `IsrExit`: re-arms EP0 and returns.

The host actions are:
- `VbusOn` and `VbusOff`;
- `HostReset`, `ResetEnd` and `BusIdle`;
- `HostResume` and `Sof`;
- `HostSetup`, which sends only to the address the device has in DCFG. GET_DESCRIPTOR may come at any time, SET_ADDRESS once, the others after it.

They happen only while the handler is idle. Resets last 10 ms and suspend takes 3 ms of idle, while one dispatch takes microseconds.

`ProcessControlRequest` abstracts LUFA's request processor, which lies outside `src/`: SET_ADDRESS, SET_CONFIGURATION with its range check, GET_DESCRIPTOR (which calls `CALLBACK_USB_GetDescriptor` of `Descriptors` and stalls on `NO_DESCRIPTOR`), and class requests.

`Init` is `USB_Init` composed from the register helpers, applied to any register contents the boot left:
- `Quiesce` is `USB_INT_DisableAllInterrupts` then `USB_INT_ClearAllInterrupts`, done by `USB_Disable` and again by `USB_ResetInterface`;
- `InitDevice` is `USB_Init_Device`: `USB_INT_Enable` on both VREGO interrupts (which clears their flags), the forced VREGO flag of the present VBUS level (`VregoForced`), then `USB_INT_Enable` on USBSUSP and SOF.

The constant `VbusBounces` says whether the cable may come back before the handler has served the VREGOSL of its removal. `MC_UsbDevice` sets it per run.

The HAL's interrupt mask (`USBDHAL_EnableInts`, emlib, outside `src/`) is the constant `HalIntMask`. `MC_UsbDevice` gives two values:
- `EmlibIntMask` is the set emlib enables. It has no WKUPINT and no RESETDET.
- `WakeupIntMask` adds the two, to explore the handlers that `src/` has for them.

### `Descriptors.tla`: the descriptors and `CALLBACK_USB_GetDescriptor`

Each descriptor is the sequence of descriptors the host reads at its address. The device descriptor and each string is one record. The configuration descriptor is nine parts in the order of `USB_Descriptor_Configuration_t`. A part keeps:
- the `bLength` its header declares;
- the `bytes` of the object behind it;
- its type;
- the count it declares (interfaces or endpoints).

`CALLBACK_USB_GetDescriptor` is the switch of lines 232-272. Ids, class codes and string contents are left out. The string ids come from `Descriptors.h`, which is not in the repository. The constants take LUFA's values: manufacturer 1, product 2, and no serial (`SerialStrIndex = 0`).

The second half of the module is the host's reading (USB 2.0 9.4.3 and 9.6):
- `HasDescriptor`: the device, the configuration and every string the device descriptor names;
- `Parses`: headers match their parts, the parts add up to the declared length, and each declared count matches the parts that follow;
- `ReplyPerSpec` combines the two.

### `DeviceStateMachine.tla`: spec §4.4

This is the abstract device state tracker. It has six states, the address flag and the configuration. There is one action per bus event or standard request, with no registers and no dispatch. `UsbDevice` maps onto it with `devState, addrSet, configNum |-> state, address, config`. The property `DeviceStateRefinement` is `DSM!ASpec`.

### `FifoAlloc.tla`: `USB_Fifo_Init`

One action per iteration of each loop:
- `DescStep` walks the descriptors, fills the endpoint records and the index tables, and adds up the totals.
- `RxSetup` sizes the receive FIFO.
- `TxStep` places the transmit FIFOs.
- `SizeCheck` compares the totals with `MAX_FIFO_SIZE` and flushes.

The variables are the registers written (`grxfsiz`, `gnptx`, `dieptxf`) and the allocator's locals. `MC_FifoAlloc` enumerates every table of the control endpoint and up to three more, drawn from interrupt, bulk and isochronous endpoints at 0x81, 0x82 and 0x02. The 940-byte isochronous size pushes the totals across the 512-word limit.

### `Vcom.tla`: the CDC bridge

The loop `VCOM_Bridge` is split at every endpoint access: `SelectRx`, `ReadRx`, `CheckUart`, `SelectTx`, `WriteTx` and `WaitIn`. The class events are `ConfigurationChanged`, `SetLineEncoding` (with `UartConfiguration`) and `Deconfigure` (the bus reset). They can occur between any two loop steps and leave the loop's selection `sel` as they found it. `ReadRx` is one step for `Endpoint_Read_8`, `Endpoint_ClearOUT` and `USART_Tx` (lines 333-336). A reconfiguration inside that window loses a packet only if the host also completes a bulk OUT transaction inside it. This is listed as a hazard without a run. `WaitIn` polls `txPkt`, because the TX endpoint is always the selected one there: `InBankInv` proves it.

The environment is:
- the host: `HostOut` and `HostIn`;
- the peer on the UART: `UartPeer`, which is overrun when the USART buffer is full.

Five ghost logs record what crossed each boundary in the current configuration:
- `hostOut`: the bytes the host sent;
- `hostPkts`: the same, packet by packet;
- `uartTx`: what went to the UART;
- `written`: what the loop wrote;
- `hostIn`: what the host received.

## Runs

| Run | Result | What it shows |
|---|---|---|
| `usb_core` | pass | With emlib's mask, one configuration and no VBUS bounce, every interleaving of cable, reset, suspend, resume, SOF and SETUP traffic with the handler keeps these facts:<br>- `ConfiguredImpliesAddressed`;<br>- `PowerStateAgrees`: with the handler idle, `Unattached` iff VBUS is absent;<br>- `DescriptorRepliesPerSpec`: every GET_DESCRIPTOR answer the host receives is complete and parseable, or a stall for a descriptor the device has not got;<br>- `DeviceStateRefinement`: the handler implements the §4.4 machine;<br>- `BusResetHonoured`: after a reset's handler, the address is clear. |
| `usb_wakeup` | pass | With WKUPINT and RESETDET unmasked and VBUS bouncing, the power-state agreement still holds. |
| `usb_stale_config` | violation | `Handle_USBRST` keeps the configuration number, so a later wakeup restores `Configured` with no address. |
| `usb_vbus_bounce` | violation | When VBUS drops and returns before the handler runs, the VREGOSH block sets `Powered` on an `Addressed` device (line 81). §4.4 allows power-present only from `Unattached`. |
| `usb_resume_masked` | violation | WKUPINT is never unmasked, so a resumed device stays `Suspended`. |
| `fifo_layout` | pass | Transmit FIFOs placed never overlap each other or the receive FIFO (`TxFifosDisjoint`). The receive FIFO has the depth spec §4.1 gives (`RxDepthPerSpec`). |
| `fifo_shared` | violation | The first IN endpoint is given FIFO 0, EP0's (`txFifoNum` starts at 0). |
| `fifo_index_slot` | violation | The index tables store slot+1, so lookups land one record too far. |
| `fifo_tx_overhang` | violation | The size check's totals differ from the layout: a table whose totals pass ends at word 520. |
| `vcom_bridge` | pass | The host sends packets of up to two bytes, and the interrupt may do anything between the loop's steps. The first byte of every host packet reaches the UART once and in order (`HostToUartPerPacket`). Every UART byte reaches the host once and in order (`UartToHostLossless`). |
| `vcom_out_packet_truncated` | violation | A two-byte OUT packet loses its second byte: one `Endpoint_Read_8`, then `Endpoint_ClearOUT`. |
| `vcom_line_coding_unapplied` | violation | An acknowledged coding with nine data bits runs the UART with sixteen. |

Every property of a passing run has a mutant in `PROJECT.json`, a plausible bug in the mapped code that TLC catches under that run's configuration. Examples:
- VREGOSL handled without re-reading STATUS;
- the reset handler keeping the state or the address;
- the transmit cursor not advancing;
- the status word left out of the RX depth;
- `ClearOUT` dropped;
- the endpoint selection not restored;
- the configuration descriptor sent with the header's size;
- the polarity of `Endpoint_IsINReady` inverted.

### Bounds

**UsbDevice.** One configuration, with `SET_CONFIGURATION` values 0..2, so an out-of-range request is stalled. The SETUP kinds that change state are enough. GET_DESCRIPTOR is asked for with seven wValues. These cover every branch of the callback: the device, the configuration, strings 0, 1 and 2, the unnamed string 3, and the device qualifier a full-speed device has not got. The bus state is finite, so the state space is explored completely (about 790,000 states).

**FifoAlloc.** Tables of up to four entries, with two OUT and three IN endpoints at most. That reaches:
- the shared FIFO 0;
- the off-by-one index;
- totals on both sides of 512 words.

**Vcom.** Two byte values, packets of up to two bytes, two bytes each way per configuration, and a one-byte USART buffer. This is enough for two packets in a row, or one packet of two bytes. It is also enough for a byte to be in flight in each direction while a class request interrupts the loop at every point, and for an overrun to happen while the loop is blocked.

### Fairness

The handler (`UsbDevice`) and the loop (`Vcom`) are weakly fair. The NVIC serves a pending, enabled interrupt, and `main` calls `VCOM_Bridge` forever. The host and the UART peer are not fair: a host may stop reading. The loop's wait on the IN endpoint (line 343) therefore has no liveness property. With a fair host, the wait would end by the definition of `WaitIn`, which says nothing about the code. Without one, the wait need not end, and the code does nothing to prevent that.

## Proofs (TLAPS)

Every property a passing run checks is also proved, for every value of the constants, except the temporal property `BusResetHonoured`. Each proof has the same shape. An inductive strengthening `XInv` is checked by TLC as an invariant of a run first. Then `Init => XInv` and `XInv /\ [Next]_vars => XInv'` are proved, with one step per action. `XInv` implies the property, and PTL yields `Spec => []Property`.

### `UsbDevice_proofs.tla`

The proofs assume `HalAssumption`, `NumConfigurationsAssumption`, `NoSetupAssumption` and `VbusBouncesAssumption`, as declared in `UsbDevice`.

**`InitRegisters`** computes what `USB_Init` leaves from any prior register contents, through the helper operators one call at a time. The other initial-state lemmas rest on it.

**`Typing`: `Spec => []TypeOK`.** It holds for every HAL mask and every number of configurations. The proof is `TypingInit` and `TypingStep`, with one case per host action and one per handler. `Handle_OEPINT` is split per request, since the configuration number stays in range only through the request processor's range check.

**`ConfiguredHasAddress`.** It states that, if `"WKUPINT" \notin HalIntMask`, then `Spec => []ConfiguredImpliesAddressed`. This covers emlib's mask for every number of configurations. `ConfiguredImpliesAddressed` is not inductive on its own. The strengthening `AddressInv` adds four facts:
- `TypeOK`;
- a `SET_CONFIGURATION` waiting in EP0 implies the address is set, because the host only reaches an addressed device and the reset handler wipes the packet together with the address;
- WKUPINT is neither in `gintmsk` nor in the handler's `status`.

The last two facts are what rule out the stale-configuration path that `usb_stale_config` exhibits. `AddressInv` was checked with TLC as an invariant (two configurations) before it was proved.

**`PowerAgrees`: `Spec => []PowerStateAgrees`.** It holds for every HAL mask, and whether or not VBUS bounces. `PowerInv` adds two facts to `TypeOK`:
- once the cable is out and its VREGOSL served, the device is `Unattached`, with no interrupt masked in and the handler idle;
- an `Unattached` device with VBUS present still has its VREGOSH flagged.

Together they say that the handler's STATUS re-checks, and the VREGO interrupt `USB_Init_Device` forces, leave no gap. `PowerInv` was checked with TLC on the `usb_core`, `usb_wakeup` and `usb_vbus_bounce` configurations.

**`DescriptorReplies`.** It states that, under `StringsServed`, `Spec => []DescriptorRepliesPerSpec`. `StringsServed` means the device descriptor names exactly strings 1 and 2, the LUFA values the constants are given (see `Descriptors.tla` above). `ReplyInv` adds to `TypeOK` that the reply the host records is `CALLBACK_USB_GetDescriptor` of the wValue it sent. That holds because only the GET_DESCRIPTOR branch writes it, for the very packet the host waits on. `CallbackPerSpec` does the rest. `ReplyInv` was checked with TLC on `usb_core`.

### `Descriptors_proofs.tla`

**`CallbackPerSpec`.** For every wValue in `Nat`, under `StringsServed`, the callback's answer is per `ReplyPerSpec`. `Parses` sums the parts' lengths with a recursive function. The descriptors are constants, so no induction is needed. `LengthSum` unfolds the sum once some function is shown to satisfy its equation (an explicit one is given) and every function that does is shown to end in the same value. `ConfigurationCounts` computes the interface and endpoint sets of the configuration descriptor, with `FiniteSetTheorems` for their sizes.

### `FifoAlloc_proofs.tla`

These hold for every table in `Tables`, under `FifoConstantsAssumption` and `TablesAssumption`.

**`Typing`.** `TypeInv` adds three facts to `TypeOK`, which are needed to index the table and the FIFO registers:
- while descriptors remain, `numEps < Len(table)`;
- the FIFO loop starts at `j = 1`;
- while placing, `j <= MaxNumTxFifos`.

**`TxFifosApart`: `Spec => []TxFifosDisjoint`.** `LayoutInv` says this of every state of the walk:
- no FIFO is programmed before `RxSetup`;
- after it, `gnptx` starts at `grxfsiz`, and every programmed `dieptxf[f]` lies between the end of `gnptx` and the running end `start + depth`;
- programmed FIFOs are pairwise disjoint.

`TxStep` places its FIFO at the running end, after everything placed before. `LayoutInv` was checked with TLC on `fifo_layout`.

**`RxDepth`: `Spec => []RxDepthPerSpec`.** `SpecRxDepth` is a recursive sum over a table of any length, so unfolding it needs a function that satisfies its equation. The walk supplies one. `RxSumInv` keeps two facts:
- some function satisfies the sum's equation up to `numEps`;
- every such function ends in the OUT words counted so far.

Each `DescStep` extends the first by one entry (`SumExtend`). It carries the second through the restriction of a longer sum (`SumRestrict`). No induction over data is needed. `RxSumInv` was checked with TLC on `fifo_layout`, in a form that computes the sum.

### `Vcom_proofs.tla`

These hold under `VcomAssumption`. `CodingsAssumption` is cited only where a line coding is programmed.

**`Typing`.** In particular, `UartConfiguration` never programs a frame field the USART does not have.

**`UartToHost`: `Spec => []UartToHostLossless`.** It holds for every packet size and buffer depth. `InBankInv` relates three things:
- the bytes written;
- the bytes the host received;
- the bytes in the IN bank.

It also covers the loop's selection across interrupts: from `SelectTx` until the wait ends, the TX endpoint is selected.

**`HostToUart`: `Spec => []HostToUartPerPacket`.** It holds for every packet size. `OutBankInv` adds one fact: an armed RX endpoint is empty. This is why `HostOut`'s packet is always the last one logged, and why no packet overwrites another before the loop reads it. `ReadRx` then appends the first byte of exactly that packet. The stronger claim that every byte gets through, `HostToUartLossless`, fails for packets of two bytes (`vcom_out_packet_truncated`).

Both bank invariants were checked with TLC on `vcom_bridge`.

## Refinement (`UsbDevice_refinement.tla`, TLAPS)

**`Refinement`.** It states that, under `NoBounceNoWakeup`, `Spec => DeviceStateRefinement`. `NoBounceNoWakeup` means WKUPINT and RESETDET are outside the HAL mask and `VbusBounces` is FALSE. The theorem holds for every number of configurations.

The invariant `RefInv` strengthens `AddressInv` with:
- RESETDET is never masked in or pending;
- once the VREGOSL of an unplug is served, the device is `Unattached` with every core interrupt masked;
- a VREGOSH still flagged with VBUS present belongs to an `Unattached` device, and only while the handler is idle.

The third fact is what makes the VREGOSH block a `PowerPresent` step. `usb_vbus_bounce` shows that it fails when VBUS bounces. The step lemma maps:
- the VREGO block to `PowerAbsent` or `PowerPresent`;
- the suspend handler to `Suspend`;
- the reset handler to `BusReset`;
- the request processor to `SetAddress` or `SetConfiguration`;
- every other step to a stutter, GET_DESCRIPTOR and the ENUMDONE acknowledgement included.

What stays with TLC:
- the temporal properties `BusResetHonoured` and `ResumeLeavesSuspended`, because TLAPS does not reason about fairness or ENABLED;
- the violation runs, whose point is the counterexample.

## Not modelled

- **Clock, PHY and GPIO set-up, and the core soft-reset busy-waits.** They change no state that the handlers read. The waits depend on the hardware only.
- **`USB_Disable` after start-up.** It is only called inside `USB_Init`, so its effect is part of `Init`.
- **`retarget.c`.** stdio over SWO, which the demo never uses.
- **`VCOM_Echo`.** Never called.
- **The LED and button glue.**
- **`USB_COM_vect`.** Not compiled: `INTERRUPT_CONTROL_ENDPOINT` is not defined.
- **The endpoint stream functions and the global `ep`.** They lie outside `src/`. The hazard that the reset handler's `ep->buf` is stale is therefore listed without a property.

## Questions noted without a run

- With WKUPINT unmasked, a suspend and a wakeup latched by one entry are handled wakeup first (`HANDLE_INT` order, line 105). This leaves a resumed device `Suspended` as well. `ResumeLeavesSuspended` shows the same outcome through the masked interrupt.
- A table too large for the FIFO RAM has its registers written before the size check returns (lines 108-143). Spec §9 already records this.
- The wait for `Endpoint_IsINReady` (`VirtualSerial.c`:343) has no timeout, so a host that never reads the IN endpoint stops the loop. A byte written into the wrong bank would stop it too. `UartToHostLossless` rules that out (mutant `SetLineEncoding_NoRestore`).
- A `SET_CONFIGURATION` between `Endpoint_Read_8` and `Endpoint_ClearOUT` (line 335) re-arms the RX endpoint. A packet the host sends before the loop resumes would then be released unread. `ReadRx` keeps the three calls atomic, so this is not checked.
- `ConfigurationChanged` reports a baud rate of 0. A host that sets 0 has it passed to emlib's `USART_BaudrateAsyncSet`, which divides by it. That code lies outside `src/`.
