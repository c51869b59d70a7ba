# KeyDU firmware: TLA+ specifications

Specifications of the Citrouille90 keyboard firmware (`src/firmware`): what the
main loop, the bus-event interrupt and the USB host do to each other, and what
the keyboard promises whatever they do.

## The system

| Part | State | Operations | Talks to |
|---|---|---|---|
| `app_main.c` | tick flag | the main loop: `hid_flush`, `usb_ctrl_poll`, on a tick `keyboard_task` | everything |
| `matrix.c` | debounce counters, current and previous matrix | `matrix_scan`, edge queries | pins, keyboard |
| `keyboard.c` | live keyboard and consumer reports, pressed-key table | press, release, tap and chord helpers, staging | keymap, layer, macro, led, usb_hid |
| `layer.c` | held layer keys, layer in force | pressed, released, update | keyboard |
| `keymap.c` | keymaps; latched Alt and its idle ticks | lookup, `encoder_step`, timeout tick | keyboard |
| `encoder.c` | last pins, accumulator, lockout | `encoder_scan` | keymap |
| `macro.c`, `compose.c`, `compose.h` | none | macros, macro sequences, named characters, all as chords | keyboard |
| `led.c` | brightness index, two PWM levels | step, layer feedback, host locks | keyboard |
| `usb_hid.c` | report ring, consumer buffer, LED report, wakeup flag | stage, `hid_flush`, class requests, configuration | keyboard, usbcore |
| `usb_ctrl.c`, `usb_ep_stream.c` | device state, configuration, address, EP0 transfer | `usb_ctrl_poll`, request handlers, EP0 streams, bus-event interrupt | host, usb_hid |
| `usb_ep.c` | endpoint table, endpoint selection, completion masks | configure, commit, release, stall, toggle; completion interrupt | USB controller |
| `usb_desc.c`, `usb_vendor_desc.c` | constant descriptors | `usb_get_desc` | usb_ctrl |
| `KeyDU.BL`, `keydu_flasher.c` | boot mark, page buffer, chunk count, flash | boot decision, erase, write, read | host |
| `avrducore` | registers | - | - |

Everything but two interrupts runs in the main loop. `USB0_BUSEVENT_vect` writes
the device state, the configuration, the address, the wakeup flag and (through
`ep_configure`) the endpoint selection between any two instructions of it;
`USB0_TRNCOMPL_vect` records completions. The host is the other concurrent
party: it polls endpoints, abandons transfers, suspends and resets.

What makes each part correct:

* **Report ring**: first in first out, nothing lost but what is offered to a full
  ring, nothing repeated, through wraps and resets.
* **Pipeline**: every accepted report reaches the host once and in order; after a
  resume, what was staged before is discarded behind one zero report.
* **Keyboard**: no stuck key, modifier, usage or layer; the report is exactly the
  held keys while they fit; the release of a key undoes its press though the
  layer changed meanwhile.
* **Alt-Tab gesture**: Alt is released once the encoder is left alone.
* **Control pipe**: device and host agree on address and configuration; a busy
  wait never takes the main loop away for good; after any disturbance a patient
  host can configure the device.
* **LEDs**: LED A is brighter than LED B while the function layer is held, both are
  brighter than the brightness chosen while the second one is, as far as the table goes,
  and a host lock is at full brightness whatever the layer.
* **Macros and characters**: the host finds every key press once, in order and with
  its modifiers; what a full ring loses is made good by the next report.
* **Enumeration**: every descriptor is read exactly, and describes the firmware: its
  endpoints, its report layouts, the usages it sends.
* **Endpoints**: a report is taken once, whatever handshakes are lost, and after every
  configuration or halt in which both ends go back to DATA0 before the next packet.
* **Debounce, encoder**: one edge for a stable change, none for a
  bounce; one step for each detent of a gentle turn, none the wrong way when the knob is
  spun by up to two quarters in a tick.
* **Bootloader**: it runs only when asked; when the flasher reports success, the
  image in flash is the one sent.

`PROJECT.json` lists the hazards, each at its line, with the properties that
would catch it.

## Modules

| Module | Models | Runs |
|---|---|---|
| `BoundedFifo` | what the report ring promises: a bounded lossy line before a one-report endpoint | refined in `queue`, used in `chords` |
| `ReportQueue` | the ring of `usb_hid.c` with head, tail, slots, wait sentinels and resets | `queue` |
| `ReportQueue_proofs` | type correctness and refinement, proved | - |
| `HidPipeline` | main loop and `hid_flush` step by step, interrupt, consumer buffer, host polls; EXTENDS `ReportQueue` | `pipeline` |
| `Keyboard` | ticks of `keyboard_task`: dispatch, layers, macros, encoder gesture, LEDs | `typing`, `media`, `ctrl_macro` |
| `Keyboard_proofs` | types, tables, report, layers, LEDs and rest, proved | - |
| `Chords` | macros, macro sequences and characters beside the user's keys, with a ring that fills; its line is an INSTANCE of `BoundedFifo` | `chords` |
| `Chords_proofs` | order of the presses, and what a full ring loses made good, proved | - |
| `UsbDevice` | EP0 requests cut at their waits and at the interrupt's reach, with the host | `usb` |
| `Descriptors` | descriptors, report descriptors and report layouts, and how a host reads them | in `enumeration` |
| `Endpoints` | endpoint registers, data toggles and lost handshakes on the pipes beside EP0 | in `enumeration` |
| `Enumeration` | EP0 transfers packet by packet, and a host that enumerates and uses either program; EXTENDS `Endpoints` and `Descriptors` | `enumeration` |
| `Enumeration_proofs` | endpoints, refinement, exact reads and agreement with the descriptors, proved | - |
| `MatrixScan`, `Encoder` | debounce and edges; quadrature decoder and knob | composed in `InputScan` |
| `InputScan` | the input half of a tick: both scans; EXTENDS the two | `inputs` |
| `InputScan_proofs` | the debounce, the decoder and both in step, proved | - |
| `Bootloader` | boot decision, flash commands, flash; the keys that reset | composed in `Flasher` |
| `Flasher` | the host program against the bootloader; EXTENDS `Bootloader` | `flash`, `unfinished_page`, `erase_range` |
| `HidPipeline_proofs`, `UsbDevice_proofs` | order of delivery, agreement of device and host, proved | - |
| `Flasher_proofs` | types, boot decision, erase rounds and upload, proved | - |
| `MC*` | constants of the instances | |

### ReportQueue

`kbd_queue`, `kbd_queue_head`, `kbd_queue_tail` are the code's variables; `ep1_in`
is the EP1 IN bank (`NoReport` while the hardware reports BUSNAK) and `host_kbd`
what the host last read. One action for each call: `kbd_enqueue` drops when
`NextIndex(tail) = head`; `flush_kbd` is `FlushWait`, `FlushReport` or
`FlushNothing`; `WakeupReset` and `ConfigureReset` are the ring parts of
`handle_wakeup` and `hid_configure`. The calls run in the main loop only, so
each is one step here. The only caller of `kbd_stage_wait`, `run_macro_sequence`, is
not used in the shipped build; its argument 0 wraps to `WaitMod`, as the
eight-bit decrement does.

### HidPipeline

The same ring, with `hid_flush` cut into the steps between which the interrupt
makes a difference: test and clear of the wakeup flag, discard, test of the
device state, selection of the endpoint, readiness, write, pop, and again for
the consumer endpoint. `Suspend`, `Resume` and `Reset` may run before each.
Reports are stamps 1..`MaxStaged`, so order, loss and repetition are visible.
`due` (ghost) is the sequence of reports accepted and not yet received;
`baseline_due` and `stale` (ghosts) follow a wakeup. `ep_in_ready` and
`WriteKbd` act on the endpoint selected *now*: after a reset that is EP0. The two
steps of the consumer seqlock are one, since writer and reader are both in the
main loop. A SET_CONFIGURATION is one step; `UsbDevice` takes it apart.

### Keyboard

`keyboard_task` is `Scan` (any set of positions down: the debounced matrix is the
input), one `process_key_press` or `process_key_release` for each edge in
row-major order, the encoder (`EncoderQuiet` or `encoder_step`), the Alt timeout
and the LEDs (`LedUpdate`: layer feedback, then the host's locks; `led_pwm` is what is
written to the timer and `led_report` the LED report it was written for). A keycode is a record whose `kind` is the range test of
`keycode.h`. `process_key_press` splits into one disjunct for each range,
release into tracked and untracked positions. `out` is the sequence of reports
that the last staging call handed over. SYS_RST and SYS_BOOT stop the loop until
`Restart`.

### UsbDevice

`pc` is where the main loop stands inside `usb_ctrl_poll`; a request's handler is
followed through fetch, dispatch, the store of a configuration number, the clearing of
the SETUP, data stage, status stage and the stores after it. `setup`, `ep0_in`,
`ep0_out`, `ep0_stall` are what the hardware shows of EP0.
Requests are grouped by what their handlers do: an IN reply with or without a
final ZLP, a request without data, SET_REPORT, SET_ADDRESS, SET_CONFIGURATION,
and the unsupported. `Suspend`, `Resume` and `Reset` are the interrupt's
branches. The host follows its transfer, may abandon it with a new SETUP once
the last SETUP was fetched, reads a stall, and uses the address it believes in.
The ghost `overtaken` marks that a bus event ran before a request was done with.

### Chords

A call of a macro, a sequence or a compose function is a script of steps on the live
report (`Down`, `Up`, `Chord`, `Wait`); `Script` translates the calls, `Tables` holds the
functions of `compose.h` group by group (a character is a letter under an accent, or a
glyph) and `compose` all of them, `run_macro_sequence` is the interpreter of `macro.c`
with its limit and its fall-off. `Call` starts a script; `script` is what the call has yet
to do. It takes one step for each report it stages: `Press` (the first half of
`send_mod_key`, or a press by itself), `Release`, `kbd_stage_wait`, whose 0 is the
longest wait, as in `ReportQueue`. `modifier` and `keycode` are the fields of
`s_kbd_report`, and a key may stand in several slots. `kbd_stage` offers the live report to the
line of `BoundedFifo` (`kbd_enqueue`), which drops it when it is full. `hid_flush` runs only when the call has returned (`script` is empty),
since both are in the main loop; `HostPoll` may come at any moment.

Ghosts: `asked` is what the calls meant, `seen` what the host found by comparing each
report with the one before; `dropped` and `swallowed` mark a full line and a press that
cannot show, `stale` that the very last report staged was lost. The properties end at
the reports: which characters the host's layout makes of them is not claimed, since the
repository's two accounts of the layout contradict each other (see Findings).

### Descriptors, Endpoints, Enumeration

`Descriptors` has no state. A structure is the list of its field widths, a
report descriptor the list of its items, a configuration the list of its descriptors;
`app_get_desc` and `bl_get_desc` say how many bytes are sent for a request. `Parse` is
a host's reading of a report descriptor.

`Endpoints` has the table entry of each endpoint (`ep`: type, bank size, stall,
toggle, bank) and the host's side (`host_toggle`, `sending`). `hid_configure`,
`ep_clear_in`, `ep_clear_out`, `SetHalt`, `ClearHalt` and `ep_clear_all` are the
firmware's calls; `SetHalt` and `ClearHalt` act on the endpoint that
`ctrl_clear_set_feature` selects, always the OUT one. `Transaction` is a packet with
its handshake, which may be lost, by the rules of USB 2.0, 8.6; `HostConfigured` and
`HostHaltCleared` set the host's toggles back. `taken` (ghost) says that the packet
under way was taken already, so that `lost` and `twice` collect the pipes where
the toggles misled someone. `host_reset` and `dev_reset` (ghosts) hold the pipes
that an end has set back with no packet since. A packet while only one of the two ends is
set back puts the pipe into `apart`, until both are set back again with no packet in
between. What `ReportsOnce` claims is the rest: the device may configure before the host
reads the status or after it, but two things are left out: packets that fall between
the two, and what follows when the device sets back a toggle that the host keeps
(`usb_ctrl.c:174`).

`Enumeration` serves EP0 packet by packet: `Process` is the dispatch of
`usb_process_ctrl_request`, `Commit`, `Aborted`, `CommitZlp` the stream writer with its
batches of 64 bytes and its zero-length packet, `WaitOut` and `CommitStatus` the status stages,
`ConfigChanged` the call of `hid_configure`, `StallLeftover` the stall of what nobody
claimed. The host goes through `Plan`, may ask again, may give up a transfer for a
new SETUP, and polls the pipes in `Driven` once it is at the end. `torn` (ghost) is set
when the host is handed bytes that are not the next ones of the object it asked for.

### MatrixScan, Encoder, InputScan

`matrix_scan(raw)` takes any set of lines that read low and does what one call
does to every cell. The ghosts `line` and `steady` record the last reading and
for how long it has held, `edge_level` is the level known to one who follows
the edges as `keyboard.c` does. `encoder_scan` is the decoder with its table; the
knob is a quarter of a turn modulo 4 whose terminals follow the Gray code. A
`pace` says how it is turned: gently (at most a quarter between two readings, in
any direction) or spun one way (up to two quarters in a tick). `owed` (ghost)
is what was turned and not passed on. `Keyboard` takes the results of both
(`Scan`, `encoder_step`) as arbitrary inputs.

### Bootloader, Flasher

`pc` runs through the boot decision (`flags`, `mark`, `decide`) into the bootloader
or the application; `rstfr` accumulates reset flags, `mark` is the EEPROM byte. An
address counts chunks. `handle_erase`, `handle_write` and `handle_reset` are the
handlers; flash is modelled by what it does: an erase blanks the aligned group
of pages around the address (`flash.c:16-17`), programming a chunk that is not
blank leaves junk, a power loss or reset inside an operation makes junk of its
pages. The flasher is `main` of `keydu_flasher.c`. A transfer is heard by both
sides, by the device only, or by neither; a write abandoned in its data stage
gives the device a junk chunk, as `ep_read_ctrl_stream()` then returns early. A
failed run may be started again. The ghost `received` holds the offsets received
for the page in progress, `committed` those of the page last written. An
application whose pages are neither all old nor all new does nothing.

## Runs

| Run | Bounds | Shows |
|---|---|---|
| `queue` | 4 slots, 3 reports, 2-bit waits | every fill, wrap, overflow and reset position, and the 0 wait; the ring refines `BoundedFifo` |
| `typing` | cells Tab, Q/Copy, C, Fn, RCtl/Fn2; 2 slots; timeout 2 | keys, macro, encoder and layers in every order, with overflow of the report: no key or modifier is left, tables match the matrix |
| `media` | cells Esc/boot, R/volume up/brightness up, T/volume down/brightness down, Fn, RCtl/Fn2; 1 slot; 2 brightness notches | rest after release, with two media keys; layers; LEDs that tell the layer; release of Alt |
| `usb` | one address, all request groups, unbounded aborts, suspends and resets | agreement, return of the main loop, recovery |
| `pipeline` | 4 slots, 4 stamped reports, unbounded bus events | order, no gaps, baseline in front, delivery |
| `chords` | the real ring of 8 slots; 2 key slots, 5 macro steps; 3 calls, the first any macro, character or sequence; user keys E and C, left Shift | order and completeness of key presses; a report lost to a full ring is made good by the next, and the host comes to see the live one |
| `enumeration` | both programs; 3 endpoint numbers; the lengths hosts ask for; unbounded repetitions, aborts, resets, lost handshakes; the host polls EP1 only, in both directions | reads are exact, descriptors are true, reports are taken once (see `Endpoints` for where) |
| `inputs` | 2 cells, 4 ticks, lockout 2; every reading and move | no bounce makes an edge, no stable change is missed, edges tell the level; turns and steps agree, none goes the wrong way at up to two quarters in a tick |
| `flash` | 4 application pages of 4 chunks, groups up to 4 pages, images of 1, 5, 8 and 11 chunks | success means flashed; pages are erased first; boot decision under power loss; an accepted reset reaches the application |
| `ctrl_macro`, `unfinished_page` | as above | statements of the repository that the code does not keep (see Findings) |
| `erase_range` | an image of 4 pages, a whole group | likewise |

Why the bounds are enough. The ring's behaviour depends on its fill, on where the
wrap lies and on the equality of reports; four slots reach every combination,
and the proof is for any depth. Two report slots reach free, part full, full and
a refused add, with a held key and a tapped one of the same usage. A timeout of
two ticks has a tick before it and one at it. Two notches have one where the boost fits
the table and one where it does not; the proof is for any table that rises. A second address adds no transition, since handlers look only at
zero or not zero. Four stamps are one more than the ring holds.
Two key slots for six are filled by one user key and one tap, and five macro
steps are exceeded by a sequence of six, so both limits are met; two calls
overfill the ring (a character is up to four reports), and a third meets what they left.
The pipes do not interact but through the halt of the opposite direction, for which
EP1 has both; EP2 is configured and halted as well.
The cells of the matrix do not interact (and the proof is for any number). The
application starts at half the largest erase group, as it does in the product
(page 16, groups of 32); images end inside a page and at its end, with one, two
and three pages.

CONSTANTS that bound something: `MaxStaged` (pipeline), `WaitMod`,
`KBD_QUEUE_DEPTH`, `SLOTS`, `ALT_RELEASE_TIMEOUT`, `LED_TABLE_SIZE`,
`MAX_LAYER_KEYS`, `Position`, `Cell`, `DEBOUNCE_TICKS`, `FlashPages`,
`CHUNKS_PER_PAGE`, `MaxCode`, `ImageSizes`, `MaxCalls`, `MAX_MACRO_STEPS`, `Sample`,
`EP_TABLE_COUNT`, `Driven`, `Key` and `MacroSequence` (`chords`).

Fairness. *Keyboard*: `WF(Tick)`, the main loop calls `keyboard_task` on every
timer tick; a reset that was asked for happens. *HidPipeline*: the main loop
runs on (the 1 ms timer ends its sleep) and the host polls a configured
interrupt endpoint. *UsbDevice*: the main loop runs on; a host that is there goes on
with its transfer, enumerates, ends a suspend, and resets a port on which nothing
can happen. The last is what hosts do after a transfer timeout and is needed: the
wait for a ZLP's turn (`usb_ep_stream.c:77`) ends only so. *Flasher*: the CPU runs on;
no transfer has to succeed. *Chords*: a call that was begun goes on to its end
(`WF(CallStep)`), the main loop flushes, and the host polls.
*Enumeration* states safety only. Liveness is stated for
a host that is *eventually* patient (`PatientHost`) and for a pipeline that is
eventually undisturbed, so that nothing is asked of a device reset for ever.

## Proofs

`ReportQueue_proofs`, for every set of reports, every depth of at least two and
every counter width (`QueueAssumption`):

* `QueueTypeCorrect`: `QueueSpec => []TypeOK`. `TypeOK` is inductive: an index is
  moved only by `NextIndex` (lemma `NextIndexType`), a slot is written only with
  an entry.
* `QueueImplementsFifo`: `QueueSpec => ImplementsFifo`. The refinement mapping
  reads the ring from head to tail (`LineOf`); lemmas say what an enqueue, a pop
  and a rewrite of the front slot do to that sequence, by case on the wrap. Each
  action is then a `BoundedFifo` step or a stutter, under the invariant `TypeOK`.

`Keyboard_proofs`, for every matrix, keymap, report size and table size
(`KeyboardAssumption`), about `Spec`: `KeyboardTypeCorrect` (`TypeOK`), `TablesAlwaysMatch`
(`TablesMatchMatrix`), `NoKeySticks` (`NoStuckKey`), `ReportShowsHeldKeys` (`ReportIsExact`),
`NoModifierSticks` (`NoStuckModifier`), `LayerAlwaysFollows` (`LayerFollowsKeys`), `LedsTellHeldLayer`
(`LedsTellLayer`) and `NothingLeftBehind` (`QuietWhenReleased`): all the invariants of `typing`
and `media`. None of them is inductive: each speaks of ticks that have ended, and the edges of a
tick are worked off one at a time. `KeyboardInv` says what holds between two edges:

* `TableInv`: one entry at most for a position in either table, the tables disjoint, and an
  entry only for a position that is down or whose release is still to come. `TableRemove`
  and `TableLeft` are the lemmas about the swap with the last entry.
* `ReportInv`: every usage fills at most as many slots as the table has entries for it, and
  exactly as many until a key met a full report (`KeysOwned`); every modifier bit but the
  gesture's Alt belongs to an entry (`ModsOwned`), a media usage likewise (`ConsumerOwned`); the
  last report handed over is the live one. A count, and not the set of keys, is what the proof
  needs, since a macro may tap the usage of a held key and `kbd_remove_key` takes the first slot.
* `RestInv`: the layer in force is the highest of the table, and the LEDs tell it. Between
  two ticks brightness, layer keys and LEDs may disagree; at the end of one the LEDs are
  written from both. `LedsTellLayer` does not say with which index, but that the levels tell
  the held keys; lemma `LedLevelsTell` derives that from the table's being strictly
  rising and ending at full brightness (`KeyboardAssumption`): the boosted index is
  above the chosen one unless that is the last.

`Chords_proofs`, for every ring depth, number of slots, set of sequences, sample and number
of calls (`ChordsAssumption`, `CallAssumption`, `ReportAssumption`), about `ChordsSpec`:
`ChordsTypeCorrect` (`ChordsTypeOK`), `PressesAreSeen` (`PressesInOrder`) and
`LossEndsWithNextReport` (`NewestIsLive`). `PressesInOrder` compares what was asked with what was
seen and says nothing of the reports between; `InFlight` does: from the report that is
armed, or was received last, the line leads to the live report, each entry showing nothing
new or the next press asked for, and the last of them is the last press asked for. A chain of reports
and counts (`Leads`) is carried through every append, delivery and poll. `NewestIsLive` is
inductive with the types (`NewestInv`): a report enters at the end of the line, so the
newest of them can be overtaken by no other, and what the host has last received matters only
when none is left. It has no condition on what was lost before. `CallAssumption` says that the keys of the two tables are in `Key`, a fact about
constant tables that TLC evaluates.

`InputScan_proofs`, for every set of cells and every `DEBOUNCE_TICKS` of at least
one (`TicksAssumption`): `MatrixTypeCorrect`, `StableChangeIsSeen`,
`BounceMakesNoEdge` and `EdgesAreComplete`. None of the four properties is inductive
alone: nothing in them says what a counter holds. `MatrixInv` adds that
(`CounterCounts`): a counter is 0 while the line agrees with the committed state
and else the number of equal readings in a row, which is below `DEBOUNCE_TICKS`.
Lemma `ScanCell` does the arithmetic for one cell; `ScanStep` lifts it to the matrix.
For every lockout (`LockoutAssumption`): `EncoderTypeCorrect`,
`TurnsAreCounted` (`StepsMatchTurns`) and `NeverTheWrongWay` (`NoWrongWay`). `NoWrongWay` alone
says nothing of the accumulator. `SpunInv` adds why it cannot fill the wrong way: the
decoder falls behind by more than a quarter only during a lockout or at an
illegal transition, both of which leave the accumulator empty, so a single aliased
reading is all it ever holds. `GentleInv` adds that a gentle turn is never more
than a quarter ahead. Lemmas `TurnIsDecoded` and `MoveIsRead` evaluate the table.
These are about `MatrixSpec` and `EncoderSpec`. `InputTypeCorrect`, `KeysAreScanned` and
`TurnsAreScanned` carry them to `InputSpec`, the tick that runs both: each of its steps is a
step of either.

`Enumeration_proofs`, for every table and every set of endpoints with their sizes
(`EndpointsAssumption`): `EndpointsTypeOK` (`EndpointsSpec => []EpTypeOK`) and `EachReportOnce`
(`EndpointsSpec => []ReportsOnce`). The inductive invariant `OnceInv` says where the
toggles stand: on a pipe that is not `apart` and has had packets since its ends were last
set back (`Settled`), they are equal, unless the packet under way was taken and its handshake
lost. An end that is set back first starts afresh by itself (`HostFresh`, `DeviceFresh`);
when the other follows, the two facts put the pipe in step (`FreshInStep`), in either order.
Then, with `EnumAssumption`: `ImplementsEndpoints` (`EnumSpec =>
EndpointsSpec`), by step simulation: every step of control pipe, main loop and
host is a step of `Endpoints` or leaves its variables alone. `EnumerationReportsOnce`
(`EnumSpec => []ReportsOnce`) follows.

About `EnumSpec` itself (`NoneAssumption`, `SizeAssumption`): `EnumTypeCorrect` (`EnumTypeOK`) and
`ReadsAreExact` (`ReadsExact`). `ControlInv` ties the stages of a handler to the request it serves;
`ReadInv` ties
the device to the host: a pending SETUP is the transfer the host is in, and while the host
waits for a read that the device has fetched they are in step (`InStepWithHost`): what is in the
bank is the bytes after those the host has, up to those committed, and a data stage that
goes on has been full packets so far. `SizeAssumption` says
that the lengths of the descriptors are numbers: they are sums over constant lists, which the
provers cannot unfold, and TLC evaluates it on every run. `EndpointsMatchDescriptors`
(`TablesAgree` implies `EnumSpec => []EndpointsAsDeclared`): whenever a device is configured and at
rest, the endpoints have types and banks that `hid_configure` gave them (`LayoutInv`), whatever
halts, resets and repetitions came. Its hypothesis is about constant tables and is part of
what `enumeration` checks: the descriptors agree with each other and with that layout.

`HidPipeline_proofs` (`PipelineAssumption`, `QueueAssumption`), for every ring depth and
number of reports, about `PipelineSpec`: `PipelineTypeCorrect`, `DeliveredInOrder`
(`InOrderNoGaps`), `BaselineStaysInFront`. The action property says nothing of what
is queued; `PipelineInv` does (`Delivers`): while the endpoints are up, `due` is the
report armed in EP1 IN followed by the ring from head to tail, or from the slot after
the head between `ep_clear_in()` and the pop. For the write to go to EP1 it adds
that no reset changed the selection since `ep_select()` if the endpoints are
up. Lemmas `DueStage`, `DueArm`, `DuePoll`, `DueDiscard` say what each call does to the
two sequences, with the ring arithmetic of `ReportQueue_proofs`.

`UsbDevice_proofs` (`DeviceAssumption`, `RequestAssumption`), for every set of
addresses, about `UsbSpec`: `UsbTypeCorrect`, `StateAlwaysAgrees` (`StateAgrees`),
`HostAlwaysAgrees` (`HostAgrees`). Both properties speak of the moments between requests;
`DeviceInv` and `HostInv` say what holds at every stage of a handler that no bus event
overtook. They need each other: a late SETUP could find the device between the status
packet of SET_ADDRESS and its new address, if the host, which has moved to the new
one, could still reach it (`AddressInv`).

`Flasher_proofs` (`FlashAssumption`, `ImageAssumption`), for every size of flash, page,
group and image: `BootloaderOnRequest` (`Spec => EntersOnRequest`), since no reset
leaves both mark and software flag behind when nobody asked (`BootInv`);
`FlasherTypeCorrect` (`FlasherTypeOK`), with `Progress`: how far the erase and the upload are is
tied to the size of the image; and
`SuccessMeansFlashed` (`Spec /\ []ErasedBeforeWrite => []UploadIsExact`). The hypothesis
is there because the code does not always erase what it writes (`erase_range`). `UploadInv`
follows the upload: pages before the current one hold their chunks, later ones are
blank, the page buffer holds the page so far (`At`). As long as the last page is
blank no application can run and ask for another start (`NoApplication`).

`RoundsEraseImage` proves `ErasedBeforeWrite` for the images with which the erase rounds work
(`FitsGroups`): the application starts at a multiple of a group of pages and the image has fewer than
two such groups. Each round is then aligned to its own length (`Rounds`; the lemmas about powers
of two say that a smaller one divides a larger). The application of the product starts at page
16: images of up to 31 pages qualify, and `erase_range` is the first that does not. For
those images `ImageIsFlashed` states `UploadIsExact` with no condition on the run.

Every invariant and action property of the passing runs is proved for all values of the
constants (`ErasedBeforeWrite` under `FitsGroups`). Model-checked only:

* Liveness, which rests on fairness and ENABLED: `AltIsReleased`, `KeysReachHost`,
  `UsageReachesHost`, `PollReturns`, `Recovers`, `ResetReachesApp`, `HostSeesLive`.
* Facts about the constant tables that a fold or a long list computes: the descriptors'
  lengths and layouts (`DescriptorsAgree`, `SizeAssumption`, `CallAssumption`).
* What the code does with images outside `FitsGroups`: there `ErasedBeforeWrite` is false.

## Findings

* `ctrl_macro`: a chord clears a modifier that a held key owns (`keyboard.c:187`
  against `keyboard.c:16-17`). The same happens to left Alt at the end of an
  Alt-Tab gesture (`keymap.c:222`).
* `unfinished_page`: a leftover chunk count makes the next run of the flasher write
  the first page before it is complete (`usb_vendor.c:106` against `doc/Firmware
  reference.md:606`). `UploadIsExact` shows that every other run is right.
* `erase_range`: a round of 32 pages at page 16 erases pages 0-31
  (`keydu_flasher.c:125` and `flash.c:16-17` against `flash.h:19`), so an image of
  32 pages or more is written over pages that were not erased.

Seen while modelling, without a run:

* USB: a bus reset while SET_ADDRESS waits is followed by the old address
  (`usb_ctrl.c:115` against `usb_ctrl.c:104-105`); `Recovers` shows that a further reset
  repairs it. The first report after a resume can be an old one (`usb_hid.c:175`
  against `ChangeLog.md:21-23`): the EP1 bank is not emptied. A SETUP that
  arrives while a request ends is stalled unread, and only the host's retry gets
  through (`usb_ctrl.c:252`). The halt requests mask the direction (`usb_ctrl.c:174`):
  CLEAR_FEATURE for an IN endpoint leaves its toggle, which the host sets back, and sets
  back that of the OUT one, which the host keeps: a packet on either puts it into `apart`
  and `ReportsOnce` says no more of it. The host may poll between the status
  stage of a repeated SET_CONFIGURATION and `hid_configure` (`usb_ctrl.c:129-132`), which is
  `apart` too. A bus reset inside `flush_kbd` sends the report to EP0's bank, which the next
  SETUP empties (`usb_hid.c:143`). An aborted SET_REPORT stores 0, and `hid_configure`
  zeroes the LED report, though `usb_hid.c:22` says it outlives a configuration.
* Keys: on the function layer right Ctrl is not transparent (`keymap.c:123`); the
  release of one media key clears the usage of another (`keyboard.c:366`). The release of
  the user's left Alt during an Alt-Tab gesture takes Alt away while `s_alt_held` stays set
  (`keymap.c:180-183`): the steps that follow tap Tab without Alt.
* Characters: the two accounts of the host's layout contradict each other, so no property
  says which character the host enters. `compose.h:25-52` puts every dead key and every
  special character on AltGr or AltGr+Shift. By `cms_layout_multix.md` the AltGr+Shift
  plane is empty on every key (lines 28 and 206-207: `compose_direct_s` enters nothing),
  AltGr+E is the euro sign and not œ (line 212), and the circumflex is a plain tap of `KC_LBRC`
  (lines 139-142), the key that carries diaeresis and grave as well (section 4). By either
  account a Shift that the user holds meanwhile changes the plane. The functions for accented
  capitals tap the letter without Shift, so they enter small letters (`compose.h:7-9`
  promises capitals); tilde and macron
  share a dead key (`compose.h:66-75`); tapping a modifier puts its usage, 0xE2, into a key
  slot, for which `rd_kbd` declares 0-0xDD. Two accented characters in one scan are
  eight reports, one more than the ring holds: the last release waits for the
  next report, which is all that `NewestIsLive` and `HostSeesLive` promise of a lost one.
  `cms_layout_multix.md:217-218` speaks of a ring of 16, `usb_hid.h:69` has 8.
* Macro sequences: one that falls off its limit clears modifiers only, those of
  the user included, though `macro.c:57-59` speaks of any keys; `MACRO_END` leaves
  what is pressed.
* Boot decision: a pin reset before `main` has cleared the flags of a software reset adds
  EXTRF to SWRF, and the bootloader is entered, though `bl_main.c:7-8` sends the reset pin to
  the application always. It was asked for, which is all that `EntersOnRequest` claims.
* Flashing: `handle_read` takes a flash address for a data address
  (`usb_vendor.c:136`); an image larger than the flash is not refused
  (`usb_vendor.c:69`); after a power loss during flashing the device starts what is
  in flash (`bl_main.c:90`); the flasher looks for 0x03EB:0x2FF4
  (`keydu_flasher.c:27-29`), the bootloader is 0x1209:0xB4B1.

## Not modelled

* Which characters a host's layout makes of the key presses (see Findings).
* `execute_compose` (no case in the shipped build; the functions it would call are in
  `Chords`), SYS_SLEEP (not in the keymap), `led_set`, `led_on`, `led_off` (no caller).
* `VCMD_READ`, `VCMD_STATUS` (the flasher sends neither), images that do not fit,
  the flash sections of `flash_write_page` (an aligned page never straddles them).
* Data toggles and lost handshakes on EP0 (`Enumeration` hands its packets over one by
  one), `ep_wait_ready` (it follows a bank that is ready), the completion bit
  masks and their read-modify-write, the SOF branch (clock tuning only).
* Values of LED reports, of the idle rate, of protocol and status bits; `Keyboard`
  takes any LED report. Names, versions and power figures of the descriptors.
* Addresses, suspend and device states in `Enumeration`: `UsbDevice` has them.
* Clock, GPIO, PWM, fuses: constants and registers.

## Plan

1. Done: ring and its abstract line, keyboard, control pipe, pipeline; type and
   refinement proofs of the ring.
2. Done: matrix scan and encoder with proofs of the debounce; bootloader and flasher.
3. Done: macros and characters down to the presses the host finds; descriptors, EP0 packet by
   packet, endpoints with toggles and halts, either program enumerated; proofs of the
   endpoints, of the refinement, and of the decoder.
4. The LED path (SET_REPORT, EP1 OUT) in the pipeline, the completion masks.
5. Done: proofs of the pipeline, of the control pipe's agreement, of the boot
   decision and the upload.
6. Done: proofs of all invariants of `Keyboard`, `Chords`, `InputScan`, `Flasher` and
   `Enumeration`.
7. `Chords` over the ring of `ReportQueue` in place of the abstract line.
