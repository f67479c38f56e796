# A verification of the PS/2 to Bluetooth keyboard firmware

The firmware in `src/projects/peripheral_hids` turns a PS/2 keyboard into a
Bluetooth HID keyboard. The repository is a fork of the whole Zephyr tree; the
program's own code is `src/projects/peripheral_hids/src`. File names without a
directory are in there, `kernel/...` and `subsys/...` are relative to `src`.

## The system

| Part | Code | What it does |
| --- | --- | --- |
| PS/2 connector | `ps2_connector.c` | Reads one bit per falling clock edge in an interrupt, checks start, parity and stop bit, queues the byte. The keyboard thread takes bytes from the queue. Also has code to send a byte to the keyboard. |
| Message queue | `rx_msg_que`, `kernel/msg_q.c` | Between the interrupt, which does not wait, and the keyboard thread, which waits for ever. |
| Keyboard thread | `ps2_keyboard.c` | Calls the parser in a loop. Started by `ps2_keyboard_init`. |
| Translator | `ps2_hid_translator.c` | Parses scan codes (set 2) and keeps a report: a modifier byte and six key slots. |
| Key tables | `inc/keys_by_ps2_scancode.h`, `inc/usb_hid_keys.h` | Scan code to HID usage. |
| GATT service | `hog.c` | Copies a report to `input_keyboard` and notifies the host, if it has subscribed. |
| Printing | `bt_hid_tools.c` | `keyboard_print` types a string by writing reports of its own. |
| Main | `main.c` | Bluetooth start-up and callbacks. Calls `ps2_keyboard_init`, then `keyboard_print` every ten seconds. |
| Bluetooth host | `subsys/bluetooth/host` | Advertising, connections, pairing keys, the table of client configurations (CCC) in which hosts subscribe. |
| Settings, NVS | `subsys/settings`, `subsys/fs/nvs` | Keep bonds and subscriptions in flash. |

Four activities run concurrently: the main thread, the keyboard thread, the
clock interrupt, and the Bluetooth stack with its callbacks. Keyboard, hosts and
the power supply are actors outside the program.

The path of a key press is keyboard, interrupt, queue, parser, report,
`input_keyboard`, notification, host. The models cut it at the queue and at the
report.

## Modules

| Module | Models | State and actions |
| --- | --- | --- |
| `PS2Bits` | `odd_parity_check`, `reverse`, the shift register | Bytes as functions from bit number to bit, so that a shift keeps eight bits. |
| `MsgQ` | `kernel/msg_q.c` | Ring buffer with pointers, one wait queue for readers and writers ordered by priority. Put, get and purge by any thread, with or without a timeout. |
| `RxQueue` | The queue as the program uses it | Put accepted or refused; get that finds a message, pends, or returns with the message a put handed over. An abstract specification. |
| `MsgQRx` | The program's calls of `MsgQ` | Maps `MsgQ` to `RxQueue`. |
| `PS2Connector` | Reception | The C statics keep their names. `ps2_keyboard_init` is the main thread, which reads the two lines one after the other and arms the interrupt before it adds the callback. `clk_fall_cb` is the whole interrupt. `event` is the GPIOTE latch of one event. |
| `PS2Send` | Transmission | Extends `PS2Connector` with the pins' configuration and `ps2_connector_send_byte` in steps. `SendSpec` has a silent keyboard, `MixedSpec` one that types meanwhile. |
| `HidKeys`, `ByteTables` | The key tables, `bit_reverse_table`, `ascii_to_hid` | Numbers of the macros; one byte per state, compared with reference definitions. |
| `HidTranslator` | The parser and the report | `at` and `i` say which call of `ps2_connector_get_next_code` the parser is in, one action for each. The tables are constants of the module. |
| `KeyPath` | Keyboard, queue and translator together | The keyboard sends make, break and repeat sequences; `receive` is the interrupt's put; the thread parses one code per message. |
| `BtLink` | `main.c`, `input_ccc_changed`, and connections, keys and CCC of the host stack | One connection at a time. A handler runs in a cooperative thread and is one step. `PowerFails` resets RAM and leaves `flash_keys` and `flash_ccc`. |
| `Hog` | `hog_set_keyboard_input` down to `bt_att_send`, and `keyboard_print` | Extends `BtLink`. A report has two parts, copied one after the other by two threads without a lock; `tx` holds the notifications on their way. |
| `KvStore` | What a persistent store promises | An abstract specification: calls are atomic and durable. |
| `Nvs` | `nvs_init`, `nvs_write`, `nvs_delete`, `nvs_read` with gc | The functions log their flash operations, which happen one per step; `Crash` comes between any two or within a write. |
| `SettingsNvs` | `settings_nvs.c` | `pc` is the entry that is written or deleted next, one per step; the load loop visits one id per step, cleans up what has lost its other half, and ends early if a handler returns an error. `Reset` comes between any two steps. |
| `MC...` | Instances for TLC | Values of constants. |
| `...Proofs` | Theorems | See below. |

The keyboard, the hosts, and the part of the GPIO driver that latches edges are
external and modelled from how the program uses them. Operators whose comment
says *Mutant* are wrong on purpose: each stands for a plausible slip in the
operator after it, and shows that a property notices.

Assumptions about the environment are constants: `NoisyBits` (frame positions
where noise may invert the data line, at most one in each frame), `QuietStart`
(the keyboard is silent until init returns), `Prompt` (an edge is served before
the keyboard's next one), `MaxLosses` (codes the queue may refuse), `Pairings`,
`Written` and `Blackouts` (what hosts and power do), `Faults` (where a flash
write may be cut short), and `Unhurried` (the keyboard thread gets on with a
report in the pauses of `keyboard_print`, which are 100 ms each, and is
done with it before the next string, seconds later).

## Runs

Runs that pass:

| Run | Instance | Shows |
| --- | --- | --- |
| `rx_line` | 4 frames of 2 codes, queue of 1, noise in bits 1 to 10 | `DeliversWhatWasSent`, `LossIsExplained`, `AcceptedIsDelivered`: codes arrive unchanged and in order; an inverted bit or a full queue costs its own frame and no other; no wakeup is lost. |
| `rx_rough` | 2 frames, keyboard active during init, noise in the start bit, a send at any time, prompt interrupts | `NoByteWithoutEdges`: even so each byte takes eleven edges of its own. `InitReturns`: the wait in init ends. |
| `translator` | 3 slots, 9 codes in any order, all 256 bytes | `NoKeyTwice`, `HostIsUpToDate`, `PauseIsMomentary`, `EveryKeyHasABreak`, `ParserReturns`, and, byte by byte, `BitTricksAreExact`, `KeymapIsConsistent`, `AsciiNamesItsKey`. |
| `keys` | A, Left inside a fake shift, PrtSc, Pause, left shift; 2 slots, queue of 1, one lost code | Once all codes are parsed the report shows the keys that are held (`NoPhantomKeys`, `HeldKeysAreReported`, `ModifiersAreMasks`), `RetypingClears` a key stuck by a lost code (unless another key of the same usage is held), `ReleaseIsReported`. |
| `msgq` | 3 threads of 2 priorities, queue of 2, 4 puts | `WaitersMatchTheQueue`, `FirstInFirstOut`, `WokenReaderHasMessage`: readers and writers in the shared wait queue are never mistaken for each other. |
| `btlink` | 3 hosts, 2 bonds, CCC table of 1, 2 notifying threads, power failures | `GateMatchesSubscription`, `OpensWhenSecure`, `SubscriptionSurvives`, `BecomesConnectable`. |
| `hog` | 2 hosts, 2 buffers, 1 character printed | `Undisturbed` and `NothingSticks`: torn reports are repaired by the next key event that `keyboard_print` does not overlap, and printed keys do not stick. What is sent during an overlap is not restricted. `NoReportForAnotherHost`, `CallsReturn`. |
| `nvs` | 2 ids, 2 sectors of 7 cells; power fails between any two flash operations and within writes, but for the cases named below | `ImplementsKvStore`, `AlwaysMounts`, `ReadsWhatSurvives`, `FitsInOneSector`. |
| `settings` | 4 names, 3 ids, power failures between writes | `ImplementsKvStore`, `OnePlace`, `RefusedMeansFull`: three writes, and still atomic; no id is lost. |

Power failures that the run `nvs` leaves out:

- a closing ate cut short when the sector ends with a deletion right above the
  data (`"low_close"` in `Faults`, the subject of `nvs_recover`): a deleted id
  comes back;
- the first ate of a sector cut short behind its id (`"first_ate"`): at the end
  of its walk `nvs_read_hist` looks at the id and not at crc8 (`nvs.c:963`), and
  returns an entry of length 0xFFFF that was never completed, so that
  `ImplementsKvStore` fails. While gc copies, an ate may be cut short in this
  way in the run too, since startup then erases the copies;
- a restart into a sector that failed writes alone have filled (`FullOfJunk`, a
  guard of `Crash`). It would be closed with an offset that points to the closing
  ate itself (`nvs.c:452`), and gc would fail: without the guard `AlwaysMounts`
  and `FitsInOneSector` are violated;
- an erase cut short, which after gc looks like a gc to be repeated
  (`nvs.c:698`). `Nvs` has no such step.

Runs in which the code does not do what the repository says of it:

| Run | What the repository says | What the code does |
| --- | --- | --- |
| `send_returns` | `ps2_connector.c:174` "consider transmission done" | The handler sets `PS2_STATE_DEV_TO_HOST` on the first edge (line 147), so later edges go to the receiving handler and `ps2_connector_send_byte` waits for ever. `main()` has the call of `ps2_keyboard_set_leds` commented out. |
| `right_modifiers` | `usb_hid_keys.h:16` "Modifier masks - used for the first byte in the HID report." | The extended modifiers put their usage id in the modifier byte. Right control shows as left alt, right shift, right alt and right meta. |
| `nvs_recover` | `nvs.c:333` "will be updated to the last valid ate" | A deletion whose ate lies directly above the data is missed when the sector's closing ate is damaged, and the deleted id comes back. |

### Disagreements without a run

Met while modelling. The models have the behaviour of the code, except where an
item says that it is left out.

- `ps2_connector.c:111` "release clock while keeping data low": `gpio_pin_set`
  takes a level and is given a non-zero flag word, which releases the line.
- A send that begins in the middle of a frame swallows a bit of it, and a code
  that was never sent can be delivered.
- `ps2_hid_translator.c:50` "drop the oldest": the last slot is overwritten,
  whichever key is in it. `usb_hid_keys.h:32` describes an overflow report that
  the translator does not send.
- The scan-code table has 255 entries and 0xFF reads behind it
  (`ps2_hid_translator.c:189`).
- A navigation key inside a fake shift is dropped with the wrapping; only its
  repeats show it. The break `E0 F0 6B E0 12` that a keyboard sends with shift
  held leaves the parser inside `sys_req_make` until the next code (`KeyPath`
  leaves this break out; `HidTranslator` takes any codes).
- `keyboard_print` sends no shift, so capitals come out small.
- Without `Unhurried`, a key event delayed past the last report of
  `keyboard_print` can leave a printed key at the host (`NothingSticks` fails).
- NVS: the power failures listed above. Deletions alone can run over a sector's
  bottom; `NvsAssumption` leaves this out, with more cells than ids.
- `settings_nvs_save` hides a failed write of a value behind the successful one
  of its name (`settings_nvs.c:219`); left out, since writes in `SettingsNvs`
  succeed.

### Bounds

- *Frames* (`MaxFrames`). On a good line a frame is received from its own bits
  and a parity error reaches one edge further, so three frames show a bad one
  between two good ones; a fourth overfills a queue of one with the reader
  pended, woken and running. After a missed start bit the count can stay shifted
  for longer: `rx_rough` sees two frames of that, the proof any number, and late
  interrupts too. The bound is why the `rx_` runs may stop.
- *Codes on the line*. 0x1C and 0xF0 differ in parity and are not symmetric, so
  a byte reversed once too often or too rarely shows.
- *Queue*. The code has `PS2_MSG_QUE_SIZE`; one place is full within any
  sequence of two codes. In `msgq` two places and four puts (`MaxPuts`, which is
  why it may stop) wrap the ring with threads waiting on either side.
- *Slots*. Two or three instead of six make the overflow rule reachable with few
  keys.
- *Keys*. One of each kind of sequence. The right-hand modifiers have a run of
  their own because they fail. The keys of `keys` have one modifier and no usage
  in common; more of them make the run too large. Several modifiers in any order,
  and keys that share a usage as the two Enter keys do, are in
  `KeyPathModifiersAreMasks` and `KeyPathNoPhantomKeys`.
- *Hosts*. Three, with one CCC entry as the program is built. The program keeps
  one bond; two let a stored subscription wait in flash while another bonded host
  uses the table's entry, and the third host finds the key pool full. `hog`
  needs two, the one subscribed and another, pairs with a passkey and without a
  bond, and leaves power failures to `btlink`.
- *Notifications*. Two buffers let both threads wait for one that the other
  has. One character is three reports: an empty one, the
  key, and an empty one.
- *NVS*. A sector of seven cells takes three entries with data and so is
  collected every few writes; the program has eight sectors of many more. With
  two, the sector after the one being filled is always the one before it, the
  tightest case of the walk and of gc.
- *Settings*. One name more than ids, so that the ids run out.

Security level 3 stands for 3 and above, and pairing is that of LE Secure
Connections.

### Fairness

The main thread, the keyboard thread, the interrupt and the stack's threads are
weakly fair: nothing in the program disables interrupts or starves a thread for
good. A keyboard finishes a frame and a sequence it has begun, but nobody has to
type. `ParserReturns` also assumes that codes keep coming, since the parser
waits without a timeout. In `SendSpec` the keyboard clocks for ever, the most
favourable one for the code. Hosts are not fair: they need not connect, pair or
subscribe. In `Hog` the link layer delivers a notification or the link is lost,
which its supervision timeout sees to. `BecomesConnectable` supposes that power
stays on from some time on.

## Proofs

TLAPS checks these for all values of the constants that satisfy the modules'
assumptions.

- `PS2ConnectorProofs`: `ConnectorTypeCorrect` and `ConnectorNoByteWithoutEdges`,
  from `ConnectorAssumption` only, so for every noise, latency and start of the
  keyboard. `TypeOK` needs `LineInv` (the clock is low only inside a frame) and
  `QueueInv` (a reader that was woken has its message). The count of edges also
  needs `full` to be finite; its arithmetic is a lemma on constants for each kind
  of step. `ConnectorDeliversWhatWasSent` and `ConnectorLossIsExplained` are
  under `GoodLine` (prompt interrupts, quiet start, noise that spares start
  bits). Neither is inductive. `ExactInv` adds what init has done (`BootInv`),
  the reader's state against the queue (`ReaderInv`), that the shift register
  holds the bits received of the current frame with at most one inverted
  (`FrameInv`), and that the histories agree for the frames served
  (`HistoryInv`). A parity error ends a frame one edge early; the stop bit that
  follows is high and fails the start-bit check, which is why the next frame is
  aligned. The facts about bits and histories are lemmas on constants.
- `MsgQProofs`: `MsgQTypeCorrect`, `MsgQWaitersMatchTheQueue`,
  `MsgQFirstInFirstOut` and `MsgQWokenReaderHasMessage`, for any threads,
  priorities and size. `QueueInv` joins the types with `RingInv` (the cells from
  `read_ptr` on are the accepted messages that have not left), `WaitInv` (no
  thread waits twice, readers wait on an empty queue and writers on a full one)
  and `WokenReaderHasMessage`. First-in-first-out rests on all of them: a put may
  bypass the buffer only because a waiting reader proves it empty. What the
  operations do to sequences and to a ring are lemmas on constants.
  `MsgQImplementsRxQueue` is the refinement on which `PS2Connector` and `KeyPath`
  rest: `RxInv` adds to `QueueInv` that only the keyboard thread is ever inside a
  call, and that this is a get.
- `KeyPathProofs`: `TranslatorTypeCorrect`, `TranslatorNoKeyTwice` and
  `TranslatorHostIsUpToDate`, for any tables, slots and codes. The invariant
  joins the parser's position (`ParserInv`) with the report (`ReportInv`); each
  function that changes the report keeps `ReportInv`.
  `TranslatorPauseIsMomentary` and `TranslatorEveryKeyHasABreak` also use
  `TableAssumption`: no table entry is the pause key, and what lies behind the
  table, if it can be read, is `KEY_UNKNOWN`. They need each other and `IInv`.
  `KeyPathImplementsTranslator` holds for any keyboard whose sequences are made
  of the parser's codes. `PathInv` says that what is on the wire, in the queue
  and handed over are such codes. `KeyPathTypeCorrect` and `KeyPathKeepsReport`
  follow from it and the translator's theorems.
- `KeyStreamProofs` and `KeyReportProofs`: what the report shows once every code
  is parsed, for any number of keys, slots, queue places and lost codes.
  `KeyPathNoPhantomKeys` and `KeyPathHeldKeysAreReported` hold as long as no code
  is lost (the second as long as the keys fit the report, and but for keys in a
  fake shift that have not repeated), and
  `KeyPathRetypingClears` after any losses. `KeyPathModifiersAreMasks` has the hypothesis
  `MasksFit`: the value the tables give a modifier is its mask, and no two
  modifiers share a bit. It is true of the keys of the run `keys`. It holds for
  modifiers outside the extended table and not for the others, which is
  what `right_modifiers` shows.
  None of them is inductive, since they speak of moments when nothing is under
  way. `StreamInv` says what is true in between. The codes under way (`Stream`:
  handed over, queued, on the wire) are *phrases* one after the other, the first
  of them perhaps half read: each code can be tagged with its phrase and its place
  in it, and the parser waits where that place requires (`Reading`). A phrase is
  what the parser reads to one change of the report (`ReadsPhrase`, one lemma for
  each shape of sequence). Each phrase leads from a *moment* (the keys down, whether
  they fit, the usages to be trusted) to the next; the last one leads to what
  the user holds now, and the report shows the first (`Shows`). Then each step of
  the keyboard adds one or two phrases at the end, a put or a get moves a code
  within the stream, and the parser's step takes one off the front. A lost code
  makes the rest unreadable. From the next time that nothing is under way the
  invariant holds again, with no usage to be trusted but those pressed and
  released since (`FreshStart`); that is what `RetypingClears` is about.
- `BtLinkProofs`: `LinkOpensWhenSecure` needs no invariant, but a look at each
  handler that evaluates the CCC. `LinkTypeCorrect` holds for any hosts and any
  sizes of table and key pool. `LinkInv` consists of what is up at which stage of
  boot (`BootInv`), the flags, the table (`TableInv`) and the key pool
  (`PoolInv`). That the pool stays within `MaxPaired` when it is read from flash
  is the point of `PoolInv`: flash has keys of bonded hosts only, each of which
  has its slot in RAM, so that what was written fits again. `LinkAssumption` says
  that `None` is neither a host nor a value of the CCC; the code has no address
  and no value in common.
  `LinkGateMatchesSubscription`, `LinkSubscriptionSurvives` and
  `LinkHasRoomToSubscribe` hold for any number of hosts, bonds and table entries.
  They rest on `SubscriptionInv`: the table holds the connected host's last wish
  (`wanted`) and nothing else, because a value that is switched off gives its
  entry back (`gatt.c:1663`) and so does a host that leaves; the summary value is
  that wish once the link is secure (`GateInv`); and flash has the wish of each
  bonded host that is away (`StoredOf`). A wish that has not taken effect yet
  belongs to a bonded host. This is what makes the early return of
  `disconnected_cb` harmless (`gatt.c:2382`), which looks at no entry while the
  value is off: `bt_gatt_disconnected` stores and clears the entries of bonded
  hosts.
- `HogProofs`, for any hosts, reports, number of buffers and length of the
  string. `HogTypeCorrect` and `HogNoReportForAnotherHost` rest on `HogInv`: who
  holds a buffer, and that a thread that waits for one holds a reference to the
  connection, so that its place is not given to another host. `HogUndisturbed`
  adds `UndisturbedInv`: as long as nothing has disturbed the keyboard thread's
  call, `input_keyboard` has the parts copied so far and the notification the
  parts filled in so far. `HogNothingSticks` is for `Unhurried` (it fails
  without) and adds `SticksInv`: once `keyboard_print` has handed over its last
  report, which is empty, each part of `input_keyboard` and of a notification is
  empty or the keyboard thread's, except where that thread has yet to copy over
  it.
- `SettingsProofs`, for any names, values and number of ids: `SettingsOnePlace`,
  `SettingsRefusedMeansFull`, and `SettingsImplementsKvStore`, the refinement of
  `KvStore` step by step. `SettingsInv` says that what has a name has a value and
  a name is found once (`EntriesInv`), and for each place in a call what the
  entries look like there (`SaveInv`, `DeleteInv`, `ReturnInv`). Each call has one
  step that takes effect for the abstract store: the value if the name is there,
  the name if the id is not above the largest, else the largest id; and the largest
  id or the name in a deletion. All other steps leave what a load would find as
  it is (`StoreStays`), those of a load among them, since it deletes only what
  has no name. A refused save has found a name at each id, which makes the names
  that would be loaded as many as the ids.

Only model-checked: all liveness (`AcceptedIsDelivered`, `InitReturns`,
`ParserReturns`, `ReleaseIsReported`, `BecomesConnectable`, `CallsReturn`; out of
the prover's reach), the tables of `ByteTables` (one state for each of the 256
bytes), and
`Nvs` (`AlwaysMounts`, `ReadsWhatSurvives`, `FitsInOneSector` and its refinement of
`KvStore`), whose functions walk the flash recursively: what they compute is an
induction over data.

`KeyboardAssumption`, on which the theorems about the report rest, says which
keyboards they are about. Each key is of one of five shapes: a code of the
table, a code of the extended table, one of these in a fake shift as with Num
Lock on, Print Screen, and Pause. Each stands for a usage of the tables or has a
mask. It leaves out keys that the tables do not know, and sequences that change
while another key is held: the arrows with shift down (`E0 F0 12 E0 6B` and
`E0 F0 6B E0 12`) and Print Screen with control or shift down (`E0 7C`), which the parser
reads differently. For such keys the report is not claimed to be right, and
`TranslatorNoKeyTwice` and `TranslatorEveryKeyHasABreak`, which hold for any codes, are
all that is proved.

## Not modelled

- Most of the repository. It is a copy of the whole Zephyr tree, some 840 000
  lines, of which a few per cent are built into this firmware: other
  architectures, boards, drivers, protocols, samples and tests are not part of
  the program. Modelled are the program itself, and of Zephyr the code whose
  state decides what the program does: `msg_q.c`, the paths of `gatt.c`,
  `att.c`, `conn.c`, `hci_core.c`, `smp.c` and `keys.c` that `BtLink` and `Hog`
  name, `settings_nvs.c` and `nvs.c`.
- The Bluetooth controller, L2CAP, and the messages of the pairing protocol:
  pairing is one step that agrees on keys and one that completes or fails.
- The scheduler, beyond the order of the wait queue and the rule that the main
  thread preempts the keyboard thread.
- An `nvs_write` that fails in `SettingsNvs`; `FitsInOneSector` shows that there
  is room for what the program stores. `nvs_clear`, `nvs_calc_free_space` and
  reads of older values, which it does not call. `nvs_write` searches before it
  takes its mutex; the settings lock keeps other callers out.
- Reads of constant attributes and the control point of `hog.c`, which nothing
  reads back; `report_map_mouse`; the battery and device information services;
  logging.
