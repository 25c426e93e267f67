# A TLA+ verification project for speculos

Speculos runs Ledger applications on a computer.  A C process (`src/src/`)
loads the ARM application and emulates the system calls of the operating
system; a Python process (`src/speculos/`) plays the microcontroller (MCU):
screen, buttons, time, USB or NFC, and a REST API.  The two talk over one
socket with the SEPROXYHAL protocol: tagged packets, of which the application
reads *events* one at a time, and answers each with *commands* and one final
*status*.

The project models the parts where threads, processes and protocols meet, the
system calls of the emulated device that keep state, and the algorithms of its
cryptography, checks them with TLC on small instances and proves the central
safety properties with TLAPS for every instance.

## 1. Inventory

| Part | State | Operations | Interacts with |
|---|---|---|---|
| `SocketHelper` (`mcu/seproxyhal.py`) | `queue`, `tick_requested`, `stop`, `ticks_count`, `queue_condition`, `sending_lock` | `queue_packet`, `add_tick`, `wait_until_tick_is_processed`, `send_packet`, `run` | every thread of the MCU; the socket |
| `TimeTickerDaemon` (same file) | `paused`, `_paused`, `_resume_cond` | `pause`, `resume`, `run` | `SocketHelper.add_tick`, API threads |
| `SeProxyHal` (same file) | `status_event`, `events`, `apdu_callbacks`, the transport | `can_read`, `handle_button`, `handle_finger`, `handle_ticker_request`, `handle_wait`, `to_app` | main loop, API threads, automation, transports |
| Transports (`mcu/transport/`) | USB: `state`, `packets_to_send`, `hid_packet`; NFC: `rx_sequence`, `rx_data` | `config`, `prepare`, `send`, `handle_rapdu` | `queue_packet`; the device's USB stack |
| Device I/O (`src/bolos/io`, `src/bolos/seproxyhal.c`) | packet state, cached event, USB device and classes, `rx_apdu_*`, `tx_apdu_*` | `sys_os_io_seph_tx`, `sys_os_io_seph_se_rx_event`, `os_io_rx_evt`, `os_io_tx_cmd`, the `USBD_*` handlers | the socket; the application |
| APDU access (`api/apdu.py`, `mcu/apdu.py`) | one bridge per request, `response`; the TCP client | `exchange`, `seph_apdu_callback`, `forward_to_client` | transports, callbacks of `can_read` |
| Automation and events (`mcu/automation.py`, `api/events.py`) | rules, variables, clients | `get_actions`, `broadcast`, `generate` | `can_read`, API threads |
| Launcher, `os_lib_call`, NVM (`src/launcher.c`, `src/bolos/os.c`, `default.c`) | the mapped application, saved registers and exception records, the NVRAM and its file | `load_app`, `os_lib_call`, `os_lib_end`, `nvm_write`, `os_sched_exit` | the application |
| PKI (`src/bolos/os_pki.c`, `os_signature.c`) | the loaded key, its usage and name | `os_pki_load_certificate`, `os_pki_verify`, `os_pki_get_info` | the application; the lock of the big numbers |
| Big numbers (`cx_bn.c`, `cx_mpi.c`, `cx_math.c`, `cx_ecpoint.c`) | the lock, the slots and their sizes | lock, alloc, destroy, arithmetic | everything with a curve |
| Curves and keys (`cx_ec*.c`, `cx_twisted_edwards.c`, ..., `os_bip32.c`, `hdkey/`, `endorsement.c`) | tables; the endorsement keys | point arithmetic, signatures, DER, derivations | big numbers, hashes |
| Hashes (`cx_sha*.c`, `cx_blake2b.c`, `cx_ripemd160.c`, `cx_hmac.c`, `cx_hkdf.c`) | a context per hash or MAC | `init`, `update`, `final` | the application |
| System calls (`src/svc.c`, `src/emulate*.c`) | none | the dispatch of a call to its function | the application |
| Run-length bitmaps (`mcu/rle_custom.py`, `src/bolos/nbgl_rle.c`) | none | encoders, decoders | build tools, drawing |
| Display, OCR, VNC, command line, client | pixels | drawing | `can_read` |

What is hard here is not any single function but their meeting: four kinds of
Python threads share plain attributes and two conditions; some checks are made
under a lock and used outside it; the MCU must send exactly one event per status
although three places may send; the USB enumeration runs in the main thread
while other threads already send; the device waits for an acknowledgement in a
loop that gives up; and an application may restart its stack at any time.  Below
the application, the system calls are sequential, and what is hard is a long
sequence of legal calls (libraries that call libraries, handles that outlive their
numbers, certificates refused half-way, packets and hashes cut anywhere) and the
edges of widths, paddings and formats.
`PROJECT.json` lists these hazards line by line.

## 2. Modules

| Module | What it models |
|---|---|
| `SeProxyHal` | the MCU side of the link with all its threads, and the application's turn |
| `TickerHistory` | `SeProxyHal` with history variables, to say what pausing and holding promise |
| `MCLink`, `MCTicker` | instances for TLC |
| `SeProxyHal_proof` | theorems about `SeProxyHal` and `TickerHistory` |
| `UsbHid` | an APDU exchange over USB HID: the transport of the MCU, the device's USB stack, the Ledger protocol and the application |
| `ApduExchange` | what an APDU transport promises; `UsbHid` implements it |
| `UsbHid_proof` | theorems about `UsbHid`, the implementation of `ApduExchange` included |
| `ApduBridge` | the requests of `POST /apdu`, their bridges, and the callback loop of the main thread |
| `ApduBridge_proof` | theorems about `ApduBridge` |
| `SephIo` | the application's end of the socket: `io.c`, `os_io_rx_evt` and `os_io_tx_cmd`, against the MCU's parser |
| `UsbControl` | the control endpoint of the device's USB stack: requests, stages, reset, suspend, restart |
| `LibCalls` | library calls, exception records, NVRAM and its file |
| `OsPki` | the loading of certificates and the calls that use the loaded key |
| `CxBn` | the slots and handles of big numbers and points |
| `CxMpi`, `CxMath` | arithmetic at given widths: `cx_mpi.c`, and `cx_math.c`, `cx_utils.c` |
| `EcCurves`, `EcKeys`, `EcDomains` | points; keys and signatures; the tables of the curves |
| `Der`, `DerCalls` | the reader and the writer of signatures in DER; their calls, against X.690 |
| `CxHash`, `CxHmac`, `CxKeccak` | streaming and padding; HMAC, HKDF and EIP-2333; the permutation of Keccak |
| `PathCheck` | which paths an application may derive: the two checks of its declaration |
| `HdKey`, `Endorsement` | derivations; endorsement keys |
| `Rle` | the run-length codecs |
| `MCCodecs` | calls of the pure functions, one at a time, with what each must return |
| `MCDevice` | the parts of the device together |
| `SephIo_proof`, `UsbControl_proof`, `LibCalls_proof`, `CxBn_proof` | theorems about these modules |
| `Crypto_proof` | theorems about `OsPki`, `CxHmac`, `CxHash`, `PathCheck` and `DerCalls` |

### SeProxyHal

One action is one access to shared state, because CPython may switch threads
between any two; what happens under `queue_condition` is one step, since its
notifier needs the lock.

| State | Code |
|---|---|
| `queue`, `tickRequested`, `stop`, `statusSet` | `SocketHelper.queue`, `.tick_requested`, `.stop`, the flag of `status_event` |
| `paused`, `parked` | `TimeTickerDaemon.paused`, `._paused` |
| `pc`, `todo` | where each thread stands; the steps an API request or a packet still has to make |
| `elapsed` | `ticks_count - start` of `handle_wait`; the code only uses the difference |
| `toApp`, `toMcu`, `closed`, `app` | the socket and the application's turn |

| Actions | Code |
|---|---|
| `WaitForWork` ... `ClearTick` | `SocketHelper.run`, line by line |
| `AddTick`, `TickNotify`, `WaitRead*` | `add_tick`, `wait_until_tick_is_processed` (three separate reads) |
| `Daemon*` | `TimeTickerDaemon.run`, `_wait_if_time_paused` |
| `QueuePacket`, `QueueNotify` | `queue_packet` |
| `Request`, `Pause`, ..., `WaitElapsed` | `api/button.py`, `api/finger.py`, `api/ticker.py`, `handle_ticker_request`, `handle_wait` |
| `CanRead`, `SetStatus`, `SendProcessed`, `CanReadEof` | `can_read`; automation rules queue their events before the status is published |
| `App*` | the application as `src/bolos/io/io.c` lets it behave: commands, one status, then one event |

A request is a sequence of steps: a press-and-release of a button is
`<<Press, "wait", Release, "wait">>`.  The content of events, drawing and logging
are abstracted.  The sleeps of the daemon and of the polling loops take any time.
Two tags on whose meaning the two sides disagree (0x5E, 0x66) are not sent by the
model of the application; `PROJECT.json` lists them as hazards.  Ticker and display
events are not in `Events`: a packet that a client of the APDU server gives raw to
`to_app` and that imitates one is left out.

### UsbHid and ApduExchange

`SeProxyHal` carries packets in order and one at a time, so that `UsbHid` has two
queues in its place.  A chunk is the unit of data.  The MCU's transport is
modelled access by access (`ReadState`, `ReadLen`, `KeepPacket`, `PostPacket` are
the four outcomes of `_send_xfer`); the device runs in one thread and handles an
event in one step: `USBD_SetAddress`, `USBD_SetConfig`,
`USBD_LEDGER_HID_data_out`, `USBD_LEDGER_HID_data_in`, and the loop of
`os_io_tx_cmd` (`count`, `Looping`), which reads events itself after a response.
`SameThread` says who sends: the APDU server in the main thread, or a thread of
the REST API.  Exchanges are numbered, so that a late or mixed chunk is told from a
right one.  A client may give up at any moment (`Timeout`), whatever the MCU, the device
or the application still holds of its exchange, and send its next command; the history
variable `late` says that one did so while its exchange was on its way, and `cut` that the
application then answered while the class was busy, so that the first chunk of that
response was never sent.  A restart leaves the state of the device as it is when its
classes are unchanged (`USBD_LEDGER_start` skips `USBD_Init`); the device then refuses the
SET_ADDRESS that follows, and the MCU, which waits for it, keeps every later packet back.
`ApduExchange` is the abstract promise: commands are delivered whole, in order and at most
once, and answered at most once; until a client gives up an exchange on its way, each goes
on with the answer to its own command and the next one is sent after it.

### ApduBridge

Flask creates an `APDU` resource, and it an `APDUBridge`, for every request, and
nothing removes one: bridges are numbered by creation, `bridges` is the length of
`apdu_callbacks`, and `next` is where the main thread's loop over that list
stands.  A command and its response are named by the bridge that sent the command,
so that a foreign or late response shows.  `Post` is the constructor, `Reset`,
`ToApp`, `Check`, `WaitEnds` and `TimeOut` are `exchange` (what is done under
`response_condition` is one step), `Receive`, `Callback` and `Done` are the loop
of `can_read`.  `endpoint_lock` has no variable: each bridge has its own, so it is
always free.  The transport and the application are a queue that answers every
command in order, which is what `ApduExchange` promises; the tick timeout may
strike at the end of any wait.  `disturbed` is a history variable: the bridges that
began or sent while something was under way, or during which another one sent.

### The device below the application

The emulated system calls run in one thread, to completion, and the parts below
share no state with each other: an action is one call (a call of `sys_cx_hash` and
a check of a path have one step per turn of their loops, so that no recursion is needed), and `MCDevice` puts the
parts side by side with a variable `part` that says whose behaviour it is, so that
the run is their union and not their product.  The exception is the lock of the
big numbers, which `OsPki` and `HdKey` read as an input.

`SephIo`.  `seph` is `G_seph_info` (state, length and offset of the packet,
status of its tag), `cached` the event in `G_io_seph_buffer`, `mcu` the parser at
the other end, which counts the bytes on its own.  The application gives any piece at
any time (`Send`): its number of bytes, whether it looks like a status, and the length it
declares, all independent, so that every refusal of `sys_os_io_seph_tx` happens.  A first
piece longer than what it declares is refused with -24 after the packet was noted, and the
two ends count different packets from then on (`torn`; the MCU may then find a status
anywhere).  It calls `os_io_rx_evt` and `os_io_init` when it likes; an event is read
inside a command when the state refuses it, and by the loop of `os_io_tx_cmd` for a
USB packet (`UsbWait`, `tries`), which does not look at what it reads.  `drained` and
`lost` are the events that went that way or were overwritten or cleared in the buffer,
and `careless` says that the application did what makes the latter possible.

`UsbControl`.  `udev` is the handle of the stack, `wire` what endpoint 0 was given
for the current transfer, `taken` how much of it the host took.  A request runs
through the same functions as in `usbd_core.c`, `usbd_ctlreq.c` and the HID class;
descriptors are their lengths.  The host may send a request while a data stage is
under way, reset, suspend (twice, too) and resume the bus, and the application may restart
the stack under the same or another identity.  The packet size of endpoint 0 is state
(`max`): it is zero until `USBD_LL_Reset`, and the emulated MCU never sends the event that
leads there, so that its device is the one whose bus was never reset.

`LibCalls`.  `memory.code` is the application that is mapped, `libcalls` what
`os_lib_end` returns to, `try_context` and `context` belong to a depth of calls,
and NVRAM cells are written to memory and to the file.  The history variables `wrote`
and `mapping` hold what each application wrote since its file was begun, and whether the
memory was mapped again from the ELF file and what was written since.

`CxHmac`.  `hmac` is the context, `hmacKey` the application's key, `hmacSet` what the
context was set up with: the key (`given`), the key of zeros that `cx_hmac` uses when it
sets it up again after `CX_LAST`, or nothing more (`spent`, with `CX_NO_REINIT`).  Any
call may follow any other.

`OsPki`.  A certificate is read field by field; each field may be good or bad, the
key goes to the caller's buffer first, and the signature is compared with the
root's key or the loaded one.  `certified` and `verdict` are history variables:
what a chain of signatures from the root certifies, and whom a verification
confirmed.

`CxBn`.  `handle` holds the application's variables, stale ones too, `owned` those
it has to destroy, `orphans` the slots that nothing names.  Every path that runs
out of memory is an outcome of its call.  `undef` is set once a call destroyed
handles that it never wrote (`cx_ecpoint.c:80`): what follows is undefined, and
the properties only speak of what is before it.

`CxHash`.  `hctx` is the context: the buffered bytes, the counter and what was
compressed so far (`acc`); `hcall` is the call under way: the local `blen` of the update
function and the data it has not copied yet.  `sys_cx_hash` starts a call, `Turn` and
`BlakeTurn` are a turn of the loop of an update function, `Rest` its `memcpy` of what is
left, `HashEnd` the test of `CX_LAST` with the final function.  Nothing else runs during
a call.  Byte k of a message is the number k, so that a byte that is lost, repeated or
moved shows.

`PathCheck`.  `asked` is the request with the declaration of the application, whose
bytes are what the code reads; beside them stand the entries that they mean and where
each begins, which only the properties use.  `os_perso_derive_node_bip32_check_path` and
`hdkey_validate_path` are what each check decides before it looks at the entries,
`CheckEntry` is a turn of their loops and `CheckEnd` the verdict.  Declarations are
whole, except that the last entry may be cut off for `hdkey_validate_path`, which checks
for it; `os_perso_derive_node_bip32_check_path` would read past the end.

`Der`.  The reader works on real bytes; the input has fewer than 256 of them, so that a
length of two bytes or more is above what is left.  The reader compares the length of
the whole with the end of the input but that of an integer only with the next tag and
the end: a byte that it takes from behind the input is `past`, any value.  `Encode` and `Decode`
of `DerCalls` are one call each.

The pure functions are operators with the names of the source, over inputs that
are scaled down where width is what matters (a byte of `CxMpi` has `ByteBits`
bits) and real where the format is (DER, run lengths, the tables of the curves,
Keccak).  Hash functions are terms in `CxHash` and `CxHmac`, so that two messages
have the same hash only when they are equal, and parameters in `HdKey`.  OpenSSL is
modelled by the arithmetic it stands for and marked external.

## 3. Runs

| Run | Checks | Shows |
|---|---|---|
| `link` | `OneTurn`, `TurnNotLost`, `NoUnexpectedState`, `NoLostWakeup`, deadlock | one event at a time, no lost turn, the sender's `RuntimeError` is unreachable, no lost wakeup |
| `stopped` | `PauseStopsTime`, `HoldExact` | with the time paused for good, only the client ticks, and a press lasts exactly its delay |
| `stepped` | `WorkIsSent`, `StepReturns`, deadlock | what is queued is sent and every step of a stopped clock returns, resumes included |
| `pause_race` | `PauseStopsTime` (violated) | pause, resume, pause: the second pause returns on the stale flag |
| `resume_lost` | `ResumeRestarts` (violated) | a resume before the daemon waits is lost |
| `hold_race` | `HoldAtLeast` (violated) | a tick sent before the press is counted in its delay |
| `usb` | `ApdusWhole`, `NoChunkIgnored`, `ReadyToAnswer`, `ExchangeEnds`, `QueuedPacketsSent`, the refinement `IsExchange` | exchanges over HID with the APDU server, through enumeration, a restart and unrelated events |
| `usb_api` | `QueuedPacketsSent` (violated) | a packet of an API thread is kept back forever |
| `bridge` | `Heard`, `OwnUnlessDisturbed`, `Returns` | no response is missed, exchanges return, an exchange that was alone yields its own response |
| `bridge_late` | `OwnResponse` (violated) | one client, no timeout: its next request hears the response to the previous one |
| `device` | the 23 properties below, deadlock | the device below the application |
| `tables` | `SecondConstants` (violated) | the bytes of `C_cx_EdBLS12_Hn` are not the number of their comment: 63 digits were packed from the left |

The six violated properties are what a docstring, a comment or the API description says;
`PROJECT.json` quotes them under "findings".

The properties of `device`:

| Property | Says |
|---|---|
| `TurnAgreed` | the application and the MCU agree whose turn it is and where the packet ends, whatever was cut or refused, until a first piece is refused with -24 |
| `EventsInOrder` | an event that a command read on its way is not overtaken, nor lost unless the application ends a status or calls `os_io_init` while it is kept; those read for a USB packet are accounted for |
| `DataStageWhole` | a descriptor arrives whole, in full packets, and the host can tell its end, the empty packet included; on a bus that was never reset only empty packets are sent |
| `ClassFollowsState` | the class and its endpoints are open together, and are while the device is configured, across suspend, reset and restart; only a second suspend leaves a device that takes itself for suspended on a bus that is awake |
| `AnsweredOnce` | a request has one answer: data, a status or a stall; the kinds that get none (`Ignored`) or two (`HaltCleared`: a status, then a stall; `NothingAsked`: data, then a status) are listed |
| `AppRestored` | after a library the caller runs with its own code, depth and exception record; what an application wrote since its file was begun is in that file; it reads its file until its first library returns, and then the ELF image but for what it has written since |
| `PkiTrusted` | the loaded key was certified by a chain from the root, for the usage that was asked for, and only such keys are confirmed |
| `BnAccounting` | the totals beside the slots are their sums, on every path |
| `BnOwned` | what the application owns is there and is its own; nothing else is used but what `sys_cx_bn_mod_pow` leaves |
| `HashOfWhole` | a digest is the standard's of all the data, however it was cut into calls |
| `MacOfKey` | the first code after a key was given is the HMAC of RFC 2104; those after it, of a context that `cx_hmac` set up again, are of a fixed key that has nothing to do with the application's |
| `KeccakStandard` | the tables of the permutation are the standard's, and 24 rounds give the published lane |
| `ExpansionStandard` | HKDF is RFC 5869, and the Lamport key of EIP-2333 is the standard's |
| `MpiExact` | every operation on big numbers is the operation on the integers, within its width, for operands of one and of two words and with the result in the slot of an operand or both operands in one slot; `cx_mpi_cmp` is excepted where a is wider than b (`cx_mpi.c:528`) |
| `GroupLaw` | addition, doubling and multiplication of points are those of the group, by counting; the ladders agree with them, but for the odd multiples of a point of order two on the twisted Edwards curve, where the one of `cx_twisted_edwards.c:117` ends with z = 0 |
| `CompressionLossless` | decompressing a compressed point gives the point |
| `DerRoundTrip` | the reader returns two positive numbers exactly for their DER encoding, of which there is one; the writer writes it, as long as a length is one byte (above that, with numbers of 512 bits and more, it writes a length that is not DER; and the reader takes an empty integer for a zero) |
| `SignatureVerifies` | a signature verifies, also after a refused nonce, and its flags recover the point unless the caller or a refused nonce left others in `info`; and an endorsement is one of its key |
| `CurveTables` | base points are on their curves, Montgomery constants and sizes are right, both copies of the tables agree, and so do the calls that read them |
| `PublicDerivation` | the public key of a derived private key is the one derived from the public key |
| `PathAuthorised` | a path is allowed exactly if the application's declaration lists a prefix of it, and its curve |
| `TagOfEachIndex` | the registered keys of ZIP-32 use the tag of their own index |
| `RleRoundTrip` | each decoder inverts its encoders, the device's included |

Bounds.  `link` has two clients, because two are needed for one to change what
the other waits for, and one queued event beyond those of the main thread
(`MaxQueue`), because the sender only tells an empty queue from a non-empty one.
The clients press a button, pause and resume, or single-step; a rule and the
transport queue one event each.  They do not hold a button there: a client that
waits while the resume of another one is lost waits forever (`resume_lost`).
`stopped` and `stepped` have one client and a delay of two ticks, so that ticks could
be merged.  `usb` has
commands of one or two chunks and responses of one or three (first, middle, last), two
exchanges, of which the first may be given up, one restart and two events in the queue; the loop of `os_io_tx_cmd` reaches its limit of five
because unrelated events come without end.  `usb_api` needs no restart.
`bridge` has two clients and four requests, so that a third and a fourth request
can begin while the response to a late command is handed out; the requests are
bounded, so a behaviour may end and deadlock is not checked.
`device` has two library calls, so that a library calls one; seven slots, which are
the three numbers of a point and the four that normalising it takes, and not more,
so that each of those allocations fails in some state; three events, so that one can
be kept while another follows, and two reads for a USB packet in place of five; blocks of four bytes and up to 14 bytes of data, which
are all positions in a block and three blocks; an endpoint of nine bytes, of which the
device descriptor (18 bytes) is a multiple and the configuration descriptor (41) is
not, and three packets (`MaxEmpty`) of a data stage that never ends; bytes of three bits and words of two bytes, so that carries cross words; curves over
the field of 29 elements, on which the group is counted; paths of up to four
indexes; runs around each limit of the run lengths.  Certificates have one key that
is not a root, and field values on both sides of each check.  A part that comes to an
end (24 rounds, the last event, the end of the process) stays there with `Ended`;
anything else that stops is reported as a deadlock.

Fairness.  Every Python thread and the device run (weak fairness of their steps):
the interpreter and the kernel schedule them.  The application sends a general
status again and again (strong fairness of `AppStatus("GENERAL_STATUS")`), because
its event loop ends the handling of an event with one once the elements of the
screen are displayed.  No fairness is assumed of clients that start requests, of other
commands, of exits, restarts or timeouts.  `bridge` assumes that the main thread and
the clients run and that the application answers every command.

## 4. Proofs

### The link

`SeProxyHal_proof` proves, for any set of clients and requests, any rules and
answers and any bound:

- `TypeCorrect`: `Spec => []TypeOK`.
- `SenderHasWork`: `Spec => []NoUnexpectedState`.
- `TurnIsUnique`: `Spec => []OneTurn`.
- `TurnIsNeverLost`: `Spec => []TurnNotLost`.
- `WakeupsArrive`: `Spec => []NoLostWakeup`.

The assumptions are those of the module: the threads are distinct, the names of
events are not those of steps, and the requests, rules and answers are sequences
of steps or of events.

The inductive invariant is `TurnInv`, the conjunction of

- `TypeOK` and `StepInv`: a thread that is about to finish a step has one, the
  main thread has steps exactly when it is not reading, and the mark that
  publishes the status or answers a display status is the last of them; without
  it `Tail(todo[t])` and the sender's `sending` would be unconstrained;
- `NoUnexpectedState`: what the sender left its wait for is still there.  Only
  the sender removes from the queue or clears `tick_requested`, and it does so
  after it sent;
- `Single`: no direction of the socket holds two turns;
- `Exclusion`: two different holders of the turn never hold it together;
- `Presence`: somebody holds it, unless the socket is closed.

`OneTurn` alone is not inductive: it does not say that a status in the socket is
behind every command, nor that the main thread does at most one of publishing and
answering.  `NoLostWakeup` is inductive with `TypeOK`: every step but the sender's
own leaves what it waits for and the threads that owe it a notification as they are
(`Undisturbed`), or makes a thread owe one, or wakes it.  The proof has one lemma per group of actions (`PacketStepTurn`,
`AppStepTurn`, `MainStepTurn`, and one for the steps that leave the turn alone)
and one for their types.

### Stopped time

The same module proves two action properties of `TickerHistory`:

- `PauseKeepsItsPromise`: `NoResume => (HSpec => PauseStopsTime)`, for any number of
  clients.  `NoResume` says that no request resumes the time; with one that does, the
  property is false (`pause_race`).
- `HoldsAreExact`: `\A c : Timed(c) => (HSpec => HoldExact)`.  `Timed(c)` says that `c`
  is the only client, that the delay is at least one tick, that requests press and
  release in one whole request (`<<Press, "wait", Release, "wait">>`) or not at all, do
  not resume the time, and that rules and answers queue no button.  The delay, the
  length of the queue, and all other requests, rules and answers are arbitrary.  One
  client and no resume are essential: two clients that ask for a tick at the same time
  share one (TLC finds it with the second client), and a resume makes the daemon tick.
  The instance of `stopped` satisfies all of it.

The first rests on `StoppedInv`: once the daemon has read that its last tick was sent, a
tick that is still requested is awaited by a client (the request of a client can be
merged with the daemon's, and the other way round, so this is not obvious), and
`_paused` is set only while the daemon rests.  Then the flag that `pause` polls is true
only while the daemon can do nothing, and only a resume would change that.

The second adds `ShapeInv`, `PausedInv` and `ExactInv`.  `ShapeInv` says that what the
client has left to do is plain, a whole press-and-release, or the rest of one after k
of its ticks (`Holding(k)`).  `PausedInv` says that while the daemon makes sure that its
last tick was processed the client waits in `pause`, so that no button and no tick is
under way when the time stops.  `ExactInv` is the count: while the time is stopped at
most one button is between the client and the application (queue, sender or socket); a
tick exists only while the client asks for it and never overtakes the button
(`TicksInv`); and the ticks that the application saw since the press, the one under way,
and the k that are left add up to the delay (`HeldInv`).  It was checked by TLC with a
delay of two ticks and a queue of two before it was proved.

### The APDU bridges

`ApduBridge_proof` proves, for any set of clients and any bound on the requests:

- `BridgeTypes`: `Spec => []TypeOK`.
- `NoResponseMissed`: `Spec => []Heard`.
- `UndisturbedIsOwn`: `Spec => []OwnUnlessDisturbed`.

The inductive invariant is `BridgeInv`: the types; `OwnBridge`, which says that
the bridges of the clients exist and are distinct, so that the reset of one never
erases the response of another; `Heard`; and `AloneInv`, which says what is under
way during an undisturbed exchange: nothing before its command is sent, then only
its own command and response.  `Heard` needs `OwnBridge` (the loop ends behind
every bridge that waits), and `OwnUnlessDisturbed` needs `AloneInv`, since a result
is only as right as the response stored before it.

### USB HID

`UsbHid_proof` proves, when the commands come from the main thread (`SameThread`), for
any numbers of chunks, bound of the queue and number of restarts:

- `TransportInvariant`: `Spec => []IInv`.
- `WholeApdus`: `Spec => []ApdusWhole`.
- `ChunksInSequence`: `Spec => []NoChunkIgnored`.
- `ClassIdle`: `Spec => []ReadyToAnswer`.
- `ImplementsExchange`: `Spec => IsExchange`, the refinement of `ApduExchange`.

With a thread of the REST API (`SameThread = FALSE`) `ApdusWhole` and `NoChunkIgnored`
are false: a chunk can be kept back and overtaken (`usb_api`), so the hypothesis stays.

A chunk on its way to the device may be in the hands of the sender, in
`packets_to_send`, in the list that is being flushed or in the queue of the link.  The
invariant is about their concatenation, `Line`, because a chunk that moves from one to
the next leaves it as it is.  `IInv` is `TypeInv`, `ThreadsInv` (one thread at a time is
in `_send_xfer`, and it posts only when nothing is kept back), `CommandInv` (the chunks
in the line are of commands not delivered yet, in order, each followed by the rest of its
command),
`ReceiveInv` (`process_apdu_chunk` has those before them), `ResponseInv` (the device goes on
where the MCU has got to, unless a response was cut), `OwnInv` (before a client gave up too
early all of it is the current exchange, and one chunk of a response, or its
acknowledgement, is on its way exactly while the class is busy), `NoLossInv` and `BootInv`
(until the first restart the setup packets precede the chunks and none is lost).  The first
two hold whatever clients give up: chunks of several commands may then stand in the line,
one command behind the other.  The refinement needs it in every step that delivers or
answers: that commands are delivered in order is `CommandInv` and `ReceiveInv`, and that
the client's response is its own until one gave up is `OwnInv`.

### The device

- `LibrariesReturn`: `LibSpec => []AppRestored`, for any applications, depth and
  NVRAM.  The inductive invariant adds to the types that the records of pending
  calls are nested (`CallsNested`: each names a caller one level up, with an exception
  record no deeper), that the mapped code is the current application's
  (`CodeMapped`), and what the cells of memory and file hold (`TailsZero`, and the parts of
  the property itself).
- `CertificatesChain`: `PkiSpec => []PkiTrusted`, for any keys and field values.  The
  invariant says that the loaded key is certified, that its usage is the one that was
  asked for, that nothing is loaded while a certificate is read, and that whoever the
  signature is compared with is certified.
- `TurnsAgreed`, `EventsArrive`: `SephSpec => []TurnAgreed` and `[]EventsInOrder`, for
  any sizes of header, packets and pieces.  The invariant is a case distinction (`Turn`): it
  is the application's turn, an event is due, or one is on its way; between the pieces of a
  packet both ends miss the same number of bytes (`SamePacket`), both until a packet is torn;
  and always what was seen, kept and is on its way are in order and, with those drained or
  lost, the events that were sent (`EventsInv`).
- `ClassAndState`: `UsbSpec => []ClassFollowsState`, for any packet size, lengths and
  names.  The invariant adds that a suspended device remembers a state, be it its own.
  Most handlers only touch endpoint 0 (`Keeps`), which is shown bottom up.
- `DataStages`, `OneAnswer`: `UsbSpec => []DataStageWhole` and `[]AnsweredOnce`.  The
  invariant `Answer` has one case per stage of endpoint 0: while data is sent, the packets
  are full, and `rem` and `len` are what is missing of the length that was decided; the
  empty packet is due when that is a multiple of the packet and less than `wLength`;
  then all of it was sent; in any other stage there is one status or one stall, or one
  of the listed exceptions.  Without a packet size nothing is ever subtracted from `rem`.  A packet
  has more than two bytes: a GET_STATUS of an interface sends two whatever `wLength` is.
- `SlotsOwned`: `BnSpec => []BnOwned`, for any number of slots, memory, word size,
  numbers and points.  The invariant says, until a call destroyed what it never wrote,
  that owned handles name used slots, two of them different ones, that a used slot is
  owned or an orphan, and that nothing is used while the lock is free.  The temporaries
  of a call are followed slot by slot (`AllocTakes`, `DestroyFrees`).
- `MemoryAccounted`: `BnSpec => []BnAccounting`.  The bytes of all slots are a set of
  pairs, so that a sum over slots is a cardinality, and an allocation or a destruction
  adds or removes a disjoint set of known size.  The invariant `Balanced` adds that every
  size is a multiple of the word, without which the divisions of `cx_mpi_alloc` and
  `cx_mpi_destroy` would round and the number of words drift.  It also holds after handles
  were destroyed that were never written.
- `CodesOfKeys`: `HmacSpec => []MacOfKey`, for any sizes of hashes, blocks and keys, and
  messages cut anywhere, any number of them one after the other.  The invariant says that a
  context has the key under the inner pad and has hashed it and the message so far; the code
  is right because turning the inner pad into the outer one gives the key under the outer
  pad.  A context that was set up again has zeros in place of the key under the inner pad.
- `DigestsWholeMessage`: `HashSpec => []HashOfWhole`, for any length of blocks, of the
  length field and of messages, each of the seven hashes, and any sequence of calls of
  any size, empty ones and ones that are refused included.  The invariant `HashInv` says
  where the bytes are (`Holds`): k whole blocks are compressed, in order; the next bytes are
  at the beginning of the block; those after them are the data not yet copied; and the
  counter says k (for blake2b, k blocks of bytes).  blake2b keeps its last block back, so that
  with k > 0 something is always left to mark as last; the others never keep a full block.
  A context that was finished or that met the limit on blocks stays out of it
  (`SpentStops`).  That the end is right is shown per family: `MdFinalPads` (80, zeros and the
  length, in one block or in two), `SpongePads` (the suffix and the last bit, which may be
  one byte) and `BlakePads` (an empty message is one block of zeros).  For these, `MissingIs`
  computes the number of zeros of the standard, and `BlocksAre` says when a sequence of
  blocks is the cutting of a message.

- `OnlyDeclaredPaths`: `PathSpec => []PathAuthorised`, for any declarations, with any
  number of entries of both kinds, and any paths.  The invariant `PathInv` says that the
  offset of the walk is where an entry begins, and that no entry before it allows the path
  unless one that does was just met.  It is kept because the length byte leads to the next
  entry (`EntryRead`) and because comparing bytes is comparing with the entry that they
  stand for (`Compared`, `Recompose`); the walk ends only behind the last entry or at one
  that is cut off.

- `SignaturesAreDer`: `DerSpec => []DerRoundTrip`, for any inputs of fewer than 256 bytes,
  any numbers and any buffers.  No state is kept between calls, so the invariant is the
  property; the work is in the parser.  `Stands(b, i, c)` says that the bytes c are in
  b at i and end within it, and each reader is characterised by it both ways: what is
  read stands there in its one DER form (`LengthIsShortest`, `ReadIsContent`,
  `ReadIsInteger`, `ReadIsSignature`), and the DER form that stands there is read
  (`ShortestIsRead`, `ContentIsRead`, `IntegerIsRead`, `SignatureIsRead`).  That the length of
  an integer is not compared with the end does no harm: r ends where the tag of s is
  read, and s where the whole ends.  `Written` shows that the writer concatenates the same bytes.

The assumptions are the named ones of the modules: sizes are naturals, a packet has
room for what a reply of two bytes takes, the value of an ELF cell is told from
written ones, the name of no key is a key, declarations
are the bytes of their entries, and so on.

### What is only model-checked

- All liveness (`WorkIsSent`, `StepReturns`, `ExchangeEnds`, `QueuedPacketsSent`,
  `Returns`): TLAPS does not handle fairness here.
- `KeccakStandard` and the pure functions of `MCCodecs` (DER, which is not among them, is
  proved): what a recursive definition computes for every input needs an induction over data that the prover does
  not do.

## 5. Not modelled

Drawing, fonts, OCR, VNC, sound, formatting, the command line and the client library
have no protocol state.  The dispatch of system calls is a table of signatures.  AES, CRC
and BLS are calls of libraries and tables.  NFC, U2F and the other USB classes (which the
modelled build does not have), the events broadcast, the matching of automation rules and
the byte level of the Ledger protocol are in the plan.  Events that arrive in several reads
(`io.c:50`) are not modelled: the MCU writes an event at once.

## 6. Plan

1. `LedgerFraming` (`HID.send` and `HID._prepare`, `process_apdu_chunk`,
   `LEDGER_PROTOCOL_tx`, NFC): chunks as sequences of bytes with small sizes;
   reassembly is the inverse of chunking, offsets stay inside the buffers.
2. Events broadcast and automation rules.
3. Proofs: lemmas about the operators of the pure functions that need no induction, such
   as one step of a codec or one operation at a width.
