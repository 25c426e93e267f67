------------------------------- MODULE UsbHid -------------------------------
(***************************************************************************)
(* An APDU exchange over the emulated USB HID transport: the transport of  *)
(* the MCU (speculos/mcu/transport/usb.py), the USB stack of the device    *)
(* (src/bolos/io/sdk/lib_stusb), the chunks of the Ledger protocol         *)
(* (src/bolos/io/sdk/protocol) and the application that answers.           *)
(*                                                                         *)
(* SeProxyHal carries events and commands in order and one at a time: here *)
(* it is the queues toApp and toMcu.  A chunk is one unit of the data of   *)
(* an APDU.  The device runs in one thread, so that it handles an event in *)
(* one step; what the threads of the MCU share is read and written one     *)
(* access at a time.                                                       *)
(***************************************************************************)
EXTENDS Integers, Sequences

CONSTANTS
    CmdChunks,     \* lengths of the commands, in chunks
    RspChunks,     \* lengths of the responses, in chunks
    SameThread,    \* the commands come from the APDU server, which runs in
                   \* the main thread, and not from a thread of the REST API
    MaxExchanges,  \* bound on the commands the clients send
    MaxRestarts,   \* bound on the times the application restarts its stack
    MaxQueue       \* unrelated events are queued up to this length

ASSUME ChunksAssumption ==
    /\ CmdChunks \subseteq Nat \ {0} /\ RspChunks \subseteq Nat \ {0}
ASSUME BoundsAssumption ==
    /\ SameThread \in BOOLEAN
    /\ MaxExchanges \in Nat /\ MaxRestarts \in Nat /\ MaxQueue \in Nat

NoId == 0                    \* exchanges are numbered from 1
Threads == {"main", "sender"}

(* Events to the device: XFER_SETUP (SET_ADDRESS, SET_CONFIGURATION),      *)
(* XFER_OUT and XFER_IN, and any other.  Commands to the MCU: USB_CONFIG   *)
(* (CONNECT, DISCONNECT, ADDR, ENDPOINTS of the OUT endpoint) and          *)
(* USB_EP_PREPARE (IN); the commands that the MCU ignores are left out.    *)
Packet(tag, id, seq, n) == [tag |-> tag, id |-> id, seq |-> seq, len |-> n]
Plain(tag) == Packet(tag, NoId, 0, 0)
NoPacket == Plain("none")
EventTags == {"SET_ADDRESS", "SET_CONFIGURATION", "OUT", "IN", "OTHER"}
ConfigTags == {"CONNECT", "DISCONNECT", "ADDR", "ENDPOINTS"}

VARIABLES
    host,        \* the client: idle, or idle after a timeout, sending its
                 \* command, waiting for the response, or answered while it
                 \* was still sending
    cmd,         \* the command of the current exchange
    next,        \* the chunk of it that HID.send builds next
    late,        \* (of the properties) a client gave up while something of
                 \* its exchange was still on its way
    state,       \* USBTransport.state
    packets,     \* USBTransport.packets_to_send
    flush,       \* what _flush_packets has left to pass to _send_xfer
    hid,         \* HID.hid_packet
    answer,      \* what prepare returns to can_read
    pc, out,     \* where each thread is in _send_xfer, and with what
    raised,      \* a ValueError ended the main thread
    toApp, toMcu,
    dev,         \* dev_state of the device
    rx,          \* rx_apdu_* of the Ledger protocol
    tx,          \* tx_apdu_* of the Ledger protocol
    busy,        \* state of the HID class
    count,       \* the loop of os_io_tx_cmd: events read, or -1 outside it
    apdu,        \* the commands the application has to answer
    handled,     \* the last exchange the application received a command of
    cut,         \* (of the properties) the application answered while the
                 \* class was busy
    restarts

hostVars == <<host, cmd, next, late>>
mcuVars == <<state, packets, flush, hid, answer, pc, out, raised>>
devVars == <<dev, rx, tx, busy, count, apdu, handled, cut, restarts>>
vars == <<hostVars, mcuVars, toApp, toMcu, devVars>>

Fresh == [seq |-> 0, len |-> 0, data |-> <<>>]
NoTx == [id |-> NoId, seq |-> 0, len |-> 0]
NoCmd == [id |-> NoId, len |-> 0]

Init ==
    /\ host = "idle" /\ cmd = NoCmd /\ next = 0 /\ late = FALSE
    /\ state = "DISCONNECTED" /\ packets = <<>> /\ flush = <<>>
    /\ hid = Fresh /\ answer = <<>> /\ raised = FALSE
    /\ pc = [t \in Threads |-> "idle"] /\ out = [t \in Threads |-> NoPacket]
    /\ toApp = <<>>
    /\ toMcu = <<Plain("ADDR"), Plain("CONNECT")>>
    /\ dev = "DEFAULT" /\ rx = Fresh /\ tx = NoTx /\ busy = FALSE
    /\ count = -1 /\ apdu = {} /\ handled = NoId /\ cut = FALSE /\ restarts = 0

-----------------------------------------------------------------------------
(* USBTransport._send_xfer, by the thread t: the packet is kept back until *)
(* the endpoint is configured, and behind the packets already kept back.   *)

SendUnconfigured(t) ==                                             \* mutant
    /\ pc[t] = "state"
    /\ pc' = [pc EXCEPT ![t] = "len"]
    /\ UNCHANGED <<hostVars, state, packets, flush, hid, answer, out, raised,
                   toApp, toMcu, devVars>>

ReadState(t) ==
    /\ pc[t] = "state"
    /\ pc' = [pc EXCEPT ![t] = IF state = "CONFIGURED" THEN "len" ELSE "append"]
    /\ UNCHANGED <<hostVars, state, packets, flush, hid, answer, out, raised,
                   toApp, toMcu, devVars>>

ReadLen(t) ==
    /\ pc[t] = "len"
    /\ pc' = [pc EXCEPT ![t] = IF packets = <<>> THEN "post" ELSE "append"]
    /\ UNCHANGED <<hostVars, state, packets, flush, hid, answer, out, raised,
                   toApp, toMcu, devVars>>

KeepPacket(t) ==
    /\ pc[t] = "append"
    /\ packets' = Append(packets, out[t])
    /\ out' = [out EXCEPT ![t] = NoPacket]
    /\ pc' = [pc EXCEPT ![t] = "idle"]
    /\ UNCHANGED <<hostVars, state, flush, hid, answer, raised, toApp, toMcu,
                   devVars>>

(* _send_cb is SocketHelper.queue_packet.                                  *)
PostPacket(t) ==
    /\ pc[t] = "post"
    /\ toApp' = Append(toApp, out[t])
    /\ out' = [out EXCEPT ![t] = NoPacket]
    /\ pc' = [pc EXCEPT ![t] = "idle"]
    /\ UNCHANGED <<hostVars, state, packets, flush, hid, answer, raised, toMcu,
                   devVars>>

SendXfer(t) == ReadState(t) \/ ReadLen(t) \/ KeepPacket(t) \/ PostPacket(t)

-----------------------------------------------------------------------------
(* HID.send, by the APDU server or by APDUBridge.exchange.                 *)

MainIdle == pc["main"] = "idle" /\ flush = <<>> /\ answer = <<>> /\ ~raised

StartExchange ==
    /\ host \in {"idle", "failed"} /\ cmd.id < MaxExchanges
    /\ SameThread => MainIdle
    /\ \E n \in CmdChunks : cmd' = [id |-> cmd.id + 1, len |-> n]
    /\ next' = 0
    /\ host' = "sending"
    /\ UNCHANGED <<late, mcuVars, toApp, toMcu, devVars>>

SendChunk ==
    /\ host \in {"sending", "answered"} /\ pc["sender"] = "idle"
    /\ IF next < cmd.len
       THEN /\ out' = [out EXCEPT !["sender"] =
                         Packet("OUT", cmd.id, next, cmd.len)]
            /\ pc' = [pc EXCEPT !["sender"] = "state"]
            /\ next' = next + 1
            /\ UNCHANGED host
       ELSE /\ host' = IF host = "answered" THEN "idle" ELSE "waiting"
            /\ UNCHANGED <<out, pc, next>>
    /\ UNCHANGED <<cmd, late, state, packets, flush, hid, answer, raised,
                   toApp, toMcu, devVars>>

(* Nothing of the exchange is left on its way.                             *)
Dead == /\ apdu = {} /\ MainIdle /\ packets = <<>> /\ toMcu = <<>>
        /\ \A i \in DOMAIN toApp : toApp[i].tag = "OTHER"

(* APDUBridge.exchange gives up after its time (3000 ticks by default), a  *)
(* client of the APDU server whenever it likes, also by sending another    *)
(* command: wherever the command and the response to it are.               *)
Timeout ==
    /\ host = "waiting"
    /\ host' = "failed"
    /\ late' = (late \/ ~Dead)
    /\ UNCHANGED <<cmd, next, mcuVars, toApp, toMcu, devVars>>

-----------------------------------------------------------------------------
(* The main thread: USBTransport.config and prepare, called by can_read.   *)

CanRead(tag) ==
    /\ MainIdle
    /\ SameThread => host # "sending"
    /\ toMcu # <<>> /\ Head(toMcu).tag = tag
    /\ toMcu' = Tail(toMcu)

Setup(tag) == /\ out' = [out EXCEPT !["main"] = Plain(tag)]
              /\ pc' = [pc EXCEPT !["main"] = "post"]

ConfigConnect ==
    /\ CanRead("CONNECT")
    /\ IF state = "DISCONNECTED"
       THEN state' = "ADDRESSED" /\ Setup("SET_ADDRESS")
       ELSE UNCHANGED <<state, out, pc>>
    /\ UNCHANGED <<hostVars, packets, flush, hid, answer, raised, toApp, devVars>>

(* HID._config compares its tag with the wrong enumeration, so that the    *)
(* response being received is not reset.                                   *)
ConfigDisconnect ==
    /\ CanRead("DISCONNECT")
    /\ state' = "DISCONNECTED"
    /\ UNCHANGED <<hostVars, packets, flush, hid, answer, pc, out, raised,
                   toApp, devVars>>

ConfigAddr ==
    /\ CanRead("ADDR")
    /\ IF state = "ADDRESSED"
       THEN state' = "CONFIGURED" /\ Setup("SET_CONFIGURATION")
       ELSE UNCHANGED <<state, out, pc>>
    /\ UNCHANGED <<hostVars, packets, flush, hid, answer, raised, toApp, devVars>>

EndpointsIgnored ==                                                \* mutant
    /\ CanRead("ENDPOINTS")
    /\ UNCHANGED <<hostVars, state, packets, flush, hid, answer, pc, out,
                   raised, toApp, devVars>>

(* _flush_packets takes the packets, then sends them one by one.           *)
ConfigEndpoints ==
    /\ CanRead("ENDPOINTS")
    /\ flush' = packets
    /\ packets' = <<>>
    /\ UNCHANGED <<hostVars, state, hid, answer, pc, out, raised, toApp, devVars>>

FlushNext ==
    /\ flush # <<>> /\ pc["main"] = "idle" /\ ~raised
    /\ out' = [out EXCEPT !["main"] = Head(flush)]
    /\ pc' = [pc EXCEPT !["main"] = "state"]
    /\ flush' = Tail(flush)
    /\ UNCHANGED <<hostVars, state, packets, hid, answer, raised, toApp, toMcu,
                   devVars>>

(* HID._prepare: reassemble the response, acknowledge the chunk, and       *)
(* return the response once it is complete.                                *)
Prepare ==
    /\ CanRead("PREPARE_IN")
    /\ LET c == Head(toMcu)
           h == IF c.seq = 0 THEN [Fresh EXCEPT !.len = c.len] ELSE hid
           data == IF Len(h.data) < h.len THEN Append(h.data, <<c.id, c.seq>>)
                                          ELSE h.data
       IN \/ /\ c.seq # 0 /\ c.seq # hid.seq
             /\ raised' = TRUE
             /\ UNCHANGED <<hid, answer, pc, out>>
          \/ /\ c.seq = 0 \/ c.seq = hid.seq
             /\ out' = [out EXCEPT !["main"] = Plain("IN")]
             /\ pc' = [pc EXCEPT !["main"] = "state"]
             /\ IF Len(data) = h.len
                THEN hid' = Fresh /\ answer' = data
                ELSE /\ hid' = [seq |-> h.seq + 1, len |-> h.len, data |-> data]
                     /\ UNCHANGED answer
             /\ UNCHANGED raised
    /\ UNCHANGED <<hostVars, state, packets, flush, toApp, devVars>>

(* can_read forwards the response to the client, which may not have        *)
(* returned from send yet when it runs in a thread of its own.             *)
Answer ==
    /\ answer # <<>> /\ pc["main"] = "idle"
    /\ answer' = <<>>
    /\ host' = CASE host = "waiting" -> "idle"
                 [] host = "sending" -> "answered" [] OTHER -> host
    /\ UNCHANGED <<cmd, next, late, state, packets, flush, hid, pc, out,
                   raised, toApp, toMcu, devVars>>

-----------------------------------------------------------------------------
(* The device: os_io_rx_evt and USBD_LEDGER_rx_seph_evt.  In the loop of   *)
(* os_io_tx_cmd an event counts, and ends the loop when it is the fifth    *)
(* one or when the class is not busy any more.                             *)

Looping(c, b) == IF c >= 0 /\ c < 5 /\ b THEN c ELSE -1

Receive(tag) ==
    /\ toApp # <<>> /\ Head(toApp).tag = tag
    /\ toApp' = Tail(toApp)
    /\ UNCHANGED <<hostVars, mcuVars, cut, restarts>>

Loop == count' = Looping(IF count >= 0 THEN count + 1 ELSE -1, busy')

USBD_SetAddress ==
    /\ Receive("SET_ADDRESS")
    /\ IF dev = "CONFIGURED"                                 \* USBD_CtlError
       THEN UNCHANGED <<dev, toMcu>>
       ELSE dev' = "ADDRESSED" /\ toMcu' = Append(toMcu, Plain("ADDR"))
    /\ UNCHANGED <<rx, tx, busy, apdu, handled>>
    /\ Loop

ClassNotReset ==                                                   \* mutant
    /\ Receive("SET_CONFIGURATION")
    /\ dev' = IF dev = "ADDRESSED" THEN "CONFIGURED" ELSE dev
    /\ toMcu' = IF dev = "CONFIGURED" THEN toMcu
                ELSE Append(toMcu, Plain("ENDPOINTS"))
    /\ UNCHANGED <<rx, tx, busy, apdu, handled>>
    /\ Loop

(* The class opens its endpoints and starts over.  In the default state    *)
(* the endpoints are closed, which the MCU takes for the same command.     *)
USBD_SetConfig ==
    /\ Receive("SET_CONFIGURATION")
    /\ \/ /\ dev = "ADDRESSED"
          /\ dev' = "CONFIGURED"
          /\ rx' = Fresh /\ tx' = NoTx /\ busy' = FALSE
          /\ toMcu' = Append(toMcu, Plain("ENDPOINTS"))
       \/ /\ dev # "ADDRESSED"
          /\ toMcu' = IF dev = "CONFIGURED" THEN toMcu
                      ELSE Append(toMcu, Plain("ENDPOINTS"))
          /\ UNCHANGED <<dev, rx, tx, busy>>
    /\ UNCHANGED <<apdu, handled>>
    /\ Loop

(* process_apdu_chunk: what the chunk makes of the command being received. *)
ProcessApduChunk(c) ==
    LET first == rx.seq = 0
        data == Append(IF first THEN <<>> ELSE rx.data, <<c.id, c.seq>>)
        len == IF first THEN c.len ELSE rx.len
    IN IF c.seq # rx.seq THEN rx
       ELSE [seq |-> IF Len(data) = len THEN 0 ELSE rx.seq + 1,
             len |-> len, data |-> data]

PartlyComplete(c) == c.seq = rx.seq                                \* mutant

(* USBD_LEDGER_HID_data_ready hands a complete command to the caller of    *)
(* os_io_rx_evt; the loop of os_io_tx_cmd drops it.                        *)
Complete(c) == /\ c.seq = rx.seq
               /\ ProcessApduChunk(c).seq = 0

USBD_LEDGER_HID_data_out ==
    /\ Receive("OUT")
    /\ LET c == Head(toApp) IN
       IF dev # "CONFIGURED" THEN UNCHANGED <<rx, apdu, handled>>
       ELSE /\ rx' = ProcessApduChunk(c)
            /\ IF Complete(c) /\ count = -1
               THEN handled' = rx'.data[1][1] /\ apdu' = apdu \cup {handled'}
               ELSE UNCHANGED <<apdu, handled>>
    /\ UNCHANGED <<dev, tx, busy, toMcu>>
    /\ Loop

NothingAfter(t) == NoTx                                            \* mutant

(* LEDGER_PROTOCOL_tx: the chunk to transmit and what is left after it.    *)
Chunk(t) == Packet("PREPARE_IN", t.id, t.seq, t.len)
AfterChunk(t) == IF t.seq + 1 < t.len THEN [t EXCEPT !.seq = @ + 1] ELSE NoTx

StillBusy ==                                                       \* mutant
    /\ Receive("IN")
    /\ IF dev # "CONFIGURED" THEN UNCHANGED <<tx, busy, toMcu>>
       ELSE /\ tx' = IF tx # NoTx THEN AfterChunk(tx) ELSE tx
            /\ toMcu' = IF tx # NoTx THEN Append(toMcu, Chunk(tx)) ELSE toMcu
            /\ UNCHANGED busy
    /\ UNCHANGED <<dev, rx, apdu, handled>>
    /\ Loop

(* The class is idle as soon as its last chunk is on its way.              *)
USBD_LEDGER_HID_data_in ==
    /\ Receive("IN")
    /\ IF dev # "CONFIGURED" THEN UNCHANGED <<tx, busy, toMcu>>
       ELSE /\ tx' = IF tx # NoTx THEN AfterChunk(tx) ELSE tx
            /\ busy' = (tx' # NoTx)
            /\ toMcu' = IF tx # NoTx THEN Append(toMcu, Chunk(tx)) ELSE toMcu
    /\ UNCHANGED <<dev, rx, apdu, handled>>
    /\ Loop

(* Ticks, buttons, ...: dropped by the loop of os_io_tx_cmd.               *)
ReceiveOther ==
    /\ Receive("OTHER")
    /\ UNCHANGED <<dev, rx, tx, busy, apdu, handled, toMcu>>
    /\ Loop

(* os_io_tx_cmd with the response to a command the application holds:      *)
(* USBD_LEDGER_HID_send_packet prepares the first chunk in any case, over  *)
(* what is left of another response, and transmits it if the class is idle.*)
Respond ==
    /\ count = -1
    /\ \E id \in apdu, n \in RspChunks :
         LET t == [id |-> id, seq |-> 0, len |-> n]
             sent == dev = "CONFIGURED" /\ ~busy
         IN /\ tx' = AfterChunk(t)
            /\ busy' = (busy \/ sent)
            /\ toMcu' = IF sent THEN Append(toMcu, Chunk(t)) ELSE toMcu
            /\ count' = Looping(0, busy')
            /\ cut' = (cut \/ (dev = "CONFIGURED" /\ busy))
            /\ apdu' = apdu \ {id}
    /\ UNCHANGED <<hostVars, mcuVars, toApp, dev, rx, handled, restarts>>

(* os_io_stop, os_io_init and os_io_start, by the application.  When the   *)
(* classes and the vendor are the ones of before, USBD_Init is not called  *)
(* and the device keeps its state.                                         *)
Restart ==
    /\ count = -1 /\ restarts < MaxRestarts
    /\ restarts' = restarts + 1
    /\ dev' \in {dev, "DEFAULT"}
    /\ toMcu' = toMcu \o <<Plain("DISCONNECT"), Plain("ADDR"), Plain("CONNECT")>>
    /\ UNCHANGED <<hostVars, mcuVars, toApp, rx, tx, busy, count, apdu, handled,
                   cut>>

-----------------------------------------------------------------------------
(* The sender of SeProxyHal: a tick, a button, ... (external to this       *)
(* module) takes its place in the queue.                                   *)
OtherEvent ==
    /\ Len(toApp) < MaxQueue
    /\ toApp' = Append(toApp, Plain("OTHER"))
    /\ UNCHANGED <<hostVars, mcuVars, toMcu, devVars>>

SenderStep == SendChunk \/ SendXfer("sender")
MainStep == \/ ConfigConnect \/ ConfigDisconnect \/ ConfigAddr
            \/ ConfigEndpoints \/ FlushNext \/ Prepare \/ Answer
            \/ SendXfer("main")
DeviceStep == \/ USBD_SetAddress \/ USBD_SetConfig
              \/ USBD_LEDGER_HID_data_out \/ USBD_LEDGER_HID_data_in
              \/ ReceiveOther

Next == \/ StartExchange \/ Timeout \/ SenderStep \/ MainStep
        \/ DeviceStep \/ Respond \/ Restart \/ OtherEvent

(* The threads run, the application reads its events and answers.          *)
Fairness == /\ WF_vars(SenderStep) /\ WF_vars(MainStep)
            /\ WF_vars(DeviceStep) /\ WF_vars(Respond)

Spec == Init /\ [][Next]_vars /\ Fairness
-----------------------------------------------------------------------------
Chunks(id, n) == [i \in 1..n |-> <<id, i - 1>>]

(* APDUs stay whole in both directions, through restarts, ticks in the     *)
(* loop of os_io_tx_cmd, acknowledgements kept back and clients that give  *)
(* up: what process_apdu_chunk assembles is the beginning of one command   *)
(* not delivered before, never the chunks of two; unless the application   *)
(* answered while the class was busy, _prepare never raises on the number  *)
(* of a chunk and what it returns are the chunks of one response; and that *)
(* response is the one to the client's own command, unless a client gave   *)
(* up an exchange that was still on its way.                               *)
ApdusWhole ==
    /\ dev = "CONFIGURED" /\ rx.seq # 0 =>
           \E id \in (handled + 1)..cmd.id :
               rx.data = Chunks(id, rx.seq) /\ (id = cmd.id => rx.len = cmd.len)
    /\ ~cut => /\ ~raised
               /\ answer # <<>> =>
                    \E id \in 1..handled : answer = Chunks(id, Len(answer))
    /\ ~late /\ answer # <<>> => /\ host \notin {"idle", "failed"}
                                 /\ answer = Chunks(cmd.id, Len(answer))

(* No chunk of a command reaches the device before SET_CONFIGURATION did,  *)
(* nor out of sequence, however early the client sends and whenever it     *)
(* gives up: the chunks kept back by _send_xfer are not overtaken and the  *)
(* ones sent directly follow the setup packet.  (USBD_LL_DataOutStage      *)
(* would ignore such a chunk.)                                             *)
NoChunkIgnored ==
    restarts = 0 /\ toApp # <<>> /\ Head(toApp).tag = "OUT" =>
        dev = "CONFIGURED" /\ Head(toApp).seq = rx.seq

(* When the application answers, the HID class is idle, although the loop  *)
(* of os_io_tx_cmd gives up after five events and the class claims to be   *)
(* idle before its last chunk is acknowledged: otherwise                   *)
(* USBD_LEDGER_HID_send_packet skips the first chunk of the response.      *)
(* Only a client that gave up while its response was on its way can bring  *)
(* the next command too early.                                             *)
ReadyToAnswer ==
    ~late => /\ apdu # {} /\ count = -1 /\ dev = "CONFIGURED" => ~busy
             /\ ~cut

(* A client that waits gets its response, unless the stack was restarted   *)
(* or a client gave up an exchange that was still on its way (its response *)
(* answers the next command, whose own the loop of os_io_tx_cmd may drop). *)
ExchangeEnds == host = "waiting" ~> (host = "idle" \/ restarts > 0 \/ late)

(* "once the endpoint is configured, queued packets can be sent":          *)
(* packets_to_send does not keep a packet of a configured transport.       *)
QueuedPacketsSent ==
    packets # <<>> /\ state = "CONFIGURED" ~> (packets = <<>> \/ restarts > 0)

(* The transport implements the abstract exchange: commands are delivered  *)
(* in order and at most once, after they were sent, and answered at most   *)
(* once; the client goes on with the answer to its own command, unless one *)
(* gave up while an exchange was on its way.                               *)
Phase == IF host \in {"idle", "failed"} THEN host ELSE "sent"
Exchange == INSTANCE ApduExchange
              WITH phase <- Phase, current <- cmd.id, seen <- handled,
                   open <- apdu, late <- late
IsExchange == Exchange!ESpec
=============================================================================
