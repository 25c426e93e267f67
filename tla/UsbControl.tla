----------------------------- MODULE UsbControl -----------------------------
(***************************************************************************)
(* The control endpoint of the device's USB stack                          *)
(* (src/bolos/io/sdk/lib_stusb): the standard requests, the requests of    *)
(* the HID class, the data and status stages, reset, suspend and resume,   *)
(* and the start of the stack with a new identity.                         *)
(*                                                                         *)
(* The handle of the stack is one record; what the stack gives to          *)
(* endpoint 0 during a control transfer is the sequence wire.  The build   *)
(* has one class, HID (HAVE_WEBUSB and HAVE_IO_U2F are not defined), and   *)
(* none that receives data on endpoint 0, so that DATA_OUT is never        *)
(* entered.  A bus that sleeps carries no request; a device may believe it *)
(* sleeps when it does not (asleep and udev.state).                        *)
(* The packet size of endpoint 0 is state: only USBD_LL_Reset sets it, and *)
(* the emulated MCU sends no USB_EVENT_RESET.                              *)
(* The bytes of an answer are left out, and with them dev_remote_wakeup,   *)
(* which only GET_STATUS shows.                                            *)
(***************************************************************************)
EXTENDS Integers, Sequences

CONSTANTS
  MaxEp0,        \* USB_MAX_EP0_SIZE, 64: a reply of one or two bytes does not fill it
  Lengths,       \* wLength of the requests
  NameLength,    \* length of the product's name
  MaxEmpty       \* bound: packets of a data stage without a packet size

ASSUME UsbControlAssumption ==
  MaxEp0 \in Nat /\ MaxEp0 > 2 /\ Lengths \subseteq Nat /\ NameLength \in 0..19 /\ MaxEmpty \in Nat

VARIABLES
  udev,          \* usbd_ledger_data and its usbd_handle
  request,       \* the request of the current control transfer
  taken,         \* packets of it that the host has taken
  asleep         \* the host has suspended the bus

usbVars == <<udev, request, taken, asleep>>

Stages == {"DEFAULT", "ADDRESSED", "CONFIGURED"}
ClassEps == {"in2", "out2"}
SmallerOf(a, b) == IF a < b THEN a ELSE b

\* A request: wValue is the descriptor or the feature (value), or a number (an
\* address, a configuration); index is an interface or an endpoint.
Request(type, to, name, value, index, n) ==
  [type |-> type, to |-> to, name |-> name, value |-> value, number |-> 0, index |-> index, length |-> n]
Numbered(name, k) == [Request("STANDARD", "DEVICE", name, "none", "none", 0) EXCEPT !.number = k]
NoRequest == Request("STANDARD", "OTHER", "none", "none", "none", 0)

-----------------------------------------------------------------------------
(* Descriptors: their lengths.                                             *)
LEDGER_HID_descriptors == 32
LEDGER_HID_report_descriptor == 34
HidDescriptor == 9                       \* the part of it from USB_LEN_IF_DESC on
USBD_GetString(n) == 2 * n + 2
USBD_get_descriptor_device == 18
USBD_get_descriptor_lang_id == 4
USBD_get_descriptor_manufacturer == USBD_GetString(6)
USBD_get_descriptor_product == USBD_GetString(NameLength)
USBD_get_descriptor_serial == 10
forge_configuration_descriptor == 9 + LEDGER_HID_descriptors
forge_bos_descriptor == 5                \* no class of the build has one

DescriptorLength(value) ==
  CASE value = "DEVICE" -> USBD_get_descriptor_device
    [] value = "CONFIGURATION" -> forge_configuration_descriptor
    [] value = "BOS" -> forge_bos_descriptor
    [] value = "LANGID_STR" -> USBD_get_descriptor_lang_id
    [] value = "MFC_STR" -> USBD_get_descriptor_manufacturer
    [] value \in {"PRODUCT_STR", "CONFIG_STR", "INTERFACE_STR"} -> USBD_get_descriptor_product
    [] value = "SERIAL_STR" -> USBD_get_descriptor_serial
    [] OTHER -> 0                        \* WINUSB_STR, and what is refused

-----------------------------------------------------------------------------
(* usbd_conf.c and usbd_ioreq.c                                            *)
\* What endpoint 0 is given.
Put(d, kind, n) == [d EXCEPT !.wire = Append(@, [kind |-> kind, n |-> n])]
USBD_LL_Transmit(d, kind, n) == Put(d, kind, n)
USBD_LL_StallEP(d, ep) ==
  IF ep = "in0" THEN Put(d, "stall", 0)      \* the bits of endpoint 0 are never read
  ELSE [d EXCEPT !.stalled = @ \cup ({ep} \cap ClassEps)]
USBD_LL_ClearStallEP(d, ep) == [d EXCEPT !.stalled = @ \ {ep}]
USBD_LL_OpenEP(d, ep) == [d EXCEPT !.stalled = {}, !.open = @ \cup {ep}]
USBD_LL_CloseEP(d, ep) == [d EXCEPT !.open = @ \ {ep}]

USBD_CtlSendData(d, n) ==
  USBD_LL_Transmit([d EXCEPT !.ep0 = "DATA_IN", !.total = n, !.rem = n], "data", SmallerOf(n, d.max))
USBD_CtlContinueSendData(d, n) == USBD_LL_Transmit(d, "data", SmallerOf(n, d.max))
USBD_CtlSendStatus(d) == USBD_LL_Transmit([d EXCEPT !.ep0 = "STATUS_IN"], "status", 0)
USBD_CtlReceiveStatus(d) == [d EXCEPT !.ep0 = "STATUS_OUT"]
USBD_CtlError(d) == USBD_LL_StallEP(USBD_LL_StallEP(d, "in0"), "out0")

-----------------------------------------------------------------------------
(* The class: usbd_ledger.c over usbd_ledger_hid.c.                        *)
init(d) == USBD_LL_OpenEP(USBD_LL_OpenEP([d EXCEPT !.class = TRUE], "in2"), "out2")
DeInitKeepsClassData(d) == USBD_LL_CloseEP(USBD_LL_CloseEP(d, "in2"), "out2")   \* mutant
de_init(d) == [USBD_LL_CloseEP(USBD_LL_CloseEP(d, "in2"), "out2") EXCEPT !.class = FALSE]

Outcome(d, ok) == [dev |-> d, ok |-> ok]
USBD_LEDGER_HID_setup(d, r) ==
  LET configured == d.state = "CONFIGURED"
      reply(n) == Outcome(USBD_CtlSendData(d, n), TRUE)
      fail == Outcome(d, FALSE)
      set == Outcome(d, TRUE)              \* alt_setting, protocol, idle_state
  IN  IF r.to # "INTERFACE" \/ r.type = "VENDOR" THEN fail
      ELSE IF r.type = "STANDARD" THEN
        CASE r.name = "GET_STATUS" /\ configured -> reply(2)
          [] r.name = "GET_DESCRIPTOR" /\ r.value = "HID" -> reply(SmallerOf(HidDescriptor, r.length))
          [] r.name = "GET_DESCRIPTOR" /\ r.value = "REPORT" ->
               reply(SmallerOf(LEDGER_HID_report_descriptor, r.length))
          [] r.name = "GET_INTERFACE" /\ configured -> reply(1)
          [] r.name = "SET_INTERFACE" /\ configured -> set
          [] r.name = "CLEAR_FEATURE" -> set
          [] OTHER -> fail
      ELSE
        CASE r.name \in {"SET_PROTOCOL", "SET_IDLE"} -> set
          [] r.name \in {"GET_PROTOCOL", "GET_IDLE"} -> reply(1)
          [] OTHER -> fail

\* wIndex is compared with the number of classes even when it is an endpoint.
setup(d, r) ==
  IF r.index \in {"itf0", "out0"} THEN USBD_LEDGER_HID_setup(d, r) ELSE Outcome(USBD_CtlError(d), FALSE)

-----------------------------------------------------------------------------
(* usbd_ctlreq.c: requests to the device.                                  *)
USBD_GetDescriptor(d, r) ==
  IF r.value \in {"DEVICE_QUALIFIER", "OTHER_SPEED", "UNKNOWN"} THEN USBD_CtlError(d)
  ELSE IF r.length = 0 THEN USBD_CtlSendStatus(d)
  ELSE IF DescriptorLength(r.value) = 0 THEN USBD_CtlError(d)
  ELSE USBD_CtlSendData(d, SmallerOf(DescriptorLength(r.value), r.length))

USBD_SetAddress(d, r) ==
  IF r.index # "none" \/ r.length # 0 \/ d.state = "CONFIGURED" THEN USBD_CtlError(d)
  ELSE [USBD_CtlSendStatus(d) EXCEPT
          !.state = IF r.number = 0 THEN "DEFAULT" ELSE "ADDRESSED"]

USBD_SetConfig(d, r) ==
  CASE r.number > 1 -> USBD_CtlError(d)                  \* USBD_MAX_NUM_CONFIGURATION
    [] r.number <= 1 /\ d.state = "ADDRESSED" ->
         IF r.number = 0 THEN USBD_CtlSendStatus(d)
         ELSE [USBD_CtlSendStatus(init([d EXCEPT !.config = 1])) EXCEPT !.state = "CONFIGURED"]
    [] r.number <= 1 /\ d.state = "CONFIGURED" ->
         IF r.number = 0
         THEN USBD_CtlSendStatus(de_init([d EXCEPT !.state = "ADDRESSED", !.config = 0]))
         ELSE USBD_CtlSendStatus(d)
    [] OTHER -> de_init(USBD_CtlError(d))

USBD_GetConfig(d, r) ==
  IF r.length = 1 /\ d.state \in Stages THEN USBD_CtlSendData(d, 1) ELSE USBD_CtlError(d)
GetStatusFallsThrough(d, r) ==                                       \* mutant
  IF d.state \notin Stages THEN USBD_CtlError(d)
  ELSE USBD_CtlSendData(IF r.length = 2 THEN d ELSE USBD_CtlError(d), 2)
USBD_GetStatus(d, r) ==
  IF r.length = 2 /\ d.state \in Stages THEN USBD_CtlSendData(d, 2) ELSE USBD_CtlError(d)
USBD_SetFeature(d, r) ==
  IF r.value = "REMOTE_WAKEUP" THEN USBD_CtlSendStatus(d) ELSE d
USBD_ClrFeature(d, r) ==
  IF d.state \notin Stages THEN USBD_CtlError(d)
  ELSE IF r.value = "REMOTE_WAKEUP" THEN USBD_CtlSendStatus(d) ELSE d

USBD_StdDevReq(d, r) ==
  CASE r.type # "STANDARD" -> setup(d, r).dev
    [] r.type = "STANDARD" /\ r.name = "GET_DESCRIPTOR" -> USBD_GetDescriptor(d, r)
    [] r.type = "STANDARD" /\ r.name = "SET_ADDRESS" -> USBD_SetAddress(d, r)
    [] r.type = "STANDARD" /\ r.name = "SET_CONFIGURATION" -> USBD_SetConfig(d, r)
    [] r.type = "STANDARD" /\ r.name = "GET_CONFIGURATION" -> USBD_GetConfig(d, r)
    [] r.type = "STANDARD" /\ r.name = "GET_STATUS" -> USBD_GetStatus(d, r)
    [] r.type = "STANDARD" /\ r.name = "SET_FEATURE" -> USBD_SetFeature(d, r)
    [] r.type = "STANDARD" /\ r.name = "CLEAR_FEATURE" -> USBD_ClrFeature(d, r)
    [] OTHER -> setup(d, r).dev

\* Requests to an interface.
USBD_StdItfReq(d, r) ==
  LET o == setup(d, r) IN
  IF d.state \notin Stages THEN USBD_CtlError(d)
  ELSE IF r.length = 0 /\ o.ok THEN USBD_CtlSendStatus(o.dev) ELSE o.dev

\* Requests to an endpoint.
USBD_StdEPReq(d, r) ==
  LET zero == r.index \in {"in0", "out0"}
      used == IF zero THEN d.max # 0 ELSE r.index \in d.open      \* endpoint 0: since a reset
      halt == r.value = "ENDPOINT_HALT"
      refuse == IF zero THEN USBD_CtlError(d)
                ELSE USBD_LL_StallEP(USBD_LL_StallEP(d, r.index), "in0")
  IN  CASE r.type # "STANDARD" -> setup(d, r).dev
        [] r.type = "STANDARD" /\ d.state = "ADDRESSED" ->
             IF r.name = "GET_STATUS"
             THEN IF zero THEN USBD_CtlSendData(d, 2) ELSE USBD_CtlError(d)
             ELSE refuse
        [] r.type = "STANDARD" /\ d.state = "CONFIGURED" ->
            (CASE r.name = "SET_FEATURE" ->
                    USBD_CtlSendStatus(IF halt /\ ~zero /\ r.length = 0 THEN USBD_LL_StallEP(d, r.index) ELSE d)
               [] r.name = "CLEAR_FEATURE" ->
                    IF ~halt THEN d
                    ELSE setup(USBD_CtlSendStatus(IF zero THEN d ELSE USBD_LL_ClearStallEP(d, r.index)), r).dev
               [] r.name = "GET_STATUS" ->
                    IF used THEN USBD_CtlSendData(d, 2) ELSE USBD_CtlError(d))
        [] OTHER -> USBD_CtlError(d)

-----------------------------------------------------------------------------
(* usbd_core.c                                                             *)
USBD_LL_SetupStage(d, r) ==
  LET s == [d EXCEPT !.ep0 = "SETUP", !.len = r.length, !.wire = <<>>, !.total = 0, !.rem = 0] IN
  CASE r.to = "DEVICE" -> USBD_StdDevReq(s, r)
    [] r.to = "INTERFACE" -> USBD_StdItfReq(s, r)
    [] r.to = "ENDPOINT" -> USBD_StdEPReq(s, r)
    [] OTHER -> USBD_LL_StallEP(s, "in0")

DataInWithoutZlp(d) ==                                               \* mutant
  IF d.ep0 # "DATA_IN" THEN d
  ELSE IF d.rem > d.max
  THEN USBD_CtlContinueSendData([d EXCEPT !.rem = @ - d.max], d.rem - d.max)
  ELSE USBD_CtlReceiveStatus(d)

\* (total_length and rem_length are only read after CtlSendData set them.)
\* Endpoint 0.  rem_length is not changed when the empty packet is sent: its
\* completion ends the stage because ep0_data_len is then 0.
USBD_LL_DataInStage(d) ==
  IF d.ep0 # "DATA_IN" THEN d
  ELSE IF d.rem > d.max
  THEN USBD_CtlContinueSendData([d EXCEPT !.rem = @ - d.max], d.rem - d.max)
  ELSE IF d.rem = d.max /\ d.total >= d.max /\ d.total < d.len
  THEN [USBD_CtlContinueSendData(d, 0) EXCEPT !.len = 0]
  ELSE USBD_CtlReceiveStatus(d)

\* dev_old_state is read only in a suspended device: it is forgotten elsewhere.
USBD_LL_Reset(d) ==
  LET r == [d EXCEPT !.state = "DEFAULT", !.ep0 = "IDLE", !.config = 0, !.old = "NONE", !.wire = <<>>,
                         !.total = 0, !.rem = 0, !.len = 0] IN
  [IF d.class THEN de_init(r) ELSE r EXCEPT !.stalled = {}, !.max = MaxEp0]     \* opens endpoint 0
USBD_LL_Suspend(d) == [d EXCEPT !.old = d.state, !.state = "SUSPENDED"]
USBD_LL_Resume(d) ==
  IF d.state # "SUSPENDED" THEN d
  ELSE [d EXCEPT !.state = d.old, !.old = IF d.old = "SUSPENDED" THEN @ ELSE "NONE"]
USBD_LL_Init(d) == [d EXCEPT !.stalled = {}]
USBD_Init(d) == [USBD_LL_Init(d) EXCEPT !.state = "DEFAULT", !.old = "NONE", !.wire = <<>>]

\* USBD_LEDGER_init with force_restart: the whole structure is zeroed.
Zeroed == [state |-> "NONE", old |-> "NONE", config |-> 0, class |-> FALSE, open |-> {}, stalled |-> {}, ep0 |-> "IDLE",
           max |-> 0, total |-> 0, rem |-> 0, len |-> 0, wire |-> <<>>]
USBD_LEDGER_init(d, force) ==
  IF force THEN [Zeroed EXCEPT !.stalled = d.stalled] ELSE d
\* A running stack goes on as it is unless its classes or its vendor change.
USBD_LEDGER_start(d, changed) == IF changed THEN USBD_Init(d) ELSE d

-----------------------------------------------------------------------------
(* The host.                                                               *)
Descriptors == {"DEVICE", "CONFIGURATION", "BOS", "LANGID_STR", "MFC_STR", "PRODUCT_STR", "CONFIG_STR",
                "INTERFACE_STR", "SERIAL_STR", "WINUSB_STR", "DEVICE_QUALIFIER", "OTHER_SPEED", "UNKNOWN"}
Features == {"REMOTE_WAKEUP", "ENDPOINT_HALT"}
DeviceRequests ==
  {Request("STANDARD", "DEVICE", "GET_DESCRIPTOR", v, "none", n) : v \in Descriptors, n \in Lengths}
    \cup {Numbered("SET_ADDRESS", k) : k \in 0..1}
    \cup {Numbered("SET_CONFIGURATION", k) : k \in 0..2}
    \cup {Request("STANDARD", "DEVICE", q, "none", "none", n) :
            q \in {"GET_CONFIGURATION", "GET_STATUS"}, n \in 1..2}
    \cup {Request("STANDARD", "DEVICE", q, v, "none", 0) : q \in {"SET_FEATURE", "CLEAR_FEATURE"}, v \in Features}
    \cup {Request(t, "DEVICE", "SYNCH_FRAME", "none", i, 1) : t \in {"STANDARD", "CLASS", "VENDOR"}, i \in {"itf0", "itf1"}}
InterfaceRequests ==
  {Request("STANDARD", "INTERFACE", "GET_DESCRIPTOR", v, "itf0", n) : v \in {"HID", "REPORT", "UNKNOWN"}, n \in Lengths}
    \cup {Request("STANDARD", "INTERFACE", q, "none", i, n) :
            q \in {"GET_STATUS", "GET_INTERFACE"}, i \in {"itf0", "itf1"}, n \in 0..2}
    \cup {Request("STANDARD", "INTERFACE", "SET_INTERFACE", "none", "itf0", 0),
          Request("STANDARD", "INTERFACE", "CLEAR_FEATURE", "none", "itf0", 0)}
    \cup {Request("CLASS", "INTERFACE", q, "none", "itf0", n) :
            q \in {"SET_PROTOCOL", "SET_IDLE", "SET_REPORT", "GET_PROTOCOL", "GET_IDLE"}, n \in 0..1}
EndpointRequests ==
  {Request("STANDARD", "ENDPOINT", q, v, i, 0) :
       q \in {"SET_FEATURE", "CLEAR_FEATURE"}, v \in Features, i \in {"in0", "out0", "in2"}}
    \cup {Request("STANDARD", "ENDPOINT", "GET_STATUS", "none", i, 2) : i \in {"in0", "in2", "out2", "in3"}}
    \cup {Request("CLASS", "ENDPOINT", "GET_STATUS", "none", "out0", 2)}
    \cup {Request("STANDARD", "OTHER", "GET_STATUS", "none", "none", 2)}

UsbInit == udev = USBD_LEDGER_start(Zeroed, TRUE) /\ request = NoRequest /\ taken = 0 /\ asleep = FALSE

Setup(r) ==
  /\ ~asleep
  /\ udev' = USBD_LL_SetupStage(udev, r) /\ request' = r /\ taken' = 0 /\ UNCHANGED asleep
SetupDevice == \E r \in DeviceRequests : Setup(r)
SetupInterface == \E r \in InterfaceRequests : Setup(r)
SetupEndpoint == \E r \in EndpointRequests : Setup(r)

\* The host takes the next packet, and the stack is told (XFER_IN).
TakeIn ==
  /\ ~asleep /\ taken < Len(udev.wire) /\ udev.wire[taken + 1].kind # "stall"
  /\ udev.max = 0 => Len(udev.wire) < MaxEmpty
  /\ taken' = taken + 1 /\ udev' = USBD_LL_DataInStage(udev) /\ UNCHANGED <<request, asleep>>

BusReset == udev' = USBD_LL_Reset(udev) /\ request' = NoRequest /\ taken' = 0 /\ asleep' = FALSE
\* An event may come twice, and the stack does not ask in which state.
Suspend == udev' = USBD_LL_Suspend(udev) /\ asleep' = TRUE /\ UNCHANGED <<request, taken>>
Resume == udev' = USBD_LL_Resume(udev) /\ asleep' = FALSE /\ UNCHANGED <<request, taken>>
StartStack ==
  \E force, changed \in BOOLEAN :
    /\ force => changed                  \* the zeroed structure has no class
    /\ udev' = USBD_LEDGER_start(USBD_LEDGER_init(udev, force), changed) /\ UNCHANGED asleep
    /\ IF changed THEN request' = NoRequest /\ taken' = 0 ELSE UNCHANGED <<request, taken>>

UsbNext == SetupDevice \/ SetupInterface \/ SetupEndpoint \/ TakeIn \/ BusReset \/ Suspend \/ Resume \/ StartStack
UsbSpec == UsbInit /\ [][UsbNext]_usbVars

-----------------------------------------------------------------------------
(* Properties                                                              *)

(* A data stage over several packets gives the host what it asked for, in  *)
(* packets it can put together: when the device turns to the status stage  *)
(* it has sent the descriptor up to wLength, in full packets but the last, *)
(* and the host can tell the end, by the length it asked for or by a       *)
(* packet that is not full (an empty one where the length is a multiple).  *)
(* It turns to it only if the bus was reset: the packet size of a device   *)
(* that never was is zero, and its data stage is empty packets for ever,   *)
(* with nothing of the answer sent.                                        *)
DataStageWhole ==
  LET s == udev.wire
      n == Len(s)
      sent == (n - 1) * MaxEp0 + s[n].n
  IN  /\ udev.ep0 = "STATUS_OUT" /\ request # NoRequest =>
           /\ udev.max = MaxEp0
           /\ s # <<>> /\ \A i \in 1..n : s[i].kind = "data"
           /\ \A i \in 1..(n - 1) : s[i].n = MaxEp0
           /\ s[n].n < MaxEp0 \/ sent = request.length
           /\ s[n].n = 0 => sent < request.length
           /\ request.to = "DEVICE" /\ request.name = "GET_DESCRIPTOR" =>
                sent = SmallerOf(DescriptorLength(request.value), request.length)
      /\ udev.ep0 = "DATA_IN" /\ request # NoRequest /\ udev.max = 0 =>
           udev.rem = udev.total /\ \A i \in 1..n : s[i] = [kind |-> "data", n |-> 0]

(* The class is there when the device is configured, also across suspend   *)
(* and resume, and its endpoints are open exactly as long as the class is: *)
(* no reset, new configuration or restart leaves one without the other.    *)
(* On a bus that is awake only a device that was suspended twice still     *)
(* takes itself for suspended: the second suspension overwrote the state   *)
(* to return to.                                                           *)
ClassFollowsState ==
  /\ udev.class => udev.open = ClassEps
  /\ ~udev.class => udev.open = {}
  /\ udev.state = "CONFIGURED" \/ (udev.state = "SUSPENDED" /\ udev.old = "CONFIGURED") =>
       udev.class /\ udev.config = 1
  /\ udev.state = "SUSPENDED" /\ ~asleep => udev.old = "SUSPENDED"

\* The answers given: one, by data, by a status or by a stall; or two.
Answered(s) ==
  /\ s # <<>> /\ \A i \in DOMAIN s : s[i].kind = s[1].kind
  /\ s[1].kind # "data" => Len(s) = 1
AnsweredTwice(s, first, second) == Len(s) = 2 /\ s[1].kind = first /\ s[2].kind = second

\* Features the code does not know, and what the class refuses or has no status
\* for: the host gets nothing.
Ignored(r) ==
  \/ r.to = "DEVICE" /\ r.name \in {"SET_FEATURE", "CLEAR_FEATURE"} /\ r.value # "REMOTE_WAKEUP"
  \/ r.to = "ENDPOINT" /\ r.name = "CLEAR_FEATURE" /\ r.value # "ENDPOINT_HALT"
  \/ r.to # "INTERFACE" /\ (r.type # "STANDARD" \/ r.name = "SYNCH_FRAME") /\ r.index \in {"itf0", "out0"}
  \/ /\ r.to = "INTERFACE" /\ r.index = "itf0"
     /\ r.value = "UNKNOWN" \/ r.length # 0 \/ r.name \in {"GET_STATUS", "GET_INTERFACE", "SET_INTERFACE", "SET_REPORT"}
\* CLEAR_FEATURE(ENDPOINT_HALT) goes to the class after its status, with an
\* endpoint where the class expects an interface.
HaltCleared(r) ==
  r.to = "ENDPOINT" /\ r.name = "CLEAR_FEATURE" /\ r.value = "ENDPOINT_HALT" /\ r.index # "out0"
\* An interface that is asked for no byte gives its data and then a status.
NothingAsked(r) ==
  r.to = "INTERFACE" /\ r.length = 0
    /\ r.name \in {"GET_DESCRIPTOR", "GET_STATUS", "GET_INTERFACE", "GET_PROTOCOL", "GET_IDLE"}

(* A request is answered once: by data, by one status or by one stall, in  *)
(* whatever state it comes.  The code departs from it for three kinds of   *)
(* request and no other: some get no answer, the end of a halt gets a      *)
(* status and then a stall, and an interface asked for no byte gives data  *)
(* and then a status.                                                      *)
AnsweredOnce ==
  request # NoRequest =>
    \/ Answered(udev.wire)
    \/ udev.wire = <<>> /\ Ignored(request)
    \/ AnsweredTwice(udev.wire, "status", "stall") /\ HaltCleared(request)
    \/ AnsweredTwice(udev.wire, "data", "status") /\ NothingAsked(request)
=============================================================================
