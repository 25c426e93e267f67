-------------------------- MODULE UsbControl_proof --------------------------
(***************************************************************************)
(* The class and its endpoints follow the state of the device, a request   *)
(* is answered once and a data stage gives the whole answer, for every     *)
(* size of endpoint 0, every length a host asks for and every name.        *)
(*                                                                         *)
(* A request reaches the handle through a few calls that only touch        *)
(* endpoint 0 (Keeps), and through USBD_SetAddress and USBD_SetConfig,     *)
(* which move the state: lemmas say so of each handler, bottom up.  The    *)
(* second half looks at endpoint 0: Answer relates the packets given to it *)
(* to the stage, to total_length and to rem_length.                        *)
(***************************************************************************)
EXTENDS UsbControl, TLAPS

Kinds == {"data", "status", "stall"}
Packets == [kind : Kinds, n : Nat]
Devices ==
  [state : Stages \cup {"SUSPENDED"}, old : Stages \cup {"NONE", "SUSPENDED"}, config : 0..1,
   class : BOOLEAN, open : SUBSET ClassEps, stalled : SUBSET ClassEps,
   ep0 : {"IDLE", "SETUP", "DATA_IN", "STATUS_IN", "STATUS_OUT"},
   max : {0, MaxEp0}, total : Nat, rem : Nat, len : Nat, wire : Seq(Packets)]
IsRequest(r) == r.length \in Nat /\ r.number \in Nat

\* ClassFollowsState of a handle d, with what makes it inductive: a suspended
\* device remembers a state, be it its own.
Follows(d) ==
  /\ d \in Devices
  /\ d.class => d.open = ClassEps
  /\ ~d.class => d.open = {}
  /\ d.state = "CONFIGURED" \/ (d.state = "SUSPENDED" /\ d.old = "CONFIGURED") => d.class /\ d.config = 1
  /\ d.state = "SUSPENDED" => d.old # "NONE"

\* e is d but for endpoint 0 and the stalled endpoints.
Keeps(d, e) ==
  /\ d \in Devices /\ e \in Devices
  /\ e.state = d.state /\ e.old = d.old /\ e.config = d.config /\ e.class = d.class /\ e.open = d.open
  /\ e.max = d.max

LEMMA KeepsFollows == ASSUME NEW d, NEW e, Keeps(d, e), Follows(d) PROVE Follows(e)
  BY DEF Keeps, Follows
\* The handle of a device on a bus that is awake: if it takes itself for
\* suspended there is no state to return to, so that a request which closes the
\* class cannot leave a configured device without it.
Awake(d) == Follows(d) /\ (d.state = "SUSPENDED" => d.old = "SUSPENDED")
UsbInv == Follows(udev) /\ asleep \in BOOLEAN /\ (~asleep => Awake(udev))
LEMMA KeepsAwake == ASSUME NEW d, NEW e, Keeps(d, e), Awake(d) PROVE Awake(e)
  BY KeepsFollows DEF Keeps, Awake
LEMMA KeepsTrans == ASSUME NEW d, NEW e, NEW f, Keeps(d, e), Keeps(e, f) PROVE Keeps(d, f)
  BY DEF Keeps
LEMMA KeepsSelf == ASSUME NEW d \in Devices PROVE Keeps(d, d)
  BY DEF Keeps

LEMMA Smaller == ASSUME NEW a \in Nat, NEW b \in Nat PROVE SmallerOf(a, b) \in Nat
  BY DEF SmallerOf
LEMMA MaxIsNat == ASSUME NEW d \in Devices PROVE d.max \in Nat
  BY UsbControlAssumption DEF Devices
LEMMA DescriptorIsNat == ASSUME NEW v PROVE DescriptorLength(v) \in Nat
<1>1. NameLength \in Nat
  BY UsbControlAssumption
<1>. QED
  BY <1>1 DEF DescriptorLength, USBD_get_descriptor_device, forge_configuration_descriptor, LEDGER_HID_descriptors,
    forge_bos_descriptor, USBD_get_descriptor_lang_id, USBD_get_descriptor_manufacturer, USBD_get_descriptor_product,
    USBD_get_descriptor_serial, USBD_GetString

-----------------------------------------------------------------------------
(* The calls that only touch endpoint 0.                                   *)
LEMMA NoPackets == <<>> \in Seq(Packets)
  OBVIOUS

LEMMA PutKeeps ==
  ASSUME NEW d \in Devices, NEW k \in Kinds, NEW n \in Nat
  PROVE  Keeps(d, Put(d, k, n))
<1>1. [kind |-> k, n |-> n] \in Packets
  BY DEF Packets
<1>2. Append(d.wire, [kind |-> k, n |-> n]) \in Seq(Packets)
  BY <1>1 DEF Devices
<1>. QED
  BY <1>2 DEF Keeps, Put, Devices

LEMMA StallKeeps == ASSUME NEW d \in Devices, NEW ep PROVE Keeps(d, USBD_LL_StallEP(d, ep))
<1>1. Keeps(d, Put(d, "stall", 0))
  BY PutKeeps DEF Kinds
<1>2. Keeps(d, [d EXCEPT !.stalled = @ \cup ({ep} \cap ClassEps)])
  BY DEF Keeps, Devices
<1>. QED
  BY <1>1, <1>2 DEF USBD_LL_StallEP

LEMMA ClearStallKeeps == ASSUME NEW d \in Devices, NEW ep PROVE Keeps(d, USBD_LL_ClearStallEP(d, ep))
  BY DEF Keeps, Devices, USBD_LL_ClearStallEP

LEMMA ErrorKeeps == ASSUME NEW d \in Devices PROVE Keeps(d, USBD_CtlError(d))
<1>1. Keeps(d, USBD_LL_StallEP(d, "in0"))
  BY StallKeeps
<1>2. Keeps(USBD_LL_StallEP(d, "in0"), USBD_CtlError(d))
  BY <1>1, StallKeeps DEF Keeps, USBD_CtlError
<1>. QED
  BY <1>1, <1>2, KeepsTrans

LEMMA SendDataKeeps == ASSUME NEW d \in Devices, NEW n \in Nat PROVE Keeps(d, USBD_CtlSendData(d, n))
<1>. DEFINE e == [d EXCEPT !.ep0 = "DATA_IN", !.total = n, !.rem = n]
<1>1. Keeps(d, e)
  BY DEF Keeps, Devices
<1>2. e \in Devices
  BY <1>1 DEF Keeps
<1>3. SmallerOf(n, d.max) \in Nat
  BY MaxIsNat, Smaller
<1>4. Keeps(e, Put(e, "data", SmallerOf(n, d.max)))
  BY <1>2, <1>3, PutKeeps DEF Kinds
<1>5. e.max = d.max
  BY <1>1 DEF Keeps
<1>6. USBD_CtlSendData(d, n) = Put(e, "data", SmallerOf(n, d.max))
  BY DEF USBD_CtlSendData, USBD_LL_Transmit
<1>. HIDE DEF e
<1>. QED
  BY <1>1, <1>4, <1>6, KeepsTrans

LEMMA ContinueKeeps == ASSUME NEW d \in Devices, NEW n \in Nat PROVE Keeps(d, USBD_CtlContinueSendData(d, n))
<1>1. SmallerOf(n, d.max) \in Nat
  BY MaxIsNat, Smaller
<1>. QED
  BY <1>1, PutKeeps DEF USBD_CtlContinueSendData, USBD_LL_Transmit, Kinds

LEMMA StatusKeeps == ASSUME NEW d \in Devices PROVE Keeps(d, USBD_CtlSendStatus(d))
<1>. DEFINE e == [d EXCEPT !.ep0 = "STATUS_IN"]
<1>1. Keeps(d, e)
  BY DEF Keeps, Devices
<1>2. e \in Devices
  BY <1>1 DEF Keeps
<1>3. Keeps(e, Put(e, "status", 0))
  BY <1>2, PutKeeps DEF Kinds
<1>. QED
  BY <1>1, <1>3, KeepsTrans DEF USBD_CtlSendStatus, USBD_LL_Transmit

LEMMA ReceiveKeeps == ASSUME NEW d \in Devices PROVE Keeps(d, USBD_CtlReceiveStatus(d))
  BY DEF Keeps, Devices, USBD_CtlReceiveStatus

-----------------------------------------------------------------------------
(* Opening and closing the class.                                          *)
LEMMA InitOpens ==
  ASSUME NEW d \in Devices
  PROVE  /\ init(d) \in Devices /\ init(d).class /\ init(d).open = ClassEps
         /\ init(d).state = d.state /\ init(d).old = d.old /\ init(d).config = d.config
         /\ init(d).max = d.max
  BY DEF init, USBD_LL_OpenEP, Devices, ClassEps

LEMMA DeInitCloses ==
  ASSUME NEW d \in Devices
  PROVE  /\ de_init(d) \in Devices /\ ~de_init(d).class /\ de_init(d).open = {}
         /\ de_init(d).state = d.state /\ de_init(d).old = d.old /\ de_init(d).config = d.config
         /\ de_init(d).max = d.max
  BY DEF de_init, USBD_LL_CloseEP, Devices, ClassEps

-----------------------------------------------------------------------------
(* Requests.                                                               *)
LEMMA HidKeeps == ASSUME NEW d \in Devices, NEW r, IsRequest(r) PROVE Keeps(d, USBD_LEDGER_HID_setup(d, r).dev)
<1>1. SmallerOf(HidDescriptor, r.length) \in Nat /\ SmallerOf(LEDGER_HID_report_descriptor, r.length) \in Nat
  BY DEF IsRequest, SmallerOf, HidDescriptor, LEDGER_HID_report_descriptor
<1>2. /\ Keeps(d, d) /\ Keeps(d, USBD_CtlSendData(d, 1)) /\ Keeps(d, USBD_CtlSendData(d, 2))
      /\ Keeps(d, USBD_CtlSendData(d, SmallerOf(HidDescriptor, r.length)))
      /\ Keeps(d, USBD_CtlSendData(d, SmallerOf(LEDGER_HID_report_descriptor, r.length)))
  BY <1>1, KeepsSelf, SendDataKeeps
<1>. QED
  BY <1>2 DEF USBD_LEDGER_HID_setup, Outcome

LEMMA ClassKeeps == ASSUME NEW d \in Devices, NEW r, IsRequest(r) PROVE Keeps(d, setup(d, r).dev)
  BY HidKeeps, ErrorKeeps DEF setup, Outcome

LEMMA DescriptorKeeps == ASSUME NEW d \in Devices, NEW r, IsRequest(r) PROVE Keeps(d, USBD_GetDescriptor(d, r))
<1>1. r.length \in Nat
  BY DEF IsRequest
<1>2. SmallerOf(DescriptorLength(r.value), r.length) \in Nat
  BY <1>1, DescriptorIsNat, Smaller
<1>. QED
  BY <1>2, SendDataKeeps, StatusKeeps, ErrorKeeps DEF USBD_GetDescriptor

LEMMA FeatureKeeps ==
  ASSUME NEW d \in Devices, NEW r, IsRequest(r)
  PROVE  Keeps(d, USBD_SetFeature(d, r)) /\ Keeps(d, USBD_ClrFeature(d, r))
  BY StatusKeeps, KeepsSelf, ErrorKeeps DEF USBD_SetFeature, USBD_ClrFeature

LEMMA AddressFollows == ASSUME NEW d, NEW r, IsRequest(r), Awake(d) PROVE Awake(USBD_SetAddress(d, r))
<1>1. d \in Devices
  BY DEF Awake, Follows
<1>2. Awake(USBD_CtlError(d))
  BY <1>1, ErrorKeeps, KeepsAwake
<1>3. ASSUME d.state # "CONFIGURED", NEW s \in {"DEFAULT", "ADDRESSED"}
      PROVE  Awake([USBD_CtlSendStatus(d) EXCEPT !.state = s])
  <2>1. Awake(USBD_CtlSendStatus(d))
    BY <1>1, StatusKeeps, KeepsAwake
  <2>. QED
    BY <2>1 DEF Awake, Follows, Devices, Stages
<1>. QED
  BY <1>2, <1>3 DEF USBD_SetAddress

LEMMA ConfigFollows ==
  ASSUME NEW d, NEW r, IsRequest(r), Awake(d)
  PROVE  Awake(USBD_SetConfig(d, r))
<1>1. d \in Devices /\ r.number \in Nat
  BY DEF Awake, Follows, IsRequest
<1>2. Awake(USBD_CtlError(d)) /\ Awake(USBD_CtlSendStatus(d))
  BY <1>1, ErrorKeeps, StatusKeeps, KeepsAwake
<1>3. Awake([USBD_CtlSendStatus(init([d EXCEPT !.config = 1])) EXCEPT !.state = "CONFIGURED"])
  <2>. DEFINE e == [d EXCEPT !.config = 1]
  <2>1. e \in Devices /\ e.config = 1
    BY <1>1 DEF Devices
  <2>2. init(e) \in Devices /\ init(e).class /\ init(e).open = ClassEps /\ init(e).config = 1
    BY <2>1, InitOpens
  <2>3. Keeps(init(e), USBD_CtlSendStatus(init(e)))
    BY <2>2, StatusKeeps
  <2>. HIDE DEF e
  <2>. QED
    BY <2>2, <2>3 DEF Keeps, Awake, Follows, Devices, Stages, e
<1>4. Awake(USBD_CtlSendStatus(de_init([d EXCEPT !.state = "ADDRESSED", !.config = 0])))
  <2>. DEFINE e == [d EXCEPT !.state = "ADDRESSED", !.config = 0]
  <2>1. e \in Devices /\ e.state = "ADDRESSED"
    <3>1. "ADDRESSED" \in Stages \cup {"SUSPENDED"} /\ 0 \in 0..1
      BY DEF Stages
    <3>. QED
      BY <1>1, <3>1 DEF Devices
  <2>. HIDE DEF e
  <2>2. Awake(de_init(e))
    BY <2>1, DeInitCloses DEF Awake, Follows
  <2>. QED
    BY <2>2, StatusKeeps, KeepsAwake DEF Awake, Follows, e
<1>5. ASSUME d.state \in {"DEFAULT", "SUSPENDED"} PROVE Awake(de_init(USBD_CtlError(d)))
  BY <1>1, <1>5, ErrorKeeps, DeInitCloses DEF Awake, Follows, Keeps
<1>6. d.state \in Stages \cup {"SUSPENDED"}
  BY DEF Awake, Follows, Devices
<1>. QED
  BY <1>1, <1>2, <1>3, <1>4, <1>5, <1>6 DEF USBD_SetConfig, Stages

LEMMA DeviceRequestFollows ==
  ASSUME NEW d, NEW r, IsRequest(r), Awake(d)
  PROVE  Awake(USBD_StdDevReq(d, r))
<1>1. d \in Devices
  BY DEF Awake, Follows
<1>2. Keeps(d, USBD_GetConfig(d, r)) /\ Keeps(d, USBD_GetStatus(d, r))
  BY <1>1, SendDataKeeps, ErrorKeeps DEF USBD_GetConfig, USBD_GetStatus
<1>3. /\ Awake(USBD_GetConfig(d, r)) /\ Awake(USBD_GetStatus(d, r)) /\ Awake(setup(d, r).dev)
      /\ Awake(USBD_GetDescriptor(d, r)) /\ Awake(USBD_SetFeature(d, r)) /\ Awake(USBD_ClrFeature(d, r))
  BY <1>1, <1>2, ClassKeeps, DescriptorKeeps, FeatureKeeps, KeepsAwake
<1>4. Awake(USBD_SetAddress(d, r)) /\ Awake(USBD_SetConfig(d, r))
  BY AddressFollows, ConfigFollows
<1>. QED
  BY <1>3, <1>4 DEF USBD_StdDevReq

LEMMA InterfaceRequestFollows ==
  ASSUME NEW d, NEW r, IsRequest(r), Awake(d)
  PROVE  Awake(USBD_StdItfReq(d, r))
<1>1. d \in Devices
  BY DEF Awake, Follows
<1>2. Awake(USBD_CtlError(d)) /\ Awake(setup(d, r).dev)
  BY <1>1, ErrorKeeps, ClassKeeps, KeepsAwake
<1>3. Awake(USBD_CtlSendStatus(setup(d, r).dev))
  BY <1>2, StatusKeeps, KeepsAwake DEF Awake, Follows
<1>. QED
  BY <1>2, <1>3 DEF USBD_StdItfReq

LEMMA EndpointRequestFollows ==
  ASSUME NEW d, NEW r, IsRequest(r), Awake(d), r.type = "STANDARD" /\ d.state = "CONFIGURED"
                 => r.name \in {"SET_FEATURE", "CLEAR_FEATURE", "GET_STATUS"}
  PROVE  Awake(USBD_StdEPReq(d, r))
<1>1. d \in Devices
  BY DEF Awake, Follows
<1>2. /\ Awake(d) /\ Awake(USBD_CtlError(d)) /\ Awake(USBD_CtlSendData(d, 2)) /\ Awake(USBD_CtlSendStatus(d))
      /\ Awake(setup(d, r).dev)
      /\ Awake(USBD_LL_StallEP(d, r.index)) /\ Awake(USBD_LL_ClearStallEP(d, r.index))
  BY <1>1, ErrorKeeps, SendDataKeeps, StatusKeeps, ClassKeeps, StallKeeps, ClearStallKeeps, KeepsAwake
<1>3. ASSUME NEW e, Awake(e)
      PROVE  /\ Awake(USBD_CtlSendStatus(e)) /\ Awake(USBD_LL_StallEP(e, "in0")) /\ Awake(setup(e, r).dev)
  <2>1. e \in Devices
    BY <1>3 DEF Awake, Follows
  <2>. QED
    BY <1>3, <2>1, StatusKeeps, StallKeeps, ClassKeeps, KeepsAwake
<1>4. /\ Awake(USBD_LL_StallEP(USBD_LL_StallEP(d, r.index), "in0"))
      /\ Awake(USBD_CtlSendStatus(USBD_LL_StallEP(d, r.index)))
      /\ Awake(setup(USBD_CtlSendStatus(d), r).dev)
      /\ Awake(setup(USBD_CtlSendStatus(USBD_LL_ClearStallEP(d, r.index)), r).dev)
  BY <1>2, <1>3
<1>. QED
  BY <1>2, <1>4 DEF USBD_StdEPReq

LEMMA SetupFollows ==
  ASSUME NEW d, NEW r, IsRequest(r), Awake(d),
         r.to = "ENDPOINT" /\ r.type = "STANDARD" => r.name \in {"SET_FEATURE", "CLEAR_FEATURE", "GET_STATUS"}
  PROVE  Awake(USBD_LL_SetupStage(d, r))
<1>. DEFINE s == [d EXCEPT !.ep0 = "SETUP", !.len = r.length, !.wire = <<>>, !.total = 0, !.rem = 0]
<1>1. Keeps(d, s)
  BY NoPackets DEF Awake, Follows, Keeps, Devices, IsRequest
<1>2. Awake(s) /\ s \in Devices
  BY <1>1, KeepsAwake DEF Keeps
<1>. HIDE DEF s
<1>3. Awake(USBD_StdDevReq(s, r)) /\ Awake(USBD_StdItfReq(s, r)) /\ Awake(USBD_LL_StallEP(s, "in0"))
  BY <1>2, DeviceRequestFollows, InterfaceRequestFollows, StallKeeps, KeepsAwake
<1>4. r.to = "ENDPOINT" => Awake(USBD_StdEPReq(s, r))
  BY <1>2, EndpointRequestFollows
<1>. QED
  BY <1>3, <1>4 DEF USBD_LL_SetupStage, s

\* What the host asks for.
LEMMA RequestsTyped ==
  \A r \in DeviceRequests \cup InterfaceRequests \cup EndpointRequests :
    /\ IsRequest(r)
    /\ r.to = "ENDPOINT" /\ r.type = "STANDARD" => r.name \in {"SET_FEATURE", "CLEAR_FEATURE", "GET_STATUS"}
<1>1. ASSUME NEW r \in DeviceRequests PROVE IsRequest(r) /\ r.to = "DEVICE"
  BY UsbControlAssumption DEF DeviceRequests, IsRequest, Request, Numbered
<1>2. ASSUME NEW r \in InterfaceRequests PROVE IsRequest(r) /\ r.to = "INTERFACE"
  BY UsbControlAssumption DEF InterfaceRequests, IsRequest, Request
<1>3. ASSUME NEW r \in EndpointRequests
      PROVE  /\ IsRequest(r)
             /\ r.to = "ENDPOINT" /\ r.type = "STANDARD" => r.name \in {"SET_FEATURE", "CLEAR_FEATURE", "GET_STATUS"}
  BY DEF EndpointRequests, IsRequest, Request
<1>. QED
  BY <1>1, <1>2, <1>3

-----------------------------------------------------------------------------
LEMMA DataInFollows ==
  ASSUME NEW d, Follows(d)
  PROVE  Keeps(d, USBD_LL_DataInStage(d)) /\ Follows(USBD_LL_DataInStage(d))
<1>1. d \in Devices /\ d.max \in Nat /\ d.rem \in Nat
  BY MaxIsNat DEF Follows, Devices
<1>2. Keeps(d, USBD_CtlReceiveStatus(d)) /\ Keeps(d, d)
  BY <1>1, ReceiveKeeps, KeepsSelf
<1>3. ASSUME d.rem > d.max
      PROVE  Keeps(d, USBD_CtlContinueSendData([d EXCEPT !.rem = @ - d.max], d.rem - d.max))
  <2>. DEFINE e == [d EXCEPT !.rem = @ - d.max]
  <2>1. d.rem - d.max \in Nat
    BY <1>1, <1>3
  <2>2. Keeps(d, e) /\ e \in Devices
    BY <1>1, <2>1 DEF Keeps, Devices
  <2>3. Keeps(e, USBD_CtlContinueSendData(e, d.rem - d.max))
    BY <2>1, <2>2, ContinueKeeps
  <2>. QED
    BY <2>2, <2>3, KeepsTrans
<1>4. Keeps(d, [USBD_CtlContinueSendData(d, 0) EXCEPT !.len = 0])
  <2>1. Keeps(d, USBD_CtlContinueSendData(d, 0))
    BY <1>1, ContinueKeeps
  <2>. QED
    BY <2>1 DEF Keeps, Devices
<1>5. Keeps(d, USBD_LL_DataInStage(d))
  BY <1>2, <1>3, <1>4 DEF USBD_LL_DataInStage
<1>. QED
  BY <1>5, KeepsFollows

\* A handle whose class and endpoints agree, in its default state.
LEMMA DefaultFollows ==
  ASSUME NEW d, d \in Devices, d.state = "DEFAULT", d.class => d.open = ClassEps, ~d.class => d.open = {}
  PROVE  Follows(d)
  BY DEF Follows
LEMMA StateNames == "DEFAULT" \in Stages \cup {"SUSPENDED"} /\ "NONE" \in Stages \cup {"NONE", "SUSPENDED"} /\ 0 \in 0..1
  BY DEF Stages

LEMMA ResetFollows ==
  ASSUME NEW d, Follows(d)
  PROVE  Follows(USBD_LL_Reset(d)) /\ USBD_LL_Reset(d).state = "DEFAULT"
<1>. DEFINE r == [d EXCEPT !.state = "DEFAULT", !.ep0 = "IDLE", !.config = 0, !.old = "NONE", !.wire = <<>>,
                         !.total = 0, !.rem = 0, !.len = 0]
<1>1. r \in Devices /\ r.state = "DEFAULT" /\ r.class = d.class /\ r.open = d.open
  BY NoPackets, StateNames DEF Follows, Devices
<1>2. de_init(r) \in Devices /\ ~de_init(r).class /\ de_init(r).open = {} /\ de_init(r).state = "DEFAULT"
  BY <1>1, DeInitCloses
<1>3. USBD_LL_Reset(d) = [IF d.class THEN de_init(r) ELSE r EXCEPT !.stalled = {}, !.max = MaxEp0]
  BY DEF USBD_LL_Reset
<1>. HIDE DEF r
<1>4. ASSUME NEW e \in Devices, e.state = "DEFAULT", e.class => e.open = ClassEps, ~e.class => e.open = {}
      PROVE  LET f == [e EXCEPT !.stalled = {}, !.max = MaxEp0] IN Follows(f) /\ f.state = "DEFAULT"
  <2>. DEFINE f == [e EXCEPT !.stalled = {}, !.max = MaxEp0]
  <2>1. f \in Devices /\ f.state = e.state /\ f.class = e.class /\ f.open = e.open
    BY DEF Devices
  <2>. HIDE DEF f
  <2>2. Follows(f) /\ f.state = "DEFAULT"
    BY <1>4, <2>1, DefaultFollows
  <2>. QED
    BY <2>2 DEF f
<1>5. Follows(USBD_LL_Reset(d)) /\ USBD_LL_Reset(d).state = "DEFAULT"
  <2>1. CASE d.class
    BY <1>2, <1>3, <1>4, <2>1
  <2>2. CASE ~d.class
    BY <1>1, <1>3, <1>4, <2>2 DEF Follows
  <2>. QED
    BY <2>1, <2>2 DEF Follows, Devices
<1>. QED
  BY <1>5

LEMMA SuspendFollows ==
  ASSUME NEW d, Follows(d)
  PROVE  Follows(USBD_LL_Suspend(d)) /\ Follows(USBD_LL_Resume(d))
<1>1. "SUSPENDED" \in Stages \cup {"SUSPENDED"} /\ d.state \in Stages \cup {"NONE", "SUSPENDED"} /\ d.state # "NONE"
  BY DEF Follows, Devices, Stages
<1>2. Follows(USBD_LL_Suspend(d))
  <2>. DEFINE e == USBD_LL_Suspend(d)
  <2>1. e \in Devices
    BY <1>1 DEF Follows, Devices, USBD_LL_Suspend
  <2>2. e.state = "SUSPENDED" /\ e.old = d.state /\ e.class = d.class /\ e.open = d.open /\ e.config = d.config
    BY DEF Follows, Devices, USBD_LL_Suspend
  <2>. HIDE DEF e
  <2>3. Follows(e)
    BY <1>1, <2>1, <2>2 DEF Follows
  <2>. QED
    BY <2>3 DEF e
<1>3. CASE d.state = "SUSPENDED"
  <2>. DEFINE o == IF d.old = "SUSPENDED" THEN d.old ELSE "NONE"
              e == [d EXCEPT !.state = d.old, !.old = o]
  <2>1. d.old \in Stages \cup {"SUSPENDED"} /\ o \in Stages \cup {"NONE", "SUSPENDED"}
    BY <1>3 DEF Follows, Devices
  <2>2. USBD_LL_Resume(d) = e
    BY <1>3 DEF USBD_LL_Resume
  <2>3. o = "SUSPENDED" <=> d.old = "SUSPENDED"
    OBVIOUS
  <2>. HIDE DEF o
  <2>5. e \in Devices
    BY <2>1 DEF Follows, Devices
  <2>6. e.state = d.old /\ e.old = o /\ e.class = d.class /\ e.open = d.open /\ e.config = d.config
    BY DEF Follows, Devices
  <2>. HIDE DEF e
  <2>7. Follows(e)
    BY <1>3, <2>1, <2>3, <2>5, <2>6 DEF Follows
  <2>. QED
    BY <1>2, <2>2, <2>7
<1>4. CASE d.state # "SUSPENDED"
  BY <1>2, <1>4 DEF USBD_LL_Resume
<1>. QED
  BY <1>3, <1>4

LEMMA InitialFollows ==
  ASSUME NEW d \in Devices, d.class => d.open = ClassEps, ~d.class => d.open = {}
  PROVE  Follows(USBD_Init(d)) /\ USBD_Init(d).state = "DEFAULT"
<1>. DEFINE s == USBD_Init(d)
<1>1. s \in Devices
  BY NoPackets, StateNames DEF Devices, USBD_Init, USBD_LL_Init
<1>2. s.state = "DEFAULT" /\ s.class = d.class /\ s.open = d.open
  BY DEF Devices, USBD_Init, USBD_LL_Init
<1>. HIDE DEF s
<1>3. Follows(s)
  BY <1>1, <1>2, DefaultFollows
<1>. QED
  BY <1>2, <1>3 DEF s

\* (NONE is no state of a device: it is the zeroed structure before USBD_Init.)
LEMMA ZeroedFollows ==
  ASSUME NEW x \in SUBSET ClassEps
  PROVE  LET z == USBD_Init([Zeroed EXCEPT !.stalled = x]) IN Follows(z) /\ z.state = "DEFAULT"
<1>. DEFINE z == USBD_Init([Zeroed EXCEPT !.stalled = x])
<1>1. {} \in SUBSET ClassEps /\ 0 \in {0, MaxEp0}
  OBVIOUS
<1>2. z \in Devices
  BY <1>1, NoPackets, StateNames DEF Devices, Zeroed, USBD_Init, USBD_LL_Init
<1>3. z.state = "DEFAULT" /\ ~z.class /\ z.open = {}
  BY DEF Zeroed, USBD_Init, USBD_LL_Init
<1>. HIDE DEF z
<1>4. Follows(z)
  BY <1>2, <1>3, DefaultFollows
<1>. QED
  BY <1>3, <1>4 DEF z

LEMMA StartFollows ==
  ASSUME NEW d, Follows(d), NEW force \in BOOLEAN, NEW changed \in BOOLEAN, force => changed
  PROVE  LET e == USBD_LEDGER_start(USBD_LEDGER_init(d, force), changed) IN
         Follows(e) /\ (e.state = "DEFAULT" \/ e = d)
<1>1. d \in Devices /\ d.stalled \in SUBSET ClassEps /\ (d.class => d.open = ClassEps) /\ (~d.class => d.open = {})
  BY DEF Follows, Devices
<1>2. CASE force
  <2>1. USBD_LEDGER_start(USBD_LEDGER_init(d, force), changed) = USBD_Init([Zeroed EXCEPT !.stalled = d.stalled])
    BY <1>2 DEF USBD_LEDGER_start, USBD_LEDGER_init
  <2>. QED
    BY <1>1, <2>1, ZeroedFollows
<1>3. CASE ~force /\ changed
  BY <1>1, <1>3, InitialFollows DEF USBD_LEDGER_start, USBD_LEDGER_init
<1>4. CASE ~force /\ ~changed
  BY <1>4 DEF USBD_LEDGER_start, USBD_LEDGER_init
<1>. QED
  BY <1>2, <1>3, <1>4

-----------------------------------------------------------------------------
LEMMA InitFollows == UsbInit => UsbInv
<1>1. USBD_Init([Zeroed EXCEPT !.stalled = {}]) = USBD_Init(Zeroed)
  BY DEF Zeroed, USBD_Init, USBD_LL_Init
<1>2. Follows(USBD_Init(Zeroed)) /\ USBD_Init(Zeroed).state = "DEFAULT"
  BY <1>1, ZeroedFollows
<1>. QED
  BY <1>2 DEF UsbInit, UsbInv, Awake, USBD_LEDGER_start

LEMMA StepFollows == UsbInv /\ [UsbNext]_usbVars => UsbInv'
<1>. SUFFICES ASSUME UsbInv, [UsbNext]_usbVars PROVE UsbInv'
  OBVIOUS
<1>0. Follows(udev) /\ udev \in Devices /\ asleep \in BOOLEAN
  BY DEF UsbInv, Follows
<1>1. ASSUME NEW r \in DeviceRequests \cup InterfaceRequests \cup EndpointRequests, Setup(r) PROVE UsbInv'
  <2>1. IsRequest(r) /\ udev' = USBD_LL_SetupStage(udev, r) /\ ~asleep /\ asleep' = asleep
    BY <1>1, RequestsTyped DEF Setup
  <2>2. Awake(udev')
    BY <1>0, <1>1, <2>1, RequestsTyped, SetupFollows DEF UsbInv
  <2>. QED
    BY <1>0, <2>1, <2>2 DEF UsbInv, Awake
<1>2. CASE SetupDevice \/ SetupInterface \/ SetupEndpoint
  BY <1>1, <1>2 DEF SetupDevice, SetupInterface, SetupEndpoint
<1>3. CASE TakeIn
  <2>1. udev' = USBD_LL_DataInStage(udev) /\ asleep' = asleep
    BY <1>3 DEF TakeIn
  <2>2. Follows(udev') /\ udev'.state = udev.state /\ udev'.old = udev.old
    BY <1>0, <2>1, DataInFollows DEF Keeps
  <2>. QED
    BY <1>0, <2>1, <2>2 DEF UsbInv, Awake
<1>4. CASE BusReset
  <2>1. Follows(udev') /\ udev'.state = "DEFAULT" /\ asleep' = FALSE
    BY <1>0, <1>4, ResetFollows DEF BusReset
  <2>. QED
    BY <2>1 DEF UsbInv, Awake
<1>5. CASE Suspend
  BY <1>0, <1>5, SuspendFollows DEF Suspend, UsbInv
<1>6. CASE Resume
  <2>1. Follows(udev') /\ asleep' = FALSE /\ udev' = USBD_LL_Resume(udev)
    BY <1>0, <1>6, SuspendFollows DEF Resume
  <2>2. udev'.state = "SUSPENDED" => udev'.old = "SUSPENDED"
    BY <1>0, <2>1 DEF USBD_LL_Resume, Devices
  <2>. QED
    BY <2>1, <2>2 DEF UsbInv, Awake
<1>7. CASE StartStack
  <2>1. Follows(udev') /\ (udev'.state = "DEFAULT" \/ udev' = udev) /\ asleep' = asleep
    BY <1>0, <1>7, StartFollows DEF StartStack
  <2>. QED
    BY <2>1 DEF UsbInv, Awake
<1>8. CASE UNCHANGED usbVars
  BY <1>8 DEF usbVars, UsbInv, Awake
<1>. QED
  BY <1>2, <1>3, <1>4, <1>5, <1>6, <1>7, <1>8 DEF UsbNext

(* Whatever requests, resets, suspensions and restarts come, the class and *)
(* its endpoints are there together, and they are there while the device   *)
(* is configured.                                                          *)
THEOREM ClassAndState == UsbSpec => []ClassFollowsState
<1>1. UsbInv => ClassFollowsState
  BY DEF UsbInv, Awake, Follows, ClassFollowsState
<1>. QED
  BY <1>1, InitFollows, StepFollows, PTL DEF UsbSpec

-----------------------------------------------------------------------------
(* The stages of a control transfer: what the handle d says of the packets *)
(* it has given to endpoint 0 for the request r.                           *)

\* The length t of an answer: no more than the host asked for, or less than
\* one packet (GET_STATUS of an interface gives two bytes to a host that asks
\* for one).
Asked(t, r) ==
  /\ t \in Nat \ {0} /\ (t <= r.length \/ t < MaxEp0)
  /\ r.to = "DEVICE" /\ r.name = "GET_DESCRIPTOR" => t = SmallerOf(DescriptorLength(r.value), r.length)

FullButLast(s, m) ==
  /\ s \in Seq(Packets) /\ Len(s) > 0
  /\ \A i \in 1..Len(s) : s[i].kind = "data"
  /\ \A i \in 1..(Len(s) - 1) : s[i].n = m

\* DATA_IN: rem_length counts from the last packet given, until the empty
\* packet is given.  It does not move in a device without a packet size.
Counting(d, r) ==
  /\ d.len = r.length
  /\ d.total = (Len(d.wire) - 1) * d.max + d.rem
  /\ d.wire[Len(d.wire)].n = SmallerOf(d.rem, d.max)
Emptied(d, r) ==
  /\ d.len = 0 /\ d.rem = d.max /\ d.total < r.length
  /\ d.total = (Len(d.wire) - 1) * d.max
  /\ d.wire[Len(d.wire)].n = 0
Sending(d, r) ==
  /\ FullButLast(d.wire, d.max) /\ Asked(d.total, r) /\ d.rem \in Nat \ {0}
  /\ Counting(d, r) \/ Emptied(d, r)

\* STATUS_OUT.
Sent(d, r) ==
  /\ FullButLast(d.wire, d.max) /\ Asked(d.total, r) /\ d.max = MaxEp0
  /\ LET last == d.wire[Len(d.wire)].n IN
     /\ d.total = (Len(d.wire) - 1) * MaxEp0 + last
     /\ last < MaxEp0 \/ d.total = r.length
     /\ last = 0 => d.total < r.length

\* The other stages: one answer, or one of the exceptions.
Single(d) == Len(d.wire) = 1 /\ d.wire[1].kind \in {"status", "stall"}
Settled(d, r) ==
  \/ Single(d)
  \/ d.wire = <<>> /\ Ignored(r)
  \/ AnsweredTwice(d.wire, "status", "stall") /\ HaltCleared(r)
  \/ AnsweredTwice(d.wire, "data", "status") /\ NothingAsked(r)

Answer(d, r) ==
  /\ d.ep0 = "DATA_IN" => Sending(d, r)
  /\ d.ep0 = "STATUS_OUT" => Sent(d, r)
  /\ d.ep0 \notin {"DATA_IN", "STATUS_OUT"} => Settled(d, r)
AnswerInv == request # NoRequest => Answer(udev, request)

\* The handle that a request finds.
Blank(d, r) == d \in Devices /\ d.ep0 = "SETUP" /\ d.wire = <<>> /\ d.len = r.length

\* d and e agree on endpoint 0.
SameEp0(d, e) == e.ep0 = d.ep0 /\ e.wire = d.wire /\ e.total = d.total /\ e.rem = d.rem /\ e.len = d.len
                 /\ e.max = d.max

LEMMA SameAnswer == ASSUME NEW d, NEW e, NEW r, SameEp0(d, e), Answer(d, r) PROVE Answer(e, r)
  BY DEF SameEp0, Answer, Sending, Sent, Settled, Single, Counting, Emptied
LEMMA SameBlank == ASSUME NEW d, NEW e \in Devices, NEW r, SameEp0(d, e), Blank(d, r) PROVE Blank(e, r)
  BY DEF SameEp0, Blank

LEMMA PutWire ==
  ASSUME NEW d \in Devices, NEW k, NEW n
  PROVE  Put(d, k, n).wire = Append(d.wire, [kind |-> k, n |-> n]) /\ Put(d, k, n).ep0 = d.ep0
         /\ Put(d, k, n).total = d.total /\ Put(d, k, n).rem = d.rem /\ Put(d, k, n).len = d.len
         /\ Put(d, k, n).max = d.max
  BY DEF Put, Devices

LEMMA FirstPacket ==
  ASSUME NEW k, NEW n
  PROVE  /\ Len(Append(<<>>, [kind |-> k, n |-> n])) = 1
         /\ Append(<<>>, [kind |-> k, n |-> n])[1].kind = k /\ Append(<<>>, [kind |-> k, n |-> n])[1].n = n
  OBVIOUS

\* A stall ends the transfer.
LEMMA StallAnswers == ASSUME NEW d, NEW r, Blank(d, r) PROVE Answer(USBD_LL_StallEP(d, "in0"), r)
<1>1. /\ Put(d, "stall", 0).wire = Append(<<>>, [kind |-> "stall", n |-> 0]) /\ Put(d, "stall", 0).ep0 = "SETUP"
  BY PutWire DEF Blank
<1>2. Single(Put(d, "stall", 0))
  BY <1>1, FirstPacket DEF Single
<1>. QED
  BY <1>1, <1>2 DEF USBD_LL_StallEP, Answer, Settled

LEMMA OtherStallSame ==
  ASSUME NEW d \in Devices, NEW ep, ep # "in0"
  PROVE  SameEp0(d, USBD_LL_StallEP(d, ep)) /\ USBD_LL_StallEP(d, ep) \in Devices
  BY DEF SameEp0, USBD_LL_StallEP, Devices

LEMMA ErrorAnswers == ASSUME NEW d, NEW r, Blank(d, r) PROVE Answer(USBD_CtlError(d), r)
<1>. DEFINE e == USBD_LL_StallEP(d, "in0")
<1>1. Answer(e, r)
  BY StallAnswers
<1>2. e \in Devices
  BY StallKeeps DEF Blank, Keeps
<1>3. SameEp0(e, USBD_CtlError(d))
  BY <1>2, OtherStallSame DEF USBD_CtlError
<1>. QED
  BY <1>1, <1>3, SameAnswer

LEMMA StatusStage ==
  ASSUME NEW d \in Devices
  PROVE  USBD_CtlSendStatus(d).ep0 = "STATUS_IN"
         /\ USBD_CtlSendStatus(d).wire = Append(d.wire, [kind |-> "status", n |-> 0])
<1>. DEFINE e == [d EXCEPT !.ep0 = "STATUS_IN"]
<1>1. e \in Devices /\ e.ep0 = "STATUS_IN" /\ e.wire = d.wire
  BY DEF Devices
<1>. HIDE DEF e
<1>2. USBD_CtlSendStatus(d) = Put(e, "status", 0)
  BY DEF USBD_CtlSendStatus, USBD_LL_Transmit, e
<1>. QED
  BY <1>1, <1>2, PutWire

LEMMA StatusAnswers == ASSUME NEW d, NEW r, Blank(d, r) PROVE Answer(USBD_CtlSendStatus(d), r)
<1>1. USBD_CtlSendStatus(d).ep0 = "STATUS_IN"
      /\ USBD_CtlSendStatus(d).wire = Append(<<>>, [kind |-> "status", n |-> 0])
  BY StatusStage DEF Blank
<1>2. Single(USBD_CtlSendStatus(d))
  BY <1>1, FirstPacket DEF Single
<1>. QED
  BY <1>1, <1>2 DEF Answer, Settled

\* The first packet of the data stage.
LEMMA DataAnswers ==
  ASSUME NEW d, NEW r, NEW t, Blank(d, r), IsRequest(r), Asked(t, r)
  PROVE  Answer(USBD_CtlSendData(d, t), r)
<1>. DEFINE e == [d EXCEPT !.ep0 = "DATA_IN", !.total = t, !.rem = t]
            m == SmallerOf(t, d.max)
            f == USBD_CtlSendData(d, t)
<1>1. e \in Devices /\ e.ep0 = "DATA_IN" /\ e.wire = <<>> /\ e.total = t /\ e.rem = t /\ e.len = r.length /\ e.max = d.max
  BY DEF Blank, Devices, Asked
<1>2. f = Put(e, "data", m)
  BY DEF USBD_CtlSendData, USBD_LL_Transmit
<1>3. t \in Nat \ {0} /\ d.max \in Nat /\ m \in Nat
  BY MaxIsNat, Smaller DEF Blank, Asked
<1>. HIDE DEF e, f, m
<1>4. /\ f.ep0 = "DATA_IN" /\ f.total = t /\ f.rem = t /\ f.len = r.length /\ f.max = d.max
      /\ f.wire = Append(<<>>, [kind |-> "data", n |-> m])
  BY <1>1, <1>2, PutWire
<1>5. Len(f.wire) = 1 /\ f.wire[1].kind = "data" /\ f.wire[1].n = m
  BY <1>4, FirstPacket
<1>6. [kind |-> "data", n |-> m] \in Packets
  BY <1>3 DEF Packets, Kinds
<1>7. f.wire \in Seq(Packets)
  BY <1>4, <1>6, NoPackets
<1>8. FullButLast(f.wire, f.max)
  BY <1>5, <1>7 DEF FullButLast
<1>9. Counting(f, r)
  <2>1. f.total = (Len(f.wire) - 1) * f.max + f.rem
    BY <1>3, <1>4, <1>5
  <2>. QED
    BY <2>1, <1>4, <1>5 DEF Counting, m
<1>. QED
  BY <1>3, <1>4, <1>8, <1>9 DEF Answer, Sending, f

-----------------------------------------------------------------------------
(* The data stage goes on.                                                 *)
LEMMA OneMore == ASSUME NEW n \in Nat, NEW m \in Nat, n > 0 PROVE n * m = (n - 1) * m + m
  OBVIOUS

\* A full last packet may be followed by another.
LEMMA NextPacket ==
  ASSUME NEW s, NEW z, FullButLast(s, z), s[Len(s)].n = z, NEW m \in Nat
  PROVE  LET t == Append(s, [kind |-> "data", n |-> m]) IN
         FullButLast(t, z) /\ Len(t) = Len(s) + 1 /\ t[Len(t)].n = m
<1>. DEFINE p == [kind |-> "data", n |-> m]
            t == Append(s, p)
<1>1. p \in Packets /\ p.kind = "data" /\ p.n = m
  BY DEF Packets, Kinds
<1>. HIDE DEF p
<1>2. s \in Seq(Packets) /\ Len(s) \in Nat
  BY DEF FullButLast
<1>3. t \in Seq(Packets) /\ Len(t) = Len(s) + 1 /\ t[Len(s) + 1] = p /\ \A i \in 1..Len(s) : t[i] = s[i]
  BY <1>1, <1>2
<1>. HIDE DEF t
<1>4. ASSUME NEW i \in 1..Len(t) PROVE t[i].kind = "data"
  <2>1. CASE i = Len(s) + 1
    BY <1>1, <1>3, <2>1
  <2>2. CASE i \in 1..Len(s)
    BY <1>3, <2>2 DEF FullButLast
  <2>. QED
    BY <1>2, <1>3, <2>1, <2>2
<1>5. ASSUME NEW i \in 1..(Len(t) - 1) PROVE t[i].n = z
  <2>1. i \in 1..Len(s) /\ t[i] = s[i]
    BY <1>2, <1>3
  <2>2. i = Len(s) \/ i \in 1..(Len(s) - 1)
    BY <1>2, <2>1
  <2>. QED
    BY <2>1, <2>2 DEF FullButLast
<1>6. FullButLast(t, z) /\ Len(t) = Len(s) + 1 /\ t[Len(t)].n = m
  BY <1>1, <1>2, <1>3, <1>4, <1>5 DEF FullButLast
<1>. QED
  BY <1>6 DEF t, p

LEMMA DataInAnswers ==
  ASSUME NEW d \in Devices, NEW r, IsRequest(r), Answer(d, r)
  PROVE  Answer(USBD_LL_DataInStage(d), r)
<1>0. PICK m \in Nat : m = d.max
  BY MaxIsNat
<1>. DEFINE n == Len(d.wire)
<1>1. CASE d.ep0 # "DATA_IN"
  BY <1>0, <1>1 DEF USBD_LL_DataInStage
<1>2. CASE d.ep0 = "DATA_IN"
  <2>1. FullButLast(d.wire, m) /\ Asked(d.total, r) /\ d.rem \in Nat \ {0} /\ (Counting(d, r) \/ Emptied(d, r))
    BY <1>0, <1>2 DEF Answer, Sending
  <2>2. n \in Nat /\ n > 0 /\ m \in Nat /\ m \in {0, MaxEp0} /\ d.total \in Nat /\ r.length \in Nat
    BY <1>0, <2>1, MaxIsNat DEF Devices, FullButLast, Asked, IsRequest
  <2>3. n * m = (n - 1) * m + m /\ n * m \in Nat /\ (n - 1) * m \in Nat
    BY <2>2, OneMore
  <2>. HIDE DEF n
  <2>4. CASE d.rem > m
    <3>. DEFINE e == [d EXCEPT !.rem = @ - m]
                k == SmallerOf(d.rem - m, m)
                f == USBD_CtlContinueSendData(e, d.rem - m)
    <3>1. Counting(d, r)
      BY <1>0, <2>1, <2>2, <2>4 DEF Emptied
    <3>2. d.wire[n].n = m /\ d.total = (n - 1) * m + d.rem /\ d.len = r.length
      BY <1>0, <2>2, <2>1, <2>4, <3>1 DEF Counting, SmallerOf, n
    <3>3. d.rem - m \in Nat \ {0} /\ k \in Nat
      <4>1. d.rem - m \in Nat \ {0}
        BY <1>0, <2>1, <2>2, <2>4
      <4>. QED
        BY <1>0, <2>2, <4>1, Smaller
    <3>4. e \in Devices /\ e.ep0 = "DATA_IN" /\ e.wire = d.wire /\ e.total = d.total /\ e.len = d.len /\ e.rem = d.rem - m /\ e.max = m
      BY <1>0, <1>2, <3>3 DEF Devices
    <3>5. f = Put(e, "data", k)
      BY <1>0, <3>4 DEF USBD_CtlContinueSendData, USBD_LL_Transmit
    <3>6. USBD_LL_DataInStage(d) = f
      BY <1>0, <1>2, <2>4 DEF USBD_LL_DataInStage
    <3>. HIDE DEF e, f, k
    <3>7. /\ f.ep0 = "DATA_IN" /\ f.total = d.total /\ f.len = r.length /\ f.rem = d.rem - m /\ f.max = m
          /\ f.wire = Append(d.wire, [kind |-> "data", n |-> k])
      BY <1>0, <3>2, <3>4, <3>5, PutWire
    <3>8. FullButLast(f.wire, m) /\ Len(f.wire) = n + 1 /\ f.wire[Len(f.wire)].n = k
      <4>1. FullButLast(d.wire, m) /\ d.wire[Len(d.wire)].n = m /\ k \in Nat
        BY <2>1, <3>2, <3>3 DEF n
      <4>2. LET t == Append(d.wire, [kind |-> "data", n |-> k]) IN
            FullButLast(t, m) /\ Len(t) = Len(d.wire) + 1 /\ t[Len(t)].n = k
        BY <4>1, NextPacket
      <4>. QED
        BY <3>7, <4>2 DEF n
    <3>9. f.total = (Len(f.wire) - 1) * m + f.rem
      <4>1. Len(f.wire) - 1 = n
        BY <1>0, <2>2, <3>8
      <4>2. (n - 1) * m + d.rem = n * m + (d.rem - m)
        BY <2>1, <2>2, <2>3
      <4>. QED
        BY <3>2, <3>7, <4>1, <4>2
    <3>10. Counting(f, r)
      BY <1>0, <3>7, <3>8, <3>9 DEF Counting, k
    <3>. QED
      BY <1>0, <2>1, <3>3, <3>6, <3>7, <3>8, <3>10 DEF Answer, Sending
  <2>5. CASE d.rem = m /\ d.total >= m /\ d.total < d.len
    <3>. DEFINE g == USBD_CtlContinueSendData(d, 0)
                f == [g EXCEPT !.len = 0]
    <3>1. Counting(d, r)
      BY <1>0, <2>1, <2>2, <2>5 DEF Emptied
    <3>2. d.wire[n].n = m /\ d.total = n * m /\ d.total < r.length
      BY <1>0, <2>2, <2>3, <2>5, <3>1 DEF Counting, SmallerOf, n
    <3>3. SmallerOf(0, m) = 0
      BY <1>0, <2>2 DEF SmallerOf
    <3>4. g = Put(d, "data", 0)
      BY <1>0, <3>3 DEF USBD_CtlContinueSendData, USBD_LL_Transmit
    <3>5. g \in Devices
      BY <1>0, ContinueKeeps DEF Keeps
    <3>6. USBD_LL_DataInStage(d) = f
      BY <1>0, <1>2, <2>2, <2>5 DEF USBD_LL_DataInStage
    <3>. HIDE DEF g
    <3>7. /\ f.ep0 = "DATA_IN" /\ f.total = d.total /\ f.len = 0 /\ f.rem = m /\ f.max = m
          /\ f.wire = Append(d.wire, [kind |-> "data", n |-> 0])
      <4>1. g.ep0 = "DATA_IN" /\ g.total = d.total /\ g.rem = m /\ g.max = m /\ g.wire = Append(d.wire, [kind |-> "data", n |-> 0])
        BY <1>0, <1>2, <2>5, <3>4, PutWire
      <4>. QED
        BY <1>0, <3>5, <4>1 DEF Devices
    <3>. HIDE DEF f
    <3>8. FullButLast(f.wire, m) /\ Len(f.wire) = n + 1 /\ f.wire[Len(f.wire)].n = 0
      <4>1. FullButLast(d.wire, m) /\ d.wire[Len(d.wire)].n = m
        BY <2>1, <3>2 DEF n
      <4>2. LET t == Append(d.wire, [kind |-> "data", n |-> 0]) IN
            FullButLast(t, m) /\ Len(t) = Len(d.wire) + 1 /\ t[Len(t)].n = 0
        BY <4>1, NextPacket
      <4>. QED
        BY <3>7, <4>2 DEF n
    <3>9. Len(f.wire) - 1 = n
      BY <1>0, <2>2, <3>8
    <3>10. Emptied(f, r)
      <4>1. f.total = (Len(f.wire) - 1) * f.max
        BY <1>0, <3>2, <3>7, <3>9
      <4>. QED
        BY <1>0, <3>2, <3>7, <3>8, <4>1 DEF Emptied
    <3>. QED
      BY <1>0, <2>1, <2>5, <3>6, <3>7, <3>8, <3>10 DEF Answer, Sending
  <2>6. CASE d.rem <= m /\ ~(d.rem = m /\ d.total >= m /\ d.total < d.len)
    <3>. DEFINE f == USBD_CtlReceiveStatus(d)
    <3>1. f.ep0 = "STATUS_OUT" /\ f.wire = d.wire /\ f.total = d.total /\ f.max = m
      BY <1>0 DEF USBD_CtlReceiveStatus, Devices
    <3>2. USBD_LL_DataInStage(d) = f
      BY <1>0, <1>2, <2>1, <2>2, <2>6 DEF USBD_LL_DataInStage
    <3>. HIDE DEF f
    <3>0. m = MaxEp0
      BY <1>0, <2>1, <2>2, <2>6
    <3>3. ASSUME Counting(d, r) PROVE Sent(d, r)
      <4>1. d.len = r.length /\ d.total = (n - 1) * m + d.rem /\ d.wire[n].n = d.rem
        BY <1>0, <2>1, <2>2, <2>6, <3>3 DEF Counting, SmallerOf, n
      <4>2. d.rem = m => d.total = r.length
        <5>1. d.rem = m => d.total >= m
          BY <1>0, <2>2, <2>3, <4>1
        <5>2. d.total <= r.length \/ d.total < m
          BY <1>0, <2>1, <3>0 DEF Asked
        <5>. QED
          <6>1. d.len = r.length
            BY <4>1
          <6>. QED
            BY <2>2, <2>6, <5>1, <5>2, <6>1
      <4>3. d.rem < m \/ d.rem = m
        BY <1>0, <2>1, <2>2, <2>6
      <4>. QED
        BY <1>0, <2>1, <2>2, <3>0, <4>1, <4>2, <4>3 DEF Sent, n
    <3>4. ASSUME Emptied(d, r) PROVE Sent(d, r)
      <4>1. d.total < r.length /\ d.total = (n - 1) * m + 0 /\ d.wire[n].n = 0
        BY <1>0, <2>2, <2>3, <3>4 DEF Emptied, n
      <4>2. 0 < MaxEp0
        BY UsbControlAssumption
      <4>. QED
        BY <1>0, <2>1, <2>2, <3>0, <4>1, <4>2 DEF Sent, n
    <3>5. Sent(f, r)
      BY <1>0, <2>1, <3>1, <3>3, <3>4 DEF Sent
    <3>. QED
      BY <1>0, <3>1, <3>2, <3>5 DEF Answer
  <2>. QED
    BY <1>0, <2>1, <2>2, <2>4, <2>5, <2>6
<1>. QED
  BY <1>0, <1>1, <1>2

-----------------------------------------------------------------------------
(* Each handler answers.                                                   *)

\* The exceptions.
LEMMA NoAnswer == ASSUME NEW d, NEW r, Blank(d, r), Ignored(r) PROVE Answer(d, r)
  BY DEF Blank, Answer, Settled

LEMMA TwoPackets ==
  ASSUME NEW k, NEW l, NEW m, NEW n
  PROVE  AnsweredTwice(Append(Append(<<>>, [kind |-> k, n |-> m]), [kind |-> l, n |-> n]), k, l)
  BY DEF AnsweredTwice

LEMMA ErrorStage ==
  ASSUME NEW d \in Devices
  PROVE  /\ USBD_CtlError(d).ep0 = d.ep0
         /\ USBD_CtlError(d).wire = Append(d.wire, [kind |-> "stall", n |-> 0])
<1>. DEFINE e == USBD_LL_StallEP(d, "in0")
<1>1. e = Put(d, "stall", 0)
  BY DEF USBD_LL_StallEP
<1>2. e \in Devices
  BY StallKeeps DEF Keeps
<1>3. e.ep0 = d.ep0 /\ e.wire = Append(d.wire, [kind |-> "stall", n |-> 0])
  BY <1>1, PutWire
<1>. HIDE DEF e
<1>4. SameEp0(e, USBD_LL_StallEP(e, "out0"))
  BY <1>2, OtherStallSame
<1>5. USBD_CtlError(d) = USBD_LL_StallEP(e, "out0")
  BY DEF USBD_CtlError, e
<1>. QED
  BY <1>3, <1>4, <1>5 DEF SameEp0

LEMMA StatusThenStall ==
  ASSUME NEW d, NEW r, Blank(d, r), HaltCleared(r)
  PROVE  Answer(USBD_CtlError(USBD_CtlSendStatus(d)), r)
<1>. DEFINE e == USBD_CtlSendStatus(d)
            f == USBD_CtlError(e)
<1>1. e \in Devices
  BY StatusKeeps DEF Blank, Keeps
<1>2. e.ep0 = "STATUS_IN" /\ e.wire = Append(<<>>, [kind |-> "status", n |-> 0])
  BY StatusStage DEF Blank
<1>. HIDE DEF e
<1>3. f.ep0 = "STATUS_IN" /\ f.wire = Append(Append(<<>>, [kind |-> "status", n |-> 0]), [kind |-> "stall", n |-> 0])
  BY <1>1, <1>2, ErrorStage
<1>. HIDE DEF f
<1>4. AnsweredTwice(f.wire, "status", "stall")
  BY <1>3, TwoPackets
<1>5. Answer(f, r)
  BY <1>3, <1>4 DEF Answer, Settled
<1>. QED
  BY <1>5 DEF e, f

LEMMA DataThenStatus ==
  ASSUME NEW d, NEW r, NEW t \in Nat, Blank(d, r), NothingAsked(r)
  PROVE  Answer(USBD_CtlSendStatus(USBD_CtlSendData(d, t)), r)
<1>. DEFINE b == [d EXCEPT !.ep0 = "DATA_IN", !.total = t, !.rem = t]
            k == SmallerOf(t, d.max)
            e == USBD_CtlSendData(d, t)
            f == USBD_CtlSendStatus(e)
<1>1. b \in Devices /\ b.wire = <<>>
  BY DEF Blank, Devices
<1>2. e = Put(b, "data", k)
  BY DEF USBD_CtlSendData, USBD_LL_Transmit
<1>3. e \in Devices
  BY SendDataKeeps DEF Blank, Keeps
<1>. HIDE DEF b, k, e
<1>4. e.wire = Append(<<>>, [kind |-> "data", n |-> k])
  BY <1>1, <1>2, PutWire
<1>5. f.ep0 = "STATUS_IN" /\ f.wire = Append(Append(<<>>, [kind |-> "data", n |-> k]), [kind |-> "status", n |-> 0])
  BY <1>3, <1>4, StatusStage
<1>. HIDE DEF f
<1>6. AnsweredTwice(f.wire, "data", "status")
  BY <1>5, TwoPackets
<1>7. Answer(f, r)
  BY <1>5, <1>6 DEF Answer, Settled
<1>. QED
  BY <1>7 DEF e, f

LEMMA SmallAsked ==
  ASSUME NEW t \in 1..2, NEW r, IsRequest(r), ~(r.to = "DEVICE" /\ r.name = "GET_DESCRIPTOR")
  PROVE  Asked(t, r)
  BY UsbControlAssumption DEF Asked

\* What a host asks an interface.
OfInterface(r) ==
  /\ r.to = "INTERFACE" /\ r.index \in {"itf0", "itf1"} /\ r.type \in {"STANDARD", "CLASS"}
  /\ r.type = "STANDARD" =>
       /\ r.name \in {"GET_DESCRIPTOR", "GET_STATUS", "GET_INTERFACE", "SET_INTERFACE", "CLEAR_FEATURE"}
       /\ r.name = "GET_DESCRIPTOR" => r.value \in {"HID", "REPORT", "UNKNOWN"}
  /\ r.type = "CLASS" => r.name \in {"SET_PROTOCOL", "SET_IDLE", "SET_REPORT", "GET_PROTOCOL", "GET_IDLE"}

\* The class: it leaves endpoint 0 alone, or gives t bytes.
LEMMA HidAnswers ==
  ASSUME NEW d, NEW r, Blank(d, r), IsRequest(r), OfInterface(r), r.index = "itf0"
  PROVE  LET o == USBD_LEDGER_HID_setup(d, r) IN
         IF r.length = 0 /\ o.ok THEN Answer(USBD_CtlSendStatus(o.dev), r) ELSE Answer(o.dev, r)
<1>. DEFINE o == USBD_LEDGER_HID_setup(d, r)
            h == SmallerOf(HidDescriptor, r.length)
            p == SmallerOf(LEDGER_HID_report_descriptor, r.length)
            gets == r.name \in {"GET_DESCRIPTOR", "GET_STATUS", "GET_INTERFACE", "GET_PROTOCOL", "GET_IDLE"}
            reply == \E t \in {1, 2, h, p} : o.dev = USBD_CtlSendData(d, t)
<1>1. \/ o.ok /\ gets /\ reply
      \/ o.ok /\ o.dev = d /\ ~gets /\ r.name # "SET_REPORT"
      \/ ~o.ok /\ o.dev = d /\ (r.name \in {"GET_STATUS", "GET_INTERFACE", "SET_INTERFACE", "SET_REPORT"} \/ r.value = "UNKNOWN")
  BY DEF OfInterface, USBD_LEDGER_HID_setup, Outcome
<1>2. h \in Nat /\ p \in Nat
  BY DEF IsRequest, SmallerOf, HidDescriptor, LEDGER_HID_report_descriptor
<1>3. ASSUME r.length # 0, NEW t \in {1, 2, h, p} PROVE Answer(USBD_CtlSendData(d, t), r)
  <2>1. ASSUME NEW q \in Nat, q > 0 PROVE LET m == SmallerOf(q, r.length) IN Asked(m, r)
    BY <1>3, <2>1 DEF Asked, SmallerOf, IsRequest, OfInterface
  <2>2. Asked(1, r) /\ Asked(2, r) /\ Asked(h, r) /\ Asked(p, r)
    BY <1>3, <2>1, SmallAsked DEF HidDescriptor, LEDGER_HID_report_descriptor, OfInterface
  <2>. QED
    BY <1>3, <2>2, DataAnswers
<1>. HIDE DEF o, h, p
<1>4. CASE o.ok /\ gets /\ reply
  <2>1. PICK t \in {1, 2, h, p} : o.dev = USBD_CtlSendData(d, t)
    BY <1>4
  <2>2. t \in Nat
    BY <1>2
  <2>3. r.length = 0 => NothingAsked(r)
    BY <1>4 DEF OfInterface, NothingAsked
  <2>4. r.length = 0 => Answer(USBD_CtlSendStatus(o.dev), r)
    BY <2>1, <2>2, <2>3, DataThenStatus
  <2>5. r.length # 0 => Answer(o.dev, r)
    BY <1>3, <2>1
  <2>. QED
    BY <1>4, <2>4, <2>5 DEF o
<1>5. CASE o.ok /\ o.dev = d
  <2>1. Answer(USBD_CtlSendStatus(d), r)
    BY StatusAnswers
  <2>2. r.length # 0 => Answer(d, r)
    BY NoAnswer DEF Ignored, OfInterface
  <2>. QED
    BY <1>5, <2>1, <2>2 DEF o
<1>6. CASE ~o.ok /\ o.dev = d /\ (r.name \in {"GET_STATUS", "GET_INTERFACE", "SET_INTERFACE", "SET_REPORT"} \/ r.value = "UNKNOWN")
  <2>1. Answer(d, r)
    BY <1>6, NoAnswer DEF Ignored, OfInterface
  <2>. QED
    BY <1>6, <2>1 DEF o
<1>. QED
  BY <1>1, <1>4, <1>5, <1>6

\* Only an interface makes the class give data.
LEMMA ClassSilent ==
  ASSUME NEW d, NEW r, Blank(d, r), r.to # "INTERFACE", r.type # "STANDARD" \/ r.name = "SYNCH_FRAME"
  PROVE  Answer(setup(d, r).dev, r)
<1>1. USBD_LEDGER_HID_setup(d, r).dev = d
  BY DEF USBD_LEDGER_HID_setup, Outcome
<1>2. r.index \in {"itf0", "out0"} => Answer(d, r)
  BY NoAnswer DEF Ignored
<1>. QED
  BY <1>1, <1>2, ErrorAnswers DEF setup, Outcome

LEMMA DescriptorAnswers ==
  ASSUME NEW d, NEW r, Blank(d, r), IsRequest(r)
  PROVE  Answer(USBD_GetDescriptor(d, r), r)
<1>. DEFINE t == SmallerOf(DescriptorLength(r.value), r.length)
<1>1. ASSUME r.length # 0, DescriptorLength(r.value) # 0 PROVE Asked(t, r)
  <2>1. DescriptorLength(r.value) \in Nat \ {0} /\ r.length \in Nat \ {0}
    BY <1>1, DescriptorIsNat DEF IsRequest
  <2>2. t \in Nat \ {0} /\ t <= r.length
    BY <2>1 DEF SmallerOf
  <2>. QED
    BY <2>2 DEF Asked
<1>2. r.length # 0 /\ DescriptorLength(r.value) # 0 => Answer(USBD_CtlSendData(d, t), r)
  BY <1>1, DataAnswers
<1>. QED
  BY <1>2, ErrorAnswers, StatusAnswers DEF USBD_GetDescriptor

LEMMA InitSame ==
  ASSUME NEW d \in Devices
  PROVE  SameEp0(d, init(d)) /\ SameEp0(d, de_init(d))
  BY DEF SameEp0, init, de_init, USBD_LL_OpenEP, USBD_LL_CloseEP, Devices

LEMMA StateSame ==
  ASSUME NEW d \in Devices, NEW s \in Stages
  PROVE  SameEp0(d, [d EXCEPT !.state = s])
  BY DEF SameEp0, Devices

LEMMA AddressAnswers ==
  ASSUME NEW d, NEW r, Blank(d, r)
  PROVE  Answer(USBD_SetAddress(d, r), r)
<1>1. USBD_CtlSendStatus(d) \in Devices
  BY StatusKeeps DEF Blank, Keeps
<1>2. ASSUME NEW s \in Stages PROVE Answer([USBD_CtlSendStatus(d) EXCEPT !.state = s], r)
  BY <1>1, StatusAnswers, StateSame, SameAnswer
<1>. QED
  BY <1>2, ErrorAnswers DEF USBD_SetAddress, Stages

LEMMA ConfigAnswers ==
  ASSUME NEW d, NEW r, Blank(d, r), IsRequest(r)
  PROVE  Answer(USBD_SetConfig(d, r), r)
<1>1. d \in Devices
  BY DEF Blank
<1>2. Answer(USBD_CtlError(d), r) /\ Answer(USBD_CtlSendStatus(d), r)
  BY ErrorAnswers, StatusAnswers
<1>3. Answer([USBD_CtlSendStatus(init([d EXCEPT !.config = 1])) EXCEPT !.state = "CONFIGURED"], r)
  <2>. DEFINE e == [d EXCEPT !.config = 1]
  <2>1. e \in Devices /\ SameEp0(d, e)
    BY <1>1 DEF Devices, SameEp0
  <2>. HIDE DEF e
  <2>2. Blank(e, r)
    BY <2>1, SameBlank
  <2>3. Blank(init(e), r)
    BY <2>1, <2>2, InitSame, InitOpens, SameBlank
  <2>4. Answer(USBD_CtlSendStatus(init(e)), r)
    BY <2>3, StatusAnswers
  <2>5. USBD_CtlSendStatus(init(e)) \in Devices
    BY <2>3, StatusKeeps DEF Blank, Keeps
  <2>6. SameEp0(USBD_CtlSendStatus(init(e)), [USBD_CtlSendStatus(init(e)) EXCEPT !.state = "CONFIGURED"])
    BY <2>5, StateSame DEF Stages
  <2>. QED
    BY <2>4, <2>6, SameAnswer DEF e
<1>4. Answer(USBD_CtlSendStatus(de_init([d EXCEPT !.state = "ADDRESSED", !.config = 0])), r)
  <2>. DEFINE e == [d EXCEPT !.state = "ADDRESSED", !.config = 0]
  <2>1. e \in Devices /\ SameEp0(d, e)
    <3>1. "ADDRESSED" \in Stages \cup {"SUSPENDED"} /\ 0 \in 0..1
      BY DEF Stages
    <3>. QED
      BY <1>1, <3>1 DEF Devices, SameEp0
  <2>. HIDE DEF e
  <2>2. Blank(e, r)
    BY <2>1, SameBlank
  <2>3. Blank(de_init(e), r)
    BY <2>1, <2>2, InitSame, DeInitCloses, SameBlank
  <2>. QED
    BY <2>3, StatusAnswers DEF e
<1>5. Answer(de_init(USBD_CtlError(d)), r)
  <2>1. USBD_CtlError(d) \in Devices
    BY <1>1, ErrorKeeps DEF Keeps
  <2>. QED
    BY <1>2, <2>1, InitSame, SameAnswer
<1>. QED
  BY <1>2, <1>3, <1>4, <1>5 DEF USBD_SetConfig

LEMMA FeatureAnswers ==
  ASSUME NEW d, NEW r, Blank(d, r), r.to = "DEVICE", r.name \in {"SET_FEATURE", "CLEAR_FEATURE"}
  PROVE  Answer(USBD_SetFeature(d, r), r) /\ Answer(USBD_ClrFeature(d, r), r)
<1>1. r.value # "REMOTE_WAKEUP" => Answer(d, r)
  BY NoAnswer DEF Ignored
<1>. QED
  BY <1>1, StatusAnswers, ErrorAnswers DEF USBD_SetFeature, USBD_ClrFeature

\* The names a host uses in standard requests to the device.
DeviceNames == {"GET_DESCRIPTOR", "SET_ADDRESS", "SET_CONFIGURATION", "GET_CONFIGURATION", "GET_STATUS",
                "SET_FEATURE", "CLEAR_FEATURE", "SYNCH_FRAME"}

LEMMA DeviceAnswers ==
  ASSUME NEW d, NEW r, Blank(d, r), IsRequest(r), r.to = "DEVICE", r.type = "STANDARD" => r.name \in DeviceNames
  PROVE  Answer(USBD_StdDevReq(d, r), r)
<1>1. d \in Devices /\ d.ep0 = "SETUP"
  BY DEF Blank
<1>2. r.type # "STANDARD" \/ r.name = "SYNCH_FRAME" => Answer(setup(d, r).dev, r)
  BY ClassSilent
<1>3. r.name \in {"SET_FEATURE", "CLEAR_FEATURE"} => Answer(USBD_SetFeature(d, r), r) /\ Answer(USBD_ClrFeature(d, r), r)
  BY FeatureAnswers
<1>4. r.name # "GET_DESCRIPTOR" => Answer(USBD_GetConfig(d, r), r) /\ Answer(USBD_GetStatus(d, r), r)
  BY SmallAsked, DataAnswers, ErrorAnswers DEF USBD_GetConfig, USBD_GetStatus
<1>5. Answer(USBD_GetDescriptor(d, r), r) /\ Answer(USBD_SetAddress(d, r), r) /\ Answer(USBD_SetConfig(d, r), r)
  BY DescriptorAnswers, AddressAnswers, ConfigAnswers
<1>. QED
  BY <1>2, <1>3, <1>4, <1>5 DEF USBD_StdDevReq, DeviceNames

LEMMA InterfaceAnswers ==
  ASSUME NEW d, NEW r, Blank(d, r), IsRequest(r), OfInterface(r)
  PROVE  Answer(USBD_StdItfReq(d, r), r)
<1>1. Answer(USBD_CtlError(d), r)
  BY ErrorAnswers
<1>2. CASE r.index = "itf0"
  <2>1. setup(d, r) = USBD_LEDGER_HID_setup(d, r)
    BY <1>2 DEF setup
  <2>. QED
    BY <1>1, <1>2, <2>1, HidAnswers DEF USBD_StdItfReq
<1>3. CASE r.index # "itf0"
  <2>1. setup(d, r) = Outcome(USBD_CtlError(d), FALSE)
    BY <1>3 DEF setup, OfInterface
  <2>. QED
    BY <1>1, <2>1 DEF USBD_StdItfReq, Outcome
<1>. QED
  BY <1>2, <1>3

LEMMA EndpointAnswers ==
  ASSUME NEW d, NEW r, Blank(d, r), IsRequest(r), r.to = "ENDPOINT",
         r.type = "STANDARD" => r.name \in {"SET_FEATURE", "CLEAR_FEATURE", "GET_STATUS"}
  PROVE  Answer(USBD_StdEPReq(d, r), r)
<1>1. d \in Devices
  BY DEF Blank
<1>2. Answer(USBD_CtlError(d), r) /\ Answer(USBD_CtlSendData(d, 2), r) /\ Answer(USBD_CtlSendStatus(d), r)
  BY ErrorAnswers, SmallAsked, DataAnswers, StatusAnswers
<1>3. r.type # "STANDARD" => Answer(setup(d, r).dev, r)
  BY ClassSilent
<1>4. r.index # "in0" =>
        /\ Answer(USBD_LL_StallEP(USBD_LL_StallEP(d, r.index), "in0"), r)
        /\ Answer(USBD_CtlSendStatus(USBD_LL_StallEP(d, r.index)), r)
  <2>1. r.index # "in0" => Blank(USBD_LL_StallEP(d, r.index), r)
    BY <1>1, OtherStallSame, SameBlank
  <2>. QED
    BY <2>1, StallAnswers, StatusAnswers
<1>5. ASSUME r.name = "CLEAR_FEATURE", r.value = "ENDPOINT_HALT", NEW e, Blank(e, r)
      PROVE  Answer(setup(USBD_CtlSendStatus(e), r).dev, r)
  <2>. DEFINE f == USBD_CtlSendStatus(e)
  <2>1. r.index \in {"itf0", "out0"} => setup(f, r).dev = f
    BY DEF setup, USBD_LEDGER_HID_setup, Outcome
  <2>2. r.index \notin {"itf0", "out0"} => setup(f, r).dev = USBD_CtlError(f) /\ HaltCleared(r)
    BY <1>5 DEF setup, Outcome, HaltCleared
  <2>3. Answer(f, r)
    BY <1>5, StatusAnswers
  <2>4. HaltCleared(r) => Answer(USBD_CtlError(f), r)
    BY <1>5, StatusThenStall
  <2>. QED
    BY <2>1, <2>2, <2>3, <2>4
<1>6. r.name = "CLEAR_FEATURE" /\ r.value # "ENDPOINT_HALT" => Answer(d, r)
  BY NoAnswer DEF Ignored
<1>7. Blank(USBD_LL_ClearStallEP(d, r.index), r)
  <2>1. USBD_LL_ClearStallEP(d, r.index) \in Devices
    BY <1>1, ClearStallKeeps DEF Keeps
  <2>2. SameEp0(d, USBD_LL_ClearStallEP(d, r.index))
    BY <1>1 DEF SameEp0, USBD_LL_ClearStallEP, Devices
  <2>. QED
    BY <2>1, <2>2, SameBlank
<1>8. r.name = "CLEAR_FEATURE" /\ r.value = "ENDPOINT_HALT" =>
        /\ Answer(setup(USBD_CtlSendStatus(d), r).dev, r)
        /\ Answer(setup(USBD_CtlSendStatus(USBD_LL_ClearStallEP(d, r.index)), r).dev, r)
  BY <1>5, <1>7
<1>. QED
  BY <1>2, <1>3, <1>4, <1>6, <1>8 DEF USBD_StdEPReq

LEMMA SetupAnswers ==
  ASSUME NEW d \in Devices, NEW r, IsRequest(r), r.to = "DEVICE" /\ r.type = "STANDARD" => r.name \in DeviceNames,
         r.to = "INTERFACE" => OfInterface(r),
         r.to = "ENDPOINT" /\ r.type = "STANDARD" => r.name \in {"SET_FEATURE", "CLEAR_FEATURE", "GET_STATUS"}
  PROVE  Answer(USBD_LL_SetupStage(d, r), r)
<1>. DEFINE s == [d EXCEPT !.ep0 = "SETUP", !.len = r.length, !.wire = <<>>, !.total = 0, !.rem = 0]
<1>1. Blank(s, r)
  BY NoPackets DEF Blank, Devices, IsRequest
<1>. HIDE DEF s
<1>2. Answer(USBD_LL_StallEP(s, "in0"), r)
  BY <1>1, StallAnswers
<1>3. r.to = "DEVICE" => Answer(USBD_StdDevReq(s, r), r)
  BY <1>1, DeviceAnswers
<1>4. r.to = "INTERFACE" => Answer(USBD_StdItfReq(s, r), r)
  BY <1>1, InterfaceAnswers
<1>5. r.to = "ENDPOINT" => Answer(USBD_StdEPReq(s, r), r)
  BY <1>1, EndpointAnswers
<1>. QED
  BY <1>2, <1>3, <1>4, <1>5 DEF USBD_LL_SetupStage, s

LEMMA RequestsNamed ==
  \A r \in DeviceRequests \cup InterfaceRequests \cup EndpointRequests :
    /\ r.to = "DEVICE" /\ r.type = "STANDARD" => r.name \in DeviceNames
    /\ r.to = "INTERFACE" => OfInterface(r)
<1>1. ASSUME NEW r \in DeviceRequests PROVE r.to = "DEVICE" /\ (r.type = "STANDARD" => r.name \in DeviceNames)
  BY DEF DeviceRequests, Request, Numbered, DeviceNames
<1>2. ASSUME NEW r \in InterfaceRequests PROVE r.to # "DEVICE" /\ OfInterface(r)
  BY DEF InterfaceRequests, Request, OfInterface
<1>3. ASSUME NEW r \in EndpointRequests PROVE r.to \notin {"DEVICE", "INTERFACE"}
  BY DEF EndpointRequests, Request
<1>. QED
  BY <1>1, <1>2, <1>3

-----------------------------------------------------------------------------
StageInv == UsbInv /\ IsRequest(request) /\ AnswerInv

LEMMA StepAnswers == StageInv /\ [UsbNext]_usbVars => StageInv'
<1>. SUFFICES ASSUME StageInv, [UsbNext]_usbVars PROVE StageInv'
  OBVIOUS
<1>1. UsbInv' /\ udev \in Devices /\ IsRequest(request) /\ IsRequest(NoRequest)
  BY StepFollows DEF StageInv, UsbInv, Follows, IsRequest, NoRequest, Request
<1>2. ASSUME NEW r \in DeviceRequests \cup InterfaceRequests \cup EndpointRequests, Setup(r) PROVE StageInv'
  <2>1. IsRequest(r) /\ udev' = USBD_LL_SetupStage(udev, r) /\ request' = r
    BY <1>2, RequestsTyped DEF Setup
  <2>2. Answer(udev', r)
    BY <1>1, <1>2, <2>1, RequestsTyped, RequestsNamed, SetupAnswers
  <2>. QED
    BY <1>1, <2>1, <2>2 DEF StageInv, AnswerInv
<1>3. CASE SetupDevice \/ SetupInterface \/ SetupEndpoint
  BY <1>2, <1>3 DEF SetupDevice, SetupInterface, SetupEndpoint
<1>4. CASE TakeIn
  <2>1. udev' = USBD_LL_DataInStage(udev) /\ request' = request
    BY <1>4 DEF TakeIn
  <2>2. request # NoRequest => Answer(udev', request)
    BY <1>1, <2>1, DataInAnswers DEF StageInv, AnswerInv
  <2>. QED
    BY <1>1, <2>1, <2>2 DEF StageInv, AnswerInv
<1>5. CASE BusReset \/ StartStack
  <2>1. \/ request' = NoRequest
        \/ udev' = udev /\ request' = request
    BY <1>5 DEF BusReset, StartStack, USBD_LEDGER_start, USBD_LEDGER_init
  <2>. QED
    BY <1>1, <2>1 DEF StageInv, AnswerInv
<1>6. CASE Suspend \/ Resume
  <2>1. SameEp0(udev, USBD_LL_Suspend(udev)) /\ SameEp0(udev, USBD_LL_Resume(udev))
    BY <1>1 DEF SameEp0, USBD_LL_Suspend, USBD_LL_Resume, Devices
  <2>2. SameEp0(udev, udev') /\ request' = request
    BY <1>6, <2>1 DEF Suspend, Resume
  <2>3. request # NoRequest => Answer(udev', request)
    BY <2>2, SameAnswer DEF StageInv, AnswerInv
  <2>. QED
    BY <1>1, <2>2, <2>3 DEF StageInv, AnswerInv
<1>7. CASE UNCHANGED usbVars
  BY <1>1, <1>7 DEF usbVars, StageInv, AnswerInv
<1>. QED
  BY <1>3, <1>4, <1>5, <1>6, <1>7 DEF UsbNext

LEMMA StagesKept == UsbSpec => []StageInv
<1>1. UsbInit => StageInv
  BY InitFollows DEF UsbInit, StageInv, AnswerInv, IsRequest, NoRequest, Request
<1>. QED
  BY <1>1, StepAnswers, PTL DEF UsbSpec

(* For every size of endpoint 0 and every wLength: when USBD_LL_DataInStage *)
(* turns to the status stage, the host has the whole answer and can tell    *)
(* where it ends; without a reset it never does, and sends empty packets.   *)
THEOREM DataStages == UsbSpec => []DataStageWhole
<1>1. StageInv => DataStageWhole
  <2>. SUFFICES ASSUME StageInv, request # NoRequest PROVE DataStageWhole
    BY DEF DataStageWhole
  <2>1. Answer(udev, request)
    BY DEF StageInv, AnswerInv
  <2>2. CASE udev.ep0 = "STATUS_OUT"
    <3>1. Sent(udev, request)
      BY <2>1, <2>2 DEF Answer
    <3>2. udev.wire # <<>>
      BY <3>1 DEF Sent, FullButLast
    <3>. QED
      BY <2>2, <3>1, <3>2 DEF Sent, FullButLast, Asked, DataStageWhole
  <2>3. CASE udev.ep0 = "DATA_IN" /\ udev.max = 0
    <3>1. FullButLast(udev.wire, 0) /\ udev.rem \in Nat \ {0} /\ Counting(udev, request)
      BY <2>1, <2>3 DEF Answer, Sending, Emptied
    <3>2. Len(udev.wire) \in Nat /\ udev.wire \in Seq(Packets)
      BY <3>1 DEF FullButLast
    <3>3. udev.rem = udev.total
      <4>1. (Len(udev.wire) - 1) * 0 = 0
        BY <3>2
      <4>. QED
        BY <2>3, <3>1, <4>1 DEF Counting
    <3>4. ASSUME NEW i \in 1..Len(udev.wire) PROVE udev.wire[i] = [kind |-> "data", n |-> 0]
      <4>1. udev.wire[Len(udev.wire)].n = 0
        BY <2>3, <3>1 DEF Counting, SmallerOf
      <4>2. i = Len(udev.wire) \/ i \in 1..(Len(udev.wire) - 1)
        BY <3>2
      <4>3. udev.wire[i].kind = "data" /\ udev.wire[i].n = 0
        BY <3>1, <4>1, <4>2 DEF FullButLast
      <4>4. udev.wire[i] \in Packets
        BY <3>2
      <4>. QED
        BY <4>3, <4>4 DEF Packets
    <3>. QED
      BY <2>3, <3>3, <3>4 DEF DataStageWhole
  <2>. QED
    BY <2>2, <2>3 DEF DataStageWhole
<1>. QED
  BY <1>1, StagesKept, PTL

(* Whatever the state it comes in, a request gets one answer: data, a       *)
(* status or a stall; the requests that get none or two are those of        *)
(* AnsweredOnce.                                                            *)
THEOREM OneAnswer == UsbSpec => []AnsweredOnce
<1>1. StageInv => AnsweredOnce
  <2>. SUFFICES ASSUME StageInv, request # NoRequest
       PROVE  Answered(udev.wire) \/ (Settled(udev, request) /\ ~Single(udev))
    BY DEF AnsweredOnce, Settled
  <2>1. Answer(udev, request) /\ udev.wire \in Seq(Packets)
    BY DEF StageInv, AnswerInv, UsbInv, Follows, Devices
  <2>2. CASE udev.ep0 \in {"DATA_IN", "STATUS_OUT"}
    <3>1. FullButLast(udev.wire, udev.max)
      BY <2>1, <2>2 DEF Answer, Sending, Sent
    <3>. QED
      BY <2>1, <3>1 DEF FullButLast, Answered
  <2>3. CASE udev.ep0 \notin {"DATA_IN", "STATUS_OUT"}
    <3>1. Settled(udev, request)
      BY <2>1, <2>3 DEF Answer
    <3>2. Single(udev) => Answered(udev.wire)
      BY <2>1 DEF Single, Answered
    <3>. QED
      BY <3>1, <3>2
  <2>. QED
    BY <2>2, <2>3
<1>. QED
  BY <1>1, StagesKept, PTL
=============================================================================
