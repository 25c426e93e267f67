---------------------------- MODULE UsbHid_proof ----------------------------
(***************************************************************************)
(* APDUs over USB HID stay whole, in sequence and answered, and the        *)
(* transport implements ApduExchange, for every length of the commands and *)
(* of the responses, any number of exchanges and of restarts, and clients  *)
(* that give up at any moment, when the commands come from the main thread *)
(* (SameThread).                                                           *)
(*                                                                         *)
(* The packets for the device stand in one line, from the queue of the     *)
(* events back to the packet a thread is about to send: toApp, then        *)
(* packets_to_send, then what _flush_packets holds, then what HID.send     *)
(* holds.  A step of the MCU moves a packet along the line and never past  *)
(* another transfer, so that what the invariant says of the line (Ordered, *)
(* InFirst, Has, HasIn) outlives it; only a new chunk, an acknowledgement  *)
(* and the device change it.                                               *)
(***************************************************************************)
EXTENDS UsbHid, SequenceTheorems, TLAPS

Tags == EventTags \cup ConfigTags \cup {"PREPARE_IN", "none"}
PacketSet == [tag : Tags, id : Nat, seq : Nat, len : Nat]
Transfers == {"OUT", "IN"}

Posting(p) == IF p.tag \in Transfers THEN <<p>> ELSE <<>>
Queue(a, p, m, f, s) == a \o (p \o (m \o (f \o s)))
Line == Queue(toApp, packets, Posting(out["main"]), flush, Posting(out["sender"]))

\* Chunk k of the command d, of n chunks, or an acknowledgement, is in the
\* line s.
Has(s, d, k, n) ==
  \E i \in DOMAIN s : s[i].tag = "OUT" /\ s[i].id = d /\ s[i].seq = k /\ s[i].len = n
HasIn(s) == \E i \in DOMAIN s : s[i].tag = "IN"
\* Chunks are in their order.
Before(d, k, e, m) == d < e \/ (d = e /\ k < m)
Ordered(s) ==
  \A i, j \in DOMAIN s : i < j /\ s[j].tag = "OUT" /\ s[i].tag = "OUT" =>
    Before(s[i].id, s[i].seq, s[j].id, s[j].seq)
\* No transfer is before an acknowledgement.
InFirst(s) ==
  \A i, j \in DOMAIN s : i < j /\ s[j].tag = "IN" => s[i].tag \notin Transfers

\* The chunks of one command tell the same length.
SameLength(s) == \A d, k, n, m, l \in Nat : Has(s, d, k, n) /\ Has(s, d, m, l) => n = l

\* The line t says the same of transfers as the line s.
SameLine(s, t) ==
  /\ Ordered(s) => Ordered(t)
  /\ InFirst(s) => InFirst(t)
  /\ \A d, k, n \in Nat : Has(t, d, k, n) <=> Has(s, d, k, n)
  /\ HasIn(t) <=> HasIn(s)

\* The chunks of responses on their way to the MCU.
Prep(s) == {i \in DOMAIN s : s[i].tag = "PREPARE_IN"}
OnePrep(s) == \A i, j \in Prep(s) : i = j
Prepared(s, c) == \E i \in Prep(s) : s[i] = c

\* h, as HID.hid_packet, has the chunks before c of the response of c.
At(h, c) == h = [seq |-> c.seq, len |-> c.len, data |-> Chunks(c.id, c.seq)]
\* The chunk c goes on where the chunks before the place n of s, and before
\* them h, have got to.
Linked(h, s, n, c) ==
  \/ At(h, c) /\ \A j \in Prep(s) : j >= n
  \/ \E j \in Prep(s) : /\ j < n /\ s[j].id = c.id /\ s[j].seq + 1 = c.seq /\ s[j].len = c.len
                        /\ \A m \in Prep(s) : m <= j \/ m >= n
Chain(h, s) ==
  \A n \in Prep(s) : s[n].seq < s[n].len /\ (s[n].seq = 0 \/ Linked(h, s, n, s[n]))
Expects(h, s, c) == Linked(h, s, Len(s) + 1, c)

SamePrep(s, t) ==
  /\ OnePrep(s) => OnePrep(t)
  /\ \A c : Prepared(t, c) <=> Prepared(s, c)
  /\ \A h : Chain(h, s) => Chain(h, t)
  /\ \A h, c : Expects(h, s, c) => Expects(h, t, c)

-----------------------------------------------------------------------------
(* The invariant.                                                          *)

TypeInv ==
  /\ host \in {"idle", "failed", "sending", "waiting"}
  /\ cmd \in [id : Nat, len : Nat] /\ next \in Nat
  /\ late \in BOOLEAN /\ cut \in BOOLEAN
  /\ state \in {"DISCONNECTED", "ADDRESSED", "CONFIGURED"}
  /\ dev \in {"DEFAULT", "ADDRESSED", "CONFIGURED"}
  /\ toApp \in Seq(PacketSet) /\ packets \in Seq(PacketSet) /\ flush \in Seq(PacketSet)
  /\ toMcu \in Seq(PacketSet)
  /\ pc \in [Threads -> {"idle", "state", "len", "append", "post"}]
  /\ out \in [Threads -> PacketSet]
  /\ handled \in Nat /\ apdu \in SUBSET (1..handled) /\ restarts \in Nat

\* One thread at a time is in _send_xfer, and it posts a transfer only when
\* no other is kept back.
Setups == {"SET_ADDRESS", "SET_CONFIGURATION"}
ThreadOk(t) ==
  /\ pc[t] = "idle" => out[t].tag = "none"
  /\ pc[t] \in {"state", "len", "append"} => out[t].tag \in Transfers
  /\ pc[t] = "len" => state = "CONFIGURED"
  /\ pc[t] = "post" => \/ out[t].tag \in Transfers /\ state = "CONFIGURED" /\ packets = <<>>
                       \/ out[t].tag \in Setups
ThreadsInv ==
  /\ host = "sending" => MainIdle
  /\ host # "sending" => pc["sender"] = "idle" /\ next = cmd.len
  /\ next <= cmd.len
  /\ pc["sender"] # "idle" => out["sender"].tag = "OUT"
  /\ \A t \in Threads : ThreadOk(t)
  /\ \A i \in DOMAIN packets : packets[i].tag \in Transfers
  /\ \A i \in DOMAIN flush : flush[i].tag \in Transfers

Pending == host \in {"sending", "waiting"}

\* How many chunks of the command d, of n chunks, were sent.
Top(d, n) == IF d = cmd.id THEN next ELSE n

\* The chunks in the line are of commands not delivered, and the chunks
\* after each of them are in the line too.
CommandInv ==
  /\ Ordered(Line) /\ SameLength(Line)
  /\ \A d, k, n \in Nat : Has(Line, d, k, n) =>
       /\ handled < d /\ d <= cmd.id /\ k < n
       /\ d = cmd.id => n = cmd.len /\ k < next
       /\ \A m \in k..(Top(d, n) - 1) : Has(Line, d, m, n)
  /\ handled <= cmd.id /\ (handled = cmd.id => next = cmd.len)

\* What process_apdu_chunk has, and the line has the rest.
RxId == rx.data[1][1]
Receiving == dev = "CONFIGURED" /\ rx.seq # 0
ReceiveInv ==
  Receiving =>
    /\ RxId \in Nat /\ handled < RxId /\ RxId <= cmd.id
    /\ rx.seq \in Nat /\ rx.len \in Nat /\ rx.seq < rx.len
    /\ rx.seq <= Top(RxId, rx.len) /\ (RxId = cmd.id => rx.len = cmd.len)
    /\ rx.data = Chunks(RxId, rx.seq)
    /\ \A d, k, n \in Nat : Has(Line, d, k, n) =>
         RxId < d \/ (d = RxId /\ k >= rx.seq /\ n = rx.len)
    /\ \A k \in rx.seq..(Top(RxId, rx.len) - 1) : Has(Line, RxId, k, rx.len)

\* Until the first restart, no chunk is lost.
Begun(d, n) == Has(Line, d, 0, n) \/ (rx.seq # 0 /\ RxId = d)
NoLossInv ==
  restarts = 0 =>
    /\ \A d, k, n \in Nat : Has(Line, d, k, n) => Begun(d, n)
    /\ 0 < next /\ next < cmd.len => Begun(cmd.id, cmd.len)

\* The responses go on where the MCU has got to, unless the application
\* answered while the class was busy.
Transmitting == dev = "CONFIGURED" /\ tx # NoTx
ResponseInv ==
  /\ \A c : Prepared(toMcu, c) => c.id \in 1..handled
  /\ Transmitting => /\ tx = [id |-> tx.id, seq |-> tx.seq, len |-> tx.len]
                     /\ tx.id \in 1..handled /\ tx.seq \in Nat \ {0} /\ tx.len \in Nat
                     /\ tx.seq < tx.len /\ busy
  /\ ~cut => /\ ~raised
             /\ Chain(hid, toMcu)
             /\ Transmitting => Expects(hid, toMcu, tx)
             /\ answer # <<>> => \E d \in 1..handled : answer = Chunks(d, Len(answer))

\* Before a client gave up too early, all of it is the current exchange.
\* One token, a chunk of the response or its acknowledgement, is on its way
\* while the class is busy, and none while the application has to answer.
OwnInv ==
  ~late =>
    /\ ~cut /\ InFirst(Line)
    /\ \A d, k, n \in Nat : Has(Line, d, k, n) => d = cmd.id /\ Pending
    /\ apdu # {} => apdu = {cmd.id} /\ handled = cmd.id /\ Pending
    /\ OnePrep(toMcu)
    /\ \A c : Prepared(toMcu, c) =>
         Pending /\ handled = cmd.id /\ apdu = {} /\ answer = <<>> /\ ~HasIn(Line) /\ c.id = cmd.id
    /\ HasIn(Line) => apdu = {}
    /\ dev = "CONFIGURED" /\ busy => HasIn(Line) \/ \E c : Prepared(toMcu, c)
    /\ answer # <<>> =>
         /\ host = "waiting" /\ handled = cmd.id /\ apdu = {}
         /\ answer = Chunks(cmd.id, Len(answer)) /\ ~Transmitting
    /\ Transmitting => Pending /\ handled = cmd.id /\ apdu = {} /\ tx.id = cmd.id

\* Until the first restart, the setup packets come before the chunks.
AllNot(s, tag) == \A i \in DOMAIN s : s[i].tag # tag
Arriving(s) == \E i \in DOMAIN s : /\ s[i].tag = "SET_CONFIGURATION"
                                   /\ \A j \in 1..(i - 1) : s[j].tag # "OUT"
BootInv ==
  restarts = 0 =>
    /\ AllNot(toMcu, "DISCONNECT")
    /\ AllNot(toMcu, "ADDR") \/ dev # "DEFAULT" \/ state = "DISCONNECTED"
    /\ state = "DISCONNECTED" =>
         /\ dev = "DEFAULT" /\ toMcu \in {<<Plain("ADDR"), Plain("CONNECT")>>, <<Plain("CONNECT")>>}
         /\ AllNot(toApp, "SET_ADDRESS") /\ AllNot(toApp, "SET_CONFIGURATION")
         /\ out["main"].tag \notin Setups
    /\ state # "CONFIGURED" => AllNot(toApp, "OUT")
    /\ state = "CONFIGURED" =>
         /\ dev # "DEFAULT"
         /\ \/ dev = "CONFIGURED"
            \/ out["main"].tag = "SET_CONFIGURATION" /\ AllNot(toApp, "OUT")
            \/ Arriving(toApp)
    /\ dev # "CONFIGURED" => rx.seq = 0

ApduInv == CommandInv /\ ReceiveInv /\ NoLossInv /\ ResponseInv /\ OwnInv
IInv == TypeInv /\ ThreadsInv /\ ApduInv /\ BootInv

-----------------------------------------------------------------------------
(* Lines.                                                                  *)

LEMMA EmptyLine == <<>> \in Seq(PacketSet)
  OBVIOUS

LEMMA ConcatLine ==
  ASSUME NEW s \in Seq(PacketSet), NEW t \in Seq(PacketSet)
  PROVE  /\ s \o t \in Seq(PacketSet) /\ DOMAIN (s \o t) = 1..(Len(s) + Len(t))
         /\ DOMAIN s = 1..Len(s) /\ DOMAIN t = 1..Len(t) /\ Len(s) \in Nat /\ Len(t) \in Nat
         /\ \A i \in 1..Len(s) : (s \o t)[i] = s[i]
         /\ \A i \in 1..Len(t) : (s \o t)[Len(s) + i] = t[i]
         /\ \A i \in (Len(s) + 1)..(Len(s) + Len(t)) : (s \o t)[i] = t[i - Len(s)]
  OBVIOUS

\* A packet that is not a transfer, somewhere in the line.
LEMMA InsertLine ==
  ASSUME NEW s \in Seq(PacketSet), NEW t \in Seq(PacketSet), NEW p \in PacketSet, p.tag \notin Transfers
  PROVE  SameLine(s \o t, Append(s, p) \o t)
<1>. DEFINE a == s \o t
            b == Append(s, p) \o t
            m == Len(s)
            n == Len(t)
            f(i) == IF i <= m THEN i ELSE i + 1
            g(j) == IF j <= m THEN j ELSE j - 1
<1>1. /\ m \in Nat /\ n \in Nat /\ DOMAIN a = 1..(m + n) /\ DOMAIN b = 1..(m + n + 1)
      /\ b[m + 1] = p
      /\ \A i \in 1..(m + n) : f(i) \in 1..(m + n + 1) /\ f(i) # m + 1 /\ b[f(i)] = a[i] /\ g(f(i)) = i
      /\ \A j \in 1..(m + n + 1) : j # m + 1 => g(j) \in 1..(m + n) /\ a[g(j)] = b[j]
      /\ \A i, j \in 1..(m + n + 1) : i # m + 1 /\ j # m + 1 /\ i < j => g(i) < g(j)
  OBVIOUS
<1>. HIDE DEF a, b, f, g, m, n
<1>2. ASSUME NEW i \in 1..(m + n + 1), NEW j \in 1..(m + n + 1), i < j, b[i].tag \in Transfers, b[j].tag \in Transfers
      PROVE  g(i) \in DOMAIN a /\ g(j) \in DOMAIN a /\ g(i) < g(j) /\ a[g(i)] = b[i] /\ a[g(j)] = b[j]
  <2>1. i # m + 1 /\ j # m + 1
    BY <1>1, <1>2
  <2>. QED
    BY <1>1, <1>2, <2>1
<1>3. ASSUME Ordered(a) PROVE Ordered(b)
  <2>. SUFFICES ASSUME NEW i \in 1..(m + n + 1), NEW j \in 1..(m + n + 1), i < j, b[j].tag = "OUT", b[i].tag = "OUT"
                PROVE  Before(b[i].id, b[i].seq, b[j].id, b[j].seq)
    BY <1>1 DEF Ordered
  <2>1. g(i) \in DOMAIN a /\ g(j) \in DOMAIN a /\ g(i) < g(j) /\ a[g(i)] = b[i] /\ a[g(j)] = b[j]
    BY <1>2 DEF Transfers
  <2>. QED
    BY <1>3, <2>1 DEF Ordered
<1>4. ASSUME InFirst(a) PROVE InFirst(b)
  <2>. SUFFICES ASSUME NEW i \in 1..(m + n + 1), NEW j \in 1..(m + n + 1), i < j, b[j].tag = "IN", b[i].tag \in Transfers
                PROVE  FALSE
    BY <1>1 DEF InFirst
  <2>1. g(i) \in DOMAIN a /\ g(j) \in DOMAIN a /\ g(i) < g(j) /\ a[g(i)] = b[i] /\ a[g(j)] = b[j]
    BY <1>2 DEF Transfers
  <2>. QED
    BY <1>4, <2>1 DEF InFirst
<1>5. ASSUME NEW d \in Nat, NEW k \in Nat, NEW l \in Nat PROVE Has(a, d, k, l) <=> Has(b, d, k, l)
  <2>1. ASSUME Has(a, d, k, l) PROVE Has(b, d, k, l)
    <3>1. PICK i \in 1..(m + n) : a[i].tag = "OUT" /\ a[i].id = d /\ a[i].seq = k /\ a[i].len = l
      BY <1>1, <2>1 DEF Has
    <3>2. f(i) \in DOMAIN b /\ b[f(i)] = a[i]
      BY <1>1
    <3>. QED
      BY <3>1, <3>2 DEF Has
  <2>2. ASSUME Has(b, d, k, l) PROVE Has(a, d, k, l)
    <3>1. PICK i \in 1..(m + n + 1) : b[i].tag = "OUT" /\ b[i].id = d /\ b[i].seq = k /\ b[i].len = l
      BY <1>1, <2>2 DEF Has
    <3>2. i # m + 1
      BY <1>1, <3>1 DEF Transfers
    <3>3. g(i) \in DOMAIN a /\ a[g(i)] = b[i]
      BY <1>1, <3>2
    <3>. QED
      BY <3>1, <3>3 DEF Has
  <2>. QED
    BY <2>1, <2>2
<1>6. HasIn(a) <=> HasIn(b)
  BY <1>1 DEF HasIn, Transfers
<1>. QED
  BY <1>3, <1>4, <1>5, <1>6 DEF SameLine, a, b

Is(p, d, k, n) == p.tag = "OUT" /\ p.id = d /\ p.seq = k /\ p.len = n

\* The first packet is taken.
LEMMA TailLine ==
  ASSUME NEW s \in Seq(PacketSet), s # <<>>
  PROVE  /\ Tail(s) \in Seq(PacketSet)
         /\ Ordered(s) => Ordered(Tail(s))
         /\ InFirst(s) => InFirst(Tail(s))
         /\ \A d, k, n \in Nat : Has(Tail(s), d, k, n) => Has(s, d, k, n)
         /\ \A d, k, n \in Nat : Has(s, d, k, n) => Has(Tail(s), d, k, n) \/ Is(Head(s), d, k, n)
         /\ HasIn(Tail(s)) => HasIn(s)
         /\ HasIn(s) => HasIn(Tail(s)) \/ Head(s).tag = "IN"
<1>1. /\ Tail(s) \in Seq(PacketSet) /\ Len(s) \in Nat /\ Len(s) > 0 /\ DOMAIN s = 1..Len(s)
      /\ DOMAIN Tail(s) = 1..(Len(s) - 1)
      /\ \A i \in 1..(Len(s) - 1) : Tail(s)[i] = s[i + 1]
      /\ \A i \in 2..Len(s) : s[i] = Tail(s)[i - 1]
      /\ Head(s) = s[1]
  OBVIOUS
<1>2. Ordered(s) => Ordered(Tail(s))
  BY <1>1 DEF Ordered
<1>3. InFirst(s) => InFirst(Tail(s))
  BY <1>1 DEF InFirst
<1>4. \A d, k, n \in Nat : Has(Tail(s), d, k, n) => Has(s, d, k, n)
  BY <1>1 DEF Has
<1>5. ASSUME NEW d \in Nat, NEW k \in Nat, NEW n \in Nat, Has(s, d, k, n)
      PROVE  Has(Tail(s), d, k, n) \/ Is(Head(s), d, k, n)
  <2>1. PICK i \in 1..Len(s) : s[i].tag = "OUT" /\ s[i].id = d /\ s[i].seq = k /\ s[i].len = n
    BY <1>1, <1>5 DEF Has
  <2>2. CASE i = 1
    BY <1>1, <2>1, <2>2 DEF Is
  <2>3. CASE i # 1
    <3>1. i - 1 \in 1..(Len(s) - 1) /\ Tail(s)[i - 1] = s[i]
      BY <1>1, <2>3
    <3>. QED
      BY <1>1, <2>1, <3>1 DEF Has
  <2>. QED
    BY <2>2, <2>3
<1>6. HasIn(Tail(s)) => HasIn(s)
  BY <1>1 DEF HasIn
<1>7. ASSUME HasIn(s) PROVE HasIn(Tail(s)) \/ Head(s).tag = "IN"
  <2>1. PICK i \in 1..Len(s) : s[i].tag = "IN"
    BY <1>1, <1>7 DEF HasIn
  <2>2. CASE i = 1
    BY <1>1, <2>1, <2>2
  <2>3. CASE i # 1
    <3>1. i - 1 \in 1..(Len(s) - 1) /\ Tail(s)[i - 1] = s[i]
      BY <1>1, <2>3
    <3>. QED
      BY <1>1, <2>1, <3>1 DEF HasIn
  <2>. QED
    BY <2>2, <2>3
<1>. QED
  BY <1>1, <1>2, <1>3, <1>4, <1>5, <1>6, <1>7

\* What the first packet of an ordered line says of the others.
LEMMA HeadLine ==
  ASSUME NEW s \in Seq(PacketSet), s # <<>>, Ordered(s)
  PROVE  /\ Head(s) \in PacketSet
         /\ Head(s).tag = "OUT" =>
              /\ Has(s, Head(s).id, Head(s).seq, Head(s).len)
              /\ \A d, k, n \in Nat : Has(s, d, k, n) =>
                   Is(Head(s), d, k, n) \/ Before(Head(s).id, Head(s).seq, d, k)
              /\ \A d, k, n \in Nat : Has(Tail(s), d, k, n) => Before(Head(s).id, Head(s).seq, d, k)
              /\ InFirst(s) => ~HasIn(s)
         /\ Head(s).tag = "IN" => HasIn(s) /\ (InFirst(s) => ~HasIn(Tail(s)))
<1>1. /\ Len(s) \in Nat /\ Len(s) > 0 /\ DOMAIN s = 1..Len(s)
      /\ DOMAIN Tail(s) = 1..(Len(s) - 1)
      /\ \A i \in 1..(Len(s) - 1) : Tail(s)[i] = s[i + 1]
      /\ Head(s) = s[1] /\ \A i \in 1..Len(s) : s[i] \in PacketSet
  OBVIOUS
<1>2. ASSUME s[1].tag = "OUT"
      PROVE  /\ Has(s, s[1].id, s[1].seq, s[1].len)
             /\ \A d, k, n \in Nat : Has(s, d, k, n) => Is(s[1], d, k, n) \/ Before(s[1].id, s[1].seq, d, k)
             /\ \A d, k, n \in Nat : Has(Tail(s), d, k, n) => Before(s[1].id, s[1].seq, d, k)
             /\ InFirst(s) => ~HasIn(s)
  <2>1. \A i \in 2..Len(s) : s[i].tag = "OUT" => Before(s[1].id, s[1].seq, s[i].id, s[i].seq)
    BY <1>1, <1>2 DEF Ordered
  <2>2. Has(s, s[1].id, s[1].seq, s[1].len)
    BY <1>1, <1>2 DEF Has
  <2>3. \A d, k, n \in Nat : Has(s, d, k, n) => Is(s[1], d, k, n) \/ Before(s[1].id, s[1].seq, d, k)
    BY <1>1, <2>1 DEF Has, Is
  <2>4. \A d, k, n \in Nat : Has(Tail(s), d, k, n) => Before(s[1].id, s[1].seq, d, k)
    BY <1>1, <2>1 DEF Has
  <2>5. InFirst(s) => ~HasIn(s)
    BY <1>1, <1>2 DEF InFirst, HasIn, Transfers
  <2>. QED
    BY <2>2, <2>3, <2>4, <2>5
<1>3. ASSUME s[1].tag = "IN" PROVE HasIn(s) /\ (InFirst(s) => ~HasIn(Tail(s)))
  BY <1>1, <1>3 DEF HasIn, InFirst, Transfers
<1>. QED
  BY <1>1, <1>2, <1>3

\* A packet at the end of the line.
LEMMA AppendLine ==
  ASSUME NEW s \in Seq(PacketSet), NEW p \in PacketSet
  PROVE  /\ Append(s, p) \in Seq(PacketSet)
         /\ \A d, k, n \in Nat : Has(Append(s, p), d, k, n) <=> Has(s, d, k, n) \/ Is(p, d, k, n)
         /\ HasIn(Append(s, p)) <=> HasIn(s) \/ p.tag = "IN"
         /\ Ordered(s) /\ (p.tag = "OUT" => \A d, k, n \in Nat : Has(s, d, k, n) => Before(d, k, p.id, p.seq))
              => Ordered(Append(s, p))
         /\ InFirst(s) /\ (p.tag = "IN" => ~HasIn(s) /\ \A d, k, n \in Nat : ~Has(s, d, k, n))
              => InFirst(Append(s, p))
<1>. DEFINE t == Append(s, p)
<1>1. /\ t \in Seq(PacketSet) /\ Len(s) \in Nat /\ DOMAIN s = 1..Len(s) /\ DOMAIN t = 1..(Len(s) + 1)
      /\ \A i \in 1..Len(s) : t[i] = s[i]
      /\ t[Len(s) + 1] = p
      /\ \A i \in 1..Len(s) : s[i] \in PacketSet
  OBVIOUS
<1>2. \A i \in 1..Len(s) : s[i].id \in Nat /\ s[i].seq \in Nat /\ s[i].len \in Nat
  BY <1>1 DEF PacketSet
<1>. HIDE DEF t
<1>3. \A d, k, n \in Nat : Has(t, d, k, n) <=> Has(s, d, k, n) \/ Is(p, d, k, n)
  BY <1>1 DEF Has, Is
<1>4. HasIn(t) <=> HasIn(s) \/ p.tag = "IN"
  BY <1>1 DEF HasIn
<1>5. ASSUME Ordered(s), p.tag = "OUT" => \A d, k, n \in Nat : Has(s, d, k, n) => Before(d, k, p.id, p.seq)
      PROVE  Ordered(t)
  <2>. SUFFICES ASSUME NEW i \in 1..(Len(s) + 1), NEW j \in 1..(Len(s) + 1), i < j, t[j].tag = "OUT", t[i].tag = "OUT"
                PROVE  Before(t[i].id, t[i].seq, t[j].id, t[j].seq)
    BY <1>1 DEF Ordered
  <2>1. CASE j \in 1..Len(s)
    BY <1>1, <1>5, <2>1 DEF Ordered
  <2>2. CASE j = Len(s) + 1
    <3>1. i \in 1..Len(s) /\ t[i] = s[i] /\ t[j] = p /\ s[i].id \in Nat /\ s[i].seq \in Nat /\ s[i].len \in Nat
      BY <1>1, <1>2, <2>2
    <3>2. Has(s, s[i].id, s[i].seq, s[i].len)
      BY <1>1, <3>1 DEF Has
    <3>. QED
      BY <1>5, <3>1, <3>2
  <2>. QED
    BY <1>1, <2>1, <2>2
<1>6. ASSUME InFirst(s), p.tag = "IN" => ~HasIn(s) /\ \A d, k, n \in Nat : ~Has(s, d, k, n)
      PROVE  InFirst(t)
  <2>. SUFFICES ASSUME NEW i \in 1..(Len(s) + 1), NEW j \in 1..(Len(s) + 1), i < j, t[j].tag = "IN"
                PROVE  t[i].tag \notin Transfers
    BY <1>1 DEF InFirst
  <2>1. CASE j \in 1..Len(s)
    BY <1>1, <1>6, <2>1 DEF InFirst
  <2>2. CASE j = Len(s) + 1
    <3>1. i \in 1..Len(s) /\ t[i] = s[i] /\ t[j] = p /\ s[i].id \in Nat /\ s[i].seq \in Nat /\ s[i].len \in Nat
      BY <1>1, <1>2, <2>2
    <3>2. s[i].tag = "OUT" => Has(s, s[i].id, s[i].seq, s[i].len)
      BY <1>1, <3>1 DEF Has
    <3>3. s[i].tag = "IN" => HasIn(s)
      BY <1>1, <3>1 DEF HasIn
    <3>. QED
      BY <1>6, <3>1, <3>2, <3>3 DEF Transfers
  <2>. QED
    BY <1>1, <2>1, <2>2
<1>. QED
  BY <1>1, <1>3, <1>4, <1>5, <1>6 DEF t

LEMMA DropLine ==
  ASSUME NEW s \in Seq(PacketSet), s # <<>>, Head(s).tag \notin Transfers
  PROVE  SameLine(s, Tail(s))
  BY TailLine DEF SameLine, Transfers, Is

LEMMA SelfLine == ASSUME NEW s PROVE SameLine(s, s)
  BY DEF SameLine

-----------------------------------------------------------------------------
(* What is on its way to the MCU.                                          *)

LEMMA TailMcu ==
  ASSUME NEW s \in Seq(PacketSet), s # <<>>
  PROVE  /\ Tail(s) \in Seq(PacketSet) /\ Head(s) \in PacketSet
         /\ Head(s).tag # "PREPARE_IN" => SamePrep(s, Tail(s))
         /\ OnePrep(s) => OnePrep(Tail(s))
         /\ \A c : Prepared(Tail(s), c) => Prepared(s, c)
         /\ Head(s).tag = "PREPARE_IN" => /\ Prepared(s, Head(s))
                                          /\ OnePrep(s) => \A c : ~Prepared(Tail(s), c)
<1>1. /\ Tail(s) \in Seq(PacketSet) /\ Head(s) \in PacketSet
      /\ Len(s) \in Nat /\ Len(s) > 0 /\ DOMAIN s = 1..Len(s)
      /\ DOMAIN Tail(s) = 1..(Len(s) - 1) /\ Len(Tail(s)) = Len(s) - 1
      /\ \A i \in 1..(Len(s) - 1) : Tail(s)[i] = s[i + 1]
      /\ \A i \in 2..Len(s) : s[i] = Tail(s)[i - 1]
      /\ Head(s) = s[1]
  OBVIOUS
<1>2. \A i \in Prep(Tail(s)) : i + 1 \in Prep(s) /\ i \in Nat /\ i # 0 /\ Tail(s)[i] = s[i + 1]
  BY <1>1 DEF Prep
<1>3. \A i \in Prep(s) : i \in Nat /\ i >= 1 /\ (i = 1 \/ (i - 1 \in Prep(Tail(s)) /\ s[i] = Tail(s)[i - 1]))
  BY <1>1 DEF Prep
<1>4. OnePrep(s) => OnePrep(Tail(s))
  BY <1>2 DEF OnePrep
<1>5. ASSUME NEW c, Prepared(Tail(s), c) PROVE Prepared(s, c)
  BY <1>2, <1>5 DEF Prepared
<1>6. ASSUME s[1].tag # "PREPARE_IN" PROVE SamePrep(s, Tail(s))
  <2>1. \A i \in Prep(s) : i # 1
    BY <1>1, <1>6 DEF Prep
  <2>2. ASSUME NEW c, Prepared(s, c) PROVE Prepared(Tail(s), c)
    BY <1>3, <2>1, <2>2 DEF Prepared
  <2>3. ASSUME NEW h, NEW n \in Nat, NEW c, Linked(h, s, n, c) PROVE Linked(h, Tail(s), n - 1, c)
    <3>1. CASE At(h, c) /\ \A j \in Prep(s) : j >= n
      <4>1. \A j \in Prep(Tail(s)) : j >= n - 1
        BY <1>2, <3>1
      <4>. QED
        BY <3>1, <4>1 DEF Linked
    <3>2. ASSUME NEW j \in Prep(s), j < n, s[j].id = c.id, s[j].seq + 1 = c.seq, s[j].len = c.len,
                 \A m \in Prep(s) : m <= j \/ m >= n
          PROVE  Linked(h, Tail(s), n - 1, c)
      <4>1. j - 1 \in Prep(Tail(s)) /\ s[j] = Tail(s)[j - 1] /\ j \in Nat
        BY <1>3, <2>1
      <4>2. \A m \in Prep(Tail(s)) : m <= j - 1 \/ m >= n - 1
        BY <1>2, <3>2, <4>1
      <4>3. j - 1 < n - 1
        BY <3>2, <4>1
      <4>. QED
        BY <3>2, <4>1, <4>2, <4>3 DEF Linked
    <3>. QED
      BY <2>3, <3>1, <3>2 DEF Linked
  <2>4. ASSUME NEW h, Chain(h, s) PROVE Chain(h, Tail(s))
    <3>. SUFFICES ASSUME NEW n \in Prep(Tail(s))
                  PROVE  /\ Tail(s)[n].seq < Tail(s)[n].len
                         /\ Tail(s)[n].seq = 0 \/ Linked(h, Tail(s), n, Tail(s)[n])
      BY DEF Chain
    <3>. DEFINE c == Tail(s)[n]
    <3>1. n + 1 \in Prep(s) /\ n \in Nat /\ c = s[n + 1]
      BY <1>2
    <3>2. c.seq < c.len /\ (c.seq = 0 \/ Linked(h, s, n + 1, c))
      BY <2>4, <3>1 DEF Chain
    <3>. HIDE DEF c
    <3>3. n + 1 \in Nat /\ (n + 1) - 1 = n
      BY <3>1
    <3>4. Linked(h, s, n + 1, c) => Linked(h, Tail(s), n, c)
      BY <2>3, <3>3
    <3>. QED
      BY <3>2, <3>4 DEF c
  <2>5. ASSUME NEW h, NEW c, Expects(h, s, c) PROVE Expects(h, Tail(s), c)
    <3>1. Len(s) + 1 \in Nat /\ (Len(s) + 1) - 1 = Len(Tail(s)) + 1
      BY <1>1
    <3>. QED
      BY <2>3, <2>5, <3>1 DEF Expects
  <2>. QED
    BY <1>4, <1>5, <2>2, <2>4, <2>5 DEF SamePrep
<1>7. ASSUME s[1].tag = "PREPARE_IN" PROVE Prepared(s, s[1]) /\ (OnePrep(s) => \A c : ~Prepared(Tail(s), c))
  <2>1. 1 \in Prep(s)
    BY <1>1, <1>7 DEF Prep
  <2>2. OnePrep(s) => Prep(Tail(s)) = {}
    BY <1>2, <2>1 DEF OnePrep
  <2>. QED
    BY <2>1, <2>2 DEF Prepared
<1>. QED
  BY <1>1, <1>4, <1>5, <1>6, <1>7

Follows(c, d) == d.id = c.id /\ d.seq = c.seq + 1 /\ d.len = c.len

LEMMA FirstPrepared ==
  ASSUME NEW s \in Seq(PacketSet), s # <<>>, Head(s).tag = "PREPARE_IN", NEW h, Chain(h, s)
  PROVE  Head(s).seq < Head(s).len /\ (Head(s).seq = 0 \/ At(h, Head(s)))
<1>1. Head(s) = s[1] /\ 1 \in Prep(s) /\ \A i \in Prep(s) : i \in Nat /\ i >= 1
  BY DEF Prep
<1>2. s[1].seq < s[1].len /\ (s[1].seq = 0 \/ Linked(h, s, 1, s[1]))
  BY <1>1 DEF Chain
<1>3. ~\E j \in Prep(s) : j < 1
  BY <1>1
<1>. QED
  BY <1>1, <1>2, <1>3 DEF Linked

\* Nothing is on its way, so that the MCU itself has got to the chunk.
LEMMA NoneBetween ==
  ASSUME NEW s, NEW h, NEW c, Expects(h, s, c), \A d : ~Prepared(s, d)
  PROVE  At(h, c)
<1>1. Prep(s) = {}
  BY DEF Prepared
<1>. QED
  BY <1>1 DEF Expects, Linked

\* The MCU takes the chunk it expects: what followed that chunk now follows
\* what the MCU has.
LEMMA TakeChunk ==
  ASSUME NEW s \in Seq(PacketSet), s # <<>>, Head(s).tag = "PREPARE_IN", NEW h, NEW g, Chain(h, s),
         \A c : Follows(Head(s), c) /\ c.seq \in Nat /\ c.len \in Nat /\ c.seq < c.len => At(g, c)
  PROVE  /\ Chain(g, Tail(s))
         /\ \A c : Expects(h, s, c) /\ c.seq \in Nat \ {0} /\ c.len \in Nat /\ c.seq < c.len => Expects(g, Tail(s), c)
<1>1. /\ Tail(s) \in Seq(PacketSet) /\ Head(s) \in PacketSet
      /\ Len(s) \in Nat /\ Len(s) > 0 /\ DOMAIN s = 1..Len(s)
      /\ DOMAIN Tail(s) = 1..(Len(s) - 1) /\ Len(Tail(s)) = Len(s) - 1
      /\ \A i \in 1..(Len(s) - 1) : Tail(s)[i] = s[i + 1]
      /\ \A i \in 2..Len(s) : s[i] = Tail(s)[i - 1]
      /\ Head(s) = s[1]
      /\ \A i \in 1..(Len(s) - 1) : Tail(s)[i] \in PacketSet
  OBVIOUS
<1>2. \A i \in Prep(Tail(s)) : i + 1 \in Prep(s) /\ i \in Nat /\ i # 0 /\ Tail(s)[i] = s[i + 1] /\ Tail(s)[i] \in PacketSet
  BY <1>1 DEF Prep
<1>3. \A i \in Prep(s) : i \in Nat /\ i >= 1 /\ (i = 1 \/ (i - 1 \in Prep(Tail(s)) /\ s[i] = Tail(s)[i - 1]))
  BY <1>1 DEF Prep
<1>4. 1 \in Prep(s)
  BY <1>1 DEF Prep
<1>6. ASSUME NEW n \in Nat, n > 1, NEW c, Linked(h, s, n, c), c.seq \in Nat, c.len \in Nat, c.seq < c.len
      PROVE  Linked(g, Tail(s), n - 1, c)
  <2>1. PICK j \in Prep(s) : /\ j < n /\ s[j].id = c.id /\ s[j].seq + 1 = c.seq /\ s[j].len = c.len
                             /\ \A m \in Prep(s) : m <= j \/ m >= n
    BY <1>4, <1>6 DEF Linked
  <2>2. CASE j = 1
    <3>1. Follows(Head(s), c)
      BY <1>1, <2>1, <2>2 DEF Follows
    <3>2. At(g, c)
      BY <1>6, <3>1
    <3>3. \A m \in Prep(Tail(s)) : m >= n - 1
      BY <1>2, <1>6, <2>1, <2>2
    <3>. QED
      BY <3>2, <3>3 DEF Linked
  <2>3. CASE j # 1
    <3>1. j - 1 \in Prep(Tail(s)) /\ s[j] = Tail(s)[j - 1] /\ j \in Nat
      BY <1>3, <2>3
    <3>2. \A m \in Prep(Tail(s)) : m <= j - 1 \/ m >= n - 1
      BY <1>2, <1>6, <2>1, <3>1
    <3>3. j - 1 < n - 1
      BY <1>6, <2>1, <3>1
    <3>. QED
      BY <2>1, <3>1, <3>2, <3>3 DEF Linked
  <2>. QED
    BY <2>2, <2>3
<1>7. Chain(g, Tail(s))
  <2>. SUFFICES ASSUME NEW n \in Prep(Tail(s))
                PROVE  /\ Tail(s)[n].seq < Tail(s)[n].len
                       /\ Tail(s)[n].seq = 0 \/ Linked(g, Tail(s), n, Tail(s)[n])
    BY DEF Chain
  <2>. DEFINE c == Tail(s)[n]
  <2>1. n + 1 \in Prep(s) /\ n \in Nat /\ n # 0 /\ c = s[n + 1] /\ c \in PacketSet
    BY <1>2
  <2>2. c.seq < c.len /\ (c.seq = 0 \/ Linked(h, s, n + 1, c))
    BY <2>1 DEF Chain
  <2>3. c.seq \in Nat /\ c.len \in Nat
    BY <2>1 DEF PacketSet
  <2>. HIDE DEF c
  <2>4. n + 1 \in Nat /\ n + 1 > 1 /\ (n + 1) - 1 = n
    BY <2>1
  <2>5. Linked(h, s, n + 1, c) => Linked(g, Tail(s), n, c)
    BY <1>6, <2>2, <2>3, <2>4
  <2>. QED
    BY <2>2, <2>5 DEF c
<1>8. ASSUME NEW c, Expects(h, s, c), c.seq \in Nat \ {0}, c.len \in Nat, c.seq < c.len PROVE Expects(g, Tail(s), c)
  <2>1. Len(s) + 1 \in Nat /\ Len(s) + 1 > 1 /\ (Len(s) + 1) - 1 = Len(Tail(s)) + 1
    BY <1>1
  <2>. QED
    BY <1>6, <1>8, <2>1 DEF Expects
<1>. QED
  BY <1>7, <1>8

LEMMA AppendMcu ==
  ASSUME NEW s \in Seq(PacketSet), NEW p \in PacketSet
  PROVE  /\ Append(s, p) \in Seq(PacketSet)
         /\ p.tag # "PREPARE_IN" => SamePrep(s, Append(s, p))
         /\ \A c : Prepared(Append(s, p), c) => Prepared(s, c) \/ c = p
         /\ p.tag = "PREPARE_IN" =>
              /\ (\A c : ~Prepared(s, c)) => OnePrep(Append(s, p))
              /\ Prepared(Append(s, p), p)
              /\ \A h : Chain(h, s) /\ p.seq < p.len /\ (p.seq = 0 \/ Expects(h, s, p)) => Chain(h, Append(s, p))
              /\ \A h, c : Follows(p, c) => Expects(h, Append(s, p), c)
<1>. DEFINE t == Append(s, p)
            l == Len(s) + 1
<1>1. /\ t \in Seq(PacketSet) /\ Len(s) \in Nat /\ DOMAIN s = 1..Len(s) /\ DOMAIN t = 1..l
      /\ \A i \in 1..Len(s) : t[i] = s[i]
      /\ t[l] = p /\ Len(t) = l /\ l \in Nat /\ \A i \in 1..Len(s) : i < l
  OBVIOUS
<1>. HIDE DEF t
<1>2. \A i \in Prep(s) : i \in Prep(t) /\ t[i] = s[i] /\ i \in 1..Len(s)
  BY <1>1 DEF Prep
<1>3. \A i \in Prep(t) : (i \in Prep(s) /\ t[i] = s[i]) \/ (i = l /\ t[i] = p /\ p.tag = "PREPARE_IN")
  BY <1>1 DEF Prep
<1>4. \A c : Prepared(t, c) => Prepared(s, c) \/ c = p
  BY <1>3 DEF Prepared
\* A place in s is linked as before.
<1>5. ASSUME NEW h, NEW c, NEW n \in 1..l, Linked(h, s, n, c) PROVE Linked(h, t, n, c)
  <2>1. CASE At(h, c) /\ \A j \in Prep(s) : j >= n
    <3>1. \A j \in Prep(t) : j >= n
      BY <1>1, <1>3, <2>1
    <3>. QED
      BY <2>1, <3>1 DEF Linked
  <2>2. ASSUME NEW j \in Prep(s), j < n, s[j].id = c.id, s[j].seq + 1 = c.seq, s[j].len = c.len,
               \A m \in Prep(s) : m <= j \/ m >= n
        PROVE  Linked(h, t, n, c)
    <3>1. j \in Prep(t) /\ t[j] = s[j]
      BY <1>2
    <3>2. \A m \in Prep(t) : m <= j \/ m >= n
      BY <1>1, <1>3, <2>2
    <3>. QED
      BY <2>2, <3>1, <3>2 DEF Linked
  <2>. QED
    BY <1>5, <2>1, <2>2 DEF Linked
<1>6. ASSUME NEW h, Chain(h, s), p.tag = "PREPARE_IN" => p.seq < p.len /\ (p.seq = 0 \/ Expects(h, s, p))
      PROVE  Chain(h, t)
  <2>. SUFFICES ASSUME NEW n \in Prep(t)
                PROVE  t[n].seq < t[n].len /\ (t[n].seq = 0 \/ Linked(h, t, n, t[n]))
    BY DEF Chain
  <2>1. CASE n \in Prep(s) /\ t[n] = s[n]
    <3>1. n \in 1..l
      BY <1>1, <1>2, <2>1
    <3>2. s[n].seq < s[n].len /\ (s[n].seq = 0 \/ Linked(h, s, n, s[n]))
      BY <1>6, <2>1 DEF Chain
    <3>. QED
      BY <1>5, <2>1, <3>1, <3>2
  <2>2. CASE n = l /\ t[n] = p /\ p.tag = "PREPARE_IN"
    <3>1. l \in 1..l
      BY <1>1
    <3>2. p.seq = 0 \/ Linked(h, s, l, p)
      BY <1>6, <2>2 DEF Expects
    <3>. QED
      BY <1>5, <1>6, <2>2, <3>1, <3>2
  <2>. QED
    BY <1>3, <2>1, <2>2
<1>7. ASSUME p.tag # "PREPARE_IN" PROVE SamePrep(s, t)
  <2>1. Prep(t) = Prep(s)
    BY <1>2, <1>3, <1>7
  <2>2. ASSUME NEW h, NEW c, Expects(h, s, c) PROVE Expects(h, t, c)
    <3>1. Linked(h, s, l, c)
      BY <2>2 DEF Expects
    <3>2. CASE At(h, c) /\ \A j \in Prep(s) : j >= l
      <4>1. \A j \in Prep(t) : j >= l + 1
        BY <1>1, <1>2, <2>1, <3>2
      <4>. QED
        BY <1>1, <3>2, <4>1 DEF Expects, Linked
    <3>3. ASSUME NEW j \in Prep(s), j < l, s[j].id = c.id, s[j].seq + 1 = c.seq, s[j].len = c.len,
                 \A m \in Prep(s) : m <= j \/ m >= l
          PROVE  Expects(h, t, c)
      <4>1. j \in Prep(t) /\ t[j] = s[j] /\ j < l + 1
        BY <1>1, <1>2, <3>3
      <4>2. \A m \in Prep(t) : m <= j \/ m >= l + 1
        BY <1>1, <1>2, <2>1, <3>3
      <4>. QED
        BY <1>1, <3>3, <4>1, <4>2 DEF Expects, Linked
    <3>. QED
      BY <3>1, <3>2, <3>3 DEF Linked
  <2>3. OnePrep(s) => OnePrep(t)
    BY <2>1 DEF OnePrep
  <2>4. \A c : Prepared(t, c) <=> Prepared(s, c)
    BY <1>2, <2>1 DEF Prepared
  <2>5. \A h : Chain(h, s) => Chain(h, t)
    BY <1>6, <1>7
  <2>. QED
    BY <2>2, <2>3, <2>4, <2>5 DEF SamePrep
<1>8. ASSUME p.tag = "PREPARE_IN"
      PROVE  /\ (\A c : ~Prepared(s, c)) => OnePrep(t)
             /\ Prepared(t, p)
             /\ \A h, c : Follows(p, c) => Expects(h, t, c)
  <2>1. l \in Prep(t) /\ t[l] = p
    BY <1>1, <1>8 DEF Prep
  <2>2. (\A c : ~Prepared(s, c)) => Prep(s) = {}
    BY DEF Prepared
  <2>3. (\A c : ~Prepared(s, c)) => OnePrep(t)
    BY <1>3, <2>2 DEF OnePrep
  <2>4. ASSUME NEW h, NEW c, Follows(p, c) PROVE Expects(h, t, c)
    <3>1. l < l + 1 /\ \A m \in Prep(t) : m <= l \/ m >= l + 1
      BY <1>1, <1>2, <1>3
    <3>. QED
      BY <1>1, <2>1, <2>4, <3>1 DEF Expects, Linked, Follows
  <2>. QED
    BY <2>1, <2>3, <2>4 DEF Prepared
<1>. QED
  BY <1>1, <1>4, <1>6, <1>7, <1>8 DEF t

LEMMA SamePrepTrans ==
  ASSUME NEW s, NEW t, NEW u, SamePrep(s, t), SamePrep(t, u) PROVE SamePrep(s, u)
  BY DEF SamePrep
LEMMA SelfPrep == ASSUME NEW s PROVE SamePrep(s, s)
  BY DEF SamePrep

-----------------------------------------------------------------------------
(* The chunks of an APDU.                                                  *)

LEMMA ChunksGrow ==
  ASSUME NEW id, NEW n \in Nat
  PROVE  /\ Len(Chunks(id, n)) = n
         /\ Append(Chunks(id, n), <<id, n>>) = Chunks(id, n + 1)
         /\ Chunks(id, n + 1)[1][1] = id /\ Chunks(id, n + 1) # <<>>
<1>. DEFINE S == {<<id, i>> : i \in Nat}
<1>1. /\ Chunks(id, n) \in Seq(S) /\ Len(Chunks(id, n)) = n
      /\ Chunks(id, n + 1) \in Seq(S) /\ Len(Chunks(id, n + 1)) = n + 1
  BY DEF Chunks
<1>2. /\ Append(Chunks(id, n), <<id, n>>) \in Seq(S)
      /\ Len(Append(Chunks(id, n), <<id, n>>)) = n + 1
  BY <1>1
<1>3. \A i \in 1..(n + 1) : Append(Chunks(id, n), <<id, n>>)[i] = Chunks(id, n + 1)[i]
  BY <1>1 DEF Chunks
<1>4. Append(Chunks(id, n), <<id, n>>) = Chunks(id, n + 1)
  BY <1>1, <1>2, <1>3, SeqEqual
<1>5. Chunks(id, n + 1)[1][1] = id
  BY DEF Chunks
<1>. QED
  BY <1>1, <1>4, <1>5

LEMMA FirstChunk == ASSUME NEW id PROVE Append(<<>>, <<id, 0>>) = Chunks(id, 1)
<1>. DEFINE S == {<<id, i>> : i \in Nat}
<1>1. Append(<<>>, <<id, 0>>) \in Seq(S) /\ Len(Append(<<>>, <<id, 0>>)) = 1
  OBVIOUS
<1>2. Chunks(id, 1) \in Seq(S) /\ Len(Chunks(id, 1)) = 1
  BY DEF Chunks
<1>3. \A i \in 1..1 : Append(<<>>, <<id, 0>>)[i] = Chunks(id, 1)[i]
  BY DEF Chunks
<1>. QED
  BY <1>1, <1>2, <1>3, SeqEqual

-----------------------------------------------------------------------------
(* Moves along the line.                                                   *)

LEMMA Nil == ASSUME NEW s \in Seq(PacketSet) PROVE <<>> \o s = s /\ s \o <<>> = s
  BY ConcatEmptySeq
LEMMA Shift ==
  ASSUME NEW s \in Seq(PacketSet), NEW t \in Seq(PacketSet), NEW x \in PacketSet
  PROVE  s \o (<<x>> \o t) = Append(s, x) \o t /\ <<x>> \in Seq(PacketSet) /\ Append(s, x) \in Seq(PacketSet)
<1>1. <<x>> \in Seq(PacketSet) /\ Append(s, x) = s \o <<x>> /\ Append(s, x) \in Seq(PacketSet)
  BY AppendIsConcat
<1>. QED
  BY <1>1, ConcatAssociative

LEMMA QueueTyped ==
  ASSUME NEW a \in Seq(PacketSet), NEW p \in Seq(PacketSet), NEW m \in Seq(PacketSet),
         NEW f \in Seq(PacketSet), NEW s \in Seq(PacketSet)
  PROVE  Queue(a, p, m, f, s) \in Seq(PacketSet) /\ p \o (m \o (f \o s)) \in Seq(PacketSet)
  BY ConcatLine DEF Queue

LEMMA Keep ==
  ASSUME NEW a \in Seq(PacketSet), NEW p \in Seq(PacketSet), NEW f \in Seq(PacketSet), NEW x \in PacketSet
  PROVE  /\ Queue(a, p, <<x>>, f, <<>>) = Queue(a, Append(p, x), <<>>, f, <<>>)
         /\ Queue(a, p, <<>>, <<>>, <<x>>) = Queue(a, Append(p, x), <<>>, <<>>, <<>>)
<1>1. p \o (<<x>> \o f) = Append(p, x) \o f /\ p \o (<<x>> \o <<>>) = Append(p, x) \o <<>>
  BY Shift, EmptyLine
<1>2. <<x>> \in Seq(PacketSet) /\ Append(p, x) \in Seq(PacketSet)
  BY Shift
<1>3. /\ f \o <<>> = f /\ <<>> \o f = f /\ <<>> \o <<>> = <<>>
      /\ <<>> \o <<x>> = <<x>> /\ <<x>> \o <<>> = <<x>> /\ Append(p, x) \o <<>> = Append(p, x)
  BY <1>2, Nil, EmptyLine
<1>. QED
  BY <1>1, <1>3 DEF Queue

LEMMA Post ==
  ASSUME NEW a \in Seq(PacketSet), NEW f \in Seq(PacketSet), NEW x \in PacketSet
  PROVE  /\ Queue(a, <<>>, <<x>>, f, <<>>) = Queue(Append(a, x), <<>>, <<>>, f, <<>>)
         /\ Queue(a, <<>>, <<>>, <<>>, <<x>>) = Queue(Append(a, x), <<>>, <<>>, <<>>, <<>>)
<1>1. /\ a \o (<<x>> \o f) = Append(a, x) \o f /\ a \o (<<x>> \o <<>>) = Append(a, x) \o <<>>
      /\ <<x>> \o f \in Seq(PacketSet) /\ <<x>> \in Seq(PacketSet)
  BY Shift, EmptyLine, ConcatLine
<1>. QED
  BY <1>1, Nil, EmptyLine DEF Queue

LEMMA Flush ==
  ASSUME NEW a \in Seq(PacketSet), NEW p \in Seq(PacketSet), NEW f \in Seq(PacketSet)
  PROVE  /\ f # <<>> => Queue(a, p, <<>>, f, <<>>) = Queue(a, p, <<Head(f)>>, Tail(f), <<>>)
         /\ Queue(a, p, <<>>, <<>>, <<>>) = Queue(a, <<>>, <<>>, p, <<>>)
<1>1. ASSUME f # <<>> PROVE <<Head(f)>> \o Tail(f) = f /\ Tail(f) \in Seq(PacketSet) /\ Head(f) \in PacketSet
  <2>1. Tail(f) \in Seq(PacketSet) /\ Head(f) \in PacketSet /\ Len(f) = Len(Tail(f)) + 1
    BY <1>1
  <2>2. Len(<<Head(f)>> \o Tail(f)) = Len(f) /\ <<Head(f)>> \o Tail(f) \in Seq(PacketSet)
    BY <2>1
  <2>3. \A i \in 1..Len(f) : (<<Head(f)>> \o Tail(f))[i] = f[i]
    BY <1>1, <2>1
  <2>. QED
    BY <2>1, <2>2, <2>3, SeqEqual
<1>2. f # <<>> => Queue(a, p, <<>>, f, <<>>) = Queue(a, p, <<Head(f)>>, Tail(f), <<>>)
  BY <1>1, Nil, EmptyLine DEF Queue
<1>. QED
  BY <1>2, Nil, EmptyLine DEF Queue

LEMMA Enter ==
  ASSUME NEW a \in Seq(PacketSet), NEW p \in Seq(PacketSet), NEW x \in PacketSet
  PROVE  /\ Queue(a, p, <<x>>, <<>>, <<>>) = Append(Queue(a, p, <<>>, <<>>, <<>>), x)
         /\ Queue(a, p, <<>>, <<>>, <<x>>) = Append(Queue(a, p, <<>>, <<>>, <<>>), x)
<1>1. <<x>> \in Seq(PacketSet) /\ a \o p \in Seq(PacketSet) /\ Append(a \o p, x) = (a \o p) \o <<x>>
  <2>1. <<x>> \in Seq(PacketSet)
    BY Shift
  <2>2. a \o p \in Seq(PacketSet)
    BY ConcatLine
  <2>. QED
    BY <2>1, <2>2, AppendIsConcat
<1>2. (a \o p) \o <<x>> = a \o (p \o <<x>>)
  BY <1>1, ConcatAssociative
<1>. QED
  BY <1>1, <1>2, Nil, EmptyLine DEF Queue

LEMMA TakeFirst ==
  ASSUME NEW a \in Seq(PacketSet), NEW t \in Seq(PacketSet), a # <<>>
  PROVE  a \o t # <<>> /\ Head(a \o t) = Head(a) /\ Tail(a \o t) = Tail(a) \o t
<1>1. a \o t # <<>> /\ Head(a \o t) = Head(a)
  OBVIOUS
<1>2. /\ Tail(a \o t) \in Seq(PacketSet) /\ Tail(a) \o t \in Seq(PacketSet)
      /\ Len(Tail(a \o t)) = Len(a) + Len(t) - 1 /\ Len(Tail(a) \o t) = Len(a) + Len(t) - 1
  BY <1>1
<1>3. \A i \in 1..(Len(a) + Len(t) - 1) : Tail(a \o t)[i] = (Tail(a) \o t)[i]
  OBVIOUS
<1>. QED
  BY <1>1, <1>2, <1>3, SeqEqual

-----------------------------------------------------------------------------
(* The threads of the MCU: every step keeps the line.                      *)

LEMMA PlainTyped ==
  /\ \A tag \in Tags : Plain(tag) \in PacketSet /\ Plain(tag).tag = tag
  /\ NoPacket \in PacketSet /\ NoPacket.tag = "none" /\ Posting(NoPacket) = <<>>
<1>1. \A tag \in Tags : Plain(tag) \in PacketSet /\ Plain(tag).tag = tag
  BY DEF Plain, Packet, PacketSet, NoId
<1>2. "none" \in Tags
  BY DEF Tags
<1>. QED
  BY <1>1, <1>2 DEF NoPacket, Posting, Transfers

LEMMA PostingTyped == ASSUME NEW x \in PacketSet PROVE Posting(x) \in Seq(PacketSet)
  BY EmptyLine, Shift DEF Posting

LEMMA LineTyped ==
  ASSUME TypeInv
  PROVE  /\ Line \in Seq(PacketSet) /\ out["main"] \in PacketSet /\ out["sender"] \in PacketSet
         /\ Posting(out["main"]) \in Seq(PacketSet) /\ Posting(out["sender"]) \in Seq(PacketSet)
<1>1. out["main"] \in PacketSet /\ out["sender"] \in PacketSet
  BY DEF TypeInv, Threads
<1>2. Posting(out["main"]) \in Seq(PacketSet) /\ Posting(out["sender"]) \in Seq(PacketSet)
  BY <1>1, PostingTyped
<1>3. toApp \in Seq(PacketSet) /\ packets \in Seq(PacketSet) /\ flush \in Seq(PacketSet)
  BY DEF TypeInv
<1>. QED
  BY <1>1, <1>2, <1>3, QueueTyped DEF Line

\* A thread that does not run holds nothing.
LEMMA IdleHolds ==
  ASSUME TypeInv, ThreadsInv
  PROVE  /\ pc["main"] = "idle" => Posting(out["main"]) = <<>>
         /\ pc["sender"] = "idle" => Posting(out["sender"]) = <<>>
         /\ out["main"].tag \in Setups => Posting(out["main"]) = <<>>
  BY DEF ThreadsInv, ThreadOk, Threads, Posting, Transfers, Setups

LEMMA ReadStep ==
  ASSUME TypeInv, ThreadsInv, NEW t \in Threads, ReadState(t) \/ ReadLen(t)
  PROVE  TypeInv' /\ ThreadsInv' /\ Line' = Line
<1>1. /\ UNCHANGED <<hostVars, state, packets, flush, hid, answer, out, raised, toApp, toMcu, devVars>>
      /\ pc[t] \in {"state", "len"}
      /\ \/ pc' = [pc EXCEPT ![t] = "len"] /\ pc[t] = "state" /\ state = "CONFIGURED"
         \/ pc' = [pc EXCEPT ![t] = "append"]
         \/ pc' = [pc EXCEPT ![t] = "post"] /\ pc[t] = "len" /\ packets = <<>>
  BY DEF ReadState, ReadLen
<1>2. TypeInv'
  BY <1>1 DEF TypeInv, hostVars, devVars
<1>3. Line' = Line
  BY <1>1 DEF Line
<1>4. ThreadsInv'
  <2>1. pc \in [Threads -> {"idle", "state", "len", "append", "post"}]
    BY DEF TypeInv
  <2>2. \A u \in Threads : u # t => pc'[u] = pc[u]
    BY <1>1, <2>1
  <2>3. t = "main" => host # "sending"
    BY <1>1 DEF ThreadsInv, MainIdle
  <2>4. host # "sending" => pc'["sender"] = "idle"
    BY <1>1, <2>1, <2>2 DEF ThreadsInv, Threads
  <2>5. host = "sending" => MainIdle'
    BY <1>1, <2>2, <2>3 DEF ThreadsInv, MainIdle, Threads
  <2>6. ASSUME NEW u \in Threads PROVE ThreadOk(u)'
    BY <1>1, <2>1, <2>2 DEF ThreadsInv, ThreadOk
  <2>7. pc'["sender"] # "idle" => out["sender"].tag = "OUT"
    BY <1>1, <2>1, <2>2 DEF ThreadsInv, Threads
  <2>. QED
    BY <1>1, <2>4, <2>5, <2>6, <2>7 DEF ThreadsInv, hostVars
<1>. QED
  BY <1>2, <1>3, <1>4

LEMMA OneRuns ==
  ASSUME ThreadsInv, NEW t \in Threads, pc[t] # "idle"
  PROVE  \A u \in Threads : u # t => pc[u] = "idle"
  BY DEF ThreadsInv, MainIdle, Threads

LEMMA AppendTransfers ==
  ASSUME NEW s \in Seq(PacketSet), NEW x \in PacketSet, x.tag \in Transfers,
         \A i \in DOMAIN s : s[i].tag \in Transfers
  PROVE  \A i \in DOMAIN Append(s, x) : Append(s, x)[i].tag \in Transfers
<1>1. /\ DOMAIN s = 1..Len(s) /\ DOMAIN Append(s, x) = 1..(Len(s) + 1) /\ Len(s) \in Nat
      /\ Append(s, x)[Len(s) + 1] = x /\ \A i \in 1..Len(s) : Append(s, x)[i] = s[i]
  OBVIOUS
<1>. QED
  BY <1>1

\* A thread has sent its packet, and nothing else changed but the queues.
LEMMA ThreadDone ==
  ASSUME TypeInv, ThreadsInv, NEW t \in Threads, pc[t] # "idle",
         UNCHANGED <<hostVars, state, flush, answer, raised>>,
         pc' = [pc EXCEPT ![t] = "idle"], out' = [out EXCEPT ![t] = NoPacket],
         \A i \in DOMAIN packets' : packets'[i].tag \in Transfers
  PROVE  ThreadsInv'
<1>1. pc \in [Threads -> {"idle", "state", "len", "append", "post"}] /\ out \in [Threads -> PacketSet]
  BY DEF TypeInv
<1>2. \A u \in Threads : u # t => pc[u] = "idle"
  BY OneRuns
<1>3. \A u \in Threads : pc'[u] = "idle" /\ (u # t => out'[u] = out[u]) /\ (u = t => out'[u] = NoPacket)
  BY <1>1, <1>2
<1>4. \A u \in Threads : ThreadOk(u)'
  BY <1>2, <1>3, PlainTyped DEF ThreadsInv, ThreadOk
<1>5. pc'["main"] = "idle" /\ pc'["sender"] = "idle"
  BY <1>3 DEF Threads
<1>6. host = "sending" => MainIdle'
  BY <1>5 DEF ThreadsInv, MainIdle
<1>. QED
  BY <1>4, <1>5, <1>6 DEF ThreadsInv, hostVars

\* The line, when the thread t runs and holds a transfer.
LEMMA RunningLine ==
  ASSUME TypeInv, ThreadsInv, NEW t \in Threads, pc[t] # "idle", out[t].tag \in Transfers
  PROVE  /\ t = "main" => Line = Queue(toApp, packets, <<out[t]>>, flush, <<>>)
         /\ t = "sender" => flush = <<>> /\ Line = Queue(toApp, packets, <<>>, <<>>, <<out[t]>>)
<1>1. Posting(out[t]) = <<out[t]>>
  BY DEF Posting
<1>2. CASE t = "main"
  BY <1>1, <1>2, OneRuns, IdleHolds DEF Line, Threads
<1>3. CASE t = "sender"
  BY <1>1, <1>3, OneRuns, IdleHolds DEF Line, Threads, ThreadsInv, MainIdle
<1>. QED
  BY <1>2, <1>3

LEMMA EmptyHands ==
  ASSUME NEW t \in Threads, TypeInv, ThreadsInv, pc[t] # "idle", out' = [out EXCEPT ![t] = NoPacket]
  PROVE  Posting(out'["main"]) = <<>> /\ Posting(out'["sender"]) = <<>>
<1>1. out \in [Threads -> PacketSet]
  BY DEF TypeInv
<1>2. CASE t = "main"
  BY <1>1, <1>2, OneRuns, IdleHolds, PlainTyped DEF Threads
<1>3. CASE t = "sender"
  BY <1>1, <1>3, OneRuns, IdleHolds, PlainTyped DEF Threads
<1>. QED
  BY <1>2, <1>3 DEF Threads

LEMMA KeepStep ==
  ASSUME TypeInv, ThreadsInv, NEW t \in Threads, KeepPacket(t)
  PROVE  TypeInv' /\ ThreadsInv' /\ Line' = Line
<1>1. /\ UNCHANGED <<hostVars, state, flush, hid, answer, raised, toApp, toMcu, devVars>>
      /\ pc[t] # "idle" /\ out[t].tag \in Transfers /\ out[t] \in PacketSet
      /\ pc' = [pc EXCEPT ![t] = "idle"] /\ out' = [out EXCEPT ![t] = NoPacket]
      /\ packets' = Append(packets, out[t])
  BY DEF KeepPacket, ThreadsInv, ThreadOk, TypeInv
<1>2. TypeInv'
  <2>1. packets' \in Seq(PacketSet) /\ out' \in [Threads -> PacketSet]
    BY <1>1, PlainTyped DEF TypeInv
  <2>. QED
    BY <1>1, <2>1 DEF TypeInv, hostVars, devVars
<1>3. ThreadsInv'
  <2>1. \A i \in DOMAIN packets' : packets'[i].tag \in Transfers
    BY <1>1, AppendTransfers DEF TypeInv, ThreadsInv
  <2>. QED
    BY <1>1, <2>1, ThreadDone
<1>4. Line' = Line
  <2>1. Line' = Queue(toApp, Append(packets, out[t]), <<>>, flush, <<>>)
    BY <1>1, EmptyHands DEF Line
  <2>2. toApp \in Seq(PacketSet) /\ packets \in Seq(PacketSet) /\ flush \in Seq(PacketSet)
    BY DEF TypeInv
  <2>3. CASE t = "main"
    BY <1>1, <2>1, <2>2, <2>3, RunningLine, Keep
  <2>4. CASE t = "sender"
    <3>1. flush = <<>> /\ Line = Queue(toApp, packets, <<>>, <<>>, <<out[t]>>)
      BY <1>1, <2>4, RunningLine
    <3>2. Queue(toApp, packets, <<>>, <<>>, <<out[t]>>) = Queue(toApp, Append(packets, out[t]), <<>>, <<>>, <<>>)
      BY <1>1, <2>2, Keep
    <3>. QED
      BY <2>1, <3>1, <3>2
  <2>. QED
    BY <2>3, <2>4 DEF Threads
<1>. QED
  BY <1>2, <1>3, <1>4

LEMMA PostStep ==
  ASSUME TypeInv, ThreadsInv, NEW t \in Threads, PostPacket(t)
  PROVE  TypeInv' /\ ThreadsInv' /\ SameLine(Line, Line')
<1>1. /\ UNCHANGED <<hostVars, state, packets, flush, hid, answer, raised, toMcu, devVars>>
      /\ pc[t] # "idle" /\ out[t] \in PacketSet
      /\ (out[t].tag \in Transfers /\ packets = <<>>) \/ out[t].tag \in Setups
      /\ pc' = [pc EXCEPT ![t] = "idle"] /\ out' = [out EXCEPT ![t] = NoPacket]
      /\ toApp' = Append(toApp, out[t])
  BY DEF PostPacket, ThreadsInv, ThreadOk, TypeInv
<1>2. TypeInv'
  <2>1. toApp' \in Seq(PacketSet) /\ out' \in [Threads -> PacketSet]
    BY <1>1, PlainTyped DEF TypeInv
  <2>. QED
    BY <1>1, <2>1 DEF TypeInv, hostVars, devVars
<1>3. ThreadsInv'
  BY <1>1, ThreadDone DEF ThreadsInv
<1>4. Line' = Queue(Append(toApp, out[t]), packets, <<>>, flush, <<>>)
  BY <1>1, EmptyHands DEF Line
<1>5. toApp \in Seq(PacketSet) /\ packets \in Seq(PacketSet) /\ flush \in Seq(PacketSet)
  BY DEF TypeInv
<1>6. CASE out[t].tag \in Transfers /\ packets = <<>>
  <2>1. CASE t = "main"
    <3>1. Line = Queue(toApp, <<>>, <<out[t]>>, flush, <<>>)
      BY <1>1, <1>6, <2>1, RunningLine
    <3>2. Queue(toApp, <<>>, <<out[t]>>, flush, <<>>) = Queue(Append(toApp, out[t]), <<>>, <<>>, flush, <<>>)
      BY <1>1, <1>5, Post
    <3>. QED
      BY <1>2, <1>3, <1>4, <1>6, <3>1, <3>2, SelfLine
  <2>2. CASE t = "sender"
    <3>1. flush = <<>> /\ Line = Queue(toApp, <<>>, <<>>, <<>>, <<out[t]>>)
      BY <1>1, <1>6, <2>2, RunningLine
    <3>2. Queue(toApp, <<>>, <<>>, <<>>, <<out[t]>>) = Queue(Append(toApp, out[t]), <<>>, <<>>, <<>>, <<>>)
      BY <1>1, <1>5, Post
    <3>. QED
      BY <1>2, <1>3, <1>4, <1>6, <3>1, <3>2, SelfLine
  <2>. QED
    BY <2>1, <2>2 DEF Threads
<1>7. CASE out[t].tag \in Setups
  <2>1. t = "main" /\ out[t].tag \notin Transfers
    BY <1>1, <1>7 DEF ThreadsInv, Threads, Setups, Transfers
  <2>2. Posting(out["main"]) = <<>> /\ Posting(out["sender"]) = <<>>
    BY <1>1, <1>7, <2>1, OneRuns, IdleHolds DEF Threads
  <2>3. Line = Queue(toApp, packets, <<>>, flush, <<>>)
    BY <2>2 DEF Line
  <2>. DEFINE r == packets \o (<<>> \o (flush \o <<>>))
  <2>4. r \in Seq(PacketSet)
    BY <1>5, EmptyLine, QueueTyped
  <2>5. Line = toApp \o r /\ Line' = Append(toApp, out[t]) \o r
    BY <1>4, <2>3 DEF Queue
  <2>. HIDE DEF r
  <2>6. SameLine(Line, Line')
    BY <1>1, <1>5, <2>1, <2>4, <2>5, InsertLine
  <2>. QED
    BY <1>2, <1>3, <2>6
<1>. QED
  BY <1>1, <1>6, <1>7

\* A packet in the hands of the main thread, which was idle.
LEMMA MainStarts ==
  ASSUME TypeInv, ThreadsInv, pc["main"] = "idle", host # "sending", UNCHANGED <<hostVars, raised>>,
         NEW x \in PacketSet, NEW at \in {"state", "post"}, x.tag \in Transfers \cup Setups,
         x.tag \in Transfers <=> at = "state",
         out' = [out EXCEPT !["main"] = x], pc' = [pc EXCEPT !["main"] = at],
         \A i \in DOMAIN packets' : packets'[i].tag \in Transfers,
         \A i \in DOMAIN flush' : flush'[i].tag \in Transfers
  PROVE  /\ ThreadsInv' /\ pc' \in [Threads -> {"idle", "state", "len", "append", "post"}]
         /\ out' \in [Threads -> PacketSet]
         /\ Posting(out["main"]) = <<>> /\ Posting(out["sender"]) = <<>>
         /\ Posting(out'["main"]) = IF x.tag \in Transfers THEN <<x>> ELSE <<>>
         /\ Posting(out'["sender"]) = <<>> /\ out'["main"] = x /\ pc'["sender"] = "idle"
<1>1. pc \in [Threads -> {"idle", "state", "len", "append", "post"}] /\ out \in [Threads -> PacketSet]
  BY DEF TypeInv
<1>2. pc["sender"] = "idle" /\ "main" \in Threads /\ "sender" \in Threads
  BY DEF ThreadsInv, Threads
<1>3. /\ pc'["main"] = at /\ pc'["sender"] = "idle" /\ out'["main"] = x /\ out'["sender"] = out["sender"]
      /\ pc' \in [Threads -> {"idle", "state", "len", "append", "post"}] /\ out' \in [Threads -> PacketSet]
  BY <1>1, <1>2
<1>4. Posting(out["main"]) = <<>> /\ Posting(out["sender"]) = <<>>
  BY <1>2, IdleHolds
<1>5. ThreadOk("main")'
  BY <1>3 DEF ThreadOk, Transfers, Setups
<1>6. ThreadOk("sender")'
  BY <1>2, <1>3 DEF ThreadOk, ThreadsInv
<1>7. ThreadsInv'
  BY <1>3, <1>5, <1>6 DEF ThreadsInv, Threads, hostVars
<1>. QED
  BY <1>3, <1>4, <1>7 DEF Posting

LEMMA FlushStep ==
  ASSUME TypeInv, ThreadsInv, FlushNext
  PROVE  TypeInv' /\ ThreadsInv' /\ Line' = Line
<1>1. /\ UNCHANGED <<hostVars, state, packets, hid, answer, raised, toApp, toMcu, devVars>>
      /\ flush # <<>> /\ pc["main"] = "idle" /\ host # "sending"
      /\ out' = [out EXCEPT !["main"] = Head(flush)] /\ pc' = [pc EXCEPT !["main"] = "state"]
      /\ flush' = Tail(flush)
  BY DEF FlushNext, ThreadsInv, MainIdle
<1>2. /\ Head(flush) \in PacketSet /\ Tail(flush) \in Seq(PacketSet) /\ Head(flush).tag \in Transfers
      /\ \A i \in DOMAIN Tail(flush) : Tail(flush)[i].tag \in Transfers
  <2>1. flush \in Seq(PacketSet) /\ \A i \in DOMAIN flush : flush[i].tag \in Transfers
    BY DEF TypeInv, ThreadsInv
  <2>. QED
    BY <1>1, <2>1
<1>3. /\ ThreadsInv' /\ pc' \in [Threads -> {"idle", "state", "len", "append", "post"}]
      /\ out' \in [Threads -> PacketSet]
      /\ Posting(out["main"]) = <<>> /\ Posting(out["sender"]) = <<>>
      /\ Posting(out'["main"]) = <<Head(flush)>> /\ Posting(out'["sender"]) = <<>>
  <2>1. \A i \in DOMAIN packets' : packets'[i].tag \in Transfers
    BY <1>1 DEF ThreadsInv
  <2>2. \A i \in DOMAIN flush' : flush'[i].tag \in Transfers
    BY <1>1, <1>2
  <2>. QED
    BY <1>1, <1>2, <2>1, <2>2, MainStarts
<1>4. TypeInv'
  BY <1>1, <1>2, <1>3 DEF TypeInv, hostVars, devVars
<1>5. Line' = Line
  BY <1>1, <1>3, Flush DEF Line, TypeInv
<1>. QED
  BY <1>3, <1>4, <1>5

\* Both threads are idle when can_read reads a command.
LEMMA Reads ==
  ASSUME SameThread, TypeInv, ThreadsInv, NEW tag, CanRead(tag)
  PROVE  /\ MainIdle /\ host # "sending" /\ pc["main"] = "idle" /\ pc["sender"] = "idle"
         /\ Posting(out["main"]) = <<>> /\ Posting(out["sender"]) = <<>> /\ flush = <<>> /\ answer = <<>>
         /\ toMcu # <<>> /\ Head(toMcu) \in PacketSet /\ toMcu' = Tail(toMcu) /\ toMcu' \in Seq(PacketSet)
         /\ Head(toMcu).tag = tag
         /\ tag # "PREPARE_IN" => SamePrep(toMcu, toMcu')
<1>1. /\ MainIdle /\ host # "sending" /\ pc["main"] = "idle" /\ pc["sender"] = "idle" /\ flush = <<>>
      /\ answer = <<>> /\ toMcu # <<>> /\ toMcu' = Tail(toMcu) /\ Head(toMcu).tag = tag
  BY DEF CanRead, MainIdle, ThreadsInv
<1>2. toMcu \in Seq(PacketSet)
  BY DEF TypeInv
<1>. QED
  BY <1>1, <1>2, IdleHolds, TailMcu

LEMMA SetupStep ==
  ASSUME SameThread, TypeInv, ThreadsInv, ConfigConnect \/ ConfigAddr
  PROVE  TypeInv' /\ ThreadsInv' /\ Line' = Line /\ SamePrep(toMcu, toMcu')
<1>1. PICK tag \in {"CONNECT", "ADDR"}, setup \in Setups, new \in {"ADDRESSED", "CONFIGURED"} :
        /\ CanRead(tag)
        /\ UNCHANGED <<hostVars, packets, flush, hid, answer, raised, toApp, devVars>>
        /\ \/ state' = new /\ out' = [out EXCEPT !["main"] = Plain(setup)] /\ pc' = [pc EXCEPT !["main"] = "post"]
           \/ UNCHANGED <<state, out, pc>>
  BY DEF ConfigConnect, ConfigAddr, Setup, Setups
<1>2. /\ host # "sending" /\ pc["main"] = "idle" /\ toMcu' \in Seq(PacketSet) /\ SamePrep(toMcu, toMcu')
      /\ Posting(out["main"]) = <<>> /\ Posting(out["sender"]) = <<>>
  BY <1>1, Reads
<1>3. CASE UNCHANGED <<state, out, pc>>
  <2>1. TypeInv'
    BY <1>1, <1>2, <1>3 DEF TypeInv, hostVars, devVars
  <2>2. ThreadsInv'
    BY <1>1, <1>3 DEF ThreadsInv, ThreadOk, MainIdle, hostVars
  <2>3. Line' = Line
    BY <1>1, <1>3 DEF Line
  <2>. QED
    BY <1>2, <2>1, <2>2, <2>3
<1>4. CASE state' = new /\ out' = [out EXCEPT !["main"] = Plain(setup)] /\ pc' = [pc EXCEPT !["main"] = "post"]
  <2>1. Plain(setup) \in PacketSet /\ Plain(setup).tag = setup /\ setup \notin Transfers
    BY PlainTyped DEF Setups, Tags, EventTags, Transfers
  <2>2. /\ \A i \in DOMAIN packets' : packets'[i].tag \in Transfers
        /\ \A i \in DOMAIN flush' : flush'[i].tag \in Transfers
    BY <1>1 DEF ThreadsInv
  <2>3. /\ ThreadsInv' /\ pc' \in [Threads -> {"idle", "state", "len", "append", "post"}]
        /\ out' \in [Threads -> PacketSet]
        /\ Posting(out'["main"]) = <<>> /\ Posting(out'["sender"]) = <<>>
    BY <1>1, <1>2, <1>4, <2>1, <2>2, MainStarts
  <2>4. TypeInv'
    BY <1>1, <1>2, <1>4, <2>3 DEF TypeInv, hostVars, devVars
  <2>5. Line' = Line
    BY <1>1, <1>2, <2>3 DEF Line
  <2>. QED
    BY <1>2, <2>3, <2>4, <2>5
<1>. QED
  BY <1>1, <1>3, <1>4

LEMMA DisconnectStep ==
  ASSUME SameThread, TypeInv, ThreadsInv, ConfigDisconnect
  PROVE  TypeInv' /\ ThreadsInv' /\ Line' = Line /\ SamePrep(toMcu, toMcu')
<1>1. /\ CanRead("DISCONNECT") /\ state' = "DISCONNECTED"
      /\ UNCHANGED <<hostVars, packets, flush, hid, answer, pc, out, raised, toApp, devVars>>
  BY DEF ConfigDisconnect
<1>2. /\ pc["main"] = "idle" /\ pc["sender"] = "idle" /\ toMcu' \in Seq(PacketSet) /\ SamePrep(toMcu, toMcu')
  BY <1>1, Reads
<1>3. TypeInv'
  BY <1>1, <1>2 DEF TypeInv, hostVars, devVars
<1>4. ThreadsInv'
  BY <1>1, <1>2 DEF ThreadsInv, ThreadOk, MainIdle, hostVars, Threads
<1>5. Line' = Line
  BY <1>1 DEF Line
<1>. QED
  BY <1>2, <1>3, <1>4, <1>5

LEMMA EndpointsStep ==
  ASSUME SameThread, TypeInv, ThreadsInv, ConfigEndpoints
  PROVE  TypeInv' /\ ThreadsInv' /\ Line' = Line /\ SamePrep(toMcu, toMcu')
<1>1. /\ CanRead("ENDPOINTS") /\ flush' = packets /\ packets' = <<>>
      /\ UNCHANGED <<hostVars, state, hid, answer, pc, out, raised, toApp, devVars>>
  BY DEF ConfigEndpoints
<1>2. /\ host # "sending" /\ pc["main"] = "idle" /\ pc["sender"] = "idle" /\ toMcu' \in Seq(PacketSet)
      /\ SamePrep(toMcu, toMcu')
      /\ Posting(out["main"]) = <<>> /\ Posting(out["sender"]) = <<>> /\ flush = <<>>
  BY <1>1, Reads
<1>3. TypeInv'
  BY <1>1, <1>2, EmptyLine DEF TypeInv, hostVars, devVars
<1>4. ThreadsInv'
  <2>1. UNCHANGED <<host, cmd, next, pc, out, state>>
    BY <1>1 DEF hostVars
  <2>2. \A t \in Threads : ThreadOk(t)'
    BY <1>1, <1>2, <2>1 DEF ThreadsInv, ThreadOk, Threads
  <2>3. /\ \A i \in DOMAIN flush' : flush'[i].tag \in Transfers
        /\ \A i \in DOMAIN packets' : packets'[i].tag \in Transfers
    BY <1>1 DEF ThreadsInv
  <2>. QED
    BY <1>2, <2>1, <2>2, <2>3 DEF ThreadsInv
<1>5. Line' = Line
  BY <1>1, <1>2, Flush DEF Line, TypeInv
<1>. QED
  BY <1>2, <1>3, <1>4, <1>5

LEMMA OtherStep ==
  ASSUME TypeInv, ThreadsInv, OtherEvent
  PROVE  TypeInv' /\ ThreadsInv' /\ SameLine(Line, Line')
<1>1. /\ UNCHANGED <<hostVars, mcuVars, toMcu, devVars>> /\ toApp' = Append(toApp, Plain("OTHER"))
  BY DEF OtherEvent
<1>2. Plain("OTHER") \in PacketSet /\ Plain("OTHER").tag \notin Transfers
  BY PlainTyped DEF Tags, EventTags, Transfers
<1>3. TypeInv'
  <2>1. toApp' \in Seq(PacketSet)
    BY <1>1, <1>2 DEF TypeInv
  <2>. QED
    BY <1>1, <2>1 DEF TypeInv, hostVars, mcuVars, devVars
<1>4. ThreadsInv'
  BY <1>1 DEF ThreadsInv, ThreadOk, MainIdle, hostVars, mcuVars
<1>5. SameLine(Line, Line')
  <2>. DEFINE r == packets \o (Posting(out["main"]) \o (flush \o Posting(out["sender"])))
  <2>1. r \in Seq(PacketSet) /\ toApp \in Seq(PacketSet)
    BY LineTyped, QueueTyped DEF TypeInv
  <2>2. Line = toApp \o r /\ Line' = Append(toApp, Plain("OTHER")) \o r
    BY <1>1 DEF Line, Queue, mcuVars
  <2>. HIDE DEF r
  <2>. QED
    BY <1>2, <2>1, <2>2, InsertLine
<1>. QED
  BY <1>3, <1>4, <1>5

\* The device takes the first packet of the line.
LEMMA ReceiveStep ==
  ASSUME TypeInv, ThreadsInv, NEW tag, Receive(tag)
  PROVE  /\ ThreadsInv' /\ toApp' \in Seq(PacketSet) /\ Head(toApp).tag = tag
         /\ Line # <<>> /\ Head(Line) = Head(toApp) /\ Line' = Tail(Line)
         /\ tag \notin Transfers => SameLine(Line, Line')
<1>1. /\ UNCHANGED <<hostVars, mcuVars, restarts>> /\ toApp # <<>> /\ Head(toApp).tag = tag /\ toApp' = Tail(toApp)
  BY DEF Receive
<1>2. ThreadsInv'
  BY <1>1 DEF ThreadsInv, ThreadOk, MainIdle, hostVars, mcuVars
<1>3. toApp \in Seq(PacketSet) /\ packets \in Seq(PacketSet) /\ flush \in Seq(PacketSet)
  BY DEF TypeInv
<1>4. Line # <<>> /\ Head(Line) = Head(toApp) /\ Line' = Tail(Line)
  <2>. DEFINE r == packets \o (Posting(out["main"]) \o (flush \o Posting(out["sender"])))
  <2>1. r \in Seq(PacketSet)
    BY <1>3, LineTyped, QueueTyped
  <2>2. Line = toApp \o r /\ Line' = Tail(toApp) \o r
    BY <1>1 DEF Line, Queue, mcuVars
  <2>. HIDE DEF r
  <2>3. toApp # <<>>
    BY <1>1
  <2>4. toApp \o r # <<>> /\ Head(toApp \o r) = Head(toApp) /\ Tail(toApp \o r) = Tail(toApp) \o r
    BY <1>3, <2>1, <2>3, TakeFirst
  <2>. QED
    BY <2>2, <2>4
<1>5. tag \notin Transfers => SameLine(Line, Line')
  BY <1>1, <1>4, LineTyped, DropLine
<1>. QED
  BY <1>1, <1>2, <1>3, <1>4, <1>5

LEMMA StartStep ==
  ASSUME SameThread, TypeInv, ThreadsInv, StartExchange
  PROVE  TypeInv' /\ ThreadsInv' /\ Line' = Line
<1>1. PICK n \in CmdChunks : cmd' = [id |-> cmd.id + 1, len |-> n]
  BY DEF StartExchange
<1>2. /\ UNCHANGED <<mcuVars, toApp, toMcu, devVars>> /\ MainIdle /\ next' = 0 /\ host' = "sending"
      /\ host \in {"idle", "failed"} /\ n \in Nat /\ cmd' \in [id : Nat, len : Nat] /\ cmd'.len = n /\ late' = late
  BY <1>1, ChunksAssumption DEF StartExchange, TypeInv
<1>3. TypeInv'
  BY <1>2 DEF TypeInv, mcuVars, devVars
<1>4. ThreadsInv'
  <2>1. pc["sender"] = "idle"
    BY <1>2 DEF ThreadsInv
  <2>. QED
    BY <1>1, <1>2, <2>1 DEF ThreadsInv, ThreadOk, MainIdle, mcuVars
<1>5. Line' = Line
  BY <1>2 DEF Line, mcuVars
<1>. QED
  BY <1>3, <1>4, <1>5

LEMMA ChunkStep ==
  ASSUME TypeInv, ThreadsInv, SendChunk
  PROVE  /\ TypeInv' /\ ThreadsInv' /\ host = "sending" /\ MainIdle
         /\ \/ /\ next < cmd.len /\ host' = host /\ next' = next + 1
               /\ Packet("OUT", cmd.id, next, cmd.len) \in PacketSet
               /\ Line' = Append(Line, Packet("OUT", cmd.id, next, cmd.len))
            \/ next = cmd.len /\ host' = "waiting" /\ next' = next /\ Line' = Line
<1>. DEFINE x == Packet("OUT", cmd.id, next, cmd.len)
<1>1. /\ host = "sending" /\ MainIdle /\ pc["sender"] = "idle" /\ pc["main"] = "idle" /\ flush = <<>>
      /\ UNCHANGED <<cmd, late, state, packets, flush, hid, answer, raised, toApp, toMcu, devVars>>
      /\ cmd \in [id : Nat, len : Nat] /\ next \in Nat /\ next <= cmd.len
      /\ pc \in [Threads -> {"idle", "state", "len", "append", "post"}] /\ out \in [Threads -> PacketSet]
  BY DEF SendChunk, TypeInv, ThreadsInv, MainIdle
<1>2. CASE next < cmd.len
  <2>1. /\ out' = [out EXCEPT !["sender"] = x] /\ pc' = [pc EXCEPT !["sender"] = "state"]
        /\ next' = next + 1 /\ host' = host
    BY <1>2 DEF SendChunk
  <2>2. x \in PacketSet /\ x.tag = "OUT"
    BY <1>1 DEF Packet, PacketSet, Tags, EventTags
  <2>. HIDE DEF x
  <2>3. /\ out'["sender"] = x /\ out'["main"] = out["main"] /\ pc'["sender"] = "state" /\ pc'["main"] = "idle"
        /\ out' \in [Threads -> PacketSet] /\ pc' \in [Threads -> {"idle", "state", "len", "append", "post"}]
    BY <1>1, <2>1, <2>2 DEF Threads
  <2>4. TypeInv'
    BY <1>1, <2>1, <2>3 DEF TypeInv, devVars
  <2>5. ThreadsInv'
    <3>1. ThreadOk("main")' /\ ThreadOk("sender")'
      BY <1>1, <2>2, <2>3 DEF ThreadsInv, ThreadOk, Threads, Transfers
    <3>. QED
      BY <1>1, <1>2, <2>1, <2>2, <2>3, <3>1 DEF ThreadsInv, MainIdle, Threads
  <2>6. Line = Queue(toApp, packets, <<>>, <<>>, <<>>) /\ Line' = Queue(toApp, packets, <<>>, <<>>, <<x>>)
    <3>1. Posting(out["main"]) = <<>> /\ Posting(out["sender"]) = <<>>
      BY <1>1, IdleHolds
    <3>2. Posting(out'["main"]) = <<>> /\ Posting(out'["sender"]) = <<x>>
      BY <2>2, <2>3, <3>1 DEF Posting, Transfers
    <3>. QED
      BY <1>1, <3>1, <3>2 DEF Line
  <2>7. Queue(toApp, packets, <<>>, <<>>, <<x>>) = Append(Queue(toApp, packets, <<>>, <<>>, <<>>), x)
    BY <2>2, Enter DEF TypeInv
  <2>. QED
    BY <1>1, <1>2, <2>1, <2>2, <2>4, <2>5, <2>6, <2>7 DEF x
<1>3. CASE ~(next < cmd.len)
  <2>1. host' = "waiting" /\ UNCHANGED <<out, pc, next>> /\ next = cmd.len
    BY <1>1, <1>3 DEF SendChunk
  <2>2. TypeInv'
    BY <1>1, <2>1 DEF TypeInv, devVars
  <2>3. ThreadsInv'
    BY <1>1, <2>1 DEF ThreadsInv, ThreadOk
  <2>4. Line' = Line
    BY <1>1, <2>1 DEF Line
  <2>. QED
    BY <1>1, <2>1, <2>2, <2>3, <2>4
<1>. QED
  BY <1>2, <1>3

LEMMA TimeoutStep ==
  ASSUME TypeInv, ThreadsInv, Timeout
  PROVE  TypeInv' /\ ThreadsInv' /\ Line' = Line
<1>1. /\ host = "waiting" /\ host' = "failed" /\ UNCHANGED <<cmd, next, mcuVars, toApp, toMcu, devVars>>
      /\ late' \in BOOLEAN
  BY DEF Timeout
<1>2. TypeInv'
  BY <1>1 DEF TypeInv, mcuVars, devVars
<1>3. ThreadsInv'
  BY <1>1 DEF ThreadsInv, ThreadOk, MainIdle, mcuVars
<1>4. Line' = Line
  BY <1>1 DEF Line, mcuVars
<1>. QED
  BY <1>2, <1>3, <1>4

LEMMA AnswerStep ==
  ASSUME TypeInv, ThreadsInv, Answer
  PROVE  /\ TypeInv' /\ ThreadsInv' /\ Line' = Line /\ answer' = <<>>
         /\ (host = "waiting" /\ host' = "idle") \/ (host \in {"idle", "failed"} /\ host' = host)
<1>1. /\ host \in {"idle", "failed", "waiting"} /\ answer' = <<>>
      /\ host' = IF host = "waiting" THEN "idle" ELSE host
      /\ UNCHANGED <<cmd, next, late, state, packets, flush, hid, pc, out, raised, toApp, toMcu, devVars>>
  <2>1. host \in {"idle", "failed", "waiting"}
    BY DEF Answer, TypeInv, ThreadsInv, MainIdle
  <2>. QED
    BY <2>1 DEF Answer
<1>2. TypeInv'
  BY <1>1 DEF TypeInv, devVars
<1>3. ThreadsInv'
  BY <1>1 DEF ThreadsInv, ThreadOk
<1>4. Line' = Line
  BY <1>1 DEF Line
<1>. QED
  BY <1>1, <1>2, <1>3, <1>4

\* _prepare accepts the chunk of the response, unless the application
\* answered while the class was busy.
LEMMA PrepareStep ==
  ASSUME SameThread, TypeInv, ThreadsInv, ResponseInv, Prepare
  PROVE  /\ TypeInv' /\ ThreadsInv' /\ host # "sending" /\ answer = <<>>
         /\ toMcu # <<>> /\ Head(toMcu).tag = "PREPARE_IN" /\ toMcu' = Tail(toMcu)
         /\ UNCHANGED <<hostVars, state, packets, flush, toApp, devVars>>
         /\ \/ cut /\ Line' = Line
            \/ /\ Line' = Append(Line, Plain("IN")) /\ raised' = raised
               /\ Head(toMcu).seq = 0 \/ Head(toMcu).seq = hid.seq
<1>. DEFINE c == Head(toMcu)
<1>1. /\ CanRead("PREPARE_IN") /\ UNCHANGED <<hostVars, state, packets, flush, toApp, devVars>>
      /\ \/ c.seq # 0 /\ c.seq # hid.seq /\ UNCHANGED <<pc, out>>
         \/ /\ c.seq = 0 \/ c.seq = hid.seq
            /\ out' = [out EXCEPT !["main"] = Plain("IN")] /\ pc' = [pc EXCEPT !["main"] = "state"]
            /\ UNCHANGED raised
  BY DEF Prepare
<1>2. /\ host # "sending" /\ pc["main"] = "idle" /\ flush = <<>> /\ toMcu # <<>> /\ toMcu' = Tail(toMcu)
      /\ toMcu' \in Seq(PacketSet) /\ c.tag = "PREPARE_IN" /\ answer = <<>>
  BY <1>1, Reads
<1>3. CASE c.seq # 0 /\ c.seq # hid.seq /\ UNCHANGED <<pc, out>>
  <2>1. cut
    <3>. SUFFICES ASSUME ~cut PROVE FALSE
      OBVIOUS
    <3>1. c.seq = 0 \/ At(hid, c)
      BY <1>2, FirstPrepared DEF ResponseInv, TypeInv
    <3>. QED
      BY <1>3, <3>1 DEF At
  <2>2. TypeInv'
    BY <1>1, <1>2, <1>3 DEF TypeInv, hostVars, devVars
  <2>3. ThreadsInv'
    BY <1>1, <1>2, <1>3 DEF ThreadsInv, ThreadOk, hostVars
  <2>4. Line' = Line
    BY <1>1, <1>3 DEF Line
  <2>. QED
    BY <1>1, <1>2, <2>1, <2>2, <2>3, <2>4
<1>4. CASE ~(c.seq # 0 /\ c.seq # hid.seq /\ UNCHANGED <<pc, out>>)
  <2>1. /\ out' = [out EXCEPT !["main"] = Plain("IN")] /\ pc' = [pc EXCEPT !["main"] = "state"] /\ UNCHANGED raised
        /\ c.seq = 0 \/ c.seq = hid.seq
    BY <1>1, <1>4
  <2>2. Plain("IN") \in PacketSet /\ Plain("IN").tag = "IN"
    BY PlainTyped DEF Tags, EventTags
  <2>3. /\ ThreadsInv' /\ pc' \in [Threads -> {"idle", "state", "len", "append", "post"}]
        /\ out' \in [Threads -> PacketSet]
        /\ Posting(out["main"]) = <<>> /\ Posting(out["sender"]) = <<>>
        /\ Posting(out'["main"]) = <<Plain("IN")>> /\ Posting(out'["sender"]) = <<>>
    <3>1. /\ \A i \in DOMAIN packets' : packets'[i].tag \in Transfers
          /\ \A i \in DOMAIN flush' : flush'[i].tag \in Transfers
      BY <1>1 DEF ThreadsInv
    <3>2. Plain("IN").tag \in Transfers
      BY <2>2 DEF Transfers
    <3>. QED
      BY <1>1, <1>2, <2>1, <2>2, <3>1, <3>2, MainStarts
  <2>4. TypeInv'
    BY <1>1, <1>2, <2>3 DEF TypeInv, hostVars, devVars
  <2>5. Line' = Append(Line, Plain("IN"))
    <3>1. Line = Queue(toApp, packets, <<>>, <<>>, <<>>) /\ Line' = Queue(toApp, packets, <<Plain("IN")>>, <<>>, <<>>)
      BY <1>1, <1>2, <2>3 DEF Line
    <3>. QED
      BY <2>2, <3>1, Enter DEF TypeInv
  <2>. QED
    BY <1>1, <1>2, <2>1, <2>3, <2>4, <2>5
<1>. QED
  BY <1>3, <1>4

-----------------------------------------------------------------------------
(* A step that leaves alone what the line and the queue to the MCU say,    *)
(* and the exchange; the class may go down, or start over.                 *)

\* The chunks in the line are the same ones.
LEMMA SameCommands ==
  ASSUME TypeInv, CommandInv, ReceiveInv, NoLossInv, Ordered(Line'),
         \A d, k, n \in Nat : Has(Line', d, k, n) <=> Has(Line, d, k, n),
         UNCHANGED <<cmd, next, handled>>, restarts' = 0 => restarts = 0,
         \/ UNCHANGED rx /\ (dev' = dev \/ dev' # "CONFIGURED")
         \/ rx' = Fresh /\ (restarts = 0 => rx.seq = 0)
  PROVE  CommandInv' /\ ReceiveInv' /\ NoLossInv'
<1>1. /\ \A d, n : Top(d, n)' = Top(d, n)
      /\ Fresh.seq = 0
  BY DEF Top, Fresh
<1>2. ASSUME NEW d \in Nat, NEW k \in Nat, NEW n \in Nat, NEW x, \A m \in k..x : Has(Line, d, m, n)
      PROVE  \A m \in k..x : Has(Line', d, m, n)
  <2>1. \A m \in k..x : m \in Nat
    OBVIOUS
  <2>. QED
    BY <1>2, <2>1
<1>3. SameLength(Line)'
  BY DEF CommandInv, SameLength
<1>4. ASSUME NEW d \in Nat, NEW k \in Nat, NEW n \in Nat, Has(Line', d, k, n)
      PROVE  /\ handled < d /\ d <= cmd.id /\ k < n
             /\ d = cmd.id => n = cmd.len /\ k < next
             /\ \A m \in k..(Top(d, n) - 1) : Has(Line', d, m, n)
  <2>1. /\ handled < d /\ d <= cmd.id /\ k < n
        /\ d = cmd.id => n = cmd.len /\ k < next
        /\ \A m \in k..(Top(d, n) - 1) : Has(Line, d, m, n)
    BY <1>4 DEF CommandInv
  <2>. QED
    BY <1>2, <2>1
<1>5. CommandInv'
  BY <1>1, <1>3, <1>4 DEF CommandInv
<1>6. ReceiveInv'
  <2>. SUFFICES ASSUME Receiving' PROVE ReceiveInv'
    BY DEF ReceiveInv
  <2>1. Receiving /\ rx' = rx
    BY <1>1 DEF Receiving
  <2>2. /\ RxId \in Nat /\ handled < RxId /\ RxId <= cmd.id
        /\ rx.seq \in Nat /\ rx.len \in Nat /\ rx.seq < rx.len
        /\ rx.seq <= Top(RxId, rx.len) /\ (RxId = cmd.id => rx.len = cmd.len)
        /\ rx.data = Chunks(RxId, rx.seq)
        /\ \A d, k, n \in Nat : Has(Line, d, k, n) => RxId < d \/ (d = RxId /\ k >= rx.seq /\ n = rx.len)
        /\ \A k \in rx.seq..(Top(RxId, rx.len) - 1) : Has(Line, RxId, k, rx.len)
    BY <2>1 DEF ReceiveInv
  <2>3. RxId' = RxId
    BY <2>1 DEF RxId
  <2>4. \A k \in rx.seq..(Top(RxId, rx.len) - 1) : Has(Line', RxId, k, rx.len)
    BY <1>2, <2>2
  <2>5. \A d, k, n \in Nat : Has(Line', d, k, n) => RxId < d \/ (d = RxId /\ k >= rx.seq /\ n = rx.len)
    BY <2>2
  <2>. QED
    BY <1>1, <2>1, <2>2, <2>3, <2>4, <2>5 DEF ReceiveInv
<1>7. NoLossInv'
  <2>. SUFFICES ASSUME restarts' = 0 PROVE NoLossInv'
    BY DEF NoLossInv
  <2>1. 0 \in Nat /\ restarts = 0 /\ rx'.seq = rx.seq /\ (rx.seq # 0 => rx' = rx)
    BY <1>1
  <2>2. \A d, n \in Nat : Begun(d, n)' <=> Begun(d, n)
    BY <2>1 DEF Begun, RxId
  <2>3. cmd.id \in Nat /\ cmd.len \in Nat
    BY DEF TypeInv
  <2>. QED
    BY <2>1, <2>2, <2>3 DEF NoLossInv
<1>. QED
  BY <1>5, <1>6, <1>7

\* The responses on their way are the same ones.
LEMMA SameResponses ==
  ASSUME ResponseInv, SamePrep(toMcu, toMcu'), UNCHANGED <<hid, raised, cut>>,
         answer' = answer \/ answer' = <<>>,
         handled \in Nat, handled' \in Nat, handled <= handled',
         \/ UNCHANGED <<tx, busy>> /\ (dev' = dev \/ dev' # "CONFIGURED")
         \/ dev' # "CONFIGURED"
         \/ tx' = NoTx
  PROVE  ResponseInv'
<1>1. /\ \A c : Prepared(toMcu', c) <=> Prepared(toMcu, c)
      /\ \A h : Chain(h, toMcu) => Chain(h, toMcu')
      /\ \A h, c : Expects(h, toMcu, c) => Expects(h, toMcu', c)
  BY DEF SamePrep
<1>2. \A i \in 1..handled : i \in 1..handled'
  OBVIOUS
<1>3. Transmitting' => Transmitting /\ UNCHANGED <<tx, busy>>
  BY DEF Transmitting
<1>4. \A c : Prepared(toMcu', c) => c.id \in 1..handled'
  BY <1>1, <1>2 DEF ResponseInv
<1>5. Transmitting' => /\ tx' = [id |-> tx'.id, seq |-> tx'.seq, len |-> tx'.len]
                       /\ tx'.id \in 1..handled' /\ tx'.seq \in Nat \ {0} /\ tx'.len \in Nat
                       /\ tx'.seq < tx'.len /\ busy'
  BY <1>2, <1>3 DEF ResponseInv
<1>6. ~cut => /\ ~raised
              /\ Chain(hid, toMcu')
              /\ Transmitting' => Expects(hid, toMcu', tx')
              /\ answer' # <<>> => \E d \in 1..handled' : answer' = Chunks(d, Len(answer'))
  BY <1>1, <1>2, <1>3 DEF ResponseInv
<1>. QED
  BY <1>4, <1>5, <1>6 DEF ResponseInv

LEMMA Quiet ==
  ASSUME TypeInv, ApduInv, SameLine(Line, Line'), SamePrep(toMcu, toMcu'),
         UNCHANGED <<hostVars, hid, answer, raised, apdu, handled, cut>>, restarts' = 0 => restarts = 0,
         \/ UNCHANGED <<rx, tx, busy>> /\ (dev' = dev \/ dev' # "CONFIGURED")
         \/ rx' = Fresh /\ tx' = NoTx /\ busy' = FALSE /\ (restarts = 0 => rx.seq = 0)
  PROVE  ApduInv'
<1>. USE DEF ApduInv
<1>1. UNCHANGED <<host, cmd, next, late, hid, answer, apdu, handled, cut, raised>> /\ handled \in Nat
  BY DEF hostVars, TypeInv
<1>2. /\ Ordered(Line) => Ordered(Line')
      /\ InFirst(Line) => InFirst(Line')
      /\ \A d, k, n \in Nat : Has(Line', d, k, n) <=> Has(Line, d, k, n)
      /\ HasIn(Line') <=> HasIn(Line)
  BY DEF SameLine
<1>3. /\ OnePrep(toMcu) => OnePrep(toMcu')
      /\ \A c : Prepared(toMcu', c) <=> Prepared(toMcu, c)
  BY DEF SamePrep
<1>4. CommandInv' /\ ReceiveInv' /\ NoLossInv'
  <2>1. Ordered(Line')
    BY <1>2 DEF CommandInv
  <2>2. \/ UNCHANGED rx /\ (dev' = dev \/ dev' # "CONFIGURED")
        \/ rx' = Fresh /\ (restarts = 0 => rx.seq = 0)
    OBVIOUS
  <2>. QED
    BY <1>1, <1>2, <2>1, <2>2, SameCommands
<1>5. ResponseInv'
  <2>1. \/ UNCHANGED <<tx, busy>> /\ (dev' = dev \/ dev' # "CONFIGURED")
        \/ dev' # "CONFIGURED"
        \/ tx' = NoTx
    OBVIOUS
  <2>. QED
    BY <1>1, <2>1, SameResponses
<1>6. OwnInv'
  <2>1. Transmitting' => Transmitting /\ tx' = tx
    BY DEF Transmitting
  <2>2. dev' = "CONFIGURED" /\ busy' => dev = "CONFIGURED" /\ busy
    OBVIOUS
  <2>3. Pending' = Pending
    BY <1>1 DEF Pending
  <2>. QED
    BY <1>1, <1>2, <1>3, <2>1, <2>2, <2>3 DEF OwnInv
<1>. QED
  BY <1>4, <1>5, <1>6

-----------------------------------------------------------------------------
(* The client.                                                             *)

LEMMA StartApdu ==
  ASSUME SameThread, TypeInv, ThreadsInv, ApduInv, StartExchange
  PROVE  ApduInv'
<1>1. PICK n \in CmdChunks : cmd' = [id |-> cmd.id + 1, len |-> n]
  BY DEF StartExchange
<1>2. /\ Line' = Line /\ ~Pending /\ host # "waiting" /\ next' = 0 /\ UNCHANGED <<late, mcuVars, toMcu, devVars>>
      /\ next = cmd.len
  BY <1>1, StartStep DEF StartExchange, Pending, ThreadsInv
<1>3. UNCHANGED <<hid, answer, raised, dev, rx, tx, busy, apdu, handled, cut, restarts>>
  BY <1>2 DEF mcuVars, devVars
<1>4. cmd.id \in Nat /\ cmd.len \in Nat /\ cmd'.id = cmd.id + 1 /\ handled \in Nat
  BY <1>1 DEF TypeInv
<1>5. ASSUME NEW d, d <= cmd.id, NEW l, d = cmd.id => l = cmd.len, d \in Nat
      PROVE  d # cmd'.id /\ Top(d, l)' = Top(d, l)
  <2>1. d # cmd'.id
    BY <1>4, <1>5
  <2>. QED
    BY <1>2, <1>5, <2>1 DEF Top
<1>6. CommandInv'
  <2>1. ASSUME NEW d \in Nat, NEW k \in Nat, NEW l \in Nat, Has(Line, d, k, l)
        PROVE  /\ handled < d /\ d <= cmd.id /\ k < l /\ d # cmd'.id /\ Top(d, l)' = Top(d, l)
               /\ \A m \in k..(Top(d, l) - 1) : Has(Line, d, m, l)
    BY <1>5, <2>1 DEF ApduInv, CommandInv
  <2>2. \A d \in Nat : d <= cmd.id => d <= cmd'.id
    BY <1>4
  <2>3. handled <= cmd'.id /\ handled # cmd'.id
    BY <1>4 DEF ApduInv, CommandInv
  <2>. QED
    BY <1>2, <1>3, <2>1, <2>2, <2>3 DEF ApduInv, CommandInv
<1>7. ReceiveInv'
  <2>. SUFFICES ASSUME Receiving' PROVE ReceiveInv'
    BY DEF ReceiveInv
  <2>1. Receiving /\ rx' = rx /\ RxId' = RxId
    BY <1>3 DEF Receiving, RxId
  <2>2. /\ RxId \in Nat /\ handled < RxId /\ RxId <= cmd.id
        /\ rx.seq \in Nat /\ rx.len \in Nat /\ rx.seq < rx.len
        /\ rx.seq <= Top(RxId, rx.len) /\ (RxId = cmd.id => rx.len = cmd.len)
        /\ rx.data = Chunks(RxId, rx.seq)
        /\ \A d, k, l \in Nat : Has(Line, d, k, l) => RxId < d \/ (d = RxId /\ k >= rx.seq /\ l = rx.len)
        /\ \A k \in rx.seq..(Top(RxId, rx.len) - 1) : Has(Line, RxId, k, rx.len)
    BY <2>1 DEF ApduInv, ReceiveInv
  <2>3. RxId # cmd'.id /\ RxId <= cmd'.id
    BY <1>4, <2>2
  <2>4. Top(RxId, rx.len)' = Top(RxId, rx.len)
    BY <1>2, <2>1, <2>2, <2>3 DEF Top
  <2>. QED
    BY <1>2, <1>3, <2>1, <2>2, <2>3, <2>4 DEF ReceiveInv
<1>8. NoLossInv'
  BY <1>2, <1>3 DEF ApduInv, NoLossInv, Begun, RxId
<1>9. ResponseInv'
  BY <1>2, <1>3 DEF ApduInv, ResponseInv, Transmitting
<1>10. OwnInv'
  <2>. SUFFICES ASSUME ~late PROVE OwnInv'
    BY <1>2 DEF OwnInv
  <2>1. /\ (\A d, k, l \in Nat : ~Has(Line, d, k, l)) /\ apdu = {} /\ (\A c : ~Prepared(toMcu, c))
        /\ answer = <<>> /\ ~Transmitting
    BY <1>2 DEF ApduInv, OwnInv
  <2>2. ~Transmitting'
    BY <1>3, <2>1 DEF Transmitting
  <2>. QED
    BY <1>2, <1>3, <2>1, <2>2 DEF ApduInv, OwnInv
<1>. QED
  BY <1>6, <1>7, <1>8, <1>9, <1>10 DEF ApduInv

LEMMA ChunkApdu ==
  ASSUME TypeInv, ThreadsInv, ApduInv, SendChunk
  PROVE  ApduInv'
<1>1. /\ host = "sending" /\ MainIdle /\ next \in Nat /\ cmd.len \in Nat /\ cmd.id \in Nat /\ handled \in Nat
      /\ UNCHANGED <<cmd, late, hid, answer, raised, toMcu, dev, rx, tx, busy, apdu, handled, cut, restarts>>
  BY ChunkStep DEF SendChunk, devVars, TypeInv
<1>2. RxId' = RxId /\ Receiving' = Receiving /\ Transmitting' = Transmitting
  BY <1>1 DEF RxId, Receiving, Transmitting
<1>3. ResponseInv'
  BY <1>1, <1>2 DEF ApduInv, ResponseInv
<1>4. CASE next = cmd.len /\ host' = "waiting" /\ next' = next /\ Line' = Line
  <2>1. Pending' = Pending /\ answer = <<>>
    BY <1>1, <1>4 DEF Pending, MainIdle
  <2>2. CommandInv' /\ ReceiveInv' /\ NoLossInv'
    BY <1>1, <1>4, SameCommands DEF ApduInv, CommandInv
  <2>3. OwnInv'
    BY <1>1, <1>2, <1>4, <2>1 DEF ApduInv, OwnInv
  <2>. QED
    BY <1>3, <2>2, <2>3 DEF ApduInv
<1>5. ASSUME next < cmd.len, host' = host, next' = next + 1, Packet("OUT", cmd.id, next, cmd.len) \in PacketSet,
             Line' = Append(Line, Packet("OUT", cmd.id, next, cmd.len))
      PROVE  ApduInv'
  <2>. DEFINE x == Packet("OUT", cmd.id, next, cmd.len)
  <2>1. x.tag = "OUT" /\ x.id = cmd.id /\ x.seq = next /\ x.len = cmd.len
    BY DEF Packet
  <2>. HIDE DEF x
  <2>2. Line \in Seq(PacketSet) /\ x \in PacketSet /\ Line' = Append(Line, x)
    BY <1>5, LineTyped DEF x
  <2>3. /\ \A d, k, n \in Nat : Has(Line', d, k, n) <=> Has(Line, d, k, n) \/ Is(x, d, k, n)
        /\ HasIn(Line') <=> HasIn(Line)
        /\ InFirst(Line) => InFirst(Line')
    BY <2>1, <2>2, AppendLine
  <2>4. \A d, k, n \in Nat : Is(x, d, k, n) <=> d = cmd.id /\ k = next /\ n = cmd.len
    BY <2>1 DEF Is
  <2>5. /\ handled < cmd.id
        /\ \A d, k, n \in Nat : Has(Line, d, k, n) =>
             /\ handled < d /\ d <= cmd.id /\ k < n
             /\ d = cmd.id => n = cmd.len /\ k < next
             /\ \A m \in k..(Top(d, n) - 1) : Has(Line, d, m, n)
    BY <1>1, <1>5 DEF ApduInv, CommandInv
  <2>6. Ordered(Line')
    <3>1. \A d, k, n \in Nat : Has(Line, d, k, n) => Before(d, k, x.id, x.seq)
      BY <1>1, <2>1, <2>5 DEF Before
    <3>2. Ordered(Line)
      BY DEF ApduInv, CommandInv
    <3>. QED
      BY <2>2, <3>1, <3>2, AppendLine
  <2>7. SameLength(Line')
    <3>. SUFFICES ASSUME NEW d \in Nat, NEW k \in Nat, NEW n \in Nat, NEW m \in Nat, NEW l \in Nat,
                         Has(Line', d, k, n), Has(Line', d, m, l)
                  PROVE  n = l
      BY DEF SameLength
    <3>1. CASE d = cmd.id
      BY <2>3, <2>4, <2>5, <3>1
    <3>2. CASE d # cmd.id
      BY <2>3, <2>4, <3>2 DEF ApduInv, CommandInv, SameLength
    <3>. QED
      BY <3>1, <3>2
  <2>8. ASSUME NEW d \in Nat, NEW k \in Nat, NEW n \in Nat, d = cmd.id => n = cmd.len,
               \A m \in k..(Top(d, n) - 1) : Has(Line, d, m, n)
        PROVE  \A m \in k..(Top(d, n)' - 1) : Has(Line', d, m, n)
    <3>. SUFFICES ASSUME NEW m \in k..(Top(d, n)' - 1) PROVE Has(Line', d, m, n)
      OBVIOUS
    <3>1. m \in Nat
      OBVIOUS
    <3>2. CASE d = cmd.id
      <4>1. Top(d, n)' = next + 1 /\ Top(d, n) = next
        BY <1>1, <1>5, <3>2 DEF Top
      <4>2. m = next \/ m \in k..(next - 1)
        BY <1>1, <3>1, <4>1
      <4>. QED
        BY <2>3, <2>4, <2>8, <3>1, <3>2, <4>1, <4>2
    <3>3. CASE d # cmd.id
      <4>1. Top(d, n)' = Top(d, n)
        BY <1>1, <3>3 DEF Top
      <4>. QED
        BY <2>3, <2>8, <3>1, <4>1
    <3>. QED
      BY <3>2, <3>3
  <2>9. CommandInv'
    <3>1. ASSUME NEW d \in Nat, NEW k \in Nat, NEW n \in Nat, Has(Line', d, k, n)
          PROVE  /\ handled < d /\ d <= cmd.id /\ k < n
                 /\ d = cmd.id => n = cmd.len /\ k < next + 1
                 /\ \A m \in k..(Top(d, n)' - 1) : Has(Line', d, m, n)
      <4>1. /\ handled < d /\ d <= cmd.id /\ k < n
            /\ d = cmd.id => n = cmd.len /\ k < next + 1
        BY <1>1, <1>5, <2>3, <2>4, <2>5, <3>1
      <4>2. \A m \in k..(Top(d, n) - 1) : Has(Line, d, m, n)
        <5>1. CASE Has(Line, d, k, n)
          BY <2>5, <5>1
        <5>2. CASE Is(x, d, k, n)
          <6>1. Top(d, n) = next /\ k = next
            BY <2>4, <5>2 DEF Top
          <6>. QED
            BY <1>1, <6>1
        <5>. QED
          BY <2>3, <3>1, <5>1, <5>2
      <4>. QED
        BY <2>8, <4>1, <4>2
    <3>. QED
      BY <1>1, <1>5, <2>5, <2>6, <2>7, <3>1 DEF ApduInv, CommandInv
  <2>10. ReceiveInv'
    <3>. SUFFICES ASSUME Receiving PROVE ReceiveInv'
      BY <1>2 DEF ReceiveInv
    <3>1. /\ RxId \in Nat /\ handled < RxId /\ RxId <= cmd.id
          /\ rx.seq \in Nat /\ rx.len \in Nat /\ rx.seq < rx.len
          /\ rx.seq <= Top(RxId, rx.len) /\ (RxId = cmd.id => rx.len = cmd.len)
          /\ rx.data = Chunks(RxId, rx.seq)
          /\ \A d, k, n \in Nat : Has(Line, d, k, n) => RxId < d \/ (d = RxId /\ k >= rx.seq /\ n = rx.len)
          /\ \A k \in rx.seq..(Top(RxId, rx.len) - 1) : Has(Line, RxId, k, rx.len)
      BY DEF ApduInv, ReceiveInv
    <3>2. PICK i \in Nat, q \in Nat, l \in Nat : i = RxId /\ q = rx.seq /\ l = rx.len
      BY <3>1
    <3>3. /\ i <= cmd.id /\ (i = cmd.id => l = cmd.len) /\ q <= Top(i, l)
          /\ \A d, k, n \in Nat : Has(Line, d, k, n) => i < d \/ (d = i /\ k >= q /\ n = l)
          /\ \A k \in q..(Top(i, l) - 1) : Has(Line, i, k, l)
      BY <3>1, <3>2
    <3>4. \A k \in q..(Top(i, l)' - 1) : Has(Line', i, k, l)
      BY <2>8, <3>3
    <3>5. q <= Top(i, l)' /\ (i = cmd.id => q <= next)
      BY <1>1, <1>5, <3>3 DEF Top
    <3>6. \A d, k, n \in Nat : Has(Line', d, k, n) => i < d \/ (d = i /\ k >= q /\ n = l)
      BY <1>1, <2>3, <2>4, <3>3, <3>5
    <3>7. RxId' = i /\ rx'.seq = q /\ rx'.len = l /\ rx' = rx
      BY <1>1, <1>2, <3>2
    <3>8. Top(RxId, rx.len)' = Top(i, l)'
      BY <3>7 DEF Top
    <3>9. /\ RxId' \in Nat /\ handled' < RxId' /\ RxId' <= cmd'.id
          /\ rx'.seq \in Nat /\ rx'.len \in Nat /\ rx'.seq < rx'.len
          /\ RxId' = cmd'.id => rx'.len = cmd'.len
          /\ rx'.data = Chunks(RxId', rx'.seq)
      BY <1>1, <1>2, <3>1, <3>7
    <3>10. /\ rx'.seq <= Top(RxId, rx.len)'
           /\ \A d, k, n \in Nat : Has(Line', d, k, n) => RxId' < d \/ (d = RxId' /\ k >= rx'.seq /\ n = rx'.len)
      BY <3>5, <3>6, <3>7, <3>8
    <3>11. \A k \in rx'.seq..(Top(RxId, rx.len)' - 1) : Has(Line', RxId', k, rx'.len)
      BY <3>4, <3>7, <3>8
    <3>. QED
      BY <3>9, <3>10, <3>11 DEF ReceiveInv
  <2>11. NoLossInv'
    <3>. SUFFICES ASSUME restarts = 0 PROVE NoLossInv'
      BY <1>1 DEF NoLossInv
    <3>1. 0 \in Nat /\ \A d, n \in Nat : Begun(d, n) => Begun(d, n)'
      BY <1>1, <1>2, <2>3 DEF Begun
    <3>2. Begun(cmd.id, cmd.len)'
      <4>1. CASE next = 0
        <5>1. Has(Line', cmd.id, 0, cmd.len)
          BY <1>1, <2>3, <2>4, <3>1, <4>1
        <5>. QED
          BY <1>1, <5>1 DEF Begun
      <4>2. CASE next # 0
        <5>1. Begun(cmd.id, cmd.len)
          BY <1>1, <1>5, <4>2 DEF ApduInv, NoLossInv
        <5>2. CASE Has(Line, cmd.id, 0, cmd.len)
          BY <1>1, <2>3, <3>1, <5>2 DEF Begun
        <5>3. CASE rx.seq # 0 /\ RxId = cmd.id
          BY <1>1, <1>2, <5>3 DEF Begun
        <5>. QED
          BY <5>1, <5>2, <5>3 DEF Begun
      <4>. QED
        BY <4>1, <4>2
    <3>3. ASSUME NEW d \in Nat, NEW k \in Nat, NEW n \in Nat, Has(Line', d, k, n) PROVE Begun(d, n)'
      <4>1. CASE Has(Line, d, k, n)
        BY <3>1, <4>1 DEF ApduInv, NoLossInv
      <4>2. CASE Is(x, d, k, n)
        <5>1. d = cmd.id /\ n = cmd.len
          BY <2>4, <4>2
        <5>. QED
          BY <1>1, <3>2, <5>1 DEF Begun
      <4>. QED
        BY <2>3, <3>3, <4>1, <4>2
    <3>. QED
      BY <3>2, <3>3 DEF NoLossInv
  <2>12. OwnInv'
    <3>. SUFFICES ASSUME ~late PROVE OwnInv'
      BY <1>1 DEF OwnInv
    <3>1. Pending' /\ Pending /\ answer = <<>>
      BY <1>1, <1>5 DEF Pending, MainIdle
    <3>2. \A d, k, n \in Nat : Has(Line', d, k, n) => d = cmd.id
      BY <2>3, <2>4 DEF ApduInv, OwnInv
    <3>. QED
      BY <1>1, <1>2, <2>3, <3>1, <3>2 DEF ApduInv, OwnInv
  <2>. QED
    BY <1>3, <2>9, <2>10, <2>11, <2>12 DEF ApduInv
<1>. QED
  BY <1>4, <1>5, ChunkStep

\* Nothing is on its way when a client gives up in time.
LEMMA TimeoutApdu ==
  ASSUME TypeInv, ThreadsInv, ApduInv, Timeout
  PROVE  ApduInv'
<1>1. /\ host = "waiting" /\ host' = "failed" /\ Line' = Line
      /\ UNCHANGED <<cmd, next, hid, answer, raised, toMcu, dev, rx, tx, busy, apdu, handled, cut, restarts>>
      /\ ~late' => ~late /\ Dead
  BY TimeoutStep DEF Timeout, mcuVars, devVars
<1>2. CommandInv' /\ ReceiveInv' /\ NoLossInv'
  BY <1>1, SameCommands DEF ApduInv, CommandInv
<1>3. ResponseInv' /\ Transmitting' = Transmitting
  BY <1>1 DEF ApduInv, ResponseInv, Transmitting
<1>4. OwnInv'
  <2>. SUFFICES ASSUME ~late' PROVE OwnInv'
    BY DEF OwnInv
  <2>1. ~late /\ apdu = {} /\ MainIdle /\ packets = <<>> /\ toMcu = <<>> /\ \A i \in DOMAIN toApp : toApp[i].tag = "OTHER"
    BY <1>1 DEF Dead
  <2>2. Line = toApp
    <3>1. Posting(out["main"]) = <<>> /\ Posting(out["sender"]) = <<>> /\ flush = <<>>
      BY <1>1, <2>1, IdleHolds DEF MainIdle, ThreadsInv
    <3>2. Line = Queue(toApp, <<>>, <<>>, <<>>, <<>>)
      BY <2>1, <3>1 DEF Line
    <3>. QED
      BY <3>2, Nil, EmptyLine DEF Queue, TypeInv
  <2>3. (\A d, k, n \in Nat : ~Has(Line, d, k, n)) /\ ~HasIn(Line) /\ (\A c : ~Prepared(toMcu, c)) /\ answer = <<>>
    BY <2>1, <2>2 DEF Has, HasIn, Prepared, Prep, MainIdle
  <2>4. ~Transmitting
    <3>1. Transmitting => dev = "CONFIGURED" /\ busy
      BY DEF ApduInv, ResponseInv, Transmitting
    <3>. QED
      BY <2>1, <2>3, <3>1 DEF ApduInv, OwnInv
  <2>. QED
    BY <1>1, <1>3, <2>1, <2>3, <2>4 DEF ApduInv, OwnInv
<1>. QED
  BY <1>2, <1>3, <1>4 DEF ApduInv

LEMMA AnswerApdu ==
  ASSUME TypeInv, ThreadsInv, ApduInv, Answer
  PROVE  ApduInv'
<1>1. /\ answer # <<>> /\ answer' = <<>> /\ Line' = Line
      /\ UNCHANGED <<cmd, next, late, hid, raised, toMcu, dev, rx, tx, busy, apdu, handled, cut, restarts>>
      /\ handled \in Nat
  BY AnswerStep DEF Answer, devVars, TypeInv
<1>2. CommandInv' /\ ReceiveInv' /\ NoLossInv'
  BY <1>1, SameCommands DEF ApduInv, CommandInv
<1>3. ResponseInv'
  <2>1. handled <= handled'
    BY <1>1
  <2>. QED
    BY <1>1, <2>1, SameResponses, SelfPrep DEF ApduInv
<1>4. OwnInv'
  <2>. SUFFICES ASSUME ~late PROVE OwnInv'
    BY <1>1 DEF OwnInv
  <2>1. handled = cmd.id /\ apdu = {} /\ ~Transmitting
    BY <1>1 DEF ApduInv, OwnInv
  <2>2. (\A d, k, n \in Nat : ~Has(Line, d, k, n)) /\ (\A c : ~Prepared(toMcu, c))
    <3>1. \A d, k, n \in Nat : Has(Line, d, k, n) => handled < d /\ d = cmd.id
      BY DEF ApduInv, OwnInv, CommandInv
    <3>2. \A c : ~Prepared(toMcu, c)
      BY <1>1 DEF ApduInv, OwnInv
    <3>. QED
      BY <2>1, <3>1, <3>2
  <2>3. ~Transmitting'
    BY <1>1, <2>1 DEF Transmitting
  <2>. QED
    BY <1>1, <2>1, <2>2, <2>3 DEF ApduInv, OwnInv
<1>. QED
  BY <1>2, <1>3, <1>4 DEF ApduInv

\* What _prepare makes of the next chunk of the response.
LEMMA Reassembled ==
  ASSUME SameThread, TypeInv, ThreadsInv, ResponseInv, Prepare, ~cut
  PROVE  LET c == Head(toMcu) IN
         /\ c.seq \in Nat /\ c.len \in Nat /\ c.seq < c.len
         /\ IF c.seq + 1 = c.len THEN hid' = Fresh /\ answer' = Chunks(c.id, c.len) /\ Len(answer') = c.len
            ELSE /\ hid' = [seq |-> c.seq + 1, len |-> c.len, data |-> Chunks(c.id, c.seq + 1)]
                 /\ answer' = answer
<1>. DEFINE c == Head(toMcu)
            h == IF c.seq = 0 THEN [Fresh EXCEPT !.len = c.len] ELSE hid
            data == IF Len(h.data) < h.len THEN Append(h.data, <<c.id, c.seq>>) ELSE h.data
<1>1. /\ c.seq = 0 \/ c.seq = hid.seq
      /\ toMcu \in Seq(PacketSet) /\ toMcu # <<>> /\ c.tag = "PREPARE_IN"
  BY PrepareStep DEF TypeInv
<1>2. IF Len(data) = h.len THEN hid' = Fresh /\ answer' = data
      ELSE hid' = [seq |-> h.seq + 1, len |-> h.len, data |-> data] /\ answer' = answer
  BY <1>1 DEF Prepare
<1>3. c \in PacketSet /\ c.seq < c.len /\ (c.seq = 0 \/ At(hid, c))
  BY <1>1, FirstPrepared DEF ResponseInv
<1>4. c.seq \in Nat /\ c.len \in Nat
  BY <1>3 DEF PacketSet
<1>. HIDE DEF c
<1>5. h.seq = c.seq /\ h.len = c.len /\ h.data = Chunks(c.id, c.seq)
  <2>1. CASE c.seq = 0
    <3>1. Chunks(c.id, 0) = <<>>
      BY DEF Chunks
    <3>. QED
      BY <2>1, <3>1 DEF Fresh
  <2>2. CASE c.seq # 0
    BY <1>3, <2>2 DEF At
  <2>. QED
    BY <2>1, <2>2
<1>. HIDE DEF h
<1>6. data = Chunks(c.id, c.seq + 1) /\ Len(data) = c.seq + 1
  <2>1. Len(h.data) = c.seq /\ Append(h.data, <<c.id, c.seq>>) = Chunks(c.id, c.seq + 1)
    <3>1. /\ Len(Chunks(c.id, c.seq)) = c.seq
          /\ Append(Chunks(c.id, c.seq), <<c.id, c.seq>>) = Chunks(c.id, c.seq + 1)
      BY <1>4, ChunksGrow
    <3>. QED
      BY <1>5, <3>1
  <2>2. c.seq + 1 \in Nat
    BY <1>4
  <2>3. Len(Chunks(c.id, c.seq + 1)) = c.seq + 1
    BY <2>2, ChunksGrow
  <2>. QED
    BY <1>3, <1>4, <1>5, <2>1, <2>3
<1>. HIDE DEF data
<1>. QED
  BY <1>2, <1>3, <1>4, <1>5, <1>6 DEF c

LEMMA PrepareApdu ==
  ASSUME SameThread, TypeInv, ThreadsInv, ApduInv, Prepare
  PROVE  ApduInv'
<1>. DEFINE c == Head(toMcu)
<1>1. /\ host # "sending" /\ answer = <<>> /\ toMcu # <<>> /\ c.tag = "PREPARE_IN" /\ toMcu' = Tail(toMcu)
      /\ UNCHANGED <<host, cmd, next, late, dev, rx, tx, busy, apdu, handled, cut, restarts>>
      /\ \/ cut /\ Line' = Line
         \/ Line' = Append(Line, Plain("IN")) /\ raised' = raised
  BY PrepareStep DEF ApduInv, hostVars, devVars
<1>2. /\ toMcu \in Seq(PacketSet) /\ Prepared(toMcu, c) /\ (\A d : Prepared(toMcu', d) => Prepared(toMcu, d))
      /\ OnePrep(toMcu) => OnePrep(toMcu') /\ \A d : ~Prepared(toMcu', d)
  BY <1>1, TailMcu DEF TypeInv
<1>3. Line \in Seq(PacketSet) /\ Plain("IN") \in PacketSet /\ Plain("IN").tag = "IN"
  BY LineTyped, PlainTyped DEF Tags, EventTags
<1>4. Ordered(Line') /\ \A d, k, n \in Nat : Has(Line', d, k, n) <=> Has(Line, d, k, n)
  <2>1. Ordered(Line)
    BY DEF ApduInv, CommandInv
  <2>2. Ordered(Append(Line, Plain("IN"))) /\ \A d, k, n \in Nat : Has(Append(Line, Plain("IN")), d, k, n) <=> Has(Line, d, k, n)
    BY <1>3, <2>1, AppendLine DEF Is
  <2>. QED
    BY <1>1, <2>1, <2>2
<1>5. CommandInv' /\ ReceiveInv' /\ NoLossInv'
  BY <1>1, <1>4, SameCommands DEF ApduInv
<1>6. ~cut => Line' = Append(Line, Plain("IN")) /\ raised' = raised
  BY <1>1
<1>7. ~cut => /\ c.seq \in Nat /\ c.len \in Nat /\ c.seq < c.len
              /\ IF c.seq + 1 = c.len THEN hid' = Fresh /\ answer' = Chunks(c.id, c.len) /\ Len(answer') = c.len
                 ELSE /\ hid' = [seq |-> c.seq + 1, len |-> c.len, data |-> Chunks(c.id, c.seq + 1)]
                      /\ answer' = answer
  BY Reassembled DEF ApduInv
<1>8. c.id \in 1..handled /\ Transmitting' = Transmitting
  BY <1>1, <1>2 DEF ApduInv, ResponseInv, Transmitting
<1>9. ~cut => /\ Chain(hid', toMcu') /\ (Transmitting => Expects(hid', toMcu', tx))
  <2>. SUFFICES ASSUME ~cut PROVE Chain(hid', toMcu') /\ (Transmitting => Expects(hid', toMcu', tx))
    OBVIOUS
  <2>1. ASSUME NEW d, Follows(c, d), d.seq \in Nat, d.len \in Nat, d.seq < d.len PROVE At(hid', d)
    <3>1. d.id = c.id /\ d.seq = c.seq + 1 /\ d.len = c.len /\ c.seq + 1 # c.len
      BY <1>7, <2>1 DEF Follows
    <3>2. hid' = [seq |-> c.seq + 1, len |-> c.len, data |-> Chunks(c.id, c.seq + 1)]
      BY <1>7, <3>1
    <3>. HIDE DEF c
    <3>. QED
      BY <3>1, <3>2 DEF At
  <2>2. Chain(hid, toMcu) /\ (Transmitting => Expects(hid, toMcu, tx) /\ tx.seq \in Nat \ {0} /\ tx.len \in Nat /\ tx.seq < tx.len)
    BY DEF ApduInv, ResponseInv
  <2>3. \A d : Follows(Head(toMcu), d) /\ d.seq \in Nat /\ d.len \in Nat /\ d.seq < d.len => At(hid', d)
    BY <2>1
  <2>. DEFINE g == hid'
  <2>4. \A d : Follows(Head(toMcu), d) /\ d.seq \in Nat /\ d.len \in Nat /\ d.seq < d.len => At(g, d)
    BY <2>3
  <2>. HIDE DEF g
  <2>5. /\ Chain(g, Tail(toMcu))
        /\ \A d : Expects(hid, toMcu, d) /\ d.seq \in Nat \ {0} /\ d.len \in Nat /\ d.seq < d.len => Expects(g, Tail(toMcu), d)
    BY <1>1, <1>2, <2>2, <2>4, TakeChunk
  <2>. QED
    BY <1>1, <2>2, <2>5 DEF g
<1>10. ~cut /\ answer' # <<>> => answer' = Chunks(c.id, Len(answer')) /\ c.seq + 1 = c.len /\ hid' = Fresh
  BY <1>1, <1>7
<1>. HIDE DEF c
<1>11. ResponseInv'
  BY <1>1, <1>2, <1>6, <1>8, <1>9, <1>10 DEF ApduInv, ResponseInv
<1>12. OwnInv'
  <2>. SUFFICES ASSUME ~late PROVE OwnInv'
    BY <1>1 DEF OwnInv
  <2>1. /\ ~cut /\ InFirst(Line) /\ Pending /\ handled = cmd.id /\ apdu = {} /\ ~HasIn(Line) /\ c.id = cmd.id
        /\ OnePrep(toMcu)
    BY <1>2 DEF ApduInv, OwnInv
  <2>2. host = "waiting" /\ Pending'
    BY <1>1, <2>1 DEF Pending
  <2>3. OnePrep(toMcu') /\ \A d : ~Prepared(toMcu', d)
    BY <1>2, <2>1
  <2>4. \A d, k, n \in Nat : ~Has(Line, d, k, n)
    <3>1. \A d, k, n \in Nat : Has(Line, d, k, n) => handled < d /\ d = cmd.id
      BY DEF ApduInv, OwnInv, CommandInv
    <3>. QED
      BY <2>1, <3>1
  <2>5. InFirst(Line') /\ HasIn(Line')
    BY <1>3, <1>6, <2>1, <2>4, AppendLine
  <2>6. answer' # <<>> => ~Transmitting
    <3>. SUFFICES ASSUME answer' # <<>>, Transmitting PROVE FALSE
      OBVIOUS
    <3>1. Expects(hid', toMcu', tx) /\ hid' = Fresh /\ tx.seq # 0
      BY <1>9, <1>10, <2>1 DEF ApduInv, ResponseInv
    <3>2. At(hid', tx)
      BY <2>3, <3>1, NoneBetween
    <3>. QED
      BY <3>1, <3>2 DEF At, Fresh
  <2>7. \A d, k, n \in Nat : ~Has(Line', d, k, n)
    BY <1>4, <2>4
  <2>8. Transmitting => tx.id = cmd.id
    BY DEF ApduInv, OwnInv
  <2>. QED
    BY <1>1, <1>8, <1>10, <2>1, <2>2, <2>3, <2>5, <2>6, <2>7, <2>8 DEF OwnInv
<1>. QED
  BY <1>5, <1>11, <1>12 DEF ApduInv

-----------------------------------------------------------------------------
(* The device.                                                             *)

LEMMA DeviceTyped ==
  ASSUME TypeInv, UNCHANGED <<hostVars, mcuVars>>, restarts' \in Nat,
         toApp' \in Seq(PacketSet), toMcu' \in Seq(PacketSet),
         dev' \in {"DEFAULT", "ADDRESSED", "CONFIGURED"},
         handled' \in Nat, apdu' \in SUBSET (1..handled'), cut' \in BOOLEAN
  PROVE  TypeInv'
  BY DEF TypeInv, hostVars, mcuVars

\* SET_ADDRESS and SET_CONFIGURATION, ticks and buttons.
LEMMA SetupApdu ==
  ASSUME TypeInv, ThreadsInv, ApduInv, BootInv, USBD_SetAddress \/ USBD_SetConfig \/ ReceiveOther
  PROVE  TypeInv' /\ ThreadsInv' /\ ApduInv'
<1>1. PICK tag \in {"SET_ADDRESS", "SET_CONFIGURATION", "OTHER"} : Receive(tag)
  BY DEF USBD_SetAddress, USBD_SetConfig, ReceiveOther
<1>2. /\ ThreadsInv' /\ toApp' \in Seq(PacketSet) /\ SameLine(Line, Line') /\ UNCHANGED <<hostVars, mcuVars, cut, restarts>>
  BY <1>1, ReceiveStep DEF Receive, Transfers
<1>3. /\ dev' \in {"DEFAULT", "ADDRESSED", "CONFIGURED"} /\ UNCHANGED <<apdu, handled>>
      /\ \/ UNCHANGED <<rx, tx, busy>> /\ (dev' = dev \/ dev' # "CONFIGURED")
         \/ rx' = Fresh /\ tx' = NoTx /\ busy' = FALSE /\ (restarts = 0 => rx.seq = 0)
  BY DEF USBD_SetAddress, USBD_SetConfig, ReceiveOther, TypeInv, BootInv
<1>4. PICK x \in {Plain("ADDR"), Plain("ENDPOINTS")} : toMcu' = toMcu \/ toMcu' = Append(toMcu, x)
  BY DEF USBD_SetAddress, USBD_SetConfig, ReceiveOther
<1>5. toMcu' \in Seq(PacketSet) /\ SamePrep(toMcu, toMcu')
  <2>1. x \in PacketSet /\ x.tag # "PREPARE_IN" /\ toMcu \in Seq(PacketSet)
    BY PlainTyped DEF Tags, ConfigTags, TypeInv
  <2>2. Append(toMcu, x) \in Seq(PacketSet) /\ SamePrep(toMcu, Append(toMcu, x))
    BY <2>1, AppendMcu
  <2>3. SamePrep(toMcu, toMcu)
    BY SelfPrep
  <2>. QED
    BY <1>4, <2>1, <2>2, <2>3
<1>6. TypeInv'
  BY <1>2, <1>3, <1>5, DeviceTyped DEF TypeInv
<1>7. ApduInv'
  BY <1>2, <1>3, <1>5, Quiet DEF mcuVars
<1>. QED
  BY <1>2, <1>6, <1>7

LEMMA RestartApdu ==
  ASSUME TypeInv, ThreadsInv, ApduInv, Restart
  PROVE  TypeInv' /\ ThreadsInv' /\ ApduInv'
<1>1. /\ UNCHANGED <<hostVars, mcuVars, toApp, rx, tx, busy, apdu, handled, cut>>
      /\ dev' = dev \/ dev' = "DEFAULT"
      /\ restarts' = restarts + 1 /\ restarts \in Nat
      /\ toMcu' = toMcu \o <<Plain("DISCONNECT"), Plain("ADDR"), Plain("CONNECT")>>
  BY DEF Restart, TypeInv
<1>. DEFINE a == Plain("DISCONNECT")
            b == Plain("ADDR")
            d == Plain("CONNECT")
<1>2. /\ a \in PacketSet /\ b \in PacketSet /\ d \in PacketSet /\ toMcu \in Seq(PacketSet)
      /\ a.tag # "PREPARE_IN" /\ b.tag # "PREPARE_IN" /\ d.tag # "PREPARE_IN"
  BY PlainTyped DEF Tags, ConfigTags, TypeInv
<1>. HIDE DEF a, b, d
<1>3. toMcu' \in Seq(PacketSet) /\ toMcu' = Append(Append(Append(toMcu, a), b), d)
  <2>1. toMcu \o <<a, b, d>> = Append(Append(Append(toMcu, a), b), d) /\ toMcu \o <<a, b, d>> \in Seq(PacketSet)
    BY <1>2
  <2>. QED
    BY <1>1, <2>1 DEF a, b, d
<1>4. SamePrep(toMcu, toMcu')
  <2>1. Append(toMcu, a) \in Seq(PacketSet) /\ SamePrep(toMcu, Append(toMcu, a))
    BY <1>2, AppendMcu
  <2>2. /\ Append(Append(toMcu, a), b) \in Seq(PacketSet)
        /\ SamePrep(Append(toMcu, a), Append(Append(toMcu, a), b))
    BY <1>2, <2>1, AppendMcu
  <2>3. SamePrep(Append(Append(toMcu, a), b), Append(Append(Append(toMcu, a), b), d))
    BY <1>2, <2>2, AppendMcu
  <2>. QED
    BY <1>3, <2>1, <2>2, <2>3, SamePrepTrans
<1>5. ThreadsInv' /\ Line' = Line
  BY <1>1 DEF ThreadsInv, ThreadOk, MainIdle, hostVars, mcuVars, Line
<1>6. TypeInv'
  BY <1>1, <1>3, DeviceTyped DEF TypeInv
<1>7. SameLine(Line, Line') /\ (restarts' = 0 => restarts = 0)
  <2>1. SameLine(Line, Line)
    BY SelfLine
  <2>. QED
    BY <1>1, <1>5, <2>1
<1>8. /\ UNCHANGED <<hostVars, hid, answer, raised, apdu, handled, cut>>
      /\ UNCHANGED <<rx, tx, busy>> /\ (dev' = dev \/ dev' # "CONFIGURED")
  BY <1>1 DEF mcuVars
<1>9. ApduInv'
  BY <1>4, <1>7, <1>8, Quiet
<1>. QED
  BY <1>5, <1>6, <1>9

\* The acknowledgement of a chunk: the class sends the next one.
LEMMA InApdu ==
  ASSUME TypeInv, ThreadsInv, ApduInv, USBD_LEDGER_HID_data_in
  PROVE  TypeInv' /\ ThreadsInv' /\ ApduInv'
<1>1. /\ ThreadsInv' /\ toApp' \in Seq(PacketSet) /\ Line # <<>> /\ Head(Line).tag = "IN" /\ Line' = Tail(Line)
      /\ UNCHANGED <<hostVars, mcuVars, cut, restarts>> /\ UNCHANGED <<dev, rx, apdu, handled>>
      /\ Line \in Seq(PacketSet)
  BY ReceiveStep, LineTyped DEF Receive, USBD_LEDGER_HID_data_in
<1>2. /\ UNCHANGED <<host, cmd, next, late, hid, answer, raised>> /\ Pending' = Pending
      /\ handled \in Nat /\ toMcu \in Seq(PacketSet) /\ Ordered(Line)
  BY <1>1 DEF hostVars, mcuVars, Pending, TypeInv, ApduInv, CommandInv
<1>3. /\ HasIn(Line) /\ (InFirst(Line) => InFirst(Line') /\ ~HasIn(Line')) /\ (HasIn(Line') => HasIn(Line)) /\ Ordered(Line')
      /\ \A d, k, n \in Nat : Has(Line', d, k, n) <=> Has(Line, d, k, n)
  BY <1>1, <1>2, TailLine, HeadLine DEF Is
<1>4. CommandInv' /\ ReceiveInv' /\ NoLossInv'
  BY <1>1, <1>2, <1>3, SameCommands DEF ApduInv
<1>5. toMcu' \in Seq(PacketSet) /\ ResponseInv' /\ OwnInv'
  <2>1. CASE ~Transmitting
    <3>1. UNCHANGED <<tx, toMcu>> /\ (dev # "CONFIGURED" \/ busy' = FALSE)
      BY <2>1 DEF USBD_LEDGER_HID_data_in, Transmitting
    <3>2. toMcu' \in Seq(PacketSet) /\ ~Transmitting' /\ ~(dev' = "CONFIGURED" /\ busy')
      BY <1>1, <1>2, <2>1, <3>1 DEF Transmitting
    <3>3. ResponseInv'
      BY <1>1, <1>2, <3>1, <3>2 DEF ApduInv, ResponseInv
    <3>4. OwnInv'
      BY <1>1, <1>2, <1>3, <3>1, <3>2 DEF ApduInv, OwnInv
    <3>. QED
      BY <3>2, <3>3, <3>4
  <2>2. CASE Transmitting
    <3>1. tx' = AfterChunk(tx) /\ busy' = (tx' # NoTx) /\ toMcu' = Append(toMcu, Chunk(tx)) /\ dev = "CONFIGURED"
      BY <2>2 DEF USBD_LEDGER_HID_data_in, Transmitting
    <3>2. /\ tx = [id |-> tx.id, seq |-> tx.seq, len |-> tx.len]
          /\ tx.id \in 1..handled /\ tx.seq \in Nat \ {0} /\ tx.len \in Nat /\ tx.seq < tx.len
          /\ ~cut => ~raised /\ Chain(hid, toMcu) /\ Expects(hid, toMcu, tx)
      BY <2>2 DEF ApduInv, ResponseInv
    <3>. DEFINE p == Chunk(tx)
    <3>3. p \in PacketSet /\ p.tag = "PREPARE_IN" /\ p.id = tx.id /\ p.seq = tx.seq /\ p.len = tx.len
      <4>1. tx.id \in Nat
        BY <3>2
      <4>. QED
        BY <3>2, <4>1 DEF Chunk, Packet, PacketSet, Tags
    <3>. HIDE DEF p
    <3>4. Expects(hid, toMcu, tx) => Expects(hid, toMcu, p)
      BY <3>3 DEF Expects, Linked, At
    <3>5. /\ toMcu' \in Seq(PacketSet) /\ (\A c : Prepared(toMcu', c) => Prepared(toMcu, c) \/ c = p)
          /\ (\A c : ~Prepared(toMcu, c)) => OnePrep(toMcu')
          /\ Prepared(toMcu', p)
          /\ Chain(hid, toMcu) /\ Expects(hid, toMcu, p) => Chain(hid, toMcu')
          /\ \A c : Follows(p, c) => Expects(hid, toMcu', c)
      <4>1. toMcu' = Append(toMcu, p) /\ p.seq < p.len
        BY <3>1, <3>2, <3>3 DEF p
      <4>. QED
        BY <1>2, <3>3, <4>1, AppendMcu
    <3>6. tx' # NoTx => tx' = [id |-> tx.id, seq |-> tx.seq + 1, len |-> tx.len] /\ tx.seq + 1 < tx.len
      BY <3>1, <3>2 DEF AfterChunk
    <3>7. tx' # NoTx => /\ tx'.id = tx.id /\ tx'.seq = tx.seq + 1 /\ tx'.len = tx.len /\ tx'.seq \in Nat \ {0}
                        /\ tx'.seq < tx'.len /\ tx' = [id |-> tx'.id, seq |-> tx'.seq, len |-> tx'.len]
                        /\ Follows(p, tx')
      BY <3>2, <3>3, <3>6 DEF Follows
    <3>8. Transmitting' => tx' # NoTx
      BY DEF Transmitting
    <3>9. ResponseInv'
      <4>1. \A c : Prepared(toMcu', c) => c.id \in 1..handled
        BY <3>2, <3>3, <3>5 DEF ApduInv, ResponseInv
      <4>2. Transmitting' => /\ tx' = [id |-> tx'.id, seq |-> tx'.seq, len |-> tx'.len]
                             /\ tx'.id \in 1..handled /\ tx'.seq \in Nat \ {0} /\ tx'.len \in Nat
                             /\ tx'.seq < tx'.len /\ busy' /\ Expects(hid, toMcu', tx')
        BY <3>1, <3>2, <3>5, <3>7, <3>8
      <4>3. ~cut => ~raised /\ Chain(hid, toMcu') /\ (answer # <<>> => \E d \in 1..handled : answer = Chunks(d, Len(answer)))
        BY <3>2, <3>4, <3>5 DEF ApduInv, ResponseInv
      <4>. QED
        BY <1>1, <1>2, <4>1, <4>2, <4>3 DEF ResponseInv
    <3>10. OwnInv'
      <4>. SUFFICES ASSUME ~late PROVE OwnInv'
        BY <1>2 DEF OwnInv
      <4>1. /\ (\A c : ~Prepared(toMcu, c)) /\ apdu = {} /\ Pending /\ handled = cmd.id /\ tx.id = cmd.id
            /\ answer = <<>> /\ ~cut /\ InFirst(Line)
        BY <1>3, <2>2 DEF ApduInv, OwnInv
      <4>2. OnePrep(toMcu') /\ (\A c : Prepared(toMcu', c) => c.id = cmd.id) /\ ~HasIn(Line') /\ InFirst(Line')
        BY <1>3, <3>3, <3>5, <4>1
      <4>3. \A d, k, n \in Nat : Has(Line', d, k, n) => d = cmd.id
        BY <1>3 DEF ApduInv, OwnInv
      <4>. QED
        BY <1>1, <1>2, <3>5, <3>7, <3>8, <4>1, <4>2, <4>3 DEF OwnInv
    <3>. QED
      BY <3>5, <3>9, <3>10
  <2>. QED
    BY <2>1, <2>2
<1>6. TypeInv'
  <2>1. restarts' \in Nat /\ dev' \in {"DEFAULT", "ADDRESSED", "CONFIGURED"} /\ handled' \in Nat
        /\ apdu' \in SUBSET (1..handled') /\ cut' \in BOOLEAN
    BY <1>1 DEF TypeInv
  <2>. QED
    BY <1>1, <1>5, <2>1, DeviceTyped
<1>. QED
  BY <1>1, <1>4, <1>5, <1>6 DEF ApduInv

\* The application answers: the first chunk of the response.
LEMMA RespondApdu ==
  ASSUME TypeInv, ThreadsInv, ApduInv, Respond
  PROVE  TypeInv' /\ ThreadsInv' /\ ApduInv'
<1>1. PICK id \in apdu, n \in RspChunks :
        LET t == [id |-> id, seq |-> 0, len |-> n]
            sent == dev = "CONFIGURED" /\ ~busy
        IN /\ tx' = AfterChunk(t) /\ busy' = (busy \/ sent)
           /\ toMcu' = IF sent THEN Append(toMcu, Chunk(t)) ELSE toMcu
           /\ cut' = (cut \/ (dev = "CONFIGURED" /\ busy))
           /\ apdu' = apdu \ {id}
  BY DEF Respond
<1>2. /\ UNCHANGED <<hostVars, mcuVars, toApp, dev, rx, handled, restarts>>
      /\ n \in Nat /\ n # 0 /\ handled \in Nat /\ id \in 1..handled /\ apdu # {} /\ apdu' \in SUBSET (1..handled)
      /\ toMcu \in Seq(PacketSet)
  BY <1>1, ChunksAssumption DEF Respond, TypeInv
<1>3. ~late => /\ apdu = {cmd.id} /\ id = cmd.id /\ apdu' = {} /\ handled = cmd.id /\ Pending
               /\ ~HasIn(Line) /\ (\A c : ~Prepared(toMcu, c))
               /\ answer = <<>> /\ ~(dev = "CONFIGURED" /\ busy) /\ ~cut /\ InFirst(Line)
  BY <1>1, <1>2 DEF ApduInv, OwnInv
<1>4. /\ UNCHANGED <<host, cmd, next, late, hid, answer, raised>> /\ Pending' = Pending /\ ThreadsInv' /\ Line' = Line
  BY <1>2 DEF hostVars, mcuVars, Pending, ThreadsInv, ThreadOk, MainIdle, Line
<1>5. CommandInv' /\ ReceiveInv' /\ NoLossInv'
  BY <1>2, <1>4, SameCommands DEF ApduInv, CommandInv
<1>6. ~late => \A d, k, l \in Nat : Has(Line', d, k, l) => d = cmd.id
  BY <1>4 DEF ApduInv, OwnInv
<1>. DEFINE t == [id |-> id, seq |-> 0, len |-> n]
            p == Chunk(t)
<1>7. tx' = AfterChunk(t)
  BY <1>1
<1>8. p \in PacketSet /\ p.tag = "PREPARE_IN" /\ p.id = id /\ p.seq = 0 /\ p.len = n
  BY <1>2 DEF Chunk, Packet, PacketSet, Tags
<1>9. tx' # NoTx => tx' = [id |-> id, seq |-> 1, len |-> n] /\ 1 < n /\ Follows(p, tx')
  <2>1. tx' # NoTx => tx' = [id |-> id, seq |-> 1, len |-> n] /\ 1 < n
    BY <1>2, <1>7 DEF AfterChunk
  <2>. HIDE DEF p
  <2>. QED
    BY <1>8, <2>1 DEF Follows
<1>10. tx' # NoTx => /\ tx' = [id |-> tx'.id, seq |-> tx'.seq, len |-> tx'.len]
                     /\ tx'.id \in 1..handled /\ tx'.seq \in Nat \ {0} /\ tx'.len \in Nat
                     /\ tx'.seq < tx'.len /\ tx'.id = id
  BY <1>2, <1>9
<1>11. toMcu' \in Seq(PacketSet) /\ cut' \in BOOLEAN /\ ResponseInv' /\ OwnInv'
  <2>1. CASE dev # "CONFIGURED"
    <3>1. toMcu' = toMcu /\ cut' = cut /\ toMcu' \in Seq(PacketSet) /\ cut' \in BOOLEAN
      BY <1>1, <1>2, <2>1 DEF TypeInv
    <3>2. ~Transmitting'
      BY <1>2, <2>1 DEF Transmitting
    <3>3. ResponseInv'
      BY <1>2, <1>4, <3>1, <3>2 DEF ApduInv, ResponseInv
    <3>4. OwnInv'
      BY <1>2, <1>3, <1>4, <1>6, <2>1, <3>1, <3>2 DEF OwnInv, OnePrep, Prepared
    <3>. QED
      BY <3>1, <3>3, <3>4
  <2>2. CASE dev = "CONFIGURED" /\ busy
    <3>1. toMcu' = toMcu /\ cut' /\ busy' /\ toMcu' \in Seq(PacketSet) /\ cut' \in BOOLEAN
      BY <1>1, <1>2, <2>2 DEF TypeInv
    <3>2. ResponseInv'
      <4>1. Transmitting' => tx' # NoTx
        BY DEF Transmitting
      <4>. QED
        BY <1>2, <1>10, <3>1, <4>1 DEF ApduInv, ResponseInv
    <3>3. OwnInv'
      BY <1>3, <1>4, <2>2 DEF OwnInv
    <3>. QED
      BY <3>1, <3>2, <3>3
  <2>3. CASE dev = "CONFIGURED" /\ ~busy
    <3>1. busy' = TRUE /\ toMcu' = Append(toMcu, p) /\ cut' = cut /\ cut' \in BOOLEAN
      BY <1>1, <2>3 DEF TypeInv
    <3>. HIDE DEF t, p
    <3>2. /\ toMcu' \in Seq(PacketSet) /\ (\A c : Prepared(toMcu', c) => Prepared(toMcu, c) \/ c = p)
          /\ (\A c : ~Prepared(toMcu, c)) => OnePrep(toMcu')
          /\ Prepared(toMcu', p)
          /\ Chain(hid, toMcu) => Chain(hid, toMcu')
          /\ \A c : Follows(p, c) => Expects(hid, toMcu', c)
      <4>1. p.seq < p.len
        BY <1>2, <1>8
      <4>. QED
        BY <1>2, <1>8, <3>1, <4>1, AppendMcu
    <3>3. Transmitting' => tx' # NoTx
      BY DEF Transmitting
    <3>4. ResponseInv'
      <4>1. \A c : Prepared(toMcu', c) => c.id \in 1..handled
        BY <1>2, <1>8, <3>2 DEF ApduInv, ResponseInv
      <4>2. Transmitting' => /\ tx' = [id |-> tx'.id, seq |-> tx'.seq, len |-> tx'.len]
                             /\ tx'.id \in 1..handled /\ tx'.seq \in Nat \ {0} /\ tx'.len \in Nat
                             /\ tx'.seq < tx'.len /\ busy' /\ Expects(hid, toMcu', tx')
        BY <1>9, <1>10, <3>1, <3>2, <3>3
      <4>3. ~cut => ~raised /\ Chain(hid, toMcu') /\ (answer # <<>> => \E d \in 1..handled : answer = Chunks(d, Len(answer)))
        BY <3>2 DEF ApduInv, ResponseInv
      <4>. QED
        BY <1>2, <1>4, <3>1, <4>1, <4>2, <4>3 DEF ResponseInv
    <3>5. OwnInv'
      <4>. SUFFICES ASSUME ~late PROVE OwnInv'
        BY <1>4 DEF OwnInv
      <4>1. OnePrep(toMcu') /\ (\A c : Prepared(toMcu', c) => c.id = cmd.id)
        BY <1>3, <1>8, <3>2
      <4>2. Transmitting' => tx'.id = cmd.id
        BY <1>3, <1>10, <3>3
      <4>. QED
        BY <1>2, <1>3, <1>4, <1>6, <3>1, <3>2, <4>1, <4>2 DEF OwnInv
    <3>. QED
      BY <3>1, <3>2, <3>4, <3>5
  <2>. QED
    BY <2>1, <2>2, <2>3
<1>12. TypeInv'
  <2>1. restarts' \in Nat /\ dev' \in {"DEFAULT", "ADDRESSED", "CONFIGURED"} /\ handled' \in Nat
        /\ apdu' \in SUBSET (1..handled') /\ toApp' \in Seq(PacketSet)
    BY <1>2 DEF TypeInv
  <2>. QED
    BY <1>2, <1>11, <2>1, DeviceTyped
<1>. QED
  BY <1>4, <1>5, <1>11, <1>12 DEF ApduInv

\* Until the first restart, a chunk reaches a device that is configured.
LEMMA OutConfigured ==
  ASSUME TypeInv, BootInv, restarts = 0, toApp # <<>>, Head(toApp).tag = "OUT"
  PROVE  state = "CONFIGURED" /\ dev = "CONFIGURED"
<1>1. 1 \in DOMAIN toApp /\ toApp[1].tag = "OUT" /\ \A i \in DOMAIN toApp : i \in Nat /\ i >= 1
  BY DEF TypeInv
<1>2. ~AllNot(toApp, "OUT")
  BY <1>1 DEF AllNot
<1>3. state = "CONFIGURED"
  BY <1>2 DEF BootInv
<1>4. ASSUME NEW i \in DOMAIN toApp, toApp[i].tag = "SET_CONFIGURATION", \A j \in 1..(i - 1) : toApp[j].tag # "OUT"
      PROVE  FALSE
  <2>1. i # 1 /\ i \in Nat /\ i >= 1
    BY <1>1, <1>4
  <2>. QED
    BY <1>1, <1>4, <2>1
<1>. QED
  BY <1>2, <1>3, <1>4 DEF BootInv, Arriving

\* The chunk at the head of the line, and what is left in the line after it.
LEMMA OutHead ==
  ASSUME TypeInv, ThreadsInv, ApduInv, Receive("OUT"), NEW c, c = Head(toApp)
  PROVE  /\ c.id \in Nat /\ c.seq \in Nat /\ c.len \in Nat
         /\ handled < c.id /\ c.id <= cmd.id /\ c.seq < c.len
         /\ c.id = cmd.id => c.len = cmd.len /\ c.seq < next
         /\ Has(Line, c.id, c.seq, c.len)
         /\ \A m \in c.seq..(Top(c.id, c.len) - 1) : Has(Line, c.id, m, c.len)
         /\ \A d, k, n \in Nat : Has(Line, d, k, n) => c.id < d \/ (d = c.id /\ k >= c.seq /\ n = c.len)
         /\ \A d, k, n \in Nat : Has(Line', d, k, n) <=> Has(Line, d, k, n) /\ (c.id < d \/ k > c.seq)
         /\ Ordered(Line') /\ (InFirst(Line) => InFirst(Line') /\ ~HasIn(Line) /\ ~HasIn(Line'))
<1>1. /\ Line # <<>> /\ c = Head(Line) /\ c.tag = "OUT" /\ Line' = Tail(Line) /\ Line \in Seq(PacketSet)
      /\ Ordered(Line)
  BY ReceiveStep, LineTyped DEF ApduInv, CommandInv
<1>2. /\ c \in PacketSet /\ Has(Line, c.id, c.seq, c.len) /\ (InFirst(Line) => ~HasIn(Line))
      /\ \A d, k, n \in Nat : Has(Line, d, k, n) => Is(c, d, k, n) \/ Before(c.id, c.seq, d, k)
      /\ \A d, k, n \in Nat : Has(Line', d, k, n) => Before(c.id, c.seq, d, k)
  BY <1>1, HeadLine
<1>3. /\ Ordered(Line') /\ (InFirst(Line) => InFirst(Line')) /\ (HasIn(Line') => HasIn(Line))
      /\ \A d, k, n \in Nat : Has(Line', d, k, n) => Has(Line, d, k, n)
      /\ \A d, k, n \in Nat : Has(Line, d, k, n) => Has(Line', d, k, n) \/ Is(c, d, k, n)
  BY <1>1, TailLine
<1>4. c.id \in Nat /\ c.seq \in Nat /\ c.len \in Nat
  BY <1>2 DEF PacketSet
<1>5. /\ handled < c.id /\ c.id <= cmd.id /\ c.seq < c.len
      /\ c.id = cmd.id => c.len = cmd.len /\ c.seq < next
      /\ \A m \in c.seq..(Top(c.id, c.len) - 1) : Has(Line, c.id, m, c.len)
  BY <1>2, <1>4 DEF ApduInv, CommandInv
<1>6. ASSUME NEW d \in Nat, NEW k \in Nat, NEW n \in Nat, Has(Line, d, k, n)
      PROVE  c.id < d \/ (d = c.id /\ k >= c.seq /\ n = c.len)
  <2>1. d = c.id => n = c.len
    BY <1>2, <1>4, <1>6 DEF ApduInv, CommandInv, SameLength
  <2>2. (d = c.id /\ k = c.seq) \/ c.id < d \/ (c.id = d /\ c.seq < k)
    BY <1>2, <1>6 DEF Is, Before
  <2>. QED
    BY <1>4, <2>1, <2>2
<1>7. ASSUME NEW d \in Nat, NEW k \in Nat, NEW n \in Nat
      PROVE  Has(Line', d, k, n) <=> Has(Line, d, k, n) /\ (c.id < d \/ k > c.seq)
  <2>1. Has(Line', d, k, n) => Has(Line, d, k, n) /\ (c.id < d \/ k > c.seq)
    BY <1>2, <1>3, <1>4 DEF Before
  <2>2. ASSUME Has(Line, d, k, n), c.id < d \/ k > c.seq PROVE Has(Line', d, k, n)
    BY <1>3, <1>4, <2>2 DEF Is
  <2>. QED
    BY <2>1, <2>2
<1>. QED
  BY <1>2, <1>3, <1>4, <1>5, <1>6, <1>7

\* A command being received goes on with the chunk at the head.
LEMMA OutExpected ==
  ASSUME TypeInv, ThreadsInv, ApduInv, Receive("OUT"), NEW c, c = Head(toApp), dev = "CONFIGURED", rx.seq # 0
  PROVE  c.seq = rx.seq /\ c.len = rx.len /\ c.id = RxId /\ rx.data = Chunks(c.id, c.seq)
<1>1. /\ c.id \in Nat /\ c.seq \in Nat /\ c.len \in Nat /\ c.id <= cmd.id /\ c.seq < c.len /\ cmd.id \in Nat
      /\ c.id = cmd.id => c.len = cmd.len /\ c.seq < next
      /\ Has(Line, c.id, c.seq, c.len) /\ next \in Nat
      /\ \A d, k, n \in Nat : Has(Line, d, k, n) => c.id < d \/ (d = c.id /\ k >= c.seq /\ n = c.len)
  BY OutHead DEF TypeInv
<1>2. /\ RxId \in Nat /\ rx.seq \in Nat /\ rx.len \in Nat /\ rx.seq < rx.len /\ rx.data = Chunks(RxId, rx.seq)
      /\ \A d, k, n \in Nat : Has(Line, d, k, n) => RxId < d \/ (d = RxId /\ k >= rx.seq /\ n = rx.len)
      /\ \A k \in rx.seq..(Top(RxId, rx.len) - 1) : Has(Line, RxId, k, rx.len)
  BY DEF ApduInv, ReceiveInv, Receiving
<1>3. RxId < c.id \/ (c.id = RxId /\ c.seq >= rx.seq /\ c.len = rx.len)
  BY <1>1, <1>2
<1>4. Top(RxId, rx.len) \in Nat /\ rx.seq < Top(RxId, rx.len)
  <2>1. CASE RxId = cmd.id
    <3>1. Top(RxId, rx.len) = next
      BY <2>1 DEF Top
    <3>. QED
      BY <1>1, <1>2, <1>3, <2>1, <3>1
  <2>2. CASE RxId # cmd.id
    <3>1. Top(RxId, rx.len) = rx.len
      BY <2>2 DEF Top
    <3>. QED
      BY <1>2, <3>1
  <2>. QED
    BY <2>1, <2>2
<1>5. Has(Line, RxId, rx.seq, rx.len)
  <2>1. rx.seq \in rx.seq..(Top(RxId, rx.len) - 1)
    BY <1>2, <1>4
  <2>. QED
    BY <1>2, <2>1
<1>6. c.id < RxId \/ (RxId = c.id /\ rx.seq >= c.seq)
  BY <1>1, <1>2, <1>5
<1>7. c.seq = rx.seq /\ c.len = rx.len /\ c.id = RxId
  BY <1>1, <1>2, <1>3, <1>6
<1>. QED
  BY <1>2, <1>7

\* process_apdu_chunk of the chunk it expects, or of another one.
LEMMA Assembled ==
  ASSUME TypeInv, ThreadsInv, ApduInv, Receive("OUT"), NEW c, c = Head(toApp), dev = "CONFIGURED"
  PROVE  /\ c.seq # rx.seq => /\ ProcessApduChunk(c) = rx /\ ~Complete(c) /\ rx.seq = 0
         /\ c.seq = rx.seq =>
              /\ ProcessApduChunk(c) = [seq |-> IF c.seq + 1 = c.len THEN 0 ELSE c.seq + 1,
                                        len |-> c.len, data |-> Chunks(c.id, c.seq + 1)]
              /\ Complete(c) <=> c.seq + 1 = c.len
              /\ Chunks(c.id, c.seq + 1)[1][1] = c.id
<1>1. c.id \in Nat /\ c.seq \in Nat /\ c.len \in Nat
  BY OutHead
<1>2. rx.seq # 0 => c.seq = rx.seq /\ c.len = rx.len /\ rx.data = Chunks(c.id, c.seq)
  BY OutExpected
<1>3. c.seq # rx.seq => ProcessApduChunk(c) = rx /\ ~Complete(c) /\ rx.seq = 0
  BY <1>2 DEF ProcessApduChunk, Complete
<1>4. ASSUME c.seq = rx.seq
      PROVE  /\ ProcessApduChunk(c) = [seq |-> IF c.seq + 1 = c.len THEN 0 ELSE c.seq + 1,
                                        len |-> c.len, data |-> Chunks(c.id, c.seq + 1)]
             /\ Complete(c) <=> c.seq + 1 = c.len
             /\ Chunks(c.id, c.seq + 1)[1][1] = c.id
  <2>. DEFINE data == Append(IF rx.seq = 0 THEN <<>> ELSE rx.data, <<c.id, c.seq>>)
              len == IF rx.seq = 0 THEN c.len ELSE rx.len
  <2>1. /\ Append(Chunks(c.id, c.seq), <<c.id, c.seq>>) = Chunks(c.id, c.seq + 1)
        /\ Chunks(c.id, c.seq + 1)[1][1] = c.id
    BY <1>1, ChunksGrow
  <2>2. data = Chunks(c.id, c.seq + 1)
    <3>1. CASE rx.seq = 0
      BY <1>1, <1>4, <3>1, FirstChunk
    <3>2. CASE rx.seq # 0
      BY <1>1, <1>2, <1>4, <2>1, <3>2
    <3>. QED
      BY <3>1, <3>2
  <2>3. len = c.len
    BY <1>1, <1>2
  <2>4. Len(data) = c.seq + 1
    <3>1. c.seq + 1 \in Nat
      BY <1>1
    <3>. QED
      BY <2>2, <3>1, ChunksGrow
  <2>5. ProcessApduChunk(c) = [seq |-> IF Len(data) = len THEN 0 ELSE rx.seq + 1, len |-> len, data |-> data]
    BY <1>4 DEF ProcessApduChunk
  <2>. HIDE DEF data, len
  <2>6. ProcessApduChunk(c) = [seq |-> IF c.seq + 1 = c.len THEN 0 ELSE c.seq + 1,
                                len |-> c.len, data |-> Chunks(c.id, c.seq + 1)]
    BY <1>4, <2>2, <2>3, <2>4, <2>5
  <2>7. Complete(c) <=> c.seq + 1 = c.len
    BY <1>1, <1>4, <2>6 DEF Complete
  <2>. QED
    BY <2>1, <2>6, <2>7
<1>. QED
  BY <1>3, <1>4

\* The chunk leaves the line: the command goes on, or is delivered.
LEMMA OutApdu ==
  ASSUME TypeInv, ThreadsInv, ApduInv, BootInv, USBD_LEDGER_HID_data_out
  PROVE  TypeInv' /\ ThreadsInv' /\ ApduInv'
<1>1. PICK c : c = Head(toApp)
  OBVIOUS
<1>2. /\ Receive("OUT") /\ UNCHANGED <<hostVars, mcuVars, cut, restarts>> /\ UNCHANGED <<dev, tx, busy, toMcu>>
      /\ toApp # <<>> /\ c.tag = "OUT"
  BY <1>1 DEF USBD_LEDGER_HID_data_out, Receive
<1>3. /\ c.id \in Nat /\ c.seq \in Nat /\ c.len \in Nat
      /\ handled < c.id /\ c.id <= cmd.id /\ c.seq < c.len
      /\ c.id = cmd.id => c.len = cmd.len /\ c.seq < next
      /\ Has(Line, c.id, c.seq, c.len)
      /\ \A m \in c.seq..(Top(c.id, c.len) - 1) : Has(Line, c.id, m, c.len)
      /\ \A d, k, n \in Nat : Has(Line, d, k, n) => c.id < d \/ (d = c.id /\ k >= c.seq /\ n = c.len)
      /\ \A d, k, n \in Nat : Has(Line', d, k, n) <=> Has(Line, d, k, n) /\ (c.id < d \/ k > c.seq)
      /\ Ordered(Line') /\ (InFirst(Line) => InFirst(Line') /\ ~HasIn(Line) /\ ~HasIn(Line'))
  BY <1>1, <1>2, OutHead
<1>4. ThreadsInv' /\ toApp' \in Seq(PacketSet)
  BY <1>2, ReceiveStep
<1>5. /\ UNCHANGED <<host, cmd, next, late, hid, answer, raised>> /\ Pending' = Pending
      /\ cmd.id \in Nat /\ cmd.len \in Nat /\ next \in Nat /\ next <= cmd.len /\ handled \in Nat
  BY <1>2 DEF hostVars, mcuVars, Pending, TypeInv, ThreadsInv
<1>6. restarts = 0 => dev = "CONFIGURED"
  BY <1>1, <1>2, OutConfigured
<1>7. \/ dev # "CONFIGURED" /\ UNCHANGED <<rx, apdu, handled>>
      \/ /\ dev = "CONFIGURED" /\ rx' = ProcessApduChunk(c)
         /\ IF Complete(c) /\ count = -1 THEN handled' = rx'.data[1][1] /\ apdu' = apdu \cup {handled'}
            ELSE UNCHANGED <<apdu, handled>>
  BY <1>1 DEF USBD_LEDGER_HID_data_out
<1>8. /\ dev = "CONFIGURED" /\ c.seq # rx.seq => ProcessApduChunk(c) = rx /\ ~Complete(c) /\ rx.seq = 0
      /\ dev = "CONFIGURED" /\ c.seq = rx.seq =>
           /\ ProcessApduChunk(c) = [seq |-> IF c.seq + 1 = c.len THEN 0 ELSE c.seq + 1,
                                     len |-> c.len, data |-> Chunks(c.id, c.seq + 1)]
           /\ Complete(c) <=> c.seq + 1 = c.len
           /\ Chunks(c.id, c.seq + 1)[1][1] = c.id
  BY <1>1, <1>2, Assembled
<1>9. dev = "CONFIGURED" /\ rx.seq # 0 => c.seq = rx.seq /\ c.id = RxId
  BY <1>1, <1>2, OutExpected
<1>10. \/ UNCHANGED <<apdu, handled>>
       \/ /\ handled' = c.id /\ apdu' = apdu \cup {c.id} /\ c.seq + 1 = c.len
          /\ \A d, k, n \in Nat : Has(Line', d, k, n) => c.id < d
          /\ c.id = cmd.id => next = cmd.len
  <2>1. CASE UNCHANGED <<apdu, handled>>
    BY <2>1
  <2>2. CASE /\ dev = "CONFIGURED" /\ rx' = ProcessApduChunk(c) /\ Complete(c)
             /\ handled' = rx'.data[1][1] /\ apdu' = apdu \cup {handled'}
    <3>1. c.seq = rx.seq /\ c.seq + 1 = c.len
      BY <1>8, <2>2
    <3>2. rx'.data = Chunks(c.id, c.seq + 1) /\ Chunks(c.id, c.seq + 1)[1][1] = c.id
      BY <1>8, <2>2, <3>1
    <3>3. handled' = c.id /\ apdu' = apdu \cup {c.id}
      BY <2>2, <3>2
    <3>4. ASSUME NEW d \in Nat, NEW k \in Nat, NEW n \in Nat, Has(Line', d, k, n) PROVE c.id < d
      <4>1. Has(Line, d, k, n) /\ (c.id < d \/ k > c.seq)
        BY <1>3, <3>4
      <4>2. k < n /\ (c.id < d \/ (d = c.id /\ n = c.len))
        BY <1>3, <4>1 DEF ApduInv, CommandInv
      <4>. QED
        BY <1>3, <3>1, <4>1, <4>2
    <3>5. c.id = cmd.id => next = cmd.len
      BY <1>3, <1>5, <3>1
    <3>. QED
      BY <3>1, <3>3, <3>4, <3>5
  <2>. QED
    BY <1>7, <2>1, <2>2
<1>11. TypeInv'
  <2>1. apdu \in SUBSET (1..handled) /\ handled' \in Nat /\ handled <= handled'
    BY <1>3, <1>5, <1>10 DEF TypeInv
  <2>2. apdu' \in SUBSET (1..handled')
    <3>1. CASE UNCHANGED <<apdu, handled>>
      BY <2>1, <3>1
    <3>2. CASE handled' = c.id /\ apdu' = apdu \cup {c.id}
      <4>1. c.id \in 1..handled' /\ \A x \in apdu : x \in 1..handled'
        BY <1>3, <1>5, <2>1, <3>2
      <4>. QED
        BY <3>2, <4>1
    <3>. QED
      BY <1>10, <3>1, <3>2
  <2>3. /\ restarts' \in Nat /\ dev' \in {"DEFAULT", "ADDRESSED", "CONFIGURED"} /\ toMcu' \in Seq(PacketSet)
        /\ cut' \in BOOLEAN
    BY <1>2 DEF TypeInv
  <2>. QED
    BY <1>2, <1>4, <2>1, <2>2, <2>3, DeviceTyped
<1>12. CommandInv'
  <2>1. SameLength(Line')
    BY <1>3 DEF ApduInv, CommandInv, SameLength
  <2>2. ASSUME NEW d \in Nat, NEW k \in Nat, NEW n \in Nat, Has(Line', d, k, n)
        PROVE  /\ handled' < d /\ d <= cmd.id /\ k < n
               /\ d = cmd.id => n = cmd.len /\ k < next
               /\ \A m \in k..(Top(d, n)' - 1) : Has(Line', d, m, n)
    <3>1. Has(Line, d, k, n) /\ (c.id < d \/ k > c.seq)
      BY <1>3, <2>2
    <3>2. /\ handled < d /\ d <= cmd.id /\ k < n
          /\ d = cmd.id => n = cmd.len /\ k < next
          /\ \A m \in k..(Top(d, n) - 1) : Has(Line, d, m, n)
      BY <3>1 DEF ApduInv, CommandInv
    <3>3. handled' < d
      BY <1>10, <2>2, <3>2
    <3>4. Top(d, n)' = Top(d, n)
      BY <1>5 DEF Top
    <3>5. ASSUME NEW m \in k..(Top(d, n) - 1) PROVE Has(Line', d, m, n)
      <4>1. m \in Nat /\ m >= k
        OBVIOUS
      <4>2. Has(Line, d, m, n) /\ (c.id < d \/ m > c.seq)
        BY <1>3, <3>1, <3>2, <4>1
      <4>. QED
        BY <1>3, <4>1, <4>2
    <3>. QED
      BY <3>2, <3>3, <3>4, <3>5
  <2>3. handled' <= cmd.id /\ (handled' = cmd.id => next = cmd.len)
    BY <1>3, <1>5, <1>10 DEF ApduInv, CommandInv
  <2>. QED
    BY <1>3, <1>5, <2>1, <2>2, <2>3 DEF CommandInv
<1>13. ReceiveInv'
  <2>. SUFFICES ASSUME Receiving' PROVE ReceiveInv'
    BY DEF ReceiveInv
  <2>1. dev = "CONFIGURED" /\ rx'.seq # 0 /\ rx' = ProcessApduChunk(c)
    BY <1>2, <1>7 DEF Receiving
  <2>2. c.seq = rx.seq
    BY <1>8, <2>1
  <2>3. c.seq + 1 # c.len /\ rx' = [seq |-> c.seq + 1, len |-> c.len, data |-> Chunks(c.id, c.seq + 1)]
        /\ Chunks(c.id, c.seq + 1)[1][1] = c.id
    BY <1>8, <2>1, <2>2
  <2>4. rx'.seq = c.seq + 1 /\ rx'.len = c.len /\ rx'.data = Chunks(c.id, c.seq + 1) /\ RxId' = c.id
    BY <2>3 DEF RxId
  <2>5. UNCHANGED <<apdu, handled>>
    BY <1>10, <2>3
  <2>6. c.seq + 1 \in Nat /\ c.seq + 1 < c.len
    BY <1>3, <2>3
  <2>7. Top(RxId, rx.len)' = Top(c.id, c.len) /\ c.seq + 1 <= Top(c.id, c.len) /\ Top(c.id, c.len) \in Nat
    <3>1. Top(RxId, rx.len)' = Top(c.id, c.len)
      BY <1>5, <2>4 DEF Top
    <3>2. c.seq + 1 <= Top(c.id, c.len) /\ Top(c.id, c.len) \in Nat
      BY <1>3, <1>5, <2>6 DEF Top
    <3>. QED
      BY <3>1, <3>2
  <2>8. \A d, k, n \in Nat : Has(Line', d, k, n) => c.id < d \/ (d = c.id /\ k >= c.seq + 1 /\ n = c.len)
    BY <1>3
  <2>9. ASSUME NEW k \in (c.seq + 1)..(Top(c.id, c.len) - 1) PROVE Has(Line', c.id, k, c.len)
    <3>1. k \in Nat /\ k > c.seq /\ k \in c.seq..(Top(c.id, c.len) - 1)
      BY <1>3, <2>7
    <3>. QED
      BY <1>3, <3>1
  <2>10. /\ RxId' \in Nat /\ handled' < RxId' /\ RxId' <= cmd'.id
         /\ rx'.seq \in Nat /\ rx'.len \in Nat /\ rx'.seq < rx'.len
         /\ RxId' = cmd'.id => rx'.len = cmd'.len
         /\ rx'.data = Chunks(RxId', rx'.seq)
    BY <1>3, <1>5, <2>4, <2>5, <2>6
  <2>11. /\ rx'.seq <= Top(RxId, rx.len)'
         /\ \A d, k, n \in Nat : Has(Line', d, k, n) => RxId' < d \/ (d = RxId' /\ k >= rx'.seq /\ n = rx'.len)
    BY <2>4, <2>7, <2>8
  <2>12. \A k \in rx'.seq..(Top(RxId, rx.len)' - 1) : Has(Line', RxId', k, rx'.len)
    BY <2>4, <2>7, <2>9
  <2>. QED
    BY <2>10, <2>11, <2>12 DEF ReceiveInv
<1>14. NoLossInv'
  <2>. SUFFICES ASSUME restarts = 0 PROVE NoLossInv'
    BY <1>2 DEF NoLossInv
  <2>1. dev = "CONFIGURED" /\ rx' = ProcessApduChunk(c) /\ 0 \in Nat
    BY <1>6, <1>7
  <2>2. c.seq = rx.seq
    <3>1. Begun(c.id, c.len)
      BY <1>3 DEF ApduInv, NoLossInv
    <3>2. CASE rx.seq # 0
      BY <1>9, <2>1, <3>2
    <3>3. CASE rx.seq = 0
      <4>1. Has(Line, c.id, 0, c.len)
        BY <3>1, <3>3 DEF Begun
      <4>. QED
        BY <1>3, <2>1, <3>3, <4>1
    <3>. QED
      BY <3>2, <3>3
  <2>3. rx' = [seq |-> IF c.seq + 1 = c.len THEN 0 ELSE c.seq + 1, len |-> c.len, data |-> Chunks(c.id, c.seq + 1)]
        /\ Chunks(c.id, c.seq + 1)[1][1] = c.id
    BY <1>8, <2>1, <2>2
  <2>4. RxId' = c.id /\ (c.seq + 1 # c.len => rx'.seq # 0)
    BY <1>3, <2>3 DEF RxId
  <2>5. ASSUME NEW d \in Nat, NEW n \in Nat, Begun(d, n), d # c.id PROVE Begun(d, n)'
    <3>1. Has(Line, d, 0, n)
      BY <1>9, <2>1, <2>5 DEF Begun
    <3>2. Has(Line', d, 0, n)
      BY <1>3, <2>1, <2>5, <3>1
    <3>. QED
      BY <3>2 DEF Begun
  <2>6. ASSUME NEW n \in Nat, c.seq + 1 # c.len PROVE Begun(c.id, n)'
    BY <2>4, <2>6 DEF Begun
  <2>7. ASSUME NEW d \in Nat, NEW k \in Nat, NEW n \in Nat, Has(Line', d, k, n) PROVE Begun(d, n)'
    <3>1. Has(Line, d, k, n) /\ (c.id < d \/ k > c.seq) /\ k < n /\ (c.id < d \/ (d = c.id /\ n = c.len))
      BY <1>3, <2>7 DEF ApduInv, CommandInv
    <3>2. CASE d = c.id
      <4>1. c.seq + 1 # c.len
        BY <1>3, <3>1, <3>2
      <4>. QED
        BY <2>6, <3>2, <4>1
    <3>3. CASE d # c.id
      <4>1. Begun(d, n)
        BY <3>1 DEF ApduInv, NoLossInv
      <4>. QED
        BY <2>5, <3>3, <4>1
    <3>. QED
      BY <3>2, <3>3
  <2>8. ASSUME 0 < next, next < cmd.len PROVE Begun(cmd.id, cmd.len)'
    <3>1. PICK d \in Nat, n \in Nat : d = cmd.id /\ n = cmd.len
      BY <1>5
    <3>2. Begun(d, n)'
      <4>1. CASE d = c.id
        <5>1. c.seq + 1 # c.len
          BY <1>3, <1>5, <2>8, <3>1, <4>1
        <5>. QED
          BY <2>6, <4>1, <5>1
      <4>2. CASE d # c.id
        <5>1. Begun(cmd.id, cmd.len)
          BY <2>8 DEF ApduInv, NoLossInv
        <5>2. Begun(d, n)
          BY <3>1, <5>1
        <5>. QED
          BY <2>5, <4>2, <5>2
      <4>. QED
        BY <4>1, <4>2
    <3>3. d = cmd'.id /\ n = cmd'.len
      BY <1>5, <3>1
    <3>. QED
      BY <3>2, <3>3 DEF Begun
  <2>. QED
    BY <1>5, <2>7, <2>8 DEF NoLossInv
<1>15. ResponseInv'
  <2>1. SamePrep(toMcu, toMcu) /\ toMcu' = toMcu /\ handled' \in Nat /\ handled <= handled'
    BY <1>2, <1>3, <1>5, <1>10, SelfPrep
  <2>2. SamePrep(toMcu, toMcu')
    BY <2>1
  <2>. QED
    BY <1>2, <1>5, <2>1, <2>2, SameResponses DEF ApduInv
<1>16. OwnInv'
  <2>. SUFFICES ASSUME ~late PROVE OwnInv'
    BY <1>5 DEF OwnInv
  <2>1. ~cut /\ InFirst(Line) /\ c.id = cmd.id /\ Pending /\ OnePrep(toMcu)
    BY <1>3 DEF ApduInv, OwnInv
  <2>2. handled # cmd.id
    BY <1>3, <1>5, <2>1
  <2>3. apdu = {} /\ (\A x : ~Prepared(toMcu, x)) /\ answer = <<>> /\ ~Transmitting
    BY <2>2 DEF ApduInv, OwnInv
  <2>4. InFirst(Line') /\ ~HasIn(Line') /\ ~HasIn(Line) /\ ~(dev = "CONFIGURED" /\ busy)
    <3>1. InFirst(Line') /\ ~HasIn(Line') /\ ~HasIn(Line)
      BY <1>3, <2>1
    <3>. QED
      BY <2>3, <3>1 DEF ApduInv, OwnInv
  <2>5. apdu' # {} => apdu' = {cmd.id} /\ handled' = cmd.id
    <3>1. CASE UNCHANGED <<apdu, handled>>
      BY <2>3, <3>1
    <3>2. CASE handled' = c.id /\ apdu' = apdu \cup {c.id}
      BY <2>1, <2>3, <3>2
    <3>. QED
      BY <1>10, <3>1, <3>2
  <2>6. \A d, k, n \in Nat : Has(Line', d, k, n) => d = cmd.id
    BY <1>3 DEF ApduInv, OwnInv
  <2>7. ~Transmitting'
    BY <1>2, <2>3 DEF Transmitting
  <2>. QED
    BY <1>2, <1>5, <2>1, <2>3, <2>4, <2>5, <2>6, <2>7 DEF OwnInv
<1>. QED
  BY <1>4, <1>11, <1>12, <1>13, <1>14, <1>15, <1>16 DEF ApduInv

-----------------------------------------------------------------------------
(* The boot.                                                               *)

LEMMA AppendBoot ==
  ASSUME NEW s \in Seq(PacketSet), NEW p \in PacketSet
  PROVE  /\ \A g : AllNot(s, g) /\ p.tag # g => AllNot(Append(s, p), g)
         /\ Arriving(s) => Arriving(Append(s, p))
         /\ AllNot(s, "OUT") /\ p.tag = "SET_CONFIGURATION" => Arriving(Append(s, p))
<1>. DEFINE t == Append(s, p)
<1>1. /\ Len(s) \in Nat /\ DOMAIN s = 1..Len(s) /\ DOMAIN t = 1..(Len(s) + 1)
      /\ \A i \in 1..Len(s) : t[i] = s[i]
      /\ t[Len(s) + 1] = p
  OBVIOUS
<1>. HIDE DEF t
<1>2. \A g : AllNot(s, g) /\ p.tag # g => AllNot(t, g)
  BY <1>1 DEF AllNot
<1>3. ASSUME Arriving(s) PROVE Arriving(t)
  <2>1. PICK i \in 1..Len(s) : s[i].tag = "SET_CONFIGURATION" /\ \A j \in 1..(i - 1) : s[j].tag # "OUT"
    BY <1>1, <1>3 DEF Arriving
  <2>2. \A j \in 1..(i - 1) : j \in 1..Len(s)
    BY <1>1
  <2>3. i \in DOMAIN t /\ t[i].tag = "SET_CONFIGURATION" /\ \A j \in 1..(i - 1) : t[j].tag # "OUT"
    BY <1>1, <2>1, <2>2
  <2>. QED
    BY <2>3 DEF Arriving
<1>4. ASSUME AllNot(s, "OUT"), p.tag = "SET_CONFIGURATION" PROVE Arriving(t)
  <2>1. Len(s) + 1 \in DOMAIN t /\ t[Len(s) + 1].tag = "SET_CONFIGURATION"
    BY <1>1, <1>4
  <2>2. \A j \in 1..((Len(s) + 1) - 1) : t[j].tag # "OUT"
    BY <1>1, <1>4 DEF AllNot
  <2>. QED
    BY <2>1, <2>2 DEF Arriving
<1>. QED
  BY <1>2, <1>3, <1>4 DEF t

LEMMA TailBoot ==
  ASSUME NEW s \in Seq(PacketSet), s # <<>>
  PROVE  /\ \A g : AllNot(s, g) => AllNot(Tail(s), g) /\ Head(s).tag # g
         /\ Arriving(s) /\ Head(s).tag # "SET_CONFIGURATION" => Arriving(Tail(s))
<1>1. /\ Len(s) \in Nat /\ Len(s) > 0 /\ DOMAIN s = 1..Len(s)
      /\ DOMAIN Tail(s) = 1..(Len(s) - 1)
      /\ \A i \in 1..(Len(s) - 1) : Tail(s)[i] = s[i + 1]
      /\ Head(s) = s[1]
  OBVIOUS
<1>2. \A g : AllNot(s, g) => AllNot(Tail(s), g) /\ Head(s).tag # g
  BY <1>1 DEF AllNot
<1>3. ASSUME Arriving(s), Head(s).tag # "SET_CONFIGURATION" PROVE Arriving(Tail(s))
  <2>1. PICK i \in 1..Len(s) : s[i].tag = "SET_CONFIGURATION" /\ \A j \in 1..(i - 1) : s[j].tag # "OUT"
    BY <1>1, <1>3 DEF Arriving
  <2>2. i # 1
    BY <1>1, <1>3, <2>1
  <2>3. i - 1 \in 1..(Len(s) - 1) /\ Tail(s)[i - 1] = s[i]
    BY <1>1, <2>1, <2>2
  <2>4. \A j \in 1..((i - 1) - 1) : j \in 1..(Len(s) - 1) /\ Tail(s)[j] = s[j + 1] /\ j + 1 \in 1..(i - 1)
    BY <1>1, <2>1, <2>2
  <2>. QED
    BY <1>1, <2>1, <2>3, <2>4 DEF Arriving
<1>. QED
  BY <1>2, <1>3

\* Nothing about the boot changed, but for a command that does not matter.
LEMMA BootQuiet ==
  ASSUME TypeInv, BootInv, restarts' = 0 => restarts = 0, UNCHANGED <<state, toApp, dev, rx>>,
         out'["main"] = out["main"] \/ (out["main"].tag \notin Setups /\ out'["main"].tag \notin Setups),
         \/ toMcu' = toMcu
         \/ toMcu # <<>> /\ toMcu' = Tail(toMcu) /\ Head(toMcu).tag \in {"ENDPOINTS", "PREPARE_IN"}
  PROVE  BootInv'
<1>1. toMcu \in Seq(PacketSet)
  BY DEF TypeInv
<1>2. toMcu # <<>> => /\ AllNot(toMcu, "DISCONNECT") => AllNot(Tail(toMcu), "DISCONNECT")
                      /\ AllNot(toMcu, "ADDR") => AllNot(Tail(toMcu), "ADDR")
  BY <1>1, TailBoot
<1>3. /\ AllNot(toMcu, "DISCONNECT") => AllNot(toMcu', "DISCONNECT")
      /\ AllNot(toMcu, "ADDR") => AllNot(toMcu', "ADDR")
  BY <1>2
<1>4. toMcu \in {<<Plain("ADDR"), Plain("CONNECT")>>, <<Plain("CONNECT")>>} => toMcu' = toMcu
  BY DEF Plain, Packet
<1>. QED
  BY <1>3, <1>4 DEF BootInv, Setups

LEMMA BootStill ==
  ASSUME SameThread, TypeInv, ThreadsInv, ApduInv, BootInv,
         \/ StartExchange \/ SendChunk \/ Timeout \/ Answer \/ FlushNext \/ ConfigEndpoints \/ Prepare
         \/ \E t \in Threads : ReadState(t) \/ ReadLen(t) \/ KeepPacket(t)
  PROVE  BootInv'
<1>1. out \in [Threads -> PacketSet] /\ "main" \in Threads /\ "sender" \in Threads
  BY DEF TypeInv, Threads
<1>2. CASE StartExchange \/ Timeout \/ Answer \/ \E t \in Threads : ReadState(t) \/ ReadLen(t)
  <2>1. UNCHANGED <<state, toApp, dev, rx, restarts, toMcu, out>>
    BY <1>2 DEF StartExchange, Timeout, Answer, ReadState, ReadLen, mcuVars, devVars
  <2>. QED
    BY <2>1, BootQuiet
<1>3. CASE SendChunk
  <2>1. UNCHANGED <<state, toApp, dev, rx, restarts, toMcu>> /\ out'["main"] = out["main"]
    BY <1>1, <1>3 DEF SendChunk, devVars
  <2>. QED
    BY <2>1, BootQuiet
<1>4. CASE \E t \in Threads : KeepPacket(t)
  <2>1. PICK t \in Threads : KeepPacket(t)
    BY <1>4
  <2>2. UNCHANGED <<state, toApp, dev, rx, restarts, toMcu>> /\ out' = [out EXCEPT ![t] = NoPacket]
        /\ out[t].tag \in Transfers
    BY <2>1 DEF KeepPacket, devVars, ThreadsInv, ThreadOk
  <2>3. out'["main"] = out["main"] \/ (out["main"].tag \notin Setups /\ out'["main"].tag \notin Setups)
    BY <1>1, <2>2, PlainTyped DEF Threads, Transfers, Setups
  <2>. QED
    BY <2>2, <2>3, BootQuiet
<1>5. CASE FlushNext
  <2>1. /\ UNCHANGED <<state, toApp, dev, rx, restarts, toMcu>> /\ out' = [out EXCEPT !["main"] = Head(flush)]
        /\ pc["main"] = "idle" /\ flush # <<>> /\ flush \in Seq(PacketSet)
        /\ \A i \in DOMAIN flush : flush[i].tag \in Transfers
    BY <1>5 DEF FlushNext, devVars, TypeInv, ThreadsInv
  <2>2. Head(flush).tag \in Transfers /\ out["main"].tag = "none"
    BY <1>1, <2>1 DEF ThreadsInv, ThreadOk
  <2>3. out["main"].tag \notin Setups /\ out'["main"].tag \notin Setups
    BY <1>1, <2>1, <2>2 DEF Transfers, Setups
  <2>. QED
    BY <2>1, <2>3, BootQuiet
<1>6. CASE ConfigEndpoints
  <2>1. UNCHANGED <<state, toApp, dev, rx, restarts, out>> /\ CanRead("ENDPOINTS")
    BY <1>6 DEF ConfigEndpoints, devVars
  <2>2. toMcu # <<>> /\ toMcu' = Tail(toMcu) /\ Head(toMcu).tag = "ENDPOINTS"
    BY <2>1, Reads
  <2>. QED
    BY <2>1, <2>2, BootQuiet
<1>7. CASE Prepare
  <2>1. UNCHANGED <<state, toApp, dev, rx, restarts>> /\ CanRead("PREPARE_IN")
    BY <1>7 DEF Prepare, devVars
  <2>2. toMcu # <<>> /\ toMcu' = Tail(toMcu) /\ Head(toMcu).tag = "PREPARE_IN" /\ pc["main"] = "idle"
    BY <2>1, Reads
  <2>3. out' = out \/ out' = [out EXCEPT !["main"] = Plain("IN")]
    BY <1>7 DEF Prepare
  <2>4. out["main"].tag = "none" /\ Plain("IN").tag = "IN"
    BY <1>1, <2>2 DEF ThreadsInv, ThreadOk, Plain, Packet
  <2>5. out'["main"] = out["main"] \/ (out["main"].tag \notin Setups /\ out'["main"].tag \notin Setups)
    BY <1>1, <2>3, <2>4 DEF Setups
  <2>. QED
    BY <2>1, <2>2, <2>5, BootQuiet
<1>. QED
  BY <1>2, <1>3, <1>4, <1>5, <1>6, <1>7

\* A packet arrives at the end of the queue of the device.
LEMMA BootQueued ==
  ASSUME TypeInv, ThreadsInv, BootInv, OtherEvent \/ \E t \in Threads : PostPacket(t)
  PROVE  BootInv'
<1>1. out \in [Threads -> PacketSet] /\ "main" \in Threads /\ "sender" \in Threads /\ toApp \in Seq(PacketSet)
  BY DEF TypeInv, Threads
<1>2. CASE OtherEvent
  <2>1. UNCHANGED <<state, toMcu, dev, rx, restarts, out>> /\ toApp' = Append(toApp, Plain("OTHER"))
    BY <1>2 DEF OtherEvent, mcuVars, devVars
  <2>2. Plain("OTHER") \in PacketSet /\ Plain("OTHER").tag = "OTHER"
    BY PlainTyped DEF Tags, EventTags
  <2>3. /\ AllNot(toApp, "OUT") => AllNot(toApp', "OUT")
        /\ AllNot(toApp, "SET_ADDRESS") => AllNot(toApp', "SET_ADDRESS")
        /\ AllNot(toApp, "SET_CONFIGURATION") => AllNot(toApp', "SET_CONFIGURATION")
        /\ Arriving(toApp) => Arriving(toApp')
    BY <1>1, <2>1, <2>2, AppendBoot
  <2>. QED
    BY <2>1, <2>3 DEF BootInv
<1>3. CASE \E t \in Threads : PostPacket(t)
  <2>1. PICK t \in Threads : PostPacket(t)
    BY <1>3
  <2>2. /\ UNCHANGED <<state, toMcu, dev, rx, restarts>> /\ toApp' = Append(toApp, out[t])
        /\ out' = [out EXCEPT ![t] = NoPacket] /\ pc[t] = "post"
        /\ (out[t].tag \in Transfers /\ state = "CONFIGURED") \/ out[t].tag \in Setups
    BY <2>1 DEF PostPacket, devVars, ThreadsInv, ThreadOk
  <2>. DEFINE p == out[t]
  <2>3. p \in PacketSet /\ (p.tag \in Setups => t = "main")
    BY <1>1, <2>2 DEF ThreadsInv, Threads, Setups
  <2>4. out'["main"].tag \notin Setups \/ out'["main"] = out["main"]
    BY <1>1, <2>2, PlainTyped DEF Setups, Threads
  <2>5. t = "sender" => out["main"].tag = "none"
    <3>1. ASSUME t = "sender" PROVE pc["main"] = "idle"
      BY <1>1, <2>2, <3>1, OneRuns
    <3>. QED
      BY <1>1, <3>1 DEF ThreadsInv, ThreadOk
  <2>6. state # "CONFIGURED" => p.tag # "OUT"
    BY <2>2 DEF Setups
  <2>7. /\ AllNot(toApp, "OUT") /\ p.tag # "OUT" => AllNot(Append(toApp, p), "OUT")
        /\ Arriving(toApp) => Arriving(Append(toApp, p))
        /\ AllNot(toApp, "OUT") /\ p.tag = "SET_CONFIGURATION" => Arriving(Append(toApp, p))
    BY <1>1, <2>3, AppendBoot
  <2>8. ASSUME restarts = 0 PROVE state # "DISCONNECTED"
    BY <2>2, <2>3, <2>8 DEF BootInv
  <2>9. ASSUME restarts = 0, out["main"].tag = "SET_CONFIGURATION" PROVE t = "main"
    BY <2>5, <2>9 DEF Threads
  <2>. QED
    BY <2>2, <2>6, <2>7, <2>8, <2>9 DEF BootInv
<1>. QED
  BY <1>2, <1>3

LEMMA BootConfig ==
  ASSUME SameThread, TypeInv, ThreadsInv, BootInv, ConfigConnect \/ ConfigDisconnect \/ ConfigAddr
  PROVE  BootInv'
<1>. SUFFICES ASSUME restarts = 0 PROVE BootInv'
  BY DEF BootInv, ConfigConnect, ConfigDisconnect, ConfigAddr, devVars
<1>1. out \in [Threads -> PacketSet] /\ "main" \in Threads /\ toMcu \in Seq(PacketSet)
  BY DEF TypeInv, Threads
<1>2. toMcu # <<>> => /\ \A g : AllNot(toMcu, g) => AllNot(Tail(toMcu), g)
                      /\ \A g : AllNot(toMcu, g) => Head(toMcu).tag # g
  BY <1>1, TailBoot
<1>3. toMcu # <<>> /\ toMcu' = Tail(toMcu) /\ UNCHANGED <<toApp, dev, rx, restarts>>
  BY Reads DEF ConfigConnect, ConfigDisconnect, ConfigAddr, devVars
<1>4. CASE ConfigDisconnect
  <2>1. Head(toMcu).tag = "DISCONNECT"
    BY <1>4, Reads DEF ConfigDisconnect
  <2>. QED
    BY <1>2, <1>3, <2>1 DEF BootInv
<1>5. /\ AllNot(toMcu, "DISCONNECT") => AllNot(toMcu', "DISCONNECT")
      /\ AllNot(toMcu, "ADDR") => AllNot(toMcu', "ADDR")
  BY <1>2, <1>3
<1>6. /\ Plain("ADDR").tag = "ADDR" /\ Plain("CONNECT").tag = "CONNECT"
      /\ Plain("SET_ADDRESS").tag = "SET_ADDRESS" /\ Plain("SET_CONFIGURATION").tag = "SET_CONFIGURATION"
  BY DEF Plain, Packet
<1>7. CASE ConfigConnect
  <2>1. Head(toMcu).tag = "CONNECT"
    BY <1>7, Reads DEF ConfigConnect
  <2>2. CASE state = "DISCONNECTED"
    <3>1. toMcu = <<Plain("CONNECT")>> /\ dev = "DEFAULT" /\ AllNot(toApp, "OUT")
      BY <1>6, <2>1, <2>2 DEF BootInv
    <3>2. toMcu' = <<>>
      BY <1>3, <3>1
    <3>3. AllNot(toMcu', "ADDR") /\ AllNot(toMcu', "DISCONNECT")
      BY <3>2 DEF AllNot
    <3>4. state' = "ADDRESSED"
      BY <1>7, <2>2 DEF ConfigConnect
    <3>. QED
      BY <1>3, <3>1, <3>3, <3>4 DEF BootInv
  <2>3. CASE state # "DISCONNECTED"
    <3>1. UNCHANGED <<state, out>>
      BY <1>7, <2>3 DEF ConfigConnect
    <3>. QED
      BY <1>3, <1>5, <2>3, <3>1 DEF BootInv
  <2>. QED
    BY <2>2, <2>3
<1>8. CASE ConfigAddr
  <2>1. Head(toMcu).tag = "ADDR"
    BY <1>8, Reads DEF ConfigAddr
  <2>2. CASE state = "ADDRESSED"
    <3>1. state' = "CONFIGURED" /\ out' = [out EXCEPT !["main"] = Plain("SET_CONFIGURATION")]
      BY <1>8, <2>2 DEF ConfigAddr, Setup
    <3>2. out'["main"].tag = "SET_CONFIGURATION"
      BY <1>1, <1>6, <3>1
    <3>3. dev # "DEFAULT" /\ AllNot(toApp, "OUT")
      BY <1>2, <1>3, <2>1, <2>2 DEF BootInv
    <3>. QED
      BY <1>3, <1>5, <3>1, <3>2, <3>3 DEF BootInv
  <2>3. CASE state # "ADDRESSED"
    <3>1. UNCHANGED <<state, out>>
      BY <1>8, <2>3 DEF ConfigAddr
    <3>2. ASSUME state = "DISCONNECTED" PROVE toMcu' = <<Plain("CONNECT")>>
      <4>1. toMcu = <<Plain("ADDR"), Plain("CONNECT")>>
        BY <1>6, <2>1, <3>2 DEF BootInv
      <4>. QED
        BY <1>3, <4>1
    <3>. QED
      BY <1>3, <1>5, <2>3, <3>1, <3>2 DEF BootInv
  <2>. QED
    BY <2>2, <2>3
<1>. QED
  BY <1>4, <1>7, <1>8

LEMMA BootDevice ==
  ASSUME TypeInv, ApduInv, BootInv, DeviceStep
  PROVE  BootInv'
<1>. SUFFICES ASSUME restarts = 0 PROVE BootInv'
  BY DEF BootInv, DeviceStep, USBD_SetAddress, USBD_SetConfig, USBD_LEDGER_HID_data_out,
         USBD_LEDGER_HID_data_in, ReceiveOther, Receive
<1>. DEFINE g == Head(toApp).tag
<1>1. /\ toApp # <<>> /\ toApp' = Tail(toApp) /\ UNCHANGED <<state, out, restarts>>
      /\ toApp \in Seq(PacketSet) /\ toMcu \in Seq(PacketSet)
  BY DEF DeviceStep, USBD_SetAddress, USBD_SetConfig, USBD_LEDGER_HID_data_out,
         USBD_LEDGER_HID_data_in, ReceiveOther, Receive, mcuVars, TypeInv
<1>2. /\ AllNot(toApp, "OUT") => AllNot(toApp', "OUT")
      /\ AllNot(toApp, "SET_ADDRESS") => AllNot(toApp', "SET_ADDRESS") /\ g # "SET_ADDRESS"
      /\ AllNot(toApp, "SET_CONFIGURATION") => AllNot(toApp', "SET_CONFIGURATION") /\ g # "SET_CONFIGURATION"
      /\ Arriving(toApp) /\ g # "SET_CONFIGURATION" => Arriving(toApp')
  BY <1>1, TailBoot
<1>3. ASSUME NEW p \in PacketSet
      PROVE  /\ p.tag # "DISCONNECT" /\ AllNot(toMcu, "DISCONNECT") => AllNot(Append(toMcu, p), "DISCONNECT")
             /\ p.tag # "ADDR" /\ AllNot(toMcu, "ADDR") => AllNot(Append(toMcu, p), "ADDR")
  BY <1>1, AppendBoot
<1>. HIDE DEF g
<1>4. CASE USBD_SetAddress
  <2>1. /\ g = "SET_ADDRESS" /\ rx' = rx
        /\ \/ dev = "CONFIGURED" /\ UNCHANGED <<dev, toMcu>>
           \/ dev # "CONFIGURED" /\ dev' = "ADDRESSED" /\ toMcu' = Append(toMcu, Plain("ADDR"))
    BY <1>4 DEF USBD_SetAddress, Receive, g
  <2>2. Plain("ADDR") \in PacketSet /\ Plain("ADDR").tag = "ADDR"
    BY PlainTyped DEF Tags, ConfigTags
  <2>3. AllNot(toMcu, "DISCONNECT") => AllNot(toMcu', "DISCONNECT")
    BY <1>3, <2>1, <2>2
  <2>4. state # "DISCONNECTED"
    BY <1>2, <2>1 DEF BootInv
  <2>. QED
    BY <1>1, <1>2, <2>1, <2>3, <2>4 DEF BootInv
<1>5. CASE USBD_SetConfig
  <2>1. /\ g = "SET_CONFIGURATION"
        /\ \/ dev = "ADDRESSED" /\ dev' = "CONFIGURED" /\ toMcu' = Append(toMcu, Plain("ENDPOINTS"))
           \/ dev = "DEFAULT" /\ dev' = dev /\ rx' = rx /\ toMcu' = Append(toMcu, Plain("ENDPOINTS"))
           \/ dev = "CONFIGURED" /\ dev' = dev /\ toMcu' = toMcu
    BY <1>5 DEF USBD_SetConfig, Receive, g, TypeInv
  <2>2. Plain("ENDPOINTS") \in PacketSet /\ Plain("ENDPOINTS").tag = "ENDPOINTS"
    BY PlainTyped DEF Tags, ConfigTags
  <2>3. /\ AllNot(toMcu, "DISCONNECT") => AllNot(toMcu', "DISCONNECT")
        /\ AllNot(toMcu, "ADDR") => AllNot(toMcu', "ADDR")
    BY <1>3, <2>1, <2>2
  <2>4. state # "DISCONNECTED"
    BY <1>2, <2>1 DEF BootInv
  <2>. QED
    BY <1>1, <1>2, <2>1, <2>3, <2>4 DEF BootInv
<1>6. CASE USBD_LEDGER_HID_data_out
  <2>1. g = "OUT" /\ UNCHANGED <<dev, toMcu>>
    BY <1>6 DEF USBD_LEDGER_HID_data_out, Receive, g
  <2>2. state = "CONFIGURED" /\ dev = "CONFIGURED"
    BY <1>1, <2>1, OutConfigured DEF g
  <2>. QED
    BY <1>1, <2>1, <2>2 DEF BootInv
<1>7. CASE USBD_LEDGER_HID_data_in
  <2>1. /\ g = "IN" /\ UNCHANGED <<dev, rx>>
        /\ \/ toMcu' = toMcu
           \/ dev = "CONFIGURED" /\ tx # NoTx /\ toMcu' = Append(toMcu, Chunk(tx))
    BY <1>7 DEF USBD_LEDGER_HID_data_in, Receive, g
  <2>2. dev = "CONFIGURED" /\ tx # NoTx => Chunk(tx) \in PacketSet /\ Chunk(tx).tag = "PREPARE_IN"
    <3>1. dev = "CONFIGURED" /\ tx # NoTx => tx.id \in Nat /\ tx.seq \in Nat /\ tx.len \in Nat
      BY DEF ApduInv, ResponseInv, Transmitting, TypeInv
    <3>. QED
      BY <3>1 DEF Chunk, Packet, PacketSet, Tags
  <2>3. /\ AllNot(toMcu, "DISCONNECT") => AllNot(toMcu', "DISCONNECT")
        /\ AllNot(toMcu, "ADDR") => AllNot(toMcu', "ADDR")
    BY <1>3, <2>1, <2>2
  <2>. QED
    BY <1>1, <1>2, <2>1, <2>3 DEF BootInv
<1>8. CASE ReceiveOther
  <2>1. g = "OTHER" /\ UNCHANGED <<dev, rx, toMcu>>
    BY <1>8 DEF ReceiveOther, Receive, g
  <2>. QED
    BY <1>1, <1>2, <2>1 DEF BootInv
<1>. QED
  BY <1>4, <1>5, <1>6, <1>7, <1>8 DEF DeviceStep

LEMMA BootRespond ==
  ASSUME TypeInv, ApduInv, BootInv, Respond
  PROVE  BootInv'
<1>1. PICK id \in apdu, n \in RspChunks :
        toMcu' = IF dev = "CONFIGURED" /\ ~busy THEN Append(toMcu, Chunk([id |-> id, seq |-> 0, len |-> n])) ELSE toMcu
  BY DEF Respond
<1>2. UNCHANGED <<state, out, toApp, dev, rx, restarts>> /\ id \in Nat /\ n \in Nat /\ toMcu \in Seq(PacketSet)
  BY ChunksAssumption DEF Respond, mcuVars, TypeInv
<1>. DEFINE p == Chunk([id |-> id, seq |-> 0, len |-> n])
<1>3. p \in PacketSet /\ p.tag = "PREPARE_IN"
  BY <1>2 DEF Chunk, Packet, PacketSet, Tags
<1>. HIDE DEF p
<1>4. /\ AllNot(toMcu, "DISCONNECT") => AllNot(Append(toMcu, p), "DISCONNECT")
      /\ AllNot(toMcu, "ADDR") => AllNot(Append(toMcu, p), "ADDR")
  BY <1>2, <1>3, AppendBoot
<1>5. toMcu' = toMcu \/ (dev = "CONFIGURED" /\ toMcu' = Append(toMcu, p))
  BY <1>1 DEF p
<1>. QED
  BY <1>2, <1>4, <1>5 DEF BootInv

-----------------------------------------------------------------------------
(* Every step keeps the invariant.                                         *)

LEMMA InitInv == Init => IInv
<1>. SUFFICES ASSUME Init PROVE IInv
  OBVIOUS
<1>1. /\ toApp = <<>> /\ packets = <<>> /\ flush = <<>> /\ toMcu = <<Plain("ADDR"), Plain("CONNECT")>>
      /\ out = [t \in Threads |-> NoPacket] /\ pc = [t \in Threads |-> "idle"]
  BY DEF Init
<1>2. Plain("ADDR") \in PacketSet /\ Plain("CONNECT") \in PacketSet /\ NoPacket \in PacketSet /\ NoPacket.tag = "none"
      /\ Plain("ADDR").tag = "ADDR" /\ Plain("CONNECT").tag = "CONNECT"
  BY PlainTyped DEF Tags, ConfigTags
<1>3. toMcu \in Seq(PacketSet) /\ out \in [Threads -> PacketSet] /\ toApp \in Seq(PacketSet)
  BY <1>1, <1>2, EmptyLine
<1>4. cmd = [id |-> 0, len |-> 0] /\ cmd.id = 0 /\ cmd.len = 0 /\ handled = 0 /\ apdu = {} /\ next = 0
  BY DEF Init, NoCmd, NoId
<1>5. TypeInv
  <2>1. cmd \in [id : Nat, len : Nat] /\ next \in Nat /\ handled \in Nat /\ apdu \in SUBSET (1..handled)
    BY <1>4
  <2>2. pc \in [Threads -> {"idle", "state", "len", "append", "post"}]
    BY <1>1
  <2>3. late \in BOOLEAN /\ cut \in BOOLEAN /\ restarts \in Nat /\ host = "idle" /\ state = "DISCONNECTED" /\ dev = "DEFAULT"
    BY DEF Init
  <2>4. packets \in Seq(PacketSet) /\ flush \in Seq(PacketSet)
    BY <1>1, EmptyLine
  <2>. QED
    BY <1>3, <2>1, <2>2, <2>3, <2>4 DEF TypeInv
<1>6. out["main"] = NoPacket /\ out["sender"] = NoPacket /\ pc["main"] = "idle" /\ pc["sender"] = "idle"
  BY <1>1 DEF Threads
<1>7. ThreadsInv
  BY <1>1, <1>2, <1>4, <1>6 DEF Init, ThreadsInv, ThreadOk, Threads, MainIdle
<1>8. Line = <<>>
  <2>1. Line = Queue(<<>>, <<>>, <<>>, <<>>, <<>>)
    BY <1>1, <1>6, PlainTyped DEF Line
  <2>. QED
    BY <2>1, Nil, EmptyLine DEF Queue
<1>9. /\ \A d, k, n \in Nat : ~Has(Line, d, k, n)
      /\ ~HasIn(Line) /\ Ordered(Line) /\ InFirst(Line) /\ SameLength(Line)
  BY <1>8 DEF Has, HasIn, Ordered, InFirst, SameLength
<1>10. DOMAIN toMcu = 1..2 /\ \A i \in 1..2 : toMcu[i].tag # "PREPARE_IN" /\ toMcu[i].tag # "DISCONNECT"
  BY <1>1, <1>2
<1>11. Prep(toMcu) = {} /\ AllNot(toMcu, "DISCONNECT")
  BY <1>10 DEF Prep, AllNot
<1>12. OnePrep(toMcu) /\ (\A c : ~Prepared(toMcu, c)) /\ Chain(hid, toMcu)
  BY <1>11 DEF OnePrep, Prepared, Chain
<1>13. CommandInv
  BY <1>4, <1>9 DEF CommandInv
<1>14. ReceiveInv /\ NoLossInv /\ ~Transmitting
  BY <1>4, <1>9 DEF Init, ReceiveInv, Receiving, NoLossInv, Transmitting
<1>15. ResponseInv
  BY <1>12, <1>14 DEF Init, ResponseInv
<1>16. OwnInv
  BY <1>4, <1>9, <1>12, <1>14 DEF Init, OwnInv
<1>17. AllNot(toApp, "OUT") /\ AllNot(toApp, "SET_ADDRESS") /\ AllNot(toApp, "SET_CONFIGURATION")
  BY <1>1 DEF AllNot
<1>18. BootInv
  BY <1>1, <1>2, <1>6, <1>11, <1>17 DEF Init, BootInv, Fresh, Setups
<1>. QED
  BY <1>5, <1>7, <1>13, <1>14, <1>15, <1>16, <1>18 DEF IInv, ApduInv

LEMMA QuietStep ==
  ASSUME SameThread, TypeInv, ThreadsInv, ApduInv,
         \/ ConfigConnect \/ ConfigAddr \/ ConfigDisconnect \/ ConfigEndpoints \/ FlushNext \/ OtherEvent
         \/ SendXfer("main") \/ SendXfer("sender")
  PROVE  TypeInv' /\ ThreadsInv' /\ ApduInv'
<1>1. UNCHANGED <<hostVars, hid, answer, raised, apdu, handled, cut, rx, tx, busy, dev, restarts>>
  BY DEF ConfigConnect, ConfigAddr, ConfigDisconnect, ConfigEndpoints, FlushNext, OtherEvent, SendXfer,
         ReadState, ReadLen, KeepPacket, PostPacket, mcuVars, devVars
<1>2. TypeInv' /\ ThreadsInv' /\ SameLine(Line, Line') /\ SamePrep(toMcu, toMcu')
  <2>1. CASE ConfigConnect \/ ConfigAddr \/ ConfigDisconnect \/ ConfigEndpoints
    BY <2>1, SetupStep, DisconnectStep, EndpointsStep, SelfLine
  <2>2. CASE FlushNext \/ OtherEvent
    <3>1. toMcu' = toMcu
      BY <2>2 DEF FlushNext, OtherEvent
    <3>. QED
      BY <2>2, <3>1, FlushStep, OtherStep, SelfLine, SelfPrep
  <2>3. ASSUME NEW t \in Threads, SendXfer(t) PROVE TypeInv' /\ ThreadsInv' /\ SameLine(Line, Line') /\ SamePrep(toMcu, toMcu')
    <3>1. toMcu' = toMcu
      BY <2>3 DEF SendXfer, ReadState, ReadLen, KeepPacket, PostPacket
    <3>2. TypeInv' /\ ThreadsInv' /\ SameLine(Line, Line')
      BY <2>3, ReadStep, KeepStep, PostStep, SelfLine DEF SendXfer
    <3>. QED
      BY <3>1, <3>2, SelfPrep
  <2>. QED
    BY <2>1, <2>2, <2>3 DEF Threads
<1>. QED
  BY <1>1, <1>2, Quiet

LEMMA NextInv ==
  ASSUME SameThread, IInv, [Next]_vars
  PROVE  IInv'
<1>. USE DEF IInv
<1>1. CASE StartExchange
  BY <1>1, StartStep, StartApdu, BootStill
<1>2. CASE Timeout
  BY <1>2, TimeoutStep, TimeoutApdu, BootStill
<1>3. CASE SendChunk
  BY <1>3, ChunkStep, ChunkApdu, BootStill
<1>4. CASE SendXfer("sender") \/ SendXfer("main")
  <2>1. BootInv'
    BY <1>4, BootStill, BootQueued DEF SendXfer, Threads
  <2>. QED
    BY <1>4, <2>1, QuietStep
<1>5. CASE ConfigConnect \/ ConfigDisconnect \/ ConfigAddr
  BY <1>5, QuietStep, BootConfig
<1>6. CASE ConfigEndpoints \/ FlushNext
  BY <1>6, QuietStep, BootStill
<1>7. CASE Prepare
  BY <1>7, PrepareStep, PrepareApdu, BootStill DEF ApduInv
<1>8. CASE Answer
  BY <1>8, AnswerStep, AnswerApdu, BootStill
<1>9. CASE DeviceStep
  BY <1>9, SetupApdu, OutApdu, InApdu, BootDevice DEF DeviceStep
<1>10. CASE Respond
  BY <1>10, RespondApdu, BootRespond
<1>11. CASE Restart
  <2>1. BootInv'
    BY <1>11 DEF Restart, BootInv, TypeInv
  <2>. QED
    BY <1>11, <2>1, RestartApdu
<1>12. CASE OtherEvent
  BY <1>12, QuietStep, BootQueued
<1>13. CASE UNCHANGED vars
  <2>1. UNCHANGED <<host, cmd, next, late, state, packets, flush, hid, answer, pc, out, raised, toApp, toMcu, dev, rx,
                    tx, busy, apdu, handled, cut, restarts>>
    BY <1>13 DEF vars, hostVars, mcuVars, devVars
  <2>2. TypeInv' /\ ThreadsInv' /\ Line' = Line
    BY <2>1 DEF TypeInv, ThreadsInv, ThreadOk, MainIdle, Line
  <2>3. ApduInv' /\ BootInv'
    BY <2>1, <2>2, SelfLine, SelfPrep, Quiet, BootQuiet DEF hostVars
  <2>. QED
    BY <2>2, <2>3
<1>. QED
  BY <1>1, <1>2, <1>3, <1>4, <1>5, <1>6, <1>7, <1>8, <1>9, <1>10, <1>11, <1>12, <1>13
     DEF Next, SenderStep, MainStep

-----------------------------------------------------------------------------
(* The transport implements the abstract exchange.                         *)

\* A complete command is delivered once, and after the ones before it.
LEMMA OutDelivers ==
  ASSUME TypeInv, ThreadsInv, ApduInv, USBD_LEDGER_HID_data_out
  PROVE  \/ UNCHANGED <<apdu, handled>>
         \/ /\ handled' \in (handled + 1)..cmd.id /\ apdu' = apdu \cup {handled'}
            /\ ~late => Pending /\ handled' = cmd.id
<1>1. PICK c : c = Head(toApp)
  OBVIOUS
<1>2. Receive("OUT")
  BY DEF USBD_LEDGER_HID_data_out
<1>3. c.id \in Nat /\ c.seq \in Nat /\ c.len \in Nat /\ handled < c.id /\ c.id <= cmd.id /\ Has(Line, c.id, c.seq, c.len)
  BY <1>1, <1>2, OutHead
<1>4. ~late => Pending /\ c.id = cmd.id
  BY <1>3 DEF ApduInv, OwnInv
<1>. SUFFICES ASSUME ~UNCHANGED <<apdu, handled>> PROVE handled' = c.id /\ apdu' = apdu \cup {handled'}
  BY <1>3, <1>4 DEF TypeInv
<1>5. dev = "CONFIGURED" /\ rx' = ProcessApduChunk(c) /\ Complete(c)
      /\ handled' = rx'.data[1][1] /\ apdu' = apdu \cup {handled'}
  BY <1>1 DEF USBD_LEDGER_HID_data_out
<1>6. c.seq = rx.seq
  BY <1>5 DEF Complete
<1>7. ProcessApduChunk(c).data = Chunks(c.id, c.seq + 1) /\ Chunks(c.id, c.seq + 1)[1][1] = c.id
  BY <1>1, <1>2, <1>5, <1>6, Assembled
<1>. QED
  BY <1>5, <1>7

LEMMA ExchangeStep ==
  ASSUME SameThread, IInv, IInv', [Next]_vars
  PROVE  [Exchange!ENext]_(Exchange!exchange)
<1>. USE DEF IInv
<1>1. /\ cmd.id \in Nat /\ late \in BOOLEAN /\ host \in {"idle", "failed", "sending", "waiting"}
  BY DEF TypeInv
<1>2. CASE StartExchange
  <2>1. /\ host \in {"idle", "failed"} /\ host' = "sending" /\ UNCHANGED <<handled, apdu, late>>
        /\ cmd'.id = cmd.id + 1
    BY <1>2 DEF StartExchange, devVars
  <2>2. Phase = host /\ Phase' = "sent"
    BY <2>1 DEF Phase
  <2>3. Exchange!Send
    BY <2>1, <2>2 DEF Exchange!Send
  <2>. QED
    BY <2>3 DEF Exchange!ENext
<1>3. CASE Timeout
  <2>1. host = "waiting" /\ host' = "failed" /\ UNCHANGED <<cmd, handled, apdu>> /\ late' = (late \/ ~Dead)
    BY <1>3 DEF Timeout, devVars
  <2>2. Phase = "sent" /\ Phase' = "failed"
    BY <2>1 DEF Phase
  <2>3. late' \in {late, TRUE} /\ (~late' => apdu = {})
    BY <1>1, <2>1 DEF Dead
  <2>4. Exchange!GiveUp
    BY <2>1, <2>2, <2>3 DEF Exchange!GiveUp
  <2>. QED
    BY <2>4 DEF Exchange!ENext
<1>4. ASSUME UNCHANGED <<cmd, late, apdu, handled>>, host' = host \/ (host = "sending" /\ host' = "waiting")
      PROVE  UNCHANGED Exchange!exchange
  BY <1>4 DEF Phase, Exchange!exchange
<1>5. CASE Answer
  <2>1. UNCHANGED <<cmd, late, apdu, handled>> /\ answer # <<>>
    BY <1>5 DEF Answer, devVars
  <2>2. CASE host' = host
    BY <1>4, <2>1, <2>2
  <2>3. CASE host = "waiting" /\ host' = "idle"
    <3>1. ~late => handled = cmd.id /\ apdu = {}
      BY <2>1 DEF ApduInv, OwnInv
    <3>2. Phase = "sent" /\ Phase' = "idle"
      BY <2>3 DEF Phase
    <3>3. Exchange!Complete
      BY <2>1, <3>1, <3>2 DEF Exchange!Complete
    <3>. QED
      BY <3>3 DEF Exchange!ENext
  <2>. QED
    BY <1>5, <2>2, <2>3, AnswerStep
<1>6. CASE Respond
  <2>1. UNCHANGED <<host, cmd, late, handled>> /\ apdu # {} /\ \E id \in apdu : apdu' = apdu \ {id}
    BY <1>6 DEF Respond, hostVars
  <2>2. Phase' = Phase /\ (~late => Phase = "sent")
    BY <2>1 DEF Phase, Pending, ApduInv, OwnInv
  <2>3. Exchange!Respond
    BY <2>1, <2>2 DEF Exchange!Respond
  <2>. QED
    BY <2>3 DEF Exchange!ENext
<1>7. CASE SendChunk
  <2>1. UNCHANGED <<cmd, late, apdu, handled>> /\ (host' = host \/ (host = "sending" /\ host' = "waiting"))
    BY <1>7, ChunkStep DEF SendChunk, devVars
  <2>. QED
    BY <1>4, <2>1
<1>8. CASE USBD_LEDGER_HID_data_out
  <2>1. UNCHANGED <<cmd, host, late>>
    BY <1>8 DEF USBD_LEDGER_HID_data_out, Receive, hostVars
  <2>2. CASE UNCHANGED <<apdu, handled>>
    BY <1>4, <2>1, <2>2
  <2>3. CASE /\ handled' \in (handled + 1)..cmd.id /\ apdu' = apdu \cup {handled'}
             /\ ~late => Pending /\ handled' = cmd.id
    <3>1. Phase' = Phase /\ (~late => Phase = "sent")
      BY <2>1, <2>3 DEF Phase, Pending
    <3>2. handled' # handled
      BY <2>3 DEF TypeInv
    <3>3. handled' \in IF late THEN (handled + 1)..cmd.id ELSE {cmd.id} \ {handled}
      BY <1>1, <2>3, <3>2
    <3>4. Exchange!Deliver
      BY <2>1, <2>3, <3>1, <3>3 DEF Exchange!Deliver
    <3>. QED
      BY <3>4 DEF Exchange!ENext
  <2>. QED
    BY <1>8, <2>2, <2>3, OutDelivers
<1>9. CASE USBD_SetAddress \/ USBD_SetConfig \/ USBD_LEDGER_HID_data_in \/ ReceiveOther \/ Restart \/ OtherEvent
  <2>1. UNCHANGED <<host, cmd, late, apdu, handled>>
    BY <1>9 DEF USBD_SetAddress, USBD_SetConfig, USBD_LEDGER_HID_data_in, ReceiveOther, Restart, OtherEvent,
                Receive, hostVars, devVars
  <2>. QED
    BY <1>4, <2>1
<1>10. CASE \/ ConfigConnect \/ ConfigDisconnect \/ ConfigAddr \/ ConfigEndpoints \/ FlushNext \/ Prepare
            \/ SendXfer("main") \/ SendXfer("sender") \/ UNCHANGED vars
  <2>1. UNCHANGED <<host, cmd, late, apdu, handled>>
    BY <1>10 DEF ConfigConnect, ConfigDisconnect, ConfigAddr, ConfigEndpoints, FlushNext, Prepare, SendXfer,
                 ReadState, ReadLen, KeepPacket, PostPacket, hostVars, devVars, vars
  <2>. QED
    BY <1>4, <2>1
<1>. QED
  BY <1>2, <1>3, <1>5, <1>6, <1>7, <1>8, <1>9, <1>10 DEF Next, SenderStep, MainStep, DeviceStep

\* A chunk at the head of the queue is the one that the class expects.
LEMMA ExpectedChunk ==
  ASSUME IInv, restarts = 0, toApp # <<>>, Head(toApp).tag = "OUT"
  PROVE  dev = "CONFIGURED" /\ Head(toApp).seq = rx.seq
<1>. USE DEF IInv
<1>1. state = "CONFIGURED" /\ dev = "CONFIGURED"
  BY OutConfigured
<1>2. PICK c : c = Head(toApp)
  OBVIOUS
<1>3. Line # <<>> /\ c = Head(Line) /\ Line \in Seq(PacketSet) /\ c.tag = "OUT"
  <2>. DEFINE r == packets \o (Posting(out["main"]) \o (flush \o Posting(out["sender"])))
  <2>1. r \in Seq(PacketSet) /\ toApp \in Seq(PacketSet)
    BY LineTyped, QueueTyped DEF TypeInv
  <2>2. Line = toApp \o r
    BY DEF Line, Queue
  <2>. HIDE DEF r
  <2>3. toApp \o r # <<>> /\ Head(toApp \o r) = Head(toApp)
    BY <2>1, TakeFirst
  <2>. QED
    BY <1>2, <2>2, <2>3, LineTyped
<1>4. /\ c \in PacketSet /\ Has(Line, c.id, c.seq, c.len)
      /\ \A d, k, n \in Nat : Has(Line, d, k, n) => Is(c, d, k, n) \/ Before(c.id, c.seq, d, k)
  BY <1>3, HeadLine DEF ApduInv, CommandInv
<1>5. c.id \in Nat /\ c.seq \in Nat /\ c.len \in Nat /\ 0 \in Nat
  BY <1>4 DEF PacketSet
<1>6. Begun(c.id, c.len)
  BY <1>4, <1>5 DEF ApduInv, NoLossInv
<1>7. CASE rx.seq = 0
  <2>1. Has(Line, c.id, 0, c.len)
    BY <1>6, <1>7 DEF Begun
  <2>2. c.seq = 0 \/ c.seq < 0
    BY <1>4, <1>5, <2>1 DEF Is, Before
  <2>. QED
    BY <1>1, <1>2, <1>5, <1>7, <2>2
<1>8. CASE rx.seq # 0
  <2>1. /\ RxId \in Nat /\ rx.seq \in Nat /\ rx.len \in Nat /\ rx.seq < rx.len
        /\ \A d, k, n \in Nat : Has(Line, d, k, n) => RxId < d \/ (d = RxId /\ k >= rx.seq /\ n = rx.len)
        /\ \A k \in rx.seq..(Top(RxId, rx.len) - 1) : Has(Line, RxId, k, rx.len)
    BY <1>1, <1>8 DEF ApduInv, ReceiveInv, Receiving
  <2>2. /\ c.id <= cmd.id /\ (c.id = cmd.id => c.seq < next) /\ cmd.id \in Nat /\ next \in Nat
    BY <1>4, <1>5 DEF ApduInv, CommandInv, TypeInv
  <2>3. RxId < c.id \/ (c.id = RxId /\ c.seq >= rx.seq)
    BY <1>4, <1>5, <2>1
  <2>4. rx.seq \in rx.seq..(Top(RxId, rx.len) - 1)
    <3>1. CASE RxId = cmd.id
      <4>1. Top(RxId, rx.len) = next
        BY <3>1 DEF Top
      <4>. QED
        BY <1>5, <2>1, <2>2, <2>3, <3>1, <4>1
    <3>2. CASE RxId # cmd.id
      <4>1. Top(RxId, rx.len) = rx.len
        BY <3>2 DEF Top
      <4>. QED
        BY <2>1, <4>1
    <3>. QED
      BY <3>1, <3>2
  <2>5. (c.id = RxId /\ c.seq = rx.seq) \/ c.id < RxId \/ (c.id = RxId /\ c.seq < rx.seq)
    BY <1>4, <2>1, <2>4 DEF Is, Before
  <2>. QED
    BY <1>1, <1>2, <1>5, <2>1, <2>3, <2>5
<1>. QED
  BY <1>7, <1>8

-----------------------------------------------------------------------------
\* The invariant holds when the commands come from the main thread.
THEOREM TransportInvariant == SameThread => (Spec => []IInv)
<1>. SUFFICES ASSUME SameThread PROVE Spec => []IInv
  OBVIOUS
<1>1. Init => IInv
  BY InitInv
<1>2. IInv /\ [Next]_vars => IInv'
  BY NextInv
<1>. QED
  BY <1>1, <1>2, PTL DEF Spec

\* Whenever clients give up and the stack is restarted, and whatever the
\* lengths of the APDUs: process_apdu_chunk never mixes two commands;
\* unless the application answered while the class was busy, _prepare never
\* raises and returns the chunks of one response; and as long as no client
\* gave up an exchange on its way, of the response to its own command.
THEOREM WholeApdus == SameThread => (Spec => []ApdusWhole)
<1>. SUFFICES ASSUME SameThread PROVE Spec => []ApdusWhole
  OBVIOUS
<1>1. ASSUME IInv PROVE ApdusWhole
  <2>. USE <1>1 DEF IInv, ApduInv
  <2>1. ASSUME dev = "CONFIGURED", rx.seq # 0
        PROVE  \E id \in (handled + 1)..cmd.id : rx.data = Chunks(id, rx.seq) /\ (id = cmd.id => rx.len = cmd.len)
    <3>1. /\ RxId \in Nat /\ handled < RxId /\ RxId <= cmd.id /\ rx.data = Chunks(RxId, rx.seq)
          /\ RxId = cmd.id => rx.len = cmd.len
      BY <2>1 DEF ReceiveInv, Receiving
    <3>2. RxId \in (handled + 1)..cmd.id
      BY <3>1 DEF TypeInv
    <3>. QED
      BY <3>1, <3>2
  <2>2. ~cut => /\ ~raised
                /\ answer # <<>> => \E id \in 1..handled : answer = Chunks(id, Len(answer))
    BY DEF ResponseInv
  <2>3. ~late /\ answer # <<>> => host = "waiting" /\ answer = Chunks(cmd.id, Len(answer))
    BY DEF OwnInv
  <2>. QED
    BY <2>1, <2>2, <2>3 DEF ApdusWhole
<1>2. Spec => []IInv
  BY TransportInvariant
<1>. QED
  BY <1>1, <1>2, PTL

\* Until the first restart every chunk reaches a configured class, and in
\* sequence, whenever clients give up: none is ignored by
\* USBD_LL_DataOutStage or process_apdu_chunk.
THEOREM ChunksInSequence == SameThread => (Spec => []NoChunkIgnored)
<1>. SUFFICES ASSUME SameThread PROVE Spec => []NoChunkIgnored
  OBVIOUS
<1>1. IInv => NoChunkIgnored
  BY ExpectedChunk DEF NoChunkIgnored
<1>2. Spec => []IInv
  BY TransportInvariant
<1>. QED
  BY <1>1, <1>2, PTL

\* As long as no client gave up an exchange that was on its way,
\* USBD_LEDGER_HID_send_packet finds the class idle, so that it transmits
\* the first chunk of every response of a configured device.
THEOREM ClassIdle == SameThread => (Spec => []ReadyToAnswer)
<1>. SUFFICES ASSUME SameThread PROVE Spec => []ReadyToAnswer
  OBVIOUS
<1>1. ASSUME IInv PROVE ReadyToAnswer
  <2>1. ~late => ~cut /\ (apdu # {} /\ dev = "CONFIGURED" => ~busy)
    BY <1>1 DEF IInv, ApduInv, OwnInv
  <2>. QED
    BY <2>1 DEF ReadyToAnswer
<1>2. Spec => []IInv
  BY TransportInvariant
<1>. QED
  BY <1>1, <1>2, PTL

\* The transport implements ApduExchange: commands are delivered in order,
\* at most once and after they were sent, and answered at most once; until
\* a client gives up an exchange that is on its way, nothing of an earlier
\* exchange is left, and the client gets the answer to its own command or
\* gives up before it sends the next one.
THEOREM ImplementsExchange == SameThread => (Spec => IsExchange)
<1>. SUFFICES ASSUME SameThread PROVE Spec => IsExchange
  OBVIOUS
<1>1. Init => Exchange!EInit
  BY DEF Init, Exchange!EInit, Phase, NoCmd, NoId
<1>2. IInv /\ IInv' /\ [Next]_vars => [Exchange!ENext]_(Exchange!exchange)
  BY ExchangeStep
<1>3. Spec => []IInv
  BY TransportInvariant
<1>. QED
  BY <1>1, <1>2, <1>3, PTL DEF Spec, IsExchange, Exchange!ESpec
=============================================================================
