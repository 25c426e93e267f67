------------------------------- MODULE SephIo -------------------------------
(***************************************************************************)
(* The application's end of the SEPH socket: sys_os_io_seph_tx and         *)
(* sys_os_io_seph_se_rx_event (src/bolos/io/io.c), and the layer of        *)
(* os_io.c above them, which reads an event when a command is refused in   *)
(* the wrong state and keeps it for the next os_io_rx_evt.                 *)
(*                                                                         *)
(* A packet is a header of Header bytes (tag and length) and a body; it    *)
(* may be given to seph_tx in pieces.  A piece is what seph_tx sees of it: *)
(* its number of bytes n, whether its first byte has the bits of a status  *)
(* tag, and the packet length its second and third bytes declare.  The     *)
(* application gives any pieces in any order: nothing in the code makes    *)
(* them fit each other.  The MCU parses the bytes on its own, and answers  *)
(* a status with one event.                                                *)
(***************************************************************************)
EXTENDS Integers, Sequences

CONSTANTS
  Header,       \* bytes before the body (3)
  MaxPacket,    \* OS_IO_SEPH_BUFFER_SIZE
  Sizes,        \* numbers of bytes the application gives in one call
  Declared,     \* body lengths that the header of a piece declares
  UsbTries,     \* events os_io_tx_cmd reads for a USB packet (5)
  MaxEvents     \* bound: events the MCU sends

ASSUME SephAssumption ==
  /\ Header \in Nat \ {0} /\ MaxPacket \in Nat /\ MaxEvents \in Nat /\ UsbTries \in Nat
  /\ Sizes \subseteq Nat /\ Declared \subseteq Nat

VARIABLES
  seph,         \* G_seph_info: state, len, off, status (of the tag)
  cached,       \* G_io_seph_buffer_size # 0: the event kept there (0: none)
  at,           \* "idle", or in "rx_evt" with the general status sent
  tries,        \* events os_io_tx_cmd may still read for a USB packet (0: not in that loop)
  mcu,          \* the MCU's parser: left bytes, status; owes: an event is due
  inbox,        \* events on their way to the application
  sentEvents,   \* number of events the MCU sent
  seen,         \* the events that os_io_rx_evt gave to the application
  drained,      \* history: those that os_io_tx_cmd read for a USB packet
  lost,         \* history: those that were overwritten or cleared in the buffer
  careless,     \* history: a status ended, or os_io_init was called, with an event kept
  torn          \* history: the first piece of a packet was refused with -24

sephVars == <<seph, cached, at, tries, mcu, inbox, sentEvents, seen, drained, lost, careless, torn>>

SephInit ==
  /\ seph = [state |-> "SEND_CMD", len |-> 0, off |-> 0, status |-> FALSE]
  /\ cached = 0 /\ at = "idle" /\ tries = 0
  /\ mcu = [left |-> 0, status |-> FALSE, owes |-> FALSE]
  /\ inbox = <<>> /\ sentEvents = 0 /\ seen = <<>>
  /\ drained = {} /\ lost = {} /\ careless = FALSE /\ torn = FALSE

-----------------------------------------------------------------------------
(* sys_os_io_seph_tx: what a piece c makes of the state q, what the call   *)
(* returns, and how many bytes it wrote.                                   *)
Call(q, ret, wrote) == [q |-> q, ret |-> ret, wrote |-> wrote]
TagOfPiece(q, c) ==                                                         \* mutant
  LET len == IF q.len = 0 THEN c.decl ELSE q.len
      off == (IF q.len = 0 THEN 0 ELSE q.off) + c.n
  IN  IF q.state = "WAIT_EVENT" THEN Call(q, IF q.len = 0 /\ c.status THEN c.n ELSE -1, 0)
      ELSE IF (c.n < Header /\ q.len = 0) \/ len > MaxPacket \/ off > len THEN Call(q, -23, 0)
      ELSE Call([state |-> IF off = len /\ c.status THEN "WAIT_EVENT" ELSE q.state, len |-> IF off = len THEN 0 ELSE len,
                 off |-> off, status |-> FALSE], c.n, c.n)
SephTx(q, c) ==
  LET starts == q.len = 0
      p == IF starts THEN [q EXCEPT !.len = c.decl, !.off = 0, !.status = c.status] ELSE q
      done == p.off + c.n = p.len
  IN  IF c.n = 0 THEN Call(q, -22, 0)
      ELSE IF q.state = "WAIT_EVENT" THEN Call(q, IF starts /\ c.status THEN c.n ELSE -1, 0)
      ELSE IF starts /\ c.n < Header THEN Call(q, -23, 0)
      ELSE IF starts /\ c.decl > MaxPacket THEN Call([q EXCEPT !.len = 0], -25, 0)
      ELSE IF p.off + c.n > p.len THEN Call(p, -24, 0)
      ELSE Call([state |-> IF done /\ p.status THEN "WAIT_EVENT" ELSE q.state,
                 len |-> IF done THEN 0 ELSE p.len,
                 off |-> p.off + c.n,
                 status |-> p.status /\ ~done], c.n, c.n)

\* sys_os_io_seph_se_rx_event once an event was read.
SephRx(q) == [q EXCEPT !.state = "SEND_CMD", !.len = 0]

(* What the MCU makes of the n bytes that piece c wrote.  Once the two     *)
(* ends count different packets, it may find a status anywhere in them.    *)
Parse(m, c, n) ==
  LET head == m.left = 0
      left == (IF head THEN c.decl ELSE m.left) - n
      status == IF head THEN c.status ELSE m.status
  IN  IF n = 0 THEN m
      ELSE [left |-> left, status |-> status, owes |-> m.owes \/ (left = 0 /\ status)]
Anywhere(m) == {[m EXCEPT !.owes = owes] : owes \in {m.owes, TRUE}}

McuEvent ==
  /\ mcu.owes /\ sentEvents < MaxEvents
  /\ mcu' = [mcu EXCEPT !.owes = FALSE]
  /\ sentEvents' = sentEvents + 1 /\ inbox' = Append(inbox, sentEvents')
  /\ UNCHANGED <<seph, cached, at, tries, seen, drained, lost, careless, torn>>

-----------------------------------------------------------------------------
\* What a call t of seph_tx with piece c from the state q leaves at both ends.
Transmitted(q, c, t) ==
  /\ seph' = t.q
  /\ torn' = (torn \/ (q.len = 0 /\ t.ret = -24))
  /\ IF torn THEN mcu' \in (IF t.wrote = 0 THEN {mcu} ELSE Anywhere(mcu))
     ELSE mcu' = Parse(mcu, c, t.wrote)
  /\ careless' = (careless \/ (cached' # 0 /\ seph'.state = "WAIT_EVENT"))

EventDropped(c) ==                                                          \* mutant
  \/ /\ SephTx(seph, c).ret # -1
     /\ UNCHANGED <<cached, inbox, lost>> /\ Transmitted(seph, c, SephTx(seph, c))
  \/ /\ SephTx(seph, c).ret = -1 /\ inbox # <<>>
     /\ inbox' = Tail(inbox) /\ UNCHANGED <<cached, lost>>
     /\ Transmitted(SephRx(seph), c, SephTx(SephRx(seph), c))
(* os_io_tx_cmd, OS_IO_PACKET_TYPE_SEPH: a piece refused with -1 waits for *)
(* an event, which is kept, over one that was kept already, and is sent    *)
(* again.                                                                  *)
TxCmd(c) ==
  \/ /\ SephTx(seph, c).ret # -1
     /\ UNCHANGED <<cached, inbox, lost>>
     /\ Transmitted(seph, c, SephTx(seph, c))
  \/ /\ SephTx(seph, c).ret = -1 /\ inbox # <<>>
     /\ cached' = Head(inbox) /\ inbox' = Tail(inbox)
     /\ lost' = lost \cup ({cached} \ {0})
     /\ Transmitted(SephRx(seph), c, SephTx(SephRx(seph), c))

\* The application, or the USB stack below it, gives a piece.
Send ==
  /\ at = "idle"
  /\ \E n \in Sizes, status \in BOOLEAN, body \in Declared :
       TxCmd([n |-> n, status |-> status, decl |-> Header + body])
  /\ UNCHANGED <<at, tries, sentEvents, seen, drained>>

\* os_io_init empties the buffer.
IoInit ==
  /\ at = "idle" /\ tries = 0
  /\ cached' = 0 /\ lost' = lost \cup ({cached} \ {0}) /\ careless' = (careless \/ cached # 0)
  /\ UNCHANGED <<seph, at, tries, mcu, inbox, sentEvents, seen, drained, torn>>

(* os_io_tx_cmd with a USB packet: once its pieces are sent it reads       *)
(* events as long as the class is busy, a few at most.                     *)
UsbWait ==
  /\ at = "idle" /\ tries = 0 /\ tries' = UsbTries
  /\ UNCHANGED <<seph, cached, at, mcu, inbox, sentEvents, seen, drained, lost, careless, torn>>
UsbSent ==
  /\ at = "idle" /\ tries > 0 /\ tries' = 0
  /\ UNCHANGED <<seph, cached, at, mcu, inbox, sentEvents, seen, drained, lost, careless, torn>>

-----------------------------------------------------------------------------
\* os_io_rx_evt: the kept event, or one from the socket, after a general
\* status when the state is wrong.  In the loop for a USB packet its result
\* is not looked at.
Counted == IF tries = 0 THEN 0 ELSE tries - 1
Give(e) ==
  /\ tries' = Counted
  /\ \/ tries = 0 /\ seen' = Append(seen, e) /\ UNCHANGED drained
     \/ tries # 0 /\ drained' = drained \cup {e} /\ UNCHANGED seen

RxCached ==
  /\ at = "idle" /\ cached # 0
  /\ Give(cached) /\ cached' = 0
  /\ UNCHANGED <<seph, at, mcu, inbox, sentEvents, lost, careless, torn>>

GeneralStatus == [n |-> Header + 2, status |-> TRUE, decl |-> Header + 2]

\* The status may be refused, or be taken for the rest of another packet.
RxStatus ==
  /\ at = "idle" /\ cached = 0 /\ seph.state = "SEND_CMD"
  /\ TxCmd(GeneralStatus)
  /\ \/ seph'.state = "WAIT_EVENT" /\ at' = "rx_evt" /\ UNCHANGED tries
     \/ seph'.state # "WAIT_EVENT" /\ at' = "idle" /\ tries' = Counted
  /\ UNCHANGED <<sentEvents, seen, drained>>

RxEvent ==
  /\ cached = 0 /\ seph.state = "WAIT_EVENT" /\ inbox # <<>>
  /\ inbox' = Tail(inbox) /\ Give(Head(inbox))
  /\ seph' = SephRx(seph) /\ at' = "idle"
  /\ UNCHANGED <<cached, mcu, sentEvents, lost, careless, torn>>

SephNext ==
  McuEvent \/ Send \/ IoInit \/ UsbWait \/ UsbSent \/ RxCached \/ RxStatus \/ RxEvent

SephSpec == SephInit /\ [][SephNext]_sephVars

-----------------------------------------------------------------------------
(* Properties                                                              *)

(* Both ends agree on whose turn it is and on where the packet being sent  *)
(* ends, whatever was cut in pieces, refused or sent twice: the            *)
(* application waits for an event exactly when one is due or on its way,   *)
(* so neither end waits for the other forever.  This ends with the first   *)
(* piece that starts a packet and is longer than the length it declares:   *)
(* sys_os_io_seph_tx refuses it with -24 after it has noted the packet.    *)
TurnAgreed ==
  ~torn =>
    /\ (seph.state = "WAIT_EVENT") <=> (mcu.owes \/ inbox # <<>>)
    /\ mcu.left = IF seph.len = 0 THEN 0 ELSE seph.len - seph.off
    /\ seph.len # 0 => mcu.status = seph.status

(* The events that the application saw, the kept one and those on their    *)
(* way are in the order the MCU sent them, also when os_io_tx_cmd read one *)
(* in the middle of a command, and are all that were sent, but for those   *)
(* read in the loop of os_io_tx_cmd for a USB packet and those lost in the *)
(* buffer.  None is lost there unless the application ends a status of its *)
(* own or calls os_io_init while an event is kept.                         *)
EventsInOrder ==
  LET kept == IF cached = 0 THEN <<>> ELSE <<cached>>
      all == seen \o kept \o inbox
  IN  /\ \A i, j \in 1..Len(all) : i < j => all[i] < all[j]
      /\ {all[i] : i \in 1..Len(all)} = (1..sentEvents) \ (drained \cup lost)
      /\ careless \/ lost = {}
=============================================================================
