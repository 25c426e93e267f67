---------------------------- MODULE SephIo_proof ----------------------------
(***************************************************************************)
(* For every packet length and number of events, and whatever pieces the   *)
(* application gives: until a packet is torn the two ends of the SEPH      *)
(* socket agree on whose turn it is, and the events are seen in order.     *)
(* The invariant lists the three turns there are, says that both ends miss *)
(* the same bytes of a packet that is half sent, and where the events are. *)
(***************************************************************************)
EXTENDS SephIo, SequenceTheorems, TLAPS

States == [state : {"SEND_CMD", "WAIT_EVENT"}, len : Nat, off : Nat, status : BOOLEAN]
Pieces == [n : Nat, status : BOOLEAN, decl : Nat]
Parsers == [left : Int, status : BOOLEAN, owes : BOOLEAN]

SephTypes ==
  /\ seph \in States /\ mcu \in Parsers
  /\ at \in {"idle", "rx_evt"}
  /\ cached \in Nat /\ tries \in Nat /\ sentEvents \in Nat
  /\ careless \in BOOLEAN /\ torn \in BOOLEAN
  /\ seen \in Seq(Nat) /\ inbox \in Seq(Nat)

\* A packet that is half sent has the same bytes left and the same tag at both ends.
SamePacket(q, m) ==
  /\ q.len = 0 => m.left = 0
  /\ q.len # 0 => q.off < q.len /\ m.left = q.len - q.off /\ m.status = q.status

Turn ==
  \/ seph.state = "SEND_CMD" /\ mcu.owes = FALSE /\ Len(inbox) = 0
  \/ seph.state = "WAIT_EVENT" /\ mcu.owes = TRUE /\ Len(inbox) = 0
  \/ seph.state = "WAIT_EVENT" /\ mcu.owes = FALSE /\ Len(inbox) = 1

Increasing(s) == \A i, j \in 1..Len(s) : i < j => s[i] < s[j]
Elements(s) == {s[i] : i \in 1..Len(s)}
Below(S, T) == \A x \in S, y \in T : x < y
Kept == {cached} \ {0}

Events(S, K, B, n, gone) ==
  /\ Below(S, K) /\ Below(S, B) /\ Below(K, B)
  /\ S \cup K \cup B = (1..n) \ gone

EventsInv ==
  /\ Increasing(seen) /\ Increasing(inbox)
  /\ Events(Elements(seen), Kept, Elements(inbox), sentEvents, drained \cup lost)
  /\ drained \cup lost \subseteq 1..sentEvents
  /\ careless \/ lost = {}

SephInv ==
  /\ SephTypes
  /\ seph.state = "WAIT_EVENT" => seph.len = 0
  /\ at = "rx_evt" => cached = 0
  /\ ~careless => cached = 0 \/ seph.state = "SEND_CMD"
  /\ ~torn => Turn /\ SamePacket(seph, mcu)
  /\ EventsInv

---------------------------------------------------------------------------
(* Sequences of events                                                     *)

\* The first of the events on their way is before all others.
LEMMA FirstTaken ==
  ASSUME NEW s \in Seq(Nat), s # <<>>, Increasing(s)
  PROVE  /\ Head(s) \in Nat /\ Tail(s) \in Seq(Nat) /\ Len(Tail(s)) = Len(s) - 1 /\ Increasing(Tail(s))
         /\ Elements(s) = {Head(s)} \cup Elements(Tail(s))
         /\ Below({Head(s)}, Elements(Tail(s)))
<1>1. Len(s) \in Nat /\ Len(s) > 0 /\ Head(s) = s[1] /\ Head(s) \in Nat
  OBVIOUS
<1>2. /\ Tail(s) \in Seq(Nat) /\ Len(Tail(s)) = Len(s) - 1
      /\ \A i \in 1..Len(Tail(s)) : Tail(s)[i] = s[i + 1]
  BY <1>1
<1>3. Increasing(Tail(s))
  BY <1>1, <1>2 DEF Increasing
<1>4. Elements(s) \subseteq {Head(s)} \cup Elements(Tail(s))
  <2> SUFFICES ASSUME NEW i \in 1..Len(s), i # 1 PROVE s[i] \in Elements(Tail(s))
    BY <1>1 DEF Elements
  <2>1. i - 1 \in 1..Len(Tail(s)) /\ Tail(s)[i - 1] = s[i]
    BY <1>1, <1>2
  <2> QED
    BY <2>1 DEF Elements
<1>5. {Head(s)} \cup Elements(Tail(s)) \subseteq Elements(s)
  <2>1. \A i \in 1..Len(Tail(s)) : i + 1 \in 1..Len(s)
    BY <1>1, <1>2
  <2>2. 1 \in 1..Len(s)
    BY <1>1
  <2> QED
    BY <1>1, <1>2, <2>1, <2>2 DEF Elements
<1>6. Below({Head(s)}, Elements(Tail(s)))
  <2>1. \A i \in 1..Len(Tail(s)) : i + 1 \in 1..Len(s) /\ 1 < i + 1 /\ 1 \in 1..Len(s)
    BY <1>1, <1>2
  <2>2. \A i \in 1..Len(Tail(s)) : s[1] < Tail(s)[i]
    BY <1>2, <2>1 DEF Increasing
  <2> QED
    BY <1>1, <2>2 DEF Below, Elements
<1> QED
  BY <1>1, <1>2, <1>3, <1>4, <1>5, <1>6

\* A later event at the end.
LEMMA LastAdded ==
  ASSUME NEW s \in Seq(Nat), NEW e \in Nat, Increasing(s), Below(Elements(s), {e})
  PROVE  /\ Append(s, e) \in Seq(Nat) /\ Len(Append(s, e)) = Len(s) + 1 /\ Increasing(Append(s, e))
         /\ Elements(Append(s, e)) = Elements(s) \cup {e}
<1> DEFINE t == Append(s, e)
<1>1. /\ t \in Seq(Nat) /\ Len(t) = Len(s) + 1 /\ Len(s) \in Nat
      /\ \A i \in 1..Len(s) : t[i] = s[i]
      /\ t[Len(s) + 1] = e
  OBVIOUS
<1> HIDE DEF t
<1>2. \A i \in 1..Len(s) : s[i] < e
  BY DEF Below, Elements
<1>5. Len(t) = Len(s) + 1 /\ Len(s) \in Nat
  BY <1>1
<1>3. Increasing(t)
  <2> SUFFICES ASSUME NEW i \in 1..Len(t), NEW j \in 1..Len(t), i < j PROVE t[i] < t[j]
    BY DEF Increasing
  <2>1. i \in 1..Len(s)
    BY <1>1
  <2>2. CASE j = Len(s) + 1
    BY <1>1, <1>2, <2>1, <2>2
  <2>3. CASE j # Len(s) + 1
    <3>1. j \in 1..Len(s)
      BY <1>5, <2>3
    <3> QED
      BY <1>1, <2>1, <3>1 DEF Increasing
  <2> QED
    BY <2>2, <2>3
<1>4. Elements(t) = Elements(s) \cup {e}
  <2>1. \A i \in 1..Len(t) : i \in 1..Len(s) \/ i = Len(s) + 1
    BY <1>1
  <2>2. Len(s) + 1 \in 1..Len(t) /\ \A i \in 1..Len(s) : i \in 1..Len(t)
    BY <1>1
  <2> QED
    BY <1>1, <2>1, <2>2 DEF Elements
<1> QED
  BY <1>1, <1>3, <1>4 DEF t

\* Two sequences, one after the other.
LEMMA JoinOrdered ==
  ASSUME NEW s \in Seq(Nat), NEW t \in Seq(Nat), Increasing(s), Increasing(t), Below(Elements(s), Elements(t))
  PROVE  s \o t \in Seq(Nat) /\ Increasing(s \o t) /\ Elements(s \o t) = Elements(s) \cup Elements(t)
<1> DEFINE u == s \o t
<1>1. /\ u \in Seq(Nat) /\ Len(u) = Len(s) + Len(t) /\ Len(s) \in Nat /\ Len(t) \in Nat
      /\ \A i \in 1..Len(u) : u[i] = IF i <= Len(s) THEN s[i] ELSE t[i - Len(s)]
  OBVIOUS
<1> HIDE DEF u
<1>2. \A i \in 1..Len(s) : i \in 1..Len(u) /\ u[i] = s[i]
  BY <1>1
<1>3. \A i \in 1..Len(t) : i + Len(s) \in 1..Len(u) /\ u[i + Len(s)] = t[i]
  <2> SUFFICES ASSUME NEW i \in 1..Len(t) PROVE i + Len(s) \in 1..Len(u) /\ u[i + Len(s)] = t[i]
    OBVIOUS
  <2>1. i + Len(s) \in 1..Len(u) /\ ~(i + Len(s) <= Len(s)) /\ (i + Len(s)) - Len(s) = i
    BY <1>1
  <2> QED
    BY <1>1, <2>1
<1>4. \A i \in 1..Len(u) : i \in 1..Len(s) \/ (i - Len(s) \in 1..Len(t) /\ i > Len(s))
  BY <1>1
<1>5. Increasing(u)
  <2> SUFFICES ASSUME NEW i \in 1..Len(u), NEW j \in 1..Len(u), i < j PROVE u[i] < u[j]
    BY DEF Increasing
  <2>1. CASE i \in 1..Len(s) /\ j \in 1..Len(s)
    BY <1>2, <2>1 DEF Increasing
  <2>2. CASE i \in 1..Len(s) /\ j - Len(s) \in 1..Len(t) /\ j > Len(s)
    <3>1. u[i] = s[i] /\ u[j] = t[j - Len(s)]
      BY <1>1, <2>2
    <3>2. s[i] \in Elements(s) /\ t[j - Len(s)] \in Elements(t)
      BY <2>2 DEF Elements
    <3> QED
      BY <3>1, <3>2 DEF Below
  <2>3. CASE i - Len(s) \in 1..Len(t) /\ i > Len(s)
    <3>1. j - Len(s) \in 1..Len(t) /\ i - Len(s) < j - Len(s) /\ ~(i <= Len(s)) /\ ~(j <= Len(s))
      BY <1>1, <2>3
    <3>2. u[i] = t[i - Len(s)] /\ u[j] = t[j - Len(s)]
      BY <1>1, <3>1
    <3> QED
      BY <2>3, <3>1, <3>2 DEF Increasing
  <2> QED
    BY <1>4, <2>1, <2>2, <2>3
<1>6. Elements(u) \subseteq Elements(s) \cup Elements(t)
  <2> SUFFICES ASSUME NEW i \in 1..Len(u) PROVE u[i] \in Elements(s) \cup Elements(t)
    BY DEF Elements
  <2>1. CASE i \in 1..Len(s)
    BY <1>2, <2>1 DEF Elements
  <2>2. CASE i - Len(s) \in 1..Len(t) /\ i > Len(s)
    <3>1. ~(i <= Len(s))
      BY <1>1, <2>2
    <3>2. u[i] = t[i - Len(s)]
      BY <1>1, <3>1
    <3> QED
      BY <2>2, <3>2 DEF Elements
  <2> QED
    BY <1>4, <2>1, <2>2
<1>7. Elements(s) \cup Elements(t) \subseteq Elements(u)
  BY <1>2, <1>3 DEF Elements
<1> QED
  BY <1>1, <1>5, <1>6, <1>7 DEF u

\* Nothing after the last event.
LEMMA NoneLeft == ASSUME NEW s, s = <<>> PROVE Increasing(s) /\ Elements(s) = {} /\ s \in Seq(Nat)
  BY DEF Increasing, Elements

(* Where the events are: each of these moves one of them.                  *)
LEMMA EventSentMoves ==
  ASSUME NEW S, NEW K, NEW B, NEW n \in Nat, NEW gone, Events(S, K, B, n, gone), gone \subseteq 1..n
  PROVE  Events(S, K, B \cup {n + 1}, n + 1, gone) /\ Below(B, {n + 1})
<1>1. \A x \in S \cup K \cup B : x \in 1..n
  BY DEF Events
<1>2. \A x \in S \cup K \cup B : x < n + 1
  BY <1>1
<1>3. Below(S, B \cup {n + 1}) /\ Below(K, B \cup {n + 1}) /\ Below(B, {n + 1}) /\ Below(S, K)
  BY <1>2 DEF Below, Events
<1>4. S \cup K \cup (B \cup {n + 1}) = (1..(n + 1)) \ gone
  <2>1. 1..(n + 1) = (1..n) \cup {n + 1} /\ n + 1 \notin 1..n
    OBVIOUS
  <2> QED
    BY <2>1 DEF Events
<1> QED
  BY <1>3, <1>4 DEF Events

LEMMA FirstSeen ==
  ASSUME NEW S, NEW K, NEW B, NEW n, NEW gone, NEW e, NEW rest,
         Events(S, K, B, n, gone), K \cup B = {e} \cup rest, Below({e}, rest)
  PROVE  Events(S \cup {e}, {}, rest, n, gone) /\ Below(S, {e})
<1>1. Below(S, {e}) /\ Below(S, rest)
  BY DEF Events, Below
<1>2. Below(S \cup {e}, rest)
  BY <1>1 DEF Below
<1> QED
  BY <1>1, <1>2 DEF Events, Below

LEMMA FirstGone ==
  ASSUME NEW S, NEW K, NEW B, NEW n \in Nat, NEW gone, NEW e, NEW rest,
         Events(S, K, B, n, gone), K \cup B = {e} \cup rest, Below({e}, rest)
  PROVE  Events(S, {}, rest, n, gone \cup {e})
<1>1. e \in 1..n /\ S \subseteq 1..n /\ rest \subseteq 1..n
  BY DEF Events
<1>2. Below(S, rest) /\ e \notin rest /\ e \notin S
  BY <1>1 DEF Events, Below
<1>3. S \cup rest = (1..n) \ (gone \cup {e})
  BY <1>2 DEF Events
<1> QED
  BY <1>2, <1>3 DEF Events, Below

LEMMA FirstKept ==
  ASSUME NEW S, NEW K, NEW B, NEW n \in Nat, NEW gone, NEW e, NEW rest,
         Events(S, K, B, n, gone), B = {e} \cup rest, Below({e}, rest)
  PROVE  Events(S, {e}, rest, n, gone \cup K)
<1>1. e \in 1..n /\ S \subseteq 1..n /\ rest \subseteq 1..n /\ K \subseteq 1..n
  BY DEF Events
<1>2. \A k \in K : k \notin B /\ k \notin S
  BY <1>1 DEF Events, Below
<1>3. Below(S, {e}) /\ Below(S, rest)
  BY DEF Events, Below
<1>4. S \cup {e} \cup rest = (1..n) \ (gone \cup K)
  BY <1>2 DEF Events
<1> QED
  BY <1>3, <1>4 DEF Events

LEMMA KeptGone ==
  ASSUME NEW S, NEW K, NEW B, NEW n \in Nat, NEW gone, Events(S, K, B, n, gone)
  PROVE  Events(S, {}, B, n, gone \cup K)
<1>1. S \subseteq 1..n /\ B \subseteq 1..n /\ K \subseteq 1..n
  BY DEF Events
<1>2. \A k \in K : k \notin B /\ k \notin S
  BY <1>1 DEF Events, Below
<1>3. S \cup B = (1..n) \ (gone \cup K)
  BY <1>2 DEF Events
<1> QED
  BY <1>3 DEF Events, Below
---------------------------------------------------------------------------
(* The packets                                                             *)

\* A call of seph_tx leaves a state, and the turn only changes with the end of a packet.
LEMMA TxTyped ==
  ASSUME NEW q \in States, NEW c \in Pieces, q.state = "WAIT_EVENT" => q.len = 0
  PROVE  LET t == SephTx(q, c)
         IN  /\ t.q \in States /\ t.ret \in Int /\ t.wrote \in {0, c.n}
             /\ t.q.state = "WAIT_EVENT" => t.q.len = 0
             /\ t.ret = -1 => q.state = "WAIT_EVENT" /\ (q.len = 0 => c.status = FALSE)
<1> DEFINE p == IF q.len = 0 THEN [q EXCEPT !.len = c.decl, !.off = 0, !.status = c.status] ELSE q
           done == p.off + c.n = p.len
           r == [state |-> IF done /\ p.status THEN "WAIT_EVENT" ELSE q.state,
                 len |-> IF done THEN 0 ELSE p.len, off |-> p.off + c.n, status |-> p.status /\ ~done]
           t == SephTx(q, c)
<1>1. q.state \in {"SEND_CMD", "WAIT_EVENT"} /\ q.len \in Nat /\ q.off \in Nat /\ q.status \in BOOLEAN
  BY DEF States
<1>2. c.n \in Nat /\ c.status \in BOOLEAN /\ c.decl \in Nat
  BY DEF Pieces
<1>3. p \in States /\ p.state = q.state
  <2>1. [q EXCEPT !.len = c.decl, !.off = 0, !.status = c.status] \in States
    BY <1>1, <1>2 DEF States
  <2>2. [q EXCEPT !.len = c.decl, !.off = 0, !.status = c.status].state = q.state
    BY DEF States
  <2> QED
    BY <2>1, <2>2
<1>4. [q EXCEPT !.len = 0] \in States /\ [q EXCEPT !.len = 0].len = 0
  BY <1>1 DEF States
<1>5. r \in States /\ (q.state = "SEND_CMD" => (r.state = "WAIT_EVENT" => r.len = 0))
  <2>1. p.off \in Nat /\ p.len \in Nat /\ p.status \in BOOLEAN
    BY <1>3 DEF States
  <2> HIDE DEF p
  <2>2. r.state \in {"SEND_CMD", "WAIT_EVENT"} /\ r.len \in Nat /\ r.off \in Nat
    BY <1>1, <1>2, <2>1
  <2>3. (p.status /\ ~done) \in BOOLEAN
    OBVIOUS
  <2>4. r \in States
    BY <2>2, <2>3 DEF States
  <2> QED
    BY <2>4
<1>6. \/ t = Call(q, -22, 0) \/ t = Call(q, c.n, 0) \/ (t = Call(q, -1, 0) /\ q.state = "WAIT_EVENT" /\ ~(q.len = 0 /\ c.status))
      \/ t = Call(q, -23, 0) \/ t = Call([q EXCEPT !.len = 0], -25, 0)
      \/ (t = Call(p, -24, 0) /\ q.state # "WAIT_EVENT")
      \/ (t = Call(r, c.n, c.n) /\ q.state # "WAIT_EVENT")
  <2> HIDE DEF Call
  <2> QED
    BY DEF SephTx
<1> HIDE DEF p, r, t
<1>7. t.q \in States /\ t.ret \in Int /\ t.wrote \in {0, c.n}
  BY <1>2, <1>3, <1>4, <1>5, <1>6 DEF Call
<1>8. t.q.state = "WAIT_EVENT" => t.q.len = 0
  <2>1. CASE t.q = q
    BY <2>1
  <2>2. CASE t.q = [q EXCEPT !.len = 0]
    BY <1>4, <2>2
  <2>3. CASE t.q = p /\ q.state # "WAIT_EVENT"
    BY <1>3, <2>3
  <2>4. CASE t.q = r /\ q.state # "WAIT_EVENT"
    BY <1>1, <1>5, <2>4
  <2> QED
    BY <1>6, <2>1, <2>2, <2>3, <2>4 DEF Call
<1>9. t.ret = -1 => q.state = "WAIT_EVENT" /\ (q.len = 0 => c.status = FALSE)
  BY <1>2, <1>6 DEF Call
<1> QED
  BY <1>7, <1>8, <1>9 DEF t

\* In the application's turn both ends go on together, unless the first piece of a packet
\* is longer than the packet.
LEMMA TxAgrees ==
  ASSUME NEW q \in States, NEW m \in Parsers, NEW c \in Pieces,
         SamePacket(q, m), q.state = "SEND_CMD", m.owes = FALSE,
         ~(q.len = 0 /\ SephTx(q, c).ret = -24)
  PROVE  LET t == SephTx(q, c)
             k == Parse(m, c, t.wrote)
         IN  k \in Parsers /\ SamePacket(t.q, k) /\ (k.owes = TRUE <=> t.q.state = "WAIT_EVENT")
<1> DEFINE t == SephTx(q, c)
           k == Parse(m, c, t.wrote)
<1>1. q.len \in Nat /\ q.off \in Nat /\ q.status \in BOOLEAN /\ m.left \in Int /\ m.status \in BOOLEAN
  BY DEF States, Parsers
<1>2. c.n \in Nat /\ c.status \in BOOLEAN /\ c.decl \in Nat
  BY DEF Pieces
<1>3. ASSUME t.wrote = 0, t.q = q PROVE k \in Parsers /\ SamePacket(t.q, k) /\ (k.owes = TRUE <=> t.q.state = "WAIT_EVENT")
  <2>1. k = m
    BY <1>3 DEF Parse
  <2> QED
    BY <1>3, <2>1
<1>4. CASE c.n = 0 \/ (q.len = 0 /\ c.n < Header)
  <2>1. t.wrote = 0 /\ t.q = q
    BY <1>4 DEF SephTx, Call
  <2> QED
    BY <1>3, <2>1
<1>5. CASE c.n # 0 /\ q.len = 0 /\ ~(c.n < Header) /\ c.decl > MaxPacket
  <2>1. t = Call([q EXCEPT !.len = 0], -25, 0)
    BY <1>5 DEF SephTx
  <2>2. [q EXCEPT !.len = 0] = q
    BY <1>5 DEF States
  <2>3. t.wrote = 0 /\ t.q = q
    BY <2>1, <2>2 DEF Call
  <2> QED
    BY <1>3, <2>3
<1>6. CASE c.n # 0 /\ q.len = 0 /\ ~(c.n < Header) /\ ~(c.decl > MaxPacket)
  <2> DEFINE done == c.n = c.decl
             w == IF done /\ c.status THEN "WAIT_EVENT" ELSE "SEND_CMD"
             l == IF done THEN 0 ELSE c.decl
             r == [state |-> w, len |-> l, off |-> c.n, status |-> c.status /\ ~done]
             p == [q EXCEPT !.len = c.decl, !.off = 0, !.status = c.status]
  <2>1. p.len = c.decl /\ p.off = 0 /\ p.status = c.status
    BY DEF States
  <2>2. ~(c.n > c.decl)
    <3>1. ASSUME c.n > c.decl PROVE t = Call(p, -24, 0)
      BY <1>2, <1>6, <2>1, <3>1 DEF SephTx
    <3> QED
      BY <1>6, <3>1 DEF Call
  <2>3. t = Call(r, c.n, c.n)
    BY <1>2, <1>6, <2>1, <2>2 DEF SephTx
  <2>4. t.wrote = c.n /\ t.q = r
    BY <2>3 DEF Call
  <2>5. m.left = 0
    BY <1>6 DEF SamePacket
  <2>6. k = [left |-> c.decl - c.n, status |-> c.status, owes |-> FALSE \/ (c.decl - c.n = 0 /\ c.status)]
    BY <1>6, <2>4, <2>5 DEF Parse
  <2>7. k \in Parsers
    <3>1. (FALSE \/ (c.decl - c.n = 0 /\ c.status)) \in BOOLEAN
      OBVIOUS
    <3> QED
      BY <1>2, <2>6, <3>1 DEF Parsers
  <2>8. (c.decl - c.n = 0) <=> done
    BY <1>2
  <2>9. k.owes = TRUE <=> r.state = "WAIT_EVENT"
    <3>1. CASE done /\ c.status
      <4>1. (FALSE \/ (c.decl - c.n = 0 /\ c.status)) = TRUE
        BY <2>8, <3>1
      <4>2. k.owes = TRUE
        <5> DEFINE o == FALSE \/ (c.decl - c.n = 0 /\ c.status)
        <5>1. k = [left |-> c.decl - c.n, status |-> c.status, owes |-> o]
          BY <2>6
        <5>2. o = TRUE
          BY <4>1
        <5> HIDE DEF o, k
        <5> QED
          BY <5>1, <5>2
      <4>3. w = "WAIT_EVENT"
        BY <3>1
      <4> QED
        BY <4>2, <4>3
    <3>2. CASE ~(done /\ c.status)
      <4>1. (FALSE \/ (c.decl - c.n = 0 /\ c.status)) = FALSE
        BY <2>8, <3>2
      <4>2. k.owes = FALSE
        <5> DEFINE o == FALSE \/ (c.decl - c.n = 0 /\ c.status)
        <5>1. k = [left |-> c.decl - c.n, status |-> c.status, owes |-> o]
          BY <2>6
        <5>2. o = FALSE
          BY <4>1
        <5> HIDE DEF o, k
        <5> QED
          BY <5>1, <5>2
      <4>3. w = "SEND_CMD"
        BY <3>2
      <4> QED
        BY <4>2, <4>3
    <3> QED
      BY <3>1, <3>2
  <2>10. SamePacket(r, k)
    <3>1. CASE done
      <4>1. r.len = 0 /\ k.left = 0
        BY <1>2, <2>6, <3>1
      <4> QED
        BY <4>1 DEF SamePacket
    <3>2. CASE ~done
      <4>1. r.len = c.decl /\ r.off = c.n /\ k.left = c.decl - c.n /\ c.n < c.decl
        BY <1>2, <2>2, <2>6, <3>2
      <4>2. (c.status /\ ~done) = c.status
        BY <1>2, <3>2
      <4>3. k.status = r.status
        BY <2>6, <4>2
      <4> QED
        BY <1>2, <4>1, <4>3 DEF SamePacket
    <3> QED
      BY <3>1, <3>2
  <2> QED
    BY <2>4, <2>7, <2>9, <2>10
<1>7. CASE c.n # 0 /\ q.len # 0 /\ q.off + c.n > q.len
  <2>1. t = Call(q, -24, 0)
    BY <1>7 DEF SephTx
  <2>2. t.wrote = 0 /\ t.q = q
    BY <2>1 DEF Call
  <2> QED
    BY <1>3, <2>2
<1>8. CASE c.n # 0 /\ q.len # 0 /\ ~(q.off + c.n > q.len)
  <2> DEFINE done == q.off + c.n = q.len
             w == IF done /\ q.status THEN "WAIT_EVENT" ELSE "SEND_CMD"
             l == IF done THEN 0 ELSE q.len
             r == [state |-> w, len |-> l, off |-> q.off + c.n, status |-> q.status /\ ~done]
  <2>1. t = Call(r, c.n, c.n)
    BY <1>8 DEF SephTx
  <2>2. t.wrote = c.n /\ t.q = r
    BY <2>1 DEF Call
  <2>3. m.left = q.len - q.off /\ q.off < q.len /\ m.status = q.status
    BY <1>8 DEF SamePacket
  <2>4. m.left # 0 /\ (m.left - c.n = 0 <=> done) /\ m.left - c.n = q.len - (q.off + c.n)
    BY <1>1, <1>2, <2>3
  <2>5. k = [left |-> m.left - c.n, status |-> m.status, owes |-> FALSE \/ (m.left - c.n = 0 /\ m.status)]
    BY <1>8, <2>2, <2>4 DEF Parse
  <2>6. k \in Parsers
    <3>1. (FALSE \/ (m.left - c.n = 0 /\ m.status)) \in BOOLEAN
      OBVIOUS
    <3> QED
      BY <1>1, <1>2, <2>5, <3>1 DEF Parsers
  <2>7. k.owes = TRUE <=> r.state = "WAIT_EVENT"
    <3>1. CASE done /\ q.status
      <4>1. (FALSE \/ (m.left - c.n = 0 /\ m.status)) = TRUE
        BY <2>3, <2>4, <3>1
      <4>2. k.owes = TRUE
        <5> DEFINE o == FALSE \/ (m.left - c.n = 0 /\ m.status)
        <5>1. k = [left |-> m.left - c.n, status |-> m.status, owes |-> o]
          BY <2>5
        <5>2. o = TRUE
          BY <4>1
        <5> HIDE DEF o, k
        <5> QED
          BY <5>1, <5>2
      <4>3. w = "WAIT_EVENT"
        BY <3>1
      <4> QED
        BY <4>2, <4>3
    <3>2. CASE ~(done /\ q.status)
      <4>1. (FALSE \/ (m.left - c.n = 0 /\ m.status)) = FALSE
        BY <2>3, <2>4, <3>2
      <4>2. k.owes = FALSE
        <5> DEFINE o == FALSE \/ (m.left - c.n = 0 /\ m.status)
        <5>1. k = [left |-> m.left - c.n, status |-> m.status, owes |-> o]
          BY <2>5
        <5>2. o = FALSE
          BY <4>1
        <5> HIDE DEF o, k
        <5> QED
          BY <5>1, <5>2
      <4>3. w = "SEND_CMD"
        BY <3>2
      <4> QED
        BY <4>2, <4>3
    <3> QED
      BY <3>1, <3>2
  <2>8. SamePacket(r, k)
    <3>1. CASE done
      <4>1. r.len = 0 /\ k.left = 0
        BY <2>4, <2>5, <3>1
      <4> QED
        BY <4>1 DEF SamePacket
    <3>2. CASE ~done
      <4>1. r.len = q.len /\ r.off = q.off + c.n /\ k.left = q.len - (q.off + c.n) /\ q.off + c.n < q.len
        BY <1>1, <1>2, <1>8, <2>4, <2>5, <3>2
      <4>2. (q.status /\ ~done) = q.status
        BY <1>1, <3>2
      <4>3. k.status = r.status
        BY <2>3, <2>5, <4>2
      <4> QED
        BY <1>8, <4>1, <4>3 DEF SamePacket
    <3> QED
      BY <3>1, <3>2
  <2> QED
    BY <2>2, <2>6, <2>7, <2>8
<1> QED
  BY <1>4, <1>5, <1>6, <1>7, <1>8

LEMMA RxTyped ==
  ASSUME NEW q \in States
  PROVE  SephRx(q) \in States /\ SephRx(q).state = "SEND_CMD" /\ SephRx(q).len = 0
<1>1. SephRx(q) \in States
  BY Zenon DEF States, SephRx
<1> QED
  BY <1>1 DEF States, SephRx
---------------------------------------------------------------------------
(* The steps                                                               *)

\* What os_io_tx_cmd does to the turn and to the events.
LEMMA TxCmdKeeps ==
  ASSUME SephInv, at = "idle", NEW c \in Pieces, TxCmd(c), UNCHANGED <<sentEvents, seen, drained>>
  PROVE  /\ seph' \in States /\ mcu' \in Parsers /\ cached' \in Nat /\ inbox' \in Seq(Nat)
         /\ careless' \in BOOLEAN /\ torn' \in BOOLEAN
         /\ seph'.state = "WAIT_EVENT" => seph'.len = 0
         /\ ~careless' => cached' = 0 \/ seph'.state = "SEND_CMD"
         /\ ~torn' => Turn' /\ SamePacket(seph', mcu')
         /\ EventsInv'
         /\ cached = 0 /\ seph.state = "SEND_CMD" => cached' = 0
<1>1. /\ seph \in States /\ mcu \in Parsers /\ cached \in Nat /\ inbox \in Seq(Nat) /\ seen \in Seq(Nat)
      /\ careless \in BOOLEAN /\ torn \in BOOLEAN /\ sentEvents \in Nat
  BY DEF SephInv, SephTypes
<1>2. seph.state = "WAIT_EVENT" => seph.len = 0
  BY DEF SephInv
<1>3. SephRx(seph) \in States /\ SephRx(seph).state = "SEND_CMD" /\ SephRx(seph).len = 0
  BY <1>1, RxTyped
<1>4. ASSUME NEW q \in States, q.state = "WAIT_EVENT" => q.len = 0, Transmitted(q, c, SephTx(q, c))
      PROVE  /\ seph' \in States /\ mcu' \in Parsers /\ careless' \in BOOLEAN /\ torn' \in BOOLEAN
             /\ seph'.state = "WAIT_EVENT" => seph'.len = 0
             /\ ~careless' => cached' = 0 \/ seph'.state = "SEND_CMD"
  <2>1. /\ SephTx(q, c).q \in States /\ SephTx(q, c).wrote \in {0, c.n}
        /\ SephTx(q, c).q.state = "WAIT_EVENT" => SephTx(q, c).q.len = 0
    BY <1>4, TxTyped
  <2>2. seph' = SephTx(q, c).q /\ torn' = (torn \/ (q.len = 0 /\ SephTx(q, c).ret = -24))
    BY <1>4 DEF Transmitted
  <2>3. careless' = (careless \/ (cached' # 0 /\ seph'.state = "WAIT_EVENT"))
    BY <1>4 DEF Transmitted
  <2>4. torn' \in BOOLEAN /\ careless' \in BOOLEAN
    BY <2>2, <2>3, Zenon
  <2>5. mcu' \in Parsers
    <3>1. ASSUME NEW n \in {0, c.n} PROVE Parse(mcu, c, n) \in Parsers
      <4>1. c.n \in Nat /\ c.decl \in Nat /\ c.status \in BOOLEAN
        BY DEF Pieces
      <4>2. mcu.left \in Int /\ mcu.status \in BOOLEAN /\ mcu.owes \in BOOLEAN
        BY <1>1 DEF Parsers
      <4> DEFINE left == (IF mcu.left = 0 THEN c.decl ELSE mcu.left) - n
                 status == IF mcu.left = 0 THEN c.status ELSE mcu.status
      <4>3. left \in Int /\ status \in BOOLEAN
        BY <3>1, <4>1, <4>2
      <4>4. (mcu.owes \/ (left = 0 /\ status)) \in BOOLEAN
        OBVIOUS
      <4> HIDE DEF left, status
      <4>5. [left |-> left, status |-> status, owes |-> mcu.owes \/ (left = 0 /\ status)] \in Parsers
        BY <4>3, <4>4 DEF Parsers
      <4> QED
        BY <1>1, <4>5 DEF Parse, left, status
    <3>2. ASSUME NEW m \in Anywhere(mcu) PROVE m \in Parsers
      <4>1. PICK owes \in {mcu.owes, TRUE} : m = [mcu EXCEPT !.owes = owes]
        BY DEF Anywhere
      <4>2. owes \in BOOLEAN
        BY <1>1 DEF Parsers
      <4> QED
        BY <1>1, <4>1, <4>2, Zenon DEF Parsers
    <3> QED
      BY <1>1, <1>4, <2>1, <3>1, <3>2 DEF Transmitted
  <2>6. ~careless' => cached' = 0 \/ seph'.state = "SEND_CMD"
    <3>1. seph'.state \in {"SEND_CMD", "WAIT_EVENT"}
      BY <2>1, <2>2 DEF States
    <3> QED
      BY <2>3, <3>1
  <2> QED
    BY <2>1, <2>2, <2>4, <2>5, <2>6
<1>5. ASSUME NEW q \in States, Transmitted(q, c, SephTx(q, c)), ~torn', SamePacket(q, mcu), q.state = "SEND_CMD", mcu.owes = FALSE
      PROVE  SamePacket(seph', mcu') /\ (mcu'.owes = TRUE <=> seph'.state = "WAIT_EVENT")
  <2>1. ~torn /\ ~(q.len = 0 /\ SephTx(q, c).ret = -24) /\ seph' = SephTx(q, c).q
    BY <1>5 DEF Transmitted
  <2>2. mcu' = Parse(mcu, c, SephTx(q, c).wrote)
    BY <1>5, <2>1 DEF Transmitted
  <2>3. /\ SamePacket(SephTx(q, c).q, Parse(mcu, c, SephTx(q, c).wrote))
        /\ Parse(mcu, c, SephTx(q, c).wrote).owes = TRUE <=> SephTx(q, c).q.state = "WAIT_EVENT"
    BY <1>1, <1>5, <2>1, TxAgrees
  <2> QED
    BY <2>1, <2>2, <2>3
<1>6. CASE /\ SephTx(seph, c).ret # -1 /\ UNCHANGED <<cached, inbox, lost>>
           /\ Transmitted(seph, c, SephTx(seph, c))
  <2>1. /\ seph' \in States /\ mcu' \in Parsers /\ careless' \in BOOLEAN /\ torn' \in BOOLEAN
        /\ seph'.state = "WAIT_EVENT" => seph'.len = 0
        /\ ~careless' => cached' = 0 \/ seph'.state = "SEND_CMD"
    BY <1>1, <1>2, <1>4, <1>6
  <2>2. ASSUME ~torn' PROVE Turn' /\ SamePacket(seph', mcu')
    <3>1. ~torn /\ Turn /\ SamePacket(seph, mcu)
      BY <1>6, <2>2 DEF Transmitted, SephInv
    <3>2. CASE seph.state = "SEND_CMD"
      <4>1. mcu.owes = FALSE /\ Len(inbox) = 0
        BY <3>1, <3>2 DEF Turn
      <4>2. SamePacket(seph', mcu') /\ (mcu'.owes = TRUE <=> seph'.state = "WAIT_EVENT")
        BY <1>1, <1>5, <1>6, <2>2, <3>1, <3>2, <4>1
      <4>3. mcu'.owes \in BOOLEAN /\ seph'.state \in {"SEND_CMD", "WAIT_EVENT"} /\ Len(inbox') = 0
        BY <1>6, <2>1, <4>1 DEF Parsers, States
      <4>4. CASE mcu'.owes = TRUE
        BY <4>2, <4>3, <4>4 DEF Turn
      <4>5. CASE mcu'.owes = FALSE
        BY <4>2, <4>3, <4>5 DEF Turn
      <4> QED
        BY <4>3, <4>4, <4>5
    <3>3. CASE seph.state = "WAIT_EVENT"
      <4>1. SephTx(seph, c).q = seph /\ SephTx(seph, c).wrote = 0
        BY <3>3 DEF SephTx, Call
      <4>2. seph' = seph /\ mcu' = Parse(mcu, c, 0)
        BY <1>6, <3>1, <4>1 DEF Transmitted
      <4>3. mcu' = mcu
        BY <4>2 DEF Parse
      <4> QED
        BY <1>6, <3>1, <4>2, <4>3 DEF Turn
    <3> QED
      BY <1>1, <3>2, <3>3 DEF States
  <2>3. EventsInv'
    <3>1. careless => careless'
      BY <1>6 DEF Transmitted
    <3> QED
      BY <1>6, <3>1 DEF SephInv, EventsInv, Kept
  <2> QED
    BY <1>1, <1>6, <2>1, <2>2, <2>3
<1>7. CASE /\ SephTx(seph, c).ret = -1 /\ inbox # <<>> /\ cached' = Head(inbox) /\ inbox' = Tail(inbox)
           /\ lost' = lost \cup ({cached} \ {0})
           /\ Transmitted(SephRx(seph), c, SephTx(SephRx(seph), c))
  <2>1. /\ seph' \in States /\ mcu' \in Parsers /\ careless' \in BOOLEAN /\ torn' \in BOOLEAN
        /\ seph'.state = "WAIT_EVENT" => seph'.len = 0
        /\ ~careless' => cached' = 0 \/ seph'.state = "SEND_CMD"
    BY <1>3, <1>4, <1>7
  <2>2. seph.state = "WAIT_EVENT"
    BY <1>1, <1>2, <1>7, TxTyped
  <2>3. EventsInv
    BY DEF SephInv
  <2>4. /\ Head(inbox) \in Nat /\ Tail(inbox) \in Seq(Nat) /\ Len(Tail(inbox)) = Len(inbox) - 1 /\ Increasing(Tail(inbox))
        /\ Elements(inbox) = {Head(inbox)} \cup Elements(Tail(inbox))
        /\ Below({Head(inbox)}, Elements(Tail(inbox)))
    BY <1>1, <1>7, <2>3, FirstTaken DEF EventsInv
  <2>5. ASSUME ~torn' PROVE Turn' /\ SamePacket(seph', mcu')
    <3>1. ~torn /\ Turn /\ SamePacket(seph, mcu)
      BY <1>7, <2>5 DEF Transmitted, SephInv
    <3>2. Len(inbox) # 0
      BY <1>1, <1>7
    <3>3. mcu.owes = FALSE /\ Len(inbox) = 1
      BY <2>2, <3>1, <3>2 DEF Turn
    <3>4. SamePacket(SephRx(seph), mcu)
      BY <1>2, <1>3, <2>2, <3>1 DEF SamePacket
    <3>5. SamePacket(seph', mcu') /\ (mcu'.owes = TRUE <=> seph'.state = "WAIT_EVENT")
      BY <1>3, <1>5, <1>7, <2>5, <3>3, <3>4
    <3>6. mcu'.owes \in BOOLEAN /\ seph'.state \in {"SEND_CMD", "WAIT_EVENT"} /\ Len(inbox') = 0
      BY <1>7, <2>1, <2>4, <3>3 DEF Parsers, States
    <3>7. CASE mcu'.owes = TRUE
      BY <3>5, <3>6, <3>7 DEF Turn
    <3>8. CASE mcu'.owes = FALSE
      BY <3>5, <3>6, <3>8 DEF Turn
    <3> QED
      BY <3>6, <3>7, <3>8
  <2>6. EventsInv'
    <3>1. Events(Elements(seen), {Head(inbox)}, Elements(Tail(inbox)), sentEvents, (drained \cup lost) \cup Kept)
      BY <1>1, <2>3, <2>4, FirstKept DEF EventsInv
    <3>2. Head(inbox) \in 1..sentEvents /\ Kept \subseteq 1..sentEvents
      BY <2>3, <2>4 DEF EventsInv, Events
    <3>3. Head(inbox) # 0
      BY <3>2
    <3>4. Kept' = {Head(inbox)} /\ (drained \cup lost)' = (drained \cup lost) \cup Kept
      BY <1>7, <3>3 DEF Kept
    <3>5. careless' \/ lost' = {}
      <4>1. careless => careless'
        BY <1>7 DEF Transmitted
      <4>2. ~careless => cached = 0 /\ lost = {}
        BY <2>2, <2>3 DEF SephInv, EventsInv
      <4> QED
        BY <1>7, <4>1, <4>2
    <3>6. Events(Elements(seen'), Kept', Elements(inbox'), sentEvents', (drained \cup lost)')
      BY <1>7, <3>1, <3>4
    <3>7. (drained \cup lost)' \subseteq 1..sentEvents'
      BY <2>3, <3>2, <3>4 DEF EventsInv
    <3>8. Increasing(seen') /\ Increasing(inbox')
      BY <1>7, <2>3, <2>4 DEF EventsInv
    <3> QED
      BY <3>5, <3>6, <3>7, <3>8 DEF EventsInv
  <2> QED
    BY <1>7, <2>1, <2>2, <2>4, <2>5, <2>6
<1> QED
  BY <1>6, <1>7 DEF TxCmd

\* The pieces of the application and the general status.
LEMMA PieceTyped ==
  ASSUME NEW n \in Nat, NEW status \in BOOLEAN, NEW body \in Nat
  PROVE  [n |-> n, status |-> status, decl |-> Header + body] \in Pieces
  BY SephAssumption DEF Pieces

LEMMA SendKeeps == ASSUME SephInv, Send PROVE SephInv'
<1>1. PICK n \in Sizes, status \in BOOLEAN, body \in Declared : TxCmd([n |-> n, status |-> status, decl |-> Header + body])
  BY DEF Send
<1>2. at = "idle" /\ UNCHANGED <<at, tries, sentEvents, seen, drained>>
  BY DEF Send
<1>3. [n |-> n, status |-> status, decl |-> Header + body] \in Pieces
  BY SephAssumption, PieceTyped
<1>4. SephTypes
  BY DEF SephInv
<1>5. /\ seph' \in States /\ mcu' \in Parsers /\ cached' \in Nat /\ inbox' \in Seq(Nat)
      /\ careless' \in BOOLEAN /\ torn' \in BOOLEAN
      /\ seph'.state = "WAIT_EVENT" => seph'.len = 0
      /\ ~careless' => cached' = 0 \/ seph'.state = "SEND_CMD"
      /\ ~torn' => Turn' /\ SamePacket(seph', mcu')
      /\ EventsInv'
  BY <1>1, <1>2, <1>3, TxCmdKeeps
<1>6. SephTypes'
  BY <1>2, <1>4, <1>5 DEF SephTypes
<1> QED
  BY <1>2, <1>5, <1>6 DEF SephInv

LEMMA StatusKeeps == ASSUME SephInv, RxStatus PROVE SephInv'
<1>1. TxCmd(GeneralStatus) /\ at = "idle" /\ cached = 0 /\ seph.state = "SEND_CMD" /\ UNCHANGED <<sentEvents, seen, drained>>
  BY DEF RxStatus
<1>2. at' \in {"idle", "rx_evt"} /\ tries' \in Nat
  <2>1. tries \in Nat
    BY DEF SephInv, SephTypes
  <2>2. Counted \in Nat
    BY <2>1 DEF Counted
  <2> QED
    BY <2>1, <2>2 DEF RxStatus
<1>3. GeneralStatus \in Pieces
  <2>1. Header + 2 \in Nat
    BY SephAssumption
  <2> QED
    BY <2>1 DEF GeneralStatus, Pieces
<1>4. SephTypes
  BY DEF SephInv
<1>5. /\ seph' \in States /\ mcu' \in Parsers /\ cached' \in Nat /\ inbox' \in Seq(Nat)
      /\ careless' \in BOOLEAN /\ torn' \in BOOLEAN
      /\ seph'.state = "WAIT_EVENT" => seph'.len = 0
      /\ ~careless' => cached' = 0 \/ seph'.state = "SEND_CMD"
      /\ ~torn' => Turn' /\ SamePacket(seph', mcu')
      /\ EventsInv'
      /\ cached' = 0
  BY <1>1, <1>3, TxCmdKeeps
<1>6. SephTypes'
  BY <1>1, <1>2, <1>4, <1>5 DEF SephTypes
<1> QED
  BY <1>5, <1>6 DEF SephInv

\* os_io_rx_evt of the first event there is: the kept one, or the one on its way.
LEMMA GiveKeeps ==
  ASSUME SephInv, NEW e, Give(e), UNCHANGED <<sentEvents, lost, careless>>, cached' = 0,
         Kept \cup Elements(inbox) = {e} \cup Elements(inbox'), Below({e}, Elements(inbox')), Increasing(inbox')
  PROVE  EventsInv' /\ seen' \in Seq(Nat) /\ tries' \in Nat
<1>1. seen \in Seq(Nat) /\ tries \in Nat /\ sentEvents \in Nat /\ EventsInv
  BY DEF SephInv, SephTypes
<1>2. Kept' = {} /\ tries' \in Nat
  BY <1>1 DEF Kept, Give, Counted
<1>3. Events(Elements(seen), Kept, Elements(inbox), sentEvents, drained \cup lost)
  BY <1>1 DEF EventsInv
<1>4. e \in 1..sentEvents
  BY <1>3 DEF Events
<1>5. CASE seen' = Append(seen, e) /\ drained' = drained
  <2>1. Events(Elements(seen) \cup {e}, {}, Elements(inbox'), sentEvents, drained \cup lost) /\ Below(Elements(seen), {e})
    BY <1>3, FirstSeen
  <2>2. e \in Nat
    BY <1>4
  <2>3. seen' \in Seq(Nat) /\ Increasing(seen') /\ Elements(seen') = Elements(seen) \cup {e}
    BY <1>1, <1>5, <2>1, <2>2, LastAdded DEF EventsInv
  <2>4. Events(Elements(seen'), Kept', Elements(inbox'), sentEvents', (drained \cup lost)')
    BY <1>2, <1>5, <2>1, <2>3
  <2> QED
    BY <1>1, <1>2, <1>5, <2>3, <2>4 DEF EventsInv
<1>6. CASE drained' = drained \cup {e} /\ seen' = seen
  <2>1. Events(Elements(seen), {}, Elements(inbox'), sentEvents, (drained \cup lost) \cup {e})
    BY <1>1, <1>3, FirstGone
  <2>2. (drained \cup lost)' = (drained \cup lost) \cup {e}
    BY <1>6
  <2>3. Events(Elements(seen'), Kept', Elements(inbox'), sentEvents', (drained \cup lost)')
    BY <1>2, <1>6, <2>1, <2>2
  <2>4. (drained \cup lost)' \subseteq 1..sentEvents'
    BY <1>1, <1>4, <2>2 DEF EventsInv
  <2> QED
    BY <1>1, <1>2, <1>6, <2>3, <2>4 DEF EventsInv
<1> QED
  BY <1>5, <1>6 DEF Give

LEMMA CachedKeeps == ASSUME SephInv, RxCached PROVE SephInv'
<1>1. /\ at = "idle" /\ cached # 0 /\ Give(cached) /\ cached' = 0
      /\ UNCHANGED <<seph, at, mcu, inbox, sentEvents, lost, careless, torn>>
  BY DEF RxCached
<1>2. SephTypes /\ EventsInv
  BY DEF SephInv
<1>3. Kept = {cached} /\ Below({cached}, Elements(inbox)) /\ Increasing(inbox)
  BY <1>1, <1>2 DEF Kept, EventsInv, Events
<1>4. EventsInv' /\ seen' \in Seq(Nat) /\ tries' \in Nat
  BY <1>1, <1>3, GiveKeeps
<1>5. SephTypes'
  BY <1>1, <1>2, <1>4 DEF SephTypes
<1> QED
  BY <1>1, <1>4, <1>5 DEF SephInv, Turn

LEMMA EventKeeps == ASSUME SephInv, RxEvent PROVE SephInv'
<1>1. /\ cached = 0 /\ seph.state = "WAIT_EVENT" /\ inbox # <<>> /\ inbox' = Tail(inbox) /\ Give(Head(inbox))
      /\ seph' = SephRx(seph) /\ at' = "idle" /\ UNCHANGED <<cached, mcu, sentEvents, lost, careless, torn>>
  BY DEF RxEvent
<1>2. SephTypes /\ EventsInv /\ seph.len = 0
  BY <1>1 DEF SephInv
<1>3. /\ Head(inbox) \in Nat /\ Tail(inbox) \in Seq(Nat) /\ Len(Tail(inbox)) = Len(inbox) - 1 /\ Increasing(Tail(inbox))
      /\ Elements(inbox) = {Head(inbox)} \cup Elements(Tail(inbox))
      /\ Below({Head(inbox)}, Elements(Tail(inbox)))
  BY <1>1, <1>2, FirstTaken DEF EventsInv, SephTypes
<1>4. Kept = {}
  BY <1>1 DEF Kept
<1>5. EventsInv' /\ seen' \in Seq(Nat) /\ tries' \in Nat
  BY <1>1, <1>3, <1>4, GiveKeeps
<1>6. seph' \in States /\ seph'.state = "SEND_CMD" /\ seph'.len = 0
  BY <1>1, <1>2, RxTyped DEF SephTypes
<1>7. SephTypes'
  BY <1>1, <1>2, <1>3, <1>5, <1>6 DEF SephTypes
<1>8. ASSUME ~torn PROVE Turn' /\ SamePacket(seph', mcu')
  <2>1. Turn /\ SamePacket(seph, mcu)
    BY <1>8 DEF SephInv
  <2>2. Len(inbox) # 0
    BY <1>1, <1>2 DEF SephTypes
  <2>3. mcu.owes = FALSE /\ Len(inbox) = 1
    BY <1>1, <2>1, <2>2 DEF Turn
  <2>4. Len(inbox') = 0
    BY <1>1, <1>3, <2>3
  <2> QED
    BY <1>1, <1>2, <1>6, <2>1, <2>3, <2>4 DEF Turn, SamePacket
<1> QED
  BY <1>1, <1>5, <1>6, <1>7, <1>8 DEF SephInv

\* The MCU's event: it was due, and is now on its way.
LEMMA McuKeeps == ASSUME SephInv, McuEvent PROVE SephInv'
<1>1. /\ mcu.owes /\ mcu' = [mcu EXCEPT !.owes = FALSE] /\ sentEvents' = sentEvents + 1 /\ inbox' = Append(inbox, sentEvents + 1)
      /\ UNCHANGED <<seph, cached, at, tries, seen, drained, lost, careless, torn>>
  BY DEF McuEvent
<1>2. SephTypes /\ EventsInv /\ inbox \in Seq(Nat) /\ sentEvents \in Nat /\ sentEvents + 1 \in Nat
  BY DEF SephInv, SephTypes
<1>3. mcu' \in Parsers /\ mcu'.owes = FALSE /\ mcu'.left = mcu.left /\ mcu'.status = mcu.status
  BY <1>1, <1>2 DEF SephTypes, Parsers
<1>4. /\ Events(Elements(seen), Kept, Elements(inbox) \cup {sentEvents + 1}, sentEvents + 1, drained \cup lost)
      /\ Below(Elements(inbox), {sentEvents + 1})
  BY <1>2, EventSentMoves DEF EventsInv
<1>5. /\ inbox' \in Seq(Nat) /\ Len(inbox') = Len(inbox) + 1 /\ Increasing(inbox')
      /\ Elements(inbox') = Elements(inbox) \cup {sentEvents + 1}
  BY <1>1, <1>2, <1>4, LastAdded DEF EventsInv
<1>6. EventsInv'
  <2>1. Events(Elements(seen'), Kept', Elements(inbox'), sentEvents', (drained \cup lost)')
    BY <1>1, <1>4, <1>5 DEF Kept
  <2>2. (drained \cup lost)' \subseteq 1..sentEvents'
    <3>1. \A x \in 1..sentEvents : x \in 1..(sentEvents + 1)
      BY <1>2
    <3> QED
      BY <1>1, <1>2, <3>1 DEF EventsInv
  <2> QED
    BY <1>1, <1>2, <1>5, <2>1, <2>2 DEF EventsInv
<1>7. SephTypes'
  BY <1>1, <1>2, <1>3, <1>5 DEF SephTypes
<1>8. ASSUME ~torn PROVE Turn' /\ SamePacket(seph', mcu')
  <2>1. Turn /\ SamePacket(seph, mcu)
    BY <1>8 DEF SephInv
  <2>2. seph.state = "WAIT_EVENT" /\ Len(inbox) = 0
    BY <1>1, <2>1 DEF Turn
  <2> QED
    BY <1>1, <1>3, <1>5, <2>1, <2>2 DEF Turn, SamePacket
<1> QED
  BY <1>1, <1>6, <1>7, <1>8 DEF SephInv

\* os_io_init loses what was kept; the loop for a USB packet only counts.
LEMMA InitKeeps == ASSUME SephInv, IoInit PROVE SephInv'
<1>1. /\ cached' = 0 /\ lost' = lost \cup Kept /\ careless' = (careless \/ cached # 0)
      /\ UNCHANGED <<seph, at, tries, mcu, inbox, sentEvents, seen, drained, torn>>
  BY DEF IoInit, Kept
<1>2. SephTypes /\ EventsInv
  BY DEF SephInv
<1>3. Kept' = {} /\ (drained \cup lost)' = (drained \cup lost) \cup Kept
  BY <1>1 DEF Kept
<1>4. Events(Elements(seen), {}, Elements(inbox), sentEvents, (drained \cup lost) \cup Kept)
  BY <1>2, KeptGone DEF EventsInv, SephTypes
<1>5. Kept \subseteq 1..sentEvents
  BY <1>2 DEF EventsInv, Events
<1>6. careless' \/ lost' = {}
  BY <1>1, <1>2 DEF EventsInv, Kept
<1>7. EventsInv'
  BY <1>1, <1>2, <1>3, <1>4, <1>5, <1>6 DEF EventsInv
<1>8. careless' \in BOOLEAN
  BY <1>1, Zenon
<1>9. SephTypes'
  BY <1>1, <1>2, <1>8 DEF SephTypes
<1> QED
  BY <1>1, <1>7, <1>9 DEF SephInv, Turn

LEMMA UsbKeeps == ASSUME SephInv, UsbWait \/ UsbSent PROVE SephInv'
<1>1. UNCHANGED <<seph, cached, at, mcu, inbox, sentEvents, seen, drained, lost, careless, torn>> /\ tries' \in Nat
  BY SephAssumption DEF UsbWait, UsbSent
<1>2. SephTypes'
  BY <1>1 DEF SephInv, SephTypes
<1> QED
  BY <1>1, <1>2 DEF SephInv, Turn, EventsInv, Kept

\* Every step of the application and the MCU keeps the invariant.
LEMMA SephNextKeeps == ASSUME SephInv, [SephNext]_sephVars PROVE SephInv'
<1>1. CASE UNCHANGED sephVars
  BY <1>1 DEF sephVars, SephInv, SephTypes, Turn, EventsInv, Kept
<1> QED
  BY <1>1, McuKeeps, SendKeeps, InitKeeps, UsbKeeps, CachedKeeps, StatusKeeps, EventKeeps DEF SephNext

\* Before the first status it is the application's turn, and there is no event.
LEMMA SephInitHolds == SephInit => SephInv
<1> SUFFICES ASSUME SephInit PROVE SephInv
  OBVIOUS
<1>1. SephTypes /\ Len(inbox) = 0
  <2>1. seph \in States /\ mcu \in Parsers
    BY DEF SephInit, States, Parsers
  <2>2. inbox \in Seq(Nat) /\ Len(inbox) = 0 /\ seen \in Seq(Nat)
    BY DEF SephInit
  <2>3. careless \in BOOLEAN /\ torn \in BOOLEAN
    BY DEF SephInit
  <2> QED
    BY <2>1, <2>2, <2>3 DEF SephInit, SephTypes
<1>2. Turn /\ SamePacket(seph, mcu)
  BY <1>1 DEF SephInit, Turn, SamePacket
<1>3. Increasing(seen) /\ Elements(seen) = {} /\ Increasing(inbox) /\ Elements(inbox) = {} /\ Kept = {}
  BY NoneLeft DEF SephInit, Kept
<1>4. EventsInv
  <2>1. Events({}, {}, {}, 0, {})
    BY DEF Events, Below
  <2> QED
    BY <1>3, <2>1 DEF SephInit, EventsInv
<1> QED
  BY <1>1, <1>2, <1>4 DEF SephInit, SephInv

\* For all packet lengths, and whatever pieces the application gives, how many bytes they
\* have and what they look like: both ends of the socket agree on whose turn it is and on
\* where a packet ends, until the first piece of a packet is refused with -24.
THEOREM TurnsAgreed == SephSpec => []TurnAgreed
<1>1. SephInv => TurnAgreed
  <2> SUFFICES ASSUME SephInv, ~torn PROVE TurnAgreed
    BY DEF TurnAgreed
  <2>1. Turn /\ SamePacket(seph, mcu) /\ inbox \in Seq(Nat)
    BY DEF SephInv, SephTypes
  <2>2. inbox # <<>> <=> Len(inbox) # 0
    BY <2>1
  <2>3. (seph.state = "WAIT_EVENT") <=> (mcu.owes \/ inbox # <<>>)
    BY <2>1, <2>2 DEF Turn
  <2>4. mcu.left = (IF seph.len = 0 THEN 0 ELSE seph.len - seph.off) /\ (seph.len # 0 => mcu.status = seph.status)
    BY <2>1 DEF SamePacket
  <2> QED
    BY <2>3, <2>4 DEF TurnAgreed
<1> QED
  BY <1>1, SephInitHolds, SephNextKeeps, PTL DEF SephSpec

\* The event that os_io_tx_cmd takes in the middle of a command is not overtaken, and it is
\* lost only when a status ends or os_io_init is called while it is kept; but for that and
\* for the loop of a USB packet the application sees every event the MCU sent.
THEOREM EventsArrive == SephSpec => []EventsInOrder
<1>1. SephInv => EventsInOrder
  <2> SUFFICES ASSUME SephInv PROVE EventsInOrder
    OBVIOUS
  <2> DEFINE kept == IF cached = 0 THEN <<>> ELSE <<cached>>
             all == seen \o kept \o inbox
  <2>1. seen \in Seq(Nat) /\ inbox \in Seq(Nat) /\ cached \in Nat /\ EventsInv
    BY DEF SephInv, SephTypes
  <2>2. kept \in Seq(Nat) /\ Increasing(kept) /\ Elements(kept) = Kept
    <3>1. CASE cached = 0
      BY <3>1, NoneLeft DEF Kept
    <3>2. CASE cached # 0
      <4>1. kept \in Seq(Nat) /\ Len(kept) = 1 /\ kept[1] = cached
        BY <2>1, <3>2
      <4> HIDE DEF kept
      <4> QED
        BY <3>2, <4>1 DEF Increasing, Elements, Kept
    <3> QED
      BY <3>1, <3>2
  <2>3. Increasing(all) /\ Elements(all) = Elements(seen) \cup Kept \cup Elements(inbox)
    <3> HIDE DEF kept
    <3> DEFINE first == seen \o kept
    <3>1. first \in Seq(Nat) /\ Increasing(first) /\ Elements(first) = Elements(seen) \cup Kept
      BY <2>1, <2>2, JoinOrdered DEF EventsInv, Events
    <3> HIDE DEF first
    <3>2. Below(Elements(first), Elements(inbox))
      BY <2>1, <3>1 DEF EventsInv, Events, Below
    <3>3. Increasing(first \o inbox) /\ Elements(first \o inbox) = Elements(first) \cup Elements(inbox)
      BY <2>1, <3>1, <3>2, JoinOrdered DEF EventsInv
    <3> QED
      BY <3>1, <3>3 DEF first
  <2>4. Elements(seen) \cup Kept \cup Elements(inbox) = (1..sentEvents) \ (drained \cup lost)
    BY <2>1 DEF EventsInv, Events
  <2> HIDE DEF kept, all
  <2>5. \A i, j \in 1..Len(all) : i < j => all[i] < all[j]
    BY <2>3 DEF Increasing
  <2>6. {all[i] : i \in 1..Len(all)} = (1..sentEvents) \ (drained \cup lost)
    BY <2>3, <2>4 DEF Elements
  <2>7. careless \/ lost = {}
    BY <2>1 DEF EventsInv
  <2> QED
    BY <2>5, <2>6, <2>7 DEF EventsInOrder, all, kept
<1> QED
  BY <1>1, SephInitHolds, SephNextKeeps, PTL DEF SephSpec
=============================================================================
