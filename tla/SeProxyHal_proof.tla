-------------------------- MODULE SeProxyHal_proof --------------------------
(***************************************************************************)
(* Proofs, for any set of clients, requests and automation rules, that the *)
(* MCU side of the link keeps the turn discipline of the protocol, and of  *)
(* what pausing the time and holding a button promise.                     *)
(***************************************************************************)
EXTENDS TickerHistory, SequenceTheorems, TLAPS

(* Where the main thread and the clients stand in what they do.  The mark  *)
(* that ends the handling of a status is the last step of the main thread. *)
StepInv ==
    /\ pc[Main] \in {"read", "exit"} => todo[Main] = <<>>
    /\ pc[Main] \in {"step", "qnotify"} => todo[Main] # <<>>
    /\ pc[Main] = "qnotify" => Head(todo[Main]) \in Events
    /\ \A i \in 1..Len(todo[Main]) : todo[Main][i] \in Marks => i = Len(todo[Main])
    /\ \A c \in Clients : pc[c] # "step" => todo[c] # <<>>
    /\ pc[Packet] = "send" => sending \in Tags

AppHas == app # "waiting"
ToAppHas == toApp # <<>>
ToMcuHas == \E i \in 1..Len(toMcu) : toMcu[i] \in Statuses
MainHas == \E i \in 1..Len(todo[Main]) : todo[Main][i] \in Marks
PacketHas == pc[Packet] \in {"pick", "send"}

(* The holders of the turn exclude each other, pair by pair.               *)
Exclusion ==
    /\ AppHas => ~ToAppHas /\ ~ToMcuHas /\ ~MainHas /\ ~statusSet /\ ~PacketHas
    /\ ToAppHas => ~ToMcuHas /\ ~MainHas /\ ~statusSet /\ ~PacketHas
    /\ ToMcuHas => ~MainHas /\ ~statusSet /\ ~PacketHas
    /\ MainHas => ~statusSet /\ ~PacketHas
    /\ statusSet => ~PacketHas
    /\ pc[Packet] = "clear" => statusSet

Presence == closed \/ AppHas \/ ToAppHas \/ ToMcuHas \/ MainHas \/ statusSet
                   \/ PacketHas

Single ==
    /\ Len(toApp) <= 1
    /\ \A i \in 1..Len(toMcu) : toMcu[i] \in Statuses => i = Len(toMcu)

(* The inductive invariant.                                                *)
TurnInv == TypeOK /\ StepInv /\ NoUnexpectedState
           /\ Single /\ Exclusion /\ Presence

-----------------------------------------------------------------------------
(* What Tail and Append do to a sequence whose only element of M is last.  *)

LEMMA TailFacts ==
    ASSUME NEW S, NEW M, NEW s \in Seq(S), s # <<>>,
           \A i \in 1..Len(s) : s[i] \in M => i = Len(s)
    PROVE  /\ Tail(s) \in Seq(S)
           /\ Len(Tail(s)) = Len(s) - 1
           /\ Head(s) \in S /\ Head(s) = s[1]
           /\ \A i \in 1..Len(Tail(s)) : Tail(s)[i] \in M => i = Len(Tail(s))
           /\ (\E i \in 1..Len(Tail(s)) : Tail(s)[i] \in M)
                => (\E i \in 1..Len(s) : s[i] \in M)
           /\ Head(s) \notin M /\ (\E i \in 1..Len(s) : s[i] \in M)
                => \E i \in 1..Len(Tail(s)) : Tail(s)[i] \in M
           /\ Head(s) \in M => Tail(s) = <<>>
  <1> DEFINE n == Len(s)
             t == Tail(s)
  <1>1. /\ t \in Seq(S) /\ Len(t) = n - 1
        /\ n \in Nat /\ n > 0
        /\ Head(s) = s[1] /\ Head(s) \in S
        /\ \A i \in 1..(n - 1) : t[i] = s[i + 1]
        /\ \A i \in 1..n : s[i] \in M => i = n
        /\ n = 1 => Len(t) = 0
    BY HeadTailProperties, EmptySeq, LenProperties
  <1> HIDE DEF n, t
  <1>2. Head(s) \in M => t = <<>>
    <2>1. 1 \in 1..n
      BY <1>1
    <2> QED BY <1>1, <2>1, EmptySeq
  <1>3. ASSUME NEW i \in 1..(n - 1), t[i] \in M
        PROVE  i = n - 1 /\ \E j \in 1..n : s[j] \in M
    <2>1. i + 1 \in 1..n /\ i \in Int
      BY <1>1
    <2>2. s[i + 1] \in M
      BY <1>1, <1>3
    <2>3. i + 1 = n
      BY <1>1, <2>1, <2>2
    <2> QED BY <1>1, <2>1, <2>2, <2>3
  <1>4. ASSUME NEW i \in 1..n, s[i] \in M, Head(s) \notin M
        PROVE  \E j \in 1..(n - 1) : t[j] \in M
    <2>1. i # 1
      BY <1>1, <1>4
    <2>2. i - 1 \in 1..(n - 1) /\ (i - 1) + 1 = i
      BY <1>1, <2>1
    <2>3. t[i - 1] = s[(i - 1) + 1]
      BY <1>1, <2>2
    <2> QED BY <1>4, <2>2, <2>3
  <1>5. /\ \A i \in 1..Len(t) : t[i] \in M => i = Len(t)
        /\ (\E i \in 1..Len(t) : t[i] \in M) => (\E i \in 1..n : s[i] \in M)
        /\ Head(s) \notin M /\ (\E i \in 1..n : s[i] \in M)
                => \E i \in 1..Len(t) : t[i] \in M
    BY <1>1, <1>3, <1>4
  <1> QED BY <1>1, <1>2, <1>5 DEF n, t

LEMMA AppendFacts ==
    ASSUME NEW S, NEW M, NEW s \in Seq(S), NEW e \in S,
           \A i \in 1..Len(s) : s[i] \notin M
    PROVE  /\ Append(s, e) \in Seq(S)
           /\ Len(Append(s, e)) = Len(s) + 1
           /\ \A i \in 1..Len(Append(s, e)) :
                Append(s, e)[i] \in M => i = Len(Append(s, e))
           /\ e \in M => \E i \in 1..Len(Append(s, e)) : Append(s, e)[i] \in M
           /\ e \notin M => \A i \in 1..Len(Append(s, e)) : Append(s, e)[i] \notin M
  <1>1. /\ Append(s, e) \in Seq(S) /\ Len(Append(s, e)) = Len(s) + 1
        /\ Len(s) \in Nat
        /\ \A i \in 1..Len(s) : Append(s, e)[i] = s[i]
        /\ Append(s, e)[Len(s) + 1] = e
    OBVIOUS
  <1>2. Len(s) + 1 \in 1..Len(Append(s, e))
    BY <1>1
  <1> QED BY <1>1, <1>2
-----------------------------------------------------------------------------
(* Every action keeps the types and the shape of what the threads do.      *)

LEMMA InitInv == Init => TurnInv
  <1> SUFFICES ASSUME Init PROVE TurnInv
    OBVIOUS
  <1> USE ThreadsDistinct, EventsAssumption, InputsAssumption
  <1>1. TypeOK
    <2>1. /\ pc \in [Threads -> PacketPcs \cup DaemonPcs \cup ClientPcs \cup MainPcs]
          /\ pc[Packet] = "wait" /\ pc[Daemon] = "check" /\ pc[Main] = "read"
          /\ \A c \in Clients : pc[c] = "step"
      BY DEF Init, Threads, PacketPcs, DaemonPcs, ClientPcs, MainPcs, WaitPcs
    <2>2. /\ todo \in [Queuers -> Seq(ClientSteps \cup MainSteps)]
          /\ todo[Main] \in Seq(MainSteps)
          /\ \A c \in Clients : todo[c] \in Seq(ClientSteps)
      BY DEF Init, Queuers
    <2>3. elapsed \in [Clients -> 0..WaitTicks]
      BY DEF Init
    <2>4. queue \in Seq(Events) /\ toApp \in Seq(Tags) /\ toMcu \in Seq(Commands)
      BY DEF Init
    <2>5. /\ pc[Packet] \in PacketPcs /\ pc[Daemon] \in DaemonPcs
          /\ pc[Main] \in MainPcs /\ \A c \in Clients : pc[c] \in ClientPcs
      BY <2>1 DEF PacketPcs, DaemonPcs, ClientPcs, MainPcs
    <2> QED BY <2>1, <2>2, <2>3, <2>4, <2>5 DEF Init, TypeOK
  <1>2. todo[Main] = <<>> /\ toMcu = <<>> /\ toApp = <<>> /\ pc[Main] = "read"
        /\ pc[Packet] = "wait" /\ \A c \in Clients : pc[c] = "step"
    BY DEF Init, Queuers, Threads
  <1>3. StepInv /\ Single
    BY <1>2 DEF StepInv, Single
  <1>4. Exclusion /\ Presence
    BY <1>2 DEF Init, Exclusion, Presence, AppHas, ToAppHas, ToMcuHas, MainHas,
                PacketHas, Threads
  <1> QED BY <1>1, <1>2, <1>3, <1>4 DEF TurnInv, NoUnexpectedState

PcTyped(p) ==
    /\ p \in [Threads -> PacketPcs \cup DaemonPcs \cup ClientPcs \cup MainPcs]
    /\ p[Packet] \in PacketPcs
    /\ p[Daemon] \in DaemonPcs
    /\ p[Main] \in MainPcs
    /\ \A c \in Clients : p[c] \in ClientPcs

(* A thread that moves to a place of its own, and a notified sender, keep  *)
(* pc typed.                                                               *)
LEMMA PcUpdate ==
    ASSUME NEW p, PcTyped(p), NEW t \in Threads, NEW l,
           \/ t = Packet /\ l \in PacketPcs
           \/ t = Daemon /\ l \in DaemonPcs
           \/ t = Main /\ l \in MainPcs
           \/ t \in Clients /\ l \in ClientPcs
    PROVE  /\ PcTyped([p EXCEPT ![t] = l])
           /\ [p EXCEPT ![t] = l][t] = l
           /\ \A u \in Threads \ {t} : [p EXCEPT ![t] = l][u] = p[u]
  BY ThreadsDistinct DEF PcTyped, Threads

LEMMA PcNotify ==
    ASSUME NEW p, PcTyped(p)
    PROVE  /\ PcTyped(NotifyPacket(p))
           /\ \A u \in Threads \ {Packet} : NotifyPacket(p)[u] = p[u]
           /\ NotifyPacket(p)[Packet] =
                IF p[Packet] = "asleep" THEN "woken" ELSE p[Packet]
  BY ThreadsDistinct DEF PcTyped, NotifyPacket, Threads, PacketPcs

(* A client goes on with other steps.                                      *)
LEMMA ClientTodo ==
    ASSUME TypeOK, NEW c \in Clients, NEW r \in Seq(ClientSteps),
           todo' = [todo EXCEPT ![c] = r]
    PROVE  /\ todo' \in [Queuers -> Seq(ClientSteps \cup MainSteps)]
           /\ todo'[Main] = todo[Main] /\ todo'[c] = r
           /\ \A d \in Clients : todo'[d] \in Seq(ClientSteps)
           /\ \A d \in Clients \ {c} : todo'[d] = todo[d]
  <1>1. r \in Seq(ClientSteps \cup MainSteps)
    BY SeqMonotonic
  <1> QED BY <1>1, ThreadsDistinct DEF TypeOK, Queuers

LEMMA PacketStepTyped == TypeOK /\ StepInv /\ PacketStep => TypeOK' /\ StepInv'
  <1> SUFFICES ASSUME TypeOK, StepInv, PacketStep PROVE TypeOK' /\ StepInv'
    OBVIOUS
  <1> USE ThreadsDistinct, InputsAssumption
      DEF TypeOK, StepInv, Threads, Queuers, linkVars, daemonVars, appVars, Goto
  <1>1. CASE WaitForWork
    BY <1>1 DEF WaitForWork, PacketPcs
  <1>2. CASE WaitForStatus
    BY <1>2 DEF WaitForStatus, PacketPcs
  <1>3. CASE ClearStatus
    BY <1>3 DEF ClearStatus, PacketPcs
  <1>4. CASE PickPacket
    <2>1. queue # <<>> => Head(queue) \in Events /\ Tail(queue) \in Seq(Events)
      BY HeadTailProperties
    <2>2. /\ queue' \in Seq(Events) /\ sending' \in Tags \cup {NoTag}
          /\ pc'[Packet] \in {"send", "error"}
          /\ pc'[Packet] = "send" => sending' \in Tags
      BY <1>4, <2>1 DEF PickPacket, Tags
    <2>3. /\ PcTyped(pc')
          /\ pc'[Main] = pc[Main] /\ \A c \in Clients : pc'[c] = pc[c]
      BY <1>4, PcUpdate DEF PickPacket, PacketPcs, PcTyped
    <2>4. UNCHANGED <<tickRequested, stop, statusSet, paused, parked, todo,
                      elapsed, toApp, toMcu, closed, app>>
      BY <1>4 DEF PickPacket
    <2> QED BY <2>2, <2>3, <2>4 DEF PcTyped
  <1>5. CASE SendPicked
    <2>1. toApp' \in Seq(Tags) /\ stop' \in BOOLEAN
      BY <1>5 DEF SendPicked, SendPacket
    <2> QED BY <1>5, <2>1 DEF SendPicked, PacketPcs
  <1>6. CASE CountTick
    <2>1. elapsed' \in [Clients -> 0..WaitTicks]
      BY <1>6 DEF CountTick
    <2> QED BY <1>6, <2>1 DEF CountTick, PacketPcs
  <1>7. CASE ClearTick
    BY <1>7 DEF ClearTick, PacketPcs
  <1> QED BY <1>1, <1>2, <1>3, <1>4, <1>5, <1>6, <1>7 DEF PacketStep

LEMMA TickStepTyped ==
    ASSUME TypeOK, StepInv, NEW t \in Tickers, TickStep(t)
    PROVE  TypeOK' /\ StepInv'
  <1> USE ThreadsDistinct, InputsAssumption
      DEF TypeOK, StepInv, linkVars, daemonVars, appVars
  <1>1. /\ PcTyped(pc) /\ t \in Threads
        /\ t = Daemon \/ t \in Clients
        /\ WaitPcs \subseteq ClientPcs /\ WaitPcs \subseteq DaemonPcs
        /\ {"check", "park"} \subseteq DaemonPcs /\ "step" \in ClientPcs
        /\ {"addtick", "notify", "wtick", "wqueue", "wstatus", "event"} \subseteq WaitPcs
    BY DEF PcTyped, Tickers, Threads, DaemonPcs, ClientPcs, WaitPcs
  <1>2. CASE AddTick(t)
    <2>1. pc' = [pc EXCEPT ![t] = "notify"] /\ pc[t] = "addtick"
      BY <1>2 DEF AddTick, Goto
    <2>2. PcTyped(pc') /\ \A u \in Threads \ {t} : pc'[u] = pc[u]
      BY <1>1, <2>1, PcUpdate
    <2> QED BY <1>1, <1>2, <2>1, <2>2 DEF AddTick, PcTyped, Threads
  <1>3. CASE TickNotify(t)
    <2>1. /\ pc' = NotifyPacket([pc EXCEPT ![t] = IF t = Daemon THEN "check"
                                                              ELSE "wtick"])
          /\ pc[t] = "notify"
      BY <1>3 DEF TickNotify
    <2>2. /\ PcTyped(pc')
          /\ pc'[Main] = pc[Main] /\ \A u \in Clients \ {t} : pc'[u] = pc[u]
          /\ t \in Clients => pc'[t] # "step"
          /\ pc'[Packet] = "send" => pc[Packet] = "send"
      <3> DEFINE l == IF t = Daemon THEN "check" ELSE "wtick"
                 p == [pc EXCEPT ![t] = l]
      <3>1. /\ PcTyped(p) /\ p[t] = l
            /\ \A u \in Threads \ {t} : p[u] = pc[u]
        <4> HIDE DEF l
        <4>1. (t = Daemon /\ l \in DaemonPcs) \/ (t \in Clients /\ l \in ClientPcs)
          BY <1>1 DEF l
        <4> QED BY <1>1, <4>1, PcUpdate
      <3> HIDE DEF p
      <3>2. /\ PcTyped(NotifyPacket(p))
            /\ \A u \in Threads \ {Packet} : NotifyPacket(p)[u] = p[u]
            /\ NotifyPacket(p)[Packet] =
                 IF p[Packet] = "asleep" THEN "woken" ELSE p[Packet]
        BY <3>1, PcNotify
      <3>3. pc' = NotifyPacket(p)
        BY <2>1 DEF p
      <3> QED BY <1>1, <3>1, <3>2, <3>3 DEF Threads
    <2> QED BY <1>1, <1>3, <2>1, <2>2 DEF TickNotify, PcTyped
  <1>4. CASE WaitReadTick(t)
    <2>1. PICK l \in WaitPcs : pc' = [pc EXCEPT ![t] = l] /\ pc[t] = "wtick"
      BY <1>1, <1>4 DEF WaitReadTick
    <2>2. PcTyped(pc') /\ \A u \in Threads \ {t} : pc'[u] = pc[u]
      BY <1>1, <2>1, PcUpdate
    <2> QED BY <1>1, <1>4, <2>1, <2>2 DEF WaitReadTick, PcTyped, Threads
  <1>5. CASE WaitReadQueue(t)
    <2>1. PICK l \in WaitPcs : pc' = [pc EXCEPT ![t] = l] /\ pc[t] = "wqueue"
      BY <1>1, <1>5 DEF WaitReadQueue
    <2>2. PcTyped(pc') /\ \A u \in Threads \ {t} : pc'[u] = pc[u]
      BY <1>1, <2>1, PcUpdate
    <2> QED BY <1>1, <1>5, <2>1, <2>2 DEF WaitReadQueue, PcTyped, Threads
  <1>6. CASE WaitReadStatus(t)
    <2>0. pc[t] = "wstatus"
      BY <1>6 DEF WaitReadStatus
    <2>1. CASE ~statusSet
      <3>1. pc' = [pc EXCEPT ![t] = "event"] /\ todo' = todo
        BY <1>6, <2>1 DEF WaitReadStatus
      <3>2. PcTyped(pc') /\ \A u \in Threads \ {t} : pc'[u] = pc[u]
        BY <1>1, <3>1, PcUpdate
      <3> QED BY <1>1, <1>6, <2>0, <3>1, <3>2 DEF WaitReadStatus, PcTyped, Threads
    <2>2. CASE statusSet /\ t = Daemon
      <3>1. pc' = [pc EXCEPT ![t] = "park"] /\ todo' = todo
        BY <1>6, <2>2 DEF WaitReadStatus
      <3>2. PcTyped(pc') /\ \A u \in Threads \ {t} : pc'[u] = pc[u]
        BY <1>1, <2>2, <3>1, PcUpdate
      <3> QED BY <1>1, <1>6, <2>2, <3>1, <3>2 DEF WaitReadStatus, PcTyped, Threads
    <2>3. CASE statusSet /\ t # Daemon
      <3>1. /\ pc' = [pc EXCEPT ![t] = "step"]
            /\ todo' = [todo EXCEPT ![t] = Tail(todo[t])]
            /\ UNCHANGED <<queue, tickRequested, stop, statusSet, paused, parked,
                           sending, elapsed, toApp, toMcu, closed, app>>
        BY <1>6, <2>3 DEF WaitReadStatus
      <3>2. /\ PcTyped(pc') /\ pc'[t] = "step"
            /\ \A u \in Threads \ {t} : pc'[u] = pc[u]
        BY <1>1, <2>3, <3>1, PcUpdate
      <3>3. todo[t] \in Seq(ClientSteps) /\ todo[t] # <<>>
        BY <1>1, <2>0, <2>3
      <3>5. /\ todo' \in [Queuers -> Seq(ClientSteps \cup MainSteps)]
            /\ todo'[Main] = todo[Main]
            /\ \A c \in Clients : todo'[c] \in Seq(ClientSteps)
            /\ \A c \in Clients \ {t} : todo'[c] = todo[c]
        BY <1>1, <2>3, <3>1, <3>3, ClientTodo, HeadTailProperties
      <3> QED BY <1>1, <2>3, <3>1, <3>2, <3>5 DEF PcTyped, Threads
    <2> QED BY <2>1, <2>2, <2>3
  <1> QED BY <1>2, <1>3, <1>4, <1>5, <1>6 DEF TickStep

LEMMA DaemonStepTyped ==
    ASSUME TypeOK, StepInv, DaemonStep
    PROVE  TypeOK' /\ StepInv'
  <1> USE ThreadsDistinct, InputsAssumption
      DEF TypeOK, StepInv, linkVars, daemonVars, appVars, Goto, Threads
  <1>1. CASE DaemonCheck
    BY <1>1 DEF DaemonCheck, DaemonPcs, WaitPcs
  <1>2. CASE DaemonPark
    BY <1>2 DEF DaemonPark, DaemonPcs
  <1>3. CASE DaemonRest
    BY <1>3 DEF DaemonRest, DaemonPcs
  <1>4. CASE DaemonUnpark
    BY <1>4 DEF DaemonUnpark, DaemonPcs, WaitPcs
  <1>5. CASE TickStep(Daemon)
    BY <1>5, TickStepTyped DEF Tickers
  <1> QED BY <1>1, <1>2, <1>3, <1>4, <1>5 DEF DaemonStep

LEMMA ClientStepTyped ==
    ASSUME TypeOK, StepInv, NEW c \in Clients, Request(c) \/ ClientStep(c)
    PROVE  TypeOK' /\ StepInv'
  <1> USE ThreadsDistinct, InputsAssumption
      DEF TypeOK, StepInv, linkVars, daemonVars, appVars
  <1>1. /\ PcTyped(pc) /\ c \in Threads /\ c # Packet
        /\ {"step", "qnotify", "pausing", "rnotify", "sleeping", "addtick"}
             \subseteq ClientPcs
    BY DEF PcTyped, Threads, ClientPcs, WaitPcs
  <1>2. ASSUME NEW l \in ClientPcs, pc' = [pc EXCEPT ![c] = l]
        PROVE  /\ PcTyped(pc') /\ pc'[c] = l /\ pc'[Main] = pc[Main]
               /\ pc'[Packet] = pc[Packet]
               /\ \A d \in Clients \ {c} : pc'[d] = pc[d]
    BY <1>1, <1>2, PcUpdate DEF Threads
  <1>3. ASSUME todo[c] # <<>>, todo' = [todo EXCEPT ![c] = Tail(todo[c])]
        PROVE  /\ todo' \in [Queuers -> Seq(ClientSteps \cup MainSteps)]
               /\ todo'[Main] = todo[Main]
               /\ \A d \in Clients : todo'[d] \in Seq(ClientSteps)
               /\ \A d \in Clients \ {c} : todo'[d] = todo[d]
    BY <1>3, ClientTodo, HeadTailProperties
  <1>4. CASE Request(c)
    <2>1. PICK r \in Requests : todo' = [todo EXCEPT ![c] = r]
      BY <1>4 DEF Request
    <2>2. r \in Seq(ClientSteps)
      OBVIOUS
    <2>3. /\ todo' \in [Queuers -> Seq(ClientSteps \cup MainSteps)]
          /\ todo'[Main] = todo[Main]
          /\ \A d \in Clients : todo'[d] \in Seq(ClientSteps)
          /\ \A d \in Clients \ {c} : todo'[d] = todo[d]
      BY <2>1, <2>2, ClientTodo
    <2> QED BY <1>4, <2>3 DEF Request
  <1>5. CASE QueuePacket(c)
    <2>1. /\ pc' = [pc EXCEPT ![c] = "qnotify"] /\ pc[c] = "step"
          /\ todo[c] # <<>> /\ Head(todo[c]) \in Events
          /\ queue' = Append(queue, Head(todo[c]))
          /\ UNCHANGED <<tickRequested, stop, statusSet, paused, parked, todo,
                         sending, elapsed, toApp, toMcu, closed, app>>
      BY <1>5 DEF QueuePacket, Goto
    <2>2. queue' \in Seq(Events)
      BY <2>1 DEF Tags
    <2> QED BY <1>1, <1>2, <2>1, <2>2 DEF PcTyped
  <1>6. CASE QueueNotify(c)
    <2> DEFINE p == [pc EXCEPT ![c] = "step"]
    <2>1. /\ pc' = NotifyPacket(p) /\ pc[c] = "qnotify"
          /\ todo' = [todo EXCEPT ![c] = Tail(todo[c])] /\ todo[c] # <<>>
          /\ UNCHANGED <<queue, tickRequested, stop, statusSet, paused, parked,
                         sending, elapsed, toApp, toMcu, closed, app>>
      BY <1>1, <1>6 DEF QueueNotify
    <2>2. /\ PcTyped(p) /\ p[c] = "step"
          /\ \A u \in Threads \ {c} : p[u] = pc[u]
      BY <1>1, PcUpdate
    <2> HIDE DEF p
    <2>3. /\ PcTyped(pc') /\ pc'[Main] = pc[Main] /\ pc'[c] = "step"
          /\ \A d \in Clients \ {c} : pc'[d] = pc[d]
          /\ pc'[Packet] = "send" => pc[Packet] = "send"
      BY <1>1, <2>1, <2>2, PcNotify DEF Threads
    <2> QED BY <1>3, <2>1, <2>3 DEF PcTyped
  <1>7. CASE Pause(c)
    BY <1>1, <1>2, <1>7 DEF Pause, StepIs, Goto, PcTyped
  <1>8. CASE PauseReturn(c)
    <2>1. todo[c] # <<>>
      BY <1>8 DEF PauseReturn, Goto
    <2> QED BY <1>1, <1>2, <1>3, <1>8, <2>1 DEF PauseReturn, Goto, PcTyped
  <1>9. CASE Resume(c)
    BY <1>1, <1>2, <1>9 DEF Resume, StepIs, Goto, PcTyped
  <1>10. CASE ResumeNotify(c)
    <2>1. /\ todo[c] # <<>> /\ todo' = [todo EXCEPT ![c] = Tail(todo[c])]
          /\ pc' = [pc EXCEPT ![c] = "step",
                              ![Daemon] = IF @ = "asleep" THEN "check" ELSE @]
      BY <1>10 DEF ResumeNotify
    <2>2. /\ PcTyped(pc') /\ pc'[c] = "step" /\ pc'[Main] = pc[Main]
          /\ pc'[Packet] = pc[Packet]
          /\ \A d \in Clients \ {c} : pc'[d] = pc[d]
      BY <1>1, <2>1 DEF PcTyped, Threads, DaemonPcs
    <2> QED BY <1>3, <1>10, <2>1, <2>2 DEF ResumeNotify, PcTyped
  <1>11. CASE SingleStep(c)
    BY <1>1, <1>2, <1>11 DEF SingleStep, StepIs, Goto, PcTyped
  <1>12. CASE HandleWait(c)
    <2>1. CASE paused
      <3> DEFINE r == [i \in 1..WaitTicks |-> "single-step"] \o Tail(todo[c])
      <3>1. todo' = [todo EXCEPT ![c] = r] /\ todo[c] # <<>> /\ pc' = pc
        BY <1>12, <2>1 DEF HandleWait, StepIs, Queuers
      <3>2. r \in Seq(ClientSteps)
        <4>1. Tail(todo[c]) \in Seq(ClientSteps)
          BY <3>1, HeadTailProperties
        <4>2. [i \in 1..WaitTicks |-> "single-step"] \in Seq(ClientSteps)
          BY DEF ClientSteps
        <4> QED BY <4>1, <4>2, ConcatProperties
      <3> HIDE DEF r
      <3>3. /\ todo' \in [Queuers -> Seq(ClientSteps \cup MainSteps)]
            /\ todo'[Main] = todo[Main]
            /\ \A d \in Clients : todo'[d] \in Seq(ClientSteps)
            /\ \A d \in Clients \ {c} : todo'[d] = todo[d]
        BY <3>1, <3>2, ClientTodo
      <3>4. pc[c] = "step"
        BY <1>12 DEF HandleWait, StepIs
      <3> QED BY <1>12, <2>1, <3>1, <3>3, <3>4 DEF HandleWait
    <2>2. CASE ~paused
      BY <1>1, <1>2, <1>12, <2>2 DEF HandleWait, StepIs, PcTyped
    <2> QED BY <2>1, <2>2
  <1>13. CASE WaitElapsed(c)
    <2>1. /\ todo[c] # <<>> /\ elapsed' \in [Clients -> 0..WaitTicks]
          /\ todo' = [todo EXCEPT ![c] = Tail(todo[c])]
          /\ pc' = [pc EXCEPT ![c] = "step"]
          /\ UNCHANGED <<queue, tickRequested, stop, statusSet, paused, parked,
                         sending, toApp, toMcu, closed, app>>
      BY <1>13 DEF WaitElapsed, Goto
    <2>2. /\ PcTyped(pc') /\ pc'[c] = "step" /\ pc'[Main] = pc[Main]
          /\ pc'[Packet] = pc[Packet]
          /\ \A d \in Clients \ {c} : pc'[d] = pc[d]
      BY <1>1, <1>2, <2>1
    <2> QED BY <1>3, <2>1, <2>2 DEF PcTyped
  <1>14. CASE TickStep(c)
    BY <1>14, TickStepTyped DEF Tickers
  <1> QED BY <1>4, <1>5, <1>6, <1>7, <1>8, <1>9, <1>10, <1>11, <1>12, <1>13, <1>14
          DEF ClientStep

(* The main thread goes on with other steps.                               *)
LEMMA MainTodo ==
    ASSUME TypeOK, NEW r \in Seq(MainSteps), todo' = [todo EXCEPT ![Main] = r]
    PROVE  /\ todo' \in [Queuers -> Seq(ClientSteps \cup MainSteps)]
           /\ todo'[Main] = r
           /\ \A d \in Clients : todo'[d] = todo[d]
  <1>1. r \in Seq(ClientSteps \cup MainSteps)
    BY SeqMonotonic
  <1> QED BY <1>1, ThreadsDistinct DEF TypeOK, Queuers

(* What a status makes the main thread do ends with a mark, the only one.  *)
LEMMA HandlingFacts ==
    ASSUME NEW tag \in Statuses, NEW a \in Seq(Events)
    PROVE  /\ Handling(tag, a) \in Seq(MainSteps) /\ Handling(tag, a) # <<>>
           /\ \A i \in 1..Len(Handling(tag, a)) :
                Handling(tag, a)[i] \in Marks => i = Len(Handling(tag, a))
           /\ \E i \in 1..Len(Handling(tag, a)) : Handling(tag, a)[i] \in Marks
  <1>1. CASE tag = "GENERAL_STATUS"
    <2> DEFINE h == a \o <<"set">>
    <2>1. Handling(tag, a) = h
      BY <1>1 DEF Handling
    <2>2. a \in Seq(MainSteps) /\ <<"set">> \in Seq(MainSteps)
      BY SeqMonotonic DEF MainSteps
    <2>3. /\ h \in Seq(MainSteps) /\ Len(h) = Len(a) + 1 /\ Len(a) \in Nat
          /\ \A i \in 1..Len(a) : h[i] = a[i] /\ h[i] \in Events
          /\ h[Len(a) + 1] = "set"
      BY <2>2, ConcatProperties, ElementOfSeq
    <2> HIDE DEF h
    <2>4. Events \cap Marks = {} /\ "set" \in Marks
      BY EventsAssumption DEF Marks
    <2> QED BY <2>1, <2>3, <2>4
  <1>2. CASE tag = "DISPLAY_STATUS"
    <2>1. Handling(tag, a) = <<"send-processed">>
      BY <1>2 DEF Handling
    <2> QED BY <2>1 DEF MainSteps, Marks
  <1> QED BY <1>1, <1>2 DEF Statuses

LEMMA MainStepTyped ==
    ASSUME TypeOK, StepInv, MainStep
    PROVE  TypeOK' /\ StepInv'
  <1> USE ThreadsDistinct, InputsAssumption
      DEF TypeOK, StepInv, linkVars, daemonVars, appVars
  <1>1. PcTyped(pc) /\ {"read", "step", "qnotify", "exit"} \subseteq MainPcs
    BY DEF PcTyped, MainPcs
  <1>2. ASSUME NEW l \in MainPcs, pc' = [pc EXCEPT ![Main] = l]
        PROVE  /\ PcTyped(pc') /\ pc'[Main] = l /\ pc'[Packet] = pc[Packet]
               /\ \A d \in Clients : pc'[d] = pc[d]
    BY <1>1, <1>2, PcUpdate DEF Threads
  <1>3. CASE CanRead
    <2>1. /\ pc[Main] = "read" /\ todo[Main] = <<>> /\ toMcu # <<>>
          /\ toMcu' = Tail(toMcu)
          /\ UNCHANGED <<queue, tickRequested, stop, statusSet, paused, parked,
                         sending, elapsed, toApp, app>>
      BY <1>3 DEF CanRead
    <2>2. toMcu' \in Seq(Commands)
      BY <2>1, HeadTailProperties
    <2>3. CASE Head(toMcu) \in Statuses
      <3>1. PICK a \in {<<>>} \cup Automations :
              todo' = [todo EXCEPT ![Main] = Handling(Head(toMcu), a)]
        BY <1>3, <2>3 DEF CanRead, Statuses
      <3>2. pc' = [pc EXCEPT ![Main] = "step"] /\ closed' = closed
        BY <1>3, <2>3 DEF CanRead, Statuses
      <3>3. a \in Seq(Events)
        BY EmptySeq
      <3> DEFINE h == Handling(Head(toMcu), a)
      <3>4. /\ h \in Seq(MainSteps) /\ h # <<>>
            /\ \A i \in 1..Len(h) : h[i] \in Marks => i = Len(h)
        BY <2>3, <3>3, HandlingFacts
      <3>5. todo' = [todo EXCEPT ![Main] = h]
        BY <3>1
      <3> HIDE DEF h
      <3>6. /\ todo' \in [Queuers -> Seq(ClientSteps \cup MainSteps)]
            /\ todo'[Main] = h
            /\ \A d \in Clients : todo'[d] = todo[d]
        BY <3>4, <3>5, MainTodo
      <3> QED BY <1>1, <1>2, <2>1, <2>2, <3>2, <3>4, <3>6 DEF PcTyped
    <2>4. CASE Head(toMcu) = "USB" /\ pc' # pc
      <3>1. PICK a \in Answers : todo' = [todo EXCEPT ![Main] = a]
        BY <1>3, <2>4 DEF CanRead, Statuses
      <3>2. pc' = [pc EXCEPT ![Main] = "step"] /\ closed' = closed
        BY <1>3, <2>4 DEF CanRead, Statuses
      <3>3. /\ a \in Seq(MainSteps) /\ a # <<>>
            /\ \A i \in 1..Len(a) : a[i] \notin Marks
        BY EventsAssumption DEF MainSteps, Marks
      <3>4. /\ todo' \in [Queuers -> Seq(ClientSteps \cup MainSteps)]
            /\ todo'[Main] = a
            /\ \A d \in Clients : todo'[d] = todo[d]
        BY <3>1, <3>3, MainTodo
      <3> QED BY <1>1, <1>2, <2>1, <2>2, <3>2, <3>3, <3>4 DEF PcTyped
    <2>5. CASE Head(toMcu) = "OTHER" \/ (Head(toMcu) = "USB" /\ pc' = pc)
      <3>1. pc' = [pc EXCEPT ![Main] = "step"] => pc'[Main] # pc[Main]
        BY <2>1 DEF Threads
      <3>2. todo' = todo /\ closed' = closed /\ pc' = pc
        BY <1>3, <2>5, <3>1 DEF CanRead, Statuses
      <3> QED BY <2>1, <2>2, <3>2
    <2>6. CASE Head(toMcu) = "SE_POWER_OFF"
      <3>1. /\ todo' = todo /\ closed' = TRUE
            /\ pc' = [pc EXCEPT ![Main] = "exit"]
        BY <1>3, <2>6 DEF CanRead, Statuses
      <3> QED BY <1>1, <1>2, <2>1, <2>2, <3>1 DEF PcTyped
    <2>7. Head(toMcu) \in Commands
      BY <2>1, HeadTailProperties
    <2> QED BY <2>3, <2>4, <2>5, <2>6, <2>7 DEF Commands
  <1>4. CASE CanReadEof
    BY <1>1, <1>2, <1>4 DEF CanReadEof, Goto, PcTyped
  <1>5. ASSUME todo[Main] # <<>>, todo' = [todo EXCEPT ![Main] = Tail(todo[Main])]
        PROVE  /\ todo' \in [Queuers -> Seq(ClientSteps \cup MainSteps)]
               /\ todo'[Main] = Tail(todo[Main]) /\ todo'[Main] \in Seq(MainSteps)
               /\ \A d \in Clients : todo'[d] = todo[d]
               /\ \A i \in 1..Len(todo'[Main]) :
                    todo'[Main][i] \in Marks => i = Len(todo'[Main])
               /\ Head(todo[Main]) \in Marks => todo'[Main] = <<>>
               /\ Len(todo'[Main]) = Len(todo[Main]) - 1
    <2>1. /\ Tail(todo[Main]) \in Seq(MainSteps)
          /\ \A i \in 1..Len(Tail(todo[Main])) :
               Tail(todo[Main])[i] \in Marks => i = Len(Tail(todo[Main]))
          /\ Head(todo[Main]) \in Marks => Tail(todo[Main]) = <<>>
          /\ Len(Tail(todo[Main])) = Len(todo[Main]) - 1
      BY <1>5, TailFacts
    <2> QED BY <1>5, <2>1, MainTodo
  <1>6. CASE SetStatus
    <2> DEFINE p == [pc EXCEPT ![Main] = "read"]
    <2>1. /\ todo[Main] # <<>> /\ Head(todo[Main]) \in Marks
          /\ todo' = [todo EXCEPT ![Main] = Tail(todo[Main])]
          /\ pc' = WakeOnStatus(p)
      BY <1>6 DEF SetStatus, Marks, Queuers
    <2>2. PcTyped(p) /\ p[Main] = "read" /\ \A u \in Threads \ {Main} : p[u] = pc[u]
      BY <1>1, PcUpdate DEF Threads
    <2> HIDE DEF p
    <2>3. /\ PcTyped(pc') /\ pc'[Main] = "read"
          /\ \A c \in Clients : pc'[c] = "step" => pc[c] = "step"
          /\ \A c \in Clients : pc[c] = "step" => pc'[c] = "step"
          /\ pc'[Packet] = "send" => pc[Packet] = "send"
      BY <2>1, <2>2 DEF WakeOnStatus, Threads, PcTyped, PacketPcs, DaemonPcs,
                        ClientPcs, MainPcs, WaitPcs
    <2> QED BY <1>5, <1>6, <2>1, <2>3 DEF SetStatus, PcTyped
  <1>7. CASE SendProcessed
    <2>1. /\ todo[Main] # <<>> /\ Head(todo[Main]) \in Marks
          /\ todo' = [todo EXCEPT ![Main] = Tail(todo[Main])]
          /\ pc' = [pc EXCEPT ![Main] = "read"]
      BY <1>7 DEF SendProcessed, Marks, Queuers, Goto
    <2>2. toApp' \in Seq(Tags) /\ stop' \in BOOLEAN
      BY <1>7 DEF SendProcessed, SendPacket, Tags
    <2> QED BY <1>1, <1>2, <1>5, <1>7, <2>1, <2>2 DEF SendProcessed, PcTyped
  <1>8. CASE QueuePacket(Main)
    <2>1. /\ pc' = [pc EXCEPT ![Main] = "qnotify"] /\ pc[Main] = "step"
          /\ todo[Main] # <<>> /\ Head(todo[Main]) \in Events
          /\ queue' = Append(queue, Head(todo[Main]))
          /\ UNCHANGED <<tickRequested, stop, statusSet, paused, parked, todo,
                         sending, elapsed, toApp, toMcu, closed, app>>
      BY <1>8 DEF QueuePacket, Goto
    <2>2. queue' \in Seq(Events)
      BY <2>1 DEF Tags
    <2> QED BY <1>1, <1>2, <2>1, <2>2 DEF PcTyped
  <1>9. CASE QueueNotify(Main)
    <2> DEFINE l == IF Len(todo[Main]) = 1 THEN "read" ELSE "step"
               p == [pc EXCEPT ![Main] = l]
    <2>1. /\ pc' = NotifyPacket(p) /\ pc[Main] = "qnotify"
          /\ todo' = [todo EXCEPT ![Main] = Tail(todo[Main])] /\ todo[Main] # <<>>
          /\ UNCHANGED <<queue, tickRequested, stop, statusSet, paused, parked,
                         sending, elapsed, toApp, toMcu, closed, app>>
      BY <1>9 DEF QueueNotify
    <2>2. l \in {"read", "step"}
      OBVIOUS
    <2>3. todo'[Main] \in Seq(MainSteps) /\ (l = "read" <=> todo'[Main] = <<>>)
      <3>1. /\ todo'[Main] \in Seq(MainSteps)
            /\ Len(todo'[Main]) = Len(todo[Main]) - 1
        BY <1>5, <2>1
      <3>2. /\ Len(todo[Main]) \in Nat
            /\ todo'[Main] = <<>> <=> Len(todo'[Main]) = 0
        BY <3>1, EmptySeq, LenProperties
      <3> QED BY <3>1, <3>2
    <2> HIDE DEF l
    <2>4. /\ PcTyped(p) /\ p[Main] = l
          /\ \A u \in Threads \ {Main} : p[u] = pc[u]
      BY <1>1, <2>2, PcUpdate DEF Threads
    <2> HIDE DEF p
    <2>5. /\ PcTyped(pc') /\ pc'[Main] = l
          /\ \A d \in Clients : pc'[d] = pc[d]
          /\ pc'[Packet] = "send" => pc[Packet] = "send"
      BY <2>1, <2>4, PcNotify DEF Threads
    <2> QED BY <1>5, <2>1, <2>2, <2>3, <2>5 DEF PcTyped
  <1> QED BY <1>3, <1>4, <1>6, <1>7, <1>8, <1>9 DEF MainStep

LEMMA AppStepTyped ==
    ASSUME TypeOK, StepInv, AppStep
    PROVE  TypeOK' /\ StepInv'
  <1> USE DEF TypeOK, StepInv, linkVars, daemonVars, appVars
  <1>1. CASE AppSend
    BY <1>1 DEF AppSend
  <1>2. CASE \E s \in Statuses : AppStatus(s)
    BY <1>2 DEF AppStatus, Commands
  <1>3. CASE AppReceive
    <2>1. toApp' \in Seq(Tags)
      BY <1>3, HeadTailProperties DEF AppReceive
    <2> QED BY <1>3, <2>1 DEF AppReceive
  <1>4. CASE AppExit
    BY <1>4 DEF AppExit
  <1> QED BY <1>1, <1>2, <1>3, <1>4 DEF AppStep

LEMMA NextTyped == TypeOK /\ StepInv /\ [Next]_vars => TypeOK' /\ StepInv'
  <1> SUFFICES ASSUME TypeOK, StepInv, [Next]_vars PROVE TypeOK' /\ StepInv'
    OBVIOUS
  <1>1. CASE UNCHANGED vars
    BY <1>1 DEF vars, TypeOK, StepInv
  <1>2. CASE PacketStep
    BY <1>2, PacketStepTyped
  <1>3. CASE DaemonStep
    BY <1>3, DaemonStepTyped
  <1>4. CASE MainStep
    BY <1>4, MainStepTyped
  <1>5. CASE AppStep
    BY <1>5, AppStepTyped
  <1>6. CASE \E c \in Clients : Request(c) \/ ClientStep(c)
    BY <1>6, ClientStepTyped
  <1>7. CASE ProcessExit
    BY <1>1, <1>7 DEF ProcessExit
  <1> QED BY <1>1, <1>2, <1>3, <1>4, <1>5, <1>6, <1>7 DEF Next

(* Type correctness of the link for any number of clients.                 *)
THEOREM TypeCorrect == Spec => []TypeOK
  <1>1. Init => TypeOK /\ StepInv
    BY InitInv DEF TurnInv
  <1> QED BY <1>1, NextTyped, PTL DEF Spec

-----------------------------------------------------------------------------
(* What the steps of the other threads leave to the sender and its turn.   *)

(* Only the sender moves pc[Packet], except that a notification or a       *)
(* status wakes it up where it waits.                                      *)
PacketWoken ==
    \/ pc'[Packet] = pc[Packet]
    \/ pc[Packet] = "asleep" /\ pc'[Packet] = "woken"
    \/ pc[Packet] = "event" /\ pc'[Packet] = "status"

(* No turn is passed: the holders are the same before and after the step.  *)
Quiet ==
    /\ UNCHANGED <<app, toApp, toMcu, statusSet, closed>>
    /\ MainHas' <=> MainHas
    /\ PacketWoken

LEMMA QuietTurn ==
    Single /\ Exclusion /\ Presence /\ Quiet => Single' /\ Exclusion' /\ Presence'
  BY DEF Single, Exclusion, Presence, Quiet, PacketWoken, AppHas, ToAppHas,
         ToMcuHas, PacketHas

LEMMA TickStepQuiet ==
    ASSUME TypeOK, StepInv, NEW t \in Tickers, TickStep(t)
    PROVE  /\ Quiet /\ queue' = queue
           /\ tickRequested => tickRequested'
  <1> USE ThreadsDistinct DEF TypeOK, Quiet, PacketWoken, Tickers, Threads,
          Queuers, linkVars, appVars, MainHas
  <1>1. CASE AddTick(t)
    BY <1>1 DEF AddTick, Goto
  <1>2. CASE TickNotify(t)
    BY <1>2 DEF TickNotify, NotifyPacket
  <1>3. CASE WaitReadTick(t)
    BY <1>3 DEF WaitReadTick
  <1>4. CASE WaitReadQueue(t)
    BY <1>4 DEF WaitReadQueue
  <1>5. CASE WaitReadStatus(t)
    <2>1. todo'[Main] = todo[Main] /\ pc'[Packet] = pc[Packet]
      BY <1>5 DEF WaitReadStatus
    <2> QED BY <1>5, <2>1 DEF WaitReadStatus
  <1> QED BY <1>1, <1>2, <1>3, <1>4, <1>5 DEF TickStep

LEMMA DaemonStepQuiet ==
    ASSUME TypeOK, StepInv, DaemonStep
    PROVE  /\ Quiet /\ queue' = queue
           /\ tickRequested => tickRequested'
  <1>1. CASE TickStep(Daemon)
    BY <1>1, TickStepQuiet DEF Tickers
  <1>2. CASE DaemonCheck \/ DaemonPark \/ DaemonRest \/ DaemonUnpark
    BY <1>2, ThreadsDistinct
       DEF TypeOK, Quiet, PacketWoken, DaemonCheck, DaemonPark, DaemonRest,
           DaemonUnpark, Goto, Threads, linkVars, appVars, MainHas
  <1> QED BY <1>1, <1>2 DEF DaemonStep

LEMMA ClientStepQuiet ==
    ASSUME TypeOK, StepInv, NEW c \in Clients, Request(c) \/ ClientStep(c)
    PROVE  /\ Quiet
           /\ queue # <<>> => queue' # <<>>
           /\ tickRequested => tickRequested'
  <1> USE ThreadsDistinct DEF TypeOK, Quiet, PacketWoken, Threads, Queuers,
          linkVars, appVars, MainHas, Goto, StepIs
  <1>1. CASE Request(c)
    BY <1>1 DEF Request
  <1>2. CASE QueuePacket(c)
    <2>1. queue' = Append(queue, Head(todo[c])) /\ Head(todo[c]) \in Tags
      BY <1>2 DEF QueuePacket, Tags
    <2>2. Len(queue') = Len(queue) + 1 /\ Len(queue) \in Nat
      BY <2>1
    <2>3. queue' # <<>>
      BY <2>2
    <2> QED BY <1>2, <2>3 DEF QueuePacket
  <1>3. CASE QueueNotify(c)
    BY <1>3 DEF QueueNotify, NotifyPacket
  <1>4. CASE Pause(c)
    BY <1>4 DEF Pause
  <1>5. CASE PauseReturn(c)
    BY <1>5 DEF PauseReturn
  <1>6. CASE Resume(c)
    BY <1>6 DEF Resume
  <1>7. CASE ResumeNotify(c)
    BY <1>7 DEF ResumeNotify
  <1>8. CASE SingleStep(c)
    BY <1>8 DEF SingleStep
  <1>9. CASE HandleWait(c)
    <2>1. todo'[Main] = todo[Main] /\ pc'[Packet] = pc[Packet]
      BY <1>9 DEF HandleWait
    <2> QED BY <1>9, <2>1 DEF HandleWait
  <1>10. CASE WaitElapsed(c)
    BY <1>10 DEF WaitElapsed
  <1>11. CASE TickStep(c)
    BY <1>11, TickStepQuiet DEF Tickers
  <1> QED BY <1>1, <1>2, <1>3, <1>4, <1>5, <1>6, <1>7, <1>8, <1>9, <1>10, <1>11
          DEF ClientStep

-----------------------------------------------------------------------------
(* What made the sender leave its wait is still there when it picks.       *)

LEMMA WorkStep == TypeOK /\ StepInv /\ NoUnexpectedState /\ [Next]_vars
                    => NoUnexpectedState'
  <1> SUFFICES ASSUME TypeOK, StepInv, NoUnexpectedState, [Next]_vars
               PROVE  NoUnexpectedState'
    OBVIOUS
  <1> USE ThreadsDistinct DEF NoUnexpectedState
  <1>1. ASSUME queue # <<>> => queue' # <<>>, tickRequested => tickRequested',
               PacketWoken
        PROVE  NoUnexpectedState'
    BY <1>1 DEF PacketWoken
  <1>2. CASE UNCHANGED vars
    BY <1>2 DEF vars
  <1>3. CASE PacketStep
    BY <1>3 DEF PacketStep, WaitForWork, WaitForStatus, ClearStatus, PickPacket,
                SendPicked, CountTick, ClearTick, Goto, linkVars, TypeOK, Threads
  <1>4. CASE DaemonStep
    BY <1>1, <1>4, DaemonStepQuiet DEF Quiet
  <1>5. CASE \E c \in Clients : Request(c) \/ ClientStep(c)
    BY <1>1, <1>5, ClientStepQuiet DEF Quiet
  <1>6. CASE MainStep
    <2> USE DEF TypeOK, Threads, linkVars, PacketWoken, Goto
    <2>1. CASE CanRead \/ CanReadEof \/ SendProcessed
      BY <1>1, <2>1 DEF CanRead, CanReadEof, SendProcessed
    <2>2. CASE SetStatus
      BY <1>1, <2>2 DEF SetStatus, WakeOnStatus
    <2>3. CASE QueuePacket(Main)
      <3>1. queue' = Append(queue, Head(todo[Main])) /\ Head(todo[Main]) \in Tags
        BY <2>3 DEF QueuePacket, Tags
      <3>2. Len(queue') = Len(queue) + 1 /\ Len(queue) \in Nat
        BY <3>1
      <3>3. queue' # <<>>
        BY <3>2
      <3> QED BY <1>1, <2>3, <3>3 DEF QueuePacket
    <2>4. CASE QueueNotify(Main)
      BY <1>1, <2>4 DEF QueueNotify, NotifyPacket
    <2> QED BY <1>6, <2>1, <2>2, <2>3, <2>4 DEF MainStep
  <1>7. CASE AppStep
    BY <1>7 DEF AppStep, AppSend, AppStatus, AppReceive, AppExit, linkVars
  <1>8. CASE ProcessExit
    BY <1>2, <1>8 DEF ProcessExit
  <1> QED BY <1>2, <1>3, <1>4, <1>5, <1>6, <1>7, <1>8 DEF Next

(* The RuntimeError of SocketHelper.run cannot be raised, whatever the     *)
(* clients, the automation rules and the application do.                   *)
THEOREM SenderHasWork == Spec => []NoUnexpectedState
  <1>1. Init => TypeOK /\ StepInv /\ NoUnexpectedState
    BY InitInv DEF TurnInv
  <1> QED BY <1>1, NextTyped, WorkStep, PTL DEF Spec

-----------------------------------------------------------------------------
(* The turn moves from one holder to the next.                             *)

LEMMA PacketStepTurn ==
    ASSUME TurnInv, PacketStep PROVE Single' /\ Exclusion' /\ Presence'
  <1> USE ThreadsDistinct DEF TurnInv, TypeOK, Threads, linkVars, appVars, Goto
  <1>1. CASE WaitForWork \/ WaitForStatus \/ CountTick \/ ClearTick
    BY <1>1 DEF WaitForWork, WaitForStatus, CountTick, ClearTick, Single,
                Exclusion, Presence, AppHas, ToAppHas, ToMcuHas, MainHas, PacketHas
  <1>2. CASE ClearStatus
    BY <1>2 DEF ClearStatus, Single, Exclusion, Presence, AppHas, ToAppHas,
                ToMcuHas, MainHas, PacketHas
  <1>3. CASE PickPacket
    <2>1. /\ pc[Packet] = "pick" /\ pc'[Packet] = "send"
          /\ UNCHANGED <<statusSet, todo, toApp, toMcu, closed, app>>
      BY <1>3 DEF PickPacket, NoUnexpectedState
    <2> QED BY <2>1 DEF Single, Exclusion, Presence, AppHas, ToAppHas, ToMcuHas,
                        MainHas, PacketHas
  <1>4. CASE SendPicked
    <2>1. /\ pc[Packet] = "send" /\ pc'[Packet] \in {"count", "wait"}
          /\ UNCHANGED <<statusSet, todo, toMcu, closed, app>>
      BY <1>4 DEF SendPicked
    <2>2. toApp = <<>>
      BY <2>1 DEF Exclusion, PacketHas, ToAppHas
    <2>3. Len(toApp') <= 1 /\ (~closed => toApp' # <<>>) /\ (closed => toApp' = toApp)
      <3>1. CASE closed
        BY <1>4, <2>2, <3>1, EmptySeq DEF SendPicked, SendPacket
      <3>2. CASE ~closed
        <4>1. toApp' = Append(toApp, sending) /\ sending \in Tags
          BY <1>4, <3>2 DEF SendPicked, SendPacket, StepInv
        <4>2. Len(toApp') = 1
          BY <2>2, <4>1, EmptySeq
        <4>3. toApp' # <<>> /\ 1 <= 1
          BY ONLY <4>2, EmptySeq
        <4> QED BY ONLY <3>2, <4>2, <4>3
      <3> QED BY <3>1, <3>2
    <2> QED BY <2>1, <2>2, <2>3 DEF Single, Exclusion, Presence, AppHas, ToAppHas,
                                    ToMcuHas, MainHas, PacketHas
  <1> QED BY <1>1, <1>2, <1>3, <1>4 DEF PacketStep

LEMMA AppStepTurn ==
    ASSUME TurnInv, AppStep PROVE Single' /\ Exclusion' /\ Presence'
  <1> USE DEF TurnInv, TypeOK, linkVars
  <1>1. CASE AppSend
    <2>1. PICK c \in Commands \ Statuses : toMcu' = Append(toMcu, c)
      BY <1>1 DEF AppSend
    <2>2. AppHas /\ AppHas' /\ UNCHANGED <<toApp, todo, pc, statusSet, closed>>
      BY <1>1 DEF AppSend, AppHas
    <2>3. \A i \in 1..Len(toMcu) : toMcu[i] \notin Statuses
      BY <2>2 DEF Exclusion, ToMcuHas
    <2>4. \A i \in 1..Len(toMcu') : toMcu'[i] \notin Statuses
      BY <2>1, <2>3, AppendFacts
    <2> QED BY <2>2, <2>4 DEF Single, Exclusion, Presence, ToAppHas, ToMcuHas,
                              MainHas, PacketHas
  <1>2. CASE \E s \in Statuses : AppStatus(s)
    <2>1. PICK s \in Statuses : toMcu' = Append(toMcu, s)
      BY <1>2 DEF AppStatus
    <2>2. AppHas /\ ~AppHas' /\ UNCHANGED <<toApp, todo, pc, statusSet, closed>>
      BY <1>2 DEF AppStatus, AppHas
    <2>3. \A i \in 1..Len(toMcu) : toMcu[i] \notin Statuses
      BY <2>2 DEF Exclusion, ToMcuHas
    <2>4. /\ \A i \in 1..Len(toMcu') : toMcu'[i] \in Statuses => i = Len(toMcu')
          /\ ToMcuHas'
      <3>1. s \in Commands
        BY DEF Commands
      <3>2. /\ \A i \in 1..Len(Append(toMcu, s)) :
                 Append(toMcu, s)[i] \in Statuses => i = Len(Append(toMcu, s))
            /\ \E i \in 1..Len(Append(toMcu, s)) : Append(toMcu, s)[i] \in Statuses
        <4>1. toMcu \in Seq(Commands)
          OBVIOUS
        <4> QED BY ONLY <2>1, <2>3, <3>1, <4>1, AppendFacts
      <3> QED BY <2>1, <3>2 DEF ToMcuHas
    <2> QED BY <2>2, <2>4 DEF Single, Exclusion, Presence, ToAppHas, MainHas,
                              PacketHas
  <1>3. CASE AppReceive
    <2>1. /\ toApp # <<>> /\ toApp' = Tail(toApp) /\ AppHas'
          /\ UNCHANGED <<toMcu, todo, pc, statusSet, closed>>
      BY <1>3 DEF AppReceive, AppHas
    <2>2. toApp' = <<>> /\ Len(toApp') = 0
      <3>1. /\ toApp' \in Seq(Tags) /\ Len(toApp') = Len(toApp) - 1
            /\ Len(toApp) \in Nat \ {0} /\ Len(toApp) <= 1
        BY <2>1, HeadTailProperties, EmptySeq DEF Single
      <3> QED BY <3>1, EmptySeq
    <2> QED BY <2>1, <2>2 DEF Single, Exclusion, Presence, ToAppHas, ToMcuHas,
                              MainHas, PacketHas
  <1>4. CASE AppExit
    BY <1>4 DEF AppExit, Single, Exclusion, Presence, AppHas, ToAppHas, ToMcuHas,
                MainHas, PacketHas
  <1> QED BY <1>1, <1>2, <1>3, <1>4 DEF AppStep

LEMMA MainStepTurn ==
    ASSUME TurnInv, MainStep PROVE Single' /\ Exclusion' /\ Presence'
  <1> USE ThreadsDistinct, InputsAssumption
      DEF TurnInv, TypeOK, Threads, Queuers, linkVars, appVars
  <1>1. CASE CanRead
    <2>1. /\ pc[Main] = "read" /\ todo[Main] = <<>> /\ toMcu # <<>>
          /\ toMcu' = Tail(toMcu) /\ pc'[Packet] = pc[Packet]
          /\ UNCHANGED <<statusSet, toApp, app>>
      BY <1>1 DEF CanRead, StepInv
    <2>2. /\ \A i \in 1..Len(toMcu') : toMcu'[i] \in Statuses => i = Len(toMcu')
          /\ ToMcuHas' => ToMcuHas
          /\ Head(toMcu) \notin Statuses /\ ToMcuHas => ToMcuHas'
          /\ Head(toMcu) \in Statuses => ~ToMcuHas' /\ ToMcuHas
      <3>1. /\ toMcu \in Seq(Commands)
            /\ \A i \in 1..Len(toMcu) : toMcu[i] \in Statuses => i = Len(toMcu)
        BY DEF Single
      <3>2. /\ \A i \in 1..Len(toMcu') : toMcu'[i] \in Statuses => i = Len(toMcu')
            /\ ToMcuHas' => ToMcuHas
            /\ Head(toMcu) \notin Statuses /\ ToMcuHas => ToMcuHas'
            /\ Head(toMcu) \in Statuses => toMcu' = <<>>
            /\ Head(toMcu) = toMcu[1]
        <4> DEFINE m == toMcu
        <4> HIDE DEF m
        <4>1. /\ Head(m) = m[1]
              /\ \A i \in 1..Len(Tail(m)) : Tail(m)[i] \in Statuses => i = Len(Tail(m))
              /\ (\E i \in 1..Len(Tail(m)) : Tail(m)[i] \in Statuses)
                   => (\E i \in 1..Len(m) : m[i] \in Statuses)
              /\ Head(m) \notin Statuses /\ (\E i \in 1..Len(m) : m[i] \in Statuses)
                   => \E i \in 1..Len(Tail(m)) : Tail(m)[i] \in Statuses
              /\ Head(m) \in Statuses => Tail(m) = <<>>
          <5>1. m \in Seq(Commands) /\ m # <<>>
                /\ \A i \in 1..Len(m) : m[i] \in Statuses => i = Len(m)
            BY <2>1, <3>1 DEF m
          <5> QED BY ONLY <5>1, TailFacts
        <4> QED BY <2>1, <4>1 DEF ToMcuHas, m
      <3>3. 1 \in 1..Len(toMcu)
        BY <2>1, EmptySeq
      <3>4. Head(toMcu) \in Statuses => ~ToMcuHas'
        BY <3>2, EmptySeq DEF ToMcuHas
      <3> QED BY <3>2, <3>3, <3>4 DEF ToMcuHas
    <2>3. ~MainHas
      BY <2>1, EmptySeq DEF MainHas
    <2>4. CASE Head(toMcu) \in Statuses
      <3>1. PICK a \in {<<>>} \cup Automations :
              todo' = [todo EXCEPT ![Main] = Handling(Head(toMcu), a)]
        BY <1>1, <2>4 DEF CanRead, Statuses
      <3>2. a \in Seq(Events) /\ closed' = closed
        BY <1>1, <2>4, EmptySeq DEF CanRead, Statuses
      <3>3. MainHas'
        BY <2>4, <3>1, <3>2, HandlingFacts DEF MainHas
      <3> QED BY <2>1, <2>2, <2>4, <3>2, <3>3 DEF Single, Exclusion, Presence,
                AppHas, ToAppHas, PacketHas
    <2>5. CASE Head(toMcu) \notin Statuses
      <3>1. (closed => closed') /\ ~MainHas'
        <4>1. \/ \E a \in Answers : todo' = [todo EXCEPT ![Main] = a]
              \/ todo' = todo
          BY <1>1, <2>5 DEF CanRead
        <4>2. ASSUME NEW a \in Answers, todo' = [todo EXCEPT ![Main] = a]
              PROVE  ~MainHas'
          <5>1. todo'[Main] = a /\ \A i \in 1..Len(a) : a[i] \notin Marks
            BY <4>2, EventsAssumption DEF Marks
          <5> QED BY <5>1 DEF MainHas
        <4>3. todo' = todo => ~MainHas'
          BY <2>3 DEF MainHas
        <4>4. closed => closed'
          BY <1>1 DEF CanRead
        <4> QED BY <4>1, <4>2, <4>3, <4>4
      <3> QED BY <2>1, <2>2, <2>3, <2>5, <3>1 DEF Single, Exclusion, Presence,
                AppHas, ToAppHas, PacketHas
    <2> QED BY <2>4, <2>5
  <1>2. CASE CanReadEof
    <2>1. Quiet
      BY <1>2 DEF CanReadEof, Quiet, PacketWoken, Goto, MainHas
    <2> QED BY <2>1, QuietTurn
  <1>3. ASSUME todo[Main] # <<>>, todo' = [todo EXCEPT ![Main] = Tail(todo[Main])]
        PROVE  /\ Head(todo[Main]) \in Marks => ~MainHas' /\ MainHas
               /\ Head(todo[Main]) \notin Marks => (MainHas' <=> MainHas)
    <2>1. /\ todo[Main] \in Seq(MainSteps)
          /\ \A i \in 1..Len(todo[Main]) : todo[Main][i] \in Marks => i = Len(todo[Main])
          /\ todo'[Main] = Tail(todo[Main])
      BY <1>3 DEF StepInv
    <2>2. /\ MainHas' => MainHas
          /\ Head(todo[Main]) \notin Marks /\ MainHas => MainHas'
          /\ Head(todo[Main]) \in Marks => todo'[Main] = <<>>
          /\ Head(todo[Main]) = todo[Main][1]
      <3> DEFINE m == todo[Main]
      <3>1. m \in Seq(MainSteps) /\ m # <<>>
            /\ \A i \in 1..Len(m) : m[i] \in Marks => i = Len(m)
        BY <1>3, <2>1
      <3> HIDE DEF m
      <3>2. /\ Head(m) = m[1]
            /\ (\E i \in 1..Len(Tail(m)) : Tail(m)[i] \in Marks)
                 => (\E i \in 1..Len(m) : m[i] \in Marks)
            /\ Head(m) \notin Marks /\ (\E i \in 1..Len(m) : m[i] \in Marks)
                 => \E i \in 1..Len(Tail(m)) : Tail(m)[i] \in Marks
            /\ Head(m) \in Marks => Tail(m) = <<>>
        BY ONLY <3>1, TailFacts
      <3> QED BY <2>1, <3>2 DEF MainHas, m
    <2>3. 1 \in 1..Len(todo[Main])
      BY <1>3, <2>1, EmptySeq
    <2>4. Head(todo[Main]) \in Marks => ~MainHas'
      BY <2>2, EmptySeq DEF MainHas
    <2> QED BY <2>2, <2>3, <2>4 DEF MainHas
  <1>4. CASE SetStatus
    <2>1. /\ todo[Main] # <<>> /\ Head(todo[Main]) \in Marks
          /\ todo' = [todo EXCEPT ![Main] = Tail(todo[Main])]
          /\ statusSet' = TRUE /\ UNCHANGED <<toApp, toMcu, closed, app>>
      BY <1>4 DEF SetStatus, Marks
    <2>2. PacketWoken
      BY <1>4 DEF SetStatus, PacketWoken, WakeOnStatus
    <2> QED BY <1>3, <2>1, <2>2 DEF PacketWoken, Single, Exclusion, Presence,
              AppHas, ToAppHas, ToMcuHas, PacketHas
  <1>5. CASE SendProcessed
    <2>1. /\ todo[Main] # <<>> /\ Head(todo[Main]) \in Marks
          /\ todo' = [todo EXCEPT ![Main] = Tail(todo[Main])]
          /\ pc'[Packet] = pc[Packet]
          /\ UNCHANGED <<statusSet, toMcu, closed, app>>
      BY <1>5 DEF SendProcessed, Marks, Goto
    <2>2. MainHas /\ ~MainHas'
      BY <1>3, <2>1
    <2>3. toApp = <<>>
      BY <2>2 DEF Exclusion, ToAppHas
    <2>4. Len(toApp') <= 1 /\ (~closed => toApp' # <<>>) /\ (closed => toApp' = toApp)
      <3>1. CASE closed
        BY <1>5, <2>3, <3>1, EmptySeq DEF SendProcessed, SendPacket
      <3>2. CASE ~closed
        <4>1. toApp' = Append(toApp, Processed) /\ Processed \in Tags
          BY <1>5, <3>2 DEF SendProcessed, SendPacket, Tags
        <4>2. Len(toApp') = 1
          BY <2>3, <4>1, EmptySeq
        <4>3. toApp' # <<>> /\ 1 <= 1
          BY ONLY <4>2, EmptySeq
        <4> QED BY ONLY <3>2, <4>2, <4>3
      <3> QED BY <3>1, <3>2
    <2> QED BY <2>1, <2>2, <2>3, <2>4 DEF Single, Exclusion, Presence, AppHas,
              ToAppHas, ToMcuHas, PacketHas
  <1>6. CASE QueuePacket(Main)
    <2>1. Quiet
      BY <1>6 DEF QueuePacket, Quiet, PacketWoken, Goto, MainHas
    <2> QED BY <2>1, QuietTurn
  <1>7. CASE QueueNotify(Main)
    <2>1. /\ todo[Main] # <<>> /\ Head(todo[Main]) \notin Marks
          /\ todo' = [todo EXCEPT ![Main] = Tail(todo[Main])]
      BY <1>7, EventsAssumption DEF QueueNotify, StepInv, Marks
    <2>2. PacketWoken
      BY <1>7 DEF QueueNotify, NotifyPacket, PacketWoken
    <2>3. Quiet
      BY <1>3, <1>7, <2>1, <2>2 DEF QueueNotify, Quiet
    <2> QED BY <2>3, QuietTurn
  <1> QED BY <1>1, <1>2, <1>4, <1>5, <1>6, <1>7 DEF MainStep

LEMMA TurnStep == TurnInv /\ [Next]_vars => TurnInv'
  <1> SUFFICES ASSUME TurnInv, [Next]_vars PROVE TurnInv'
    OBVIOUS
  <1>1. TypeOK' /\ StepInv' /\ NoUnexpectedState'
    BY NextTyped, WorkStep DEF TurnInv
  <1>2. Single' /\ Exclusion' /\ Presence'
    <2>1. CASE UNCHANGED vars
      BY <2>1 DEF vars, TurnInv, Single, Exclusion, Presence, AppHas, ToAppHas,
                  ToMcuHas, MainHas, PacketHas
    <2>2. CASE PacketStep
      BY <2>2, PacketStepTurn
    <2>3. CASE DaemonStep
      BY <2>3, DaemonStepQuiet, QuietTurn DEF TurnInv
    <2>4. CASE MainStep
      BY <2>4, MainStepTurn
    <2>5. CASE AppStep
      BY <2>5, AppStepTurn
    <2>6. CASE \E c \in Clients : Request(c) \/ ClientStep(c)
      BY <2>6, ClientStepQuiet, QuietTurn DEF TurnInv
    <2>7. CASE ProcessExit
      BY <2>1, <2>7 DEF ProcessExit
    <2> QED BY <2>1, <2>2, <2>3, <2>4, <2>5, <2>6, <2>7 DEF Next
  <1> QED BY <1>1, <1>2 DEF TurnInv

(* An event is sent to the application only after the status that ends the *)
(* previous one, and the turn is never held twice (OneTurn).               *)
THEOREM TurnIsUnique == Spec => []OneTurn
  <1>1. TurnInv => OneTurn
    <2> SUFFICES ASSUME TurnInv PROVE OneTurn
      OBVIOUS
    <2>1. DOMAIN toMcu = 1..Len(toMcu) /\ DOMAIN todo[Main] = 1..Len(todo[Main])
      BY LenProperties DEF TurnInv, TypeOK
    <2>2. \A g, h \in Holders : Holds(g) /\ Holds(h) => g = h
      BY <2>1 DEF TurnInv, Exclusion, Holders, Holds, AppHas, ToAppHas, ToMcuHas,
                  MainHas, PacketHas
    <2> QED BY <2>1, <2>2 DEF TurnInv, Single, OneTurn
  <1> QED BY <1>1, InitInv, TurnStep, PTL DEF Spec

(* While the socket is open somebody holds the turn: the emulator and the  *)
(* application never wait for each other (TurnNotLost).                    *)
THEOREM TurnIsNeverLost == Spec => []TurnNotLost
  <1>1. TurnInv => TurnNotLost
    <2> SUFFICES ASSUME TurnInv PROVE TurnNotLost
      OBVIOUS
    <2>1. DOMAIN toMcu = 1..Len(toMcu) /\ DOMAIN todo[Main] = 1..Len(todo[Main])
      BY LenProperties DEF TurnInv, TypeOK
    <2> QED BY <2>1 DEF TurnInv, Presence, TurnNotLost, Holders, Holds, AppHas,
                        ToAppHas, ToMcuHas, MainHas, PacketHas
  <1> QED BY <1>1, InitInv, TurnStep, PTL DEF Spec

-----------------------------------------------------------------------------
(* No wakeup is lost: every step but the sender's own leaves what it waits *)
(* for and the threads about to notify it as they are, or announces a      *)
(* notification, or wakes it.                                              *)

Others == Threads \ {Packet}
Notifying == {"notify", "qnotify"}
Undisturbed ==
    /\ queue' = queue /\ tickRequested' = tickRequested
    /\ pc'[Packet] = "asleep" => pc[Packet] = "asleep"
    /\ \A u \in Others : pc[u] \in Notifying => pc'[u] \in Notifying
Announced == \E u \in Others : pc'[u] \in Notifying
Woken == pc'[Packet] # "asleep"

LEMMA WakefulStep ==
    NoLostWakeup /\ (Undisturbed \/ Announced \/ Woken) => NoLostWakeup'
  BY DEF NoLostWakeup, Undisturbed, Announced, Woken, Others, Notifying

(* A thread that moves from a place where it does not owe a notification.  *)
LEMMA MoveUndisturbed ==
    ASSUME TypeOK, NEW t \in Others, NEW l, pc[t] \notin Notifying,
           pc' = [pc EXCEPT ![t] = l], queue' = queue, tickRequested' = tickRequested
    PROVE  Undisturbed
  BY ThreadsDistinct DEF TypeOK, Undisturbed, Others, Threads

LEMMA NotifyWakes ==
    ASSUME TypeOK, NEW t \in Others, NEW l, pc' = NotifyPacket([pc EXCEPT ![t] = l])
    PROVE  Woken
  <1>1. Packet \in Threads /\ t # Packet /\ DOMAIN pc = Threads
    BY DEF TypeOK, Others, Threads
  <1> QED BY <1>1 DEF NotifyPacket, Woken, TypeOK

LEMMA TickStepWakeful ==
    ASSUME TypeOK, NEW t \in Others, TickStep(t)
    PROVE  Undisturbed \/ Announced \/ Woken
  <1> USE DEF linkVars
  <1>1. CASE AddTick(t)
    <2>1. pc'[t] = "notify"
      BY <1>1 DEF AddTick, Goto, TypeOK, Others
    <2> QED BY <2>1 DEF Announced, Notifying
  <1>2. CASE TickNotify(t)
    BY <1>2, NotifyWakes DEF TickNotify
  <1>3. CASE WaitReadTick(t)
    BY <1>3, MoveUndisturbed DEF WaitReadTick, Notifying
  <1>4. CASE WaitReadQueue(t)
    BY <1>4, MoveUndisturbed DEF WaitReadQueue, Notifying
  <1>5. CASE WaitReadStatus(t)
    BY <1>5, MoveUndisturbed DEF WaitReadStatus, Notifying
  <1> QED BY <1>1, <1>2, <1>3, <1>4, <1>5 DEF TickStep

LEMMA QueueStepWakeful ==
    ASSUME TypeOK, NEW t \in Others, QueuePacket(t) \/ QueueNotify(t)
    PROVE  Announced \/ Woken
  <1>1. CASE QueuePacket(t)
    <2>1. pc'[t] = "qnotify"
      BY <1>1 DEF QueuePacket, Goto, TypeOK, Others
    <2> QED BY <2>1 DEF Announced, Notifying
  <1>2. CASE QueueNotify(t)
    BY <1>2, NotifyWakes DEF QueueNotify
  <1> QED BY <1>1, <1>2

LEMMA ClientStepWakeful ==
    ASSUME TypeOK, NEW c \in Clients, Request(c) \/ ClientStep(c)
    PROVE  Undisturbed \/ Announced \/ Woken
  <1> USE DEF linkVars, Goto, StepIs
  <1>1. c \in Others
    BY ThreadsDistinct DEF Others, Threads
  <1>2. CASE Request(c)
    BY <1>2 DEF Request, Undisturbed
  <1>3. CASE Pause(c)
    BY <1>1, <1>3, MoveUndisturbed DEF Pause, Notifying
  <1>4. CASE PauseReturn(c)
    BY <1>1, <1>4, MoveUndisturbed DEF PauseReturn, Notifying
  <1>5. CASE Resume(c)
    BY <1>1, <1>5, MoveUndisturbed DEF Resume, Notifying
  <1>6. CASE ResumeNotify(c)
    BY <1>6, ThreadsDistinct DEF ResumeNotify, Undisturbed, Others, Threads, Notifying, TypeOK
  <1>7. CASE SingleStep(c)
    BY <1>1, <1>7, MoveUndisturbed DEF SingleStep, Notifying
  <1>8. CASE HandleWait(c)
    <2>1. CASE paused
      BY <1>8, <2>1 DEF HandleWait, Undisturbed
    <2>2. CASE ~paused
      BY <1>1, <1>8, <2>2, MoveUndisturbed DEF HandleWait, Notifying
    <2> QED BY <2>1, <2>2
  <1>9. CASE WaitElapsed(c)
    BY <1>1, <1>9, MoveUndisturbed DEF WaitElapsed, Notifying
  <1>10. CASE QueuePacket(c) \/ QueueNotify(c)
    BY <1>1, <1>10, QueueStepWakeful
  <1>11. CASE TickStep(c)
    BY <1>1, <1>11, TickStepWakeful
  <1> QED BY <1>2, <1>3, <1>4, <1>5, <1>6, <1>7, <1>8, <1>9, <1>10, <1>11 DEF ClientStep

LEMMA MainStepWakeful ==
    ASSUME TypeOK, MainStep
    PROVE  Undisturbed \/ Announced \/ Woken
  <1> USE DEF linkVars, Goto
  <1>1. Main \in Others
    BY ThreadsDistinct DEF Others, Threads
  <1>2. CASE CanRead
    <2>1. pc[Main] = "read" /\ queue' = queue /\ tickRequested' = tickRequested
      BY <1>2 DEF CanRead
    <2>2. pc' = pc \/ \E l : pc' = [pc EXCEPT ![Main] = l]
      BY <1>2 DEF CanRead
    <2> QED BY <1>1, <2>1, <2>2, MoveUndisturbed DEF Undisturbed, Notifying
  <1>3. CASE CanReadEof
    BY <1>1, <1>3, MoveUndisturbed DEF CanReadEof, Notifying
  <1>4. CASE SetStatus
    BY <1>4, ThreadsDistinct DEF SetStatus, WakeOnStatus, Undisturbed, Others, Threads, Notifying, TypeOK
  <1>5. CASE SendProcessed
    BY <1>1, <1>5, MoveUndisturbed DEF SendProcessed, Notifying
  <1>6. CASE QueuePacket(Main) \/ QueueNotify(Main)
    BY <1>1, <1>6, QueueStepWakeful
  <1> QED BY <1>2, <1>3, <1>4, <1>5, <1>6 DEF MainStep

LEMMA DaemonStepWakeful ==
    ASSUME TypeOK, DaemonStep
    PROVE  Undisturbed \/ Announced \/ Woken
  <1> USE DEF linkVars, Goto
  <1>1. Daemon \in Others
    BY ThreadsDistinct DEF Others, Threads
  <1>2. CASE DaemonCheck
    BY <1>1, <1>2, MoveUndisturbed DEF DaemonCheck, Notifying
  <1>3. CASE DaemonPark
    BY <1>1, <1>3, MoveUndisturbed DEF DaemonPark, Notifying
  <1>4. CASE DaemonRest
    BY <1>1, <1>4, MoveUndisturbed DEF DaemonRest, Notifying
  <1>5. CASE DaemonUnpark
    BY <1>1, <1>5, MoveUndisturbed DEF DaemonUnpark, Notifying
  <1>6. CASE TickStep(Daemon)
    BY <1>1, <1>6, TickStepWakeful
  <1> QED BY <1>2, <1>3, <1>4, <1>5, <1>6 DEF DaemonStep

(* The sender goes to sleep only when there is nothing to send.            *)
LEMMA PacketStepWakeful ==
    ASSUME TypeOK, PacketStep
    PROVE  NoLostWakeup'
  <1> USE DEF linkVars, Goto, TypeOK, Threads, NoLostWakeup
  <1>1. CASE WaitForWork
    BY <1>1 DEF WaitForWork
  <1>2. CASE WaitForStatus
    BY <1>2 DEF WaitForStatus
  <1>3. CASE ClearStatus
    BY <1>3 DEF ClearStatus
  <1>4. CASE PickPacket
    BY <1>4 DEF PickPacket
  <1>5. CASE SendPicked
    BY <1>5 DEF SendPicked
  <1>6. CASE CountTick
    BY <1>6 DEF CountTick
  <1>7. CASE ClearTick
    BY <1>7 DEF ClearTick
  <1> QED BY <1>1, <1>2, <1>3, <1>4, <1>5, <1>6, <1>7 DEF PacketStep

LEMMA WakeupStep == TypeOK /\ NoLostWakeup /\ [Next]_vars => NoLostWakeup'
  <1> SUFFICES ASSUME TypeOK, NoLostWakeup, [Next]_vars PROVE NoLostWakeup'
    OBVIOUS
  <1>1. CASE UNCHANGED vars
    BY <1>1 DEF vars, NoLostWakeup
  <1>2. CASE PacketStep
    BY <1>2, PacketStepWakeful
  <1>3. CASE DaemonStep
    BY <1>3, DaemonStepWakeful, WakefulStep
  <1>4. CASE MainStep
    BY <1>4, MainStepWakeful, WakefulStep
  <1>5. CASE AppStep
    BY <1>5 DEF AppStep, AppSend, AppReceive, AppExit, AppStatus, linkVars, NoLostWakeup
  <1>6. CASE \E c \in Clients : Request(c) \/ ClientStep(c)
    BY <1>6, ClientStepWakeful, WakefulStep
  <1>7. CASE ProcessExit
    BY <1>1, <1>7 DEF ProcessExit
  <1> QED BY <1>1, <1>2, <1>3, <1>4, <1>5, <1>6, <1>7 DEF Next

(* The sender never sleeps on queue_condition with something to send and   *)
(* nobody about to notify it, for any number of clients and requests.      *)
THEOREM WakeupsArrive == Spec => []NoLostWakeup
  <1>1. Init => NoLostWakeup
    BY DEF Init, NoLostWakeup
  <1>2. Spec => [](TypeOK /\ StepInv)
    <2>1. Init => TypeOK /\ StepInv
      BY InitInv DEF TurnInv
    <2> QED BY <2>1, NextTyped, PTL DEF Spec
  <1> QED BY <1>1, <1>2, WakeupStep, PTL DEF Spec

-----------------------------------------------------------------------------
(* Pausing the time.  Nobody resumes it: the daemon stays asleep, and a    *)
(* tick is pending only while the client that asked for it waits.          *)

NoResume == Requests \subseteq Seq(ClientSteps \ {"resume"})

Resting == {"rest", "asleep"}
TickRead == {"wqueue", "wstatus", "park"} \cup Resting
Awaiting == {"notify", "wtick", "event"}

ClientsInv ==
    \A c \in Clients : pc[c] # "rnotify" /\ todo[c] \in Seq(ClientSteps \ {"resume"})

(* Once the daemon read that its last tick was sent, a tick that is still  *)
(* requested is awaited by a client, and the daemon reports that it is     *)
(* paused only from there.                                                 *)
TimeInv ==
    /\ pc[Packet] = "send" /\ sending = Ticker => tickRequested
    /\ pc[Daemon] \in TickRead /\ tickRequested =>
         \E c \in Clients : pc[c] \in Awaiting
    /\ parked => pc[Daemon] \in Resting

StoppedInv == ClientsInv /\ TimeInv

(* Steps of a client or of the main thread that ask for no tick.           *)
TimeStill ==
    /\ UNCHANGED <<tickRequested, sending, parked>>
    /\ PacketWoken
    /\ pc'[Daemon] = pc[Daemon] \/ (pc[Daemon] = "event" /\ pc'[Daemon] = "wtick")
    /\ tickRequested =>
         \A c \in Clients : pc[c] \in Awaiting => pc'[c] \in Awaiting

LEMMA StillTime == TimeInv /\ TimeStill => TimeInv'
  BY DEF TimeInv, TimeStill, PacketWoken, TickRead, Resting, Awaiting

(* A client that goes on with steps that do not resume.                    *)
LEMMA ClientsGoOn ==
    ASSUME TypeOK, ClientsInv, NEW c \in Clients,
           NEW r \in Seq(ClientSteps \ {"resume"}),
           todo' = [todo EXCEPT ![c] = r],
           \A d \in Clients : pc'[d] # "rnotify"
    PROVE  ClientsInv'
  BY DEF TypeOK, ClientsInv, Queuers

LEMMA ClientsRest ==
    ASSUME TypeOK, ClientsInv, NEW c \in Clients, todo[c] # <<>>,
           todo' = [todo EXCEPT ![c] = Tail(todo[c])],
           \A d \in Clients : pc'[d] # "rnotify"
    PROVE  ClientsInv'
  <1>1. Tail(todo[c]) \in Seq(ClientSteps \ {"resume"})
    BY HeadTailProperties DEF ClientsInv
  <1> QED BY <1>1, ClientsGoOn

LEMMA TickStepStopped ==
    ASSUME TypeOK, StepInv, StoppedInv, NEW c \in Clients, TickStep(c)
    PROVE  StoppedInv'
  <1> USE ThreadsDistinct DEF linkVars, daemonVars
  <1>1. /\ c \in Threads /\ c # Packet /\ c # Daemon /\ c # Main
        /\ Packet \in Threads /\ Daemon \in Threads /\ Clients \subseteq Threads
        /\ Packet # Daemon /\ Packet \notin Clients /\ Daemon \notin Clients
        /\ DOMAIN pc = Threads
    BY DEF Threads, TypeOK
  <1>2. ASSUME NEW l, l # "rnotify", pc' = [pc EXCEPT ![c] = l], todo' = todo
        PROVE  ClientsInv'
    BY <1>1, <1>2 DEF StoppedInv, ClientsInv
  <1>3. ASSUME NEW l, pc' = [pc EXCEPT ![c] = l],
               pc[c] \in Awaiting /\ tickRequested => l \in Awaiting,
               UNCHANGED <<tickRequested, sending, parked>>
        PROVE  TimeInv'
    <2>1. TimeStill
      BY <1>1, <1>3 DEF TimeStill, PacketWoken
    <2> QED BY <2>1, StillTime DEF StoppedInv
  <1>4. CASE AddTick(c)
    <2>1. /\ pc' = [pc EXCEPT ![c] = "notify"] /\ tickRequested' = TRUE
          /\ UNCHANGED <<sending, parked, todo>>
      BY <1>4 DEF AddTick, Goto
    <2>2. ClientsInv'
      BY <1>2, <2>1
    <2>3. TimeInv'
      BY <1>1, <2>1 DEF StoppedInv, TimeInv, Awaiting
    <2> QED BY <2>2, <2>3 DEF StoppedInv
  <1>5. CASE TickNotify(c)
    <2>1. /\ pc[c] = "notify"
          /\ pc' = NotifyPacket([pc EXCEPT ![c] = "wtick"])
          /\ UNCHANGED <<tickRequested, sending, parked, todo>>
      BY <1>1, <1>5 DEF TickNotify
    <2>2. /\ pc'[c] = "wtick"
          /\ \A u \in Threads : u # c /\ u # Packet => pc'[u] = pc[u]
          /\ PacketWoken
      BY <1>1, <2>1 DEF NotifyPacket, PacketWoken
    <2>3. TimeStill
      BY <1>1, <2>1, <2>2 DEF TimeStill, Awaiting
    <2>4. ClientsInv'
      BY <1>1, <2>1, <2>2 DEF StoppedInv, ClientsInv
    <2> QED BY <2>3, <2>4, StillTime DEF StoppedInv
  <1>6. CASE WaitReadTick(c)
    <2>1. /\ UNCHANGED <<tickRequested, sending, parked, todo>>
          /\ \E l : /\ l # "rnotify" /\ pc' = [pc EXCEPT ![c] = l]
                    /\ tickRequested => l \in Awaiting
      BY <1>6 DEF WaitReadTick, Awaiting
    <2> QED BY <1>2, <1>3, <2>1 DEF StoppedInv
  <1>7. CASE WaitReadQueue(c)
    <2>1. /\ UNCHANGED <<tickRequested, sending, parked, todo>>
          /\ pc[c] \notin Awaiting
          /\ \E l : l # "rnotify" /\ pc' = [pc EXCEPT ![c] = l]
      BY <1>7 DEF WaitReadQueue, Awaiting
    <2> QED BY <1>2, <1>3, <2>1 DEF StoppedInv
  <1>8. CASE WaitReadStatus(c)
    <2>1. /\ UNCHANGED <<tickRequested, sending, parked>>
          /\ pc[c] = "wstatus" /\ pc[c] \notin Awaiting
          /\ \/ pc' = [pc EXCEPT ![c] = "event"] /\ todo' = todo
             \/ /\ pc' = [pc EXCEPT ![c] = "step"]
                /\ todo' = [todo EXCEPT ![c] = Tail(todo[c])]
      BY <1>1, <1>8 DEF WaitReadStatus, Awaiting
    <2>2. TimeInv'
      BY <1>3, <2>1
    <2>3. CASE pc' = [pc EXCEPT ![c] = "event"] /\ todo' = todo
      BY <1>2, <2>2, <2>3 DEF StoppedInv
    <2>4. CASE /\ pc' = [pc EXCEPT ![c] = "step"]
               /\ todo' = [todo EXCEPT ![c] = Tail(todo[c])]
      <3>1. \A d \in Clients : pc'[d] # "rnotify"
        BY <1>1, <2>4 DEF StoppedInv, ClientsInv
      <3>2. todo[c] # <<>>
        BY <2>1 DEF StepInv
      <3> QED BY <2>2, <2>4, <3>1, <3>2, ClientsRest DEF StoppedInv
    <2> QED BY <2>1, <2>3, <2>4
  <1> QED BY <1>4, <1>5, <1>6, <1>7, <1>8 DEF TickStep

LEMMA ClientStepStopped ==
    ASSUME NoResume, TypeOK, StepInv, StoppedInv, NEW c \in Clients,
           Request(c) \/ ClientStep(c)
    PROVE  StoppedInv'
  <1> USE ThreadsDistinct DEF linkVars, daemonVars
  <1>1. /\ c \in Threads /\ c # Packet /\ c # Daemon /\ c # Main
        /\ Packet \in Threads /\ Daemon \in Threads /\ Clients \subseteq Threads
        /\ Packet # Daemon /\ Packet \notin Clients /\ Daemon \notin Clients
        /\ DOMAIN pc = Threads
    BY DEF Threads, TypeOK
  <1>2. ASSUME NEW l, l # "rnotify", pc' = [pc EXCEPT ![c] = l]
        PROVE  /\ \A d \in Clients : pc'[d] # "rnotify"
               /\ todo' = todo => ClientsInv'
    BY <1>1, <1>2 DEF StoppedInv, ClientsInv
  <1>3. ASSUME NEW l, pc' = [pc EXCEPT ![c] = l], pc[c] \notin Awaiting,
               UNCHANGED <<tickRequested, sending, parked>>
        PROVE  TimeInv'
    <2>1. TimeStill
      BY <1>1, <1>3 DEF TimeStill, PacketWoken
    <2> QED BY <2>1, StillTime DEF StoppedInv
  <1>4. ASSUME UNCHANGED <<pc, tickRequested, sending, parked>>
        PROVE  TimeInv' /\ \A d \in Clients : pc'[d] # "rnotify"
    BY <1>4 DEF TimeInv, StoppedInv, ClientsInv
  <1>5. CASE Request(c)
    <2>1. PICK r \in Requests : todo' = [todo EXCEPT ![c] = r]
      BY <1>5 DEF Request
    <2>2. r \in Seq(ClientSteps \ {"resume"})
      BY DEF NoResume
    <2> QED BY <1>4, <1>5, <2>1, <2>2, ClientsGoOn DEF Request, StoppedInv
  <1>6. CASE QueuePacket(c)
    <2>1. /\ pc' = [pc EXCEPT ![c] = "qnotify"] /\ pc[c] \notin Awaiting
          /\ UNCHANGED <<tickRequested, sending, parked, todo>>
      BY <1>6 DEF QueuePacket, Goto, Awaiting
    <2> QED BY <1>2, <1>3, <2>1 DEF StoppedInv
  <1>7. CASE QueueNotify(c)
    <2>1. /\ pc' = NotifyPacket([pc EXCEPT ![c] = "step"]) /\ pc[c] = "qnotify"
          /\ todo' = [todo EXCEPT ![c] = Tail(todo[c])]
          /\ UNCHANGED <<tickRequested, sending, parked>>
      BY <1>1, <1>7 DEF QueueNotify
    <2>2. /\ pc'[c] = "step"
          /\ \A u \in Threads : u # c /\ u # Packet => pc'[u] = pc[u]
          /\ PacketWoken
      BY <1>1, <2>1 DEF NotifyPacket, PacketWoken
    <2>3. TimeStill
      BY <1>1, <2>1, <2>2 DEF TimeStill, Awaiting
    <2>4. /\ todo[c] # <<>>
          /\ \A d \in Clients : pc'[d] # "rnotify"
      BY <1>1, <2>1, <2>2 DEF StoppedInv, ClientsInv, StepInv
    <2>5. ClientsInv'
      BY <2>1, <2>4, ClientsRest DEF StoppedInv
    <2> QED BY <2>3, <2>5, StillTime DEF StoppedInv
  <1>8. CASE Pause(c)
    <2>1. /\ pc' = [pc EXCEPT ![c] = "pausing"] /\ pc[c] \notin Awaiting
          /\ UNCHANGED <<tickRequested, sending, parked, todo>>
      BY <1>8 DEF Pause, StepIs, Goto, Awaiting
    <2> QED BY <1>2, <1>3, <2>1 DEF StoppedInv
  <1>9. CASE PauseReturn(c)
    <2>1. /\ pc' = [pc EXCEPT ![c] = "step"] /\ pc[c] \notin Awaiting
          /\ todo' = [todo EXCEPT ![c] = Tail(todo[c])] /\ todo[c] # <<>>
          /\ UNCHANGED <<tickRequested, sending, parked>>
      BY <1>9 DEF PauseReturn, Goto, Awaiting, StepInv
    <2> QED BY <1>2, <1>3, <2>1, ClientsRest DEF StoppedInv
  <1>10. CASE Resume(c)
    <2>1. todo[c] # <<>> /\ Head(todo[c]) = "resume"
      BY <1>10 DEF Resume, StepIs
    <2>2. Head(todo[c]) \in ClientSteps \ {"resume"}
      BY <2>1, HeadTailProperties DEF StoppedInv, ClientsInv
    <2> QED BY <2>1, <2>2
  <1>11. CASE ResumeNotify(c)
    BY <1>11 DEF ResumeNotify, StoppedInv, ClientsInv
  <1>12. CASE SingleStep(c)
    <2>1. /\ pc' = [pc EXCEPT ![c] = "addtick"] /\ pc[c] \notin Awaiting
          /\ UNCHANGED <<tickRequested, sending, parked, todo>>
      BY <1>12 DEF SingleStep, StepIs, Goto, Awaiting
    <2> QED BY <1>2, <1>3, <2>1 DEF StoppedInv
  <1>13. CASE HandleWait(c)
    <2>1. CASE paused
      <3> DEFINE r == [i \in 1..WaitTicks |-> "single-step"] \o Tail(todo[c])
      <3>1. /\ todo' = [todo EXCEPT ![c] = r] /\ todo[c] # <<>>
            /\ UNCHANGED <<pc, tickRequested, sending, parked>>
        BY <1>13, <2>1 DEF HandleWait, StepIs, Queuers, TypeOK
      <3>2. r \in Seq(ClientSteps \ {"resume"})
        <4>1. Tail(todo[c]) \in Seq(ClientSteps \ {"resume"})
          BY <3>1, HeadTailProperties DEF StoppedInv, ClientsInv
        <4>2. [i \in 1..WaitTicks |-> "single-step"] \in Seq(ClientSteps \ {"resume"})
          BY InputsAssumption DEF ClientSteps
        <4> QED BY <4>1, <4>2, ConcatProperties
      <3> HIDE DEF r
      <3> QED BY <1>4, <3>1, <3>2, ClientsGoOn DEF StoppedInv
    <2>2. CASE ~paused
      <3>1. /\ pc' = [pc EXCEPT ![c] = "sleeping"] /\ pc[c] \notin Awaiting
            /\ UNCHANGED <<tickRequested, sending, parked, todo>>
        BY <1>13, <2>2 DEF HandleWait, StepIs, Awaiting
      <3> QED BY <1>2, <1>3, <3>1 DEF StoppedInv
    <2> QED BY <2>1, <2>2
  <1>14. CASE WaitElapsed(c)
    <2>1. /\ pc' = [pc EXCEPT ![c] = "step"] /\ pc[c] \notin Awaiting
          /\ todo' = [todo EXCEPT ![c] = Tail(todo[c])] /\ todo[c] # <<>>
          /\ UNCHANGED <<tickRequested, sending, parked>>
      BY <1>14 DEF WaitElapsed, Goto, Awaiting, StepInv
    <2> QED BY <1>2, <1>3, <2>1, ClientsRest DEF StoppedInv
  <1>15. CASE TickStep(c)
    BY <1>15, TickStepStopped
  <1> QED BY <1>5, <1>6, <1>7, <1>8, <1>9, <1>10, <1>11, <1>12, <1>13, <1>14,
             <1>15 DEF ClientStep

LEMMA DaemonStepStopped ==
    ASSUME TypeOK, StepInv, StoppedInv, DaemonStep
    PROVE  StoppedInv'
  <1> USE ThreadsDistinct DEF linkVars, daemonVars, Goto
  <1>1. /\ Packet \in Threads /\ Daemon \in Threads /\ Clients \subseteq Threads
        /\ Packet # Daemon /\ Packet \notin Clients /\ Daemon \notin Clients
        /\ DOMAIN pc = Threads /\ Main # Daemon
    BY DEF Threads, TypeOK
  <1>2. ASSUME NEW l, pc' = [pc EXCEPT ![Daemon] = l],
               UNCHANGED <<todo, sending>>,
               tickRequested => tickRequested',
               l \in TickRead => /\ tickRequested' = tickRequested
                                 /\ pc[Daemon] \in TickRead \/ ~tickRequested,
               parked' => l \in Resting
        PROVE  StoppedInv'
    <2>1. /\ pc'[Daemon] = l /\ pc'[Packet] = pc[Packet]
          /\ \A d \in Clients : pc'[d] = pc[d]
      BY <1>1, <1>2
    <2> QED BY <1>2, <2>1 DEF StoppedInv, ClientsInv, TimeInv
  <1>3. parked => pc[Daemon] \in {"rest", "asleep"}
    BY DEF StoppedInv, TimeInv, Resting
  <1>4. CASE DaemonCheck
    BY <1>2, <1>3, <1>4 DEF DaemonCheck, TickRead, Resting
  <1>5. CASE DaemonPark
    BY <1>2, <1>3, <1>5 DEF DaemonPark, TickRead, Resting
  <1>6. CASE DaemonRest
    BY <1>2, <1>3, <1>6 DEF DaemonRest, TickRead, Resting
  <1>7. CASE DaemonUnpark
    BY <1>2, <1>3, <1>7 DEF DaemonUnpark, TickRead, Resting
  <1>8. CASE AddTick(Daemon)
    BY <1>2, <1>3, <1>8 DEF AddTick, TickRead, Resting
  <1>9. CASE TickNotify(Daemon)
    <2>1. /\ pc[Daemon] = "notify"
          /\ pc' = NotifyPacket([pc EXCEPT ![Daemon] = "check"])
          /\ UNCHANGED <<tickRequested, sending, parked, todo>>
      BY <1>9 DEF TickNotify
    <2>2. /\ pc'[Daemon] = "check" /\ \A d \in Clients : pc'[d] = pc[d]
          /\ PacketWoken
      BY <1>1, <2>1 DEF NotifyPacket, PacketWoken
    <2> QED BY <1>3, <2>1, <2>2 DEF StoppedInv, ClientsInv, TimeInv, TickRead,
                                    Resting, PacketWoken
  <1>10. CASE WaitReadTick(Daemon)
    BY <1>2, <1>3, <1>10 DEF WaitReadTick, TickRead, Resting
  <1>11. CASE WaitReadQueue(Daemon)
    BY <1>2, <1>3, <1>11 DEF WaitReadQueue, TickRead, Resting
  <1>12. CASE WaitReadStatus(Daemon)
    BY <1>2, <1>3, <1>12 DEF WaitReadStatus, TickRead, Resting
  <1> QED BY <1>4, <1>5, <1>6, <1>7, <1>8, <1>9, <1>10, <1>11, <1>12
          DEF DaemonStep, TickStep

(* The main thread moves the others only where they wait for it.           *)
LEMMA MainMoves ==
    ASSUME TypeOK, MainStep
    PROVE  /\ UNCHANGED <<tickRequested, sending, parked>>
           /\ \A d \in Clients : todo'[d] = todo[d]
           /\ \A u \in Threads : u # Main =>
                \/ pc'[u] = pc[u]
                \/ u = Packet /\ pc[u] = "asleep" /\ pc'[u] = "woken"
                \/ pc[u] = "event" /\ pc'[u] = IF u = Packet THEN "status" ELSE "wtick"
  <1> USE ThreadsDistinct DEF linkVars, daemonVars, Goto
  <1>1. /\ Packet \in Threads /\ Daemon \in Threads /\ Clients \subseteq Threads
        /\ Main \in Threads /\ Main # Packet /\ Main # Daemon /\ Main \notin Clients
        /\ Packet # Daemon /\ Packet \notin Clients /\ Daemon \notin Clients
        /\ DOMAIN pc = Threads
    BY DEF Threads, TypeOK
  <1>2. /\ UNCHANGED <<tickRequested, sending, parked>>
        /\ \A d \in Clients : todo'[d] = todo[d]
    <2> USE <1>1 DEF TypeOK, Queuers
    <2>1. CASE CanRead
      BY <2>1 DEF CanRead
    <2>2. CASE CanReadEof \/ SetStatus \/ SendProcessed
      BY <2>2 DEF CanReadEof, SetStatus, SendProcessed
    <2>3. CASE QueuePacket(Main) \/ QueueNotify(Main)
      BY <2>3 DEF QueuePacket, QueueNotify
    <2> QED BY <2>1, <2>2, <2>3 DEF MainStep
  <1>3. \A u \in Threads : u # Main =>
            \/ pc'[u] = pc[u]
            \/ u = Packet /\ pc[u] = "asleep" /\ pc'[u] = "woken"
            \/ pc[u] = "event" /\ pc'[u] = IF u = Packet THEN "status" ELSE "wtick"
    <2>1. CASE CanRead
      BY <1>1, <2>1 DEF CanRead
    <2>2. CASE SetStatus
      <3>1. pc' = WakeOnStatus([pc EXCEPT ![Main] = "read"])
        BY <2>2 DEF SetStatus
      <3> QED BY <1>1, <3>1 DEF WakeOnStatus
    <2>3. CASE CanReadEof \/ SendProcessed \/ QueuePacket(Main)
      BY <1>1, <2>3 DEF CanReadEof, SendProcessed, QueuePacket
    <2>4. CASE QueueNotify(Main)
      <3>1. \E l : pc' = NotifyPacket([pc EXCEPT ![Main] = l])
        BY <2>4 DEF QueueNotify
      <3> QED BY <1>1, <3>1 DEF NotifyPacket
    <2> QED BY <2>1, <2>2, <2>3, <2>4 DEF MainStep
  <1> QED BY <1>2, <1>3

LEMMA MainStepStopped ==
    ASSUME TypeOK, StepInv, StoppedInv, MainStep
    PROVE  StoppedInv'
  <1>1. /\ Packet \in Threads /\ Daemon \in Threads /\ Clients \subseteq Threads
        /\ Main \in Threads /\ Main # Packet /\ Main # Daemon /\ Main \notin Clients
        /\ Packet # Daemon /\ Packet \notin Clients /\ Daemon \notin Clients
    BY ThreadsDistinct DEF Threads
  <1>2. TimeStill
    BY <1>1, MainMoves DEF TimeStill, PacketWoken, Awaiting
  <1>3. ClientsInv'
    BY <1>1, MainMoves DEF StoppedInv, ClientsInv
  <1> QED BY <1>2, <1>3, StillTime DEF StoppedInv

LEMMA PacketStepStopped ==
    ASSUME TypeOK, StepInv, StoppedInv, PacketStep
    PROVE  StoppedInv'
  <1> USE ThreadsDistinct DEF linkVars, daemonVars, Goto
  <1>1. /\ Packet \in Threads /\ Daemon \in Threads /\ Clients \subseteq Threads
        /\ Packet # Daemon /\ Packet \notin Clients
        /\ DOMAIN pc = Threads
    BY DEF Threads, TypeOK
  <1>2. /\ \A u \in Threads : u # Packet => pc'[u] = pc[u]
        /\ UNCHANGED <<todo, parked>>
        /\ tickRequested' => tickRequested
    BY <1>1 DEF PacketStep, WaitForWork, WaitForStatus, ClearStatus, PickPacket,
                SendPicked, CountTick, ClearTick
  <1>3. pc'[Packet] = "send" /\ sending' = Ticker => tickRequested'
    <2>1. CASE PickPacket
      <3>1. queue # <<>> => Head(queue) \in Events
        BY HeadTailProperties DEF TypeOK
      <3>2. queue # <<>> => Head(queue) # Ticker
        BY <3>1, EventsAssumption
      <3> QED BY <1>1, <2>1, <3>2 DEF PickPacket
    <2>2. CASE PacketStep /\ ~PickPacket
      BY <1>1, <2>2 DEF PacketStep, WaitForWork, WaitForStatus, ClearStatus,
                SendPicked, CountTick, ClearTick
    <2> QED BY <2>1, <2>2
  <1>4. pc'[Daemon] = pc[Daemon] /\ \A c \in Clients : pc'[c] = pc[c]
    BY <1>1, <1>2
  <1>5. ClientsInv'
    BY <1>2, <1>4 DEF StoppedInv, ClientsInv
  <1>6. TimeInv'
    BY <1>2, <1>3, <1>4 DEF StoppedInv, TimeInv
  <1> QED BY <1>5, <1>6 DEF StoppedInv

LEMMA NextStopped ==
    NoResume /\ TypeOK /\ StepInv /\ StoppedInv /\ [Next]_vars => StoppedInv'
  <1> SUFFICES ASSUME NoResume, TypeOK, StepInv, StoppedInv, [Next]_vars
               PROVE  StoppedInv'
    OBVIOUS
  <1>1. CASE UNCHANGED <<pc, todo, tickRequested, sending, parked>>
    BY <1>1 DEF StoppedInv, ClientsInv, TimeInv
  <1>2. CASE PacketStep
    BY <1>2, PacketStepStopped
  <1>3. CASE DaemonStep
    BY <1>3, DaemonStepStopped
  <1>4. CASE MainStep
    BY <1>4, MainStepStopped
  <1>5. CASE AppStep
    BY <1>1, <1>5 DEF AppStep, AppSend, AppReceive, AppExit, AppStatus, linkVars,
                      daemonVars
  <1>6. CASE \E c \in Clients : Request(c) \/ ClientStep(c)
    BY <1>6, ClientStepStopped
  <1>7. CASE ProcessExit \/ UNCHANGED vars
    BY <1>1, <1>7 DEF ProcessExit, vars
  <1> QED BY <1>2, <1>3, <1>4, <1>5, <1>6, <1>7 DEF Next

(* Only the sender writes a ticker event, the one it picked.               *)
LEMMA OnlyTheSenderTicks ==
    ASSUME TypeOK, StepInv, [Next]_vars, TickSent
    PROVE  pc[Packet] = "send" /\ sending = Ticker
  <1> USE DEF TickSent
  <1>1. toApp \in Seq(Tags)
    BY DEF TypeOK
  <1>2. toApp' # toApp
    BY <1>1
  <1>3. ASSUME NEW tag \in Tags, SendPacket(tag)
        PROVE  tag = Ticker
    BY <1>1, <1>2, <1>3, AppendProperties DEF SendPacket
  <1>4. CASE SendPicked
    <2>1. sending \in Tags /\ SendPacket(sending) /\ pc[Packet] = "send"
      BY <1>4 DEF SendPicked, Goto, StepInv
    <2> QED BY <1>3, <2>1
  <1>5. CASE SendProcessed
    <2>1. SendPacket(Processed) /\ Processed \in Tags
      BY <1>5 DEF SendProcessed, Tags
    <2>2. Processed = Ticker
      BY <1>3, <2>1
    <2> QED BY <2>2 DEF Processed, Ticker
  <1>6. CASE AppReceive
    <2>1. toApp' = Tail(toApp) /\ toApp # <<>>
      BY <1>6 DEF AppReceive
    <2>2. Len(toApp') = Len(toApp) - 1 /\ Len(toApp) \in Nat
      BY <1>1, <2>1, HeadTailProperties, LenProperties
    <2> QED BY <2>2
  <1>7. CASE UNCHANGED toApp
    BY <1>2, <1>7
  <1>8. CASE DaemonStep
    BY <1>7, <1>8, DaemonStepQuiet DEF Quiet
  <1>9. CASE \E c \in Clients : Request(c) \/ ClientStep(c)
    BY <1>7, <1>9, ClientStepQuiet DEF Quiet
  <1> QED BY <1>4, <1>5, <1>6, <1>7, <1>8, <1>9
          DEF Next, vars, PacketStep, WaitForWork, WaitForStatus, ClearStatus,
              PickPacket, CountTick, ClearTick, MainStep, CanRead, CanReadEof,
              SetStatus, QueuePacket, QueueNotify, AppStep, AppSend, AppExit,
              AppStatus, ProcessExit

(* A client leaves the loop of pause() only when the daemon reports that   *)
(* it is paused.                                                           *)
LEMMA PauseReturnsParked ==
    ASSUME TypeOK, Next, NEW c \in Clients, pc[c] = "pausing", pc'[c] = "step"
    PROVE  parked
  <1> USE ThreadsDistinct DEF Goto, StepIs
  <1>1. /\ c \in Threads /\ c # Packet /\ c # Daemon /\ c # Main
        /\ Packet \in Threads /\ Daemon \in Threads /\ Main \in Threads
        /\ DOMAIN pc = Threads /\ Clients \subseteq Threads
        /\ \A d \in Clients : d # Packet /\ d # Daemon /\ d # Main
    BY DEF Threads, TypeOK
  <1>2. CASE PacketStep
    BY <1>1, <1>2 DEF PacketStep, WaitForWork, WaitForStatus, ClearStatus,
              PickPacket, SendPicked, CountTick, ClearTick
  <1>3. ASSUME NEW t \in Threads, t # Packet, TickStep(t)
        PROVE  FALSE
    <2>1. CASE AddTick(t)
      BY <1>1, <2>1 DEF AddTick
    <2>2. CASE TickNotify(t)
      BY <1>1, <1>3, <2>2 DEF TickNotify, NotifyPacket
    <2>3. CASE WaitReadTick(t) \/ WaitReadQueue(t)
      BY <1>1, <2>3 DEF WaitReadTick, WaitReadQueue
    <2>4. CASE WaitReadStatus(t)
      BY <1>1, <2>4 DEF WaitReadStatus
    <2> QED BY <1>3, <2>1, <2>2, <2>3, <2>4 DEF TickStep
  <1>4. CASE DaemonStep
    BY <1>1, <1>3, <1>4 DEF DaemonStep, DaemonCheck, DaemonPark, DaemonRest,
                            DaemonUnpark
  <1>5. CASE MainStep
    <2>1. CASE CanRead \/ CanReadEof \/ SendProcessed \/ QueuePacket(Main)
      BY <1>1, <2>1 DEF CanRead, CanReadEof, SendProcessed, QueuePacket
    <2>2. CASE SetStatus
      <3>1. pc' = WakeOnStatus([pc EXCEPT ![Main] = "read"])
        BY <2>2 DEF SetStatus
      <3> QED BY <1>1, <3>1 DEF WakeOnStatus
    <2>3. CASE QueueNotify(Main)
      <3>1. \E l : pc' = NotifyPacket([pc EXCEPT ![Main] = l])
        BY <2>3 DEF QueueNotify
      <3> QED BY <1>1, <3>1 DEF NotifyPacket
    <2> QED BY <1>5, <2>1, <2>2, <2>3 DEF MainStep
  <1>6. CASE AppStep \/ ProcessExit
    BY <1>6 DEF AppStep, AppSend, AppReceive, AppExit, AppStatus, ProcessExit, vars
  <1>7. CASE \E d \in Clients : Request(d) \/ ClientStep(d)
    <2>1. PICK d \in Clients : Request(d) \/ ClientStep(d)
      BY <1>7
    <2>2. CASE PauseReturn(d)
      BY <2>2 DEF PauseReturn
    <2>3. CASE TickStep(d)
      BY <1>1, <1>3, <2>3
    <2>4. CASE QueueNotify(d)
      <3>1. pc[d] = "qnotify" /\ \E l : pc' = NotifyPacket([pc EXCEPT ![d] = l])
        BY <2>4 DEF QueueNotify
      <3> QED BY <1>1, <3>1 DEF NotifyPacket
    <2>5. CASE ResumeNotify(d)
      BY <1>1, <2>5 DEF ResumeNotify
    <2>6. CASE Request(d) \/ HandleWait(d)
      BY <1>1, <2>6 DEF Request, HandleWait
    <2>7. CASE QueuePacket(d) \/ Pause(d) \/ Resume(d) \/ SingleStep(d)
               \/ WaitElapsed(d)
      BY <1>1, <2>7 DEF QueuePacket, Pause, Resume, SingleStep, WaitElapsed
    <2> QED BY <2>1, <2>2, <2>3, <2>4, <2>5, <2>6, <2>7 DEF ClientStep
  <1> QED BY <1>2, <1>4, <1>5, <1>6, <1>7 DEF Next

(* pause() returned: the daemon sleeps, and nobody wakes it.               *)
LEMMA PromiseKept ==
    ASSUME NoResume, TypeOK, StepInv, StoppedInv, promised => parked, [HNext]_allVars
    PROVE  promised' => parked'
  <1>1. CASE UNCHANGED allVars
    BY <1>1 DEF allVars, historyVars, vars
  <1>2. CASE HNext
    <2>1. Next /\ StoppedInv'
      BY <1>2, NextStopped DEF HNext
    <2>2. parked => parked'
      <3>1. CASE DaemonUnpark
        BY <3>1 DEF DaemonUnpark, Goto, StoppedInv, TimeInv, Resting
      <3>2. CASE ~DaemonUnpark
        BY <2>1, <3>2
           DEF Next, vars, PacketStep, WaitForWork, WaitForStatus, ClearStatus,
               PickPacket, SendPicked, CountTick, ClearTick, MainStep, CanRead,
               CanReadEof, SetStatus, SendProcessed, QueuePacket, QueueNotify,
               AppStep, AppSend, AppReceive, AppExit, AppStatus, ProcessExit,
               DaemonStep, DaemonCheck, DaemonPark, DaemonRest, TickStep, AddTick,
               TickNotify, WaitReadTick, WaitReadQueue, WaitReadStatus, Request,
               ClientStep, Pause, PauseReturn, Resume, ResumeNotify, SingleStep,
               HandleWait, WaitElapsed, daemonVars
      <3> QED BY <3>1, <3>2
    <2>3. ASSUME NEW c \in Clients, pc[c] = "pausing", pc'[c] = "step"
          PROVE  parked
      BY <2>1, <2>3, PauseReturnsParked
    <2> QED BY <1>2, <2>2, <2>3 DEF HNext, Observe
  <1> QED BY <1>1, <1>2 DEF HNext

(* pause() keeps its promise for any number of clients, requests and       *)
(* automation rules, as long as no request resumes the time: once it has   *)
(* returned, every ticker event that is sent was asked for by a client     *)
(* that still waits for it (TimeTickerDaemon.pause, add_tick).  A request  *)
(* that resumes breaks it, see the run PauseRace.                          *)
THEOREM PauseKeepsItsPromise == NoResume => (HSpec => PauseStopsTime)
  <1> SUFFICES ASSUME NoResume PROVE HSpec => PauseStopsTime
    OBVIOUS
  <1> DEFINE Inv == TypeOK /\ StepInv /\ StoppedInv /\ (promised => parked)
  <1>1. HInit => Inv
    <2> SUFFICES ASSUME HInit PROVE Inv
      OBVIOUS
    <2>1. TypeOK /\ StepInv
      BY InitInv DEF HInit, TurnInv
    <2>2. /\ \A c \in Clients : pc[c] = "step" /\ todo[c] = <<>>
          /\ pc[Packet] = "wait" /\ pc[Daemon] = "check" /\ ~parked /\ ~promised
      BY ThreadsDistinct DEF HInit, Init, Threads, Queuers
    <2>3. <<>> \in Seq(ClientSteps \ {"resume"})
      OBVIOUS
    <2>4. ClientsInv
      BY <2>2, <2>3, Zenon DEF ClientsInv
    <2>5. TimeInv
      BY <2>2 DEF TimeInv, TickRead, Resting
    <2> QED BY <2>1, <2>2, <2>4, <2>5 DEF StoppedInv
  <1>2. Inv /\ [HNext]_allVars => Inv'
    <2> SUFFICES ASSUME Inv, [HNext]_allVars PROVE Inv'
      OBVIOUS
    <2>1. [Next]_vars
      BY DEF HNext, allVars
    <2> QED BY <2>1, NextTyped, NextStopped, PromiseKept
  <1>3. Inv /\ [HNext]_allVars =>
          [promised /\ promised' /\ TickSent => \E c \in Clients : Ticking(c)]_allVars
    <2> SUFFICES ASSUME Inv, [HNext]_allVars, promised, TickSent
                 PROVE  \E c \in Clients : Ticking(c)
      OBVIOUS
    <2>1. [Next]_vars
      BY DEF HNext, allVars
    <2>2. pc[Packet] = "send" /\ sending = Ticker
      BY <2>1, OnlyTheSenderTicks
    <2>3. \E c \in Clients : pc[c] \in Awaiting
      BY <2>2 DEF StoppedInv, TimeInv, TickRead
    <2> QED BY <2>3 DEF Ticking, Awaiting, WaitPcs
  <1> HIDE DEF Inv
  <1> QED BY <1>1, <1>2, <1>3, PTL DEF HSpec, PauseStopsTime

-----------------------------------------------------------------------------
(* Holding a button while the time is stopped.  One client drives the      *)
(* application; the events it presses and releases with come from nowhere  *)
(* else, and always in a whole press-and-release.                          *)

Buttons == {Press, Release}
PlainSteps == ClientSteps \ ({"resume"} \cup Buttons)
Pressed == <<"wait", Release, "wait">>
PressAndRelease == <<Press, "wait", Release, "wait">>

Timed(c) ==
    /\ Clients = {c}
    /\ Press # Release /\ WaitTicks > 0
    /\ Requests \subseteq Seq(PlainSteps) \cup {PressAndRelease}
    /\ Answers \subseteq Seq(Events \ Buttons)
    /\ Automations \subseteq Seq(Events \ Buttons)

(* What is left of a press-and-release once handle_wait split its delay:   *)
(* k single steps, the release and its delay.                              *)
Holding(k) == [i \in 1..(k + 2) |-> IF i <= k THEN "single-step"
                                    ELSE IF i = k + 1 THEN Release ELSE "wait"]

Shape(s) ==
    \/ s \in Seq(PlainSteps) \/ s = PressAndRelease \/ s = Pressed
    \/ \E k \in 0..WaitTicks : s = Holding(k)

(* The steps of the client, and where it stands in the first of them.      *)
ShapeInv(c) ==
    /\ todo[Main] \in Seq(MainSteps \ Buttons)
    /\ Shape(todo[c])
    /\ pc[c] \in WaitPcs => Head(todo[c]) = "single-step"
    /\ pc[c] = "qnotify" => Head(todo[c]) \in Events
    /\ pc[c] = "pausing" => Head(todo[c]) = "pause"
    /\ pc[c] = "sleeping" => Head(todo[c]) = "wait"

LEMMA HoldingFacts ==
    ASSUME NEW k \in Nat
    PROVE  /\ Holding(k) # <<>> /\ Len(Holding(k)) = k + 2
           /\ Head(Holding(k)) = IF k > 0 THEN "single-step" ELSE Release
           /\ k > 0 => Tail(Holding(k)) = Holding(k - 1)
           /\ k = 0 => Tail(Holding(k)) = <<"wait">>
  <1> DEFINE h == Holding(k)
             V == {"single-step", Release, "wait"}
  <1>1. /\ h \in [1..(k + 2) -> V] /\ h[1] = IF k > 0 THEN "single-step" ELSE Release
        /\ \A i \in 1..(k + 2) : h[i] = IF i <= k THEN "single-step"
                                        ELSE IF i = k + 1 THEN Release ELSE "wait"
    BY DEF Holding
  <1> HIDE DEF h
  <1>2. h \in Seq(V) /\ Len(h) = k + 2
    BY <1>1
  <1>3. h # <<>> /\ Head(h) = h[1]
    BY <1>2, HeadTailProperties, EmptySeq
  <1>4. /\ Tail(h) \in Seq(V) /\ Len(Tail(h)) = k + 1
        /\ \A i \in 1..(k + 1) : Tail(h)[i] = h[i + 1]
    BY <1>2, <1>3, HeadTailProperties
  <1>5. ASSUME k > 0 PROVE Tail(h) = Holding(k - 1)
    <2> DEFINE g == Holding(k - 1)
    <2>1. /\ g \in [1..(k + 1) -> V]
          /\ \A i \in 1..(k + 1) : g[i] = IF i <= k - 1 THEN "single-step"
                                          ELSE IF i = k THEN Release ELSE "wait"
      BY <1>5 DEF Holding
    <2> HIDE DEF g
    <2>2. g \in Seq(V) /\ Len(g) = k + 1
      BY <2>1
    <2>3. \A i \in 1..(k + 1) : g[i] = h[i + 1]
      BY <1>1, <2>1
    <2>4. Tail(h) = g
      BY <1>4, <2>2, <2>3, SeqEqual
    <2> QED BY <2>4 DEF g
  <1>6. ASSUME k = 0 PROVE Tail(h) = <<"wait">>
    <2>1. Len(Tail(h)) = 1 /\ 1 \in 1..(k + 1) /\ 2 \in 1..(k + 2)
      BY <1>4, <1>6
    <2>2. Tail(h)[1] = "wait"
      <3>1. Tail(h)[1] = h[1 + 1]
        BY <1>4, <2>1
      <3>2. h[2] = "wait"
        BY <1>1, <1>6, <2>1
      <3>3. 1 + 1 = 2
        OBVIOUS
      <3> QED BY <3>1, <3>2, <3>3, Zenon
    <2>3. <<"wait">> \in Seq(V) /\ Len(<<"wait">>) = 1 /\ <<"wait">>[1] = "wait"
      OBVIOUS
    <2> HIDE DEF V
    <2>4. \A i \in 1..Len(Tail(h)) : Tail(h)[i] = <<"wait">>[i]
      BY <2>1, <2>2, <2>3
    <2> QED BY <1>4, <2>1, <2>3, <2>4, SeqEqual
  <1> QED BY <1>1, <1>2, <1>3, <1>5, <1>6 DEF h

LEMMA HoldingDiffers ==
    ASSUME NEW c, Timed(c), NEW k \in Nat
    PROVE  /\ Holding(k) \notin Seq(PlainSteps)
           /\ Pressed \notin Seq(PlainSteps) /\ PressAndRelease \notin Seq(PlainSteps)
           /\ Holding(k) # Pressed /\ Holding(k) # PressAndRelease
           /\ Pressed # PressAndRelease
           /\ \A j \in Nat : Holding(j) = Holding(k) => j = k
  <1>1. Holding(k)[k + 1] = Release /\ Len(Holding(k)) = k + 2 /\ k + 1 \in 1..(k + 2)
    BY HoldingFacts DEF Holding
  <1>2. Release \notin PlainSteps
    BY DEF PlainSteps, Buttons
  <1>3. /\ Holding(k) \notin Seq(PlainSteps)
        /\ Pressed \notin Seq(PlainSteps) /\ PressAndRelease \notin Seq(PlainSteps)
    <2>1. ASSUME NEW s \in Seq(PlainSteps), NEW i \in 1..Len(s), s[i] = Release
          PROVE  FALSE
      BY <1>2, <2>1
    <2>2. /\ Pressed[2] = Release /\ Len(Pressed) = 3
          /\ PressAndRelease[3] = Release /\ Len(PressAndRelease) = 4
      BY DEF Pressed, PressAndRelease
    <2>3. Holding(k) \notin Seq(PlainSteps)
      BY <1>1, <2>1, Zenon
    <2>4. 2 \in 1..3 /\ 3 \in 1..4
      OBVIOUS
    <2>5. Pressed \notin Seq(PlainSteps)
      BY <2>1, <2>2, <2>4, Zenon
    <2>6. PressAndRelease \notin Seq(PlainSteps)
      BY <2>1, <2>2, <2>4, Zenon
    <2> QED BY <2>3, <2>5, <2>6
  <1>4. /\ Head(Pressed) = "wait" /\ Head(PressAndRelease) = Press
        /\ Head(Holding(k)) \in {"single-step", Release}
    <2>1. Head(Holding(k)) \in {"single-step", Release}
      BY HoldingFacts
    <2> QED BY <2>1 DEF Pressed, PressAndRelease
  <1>5. Press # "wait" /\ Release # "wait" /\ Press # "single-step" /\ Press # Release
    BY EventsAssumption DEF Timed
  <1>6. \A j \in Nat : Len(Holding(j)) = j + 2
    BY HoldingFacts
  <1>7. Pressed # PressAndRelease
    BY <1>4, <1>5
  <1>8. Holding(k) # Pressed /\ Holding(k) # PressAndRelease
    BY <1>4, <1>5
  <1>9. \A j \in Nat : Holding(j) = Holding(k) => j = k
    BY <1>6
  <1> QED BY <1>3, <1>7, <1>8, <1>9

(* The first step of the client tells what is left after it.               *)
LEMMA ShapeFacts ==
    ASSUME NEW c, Timed(c), NEW s, Shape(s), s # <<>>
    PROVE  /\ Shape(Tail(s))
           /\ Head(s) # "resume"
           /\ s \in Seq(PlainSteps) => /\ Tail(s) \in Seq(PlainSteps)
                                       /\ Head(s) \notin Buttons
           /\ Head(s) = Press => s = PressAndRelease /\ Tail(s) = Pressed
           /\ Head(s) = Release => s = Holding(0) /\ Tail(s) \in Seq(PlainSteps)
           /\ Head(s) = "wait" /\ s \notin Seq(PlainSteps) => s = Pressed
           /\ Head(s) = "single-step" /\ s \notin Seq(PlainSteps) =>
                \E k \in 1..WaitTicks : s = Holding(k) /\ Tail(s) = Holding(k - 1)
           /\ Head(s) \notin Buttons \cup {"wait", "single-step"} => s \in Seq(PlainSteps)
  <1>1. /\ Press # Release /\ {Press, Release} \subseteq Events
        /\ Events \cap {"wait", "single-step", "resume"} = {} /\ WaitTicks \in Nat
    BY EventsAssumption, InputsAssumption DEF Timed
  <1>2. CASE s \in Seq(PlainSteps)
    <2>1. Head(s) \in PlainSteps /\ Tail(s) \in Seq(PlainSteps)
      BY <1>2, HeadTailProperties
    <2>2. Head(s) # "resume" /\ Head(s) \notin Buttons
      BY <2>1 DEF PlainSteps
    <2> QED BY <1>2, <2>1, <2>2 DEF Shape, Buttons
  <1>3. CASE s = PressAndRelease
    <2>1. Head(s) = Press /\ Tail(s) = Pressed
      BY <1>3 DEF PressAndRelease, Pressed
    <2>2. s \notin Seq(PlainSteps)
      BY <1>3, HoldingDiffers, <1>1
    <2> QED BY <1>1, <1>3, <2>1, <2>2 DEF Shape, Buttons
  <1>4. CASE s = Pressed
    <2>1. Head(s) = "wait" /\ Tail(s) = <<Release, "wait">>
      BY <1>4 DEF Pressed
    <2>2. <<Release, "wait">> = Holding(0)
      <3> DEFINE V == {Release, "wait"}
      <3>1. Holding(0) \in [1..2 -> V] /\ Holding(0)[1] = Release /\ Holding(0)[2] = "wait"
        BY DEF Holding
      <3>2. ASSUME NEW n \in Nat, NEW f \in [1..n -> V]
            PROVE  f \in Seq(V) /\ Len(f) = n
        OBVIOUS
      <3>3. Holding(0) \in Seq(V) /\ Len(Holding(0)) = 2
        BY <3>1, <3>2
      <3>4. <<Release, "wait">> \in Seq(V) /\ Len(<<Release, "wait">>) = 2
        OBVIOUS
      <3>5. \A i \in 1..2 : Holding(0)[i] = <<Release, "wait">>[i]
        BY <3>1
      <3> HIDE DEF V
      <3> QED BY <3>3, <3>4, <3>5, SeqEqual
    <2>3. s \notin Seq(PlainSteps)
      BY <1>4, HoldingDiffers, <1>1
    <2>4. 0 \in 0..WaitTicks
      BY <1>1
    <2> QED BY <1>1, <1>4, <2>1, <2>2, <2>3, <2>4 DEF Shape, Buttons
  <1>5. ASSUME NEW k \in 0..WaitTicks, s = Holding(k)
        PROVE  /\ Shape(Tail(s)) /\ s \notin Seq(PlainSteps)
               /\ k = 0 => Head(s) = Release /\ Tail(s) \in Seq(PlainSteps)
               /\ k > 0 => Head(s) = "single-step" /\ Tail(s) = Holding(k - 1)
    <2>1. k \in Nat
      BY <1>1
    <2>2. /\ Head(s) = IF k > 0 THEN "single-step" ELSE Release
          /\ k > 0 => Tail(s) = Holding(k - 1)
          /\ k = 0 => Tail(s) = <<"wait">>
      BY <1>5, <2>1, HoldingFacts
    <2>3. <<"wait">> \in Seq(PlainSteps)
      BY <1>1 DEF PlainSteps, ClientSteps, Buttons
    <2>4. s \notin Seq(PlainSteps)
      BY <1>5, <2>1, HoldingDiffers
    <2>5. k > 0 => k - 1 \in 0..WaitTicks
      BY <1>1
    <2>6. CASE k = 0
      <3>1. Head(s) = Release /\ Tail(s) = <<"wait">> /\ ~(k > 0)
        BY <2>2, <2>6
      <3>2. Tail(s) \in Seq(PlainSteps)
        BY <2>3, <3>1
      <3> QED BY <2>4, <2>6, <3>1, <3>2, Zenon DEF Shape
    <2>7. CASE k > 0
      BY <2>2, <2>4, <2>5, <2>7 DEF Shape
    <2>8. k = 0 \/ k > 0
      BY <2>1
    <2> QED BY <2>6, <2>7, <2>8
  <1>6. CASE \E k \in 0..WaitTicks : s = Holding(k)
    <2>1. PICK k \in 0..WaitTicks : s = Holding(k)
      BY <1>6
    <2>2. CASE k = 0
      BY <1>1, <1>5, <2>1, <2>2 DEF Buttons
    <2>3. CASE k # 0
      <3>1. k \in 1..WaitTicks /\ k > 0
        BY <1>1, <2>3
      <3> QED BY <1>1, <1>5, <2>1, <3>1 DEF Buttons
    <2> QED BY <2>2, <2>3
  <1> QED BY <1>2, <1>3, <1>4, <1>6 DEF Shape

(* handle_wait replaces the delay by the single steps it stands for.       *)
LEMMA SplitWait ==
    ASSUME NEW c, Timed(c), NEW s, Shape(s), s # <<>>, Head(s) = "wait"
    PROVE  LET r == [i \in 1..WaitTicks |-> "single-step"] \o Tail(s) IN
           /\ Shape(r) /\ r # <<>> /\ Head(r) = "single-step"
           /\ s \in Seq(PlainSteps) => r \in Seq(PlainSteps)
           /\ s = Pressed => r = Holding(WaitTicks)
  <1> DEFINE w == [i \in 1..WaitTicks |-> "single-step"]
             r == w \o Tail(s)
             V == {"single-step", Release, "wait"}
  <1>1. /\ WaitTicks \in Nat /\ WaitTicks > 0
        /\ w \in [1..WaitTicks -> {"single-step"}]
        /\ \A i \in 1..WaitTicks : w[i] = "single-step"
    BY InputsAssumption DEF Timed
  <1>2. "single-step" \in PlainSteps
    BY EventsAssumption DEF PlainSteps, ClientSteps, Buttons
  <1> HIDE DEF w
  <1>3. w \in Seq({"single-step"}) /\ Len(w) = WaitTicks
    BY <1>1
  <1>4. CASE s \in Seq(PlainSteps)
    <2>1. Tail(s) \in Seq(PlainSteps)
      BY <1>4, HeadTailProperties
    <2>2. w \in Seq(PlainSteps)
      BY <1>2, <1>3, SeqMonotonic
    <2>3. /\ r \in Seq(PlainSteps) /\ Len(r) = WaitTicks + Len(Tail(s))
          /\ \A i \in 1..Len(r) : r[i] = IF i <= Len(w) THEN w[i] ELSE Tail(s)[i - Len(w)]
          /\ Len(Tail(s)) \in Nat
      BY <1>3, <2>1, <2>2, ConcatProperties, LenProperties
    <2> HIDE DEF r
    <2>4. r[1] = "single-step" /\ Len(r) > 0
      BY <1>1, <1>3, <2>3
    <2>5. r # <<>> /\ Head(r) = "single-step"
      BY <2>3, <2>4, HeadTailProperties, EmptySeq
    <2>6. s # Pressed
      BY <1>1, <1>4, HoldingDiffers
    <2>7. Shape(r)
      BY <2>3 DEF Shape
    <2> QED BY <2>3, <2>5, <2>6, <2>7 DEF r, w
  <1>5. CASE s = Pressed
    <2>1. Tail(s) = <<Release, "wait">>
      BY <1>5 DEF Pressed
    <2>2. /\ Tail(s) \in Seq(V) /\ Len(Tail(s)) = 2
          /\ Tail(s)[1] = Release /\ Tail(s)[2] = "wait"
      <3> DEFINE u == <<Release, "wait">>
      <3>1. u \in Seq(V) /\ Len(u) = 2 /\ u[1] = Release /\ u[2] = "wait"
        OBVIOUS
      <3> HIDE DEF u
      <3> QED BY <2>1, <3>1, Zenon DEF u
    <2>3. w \in Seq(V)
      BY <1>3, SeqMonotonic
    <2>4. /\ r \in Seq(V) /\ Len(r) = WaitTicks + 2
          /\ \A i \in 1..Len(r) : r[i] = IF i <= Len(w) THEN w[i] ELSE Tail(s)[i - Len(w)]
      <3> HIDE DEF V
      <3> DEFINE u == Tail(s)
      <3>1. u \in Seq(V) /\ Len(u) = 2
        BY <2>2
      <3> HIDE DEF u
      <3>2. /\ w \o u \in Seq(V) /\ Len(w \o u) = Len(w) + Len(u)
            /\ \A i \in 1..(Len(w) + Len(u)) :
                 (w \o u)[i] = IF i <= Len(w) THEN w[i] ELSE u[i - Len(w)]
        BY <2>3, <3>1, ConcatProperties
      <3>3. Len(w) + Len(u) = WaitTicks + 2
        BY <1>3, <3>1
      <3> QED BY <3>2, <3>3 DEF u
    <2> HIDE DEF r
    <2> DEFINE h == Holding(WaitTicks)
    <2>5. /\ h \in [1..(WaitTicks + 2) -> V]
          /\ \A i \in 1..(WaitTicks + 2) : h[i] = IF i <= WaitTicks THEN "single-step"
                                        ELSE IF i = WaitTicks + 1 THEN Release ELSE "wait"
      BY <1>1 DEF Holding
    <2>6. h # <<>> /\ Head(h) = "single-step"
      BY <1>1, HoldingFacts
    <2> HIDE DEF h
    <2>7. h \in Seq(V) /\ Len(h) = WaitTicks + 2
      BY <1>1, <2>5
    <2>8. ASSUME NEW i \in 1..(WaitTicks + 2)
          PROVE  r[i] = h[i]
      <3>1. CASE i <= WaitTicks
        BY <1>1, <1>3, <2>4, <2>5, <3>1
      <3>2. CASE i = WaitTicks + 1
        <4>1. i - Len(w) = 1 /\ ~(i <= Len(w)) /\ i \in 1..Len(r)
          BY <1>1, <1>3, <2>4, <3>2
        <4>2. r[i] = Tail(s)[i - Len(w)]
          BY <2>4, <4>1
        <4>3. h[i] = Release
          BY <1>1, <2>5, <3>2
        <4> QED BY <2>2, <4>1, <4>2, <4>3
      <3>3. CASE i = WaitTicks + 2
        <4>1. i - Len(w) = 2 /\ ~(i <= Len(w)) /\ i \in 1..Len(r)
          BY <1>1, <1>3, <2>4, <3>3
        <4>2. r[i] = Tail(s)[i - Len(w)]
          BY <2>4, <4>1
        <4>3. h[i] = "wait"
          BY <1>1, <2>5, <3>3
        <4> QED BY <2>2, <4>1, <4>2, <4>3
      <3> QED BY <1>1, <3>1, <3>2, <3>3
    <2>9. r = h
      <3> HIDE DEF V
      <3> QED BY <2>4, <2>7, <2>8, SeqEqual
    <2>10. r = Holding(WaitTicks) /\ r # <<>> /\ Head(r) = "single-step"
      BY <2>6, <2>9 DEF h
    <2>11. WaitTicks \in 0..WaitTicks
      BY <1>1
    <2>12. Shape(r)
      BY <2>10, <2>11 DEF Shape
    <2>13. s \notin Seq(PlainSteps)
      BY <1>1, <1>5, HoldingDiffers
    <2> QED BY <2>10, <2>12, <2>13 DEF r, w
  <1> QED BY <1>4, <1>5, ShapeFacts

LEMMA ClientShape ==
    ASSUME NEW c, Timed(c), TypeOK, StepInv, ClientsInv, ShapeInv(c),
           Request(c) \/ ClientStep(c)
    PROVE  ShapeInv(c)'
  <1> USE ThreadsDistinct DEF Goto, StepIs
  <1>1. /\ c \in Clients /\ c \in Threads /\ c # Packet /\ c # Daemon /\ c # Main
        /\ c \in Queuers /\ Main \in Queuers
        /\ DOMAIN pc = Threads /\ DOMAIN todo = Queuers
        /\ Packet \in Threads
    BY DEF Threads, Queuers, TypeOK, Timed
  <1>2. ASSUME NEW l, pc'[c] = l, l \in {"step", "qnotify", "pausing", "sleeping"},
               NEW s, Shape(s), todo'[c] = s, todo'[Main] = todo[Main],
               l = "qnotify" => Head(s) \in Events,
               l = "pausing" => Head(s) = "pause",
               l = "sleeping" => Head(s) = "wait"
        PROVE  ShapeInv(c)'
    BY <1>2 DEF ShapeInv, WaitPcs
  <1>3. ASSUME NEW l \in WaitPcs, pc'[c] = l, Head(todo[c]) = "single-step",
               todo' = todo
        PROVE  ShapeInv(c)'
    BY <1>3 DEF ShapeInv, WaitPcs
  <1>4. ASSUME pc'[c] = "step", pc[c] # "step",
               todo' = [todo EXCEPT ![c] = Tail(todo[c])]
        PROVE  ShapeInv(c)'
    <2>1. todo[c] # <<>> /\ Shape(todo[c])
      BY <1>1, <1>4 DEF StepInv, ShapeInv
    <2>2. Shape(Tail(todo[c]))
      BY <2>1, ShapeFacts
    <2>3. todo'[c] = Tail(todo[c]) /\ todo'[Main] = todo[Main]
      BY <1>1, <1>4
    <2> QED BY <1>2, <1>4, <2>2, <2>3
  <1>5. Shape(todo[c])
    BY DEF ShapeInv
  <1>6. CASE Request(c)
    <2>1. PICK r \in Requests : todo' = [todo EXCEPT ![c] = r]
      BY <1>6 DEF Request
    <2>2. Shape(r)
      BY DEF Timed, Shape
    <2>3. /\ todo'[c] = r /\ todo'[Main] = todo[Main]
          /\ pc'[c] = "step"
      BY <1>1, <1>6, <2>1 DEF Request
    <2> QED BY <1>2, <2>2, <2>3
  <1>7. CASE QueuePacket(c)
    BY <1>1, <1>2, <1>5, <1>7 DEF QueuePacket
  <1>8. CASE QueueNotify(c)
    <2>1. /\ pc' = NotifyPacket([pc EXCEPT ![c] = "step"]) /\ pc[c] = "qnotify"
          /\ todo' = [todo EXCEPT ![c] = Tail(todo[c])]
      BY <1>1, <1>8 DEF QueueNotify
    <2>2. pc'[c] = "step"
      BY <1>1, <2>1 DEF NotifyPacket
    <2> QED BY <1>4, <2>1, <2>2
  <1>9. CASE Pause(c)
    BY <1>1, <1>2, <1>5, <1>9 DEF Pause
  <1>10. CASE PauseReturn(c)
    BY <1>1, <1>4, <1>10 DEF PauseReturn
  <1>11. CASE Resume(c)
    <2>1. todo[c] # <<>> /\ Head(todo[c]) = "resume"
      BY <1>11 DEF Resume
    <2> QED BY <1>5, <2>1, ShapeFacts
  <1>12. CASE ResumeNotify(c)
    BY <1>1, <1>12 DEF ResumeNotify, ClientsInv
  <1>13. CASE SingleStep(c)
    BY <1>1, <1>3, <1>13 DEF SingleStep, WaitPcs
  <1>14. CASE HandleWait(c)
    <2>1. pc[c] = "step" /\ todo[c] # <<>> /\ Head(todo[c]) = "wait"
      BY <1>14 DEF HandleWait
    <2>2. CASE paused
      <3>1. /\ todo'[c] = [i \in 1..WaitTicks |-> "single-step"] \o Tail(todo[c])
            /\ todo'[Main] = todo[Main] /\ pc' = pc
        BY <1>1, <1>14, <2>2 DEF HandleWait
      <3>2. Shape(todo'[c])
        BY <1>5, <2>1, <3>1, SplitWait
      <3> QED BY <1>2, <2>1, <3>1, <3>2
    <2>3. CASE ~paused
      BY <1>1, <1>2, <1>5, <1>14, <2>1, <2>3 DEF HandleWait
    <2> QED BY <2>2, <2>3
  <1>15. CASE WaitElapsed(c)
    BY <1>1, <1>4, <1>15 DEF WaitElapsed
  <1>16. CASE TickStep(c)
    <2>1. Head(todo[c]) = "single-step" \/ pc[c] \notin WaitPcs
      BY DEF ShapeInv
    <2>2. CASE AddTick(c)
      BY <1>1, <1>3, <2>1, <2>2 DEF AddTick, WaitPcs
    <2>3. CASE TickNotify(c)
      <3>1. /\ pc' = NotifyPacket([pc EXCEPT ![c] = "wtick"]) /\ pc[c] = "notify"
            /\ todo' = todo
        BY <1>1, <2>3 DEF TickNotify
      <3>2. pc'[c] = "wtick"
        BY <1>1, <3>1 DEF NotifyPacket
      <3> QED BY <1>3, <2>1, <3>1, <3>2 DEF WaitPcs
    <2>4. CASE WaitReadTick(c)
      BY <1>1, <1>3, <2>1, <2>4 DEF WaitReadTick, WaitPcs
    <2>5. CASE WaitReadQueue(c)
      BY <1>1, <1>3, <2>1, <2>5 DEF WaitReadQueue, WaitPcs
    <2>6. CASE WaitReadStatus(c) /\ ~statusSet
      BY <1>1, <1>3, <2>1, <2>6 DEF WaitReadStatus, WaitPcs
    <2>7. CASE WaitReadStatus(c) /\ statusSet
      BY <1>1, <1>4, <2>7 DEF WaitReadStatus
    <2> QED BY <1>16, <2>2, <2>3, <2>4, <2>5, <2>6, <2>7 DEF TickStep
  <1> QED BY <1>6, <1>7, <1>8, <1>9, <1>10, <1>11, <1>12, <1>13, <1>14, <1>15,
             <1>16 DEF ClientStep

-----------------------------------------------------------------------------
(* Where an event is between the thread that queued it and the application. *)
Contains(q, x) == \E i \in 1..Len(q) : q[i] = x
OneIn(q) == \A i, j \in 1..Len(q) : q[i] \in Buttons /\ q[j] \in Buttons => i = j
InQueue(x) == Contains(queue, x)
InHand(x) == pc[Packet] = "send" /\ sending = x
InSocket(x) == toApp = <<x>>
UnderWay(x) == InQueue(x) \/ InHand(x) \/ InSocket(x)
ButtonQueued == InQueue(Press) \/ InQueue(Release)
ButtonUnderWay == UnderWay(Press) \/ UnderWay(Release)

(* The client waits for a tick; the tick was sent but is still requested.  *)
Asking(c) == pc[c] \in {"notify", "wtick", "event", "wqueue", "wstatus"}
Sent == pc[Packet] \in {"count", "untick"}
Pending == (tickRequested /\ ~Sent) \/ InSocket(Ticker)

(* While the daemon makes sure that its last tick was processed, the one   *)
(* client waits for it in pause(), so that no button is under way when the *)
(* daemon reports that the time is paused.                                 *)
PausedInv(c) ==
    /\ paused /\ ~parked => pc[c] = "pausing"
    /\ parked => paused
    /\ pc[Daemon] \in Resting => parked
    /\ paused => pc[c] # "sleeping"
    /\ pc[Daemon] \in {"wtick", "event", "wqueue", "wstatus", "park"} => paused
    /\ pc[Daemon] \in {"wqueue", "wstatus", "park"} => ~tickRequested
    /\ pc[Daemon] \in {"wstatus", "park"} => ~ButtonQueued
    /\ pc[Daemon] = "park" => ~ButtonUnderWay /\ ~InSocket(Ticker)
    /\ Sent => tickRequested

(* At most one button event is under way.                                  *)
OneButton ==
    /\ OneIn(queue)
    /\ ButtonQueued => /\ ~InHand(Press) /\ ~InHand(Release)
                       /\ ~InSocket(Press) /\ ~InSocket(Release)

(* A tick exists only while the client asks for it, and never overtakes a  *)
(* button event.                                                           *)
TicksInv(c) ==
    /\ ~Asking(c) => ~tickRequested /\ ~InSocket(Ticker)
    /\ pc[c] \in {"wqueue", "wstatus"} => ~tickRequested
    /\ InSocket(Ticker) /\ tickRequested => Sent
    /\ ButtonUnderWay => /\ ~InHand(Ticker) /\ ~InSocket(Ticker)
                         /\ Asking(c) => tickRequested /\ ~Sent
                         /\ todo[c] # <<>>
                         /\ \/ Head(todo[c]) \in {"wait", "single-step"}
                            \/ pc[c] = "qnotify" /\ Head(todo[c]) \in Buttons

(* The ticks that the application saw since the press, the one under way   *)
(* and the ones the client has still to ask for make the delay.            *)
HeldInv(c) ==
    /\ UnderWay(Release) =>
         /\ held = WaitTicks
         /\ todo[c] \in Seq(PlainSteps) \/ (pc[c] = "qnotify" /\ todo[c] = Holding(0))
    /\ UnderWay(Press) =>
         \/ todo[c] = Holding(WaitTicks) \/ todo[c] = Pressed
         \/ pc[c] = "qnotify" /\ todo[c] = PressAndRelease
    /\ \A k \in 0..WaitTicks : todo[c] = Holding(k) /\ ~ButtonUnderWay =>
         held = WaitTicks - k + (IF Asking(c) /\ ~Pending THEN 1 ELSE 0)
    /\ todo[c] = Pressed /\ ~UnderWay(Press) => held = 0
    /\ todo[c] = PressAndRelease /\ pc[c] = "qnotify" => UnderWay(Press) \/ held = 0

ExactInv(c) ==
    /\ held \in Nat
    /\ frozen => parked
    /\ parked /\ InSocket(Release) => held = WaitTicks
    /\ parked /\ ~closed => OneButton /\ TicksInv(c) /\ HeldInv(c)

(* Steps that change none of this.                                         *)
Unseen(c) ==
    /\ closed => closed'
    /\ UNCHANGED <<tickRequested, paused, parked, held, frozen>>
    /\ ~closed' => /\ UnderWay(Press)' <=> UnderWay(Press)
                   /\ UnderWay(Release)' <=> UnderWay(Release)
    /\ InSocket(Release)' => InSocket(Release) \/ (~closed /\ UnderWay(Release))
    /\ ButtonUnderWay' => ButtonUnderWay
    /\ ButtonQueued' => ButtonQueued
    /\ OneButton => OneButton'
    /\ InSocket(Ticker)' <=> InSocket(Ticker)
    /\ InHand(Ticker)' <=> InHand(Ticker)
    /\ Sent' <=> Sent
    /\ todo'[c] = todo[c]
    /\ pc'[c] = pc[c] \/ (pc[c] = "event" /\ pc'[c] = "wtick")
    /\ pc'[Daemon] = pc[Daemon] \/ (pc[Daemon] = "event" /\ pc'[Daemon] = "wtick")

LEMMA UnseenStep ==
    ASSUME NEW c, PausedInv(c), ExactInv(c), Unseen(c)
    PROVE  PausedInv(c)' /\ ExactInv(c)'
  <1> USE DEF Unseen
  <1>1. PausedInv(c)'
    BY DEF PausedInv, Resting
  <1>2. /\ Asking(c)' <=> Asking(c)
        /\ Pending' <=> Pending
        /\ pc'[c] \in {"wqueue", "wstatus"} <=> pc[c] \in {"wqueue", "wstatus"}
        /\ pc'[c] = "qnotify" <=> pc[c] = "qnotify"
    BY DEF Asking, Pending
  <1>3. ASSUME ~closed', OneButton, TicksInv(c)
        PROVE  OneButton' /\ TicksInv(c)'
    BY <1>2, <1>3 DEF TicksInv
  <1>4. ASSUME ~closed', HeldInv(c)
        PROVE  HeldInv(c)'
    <2>1. ButtonUnderWay' <=> ButtonUnderWay
      BY <1>4 DEF ButtonUnderWay
    <2> QED BY <1>2, <1>4, <2>1 DEF HeldInv
  <1>5. parked' /\ InSocket(Release)' => held' = WaitTicks
    BY DEF ExactInv, HeldInv
  <1> QED BY <1>1, <1>3, <1>4, <1>5 DEF ExactInv

LEMMA TailContents ==
    ASSUME NEW S, NEW s \in Seq(S), s # <<>>
    PROVE  /\ \A x : Contains(Tail(s), x) => Contains(s, x)
           /\ \A x : Contains(s, x) => Head(s) = x \/ Contains(Tail(s), x)
           /\ Contains(s, Head(s))
           /\ OneIn(s) => OneIn(Tail(s))
           /\ OneIn(s) /\ Head(s) \in Buttons =>
                \A x \in Buttons : ~Contains(Tail(s), x)
  <1> DEFINE n == Len(s)
             t == Tail(s)
  <1>1. /\ t \in Seq(S) /\ Len(t) = n - 1 /\ n \in Nat /\ n > 0
        /\ Head(s) = s[1] /\ \A i \in 1..(n - 1) : t[i] = s[i + 1]
    BY HeadTailProperties, EmptySeq, LenProperties
  <1> HIDE DEF n, t
  <1>2. \A i \in 1..(n - 1) : i + 1 \in 1..n /\ i + 1 # 1
    BY <1>1
  <1>3. \A i \in 1..n : i = 1 \/ (i - 1 \in 1..(n - 1) /\ (i - 1) + 1 = i)
    BY <1>1
  <1>4. ASSUME NEW x, Contains(t, x) PROVE Contains(s, x)
    <2>1. PICK i \in 1..(n - 1) : t[i] = x
      BY <1>1, <1>4 DEF Contains
    <2>2. i + 1 \in 1..n /\ s[i + 1] = x
      BY <1>1, <1>2, <2>1
    <2> QED BY <2>2 DEF Contains, n
  <1>5. ASSUME NEW x, Contains(s, x) PROVE Head(s) = x \/ Contains(t, x)
    <2>1. PICK i \in 1..n : s[i] = x
      BY <1>5 DEF Contains, n
    <2>2. CASE i = 1
      BY <1>1, <2>1, <2>2
    <2>3. CASE i # 1
      <3>1. i - 1 \in 1..(n - 1) /\ (i - 1) + 1 = i
        BY <1>3, <2>3
      <3>2. t[i - 1] = x
        BY <1>1, <2>1, <3>1
      <3> QED BY <1>1, <3>1, <3>2 DEF Contains
    <2> QED BY <2>2, <2>3
  <1>6. Contains(s, Head(s))
    <2>1. 1 \in 1..n
      BY <1>1
    <2> QED BY <1>1, <2>1 DEF Contains, n
  <1>7. ASSUME OneIn(s) PROVE OneIn(t)
    <2> SUFFICES ASSUME NEW i \in 1..(n - 1), NEW j \in 1..(n - 1),
                        t[i] \in Buttons, t[j] \in Buttons
                 PROVE  i = j
      BY <1>1 DEF OneIn
    <2>1. s[i + 1] \in Buttons /\ s[j + 1] \in Buttons
      BY <1>1
    <2>2. i + 1 = j + 1
      BY <1>2, <1>7, <2>1 DEF OneIn, n
    <2> QED BY <1>1, <2>2
  <1>8. ASSUME OneIn(s), Head(s) \in Buttons, NEW x \in Buttons, Contains(t, x)
        PROVE  FALSE
    <2>1. PICK i \in 1..(n - 1) : t[i] = x
      BY <1>1, <1>8 DEF Contains
    <2>2. s[i + 1] \in Buttons /\ s[1] \in Buttons /\ i + 1 \in 1..n /\ 1 \in 1..n
      BY <1>1, <1>2, <1>8, <2>1
    <2>3. i + 1 = 1
      BY <1>8, <2>2 DEF OneIn, n
    <2> QED BY <1>2, <2>3
  <1> QED BY <1>4, <1>5, <1>6, <1>7, <1>8 DEF t

LEMMA AppendContents ==
    ASSUME NEW S, NEW s \in Seq(S), NEW e \in S
    PROVE  /\ \A x : Contains(Append(s, e), x) <=> Contains(s, x) \/ x = e
           /\ OneIn(s) /\ e \notin Buttons => OneIn(Append(s, e))
           /\ (\A x \in Buttons : ~Contains(s, x)) => OneIn(Append(s, e))
  <1> DEFINE n == Len(s)
             t == Append(s, e)
  <1>1. /\ Len(t) = n + 1 /\ n \in Nat
        /\ \A i \in 1..n : t[i] = s[i]
        /\ t[n + 1] = e
    BY AppendProperties, LenProperties
  <1> HIDE DEF n, t
  <1>2. \A i \in 1..(n + 1) : i \in 1..n \/ i = n + 1
    BY <1>1
  <1>3. (n + 1) \in 1..(n + 1) /\ \A i \in 1..n : i \in 1..(n + 1)
    BY <1>1
  <1>4. \A x : Contains(t, x) <=> Contains(s, x) \/ x = e
    <2>1. ASSUME NEW x, Contains(t, x) PROVE Contains(s, x) \/ x = e
      <3>1. PICK i \in 1..(n + 1) : t[i] = x
        BY <1>1, <2>1 DEF Contains
      <3> QED BY <1>1, <1>2, <3>1 DEF Contains, n
    <2>2. ASSUME NEW x, Contains(s, x) \/ x = e PROVE Contains(t, x)
      <3>1. CASE Contains(s, x)
        <4>1. PICK i \in 1..n : s[i] = x
          BY <3>1 DEF Contains, n
        <4> QED BY <1>1, <1>3, <4>1 DEF Contains
      <3>2. CASE x = e
        BY <1>1, <1>3, <3>2 DEF Contains
      <3> QED BY <2>2, <3>1, <3>2
    <2> QED BY <2>1, <2>2
  <1>5. ASSUME OneIn(s), e \notin Buttons PROVE OneIn(t)
    <2> SUFFICES ASSUME NEW i \in 1..(n + 1), NEW j \in 1..(n + 1),
                        t[i] \in Buttons, t[j] \in Buttons
                 PROVE  i = j
      BY <1>1 DEF OneIn
    <2>1. i \in 1..n /\ j \in 1..n
      BY <1>1, <1>2, <1>5
    <2> QED BY <1>1, <1>5, <2>1 DEF OneIn, n
  <1>6. ASSUME \A x \in Buttons : ~Contains(s, x) PROVE OneIn(t)
    <2> SUFFICES ASSUME NEW i \in 1..(n + 1), NEW j \in 1..(n + 1),
                        t[i] \in Buttons, t[j] \in Buttons
                 PROVE  i = j
      BY <1>1 DEF OneIn
    <2>1. \A m \in 1..n : s[m] \notin Buttons
      BY <1>6 DEF Contains, n
    <2>2. i = n + 1 /\ j = n + 1
      BY <1>1, <1>2, <2>1
    <2> QED BY <2>2
  <1> QED BY <1>4, <1>5, <1>6 DEF t

(* The sender takes an event from the queue, or the tick once the queue is *)
(* empty, and writes it to a socket that the application has emptied.      *)
LEMMA PacketStepExact ==
    ASSUME NEW c, Timed(c), TurnInv, StoppedInv, PausedInv(c), ExactInv(c),
           PacketStep, UNCHANGED <<held, frozen>>
    PROVE  PausedInv(c)' /\ ExactInv(c)'
  <1> USE ThreadsDistinct DEF Goto, linkVars, daemonVars, appVars
  <1>1. /\ c \in Clients /\ c \in Threads /\ c # Packet /\ Daemon # Packet
        /\ Packet \in Threads /\ Daemon \in Threads /\ DOMAIN pc = Threads
        /\ queue \in Seq(Events) /\ toApp \in Seq(Tags)
    BY DEF Threads, TurnInv, TypeOK, Timed
  <1>2. /\ pc'[c] = pc[c] /\ pc'[Daemon] = pc[Daemon]
        /\ UNCHANGED <<todo, paused, parked, closed>>
    BY <1>1 DEF PacketStep, WaitForWork, WaitForStatus, ClearStatus, PickPacket,
                SendPicked, CountTick, ClearTick
  <1>3. pc[Packet] \in {"pick", "send"} => toApp = <<>>
    BY DEF TurnInv, Exclusion, ToAppHas, PacketHas
  <1>4. /\ Press # Ticker /\ Release # Ticker /\ Ticker \notin Buttons
        /\ \A x : <<x>> # <<>>
        /\ \A x, y : <<x>> = <<y>> => x = y
    BY EventsAssumption DEF Buttons
  <1>5. CASE WaitForWork \/ WaitForStatus \/ ClearStatus \/ CountTick
    <2>1. /\ UNCHANGED <<queue, toApp, tickRequested>>
          /\ pc[Packet] # "send" /\ pc'[Packet] # "send"
          /\ Sent' <=> Sent
      BY <1>1, <1>5 DEF WaitForWork, WaitForStatus, ClearStatus, CountTick, Sent
    <2>2. Unseen(c)
      BY <1>2, <2>1 DEF Unseen, UnderWay, ButtonUnderWay, ButtonQueued, OneButton,
                        InQueue, InHand, InSocket
    <2> QED BY <2>2, UnseenStep
  <1>6. CASE PickPacket /\ queue # <<>>
    <2> DEFINE h == Head(queue)
    <2>1. /\ queue' = Tail(queue) /\ UNCHANGED <<toApp, tickRequested>>
          /\ pc[Packet] = "pick" /\ pc'[Packet] = "send" /\ sending' = h
      BY <1>1, <1>6 DEF PickPacket
    <2>2. h \in Events /\ h # Ticker
      BY <1>1, <1>6, HeadTailProperties, EventsAssumption
    <2>3. /\ \A x : Contains(queue', x) => Contains(queue, x)
          /\ \A x : Contains(queue, x) => h = x \/ Contains(queue', x)
          /\ Contains(queue, h)
          /\ OneIn(queue) => OneIn(queue')
          /\ OneIn(queue) /\ h \in Buttons => \A x \in Buttons : ~Contains(queue', x)
      BY <1>1, <1>6, <2>1, TailContents
    <2> HIDE DEF h
    <2>4. /\ \A x : ~InHand(x) /\ ~InSocket(x) /\ ~InSocket(x)'
          /\ \A x : InHand(x)' <=> x = h
          /\ \A x : InQueue(x) <=> Contains(queue, x)
          /\ \A x : InQueue(x)' <=> Contains(queue', x)
      BY <1>3, <1>4, <2>1 DEF InHand, InSocket, InQueue
    <2>5. \A x : UnderWay(x)' <=> UnderWay(x)
      BY <2>3, <2>4 DEF UnderWay
    <2>6. ButtonQueued' => ButtonQueued
      BY <2>3, <2>4 DEF ButtonQueued
    <2>7. OneButton => OneButton'
      BY <2>3, <2>4 DEF OneButton, ButtonQueued, Buttons
    <2>8. ButtonUnderWay' <=> ButtonUnderWay
      BY <2>5 DEF ButtonUnderWay
    <2>9. ~Sent /\ ~Sent' /\ ~InHand(Ticker)'
      BY <2>1, <2>2, <2>4 DEF Sent
    <2>10. Unseen(c)
      BY <1>2, <2>1, <2>4, <2>5, <2>6, <2>7, <2>8, <2>9 DEF Unseen
    <2> QED BY <2>10, UnseenStep
  <1>7. CASE PickPacket /\ queue = <<>>
    <2>1. /\ UNCHANGED <<queue, toApp, tickRequested>> /\ tickRequested
          /\ pc[Packet] = "pick" /\ pc'[Packet] = "send" /\ sending' = Ticker
      BY <1>1, <1>7 DEF PickPacket, TurnInv, NoUnexpectedState
    <2>2. /\ \A x : ~InHand(x) /\ ~InSocket(x) /\ ~InSocket(x)'
          /\ \A x : InHand(x)' <=> x = Ticker
          /\ \A x : ~InQueue(x) /\ ~InQueue(x)'
      BY <1>3, <1>4, <1>7, <2>1 DEF InHand, InSocket, InQueue, Contains
    <2>3. ~Sent /\ ~Sent' /\ (Pending' <=> Pending)
      BY <2>1, <2>2 DEF Sent, Pending
    <2>4. /\ ~ButtonUnderWay /\ ~ButtonUnderWay' /\ ~ButtonQueued'
          /\ ~UnderWay(Press)' /\ ~UnderWay(Release)'
          /\ ~UnderWay(Press)
      BY <1>4, <2>2 DEF ButtonUnderWay, ButtonQueued, UnderWay
    <2>5. PausedInv(c)'
      BY <1>2, <2>1, <2>2, <2>3, <2>4 DEF PausedInv
    <2>6. OneButton'
      BY <1>7, <2>1, <2>4 DEF OneButton, OneIn
    <2>7. ASSUME TicksInv(c), HeldInv(c)
          PROVE  TicksInv(c)' /\ HeldInv(c)'
      BY <1>2, <2>1, <2>2, <2>3, <2>4, <2>7 DEF TicksInv, HeldInv, Asking
    <2> QED BY <1>2, <2>2, <2>5, <2>6, <2>7 DEF ExactInv
  <1>8. CASE SendPicked /\ closed
    <2>1. /\ UNCHANGED <<queue, toApp, tickRequested>>
          /\ pc[Packet] = "send" /\ pc'[Packet] # "send"
          /\ Sent' => InHand(Ticker)
      BY <1>1, <1>8 DEF SendPicked, SendPacket, Sent, InHand
    <2>2. /\ ButtonUnderWay' => ButtonUnderWay
          /\ ButtonQueued' => ButtonQueued
      BY <2>1 DEF ButtonUnderWay, ButtonQueued, UnderWay, InQueue, InHand, InSocket
    <2>3. InHand(Ticker) => tickRequested
      BY DEF InHand, StoppedInv, TimeInv
    <2>4. PausedInv(c)'
      BY <1>2, <2>1, <2>2, <2>3 DEF PausedInv, InSocket
    <2> QED BY <1>2, <1>8, <2>1, <2>4 DEF ExactInv, InSocket
  <1>9. CASE SendPicked /\ ~closed
    <2>1. /\ UNCHANGED <<queue, tickRequested>>
          /\ pc[Packet] = "send" /\ toApp' = Append(toApp, sending) /\ toApp = <<>>
          /\ pc'[Packet] = IF sending = Ticker THEN "count" ELSE "wait"
      BY <1>1, <1>3, <1>9 DEF SendPicked, SendPacket
    <2>2. toApp' = <<sending>>
      BY <2>1
    <2>3. /\ \A x : InHand(x) <=> x = sending
          /\ \A x : InSocket(x)' <=> x = sending
          /\ \A x : ~InSocket(x) /\ ~InHand(x)'
          /\ \A x : InQueue(x)' <=> InQueue(x)
      BY <1>4, <2>1, <2>2 DEF InHand, InSocket, InQueue
    <2>4. \A x : UnderWay(x)' <=> UnderWay(x)
      BY <2>3 DEF UnderWay
    <2>5. /\ ButtonUnderWay' <=> ButtonUnderWay
          /\ ButtonQueued' <=> ButtonQueued
      BY <2>3, <2>4 DEF ButtonUnderWay, ButtonQueued
    <2>6. OneButton => OneButton'
      BY <2>1, <2>3, <2>5 DEF OneButton
    <2>7. CASE sending # Ticker
      <3>1. ~Sent /\ ~Sent'
        BY <2>1, <2>7 DEF Sent
      <3>2. Unseen(c)
        BY <1>2, <1>9, <2>1, <2>3, <2>4, <2>5, <2>6, <2>7, <3>1 DEF Unseen, UnderWay
      <3> QED BY <3>2, UnseenStep
    <2>8. CASE sending = Ticker
      <3>1. ~Sent /\ Sent' /\ tickRequested
        BY <2>1, <2>8 DEF Sent, StoppedInv, TimeInv
      <3>2. Pending /\ Pending' /\ InSocket(Ticker)'
        BY <2>3, <2>8, <3>1 DEF Pending
      <3>3. PausedInv(c)'
        BY <1>2, <2>1, <2>5, <3>1 DEF PausedInv
      <3>4. ASSUME TicksInv(c), HeldInv(c)
            PROVE  TicksInv(c)' /\ HeldInv(c)'
        <4>1. ~ButtonUnderWay /\ ~ButtonUnderWay'
          BY <2>3, <2>5, <2>8, <3>4 DEF TicksInv
        <4>2. TicksInv(c)'
          BY <1>2, <2>1, <3>1, <3>4, <4>1 DEF TicksInv, Asking
        <4>3. HeldInv(c)'
          BY <1>2, <2>4, <3>2, <3>4, <4>1 DEF HeldInv, Asking
        <4> QED BY <4>2, <4>3
      <3>5. ~InSocket(Release)'
        BY <1>4, <2>3, <2>8
      <3> QED BY <1>2, <2>6, <3>3, <3>4, <3>5 DEF ExactInv
    <2> QED BY <2>7, <2>8
  <1>10. CASE ClearTick
    <2>1. /\ UNCHANGED <<queue, toApp>> /\ ~tickRequested'
          /\ pc[Packet] = "untick" /\ pc'[Packet] = "wait"
      BY <1>1, <1>10 DEF ClearTick
    <2>2. /\ Sent /\ ~Sent' /\ (Pending' <=> Pending)
          /\ InSocket(Ticker)' <=> InSocket(Ticker)
          /\ InSocket(Release)' <=> InSocket(Release)
          /\ ~InHand(Ticker)' /\ ~InHand(Ticker)
      BY <2>1 DEF Sent, Pending, InSocket, InHand
    <2>3. \A x : UnderWay(x)' <=> UnderWay(x)
      BY <2>1 DEF UnderWay, InQueue, InHand, InSocket
    <2>4. /\ ButtonUnderWay' <=> ButtonUnderWay
          /\ ButtonQueued' <=> ButtonQueued
          /\ OneButton' <=> OneButton
      BY <2>1, <2>3 DEF ButtonUnderWay, ButtonQueued, OneButton, InQueue, InHand, InSocket
    <2>5. PausedInv(c)'
      BY <1>2, <2>1, <2>2, <2>4 DEF PausedInv
    <2>6. ASSUME TicksInv(c), HeldInv(c)
          PROVE  TicksInv(c)' /\ HeldInv(c)'
      <3>1. TicksInv(c)'
        BY <1>2, <2>1, <2>2, <2>4, <2>6 DEF TicksInv, Asking
      <3>2. HeldInv(c)'
        BY <1>2, <2>2, <2>3, <2>4, <2>6 DEF HeldInv, Asking
      <3> QED BY <3>1, <3>2
    <2> QED BY <1>2, <2>2, <2>4, <2>5, <2>6 DEF ExactInv
  <1> QED BY <1>5, <1>6, <1>7, <1>8, <1>9, <1>10 DEF PacketStep

LEMMA MainShape ==
    ASSUME NEW c, Timed(c), TypeOK, StepInv, ShapeInv(c), MainStep
    PROVE  ShapeInv(c)'
  <1> USE ThreadsDistinct DEF Goto
  <1>1. /\ c \in Clients /\ c \in Threads /\ c # Packet /\ c # Main
        /\ DOMAIN todo = Queuers /\ Main \in Queuers
    BY DEF Threads, Timed, TypeOK, Queuers
  <1>2. /\ todo'[c] = todo[c]
        /\ pc'[c] = pc[c] \/ (pc[c] = "event" /\ pc'[c] = "wtick")
    BY <1>1, MainMoves
  <1>3. todo'[Main] \in Seq(MainSteps \ Buttons)
    <2> DEFINE Steps == MainSteps \ Buttons
    <2>1. todo[Main] \in Seq(Steps)
      BY DEF ShapeInv
    <2>2. {"set", "send-processed"} \subseteq Steps /\ Events \ Buttons \subseteq Steps
      BY EventsAssumption DEF MainSteps, Buttons
    <2> SUFFICES todo'[Main] \in Seq(Steps)
      OBVIOUS
    <2> HIDE DEF Steps
    <2>3. ASSUME NEW r \in Seq(Steps), todo' = [todo EXCEPT ![Main] = r]
          PROVE  todo'[Main] \in Seq(Steps)
      BY <1>1, <2>3
    <2>4. todo[Main] # <<>> => Tail(todo[Main]) \in Seq(Steps)
      BY <2>1, HeadTailProperties
    <2>5. CASE CanRead
      <3>1. ASSUME NEW a \in {<<>>} \cup Automations, NEW tag
            PROVE  Handling(tag, a) \in Seq(Steps)
        <4>1. a \in Seq(Events \ Buttons)
          <5>1. <<>> \in Seq(Events \ Buttons)
            OBVIOUS
          <5> QED BY <5>1, Zenon DEF Timed
        <4>2. a \in Seq(Steps)
          BY <2>2, <4>1, SeqMonotonic
        <4>3. /\ <<"set">> \in Seq(Steps) /\ <<"send-processed">> \in Seq(Steps)
              /\ <<>> \in Seq(Steps)
          BY <2>2
        <4>4. a \o <<"set">> \in Seq(Steps)
          BY <4>2, <4>3, ConcatProperties
        <4> QED BY <4>3, <4>4 DEF Handling
      <3>2. \A a \in Answers : a \in Seq(Steps)
        BY <2>2, SeqMonotonic DEF Timed
      <3>3. \/ todo' = todo
            \/ \E r \in Seq(Steps) : todo' = [todo EXCEPT ![Main] = r]
        BY <2>5, <3>1, <3>2 DEF CanRead
      <3> QED BY <2>1, <2>3, <3>3
    <2>6. CASE CanReadEof \/ QueuePacket(Main)
      BY <2>1, <2>6 DEF CanReadEof, QueuePacket
    <2>7. CASE SetStatus \/ SendProcessed
      <3>1. todo[Main] # <<>> /\ todo' = [todo EXCEPT ![Main] = Tail(todo[Main])]
        BY <1>1, <2>7 DEF SetStatus, SendProcessed
      <3> QED BY <2>3, <2>4, <3>1
    <2>8. CASE QueueNotify(Main)
      <3>1. todo[Main] # <<>> /\ todo' = [todo EXCEPT ![Main] = Tail(todo[Main])]
        BY <1>1, <2>8 DEF QueueNotify, StepInv
      <3> QED BY <2>3, <2>4, <3>1
    <2> QED BY <2>5, <2>6, <2>7, <2>8 DEF MainStep
  <1> QED BY <1>2, <1>3 DEF ShapeInv, WaitPcs

(* The main thread queues no button event.                                 *)
LEMMA MainStepExact ==
    ASSUME NEW c, Timed(c), TurnInv, ShapeInv(c), PausedInv(c), ExactInv(c),
           MainStep, UNCHANGED <<held, frozen>>
    PROVE  PausedInv(c)' /\ ExactInv(c)'
  <1> USE ThreadsDistinct DEF Goto, linkVars, daemonVars, appVars
  <1>1. /\ c \in Clients /\ c \in Threads /\ c # Packet /\ c # Main
        /\ Packet \in Threads /\ Daemon \in Threads /\ Packet # Main /\ Daemon # Main
        /\ Daemon # Packet /\ TypeOK
        /\ queue \in Seq(Events) /\ toApp \in Seq(Tags)
    BY DEF Threads, TurnInv, TypeOK, Timed
  <1>2. /\ UNCHANGED <<tickRequested, sending, parked>>
        /\ todo'[c] = todo[c]
        /\ pc'[c] = pc[c] \/ (pc[c] = "event" /\ pc'[c] = "wtick")
        /\ pc'[Daemon] = pc[Daemon] \/ (pc[Daemon] = "event" /\ pc'[Daemon] = "wtick")
        /\ PacketWoken
    BY <1>1, MainMoves DEF PacketWoken
  <1>3. paused' = paused /\ (closed => closed')
    BY DEF MainStep, CanRead, CanReadEof, SetStatus, SendProcessed, QueuePacket,
           QueueNotify
  <1>4. /\ \A x : InHand(x)' <=> InHand(x)
        /\ Sent' <=> Sent
    BY <1>2 DEF InHand, Sent, PacketWoken
  <1>5. /\ Processed \notin Buttons /\ Processed # Ticker
        /\ \A x : <<x>> # <<>>
        /\ \A x, y : <<x>> = <<y>> => x = y
    BY EventsAssumption DEF Buttons, Processed, Ticker
  <1>6. CASE QueuePacket(Main)
    <2> DEFINE e == Head(todo[Main])
    <2>1. queue' = Append(queue, e) /\ e \in Events /\ toApp' = toApp
          /\ todo[Main] # <<>>
      BY <1>6 DEF QueuePacket
    <2>2. e \notin Buttons
      BY <2>1, HeadTailProperties DEF ShapeInv
    <2> HIDE DEF e
    <2>3. /\ \A x : Contains(queue', x) <=> Contains(queue, x) \/ x = e
          /\ OneIn(queue) => OneIn(queue')
      BY <1>1, <2>1, <2>2, AppendContents
    <2>4. /\ \A x \in Buttons : InQueue(x)' <=> InQueue(x)
          /\ \A x : InSocket(x)' <=> InSocket(x)
      BY <2>1, <2>2, <2>3 DEF InQueue, InSocket
    <2>5. \A x \in Buttons : UnderWay(x)' <=> UnderWay(x)
      BY <1>4, <2>4 DEF UnderWay
    <2>6. /\ ButtonQueued' <=> ButtonQueued
          /\ ButtonUnderWay' <=> ButtonUnderWay
      BY <2>4, <2>5 DEF ButtonQueued, ButtonUnderWay, Buttons
    <2>7. OneButton => OneButton'
      BY <1>4, <2>3, <2>4, <2>6 DEF OneButton, Buttons
    <2>8. Unseen(c)
      BY <1>2, <1>3, <1>4, <2>4, <2>5, <2>6, <2>7 DEF Unseen, Buttons
    <2> QED BY <2>8, UnseenStep
  <1>7. CASE ~QueuePacket(Main)
    <2>1. queue' = queue /\ (toApp' = toApp \/ (toApp = <<>> /\ toApp' = <<Processed>>))
      <3>1. CASE SendProcessed
        <4>1. todo[Main] # <<>> /\ Head(todo[Main]) \in Marks /\ todo[Main] \in Seq(MainSteps)
          BY <3>1 DEF SendProcessed, Marks, TurnInv, TypeOK
        <4>2. Head(todo[Main]) = todo[Main][1] /\ 1 \in 1..Len(todo[Main])
          BY <4>1, HeadTailProperties, EmptySeq, LenProperties
        <4>3. MainHas
          BY <4>1, <4>2 DEF MainHas
        <4>4. toApp = <<>>
          BY <4>3 DEF TurnInv, Exclusion, ToAppHas
        <4> QED BY <3>1, <4>4 DEF SendProcessed, SendPacket
      <3>2. CASE ~SendProcessed
        BY <1>7, <3>2 DEF MainStep, CanRead, CanReadEof, SetStatus, QueueNotify
      <3> QED BY <3>1, <3>2
    <2>2. \A x \in Buttons \cup {Ticker} : InSocket(x)' <=> InSocket(x)
      BY <1>5, <2>1 DEF InSocket
    <2>3. \A x : InQueue(x)' <=> InQueue(x)
      BY <2>1 DEF InQueue
    <2>4. \A x \in Buttons : UnderWay(x)' <=> UnderWay(x)
      BY <1>4, <2>2, <2>3 DEF UnderWay
    <2>5. /\ ButtonQueued' <=> ButtonQueued
          /\ ButtonUnderWay' <=> ButtonUnderWay
      BY <2>3, <2>4 DEF ButtonQueued, ButtonUnderWay, Buttons
    <2>6. OneButton => OneButton'
      BY <1>4, <2>1, <2>2, <2>5 DEF OneButton, Buttons
    <2>7. Unseen(c)
      BY <1>2, <1>3, <1>4, <2>2, <2>4, <2>5, <2>6 DEF Unseen, Buttons
    <2> QED BY <2>7, UnseenStep
  <1> QED BY <1>6, <1>7

(* The daemon reports that the time is paused once nothing is under way.   *)
LEMMA DaemonStepExact ==
    ASSUME NEW c, Timed(c), TurnInv, StoppedInv, ShapeInv(c), PausedInv(c),
           ExactInv(c), DaemonStep, UNCHANGED <<held, frozen>>
    PROVE  PausedInv(c)' /\ ExactInv(c)'
  <1> USE ThreadsDistinct DEF Goto, linkVars, daemonVars, appVars
  <1>1. /\ c \in Clients /\ c \in Threads /\ c # Packet /\ c # Daemon
        /\ Packet \in Threads /\ Daemon \in Threads /\ Daemon # Packet
        /\ DOMAIN pc = Threads
    BY DEF Threads, TurnInv, TypeOK, Timed
  <1>2. /\ UNCHANGED <<queue, toApp, sending, paused, todo, closed>>
        /\ tickRequested' = (tickRequested \/ pc[Daemon] = "addtick")
        /\ pc'[c] = pc[c] /\ PacketWoken
        /\ pc[Daemon] \notin {"asleep"}
    <2>1. CASE TickNotify(Daemon)
      <3>1. pc' = NotifyPacket([pc EXCEPT ![Daemon] = "check"])
        BY <2>1 DEF TickNotify
      <3>2. pc'[c] = pc[c] /\ PacketWoken
        BY <1>1, <3>1 DEF NotifyPacket, PacketWoken
      <3> QED BY <2>1, <3>2 DEF TickNotify, TurnInv, TypeOK
    <2>2. CASE AddTick(Daemon) \/ WaitReadTick(Daemon) \/ WaitReadQueue(Daemon)
      BY <1>1, <2>2 DEF AddTick, WaitReadTick, WaitReadQueue, PacketWoken, TurnInv, TypeOK
    <2>3. CASE WaitReadStatus(Daemon)
      BY <1>1, <2>3 DEF WaitReadStatus, PacketWoken, TurnInv, TypeOK
    <2>4. CASE DaemonCheck \/ DaemonPark \/ DaemonRest \/ DaemonUnpark
      BY <1>1, <2>4 DEF DaemonCheck, DaemonPark, DaemonRest, DaemonUnpark, PacketWoken,
                        TurnInv, TypeOK
    <2> QED BY <2>1, <2>2, <2>3, <2>4 DEF DaemonStep, TickStep
  <1>3. /\ \A x : InHand(x)' <=> InHand(x)
        /\ \A x : InSocket(x)' <=> InSocket(x)
        /\ \A x : InQueue(x)' <=> InQueue(x)
        /\ Sent' <=> Sent
    BY <1>2 DEF InHand, InSocket, InQueue, Sent, PacketWoken
  <1>4. \A x : UnderWay(x)' <=> UnderWay(x)
    BY <1>3 DEF UnderWay
  <1>5. /\ ButtonQueued' <=> ButtonQueued
        /\ ButtonUnderWay' <=> ButtonUnderWay
    BY <1>3, <1>4 DEF ButtonQueued, ButtonUnderWay
  <1>6. OneButton => OneButton'
    BY <1>2, <1>3, <1>5 DEF OneButton
  <1>7. parked => pc[Daemon] \in {"rest", "asleep"}
    BY DEF StoppedInv, TimeInv, Resting
  <1>8. CASE DaemonPark
    <2>1. /\ parked' /\ pc[Daemon] = "park" /\ pc'[Daemon] = "rest" /\ ~parked
          /\ tickRequested' = tickRequested
      BY <1>1, <1>2, <1>7, <1>8 DEF DaemonPark
    <2>2. /\ paused /\ ~tickRequested /\ ~ButtonQueued /\ ~ButtonUnderWay
          /\ ~InSocket(Ticker) /\ pc[c] = "pausing" /\ ~Sent
      BY <2>1 DEF PausedInv
    <2>3. todo[c] # <<>> /\ Head(todo[c]) = "pause" /\ Shape(todo[c])
      BY <1>1, <2>2 DEF ShapeInv, TurnInv, StepInv
    <2>4. "pause" \notin Buttons \cup {"wait", "single-step"}
      BY EventsAssumption DEF Buttons
    <2>5. todo[c] \in Seq(PlainSteps)
      BY <2>3, <2>4, ShapeFacts
    <2>6. PausedInv(c)'
      BY <1>2, <1>3, <1>5, <2>1, <2>2 DEF PausedInv, Resting
    <2>7. ~UnderWay(Press)' /\ ~UnderWay(Release)' /\ ~InSocket(Release)'
      BY <1>3, <1>4, <2>2 DEF ButtonUnderWay, UnderWay
    <2>8. OneButton'
      <3>1. OneIn(queue)
        BY <2>2 DEF ButtonQueued, InQueue, Contains, OneIn, Buttons
      <3> QED BY <1>2, <1>5, <2>2, <3>1 DEF OneButton
    <2>9. TicksInv(c)'
      BY <1>2, <1>3, <1>5, <2>1, <2>2 DEF TicksInv, Asking
    <2>10. HeldInv(c)'
      <3>1. WaitTicks \in Nat
        BY InputsAssumption
      <3>2. \A k \in 0..WaitTicks : k \in Nat
        BY <3>1
      <3>3. \A k \in 0..WaitTicks : todo[c] # Holding(k)
        BY <2>5, <3>2, HoldingDiffers
      <3>4. todo[c] # Pressed /\ todo[c] # PressAndRelease
        BY <2>5, <3>1, HoldingDiffers
      <3> QED BY <1>2, <2>7, <3>3, <3>4 DEF HeldInv
    <2> QED BY <2>1, <2>6, <2>7, <2>8, <2>9, <2>10 DEF ExactInv
  <1>9. CASE DaemonRest
    <2>1. /\ parked' = parked /\ pc[Daemon] = "rest" /\ pc'[Daemon] = "asleep"
          /\ tickRequested' = tickRequested
      BY <1>1, <1>2, <1>9 DEF DaemonRest
    <2>2. PausedInv(c)'
      BY <1>2, <1>3, <1>5, <2>1 DEF PausedInv, Resting
    <2>3. Pending' <=> Pending
      BY <1>3, <2>1 DEF Pending
    <2>4. TicksInv(c) => TicksInv(c)'
      BY <1>2, <1>3, <1>5, <2>1 DEF TicksInv, Asking
    <2>5. HeldInv(c) => HeldInv(c)'
      BY <1>2, <1>4, <1>5, <2>1, <2>3 DEF HeldInv, Asking
    <2> QED BY <1>2, <1>3, <1>6, <2>1, <2>2, <2>4, <2>5 DEF ExactInv
  <1>10. CASE ~DaemonPark /\ ~DaemonRest
    <2>1. ~parked /\ ~parked'
      BY <1>7, <1>10 DEF DaemonStep, DaemonCheck, DaemonUnpark, TickStep, AddTick,
                         TickNotify, WaitReadTick, WaitReadQueue, WaitReadStatus
    <2>2. /\ pc'[Daemon] \notin Resting
          /\ pc'[Daemon] \in {"wtick", "event", "wqueue", "wstatus", "park"} => paused
          /\ pc'[Daemon] \in {"wqueue", "wstatus", "park"} => ~tickRequested'
          /\ pc'[Daemon] \in {"wstatus", "park"} => ~ButtonQueued
          /\ pc'[Daemon] = "park" => ~ButtonUnderWay /\ ~InSocket(Ticker)
      <3>1. CASE DaemonCheck
        BY <1>1, <3>1 DEF DaemonCheck, Resting
      <3>2. CASE DaemonUnpark
        BY <1>1, <3>2 DEF DaemonUnpark, Resting
      <3>3. CASE AddTick(Daemon)
        BY <1>1, <3>3 DEF AddTick, Resting
      <3>4. CASE TickNotify(Daemon)
        <4>1. pc'[Daemon] = "check"
          BY <1>1, <3>4 DEF TickNotify, NotifyPacket
        <4> QED BY <4>1 DEF Resting
      <3>5. CASE WaitReadTick(Daemon)
        BY <1>1, <1>2, <3>5 DEF WaitReadTick, PausedInv, Resting
      <3>6. CASE WaitReadQueue(Daemon)
        <4>1. queue = <<>> => ~ButtonQueued
          BY DEF ButtonQueued, InQueue, Contains
        <4> QED BY <1>1, <1>2, <3>6, <4>1 DEF WaitReadQueue, PausedInv, Resting
      <3>7. CASE WaitReadStatus(Daemon)
        <4>1. statusSet => toApp = <<>> /\ pc[Packet] # "send"
          BY DEF TurnInv, Exclusion, ToAppHas, PacketHas
        <4>2. \A x : <<x>> # <<>>
          OBVIOUS
        <4>3. statusSet => \A x : ~InHand(x) /\ ~InSocket(x)
          BY <4>1, <4>2 DEF InHand, InSocket
        <4>4. statusSet /\ ~ButtonQueued => ~ButtonUnderWay
          BY <4>3 DEF ButtonQueued, ButtonUnderWay, UnderWay
        <4>5. /\ pc[Daemon] = "wstatus" /\ tickRequested' = tickRequested
              /\ \/ pc'[Daemon] = "event"
                 \/ statusSet /\ pc'[Daemon] = "park"
          BY <1>1, <3>7 DEF WaitReadStatus
        <4> QED BY <4>3, <4>4, <4>5 DEF PausedInv, Resting
      <3> QED BY <1>10, <3>1, <3>2, <3>3, <3>4, <3>5, <3>6, <3>7 DEF DaemonStep, TickStep
    <2>3. Sent' => tickRequested'
      BY <1>2, <1>3 DEF PausedInv
    <2>4. PausedInv(c)'
      BY <1>2, <1>3, <1>5, <2>1, <2>2, <2>3 DEF PausedInv
    <2> QED BY <2>1, <2>4 DEF ExactInv
  <1> QED BY <1>8, <1>9, <1>10

(* The application receives what the socket carries.                       *)
LEMMA AppStepExact ==
    ASSUME NEW c, Timed(c), TurnInv, ShapeInv(c), PausedInv(c), ExactInv(c),
           AppStep, Observe
    PROVE  PausedInv(c)' /\ ExactInv(c)'
  <1> USE DEF linkVars, daemonVars
  <1>1. /\ UNCHANGED <<queue, tickRequested, paused, parked, pc, todo, sending>>
        /\ closed => closed'
    BY DEF AppStep, AppSend, AppStatus, AppReceive, AppExit
  <1>2. UNCHANGED frozen
    <2>1. \A d \in Clients : ~Queued(d, Press)
      BY <1>1 DEF Queued
    <2> QED BY <2>1 DEF Observe
  <1>3. /\ \A x : InHand(x)' <=> InHand(x)
        /\ \A x : InQueue(x)' <=> InQueue(x)
        /\ Sent' <=> Sent
        /\ Asking(c)' <=> Asking(c)
        /\ ButtonQueued' <=> ButtonQueued
    BY <1>1 DEF InHand, InQueue, Sent, Asking, ButtonQueued
  <1>4. CASE ~AppReceive
    <2>1. toApp' = toApp /\ ~(app = "waiting" /\ app' = "busy")
      BY <1>4 DEF AppStep, AppSend, AppStatus, AppExit
    <2>2. held' = held
      BY <2>1 DEF Observe, Received
    <2>3. \A x : InSocket(x)' <=> InSocket(x)
      BY <2>1 DEF InSocket
    <2>4. \A x : UnderWay(x)' <=> UnderWay(x)
      BY <1>3, <2>3 DEF UnderWay
    <2>5. ButtonUnderWay' <=> ButtonUnderWay
      BY <2>4 DEF ButtonUnderWay
    <2>6. OneButton => OneButton'
      BY <1>1, <1>3, <2>3 DEF OneButton
    <2>7. Unseen(c)
      BY <1>1, <1>2, <1>3, <2>2, <2>3, <2>4, <2>5, <2>6 DEF Unseen
    <2> QED BY <2>7, UnseenStep
  <1>5. CASE AppReceive
    <2> DEFINE x == Head(toApp)
    <2>1. /\ app = "waiting" /\ app' = "busy" /\ toApp # <<>> /\ toApp' = Tail(toApp)
          /\ closed' = closed
      BY <1>5 DEF AppReceive
    <2>2. toApp \in Seq(Tags) /\ Len(toApp) <= 1
      BY DEF TurnInv, TypeOK, Single
    <2>3. toApp = <<x>> /\ toApp' = <<>>
      <3>0. Len(toApp) \in Nat /\ Len(toApp) # 0
        BY <2>1, <2>2, EmptySeq, LenProperties
      <3>1. Len(toApp) = 1 /\ x \in Tags /\ x = toApp[1]
        <4>1. x \in Tags /\ x = toApp[1]
          BY <2>1, <2>2, HeadTailProperties
        <4>2. \A n \in Nat : n <= 1 /\ n # 0 => n = 1
          OBVIOUS
        <4>3. Len(toApp) = 1
          BY <2>2, <3>0, <4>2, Zenon
        <4> QED BY <4>1, <4>3
      <3>2. Tail(toApp) \in Seq(Tags) /\ Len(Tail(toApp)) = 0
        BY <2>1, <2>2, <3>1, HeadTailProperties
      <3>3. Tail(toApp) = <<>>
        BY <3>2, EmptySeq
      <3> HIDE DEF x
      <3>4. <<x>> \in Seq(Tags) /\ Len(<<x>>) = 1 /\ <<x>>[1] = x
        BY <3>1
      <3>5. \A i \in 1..Len(toApp) : toApp[i] = <<x>>[i]
        BY <3>1, <3>4
      <3>6. toApp = <<x>>
        BY <2>2, <3>1, <3>4, <3>5, SeqEqual
      <3> QED BY <2>1, <3>3, <3>6
    <2>4. \A t : Received(t) <=> x = t
      BY <2>1 DEF Received
    <2> HIDE DEF x
    <2>5. pc[Packet] # "send"
      BY <2>1 DEF TurnInv, Exclusion, ToAppHas, PacketHas
    <2>6. /\ \A y : InSocket(y) <=> y = x
          /\ \A y : ~InSocket(y)'
          /\ \A y : ~InHand(y) /\ ~InHand(y)'
      BY <1>3, <2>3, <2>5 DEF InSocket, InHand
    <2>7. \A y : UnderWay(y)' <=> InQueue(y)
      BY <1>3, <2>6 DEF UnderWay
    <2>8. /\ ButtonUnderWay' <=> ButtonQueued
          /\ ButtonQueued => ButtonUnderWay
      BY <2>7 DEF ButtonUnderWay, ButtonQueued, UnderWay
    <2>9. PausedInv(c)'
      BY <1>1, <1>3, <2>6, <2>8 DEF PausedInv
    <2>10. OneButton => OneButton'
      BY <1>1, <2>6 DEF OneButton
    <2>11. Press # Release /\ Press # Ticker /\ Release # Ticker /\ WaitTicks \in Nat
      BY EventsAssumption, InputsAssumption DEF Timed
    <2>12. /\ x = Press => held' = 0
           /\ x = Ticker => held' = IF held <= WaitTicks THEN held + 1 ELSE held
           /\ x # Press /\ x # Ticker => held' = held
           /\ held' \in Nat
      <3>1. held \in Nat
        BY DEF ExactInv
      <3> QED BY <2>4, <2>11, <3>1 DEF Observe
    <2>13. ASSUME OneButton, TicksInv(c), HeldInv(c)
           PROVE  TicksInv(c)' /\ HeldInv(c)'
      <3>1. CASE x \in Buttons
        <4>1. ~ButtonQueued /\ ButtonUnderWay
          BY <2>6, <2>13, <3>1 DEF OneButton, ButtonUnderWay, UnderWay, Buttons
        <4>2. ~ButtonUnderWay' /\ ~UnderWay(Press)' /\ ~UnderWay(Release)'
          BY <2>7, <2>8, <4>1 DEF ButtonQueued
        <4>3. TicksInv(c)'
          BY <1>1, <1>3, <2>6, <2>13, <4>2 DEF TicksInv
        <4>4. Asking(c) => Pending /\ Pending'
          BY <1>1, <1>3, <2>13, <4>1 DEF TicksInv, Pending
        <4>5. CASE x = Press
          <5>1. /\ UnderWay(Press)
                /\ \/ todo[c] = Holding(WaitTicks) \/ todo[c] = Pressed
                   \/ pc[c] = "qnotify" /\ todo[c] = PressAndRelease
            BY <2>6, <2>13, <4>5 DEF UnderWay, HeldInv
          <5>2. \A k \in 0..WaitTicks : k \in Nat
            BY <2>11
          <5>3. \A k \in 0..WaitTicks : todo[c] = Holding(k) => k = WaitTicks
            <6>1. ASSUME NEW k \in 0..WaitTicks, todo[c] = Holding(k)
                  PROVE  k = WaitTicks
              <7>1. todo[c] = Holding(WaitTicks)
                BY <5>1, <5>2, <6>1, HoldingDiffers
              <7>2. Holding(k) = Holding(WaitTicks)
                BY <6>1, <7>1
              <7> QED BY <2>11, <5>2, <7>2, HoldingDiffers
            <6> QED BY <6>1
          <5>4. held' = 0
            BY <2>12, <4>5
          <5>5. ASSUME NEW k \in 0..WaitTicks, todo'[c] = Holding(k)
                PROVE  held' = WaitTicks - k + (IF Asking(c)' /\ ~Pending' THEN 1 ELSE 0)
            <6>1. k = WaitTicks /\ ~(Asking(c)' /\ ~Pending')
              BY <1>1, <1>3, <4>4, <5>3, <5>5
            <6> QED BY <2>11, <5>4, <6>1
          <5> QED BY <4>2, <4>3, <5>4, <5>5 DEF HeldInv
        <4>6. CASE x = Release
          <5>1. /\ held = WaitTicks /\ held' = held
                /\ todo[c] \in Seq(PlainSteps) \/ (pc[c] = "qnotify" /\ todo[c] = Holding(0))
            BY <2>6, <2>11, <2>12, <2>13, <4>6 DEF UnderWay, HeldInv
          <5>2. \A k \in 0..WaitTicks : k \in Nat
            BY <2>11
          <5>3. ASSUME NEW k \in 0..WaitTicks, todo'[c] = Holding(k)
                PROVE  held' = WaitTicks - k + (IF Asking(c)' /\ ~Pending' THEN 1 ELSE 0)
            <6>1. todo[c] \notin Seq(PlainSteps)
              BY <1>1, <5>2, <5>3, HoldingDiffers
            <6>2. pc[c] = "qnotify" /\ Holding(k) = Holding(0)
              BY <1>1, <5>1, <5>3, <6>1
            <6>3. k = 0
              BY <5>2, <6>2, HoldingDiffers
            <6>4. ~Asking(c)'
              BY <1>3, <6>2 DEF Asking
            <6> QED BY <2>11, <5>1, <6>3, <6>4
          <5>4. todo[c] # Pressed /\ todo[c] # PressAndRelease
            <6>1. 0 \in Nat
              OBVIOUS
            <6> QED BY <5>1, <6>1, HoldingDiffers
          <5> QED BY <1>1, <4>2, <4>3, <5>3, <5>4 DEF HeldInv
        <4> QED BY <3>1, <4>5, <4>6 DEF Buttons
      <3>2. CASE x \notin Buttons
        <4>1. /\ UnderWay(Press)' <=> UnderWay(Press)
              /\ UnderWay(Release)' <=> UnderWay(Release)
          BY <2>6, <2>7, <3>2 DEF UnderWay, Buttons
        <4>2. ButtonUnderWay' <=> ButtonUnderWay
          BY <4>1 DEF ButtonUnderWay
        <4>3. TicksInv(c)'
          BY <1>1, <1>3, <2>6, <2>13, <4>2 DEF TicksInv
        <4>4. CASE x = Ticker
          <5>1. /\ Asking(c) /\ ~ButtonUnderWay /\ (tickRequested => Sent)
            BY <2>6, <2>13, <4>4 DEF TicksInv
          <5>2. Pending /\ ~Pending'
            BY <1>1, <1>3, <2>6, <4>4, <5>1 DEF Pending
          <5>3. pc[c] \in WaitPcs /\ pc[c] # "qnotify"
            BY <5>1 DEF Asking, WaitPcs
          <5>4. Head(todo[c]) = "single-step"
            BY <5>3 DEF ShapeInv
          <5>5. todo[c] # Pressed
            BY <5>4 DEF Pressed
          <5>6. ASSUME NEW k \in 0..WaitTicks, todo'[c] = Holding(k)
                PROVE  held' = WaitTicks - k + (IF Asking(c)' /\ ~Pending' THEN 1 ELSE 0)
            <6>1. held = WaitTicks - k + (IF Asking(c) /\ ~Pending THEN 1 ELSE 0)
              BY <1>1, <2>13, <5>1, <5>6 DEF HeldInv
            <6>2. held = WaitTicks - k /\ k \in Nat
              BY <2>11, <5>2, <6>1
            <6>3. held' = held + 1
              BY <2>11, <2>12, <4>4, <6>2
            <6> QED BY <1>3, <2>11, <5>1, <5>2, <6>2, <6>3
          <5>7. ~UnderWay(Release)' /\ ~UnderWay(Press)'
            BY <4>1, <5>1 DEF ButtonUnderWay
          <5> QED BY <1>1, <4>3, <5>3, <5>5, <5>6, <5>7 DEF HeldInv
        <4>5. CASE x # Ticker
          <5>1. held' = held /\ (Pending' <=> Pending)
            BY <1>1, <1>3, <2>6, <2>12, <3>2, <4>5 DEF Pending, Buttons
          <5>2. HeldInv(c)'
            BY <1>1, <1>3, <2>13, <4>1, <4>2, <5>1 DEF HeldInv
          <5> QED BY <4>3, <5>2
        <4> QED BY <4>4, <4>5
      <3> QED BY <3>1, <3>2
    <2> QED BY <1>1, <1>2, <2>1, <2>6, <2>9, <2>10, <2>12, <2>13 DEF ExactInv
  <1> QED BY <1>4, <1>5

(* A client that neither queues an event nor asks for a tick keeps what is *)
(* under way.                                                              *)
LEMMA ClientFrame ==
    ASSUME UNCHANGED <<queue, toApp, sending>>, PacketWoken
    PROVE  /\ \A x : UnderWay(x)' <=> UnderWay(x)
           /\ \A x : InSocket(x)' <=> InSocket(x)
           /\ \A x : InHand(x)' <=> InHand(x)
           /\ Sent' <=> Sent
           /\ ButtonQueued' <=> ButtonQueued
           /\ ButtonUnderWay' <=> ButtonUnderWay
           /\ OneButton => OneButton'
  <1>1. /\ \A x : InSocket(x)' <=> InSocket(x)
        /\ \A x : InHand(x)' <=> InHand(x)
        /\ \A x : InQueue(x)' <=> InQueue(x)
        /\ Sent' <=> Sent
    BY DEF InSocket, InHand, InQueue, Sent, PacketWoken
  <1>2. \A x : UnderWay(x)' <=> UnderWay(x)
    BY <1>1 DEF UnderWay
  <1>3. /\ ButtonQueued' <=> ButtonQueued
        /\ ButtonUnderWay' <=> ButtonUnderWay
    BY <1>1, <1>2 DEF ButtonQueued, ButtonUnderWay
  <1>4. OneButton => OneButton'
    BY <1>1, <1>3 DEF OneButton
  <1> QED BY <1>1, <1>2, <1>3, <1>4

(* The client asks for a tick and waits for it.                            *)
LEMMA TickStepExact ==
    ASSUME NEW c, Timed(c), TurnInv, StoppedInv, ShapeInv(c), PausedInv(c),
           ExactInv(c), TickStep(c), UNCHANGED <<held, frozen>>
    PROVE  PausedInv(c)' /\ ExactInv(c)'
  <1> USE ThreadsDistinct DEF Goto, linkVars, daemonVars, appVars
  <1>1. /\ c \in Clients /\ c \in Threads /\ c # Packet /\ c # Daemon
        /\ Packet \in Threads /\ Daemon \in Threads /\ Daemon # Packet
        /\ DOMAIN pc = Threads /\ DOMAIN todo = Queuers /\ c \in Queuers
        /\ tickRequested \in BOOLEAN /\ WaitTicks \in Nat
    BY InputsAssumption DEF Threads, TurnInv, TypeOK, Timed, Queuers
  <1>2. /\ UNCHANGED <<queue, toApp, sending, paused, parked, closed>>
        /\ tickRequested' = (tickRequested \/ pc[c] = "addtick")
        /\ PacketWoken /\ pc'[Daemon] = pc[Daemon]
        /\ pc[c] \in WaitPcs
        /\ pc'[c] \notin {"qnotify", "pausing", "sleeping", "addtick"}
    <2>1. CASE TickNotify(c)
      <3>1. pc' = NotifyPacket([pc EXCEPT ![c] = "wtick"])
        BY <1>1, <2>1 DEF TickNotify
      <3>2. pc'[c] = "wtick" /\ pc'[Daemon] = pc[Daemon] /\ PacketWoken
        BY <1>1, <3>1 DEF NotifyPacket, PacketWoken
      <3> QED BY <1>1, <2>1, <3>2 DEF TickNotify, WaitPcs
    <2>2. CASE AddTick(c) \/ WaitReadTick(c) \/ WaitReadQueue(c)
      BY <1>1, <2>2 DEF AddTick, WaitReadTick, WaitReadQueue, PacketWoken, WaitPcs
    <2>3. CASE WaitReadStatus(c)
      BY <1>1, <2>3 DEF WaitReadStatus, PacketWoken, WaitPcs
    <2> QED BY <2>1, <2>2, <2>3 DEF TickStep
  <1>3. /\ \A x : UnderWay(x)' <=> UnderWay(x)
        /\ \A x : InSocket(x)' <=> InSocket(x)
        /\ \A x : InHand(x)' <=> InHand(x)
        /\ Sent' <=> Sent
        /\ ButtonQueued' <=> ButtonQueued
        /\ ButtonUnderWay' <=> ButtonUnderWay
        /\ OneButton => OneButton'
    BY <1>2, ClientFrame
  <1>4. pc[c] \notin {"qnotify", "pausing", "sleeping"} /\ Head(todo[c]) = "single-step"
    BY <1>2 DEF WaitPcs, ShapeInv
  <1>5. parked \/ ~paused
    BY <1>4 DEF PausedInv
  <1>6. PausedInv(c)'
    <2>1. pc[Daemon] \notin {"wtick", "event", "wqueue", "wstatus", "park"}
      BY <1>5 DEF PausedInv, StoppedInv, TimeInv, Resting
    <2> QED BY <1>2, <1>3, <1>5, <2>1 DEF PausedInv
  <1>7. ASSUME todo'[c] = todo[c], parked, ~closed, OneButton, TicksInv(c), HeldInv(c),
               pc'[c] # "step"
        PROVE  TicksInv(c)' /\ HeldInv(c)'
    <2>1. CASE AddTick(c)
      <3>1. /\ ~Asking(c) /\ Asking(c)' /\ tickRequested' /\ ~tickRequested
            /\ pc'[c] = "notify" /\ ~Sent /\ ~InSocket(Ticker)
        BY <1>1, <1>2, <1>7, <2>1 DEF AddTick, Asking, TicksInv, PausedInv
      <3>2. Pending'
        BY <1>3, <3>1 DEF Pending
      <3>3. TicksInv(c)'
        BY <1>3, <1>4, <1>7, <3>1 DEF TicksInv
      <3>4. HeldInv(c)'
        BY <1>3, <1>4, <1>7, <3>1, <3>2 DEF HeldInv
      <3> QED BY <3>3, <3>4
    <2>2. CASE ~AddTick(c)
      <3>1. /\ Asking(c) /\ Asking(c)' /\ tickRequested' = tickRequested
            /\ pc'[c] \in {"wqueue", "wstatus"} => ~tickRequested
        <4>1. CASE TickNotify(c)
          <5>1. pc'[c] = "wtick" /\ pc[c] = "notify"
            BY <1>1, <4>1 DEF TickNotify, NotifyPacket
          <5> QED BY <1>1, <1>2, <5>1 DEF Asking
        <4>2. CASE WaitReadTick(c)
          BY <1>1, <1>2, <4>2 DEF WaitReadTick, Asking
        <4>3. CASE WaitReadQueue(c)
          BY <1>1, <1>2, <1>7, <4>3 DEF WaitReadQueue, Asking, TicksInv
        <4>4. CASE WaitReadStatus(c)
          BY <1>1, <1>2, <1>7, <4>4 DEF WaitReadStatus, Asking
        <4> QED BY <2>2, <4>1, <4>2, <4>3, <4>4 DEF TickStep
      <3>2. Pending' <=> Pending
        BY <1>3, <3>1 DEF Pending
      <3>3. TicksInv(c)'
        BY <1>3, <1>4, <1>7, <3>1 DEF TicksInv
      <3>4. HeldInv(c)'
        BY <1>2, <1>3, <1>4, <1>7, <3>1, <3>2 DEF HeldInv
      <3> QED BY <3>3, <3>4
    <2> QED BY <2>1, <2>2
  <1>8. ASSUME parked, ~closed, OneButton, TicksInv(c), HeldInv(c), pc'[c] = "step"
        PROVE  TicksInv(c)' /\ HeldInv(c)'
    <2>1. /\ statusSet /\ pc[c] = "wstatus" /\ tickRequested' = tickRequested
          /\ todo'[c] = Tail(todo[c])
      <3>1. CASE TickNotify(c)
        BY <1>1, <1>8, <3>1 DEF TickNotify, NotifyPacket
      <3>2. CASE AddTick(c) \/ WaitReadTick(c) \/ WaitReadQueue(c)
        BY <1>1, <1>8, <3>2 DEF AddTick, WaitReadTick, WaitReadQueue
      <3>3. CASE WaitReadStatus(c)
        BY <1>1, <1>8, <3>3 DEF WaitReadStatus
      <3> QED BY <3>1, <3>2, <3>3 DEF TickStep
    <2>2. toApp = <<>>
      BY <2>1 DEF TurnInv, Exclusion, ToAppHas
    <2>3. /\ ~tickRequested /\ Asking(c) /\ ~Asking(c)' /\ ~ButtonUnderWay
          /\ ~InSocket(Ticker) /\ ~Pending
      <3>1. ~InSocket(Ticker)
        BY <2>2 DEF InSocket
      <3>2. ~tickRequested /\ Asking(c) /\ ~Asking(c)'
        BY <1>8, <2>1 DEF Asking, TicksInv
      <3>3. ~ButtonUnderWay
        BY <1>8, <3>2 DEF TicksInv
      <3> QED BY <3>1, <3>2, <3>3 DEF Pending
    <2>4. TicksInv(c)'
      BY <1>3, <1>8, <2>1, <2>3 DEF TicksInv
    <2>5. todo[c] # <<>> /\ Shape(todo[c])
      BY <1>1, <2>1 DEF TurnInv, StepInv, ShapeInv
    <2>6. ~UnderWay(Press)' /\ ~UnderWay(Release)'
      BY <1>3, <2>3 DEF ButtonUnderWay
    <2>7. CASE todo[c] \in Seq(PlainSteps)
      <3>1. todo'[c] \in Seq(PlainSteps)
        BY <2>1, <2>5, <2>7, ShapeFacts
      <3>2. \A k \in 0..WaitTicks : k \in Nat
        BY <1>1
      <3>3. /\ \A k \in 0..WaitTicks : todo'[c] # Holding(k)
            /\ todo'[c] # Pressed /\ todo'[c] # PressAndRelease
        BY <1>1, <3>1, <3>2, HoldingDiffers
      <3> QED BY <2>4, <2>6, <3>3 DEF HeldInv
    <2>8. CASE todo[c] \notin Seq(PlainSteps)
      <3>1. PICK k \in 1..WaitTicks : todo[c] = Holding(k) /\ Tail(todo[c]) = Holding(k - 1)
        BY <1>4, <2>5, <2>8, ShapeFacts
      <3>2. k \in 0..WaitTicks /\ k \in Nat /\ k - 1 \in Nat
        BY <1>1
      <3>3. held = WaitTicks - k + 1
        BY <1>8, <2>3, <3>1, <3>2 DEF HeldInv
      <3>4. todo'[c] # Pressed /\ todo'[c] # PressAndRelease
        BY <2>1, <3>1, <3>2, HoldingDiffers
      <3>5. ASSUME NEW j \in 0..WaitTicks, todo'[c] = Holding(j)
            PROVE  held' = WaitTicks - j + (IF Asking(c)' /\ ~Pending' THEN 1 ELSE 0)
        <4>1. j \in Nat
          BY <1>1
        <4>2. Holding(j) = Holding(k - 1)
          BY <2>1, <3>1, <3>5
        <4>3. j = k - 1
          BY <3>2, <4>1, <4>2, HoldingDiffers
        <4> QED BY <1>1, <2>3, <3>2, <3>3, <4>3
      <3> QED BY <2>4, <2>6, <3>4, <3>5 DEF HeldInv
    <2> QED BY <2>7, <2>8
  <1>9. pc'[c] # "step" => todo'[c] = todo[c]
    BY <1>1 DEF TickStep, AddTick, TickNotify, WaitReadTick, WaitReadQueue, WaitReadStatus
  <1> QED BY <1>2, <1>3, <1>6, <1>7, <1>8, <1>9 DEF ExactInv

LEMMA ClientStepExact ==
    ASSUME NEW c, Timed(c), TurnInv, StoppedInv, ShapeInv(c), PausedInv(c),
           ExactInv(c), Request(c) \/ ClientStep(c), Observe
    PROVE  PausedInv(c)' /\ ExactInv(c)'
  <1> USE ThreadsDistinct DEF Goto, StepIs, linkVars, daemonVars, appVars
  <1>1. /\ c \in Clients /\ c \in Threads /\ c # Packet /\ c # Daemon /\ c # Main
        /\ Packet \in Threads /\ Daemon \in Threads /\ Daemon # Packet
        /\ DOMAIN pc = Threads /\ DOMAIN todo = Queuers /\ c \in Queuers
        /\ tickRequested \in BOOLEAN /\ WaitTicks \in Nat
        /\ queue \in Seq(Events) /\ Clients = {c} /\ Press # Release
        /\ WaitTicks > 0
        /\ \A k \in 0..WaitTicks : k \in Nat
    <2>1. WaitTicks \in Nat
      BY InputsAssumption
    <2>2. \A k \in 0..WaitTicks : k \in Nat
      BY <2>1
    <2>3. /\ c \in Clients /\ Clients = {c} /\ Press # Release /\ WaitTicks > 0
      BY DEF Timed
    <2> QED BY <2>1, <2>2, <2>3 DEF Threads, TurnInv, TypeOK, Queuers
  <1>2. Quiet /\ held' = held
    <2>1. Quiet
      BY <1>1, ClientStepQuiet DEF TurnInv
    <2>2. app' = app
      BY <2>1 DEF Quiet
    <2> QED BY <2>1, <2>2 DEF Observe, Received
  <1>3. UNCHANGED <<toApp, closed>> /\ PacketWoken
    BY <1>2 DEF Quiet
  <1>4. pc[c] # "step" \/ pc'[c] # "qnotify" \/ Head(todo[c]) # Press => frozen' = frozen
    BY <1>1 DEF Observe, Queued
  <1>5. Shape(todo[c])
    BY DEF ShapeInv
  <1>6. ASSUME NEW s, s \in Seq(PlainSteps)
        PROVE  /\ \A k \in 0..WaitTicks : s # Holding(k)
               /\ s # Pressed /\ s # PressAndRelease
    BY <1>1, <1>6, HoldingDiffers
  (* Steps between two places where no tick is asked for.                  *)
  <1>7. ASSUME UNCHANGED <<queue, sending, tickRequested, parked, frozen>>,
               pc'[Daemon] = pc[Daemon],
               paused' => paused \/ pc'[c] = "pausing", paused => paused',
               paused /\ ~parked => pc'[c] = "pausing",
               paused' => pc'[c] # "sleeping",
               ~Asking(c), ~Asking(c)',
               parked /\ ~closed =>
                 /\ ButtonUnderWay =>
                      todo'[c] # <<>> /\ Head(todo'[c]) \in {"wait", "single-step"}
                 /\ HeldInv(c)'
        PROVE  PausedInv(c)' /\ ExactInv(c)'
    <2>1. /\ \A x : UnderWay(x)' <=> UnderWay(x)
          /\ \A x : InSocket(x)' <=> InSocket(x)
          /\ \A x : InHand(x)' <=> InHand(x)
          /\ Sent' <=> Sent
          /\ ButtonQueued' <=> ButtonQueued
          /\ ButtonUnderWay' <=> ButtonUnderWay
          /\ OneButton => OneButton'
      BY <1>3, <1>7, ClientFrame
    <2>2. PausedInv(c)'
      BY <1>7, <2>1 DEF PausedInv
    <2>3. parked /\ ~closed /\ TicksInv(c) => TicksInv(c)'
      BY <1>7, <2>1 DEF TicksInv, Asking
    <2> QED BY <1>2, <1>3, <1>7, <2>1, <2>2, <2>3 DEF ExactInv
  <1>8. CASE Request(c)
    <2>1. PICK r \in Requests : todo' = [todo EXCEPT ![c] = r]
      BY <1>8 DEF Request
    <2>2. /\ UNCHANGED <<queue, sending, tickRequested, parked, paused, pc>>
          /\ pc[c] = "step" /\ todo[c] = <<>> /\ todo'[c] = r
      BY <1>1, <1>8, <2>1 DEF Request
    <2>3. parked /\ ~closed => ~ButtonUnderWay
      BY <2>2 DEF ExactInv, TicksInv
    <2>4. r \in Seq(PlainSteps) \/ r = PressAndRelease
      BY DEF Timed
    <2>5. /\ \A k \in 0..WaitTicks : r # Holding(k)
          /\ r # Pressed
      BY <1>1, <1>6, <2>4, HoldingDiffers
    <2>6. ASSUME ~ButtonUnderWay PROVE HeldInv(c)'
      <3>1. ~UnderWay(Press)' /\ ~UnderWay(Release)'
        BY <1>3, <2>2, <2>6, ClientFrame DEF ButtonUnderWay
      <3> QED BY <2>2, <2>5, <3>1 DEF HeldInv
    <2>7. ~Asking(c) /\ ~Asking(c)'
      BY <2>2 DEF Asking
    <2>8. paused => parked /\ pc[c] # "sleeping"
      BY <2>2 DEF PausedInv
    <2>9. frozen' = frozen
      BY <1>4, <2>2
    <2> QED BY <1>7, <2>2, <2>3, <2>6, <2>7, <2>8, <2>9
  <1>9. ASSUME todo'[c] \in Seq(PlainSteps), ~ButtonUnderWay,
               UNCHANGED <<queue, sending>>
        PROVE  HeldInv(c)'
    <2>1. ~UnderWay(Press)' /\ ~UnderWay(Release)'
      BY <1>3, <1>9, ClientFrame DEF ButtonUnderWay
    <2> QED BY <1>6, <1>9, <2>1 DEF HeldInv
  <1>10. CASE TickStep(c)
    <2>1. pc[c] # "step" \/ pc'[c] # "qnotify"
      BY <1>1, <1>10 DEF TickStep, AddTick, TickNotify, WaitReadTick, WaitReadQueue,
                        WaitReadStatus
    <2> QED BY <1>2, <1>4, <1>10, <2>1, TickStepExact
  <1>11. CASE Pause(c)
    <2>1. /\ UNCHANGED <<queue, sending, tickRequested, parked, todo>> /\ paused'
          /\ pc[c] = "step" /\ pc'[c] = "pausing" /\ pc'[Daemon] = pc[Daemon]
          /\ todo[c] # <<>> /\ Head(todo[c]) = "pause"
      BY <1>1, <1>11 DEF Pause
    <2>2. Head(todo[c]) \notin Buttons \cup {"wait", "single-step"}
      BY <2>1, EventsAssumption DEF Buttons
    <2>3. todo'[c] \in Seq(PlainSteps)
      BY <1>5, <2>1, <2>2, ShapeFacts
    <2>4. parked /\ ~closed => ~ButtonUnderWay
      BY <2>1, <2>2 DEF ExactInv, TicksInv
    <2>5. ~Asking(c) /\ ~Asking(c)' /\ frozen' = frozen
      BY <1>4, <2>1 DEF Asking
    <2> QED BY <1>7, <1>9, <2>1, <2>3, <2>4, <2>5
  <1>12. CASE PauseReturn(c)
    <2>1. /\ UNCHANGED <<queue, sending, tickRequested, parked, paused>> /\ parked
          /\ pc[c] = "pausing" /\ pc'[c] = "step" /\ pc'[Daemon] = pc[Daemon]
          /\ todo[c] # <<>> /\ todo'[c] = Tail(todo[c]) /\ Head(todo[c]) = "pause"
      BY <1>1, <1>12 DEF PauseReturn, TurnInv, StepInv, ShapeInv
    <2>2. Head(todo[c]) \notin Buttons \cup {"wait", "single-step"}
      BY <2>1, EventsAssumption DEF Buttons
    <2>3. todo'[c] \in Seq(PlainSteps)
      BY <1>5, <2>1, <2>2, ShapeFacts
    <2>4. parked /\ ~closed => ~ButtonUnderWay
      BY <2>1, <2>2 DEF ExactInv, TicksInv
    <2>5. ~Asking(c) /\ ~Asking(c)' /\ frozen' = frozen
      BY <1>4, <2>1 DEF Asking
    <2> QED BY <1>7, <1>9, <2>1, <2>3, <2>4, <2>5
  <1>13. CASE Resume(c) \/ ResumeNotify(c)
    <2>1. pc[c] # "rnotify"
      BY <1>1 DEF StoppedInv, ClientsInv
    <2>2. todo[c] # <<>> => Head(todo[c]) # "resume"
      BY <1>5, ShapeFacts
    <2> QED BY <1>13, <2>1, <2>2 DEF Resume, ResumeNotify
  <1>14. CASE SingleStep(c)
    <2>1. /\ UNCHANGED <<queue, sending, tickRequested, parked, paused, todo>>
          /\ pc[c] = "step" /\ pc'[c] = "addtick" /\ pc'[Daemon] = pc[Daemon]
          /\ todo[c] # <<>> /\ Head(todo[c]) = "single-step"
      BY <1>1, <1>14 DEF SingleStep
    <2>2. ~Asking(c) /\ ~Asking(c)' /\ frozen' = frozen
      BY <1>4, <2>1 DEF Asking
    <2>3. paused => parked
      BY <2>1 DEF PausedInv
    <2>4. HeldInv(c) => HeldInv(c)'
      <3>1. /\ \A x : UnderWay(x)' <=> UnderWay(x)
            /\ ButtonUnderWay' <=> ButtonUnderWay
        BY <1>3, <2>1, ClientFrame
      <3> QED BY <1>2, <2>1, <2>2, <3>1 DEF HeldInv
    <2> QED BY <1>7, <2>1, <2>2, <2>3, <2>4 DEF ExactInv
  <1>15. CASE WaitElapsed(c)
    <2>1. /\ UNCHANGED <<queue, sending, tickRequested, parked, paused>>
          /\ pc[c] = "sleeping" /\ pc'[c] = "step" /\ pc'[Daemon] = pc[Daemon]
      BY <1>1, <1>15 DEF WaitElapsed
    <2>2. ~paused /\ ~parked
      BY <2>1 DEF PausedInv
    <2>3. ~Asking(c) /\ ~Asking(c)' /\ frozen' = frozen
      BY <1>4, <2>1 DEF Asking
    <2> QED BY <1>7, <2>1, <2>2, <2>3
  <1>16. CASE HandleWait(c) /\ ~paused
    <2>1. /\ UNCHANGED <<queue, sending, tickRequested, parked, paused>>
          /\ pc[c] = "step" /\ pc'[c] = "sleeping" /\ pc'[Daemon] = pc[Daemon]
      BY <1>1, <1>16 DEF HandleWait
    <2>2. ~parked
      BY <1>16 DEF PausedInv
    <2>3. ~Asking(c) /\ ~Asking(c)' /\ frozen' = frozen
      BY <1>4, <2>1 DEF Asking
    <2> QED BY <1>7, <1>16, <2>1, <2>2, <2>3
  <1>17. CASE HandleWait(c) /\ paused
    <2> DEFINE r == [i \in 1..WaitTicks |-> "single-step"] \o Tail(todo[c])
    <2>1. /\ UNCHANGED <<queue, sending, tickRequested, parked, paused>>
          /\ pc[c] = "step" /\ pc' = pc /\ todo[c] # <<>> /\ Head(todo[c]) = "wait"
          /\ todo' = [todo EXCEPT ![c] = r]
      BY <1>17 DEF HandleWait
    <2>2. /\ r # <<>> /\ Head(r) = "single-step"
          /\ todo[c] \in Seq(PlainSteps) => r \in Seq(PlainSteps)
          /\ todo[c] = Pressed => r = Holding(WaitTicks)
      BY <1>5, <2>1, SplitWait
    <2> HIDE DEF r
    <2>3. todo'[c] = r
      BY <1>1, <2>1
    <2>4. todo[c] \in Seq(PlainSteps) \/ todo[c] = Pressed
      BY <1>5, <2>1, ShapeFacts
    <2>5. parked
      BY <1>17, <2>1 DEF PausedInv
    <2>6. ~Asking(c) /\ ~Asking(c)' /\ frozen' = frozen
      BY <1>4, <2>1 DEF Asking
    <2>7. ASSUME HeldInv(c) PROVE HeldInv(c)'
      <3>1. /\ \A x : UnderWay(x)' <=> UnderWay(x)
            /\ ButtonUnderWay' <=> ButtonUnderWay
        BY <1>3, <2>1, ClientFrame
      <3>2. CASE todo[c] \in Seq(PlainSteps)
        <4>1. ~UnderWay(Press)
          BY <1>1, <1>6, <2>1, <2>7, <3>2 DEF HeldInv
        <4>2. r \in Seq(PlainSteps)
          BY <2>2, <3>2
        <4>3. UnderWay(Release)' => held' = WaitTicks
          BY <1>2, <2>7, <3>1 DEF HeldInv
        <4> QED BY <1>6, <2>3, <3>1, <4>1, <4>2, <4>3 DEF HeldInv
      <3>3. CASE todo[c] = Pressed
        <4>1. r = Holding(WaitTicks)
          BY <2>2, <3>3
        <4>2. ~UnderWay(Release)
          <5>1. todo[c] \notin Seq(PlainSteps) /\ pc[c] # "qnotify"
            BY <1>1, <2>1, <3>3, HoldingDiffers
          <5> QED BY <2>7, <5>1 DEF HeldInv
        <4>3. r # Pressed /\ r # PressAndRelease
          BY <1>1, <4>1, HoldingDiffers
        <4>4. ~UnderWay(Press) => held' = 0
          BY <1>2, <2>7, <3>3 DEF HeldInv
        <4>5. ASSUME NEW k \in 0..WaitTicks, r = Holding(k), ~ButtonUnderWay
              PROVE  held' = WaitTicks - k + 0
          <5>1. k = WaitTicks
            BY <1>1, <4>1, <4>5, HoldingDiffers
          <5>2. held' = 0
            BY <4>4, <4>5 DEF ButtonUnderWay
          <5> QED BY <1>1, <5>1, <5>2
        <4> QED BY <2>3, <2>6, <3>1, <4>1, <4>2, <4>3, <4>4, <4>5 DEF HeldInv
      <3> QED BY <2>4, <3>2, <3>3
    <2> QED BY <1>7, <1>17, <2>1, <2>2, <2>3, <2>5, <2>6, <2>7 DEF ExactInv
  <1>18. CASE QueueNotify(c)
    <2>1. /\ UNCHANGED <<queue, sending, tickRequested, parked, paused>>
          /\ pc[c] = "qnotify" /\ todo[c] # <<>> /\ todo'[c] = Tail(todo[c])
          /\ Head(todo[c]) \in Events
      BY <1>1, <1>18 DEF QueueNotify, TurnInv, StepInv, ShapeInv
    <2>2. pc'[c] = "step" /\ pc'[Daemon] = pc[Daemon]
      <3>1. pc' = NotifyPacket([pc EXCEPT ![c] = "step"])
        BY <1>1, <1>18 DEF QueueNotify
      <3> QED BY <1>1, <3>1 DEF NotifyPacket
    <2>3. ~Asking(c) /\ ~Asking(c)' /\ frozen' = frozen
      BY <1>4, <2>1, <2>2 DEF Asking
    <2>4. paused => parked
      BY <2>1 DEF PausedInv
    <2>5. /\ \A x : UnderWay(x)' <=> UnderWay(x)
          /\ ButtonUnderWay' <=> ButtonUnderWay
      BY <1>3, <2>1, ClientFrame
    <2> SUFFICES ASSUME parked, ~closed, TicksInv(c), HeldInv(c)
                 PROVE  /\ ButtonUnderWay => /\ todo'[c] # <<>>
                                             /\ Head(todo'[c]) \in {"wait", "single-step"}
                        /\ HeldInv(c)'
      BY <1>7, <2>1, <2>2, <2>3, <2>4 DEF ExactInv
    <2>6. CASE Head(todo[c]) = Press
      <3>1. todo[c] = PressAndRelease /\ todo'[c] = Pressed
        BY <1>5, <2>1, <2>6, ShapeFacts
      <3>2. /\ Pressed # <<>> /\ Head(Pressed) = "wait"
        BY DEF Pressed
      <3>3. 0 \in Nat
        OBVIOUS
      <3>4. /\ todo[c] \notin Seq(PlainSteps) /\ todo[c] # Holding(0)
            /\ Pressed # PressAndRelease
            /\ \A k \in 0..WaitTicks : Pressed # Holding(k)
        BY <1>1, <3>1, <3>3, HoldingDiffers
      <3>5. ~UnderWay(Release)
        BY <3>4 DEF HeldInv
      <3>6. ~UnderWay(Press) => held' = 0
        BY <1>2, <2>1, <3>1 DEF HeldInv
      <3>7. HeldInv(c)'
        BY <2>5, <3>1, <3>4, <3>5, <3>6 DEF HeldInv
      <3> QED BY <3>1, <3>2, <3>7
    <2>7. CASE Head(todo[c]) = Release
      <3>1. 0 \in Nat /\ 0 # WaitTicks
        BY <1>1
      <3>2. todo[c] = Holding(0)
        BY <1>5, <2>1, <2>7, ShapeFacts
      <3>3. Tail(Holding(0)) = <<"wait">>
        BY <3>1, HoldingFacts
      <3>4. todo'[c] = <<"wait">>
        BY <2>1, <3>2, <3>3
      <3>5. todo'[c] # <<>> /\ Head(todo'[c]) = "wait"
        BY <3>4
      <3>6. todo'[c] \in Seq(PlainSteps)
        BY <1>5, <2>1, <2>7, ShapeFacts
      <3>7. ~UnderWay(Press)
        BY <1>1, <3>1, <3>2, HoldingDiffers DEF HeldInv
      <3>8. UnderWay(Release)' => held' = WaitTicks
        BY <1>2, <2>5 DEF HeldInv
      <3>9. HeldInv(c)'
        BY <1>6, <2>5, <3>6, <3>7, <3>8 DEF HeldInv
      <3> QED BY <3>5, <3>9
    <2>8. CASE Head(todo[c]) \notin Buttons
      <3>1. Head(todo[c]) \notin Buttons \cup {"wait", "single-step"}
        BY <2>1, <2>8, EventsAssumption
      <3>2. ~ButtonUnderWay
        BY <3>1 DEF TicksInv
      <3>3. todo'[c] \in Seq(PlainSteps)
        BY <1>5, <2>1, <3>1, ShapeFacts
      <3> QED BY <1>9, <2>1, <3>2, <3>3
    <2> QED BY <2>6, <2>7, <2>8 DEF Buttons
  <1>19. CASE QueuePacket(c)
    <2> DEFINE e == Head(todo[c])
    <2>1. /\ UNCHANGED <<sending, tickRequested, parked, paused, todo>>
          /\ queue' = Append(queue, e) /\ e \in Events
          /\ pc[c] = "step" /\ pc'[c] = "qnotify" /\ pc'[Daemon] = pc[Daemon]
          /\ pc'[Packet] = pc[Packet] /\ todo[c] # <<>>
      BY <1>1, <1>19 DEF QueuePacket
    <2>2. e \notin {"wait", "single-step"}
      BY <2>1, EventsAssumption
    <2>3. /\ \A x : InSocket(x)' <=> InSocket(x)
          /\ \A x : InHand(x)' <=> InHand(x)
          /\ Sent' <=> Sent
      BY <1>3, <2>1 DEF InSocket, InHand, Sent
    <2>4. /\ \A x : Contains(queue', x) <=> Contains(queue, x) \/ x = e
          /\ OneIn(queue) /\ e \notin Buttons => OneIn(queue')
          /\ (\A x \in Buttons : ~Contains(queue, x)) => OneIn(queue')
      BY <1>1, <2>1, AppendContents
    <2> HIDE DEF e
    <2>5. \A x : UnderWay(x)' <=> UnderWay(x) \/ x = e
      BY <2>3, <2>4 DEF UnderWay, InQueue
    <2>6. ~Asking(c) /\ ~Asking(c)'
      BY <2>1 DEF Asking
    <2>7. paused => parked
      BY <2>1 DEF PausedInv
    <2>8. PausedInv(c)'
      <3>1. pc[Daemon] \notin {"wtick", "event", "wqueue", "wstatus", "park"}
        BY <2>7 DEF PausedInv, StoppedInv, TimeInv, Resting
      <3> QED BY <2>1, <2>3, <2>7, <3>1 DEF PausedInv
    <2>9. frozen' => parked'
      BY <2>1 DEF Observe, PausedInv, Resting, ExactInv
    <2>10. ASSUME parked, ~closed, OneButton, TicksInv(c), HeldInv(c)
           PROVE  OneButton' /\ TicksInv(c)' /\ HeldInv(c)'
      <3>1. ~ButtonUnderWay
        BY <2>1, <2>2, <2>10 DEF TicksInv, e
      <3>2. /\ ~UnderWay(Press) /\ ~UnderWay(Release)
            /\ \A x \in Buttons : ~InQueue(x) /\ ~InHand(x) /\ ~InSocket(x)
        BY <3>1 DEF ButtonUnderWay, UnderWay, Buttons
      <3>3. OneButton'
        BY <2>3, <2>4, <3>2 DEF OneButton, InQueue, Buttons
      <3>4. ButtonUnderWay' => e \in Buttons
        BY <2>5, <3>2 DEF ButtonUnderWay, Buttons
      <3>5. /\ ~tickRequested' /\ ~InSocket(Ticker)' /\ ~InHand(Ticker)'
        BY <2>1, <2>3, <2>6, <2>10 DEF TicksInv, InHand, StoppedInv, TimeInv
      <3>6. TicksInv(c)'
        BY <2>1, <2>6, <3>4, <3>5 DEF TicksInv, e
      <3>7. UnderWay(Release)' => held' = WaitTicks /\ todo'[c] = Holding(0)
        <4> SUFFICES ASSUME e = Release
                     PROVE  held' = WaitTicks /\ todo'[c] = Holding(0)
          BY <2>5, <3>2
        <4>1. todo[c] = Holding(0)
          BY <1>5, <2>1, ShapeFacts DEF e
        <4>2. 0 \in 0..WaitTicks
          BY <1>1
        <4>3. held = WaitTicks - 0 + 0
          BY <2>6, <2>10, <3>1, <4>1, <4>2 DEF HeldInv
        <4> QED BY <1>1, <1>2, <2>1, <4>1, <4>3
      <3>8. e = Press => todo[c] = PressAndRelease
        BY <1>5, <2>1, ShapeFacts DEF e
      <3>9. /\ todo[c] # Pressed
            /\ todo[c] = PressAndRelease => e = Press
        BY <2>2 DEF e, Pressed, PressAndRelease
      <3>10. ASSUME NEW k \in 0..WaitTicks, todo[c] = Holding(k)
             PROVE  e = Release
        <4>1. e \in {"single-step", Release}
          BY <1>1, <3>10, HoldingFacts DEF e
        <4> QED BY <2>2, <4>1
      <3>11. \A k \in 0..WaitTicks : todo'[c] = Holding(k) => ButtonUnderWay'
        BY <2>1, <2>5, <3>10 DEF ButtonUnderWay
      <3>12. HeldInv(c)'
        BY <2>1, <2>5, <3>2, <3>7, <3>8, <3>9, <3>11 DEF HeldInv
      <3> QED BY <3>3, <3>6, <3>12
    <2>11. parked' /\ InSocket(Release)' => held' = WaitTicks
      BY <1>2, <2>1, <2>3 DEF ExactInv
    <2> QED BY <1>2, <1>3, <2>1, <2>8, <2>9, <2>10, <2>11 DEF ExactInv
  <1> QED BY <1>8, <1>10, <1>11, <1>12, <1>13, <1>14, <1>15, <1>16, <1>17, <1>18,
             <1>19 DEF ClientStep

(* Every step of the observed system keeps the invariant.                  *)
HoldInv(c) == TurnInv /\ StoppedInv /\ ShapeInv(c) /\ PausedInv(c) /\ ExactInv(c)

LEMMA TimedNoResume == ASSUME NEW c, Timed(c) PROVE NoResume
  <1> SUFFICES ASSUME NEW r \in Requests PROVE r \in Seq(ClientSteps \ {"resume"})
    BY DEF NoResume
  <1>1. CASE r \in Seq(PlainSteps)
    <2>1. PlainSteps \subseteq ClientSteps \ {"resume"}
      BY DEF PlainSteps
    <2> QED BY <1>1, <2>1
  <1>2. CASE r = PressAndRelease
    <2>1. {Press, Release, "wait"} \subseteq ClientSteps \ {"resume"}
      BY EventsAssumption DEF ClientSteps
    <2> QED BY <1>2, <2>1 DEF PressAndRelease
  <1> QED BY <1>1, <1>2 DEF Timed

LEMMA HoldInit == ASSUME NEW c, Timed(c), HInit PROVE HoldInv(c)
  <1>1. TurnInv
    BY InitInv DEF HInit
  <1>2. /\ pc[c] = "step" /\ todo[c] = <<>> /\ todo[Main] = <<>> /\ c \in Clients
        /\ pc[Packet] = "wait" /\ pc[Daemon] = "check"
        /\ queue = <<>> /\ toApp = <<>> /\ tickRequested = FALSE
        /\ paused = FALSE /\ parked = FALSE /\ held = 0 /\ frozen = FALSE
    BY ThreadsDistinct DEF HInit, Init, Threads, Queuers, Timed
  <1>3. StoppedInv
    <2>1. <<>> \in Seq(ClientSteps \ {"resume"})
      OBVIOUS
    <2>2. ClientsInv
      BY <1>2, <2>1, Zenon DEF ClientsInv, Timed
    <2>3. TimeInv
      BY <1>2 DEF TimeInv, TickRead, Resting
    <2> QED BY <2>2, <2>3 DEF StoppedInv
  <1>4. ShapeInv(c)
    <2>1. <<>> \in Seq(PlainSteps) /\ <<>> \in Seq(MainSteps \ Buttons)
      OBVIOUS
    <2> QED BY <1>2, <2>1 DEF ShapeInv, Shape, WaitPcs
  <1>5. PausedInv(c)
    BY <1>2 DEF PausedInv, Resting, Sent
  <1>6. ExactInv(c)
    BY <1>2 DEF ExactInv
  <1> QED BY <1>1, <1>3, <1>4, <1>5, <1>6 DEF HoldInv

LEMMA HoldStep ==
    ASSUME NEW c, Timed(c), HoldInv(c), [HNext]_allVars PROVE HoldInv(c)'
  <1> USE ThreadsDistinct DEF Goto, HoldInv
  <1>1. [Next]_vars
    BY DEF HNext, allVars
  <1>2. TurnInv'
    BY <1>1, TurnStep
  <1>3. StoppedInv'
    BY <1>1, TimedNoResume, NextStopped DEF TurnInv
  <1>4. /\ c \in Clients /\ Clients = {c} /\ c \in Threads /\ c # Packet /\ c # Daemon
        /\ c # Main
        /\ DOMAIN pc = Threads /\ TypeOK /\ StepInv /\ ClientsInv
    BY DEF Timed, Threads, TypeOK, TurnInv, StoppedInv
  <1>5. CASE UNCHANGED allVars
    <2>1. UNCHANGED <<queue, tickRequested, statusSet, paused, parked, pc, todo, sending,
                      toApp, closed, held, frozen>>
      BY <1>5 DEF allVars, vars, historyVars
    <2>2. /\ \A x : InSocket(x)' <=> InSocket(x)
          /\ \A x : InHand(x)' <=> InHand(x)
          /\ \A x : UnderWay(x)' <=> UnderWay(x)
          /\ Sent' <=> Sent
          /\ ButtonQueued' <=> ButtonQueued
          /\ ButtonUnderWay' <=> ButtonUnderWay
          /\ OneButton => OneButton'
      BY <2>1, ClientFrame DEF PacketWoken
    <2>3. Unseen(c)
      BY <2>1, <2>2 DEF Unseen
    <2>4. ShapeInv(c)'
      BY <2>1 DEF ShapeInv
    <2> QED BY <1>2, <1>3, <2>3, <2>4, UnseenStep
  <1>6. ASSUME pc'[c] = pc[c] \/ (pc[c] = "event" /\ pc'[c] = "wtick"),
               UNCHANGED app, Observe
        PROVE  UNCHANGED <<held, frozen>>
    BY <1>4, <1>6 DEF Observe, Received, Queued
  <1>7. ASSUME pc'[c] = pc[c], todo' = todo PROVE ShapeInv(c)'
    BY <1>7 DEF ShapeInv
  <1>8. CASE HNext /\ PacketStep
    <2>1. pc'[c] = pc[c] /\ todo' = todo /\ app' = app
      BY <1>4, <1>8 DEF PacketStep, WaitForWork, WaitForStatus, ClearStatus, PickPacket,
                SendPicked, CountTick, ClearTick, appVars
    <2>2. UNCHANGED <<held, frozen>>
      BY <1>6, <1>8, <2>1 DEF HNext
    <2> QED BY <1>2, <1>3, <1>7, <1>8, <2>1, <2>2, PacketStepExact
  <1>9. CASE HNext /\ DaemonStep
    <2>1. pc'[c] = pc[c] /\ todo' = todo /\ app' = app
      BY <1>4, <1>9
         DEF DaemonStep, DaemonCheck, DaemonPark, DaemonRest, DaemonUnpark, TickStep,
             AddTick, TickNotify, WaitReadTick, WaitReadQueue, WaitReadStatus,
             NotifyPacket, appVars
    <2>2. UNCHANGED <<held, frozen>>
      BY <1>6, <1>9, <2>1 DEF HNext
    <2> QED BY <1>2, <1>3, <1>7, <1>9, <2>1, <2>2, DaemonStepExact
  <1>10. CASE HNext /\ MainStep
    <2>1. pc'[c] = pc[c] \/ (pc[c] = "event" /\ pc'[c] = "wtick")
      BY <1>4, <1>10, MainMoves
    <2>2. app' = app
      BY <1>10 DEF MainStep, CanRead, CanReadEof, SetStatus, SendProcessed, QueuePacket,
                   QueueNotify, appVars
    <2>3. UNCHANGED <<held, frozen>>
      BY <1>6, <1>10, <2>1, <2>2 DEF HNext
    <2>4. ShapeInv(c)'
      BY <1>4, <1>10, MainShape
    <2> QED BY <1>2, <1>3, <1>10, <2>3, <2>4, MainStepExact
  <1>11. CASE HNext /\ AppStep
    <2>1. pc' = pc /\ todo' = todo
      BY <1>11 DEF AppStep, AppSend, AppStatus, AppReceive, AppExit
    <2> QED BY <1>2, <1>3, <1>7, <1>11, <2>1, AppStepExact DEF HNext
  <1>12. CASE HNext /\ (Request(c) \/ ClientStep(c))
    <2>1. ShapeInv(c)'
      BY <1>4, <1>12, ClientShape
    <2> QED BY <1>2, <1>3, <1>12, <2>1, ClientStepExact DEF HNext
  <1>13. CASE HNext /\ ProcessExit
    <2>1. UNCHANGED vars /\ Observe
      BY <1>13 DEF ProcessExit, HNext
    <2>2. UNCHANGED <<queue, tickRequested, statusSet, paused, parked, pc, todo, sending,
                      toApp, closed, app>>
      BY <2>1 DEF vars
    <2>3. UNCHANGED <<held, frozen>>
      BY <1>6, <2>1, <2>2
    <2>4. /\ \A x : InSocket(x)' <=> InSocket(x)
          /\ \A x : InHand(x)' <=> InHand(x)
          /\ \A x : UnderWay(x)' <=> UnderWay(x)
          /\ Sent' <=> Sent
          /\ ButtonQueued' <=> ButtonQueued
          /\ ButtonUnderWay' <=> ButtonUnderWay
          /\ OneButton => OneButton'
      BY <2>2, ClientFrame DEF PacketWoken
    <2>5. Unseen(c)
      BY <2>2, <2>3, <2>4 DEF Unseen
    <2> QED BY <1>2, <1>3, <1>7, <2>2, <2>5, UnseenStep
  <1> QED BY <1>4, <1>5, <1>8, <1>9, <1>10, <1>11, <1>12, <1>13 DEF HNext, Next

LEMMA OneElement ==
    ASSUME NEW V, NEW q \in Seq(V), q # <<>>, Len(q) <= 1
    PROVE  q = <<Head(q)>>
  <1>1. Len(q) \in Nat /\ Len(q) # 0 /\ Head(q) = q[1] /\ Head(q) \in V
    BY HeadTailProperties, EmptySeq, LenProperties
  <1>2. Len(q) = 1
    <2>1. \A n \in Nat : n # 0 /\ n <= 1 => n = 1
      OBVIOUS
    <2> QED BY <1>1, <2>1, Zenon
  <1>3. /\ <<Head(q)>> \in Seq(V) /\ Len(<<Head(q)>>) = 1
        /\ <<Head(q)>>[1] = Head(q)
    BY <1>1
  <1>4. \A i \in 1..Len(q) : q[i] = <<Head(q)>>[i]
    BY <1>1, <1>2, <1>3
  <1> QED BY <1>2, <1>3, <1>4, SeqEqual

(* A button that one client presses and releases while the daemon sleeps   *)
(* is held, as the application sees it, for exactly the ticks of its       *)
(* delay, for every delay, every queue and every other event that the      *)
(* automation rules and the transport queue in between (handle_button,     *)
(* handle_wait, SocketHelper.run).  With a second client it is false: two  *)
(* clients that ask for a tick at the same time share one.                 *)
THEOREM HoldsAreExact == \A c : Timed(c) => (HSpec => HoldExact)
  <1> SUFFICES ASSUME NEW c, Timed(c) PROVE HSpec => HoldExact
    OBVIOUS
  <1>1. HInit => HoldInv(c)
    BY HoldInit
  <1>2. HoldInv(c) /\ [HNext]_allVars => HoldInv(c)'
    BY HoldStep
  <1>3. HoldInv(c) /\ [HNext]_allVars =>
          [Received(Release) /\ frozen => held = WaitTicks]_allVars
    <2> SUFFICES ASSUME HoldInv(c), [HNext]_allVars, Received(Release), frozen
                 PROVE  held = WaitTicks
      OBVIOUS
    <2>1. toApp # <<>> /\ toApp \in Seq(Tags) /\ Len(toApp) <= 1
      <3>1. app # app'
        BY DEF Received
      <3>2. AppReceive
        BY <3>1 DEF HNext, allVars, vars, Received, Next, PacketStep, WaitForWork,
              WaitForStatus, ClearStatus, PickPacket, SendPicked, CountTick, ClearTick,
              MainStep, CanRead, CanReadEof, SetStatus, SendProcessed, QueuePacket,
              QueueNotify, AppStep, AppSend, AppExit, AppStatus, ProcessExit, DaemonStep,
              DaemonCheck, DaemonPark, DaemonRest, DaemonUnpark, TickStep, AddTick,
              TickNotify, WaitReadTick, WaitReadQueue, WaitReadStatus, Request, ClientStep,
              Pause, PauseReturn, Resume, ResumeNotify, SingleStep, HandleWait,
              WaitElapsed, appVars
      <3> QED BY <3>2 DEF AppReceive, HoldInv, TurnInv, TypeOK, Single
    <2>2. toApp = <<Head(toApp)>>
      BY <2>1, OneElement
    <2>3. toApp = <<Release>>
      BY <2>2 DEF Received
    <2> QED BY <2>3 DEF HoldInv, ExactInv, InSocket
  <1> QED BY <1>1, <1>2, <1>3, PTL DEF HSpec, HoldExact
=============================================================================
