-------------------------- MODULE ApduBridge_proof --------------------------
(***************************************************************************)
(* Proofs, for any set of clients and any number of requests, that no      *)
(* response is missed and that an undisturbed exchange yields its own.     *)
(***************************************************************************)
EXTENDS ApduBridge, SequenceTheorems, TLAPS

(* A request has a bridge of its own, created before exchange began.       *)
OwnBridge ==
    /\ \A c \in Clients : current[c] \in 0..bridges
    /\ \A c \in Clients : pc[c] # "idle" => current[c] # None
    /\ \A c, d \in Clients : c # d /\ current[c] # None => current[c] # current[d]

(* What is under way while a client has the application to itself: nothing *)
(* before its command is sent, and then only its command and response.     *)
Alone(c) ==
    /\ pc[c] = "send" => data = None /\ commands = <<>>
    /\ \A i \in 1..Len(commands) : commands[i] = current[c]
    /\ data \in {None, current[c]}
    /\ response[current[c]] \in {None, current[c]}

AloneInv ==
    \A c \in Clients : Exchanging(c) /\ current[c] \notin disturbed => Alone(c)

HeardInv == TypeOK /\ OwnBridge /\ Heard
BridgeInv == HeardInv /\ AloneInv /\ OwnUnlessDisturbed

-----------------------------------------------------------------------------
(* The elements of a sequence behind its head, and before a new one.       *)
LEMMA TailKeeps ==
    ASSUME NEW S, NEW s \in Seq(S), s # <<>>, NEW i \in DOMAIN s
    PROVE  \/ s[i] = Head(s)
           \/ \E j \in DOMAIN Tail(s) : Tail(s)[j] = s[i]
  <1>1. CASE i = 1
    BY <1>1
  <1>2. CASE i # 1
    <2>1. i - 1 \in DOMAIN Tail(s)
      BY <1>2
    <2>2. Tail(s)[i - 1] = s[i]
      BY <1>2
    <2> QED
      BY <2>1, <2>2
  <1> QED
    BY <1>1, <1>2

LEMMA AppendKeeps ==
    ASSUME NEW S, NEW s \in Seq(S), NEW e \in S
    PROVE  /\ \A i \in DOMAIN s : i \in DOMAIN Append(s, e) /\ Append(s, e)[i] = s[i]
           /\ \E i \in DOMAIN Append(s, e) : Append(s, e)[i] = e
  <1>1. Len(s) + 1 \in DOMAIN Append(s, e) /\ Append(s, e)[Len(s) + 1] = e
    OBVIOUS
  <1>2. \A i \in DOMAIN s : i \in DOMAIN Append(s, e) /\ Append(s, e)[i] = s[i]
    OBVIOUS
  <1> QED
    BY <1>1, <1>2

LEMMA InitBridge == Init => BridgeInv
  BY BridgeAssumption
     DEF Init, BridgeInv, HeardInv, TypeOK, OwnBridge, Heard, AloneInv,
         OwnUnlessDisturbed, Exchanging, Bridges, None

(* The steps keep the types: the callbacks that are called exist.          *)
LEMMA StepType == TypeOK /\ OwnBridge /\ Next => TypeOK'
  <1> SUFFICES ASSUME TypeOK, OwnBridge, Next PROVE TypeOK'
    OBVIOUS
  <1> USE BridgeAssumption DEF TypeOK, Bridges, None
  <1>1. CASE Receive
    <2>1. data' \in 0..MaxBridges /\ next' \in 1..(MaxBridges + 1)
      BY <1>1 DEF Receive
    <2>2. commands' \in Seq(1..MaxBridges)
      BY <1>1 DEF Receive
    <2>3. UNCHANGED <<bridges, current, pc, response, result, disturbed>>
      BY <1>1 DEF Receive
    <2> QED
      BY <2>1, <2>2, <2>3
  <1>2. CASE Callback
    BY <1>2 DEF Callback
  <1>3. CASE Done
    BY <1>3 DEF Done
  <1>4. ASSUME NEW c \in Clients, Post(c) PROVE TypeOK'
    BY <1>4 DEF Post, Goto
  <1>5. ASSUME NEW c \in Clients, Reset(c) PROVE TypeOK'
    <2>1. current[c] \in Bridges
      BY <1>5 DEF OwnBridge, Reset, Goto
    <2>2. disturbed' \subseteq Bridges
      BY <1>5, <2>1 DEF Reset
    <2>3. UNCHANGED <<bridges, current, commands, data, next, result>>
      BY <1>5 DEF Reset
    <2>4. pc' \in [Clients -> {"idle", "reset", "send", "check", "wait"}]
      BY <1>5 DEF Reset, Goto
    <2>5. response' \in [1..MaxBridges -> 0..MaxBridges]
      <3>1. response' = [response EXCEPT ![current[c]] = 0]
        BY <1>5 DEF Reset
      <3> QED
        BY <2>1, <3>1
    <2> QED
      BY <2>2, <2>3, <2>4, <2>5
  <1>6. ASSUME NEW c \in Clients, ToApp(c) PROVE TypeOK'
    <2>1. current[c] \in Bridges
      BY <1>6 DEF OwnBridge, ToApp, Goto
    <2>2. \A d \in Clients : Exchanging(d) => current[d] \in Bridges
      BY DEF OwnBridge, Exchanging
    <2>3. disturbed' \subseteq Bridges
      BY <1>6, <2>1, <2>2 DEF ToApp
    <2>4. commands' \in Seq(Bridges)
      BY <1>6, <2>1 DEF ToApp
    <2> QED
      BY <1>6, <2>3, <2>4 DEF ToApp, Goto
  <1>7. ASSUME NEW c \in Clients, Check(c) PROVE TypeOK'
    <2>1. current[c] \in Bridges
      BY <1>7 DEF OwnBridge, Check
    <2> QED
      BY <1>7, <2>1 DEF Check
  <1>8. ASSUME NEW c \in Clients, WaitEnds(c) \/ TimeOut(c) PROVE TypeOK'
    BY <1>8 DEF WaitEnds, TimeOut, Goto
  <1> QED
    BY <1>1, <1>2, <1>3, <1>4, <1>5, <1>6, <1>7, <1>8
       DEF Next, MainStep, ClientStep

(* The steps keep the bridges apart.                                       *)
LEMMA StepOwn == TypeOK /\ OwnBridge /\ Next => OwnBridge'
  <1> SUFFICES ASSUME TypeOK, OwnBridge, Next PROVE OwnBridge'
    OBVIOUS
  <1> USE BridgeAssumption DEF TypeOK, OwnBridge, None
  <1>1. CASE MainStep
    BY <1>1 DEF MainStep, Receive, Callback, Done
  <1>2. ASSUME NEW c \in Clients, Post(c) PROVE OwnBridge'
    BY <1>2 DEF Post, Goto
  <1>3. ASSUME NEW c \in Clients, ClientStep(c) \/ TimeOut(c) PROVE OwnBridge'
    <2>1. /\ UNCHANGED <<bridges, current>>
          /\ pc[c] # "idle"
          /\ \A d \in Clients \ {c} : pc'[d] = pc[d]
      BY <1>3 DEF ClientStep, Reset, ToApp, Check, WaitEnds, TimeOut, Goto
    <2> QED
      BY <2>1
  <1> QED
    BY <1>1, <1>2, <1>3 DEF Next

(* The steps of the main thread and of the clients keep every client that  *)
(* waits within reach of its response.                                     *)
LEMMA StepHeard == TypeOK /\ OwnBridge /\ Heard /\ Next => Heard'
  <1> SUFFICES ASSUME TypeOK, OwnBridge, Heard, Next,
                      NEW c \in Clients, pc'[c] \in {"check", "wait"}
               PROVE  \/ response'[current'[c]] # None
                      \/ \E i \in DOMAIN commands' : commands'[i] = current'[c]
                      \/ data' = current'[c] /\ next' <= current'[c]
    BY DEF Heard
  <1> USE BridgeAssumption DEF TypeOK, OwnBridge, Heard, None, Bridges
  <1>1. CASE Receive
    <2>1. /\ commands \in Seq(Bridges) /\ commands # <<>>
          /\ UNCHANGED <<current, pc, response>> /\ next' = 1
          /\ data' = Head(commands) /\ commands' = Tail(commands)
          /\ data = None
      BY <1>1 DEF Receive
    <2>2. 1 <= current[c]
      <3>1. pc[c] # "idle" /\ current[c] \in 0..bridges
        BY <2>1
      <3> QED
        BY <3>1
    <2>3. ASSUME NEW i \in DOMAIN commands, commands[i] = current[c]
          PROVE  \/ \E j \in DOMAIN commands' : commands'[j] = current'[c]
                 \/ data' = current'[c] /\ next' <= current'[c]
      <3>1. \/ commands[i] = Head(commands)
            \/ \E j \in DOMAIN Tail(commands) : Tail(commands)[j] = commands[i]
        BY ONLY <2>1, <2>3, TailKeeps
      <3> QED
        BY ONLY <2>2, <2>1, <2>3, <3>1
    <2> QED
      BY <2>1, <2>3
  <1>2. CASE Callback
    <2>1. /\ UNCHANGED <<current, pc, commands, data>>
          /\ data # None /\ next' = next + 1
          /\ next \in Bridges
          /\ response' = [response EXCEPT ![next] = data]
      BY <1>2 DEF Callback
    <2>2. current[c] \in Bridges
      BY <2>1
    <2>3. CASE next = current[c]
      BY <2>1, <2>2, <2>3
    <2>4. CASE next # current[c]
      <3>1. response'[current[c]] = response[current[c]]
        BY <2>1, <2>2, <2>4
      <3>2. data = current[c] /\ next <= current[c] => next' <= current[c]
        BY <2>1, <2>4
      <3> QED
        BY <2>1, <3>1, <3>2
    <2> QED
      BY <2>3, <2>4
  <1>3. CASE Done
    <2>1. UNCHANGED <<current, pc, response, commands>> /\ ~(next <= current[c])
      BY <1>3 DEF Done
    <2> QED
      BY <2>1
  <1>4. ASSUME NEW d \in Clients, Post(d) PROVE c # d /\ Post(d)
    BY <1>4 DEF Post, Goto
  <1>5. ASSUME NEW d \in Clients, Post(d)
        PROVE UNCHANGED <<response, commands, data, next, current[c], pc[c]>>
    BY <1>4, <1>5 DEF Post, Goto
  <1>6. ASSUME NEW d \in Clients, Reset(d)
        PROVE c # d /\ UNCHANGED <<commands, data, next, current, pc[c], response[current[c]]>>
    BY <1>6 DEF Reset, Goto
  <1>7. ASSUME NEW d \in Clients, ToApp(d)
        PROVE \/ \E i \in DOMAIN commands' : commands'[i] = current'[c]
              \/ c # d
    <2> SUFFICES ASSUME c = d
                 PROVE \E i \in DOMAIN commands' : commands'[i] = current'[c]
      OBVIOUS
    <2>1. /\ commands' = Append(commands, current[c]) /\ current' = current
          /\ current[c] \in Bridges /\ commands \in Seq(Bridges)
      BY <1>7 DEF ToApp, Goto
    <2> QED
      BY ONLY <2>1, AppendKeeps
  <1>8. ASSUME NEW d \in Clients, ToApp(d), c # d
        PROVE /\ UNCHANGED <<data, next, current, pc[c], response>>
              /\ \A i \in DOMAIN commands :
                   i \in DOMAIN commands' /\ commands'[i] = commands[i]
    <2>1. current[d] \in Bridges
      BY <1>8 DEF ToApp, Goto
    <2>2. /\ UNCHANGED <<data, next, current, pc[c], response>>
          /\ commands' = Append(commands, current[d])
          /\ commands \in Seq(Bridges)
      BY <1>8 DEF ToApp, Goto
    <2> QED
      BY ONLY <2>1, <2>2, AppendKeeps
  <1>9. ASSUME NEW d \in Clients, Check(d) \/ WaitEnds(d) \/ TimeOut(d)
        PROVE /\ UNCHANGED <<data, next, current, commands, response>>
              /\ pc[c] \in {"check", "wait"}
    BY <1>9 DEF Check, WaitEnds, TimeOut, Goto
  <1> QED
    BY <1>1, <1>2, <1>3, <1>5, <1>6, <1>7, <1>8, <1>9
       DEF Next, MainStep, ClientStep

(* Theorem: the types of the APDU bridges, for any set of clients.         *)
THEOREM BridgeTypes == Spec => []TypeOK
  <1>1. Init => TypeOK /\ OwnBridge
    BY InitBridge DEF BridgeInv, HeardInv
  <1>2. TypeOK /\ OwnBridge /\ [Next]_vars => (TypeOK /\ OwnBridge)'
    <2>1. TypeOK /\ OwnBridge /\ UNCHANGED vars => (TypeOK /\ OwnBridge)'
      BY DEF vars, TypeOK, OwnBridge
    <2> QED
      BY <2>1, StepType, StepOwn
  <1> QED
    BY <1>1, <1>2, PTL DEF Spec

(* Theorem: no client of POST /apdu misses its response, however many      *)
(* requests register their callbacks while responses are handed out.       *)
THEOREM NoResponseMissed == Spec => []Heard
  <1>1. Init => HeardInv
    BY InitBridge DEF BridgeInv
  <1>2. HeardInv /\ [Next]_vars => HeardInv'
    <2>1. HeardInv /\ UNCHANGED vars => HeardInv'
      BY DEF vars, HeardInv, TypeOK, OwnBridge, Heard
    <2> QED
      BY <2>1, StepType, StepOwn, StepHeard DEF HeardInv
  <1>3. HeardInv => Heard
    BY DEF HeardInv
  <1> QED
    BY <1>1, <1>2, <1>3, PTL DEF Spec

(* An exchange that stays alone stays alone; the steps of others that end  *)
(* that also mark it as disturbed.                                         *)
LEMMA StepAlone == HeardInv /\ AloneInv /\ Next => AloneInv'
  <1> SUFFICES ASSUME TypeOK, OwnBridge, AloneInv, Next,
                      NEW c \in Clients, Exchanging(c)', current'[c] \notin disturbed'
               PROVE  Alone(c)'
    BY DEF HeardInv, AloneInv
  <1> USE DEF None
  <1>1. CASE Receive
    <2>1. /\ UNCHANGED <<current, pc, response, disturbed>>
          /\ commands # <<>> /\ commands \in Seq(Bridges)
          /\ data' = Head(commands) /\ commands' = Tail(commands)
      BY <1>1 DEF Receive, TypeOK
    <2>2. Alone(c)
      BY <2>1 DEF AloneInv, Exchanging
    <2>3. \A i \in 1..Len(Tail(commands)) : Tail(commands)[i] = current[c]
      BY <2>1, <2>2 DEF Alone
    <2>4. Head(commands) = current[c]
      BY <2>1, <2>2 DEF Alone
    <2> QED
      BY <2>1, <2>2, <2>3, <2>4 DEF Alone
  <1>2. CASE Callback
    <2>1. /\ UNCHANGED <<current, pc, commands, data, disturbed>>
          /\ response' = [response EXCEPT ![next] = data]
          /\ response \in [Bridges -> 0..MaxBridges]
      BY <1>2 DEF Callback, TypeOK
    <2>2. Alone(c)
      BY <2>1 DEF AloneInv, Exchanging
    <2>3. response'[current[c]] \in {response[current[c]], data}
      BY <2>1, <1>2 DEF Callback, TypeOK, Bridges
    <2> QED
      BY <2>1, <2>2, <2>3 DEF Alone
  <1>3. CASE Done
    BY <1>3 DEF Done, AloneInv, Alone, Exchanging
  <1>4. ASSUME NEW d \in Clients, Post(d) PROVE Alone(c)'
    <2>1. c # d
      BY <1>4 DEF Post, Goto, Exchanging, TypeOK
    <2>2. UNCHANGED <<response, commands, data, disturbed, pc[c], current[c]>>
      BY <1>4, <2>1 DEF Post, Goto, TypeOK
    <2> QED
      BY <2>2 DEF AloneInv, Alone, Exchanging
  <1>5. ASSUME NEW d \in Clients, Reset(d) PROVE Alone(c)'
    <2>1. /\ UNCHANGED <<current, commands, data>>
          /\ response' = [response EXCEPT ![current[d]] = None]
          /\ disturbed \subseteq disturbed'
          /\ pc' = [pc EXCEPT ![d] = "send"]
      BY <1>5 DEF Reset, Goto
    <2>2. current[c] \in Bridges
      BY <1>5, <2>1 DEF Reset, Goto, Exchanging, OwnBridge, TypeOK, Bridges
    <2>3. response'[current[c]] \in {response[current[c]], None}
      BY <2>1, <2>2 DEF TypeOK
    <2>4. CASE c = d
      <3>1. data = None /\ commands = <<>> /\ response'[current[c]] = None
        BY <1>5, <2>1, <2>2, <2>4 DEF Reset, TypeOK
      <3> QED
        BY <2>1, <3>1 DEF Alone
    <2>5. CASE c # d
      <3>1. pc'[c] = pc[c] /\ Alone(c)
        BY <2>1, <2>5 DEF AloneInv, Exchanging, TypeOK
      <3> QED
        BY <2>1, <2>3, <3>1 DEF Alone
    <2> QED
      BY <2>4, <2>5
  <1>6. ASSUME NEW d \in Clients, ToApp(d) PROVE Alone(c)'
    <2>1. /\ UNCHANGED <<current, response, data>>
          /\ disturbed \subseteq disturbed'
          /\ pc[d] = "send" /\ pc' = [pc EXCEPT ![d] = "check"]
          /\ commands' = Append(commands, current[d])
      BY <1>6 DEF ToApp, Goto
    <2>2. c = d
      <3> SUFFICES ASSUME c # d PROVE FALSE
        OBVIOUS
      <3>1. Exchanging(c)
        BY <2>1 DEF Exchanging, TypeOK
      <3>2. current[c] \in disturbed'
        BY <1>6, <3>1 DEF ToApp
      <3> QED
        BY <2>1, <3>2
    <2>3. Alone(c)
      BY <2>1, <2>2 DEF AloneInv, Exchanging
    <2>4. data = None /\ commands' = <<current[c]>> /\ pc'[c] = "check"
      BY <2>1, <2>2, <2>3 DEF Alone, TypeOK
    <2> QED
      BY <2>1, <2>3, <2>4 DEF Alone
  <1>7. ASSUME NEW d \in Clients, Check(d) \/ WaitEnds(d) \/ TimeOut(d)
        PROVE  Alone(c)'
    <2>1. /\ UNCHANGED <<current, response, data, commands, disturbed>>
          /\ Exchanging(c) /\ (pc'[c] = "send" => pc[c] = "send")
      BY <1>7 DEF Check, WaitEnds, TimeOut, Goto, Exchanging, TypeOK
    <2> QED
      BY <2>1 DEF AloneInv, Alone
  <1> QED
    BY <1>1, <1>2, <1>3, <1>4, <1>5, <1>6, <1>7 DEF Next, MainStep, ClientStep

(* Only the end of an exchange yields a result, the response of its bridge. *)
LEMMA StepOwnResult == BridgeInv /\ Next => OwnUnlessDisturbed'
  <1> SUFFICES ASSUME BridgeInv, Next, NEW b \in Bridges, b \notin disturbed'
               PROVE  result'[b] \in {None, b}
    BY DEF OwnUnlessDisturbed
  <1>1. disturbed \subseteq disturbed'
    BY DEF Next, MainStep, ClientStep, Receive, Callback, Done, Post, Reset,
           ToApp, Check, WaitEnds, TimeOut
  <1>2. result[b] \in {None, b}
    BY <1>1 DEF BridgeInv, OwnUnlessDisturbed
  <1>3. CASE \E c \in Clients : Check(c)
    <2>1. PICK c \in Clients : Check(c)
      BY <1>3
    <2>2. CASE result' = result
      BY <1>2, <2>2
    <2>3. CASE result' = [result EXCEPT ![current[c]] = response[current[c]]]
      <3>1. Alone(c) \/ current[c] \in disturbed
        BY <2>1 DEF BridgeInv, AloneInv, Exchanging, Check
      <3>2. result \in [Bridges -> 0..MaxBridges]
        BY DEF BridgeInv, HeardInv, TypeOK
      <3>3. CASE b = current[c]
        BY <1>1, <2>3, <3>1, <3>2, <3>3 DEF Alone
      <3>4. CASE b # current[c]
        BY <1>2, <2>3, <3>2, <3>4
      <3> QED
        BY <3>3, <3>4
    <2> QED
      BY <2>1, <2>2, <2>3 DEF Check
  <1>4. CASE ~ \E c \in Clients : Check(c)
    <2>1. UNCHANGED result
      BY <1>4 DEF Next, MainStep, ClientStep, Receive, Callback, Done, Post,
                  Reset, ToApp, WaitEnds, TimeOut
    <2> QED
      BY <1>2, <2>1
  <1> QED
    BY <1>3, <1>4

(* Theorem: a request of POST /apdu that had the application to itself     *)
(* yields the response to its own command, for any number of clients and   *)
(* of earlier requests, timed out or not.                                  *)
THEOREM UndisturbedIsOwn == Spec => []OwnUnlessDisturbed
  <1>1. BridgeInv /\ [Next]_vars => BridgeInv'
    <2>1. BridgeInv /\ UNCHANGED vars => BridgeInv'
      BY DEF vars, BridgeInv, HeardInv, TypeOK, OwnBridge, Heard, AloneInv,
             Alone, Exchanging, OwnUnlessDisturbed
    <2>2. BridgeInv /\ Next => HeardInv'
      BY StepType, StepOwn, StepHeard DEF BridgeInv, HeardInv
    <2> QED
      BY <2>1, <2>2, StepAlone, StepOwnResult DEF BridgeInv
  <1>2. BridgeInv => OwnUnlessDisturbed
    BY DEF BridgeInv
  <1> QED
    BY InitBridge, <1>1, <1>2, PTL DEF Spec
=============================================================================
