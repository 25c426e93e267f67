----------------------------- MODULE ApduBridge -----------------------------
(***************************************************************************)
(* POST /apdu (speculos/api/apdu.py).  Every request creates an APDUBridge *)
(* and registers its callback in SeProxyHal.apdu_callbacks; the main       *)
(* thread passes every response of the application to every callback.      *)
(* Bridges are numbered in the order of their creation and none is ever    *)
(* removed, so that apdu_callbacks is 1..bridges.  A command and its       *)
(* response are named by the bridge that sent the command.                 *)
(***************************************************************************)
EXTENDS Integers, Sequences

CONSTANTS
    Clients,        \* the threads that serve API requests
    Timeouts,       \* whether the tick_timeout of an exchange may be reached
    MaxBridges      \* bound on the requests of a behaviour

ASSUME BridgeAssumption == Timeouts \in BOOLEAN /\ MaxBridges \in Nat

Bridges == 1..MaxBridges
None == 0

VARIABLES
    bridges,      \* Len(SeProxyHal.apdu_callbacks)
    current,      \* the bridge of each client's request
    pc,           \* where each client is in APDUBridge.exchange
    response,     \* APDUBridge.response: the command that it answers
    commands,     \* commands on their way to the application (external)
    data, next,   \* the response that can_read hands out, and to whom next
    result,       \* what the exchange of a bridge yielded
    disturbed     \* bridges whose exchange was not alone (history variable)

vars == <<bridges, current, pc, response, commands, data, next, result,
          disturbed>>

(* Type correctness: among others, a response always answers a command     *)
(* that some bridge sent.                                                  *)
TypeOK ==
    /\ bridges \in 0..MaxBridges
    /\ current \in [Clients -> 0..MaxBridges]
    /\ pc \in [Clients -> {"idle", "reset", "send", "check", "wait"}]
    /\ response \in [Bridges -> 0..MaxBridges]
    /\ commands \in Seq(Bridges)
    /\ data \in 0..MaxBridges /\ next \in 1..(MaxBridges + 1)
    /\ result \in [Bridges -> 0..MaxBridges]
    /\ disturbed \subseteq Bridges

Init ==
    /\ bridges = 0
    /\ current = [c \in Clients |-> None] /\ pc = [c \in Clients |-> "idle"]
    /\ response = [b \in Bridges |-> None]
    /\ commands = <<>> /\ data = None /\ next = 1
    /\ result = [b \in Bridges |-> None] /\ disturbed = {}

Goto(c, from, to) == pc[c] = from /\ pc' = [pc EXCEPT ![c] = to]
Exchanging(c) == pc[c] \in {"send", "check", "wait"}

-----------------------------------------------------------------------------
(* APDU.__init__ and APDUBridge.__init__                                   *)
Post(c) ==
    /\ bridges < MaxBridges
    /\ Goto(c, "idle", "reset")
    /\ bridges' = bridges + 1
    /\ current' = [current EXCEPT ![c] = bridges + 1]
    /\ UNCHANGED <<response, commands, data, next, result, disturbed>>

NoReset(c) ==                                                      \* mutant
    /\ Goto(c, "reset", "send")
    /\ disturbed' = IF data = None /\ commands = <<>> THEN disturbed
                    ELSE disturbed \cup {current[c]}
    /\ UNCHANGED <<bridges, current, response, commands, data, next, result>>

(* The beginning of exchange.  endpoint_lock belongs to the bridge, and a  *)
(* bridge to one request: it is always free.                               *)
Reset(c) ==
    /\ Goto(c, "reset", "send")
    /\ response' = [response EXCEPT ![current[c]] = None]
    /\ disturbed' = IF data = None /\ commands = <<>> THEN disturbed
                    ELSE disturbed \cup {current[c]}
    /\ UNCHANGED <<bridges, current, commands, data, next, result>>

(* SeProxyHal.to_app; the transport keeps the commands in order.           *)
ToApp(c) ==
    /\ Goto(c, "send", "check")
    /\ commands' = Append(commands, current[c])
    /\ disturbed' = disturbed
         \cup {current[d] : d \in {e \in Clients \ {c} : Exchanging(e)}}
         \cup (IF data = None /\ commands = <<>> THEN {} ELSE {current[c]})
    /\ UNCHANGED <<bridges, current, response, data, next, result>>

(* while response is None, under response_condition: the check and the     *)
(* beginning of the wait are one step for seph_apdu_callback.              *)
Check(c) ==
    /\ pc[c] = "check"
    /\ IF response[current[c]] = None
       THEN pc' = [pc EXCEPT ![c] = "wait"] /\ UNCHANGED result
       ELSE /\ pc' = [pc EXCEPT ![c] = "idle"]
            /\ result' = [result EXCEPT ![current[c]] = response[current[c]]]
    /\ UNCHANGED <<bridges, current, response, commands, data, next, disturbed>>

(* wait(0.1) returns, notified or not, and the ticks are counted.          *)
WaitEnds(c) ==
    /\ Goto(c, "wait", "check")
    /\ UNCHANGED <<bridges, current, response, commands, data, next, result,
                   disturbed>>

(* raise TimeoutError(), whether or not a response came during the wait    *)
TimeOut(c) ==
    /\ Timeouts
    /\ Goto(c, "wait", "idle")
    /\ UNCHANGED <<bridges, current, response, commands, data, next, result,
                   disturbed>>

-----------------------------------------------------------------------------
(* The main thread: for c in self.apdu_callbacks: c(data).  The loop sees  *)
(* the callbacks that are appended while it runs.                          *)
Receive ==
    /\ data = None /\ commands # <<>>
    /\ data' = Head(commands) /\ next' = 1
    /\ commands' = Tail(commands)
    /\ UNCHANGED <<bridges, current, pc, response, result, disturbed>>

CallOldest ==                                                      \* mutant
    /\ data # None /\ next <= bridges
    /\ response' = IF next = 1 THEN [response EXCEPT ![next] = data]
                               ELSE response
    /\ next' = next + 1
    /\ UNCHANGED <<bridges, current, pc, commands, data, result, disturbed>>

Callback ==
    /\ data # None /\ next <= bridges
    /\ response' = [response EXCEPT ![next] = data]
    /\ next' = next + 1
    /\ UNCHANGED <<bridges, current, pc, commands, data, result, disturbed>>

DoneEarly ==                                                       \* mutant
    /\ data # None /\ next >= bridges
    /\ data' = None /\ next' = 1
    /\ UNCHANGED <<bridges, current, pc, response, commands, result, disturbed>>

Done ==
    /\ data # None /\ next > bridges
    /\ data' = None /\ next' = 1
    /\ UNCHANGED <<bridges, current, pc, response, commands, result, disturbed>>

-----------------------------------------------------------------------------
ClientStep(c) == Reset(c) \/ ToApp(c) \/ Check(c) \/ WaitEnds(c)
MainStep == Receive \/ Callback \/ Done

(* The requests of a behaviour are bounded: it may end.                    *)
Next == MainStep \/ \E c \in Clients : Post(c) \/ ClientStep(c) \/ TimeOut(c)

(* The threads run, and the application answers.                           *)
Spec == Init /\ [][Next]_vars
FairSpec == Spec /\ WF_vars(MainStep) /\ \A c \in Clients : WF_vars(ClientStep(c))

-----------------------------------------------------------------------------
(* No response is missed: as long as a client waits, its response is in    *)
(* its bridge, or its command is under way, or the main thread has not     *)
(* reached its callback yet, whatever other requests register or give up   *)
(* while the callbacks are called.                                         *)
Heard ==
    \A c \in Clients : pc[c] \in {"check", "wait"} =>
        \/ response[current[c]] # None
        \/ \E i \in DOMAIN commands : commands[i] = current[c]
        \/ data = current[c] /\ next <= current[c]

(* A request that had the application to itself yields the response to its *)
(* own command: nothing was under way when exchange began, and no other    *)
(* request sent a command until it returned.                               *)
OwnUnlessDisturbed ==
    \A b \in Bridges \ disturbed : result[b] \in {None, b}

(* "Device response to the APDU command": every request yields the         *)
(* response to its own command.                                            *)
OwnResponse == \A b \in Bridges : result[b] \in {None, b}

(* Every exchange returns, even without a timeout.                         *)
Returns == \A c \in Clients : pc[c] # "idle" ~> pc[c] = "idle"
=============================================================================
