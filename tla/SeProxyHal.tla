----------------------------- MODULE SeProxyHal -----------------------------
(***************************************************************************)
(* The MCU side of speculos and its link to the emulated application       *)
(* (speculos/mcu/seproxyhal.py).  Four kinds of threads share the link:    *)
(*   Packet   SocketHelper.run, the only sender of queued events           *)
(*   Daemon   TimeTickerDaemon.run, which requests a ticker event every    *)
(*            TICKER_DELAY and can be paused                               *)
(*   Main     SeProxyHal.can_read, called when the application wrote       *)
(*   Clients  one thread per request of the REST API                       *)
(* One action is one access to shared state: what CPython may interleave.  *)
(***************************************************************************)
EXTENDS Integers, Sequences

CONSTANTS
    Clients,       \* the threads that serve API requests
    Packet, Daemon, Main,
    Events,        \* tags a client, an automation rule or the transport queues
    Press, Release,\* the two of them that a press-and-release is made of
    Requests,      \* requests of the API, each the sequence of its steps
    Answers,       \* what the transport queues for one command, see UsbHid
    Automations,   \* what the automation rules queue for one screen update
    WaitTicks,     \* expected_ticks of handle_wait
    MaxQueue       \* bound on the events waiting to be sent

Ticker == "ticker"           \* SephTag.TICKER_EVENT
Processed == "processed"     \* SephTag.DISPLAY_PROCESSED_EVENT
NoTag == "none"
Tags == Events \cup {Ticker, Processed}

(* What the application sends: the two kinds of status that end its turn,  *)
(* a transport command that is answered by a queued event, a command that  *)
(* has no answer (drawing, printf, RAPDU, ...), and the power off request. *)
(* Two tags that no application of the SDK sends are left out because the  *)
(* two sides disagree on them: DBG_SCREEN_DISPLAY_STATUS, answered but not *)
(* the end of a turn, and PRINTF_STATUS, the end of a turn but unanswered. *)
Statuses == {"GENERAL_STATUS", "DISPLAY_STATUS"}
Commands == Statuses \cup {"USB", "OTHER", "SE_POWER_OFF"}

Tickers == Clients \cup {Daemon}     \* callers of add_tick
Queuers == Clients \cup {Main}       \* callers of queue_packet
Threads == Clients \cup {Packet, Daemon, Main}

ClientSteps == Events \cup {"pause", "resume", "single-step", "wait"}
MainSteps == Events \cup {"set", "send-processed"}

ASSUME ThreadsDistinct ==
    /\ Packet # Daemon /\ Packet # Main /\ Daemon # Main
    /\ {Packet, Daemon, Main} \cap Clients = {}

(* Ticker and display events are not queued: a RAW! packet of the APDU     *)
(* server that imitates one (to_app) is left out.                          *)
ASSUME EventsAssumption ==
    /\ Press \in Events /\ Release \in Events
    /\ Events \cap {"pause", "resume", "single-step", "wait", "set",
                    "send-processed", Ticker, Processed} = {}

ASSUME InputsAssumption ==
    /\ Requests \subseteq Seq(ClientSteps)
    /\ Answers \subseteq Seq(Events) \ {<<>>}
    /\ Automations \subseteq Seq(Events)
    /\ WaitTicks \in Nat
    /\ MaxQueue \in Nat

VARIABLES
    queue,           \* SocketHelper.queue
    tickRequested,   \* SocketHelper.tick_requested
    stop,            \* SocketHelper.stop
    statusSet,       \* the flag of SeProxyHal.status_event
    paused,          \* TimeTickerDaemon.paused, what the API asked for
    parked,          \* TimeTickerDaemon._paused, what the daemon reports
    pc,              \* where each thread stands
    todo,            \* the steps left of what a queuer is doing
    sending,         \* the tag SocketHelper.run took
    elapsed,         \* ticks_count - start of handle_wait, up to WaitTicks
    toApp, toMcu,    \* the two directions of the socket
    closed,          \* one end of the socket is closed
    app              \* whether the application handles an event or waits

linkVars == <<queue, tickRequested, stop, statusSet>>
daemonVars == <<paused, parked>>
appVars == <<toMcu, closed, app>>
vars == <<queue, tickRequested, stop, statusSet, paused, parked, pc, todo,
          sending, elapsed, toApp, toMcu, closed, app>>

-----------------------------------------------------------------------------
PacketPcs == {"wait", "asleep", "woken", "status", "event", "clear", "pick",
              "send", "count", "untick", "exit", "error"}
WaitPcs == {"addtick", "notify", "wtick", "wqueue", "wstatus", "event"}
DaemonPcs == WaitPcs \cup {"check", "park", "rest", "asleep", "unpark"}
ClientPcs == WaitPcs \cup {"step", "qnotify", "pausing", "rnotify", "sleeping"}
MainPcs == {"read", "step", "qnotify", "exit"}

(* Type correctness: every thread is at a point of its own code, the queue *)
(* and the socket carry SEPROXYHAL tags, and what each queuer has left to  *)
(* do is made of its own steps (seproxyhal.py).                            *)
TypeOK ==
    /\ queue \in Seq(Events)
    /\ tickRequested \in BOOLEAN /\ stop \in BOOLEAN /\ statusSet \in BOOLEAN
    /\ paused \in BOOLEAN /\ parked \in BOOLEAN /\ closed \in BOOLEAN
    /\ pc \in [Threads -> PacketPcs \cup DaemonPcs \cup ClientPcs \cup MainPcs]
    /\ pc[Packet] \in PacketPcs
    /\ pc[Daemon] \in DaemonPcs
    /\ pc[Main] \in MainPcs
    /\ \A c \in Clients : pc[c] \in ClientPcs
    /\ todo \in [Queuers -> Seq(ClientSteps \cup MainSteps)]
    /\ todo[Main] \in Seq(MainSteps)
    /\ \A c \in Clients : todo[c] \in Seq(ClientSteps)
    /\ sending \in Tags \cup {NoTag}
    /\ elapsed \in [Clients -> 0..WaitTicks]
    /\ toApp \in Seq(Tags)
    /\ toMcu \in Seq(Commands)
    /\ app \in {"busy", "waiting", "gone"}

Init ==
    /\ queue = <<>> /\ tickRequested = FALSE /\ stop = FALSE
    /\ statusSet = FALSE
    /\ paused = FALSE /\ parked = FALSE
    /\ pc = [t \in Threads |->
               CASE t = Packet -> "wait" [] t = Daemon -> "check"
                 [] t = Main -> "read" [] OTHER -> "step"]
    /\ todo = [t \in Queuers |-> <<>>]
    /\ sending = NoTag
    /\ elapsed = [c \in Clients |-> 0]
    /\ toApp = <<>> /\ toMcu = <<>> /\ closed = FALSE
    /\ app = "busy"

-----------------------------------------------------------------------------
Goto(t, from, to) == pc[t] = from /\ pc' = [pc EXCEPT ![t] = to]

(* queue_condition.notify() and status_event.set(): the waiting threads    *)
(* leave the wait set and check their condition again.                     *)
NotifyNobody(p) == p                                               \* mutant
NotifyUnchecked(p) == IF p[Packet] = "asleep"                      \* mutant
                      THEN [p EXCEPT ![Packet] = "status"] ELSE p
WakeOnlyPacket(p) == [t \in Threads |->                            \* mutant
    IF p[t] = "event" /\ t = Packet THEN "status" ELSE p[t]]

NotifyPacket(p) == IF p[Packet] = "asleep" THEN [p EXCEPT ![Packet] = "woken"]
                                           ELSE p
WakeOnStatus(p) == [t \in Threads |->
    IF p[t] = "event" THEN (IF t = Packet THEN "status" ELSE "wtick")
                      ELSE p[t]]

(* send_packet: a failed write stops the sender.                           *)
SendPacket(tag) ==
    /\ stop' = (stop \/ closed)
    /\ toApp' = IF closed THEN toApp ELSE Append(toApp, tag)

-----------------------------------------------------------------------------
(* SocketHelper.run                                                        *)

(* The check and the wait happen under queue_condition, which a notifier   *)
(* needs, so that nothing falls between them.  A woken thread checks for   *)
(* work again, but not for stop.                                           *)
WaitForWork ==
    /\ pc[Packet] \in {"wait", "woken"}
    /\ pc' = [pc EXCEPT ![Packet] =
                IF pc[Packet] = "wait" /\ stop THEN "exit"
                ELSE IF queue = <<>> /\ ~tickRequested THEN "asleep"
                ELSE "status"]
    /\ UNCHANGED <<linkVars, daemonVars, todo, sending, elapsed, toApp, appVars>>

WaitForStatus ==
    /\ Goto(Packet, "status", IF statusSet THEN "clear" ELSE "event")
    /\ UNCHANGED <<linkVars, daemonVars, todo, sending, elapsed, toApp, appVars>>

StatusNotCleared ==                                                \* mutant
    /\ Goto(Packet, "clear", "pick")
    /\ UNCHANGED <<linkVars, daemonVars, todo, sending, elapsed, toApp, appVars>>

ClearStatus ==
    /\ Goto(Packet, "clear", "pick")
    /\ statusSet' = FALSE
    /\ UNCHANGED <<queue, tickRequested, stop, daemonVars, todo, sending,
                   elapsed, toApp, appVars>>

PickPacket ==
    /\ pc[Packet] = "pick"
    /\ \/ /\ queue # <<>>
          /\ sending' = Head(queue)
          /\ queue' = Tail(queue)
          /\ pc' = [pc EXCEPT ![Packet] = "send"]
       \/ /\ queue = <<>> /\ tickRequested
          /\ sending' = Ticker
          /\ pc' = [pc EXCEPT ![Packet] = "send"]
          /\ UNCHANGED queue
       \/ /\ queue = <<>> /\ ~tickRequested      \* raise RuntimeError
          /\ pc' = [pc EXCEPT ![Packet] = "error"]
          /\ UNCHANGED <<sending, queue>>
    /\ UNCHANGED <<tickRequested, stop, statusSet, daemonVars, todo, elapsed,
                   toApp, appVars>>

SendPicked ==
    /\ Goto(Packet, "send", IF sending = Ticker THEN "count" ELSE "wait")
    /\ SendPacket(sending)
    /\ sending' = NoTag
    /\ UNCHANGED <<queue, tickRequested, statusSet, daemonVars, todo, elapsed,
                   appVars>>

(* ticks_count += 1, of which handle_wait reads differences only.          *)
CountTick ==
    /\ Goto(Packet, "count", "untick")
    /\ elapsed' = [c \in Clients |->
                     IF pc[c] = "sleeping" /\ elapsed[c] < WaitTicks
                     THEN elapsed[c] + 1 ELSE elapsed[c]]
    /\ UNCHANGED <<linkVars, daemonVars, todo, sending, toApp, appVars>>

ClearTick ==
    /\ Goto(Packet, "untick", "wait")
    /\ tickRequested' = FALSE
    /\ UNCHANGED <<queue, stop, statusSet, daemonVars, todo, sending, elapsed,
                   toApp, appVars>>

-----------------------------------------------------------------------------
(* SocketHelper.add_tick and wait_until_tick_is_processed, called by the   *)
(* daemon and by the clients.                                              *)

AddTick(t) ==
    /\ Goto(t, "addtick", "notify")
    /\ tickRequested' = TRUE
    /\ UNCHANGED <<queue, stop, statusSet, daemonVars, todo, sending, elapsed,
                   toApp, appVars>>

(* The daemon's add_tick does not wait: it sleeps and checks for a pause.  *)
TickNotify(t) ==
    /\ pc[t] = "notify"
    /\ pc' = NotifyPacket([pc EXCEPT ![t] = IF t = Daemon THEN "check"
                                                          ELSE "wtick"])
    /\ UNCHANGED <<linkVars, daemonVars, todo, sending, elapsed, toApp, appVars>>

TickNotAwaited(t) ==                                               \* mutant
    /\ Goto(t, "wtick", "wqueue")
    /\ UNCHANGED <<linkVars, daemonVars, todo, sending, elapsed, toApp, appVars>>

(* while tick_requested or queue or not status_event.is_set(): the three   *)
(* reads are separate, and the loop waits on status_event.                 *)
WaitReadTick(t) ==
    /\ pc[t] = "wtick"
    /\ pc' = [pc EXCEPT ![t] =
                IF ~tickRequested THEN "wqueue"
                ELSE IF statusSet THEN "wtick" ELSE "event"]
    /\ UNCHANGED <<linkVars, daemonVars, todo, sending, elapsed, toApp, appVars>>

WaitReadQueue(t) ==
    /\ pc[t] = "wqueue"
    /\ pc' = [pc EXCEPT ![t] =
                IF queue = <<>> THEN "wstatus"
                ELSE IF statusSet THEN "wtick" ELSE "event"]
    /\ UNCHANGED <<linkVars, daemonVars, todo, sending, elapsed, toApp, appVars>>

WaitReadStatus(t) ==
    /\ pc[t] = "wstatus"
    /\ IF ~statusSet
       THEN pc' = [pc EXCEPT ![t] = "event"] /\ UNCHANGED todo
       ELSE IF t = Daemon
       THEN pc' = [pc EXCEPT ![t] = "park"] /\ UNCHANGED todo
       ELSE /\ pc' = [pc EXCEPT ![t] = "step"]
            /\ todo' = [todo EXCEPT ![t] = Tail(todo[t])]
    /\ UNCHANGED <<linkVars, daemonVars, sending, elapsed, toApp, appVars>>

-----------------------------------------------------------------------------
(* TimeTickerDaemon.run and _wait_if_time_paused                           *)

PauseBeforeTickIsSent ==                                           \* mutant
    /\ Goto(Daemon, "check", IF paused THEN "park" ELSE "unpark")
    /\ UNCHANGED <<linkVars, daemonVars, todo, sending, elapsed, toApp, appVars>>

DaemonCheck ==
    /\ Goto(Daemon, "check", IF paused THEN "wtick" ELSE "unpark")
    /\ UNCHANGED <<linkVars, daemonVars, todo, sending, elapsed, toApp, appVars>>

DaemonPark ==
    /\ Goto(Daemon, "park", "rest")
    /\ parked' = TRUE
    /\ UNCHANGED <<linkVars, paused, todo, sending, elapsed, toApp, appVars>>

(* with _resume_cond: _resume_cond.wait()                                  *)
DaemonRest ==
    /\ Goto(Daemon, "rest", "asleep")
    /\ UNCHANGED <<linkVars, daemonVars, todo, sending, elapsed, toApp, appVars>>

DaemonUnpark ==
    /\ Goto(Daemon, "unpark", "addtick")
    /\ parked' = FALSE
    /\ UNCHANGED <<linkVars, paused, todo, sending, elapsed, toApp, appVars>>

-----------------------------------------------------------------------------
(* queue_packet, called by the clients and by the main thread: the append  *)
(* is not under the lock, the notification is.                             *)

QueuePacket(t) ==
    /\ todo[t] # <<>> /\ Head(todo[t]) \in Events
    /\ Goto(t, "step", "qnotify")
    /\ t \in Clients => Len(queue) < MaxQueue
    /\ queue' = Append(queue, Head(todo[t]))
    /\ UNCHANGED <<tickRequested, stop, statusSet, daemonVars, todo, sending,
                   elapsed, toApp, appVars>>

QueueSilently(t) ==                                                \* mutant
    /\ pc[t] = "qnotify"
    /\ todo' = [todo EXCEPT ![t] = Tail(todo[t])]
    /\ pc' = [pc EXCEPT ![t] =
                IF t = Main /\ Len(todo[t]) = 1 THEN "read" ELSE "step"]
    /\ UNCHANGED <<linkVars, daemonVars, sending, elapsed, toApp, appVars>>

QueueNotify(t) ==
    /\ pc[t] = "qnotify"
    /\ todo' = [todo EXCEPT ![t] = Tail(todo[t])]
    /\ pc' = NotifyPacket([pc EXCEPT ![t] =
                IF t = Main /\ Len(todo[t]) = 1 THEN "read" ELSE "step"])
    /\ UNCHANGED <<linkVars, daemonVars, sending, elapsed, toApp, appVars>>

-----------------------------------------------------------------------------
(* The API: Ticker.post and handle_ticker_request, Button.post,            *)
(* Finger.post and handle_wait.                                            *)

StepIs(c, s) == pc[c] = "step" /\ todo[c] # <<>> /\ Head(todo[c]) = s

Request(c) ==
    /\ pc[c] = "step" /\ todo[c] = <<>>
    /\ \E r \in Requests : todo' = [todo EXCEPT ![c] = r]
    /\ UNCHANGED <<linkVars, daemonVars, pc, sending, elapsed, toApp, appVars>>

Pause(c) ==
    /\ StepIs(c, "pause") /\ Goto(c, "step", "pausing")
    /\ paused' = TRUE
    /\ UNCHANGED <<linkVars, parked, todo, sending, elapsed, toApp, appVars>>

(* while not _paused: sleep(0.1)                                           *)
PauseReturn(c) ==
    /\ parked
    /\ Goto(c, "pausing", "step")
    /\ todo' = [todo EXCEPT ![c] = Tail(todo[c])]
    /\ UNCHANGED <<linkVars, daemonVars, sending, elapsed, toApp, appVars>>

Resume(c) ==
    /\ StepIs(c, "resume") /\ Goto(c, "step", "rnotify")
    /\ paused' = FALSE
    /\ UNCHANGED <<linkVars, parked, todo, sending, elapsed, toApp, appVars>>

ResumeNotify(c) ==
    /\ pc[c] = "rnotify"
    /\ pc' = [pc EXCEPT ![c] = "step",
                        ![Daemon] = IF @ = "asleep" THEN "check" ELSE @]
    /\ todo' = [todo EXCEPT ![c] = Tail(todo[c])]
    /\ UNCHANGED <<linkVars, daemonVars, sending, elapsed, toApp, appVars>>

SingleStep(c) ==
    /\ StepIs(c, "single-step") /\ Goto(c, "step", "addtick")
    /\ UNCHANGED <<linkVars, daemonVars, todo, sending, elapsed, toApp, appVars>>

(* handle_wait: with the time paused, one single-step per expected tick;   *)
(* otherwise the client counts the ticks that the daemon requests.         *)
HandleWait(c) ==
    /\ StepIs(c, "wait")
    /\ IF paused
       THEN /\ todo' = [todo EXCEPT ![c] =
                          [i \in 1..WaitTicks |-> "single-step"] \o Tail(@)]
            /\ UNCHANGED pc
       ELSE /\ pc' = [pc EXCEPT ![c] = "sleeping"]
            /\ UNCHANGED todo
    /\ UNCHANGED <<linkVars, daemonVars, sending, elapsed, toApp, appVars>>

WaitElapsed(c) ==
    /\ elapsed[c] = WaitTicks
    /\ Goto(c, "sleeping", "step")
    /\ elapsed' = [elapsed EXCEPT ![c] = 0]
    /\ todo' = [todo EXCEPT ![c] = Tail(todo[c])]
    /\ UNCHANGED <<linkVars, daemonVars, sending, toApp, appVars>>

-----------------------------------------------------------------------------
(* SeProxyHal.can_read                                                     *)

DisplayUnanswered(tag, a) ==                                       \* mutant
    IF tag = "GENERAL_STATUS" THEN a \o <<"set">> ELSE <<>>

(* What each packet makes the main thread do.  The automation rules run    *)
(* before the status is published.                                         *)
Handling(tag, a) ==
    CASE tag = "GENERAL_STATUS" -> a \o <<"set">>
      [] tag = "DISPLAY_STATUS" -> <<"send-processed">>
      [] OTHER -> <<>>

CanRead ==
    /\ pc[Main] = "read" /\ toMcu # <<>>
    /\ LET tag == Head(toMcu) IN
       \/ /\ tag \in Statuses
          /\ \E a \in {<<>>} \cup Automations :
               /\ a # <<>> => tag = "GENERAL_STATUS" /\ Len(queue) < MaxQueue
               /\ todo' = [todo EXCEPT ![Main] = Handling(tag, a)]
          /\ pc' = [pc EXCEPT ![Main] = "step"]
          /\ UNCHANGED closed
       \/ /\ tag = "USB"
          /\ \/ /\ \E a \in Answers : todo' = [todo EXCEPT ![Main] = a]
                /\ pc' = [pc EXCEPT ![Main] = "step"]
             \/ UNCHANGED <<todo, pc>>
          /\ UNCHANGED closed
       \/ /\ tag = "OTHER"
          /\ UNCHANGED <<todo, pc, closed>>
       \/ /\ tag = "SE_POWER_OFF"  \* or an unknown tag: the process ends
          /\ pc' = [pc EXCEPT ![Main] = "exit"]
          /\ closed' = TRUE
          /\ UNCHANGED todo
    /\ toMcu' = Tail(toMcu)
    /\ UNCHANGED <<linkVars, daemonVars, sending, elapsed, toApp, app>>

(* read_packet returns None: _cleanup and ReadError                        *)
CanReadEof ==
    /\ Goto(Main, "read", "exit")
    /\ closed /\ toMcu = <<>>
    /\ UNCHANGED <<linkVars, daemonVars, todo, sending, elapsed, toApp, appVars>>

SetStatus ==
    /\ todo[Main] # <<>> /\ Head(todo[Main]) = "set"
    /\ pc[Main] = "step"
    /\ statusSet' = TRUE
    /\ todo' = [todo EXCEPT ![Main] = Tail(@)]
    /\ pc' = WakeOnStatus([pc EXCEPT ![Main] = "read"])
    /\ UNCHANGED <<queue, tickRequested, stop, daemonVars, sending, elapsed,
                   toApp, appVars>>

(* DISPLAY_PROCESSED_EVENT does not go through the queue.                  *)
SendProcessed ==
    /\ todo[Main] # <<>> /\ Head(todo[Main]) = "send-processed"
    /\ Goto(Main, "step", "read")
    /\ SendPacket(Processed)
    /\ todo' = [todo EXCEPT ![Main] = Tail(@)]
    /\ UNCHANGED <<queue, tickRequested, statusSet, daemonVars, sending,
                   elapsed, appVars>>

-----------------------------------------------------------------------------
(* The application behind sys_os_io_seph_tx and sys_os_io_seph_se_rx_event: *)
(* after an event it sends commands, then one status, and only then reads. *)

AppSend ==
    /\ app = "busy"
    /\ Len(toMcu) < MaxQueue /\ Len(queue) < MaxQueue
    /\ \E c \in Commands \ Statuses : toMcu' = Append(toMcu, c)
    /\ UNCHANGED <<linkVars, daemonVars, pc, todo, sending, elapsed, toApp,
                   closed, app>>

AppStatus(s) ==
    /\ app = "busy"
    /\ toMcu' = Append(toMcu, s)
    /\ app' = "waiting"
    /\ UNCHANGED <<linkVars, daemonVars, pc, todo, sending, elapsed, toApp,
                   closed>>

AppReceive ==
    /\ app = "waiting" /\ toApp # <<>>
    /\ toApp' = Tail(toApp)
    /\ app' = "busy"
    /\ UNCHANGED <<linkVars, daemonVars, pc, todo, sending, elapsed, toMcu,
                   closed>>

AppExit ==
    /\ app = "busy"
    /\ app' = "gone"
    /\ closed' = TRUE
    /\ UNCHANGED <<linkVars, daemonVars, pc, todo, sending, elapsed, toApp,
                   toMcu>>

-----------------------------------------------------------------------------
PacketStep == \/ WaitForWork \/ WaitForStatus \/ ClearStatus \/ PickPacket
              \/ SendPicked \/ CountTick \/ ClearTick
TickStep(t) == \/ AddTick(t) \/ TickNotify(t)
               \/ WaitReadTick(t) \/ WaitReadQueue(t) \/ WaitReadStatus(t)
DaemonStep == \/ DaemonCheck \/ DaemonPark \/ DaemonRest \/ DaemonUnpark
              \/ TickStep(Daemon)
MainStep == \/ CanRead \/ CanReadEof \/ SetStatus \/ SendProcessed
            \/ QueuePacket(Main) \/ QueueNotify(Main)
ClientStep(c) == \/ QueuePacket(c) \/ QueueNotify(c)
                 \/ Pause(c) \/ PauseReturn(c) \/ Resume(c) \/ ResumeNotify(c)
                 \/ SingleStep(c) \/ HandleWait(c) \/ WaitElapsed(c)
                 \/ TickStep(c)
AppStep == AppSend \/ AppReceive \/ AppExit \/ \E s \in Statuses : AppStatus(s)

(* The main thread left its loop: the process ends, its threads with it.   *)
ProcessExit == pc[Main] = "exit" /\ UNCHANGED vars

Next == \/ PacketStep \/ DaemonStep \/ MainStep \/ AppStep
        \/ \E c \in Clients : Request(c) \/ ClientStep(c)
        \/ ProcessExit

Spec == Init /\ [][Next]_vars

(* Every thread runs.  The event loop of the application always sends a    *)
(* status before it reads again, and a general status once the last        *)
(* element of its screen is displayed, so not only display statuses.       *)
(* Nothing forces a client to send a request, nor the application to send  *)
(* other commands or to exit.                                              *)
Fairness ==
    /\ WF_vars(PacketStep) /\ WF_vars(DaemonStep) /\ WF_vars(MainStep)
    /\ SF_vars(AppStatus("GENERAL_STATUS")) /\ WF_vars(AppReceive)
    /\ \A c \in Clients : WF_vars(ClientStep(c))

FairSpec == Spec /\ Fairness

-----------------------------------------------------------------------------
(* The turn.  The application handles one event at a time: whoever may act *)
(* next holds the turn, and it travels from the application to the main    *)
(* thread, to status_event, to the sender, and back.                       *)

Holders == {"app", "toApp", "toMcu", "main", "event", "packet"}
Marks == {"set", "send-processed"}

Holds(h) ==
    CASE h = "app" -> app # "waiting"
      [] h = "toApp" -> toApp # <<>>
      [] h = "toMcu" -> \E i \in DOMAIN toMcu : toMcu[i] \in Statuses
      [] h = "main" -> \E i \in DOMAIN todo[Main] : todo[Main][i] \in Marks
      [] h = "event" -> statusSet
      [] h = "packet" -> pc[Packet] \in {"pick", "send"}

(* No event is sent before the application acknowledged the previous one   *)
(* with a status, whichever threads queue events, request ticks or answer  *)
(* a display status directly: the turn is held at most once, the socket    *)
(* never carries two events, and a status is the last thing the            *)
(* application wrote.  (status_event between can_read and run.)            *)
OneTurn ==
    /\ \A g \in Holders : Holds(g) => \A h \in Holders : Holds(h) => g = h
    /\ Len(toApp) <= 1
    /\ \A i \in DOMAIN toMcu : toMcu[i] \in Statuses => i = Len(toMcu)

(* The turn is never lost while the socket is open: a status_event that is *)
(* cleared is followed by a packet, so that the two sides cannot end up    *)
(* waiting for each other.                                                 *)
TurnNotLost == closed \/ \E h \in Holders : Holds(h)

(* The RuntimeError of SocketHelper.run is unreachable: what made the      *)
(* thread leave its wait is still there once it has the status, although   *)
(* queue and tick_requested are read again outside the lock.               *)
NoUnexpectedState ==
    /\ pc[Packet] # "error"
    /\ pc[Packet] \in {"status", "event", "clear", "pick"} =>
         queue # <<>> \/ tickRequested

(* No wakeup is lost on queue_condition, although queue_packet and         *)
(* add_tick change what the sender waits for outside the lock: when it     *)
(* sleeps with something to send, a thread is about to notify it.          *)
NoLostWakeup ==
    pc[Packet] = "asleep" /\ (queue # <<>> \/ tickRequested) =>
        \E t \in Threads \ {Packet} : pc[t] \in {"notify", "qnotify"}

(* A queued event makes the sender send, and a requested tick is consumed, *)
(* whatever the interleaving of the threads, unless the socket is closed:  *)
(* no wakeup is lost and the two ends never wait for each other.           *)
WorkIsSent ==
    /\ queue # <<>> ~> (pc[Packet] = "send" \/ closed)
    /\ tickRequested ~> (~tickRequested \/ closed)

(* With the time paused, a single-step and the waits of a press-and-release *)
(* return: the waits on status_event cannot miss the end of the tick.      *)
StepReturns ==
    \A c \in Clients :
        pc[c] \in WaitPcs ~> (pc[c] = "step" \/ ~parked \/ closed)
=============================================================================
