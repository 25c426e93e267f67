--------------------------- MODULE TickerHistory ---------------------------
(***************************************************************************)
(* SeProxyHal with what an observer of the application and of the API      *)
(* remembers, to state what pausing the time and holding a button promise. *)
(* The history variables never constrain the system.                       *)
(***************************************************************************)
EXTENDS SeProxyHal

VARIABLES
    held,       \* ticker events the application saw since the last Press
    frozen,     \* whether the daemon slept when the last Press was queued
    promised    \* pause() returned and nobody called resume() since

historyVars == <<held, frozen, promised>>
allVars == <<vars, historyVars>>

HInit == Init /\ held = 0 /\ frozen = FALSE /\ promised = FALSE

(* Beyond WaitTicks + 1 the exact number makes no difference.              *)
Received(tag) == app = "waiting" /\ app' = "busy" /\ Head(toApp) = tag
Queued(c, tag) == pc[c] = "step" /\ pc'[c] = "qnotify" /\ Head(todo[c]) = tag

Observe ==
    /\ held' = IF Received(Press) THEN 0
               ELSE IF Received(Ticker) /\ held <= WaitTicks THEN held + 1
               ELSE held
    /\ frozen' = IF \E c \in Clients : Queued(c, Press)
                 THEN pc[Daemon] = "asleep" ELSE frozen
    /\ promised' = IF \E c \in Clients : pc[c] = "pausing" /\ pc'[c] = "step"
                   THEN TRUE
                   ELSE IF \E c \in Clients : pc'[c] = "rnotify" THEN FALSE
                   ELSE promised

HNext == Next /\ Observe
HSpec == HInit /\ [][HNext]_allVars /\ Fairness

TickSent == Len(toApp') > Len(toApp) /\ toApp'[Len(toApp')] = Ticker
Ticking(c) == pc[c] \in WaitPcs

-----------------------------------------------------------------------------
(* Once pause() returned, no ticker event is sent until resume() is called, *)
(* except the ones a client asks for with a single-step or a wait: "no     *)
(* ticker event will be sent until resume" (TimeTickerDaemon.pause).       *)
PauseStopsTime ==
    [][promised /\ promised' /\ TickSent => \E c \in Clients : Ticking(c)]_allVars

(* A button that one client presses and releases while the time is stopped *)
(* is held for exactly the ticks of its delay, as the application sees it: *)
(* the press precedes the first tick, no tick is lost or merged, and the   *)
(* release follows the last one (handle_button and handle_wait).           *)
HoldExact ==
    [][Received(Release) /\ frozen => held = WaitTicks]_allVars

(* With the time running, handle_wait is "taking account real time seen by *)
(* the app": between the press and the release the application sees at     *)
(* least the ticks of the delay.                                           *)
HoldAtLeast == [][Received(Release) => held >= WaitTicks]_allVars

(* resume() makes the daemon tick again, unless the time is paused again   *)
(* or the application exits: "Resume time emulation done by the daemon".   *)
ResumeRestarts ==
    ~paused ~> (paused \/ closed \/ pc[Daemon] = "addtick")
=============================================================================
