------------------------------ MODULE MCTicker ------------------------------
(* Instances of TickerHistory for TLC: one client of the API.              *)
EXTENDS TickerHistory

CONSTANT c1

(* A client pauses the time and then drives the application.               *)
Hold == <<Press, "wait", Release, "wait">>
StoppedRequests == {<<"pause">>, <<"single-step">>, Hold}
HoldRequests == {Hold}
TickerRequests == {<<"pause">>, <<"resume">>}
=============================================================================
