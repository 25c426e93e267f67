------------------------------- MODULE MCLink -------------------------------
(* Instances of SeProxyHal for TLC: two clients of the API, a transport    *)
(* that answers the application and an automation rule; and one client     *)
(* that lets the time stop and steps it.                                   *)
EXTENDS SeProxyHal, TLC

CONSTANTS c1, c2

ClientSymmetry == Permutations(Clients)

(* POST /button, and POST /ticker with each of its actions.                *)
LinkRequests == {<<Press>>, <<"pause", "resume">>, <<"single-step">>}

(* One client that also holds a button, and that pauses the time again     *)
(* after it resumed it.                                                    *)
SteppedRequests == {<<Press, "wait", Release, "wait">>, <<"single-step">>,
                    <<"pause">>, <<"resume", "pause">>}

(* The transport and the rules queue one event at a time; the theorems of  *)
(* SeProxyHal_proof hold for sequences of any length.                      *)
OneAnswer == {<<Press>>}
OneRule == {<<Press>>}
=============================================================================
