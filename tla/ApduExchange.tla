---------------------------- MODULE ApduExchange ----------------------------
(***************************************************************************)
(* What an APDU transport promises to the client and to the application:   *)
(* commands are delivered whole, in order and at most once, and answered   *)
(* at most once.  A client gets the answer to its own command before the   *)
(* next one is sent, or gives up.  Once one gave up while its exchange was *)
(* still on its way (late), a delayed command is still delivered, a        *)
(* delayed answer is still given, and a client may go on with the answer   *)
(* to another command than its own; until then neither happens.            *)
(***************************************************************************)
EXTENDS Integers

VARIABLES
    phase,     \* how far the current exchange is
    current,   \* its number
    seen,      \* the exchange whose command was delivered last
    open,      \* the commands delivered and not answered
    late       \* a client gave up an exchange that was on its way

exchange == <<phase, current, seen, open, late>>

EInit == phase = "idle" /\ current = 0 /\ seen = 0 /\ open = {} /\ late = FALSE

Send == /\ phase \in {"idle", "failed"} /\ phase' = "sent"
        /\ current' = current + 1
        /\ UNCHANGED <<seen, open, late>>
Deliver == /\ ~late => phase = "sent"
           /\ seen' \in IF late THEN (seen + 1)..current ELSE {current} \ {seen}
           /\ open' = open \cup {seen'}
           /\ UNCHANGED <<phase, current, late>>
Respond == /\ ~late => phase = "sent"
           /\ \E id \in open : open' = open \ {id}
           /\ UNCHANGED <<phase, current, seen, late>>
Complete == /\ phase = "sent" /\ phase' = "idle"
            /\ ~late => seen = current /\ open = {}
            /\ UNCHANGED <<current, seen, open, late>>
GiveUp == /\ phase = "sent" /\ phase' = "failed"
          /\ late' \in {late, TRUE} /\ (~late' => open = {})
          /\ UNCHANGED <<current, seen, open>>

ENext == Send \/ Deliver \/ Respond \/ Complete \/ GiveUp
ESpec == EInit /\ [][ENext]_exchange
=============================================================================
