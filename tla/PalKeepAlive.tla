---------------------------- MODULE PalKeepAlive ----------------------------
(***************************************************************************)
(* The keep-alive timer of a connection, in time: after how long a silence *)
(* does the server hear from the client?  One connection at a time, clocks *)
(* in ticks, the timer as libuv keeps it: a due time and a repeat value.   *)
(*                                                                         *)
(* Assumed: uv_run is called often enough that a due timer runs before     *)
(* time goes on, and no logon of the connection before is still due when   *)
(* the next one opens.  What overlapping connections do to the timer is    *)
(* PalClient's.                                                            *)
(***************************************************************************)
EXTENDS Naturals

CONSTANTS
    Seconds,    \* start delays and intervals the application may ask for
    PerSecond,  \* ticks in a second: 1000
    Wrap,       \* a uint32_t wraps here: 2^32
    Horizon     \* bound: the longest silence that is told from longer ones

ASSUME KeepAliveAssumption ==
    /\ Seconds \subseteq Nat
    /\ PerSecond \in Nat \ {0} /\ Wrap \in Nat \ {0} /\ Horizon \in Nat

VARIABLES
    state,      \* client->state
    open,       \* the socket is open and read
    logon,      \* a logon was submitted, its callback is due
    armed,      \* the timer is active
    left,       \* ticks until it is due
    repeat,     \* its repeat value
    interval,   \* idlePingTimerIntervalInSec when the timer was started
    silence,    \* ticks since a message was submitted or the client got connected
    pings       \* history: pings sent on this connection, two or more as 2

vars == <<state, open, logon, armed, left, repeat, interval, silence, pings>>

Init ==
    /\ state = "DISCONNECTED" /\ open = FALSE /\ logon = FALSE
    /\ armed = FALSE /\ left = 0 /\ repeat = 0
    /\ interval = 0 /\ silence = 0 /\ pings = 0

(* 1000 * seconds, a product of 32 bits.                                     *)
Milliseconds(sec) == (PerSecond * sec) % Wrap

(* Variant: whoever sends restarts the timer, whether it repeats or not.     *)
EagerAgain == armed' = TRUE /\ left' = repeat

(* uv_timer_again: a timer that does not repeat is left as it is.            *)
Again ==
    IF repeat = 0 THEN UNCHANGED <<armed, left>> ELSE armed' = TRUE /\ left' = repeat

(* Variant: a message does not push the timer back.                          *)
UntimedSubmit == silence' = 0 /\ UNCHANGED <<armed, left>>

Submit == silence' = 0 /\ Again

(* The connection stands; the timer is started with the client's delays.     *)
OpenSocketEvent ==
    /\ ~open /\ ~logon
    /\ \E delay \in Seconds, sec \in Seconds :
        /\ left' = Milliseconds(delay)
        /\ repeat' = Milliseconds(sec)
        /\ interval' = sec
    /\ armed' = TRUE
    /\ state' = "HANDSHAKING" /\ open' = TRUE
    /\ silence' = 0 /\ pings' = 0
    /\ UNCHANGED logon

(* The server greets, perhaps again, and a logon is submitted.               *)
Greeted ==
    /\ open /\ state = "HANDSHAKING"
    /\ logon' = TRUE
    /\ Submit
    /\ UNCHANGED <<state, open, repeat, interval, pings>>

(* The logon is written, or not.                                             *)
LogonEvent ==
    /\ logon
    /\ logon' = FALSE
    /\ state' \in {"CONNECTED", "DISCONNECTED"}
    /\ silence' = 0
    /\ UNCHANGED <<open, armed, left, repeat, interval, pings>>

(* A call that tests the state; after a Disconnect it passes the test, too.   *)
Request ==
    /\ state = "CONNECTED"
    /\ Submit
    /\ UNCHANGED <<state, open, logon, repeat, interval, pings>>

(* The timer is due.  libuv stops it, starts it again with its repeat value   *)
(* if it has one, and then calls; the callback pings in CONNECTED only.      *)
TimerPingServer ==
    /\ armed /\ left = 0
    /\ armed' = (repeat # 0)
    /\ left' = repeat
    /\ IF state = "CONNECTED"
       THEN silence' = 0 /\ pings' = IF pings < 2 THEN pings + 1 ELSE pings
       ELSE UNCHANGED <<silence, pings>>
    /\ UNCHANGED <<state, open, logon, repeat, interval>>

(* Disconnect stops the timer and closes; the state is left as it is.        *)
Disconnect ==
    /\ open
    /\ open' = FALSE
    /\ armed' = FALSE /\ left' = 0
    /\ UNCHANGED <<state, logon, repeat, interval, silence, pings>>

(* Time goes on when no timer is due.                                        *)
Tick ==
    /\ armed => left > 0
    /\ silence < Horizon
    /\ silence' = silence + 1
    /\ left' = IF armed THEN left - 1 ELSE left
    /\ UNCHANGED <<state, open, logon, armed, repeat, interval, pings>>

Next ==
    \/ OpenSocketEvent \/ Greeted \/ LogonEvent \/ Request
    \/ TimerPingServer \/ Disconnect \/ Tick

Spec == Init /\ [][Next]_vars

-----------------------------------------------------------------------------
(* Properties.                                                              *)

(* Every variable has its type.                                              *)
TypeOK ==
    /\ state \in {"DISCONNECTED", "HANDSHAKING", "CONNECTED"}
    /\ open \in BOOLEAN /\ logon \in BOOLEAN /\ armed \in BOOLEAN
    /\ left \in Nat /\ repeat \in Nat /\ interval \in Nat
    /\ silence \in Nat /\ pings \in 0..2

(* While the client is connected the server hears from it at least once in    *)
(* every interval, counted from the moment it got connected: whatever the     *)
(* start delay was, however often the timer was due in the handshake, and     *)
(* also when the product of milliseconds has wrapped, unless to 0.            *)
SilenceBounded ==
    open /\ state = "CONNECTED" /\ Milliseconds(interval) # 0 =>
        silence <= PerSecond * interval

(* A timer whose interval is 0, asked for or wrapped, pings once at most and  *)
(* is never armed again, however many messages are sent.                     *)
OnePingWithoutInterval ==
    open /\ Milliseconds(interval) = 0 =>
        /\ pings <= 1
        /\ pings = 1 => ~armed

(* The inductive invariant behind both: a repeating timer of an open          *)
(* connection is always armed, is due within an interval once a logon was     *)
(* submitted, and in CONNECTED is due before the interval is over.            *)
Inv ==
    /\ TypeOK
    /\ repeat = Milliseconds(interval)
    /\ open /\ repeat # 0 => armed
    /\ open /\ repeat # 0 /\ (logon \/ state = "CONNECTED") => left <= repeat
    /\ open /\ repeat # 0 /\ state = "CONNECTED" => silence + left <= repeat
    /\ OnePingWithoutInterval
=============================================================================
