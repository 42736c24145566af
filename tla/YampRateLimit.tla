--------------------------- MODULE YampRateLimit ---------------------------
(***************************************************************************)
(* The two rate limits of ProcessRequest: the counter `ratelimited' in     *)
(* front of every request, and the pause between two "register" requests.  *)
(*                                                                         *)
(* Both live in the slot of client_sockets, and neither accepting nor      *)
(* ending a connection resets them: what one connection left behind, the   *)
(* next one in the slot finds.  A handler calls time(NULL) several times,  *)
(* and the second may change between any two calls.  The clock is assumed  *)
(* not to step back.                                                       *)
(***************************************************************************)
EXTENDS Integers

CONSTANTS
    Slots,          \* indices of client_sockets
    BURST,          \* the limit `ratelimited' is compared with (30)
    REGISTER_WAIT,  \* seconds between two registrations (300)
    Epoch,          \* the time the server starts
    MaxTime         \* bound: the last second that is modelled

ASSUME LimitsAssumption ==
    /\ BURST \in Nat \ {0}
    /\ REGISTER_WAIT \in Nat \ {0}
ASSUME TimesAssumption ==
    /\ Epoch \in Nat /\ Epoch >= REGISTER_WAIT
    /\ MaxTime \in Nat /\ MaxTime >= Epoch

VARIABLES
    now,              \* the clock, in seconds
    connected,        \* slots that hold a connection
    ratelimited,      \* \
    LastEndpoint,     \*  fields of the Connection in each slot
    LastRegistration  \* /

vars == <<now, connected, ratelimited, LastEndpoint, LastRegistration>>

Seconds == now .. MaxTime

Init ==
    /\ now = Epoch
    /\ connected = {}
    /\ ratelimited = [s \in Slots |-> 0]
    /\ LastEndpoint = [s \in Slots |-> 0]
    /\ LastRegistration = [s \in Slots |-> 0]

Tick ==
    /\ now < MaxTime
    /\ now' = now + 1
    /\ UNCHANGED <<connected, ratelimited, LastEndpoint, LastRegistration>>

\* Mutant: accepting a connection clears its slot.
ConnectClears(s) ==
    /\ s \notin connected
    /\ connected' = connected \cup {s}
    /\ LastRegistration' = [LastRegistration EXCEPT ![s] = 0]
    /\ UNCHANGED <<now, ratelimited, LastEndpoint>>

\* The accept branches of the loop assign fd, ssl, connected and encrypt only.
Connect(s) ==
    /\ s \notin connected
    /\ connected' = connected \cup {s}
    /\ UNCHANGED <<now, ratelimited, LastEndpoint, LastRegistration>>

Disconnect(s) ==
    /\ s \in connected
    /\ connected' = connected \ {s}
    /\ UNCHANGED <<now, ratelimited, LastEndpoint, LastRegistration>>

\* The counter once the time since the last request is taken off.  t1, t2 and
\* t3 are what the three calls of time(NULL) return.
Load(s, t1, t2, t3) ==
    LET same    == t1 - LastEndpoint[s] < 1
        hits    == ratelimited[s] + IF same THEN 1 ELSE 0
        last    == IF same THEN LastEndpoint[s] ELSE t2
        elapsed == t3 - last
        load    == hits - 3 * elapsed
    IN  IF load > 0 THEN load ELSE 0

\* The test against BURST, and con->ratelimited-- behind it.
Account(load) == IF load > BURST THEN load ELSE load - 1

\* Mutant: the stamp is the time from which the next request is free.
StampNext(s, t) == LastEndpoint' = [LastEndpoint EXCEPT ![s] = t + 1]

\* con->LastEndpoint = now
Stamp(s, t) == LastEndpoint' = [LastEndpoint EXCEPT ![s] = t]

\* The preamble of ProcessRequest, with a handler behind it that ends at t.
Preamble(s, t1, t2, t3, t) ==
    /\ s \in connected
    /\ ratelimited' = [ratelimited EXCEPT ![s] = Account(Load(s, t1, t2, t3))]
    /\ Stamp(s, t3)
    /\ now' = t
    /\ UNCHANGED connected

\* Any request but a successful "register"; over the limit it would be answered
\* with error 5, "Ratelimited".  Its handler ends at t.
Request(s) ==
    \E t1, t2, t3, t \in Seconds :
        /\ t1 <= t2 /\ t2 <= t3 /\ t3 <= t
        /\ Preamble(s, t1, t2, t3, t)
        /\ UNCHANGED LastRegistration

\* Mutant: the comparison is off by one.
MayRegisterEarly(s, t) == t - LastRegistration[s] >= REGISTER_WAIT - 1

MayRegister(s, t) == t - LastRegistration[s] >= REGISTER_WAIT

\* A "register" that passes the test at t4 and has made its account and session
\* at t5.
Register(s) ==
    \E t1, t2, t3, t4, t5 \in Seconds :
        /\ t1 <= t2 /\ t2 <= t3 /\ t3 <= t4 /\ t4 <= t5
        /\ Load(s, t1, t2, t3) <= BURST
        /\ MayRegister(s, t4)
        /\ Preamble(s, t1, t2, t3, t5)
        /\ LastRegistration' = [LastRegistration EXCEPT ![s] = t5]

Next ==
    \/ Tick
    \/ \E s \in Slots : Connect(s) \/ Disconnect(s) \/ Request(s) \/ Register(s)

Spec == Init /\ [][Next]_vars

-----------------------------------------------------------------------------
(* Properties.                                                             *)

TypeOK ==
    /\ now \in Epoch .. MaxTime
    /\ connected \subseteq Slots
    /\ ratelimited \in [Slots -> Int]
    /\ LastEndpoint \in [Slots -> 0 .. now]
    /\ LastRegistration \in [Slots -> 0 .. now]

\* Two registrations through the same slot are REGISTER_WAIT apart, although
\* the test and the assignment read the clock separately and the connection
\* may have been replaced in between ("register").
RegistrationsAreSpaced ==
    [][\A s \in Slots : LastRegistration'[s] # LastRegistration[s] =>
           LastRegistration'[s] - LastRegistration[s] >= REGISTER_WAIT]_vars
=============================================================================
