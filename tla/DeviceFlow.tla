----------------------------- MODULE DeviceFlow ------------------------------
(***************************************************************************)
(* The login of src/auth/oidc.go: what StartDeviceFlow makes of the        *)
(* server's answer, and PollForToken, which waits, asks and waits again    *)
(* until the user has decided or the device code is out of date.  The      *)
(* server (external) keeps its own clock on the code and its own idea of   *)
(* how far apart the polls must be; the user decides when they like.       *)
(*                                                                         *)
(* Time passes in seconds, and timers fire when they are due: a machine    *)
(* that sleeps through one is left out.                                    *)
(***************************************************************************)
EXTENDS Integers

CONSTANTS
    DefaultInterval,  \* 5 s, when the server sends no interval
    DefaultExpiry,    \* 1800 s, when it sends no expires_in
    SlowDown,         \* 5 s, what each slow_down adds
    HttpTimeout,      \* 10 s: postForm's limit on one exchange
    Intervals,        \* the interval values the server may send (<= 0: none)
    Lifetimes,        \* how long the server may honour a device code
    MaxTime           \* bound on the clock

ASSUME DeviceFlowAssumption ==
    /\ DefaultInterval \in Nat \ {0} /\ DefaultExpiry \in Nat \ {0}
    /\ SlowDown \in Nat /\ HttpTimeout \in Nat
    /\ Intervals \subseteq Int
    /\ Lifetimes \subseteq Nat \ {0}
    /\ MaxTime \in Nat

VARIABLES
    now,
    phase,      \* "starting", "waiting" (select), "posting" or "done"
    since,      \* when the phase began
    interval, deadline,
    result,
    answer,     \* the server's answer under way, or "none"
    answered,   \* when the server last answered
    demanded,   \* the interval the server asks for, slow_downs included
    expiry,     \* when the server forgets the device code
    decision,   \* the user's: "none", "approved" or "denied"
    decided     \* when the user took it

client == <<phase, since, interval, deadline, result>>
server == <<answer, answered, demanded, expiry>>
user == <<decision, decided>>
vars == <<now, client, server, user>>

Answers == {"token", "pending", "slow_down", "denied", "expired", "other"}

TypeOK ==
    /\ now \in Nat /\ since \in Nat
    /\ phase \in {"starting", "waiting", "posting", "done"}
    /\ interval \in Nat /\ deadline \in Nat
    /\ phase \in {"waiting", "posting"} => interval > 0
    /\ result \in {"none", "token", "denied", "expired", "cancelled", "error"}
    /\ answer \in Answers \cup {"none"}
    /\ answered \in Nat /\ demanded \in Nat /\ expiry \in Nat
    /\ decision \in {"none", "approved", "denied"}
    /\ decided \in Nat

Init ==
    /\ now = 0 /\ since = 0
    /\ phase = "starting"
    /\ interval = 0 /\ deadline = 0
    /\ result = "none"
    /\ answer = "none"
    /\ answered = 0 /\ demanded = 0 /\ expiry = 0
    /\ decision = "none" /\ decided = 0

-----------------------------------------------------------------------------

\* Not the code's: the interval is taken as it was sent.
IntervalAsSent(i) == i

\* RFC 8628, section 3.2: what an absent interval means.
IntervalOf(i) == IF i <= 0 THEN DefaultInterval ELSE i

\* Not the code's: expires_in is taken as it was sent.
ExpiryAsSent(e) == e

\* PollForToken: what an absent expires_in is taken for.
ExpiryOf(e) == IF e <= 0 THEN DefaultExpiry ELSE e

\* The expires_in of a server that honours a code for life seconds; one that
\* sends none honours it no longer than DefaultExpiry.
Sendable(life) == {life} \cup (IF life <= DefaultExpiry THEN {0} ELSE {})

\* StartDeviceFlow returns, and PollForToken begins.  The server issued the
\* code, good for life seconds, a while before; it sent expires_in e.
Start(issued, life, e, i) ==
    /\ phase = "starting"
    /\ phase' = "waiting"
    /\ since' = now
    /\ interval' = IntervalOf(i)
    /\ deadline' = now + ExpiryOf(e)
    /\ answered' = issued
    /\ demanded' = IF i <= 0 THEN DefaultInterval ELSE i
    /\ expiry' = issued + life
    /\ UNCHANGED <<now, result, answer, user>>

\* The timer of the select fires, and the poll is posted.
Poll ==
    /\ phase = "waiting"
    /\ now >= since + interval
    /\ phase' = "posting"
    /\ since' = now
    /\ UNCHANGED <<now, interval, deadline, result, server, user>>

Finish(r) ==
    /\ phase' = "done"
    /\ result' = r
    /\ UNCHANGED <<since, interval, deadline>>

\* StartDeviceFlow returns an error.
NotStarted ==
    /\ phase = "starting"
    /\ Finish("error")
    /\ UNCHANGED <<now, server, user>>

Cancel ==
    /\ phase = "waiting"
    /\ Finish("cancelled")
    /\ UNCHANGED <<now, server, user>>

\* The server answers a poll by what the user decided while the code is good.
\* When there is no decision, it may go on saying so after the code's end.
Honest(a) ==
    CASE a \in {"pending", "slow_down"} -> decision = "none"
      [] a = "token"   -> now <= expiry /\ decision = "approved"
      [] a = "denied"  -> now <= expiry /\ decision = "denied"
      [] a = "expired" -> now > expiry
      [] a = "other"   -> TRUE

Answer(a) ==
    /\ phase = "posting" /\ answer = "none"
    /\ Honest(a)
    /\ answer' = a
    /\ answered' = now
    /\ demanded' = IF a = "slow_down" THEN demanded + SlowDown ELSE demanded
    /\ UNCHANGED <<now, client, expiry, user>>

\* Not the code's: the loop does not look at the deadline.
AgainUnbounded(wait) ==
    /\ phase' = "waiting"
    /\ since' = now
    /\ interval' = wait
    /\ UNCHANGED <<deadline, result>>

\* Not the code's: the deadline is worked out in every round.
AgainRenewed(wait) ==
    /\ phase' = "waiting"
    /\ since' = now
    /\ interval' = wait
    /\ deadline' = now + DefaultExpiry
    /\ UNCHANGED result

\* Once more round the loop, which looks at the deadline first.
Again(wait) ==
    IF now > deadline
    THEN Finish("expired")
    ELSE /\ phase' = "waiting"
         /\ since' = now
         /\ interval' = wait
         /\ UNCHANGED <<deadline, result>>

\* Not the code's: slow_down is taken for authorization_pending.
NotWidened(wait) == wait

Widened(wait) == wait + SlowDown

Receive ==
    /\ phase = "posting"
    /\ \/ answer = "pending" /\ Again(interval)
       \/ answer = "slow_down" /\ Again(Widened(interval))
       \/ answer \in {"token", "denied", "expired"} /\ Finish(answer)
       \/ answer = "other" /\ Finish("error")
    /\ answer' = "none"
    /\ UNCHANGED <<now, answered, demanded, expiry, user>>

\* The request fails, is cancelled, or its answer does not come in time.
GiveUp ==
    /\ phase = "posting"
    /\ Finish("error")
    /\ answer' = "none"
    /\ UNCHANGED <<now, answered, demanded, expiry, user>>

Decide(d) ==
    /\ phase \in {"waiting", "posting"}
    /\ decision = "none" /\ now <= expiry
    /\ decision' = d
    /\ decided' = now
    /\ UNCHANGED <<now, client, server>>

\* No timer is overslept.
Tick ==
    /\ phase # "done"
    /\ now < MaxTime
    /\ phase = "starting" => now < HttpTimeout
    /\ phase = "waiting" => now < since + interval
    /\ phase = "posting" => now < since + HttpTimeout
    /\ now' = now + 1
    /\ UNCHANGED <<client, server, user>>

Next ==
    \/ \E issued \in 0..now, life \in Lifetimes, i \in Intervals :
          \E e \in Sendable(life) : Start(issued, life, e, i)
    \/ NotStarted
    \/ Poll \/ Cancel \/ Receive \/ GiveUp
    \/ \E a \in Answers : Answer(a)
    \/ \E d \in {"approved", "denied"} : Decide(d)
    \/ Tick

Spec == Init /\ [][Next]_vars

\* Time goes on, timers fire, and an exchange ends one way or another (the
\* HTTP client's timeout sees to it); the server and the user owe nothing.
FairSpec == Spec /\ WF_vars(Tick) /\ WF_vars(Poll) /\ WF_vars(Receive \/ GiveUp)

-----------------------------------------------------------------------------

\* Polls are never closer to the server's last answer than the server asked,
\* every slow_down included.
PollsArePaced == [][Poll => now >= answered + demanded]_vars

\* PollForToken is over one interval and one exchange after the device code's
\* deadline, whatever the server answers.
LoopIsBounded ==
    phase \in {"waiting", "posting"} => now <= deadline + interval + HttpTimeout

\* A user told that the code expired did not approve in good time: an approval
\* one interval and two exchanges before the code ends is seen by some poll.
ApprovalIsSeen ==
    result = "expired" /\ decision = "approved" =>
        decided > expiry - interval - 2 * HttpTimeout

\* A server that answers authorization_pending or slow_down for ever cannot
\* keep the loop going.
LoopEnds == phase = "waiting" ~> phase = "done"
=============================================================================
