-------------------------- MODULE DeviceFlow_proofs --------------------------
(***************************************************************************)
(* What TLAPS proves of DeviceFlow for any intervals, lifetimes and        *)
(* timeouts, and a clock without bound.                                    *)
(***************************************************************************)
EXTENDS DeviceFlow, TLAPS

\* Client and server agree on the interval, but for a slow_down under way.
PaceInv ==
    /\ phase = "waiting" => interval = demanded /\ answered <= since
    /\ phase = "posting" =>
          demanded = IF answer = "slow_down" THEN interval + SlowDown ELSE interval
    /\ phase = "posting" => answered <= now
    /\ phase # "posting" => answer = "none"

\* No wait begins after the deadline, and no timer is overslept.
TimeInv ==
    /\ since <= now
    /\ phase = "waiting" => since <= deadline /\ now <= since + interval
    /\ phase = "posting" => since <= deadline + interval /\ now <= since + HttpTimeout

\* How long ago an approval no poll has seen can be.
ApprovalInv ==
    /\ phase = "waiting" /\ decision = "approved" => decided >= since - HttpTimeout
    /\ phase = "posting" /\ decision = "approved" =>
          decided >= since - interval - HttpTimeout
    /\ phase = "posting" /\ answer \in {"pending", "slow_down"} =>
          answered >= since /\ (decision = "approved" => decided >= answered)
    /\ phase = "posting" /\ answer = "expired" => expiry < since + HttpTimeout
    /\ phase \in {"waiting", "posting"} => expiry <= deadline
    /\ phase # "done" => result = "none"
    /\ phase = "starting" => decision = "none"

Inv == TypeOK /\ PaceInv /\ TimeInv /\ ApprovalInv /\ ApprovalIsSeen

LEMMA InvInit == Init => Inv
  BY DeviceFlowAssumption
  DEF Init, Inv, TypeOK, PaceInv, TimeInv, ApprovalInv, ApprovalIsSeen

LEMMA TypeStep == TypeOK /\ [Next]_vars => TypeOK'
  <1> SUFFICES ASSUME TypeOK, [Next]_vars PROVE TypeOK'
    OBVIOUS
  <1> USE DeviceFlowAssumption DEF TypeOK, client, server, user
  <1>1. ASSUME NEW issued \in 0..now, NEW life \in Lifetimes, NEW i \in Intervals,
               NEW e \in Sendable(life), Start(issued, life, e, i)
        PROVE  TypeOK'
    <2>1. IntervalOf(i) \in Nat /\ IntervalOf(i) > 0 /\ ExpiryOf(e) \in Nat
      BY DEF IntervalOf, ExpiryOf, Sendable
    <2> QED
      BY <1>1, <2>1 DEF Start
  <1>2. ASSUME Poll PROVE TypeOK'
    BY <1>2 DEF Poll
  <1>3. ASSUME Cancel \/ NotStarted \/ GiveUp PROVE TypeOK'
    BY <1>3 DEF Cancel, NotStarted, GiveUp, Finish
  <1>4. ASSUME NEW a \in Answers, Answer(a) PROVE TypeOK'
    BY <1>4 DEF Answer
  <1>5. ASSUME Receive PROVE TypeOK'
    BY <1>5 DEF Receive, Again, Widened, Finish
  <1>6. ASSUME NEW d \in {"approved", "denied"}, Decide(d) PROVE TypeOK'
    BY <1>6 DEF Decide
  <1>7. ASSUME Tick PROVE TypeOK'
    BY <1>7 DEF Tick
  <1>8. CASE UNCHANGED vars
    BY <1>8 DEF vars
  <1> QED
    BY <1>1, <1>2, <1>3, <1>4, <1>5, <1>6, <1>7, <1>8 DEF Next

\* The step that takes an answer, as the one that ends the loop or goes round.
LEMMA ReceiveCases ==
    ASSUME Receive
    PROVE  \/ Finish("expired") /\ now > deadline /\ answer \in {"pending", "slow_down"}
           \/ Finish("expired") /\ answer = "expired"
           \/ \E r \in {"token", "denied", "error"} : Finish(r)
           \/ /\ phase' = "waiting" /\ since' = now /\ deadline' = deadline
              /\ result' = result /\ ~(now > deadline)
              /\ \/ answer = "pending" /\ interval' = interval
                 \/ answer = "slow_down" /\ interval' = interval + SlowDown
  BY DEF Receive, Again, Widened

LEMMA PaceStep == TypeOK /\ PaceInv /\ [Next]_vars => PaceInv'
  <1> SUFFICES ASSUME TypeOK, PaceInv, [Next]_vars PROVE PaceInv'
    OBVIOUS
  <1> USE DeviceFlowAssumption DEF TypeOK, PaceInv, client, server, user
  <1>1. ASSUME NEW issued \in 0..now, NEW life \in Lifetimes, NEW i \in Intervals,
               NEW e \in Sendable(life), Start(issued, life, e, i)
        PROVE  PaceInv'
    BY <1>1 DEF Start, IntervalOf
  <1>2. ASSUME Poll PROVE PaceInv'
    BY <1>2 DEF Poll
  <1>3. ASSUME Cancel \/ NotStarted \/ GiveUp PROVE PaceInv'
    BY <1>3 DEF Cancel, NotStarted, GiveUp, Finish
  <1>4. ASSUME NEW a \in Answers, Answer(a) PROVE PaceInv'
    BY <1>4 DEF Answer, Answers
  <1>5. ASSUME Receive PROVE PaceInv'
    BY <1>5, ReceiveCases DEF Receive, Finish
  <1>6. ASSUME NEW d \in {"approved", "denied"}, Decide(d) PROVE PaceInv'
    BY <1>6 DEF Decide
  <1>7. ASSUME Tick PROVE PaceInv'
    BY <1>7 DEF Tick
  <1>8. CASE UNCHANGED vars
    BY <1>8 DEF vars
  <1> QED
    BY <1>1, <1>2, <1>3, <1>4, <1>5, <1>6, <1>7, <1>8 DEF Next

LEMMA TimeStep == TypeOK /\ TimeInv /\ [Next]_vars => TimeInv'
  <1> SUFFICES ASSUME TypeOK, TimeInv, [Next]_vars PROVE TimeInv'
    OBVIOUS
  <1> USE DeviceFlowAssumption DEF TypeOK, TimeInv, client, server, user
  <1>1. ASSUME NEW issued \in 0..now, NEW life \in Lifetimes, NEW i \in Intervals,
               NEW e \in Sendable(life), Start(issued, life, e, i)
        PROVE  TimeInv'
    BY <1>1 DEF Start, IntervalOf, ExpiryOf, Sendable
  <1>2. ASSUME Poll PROVE TimeInv'
    BY <1>2 DEF Poll
  <1>3. ASSUME Cancel \/ NotStarted \/ GiveUp PROVE TimeInv'
    BY <1>3 DEF Cancel, NotStarted, GiveUp, Finish
  <1>4. ASSUME NEW a \in Answers, Answer(a) PROVE TimeInv'
    BY <1>4 DEF Answer
  <1>5. ASSUME Receive PROVE TimeInv'
    BY <1>5, ReceiveCases DEF Receive, Finish
  <1>6. ASSUME NEW d \in {"approved", "denied"}, Decide(d) PROVE TimeInv'
    BY <1>6 DEF Decide
  <1>7. ASSUME Tick PROVE TimeInv'
    BY <1>7 DEF Tick
  <1>8. CASE UNCHANGED vars
    BY <1>8 DEF vars
  <1> QED
    BY <1>1, <1>2, <1>3, <1>4, <1>5, <1>6, <1>7, <1>8 DEF Next

LEMMA ApprovalStep == Inv /\ [Next]_vars => ApprovalInv' /\ ApprovalIsSeen'
  <1> SUFFICES ASSUME Inv, [Next]_vars PROVE ApprovalInv' /\ ApprovalIsSeen'
    OBVIOUS
  <1> USE DeviceFlowAssumption
      DEF Inv, TypeOK, ApprovalInv, ApprovalIsSeen, client, server, user
  <1>1. ASSUME NEW issued \in 0..now, NEW life \in Lifetimes, NEW i \in Intervals,
               NEW e \in Sendable(life), Start(issued, life, e, i)
        PROVE  ApprovalInv' /\ ApprovalIsSeen'
    <2>1. expiry' <= deadline'
      BY <1>1 DEF Start, Sendable, ExpiryOf
    <2> QED
      BY <1>1, <2>1 DEF Start
  <1>2. ASSUME Poll PROVE ApprovalInv' /\ ApprovalIsSeen'
    BY <1>2 DEF Poll, TimeInv, PaceInv
  <1>3. ASSUME Cancel \/ NotStarted \/ GiveUp PROVE ApprovalInv' /\ ApprovalIsSeen'
    BY <1>3 DEF Cancel, NotStarted, GiveUp, Finish
  <1>4. ASSUME NEW a \in Answers, Answer(a) PROVE ApprovalInv' /\ ApprovalIsSeen'
    <2>1. /\ phase = "posting" /\ phase' = "posting" /\ result' = "none"
          /\ answer' = a /\ answered' = now
          /\ UNCHANGED <<since, interval, deadline, expiry, decision, decided>>
      BY <1>4 DEF Answer
    <2>2. a \in {"pending", "slow_down"} => decision = "none"
      BY <1>4 DEF Answer, Honest
    <2>3. a = "expired" => now > expiry
      BY <1>4 DEF Answer, Honest
    <2> QED
      BY <2>1, <2>2, <2>3 DEF TimeInv
  <1>5. ASSUME Receive PROVE ApprovalInv' /\ ApprovalIsSeen'
    <2>1. CASE Finish("expired")
      <3>1. /\ phase = "posting" /\ now <= since + HttpTimeout
            /\ UNCHANGED <<now, interval, expiry, decision, decided>>
            /\ phase' = "done"
        BY <1>5, <2>1 DEF Receive, Finish, TimeInv
      <3>2. CASE now > deadline /\ answer \in {"pending", "slow_down"}
        BY <3>1, <3>2
      <3>3. CASE answer = "expired"
        BY <3>1, <3>3
      <3>4. CASE ~(now > deadline /\ answer \in {"pending", "slow_down"})
                    /\ answer # "expired"
        BY <1>5, <2>1, <3>4, ReceiveCases DEF Finish
      <3> QED
        BY <3>2, <3>3, <3>4
    <2>2. CASE \E r \in {"token", "denied", "error"} : Finish(r)
      BY <1>5, <2>2 DEF Receive, Finish
    <2>3. CASE phase' = "waiting"
      BY <1>5, <2>3, ReceiveCases DEF Receive, Finish, TimeInv
    <2> QED
      BY <1>5, <2>1, <2>2, <2>3, ReceiveCases
  <1>6. ASSUME NEW d \in {"approved", "denied"}, Decide(d)
        PROVE  ApprovalInv' /\ ApprovalIsSeen'
    BY <1>6 DEF Decide, TimeInv, PaceInv
  <1>7. ASSUME Tick PROVE ApprovalInv' /\ ApprovalIsSeen'
    BY <1>7 DEF Tick
  <1>8. CASE UNCHANGED vars
    BY <1>8 DEF vars
  <1> QED
    BY <1>1, <1>2, <1>3, <1>4, <1>5, <1>6, <1>7, <1>8 DEF Next

LEMMA InvIsInvariant == Spec => []Inv
  <1>1. Inv /\ [Next]_vars => Inv'
    BY TypeStep, PaceStep, TimeStep, ApprovalStep DEF Inv
  <1> QED
    BY InvInit, <1>1, PTL DEF Spec

\* Times, intervals, answers and results are well formed throughout a login.
THEOREM DeviceFlowTypeCorrect == Spec => []TypeOK
  BY InvIsInvariant, PTL DEF Inv

\* Whatever intervals and slow_downs the server sends, PollForToken never asks
\* sooner after its last answer than the server wants.
THEOREM PollsKeepTheirDistance == Spec => PollsArePaced
  <1>1. Inv /\ [Next]_vars => [Poll => now >= answered + demanded]_vars
    BY DEF Inv, TypeOK, PaceInv, Poll
  <1> QED
    BY <1>1, InvIsInvariant, PTL DEF Spec, PollsArePaced

\* PollForToken outlives the device code's deadline by at most one interval
\* and one exchange.
THEOREM LoopIsOverInTime == Spec => []LoopIsBounded
  <1>1. Inv => LoopIsBounded
    BY DeviceFlowAssumption DEF Inv, TypeOK, TimeInv, LoopIsBounded
  <1> QED
    BY <1>1, InvIsInvariant, PTL

\* An approval more than an interval and two exchanges before the code ends is
\* never answered with "device code expired".
THEOREM ApprovalsAreSeen == Spec => []ApprovalIsSeen
  BY InvIsInvariant, PTL DEF Inv
=============================================================================
