------------------------ MODULE TokenLifetime_proofs -------------------------
(***************************************************************************)
(* What TLAPS proves of TokenLifetime for every window, floor, timeout and *)
(* set of expires_in values.                                               *)
(***************************************************************************)
EXTENDS TokenLifetime, TLAPS

\* An exchange in flight is younger than the HTTP timeout, and a token in an
\* answer was minted after the request was posted.
FlightInv ==
    /\ phase # "idle" => asked <= now /\ now <= asked + HttpTimeout
    /\ phase = "minted" =>
          answer \in Tokens /\ answer.dies >= asked + answer.expiresIn

\* The token in the store was minted at most the HTTP timeout before it came.
HeldInv ==
    held =>
        /\ token \in Tokens
        /\ token.received <= now
        /\ token.expires = token.received + Lifetime(token.expiresIn)
        /\ token.dies + HttpTimeout >= token.received + token.expiresIn

Inv == TypeOK /\ FlightInv /\ HeldInv

LEMMA LifetimeType == \A e \in Nat : Lifetime(e) \in Nat /\ Lifetime(e) >= e
  BY LifetimeAssumption DEF Lifetime

LEMMA InitInv == Init => Inv
  <1> SUFFICES ASSUME Init PROVE Inv
    OBVIOUS
  <1>1. TypeOK
    BY DEF Init, TypeOK
  <1>2. FlightInv
    BY DEF Init, FlightInv
  <1>3. HeldInv
    BY DEF Init, HeldInv
  <1> QED
    BY <1>1, <1>2, <1>3 DEF Inv

LEMMA StepInv == Inv /\ [Next]_vars => Inv'
  <1> SUFFICES ASSUME Inv, [Next]_vars PROVE Inv'
    OBVIOUS
  <1> USE LifetimeAssumption DEF Inv, TypeOK, FlightInv, HeldInv
  <1>1. CASE Tick
    BY <1>1 DEF Tick, Tokens
  <1>2. CASE Ask
    BY <1>2 DEF Ask
  <1>3. ASSUME NEW e \in ExpiresIn, Mint(e) PROVE Inv'
    <2>1. answer' = [expiresIn |-> e, dies |-> now + e, received |-> 0, expires |-> 0]
      BY <1>3 DEF Mint, NoToken
    <2>2. answer' \in Tokens /\ answer'.dies >= asked + answer'.expiresIn
      BY <1>3, <2>1 DEF Mint, Tokens
    <2> QED
      BY <1>3, <2>2 DEF Mint
  <1>4. CASE Receive
    <2>1. answer \in Tokens /\ Lifetime(answer.expiresIn) \in Nat
      BY <1>4, LifetimeType DEF Receive, Tokens
    <2>0. token' = [expiresIn |-> answer.expiresIn, dies |-> answer.dies,
                    received |-> now, expires |-> now + Lifetime(answer.expiresIn)]
      BY <1>4, <2>1 DEF Receive, Tokens
    <2>2. /\ token' \in Tokens
          /\ token'.received = now
          /\ token'.expires = now + Lifetime(token'.expiresIn)
          /\ token'.expiresIn = answer.expiresIn
          /\ token'.dies = answer.dies
      BY <2>0, <2>1 DEF Tokens
    <2>3. token'.dies + HttpTimeout >= now + token'.expiresIn
      BY <1>4, <2>1, <2>2 DEF Receive, Tokens
    <2> QED
      BY <1>4, <2>2, <2>3 DEF Receive
  <1>5. CASE GiveUp
    BY <1>5 DEF GiveUp
  <1>6. CASE UNCHANGED vars
    BY <1>6 DEF vars
  <1> QED
    BY <1>1, <1>2, <1>3, <1>4, <1>5, <1>6 DEF Next

LEMMA InvIsInvariant == Spec => []Inv
  BY InitInv, StepInv, PTL DEF Spec

\* The clock, the exchange and the stored token are well formed.
THEOREM LifetimeTypeCorrect == Spec => []TypeOK
  BY InvIsInvariant, PTL DEF Inv

\* Whatever expires_in says, a token Resolve hands out as fresh still has the
\* renewal window at the server, less the HTTP timeout and what the floor added.
THEOREM UsableTokensHaveMargin == Spec => []UsableTokenHasMargin
  <1>1. Inv => UsableTokenHasMargin
    <2> SUFFICES ASSUME Inv, Usable PROVE UsableTokenHasMargin
      BY DEF UsableTokenHasMargin
    <2>1. /\ token.dies \in Nat /\ token.received \in Nat /\ token.expiresIn \in Nat
          /\ Lifetime(token.expiresIn) \in Nat /\ now \in Nat
      BY LifetimeAssumption, LifetimeType DEF Inv, TypeOK, HeldInv, Usable, Tokens
    <2>2. token.received + Lifetime(token.expiresIn) > now + RenewalWindow
      BY <2>1, LifetimeAssumption DEF Inv, HeldInv, Usable, ExpiredAt
    <2>3. token.dies + HttpTimeout >= token.received + token.expiresIn
      BY DEF Inv, HeldInv, Usable
    <2> QED
      BY <2>1, <2>2, <2>3, LifetimeAssumption DEF UsableTokenHasMargin
  <1> QED
    BY <1>1, InvIsInvariant, PTL

\* The token Resolve hands out is one the server still honours.
UsableTokenIsLive == Usable => now < token.dies

\* A token's server-side life outlasts its use whenever the server grants at
\* least the floor and the renewal window is longer than the HTTP timeout, as
\* 60 s is than 10 s.
THEOREM LongLivedTokensAreLive ==
    ASSUME RenewalWindow >= HttpTimeout,
           \A e \in ExpiresIn : e >= RenewalWindow + Grace
    PROVE  Spec => []UsableTokenIsLive
  <1>1. Inv /\ UsableTokenHasMargin => UsableTokenIsLive
    <2> SUFFICES ASSUME Inv, UsableTokenHasMargin, Usable PROVE now < token.dies
      BY DEF UsableTokenIsLive
    <2>1. /\ token.expiresIn \in ExpiresIn /\ token.expiresIn \in Nat
          /\ token.dies \in Nat /\ now \in Nat
      BY LifetimeAssumption DEF Inv, TypeOK, HeldInv, Usable, Tokens
    <2>2. Lifetime(token.expiresIn) = token.expiresIn
      BY <2>1, LifetimeAssumption DEF Lifetime
    <2> QED
      BY <2>1, <2>2, LifetimeAssumption DEF UsableTokenHasMargin
  <1> QED
    BY <1>1, UsableTokensHaveMargin, InvIsInvariant, PTL

\* No token is refreshed within Grace of being obtained.
THEOREM RefreshesAreGraceApart == Spec => RefreshesAreSpaced
  <1>1. Inv /\ [Next]_vars => (Ask /\ held => now >= token.received + Grace)
    <2> SUFFICES ASSUME Inv, Ask, held PROVE now >= token.received + Grace
      OBVIOUS
    <2>1. token.received \in Nat /\ token.expiresIn \in Nat /\ now \in Nat
      BY LifetimeAssumption DEF Inv, TypeOK, HeldInv, Tokens
    <2>2. Lifetime(token.expiresIn) >= RenewalWindow + Grace
          /\ Lifetime(token.expiresIn) \in Nat
      BY <2>1, LifetimeAssumption DEF Lifetime
    <2>3. token.received + Lifetime(token.expiresIn) <= now + RenewalWindow
      BY DEF Ask, ExpiredAt, Inv, HeldInv
    <2> QED
      BY <2>1, <2>2, <2>3, LifetimeAssumption
  <1> QED
    BY <1>1, InvIsInvariant, PTL DEF Spec, RefreshesAreSpaced
=============================================================================
