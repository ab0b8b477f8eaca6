---------------------------- MODULE TokenLifetime ----------------------------
(***************************************************************************)
(* When Resolve hands out a stored access token and when it asks the auth  *)
(* server for a new one: Credentials.ExpiredAt (src/auth/store.go) and     *)
(* credsFromTokenResponse (src/auth/oidc.go), against the moment the       *)
(* server itself stops honouring the token.  The server counts expires_in  *)
(* from when it minted the token, the client from when the answer reached  *)
(* it, up to the HTTP timeout later.                                       *)
(***************************************************************************)
EXTENDS Integers

CONSTANTS
    RenewalWindow,  \* 60 s: how long before ExpiresAt a token counts as spent
    Grace,          \* 30 s: how far the lifetime floor is above RenewalWindow
    HttpTimeout,    \* 10 s: postForm's limit on one exchange with the server
    ExpiresIn,      \* the expires_in values the server may send (0: omitted)
    MaxTime         \* bound on the clock

ASSUME LifetimeAssumption ==
    /\ RenewalWindow \in Nat /\ Grace \in Nat /\ HttpTimeout \in Nat
    /\ Grace > 0
    /\ ExpiresIn \subseteq Nat
    /\ MaxTime \in Nat

VARIABLES
    now,
    phase,      \* "idle", "asking" (posted) or "minted" (answer under way)
    held,       \* whether the store holds a token
    asked,      \* when the request was posted
    token,      \* the token in the store
    answer      \* the token in the server's answer

vars == <<now, phase, held, asked, token, answer>>

\* expiresIn: what the server said; dies: when the server stops honouring the
\* token; received, expires: when the client got it, and ExpiresAt.
Tokens == [expiresIn : ExpiresIn, dies : Nat, received : Nat, expires : Nat]

NoToken == [expiresIn |-> 0, dies |-> 0, received |-> 0, expires |-> 0]

TypeOK ==
    /\ now \in Nat
    /\ phase \in {"idle", "asking", "minted"}
    /\ held \in BOOLEAN
    /\ asked \in Nat
    /\ token \in Tokens \cup {NoToken}
    /\ answer \in Tokens \cup {NoToken}

-----------------------------------------------------------------------------

\* Not the code's: the floor is below the window, as it once was in grcli.
LifetimeFlooredLow(expiresIn) == IF expiresIn > Grace THEN expiresIn ELSE Grace

\* Not the code's: the window is taken off the lifetime, and there is no floor.
LifetimeLessWindow(expiresIn) == expiresIn - RenewalWindow

\* The lifetime the client records for an answer.
Lifetime(expiresIn) ==
    IF expiresIn > RenewalWindow + Grace THEN expiresIn ELSE RenewalWindow + Grace

\* Not the code's: a token is good until ExpiresAt.
ExpiredWithoutWindow(t, time) == t.expires <= time

\* Credentials.ExpiredAt: !ExpiresAt.After(now.Add(RenewalWindow)).
ExpiredAt(t, time) == t.expires <= time + RenewalWindow

\* Resolve returns the stored token as it is.
Usable == phase = "idle" /\ held /\ ~ExpiredAt(token, now)

Init ==
    /\ now = 0
    /\ phase = "idle"
    /\ held = FALSE
    /\ asked = 0
    /\ token = NoToken
    /\ answer = NoToken

\* The exchange in flight is cut off at the HTTP timeout.
Tick ==
    /\ now < MaxTime
    /\ phase # "idle" => now < asked + HttpTimeout
    /\ now' = now + 1
    /\ UNCHANGED <<phase, held, asked, token, answer>>

\* A login, or a Resolve that finds a stored token inside the renewal window.
Ask ==
    /\ phase = "idle"
    /\ held => ExpiredAt(token, now)
    /\ phase' = "asking"
    /\ asked' = now
    /\ UNCHANGED <<now, held, token, answer>>

\* The auth server (external) mints a token and sends it.
Mint(expiresIn) ==
    /\ phase = "asking"
    /\ phase' = "minted"
    /\ answer' = [NoToken EXCEPT !.expiresIn = expiresIn, !.dies = now + expiresIn]
    /\ UNCHANGED <<now, held, asked, token>>

\* credsFromTokenResponse, and the Put of what it returns.
Receive ==
    /\ phase = "minted"
    /\ phase' = "idle"
    /\ held' = TRUE
    /\ token' = [answer EXCEPT !.received = now,
                               !.expires = now + Lifetime(answer.expiresIn)]
    /\ answer' = NoToken
    /\ UNCHANGED <<now, asked>>

\* The request fails or is cut off; the store keeps what it had.
GiveUp ==
    /\ phase # "idle"
    /\ phase' = "idle"
    /\ answer' = NoToken
    /\ UNCHANGED <<now, held, asked, token>>

Next ==
    \/ Tick
    \/ Ask
    \/ \E e \in ExpiresIn : Mint(e)
    \/ Receive
    \/ GiveUp

Spec == Init /\ [][Next]_vars

-----------------------------------------------------------------------------

\* A token Resolve hands out as fresh has, at the server too, more than the
\* renewal window left, less what the answer may have spent on the way and
\* less what the lifetime floor added to expires_in.
UsableTokenHasMargin ==
    Usable =>
        token.dies > now + RenewalWindow - HttpTimeout
                         - (Lifetime(token.expiresIn) - token.expiresIn)

\* A token is never refreshed right after it was obtained, however short the
\* server says it lives: it is good for at least Grace first.
RefreshesAreSpaced ==
    [][Ask /\ held => now >= token.received + Grace]_vars
=============================================================================
