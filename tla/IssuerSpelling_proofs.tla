------------------------ MODULE IssuerSpelling_proofs ------------------------
(***************************************************************************)
(* What canonicalIssuer (src/auth/store.go) returns, for issuers of any    *)
(* length with any space around them and any number of slashes at their    *)
(* end; and from it, that every spelling of an issuer finds its login.     *)
(* The length of the padding is arbitrary: nothing is by induction, since  *)
(* trimming is defined by the last (first) position of another character.  *)
(***************************************************************************)
EXTENDS MC_CredentialStore, SequenceTheorems, TLAPS

Characters == Spelling!Characters

Space == " "

Slash == "/"

LEMMA Trimmed ==
    /\ Space \in Characters /\ {Space} \subseteq Characters
    /\ Slash \in Characters /\ {Slash} \subseteq Characters
    /\ Slash # Space
BY DEF Space, Slash, Characters, Spelling!Characters

-----------------------------------------------------------------------------
(* Trimming. *)

LEMMA MaxIs ==
    ASSUME NEW T \in SUBSET Int, NEW m \in T, \A y \in T : m >= y
    PROVE  Spelling!Max(T) = m
<1>1. ASSUME NEW x \in T, \A y \in T : x >= y
      PROVE  x = m
    BY <1>1
<1> QED
    BY <1>1 DEF Spelling!Max

LEMMA MinIs ==
    ASSUME NEW T \in SUBSET Int, NEW m \in T, \A y \in T : m =< y
    PROVE  Spelling!Min(T) = m
<1>1. ASSUME NEW x \in T, \A y \in T : x =< y
      PROVE  x = m
    BY <1>1
<1> QED
    BY <1>1 DEF Spelling!Min

\* What is trimmed from the right is the run of c at the end.
LEMMA TrimRightConcat ==
    ASSUME NEW c \in Characters, NEW s \in Seq(Characters),
           NEW run \in Seq({c}),
           s = <<>> \/ s[Len(s)] # c
    PROVE  Spelling!TrimRight(s \o run, c) = s
<1> DEFINE whole == s \o run
           kept == Spelling!Others(whole, c) \cup {0}
<1>1. run \in Seq(Characters) /\ \A i \in 1..Len(run) : run[i] = c
    BY SeqMonotonic, ElementOfSeq, {c} \subseteq Characters
<1>2. /\ whole \in Seq(Characters)
      /\ Len(whole) = Len(s) + Len(run)
      /\ \A i \in 1..Len(s) + Len(run) :
            whole[i] = IF i <= Len(s) THEN s[i] ELSE run[i - Len(s)]
    BY <1>1, ConcatProperties
<1>3. Len(s) \in Nat /\ Len(run) \in Nat
    BY <1>1, LenProperties
<1> HIDE DEF whole
<1>4. \A i \in 1..Len(whole) : whole[i] # c => i =< Len(s)
    BY <1>1, <1>2, <1>3
<1>5. s # <<>> => Len(s) \in Spelling!Others(whole, c)
    BY <1>2, <1>3, EmptySeq DEF Spelling!Others
<1>6. Len(s) \in kept
    BY <1>5, EmptySeq
<1>7. kept \in SUBSET Int /\ \A i \in kept : Len(s) >= i
    BY <1>2, <1>3, <1>4 DEF Spelling!Others
<1>8. Spelling!Max(kept) = Len(s)
    BY <1>6, <1>7, MaxIs
<1>9. SubSeq(whole, 1, Len(s)) = s
  <2>1. \A i \in 1..Len(s) : whole[i] = s[i] /\ s[i] \in Characters
    BY <1>2, <1>3, ElementOfSeq
  <2>2. /\ SubSeq(whole, 1, Len(s)) \in Seq(Characters)
        /\ Len(SubSeq(whole, 1, Len(s))) = Len(s)
        /\ \A i \in 1..Len(s) : SubSeq(whole, 1, Len(s))[i] = whole[i]
    BY <2>1, <1>3, SubSeqProperties
  <2> QED
    BY <2>1, <2>2, SeqEqual
<1> QED
    BY <1>8, <1>9 DEF Spelling!TrimRight, whole

\* What is trimmed from the left is the run of c at the start.
LEMMA TrimLeftConcat ==
    ASSUME NEW c \in Characters, NEW s \in Seq(Characters),
           NEW run \in Seq({c}),
           s = <<>> \/ s[1] # c
    PROVE  Spelling!TrimLeft(run \o s, c) = s
<1> DEFINE whole == run \o s
           kept == Spelling!Others(whole, c) \cup {Len(whole) + 1}
<1>1. run \in Seq(Characters) /\ \A i \in 1..Len(run) : run[i] = c
    BY SeqMonotonic, ElementOfSeq, {c} \subseteq Characters
<1>2. /\ whole \in Seq(Characters)
      /\ Len(whole) = Len(run) + Len(s)
      /\ \A i \in 1..Len(run) + Len(s) :
            whole[i] = IF i <= Len(run) THEN run[i] ELSE s[i - Len(run)]
    BY <1>1, ConcatProperties
<1>3. Len(s) \in Nat /\ Len(run) \in Nat
    BY <1>1, LenProperties
<1> HIDE DEF whole
<1>4. \A i \in 1..Len(whole) : whole[i] # c => i > Len(run)
    BY <1>1, <1>2, <1>3
<1>5. s # <<>> => Len(run) + 1 \in Spelling!Others(whole, c)
  <2>1. ASSUME s # <<>> PROVE whole[Len(run) + 1] = s[1] /\ Len(s) >= 1
    BY <2>1, <1>2, <1>3, EmptySeq
  <2> QED
    BY <2>1, <1>2, <1>3 DEF Spelling!Others
<1>6. s = <<>> => Len(whole) = Len(run)
    BY <1>2, <1>3, EmptySeq
<1>7. Len(run) + 1 \in kept
    BY <1>5, <1>6
<1>8. kept \in SUBSET Int /\ \A i \in kept : Len(run) + 1 =< i
    BY <1>2, <1>3, <1>4 DEF Spelling!Others
<1>9. Spelling!Min(kept) = Len(run) + 1
    BY <1>7, <1>8, MinIs
<1>10. SubSeq(whole, Len(run) + 1, Len(whole)) = s
  <2> DEFINE rest == SubSeq(whole, Len(run) + 1, Len(whole))
  <2>1. \A i \in Len(run) + 1..Len(whole) : whole[i] \in Characters
    BY <1>2, <1>3, ElementOfSeq
  <2>2. ASSUME NEW i \in 1..Len(s)
        PROVE  whole[Len(run) + 1 + i - 1] = s[i]
    <3>1. /\ Len(run) + i \in 1..Len(run) + Len(s)
          /\ ~(Len(run) + i <= Len(run))
          /\ Len(run) + i - Len(run) = i
          /\ Len(run) + 1 + i - 1 = Len(run) + i
        BY <1>3
    <3>2. whole[Len(run) + i] = s[Len(run) + i - Len(run)]
        BY <1>2, <3>1
    <3> QED
        BY <3>1, <3>2
  <2>3. /\ rest \in Seq(Characters)
        /\ Len(rest) = IF Len(run) + 1 <= Len(whole)
                       THEN Len(whole) - (Len(run) + 1) + 1 ELSE 0
        /\ \A i \in 1..Len(whole) - (Len(run) + 1) + 1 :
              rest[i] = whole[Len(run) + 1 + i - 1]
    <3>1. Len(run) + 1 \in Int /\ Len(whole) \in Int
        BY <1>2, <1>3
    <3> QED
        BY <2>1, <3>1, SubSeqProperties
  <2> HIDE DEF rest
  <2>4. Len(rest) = Len(s) /\ \A i \in 1..Len(rest) : rest[i] = s[i]
    BY <2>2, <2>3, <1>2, <1>3
  <2>5. rest = s
    BY <2>3, <2>4, SeqEqual
  <2> QED
    BY <2>5 DEF rest
<1> QED
    BY <1>9, <1>10 DEF Spelling!TrimLeft, whole

\* Space on both sides goes, whatever is between stays.
LEMMA TrimSpaceConcat ==
    ASSUME NEW body \in Seq(Characters),
           NEW left \in Seq({Space}), NEW right \in Seq({Space}),
           body = <<>> \/ (body[1] # Space /\ body[Len(body)] # Space)
    PROVE  Spelling!TrimSpace((left \o body) \o right) = body
<1>1. Space \in Characters /\ {Space} \subseteq Characters
    BY Trimmed
<1>2. left \in Seq(Characters) /\ right \in Seq(Characters)
    BY <1>1, SeqMonotonic
<1>3. CASE body = <<>>
  <2>1. left \o right \in Seq({Space})
    BY ConcatProperties
  <2>2. <<>> \in Seq(Characters) /\ <<>> \in Seq({Space})
    BY EmptySeq
  <2>3. (left \o body) \o right = <<>> \o (left \o right)
    BY <1>3, <2>1, ConcatEmptySeq
  <2>4. Spelling!TrimRight(<<>> \o (left \o right), Space) = <<>>
    BY <1>1, <2>1, <2>2, TrimRightConcat
  <2>5. <<>> \o <<>> = <<>>
    BY <2>2, ConcatEmptySeq
  <2>6. Spelling!TrimLeft(<<>> \o <<>>, Space) = <<>>
    BY <1>1, <2>2, TrimLeftConcat
  <2> QED
    BY <1>3, <2>3, <2>4, <2>5, <2>6 DEF Spelling!TrimSpace, Space
<1>4. CASE body # <<>>
  <2>1. /\ left \o body \in Seq(Characters)
        /\ (left \o body)[Len(left \o body)] = body[Len(body)]
    <3>1. Len(body) \in Nat \ {0} /\ Len(left) \in Nat
        BY <1>2, <1>4, EmptySeq, LenProperties
    <3>2. /\ left \o body \in Seq(Characters)
          /\ Len(left \o body) = Len(left) + Len(body)
          /\ \A i \in 1..Len(left) + Len(body) : (left \o body)[i] =
                IF i <= Len(left) THEN left[i] ELSE body[i - Len(left)]
        BY <1>2, ConcatProperties
    <3> DEFINE last == Len(left) + Len(body)
    <3>3. /\ last \in 1..last /\ ~(last <= Len(left))
          /\ last - Len(left) = Len(body)
        BY <3>1
    <3>4. (left \o body)[last] = body[last - Len(left)]
        BY <3>2, <3>3
    <3> QED
        BY <3>2, <3>3, <3>4
  <2>2. Spelling!TrimRight((left \o body) \o right, Space) = left \o body
    BY <1>1, <1>4, <2>1, TrimRightConcat
  <2>3. Spelling!TrimLeft(left \o body, Space) = body
    BY <1>1, <1>4, TrimLeftConcat
  <2> QED
    BY <2>2, <2>3 DEF Spelling!TrimSpace, Space
<1> QED
    BY <1>3, <1>4

-----------------------------------------------------------------------------
(* The key of the credential file. *)

\* An issuer neither starts with space nor ends in space or a slash, or it is
\* empty (then every spelling of only space and slashes keys the blank entry).
IsIssuer(s) ==
    /\ s \in Seq(Characters)
    /\ s # <<>> => s[1] # Space /\ s[Len(s)] \notin {Space, Slash}

\* canonicalIssuer returns the issuer itself for every spelling of it: any
\* slashes after it, and any space around the two (its trims are in the right
\* order, and one of each is enough).
THEOREM CanonicalIsTheIssuer ==
    ASSUME NEW issuer, IsIssuer(issuer),
           NEW left \in Seq({Space}), NEW slashes \in Seq({Slash}),
           NEW right \in Seq({Space})
    PROVE  Spelling!CanonicalIssuer(((left \o issuer) \o slashes) \o right)
             = issuer
<1> DEFINE body == issuer \o slashes
<1>1. /\ Slash \in Characters /\ {Slash} \subseteq Characters
      /\ Space \in Characters /\ {Space} \subseteq Characters
      /\ Slash # Space
    BY Trimmed
<1>2. /\ issuer \in Seq(Characters) /\ left \in Seq(Characters)
      /\ slashes \in Seq(Characters)
    BY <1>1, SeqMonotonic DEF IsIssuer
<1>3. ((left \o issuer) \o slashes) \o right = (left \o body) \o right
  <2>1. (left \o issuer) \o slashes = left \o body
    BY <1>2, ConcatAssociative
  <2> QED
    BY <2>1
<1>4. /\ body \in Seq(Characters)
      /\ Len(body) = Len(issuer) + Len(slashes)
      /\ \A i \in 1..Len(issuer) + Len(slashes) :
            body[i] = IF i <= Len(issuer) THEN issuer[i]
                                          ELSE slashes[i - Len(issuer)]
    BY <1>2, ConcatProperties
<1>5. /\ Len(issuer) \in Nat /\ Len(slashes) \in Nat
      /\ issuer # <<>> => Len(issuer) > 0
      /\ \A i \in 1..Len(slashes) : slashes[i] = Slash
  <2>1. Len(issuer) \in Nat /\ Len(slashes) \in Nat
    BY <1>2, LenProperties
  <2>2. issuer # <<>> => Len(issuer) > 0
    BY <1>2, EmptySeq
  <2>3. \A i \in 1..Len(slashes) : slashes[i] = Slash
    BY ElementOfSeq
  <2> QED
    BY <2>1, <2>2, <2>3
<1> HIDE DEF body
<1>6. body = <<>> \/ (body[1] # Space /\ body[Len(body)] # Space)
  <2> SUFFICES ASSUME body # <<>>
               PROVE  body[1] # Space /\ body[Len(body)] # Space
    OBVIOUS
  <2>1. Len(body) \in Nat /\ Len(body) > 0
    BY <1>4, EmptySeq
  <2>2. CASE issuer = <<>>
    <3>1. Len(issuer) = 0
        BY <2>2, EmptySeq
    <3>2. \A i \in 1..Len(body) : body[i] = Slash
      <4>1. ASSUME NEW i \in 1..Len(body) PROVE body[i] = slashes[i]
          BY <1>4, <1>5, <3>1
      <4>2. Len(body) = Len(slashes)
          BY <1>4, <1>5, <3>1
      <4> QED
          BY <4>1, <4>2, <1>5
    <3>3. 1 \in 1..Len(body) /\ Len(body) \in 1..Len(body)
        BY <2>1
    <3> QED
        BY <1>1, <3>2, <3>3
  <2>3. CASE issuer # <<>>
    <3>1. /\ issuer[1] # Space
          /\ issuer[Len(issuer)] # Space
        BY <2>3 DEF IsIssuer
    <3>2. body[1] = issuer[1]
        BY <1>4, <1>5, <2>3
    <3>3. CASE Len(slashes) = 0
      <4>1. Len(body) = Len(issuer) /\ body[Len(body)] = issuer[Len(issuer)]
          BY <1>4, <1>5, <2>1, <3>3
      <4> QED
          BY <4>1, <3>1, <3>2
    <3>4. CASE Len(slashes) # 0
      <4> DEFINE last == Len(issuer) + Len(slashes)
      <4>1. /\ last \in 1..last /\ ~(last <= Len(issuer))
            /\ last - Len(issuer) = Len(slashes)
            /\ Len(slashes) \in 1..Len(slashes)
          BY <1>5, <3>4
      <4>2. body[last] = slashes[last - Len(issuer)]
          BY <1>4, <4>1
      <4>3. body[Len(body)] = Slash
          BY <1>4, <1>5, <4>1, <4>2
      <4> QED
          BY <1>1, <4>3, <3>1, <3>2
    <3> QED
        BY <3>3, <3>4
  <2> QED
    BY <2>2, <2>3
<1>7. Spelling!TrimSpace((left \o body) \o right) = body
    BY <1>4, <1>6, TrimSpaceConcat
<1>8. Spelling!TrimRight(body, Slash) = issuer
    BY <1>1, <1>2, TrimRightConcat DEF IsIssuer, body
<1> QED
    BY <1>3, <1>7, <1>8 DEF Spelling!CanonicalIssuer, Slash

-----------------------------------------------------------------------------
(* The store. *)

\* s is a spelling of the issuer.
Spells(s, issuer) ==
    \E left \in Seq({Space}), slashes \in Seq({Slash}), right \in Seq({Space}) :
        s = ((left \o issuer) \o slashes) \o right

\* Canon is the code's function, and callers may use any spelling that the
\* property compares.
CanonIsTheCodes ==
    /\ Canon = MCCanon
    /\ \A issuer \in MCIssuers : SpellingsOf(issuer) \subseteq Spellings

LEMMA RunSpells ==
    ASSUME NEW issuer, issuer \in MCIssuers, NEW s, s \in SpellingsOf(issuer)
    PROVE  IsIssuer(issuer) /\ Spells(s, issuer)
<1>1. \E left \in Padding, slashes \in Slashes, right \in Padding :
        s = ((left \o issuer) \o slashes) \o right
    BY SMT DEF SpellingsOf
<1>2. Padding \subseteq Seq({Space})
    BY DEF Padding, Space
<1>3. Slashes \subseteq Seq({Slash})
    BY DEF Slashes, Slash
<1>4. IsIssuer(issuer)
  <2>1. CASE issuer = <<"x">>
    BY <2>1 DEF IsIssuer, Characters, Spelling!Characters, Space, Slash
  <2>2. CASE issuer = <<"x", "x">>
    BY <2>2 DEF IsIssuer, Characters, Spelling!Characters, Space, Slash
  <2> QED
    BY <2>1, <2>2 DEF MCIssuers
<1> QED
    BY <1>1, <1>2, <1>3, <1>4 DEF Spells

\* Whatever the issuers and the spellings the callers use, two spellings of an
\* issuer have the same entry of the file: the issuer's own.
THEOREM SpellingsShareAnEntry ==
    ASSUME Canon = MCCanon,
           NEW issuer, IsIssuer(issuer),
           NEW s \in Spellings, Spells(s, issuer)
    PROVE  Canon[s] = issuer
<1>1. PICK left \in Seq({Space}), slashes \in Seq({Slash}),
           right \in Seq({Space}) :
        s = ((left \o issuer) \o slashes) \o right
    BY DEF Spells
<1>2. Spelling!CanonicalIssuer(s) = issuer
    BY <1>1, CanonicalIsTheIssuer
<1> QED
    BY <1>2 DEF MCCanon

\* However a login was spelled, it is found under every other spelling of the
\* issuer: in every state, two spellings of an issuer read the same entry.
THEOREM LoginFoundUnderAnySpelling ==
    ASSUME CanonIsTheCodes
    PROVE  Spec => []AnySpellingFindsLogin
<1>1. AnySpellingFindsLogin
    BY RunSpells, SpellingsShareAnEntry
    DEF AnySpellingFindsLogin, CanonIsTheCodes
<1> QED
    BY <1>1, PTL
=============================================================================
