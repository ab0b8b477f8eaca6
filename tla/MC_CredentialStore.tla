-------------------------- MODULE MC_CredentialStore --------------------------
(* Two issuers, in a few of their spellings or in many. *)
EXTENDS CredentialStore, Sequences

Spelling == INSTANCE IssuerSpelling

MCBlank == <<>>

MCSpellings == {<<"x">>, <<" ", "x", "/">>, <<"x", "x">>, <<"/">>, <<>>}

MCIssuers == {<<"x">>, <<"x", "x">>}

Padding == {<<>>, <<" ">>}

Slashes == {<<>>, <<"/">>, <<"/", "/">>}

\* One issuer, with space around it and slashes at its end.
SpellingsOf(issuer) ==
    {left \o issuer \o slashes \o right :
        left \in Padding, slashes \in Slashes, right \in Padding}

MCManySpellings == UNION {SpellingsOf(i) : i \in MCIssuers \cup {MCBlank}}

MCCanon == [s \in Spellings |-> Spelling!CanonicalIssuer(s)]

\* However a login was spelled, it is found under every other spelling of the
\* issuer: they share an entry of the file.  (An issuer with space before its
\* slashes, "x /", is another one: it is filed under "x ".)
AnySpellingFindsLogin ==
    \A issuer \in MCIssuers : \A s, t \in SpellingsOf(issuer) :
        disk.logins[Canon[s]] = disk.logins[Canon[t]]
=============================================================================
