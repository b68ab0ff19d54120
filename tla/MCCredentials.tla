--------------------------- MODULE MCCredentials ---------------------------
(* Finite instances of Credentials for TLC.                                *)
EXTENDS Credentials, TLC

CONSTANTS resend, api_key, from_email, x, y, email, sms, s1, s2, r1

\* A managed provider that asks for two keys; email is seeded, sms was seeded by an older
\* version, and both may be published by the pipeline.
MCProviders == {resend}
MCKeys == {api_key, from_email}
MCRequired == resend :> MCKeys
MCTools == {email, sms}
MCSeedTools == {email}
MCRetired == {sms}
MCProviderOf == (email :> resend) @@ (sms :> resend)
MCBornLive == {}
MCValues == {x, y}
MCSessions == {s1, s2}
MCReaders == {r1}

Symmetric == Permutations(Sessions) \cup Permutations(Values)

\* Bound: a third store, by which two can wait for a row of a first, comes with one write
\* of the catalog.
FourInAll == stores + writes <= 4
=============================================================================
