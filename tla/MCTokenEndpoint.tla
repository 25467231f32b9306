--------------------------- MODULE MCTokenEndpoint ---------------------------
\* The parts of the token endpoint that share no table with one another, in one
\* run: a behaviour is a behaviour of one part, the others keep one initial
\* state.  The session of a client, and with it the rotation of a family, runs
\* with the fairness of its requests.
EXTENDS ClientSession, ScopeGrants, ClientSecret, ApiKey, DcrRateLimit

CONSTANT FirstScope

VARIABLE part

endpointVars == <<part, vars, sessionVars, scopeVars, secretVars, keyVars, dcrVars>>

EndpointInit ==
    /\ part \in {"session", "scopes", "secret", "key", "registration"}
    /\ SessionInit /\ ScopesInit /\ SecretInit /\ KeyInit /\ DcrInit
    /\ part # "scopes" => /\ [id |-> 0, scope |-> FirstScope] \in granted
                          /\ \A c \in Cred : status[c] = "free"
    /\ part # "secret" => ~ stored.plain

SessionStep ==
    /\ part = "session" /\ SessionNext
    /\ UNCHANGED <<part, scopeVars, secretVars, keyVars, dcrVars>>

ScopesStep ==
    /\ part = "scopes" /\ ScopesNext
    /\ UNCHANGED <<part, vars, sessionVars, secretVars, keyVars, dcrVars>>

SecretStep ==
    /\ part = "secret" /\ SecretNext
    /\ UNCHANGED <<part, vars, sessionVars, scopeVars, keyVars, dcrVars>>

KeyStep ==
    /\ part = "key" /\ KeyNext
    /\ UNCHANGED <<part, vars, sessionVars, scopeVars, secretVars, dcrVars>>

RegistrationStep ==
    /\ part = "registration" /\ DcrNext
    /\ UNCHANGED <<part, vars, sessionVars, scopeVars, secretVars, keyVars>>

EndpointNext ==
    SessionStep \/ ScopesStep \/ SecretStep \/ KeyStep \/ RegistrationStep

\* Every statement a request sends to the token tables is answered.
EndpointSpec ==
    /\ EndpointInit /\ [][EndpointNext]_endpointVars
    /\ \A q \in Req : WF_vars(part = "session" /\ Serve(q))

\* The tables and the locals of every part keep their types.
EndpointTypeOK == SessionTypeOK /\ ScopesTypeOK /\ SecretTypeOK /\ KeyTypeOK /\ DcrTypeOK
=============================================================================
