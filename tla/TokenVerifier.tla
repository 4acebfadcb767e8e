--------------------------- MODULE TokenVerifier ---------------------------
(***************************************************************************)
(* KeycloakVerifier of the knowledge service: a token is checked against   *)
(* the signing keys of Keycloak, which are kept in two globals for Ttl.    *)
(* The calls are coroutines of one event loop, so that a call only gives   *)
(* way where it awaits: while Keycloak answers, and while it closes the    *)
(* client that has fetched the keys.  A call without a bearer token is     *)
(* refused before any of this and is left out.                             *)
(***************************************************************************)
EXTENDS Integers

CONSTANTS
    Calls,     \* the calls that the server handles at the same time
    Keys,      \* the signing keys that matter
    Tokens,    \* the tokens of the callers: [key, sub]
    Ttl,       \* _JWKS_TTL, in ticks of the clock
    Patience,  \* the most that a fetch takes: each of its reads times out
    NotJSON,   \* an answer of Keycloak that does not parse
    MaxTime    \* bound on the clock

ASSUME TokensAreSigned == Tokens \subseteq [key : Keys, sub : BOOLEAN]
ASSUME GarbageIsNoKeySet == \A keys \in SUBSET Keys : NotJSON # keys
ASSUME FetchesEndInTime ==
    Ttl \in Nat /\ Patience \in Nat /\ Patience < Ttl /\ MaxTime \in Nat

VARIABLES
    clock,      \* time.monotonic()
    published,  \* the keys that Keycloak answers with now
    history,    \* every <<time, keys>> that Keycloak has published
    cache,      \* _JWKS_CACHE
    fetchedAt,  \* _JWKS_FETCHED_AT
    pc,         \* where a call stands
    start,      \* the call's now
    token,      \* the token that the call verifies
    response,   \* what Keycloak has answered to the call: its keys, or NotJSON
    verdict     \* the status of the call: "OK", "Unauthenticated" or "Unknown"

keycloak == <<clock, published, history>>
globals == <<cache, fetchedAt>>
locals == <<start, token, response>>
vars == <<keycloak, globals, pc, locals, verdict>>

Open == {"asked", "answered", "closing"}

\* Every variable keeps its type; above all, no stamp of the cache is ahead.
TypeOK ==
    /\ clock \in 0..MaxTime
    /\ published \in SUBSET Keys
    /\ history \in SUBSET ((0..MaxTime) \X SUBSET Keys)
    /\ cache \in [filled : BOOLEAN, keys : SUBSET Keys]
    /\ fetchedAt \in 0..MaxTime
    /\ pc \in [Calls -> {"idle", "done"} \cup Open]
    /\ start \in [Calls -> 0..MaxTime]
    /\ token \in [Calls -> Tokens]
    /\ response \in [Calls -> (SUBSET Keys) \cup {NotJSON}]
    /\ verdict \in [Calls -> {"none", "OK", "Unauthenticated", "Unknown"}]

Init ==
    /\ clock = 0
    /\ published \in SUBSET Keys
    /\ history = {<<0, published>>}
    /\ cache = [filled |-> FALSE, keys |-> {}]
    /\ fetchedAt = 0
    /\ pc = [c \in Calls |-> "idle"]
    /\ start = [c \in Calls |-> 0]
    /\ token \in [Calls -> Tokens]
    /\ response = [c \in Calls |-> {}]
    /\ verdict = [c \in Calls |-> "none"]

-----------------------------------------------------------------------------
\* jwt.decode with the keys, then the claim: a ValueError is Unauthenticated.
Judgement(t, keys) ==
    IF t.key \in keys /\ t.sub THEN "OK" ELSE "Unauthenticated"

Answer(c, v) ==
    /\ pc' = [pc EXCEPT ![c] = "done"]
    /\ verdict' = [verdict EXCEPT ![c] = v]

\* Mutant: the keys are fetched once and for all.
FreshOnceFilled == cache.filled

Fresh == cache.filled /\ clock - fetchedAt < Ttl

\* verify: with keys that are fresh there is no await at all.
Verify(c, t) ==
    /\ pc[c] \in {"idle", "done"}
    /\ start' = [start EXCEPT ![c] = clock]
    /\ token' = [token EXCEPT ![c] = t]
    /\ response' = [response EXCEPT ![c] = {}]
    /\ \/ /\ Fresh
          /\ Answer(c, Judgement(t, cache.keys))
       \/ /\ ~Fresh
          /\ pc' = [pc EXCEPT ![c] = "asked"]
          /\ verdict' = [verdict EXCEPT ![c] = "none"]
    /\ UNCHANGED <<keycloak, globals>>

\* Keycloak, or what stands in front of it, answers a request; the answer is under
\* way to the call.
Respond(c) ==
    /\ pc[c] = "asked"
    /\ \E answer \in {published, NotJSON} :
           response' = [response EXCEPT ![c] = answer]
    /\ pc' = [pc EXCEPT ![c] = "answered"]
    /\ UNCHANGED <<keycloak, globals, start, token, verdict>>

\* Mutant: the stamp is the time of the answer.
FillStampedOnReceipt(c) ==
    /\ pc[c] = "answered" /\ response[c] # NotJSON
    /\ cache' = [filled |-> TRUE, keys |-> response[c]]
    /\ fetchedAt' = clock
    /\ pc' = [pc EXCEPT ![c] = "closing"]
    /\ UNCHANGED <<keycloak, locals, verdict>>

\* The stamp is the time before the request, whatever has been filled since.
Fill(c) ==
    /\ pc[c] = "answered" /\ response[c] # NotJSON
    /\ cache' = [filled |-> TRUE, keys |-> response[c]]
    /\ fetchedAt' = start[c]
    /\ pc' = [pc EXCEPT ![c] = "closing"]
    /\ UNCHANGED <<keycloak, locals, verdict>>

\* The client is closed; the call goes on with the global, not with its answer.
Return(c) ==
    /\ pc[c] = "closing"
    /\ Answer(c, Judgement(token[c], cache.keys))
    /\ UNCHANGED <<keycloak, globals, locals>>

\* The request fails, times out or is answered with an error status: what httpx
\* raises then is no ValueError and goes through the handler.
FetchFails(c) ==
    /\ pc[c] \in {"asked", "answered"}
    /\ Answer(c, "Unknown")
    /\ UNCHANGED <<keycloak, globals, locals>>

\* json() raises a ValueError, which the handler takes for a bad token; the
\* globals are as they were.
Misread(c) ==
    /\ pc[c] = "answered" /\ response[c] = NotJSON
    /\ Answer(c, "Unauthenticated")
    /\ UNCHANGED <<keycloak, globals, locals>>

-----------------------------------------------------------------------------
\* Keycloak adds and removes keys.
Rotate(keys) ==
    /\ published' = keys
    /\ history' = history \cup {<<clock, keys>>}
    /\ UNCHANGED <<clock, globals, pc, locals, verdict>>

Tick ==
    /\ clock < MaxTime
    /\ \A c \in Calls : pc[c] \in Open => clock - start[c] < Patience
    /\ clock' = clock + 1
    /\ history' = history \cup {<<clock + 1, published>>}
    /\ UNCHANGED <<published, globals, pc, locals, verdict>>

Next ==
    \/ \E c \in Calls :
           \/ \E t \in Tokens : Verify(c, t)
           \/ Respond(c)
           \/ Fill(c)
           \/ Return(c)
           \/ FetchFails(c)
           \/ Misread(c)
    \/ \E keys \in SUBSET Keys : Rotate(keys)
    \/ Tick

Spec == Init /\ [][Next]_vars

-----------------------------------------------------------------------------
(***************************************************************************)
(* Properties.                                                             *)
(***************************************************************************)
\* What Keycloak has published less than Ttl before the call began, or since.
Recent(c) == {h \in history : h[1] > start[c] - Ttl}

\* No token is accepted on a key that Keycloak has withdrawn for longer than
\* the time the cache promises, however fetches overlap and overtake each other.
AcceptedWasPublished ==
    \A c \in Calls : verdict[c] = "OK" => \E h \in Recent(c) : token[c].key \in h[2]

\* A good token is only refused when its key was not published at some moment
\* of the same time, so that a new key is unknown for no longer than that; or when
\* the answer that the call itself has asked for does not parse.
RefusedWasUnpublished ==
    \A c \in Calls :
        verdict[c] = "Unauthenticated" /\ token[c].sub /\ response[c] # NotJSON
            => \E h \in Recent(c) : token[c].key \notin h[2]
=============================================================================
