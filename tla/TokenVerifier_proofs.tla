----------------------- MODULE TokenVerifier_proofs -----------------------
(***************************************************************************)
(* Theorems about TokenVerifier, for any number of calls, keys and tokens, *)
(* any time to live and any patience that is shorter.                      *)
(***************************************************************************)
EXTENDS TokenVerifier, TLAPS

\* Keycloak has published these keys at a time that is not before t.
PublishedSince(t, keys) == \E h \in history : h[1] >= t /\ h[2] = keys

\* The keys of the cache were published since its stamp, and a call that is about
\* to use them cannot find a stamp that is much older than itself: another call
\* may have put its own there, but no call is under way for long.
CacheOK ==
    /\ fetchedAt <= clock
    /\ cache.filled => PublishedSince(fetchedAt, cache.keys)

CallOK(c) ==
    /\ start[c] <= clock
    /\ pc[c] \in Open => clock <= start[c] + Patience
    /\ pc[c] = "answered" /\ response[c] # NotJSON =>
           PublishedSince(start[c], response[c])
    /\ pc[c] = "closing" => cache.filled /\ start[c] - Patience <= fetchedAt
    /\ pc[c] \in Open => verdict[c] = "none"

\* Every verdict is that of keys which were published recently, but for a refusal
\* by an answer that does not parse.
Justified(c) ==
    \/ verdict[c] = "Unauthenticated" /\ response[c] = NotJSON
    \/ verdict[c] \in {"OK", "Unauthenticated"} =>
           \E h \in Recent(c) : verdict[c] = Judgement(token[c], h[2])

KeysOK ==
    /\ <<clock, published>> \in history
    /\ CacheOK
    /\ \A c \in Calls : CallOK(c) /\ Justified(c)

LEMMA InitType == Init => TypeOK
BY FetchesEndInTime DEF Init, TypeOK, Open

LEMMA NextType == TypeOK /\ [Next]_vars => TypeOK'
<1> SUFFICES ASSUME TypeOK, [Next]_vars PROVE TypeOK'
    OBVIOUS
<1> USE FetchesEndInTime DEF TypeOK, Open, keycloak, globals, locals
<1>1. ASSUME NEW c \in Calls, NEW t \in Tokens, Verify(c, t) PROVE TypeOK'
    BY <1>1 DEF Verify, Answer, Judgement
<1>2. ASSUME NEW c \in Calls, Respond(c) PROVE TypeOK'
    BY <1>2 DEF Respond
<1>3. ASSUME NEW c \in Calls, Fill(c) PROVE TypeOK'
    BY <1>3 DEF Fill
<1>4. ASSUME NEW c \in Calls, Return(c) PROVE TypeOK'
    BY <1>4 DEF Return, Answer, Judgement
<1>5. ASSUME NEW c \in Calls, FetchFails(c) PROVE TypeOK'
    BY <1>5 DEF FetchFails, Answer
<1>6. ASSUME NEW c \in Calls, Misread(c) PROVE TypeOK'
    BY <1>6 DEF Misread, Answer
<1>7. ASSUME NEW keys \in SUBSET Keys, Rotate(keys) PROVE TypeOK'
    BY <1>7 DEF Rotate
<1>8. ASSUME Tick PROVE TypeOK'
    BY <1>8 DEF Tick
<1>9. CASE UNCHANGED vars
    BY <1>9 DEF vars
<1> QED
    BY <1>1, <1>2, <1>3, <1>4, <1>5, <1>6, <1>7, <1>8, <1>9 DEF Next

\* Every variable of the verifier keeps its type.
THEOREM VerifierTypeCorrect == Spec => []TypeOK
BY InitType, NextType, PTL DEF Spec

-----------------------------------------------------------------------------
LEMMA InitKeys == Init => KeysOK
BY FetchesEndInTime
DEF Init, KeysOK, CacheOK, CallOK, Justified, Open

\* A call that has not moved keeps what it knows, as long as the stamp is none
\* older than Patience when it is set.
LEMMA OtherCalls ==
    ASSUME TypeOK, KeysOK, NEW c \in Calls,
           clock' \in Nat, clock <= clock',
           history \subseteq history',
           pc'[c] = pc[c], start'[c] = start[c], token'[c] = token[c],
           response'[c] = response[c], verdict'[c] = verdict[c],
           pc[c] \in Open => clock' <= start[c] + Patience,
           \/ UNCHANGED globals
           \/ /\ cache'.filled
              /\ fetchedAt' \in Nat /\ clock - Patience <= fetchedAt'
    PROVE  CallOK(c)' /\ Justified(c)'
<1> USE FetchesEndInTime DEF TypeOK, KeysOK
<1>1. start[c] \in Nat /\ clock \in Nat /\ fetchedAt \in Nat
    OBVIOUS
<1>2. CallOK(c)'
    <2>1. start'[c] <= clock'
        BY <1>1 DEF CallOK
    <2>2. pc'[c] = "answered" /\ response'[c] # NotJSON =>
              PublishedSince(start[c], response[c])'
        BY DEF CallOK, PublishedSince
    <2>3. pc'[c] = "closing" => cache'.filled /\ start'[c] - Patience <= fetchedAt'
        <3>1. CASE UNCHANGED globals
            BY <3>1 DEF globals, CallOK
        <3>2. CASE /\ cache'.filled
                   /\ fetchedAt' \in Nat /\ clock - Patience <= fetchedAt'
            <4>1. start[c] <= clock
                BY DEF CallOK
            <4> QED
                BY <1>1, <3>2, <4>1 DEF CallOK
        <3> QED
            BY <3>1, <3>2
    <2> QED
        BY <2>1, <2>2, <2>3 DEF CallOK, PublishedSince
<1>3. Justified(c)'
    BY DEF Justified, Recent, Judgement
<1> QED
    BY <1>2, <1>3

LEMMA CallStep ==
    ASSUME TypeOK, KeysOK, NEW c \in Calls, NEW t \in Tokens,
           Verify(c, t) \/ Respond(c) \/ Return(c) \/ FetchFails(c) \/ Misread(c)
    PROVE  KeysOK'
<1> USE FetchesEndInTime
<1>1. UNCHANGED <<clock, published, history, cache, fetchedAt>>
    BY DEF Verify, Respond, Return, FetchFails, Misread, keycloak, globals
<1>2. CacheOK'
    BY <1>1 DEF KeysOK, CacheOK, PublishedSince
<1>3. ASSUME NEW d \in Calls, d # c
      PROVE  CallOK(d)' /\ Justified(d)'
    <2>1. /\ pc'[d] = pc[d] /\ start'[d] = start[d] /\ token'[d] = token[d]
          /\ response'[d] = response[d] /\ verdict'[d] = verdict[d]
        BY <1>3 DEF Verify, Respond, Return, FetchFails, Misread, Answer, locals, TypeOK
    <2>2. CallOK(d)'
        BY <1>1, <2>1 DEF KeysOK, CallOK, PublishedSince
    <2>3. Justified(d)'
        BY <1>1, <2>1 DEF KeysOK, Justified, Recent, Judgement
    <2> QED
        BY <2>2, <2>3
<1>4. CallOK(c)' /\ Justified(c)'
    <2>1. CASE Verify(c, t)
        <3>1. /\ start'[c] = clock /\ token'[c] = t /\ clock \in Nat
              /\ fetchedAt \in Nat
            BY <2>1 DEF Verify, TypeOK
        <3>2. CASE Fresh /\ Answer(c, Judgement(t, cache.keys))
            <4>1. pc'[c] = "done" /\ verdict'[c] = Judgement(t, cache.keys)
                BY <3>2 DEF Answer, TypeOK
            <4>2. PICK h \in history : h[1] >= fetchedAt /\ h[2] = cache.keys
                BY <3>2 DEF Fresh, KeysOK, CacheOK, PublishedSince
            <4>3. h[1] \in Nat /\ h[1] > clock - Ttl
                BY <3>1, <3>2, <4>2 DEF Fresh, TypeOK
            <4>4. Justified(c)'
                BY <1>1, <3>1, <4>1, <4>2, <4>3 DEF Justified, Recent
            <4> QED
                BY <1>1, <3>1, <4>1, <4>4 DEF CallOK, Open
        <3>3. CASE pc' = [pc EXCEPT ![c] = "asked"]
                   /\ verdict' = [verdict EXCEPT ![c] = "none"]
            <4>1. pc'[c] = "asked" /\ verdict'[c] = "none"
                BY <3>3 DEF TypeOK
            <4> QED
                BY <1>1, <3>1, <4>1 DEF CallOK, Justified, Open
        <3> QED
            BY <2>1, <3>2, <3>3 DEF Verify
    <2>2. CASE Respond(c)
        <3>1. /\ pc[c] = "asked" /\ pc'[c] = "answered"
              /\ response'[c] \in {published, NotJSON} /\ start' = start
              /\ token' = token /\ verdict' = verdict
              /\ start[c] \in Nat /\ clock \in Nat
            BY <2>2 DEF Respond, TypeOK
        <3>2. response'[c] # NotJSON => PublishedSince(start[c], response[c])'
            BY <1>1, <3>1 DEF KeysOK, CallOK, PublishedSince
        <3>3. CallOK(c)'
            BY <1>1, <3>1, <3>2 DEF KeysOK, CallOK, Open, PublishedSince
        <3> QED
            BY <3>1, <3>3 DEF CallOK, Justified, Open
    <2>3. CASE Return(c)
        <3>1. /\ pc[c] = "closing" /\ pc'[c] = "done" /\ start' = start
              /\ token' = token /\ start[c] \in Nat /\ fetchedAt \in Nat
              /\ verdict'[c] = Judgement(token[c], cache.keys)
            BY <2>3 DEF Return, Answer, locals, TypeOK
        <3>2. cache.filled /\ start[c] - Patience <= fetchedAt
            BY <3>1 DEF KeysOK, CallOK
        <3>3. PICK h \in history : h[1] >= fetchedAt /\ h[2] = cache.keys
            BY <3>2 DEF KeysOK, CacheOK, PublishedSince
        <3>4. h[1] \in Nat /\ h[1] > start[c] - Ttl
            BY <3>1, <3>2, <3>3 DEF TypeOK
        <3>5. Justified(c)'
            BY <1>1, <3>1, <3>3, <3>4 DEF Justified, Recent
        <3> QED
            BY <1>1, <3>1, <3>5 DEF KeysOK, CallOK, Open
    <2>4. CASE FetchFails(c)
        <3>1. /\ pc'[c] = "done" /\ start' = start /\ verdict'[c] = "Unknown"
            BY <2>4 DEF FetchFails, Answer, locals, TypeOK
        <3> QED
            BY <1>1, <3>1 DEF KeysOK, CallOK, Justified, Open
    <2>5. CASE Misread(c)
        <3>1. /\ pc'[c] = "done" /\ start' = start /\ response' = response
              /\ verdict'[c] = "Unauthenticated" /\ response[c] = NotJSON
            BY <2>5 DEF Misread, Answer, locals, TypeOK
        <3> QED
            BY <1>1, <3>1 DEF KeysOK, CallOK, Justified, Open
    <2> QED
        BY <2>1, <2>2, <2>3, <2>4, <2>5
<1> QED
    BY <1>1, <1>2, <1>3, <1>4 DEF KeysOK

LEMMA FillStep ==
    ASSUME TypeOK, KeysOK, NEW c \in Calls, Fill(c) PROVE KeysOK'
<1> USE FetchesEndInTime
<1>1. /\ UNCHANGED <<clock, published, history, start, token, response, verdict>>
      /\ cache' = [filled |-> TRUE, keys |-> response[c]]
      /\ fetchedAt' = start[c]
      /\ pc[c] = "answered" /\ response[c] # NotJSON /\ pc'[c] = "closing"
      /\ \A d \in Calls : d # c => pc'[d] = pc[d]
      /\ start[c] \in Nat /\ clock \in Nat
    BY DEF Fill, keycloak, locals, TypeOK
<1>2. /\ start[c] <= clock /\ clock <= start[c] + Patience
      /\ PublishedSince(start[c], response[c])
    BY <1>1 DEF KeysOK, CallOK, Open
<1>3. CacheOK'
    BY <1>1, <1>2 DEF CacheOK, PublishedSince
<1>4. ASSUME NEW d \in Calls, d # c
      PROVE  CallOK(d)' /\ Justified(d)'
    <2>1. pc'[d] = pc[d] /\ clock <= clock' /\ clock - Patience <= fetchedAt'
        BY <1>1, <1>2, <1>4
    <2>2. pc[d] \in Open => clock' <= start[d] + Patience
        BY <1>1 DEF KeysOK, CallOK
    <2> QED
        BY <1>1, <2>1, <2>2, OtherCalls
<1>5. CallOK(c)'
    BY <1>1, <1>2 DEF KeysOK, CallOK, Open
<1>6. Justified(c)'
    BY <1>1 DEF KeysOK, Justified, Recent, Judgement
<1> QED
    BY <1>1, <1>3, <1>4, <1>5, <1>6 DEF KeysOK

LEMMA TimeStep ==
    ASSUME TypeOK, KeysOK, Tick \/ (\E keys \in SUBSET Keys : Rotate(keys))
    PROVE  KeysOK'
<1> USE FetchesEndInTime
<1>1. /\ UNCHANGED <<cache, fetchedAt, pc, start, token, response, verdict>>
      /\ history \subseteq history'
      /\ <<clock', published'>> \in history'
      /\ clock \in Nat /\ clock' \in Nat /\ clock <= clock'
      /\ fetchedAt \in Nat
    BY DEF Tick, Rotate, globals, locals, TypeOK
<1>2. CacheOK'
    BY <1>1 DEF KeysOK, CacheOK, PublishedSince
<1>3. ASSUME NEW c \in Calls PROVE CallOK(c)' /\ Justified(c)'
    <2>1. pc[c] \in Open => clock' <= start[c] + Patience
        <3>1. CASE Tick
            BY <3>1 DEF Tick, TypeOK
        <3>2. CASE \E keys \in SUBSET Keys : Rotate(keys)
            BY <3>2 DEF Rotate, KeysOK, CallOK
        <3> QED
            BY <3>1, <3>2
    <2>2. UNCHANGED globals
        BY <1>1 DEF globals
    <2> QED
        BY <1>1, <2>1, <2>2, OtherCalls
<1> QED
    BY <1>1, <1>2, <1>3 DEF KeysOK

LEMMA NextKeys == TypeOK /\ KeysOK /\ [Next]_vars => KeysOK'
<1> SUFFICES ASSUME TypeOK, KeysOK, [Next]_vars PROVE KeysOK'
    OBVIOUS
<1>1. CASE UNCHANGED vars
    <2>1. UNCHANGED <<clock, published, history, cache, fetchedAt, pc, start,
                      token, response, verdict>>
        BY <1>1 DEF vars, keycloak, globals, locals
    <2> QED
        BY <2>1 DEF KeysOK, CacheOK, CallOK, Justified, PublishedSince, Recent,
                    Judgement
<1>2. ASSUME NEW c \in Calls,
             (\E t \in Tokens : Verify(c, t)) \/ Respond(c) \/ Return(c)
                 \/ FetchFails(c) \/ Misread(c)
      PROVE  KeysOK'
    <2>1. \E t \in Tokens : TRUE
        BY <1>2 DEF TypeOK
    <2> QED
        BY <1>2, <2>1, CallStep
<1> QED
    BY <1>1, <1>2, FillStep, TimeStep DEF Next

\* The inductive invariant of the cache and of the calls under way.
THEOREM KeysHold == Spec => []KeysOK
BY InitKeys, NextKeys, VerifierTypeCorrect, PTL DEF Spec

\* However fetches overlap, time out and overtake each other, no token is
\* accepted on a key that was withdrawn Ttl or more before the call.
THEOREM NoWithdrawnKeyIsAccepted == Spec => []AcceptedWasPublished
<1>1. TypeOK /\ KeysOK => AcceptedWasPublished
    BY DEF TypeOK, KeysOK, Justified, Judgement, AcceptedWasPublished
<1> QED
    BY <1>1, KeysHold, VerifierTypeCorrect, PTL

\* Nor is a good token refused whose key has been there for Ttl, unless the answer
\* of Keycloak to this very call does not parse.
THEOREM NoKnownKeyIsRefused == Spec => []RefusedWasUnpublished
<1>1. TypeOK /\ KeysOK => RefusedWasUnpublished
    BY DEF TypeOK, KeysOK, Justified, Judgement, RefusedWasUnpublished
<1> QED
    BY <1>1, KeysHold, VerifierTypeCorrect, PTL
=============================================================================
