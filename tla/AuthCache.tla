----------------------------- MODULE AuthCache ------------------------------
(***************************************************************************)
(* How a request gets the claims of its API client (exchange_api_key of    *)
(* auth/api_key.rs, validate_jwt of auth/claims.rs, JwksCache of           *)
(* auth/jwks.rs).                                                          *)
(*                                                                         *)
(* The claims of a client are cached with the time its token is expected   *)
(* to expire, counted from the arrival of the token and not from its issue.*)
(* A request that finds none, or one about to expire, exchanges the        *)
(* credentials for a new token; several may do so at once, and the last to *)
(* finish stays in the cache.  A token names the key that signed it; the   *)
(* keys are cached too, and fetched when one is missing or old.            *)
(*                                                                         *)
(* Neither HTTP client has a timeout, so any time may pass between the     *)
(* issue of a token and its acceptance, and either answer may fail.        *)
(***************************************************************************)
EXTENDS Integers

CONSTANTS
    Calls,          \* requests of one API client
    Kids,           \* key ids the provider may use, 1, 2, ...
    Life,           \* expires_in of a token
    Margin,         \* a cached token is not used this close to its end
    Leeway,         \* of jsonwebtoken, when it compares exp with the clock
    Ttl,            \* ttl_secs of the key cache
    MaxTime         \* bound: the clock

ASSUME AuthAssumption ==
    /\ Kids \subseteq Nat /\ 1 \in Kids
    /\ Life \in Nat /\ Margin \in Nat /\ Leeway \in Nat
    /\ Ttl \in Nat /\ MaxTime \in Nat

VARIABLES
    now,        \* the clock
    signing,    \* the key the provider signs with
    published,  \* the keys the provider publishes
    cached,     \* the token cache's entry of the client
    keys,       \* the key cache: when each key was fetched
    call        \* the handler of each request

vars == <<now, signing, published, cached, keys, call>>

Never == -1

NoEntry == [exp |-> Never, until |-> Never]

IdleCall == [pc |-> "idle", kid |-> 1, exp |-> Never, got |-> {}]

\* A token on its way: issued, and not yet accepted or refused.
Underway == {"issued", "fetching", "fetched", "validated"}

-----------------------------------------------------------------------------

Init ==
    /\ now = 0
    /\ signing = 1 /\ published = {1}
    /\ cached = NoEntry
    /\ keys = [k \in Kids |-> Never]
    /\ call = [c \in Calls |-> IdleCall]

\* Mutant: a cached token is used to its last second.
UsableToTheEnd(entry) == entry.until > now

\* cached.expires_at > Instant::now() + 30 s
Usable(entry) == entry.until > now + Margin

\* The token cache answers by the client's id alone; only an exchange, which
\* sends the credentials to the provider, looks at the secret.
Lookup(c) ==
    /\ call[c].pc = "idle"
    /\ call' = [call EXCEPT ![c] =
                  IF Usable(cached) THEN [IdleCall EXCEPT !.pc = "served", !.exp = cached.exp]
                  ELSE [IdleCall EXCEPT !.pc = "exchanging"]]
    /\ UNCHANGED <<now, signing, published, cached, keys>>

\* The provider issues a token, signed with its key of the moment, or the
\* exchange fails: it is unreachable or refuses the credentials.
Issue(c) ==
    /\ call[c].pc = "exchanging"
    /\ \/ call' = [call EXCEPT ![c] =
                     [pc |-> "issued", kid |-> signing, exp |-> now + Life, got |-> {}]]
       \/ call' = [call EXCEPT ![c] = [IdleCall EXCEPT !.pc = "failed"]]
    /\ UNCHANGED <<now, signing, published, cached, keys>>

\* get_key: a key that was fetched less than ttl_secs ago.
KeyCached(kid) == keys[kid] # Never /\ now - keys[kid] < Ttl

\* validate_jwt looks the key up; the cache answers or the keys are fetched.
GetKey(c) ==
    /\ call[c].pc = "issued"
    /\ call' = [call EXCEPT ![c].pc =
                  IF KeyCached(call[c].kid) THEN "validated" ELSE "fetching"]
    /\ UNCHANGED <<now, signing, published, cached, keys>>

\* Mutant: a request takes the answer to another one's fetch.
AnswerShared(c) ==
    /\ call[c].pc = "fetching"
    /\ LET others == {call[d].got : d \in {d \in Calls : call[d].pc = "fetched"}}
       IN  \E got \in others \cup (IF others = {} THEN {published} ELSE {}) :
             call' = [call EXCEPT ![c] = [@ EXCEPT !.pc = "fetched", !.got = got]]
    /\ UNCHANGED <<now, signing, published, cached, keys>>

\* The provider answers with the keys it publishes, or the fetch or its parsing
\* fails, which fails the request although an old copy of the key may be cached.
Answer(c) ==
    /\ call[c].pc = "fetching"
    /\ \/ call' = [call EXCEPT ![c] = [@ EXCEPT !.pc = "fetched", !.got = published]]
       \/ call' = [call EXCEPT ![c] = [IdleCall EXCEPT !.pc = "failed"]]
    /\ UNCHANGED <<now, signing, published, cached, keys>>

\* Mutant: a key is stored with the end of its time to live.
RefreshStoresEnd(c) ==
    /\ call[c].pc = "fetched"
    /\ keys' = [k \in Kids |-> IF k \in call[c].got THEN now + Ttl ELSE keys[k]]
    /\ call' = [call EXCEPT ![c] =
                  [@ EXCEPT !.pc = IF keys'[call[c].kid] = Never THEN "refused"
                                   ELSE "validated",
                            !.got = {}]]
    /\ UNCHANGED <<now, signing, published, cached>>

\* refresh inserts what it got and drops nothing; a key id that is not there
\* now refuses the token.
Refresh(c) ==
    /\ call[c].pc = "fetched"
    /\ keys' = [k \in Kids |-> IF k \in call[c].got THEN now ELSE keys[k]]
    /\ call' = [call EXCEPT ![c] =
                  [@ EXCEPT !.pc = IF keys'[call[c].kid] = Never THEN "refused"
                                   ELSE "validated",
                            !.got = {}]]
    /\ UNCHANGED <<now, signing, published, cached>>

\* decode: a token that expired more than Leeway ago is refused.  An accepted one
\* goes into the cache, over whatever is there, good for expires_in from now on.
Accept(c) ==
    /\ call[c].pc = "validated"
    /\ IF call[c].exp + Leeway >= now
       THEN /\ call' = [call EXCEPT ![c].pc = "served"]
            /\ cached' = [exp |-> call[c].exp, until |-> now + Life]
       ELSE /\ call' = [call EXCEPT ![c].pc = "refused"]
            /\ UNCHANGED cached
    /\ UNCHANGED <<now, signing, published, keys>>

\* The request is answered, or its client goes away and the handler is dropped
\* at its await; another request may come.
Leave(c) ==
    /\ call[c].pc # "idle"
    /\ call' = [call EXCEPT ![c] = IdleCall]
    /\ UNCHANGED <<now, signing, published, cached, keys>>

-----------------------------------------------------------------------------
(* Time and the provider.                                                  *)

Tick ==
    /\ now < MaxTime
    /\ now' = now + 1
    /\ UNCHANGED <<signing, published, cached, keys, call>>

\* The provider signs with a new key and publishes it.
Rotate ==
    /\ signing + 1 \in Kids
    /\ signing' = signing + 1
    /\ published' = published \cup {signing + 1}
    /\ UNCHANGED <<now, cached, keys, call>>

\* The provider publishes a key until the tokens it signed have expired.
Unpublish(k) ==
    /\ k \in published \ {signing}
    /\ \A c \in Calls : call[c].pc \in Underway /\ call[c].kid = k => call[c].exp < now
    /\ published' = published \ {k}
    /\ UNCHANGED <<now, signing, cached, keys, call>>

Handle(c) == \/ Lookup(c) \/ Issue(c) \/ GetKey(c) \/ Answer(c) \/ Refresh(c)
             \/ Accept(c) \/ Leave(c)

Next ==
    \/ \E c \in Calls : Handle(c)
    \/ Tick \/ Rotate
    \/ \E k \in Kids : Unpublish(k)

Spec == Init /\ [][Next]_vars

-----------------------------------------------------------------------------

Clock == 0 .. MaxTime
Expiry == {Never} \cup 0 .. MaxTime + Life

Call == [pc : {"idle", "exchanging", "served", "refused", "failed"} \cup Underway,
         kid : Kids, exp : Expiry, got : SUBSET Kids]

\* Types.
TypeOK ==
    /\ now \in Clock
    /\ signing \in Kids /\ published \subseteq Kids
    /\ cached \in [exp : Expiry, until : Expiry]
    /\ keys \in [Kids -> Clock \cup {Never}]
    /\ call \in [Calls -> Call]

(***************************************************************************)
(* How long an expired token can still open something: nothing bounds the  *)
(* time an exchange takes, the cache counts a token's life from its        *)
(* arrival, keeps the token of the exchange that finished last and does    *)
(* not look at exp again.  A token just accepted has expired no more than  *)
(* Leeway ago, one from the cache less than Leeway + Life - Margin ago.    *)
(***************************************************************************)
ServedWithin ==
    [][\A c \in Calls :
         call[c].pc # "served" /\ call'[c].pc = "served" =>
            \/ now <= call'[c].exp + Leeway
            \/ now + Margin < call'[c].exp + Leeway + Life]_vars

(***************************************************************************)
(* A request to which the provider has answered, both the exchange and the *)
(* fetch it needed, is refused only if its token has expired meanwhile:    *)
(* not because of the key that signed it, nor of failed, older or          *)
(* overtaking fetches of other requests.  One whose own fetch fails is     *)
(* "failed", whatever is cached.                                           *)
(***************************************************************************)
RefusedExpired == \A c \in Calls : call[c].pc = "refused" => call[c].exp < now
=============================================================================
