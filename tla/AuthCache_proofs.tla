--------------------------- MODULE AuthCache_proofs --------------------------
(***************************************************************************)
(* For any number of requests and keys, any lives, margins and leeways,    *)
(* and any delays and failures of the provider: how long an expired token  *)
(* can open something, and that a request the provider has answered is     *)
(* refused only with an expired token.                                     *)
(*                                                                         *)
(* A token is accepted no later than Leeway after its end, so the cached   *)
(* entry outlives its token by no more than Leeway and a life.  The key of *)
(* a token on its way is published as long as the token is alive, so a     *)
(* fetch that is answered while it is brings the key.                      *)
(***************************************************************************)
EXTENDS AuthCache, TLAPS

EntryAge == cached.until <= cached.exp + Leeway + Life

Expired(c) == call[c].exp < now

KeyPublished ==
    \A c \in Calls : call[c].pc \in Underway => call[c].kid \in published \/ Expired(c)

KeyGot ==
    \A c \in Calls : call[c].pc = "fetched" => call[c].kid \in call[c].got \/ Expired(c)

SigningPublished == signing \in published

CacheInvariant ==
    TypeOK /\ EntryAge /\ SigningPublished /\ KeyPublished /\ KeyGot /\ RefusedExpired

(***************************************************************************)
(* What a step of one handler must keep of it.                             *)
(***************************************************************************)
TokenOK(c) ==
    /\ call[c] \in Call
    /\ call[c].pc = "refused" => Expired(c)
    /\ call[c].pc \in Underway => call[c].kid \in published \/ Expired(c)
    /\ call[c].pc = "fetched" => call[c].kid \in call[c].got \/ Expired(c)

LEMMA EveryToken ==
    CacheInvariant <=> /\ TypeOK /\ EntryAge /\ SigningPublished
                       /\ \A c \in Calls : TokenOK(c)
  BY DEF CacheInvariant, TypeOK, KeyPublished, KeyGot, RefusedExpired, TokenOK, Expired

(***************************************************************************)
(* A handler's step keeps the others' tokens; only its own matters.        *)
(***************************************************************************)
LEMMA OneHandler ==
    ASSUME CacheInvariant, NEW c \in Calls, NEW new,
           call' = [call EXCEPT ![c] = new], UNCHANGED <<now, signing, published>>,
           TokenOK(c)',
           cached' \in [exp : Expiry, until : Expiry], EntryAge',
           keys' \in [Kids -> Clock \cup {Never}]
    PROVE  CacheInvariant'
  <1>1. call \in [Calls -> Call] /\ TypeOK /\ \A d \in Calls : TokenOK(d)
    BY EveryToken DEF TypeOK
  <1>2. \A d \in Calls \ {c} : call'[d] = call[d]
    BY <1>1
  <1>3. \A d \in Calls : TokenOK(d)'
    BY <1>1, <1>2 DEF TokenOK, Expired
  <1>4. call' \in [Calls -> Call]
    BY <1>1, <1>3 DEF TokenOK
  <1>5. TypeOK'
    BY <1>1, <1>4 DEF TypeOK
  <1> QED
    BY <1>3, <1>5
    DEF CacheInvariant, SigningPublished, KeyPublished, KeyGot, RefusedExpired, TokenOK,
        Expired

LEMMA CacheInit == Init => CacheInvariant
  BY AuthAssumption
  DEF Init, CacheInvariant, TypeOK, EntryAge, SigningPublished, KeyPublished,
      KeyGot, RefusedExpired, IdleCall, NoEntry, Never, Clock, Expiry, Call, Underway

(***************************************************************************)
(* A request served from the cache: the entry is Margin away from its end, *)
(* and the token ends at most Leeway and a life before the entry.          *)
(***************************************************************************)
LEMMA LookupWithin ==
    ASSUME CacheInvariant, NEW c \in Calls, Lookup(c), call'[c].pc = "served"
    PROVE  now + Margin < call'[c].exp + Leeway + Life
  <1>1. cached \in [exp : Expiry, until : Expiry] /\ now \in Nat /\ Usable(cached)
    BY AuthAssumption DEF CacheInvariant, TypeOK, Clock, Lookup, IdleCall
  <1>2. call'[c].exp = cached.exp
    BY <1>1 DEF Lookup, CacheInvariant, TypeOK, IdleCall
  <1>3. cached.exp \in Int /\ cached.until \in Int
    BY <1>1, AuthAssumption DEF Expiry, Never
  <1> QED
    BY <1>1, <1>2, <1>3, AuthAssumption DEF Usable, CacheInvariant, EntryAge

LEMMA Times ==
    ASSUME CacheInvariant, NEW c \in Calls
    PROVE  now \in Nat /\ call[c].exp \in Int
  BY AuthAssumption DEF CacheInvariant, TypeOK, Clock, Call, Expiry, Never

(***************************************************************************)
(* A handler that only moves on, to a state in which nothing more is asked *)
(* of its token than before.                                               *)
(***************************************************************************)
PCs == {"idle", "exchanging", "served", "refused", "failed"} \cup Underway

LEMMA HandlerMoves ==
    ASSUME CacheInvariant, NEW c \in Calls, NEW to \in PCs \ {"fetched"},
           call' = [call EXCEPT ![c].pc = to],
           to \in Underway => call[c].pc \in Underway, to = "refused" => Expired(c),
           UNCHANGED <<now, signing, published, keys>>,
           cached' \in [exp : Expiry, until : Expiry], EntryAge'
    PROVE  CacheInvariant'
  <1>1. call \in [Calls -> Call] /\ call[c] \in Call /\ TokenOK(c)
        /\ keys \in [Kids -> Clock \cup {Never}]
    BY EveryToken DEF TypeOK
  <1>2. \A k \in Call : [k EXCEPT !.pc = to] \in Call
    BY DEF Call, PCs
  <1>3. call' = [call EXCEPT ![c] = [call[c] EXCEPT !.pc = to]]
    BY <1>1
  <1>4. call'[c] \in Call /\ call'[c].pc = to
        /\ call'[c].exp = call[c].exp /\ call'[c].kid = call[c].kid
    BY <1>1, <1>2, <1>3 DEF Call
  <1>5. TokenOK(c)'
    BY <1>1, <1>4 DEF TokenOK, Expired
  <1> QED
    BY <1>1, <1>3, <1>5, OneHandler

(***************************************************************************)
(* The steps that give a handler a new token, an answer or none.           *)
(***************************************************************************)
LEMMA HandlerFails ==
    ASSUME CacheInvariant, NEW c \in Calls, NEW to \in {"idle", "failed"},
           call' = [call EXCEPT ![c] = [IdleCall EXCEPT !.pc = to]],
           UNCHANGED <<now, signing, published, cached, keys>>
    PROVE  CacheInvariant' /\ call'[c].pc = to
  <1>1. /\ call \in [Calls -> Call] /\ cached \in [exp : Expiry, until : Expiry]
        /\ keys \in [Kids -> Clock \cup {Never}] /\ EntryAge
    BY DEF CacheInvariant, TypeOK
  <1> DEFINE new == [IdleCall EXCEPT !.pc = to]
  <1>2. new \in Call /\ new.pc = to
    BY AuthAssumption DEF IdleCall, Call, Expiry
  <1> HIDE DEF new
  <1>3. call' = [call EXCEPT ![c] = new] /\ call'[c] = new
    BY <1>1 DEF new
  <1>4. TokenOK(c)'
    BY <1>2, <1>3 DEF TokenOK, Underway
  <1> QED
    BY <1>1, <1>2, <1>3, <1>4, OneHandler DEF EntryAge

LEMMA LookupStep ==
    ASSUME CacheInvariant, NEW c \in Calls, Lookup(c)
    PROVE  CacheInvariant'
  <1>1. call \in [Calls -> Call] /\ cached \in [exp : Expiry, until : Expiry]
        /\ keys \in [Kids -> Clock \cup {Never}] /\ EntryAge
    BY DEF CacheInvariant, TypeOK
  <1> DEFINE new == IF Usable(cached) THEN [IdleCall EXCEPT !.pc = "served", !.exp = cached.exp]
                    ELSE [IdleCall EXCEPT !.pc = "exchanging"]
  <1>2. call' = [call EXCEPT ![c] = new]
    BY DEF Lookup
  <1>3. new \in Call /\ new.pc \in {"served", "exchanging"}
    BY <1>1, AuthAssumption DEF IdleCall, Call, Expiry
  <1> HIDE DEF new
  <1>4. TokenOK(c)'
    BY <1>1, <1>2, <1>3 DEF TokenOK, Underway
  <1> QED
    BY <1>1, <1>2, <1>4, OneHandler DEF Lookup, EntryAge

LEMMA IssueStep ==
    ASSUME CacheInvariant, NEW c \in Calls, Issue(c)
    PROVE  CacheInvariant'
  <1>1. call \in [Calls -> Call] /\ cached \in [exp : Expiry, until : Expiry]
        /\ keys \in [Kids -> Clock \cup {Never}] /\ EntryAge
        /\ now \in Clock /\ signing \in Kids /\ signing \in published
    BY DEF CacheInvariant, TypeOK, SigningPublished
  <1> DEFINE new == [pc |-> "issued", kid |-> signing, exp |-> now + Life, got |-> {}]
  <1>2. \/ call' = [call EXCEPT ![c] = new]
        \/ call' = [call EXCEPT ![c] = [IdleCall EXCEPT !.pc = "failed"]]
    BY DEF Issue
  <1>3. now + Life \in Expiry
    BY <1>1, AuthAssumption DEF Clock, Expiry
  <1>4. new \in Call
    BY <1>1, <1>3 DEF Call, Underway
  <1>6. new.pc = "issued" /\ new.kid = signing
    OBVIOUS
  <1> HIDE DEF new
  <1>7. CASE call' = [call EXCEPT ![c] = new]
    <2>1. call'[c] = new /\ UNCHANGED <<now, published>>
      BY <1>1, <1>7 DEF Issue
    <2>2. TokenOK(c)'
      BY <1>1, <1>4, <1>6, <2>1 DEF TokenOK
    <2> QED
      BY <1>1, <1>7, <2>2, OneHandler DEF Issue, EntryAge
  <1>8. CASE call' = [call EXCEPT ![c] = [IdleCall EXCEPT !.pc = "failed"]]
    BY <1>8, HandlerFails DEF Issue
  <1> QED
    BY <1>2, <1>7, <1>8

LEMMA AnswerStep ==
    ASSUME CacheInvariant, NEW c \in Calls, Answer(c)
    PROVE  CacheInvariant'
  <1>1. call \in [Calls -> Call] /\ cached \in [exp : Expiry, until : Expiry]
        /\ keys \in [Kids -> Clock \cup {Never}] /\ EntryAge
        /\ call[c] \in Call /\ TokenOK(c) /\ published \in SUBSET Kids
    BY EveryToken DEF TypeOK
  <1> DEFINE new == [call[c] EXCEPT !.pc = "fetched", !.got = published]
  <1>2. \/ call' = [call EXCEPT ![c] = new]
        \/ call' = [call EXCEPT ![c] = [IdleCall EXCEPT !.pc = "failed"]]
    BY DEF Answer
  <1>3. \A k \in Call : /\ [k EXCEPT !.pc = "fetched", !.got = published] \in Call
                        /\ [k EXCEPT !.pc = "fetched", !.got = published].pc = "fetched"
                        /\ [k EXCEPT !.pc = "fetched", !.got = published].got = published
                        /\ [k EXCEPT !.pc = "fetched", !.got = published].exp = k.exp
                        /\ [k EXCEPT !.pc = "fetched", !.got = published].kid = k.kid
    BY <1>1 DEF Call, Underway
  <1>4. /\ new \in Call /\ new.pc = "fetched" /\ new.got = published
        /\ new.exp = call[c].exp /\ new.kid = call[c].kid
    BY <1>1, <1>3
  <1> HIDE DEF new
  <1>5. CASE call' = [call EXCEPT ![c] = new]
    <2>1. call'[c] = new /\ UNCHANGED <<now, published>> /\ call[c].pc = "fetching"
      BY <1>1, <1>5 DEF Answer
    <2>2. TokenOK(c)'
      BY <1>1, <1>4, <2>1 DEF TokenOK, Underway, Expired
    <2> QED
      BY <1>1, <1>5, <2>2, OneHandler DEF Answer, EntryAge
  <1>6. CASE call' = [call EXCEPT ![c] = [IdleCall EXCEPT !.pc = "failed"]]
    BY <1>6, HandlerFails DEF Answer
  <1> QED
    BY <1>2, <1>5, <1>6

LEMMA RefreshStep ==
    ASSUME CacheInvariant, NEW c \in Calls, Refresh(c)
    PROVE  CacheInvariant' /\ call'[c].pc \in {"refused", "validated"}
  <1>1. call \in [Calls -> Call] /\ cached \in [exp : Expiry, until : Expiry]
        /\ keys \in [Kids -> Clock \cup {Never}] /\ EntryAge /\ now \in Clock
        /\ call[c] \in Call /\ TokenOK(c)
    BY EveryToken DEF TypeOK
  <1>2. call[c].pc = "fetched" /\ call[c].kid \in Kids
    BY <1>1 DEF Refresh, Call
  <1>3. keys' \in [Kids -> Clock \cup {Never}]
    BY <1>1 DEF Refresh
  <1>4. keys'[call[c].kid] # Never \/ Expired(c)
    <2>1. call[c].kid \in call[c].got => keys'[call[c].kid] = now
      BY <1>2 DEF Refresh
    <2>2. now # Never
      BY <1>1, AuthAssumption DEF Clock, Never
    <2> QED
      BY <1>1, <1>2, <2>1, <2>2 DEF TokenOK
  <1>5. PICK to \in {"refused", "validated"} :
          /\ call' = [call EXCEPT ![c] = [@ EXCEPT !.pc = to, !.got = {}]]
          /\ to = "refused" => Expired(c)
    BY <1>4 DEF Refresh
  <1> DEFINE new == [call[c] EXCEPT !.pc = to, !.got = {}]
  <1>6. \A k \in Call : /\ [k EXCEPT !.pc = to, !.got = {}] \in Call
                        /\ [k EXCEPT !.pc = to, !.got = {}].pc = to
                        /\ [k EXCEPT !.pc = to, !.got = {}].exp = k.exp
                        /\ [k EXCEPT !.pc = to, !.got = {}].kid = k.kid
    BY DEF Call, Underway
  <1>7. /\ new \in Call /\ new.pc = to
        /\ new.exp = call[c].exp /\ new.kid = call[c].kid
    BY <1>1, <1>6
  <1>8. call' = [call EXCEPT ![c] = new]
    BY <1>5
  <1> HIDE DEF new
  <1>9. call'[c] = new /\ UNCHANGED <<now, published>>
    BY <1>1, <1>8 DEF Refresh
  <1>10. TokenOK(c)'
    BY <1>1, <1>2, <1>5, <1>7, <1>9 DEF TokenOK, Underway, Expired
  <1>11. CacheInvariant'
    BY <1>1, <1>3, <1>8, <1>10, OneHandler DEF Refresh, EntryAge
  <1> QED
    BY <1>7, <1>9, <1>11

LEMMA AcceptStep ==
    ASSUME CacheInvariant, NEW c \in Calls, Accept(c)
    PROVE  /\ CacheInvariant'
           /\ call'[c].pc = "served" => now <= call'[c].exp + Leeway
  <1>1. /\ call \in [Calls -> Call] /\ call[c] \in Call
        /\ cached \in [exp : Expiry, until : Expiry] /\ EntryAge
        /\ keys \in [Kids -> Clock \cup {Never}] /\ call[c].pc = "validated"
    BY DEF Accept, CacheInvariant, TypeOK
  <1>2. now \in Nat /\ call[c].exp \in Int
    BY Times
  <1>3. CASE call[c].exp + Leeway >= now
    <2>1. /\ call' = [call EXCEPT ![c].pc = "served"]
          /\ cached' = [exp |-> call[c].exp, until |-> now + Life]
          /\ UNCHANGED <<now, signing, published, keys>>
      BY <1>3 DEF Accept
    <2>2. call[c].exp \in Expiry /\ now + Life \in Expiry
      BY AuthAssumption DEF CacheInvariant, TypeOK, Call, Clock, Expiry
    <2>3. cached' \in [exp : Expiry, until : Expiry] /\ EntryAge'
      BY <1>2, <1>3, <2>1, <2>2, AuthAssumption DEF EntryAge
    <2>4. call'[c].exp = call[c].exp
      BY <1>1, <2>1 DEF Call
    <2>5. "served" \in PCs \ {"fetched"} /\ "served" \notin Underway
      BY DEF PCs, Underway
    <2>6. CacheInvariant'
      BY <2>1, <2>3, <2>5, HandlerMoves
    <2> QED
      BY <1>2, <1>3, <2>4, <2>6, AuthAssumption
  <1>4. CASE ~(call[c].exp + Leeway >= now)
    <2>1. /\ call' = [call EXCEPT ![c].pc = "refused"]
          /\ UNCHANGED <<now, signing, published, keys, cached>>
      BY <1>4 DEF Accept
    <2>2. Expired(c)
      BY <1>2, <1>4, AuthAssumption DEF Expired
    <2>3. call'[c].pc = "refused"
      BY <1>1, <2>1
    <2> QED
      BY <1>1, <2>1, <2>2, <2>3, HandlerMoves DEF PCs, EntryAge, Underway
  <1> QED
    BY <1>3, <1>4

LEMMA HandleStep ==
    ASSUME CacheInvariant, NEW c \in Calls, Handle(c)
    PROVE  CacheInvariant'
  <1>1. call \in [Calls -> Call] /\ cached \in [exp : Expiry, until : Expiry]
        /\ keys \in [Kids -> Clock \cup {Never}] /\ EntryAge
    BY DEF CacheInvariant, TypeOK
  <1>2. CASE GetKey(c)
    <2>1. PICK to \in {"validated", "fetching"} : call' = [call EXCEPT ![c].pc = to]
      BY <1>2 DEF GetKey
    <2>2. call[c].pc = "issued" /\ UNCHANGED <<now, signing, published, cached, keys>>
      BY <1>2 DEF GetKey
    <2>3. to \in PCs \ {"fetched"} /\ to # "refused" /\ call[c].pc \in Underway
      BY <2>2 DEF PCs, Underway
    <2> QED
      BY <1>1, <2>1, <2>2, <2>3, HandlerMoves DEF EntryAge
  <1>3. CASE Leave(c)
    <2>1. IdleCall = [IdleCall EXCEPT !.pc = "idle"]
      BY DEF IdleCall
    <2> QED
      BY <1>3, <2>1, HandlerFails DEF Leave
  <1> QED
    BY <1>2, <1>3, LookupStep, IssueStep, AnswerStep, RefreshStep, AcceptStep DEF Handle

(***************************************************************************)
(* What has expired stays expired, and a key is withdrawn only from tokens *)
(* that have.                                                              *)
(***************************************************************************)
LEMMA CacheStep == CacheInvariant /\ [Next]_vars => CacheInvariant'
<1> SUFFICES ASSUME CacheInvariant, [Next]_vars PROVE CacheInvariant'
  OBVIOUS
<1>1. ASSUME NEW c \in Calls, Handle(c) PROVE CacheInvariant'
  BY <1>1, HandleStep
<1>2. CASE Tick
  <2>1. TypeOK'
    BY <1>2, AuthAssumption DEF Tick, CacheInvariant, TypeOK, Clock
  <2>2. UNCHANGED <<signing, published, cached, keys, call>>
    BY <1>2 DEF Tick
  <2>3. \A c \in Calls : Expired(c) => Expired(c)'
    <3> SUFFICES ASSUME NEW c \in Calls, call[c].exp < now PROVE call[c].exp < now'
      BY <2>2 DEF Expired
    <3> QED
      BY <1>2, Times DEF Tick
  <2> QED
    BY <2>1, <2>2, <2>3
    DEF CacheInvariant, EntryAge, SigningPublished, KeyPublished, KeyGot, RefusedExpired,
        Expired
<1>3. CASE Rotate
  BY <1>3 DEF Rotate, CacheInvariant, TypeOK, EntryAge, SigningPublished,
              KeyPublished, KeyGot, RefusedExpired, Expired
<1>4. ASSUME NEW k \in Kids, Unpublish(k) PROVE CacheInvariant'
  BY <1>4 DEF Unpublish, CacheInvariant, TypeOK, EntryAge, SigningPublished,
              KeyPublished, KeyGot, RefusedExpired, Expired
<1>5. CASE UNCHANGED vars
  BY <1>5 DEF vars, CacheInvariant, TypeOK, EntryAge, SigningPublished,
              KeyPublished, KeyGot, RefusedExpired, Expired
<1> QED
  BY <1>1, <1>2, <1>3, <1>4, <1>5 DEF Next

(***************************************************************************)
(* Types.                                                                  *)
(***************************************************************************)
THEOREM TypeCorrect == Spec => []TypeOK
<1>1. CacheInvariant => TypeOK
  BY DEF CacheInvariant
<1> QED
  BY <1>1, CacheInit, CacheStep, PTL DEF Spec

(***************************************************************************)
(* A request the provider has answered is refused only with an expired     *)
(* token, whatever fetches of other requests fail, overtake it or bring    *)
(* older keys.                                                             *)
(***************************************************************************)
THEOREM AliveNotRefused == Spec => []RefusedExpired
<1>1. CacheInvariant => RefusedExpired
  BY DEF CacheInvariant
<1> QED
  BY <1>1, CacheInit, CacheStep, PTL DEF Spec

(***************************************************************************)
(* A token just accepted has expired no more than Leeway ago, one from the *)
(* cache less than Leeway + Life - Margin ago, however long the provider   *)
(* took and whichever exchange finished last.                              *)
(***************************************************************************)
THEOREM ServedInTime == Spec => ServedWithin
<1>1. CacheInvariant /\ [Next]_vars =>
        [\A c \in Calls : call[c].pc # "served" /\ call'[c].pc = "served" =>
            \/ now <= call'[c].exp + Leeway
            \/ now + Margin < call'[c].exp + Leeway + Life]_vars
  <2> SUFFICES ASSUME CacheInvariant, [Next]_vars, NEW c \in Calls,
                      call[c].pc # "served", call'[c].pc = "served"
               PROVE  \/ now <= call'[c].exp + Leeway
                      \/ now + Margin < call'[c].exp + Leeway + Life
    OBVIOUS
  <2>1. call \in [Calls -> Call] /\ call[c] \in Call
    BY DEF CacheInvariant, TypeOK
  <2>2. PICK d \in Calls : Handle(d)
    BY DEF Next, Tick, Rotate, Unpublish, vars
  <2>3. c = d
    BY <2>1, <2>2 DEF Handle, Lookup, Issue, GetKey, Answer, Refresh, Accept, Leave
  <2>4. CASE Lookup(c)
    BY <2>4, LookupWithin
  <2>5. CASE Accept(c)
    BY <2>5, AcceptStep
  <2>6. CASE GetKey(c) \/ Leave(c)
    BY <2>1, <2>6 DEF GetKey, Leave, IdleCall, Call
  <2>7. CASE Refresh(c)
    BY <2>7, RefreshStep
  <2>8. CASE Issue(c)
    BY <2>1, <2>8 DEF Issue, IdleCall, Call
  <2>9. CASE Answer(c)
    <3>1. /\ \A k \in Call : [k EXCEPT !.pc = "fetched", !.got = published].pc = "fetched"
          /\ [IdleCall EXCEPT !.pc = "failed"].pc = "failed"
      BY DEF Call, IdleCall
    <3>2. PICK new : call' = [call EXCEPT ![c] = new] /\ new.pc \in {"fetched", "failed"}
      <4>1. CASE call' = [call EXCEPT ![c] = [@ EXCEPT !.pc = "fetched", !.got = published]]
        BY <2>1, <3>1, <4>1
      <4>2. CASE call' = [call EXCEPT ![c] = [IdleCall EXCEPT !.pc = "failed"]]
        BY <3>1, <4>2
      <4> QED
        BY <2>9, <4>1, <4>2 DEF Answer
    <3> QED
      BY <2>1, <3>2
  <2> QED
    BY <2>2, <2>3, <2>4, <2>5, <2>6, <2>7, <2>8, <2>9 DEF Handle
<1> QED
  BY <1>1, CacheInit, CacheStep, PTL DEF Spec, ServedWithin
=============================================================================
