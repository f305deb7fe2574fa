------------------------------- MODULE Broker -------------------------------
(***************************************************************************)
(* The verify step of the OIDC key broker                                   *)
(* (templates/oidc-proxy/oidc_key_broker.py): requests are served by        *)
(* threads that share one NonceCache.  A request reads the wall clock       *)
(* first, passes the checks on the token, reads the cache's clock BEFORE it *)
(* takes the cache's lock, and consults the cache last of all.  The cache   *)
(* is an ordered dictionary: an entry carries the rank of its insertion.    *)
(***************************************************************************)
EXTENDS Integers, FiniteSets

CONSTANTS
    Requests,    \* calls of verify_oidc_token, each made once
    Tokens,      \* the tokens presented, records (see Token)
    Allowed,     \* ALLOWED_ALGS
    Trusted,     \* the signatures the injected verifier accepts
    Issuer, Audience,
    Subjects,    \* allowed_subjects
    Skew,        \* clock_skew_seconds
    TTL,         \* the cache's ttl_seconds
    MaxEntries,  \* the cache's max_entries
    MaxClock     \* bound: the clock stops here

ASSUME NumbersAssumption ==
    /\ Skew \in Nat /\ TTL \in Nat \ {0} /\ MaxEntries \in Nat \ {0} /\ MaxClock \in Nat

(* A token: whether its three segments decode, the header's alg, its        *)
(* signature, whether its claims decode and the required ones are there,    *)
(* and those claims.                                                        *)
(* The cache knows it by key, its (jti, iat).  Without nbf, nbf = -1.       *)
ASSUME TokensAssumption ==
    \A t \in Tokens : t.iat \in Nat /\ t.exp \in Nat /\ t.nbf \in Int

VARIABLES
    clock,      \* seconds; the wall clock and the monotonic clock agree
    req,        \* progress of each request
    store,      \* the cache: a set of entries, ordered by rank
    inserted,   \* number of insertions so far
    admitted,   \* history: the admissions of the cache
    evicted     \* history: ranks of the entries evicted before their time

vars == <<clock, req, store, inserted, admitted, evicted>>

Keys == {t.key : t \in Tokens}
Entries == [key: Keys, deadline: Int, rank: Int]
Idle == [pc |-> "idle"]
Reasons == {"malformed_token", "disallowed_alg", "signature_invalid", "missing_claim",
            "issuer_mismatch", "audience_mismatch", "subject_not_allowed", "token_expired",
            "token_not_yet_valid", "iat_out_of_window", "replayed_jti"}
Progress ==
    {Idle} \cup [pc: {"checked"}, token: Tokens, wall: Int]
           \cup [pc: {"clocked"}, token: Tokens, wall: Int, mono: Int]
           \cup [pc: {"accepted"}]
           \cup [pc: {"denied"}, reason: Reasons]

TypeOK ==
    /\ clock \in Nat
    /\ req \in [Requests -> Progress]
    /\ store \subseteq Entries
    /\ inserted \in Nat
    /\ admitted \subseteq [token: Tokens, wall: Int, mono: Int, at: Int, rank: Int]
    /\ evicted \subseteq Int

(***************************************************************************)
(* The checks that precede the cache: the first one that fails names the    *)
(* denial.                                                                  *)
(***************************************************************************)
WellFormed(t) == t.form = "ok"                            \* parse_jws_header, three segments
AllowedAlg(t) == t.alg \in Allowed                        \* enforce_alg_allowlist
Claims(t)     == t.claims = "ok"                          \* _require_str, _require_int
Expired(t, now) == now > t.exp + Skew
NotYet(t, now)  == t.nbf >= 0 /\ now + Skew < t.nbf
FromTheFuture(t, now) == t.iat - Skew > now

Failures(t, now) ==
    << <<~WellFormed(t), "malformed_token">>,
       <<~AllowedAlg(t), "disallowed_alg">>,
       <<t.signature \notin Trusted, "signature_invalid">>,
       <<t.claims = "undecodable", "malformed_token">>,
       <<~Claims(t), "missing_claim">>,
       <<t.iss # Issuer, "issuer_mismatch">>,
       <<Audience \notin t.aud, "audience_mismatch">>,
       <<t.sub \notin Subjects, "subject_not_allowed">>,
       <<Expired(t, now), "token_expired">>,
       <<NotYet(t, now), "token_not_yet_valid">>,
       <<FromTheFuture(t, now), "iat_out_of_window">> >>

Valid(t, now) == \A i \in 1..11 : ~Failures(t, now)[i][1]

Denial(t, now) ==
    LET f == Failures(t, now)
    IN  f[CHOOSE i \in 1..11 : f[i][1] /\ \A j \in 1..(i - 1) : ~f[j][1]][2]

(***************************************************************************)
(* The cache, under its lock.                                               *)
(***************************************************************************)
\* Pop from the front until an entry is live.
Purged(now) == {e \in store : \E f \in store : f.rank <= e.rank /\ f.deadline > now}
LiveInTheStore(k, now) == \E e \in store : e.key = k /\ e.deadline > now + 1
Live(k, now) == \E e \in Purged(now) : e.key = k /\ e.deadline > now
\* What a new entry for k is added to: no stale entry of k is left, and the
\* oldest entries are popped until there is room for one more.
Kept(k, now) == {e \in Purged(now) : e.key # k}
PoppedLate(k, now) ==
    {e \in Kept(k, now) : Cardinality({f \in Kept(k, now) : f.rank > e.rank}) >= MaxEntries}
PoppedNewest(k, now) ==
    {e \in Kept(k, now) : Cardinality({f \in Kept(k, now) : f.rank < e.rank}) >= MaxEntries - 1}
Popped(k, now) ==
    {e \in Kept(k, now) : Cardinality({f \in Kept(k, now) : f.rank > e.rank}) >= MaxEntries - 1}

(***************************************************************************)
(* Steps of a request.                                                      *)
(***************************************************************************)
Arrive(r, t) ==
    /\ req[r] = Idle
    /\ req' = [req EXCEPT ![r] =
                  IF Valid(t, clock)
                  THEN [pc |-> "checked", token |-> t, wall |-> clock]
                  ELSE [pc |-> "denied", reason |-> Denial(t, clock)]]
    /\ UNCHANGED <<clock, store, inserted, admitted, evicted>>

ReadClock(r) ==
    /\ req[r].pc = "checked"
    /\ req' = [req EXCEPT ![r] = [pc |-> "clocked", token |-> req[r].token,
                                  wall |-> req[r].wall, mono |-> clock]]
    /\ UNCHANGED <<clock, store, inserted, admitted, evicted>>

Replayed(r) ==
    LET q == req[r]
    IN  /\ q.pc = "clocked"
        /\ Live(q.token.key, q.mono)
        /\ store' = Purged(q.mono)
        /\ req' = [req EXCEPT ![r] = [pc |-> "denied", reason |-> "replayed_jti"]]
        /\ UNCHANGED <<clock, inserted, admitted, evicted>>

Admit(r) ==
    LET q == req[r]
        k == q.token.key
        out == Popped(k, q.mono)
        entry == [key |-> k, deadline |-> q.mono + TTL, rank |-> inserted + 1]
    IN  /\ q.pc = "clocked"
        /\ ~Live(k, q.mono)
        /\ store' = (Kept(k, q.mono) \ out) \cup {entry}
        /\ inserted' = inserted + 1
        /\ admitted' = admitted \cup {[token |-> q.token, wall |-> q.wall, mono |-> q.mono,
                                       at |-> clock, rank |-> inserted + 1]}
        /\ evicted' = evicted \cup {e.rank : e \in {x \in out : x.deadline > clock}}
        /\ req' = [req EXCEPT ![r] = [pc |-> "accepted"]]
        /\ UNCHANGED clock

Tick ==
    /\ clock < MaxClock
    /\ clock' = clock + 1
    /\ UNCHANGED <<req, store, inserted, admitted, evicted>>

Init ==
    /\ clock = 0
    /\ req = [r \in Requests |-> Idle]
    /\ store = {}
    /\ inserted = 0
    /\ admitted = {}
    /\ evicted = {}

Next ==
    \/ Tick
    \/ \E r \in Requests :
          \/ \E t \in Tokens : Arrive(r, t)
          \/ ReadClock(r)
          \/ Replayed(r)
          \/ Admit(r)

Spec == Init /\ [][Next]_vars

(***************************************************************************)
(* Properties                                                               *)
(***************************************************************************)
\* A key is admitted again only once the lifetime of its last admission is
\* over by the clock, whatever the order in which threads read the clock and
\* take the lock -- or the size bound had evicted it ("single-use within its
\* TTL window").
AdmitOnce ==
    \A a, b \in admitted :
        (a.token.key = b.token.key /\ a.rank < b.rank /\ a.rank \notin evicted)
            => b.at >= a.mono + TTL

\* A token that lives shorter than the cache remembers it is accepted twice
\* only by a request that outlasted the token: it was checked before the
\* token expired and reached the cache after, or the first was evicted.
OncePerLife ==
    \A a, b \in admitted :
        (/\ a.token = b.token /\ a.rank < b.rank /\ a.rank \notin evicted
         /\ a.token.exp - a.token.iat + 2 * Skew < TTL)
            => b.wall <= a.token.exp + Skew /\ b.at > a.token.exp + Skew

\* At the size bound the live entry that goes is "the closest to its own
\* expiry": one that stays and expires sooner belongs to a thread that was
\* overtaken between the clock and the lock.
EvictsClosestToExpiry ==
    [][\A a, b \in admitted :
          (/\ a.rank \in evicted' \ evicted /\ b.mono < a.mono
           /\ \E f \in store' : f.rank = b.rank)
              => a.rank < b.rank /\ b.mono < a.at /\ a.at <= b.at]_vars

\* The size bound holds after every request, expired leftovers included, and
\* no key has two entries: the newest entry decides.
Bounded ==
    /\ Cardinality(store) <= MaxEntries
    /\ \A e, f \in store : e.key = f.key => e = f

\* "A token that would be rejected anyway never consumes a nonce slot": every
\* entry was put there for a token of the trusted issuer that was in its
\* windows, so a token refused as too early is accepted when its time comes.
RefusedLeavesNoTrace ==
    \A e \in store : \E a \in admitted :
        /\ a.rank = e.rank /\ a.token.key = e.key
        /\ a.token.signature \in Trusted /\ a.token.alg \in Allowed
        /\ ~Expired(a.token, a.wall)
        /\ ~NotYet(a.token, a.at) /\ ~FromTheFuture(a.token, a.at)
=============================================================================
