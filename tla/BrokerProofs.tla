---------------------------- MODULE BrokerProofs ----------------------------
(***************************************************************************)
(* Proofs about Broker for every set of requests and tokens, every TTL,     *)
(* skew and size bound, and every order in which threads read the clock and *)
(* take the lock.                                                           *)
(***************************************************************************)
EXTENDS Broker, FiniteSetTheorems, WellFoundedInduction, TLAPS

\* What a request carries between its steps: a token that was in order when
\* the wall clock was read, and clock readings of the past.
RequestsInOrder ==
    \A r \in Requests :
        /\ req[r].pc \in {"checked", "clocked"} =>
              Valid(req[r].token, req[r].wall) /\ req[r].wall <= clock
        /\ req[r].pc = "clocked" => req[r].mono <= clock /\ req[r].wall <= req[r].mono

HistoryInOrder ==
    \A a \in admitted :
        /\ a.rank <= inserted
        /\ a.wall <= a.mono /\ a.mono <= a.at /\ a.at <= clock
        /\ Valid(a.token, a.wall)

\* The cache still holds the entry of an admission until its time has come.
Remembers(a) ==
    \/ a.rank \in evicted
    \/ clock >= a.mono + TTL
    \/ \E e \in store : e.rank = a.rank /\ e.key = a.token.key /\ e.deadline = a.mono + TTL

IInv == TypeOK /\ RequestsInOrder /\ HistoryInOrder /\ (\A a \in admitted : Remembers(a)) /\ AdmitOnce

\* The reasons a token is refused for are the documented ones.
LEMMA DenialListed ==
    ASSUME NEW t, NEW now, ~Valid(t, now)
    PROVE  Denial(t, now) \in Reasons
<1> DEFINE f == Failures(t, now)
           First(i) == f[i][1] /\ \A j \in 1..(i - 1) : ~f[j][1]
<1>1. PICK n \in 1..11 : f[n][1]
  BY DEF Valid
<1>2. \E i \in 1..11 : First(i)
  <2> HIDE DEF f
  <2>1. \/ First(1) \/ First(2) \/ First(3) \/ First(4) \/ First(5)
        \/ First(6) \/ First(7) \/ First(8) \/ First(9) \/ First(10) \/ First(11)
    BY <1>1
  <2> HIDE DEF First
  <2> QED BY <2>1
<1>3. \A i \in 1..11 : f[i][2] \in Reasons
  BY DEF Failures, Reasons
<1>4. (CHOOSE i \in 1..11 : First(i)) \in 1..11
  <2> HIDE DEF First
  <2> QED BY <1>2
<1> QED BY <1>3, <1>4 DEF Denial

LEMMA WindowsOfValid ==
    ASSUME NEW t, NEW now, Valid(t, now)
    PROVE  ~Expired(t, now) /\ ~FromTheFuture(t, now)
BY DEF Valid, Failures

LEMMA TypeStep == TypeOK /\ [Next]_vars => TypeOK'
<1> SUFFICES ASSUME TypeOK, [Next]_vars PROVE TypeOK'
  OBVIOUS
<1> USE NumbersAssumption
<1>1. CASE Tick
  BY <1>1 DEF TypeOK, Tick
<1>2. ASSUME NEW r \in Requests, NEW t \in Tokens, Arrive(r, t) PROVE TypeOK'
  <2>1. req' \in [Requests -> Progress]
    <3>1. CASE Valid(t, clock)
      BY <1>2, <3>1 DEF TypeOK, Arrive, Progress
    <3>2. CASE ~Valid(t, clock)
      <4>1. Denial(t, clock) \in Reasons
        BY <3>2, DenialListed
      <4> QED BY <1>2, <3>2, <4>1 DEF TypeOK, Arrive, Progress
    <3> QED BY <3>1, <3>2
  <2> QED BY <1>2, <2>1 DEF TypeOK, Arrive
<1>3. ASSUME NEW r \in Requests, ReadClock(r) PROVE TypeOK'
  BY <1>3 DEF TypeOK, ReadClock, Progress, Idle
<1>4. ASSUME NEW r \in Requests, Replayed(r) PROVE TypeOK'
  BY <1>4 DEF TypeOK, Replayed, Progress, Purged, Reasons
<1>5. ASSUME NEW r \in Requests, Admit(r) PROVE TypeOK'
  <2>1. /\ req[r].token \in Tokens /\ req[r].wall \in Int /\ req[r].mono \in Int
        /\ req[r].token.key \in Keys
    BY <1>5 DEF TypeOK, Admit, Progress, Idle, Keys
  <2>2. store' \subseteq Entries
    BY <1>5, <2>1 DEF TypeOK, Admit, Kept, Purged, Entries
  <2>3. req' \in [Requests -> Progress]
    BY <1>5 DEF TypeOK, Admit, Progress
  <2>4. admitted' \subseteq [token: Tokens, wall: Int, mono: Int, at: Int, rank: Int]
    BY <1>5, <2>1 DEF TypeOK, Admit
  <2>5. evicted' \subseteq Int
    BY <1>5, <2>1 DEF TypeOK, Admit, Popped, Kept, Purged, Entries
  <2> QED BY <1>5, <2>2, <2>3, <2>4, <2>5 DEF TypeOK, Admit
<1>6. CASE UNCHANGED vars
  BY <1>6 DEF TypeOK, vars
<1> QED BY <1>1, <1>2, <1>3, <1>4, <1>5, <1>6 DEF Next

LEMMA InvStep == IInv /\ [Next]_vars => IInv'
<1> SUFFICES ASSUME IInv, [Next]_vars PROVE IInv'
  OBVIOUS
<1> USE NumbersAssumption
<1>0. TypeOK'
  BY TypeStep DEF IInv
<1>1. CASE Tick
  BY <1>0, <1>1 DEF IInv, TypeOK, Tick, RequestsInOrder, HistoryInOrder, Remembers, AdmitOnce, Progress, Idle
<1>2. ASSUME NEW r \in Requests, NEW t \in Tokens, Arrive(r, t) PROVE IInv'
  <2>1. RequestsInOrder'
    BY <1>2 DEF IInv, TypeOK, Arrive, RequestsInOrder
  <2> QED BY <1>0, <1>2, <2>1 DEF IInv, Arrive, HistoryInOrder, Remembers, AdmitOnce
<1>3. ASSUME NEW r \in Requests, ReadClock(r) PROVE IInv'
  <2>1. RequestsInOrder'
    BY <1>3 DEF IInv, TypeOK, ReadClock, RequestsInOrder
  <2> QED BY <1>0, <1>3, <2>1 DEF IInv, ReadClock, HistoryInOrder, Remembers, AdmitOnce
<1>4. ASSUME NEW r \in Requests, Replayed(r) PROVE IInv'
  <2>1. RequestsInOrder'
    BY <1>4 DEF IInv, TypeOK, Replayed, RequestsInOrder
  <2>2. ASSUME NEW a \in admitted PROVE Remembers(a)'
    <3>1. Remembers(a) /\ req[r].mono <= clock /\ req[r].mono \in Int
      BY <1>4 DEF IInv, Replayed, RequestsInOrder, TypeOK, Progress, Idle
    <3> QED BY <1>4, <3>1 DEF Replayed, Remembers, Purged, IInv, TypeOK, Entries
  <2> QED BY <1>0, <1>4, <2>1, <2>2 DEF IInv, Replayed, HistoryInOrder, AdmitOnce
<1>5. ASSUME NEW r \in Requests, Admit(r) PROVE IInv'
  <2> DEFINE q == req[r]
             k == q.token.key
             new == [token |-> q.token, wall |-> q.wall, mono |-> q.mono,
                     at |-> clock, rank |-> inserted + 1]
             entry == [key |-> k, deadline |-> q.mono + TTL, rank |-> inserted + 1]
  <2>1. /\ q.token \in Tokens /\ q.wall \in Int /\ q.mono \in Int
        /\ Valid(q.token, q.wall) /\ q.mono <= clock /\ q.wall <= q.mono
    BY <1>5 DEF IInv, TypeOK, Admit, Progress, Idle, RequestsInOrder
  <2>2. /\ ~Live(k, q.mono)
        /\ store' = (Kept(k, q.mono) \ Popped(k, q.mono)) \cup {entry}
        /\ admitted' = admitted \cup {new}
        /\ inserted' = inserted + 1 /\ clock' = clock
        /\ evicted' = evicted \cup {e.rank : e \in {x \in Popped(k, q.mono) : x.deadline > clock}}
    BY <1>5 DEF Admit
  <2>3. RequestsInOrder'
    <3> SUFFICES ASSUME NEW r2 \in Requests
                 PROVE  /\ req'[r2].pc \in {"checked", "clocked"} =>
                              Valid(req'[r2].token, req'[r2].wall) /\ req'[r2].wall <= clock
                        /\ req'[r2].pc = "clocked" =>
                              req'[r2].mono <= clock /\ req'[r2].wall <= req'[r2].mono
      BY <2>2 DEF RequestsInOrder
    <3>1. CASE r2 = r
      BY <1>5, <3>1 DEF IInv, TypeOK, Admit
    <3>2. CASE r2 # r
      <4>1. req'[r2] = req[r2]
        BY <1>5, <3>2 DEF IInv, TypeOK, Admit
      <4> QED BY <4>1 DEF IInv, RequestsInOrder
    <3> QED BY <3>1, <3>2
  <2>4. HistoryInOrder'
    BY <2>1, <2>2 DEF IInv, TypeOK, HistoryInOrder
  <2>5. ASSUME NEW a \in admitted, a.rank \notin evicted, clock < a.mono + TTL
        PROVE  a.token.key # k
    <3>1. PICK e \in store : e.rank = a.rank /\ e.key = a.token.key /\ e.deadline = a.mono + TTL
      BY <2>5 DEF IInv, Remembers, TypeOK
    <3>2. e.deadline > q.mono /\ e.rank \in Int
      BY <2>1, <2>5, <3>1 DEF IInv, TypeOK, Entries
    <3> QED BY <2>2, <3>1, <3>2 DEF Live, Purged
  <2>6. ASSUME NEW a \in admitted' PROVE Remembers(a)'
    <3>1. CASE a = new
      <4>1. /\ entry \in store' /\ entry.rank = a.rank /\ entry.key = a.token.key
            /\ entry.deadline = a.mono + TTL
        BY <2>2, <3>1
      <4> HIDE DEF entry
      <4> QED BY <4>1 DEF Remembers
    <3>2. CASE a \in admitted /\ a.rank \notin evicted /\ clock < a.mono + TTL
      <4>1. PICK e \in store : e.rank = a.rank /\ e.key = a.token.key /\ e.deadline = a.mono + TTL
        BY <3>2 DEF IInv, Remembers, TypeOK
      <4>2. e.deadline > clock /\ e.deadline > q.mono /\ e.rank \in Int /\ e.key # k
        BY <2>1, <2>5, <3>2, <4>1 DEF IInv, TypeOK, Entries
      <4>3. e \in Kept(k, q.mono)
        BY <4>2 DEF Kept, Purged
      <4> QED BY <2>2, <4>1, <4>2, <4>3 DEF Remembers
    <3>3. CASE a \in admitted /\ (a.rank \in evicted \/ clock >= a.mono + TTL)
      BY <2>2, <3>3 DEF Remembers
    <3>4. a = new \/ a \in admitted
      BY <2>2
    <3>5. CASE a \in admitted /\ ~(clock >= a.mono + TTL) /\ a.rank \notin evicted
      BY <3>2, <3>5 DEF IInv, TypeOK
    <3> QED BY <3>1, <3>3, <3>4, <3>5
  <2>7. AdmitOnce'
    <3> SUFFICES ASSUME NEW a \in admitted', NEW b \in admitted',
                        a.token.key = b.token.key, a.rank < b.rank, a.rank \notin evicted'
                 PROVE  b.at >= a.mono + TTL
      BY DEF AdmitOnce
    <3>1. CASE a \in admitted /\ b \in admitted
      BY <2>2, <3>1 DEF IInv, AdmitOnce
    <3>2. CASE a = new
      <4>1. b.rank <= inserted + 1
        BY <2>2, <2>4 DEF HistoryInOrder
      <4>2. a.rank = inserted + 1 /\ b.rank \in Int /\ inserted \in Nat
        BY <1>0, <3>2 DEF IInv, TypeOK
      <4> QED BY <4>1, <4>2
    <3>3. CASE a \in admitted /\ b = new
      <4>1. a.rank \notin evicted /\ a.token.key = k
        BY <2>2, <3>3
      <4> QED BY <2>5, <3>3, <4>1 DEF IInv, TypeOK
    <3> QED BY <2>2, <3>1, <3>2, <3>3
  <2> QED BY <1>0, <2>3, <2>4, <2>6, <2>7 DEF IInv
<1>6. CASE UNCHANGED vars
  BY <1>6 DEF IInv, TypeOK, vars, RequestsInOrder, HistoryInOrder, Remembers, AdmitOnce, Entries, Progress, Keys, Idle
<1> QED BY <1>1, <1>2, <1>3, <1>4, <1>5, <1>6 DEF Next

LEMMA InvInit == Init => IInv
BY NumbersAssumption DEF Init, IInv, TypeOK, RequestsInOrder, HistoryInOrder, AdmitOnce, Progress, Idle

\* The inductive invariant holds throughout.
THEOREM Invariance == Spec => []IInv
BY InvInit, InvStep, PTL DEF Spec

\* Every variable of the broker keeps its type; a refusal always carries one
\* of the documented reasons.
THEOREM TypeCorrect == Spec => []TypeOK
<1>1. IInv => TypeOK
  BY DEF IInv
<1> QED BY <1>1, Invariance, PTL

\* The cache admits a (jti, iat) once in its lifetime unless the size bound
\* evicted it, however threads interleave.
THEOREM AdmittedOnce == Spec => []AdmitOnce
<1>1. IInv => AdmitOnce
  BY DEF IInv
<1> QED BY <1>1, Invariance, PTL

\* A token that outlives neither the cache's memory nor the skew is accepted
\* again only by a request that outlasted it.
THEOREM AcceptedOncePerLife == Spec => []OncePerLife
<1>1. IInv => OncePerLife
  <2> SUFFICES ASSUME IInv, NEW a \in admitted, NEW b \in admitted,
                      a.token = b.token, a.rank < b.rank, a.rank \notin evicted,
                      a.token.exp - a.token.iat + 2 * Skew < TTL
               PROVE  b.wall <= a.token.exp + Skew /\ b.at > a.token.exp + Skew
    BY DEF OncePerLife
  <2>1. b.at >= a.mono + TTL
    BY DEF IInv, AdmitOnce
  <2>2. ~Expired(b.token, b.wall) /\ ~FromTheFuture(a.token, a.wall) /\ a.wall <= a.mono
    BY WindowsOfValid DEF IInv, HistoryInOrder
  <2>3. /\ a.token.exp \in Nat /\ a.token.iat \in Nat
        /\ a.wall \in Int /\ b.wall \in Int /\ a.mono \in Int /\ b.at \in Int
    BY TokensAssumption DEF IInv, TypeOK
  <2> QED BY <2>1, <2>2, <2>3, NumbersAssumption DEF Expired, FromTheFuture
<1> QED BY <1>1, Invariance, PTL

\* Every entry was put there by an admission: the cache never forgets whose it
\* is, whatever it purges, drops or evicts.
Placed == \A e \in store : \E a \in admitted : a.rank = e.rank /\ a.token.key = e.key

LEMMA PlacedStep == Placed /\ [Next]_vars => Placed'
<1> SUFFICES ASSUME Placed, [Next]_vars PROVE Placed'
  OBVIOUS
<1>1. CASE UNCHANGED <<store, admitted>>
  BY <1>1 DEF Placed
<1>2. ASSUME NEW r \in Requests, Replayed(r) PROVE Placed'
  <2>1. store' \subseteq store /\ admitted' = admitted
    BY <1>2 DEF Replayed, Purged
  <2> QED BY <2>1 DEF Placed
<1>3. ASSUME NEW r \in Requests, Admit(r) PROVE Placed'
  <2> DEFINE q == req[r]
             entry == [key |-> q.token.key, deadline |-> q.mono + TTL, rank |-> inserted + 1]
             new == [token |-> q.token, wall |-> q.wall, mono |-> q.mono,
                     at |-> clock, rank |-> inserted + 1]
  <2>1. store' \subseteq store \cup {entry}
    BY <1>3 DEF Admit, Kept, Purged
  <2>2. admitted' = admitted \cup {new}
    BY <1>3 DEF Admit
  <2>3. new.rank = entry.rank /\ new.token.key = entry.key
    OBVIOUS
  <2> HIDE DEF entry, new
  <2> QED BY <2>1, <2>2, <2>3 DEF Placed
<1>4. CASE UNCHANGED vars
  BY <1>1, <1>4 DEF vars
<1> QED BY <1>1, <1>2, <1>3, <1>4 DEF Next, Tick, Arrive, ReadClock

\* Only a token that passed every check ever takes a place in the cache.
THEOREM RefusedTakesNoPlace == Spec => []RefusedLeavesNoTrace
<1>1. Init => Placed
  BY DEF Init, Placed
<1>2. Spec => []Placed
  BY <1>1, PlacedStep, PTL DEF Spec
<1>3. IInv /\ Placed => RefusedLeavesNoTrace
  <2> SUFFICES ASSUME IInv, NEW a \in admitted
               PROVE  /\ a.token.signature \in Trusted /\ a.token.alg \in Allowed
                      /\ ~Expired(a.token, a.wall)
                      /\ ~NotYet(a.token, a.at) /\ ~FromTheFuture(a.token, a.at)
    BY DEF RefusedLeavesNoTrace, Placed
  <2>1. Valid(a.token, a.wall) /\ a.wall <= a.mono /\ a.mono <= a.at
    BY DEF IInv, HistoryInOrder
  <2>2. a.token.signature \in Trusted /\ a.token.alg \in Allowed
    <3>1. ~Failures(a.token, a.wall)[2][1] /\ ~Failures(a.token, a.wall)[3][1]
      BY <2>1 DEF Valid
    <3>2. Failures(a.token, a.wall)[2][1] <=> ~AllowedAlg(a.token)
      BY DEF Failures
    <3>3. Failures(a.token, a.wall)[3][1] <=> a.token.signature \notin Trusted
      BY DEF Failures
    <3> QED BY <3>1, <3>2, <3>3 DEF AllowedAlg
  <2>3. ~NotYet(a.token, a.wall)
    BY <2>1 DEF Valid, Failures
  <2>4. /\ a.token.exp \in Int /\ a.token.iat \in Int /\ a.token.nbf \in Int
        /\ a.wall \in Int /\ a.mono \in Int /\ a.at \in Int
    BY TokensAssumption DEF IInv, TypeOK
  <2>5. ~Expired(a.token, a.wall) /\ ~FromTheFuture(a.token, a.wall)
    BY <2>1, WindowsOfValid
  <2> QED BY <2>1, <2>2, <2>3, <2>4, <2>5, NumbersAssumption DEF NotYet, Expired, FromTheFuture
<1> QED BY <1>2, <1>3, Invariance, PTL

(***************************************************************************)
(* The size bound                                                           *)
(***************************************************************************)
\* The ranks tell the entries apart and grow with time.
RanksInOrder ==
    /\ IsFiniteSet(store)
    /\ \A e \in store : e.rank \in Nat /\ e.rank <= inserted
    /\ \A e, f \in store : e.rank = f.rank => e = f
    /\ \A a, b \in admitted : a.rank < b.rank => a.at <= b.at

BInv == IInv /\ RanksInOrder /\ Bounded

LEMMA LeastOf ==
    ASSUME NEW S \in SUBSET Nat, S # {}
    PROVE  \E m \in S : \A k \in S : m <= k
<1>1. PICK m \in S : \A k \in S : ~(<<k, m>> \in OpToRel(<, Nat))
  BY NatLessThanWellFounded, WFMin
<1>2. \A k \in S : ~(k < m)
  BY <1>1 DEF OpToRel
<1> QED BY <1>2

\* The entries of S that fewer than n others outrank.
Newest(S, n) == {e \in S : Cardinality({f \in S : f.rank > e.rank}) < n}

\* There are at most n of them: the oldest is outranked by all the others.
LEMMA NewestAreFew ==
    ASSUME NEW S, NEW n \in Nat, IsFiniteSet(S),
           \A e \in S : e.rank \in Nat, \A e, f \in S : e.rank = f.rank => e = f
    PROVE  IsFiniteSet(Newest(S, n)) /\ Cardinality(Newest(S, n)) <= n
<1> DEFINE R == Newest(S, n)
<1>1. R \subseteq S /\ IsFiniteSet(R) /\ Cardinality(R) \in Nat
  BY FS_Subset, FS_CardinalityType DEF Newest
<1>2. CASE R = {}
  BY <1>1, <1>2, FS_EmptySet
<1>3. CASE R # {}
  <2>1. {e.rank : e \in R} \in SUBSET Nat /\ {e.rank : e \in R} # {}
    BY <1>1, <1>3
  <2>2. PICK m \in {e.rank : e \in R} : \A k \in {e.rank : e \in R} : m <= k
    BY <2>1, LeastOf
  <2>3. PICK e \in R : e.rank = m
    OBVIOUS
  <2> DEFINE above == {f \in S : f.rank > e.rank}
  <2>4. Cardinality(above) < n /\ IsFiniteSet(above) /\ Cardinality(above) \in Nat
    BY FS_Subset, FS_CardinalityType DEF Newest
  <2>5. R \ {e} \subseteq above
    <3> SUFFICES ASSUME NEW f \in R, f # e PROVE f.rank > e.rank
      BY <1>1
    <3>1. e.rank <= f.rank /\ e.rank # f.rank /\ e.rank \in Nat /\ f.rank \in Nat
      BY <1>1, <2>2, <2>3
    <3> QED BY <3>1
  <2>6. Cardinality(R \ {e}) <= Cardinality(above)
    BY <2>4, <2>5, FS_Subset
  <2>7. Cardinality(R \ {e}) = Cardinality(R) - 1
    BY <1>1, FS_RemoveElement
  <2> QED BY <1>1, <2>4, <2>6, <2>7
<1> QED BY <1>2, <1>3

\* A request leaves the newest MaxEntries - 1 of what it keeps.
LEMMA StaysAreNewest ==
    ASSUME NEW k, NEW now, BInv
    PROVE  /\ Kept(k, now) \subseteq store /\ IsFiniteSet(Kept(k, now))
           /\ Kept(k, now) \ Popped(k, now) = Newest(Kept(k, now), MaxEntries - 1)
<1>1. Kept(k, now) \subseteq store
  BY DEF Kept, Purged
<1>2. IsFiniteSet(Kept(k, now))
  BY <1>1, FS_Subset DEF BInv, RanksInOrder
<1>3. ASSUME NEW e \in Kept(k, now)
      PROVE  Cardinality({f \in Kept(k, now) : f.rank > e.rank}) \in Nat
  <2>1. {f \in Kept(k, now) : f.rank > e.rank} \in SUBSET Kept(k, now)
    OBVIOUS
  <2>2. IsFiniteSet({f \in Kept(k, now) : f.rank > e.rank})
    BY <1>2, <2>1, FS_Subset
  <2> QED BY <2>2, FS_CardinalityType
<1> HIDE DEF BInv
<1> QED BY <1>1, <1>2, <1>3, NumbersAssumption DEF Popped, Newest

\* What stays in the cache outranks what is popped.
LEMMA PoppedAreOldest ==
    ASSUME NEW k, NEW now, BInv,
           NEW e \in Popped(k, now), NEW f \in Kept(k, now) \ Popped(k, now)
    PROVE  e.rank < f.rank
<1> DEFINE K == Kept(k, now)
           Above(x) == {g \in K : g.rank > x.rank}
<1>1. K \subseteq store /\ IsFiniteSet(K)
  BY StaysAreNewest
<1>2. e.rank \in Nat /\ f.rank \in Nat
  BY <1>1 DEF BInv, RanksInOrder, Popped
<1>3. SUFFICES ASSUME f.rank <= e.rank PROVE FALSE
  BY <1>2
<1>4. Above(e) \subseteq Above(f)
  BY <1>1, <1>2, <1>3 DEF BInv, RanksInOrder
<1>5. IsFiniteSet(Above(e)) /\ IsFiniteSet(Above(f))
  BY <1>1, FS_Subset
<1>6. Cardinality(Above(e)) <= Cardinality(Above(f))
  BY <1>4, <1>5, FS_Subset
<1>7. Cardinality(Above(e)) \in Nat /\ Cardinality(Above(f)) \in Nat
  BY <1>5, FS_CardinalityType
<1>8. Cardinality(Above(e)) >= MaxEntries - 1 /\ ~(Cardinality(Above(f)) >= MaxEntries - 1)
  BY DEF Popped
<1> QED BY <1>6, <1>7, <1>8, NumbersAssumption

LEMMA BoundedStep == BInv /\ [Next]_vars => BInv'
<1> SUFFICES ASSUME BInv, [Next]_vars PROVE BInv'
  OBVIOUS
<1> USE NumbersAssumption
<1>0. IInv'
  BY InvStep DEF BInv
<1>1. CASE UNCHANGED <<store, inserted, admitted>>
  BY <1>0, <1>1 DEF BInv, RanksInOrder, Bounded
<1>2. ASSUME NEW r \in Requests, Replayed(r) PROVE BInv'
  <2>1. store' \subseteq store /\ UNCHANGED <<inserted, admitted>>
    BY <1>2 DEF Replayed, Purged
  <2>2. IsFiniteSet(store') /\ Cardinality(store') <= Cardinality(store)
    BY <2>1, FS_Subset DEF BInv, RanksInOrder
  <2>3. Cardinality(store') \in Nat /\ Cardinality(store) \in Nat
    BY <2>2, FS_CardinalityType DEF BInv, RanksInOrder
  <2>4. RanksInOrder'
    BY <2>1, <2>2 DEF BInv, RanksInOrder
  <2>5. Bounded'
    BY <2>1, <2>2, <2>3 DEF BInv, Bounded
  <2> QED BY <1>0, <2>4, <2>5 DEF BInv
<1>3. ASSUME NEW r \in Requests, Admit(r) PROVE BInv'
  <2> DEFINE q == req[r]
             k == q.token.key
             stay == Kept(k, q.mono) \ Popped(k, q.mono)
             entry == [key |-> k, deadline |-> q.mono + TTL, rank |-> inserted + 1]
             new == [token |-> q.token, wall |-> q.wall, mono |-> q.mono,
                     at |-> clock, rank |-> inserted + 1]
  <2>1. /\ store' = stay \cup {entry}
        /\ admitted' = admitted \cup {new}
        /\ inserted' = inserted + 1 /\ inserted \in Nat
    BY <1>3 DEF Admit, BInv, IInv, TypeOK
  <2>2. /\ Kept(k, q.mono) \subseteq store /\ IsFiniteSet(Kept(k, q.mono))
        /\ stay = Newest(Kept(k, q.mono), MaxEntries - 1)
    BY StaysAreNewest
  <2>3. /\ stay \subseteq store
        /\ \A e \in stay : e.rank \in Nat /\ e.rank <= inserted /\ e.key # k
    BY <2>2 DEF BInv, RanksInOrder, Kept
  <2>4. IsFiniteSet(stay) /\ Cardinality(stay) <= MaxEntries - 1
    <3>1. \A e \in Kept(k, q.mono) : e.rank \in Nat
      BY <2>2 DEF BInv, RanksInOrder
    <3>2. \A e, f \in Kept(k, q.mono) : e.rank = f.rank => e = f
      BY <2>2 DEF BInv, RanksInOrder
    <3>3. MaxEntries - 1 \in Nat
      OBVIOUS
    <3>4. ASSUME NEW S, S = Kept(k, q.mono)
          PROVE  /\ IsFiniteSet(Newest(S, MaxEntries - 1))
                 /\ Cardinality(Newest(S, MaxEntries - 1)) <= MaxEntries - 1
      <4>1. IsFiniteSet(S) /\ (\A e \in S : e.rank \in Nat)
            /\ (\A e, f \in S : e.rank = f.rank => e = f)
        BY <2>2, <3>1, <3>2, <3>4
      <4> QED BY <3>3, <4>1, NewestAreFew
    <3> HIDE DEF stay
    <3> QED BY <2>2, <3>4
  <2>5. entry.rank = inserted + 1 /\ entry.key = k /\ new.rank = inserted + 1 /\ new.at = clock
    OBVIOUS
  <2> HIDE DEF entry, new, stay
  <2>6. IsFiniteSet(store') /\ Cardinality(store') <= MaxEntries
    <3>1. Cardinality(stay) \in Nat
      BY <2>4, FS_CardinalityType
    <3>2. /\ IsFiniteSet(stay \cup {entry})
          /\ Cardinality(stay \cup {entry}) =
               IF entry \in stay THEN Cardinality(stay) ELSE Cardinality(stay) + 1
      BY <2>4, FS_AddElement
    <3> QED BY <2>1, <2>4, <3>1, <3>2
  <2>7. \A e, f \in store' : e.rank = f.rank \/ e.key = f.key => e = f
    <3>1. \A e, f \in stay : e.rank = f.rank \/ e.key = f.key => e = f
      BY <2>3 DEF BInv, RanksInOrder, Bounded
    <3>2. \A e \in stay : e.rank # entry.rank /\ e.key # entry.key
      BY <2>1, <2>3, <2>5
    <3> QED BY <2>1, <3>1, <3>2
  <2>8. \A e \in store' : e.rank \in Nat /\ e.rank <= inserted'
    BY <2>1, <2>3, <2>5
  <2>9. \A a, b \in admitted' : a.rank < b.rank => a.at <= b.at
    <3>1. \A a \in admitted : a.rank <= inserted /\ a.at <= clock /\ a.rank \in Int /\ a.at \in Int
      BY DEF BInv, IInv, HistoryInOrder, TypeOK
    <3>2. \A a, b \in admitted : a.rank < b.rank => a.at <= b.at
      BY DEF BInv, RanksInOrder
    <3>3. clock \in Int
      BY DEF BInv, IInv, TypeOK
    <3> QED BY <2>1, <2>5, <3>1, <3>2, <3>3
  <2> QED BY <1>0, <2>6, <2>7, <2>8, <2>9 DEF BInv, RanksInOrder, Bounded
<1>4. CASE Tick \/ UNCHANGED vars \/ \E r \in Requests : ReadClock(r) \/ \E t \in Tokens : Arrive(r, t)
  BY <1>1, <1>4 DEF Tick, vars, ReadClock, Arrive
<1> QED BY <1>2, <1>3, <1>4 DEF Next

LEMMA BoundedInit == Init => BInv
BY InvInit, FS_EmptySet, NumbersAssumption DEF BInv, Init, RanksInOrder, Bounded

LEMMA BoundedThroughout == Spec => []BInv
BY BoundedInit, BoundedStep, PTL DEF Spec

\* The size bound holds after every request, and no key has two entries.
THEOREM NeverOverBound == Spec => []Bounded
<1>1. BInv => Bounded
  BY DEF BInv
<1> QED BY <1>1, BoundedThroughout, PTL

\* The entry the size bound evicts is the closest to its expiry but for one of
\* a thread that was overtaken between the clock and the lock.
THEOREM EvictsTheClosest == Spec => EvictsClosestToExpiry
<1>1. ASSUME BInv, [Next]_vars, NEW a \in admitted, NEW b \in admitted,
             a.rank \in evicted' \ evicted, b.mono < a.mono,
             \E f \in store' : f.rank = b.rank
      PROVE  a.rank < b.rank /\ b.mono < a.at /\ a.at <= b.at
  <2>1. PICK r \in Requests : Admit(r)
    BY <1>1 DEF Next, Tick, Arrive, ReadClock, Replayed, vars
  <2> DEFINE k == req[r].token.key
             now == req[r].mono
  <2>2. PICK e \in Popped(k, now) : e.rank = a.rank
    BY <1>1, <2>1 DEF Admit
  <2>3. PICK f \in store' : f.rank = b.rank
    BY <1>1
  <2>4. /\ a.rank \in Int /\ a.mono \in Int /\ a.at \in Int
        /\ b.rank \in Int /\ b.mono \in Int /\ b.at \in Int
        /\ a.mono <= a.at /\ b.rank <= inserted /\ inserted \in Nat
    BY <1>1 DEF BInv, IInv, TypeOK, HistoryInOrder
  <2>5. f \in Kept(k, now) \ Popped(k, now)
    <3> DEFINE entry == [key |-> k, deadline |-> now + TTL, rank |-> inserted + 1]
    <3>1. store' = (Kept(k, now) \ Popped(k, now)) \cup {entry}
      BY <2>1 DEF Admit
    <3>2. entry.rank = inserted + 1
      OBVIOUS
    <3> HIDE DEF entry
    <3> QED BY <2>3, <2>4, <3>1, <3>2
  <2>6. e.rank < f.rank
    BY <1>1, <2>2, <2>5, PoppedAreOldest
  <2> QED BY <1>1, <2>2, <2>3, <2>4, <2>6 DEF BInv, RanksInOrder
<1>2. BInv /\ [Next]_vars =>
        [\A a, b \in admitted :
           (/\ a.rank \in evicted' \ evicted /\ b.mono < a.mono
            /\ \E f \in store' : f.rank = b.rank)
              => a.rank < b.rank /\ b.mono < a.at /\ a.at <= b.at]_vars
  BY <1>1
<1> QED BY <1>2, BoundedThroughout, PTL DEF Spec, EvictsClosestToExpiry
=============================================================================
