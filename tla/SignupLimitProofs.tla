------------------------- MODULE SignupLimitProofs -------------------------
(***************************************************************************)
(* Proofs about SignupLimit, for any number of requests and senders, any   *)
(* limit, window and size of the map.                                      *)
(*                                                                         *)
(* The map remembers of the sender's history what is recent enough to      *)
(* matter: what it has forgotten is older, by a Stretch, than any request  *)
(* that can still come to have the lock (LogInv).                          *)
(***************************************************************************)
EXTENDS SignupLimit, FiniteSetTheorems, WellFoundedInduction, TLAPS

\* What a list of times is like when the clock is at `at': positions are bounded
\* and times are out of order by at most MaxDelay.
ListOK(times, at) ==
  /\ DOMAIN times \subseteq Nat
  /\ \E b \in Nat : \A i \in DOMAIN times : i <= b
  /\ \A i \in DOMAIN times : times[i] \in Times /\ times[i] <= at
  /\ \A i, j \in DOMAIN times : i < j => times[i] <= times[j] + MaxDelay

\* Each time in the list is of an admission of its own, and no admission after
\* `since' is missing.
Remembers(times, history, since) ==
  \E g \in Injection(DOMAIN times, DOMAIN history) :
    /\ \A i \in DOMAIN times : history[g[i]] = times[i]
    /\ \A k \in DOMAIN history : history[k] > since => \E i \in DOMAIN times : g[i] = k

\* Requests come for their sender's client, and have the lock in time.
RequestsInv == \A r \in Requests : reqs[r].pc = "locking" =>
  /\ reqs[r].sender \in Senders /\ reqs[r].client = reqs[r].sender
  /\ reqs[r].now <= clock /\ clock <= reqs[r].now + MaxDelay

ListsInv == \A c \in Clients : ListOK(seen[c], clock)

LogInv == Remembers(seen[Watched], log, clock - MaxDelay - Stretch)

ToldInv == told >= 0 =>
  /\ told <= clock
  /\ \A i \in DOMAIN seen[Watched] : seen[Watched][i] <= told

IInv == TypeOK /\ RequestsInv /\ ListsInv /\ LogInv /\ ToldInv /\ SignupBound

-----------------------------------------------------------------------------
(* Lists of times *)

LEMMA Constants ==
  /\ Limit \in Nat \ {0} /\ Window \in Nat \ {0} /\ MaxDelay \in Nat
  /\ MaxClock \in Nat /\ RetryAfter \in Nat /\ RetryAfter >= Window
  /\ Stretch \in Int /\ MaxDelay + Stretch <= Window
  /\ MaxDelay > 0 => MaxDelay + Stretch = Window - MaxDelay + 1
  /\ MaxDelay = 0 => Stretch = Window
  /\ Times \subseteq Nat /\ 0 \in Times
  /\ Watched \in Senders /\ Watched \in Clients /\ Senders \subseteq Clients
  /\ Proxy \in Clients /\ Proxy \notin Senders
BY SignupAssumption DEF SignupAssumption, Stretch, Times, Clients

\* The history holds times.
LEMMA HistoryIs ==
  ASSUME NEW history \in Seq(Times)
  PROVE  /\ Len(history) \in Nat /\ DOMAIN history = 1..Len(history)
         /\ \A k \in DOMAIN history : history[k] \in Times /\ history[k] \in Nat
<1>1. \A k \in 1..Len(history) : history[k] \in Times
  OBVIOUS
<1>2. Len(history) \in Nat /\ DOMAIN history = 1..Len(history)
  OBVIOUS
<1> QED BY <1>1, <1>2, Constants

\* A bounded set of numbers has a greatest element, and Max is it.
LEMMA MaxIsGreatest ==
  ASSUME NEW S \in SUBSET Nat, S # {}, NEW b \in Nat, \A i \in S : i <= b
  PROVE  Max(S) \in S /\ \A i \in S : i <= Max(S)
<1> DEFINE Bounds == {n \in Nat : \A i \in S : i <= n}
<1>1. Bounds \in SUBSET Nat /\ Bounds # {}
  OBVIOUS
<1>2. PICK m \in Bounds : \A n \in Bounds : ~ (<<n, m>> \in OpToRel(<, Nat))
  BY <1>1, NatLessThanWellFounded, WFMin
<1>3. \A n \in Bounds : m <= n
  <2> SUFFICES ASSUME NEW n \in Bounds PROVE m <= n
    OBVIOUS
  <2>1. <<n, m>> \notin OpToRel(<, Nat) /\ m \in Nat /\ n \in Nat
    BY <1>2
  <2> QED BY <2>1 DEF OpToRel
<1>4. m \in S
  <2> SUFFICES ASSUME m \notin S PROVE FALSE
    OBVIOUS
  <2>1. m # 0
    <3>1. PICK i \in S : i \in Nat
      OBVIOUS
    <3> QED BY <3>1
  <2>2. m - 1 \in Bounds
    BY <2>1
  <2> QED BY <1>3, <2>2
<1>5. \E x \in S : \A y \in S : x >= y
  BY <1>4
<1> QED BY <1>5 DEF Max

\* A list has finitely many positions.
LEMMA FinitePositions ==
  ASSUME NEW times, NEW at, ListOK(times, at)
  PROVE  IsFiniteSet(DOMAIN times) /\ Cardinality(DOMAIN times) \in Nat
<1>1. PICK b \in Nat : \A i \in DOMAIN times : i <= b
  BY DEF ListOK
<1>2. IsFiniteSet(DOMAIN times)
  BY <1>1, FS_BoundedSetOfNaturals DEF ListOK
<1> QED BY <1>2, FS_CardinalityType

LEMMA KeptIs ==
  ASSUME NEW times, NEW at, ListOK(times, at), NEW cutoff \in Int
  PROVE  LET kept == Kept(times, cutoff)
         IN  /\ ListOK(kept, at)
             /\ DOMAIN kept = {i \in DOMAIN times : times[i] > cutoff}
             /\ \A i \in DOMAIN kept : kept[i] = times[i]
             /\ Cardinality(DOMAIN kept) <= Cardinality(DOMAIN times)
<1> DEFINE kept == Kept(times, cutoff)
<1>1. /\ DOMAIN kept = {i \in DOMAIN times : times[i] > cutoff}
      /\ \A i \in DOMAIN kept : kept[i] = times[i]
  BY DEF Kept, Restrict
<1> HIDE DEF kept
<1>2. DOMAIN kept \subseteq DOMAIN times
  BY <1>1
<1>3. ListOK(kept, at)
  <2>1. /\ DOMAIN kept \subseteq Nat
        /\ \E b \in Nat : \A i \in DOMAIN kept : i <= b
    BY <1>2 DEF ListOK
  <2>2. \A i \in DOMAIN kept : kept[i] \in Times /\ kept[i] <= at
    BY <1>1, <1>2 DEF ListOK
  <2>3. \A i, j \in DOMAIN kept : i < j => kept[i] <= kept[j] + MaxDelay
    BY <1>1, <1>2 DEF ListOK
  <2> QED BY <2>1, <2>2, <2>3 DEF ListOK
<1>4. Cardinality(DOMAIN kept) <= Cardinality(DOMAIN times)
  BY <1>2, FinitePositions, FS_Subset
<1> QED BY <1>1, <1>3, <1>4 DEF kept

LEMMA AppendedIs ==
  ASSUME NEW times, NEW at \in Int, ListOK(times, at),
         NEW now \in Times, now <= at, at <= now + MaxDelay
  PROVE  LET more == Appended(times, now)
         IN  /\ ListOK(more, at)
             /\ End(times) \notin DOMAIN times
             /\ DOMAIN more = DOMAIN times \cup {End(times)}
             /\ more[End(times)] = now
             /\ \A i \in DOMAIN times : more[i] = times[i]
             /\ Cardinality(DOMAIN more) = Cardinality(DOMAIN times) + 1
<1> DEFINE more == Appended(times, now)
           end == End(times)
<1>1. end \in Nat /\ \A i \in DOMAIN times : i < end
  <2>1. CASE DOMAIN times = {}
    BY <2>1 DEF End
  <2>2. CASE DOMAIN times # {}
    <3>1. DOMAIN times \in SUBSET Nat /\ \E b \in Nat : \A i \in DOMAIN times : i <= b
      BY DEF ListOK
    <3>2. Max(DOMAIN times) \in DOMAIN times /\ \A i \in DOMAIN times : i <= Max(DOMAIN times)
      BY <2>2, <3>1, MaxIsGreatest
    <3> QED BY <2>2, <3>1, <3>2 DEF End
  <2> QED BY <2>1, <2>2
<1>2. end \notin DOMAIN times
  BY <1>1
<1>3. /\ DOMAIN more = DOMAIN times \cup {end}
      /\ more[end] = now
      /\ \A i \in DOMAIN times : more[i] = times[i]
  BY <1>2 DEF Appended
<1> HIDE DEF more, end
<1>4. ListOK(more, at)
  <2>1. /\ DOMAIN more \subseteq Nat
        /\ \E b \in Nat : \A i \in DOMAIN more : i <= b
    BY <1>1, <1>3 DEF ListOK
  <2>2. \A i \in DOMAIN more : more[i] \in Times /\ more[i] <= at
    BY <1>3 DEF ListOK
  <2>3. ASSUME NEW i \in DOMAIN more, NEW j \in DOMAIN more, i < j
        PROVE  more[i] <= more[j] + MaxDelay
    <3>1. i \in DOMAIN times /\ more[i] = times[i]
      BY <1>1, <1>3, <2>1, <2>3 DEF ListOK
    <3>2. CASE j \in DOMAIN times
      BY <1>3, <2>3, <3>1, <3>2 DEF ListOK
    <3>3. CASE j = end
      <4>1. times[i] <= at /\ times[i] \in Nat /\ now \in Nat
        BY <3>1, Constants DEF ListOK
      <4> QED BY <1>3, <3>1, <3>3, <4>1, Constants
    <3> QED BY <1>3, <2>3, <3>2, <3>3
  <2> QED BY <2>1, <2>2, <2>3 DEF ListOK
<1>5. Cardinality(DOMAIN more) = Cardinality(DOMAIN times) + 1
  BY <1>2, <1>3, FinitePositions, FS_AddElement
<1> QED BY <1>2, <1>3, <1>4, <1>5 DEF more, end

\* A list whose last time is old has no time that is much younger.
LEMMA StaleIs ==
  ASSUME NEW times, NEW at \in Int, ListOK(times, at), NEW cutoff \in Int,
         Stale(times, cutoff), NEW i \in DOMAIN times
  PROVE  times[i] < cutoff + MaxDelay
<1> DEFINE m == Max(DOMAIN times)
<1>1. DOMAIN times \in SUBSET Nat /\ \E b \in Nat : \A j \in DOMAIN times : j <= b
  BY DEF ListOK
<1>2. m \in DOMAIN times /\ \A j \in DOMAIN times : j <= m
  BY <1>1, MaxIsGreatest
<1>3. times[m] < cutoff
  BY DEF Stale
<1> HIDE DEF m
<1>4. times[i] \in Nat /\ times[m] \in Nat /\ MaxDelay \in Nat
  BY <1>2, Constants DEF ListOK
<1>5. CASE i = m
  BY <1>3, <1>4, <1>5
<1>6. CASE i # m
  <2>1. i < m
    BY <1>1, <1>2, <1>6
  <2>2. times[i] <= times[m] + MaxDelay
    BY <1>2, <2>1 DEF ListOK
  <2> QED BY <1>3, <1>4, <2>2
<1> QED BY <1>5, <1>6

-----------------------------------------------------------------------------
(* What a list remembers of the history *)

LEMMA RemembersKept ==
  ASSUME NEW times, NEW at, ListOK(times, at), NEW history \in Seq(Times), NEW since \in Int,
         Remembers(times, history, since), NEW cutoff \in Int, cutoff <= since
  PROVE  Remembers(Kept(times, cutoff), history, since)
<1> DEFINE kept == Kept(times, cutoff)
<1>1. /\ DOMAIN kept = {i \in DOMAIN times : times[i] > cutoff}
      /\ \A i \in DOMAIN kept : kept[i] = times[i]
  BY KeptIs
<1>2. PICK g \in Injection(DOMAIN times, DOMAIN history) :
        /\ \A i \in DOMAIN times : history[g[i]] = times[i]
        /\ \A k \in DOMAIN history : history[k] > since => \E i \in DOMAIN times : g[i] = k
  BY DEF Remembers
<1> HIDE DEF kept
<1> DEFINE f == [i \in DOMAIN kept |-> g[i]]
<1>3. f \in Injection(DOMAIN kept, DOMAIN history)
  BY <1>1, <1>2 DEF Injection, IsInjective
<1>4. \A i \in DOMAIN kept : history[f[i]] = kept[i]
  BY <1>1, <1>2
<1>5. ASSUME NEW k \in DOMAIN history, history[k] > since
      PROVE  \E i \in DOMAIN kept : f[i] = k
  <2>1. PICK i \in DOMAIN times : g[i] = k
    BY <1>2, <1>5
  <2>2. times[i] = history[k] /\ history[k] \in Nat
    BY <1>2, <2>1, HistoryIs
  <2>3. i \in DOMAIN kept
    BY <1>1, <1>5, <2>2
  <2> QED BY <2>1, <2>3
<1>6. Remembers(kept, history, since)
  BY <1>3, <1>4, <1>5 DEF Remembers
<1> QED BY <1>6 DEF kept

LEMMA RemembersAppended ==
  ASSUME NEW times, NEW at \in Int, ListOK(times, at), NEW history \in Seq(Times),
         NEW since \in Int, Remembers(times, history, since),
         NEW now \in Times, now <= at, at <= now + MaxDelay
  PROVE  Remembers(Appended(times, now), Append(history, now), since)
<1> DEFINE more == Appended(times, now)
           end == End(times)
           longer == Append(history, now)
           n == Len(history) + 1
<1>1. /\ end \notin DOMAIN times
      /\ DOMAIN more = DOMAIN times \cup {end}
      /\ more[end] = now
      /\ \A i \in DOMAIN times : more[i] = times[i]
  BY AppendedIs
<1>2. /\ n \notin DOMAIN history /\ DOMAIN longer = DOMAIN history \cup {n}
      /\ longer[n] = now
      /\ \A k \in DOMAIN history : longer[k] = history[k]
  OBVIOUS
<1>3. PICK g \in Injection(DOMAIN times, DOMAIN history) :
        /\ \A i \in DOMAIN times : history[g[i]] = times[i]
        /\ \A k \in DOMAIN history : history[k] > since => \E i \in DOMAIN times : g[i] = k
  BY DEF Remembers
<1> HIDE DEF more, end, longer, n
<1> DEFINE f == [i \in DOMAIN more |-> IF i = end THEN n ELSE g[i]]
<1>4. g \in [DOMAIN times -> DOMAIN history]
      /\ \A i, j \in DOMAIN times : g[i] = g[j] => i = j
  BY <1>3 DEF Injection, IsInjective
<1>5. f[end] = n /\ \A i \in DOMAIN times : f[i] = g[i]
  BY <1>1
<1>6. f \in Injection(DOMAIN more, DOMAIN longer)
  <2>1. f \in [DOMAIN more -> DOMAIN longer]
    BY <1>1, <1>2, <1>4
  <2>2. \A i, j \in DOMAIN more : f[i] = f[j] => i = j
    BY <1>1, <1>2, <1>4, <1>5
  <2> QED BY <2>1, <2>2 DEF Injection, IsInjective
<1>7. \A i \in DOMAIN more : longer[f[i]] = more[i]
  BY <1>1, <1>2, <1>3, <1>4, <1>5
<1>8. \A k \in DOMAIN longer : longer[k] > since => \E i \in DOMAIN more : f[i] = k
  BY <1>1, <1>2, <1>3, <1>5
<1>9. Remembers(more, longer, since)
  BY <1>6, <1>7, <1>8 DEF Remembers
<1> QED BY <1>9 DEF more, longer

\* A list may be forgotten when it is old.
LEMMA RemembersNone ==
  ASSUME NEW times, NEW history \in Seq(Times), NEW since \in Int,
         Remembers(times, history, since), \A i \in DOMAIN times : times[i] <= since,
         \A i \in DOMAIN times : times[i] \in Nat
  PROVE  Remembers(NoTimes, history, since)
<1>1. PICK g \in Injection(DOMAIN times, DOMAIN history) :
        /\ \A i \in DOMAIN times : history[g[i]] = times[i]
        /\ \A k \in DOMAIN history : history[k] > since => \E i \in DOMAIN times : g[i] = k
  BY DEF Remembers
<1>2. \A k \in DOMAIN history : ~(history[k] > since)
  BY <1>1
<1>3. DOMAIN NoTimes = {}
  BY DEF NoTimes
<1> DEFINE f == [i \in {} |-> 0]
<1>4. f \in Injection(DOMAIN NoTimes, DOMAIN history)
  BY <1>3 DEF Injection, IsInjective
<1> QED BY <1>2, <1>3, <1>4 DEF Remembers

\* Later, less has to be remembered.
LEMMA RemembersLater ==
  ASSUME NEW times, NEW history \in Seq(Times), NEW since \in Int, NEW later \in Int,
         Remembers(times, history, since), since <= later
  PROVE  Remembers(times, history, later)
<1>1. PICK g \in Injection(DOMAIN times, DOMAIN history) :
        /\ \A i \in DOMAIN times : history[g[i]] = times[i]
        /\ \A k \in DOMAIN history : history[k] > since => \E i \in DOMAIN times : g[i] = k
  BY DEF Remembers
<1>2. \A k \in DOMAIN history : history[k] \in Nat
  BY HistoryIs
<1>3. \A k \in DOMAIN history : history[k] > later => \E i \in DOMAIN times : g[i] = k
  BY <1>1, <1>2
<1> QED BY <1>1, <1>3 DEF Remembers

\* The admissions in a part of the history that is remembered are no more than
\* the times in the list.
LEMMA RememberedCount ==
  ASSUME NEW times, NEW at, ListOK(times, at), NEW history, NEW since,
         Remembers(times, history, since),
         NEW S \in SUBSET DOMAIN history, \A k \in S : history[k] > since
  PROVE  IsFiniteSet(S) /\ Cardinality(S) <= Cardinality(DOMAIN times)
<1>1. PICK g \in Injection(DOMAIN times, DOMAIN history) :
        \A k \in DOMAIN history : history[k] > since => \E i \in DOMAIN times : g[i] = k
  BY DEF Remembers
<1> DEFINE f == [k \in S |-> CHOOSE i \in DOMAIN times : g[i] = k]
<1>2. \A k \in S : f[k] \in DOMAIN times /\ g[f[k]] = k
  BY <1>1
<1>3. f \in Injection(S, DOMAIN times)
  <2>1. f \in [S -> DOMAIN times]
    BY <1>2
  <2>2. \A k, l \in S : f[k] = f[l] => k = l
    BY <1>2
  <2> QED BY <2>1, <2>2 DEF Injection, IsInjective
<1> QED BY <1>3, FinitePositions, FS_Injection

\* And the times in the list are no more than the admissions they are of.
LEMMA ListedCount ==
  ASSUME NEW times, NEW history \in Seq(Times), NEW since, Remembers(times, history, since),
         NEW S \in SUBSET DOMAIN history,
         \A k \in DOMAIN history : (\E i \in DOMAIN times : history[k] = times[i]) => k \in S
  PROVE  Cardinality(DOMAIN times) <= Cardinality(S)
<1>1. PICK g \in Injection(DOMAIN times, DOMAIN history) :
        \A i \in DOMAIN times : history[g[i]] = times[i]
  BY DEF Remembers
<1>2. g \in Injection(DOMAIN times, S)
  BY <1>1 DEF Injection, IsInjective
<1>3. IsFiniteSet(DOMAIN history)
  BY HistoryIs, FS_Interval
<1>4. IsFiniteSet(S)
  BY <1>3, FS_Subset
<1> QED BY <1>2, <1>4, FS_Injection

-----------------------------------------------------------------------------
(* The invariant *)

\* The instance cannot be made to count a request for another client.
LEMMA ClientIs ==
  ASSUME trustXF \in BOOLEAN, NEW s \in Senders, NEW claim \in Claims
  PROVE  Client(Hops(s, claim), Remote(s)) = s
<1>1. CASE trustXF
  <2>1. claim \in Seq(Senders)
    <3>1. claim = <<>> \/ \E c \in Senders : claim = <<c>>
      BY DEF Claims
    <3>2. CASE claim = <<>>
      BY <3>2
    <3>3. CASE \E c \in Senders : claim = <<c>>
      BY <3>3
    <3> QED BY <3>1, <3>2, <3>3
  <2>2. /\ Append(claim, s) # <<>>
        /\ Append(claim, s)[Len(Append(claim, s))] = s
    BY <2>1
  <2> QED BY <1>1, <2>2 DEF Client, Hops
<1>2. CASE ~trustXF
  BY <1>2 DEF Client, Remote
<1> QED BY <1>1, <1>2

LEMMA NoTimesIs ==
  /\ DOMAIN NoTimes = {} /\ Cardinality(DOMAIN NoTimes) = 0
  /\ \A at : ListOK(NoTimes, at)
<1>1. DOMAIN NoTimes = {}
  BY DEF NoTimes
<1>2. Cardinality(DOMAIN NoTimes) = 0
  BY <1>1, FS_EmptySet
<1>3. \A at : ListOK(NoTimes, at)
  BY <1>1 DEF ListOK
<1> QED BY <1>1, <1>2, <1>3

LEMMA InitIInv == Init => IInv
<1> SUFFICES ASSUME Init PROVE IInv
  OBVIOUS
<1>1. \A c \in Clients : seen[c] = NoTimes
  BY DEF Init
<1>2. DOMAIN log = {} /\ log \in Seq(Times)
  BY DEF Init
<1>3. ListsInv
  BY <1>1, NoTimesIs DEF ListsInv
<1>4. TypeOK
  <2>1. /\ clock \in Times /\ trustXF \in BOOLEAN /\ told \in Times \cup {-1}
        /\ reqs \in [Requests -> [pc : {"idle", "locking"}, sender : Clients,
                                  client : Clients, now : Times]]
    BY Constants DEF Init, Idle
  <2>2. DOMAIN seen = Clients
    BY DEF Init
  <2>3. \A c \in Clients : Cardinality(DOMAIN seen[c]) <= Limit /\ DOMAIN seen[c] = {}
    BY <1>1, NoTimesIs, Constants
  <2> QED BY <1>2, <2>1, <2>2, <2>3 DEF TypeOK
<1>5. RequestsInv
  BY DEF RequestsInv, Init, Idle
<1>6. LogInv
  <2> DEFINE f == [i \in {} |-> 0]
  <2>1. DOMAIN seen[Watched] = {}
    BY <1>1, NoTimesIs, Constants
  <2>2. f \in Injection(DOMAIN seen[Watched], DOMAIN log)
    BY <2>1 DEF Injection, IsInjective
  <2> QED BY <1>2, <2>1, <2>2 DEF LogInv, Remembers
<1>7. ToldInv
  BY DEF ToldInv, Init
<1>8. SignupBound
  <2> SUFFICES ASSUME NEW t \in Times PROVE AdmittedIn(t - Stretch, t) <= Limit
    BY DEF SignupBound
  <2>1. {i \in DOMAIN log : t - Stretch < log[i] /\ log[i] <= t} = {}
    BY <1>2
  <2>2. AdmittedIn(t - Stretch, t) = Cardinality({})
    BY <2>1, Zenon DEF AdmittedIn
  <2> QED BY <2>2, FS_EmptySet, Constants
<1> QED BY <1>3, <1>4, <1>5, <1>6, <1>7, <1>8 DEF IInv

LEMMA ArriveIInv ==
  ASSUME IInv, NEW r \in Requests, Arrive(r)
  PROVE  IInv'
<1> USE DEF IInv
<1>1. PICK s \in Senders, claim \in Claims :
        reqs' = [reqs EXCEPT ![r] =
          [pc |-> "locking", sender |-> s,
           client |-> Client(Hops(s, claim), Remote(s)), now |-> clock]]
  BY DEF Arrive
<1>2. UNCHANGED <<clock, trustXF, seen, log, told>>
  BY DEF Arrive
<1>3. reqs' = [reqs EXCEPT ![r] =
        [pc |-> "locking", sender |-> s, client |-> s, now |-> clock]]
  BY <1>1, ClientIs DEF TypeOK
<1>4. reqs' \in [Requests -> [pc : {"idle", "locking"}, sender : Clients,
                              client : Clients, now : Times]]
  BY <1>3, Constants DEF TypeOK
<1>5. TypeOK'
  BY <1>2, <1>4 DEF TypeOK
<1>6. RequestsInv'
  <2>1. clock \in Nat /\ MaxDelay \in Nat
    BY Constants DEF TypeOK
  <2> QED BY <1>2, <1>3, <2>1 DEF RequestsInv, TypeOK
<1>7. ListsInv' /\ LogInv' /\ ToldInv' /\ SignupBound'
  BY <1>2 DEF ListsInv, LogInv, ToldInv, SignupBound, AdmittedIn
<1> QED BY <1>5, <1>6, <1>7

LEMMA TickIInv ==
  ASSUME IInv, Tick
  PROVE  IInv'
<1> USE DEF IInv
<1>1. clock \in Nat /\ clock' = clock + 1 /\ clock' \in Times
  BY Constants DEF Tick, TypeOK, Times
<1>2. UNCHANGED <<trustXF, reqs, seen, log, told>>
  BY DEF Tick
<1>3. TypeOK'
  BY <1>1, <1>2 DEF TypeOK
<1>4. RequestsInv'
  <2> SUFFICES ASSUME NEW r \in Requests, reqs[r].pc = "locking"
               PROVE  /\ reqs[r].sender \in Senders /\ reqs[r].client = reqs[r].sender
                      /\ reqs[r].now <= clock' /\ clock' <= reqs[r].now + MaxDelay
    BY <1>2 DEF RequestsInv
  <2>1. reqs[r].now \in Nat
    BY Constants DEF TypeOK
  <2>2. clock < reqs[r].now + MaxDelay
    BY DEF Tick
  <2> QED BY <1>1, <2>1, <2>2, Constants DEF RequestsInv
<1>5. ListsInv'
  <2> SUFFICES ASSUME NEW c \in Clients PROVE ListOK(seen[c], clock')
    BY <1>2 DEF ListsInv
  <2>1. ListOK(seen[c], clock)
    BY DEF ListsInv
  <2>2. \A i \in DOMAIN seen[c] : seen[c][i] \in Nat /\ seen[c][i] <= clock
    BY <2>1, Constants DEF ListOK
  <2> QED BY <1>1, <2>1, <2>2 DEF ListOK
<1>6. LogInv'
  <2>1. Remembers(seen[Watched], log, clock - MaxDelay - Stretch)
    BY DEF LogInv
  <2>2. log \in Seq(Times)
    BY DEF TypeOK
  <2>3. Remembers(seen[Watched], log, clock' - MaxDelay - Stretch)
    BY <1>1, <2>1, <2>2, RemembersLater, Constants
  <2> QED BY <1>2, <2>3 DEF LogInv
<1>7. ToldInv'
  BY <1>1, <1>2 DEF ToldInv, TypeOK
<1>8. SignupBound'
  BY <1>2 DEF SignupBound, AdmittedIn
<1> QED BY <1>3, <1>4, <1>5, <1>6, <1>7, <1>8

-----------------------------------------------------------------------------
(* allow *)

\* The moment up to which admissions may have been forgotten.
Horizon == clock - MaxDelay - Stretch

\* A request that has the lock, and its client's list.
LEMMA LockedIs ==
  ASSUME IInv, NEW r \in Requests, reqs[r].pc = "locking"
  PROVE  LET q == reqs[r]
             cutoff == q.now - Window
         IN  /\ q.sender \in Senders /\ q.client = q.sender /\ q.client \in Clients
             /\ q.now \in Times /\ q.now \in Nat /\ clock \in Nat
             /\ q.now <= clock /\ clock <= q.now + MaxDelay
             /\ cutoff \in Int /\ Horizon \in Int /\ cutoff <= Horizon
<1> DEFINE q == reqs[r]
<1>1. q.now \in Times /\ q.now \in Nat /\ clock \in Nat
  BY Constants DEF IInv, TypeOK
<1>2. /\ q.sender \in Senders /\ q.client = q.sender
      /\ q.now <= clock /\ clock <= q.now + MaxDelay
  BY DEF IInv, RequestsInv
<1>3. q.client \in Clients
  BY <1>2, Constants
<1> HIDE DEF q
<1>4. q.now - Window \in Int /\ Horizon \in Int /\ q.now - Window <= Horizon
  BY <1>1, <1>2, Constants DEF Horizon
<1> QED BY <1>1, <1>2, <1>3, <1>4 DEF q

LEMMA KeptOfLocked ==
  ASSUME IInv, NEW r \in Requests, reqs[r].pc = "locking"
  PROVE  LET q == reqs[r]
             times == seen[q.client]
             kept == Kept(times, q.now - Window)
         IN  /\ ListOK(kept, clock)
             /\ Cardinality(DOMAIN kept) \in Nat /\ Cardinality(DOMAIN kept) <= Limit
             /\ DOMAIN kept = {i \in DOMAIN times : times[i] > q.now - Window}
             /\ \A i \in DOMAIN kept : kept[i] = times[i]
             /\ q.client = Watched => Remembers(kept, log, Horizon)
<1> DEFINE q == reqs[r]
           times == seen[q.client]
           cutoff == q.now - Window
           kept == Kept(times, cutoff)
<1>1. /\ q.client \in Clients /\ cutoff \in Int /\ Horizon \in Int /\ cutoff <= Horizon
  BY LockedIs
<1>2. ListOK(times, clock) /\ Cardinality(DOMAIN times) <= Limit
  BY <1>1 DEF IInv, ListsInv, TypeOK
<1>3. q.client = Watched => Remembers(times, log, Horizon)
  BY DEF IInv, LogInv, Horizon
<1>4. log \in Seq(Times)
  BY DEF IInv, TypeOK
<1> HIDE DEF times, cutoff
<1>5. /\ ListOK(kept, clock)
      /\ DOMAIN kept = {i \in DOMAIN times : times[i] > cutoff}
      /\ \A i \in DOMAIN kept : kept[i] = times[i]
      /\ Cardinality(DOMAIN kept) <= Cardinality(DOMAIN times)
  BY <1>1, <1>2, KeptIs
<1>6. q.client = Watched => Remembers(kept, log, Horizon)
  BY <1>1, <1>2, <1>3, <1>4, RemembersKept
<1> HIDE DEF kept
<1>7. Cardinality(DOMAIN kept) \in Nat /\ Cardinality(DOMAIN times) \in Nat
  BY <1>2, <1>5, FinitePositions
<1>8. Cardinality(DOMAIN kept) <= Limit
  BY <1>2, <1>5, <1>7, Constants
<1> QED BY <1>5, <1>6, <1>7, <1>8 DEF kept, times, cutoff

\* What is known of the lists after a step is enough for the types.
LEMMA TypesAfterAllow ==
  ASSUME IInv, NEW r \in Requests, Allow(r), DOMAIN seen' = Clients,
         \A c \in Clients : ListOK(seen'[c], clock) /\ Cardinality(DOMAIN seen'[c]) <= Limit,
         log' \in Seq(Times), told' \in Times \cup {-1}
  PROVE  TypeOK' /\ RequestsInv' /\ ListsInv'
<1>1. reqs' = [reqs EXCEPT ![r] = Idle] /\ UNCHANGED <<clock, trustXF>>
  BY DEF Allow
<1>2. reqs' \in [Requests -> [pc : {"idle", "locking"}, sender : Clients,
                              client : Clients, now : Times]]
  BY <1>1, Constants DEF IInv, TypeOK, Idle
<1>3. \A c \in Clients :
        /\ DOMAIN seen'[c] \subseteq Nat
        /\ \A i \in DOMAIN seen'[c] : seen'[c][i] \in Times
  BY DEF ListOK
<1>4. TypeOK'
  BY <1>1, <1>2, <1>3 DEF IInv, TypeOK
<1>5. RequestsInv'
  BY <1>1 DEF IInv, TypeOK, RequestsInv, Idle
<1>6. ListsInv'
  BY <1>1 DEF ListsInv
<1> QED BY <1>4, <1>5, <1>6

LEMMA RefuseIInv ==
  ASSUME IInv, NEW r \in Requests, Allow(r), ~Allowed(reqs[r])
  PROVE  IInv'
<1> DEFINE q == reqs[r]
           kept == Kept(seen[q.client], q.now - Window)
<1>1. q.pc = "locking" /\ Refuse(q) /\ UNCHANGED clock
  BY DEF Allow
<1>2. /\ ListOK(kept, clock) /\ Cardinality(DOMAIN kept) <= Limit
      /\ q.client = Watched => Remembers(kept, log, Horizon)
  BY <1>1, KeptOfLocked
<1>3. q.client \in Clients /\ q.client = q.sender
  BY <1>1, LockedIs
<1>4. seen' = [seen EXCEPT ![q.client] = kept] /\ DOMAIN seen = Clients
  BY <1>1 DEF Refuse, IInv, TypeOK
<1>5. log' = log /\ told' = IF q.sender = Watched THEN clock ELSE told
  BY <1>1 DEF Refuse
<1> HIDE DEF kept
<1>6. TypeOK' /\ RequestsInv' /\ ListsInv'
  <2>1. DOMAIN seen' = Clients
    BY <1>4
  <2>2. ASSUME NEW c \in Clients
        PROVE  ListOK(seen'[c], clock) /\ Cardinality(DOMAIN seen'[c]) <= Limit
    <3>1. CASE c = q.client
      BY <1>2, <1>3, <1>4, <3>1
    <3>2. CASE c # q.client
      <4>1. seen'[c] = seen[c]
        BY <1>4, <3>2
      <4> QED BY <4>1 DEF IInv, TypeOK, ListsInv
    <3> QED BY <3>1, <3>2
  <2>3. log' \in Seq(Times) /\ told' \in Times \cup {-1}
    BY <1>5 DEF IInv, TypeOK
  <2> QED BY <2>1, <2>2, <2>3, TypesAfterAllow
<1>7. LogInv' /\ ToldInv'
  <2>1. Watched \in Clients
    BY Constants
  <2>2. CASE q.client = Watched
    <3>1. seen'[Watched] = kept
      BY <1>4, <2>1, <2>2
    <3>2. \A i \in DOMAIN kept : kept[i] <= clock
      BY <1>2 DEF ListOK
    <3>3. clock <= clock
      BY Constants DEF IInv, TypeOK
    <3> QED BY <1>1, <1>2, <1>3, <1>5, <2>2, <3>1, <3>2, <3>3
            DEF LogInv, ToldInv, Horizon
  <2>3. CASE q.client # Watched
    <3>1. seen'[Watched] = seen[Watched]
      BY <1>4, <2>3
    <3> QED BY <1>1, <1>3, <1>5, <2>3, <3>1 DEF IInv, LogInv, ToldInv
  <2> QED BY <2>2, <2>3
<1>8. SignupBound'
  BY <1>5 DEF IInv, SignupBound, AdmittedIn
<1> QED BY <1>6, <1>7, <1>8 DEF IInv

\* Pruning leaves each client's list alone, or forgets a stale one.
LEMMA PrunedIs ==
  ASSUME NEW map, DOMAIN map = Clients, NEW cutoff
  PROVE  /\ DOMAIN Pruned(map, cutoff) = Clients
         /\ \A c \in Clients :
              \/ Pruned(map, cutoff)[c] = map[c]
              \/ Pruned(map, cutoff)[c] = NoTimes /\ Stale(map[c], cutoff)
BY DEF Pruned

\* The map before it is pruned.
LEMMA FilledIs ==
  ASSUME IInv, NEW r \in Requests, Allow(r), Allowed(reqs[r])
  PROVE  LET q == reqs[r]
             kept == Kept(seen[q.client], q.now - Window)
             more == Appended(kept, q.now)
             filled == [seen EXCEPT ![q.client] = more]
         IN  /\ Cardinality(DOMAIN kept) < Limit
             /\ seen' = Pruned(filled, q.now - Window)
             /\ DOMAIN filled = Clients
             /\ filled[q.client] = more
             /\ \A c \in Clients : c # q.client => filled[c] = seen[c]
             /\ \A c \in Clients : /\ ListOK(filled[c], clock)
                                   /\ Cardinality(DOMAIN filled[c]) <= Limit
<1> DEFINE q == reqs[r]
           kept == Kept(seen[q.client], q.now - Window)
           more == Appended(kept, q.now)
           filled == [seen EXCEPT ![q.client] = more]
<1>1. q.pc = "locking" /\ Admit(q)
  BY DEF Allow
<1>2. q.client \in Clients /\ q.now \in Times /\ clock \in Int
      /\ q.now <= clock /\ clock <= q.now + MaxDelay
  BY <1>1, LockedIs
<1>3. ListOK(kept, clock) /\ Cardinality(DOMAIN kept) \in Nat
  BY <1>1, KeptOfLocked
<1>4. ~(Cardinality(DOMAIN kept) >= Limit)
  BY DEF Allowed, Full
<1>5. seen' = Pruned(filled, q.now - Window)
  BY <1>1 DEF Admit
<1>6. DOMAIN seen = Clients
  BY DEF IInv, TypeOK
<1> HIDE DEF kept
<1>7. Cardinality(DOMAIN kept) < Limit
  BY <1>3, <1>4, Constants
<1>8. ListOK(more, clock) /\ Cardinality(DOMAIN more) = Cardinality(DOMAIN kept) + 1
  BY <1>2, <1>3, AppendedIs
<1> HIDE DEF more, q
<1>9. Cardinality(DOMAIN more) <= Limit
  BY <1>3, <1>7, <1>8, Constants
<1>10. /\ DOMAIN filled = Clients /\ filled[q.client] = more
       /\ \A c \in Clients : c # q.client => filled[c] = seen[c]
  BY <1>2, <1>6
<1> HIDE DEF filled
<1>11. ASSUME NEW c \in Clients
       PROVE  ListOK(filled[c], clock) /\ Cardinality(DOMAIN filled[c]) <= Limit
  <2>1. CASE c = q.client
    BY <1>8, <1>9, <1>10, <2>1
  <2>2. CASE c # q.client
    <3>1. filled[c] = seen[c]
      BY <1>10, <2>2
    <3> QED BY <3>1 DEF IInv, TypeOK, ListsInv
  <2> QED BY <2>1, <2>2
<1> QED BY <1>5, <1>7, <1>10, <1>11 DEF filled, more, kept, q

\* What pruning forgets of the sender's history no longer matters.
LEMMA PruningForgets ==
  ASSUME IInv, NEW r \in Requests, reqs[r].pc = "locking",
         NEW times, ListOK(times, clock), Stale(times, reqs[r].now - Window),
         NEW history \in Seq(Times), Remembers(times, history, Horizon)
  PROVE  Remembers(NoTimes, history, Horizon)
<1> DEFINE cutoff == reqs[r].now - Window
<1>1. /\ cutoff \in Int /\ Horizon \in Int /\ clock \in Nat /\ clock \in Int
      /\ reqs[r].now \in Nat /\ reqs[r].now <= clock
  BY LockedIs
<1>2. ASSUME NEW i \in DOMAIN times
      PROVE  times[i] \in Nat /\ times[i] <= Horizon
  <2>1. times[i] < cutoff + MaxDelay
    BY <1>1, StaleIs
  <2>2. times[i] \in Nat
    BY Constants DEF ListOK
  <2>3. cutoff + MaxDelay <= Horizon + 1
    BY <1>1, Constants DEF Horizon
  <2> HIDE DEF cutoff
  <2> QED BY <1>1, <2>1, <2>2, <2>3, Constants
<1> QED BY <1>1, <1>2, RemembersNone

\* One more admission keeps the bound: what it is counted with is in the list.
LEMMA OneMoreAdmitted ==
  ASSUME IInv, NEW r \in Requests, reqs[r].pc = "locking", reqs[r].client = Watched,
         Cardinality(DOMAIN Kept(seen[Watched], reqs[r].now - Window)) < Limit,
         log' = Append(log, reqs[r].now)
  PROVE  SignupBound'
<1> DEFINE now == reqs[r].now
           kept == Kept(seen[Watched], now - Window)
           n == Len(log) + 1
<1>1. /\ now \in Nat /\ clock \in Nat /\ clock <= now + MaxDelay
      /\ Horizon = clock - MaxDelay - Stretch /\ Horizon \in Int
  BY LockedIs DEF Horizon
<1>2. /\ ListOK(kept, clock) /\ Cardinality(DOMAIN kept) \in Nat
      /\ Remembers(kept, log, Horizon)
  BY KeptOfLocked
<1>3. Cardinality(DOMAIN kept) < Limit
  OBVIOUS
<1>4. log \in Seq(Times)
  BY DEF IInv, TypeOK
<1>5. \A k \in DOMAIN log : log[k] \in Nat
  BY <1>4, HistoryIs
<1>6. /\ n \notin DOMAIN log /\ DOMAIN log' = DOMAIN log \cup {n}
      /\ log'[n] = now
      /\ \A k \in DOMAIN log : log'[k] = log[k]
  BY <1>4
<1> HIDE DEF now, kept, n
<1> SUFFICES ASSUME NEW t \in Times PROVE AdmittedIn(t - Stretch, t)' <= Limit
  BY DEF SignupBound
<1> DEFINE S == {k \in DOMAIN log : t - Stretch < log[k] /\ log[k] <= t}
           T == {k \in DOMAIN log' : t - Stretch < log'[k] /\ log'[k] <= t}
<1>7. AdmittedIn(t - Stretch, t)' = Cardinality(T)
  BY DEF AdmittedIn
<1>8. Cardinality(S) <= Limit
  BY DEF IInv, SignupBound, AdmittedIn
<1>9. CASE t - Stretch < now /\ now <= t
  <2>1. T = S \cup {n} /\ n \notin S
    BY <1>6, <1>9
  <2>2. \A k \in S : log[k] > Horizon
    BY <1>1, <1>5, <1>9, Constants
  <2>3. S \in SUBSET DOMAIN log
    OBVIOUS
  <2> HIDE DEF S, T
  <2>4. IsFiniteSet(S) /\ Cardinality(S) <= Cardinality(DOMAIN kept)
    BY <1>2, <2>2, <2>3, RememberedCount
  <2>5. Cardinality(T) = Cardinality(S) + 1 /\ Cardinality(S) \in Nat
    BY <2>1, <2>4, FS_AddElement, FS_CardinalityType
  <2> QED BY <1>2, <1>3, <1>7, <2>4, <2>5, Constants
<1>10. CASE ~(t - Stretch < now /\ now <= t)
  <2>1. T = S
    BY <1>6, <1>10
  <2> QED BY <1>7, <1>8, <2>1
<1> QED BY <1>9, <1>10

LEMMA AdmitIInv ==
  ASSUME IInv, NEW r \in Requests, Allow(r), Allowed(reqs[r])
  PROVE  IInv'
<1> DEFINE q == reqs[r]
           cutoff == q.now - Window
           kept == Kept(seen[q.client], cutoff)
           filled == [seen EXCEPT ![q.client] = Appended(kept, q.now)]
<1>1. q.pc = "locking" /\ Admit(q) /\ UNCHANGED clock
  BY DEF Allow
<1>2. /\ q.client = q.sender /\ q.now \in Times /\ clock \in Nat
      /\ q.now <= clock /\ clock <= q.now + MaxDelay /\ Horizon \in Int
  BY <1>1, LockedIs
<1>3. /\ log' = IF q.sender = Watched THEN Append(log, q.now) ELSE log
      /\ told' = IF q.sender = Watched THEN -1 ELSE told
  BY <1>1 DEF Admit
<1>4. log \in Seq(Times) /\ log' \in Seq(Times) /\ told' \in Times \cup {-1}
  BY <1>2, <1>3 DEF IInv, TypeOK
<1>5. /\ Cardinality(DOMAIN kept) < Limit
      /\ seen' = Pruned(filled, cutoff) /\ DOMAIN filled = Clients
      /\ filled[q.client] = Appended(kept, q.now)
      /\ \A c \in Clients : c # q.client => filled[c] = seen[c]
      /\ \A c \in Clients : /\ ListOK(filled[c], clock)
                            /\ Cardinality(DOMAIN filled[c]) <= Limit
  BY FilledIs
<1>6. /\ ListOK(kept, clock)
      /\ q.client = Watched => Remembers(kept, log, Horizon)
  BY <1>1, KeptOfLocked
<1>7. Watched \in Clients
  BY Constants
<1>8. SignupBound'
  <2>1. CASE q.client = Watched
    BY <1>1, <1>2, <1>3, <1>5, <2>1, OneMoreAdmitted
  <2>2. CASE q.client # Watched
    BY <1>2, <1>3, <2>2 DEF IInv, SignupBound, AdmittedIn
  <2> QED BY <2>1, <2>2
<1> HIDE DEF filled, kept
<1>9. /\ DOMAIN seen' = Clients
      /\ \A c \in Clients : \/ seen'[c] = filled[c]
                            \/ seen'[c] = NoTimes /\ Stale(filled[c], cutoff)
  BY <1>5, PrunedIs
<1>10. TypeOK' /\ RequestsInv' /\ ListsInv'
  <2>1. ASSUME NEW c \in Clients
        PROVE  ListOK(seen'[c], clock) /\ Cardinality(DOMAIN seen'[c]) <= Limit
    BY <1>5, <1>9, NoTimesIs, Constants
  <2> QED BY <1>4, <1>9, <2>1, TypesAfterAllow
<1>11. LogInv'
  <2>1. Remembers(filled[Watched], log', Horizon)
    <3>1. CASE q.client = Watched
      <4>1. filled[Watched] = Appended(kept, q.now) /\ log' = Append(log, q.now)
        BY <1>2, <1>3, <1>5, <3>1
      <4>2. Remembers(Appended(kept, q.now), Append(log, q.now), Horizon)
        BY <1>2, <1>4, <1>6, <3>1, RemembersAppended
      <4> QED BY <4>1, <4>2
    <3>2. CASE q.client # Watched
      <4>1. filled[Watched] = seen[Watched] /\ log' = log
        BY <1>2, <1>3, <1>5, <1>7, <3>2
      <4> QED BY <4>1 DEF IInv, LogInv, Horizon
    <3> QED BY <3>1, <3>2
  <2>2. Remembers(seen'[Watched], log', Horizon)
    <3>1. CASE seen'[Watched] = filled[Watched]
      BY <2>1, <3>1
    <3>2. CASE seen'[Watched] = NoTimes /\ Stale(filled[Watched], cutoff)
      <4>1. ListOK(filled[Watched], clock)
        BY <1>5, <1>7
      <4>2. Remembers(NoTimes, log', Horizon)
        BY <1>1, <1>4, <2>1, <3>2, <4>1, PruningForgets
      <4> QED BY <3>2, <4>2
    <3> QED BY <1>7, <1>9, <3>1, <3>2
  <2> QED BY <1>1, <2>2 DEF LogInv, Horizon
<1>12. ToldInv'
  <2>1. CASE q.client = Watched
    BY <1>2, <1>3, <2>1 DEF ToldInv
  <2>2. CASE q.client # Watched
    <3>1. filled[Watched] = seen[Watched] /\ told' = told
      BY <1>2, <1>3, <1>5, <1>7, <2>2
    <3>2. seen'[Watched] = seen[Watched] \/ DOMAIN seen'[Watched] = {}
      BY <1>7, <1>9, <3>1, NoTimesIs
    <3> QED BY <1>1, <3>1, <3>2 DEF IInv, ToldInv
  <2> QED BY <2>1, <2>2
<1> QED BY <1>8, <1>10, <1>11, <1>12 DEF IInv

LEMMA NextIInv == IInv /\ [Next]_vars => IInv'
<1> SUFFICES ASSUME IInv, [Next]_vars PROVE IInv'
  OBVIOUS
<1>1. ASSUME NEW r \in Requests, Arrive(r) PROVE IInv'
  BY <1>1, ArriveIInv
<1>2. ASSUME NEW r \in Requests, Allow(r) PROVE IInv'
  BY <1>2, AdmitIInv, RefuseIInv
<1>3. CASE Tick
  BY <1>3, TickIInv
<1>4. CASE UNCHANGED vars
  BY <1>4 DEF vars, IInv, TypeOK, RequestsInv, ListsInv, LogInv, ToldInv,
              SignupBound, AdmittedIn
<1> QED BY <1>1, <1>2, <1>3, <1>4 DEF Next

LEMMA Invariance == Spec => []IInv
BY InitIInv, NextIInv, PTL DEF Spec

-----------------------------------------------------------------------------
(* Results *)

(***************************************************************************)
(* The state is well formed, and the instance keeps no more times of a     *)
(* client than the limit, whoever it is and whenever the map is pruned     *)
(* (signup_limit.go 38-64).                                                *)
(***************************************************************************)
THEOREM TypeCorrect == Spec => []TypeOK
<1>1. IInv => TypeOK
  BY DEF IInv
<1> QED BY <1>1, Invariance, PTL

(***************************************************************************)
(* A sender has at most Limit requests admitted with times in any Stretch, *)
(* for any number of senders and of requests waiting for the lock, any     *)
(* size at which the map is pruned and any delay on the way to the lock    *)
(* (signup_limit.go 38-64).                                                *)
(***************************************************************************)
THEOREM SignupsAreBounded == Spec => []SignupBound
<1>1. IInv => SignupBound
  BY DEF IInv
<1> QED BY <1>1, Invariance, PTL

\* An admission of the sender shows in its history.
LEMMA AdmittedShows ==
  ASSUME IInv, NEW r \in Requests, Allow(r), reqs[r].sender = Watched
  PROVE  log' # log <=> Allowed(reqs[r])
<1>1. CASE Allowed(reqs[r])
  <2>1. log' = Append(log, reqs[r].now)
    BY <1>1 DEF Allow, Admit
  <2>2. log \in Seq(Times)
    BY DEF IInv, TypeOK
  <2>3. reqs[r].now \in Times
    BY DEF IInv, TypeOK
  <2>4. Len(Append(log, reqs[r].now)) = Len(log) + 1 /\ Len(log) \in Nat
    BY <2>2, <2>3
  <2> QED BY <1>1, <2>1, <2>4
<1>2. CASE ~Allowed(reqs[r])
  BY <1>2 DEF Allow, Refuse
<1> QED BY <1>1, <1>2

LEMMA RefusalHasCause ==
  ASSUME IInv, NEW r \in Requests, Allow(r), reqs[r].sender = Watched, log' = log
  PROVE  AdmittedIn(reqs[r].now - Window, MaxClock) >= Limit
<1> DEFINE now == reqs[r].now
           kept == Kept(seen[Watched], now - Window)
           S == {k \in DOMAIN log : now - Window < log[k] /\ log[k] <= MaxClock}
<1>1. reqs[r].pc = "locking" /\ ~Allowed(reqs[r])
  BY AdmittedShows DEF Allow
<1>2. reqs[r].client = Watched /\ now \in Nat
  BY <1>1, LockedIs
<1>3. Cardinality(DOMAIN kept) >= Limit
  BY <1>1, <1>2 DEF Allowed, Full
<1>4. /\ DOMAIN kept = {i \in DOMAIN seen[Watched] : seen[Watched][i] > now - Window}
      /\ \A i \in DOMAIN kept : kept[i] = seen[Watched][i]
      /\ Remembers(kept, log, Horizon)
      /\ ListOK(kept, clock) /\ Cardinality(DOMAIN kept) \in Nat
  BY <1>1, <1>2, KeptOfLocked
<1>5. log \in Seq(Times)
  BY DEF IInv, TypeOK
<1>6. \A k \in DOMAIN log : log[k] \in Times /\ log[k] \in Nat
  BY <1>5, HistoryIs
<1> HIDE DEF now, kept
<1>7. S \in SUBSET DOMAIN log
  OBVIOUS
<1>8. ASSUME NEW k \in DOMAIN log, \E i \in DOMAIN kept : log[k] = kept[i]
      PROVE  k \in S
  <2>1. log[k] > now - Window
    BY <1>4, <1>8
  <2>2. log[k] <= MaxClock /\ log[k] \in Nat
    BY <1>6 DEF Times
  <2> QED BY <1>2, <2>1, <2>2, Constants
<1>9. AdmittedIn(now - Window, MaxClock) = Cardinality(S)
  BY DEF AdmittedIn
<1> HIDE DEF S
<1>10. Cardinality(DOMAIN kept) <= Cardinality(S)
  BY <1>4, <1>5, <1>7, <1>8, ListedCount
<1>11. Cardinality(S) \in Nat
  <2>1. IsFiniteSet(DOMAIN log)
    BY <1>5, HistoryIs, FS_Interval
  <2> QED BY <1>7, <2>1, FS_Subset, FS_CardinalityType
<1> QED BY <1>3, <1>4, <1>9, <1>10, <1>11, Constants DEF now

(***************************************************************************)
(* A refused sender has itself had Limit requests admitted in the last     *)
(* Window: no other sender's requests and no header can use up its share   *)
(* (signup_limit.go 42-53, 66-80).                                         *)
(***************************************************************************)
THEOREM RefusalsHaveCause == Spec => RefusedForCause
<1>1. IInv /\ [Next]_vars =>
        [\A r \in Requests :
           Allow(r) /\ reqs[r].sender = Watched /\ log' = log =>
             AdmittedIn(reqs[r].now - Window, MaxClock) >= Limit]_vars
  BY RefusalHasCause
<1> QED BY <1>1, Invariance, PTL DEF Spec, RefusedForCause

LEMMA WaitSuffices ==
  ASSUME IInv, NEW r \in Requests, Allow(r), reqs[r].sender = Watched,
         told >= 0, reqs[r].now >= told + RetryAfter
  PROVE  log' # log
<1> DEFINE now == reqs[r].now
           kept == Kept(seen[Watched], now - Window)
<1>1. reqs[r].pc = "locking"
  BY DEF Allow
<1>2. reqs[r].client = Watched /\ now \in Nat /\ Watched \in Clients
  BY <1>1, LockedIs, Constants
<1>3. DOMAIN kept = {i \in DOMAIN seen[Watched] : seen[Watched][i] > now - Window}
  BY <1>1, <1>2, KeptOfLocked
<1>4. \A i \in DOMAIN seen[Watched] : seen[Watched][i] <= told /\ seen[Watched][i] \in Nat
  <2>1. \A i \in DOMAIN seen[Watched] : seen[Watched][i] <= told
    BY DEF IInv, ToldInv
  <2>2. \A i \in DOMAIN seen[Watched] : seen[Watched][i] \in Times
    BY <1>2 DEF IInv, TypeOK
  <2> QED BY <2>1, <2>2, Constants
<1>5. told \in Nat
  <2>1. told \in Times \cup {-1}
    BY DEF IInv, TypeOK
  <2> QED BY <2>1, Constants
<1> HIDE DEF kept
<1>6. DOMAIN kept = {}
  <2>1. now - Window >= told
    BY <1>2, <1>5, Constants
  <2> HIDE DEF now
  <2>2. \A i \in DOMAIN seen[Watched] : ~(seen[Watched][i] > now - Window)
    BY <1>2, <1>4, <1>5, <2>1, Constants
  <2> QED BY <1>3, <2>2
<1>7. Cardinality(DOMAIN kept) = 0
  BY <1>6, FS_EmptySet
<1>8. ~(Cardinality(DOMAIN kept) >= Limit)
  BY <1>7, Constants
<1>9. Allowed(reqs[r])
  BY <1>2, <1>8 DEF Allowed, Full, kept
<1> QED BY <1>9, AdmittedShows

(***************************************************************************)
(* Retry-After is no empty promise: a refused sender whose next request    *)
(* reads the clock RetryAfter later is admitted (signup_limit.go 29-33).   *)
(***************************************************************************)
THEOREM WaitingSuffices == Spec => WaitIsEnough
<1>1. IInv /\ [Next]_vars =>
        [\A r \in Requests :
           ( /\ Allow(r) /\ reqs[r].sender = Watched
             /\ told >= 0 /\ reqs[r].now >= told + RetryAfter )
           => log' # log]_vars
  BY WaitSuffices
<1> QED BY <1>1, Invariance, PTL DEF Spec, WaitIsEnough
=============================================================================
