--------------------- MODULE ThreadedRateLimiterProofs ---------------------
(***************************************************************************)
(* What ThreadedRateLimiter states, for any number of threads, any window  *)
(* and any limit.                                                          *)
(*                                                                         *)
(* A request let through is counted twice over: by the clock it had read,  *)
(* which is what the deque holds, and by the instant it was let through.   *)
(* Those whose reading has not expired are all in the deque, which a race  *)
(* makes at most one entry longer per thread; those let through later than *)
(* an instant before which they had read the clock took one thread each,   *)
(* which cannot start again at an earlier instant.  A window of admissions *)
(* is covered by a set of the first kind and one of the second.            *)
(***************************************************************************)
EXTENDS ThreadedRateLimiter, FiniteSetTheorems, SequenceTheorems, TLAPS

USE ThreadedAssumption

N == Cardinality(Threads)

\* the typing part of TypeOK; its bound on the deque follows from DequeBound
Typing ==
    /\ clock \in 0..MaxTime
    /\ log \in Seq(0..clock)
    /\ admitted \in Seq(0..clock)
    /\ asked \in Seq(0..clock)
    /\ thread \in [Threads -> ThreadStates]

\* requests are let through in the order of time, after they read the clock
Ordered ==
    /\ Len(asked) = Len(admitted)
    /\ \A i, j \in 1..Len(admitted) :
        /\ asked[i] <= admitted[i]
        /\ i <= j => admitted[i] <= admitted[j]
    /\ \A t \in Threads : thread[t].now <= clock

\* the deque is the end of what the requests had read
LogIsSuffix ==
    /\ Len(log) <= Len(asked)
    /\ \A j \in 1..Len(log) : log[j] = asked[Len(asked) - Len(log) + j]

\* what the deque no longer holds has expired
ForgottenExpired == \A i \in 1..(Len(asked) - Len(log)) : asked[i] + Window < clock

\* threads that have seen room and will append
Appending == {t \in Threads : thread[t].pc = "counted" /\ thread[t].length < MaxRequests}

DequeBound == Len(log) + Cardinality(Appending) < MaxRequests + N

\* the requests let through by t whose reading has not expired at t
Fresh(t) == {i \in 1..Len(admitted) : admitted[i] <= t /\ asked[i] + Window >= t}

FreshBound == \A t \in 0..clock : Cardinality(Fresh(t)) < MaxRequests + N

\* the requests let through at s or later that had read the clock before s
Late(s) == {i \in 1..Len(admitted) : admitted[i] >= s /\ asked[i] < s}

\* the threads in check that had read the clock before s
Slow(s) == {t \in Threads : thread[t].pc # "idle" /\ thread[t].now < s}

LateBound == \A s \in 0..clock : Cardinality(Late(s)) + Cardinality(Slow(s)) <= N

IInv ==
    /\ Typing
    /\ Ordered
    /\ LogIsSuffix
    /\ ForgottenExpired
    /\ DequeBound
    /\ FreshBound
    /\ LateBound
    /\ RefusalJustified

-----------------------------------------------------------------------------
(* Counting *)

\* Every set of threads is finite, and so is every set of positions in the history.
LEMMA Finite ==
  /\ N \in Nat
  /\ \A S \in SUBSET Threads : IsFiniteSet(S) /\ Cardinality(S) \in Nat /\ Cardinality(S) <= N
  /\ \A n \in Nat : \A S \in SUBSET (1..n) : IsFiniteSet(S) /\ Cardinality(S) \in Nat
  <1>1. N \in Nat
    BY FS_CardinalityType DEF N
  <1>2. ASSUME NEW S \in SUBSET Threads
        PROVE  IsFiniteSet(S) /\ Cardinality(S) \in Nat /\ Cardinality(S) <= N
    BY FS_Subset, FS_CardinalityType DEF N
  <1>3. ASSUME NEW n \in Nat, NEW S \in SUBSET (1..n)
        PROVE  IsFiniteSet(S) /\ Cardinality(S) \in Nat
    <2>1. IsFiniteSet(1..n)
      BY FS_Interval
    <2>2. IsFiniteSet(S)
      BY <2>1, FS_Subset
    <2> QED
      BY <2>2, FS_CardinalityType
  <1> QED
    BY <1>1, <1>2, <1>3

\* What a set of positions is contained in bounds it.
LEMMA Fewer ==
  ASSUME NEW n \in Nat, NEW S \in SUBSET (1..n), NEW T \in SUBSET S
  PROVE  Cardinality(T) <= Cardinality(S)
  BY Finite, FS_Subset

\* The last m of n positions are m.
LEMMA LastOnes ==
  ASSUME NEW n \in Nat, NEW m \in 0..n, NEW S \in SUBSET ((n - m + 1)..n)
  PROVE  Cardinality(S) <= m
  <1>1. /\ IsFiniteSet((n - m + 1)..n)
        /\ Cardinality((n - m + 1)..n) = m
    <2>1. n - m + 1 \in Int /\ n \in Int
      OBVIOUS
    <2>2. /\ IsFiniteSet((n - m + 1)..n)
          /\ Cardinality((n - m + 1)..n) = IF n - m + 1 > n THEN 0 ELSE n - (n - m + 1) + 1
      BY <2>1, FS_Interval
    <2> QED
      BY <2>2
  <1> QED
    BY <1>1, FS_Subset

\* What appending to a sequence does.
LEMMA AppendIs ==
  ASSUME NEW S, NEW s \in Seq(S), NEW e \in S
  PROVE  /\ Append(s, e) \in Seq(S)
         /\ Len(Append(s, e)) = Len(s) + 1
         /\ Append(s, e)[Len(s) + 1] = e
         /\ \A i \in 1..Len(s) : Append(s, e)[i] = s[i]
  OBVIOUS

\* A sequence has a length, and entries.
LEMMA ElementsOf ==
  ASSUME NEW S, NEW s \in Seq(S)
  PROVE  Len(s) \in Nat /\ (s # <<>> => Len(s) >= 1) /\ \A i \in 1..Len(s) : s[i] \in S
  BY EmptySeq

\* An entry of a sequence of instants is an instant.
LEMMA Entries ==
  ASSUME Typing
  PROVE  /\ clock \in Nat /\ Window \in Nat /\ MaxRequests \in Nat /\ MaxRequests >= 1
         /\ Len(log) \in Nat /\ Len(admitted) \in Nat /\ Len(asked) \in Nat
         /\ \A i \in 1..Len(log) : log[i] \in Nat /\ log[i] <= clock
         /\ \A i \in 1..Len(admitted) : admitted[i] \in Nat /\ admitted[i] <= clock
         /\ \A i \in 1..Len(asked) : asked[i] \in Nat /\ asked[i] <= clock
         /\ \A t \in Threads : thread[t].now \in Nat /\ thread[t].length \in Nat
  <1>1. ASSUME NEW s \in Seq(0..clock), clock \in Nat
        PROVE  Len(s) \in Nat /\ \A i \in 1..Len(s) : s[i] \in Nat /\ s[i] <= clock
    <2>1. Len(s) \in Nat /\ \A i \in 1..Len(s) : s[i] \in 0..clock
      BY ElementsOf, Zenon
    <2> QED
      BY <2>1
  <1>2. ASSUME NEW t \in Threads
        PROVE  thread[t].now \in Nat /\ thread[t].length \in Nat
    BY DEF Typing, ThreadStates
  <1>3. clock \in Nat
    BY DEF Typing
  <1> QED
    BY <1>1, <1>2, <1>3 DEF Typing

\* The position in the history of the oldest entry of the deque
LEMMA OldestEntry ==
  ASSUME Typing, Ordered, LogIsSuffix, log # <<>>
  PROVE  /\ Len(log) >= 1
         /\ Len(asked) - Len(log) + 1 \in 1..Len(asked)
         /\ log[1] = asked[Len(asked) - Len(log) + 1]
  <1>1. Len(log) \in Nat /\ Len(log) >= 1
    <2>1. log \in Seq(0..clock)
      BY DEF Typing
    <2> QED
      BY <2>1, ElementsOf, Zenon
  <1>2. Len(asked) \in Nat /\ Len(log) <= Len(asked) /\ 1 \in 1..Len(log)
    BY <1>1, Entries DEF LogIsSuffix
  <1>3. log[1] = asked[Len(asked) - Len(log) + 1]
    BY <1>2 DEF LogIsSuffix
  <1> QED
    BY <1>1, <1>2, <1>3

-----------------------------------------------------------------------------
(* The initial state *)

LEMMA InitIInv == Init => IInv
  <1> SUFFICES ASSUME Init PROVE IInv
    OBVIOUS
  <1>1. /\ clock = 0 /\ log = <<>> /\ admitted = <<>> /\ asked = <<>>
        /\ thread = [t \in Threads |-> AtRest]
    BY DEF Init
  <1>2. Typing
    BY <1>1 DEF Typing, ThreadStates, AtRest
  <1>3. Ordered /\ LogIsSuffix /\ ForgottenExpired
    BY <1>1 DEF Ordered, LogIsSuffix, ForgottenExpired, AtRest
  <1>4. \A t \in Threads : thread[t].pc = "idle"
    BY <1>1 DEF AtRest
  <1>5. Appending = {} /\ \A s : Fresh(s) = {} /\ Late(s) = {} /\ Slow(s) = {}
    BY <1>1, <1>4 DEF Appending, Fresh, Late, Slow
  <1>6. Cardinality({}) = 0 /\ N \in Nat
    BY FS_EmptySet, Finite
  <1>7. DequeBound
    BY <1>1, <1>5, <1>6 DEF DequeBound
  <1>8. FreshBound
    BY <1>5, <1>6 DEF FreshBound
  <1>9. LateBound
    <2>1. \A s \in 0..clock : Cardinality(Late(s)) = 0 /\ Cardinality(Slow(s)) = 0
      BY <1>5, <1>6
    <2> QED
      BY <2>1, <1>6 DEF LateBound
  <1>10. RefusalJustified
    BY <1>4 DEF RefusalJustified
  <1> QED
    BY <1>2, <1>3, <1>7, <1>8, <1>9, <1>10 DEF IInv

-----------------------------------------------------------------------------
(* The steps that leave the history alone *)

\* RefusalJustified at a thread that has not moved survives when the history grows.
LEMMA StillJustified ==
  ASSUME IInv, NEW n \in Nat, n >= Len(admitted), Typing', Len(admitted') = n,
         \A i \in 1..Len(admitted) : admitted'[i] = admitted[i],
         NEW t \in Threads, thread'[t] = thread[t],
         thread[t].pc = "counted", thread[t].length >= MaxRequests
  PROVE  Cardinality({i \in DOMAIN admitted' : admitted'[i] + Window >= thread'[t].now}) >= MaxRequests
  <1> DEFINE S == {i \in DOMAIN admitted : admitted[i] + Window >= thread[t].now}
             T == {i \in DOMAIN admitted' : admitted'[i] + Window >= thread'[t].now}
  <1>1. DOMAIN admitted = 1..Len(admitted) /\ DOMAIN admitted' = 1..n
    BY DEF IInv, Typing
  <1>2. Cardinality(S) >= MaxRequests
    BY DEF IInv, RefusalJustified
  <1>3. S \subseteq T /\ T \in SUBSET (1..n)
    BY <1>1
  <1>4. Cardinality(S) <= Cardinality(T)
    <2> HIDE DEF S, T
    <2> QED
      BY <1>3, Fewer
  <1>5. Cardinality(S) \in Nat /\ Cardinality(T) \in Nat
    <2>1. S \in SUBSET (1..n)
      BY <1>3
    <2> HIDE DEF S, T
    <2> QED
      BY <1>3, <2>1, Finite
  <1> QED
    BY <1>2, <1>4, <1>5, Entries DEF IInv

\* And when it stays as it is.
LEMMA HistoryKeepsJustified ==
  ASSUME IInv, UNCHANGED admitted, Typing',
         NEW t \in Threads, thread'[t] = thread[t],
         thread[t].pc = "counted", thread[t].length >= MaxRequests
  PROVE  Cardinality({i \in DOMAIN admitted' : admitted'[i] + Window >= thread'[t].now}) >= MaxRequests
  <1>1. Len(admitted) \in Nat /\ Len(admitted') = Len(admitted) /\ Len(admitted) >= Len(admitted)
        /\ \A i \in 1..Len(admitted) : admitted'[i] = admitted[i]
    BY Entries DEF IInv
  <1> QED
    BY <1>1, StillJustified

\* Fewer slow threads, and the same requests let through late
LEMMA LateBoundKept ==
  ASSUME IInv, UNCHANGED <<clock, admitted, asked>>,
         \A t \in Threads : \A s \in 0..clock :
            (thread'[t].pc # "idle" /\ thread'[t].now < s) => thread[t].pc # "idle" /\ thread[t].now < s
  PROVE  LateBound'
  <1> SUFFICES ASSUME NEW s \in 0..clock
               PROVE  Cardinality(Late(s)') + Cardinality(Slow(s)') <= N
    BY DEF LateBound
  <1>1. Late(s)' = Late(s)
    BY DEF Late
  <1>2. Slow(s)' \subseteq Slow(s) /\ Slow(s) \in SUBSET Threads
    BY DEF Slow
  <1>3. Cardinality(Slow(s)') <= Cardinality(Slow(s)) /\ Cardinality(Slow(s)') \in Nat
        /\ Cardinality(Slow(s)) \in Nat /\ N \in Nat
    BY <1>2, Finite, FS_Subset
  <1>4. Cardinality(Late(s)) \in Nat
    BY Finite, Entries DEF IInv, Late
  <1>5. Cardinality(Late(s)) + Cardinality(Slow(s)) <= N
    BY DEF IInv, LateBound
  <1> QED
    BY <1>1, <1>3, <1>4, <1>5

\* The history is as it was
LEMMA FreshBoundKept ==
  ASSUME IInv, UNCHANGED <<clock, admitted, asked>>
  PROVE  FreshBound'
  <1>1. \A t : Fresh(t)' = Fresh(t)
    BY DEF Fresh
  <1> QED
    BY <1>1 DEF IInv, FreshBound

LEMMA ReadClockStep ==
  ASSUME IInv, NEW t \in Threads, ReadClock(t)
  PROVE  IInv'
  <1>1. /\ thread[t].pc = "idle"
        /\ UNCHANGED <<clock, log, admitted, asked>>
        /\ thread'[t] = [pc |-> "prune", now |-> clock, length |-> 0]
        /\ \A u \in Threads \ {t} : thread'[u] = thread[u]
    BY DEF ReadClock, IInv, Typing
  <1>2. Typing'
    BY <1>1, Entries DEF IInv, Typing, ThreadStates, ReadClock
  <1>3. Ordered'
    <2>1. ASSUME NEW u \in Threads PROVE thread'[u].now <= clock
      BY <1>1, Entries DEF IInv, Ordered
    <2> QED
      BY <1>1, <2>1 DEF IInv, Ordered
  <1>4. LogIsSuffix' /\ ForgottenExpired'
    BY <1>1 DEF IInv, LogIsSuffix, ForgottenExpired
  <1>5. DequeBound'
    <2>1. Appending' = Appending
      BY <1>1 DEF Appending
    <2> QED
      BY <1>1, <2>1 DEF IInv, DequeBound
  <1>6. FreshBound'
    BY <1>1, FreshBoundKept
  <1>7. LateBound'
    <2>1. ASSUME NEW u \in Threads, NEW s \in 0..clock, thread'[u].pc # "idle", thread'[u].now < s
          PROVE  thread[u].pc # "idle" /\ thread[u].now < s
      BY <1>1, <2>1, Entries DEF IInv
    <2> QED
      BY <1>1, <2>1, LateBoundKept
  <1>8. RefusalJustified'
    <2> SUFFICES ASSUME NEW u \in Threads, thread'[u].pc = "counted", thread'[u].length >= MaxRequests
                 PROVE  Cardinality({i \in DOMAIN admitted' : admitted'[i] + Window >= thread'[u].now}) >= MaxRequests
      BY DEF RefusalJustified
    <2>1. thread'[u] = thread[u]
      BY <1>1
    <2>2. thread[u].pc = "counted" /\ thread[u].length >= MaxRequests
      BY <2>1
    <2> QED
      BY <1>1, <1>2, <2>1, <2>2, HistoryKeepsJustified
  <1> QED
    BY <1>2, <1>3, <1>4, <1>5, <1>6, <1>7, <1>8 DEF IInv

LEMMA PopLeftStep ==
  ASSUME IInv, NEW t \in Threads, PopLeft(t)
  PROVE  IInv'
  <1> DEFINE L == Len(log)
             n == Len(asked)
  <1>1. /\ log # <<>> /\ log[1] + Window < thread[t].now
        /\ log' = Tail(log)
        /\ UNCHANGED <<clock, admitted, asked, thread>>
    BY DEF PopLeft, Expired
  <1>2. /\ L \in Nat /\ L >= 1 /\ n \in Nat /\ n - L + 1 \in 1..n
        /\ log[1] = asked[n - L + 1]
    BY <1>1, OldestEntry, Entries DEF IInv
  <1>3. /\ log' \in Seq(0..clock) /\ Len(log') = L - 1
        /\ \A j \in 1..(L - 1) : log'[j] = log[j + 1]
    <2>1. ASSUME NEW S, NEW s \in Seq(S), s # <<>>
          PROVE  /\ Tail(s) \in Seq(S) /\ Len(Tail(s)) = Len(s) - 1
                 /\ \A j \in 1..(Len(s) - 1) : Tail(s)[j] = s[j + 1]
      BY <2>1
    <2>2. log \in Seq(0..clock)
      BY DEF IInv, Typing
    <2> HIDE DEF L, n
    <2> QED
      BY <1>1, <2>1, <2>2, Zenon DEF L
  <1> HIDE DEF L, n
  <1>4. Typing' /\ Ordered'
    BY <1>1, <1>3 DEF IInv, Typing, Ordered
  <1>5. LogIsSuffix'
    <2>1. Len(log') <= n
      BY <1>2, <1>3
    <2>2. ASSUME NEW j \in 1..Len(log')
          PROVE  log'[j] = asked[n - Len(log') + j]
      <3>1. j \in 1..(L - 1) /\ j + 1 \in 1..L /\ n - L + (j + 1) = n - Len(log') + j
        BY <1>2, <1>3
      <3>2. log[j + 1] = asked[n - L + (j + 1)]
        BY <3>1 DEF IInv, LogIsSuffix, L, n
      <3> QED
        BY <1>3, <3>1, <3>2
    <2> QED
      BY <1>1, <2>1, <2>2 DEF LogIsSuffix, n
  <1>6. ForgottenExpired'
    <2> SUFFICES ASSUME NEW i \in 1..(n - Len(log')) PROVE asked[i] + Window < clock
      BY <1>1 DEF ForgottenExpired, n
    <2>1. CASE i = n - L + 1
      BY <1>1, <1>2, <2>1, Entries DEF IInv, Ordered
    <2>2. CASE i \in 1..(n - L)
      BY <2>2 DEF IInv, ForgottenExpired, L, n
    <2> QED
      BY <1>2, <1>3, <2>1, <2>2
  <1>7. DequeBound'
    <2>1. Appending' = Appending
      BY <1>1 DEF Appending
    <2>2. L + Cardinality(Appending) < MaxRequests + N
      BY DEF IInv, DequeBound, L
    <2>3. Cardinality(Appending) \in Nat /\ N \in Nat /\ MaxRequests \in Nat
      BY Finite, Entries DEF Appending, IInv
    <2> QED
      BY <1>2, <1>3, <2>1, <2>2, <2>3 DEF DequeBound
  <1>8. FreshBound' /\ LateBound'
    BY <1>1, FreshBoundKept, LateBoundKept
  <1>9. RefusalJustified'
    BY <1>1, <1>4 DEF IInv, RefusalJustified
  <1> QED
    BY <1>4, <1>5, <1>6, <1>7, <1>8, <1>9 DEF IInv

LEMMA CountStep ==
  ASSUME IInv, NEW t \in Threads, Count(t)
  PROVE  IInv'
  <1> DEFINE L == Len(log)
             n == Len(asked)
  <1>1. /\ thread[t].pc = "prune" /\ ~Expired(t)
        /\ UNCHANGED <<clock, log, admitted, asked>>
        /\ thread'[t].pc = "counted" /\ thread'[t].length = L /\ thread'[t].now = thread[t].now
        /\ \A u \in Threads \ {t} : thread'[u] = thread[u]
    BY DEF Count, IInv, Typing, ThreadStates
  <1>2. L \in Nat /\ n \in Nat /\ L <= n /\ n = Len(admitted)
    BY Entries DEF IInv, LogIsSuffix, Ordered
  <1>3. Typing'
    BY <1>1, <1>2 DEF IInv, Typing, ThreadStates, Count
  <1> HIDE DEF L, n
  <1>4. Ordered'
    <2>1. ASSUME NEW u \in Threads PROVE thread'[u].now <= clock
      BY <1>1 DEF IInv, Ordered
    <2> QED
      BY <1>1, <2>1 DEF IInv, Ordered
  <1>5. LogIsSuffix' /\ ForgottenExpired'
    BY <1>1 DEF IInv, LogIsSuffix, ForgottenExpired
  <1>6. DequeBound'
    <2>1. Cardinality(Appending) \in Nat /\ Cardinality(Appending') \in Nat /\ Cardinality(Appending') <= N
          /\ N \in Nat /\ MaxRequests \in Nat
      BY Finite, Entries DEF Appending, IInv
    <2>2. CASE L < MaxRequests
      BY <1>1, <1>2, <2>1, <2>2 DEF DequeBound, L
    <2>3. CASE L >= MaxRequests
      <3>1. Appending' = Appending
        BY <1>1, <1>2, <2>1, <2>3 DEF Appending
      <3> QED
        BY <1>1, <3>1 DEF IInv, DequeBound
    <2> QED
      BY <1>2, <2>1, <2>2, <2>3
  <1>7. FreshBound'
    BY <1>1, FreshBoundKept
  <1>8. LateBound'
    <2>1. ASSUME NEW u \in Threads, NEW s \in 0..clock, thread'[u].pc # "idle", thread'[u].now < s
          PROVE  thread[u].pc # "idle" /\ thread[u].now < s
      BY <1>1, <2>1
    <2> QED
      BY <1>1, <2>1, LateBoundKept
  <1>9. RefusalJustified'
    <2> SUFFICES ASSUME NEW u \in Threads, thread'[u].pc = "counted", thread'[u].length >= MaxRequests
                 PROVE  Cardinality({i \in DOMAIN admitted' : admitted'[i] + Window >= thread'[u].now}) >= MaxRequests
      BY DEF RefusalJustified
    <2>1. CASE u # t
      <3>1. thread'[u] = thread[u]
        BY <1>1, <2>1
      <3>2. thread[u].pc = "counted" /\ thread[u].length >= MaxRequests
        BY <3>1
      <3> QED
        BY <1>1, <1>3, <3>1, <3>2, HistoryKeepsJustified
    <2>2. CASE u = t
      <3> DEFINE S == {i \in DOMAIN admitted : admitted[i] + Window >= thread[t].now}
      <3>1. L >= MaxRequests /\ MaxRequests >= 1 /\ L >= 1 /\ MaxRequests \in Nat
        BY <1>1, <1>2, <2>2, Entries DEF IInv
      <3>2. log # <<>> /\ n - L + 1 \in 1..n /\ log[1] = asked[n - L + 1]
        <4>1. log # <<>>
          <5> SUFFICES ASSUME log = <<>> PROVE FALSE
            OBVIOUS
          <5> QED
            BY <3>1, EmptySeq DEF L
        <4> QED
          BY <4>1, OldestEntry DEF IInv, L, n
      <3>3. asked[n - L + 1] + Window >= thread[t].now
        <4>1. log[1] + Window >= thread[t].now
          <5>1. 1 \in 1..Len(log)
            BY <1>2, <3>1 DEF L
          <5>2. log[1] \in Nat /\ Window \in Nat /\ thread[t].now \in Nat
            BY <5>1, Entries DEF IInv
          <5> QED
            BY <1>1, <3>2, <5>2 DEF Expired
        <4> QED
          BY <3>2, <4>1
      <3>4. ASSUME NEW i \in (n - L + 1)..n
            PROVE  i \in 1..n /\ admitted[i] + Window >= thread[t].now
        <4>1. i \in 1..n /\ n - L + 1 <= i
          BY <1>2
        <4>2. asked[n - L + 1] <= admitted[n - L + 1] /\ admitted[n - L + 1] <= admitted[i]
          BY <1>2, <3>2, <4>1 DEF IInv, Ordered
        <4>3. /\ asked[n - L + 1] \in Nat /\ admitted[n - L + 1] \in Nat /\ admitted[i] \in Nat
              /\ Window \in Nat /\ thread[t].now \in Nat
          BY <1>2, <3>2, <4>1, Entries DEF IInv, n
        <4> QED
          BY <3>3, <4>1, <4>2, <4>3
      <3>5. DOMAIN admitted = 1..n
        BY <1>2 DEF IInv, Typing
      <3>6. (n - L + 1)..n \subseteq S /\ S \in SUBSET (1..n)
        BY <3>4, <3>5
      <3>7. Cardinality((n - L + 1)..n) = L
        <4>1. n - L + 1 \in Int /\ n \in Int
          BY <1>2
        <4>2. Cardinality((n - L + 1)..n) = IF n - L + 1 > n THEN 0 ELSE n - (n - L + 1) + 1
          BY <4>1, FS_Interval
        <4> QED
          BY <1>2, <3>1, <4>2
      <3>8. L <= Cardinality(S) /\ Cardinality(S) \in Nat
        <4> HIDE DEF S
        <4>1. IsFiniteSet(S) /\ Cardinality(S) \in Nat
          BY <1>2, <3>6, Finite
        <4>2. Cardinality((n - L + 1)..n) <= Cardinality(S)
          BY <3>6, <4>1, FS_Subset
        <4> QED
          BY <3>7, <4>1, <4>2
      <3> DEFINE T == {i \in DOMAIN admitted' : admitted'[i] + Window >= thread'[u].now}
      <3>9. T = S
        BY <1>1, <2>2
      <3>10. Cardinality(T) >= MaxRequests
        <4> HIDE DEF S, T
        <4> QED
          BY <1>2, <3>1, <3>8, <3>9
      <3> QED
        BY <3>10
    <2> QED
      BY <2>1, <2>2
  <1> QED
    BY <1>3, <1>4, <1>5, <1>6, <1>7, <1>8, <1>9 DEF IInv

LEMMA RejectStep ==
  ASSUME IInv, NEW t \in Threads, Reject(t)
  PROVE  IInv'
  <1>1. /\ thread[t].pc = "counted" /\ thread[t].length >= MaxRequests
        /\ UNCHANGED <<clock, log, admitted, asked>>
        /\ thread'[t] = AtRest /\ AtRest.pc = "idle" /\ AtRest.now = 0
        /\ \A u \in Threads \ {t} : thread'[u] = thread[u]
    BY DEF Reject, IInv, Typing, AtRest
  <1>2. Typing'
    BY <1>1 DEF IInv, Typing, ThreadStates, Reject, AtRest
  <1>3. Ordered'
    <2>1. ASSUME NEW u \in Threads PROVE thread'[u].now <= clock
      <3>1. clock \in Nat /\ thread[u].now <= clock
        BY Entries DEF IInv, Ordered
      <3>2. thread'[u] = AtRest \/ thread'[u] = thread[u]
        BY <1>1
      <3> QED
        BY <1>1, <3>1, <3>2
    <2> QED
      BY <1>1, <2>1 DEF IInv, Ordered
  <1>4. LogIsSuffix' /\ ForgottenExpired'
    BY <1>1 DEF IInv, LogIsSuffix, ForgottenExpired
  <1>5. DequeBound'
    <2>1. thread[t].length \in Nat /\ MaxRequests \in Nat
      BY Entries DEF IInv
    <2>2. Appending' = Appending
      BY <1>1, <2>1 DEF Appending
    <2> QED
      BY <1>1, <2>2 DEF IInv, DequeBound
  <1>6. FreshBound'
    BY <1>1, FreshBoundKept
  <1>7. LateBound'
    <2>1. ASSUME NEW u \in Threads, NEW s \in 0..clock, thread'[u].pc # "idle", thread'[u].now < s
          PROVE  thread[u].pc # "idle" /\ thread[u].now < s
      BY <1>1, <2>1
    <2> QED
      BY <1>1, <2>1, LateBoundKept
  <1>8. RefusalJustified'
    <2> SUFFICES ASSUME NEW u \in Threads, thread'[u].pc = "counted", thread'[u].length >= MaxRequests
                 PROVE  Cardinality({i \in DOMAIN admitted' : admitted'[i] + Window >= thread'[u].now}) >= MaxRequests
      BY DEF RefusalJustified
    <2>1. thread'[u] = thread[u]
      BY <1>1
    <2>2. thread[u].pc = "counted" /\ thread[u].length >= MaxRequests
      BY <2>1
    <2> QED
      BY <1>1, <1>2, <2>1, <2>2, HistoryKeepsJustified
  <1> QED
    BY <1>2, <1>3, <1>4, <1>5, <1>6, <1>7, <1>8 DEF IInv

-----------------------------------------------------------------------------
(* A request is let through *)

LEMMA AdmitStep ==
  ASSUME IInv, NEW t \in Threads, Admit(t)
  PROVE  IInv'
  <1> DEFINE L == Len(log)
             n == Len(asked)
             x == thread[t].now
  <1>1. /\ thread[t].pc = "counted" /\ thread[t].length < MaxRequests
        /\ log' = Append(log, x) /\ admitted' = Append(admitted, clock) /\ asked' = Append(asked, x)
        /\ clock' = clock
        /\ thread'[t] = AtRest /\ AtRest.pc = "idle" /\ AtRest.now = 0
        /\ \A u \in Threads \ {t} : thread'[u] = thread[u]
    BY DEF Admit, IInv, Typing, AtRest
  <1>2. /\ L \in Nat /\ n \in Nat /\ L <= n /\ n = Len(admitted)
        /\ x \in Nat /\ x <= clock /\ clock \in Nat /\ Window \in Nat
    BY Entries DEF IInv, LogIsSuffix, Ordered
  <1> HIDE DEF L, n, x
  <1>3. /\ log' \in Seq(0..clock) /\ Len(log') = L + 1 /\ log'[L + 1] = x
        /\ \A i \in 1..L : log'[i] = log[i]
        /\ admitted' \in Seq(0..clock) /\ Len(admitted') = n + 1 /\ admitted'[n + 1] = clock
        /\ \A i \in 1..n : admitted'[i] = admitted[i]
        /\ asked' \in Seq(0..clock) /\ Len(asked') = n + 1 /\ asked'[n + 1] = x
        /\ \A i \in 1..n : asked'[i] = asked[i]
    <2>1. /\ x \in 0..clock /\ clock \in 0..clock
          /\ log \in Seq(0..clock) /\ admitted \in Seq(0..clock) /\ asked \in Seq(0..clock)
      BY <1>2 DEF IInv, Typing
    <2>2. /\ Append(log, x) \in Seq(0..clock) /\ Len(Append(log, x)) = L + 1
          /\ Append(log, x)[L + 1] = x /\ \A i \in 1..L : Append(log, x)[i] = log[i]
      BY <1>2, <2>1, AppendIs DEF L
    <2>3. /\ Append(asked, x) \in Seq(0..clock) /\ Len(Append(asked, x)) = n + 1
          /\ Append(asked, x)[n + 1] = x /\ \A i \in 1..n : Append(asked, x)[i] = asked[i]
      BY <1>2, <2>1, AppendIs DEF n
    <2>4. /\ Append(admitted, clock) \in Seq(0..clock) /\ Len(Append(admitted, clock)) = n + 1
          /\ Append(admitted, clock)[n + 1] = clock
          /\ \A i \in 1..n : Append(admitted, clock)[i] = admitted[i]
      BY <1>2, <2>1, AppendIs
    <2> QED
      BY <1>1, <2>2, <2>3, <2>4
  <1>4. Typing'
    BY <1>1, <1>3 DEF IInv, Typing, ThreadStates, Admit, AtRest
  <1>5. /\ \A i \in 1..n : /\ admitted[i] \in Nat /\ asked[i] \in Nat
                           /\ admitted[i] <= clock /\ asked[i] <= admitted[i]
        /\ \A i, j \in 1..n : i <= j => admitted[i] <= admitted[j]
    BY <1>2, Entries DEF IInv, Ordered, n
  <1>6. \A i \in 1..(n + 1) : i \in 1..n \/ i = n + 1
    BY <1>2
  <1>7. Ordered'
    <2>1. ASSUME NEW u \in Threads PROVE thread'[u].now <= clock
      <3>1. thread[u].now <= clock
        BY DEF IInv, Ordered
      <3>2. thread'[u] = AtRest \/ thread'[u] = thread[u]
        BY <1>1
      <3> QED
        BY <1>1, <1>2, <3>1, <3>2
    <2>2. ASSUME NEW i \in 1..(n + 1) PROVE asked'[i] <= admitted'[i]
      BY <1>2, <1>3, <1>5, <1>6
    <2>3. ASSUME NEW i \in 1..(n + 1), NEW j \in 1..(n + 1), i <= j
          PROVE  admitted'[i] <= admitted'[j]
      <3>1. CASE j \in 1..n
        <4>1. i \in 1..n
          BY <1>2, <2>3, <3>1
        <4> QED
          BY <1>3, <1>5, <2>3, <3>1, <4>1
      <3>2. CASE j = n + 1
        <4>1. admitted'[i] <= clock
          BY <1>2, <1>3, <1>5, <1>6
        <4> QED
          BY <1>3, <3>2, <4>1
      <3> QED
        BY <1>6, <3>1, <3>2
    <2> QED
      BY <1>1, <1>3, <2>1, <2>2, <2>3 DEF Ordered
  <1>8. LogIsSuffix'
    <2>1. ASSUME NEW j \in 1..(L + 1) PROVE log'[j] = asked'[(n + 1) - (L + 1) + j]
      <3>1. CASE j = L + 1
        BY <1>2, <1>3, <3>1
      <3>2. CASE j \in 1..L
        <4>1. n - L + j \in 1..n /\ (n + 1) - (L + 1) + j = n - L + j
          BY <1>2, <3>2
        <4>2. log[j] = asked[n - L + j]
          BY <3>2 DEF IInv, LogIsSuffix, L, n
        <4> QED
          BY <1>3, <3>2, <4>1, <4>2
      <3> QED
        BY <1>2, <3>1, <3>2
    <2>2. Len(log') <= Len(asked')
      BY <1>2, <1>3
    <2> QED
      BY <1>3, <2>1, <2>2 DEF LogIsSuffix
  <1>9. ForgottenExpired'
    <2> SUFFICES ASSUME NEW i \in 1..((n + 1) - (L + 1)) PROVE asked'[i] + Window < clock
      BY <1>1, <1>3 DEF ForgottenExpired
    <2>1. i \in 1..(n - L) /\ i \in 1..n
      BY <1>2
    <2>2. asked[i] + Window < clock
      BY <2>1 DEF IInv, ForgottenExpired, L, n
    <2> QED
      BY <1>3, <2>1, <2>2
  <1>10. DequeBound'
    <2>1. Appending' = Appending \ {t} /\ t \in Appending /\ Appending \in SUBSET Threads
      BY <1>1 DEF Appending
    <2>2. IsFiniteSet(Appending) /\ Cardinality(Appending) \in Nat
      BY <2>1, Finite
    <2>3. Cardinality(Appending') = Cardinality(Appending) - 1
      BY <2>1, <2>2, FS_RemoveElement
    <2>4. L + Cardinality(Appending) < MaxRequests + N
      BY DEF IInv, DequeBound, L
    <2>5. N \in Nat /\ MaxRequests \in Nat
      BY Finite, Entries DEF IInv
    <2> QED
      BY <1>2, <1>3, <2>2, <2>3, <2>4, <2>5 DEF DequeBound
  <1>11. FreshBound'
    <2> SUFFICES ASSUME NEW s \in 0..clock PROVE Cardinality(Fresh(s)') < MaxRequests + N
      BY <1>1 DEF FreshBound
    <2>0. Fresh(s)' = {i \in 1..(n + 1) : admitted'[i] <= s /\ asked'[i] + Window >= s}
      BY <1>3 DEF Fresh
    <2>1. CASE s < clock
      <3>1. ASSUME NEW i \in 1..n
            PROVE  i \in Fresh(s)' <=> i \in Fresh(s)
        <4>1. i \in 1..(n + 1) /\ admitted'[i] = admitted[i] /\ asked'[i] = asked[i]
          BY <1>2, <1>3
        <4>2. i \in Fresh(s) <=> admitted[i] <= s /\ asked[i] + Window >= s
          BY <1>2 DEF Fresh
        <4> QED
          BY <2>0, <4>1, <4>2
      <3>2. n + 1 \notin Fresh(s)'
        BY <1>2, <1>3, <2>0, <2>1
      <3>3. Fresh(s)' = Fresh(s)
        <4>1. Fresh(s)' \subseteq 1..(n + 1) /\ Fresh(s) \subseteq 1..n
          BY <1>2, <2>0 DEF Fresh
        <4> QED
          BY <1>6, <3>1, <3>2, <4>1
      <3> QED
        BY <3>3 DEF IInv, FreshBound
    <2>2. CASE s = clock
      <3>1. ASSUME NEW i \in Fresh(s)' PROVE i \in (n - L + 1)..(n + 1)
        <4>1. i \in 1..(n + 1) /\ asked'[i] + Window >= clock
          BY <2>0, <2>2
        <4>2. ~(i \in 1..(n - L))
          <5> SUFFICES ASSUME i \in 1..(n - L) PROVE FALSE
            OBVIOUS
          <5>1. i \in 1..n
            BY <1>2
          <5>2. asked[i] + Window < clock
            BY DEF IInv, ForgottenExpired, L, n
          <5>3. asked'[i] = asked[i] /\ asked[i] \in Nat
            BY <1>3, <1>5, <5>1
          <5> QED
            BY <1>2, <4>1, <5>2, <5>3
        <4> QED
          BY <1>2, <4>1, <4>2
      <3>2. Cardinality(Fresh(s)') <= L + 1
        <4>1. n + 1 \in Nat /\ L + 1 \in 0..(n + 1) /\ (n + 1) - (L + 1) + 1 = n - L + 1
          BY <1>2
        <4>2. Fresh(s)' \in SUBSET (((n + 1) - (L + 1) + 1)..(n + 1))
          BY <3>1, <4>1
        <4> QED
          BY <4>1, <4>2, LastOnes, Zenon
      <3>3. L + 1 < MaxRequests + N
        <4>1. t \in Appending /\ Appending \in SUBSET Threads
          BY <1>1 DEF Appending
        <4>2. IsFiniteSet(Appending) /\ Cardinality(Appending) \in Nat
          BY <4>1, Finite
        <4>3. Cardinality(Appending) >= 1
          <5>1. Cardinality(Appending \ {t}) = Cardinality(Appending) - 1
            BY <4>1, <4>2, FS_RemoveElement
          <5>2. Cardinality(Appending \ {t}) \in Nat
            BY <4>1, Finite
          <5> QED
            BY <4>2, <5>1, <5>2
        <4>4. L + Cardinality(Appending) < MaxRequests + N
          BY DEF IInv, DequeBound, L
        <4>5. N \in Nat /\ MaxRequests \in Nat
          BY Finite, Entries DEF IInv
        <4> QED
          BY <1>2, <4>2, <4>3, <4>4, <4>5
      <3>4. Cardinality(Fresh(s)') \in Nat /\ N \in Nat /\ MaxRequests \in Nat
        <4>1. Fresh(s)' \in SUBSET (1..(n + 1)) /\ n + 1 \in Nat
          BY <1>2, <2>0
        <4> QED
          BY <4>1, Finite, Entries DEF IInv
      <3> QED
        BY <1>2, <3>2, <3>3, <3>4
    <2> QED
      BY <1>2, <2>1, <2>2
  <1>12. LateBound'
    <2> SUFFICES ASSUME NEW s \in 0..clock
                 PROVE  Cardinality(Late(s)') + Cardinality(Slow(s)') <= N
      BY <1>1 DEF LateBound
    <2>1. Late(s)' = {i \in 1..(n + 1) : admitted'[i] >= s /\ asked'[i] < s}
      BY <1>3 DEF Late
    <2>2. Slow(s)' = Slow(s) \ {t} /\ Slow(s) \in SUBSET Threads
      BY <1>1 DEF Slow
    <2>3. Late(s) \in SUBSET (1..n) /\ n + 1 \notin Late(s)
      BY <1>2 DEF Late
    <2>4. /\ IsFiniteSet(Late(s)) /\ Cardinality(Late(s)) \in Nat
          /\ IsFiniteSet(Slow(s)) /\ Cardinality(Slow(s)) \in Nat /\ N \in Nat
      BY <1>2, <2>2, <2>3, Finite
    <2>5. Cardinality(Late(s)) + Cardinality(Slow(s)) <= N
      BY DEF IInv, LateBound
    <2>a. ASSUME NEW i \in 1..n
          PROVE  i \in Late(s)' <=> i \in Late(s)
      <3>1. i \in 1..(n + 1) /\ admitted'[i] = admitted[i] /\ asked'[i] = asked[i]
        BY <1>2, <1>3
      <3>2. i \in Late(s) <=> admitted[i] >= s /\ asked[i] < s
        BY <1>2 DEF Late
      <3> QED
        BY <2>1, <3>1, <3>2
    <2>b. Late(s)' \subseteq 1..(n + 1)
      BY <2>1
    <2>c. n + 1 \in Late(s)' <=> x < s
      BY <1>2, <1>3, <2>1
    <2>6. CASE x < s
      <3>1. Late(s)' = Late(s) \cup {n + 1}
        BY <1>6, <2>3, <2>6, <2>a, <2>b, <2>c
      <3>2. Cardinality(Late(s)') = Cardinality(Late(s)) + 1
        BY <2>3, <2>4, <3>1, FS_AddElement
      <3>3. t \in Slow(s)
        BY <1>1, <2>6 DEF Slow, x
      <3>4. Cardinality(Slow(s)') = Cardinality(Slow(s)) - 1
        BY <2>2, <2>4, <3>3, FS_RemoveElement
      <3> QED
        BY <2>4, <2>5, <3>2, <3>4
    <2>7. CASE ~(x < s)
      <3>1. Late(s)' = Late(s)
        BY <1>6, <2>3, <2>7, <2>a, <2>b, <2>c
      <3>2. Slow(s)' = Slow(s)
        BY <2>2, <2>7 DEF Slow, x
      <3> QED
        BY <2>5, <3>1, <3>2
    <2> QED
      BY <2>6, <2>7
  <1>13. RefusalJustified'
    <2> SUFFICES ASSUME NEW u \in Threads, thread'[u].pc = "counted", thread'[u].length >= MaxRequests
                 PROVE  Cardinality({i \in DOMAIN admitted' : admitted'[i] + Window >= thread'[u].now}) >= MaxRequests
      BY DEF RefusalJustified
    <2>1. thread'[u] = thread[u]
      BY <1>1
    <2>2. thread[u].pc = "counted" /\ thread[u].length >= MaxRequests
      BY <2>1
    <2>3. n + 1 \in Nat /\ n + 1 >= Len(admitted) /\ Len(admitted') = n + 1
          /\ \A i \in 1..Len(admitted) : admitted'[i] = admitted[i]
      BY <1>2, <1>3
    <2> QED
      BY <1>4, <2>1, <2>2, <2>3, StillJustified
  <1> QED
    BY <1>4, <1>7, <1>8, <1>9, <1>10, <1>11, <1>12, <1>13 DEF IInv

-----------------------------------------------------------------------------
(* Time *)

LEMMA TickStep ==
  ASSUME IInv, Tick
  PROVE  IInv'
  <1>1. /\ clock < MaxTime /\ clock' = clock + 1
        /\ UNCHANGED <<log, admitted, asked, thread>>
    BY DEF Tick
  <1>2. clock \in Nat /\ MaxTime \in Nat /\ clock' \in 0..MaxTime /\ Window \in Nat /\ MaxRequests \in Nat
    BY <1>1, Entries DEF IInv, Typing
  <1>3. Typing'
    <2>1. ASSUME NEW S, NEW T, S \subseteq T, NEW s \in Seq(S)
          PROVE  s \in Seq(T)
      <3>1. s \in [1..Len(s) -> T] /\ Len(s) \in Nat
        BY <2>1
      <3> QED
        BY <3>1, SeqDef
    <2>2. 0..clock \subseteq 0..clock'
      BY <1>1, <1>2
    <2>3. log \in Seq(0..clock') /\ admitted \in Seq(0..clock') /\ asked \in Seq(0..clock')
      BY <2>1, <2>2 DEF IInv, Typing
    <2> QED
      BY <1>1, <1>2, <2>3 DEF IInv, Typing
  <1>4. Ordered'
    <2>1. ASSUME NEW u \in Threads PROVE thread'[u].now <= clock'
      <3>1. thread[u].now \in Nat /\ thread[u].now <= clock
        BY Entries DEF IInv, Ordered
      <3> QED
        BY <1>1, <1>2, <3>1
    <2> QED
      BY <1>1, <2>1 DEF IInv, Ordered
  <1>5. LogIsSuffix'
    BY <1>1 DEF IInv, LogIsSuffix
  <1>6. ForgottenExpired'
    <2> SUFFICES ASSUME NEW i \in 1..(Len(asked) - Len(log)) PROVE asked[i] + Window < clock'
      BY <1>1 DEF ForgottenExpired
    <2>1. asked[i] + Window < clock
      BY DEF IInv, ForgottenExpired
    <2>2. i \in 1..Len(asked)
      BY Entries DEF IInv, LogIsSuffix
    <2>3. asked[i] \in Nat
      BY <2>2, Entries DEF IInv
    <2> QED
      BY <1>1, <1>2, <2>1, <2>3
  <1>7. DequeBound'
    <2>1. Appending' = Appending
      BY <1>1 DEF Appending
    <2> QED
      BY <1>1, <2>1 DEF IInv, DequeBound
  <1>8. ASSUME NEW s \in 0..clock', ~(s \in 0..clock)
        PROVE  s = clock + 1
    BY <1>1, <1>2, <1>8
  <1>9. FreshBound'
    <2> SUFFICES ASSUME NEW s \in 0..clock' PROVE Cardinality(Fresh(s)') < MaxRequests + N
      BY DEF FreshBound
    <2>1. Fresh(s)' = Fresh(s)
      BY <1>1 DEF Fresh
    <2>2. CASE s \in 0..clock
      BY <2>1, <2>2 DEF IInv, FreshBound
    <2>3. CASE ~(s \in 0..clock)
      <3>1. s = clock + 1
        BY <1>8, <2>3
      <3>2. ASSUME NEW i \in Fresh(s) PROVE i \in Fresh(clock)
        <4>1. i \in 1..Len(admitted) /\ asked[i] + Window >= clock + 1
          BY <3>1 DEF Fresh
        <4>2. admitted[i] <= clock /\ asked[i] \in Nat
          BY <4>1, Entries DEF IInv, Ordered
        <4> QED
          BY <1>2, <4>1, <4>2 DEF Fresh
      <3>3. Fresh(s) \subseteq Fresh(clock) /\ Fresh(clock) \in SUBSET (1..Len(admitted)) /\ Len(admitted) \in Nat
        BY <3>2, Entries DEF Fresh, IInv
      <3>4. /\ Cardinality(Fresh(s)) <= Cardinality(Fresh(clock))
            /\ Cardinality(Fresh(s)) \in Nat /\ Cardinality(Fresh(clock)) \in Nat /\ N \in Nat
        BY <3>3, Fewer, Finite
      <3>5. Cardinality(Fresh(clock)) < MaxRequests + N
        <4>1. clock \in 0..clock
          BY <1>2
        <4> QED
          BY <4>1 DEF IInv, FreshBound
      <3> QED
        BY <1>2, <2>1, <3>4, <3>5
    <2> QED
      BY <2>2, <2>3
  <1>10. LateBound'
    <2> SUFFICES ASSUME NEW s \in 0..clock'
                 PROVE  Cardinality(Late(s)') + Cardinality(Slow(s)') <= N
      BY DEF LateBound
    <2>1. Late(s)' = Late(s) /\ Slow(s)' = Slow(s)
      BY <1>1 DEF Late, Slow
    <2>2. CASE s \in 0..clock
      BY <2>1, <2>2 DEF IInv, LateBound
    <2>3. CASE ~(s \in 0..clock)
      <3>1. s = clock + 1
        BY <1>8, <2>3
      <3>2. ASSUME NEW i \in Late(s) PROVE FALSE
        <4>1. i \in 1..Len(admitted) /\ admitted[i] >= clock + 1
          BY <3>1 DEF Late
        <4>2. admitted[i] <= clock /\ admitted[i] \in Nat
          BY <4>1, Entries DEF IInv
        <4> QED
          BY <1>2, <4>1, <4>2
      <3>3. Cardinality(Late(s)) = 0
        BY <3>2, FS_EmptySet
      <3>4. Slow(s) \in SUBSET Threads
        BY DEF Slow
      <3>5. Cardinality(Slow(s)) \in Nat /\ Cardinality(Slow(s)) <= N
        BY <3>4, Finite
      <3> QED
        BY <2>1, <3>3, <3>5
    <2> QED
      BY <2>2, <2>3
  <1>11. RefusalJustified'
    BY <1>1 DEF IInv, RefusalJustified
  <1> QED
    BY <1>3, <1>4, <1>5, <1>6, <1>7, <1>9, <1>10, <1>11 DEF IInv

LEMMA StutterStep == IInv /\ UNCHANGED vars => IInv'
  <1> SUFFICES ASSUME IInv, UNCHANGED vars PROVE IInv'
    OBVIOUS
  <1>1. UNCHANGED <<clock, log, admitted, asked, thread>>
    BY DEF vars
  <1>2. Typing' /\ Ordered' /\ LogIsSuffix' /\ ForgottenExpired'
    BY <1>1 DEF IInv, Typing, Ordered, LogIsSuffix, ForgottenExpired
  <1>3. Appending' = Appending
    BY <1>1 DEF Appending
  <1>4. DequeBound' /\ FreshBound'
    BY <1>1, <1>3, FreshBoundKept DEF IInv, DequeBound
  <1>5. LateBound' /\ RefusalJustified'
    BY <1>1, LateBoundKept DEF IInv, RefusalJustified
  <1> QED
    BY <1>2, <1>4, <1>5 DEF IInv

LEMMA Invariance == Spec => []IInv
  <1>1. IInv /\ [Next]_vars => IInv'
    BY ReadClockStep, PopLeftStep, CountStep, AdmitStep, RejectStep, TickStep, StutterStep DEF Next, Check
  <1> QED
    BY InitIInv, <1>1, PTL DEF Spec

-----------------------------------------------------------------------------
(* The results *)

\* Every variable keeps its type, and the deque stays shorter than the limit and one entry
\* per thread.
THEOREM TypeCorrect == Spec => []TypeOK
  <1>1. IInv => TypeOK
    <2> SUFFICES ASSUME IInv PROVE TypeOK
      OBVIOUS
    <2>1. Appending \in SUBSET Threads
      BY DEF Appending
    <2>2. Cardinality(Appending) \in Nat /\ N \in Nat
      BY <2>1, Finite
    <2>3. Len(log) + Cardinality(Appending) < MaxRequests + N
      BY DEF IInv, DequeBound
    <2>4. Len(log) < MaxRequests + Cardinality(Threads)
      BY <2>2, <2>3, Entries DEF IInv, N
    <2> QED
      BY <2>4 DEF IInv, Typing, TypeOK
  <1> QED
    BY <1>1, Invariance, PTL

\* Whatever the threads do, a refused request had MaxRequests let through before it.
THEOREM RefusalsJustified == Spec => []RefusalJustified
  <1>1. IInv => RefusalJustified
    BY DEF IInv
  <1> QED
    BY <1>1, Invariance, PTL

\* However many threads race, the limit is exceeded by no more than one request for each
\* other thread and one for each thread.
THEOREM OverrunBoundHolds == Spec => []OverrunBounded
  <1>1. IInv => OverrunBounded
    <2> SUFFICES ASSUME IInv, NEW t \in 0..clock
                 PROVE  Cardinality(Admissions(t)) < MaxRequests + 2 * Cardinality(Threads)
      BY DEF OverrunBounded
    <2> DEFINE n == Len(admitted)
               s == IF t >= Window THEN t - Window ELSE 0
    <2>1. /\ n \in Nat /\ clock \in Nat /\ Window \in Nat /\ MaxRequests \in Nat /\ N \in Nat
          /\ DOMAIN admitted = 1..n
      BY Finite, Entries DEF IInv, Typing
    <2>2. s \in 0..clock /\ t \in Nat /\ (t >= Window => s + Window = t)
      BY <2>1
    <2>3. ASSUME NEW i \in Admissions(t), i \notin Fresh(t)
          PROVE  i \in Late(s)
      <3>1. i \in 1..n /\ admitted[i] <= t /\ t <= admitted[i] + Window
        BY <2>1 DEF Admissions
      <3>2. admitted[i] \in Nat /\ asked[i] \in Nat
        BY <3>1, Entries DEF IInv, Ordered
      <3>3. asked[i] + Window < t
        BY <2>1, <2>2, <2>3, <3>1, <3>2 DEF Fresh
      <3>4. t >= Window /\ admitted[i] >= s /\ asked[i] < s
        BY <2>1, <2>2, <3>1, <3>2, <3>3
      <3> QED
        BY <3>1, <3>4 DEF Late
    <2> HIDE DEF n, s
    <2>4. Admissions(t) \subseteq Fresh(t) \cup Late(s)
      BY <2>3
    <2>5. Fresh(t) \in SUBSET (1..n) /\ Late(s) \in SUBSET (1..n)
      BY DEF Fresh, Late, n
    <2>6. /\ IsFiniteSet(Fresh(t)) /\ Cardinality(Fresh(t)) \in Nat
          /\ IsFiniteSet(Late(s)) /\ Cardinality(Late(s)) \in Nat
          /\ IsFiniteSet(Fresh(t) \cap Late(s)) /\ Cardinality(Fresh(t) \cap Late(s)) \in Nat
      BY <2>1, <2>5, Finite
    <2>7. /\ IsFiniteSet(Fresh(t) \cup Late(s))
          /\ Cardinality(Fresh(t) \cup Late(s)) <= Cardinality(Fresh(t)) + Cardinality(Late(s))
      <3>1. /\ IsFiniteSet(Fresh(t) \cup Late(s))
            /\ Cardinality(Fresh(t) \cup Late(s)) =
                 Cardinality(Fresh(t)) + Cardinality(Late(s)) - Cardinality(Fresh(t) \cap Late(s))
        BY <2>6, FS_Union, Zenon
      <3> QED
        BY <2>6, <3>1
    <2>8. /\ Cardinality(Admissions(t)) <= Cardinality(Fresh(t) \cup Late(s))
          /\ Cardinality(Admissions(t)) \in Nat /\ Cardinality(Fresh(t) \cup Late(s)) \in Nat
      BY <2>4, <2>7, FS_Subset, FS_CardinalityType
    <2>9. Cardinality(Fresh(t)) < MaxRequests + N
      BY DEF IInv, FreshBound
    <2>10. Cardinality(Late(s)) <= N
      <3>1. Slow(s) \in SUBSET Threads
        BY DEF Slow
      <3>2. Cardinality(Slow(s)) \in Nat
        BY <3>1, Finite
      <3>3. Cardinality(Late(s)) + Cardinality(Slow(s)) <= N
        BY <2>2 DEF IInv, LateBound
      <3> QED
        BY <2>1, <2>6, <3>2, <3>3
    <2>11. Cardinality(Admissions(t)) < MaxRequests + 2 * N
      BY <2>1, <2>6, <2>7, <2>8, <2>9, <2>10
    <2> QED
      BY <2>11 DEF N
  <1> QED
    BY <1>1, Invariance, PTL

=============================================================================
