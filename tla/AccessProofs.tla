----------------------------- MODULE AccessProofs -----------------------------
(***************************************************************************)
(* First RateLimiter: the sequential limiter keeps its limit and           *)
(* implements SlidingWindow, for every number of clients, window length,   *)
(* limit and time.  The log is the suffix of the history of admitted       *)
(* requests that starts at the first one not yet expired, so its length is *)
(* the number of recent ones.  Then Access on top of it, for any users,    *)
(* secrets, windows and limits.                                            *)
(***************************************************************************)
EXTENDS Access, SequenceTheorems, FiniteSetTheorems, WellFoundedInduction, TLAPS

USE LimiterAssumption

Typing ==
    /\ now \in 0..MaxTime
    /\ log \in [Clients -> Seq(Nat)]
    /\ admitted \in [Clients -> Seq(Nat)]
    /\ answer \in {NoAnswer} \cup [client: Clients, verdict: {"accepted", "refused"}]

\* the history is in the order of time, and in the past
Ordered ==
    \A c \in Clients : \A i, j \in 1..Len(admitted[c]) :
        /\ admitted[c][i] <= now
        /\ i <= j => admitted[c][i] <= admitted[c][j]

\* the log is the end of the history
LogIsSuffix ==
    \A c \in Clients :
        /\ Len(log[c]) <= Len(admitted[c])
        /\ \A j \in 1..Len(log[c]) :
            log[c][j] = admitted[c][Len(admitted[c]) - Len(log[c]) + j]

\* what the log no longer holds has expired
ForgottenExpired ==
    \A c \in Clients : \A i \in 1..(Len(admitted[c]) - Len(log[c])) : now - admitted[c][i] > Window[c]

\* MaxRequests requests further on, more than Window has passed
Spaced ==
    \A c \in Clients : \A i \in 1..Len(admitted[c]) :
        i + MaxRequests[c] <= Len(admitted[c])
            => admitted[c][i + MaxRequests[c]] - admitted[c][i] > Window[c]

LogShort == \A c \in Clients : Len(log[c]) <= MaxRequests[c]

IInv == Typing /\ Ordered /\ LogIsSuffix /\ ForgottenExpired /\ Spaced /\ LogShort

-----------------------------------------------------------------------------
(* Lemmas *)

\* The abstract specification counts with the same operator.
LEMMA SameCardinality ==
    ASSUME NEW S
    PROVE  Promise!Cardinality(S) = Cardinality(S)
  BY DEF Cardinality, Promise!Cardinality

\* A nonempty set of natural numbers has a smallest element.
LEMMA SmallestElement ==
    ASSUME NEW T, T \subseteq Nat, T # {}
    PROVE  \E x \in T : \A y \in T : x <= y
  <1>1. PICK x \in T : \A y \in T : ~(<<y, x>> \in OpToRel(<, Nat))
    BY WFMin, NatLessThanWellFounded, Zenon
  <1>2. \A y \in T : ~(y < x)
    BY <1>1 DEF OpToRel
  <1>3. QED
    BY <1>2

\* The loop of check stops: First is the index it stops at.
LEMMA FirstProperties ==
    ASSUME NEW c \in Clients, now \in Nat, NEW s \in Seq(Nat)
    PROVE  /\ First(c, s) \in 1..(Len(s) + 1)
           /\ \A j \in 1..(First(c, s) - 1) : Expired(c, s[j])
           /\ First(c, s) <= Len(s) => ~Expired(c, s[First(c, s)])
  <1> DEFINE Stops == {i \in 1..(Len(s) + 1) : i <= Len(s) => ~Expired(c, s[i])}
  <1>1. Stops \subseteq Nat /\ Len(s) + 1 \in Stops
    OBVIOUS
  <1>2. PICK x \in Stops : \A y \in Stops : x <= y
    <2> HIDE DEF Stops
    <2>1. QED
      BY <1>1, SmallestElement
  <1>3. \A j \in 1..(x - 1) : Expired(c, s[j])
    BY <1>2
  <1>4. \E i \in 1..(Len(s) + 1) :
            /\ \A j \in 1..(i - 1) : Expired(c, s[j])
            /\ i <= Len(s) => ~Expired(c, s[i])
    BY <1>2, <1>3
  <1>5. QED
    BY <1>4 DEF First

\* Pruning keeps a suffix: everything before it has expired, its first entry has not.
LEMMA PrunedProperties ==
    ASSUME NEW c \in Clients, now \in Nat, NEW s \in Seq(Nat)
    PROVE  /\ Pruned(c, s) \in Seq(Nat)
           /\ Len(Pruned(c, s)) <= Len(s)
           /\ \A j \in 1..Len(Pruned(c, s)) : Pruned(c, s)[j] = s[Len(s) - Len(Pruned(c, s)) + j]
           /\ \A j \in 1..(Len(s) - Len(Pruned(c, s))) : now - s[j] > Window[c]
           /\ Len(Pruned(c, s)) > 0 => now - Pruned(c, s)[1] <= Window[c]
  <1> DEFINE f == First(c, s)
  <1>1. /\ f \in 1..(Len(s) + 1)
        /\ \A j \in 1..(f - 1) : now - s[j] > Window[c]
        /\ f <= Len(s) => ~(now - s[f] > Window[c])
    BY FirstProperties DEF Expired
  <1> HIDE DEF f
  <1>2. Pruned(c, s) = SubSeq(s, f, Len(s))
    BY DEF Pruned, f
  <1>3. /\ SubSeq(s, f, Len(s)) \in Seq(Nat)
        /\ Len(SubSeq(s, f, Len(s))) = Len(s) - f + 1
        /\ \A j \in 1..(Len(s) - f + 1) : SubSeq(s, f, Len(s))[j] = s[f + j - 1]
    BY <1>1
  <1>4. QED
    BY <1>1, <1>2, <1>3

\* In a reachable state the pruned log is the part of the history that has not expired.
LEMMA PrunedIsRecent ==
    ASSUME IInv, NEW c \in Clients
    PROVE  LET a == admitted[c]  p == Pruned(c, log[c]) IN
           /\ p \in Seq(Nat) /\ Len(p) <= Len(a) /\ Len(p) <= MaxRequests[c]
           /\ \A j \in 1..Len(p) : p[j] = a[Len(a) - Len(p) + j]
           /\ \A i \in 1..Len(a) : (now - a[i] > Window[c]) <=> (i <= Len(a) - Len(p))
  <1> DEFINE a == admitted[c]
             l == log[c]
             p == Pruned(c, log[c])
  <1>1. now \in Nat /\ a \in Seq(Nat) /\ l \in Seq(Nat)
    BY DEF IInv, Typing
  <1>2. /\ p \in Seq(Nat)
        /\ Len(p) <= Len(l)
        /\ \A j \in 1..Len(p) : p[j] = l[Len(l) - Len(p) + j]
        /\ \A j \in 1..(Len(l) - Len(p)) : now - l[j] > Window[c]
        /\ Len(p) > 0 => now - p[1] <= Window[c]
    BY <1>1, PrunedProperties
  <1>3. /\ Len(l) <= Len(a)
        /\ \A j \in 1..Len(l) : l[j] = a[Len(a) - Len(l) + j]
        /\ \A i \in 1..(Len(a) - Len(l)) : now - a[i] > Window[c]
        /\ \A i, j \in 1..Len(a) : i <= j => a[i] <= a[j]
        /\ Len(l) <= MaxRequests[c]
    BY DEF IInv, LogIsSuffix, ForgottenExpired, Ordered, LogShort
  <1> HIDE DEF a, l, p
  <1>len. /\ Len(a) \in Nat /\ Len(l) \in Nat /\ Len(p) \in Nat
          /\ Len(p) <= Len(l) /\ Len(l) <= Len(a)
    BY <1>1, <1>2, <1>3
  <1>4. \A j \in 1..Len(p) : p[j] = a[Len(a) - Len(p) + j]
    <2> TAKE j \in 1..Len(p)
    <2>1. /\ Len(l) - Len(p) + j \in 1..Len(l)
          /\ Len(a) - Len(l) + (Len(l) - Len(p) + j) = Len(a) - Len(p) + j
      BY <1>len
    <2>2. l[Len(l) - Len(p) + j] = a[Len(a) - Len(l) + (Len(l) - Len(p) + j)]
      BY <1>3, <2>1
    <2>3. QED
      BY <1>2, <2>1, <2>2
  <1>5. ASSUME NEW i \in 1..Len(a), i <= Len(a) - Len(p)
        PROVE  now - a[i] > Window[c]
    <2>1. CASE i <= Len(a) - Len(l)
      BY <1>1, <1>3, <2>1
    <2>2. CASE i > Len(a) - Len(l)
      <3> DEFINE j == i - (Len(a) - Len(l))
      <3>1. /\ j \in 1..(Len(l) - Len(p)) /\ j \in 1..Len(l)
            /\ Len(a) - Len(l) + j = i
        BY <1>len, <1>5, <2>2
      <3> HIDE DEF j
      <3>2. l[j] = a[i]
        BY <1>3, <3>1
      <3>3. QED
        BY <1>2, <3>1, <3>2
    <2>3. QED
      BY <1>len, <2>1, <2>2
  <1>6. ASSUME NEW i \in 1..Len(a), i > Len(a) - Len(p)
        PROVE  now - a[i] <= Window[c]
    <2> DEFINE k == Len(a) - Len(p) + 1
    <2>1. Len(p) > 0 /\ 1 \in 1..Len(p) /\ k \in 1..Len(a) /\ k <= i
      BY <1>len, <1>6
    <2>2. p[1] = a[k]
      BY <1>4, <2>1
    <2> HIDE DEF k
    <2>3. now - a[k] <= Window[c] /\ a[k] <= a[i]
      BY <1>2, <1>3, <2>1, <2>2
    <2>4. a[k] \in Nat /\ a[i] \in Nat
      BY <1>1, <2>1
    <2>5. QED
      BY <1>1, <2>3, <2>4
  <1>7. \A i \in 1..Len(a) : (now - a[i] > Window[c]) <=> (i <= Len(a) - Len(p))
    <2> TAKE i \in 1..Len(a)
    <2>1. a[i] \in Nat
      BY <1>1
    <2>2. CASE i <= Len(a) - Len(p)
      BY <1>5, <2>2
    <2>3. CASE i > Len(a) - Len(p)
      <3>1. now - a[i] <= Window[c]
        BY <1>6, <2>3
      <3>2. QED
        BY <1>1, <1>len, <2>1, <2>3, <3>1
    <2>4. QED
      BY <1>len, <2>2, <2>3
  <1>8. QED
    BY <1>1, <1>2, <1>3, <1>len, <1>4, <1>7 DEF a, l, p

-----------------------------------------------------------------------------
(* The invariant *)

LEMMA InitIInv == Init => IInv
  BY DEF Init, NoAnswer, IInv, Typing, Ordered, LogIsSuffix, ForgottenExpired, Spaced, LogShort

\* Admitting a request extends history and log by the same time.
LEMMA AdmitKeepsIInv ==
    ASSUME IInv, NEW c \in Clients, Admit(c)
    PROVE  IInv'
  <1> DEFINE a == admitted[c]
             p == Pruned(c, log[c])
             m == Len(p)
             n == Len(a)
  <1>1. /\ now \in Nat /\ now' = now /\ a \in Seq(Nat)
        /\ admitted' = [admitted EXCEPT ![c] = Append(a, now)]
        /\ log' = [log EXCEPT ![c] = Append(p, now)]
        /\ m < MaxRequests[c]
    BY DEF IInv, Typing, Admit
  <1>2. /\ p \in Seq(Nat) /\ m <= n /\ m \in Nat /\ n \in Nat
        /\ \A j \in 1..m : p[j] = a[n - m + j]
        /\ \A i \in 1..n : (now - a[i] > Window[c]) <=> (i <= n - m)
    BY <1>1, PrunedIsRecent
  <1>3. /\ \A i, j \in 1..n : a[i] <= now /\ (i <= j => a[i] <= a[j])
        /\ \A i \in 1..n : i + MaxRequests[c] <= n => a[i + MaxRequests[c]] - a[i] > Window[c]
    BY DEF IInv, Ordered, Spaced
  <1> HIDE DEF a, p, m, n
  <1>4. Typing'
    <2>1. Append(a, now) \in Seq(Nat) /\ Append(p, now) \in Seq(Nat)
      BY <1>1, <1>2
    <2>2. answer' \in [client: Clients, verdict: {"accepted", "refused"}]
      BY DEF IInv, Typing, Admit
    <2>3. QED
      BY <1>1, <2>1, <2>2 DEF IInv, Typing
  <1>5. /\ admitted'[c] = Append(a, now) /\ log'[c] = Append(p, now)
        /\ \A d \in Clients \ {c} : admitted'[d] = admitted[d] /\ log'[d] = log[d]
    BY <1>1 DEF IInv, Typing
  <1>6. /\ Len(admitted'[c]) = n + 1 /\ admitted'[c][n + 1] = now
        /\ \A i \in 1..n : admitted'[c][i] = a[i] /\ a[i] \in Nat
        /\ Len(log'[c]) = m + 1 /\ log'[c][m + 1] = now
        /\ \A i \in 1..m : log'[c][i] = p[i]
    <2>1. ASSUME NEW s \in Seq(Nat)
          PROVE  /\ Len(Append(s, now)) = Len(s) + 1 /\ Append(s, now)[Len(s) + 1] = now
                 /\ \A i \in 1..Len(s) : Append(s, now)[i] = s[i] /\ s[i] \in Nat
      BY <1>1
    <2>2. /\ Len(Append(a, now)) = n + 1 /\ Append(a, now)[n + 1] = now
          /\ \A i \in 1..n : Append(a, now)[i] = a[i] /\ a[i] \in Nat
      BY <1>1, <2>1 DEF n
    <2>3. /\ Len(Append(p, now)) = m + 1 /\ Append(p, now)[m + 1] = now
          /\ \A i \in 1..m : Append(p, now)[i] = p[i]
      BY <1>2, <2>1 DEF m
    <2>4. QED
      BY <1>5, <2>2, <2>3
  <1>7. Ordered'
    <2>1. ASSUME NEW i \in 1..(n + 1), NEW j \in 1..(n + 1)
          PROVE  /\ admitted'[c][i] <= now
                 /\ i <= j => admitted'[c][i] <= admitted'[c][j]
      <3>1. CASE j = n + 1
        <4>1. i \in 1..n \/ i = n + 1
          BY <1>2
        <4>2. QED
          BY <1>1, <1>3, <1>6, <3>1, <4>1
      <3>2. CASE j \in 1..n
        <4>1. i <= j => i \in 1..n
          BY <1>2, <3>2
        <4>2. admitted'[c][i] <= now
          <5>1. i \in 1..n \/ i = n + 1
            BY <1>2
          <5>2. QED
            BY <1>1, <1>3, <1>6, <5>1
        <4>3. QED
          BY <1>3, <1>6, <3>2, <4>1, <4>2
      <3>3. QED
        BY <1>2, <3>1, <3>2
    <2>2. QED
      BY <1>1, <1>5, <1>6, <2>1 DEF IInv, Ordered
  <1>8. LogIsSuffix'
    <2>1. ASSUME NEW j \in 1..(m + 1)
          PROVE  log'[c][j] = admitted'[c][(n + 1) - (m + 1) + j]
      <3>1. CASE j = m + 1
        BY <1>2, <1>6, <3>1
      <3>2. CASE j \in 1..m
        <4>1. n - m + j \in 1..n /\ (n + 1) - (m + 1) + j = n - m + j
          BY <1>2, <3>2
        <4>2. p[j] = a[n - m + j]
          BY <1>2, <3>2
        <4>3. log'[c][j] = p[j] /\ admitted'[c][n - m + j] = a[n - m + j]
          BY <1>6, <3>2, <4>1
        <4>4. QED
          BY <4>1, <4>2, <4>3
      <3>3. QED
        BY <1>2, <3>1, <3>2
    <2>2. Len(log'[c]) <= Len(admitted'[c])
      BY <1>2, <1>6
    <2>3. ASSUME NEW d \in Clients
          PROVE  /\ Len(log'[d]) <= Len(admitted'[d])
                 /\ \A j \in 1..Len(log'[d]) :
                      log'[d][j] = admitted'[d][Len(admitted'[d]) - Len(log'[d]) + j]
      <3>1. CASE d = c
        BY <1>6, <2>1, <2>2, <3>1
      <3>2. CASE d # c
        BY <1>5, <3>2 DEF IInv, LogIsSuffix
      <3>3. QED
        BY <3>1, <3>2
    <2>4. QED
      BY <2>3 DEF LogIsSuffix
  <1>9. ForgottenExpired'
    <2>1. ASSUME NEW i \in 1..((n + 1) - (m + 1))
          PROVE  now - admitted'[c][i] > Window[c]
      <3>1. i \in 1..n /\ i <= n - m
        BY <1>2
      <3>2. now - a[i] > Window[c]
        BY <1>2, <3>1
      <3>3. QED
        BY <1>6, <3>1, <3>2
    <2>2. QED
      BY <1>1, <1>5, <1>6, <2>1 DEF IInv, ForgottenExpired
  <1>10. Spaced'
    <2>1. ASSUME NEW i \in 1..(n + 1), i + MaxRequests[c] <= n + 1
          PROVE  admitted'[c][i + MaxRequests[c]] - admitted'[c][i] > Window[c]
      <3>1. CASE i + MaxRequests[c] <= n
        <4>1. i \in 1..n /\ i + MaxRequests[c] \in 1..n
          BY <1>2, <3>1
        <4>2. QED
          BY <1>3, <1>6, <3>1, <4>1
      <3>2. CASE i + MaxRequests[c] = n + 1
        <4>1. i \in 1..n /\ i <= n - m
          BY <1>1, <1>2, <3>2
        <4>2. QED
          BY <1>2, <1>6, <3>2, <4>1
      <3>3. i + MaxRequests[c] <= n \/ i + MaxRequests[c] = n + 1
        BY <1>2, <2>1
      <3>4. QED
        BY <3>1, <3>2, <3>3
    <2>2. ASSUME NEW d \in Clients, NEW i \in 1..Len(admitted'[d]),
                 i + MaxRequests[d] <= Len(admitted'[d])
          PROVE  admitted'[d][i + MaxRequests[d]] - admitted'[d][i] > Window[d]
      <3>1. CASE d = c
        BY <1>6, <2>1, <2>2, <3>1
      <3>2. CASE d # c
        BY <1>5, <2>2, <3>2 DEF IInv, Spaced
      <3>3. QED
        BY <3>1, <3>2
    <2>3. QED
      BY <2>2 DEF Spaced
  <1>11. LogShort'
    BY <1>1, <1>2, <1>5, <1>6 DEF IInv, LogShort
  <1>12. QED
    BY <1>4, <1>7, <1>8, <1>9, <1>10, <1>11 DEF IInv

\* Refusing a request only prunes the log.
LEMMA RejectKeepsIInv ==
    ASSUME IInv, NEW c \in Clients, Reject(c)
    PROVE  IInv'
  <1> DEFINE a == admitted[c]
             p == Pruned(c, log[c])
  <1>1. /\ now' = now /\ admitted' = admitted /\ a \in Seq(Nat)
        /\ log' = [log EXCEPT ![c] = p]
    BY DEF IInv, Typing, Reject
  <1>2. /\ p \in Seq(Nat) /\ Len(p) <= Len(a) /\ Len(p) <= MaxRequests[c]
        /\ \A j \in 1..Len(p) : p[j] = a[Len(a) - Len(p) + j]
        /\ \A i \in 1..Len(a) : (now - a[i] > Window[c]) <=> (i <= Len(a) - Len(p))
    BY PrunedIsRecent
  <1> HIDE DEF p
  <1>3. log'[c] = p /\ \A d \in Clients \ {c} : log'[d] = log[d]
    BY <1>1 DEF IInv, Typing
  <1>4. Typing'
    BY <1>1, <1>2 DEF IInv, Typing, Reject
  <1>5. LogIsSuffix'
    <2> SUFFICES ASSUME NEW d \in Clients
                 PROVE  /\ Len(log'[d]) <= Len(admitted'[d])
                        /\ \A j \in 1..Len(log'[d]) :
                             log'[d][j] = admitted'[d][Len(admitted'[d]) - Len(log'[d]) + j]
      BY DEF LogIsSuffix
    <2>1. admitted'[d] = admitted[d]
      BY <1>1
    <2>2. CASE d = c
      <3>1. log'[d] = p /\ admitted'[d] = a
        BY <1>3, <2>1, <2>2
      <3> HIDE DEF a
      <3>2. QED
        BY <1>2, <3>1
    <2>3. CASE d # c
      <3>1. log'[d] = log[d]
        BY <1>3, <2>3
      <3>2. /\ Len(log[d]) <= Len(admitted[d])
            /\ \A j \in 1..Len(log[d]) :
                 log[d][j] = admitted[d][Len(admitted[d]) - Len(log[d]) + j]
        BY DEF IInv, LogIsSuffix
      <3>3. QED
        BY <2>1, <3>1, <3>2
    <2>4. QED
      BY <2>2, <2>3
  <1>6. ForgottenExpired'
    <2>1. \A i \in 1..(Len(a) - Len(p)) : now - a[i] > Window[c]
      BY <1>1, <1>2
    <2>2. QED
      BY <1>1, <1>3, <2>1 DEF IInv, ForgottenExpired
  <1>7. LogShort'
    BY <1>2, <1>3 DEF IInv, LogShort
  <1>8. (Ordered /\ Spaced)'
    BY <1>1 DEF IInv, Ordered, Spaced
  <1>9. QED
    BY <1>4, <1>5, <1>6, <1>7, <1>8 DEF IInv

\* Time passing expires more and un-expires nothing.
LEMMA TickKeepsIInv ==
    ASSUME IInv, Tick
    PROVE  IInv'
  <1>1. now \in Nat /\ now' = now + 1 /\ now' \in 0..MaxTime
        /\ admitted' = admitted /\ log' = log /\ answer' = answer
    BY DEF IInv, Typing, Tick
  <1>2. \A c \in Clients : \A i \in 1..Len(admitted[c]) : admitted[c][i] \in Nat
    BY DEF IInv, Typing
  <1>3. \A c \in Clients : Len(log[c]) \in Nat /\ Len(admitted[c]) \in Nat
    BY DEF IInv, Typing
  <1>4. Typing'
    BY <1>1 DEF IInv, Typing
  <1>5. Ordered'
    BY <1>1, <1>2 DEF IInv, Ordered
  <1>6. ForgottenExpired'
    <2> SUFFICES ASSUME NEW c \in Clients, NEW i \in 1..(Len(admitted[c]) - Len(log[c]))
                 PROVE  now' - admitted[c][i] > Window[c]
      BY <1>1 DEF ForgottenExpired
    <2>1. i \in 1..Len(admitted[c])
      BY <1>3
    <2>2. now - admitted[c][i] > Window[c] /\ admitted[c][i] \in Nat
      BY <1>2, <2>1 DEF IInv, ForgottenExpired
    <2> DEFINE at == admitted[c][i]
    <2> HIDE DEF at
    <2>3. at \in Nat /\ Window[c] \in Nat /\ now - at > Window[c]
      BY <2>2 DEF at
    <2>4. now' - at > Window[c]
      BY <1>1, <2>3
    <2>5. QED
      BY <2>4 DEF at
  <1>7. (LogIsSuffix /\ Spaced /\ LogShort)'
    BY <1>1 DEF IInv, LogIsSuffix, Spaced, LogShort
  <1>8. QED
    BY <1>4, <1>5, <1>6, <1>7 DEF IInv

\* A restart forgets log and history alike.
LEMMA RestartKeepsIInv ==
    ASSUME IInv, Restart
    PROVE  IInv'
  <1>1. /\ now' = now
        /\ \A c \in Clients : log'[c] = <<>> /\ admitted'[c] = <<>>
    BY DEF Restart
  <1>2. Typing'
    BY DEF IInv, Typing, Restart
  <1>3. QED
    BY <1>1, <1>2
    DEF IInv, Typing, Ordered, LogIsSuffix, ForgottenExpired, Spaced, LogShort

\* No step of the limiter breaks the invariant.
LEMMA StepKeepsIInv ==
  ASSUME IInv, [Next]_vars
  PROVE  IInv'
  <1>1. CASE UNCHANGED vars
    BY <1>1 DEF vars, IInv, Typing, Ordered, LogIsSuffix, ForgottenExpired, Spaced, LogShort
  <1>2. ASSUME NEW c \in Clients, Check(c)
        PROVE  IInv'
    BY <1>2, AdmitKeepsIInv, RejectKeepsIInv DEF Check
  <1>3. CASE Tick
    BY <1>3, TickKeepsIInv
  <1>4. CASE Restart
    BY <1>4, RestartKeepsIInv
  <1> QED
    BY <1>1, <1>2, <1>3, <1>4 DEF Next


\* IInv is an invariant.
THEOREM LimiterInvariance == Spec => []IInv
  <1>1. IInv /\ [Next]_vars => IInv'
    BY StepKeepsIInv
  <1> QED
    BY InitIInv, <1>1, PTL DEF Spec

-----------------------------------------------------------------------------
(* What follows from it *)

\* The limiter's state is well typed: its timestamps are in the past and its log is no
\* longer than the limit.
THEOREM RateLimiterTypeCorrect == Spec => []TypeOK
  <1>1. ASSUME IInv PROVE TypeOK
    <2>1. ASSUME NEW c \in Clients
          PROVE  admitted[c] \in Seq(0..now) /\ log[c] \in Seq(0..now)
      <3>1. now \in Nat /\ admitted[c] \in Seq(Nat) /\ log[c] \in Seq(Nat)
        BY <1>1 DEF IInv, Typing
      <3>2. \A i \in 1..Len(admitted[c]) : admitted[c][i] \in 0..now
        BY <1>1, <3>1 DEF IInv, Ordered
      <3>3. \A j \in 1..Len(log[c]) : log[c][j] \in 0..now
        <4> TAKE j \in 1..Len(log[c])
        <4>1. Len(admitted[c]) - Len(log[c]) + j \in 1..Len(admitted[c])
          <5>1. Len(admitted[c]) \in Nat /\ Len(log[c]) \in Nat
            BY <3>1
          <5>2. Len(log[c]) <= Len(admitted[c])
            BY <1>1 DEF IInv, LogIsSuffix
          <5> DEFINE k == Len(admitted[c])
                     h == Len(log[c])
          <5> HIDE DEF k, h
          <5>3. k \in Nat /\ h \in Nat /\ h <= k /\ j \in 1..h
            BY <5>1, <5>2 DEF k, h
          <5>4. k - h + j \in 1..k
            BY <5>3
          <5>5. QED
            BY <5>4 DEF k, h
        <4>2. QED
          BY <1>1, <3>2, <4>1 DEF IInv, LogIsSuffix
      <3>4. ASSUME NEW s \in Seq(Nat), \A i \in 1..Len(s) : s[i] \in 0..now
            PROVE  s \in Seq(0..now)
        <4>1. s = [i \in 1..Len(s) |-> s[i]] /\ Len(s) \in Nat
          BY <3>4
        <4>2. s \in [1..Len(s) -> 0..now]
          BY <3>4, <4>1
        <4>3. s \in UNION {[1..n -> 0..now] : n \in Nat}
          BY <4>1, <4>2
        <4>4. Seq(0..now) = UNION {[1..n -> 0..now] : n \in Nat}
          BY SeqDef, Zenon
        <4>5. QED
          BY <4>3, <4>4, Zenon
      <3>5. QED
        BY <3>1, <3>2, <3>3, <3>4
    <2>2. QED
      BY <1>1, <2>1 DEF IInv, Typing, LogShort, TypeOK
  <1>2. QED
    BY <1>1, LimiterInvariance, PTL

\* No closed window holds more than MaxRequests admitted requests of a client, although
\* the limiter forgets what has expired.
THEOREM WindowBoundHolds == Spec => []WindowBound
  <1>1. ASSUME IInv PROVE WindowBound
    <2> SUFFICES ASSUME NEW c \in Clients, NEW t \in 0..now
                 PROVE  Cardinality(Promise!Recent(c, t)) <= MaxRequests[c]
      BY SameCardinality DEF WindowBound, Promise!WindowBound
    <2> DEFINE a == admitted[c]
               W == Promise!Recent(c, t)
    <2>1. t \in Nat /\ a \in Seq(Nat)
      BY <1>1 DEF IInv, Typing
    <2>2. W = {i \in 1..Len(a) : t - a[i] <= Window[c] /\ a[i] <= t}
      BY <2>1 DEF Promise!Recent
    <2>3. /\ \A i, j \in 1..Len(a) : i <= j => a[i] <= a[j]
          /\ \A i \in 1..Len(a) : i + MaxRequests[c] <= Len(a) => a[i + MaxRequests[c]] - a[i] > Window[c]
      BY <1>1 DEF IInv, Ordered, Spaced
    <2> HIDE DEF a, W
    <2>4. CASE W = {}
      BY <2>4, FS_EmptySet DEF W
    <2>5. CASE W # {}
      <3>1. PICK k \in W : \A i \in W : k <= i
        <4>1. W \subseteq Nat
          BY <2>1, <2>2
        <4>2. QED
          BY <2>5, <4>1, SmallestElement
      <3>2. W \subseteq k..(k + MaxRequests[c] - 1)
        <4> SUFFICES ASSUME NEW i \in W, i >= k + MaxRequests[c]
                     PROVE  FALSE
          BY <2>1, <2>2, <3>1
        <4>1. i \in 1..Len(a) /\ k \in 1..Len(a) /\ k + MaxRequests[c] \in 1..Len(a)
          BY <2>1, <2>2, <3>1
        <4>2. a[k + MaxRequests[c]] - a[k] > Window[c] /\ a[k + MaxRequests[c]] <= a[i]
          BY <2>3, <4>1
        <4>3. t - a[k] <= Window[c] /\ a[i] <= t
          BY <2>2, <3>1
        <4>4. a[k] \in Nat /\ a[i] \in Nat /\ a[k + MaxRequests[c]] \in Nat
          BY <2>1, <4>1
        <4>5. QED
          BY <2>1, <4>2, <4>3, <4>4
      <3>3. k \in Nat
        BY <2>1, <2>2, <3>1
      <3>4. /\ IsFiniteSet(k..(k + MaxRequests[c] - 1))
            /\ Cardinality(k..(k + MaxRequests[c] - 1)) = MaxRequests[c]
        <4>1. k \in Int /\ k + MaxRequests[c] - 1 \in Int
          BY <3>3
        <4>2. /\ IsFiniteSet(k..(k + MaxRequests[c] - 1))
              /\ Cardinality(k..(k + MaxRequests[c] - 1)) =
                    IF k > k + MaxRequests[c] - 1 THEN 0 ELSE (k + MaxRequests[c] - 1) - k + 1
          BY <4>1, FS_Interval
        <4>3. QED
          BY <3>3, <4>2
      <3>5. QED
        BY <3>2, <3>4, FS_Subset DEF W
    <2>6. QED
      BY <2>4, <2>5
  <1>2. QED
    BY <1>1, LimiterInvariance, PTL

\* The number of recent requests is the length of the pruned log.
LEMMA RecentIsPrunedLength ==
    ASSUME IInv, NEW c \in Clients
    PROVE  Cardinality(Promise!Recent(c, now)) = Len(Pruned(c, log[c]))
  <1> DEFINE a == admitted[c]
             m == Len(Pruned(c, log[c]))
             n == Len(admitted[c])
  <1>1. /\ now \in Nat /\ a \in Seq(Nat) /\ n \in Nat /\ m \in Nat /\ m <= n
        /\ \A i \in 1..n : (now - a[i] > Window[c]) <=> (i <= n - m)
        /\ \A i \in 1..n : a[i] <= now
    <2>1. now \in Nat /\ a \in Seq(Nat) /\ n \in Nat /\ \A i \in 1..n : a[i] <= now
      BY DEF IInv, Typing, Ordered
    <2>2. /\ Pruned(c, log[c]) \in Seq(Nat) /\ m <= n
          /\ \A i \in 1..n : (now - a[i] > Window[c]) <=> (i <= n - m)
      BY PrunedIsRecent
    <2>3. QED
      BY <2>1, <2>2
  <1>2. Promise!Recent(c, now) = (n - m + 1)..n
    <2>1. Promise!Recent(c, now) = {i \in 1..n : now - a[i] <= Window[c] /\ a[i] <= now}
      BY <1>1 DEF Promise!Recent
    <2> HIDE DEF m
    <2>2. \A i \in 1..n : a[i] \in Nat
      BY <1>1
    <2> HIDE DEF a, n
    <2>3. QED
      BY <1>1, <2>1, <2>2
  <1> HIDE DEF m, n
  <1>3. n - m + 1 \in Int /\ n \in Int
    BY <1>1
  <1>4. Cardinality((n - m + 1)..n) = IF n - m + 1 > n THEN 0 ELSE n - (n - m + 1) + 1
    BY <1>3, FS_Interval
  <1>5. Cardinality((n - m + 1)..n) = m
    BY <1>1, <1>4
  <1>6. QED
    BY <1>2, <1>5 DEF m

\* The limiter implements the specification that remembers every admitted request: it
\* admits and refuses exactly when that one does.
THEOREM Refinement == Spec => ImplementsSlidingWindow
  <1>1. Init => Promise!Init
    BY DEF Init, NoAnswer, Promise!Init
  <1>2. IInv /\ [Next]_vars => [Promise!Next]_(Promise!vars)
    <2> SUFFICES ASSUME IInv, [Next]_vars
                 PROVE  [Promise!Next]_(Promise!vars)
      OBVIOUS
    <2>1. ASSUME NEW c \in Clients, Admit(c)
          PROVE  Promise!Accept(c)
      BY <2>1, RecentIsPrunedLength, SameCardinality DEF Admit, Promise!Accept
    <2>2. ASSUME NEW c \in Clients, Reject(c)
          PROVE  Promise!Refuse(c)
      BY <2>2, RecentIsPrunedLength, SameCardinality DEF Reject, Promise!Refuse
    <2>3. CASE Tick
      BY <2>3 DEF Tick, Promise!Tick, Promise!Next
    <2>4. CASE UNCHANGED vars
      BY <2>4 DEF vars, Promise!vars
    <2>5. CASE Restart
      BY <2>5 DEF Restart, NoAnswer, Promise!Restart, Promise!Next
    <2>6. QED
      BY <2>1, <2>2, <2>3, <2>4, <2>5 DEF Next, Check, Promise!Next
  <1>3. QED
    BY <1>1, <1>2, LimiterInvariance, PTL DEF Spec, ImplementsSlidingWindow, Promise!Spec

HIDE LimiterAssumption

-----------------------------------------------------------------------------
(* Access: what its invariants need *)

\* what the cookie says is what issue_session put in
CookieInv == cookie # Nobody => cookie.expiry = WholeSeconds(cookie.issued) + MaxAge

\* what the dependencies solved so far have found out about the user
UserInv ==
    /\ Solved("user") => req.user \in Users
    /\ Solved("role") => req.user \in MayWrite

\* a request past its limiter has an entry there that is no older than itself
ChargedInv ==
    Solved("limit") =>
        /\ Budget[req.route] \in Clients
        /\ \E i \in DOMAIN admitted[Budget[req.route]] :
             admitted[Budget[req.route]][i] \in req.since..now

AIInv == AccessTypeOK /\ CookieInv /\ UserInv /\ ChargedInv /\ SessionsEnd /\ NoSessionCutShort

-----------------------------------------------------------------------------
(* Routes and their dependencies *)

LEMMA Ages == MaxAge \in Nat /\ Second \in Nat /\ Second >= 1 /\ MaxAge >= Second
  BY AccessAssumption

LEMMA StillLater ==
  ASSUME NEW a \in Nat, NEW b \in Nat, a <= b, NEW i \in Nat, NEW x \in Nat, NEW y \in Nat, a - i > x - y
  PROVE  b - i > x - y
  OBVIOUS

LEMMA RoutesAre == Routes = {"page", "assess", "report", "login"} /\ "none" \notin Routes
  BY DEF Routes, Checks

LEMMA NextBound ==
  ASSUME AccessTypeOK, req.route # "none"
  PROVE  req.next \in Nat /\ req.next >= 1 /\ req.next <= Len(Checks[req.route]) + 1
  <1>1. req.next \in 1..4 /\ req.next <= Len(Checks[req.route]) + 1
    BY DEF AccessTypeOK
  <1> QED
    BY <1>1

\* The limiters are asked by the routes that have one.
LEMMA LimitedRoute ==
  ASSUME AccessTypeOK, Checking("limit") \/ Solved("limit")
  PROVE  req.route \in {"assess", "report", "login"} /\ Budget[req.route] \in Clients
  <1>1. req.route \in Routes
    BY DEF AccessTypeOK, Checking, Solved
  <1>2. req.route # "page"
    <2> SUFFICES ASSUME req.route = "page" PROVE FALSE
      OBVIOUS
    <2>1. Checks[req.route] = <<"user">>
      BY DEF Checks
    <2>2. req.next \in 1..2
      BY <2>1, NextBound
    <2> QED
      BY <2>1, <2>2 DEF Checking, Solved
  <1> QED
    BY <1>1, <1>2, RoutesAre, AccessAssumption DEF Budget

\* Going on solves the dependency that was asked and no other.
LEMMA PassSolves ==
  ASSUME AccessTypeOK, NEW dependency, Checking(dependency),
         req'.route = req.route, req'.next = req.next + 1
  PROVE  \A d : Solved(d)' <=> Solved(d) \/ d = dependency
  <1>1. req.next \in 1..4 /\ req.route \in Routes /\ Checks[req.route][req.next] = dependency
    BY DEF AccessTypeOK, Checking
  <1>2. ASSUME NEW i \in 1..req.next PROVE i = req.next \/ i \in 1..(req.next - 1)
    BY <1>1
  <1>3. \A i \in 1..(req.next - 1) : i \in 1..req.next
    BY <1>1
  <1>4. req.next \in 1..req.next /\ req'.next - 1 = req.next
    BY <1>1
  <1>5. req.route # "none"
    BY DEF Checking
  <1> QED
    BY <1>1, <1>2, <1>3, <1>4, <1>5 DEF Solved

\* The user is known before the role is looked at, and both before the limiter of /assess.
LEMMA Order ==
  ASSUME AccessTypeOK
  PROVE  /\ Checking("user") => req.next = 1
         /\ Checking("role") => Solved("user")
         /\ Solved("limit") /\ req.route \in {"assess", "report"} => Solved("user")
         /\ Solved("limit") /\ req.route = "assess" => Solved("role")
         /\ req.route = "login" => ~Solved("user")
         /\ Running /\ req.route # "page" => Solved("limit")
  <1>1. CASE req.route = "none"
    BY <1>1 DEF Checking, Solved, Running
  <1>2. CASE req.route = "page"
    <2>1. Checks[req.route] = <<"user">>
      BY <1>2 DEF Checks
    <2>2. req.next \in 1..2
      BY <1>2, <2>1, NextBound
    <2> QED
      BY <1>2, <2>1, <2>2 DEF Checking, Solved, Running
  <1>3. CASE req.route = "assess"
    <2>1. Checks[req.route] = <<"user", "role", "limit">>
      BY <1>3 DEF Checks
    <2>2. req.next \in 1..4
      BY <1>3, <2>1, NextBound
    <2> QED
      BY <1>3, <2>1, <2>2 DEF Checking, Solved, Running
  <1>4. CASE req.route = "report"
    <2>1. Checks[req.route] = <<"user", "limit", "role">>
      BY <1>4 DEF Checks
    <2>2. req.next \in 1..4
      BY <1>4, <2>1, NextBound
    <2> QED
      BY <1>4, <2>1, <2>2 DEF Checking, Solved, Running
  <1>5. CASE req.route = "login"
    <2>1. Checks[req.route] = <<"limit">>
      BY <1>5 DEF Checks
    <2>2. req.next \in 1..2
      BY <1>5, <2>1, NextBound
    <2> QED
      BY <1>5, <2>1, <2>2 DEF Checking, Solved, Running
  <1> QED
    BY <1>1, <1>2, <1>3, <1>4, <1>5, RoutesAre DEF AccessTypeOK

\* A request that has been answered, or has just come in, has solved nothing.
LEMMA NothingSolved ==
  ASSUME req.route = "none" \/ req.next = 1
  PROVE  \A d : ~Solved(d)
  BY DEF Solved

\* int() takes off less than a second.
LEMMA WholeSecondsBelow ==
  ASSUME NEW t \in Nat
  PROVE  WholeSeconds(t) \in Nat /\ WholeSeconds(t) <= t /\ t < WholeSeconds(t) + Second
  <1>1. t % Second \in 0..(Second - 1)
    BY AccessAssumption
  <1>2. t % Second <= t
    BY AccessAssumption
  <1> QED
    BY <1>1, <1>2, AccessAssumption DEF WholeSeconds

-----------------------------------------------------------------------------
(* The limiters do not know what they are asked for *)

LEMMA StepIsLimiterStep ==
  ASSUME AccessTypeOK, [AccessNext]_accessVars
  PROVE  [Next]_vars
  <1>1. CASE CheckLimit
    <2>1. Budget[req.route] \in Clients
      BY <1>1, LimitedRoute DEF CheckLimit
    <2> QED
      BY <1>1, <2>1 DEF CheckLimit, Next, Check
  <1>2. CASE \E c \in Clients : Others(c)
    BY <1>2 DEF Others, Next
  <1>3. CASE ServerRestarts
    BY <1>3 DEF ServerRestarts, Next
  <1>4. CASE Tick
    BY <1>4 DEF Next
  <1>5. CASE UNCHANGED vars
    BY <1>5
  <1> QED
    BY <1>1, <1>2, <1>3, <1>4, <1>5
    DEF AccessNext, accessVars, Arrive, CheckUser, CheckRole, Serve, Login, Forget, RemoveUser

-----------------------------------------------------------------------------
(* The invariant *)

\* What has been let through stays on record while the process lives, and time goes on.
Grows ==
    /\ now' \in Nat /\ now <= now'
    /\ \A c \in Clients : \A i \in DOMAIN admitted[c] :
         i \in DOMAIN admitted'[c] /\ admitted'[c][i] = admitted[c][i]

LEMMA Clock == IInv => now \in Nat /\ admitted \in [Clients -> Seq(Nat)]
  <1>1. ASSUME NEW n \in 0..MaxTime PROVE n \in Nat
    BY LimiterAssumption
  <1> QED
    BY <1>1 DEF IInv, Typing

LEMMA CheckGrows ==
  ASSUME IInv, NEW c \in Clients, Check(c)
  PROVE  Grows /\ now' = now
  <1>1. now \in Nat /\ admitted \in [Clients -> Seq(Nat)]
    BY DEF IInv, Typing
  <1>2. CASE Admit(c)
    <2>1. \A i \in DOMAIN admitted[c] : i \in DOMAIN Append(admitted[c], now) /\ Append(admitted[c], now)[i] = admitted[c][i]
      BY <1>1
    <2> QED
      BY <1>1, <1>2, <2>1 DEF Admit, Grows
  <1>3. CASE Reject(c)
    BY <1>1, <1>3 DEF Reject, Grows
  <1> QED
    BY <1>2, <1>3 DEF Check

LEMMA TickGrows == ASSUME IInv, Tick PROVE Grows
  BY DEF IInv, Typing, Tick, Grows

\* What others do does not change what is known of this browser and its request.
LEMMA OthersKeep ==
  ASSUME AIInv, IInv, Grows, UNCHANGED <<key, cookie, req>>, users' \subseteq users
  PROVE  AIInv'
  <1>1. now \in Nat /\ now' \in Nat /\ now <= now'
    BY DEF IInv, Typing, Grows
  <1>2. AccessTypeOK'
    <2>1. cookie # Nobody => cookie.issued <= now'
      BY <1>1 DEF AIInv, AccessTypeOK, Cookies
    <2>2. req.since <= now'
      BY <1>1 DEF AIInv, AccessTypeOK
    <2> QED
      BY <2>1, <2>2 DEF AIInv, AccessTypeOK
  <1>3. CookieInv' /\ UserInv' /\ SessionsEnd'
    BY DEF AIInv, CookieInv, UserInv, SessionsEnd, Solved, WholeSeconds
  <1>4. ChargedInv'
    <2> SUFFICES ASSUME Solved("limit") PROVE ChargedInv'
      BY DEF ChargedInv, Solved
    <2>1. PICK i \in DOMAIN admitted[Budget[req.route]] :
             admitted[Budget[req.route]][i] \in req.since..now
      BY DEF AIInv, ChargedInv
    <2>2. Budget[req.route] \in Clients
      BY DEF AIInv, ChargedInv
    <2>3. req.since \in Nat /\ req.route \in Routes
      BY DEF AIInv, AccessTypeOK, Solved
    <2> QED
      BY <1>1, <2>1, <2>2, <2>3 DEF ChargedInv, Grows
  <1>5. NoSessionCutShort'
    <2> SUFFICES ASSUME req.answer = "redirect to login", cookie # Nobody, cookie.key = key, cookie.user \in users'
                 PROVE  now' - cookie.issued > MaxAge - Second
      BY DEF NoSessionCutShort
    <2>1. now - cookie.issued > MaxAge - Second
      BY DEF AIInv, NoSessionCutShort
    <2>2. cookie.issued \in Nat
      BY DEF AIInv, AccessTypeOK, Cookies
    <2> QED
      BY <1>1, <2>1, <2>2, Ages, StillLater
  <1> QED
    BY <1>2, <1>3, <1>4, <1>5 DEF AIInv

\* An answer ends the request, and with it everything it has to be trusted for.
LEMMA AnswerKeeps ==
  ASSUME AIInv, IInv, now' = now,
         NEW outcome \in Outcomes,
         Answer(outcome), NoSessionCutShort',
         key' \in Keys \cup {Unset}, users' \subseteq Users,
         cookie' \in {cookie, Nobody}
  PROVE  AIInv'
  <1>1. req'.route = "none" /\ req'.next = 1 /\ req'.since = 0 /\ req'.user = Nobody /\ req'.answer = outcome
    BY DEF Answer, Answered
  <1>2. \A d : ~Solved(d)'
    BY <1>1 DEF Solved
  <1>3. now \in Nat
    BY Clock
  <1>4. req' \in [route: Routes \cup {"none"}, next: 1..4, user: Users \cup {Nobody}, since: Nat,
                  answer: Outcomes]
    <2>1. Answered(outcome) \in [route: Routes \cup {"none"}, next: 1..4, user: Users \cup {Nobody},
                                 since: Nat, answer: Outcomes]
      BY DEF Answered
    <2> QED
      BY <2>1 DEF Answer
  <1>5. AccessTypeOK'
    <2>1. cookie' # Nobody => cookie' = cookie
      OBVIOUS
    <2>2. cookie' \in Cookies \cup {Nobody} /\ (cookie' # Nobody => cookie'.issued <= now')
      BY <2>1 DEF AIInv, AccessTypeOK
    <2> QED
      BY <1>1, <1>3, <1>4, <2>2 DEF AccessTypeOK
  <1>6. CookieInv'
    BY DEF AIInv, CookieInv, WholeSeconds
  <1> QED
    BY <1>2, <1>5, <1>6 DEF AIInv, UserInv, ChargedInv, SessionsEnd

LEMMA InitAIInv == AccessInit => AIInv
  <1> SUFFICES ASSUME AccessInit PROVE AIInv
    OBVIOUS
  <1>1. now = 0 /\ req = Answered("none") /\ cookie = Nobody
    BY DEF AccessInit, Init
  <1>2. \A d : ~Solved(d)
    BY <1>1 DEF Answered, Solved
  <1>3. AccessTypeOK
    <2>1. Answered("none") \in [route: Routes \cup {"none"}, next: 1..4, user: Users \cup {Nobody},
                                since: Nat, answer: Outcomes]
      BY DEF Answered, Outcomes
    <2>2. Answered("none").route = "none" /\ Answered("none").since = 0
      BY DEF Answered
    <2> QED
      BY <1>1, <2>1, <2>2 DEF AccessInit, AccessTypeOK
  <1> QED
    BY <1>1, <1>2, <1>3 DEF AIInv, CookieInv, UserInv, ChargedInv, SessionsEnd, NoSessionCutShort, Answered

LEMMA ArriveKeeps ==
  ASSUME AIInv, IInv, NEW r \in Routes, Arrive(r)
  PROVE  AIInv'
  <1>1. now \in Nat /\ now' = now
    BY Clock DEF Arrive, vars
  <1>2. /\ req' = [route |-> r, next |-> 1, user |-> Nobody, since |-> now, answer |-> "none"]
    BY DEF Arrive, Answered
  <1>3. \A d : ~Solved(d)'
    BY <1>2 DEF Solved
  <1>4. Len(Checks[r]) \in Nat
    BY RoutesAre DEF Checks
  <1>5. AccessTypeOK'
    <2>1. req' \in [route: Routes \cup {"none"}, next: 1..4, user: Users \cup {Nobody},
                    since: Nat, answer: Outcomes]
      BY <1>1, <1>2 DEF Outcomes
    <2>2. req'.route = r /\ req'.next = 1 /\ req'.since = now
      BY <1>2
    <2>3. 1 <= Len(Checks[r]) + 1
      BY <1>4
    <2> QED
      BY <1>1, <2>1, <2>2, <2>3 DEF AIInv, AccessTypeOK, Arrive, server
  <1>6. CookieInv' /\ NoSessionCutShort'
    <2>1. req'.answer = "none"
      BY <1>2
    <2>2. cookie' = cookie
      BY DEF Arrive
    <2> QED
      BY <2>1, <2>2 DEF AIInv, CookieInv, NoSessionCutShort, WholeSeconds
  <1> QED
    BY <1>3, <1>5, <1>6 DEF AIInv, UserInv, ChargedInv, SessionsEnd

\* The types, when a check is passed.
LEMMA PassTypes ==
  ASSUME AIInv, IInv, NEW dependency, Checking(dependency), NEW u \in Users \cup {Nobody},
         req' = [req EXCEPT !.next = @ + 1, !.user = u],
         now' = now, UNCHANGED <<server, cookie>>
  PROVE  AccessTypeOK' /\ CookieInv' /\ NoSessionCutShort'
  <1>1. req.next \in 1..4 /\ req.route \in Routes /\ req.next <= Len(Checks[req.route])
    BY DEF AIInv, AccessTypeOK, Checking
  <1>2. Len(Checks[req.route]) \in 1..3
    BY <1>1, RoutesAre DEF Checks
  <1>3. req.next + 1 \in 1..4
    <2>1. PICK n \in 1..3 : n = Len(Checks[req.route])
      BY <1>2
    <2>2. req.next <= n
      BY <1>1, <2>1
    <2> QED
      BY <1>1, <2>2
  <1>4. AccessTypeOK'
    <2>1. req' \in [route: Routes \cup {"none"}, next: 1..4, user: Users \cup {Nobody},
                    since: Nat, answer: Outcomes]
      BY <1>3 DEF AIInv, AccessTypeOK
    <2>2. req'.route = req.route /\ req'.next = req.next + 1 /\ req'.since = req.since
      BY DEF AIInv, AccessTypeOK
    <2>3. req'.next <= Len(Checks[req'.route]) + 1
      BY <1>1, <1>2, <2>2
    <2> QED
      BY <2>1, <2>2, <2>3 DEF AIInv, AccessTypeOK, server
  <1>5. req'.answer = req.answer
    BY DEF AIInv, AccessTypeOK
  <1> QED
    BY <1>4, <1>5 DEF AIInv, CookieInv, NoSessionCutShort, server, WholeSeconds

\* The history of the shared limiter and the clock are as they were.
LEMMA ChargedStays ==
  ASSUME AIInv, UNCHANGED <<admitted, now>>, req'.route = req.route, req'.since = req.since,
         Solved("limit")
  PROVE  ChargedInv'
  BY DEF AIInv, ChargedInv

LEMMA CheckUserKeeps ==
  ASSUME AIInv, IInv, CheckUser
  PROVE  AIInv'
  <1> DEFINE u == ReadSession
  <1>1. now \in Nat /\ UNCHANGED <<now, admitted, key, users, cookie>> /\ Checking("user")
    BY Clock DEF CheckUser, vars, server
  <1>2. CASE key = Unset /\ cookie # Nobody
    <2>1. Answer("500") /\ "500" \in Outcomes
      BY <1>2 DEF CheckUser, Outcomes
    <2>2. req'.answer = "500"
      BY <2>1 DEF Answer, Answered
    <2>3. NoSessionCutShort'
      BY <2>2 DEF NoSessionCutShort
    <2>4. key' \in Keys \cup {Unset} /\ users' \subseteq Users /\ cookie' \in {cookie, Nobody}
      BY <1>1 DEF AIInv, AccessTypeOK
    <2> QED
      BY <1>1, <2>1, <2>3, <2>4, AnswerKeeps
  <1>3. CASE ~(key = Unset /\ cookie # Nobody) /\ u \in users
    <2>1. u \in Users /\ u # Nobody
      BY <1>3, AccessAssumption DEF AIInv, AccessTypeOK
    <2>2. cookie # Nobody /\ cookie.key = key /\ key # Unset /\ ~(cookie.expiry < now) /\ u = cookie.user
      BY <1>3, <2>1 DEF ReadSession
    <2>3. req' = [req EXCEPT !.next = @ + 1, !.user = u]
      BY <1>3 DEF CheckUser
    <2> HIDE DEF u
    <2>4. AccessTypeOK' /\ CookieInv' /\ NoSessionCutShort'
      BY <1>1, <2>1, <2>3, PassTypes DEF server
    <2>5. req'.route = req.route /\ req'.next = req.next + 1 /\ req'.user = u /\ req'.since = req.since
      BY <2>3 DEF AIInv, AccessTypeOK
    <2>6. \A d : Solved(d)' <=> Solved(d) \/ d = "user"
      BY <1>1, <2>5, PassSolves DEF AIInv
    <2>7. cookie.issued \in Nat /\ cookie.expiry <= cookie.issued + MaxAge /\ req.since \in Nat /\ req.since <= now
      <3>1. cookie.issued \in Nat /\ req.since \in Nat /\ req.since <= now
        BY <2>2 DEF AIInv, AccessTypeOK, Cookies
      <3> QED
        BY <2>2, <3>1, WholeSecondsBelow, AccessAssumption DEF AIInv, CookieInv
    <2>8. req.since <= cookie.issued + MaxAge
      <3>1. cookie.expiry \in Nat
        BY <2>2 DEF AIInv, AccessTypeOK, Cookies
      <3> QED
        BY <1>1, <2>2, <2>7, <3>1, AccessAssumption
    <2>9. SessionsEnd'
      BY <1>1, <2>2, <2>5, <2>8 DEF SessionsEnd
    <2>10. ~Solved("limit") \/ Solved("limit")
      OBVIOUS
    <2>11. ChargedInv'
      BY <1>1, <2>5, <2>6, ChargedStays DEF ChargedInv
    <2>12. ~Solved("role")
      BY <1>1, Order DEF AIInv, Checking, Solved
    <2> QED
      BY <2>1, <2>4, <2>5, <2>6, <2>9, <2>11, <2>12 DEF AIInv, UserInv
  <1>4. CASE ~(key = Unset /\ cookie # Nobody) /\ u \notin users
    <2>1. Answer("redirect to login")
      BY <1>4 DEF CheckUser
    <2>2. NoSessionCutShort'
      <3> SUFFICES ASSUME cookie # Nobody, cookie.key = key, cookie.user \in users
                   PROVE  now - cookie.issued > MaxAge - Second
        BY <1>1 DEF NoSessionCutShort
      <3>1. cookie.expiry < now
        BY <1>4 DEF ReadSession
      <3>2. cookie.issued \in Nat /\ cookie.expiry = WholeSeconds(cookie.issued) + MaxAge
        BY DEF AIInv, AccessTypeOK, Cookies, CookieInv
      <3> QED
        BY <1>1, <3>1, <3>2, WholeSecondsBelow, AccessAssumption
    <2>3. key' \in Keys \cup {Unset} /\ users' \subseteq Users /\ cookie' \in {cookie, Nobody}
      BY <1>1 DEF AIInv, AccessTypeOK
    <2>4. "redirect to login" \in Outcomes
      BY DEF Outcomes
    <2> QED
      BY <1>1, <2>1, <2>2, <2>3, <2>4, AnswerKeeps
  <1> QED
    BY <1>2, <1>3, <1>4

\* Another answer than a redirect says nothing about the session.
LEMMA PlainAnswerKeeps ==
  ASSUME AIInv, IInv, now' = now, NEW outcome \in Outcomes, outcome # "redirect to login",
         Answer(outcome), key' \in Keys \cup {Unset}, UNCHANGED users, cookie' \in {cookie, Nobody}
  PROVE  AIInv'
  <1>1. req'.answer = outcome
    BY DEF Answer, Answered
  <1>2. NoSessionCutShort'
    BY <1>1 DEF NoSessionCutShort
  <1>3. users' \subseteq Users
    BY DEF AIInv, AccessTypeOK
  <1> QED
    BY <1>2, <1>3, AnswerKeeps

LEMMA SomeOutcomes == {"none", "served", "401", "403", "429", "500"} \subseteq Outcomes
  BY DEF Outcomes

\* A check that is passed once the user is known.
LEMMA PassKeeps ==
  ASSUME AIInv, IInv, NEW dependency \in {"role", "limit"}, Checking(dependency), Pass,
         now' = now, UNCHANGED <<server, cookie>>,
         dependency = "role" => req.user \in MayWrite,
         ChargedInv'
  PROVE  AIInv'
  <1>1. req' = [req EXCEPT !.next = @ + 1, !.user = req.user] /\ req.user \in Users \cup {Nobody}
    BY DEF Pass, AIInv, AccessTypeOK
  <1>2. AccessTypeOK' /\ CookieInv' /\ NoSessionCutShort'
    BY <1>1, PassTypes
  <1>3. req'.route = req.route /\ req'.next = req.next + 1 /\ req'.user = req.user /\ req'.since = req.since
    BY DEF Pass, AIInv, AccessTypeOK
  <1>4. \A d : Solved(d)' <=> Solved(d) \/ d = dependency
    BY <1>3, PassSolves DEF AIInv
  <1>5. SessionsEnd' /\ UserInv'
    BY <1>3, <1>4 DEF AIInv, SessionsEnd, UserInv, server
  <1> QED
    BY <1>2, <1>5 DEF AIInv

LEMMA CheckRoleKeeps ==
  ASSUME AIInv, IInv, CheckRole
  PROVE  AIInv'
  <1>1. UNCHANGED <<now, admitted, key, users, cookie>> /\ Checking("role")
    BY DEF CheckRole, vars, server
  <1>2. CASE req.user \in MayWrite
    <2>1. Pass
      BY <1>2 DEF CheckRole
    <2>2. req'.route = req.route /\ req'.next = req.next + 1 /\ req'.since = req.since
      BY <2>1 DEF Pass, AIInv, AccessTypeOK
    <2>3. \A d : Solved(d)' <=> Solved(d) \/ d = "role"
      BY <1>1, <2>2, PassSolves DEF AIInv
    <2>4. ChargedInv'
      BY <1>1, <2>2, <2>3, ChargedStays DEF ChargedInv
    <2> QED
      BY <1>1, <1>2, <2>1, <2>4, PassKeeps DEF server
  <1>3. CASE req.user \notin MayWrite
    <2>1. Answer("403")
      BY <1>3 DEF CheckRole
    <2> QED
      BY <1>1, <2>1, SomeOutcomes, PlainAnswerKeeps DEF AIInv, AccessTypeOK
  <1> QED
    BY <1>2, <1>3

LEMMA CheckLimitKeeps ==
  ASSUME AIInv, IInv, CheckLimit
  PROVE  AIInv'
  <1> DEFINE b == Budget[req.route]
  <1>1. UNCHANGED <<key, users, cookie>> /\ Checking("limit")
    BY DEF CheckLimit, server
  <1>2. b \in Clients
    BY <1>1, LimitedRoute DEF AIInv
  <1>3. now \in Nat /\ admitted \in [Clients -> Seq(Nat)]
    BY Clock
  <1>4. CASE Admit(b) /\ Pass
    <2>1. now' = now /\ admitted' = [admitted EXCEPT ![b] = Append(@, now)]
      BY <1>4 DEF Admit
    <2>2. req'.route = req.route /\ req'.next = req.next + 1 /\ req'.since = req.since
      BY <1>4 DEF Pass, AIInv, AccessTypeOK
    <2>3. req.since \in Nat /\ req.since <= now
      BY DEF AIInv, AccessTypeOK
    <2>4. ChargedInv'
      <3>1. admitted'[b] = Append(admitted[b], now)
        BY <1>2, <1>3, <2>1
      <3>2. Len(admitted[b]) + 1 \in DOMAIN admitted'[b] /\ admitted'[b][Len(admitted[b]) + 1] = now
        BY <1>2, <1>3, <3>1
      <3>3. now \in req.since..now
        BY <1>3, <2>3
      <3> QED
        BY <1>2, <2>1, <2>2, <3>2, <3>3 DEF ChargedInv
    <2> QED
      BY <1>1, <1>4, <2>1, <2>4, PassKeeps DEF server
  <1>5. CASE Reject(b) /\ Answer("429")
    <2>1. now' = now
      BY <1>5 DEF Reject
    <2> QED
      BY <1>1, <1>5, <2>1, SomeOutcomes, PlainAnswerKeeps DEF AIInv, AccessTypeOK
  <1> QED
    BY <1>4, <1>5 DEF CheckLimit

\* A cookie just issued.
LEMMA LoginKeeps ==
  ASSUME AIInv, IInv, Login
  PROVE  AIInv'
  <1>1. UNCHANGED <<now, admitted, key, users>>
    BY DEF Login, vars, server
  <1>2. key' \in Keys \cup {Unset}
    BY <1>1 DEF AIInv, AccessTypeOK
  <1>3. CASE (Answer("401") \/ Answer("500")) /\ UNCHANGED cookie
    BY <1>1, <1>2, <1>3, SomeOutcomes, PlainAnswerKeeps
  <1>4. ASSUME NEW u \in users, key # Unset, Answer("served"), cookie' = IssueSession(u)
        PROVE  AIInv'
    <2>1. now \in Nat
      BY Clock
    <2>2. key \in Keys /\ u \in Users
      BY <1>4 DEF AIInv, AccessTypeOK
    <2>3. cookie' = [user |-> u, expiry |-> WholeSeconds(now) + MaxAge, key |-> key, issued |-> now]
      BY <1>4 DEF IssueSession
    <2>4. WholeSeconds(now) + MaxAge \in Nat
      BY <2>1, WholeSecondsBelow, Ages
    <2>5. cookie' \in Cookies
      BY <2>1, <2>2, <2>3, <2>4 DEF Cookies
    <2>6. CookieInv'
      BY <1>1, <2>3 DEF CookieInv, WholeSeconds
    <2>7. req'.route = "none" /\ req'.since = 0 /\ req'.answer = "served"
      BY <1>4 DEF Answer, Answered
    <2>8. req' \in [route: Routes \cup {"none"}, next: 1..4, user: Users \cup {Nobody}, since: Nat,
                    answer: Outcomes]
      <3>1. Answered("served") \in [route: Routes \cup {"none"}, next: 1..4, user: Users \cup {Nobody},
                                    since: Nat, answer: Outcomes]
        BY SomeOutcomes DEF Answered
      <3> QED
        BY <1>4, <3>1 DEF Answer
    <2>9. AccessTypeOK'
      <3>1. cookie'.issued <= now'
        BY <1>1, <2>1, <2>3
      <3> QED
        BY <1>1, <1>2, <2>1, <2>5, <2>7, <2>8, <3>1 DEF AIInv, AccessTypeOK
    <2>10. \A d : ~Solved(d)'
      BY <2>7 DEF Solved
    <2> QED
      BY <2>6, <2>7, <2>9, <2>10 DEF AIInv, UserInv, ChargedInv, SessionsEnd, NoSessionCutShort
  <1> QED
    BY <1>3, <1>4 DEF Login

LEMMA StepKeepsAIInv ==
  ASSUME AIInv, IInv, [AccessNext]_accessVars
  PROVE  AIInv'
  <1>1. key' = key => key' \in Keys \cup {Unset}
    BY DEF AIInv, AccessTypeOK
  <1>2. CASE \E r \in Routes : Arrive(r)
    BY <1>2, ArriveKeeps
  <1>3. CASE CheckUser
    BY <1>3, CheckUserKeeps
  <1>4. CASE CheckRole
    BY <1>4, CheckRoleKeeps
  <1>5. CASE CheckLimit
    BY <1>5, CheckLimitKeeps
  <1>6. CASE Serve
    BY <1>1, <1>6, SomeOutcomes, PlainAnswerKeeps DEF Serve, vars, server
  <1>7. CASE Login
    BY <1>7, LoginKeeps
  <1>8. CASE Forget
    BY <1>1, <1>8, SomeOutcomes, PlainAnswerKeeps DEF Forget, vars, server
  <1>9. CASE \E c \in Clients : Others(c)
    <2>1. PICK c \in Clients : Others(c)
      BY <1>9
    <2> QED
      BY <2>1, CheckGrows, OthersKeep DEF Others, server
  <1>10. CASE \E u \in Users : RemoveUser(u)
    <2>1. UNCHANGED <<now, admitted, key, cookie, req>> /\ users' \subseteq users
      BY <1>10 DEF RemoveUser, vars
    <2>2. Grows
      BY <2>1, Clock DEF Grows
    <2> QED
      BY <2>1, <2>2, OthersKeep
  <1>11. CASE ServerRestarts
    BY <1>11, SomeOutcomes, PlainAnswerKeeps DEF ServerRestarts, Restart
  <1>12. CASE Tick /\ UNCHANGED <<server, cookie, req>>
    BY <1>12, TickGrows, OthersKeep DEF server
  <1>13. CASE UNCHANGED accessVars
    <2>1. UNCHANGED <<now, admitted, key, users, cookie, req>>
      BY <1>13 DEF accessVars, vars
    <2>2. Grows
      BY <2>1, Clock DEF Grows
    <2> QED
      BY <2>1, <2>2, OthersKeep
  <1> QED
    BY <1>2, <1>3, <1>4, <1>5, <1>6, <1>7, <1>8, <1>9, <1>10, <1>11, <1>12, <1>13 DEF AccessNext

\* Both invariants hold together.
THEOREM AccessInvariance == AccessSpec => [](AIInv /\ IInv)
  <1>1. AccessInit => AIInv /\ IInv
    BY InitAIInv, InitIInv DEF AccessInit
  <1>2. AIInv /\ IInv /\ [AccessNext]_accessVars => (AIInv /\ IInv)'
    <2> SUFFICES ASSUME AIInv, IInv, [AccessNext]_accessVars PROVE (AIInv /\ IInv)'
      OBVIOUS
    <2>1. [Next]_vars
      BY StepIsLimiterStep DEF AIInv
    <2> QED
      BY <2>1, StepKeepsIInv, StepKeepsAIInv
  <1> QED
    BY <1>1, <1>2, PTL DEF AccessSpec

-----------------------------------------------------------------------------
(* What follows from it *)

\* Behind the routes the limiters still behave as RateLimiter says, so all that is proved of it
\* holds here.
THEOREM LimitersUndisturbed == AccessSpec => Spec
  <1>1. AccessInit => Init
    BY DEF AccessInit
  <1>2. AIInv /\ [AccessNext]_accessVars => [Next]_vars
    BY StepIsLimiterStep DEF AIInv
  <1> QED
    BY <1>1, <1>2, AccessInvariance, PTL DEF AccessSpec, Spec

\* No closed window holds more than the limit, whoever asks and whatever is asked before.
THEOREM AccessWindowBound == AccessSpec => []WindowBound
  BY LimitersUndisturbed, WindowBoundHolds, PTL

\* Behind the routes the limiters implement the sliding window that forgets nothing.
THEOREM AccessRefinement == AccessSpec => ImplementsSlidingWindow
  BY LimitersUndisturbed, Refinement, PTL

\* The browser's cookie and request are well typed.
THEOREM AccessTypeCorrect == AccessSpec => []AccessTypeOK
  BY AccessInvariance, PTL DEF AIInv

\* No request gets past get_current_user on a session that has ended, was made with another
\* secret, or when there is none.
THEOREM SessionsEndHolds == AccessSpec => []SessionsEnd
  BY AccessInvariance, PTL DEF AIInv

\* Nobody is sent back to the login page before the time, but for the part of a second that
\* int() cuts off.
THEOREM NoSessionCutShortHolds == AccessSpec => []NoSessionCutShort
  BY AccessInvariance, PTL DEF AIInv

\* Whatever is costly was let through by the limiter of its route since the request arrived.
THEOREM CostlyWorkChargedHolds == AccessSpec => []CostlyWorkCharged
  <1>1. AIInv => CostlyWorkCharged
    BY Order DEF AIInv, ChargedInv, CostlyWorkCharged
  <1> QED
    BY <1>1, AccessInvariance, PTL

\* Nothing is charged to the shared budget before the user is known, nor, but by POST /report,
\* before the role is.
THEOREM StrangersSpendNothingHolds == AccessSpec => []StrangersSpendNothing
  <1>1. ASSUME AIInv PROVE StrangersSpendNothing
    <2> SUFFICES ASSUME Solved("limit"), Budget[req.route] = "shared"
                 PROVE  req.user # Nobody /\ (req.user \in MayWrite \/ req.route = "report")
      BY DEF StrangersSpendNothing
    <2>1. req.route \in {"assess", "report"}
      BY <1>1, LimitedRoute DEF AIInv, Budget
    <2>2. Solved("user") /\ (Solved("role") \/ req.route = "report")
      BY <1>1, <2>1, Order DEF AIInv
    <2> QED
      BY <1>1, <2>2, AccessAssumption DEF AIInv, UserInv
  <1> QED
    BY <1>1, AccessInvariance, PTL

=============================================================================
