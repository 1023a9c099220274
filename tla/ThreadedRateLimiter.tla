------------------------ MODULE ThreadedRateLimiter ------------------------
(***************************************************************************)
(* RateLimiter.check of src/src/api/rate_limit.py as it runs: rate_limit   *)
(* is a plain function, so the web framework calls it in a worker thread,  *)
(* and check takes no lock.  CPython may switch threads when a call        *)
(* returns and at a loop's back edge, so the steps are: read the clock;    *)
(* look the deque up and test and pop its head, once per iteration; count; *)
(* append or refuse.  One client: a client's deque is its own.             *)
(***************************************************************************)
EXTENDS Naturals, Sequences, FiniteSets

CONSTANTS
    Threads,      \* worker threads
    Window,       \* window_seconds
    MaxRequests,  \* max_requests
    MaxTime,      \* bound: the last instant
    MaxLog        \* bound: requests ever let through

ASSUME ThreadedAssumption ==
    /\ IsFiniteSet(Threads)
    /\ Window \in Nat
    /\ MaxRequests \in Nat \ {0}
    /\ {MaxTime, MaxLog} \subseteq Nat

VARIABLES
    clock,     \* time.monotonic()
    log,       \* the client's deque
    admitted,  \* history: when requests were let through, in that order
    asked,     \* history: the instant each of those had read from the clock
    thread     \* per thread: where in check it is, its now, the length it saw

vars == <<clock, log, admitted, asked, thread>>

AtRest == [pc |-> "idle", now |-> 0, length |-> 0]

ReadClock(t) ==
    /\ thread[t].pc = "idle"
    /\ thread' = [thread EXCEPT ![t] = [pc |-> "prune", now |-> clock, length |-> 0]]
    /\ UNCHANGED <<clock, log, admitted, asked>>

\* Mutant: an entry of exactly the window's age is dropped
ExpiredAtEnd(t) == log # <<>> /\ log[1] + Window <= thread[t].now

Expired(t) == log # <<>> /\ log[1] + Window < thread[t].now

\* an iteration of the loop
PopLeft(t) ==
    /\ thread[t].pc = "prune"
    /\ Expired(t)
    /\ log' = Tail(log)
    /\ UNCHANGED <<clock, admitted, asked, thread>>

\* Mutant: the log is not pruned before it is counted
CountUnpruned(t) ==
    /\ thread[t].pc = "prune"
    /\ thread' = [thread EXCEPT ![t].pc = "counted", ![t].length = Len(log)]
    /\ UNCHANGED <<clock, log, admitted, asked>>

\* the loop ends and len(log) is taken
Count(t) ==
    /\ thread[t].pc = "prune"
    /\ ~Expired(t)
    /\ thread' = [thread EXCEPT ![t].pc = "counted", ![t].length = Len(log)]
    /\ UNCHANGED <<clock, log, admitted, asked>>

\* Mutant: the comparison lets one more in
AdmitOneMore(t) ==
    /\ thread[t].pc = "counted"
    /\ thread[t].length <= MaxRequests
    /\ Len(admitted) < MaxLog
    /\ log' = Append(log, thread[t].now)
    /\ admitted' = Append(admitted, clock)
    /\ asked' = Append(asked, thread[t].now)
    /\ thread' = [thread EXCEPT ![t] = AtRest]
    /\ UNCHANGED clock

\* the log is not read again: the thread's own count decides
Admit(t) ==
    /\ thread[t].pc = "counted"
    /\ thread[t].length < MaxRequests
    /\ Len(admitted) < MaxLog
    /\ log' = Append(log, thread[t].now)
    /\ admitted' = Append(admitted, clock)
    /\ asked' = Append(asked, thread[t].now)
    /\ thread' = [thread EXCEPT ![t] = AtRest]
    /\ UNCHANGED clock

Reject(t) ==
    /\ thread[t].pc = "counted"
    /\ thread[t].length >= MaxRequests
    /\ thread' = [thread EXCEPT ![t] = AtRest]
    /\ UNCHANGED <<clock, log, admitted, asked>>

Tick ==
    /\ clock < MaxTime
    /\ clock' = clock + 1
    /\ UNCHANGED <<log, admitted, asked, thread>>

Init ==
    /\ clock = 0
    /\ log = <<>>
    /\ admitted = <<>>
    /\ asked = <<>>
    /\ thread = [t \in Threads |-> AtRest]

Check(t) == ReadClock(t) \/ PopLeft(t) \/ Count(t) \/ Admit(t) \/ Reject(t)

Next == (\E t \in Threads : Check(t)) \/ Tick

Spec == Init /\ [][Next]_vars

-----------------------------------------------------------------------------
(* Properties *)

ThreadStates == [pc: {"idle", "prune", "counted"}, now: 0..MaxTime, length: Nat]

\* The type invariant. The deque is bounded too: a client that never stops asking makes it
\* no longer than the limit and the requests that race past it.
TypeOK ==
    /\ clock \in 0..MaxTime
    /\ log \in Seq(0..clock)
    /\ Len(log) < MaxRequests + Cardinality(Threads)
    /\ admitted \in Seq(0..clock)
    /\ asked \in Seq(0..clock)
    /\ thread \in [Threads -> ThreadStates]

\* the requests let through in the closed window that ends at t
Admissions(t) == {i \in DOMAIN admitted : admitted[i] <= t /\ t <= admitted[i] + Window}

\* How far threads can exceed the limit: of the requests let through in one window, those
\* that read the clock inside it number at most MaxRequests and one more per other thread,
\* and of those that read it before, each thread can bring one.
OverrunBounded ==
    \A t \in 0..clock : Cardinality(Admissions(t)) < MaxRequests + 2 * Cardinality(Threads)

\* However the threads interleave, and although the deque may be out of order, a request is
\* refused only if MaxRequests were let through since Window before it read the clock.
RefusalJustified ==
    \A t \in Threads : (thread[t].pc = "counted" /\ thread[t].length >= MaxRequests) =>
        Cardinality({i \in DOMAIN admitted : admitted[i] + Window >= thread[t].now}) >= MaxRequests

=============================================================================
