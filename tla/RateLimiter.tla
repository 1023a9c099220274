---------------------------- MODULE RateLimiter ----------------------------
(***************************************************************************)
(* RateLimiter of src/src/api/rate_limit.py, called by one request at a    *)
(* time: a deque of timestamps per client, pruned from the left.  A client *)
(* is a host together with one of the limiter objects, whose window and    *)
(* limit apply to it; the deques live in memory and a restart empties      *)
(* them.  ThreadedRateLimiter.tla runs the same code in several threads,   *)
(* and Access.tla puts it before the routes.                               *)
(***************************************************************************)
EXTENDS Naturals, Sequences, FiniteSets

CONSTANTS
    Clients,      \* client keys: request.client.host, with the limiter object asked
    Window,       \* window_seconds of each
    MaxRequests,  \* max_requests of each
    MaxTime       \* bound: the last instant

ASSUME LimiterAssumption ==
    /\ Window \in [Clients -> Nat]
    /\ MaxRequests \in [Clients -> Nat \ {0}]
    /\ MaxTime \in Nat

VARIABLES
    now,       \* time.monotonic(); requests may share an instant
    log,       \* _request_log; a client without an entry gets an empty deque
    admitted,  \* history: when each client's requests were let through since the start
    answer     \* history: the answer to the latest request, and whose it was

vars == <<now, log, admitted, answer>>

NoAnswer == [verdict |-> "none"]

\* Mutant: an entry expires at the window's end, not after it
ExpiredAtEnd(c, entry) == now - entry >= Window[c]

Expired(c, entry) == now - entry > Window[c]

\* where the loop stops: the leftmost entry that has not expired, or past the end
First(c, entries) ==
    CHOOSE i \in 1..(Len(entries) + 1) :
        /\ \A j \in 1..(i - 1) : Expired(c, entries[j])
        /\ i <= Len(entries) => ~Expired(c, entries[i])

\* while log and now - log[0] > window: popleft
Pruned(c, entries) == SubSeq(entries, First(c, entries), Len(entries))

\* Mutant: one request too many
AdmitOneMore(c) ==
    /\ Len(Pruned(c, log[c])) <= MaxRequests[c]
    /\ log' = [log EXCEPT ![c] = Append(Pruned(c, @), now)]
    /\ admitted' = [admitted EXCEPT ![c] = Append(@, now)]
    /\ answer' = [client |-> c, verdict |-> "accepted"]
    /\ now' = now

Admit(c) ==
    /\ Len(Pruned(c, log[c])) < MaxRequests[c]
    /\ log' = [log EXCEPT ![c] = Append(Pruned(c, @), now)]
    /\ admitted' = [admitted EXCEPT ![c] = Append(@, now)]
    /\ answer' = [client |-> c, verdict |-> "accepted"]
    /\ now' = now

\* 429: the pruned log stays, the request is not logged
Reject(c) ==
    /\ Len(Pruned(c, log[c])) >= MaxRequests[c]
    /\ log' = [log EXCEPT ![c] = Pruned(c, @)]
    /\ answer' = [client |-> c, verdict |-> "refused"]
    /\ UNCHANGED <<now, admitted>>

Tick ==
    /\ now < MaxTime
    /\ now' = now + 1
    /\ UNCHANGED <<log, admitted, answer>>

\* The process ends and starts again: RateLimiter.__init__
Restart ==
    /\ log' = [c \in Clients |-> <<>>]
    /\ admitted' = [c \in Clients |-> <<>>]
    /\ answer' = NoAnswer
    /\ now' = now

Init ==
    /\ now = 0
    /\ log = [c \in Clients |-> <<>>]
    /\ admitted = [c \in Clients |-> <<>>]
    /\ answer = NoAnswer

Check(c) == Admit(c) \/ Reject(c)

Next == (\E c \in Clients : Check(c)) \/ Tick \/ Restart

Spec == Init /\ [][Next]_vars

-----------------------------------------------------------------------------
(* Properties *)

\* The type invariant: a log's timestamps are in the past, and refused requests do not
\* make it grow, so it never holds more entries than the limit.
TypeOK ==
    /\ now \in 0..MaxTime
    /\ log \in [Clients -> Seq(0..now)]
    /\ \A c \in Clients : Len(log[c]) <= MaxRequests[c]
    /\ admitted \in [Clients -> Seq(0..now)]
    /\ answer \in {NoAnswer} \cup [client: Clients, verdict: {"accepted", "refused"}]

Promise == INSTANCE SlidingWindow

\* The limit: no closed window holds more than the limit of admitted requests of a client,
\* although the log forgets.
WindowBound == Promise!WindowBound

\* The limiter answers every request as the specification does that remembers all of
\* them: refused requests cost no quota and an expired entry never counts.
ImplementsSlidingWindow == Promise!Spec

=============================================================================
