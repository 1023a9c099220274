--------------------------- MODULE SlidingWindow ---------------------------
(***************************************************************************)
(* What src/src/api/rate_limit.py promises: a request of a client is let   *)
(* through if and only if fewer than MaxRequests of that client's requests *)
(* were let through in the last Window seconds, since the program started. *)
(* It remembers every request let through; how the limiter gets by with    *)
(* less is its own business (RateLimiter.tla).                             *)
(***************************************************************************)
EXTENDS Naturals, Sequences, FiniteSets

CONSTANTS
    Clients,      \* client keys: request.client.host, with the limiter object asked
    Window,       \* window_seconds of each
    MaxRequests,  \* max_requests of each
    MaxTime       \* bound: the last instant

VARIABLES
    now,       \* time.monotonic()
    admitted,  \* per client, when its requests were let through
    answer     \* the answer to the latest request, and whose it was

vars == <<now, admitted, answer>>

\* The client's requests let through in the closed window of the given length up to t
Recent(c, t) == {i \in DOMAIN admitted[c] : t - admitted[c][i] <= Window[c] /\ admitted[c][i] <= t}

Init ==
    /\ now = 0
    /\ admitted = [c \in Clients |-> <<>>]
    /\ answer = [verdict |-> "none"]

Accept(c) ==
    /\ Cardinality(Recent(c, now)) < MaxRequests[c]
    /\ admitted' = [admitted EXCEPT ![c] = Append(@, now)]
    /\ answer' = [client |-> c, verdict |-> "accepted"]
    /\ now' = now

Refuse(c) ==
    /\ Cardinality(Recent(c, now)) >= MaxRequests[c]
    /\ answer' = [client |-> c, verdict |-> "refused"]
    /\ UNCHANGED <<now, admitted>>

Tick ==
    /\ now < MaxTime
    /\ now' = now + 1
    /\ UNCHANGED <<admitted, answer>>

\* The process ends and starts again, and knows nothing of earlier requests.
Restart ==
    /\ admitted' = [c \in Clients |-> <<>>]
    /\ answer' = [verdict |-> "none"]
    /\ now' = now

Next == (\E c \in Clients : Accept(c) \/ Refuse(c)) \/ Tick \/ Restart

Spec == Init /\ [][Next]_vars

\* However the requests are spaced, no window of Window seconds, closed at both ends,
\* holds more than MaxRequests requests of a client that were let through.
WindowBound ==
    \A c \in Clients : \A t \in 0..now : Cardinality(Recent(c, t)) <= MaxRequests[c]

=============================================================================
