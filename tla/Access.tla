------------------------------- MODULE Access -------------------------------
(***************************************************************************)
(* Who gets through to a route, and on whose budget: the signed session    *)
(* cookie of src/src/auth/sessions.py, the dependencies that FastAPI       *)
(* solves one by one before an endpoint runs, and the limiters they ask.   *)
(* One browser is followed, one request at a time; the other requests of   *)
(* its host are those of RateLimiter's Check.                              *)
(*                                                                         *)
(* An instant is a fraction of a second, since a cookie's expiry is cut    *)
(* down to whole seconds and compared with a clock that is not.            *)
(***************************************************************************)
EXTENDS RateLimiter

CONSTANTS
    Users,      \* rows of the users table
    MayWrite,   \* those with the role MEMBER or ADMIN
    Keys,       \* values SESSION_SECRET may have
    Unset,      \* SESSION_SECRET is not configured
    MaxAge,     \* DEFAULT_MAX_AGE_SECONDS, in instants
    Second,     \* instants in a second
    Nobody      \* no user, no cookie

ASSUME AccessAssumption ==
    /\ {"shared", "login"} \subseteq Clients
    /\ MayWrite \subseteq Users
    /\ Unset \notin Keys /\ Nobody \notin Users
    /\ Second \in Nat \ {0} /\ MaxAge \in Nat /\ MaxAge >= Second
    /\ Nobody \notin [user: Users, expiry: Nat, key: Keys, issued: Nat]

VARIABLES
    key,     \* SESSION_SECRET of the running process
    users,   \* the users there are
    cookie,  \* the cookie the browser holds, with the instant it was issued (history)
    req      \* its request, or the answer to the last one

accessVars == <<vars, key, users, cookie, req>>
server == <<key, users>>

-----------------------------------------------------------------------------
(* Routes *)

\* Mutant: POST /report without its limiter
ChecksUnlimited ==
    [page   |-> <<"user">>,
     assess |-> <<"user", "role", "limit">>,
     report |-> <<"user", "role">>,
     login  |-> <<"limit">>]

\* The dependencies of each route, in the order they are solved: those of the router, of
\* the decorator, of the parameters.
Checks ==
    [page   |-> <<"user">>,
     assess |-> <<"user", "role", "limit">>,
     report |-> <<"user", "limit", "role">>,
     login  |-> <<"limit">>]

\* the limiter object each dependency asks
Budget == [assess |-> "shared", report |-> "shared", login |-> "login"]

Routes == DOMAIN Checks

Answered(outcome) == [route |-> "none", next |-> 1, user |-> Nobody, since |-> 0, answer |-> outcome]

\* all dependencies are solved, and the endpoint runs
Running == req.route # "none" /\ req.next > Len(Checks[req.route])

Checking(dependency) ==
    /\ req.route # "none" /\ req.next <= Len(Checks[req.route])
    /\ Checks[req.route][req.next] = dependency

Pass == req' = [req EXCEPT !.next = @ + 1]
Answer(outcome) == req' = Answered(outcome)

-----------------------------------------------------------------------------
(* Sessions *)

\* int(time.time())
WholeSeconds(t) == t - (t % Second)

\* Mutant: the expiry is cut down to the second once more
IssueShort(u) == [user |-> u, expiry |-> WholeSeconds(now) + MaxAge - Second, key |-> key, issued |-> now]

\* issue_session: user, expiry, and a tag that only the holder of the key can make
IssueSession(u) == [user |-> u, expiry |-> WholeSeconds(now) + MaxAge, key |-> key, issued |-> now]

\* Mutant: the tag is not compared
ReadUnverified == IF cookie = Nobody \/ cookie.expiry < now THEN Nobody ELSE cookie.user

\* read_session: the tag, then the expiry
ReadSession ==
    IF cookie = Nobody \/ cookie.key # key \/ cookie.expiry < now THEN Nobody ELSE cookie.user

-----------------------------------------------------------------------------
(* Requests *)

Arrive(r) ==
    /\ req.route = "none"
    /\ req' = [Answered("none") EXCEPT !.route = r, !.since = now]
    /\ UNCHANGED <<vars, server, cookie>>

\* get_current_user. Without a secret no tag can be computed, unless there is no cookie
\* to compare it with; the error is a 500.
CheckUser ==
    LET u == ReadSession IN
    /\ Checking("user")
    /\ IF key = Unset /\ cookie # Nobody THEN Answer("500")
       ELSE IF u \in users THEN req' = [req EXCEPT !.next = @ + 1, !.user = u]
       ELSE Answer("redirect to login")
    /\ UNCHANGED <<vars, server, cookie>>

\* require_writer
CheckRole ==
    /\ Checking("role")
    /\ IF req.user \in MayWrite THEN Pass ELSE Answer("403")
    /\ UNCHANGED <<vars, server, cookie>>

\* rate_limit or login_rate_limit
CheckLimit ==
    /\ Checking("limit")
    /\ \/ Admit(Budget[req.route]) /\ Pass
       \/ Reject(Budget[req.route]) /\ Answer("429")
    /\ UNCHANGED <<server, cookie>>

\* the endpoint of any other route: the page, or the LLM calls
Serve ==
    /\ Running
    /\ req.route # "login"
    /\ Answer("served")
    /\ UNCHANGED <<vars, server, cookie>>

\* submit_login: authenticate hashes the password whether or not the user exists
Login ==
    /\ Running
    /\ req.route = "login"
    /\ \/ Answer("401") /\ UNCHANGED cookie
       \/ \E u \in users :
            IF key = Unset THEN Answer("500") /\ UNCHANGED cookie
            ELSE Answer("served") /\ cookie' = IssueSession(u)
    /\ UNCHANGED <<vars, server>>

\* POST /logout deletes the browser's cookie, and so does the browser after MaxAge.
Forget ==
    /\ req.route = "none"
    /\ cookie # Nobody
    /\ cookie' = Nobody
    /\ Answer("none")
    /\ UNCHANGED <<vars, server>>

\* Another request of the host asks a limiter.
Others(c) == Check(c) /\ UNCHANGED <<server, cookie, req>>

\* A user is taken out of the database by hand; the program has no such operation.
RemoveUser(u) ==
    /\ users' = users \ {u}
    /\ users' # users
    /\ UNCHANGED <<vars, key, cookie, req>>

\* The process ends, with its requests, and starts with another configuration or the same.
ServerRestarts ==
    /\ Restart
    /\ key' \in Keys \cup {Unset}
    /\ Answer("none")
    /\ UNCHANGED <<users, cookie>>

AccessInit ==
    /\ Init
    /\ key \in Keys
    /\ users = Users
    /\ cookie = Nobody
    /\ req = Answered("none")

AccessNext ==
    \/ \E r \in Routes : Arrive(r)
    \/ CheckUser \/ CheckRole \/ CheckLimit
    \/ Serve \/ Login \/ Forget
    \/ \E c \in Clients : Others(c)
    \/ \E u \in Users : RemoveUser(u)
    \/ ServerRestarts
    \/ Tick /\ UNCHANGED <<server, cookie, req>>

AccessSpec == AccessInit /\ [][AccessNext]_accessVars

-----------------------------------------------------------------------------
(* Properties *)

Cookies == [user: Users, expiry: Nat, key: Keys, issued: Nat]
Outcomes == {"none", "served", "redirect to login", "401", "403", "429", "500"}

\* The type invariant of what Access adds to the limiter.
AccessTypeOK ==
    /\ key \in Keys \cup {Unset}
    /\ users \subseteq Users
    /\ cookie \in Cookies \cup {Nobody}
    /\ cookie # Nobody => cookie.issued <= now
    /\ req \in [route: Routes \cup {"none"}, next: 1..4, user: Users \cup {Nobody}, since: Nat,
                answer: Outcomes]
    /\ req.since <= now
    /\ req.route # "none" => req.next <= Len(Checks[req.route]) + 1

\* the named dependency of the request has been solved
Solved(dependency) ==
    req.route # "none" /\ \E i \in 1..(req.next - 1) : Checks[req.route][i] = dependency

\* A session lasts no longer than MaxAge, wherever the request is held up between its checks,
\* and no session of another secret, or without one, gets a request past get_current_user.
SessionsEnd ==
    Solved("user") =>
        /\ cookie # Nobody /\ cookie.user = req.user
        /\ cookie.key = key /\ key # Unset
        /\ req.since <= cookie.issued + MaxAge

\* Nobody is sent back to the login page early: only after MaxAge, less the part of a second
\* that int() cut off, after the secret changed, or because the user is gone.
NoSessionCutShort ==
    (req.answer = "redirect to login" /\ cookie # Nobody) =>
        \/ now - cookie.issued > MaxAge - Second
        \/ cookie.key # key
        \/ cookie.user \notin users

\* Whatever costs money or CPU (an LLM call, the hashing of a password) was let through by the
\* limiter of its route since the request arrived, on every route.
CostlyWorkCharged ==
    (Running /\ req.route # "page") =>
        \E i \in DOMAIN admitted[Budget[req.route]] :
            admitted[Budget[req.route]][i] \in req.since..now

\* Strangers use up nothing of the budget that the assessments share: what is charged to it is
\* charged after the user is known, and to one who only reads by POST /report alone, whose
\* role is looked at after the limiter.
StrangersSpendNothing ==
    (Solved("limit") /\ Budget[req.route] = "shared") =>
        /\ req.user # Nobody
        /\ req.user \in MayWrite \/ req.route = "report"

=============================================================================
