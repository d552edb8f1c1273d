----------------------------- MODULE RateLimit ------------------------------
(***************************************************************************)
(* The rate limits of the endpoints: app/core/rate_limit.py and, from how  *)
(* it uses it, the library slowapi.                                        *)
(*                                                                         *)
(* Each replica counts in its own memory, per caller, URL path and limit:  *)
(* slowapi keys by the path of the request, not by the route that serves   *)
(* it.  A route with an id in its path counts each id apart; two methods   *)
(* of one path with one limit count together.                              *)
(*                                                                         *)
(* The first call opens a window; a call is admitted while the window's    *)
(* count is within the limit; the first call after the window opens the    *)
(* next.                                                                   *)
(* Nothing of this awaits, so a replica counts its calls one by one.       *)
(*                                                                         *)
(* Times are relative to now: what is left of a window, how long ago a     *)
(* call was.  Only Tick lets time pass.                                    *)
(***************************************************************************)
EXTENDS Integers, FiniteSetsExt

CONSTANTS
    Replicas,
    Users, Addresses,
    Routes,
    Public,       \* the routes that ask for no token
    Paths,        \* route -> the URL paths that it is called at
    Limit,        \* route -> the calls it admits in a window
    Window,       \* the length of a window
    MaxRestarts,  \* bound: restarts within a Window
    MaxActive     \* bound: budgets of which something is remembered

ASSUME RateAssumption ==
    /\ IsFiniteSet(Replicas)
    /\ Public \subseteq Routes
    /\ \A route \in Routes : IsFiniteSet(Paths[route])
    /\ Limit \in [Routes -> Nat \ {0}]
    /\ Window \in Nat \ {0} /\ MaxRestarts \in Nat /\ MaxActive \in Nat
    /\ Users \cap Addresses = {}

\* A caller, a path and a limit.
Scopes == UNION {(Users \cup Addresses) \X Paths[route] \X {Limit[route]} : route \in Routes}
Ages   == 0 .. Window - 1

VARIABLES
    counters,   \* replica -> scope -> the count of its window, and what is left of it
    admitted,   \* replica -> scope -> age -> calls admitted then
    restarted,  \* replica -> age -> restarts then
    told        \* scope -> how long it is still to wait, if its last call was refused

vars == <<counters, admitted, restarted, told>>

NoWindow == [count |-> 0, left |-> 0]
NotTold  == -1

Init ==
    /\ counters = [r \in Replicas |-> [s \in Scopes |-> NoWindow]]
    /\ admitted = [r \in Replicas |-> [s \in Scopes |-> [a \in Ages |-> 0]]]
    /\ restarted = [r \in Replicas |-> [a \in Ages |-> 0]]
    /\ told = [s \in Scopes |-> NotTold]

Total(history) == MapThenSumSet(LAMBDA a : history[a], Ages)

-----------------------------------------------------------------------------
\* Who is to answer for a call of a route: the user, if the route knows one.
CallersOf(route) == IF route \in Public THEN Addresses ELSE Users

\* The budget that a call is to be taken from, and all there are.
Budget(user, address, route, path) ==
    <<IF route \in Public THEN address ELSE user, path, Limit[route]>>

Budgets == UNION {CallersOf(route) \X Paths[route] \X {Limit[route]} : route \in Routes}

\* Fault: the caller is identified by address, token or not.
KeyByAddress(user, address, route, path) == <<address, path, Limit[route]>>

\* rate_limit_key, and what slowapi adds to it: the path of the request, as the
\* limiter chooses no other key_style, and the limit.  get_current_user has set
\* request.state.user_id by then, on the routes that depend on it.
Key(user, address, route, path) ==
    IF route \in Public THEN <<address, path, Limit[route]>>
    ELSE <<user, path, Limit[route]>>

\* Fault: the call that opens a window is not counted in it.
HitUncounted(w, limit) ==
    IF w.left = 0 THEN [count |-> 0, left |-> Window]
    ELSE [w EXCEPT !.count = Min({@ + 1, limit + 1})]

\* The fixed window of slowapi's memory storage.  Counts beyond the limit are
\* alike, and kept at one more than it.
Hit(w, limit) ==
    IF w.left = 0 THEN [count |-> 1, left |-> Window]
    ELSE [w EXCEPT !.count = Min({@ + 1, limit + 1})]

\* Fault: a client is told a fixed wait, shorter than the window.
RetryAfterFixed == Window - 1

\* handle_rate_limit_exceeded: the length of the window, not what is left of it.
RetryAfter == Window

\* Nothing is remembered of a budget.
Forgotten(s) ==
    /\ told[s] = NotTold
    /\ \A r \in Replicas : counters[r][s] = NoWindow /\ \A a \in Ages : admitted[r][s][a] = 0

\* The decorator counts a call after its dependencies, and before its endpoint.
Call(r, user, address, route, path) ==
    LET key    == Key(user, address, route, path)
        budget == Budget(user, address, route, path)
        window == Hit(counters[r][key], Limit[route])
    IN  /\ Cardinality({s \in Budgets \ {budget} : ~Forgotten(s)}) < MaxActive
        /\ counters' = [counters EXCEPT ![r][key] = window]
        /\ \/ /\ window.count <= Limit[route]
              /\ admitted' = [admitted EXCEPT ![r][budget][0] = @ + 1]
              /\ told' = [told EXCEPT ![budget] = NotTold]
           \/ /\ window.count > Limit[route]
              /\ told' = [told EXCEPT ![budget] = RetryAfter]
              /\ UNCHANGED admitted
        /\ UNCHANGED restarted

\* A replica that starts again has an empty memory.
Restart(r) ==
    /\ MapThenSumSet(LAMBDA q : Total(restarted[q]), Replicas) < MaxRestarts
    /\ counters' = [counters EXCEPT ![r] = [s \in Scopes |-> NoWindow]]
    /\ restarted' = [restarted EXCEPT ![r][0] = @ + 1]
    /\ UNCHANGED <<admitted, told>>

\* What happened at each age is one older; what is a Window old is forgotten.
Aged(history) == [a \in Ages |-> IF a = 0 THEN 0 ELSE history[a - 1]]

RunDown(w) == IF w.left <= 1 THEN NoWindow ELSE [w EXCEPT !.left = @ - 1]

Tick ==
    /\ counters' = [r \in Replicas |-> [s \in Scopes |-> RunDown(counters[r][s])]]
    /\ admitted' = [r \in Replicas |-> [s \in Scopes |-> Aged(admitted[r][s])]]
    /\ restarted' = [r \in Replicas |-> Aged(restarted[r])]
    /\ told' = [s \in Scopes |-> IF told[s] > 0 THEN told[s] - 1 ELSE told[s]]

Next ==
    \/ \E r \in Replicas, user \in Users, address \in Addresses, route \in Routes :
         \E path \in Paths[route] : Call(r, user, address, route, path)
    \/ \E r \in Replicas : Restart(r)
    \/ Tick

Spec == Init /\ [][Next]_vars

-----------------------------------------------------------------------------
Windows(s) == [count : 0 .. s[3] + 1, left : 0 .. Window]

\* No window is longer than Window, and no wait that a client is told.
TypeOK ==
    /\ DOMAIN counters = Replicas
    /\ \A r \in Replicas : DOMAIN counters[r] = Scopes
    /\ \A r \in Replicas, s \in Scopes : counters[r][s] \in Windows(s)
    /\ admitted \in [Replicas -> [Scopes -> [Ages -> Nat]]]
    /\ restarted \in [Replicas -> [Ages -> Nat]]
    /\ told \in [Scopes -> {NotTold} \cup (0 .. Window)]

AdmittedTo(s) == MapThenSumSet(LAMBDA r : Total(admitted[r][s]), Replicas)

MostOf(limit) ==
    MapThenSumSet(LAMBDA r : (2 + Total(restarted[r])) * limit - 1, Replicas)

\* What N replicas really admit to one caller: the end of one window and the
\* start of the next fit into one Window, so at one path each replica admits up
\* to one call less than twice its limit, and its limit once more for each
\* restart, whatever addresses the caller uses; and of one route that many times
\* the number of paths that the caller calls it at.
BurstIsBounded ==
    /\ \A s \in Budgets : AdmittedTo(s) <= MostOf(s[3])
    /\ \A route \in Routes : \A caller \in CallersOf(route) :
         MapThenSumSet(LAMBDA p : AdmittedTo(<<caller, p, Limit[route]>>), Paths[route]) <=
           Cardinality(Paths[route]) * MostOf(Limit[route])

\* "several users behind one NAT do not consume each other's budget": whoever is
\* refused has had the whole limit of a replica, at this path, within the last
\* Window.
RefusedForOwnCalls ==
    \A s \in Budgets :
        told[s] = RetryAfter =>
            \E r \in Replicas : Total(admitted[r][s]) >= s[3]

\* A caller that was refused, and calls the path no more for as long as it was
\* told, is admitted, by whichever replica.
RetryAfterSuffices ==
    [][\A s \in Budgets : told[s] = 0 => told'[s] \in {0, NotTold}]_vars

-----------------------------------------------------------------------------
(* Why: the inductive invariant. *)

\* What will be left of a history in n instants.
Later(history, n) == MapThenSumSet(LAMBDA a : history[a], 0 .. Window - 1 - n)

\* The calls that replica r has admitted in its window for s.
Used(r, s) == Min({counters[r][s].count, s[3]})

\* How many of the calls that r admitted can still be remembered in n instants.
\* While a window is open they are its own and those of the window before, of
\* which the first is as good as forgotten; when it closes, its own without its
\* first.  Each restart may have hidden another window.
MostLater(r, s, n) ==
    LET left == counters[r][s].left
    IN  Later(restarted[r], n) * s[3] - 1
          + (IF left > 0 THEN Used(r, s) ELSE s[3])
          + (IF n < left THEN s[3] ELSE 0)

\* An open window has admitted what it counts since it was opened.
WindowInv(r, s) ==
    /\ counters[r][s].left > 0 =>
         /\ counters[r][s].count > 0
         /\ Used(r, s) <= Later(admitted[r][s], counters[r][s].left - 1)
    /\ \A n \in 0 .. Window : Later(admitted[r][s], n) <= MostLater(r, s, n)

\* No replica has a window for a caller that outlasts the wait it was told.
WaitInv(r, s) == told[s] # NotTold => counters[r][s].left <= told[s]

\* What is counted was admitted, in windows that follow each other, and waits
\* outlast windows: the inductive invariant.
RateInv ==
    /\ TypeOK /\ RefusedForOwnCalls
    /\ \A r \in Replicas, s \in Budgets : WindowInv(r, s) /\ WaitInv(r, s)

=============================================================================
