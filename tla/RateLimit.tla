----------------------------- MODULE RateLimit -----------------------------
(***************************************************************************)
(* The sliding-window limits of packages/ratelimit, as the routes of       *)
(* apps/web apply them through one counter in the memory of the process.   *)
(*                                                                         *)
(* A request's checks follow one another without leaving the event loop's  *)
(* current turn, so a request is one step, at one reading of the clock.    *)
(***************************************************************************)
EXTENDS Integers, FiniteSets

CONSTANTS Identities, Addresses, None,
          Limit, Window,      \* of each policy: the code's numbers, scaled down
          MaxRequests, LastTime,
          SweepWindows        \* the windows sweep is called with

VARIABLES hits,     \* MemoryCounter: key -> hits, numbered to tell equal times apart
          now,
          served,   \* how many requests were counted (history)
          log,      \* the decisions that counted, numbered likewise (history)
          cut       \* the policies some sweep was shorter than (history)

limitVars == <<hits, now, served, log, cut>>

PolicyIds == {"model_identity", "model_address", "read_identity",
              "auth_start_address", "auth_verify_address", "api_general_address"}

ASSUME RateLimitAssumption ==
    /\ None \notin Identities \cup Addresses
    /\ Limit \in [PolicyIds -> Nat] /\ Window \in [PolicyIds -> Nat \ {0}]
    /\ MaxRequests \in Nat /\ LastTime \in Nat /\ SweepWindows \subseteq Nat

IdentityScope == {"model_identity", "read_identity"}
ScopeOf(policy) == IF policy \in IdentityScope THEN "identity" ELSE "address"
\* onCounterUnavailable: what guards reading fails open, the rest closed.
FailsOpen(policy) == policy \in {"read_identity", "api_general_address"}

Subjects == Identities \cup Addresses
Keys == PolicyIds \X Subjects

LimitInit ==
    /\ hits = [k \in Keys |-> {}]
    /\ now = 0
    /\ served = 0
    /\ log = {}
    /\ cut = {}

-----------------------------------------------------------------------------
\* Mutant of Live: the window is one instant short.
LiveTooShort(times, cutoff) == {h \in times : h.at > cutoff + 1}

\* The hits within a window that ends now.
Live(times, cutoff) == {h \in times : h.at > cutoff}

\* MemoryCounter.increment: what the key's hits become; their number counts.
\* A refused request is a hit like any other.
Incremented(key, window) ==
    Live(hits[key], now - window) \cup {[nth |-> served + 1, at |-> now]}

\* check, for a subject whose counter answered, failed, or that is missing.
Check(policy, subject, counted) ==
    LET blind == subject = None \/ ~counted
        count == Cardinality(Incremented(<<policy, subject>>, Window[policy]))
    IN [policy |-> policy, subject |-> subject, nth |-> served + 1, at |-> now,
        resetAt |-> now + Window[policy], degraded |-> blind,
        allowed |-> IF blind THEN FailsOpen(policy) ELSE count <= Limit[policy]]

\* The policies of each route; an identity policy only for a signed-in caller.
PoliciesOf(route, identity) ==
    LET signedIn(policy) == IF identity = None THEN {} ELSE {policy} IN
    CASE route = "model"   -> signedIn("model_identity") \cup {"model_address"}
      [] route = "general" -> signedIn("read_identity") \cup {"api_general_address"}
      [] route = "start"   -> {"auth_start_address"}
      [] route = "verify"  -> {"auth_verify_address"}

\* checkAll sorts identity policies first; no route has two of one scope.
ComesBefore(p, q) == ScopeOf(p) = "identity" /\ ScopeOf(q) = "address"

\* The checks a request makes: up to the first that refuses.
ChecksOf(route, identity, address, counted) ==
    LET policies == PoliciesOf(route, identity)
        checked(p) == Check(p, IF ScopeOf(p) = "identity" THEN identity ELSE address, counted)
    IN {checked(p) : p \in
           {q \in policies : \A r \in policies : ComesBefore(r, q) => checked(r).allowed}}

KeyOf(e) == <<e.policy, e.subject>>

\* checkAll: each check that counted is a hit on its own key; a request that
\* nothing counted changes nothing.
LimitRoute(route, identity, address, counted) ==
    LET made == {e \in ChecksOf(route, identity, address, counted) : ~e.degraded}
    IN /\ served < MaxRequests /\ made # {}
       /\ hits' = [k \in Keys |-> IF \E e \in made : KeyOf(e) = k
                                  THEN Incremented(k, Window[k[1]]) ELSE hits[k]]
       /\ log' = log \cup made
       /\ served' = served + 1
       /\ UNCHANGED <<now, cut>>

\* sweep drops what is older than one window from every key alike, whatever the
\* windows of the policies are.
Sweep(window) ==
    /\ hits' = [k \in Keys |-> Live(hits[k], now - window)]
    /\ hits' # hits
    /\ cut' = cut \cup {p \in PolicyIds : window < Window[p]}
    /\ UNCHANGED <<now, served, log>>

PassTime ==
    /\ now < LastTime
    /\ now' = now + 1
    /\ UNCHANGED <<hits, served, log, cut>>

LimitDone ==
    /\ now = LastTime
    /\ UNCHANGED limitVars

LimitNext ==
    \/ \E identity \in Identities \cup {None}, address \in Addresses \cup {None},
          route \in {"model", "general", "start", "verify"}, counted \in BOOLEAN :
            LimitRoute(route, identity, address, counted)
    \/ \E window \in SweepWindows : Sweep(window)
    \/ PassTime
    \/ LimitDone

LimitSpec == LimitInit /\ [][LimitNext]_limitVars

-----------------------------------------------------------------------------
\* The type of every variable.
LimitTypeOK ==
    /\ hits \in [Keys -> SUBSET [nth : 1 .. served, at : 0 .. now]]
    /\ now \in 0 .. LastTime /\ served \in 0 .. MaxRequests
    /\ log \subseteq [policy : PolicyIds, subject : Subjects, nth : 1 .. served, at : 0 .. now,
                      resetAt : Nat, degraded : {FALSE}, allowed : BOOLEAN]
    /\ cut \subseteq PolicyIds

\* How many requests of one subject a policy allowed within its window.
CountedIn(policy, subject, from) ==
    Cardinality({e \in log :
        /\ KeyOf(e) = <<policy, subject>>
        /\ e.allowed
        /\ e.at > from /\ e.at <= from + Window[policy]})

\* In no window, wherever it starts, are more requests of one subject allowed
\* than the policy's limit, unless a sweep with a shorter window forgot some.
NeverOverLimit ==
    \A e \in log : e.policy \notin cut =>
        \A from \in -1 .. LastTime : CountedIn(e.policy, e.subject, from) <= Limit[e.policy]

\* resetAt keeps its word: a refused subject that stays away until then is
\* served (where the policy allows anything at all).
WaitingIsEnough ==
    \A e \in log :
        (/\ ~e.allowed /\ Limit[e.policy] > 0
         /\ now >= e.resetAt
         /\ \A f \in log : KeyOf(f) = KeyOf(e) => f.nth <= e.nth)
        => Check(e.policy, e.subject, TRUE).allowed

\* The window lets through no more than the policy says, and no less.
LimitIsExact == NeverOverLimit /\ WaitingIsEnough
=============================================================================
