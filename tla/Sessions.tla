------------------------------ MODULE Sessions ------------------------------
(* internal/auth/session.go: signed session tokens, the map of those that    *)
(* were logged out, and the limit on login attempts.                         *)
(*                                                                           *)
(* A token is an id and the second in which it expires.  What is signed with *)
(* the secret of this process verifies, and nothing else does.  The log of   *)
(* the limiter is a set of places in the history of the attempts that it let *)
(* pass, so that attempts of one instant are told apart.                     *)
EXTENDS Integers, Sequences, FiniteSets

CONSTANTS
    Clients,      \* addresses of clients
    Tokens,       \* ids of tokens
    Requests,     \* requests that are handled at a time
    Limit,        \* login attempts that a client has in a window (5)
    Window,       \* one minute
    Capacity,     \* clients above which allow looks for idle ones (10000)
    TTL,          \* SESSION_TTL
    \* Bounds of the model
    MaxTime,      \* the last instant
    MaxRestarts   \* restarts of the process

ASSUME SessionsAssumption ==
    /\ IsFiniteSet(Clients)
    /\ Limit \in Nat \ {0}
    /\ Window \in Nat \ {0}
    /\ Capacity \in Nat
    /\ TTL \in Nat \ {0}
    /\ MaxTime \in Nat
    /\ MaxRestarts \in Nat

VARIABLES
    clock,       \* time.Now()
    attempts,    \* rateLimiter.attempts, of each client
    clients,     \* the clients that have an entry in that map
    checking,    \* the clients whose password is being verified
    expiry,      \* of each token that was issued, the time that it carries
    signed,      \* the tokens whose signature verifies
    revoked,     \* Manager.revoked
    requests,    \* where each request is, and with which token
    restarts,    \* restarts still allowed
    granted,     \* history: the attempts of each client that were let pass
    loggedOut    \* history: the tokens logged out; both since the last start

vars == <<clock, attempts, clients, checking, expiry, signed, revoked, requests,
          restarts, granted, loggedOut>>

limiter  == <<attempts, clients, granted>>
sessions == <<expiry, signed, revoked, requests, loggedOut>>

Times == 0..MaxTime
\* late: the token had been logged out before the check began.
Request == [step : {"check", "logout"}, token : Tokens, late : BOOLEAN]
NoRequest == [step |-> "idle"]

TypeOK ==
    /\ clock \in Times
    /\ granted \in [Clients -> Seq(Times)]
    /\ attempts \in [Clients -> SUBSET (Nat \ {0})]
    /\ \A c \in Clients : attempts[c] \subseteq DOMAIN granted[c]
    /\ clients \in SUBSET Clients
    /\ checking \in SUBSET Clients
    /\ expiry \in [Tokens -> 0..(MaxTime + TTL)]
    /\ signed \in SUBSET Tokens
    /\ revoked \in SUBSET Tokens
    /\ requests \in [Requests -> Request \cup {NoRequest}]
    /\ restarts \in 0..MaxRestarts
    /\ loggedOut \in SUBSET Tokens

Init ==
    /\ clock = 0
    /\ attempts = [c \in Clients |-> {}]
    /\ clients = {}
    /\ checking = {}
    /\ expiry = [t \in Tokens |-> 0]
    /\ signed = {}
    /\ revoked = {}
    /\ requests = [r \in Requests |-> NoRequest]
    /\ restarts = MaxRestarts
    /\ granted = [c \in Clients |-> <<>>]
    /\ loggedOut = {}

Tick ==
    /\ clock < MaxTime
    /\ clock' = clock + 1
    /\ UNCHANGED <<limiter, checking, sessions, restarts>>

-----------------------------------------------------------------------------
(* The limiter *)

\* faulty: an attempt is kept for a shorter time
KeptShorter(c) == {n \in attempts[c] : granted[c][n] > clock - Window + 1}

\* faulty: an attempt is kept for a longer time
KeptLonger(c) == {n \in attempts[c] : granted[c][n] >= clock - Window}

\* The attempts of c that are after the cutoff.
Kept(c) == {n \in attempts[c] : granted[c][n] > clock - Window}

\* The last attempt of c is before the cutoff, or it has none.
Idle(c) == \A n \in attempts[c] : granted[c][n] < clock - Window

\* allow lets a login attempt pass, and writes it down; when it has entries of
\* too many clients, it deletes those of the idle ones.
Allow(c) ==
    /\ c \notin checking
    /\ Cardinality(Kept(c)) < Limit
    /\ granted' = [granted EXCEPT ![c] = Append(@, clock)]
    /\ LET known == clients \cup {c}
           idle  == IF Cardinality(known) > Capacity
                    THEN {d \in known \ {c} : Idle(d)} ELSE {}
       IN /\ clients' = known \ idle
          /\ attempts' = [d \in Clients |->
                            IF d = c THEN Kept(c) \cup {Len(granted[c]) + 1}
                            ELSE IF d \in idle THEN {} ELSE attempts[d]]
    /\ checking' = checking \cup {c}
    /\ UNCHANGED <<clock, sessions, restarts>>

\* A refused attempt is not written down.
Refuse(c) ==
    /\ c \notin checking
    /\ Cardinality(Kept(c)) >= Limit
    /\ attempts' = [attempts EXCEPT ![c] = Kept(c)]
    /\ UNCHANGED <<clock, clients, granted, checking, sessions, restarts>>

\* The body is malformed or the password is wrong.
Reject(c) ==
    /\ c \in checking
    /\ checking' = checking \ {c}
    /\ UNCHANGED <<clock, limiter, sessions, restarts>>

-----------------------------------------------------------------------------
(* Tokens *)

Expired(t) == clock > expiry[t]

\* The password is right: Issue makes a token with an id that nobody else has.
Issue(c, t) ==
    /\ c \in checking
    /\ expiry[t] = 0
    /\ checking' = checking \ {c}
    /\ expiry' = [expiry EXCEPT ![t] = clock + TTL]
    /\ signed' = signed \cup {t}
    /\ UNCHANGED <<clock, limiter, revoked, requests, loggedOut, restarts>>

\* Authenticated, and Clear, parse the token of the cookie ...
Parses(t) == t \in signed /\ ~Expired(t)

BeginCheck(r, t) ==
    /\ requests[r] = NoRequest
    /\ Parses(t)
    /\ requests' = [requests EXCEPT ![r] = [step |-> "check", token |-> t, late |-> t \in loggedOut]]
    /\ UNCHANGED <<clock, limiter, checking, expiry, signed, revoked, loggedOut, restarts>>

BeginLogout(r, t) ==
    /\ requests[r] = NoRequest
    /\ Parses(t)
    /\ requests' = [requests EXCEPT ![r] = [step |-> "logout", token |-> t, late |-> FALSE]]
    /\ UNCHANGED <<clock, limiter, checking, expiry, signed, revoked, loggedOut, restarts>>

\* faulty: a token is forgotten in the last instant in which it is valid
PrunedEarly == {t \in revoked : expiry[t] > clock}

\* ... and take the mutex.  A check reads the clock a second time, forgets the
\* tokens that have expired, and looks for its own among the others.
Pruned == {t \in revoked : ~Expired(t)}

Finish(r) == requests' = [requests EXCEPT ![r] = NoRequest]

Accept(r) ==
    /\ requests[r].step = "check"
    /\ requests[r].token \notin Pruned
    /\ revoked' = Pruned
    /\ Finish(r)
    /\ UNCHANGED <<clock, limiter, checking, expiry, signed, loggedOut, restarts>>

Deny(r) ==
    /\ requests[r].step = "check"
    /\ requests[r].token \in Pruned
    /\ revoked' = Pruned
    /\ Finish(r)
    /\ UNCHANGED <<clock, limiter, checking, expiry, signed, loggedOut, restarts>>

Logout(r) ==
    /\ requests[r].step = "logout"
    /\ revoked' = revoked \cup {requests[r].token}
    /\ loggedOut' = loggedOut \cup {requests[r].token}
    /\ Finish(r)
    /\ UNCHANGED <<clock, limiter, checking, expiry, signed, restarts>>

-----------------------------------------------------------------------------
(* The process *)

\* NewManager.  The secret is that of the configuration or of the file, unless
\* the file is gone.  The maps start empty.
Restart ==
    /\ restarts > 0
    /\ restarts' = restarts - 1
    /\ signed' \in {signed, {}}
    /\ attempts' = [c \in Clients |-> {}]
    /\ clients' = {}
    /\ checking' = {}
    /\ revoked' = {}
    /\ requests' = [r \in Requests |-> NoRequest]
    /\ granted' = [c \in Clients |-> <<>>]
    /\ loggedOut' = {}
    /\ UNCHANGED <<clock, expiry>>

-----------------------------------------------------------------------------

Next ==
    \/ Tick
    \/ \E c \in Clients : Allow(c) \/ Refuse(c) \/ Reject(c)
    \/ \E c \in Clients, t \in Tokens : Issue(c, t)
    \/ \E r \in Requests, t \in Tokens : BeginCheck(r, t) \/ BeginLogout(r, t)
    \/ \E r \in Requests : Accept(r) \/ Deny(r) \/ Logout(r)
    \/ Restart

Spec == Init /\ [][Next]_vars

-----------------------------------------------------------------------------
(* Properties *)

\* The limiter does what it is for: among any Limit + 1 attempts of a client
\* that were let pass in a row, the last came a window after the first, however
\* the log was pruned and other clients' entries deleted in between.
WithinLimit ==
    \A c \in Clients : \A n \in DOMAIN granted[c] :
        n + Limit \in DOMAIN granted[c] => granted[c][n + Limit] >= granted[c][n] + Window

\* It does no more than that: it would refuse a client now only if Limit of its
\* attempts were let pass in the last window.  Refused attempts do not count.
RefusesOnlyExcess ==
    \A c \in Clients :
        Cardinality(Kept(c)) >= Limit =>
            /\ Len(granted[c]) >= Limit
            /\ granted[c][Len(granted[c]) - Limit + 1] > clock - Window

\* session_test.go: "revoked session must not authenticate".  A check that began
\* when its token had been logged out does not accept it.  The clock is read
\* twice, and the mutex is taken in between: a check that began in the last
\* instant of a token may find it expired, forget that it was logged out, and
\* accept it.
LoggedOutIsRefused ==
    [][\A r \in Requests :
          Accept(r) /\ requests[r].late => Expired(requests[r].token)]_vars
=============================================================================
