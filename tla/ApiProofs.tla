----------------------------- MODULE ApiProofs -----------------------------
(* Theorems about what the server offers to a browser, for every value of    *)
(* the constants, with machine-checked proofs: Sessions, and LiveFeed.       *)
(*                                                                           *)
(* Sessions. Whatever is deleted from the log, an attempt that is younger    *)
(* than a window stays in it. As the history is ordered in time, the         *)
(* attempts that are kept are its last ones; so there are Limit of them when *)
(* the Limit-th last is young, and fewer when it is not. In the same way a   *)
(* token that was logged out stays in the map until it has expired.          *)
(*                                                                           *)
(* LiveFeed. If the tab missed no message of an alert, what is on its way of *)
(* it turns what is shown into what the table says, and so it does with an   *)
(* overview that was read and not loaded yet. For that the firing message    *)
(* must be ahead of the others, and a message must not be published before   *)
(* its row is written.                                                       *)
EXTENDS Sessions, LiveFeed, FiniteSetTheorems, SequenceTheorems, TLAPS

-----------------------------------------------------------------------------
(* Sessions *)

\* The history is ordered, and none of it is in the future.
Ordered ==
    \A c \in Clients : \A n \in DOMAIN granted[c] :
        /\ granted[c][n] <= clock
        /\ \A m \in 1..n : granted[c][m] <= granted[c][n]

\* Young attempts are in the log.
Remembers ==
    \A c \in Clients : \A n \in DOMAIN granted[c] :
        granted[c][n] > clock - Window => n \in attempts[c]

\* Tokens that are signed, held by a request or logged out were issued; and
\* those that were logged out are in the map or have expired.
Issued ==
    /\ \A t \in signed \cup loggedOut : expiry[t] > 0
    /\ \A r \in Requests : requests[r] # NoRequest =>
          /\ expiry[requests[r].token] > 0
          /\ requests[r].late => requests[r].token \in loggedOut

RevokedIsRemembered == \A t \in loggedOut : Expired(t) \/ t \in revoked

IInv ==
    /\ TypeOK
    /\ Ordered
    /\ Remembers
    /\ WithinLimit
    /\ Issued
    /\ RevokedIsRemembered

-----------------------------------------------------------------------------
(* What is kept *)

\* The log holds places of the history.
LEMMA LogInHistory ==
    ASSUME TypeOK, NEW c \in Clients
    PROVE  /\ Len(granted[c]) \in Nat
           /\ DOMAIN granted[c] = 1..Len(granted[c])
           /\ attempts[c] \subseteq 1..Len(granted[c])
           /\ \A n \in 1..Len(granted[c]) : granted[c][n] \in Nat
<1>1. granted[c] \in Seq(Times)
  BY DEF TypeOK
<1>2. \A n \in 1..Len(granted[c]) : granted[c][n] \in Times
  BY <1>1
<1> QED
  BY <1>1, <1>2 DEF TypeOK, Times

\* The size of an interval of places, and of a part of it.
LEMMA PartOfInterval ==
    ASSUME NEW a \in Int, NEW b \in Int, a <= b + 1, NEW S \in SUBSET (a..b)
    PROVE  /\ IsFiniteSet(S)
           /\ Cardinality(S) \in Nat
           /\ Cardinality(S) <= b - a + 1
           /\ Cardinality(a..b) = b - a + 1
<1>1. IsFiniteSet(a..b) /\ Cardinality(a..b) = b - a + 1
  <2>1. IsFiniteSet(a..b) /\ Cardinality(a..b) = IF a > b THEN 0 ELSE b - a + 1
    BY FS_Interval
  <2> QED
    BY <2>1
<1>2. IsFiniteSet(S) /\ Cardinality(S) <= Cardinality(a..b)
  BY <1>1, FS_Subset
<1>3. Cardinality(S) \in Nat
  BY <1>2, FS_CardinalityType
<1> QED
  BY <1>1, <1>2, <1>3

\* When Limit attempts are kept, the Limit-th last one is young ...
LEMMA KeptAreLast ==
    ASSUME IInv, NEW c \in Clients, Cardinality(Kept(c)) >= Limit
    PROVE  /\ Len(granted[c]) >= Limit
           /\ granted[c][Len(granted[c]) - Limit + 1] > clock - Window
<1> DEFINE L == Len(granted[c])
           K == Kept(c)
<1>1. /\ L \in Nat
      /\ K \in SUBSET (1..L)
      /\ \A n \in 1..L : granted[c][n] \in Nat
      /\ clock \in Nat /\ Window \in Nat /\ Limit \in Nat \ {0}
  BY LogInHistory, SessionsAssumption DEF IInv, TypeOK, Times, Kept
<1>2. Cardinality(K) \in Nat /\ Cardinality(K) <= L
  <2>1. 1 \in Int /\ L \in Int /\ 1 <= L + 1
    BY <1>1
  <2>2. Cardinality(K) \in Nat /\ Cardinality(K) <= L - 1 + 1
    BY <2>1, <1>1, PartOfInterval
  <2> QED
    BY <2>2, <1>1
<1>3. L >= Limit
  BY <1>1, <1>2
<1>4. ASSUME granted[c][L - Limit + 1] <= clock - Window
      PROVE  FALSE
  <2>1. L - Limit + 1 \in 1..L
    BY <1>1, <1>3
  <2>2. \A n \in 1..(L - Limit + 1) : granted[c][n] <= clock - Window
    <3> TAKE n \in 1..(L - Limit + 1)
    <3>1. granted[c][n] <= granted[c][L - Limit + 1]
      BY <2>1, LogInHistory DEF IInv, Ordered
    <3>2. n \in 1..L
      BY <1>1, <1>3
    <3>3. granted[c][n] \in Nat /\ granted[c][L - Limit + 1] \in Nat /\ clock - Window \in Int
      BY <3>2, <2>1, <1>1
    <3> QED
      BY <3>1, <3>3, <1>4
  <2>3. \A n \in K : granted[c][n] > clock - Window
    BY DEF Kept
  <2>4. K \in SUBSET ((L - Limit + 2)..L)
    <3> SUFFICES ASSUME NEW n \in K PROVE n \in (L - Limit + 2)..L
      OBVIOUS
    <3>1. n \in 1..L /\ granted[c][n] > clock - Window
      BY <1>1, <2>3
    <3>2. ~(n <= L - Limit + 1)
      BY <3>1, <2>2, <1>1
    <3> QED
      BY <3>1, <3>2, <1>1
  <2>5. Cardinality(K) <= Limit - 1
    <3>1. L - Limit + 2 \in Int /\ L \in Int /\ L - Limit + 2 <= L + 1
      BY <1>1
    <3>2. Cardinality(K) <= L - (L - Limit + 2) + 1
      BY <3>1, <2>4, PartOfInterval
    <3> QED
      BY <3>2, <1>1
  <2> QED
    BY <2>5, <1>1, <1>2
<1>5. granted[c][L - Limit + 1] \in Nat
  BY <1>1, <1>3
<1> QED
  BY <1>1, <1>3, <1>4, <1>5

\* ... and when fewer are kept, the Limit-th last one, if any, is not.
LEMMA FewerAreKept ==
    ASSUME IInv, NEW c \in Clients, Cardinality(Kept(c)) < Limit,
           Len(granted[c]) >= Limit
    PROVE  granted[c][Len(granted[c]) - Limit + 1] <= clock - Window
<1> DEFINE L == Len(granted[c])
           f == L - Limit + 1
<1>1. /\ L \in Nat /\ DOMAIN granted[c] = 1..L
      /\ Kept(c) \in SUBSET (1..L)
      /\ \A n \in 1..L : granted[c][n] \in Nat
      /\ clock \in Nat /\ Window \in Nat /\ Limit \in Nat \ {0}
  BY LogInHistory, SessionsAssumption DEF IInv, TypeOK, Times, Kept
<1>2. f \in 1..L
  BY <1>1
<1>3. ASSUME granted[c][f] > clock - Window PROVE FALSE
  <2>1. \A n \in f..L : n \in Kept(c)
    <3> TAKE n \in f..L
    <3>1. n \in 1..L /\ f \in 1..n
      BY <1>1, <1>2
    <3>2. granted[c][f] <= granted[c][n]
      BY <3>1, <1>1 DEF IInv, Ordered
    <3>3. granted[c][n] \in Nat /\ granted[c][f] \in Nat /\ clock - Window \in Int
      BY <3>1, <1>2, <1>1
    <3>4. granted[c][n] > clock - Window
      BY <3>2, <3>3, <1>3
    <3> QED
      BY <3>1, <3>4, <1>1 DEF IInv, Remembers, Kept
  <2>2. f..L \in SUBSET Kept(c)
    BY <2>1
  <2>3. IsFiniteSet(Kept(c)) /\ Cardinality(Kept(c)) \in Nat
    <3>1. 1 \in Int /\ L \in Int /\ 1 <= L + 1
      BY <1>1
    <3> QED
      BY <3>1, <1>1, PartOfInterval
  <2>4. Cardinality(f..L) <= Cardinality(Kept(c))
    BY <2>2, <2>3, FS_Subset
  <2>5. Cardinality(f..L) = L - f + 1
    BY <1>1, PartOfInterval
  <2> QED
    BY <2>3, <2>4, <2>5, <1>1
<1> QED
  BY <1>1, <1>2, <1>3

-----------------------------------------------------------------------------
(* Types *)

LEMMA InitInvariant == Init => IInv
  BY SessionsAssumption DEF Init, IInv, TypeOK, Ordered, Remembers, WithinLimit, Issued,
     RevokedIsRemembered, Times

\* What Allow does to the log, and to that of other clients.
LEMMA AllowLog ==
    ASSUME TypeOK, NEW c \in Clients, Allow(c)
    PROVE  /\ granted' = [granted EXCEPT ![c] = Append(granted[c], clock)]
           /\ attempts'[c] = Kept(c) \cup {Len(granted[c]) + 1}
           /\ \A d \in Clients \ {c} :
                 attempts'[d] = attempts[d] \/ (attempts'[d] = {} /\ Idle(d))
           /\ DOMAIN attempts' = Clients
           /\ attempts' = [d \in Clients |-> attempts'[d]]
           /\ clients' \in SUBSET Clients
  BY DEF Allow, TypeOK

\* Every action keeps the types.
LEMMA TypeStep == ASSUME TypeOK, [Next]_vars PROVE TypeOK'
<1> USE DEF limiter, sessions
<1>1. CASE Tick
  BY <1>1, SessionsAssumption DEF Tick, TypeOK, Times
<1>2. ASSUME NEW c \in Clients, Allow(c) PROVE TypeOK'
  <2>1. /\ granted[c] \in Seq(Times) /\ clock \in Times
        /\ granted' = [granted EXCEPT ![c] = Append(granted[c], clock)]
    BY <1>2, AllowLog DEF TypeOK
  <2>2. /\ Append(granted[c], clock) \in Seq(Times)
        /\ Len(Append(granted[c], clock)) = Len(granted[c]) + 1
        /\ Len(granted[c]) \in Nat
        /\ DOMAIN Append(granted[c], clock) = 1..(Len(granted[c]) + 1)
        /\ DOMAIN granted[c] = 1..Len(granted[c])
    BY <2>1
  <2>3. granted' \in [Clients -> Seq(Times)]
    BY <2>1, <2>2 DEF TypeOK
  <2>4. \A d \in Clients : attempts'[d] \subseteq DOMAIN granted'[d]
    <3> TAKE d \in Clients
    <3>1. CASE d = c
      <4>1. Kept(c) \subseteq 1..Len(granted[c])
        BY <2>2 DEF TypeOK, Kept
      <4>2. Kept(c) \cup {Len(granted[c]) + 1} \subseteq 1..(Len(granted[c]) + 1)
        BY <4>1, <2>2
      <4>3. granted'[c] = Append(granted[c], clock)
        BY <2>1 DEF TypeOK
      <4> QED
        BY <3>1, <4>2, <4>3, <2>2, <1>2, AllowLog
    <3>2. CASE d # c
      BY <3>2, <1>2, <2>1, AllowLog DEF TypeOK
    <3> QED
      BY <3>1, <3>2
  <2>5. \A d \in Clients : DOMAIN granted'[d] \subseteq Nat \ {0}
    <3> TAKE d \in Clients
    <3>1. granted'[d] \in Seq(Times)
      BY <2>3
    <3> QED
      BY <3>1
  <2>6. attempts' \in [Clients -> SUBSET (Nat \ {0})]
    <3>1. \A d \in Clients : attempts'[d] \in SUBSET (Nat \ {0})
      BY <2>4, <2>5
    <3> QED
      BY <3>1, <1>2, AllowLog
  <2>7. clients' \in SUBSET Clients /\ checking' \in SUBSET Clients
    BY <1>2, AllowLog DEF Allow, TypeOK
  <2> QED
    BY <1>2, <2>3, <2>4, <2>6, <2>7 DEF Allow, TypeOK
<1>3. ASSUME NEW c \in Clients, Refuse(c) PROVE TypeOK'
  BY <1>3 DEF Refuse, TypeOK, Kept
<1>4. ASSUME NEW c \in Clients, Reject(c) PROVE TypeOK'
  BY <1>4 DEF Reject, TypeOK
<1>5. ASSUME NEW c \in Clients, NEW t \in Tokens, Issue(c, t) PROVE TypeOK'
  <2>1. clock + TTL \in 0..(MaxTime + TTL)
    BY SessionsAssumption DEF TypeOK, Times
  <2> QED
    BY <1>5, <2>1 DEF Issue, TypeOK
<1>6. ASSUME NEW r \in Requests, NEW t \in Tokens, BeginCheck(r, t) \/ BeginLogout(r, t) PROVE TypeOK'
  <2>1. \A q \in {"check", "logout"}, b \in BOOLEAN : [step |-> q, token |-> t, late |-> b] \in Request
    BY DEF Request
  <2>2. requests' \in [Requests -> Request \cup {NoRequest}]
    <3>1. requests \in [Requests -> Request \cup {NoRequest}]
      BY DEF TypeOK
    <3>2. \E q \in Request : requests' = [requests EXCEPT ![r] = q]
      <4>1. CASE BeginCheck(r, t)
        <5>1. PICK b \in BOOLEAN : b = (t \in loggedOut)
          <6>1. (t \in loggedOut) \in BOOLEAN
            OBVIOUS
          <6> QED
            BY <6>1, Zenon
        <5>2. requests' = [requests EXCEPT ![r] = [step |-> "check", token |-> t, late |-> b]]
          BY <4>1, <5>1 DEF BeginCheck
        <5> QED
          BY <5>2, <2>1
      <4>2. CASE BeginLogout(r, t)
        BY <4>2, <2>1 DEF BeginLogout
      <4> QED
        BY <4>1, <4>2, <1>6
    <3> QED
      BY <3>1, <3>2
  <2> QED
    BY <1>6, <2>2 DEF BeginCheck, BeginLogout, TypeOK
<1>7. ASSUME NEW r \in Requests, Accept(r) \/ Deny(r) \/ Logout(r) PROVE TypeOK'
  <2>1. CASE Accept(r) \/ Deny(r)
    BY <2>1 DEF Accept, Deny, Finish, Pruned, TypeOK
  <2>2. CASE Logout(r)
    <3>1. requests[r] \in Request
      BY <2>2 DEF Logout, TypeOK, NoRequest
    <3>2. requests[r].token \in Tokens
      BY <3>1 DEF Request
    <3> QED
      BY <2>2, <3>2 DEF Logout, Finish, TypeOK
  <2> QED
    BY <1>7, <2>1, <2>2
<1>8. CASE Restart
  BY <1>8, SessionsAssumption DEF Restart, TypeOK
<1>9. CASE UNCHANGED vars
  BY <1>9 DEF vars, TypeOK
<1> QED
  BY <1>1, <1>2, <1>3, <1>4, <1>5, <1>6, <1>7, <1>8, <1>9 DEF Next

-----------------------------------------------------------------------------
(* The limiter *)

LimiterInv == Ordered /\ Remembers /\ WithinLimit

\* Time passes, and what was young may be young no longer.
LEMMA LimiterAges ==
    ASSUME IInv, Tick
    PROVE  LimiterInv'
<1>1. /\ clock' = clock + 1 /\ granted' = granted /\ attempts' = attempts
      /\ clock \in Nat /\ Window \in Nat
  BY SessionsAssumption DEF Tick, limiter, IInv, TypeOK, Times
<1>2. \A c \in Clients : \A n \in DOMAIN granted[c] : granted[c][n] \in Nat
  BY LogInHistory DEF IInv
<1>3. Ordered'
  BY <1>1, <1>2 DEF IInv, Ordered
<1>4. Remembers'
  BY <1>1, <1>2 DEF IInv, Remembers
<1>5. WithinLimit'
  BY <1>1 DEF IInv, WithinLimit
<1> QED
  BY <1>3, <1>4, <1>5 DEF LimiterInv

\* Refusing an attempt, a step of a request, and a restart.
LEMMA LimiterStays ==
    ASSUME IInv, clock' = clock,
           \/ granted' = granted /\ attempts' = attempts
           \/ \E c \in Clients : Refuse(c)
           \/ Restart
    PROVE  LimiterInv'
<1>1. CASE granted' = granted /\ attempts' = attempts
  BY <1>1 DEF IInv, LimiterInv, Ordered, Remembers, WithinLimit
<1>2. ASSUME NEW c \in Clients, Refuse(c) PROVE LimiterInv'
  BY <1>2 DEF IInv, TypeOK, LimiterInv, Refuse, Kept, Ordered, Remembers, WithinLimit
<1>3. CASE Restart
  <2>1. \A c \in Clients : DOMAIN granted'[c] = {}
    BY <1>3 DEF Restart
  <2> QED
    BY <2>1 DEF LimiterInv, Ordered, Remembers, WithinLimit
<1> QED
  BY <1>1, <1>2, <1>3

\* An attempt is let pass: it is the youngest, all young ones are kept, and
\* the one Limit places before it is not young.
LEMMA LimiterAllows ==
    ASSUME IInv, NEW c \in Clients, Allow(c)
    PROVE  LimiterInv'
<1> DEFINE L == Len(granted[c])
<1>1. /\ L \in Nat /\ DOMAIN granted[c] = 1..L
      /\ \A d \in Clients : \A n \in DOMAIN granted[d] : granted[d][n] \in Nat
      /\ clock \in Nat /\ Window \in Nat \ {0} /\ Limit \in Nat \ {0}
      /\ granted[c] \in Seq(Times) /\ clock \in Times
      /\ clock' = clock
  BY LogInHistory, SessionsAssumption DEF IInv, TypeOK, Times, Allow
<1>2. /\ \A d \in Clients \ {c} : granted'[d] = granted[d]
      /\ granted'[c] = Append(granted[c], clock)
  BY AllowLog DEF IInv, TypeOK
<1>3. /\ DOMAIN granted'[c] = 1..(L + 1)
      /\ granted'[c][L + 1] = clock
      /\ \A n \in 1..L : granted'[c][n] = granted[c][n]
  BY <1>1, <1>2
<1>4. Ordered'
  <2> SUFFICES ASSUME NEW d \in Clients, NEW n \in DOMAIN granted'[d]
               PROVE  /\ granted'[d][n] <= clock
                      /\ \A m \in 1..n : granted'[d][m] <= granted'[d][n]
    BY <1>1 DEF Ordered
  <2>1. CASE d # c
    BY <2>1, <1>2 DEF IInv, Ordered
  <2>2. CASE d = c /\ n \in 1..L
    <3>1. \A m \in 1..n : granted'[c][m] = granted[c][m]
      BY <2>2, <1>1, <1>3
    <3> QED
      BY <2>2, <3>1, <1>1, <1>3 DEF IInv, Ordered
  <2>3. CASE d = c /\ n = L + 1
    <3>1. \A m \in 1..L : granted'[c][m] <= clock
      BY <1>1, <1>3 DEF IInv, Ordered
    <3>2. \A m \in 1..(L + 1) : m \in 1..L \/ m = L + 1
      BY <1>1
    <3> QED
      BY <2>3, <3>1, <3>2, <1>1, <1>3
  <2>4. d = c => n \in 1..L \/ n = L + 1
    BY <1>1, <1>3
  <2> QED
    BY <2>1, <2>2, <2>3, <2>4
<1>5. Remembers'
  <2> SUFFICES ASSUME NEW d \in Clients, NEW n \in DOMAIN granted'[d],
                      granted'[d][n] > clock - Window
               PROVE  n \in attempts'[d]
    BY <1>1 DEF Remembers
  <2>1. CASE d # c
    <3>1. granted'[d] = granted[d] /\ n \in DOMAIN granted[d]
      BY <2>1, <1>2
    <3>2. n \in attempts[d]
      BY <3>1 DEF IInv, Remembers
    <3>3. ~Idle(d)
      BY <3>1, <3>2, <1>1 DEF Idle
    <3> QED
      BY <2>1, <3>2, <3>3, AllowLog DEF IInv
  <2>2. CASE d = c /\ n \in 1..L
    <3>1. granted[c][n] > clock - Window /\ n \in DOMAIN granted[c]
      BY <2>2, <1>1, <1>3
    <3>2. n \in Kept(c)
      BY <3>1 DEF IInv, Remembers, Kept
    <3> QED
      BY <2>2, <3>2, AllowLog DEF IInv
  <2>3. CASE d = c /\ n = L + 1
    BY <2>3, AllowLog DEF IInv
  <2>4. d = c => n \in 1..L \/ n = L + 1
    BY <1>1, <1>3
  <2> QED
    BY <2>1, <2>2, <2>3, <2>4
<1>6. WithinLimit'
  <2> SUFFICES ASSUME NEW d \in Clients, NEW n \in DOMAIN granted'[d],
                      n + Limit \in DOMAIN granted'[d]
               PROVE  granted'[d][n + Limit] >= granted'[d][n] + Window
    BY DEF WithinLimit
  <2>1. CASE d # c
    BY <2>1, <1>2 DEF IInv, WithinLimit
  <2>2. CASE d = c /\ n + Limit \in 1..L
    <3>1. n \in 1..L
      BY <2>2, <1>1, <1>3
    <3>2. granted[c][n + Limit] >= granted[c][n] + Window
      BY <2>2, <3>1, <1>1 DEF IInv, WithinLimit
    <3> QED
      BY <2>2, <3>1, <3>2, <1>3
  <2>3. CASE d = c /\ n + Limit = L + 1
    <3>1. L >= Limit /\ n = L - Limit + 1 /\ n \in 1..L
      BY <2>3, <1>1, <1>3
    <3>2. Cardinality(Kept(c)) < Limit
      BY DEF Allow
    <3>3. granted[c][n] <= clock - Window
      BY <3>1, <3>2, FewerAreKept
    <3>4. granted'[c][n] = granted[c][n] /\ granted'[c][n + Limit] = clock
      BY <2>3, <3>1, <1>3
    <3>5. granted[c][n] \in Nat
      BY <3>1, <1>1
    <3> QED
      BY <2>3, <3>3, <3>4, <3>5, <1>1
  <2>4. d = c => n + Limit \in 1..L \/ n + Limit = L + 1
    BY <1>1, <1>3
  <2> QED
    BY <2>1, <2>2, <2>3, <2>4
<1> QED
  BY <1>4, <1>5, <1>6 DEF LimiterInv

-----------------------------------------------------------------------------
(* Tokens *)

TokensInv == Issued /\ RevokedIsRemembered

\* Time passes: a token that has expired stays expired.
LEMMA TokensAge ==
    ASSUME IInv, clock' \in {clock, clock + 1}, UNCHANGED sessions
    PROVE  TokensInv'
<1>1. clock \in Nat /\ expiry \in [Tokens -> Nat] /\ loggedOut \in SUBSET Tokens
  BY SessionsAssumption DEF IInv, TypeOK, Times
<1>2. Issued'
  BY DEF sessions, IInv, Issued
<1>3. RevokedIsRemembered'
  BY <1>1 DEF sessions, IInv, RevokedIsRemembered, Expired
<1> QED
  BY <1>2, <1>3 DEF TokensInv

\* A new token expires later, and nobody logged it out.
LEMMA TokensIssued ==
    ASSUME IInv, NEW c \in Clients, NEW t \in Tokens, Issue(c, t)
    PROVE  TokensInv'
<1>1. /\ clock \in Nat /\ TTL \in Nat \ {0} /\ expiry \in [Tokens -> Nat]
      /\ loggedOut \in SUBSET Tokens /\ signed \in SUBSET Tokens
      /\ \A r \in Requests : requests[r] # NoRequest => requests[r].token \in Tokens
  BY SessionsAssumption DEF IInv, TypeOK, Times, Request
<1>2. /\ expiry' = [expiry EXCEPT ![t] = clock + TTL]
      /\ expiry[t] = 0
      /\ signed' = signed \cup {t}
      /\ requests' = requests /\ loggedOut' = loggedOut /\ revoked' = revoked /\ clock' = clock
  BY DEF Issue
<1>3. t \notin loggedOut
  BY <1>1, <1>2 DEF IInv, Issued
<1>4. /\ expiry'[t] > 0
      /\ \A u \in Tokens \ {t} : expiry'[u] = expiry[u]
  BY <1>1, <1>2
<1>5. Issued'
  BY <1>1, <1>2, <1>4 DEF IInv, Issued
<1>6. RevokedIsRemembered'
  BY <1>1, <1>2, <1>3, <1>4 DEF IInv, RevokedIsRemembered, Expired
<1> QED
  BY <1>5, <1>6 DEF TokensInv

\* The steps of a request.
LEMMA TokensRequest ==
    ASSUME IInv, NEW r \in Requests,
           \/ \E t \in Tokens : BeginCheck(r, t) \/ BeginLogout(r, t)
           \/ Accept(r) \/ Deny(r) \/ Logout(r)
    PROVE  TokensInv'
<1>1. /\ requests \in [Requests -> Request \cup {NoRequest}]
      /\ clock' = clock /\ expiry' = expiry /\ signed' = signed
  BY DEF IInv, TypeOK, BeginCheck, BeginLogout, Accept, Deny, Logout
<1>2. ASSUME NEW t \in Tokens, BeginCheck(r, t) \/ BeginLogout(r, t) PROVE TokensInv'
  <2>1. /\ t \in signed /\ expiry[t] > 0
        /\ loggedOut' = loggedOut /\ revoked' = revoked
    BY <1>2 DEF BeginCheck, BeginLogout, Parses, IInv, Issued
  <2>2. /\ requests'[r].token = t
        /\ requests'[r].late => t \in loggedOut
        /\ \A q \in Requests \ {r} : requests'[q] = requests[q]
    <3>1. \E b \in BOOLEAN, q \in {"check", "logout"} :
             /\ requests' = [requests EXCEPT ![r] = [step |-> q, token |-> t, late |-> b]]
             /\ b => t \in loggedOut
      <4>1. PICK b \in BOOLEAN : b = (t \in loggedOut)
        <5>1. (t \in loggedOut) \in BOOLEAN
          OBVIOUS
        <5> QED
          BY <5>1, Zenon
      <4>2. BeginCheck(r, t) =>
              requests' = [requests EXCEPT ![r] = [step |-> "check", token |-> t, late |-> b]]
        BY <4>1 DEF BeginCheck
      <4>3. BeginLogout(r, t) =>
              requests' = [requests EXCEPT ![r] = [step |-> "logout", token |-> t, late |-> FALSE]]
        BY DEF BeginLogout
      <4> QED
        BY <1>2, <4>1, <4>2, <4>3
    <3> QED
      BY <1>1, <3>1
  <2>3. Issued'
    BY <1>1, <2>1, <2>2 DEF IInv, Issued
  <2>4. RevokedIsRemembered'
    BY <1>1, <2>1 DEF IInv, RevokedIsRemembered, Expired
  <2> QED
    BY <2>3, <2>4 DEF TokensInv
<1>3. CASE Accept(r) \/ Deny(r)
  <2>1. /\ requests' = [requests EXCEPT ![r] = NoRequest]
        /\ revoked' = Pruned /\ loggedOut' = loggedOut
    BY <1>3 DEF Accept, Deny, Finish
  <2>2. Issued'
    BY <1>1, <2>1 DEF IInv, Issued
  <2>3. RevokedIsRemembered'
    BY <1>1, <2>1 DEF IInv, RevokedIsRemembered, Expired, Pruned
  <2> QED
    BY <2>2, <2>3 DEF TokensInv
<1>4. CASE Logout(r)
  <2>1. /\ requests' = [requests EXCEPT ![r] = NoRequest]
        /\ revoked' = revoked \cup {requests[r].token}
        /\ loggedOut' = loggedOut \cup {requests[r].token}
        /\ requests[r] # NoRequest
    BY <1>4 DEF Logout, Finish, NoRequest
  <2>2. Issued'
    BY <1>1, <2>1 DEF IInv, Issued
  <2>3. RevokedIsRemembered'
    BY <1>1, <2>1 DEF IInv, RevokedIsRemembered, Expired
  <2> QED
    BY <2>2, <2>3 DEF TokensInv
<1> QED
  BY <1>2, <1>3, <1>4

-----------------------------------------------------------------------------
(* Theorems *)

LEMMA NextInvariant == ASSUME IInv, [Next]_vars PROVE IInv'
<1> USE DEF limiter, sessions
<1>1. TypeOK'
  BY TypeStep DEF IInv
<1>2. LimiterInv' /\ TokensInv'
  <2>1. CASE Tick
    <3>1. clock' = clock + 1 /\ UNCHANGED sessions
      BY <2>1 DEF Tick
    <3> QED
      BY <2>1, <3>1, LimiterAges, TokensAge
  <2>2. ASSUME NEW c \in Clients, Allow(c) PROVE LimiterInv' /\ TokensInv'
    <3>1. clock' = clock /\ UNCHANGED sessions
      BY <2>2 DEF Allow
    <3> QED
      BY <2>2, <3>1, LimiterAllows, TokensAge
  <2>3. ASSUME NEW c \in Clients, Refuse(c) \/ Reject(c) PROVE LimiterInv' /\ TokensInv'
    <3>1. clock' = clock /\ UNCHANGED sessions
      BY <2>3 DEF Refuse, Reject
    <3>2. Reject(c) => granted' = granted /\ attempts' = attempts
      BY DEF Reject
    <3> QED
      BY <2>3, <3>1, <3>2, LimiterStays, TokensAge
  <2>4. ASSUME NEW c \in Clients, NEW t \in Tokens, Issue(c, t) PROVE LimiterInv' /\ TokensInv'
    <3>1. clock' = clock /\ granted' = granted /\ attempts' = attempts
      BY <2>4 DEF Issue
    <3> QED
      BY <2>4, <3>1, LimiterStays, TokensIssued
  <2>5. ASSUME NEW r \in Requests,
               \/ \E t \in Tokens : BeginCheck(r, t) \/ BeginLogout(r, t)
               \/ Accept(r) \/ Deny(r) \/ Logout(r)
        PROVE  LimiterInv' /\ TokensInv'
    <3>1. clock' = clock /\ granted' = granted /\ attempts' = attempts
      BY <2>5 DEF BeginCheck, BeginLogout, Accept, Deny, Logout
    <3> QED
      BY <2>5, <3>1, LimiterStays, TokensRequest
  <2>6. CASE Restart
    <3>1. clock' = clock
      BY <2>6 DEF Restart
    <3>2. LimiterInv'
      BY <2>6, <3>1, LimiterStays
    <3>3. Issued'
      BY <2>6 DEF Restart, IInv, Issued
    <3>4. RevokedIsRemembered'
      BY <2>6 DEF Restart, RevokedIsRemembered
    <3> QED
      BY <3>2, <3>3, <3>4 DEF TokensInv
  <2>7. CASE UNCHANGED vars
    <3>1. clock' = clock /\ granted' = granted /\ attempts' = attempts /\ UNCHANGED sessions
      BY <2>7 DEF vars
    <3> QED
      BY <3>1, LimiterStays, TokensAge
  <2> QED
    BY <2>1, <2>2, <2>3, <2>4, <2>5, <2>6, <2>7 DEF Next
<1> QED
  BY <1>1, <1>2 DEF IInv, LimiterInv, TokensInv

\* Young attempts stay in the log, and tokens that were logged out stay in the
\* map until they expire, in every reachable state.
THEOREM Invariance == Spec => []IInv
  BY InitInvariant, NextInvariant, PTL DEF Spec

\* Types are kept; the log holds only attempts that were let pass.
THEOREM TypeCorrect == Spec => []TypeOK
<1>1. IInv => TypeOK
  BY DEF IInv
<1> QED
  BY <1>1, Invariance, PTL

\* Of any Limit + 1 attempts that were let pass in a row, the last came at
\* least a window after the first, for every limit, window and capacity.
THEOREM NeverMoreThanLimit == Spec => []WithinLimit
<1>1. IInv => WithinLimit
  BY DEF IInv
<1> QED
  BY <1>1, Invariance, PTL

\* A client is refused only when it has used up its attempts of the window.
THEOREM NoOtherIsRefused == Spec => []RefusesOnlyExcess
<1>1. IInv => RefusesOnlyExcess
  BY KeptAreLast DEF RefusesOnlyExcess
<1> QED
  BY <1>1, Invariance, PTL

\* A check that began when its token had been logged out accepts it only if
\* the token has expired by then.
THEOREM LoggedOutStaysOut == Spec => LoggedOutIsRefused
<1>1. IInv /\ [Next]_vars =>
        [\A r \in Requests : Accept(r) /\ requests[r].late => Expired(requests[r].token)]_vars
  <2> SUFFICES ASSUME IInv, NEW r \in Requests, Accept(r), requests[r].late
               PROVE  Expired(requests[r].token)
    OBVIOUS
  <2>1. requests[r] # NoRequest /\ requests[r].token \notin Pruned
    BY DEF Accept, NoRequest
  <2>2. requests[r].token \in loggedOut
    BY <2>1 DEF IInv, Issued
  <2> QED
    BY <2>1, <2>2 DEF IInv, RevokedIsRemembered, Pruned
<1> QED
  BY <1>1, Invariance, PTL DEF Spec, LoggedOutIsRefused

-----------------------------------------------------------------------------
(* LiveFeed: messages and types *)

\* The messages of an alert.
FiringOf(a)   == [type |-> "firing", id |-> a]
ResolvedOf(a) == [type |-> "resolved", id |-> a]
AckedOf(a)    == [type |-> "acked", id |-> a]

\* A connection that was not made, or is broken, has no messages waiting.
Lines ==
    /\ \A c \in Conns : c > tab => serve[c] = "new"
    /\ \A c \in cut : buffer[c] = <<>> /\ serve[c] # "new"
    /\ link = "waiting" => tab = 0 \/ tab \in cut
    /\ tab = 0 => link = "waiting"

\* What the subscription of the tab holds.
Inbox == IF tab = 0 THEN <<>> ELSE buffer[tab]

LEMMA MessageFacts ==
    /\ NoMessage \notin Message
    /\ NoMessage.type = "none"
    /\ \A a \in Alerts : {FiringOf(a), ResolvedOf(a), AckedOf(a)} \subseteq Message
    /\ \A v \in Versions : [type |-> "containers", version |-> v] \in Message
    /\ \A m \in Message : m.type # "containers" =>
          m.id \in Alerts /\ m \in {FiringOf(m.id), ResolvedOf(m.id), AckedOf(m.id)}
  BY DEF Message, NoMessage, FiringOf, ResolvedOf, AckedOf

\* The alerts that messages are about.
LEMMA IdsType == ASSUME NEW S \in SUBSET Message PROVE Ids(S) \in SUBSET Alerts
<1>1. \A m \in S : m.type # "containers" => m.id \in Alerts
  BY MessageFacts
<1> QED
  BY <1>1, Zenon DEF Ids

\* Passing on and missing messages.
LEMMA PassType ==
    ASSUME FeedTypeOK, NEW ids \in SUBSET Alerts, Pass(ids)
    PROVE  loads' \in [Loads -> Load]
<1> SUFFICES ASSUME NEW r \in Loads PROVE loads'[r] \in Load
  BY DEF Pass
<1>1. loads[r] \in Load
  BY DEF FeedTypeOK
<1>2. [loads[r] EXCEPT !.passed = @ \cup ids] \in Load
  BY <1>1 DEF Load
<1> QED
  BY <1>1, <1>2 DEF Pass

LEMMA MissType ==
    ASSUME FeedTypeOK, NEW S \in SUBSET Message, Miss(S)
    PROVE  loads' \in [Loads -> Load] /\ doubt' \in SUBSET Alerts
<1>1. Ids(S) \in SUBSET Alerts
  BY IdsType
<1>2. loads' \in [Loads -> Load]
  BY <1>1, PassType DEF Miss
<1> QED
  BY <1>1, <1>2 DEF Miss, FeedTypeOK

LEMMA PublishType ==
    ASSUME FeedTypeOK, NEW m \in Message, Publish(m), serve' = serve
    PROVE  /\ buffer' \in [Conns -> Seq(Message)]
           /\ \A c \in Conns :
                /\ Len(buffer'[c]) <= Buffer
                /\ buffer'[c] # <<>> => serve'[c] = "subscribed"
<1> SUFFICES ASSUME NEW c \in Conns
             PROVE  /\ buffer'[c] \in Seq(Message)
                    /\ Len(buffer'[c]) <= Buffer
                    /\ buffer'[c] # <<>> => serve'[c] = "subscribed"
  BY DEF Publish
<1>0. buffer[c] \in Seq(Message) /\ Len(buffer[c]) <= Buffer /\ Len(buffer[c]) \in Nat
  BY DEF FeedTypeOK
<1>1. CASE HasRoom(c)
  <2>1. buffer'[c] = Append(buffer[c], m) /\ serve'[c] = "subscribed"
    BY <1>1 DEF Publish, HasRoom, Subscribers
  <2>2. Len(buffer[c]) < Buffer
    BY <1>1 DEF HasRoom
  <2> HIDE DEF Message
  <2> QED
    BY <1>0, <2>1, <2>2, FeedAssumption
<1>2. CASE ~HasRoom(c)
  BY <1>0, <1>2 DEF Publish, FeedTypeOK
<1> QED
  BY <1>1, <1>2

LEMMA TypeFeedInit == FeedInit => FeedTypeOK
<1> SUFFICES ASSUME FeedInit PROVE FeedTypeOK
  OBVIOUS
<1>1. loads \in [Loads -> Load]
  BY FeedAssumption DEF FeedInit, Unsent, Nothing, Load, LoadSteps, Versions, Shown, Loads
<1>2. \A c \in Conns : buffer[c] \in Seq(Message) /\ Len(buffer[c]) = 0
  BY DEF FeedInit
<1>3. snap \in [Callers -> Versions \cup {Quiet, Due}]
  BY DEF FeedInit
<1>4. containers \in Versions /\ rows \in [Alerts -> Row] /\ faults \in 0..MaxFaults /\ tab \in 0..MaxConns
  BY FeedAssumption DEF FeedInit
<1>5. /\ buffer \in [Conns -> Seq(Message)]
      /\ \A c \in Conns : Len(buffer[c]) <= Buffer /\ buffer[c] = <<>>
  BY <1>2, FeedAssumption DEF FeedInit
<1>6. /\ engine = NoMessage /\ acking = NoMessage /\ overview = NoOverview
      /\ serve \in [Conns -> {"new", "accepted", "subscribed", "gone"}]
      /\ cut = {} /\ link = "waiting" /\ doubt = {}
  BY DEF FeedInit
<1> QED
  BY <1>1, <1>3, <1>4, <1>5, <1>6 DEF FeedTypeOK

LEMMA FiringType == FeedTypeOK => Firing \in [Alerts -> Shown]
  BY DEF FeedTypeOK, Firing, Shown, Row

LEMMA TypeServer ==
    ASSUME FeedTypeOK,
           \/ ChangeQuietly \/ RefreshInventory
           \/ \E p \in Callers \ {"inventory"} : PublishAnyway(p)
           \/ \E p \in Callers : TakeSnapshot(p) \/ PublishContainers(p)
           \/ \E a \in Alerts : Fire(a) \/ Resolve(a) \/ Ack(a)
           \/ PublishAlert \/ PublishAck
    PROVE  FeedTypeOK'
<1>0. CASE ChangeQuietly \/ RefreshInventory
  <2>1. containers' \in Versions
    BY <1>0, FeedAssumption DEF ChangeQuietly, RefreshInventory, FeedTypeOK, Versions
  <2>2. snap' \in [Callers -> Versions \cup {Quiet, Due}]
    BY <1>0 DEF ChangeQuietly, RefreshInventory, FeedTypeOK
  <2> QED
    BY <1>0, <2>1, <2>2 DEF ChangeQuietly, RefreshInventory, FeedTypeOK, wire, browser
<1>1. ASSUME NEW p \in Callers, PublishAnyway(p) \/ TakeSnapshot(p) PROVE FeedTypeOK'
  <2>1. containers' \in Versions /\ snap' \in [Callers -> Versions \cup {Quiet, Due}]
    BY <1>1 DEF PublishAnyway, TakeSnapshot, FeedTypeOK
  <2> QED
    BY <1>1, <2>1 DEF PublishAnyway, TakeSnapshot, FeedTypeOK, wire, browser
<1>2. ASSUME NEW p \in Callers, PublishContainers(p) PROVE FeedTypeOK'
  <2> DEFINE m == [type |-> "containers", version |-> snap[p]]
  <2>1. m \in Message
    BY <1>2, MessageFacts DEF PublishContainers, FeedTypeOK
  <2>2. Publish(m) /\ serve' = serve
    BY <1>2 DEF PublishContainers
  <2> HIDE DEF m
  <2> QED
    <3>1. snap' \in [Callers -> Versions \cup {Quiet, Due}]
      BY <1>2 DEF PublishContainers, FeedTypeOK
    <3> QED
      BY <1>2, <2>1, <2>2, <3>1, PublishType DEF PublishContainers, FeedTypeOK, browser
<1>3. ASSUME NEW a \in Alerts, Fire(a) \/ Resolve(a) \/ Ack(a) PROVE FeedTypeOK'
  <2>1. rows' \in [Alerts -> Row]
    <3>1. \E t \in Row : rows' = [rows EXCEPT ![a] = t]
      <4>1. rows[a] \in Row
        BY DEF FeedTypeOK
      <4>2. /\ [rows[a] EXCEPT !.state = "firing"] \in Row
            /\ [rows[a] EXCEPT !.state = "resolved"] \in Row
            /\ [rows[a] EXCEPT !.acked = TRUE] \in Row
        BY <4>1 DEF Row
      <4> QED
        BY <1>3, <4>2 DEF Fire, Resolve, Ack
    <3> QED
      BY <3>1 DEF FeedTypeOK
  <2>2. engine' \in Message \cup {NoMessage} /\ acking' \in Message \cup {NoMessage}
    BY <1>3, MessageFacts DEF Fire, Resolve, Ack, FeedTypeOK, FiringOf, ResolvedOf, AckedOf
  <2> QED
    BY <1>3, <2>1, <2>2 DEF Fire, Resolve, Ack, FeedTypeOK, wire, browser
<1>4. ASSUME NEW m \in Message, NEW early \in BOOLEAN, Publish(m), Reach(m, early), serve' = serve,
             UNCHANGED <<containers, snap, rows, cut, tab, link, overview, faults>>,
             engine' \in {engine, NoMessage}, acking' \in {acking, NoMessage}
      PROVE  FeedTypeOK'
  <2>1. loads' \in [Loads -> Load] /\ doubt' \in SUBSET Alerts
    BY <1>4, MissType DEF Reach, FeedTypeOK
  <2> QED
    BY <1>4, <2>1, PublishType DEF FeedTypeOK
<1>5. CASE PublishAlert
  BY <1>4, <1>5 DEF PublishAlert, FeedTypeOK
<1>6. CASE PublishAck
  BY <1>4, <1>6 DEF PublishAck, FeedTypeOK
<1> QED
  BY <1>0, <1>1, <1>2, <1>3, <1>5, <1>6

LEMMA TypeLine ==
    ASSUME FeedTypeOK, Lines,
           NEW c \in Conns, Connect(c) \/ Subscribe(c) \/ Cut(c) \/ Return(c)
    PROVE  FeedTypeOK'
<1>1. CASE Connect(c)
  <2>1. buffer[c] = <<>>
    BY <1>1 DEF Connect, FeedTypeOK, Lines
  <2>2. serve' = [serve EXCEPT ![c] = "accepted"] /\ buffer' = buffer
    BY <1>1 DEF Connect
  <2>3. \A d \in Conns : Len(buffer'[d]) <= Buffer /\ (buffer'[d] # <<>> => serve'[d] = "subscribed")
    BY <2>1, <2>2 DEF FeedTypeOK
  <2> QED
    BY <1>1, <2>2, <2>3 DEF Connect, FeedTypeOK, server, Conns
<1>2. CASE Subscribe(c)
  BY <1>2 DEF Subscribe, FeedTypeOK, server, browser
<1>3. CASE Cut(c)
  <2> DEFINE S == {buffer[c][i] : i \in DOMAIN buffer[c]}
  <2>1. S \in SUBSET Message
    BY DEF FeedTypeOK
  <2>2. loads' \in [Loads -> Load] /\ doubt' \in SUBSET Alerts
    <3>1. Miss(S) \/ UNCHANGED <<loads, doubt>>
      BY <1>3 DEF Cut
    <3> HIDE DEF S
    <3> QED
      BY <2>1, <3>1, MissType DEF FeedTypeOK
  <2>3. buffer' = [buffer EXCEPT ![c] = <<>>]
    BY <1>3 DEF Cut
  <2>4. /\ buffer' \in [Conns -> Seq(Message)]
        /\ \A d \in Conns : Len(buffer'[d]) <= Buffer /\ (buffer'[d] # <<>> => serve[d] = "subscribed")
    BY <2>3, FeedAssumption DEF FeedTypeOK
  <2> QED
    BY <1>3, <2>2, <2>4, FeedAssumption DEF Cut, Fail, FeedTypeOK, server
<1>4. CASE Return(c)
  <2>1. buffer[c] = <<>> /\ serve' = [serve EXCEPT ![c] = "gone"] /\ buffer' = buffer
    BY <1>4 DEF Return, Lines
  <2>2. \A d \in Conns : Len(buffer'[d]) <= Buffer /\ (buffer'[d] # <<>> => serve'[d] = "subscribed")
    BY <2>1 DEF FeedTypeOK
  <2> QED
    BY <1>4, <2>1, <2>2 DEF Return, FeedTypeOK, server, browser
<1> QED
  BY <1>1, <1>2, <1>3, <1>4

LEMMA AppliedType ==
    ASSUME NEW m \in Message, NEW o \in [version : Versions, alerts : [Alerts -> Shown]]
    PROVE  Applied(o, m) \in [version : Versions, alerts : [Alerts -> Shown]]
<1>1. CASE m.type = "containers"
  BY <1>1 DEF Applied, Message
<1>2. CASE m.type # "containers"
  BY <1>2 DEF Applied, Message, Shown
<1> QED
  BY <1>1, <1>2

LEMMA TypeTab ==
    ASSUME FeedTypeOK, Lines,
           OnOpen \/ OnClose \/ Deliver \/ \E r \in Loads : ReadOverview(r) \/ Loaded(r) \/ Failed(r)
    PROVE  FeedTypeOK'
<1>1. CASE OnOpen
  <2>1. loads' \in [Loads -> Load]
    <3>1. loads[tab] \in Load
      BY DEF FeedTypeOK, Loads
    <3>2. [loads[tab] EXCEPT !.step = "asked"] \in Load
      BY <3>1 DEF Load, LoadSteps
    <3> QED
      BY <1>1, <3>2 DEF OnOpen, FeedTypeOK
  <2> QED
    BY <1>1, <2>1 DEF OnOpen, FeedTypeOK, server, wire
<1>2. CASE OnClose
  BY <1>2 DEF OnClose, FeedTypeOK, server, wire
<1>3. CASE Deliver
  <2> DEFINE m == Head(buffer[tab])
  <2>0. tab \in Conns
    BY <1>3, FeedAssumption DEF Deliver, Lines, FeedTypeOK, Conns
  <2>1. m \in Message
    BY <1>3, <2>0 DEF Deliver, FeedTypeOK
  <2>2. loads' \in [Loads -> Load] /\ doubt' \in SUBSET Alerts
    <3>1. Ids({m}) \in SUBSET Alerts
      BY <2>1, IdsType
    <3> QED
      BY <1>3, <2>1, <3>1, PassType, MissType DEF Deliver, FeedTypeOK
  <2>3. overview' = NoOverview \/ overview' \in [version : Versions, alerts : [Alerts -> Shown]]
    BY <1>3, <2>1, AppliedType DEF Deliver, FeedTypeOK
  <2>4. /\ buffer' \in [Conns -> Seq(Message)]
        /\ \A d \in Conns : Len(buffer'[d]) <= Buffer /\ (buffer'[d] # <<>> => serve[d] = "subscribed")
    <3>1. buffer' = [buffer EXCEPT ![tab] = Tail(buffer[tab])] /\ buffer[tab] # <<>>
      BY <1>3, <2>0 DEF Deliver, FeedTypeOK
    <3>2. buffer[tab] \in Seq(Message)
      BY <2>0 DEF FeedTypeOK
    <3> HIDE DEF m
    <3>3. Tail(buffer[tab]) \in Seq(Message) /\ Len(Tail(buffer[tab])) = Len(buffer[tab]) - 1
      BY <3>1, <3>2
    <3>4. Len(Tail(buffer[tab])) <= Buffer
      BY <2>0, <3>2, <3>3, FeedAssumption DEF FeedTypeOK
    <3> QED
      BY <2>0, <3>1, <3>3, <3>4 DEF FeedTypeOK
  <2> QED
    BY <1>3, <2>2, <2>3, <2>4 DEF Deliver, FeedTypeOK, server
<1>4. ASSUME NEW r \in Loads, ReadOverview(r) PROVE FeedTypeOK'
  <2>1. Firing \in [Alerts -> Shown]
    BY FiringType
  <2>2. loads' \in [Loads -> Load]
    <3>1. loads[r] \in Load
      BY DEF FeedTypeOK
    <3>2. /\ [loads[r] EXCEPT !.step = "answered", !.version = containers, !.alerts = Firing] \in Load
          /\ [loads[r] EXCEPT !.step = "answered", !.version = containers, !.passed = Alerts] \in Load
      BY <2>1, <3>1 DEF FeedTypeOK, Load, LoadSteps
    <3>3. \E l \in Load : loads' = [loads EXCEPT ![r] = l]
      BY <1>4, <3>2 DEF ReadOverview
    <3> QED
      BY <3>3 DEF FeedTypeOK
  <2>3. faults' \in 0..MaxFaults
    <3>1. faults' = faults \/ Fail
      BY <1>4, Zenon DEF ReadOverview
    <3> QED
      BY <3>1, FeedAssumption DEF Fail, FeedTypeOK
  <2> QED
    BY <1>4, <2>2, <2>3 DEF ReadOverview, FeedTypeOK, server, wire
<1>5. ASSUME NEW r \in Loads, Loaded(r) PROVE FeedTypeOK'
  <2>1. loads[r] \in Load
    BY DEF FeedTypeOK
  <2>2. [Unsent EXCEPT !.step = "done"] \in Load
    BY FeedAssumption DEF Unsent, Nothing, Load, LoadSteps, Versions, Shown
  <2> QED
    BY <1>5, <2>1, <2>2 DEF Loaded, Done, FeedTypeOK, server, wire, Load
<1>6. ASSUME NEW r \in Loads, Failed(r) PROVE FeedTypeOK'
  <2>2. [Unsent EXCEPT !.step = "done"] \in Load
    BY FeedAssumption DEF Unsent, Nothing, Load, LoadSteps, Versions, Shown
  <2> QED
    BY <1>6, <2>2, FeedAssumption DEF Failed, Fail, Done, FeedTypeOK, server, wire
<1> QED
  BY <1>1, <1>2, <1>3, <1>4, <1>5, <1>6

\* The connections.
LEMMA LinesInit == FeedInit => Lines
  BY DEF FeedInit, Lines

LEMMA LinesNext == FeedTypeOK /\ Lines /\ [FeedNext]_feedVars => Lines'
<1> SUFFICES ASSUME FeedTypeOK, Lines, [FeedNext]_feedVars PROVE Lines'
  OBVIOUS
<1>1. ASSUME NEW m, Publish(m), UNCHANGED <<serve, cut, tab, link>> PROVE Lines'
  BY <1>1 DEF Publish, HasRoom, Lines, FeedTypeOK
<1>2. CASE \/ \E p \in Callers : PublishContainers(p)
           \/ PublishAlert \/ PublishAck
  BY <1>1, <1>2 DEF PublishContainers, PublishAlert, PublishAck, browser
<1>3. CASE UNCHANGED <<serve, cut, tab, link, buffer>>
  BY <1>3 DEF Lines
<1>4. CASE \/ ChangeQuietly \/ RefreshInventory
           \/ \E p \in Callers : PublishAnyway(p) \/ TakeSnapshot(p)
           \/ \E a \in Alerts : Fire(a) \/ Resolve(a) \/ Ack(a)
           \/ \E r \in Loads : ReadOverview(r) \/ Loaded(r) \/ Failed(r)
           \/ UNCHANGED feedVars
  BY <1>3, <1>4
     DEF ChangeQuietly, RefreshInventory, PublishAnyway, TakeSnapshot, Fire, Resolve, Ack,
         ReadOverview, Loaded, Failed, wire, browser, feedVars
<1>5. ASSUME NEW c \in Conns, Connect(c) PROVE Lines'
  BY <1>5 DEF Connect, Lines, FeedTypeOK, Conns
<1>6. ASSUME NEW c \in Conns, Subscribe(c) \/ Return(c) PROVE Lines'
  BY <1>6 DEF Subscribe, Return, Lines, FeedTypeOK, browser
<1>7. ASSUME NEW c \in Conns, Cut(c) PROVE Lines'
  BY <1>7 DEF Cut, Lines, FeedTypeOK
<1>8. CASE OnOpen \/ OnClose
  BY <1>8 DEF OnOpen, OnClose, Lines, wire
<1>9. CASE Deliver
  BY <1>9 DEF Deliver, Lines, FeedTypeOK
<1> QED
  BY <1>2, <1>4, <1>5, <1>6, <1>7, <1>8, <1>9 DEF FeedNext

-----------------------------------------------------------------------------
(* Alerts *)

Waits(m) == \E i \in DOMAIN Inbox : Inbox[i] = m

OnItsWay(m) == engine = m \/ acking = m \/ Waits(m)

\* What is published was written before.
Written ==
    /\ engine # NoMessage => engine.type \in {"firing", "resolved"}
    /\ acking # NoMessage => acking.type = "acked"
    /\ \A a \in Alerts :
          /\ rows[a].acked => rows[a].state # "none"
          /\ engine = FiringOf(a) => rows[a].state = "firing"
          /\ OnItsWay(FiringOf(a)) => rows[a].state # "none"
          /\ OnItsWay(ResolvedOf(a)) => rows[a].state = "resolved"
          /\ OnItsWay(AckedOf(a)) => rows[a].acked

\* In the subscription, the firing message of an alert is ahead of the others.
FiringIsFirst(a) ==
    \A i, j \in DOMAIN Inbox :
        Inbox[i] = FiringOf(a) /\ Inbox[j] \in {ResolvedOf(a), AckedOf(a)} => i < j

\* If the tab missed no message of an alert, what follows a firing message is
\* behind it.
InTurn ==
    \A a \in Alerts \ doubt :
        /\ OnItsWay(FiringOf(a)) /\ rows[a].acked => OnItsWay(AckedOf(a))
        /\ OnItsWay(FiringOf(a)) /\ rows[a].state = "resolved" => OnItsWay(ResolvedOf(a))
        /\ engine = FiringOf(a) => ~Waits(AckedOf(a))
        /\ FiringIsFirst(a)

\* What is on its way turns what is shown into what the table says.
Leading(a) ==
    {s \in Shown : \/ s = Firing[a]
                   \/ rows[a].state = "resolved" /\ OnItsWay(ResolvedOf(a))
                   \/ rows[a].state = "firing" /\ OnItsWay(FiringOf(a))
                   \/ rows[a].state = "firing" /\ s = "firing" /\ OnItsWay(AckedOf(a))}

ShownLeads ==
    overview # NoOverview => \A a \in Alerts \ doubt : overview.alerts[a] \in Leading(a)

\* The same of overviews that were read and not loaded yet.
AnswersLead ==
    \A r \in Loads : loads[r].step = "answered" =>
        \A a \in Alerts \ loads[r].passed :
            a \notin doubt \cap Pending => loads[r].alerts[a] \in Leading(a)

FeedKept == Written /\ InTurn /\ ShownLeads /\ AnswersLead

FeedInv == FeedTypeOK /\ Lines /\ FeedKept

\* Where the messages of an alert are has not changed.
WayKept(a) ==
    \A m \in {FiringOf(a), ResolvedOf(a), AckedOf(a)} : OnItsWay(m)' <=> OnItsWay(m)

LEMMA InboxType == FeedTypeOK => Inbox \in Seq(Message)
  BY DEF FeedTypeOK, Inbox, Conns

\* Pending are the alerts of which some message is on its way.
LEMMA PendingMeans ==
    FeedTypeOK => \A a \in Alerts :
        a \in Pending <=> OnItsWay(FiringOf(a)) \/ OnItsWay(ResolvedOf(a)) \/ OnItsWay(AckedOf(a))
<1> SUFFICES ASSUME FeedTypeOK, NEW a \in Alerts
             PROVE  a \in Pending <=>
                      OnItsWay(FiringOf(a)) \/ OnItsWay(ResolvedOf(a)) \/ OnItsWay(AckedOf(a))
  OBVIOUS
<1> DEFINE S == {Inbox[i] : i \in DOMAIN Inbox}
           E == {engine, acking} \ {NoMessage}
<1>1. S \subseteq Message /\ E \subseteq Message
  <2>1. \A i \in DOMAIN Inbox : Inbox[i] \in Message
    BY InboxType
  <2> QED
    BY <2>1 DEF FeedTypeOK
<1>2. Pending = Ids(E) \cup Ids(S)
  BY DEF Pending, Inbox, Ids
<1>3. \A m \in Message : m.type # "containers" /\ m.id = a =>
                           m = FiringOf(a) \/ m = ResolvedOf(a) \/ m = AckedOf(a)
  BY MessageFacts, Zenon
<1>4. ASSUME NEW m \in {FiringOf(a), ResolvedOf(a), AckedOf(a)}
      PROVE  m.type # "containers" /\ m.id = a /\ m # NoMessage
  BY DEF FiringOf, ResolvedOf, AckedOf, NoMessage
<1>5. ASSUME NEW T \in SUBSET Message
      PROVE  a \in Ids(T) <=> FiringOf(a) \in T \/ ResolvedOf(a) \in T \/ AckedOf(a) \in T
  <2> HIDE DEF S, E
  <2>1. a \in Ids(T) <=> \E m \in T : m.type # "containers" /\ m.id = a
    BY DEF Ids
  <2>2. (\E m \in T : m.type # "containers" /\ m.id = a) <=>
           FiringOf(a) \in T \/ ResolvedOf(a) \in T \/ AckedOf(a) \in T
    BY <1>3, <1>4, Zenon
  <2> QED
    BY <2>1, <2>2
<1>6. ASSUME NEW m \in {FiringOf(a), ResolvedOf(a), AckedOf(a)}
      PROVE  OnItsWay(m) <=> m \in E \/ m \in S
  <2>1. m # NoMessage
    BY <1>4
  <2> QED
    BY <2>1, Zenon DEF OnItsWay, Waits
<1> HIDE DEF S, E
<1> QED
  BY <1>1, <1>2, <1>5, <1>6

LEMMA PendingMeansNext ==
    FeedTypeOK' => \A a \in Alerts :
        a \in Pending' <=> OnItsWay(FiringOf(a))' \/ OnItsWay(ResolvedOf(a))' \/ OnItsWay(AckedOf(a))'
<1>1. (FeedTypeOK => \A a \in Alerts :
        a \in Pending <=> OnItsWay(FiringOf(a)) \/ OnItsWay(ResolvedOf(a)) \/ OnItsWay(AckedOf(a)))'
  BY PendingMeans, PTL
<1> QED
  BY <1>1

\* No message of one alert is one of another, or no message.
LEMMA MessagesDiffer ==
    ASSUME NEW a \in Alerts, NEW b \in Alerts
    PROVE  /\ FiringOf(a) # NoMessage /\ ResolvedOf(a) # NoMessage /\ AckedOf(a) # NoMessage
           /\ FiringOf(a) # ResolvedOf(b) /\ FiringOf(a) # AckedOf(b) /\ ResolvedOf(a) # AckedOf(b)
           /\ FiringOf(a) = FiringOf(b) => a = b
           /\ ResolvedOf(a) = ResolvedOf(b) => a = b
           /\ AckedOf(a) = AckedOf(b) => a = b
  BY DEF FiringOf, ResolvedOf, AckedOf, NoMessage

LEMMA LeadingMeans ==
    ASSUME NEW a \in Alerts, NEW s
    PROVE  s \in Leading(a) <=>
             /\ s \in Shown
             /\ \/ s = Firing[a]
                \/ rows[a].state = "resolved" /\ OnItsWay(ResolvedOf(a))
                \/ rows[a].state = "firing" /\ OnItsWay(FiringOf(a))
                \/ rows[a].state = "firing" /\ s = "firing" /\ OnItsWay(AckedOf(a))
  BY Zenon DEF Leading

LEMMA LeadingMeansNext ==
    ASSUME NEW a \in Alerts, NEW s
    PROVE  s \in Leading(a)' <=>
             /\ s \in Shown
             /\ \/ s = Firing'[a]
                \/ rows'[a].state = "resolved" /\ OnItsWay(ResolvedOf(a))'
                \/ rows'[a].state = "firing" /\ OnItsWay(FiringOf(a))'
                \/ rows'[a].state = "firing" /\ s = "firing" /\ OnItsWay(AckedOf(a))'
  BY Zenon DEF Leading

\* An alert whose row and messages are as they were is led to the same.
LEMMA LeadsKept ==
    ASSUME NEW a \in Alerts, rows'[a] = rows[a], WayKept(a)
    PROVE  Leading(a)' = Leading(a)
<1>1. Firing[a] = Firing'[a]
  BY DEF Firing
<1> QED
  BY <1>1 DEF Leading, WayKept

\* A step that touches the messages of some alerts, and casts doubt on them.
LEMMA OthersShown ==
    ASSUME ShownLeads, NEW touched,
           \A a \in Alerts \ touched : rows'[a] = rows[a] /\ WayKept(a),
           doubt \cup touched \subseteq doubt',
           overview' = overview
    PROVE  ShownLeads'
<1> SUFFICES ASSUME overview' # NoOverview, NEW a \in Alerts \ doubt'
             PROVE  overview'.alerts[a] \in Leading(a)'
  BY DEF ShownLeads
<1>1. overview.alerts[a] \in Leading(a)
  BY DEF ShownLeads
<1> QED
  BY <1>1, LeadsKept

\* ... while overviews are on their way.
LEMMA OthersAnswered ==
    ASSUME FeedTypeOK, FeedTypeOK', AnswersLead, NEW touched,
           \A a \in Alerts \ touched : rows'[a] = rows[a] /\ WayKept(a),
           doubt \subseteq doubt',
           \A r \in Loads : loads'[r].step = "answered" =>
              /\ loads[r].step = "answered"
              /\ loads'[r].alerts = loads[r].alerts
              /\ loads[r].passed \cup touched \subseteq loads'[r].passed
    PROVE  AnswersLead'
<1> SUFFICES ASSUME NEW r \in Loads, loads'[r].step = "answered",
                    NEW a \in Alerts \ loads'[r].passed, a \notin doubt' \cap Pending'
             PROVE  loads'[r].alerts[a] \in Leading(a)'
  BY DEF AnswersLead
<1>1. a \notin touched /\ a \notin loads[r].passed
  OBVIOUS
<1>2. a \in Pending <=> a \in Pending'
  BY <1>1, PendingMeans, PendingMeansNext DEF WayKept
<1>3. loads[r].alerts[a] \in Leading(a)
  BY <1>1, <1>2 DEF AnswersLead
<1> QED
  BY <1>1, <1>3, LeadsKept

\* A step that touches no message.
LEMMA AllLead ==
    ASSUME FeedInv, FeedTypeOK', rows' = rows, \A a \in Alerts : WayKept(a),
           doubt' = doubt, overview' = overview,
           \A r \in Loads : loads'[r].step = "answered" => loads'[r] = loads[r]
    PROVE  ShownLeads' /\ AnswersLead'
<1>1. \A a \in Alerts \ {} : rows'[a] = rows[a] /\ WayKept(a)
  OBVIOUS
<1>2. /\ doubt \cup {} \subseteq doubt'
      /\ \A r \in Loads : loads'[r].step = "answered" =>
            /\ loads[r].step = "answered"
            /\ loads'[r].alerts = loads[r].alerts
            /\ loads[r].passed \cup {} \subseteq loads'[r].passed
  OBVIOUS
<1> QED
  BY <1>1, <1>2, OthersShown, OthersAnswered DEF FeedInv, FeedKept

\* A step that publishes, delivers or loses messages, but writes no row.
LEMMA WrittenKept ==
    ASSUME Written, rows' = rows, engine' \in {engine, NoMessage}, acking' \in {acking, NoMessage},
           \A a \in Alerts : \A m \in {FiringOf(a), ResolvedOf(a), AckedOf(a)} :
              OnItsWay(m)' => OnItsWay(m)
    PROVE  Written'
<1>1. \A a \in Alerts : engine' = FiringOf(a) => engine = FiringOf(a)
  BY MessagesDiffer
<1> QED
  BY <1>1 DEF Written

\* A step after which the messages of the alerts without doubt are in the order
\* they were in.
LEMMA InTurnKept ==
    ASSUME InTurn, doubt \subseteq doubt', rows' = rows,
           \A a \in Alerts \ doubt' :
              /\ WayKept(a)
              /\ engine' = FiringOf(a) => engine = FiringOf(a) /\ (Waits(AckedOf(a))' => Waits(AckedOf(a)))
              /\ FiringIsFirst(a)'
    PROVE  InTurn'
  BY DEF InTurn, WayKept

\* Publish appends to the subscription of a tab that hears.
LEMMA PublishInbox ==
    ASSUME FeedTypeOK, NEW m \in Message, Publish(m), tab' = tab
    PROVE  Inbox' = IF Hears THEN Append(Inbox, m) ELSE Inbox
  BY DEF Inbox, Publish, Hears, FeedTypeOK, Conns

LEMMA AppendInbox ==
    ASSUME FeedTypeOK, NEW m \in Message, Inbox' = Append(Inbox, m)
    PROVE  /\ Len(Inbox) \in Nat
           /\ DOMAIN Inbox = 1..Len(Inbox)
           /\ DOMAIN Inbox' = 1..(Len(Inbox) + 1)
           /\ \A i \in DOMAIN Inbox : Inbox'[i] = Inbox[i]
           /\ Inbox'[Len(Inbox) + 1] = m
           /\ \A n : Waits(n)' <=> Waits(n) \/ n = m
<1>1. Inbox \in Seq(Message)
  BY InboxType
<1> DEFINE p == Inbox
           q == Inbox'
<1>2. q = Append(p, m) /\ p \in Seq(Message)
  BY <1>1
<1>3. /\ Len(p) \in Nat /\ DOMAIN p = 1..Len(p) /\ DOMAIN q = 1..(Len(p) + 1)
      /\ \A i \in DOMAIN p : q[i] = p[i]
      /\ q[Len(p) + 1] = m
  <2> HIDE DEF p, q
  <2> QED
    BY <1>2
<1>4. ASSUME NEW n PROVE (\E i \in DOMAIN q : q[i] = n) <=> (\E i \in DOMAIN p : p[i] = n) \/ n = m
  <2> HIDE DEF p, q
  <2>1. ASSUME NEW i \in DOMAIN q, q[i] = n PROVE (\E k \in DOMAIN p : p[k] = n) \/ n = m
    <3>1. i \in DOMAIN p \/ i = Len(p) + 1
      BY <1>3
    <3> QED
      BY <1>3, <2>1, <3>1
  <2>2. ASSUME NEW i \in DOMAIN p, p[i] = n PROVE \E k \in DOMAIN q : q[k] = n
    <3>1. i \in DOMAIN q /\ q[i] = n
      BY <1>3, <2>2
    <3> QED
      BY <3>1
  <2>3. Len(p) + 1 \in DOMAIN q
    BY <1>3
  <2> QED
    BY <1>3, <2>1, <2>2, <2>3
<1> QED
  BY <1>3, <1>4 DEF Waits

\* A message that is not about an alert.
LEMMA OtherMessage ==
    ASSUME FeedTypeOK, NEW m \in Message, Inbox' = Inbox \/ Inbox' = Append(Inbox, m),
           NEW a \in Alerts, m \notin {FiringOf(a), ResolvedOf(a), AckedOf(a)}
    PROVE  /\ \A n \in {FiringOf(a), ResolvedOf(a), AckedOf(a)} : Waits(n)' <=> Waits(n)
           /\ FiringIsFirst(a) => FiringIsFirst(a)'
<1>1. CASE Inbox' = Inbox
  BY <1>1 DEF Waits, FiringIsFirst
<1>2. CASE Inbox' = Append(Inbox, m)
  <2>1. \A n \in {FiringOf(a), ResolvedOf(a), AckedOf(a)} : Waits(n)' <=> Waits(n)
    BY <1>2, AppendInbox
  <2>2. ASSUME FiringIsFirst(a), NEW i \in DOMAIN Inbox', NEW j \in DOMAIN Inbox',
               Inbox'[i] = FiringOf(a), Inbox'[j] \in {ResolvedOf(a), AckedOf(a)}
        PROVE  i < j
    <3>1. i \in DOMAIN Inbox /\ j \in DOMAIN Inbox
      BY <1>2, <2>2, AppendInbox
    <3>2. Inbox[i] = Inbox'[i] /\ Inbox[j] = Inbox'[j]
      BY <1>2, <3>1, AppendInbox
    <3> QED
      BY <2>2, <3>1, <3>2 DEF FiringIsFirst
  <2> QED
    BY <2>1, <2>2 DEF FiringIsFirst
<1> QED
  BY <1>1, <1>2

LEMMA ContainersKeep ==
    ASSUME FeedInv, FeedTypeOK', NEW p \in Callers, PublishContainers(p)
    PROVE  Written' /\ InTurn' /\ ShownLeads' /\ AnswersLead'
<1> DEFINE m == [type |-> "containers", version |-> snap[p]]
<1>1. /\ m \in Message /\ Publish(m)
      /\ UNCHANGED <<engine, acking, rows, tab, doubt, overview, loads>>
  BY MessageFacts DEF PublishContainers, FeedInv, FeedKept, FeedTypeOK, browser
<1>2. \A a \in Alerts : m \notin {FiringOf(a), ResolvedOf(a), AckedOf(a)}
  BY DEF FiringOf, ResolvedOf, AckedOf
<1> HIDE DEF m
<1>3. Inbox' = Inbox \/ Inbox' = Append(Inbox, m)
  BY <1>1, PublishInbox DEF FeedInv, FeedKept
<1>4. \A a \in Alerts : /\ WayKept(a) /\ (Waits(AckedOf(a))' => Waits(AckedOf(a)))
                        /\ FiringIsFirst(a) => FiringIsFirst(a)'
  BY <1>1, <1>2, <1>3, OtherMessage DEF FeedInv, FeedKept, WayKept, OnItsWay
<1>5. Written'
  BY <1>1, <1>4, WrittenKept DEF FeedInv, FeedKept, WayKept
<1>6. \A a \in Alerts \ doubt : FiringIsFirst(a)
  BY DEF FeedInv, FeedKept, InTurn
<1>7. InTurn'
  BY <1>1, <1>4, <1>6, InTurnKept DEF FeedInv, FeedKept
<1>8. ShownLeads' /\ AnswersLead'
  BY <1>1, <1>4, AllLead
<1> QED
  BY <1>5, <1>7, <1>8

\* Messages that the tab misses, or sees.
LEMMA PassEffect ==
    ASSUME FeedTypeOK, NEW ids, Pass(ids)
    PROVE  \A r \in Loads : loads'[r].step = "answered" =>
              /\ loads[r].step = "answered"
              /\ loads'[r].alerts = loads[r].alerts
              /\ loads'[r].passed = loads[r].passed \cup ids
<1> SUFFICES ASSUME NEW r \in Loads, loads'[r].step = "answered"
             PROVE  /\ loads[r].step = "answered"
                    /\ loads'[r].alerts = loads[r].alerts
                    /\ loads'[r].passed = loads[r].passed \cup ids
  OBVIOUS
<1>1. loads[r] \in Load
  BY DEF FeedTypeOK
<1> QED
  BY <1>1 DEF Pass, Load

LEMMA IdsOfOne ==
    ASSUME NEW m, m.type # "containers"
    PROVE  Ids({m}) = {m.id}
  BY DEF Ids

\* The tab misses a message of one alert.
LEMMA MissedKeep ==
    ASSUME FeedInv, FeedTypeOK', NEW a \in Alerts,
           NEW m \in {FiringOf(a), ResolvedOf(a), AckedOf(a)},
           Publish(m), Miss({m}), UNCHANGED <<rows, tab, overview>>,
           \/ engine = m /\ engine' = NoMessage /\ acking' = acking
           \/ acking = m /\ acking' = NoMessage /\ engine' = engine
    PROVE  Written' /\ InTurn' /\ ShownLeads' /\ AnswersLead'
<1>1. m \in Message /\ Ids({m}) = {a}
  BY MessageFacts, IdsOfOne DEF FiringOf, ResolvedOf, AckedOf
<1>2. Inbox' = Inbox \/ Inbox' = Append(Inbox, m)
  BY <1>1, PublishInbox DEF FeedInv, FeedKept
<1>3. doubt' = doubt \cup {a} /\ Pass({a})
  BY <1>1 DEF Miss
<1>4. ASSUME NEW b \in Alerts \ {a}
      PROVE  /\ \A n \in {FiringOf(b), ResolvedOf(b), AckedOf(b)} : n # m /\ n # NoMessage
             /\ WayKept(b)
             /\ Waits(AckedOf(b))' => Waits(AckedOf(b))
             /\ FiringIsFirst(b) => FiringIsFirst(b)'
  <2>1. \A n \in {FiringOf(b), ResolvedOf(b), AckedOf(b)} : n # m /\ n # NoMessage
    BY MessagesDiffer
  <2>2. /\ \A n \in {FiringOf(b), ResolvedOf(b), AckedOf(b)} : Waits(n)' <=> Waits(n)
        /\ FiringIsFirst(b) => FiringIsFirst(b)'
    BY <1>1, <1>2, <2>1, OtherMessage DEF FeedInv, FeedKept
  <2> QED
    BY <2>1, <2>2 DEF WayKept, OnItsWay
<1>5. Written'
  <2>1. ASSUME NEW n, n # NoMessage, OnItsWay(n)' PROVE OnItsWay(n)
    <3>1. Waits(n)' => Waits(n) \/ n = m
      BY <1>1, <1>2, AppendInbox DEF FeedInv, FeedKept, Waits
    <3> QED
      BY <2>1, <3>1 DEF OnItsWay
  <2>2. \A b \in Alerts : \A n \in {FiringOf(b), ResolvedOf(b), AckedOf(b)} : n # NoMessage
    BY MessagesDiffer
  <2> QED
    BY <2>1, <2>2, WrittenKept DEF FeedInv, FeedKept
<1>6. InTurn'
  <2>1. \A b \in Alerts \ doubt' :
           /\ FiringIsFirst(b) /\ b # a
           /\ engine' = FiringOf(b) => engine = FiringOf(b)
    BY <1>3, MessagesDiffer DEF FeedInv, FeedKept, InTurn
  <2> QED
    BY <1>3, <1>4, <2>1, InTurnKept DEF FeedInv, FeedKept
<1>7. ShownLeads' /\ AnswersLead'
  BY <1>3, <1>4, PassEffect, OthersShown, OthersAnswered DEF FeedInv, FeedKept
<1> QED
  BY <1>5, <1>6, <1>7

\* The tab will get it, in its turn.
LEMMA HeardKeep ==
    ASSUME FeedInv, FeedTypeOK', NEW a \in Alerts,
           NEW m \in {FiringOf(a), ResolvedOf(a), AckedOf(a)},
           Inbox' = Append(Inbox, m), UNCHANGED <<rows, overview, loads, doubt>>,
           \/ engine = m /\ engine' = NoMessage /\ acking' = acking
           \/ acking = m /\ acking' = NoMessage /\ engine' = engine /\ engine # FiringOf(a)
    PROVE  Written' /\ InTurn' /\ ShownLeads' /\ AnswersLead'
<1>1. m \in Message /\ \A n : Waits(n)' <=> Waits(n) \/ n = m
  BY MessageFacts, AppendInbox DEF FeedInv, FeedKept
<1>2. \A b \in Alerts : \A n \in {FiringOf(b), ResolvedOf(b), AckedOf(b)} : n # NoMessage
  BY MessagesDiffer
<1>3. ASSUME NEW n, n # NoMessage PROVE OnItsWay(n)' <=> OnItsWay(n)
  BY <1>1, <1>3 DEF OnItsWay
<1>4. \A b \in Alerts : WayKept(b)
  BY <1>2, <1>3 DEF WayKept
<1>5. Written'
  BY <1>4, WrittenKept DEF FeedInv, FeedKept, WayKept
<1>6. ASSUME NEW b \in Alerts \ doubt, NEW i \in DOMAIN Inbox', NEW j \in DOMAIN Inbox',
             Inbox'[i] = FiringOf(b), Inbox'[j] \in {ResolvedOf(b), AckedOf(b)}
      PROVE  i < j
  <2>1. /\ Len(Inbox) \in Nat
        /\ DOMAIN Inbox = 1..Len(Inbox)
        /\ DOMAIN Inbox' = 1..(Len(Inbox) + 1)
        /\ \A k \in DOMAIN Inbox : Inbox'[k] = Inbox[k]
        /\ Inbox'[Len(Inbox) + 1] = m
    BY <1>1, AppendInbox DEF FeedInv, FeedKept
  <2>2. CASE i \in DOMAIN Inbox /\ j \in DOMAIN Inbox
    BY <1>6, <2>1, <2>2 DEF FeedInv, FeedKept, InTurn, FiringIsFirst
  <2>3. CASE i \in DOMAIN Inbox /\ j = Len(Inbox) + 1
    BY <2>1, <2>3
  <2>4. CASE i = Len(Inbox) + 1
    <3>1. m = FiringOf(b)
      BY <1>6, <2>1, <2>4
    <3>2. engine = FiringOf(b)
      BY <3>1, MessagesDiffer DEF FeedInv, FeedKept, Written, FiringOf, NoMessage
    <3>3. ~Waits(AckedOf(b)) /\ rows[b].state = "firing"
      BY <3>2 DEF FeedInv, FeedKept, InTurn, Written
    <3>4. ~Waits(ResolvedOf(b))
      BY <3>3 DEF FeedInv, FeedKept, Written, OnItsWay
    <3>5. j \in DOMAIN Inbox
      BY <1>6, <2>1, <3>1, MessagesDiffer
    <3> QED
      BY <1>6, <2>1, <3>3, <3>4, <3>5 DEF Waits
  <2> QED
    BY <2>1, <2>2, <2>3, <2>4
<1>7. InTurn'
  <2>1. ASSUME NEW b \in Alerts \ doubt', engine' = FiringOf(b)
        PROVE  engine = FiringOf(b) /\ (Waits(AckedOf(b))' => Waits(AckedOf(b)))
    <3>1. acking = m /\ engine' = engine /\ b # a
      BY <1>2, <2>1
    <3>2. AckedOf(b) # m
      BY <3>1, MessagesDiffer
    <3> QED
      BY <1>1, <2>1, <3>1, <3>2
  <2>2. \A b \in Alerts \ doubt' : FiringIsFirst(b)'
    BY <1>6 DEF FiringIsFirst
  <2> QED
    BY <1>4, <2>1, <2>2, InTurnKept DEF FeedInv, FeedKept
<1>8. ShownLeads' /\ AnswersLead'
  BY <1>4, AllLead
<1> QED
  BY <1>5, <1>7, <1>8

LEMMA PublishKeeps ==
    ASSUME FeedInv, FeedTypeOK', PublishAlert \/ PublishAck
    PROVE  Written' /\ InTurn' /\ ShownLeads' /\ AnswersLead'
<1>1. ASSUME NEW m \in Message, m.type # "containers", Publish(m), NEW early \in BOOLEAN, Reach(m, early),
             UNCHANGED <<rows, tab, overview>>,
             \/ engine = m /\ engine' = NoMessage /\ acking' = acking
             \/ acking = m /\ acking' = NoMessage /\ engine' = engine
                /\ early = (engine = FiringOf(m.id))
      PROVE  Written' /\ InTurn' /\ ShownLeads' /\ AnswersLead'
  <2>1. m.id \in Alerts /\ m \in {FiringOf(m.id), ResolvedOf(m.id), AckedOf(m.id)}
    BY <1>1, MessageFacts
  <2>2. CASE Hears /\ ~early
    <3>1. Inbox' = Append(Inbox, m)
      BY <1>1, <2>2, PublishInbox DEF FeedInv, FeedKept
    <3>2. UNCHANGED <<loads, doubt>>
      BY <1>1, <2>2 DEF Reach
    <3>3. \/ engine = m /\ engine' = NoMessage /\ acking' = acking
          \/ acking = m /\ acking' = NoMessage /\ engine' = engine /\ engine # FiringOf(m.id)
      BY <1>1, <2>2
    <3> QED
      BY <1>1, <2>1, <3>1, <3>2, <3>3, HeardKeep
  <2>3. CASE ~(Hears /\ ~early)
    <3>1. Miss({m})
      BY <1>1, <2>3 DEF Reach
    <3>2. \/ engine = m /\ engine' = NoMessage /\ acking' = acking
          \/ acking = m /\ acking' = NoMessage /\ engine' = engine
      BY <1>1
    <3> QED
      BY <1>1, <2>1, <3>1, <3>2, MissedKeep
  <2> QED
    BY <2>2, <2>3
<1>2. CASE PublishAlert
  <2>1. engine \in Message /\ engine.type # "containers"
    BY <1>2 DEF PublishAlert, FeedInv, FeedKept, FeedTypeOK, Written
  <2> QED
    BY <1>1, <1>2, <2>1 DEF PublishAlert
<1>3. CASE PublishAck
  <2>1. acking \in Message /\ acking.type # "containers"
    BY <1>3 DEF PublishAck, FeedInv, FeedKept, FeedTypeOK, Written
  <2> QED
    BY <1>1, <1>3, <2>1 DEF PublishAck, FiringOf
<1> QED
  BY <1>2, <1>3

\* A step that reads or writes no message.
LEMMA QuietKeeps ==
    ASSUME FeedInv, FeedTypeOK', UNCHANGED <<rows, engine, acking, overview, doubt>>, Inbox' = Inbox,
           \A r \in Loads : loads'[r].step = "answered" => loads'[r] = loads[r]
    PROVE  Written' /\ InTurn' /\ ShownLeads' /\ AnswersLead'
<1>1. \A n : (Waits(n)' <=> Waits(n)) /\ (OnItsWay(n)' <=> OnItsWay(n))
  BY DEF Waits, OnItsWay
<1>2. \A a \in Alerts : WayKept(a) /\ (FiringIsFirst(a) => FiringIsFirst(a)')
  BY <1>1 DEF WayKept, FiringIsFirst
<1>3. Written'
  BY <1>2, WrittenKept DEF FeedInv, FeedKept, WayKept
<1>4. InTurn'
  BY <1>1, <1>2, InTurnKept DEF FeedInv, FeedKept, InTurn
<1>5. ShownLeads' /\ AnswersLead'
  BY <1>2, AllLead
<1> QED
  BY <1>3, <1>4, <1>5

\* The connection of the tab breaks.
LEMMA CutKeeps ==
    ASSUME FeedInv, FeedTypeOK', Cut(tab), tab \in Conns
    PROVE  Written' /\ InTurn' /\ ShownLeads' /\ AnswersLead'
<1> DEFINE S == {buffer[tab][i] : i \in DOMAIN buffer[tab]}
<1>1. Inbox' = <<>> /\ Miss(S) /\ UNCHANGED <<rows, engine, acking, overview>>
  BY DEF Cut, Inbox, FeedInv, FeedKept, FeedTypeOK, Conns, server
<1>2. S = {Inbox[i] : i \in DOMAIN Inbox}
  BY DEF Inbox, Conns
<1>3. ASSUME NEW a \in Alerts \ Ids(S), NEW n \in {FiringOf(a), ResolvedOf(a), AckedOf(a)}
      PROVE  ~Waits(n)
  <2>1. n.type # "containers" /\ n.id = a
    BY DEF FiringOf, ResolvedOf, AckedOf
  <2>2. n \notin S
    <3> HIDE DEF S
    <3>1. a \notin Ids(S)
      OBVIOUS
    <3> QED
      BY <2>1, <3>1, Zenon DEF Ids
  <2> QED
    BY <1>2, <2>2 DEF Waits
<1>4. \A n : ~Waits(n)'
  BY <1>1 DEF Waits
<1>5. \A a \in Alerts \ Ids(S) : WayKept(a)
  BY <1>1, <1>3, <1>4 DEF WayKept, OnItsWay
<1> HIDE DEF S
<1>6. Written'
  BY <1>1, <1>4, WrittenKept DEF FeedInv, FeedKept, OnItsWay
<1>7. doubt' = doubt \cup Ids(S) /\ Pass(Ids(S))
  BY <1>1 DEF Miss
<1>8. InTurn'
  <2>1. \A a \in Alerts : FiringIsFirst(a)'
    BY <1>1 DEF FiringIsFirst
  <2> QED
    BY <1>1, <1>4, <1>5, <1>7, <2>1, InTurnKept DEF FeedInv, FeedKept
<1>9. ShownLeads' /\ AnswersLead'
  BY <1>1, <1>5, <1>7, PassEffect, OthersShown, OthersAnswered DEF FeedInv, FeedKept
<1> QED
  BY <1>6, <1>8, <1>9

LEMMA TailInbox ==
    ASSUME FeedTypeOK, Inbox # <<>>, Inbox' = Tail(Inbox)
    PROVE  /\ Head(Inbox) \in Message
           /\ 1 \in DOMAIN Inbox /\ Inbox[1] = Head(Inbox)
           /\ \A i \in DOMAIN Inbox' : i + 1 \in DOMAIN Inbox /\ Inbox'[i] = Inbox[i + 1]
           /\ DOMAIN Inbox \in SUBSET Nat /\ DOMAIN Inbox' \in SUBSET Nat
           /\ \A i \in DOMAIN Inbox : i >= 1
           /\ \A n : Waits(n) <=> Waits(n)' \/ n = Head(Inbox)
<1> DEFINE p == Inbox
           q == Inbox'
<1>1. q = Tail(p) /\ p \in Seq(Message) /\ p # <<>>
  BY InboxType
<1>2. /\ Len(p) \in Nat /\ DOMAIN p = 1..Len(p) /\ DOMAIN q = 1..(Len(p) - 1) /\ Len(p) >= 1
      /\ \A i \in DOMAIN q : q[i] = p[i + 1]
      /\ p[1] = Head(p) /\ p[1] \in Message
  <2> HIDE DEF p, q
  <2> QED
    BY <1>1
<1>3. ASSUME NEW n PROVE (\E i \in DOMAIN p : p[i] = n) <=> (\E i \in DOMAIN q : q[i] = n) \/ n = Head(p)
  <2> HIDE DEF p, q
  <2>1. ASSUME NEW i \in DOMAIN p, p[i] = n PROVE (\E k \in DOMAIN q : q[k] = n) \/ n = Head(p)
    <3>1. CASE i = 1
      BY <1>2, <2>1, <3>1
    <3>2. CASE i # 1
      <4>1. i - 1 \in DOMAIN q /\ q[i - 1] = p[i]
        BY <1>2, <3>2
      <4> QED
        BY <2>1, <4>1
    <3> QED
      BY <3>1, <3>2
  <2>2. ASSUME NEW i \in DOMAIN q, q[i] = n PROVE \E k \in DOMAIN p : p[k] = n
    <3>1. i + 1 \in DOMAIN p
      BY <1>2
    <3> QED
      BY <1>2, <2>2, <3>1
  <2>3. 1 \in DOMAIN p
    BY <1>2
  <2> QED
    BY <1>2, <2>1, <2>2, <2>3
<1>4. (\A i \in DOMAIN q : i + 1 \in DOMAIN p) /\ 1 \in DOMAIN p
  <2> HIDE DEF p, q
  <2> QED
    BY <1>2
<1> QED
  BY <1>2, <1>3, <1>4 DEF Waits

\* The tab gets the next message.
LEMMA DeliverKeeps ==
    ASSUME FeedInv, FeedTypeOK', Deliver
    PROVE  Written' /\ InTurn' /\ ShownLeads' /\ AnswersLead'
<1> DEFINE m == Head(Inbox)
<1>1. /\ Inbox # <<>> /\ Inbox' = Tail(Inbox)
      /\ UNCHANGED <<rows, engine, acking>>
      /\ overview' = IF overview = NoOverview THEN NoOverview ELSE Applied(overview, m)
      /\ IF overview = NoOverview THEN Miss({m}) ELSE Pass(Ids({m})) /\ UNCHANGED doubt
  <2>1. tab \in Conns
    BY FeedAssumption DEF Deliver, FeedInv, FeedKept, Lines, FeedTypeOK, Conns
  <2>2. Inbox = buffer[tab] /\ Inbox' = buffer'[tab] /\ buffer' = [buffer EXCEPT ![tab] = Tail(buffer[tab])]
    BY <2>1 DEF Deliver, Inbox, Conns
  <2> QED
    BY <2>1, <2>2 DEF Deliver, FeedInv, FeedKept, FeedTypeOK, server
<1>2. m \in Message /\ \A n : Waits(n) <=> Waits(n)' \/ n = m
  BY <1>1, TailInbox DEF FeedInv, FeedKept
<1>3. Pass(Ids({m})) /\ doubt \subseteq doubt' /\ (overview = NoOverview => doubt' = doubt \cup Ids({m}))
  BY <1>1 DEF Miss
<1> DEFINE touched == Ids({m})
<1>4. ASSUME NEW a \in Alerts
      PROVE  IF a \in touched THEN m \in {FiringOf(a), ResolvedOf(a), AckedOf(a)}
                              ELSE m \notin {FiringOf(a), ResolvedOf(a), AckedOf(a)}
  <2>1. m.type # "containers" => m.id \in Alerts /\ m \in {FiringOf(m.id), ResolvedOf(m.id), AckedOf(m.id)}
    BY <1>2, MessageFacts
  <2>2. a \in touched <=> m.type # "containers" /\ m.id = a
    BY Zenon DEF Ids
  <2>3. \A n \in {FiringOf(a), ResolvedOf(a), AckedOf(a)} : n.type # "containers" /\ n.id = a
    BY DEF FiringOf, ResolvedOf, AckedOf
  <2> HIDE DEF m, touched
  <2> QED
    BY <2>1, <2>2, <2>3
<1> HIDE DEF m, touched
<1>5. \A n : n # m => (OnItsWay(n)' <=> OnItsWay(n))
  BY <1>1, <1>2 DEF OnItsWay
<1>6. \A a \in Alerts \ touched : WayKept(a)
  BY <1>4, <1>5 DEF WayKept
<1>7. \A n : OnItsWay(n)' => OnItsWay(n)
  BY <1>1, <1>2 DEF OnItsWay
<1>8. Written'
  BY <1>1, <1>7, WrittenKept DEF FeedInv, FeedKept
<1>9. ASSUME NEW a \in Alerts \ doubt
      PROVE  /\ FiringIsFirst(a)'
             /\ m \in {ResolvedOf(a), AckedOf(a)} => ~OnItsWay(FiringOf(a))'
  <2>1. FiringIsFirst(a)
    BY DEF FeedInv, FeedKept, InTurn
  <2>2. ASSUME NEW i \in DOMAIN Inbox', NEW j \in DOMAIN Inbox',
               Inbox'[i] = FiringOf(a), Inbox'[j] \in {ResolvedOf(a), AckedOf(a)}
        PROVE  i < j
    <3>1. /\ i + 1 \in DOMAIN Inbox /\ Inbox[i + 1] = FiringOf(a)
          /\ j + 1 \in DOMAIN Inbox /\ Inbox[j + 1] \in {ResolvedOf(a), AckedOf(a)}
          /\ i \in Nat /\ j \in Nat
      BY <1>1, <2>2, TailInbox DEF FeedInv, FeedKept
    <3>2. i + 1 < j + 1
      BY <2>1, <3>1 DEF FiringIsFirst
    <3> QED
      BY <3>1, <3>2
  <2>3. ASSUME m \in {ResolvedOf(a), AckedOf(a)} PROVE ~OnItsWay(FiringOf(a))'
    <3>1. ~Waits(FiringOf(a))
      <4> SUFFICES ASSUME NEW i \in DOMAIN Inbox, Inbox[i] = FiringOf(a) PROVE FALSE
        BY DEF Waits
      <4>1. /\ 1 \in DOMAIN Inbox /\ Inbox[1] = m /\ i >= 1 /\ i \in Nat
        BY <1>1, TailInbox DEF FeedInv, FeedKept, m
      <4>2. i < 1
        BY <2>1, <2>3, <4>1 DEF FiringIsFirst
      <4> QED
        BY <4>1, <4>2
    <3>2. engine # FiringOf(a)
      <4>1. Waits(m)
        BY <1>2
      <4>2. CASE m = AckedOf(a)
        BY <4>1, <4>2 DEF FeedInv, FeedKept, InTurn
      <4>3. CASE m = ResolvedOf(a)
        BY <4>1, <4>3 DEF FeedInv, FeedKept, Written, OnItsWay
      <4> QED
        BY <2>3, <4>2, <4>3
    <3>3. acking # FiringOf(a)
      BY DEF FeedInv, FeedKept, Written, FiringOf, NoMessage
    <3> QED
      BY <1>1, <1>2, <3>1, <3>2, <3>3 DEF OnItsWay
  <2> QED
    BY <2>2, <2>3 DEF FiringIsFirst
<1>10. InTurn'
  <2> SUFFICES ASSUME NEW a \in Alerts \ doubt'
               PROVE  /\ OnItsWay(FiringOf(a))' /\ rows'[a].acked => OnItsWay(AckedOf(a))'
                      /\ OnItsWay(FiringOf(a))' /\ rows'[a].state = "resolved" => OnItsWay(ResolvedOf(a))'
                      /\ engine' = FiringOf(a) => ~Waits(AckedOf(a))'
                      /\ FiringIsFirst(a)'
    BY DEF InTurn
  <2>1. a \notin doubt
    BY <1>3
  <2>2. /\ OnItsWay(FiringOf(a)) /\ rows[a].acked => OnItsWay(AckedOf(a))
        /\ OnItsWay(FiringOf(a)) /\ rows[a].state = "resolved" => OnItsWay(ResolvedOf(a))
        /\ engine = FiringOf(a) => ~Waits(AckedOf(a))
    BY <2>1 DEF FeedInv, FeedKept, InTurn
  <2> QED
    BY <1>1, <1>2, <1>5, <1>7, <1>9, <2>1, <2>2
<1>11. ShownLeads'
  <2>1. CASE overview = NoOverview
    BY <1>1, <2>1 DEF ShownLeads
  <2>2. CASE overview # NoOverview
    <3> SUFFICES ASSUME NEW a \in Alerts \ doubt PROVE overview'.alerts[a] \in Leading(a)'
      BY <1>1, <2>2 DEF ShownLeads
    <3> DEFINE s == overview.alerts[a]
    <3>1. /\ s \in Leading(a)
          /\ overview \in [version : Versions, alerts : [Alerts -> Shown]]
          /\ overview' = Applied(overview, m)
          /\ rows[a] \in Row
      BY <1>1, <2>2 DEF FeedInv, FeedKept, ShownLeads, FeedTypeOK
    <3>2. CASE m = FiringOf(a)
      <4>1. overview'.alerts[a] = "firing"
        BY <3>1, <3>2 DEF Applied, FiringOf
      <4>2. OnItsWay(FiringOf(a))
        BY <1>2, <3>2 DEF OnItsWay
      <4>3. /\ rows[a].acked => OnItsWay(AckedOf(a))'
            /\ rows[a].state = "resolved" => OnItsWay(ResolvedOf(a))'
            /\ rows[a].state # "none"
        BY <1>5, <3>2, <4>2, MessagesDiffer DEF FeedInv, FeedKept, InTurn, Written
      <4> QED
        <5>1. rows'[a] = rows[a] /\ Firing'[a] = Firing[a]
          BY <1>1 DEF Firing
        <5>2. rows[a].acked \in BOOLEAN /\ rows[a].state \in {"none", "firing", "resolved"}
          BY <3>1 DEF Row
        <5>3. rows[a].state = "firing" /\ ~rows[a].acked => Firing[a] = "firing"
          BY DEF Firing
        <5> QED
          BY <4>1, <4>3, <5>1, <5>2, <5>3, LeadingMeansNext DEF Shown
    <3>3. CASE m = ResolvedOf(a)
      <4>1. overview'.alerts[a] = "absent"
        BY <3>1, <3>3 DEF Applied, ResolvedOf
      <4>2. rows[a].state = "resolved"
        BY <1>2, <3>3 DEF OnItsWay, FeedInv, FeedKept, Written
      <4> QED
        <5>1. Firing'[a] = "absent"
          BY <1>1, <4>2 DEF Firing
        <5> QED
          BY <4>1, <5>1, LeadingMeansNext DEF Shown
    <3>4. CASE m = AckedOf(a)
      <4>1. overview'.alerts[a] = IF s = "firing" THEN "acked" ELSE s
        BY <3>1, <3>4 DEF Applied, AckedOf
      <4>2. rows[a].acked /\ rows[a].state # "none"
        BY <1>2, <3>4 DEF OnItsWay, FeedInv, FeedKept, Written
      <4>3. ~OnItsWay(FiringOf(a))
        BY <1>5, <1>9, <3>4, MessagesDiffer
      <4>4. OnItsWay(ResolvedOf(a)) => OnItsWay(ResolvedOf(a))'
        BY <1>5, <3>4, MessagesDiffer
      <4>5. Firing'[a] = IF rows[a].state = "firing" THEN "acked" ELSE "absent"
        BY <1>1, <4>2 DEF Firing
      <4>6. Firing[a] = IF rows[a].state = "firing" THEN "acked" ELSE "absent"
        BY <4>2 DEF Firing
      <4> HIDE DEF s
      <4> QED
        <5>1. rows'[a] = rows[a]
          BY <1>1
        <5>2. /\ s \in Shown
              /\ \/ s = Firing[a]
                 \/ rows[a].state = "resolved" /\ OnItsWay(ResolvedOf(a))
                 \/ rows[a].state = "firing" /\ s = "firing"
          BY <3>1, <4>3, LeadingMeans
        <5> QED
          BY <4>1, <4>4, <4>5, <4>6, <5>1, <5>2, LeadingMeansNext DEF Shown
    <3>5. CASE m \notin {FiringOf(a), ResolvedOf(a), AckedOf(a)}
      <4>1. overview'.alerts[a] = s
        <5>1. m.type = "containers" \/ (m.id \in Alerts /\ m.id # a)
          BY <1>2, <3>5, MessageFacts
        <5> QED
          BY <3>1, <5>1 DEF Applied
      <4>2. WayKept(a)
        BY <1>5, <3>5 DEF WayKept
      <4> QED
        BY <1>1, <3>1, <4>1, <4>2, LeadsKept
    <3> QED
      BY <3>2, <3>3, <3>4, <3>5
  <2> QED
    BY <2>1, <2>2
<1>12. AnswersLead'
  <2>1. Pass(touched)
    BY <1>3 DEF touched
  <2> QED
    BY <1>1, <1>3, <1>6, <2>1, PassEffect, OthersAnswered DEF FeedInv, FeedKept
<1> QED
  BY <1>8, <1>10, <1>11, <1>12

\* A row is written: whatever its message finds on the screen, it makes it right.
LEMMA WriteKeeps ==
    ASSUME FeedInv, FeedTypeOK', NEW a \in Alerts, Fire(a) \/ Resolve(a) \/ Ack(a)
    PROVE  Written' /\ InTurn' /\ ShownLeads' /\ AnswersLead'
<1>1. /\ Inbox' = Inbox /\ UNCHANGED <<overview, loads, doubt>>
      /\ \A n : Waits(n)' <=> Waits(n)
  BY DEF Fire, Resolve, Ack, wire, browser, Inbox, Waits
<1>2. \A b \in Alerts : FiringIsFirst(b) => FiringIsFirst(b)'
  BY <1>1 DEF FiringIsFirst
<1>3. ASSUME NEW b \in Alerts \ {a}
      PROVE  /\ rows'[b] = rows[b] /\ WayKept(b)
             /\ engine' = FiringOf(b) <=> engine = FiringOf(b)
  <2>1. rows'[b] = rows[b]
    BY DEF Fire, Resolve, Ack, FeedInv, FeedKept, FeedTypeOK
  <2>2. ASSUME NEW n \in {FiringOf(b), ResolvedOf(b), AckedOf(b)}
        PROVE  (engine' = n <=> engine = n) /\ (acking' = n <=> acking = n)
    BY MessagesDiffer DEF Fire, Resolve, Ack, FiringOf, ResolvedOf, AckedOf, NoMessage
  <2> QED
    BY <1>1, <2>1, <2>2 DEF WayKept, OnItsWay
<1>4. /\ rows[a].acked => rows[a].state # "none"
      /\ engine = FiringOf(a) => rows[a].state = "firing"
      /\ OnItsWay(FiringOf(a)) => rows[a].state # "none"
      /\ OnItsWay(ResolvedOf(a)) => rows[a].state = "resolved"
      /\ OnItsWay(AckedOf(a)) => rows[a].acked
      /\ rows \in [Alerts -> Row] /\ rows[a] \in Row
  BY DEF FeedInv, FeedKept, Written, FeedTypeOK
<1>5. \A b \in Alerts \ doubt : FiringIsFirst(b)
  BY DEF FeedInv, FeedKept, InTurn
<1> DEFINE TurnOf(b) ==
             /\ OnItsWay(FiringOf(b)) /\ rows[b].acked => OnItsWay(AckedOf(b))
             /\ OnItsWay(FiringOf(b)) /\ rows[b].state = "resolved" => OnItsWay(ResolvedOf(b))
             /\ engine = FiringOf(b) => ~Waits(AckedOf(b))
           TurnOfNext(b) ==
             /\ OnItsWay(FiringOf(b))' /\ rows'[b].acked => OnItsWay(AckedOf(b))'
             /\ OnItsWay(FiringOf(b))' /\ rows'[b].state = "resolved" => OnItsWay(ResolvedOf(b))'
             /\ engine' = FiringOf(b) => ~Waits(AckedOf(b))'
           WrittenOfNext(b) ==
             /\ rows'[b].acked => rows'[b].state # "none"
             /\ engine' = FiringOf(b) => rows'[b].state = "firing"
             /\ OnItsWay(FiringOf(b))' => rows'[b].state # "none"
             /\ OnItsWay(ResolvedOf(b))' => rows'[b].state = "resolved"
             /\ OnItsWay(AckedOf(b))' => rows'[b].acked
<1>6. \A b \in Alerts \ {a} : WrittenOfNext(b) /\ (b \notin doubt => TurnOfNext(b))
  BY <1>1, <1>3 DEF FeedInv, FeedKept, Written, InTurn, WayKept
<1>7. a \notin doubt => TurnOf(a)
  BY DEF FeedInv, FeedKept, InTurn
<1>8. /\ WrittenOfNext(a)
      /\ a \notin doubt => TurnOfNext(a)
      /\ Leading(a) \subseteq Leading(a)'
      /\ OnItsWay(FiringOf(a))' \/ OnItsWay(ResolvedOf(a))' \/ OnItsWay(AckedOf(a))'
      /\ engine' # NoMessage => engine'.type \in {"firing", "resolved"}
      /\ acking' # NoMessage => acking'.type = "acked"
  <2>1. CASE Fire(a)
    <3>1. /\ engine = NoMessage /\ engine' = FiringOf(a) /\ acking' = acking
          /\ rows[a].state = "none" /\ rows'[a].state = "firing" /\ rows'[a].acked = rows[a].acked
      BY <1>4, <2>1 DEF Fire, FiringOf
    <3>2. ~rows[a].acked /\ ~OnItsWay(ResolvedOf(a)) /\ ~OnItsWay(AckedOf(a)) /\ OnItsWay(FiringOf(a))'
      BY <1>4, <3>1 DEF OnItsWay
    <3>3. ~OnItsWay(ResolvedOf(a))' /\ ~OnItsWay(AckedOf(a))' /\ ~Waits(AckedOf(a))'
      BY <1>1, <3>1, <3>2, MessagesDiffer DEF OnItsWay
    <3>4. \A s : s \in Shown => s \in Leading(a)'
      BY <3>1, <3>2, LeadingMeansNext
    <3>5. Leading(a) \subseteq Leading(a)'
      BY <3>4, LeadingMeans
    <3>6. engine'.type = "firing" /\ (acking' # NoMessage => acking'.type = "acked")
      BY <3>1 DEF FiringOf, FeedInv, FeedKept, Written
    <3> QED
      BY <3>1, <3>2, <3>3, <3>5, <3>6
  <2>2. CASE Resolve(a)
    <3>1. /\ engine = NoMessage /\ engine' = ResolvedOf(a) /\ acking' = acking
          /\ rows[a].state = "firing" /\ rows'[a].state = "resolved" /\ rows'[a].acked = rows[a].acked
      BY <1>4, <2>2 DEF Resolve, ResolvedOf
    <3>2. /\ OnItsWay(ResolvedOf(a))'
          /\ OnItsWay(FiringOf(a))' <=> OnItsWay(FiringOf(a))
          /\ OnItsWay(AckedOf(a))' <=> OnItsWay(AckedOf(a))
          /\ engine' # FiringOf(a)
      BY <1>1, <3>1, MessagesDiffer DEF OnItsWay
    <3>3. \A s : s \in Shown => s \in Leading(a)'
      BY <3>1, <3>2, LeadingMeansNext
    <3>4. Leading(a) \subseteq Leading(a)'
      BY <3>3, LeadingMeans
    <3>5. engine'.type = "resolved" /\ (acking' # NoMessage => acking'.type = "acked")
      BY <3>1 DEF ResolvedOf, FeedInv, FeedKept, Written
    <3> QED
      BY <1>4, <1>7, <3>1, <3>2, <3>3, <3>4, <3>5
  <2>3. CASE Ack(a)
    <3>1. /\ acking = NoMessage /\ acking' = AckedOf(a) /\ engine' = engine
          /\ ~rows[a].acked /\ rows'[a].acked /\ rows'[a].state = rows[a].state /\ rows[a].state # "none"
      BY <1>4, <2>3 DEF Ack, AckedOf
    <3>2. /\ OnItsWay(AckedOf(a))' /\ ~OnItsWay(AckedOf(a))
          /\ OnItsWay(FiringOf(a))' <=> OnItsWay(FiringOf(a))
          /\ OnItsWay(ResolvedOf(a))' <=> OnItsWay(ResolvedOf(a))
      BY <1>1, <1>4, <3>1, MessagesDiffer DEF OnItsWay
    <3>3. ~Waits(AckedOf(a))'
      BY <1>1, <3>2 DEF OnItsWay
    <3>4. Leading(a) \subseteq Leading(a)'
      <4>1. Firing[a] = IF rows[a].state = "firing" THEN "firing" ELSE "absent"
        BY <3>1 DEF Firing
      <4>2. Firing'[a] = IF rows[a].state = "firing" THEN "acked" ELSE "absent"
        BY <3>1 DEF Firing
      <4> QED
        BY <3>1, <3>2, <4>1, <4>2 DEF Leading
    <3>5. acking'.type = "acked" /\ (engine' # NoMessage => engine'.type \in {"firing", "resolved"})
      BY <3>1 DEF AckedOf, FeedInv, FeedKept, Written
    <3> QED
      BY <1>4, <1>7, <3>1, <3>2, <3>3, <3>4, <3>5
  <2> QED
    BY <2>1, <2>2, <2>3
<1>9. Written'
  BY <1>6, <1>8 DEF Written
<1>10. InTurn'
  <2>1. \A b \in Alerts \ doubt : TurnOfNext(b) /\ FiringIsFirst(b)'
    BY <1>2, <1>5, <1>6, <1>8
  <2> QED
    BY <1>1, <2>1 DEF InTurn
<1>11. \A b \in Alerts : Leading(b) \subseteq Leading(b)'
  BY <1>3, <1>8, LeadsKept
<1>12. ShownLeads'
  BY <1>1, <1>11 DEF FeedInv, FeedKept, ShownLeads
<1>13. AnswersLead'
  <2>1. \A b \in Alerts : b \in Pending => b \in Pending'
    BY <1>3, <1>8, PendingMeans, PendingMeansNext DEF FeedInv, FeedKept, WayKept
  <2> QED
    BY <1>1, <1>11, <2>1 DEF FeedInv, FeedKept, AnswersLead
<1> QED
  BY <1>9, <1>10, <1>12, <1>13

\* An overview is read, or loaded.
LEMMA ReadKeeps ==
    ASSUME FeedInv, FeedTypeOK', NEW r \in Loads, ReadOverview(r)
    PROVE  Written' /\ InTurn' /\ ShownLeads' /\ AnswersLead'
<1>1. UNCHANGED <<rows, engine, acking, tab, buffer, overview, doubt>>
  BY DEF ReadOverview, server, wire
<1>2. Inbox' = Inbox /\ Firing' = Firing
  BY <1>1 DEF Inbox, Firing
<1>3. /\ Written' /\ InTurn' /\ ShownLeads' /\ Pending' = Pending
      /\ \A a \in Alerts : Leading(a)' = Leading(a)
  <2>1. \A n : (Waits(n)' <=> Waits(n)) /\ (OnItsWay(n)' <=> OnItsWay(n))
    BY <1>1, <1>2 DEF Waits, OnItsWay
  <2>2. \A a \in Alerts : Leading(a)' = Leading(a)
    BY <1>1, <1>2, <2>1 DEF Leading
  <2>3. Pending' = Pending
    BY <1>1 DEF Pending
  <2>4. Written'
    BY <1>1, <2>1 DEF FeedInv, FeedKept, Written
  <2>5. \A a \in Alerts : FiringIsFirst(a) => FiringIsFirst(a)'
    BY <1>2 DEF FiringIsFirst
  <2>6. InTurn'
    BY <1>1, <2>1, <2>5 DEF FeedInv, FeedKept, InTurn
  <2> QED
    BY <1>1, <2>2, <2>3, <2>4, <2>6 DEF FeedInv, FeedKept, ShownLeads
<1>4. \A q \in Loads \ {r} : loads'[q] = loads[q]
  BY DEF ReadOverview, FeedInv, FeedKept, FeedTypeOK
<1>5. loads'[r].alerts = Firing \/ loads'[r].passed = Alerts
  <2>1. loads[r] \in Load /\ loads \in [Loads -> Load]
    BY DEF FeedInv, FeedKept, FeedTypeOK
  <2>2. CASE loads' = [loads EXCEPT ![r] = [@ EXCEPT !.step = "answered", !.version = containers,
                                                    !.alerts = Firing]]
    BY <2>1, <2>2 DEF Load
  <2>3. CASE loads' = [loads EXCEPT ![r] = [@ EXCEPT !.step = "answered", !.version = containers,
                                                    !.passed = Alerts]]
    BY <2>1, <2>3 DEF Load
  <2> QED
    BY <2>2, <2>3 DEF ReadOverview
<1>6. \A a \in Alerts : Firing[a] \in Leading(a)
  <2>1. \A a \in Alerts : Firing[a] \in Shown
    BY FiringType DEF FeedInv, FeedKept
  <2> QED
    BY <2>1, LeadingMeans
<1>7. AnswersLead'
  <2> SUFFICES ASSUME NEW q \in Loads, loads'[q].step = "answered",
                      NEW a \in Alerts \ loads'[q].passed, a \notin doubt \cap Pending
               PROVE  loads'[q].alerts[a] \in Leading(a)
    BY <1>1, <1>3 DEF AnswersLead
  <2>1. CASE q = r
    BY <1>5, <1>6, <2>1
  <2>2. CASE q # r
    BY <1>4, <2>2 DEF FeedInv, FeedKept, AnswersLead
  <2> QED
    BY <2>1, <2>2
<1> QED
  BY <1>3, <1>7

LEMMA LoadedKeeps ==
    ASSUME FeedInv, FeedTypeOK', NEW r \in Loads, Loaded(r)
    PROVE  Written' /\ InTurn' /\ ShownLeads' /\ AnswersLead'
<1>1. UNCHANGED <<rows, engine, acking, tab, buffer>>
  BY DEF Loaded, server, wire
<1>2. Inbox' = Inbox /\ Firing' = Firing /\ Pending' = Pending
  BY <1>1 DEF Inbox, Firing, Pending
<1>3. \A n : (Waits(n)' <=> Waits(n)) /\ (OnItsWay(n)' <=> OnItsWay(n))
  BY <1>1, <1>2 DEF Waits, OnItsWay
<1>4. \A a \in Alerts : Leading(a)' = Leading(a)
  BY <1>1, <1>2, <1>3 DEF Leading
<1>5. Written'
  BY <1>1, <1>3 DEF FeedInv, FeedKept, Written
<1>6. /\ overview'.alerts = loads[r].alerts
      /\ doubt' = loads[r].passed \cup (doubt \cap Pending)
      /\ loads[r].step = "answered"
  BY DEF Loaded
<1>7. InTurn'
  <2> SUFFICES ASSUME NEW a \in Alerts \ doubt'
               PROVE  /\ OnItsWay(FiringOf(a)) /\ rows[a].acked => OnItsWay(AckedOf(a))
                      /\ OnItsWay(FiringOf(a)) /\ rows[a].state = "resolved" => OnItsWay(ResolvedOf(a))
                      /\ engine = FiringOf(a) => ~Waits(AckedOf(a))
                      /\ FiringIsFirst(a)
    BY <1>1, <1>2, <1>3 DEF InTurn, FiringIsFirst
  <2>1. CASE a \notin doubt
    BY <2>1 DEF FeedInv, FeedKept, InTurn
  <2>2. CASE a \notin Pending
    <3>1. ~OnItsWay(FiringOf(a)) /\ ~OnItsWay(AckedOf(a))
      BY <2>2, PendingMeans DEF FeedInv, FeedKept
    <3> QED
      BY <3>1 DEF OnItsWay, Waits, FiringIsFirst
  <2> QED
    BY <1>6, <2>1, <2>2
<1>8. ShownLeads'
  <2> SUFFICES ASSUME NEW a \in Alerts \ doubt' PROVE loads[r].alerts[a] \in Leading(a)
    BY <1>4, <1>6 DEF ShownLeads
  <2> QED
    BY <1>6 DEF FeedInv, FeedKept, AnswersLead
<1>9. AnswersLead'
  <2> SUFFICES ASSUME NEW q \in Loads, loads'[q].step = "answered",
                      NEW a \in Alerts \ loads'[q].passed, a \notin doubt' \cap Pending
               PROVE  loads'[q].alerts[a] \in Leading(a)
    BY <1>2, <1>4 DEF AnswersLead
  <2>1. loads'[q] = loads[q]
    BY DEF Loaded, Done, FeedInv, FeedKept, FeedTypeOK, Unsent
  <2>2. a \notin doubt \cap Pending
    BY <1>6
  <2> QED
    BY <2>1, <2>2 DEF FeedInv, FeedKept, AnswersLead
<1> QED
  BY <1>5, <1>7, <1>8, <1>9

LEMMA FeedInvInit == FeedInit => FeedInv
<1> SUFFICES ASSUME FeedInit PROVE FeedInv
  OBVIOUS
<1>1. FeedTypeOK /\ Lines
  BY TypeFeedInit, LinesInit
<1>2. Inbox = <<>> /\ engine = NoMessage /\ acking = NoMessage /\ overview = NoOverview
  BY DEF FeedInit, Inbox
<1>3. \A n : ~Waits(n)
  BY <1>2 DEF Waits
<1>4. Written /\ InTurn
  BY <1>2, <1>3, MessagesDiffer DEF FeedInit, Written, InTurn, OnItsWay, FiringIsFirst
<1>5. ShownLeads /\ AnswersLead
  BY <1>2 DEF ShownLeads, AnswersLead, FeedInit, Unsent
<1> QED
  BY <1>1, <1>4, <1>5 DEF FeedInv, FeedKept

LEMMA FeedInvNext == FeedInv /\ [FeedNext]_feedVars => FeedInv'
<1> SUFFICES ASSUME FeedInv, [FeedNext]_feedVars PROVE FeedInv'
  OBVIOUS
<1>1. FeedTypeOK'
  BY TypeServer, TypeLine, TypeTab DEF FeedInv, FeedKept, FeedNext, feedVars, FeedTypeOK
<1>2. Lines'
  BY LinesNext DEF FeedInv, FeedKept
<1>3. ASSUME UNCHANGED <<rows, engine, acking, overview, doubt, tab, loads>>, Inbox' = Inbox PROVE FeedKept'
  BY <1>1, <1>3, QuietKeeps DEF FeedKept
<1>0. ASSUME ChangeQuietly \/ RefreshInventory PROVE FeedKept'
  <2>1. UNCHANGED <<rows, engine, acking, overview, doubt, tab, loads, buffer>>
    BY <1>0 DEF ChangeQuietly, RefreshInventory, wire, browser
  <2> QED
    BY <1>3, <2>1 DEF Inbox
<1>4. ASSUME NEW p \in Callers, PublishAnyway(p) \/ TakeSnapshot(p) \/ PublishContainers(p)
      PROVE  FeedKept'
  <2>1. CASE PublishAnyway(p) \/ TakeSnapshot(p)
    BY <1>3, <2>1 DEF PublishAnyway, TakeSnapshot, wire, browser, Inbox
  <2> QED
    BY <1>1, <1>4, <2>1, ContainersKeep DEF FeedKept
<1>5. ASSUME NEW a \in Alerts, Fire(a) \/ Resolve(a) \/ Ack(a) PROVE FeedKept'
  BY <1>1, <1>5, WriteKeeps DEF FeedKept
<1>6. ASSUME PublishAlert \/ PublishAck PROVE FeedKept'
  BY <1>1, <1>6, PublishKeeps DEF FeedKept
<1>7. ASSUME NEW c \in Conns, Connect(c) \/ Subscribe(c) \/ Cut(c) \/ Return(c) PROVE FeedKept'
  <2>1. CASE Connect(c)
    <3>1. /\ Inbox = <<>> /\ Inbox' = buffer[c]
          /\ UNCHANGED <<rows, engine, acking, overview, doubt, loads>>
      BY <2>1 DEF Connect, Inbox, FeedInv, FeedKept, Lines, FeedTypeOK, Conns, server
    <3>2. buffer[c] = <<>>
      BY <2>1 DEF Connect, FeedInv, FeedKept, Lines, FeedTypeOK, Conns
    <3> QED
      BY <1>1, <3>1, <3>2, QuietKeeps DEF FeedKept
  <2>2. CASE Subscribe(c) \/ Return(c)
    BY <1>3, <2>2 DEF Subscribe, Return, server, browser, Inbox
  <2>3. CASE Cut(c) /\ c = tab
    BY <1>1, <2>3, CutKeeps DEF FeedKept
  <2>4. CASE Cut(c) /\ c # tab
    <3>1. Inbox' = Inbox
      BY <2>4 DEF Cut, Inbox, FeedInv, FeedKept, FeedTypeOK, Conns
    <3> QED
      BY <1>3, <2>4, <3>1 DEF Cut, server
  <2> QED
    BY <1>7, <2>1, <2>2, <2>3, <2>4
<1>8. ASSUME OnOpen PROVE FeedKept'
  <2>1. \A r \in Loads : loads'[r].step = "answered" => loads'[r] = loads[r]
    <3> SUFFICES ASSUME NEW r \in Loads, loads'[r].step = "answered" PROVE loads'[r] = loads[r]
      OBVIOUS
    <3>1. loads[r] \in Load
      BY DEF FeedInv, FeedKept, FeedTypeOK
    <3> QED
      BY <1>8, <3>1 DEF OnOpen, FeedInv, FeedKept, FeedTypeOK, Load
  <2> QED
    BY <1>1, <1>8, <2>1, QuietKeeps DEF OnOpen, server, wire, Inbox, FeedKept
<1>9. ASSUME OnClose \/ UNCHANGED feedVars PROVE FeedKept'
  BY <1>3, <1>9 DEF OnClose, server, wire, feedVars, Inbox
<1>10. ASSUME Deliver PROVE FeedKept'
  BY <1>1, <1>10, DeliverKeeps DEF FeedKept
<1>11. ASSUME NEW r \in Loads, ReadOverview(r) \/ Loaded(r) \/ Failed(r) PROVE FeedKept'
  <2>1. CASE Failed(r)
    <3>1. \A q \in Loads : loads'[q].step = "answered" => loads'[q] = loads[q]
      BY <2>1 DEF Failed, Done, Unsent, FeedInv, FeedKept, FeedTypeOK
    <3> QED
      BY <1>1, <2>1, <3>1, QuietKeeps DEF Failed, server, wire, Inbox, FeedKept
  <2> QED
    BY <1>1, <1>11, <2>1, ReadKeeps, LoadedKeeps DEF FeedKept
<1>12. FeedKept'
  BY <1>0, <1>4, <1>5, <1>6, <1>7, <1>8, <1>9, <1>10, <1>11 DEF FeedNext
<1> QED
  BY <1>1, <1>2, <1>12 DEF FeedInv, FeedKept

\* The argument, as one invariant.
THEOREM FeedInvariance == FeedSpec => []FeedInv
  BY FeedInvInit, FeedInvNext, PTL DEF FeedSpec

\* Every part keeps its type, and no subscription holds more than it may.
THEOREM FeedTypeCorrect == FeedSpec => []FeedTypeOK
<1>1. FeedInv => FeedTypeOK
  BY DEF FeedInv, FeedKept
<1> QED
  BY <1>1, FeedInvariance, PTL

\* An alert of which no message is on its way is shown as it is, unless the tab
\* missed a message of it and has not loaded an overview since.
THEOREM TabIsRight == FeedSpec => []AlertsAreRight
<1>1. FeedInv => AlertsAreRight
  <2> SUFFICES ASSUME FeedInv, overview # NoOverview, NEW a \in Alerts \ (Pending \cup doubt)
               PROVE  overview.alerts[a] = Firing[a]
    BY DEF AlertsAreRight
  <2>1. overview.alerts[a] \in Leading(a)
    BY DEF FeedInv, FeedKept, ShownLeads
  <2>2. ~OnItsWay(FiringOf(a)) /\ ~OnItsWay(ResolvedOf(a)) /\ ~OnItsWay(AckedOf(a))
    BY PendingMeans DEF FeedInv, FeedKept
  <2> QED
    BY <2>1, <2>2 DEF Leading
<1> QED
  BY <1>1, FeedInvariance, PTL

-----------------------------------------------------------------------------
(* LiveFeed: one subscription *)

\* The hub serves only the last connection of the tab, and those of which it
\* does not know yet that they are broken.
OnlyTheLastIsServed ==
    \A c \in Conns \ {tab} : serve[c] \in {"accepted", "subscribed"} => c \in cut

\* A tab that connects again and again leaves no subscription behind that still
\* gets messages: OneSubscription adds to this that the broken ones end.
THEOREM OneLineAtATime == FeedSpec => []OnlyTheLastIsServed
<1>1. FeedInit => OnlyTheLastIsServed
  BY DEF FeedInit, OnlyTheLastIsServed
<1>2. FeedInv /\ OnlyTheLastIsServed /\ [FeedNext]_feedVars => OnlyTheLastIsServed'
  <2> SUFFICES ASSUME FeedInv, OnlyTheLastIsServed, [FeedNext]_feedVars
               PROVE  OnlyTheLastIsServed'
    OBVIOUS
  <2> USE DEF OnlyTheLastIsServed
  <2>1. CASE UNCHANGED <<serve, cut, tab>>
    BY <2>1
  <2>2. ASSUME NEW c \in Conns, Connect(c) PROVE OnlyTheLastIsServed'
    <3>1. tab' = c /\ cut' = cut /\ serve' = [serve EXCEPT ![c] = "accepted"]
      BY <2>2 DEF Connect
    <3>2. tab = 0 \/ tab \in cut
      BY <2>2 DEF Connect, FeedInv, Lines
    <3>3. \A d \in Conns \ {c} : serve'[d] = serve[d] /\ d # 0
      BY <3>1 DEF FeedInv, FeedTypeOK, Conns
    <3> QED
      BY <3>1, <3>2, <3>3
  <2>3. ASSUME NEW c \in Conns, Subscribe(c) \/ Return(c) PROVE OnlyTheLastIsServed'
    BY <2>3 DEF Subscribe, Return, browser, FeedInv, FeedTypeOK
  <2>4. ASSUME NEW c \in Conns, Cut(c) PROVE OnlyTheLastIsServed'
    BY <2>4 DEF Cut
  <2>5. CASE \/ ChangeQuietly \/ RefreshInventory
             \/ \E p \in Callers : PublishAnyway(p) \/ TakeSnapshot(p) \/ PublishContainers(p)
             \/ \E a \in Alerts : Fire(a) \/ Resolve(a) \/ Ack(a)
             \/ PublishAlert \/ PublishAck
             \/ OnOpen \/ OnClose \/ Deliver
             \/ \E r \in Loads : ReadOverview(r) \/ Loaded(r) \/ Failed(r)
             \/ UNCHANGED feedVars
    BY <2>1, <2>5
       DEF ChangeQuietly, RefreshInventory, PublishAnyway, TakeSnapshot, PublishContainers,
           Fire, Resolve, Ack, PublishAlert, PublishAck, OnOpen,
           OnClose, Deliver, ReadOverview, Loaded, Failed, wire, browser, feedVars
  <2> QED
    BY <2>2, <2>3, <2>4, <2>5 DEF FeedNext
<1> QED
  BY <1>1, <1>2, FeedInvariance, PTL DEF FeedSpec

=============================================================================
