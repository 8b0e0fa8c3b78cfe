--------------------------- MODULE AccountProofs ----------------------------
(***************************************************************************)
(* Proofs about the accounts of people and of money.  AuthSessions, for    *)
(* any number of requests at once: a code, a challenge and a reset token   *)
(* work once, /oauth/token redeems only the current token of a live        *)
(* session, and a credential change ends the sessions made before it.      *)
(* ConsoleSessions: a change of password or factor ends all access.        *)
(* Billing: a period is renewed when paid and billed once.  Finance: a     *)
(* locked period is read-only, and the books of an invoice balance.  Last, *)
(* how many failed sign-ins and wrong codes the stale counters let by.     *)
(***************************************************************************)
EXTENDS AuthSessions, ConsoleAccount, Books, FiniteSetTheorems, SequenceTheorems, TLAPS

-----------------------------------------------------------------------------
(* The inductive invariant.                                                *)

\* A row that still works was never used, and every row at most once.
GrantsSound ==
  \A g \in DOMAIN grants : grants[g].uses <= 1 /\ (grants[g].open => grants[g].uses = 0)

\* A request that selected a single-use row FOR UPDATE holds it alone, and the row
\* still works.
GrantsHeld ==
  \A t \in Threads : thread[t].op \in Locking =>
    /\ thread[t].ref \in DOMAIN grants /\ grants[thread[t].ref].open
    /\ \A u \in Threads \ {t} : thread[u].op \in Locking => thread[u].ref # thread[t].ref

\* A refresh at /oauth/token holds its session alone, live, at the token it was given.
SessionsHeld ==
  \A t \in Threads : thread[t].op = "oauth_refresh" =>
    /\ thread[t].ref \in Live /\ sessions[thread[t].ref].token = thread[t].token
    /\ \A u \in Threads \ {t} : thread[u].op = "oauth_refresh" => thread[u].ref # thread[t].ref

\* A change that has selected the sessions to end has selected every live one, but
\* those whose sign-in overlaps it.
ChangesSee ==
  \A t \in Threads : thread[t].op \in Changes /\ thread[t].asked =>
    \A s \in Live : ~sessions[s].raced => s \in thread[t].live

AuthInv ==
  TypeOK /\ GrantsSound /\ GrantsHeld /\ SessionsHeld /\ ChangesSee /\ ChangeEndsSessions

-----------------------------------------------------------------------------
(* What the operators that requests are made of do to the rows.            *)

Ops == SignIns \cup Changes \cup Locking \cup {"oauth_refresh", "refresh"}

LEMMA Constants ==
  /\ MaxVersion \in Nat /\ MaxSessions \in Nat /\ MaxGrants \in Nat
  /\ MaxTokens \in Nat \ {0} /\ MaxFailures \in Nat \ {0} /\ Cardinality(Threads) \in Nat
<1>1. Cardinality(Threads) \in Nat
  BY FS_CardinalityType, AuthSessionsAssumption
<1> QED BY <1>1, AuthSessionsAssumption

LEMMA SomeThread ==
  ASSUME NEW t \in Threads PROVE Cardinality(Threads) >= 1
BY FS_EmptySet, Constants, AuthSessionsAssumption

LEMMA BeginFacts ==
  ASSUME TypeOK, NEW t \in Threads, NEW op \in Ops, NEW ref \in 0..(MaxGrants + MaxSessions),
         NEW token \in 0..MaxTokens, Begin(t, op, ref, token)
  PROVE  /\ thread' \in [Threads -> ThreadStates \cup {Idle}]
         /\ thread[t].op = "idle"
         /\ thread'[t].op = op /\ thread'[t].ref = ref /\ thread'[t].token = token
         /\ thread'[t].asked = FALSE
         /\ \A u \in Threads \ {t} : thread'[u] = thread[u]
<1> DEFINE r == [op |-> op, user |-> Loaded(op), ref |-> ref, token |-> token,
                 asked |-> FALSE, live |-> {}]
<1>1. Loaded(op) \in Users
  <2>1. user \in Users
    BY DEF TypeOK
  <2>2. [user EXCEPT !.failures = 0, !.lock = "none"] \in Users
    <3>1. 0 \in 0..MaxFailures
      BY Constants
    <3> QED BY <2>1, <3>1 DEF Users
  <2>3. [active |-> TRUE, version |-> 0, failures |-> 0, lock |-> "none"] \in Users
    BY Constants DEF Users
  <2> QED BY <2>1, <2>2, <2>3 DEF Loaded
<1>2. r \in ThreadStates
  BY <1>1 DEF ThreadStates, Ops
<1>3. thread' = [thread EXCEPT ![t] = r] /\ thread[t] = Idle
  BY DEF Begin
<1>4. r.op = op /\ r.ref = ref /\ r.token = token /\ r.asked = FALSE
  OBVIOUS
<1> HIDE DEF r
<1> QED BY <1>2, <1>3, <1>4 DEF TypeOK, Idle

LEMMA EndFacts ==
  ASSUME TypeOK, NEW t \in Threads, End(t)
  PROVE  /\ thread' \in [Threads -> ThreadStates \cup {Idle}]
         /\ thread'[t].op = "idle"
         /\ \A u \in Threads \ {t} : thread'[u] = thread[u]
BY DEF TypeOK, End, Idle

\* A request that is under way has all the fields of one.
LEMMA UnderWay ==
  ASSUME TypeOK, NEW t \in Threads, thread[t] # Idle
  PROVE  /\ thread[t].op \in Ops /\ thread[t].user \in Users
         /\ thread[t].ref \in 0..(MaxGrants + MaxSessions) /\ thread[t].token \in 0..MaxTokens
         /\ thread[t].asked \in BOOLEAN /\ thread[t].live \in SUBSET (1..MaxSessions)
BY DEF TypeOK, ThreadStates, Ops

LEMMA NotIdle ==
  ASSUME NEW t, thread[t].op \in Ops PROVE thread[t] # Idle
BY DEF Idle, Ops, SignIns, Changes, Locking

LEMMA ClearedFacts ==
  ASSUME TypeOK, NEW u \in Users
  PROVE  /\ Cleared(u) \in Users /\ Cleared(u).version = user.version
         /\ Cleared(u).active = user.active
<1>1. user \in Users
  BY DEF TypeOK
<1>2. Stored(u.failures, 0, user.failures) \in 0..MaxFailures
  BY <1>1, Constants DEF Stored, Users
<1>3. Stored(u.lock, "none", user.lock) \in {"none", "held", "over"}
  BY <1>1 DEF Stored, Users
<1> QED BY <1>1, <1>2, <1>3 DEF Cleared, Users

LEMMA CountFailureFacts ==
  ASSUME TypeOK, NEW u \in Users, CountFailure(u)
  PROVE  /\ user' \in Users /\ user'.version = user.version /\ user'.active = user.active
         /\ guesses' \in Nat
<1>1. user \in Users /\ u.failures \in 0..MaxFailures /\ guesses \in Nat
  BY DEF TypeOK, Users
<1>2. (IF u.failures + 1 >= MaxFailures THEN MaxFailures ELSE u.failures + 1) \in 0..MaxFailures
  BY <1>1, Constants
<1>3. (IF u.failures + 1 >= MaxFailures THEN "held" ELSE user.lock) \in {"none", "held", "over"}
  BY <1>1 DEF Users
<1>4. user' = [user EXCEPT
           !.failures = IF u.failures + 1 >= MaxFailures THEN MaxFailures ELSE u.failures + 1,
           !.lock = IF u.failures + 1 >= MaxFailures THEN "held" ELSE user.lock]
  BY DEF CountFailure
<1>5. guesses' \in Nat
  BY <1>1 DEF CountFailure
<1> QED BY <1>1, <1>2, <1>3, <1>4, <1>5 DEF Users

LEMMA AddSessionFacts ==
  ASSUME TypeOK, NEW t \in Threads, AddSession(t)
  PROVE  /\ sessions' \in Seq(SessionRows) /\ Len(sessions') <= MaxSessions
         /\ \A s \in DOMAIN sessions : s \in DOMAIN sessions' /\ sessions'[s] = sessions[s]
         /\ \A s \in DOMAIN sessions' \ DOMAIN sessions :
              ~sessions'[s].raced => ~Raced(t) /\ sessions'[s].at = user.version
<1> DEFINE r == [token |-> 1, revoked |-> FALSE, raced |-> Raced(t),
                 at |-> IF Raced(t) THEN 0 ELSE user.version]
<1>1. r \in SessionRows
  BY Constants DEF SessionRows, TypeOK, Users, Raced
<1>2. sessions' = Append(sessions, r) /\ Len(sessions) < MaxSessions /\ sessions \in Seq(SessionRows)
  BY DEF AddSession, TypeOK
<1>3. ~r.raced => ~Raced(t) /\ r.at = user.version
  OBVIOUS
<1> HIDE DEF r
<1>4. /\ sessions' \in Seq(SessionRows) /\ Len(sessions') = Len(sessions) + 1
      /\ \A s \in 1..Len(sessions) : sessions'[s] = sessions[s]
      /\ sessions'[Len(sessions) + 1] = r
  BY <1>1, <1>2, AppendProperties
<1>5. /\ DOMAIN sessions = 1..Len(sessions) /\ DOMAIN sessions' = 1..(Len(sessions) + 1)
      /\ Len(sessions) \in Nat
  BY <1>2, <1>4
<1> QED BY <1>2, <1>3, <1>4, <1>5, Constants

LEMMA AddGrantFacts ==
  ASSUME TypeOK, NEW kind \in {"code", "challenge", "reset"}, AddGrant(kind)
  PROVE  /\ grants' \in Seq(GrantRows) /\ Len(grants') <= MaxGrants
         /\ \A g \in DOMAIN grants : g \in DOMAIN grants' /\ grants'[g] = grants[g]
         /\ \A g \in DOMAIN grants' \ DOMAIN grants : grants'[g].uses = 0
<1> DEFINE r == [kind |-> kind, open |-> TRUE, uses |-> 0]
<1>1. r \in GrantRows /\ r.uses = 0
  BY Constants DEF GrantRows
<1>2. grants' = Append(grants, r) /\ Len(grants) < MaxGrants /\ grants \in Seq(GrantRows)
  BY DEF AddGrant, TypeOK
<1> HIDE DEF r
<1>3. /\ grants' \in Seq(GrantRows) /\ Len(grants') = Len(grants) + 1
      /\ \A s \in 1..Len(grants) : grants'[s] = grants[s]
      /\ grants'[Len(grants) + 1] = r
  BY <1>1, <1>2, AppendProperties
<1>4. /\ DOMAIN grants = 1..Len(grants) /\ DOMAIN grants' = 1..(Len(grants) + 1)
      /\ Len(grants) \in Nat
  BY <1>2, <1>3
<1> QED BY <1>1, <1>2, <1>3, <1>4, Constants

\* Consuming a row: it works no longer, and was used once more.
LEMMA ConsumeFacts ==
  ASSUME TypeOK, NEW t \in Threads, NEW g \in DOMAIN grants, grants[g].uses = 0, Consume(g)
  PROVE  /\ grants' \in Seq(GrantRows) /\ Len(grants') = Len(grants)
         /\ DOMAIN grants' = DOMAIN grants
         /\ grants'[g].uses = 1 /\ grants'[g].open = FALSE
         /\ \A h \in DOMAIN grants \ {g} : grants'[h] = grants[h]
<1> DEFINE r == [grants[g] EXCEPT !.open = FALSE, !.uses = 1]
<1>1. grants \in Seq(GrantRows) /\ grants[g] \in GrantRows /\ Len(grants) \in Nat
      /\ DOMAIN grants = 1..Len(grants)
  BY DEF TypeOK
<1>2. grants' = [grants EXCEPT ![g] = r]
  <2>1. grants' = [grants EXCEPT ![g].open = FALSE, ![g].uses = 1]
    BY DEF Consume
  <2> QED BY <1>1, <2>1
<1>3. r \in GrantRows /\ r.uses = 1 /\ r.open = FALSE
  <2>1. 1 \in 0..Cardinality(Threads)
    BY SomeThread, Constants
  <2> QED BY <1>1, <2>1 DEF GrantRows
<1> HIDE DEF r
<1> QED BY <1>1, <1>2, <1>3

-----------------------------------------------------------------------------
(* Frame lemmas: what a step has to leave alone to keep a part of the      *)
(* invariant.                                                              *)

\* Requests only end, and nobody touches a single-use row that is locked.
LEMMA GrantsFrame ==
  ASSUME GrantsHeld,
         \A t \in Threads : thread'[t] = thread[t] \/ thread'[t].op \notin Locking,
         \A t \in Threads : thread'[t].op \in Locking =>
           thread[t].ref \in DOMAIN grants' /\ grants'[thread[t].ref].open
  PROVE  GrantsHeld'
BY DEF GrantsHeld

\* Requests only end, and nobody touches a session that is locked.
LEMMA SessionsFrame ==
  ASSUME SessionsHeld,
         \A t \in Threads : thread'[t] = thread[t] \/ thread'[t].op # "oauth_refresh",
         \A t \in Threads : thread'[t].op = "oauth_refresh" =>
           /\ thread[t].ref \in DOMAIN sessions' /\ ~sessions'[thread[t].ref].revoked
           /\ sessions'[thread[t].ref].token = sessions[thread[t].ref].token
  PROVE  SessionsHeld'
BY DEF SessionsHeld, Live

\* The account keeps its version, sessions keep theirs or end, and a session that
\* is added while a change is under way is marked as overlapping it.
LEMMA ChangesFrame ==
  ASSUME ChangesSee, ChangeEndsSessions,
         user'.version = user.version, user'.active = user.active,
         \A t \in Threads : \/ thread'[t] = thread[t]
                            \/ thread'[t].op \notin Changes \/ ~thread'[t].asked,
         \A s \in DOMAIN sessions' :
           ~sessions'[s].revoked /\ ~sessions'[s].raced =>
             \/ /\ s \in DOMAIN sessions /\ ~sessions[s].revoked /\ ~sessions[s].raced
                /\ sessions'[s].at = sessions[s].at
             \/ /\ sessions'[s].at = user.version /\ user.active
                /\ \A t \in Threads : thread'[t].op \notin Changes \/ ~thread'[t].asked
  PROVE  ChangesSee' /\ ChangeEndsSessions'
<1>1. \A s \in Live' : ~sessions'[s].raced =>
         \/ s \in Live /\ ~sessions[s].raced /\ sessions'[s].at = sessions[s].at
         \/ /\ sessions'[s].at = user.version /\ user.active
            /\ \A t \in Threads : thread'[t].op \notin Changes \/ ~thread'[t].asked
  BY DEF Live
<1>2. ChangeEndsSessions'
  BY <1>1 DEF ChangeEndsSessions
<1>3. ChangesSee'
  BY <1>1 DEF ChangesSee
<1> QED BY <1>2, <1>3

\* A step that only begins requests, ends them or changes the account's counters.
LEMMA RowsUnchanged ==
  ASSUME AuthInv, TypeOK', UNCHANGED <<sessions, grants>>,
         user'.version = user.version, user'.active = user.active,
         \A t \in Threads : thread'[t] = thread[t] \/ thread'[t].op \notin Locking \cup {"oauth_refresh"},
         \A t \in Threads : \/ thread'[t] = thread[t]
                            \/ thread'[t].op \notin Changes \/ ~thread'[t].asked
  PROVE  AuthInv'
<1>1. GrantsSound'
  BY DEF AuthInv, GrantsSound
<1>2. GrantsHeld'
  <2>1. \A t \in Threads : thread'[t].op \in Locking =>
           thread[t].ref \in DOMAIN grants' /\ grants'[thread[t].ref].open
    BY DEF AuthInv, GrantsHeld
  <2> QED BY <2>1, GrantsFrame DEF AuthInv
<1>3. SessionsHeld'
  <2>1. \A t \in Threads : thread'[t].op = "oauth_refresh" =>
           /\ thread[t].ref \in DOMAIN sessions' /\ ~sessions'[thread[t].ref].revoked
           /\ sessions'[thread[t].ref].token = sessions[thread[t].ref].token
    BY DEF AuthInv, SessionsHeld, Live
  <2> QED BY <2>1, SessionsFrame DEF AuthInv
<1>4. ChangesSee' /\ ChangeEndsSessions'
  BY ChangesFrame DEF AuthInv
<1> QED BY <1>1, <1>2, <1>3, <1>4 DEF AuthInv

-----------------------------------------------------------------------------
(* One lemma per kind of step: it keeps the inductive invariant.           *)

\* A request begins: it loads and locks, and writes nothing.
LEMMA BeginKeeps ==
  ASSUME AuthInv, NEW t \in Threads, NEW op \in Ops, NEW ref \in 0..(MaxGrants + MaxSessions),
         NEW token \in 0..MaxTokens, Begin(t, op, ref, token),
         UNCHANGED <<user, sessions, grants, guesses>>,
         op \in Locking => ref \in DOMAIN grants /\ grants[ref].open /\ ~GrantLocked(ref),
         op = "oauth_refresh" => ref \in Live /\ sessions[ref].token = token /\ ~SessionLocked(ref)
  PROVE  AuthInv'
<1>1. /\ thread' \in [Threads -> ThreadStates \cup {Idle}]
      /\ thread'[t].op = op /\ thread'[t].ref = ref /\ thread'[t].token = token
      /\ thread'[t].asked = FALSE
      /\ \A u \in Threads \ {t} : thread'[u] = thread[u]
  BY BeginFacts DEF AuthInv
<1>2. TypeOK'
  BY <1>1 DEF AuthInv, TypeOK
<1>3. GrantsSound'
  BY DEF AuthInv, GrantsSound
<1>4. GrantsHeld'
  BY <1>1 DEF AuthInv, GrantsHeld, GrantLocked
<1>5. SessionsHeld'
  BY <1>1 DEF AuthInv, SessionsHeld, SessionLocked, Live
<1>6. ChangesSee' /\ ChangeEndsSessions'
  BY <1>1, ChangesFrame DEF AuthInv
<1> QED BY <1>2, <1>3, <1>4, <1>5, <1>6 DEF AuthInv

\* A request ends and leaves the rows alone.
LEMMA EndKeeps ==
  ASSUME AuthInv, NEW t \in Threads, End(t), UNCHANGED <<sessions, grants>>,
         user' \in Users, user'.version = user.version, user'.active = user.active, guesses' \in Nat
  PROVE  AuthInv'
<1>1. /\ thread' \in [Threads -> ThreadStates \cup {Idle}] /\ thread'[t].op = "idle"
      /\ \A u \in Threads \ {t} : thread'[u] = thread[u]
  BY EndFacts DEF AuthInv
<1>2. TypeOK'
  BY <1>1 DEF AuthInv, TypeOK
<1>3. "idle" \notin Locking \cup {"oauth_refresh"} /\ "idle" \notin Changes
  BY DEF Locking, Changes
<1> QED BY <1>1, <1>2, <1>3, RowsUnchanged

\* New rows, a request that ends, and at most one row consumed by the request that
\* holds it.
LEMMA AddKeeps ==
  ASSUME AuthInv, NEW t \in Threads, End(t) \/ UNCHANGED thread,
         user' \in Users, user'.version = user.version, user'.active = user.active, guesses' \in Nat,
         AddSession(t) \/ UNCHANGED sessions, thread[t].op \notin Changes,
         AddSession(t) => End(t),
         \/ UNCHANGED grants
         \/ \E kind \in {"code", "challenge", "reset"} : AddGrant(kind)
         \/ End(t) /\ thread[t].op \in Locking /\ Consume(thread[t].ref)
  PROVE  AuthInv'
<1>1. /\ thread' \in [Threads -> ThreadStates \cup {Idle}]
      /\ End(t) => thread'[t].op = "idle"
      /\ \A u \in Threads \ {t} : thread'[u] = thread[u]
      /\ \A u \in Threads : thread'[u] = thread[u] \/ thread'[u].op = "idle"
  BY EndFacts DEF AuthInv, TypeOK
<1>2. "idle" \notin Locking /\ "idle" # "oauth_refresh" /\ "idle" \notin Changes
  BY DEF Locking, Changes
<1>3. /\ sessions' \in Seq(SessionRows) /\ Len(sessions') <= MaxSessions
      /\ \A s \in DOMAIN sessions : s \in DOMAIN sessions' /\ sessions'[s] = sessions[s]
      /\ \A s \in DOMAIN sessions' \ DOMAIN sessions :
           AddSession(t) /\ (~sessions'[s].raced => ~Raced(t) /\ sessions'[s].at = user.version)
  BY AddSessionFacts DEF AuthInv, TypeOK
<1> DEFINE GrantsKept ==
      /\ grants' \in Seq(GrantRows) /\ Len(grants') <= MaxGrants /\ GrantsSound'
      /\ \A u \in Threads : thread'[u].op \in Locking =>
           thread[u].ref \in DOMAIN grants' /\ grants'[thread[u].ref].open
<1>4. GrantsKept
  <2>1. CASE UNCHANGED grants
    BY <1>1, <1>2, <2>1 DEF AuthInv, TypeOK, GrantsSound, GrantsHeld
  <2>2. ASSUME NEW kind \in {"code", "challenge", "reset"}, AddGrant(kind)
        PROVE  GrantsKept
    <3>1. /\ grants' \in Seq(GrantRows) /\ Len(grants') <= MaxGrants
          /\ \A g \in DOMAIN grants : g \in DOMAIN grants' /\ grants'[g] = grants[g]
          /\ \A g \in DOMAIN grants' \ DOMAIN grants : grants'[g].uses = 0
      BY <2>2, AddGrantFacts DEF AuthInv
    <3>2. GrantsSound'
      BY <3>1 DEF AuthInv, GrantsSound
    <3> QED BY <1>1, <1>2, <3>1, <3>2 DEF AuthInv, GrantsHeld
  <2>3. CASE End(t) /\ thread[t].op \in Locking /\ Consume(thread[t].ref)
    <3> DEFINE g == thread[t].ref
    <3>1. /\ g \in DOMAIN grants /\ grants[g].uses = 0
          /\ \A u \in Threads \ {t} : thread[u].op \in Locking => thread[u].ref # g
      BY <2>3 DEF AuthInv, GrantsHeld, GrantsSound
    <3>2. /\ grants' \in Seq(GrantRows) /\ Len(grants') = Len(grants)
          /\ DOMAIN grants' = DOMAIN grants
          /\ grants'[g].uses = 1 /\ grants'[g].open = FALSE
          /\ \A h \in DOMAIN grants \ {g} : grants'[h] = grants[h]
      BY <2>3, <3>1, ConsumeFacts DEF AuthInv
    <3>3. GrantsSound' /\ Len(grants') <= MaxGrants
      BY <3>2 DEF AuthInv, GrantsSound, TypeOK
    <3> QED BY <1>1, <1>2, <2>3, <3>1, <3>2, <3>3 DEF AuthInv, GrantsHeld
  <2> QED BY <2>1, <2>2, <2>3
<1>5. TypeOK'
  BY <1>1, <1>3, <1>4 DEF TypeOK
<1>6. GrantsHeld'
  BY <1>1, <1>2, <1>4, GrantsFrame DEF AuthInv
<1>7. SessionsHeld'
  <2>1. \A u \in Threads : thread'[u].op = "oauth_refresh" =>
           /\ thread[u].ref \in DOMAIN sessions' /\ ~sessions'[thread[u].ref].revoked
           /\ sessions'[thread[u].ref].token = sessions[thread[u].ref].token
    BY <1>1, <1>2, <1>3 DEF AuthInv, SessionsHeld, Live
  <2> QED BY <1>1, <1>2, <2>1, SessionsFrame DEF AuthInv
<1>8. ChangesSee' /\ ChangeEndsSessions'
  <2>1. ASSUME NEW s \in DOMAIN sessions', ~sessions'[s].revoked, ~sessions'[s].raced
        PROVE  \/ /\ s \in DOMAIN sessions /\ ~sessions[s].revoked /\ ~sessions[s].raced
                  /\ sessions'[s].at = sessions[s].at
               \/ /\ sessions'[s].at = user.version /\ user.active
                  /\ \A u \in Threads : thread'[u].op \notin Changes \/ ~thread'[u].asked
    <3>1. CASE s \in DOMAIN sessions
      BY <1>3, <2>1, <3>1
    <3>2. CASE s \notin DOMAIN sessions
      <4>1. ~Raced(t) /\ sessions'[s].at = user.version /\ End(t)
        BY <1>3, <2>1, <3>2
      <4>2. user.active /\ \A u \in Threads \ {t} : thread[u].op \notin Changes \/ ~thread[u].asked
        BY <4>1 DEF Raced
      <4> QED BY <1>1, <1>2, <4>1, <4>2
    <3> QED BY <3>1, <3>2
  <2>2. \A u \in Threads : \/ thread'[u] = thread[u]
                           \/ thread'[u].op \notin Changes \/ ~thread'[u].asked
    BY <1>1, <1>2
  <2> QED BY <2>1, <2>2, ChangesFrame DEF AuthInv
<1> QED BY <1>4, <1>5, <1>6, <1>7, <1>8 DEF AuthInv

\* The rows of a table rewritten in place.
LEMMA Rewritten ==
  ASSUME NEW R, NEW q \in Seq(R), NEW r \in [DOMAIN q -> R]
  PROVE  r \in Seq(R) /\ Len(r) = Len(q) /\ DOMAIN r = DOMAIN q
<1>1. Len(q) \in Nat /\ DOMAIN q = 1..Len(q)
  OBVIOUS
<1>2. r \in [1..Len(q) -> R]
  BY <1>1
<1>3. r \in Seq(R)
  BY <1>1, <1>2
<1> QED BY <1>1, <1>2, <1>3

LEMMA DeadRow ==
  Dead \in SessionRows /\ Dead.revoked = TRUE
BY Constants DEF Dead, SessionRows

\* Sessions are ended by a step that waits for whoever holds them.
LEMMA RevokeKeeps ==
  ASSUME AuthInv, NEW S, Revoke(S) PROVE AuthInv'
<1>1. /\ sessions \in Seq(SessionRows) /\ Len(sessions) <= MaxSessions
      /\ \A s \in DOMAIN sessions : sessions[s] \in SessionRows
      /\ sessions' = [s \in DOMAIN sessions |-> IF s \in S THEN Dead ELSE sessions[s]]
      /\ \A s \in S : ~SessionLocked(s)
      /\ UNCHANGED <<user, grants, thread, guesses>>
  BY DEF AuthInv, TypeOK, Revoke
<1>2. sessions' \in [DOMAIN sessions -> SessionRows]
  BY <1>1, DeadRow
<1>3. sessions' \in Seq(SessionRows) /\ Len(sessions') = Len(sessions) /\ DOMAIN sessions' = DOMAIN sessions
  BY <1>1, <1>2, Rewritten
<1>4. /\ \A s \in DOMAIN sessions : sessions'[s] = sessions[s] \/ sessions'[s].revoked = TRUE
      /\ \A s \in DOMAIN sessions \ S : sessions'[s] = sessions[s]
  BY <1>1, DeadRow
<1>5. TypeOK' /\ GrantsSound' /\ GrantsHeld'
  BY <1>1, <1>3 DEF AuthInv, TypeOK, GrantsSound, GrantsHeld
<1>6. SessionsHeld'
  <2>1. \A u \in Threads : thread'[u].op = "oauth_refresh" =>
           /\ thread[u].ref \in DOMAIN sessions' /\ ~sessions'[thread[u].ref].revoked
           /\ sessions'[thread[u].ref].token = sessions[thread[u].ref].token
    BY <1>1, <1>3, <1>4 DEF AuthInv, SessionsHeld, SessionLocked, Live
  <2> QED BY <1>1, <2>1, SessionsFrame DEF AuthInv
<1>7. ChangesSee' /\ ChangeEndsSessions'
  BY <1>1, <1>3, <1>4, ChangesFrame DEF AuthInv
<1> QED BY <1>5, <1>6, <1>7 DEF AuthInv

\* A refresh: nobody else holds the session whose token it replaces.
LEMMA RotateKeeps ==
  ASSUME AuthInv, NEW t \in Threads, Rotate(t) PROVE AuthInv'
<1> DEFINE s == thread[t].ref
<1>1. /\ thread[t].op \in {"oauth_refresh", "refresh"} /\ End(t)
      /\ UNCHANGED <<user, grants, guesses>>
      /\ thread[t].op = "refresh" => ~SessionLocked(s)
  BY DEF Rotate
<1>2. /\ thread' \in [Threads -> ThreadStates \cup {Idle}] /\ thread'[t].op = "idle"
      /\ \A u \in Threads \ {t} : thread'[u] = thread[u]
  BY <1>1, EndFacts DEF AuthInv
<1>3. CASE UNCHANGED sessions
  BY <1>1, <1>3, EndKeeps DEF AuthInv, TypeOK
<1>4. CASE /\ s \in Live /\ sessions[s].token < MaxTokens
           /\ sessions' = [sessions EXCEPT ![s].token = sessions[s].token + 1]
  <2> DEFINE r == [sessions[s] EXCEPT !.token = sessions[s].token + 1]
  <2>1. /\ sessions \in Seq(SessionRows) /\ Len(sessions) <= MaxSessions
        /\ s \in DOMAIN sessions /\ sessions[s] \in SessionRows
    BY <1>4 DEF AuthInv, TypeOK, Live
  <2>2. r \in SessionRows /\ r.revoked = sessions[s].revoked /\ r.raced = sessions[s].raced
        /\ r.at = sessions[s].at
    <3>1. sessions[s].token + 1 \in 1..MaxTokens
      BY <1>4, <2>1, Constants DEF SessionRows
    <3> QED BY <2>1, <3>1 DEF SessionRows
  <2>3. sessions' = [sessions EXCEPT ![s] = r]
    BY <1>4, <2>1
  <2> HIDE DEF r
  <2>4. /\ sessions' \in Seq(SessionRows) /\ Len(sessions') = Len(sessions)
        /\ DOMAIN sessions' = DOMAIN sessions /\ sessions'[s] = r
        /\ \A q \in DOMAIN sessions \ {s} : sessions'[q] = sessions[q]
    BY <2>1, <2>2, <2>3
  <2>5. TypeOK' /\ GrantsSound'
    BY <1>1, <1>2, <2>1, <2>4 DEF AuthInv, TypeOK, GrantsSound
  <2>6. "idle" \notin Locking /\ "idle" # "oauth_refresh" /\ "idle" \notin Changes
    BY DEF Locking, Changes
  <2>7. GrantsHeld'
    BY <1>1, <1>2, <2>6, GrantsFrame DEF AuthInv, GrantsHeld
  <2>8. SessionsHeld'
    <3>1. \A u \in Threads \ {t} : thread[u].op = "oauth_refresh" => thread[u].ref # s
      BY <1>1 DEF AuthInv, SessionsHeld, SessionLocked
    <3>2. \A u \in Threads : thread'[u].op = "oauth_refresh" =>
             /\ thread[u].ref \in DOMAIN sessions' /\ ~sessions'[thread[u].ref].revoked
             /\ sessions'[thread[u].ref].token = sessions[thread[u].ref].token
      BY <1>2, <2>4, <2>6, <3>1 DEF AuthInv, SessionsHeld, Live
    <3> QED BY <1>2, <2>6, <3>2, SessionsFrame DEF AuthInv
  <2>9. ChangesSee' /\ ChangeEndsSessions'
    <3>1. \A q \in DOMAIN sessions' :
             ~sessions'[q].revoked /\ ~sessions'[q].raced =>
               /\ q \in DOMAIN sessions /\ ~sessions[q].revoked /\ ~sessions[q].raced
               /\ sessions'[q].at = sessions[q].at
      BY <2>2, <2>4
    <3> QED BY <1>1, <1>2, <2>6, <3>1, ChangesFrame DEF AuthInv
  <2> QED BY <2>5, <2>7, <2>8, <2>9 DEF AuthInv
<1> QED BY <1>3, <1>4 DEF Rotate

\* An unlocked single-use row runs out.
LEMMA GrantExpiresKeeps ==
  ASSUME AuthInv, NEW g \in DOMAIN grants, GrantExpires(g) PROVE AuthInv'
<1> DEFINE r == [grants[g] EXCEPT !.open = FALSE]
<1>1. /\ grants \in Seq(GrantRows) /\ Len(grants) <= MaxGrants /\ grants[g] \in GrantRows
      /\ grants' = [grants EXCEPT ![g].open = FALSE] /\ ~GrantLocked(g)
      /\ UNCHANGED <<user, sessions, thread, guesses>>
  BY DEF AuthInv, TypeOK, GrantExpires
<1>2. r \in GrantRows /\ r.open = FALSE /\ r.uses = grants[g].uses
  BY <1>1 DEF GrantRows
<1>3. grants' = [grants EXCEPT ![g] = r]
  BY <1>1
<1> HIDE DEF r
<1>4. /\ grants' \in Seq(GrantRows) /\ Len(grants') = Len(grants) /\ DOMAIN grants' = DOMAIN grants
      /\ grants'[g] = r /\ \A h \in DOMAIN grants \ {g} : grants'[h] = grants[h]
  <2>1. grants' \in [DOMAIN grants -> GrantRows]
    <3>1. grants \in [DOMAIN grants -> GrantRows]
      BY <1>1
    <3> QED BY <1>2, <1>3, <3>1
  <2>2. grants'[g] = r /\ \A h \in DOMAIN grants \ {g} : grants'[h] = grants[h]
    BY <1>3
  <2> QED BY <1>1, <2>1, <2>2, Rewritten
<1>5. TypeOK'
  BY <1>1, <1>4 DEF AuthInv, TypeOK
<1>6. GrantsSound'
  BY <1>2, <1>4 DEF AuthInv, GrantsSound
<1>7. GrantsHeld'
  BY <1>1, <1>4 DEF AuthInv, GrantsHeld, GrantLocked
<1>8. SessionsHeld' /\ ChangesSee' /\ ChangeEndsSessions'
  BY <1>1 DEF AuthInv, SessionsHeld, ChangesSee, ChangeEndsSessions, Live
<1> QED BY <1>5, <1>6, <1>7, <1>8 DEF AuthInv

\* A new reset token; the open ones close, and none of them is locked.
LEMMA RequestResetKeeps ==
  ASSUME AuthInv, RequestReset PROVE AuthInv'
<1> DEFINE q == [g \in DOMAIN grants |->
                   [grants[g] EXCEPT !.open = grants[g].open /\ grants[g].kind # "reset"]]
           new == [kind |-> "reset", open |-> TRUE, uses |-> 0]
<1>1. /\ grants \in Seq(GrantRows) /\ \A g \in DOMAIN grants : grants[g] \in GrantRows
      /\ Len(grants) < MaxGrants /\ grants' = Append(q, new)
      /\ \A g \in DOMAIN grants : grants[g].kind = "reset" => ~GrantLocked(g)
      /\ UNCHANGED <<user, sessions, thread, guesses>>
  BY DEF AuthInv, TypeOK, RequestReset
<1>2. new \in GrantRows /\ new.uses = 0
  BY Constants DEF GrantRows
<1>3. \A g \in DOMAIN grants :
        /\ q[g] \in GrantRows /\ q[g].uses = grants[g].uses
        /\ q[g].open => grants[g].open
        /\ grants[g].kind # "reset" /\ grants[g].open => q[g].open
  BY <1>1 DEF GrantRows
<1>4. q \in Seq(GrantRows) /\ Len(q) = Len(grants) /\ DOMAIN q = DOMAIN grants
  <2>1. q \in [DOMAIN grants -> GrantRows]
    BY <1>3
  <2> HIDE DEF q
  <2> QED BY <1>1, <2>1, Rewritten
<1> HIDE DEF q, new
<1>5. /\ grants' \in Seq(GrantRows) /\ Len(grants') = Len(grants) + 1
      /\ \A g \in 1..Len(q) : grants'[g] = q[g]
      /\ grants'[Len(q) + 1] = new
  BY <1>1, <1>2, <1>4, AppendProperties
<1>6. /\ DOMAIN grants = 1..Len(grants) /\ DOMAIN grants' = 1..(Len(grants) + 1)
      /\ Len(grants) \in Nat
  BY <1>1, <1>5
<1>7. /\ \A g \in DOMAIN grants : g \in DOMAIN grants' /\ grants'[g] = q[g]
      /\ \A g \in DOMAIN grants' \ DOMAIN grants : grants'[g] = new
  BY <1>4, <1>5, <1>6
<1>8. TypeOK'
  BY <1>1, <1>5, <1>6, Constants DEF AuthInv, TypeOK
<1>9. GrantsSound'
  BY <1>2, <1>3, <1>7 DEF AuthInv, GrantsSound
<1>10. GrantsHeld'
  <2>1. \A t \in Threads : thread'[t].op \in Locking =>
           thread[t].ref \in DOMAIN grants' /\ grants'[thread[t].ref].open
    BY <1>1, <1>3, <1>7 DEF AuthInv, GrantsHeld, GrantLocked
  <2> QED BY <1>1, <2>1, GrantsFrame DEF AuthInv
<1>11. SessionsHeld' /\ ChangesSee' /\ ChangeEndsSessions'
  BY <1>1 DEF AuthInv, SessionsHeld, ChangesSee, ChangeEndsSessions, Live
<1> QED BY <1>8, <1>9, <1>10, <1>11 DEF AuthInv

\* revoke_sessions selects every live session.
LEMMA SelectSessionsKeeps ==
  ASSUME AuthInv, NEW t \in Threads, SelectSessions(t) PROVE AuthInv'
<1> DEFINE r == [thread[t] EXCEPT !.asked = TRUE, !.live = Live]
<1>1. /\ thread[t].op \in Changes /\ thread' = [thread EXCEPT ![t].asked = TRUE, ![t].live = Live]
      /\ UNCHANGED <<user, sessions, grants, guesses>>
  BY DEF SelectSessions
<1>2. thread[t] \in ThreadStates
  BY <1>1, NotIdle DEF AuthInv, TypeOK, Ops
<1>3. Live \in SUBSET (1..MaxSessions)
  BY Constants DEF AuthInv, TypeOK, Live
<1>4. r \in ThreadStates /\ r.op = thread[t].op /\ r.ref = thread[t].ref /\ r.live = Live
      /\ r.token = thread[t].token
  BY <1>2, <1>3 DEF ThreadStates
<1>5. thread' = [thread EXCEPT ![t] = r]
  BY <1>1, <1>2 DEF AuthInv, TypeOK
<1> HIDE DEF r
<1>6. /\ thread' \in [Threads -> ThreadStates \cup {Idle}] /\ thread'[t] = r
      /\ \A u \in Threads \ {t} : thread'[u] = thread[u]
  BY <1>4, <1>5 DEF AuthInv, TypeOK
<1>7. TypeOK' /\ GrantsSound'
  BY <1>1, <1>6 DEF AuthInv, TypeOK, GrantsSound
<1>8. GrantsHeld' /\ SessionsHeld'
  <2>1. \A u \in Threads : thread'[u].op = thread[u].op /\ thread'[u].ref = thread[u].ref
                           /\ thread'[u].token = thread[u].token
    BY <1>4, <1>6
  <2>0. UNCHANGED <<sessions, grants>>
    BY <1>1
  <2>2. GrantsHeld'
    <3> SUFFICES ASSUME NEW u \in Threads, thread[u].op \in Locking
                 PROVE  /\ thread'[u].ref \in DOMAIN grants' /\ grants'[thread'[u].ref].open
                        /\ \A v \in Threads \ {u} : thread'[v].op \in Locking => thread'[v].ref # thread'[u].ref
      BY <2>1 DEF GrantsHeld
    <3> QED BY <2>0, <2>1 DEF AuthInv, GrantsHeld
  <2>3. SessionsHeld'
    <3> SUFFICES ASSUME NEW u \in Threads, thread[u].op = "oauth_refresh"
                 PROVE  /\ thread'[u].ref \in Live' /\ sessions'[thread'[u].ref].token = thread'[u].token
                        /\ \A v \in Threads \ {u} : thread'[v].op = "oauth_refresh" => thread'[v].ref # thread'[u].ref
      BY <2>1 DEF SessionsHeld
    <3> QED BY <2>0, <2>1 DEF AuthInv, SessionsHeld, Live
  <2> QED BY <2>2, <2>3
<1>9. ChangesSee' /\ ChangeEndsSessions'
  BY <1>1, <1>4, <1>6 DEF AuthInv, ChangesSee, ChangeEndsSessions, Live
<1> QED BY <1>7, <1>8, <1>9 DEF AuthInv

\* An account that is disabled has no session that Enable could bring back.
LEMMA EnableKeeps ==
  ASSUME AuthInv, Enable PROVE AuthInv'
<1>1. /\ ~user.active /\ user' = [user EXCEPT !.active = TRUE]
      /\ UNCHANGED <<sessions, grants, thread, guesses>> /\ user \in Users
  BY DEF Enable, AuthInv, TypeOK
<1>2. TypeOK' /\ GrantsSound' /\ GrantsHeld' /\ SessionsHeld'
  BY <1>1 DEF AuthInv, TypeOK, Users, GrantsSound, GrantsHeld, SessionsHeld, Live
<1>3. ChangesSee' /\ ChangeEndsSessions'
  BY <1>1 DEF AuthInv, ChangesSee, ChangeEndsSessions, Live
<1> QED BY <1>2, <1>3 DEF AuthInv

\* A change commits: of the sessions made before it only the caller's own stays live.
LEMMA ChangeCommitKeeps ==
  ASSUME AuthInv, NEW t \in Threads, ChangeCommit(t) PROVE AuthInv'
<1> DEFINE k == thread[t].ref
           S == Doomed(t)
<1>1. /\ thread[t].op \in Changes /\ thread[t].asked /\ thread[t].user.version < MaxVersion
      /\ \A s \in S : ~SessionLocked(s)
      /\ user' = Changed(t) /\ End(t)
  BY DEF ChangeCommit
<1>2. thread[t] # Idle /\ thread[t].user \in Users
  BY <1>1, NotIdle, UnderWay DEF Ops, AuthInv
<1>3. /\ thread' \in [Threads -> ThreadStates \cup {Idle}] /\ thread'[t].op = "idle"
      /\ \A u \in Threads \ {t} : thread'[u] = thread[u]
  BY <1>1, EndFacts DEF AuthInv
<1>4. "idle" \notin Locking /\ "idle" # "oauth_refresh" /\ "idle" \notin Changes
  BY DEF Locking, Changes
<1>5. /\ user' \in Users
      /\ thread[t].op = "renew" => user'.active = user.active
  <2> DEFINE u == thread[t].user
             base == IF thread[t].op = "reset" THEN Cleared(u) ELSE user
             act == IF thread[t].op = "disable" THEN Stored(u.active, FALSE, base.active) ELSE base.active
  <2>1. base \in Users /\ base.active = user.active
    BY <1>2, ClearedFacts DEF AuthInv, TypeOK
  <2>2. act \in BOOLEAN /\ (thread[t].op = "renew" => act = user.active)
    BY <2>1, <1>2 DEF Stored, Users
  <2>3. u.version + 1 \in 0..MaxVersion
    BY <1>1, <1>2, Constants DEF Users
  <2>4. user' = [base EXCEPT !.version = u.version + 1, !.active = act]
    BY <1>1 DEF Changed
  <2> HIDE DEF base, act, u
  <2> QED BY <2>1, <2>2, <2>3, <2>4 DEF Users
<1> DEFINE ver == user'.version
<1>6. ver \in 0..MaxVersion
  BY <1>5 DEF Users
<1> HIDE DEF ver
<1>7. /\ sessions \in Seq(SessionRows) /\ Len(sessions) <= MaxSessions
      /\ \A s \in DOMAIN sessions : sessions[s] \in SessionRows
      /\ sessions' = [s \in DOMAIN sessions |->
                    IF s \in S THEN Dead
                    ELSE IF s = Kept(t) /\ s \in Live /\ ~sessions[s].raced
                         THEN [sessions[s] EXCEPT !.at = ver]
                    ELSE sessions[s]]
  BY DEF AuthInv, TypeOK, ChangeCommit, ver
<1>8. ASSUME NEW s \in DOMAIN sessions
      PROVE  /\ sessions'[s] \in SessionRows
             /\ s \in S => sessions'[s].revoked = TRUE
             /\ s \notin S => /\ sessions'[s].token = sessions[s].token
                              /\ sessions'[s].revoked = sessions[s].revoked
                              /\ sessions'[s].raced = sessions[s].raced
             /\ s \notin S /\ s = Kept(t) /\ s \in Live /\ ~sessions[s].raced => sessions'[s].at = ver
  <2> DEFINE r == [sessions[s] EXCEPT !.at = ver]
  <2>1. /\ r \in SessionRows /\ r.token = sessions[s].token /\ r.revoked = sessions[s].revoked
        /\ r.raced = sessions[s].raced /\ r.at = ver
    BY <1>6, <1>7 DEF SessionRows
  <2>2. sessions'[s] = IF s \in S THEN Dead
                       ELSE IF s = Kept(t) /\ s \in Live /\ ~sessions[s].raced THEN r
                       ELSE sessions[s]
    BY <1>7
  <2> HIDE DEF r, S
  <2> QED BY <1>7, <2>1, <2>2, DeadRow
<1>9. sessions' \in Seq(SessionRows) /\ Len(sessions') = Len(sessions) /\ DOMAIN sessions' = DOMAIN sessions
  <2>1. sessions' \in [DOMAIN sessions -> SessionRows]
    BY <1>7, <1>8
  <2> QED BY <1>7, <2>1, Rewritten
<1> DEFINE GrantsKept ==
      /\ grants' \in Seq(GrantRows) /\ Len(grants') <= MaxGrants /\ GrantsSound'
      /\ \A u \in Threads : thread'[u].op \in Locking =>
           thread[u].ref \in DOMAIN grants' /\ grants'[thread[u].ref].open
<1>10. GrantsKept
  <2>1. CASE UNCHANGED grants
    BY <1>3, <1>4, <2>1 DEF AuthInv, TypeOK, GrantsSound, GrantsHeld
  <2>2. CASE thread[t].op = "reset" /\ Consume(k)
    <3>1. /\ k \in DOMAIN grants /\ grants[k].uses = 0
          /\ \A u \in Threads \ {t} : thread[u].op \in Locking => thread[u].ref # k
      BY <2>2 DEF AuthInv, GrantsHeld, GrantsSound, Locking
    <3>2. /\ grants' \in Seq(GrantRows) /\ Len(grants') = Len(grants)
          /\ DOMAIN grants' = DOMAIN grants
          /\ grants'[k].uses = 1 /\ grants'[k].open = FALSE
          /\ \A h \in DOMAIN grants \ {k} : grants'[h] = grants[h]
      BY <2>2, <3>1, ConsumeFacts DEF AuthInv
    <3>3. GrantsSound' /\ Len(grants') <= MaxGrants
      BY <3>2 DEF AuthInv, GrantsSound, TypeOK
    <3> QED BY <1>3, <1>4, <3>1, <3>2, <3>3 DEF AuthInv, GrantsHeld
  <2> QED BY <2>1, <2>2 DEF ChangeCommit
<1>11. TypeOK'
  <2>1. guesses' \in Nat
    BY DEF ChangeCommit, AuthInv, TypeOK
  <2> QED BY <1>3, <1>5, <1>7, <1>9, <1>10, <2>1 DEF TypeOK
<1>12. GrantsHeld'
  BY <1>3, <1>4, <1>10, GrantsFrame DEF AuthInv
<1>13. SessionsHeld'
  <2>1. \A u \in Threads : thread'[u].op = "oauth_refresh" =>
           /\ thread[u].ref \in DOMAIN sessions' /\ ~sessions'[thread[u].ref].revoked
           /\ sessions'[thread[u].ref].token = sessions[thread[u].ref].token
    <3> SUFFICES ASSUME NEW u \in Threads, thread'[u].op = "oauth_refresh"
                 PROVE  /\ thread[u].ref \in DOMAIN sessions' /\ ~sessions'[thread[u].ref].revoked
                        /\ sessions'[thread[u].ref].token = sessions[thread[u].ref].token
      OBVIOUS
    <3>1. thread[u].op = "oauth_refresh"
      BY <1>3, <1>4
    <3>2. thread[u].ref \in Live
      BY <3>1 DEF AuthInv, SessionsHeld
    <3>3. thread[u].ref \notin S
      BY <1>1, <3>1 DEF SessionLocked
    <3> HIDE DEF S
    <3> QED BY <1>8, <1>9, <3>2, <3>3 DEF Live
  <2> QED BY <1>3, <1>4, <2>1, SessionsFrame DEF AuthInv
<1>14. \A s \in Live' : ~sessions'[s].raced =>
         s \in Live /\ ~sessions[s].raced /\ s = Kept(t) /\ sessions'[s].at = ver
  <2> SUFFICES ASSUME NEW s \in Live', ~sessions'[s].raced
               PROVE  s \in Live /\ ~sessions[s].raced /\ s = Kept(t) /\ sessions'[s].at = ver
    OBVIOUS
  <2>1. s \in DOMAIN sessions /\ s \notin S /\ s \in Live /\ ~sessions[s].raced
    BY <1>8, <1>9 DEF Live
  <2>2. s \in thread[t].live
    BY <1>1, <2>1 DEF AuthInv, ChangesSee
  <2>3. s = Kept(t)
    BY <2>1, <2>2 DEF Doomed
  <2> QED BY <1>8, <2>1, <2>3
<1>15. ChangesSee'
  BY <1>3, <1>4, <1>14 DEF AuthInv, ChangesSee
<1>16. ChangeEndsSessions'
  <2> SUFFICES ASSUME NEW s \in Live', ~sessions'[s].raced
               PROVE  sessions'[s].at = user'.version /\ user'.active
    BY DEF ChangeEndsSessions
  <2>1. s \in Live /\ ~sessions[s].raced /\ s = Kept(t) /\ sessions'[s].at = ver /\ user.active
    BY <1>14 DEF AuthInv, ChangeEndsSessions
  <2>2. s # 0
    BY <1>7, <2>1 DEF Live
  <2>3. thread[t].op = "renew"
    BY <2>1, <2>2 DEF Kept, None
  <2> QED BY <1>5, <2>1, <2>3 DEF ver
<1> QED BY <1>10, <1>11, <1>12, <1>13, <1>15, <1>16 DEF AuthInv

-----------------------------------------------------------------------------
LEMMA InitInv == Init => AuthInv
<1> SUFFICES ASSUME Init PROVE AuthInv
  OBVIOUS
<1>1. TypeOK
  BY Constants DEF Init, TypeOK, Users, Idle
<1>2. \A t \in Threads : thread[t].op = "idle"
  BY DEF Init, Idle
<1>3. GrantsSound /\ GrantsHeld /\ SessionsHeld /\ ChangesSee /\ ChangeEndsSessions
  BY <1>2 DEF Init, GrantsSound, GrantsHeld, SessionsHeld, ChangesSee, ChangeEndsSessions,
              Live, Locking, Changes
<1> QED BY <1>1, <1>3 DEF AuthInv

LEMMA Refs ==
  ASSUME AuthInv
  PROVE  /\ 0 \in 0..(MaxGrants + MaxSessions) /\ 0 \in 0..MaxTokens
         /\ \A g \in DOMAIN grants : g \in 0..(MaxGrants + MaxSessions)
         /\ \A s \in DOMAIN sessions : s \in 0..(MaxGrants + MaxSessions)
         /\ \A s \in DOMAIN sessions : sessions[s].token \in 0..MaxTokens
<1>1. /\ sessions \in Seq(SessionRows) /\ Len(sessions) <= MaxSessions
      /\ grants \in Seq(GrantRows) /\ Len(grants) <= MaxGrants
  BY DEF AuthInv, TypeOK
<1>2. /\ Len(sessions) \in Nat /\ DOMAIN sessions = 1..Len(sessions)
      /\ Len(grants) \in Nat /\ DOMAIN grants = 1..Len(grants)
  BY <1>1
<1>3. \A s \in DOMAIN sessions : sessions[s] \in SessionRows
  BY <1>1
<1>4. \A s \in DOMAIN sessions : sessions[s].token \in 0..MaxTokens
  BY <1>3, Constants DEF SessionRows
<1> QED BY <1>1, <1>2, <1>4, Constants

\* The steps of a request.
LEMMA RequestKeeps ==
  ASSUME AuthInv, NEW t \in Threads, Request(t) PROVE AuthInv'
<1>1. CASE Login(t) \/ PortalLoginPost(t)
  <2>1. PICK op \in SignIns : Begin(t, op, None, None) /\ UNCHANGED <<user, sessions, grants, guesses>>
    BY <1>1 DEF Login, PortalLoginPost, SignInBegin, SignIns
  <2>2. op \in Ops /\ op \notin Locking /\ op # "oauth_refresh"
    BY DEF Ops, SignIns, Locking
  <2> QED BY <2>1, <2>2, Refs, BeginKeeps DEF None
<1>2. CASE SignInFails(t)
  <2>1. thread[t].user \in Users
    BY <1>2, NotIdle, UnderWay DEF SignInFails, Ops, Locking, AuthInv
  <2> QED BY <1>2, <2>1, CountFailureFacts, EndKeeps DEF SignInFails, AuthInv
<1>3. CASE LoginSucceeds(t) \/ PortalSucceeds(t) \/ AuthorizePost(t)
  <2>1. thread[t].op \in SignIns /\ SignInSucceeds(t)
    BY <1>3 DEF LoginSucceeds, PortalSucceeds, AuthorizePost, SignIns
  <2>2. /\ thread[t].user \in Users /\ thread[t].op \notin Changes
        /\ End(t) /\ guesses' = 0 /\ user' = Cleared(thread[t].user)
    BY <2>1, NotIdle, UnderWay DEF SignInSucceeds, Ops, AuthInv, SignIns, Changes
  <2>3. user' \in Users /\ user'.version = user.version /\ user'.active = user.active /\ guesses' \in Nat
    BY <2>2, ClearedFacts DEF AuthInv
  <2> QED BY <1>3, <2>2, <2>3, AddKeeps DEF LoginSucceeds, PortalSucceeds, AuthorizePost
<1>4. CASE \E g \in DOMAIN grants : ExchangeBegin(t, g) \/ PasskeyBegin(t, g) \/ ResetBegin(t, g)
  <2>1. PICK g \in DOMAIN grants, op \in Locking : \E kind : TakeGrant(t, g, op, kind)
    BY <1>4 DEF ExchangeBegin, PasskeyBegin, ResetBegin, Locking
  <2>2. /\ Begin(t, op, g, None) /\ UNCHANGED <<user, sessions, grants, guesses>>
        /\ grants[g].open /\ ~GrantLocked(g)
    BY <2>1 DEF TakeGrant
  <2>3. op \in Ops /\ op # "oauth_refresh"
    BY DEF Ops, Locking
  <2> QED BY <2>2, <2>3, Refs, BeginKeeps DEF None
<1>5. CASE ExchangeCode(t)
  <2>1. thread[t].op \in Locking /\ thread[t].op \notin Changes
    BY <1>5 DEF ExchangeCode, Locking, Changes
  <2>2. user' \in Users /\ user' = user /\ guesses' \in Nat
    BY <1>5 DEF ExchangeCode, AuthInv, TypeOK
  <2> QED BY <1>5, <2>1, <2>2, AddKeeps DEF ExchangeCode
<1>6. CASE PasskeyVerify(t)
  <2>1. thread[t].op \in Locking /\ thread[t].op \notin Changes /\ thread[t].user \in Users
    BY <1>6, NotIdle, UnderWay DEF PasskeyVerify, Locking, Changes, Ops, AuthInv
  <2>2. user' \in Users /\ user'.version = user.version /\ user'.active = user.active /\ guesses' \in Nat
    BY <1>6, <2>1, ClearedFacts DEF PasskeyVerify, AuthInv
  <2> QED BY <1>6, <2>1, <2>2, AddKeeps DEF PasskeyVerify
<1>7. CASE \E s \in DOMAIN sessions, op \in {"oauth_refresh", "refresh"} : RefreshBegin(t, s, op)
  <2>1. PICK s \in DOMAIN sessions, op \in {"oauth_refresh", "refresh"} : RefreshBegin(t, s, op)
    BY <1>7
  <2> DEFINE token == IF op = "oauth_refresh" THEN sessions[s].token ELSE None
  <2>2. /\ Begin(t, op, s, token) /\ s \in Live /\ UNCHANGED <<user, sessions, grants, guesses>>
        /\ op = "oauth_refresh" => ~SessionLocked(s) /\ sessions[s].token = token
    BY <2>1 DEF RefreshBegin
  <2>3. op \in Ops /\ op \notin Locking
    BY DEF Ops, Locking
  <2>4. token \in 0..MaxTokens
    BY Refs DEF None
  <2> HIDE DEF token
  <2> QED BY <2>2, <2>3, <2>4, Refs, BeginKeeps
<1>8. CASE Rotate(t)
  BY <1>8, RotateKeeps
<1>9. CASE \/ \E s \in DOMAIN sessions : ChangePassword(t, s)
           \/ PortalChangePassword(t) \/ AdminRevoke(t) \/ DisableBegin(t)
  <2>1. PICK s \in DOMAIN sessions \cup {0}, op \in {"renew", "disable"} :
          Begin(t, op, s, None) /\ UNCHANGED <<user, sessions, grants, guesses>>
    BY <1>9 DEF ChangePassword, PortalChangePassword, AdminRevoke, DisableBegin, Renew, None
  <2>2. op \in Ops /\ op \notin Locking /\ op # "oauth_refresh"
    BY DEF Ops, Changes, Locking
  <2> QED BY <2>1, <2>2, Refs, BeginKeeps DEF None
<1>10. CASE SelectSessions(t)
  BY <1>10, SelectSessionsKeeps
<1>11. CASE ChangeCommit(t)
  BY <1>11, ChangeCommitKeeps
<1>12. CASE Abort(t)
  BY <1>12, EndKeeps DEF Abort, AuthInv, TypeOK
<1> QED
  BY <1>1, <1>2, <1>3, <1>4, <1>5, <1>6, <1>7, <1>8, <1>9, <1>10, <1>11, <1>12 DEF Request

LEMMA StepInv == AuthInv /\ [Next]_vars => AuthInv'
<1> SUFFICES ASSUME AuthInv, [Next]_vars PROVE AuthInv'
  OBVIOUS
<1>1. CASE \E t \in Threads : Request(t)
  BY <1>1, RequestKeeps
<1>2. CASE AuthorizeGet \/ PasskeyOptions
  <2>1. PICK kind \in {"code", "challenge", "reset"} :
          AddGrant(kind) /\ UNCHANGED <<user, sessions, thread, guesses>>
    BY <1>2 DEF AuthorizeGet, PasskeyOptions
  <2>2. /\ grants' \in Seq(GrantRows) /\ Len(grants') <= MaxGrants
        /\ \A g \in DOMAIN grants : g \in DOMAIN grants' /\ grants'[g] = grants[g]
        /\ \A g \in DOMAIN grants' \ DOMAIN grants : grants'[g].uses = 0
    BY <2>1, AddGrantFacts DEF AuthInv
  <2>3. TypeOK' /\ GrantsSound'
    BY <2>1, <2>2 DEF AuthInv, TypeOK, GrantsSound
  <2>4. GrantsHeld'
    BY <2>1, <2>2, GrantsFrame DEF AuthInv, GrantsHeld
  <2>5. SessionsHeld' /\ ChangesSee' /\ ChangeEndsSessions'
    BY <2>1 DEF AuthInv, SessionsHeld, ChangesSee, ChangeEndsSessions, Live
  <2> QED BY <2>3, <2>4, <2>5 DEF AuthInv
<1>3. CASE RequestReset
  BY <1>3, RequestResetKeeps
<1>4. CASE Enable
  BY <1>4, EnableKeeps
<1>5. CASE Unlock \/ LockElapses
  <2>1. user' \in Users /\ user'.version = user.version /\ user'.active = user.active
    <3>1. user \in Users /\ 0 \in 0..MaxFailures
      BY Constants DEF AuthInv, TypeOK
    <3> QED BY <1>5, <3>1 DEF Unlock, LockElapses, Users
  <2>2. UNCHANGED <<sessions, grants, thread>> /\ guesses' \in Nat
    BY <1>5 DEF Unlock, LockElapses, AuthInv, TypeOK
  <2>3. TypeOK'
    BY <2>1, <2>2 DEF AuthInv, TypeOK
  <2> QED BY <2>1, <2>2, <2>3, RowsUnchanged
<1>6. CASE \E g \in DOMAIN grants : GrantExpires(g)
  BY <1>6, GrantExpiresKeeps
<1>7. CASE \/ AdminRevokeUserSessions
           \/ \E s \in DOMAIN sessions :
                 \/ Logout(s) \/ RevokeSession(s) \/ RevokeOtherSessions(s)
                 \/ \E S \in (SUBSET Live) \ {{}} : RevokeTrustedDevice(s, S)
  <2>1. \E S : Revoke(S)
    BY <1>7 DEF AdminRevokeUserSessions, Logout, RevokeSession, RevokeOtherSessions,
                RevokeTrustedDevice
  <2> QED BY <2>1, RevokeKeeps
<1>8. CASE UNCHANGED vars
  BY <1>8 DEF vars, AuthInv, TypeOK, GrantsSound, GrantsHeld, SessionsHeld, ChangesSee,
              ChangeEndsSessions, Live
<1> QED BY <1>1, <1>2, <1>3, <1>4, <1>5, <1>6, <1>7, <1>8 DEF Next

-----------------------------------------------------------------------------
(* The theorems.                                                           *)

\* The inductive invariant holds in every reachable state; with it the types of the
\* rows and of what the requests have loaded.
THEOREM Invariance == Spec => []AuthInv
BY InitInv, StepInv, PTL DEF Spec

\* A code, a passkey challenge and a reset token work at most once, whatever number of
\* requests of /oauth/token, passkey sign-in and password reset present them at once.
THEOREM GrantsUsedOnce == Spec => []GrantUsedOnce
<1>1. AuthInv => GrantUsedOnce
  BY DEF AuthInv, GrantsSound, GrantUsedOnce
<1> QED BY <1>1, Invariance, PTL

\* A password, MFA, reset, sign-out or disable ends the sessions made before it, except
\* the caller's own and those whose sign-in overlapped it (revoke_sessions).
THEOREM ChangesEndSessions == Spec => []ChangeEndsSessions
<1>1. AuthInv => ChangeEndsSessions
  BY DEF AuthInv
<1> QED BY <1>1, Invariance, PTL

\* A refresh at /oauth/token redeems the current token of a session that is live.
THEOREM RefreshesExclusive == Spec => RefreshExclusive
<1>1. AuthInv /\ [Next]_vars =>
        [\A t \in Threads : thread[t].op = "oauth_refresh" /\ Rotate(t) =>
           LET s == thread[t].ref IN s \in Live /\ sessions[s].token = thread[t].token]_vars
  BY DEF AuthInv, SessionsHeld
<1> QED BY <1>1, Invariance, PTL DEF Spec, RefreshExclusive

-----------------------------------------------------------------------------
(* The console: what a change of an account ends.                          *)

\* An ordinary request that no change has overlapped so far.
Quiet(v) == visit[v].op \notin Console!Changing \cup {"rest"} /\ ~visit[v].raced
SignInOps == {"step_up", "issue", "mail", "verify", "sign_in"}

SessionRow == [live : BOOLEAN, device : Nat, second : BOOLEAN, version : Nat, at : Nat, raced : BOOLEAN]
ConsoleTyped ==
  /\ account \in [version : Nat, mfa : BOOLEAN, secret : BOOLEAN, central : BOOLEAN]
  /\ consoleSessions \in Seq(SessionRow)
  /\ devices \in Seq(BOOLEAN) /\ changes \in Nat /\ DOMAIN visit = Visits

\* What a session needs to be live.
Fits(s) == devices[consoleSessions[s].device] /\ (account.mfa => consoleSessions[s].second)

\* A session that no change overlapped is of the last version, or of an earlier one and ended.
SessionSound(s) ==
  /\ consoleSessions[s].device \in DOMAIN devices
  /\ ~consoleSessions[s].raced =>
       /\ consoleSessions[s].version <= account.version
       /\ consoleSessions[s].live \/ consoleSessions[s].version = account.version => consoleSessions[s].at = changes
       /\ consoleSessions[s].live => Fits(s)

\* An ordinary request that no change overlapped has loaded the account as it is; a change knows a
\* version that is not behind any such session, and once it has revoked holds all it must end.
VisitSound(v) ==
  LET r == visit[v] IN
  /\ r.locks \subseteq DOMAIN consoleSessions
  /\ IF r.op = "rest" THEN r = Console!Rest ELSE r.version \in Nat /\ r.raced \in BOOLEAN
  /\ Quiet(v) => r.version = account.version /\ \A w \in Visits : visit[w].op \notin Console!Changing
  /\ r.op \in SignInOps =>
       /\ r.arg.device \in 0..Len(devices) /\ r.arg.second \in BOOLEAN
       /\ Quiet(v) => (r.arg.device # 0 => devices[r.arg.device]) /\ (account.mfa => r.arg.second)
  /\ r.op = "refresh" =>
       /\ r.arg.session \in DOMAIN consoleSessions
       /\ Quiet(v) /\ ~consoleSessions[r.arg.session].raced => Fits(r.arg.session)
  /\ r.op \in Console!Changing =>
       /\ r.op = "device" => r.arg.which \in DOMAIN devices
       /\ \A s \in DOMAIN consoleSessions : ~consoleSessions[s].raced =>
            /\ consoleSessions[s].version <= r.version
            /\ r.arg.revoked /\ s \in Console!Reached(r) => s \in r.locks

SessionsSound == \A s \in DOMAIN consoleSessions : SessionSound(s)
VisitsSound == \A v \in Visits : VisitSound(v)
ConsoleInv == ConsoleTyped /\ SessionsSound /\ VisitsSound

\* The rows that requests rely on.
accountRows == <<account, consoleSessions, devices, changes>>

\* A request that goes on as before, at most marked as overlapped, stays sound.
LEMMA VisitSame ==
  ASSUME NEW v \in Visits, VisitSound(v), UNCHANGED accountRows,
         visit[v].op # "rest" => /\ visit'[v].op = visit[v].op /\ visit'[v].locks = visit[v].locks
                                 /\ visit'[v].version = visit[v].version /\ visit'[v].arg = visit[v].arg
                                 /\ visit'[v].raced = visit[v].raced \/ visit'[v].raced = TRUE,
         visit[v].op = "rest" => visit'[v] = visit[v],
         Quiet(v)' => \A w \in Visits : visit'[w].op \in Console!Changing => visit[w].op \in Console!Changing
  PROVE  VisitSound(v)'
<1>1. account' = account /\ consoleSessions' = consoleSessions /\ devices' = devices /\ changes' = changes
  BY DEF accountRows
<1>0. visit[v].op # "rest" => visit'[v].op = visit[v].op /\ visit'[v].op # "rest"
  OBVIOUS
<1>2. Quiet(v)' => Quiet(v) /\ visit[v].op # "rest"
  BY DEF Quiet
<1>3. CASE visit[v].op = "rest"
  BY <1>1, <1>3 DEF VisitSound, Quiet, SignInOps, Console!Changing
<1>4. CASE visit[v].op # "rest"
  <2>1. visit'[v].op \in Console!Changing => Console!Reached(visit[v])' = Console!Reached(visit[v])
    BY <1>1, <1>4 DEF Console!Reached, Console!Live
  <2>2. \A s : Fits(s)' = Fits(s)
    BY <1>1 DEF Fits
  <2> QED BY <1>1, <1>2, <1>4, <2>1, <2>2 DEF VisitSound
<1> QED BY <1>3, <1>4

LEMMA SessionsSame ==
  ASSUME ConsoleTyped, SessionsSound, UNCHANGED accountRows, DOMAIN visit' = Visits
  PROVE  ConsoleTyped' /\ SessionsSound'
<1>1. account' = account /\ consoleSessions' = consoleSessions /\ devices' = devices /\ changes' = changes
  BY DEF accountRows
<1> QED BY <1>1 DEF ConsoleTyped, SessionsSound, SessionSound, Fits

\* A step of one request that leaves these rows alone.
LEMMA ConsoleStepKeeps ==
  ASSUME ConsoleInv, UNCHANGED accountRows, DOMAIN visit' = Visits,
         NEW v \in Visits, VisitSound(v)',
         \A w \in Visits \ {v} :
           \/ visit'[w] = visit[w]
           \/ /\ visit[w].op # "rest"
              /\ visit'[w] = Console!At(visit[w].op, visit[w].locks, visit[w].version, TRUE, visit[w].arg),
         \/ visit'[v].op \notin Console!Changing
         \/ visit[v].op \in Console!Changing
         \/ \A w \in Visits \ {v} : visit'[w].op # "rest" => visit'[w].raced
  PROVE  ConsoleInv'
<1>1. ASSUME NEW w \in Visits PROVE VisitSound(w)'
  <2>1. CASE w = v
    BY <2>1
  <2>2. CASE w # v
    <3>1. VisitSound(w)
      BY DEF ConsoleInv, VisitsSound
    <3>2. visit'[w] # visit[w] => /\ visit[w].op # "rest" /\ visit'[w].op = visit[w].op
                                 /\ visit'[w].locks = visit[w].locks /\ visit'[w].version = visit[w].version
                                 /\ visit'[w].arg = visit[w].arg /\ visit'[w].raced = TRUE
      BY <2>2 DEF Console!At
    <3>3. \A u \in Visits \ {v} : visit'[u].op = visit[u].op
      BY DEF Console!At
    <3>4. Quiet(w)' => \A u \in Visits : visit'[u].op \in Console!Changing => visit[u].op \in Console!Changing
      BY <2>2, <3>3 DEF Quiet
    <3>5. /\ visit[w].op # "rest" =>
               /\ visit'[w].op = visit[w].op /\ visit'[w].locks = visit[w].locks
               /\ visit'[w].version = visit[w].version /\ visit'[w].arg = visit[w].arg
               /\ visit'[w].raced = visit[w].raced \/ visit'[w].raced = TRUE
          /\ visit[w].op = "rest" => visit'[w] = visit[w]
      BY <3>2
    <3> QED BY <3>1, <3>4, <3>5, VisitSame
  <2> QED BY <2>1, <2>2
<1> QED BY <1>1, SessionsSame DEF ConsoleInv, VisitsSound

\* A request ends.
LEMMA ConsoleEndKeeps ==
  ASSUME ConsoleInv, NEW v \in Visits, Console!End(v), UNCHANGED accountRows
  PROVE  ConsoleInv'
<1>1. visit'[v] = Console!Rest /\ DOMAIN visit' = Visits /\ \A w \in Visits : w # v => visit'[w] = visit[w]
  BY DEF Console!End, ConsoleInv, ConsoleTyped
<1>2. visit'[v].op = "rest" /\ visit'[v].locks = {}
  BY <1>1 DEF Console!Rest
<1>3. VisitSound(v)' /\ visit'[v].op \notin Console!Changing
  BY <1>1, <1>2 DEF VisitSound, Quiet, SignInOps, Console!Changing
<1> QED BY <1>1, <1>3, ConsoleStepKeeps

\* A request begins.
LEMMA BeginShape ==
  ASSUME ConsoleInv, NEW v \in Visits, NEW op, NEW arg, op # "rest", Console!Begin(v, op, arg)
  PROVE  /\ DOMAIN visit' = Visits
         /\ visit[v] = Console!Rest
         /\ visit'[v].op = op /\ visit'[v].locks = {} /\ visit'[v].version = account.version /\ visit'[v].arg = arg
         /\ visit'[v].raced \in BOOLEAN
         /\ ~visit'[v].raced => \A w \in Visits \ {v} : visit[w].op \notin Console!Changing
         /\ \A w \in Visits \ {v} :
              \/ visit'[w] = visit[w]
              \/ /\ visit[w].op # "rest"
                 /\ visit'[w] = Console!At(visit[w].op, visit[w].locks, visit[w].version, TRUE, visit[w].arg)
         /\ op \in Console!Changing =>
              \A w \in Visits \ {v} : visit'[w].op = "rest" \/ visit'[w].raced
         /\ \A w \in Visits \ {v} : visit'[w].op = visit[w].op
<1>1. \A w \in Visits : visit[w].op = "rest" => visit[w] = Console!Rest
  BY DEF ConsoleInv, VisitsSound, VisitSound
<1>2. Console!Rest.op = "rest"
  BY DEF Console!Rest
<1> QED BY <1>1, <1>2 DEF Console!Begin, Console!At

\* A request begins and leaves these rows alone.
LEMMA ConsoleBeginKeeps ==
  ASSUME ConsoleInv, NEW v \in Visits, NEW op, NEW arg, op # "rest", Console!Begin(v, op, arg),
         UNCHANGED accountRows, VisitSound(v)'
  PROVE  ConsoleInv'
BY BeginShape, ConsoleStepKeeps

\* What a request that begins must show of what it works with.
LEMMA Beginner ==
  ASSUME ConsoleInv, NEW v \in Visits, NEW op, NEW arg, op # "rest", Console!Begin(v, op, arg),
         UNCHANGED accountRows,
         op \in SignInOps =>
           /\ arg.device \in 0..Len(devices) /\ arg.second \in BOOLEAN
           /\ (arg.device # 0 => devices[arg.device]) /\ (account.mfa => arg.second),
         op = "refresh" => arg.session \in Console!Live,
         op \in Console!Changing =>
           /\ op = "device" => arg.which \in DOMAIN devices
           /\ ~arg.revoked
  PROVE  ConsoleInv'
<1>1. /\ visit'[v].raced \in BOOLEAN
      /\ visit'[v].op = op /\ visit'[v].locks = {} /\ visit'[v].version = account.version /\ visit'[v].arg = arg
      /\ ~visit'[v].raced => \A w \in Visits \ {v} : visit[w].op \notin Console!Changing
      /\ \A w \in Visits \ {v} : visit'[w].op = visit[w].op
  BY BeginShape
<1>2. account' = account /\ consoleSessions' = consoleSessions /\ devices' = devices /\ changes' = changes
  BY DEF accountRows
<1>3. account.version \in Nat /\ Fits(arg.session)' = Fits(arg.session)
  BY <1>2 DEF ConsoleInv, ConsoleTyped, Fits
<1>4. Quiet(v)' => visit'[v].version = account'.version /\ \A w \in Visits : visit'[w].op \notin Console!Changing
  BY <1>1, <1>2 DEF Quiet
<1>5. op \in SignInOps => op \notin Console!Changing /\ op # "refresh"
  BY DEF SignInOps, Console!Changing
<1>6. ASSUME op = "refresh" PROVE arg.session \in DOMAIN consoleSessions /\ (~consoleSessions[arg.session].raced => Fits(arg.session))
  BY <1>6 DEF ConsoleInv, SessionsSound, SessionSound, Console!Live
<1>7. \A s \in DOMAIN consoleSessions : ~consoleSessions[s].raced => consoleSessions[s].version <= account.version
  BY DEF ConsoleInv, SessionsSound, SessionSound
<1>8. VisitSound(v)'
  BY <1>1, <1>2, <1>3, <1>4, <1>5, <1>6, <1>7 DEF VisitSound
<1> QED BY <1>8, ConsoleBeginKeeps

\* A sign-in goes on, and still has what it found.
LEMMA SignInGoesOn ==
  ASSUME ConsoleInv, NEW v \in Visits, visit[v].op \in SignInOps, NEW op \in SignInOps, NEW arg,
         arg.device = visit[v].arg.device, arg.second = visit[v].arg.second,
         Console!Goes(v, op, arg), UNCHANGED accountRows
  PROVE  ConsoleInv'
<1>1. /\ visit'[v] = Console!At(op, visit[v].locks, visit[v].version, visit[v].raced, arg)
      /\ DOMAIN visit' = Visits /\ \A w \in Visits \ {v} : visit'[w] = visit[w]
  BY DEF Console!Goes, ConsoleInv, ConsoleTyped
<1>2. account' = account /\ consoleSessions' = consoleSessions /\ devices' = devices /\ changes' = changes
  BY DEF accountRows
<1>3. op \notin Console!Changing /\ op # "refresh" /\ op # "rest" /\ visit[v].op \notin Console!Changing /\ visit[v].op # "rest"
  BY DEF SignInOps, Console!Changing
<1>4. /\ visit'[v].op = op /\ visit'[v].locks = visit[v].locks /\ visit'[v].version = visit[v].version
      /\ visit'[v].raced = visit[v].raced /\ visit'[v].arg = arg
  BY <1>1 DEF Console!At
<1>5. Quiet(v)' = Quiet(v)
  BY <1>3, <1>4 DEF Quiet
<1>6. \A w \in Visits : visit[w].op \notin Console!Changing => visit'[w].op \notin Console!Changing
  BY <1>1, <1>3, <1>4
<1>7. VisitSound(v)
  BY DEF ConsoleInv, VisitsSound
<1>8. VisitSound(v)'
  BY <1>2, <1>3, <1>4, <1>5, <1>6, <1>7 DEF VisitSound
<1> QED BY <1>1, <1>3, <1>4, <1>8, ConsoleStepKeeps

\* The UPDATE of a change locks all the live sessions it must end.
LEMMA ConsoleRevokeKeeps ==
  ASSUME ConsoleInv, NEW v \in Visits, Console!RevokeSessions(v)
  PROVE  ConsoleInv'
<1> DEFINE r == visit[v]
           arg == [r.arg EXCEPT !.revoked = TRUE, !.open = {k \in DOMAIN resets : resets[k]}]
<1>1. /\ r.op \in Console!Changing /\ DOMAIN visit' = Visits /\ \A w \in Visits \ {v} : visit'[w] = visit[w]
      /\ visit'[v] = Console!At(r.op, Console!Reached(r), r.version, r.raced, arg) /\ UNCHANGED accountRows
  BY DEF Console!RevokeSessions, ConsoleInv, ConsoleTyped, accountRows
<1>2. account' = account /\ consoleSessions' = consoleSessions /\ devices' = devices /\ changes' = changes
  BY <1>1 DEF accountRows
<1>3. arg.which = r.arg.which
  OBVIOUS
<1> HIDE DEF arg
<1>4. /\ visit'[v].op = r.op /\ visit'[v].locks = Console!Reached(r) /\ visit'[v].version = r.version
      /\ visit'[v].raced = r.raced /\ visit'[v].arg.which = r.arg.which
  BY <1>1, <1>3 DEF Console!At
<1>5. VisitSound(v) /\ r.op # "rest" /\ r.op # "refresh" /\ r.op \notin SignInOps
  BY <1>1 DEF ConsoleInv, VisitsSound, SignInOps, Console!Changing
<1>6. Console!Reached(visit[v])' = Console!Reached(r)
  BY <1>2, <1>4 DEF Console!Reached, Console!Live
<1>7. ~Quiet(v)' /\ Console!Reached(r) \subseteq DOMAIN consoleSessions
  BY <1>1, <1>4 DEF Quiet, Console!Reached, Console!Live
<1>8. VisitSound(v)'
  BY <1>1, <1>2, <1>4, <1>5, <1>6, <1>7 DEF VisitSound
<1> QED BY <1>1, <1>8, ConsoleStepKeeps

\* Sessions may end and new ones be made, devices be added and requests end.
LEMMA SessionsGrow ==
  ASSUME ConsoleInv, account' = account, changes' = changes,
         devices' \in Seq(BOOLEAN), Len(devices) <= Len(devices'), \A d \in DOMAIN devices : devices'[d] = devices[d],
         consoleSessions' \in Seq(SessionRow), Len(consoleSessions) <= Len(consoleSessions'),
         \A s \in DOMAIN consoleSessions :
           /\ consoleSessions'[s].live => consoleSessions[s].live
           /\ consoleSessions'[s].device = consoleSessions[s].device
           /\ consoleSessions'[s].second = consoleSessions[s].second
           /\ consoleSessions'[s].version = consoleSessions[s].version
           /\ consoleSessions'[s].at = consoleSessions[s].at
           /\ consoleSessions'[s].raced = consoleSessions[s].raced,
         \A s \in DOMAIN consoleSessions' \ DOMAIN consoleSessions :
           /\ consoleSessions'[s].device \in DOMAIN devices'
           /\ ~consoleSessions'[s].raced =>
                /\ \A v \in Visits : visit[v].op \notin Console!Changing
                /\ consoleSessions'[s].version = account.version /\ consoleSessions'[s].at = changes
                /\ Fits(s)',
         DOMAIN visit' = Visits, \A v \in Visits : visit'[v] \in {visit[v], Console!Rest}
  PROVE  ConsoleInv'
<1>1. /\ consoleSessions \in Seq(SessionRow) /\ devices \in Seq(BOOLEAN) /\ account.version \in Nat
      /\ DOMAIN consoleSessions \subseteq DOMAIN consoleSessions' /\ DOMAIN devices \subseteq DOMAIN devices'
  BY DEF ConsoleInv, ConsoleTyped
<1>2. ASSUME NEW s \in DOMAIN consoleSessions PROVE SessionSound(s) /\ Fits(s)' = Fits(s)
  BY DEF ConsoleInv, SessionsSound, SessionSound, Fits
<1>3. ASSUME NEW s \in DOMAIN consoleSessions' PROVE SessionSound(s)'
  <2>1. CASE s \in DOMAIN consoleSessions
    BY <1>1, <1>2, <2>1 DEF SessionSound
  <2>2. CASE s \notin DOMAIN consoleSessions
    BY <1>1, <2>2 DEF SessionSound
  <2> QED BY <2>1, <2>2
<1>4. Console!Rest.op = "rest" /\ Console!Rest.locks = {} /\ "rest" \notin Console!Changing /\ "rest" \notin SignInOps
  BY DEF Console!Rest, Console!Changing, SignInOps
<1>5. ASSUME NEW v \in Visits PROVE VisitSound(v)'
  <2>1. CASE visit'[v] = Console!Rest
    BY <1>4, <2>1 DEF VisitSound, Quiet
  <2>2. CASE visit'[v] = visit[v]
    <3>1. VisitSound(v) /\ Quiet(v)' = Quiet(v)
      BY <2>2 DEF ConsoleInv, VisitsSound, Quiet
    <3>2. \A w \in Visits : visit[w].op \notin Console!Changing => visit'[w].op \notin Console!Changing
      BY <1>4
    <3>3. \A s \in DOMAIN consoleSessions : s \in Console!Reached(visit[v])' => s \in Console!Reached(visit[v])
      BY <2>2 DEF Console!Reached, Console!Live
    <3>4. ASSUME visit[v].op \in Console!Changing, NEW s \in DOMAIN consoleSessions', ~consoleSessions'[s].raced
          PROVE  s \in DOMAIN consoleSessions
      BY <3>4
    <3>5. visit[v].op \in SignInOps =>
            /\ visit'[v].arg.device \in 0..Len(devices') /\ visit'[v].arg.second \in BOOLEAN
            /\ Quiet(v)' => (visit'[v].arg.device # 0 => devices'[visit'[v].arg.device]) /\ (account'.mfa => visit'[v].arg.second)
      <4> SUFFICES ASSUME visit[v].op \in SignInOps
                   PROVE  /\ visit'[v].arg.device \in 0..Len(devices') /\ visit'[v].arg.second \in BOOLEAN
                          /\ Quiet(v)' => (visit'[v].arg.device # 0 => devices'[visit'[v].arg.device]) /\ (account'.mfa => visit'[v].arg.second)
        OBVIOUS
      <4>1. /\ visit[v].arg.device \in 0..Len(devices) /\ visit[v].arg.second \in BOOLEAN
            /\ Quiet(v) => (visit[v].arg.device # 0 => devices[visit[v].arg.device]) /\ (account.mfa => visit[v].arg.second)
        BY <3>1 DEF VisitSound
      <4>2. visit[v].arg.device # 0 => devices'[visit[v].arg.device] = devices[visit[v].arg.device]
        BY <1>1, <4>1
      <4> QED BY <1>1, <2>2, <3>1, <4>1, <4>2
    <3>6. visit[v].op = "refresh" =>
            /\ visit[v].arg.session \in DOMAIN consoleSessions'
            /\ Quiet(v)' /\ ~consoleSessions'[visit[v].arg.session].raced => Fits(visit[v].arg.session)'
      <4> SUFFICES ASSUME visit[v].op = "refresh", NEW s, s = visit[v].arg.session
                   PROVE  /\ s \in DOMAIN consoleSessions'
                          /\ Quiet(v)' /\ ~consoleSessions'[s].raced => Fits(visit[v].arg.session)'
        OBVIOUS
      <4>1. s \in DOMAIN consoleSessions /\ (Quiet(v) /\ ~consoleSessions[s].raced => Fits(s))
        BY <3>1 DEF VisitSound
      <4>2. Fits(visit[v].arg.session)' = Fits(s)
        BY <1>2, <2>2, <4>1 DEF Fits
      <4> QED BY <1>1, <3>1, <4>1, <4>2
    <3>7. visit[v].op \in Console!Changing =>
            /\ visit[v].op = "device" => visit[v].arg.which \in DOMAIN devices'
            /\ \A s \in DOMAIN consoleSessions' : ~consoleSessions'[s].raced =>
                 /\ consoleSessions'[s].version <= visit[v].version
                 /\ visit[v].arg.revoked /\ s \in Console!Reached(visit[v])' => s \in visit[v].locks
      BY <1>1, <3>1, <3>3, <3>4 DEF VisitSound
    <3>8. /\ visit[v].locks \subseteq DOMAIN consoleSessions'
          /\ IF visit[v].op = "rest" THEN visit[v] = Console!Rest ELSE visit[v].version \in Nat /\ visit[v].raced \in BOOLEAN
          /\ Quiet(v)' => visit[v].version = account'.version /\ \A w \in Visits : visit'[w].op \notin Console!Changing
      BY <1>1, <3>1, <3>2 DEF VisitSound
    <3> QED BY <2>2, <3>5, <3>6, <3>7, <3>8 DEF VisitSound
  <2> QED BY <2>1, <2>2
<1>6. ConsoleTyped'
  BY DEF ConsoleInv, ConsoleTyped
<1> QED BY <1>3, <1>5, <1>6 DEF ConsoleInv, SessionsSound, VisitsSound

LEMMA EndedRow ==
  ASSUME NEW rows \in Seq(SessionRow), NEW s \in DOMAIN rows
  PROVE  LET ended == [rows EXCEPT ![s].live = FALSE] IN
         /\ ended \in Seq(SessionRow) /\ Len(ended) = Len(rows) /\ DOMAIN ended = DOMAIN rows
         /\ \A u \in DOMAIN rows :
              /\ ended[u].live => rows[u].live
              /\ ended[u].device = rows[u].device /\ ended[u].second = rows[u].second
              /\ ended[u].version = rows[u].version /\ ended[u].at = rows[u].at /\ ended[u].raced = rows[u].raced
<1>1. rows[s] \in SessionRow
  BY ElementOfSeq
<1>2. PICK n : n = [rows[s] EXCEPT !.live = FALSE]
  OBVIOUS
<1>3. /\ n \in SessionRow /\ n.live = FALSE /\ n.device = rows[s].device /\ n.second = rows[s].second
      /\ n.version = rows[s].version /\ n.at = rows[s].at /\ n.raced = rows[s].raced
  BY <1>1, <1>2 DEF SessionRow
<1>4. PICK ended : ended = [rows EXCEPT ![s] = n]
  OBVIOUS
<1>5. s \in 1..Len(rows) /\ DOMAIN rows = 1..Len(rows)
  OBVIOUS
<1>6. /\ ended \in Seq(SessionRow) /\ Len(ended) = Len(rows)
      /\ \A u \in 1..Len(rows) : ended[u] = IF u = s THEN n ELSE rows[u]
  BY <1>3, <1>4, <1>5, ExceptSeq
<1>7. [rows EXCEPT ![s].live = FALSE] = ended
  BY <1>2, <1>4
<1> QED BY <1>3, <1>5, <1>6, <1>7

LEMMA EndShape ==
  ASSUME ConsoleInv, NEW v \in Visits, Console!End(v)
  PROVE  /\ visit'[v] = Console!Rest /\ DOMAIN visit' = Visits
         /\ \A w \in Visits \ {v} : visit'[w] = visit[w]
         /\ \A w \in Visits : visit'[w] \in {visit[w], Console!Rest}
BY DEF Console!End, ConsoleInv, ConsoleTyped

\* What an unraced request knows when it commits.
LEMMA QuietFacts ==
  ASSUME ConsoleInv, NEW v \in Visits, visit[v].op \in SignInOps \cup {"refresh"}
  PROVE  /\ visit[v].version \in Nat /\ visit[v].raced \in BOOLEAN
         /\ ~visit[v].raced => Quiet(v) /\ visit[v].version = account.version /\ \A w \in Visits : visit[w].op \notin Console!Changing
<1>1. VisitSound(v) /\ visit[v].op # "rest" /\ visit[v].op \notin Console!Changing
  BY DEF ConsoleInv, VisitsSound, SignInOps, Console!Changing
<1> QED BY <1>1 DEF VisitSound, Quiet

LEMMA ConsoleLogoutKeeps ==
  ASSUME ConsoleInv, NEW s \in DOMAIN consoleSessions, Console!Logout(s)
  PROVE  ConsoleInv'
<1>1. /\ consoleSessions \in Seq(SessionRow) /\ consoleSessions' = [consoleSessions EXCEPT ![s].live = FALSE]
      /\ account' = account /\ changes' = changes /\ devices' = devices /\ visit' = visit
      /\ devices \in Seq(BOOLEAN) /\ DOMAIN visit = Visits
  BY DEF Console!Logout, ConsoleInv, ConsoleTyped
<1> QED BY <1>1, EndedRow, SessionsGrow

\* A request adds a session to rows of which some may have ended, and ends.
LEMMA SessionAdded ==
  ASSUME ConsoleInv, NEW v \in Visits, Console!End(v), account' = account, changes' = changes,
         devices' \in Seq(BOOLEAN), Len(devices) <= Len(devices'), \A d \in DOMAIN devices : devices'[d] = devices[d],
         NEW rows \in Seq(SessionRow), Len(rows) = Len(consoleSessions),
         \A s \in DOMAIN consoleSessions :
           /\ rows[s].live => consoleSessions[s].live
           /\ rows[s].device = consoleSessions[s].device /\ rows[s].second = consoleSessions[s].second
           /\ rows[s].version = consoleSessions[s].version /\ rows[s].at = consoleSessions[s].at
           /\ rows[s].raced = consoleSessions[s].raced,
         NEW device \in DOMAIN devices', NEW second \in BOOLEAN, NEW raced \in BOOLEAN,
         consoleSessions' = Append(rows, Console!NewSession(v, device, second, raced)),
         visit[v].op \in SignInOps \cup {"refresh"}, visit[v].raced => raced,
         ~raced => devices'[device] /\ (account.mfa => second)
  PROVE  ConsoleInv'
<1>1. /\ consoleSessions \in Seq(SessionRow) /\ devices \in Seq(BOOLEAN) /\ changes \in Nat
      /\ DOMAIN consoleSessions = 1..Len(consoleSessions) /\ DOMAIN devices' \subseteq Nat
      /\ Len(rows) \in Nat
  BY DEF ConsoleInv, ConsoleTyped
<1>2. /\ visit[v].version \in Nat /\ visit[v].raced \in BOOLEAN
      /\ ~visit[v].raced => visit[v].version = account.version /\ \A w \in Visits : visit[w].op \notin Console!Changing
  BY QuietFacts
<1>3. PICK n : n = Console!NewSession(v, device, second, raced)
  OBVIOUS
<1>4. /\ n \in SessionRow /\ n.device = device /\ n.second = second /\ n.version = visit[v].version
      /\ n.at = changes /\ n.raced = raced
  BY <1>1, <1>2, <1>3 DEF Console!NewSession, SessionRow
<1>5. /\ consoleSessions' \in Seq(SessionRow) /\ Len(consoleSessions') = Len(consoleSessions) + 1
      /\ DOMAIN consoleSessions' = 1..(Len(consoleSessions) + 1)
      /\ \A s \in DOMAIN consoleSessions : consoleSessions'[s] = rows[s]
      /\ consoleSessions'[Len(consoleSessions) + 1] = n
  BY <1>1, <1>3, <1>4, AppendProperties
<1>6. ASSUME NEW s \in DOMAIN consoleSessions' \ DOMAIN consoleSessions
      PROVE  /\ consoleSessions'[s].device \in DOMAIN devices'
             /\ ~consoleSessions'[s].raced =>
                  /\ \A w \in Visits : visit[w].op \notin Console!Changing
                  /\ consoleSessions'[s].version = account.version /\ consoleSessions'[s].at = changes
                  /\ Fits(s)'
  <2>1. s = Len(consoleSessions) + 1
    BY <1>1, <1>5
  <2>2. consoleSessions'[s] = n
    BY <1>5, <2>1
  <2>3. ~raced => ~visit[v].raced
    BY <1>2
  <2>4. ~raced => Fits(s)'
    BY <1>4, <2>2 DEF Fits
  <2> QED BY <1>2, <1>4, <2>2, <2>3, <2>4
<1> QED BY <1>1, <1>5, <1>6, EndShape, SessionsGrow

LEMMA ConsoleSignInKeeps ==
  ASSUME ConsoleInv, NEW v \in Visits, Console!SignIn(v)
  PROVE  ConsoleInv'
<1> DEFINE r == visit[v].arg
           known == r.device # 0
           device == IF known THEN r.device ELSE Len(devices) + 1
<1>1. /\ visit[v].op = "sign_in" /\ Console!End(v) /\ account' = account /\ changes' = changes
      /\ devices' = (IF known THEN devices ELSE Append(devices, TRUE))
      /\ consoleSessions' = Append(consoleSessions, Console!NewSession(v, device, r.second, visit[v].raced))
  BY DEF Console!SignIn
<1>2. consoleSessions \in Seq(SessionRow) /\ devices \in Seq(BOOLEAN)
  BY DEF ConsoleInv, ConsoleTyped
<1>3. visit[v].op \in SignInOps
  BY <1>1 DEF SignInOps
<1>4. visit[v].raced \in BOOLEAN /\ (~visit[v].raced => Quiet(v))
  BY <1>3, QuietFacts
<1>5. /\ r.device \in 0..Len(devices) /\ r.second \in BOOLEAN
      /\ ~visit[v].raced => (r.device # 0 => devices[r.device]) /\ (account.mfa => r.second)
  BY <1>3, <1>4 DEF ConsoleInv, VisitsSound, VisitSound
<1>6. /\ devices' \in Seq(BOOLEAN) /\ Len(devices) <= Len(devices') /\ \A d \in DOMAIN devices : devices'[d] = devices[d]
      /\ device \in DOMAIN devices' /\ (~visit[v].raced => devices'[device])
  <2>1. CASE known
    BY <1>1, <1>2, <1>5, <2>1
  <2>2. CASE ~known
    <3>1. Len(devices) \in Nat /\ DOMAIN devices = 1..Len(devices) /\ TRUE \in BOOLEAN
      BY <1>2
    <3>2. devices' = Append(devices, TRUE) /\ device = Len(devices) + 1
      BY <1>1, <2>2
    <3>3. /\ devices' \in Seq(BOOLEAN) /\ Len(devices') = Len(devices) + 1 /\ devices'[Len(devices) + 1] = TRUE
          /\ \A d \in 1..Len(devices) : devices'[d] = devices[d]
      BY <1>2, <3>1, <3>2, AppendProperties
    <3>4. DOMAIN devices' = 1..(Len(devices) + 1)
      BY <3>3
    <3> QED BY <3>1, <3>2, <3>3, <3>4
  <2> QED BY <2>1, <2>2
<1>7. PICK d, second, raced : d = device /\ second = r.second /\ raced = visit[v].raced
  OBVIOUS
<1> HIDE DEF device, known, r
<1> QED BY <1>1, <1>2, <1>3, <1>4, <1>5, <1>6, <1>7, SessionAdded

LEMMA ConsoleRefreshKeeps ==
  ASSUME ConsoleInv, NEW v \in Visits, Console!Refresh(v)
  PROVE  ConsoleInv'
<1>1. PICK s : s = visit[v].arg.session
  OBVIOUS
<1>2. /\ visit[v].op = "refresh" /\ Console!End(v) /\ account' = account /\ changes' = changes /\ devices' = devices
      /\ consoleSessions' = Append([consoleSessions EXCEPT ![s].live = FALSE],
           Console!NewSession(v, consoleSessions[s].device, consoleSessions[s].second, visit[v].raced \/ consoleSessions[s].raced))
  BY <1>1 DEF Console!Refresh
<1>3. consoleSessions \in Seq(SessionRow) /\ devices \in Seq(BOOLEAN)
  BY DEF ConsoleInv, ConsoleTyped
<1>4. visit[v].raced \in BOOLEAN /\ (~visit[v].raced => Quiet(v))
  BY <1>2, QuietFacts
<1>5. s \in DOMAIN consoleSessions /\ (~visit[v].raced /\ ~consoleSessions[s].raced => Fits(s))
  BY <1>1, <1>2, <1>4 DEF ConsoleInv, VisitsSound, VisitSound
<1>6. consoleSessions[s] \in SessionRow /\ consoleSessions[s].device \in DOMAIN devices
  BY <1>3, <1>5 DEF ConsoleInv, SessionsSound, SessionSound
<1>7. PICK d, second, raced : d = consoleSessions[s].device /\ second = consoleSessions[s].second
                            /\ raced = (visit[v].raced \/ consoleSessions[s].raced)
  OBVIOUS
<1>8. raced \in BOOLEAN /\ (visit[v].raced => raced) /\ second \in BOOLEAN /\ d \in DOMAIN devices
  BY <1>6, <1>7 DEF SessionRow
<1>9. ~raced => devices[d] /\ (account.mfa => second)
  BY <1>5, <1>7 DEF Fits
<1>10. PICK rows : rows = [consoleSessions EXCEPT ![s].live = FALSE]
  OBVIOUS
<1>11. /\ rows \in Seq(SessionRow) /\ Len(rows) = Len(consoleSessions)
       /\ \A u \in DOMAIN consoleSessions :
           /\ rows[u].live => consoleSessions[u].live
           /\ rows[u].device = consoleSessions[u].device /\ rows[u].second = consoleSessions[u].second
           /\ rows[u].version = consoleSessions[u].version /\ rows[u].at = consoleSessions[u].at
           /\ rows[u].raced = consoleSessions[u].raced
  BY <1>3, <1>5, <1>10, EndedRow
<1>12. consoleSessions' = Append(rows, Console!NewSession(v, d, second, raced))
  BY <1>2, <1>7, <1>10
<1>13. /\ devices' \in Seq(BOOLEAN) /\ Len(devices) <= Len(devices') /\ \A e \in DOMAIN devices : devices'[e] = devices[e]
       /\ d \in DOMAIN devices' /\ (~raced => devices'[d] /\ (account.mfa => second))
       /\ visit[v].op \in SignInOps \cup {"refresh"}
  BY <1>2, <1>3, <1>8, <1>9
<1> QED BY <1>2, <1>8, <1>11, <1>12, <1>13, SessionAdded

\* The commit of a change.
LEMMA ConsoleCommitKeeps ==
  ASSUME ConsoleInv, NEW v \in Visits, Console!ChangeCommit(v)
  PROVE  ConsoleInv'
<1>1. PICK r : r = visit[v]
  OBVIOUS
<1>2. /\ r.op \in Console!Changing /\ r.arg.revoked /\ Console!End(v) /\ account' = Console!Changed(r)
      /\ consoleSessions' = [s \in DOMAIN consoleSessions |-> IF s \in r.locks THEN [consoleSessions[s] EXCEPT !.live = FALSE] ELSE consoleSessions[s]]
      /\ devices' = (IF r.op = "device" THEN [devices EXCEPT ![r.arg.which] = FALSE] ELSE devices)
      /\ changes' = (IF r.op = "device" THEN changes ELSE changes + 1)
  BY <1>1 DEF Console!ChangeCommit
<1>3. /\ consoleSessions \in Seq(SessionRow) /\ devices \in Seq(BOOLEAN) /\ changes \in Nat
      /\ account \in [version : Nat, mfa : BOOLEAN, secret : BOOLEAN, central : BOOLEAN]
  BY DEF ConsoleInv, ConsoleTyped
<1>4. /\ r.version \in Nat /\ (r.op = "device" => r.arg.which \in DOMAIN devices)
      /\ \A s \in DOMAIN consoleSessions : ~consoleSessions[s].raced =>
           /\ consoleSessions[s].version <= r.version
           /\ s \in Console!Reached(r) => s \in r.locks
  BY <1>1, <1>2 DEF ConsoleInv, VisitsSound, VisitSound, Console!Changing
<1>5. /\ account' \in [version : Nat, mfa : BOOLEAN, secret : BOOLEAN, central : BOOLEAN]
      /\ r.op = "device" => account' = account
      /\ r.op # "device" => account'.version = r.version + 1
  <2>1. CASE r.op = "device"
    BY <1>2, <1>3, <2>1 DEF Console!Changed
  <2>2. CASE r.op # "device"
    <3>1. PICK mfa, secret, central : /\ mfa = CASE r.op = "mfa_off" -> FALSE [] r.op = "mfa_on" /\ ~r.arg.mfa -> TRUE [] OTHER -> account.mfa
                                      /\ secret = (account.secret /\ r.op # "mfa_off") /\ central = (account.central \/ r.op = "enforce")
      OBVIOUS
    <3>2. mfa \in BOOLEAN /\ secret \in BOOLEAN /\ central \in BOOLEAN
      BY <1>3, <3>1
    <3>3. account' = [account EXCEPT !.version = r.version + 1, !.mfa = mfa, !.secret = secret, !.central = central]
      BY <1>2, <1>3, <2>2, <3>1 DEF Console!Changed
    <3>4. account' = [version |-> r.version + 1, mfa |-> mfa, secret |-> secret, central |-> central]
      BY <1>3, <3>3
    <3>5. r.version + 1 \in Nat
      BY <1>4
    <3>6. account' \in [version : Nat, mfa : BOOLEAN, secret : BOOLEAN, central : BOOLEAN]
      BY <3>2, <3>4, <3>5, Zenon
    <3>7. account'.version = r.version + 1
      BY <3>4
    <3> QED BY <2>2, <3>6, <3>7
  <2> QED BY <2>1, <2>2
<1>6. /\ consoleSessions' \in Seq(SessionRow) /\ DOMAIN consoleSessions' = DOMAIN consoleSessions
      /\ \A s \in DOMAIN consoleSessions :
           /\ consoleSessions'[s].live => consoleSessions[s].live /\ s \notin r.locks
           /\ consoleSessions'[s].device = consoleSessions[s].device /\ consoleSessions'[s].second = consoleSessions[s].second
           /\ consoleSessions'[s].version = consoleSessions[s].version /\ consoleSessions'[s].at = consoleSessions[s].at
           /\ consoleSessions'[s].raced = consoleSessions[s].raced
  <2>1. DOMAIN consoleSessions = 1..Len(consoleSessions) /\ Len(consoleSessions) \in Nat
    BY <1>3
  <2>2. ASSUME NEW s \in DOMAIN consoleSessions
        PROVE  /\ consoleSessions'[s] \in SessionRow
               /\ consoleSessions'[s].live => consoleSessions[s].live /\ s \notin r.locks
               /\ consoleSessions'[s].device = consoleSessions[s].device /\ consoleSessions'[s].second = consoleSessions[s].second
               /\ consoleSessions'[s].version = consoleSessions[s].version /\ consoleSessions'[s].at = consoleSessions[s].at
               /\ consoleSessions'[s].raced = consoleSessions[s].raced
    <3>1. consoleSessions[s] \in SessionRow
      BY <1>3
    <3>2. CASE s \in r.locks
      <4>1. consoleSessions'[s] = [consoleSessions[s] EXCEPT !.live = FALSE]
        BY <1>2, <3>2
      <4> QED BY <3>1, <3>2, <4>1 DEF SessionRow
    <3>3. CASE s \notin r.locks
      <4>1. consoleSessions'[s] = consoleSessions[s]
        BY <1>2, <3>3
      <4> QED BY <3>1, <3>3, <4>1
    <3> QED BY <3>2, <3>3
  <2>3. consoleSessions' = [s \in 1..Len(consoleSessions) |-> consoleSessions'[s]] /\ DOMAIN consoleSessions' = DOMAIN consoleSessions
    BY <1>2, <2>1
  <2>4. consoleSessions' \in Seq(SessionRow)
    BY <2>1, <2>2, <2>3
  <2> QED BY <2>2, <2>3, <2>4
<1>7. /\ devices' \in Seq(BOOLEAN) /\ DOMAIN devices' = DOMAIN devices
      /\ \A d \in DOMAIN devices : devices[d] /\ ~(r.op = "device" /\ d = r.arg.which) => devices'[d]
  <2>1. CASE r.op = "device"
    <3>1. DOMAIN devices = 1..Len(devices) /\ r.arg.which \in 1..Len(devices) /\ FALSE \in BOOLEAN
      BY <1>3, <1>4, <2>1
    <3>2. /\ devices' \in Seq(BOOLEAN) /\ Len(devices') = Len(devices)
          /\ \A d \in 1..Len(devices) : devices'[d] = IF d = r.arg.which THEN FALSE ELSE devices[d]
      BY <1>2, <1>3, <2>1, <3>1, ExceptSeq
    <3>3. DOMAIN devices' = DOMAIN devices
      BY <3>1, <3>2
    <3>4. \A d \in DOMAIN devices : d # r.arg.which => devices'[d] = devices[d]
      BY <3>1, <3>2
    <3> QED BY <2>1, <3>2, <3>3, <3>4
  <2>2. CASE r.op # "device"
    BY <1>2, <1>3, <2>2
  <2> QED BY <2>1, <2>2
<1>8. ConsoleTyped'
  BY <1>2, <1>3, <1>5, <1>6, <1>7, EndShape DEF ConsoleTyped
<1>9. ASSUME NEW s \in DOMAIN consoleSessions' PROVE SessionSound(s)'
  <2>1. s \in DOMAIN consoleSessions /\ SessionSound(s) /\ consoleSessions[s] \in SessionRow
    BY <1>3, <1>6 DEF ConsoleInv, SessionsSound
  <2>2. consoleSessions'[s].device \in DOMAIN devices'
    BY <1>6, <1>7, <2>1 DEF SessionSound
  <2>3. ASSUME ~consoleSessions'[s].raced
        PROVE  /\ consoleSessions'[s].version <= account'.version
               /\ consoleSessions'[s].live \/ consoleSessions'[s].version = account'.version => consoleSessions'[s].at = changes'
               /\ consoleSessions'[s].live => Fits(s)'
    <3>1. ~consoleSessions[s].raced /\ consoleSessions[s].version <= r.version /\ consoleSessions[s].version \in Nat
      BY <1>4, <1>6, <2>1, <2>3 DEF SessionRow
    <3>2. CASE r.op = "device"
      <4>1. consoleSessions'[s].live => consoleSessions[s].device # r.arg.which
        BY <1>4, <1>6, <2>1, <3>1, <3>2 DEF Console!Reached, Console!Live
      <4>2. consoleSessions'[s].live => Fits(s)'
        BY <1>5, <1>6, <1>7, <2>1, <3>1, <3>2, <4>1 DEF SessionSound, Fits
      <4> QED BY <1>2, <1>5, <1>6, <2>1, <3>1, <3>2, <4>2 DEF SessionSound
    <3>3. CASE r.op # "device"
      <4>1. ~consoleSessions'[s].live
        BY <1>4, <1>6, <2>1, <3>1, <3>3 DEF Console!Reached, Console!Live
      <4> QED BY <1>4, <1>5, <1>6, <2>1, <3>1, <3>3, <4>1
    <3> QED BY <3>2, <3>3
  <2> QED BY <2>2, <2>3 DEF SessionSound
<1>10. Console!Rest.op = "rest" /\ Console!Rest.locks = {} /\ "rest" \notin Console!Changing /\ "rest" \notin SignInOps
  BY DEF Console!Rest, Console!Changing, SignInOps
<1>11. ASSUME NEW w \in Visits PROVE VisitSound(w)'
  <2>1. CASE w = v
    <3>1. visit'[w] = Console!Rest
      BY <1>2, <2>1, EndShape
    <3> QED BY <1>10, <3>1 DEF VisitSound, Quiet
  <2>2. CASE w # v
    <3>1. visit'[w] = visit[w] /\ VisitSound(w) /\ Quiet(w)' = Quiet(w)
      BY <1>2, <2>2, EndShape DEF ConsoleInv, VisitsSound, Quiet
    <3>2. ~Quiet(w)
      BY <1>1, <1>2, <3>1 DEF VisitSound
    <3>3. DOMAIN devices' = DOMAIN devices /\ Len(devices') = Len(devices)
      BY <1>3, <1>7
    <3>4. \A s \in DOMAIN consoleSessions : s \in Console!Reached(visit[w])' => s \in Console!Reached(visit[w])
      BY <1>6, <3>1 DEF Console!Reached, Console!Live
    <3>5. visit[w].op \in Console!Changing =>
            \A s \in DOMAIN consoleSessions' : ~consoleSessions'[s].raced =>
              /\ consoleSessions'[s].version <= visit[w].version
              /\ visit[w].arg.revoked /\ s \in Console!Reached(visit[w])' => s \in visit[w].locks
      BY <1>6, <3>1, <3>4 DEF VisitSound
    <3> QED BY <1>6, <3>1, <3>2, <3>3, <3>5 DEF VisitSound
  <2> QED BY <2>1, <2>2
<1> QED BY <1>8, <1>9, <1>11 DEF ConsoleInv, SessionsSound, VisitsSound

LEMMA ConsoleStart == Console!Init => ConsoleInv
<1> SUFFICES ASSUME Console!Init PROVE ConsoleInv
  OBVIOUS
<1>1. /\ consoleSessions = <<>> /\ devices = <<>> /\ changes = 0 /\ visit = [v \in Visits |-> Console!Rest]
      /\ \E on \in BOOLEAN : account = [version |-> 0, mfa |-> on, secret |-> on, central |-> FALSE]
  BY DEF Console!Init
<1>2. account \in [version : Nat, mfa : BOOLEAN, secret : BOOLEAN, central : BOOLEAN]
  BY <1>1
<1>3. ConsoleTyped /\ SessionsSound
  BY <1>1, <1>2 DEF ConsoleTyped, SessionsSound
<1>4. VisitsSound
  BY <1>1 DEF VisitsSound, VisitSound, Quiet, SignInOps, Console!Rest, Console!Changing
<1> QED BY <1>3, <1>4 DEF ConsoleInv

LEMMA ConsoleStep == ConsoleInv /\ [Console!Next]_(Console!consoleVars) => ConsoleInv'
<1> SUFFICES ASSUME ConsoleInv, [Console!Next]_(Console!consoleVars) PROVE ConsoleInv'
  OBVIOUS
<1>1. CASE UNCHANGED Console!consoleVars
  <2>1. UNCHANGED accountRows /\ visit' = visit
    BY <1>1 DEF Console!consoleVars, accountRows
  <2> QED BY <2>1 DEF accountRows, ConsoleInv, ConsoleTyped, SessionsSound, SessionSound, Fits, VisitsSound, VisitSound, Quiet, Console!Reached, Console!Live
<1>2. ASSUME NEW v \in Visits, Console!Request(v) PROVE ConsoleInv'
  <2>1. ASSUME NEW d \in 0..Len(devices), Console!PasskeyAuthVerify(v, d) PROVE ConsoleInv'
    <3>1. /\ d # 0 => devices[d]
          /\ Console!Begin(v, "sign_in", Console!Found(d, 0, TRUE)) /\ UNCHANGED accountRows
      BY <2>1 DEF Console!PasskeyAuthVerify, accountRows
    <3>2. Console!Found(d, 0, TRUE).device = d /\ Console!Found(d, 0, TRUE).second = TRUE
      BY DEF Console!Found
    <3>3. "sign_in" \notin Console!Changing
      BY DEF Console!Changing
    <3> QED BY <3>1, <3>2, <3>3, Beginner
  <2>2. ASSUME NEW d \in 0..Len(devices), NEW c \in 0..Len(codes), Console!Login(v, d, c) PROVE ConsoleInv'
    <3>1. PICK op \in {"step_up", "sign_in"} : Console!Begin(v, op, Console!Found(d, c, account.mfa))
      BY <2>2 DEF Console!Login
    <3>2. (d # 0 => devices[d]) /\ UNCHANGED accountRows
      BY <2>2 DEF Console!Login, accountRows
    <3>3. Console!Found(d, c, account.mfa).device = d /\ Console!Found(d, c, account.mfa).second = account.mfa
      BY DEF Console!Found
    <3>4. op \notin Console!Changing /\ op # "refresh" /\ op # "rest" /\ account.mfa \in BOOLEAN
      BY DEF Console!Changing, ConsoleInv, ConsoleTyped
    <3> QED BY <3>1, <3>2, <3>3, <3>4, Beginner
  <2>3. ASSUME Console!IssueLooks(v) PROVE ConsoleInv'
    BY <2>3, SignInGoesOn DEF Console!IssueLooks, SignInOps, accountRows
  <2>4. ASSUME Console!Issue(v) PROVE ConsoleInv'
    <3>1. PICK arg : arg = [visit[v].arg EXCEPT !.challenge = Len(steps) + 1]
      OBVIOUS
    <3>2. arg.device = visit[v].arg.device /\ arg.second = visit[v].arg.second
      BY <3>1
    <3>3. Console!Goes(v, "mail", arg) /\ UNCHANGED accountRows /\ visit[v].op \in SignInOps /\ "mail" \in SignInOps
      BY <2>4, <3>1 DEF Console!Issue, SignInOps, accountRows
    <3> QED BY <3>2, <3>3, SignInGoesOn
  <2>5. ASSUME NEW c \in DOMAIN steps, Console!VerifyReads(v, c) PROVE ConsoleInv'
    <3>1. PICK arg : arg = [visit[v].arg EXCEPT !.challenge = c, !.attempts = steps[c] + 1]
      OBVIOUS
    <3>2. arg.device = visit[v].arg.device /\ arg.second = visit[v].arg.second
      BY <3>1
    <3>3. Console!Goes(v, "verify", arg) /\ UNCHANGED accountRows /\ visit[v].op \in SignInOps /\ "verify" \in SignInOps
      BY <2>5, <3>1 DEF Console!VerifyReads, SignInOps, accountRows
    <3> QED BY <3>2, <3>3, SignInGoesOn
  <2>6. ASSUME Console!VerifyRight(v) PROVE ConsoleInv'
    <3>1. PICK arg : arg = [visit[v].arg EXCEPT !.challenge = 0, !.attempts = 0]
      OBVIOUS
    <3>2. arg.device = visit[v].arg.device /\ arg.second = visit[v].arg.second
      BY <3>1
    <3>3. Console!Goes(v, "sign_in", arg) /\ UNCHANGED accountRows /\ visit[v].op \in SignInOps /\ "sign_in" \in SignInOps
      BY <2>6, <3>1 DEF Console!VerifyRight, SignInOps, accountRows
    <3> QED BY <3>2, <3>3, SignInGoesOn
  <2>7. ASSUME \/ Console!CancelChallenge(v) \/ Console!VerifyTooMany(v) \/ Console!VerifyWrong(v)
               \/ Console!Regenerate(v) \/ Console!RequestReset(v) \/ Console!Abandon(v)
        PROVE  ConsoleInv'
    <3>1. Console!End(v) /\ UNCHANGED accountRows
      BY <2>7 DEF Console!CancelChallenge, Console!VerifyTooMany, Console!VerifyWrong, Console!Regenerate,
                  Console!RequestReset, Console!Abandon, accountRows
    <3> QED BY <3>1, ConsoleEndKeeps
  <2>8. ASSUME NEW s \in DOMAIN consoleSessions, Console!RefreshBegin(v, s) PROVE ConsoleInv'
    BY <2>8, Beginner DEF Console!RefreshBegin, accountRows, SignInOps, Console!Changing
  <2>9. ASSUME Console!RegenerateBegin(v) PROVE ConsoleInv'
    BY <2>9, Beginner DEF Console!RegenerateBegin, accountRows, SignInOps, Console!Changing
  <2>10. ASSUME Console!RequestResetBegin(v) PROVE ConsoleInv'
    BY <2>10, Beginner DEF Console!RequestResetBegin, accountRows, SignInOps, Console!Changing
  <2>11. ASSUME NEW op \in Console!Changing, NEW which, Console!ChangeBegin(v, op, which) PROVE ConsoleInv'
    <3>1. PICK arg : arg = [which |-> which, mfa |-> account.mfa, open |-> {}, revoked |-> FALSE]
      OBVIOUS
    <3>2. arg.which = which /\ arg.revoked = FALSE
      BY <3>1
    <3>3. Console!Begin(v, op, arg) /\ UNCHANGED accountRows /\ (op = "device" => which \in DOMAIN devices)
      BY <2>11, <3>1 DEF Console!ChangeBegin, accountRows
    <3>4. op \notin SignInOps /\ op # "refresh" /\ op # "rest"
      BY DEF SignInOps, Console!Changing
    <3> QED BY <3>2, <3>3, <3>4, Beginner
  <2> QED BY <1>2, <2>1, <2>2, <2>3, <2>4, <2>5, <2>6, <2>7, <2>8, <2>9, <2>10, <2>11,
            ConsoleSignInKeeps, ConsoleRefreshKeeps, ConsoleRevokeKeeps, ConsoleCommitKeeps DEF Console!Request
<1>3. ASSUME \/ \E c \in DOMAIN steps : Console!ChallengeExpires(c)
             \/ \E k \in DOMAIN resets : Console!SpendReset(k)
      PROVE  ConsoleInv'
  <2>1. UNCHANGED accountRows /\ visit' = visit
    BY <1>3 DEF Console!ChallengeExpires, Console!SpendReset, accountRows
  <2> QED BY <2>1 DEF accountRows, ConsoleInv, ConsoleTyped, SessionsSound, SessionSound, Fits, VisitsSound, VisitSound, Quiet, Console!Reached, Console!Live
<1>4. ASSUME Console!MfaSetup PROVE ConsoleInv'
  <2>1. /\ account' = [account EXCEPT !.secret = TRUE] /\ consoleSessions' = consoleSessions /\ devices' = devices
        /\ changes' = changes /\ visit' = visit
    BY <1>4 DEF Console!MfaSetup
  <2>2. account' \in [version : Nat, mfa : BOOLEAN, secret : BOOLEAN, central : BOOLEAN] /\ account'.version = account.version /\ account'.mfa = account.mfa
    BY <2>1 DEF ConsoleInv, ConsoleTyped
  <2> QED BY <2>1, <2>2 DEF ConsoleInv, ConsoleTyped, SessionsSound, SessionSound, Fits, VisitsSound, VisitSound, Quiet, Console!Reached, Console!Live
<1> QED BY <1>1, <1>2, <1>3, <1>4, ConsoleLogoutKeeps DEF Console!Next

\* A change of the password or of MFA, a reset, a sign-out everywhere and the move to central sign-in
\* end what was signed in before, and the revocation of a device what was signed in on it, for any
\* number of requests at once (_revoke_all_sessions, refresh, revoke_device, _decode_local_user).
THEOREM ConsoleChangesEnd == Console!Spec => []ChangeEndsAccess
<1>1. ConsoleInv => ChangeEndsAccess
  BY DEF ConsoleInv, SessionsSound, SessionSound, Fits, ChangeEndsAccess, Console!ChangeEndsAccess, Console!Accepted
<1> QED BY <1>1, ConsoleStart, ConsoleStep, PTL DEF Console!Spec

-----------------------------------------------------------------------------
(* The subscription: a period is renewed when paid, and billed once.       *)

Statuses == {"absent", "active", "past_due", "canceled"}
Subs == [status : Statuses, period : Nat, grace : {"none", "new", "running", "over"}]
Contracts == [renew : BOOLEAN, credit : Int]
Bills == [period : Nat, status : {"open", "paid"}, token : Nat]
Cycles == [op : {"bill", "cycle"}, sub : Subs, contract : Contracts, ended : BOOLEAN,
           bill : {"none", "open", "paid"}, draw : Nat, status : {"none", "open", "paid"}]

PaidFor(p) == \E i \in DOMAIN invoices : invoices[i].period = p /\ invoices[i].status = "paid"
Unbilled(p) == \A i \in DOMAIN invoices : invoices[i].period # p

BillingTyped ==
  /\ sub \in Subs /\ contract \in Contracts /\ invoices \in Seq(Bills)
  /\ checkouts \in Seq([invoice : Nat, paid : BOOLEAN])
  /\ begun \in Nat /\ unspent \in Int /\ renewed \subseteq Nat \X Nat /\ DOMAIN clerk = Clerks

\* A request holds rows; a cycle that takes its period for paid has found a paid invoice of it or
\* is about to make one.
ClerkSound(c) ==
  LET r == clerk[c] IN
  /\ r.op \in {"off", "assign", "mark", "notice", "checkout", "callback", "generate", "bill", "cycle", "update"}
  /\ r.op = "off" => r = Subscription!Off
  /\ r.op \in {"assign", "mark", "notice", "callback"} => r.sub \in Subs
  /\ r.op = "assign" => r.status \in Statuses
  /\ r.op = "checkout" => r.invoice \in Nat
  /\ r.op = "update" => r.contract \in Contracts /\ r.new \in Contracts
  /\ r.op \in {"bill", "cycle"} =>
       /\ r \in Cycles
       /\ r.bill = "none" => r.draw = 0
       /\ r.bill # "none" => r.status = r.bill
       /\ r.op = "cycle" /\ r.bill = "none" /\ r.status = "paid" => PaidFor(r.sub.period)

\* A request that is about to make an invoice or to set the balance, while requests come one at a
\* time.
AloneSound(c) ==
  LET r == clerk[c]
      bills == r.op = "bill" \/ (r.op = "cycle" /\ r.bill # "none")
  IN
  /\ r.op = "generate" \/ bills => Unbilled(sub.period)
  /\ bills => /\ r.sub.period = sub.period /\ r.contract.credit = contract.credit
              /\ r.draw <= contract.credit \/ r.draw = 0
  /\ r.op = "update" => r.contract = contract /\ (r.new.credit >= 0 \/ r.new.credit = contract.credit)

RenewedPaid == \A e \in renewed : PaidFor(e[1])
BilledOnce == \A i, j \in DOMAIN invoices : invoices[i].period = invoices[j].period => i = j
CreditKept == contract.credit = unspent /\ unspent >= 0

BillingInv ==
  /\ BillingTyped /\ RenewedPaid /\ \A c \in Clerks : ClerkSound(c)
  /\ ~crossed => /\ BilledOnce /\ CreditKept
                 /\ \A c, d \in Clerks : clerk[c].op # "off" /\ clerk[d].op # "off" => c = d
                 /\ \A c \in Clerks : AloneSound(c)

\* What credit pays of a charge is not more than there is.
LEMMA DrawFacts ==
  ASSUME NEW k \in Int, NEW charge \in Nat, NEW draw, draw = Subscription!Min({charge, Subscription!Max({0, k})})
  PROVE  draw \in Nat /\ (draw <= k \/ draw = 0)
<1>1. \E m \in {0, k} : \A y \in {0, k} : m >= y
  <2>1. CASE k >= 0
    BY <2>1
  <2>2. CASE ~(k >= 0)
    BY <2>2
  <2> QED BY <2>1, <2>2
<1>2. PICK m : m = Subscription!Max({0, k})
  OBVIOUS
<1>3. m \in {0, k} /\ \A y \in {0, k} : m >= y
  BY <1>1, <1>2 DEF Subscription!Max
<1>4. m \in Nat /\ (m = 0 \/ m = k)
  BY <1>3
<1>5. \E n \in {charge, m} : \A y \in {charge, m} : n <= y
  <2>1. CASE m <= charge
    BY <1>4, <2>1
  <2>2. CASE ~(m <= charge)
    BY <1>4, <2>2
  <2> QED BY <2>1, <2>2
<1>6. draw \in {charge, m} /\ \A y \in {charge, m} : draw <= y
  BY <1>2, <1>5 DEF Subscription!Min
<1>7. draw \in Nat /\ draw <= m
  BY <1>4, <1>6
<1> QED BY <1>4, <1>7

\* Invoices are never removed, moved to another period or unpaid.
InvoicesKept ==
  \A i \in DOMAIN invoices :
    /\ i \in DOMAIN invoices' /\ invoices'[i].period = invoices[i].period
    /\ invoices[i].status = "paid" => invoices'[i].status = "paid"

LEMMA PaidStays ==
  ASSUME InvoicesKept, NEW p, PaidFor(p) PROVE PaidFor(p)'
BY DEF InvoicesKept, PaidFor

LEMMA SubFields ==
  ASSUME NEW s \in Subs
  PROVE  /\ s.status \in Statuses /\ s.period \in Nat /\ s.grace \in {"none", "new", "running", "over"}
BY DEF Subs

LEMMA ClerkSame ==
  ASSUME NEW c \in Clerks, ClerkSound(c), clerk'[c] = clerk[c], InvoicesKept
  PROVE  ClerkSound(c)'
<1>1. PICK p : p = clerk[c].sub.period
  OBVIOUS
<1>2. PaidFor(p) => PaidFor(p)'
  BY PaidStays
<1>3. PaidFor(clerk[c].sub.period) => PaidFor(clerk[c].sub.period)'
  BY <1>1, <1>2 DEF PaidFor
<1> QED BY <1>3 DEF ClerkSound

LEMMA RenewedStays ==
  ASSUME RenewedPaid, InvoicesKept, renewed' = renewed PROVE RenewedPaid'
<1>1. ASSUME NEW e \in renewed PROVE PaidFor(e[1])'
  BY PaidStays DEF RenewedPaid
<1> QED BY <1>1 DEF RenewedPaid

LEMMA OffSound ==
  ASSUME NEW c, clerk'[c] = Subscription!Off
  PROVE  ClerkSound(c)' /\ AloneSound(c)' /\ clerk'[c].op = "off"
<1>1. clerk'[c].op = "off"
  BY DEF Subscription!Off
<1> QED BY <1>1 DEF ClerkSound, AloneSound

\* A request ends.
LEMMA BillingEnds ==
  ASSUME BillingInv, NEW c \in Clerks, clerk[c].op # "off", Subscription!End(c), BillingTyped', InvoicesKept, RenewedPaid',
         ~crossed => BilledOnce' /\ CreditKept'
  PROVE  BillingInv'
<1>1. clerk'[c] = Subscription!Off /\ crossed' = crossed /\ \A d \in Clerks \ {c} : clerk'[d] = clerk[d]
  BY DEF Subscription!End, BillingInv, BillingTyped
<1>2. ASSUME NEW d \in Clerks PROVE ClerkSound(d)'
  BY <1>1, ClerkSame, OffSound DEF BillingInv
<1>3. ASSUME ~crossed, NEW d \in Clerks PROVE AloneSound(d)' /\ clerk'[d].op = "off"
  <2>1. CASE d = c
    BY <1>1, <2>1, OffSound
  <2>2. CASE d # c
    <3>1. clerk[d].op = "off" /\ ClerkSound(d)
      BY <1>3, <2>2 DEF BillingInv
    <3>2. clerk'[d] = Subscription!Off
      BY <1>1, <2>2, <3>1 DEF ClerkSound
    <3> QED BY <3>2, OffSound
  <2> QED BY <2>1, <2>2
<1> QED BY <1>1, <1>2, <1>3 DEF BillingInv

billingRows == <<sub, contract, invoices, renewed, unspent>>

\* A request begins.
LEMMA BillingBegins ==
  ASSUME BillingInv, NEW c \in Clerks, NEW r, Subscription!Begin(c, r), UNCHANGED <<billingRows, begun, checkouts>>, ClerkSound(c)', AloneSound(c)'
  PROVE  BillingInv'
<1>1. /\ sub' = sub /\ contract' = contract /\ invoices' = invoices /\ renewed' = renewed /\ unspent' = unspent
      /\ begun' = begun /\ checkouts' = checkouts
  BY DEF billingRows
<1>2. /\ clerk'[c] = r /\ DOMAIN clerk' = Clerks /\ \A d \in Clerks \ {c} : clerk'[d] = clerk[d]
      /\ clerk[c] = Subscription!Off /\ (~crossed' => ~crossed /\ \A d \in Clerks \ {c} : clerk[d] = Subscription!Off)
  BY DEF Subscription!Begin, BillingInv, BillingTyped
<1>3. InvoicesKept /\ BillingTyped' /\ RenewedPaid'
  BY <1>1, <1>2, RenewedStays DEF InvoicesKept, BillingInv, BillingTyped
<1>4. ASSUME NEW d \in Clerks PROVE ClerkSound(d)'
  BY <1>2, <1>3, ClerkSame DEF BillingInv
<1>5. ASSUME ~crossed' PROVE BilledOnce' /\ CreditKept'
  BY <1>1, <1>2, <1>5 DEF BillingInv, BilledOnce, CreditKept
<1>6. ASSUME ~crossed', NEW d \in Clerks, d # c PROVE clerk'[d] = Subscription!Off
  BY <1>2, <1>6
<1>7. ASSUME ~crossed', NEW d \in Clerks, d # c PROVE AloneSound(d)' /\ clerk'[d].op = "off"
  BY <1>6, <1>7, OffSound
<1>8. ASSUME ~crossed', NEW d \in Clerks PROVE AloneSound(d)'
  BY <1>7, <1>8
<1> QED BY <1>3, <1>4, <1>5, <1>7, <1>8 DEF BillingInv

\* Time passes, a customer pays: no request goes on.
LEMMA BillingWaits ==
  ASSUME BillingInv, BillingTyped', clerk' = clerk, crossed' = crossed, invoices' = invoices, renewed' = renewed, unspent' = unspent,
         sub'.period = sub.period, contract' = contract
  PROVE  BillingInv'
<1>1. InvoicesKept /\ RenewedPaid'
  BY RenewedStays DEF InvoicesKept, BillingInv
<1>2. ASSUME NEW d \in Clerks PROVE ClerkSound(d)'
  BY <1>1, ClerkSame DEF BillingInv
<1>3. ASSUME NEW d \in Clerks, AloneSound(d) PROVE AloneSound(d)'
  BY <1>3 DEF AloneSound, Unbilled
<1>4. ASSUME ~crossed PROVE BilledOnce' /\ CreditKept'
  BY <1>4 DEF BillingInv, BilledOnce, CreditKept
<1> QED BY <1>1, <1>2, <1>3, <1>4 DEF BillingInv

\* A payment is marked on an invoice, if it exists.
LEMMA PaidRows ==
  ASSUME invoices \in Seq(Bills), NEW i, invoices' = Subscription!Paid(i)
  PROVE  /\ invoices' \in Seq(Bills) /\ DOMAIN invoices' = DOMAIN invoices /\ InvoicesKept
<1>1. DOMAIN invoices = 1..Len(invoices)
  OBVIOUS
<1>2. CASE i \in DOMAIN invoices
  <2>1. PICK n : n = [invoices[i] EXCEPT !.status = "paid"]
    OBVIOUS
  <2>2. n \in Bills /\ n.period = invoices[i].period /\ n.status = "paid"
    <3>1. invoices[i] \in Bills
      BY <1>2
    <3> QED BY <2>1, <3>1 DEF Bills
  <2>3. invoices' = [invoices EXCEPT ![i] = n]
    BY <2>1 DEF Subscription!Paid
  <2>4. /\ invoices' \in Seq(Bills) /\ Len(invoices') = Len(invoices)
        /\ \A j \in 1..Len(invoices) : invoices'[j] = IF j = i THEN n ELSE invoices[j]
    BY <1>1, <1>2, <2>2, <2>3, ExceptSeq
  <2> QED BY <1>1, <2>2, <2>4 DEF InvoicesKept
<1>3. CASE i \notin DOMAIN invoices
  <2>1. invoices' = invoices
    BY <1>3 DEF Subscription!Paid
  <2> QED BY <2>1 DEF InvoicesKept
<1> QED BY <1>2, <1>3

LEMMA OnceStays ==
  ASSUME BilledOnce, InvoicesKept, DOMAIN invoices' = DOMAIN invoices PROVE BilledOnce'
BY DEF BilledOnce, InvoicesKept

LEMMA StoredSub ==
  ASSUME sub \in Subs, NEW old, NEW new \in Subs PROVE Subscription!Stored(old, new) \in Subs
<1>1. PICK status, period, grace :
        /\ status = (IF new.status # old.status THEN new.status ELSE sub.status)
        /\ period = (IF new.period # old.period THEN new.period ELSE sub.period)
        /\ grace = (IF new.grace = "new" THEN "running" ELSE IF new.grace # old.grace THEN new.grace ELSE sub.grace)
  OBVIOUS
<1>2. status \in Statuses /\ period \in Nat /\ grace \in {"none", "new", "running", "over"}
  BY <1>1, SubFields
<1>3. Subscription!Stored(old, new) = [status |-> status, period |-> period, grace |-> grace]
  BY <1>1 DEF Subscription!Stored
<1> QED BY <1>2, <1>3 DEF Subs

LEMMA ActivatedSub ==
  ASSUME NEW s \in Subs
  PROVE  /\ Subscription!Activated(s) \in Subs /\ Subscription!Overdue(s) \in Subs
         /\ [s EXCEPT !.status = "canceled"] \in Subs /\ [s EXCEPT !.status = "canceled", !.grace = "none"] \in Subs
BY DEF Subs, Statuses, Subscription!Activated, Subscription!Overdue

\* A request ends, having set columns of the subscription and marked payments.
LEMMA PaymentEnds ==
  ASSUME BillingInv, NEW c \in Clerks, clerk[c].op # "off", Subscription!End(c),
         sub' \in Subs, begun' \in Nat, checkouts' \in Seq([invoice : Nat, paid : BOOLEAN]),
         contract' = contract, renewed' = renewed, unspent' = unspent,
         invoices' = invoices \/ \E i : invoices' = Subscription!Paid(i)
  PROVE  BillingInv'
<1>1. invoices \in Seq(Bills)
  BY DEF BillingInv, BillingTyped
<1>2. /\ invoices' \in Seq(Bills) /\ DOMAIN invoices' = DOMAIN invoices /\ InvoicesKept
  <2>1. CASE invoices' = invoices
    BY <1>1, <2>1 DEF InvoicesKept
  <2>2. CASE \E i : invoices' = Subscription!Paid(i)
    BY <1>1, <2>2, PaidRows
  <2> QED BY <2>1, <2>2
<1>3. RenewedPaid'
  BY <1>2, RenewedStays DEF BillingInv
<1>4. ~crossed => BilledOnce' /\ CreditKept'
  BY <1>2, OnceStays DEF BillingInv, CreditKept
<1>5. BillingTyped'
  BY <1>2 DEF BillingInv, BillingTyped, Subscription!End
<1> QED BY <1>2, <1>3, <1>4, <1>5, BillingEnds

LEMMA AddedInvoice ==
  ASSUME invoices \in Seq(Bills), NEW p \in Nat, NEW status \in {"open", "paid"},
         invoices' = Append(invoices, Subscription!Invoice(p, status))
  PROVE  /\ invoices' \in Seq(Bills) /\ InvoicesKept
         /\ status = "paid" => PaidFor(p)'
         /\ BilledOnce /\ Unbilled(p) => BilledOnce'
<1>1. PICK n : n = Subscription!Invoice(p, status)
  OBVIOUS
<1>2. n \in Bills /\ n.period = p /\ n.status = status
  BY <1>1 DEF Subscription!Invoice, Bills
<1>3. /\ invoices' \in Seq(Bills) /\ Len(invoices') = Len(invoices) + 1 /\ invoices'[Len(invoices) + 1] = n
      /\ \A j \in 1..Len(invoices) : invoices'[j] = invoices[j]
  BY <1>1, <1>2, AppendProperties
<1>4. DOMAIN invoices = 1..Len(invoices) /\ DOMAIN invoices' = 1..(Len(invoices) + 1) /\ Len(invoices) \in Nat
  BY <1>3
<1>5. InvoicesKept
  BY <1>3, <1>4 DEF InvoicesKept
<1>6. status = "paid" => PaidFor(p)'
  BY <1>2, <1>3, <1>4 DEF PaidFor
<1>7. BilledOnce /\ Unbilled(p) => BilledOnce'
  <2> SUFFICES ASSUME BilledOnce, Unbilled(p), NEW i \in DOMAIN invoices', NEW j \in DOMAIN invoices',
                      invoices'[i].period = invoices'[j].period
               PROVE  i = j
    BY DEF BilledOnce
  <2>1. \A k \in DOMAIN invoices' : k \in DOMAIN invoices \/ k = Len(invoices) + 1
    BY <1>4
  <2>2. CASE i \in DOMAIN invoices /\ j \in DOMAIN invoices
    BY <1>3, <1>4, <2>2 DEF BilledOnce
  <2>3. CASE i \in DOMAIN invoices /\ j = Len(invoices) + 1
    BY <1>2, <1>3, <1>4, <2>3 DEF Unbilled
  <2>4. CASE j \in DOMAIN invoices /\ i = Len(invoices) + 1
    BY <1>2, <1>3, <1>4, <2>4 DEF Unbilled
  <2> QED BY <2>1, <2>2, <2>3, <2>4
<1> QED BY <1>3, <1>5, <1>6, <1>7

LEMMA NothingFound ==
  ASSUME NEW p, 0 \in Subscription!Found(p), invoices \in Seq(Bills) PROVE Unbilled(p)
<1>1. 0 \notin DOMAIN invoices
  OBVIOUS
<1> QED BY <1>1 DEF Subscription!Found, Unbilled

LEMMA FoundRow ==
  ASSUME NEW p, NEW i \in Subscription!Found(p), i # 0 PROVE i \in DOMAIN invoices /\ invoices[i].period = p
BY DEF Subscription!Found

LEMMA FollowingNat ==
  ASSUME BillingTyped, NEW p PROVE Subscription!Following(p) \in Nat
<1>1. CASE \E e \in renewed : e[1] = p
  <2>1. PICK e : e = CHOOSE f \in renewed : f[1] = p
    OBVIOUS
  <2>2. e \in renewed /\ e \in Nat \X Nat
    BY <1>1, <2>1 DEF BillingTyped
  <2>3. Subscription!Following(p) = e[2]
    BY <1>1, <2>1 DEF Subscription!Following
  <2> QED BY <2>2, <2>3
<1>2. CASE ~\E e \in renewed : e[1] = p
  BY <1>2 DEF Subscription!Following, BillingTyped
<1> QED BY <1>1, <1>2

LEMMA GreaterOf ==
  ASSUME NEW m \in Nat, NEW n \in Nat PROVE Subscription!Max({m, n}) \in Nat
<1>1. \E x \in {m, n} : \A y \in {m, n} : x >= y
  <2>1. CASE m >= n
    BY <2>1
  <2>2. CASE ~(m >= n)
    BY <2>2
  <2> QED BY <2>1, <2>2
<1>2. Subscription!Max({m, n}) \in {m, n}
  BY <1>1 DEF Subscription!Max
<1> QED BY <1>2

LEMMA CycleSub ==
  ASSUME BillingTyped, NEW r \in Cycles PROVE Subscription!Cycled(r) \in Subs
<1>1. r.sub \in Subs
  BY DEF Cycles
<1>2. PICK s, n : s = Subscription!Activated(r.sub) /\ n = Subscription!Following(r.sub.period)
  OBVIOUS
<1>3. s \in Subs /\ n \in Nat
  BY <1>1, <1>2, ActivatedSub, FollowingNat
<1>4. [s EXCEPT !.period = n] \in Subs
  BY <1>3 DEF Subs
<1> QED BY <1>1, <1>2, <1>4, ActivatedSub DEF Subscription!Cycled

\* The commit of a billing cycle.
LEMMA CycleKeeps ==
  ASSUME BillingInv, NEW c \in Clerks, Subscription!Cycle(c) PROVE BillingInv'
<1>1. PICK r : r = clerk[c]
  OBVIOUS
<1>2. /\ r.op = "cycle" /\ Subscription!End(c) /\ sub' = Subscription!Stored(r.sub, Subscription!Cycled(r))
      /\ r.bill = "none" => invoices' = invoices
      /\ r.bill # "none" => invoices' = Append(invoices, Subscription!Invoice(r.sub.period, r.bill))
      /\ r.draw = 0 => contract' = contract
      /\ r.draw # 0 => contract' = [contract EXCEPT !.credit = r.contract.credit - r.draw]
      /\ unspent' = unspent - r.draw /\ checkouts' = checkouts
      /\ Subscription!Renews(r) => /\ begun' = Subscription!Max({begun, Subscription!Following(r.sub.period)})
                                   /\ renewed' = renewed \cup {<<r.sub.period, Subscription!Following(r.sub.period)>>}
      /\ ~Subscription!Renews(r) => begun' = begun /\ renewed' = renewed
  BY <1>1 DEF Subscription!Cycle
<1>3. BillingTyped /\ ClerkSound(c) /\ RenewedPaid
  BY DEF BillingInv
<1>4. /\ sub \in Subs /\ contract \in Contracts /\ invoices \in Seq(Bills) /\ begun \in Nat /\ unspent \in Int
      /\ renewed \subseteq Nat \X Nat
  BY <1>3 DEF BillingTyped
<1>5. /\ r \in Cycles /\ (r.bill = "none" => r.draw = 0) /\ (r.bill # "none" => r.status = r.bill)
      /\ r.bill = "none" /\ r.status = "paid" => PaidFor(r.sub.period)
  BY <1>1, <1>2, <1>3 DEF ClerkSound
<1>6. r.sub \in Subs /\ r.sub.period \in Nat /\ r.draw \in Nat /\ r.bill \in {"none", "open", "paid"} /\ r.contract.credit \in Int
  BY <1>5 DEF Cycles, Subs, Contracts
<1>7. /\ invoices' \in Seq(Bills) /\ InvoicesKept
      /\ r.status = "paid" => PaidFor(r.sub.period)'
      /\ r.bill = "none" /\ BilledOnce => BilledOnce'
      /\ r.bill # "none" /\ BilledOnce /\ Unbilled(r.sub.period) => BilledOnce'
  <2>0. PICK p : p = r.sub.period
    OBVIOUS
  <2>1. CASE r.bill = "none"
    <3>1. invoices' = invoices
      BY <1>2, <2>1
    <3>2. InvoicesKept
      BY <3>1 DEF InvoicesKept
    <3>3. r.status = "paid" => PaidFor(p)'
      BY <1>5, <2>0, <2>1, <3>1 DEF PaidFor
    <3>4. BilledOnce => BilledOnce'
      BY <3>1 DEF BilledOnce
    <3> QED BY <1>4, <2>0, <2>1, <3>1, <3>2, <3>3, <3>4 DEF PaidFor
  <2>2. CASE r.bill # "none"
    <3>1. r.bill \in {"open", "paid"} /\ p \in Nat /\ invoices' = Append(invoices, Subscription!Invoice(p, r.bill))
      BY <1>2, <1>6, <2>0, <2>2
    <3>2. /\ invoices' \in Seq(Bills) /\ InvoicesKept /\ (r.bill = "paid" => PaidFor(p)')
          /\ BilledOnce /\ Unbilled(p) => BilledOnce'
      BY <1>4, <3>1, AddedInvoice
    <3> QED BY <1>5, <2>0, <2>2, <3>2 DEF PaidFor
  <2> QED BY <2>1, <2>2
<1>8. /\ contract' \in Contracts /\ (r.draw = 0 => contract' = contract)
      /\ r.draw # 0 => contract'.credit = r.contract.credit - r.draw
  BY <1>2, <1>4, <1>6 DEF Contracts
<1>9. sub' \in Subs
  BY <1>2, <1>3, <1>4, <1>5, CycleSub, StoredSub
<1>10. unspent' \in Int /\ DOMAIN clerk' = Clerks
  BY <1>2, <1>3, <1>4, <1>6 DEF Subscription!End, BillingTyped
<1>11. begun' \in Nat /\ renewed' \subseteq Nat \X Nat
  BY <1>2, <1>3, <1>4, <1>6, FollowingNat, GreaterOf
<1>12. RenewedPaid'
  <2>1. ASSUME NEW e \in renewed PROVE PaidFor(e[1])'
    BY <1>3, <1>7, PaidStays DEF RenewedPaid
  <2>2. CASE Subscription!Renews(r)
    <3>1. PICK p, n : p = r.sub.period /\ n = Subscription!Following(r.sub.period)
      OBVIOUS
    <3>2. PaidFor(p)' /\ renewed' = renewed \cup {<<p, n>>}
      BY <1>2, <1>7, <2>2, <3>1 DEF Subscription!Renews, PaidFor
    <3>3. <<p, n>>[1] = p
      OBVIOUS
    <3> QED BY <2>1, <3>2, <3>3 DEF RenewedPaid, PaidFor
  <2>3. CASE ~Subscription!Renews(r)
    BY <1>2, <2>1, <2>3 DEF RenewedPaid
  <2> QED BY <2>2, <2>3
<1>13. ASSUME ~crossed PROVE BilledOnce' /\ CreditKept'
  <2>1. BilledOnce /\ CreditKept /\ AloneSound(c)
    BY <1>13 DEF BillingInv
  <2>2. r.bill # "none" => /\ Unbilled(r.sub.period) /\ r.contract.credit = contract.credit
                           /\ r.draw <= contract.credit \/ r.draw = 0
    BY <1>1, <1>2, <2>1 DEF AloneSound
  <2>3. BilledOnce'
    BY <1>7, <2>1, <2>2
  <2>4. contract.credit \in Int /\ contract'.credit = contract.credit - r.draw
    BY <1>4, <1>5, <1>6, <1>8, <2>2 DEF Contracts
  <2>5. contract'.credit = unspent' /\ unspent' >= 0
    <3>1. contract.credit = unspent /\ unspent >= 0 /\ (r.draw <= contract.credit \/ r.draw = 0)
      BY <1>5, <2>1, <2>2 DEF CreditKept
    <3> QED BY <1>2, <1>4, <1>6, <2>4, <3>1
  <2> QED BY <2>1, <2>3, <2>5 DEF CreditKept
<1>14. BillingTyped'
  BY <1>2, <1>3, <1>7, <1>8, <1>9, <1>10, <1>11 DEF BillingTyped
<1> QED BY <1>1, <1>2, <1>7, <1>12, <1>13, <1>14, BillingEnds

\* A billing cycle prepares the invoice, and reads everything again.
LEMMA CycleBillKeeps ==
  ASSUME BillingInv, NEW c \in Clerks, NEW charge \in Charges, Subscription!CycleBill(c, charge) PROVE BillingInv'
<1>1. PICK r, draw : r = clerk[c] /\ draw = Subscription!Min({charge, Subscription!Max({0, r.contract.credit})})
  OBVIOUS
<1>2. PICK status : status = IF charge - draw > 0 THEN "open" ELSE "paid"
  OBVIOUS
<1>3. PICK ended : ended = (r.ended /\ sub.period = r.sub.period)
  OBVIOUS
<1>4. PICK n : n = [r EXCEPT !.op = "cycle", !.sub = sub, !.contract = contract, !.bill = status, !.draw = draw,
                             !.status = status, !.ended = ended]
  OBVIOUS
<1>5. /\ r.op = "bill" /\ clerk' = [clerk EXCEPT ![c] = n] /\ UNCHANGED <<billingRows, begun, checkouts>> /\ crossed' = crossed
  BY <1>1, <1>2, <1>3, <1>4 DEF Subscription!CycleBill, billingRows, Subscription!money
<1>6. BillingTyped /\ ClerkSound(c) /\ sub \in Subs /\ contract \in Contracts /\ DOMAIN clerk = Clerks
  BY DEF BillingInv, BillingTyped
<1>7. r \in Cycles /\ r.contract.credit \in Int
  BY <1>1, <1>5, <1>6 DEF ClerkSound, Cycles, Contracts
<1>8. draw \in Nat /\ (draw <= r.contract.credit \/ draw = 0) /\ status \in {"open", "paid"} /\ ended \in BOOLEAN
  BY <1>1, <1>2, <1>3, <1>7, AmountsAssumption, DrawFacts
<1>9. n = [op |-> "cycle", sub |-> sub, contract |-> contract, ended |-> ended, bill |-> status, draw |-> draw, status |-> status]
  BY <1>4, <1>7 DEF Cycles
<1>10. n \in Cycles /\ n.op = "cycle" /\ n.sub = sub /\ n.contract = contract /\ n.bill = status /\ n.status = status /\ n.draw = draw
  BY <1>6, <1>8, <1>9 DEF Cycles
<1>11. clerk'[c] = n /\ DOMAIN clerk' = Clerks /\ \A d \in Clerks \ {c} : clerk'[d] = clerk[d]
  BY <1>5, <1>6
<1>12. InvoicesKept /\ BillingTyped' /\ RenewedPaid'
  BY <1>5, <1>6, <1>11, RenewedStays DEF InvoicesKept, BillingInv, BillingTyped, billingRows
<1>13. ClerkSound(c)'
  BY <1>8, <1>10, <1>11 DEF ClerkSound
<1>14. ASSUME NEW d \in Clerks PROVE ClerkSound(d)'
  BY <1>11, <1>12, <1>13, ClerkSame DEF BillingInv
<1>15. ASSUME ~crossed
       PROVE  /\ BilledOnce' /\ CreditKept' /\ \A d \in Clerks : AloneSound(d)'
              /\ \A d, e \in Clerks : clerk'[d].op # "off" /\ clerk'[e].op # "off" => d = e
  <2>1. BilledOnce' /\ CreditKept'
    BY <1>5, <1>15 DEF BillingInv, BilledOnce, CreditKept, billingRows
  <2>2. /\ Unbilled(sub.period) /\ r.sub.period = sub.period /\ r.contract.credit = contract.credit
    BY <1>1, <1>5, <1>15 DEF BillingInv, AloneSound
  <2>3. ASSUME NEW d \in Clerks, d # c PROVE clerk'[d] = Subscription!Off
    BY <1>1, <1>5, <1>11, <1>15, <2>3 DEF BillingInv, ClerkSound
  <2>4. ASSUME NEW d \in Clerks, d # c PROVE AloneSound(d)' /\ clerk'[d].op = "off"
    BY <2>3, <2>4, OffSound
  <2>5. sub' = sub /\ contract' = contract /\ (Unbilled(sub.period)' = Unbilled(sub.period))
    BY <1>5 DEF Unbilled, billingRows
  <2>6. AloneSound(c)'
    BY <1>8, <1>10, <1>11, <2>2, <2>5 DEF AloneSound
  <2> QED BY <2>1, <2>4, <2>6
<1> QED BY <1>5, <1>12, <1>14, <1>15 DEF BillingInv

LEMMA BillingStart == Subscription!Init => BillingInv
<1> SUFFICES ASSUME Subscription!Init PROVE BillingInv
  OBVIOUS
<1>1. /\ sub = Subscription!NoSub /\ contract \in [renew : {TRUE}, credit : Credits] /\ invoices = <<>> /\ checkouts = <<>>
      /\ clerk = [c \in Clerks |-> Subscription!Off] /\ begun = 0 /\ renewed = {} /\ unspent = contract.credit
  BY DEF Subscription!Init
<1>2. contract \in Contracts /\ contract.credit \in Credits /\ contract.credit \in Int
  <2>1. Credits \subseteq Int
    BY AmountsAssumption
  <2> QED BY <1>1, <2>1 DEF Contracts
<1>3. sub \in Subs
  BY <1>1 DEF Subscription!NoSub, Subs, Statuses
<1>4. BillingTyped
  BY <1>1, <1>2, <1>3 DEF BillingTyped
<1>5. RenewedPaid /\ BilledOnce
  BY <1>1 DEF RenewedPaid, BilledOnce
<1>6. CreditKept
  <2>1. contract.credit \in Nat
    BY <1>2, AmountsAssumption
  <2> QED BY <1>1, <2>1 DEF CreditKept
<1>7. ASSUME NEW c \in Clerks PROVE ClerkSound(c) /\ AloneSound(c) /\ clerk[c].op = "off"
  <2>1. clerk[c] = Subscription!Off /\ clerk[c].op = "off"
    BY <1>1 DEF Subscription!Off
  <2> QED BY <2>1 DEF ClerkSound, AloneSound
<1> QED BY <1>4, <1>5, <1>6, <1>7 DEF BillingInv

\* A request that begins with a loaded subscription and makes no invoice.
LEMMA PlainBegins ==
  ASSUME BillingInv, NEW c \in Clerks, NEW r, Subscription!Begin(c, r), UNCHANGED <<billingRows, begun, checkouts>>,
         r.op \in {"assign", "mark", "notice", "checkout", "callback"}, r.op # "checkout" => r.sub = sub,
         r.op = "assign" => r.status \in Statuses, r.op = "checkout" => r.invoice \in Nat
  PROVE  BillingInv'
<1>1. clerk'[c] = r /\ sub \in Subs
  BY DEF Subscription!Begin, BillingInv, BillingTyped
<1>2. ClerkSound(c)' /\ AloneSound(c)'
  BY <1>1 DEF ClerkSound, AloneSound
<1> QED BY <1>2, BillingBegins

LEMMA CycleBegins ==
  ASSUME BillingInv, NEW c \in Clerks, Subscription!CycleBegin(c) PROVE BillingInv'
<1>1. PICK i, op, ended, status :
        /\ i \in Subscription!Found(sub.period)
        /\ Subscription!Begin(c, [op |-> op, sub |-> sub, contract |-> contract, ended |-> ended,
                                  bill |-> "none", draw |-> 0, status |-> status])
        /\ op = (IF Subscription!Due(i) THEN "bill" ELSE "cycle") /\ ended = (when = "ended")
        /\ status = (IF i = 0 THEN "none" ELSE invoices[i].status)
  BY DEF Subscription!CycleBegin
<1>2. PICK r : r = [op |-> op, sub |-> sub, contract |-> contract, ended |-> ended, bill |-> "none", draw |-> 0, status |-> status]
  OBVIOUS
<1>3. UNCHANGED <<billingRows, begun, checkouts>>
  BY DEF Subscription!CycleBegin, billingRows, Subscription!money
<1>4. BillingTyped /\ sub \in Subs /\ contract \in Contracts /\ invoices \in Seq(Bills) /\ DOMAIN clerk = Clerks
  BY DEF BillingInv, BillingTyped
<1>5. i # 0 => i \in DOMAIN invoices /\ invoices[i].period = sub.period
  BY <1>1, FoundRow
<1>6. status \in {"none", "open", "paid"} /\ (status = "paid" => PaidFor(sub.period))
  <2>1. CASE i = 0
    BY <1>1, <2>1
  <2>2. CASE i # 0
    <3>1. invoices[i] \in Bills /\ status = invoices[i].status
      BY <1>1, <1>4, <1>5, <2>2
    <3> QED BY <1>5, <2>2, <3>1 DEF Bills, PaidFor
  <2> QED BY <2>1, <2>2
<1>7. op \in {"bill", "cycle"} /\ ended \in BOOLEAN
  BY <1>1
<1>8. op = "bill" => Unbilled(sub.period)
  BY <1>1, <1>4, NothingFound DEF Subscription!Due
<1>9. /\ r \in Cycles /\ r.op = op /\ r.sub = sub /\ r.contract = contract /\ r.bill = "none" /\ r.draw = 0 /\ r.status = status
  BY <1>2, <1>4, <1>6, <1>7 DEF Cycles
<1>10. Subscription!Begin(c, r)
  BY <1>1, <1>2
<1>11. clerk'[c] = r
  BY <1>4, <1>10 DEF Subscription!Begin
<1>12. sub' = sub /\ contract' = contract /\ invoices' = invoices
  BY <1>3 DEF billingRows
<1>13. PaidFor(sub.period)' = PaidFor(sub.period) /\ Unbilled(sub.period)' = Unbilled(sub.period)
  BY <1>12 DEF PaidFor, Unbilled
<1>14. ClerkSound(c)'
  <2>1. PaidFor(clerk[c].sub.period)' = PaidFor(sub.period)'
    BY <1>9, <1>11, <1>12
  <2> QED BY <1>6, <1>7, <1>9, <1>11, <1>13, <2>1 DEF ClerkSound
<1>15. AloneSound(c)'
  BY <1>7, <1>8, <1>9, <1>11, <1>12, <1>13 DEF AloneSound
<1> QED BY <1>3, <1>10, <1>14, <1>15, BillingBegins

LEMMA GenerateKeeps ==
  ASSUME BillingInv, NEW c \in Clerks, Subscription!Generate(c) PROVE BillingInv'
<1>1. /\ clerk[c].op = "generate" /\ Subscription!End(c) /\ invoices' = Append(invoices, Subscription!Invoice(sub.period, "open"))
      /\ sub' = sub /\ contract' = contract /\ begun' = begun /\ renewed' = renewed /\ unspent' = unspent /\ checkouts' = checkouts
  BY DEF Subscription!Generate, Subscription!money
<1>2. invoices \in Seq(Bills) /\ sub.period \in Nat
  BY DEF BillingInv, BillingTyped, Subs
<1>3. invoices' \in Seq(Bills) /\ InvoicesKept /\ (BilledOnce /\ Unbilled(sub.period) => BilledOnce')
  <2>1. PICK p : p = sub.period
    OBVIOUS
  <2> QED BY <1>1, <1>2, <2>1, AddedInvoice
<1>4. RenewedPaid'
  BY <1>1, <1>3, RenewedStays DEF BillingInv
<1>5. ~crossed => BilledOnce' /\ CreditKept'
  BY <1>1, <1>3 DEF BillingInv, AloneSound, CreditKept
<1>6. BillingTyped'
  BY <1>1, <1>3 DEF BillingInv, BillingTyped, Subscription!End
<1> QED BY <1>1, <1>3, <1>4, <1>5, <1>6, BillingEnds

LEMMA CheckoutKeeps ==
  ASSUME BillingInv, NEW c \in Clerks, Subscription!Checkout(c) PROVE BillingInv'
<1>1. PICK i, k : i = clerk[c].invoice /\ k = Len(checkouts')
  OBVIOUS
<1>2. /\ clerk[c].op = "checkout" /\ Subscription!End(c) /\ checkouts' = Append(checkouts, [invoice |-> i, paid |-> FALSE])
      /\ invoices' = [invoices EXCEPT ![i].token = k]
      /\ sub' = sub /\ contract' = contract /\ begun' = begun /\ renewed' = renewed /\ unspent' = unspent
  BY <1>1 DEF Subscription!Checkout, Subscription!money
<1>3. invoices \in Seq(Bills) /\ checkouts \in Seq([invoice : Nat, paid : BOOLEAN]) /\ i \in Nat
  BY <1>1, <1>2 DEF BillingInv, BillingTyped, ClerkSound
<1>4. [invoice |-> i, paid |-> FALSE] \in [invoice : Nat, paid : BOOLEAN]
  BY <1>3
<1>5. checkouts' \in Seq([invoice : Nat, paid : BOOLEAN]) /\ k \in Nat
  BY <1>1, <1>2, <1>3, <1>4, AppendProperties
<1>6. DOMAIN invoices = 1..Len(invoices)
  BY <1>3
<1>7. invoices' \in Seq(Bills) /\ DOMAIN invoices' = DOMAIN invoices /\ InvoicesKept
  <2>1. CASE i \in DOMAIN invoices
    <3>1. PICK n : n = [invoices[i] EXCEPT !.token = k]
      OBVIOUS
    <3>2. n \in Bills /\ n.period = invoices[i].period /\ n.status = invoices[i].status
      <4>1. invoices[i] \in Bills
        BY <1>3, <2>1
      <4> QED BY <1>5, <3>1, <4>1 DEF Bills
    <3>3. invoices' = [invoices EXCEPT ![i] = n]
      BY <1>2, <3>1
    <3>4. /\ invoices' \in Seq(Bills) /\ Len(invoices') = Len(invoices)
          /\ \A j \in 1..Len(invoices) : invoices'[j] = IF j = i THEN n ELSE invoices[j]
      BY <1>3, <1>6, <2>1, <3>2, <3>3, ExceptSeq
    <3> QED BY <1>6, <3>2, <3>4 DEF InvoicesKept
  <2>2. CASE i \notin DOMAIN invoices
    <3>1. invoices' = invoices
      BY <1>2, <1>3, <2>2
    <3> QED BY <1>3, <3>1 DEF InvoicesKept
  <2> QED BY <2>1, <2>2
<1>8. RenewedPaid'
  BY <1>2, <1>7, RenewedStays DEF BillingInv
<1>9. ~crossed => BilledOnce' /\ CreditKept'
  BY <1>2, <1>7, OnceStays DEF BillingInv, CreditKept
<1>10. BillingTyped'
  BY <1>2, <1>5, <1>7 DEF BillingInv, BillingTyped, Subscription!End
<1> QED BY <1>2, <1>7, <1>8, <1>9, <1>10, BillingEnds

\* The owner sets auto_renew or the balance.
LEMMA UpdateBegins ==
  ASSUME BillingInv, NEW c \in Clerks, NEW on \in BOOLEAN, NEW credit \in Credits \cup {contract.credit},
         Subscription!UpdateBegin(c, [renew |-> on, credit |-> credit])
  PROVE  BillingInv'
<1>1. PICK new : new = [renew |-> on, credit |-> credit]
  OBVIOUS
<1>2. PICK r : r = [op |-> "update", contract |-> contract, new |-> new]
  OBVIOUS
<1>3. Subscription!Begin(c, r) /\ UNCHANGED <<billingRows, begun, checkouts>>
  BY <1>1, <1>2 DEF Subscription!UpdateBegin, billingRows, Subscription!money
<1>4. contract \in Contracts /\ DOMAIN clerk = Clerks
  BY DEF BillingInv, BillingTyped
<1>5. new \in Contracts /\ new.credit = credit /\ (credit >= 0 \/ credit = contract.credit)
  BY <1>1, <1>4, AmountsAssumption DEF Contracts
<1>6. r.op = "update" /\ r.contract = contract /\ r.new = new
  BY <1>2
<1>7. clerk'[c] = r /\ contract' = contract
  BY <1>3, <1>4 DEF Subscription!Begin, billingRows
<1>8. ClerkSound(c)' /\ AloneSound(c)'
  BY <1>4, <1>5, <1>6, <1>7 DEF ClerkSound, AloneSound
<1> QED BY <1>3, <1>8, BillingBegins

LEMMA UpdateKeeps ==
  ASSUME BillingInv, NEW c \in Clerks, Subscription!UpdateContract(c) PROVE BillingInv'
<1>1. PICK old, new : old = clerk[c].contract /\ new = clerk[c].new
  OBVIOUS
<1>2. PICK on, credit : /\ on = (IF new.renew # old.renew THEN new.renew ELSE contract.renew)
                        /\ credit = (IF new.credit # old.credit THEN new.credit ELSE contract.credit)
  OBVIOUS
<1>3. /\ clerk[c].op = "update" /\ Subscription!End(c) /\ contract' = [renew |-> on, credit |-> credit]
      /\ unspent' = unspent + (new.credit - old.credit) /\ sub' = sub /\ invoices' = invoices /\ checkouts' = checkouts
      /\ begun' = begun /\ renewed' = renewed
  BY <1>1, <1>2 DEF Subscription!UpdateContract
<1>4. BillingTyped /\ ClerkSound(c) /\ contract \in Contracts /\ unspent \in Int /\ DOMAIN clerk = Clerks
  BY DEF BillingInv, BillingTyped
<1>5. old \in Contracts /\ new \in Contracts
  BY <1>1, <1>3, <1>4 DEF ClerkSound
<1>6. /\ old.credit \in Int /\ new.credit \in Int /\ contract.credit \in Int
      /\ new.renew \in BOOLEAN /\ contract.renew \in BOOLEAN
  BY <1>4, <1>5 DEF Contracts
<1>7. on \in BOOLEAN /\ credit \in Int
  BY <1>2, <1>6
<1>8. contract' \in Contracts /\ contract'.credit = credit /\ unspent' \in Int
  BY <1>3, <1>4, <1>6, <1>7 DEF Contracts
<1>9. BillingTyped' /\ InvoicesKept /\ RenewedPaid'
  BY <1>3, <1>4, <1>8, RenewedStays DEF BillingTyped, InvoicesKept, BillingInv, Subscription!End
<1>10. ASSUME ~crossed PROVE BilledOnce' /\ CreditKept'
  <2>1. BilledOnce /\ contract.credit = unspent /\ unspent >= 0 /\ AloneSound(c)
    BY <1>10 DEF BillingInv, CreditKept
  <2>2. old = contract /\ (new.credit >= 0 \/ new.credit = contract.credit)
    BY <1>1, <1>3, <2>1 DEF AloneSound
  <2>3. credit = new.credit
    BY <1>2, <2>2
  <2>4. credit = unspent' /\ unspent' >= 0
    BY <1>3, <1>4, <1>6, <2>1, <2>2, <2>3
  <2> QED BY <1>3, <1>8, <2>1, <2>4 DEF BilledOnce, CreditKept
<1> QED BY <1>3, <1>9, <1>10, BillingEnds

LEMMA BillingStep == BillingInv /\ [Subscription!Next]_(Subscription!billingVars) => BillingInv'
<1> SUFFICES ASSUME BillingInv, [Subscription!Next]_(Subscription!billingVars) PROVE BillingInv'
  OBVIOUS
<1>1. /\ BillingTyped /\ sub \in Subs /\ contract \in Contracts /\ invoices \in Seq(Bills) /\ begun \in Nat
      /\ checkouts \in Seq([invoice : Nat, paid : BOOLEAN])
  BY DEF BillingInv, BillingTyped
<1>2. CASE UNCHANGED Subscription!billingVars
  <2>1. /\ clerk' = clerk /\ crossed' = crossed /\ invoices' = invoices /\ renewed' = renewed /\ unspent' = unspent
        /\ sub' = sub /\ contract' = contract /\ BillingTyped'
    BY <1>1, <1>2 DEF Subscription!billingVars, BillingTyped
  <2> QED BY <2>1, BillingWaits
<1>3. ASSUME Subscription!TimePasses PROVE BillingInv'
  <2>1. /\ clerk' = clerk /\ crossed' = crossed /\ invoices' = invoices /\ renewed' = renewed /\ unspent' = unspent
        /\ contract' = contract /\ begun' = begun /\ checkouts' = checkouts
        /\ sub' = sub \/ sub' = [sub EXCEPT !.grace = "over"]
    BY <1>3 DEF Subscription!TimePasses, Subscription!money
  <2>2. sub' \in Subs /\ sub'.period = sub.period
    BY <1>1, <2>1 DEF Subs
  <2>3. BillingTyped'
    BY <1>1, <2>1, <2>2 DEF BillingTyped
  <2> QED BY <2>1, <2>2, <2>3, BillingWaits
<1>5. ASSUME NEW k \in DOMAIN checkouts, Subscription!CustomerPays(k) PROVE BillingInv'
  <2>1. /\ clerk' = clerk /\ crossed' = crossed /\ invoices' = invoices /\ renewed' = renewed /\ unspent' = unspent
        /\ sub' = sub /\ begun' = begun /\ contract' = contract /\ checkouts' = [checkouts EXCEPT ![k].paid = TRUE]
    BY <1>5 DEF Subscription!CustomerPays, Subscription!money
  <2>2. PICK n : n = [checkouts[k] EXCEPT !.paid = TRUE]
    OBVIOUS
  <2>3. n \in [invoice : Nat, paid : BOOLEAN] /\ k \in 1..Len(checkouts)
    <3>1. k \in 1..Len(checkouts) /\ checkouts[k] \in [invoice : Nat, paid : BOOLEAN]
      BY <1>1, LenProperties, ElementOfSeq
    <3>2. n = [invoice |-> checkouts[k].invoice, paid |-> TRUE] /\ checkouts[k].invoice \in Nat
      BY <2>2, <3>1
    <3> QED BY <3>1, <3>2
  <2>4. checkouts' = [checkouts EXCEPT ![k] = n]
    BY <2>1, <2>2
  <2>5. checkouts' \in Seq([invoice : Nat, paid : BOOLEAN])
    BY <1>1, <2>3, <2>4, ExceptSeq
  <2>6. BillingTyped'
    BY <1>1, <2>1, <2>5 DEF BillingTyped
  <2> QED BY <2>1, <2>6, BillingWaits
<1>6. ASSUME NEW c \in Clerks, Subscription!Request(c) PROVE BillingInv'
  <2>1. ClerkSound(c)
    BY DEF BillingInv
  <2>2. ASSUME NEW s \in {"active", "past_due", "canceled"}, Subscription!AssignBegin(c, s) PROVE BillingInv'
    <3>1. PICK r : r = [op |-> "assign", sub |-> sub, status |-> s]
      OBVIOUS
    <3>2. Subscription!Begin(c, r) /\ UNCHANGED <<billingRows, begun, checkouts>>
      BY <2>2, <3>1 DEF Subscription!AssignBegin, billingRows, Subscription!money
    <3>3. r.op = "assign" /\ r.sub = sub /\ r.status \in Statuses
      BY <3>1 DEF Statuses
    <3> QED BY <3>2, <3>3, PlainBegins
  <2>3. ASSUME NEW i \in DOMAIN invoices, Subscription!MarkPaidBegin(c, i) PROVE BillingInv'
    <3>1. PICK r : r = [op |-> "mark", sub |-> sub, invoice |-> i]
      OBVIOUS
    <3>2. Subscription!Begin(c, r) /\ UNCHANGED <<billingRows, begun, checkouts>>
      BY <2>3, <3>1 DEF Subscription!MarkPaidBegin, billingRows, Subscription!money
    <3>3. r.op = "mark" /\ r.sub = sub
      BY <3>1
    <3> QED BY <3>2, <3>3, PlainBegins
  <2>4. ASSUME NEW i \in DOMAIN invoices, Subscription!CheckoutBegin(c, i) PROVE BillingInv'
    <3>1. PICK r : r = [op |-> "checkout", invoice |-> i]
      OBVIOUS
    <3>2. Subscription!Begin(c, r) /\ UNCHANGED <<billingRows, begun, checkouts>>
      BY <2>4, <3>1 DEF Subscription!CheckoutBegin, billingRows, Subscription!money
    <3>3. r.op = "checkout" /\ r.invoice \in Nat
      BY <1>1, <3>1
    <3> QED BY <3>2, <3>3, PlainBegins
  <2>5. ASSUME NEW n \in Notices, Subscription!NoticeBegin(c, n) PROVE BillingInv'
    <3>1. PICK r : r = [op |-> "notice", notice |-> n, sub |-> sub, known |-> n.invoice \in DOMAIN invoices]
      OBVIOUS
    <3>2. Subscription!Begin(c, r) /\ UNCHANGED <<billingRows, begun, checkouts>>
      BY <2>5, <3>1 DEF Subscription!NoticeBegin, billingRows, Subscription!money
    <3>3. r.op = "notice" /\ r.sub = sub
      BY <3>1
    <3> QED BY <3>2, <3>3, PlainBegins
  <2>6. ASSUME NEW k \in DOMAIN checkouts, Subscription!CallbackBegin(c, k) PROVE BillingInv'
    <3>1. PICK r : r = [op |-> "callback", checkout |-> k, result |-> <<k, checkouts[k].paid>>, sub |-> sub,
                        first |-> <<k, checkouts[k].paid>> \notin verified]
      OBVIOUS
    <3>2. Subscription!Begin(c, r) /\ UNCHANGED <<billingRows, begun, checkouts>>
      BY <2>6, <3>1 DEF Subscription!CallbackBegin, billingRows, Subscription!money
    <3>3. r.op = "callback" /\ r.sub = sub
      BY <3>1
    <3> QED BY <3>2, <3>3, PlainBegins
  <2>7. ASSUME Subscription!GenerateBegin(c) PROVE BillingInv'
    <3>1. PICK r : r = [op |-> "generate"]
      OBVIOUS
    <3>2. Subscription!Begin(c, r) /\ UNCHANGED <<billingRows, begun, checkouts>> /\ 0 \in Subscription!Found(sub.period)
      BY <2>7, <3>1 DEF Subscription!GenerateBegin, billingRows, Subscription!money
    <3>3. clerk'[c] = r /\ r.op = "generate" /\ sub' = sub /\ invoices' = invoices
      BY <3>1, <3>2 DEF Subscription!Begin, BillingInv, BillingTyped, billingRows
    <3>4. Unbilled(sub.period)'
      BY <1>1, <3>2, <3>3, NothingFound DEF Unbilled
    <3>5. ClerkSound(c)' /\ AloneSound(c)'
      BY <3>3, <3>4 DEF ClerkSound, AloneSound
    <3> QED BY <3>2, <3>5, BillingBegins
  <2>8. ASSUME Subscription!Assign(c) PROVE BillingInv'
    <3>1. PICK r, grace : r = clerk[c] /\ grace = (IF r.status # "past_due" THEN "none" ELSE r.sub.grace)
      OBVIOUS
    <3>2. PICK new : new = [status |-> r.status, period |-> begun + 1, grace |-> grace]
      OBVIOUS
    <3>3. /\ r.op = "assign" /\ Subscription!End(c) /\ sub' = Subscription!Stored(r.sub, new) /\ begun' = begun + 1
          /\ contract' = contract /\ renewed' = renewed /\ unspent' = unspent /\ invoices' = invoices /\ checkouts' = checkouts
      BY <2>8, <3>1, <3>2 DEF Subscription!Assign
    <3>4. r.sub \in Subs /\ r.status \in Statuses
      BY <2>1, <3>1, <3>3 DEF ClerkSound
    <3>5. grace \in {"none", "new", "running", "over"} /\ begun + 1 \in Nat
      BY <1>1, <3>1, <3>4, SubFields
    <3>6. new \in Subs
      BY <3>2, <3>4, <3>5 DEF Subs
    <3> QED BY <1>1, <3>1, <3>3, <3>6, StoredSub, PaymentEnds
  <2>9. ASSUME Subscription!MarkPaid(c) PROVE BillingInv'
    <3>1. /\ clerk[c].op = "mark" /\ Subscription!End(c) /\ invoices' = Subscription!Paid(clerk[c].invoice)
          /\ sub' = Subscription!Stored(clerk[c].sub, Subscription!Activated(clerk[c].sub)) /\ begun' = begun
          /\ contract' = contract /\ renewed' = renewed /\ unspent' = unspent /\ checkouts' = checkouts
      BY <2>9 DEF Subscription!MarkPaid, Subscription!money
    <3>2. clerk[c].sub \in Subs
      BY <2>1, <3>1 DEF ClerkSound
    <3>3. sub' \in Subs
      BY <1>1, <3>1, <3>2, ActivatedSub, StoredSub
    <3> QED BY <1>1, <3>1, <3>3, PaymentEnds
  <2>10. ASSUME Subscription!NoticeApply(c) PROVE BillingInv'
    <3>1. PICK r : r = clerk[c]
      OBVIOUS
    <3>2. PICK new : new = CASE r.notice.type = "invoice.payment_failed" -> Subscription!Overdue(r.sub)
                             [] r.notice.type = "subscription.canceled" -> [r.sub EXCEPT !.status = "canceled", !.grace = "none"]
                             [] OTHER -> Subscription!Activated(r.sub)
      OBVIOUS
    <3>3. /\ r.op = "notice" /\ Subscription!End(c) /\ sub' = Subscription!Stored(r.sub, new)
          /\ invoices' = invoices \/ invoices' = Subscription!Paid(r.notice.invoice)
          /\ contract' = contract /\ renewed' = renewed /\ unspent' = unspent /\ checkouts' = checkouts /\ begun' = begun
      BY <2>10, <3>1, <3>2 DEF Subscription!NoticeApply, Subscription!money
    <3>4. r.sub \in Subs
      BY <2>1, <3>1, <3>3 DEF ClerkSound
    <3>5. new \in Subs
      BY <3>2, <3>4, ActivatedSub
    <3> QED BY <1>1, <3>1, <3>3, <3>5, StoredSub, PaymentEnds
  <2>11. ASSUME Subscription!NoticeFails(c) \/ Subscription!Abandon(c) PROVE BillingInv'
    <3>1. /\ clerk[c] # Subscription!Off \/ clerk[c].op = "notice"
          /\ Subscription!End(c) /\ invoices' = invoices /\ sub' = sub
          /\ contract' = contract /\ renewed' = renewed /\ unspent' = unspent /\ checkouts' = checkouts /\ begun' = begun
      BY <2>11 DEF Subscription!NoticeFails, Subscription!Abandon, Subscription!money
    <3>2. clerk[c].op # "off"
      BY <2>1, <3>1 DEF ClerkSound
    <3> QED BY <1>1, <3>1, <3>2, PaymentEnds
  <2>12. ASSUME Subscription!Callback(c) PROVE BillingInv'
    <3>1. PICK r : r = clerk[c]
      OBVIOUS
    <3>2. /\ r.op = "callback" /\ Subscription!End(c)
          /\ invoices' = invoices \/ invoices' = Subscription!Paid(checkouts[r.checkout].invoice)
          /\ sub' = sub \/ sub' = Subscription!Stored(r.sub, Subscription!Activated(r.sub))
          /\ contract' = contract /\ renewed' = renewed /\ unspent' = unspent /\ checkouts' = checkouts /\ begun' = begun
      BY <2>12, <3>1 DEF Subscription!Callback, Subscription!money
    <3>3. r.sub \in Subs
      BY <2>1, <3>1, <3>2 DEF ClerkSound
    <3>4. sub' \in Subs
      <4>1. Subscription!Activated(r.sub) \in Subs
        BY <3>3, ActivatedSub
      <4>2. Subscription!Stored(r.sub, Subscription!Activated(r.sub)) \in Subs
        BY <1>1, <4>1, StoredSub
      <4> QED BY <1>1, <3>2, <4>2
    <3> QED BY <1>1, <3>1, <3>2, <3>4, PaymentEnds
  <2> QED BY <1>6, <2>2, <2>3, <2>4, <2>5, <2>6, <2>7, <2>8, <2>9, <2>10, <2>11, <2>12, CycleBegins, GenerateKeeps,
            CheckoutKeeps, CycleBillKeeps, CycleKeeps, UpdateBegins, UpdateKeeps DEF Subscription!Request
<1> QED BY <1>2, <1>3, <1>5, <1>6 DEF Subscription!Next

\* No period is renewed unless an invoice of it is paid and stays so, for any number of requests at
\* once; while they come one at a time no period is billed twice and the balance is the credit granted
\* less what invoices have used (run_billing_cycle, generate_contract_invoice, generate_invoice,
\* process_payment_event, update_contract).
THEOREM BillsStaySound == Subscription!Spec => []BillsSound
<1>1. BillingInv => BillsSound
  BY DEF BillingInv, RenewedPaid, PaidFor, BilledOnce, CreditKept, BillsSound, Subscription!BillsSound
<1> QED BY <1>1, BillingStart, BillingStep, PTL DEF Subscription!Spec

-----------------------------------------------------------------------------
(* The ledger: what is dated in a locked period stays.                     *)

\* A row of the ledger, and an invoice.
Dated(x) == x.kind # "none" /\ x.month \in Months
InvoiceRow(x) ==
  /\ x = [kind |-> "invoice", total |-> x.total, status |-> x.status, sent |-> x.sent, month |-> x.month]
  /\ x.month \in Months

BankRow(x) ==
  /\ x = [kind |-> "bank", amount |-> x.amount, month |-> x.month, status |-> x.status]
  /\ x.month \in Months

LedgerTyped ==
  /\ today \in Months /\ DOMAIN entry = Clerks
  /\ payments = [i \in PayIds |-> payments[i]] /\ refunds = [i \in RefundIds |-> refunds[i]]
  /\ credits = [i \in CreditIds |-> credits[i]]
  /\ invoice = Ledger!None \/ InvoiceRow(invoice)
  /\ \A i \in PayIds : payments[i] = Ledger!None \/ Dated(payments[i])
  /\ \A i \in RefundIds : refunds[i] = Ledger!None \/ Dated(refunds[i])
  /\ \A i \in CreditIds : credits[i] = Ledger!None \/ Dated(credits[i])
  /\ bank = Ledger!None \/ BankRow(bank)

RowOps == {"pay", "reconcile", "refund", "credit", "delete_payment"}
EntryOps == RowOps \cup {"cancel", "send", "edit", "delete_invoice"}

\* A request has loaded the invoice there is; once its flush has passed, all that it will change
\* is dated in a period that was open then.
EntrySound(t) ==
  LET r == entry[t] IN
  r # Ledger!Idle =>
    /\ r = [op |-> r.op, row |-> r.row, id |-> r.id, inv |-> r.inv, flushed |-> r.flushed, new |-> r.new, open |-> r.open]
    /\ r.op \in EntryOps
    /\ InvoiceRow(r.inv) /\ (invoice # Ledger!None => r.inv.month = invoice.month)
    /\ r.op \in RowOps => Dated(r.row)
    /\ r.op = "edit" => InvoiceRow(r.row) /\ r.row.month = r.inv.month
    /\ r.op = "reconcile" => bank # Ledger!None /\ bank.month = r.row.month
    /\ r.flushed =>
         /\ InvoiceRow(r.new) /\ r.new.month = r.inv.month
         /\ r.new # r.inv => r.inv.month \in r.open
         /\ r.op \in RowOps => r.row.month \in r.open
         /\ r.op = "delete_invoice" =>
              /\ r.inv.month \in r.open
              /\ ~overlapped => /\ \A i \in Ledger!Rows(payments) : payments[i].month \in r.open
                                /\ \A i \in Ledger!Rows(credits) : credits[i].month \in r.open

LedgerAlone ==
  ~overlapped => \A t, u \in Clerks : entry[t] # Ledger!Idle /\ entry[u] # Ledger!Idle => t = u

LedgerInv == LedgerTyped /\ LedgerAlone /\ \A t \in Clerks : EntrySound(t)

LEMMA NoneKind == Ledger!None.kind = "none" /\ Ledger!Idle.op = "idle"
BY DEF Ledger!None, Ledger!Idle

LEMMA RowNotNone ==
  ASSUME NEW x, Dated(x) \/ InvoiceRow(x) \/ BankRow(x) PROVE x # Ledger!None
BY NoneKind DEF Dated, InvoiceRow, BankRow

LEMMA InvoiceSet ==
  ASSUME NEW x, InvoiceRow(x), NEW status
  PROVE  LET y == [x EXCEPT !.status = status] IN
         InvoiceRow(y) /\ y.month = x.month /\ y.status = status /\ y.total = x.total /\ y.sent = x.sent /\ (status = x.status => y = x)
<1>1. PICK total, old, sent, month : x = [kind |-> "invoice", total |-> total, status |-> old, sent |-> sent, month |-> month]
  BY DEF InvoiceRow
<1>2. [x EXCEPT !.status = status] = [kind |-> "invoice", total |-> total, status |-> status, sent |-> sent, month |-> month]
  BY <1>1
<1> QED BY <1>1, <1>2 DEF InvoiceRow

SentAs(x, status, sent) == [x EXCEPT !.status = status, !.sent = sent]

LEMMA InvoiceSent ==
  ASSUME NEW x, InvoiceRow(x), NEW status, NEW sent, NEW y, y = SentAs(x, status, sent)
  PROVE  InvoiceRow(y) /\ y.month = x.month /\ y.status = status /\ y.total = x.total /\ y.sent = sent
<1>1. PICK total, old, before, month : x = [kind |-> "invoice", total |-> total, status |-> old, sent |-> before, month |-> month]
  BY DEF InvoiceRow
<1>2. y = [kind |-> "invoice", total |-> total, status |-> status, sent |-> sent, month |-> month]
  BY <1>1 DEF SentAs
<1> QED BY <1>1, <1>2 DEF InvoiceRow

\* Only columns that differ from what was loaded are written.
LEMMA WrittenRow ==
  ASSUME NEW t, InvoiceRow(invoice), InvoiceRow(entry[t].inv), InvoiceRow(entry[t].new), entry[t].new.month = entry[t].inv.month
  PROVE  LET w == Ledger!Written(t) IN
         /\ InvoiceRow(w) /\ w.month = invoice.month
         /\ \A c \in {"total", "status", "sent"} : w[c] = IF entry[t].new[c] = entry[t].inv[c] THEN invoice[c] ELSE entry[t].new[c]
         /\ entry[t].new = entry[t].inv => w = invoice
<1>1. PICK new, inv : new = entry[t].new /\ inv = entry[t].inv
  OBVIOUS
<1>2. PICK w : w = [c \in DOMAIN invoice |-> IF new[c] = inv[c] THEN invoice[c] ELSE new[c]]
  OBVIOUS
<1>3. w = Ledger!Written(t)
  BY <1>1, <1>2 DEF Ledger!Written
<1>4. DOMAIN invoice = {"kind", "total", "status", "sent", "month"}
  BY DEF InvoiceRow
<1>5. new.kind = "invoice" /\ inv.kind = "invoice" /\ new.month = inv.month /\ invoice.kind = "invoice" /\ invoice.month \in Months
  BY <1>1 DEF InvoiceRow
<1>6. w.kind = "invoice" /\ w.month = invoice.month /\ DOMAIN w = {"kind", "total", "status", "sent", "month"}
  BY <1>2, <1>4, <1>5
<1>7. w = [kind |-> "invoice", total |-> w.total, status |-> w.status, sent |-> w.sent, month |-> w.month]
  BY <1>2, <1>6
<1>8. \A c \in {"total", "status", "sent"} : w[c] = IF new[c] = inv[c] THEN invoice[c] ELSE new[c]
  BY <1>2, <1>4
<1>9. new = inv => w.total = invoice.total /\ w.status = invoice.status /\ w.sent = invoice.sent
  BY <1>8
<1>10. new = inv => w = invoice
  BY <1>6, <1>7, <1>9 DEF InvoiceRow
<1> QED BY <1>1, <1>3, <1>5, <1>6, <1>7, <1>8, <1>10 DEF InvoiceRow

\* The invoice as a request means to write it: if it differs from what was loaded, the request is
\* about the invoice itself or assigns its status.
LEMMA AfterRow ==
  ASSUME NEW r, InvoiceRow(r.inv), r.op = "edit" => InvoiceRow(r.row) /\ r.row.month = r.inv.month
  PROVE  LET new == Ledger!InvoiceAfter(r) IN
         /\ InvoiceRow(new) /\ new.month = r.inv.month
         /\ new # r.inv => r.op \in {"cancel", "edit"} \/ Ledger!Assigned(r.inv, new.status)
<1>1. CASE r.op = "edit"
  BY <1>1 DEF Ledger!InvoiceAfter
<1>2. CASE r.op = "cancel"
  <2>1. Ledger!InvoiceAfter(r) = [r.inv EXCEPT !.status = "cancelled"]
    BY <1>2 DEF Ledger!InvoiceAfter
  <2>2. InvoiceRow([r.inv EXCEPT !.status = "cancelled"]) /\ [r.inv EXCEPT !.status = "cancelled"].month = r.inv.month
    BY InvoiceSet
  <2> QED BY <1>2, <2>1, <2>2
<1>3. CASE r.op \notin {"edit", "cancel"}
  <2>1. PICK s : s = Ledger!Synced(r.inv, Ledger!PaymentsAfter(r), Ledger!RefundsAfter(r), Ledger!CreditsAfter(r))
    OBVIOUS
  <2>2. r.inv.status = "cancelled" => s = "cancelled"
    BY <2>1 DEF Ledger!Synced
  <2>3. PICK new : new = [r.inv EXCEPT !.status = s]
    OBVIOUS
  <2>4. Ledger!InvoiceAfter(r) = new
    BY <1>3, <2>1, <2>3 DEF Ledger!InvoiceAfter
  <2>5. InvoiceRow(new) /\ new.month = r.inv.month /\ new.status = s /\ (s = r.inv.status => new = r.inv)
    BY <2>3, InvoiceSet
  <2> QED BY <2>2, <2>4, <2>5 DEF Ledger!Assigned
<1> QED BY <1>1, <1>2, <1>3

\* A request that goes on while the rows stay keeps what it knows.
LEMMA EntrySame ==
  ASSUME NEW t \in Clerks, EntrySound(t), entry'[t] = entry[t], payments' = payments, credits' = credits,
         bank' = bank \/ (bank' # Ledger!None /\ (bank # Ledger!None => bank'.month = bank.month)),
         invoice' = invoice \/ (invoice' # Ledger!None => invoice # Ledger!None /\ invoice'.month = invoice.month),
         overlapped => overlapped'
  PROVE  EntrySound(t)'
BY DEF EntrySound

\* Another request commits: then two were under way at once.
LEMMA EntryOverlapped ==
  ASSUME NEW t \in Clerks, EntrySound(t), entry'[t] = entry[t],
         bank' = bank \/ (bank' # Ledger!None /\ (bank # Ledger!None => bank'.month = bank.month)),
         invoice' = invoice \/ (invoice' # Ledger!None => invoice # Ledger!None /\ invoice'.month = invoice.month),
         overlapped'
  PROVE  EntrySound(t)'
BY DEF EntrySound

LEMMA IdleSound ==
  ASSUME NEW t, entry'[t] = Ledger!Idle PROVE EntrySound(t)'
BY DEF EntrySound

\* A request that loads the invoice.
LEMMA LoadKeeps ==
  ASSUME LedgerInv, NEW t \in Clerks, NEW op \in EntryOps, NEW row, NEW id, Ledger!Load(t, op, row, id),
         op \in RowOps => Dated(row), op = "edit" => InvoiceRow(row) /\ row.month = invoice.month,
         op = "reconcile" => bank # Ledger!None /\ bank.month = row.month
  PROVE  LedgerInv'
<1>1. PICK r : r = [op |-> op, row |-> row, id |-> id, inv |-> invoice, flushed |-> FALSE, new |-> invoice, open |-> {}]
  OBVIOUS
<1>2. /\ invoice # Ledger!None /\ entry[t] = Ledger!Idle /\ entry' = [entry EXCEPT ![t] = r]
      /\ overlapped' = (overlapped \/ \E u \in Clerks : entry[u] # Ledger!Idle)
      /\ UNCHANGED <<today, locked, expense, invoice, payments, refunds, credits, bank>>
  BY <1>1 DEF Ledger!Load, Ledger!ledger
<1>3. /\ r.op = op /\ r.row = row /\ r.id = id /\ r.inv = invoice /\ r.flushed = FALSE /\ r.new = invoice /\ r.open = {}
  BY <1>1
<1>4. LedgerTyped /\ InvoiceRow(invoice) /\ entry'[t] = r /\ DOMAIN entry' = Clerks /\ \A u \in Clerks \ {t} : entry'[u] = entry[u]
  BY <1>2 DEF LedgerInv, LedgerTyped
<1>5. LedgerTyped'
  BY <1>2, <1>4 DEF LedgerTyped
<1>6. LedgerAlone'
  <2>1. ASSUME ~overlapped', NEW u \in Clerks, entry'[u] # Ledger!Idle PROVE u = t
    BY <1>2, <1>4, <2>1
  <2> QED BY <2>1 DEF LedgerAlone
<1>7. EntrySound(t)'
  BY <1>1, <1>2, <1>3, <1>4 DEF EntrySound
<1>8. ASSUME NEW u \in Clerks PROVE EntrySound(u)'
  BY <1>2, <1>4, <1>7, EntrySame DEF LedgerInv
<1> QED BY <1>5, <1>6, <1>8 DEF LedgerInv

\* The guard lets a flush pass.
LEMMA FlushKeeps ==
  ASSUME LedgerInv, NEW t \in Clerks, Ledger!Flush(t) PROVE LedgerInv'
<1>1. PICK o, r : o = entry[t] /\ r = Ledger!Reloaded(entry[t])
  OBVIOUS
<1>2. PICK new, n : /\ o # Ledger!Idle /\ ~o.flushed /\ invoice # Ledger!None /\ Ledger!Touched(r) \cap locked = {}
                    /\ r.op # "send" => new = Ledger!InvoiceAfter(r)
                    /\ r.op = "send" => new \in {[r.inv EXCEPT !.status = "sent", !.sent = TRUE], [r.inv EXCEPT !.status = "failed"]}
                    /\ n = [r EXCEPT !.flushed = TRUE, !.open = Months \ locked, !.new = new]
                    /\ entry' = [entry EXCEPT ![t] = n]
                    /\ UNCHANGED <<today, locked, expense, requests, overlapped, invoice, payments, refunds, credits, bank>>
  BY <1>1 DEF Ledger!Flush, Ledger!ledger
<1>3. LedgerTyped /\ EntrySound(t) /\ InvoiceRow(invoice)
  BY <1>2 DEF LedgerInv, LedgerTyped
<1>4. /\ o = [op |-> o.op, row |-> o.row, id |-> o.id, inv |-> o.inv, flushed |-> o.flushed, new |-> o.new, open |-> o.open]
      /\ o.op \in EntryOps /\ InvoiceRow(o.inv) /\ o.inv.month = invoice.month
      /\ o.op \in RowOps => Dated(o.row)
      /\ o.op = "edit" => InvoiceRow(o.row) /\ o.row.month = o.inv.month
      /\ o.op = "reconcile" => bank # Ledger!None /\ bank.month = o.row.month
  BY <1>1, <1>2, <1>3 DEF EntrySound
<1>5. PICK inv : r = [op |-> o.op, row |-> o.row, id |-> o.id, inv |-> inv, flushed |-> o.flushed, new |-> o.new, open |-> o.open]
                 /\ InvoiceRow(inv) /\ inv.month = invoice.month
  <2>1. CASE o.op \in {"refund", "delete_payment"}
    <3>1. r = [o EXCEPT !.inv = invoice]
      BY <1>1, <2>1 DEF Ledger!Reloaded
    <3>2. r = [op |-> o.op, row |-> o.row, id |-> o.id, inv |-> invoice, flushed |-> o.flushed, new |-> o.new, open |-> o.open]
      BY <1>4, <3>1
    <3> QED BY <1>3, <3>2
  <2>2. CASE o.op \notin {"refund", "delete_payment"}
    <3>1. r = o
      BY <1>1, <2>2 DEF Ledger!Reloaded
    <3> QED BY <1>4, <3>1
  <2> QED BY <2>1, <2>2
<1>6. /\ r.op = o.op /\ r.row = o.row /\ r.id = o.id /\ r.inv = inv
      /\ n = [op |-> o.op, row |-> o.row, id |-> o.id, inv |-> inv, flushed |-> TRUE, new |-> new, open |-> Months \ locked]
  BY <1>2, <1>5
<1>7. /\ InvoiceRow(new) /\ new.month = inv.month
      /\ new # inv => o.op \in {"cancel", "edit", "send"} \/ (o.op # "send" /\ Ledger!Assigned(inv, Ledger!InvoiceAfter(r).status))
  <2>1. CASE o.op # "send"
    BY <1>2, <1>4, <1>5, <1>6, <2>1, AfterRow
  <2>2. CASE o.op = "send"
    <3>1. InvoiceRow([inv EXCEPT !.status = "failed"]) /\ [inv EXCEPT !.status = "failed"].month = inv.month
      BY <1>5, InvoiceSet
    <3>3. ASSUME NEW y, y = [inv EXCEPT !.status = "sent", !.sent = TRUE] PROVE InvoiceRow(y) /\ y.month = inv.month
      <4>1. PICK status, sent : y = SentAs(inv, status, sent)
        BY <3>3 DEF SentAs
      <4>2. InvoiceRow(inv)
        BY <1>5
      <4> QED BY <4>1, <4>2, InvoiceSent
    <3> QED BY <1>2, <1>6, <2>2, <3>1, <3>3
  <2> QED BY <2>1, <2>2
<1>8. inv.month \in Months /\ (new # inv \/ o.op = "delete_invoice" => inv.month \in Ledger!Touched(r))
  BY <1>5, <1>6, <1>7 DEF Ledger!Touched, InvoiceRow
<1>9. o.op \in RowOps => o.row.month \in Ledger!Touched(r) /\ o.row.month \in Months
  BY <1>4, <1>6 DEF Ledger!Touched, RowOps, Dated
<1>10. o.op = "delete_invoice" => /\ \A i \in Ledger!Rows(payments) : payments[i].month \in Ledger!Touched(r) /\ payments[i].month \in Months
                                  /\ \A i \in Ledger!Rows(credits) : credits[i].month \in Ledger!Touched(r) /\ credits[i].month \in Months
  <2>1. /\ \A i \in Ledger!Rows(payments) : payments[i].month \in Months
        /\ \A i \in Ledger!Rows(credits) : credits[i].month \in Months
    BY <1>3 DEF LedgerTyped, Ledger!Rows, Dated
  <2> QED BY <1>6, <2>1 DEF Ledger!Touched
<1>11. entry'[t] = n /\ DOMAIN entry' = Clerks /\ \A u \in Clerks \ {t} : entry'[u] = entry[u]
  BY <1>2, <1>3 DEF LedgerTyped
<1>12. LedgerTyped' /\ LedgerAlone'
  BY <1>1, <1>2, <1>3, <1>11 DEF LedgerTyped, LedgerAlone, LedgerInv
<1>13. /\ n.op = o.op /\ n.row = o.row /\ n.id = o.id /\ n.inv = inv /\ n.flushed = TRUE /\ n.new = new /\ n.open = Months \ locked
       /\ n = [op |-> n.op, row |-> n.row, id |-> n.id, inv |-> n.inv, flushed |-> n.flushed, new |-> n.new, open |-> n.open]
  BY <1>6
<1>14. /\ new # inv \/ o.op = "delete_invoice" => inv.month \in n.open
       /\ o.op \in RowOps => o.row.month \in n.open
       /\ o.op = "delete_invoice" => /\ \A i \in Ledger!Rows(payments) : payments[i].month \in n.open
                                     /\ \A i \in Ledger!Rows(credits) : credits[i].month \in n.open
  BY <1>2, <1>8, <1>9, <1>10, <1>13
<1>15. EntrySound(t)'
  BY <1>2, <1>4, <1>5, <1>7, <1>11, <1>13, <1>14 DEF EntrySound
<1>16. ASSUME NEW u \in Clerks PROVE EntrySound(u)'
  BY <1>2, <1>11, <1>15, EntrySame DEF LedgerInv
<1> QED BY <1>12, <1>16 DEF LedgerInv

\* What a request leaves of the rows.
LEMMA AfterPayments ==
  ASSUME LedgerTyped, NEW r
  PROVE  LET ps == Ledger!PaymentsAfter(r) IN
         /\ ps = [i \in PayIds |-> ps[i]]
         /\ \A i \in PayIds :
              \/ ps[i] = payments[i]
              \/ i = r.id /\ r.op \in {"pay", "reconcile"} /\ ps[i] = r.row
              \/ i = r.id /\ r.op = "delete_payment" /\ ps[i] = Ledger!None
         /\ r.op = "delete_payment" /\ r.id \in PayIds => ps[r.id] = Ledger!None
         /\ r.op \in {"pay", "reconcile"} /\ r.id \in PayIds => ps[r.id] = r.row
         /\ r.op \notin {"pay", "reconcile", "delete_payment"} => ps = payments
<1>1. payments = [i \in PayIds |-> payments[i]]
  BY DEF LedgerTyped
<1>2. CASE r.op \in {"pay", "reconcile"}
  BY <1>1, <1>2 DEF Ledger!PaymentsAfter
<1>3. CASE r.op = "delete_payment"
  BY <1>1, <1>3 DEF Ledger!PaymentsAfter
<1>4. CASE r.op \notin {"pay", "reconcile", "delete_payment"}
  BY <1>1, <1>4 DEF Ledger!PaymentsAfter
<1> QED BY <1>2, <1>3, <1>4

LEMMA AfterRefunds ==
  ASSUME LedgerTyped, NEW r
  PROVE  LET rs == Ledger!RefundsAfter(r) IN
         /\ rs = [i \in RefundIds |-> rs[i]]
         /\ \A i \in RefundIds :
              \/ rs[i] = refunds[i] /\ (r.op = "delete_payment" => refunds[i] = Ledger!None \/ refunds[i].pay # r.id)
              \/ i = r.id /\ r.op = "refund" /\ rs[i] = r.row
              \/ r.op = "delete_payment" /\ refunds[i] # Ledger!None /\ refunds[i].pay = r.id /\ rs[i] = Ledger!None
         /\ r.op = "refund" /\ r.id \in RefundIds => rs[r.id] = r.row
         /\ r.op \notin {"refund", "delete_payment"} => rs = refunds
<1>1. refunds = [i \in RefundIds |-> refunds[i]]
  BY DEF LedgerTyped
<1>2. CASE r.op = "refund"
  BY <1>1, <1>2 DEF Ledger!RefundsAfter
<1>3. CASE r.op = "delete_payment"
  BY <1>1, <1>3 DEF Ledger!RefundsAfter
<1>4. CASE r.op \notin {"refund", "delete_payment"}
  BY <1>1, <1>4 DEF Ledger!RefundsAfter
<1> QED BY <1>2, <1>3, <1>4

LEMMA AfterCredits ==
  ASSUME LedgerTyped, NEW r
  PROVE  LET cs == Ledger!CreditsAfter(r) IN
         /\ cs = [i \in CreditIds |-> cs[i]]
         /\ \A i \in CreditIds : cs[i] = credits[i] \/ (i = r.id /\ r.op = "credit" /\ cs[i] = r.row)
         /\ r.op = "credit" /\ r.id \in CreditIds => cs[r.id] = r.row
         /\ r.op # "credit" => cs = credits
<1>1. credits = [i \in CreditIds |-> credits[i]]
  BY DEF LedgerTyped
<1> QED BY <1>1 DEF Ledger!CreditsAfter

LEMMA CommitShape ==
  ASSUME LedgerInv, NEW t \in Clerks, NEW r, r = entry[t], Ledger!Commit(t)
  PROVE  /\ r # Ledger!Idle /\ r.flushed /\ Ledger!StillThere(r) /\ InvoiceRow(invoice) /\ EntrySound(t)
         /\ r.op = "delete_invoice" =>
              /\ invoice' = Ledger!None /\ payments' = [i \in PayIds |-> Ledger!None]
              /\ refunds' = [i \in RefundIds |-> Ledger!None] /\ credits' = [i \in CreditIds |-> Ledger!None]
         /\ r.op # "delete_invoice" =>
              /\ invoice' = Ledger!Written(t) /\ payments' = Ledger!PaymentsAfter(r)
              /\ refunds' = Ledger!RefundsAfter(r) /\ credits' = Ledger!CreditsAfter(r)
         /\ r.op = "reconcile" => bank' = [bank EXCEPT !.status = "matched"]
         /\ r.op # "reconcile" => bank' = bank
         /\ entry' = [entry EXCEPT ![t] = Ledger!Idle]
         /\ UNCHANGED <<today, locked, expense, requests, overlapped>>
<1>1. /\ r # Ledger!Idle /\ r.flushed /\ Ledger!StillThere(r)
      /\ r.op = "delete_invoice" =>
              /\ invoice' = Ledger!None /\ payments' = [i \in PayIds |-> Ledger!None]
              /\ refunds' = [i \in RefundIds |-> Ledger!None] /\ credits' = [i \in CreditIds |-> Ledger!None]
      /\ r.op # "delete_invoice" =>
              /\ invoice' = Ledger!Written(t) /\ payments' = Ledger!PaymentsAfter(r)
              /\ refunds' = Ledger!RefundsAfter(r) /\ credits' = Ledger!CreditsAfter(r)
      /\ r.op = "reconcile" => bank' = [bank EXCEPT !.status = "matched"]
      /\ r.op # "reconcile" => bank' = bank
      /\ entry' = [entry EXCEPT ![t] = Ledger!Idle]
      /\ UNCHANGED <<today, locked, expense, requests, overlapped>>
  BY DEF Ledger!Commit
<1>2. InvoiceRow(invoice) /\ EntrySound(t)
  BY <1>1 DEF LedgerInv, LedgerTyped, Ledger!StillThere
<1> QED BY <1>1, <1>2

LEMMA MatchedBank ==
  ASSUME NEW x, BankRow(x), NEW status, NEW b, b = [x EXCEPT !.status = status]
  PROVE  BankRow(b) /\ b.month = x.month /\ b.amount = x.amount /\ b.status = status
<1>1. PICK amount, month, old : x = [kind |-> "bank", amount |-> amount, month |-> month, status |-> old]
  BY DEF BankRow
<1>2. b = [kind |-> "bank", amount |-> amount, month |-> month, status |-> status]
  BY <1>1
<1> QED BY <1>1, <1>2 DEF BankRow

LEMMA CommitKeeps ==
  ASSUME LedgerInv, NEW t \in Clerks, Ledger!Commit(t) PROVE LedgerInv'
<1>1. PICK r : r = entry[t]
  OBVIOUS
<1>2. LedgerTyped
  BY DEF LedgerInv
<1>3. /\ r # Ledger!Idle /\ r.flushed /\ InvoiceRow(invoice) /\ InvoiceRow(r.inv) /\ InvoiceRow(r.new) /\ r.new.month = r.inv.month
      /\ r.op \in RowOps => Dated(r.row)
      /\ r.op = "reconcile" => bank # Ledger!None
  BY <1>1, CommitShape DEF EntrySound
<1>4. invoice' = Ledger!None \/ (InvoiceRow(invoice') /\ invoice'.month = invoice.month)
  BY <1>1, <1>3, CommitShape, WrittenRow
<1>5. payments' = [i \in PayIds |-> payments'[i]] /\ \A i \in PayIds : payments'[i] = Ledger!None \/ Dated(payments'[i])
  <2>1. CASE r.op = "delete_invoice"
    BY <1>1, <2>1, CommitShape
  <2>2. CASE r.op # "delete_invoice"
    <3>1. payments' = Ledger!PaymentsAfter(r)
      BY <1>1, <2>2, CommitShape
    <3> QED BY <1>2, <1>3, <3>1, AfterPayments DEF LedgerTyped, RowOps
  <2> QED BY <2>1, <2>2
<1>6. refunds' = [i \in RefundIds |-> refunds'[i]] /\ \A i \in RefundIds : refunds'[i] = Ledger!None \/ Dated(refunds'[i])
  <2>1. CASE r.op = "delete_invoice"
    BY <1>1, <2>1, CommitShape
  <2>2. CASE r.op # "delete_invoice"
    <3>1. refunds' = Ledger!RefundsAfter(r)
      BY <1>1, <2>2, CommitShape
    <3> QED BY <1>2, <1>3, <3>1, AfterRefunds DEF LedgerTyped, RowOps
  <2> QED BY <2>1, <2>2
<1>7. credits' = [i \in CreditIds |-> credits'[i]] /\ \A i \in CreditIds : credits'[i] = Ledger!None \/ Dated(credits'[i])
  <2>1. CASE r.op = "delete_invoice"
    BY <1>1, <2>1, CommitShape
  <2>2. CASE r.op # "delete_invoice"
    <3>1. credits' = Ledger!CreditsAfter(r)
      BY <1>1, <2>2, CommitShape
    <3> QED BY <1>2, <1>3, <3>1, AfterCredits DEF LedgerTyped, RowOps
  <2> QED BY <2>1, <2>2
<1>8. bank' = bank \/ (BankRow(bank') /\ bank'.month = bank.month)
  BY <1>1, <1>2, <1>3, CommitShape, MatchedBank DEF LedgerTyped
<1>9. /\ entry'[t] = Ledger!Idle /\ DOMAIN entry' = Clerks /\ \A u \in Clerks \ {t} : entry'[u] = entry[u]
      /\ UNCHANGED <<today, locked, expense, requests, overlapped>>
  BY <1>1, <1>2, CommitShape DEF LedgerTyped
<1>10. LedgerTyped'
  BY <1>2, <1>4, <1>5, <1>6, <1>7, <1>8, <1>9 DEF LedgerTyped
<1>11. LedgerAlone'
  BY <1>1, <1>9 DEF LedgerInv, LedgerAlone
<1>12. invoice # Ledger!None
  BY <1>3, RowNotNone
<1>13. bank' = bank \/ bank' # Ledger!None
  BY <1>8, RowNotNone
<1>14. ASSUME NEW u \in Clerks PROVE EntrySound(u)'
  <2>1. CASE u = t
    BY <1>9, <2>1, IdleSound
  <2>2. CASE u # t /\ entry[u] = Ledger!Idle
    BY <1>9, <2>2, IdleSound
  <2>3. CASE u # t /\ entry[u] # Ledger!Idle
    <3>1. overlapped'
      BY <1>1, <1>3, <1>9, <2>3 DEF LedgerInv, LedgerAlone
    <3> QED BY <1>4, <1>8, <1>9, <1>12, <1>13, <2>3, <3>1, EntryOverlapped DEF LedgerInv
  <2> QED BY <2>1, <2>2, <2>3
<1> QED BY <1>10, <1>11, <1>14 DEF LedgerInv

\* Steps of a single request, and of time.
LEMMA LoneKeeps ==
  ASSUME LedgerInv, entry' = entry, overlapped' = overlapped, payments' = payments, refunds' = refunds, credits' = credits,
         today' \in Months, bank' = bank \/ (BankRow(bank') /\ (bank # Ledger!None => bank'.month = bank.month)),
         invoice' = invoice \/ (InvoiceRow(invoice') /\ \A t \in Clerks : entry[t] = Ledger!Idle)
  PROVE  LedgerInv'
<1>1. LedgerTyped'
  BY DEF LedgerInv, LedgerTyped
<1>2. LedgerAlone'
  BY DEF LedgerInv, LedgerAlone
<1>3. bank' = bank \/ bank' # Ledger!None
  BY RowNotNone
<1>4. ASSUME NEW t \in Clerks PROVE EntrySound(t)'
  <2>1. CASE entry[t] = Ledger!Idle
    BY <2>1, IdleSound
  <2>2. CASE entry[t] # Ledger!Idle
    BY <1>3, <2>2, EntrySame DEF LedgerInv
  <2> QED BY <2>1, <2>2
<1> QED BY <1>1, <1>2, <1>4 DEF LedgerInv

LEMMA LedgerStart == Ledger!Init => LedgerInv
<1> SUFFICES ASSUME Ledger!Init PROVE LedgerInv
  OBVIOUS
<1>1. 1 \in Months
  <2>1. Cardinality(Months) \in Nat
    BY FS_CardinalityType, LedgerAssumption
  <2> QED BY <2>1, LedgerAssumption
<1> QED BY <1>1 DEF Ledger!Init, LedgerInv, LedgerTyped, LedgerAlone, EntrySound

LEMMA ReconcileLoads ==
  ASSUME LedgerInv, NEW t \in Clerks, Ledger!ReconcileBegin(t) PROVE LedgerInv'
<1>1. PICK amount, i, row : /\ bank # Ledger!None /\ row = [kind |-> "payment", month |-> bank.month, amount |-> amount]
                            /\ Ledger!Load(t, "reconcile", row, i)
  BY DEF Ledger!ReconcileBegin
<1>2. BankRow(bank) /\ bank.month \in Months
  BY <1>1 DEF LedgerInv, LedgerTyped, BankRow
<1>3. Dated(row) /\ row.month = bank.month
  BY <1>1, <1>2 DEF Dated
<1>4. "reconcile" \in EntryOps
  BY DEF EntryOps, RowOps
<1> QED BY <1>1, <1>3, <1>4, LoadKeeps

LEMMA EditLoads ==
  ASSUME LedgerInv, NEW t \in Clerks, NEW total, Ledger!EditBegin(t, total) PROVE LedgerInv'
<1>1. PICK row : row = [invoice EXCEPT !.total = total, !.status = "draft"] /\ invoice # Ledger!None /\ Ledger!Load(t, "edit", row, Ledger!None)
  BY DEF Ledger!EditBegin
<1>2. InvoiceRow(invoice)
  BY <1>1 DEF LedgerInv, LedgerTyped
<1>3. PICK old, status, sent, month : invoice = [kind |-> "invoice", total |-> old, status |-> status, sent |-> sent, month |-> month]
  BY <1>2 DEF InvoiceRow
<1>4. row = [kind |-> "invoice", total |-> total, status |-> "draft", sent |-> sent, month |-> month]
  BY <1>1, <1>3
<1>5. InvoiceRow(row) /\ row.month = invoice.month
  BY <1>2, <1>3, <1>4 DEF InvoiceRow
<1>6. "edit" \in EntryOps /\ "edit" \notin RowOps
  BY DEF EntryOps, RowOps
<1> QED BY <1>1, <1>5, <1>6, LoadKeeps

LEMMA OtherLoads ==
  ASSUME LedgerInv, NEW t \in Clerks,
         \/ \E a : \E m \in Months : Ledger!PayBegin(t, a, m)
         \/ \E p \in PayIds, m \in Months : \E a : Ledger!RefundBegin(t, p, a, m)
         \/ \E p \in PayIds : Ledger!DeletePaymentBegin(t, p)
         \/ \E a : Ledger!CreditBegin(t, a)
         \/ Ledger!CancelBegin(t) \/ Ledger!SendBegin(t) \/ Ledger!DeleteInvoiceBegin(t)
  PROVE  LedgerInv'
<1>1. PICK op, row, id : /\ op \in EntryOps \ {"edit", "reconcile"} /\ Ledger!Load(t, op, row, id) /\ (op \in RowOps => Dated(row))
  <2>1. ASSUME NEW a, NEW m \in Months, Ledger!PayBegin(t, a, m)
        PROVE  \E op, row, id : /\ op \in EntryOps \ {"edit", "reconcile"} /\ Ledger!Load(t, op, row, id) /\ (op \in RowOps => Dated(row))
    <3>1. PICK row, i : row = [kind |-> "payment", amount |-> a, month |-> m] /\ Ledger!Load(t, "pay", row, i)
      BY <2>1 DEF Ledger!PayBegin
    <3> QED BY <3>1 DEF Dated, EntryOps, RowOps
  <2>2. ASSUME NEW p \in PayIds, NEW a, NEW m \in Months, Ledger!RefundBegin(t, p, a, m)
        PROVE  \E op, row, id : /\ op \in EntryOps \ {"edit", "reconcile"} /\ Ledger!Load(t, op, row, id) /\ (op \in RowOps => Dated(row))
    <3>1. PICK row, i : row = [kind |-> "refund", pay |-> p, amount |-> a, month |-> m] /\ Ledger!Load(t, "refund", row, i)
      BY <2>2 DEF Ledger!RefundBegin
    <3> QED BY <3>1 DEF Dated, EntryOps, RowOps
  <2>3. ASSUME NEW p \in PayIds, Ledger!DeletePaymentBegin(t, p)
        PROVE  \E op, row, id : /\ op \in EntryOps \ {"edit", "reconcile"} /\ Ledger!Load(t, op, row, id) /\ (op \in RowOps => Dated(row))
    <3>1. Ledger!Load(t, "delete_payment", payments[p], p) /\ Dated(payments[p])
      BY <2>3 DEF Ledger!DeletePaymentBegin, LedgerInv, LedgerTyped
    <3> QED BY <3>1 DEF EntryOps, RowOps
  <2>4. ASSUME NEW a, Ledger!CreditBegin(t, a)
        PROVE  \E op, row, id : /\ op \in EntryOps \ {"edit", "reconcile"} /\ Ledger!Load(t, op, row, id) /\ (op \in RowOps => Dated(row))
    <3>1. PICK row, i : row = [kind |-> "credit", amount |-> a, month |-> today] /\ Ledger!Load(t, "credit", row, i)
      BY <2>4 DEF Ledger!CreditBegin
    <3>2. today \in Months
      BY DEF LedgerInv, LedgerTyped
    <3> QED BY <3>1, <3>2 DEF Dated, EntryOps, RowOps
  <2>5. ASSUME Ledger!CancelBegin(t) \/ Ledger!SendBegin(t) \/ Ledger!DeleteInvoiceBegin(t)
        PROVE  \E op, row, id : /\ op \in EntryOps \ {"edit", "reconcile"} /\ Ledger!Load(t, op, row, id) /\ (op \in RowOps => Dated(row))
    <3>1. \E op \in {"cancel", "send", "delete_invoice"} : Ledger!Load(t, op, Ledger!None, Ledger!None)
      BY <2>5 DEF Ledger!CancelBegin, Ledger!SendBegin, Ledger!DeleteInvoiceBegin
    <3> QED BY <3>1 DEF EntryOps, RowOps
  <2> QED BY <2>1, <2>2, <2>3, <2>4, <2>5
<1> QED BY <1>1, LoadKeeps

LEMMA LoneSteps ==
  ASSUME LedgerInv,
         \/ \E a \in Totals : Ledger!CreateInvoice(a)
         \/ \E a : \E m \in Months : Ledger!ImportBankRow(a, m)
         \/ \E m \in Months : Ledger!CreateExpense(m) \/ Ledger!ClosePeriod(m) \/ Ledger!OpenPeriod(m)
         \/ Ledger!IgnoreBankRow \/ Ledger!VoidExpense \/ Ledger!NextMonth \/ UNCHANGED Ledger!vars
  PROVE  LedgerInv'
<1>1. today \in Months
  BY DEF LedgerInv, LedgerTyped
<1>2. ASSUME NEW a \in Totals, Ledger!CreateInvoice(a) PROVE LedgerInv'
  <2>1. PICK sent, x : /\ x = [kind |-> "invoice", total |-> a, status |-> "draft", sent |-> sent, month |-> today] /\ invoice' = x
                       /\ \A t \in Clerks : entry[t] = Ledger!Idle
                       /\ UNCHANGED <<today, payments, refunds, credits, bank, entry, overlapped>>
    BY <1>2 DEF Ledger!CreateInvoice, Ledger!Alone
  <2>2. InvoiceRow(x)
    BY <1>1, <2>1 DEF InvoiceRow
  <2> QED BY <1>1, <2>1, <2>2, LoneKeeps
<1>3. ASSUME NEW a, NEW m \in Months, Ledger!ImportBankRow(a, m) PROVE LedgerInv'
  <2>1. PICK x : /\ x = [kind |-> "bank", amount |-> a, month |-> m, status |-> "unmatched"] /\ bank' = x /\ bank = Ledger!None
                 /\ UNCHANGED <<today, invoice, payments, refunds, credits, entry, overlapped>>
    BY <1>3 DEF Ledger!ImportBankRow, Ledger!Alone
  <2>2. BankRow(x)
    BY <2>1 DEF BankRow
  <2> QED BY <1>1, <2>1, <2>2, LoneKeeps
<1>4. ASSUME Ledger!IgnoreBankRow PROVE LedgerInv'
  <2>1. PICK x : /\ x = [bank EXCEPT !.status = "ignored"] /\ bank' = x /\ bank # Ledger!None
                 /\ UNCHANGED <<today, invoice, payments, refunds, credits, entry, overlapped>>
    BY <1>4 DEF Ledger!IgnoreBankRow, Ledger!Alone
  <2>2. BankRow(bank)
    BY <2>1 DEF LedgerInv, LedgerTyped
  <2>3. BankRow(x) /\ x.month = bank.month
    BY <2>1, <2>2, MatchedBank
  <2> QED BY <1>1, <2>1, <2>3, LoneKeeps
<1>5. ASSUME NEW m \in Months, Ledger!CreateExpense(m) \/ Ledger!ClosePeriod(m) \/ Ledger!OpenPeriod(m) PROVE LedgerInv'
  BY <1>1, <1>5, LoneKeeps DEF Ledger!CreateExpense, Ledger!ClosePeriod, Ledger!OpenPeriod, Ledger!Alone, Ledger!ledger
<1>6. ASSUME Ledger!VoidExpense \/ Ledger!NextMonth \/ UNCHANGED Ledger!vars PROVE LedgerInv'
  BY <1>1, <1>6, LoneKeeps DEF Ledger!VoidExpense, Ledger!NextMonth, Ledger!vars, Ledger!Alone, Ledger!ledger
<1> QED BY <1>2, <1>3, <1>4, <1>5, <1>6

LEMMA AbandonKeeps ==
  ASSUME LedgerInv, NEW t \in Clerks, Ledger!Abandon(t) PROVE LedgerInv'
<1>1. /\ entry' = [entry EXCEPT ![t] = Ledger!Idle]
      /\ UNCHANGED <<today, overlapped, invoice, payments, refunds, credits, bank>>
  BY DEF Ledger!Abandon, Ledger!ledger
<1>2. entry'[t] = Ledger!Idle /\ DOMAIN entry' = Clerks /\ \A u \in Clerks \ {t} : entry'[u] = entry[u]
  BY <1>1 DEF LedgerInv, LedgerTyped
<1>3. LedgerTyped'
  BY <1>1, <1>2 DEF LedgerInv, LedgerTyped
<1>4. LedgerAlone'
  BY <1>1, <1>2 DEF LedgerInv, LedgerAlone
<1>5. ASSUME NEW u \in Clerks PROVE EntrySound(u)'
  BY <1>1, <1>2, IdleSound, EntrySame DEF LedgerInv
<1> QED BY <1>3, <1>4, <1>5 DEF LedgerInv

\* The steps of Next, told apart by what they do to the ledger.
RequestBegins(t) ==
  \/ \E a \in Ledger!Amounts, m \in Months : Ledger!PayBegin(t, a, m)
  \/ \E p \in PayIds, a \in Ledger!Amounts, m \in Months : Ledger!RefundBegin(t, p, a, m)
  \/ \E p \in PayIds : Ledger!DeletePaymentBegin(t, p)
  \/ \E a \in Ledger!Amounts : Ledger!CreditBegin(t, a)
  \/ Ledger!CancelBegin(t) \/ Ledger!SendBegin(t) \/ Ledger!DeleteInvoiceBegin(t)

LEMMA NextCases ==
  ASSUME [Ledger!Next]_(Ledger!vars)
  PROVE  \/ \E t \in Clerks : RequestBegins(t) \/ Ledger!ReconcileBegin(t) \/ \E a \in Totals : Ledger!EditBegin(t, a)
         \/ \E t \in Clerks : Ledger!Flush(t) \/ Ledger!Commit(t) \/ Ledger!Abandon(t)
         \/ \E a \in Totals : Ledger!CreateInvoice(a)
         \/ \E a \in Ledger!Amounts, m \in Months : Ledger!ImportBankRow(a, m)
         \/ \E m \in Months : Ledger!CreateExpense(m) \/ Ledger!ClosePeriod(m) \/ Ledger!OpenPeriod(m)
         \/ Ledger!IgnoreBankRow \/ Ledger!VoidExpense \/ Ledger!NextMonth \/ UNCHANGED Ledger!vars
BY DEF Ledger!Next, RequestBegins

LEMMA LedgerStep == LedgerInv /\ [Ledger!Next]_(Ledger!vars) => LedgerInv'
<1> SUFFICES ASSUME LedgerInv, [Ledger!Next]_(Ledger!vars) PROVE LedgerInv'
  OBVIOUS
<1>1. ASSUME NEW t \in Clerks, RequestBegins(t) PROVE LedgerInv'
  BY <1>1, OtherLoads DEF RequestBegins
<1>2. ASSUME NEW t \in Clerks, Ledger!ReconcileBegin(t) PROVE LedgerInv'
  BY <1>2, ReconcileLoads
<1>3. ASSUME NEW t \in Clerks, NEW a \in Totals, Ledger!EditBegin(t, a) PROVE LedgerInv'
  BY <1>3, EditLoads
<1>4. ASSUME NEW t \in Clerks, Ledger!Flush(t) \/ Ledger!Commit(t) \/ Ledger!Abandon(t) PROVE LedgerInv'
  BY <1>4, FlushKeeps, CommitKeeps, AbandonKeeps
<1> QED BY <1>1, <1>2, <1>3, <1>4, NextCases, LoneSteps

\* Rows that changed were not dated in month m, nor are they now.
LEMMA SameRows ==
  ASSUME NEW S, NEW f, NEW g, NEW m, DOMAIN f = S, DOMAIN g = S,
         \A i \in S : \/ f[i] = g[i]
                      \/ (f[i] = Ledger!None \/ f[i].month # m) /\ (g[i] = Ledger!None \/ g[i].month # m)
  PROVE  {<<i, f[i]>> : i \in {j \in Ledger!Rows(f) : f[j].month = m}}
           = {<<i, g[i]>> : i \in {j \in Ledger!Rows(g) : g[j].month = m}}
<1>1. {j \in Ledger!Rows(f) : f[j].month = m} = {j \in Ledger!Rows(g) : g[j].month = m}
  BY DEF Ledger!Rows
<1>2. \A i \in {j \in Ledger!Rows(f) : f[j].month = m} : f[i] = g[i]
  BY DEF Ledger!Rows
<1> QED BY <1>1, <1>2

LEMMA SameKeptRows ==
  ASSUME NEW S, NEW f, NEW g, NEW m, NEW kept, DOMAIN f = S, DOMAIN g = S,
         \A i \in S : \/ f[i] = g[i]
                      \/ /\ f[i] = Ledger!None \/ f[i].month # m \/ f[i].pay \notin kept
                         /\ g[i] = Ledger!None \/ g[i].month # m \/ g[i].pay \notin kept
  PROVE  {<<i, f[i]>> : i \in {j \in Ledger!Rows(f) : f[j].month = m /\ f[j].pay \in kept}}
           = {<<i, g[i]>> : i \in {j \in Ledger!Rows(g) : g[j].month = m /\ g[j].pay \in kept}}
<1>1. {j \in Ledger!Rows(f) : f[j].month = m /\ f[j].pay \in kept} = {j \in Ledger!Rows(g) : g[j].month = m /\ g[j].pay \in kept}
  BY DEF Ledger!Rows
<1>2. \A i \in {j \in Ledger!Rows(f) : f[j].month = m /\ f[j].pay \in kept} : f[i] = g[i]
  BY DEF Ledger!Rows
<1> QED BY <1>1, <1>2

LEMMA SameDated ==
  ASSUME LedgerTyped, LedgerTyped', NEW m, NEW kept, kept = Ledger!Rows(payments) \cap Ledger!Rows(payments'),
         \/ invoice' = invoice
         \/ /\ invoice = Ledger!None \/ invoice.month # m
            /\ invoice' = Ledger!None \/ invoice'.month # m,
         \A i \in PayIds : \/ payments[i] = payments'[i]
                           \/ /\ payments[i] = Ledger!None \/ payments[i].month # m
                              /\ payments'[i] = Ledger!None \/ payments'[i].month # m,
         \A i \in RefundIds : \/ refunds[i] = refunds'[i]
                              \/ /\ refunds[i] = Ledger!None \/ refunds[i].month # m \/ refunds[i].pay \notin kept
                                 /\ refunds'[i] = Ledger!None \/ refunds'[i].month # m \/ refunds'[i].pay \notin kept,
         \A i \in CreditIds : \/ credits[i] = credits'[i]
                              \/ /\ credits[i] = Ledger!None \/ credits[i].month # m
                                 /\ credits'[i] = Ledger!None \/ credits'[i].month # m,
         bank' = bank \/ ((bank = Ledger!None \/ bank.month # m) /\ (bank' = Ledger!None \/ bank'.month # m)),
         expense' = expense \/ ((expense = Ledger!None \/ expense.month # m) /\ (expense' = Ledger!None \/ expense'.month # m))
  PROVE  Ledger!DatedIn(m, invoice, payments, refunds, credits, bank, expense, kept)
           = Ledger!DatedIn(m, invoice', payments', refunds', credits', bank', expense', kept)
<1>1. PICK ps, qs : ps = payments /\ qs = payments'
  OBVIOUS
<1>2. PICK rs, us : rs = refunds /\ us = refunds'
  OBVIOUS
<1>3. PICK cs, ds : cs = credits /\ ds = credits'
  OBVIOUS
<1>4. /\ DOMAIN ps = PayIds /\ DOMAIN qs = PayIds /\ DOMAIN rs = RefundIds /\ DOMAIN us = RefundIds
      /\ DOMAIN cs = CreditIds /\ DOMAIN ds = CreditIds
  BY <1>1, <1>2, <1>3 DEF LedgerTyped
<1>5. {<<i, ps[i]>> : i \in {j \in Ledger!Rows(ps) : ps[j].month = m}} = {<<i, qs[i]>> : i \in {j \in Ledger!Rows(qs) : qs[j].month = m}}
  BY <1>1, <1>4, SameRows
<1>6. {<<i, rs[i]>> : i \in {j \in Ledger!Rows(rs) : rs[j].month = m /\ rs[j].pay \in kept}}
        = {<<i, us[i]>> : i \in {j \in Ledger!Rows(us) : us[j].month = m /\ us[j].pay \in kept}}
  BY <1>2, <1>4, SameKeptRows
<1>7. {<<i, cs[i]>> : i \in {j \in Ledger!Rows(cs) : cs[j].month = m}} = {<<i, ds[i]>> : i \in {j \in Ledger!Rows(ds) : ds[j].month = m}}
  BY <1>3, <1>4, SameRows
<1>8. /\ (IF invoice # Ledger!None /\ invoice.month = m THEN invoice ELSE Ledger!None)
           = (IF invoice' # Ledger!None /\ invoice'.month = m THEN invoice' ELSE Ledger!None)
      /\ (invoice # Ledger!None /\ invoice.month = m) <=> (invoice' # Ledger!None /\ invoice'.month = m)
      /\ (IF bank # Ledger!None /\ bank.month = m THEN bank ELSE Ledger!None)
           = (IF bank' # Ledger!None /\ bank'.month = m THEN bank' ELSE Ledger!None)
      /\ (IF expense # Ledger!None /\ expense.month = m THEN expense ELSE Ledger!None)
           = (IF expense' # Ledger!None /\ expense'.month = m THEN expense' ELSE Ledger!None)
  OBVIOUS
<1>9. Ledger!DatedIn(m, invoice, ps, rs, cs, bank, expense, kept) = Ledger!DatedIn(m, invoice', qs, us, ds, bank', expense', kept)
  BY <1>5, <1>6, <1>7, <1>8 DEF Ledger!DatedIn
<1> QED BY <1>1, <1>2, <1>3, <1>9

\* A commit leaves alone what is dated in a period that its flush found locked.
LEMMA CommitLeaves ==
  ASSUME LedgerInv, LedgerInv', NEW t \in Clerks, Ledger!Commit(t), NEW m, m \notin entry[t].open,
         ~(entry[t].op = "delete_invoice" /\ overlapped),
         NEW kept, kept = Ledger!Rows(payments) \cap Ledger!Rows(payments')
  PROVE  Ledger!DatedIn(m, invoice, payments, refunds, credits, bank, expense, kept)
           = Ledger!DatedIn(m, invoice', payments', refunds', credits', bank', expense', kept)
<1>1. PICK r : r = entry[t]
  OBVIOUS
<1>2. LedgerTyped /\ LedgerTyped'
  BY DEF LedgerInv
<1>3. /\ r # Ledger!Idle /\ r.flushed /\ Ledger!StillThere(r) /\ InvoiceRow(invoice) /\ invoice # Ledger!None
      /\ InvoiceRow(r.inv) /\ InvoiceRow(r.new) /\ r.new.month = r.inv.month /\ r.inv.month = invoice.month
      /\ r.new # r.inv => r.inv.month # m
      /\ r.op \in RowOps => r.row.month # m
      /\ r.op = "reconcile" => bank # Ledger!None /\ bank.month = r.row.month
      /\ r.op = "delete_invoice" => /\ r.inv.month # m
                                    /\ \A i \in Ledger!Rows(payments) : payments[i].month # m
                                    /\ \A i \in Ledger!Rows(credits) : credits[i].month # m
  <2>1. EntrySound(t) /\ r # Ledger!Idle /\ r.flushed /\ Ledger!StillThere(r) /\ InvoiceRow(invoice)
    BY <1>1, CommitShape
  <2>2. invoice # Ledger!None
    BY <2>1, RowNotNone
  <2> QED BY <1>1, <2>1, <2>2 DEF EntrySound
<1>4. expense' = expense
  BY <1>1, CommitShape
<1>5. CASE r.op = "delete_invoice"
  <2>1. /\ invoice' = Ledger!None /\ \A i \in PayIds : payments'[i] = Ledger!None
        /\ \A i \in RefundIds : refunds'[i] = Ledger!None
        /\ \A i \in CreditIds : credits'[i] = Ledger!None
        /\ bank' = bank /\ kept = {}
    BY <1>1, <1>5, CommitShape DEF Ledger!Rows
  <2>2. /\ \A i \in PayIds : payments[i] = Ledger!None \/ payments[i].month # m
        /\ \A i \in CreditIds : credits[i] = Ledger!None \/ credits[i].month # m
    BY <1>2, <1>3, <1>5 DEF Ledger!Rows, LedgerTyped
  <2> QED BY <1>2, <1>3, <1>4, <1>5, <2>1, <2>2, SameDated
<1>6. CASE r.op # "delete_invoice"
  <2>1. /\ invoice' = Ledger!Written(t) /\ payments' = Ledger!PaymentsAfter(r)
        /\ refunds' = Ledger!RefundsAfter(r) /\ credits' = Ledger!CreditsAfter(r)
    BY <1>1, <1>6, CommitShape
  <2>2. invoice' = invoice \/ (invoice.month # m /\ invoice'.month # m)
    BY <1>1, <1>3, <2>1, WrittenRow
  <2>3. \A i \in PayIds : \/ payments[i] = payments'[i]
                          \/ /\ payments[i] = Ledger!None \/ payments[i].month # m
                             /\ payments'[i] = Ledger!None \/ payments'[i].month # m
    BY <1>2, <1>3, <2>1, AfterPayments DEF Ledger!StillThere, RowOps
  <2>4. r.op = "delete_payment" => r.id \notin kept
    BY <1>2, <2>1, AfterPayments DEF LedgerTyped, Ledger!Rows
  <2>5. \A i \in RefundIds : \/ refunds[i] = refunds'[i]
                             \/ /\ refunds[i] = Ledger!None \/ refunds[i].month # m \/ refunds[i].pay \notin kept
                                /\ refunds'[i] = Ledger!None \/ refunds'[i].month # m \/ refunds'[i].pay \notin kept
    BY <1>2, <1>3, <2>1, <2>4, AfterRefunds DEF Ledger!StillThere, RowOps
  <2>6. \A i \in CreditIds : \/ credits[i] = credits'[i]
                             \/ /\ credits[i] = Ledger!None \/ credits[i].month # m
                                /\ credits'[i] = Ledger!None \/ credits'[i].month # m
    BY <1>2, <1>3, <2>1, AfterCredits DEF Ledger!StillThere, RowOps
  <2>7. bank' = bank \/ (bank.month # m /\ bank'.month # m)
    <3>1. CASE r.op = "reconcile"
      <4>1. bank' = [bank EXCEPT !.status = "matched"]
        BY <1>1, <3>1, CommitShape
      <4>2. BankRow(bank) /\ bank.month # m
        BY <1>2, <1>3, <3>1 DEF LedgerTyped, RowOps
      <4> QED BY <4>1, <4>2, MatchedBank
    <3>2. CASE r.op # "reconcile"
      BY <1>1, <3>2, CommitShape
    <3> QED BY <3>1, <3>2
  <2> QED BY <1>2, <1>4, <2>2, <2>3, <2>5, <2>6, <2>7, SameDated
<1> QED BY <1>5, <1>6

\* All other steps write only rows dated in an open period.
LEMMA OtherLeaves ==
  ASSUME LedgerInv, LedgerInv', NEW m \in locked, [Ledger!Next]_(Ledger!vars), ~\E t \in Clerks : Ledger!Commit(t),
         NEW kept, kept = Ledger!Rows(payments) \cap Ledger!Rows(payments')
  PROVE  Ledger!DatedIn(m, invoice, payments, refunds, credits, bank, expense, kept)
           = Ledger!DatedIn(m, invoice', payments', refunds', credits', bank', expense', kept)
<1>1. LedgerTyped /\ LedgerTyped'
  BY DEF LedgerInv
<1>2. ASSUME UNCHANGED <<payments, refunds, credits>>,
             invoice' = invoice \/ (invoice = Ledger!None /\ invoice'.month # m),
             bank' = bank \/ ((bank = Ledger!None \/ bank.month # m) /\ bank'.month # m),
             expense' = expense \/ ((expense = Ledger!None \/ expense.month # m) /\ (expense'.month # m))
      PROVE  Ledger!DatedIn(m, invoice, payments, refunds, credits, bank, expense, kept)
           = Ledger!DatedIn(m, invoice', payments', refunds', credits', bank', expense', kept)
  BY <1>1, <1>2, SameDated
<1>3. ASSUME NEW t \in Clerks, \/ RequestBegins(t) \/ Ledger!ReconcileBegin(t) \/ (\E a \in Totals : Ledger!EditBegin(t, a))
                               \/ Ledger!Flush(t) \/ Ledger!Abandon(t)
      PROVE  UNCHANGED <<invoice, payments, refunds, credits, bank, expense>>
  <2>1. \/ \E op, row, id : Ledger!Load(t, op, row, id)
        \/ Ledger!Flush(t) \/ Ledger!Abandon(t)
    BY <1>3, Zenon DEF RequestBegins, Ledger!ReconcileBegin, Ledger!EditBegin, Ledger!PayBegin, Ledger!RefundBegin,
       Ledger!DeletePaymentBegin, Ledger!CreditBegin, Ledger!CancelBegin, Ledger!SendBegin, Ledger!DeleteInvoiceBegin
  <2> QED BY <2>1 DEF Ledger!Load, Ledger!Flush, Ledger!Abandon, Ledger!ledger
<1>4. ASSUME NEW a \in Totals, Ledger!CreateInvoice(a)
      PROVE  UNCHANGED <<payments, refunds, credits, bank, expense>> /\ invoice = Ledger!None /\ invoice'.month # m
  BY <1>4 DEF Ledger!CreateInvoice
<1>5. ASSUME NEW a, NEW n \in Months, Ledger!ImportBankRow(a, n)
      PROVE  UNCHANGED <<invoice, payments, refunds, credits, expense>> /\ bank = Ledger!None /\ bank'.month # m
  BY <1>5 DEF Ledger!ImportBankRow
<1>6. ASSUME Ledger!IgnoreBankRow
      PROVE  UNCHANGED <<invoice, payments, refunds, credits, expense>> /\ bank.month # m /\ bank'.month # m
  <2>1. PICK x : /\ x = [bank EXCEPT !.status = "ignored"] /\ bank' = x /\ bank # Ledger!None /\ bank.month # m
                 /\ UNCHANGED <<invoice, payments, refunds, credits, expense>>
    BY <1>6 DEF Ledger!IgnoreBankRow
  <2>2. BankRow(bank)
    BY <1>1, <2>1 DEF LedgerTyped
  <2> QED BY <2>1, <2>2, MatchedBank
<1>7. ASSUME NEW n \in Months, Ledger!CreateExpense(n)
      PROVE  UNCHANGED <<invoice, payments, refunds, credits, bank>> /\ expense = Ledger!None /\ expense'.month # m
  BY <1>7 DEF Ledger!CreateExpense, Ledger!ledger
<1>8. ASSUME Ledger!VoidExpense
      PROVE  UNCHANGED <<invoice, payments, refunds, credits, bank>> /\ expense.month # m /\ expense'.month # m
  <2>1. /\ expense' = [expense EXCEPT !.status = "void"] /\ expense.month \notin locked
        /\ UNCHANGED <<invoice, payments, refunds, credits, bank>>
    BY <1>8 DEF Ledger!VoidExpense, Ledger!ledger
  <2>2. [expense EXCEPT !.status = "void"].month = expense.month
    OBVIOUS
  <2> QED BY <2>1, <2>2
<1>9. ASSUME (\E n \in Months : Ledger!ClosePeriod(n) \/ Ledger!OpenPeriod(n)) \/ Ledger!NextMonth \/ UNCHANGED Ledger!vars
      PROVE  UNCHANGED <<invoice, payments, refunds, credits, bank, expense>>
  BY <1>9 DEF Ledger!ClosePeriod, Ledger!OpenPeriod, Ledger!NextMonth, Ledger!vars, Ledger!ledger
<1> QED BY <1>2, <1>3, <1>4, <1>5, <1>6, <1>7, <1>8, <1>9, NextCases

\* A locked accounting period is read-only, whatever requests overlap: nothing dated in it
\* appears, changes or goes while it stays locked, unless by the commit of a request whose flush
\* found it open, or of the deletion of the invoice while another request was under way.
THEOREM LockedPeriodsKept == Ledger!Spec => LockedPeriodKept
<1>1. LedgerInv /\ LedgerInv' /\ [Ledger!Next]_(Ledger!vars) =>
        [\A m \in locked \cap locked' :
           LET kept == Ledger!Rows(payments) \cap Ledger!Rows(payments') IN
           Ledger!DatedIn(m, invoice, payments, refunds, credits, bank, expense, kept)
             # Ledger!DatedIn(m, invoice', payments', refunds', credits', bank', expense', kept)
           => \E t \in Clerks :
                /\ Ledger!Commit(t)
                /\ m \in entry[t].open \/ (entry[t].op = "delete_invoice" /\ overlapped)]_(Ledger!vars)
  <2> SUFFICES ASSUME LedgerInv, LedgerInv', [Ledger!Next]_(Ledger!vars), NEW m \in locked,
                      NEW kept, kept = Ledger!Rows(payments) \cap Ledger!Rows(payments'),
                      ~\E t \in Clerks :
                         /\ Ledger!Commit(t)
                         /\ m \in entry[t].open \/ (entry[t].op = "delete_invoice" /\ overlapped)
               PROVE  Ledger!DatedIn(m, invoice, payments, refunds, credits, bank, expense, kept)
                        = Ledger!DatedIn(m, invoice', payments', refunds', credits', bank', expense', kept)
    BY Zenon
  <2>1. CASE \E t \in Clerks : Ledger!Commit(t)
    <3>1. PICK t \in Clerks : Ledger!Commit(t)
      BY <2>1
    <3> QED BY <3>1, CommitLeaves
  <2>2. CASE ~\E t \in Clerks : Ledger!Commit(t)
    BY <2>2, OtherLeaves
  <2> QED BY <2>1, <2>2
<1> QED BY <1>1, LedgerStart, LedgerStep, PTL DEF Ledger!Spec, LockedPeriodKept, Ledger!LockedPeriodKept
-----------------------------------------------------------------------------
(* Sums of amounts over finite sets of rows.                               *)

AmountsOf(f, S) == Ledger!MapThenSumSet(LAMBDA i : f[i].amount, S)
Drawn(s) == CHOOSE x \in s : TRUE
Tallied(f, g, s) == IF s = {} THEN 0 ELSE f[Drawn(s)].amount + g[s \ {Drawn(s)}]
Tallies(f, D, g) == g = [s \in D |-> Tallied(f, g, s)]
Tally(f, S) == CHOOSE g : g = [s \in SUBSET S |-> Tallied(f, g, s)]

LEMMA AmountsTally ==
  ASSUME NEW f, NEW S PROVE AmountsOf(f, S) = Tally(f, S)[S]
BY DEF AmountsOf, Ledger!MapThenSumSet, Ledger!MapThenFoldSet, Tally, Tallied, Drawn

LEMMA DrawnFrom ==
  ASSUME NEW s, s # {} PROVE Drawn(s) \in s
BY DEF Drawn

LEMMA LeastNumber ==
  ASSUME NEW B \in SUBSET Nat, B # {} PROVE \E k \in B : \A j \in B : k <= j
<1>1. PICK k \in B : \A j \in B : ~ (<<j, k>> \in OpToRel(<, Nat))
  BY NatLessThanWellFounded, WFMin
<1>2. ASSUME NEW j \in B, j < k PROVE FALSE
  <2>1. <<j, k>> \in OpToRel(<, Nat)
    BY <1>2 DEF OpToRel
  <2> QED BY <1>1, <2>1
<1>3. ASSUME NEW j \in B PROVE k <= j
  BY <1>2
<1> QED BY <1>3

\* Among finite sets there is one that contains no other of them.
LEMMA LeastSet ==
  ASSUME NEW B, B # {}, \A s \in B : IsFiniteSet(s)
  PROVE  \E s \in B : \A u \in SUBSET s : u # s => u \notin B
<1>1. PICK C : C = {n \in Nat : \E s \in B : n = Cardinality(s)}
  OBVIOUS
<1>2. C \in SUBSET Nat /\ C # {}
  <2>1. PICK s \in B : TRUE
    OBVIOUS
  <2>2. Cardinality(s) \in C
    BY <1>1, <2>1, FS_CardinalityType
  <2> QED BY <1>1, <2>2
<1>3. PICK k \in C : \A j \in C : k <= j
  BY <1>2, LeastNumber
<1>4. PICK s \in B : k = Cardinality(s)
  BY <1>1, <1>3
<1>5. ASSUME NEW u \in SUBSET s, u # s, u \in B PROVE FALSE
  <2>1. IsFiniteSet(s) /\ Cardinality(u) <= Cardinality(s) /\ Cardinality(u) # Cardinality(s)
    BY <1>5, FS_Subset
  <2>2. Cardinality(u) \in Nat /\ Cardinality(s) \in Nat /\ Cardinality(u) \in C
    BY <1>1, <1>5, <2>1, FS_CardinalityType
  <2> QED BY <1>3, <1>4, <2>1, <2>2
<1> QED BY <1>5

\* The function that tallies all subsets exists.
UpTo(S, n) == {s \in SUBSET S : Cardinality(s) <= n}

LEMMA TallyUpTo ==
  ASSUME NEW f, NEW S, IsFiniteSet(S), NEW n \in Nat
  PROVE  \E g : Tallies(f, UpTo(S, n), g)
<1>1. PICK B : B = {k \in Nat : ~\E g : Tallies(f, UpTo(S, k), g)}
  OBVIOUS
<1>2. SUFFICES ASSUME B # {} PROVE FALSE
  BY <1>1
<1>3. PICK k \in B : \A j \in B : k <= j
  BY <1>1, <1>2, LeastNumber
<1>4. k \in Nat
  BY <1>1
<1>5. \A s \in SUBSET S : /\ IsFiniteSet(s) /\ Cardinality(s) \in Nat /\ (Cardinality(s) = 0 <=> s = {})
                          /\ s # {} => Cardinality(s \ {Drawn(s)}) = Cardinality(s) - 1
  <2> SUFFICES ASSUME NEW s \in SUBSET S
               PROVE  /\ IsFiniteSet(s) /\ Cardinality(s) \in Nat /\ (Cardinality(s) = 0 <=> s = {})
                      /\ s # {} => Cardinality(s \ {Drawn(s)}) = Cardinality(s) - 1
    OBVIOUS
  <2>1. IsFiniteSet(s)
    BY FS_Subset
  <2> QED BY <2>1, FS_CardinalityType, FS_EmptySet, FS_RemoveElement, DrawnFrom
<1>6. CASE k = 0
  <2>1. PICK g : g = [s \in UpTo(S, 0) |-> 0]
    OBVIOUS
  <2>2. ASSUME NEW s \in UpTo(S, 0) PROVE Tallied(f, g, s) = 0
    <3>1. s \in SUBSET S /\ Cardinality(s) <= 0
      BY DEF UpTo
    <3>2. Cardinality(s) \in Nat /\ (Cardinality(s) = 0 <=> s = {})
      BY <1>5, <3>1
    <3>3. s = {}
      BY <3>1, <3>2
    <3> QED BY <3>3 DEF Tallied
  <2>3. Tallies(f, UpTo(S, 0), g)
    BY <2>1, <2>2 DEF Tallies
  <2> QED BY <1>1, <1>6, <2>3
<1>7. CASE k # 0
  <2>1. k - 1 \in Nat /\ k - 1 \notin B
    BY <1>3, <1>4, <1>1, <1>7
  <2>2. PICK g : Tallies(f, UpTo(S, k - 1), g)
    BY <1>1, <2>1
  <2>3. PICK h : h = [s \in UpTo(S, k) |-> IF Cardinality(s) <= k - 1 THEN g[s] ELSE Tallied(f, g, s)]
    OBVIOUS
  <2>4. ASSUME NEW s \in UpTo(S, k) PROVE h[s] = Tallied(f, h, s)
    <3>1. h[s] = Tallied(f, g, s)
      <4>1. Cardinality(s) <= k - 1 => s \in UpTo(S, k - 1)
        BY DEF UpTo
      <4> QED BY <2>2, <2>3, <4>1 DEF Tallies
    <3>2. CASE s = {}
      BY <3>1, <3>2 DEF Tallied
    <3>3. CASE s # {}
      <4>1. PICK u : u = s \ {Drawn(s)}
        OBVIOUS
      <4>2. u \in SUBSET S /\ Cardinality(u) <= k - 1 /\ Cardinality(u) <= k
        BY <1>4, <1>5, <3>3, <4>1 DEF UpTo
      <4>3. h[u] = g[u]
        BY <2>3, <4>2 DEF UpTo
      <4> QED BY <3>1, <3>3, <4>1, <4>3 DEF Tallied
    <3> QED BY <3>2, <3>3
  <2>5. Tallies(f, UpTo(S, k), h)
    BY <2>3, <2>4 DEF Tallies
  <2> QED BY <1>1, <1>3, <2>5
<1> QED BY <1>6, <1>7

LEMMA TallyExists ==
  ASSUME NEW f, NEW S, IsFiniteSet(S) PROVE Tallies(f, SUBSET S, Tally(f, S))
<1>1. UpTo(S, Cardinality(S)) = SUBSET S /\ Cardinality(S) \in Nat
  BY FS_Subset, FS_CardinalityType DEF UpTo
<1>2. \E h : Tallies(f, UpTo(S, Cardinality(S)), h)
  BY <1>1, TallyUpTo
<1>3. \E h : Tallies(f, SUBSET S, h)
  BY <1>1, <1>2
<1>4. Tally(f, S) = CHOOSE h : Tallies(f, SUBSET S, h)
  BY DEF Tally, Tallies
<1> QED BY <1>3, <1>4

\* The tally of a subset does not depend on the set it is taken in.
LEMMA TallyWithin ==
  ASSUME NEW f, NEW S, IsFiniteSet(S), NEW T \in SUBSET S
  PROVE  \A s \in SUBSET T : Tally(f, S)[s] = Tally(f, T)[s]
<1>1. PICK g, h : g = Tally(f, S) /\ h = Tally(f, T)
  OBVIOUS
<1>2. IsFiniteSet(T)
  BY FS_Subset
<1>3. g = [s \in SUBSET S |-> Tallied(f, g, s)] /\ h = [s \in SUBSET T |-> Tallied(f, h, s)]
  <2>1. Tallies(f, SUBSET S, g) /\ Tallies(f, SUBSET T, h)
    BY <1>1, <1>2, TallyExists
  <2> QED BY <2>1 DEF Tallies
<1>4. PICK B : B = {s \in SUBSET T : g[s] # h[s]}
  OBVIOUS
<1>5. SUFFICES ASSUME B # {} PROVE FALSE
  BY <1>1, <1>4
<1>6. \A s \in B : IsFiniteSet(s)
  BY <1>2, <1>4, FS_Subset
<1>7. PICK s \in B : \A u \in SUBSET s : u # s => u \notin B
  BY <1>5, <1>6, LeastSet
<1>8. s \in SUBSET T /\ s \in SUBSET S /\ g[s] # h[s] /\ g[s] = Tallied(f, g, s) /\ h[s] = Tallied(f, h, s)
  BY <1>3, <1>4, <1>7
<1>9. CASE s = {}
  BY <1>8, <1>9 DEF Tallied
<1>10. CASE s # {}
  <2>1. PICK u : u = s \ {Drawn(s)}
    OBVIOUS
  <2>2. u \in SUBSET s /\ u # s /\ u \in SUBSET T
    BY <1>8, <1>10, <2>1, DrawnFrom
  <2>3. g[u] = h[u]
    BY <1>4, <1>7, <2>2
  <2> QED BY <1>8, <1>10, <2>1, <2>3 DEF Tallied
<1> QED BY <1>9, <1>10

LEMMA AmountsDrawn ==
  ASSUME NEW f, NEW S, IsFiniteSet(S)
  PROVE  /\ S = {} => AmountsOf(f, S) = 0
         /\ S # {} => AmountsOf(f, S) = f[Drawn(S)].amount + AmountsOf(f, S \ {Drawn(S)})
<1>1. PICK g : g = Tally(f, S)
  OBVIOUS
<1>2. g = [s \in SUBSET S |-> Tallied(f, g, s)]
  <2>1. Tallies(f, SUBSET S, g)
    BY <1>1, TallyExists
  <2> QED BY <2>1 DEF Tallies
<1>3. AmountsOf(f, S) = Tallied(f, g, S)
  <2>1. AmountsOf(f, S) = g[S]
    BY <1>1, AmountsTally
  <2>2. S \in SUBSET S
    OBVIOUS
  <2> QED BY <1>2, <2>1, <2>2
<1>4. ASSUME S # {} PROVE g[S \ {Drawn(S)}] = AmountsOf(f, S \ {Drawn(S)})
  <2>1. PICK T : T = S \ {Drawn(S)}
    OBVIOUS
  <2>2. T \in SUBSET S /\ T \in SUBSET T
    BY <2>1
  <2>3. g[T] = Tally(f, T)[T]
    BY <1>1, <2>2, TallyWithin
  <2> QED BY <2>1, <2>3, AmountsTally
<1> QED BY <1>3, <1>4 DEF Tallied

LEMMA AmountsNat ==
  ASSUME NEW f, NEW S, IsFiniteSet(S), \A i \in S : f[i].amount \in Nat
  PROVE  AmountsOf(f, S) \in Nat
<1>1. PICK B : B = {s \in SUBSET S : AmountsOf(f, s) \notin Nat}
  OBVIOUS
<1>2. SUFFICES ASSUME B # {} PROVE FALSE
  BY <1>1
<1>3. \A s \in B : IsFiniteSet(s)
  BY <1>1, FS_Subset
<1>4. PICK s \in B : \A u \in SUBSET s : u # s => u \notin B
  BY <1>2, <1>3, LeastSet
<1>5. s \in SUBSET S /\ AmountsOf(f, s) \notin Nat /\ IsFiniteSet(s)
  BY <1>1, <1>3, <1>4
<1>6. ASSUME s = {} PROVE FALSE
  <2>1. AmountsOf(f, s) = 0
    BY <1>5, <1>6, AmountsDrawn
  <2> QED BY <1>5, <2>1
<1>7. PICK u : u = s \ {Drawn(s)}
  OBVIOUS
<1>8. Drawn(s) \in S /\ AmountsOf(f, u) \in Nat
  BY <1>1, <1>4, <1>5, <1>6, <1>7, DrawnFrom
<1>9. AmountsOf(f, s) = f[Drawn(s)].amount + AmountsOf(f, u)
  BY <1>5, <1>6, <1>7, AmountsDrawn
<1> QED BY <1>5, <1>8, <1>9

\* Any element may be counted first.
LEMMA AmountsOne ==
  ASSUME NEW f, NEW S, IsFiniteSet(S), \A i \in S : f[i].amount \in Nat, NEW x \in S
  PROVE  AmountsOf(f, S) = f[x].amount + AmountsOf(f, S \ {x})
<1>1. PICK B : B = {s \in SUBSET S : \E y \in s : AmountsOf(f, s) # f[y].amount + AmountsOf(f, s \ {y})}
  OBVIOUS
<1>2. SUFFICES ASSUME B # {} PROVE FALSE
  <2>1. S \in SUBSET S
    OBVIOUS
  <2> QED BY <1>1, <2>1
<1>3. \A s \in B : IsFiniteSet(s)
  BY <1>1, FS_Subset
<1>4. PICK s \in B : \A u \in SUBSET s : u # s => u \notin B
  BY <1>2, <1>3, LeastSet
<1>5. PICK y \in s : AmountsOf(f, s) # f[y].amount + AmountsOf(f, s \ {y})
  BY <1>1, <1>4
<1>6. s \in SUBSET S /\ IsFiniteSet(s) /\ s # {}
  BY <1>1, <1>3, <1>4, <1>5
<1>7. PICK d : d = Drawn(s)
  OBVIOUS
<1>8. d \in s /\ AmountsOf(f, s) = f[d].amount + AmountsOf(f, s \ {d})
  BY <1>6, <1>7, AmountsDrawn, DrawnFrom
<1>9. d # y
  BY <1>5, <1>8
<1>10. AmountsOf(f, s \ {d}) = f[y].amount + AmountsOf(f, (s \ {d}) \ {y})
  <2>1. PICK u : u = s \ {d}
    OBVIOUS
  <2>2. u \in SUBSET s /\ u # s /\ u \in SUBSET S /\ y \in u
    BY <1>5, <1>6, <1>8, <1>9, <2>1
  <2> QED BY <1>1, <1>4, <2>1, <2>2
<1>11. AmountsOf(f, s \ {y}) = f[d].amount + AmountsOf(f, (s \ {y}) \ {d})
  <2>1. PICK u : u = s \ {y}
    OBVIOUS
  <2>2. u \in SUBSET s /\ u # s /\ u \in SUBSET S /\ d \in u
    BY <1>5, <1>6, <1>8, <1>9, <2>1
  <2> QED BY <1>1, <1>4, <2>1, <2>2
<1>12. PICK v : v = (s \ {d}) \ {y} /\ v = (s \ {y}) \ {d} /\ v \in SUBSET S
  <2>1. (s \ {d}) \ {y} = (s \ {y}) \ {d}
    OBVIOUS
  <2> QED BY <1>6, <2>1
<1>13. f[d].amount \in Nat /\ f[y].amount \in Nat /\ AmountsOf(f, v) \in Nat
  <2>1. IsFiniteSet(v) /\ \A i \in v : f[i].amount \in Nat
    BY <1>12, FS_Subset
  <2> QED BY <1>5, <1>6, <1>8, <2>1, AmountsNat
<1>14. AmountsOf(f, s \ {d}) = f[y].amount + AmountsOf(f, v) /\ AmountsOf(f, s \ {y}) = f[d].amount + AmountsOf(f, v)
  BY <1>10, <1>11, <1>12
<1>15. AmountsOf(f, s) = f[d].amount + (f[y].amount + AmountsOf(f, v))
  BY <1>8, <1>14
<1>16. AmountsOf(f, s) # f[y].amount + (f[d].amount + AmountsOf(f, v))
  BY <1>5, <1>14
<1> QED BY <1>13, <1>15, <1>16

LEMMA AmountsSame ==
  ASSUME NEW f, NEW g, NEW S, IsFiniteSet(S), \A i \in S : f[i].amount = g[i].amount
  PROVE  AmountsOf(f, S) = AmountsOf(g, S)
<1>1. PICK B : B = {s \in SUBSET S : AmountsOf(f, s) # AmountsOf(g, s)}
  OBVIOUS
<1>2. SUFFICES ASSUME B # {} PROVE FALSE
  <2>1. S \in SUBSET S
    OBVIOUS
  <2> QED BY <1>1, <2>1
<1>3. \A s \in B : IsFiniteSet(s)
  BY <1>1, FS_Subset
<1>4. PICK s \in B : \A u \in SUBSET s : u # s => u \notin B
  BY <1>2, <1>3, LeastSet
<1>5. s \in SUBSET S /\ IsFiniteSet(s) /\ AmountsOf(f, s) # AmountsOf(g, s)
  BY <1>1, <1>3, <1>4
<1>6. s # {}
  BY <1>5, AmountsDrawn
<1>7. PICK u : u = s \ {Drawn(s)}
  OBVIOUS
<1>8. Drawn(s) \in S /\ AmountsOf(f, u) = AmountsOf(g, u)
  BY <1>1, <1>4, <1>5, <1>6, <1>7, DrawnFrom
<1>9. AmountsOf(f, s) = f[Drawn(s)].amount + AmountsOf(f, u) /\ AmountsOf(g, s) = g[Drawn(s)].amount + AmountsOf(g, u)
  BY <1>5, <1>6, <1>7, AmountsDrawn
<1> QED BY <1>5, <1>8, <1>9

LEMMA AmountsUnion ==
  ASSUME NEW f, NEW S, IsFiniteSet(S), \A i \in S : f[i].amount \in Nat, NEW T \in SUBSET S
  PROVE  AmountsOf(f, S) = AmountsOf(f, T) + AmountsOf(f, S \ T)
<1>1. PICK B : B = {s \in SUBSET T : AmountsOf(f, S) # AmountsOf(f, s) + AmountsOf(f, S \ s)}
  OBVIOUS
<1>2. SUFFICES ASSUME B # {} PROVE FALSE
  <2>1. T \in SUBSET T
    OBVIOUS
  <2> QED BY <1>1, <2>1
<1>3. \A s \in SUBSET S : IsFiniteSet(s) /\ (\A i \in s : f[i].amount \in Nat) /\ AmountsOf(f, s) \in Nat
  BY FS_Subset, AmountsNat
<1>4. \A s \in B : IsFiniteSet(s)
  BY <1>1, <1>3
<1>5. PICK s \in B : \A u \in SUBSET s : u # s => u \notin B
  BY <1>2, <1>4, LeastSet
<1>6. s \in SUBSET S /\ s \in SUBSET T /\ AmountsOf(f, S) # AmountsOf(f, s) + AmountsOf(f, S \ s)
  BY <1>1, <1>5
<1>7. CASE s = {}
  <2>1. S \ s = S /\ S \in SUBSET S
    BY <1>7
  <2>2. AmountsOf(f, s) = 0
    BY <1>3, <1>6, <1>7, AmountsDrawn
  <2>3. AmountsOf(f, S) \in Nat /\ AmountsOf(f, S) # 0 + AmountsOf(f, S)
    BY <1>3, <1>6, <2>1, <2>2
  <2> QED BY <2>3
<1>8. CASE s # {}
  <2>1. PICK x \in s : TRUE
    BY <1>8
  <2>2. PICK u : u = s \ {x}
    OBVIOUS
  <2>3. u \in SUBSET s /\ u # s /\ u \in SUBSET T /\ u \in SUBSET S /\ x \in S
    BY <1>6, <2>1, <2>2
  <2>4. AmountsOf(f, S) = AmountsOf(f, u) + AmountsOf(f, S \ u)
    BY <1>1, <1>5, <2>3
  <2>5. AmountsOf(f, s) = f[x].amount + AmountsOf(f, u)
    BY <1>3, <1>6, <2>1, <2>2, AmountsOne
  <2>6. AmountsOf(f, S \ u) = f[x].amount + AmountsOf(f, S \ s)
    <3>1. PICK v : v = S \ u
      OBVIOUS
    <3>2. v \in SUBSET S /\ x \in v /\ v \ {x} = S \ s
      BY <1>6, <2>1, <2>2, <2>3, <3>1
    <3> QED BY <1>3, <3>1, <3>2, AmountsOne
  <2>7. AmountsOf(f, u) \in Nat /\ AmountsOf(f, S \ s) \in Nat /\ f[x].amount \in Nat
    BY <1>3, <2>3
  <2> QED BY <1>6, <2>4, <2>5, <2>6, <2>7
<1> QED BY <1>7, <1>8
-----------------------------------------------------------------------------
(* The sums of the ledger.                                                 *)

RefundsOf(rs, p) == {i \in Ledger!Rows(rs) : rs[i].pay = p}

\* Rows that can be summed up.
Amounted(S, f) == IsFiniteSet(S) /\ f = [i \in S |-> f[i]] /\ \A i \in S : f[i] # Ledger!None => f[i].amount \in Nat

LEMMA SumAmounts ==
  ASSUME NEW f PROVE Ledger!SumOver(f) = AmountsOf(f, Ledger!Rows(f)) /\ \A p : Ledger!Refunded(f, p) = AmountsOf(f, RefundsOf(f, p))
BY DEF Ledger!SumOver, Ledger!Refunded, AmountsOf, RefundsOf

LEMMA RowsFinite ==
  ASSUME NEW S, NEW f, Amounted(S, f)
  PROVE  /\ IsFiniteSet(Ledger!Rows(f)) /\ \A i \in Ledger!Rows(f) : i \in S /\ f[i].amount \in Nat
         /\ \A p : RefundsOf(f, p) \in SUBSET Ledger!Rows(f) /\ IsFiniteSet(RefundsOf(f, p))
<1>1. IsFiniteSet(S) /\ Ledger!Rows(f) \in SUBSET S /\ \A i \in Ledger!Rows(f) : f[i].amount \in Nat
  BY DEF Amounted, Ledger!Rows
<1>2. IsFiniteSet(Ledger!Rows(f))
  BY <1>1, FS_Subset
<1>3. ASSUME NEW p PROVE RefundsOf(f, p) \in SUBSET Ledger!Rows(f) /\ IsFiniteSet(RefundsOf(f, p))
  <2>1. RefundsOf(f, p) \in SUBSET Ledger!Rows(f)
    BY DEF RefundsOf
  <2> QED BY <1>2, <2>1, FS_Subset
<1> QED BY <1>1, <1>2, <1>3

LEMMA SumNat ==
  ASSUME NEW S, NEW f, Amounted(S, f)
  PROVE  /\ Ledger!SumOver(f) \in Nat /\ \A p : Ledger!Refunded(f, p) \in Nat
         /\ Ledger!Rows(f) = {} => Ledger!SumOver(f) = 0
         /\ \A p : RefundsOf(f, p) = {} => Ledger!Refunded(f, p) = 0
<1>1. PICK R : R = Ledger!Rows(f)
  OBVIOUS
<1>2. IsFiniteSet(R) /\ (\A i \in R : f[i].amount \in Nat) /\ Ledger!SumOver(f) = AmountsOf(f, R)
  BY <1>1, RowsFinite, SumAmounts
<1>3. Ledger!SumOver(f) \in Nat /\ (R = {} => Ledger!SumOver(f) = 0)
  BY <1>2, AmountsNat, AmountsDrawn
<1>4. ASSUME NEW p PROVE Ledger!Refunded(f, p) \in Nat /\ (RefundsOf(f, p) = {} => Ledger!Refunded(f, p) = 0)
  <2>1. PICK T : T = RefundsOf(f, p)
    OBVIOUS
  <2>2. IsFiniteSet(T) /\ (\A i \in T : f[i].amount \in Nat) /\ Ledger!Refunded(f, p) = AmountsOf(f, T)
    <3>1. T \in SUBSET R /\ IsFiniteSet(T)
      BY <1>1, <2>1, RowsFinite
    <3> QED BY <1>2, <2>1, <3>1, SumAmounts
  <2> QED BY <2>1, <2>2, AmountsNat, AmountsDrawn
<1> QED BY <1>1, <1>3, <1>4

\* A set that gains one row.
LEMMA AmountsGain ==
  ASSUME NEW f, NEW g, NEW R, IsFiniteSet(R), NEW id, id \notin R, NEW Q, Q = R \cup {id},
         \A i \in R : g[i] = f[i] /\ f[i].amount \in Nat, g[id].amount \in Nat
  PROVE  AmountsOf(g, Q) = AmountsOf(f, R) + g[id].amount
<1>1. IsFiniteSet(Q) /\ Q \ {id} = R /\ id \in Q /\ \A i \in Q : g[i].amount \in Nat
  BY FS_AddElement
<1>2. AmountsOf(g, Q) = g[id].amount + AmountsOf(g, R)
  BY <1>1, AmountsOne
<1>3. AmountsOf(g, R) = AmountsOf(f, R)
  BY AmountsSame
<1>4. AmountsOf(f, R) \in Nat
  BY AmountsNat
<1> QED BY <1>2, <1>3, <1>4

\* What a commit makes of the rows: one is replaced, or the refunds of a payment go.
Replaced(f, id, row, g) == g = [f EXCEPT ![id] = row]
Purged(S, f, p, g) == g = [i \in S |-> IF f[i] # Ledger!None /\ f[i].pay = p THEN Ledger!None ELSE f[i]]

LEMMA SumAdded ==
  ASSUME NEW S, NEW f, Amounted(S, f), NEW id \in S, f[id] = Ledger!None, NEW row, row # Ledger!None, row.amount \in Nat,
         NEW g, Replaced(f, id, row, g)
  PROVE  Ledger!SumOver(g) = Ledger!SumOver(f) + row.amount /\ Amounted(S, g)
<1>1. f = [i \in S |-> f[i]] /\ g[id] = row /\ g = [i \in S |-> g[i]] /\ \A i \in S \ {id} : g[i] = f[i]
  BY DEF Amounted, Replaced
<1>2. PICK R, Q : R = Ledger!Rows(f) /\ Q = Ledger!Rows(g)
  OBVIOUS
<1>3. Q = R \cup {id} /\ id \notin R
  BY <1>1, <1>2 DEF Ledger!Rows
<1>4. IsFiniteSet(R) /\ \A i \in R : i \in S /\ f[i].amount \in Nat
  BY <1>2, RowsFinite
<1>5. \A i \in R : g[i] = f[i]
  BY <1>1, <1>3, <1>4
<1>6. AmountsOf(g, Q) = AmountsOf(f, R) + g[id].amount
  <2>1. g[id].amount \in Nat /\ \A i \in R : g[i] = f[i] /\ f[i].amount \in Nat
    BY <1>1, <1>4, <1>5
  <2> QED BY <1>3, <1>4, <2>1, AmountsGain
<1>7. Amounted(S, g)
  BY <1>1 DEF Amounted
<1> QED BY <1>1, <1>2, <1>6, <1>7, SumAmounts

LEMMA SumRemoved ==
  ASSUME NEW S, NEW f, Amounted(S, f), NEW id \in S, f[id] # Ledger!None, NEW g, Replaced(f, id, Ledger!None, g)
  PROVE  Ledger!SumOver(f) = Ledger!SumOver(g) + f[id].amount /\ Amounted(S, g)
<1>1. f = [i \in S |-> f[i]] /\ g[id] = Ledger!None /\ g = [i \in S |-> g[i]] /\ \A i \in S \ {id} : g[i] = f[i]
  BY DEF Amounted, Replaced
<1>2. Amounted(S, g) /\ f[id].amount \in Nat
  BY <1>1 DEF Amounted
<1>3. Replaced(g, id, f[id], f)
  BY <1>1 DEF Replaced
<1> QED BY <1>1, <1>2, <1>3, SumAdded

LEMMA RefundedAdded ==
  ASSUME NEW S, NEW f, Amounted(S, f), NEW id \in S, f[id] = Ledger!None, NEW row, row # Ledger!None, row.amount \in Nat,
         NEW g, Replaced(f, id, row, g)
  PROVE  /\ Ledger!Refunded(g, row.pay) = Ledger!Refunded(f, row.pay) + row.amount
         /\ \A q : q # row.pay => Ledger!Refunded(g, q) = Ledger!Refunded(f, q)
<1>1. f = [i \in S |-> f[i]] /\ g[id] = row /\ g = [i \in S |-> g[i]] /\ \A i \in S \ {id} : g[i] = f[i]
  BY DEF Amounted, Replaced
<1>2. PICK p : p = row.pay
  OBVIOUS
<1>3. Ledger!Refunded(g, p) = Ledger!Refunded(f, p) + row.amount
  <2>1. PICK R, Q : R = RefundsOf(f, p) /\ Q = RefundsOf(g, p)
    OBVIOUS
  <2>2. Q = R \cup {id} /\ id \notin R
    BY <1>1, <1>2, <2>1 DEF RefundsOf, Ledger!Rows
  <2>3. IsFiniteSet(R) /\ \A i \in R : i \in S /\ f[i].amount \in Nat
    BY <2>1, RowsFinite
  <2>4. \A i \in R : g[i] = f[i]
    BY <1>1, <2>2, <2>3
  <2>5. AmountsOf(g, Q) = AmountsOf(f, R) + g[id].amount
    <3>1. g[id].amount \in Nat /\ \A i \in R : g[i] = f[i] /\ f[i].amount \in Nat
      BY <1>1, <2>3, <2>4
    <3> QED BY <2>2, <2>3, <3>1, AmountsGain
  <2> QED BY <1>1, <2>1, <2>5, SumAmounts
<1>4. ASSUME NEW q, q # p PROVE Ledger!Refunded(g, q) = Ledger!Refunded(f, q)
  <2>1. PICK R : R = RefundsOf(f, q)
    OBVIOUS
  <2>2. RefundsOf(g, q) = R /\ id \notin R
    BY <1>1, <1>2, <1>4, <2>1 DEF RefundsOf, Ledger!Rows
  <2>3. IsFiniteSet(R) /\ \A i \in R : i \in S
    BY <2>1, RowsFinite
  <2>4. \A i \in R : g[i].amount = f[i].amount
    BY <1>1, <2>2, <2>3
  <2>5. AmountsOf(g, R) = AmountsOf(f, R)
    BY <2>3, <2>4, AmountsSame
  <2> QED BY <2>1, <2>2, <2>5, SumAmounts
<1> QED BY <1>2, <1>3, <1>4

\* A payment's refunds are removed with it.
LEMMA RefundsRemoved ==
  ASSUME NEW S, NEW f, Amounted(S, f), NEW p, NEW g, Purged(S, f, p, g)
  PROVE  /\ Ledger!SumOver(f) = Ledger!SumOver(g) + Ledger!Refunded(f, p) /\ Amounted(S, g)
         /\ \A q : q # p => Ledger!Refunded(g, q) = Ledger!Refunded(f, q)
<1>1. f = [i \in S |-> f[i]] /\ g = [i \in S |-> g[i]] /\ DOMAIN f = S /\ DOMAIN g = S
  BY DEF Amounted, Purged
<1>2. \A i \in S : /\ f[i] # Ledger!None /\ f[i].pay = p => g[i] = Ledger!None
                   /\ ~(f[i] # Ledger!None /\ f[i].pay = p) => g[i] = f[i]
  BY DEF Purged
<1>3. Amounted(S, g)
  BY <1>1, <1>2 DEF Amounted
<1>4. PICK R, T : R = Ledger!Rows(f) /\ T = RefundsOf(f, p)
  OBVIOUS
<1>5. Ledger!Rows(g) = R \ T /\ \A i \in R \ T : i \in S /\ g[i].amount = f[i].amount
  BY <1>1, <1>2, <1>4 DEF RefundsOf, Ledger!Rows
<1>6. IsFiniteSet(R) /\ (\A i \in R : f[i].amount \in Nat) /\ T \in SUBSET R /\ IsFiniteSet(R \ T)
  <2>1. IsFiniteSet(R) /\ (\A i \in R : f[i].amount \in Nat) /\ T \in SUBSET R
    BY <1>4, RowsFinite
  <2>2. R \ T \in SUBSET R
    OBVIOUS
  <2> QED BY <2>1, <2>2, FS_Subset
<1>7. AmountsOf(f, R) = AmountsOf(f, T) + AmountsOf(f, R \ T)
  BY <1>6, AmountsUnion
<1>8. AmountsOf(g, R \ T) = AmountsOf(f, R \ T)
  BY <1>5, <1>6, AmountsSame
<1>9. Ledger!SumOver(f) = Ledger!Refunded(f, p) + Ledger!SumOver(g)
  BY <1>4, <1>5, <1>7, <1>8, SumAmounts
<1>10. ASSUME NEW q, q # p PROVE Ledger!Refunded(g, q) = Ledger!Refunded(f, q)
  <2>1. PICK Q : Q = RefundsOf(f, q)
    OBVIOUS
  <2>2. RefundsOf(g, q) = Q /\ \A i \in Q : i \in S /\ g[i] = f[i]
    BY <1>1, <1>2, <1>10, <2>1 DEF RefundsOf, Ledger!Rows
  <2>3. IsFiniteSet(Q)
    BY <2>1, RowsFinite
  <2>4. AmountsOf(g, Q) = AmountsOf(f, Q)
    BY <2>2, <2>3, AmountsSame
  <2> QED BY <2>1, <2>2, <2>4, SumAmounts
<1>11. Ledger!SumOver(g) \in Nat /\ Ledger!Refunded(f, p) \in Nat
  BY <1>3, SumNat
<1> QED BY <1>3, <1>9, <1>10, <1>11
-----------------------------------------------------------------------------
(* One request at a time, the books balance.                               *)

Settles(total, ps, rs, cs) ==
  total > 0 /\ (Ledger!Adjusted(total, cs) <= Ledger!Paid(ps, rs) \/ Ledger!Adjusted(total, cs) = 0)

Balanced(inv, ps, rs, cs) ==
  /\ \A p \in Ledger!Rows(ps) : Ledger!Refunded(rs, p) <= ps[p].amount
  /\ Ledger!Paid(ps, rs) <= inv.total /\ Ledger!SumOver(cs) <= inv.total
  /\ inv.status # "cancelled" => (inv.status \in {"paid", "credited"} <=> Settles(inv.total, ps, rs, cs))

\* Refunds belong to payments that are there, and an invoice that is gone has left no rows.
RowsSound ==
  /\ Amounted(PayIds, payments) /\ Amounted(RefundIds, refunds) /\ Amounted(CreditIds, credits)
  /\ \A i \in Ledger!Rows(refunds) : refunds[i].pay \in Ledger!Rows(payments)
  /\ bank # Ledger!None => bank.amount \in Nat
  /\ invoice = Ledger!None => Ledger!Rows(payments) = {} /\ Ledger!Rows(refunds) = {} /\ Ledger!Rows(credits) = {}
  /\ invoice # Ledger!None => invoice.total \in Nat /\ Balanced(invoice, payments, refunds, credits)

\* What a request found when it began still holds while no other comes.
RequestSound(r) ==
  r # Ledger!Idle =>
    /\ r.inv = invoice /\ invoice # Ledger!None
    /\ r.op \in {"pay", "reconcile"} => r.id \in PayIds /\ payments[r.id] = Ledger!None /\ r.row.amount \in Nat
    /\ r.op = "pay" => r.row.amount <= Ledger!OutstandingGross
    /\ r.op = "reconcile" => r.row.amount <= Ledger!OutstandingNet
    /\ r.op = "refund" => /\ r.id \in RefundIds /\ refunds[r.id] = Ledger!None /\ r.row.amount \in Nat
                          /\ r.row.pay \in Ledger!Rows(payments)
                          /\ r.row.amount <= Ledger!Less(payments[r.row.pay].amount, Ledger!Refunded(refunds, r.row.pay))
    /\ r.op = "credit" => /\ r.id \in CreditIds /\ credits[r.id] = Ledger!None /\ r.row.amount \in Nat
                          /\ r.row.amount <= Ledger!Adjusted(invoice.total, credits)
    /\ r.op = "delete_payment" => r.id \in PayIds /\ payments[r.id] = r.row /\ r.row # Ledger!None
    /\ r.op = "edit" => /\ r.row.total \in Nat /\ r.row.status = "draft"
                        /\ Ledger!Rows(payments) = {} /\ Ledger!Rows(credits) = {}
    /\ r.op = "send" => invoice.status \notin {"paid", "cancelled", "credited"}
    /\ r.flushed /\ r.op # "send" => r.new = Ledger!InvoiceAfter(r)
    /\ r.flushed /\ r.op = "send" => r.new.status \in {"sent", "failed"} /\ r.new.total = invoice.total

SerialInv == ~overlapped => RowsSound /\ \A t \in Clerks : RequestSound(entry[t])

\* The status that is computed says settled exactly when the money does.
LEMMA SyncedSettles ==
  ASSUME NEW inv, inv.total \in Nat, NEW ps, NEW rs, NEW cs,
         Ledger!SumOver(ps) \in Nat, Ledger!SumOver(rs) \in Nat, Ledger!SumOver(cs) \in Nat,
         Ledger!SumOver(cs) <= inv.total, Ledger!Paid(ps, rs) <= inv.total,
         NEW s, s = Ledger!Synced(inv, ps, rs, cs), s # "cancelled",
         inv.total = 0 => inv.status \notin {"paid", "credited"}
  PROVE  s \in {"paid", "credited"} <=> Settles(inv.total, ps, rs, cs)
<1>1. PICK adjusted, paid, credited : /\ adjusted = Ledger!Adjusted(inv.total, cs) /\ paid = Ledger!Paid(ps, rs) /\ credited = Ledger!SumOver(cs)
  OBVIOUS
<1>2. /\ adjusted \in Nat /\ paid \in Nat /\ credited \in Nat
      /\ inv.total > 0 /\ adjusted = 0 => credited > 0
      /\ inv.total = 0 => adjusted = 0 /\ paid = 0 /\ credited = 0
  BY <1>1 DEF Ledger!Adjusted, Ledger!Paid, Ledger!Less
<1>3. Settles(inv.total, ps, rs, cs) <=> inv.total > 0 /\ (adjusted <= paid \/ adjusted = 0)
  BY <1>1 DEF Settles
<1>4. s = IF inv.status = "cancelled" THEN "cancelled"
          ELSE IF adjusted = 0 /\ credited > 0 THEN "credited"
          ELSE IF paid >= adjusted /\ adjusted > 0 THEN "paid"
          ELSE IF paid > 0 THEN "partial"
          ELSE IF inv.sent THEN "sent"
          ELSE IF inv.status \in {"paid", "partial", "credited"} THEN "draft"
          ELSE inv.status
  BY <1>1 DEF Ledger!Synced
<1>5. CASE inv.total > 0 /\ (adjusted <= paid \/ adjusted = 0)
  BY <1>2, <1>3, <1>4, <1>5
<1>6. CASE ~(inv.total > 0 /\ (adjusted <= paid \/ adjusted = 0))
  <2>1. s \notin {"paid", "credited"}
    BY <1>2, <1>4, <1>6
  <2> QED BY <1>3, <1>6, <2>1
<1> QED BY <1>5, <1>6

\* Amounts within what is outstanding keep the invoice from being overpaid.
LEMMA PaidWithin ==
  ASSUME NEW total \in Nat, NEW ps, NEW rs, NEW cs, NEW qs, NEW a \in Nat,
         Ledger!SumOver(ps) \in Nat, Ledger!SumOver(rs) \in Nat, Ledger!SumOver(cs) \in Nat,
         Ledger!SumOver(qs) = Ledger!SumOver(ps) + a, Ledger!Paid(ps, rs) <= total,
         \/ a <= Ledger!Less(Ledger!Adjusted(total, cs), Ledger!SumOver(ps))
         \/ a <= Ledger!Less(Ledger!Adjusted(total, cs), Ledger!Paid(ps, rs))
  PROVE  Ledger!Paid(qs, rs) <= total
BY DEF Ledger!Paid, Ledger!Adjusted, Ledger!Less

LEMMA PaidLess ==
  ASSUME NEW total \in Nat, NEW ps, NEW rs, NEW qs, NEW us, NEW a \in Nat, NEW b \in Nat,
         Ledger!SumOver(qs) \in Nat, Ledger!SumOver(us) \in Nat,
         \/ /\ b <= a /\ Ledger!SumOver(ps) = Ledger!SumOver(qs) + a /\ Ledger!SumOver(rs) = Ledger!SumOver(us) + b
         \/ /\ Ledger!SumOver(ps) = Ledger!SumOver(qs) /\ Ledger!SumOver(rs) \in Nat /\ Ledger!SumOver(us) = Ledger!SumOver(rs) + b,
         Ledger!Paid(ps, rs) <= total
  PROVE  Ledger!Paid(qs, us) <= total
BY DEF Ledger!Paid, Ledger!Less

LEMMA CreditWithin ==
  ASSUME NEW total \in Nat, NEW c \in Nat, NEW a \in Nat, c <= total, a <= Ledger!Less(total, c)
  PROVE  c + a <= total
BY DEF Ledger!Less

LEMMA RefundWithin ==
  ASSUME NEW paid \in Nat, NEW back \in Nat, NEW a \in Nat, back <= paid, a <= Ledger!Less(paid, back)
  PROVE  back + a <= paid
BY DEF Ledger!Less

\* A request alone writes the invoice as it means to.
LEMMA WrittenNew ==
  ASSUME NEW t, InvoiceRow(invoice), entry[t].inv = invoice, InvoiceRow(entry[t].new), entry[t].new.month = invoice.month
  PROVE  Ledger!Written(t) = entry[t].new
<1>1. PICK w, new : w = Ledger!Written(t) /\ new = entry[t].new
  OBVIOUS
<1>2. InvoiceRow(w) /\ w.month = invoice.month /\ w.total = new.total /\ w.status = new.status /\ w.sent = new.sent
  BY <1>1, WrittenRow
<1> QED BY <1>1, <1>2 DEF InvoiceRow

\* Nothing of a request's own matters to the sums but its kind, its row and the invoice it loaded.
LEMMA AfterAgree ==
  ASSUME NEW r, NEW n, n.op = r.op, n.row = r.row, n.id = r.id, n.inv = r.inv
  PROVE  Ledger!InvoiceAfter(n) = Ledger!InvoiceAfter(r)
<1>1. /\ Ledger!PaymentsAfter(n) = Ledger!PaymentsAfter(r) /\ Ledger!RefundsAfter(n) = Ledger!RefundsAfter(r)
      /\ Ledger!CreditsAfter(n) = Ledger!CreditsAfter(r)
  BY DEF Ledger!PaymentsAfter, Ledger!RefundsAfter, Ledger!CreditsAfter
<1> QED BY <1>1 DEF Ledger!InvoiceAfter

LEMMA SerialStart == Ledger!Init => SerialInv
<1> SUFFICES ASSUME Ledger!Init PROVE RowsSound /\ \A t \in Clerks : RequestSound(entry[t])
  BY DEF SerialInv
<1>1. /\ payments = [i \in PayIds |-> Ledger!None] /\ refunds = [i \in RefundIds |-> Ledger!None]
      /\ credits = [i \in CreditIds |-> Ledger!None] /\ invoice = Ledger!None /\ bank = Ledger!None
      /\ \A t \in Clerks : entry[t] = Ledger!Idle
  BY DEF Ledger!Init
<1>2. Ledger!Rows(payments) = {} /\ Ledger!Rows(refunds) = {} /\ Ledger!Rows(credits) = {}
  BY <1>1 DEF Ledger!Rows
<1>3. Amounted(PayIds, payments) /\ Amounted(RefundIds, refunds) /\ Amounted(CreditIds, credits)
  BY <1>1, LedgerAssumption DEF Amounted
<1> QED BY <1>1, <1>2, <1>3 DEF RowsSound, RequestSound

\* Requests go on while invoice and rows stay.
LEMMA RequestSame ==
  ASSUME NEW r, RequestSound(r), invoice' = invoice, payments' = payments, refunds' = refunds, credits' = credits
  PROVE  RequestSound(r)'
<1>1. Ledger!OutstandingGross' = Ledger!OutstandingGross /\ Ledger!OutstandingNet' = Ledger!OutstandingNet
  BY DEF Ledger!OutstandingGross, Ledger!OutstandingNet
<1>2. Ledger!InvoiceAfter(r)' = Ledger!InvoiceAfter(r)
  <2>1. /\ Ledger!PaymentsAfter(r)' = Ledger!PaymentsAfter(r) /\ Ledger!RefundsAfter(r)' = Ledger!RefundsAfter(r)
        /\ Ledger!CreditsAfter(r)' = Ledger!CreditsAfter(r)
    BY DEF Ledger!PaymentsAfter, Ledger!RefundsAfter, Ledger!CreditsAfter
  <2> QED BY <2>1 DEF Ledger!InvoiceAfter
<1> QED BY <1>1, <1>2 DEF RequestSound

LEMMA RowsSame ==
  ASSUME RowsSound, invoice' = invoice, payments' = payments, refunds' = refunds, credits' = credits,
         bank' # Ledger!None => bank'.amount \in Nat
  PROVE  RowsSound'
BY DEF RowsSound

\* A request that loads the invoice when none is under way.
LEMMA SerialLoads ==
  ASSUME LedgerInv, SerialInv, NEW t \in Clerks, NEW op, NEW row, NEW id, Ledger!Load(t, op, row, id),
         NEW r, r = [op |-> op, row |-> row, id |-> id, inv |-> invoice, flushed |-> FALSE, new |-> invoice, open |-> {}],
         ~overlapped => RequestSound(r)
  PROVE  SerialInv'
<1> SUFFICES ASSUME ~overlapped' PROVE RowsSound' /\ \A u \in Clerks : RequestSound(entry[u])'
  BY DEF SerialInv
<1>1. /\ entry' = [entry EXCEPT ![t] = r] /\ overlapped' = (overlapped \/ \E u \in Clerks : entry[u] # Ledger!Idle)
      /\ UNCHANGED <<invoice, payments, refunds, credits, bank>>
  BY DEF Ledger!Load, Ledger!ledger
<1>2. ~overlapped /\ RowsSound /\ \A u \in Clerks : entry[u] = Ledger!Idle
  BY <1>1 DEF SerialInv
<1>3. RowsSound'
  BY <1>1, <1>2, RowsSame DEF RowsSound
<1>4. entry'[t] = r /\ \A u \in Clerks \ {t} : entry'[u] = Ledger!Idle
  BY <1>1, <1>2 DEF LedgerInv, LedgerTyped
<1>5. RequestSound(r)'
  BY <1>1, <1>2, RequestSame
<1>6. RequestSound(Ledger!Idle)'
  BY DEF RequestSound
<1>7. ASSUME NEW u \in Clerks PROVE RequestSound(entry[u])'
  BY <1>4, <1>5, <1>6 DEF RequestSound
<1> QED BY <1>3, <1>7

LEMMA SerialFlush ==
  ASSUME LedgerInv, LedgerInv', SerialInv, NEW t \in Clerks, Ledger!Flush(t) PROVE SerialInv'
<1>1. PICK o : o = entry[t]
  OBVIOUS
<1>2. UNCHANGED <<overlapped, invoice, payments, refunds, credits, bank>> /\ o # Ledger!Idle
  BY <1>1 DEF Ledger!Flush, Ledger!ledger
<1> SUFFICES ASSUME ~overlapped PROVE RowsSound' /\ \A u \in Clerks : RequestSound(entry[u])'
  BY <1>2 DEF SerialInv
<1>3. RowsSound /\ (\A u \in Clerks : RequestSound(entry[u])) /\ o.inv = invoice /\ invoice # Ledger!None /\ InvoiceRow(invoice)
  BY <1>1, <1>2 DEF SerialInv, RequestSound, LedgerInv, LedgerTyped
<1>4. o = [op |-> o.op, row |-> o.row, id |-> o.id, inv |-> o.inv, flushed |-> o.flushed, new |-> o.new, open |-> o.open]
  BY <1>1, <1>2 DEF LedgerInv, EntrySound
<1>5. Ledger!Reloaded(o) = o
  BY <1>3, <1>4 DEF Ledger!Reloaded
<1>6. PICK new, n : /\ o.op # "send" => new = Ledger!InvoiceAfter(o)
                    /\ o.op = "send" => new \in {[o.inv EXCEPT !.status = "sent", !.sent = TRUE], [o.inv EXCEPT !.status = "failed"]}
                    /\ n = [o EXCEPT !.flushed = TRUE, !.open = Months \ locked, !.new = new]
                    /\ entry' = [entry EXCEPT ![t] = n]
  BY <1>1, <1>5 DEF Ledger!Flush
<1>7. n = [op |-> o.op, row |-> o.row, id |-> o.id, inv |-> o.inv, flushed |-> TRUE, new |-> new, open |-> Months \ locked]
  BY <1>4, <1>6
<1>8. n.op = o.op /\ n.row = o.row /\ n.id = o.id /\ n.inv = o.inv /\ n.new = new
  BY <1>7
<1>9. o.op = "send" => new.status \in {"sent", "failed"} /\ new.total = invoice.total
  <2> SUFFICES ASSUME o.op = "send" PROVE new.status \in {"sent", "failed"} /\ new.total = invoice.total
    OBVIOUS
  <2>1. CASE new = [o.inv EXCEPT !.status = "failed"]
    BY <1>3, <2>1, InvoiceSet
  <2>2. CASE new = [o.inv EXCEPT !.status = "sent", !.sent = TRUE]
    <3>1. PICK status, sent : status = "sent" /\ new = SentAs(invoice, status, sent)
      BY <1>3, <2>2 DEF SentAs
    <3> QED BY <1>3, <3>1, InvoiceSent
  <2> QED BY <1>6, <2>1, <2>2
<1>10. RequestSound(n)
  <2>1. Ledger!InvoiceAfter(n) = Ledger!InvoiceAfter(o)
    BY <1>8, AfterAgree
  <2>2. RequestSound(o)
    BY <1>1, <1>3
  <2> QED BY <1>2, <1>6, <1>8, <1>9, <2>1, <2>2 DEF RequestSound
<1>11. entry'[t] = n /\ \A u \in Clerks \ {t} : entry'[u] = entry[u]
  BY <1>6 DEF LedgerInv, LedgerTyped
<1>12. RowsSound'
  BY <1>2, <1>3, RowsSame DEF RowsSound
<1>13. ASSUME NEW u \in Clerks PROVE RequestSound(entry[u])'
  <2>1. PICK x : x = entry'[u] /\ RequestSound(x)
    BY <1>3, <1>10, <1>11
  <2>2. RequestSound(x)'
    BY <1>2, <2>1, RequestSame
  <2> QED BY <2>1, <2>2 DEF RequestSound
<1> QED BY <1>12, <1>13

LEMMA AmountNat ==
  ASSUME NEW a \in Ledger!Amounts PROVE a \in Nat
BY DEF Ledger!Amounts

LEMMA SerialBegins ==
  ASSUME LedgerInv, SerialInv, NEW t \in Clerks, RequestBegins(t) PROVE SerialInv'
<1>1. ASSUME NEW a \in Ledger!Amounts, NEW m \in Months, Ledger!PayBegin(t, a, m) PROVE SerialInv'
  <2>1. PICK row, i : /\ row = [kind |-> "payment", amount |-> a, month |-> m] /\ Ledger!Load(t, "pay", row, i)
                      /\ i \in Ledger!Free(payments) /\ a <= Ledger!OutstandingGross /\ invoice # Ledger!None
    BY <1>1 DEF Ledger!PayBegin
  <2>2. PICK r : r = [op |-> "pay", row |-> row, id |-> i, inv |-> invoice, flushed |-> FALSE, new |-> invoice, open |-> {}]
    OBVIOUS
  <2>3. i \in PayIds /\ payments[i] = Ledger!None
    BY <2>1 DEF Ledger!Free, LedgerInv, LedgerTyped
  <2>4. RequestSound(r)
    BY <2>1, <2>2, <2>3, AmountNat DEF RequestSound
  <2> QED BY <2>1, <2>2, <2>4, SerialLoads
<1>2. ASSUME NEW p \in PayIds, NEW a \in Ledger!Amounts, NEW m \in Months, Ledger!RefundBegin(t, p, a, m) PROVE SerialInv'
  <2>1. PICK row, i : /\ row = [kind |-> "refund", pay |-> p, amount |-> a, month |-> m] /\ Ledger!Load(t, "refund", row, i)
                      /\ i \in Ledger!Free(refunds) /\ payments[p] # Ledger!None
                      /\ a <= Ledger!Less(payments[p].amount, Ledger!Refunded(refunds, p))
    BY <1>2 DEF Ledger!RefundBegin
  <2>2. PICK r : r = [op |-> "refund", row |-> row, id |-> i, inv |-> invoice, flushed |-> FALSE, new |-> invoice, open |-> {}]
    OBVIOUS
  <2>3. i \in RefundIds /\ refunds[i] = Ledger!None /\ p \in Ledger!Rows(payments) /\ invoice # Ledger!None
    BY <2>1 DEF Ledger!Free, Ledger!Rows, LedgerInv, LedgerTyped, Ledger!Load
  <2>4. RequestSound(r)
    BY <2>1, <2>2, <2>3, AmountNat DEF RequestSound
  <2> QED BY <2>1, <2>2, <2>4, SerialLoads
<1>3. ASSUME NEW p \in PayIds, Ledger!DeletePaymentBegin(t, p) PROVE SerialInv'
  <2>1. PICK row : /\ row = payments[p] /\ Ledger!Load(t, "delete_payment", row, p) /\ row # Ledger!None /\ invoice # Ledger!None
    BY <1>3 DEF Ledger!DeletePaymentBegin, Ledger!Load
  <2>2. PICK r : r = [op |-> "delete_payment", row |-> row, id |-> p, inv |-> invoice, flushed |-> FALSE, new |-> invoice, open |-> {}]
    OBVIOUS
  <2>3. RequestSound(r)
    BY <2>1, <2>2 DEF RequestSound
  <2> QED BY <2>1, <2>2, <2>3, SerialLoads
<1>4. ASSUME NEW a \in Ledger!Amounts, Ledger!CreditBegin(t, a) PROVE SerialInv'
  <2>1. PICK row, i : /\ row = [kind |-> "credit", amount |-> a, month |-> today] /\ Ledger!Load(t, "credit", row, i)
                      /\ i \in Ledger!Free(credits) /\ a <= Ledger!Adjusted(invoice.total, credits) /\ invoice # Ledger!None
    BY <1>4 DEF Ledger!CreditBegin
  <2>2. PICK r : r = [op |-> "credit", row |-> row, id |-> i, inv |-> invoice, flushed |-> FALSE, new |-> invoice, open |-> {}]
    OBVIOUS
  <2>3. i \in CreditIds /\ credits[i] = Ledger!None
    BY <2>1 DEF Ledger!Free, LedgerInv, LedgerTyped
  <2>4. RequestSound(r)
    BY <2>1, <2>2, <2>3, AmountNat DEF RequestSound
  <2> QED BY <2>1, <2>2, <2>4, SerialLoads
<1>5. ASSUME Ledger!CancelBegin(t) \/ Ledger!SendBegin(t) \/ Ledger!DeleteInvoiceBegin(t) PROVE SerialInv'
  <2>1. PICK op \in {"cancel", "send", "delete_invoice"} :
               /\ Ledger!Load(t, op, Ledger!None, Ledger!None) /\ invoice # Ledger!None
               /\ op = "send" => invoice.status \notin {"paid", "cancelled", "credited"}
    BY <1>5 DEF Ledger!CancelBegin, Ledger!SendBegin, Ledger!DeleteInvoiceBegin
  <2>2. PICK r : r = [op |-> op, row |-> Ledger!None, id |-> Ledger!None, inv |-> invoice, flushed |-> FALSE, new |-> invoice, open |-> {}]
    OBVIOUS
  <2>3. RequestSound(r)
    BY <2>1, <2>2 DEF RequestSound
  <2> QED BY <2>1, <2>2, <2>3, SerialLoads
<1> QED BY <1>1, <1>2, <1>3, <1>4, <1>5 DEF RequestBegins

LEMMA SerialReconcile ==
  ASSUME LedgerInv, SerialInv, NEW t \in Clerks, Ledger!ReconcileBegin(t) PROVE SerialInv'
<1>1. PICK net : net = Ledger!OutstandingNet
  OBVIOUS
<1>2. PICK row, i, a : /\ a = IF bank.amount < net THEN bank.amount ELSE net
                       /\ row = [kind |-> "payment", month |-> bank.month, amount |-> a]
                       /\ Ledger!Load(t, "reconcile", row, i) /\ i \in Ledger!Free(payments)
                       /\ bank # Ledger!None /\ invoice # Ledger!None
  BY <1>1 DEF Ledger!ReconcileBegin
<1>3. PICK r : r = [op |-> "reconcile", row |-> row, id |-> i, inv |-> invoice, flushed |-> FALSE, new |-> invoice, open |-> {}]
  OBVIOUS
<1>4. i \in PayIds /\ payments[i] = Ledger!None
  BY <1>2 DEF Ledger!Free, LedgerInv, LedgerTyped
<1>5. ASSUME ~overlapped PROVE RequestSound(r)
  <2>1. RowsSound /\ bank.amount \in Nat /\ invoice.total \in Nat
    BY <1>2, <1>5 DEF SerialInv, RowsSound
  <2>2. Ledger!SumOver(payments) \in Nat /\ Ledger!SumOver(refunds) \in Nat /\ Ledger!SumOver(credits) \in Nat
    BY <2>1, SumNat DEF RowsSound
  <2>3. net \in Nat
    BY <1>1, <2>1, <2>2 DEF Ledger!OutstandingNet, Ledger!Adjusted, Ledger!Paid, Ledger!Less
  <2>4. a \in Nat /\ a <= net /\ row.amount = a
    BY <1>2, <2>1, <2>3
  <2> QED BY <1>1, <1>2, <1>3, <1>4, <2>4 DEF RequestSound
<1> QED BY <1>2, <1>3, <1>5, SerialLoads

LEMMA SerialEdit ==
  ASSUME LedgerInv, SerialInv, NEW t \in Clerks, NEW total \in Totals, Ledger!EditBegin(t, total) PROVE SerialInv'
<1>1. PICK row : /\ row = [invoice EXCEPT !.total = total, !.status = "draft"] /\ invoice # Ledger!None
                 /\ Ledger!Load(t, "edit", row, Ledger!None)
                 /\ Ledger!Rows(payments) = {} /\ Ledger!Rows(credits) = {}
  BY DEF Ledger!EditBegin
<1>2. PICK r : r = [op |-> "edit", row |-> row, id |-> Ledger!None, inv |-> invoice, flushed |-> FALSE, new |-> invoice, open |-> {}]
  OBVIOUS
<1>3. PICK old, status, sent, month : invoice = [kind |-> "invoice", total |-> old, status |-> status, sent |-> sent, month |-> month]
  BY <1>1 DEF LedgerInv, LedgerTyped, InvoiceRow
<1>4. row = [kind |-> "invoice", total |-> total, status |-> "draft", sent |-> sent, month |-> month]
  BY <1>1, <1>3
<1>5. row.total = total /\ row.status = "draft" /\ total \in Nat
  BY <1>4, LedgerAssumption
<1>6. RequestSound(r)
  BY <1>1, <1>2, <1>5 DEF RequestSound
<1> QED BY <1>1, <1>2, <1>6, SerialLoads

\* The commit of a request that adds or deletes a row, given what it leaves of the sums.
LEMMA SerialRows ==
  ASSUME LedgerInv, RowsSound, NEW r, invoice # Ledger!None, NEW w, invoice' = w,
         w.total = invoice.total, w.status = Ledger!Synced(invoice, payments', refunds', credits'),
         Amounted(PayIds, payments'), Amounted(RefundIds, refunds'), Amounted(CreditIds, credits'),
         w # Ledger!None, bank' # Ledger!None => bank'.amount \in Nat,
         \A i \in Ledger!Rows(refunds') : refunds'[i].pay \in Ledger!Rows(payments'),
         \A p \in Ledger!Rows(payments') : Ledger!Refunded(refunds', p) <= payments'[p].amount,
         Ledger!Paid(payments', refunds') <= w.total, Ledger!SumOver(credits') <= w.total
  PROVE  RowsSound'
<1>1. PICK ps, rs, cs : ps = payments' /\ rs = refunds' /\ cs = credits'
  OBVIOUS
<1>2. Ledger!SumOver(ps) \in Nat /\ Ledger!SumOver(rs) \in Nat /\ Ledger!SumOver(cs) \in Nat /\ invoice.total \in Nat
  BY <1>1, SumNat DEF RowsSound
<1>3. w.status # "cancelled" => (w.status \in {"paid", "credited"} <=> Settles(invoice.total, ps, rs, cs))
  <2>1. Ledger!SumOver(cs) <= invoice.total /\ Ledger!Paid(ps, rs) <= invoice.total
    BY <1>1
  <2>2. invoice.total = 0 => invoice.status \notin {"paid", "credited"}
    BY <1>2 DEF RowsSound, Balanced, Settles
  <2> QED BY <1>1, <1>2, <2>1, <2>2, SyncedSettles
<1>4. Balanced(w, ps, rs, cs)
  BY <1>1, <1>3 DEF Balanced
<1> QED BY <1>1, <1>2, <1>4 DEF RowsSound

LEMMA SerialCommitRows ==
  ASSUME LedgerInv, LedgerInv', SerialInv, ~overlapped, NEW t \in Clerks, Ledger!Commit(t), NEW r, r = entry[t], r.op \in RowOps
  PROVE  RowsSound'
<1>1. /\ r # Ledger!Idle /\ r.flushed /\ InvoiceRow(invoice) /\ EntrySound(t)
      /\ invoice' = Ledger!Written(t) /\ payments' = Ledger!PaymentsAfter(r)
      /\ refunds' = Ledger!RefundsAfter(r) /\ credits' = Ledger!CreditsAfter(r)
  <2>1. r.op # "delete_invoice"
    BY DEF RowOps
  <2> QED BY <2>1, CommitShape
<1>2. RowsSound /\ RequestSound(r) /\ r.inv = invoice /\ invoice # Ledger!None
  BY <1>1 DEF SerialInv, RequestSound
<1>3. PICK s, w : s = Ledger!Synced(invoice, payments', refunds', credits') /\ w = [invoice EXCEPT !.status = s]
  OBVIOUS
<1>4. r.new = w
  <2>1. r.new = Ledger!InvoiceAfter(r)
    BY <1>1, <1>2 DEF RequestSound, RowOps
  <2>2. r.op \notin {"edit", "cancel"}
    BY DEF RowOps
  <2> QED BY <1>1, <1>2, <1>3, <2>1, <2>2 DEF Ledger!InvoiceAfter
<1>5. InvoiceRow(w) /\ w.month = invoice.month /\ w.total = invoice.total /\ w.status = s /\ w # Ledger!None
  BY <1>1, <1>3, InvoiceSet, RowNotNone
<1>6. invoice' = w
  BY <1>1, <1>2, <1>4, <1>5, WrittenNew
<1>7. bank' # Ledger!None => bank'.amount \in Nat
  <2>1. CASE r.op # "reconcile"
    BY <1>2, <2>1, CommitShape DEF RowsSound
  <2>2. CASE r.op = "reconcile"
    <3>1. bank' = [bank EXCEPT !.status = "matched"] /\ bank # Ledger!None
      BY <1>1, <2>2, CommitShape DEF EntrySound
    <3>2. BankRow(bank) /\ bank.amount \in Nat
      BY <1>2, <3>1 DEF LedgerInv, LedgerTyped, RowsSound
    <3> QED BY <3>1, <3>2, MatchedBank
  <2> QED BY <2>1, <2>2
<1>8. /\ Amounted(PayIds, payments) /\ Amounted(RefundIds, refunds) /\ Amounted(CreditIds, credits)
      /\ \A i \in Ledger!Rows(refunds) : refunds[i].pay \in Ledger!Rows(payments)
      /\ \A p \in Ledger!Rows(payments) : Ledger!Refunded(refunds, p) <= payments[p].amount
      /\ Ledger!Paid(payments, refunds) <= invoice.total /\ Ledger!SumOver(credits) <= invoice.total
      /\ invoice.total \in Nat
  BY <1>2 DEF RowsSound, Balanced
<1>9. /\ Ledger!SumOver(payments) \in Nat /\ Ledger!SumOver(refunds) \in Nat /\ Ledger!SumOver(credits) \in Nat
      /\ \A p : Ledger!Refunded(refunds, p) \in Nat
  BY <1>8, SumNat
<1>10. SUFFICES /\ Amounted(PayIds, payments') /\ Amounted(RefundIds, refunds') /\ Amounted(CreditIds, credits')
                /\ \A i \in Ledger!Rows(refunds') : refunds'[i].pay \in Ledger!Rows(payments')
                /\ \A p \in Ledger!Rows(payments') : Ledger!Refunded(refunds', p) <= payments'[p].amount
                /\ Ledger!Paid(payments', refunds') <= invoice.total /\ Ledger!SumOver(credits') <= invoice.total
  BY <1>2, <1>3, <1>5, <1>6, <1>7, SerialRows
<1>11. CASE r.op \in {"pay", "reconcile"}
  <2>1. Replaced(payments, r.id, r.row, payments') /\ refunds' = refunds /\ credits' = credits
    BY <1>1, <1>11 DEF Ledger!PaymentsAfter, Ledger!RefundsAfter, Ledger!CreditsAfter, Replaced, Purged
  <2>2. r.id \in PayIds /\ payments[r.id] = Ledger!None /\ r.row.amount \in Nat /\ r.row # Ledger!None
    BY <1>1, <1>2, <1>11, RowNotNone DEF RequestSound, EntrySound
  <2>3. Ledger!SumOver(payments') = Ledger!SumOver(payments) + r.row.amount /\ Amounted(PayIds, payments')
    BY <1>8, <2>1, <2>2, SumAdded
  <2>4. Ledger!Paid(payments', refunds) <= invoice.total
    <3>1. \/ r.row.amount <= Ledger!Less(Ledger!Adjusted(invoice.total, credits), Ledger!SumOver(payments))
          \/ r.row.amount <= Ledger!Less(Ledger!Adjusted(invoice.total, credits), Ledger!Paid(payments, refunds))
      BY <1>1, <1>2, <1>11 DEF RequestSound, Ledger!OutstandingGross, Ledger!OutstandingNet
    <3> QED BY <1>8, <1>9, <2>2, <2>3, <3>1, PaidWithin
  <2>5. Ledger!Rows(payments') = Ledger!Rows(payments) \cup {r.id} /\ payments'[r.id] = r.row
        /\ \A p \in Ledger!Rows(payments) : payments'[p] = payments[p]
    BY <1>8, <2>1, <2>2 DEF Amounted, Ledger!Rows, Replaced
  <2>6. Ledger!Refunded(refunds, r.id) = 0
    <3>1. r.id \notin Ledger!Rows(payments)
      BY <2>2 DEF Ledger!Rows
    <3>2. RefundsOf(refunds, r.id) = {}
      BY <1>8, <3>1 DEF RefundsOf
    <3> QED BY <1>8, <3>2, SumNat
  <2>7. \A p \in Ledger!Rows(payments') : Ledger!Refunded(refunds, p) <= payments'[p].amount
    BY <1>8, <2>2, <2>5, <2>6
  <2>8. \A i \in Ledger!Rows(refunds) : refunds[i].pay \in Ledger!Rows(payments')
    BY <1>8, <2>5
  <2> QED BY <1>8, <2>1, <2>3, <2>4, <2>7, <2>8
<1>12. CASE r.op = "refund"
  <2>1. Replaced(refunds, r.id, r.row, refunds') /\ payments' = payments /\ credits' = credits
    BY <1>1, <1>12 DEF Ledger!PaymentsAfter, Ledger!RefundsAfter, Ledger!CreditsAfter, Replaced, Purged
  <2>2. /\ r.id \in RefundIds /\ refunds[r.id] = Ledger!None /\ r.row.amount \in Nat /\ r.row # Ledger!None
        /\ r.row.pay \in Ledger!Rows(payments)
        /\ r.row.amount <= Ledger!Less(payments[r.row.pay].amount, Ledger!Refunded(refunds, r.row.pay))
    BY <1>1, <1>2, <1>12, RowNotNone DEF RequestSound, EntrySound, RowOps
  <2>3. Ledger!SumOver(refunds') = Ledger!SumOver(refunds) + r.row.amount /\ Amounted(RefundIds, refunds')
    BY <1>8, <2>1, <2>2, SumAdded
  <2>4. /\ Ledger!Refunded(refunds', r.row.pay) = Ledger!Refunded(refunds, r.row.pay) + r.row.amount
        /\ \A q : q # r.row.pay => Ledger!Refunded(refunds', q) = Ledger!Refunded(refunds, q)
    BY <1>8, <2>1, <2>2, RefundedAdded
  <2>5. payments[r.row.pay].amount \in Nat /\ Ledger!Refunded(refunds, r.row.pay) <= payments[r.row.pay].amount
    BY <1>8, <2>2, RowsFinite
  <2>6. Ledger!Refunded(refunds, r.row.pay) + r.row.amount <= payments[r.row.pay].amount
    BY <1>9, <2>2, <2>5, RefundWithin
  <2>7. \A p \in Ledger!Rows(payments) : Ledger!Refunded(refunds', p) <= payments[p].amount
    BY <1>8, <2>4, <2>6
  <2>8. Ledger!Paid(payments, refunds') <= invoice.total
    <3>1. Ledger!SumOver(refunds') \in Nat
      BY <1>9, <2>2, <2>3
    <3>2. invoice.total \in Nat /\ Ledger!Paid(payments, refunds) <= invoice.total
      BY <1>8
    <3> QED BY <1>9, <2>2, <2>3, <3>1, <3>2 DEF Ledger!Paid, Ledger!Less
  <2>9. \A i \in Ledger!Rows(refunds') : refunds'[i].pay \in Ledger!Rows(payments)
    <3>1. refunds' = [i \in RefundIds |-> IF i = r.id THEN r.row ELSE refunds[i]]
      BY <1>8, <2>1 DEF Amounted, Replaced
    <3> QED BY <1>8, <2>2, <3>1 DEF Amounted, Ledger!Rows
  <2> QED BY <1>8, <2>1, <2>3, <2>7, <2>8, <2>9
<1>13. CASE r.op = "credit"
  <2>1. Replaced(credits, r.id, r.row, credits') /\ payments' = payments /\ refunds' = refunds
    BY <1>1, <1>13 DEF Ledger!PaymentsAfter, Ledger!RefundsAfter, Ledger!CreditsAfter, Replaced, Purged
  <2>2. /\ r.id \in CreditIds /\ credits[r.id] = Ledger!None /\ r.row.amount \in Nat /\ r.row # Ledger!None
        /\ r.row.amount <= Ledger!Less(invoice.total, Ledger!SumOver(credits))
    BY <1>1, <1>2, <1>13, RowNotNone DEF RequestSound, EntrySound, RowOps, Ledger!Adjusted
  <2>3. Ledger!SumOver(credits') = Ledger!SumOver(credits) + r.row.amount /\ Amounted(CreditIds, credits')
    BY <1>8, <2>1, <2>2, SumAdded
  <2>4. Ledger!SumOver(credits) + r.row.amount <= invoice.total
    BY <1>8, <1>9, <2>2, CreditWithin
  <2> QED BY <1>8, <2>1, <2>3, <2>4
<1>14. CASE r.op = "delete_payment"
  <2>1. /\ Replaced(payments, r.id, Ledger!None, payments') /\ credits' = credits
        /\ Purged(RefundIds, refunds, r.id, refunds')
    BY <1>1, <1>14 DEF Ledger!PaymentsAfter, Ledger!RefundsAfter, Ledger!CreditsAfter, Replaced, Purged
  <2>2. r.id \in PayIds /\ payments[r.id] # Ledger!None /\ r.id \in Ledger!Rows(payments)
    BY <1>1, <1>2, <1>8, <1>14 DEF RequestSound, Ledger!Rows, Amounted
  <2>3. Ledger!SumOver(payments) = Ledger!SumOver(payments') + payments[r.id].amount /\ Amounted(PayIds, payments')
    BY <1>8, <2>1, <2>2, SumRemoved
  <2>4. /\ Ledger!SumOver(refunds) = Ledger!SumOver(refunds') + Ledger!Refunded(refunds, r.id) /\ Amounted(RefundIds, refunds')
        /\ \A q : q # r.id => Ledger!Refunded(refunds', q) = Ledger!Refunded(refunds, q)
    BY <1>8, <2>1, RefundsRemoved
  <2>5. payments[r.id].amount \in Nat /\ Ledger!Refunded(refunds, r.id) <= payments[r.id].amount
    BY <1>8, <2>2, RowsFinite
  <2>6. Ledger!SumOver(payments') \in Nat /\ Ledger!SumOver(refunds') \in Nat
    BY <2>3, <2>4, SumNat
  <2>7. Ledger!Paid(payments', refunds') <= invoice.total
    BY <1>8, <1>9, <2>3, <2>4, <2>5, <2>6, PaidLess
  <2>8. Ledger!Rows(payments') = Ledger!Rows(payments) \ {r.id} /\ \A p \in Ledger!Rows(payments') : payments'[p] = payments[p]
    BY <1>8, <2>1, <2>2 DEF Amounted, Ledger!Rows, Replaced
  <2>9. \A p \in Ledger!Rows(payments') : Ledger!Refunded(refunds', p) <= payments'[p].amount
    BY <1>8, <2>4, <2>8
  <2>10. \A i \in Ledger!Rows(refunds') : refunds'[i].pay \in Ledger!Rows(payments')
    <3>1. \A i \in Ledger!Rows(refunds') : i \in Ledger!Rows(refunds) /\ refunds'[i] = refunds[i] /\ refunds[i].pay # r.id
      BY <1>8, <2>1 DEF Amounted, Ledger!Rows, Purged
    <3> QED BY <1>8, <2>8, <3>1
  <2> QED BY <1>8, <2>1, <2>3, <2>4, <2>7, <2>9, <2>10
<1> QED BY <1>11, <1>12, <1>13, <1>14 DEF RowOps

LEMMA SerialCommitRest ==
  ASSUME LedgerInv, LedgerInv', SerialInv, ~overlapped, NEW t \in Clerks, Ledger!Commit(t), NEW r, r = entry[t], r.op \notin RowOps
  PROVE  RowsSound'
<1>1. /\ r # Ledger!Idle /\ r.flushed /\ InvoiceRow(invoice) /\ EntrySound(t) /\ bank' = bank
      /\ r.op = "delete_invoice" =>
           /\ invoice' = Ledger!None /\ payments' = [i \in PayIds |-> Ledger!None]
           /\ refunds' = [i \in RefundIds |-> Ledger!None] /\ credits' = [i \in CreditIds |-> Ledger!None]
      /\ r.op # "delete_invoice" =>
           /\ invoice' = Ledger!Written(t) /\ payments' = Ledger!PaymentsAfter(r)
           /\ refunds' = Ledger!RefundsAfter(r) /\ credits' = Ledger!CreditsAfter(r)
  <2>1. r.op # "reconcile"
    BY DEF RowOps
  <2> QED BY <2>1, CommitShape
<1>2. RowsSound /\ RequestSound(r) /\ r.inv = invoice /\ invoice # Ledger!None
  BY <1>1 DEF SerialInv, RequestSound
<1>3. CASE r.op = "delete_invoice"
  <2>1. Ledger!Rows(payments') = {} /\ Ledger!Rows(refunds') = {} /\ Ledger!Rows(credits') = {}
    BY <1>1, <1>3 DEF Ledger!Rows
  <2>2. Amounted(PayIds, payments') /\ Amounted(RefundIds, refunds') /\ Amounted(CreditIds, credits')
    BY <1>1, <1>3, LedgerAssumption DEF Amounted
  <2> QED BY <1>1, <1>2, <1>3, <2>1, <2>2 DEF RowsSound
<1>4. CASE r.op # "delete_invoice"
  <2>1. payments' = payments /\ refunds' = refunds /\ credits' = credits
    BY <1>1, <1>4 DEF Ledger!PaymentsAfter, Ledger!RefundsAfter, Ledger!CreditsAfter, RowOps
  <2>2. PICK w : w = r.new
    OBVIOUS
  <2>3. InvoiceRow(w) /\ w.month = invoice.month /\ w # Ledger!None
    BY <1>1, <1>2, <2>2, RowNotNone DEF EntrySound
  <2>4. invoice' = w
    BY <1>1, <1>2, <1>4, <2>2, <2>3, WrittenNew
  <2>5. r.op \in {"cancel", "send", "edit"}
    BY <1>1, <1>4 DEF EntrySound, EntryOps
  <2>6. SUFFICES w.total \in Nat /\ Balanced(w, payments, refunds, credits)
    BY <1>1, <1>2, <2>1, <2>3, <2>4 DEF RowsSound
  <2>7. invoice.total \in Nat /\ Balanced(invoice, payments, refunds, credits)
    BY <1>2 DEF RowsSound
  <2>8. CASE r.op = "cancel"
    <3>1. w = [invoice EXCEPT !.status = "cancelled"]
      BY <1>1, <1>2, <2>2, <2>8 DEF RequestSound, Ledger!InvoiceAfter
    <3>2. w.total = invoice.total /\ w.status = "cancelled"
      BY <1>1, <3>1, InvoiceSet
    <3> QED BY <2>7, <3>2 DEF Balanced
  <2>9. CASE r.op = "send"
    <3>1. w.status \in {"sent", "failed"} /\ w.total = invoice.total /\ invoice.status \notin {"paid", "cancelled", "credited"}
      BY <1>1, <1>2, <2>2, <2>9 DEF RequestSound
    <3> QED BY <2>7, <3>1 DEF Balanced
  <2>10. CASE r.op = "edit"
    <3>1. /\ w = r.row /\ w.total \in Nat /\ w.status = "draft" /\ Ledger!Rows(payments) = {} /\ Ledger!Rows(credits) = {}
      BY <1>1, <1>2, <2>2, <2>10 DEF RequestSound, Ledger!InvoiceAfter
    <3>2. Ledger!SumOver(payments) = 0 /\ Ledger!SumOver(credits) = 0 /\ Ledger!SumOver(refunds) \in Nat
      BY <1>2, <3>1, SumNat DEF RowsSound
    <3>3. Ledger!Paid(payments, refunds) = 0 /\ Ledger!Adjusted(w.total, credits) = w.total
      BY <3>1, <3>2 DEF Ledger!Paid, Ledger!Adjusted, Ledger!Less
    <3>4. ~Settles(w.total, payments, refunds, credits)
      BY <3>1, <3>3 DEF Settles
    <3> QED BY <3>1, <3>2, <3>3, <3>4 DEF Balanced
  <2> QED BY <2>5, <2>8, <2>9, <2>10
<1> QED BY <1>3, <1>4

LEMMA SerialCommit ==
  ASSUME LedgerInv, LedgerInv', SerialInv, NEW t \in Clerks, Ledger!Commit(t) PROVE SerialInv'
<1>1. PICK r : r = entry[t]
  OBVIOUS
<1>2. r # Ledger!Idle /\ entry' = [entry EXCEPT ![t] = Ledger!Idle] /\ overlapped' = overlapped
  BY <1>1, CommitShape
<1> SUFFICES ASSUME ~overlapped PROVE RowsSound' /\ \A u \in Clerks : RequestSound(entry[u])'
  BY <1>2 DEF SerialInv
<1>3. RowsSound'
  BY <1>1, SerialCommitRows, SerialCommitRest
<1>4. \A u \in Clerks : entry'[u] = Ledger!Idle
  BY <1>1, <1>2 DEF LedgerInv, LedgerAlone, LedgerTyped
<1>5. ASSUME NEW u \in Clerks PROVE RequestSound(entry[u])'
  BY <1>4 DEF RequestSound
<1> QED BY <1>3, <1>5

LEMMA SerialAbandon ==
  ASSUME LedgerInv, SerialInv, NEW t \in Clerks, Ledger!Abandon(t) PROVE SerialInv'
<1>1. entry' = [entry EXCEPT ![t] = Ledger!Idle] /\ UNCHANGED <<overlapped, invoice, payments, refunds, credits, bank>>
  BY DEF Ledger!Abandon, Ledger!ledger
<1> SUFFICES ASSUME ~overlapped PROVE RowsSound' /\ \A u \in Clerks : RequestSound(entry[u])'
  BY <1>1 DEF SerialInv
<1>2. RowsSound'
  BY <1>1, RowsSame DEF SerialInv, RowsSound
<1>3. entry'[t] = Ledger!Idle /\ \A u \in Clerks \ {t} : entry'[u] = entry[u]
  BY <1>1 DEF LedgerInv, LedgerTyped
<1>4. ASSUME NEW u \in Clerks PROVE RequestSound(entry[u])'
  <2>1. CASE u = t
    BY <1>3, <2>1 DEF RequestSound
  <2>2. CASE u # t
    <3>1. PICK x : x = entry[u]
      OBVIOUS
    <3>2. RequestSound(x)'
      BY <1>1, <3>1, RequestSame DEF SerialInv
    <3> QED BY <1>3, <2>2, <3>1, <3>2 DEF RequestSound
  <2> QED BY <2>1, <2>2
<1> QED BY <1>2, <1>4

LEMMA SerialLone ==
  ASSUME SerialInv, entry' = entry, overlapped' = overlapped, UNCHANGED <<invoice, payments, refunds, credits>>,
         ~overlapped => (bank' # Ledger!None => bank'.amount \in Nat)
  PROVE  SerialInv'
<1> SUFFICES ASSUME ~overlapped PROVE RowsSound' /\ \A u \in Clerks : RequestSound(entry[u])'
  BY DEF SerialInv
<1>1. RowsSound'
  BY RowsSame DEF SerialInv
<1>2. ASSUME NEW u \in Clerks PROVE RequestSound(entry[u])'
  <2>1. PICK x : x = entry[u]
    OBVIOUS
  <2>2. RequestSound(x)'
    BY <2>1, RequestSame DEF SerialInv
  <2> QED BY <2>1, <2>2 DEF RequestSound
<1> QED BY <1>1, <1>2

LEMMA SerialCreates ==
  ASSUME LedgerInv, SerialInv, NEW a \in Totals, Ledger!CreateInvoice(a) PROVE SerialInv'
<1>1. PICK sent, x : /\ x = [kind |-> "invoice", total |-> a, status |-> "draft", sent |-> sent, month |-> today] /\ invoice' = x
                     /\ \A t \in Clerks : entry[t] = Ledger!Idle
                     /\ invoice = Ledger!None /\ UNCHANGED <<payments, refunds, credits, bank, entry, overlapped>>
  BY DEF Ledger!CreateInvoice, Ledger!Alone
<1> SUFFICES ASSUME ~overlapped PROVE RowsSound' /\ \A u \in Clerks : RequestSound(entry[u])'
  BY <1>1 DEF SerialInv
<1>2. RowsSound /\ Ledger!Rows(payments) = {} /\ Ledger!Rows(refunds) = {} /\ Ledger!Rows(credits) = {}
  BY <1>1 DEF SerialInv, RowsSound
<1>3. Ledger!SumOver(payments) = 0 /\ Ledger!SumOver(credits) = 0 /\ Ledger!SumOver(refunds) = 0
  BY <1>2, SumNat DEF RowsSound
<1>4. x.total = a /\ x.status = "draft" /\ a \in Nat /\ x # Ledger!None
  BY <1>1, LedgerAssumption, NoneKind
<1>5. Ledger!Paid(payments, refunds) = 0 /\ Ledger!Adjusted(a, credits) = a
  BY <1>3, <1>4 DEF Ledger!Paid, Ledger!Adjusted, Ledger!Less
<1>6. ~Settles(x.total, payments, refunds, credits)
  BY <1>4, <1>5 DEF Settles
<1>7. Balanced(x, payments, refunds, credits)
  BY <1>2, <1>3, <1>4, <1>5, <1>6 DEF Balanced
<1>8. RowsSound'
  BY <1>1, <1>2, <1>4, <1>7 DEF RowsSound
<1>9. ASSUME NEW u \in Clerks PROVE RequestSound(entry[u])'
  BY <1>1 DEF RequestSound
<1> QED BY <1>8, <1>9

LEMMA SerialBank ==
  ASSUME LedgerInv, SerialInv, (\E a \in Ledger!Amounts, m \in Months : Ledger!ImportBankRow(a, m)) \/ Ledger!IgnoreBankRow
  PROVE  SerialInv'
<1>1. ASSUME NEW a \in Ledger!Amounts, NEW m \in Months, Ledger!ImportBankRow(a, m) PROVE SerialInv'
  <2>1. /\ bank' = [kind |-> "bank", amount |-> a, month |-> m, status |-> "unmatched"]
        /\ UNCHANGED <<invoice, payments, refunds, credits, entry, overlapped>>
    BY <1>1 DEF Ledger!ImportBankRow, Ledger!Alone
  <2>2. bank'.amount \in Nat
    BY <2>1, AmountNat
  <2> QED BY <2>1, <2>2, SerialLone
<1>2. ASSUME Ledger!IgnoreBankRow PROVE SerialInv'
  <2>1. /\ bank' = [bank EXCEPT !.status = "ignored"] /\ bank # Ledger!None
        /\ UNCHANGED <<invoice, payments, refunds, credits, entry, overlapped>>
    BY <1>2 DEF Ledger!IgnoreBankRow, Ledger!Alone
  <2>2. BankRow(bank) /\ (~overlapped => bank.amount \in Nat)
    BY <2>1 DEF LedgerInv, LedgerTyped, SerialInv, RowsSound
  <2>3. bank'.amount = bank.amount
    BY <2>1, <2>2, MatchedBank
  <2> QED BY <2>1, <2>2, <2>3, SerialLone
<1> QED BY <1>1, <1>2

LEMMA SerialStep ==
  LedgerInv /\ LedgerInv' /\ SerialInv /\ [Ledger!Next]_(Ledger!vars) => SerialInv'
<1> SUFFICES ASSUME LedgerInv, LedgerInv', SerialInv, [Ledger!Next]_(Ledger!vars) PROVE SerialInv'
  OBVIOUS
<1>1. ASSUME NEW t \in Clerks, RequestBegins(t) PROVE SerialInv'
  BY <1>1, SerialBegins
<1>2. ASSUME NEW t \in Clerks, Ledger!ReconcileBegin(t) PROVE SerialInv'
  BY <1>2, SerialReconcile
<1>3. ASSUME NEW t \in Clerks, NEW a \in Totals, Ledger!EditBegin(t, a) PROVE SerialInv'
  BY <1>3, SerialEdit
<1>4. ASSUME NEW t \in Clerks, Ledger!Flush(t) \/ Ledger!Commit(t) \/ Ledger!Abandon(t) PROVE SerialInv'
  BY <1>4, SerialFlush, SerialCommit, SerialAbandon
<1>5. ASSUME \/ \E m \in Months : Ledger!CreateExpense(m) \/ Ledger!ClosePeriod(m) \/ Ledger!OpenPeriod(m)
             \/ Ledger!VoidExpense \/ Ledger!NextMonth \/ UNCHANGED Ledger!vars
      PROVE  SerialInv'
  <2>1. UNCHANGED <<invoice, payments, refunds, credits, bank, entry, overlapped>>
    BY <1>5 DEF Ledger!CreateExpense, Ledger!ClosePeriod, Ledger!OpenPeriod, Ledger!VoidExpense, Ledger!NextMonth,
                Ledger!vars, Ledger!ledger, Ledger!Alone
  <2>2. ~overlapped => (bank' # Ledger!None => bank'.amount \in Nat)
    BY <2>1 DEF SerialInv, RowsSound
  <2> QED BY <2>1, <2>2, SerialLone
<1> QED BY <1>1, <1>2, <1>3, <1>4, <1>5, NextCases, SerialCreates, SerialBank

\* While requests on the invoice come one at a time the books balance: no payment is refunded
\* beyond its amount, the invoice is never paid or credited beyond its total, and its status says
\* settled exactly when the money does, for any number of payments, refunds and credit notes.
THEOREM LedgerBalances == Ledger!Spec => []SerialLedgerSound
<1>1. SerialInv => SerialLedgerSound
  BY DEF SerialInv, RowsSound, Balanced, Settles, SerialLedgerSound, Ledger!SerialLedgerSound, Ledger!Settled
<1> QED BY <1>1, LedgerStart, LedgerStep, SerialStart, SerialStep, PTL DEF Ledger!Spec
-----------------------------------------------------------------------------
(* Binomial coefficients.                                                  *)

Times(g, n) == IF n = 0 THEN 1 ELSE n * g[n - 1]
Factorials(g, top) == g = [n \in 0..top |-> Times(g, n)]

LEMMA FactorialsAgree ==
  ASSUME NEW g, NEW h, NEW m \in Nat, NEW n \in Nat, Factorials(g, m), Factorials(h, n)
  PROVE  \A k \in Nat : k <= m /\ k <= n => g[k] = h[k]
<1>1. PICK B : B = {k \in Nat : k <= m /\ k <= n /\ g[k] # h[k]}
  OBVIOUS
<1>2. SUFFICES ASSUME B # {} PROVE FALSE
  BY <1>1
<1>3. PICK k \in B : \A j \in B : k <= j
  BY <1>1, <1>2, LeastNumber
<1>4. k \in Nat /\ k <= m /\ k <= n /\ g[k] # h[k]
  BY <1>1
<1>5. g[k] = Times(g, k) /\ h[k] = Times(h, k)
  <2>1. k \in 0..m /\ k \in 0..n
    BY <1>4
  <2>2. g = [i \in 0..m |-> Times(g, i)] /\ h = [i \in 0..n |-> Times(h, i)]
    BY DEF Factorials
  <2>3. g[k] = Times(g, k)
    BY <2>1, <2>2
  <2>4. h[k] = Times(h, k)
    BY <2>1, <2>2
  <2> QED BY <2>3, <2>4
<1>6. CASE k = 0
  BY <1>4, <1>5, <1>6 DEF Times
<1>7. CASE k # 0
  <2>1. k - 1 \in Nat /\ k - 1 \notin B /\ k - 1 <= m /\ k - 1 <= n
    BY <1>3, <1>4, <1>7
  <2>2. g[k - 1] = h[k - 1]
    BY <1>1, <2>1
  <2> QED BY <1>4, <1>5, <1>7, <2>2 DEF Times
<1> QED BY <1>6, <1>7

LEMMA FactorialsExist ==
  ASSUME NEW n \in Nat PROVE \E g : Factorials(g, n)
<1>1. PICK B : B = {k \in Nat : ~\E g : Factorials(g, k)}
  OBVIOUS
<1>2. SUFFICES ASSUME B # {} PROVE FALSE
  BY <1>1
<1>3. PICK k \in B : \A j \in B : k <= j
  BY <1>1, <1>2, LeastNumber
<1>4. k \in Nat
  BY <1>1
<1>5. CASE k = 0
  <2>1. PICK g : g = [i \in 0..0 |-> 1]
    OBVIOUS
  <2>2. Factorials(g, 0)
    BY <2>1 DEF Factorials, Times
  <2> QED BY <1>1, <1>5, <2>2
<1>6. CASE k # 0
  <2>1. k - 1 \in Nat /\ k - 1 \notin B
    BY <1>3, <1>4, <1>6
  <2>2. PICK g : Factorials(g, k - 1)
    BY <1>1, <2>1
  <2>3. PICK h : h = [i \in 0..k |-> IF i <= k - 1 THEN g[i] ELSE Times(g, i)]
    OBVIOUS
  <2>4. ASSUME NEW i \in 0..k PROVE h[i] = Times(h, i)
    <3>1. h[i] = Times(g, i)
      BY <1>4, <2>2, <2>3 DEF Factorials
    <3>2. i # 0 => h[i - 1] = g[i - 1]
      BY <1>4, <2>3
    <3> QED BY <3>1, <3>2 DEF Times
  <2>5. Factorials(h, k)
    BY <2>3, <2>4 DEF Factorials
  <2> QED BY <1>1, <1>3, <2>5
<1> QED BY <1>5, <1>6

Table(n) == CHOOSE g : Factorials(g, n)

LEMMA FactorialRow ==
  factorial = [n \in Nat |-> Times(factorial, n)]
<1>1. PICK f : f = [n \in Nat |-> Table(n)[n]]
  OBVIOUS
<1>2. ASSUME NEW n \in Nat PROVE f[n] = Times(f, n)
  <2>1. \A m \in Nat : Factorials(Table(m), m)
    BY FactorialsExist DEF Table
  <2>2. f[n] = Times(Table(n), n)
    BY <1>1, <2>1 DEF Factorials
  <2>3. CASE n = 0
    BY <2>2, <2>3 DEF Times
  <2>4. CASE n # 0
    <3>1. n - 1 \in Nat /\ n - 1 <= n
      BY <2>4
    <3>2. Factorials(Table(n), n) /\ Factorials(Table(n - 1), n - 1)
      BY <2>1, <3>1
    <3>3. Table(n)[n - 1] = Table(n - 1)[n - 1]
      BY <3>1, <3>2, FactorialsAgree
    <3>4. f[n - 1] = Table(n - 1)[n - 1]
      BY <1>1, <3>1
    <3> QED BY <2>2, <2>4, <3>3, <3>4 DEF Times
  <2> QED BY <2>3, <2>4
<1>3. f = [n \in Nat |-> Times(f, n)]
  BY <1>1, <1>2
<1>4. \E g : g = [n \in Nat |-> Times(g, n)]
  BY <1>3
<1>5. factorial = CHOOSE g : g = [n \in Nat |-> Times(g, n)]
  BY DEF factorial, Times
<1> QED BY <1>4, <1>5

LEMMA FactorialStep ==
  /\ factorial[0] = 1
  /\ \A n \in Nat : factorial[n + 1] = (n + 1) * factorial[n]
<1>1. \A n \in Nat : factorial[n] = Times(factorial, n)
  BY FactorialRow
<1>2. factorial[0] = 1
  BY <1>1 DEF Times
<1>3. ASSUME NEW n \in Nat PROVE factorial[n + 1] = (n + 1) * factorial[n]
  <2>1. n + 1 \in Nat /\ n + 1 # 0 /\ (n + 1) - 1 = n
    OBVIOUS
  <2> QED BY <1>1, <2>1 DEF Times
<1> QED BY <1>2, <1>3

LEMMA FactorialPositive ==
  \A n \in Nat : factorial[n] \in Nat \ {0}
<1>1. PICK B : B = {k \in Nat : factorial[k] \notin Nat \ {0}}
  OBVIOUS
<1>2. SUFFICES ASSUME B # {} PROVE FALSE
  BY <1>1
<1>3. PICK k \in B : \A j \in B : k <= j
  BY <1>1, <1>2, LeastNumber
<1>4. k \in Nat /\ k # 0
  BY <1>1, FactorialStep
<1>5. PICK i \in Nat : k = i + 1
  <2>1. k - 1 \in Nat /\ k = (k - 1) + 1
    BY <1>4
  <2> QED BY <2>1
<1>6. i \notin B
  BY <1>3, <1>5
<1>7. factorial[i] \in Nat \ {0} /\ factorial[k] = (i + 1) * factorial[i]
  BY <1>1, <1>5, <1>6, FactorialStep
<1>8. \A a, b \in Nat \ {0} : a * b \in Nat \ {0}
  OBVIOUS
<1>9. i + 1 \in Nat \ {0}
  OBVIOUS
<1> QED BY <1>1, <1>7, <1>8, <1>9

\* The number of ways is exact: p times the two factorials.
Ways(x, y, p) == p \in Nat /\ factorial[x + y] = p * (factorial[x] * factorial[y])

LEMMA WaysAdd ==
  ASSUME NEW x \in Nat, NEW y \in Nat, NEW p, NEW q, Ways(x, y + 1, p), Ways(x + 1, y, q)
  PROVE  Ways(x + 1, y + 1, p + q)
<1>1. PICK f \in Nat, g \in Nat, m \in Nat : f = factorial[x] /\ g = factorial[y] /\ m = factorial[x + y + 1]
  BY FactorialPositive
<1>2. factorial[x + 1] = (x + 1) * f /\ factorial[y + 1] = (y + 1) * g
  BY <1>1, FactorialStep
<1>3. factorial[(x + 1) + (y + 1)] = ((x + 1) + (y + 1)) * m
  <2>1. x + y + 1 \in Nat /\ (x + 1) + (y + 1) = (x + y + 1) + 1
    OBVIOUS
  <2>2. factorial[(x + y + 1) + 1] = ((x + y + 1) + 1) * factorial[x + y + 1]
    BY <2>1, FactorialStep
  <2> QED BY <1>1, <2>1, <2>2
<1>4. x + (y + 1) = x + y + 1 /\ (x + 1) + y = x + y + 1
  OBVIOUS
<1>5. p \in Nat /\ q \in Nat /\ m = p * (f * ((y + 1) * g)) /\ m = q * (((x + 1) * f) * g)
  BY <1>1, <1>2, <1>4 DEF Ways
<1>6. PICK a \in Nat, b \in Nat : a = x + 1 /\ b = y + 1
  OBVIOUS
<1>7. m = p * (f * (b * g)) /\ m = q * ((a * f) * g)
  BY <1>5, <1>6
<1>8. a * (p * (f * (b * g))) = p * ((a * f) * (b * g))
  BY <1>5, <1>6
<1>9. b * (q * ((a * f) * g)) = q * ((a * f) * (b * g))
  BY <1>5, <1>6
<1>10. PICK d \in Nat : d = (a * f) * (b * g)
  OBVIOUS
<1>11. a * m = p * d /\ b * m = q * d
  BY <1>7, <1>8, <1>9, <1>10
<1>12. (a + b) * m = a * m + b * m /\ (p + q) * d = p * d + q * d
  BY <1>5
<1> QED BY <1>2, <1>3, <1>5, <1>6, <1>10, <1>11, <1>12 DEF Ways

LEMMA WaysExist ==
  ASSUME NEW x \in Nat, NEW y \in Nat PROVE \E p : Ways(x, y, p)
<1>1. PICK B : B = {s \in Nat : \E i, j \in Nat : i + j = s /\ ~\E p : Ways(i, j, p)}
  OBVIOUS
<1>2. SUFFICES ASSUME B # {} PROVE FALSE
  <2>1. x + y \in Nat
    OBVIOUS
  <2> QED BY <1>1, <2>1
<1>3. PICK s \in B : \A k \in B : s <= k
  BY <1>1, <1>2, LeastNumber
<1>4. PICK i \in Nat, j \in Nat : i + j = s /\ ~\E p : Ways(i, j, p)
  BY <1>1, Zenon
<1>5. CASE i = 0 \/ j = 0
  <2>1. Ways(i, j, 1)
    <3>1. PICK f \in Nat : f = factorial[s]
      BY <1>4, FactorialPositive
    <3>2. factorial[i] * factorial[j] = f
      BY <1>4, <1>5, <3>1, FactorialStep
    <3> QED BY <1>4, <3>1, <3>2 DEF Ways
  <2> QED BY <1>4, <2>1
<1>6. CASE i # 0 /\ j # 0
  <2>1. PICK a \in Nat, b \in Nat : i = a + 1 /\ j = b + 1
    <3>1. i - 1 \in Nat /\ i = (i - 1) + 1 /\ j - 1 \in Nat /\ j = (j - 1) + 1
      BY <1>6
    <3> QED BY <3>1
  <2>2. a + (b + 1) \in Nat /\ a + (b + 1) < s /\ (a + 1) + b = a + (b + 1)
    BY <1>4, <2>1
  <2>3. a + (b + 1) \notin B
    BY <1>3, <1>4, <2>2
  <2>4. PICK p : Ways(a, b + 1, p)
    BY <1>1, <2>2, <2>3
  <2>5. PICK q : Ways(a + 1, b, q)
    BY <1>1, <2>2, <2>3
  <2> QED BY <1>4, <2>1, <2>4, <2>5, WaysAdd
<1> QED BY <1>5, <1>6

LEMMA ChooseWays ==
  ASSUME NEW x \in Nat, NEW y \in Nat, NEW p, Ways(x, y, p) PROVE choose(x + y, y) = p
<1>1. PICK d \in Nat \ {0} : d = factorial[x] * factorial[y]
  BY FactorialPositive
<1>2. (x + y) - y = x /\ factorial[y] * factorial[x] = d
  BY <1>1, FactorialPositive
<1>3. p \in Nat /\ factorial[x + y] = p * d
  BY <1>1 DEF Ways
<1>4. (p * d) \div d = p
  BY <1>3
<1> QED BY <1>2, <1>3, <1>4 DEF choose

\* The recurrence that counts the failed attempts: from a count x below the limit with z
\* requests that may still take it back.
Paths(x, z) == IF z = 0 THEN 0 ELSE choose(x + (z - 1), z - 1)

LEMMA PathsCount ==
  ASSUME NEW x \in Nat, NEW z \in Nat
  PROVE  /\ Paths(x, z) \in Nat /\ Paths(0, z + 1) = 1 /\ Paths(x, 1) = 1
         /\ Paths(x + 1, z + 1) = Paths(x, z + 1) + Paths(x + 1, z)
<1>1. ASSUME NEW a \in Nat, NEW b \in Nat PROVE choose(a + b, b) \in Nat /\ Ways(a, b, choose(a + b, b))
  BY WaysExist, ChooseWays DEF Ways
<1>2. \A a, b \in Nat : Paths(a, b + 1) = choose(a + b, b)
  BY DEF Paths
<1>3. \A a \in Nat : Paths(a, 0) = 0
  BY DEF Paths
<1>4. Paths(x, z) \in Nat
  <2>1. CASE z # 0
    <3>1. z - 1 \in Nat
      BY <2>1
    <3> QED BY <1>1, <2>1, <3>1 DEF Paths
  <2> QED BY <1>3, <2>1
<1>5. Ways(0, z, 1) /\ \A a \in Nat : Ways(a, 0, 1)
  <2>1. ASSUME NEW a \in Nat PROVE factorial[a] \in Nat /\ factorial[0] = 1 /\ 0 + a = a /\ a + 0 = a
    BY FactorialPositive, FactorialStep
  <2> QED BY <2>1 DEF Ways
<1>6. Paths(0, z + 1) = 1 /\ Paths(x, 0 + 1) = 1 /\ 0 + 1 = 1
  BY <1>2, <1>5, ChooseWays
<1>7. CASE z = 0
  <2>1. Paths(x + 1, 0 + 1) = 1
    BY <1>2, <1>5, ChooseWays
  <2> QED BY <1>3, <1>4, <1>6, <1>7, <2>1
<1>8. CASE z # 0
  <2>1. PICK b \in Nat : z = b + 1
    <3>1. z - 1 \in Nat /\ z = (z - 1) + 1
      BY <1>8
    <3> QED BY <3>1
  <2>2. Ways(x, b + 1, choose(x + (b + 1), b + 1)) /\ Ways(x + 1, b, choose((x + 1) + b, b))
    BY <1>1
  <2>3. Ways(x + 1, b + 1, choose(x + (b + 1), b + 1) + choose((x + 1) + b, b))
    BY <2>2, WaysAdd
  <2>4. choose((x + 1) + (b + 1), b + 1) = choose(x + (b + 1), b + 1) + choose((x + 1) + b, b)
    BY <2>3, ChooseWays
  <2> QED BY <1>2, <1>4, <1>6, <2>1, <2>4
<1> QED BY <1>7, <1>8

LEMMA PathsNat == \A x, z \in Nat : Paths(x, z) \in Nat
BY PathsCount

LEMMA PathsStep ==
  /\ \A z \in Nat \ {0} : Paths(0, z) = 1
  /\ \A x, z \in Nat \ {0} : Paths(x, z) = Paths(x - 1, z) + Paths(x, z - 1)
<1>1. ASSUME NEW z \in Nat \ {0} PROVE Paths(0, z) = 1
  <2>1. z - 1 \in Nat /\ (z - 1) + 1 = z
    OBVIOUS
  <2>2. Paths(0, (z - 1) + 1) = 1
    BY <2>1, PathsCount
  <2> QED BY <2>1, <2>2
<1>2. ASSUME NEW x \in Nat \ {0}, NEW z \in Nat \ {0} PROVE Paths(x, z) = Paths(x - 1, z) + Paths(x, z - 1)
  <2>1. x - 1 \in Nat /\ (x - 1) + 1 = x /\ z - 1 \in Nat /\ (z - 1) + 1 = z
    OBVIOUS
  <2>2. Paths((x - 1) + 1, (z - 1) + 1) = Paths(x - 1, (z - 1) + 1) + Paths((x - 1) + 1, z - 1)
    BY <2>1, PathsCount
  <2> QED BY <2>1, <2>2
<1> QED BY <1>1, <1>2

LEMMA PathsGrow ==
  ASSUME NEW x \in Nat, NEW z \in Nat, NEW y \in Nat, y <= z PROVE Paths(x, y) <= Paths(x, z)
<1>1. ASSUME NEW a \in Nat, NEW b \in Nat PROVE Paths(a, b) <= Paths(a, b + 1)
  <2>1. b + 1 \in Nat \ {0} /\ (b + 1) - 1 = b
    OBVIOUS
  <2>2. CASE a = 0
    <3>1. Paths(0, 0) = 0
      BY DEF Paths
    <3>2. b # 0 => Paths(0, b) = 1
      BY PathsStep
    <3>3. Paths(0, b + 1) = 1
      BY <2>1, PathsStep
    <3> QED BY <2>2, <3>1, <3>2, <3>3
  <2>3. CASE a # 0
    <3>1. a - 1 \in Nat /\ a \in Nat \ {0}
      BY <2>3
    <3>2. Paths(a, b + 1) = Paths(a - 1, b + 1) + Paths(a, (b + 1) - 1)
      BY <2>1, <3>1, PathsStep
    <3>3. Paths(a - 1, b + 1) \in Nat /\ Paths(a, b) \in Nat
      BY <2>1, <3>1, PathsNat
    <3> QED BY <2>1, <3>2, <3>3
  <2> QED BY <2>2, <2>3
<1>2. \A b \in Nat : Paths(x, b) \in Nat
  BY PathsNat
<1>3. PICK B : B = {b \in Nat : y <= b /\ ~(Paths(x, y) <= Paths(x, b))}
  OBVIOUS
<1>4. SUFFICES ASSUME B # {} PROVE FALSE
  BY <1>3
<1>5. PICK b \in B : \A k \in B : b <= k
  BY <1>3, <1>4, LeastNumber
<1>6. b \in Nat /\ y <= b /\ b # y /\ ~(Paths(x, y) <= Paths(x, b))
  BY <1>2, <1>3
<1>7. b - 1 \in Nat /\ (b - 1) + 1 = b /\ y <= b - 1 /\ b - 1 \notin B
  BY <1>5, <1>6
<1>8. Paths(x, y) <= Paths(x, b - 1) /\ Paths(x, b - 1) <= Paths(x, b)
  BY <1>1, <1>3, <1>7
<1> QED BY <1>2, <1>6, <1>7, <1>8

-----------------------------------------------------------------------------
(* How many failures fit below a limit.  A failure that had read the count l puts it at l + 1, *)
(* and above[j] requests, those of a count above j, may not fail at j or below any more: h[j]  *)
(* bounds the failures so far that had read a count below j.                                    *)

Spread(M, above, g) ==
  \E h \in [0..M -> Nat] :
    /\ h[0] = 0 /\ h[M] = g
    /\ \A j \in 0..(M - 1) : h[j + 1] <= h[j] + Paths(M - j, above[j])

Falling(M, above) == above \in [0..M -> Nat] /\ \A i, j \in 0..M : i <= j => above[j] <= above[i]

LEMMA SpreadStart ==
  ASSUME NEW M \in Nat, NEW above \in [0..M -> Nat] PROVE Spread(M, above, 0)
<1>1. PICK h : h = [j \in 0..M |-> 0]
  OBVIOUS
<1>2. h \in [0..M -> Nat] /\ h[0] = 0 /\ h[M] = 0
  BY <1>1
<1>3. ASSUME NEW j \in 0..(M - 1) PROVE h[j + 1] <= h[j] + Paths(M - j, above[j])
  <2>1. j \in 0..M /\ j + 1 \in 0..M /\ M - j \in Nat
    OBVIOUS
  <2>2. above[j] \in Nat
    BY <2>1
  <2>3. Paths(M - j, above[j]) \in Nat
    BY <2>1, <2>2, PathsNat
  <2> QED BY <1>1, <2>1, <2>3
<1> QED BY <1>2, <1>3 DEF Spread

LEMMA SpreadKept ==
  ASSUME NEW M \in Nat, NEW above \in [0..M -> Nat], NEW beyond \in [0..M -> Nat], NEW g,
         Spread(M, above, g), \A j \in 0..M : above[j] <= beyond[j]
  PROVE  Spread(M, beyond, g)
<1>1. PICK h \in [0..M -> Nat] :
        /\ h[0] = 0 /\ h[M] = g
        /\ \A j \in 0..(M - 1) : h[j + 1] <= h[j] + Paths(M - j, above[j])
  BY DEF Spread
<1>2. ASSUME NEW j \in 0..(M - 1) PROVE h[j + 1] <= h[j] + Paths(M - j, beyond[j])
  <2>1. j \in 0..M /\ j + 1 \in 0..M /\ M - j \in Nat
    OBVIOUS
  <2>2. above[j] \in Nat /\ beyond[j] \in Nat /\ above[j] <= beyond[j] /\ h[j] \in Nat /\ h[j + 1] \in Nat
    BY <2>1
  <2>3. /\ Paths(M - j, above[j]) \in Nat /\ Paths(M - j, beyond[j]) \in Nat
        /\ Paths(M - j, above[j]) <= Paths(M - j, beyond[j])
    BY <2>1, <2>2, PathsNat, PathsGrow
  <2>4. h[j + 1] <= h[j] + Paths(M - j, above[j])
    BY <1>1
  <2>5. \A a, b, c, d \in Nat : a <= b + c /\ c <= d => a <= b + d
    OBVIOUS
  <2> QED BY <2>2, <2>3, <2>4, <2>5, Zenon
<1> QED BY <1>1, <1>2 DEF Spread

\* What lies above a count l adds up to less than Paths(M - l, z + 1), z being above[l].
LEMMA SpreadTail ==
  ASSUME NEW M \in Nat, NEW above, Falling(M, above), NEW h \in [0..M -> Nat], NEW l \in 0..M, NEW z \in Nat,
         \A j \in 0..(M - 1) : h[j + 1] <= h[j] + Paths(M - j, above[j]),
         above[l] <= z
  PROVE  h[M] + 1 <= h[l] + Paths(M - l, z + 1)
<1>1. PICK B : B = {k \in Nat : k <= M - l /\ ~(h[M] + 1 <= h[M - k] + Paths(k, z + 1))}
  OBVIOUS
<1>2. ASSUME B # {} PROVE FALSE
  <2>1. PICK k \in B : \A i \in B : k <= i
    BY <1>1, <1>2, LeastNumber
  <2>2. k \in Nat /\ k <= M - l /\ ~(h[M] + 1 <= h[M - k] + Paths(k, z + 1))
    BY <1>1
  <2>3. k # 0
    <3>1. h[M] + 1 <= h[M - 0] + Paths(0, z + 1)
      <4>1. z + 1 \in Nat \ {0} /\ M - 0 = M
        OBVIOUS
      <4> QED BY <4>1, PathsStep
    <3> QED BY <2>2, <3>1
  <2>4. PICK i \in Nat : k = i + 1
    <3>1. k - 1 \in Nat /\ k = (k - 1) + 1
      BY <2>2, <2>3
    <3> QED BY <3>1
  <2>5. i \notin B
    BY <2>1, <2>4
  <2>6. h[M] + 1 <= h[M - i] + Paths(i, z + 1)
    BY <1>1, <2>2, <2>4, <2>5
  <2>7. PICK j \in 0..(M - 1) : j = M - k
    BY <2>2, <2>3
  <2>8. j \in 0..M /\ j + 1 \in 0..M /\ j + 1 = M - i /\ l <= j /\ M - j = i + 1
    BY <2>2, <2>4, <2>7
  <2>9. above[j] \in Nat /\ above[j] <= z
    <3>1. above[l] \in Nat /\ above[j] \in Nat /\ above[j] <= above[l]
      BY <2>8 DEF Falling
    <3> QED BY <3>1
  <2>10. h[M - i] <= h[j] + Paths(i + 1, above[j])
    BY <2>8
  <2>11. /\ Paths(i + 1, above[j]) \in Nat /\ Paths(i + 1, z) \in Nat /\ Paths(i, z + 1) \in Nat
         /\ Paths(i + 1, above[j]) <= Paths(i + 1, z)
    <3>1. i + 1 \in Nat /\ z + 1 \in Nat
      OBVIOUS
    <3>2. Paths(i + 1, above[j]) <= Paths(i + 1, z)
      BY <2>9, <3>1, PathsGrow
    <3> QED BY <2>9, <3>1, <3>2, PathsNat
  <2>12. Paths(i + 1, z + 1) = Paths(i, z + 1) + Paths(i + 1, z)
    <3>1. i + 1 \in Nat \ {0} /\ z + 1 \in Nat \ {0} /\ (i + 1) - 1 = i /\ (z + 1) - 1 = z
      OBVIOUS
    <3> QED BY <3>1, PathsStep
  <2>13. h[M] \in Nat /\ h[j] \in Nat /\ h[M - i] \in Nat
    BY <2>8
  <2>14. h[M] + 1 <= h[j] + Paths(i + 1, z + 1)
    <3>1. \A a, b, c, d, e, f \in Nat : a + 1 <= b + c /\ b <= d + e /\ e <= f => a + 1 <= d + (c + f)
      OBVIOUS
    <3>2. h[M] + 1 <= h[j] + (Paths(i, z + 1) + Paths(i + 1, z))
      BY <2>6, <2>10, <2>11, <2>13, <3>1, Zenon
    <3> QED BY <2>12, <3>2
  <2> QED BY <2>2, <2>4, <2>7, <2>14
<1>3. M - l \in Nat /\ M - (M - l) = l
  OBVIOUS
<1>4. M - l \notin B
  BY <1>2
<1> QED BY <1>1, <1>3, <1>4

LEMMA SpreadFailed ==
  ASSUME NEW M \in Nat, NEW above, Falling(M, above), NEW beyond, Falling(M, beyond), NEW g \in Nat,
         NEW l \in 0..(M - 1), Spread(M, above, g),
         \A j \in 0..l : above[j] <= beyond[j], above[l] + 1 <= beyond[l]
  PROVE  Spread(M, beyond, g + 1)
<1>1. PICK h \in [0..M -> Nat] :
        /\ h[0] = 0 /\ h[M] = g
        /\ \A j \in 0..(M - 1) : h[j + 1] <= h[j] + Paths(M - j, above[j])
  BY DEF Spread
<1>2. PICK k : k = [j \in 0..M |-> IF j <= l THEN h[j] ELSE g + 1]
  OBVIOUS
<1>3. l \in 0..M /\ M \in 0..M /\ 0 \in 0..M
  OBVIOUS
<1>4. k \in [0..M -> Nat] /\ k[0] = 0 /\ k[M] = g + 1
  <2>1. k \in [0..M -> Nat]
    BY <1>2
  <2>2. k[0] = 0
    BY <1>1, <1>2, <1>3
  <2>3. k[M] = g + 1
    BY <1>2, <1>3
  <2> QED BY <2>1, <2>2, <2>3
<1>5. ASSUME NEW j \in 0..(M - 1) PROVE k[j + 1] <= k[j] + Paths(M - j, beyond[j])
  <2>1. j \in 0..M /\ j + 1 \in 0..M /\ M - j \in Nat
    OBVIOUS
  <2>2. above[j] \in Nat /\ beyond[j] \in Nat /\ h[j] \in Nat /\ h[j + 1] \in Nat
    BY <2>1 DEF Falling
  <2>3. Paths(M - j, above[j]) \in Nat /\ Paths(M - j, beyond[j]) \in Nat
    BY <2>1, <2>2, PathsNat
  <2>4. CASE j < l
    <3>1. k[j] = h[j] /\ k[j + 1] = h[j + 1]
      BY <1>2, <2>1, <2>4
    <3>2. Paths(M - j, above[j]) <= Paths(M - j, beyond[j])
      BY <2>1, <2>2, <2>4, PathsGrow
    <3>3. h[j + 1] <= h[j] + Paths(M - j, above[j])
      BY <1>1
    <3> QED BY <2>2, <2>3, <3>1, <3>2, <3>3
  <2>5. CASE j = l
    <3>1. k[j] = h[j] /\ k[j + 1] = g + 1
      BY <1>2, <2>1, <2>5
    <3>2. h[M] + 1 <= h[l] + Paths(M - l, above[l] + 1)
      <4>1. above[l] \in Nat /\ above[l] <= above[l]
        BY <2>2, <2>5
      <4> QED BY <1>1, <1>3, <4>1, SpreadTail
    <3>3. Paths(M - l, above[l] + 1) <= Paths(M - l, beyond[l]) /\ Paths(M - l, above[l] + 1) \in Nat
      <4>1. M - l \in Nat /\ above[l] + 1 \in Nat /\ beyond[l] \in Nat /\ above[l] + 1 <= beyond[l]
        BY <2>1, <2>2, <2>5
      <4> QED BY <4>1, PathsGrow, PathsNat
    <3>4. Paths(M - l, beyond[l]) \in Nat /\ h[l] \in Nat
      BY <2>2, <2>3, <2>5
    <3> QED BY <1>1, <2>5, <3>1, <3>2, <3>3, <3>4
  <2>6. CASE j > l
    <3>1. k[j] = g + 1 /\ k[j + 1] = g + 1
      BY <1>2, <2>1, <2>6
    <3> QED BY <2>3, <3>1
  <2> QED BY <2>4, <2>5, <2>6
<1> QED BY <1>4, <1>5 DEF Spread

LEMMA SpreadBound ==
  ASSUME NEW M \in Nat, NEW above, Falling(M, above), NEW g \in Nat, NEW n \in Nat, above[0] <= n,
         Spread(M, above, g)
  PROVE  g <= choose(M + n, n) - 1
<1>1. PICK h \in [0..M -> Nat] :
        /\ h[0] = 0 /\ h[M] = g
        /\ \A j \in 0..(M - 1) : h[j + 1] <= h[j] + Paths(M - j, above[j])
  BY DEF Spread
<1>2. h[M] + 1 <= h[0] + Paths(M - 0, n + 1)
  <2>1. 0 \in 0..M
    OBVIOUS
  <2> QED BY <1>1, <2>1, SpreadTail
<1>3. Paths(M, n + 1) = choose(M + n, n) /\ Paths(M, n + 1) \in Nat /\ M - 0 = M
  <2>1. n + 1 \in Nat /\ n + 1 # 0 /\ (n + 1) - 1 = n /\ M - 0 = M
    OBVIOUS
  <2>2. Paths(M, n + 1) = choose(M + n, n)
    BY <2>1 DEF Paths
  <2> QED BY <2>1, <2>2, PathsNat
<1> QED BY <1>1, <1>2, <1>3

Above(T, v, M) == [j \in 0..M |-> Cardinality({t \in T : v[t] > j})]
Bounded(T, v, M, g) == Spread(M, Above(T, v, M), g)

LEMMA AboveFalls ==
  ASSUME NEW T, IsFiniteSet(T), NEW v \in [T -> Nat], NEW M \in Nat
  PROVE  /\ Falling(M, Above(T, v, M)) /\ Above(T, v, M) \in [0..M -> Nat]
         /\ \A j \in 0..M : Above(T, v, M)[j] <= Cardinality(T)
<1>1. ASSUME NEW j \in 0..M
      PROVE  LET S == {t \in T : v[t] > j} IN
             IsFiniteSet(S) /\ Cardinality(S) \in Nat /\ Cardinality(S) <= Cardinality(T) /\ Above(T, v, M)[j] = Cardinality(S)
  BY FS_Subset, FS_CardinalityType DEF Above
<1>2. Above(T, v, M) \in [0..M -> Nat]
  BY <1>1 DEF Above
<1>3. ASSUME NEW i \in 0..M, NEW j \in 0..M, i <= j PROVE Above(T, v, M)[j] <= Above(T, v, M)[i]
  <2>1. {t \in T : v[t] > j} \subseteq {t \in T : v[t] > i}
    BY <1>3
  <2>2. IsFiniteSet({t \in T : v[t] > i})
    BY <1>1
  <2>3. Cardinality({t \in T : v[t] > j}) <= Cardinality({t \in T : v[t] > i})
    BY <2>1, <2>2, FS_Subset
  <2> QED BY <1>1, <2>3
<1> QED BY <1>1, <1>2, <1>3 DEF Falling

LEMMA BoundedStart ==
  ASSUME NEW T, IsFiniteSet(T), NEW v \in [T -> Nat], NEW M \in Nat PROVE Bounded(T, v, M, 0)
BY AboveFalls, SpreadStart DEF Bounded

LEMMA BoundedKept ==
  ASSUME NEW T, IsFiniteSet(T), NEW v \in [T -> Nat], NEW w \in [T -> Nat], NEW M \in Nat, NEW g,
         Bounded(T, v, M, g), \A t \in T : v[t] <= w[t]
  PROVE  Bounded(T, w, M, g)
<1>1. ASSUME NEW j \in 0..M PROVE Above(T, v, M)[j] <= Above(T, w, M)[j]
  <2>1. {t \in T : v[t] > j} \subseteq {t \in T : w[t] > j}
    OBVIOUS
  <2>2. IsFiniteSet({t \in T : w[t] > j})
    BY FS_Subset
  <2> QED BY <2>1, <2>2, FS_Subset DEF Above
<1> QED BY <1>1, AboveFalls, SpreadKept DEF Bounded

LEMMA BoundedFailed ==
  ASSUME NEW T, IsFiniteSet(T), NEW v \in [T -> Nat], NEW w \in [T -> Nat], NEW M \in Nat, NEW g \in Nat,
         Bounded(T, v, M, g), NEW l \in 0..(M - 1), NEW t \in T, v[t] <= l, w[t] > l,
         \A u \in T : v[u] <= w[u] \/ w[u] > l
  PROVE  Bounded(T, w, M, g + 1)
<1>1. ASSUME NEW j \in 0..l
      PROVE  /\ Above(T, v, M)[j] = Cardinality({u \in T : v[u] > j}) /\ Above(T, w, M)[j] = Cardinality({u \in T : w[u] > j})
             /\ IsFiniteSet({u \in T : v[u] > j}) /\ IsFiniteSet({u \in T : w[u] > j})
             /\ {u \in T : v[u] > j} \subseteq {u \in T : w[u] > j}
  <2>1. j \in 0..M
    OBVIOUS
  <2>2. {u \in T : v[u] > j} \subseteq {u \in T : w[u] > j}
    OBVIOUS
  <2> QED BY <2>1, <2>2, FS_Subset DEF Above
<1>2. ASSUME NEW j \in 0..l PROVE Above(T, v, M)[j] <= Above(T, w, M)[j]
  BY <1>1, FS_Subset
<1>3. Above(T, v, M)[l] + 1 <= Above(T, w, M)[l]
  <2>1. l \in 0..l
    OBVIOUS
  <2>2. PICK P, Q : P = {u \in T : v[u] > l} /\ Q = {u \in T : w[u] > l}
    OBVIOUS
  <2>3. IsFiniteSet(P) /\ IsFiniteSet(Q) /\ P \subseteq Q /\ Above(T, v, M)[l] = Cardinality(P) /\ Above(T, w, M)[l] = Cardinality(Q)
    BY <1>1, <2>1, <2>2
  <2>4. t \in Q /\ t \notin P
    BY <2>2
  <2>5. Cardinality(P) <= Cardinality(Q) /\ Cardinality(P) # Cardinality(Q)
    BY <2>3, <2>4, FS_Subset
  <2>6. Cardinality(P) \in Nat /\ Cardinality(Q) \in Nat
    BY <2>3, FS_CardinalityType
  <2> QED BY <2>3, <2>5, <2>6
<1>4. Falling(M, Above(T, v, M)) /\ Falling(M, Above(T, w, M)) /\ Spread(M, Above(T, v, M), g)
  BY AboveFalls DEF Bounded
<1>5. Spread(M, Above(T, w, M), g + 1)
  BY <1>2, <1>3, <1>4, SpreadFailed
<1> QED BY <1>5 DEF Bounded

LEMMA BoundedWithin ==
  ASSUME NEW T, IsFiniteSet(T), NEW v \in [T -> Nat], NEW M \in Nat, NEW g \in Nat, Bounded(T, v, M, g)
  PROVE  g <= choose(M + Cardinality(T), Cardinality(T)) - 1
<1>1. Cardinality(T) \in Nat /\ 0 \in 0..M
  BY FS_CardinalityType
<1>2. Falling(M, Above(T, v, M)) /\ Above(T, v, M)[0] <= Cardinality(T)
  BY <1>1, AboveFalls
<1> QED BY <1>1, <1>2, SpreadBound DEF Bounded

-----------------------------------------------------------------------------
(* The lock of an account, and the wrong codes of a step-up challenge.     *)

Guessing == SignIns \cup {"passkey"}

\* The count that request t would raise by failing, now or when it starts.
Read(t) ==
  IF thread[t].op \in Guessing /\ thread[t].user.failures < user.failures
  THEN thread[t].user.failures ELSE user.failures
Reads == [t \in Threads |-> Read(t)]
ReadsTyped == Reads \in [Threads -> Nat]
FailuresInv == Bounded(Threads, Reads, MaxFailures - 1, guesses)

LEMMA ReadNat ==
  ASSUME AuthInv
  PROVE  /\ user.failures \in 0..MaxFailures /\ ReadsTyped
         /\ \A t \in Threads : Read(t) \in Nat /\ Read(t) <= user.failures
         /\ \A t \in Threads : thread[t].op \in Guessing => thread[t].user.failures \in 0..MaxFailures
<1>1. user \in Users
  BY DEF AuthInv, TypeOK
<1>2. user.failures \in 0..MaxFailures
  BY <1>1 DEF Users
<1>3. ASSUME NEW t \in Threads, thread[t].op \in Guessing PROVE thread[t].user.failures \in 0..MaxFailures
  <2>1. thread[t].op \in Ops
    BY <1>3 DEF Guessing, Ops, Locking
  <2>2. thread[t].user \in Users
    BY <2>1, NotIdle, UnderWay DEF AuthInv
  <2> QED BY <2>2 DEF Users
<1>4. ASSUME NEW t \in Threads PROVE Read(t) \in Nat /\ Read(t) <= user.failures
  BY <1>2, <1>3, Constants DEF Read
<1> QED BY <1>2, <1>3, <1>4 DEF ReadsTyped, Reads

\* The steps that neither count a failure nor forget the ones before.
LoadsOnly ==
  /\ user'.failures = user.failures /\ guesses' = guesses
  /\ \A t \in Threads : thread'[t].op \in Guessing =>
       \/ thread'[t].user.failures = user.failures
       \/ thread[t].op \in Guessing /\ thread'[t].user = thread[t].user

LEMMA BeginLoads ==
  ASSUME AuthInv, NEW t \in Threads, NEW op, NEW ref, NEW token, Begin(t, op, ref, token),
         UNCHANGED <<user, guesses>>
  PROVE  LoadsOnly
<1>1. thread' = [thread EXCEPT ![t] = [op |-> op, user |-> Loaded(op), ref |-> ref, token |-> token,
                                      asked |-> FALSE, live |-> {}]]
  BY DEF Begin
<1>2. thread \in [Threads -> ThreadStates \cup {Idle}]
  BY DEF AuthInv, TypeOK
<1>3. thread'[t].op = op /\ thread'[t].user = Loaded(op) /\ \A u \in Threads \ {t} : thread'[u] = thread[u]
  BY <1>1, <1>2
<1>4. op \in Guessing => Loaded(op) = user
  BY DEF Loaded, Guessing, SignIns
<1> QED BY <1>3, <1>4 DEF LoadsOnly

LEMMA EndLoads ==
  ASSUME AuthInv, NEW t \in Threads, End(t), user'.failures = user.failures, guesses' = guesses
  PROVE  LoadsOnly
<1>1. thread'[t].op = "idle" /\ \A u \in Threads \ {t} : thread'[u] = thread[u]
  BY EndFacts DEF AuthInv
<1>2. "idle" \notin Guessing
  BY DEF Guessing, SignIns
<1> QED BY <1>1, <1>2 DEF LoadsOnly

LEMMA RequestLoads ==
  ASSUME AuthInv, NEW t \in Threads, Request(t)
  PROVE  guesses' = 0 \/ LoadsOnly \/ SignInFails(t)
<1>1. CASE Login(t) \/ PortalLoginPost(t)
  BY <1>1, BeginLoads DEF Login, PortalLoginPost, SignInBegin
<1>2. CASE LoginSucceeds(t) \/ PortalSucceeds(t) \/ AuthorizePost(t) \/ PasskeyVerify(t)
  BY <1>2 DEF LoginSucceeds, PortalSucceeds, AuthorizePost, PasskeyVerify, SignInSucceeds
<1>3. CASE \E g \in DOMAIN grants : ExchangeBegin(t, g) \/ PasskeyBegin(t, g) \/ ResetBegin(t, g)
  <2>1. PICK g \in DOMAIN grants, op \in Locking : \E kind : TakeGrant(t, g, op, kind)
    BY <1>3 DEF ExchangeBegin, PasskeyBegin, ResetBegin, Locking
  <2>2. Begin(t, op, g, None) /\ UNCHANGED <<user, guesses>>
    BY <2>1 DEF TakeGrant
  <2> QED BY <2>2, BeginLoads
<1>4. CASE \E s \in DOMAIN sessions, op \in {"oauth_refresh", "refresh"} : RefreshBegin(t, s, op)
  <2>1. PICK s \in DOMAIN sessions, op \in {"oauth_refresh", "refresh"} : RefreshBegin(t, s, op)
    BY <1>4
  <2>2. \E token : Begin(t, op, s, token) /\ UNCHANGED <<user, guesses>>
    BY <2>1 DEF RefreshBegin
  <2> QED BY <2>2, BeginLoads
<1>5. CASE \/ \E s \in DOMAIN sessions : ChangePassword(t, s)
           \/ PortalChangePassword(t) \/ AdminRevoke(t) \/ DisableBegin(t)
  <2>1. \E s, op : Begin(t, op, s, None) /\ UNCHANGED <<user, guesses>>
    BY <1>5 DEF ChangePassword, PortalChangePassword, AdminRevoke, DisableBegin, Renew
  <2> QED BY <2>1, BeginLoads
<1>6. CASE ExchangeCode(t) \/ Rotate(t) \/ Abort(t)
  <2>1. End(t) /\ user' = user /\ guesses' = guesses
    BY <1>6 DEF ExchangeCode, Rotate, Abort
  <2> QED BY <2>1, EndLoads
<1>7. CASE SelectSessions(t)
  <2>1. /\ thread[t].op \in Changes /\ thread' = [thread EXCEPT ![t].asked = TRUE, ![t].live = Live]
        /\ user' = user /\ guesses' = guesses
    BY <1>7 DEF SelectSessions
  <2>2. thread \in [Threads -> ThreadStates \cup {Idle}]
    BY DEF AuthInv, TypeOK
  <2>3. thread'[t].op = thread[t].op /\ \A u \in Threads \ {t} : thread'[u] = thread[u]
    BY <2>1, <2>2
  <2>4. thread[t].op \notin Guessing
    BY <2>1 DEF Changes, Guessing, SignIns
  <2> QED BY <2>1, <2>3, <2>4 DEF LoadsOnly
<1>8. CASE ChangeCommit(t)
  <2>1. End(t) /\ user' = Changed(t) /\ guesses' = IF thread[t].op = "reset" THEN 0 ELSE guesses
    BY <1>8 DEF ChangeCommit
  <2>2. CASE thread[t].op # "reset"
    <3>1. user' = [user EXCEPT !.version = thread[t].user.version + 1,
                     !.active = IF thread[t].op = "disable" THEN Stored(thread[t].user.active, FALSE, @) ELSE @]
      BY <2>1, <2>2 DEF Changed
    <3>2. user \in Users
      BY DEF AuthInv, TypeOK
    <3>3. user'.failures = user.failures
      BY <3>1, <3>2 DEF Users
    <3> QED BY <2>1, <2>2, <3>3, EndLoads
  <2> QED BY <2>1, <2>2
<1> QED BY <1>1, <1>2, <1>3, <1>4, <1>5, <1>6, <1>7, <1>8 DEF Request

LEMMA StepLoads ==
  ASSUME AuthInv, [Next]_vars
  PROVE  guesses' = 0 \/ LoadsOnly \/ \E t \in Threads : SignInFails(t)
<1>1. CASE \E t \in Threads : Request(t)
  BY <1>1, RequestLoads
<1>2. ASSUME thread' = thread, guesses' = guesses, user'.failures = user.failures PROVE LoadsOnly
  BY <1>2 DEF LoadsOnly
<1>3. CASE AuthorizeGet \/ PasskeyOptions \/ RequestReset \/ \E g \in DOMAIN grants : GrantExpires(g)
  BY <1>2, <1>3 DEF AuthorizeGet, PasskeyOptions, RequestReset, GrantExpires
<1>4. CASE Enable \/ LockElapses
  <2>1. user \in Users
    BY DEF AuthInv, TypeOK
  <2> QED BY <1>2, <1>4, <2>1 DEF Enable, LockElapses, Users
<1>5. CASE Unlock
  BY <1>5 DEF Unlock
<1>6. CASE \/ AdminRevokeUserSessions
           \/ \E s \in DOMAIN sessions :
                 \/ Logout(s) \/ RevokeSession(s) \/ RevokeOtherSessions(s)
                 \/ \E S \in (SUBSET Live) \ {{}} : RevokeTrustedDevice(s, S)
  <2>1. \E S : Revoke(S)
    BY <1>6 DEF AdminRevokeUserSessions, Logout, RevokeSession, RevokeOtherSessions,
                RevokeTrustedDevice
  <2> QED BY <1>2, <2>1 DEF Revoke
<1>7. CASE UNCHANGED vars
  BY <1>2, <1>7 DEF vars
<1> QED BY <1>1, <1>3, <1>4, <1>5, <1>6, <1>7 DEF Next

LEMMA FailureFacts ==
  ASSUME AuthInv, NEW t \in Threads, SignInFails(t), guesses' # 0
  PROVE  /\ guesses' = guesses + 1
         /\ thread[t].op \in Guessing /\ thread[t].user.failures \in 0..(MaxFailures - 2)
         /\ user'.failures = thread[t].user.failures + 1
         /\ thread'[t].op \notin Guessing /\ \A u \in Threads \ {t} : thread'[u] = thread[u]
<1>1. thread[t].op \in Guessing /\ CountFailure(thread[t].user) /\ End(t)
  BY DEF SignInFails, Guessing
<1>2. thread[t].user.failures \in 0..MaxFailures /\ MaxFailures \in Nat
  BY <1>1, ReadNat, Constants
<1>3. ~(thread[t].user.failures + 1 >= MaxFailures)
  BY <1>1 DEF CountFailure
<1>4. user \in Users
  BY DEF AuthInv, TypeOK
<1>5. guesses' = guesses + 1 /\ user'.failures = thread[t].user.failures + 1
  BY <1>1, <1>3, <1>4 DEF CountFailure, Users
<1>6. thread'[t].op = "idle" /\ \A u \in Threads \ {t} : thread'[u] = thread[u]
  BY <1>1, EndFacts DEF AuthInv
<1>7. "idle" \notin Guessing
  BY DEF Guessing, SignIns
<1> QED BY <1>1, <1>2, <1>3, <1>5, <1>6, <1>7

LEMMA FailuresStep == AuthInv /\ ReadsTyped' /\ FailuresInv /\ [Next]_vars => FailuresInv'
<1> SUFFICES ASSUME AuthInv, ReadsTyped', FailuresInv, [Next]_vars PROVE FailuresInv'
  OBVIOUS
<1>1. PICK v \in [Threads -> Nat], w \in [Threads -> Nat] :
        v = Reads /\ w = Reads' /\ \A t \in Threads : v[t] = Read(t) /\ w[t] = Read(t)'
  BY ReadNat DEF ReadsTyped, Reads
<1>2. MaxFailures - 1 \in Nat /\ IsFiniteSet(Threads) /\ guesses \in Nat
  BY Constants, AuthSessionsAssumption DEF AuthInv, TypeOK
<1>3. Bounded(Threads, v, MaxFailures - 1, guesses)
  BY <1>1 DEF FailuresInv
<1>4. SUFFICES Bounded(Threads, w, MaxFailures - 1, guesses')
  BY <1>1 DEF FailuresInv
<1>5. CASE guesses' = 0
  BY <1>2, <1>5, BoundedStart
<1>6. CASE LoadsOnly
  <2>1. ASSUME NEW t \in Threads PROVE v[t] <= w[t]
    <3>1. v[t] = Read(t) /\ w[t] = Read(t)' /\ v[t] \in Nat /\ w[t] \in Nat /\ v[t] <= user.failures
      BY <1>1, ReadNat
    <3> QED BY <1>6, <3>1 DEF LoadsOnly, Read
  <2>2. guesses' = guesses
    BY <1>6 DEF LoadsOnly
  <2> QED BY <1>2, <1>3, <2>1, <2>2, BoundedKept
<1>7. ASSUME NEW t \in Threads, SignInFails(t), guesses' # 0
      PROVE  Bounded(Threads, w, MaxFailures - 1, guesses')
  <2>1. PICK l \in 0..(MaxFailures - 2) : l = thread[t].user.failures
    BY <1>7, FailureFacts
  <2>2. /\ guesses' = guesses + 1 /\ thread[t].op \in Guessing /\ user'.failures = l + 1
        /\ thread'[t].op \notin Guessing /\ \A u \in Threads \ {t} : thread'[u] = thread[u]
    BY <1>7, <2>1, FailureFacts
  <2>3. l \in 0..((MaxFailures - 1) - 1)
    BY Constants
  <2>4. v[t] <= l
    BY <1>1, <2>1, <2>2, ReadNat DEF Read
  <2>5. w[t] > l
    BY <1>1, <2>1, <2>2 DEF Read
  <2>6. ASSUME NEW u \in Threads PROVE v[u] <= w[u] \/ w[u] > l
    <3>1. CASE u = t
      BY <2>5, <3>1
    <3>2. CASE u # t
      <4>1. thread'[u] = thread[u] /\ v[u] = Read(u) /\ w[u] = Read(u)' /\ user.failures \in Nat
        BY <1>1, <2>2, <3>2, ReadNat, Constants
      <4>2. thread[u].op \in Guessing => thread[u].user.failures \in Nat
        BY ReadNat, Constants
      <4> QED BY <2>1, <2>2, <4>1, <4>2 DEF Read
    <3> QED BY <3>1, <3>2
  <2> QED BY <1>2, <1>3, <2>2, <2>3, <2>4, <2>5, <2>6, BoundedFailed
<1> QED BY <1>5, <1>6, <1>7, StepLoads

\* The lock falls after a bounded number of failures, for any number of requests at once and any
\* limit: the failures since the last reset of the counter stay below choose(limit - 1 + n, n)
\* (max_login_failures, failed_login_count).
THEOREM LockoutsBounded == Spec => []LockoutBounded
<1>1. AuthInv /\ Init => FailuresInv
  <2> SUFFICES ASSUME AuthInv, Init PROVE FailuresInv
    OBVIOUS
  <2>1. MaxFailures - 1 \in Nat /\ IsFiniteSet(Threads) /\ guesses = 0
    BY Constants, AuthSessionsAssumption DEF Init
  <2> QED BY <2>1, ReadNat, BoundedStart DEF FailuresInv, ReadsTyped
<1>2. AuthInv /\ FailuresInv => LockoutBounded
  <2> SUFFICES ASSUME AuthInv, FailuresInv PROVE LockoutBounded
    OBVIOUS
  <2>1. MaxFailures - 1 \in Nat /\ IsFiniteSet(Threads) /\ guesses \in Nat
    BY Constants, AuthSessionsAssumption DEF AuthInv, TypeOK
  <2>2. guesses <= choose((MaxFailures - 1) + Cardinality(Threads), Cardinality(Threads)) - 1
    BY <2>1, ReadNat, BoundedWithin DEF FailuresInv, ReadsTyped
  <2> QED BY <2>2 DEF LockoutBounded
<1>3. AuthInv => ReadsTyped
  BY ReadNat
<1> QED BY <1>1, <1>2, <1>3, FailuresStep, Invariance, PTL DEF Spec

\* What a sign-in works with, and the challenge that a request has read.
FoundRows == [device : Nat, code : Nat, second : BOOLEAN, challenge : Nat, attempts : Nat]

GuessesTyped ==
  /\ steps \in Seq(0..Console!Gone) /\ wrongCodes \in Seq(Nat) /\ Len(wrongCodes) = Len(steps)
  /\ \A v \in Visits : visit[v].op \in SignInOps =>
       /\ visit[v].arg \in FoundRows
       /\ visit[v].op = "verify" =>
            visit[v].arg.challenge \in DOMAIN steps /\ visit[v].arg.attempts \in 1..Console!Gone

\* The attempts that request v would raise by a wrong code for challenge c, now or when it reads.
Tried(v, c) ==
  IF visit[v].op = "verify" /\ visit[v].arg.challenge = c /\ visit[v].arg.attempts - 1 < steps[c]
  THEN visit[v].arg.attempts - 1 ELSE steps[c]
TriedOf(c) == [v \in Visits |-> Tried(v, c)]
GuessesInv ==
  GuessesTyped /\ \A c \in DOMAIN steps : Bounded(Visits, TriedOf(c), MaxGuesses, wrongCodes[c])

LEMMA ItemIn ==
  ASSUME NEW S, NEW s \in Seq(S), NEW i \in DOMAIN s PROVE s[i] \in S
OBVIOUS

LEMMA TriedNat ==
  ASSUME GuessesTyped, NEW c \in DOMAIN steps
  PROVE  /\ steps[c] \in 0..Console!Gone /\ TriedOf(c) \in [Visits -> Nat] /\ Console!Gone \in Nat
         /\ \A v \in Visits : Tried(v, c) \in Nat /\ Tried(v, c) <= steps[c]
<1>1. Console!Gone \in Nat
  BY ConsoleAssumption DEF Console!Gone
<1>2. steps[c] \in 0..Console!Gone
  BY ItemIn DEF GuessesTyped
<1>3. ASSUME NEW v \in Visits PROVE Tried(v, c) \in Nat /\ Tried(v, c) <= steps[c]
  <2>1. visit[v].op = "verify" => visit[v].arg.attempts \in 1..Console!Gone
    BY DEF GuessesTyped, SignInOps
  <2> QED BY <1>1, <1>2, <2>1 DEF Tried
<1> QED BY <1>1, <1>2, <1>3 DEF TriedOf

\* A step at most adds challenges and ends some, and counts no guess.
StepsOnly ==
  /\ steps' \in Seq(0..Console!Gone) /\ wrongCodes' \in Seq(Nat) /\ Len(wrongCodes') = Len(steps')
  /\ DOMAIN steps \subseteq DOMAIN steps'
  /\ \A c \in DOMAIN steps : steps'[c] \in {steps[c], Console!Gone} /\ wrongCodes'[c] = wrongCodes[c]
  /\ \A c \in DOMAIN steps' \ DOMAIN steps : wrongCodes'[c] = 0

\* A request is where it was, or has just read a challenge, or works with none.
Arrives(v) ==
  visit'[v].op \in SignInOps =>
    \/ visit'[v].op = visit[v].op /\ visit'[v].arg = visit[v].arg
    \/ /\ visit'[v].arg \in FoundRows
       /\ visit'[v].op = "verify" =>
            /\ visit'[v].arg.challenge \in DOMAIN steps /\ steps[visit'[v].arg.challenge] # Console!Gone
            /\ visit'[v].arg.attempts = steps[visit'[v].arg.challenge] + 1

LEMMA ArrivesTyped ==
  ASSUME GuessesTyped, \A v \in Visits : Arrives(v), steps' \in Seq(0..Console!Gone), wrongCodes' \in Seq(Nat),
         Len(wrongCodes') = Len(steps'), DOMAIN steps \subseteq DOMAIN steps'
  PROVE  GuessesTyped'
<1> SUFFICES ASSUME NEW v \in Visits, visit'[v].op \in SignInOps
             PROVE  /\ visit'[v].arg \in FoundRows
                    /\ visit'[v].op = "verify" =>
                         visit'[v].arg.challenge \in DOMAIN steps' /\ visit'[v].arg.attempts \in 1..Console!Gone
  BY DEF GuessesTyped, Console!Gone
<1>1. CASE visit'[v].op = visit[v].op /\ visit'[v].arg = visit[v].arg
  BY <1>1 DEF GuessesTyped
<1>2. CASE /\ visit'[v].arg \in FoundRows
           /\ visit'[v].op = "verify" =>
                /\ visit'[v].arg.challenge \in DOMAIN steps /\ steps[visit'[v].arg.challenge] # Console!Gone
                /\ visit'[v].arg.attempts = steps[visit'[v].arg.challenge] + 1
  <2>1. ASSUME NEW c \in DOMAIN steps, steps[c] # Console!Gone PROVE steps[c] + 1 \in 1..Console!Gone
    BY <2>1, TriedNat
  <2> QED BY <1>2, <2>1
<1> QED BY <1>1, <1>2 DEF Arrives

\* A request that has arrived holds a challenge back no further than before.
LEMMA TriedGrows ==
  ASSUME GuessesTyped, GuessesTyped', NEW v \in Visits, Arrives(v), NEW c \in DOMAIN steps, c \in DOMAIN steps'
  PROVE  steps[c] <= steps'[c] => Tried(v, c) <= Tried(v, c)'
<1> SUFFICES ASSUME steps[c] <= steps'[c] PROVE Tried(v, c) <= Tried(v, c)'
  OBVIOUS
<1>1. steps[c] \in 0..Console!Gone /\ steps'[c] \in 0..Console!Gone /\ Console!Gone \in Nat /\ Tried(v, c) \in Nat /\ Tried(v, c) <= steps[c]
  <2>1. steps'[c] \in 0..Console!Gone
    BY ItemIn DEF GuessesTyped, Console!Gone
  <2> QED BY <2>1, TriedNat
<1>2. CASE ~(visit'[v].op = "verify" /\ visit'[v].arg.challenge = c)
  <2>1. Tried(v, c)' = steps'[c]
    BY <1>2 DEF Tried
  <2> QED BY <1>1, <2>1
<1>3. CASE visit'[v].op = "verify" /\ visit'[v].arg.challenge = c
  <2>1. visit'[v].op \in SignInOps
    BY <1>3 DEF SignInOps
  <2>2. CASE visit'[v].op = visit[v].op /\ visit'[v].arg = visit[v].arg
    <3>1. visit[v].arg.attempts \in 1..Console!Gone
      BY <1>3, <2>1, <2>2 DEF GuessesTyped
    <3> QED BY <1>1, <1>3, <2>2, <3>1 DEF Tried
  <2>3. CASE visit'[v].arg.attempts = steps[c] + 1
    <3>1. Tried(v, c)' = IF steps[c] < steps'[c] THEN steps[c] ELSE steps'[c]
      BY <1>1, <1>3, <2>3 DEF Tried
    <3> QED BY <1>1, <3>1
  <2> QED BY <1>3, <2>1, <2>2, <2>3 DEF Arrives
<1> QED BY <1>2, <1>3

LEMMA GuessesKept ==
  ASSUME GuessesInv, StepsOnly, \A v \in Visits : Arrives(v), \A c \in DOMAIN steps' : (TriedOf(c)' \in [Visits -> Nat])
  PROVE  GuessesInv'
<1>1. GuessesTyped /\ GuessesTyped'
  BY ArrivesTyped DEF GuessesInv, StepsOnly
<1>2. MaxGuesses \in Nat /\ IsFiniteSet(Visits)
  BY ConsoleAssumption
<1>3. ASSUME NEW c \in DOMAIN steps' PROVE Bounded(Visits, TriedOf(c)', MaxGuesses, wrongCodes'[c])
  <2>1. CASE c \notin DOMAIN steps
    <3>1. wrongCodes'[c] = 0
      BY <2>1 DEF StepsOnly
    <3> QED BY <1>2, <3>1, BoundedStart
  <2>2. CASE c \in DOMAIN steps
    <3>1. wrongCodes'[c] = wrongCodes[c] /\ steps[c] <= steps'[c]
      <4>1. steps[c] \in 0..Console!Gone /\ Console!Gone \in Nat
        BY <1>1, <2>2, TriedNat
      <4>2. wrongCodes'[c] = wrongCodes[c] /\ (steps'[c] = steps[c] \/ steps'[c] = Console!Gone)
        BY <2>2 DEF StepsOnly
      <4> QED BY <4>1, <4>2
    <3>2. ASSUME NEW v \in Visits PROVE TriedOf(c)[v] <= TriedOf(c)'[v]
      <4>1. Tried(v, c) <= Tried(v, c)'
        BY <1>1, <2>2, <3>1, TriedGrows
      <4> QED BY <4>1 DEF TriedOf
    <3>3. Bounded(Visits, TriedOf(c), MaxGuesses, wrongCodes[c]) /\ TriedOf(c) \in [Visits -> Nat]
      BY <1>1, <2>2, TriedNat DEF GuessesInv
    <3> QED BY <1>2, <3>1, <3>2, <3>3, BoundedKept
  <2> QED BY <2>1, <2>2
<1> QED BY <1>1, <1>3 DEF GuessesInv

LEMMA GoneFrom ==
  ASSUME GuessesTyped, NEW c, steps' = [steps EXCEPT ![c] = Console!Gone], wrongCodes' = wrongCodes
  PROVE  StepsOnly
<1>1. Console!Gone \in 0..Console!Gone
  BY ConsoleAssumption DEF Console!Gone
<1>2. steps \in Seq(0..Console!Gone) /\ wrongCodes \in Seq(Nat) /\ Len(wrongCodes) = Len(steps)
  BY DEF GuessesTyped
<1>3. steps' \in Seq(0..Console!Gone) /\ Len(steps') = Len(steps) /\ DOMAIN steps' = DOMAIN steps
  <2>1. CASE c \in 1..Len(steps)
    BY <1>1, <1>2, <2>1, ExceptSeq
  <2>2. CASE c \notin 1..Len(steps)
    <3>1. DOMAIN steps = 1..Len(steps) /\ steps = [i \in 1..Len(steps) |-> steps[i]]
      BY <1>2
    <3>2. steps' = steps
      BY <2>2, <3>1
    <3> QED BY <1>2, <3>2
  <2> QED BY <2>1, <2>2
<1>4. \A i \in DOMAIN steps : steps'[i] \in {steps[i], Console!Gone}
  BY <1>2
<1> QED BY <1>2, <1>3, <1>4 DEF StepsOnly

LEMMA StepsSame ==
  ASSUME GuessesTyped, steps' = steps, wrongCodes' = wrongCodes PROVE StepsOnly
BY DEF GuessesTyped, StepsOnly

LEMMA StepsAdded ==
  ASSUME GuessesTyped, steps' = Append(steps, 0), wrongCodes' = Append(wrongCodes, 0) PROVE StepsOnly
<1>1. 0 \in 0..Console!Gone
  BY ConsoleAssumption DEF Console!Gone
<1>2. steps \in Seq(0..Console!Gone) /\ wrongCodes \in Seq(Nat) /\ Len(wrongCodes) = Len(steps) /\ Len(steps) \in Nat
  BY DEF GuessesTyped
<1>3. /\ steps' \in Seq(0..Console!Gone) /\ Len(steps') = Len(steps) + 1 /\ \A i \in 1..Len(steps) : steps'[i] = steps[i]
      /\ DOMAIN steps = 1..Len(steps) /\ DOMAIN steps' = 1..(Len(steps) + 1)
  BY <1>1, <1>2
<1>4. /\ wrongCodes' \in Seq(Nat) /\ Len(wrongCodes') = Len(steps) + 1
      /\ (\A i \in 1..Len(steps) : wrongCodes'[i] = wrongCodes[i]) /\ wrongCodes'[Len(steps) + 1] = 0
  BY <1>2
<1>5. DOMAIN steps \subseteq DOMAIN steps' /\ \A c \in DOMAIN steps' \ DOMAIN steps : c = Len(steps) + 1
  BY <1>2, <1>3
<1> QED BY <1>3, <1>4, <1>5 DEF StepsOnly

LEMMA EndArrives ==
  ASSUME ConsoleInv, NEW v \in Visits, Console!End(v) PROVE \A w \in Visits : Arrives(w)
<1>1. \A w \in Visits : visit'[w] = visit[w] \/ visit'[w].op = "rest"
  BY EndShape DEF Console!Rest
<1> QED BY <1>1 DEF Arrives, SignInOps

LEMMA GoesArrives ==
  ASSUME ConsoleInv, NEW v \in Visits, NEW op, NEW arg \in FoundRows, Console!Goes(v, op, arg),
         op = "verify" => /\ arg.challenge \in DOMAIN steps /\ steps[arg.challenge] # Console!Gone
                          /\ arg.attempts = steps[arg.challenge] + 1
  PROVE  \A w \in Visits : Arrives(w)
<1>1. visit'[v].op = op /\ visit'[v].arg = arg /\ \A w \in Visits \ {v} : visit'[w] = visit[w]
  BY DEF Console!Goes, Console!At, ConsoleInv, ConsoleTyped
<1> QED BY <1>1 DEF Arrives

LEMMA BeginArrives ==
  ASSUME ConsoleInv, NEW v \in Visits, NEW op, NEW arg, op # "rest", op # "verify", Console!Begin(v, op, arg),
         op \in SignInOps => arg \in FoundRows
  PROVE  \A w \in Visits : Arrives(w)
<1>1. visit'[v].op = op /\ visit'[v].arg = arg
  BY BeginShape
<1>2. ASSUME NEW w \in Visits, w # v PROVE visit'[w].op = visit[w].op /\ visit'[w].arg = visit[w].arg
  <2>1. w \in Visits \ {v}
    BY <1>2
  <2>2. visit'[w] = visit[w] \/ visit'[w] = Console!At(visit[w].op, visit[w].locks, visit[w].version, TRUE, visit[w].arg)
    BY <2>1, BeginShape
  <2> QED BY <2>2 DEF Console!At
<1> QED BY <1>1, <1>2 DEF Arrives

\* Every step but a wrong code.
LEMMA RequestArrives ==
  ASSUME ConsoleInv, GuessesTyped, NEW v \in Visits, Console!Request(v), ~Console!VerifyWrong(v)
  PROVE  StepsOnly /\ \A w \in Visits : Arrives(w)
<1>1. CASE \E d \in 0..Len(devices) : Console!PasskeyAuthVerify(v, d) \/ \E c \in 0..Len(codes) : Console!Login(v, d, c)
  <2>1. PICK d \in 0..Len(devices) : Console!PasskeyAuthVerify(v, d) \/ \E c \in 0..Len(codes) : Console!Login(v, d, c)
    BY <1>1
  <2>2. steps' = steps /\ wrongCodes' = wrongCodes
    BY <2>1 DEF Console!PasskeyAuthVerify, Console!Login, Console!redis
  <2>3. d \in Nat /\ account.mfa \in BOOLEAN
    BY DEF ConsoleInv, ConsoleTyped
  <2>4. CASE Console!PasskeyAuthVerify(v, d)
    <3>1. Console!Begin(v, "sign_in", Console!Found(d, 0, TRUE)) /\ Console!Found(d, 0, TRUE) \in FoundRows
      BY <2>3, <2>4 DEF Console!PasskeyAuthVerify, Console!Found, FoundRows
    <3> QED BY <2>2, <3>1, BeginArrives, StepsSame
  <2>5. ASSUME NEW c \in 0..Len(codes), Console!Login(v, d, c) PROVE StepsOnly /\ \A w \in Visits : Arrives(w)
    <3>1. PICK op \in {"step_up", "sign_in"} : Console!Begin(v, op, Console!Found(d, c, account.mfa))
      BY <2>5 DEF Console!Login
    <3>2. Console!Found(d, c, account.mfa) \in FoundRows
      BY <2>3 DEF Console!Found, FoundRows
    <3> QED BY <2>2, <3>1, <3>2, BeginArrives, StepsSame
  <2> QED BY <2>1, <2>4, <2>5
<1>2. ASSUME visit[v].op \in SignInOps PROVE visit[v].arg \in FoundRows
  BY <1>2 DEF GuessesTyped
<1>3. CASE Console!IssueLooks(v)
  <2>1. Console!Goes(v, "issue", visit[v].arg) /\ steps' = steps /\ wrongCodes' = wrongCodes /\ visit[v].op \in SignInOps
    BY <1>3 DEF Console!IssueLooks, Console!redis, SignInOps
  <2> QED BY <1>2, <2>1, GoesArrives, StepsSame
<1>4. CASE Console!Issue(v)
  <2>1. PICK arg : arg = [visit[v].arg EXCEPT !.challenge = Len(steps) + 1]
    OBVIOUS
  <2>2. /\ Console!Goes(v, "mail", arg) /\ visit[v].op \in SignInOps
        /\ steps' = Append(steps, 0) /\ wrongCodes' = Append(wrongCodes, 0)
    BY <1>4, <2>1 DEF Console!Issue, SignInOps
  <2>3. Len(steps) + 1 \in Nat
    BY DEF GuessesTyped
  <2>4. arg \in FoundRows
    BY <1>2, <2>1, <2>2, <2>3 DEF FoundRows
  <2> QED BY <2>2, <2>4, GoesArrives, StepsAdded
<1>5. CASE \E c \in DOMAIN steps : Console!VerifyReads(v, c)
  <2>1. PICK c \in DOMAIN steps : Console!VerifyReads(v, c)
    BY <1>5
  <2>2. PICK arg : arg = [visit[v].arg EXCEPT !.challenge = c, !.attempts = steps[c] + 1]
    OBVIOUS
  <2>3. /\ Console!Goes(v, "verify", arg) /\ visit[v].op \in SignInOps /\ steps[c] # Console!Gone
        /\ steps' = steps /\ wrongCodes' = wrongCodes
    BY <2>1, <2>2 DEF Console!VerifyReads, Console!redis, SignInOps
  <2>4. c \in Nat /\ steps[c] + 1 \in Nat
    <3>1. steps[c] \in 0..Console!Gone
      BY TriedNat
    <3>2. c \in Nat
      BY DEF GuessesTyped
    <3> QED BY <3>1, <3>2
  <2>5. arg \in FoundRows /\ arg.challenge = c /\ arg.attempts = steps[c] + 1
    BY <1>2, <2>2, <2>3, <2>4 DEF FoundRows
  <2> QED BY <2>3, <2>5, GoesArrives, StepsSame
<1>6. CASE Console!VerifyRight(v)
  <2>1. PICK arg : arg = [visit[v].arg EXCEPT !.challenge = 0, !.attempts = 0]
    OBVIOUS
  <2>2. /\ Console!Goes(v, "sign_in", arg) /\ visit[v].op \in SignInOps /\ wrongCodes' = wrongCodes
        /\ steps' = [steps EXCEPT ![visit[v].arg.challenge] = Console!Gone]
    BY <1>6, <2>1 DEF Console!VerifyRight, SignInOps
  <2>3. arg \in FoundRows
    BY <1>2, <2>1, <2>2 DEF FoundRows
  <2> QED BY <2>2, <2>3, GoesArrives, GoneFrom
<1>7. CASE Console!CancelChallenge(v) \/ Console!VerifyTooMany(v)
  <2>1. /\ Console!End(v) /\ wrongCodes' = wrongCodes
        /\ steps' = [steps EXCEPT ![visit[v].arg.challenge] = Console!Gone]
    BY <1>7 DEF Console!CancelChallenge, Console!VerifyTooMany
  <2> QED BY <2>1, EndArrives, GoneFrom
<1>8. CASE \/ Console!SignIn(v) \/ Console!Refresh(v) \/ Console!Regenerate(v) \/ Console!RequestReset(v)
           \/ Console!ChangeCommit(v) \/ Console!Abandon(v)
  <2>1. Console!End(v) /\ wrongCodes' = wrongCodes /\ steps' = steps
    BY <1>8 DEF Console!SignIn, Console!Refresh, Console!Regenerate, Console!RequestReset, Console!ChangeCommit,
                Console!Abandon, Console!redis
  <2> QED BY <2>1, EndArrives, StepsSame
<1>9. CASE \/ \E s \in DOMAIN consoleSessions : Console!RefreshBegin(v, s)
           \/ Console!RegenerateBegin(v) \/ Console!RequestResetBegin(v)
           \/ \E op \in Console!Changing, which \in 0..Len(devices) \cup 0..Len(resets) : Console!ChangeBegin(v, op, which)
  <2>1. PICK op \in Console!Changing \cup {"refresh", "codes", "request"} : \E arg : Console!Begin(v, op, arg)
    BY <1>9 DEF Console!RefreshBegin, Console!RegenerateBegin, Console!RequestResetBegin, Console!ChangeBegin
  <2>2. op \notin SignInOps /\ op # "rest" /\ op # "verify"
    BY DEF SignInOps, Console!Changing
  <2>3. wrongCodes' = wrongCodes /\ steps' = steps
    BY <1>9 DEF Console!RefreshBegin, Console!RegenerateBegin, Console!RequestResetBegin, Console!ChangeBegin, Console!redis
  <2> QED BY <2>1, <2>2, <2>3, BeginArrives, StepsSame
<1>10. CASE Console!RevokeSessions(v)
  <2>1. /\ visit[v].op \in Console!Changing /\ wrongCodes' = wrongCodes /\ steps' = steps
        /\ \E arg : visit' = [visit EXCEPT ![v] = Console!At(visit[v].op, Console!Reached(visit[v]), visit[v].version, visit[v].raced, arg)]
    BY <1>10 DEF Console!RevokeSessions, Console!redis
  <2>2. visit'[v].op = visit[v].op /\ \A w \in Visits \ {v} : visit'[w] = visit[w]
    BY <2>1 DEF Console!At, ConsoleInv, ConsoleTyped
  <2>3. visit[v].op \notin SignInOps
    BY <2>1 DEF SignInOps, Console!Changing
  <2> QED BY <2>1, <2>2, <2>3, StepsSame DEF Arrives
<1> QED BY <1>1, <1>3, <1>4, <1>5, <1>6, <1>7, <1>8, <1>9, <1>10 DEF Console!Request

LEMMA StepArrives ==
  ASSUME ConsoleInv, GuessesTyped, [Console!Next]_(Console!consoleVars)
  PROVE  \/ StepsOnly /\ \A w \in Visits : Arrives(w)
         \/ \E v \in Visits : Console!VerifyWrong(v)
<1>1. CASE \E v \in Visits : Console!Request(v)
  BY <1>1, RequestArrives
<1>2. ASSUME visit' = visit PROVE \A w \in Visits : Arrives(w)
  BY <1>2 DEF Arrives
<1>3. CASE \E c \in DOMAIN steps : Console!ChallengeExpires(c)
  <2>1. PICK c \in DOMAIN steps : steps' = [steps EXCEPT ![c] = Console!Gone] /\ wrongCodes' = wrongCodes /\ visit' = visit
    BY <1>3 DEF Console!ChallengeExpires
  <2> QED BY <1>2, <2>1, GoneFrom
<1>4. CASE \/ \E k \in DOMAIN resets : Console!SpendReset(k)
           \/ Console!MfaSetup \/ \E s \in DOMAIN consoleSessions : Console!Logout(s)
           \/ UNCHANGED Console!consoleVars
  <2>1. visit' = visit /\ steps' = steps /\ wrongCodes' = wrongCodes
    BY <1>4 DEF Console!SpendReset, Console!MfaSetup, Console!Logout, Console!redis, Console!consoleVars
  <2> QED BY <1>2, <2>1, StepsSame
<1> QED BY <1>1, <1>3, <1>4 DEF Console!Next

LEMMA WrongFacts ==
  ASSUME ConsoleInv, GuessesTyped, NEW v \in Visits, Console!VerifyWrong(v)
  PROVE  LET c == visit[v].arg.challenge IN
         /\ c \in DOMAIN steps /\ visit[v].op = "verify" /\ visit[v].arg.attempts \in 1..MaxGuesses
         /\ visit'[v].op = "rest" /\ \A w \in Visits \ {v} : visit'[w] = visit[w]
         /\ steps' \in Seq(0..Console!Gone) /\ wrongCodes' \in Seq(Nat) /\ Len(wrongCodes') = Len(steps')
         /\ DOMAIN steps' = DOMAIN steps
         /\ steps'[c] \in {visit[v].arg.attempts, Console!Gone} /\ wrongCodes'[c] = wrongCodes[c] + 1
         /\ \A d \in DOMAIN steps : d # c => steps'[d] = steps[d] /\ wrongCodes'[d] = wrongCodes[d]
<1>1. PICK c, n : c = visit[v].arg.challenge /\ n = visit[v].arg.attempts
  OBVIOUS
<1>2. /\ visit[v].op = "verify" /\ ~(n > MaxGuesses) /\ Console!End(v)
      /\ wrongCodes' = [wrongCodes EXCEPT ![c] = wrongCodes[c] + 1]
      /\ steps' = [steps EXCEPT ![c] = n] \/ (steps[c] = Console!Gone /\ steps' = steps)
  BY <1>1 DEF Console!VerifyWrong, Console!TooMany
<1>3. c \in DOMAIN steps /\ n \in 1..Console!Gone
  BY <1>1, <1>2 DEF GuessesTyped, SignInOps
<1>4. MaxGuesses \in Nat /\ Console!Gone = MaxGuesses + 1
  BY ConsoleAssumption DEF Console!Gone
<1>5. n \in 1..MaxGuesses /\ n \in 0..Console!Gone
  BY <1>2, <1>3, <1>4
<1>6. /\ steps \in Seq(0..Console!Gone) /\ wrongCodes \in Seq(Nat) /\ Len(wrongCodes) = Len(steps) /\ Len(steps) \in Nat
      /\ DOMAIN steps = 1..Len(steps) /\ DOMAIN wrongCodes = 1..Len(steps)
  BY DEF GuessesTyped
<1>7. c \in 1..Len(steps) /\ wrongCodes[c] + 1 \in Nat
  <2>1. c \in DOMAIN wrongCodes
    BY <1>3, <1>6
  <2>2. wrongCodes[c] \in Nat
    BY <1>6, <2>1, ItemIn
  <2> QED BY <1>3, <1>6, <2>2
<1>8. /\ wrongCodes' \in Seq(Nat) /\ Len(wrongCodes') = Len(steps)
      /\ \A j \in 1..Len(steps) : wrongCodes'[j] = IF j = c THEN wrongCodes[c] + 1 ELSE wrongCodes[j]
  BY <1>2, <1>6, <1>7, ExceptSeq
<1>9. /\ steps' \in Seq(0..Console!Gone) /\ Len(steps') = Len(steps) /\ DOMAIN steps' = DOMAIN steps
      /\ \A d \in DOMAIN steps : d # c => steps'[d] = steps[d]
      /\ steps'[c] \in {n, Console!Gone}
  <2>1. CASE steps' = [steps EXCEPT ![c] = n]
    <3>1. /\ steps' \in Seq(0..Console!Gone) /\ Len(steps') = Len(steps)
          /\ \A j \in 1..Len(steps) : steps'[j] = IF j = c THEN n ELSE steps[j]
      BY <1>5, <1>6, <1>7, <2>1, ExceptSeq
    <3>2. DOMAIN steps' = DOMAIN steps
      BY <1>6, <2>1
    <3> QED BY <1>6, <1>7, <3>1, <3>2
  <2>2. CASE steps[c] = Console!Gone /\ steps' = steps
    BY <1>6, <2>2
  <2> QED BY <1>2, <2>1, <2>2
<1>10. visit'[v].op = "rest" /\ \A w \in Visits \ {v} : visit'[w] = visit[w]
  BY <1>2, EndShape DEF Console!Rest
<1> QED BY <1>1, <1>2, <1>3, <1>5, <1>6, <1>7, <1>8, <1>9, <1>10

LEMMA GuessesTypedStep ==
  ConsoleInv /\ GuessesTyped /\ [Console!Next]_(Console!consoleVars) => GuessesTyped'
<1> SUFFICES ASSUME ConsoleInv, GuessesTyped, [Console!Next]_(Console!consoleVars) PROVE GuessesTyped'
  OBVIOUS
<1>1. CASE StepsOnly /\ \A w \in Visits : Arrives(w)
  BY <1>1, ArrivesTyped DEF StepsOnly
<1>2. ASSUME NEW v \in Visits, Console!VerifyWrong(v) PROVE GuessesTyped'
  <2>1. Console!End(v)
    BY <1>2 DEF Console!VerifyWrong
  <2> QED BY <1>2, <2>1, EndArrives, WrongFacts, ArrivesTyped
<1> QED BY <1>1, <1>2, StepArrives

TriedTyped == \A c \in DOMAIN steps : TriedOf(c) \in [Visits -> Nat]

LEMMA WrongKept ==
  ASSUME ConsoleInv, GuessesInv, GuessesTyped', TriedTyped', NEW v \in Visits, Console!VerifyWrong(v)
  PROVE  GuessesInv'
<1>1. GuessesTyped /\ MaxGuesses \in Nat /\ IsFiniteSet(Visits) /\ Console!Gone = MaxGuesses + 1
  BY ConsoleAssumption DEF GuessesInv, Console!Gone
<1>2. PICK c, n : c = visit[v].arg.challenge /\ n = visit[v].arg.attempts
  OBVIOUS
<1>3. /\ c \in DOMAIN steps /\ visit[v].op = "verify" /\ n \in 1..MaxGuesses
      /\ visit'[v].op = "rest" /\ \A w \in Visits \ {v} : visit'[w] = visit[w]
      /\ DOMAIN steps' = DOMAIN steps
      /\ steps'[c] \in {n, Console!Gone} /\ wrongCodes'[c] = wrongCodes[c] + 1
      /\ \A d \in DOMAIN steps : d # c => steps'[d] = steps[d] /\ wrongCodes'[d] = wrongCodes[d]
  BY <1>1, <1>2, WrongFacts
<1>4. \A w \in Visits : Arrives(w)
  BY EndArrives DEF Console!VerifyWrong
<1>5. ASSUME NEW d \in DOMAIN steps
      PROVE  /\ Bounded(Visits, TriedOf(d), MaxGuesses, wrongCodes[d]) /\ TriedOf(d) \in [Visits -> Nat]
             /\ TriedOf(d)' \in [Visits -> Nat] /\ steps[d] \in Nat
             /\ \A w \in Visits : TriedOf(d)[w] = Tried(w, d) /\ TriedOf(d)'[w] = Tried(w, d)'
  <2>1. Bounded(Visits, TriedOf(d), MaxGuesses, wrongCodes[d])
    BY DEF GuessesInv
  <2>2. TriedOf(d) \in [Visits -> Nat] /\ steps[d] \in 0..Console!Gone
    BY <1>1, TriedNat
  <2>3. TriedOf(d)' \in [Visits -> Nat]
    BY <1>3 DEF TriedTyped
  <2>4. \A w \in Visits : TriedOf(d)[w] = Tried(w, d) /\ TriedOf(d)'[w] = Tried(w, d)'
    BY DEF TriedOf
  <2> QED BY <1>1, <2>1, <2>2, <2>3, <2>4
<1>6. ASSUME NEW d \in DOMAIN steps, d # c PROVE Bounded(Visits, TriedOf(d)', MaxGuesses, wrongCodes'[d])
  <2>1. steps[d] <= steps'[d] /\ d \in DOMAIN steps' /\ wrongCodes'[d] = wrongCodes[d]
    BY <1>3, <1>5, <1>6
  <2>2. ASSUME NEW w \in Visits PROVE TriedOf(d)[w] <= TriedOf(d)'[w]
    BY <1>1, <1>4, <1>5, <2>1, TriedGrows
  <2> QED BY <1>1, <1>5, <2>1, <2>2, BoundedKept
<1>7. Bounded(Visits, TriedOf(c)', MaxGuesses, wrongCodes'[c])
  <2>1. PICK l \in 0..(MaxGuesses - 1) : l = n - 1
    BY <1>1, <1>3
  <2>2. steps'[c] \in Nat /\ steps'[c] > l
    BY <1>1, <1>3, <2>1
  <2>3. TriedOf(c)[v] <= l
    <3>1. Tried(v, c) <= l
      BY <1>2, <1>3, <1>5, <2>1 DEF Tried
    <3> QED BY <1>3, <1>5, <3>1
  <2>4. TriedOf(c)'[v] > l
    <3>1. Tried(v, c)' = steps'[c]
      BY <1>3 DEF Tried
    <3> QED BY <1>3, <1>5, <2>2, <3>1
  <2>5. ASSUME NEW u \in Visits PROVE TriedOf(c)[u] <= TriedOf(c)'[u] \/ TriedOf(c)'[u] > l
    <3>1. CASE u = v
      BY <2>4, <3>1
    <3>2. CASE u # v
      <4>1. visit'[u] = visit[u]
        BY <1>3, <3>2
      <4>2. visit[u].op = "verify" => visit[u].arg.attempts \in 1..Console!Gone
        BY <1>1 DEF GuessesTyped, SignInOps
      <4>3. Tried(u, c) <= Tried(u, c)' \/ Tried(u, c)' > l
        BY <1>1, <1>3, <1>5, <2>1, <2>2, <4>1, <4>2 DEF Tried
      <4> QED BY <1>3, <1>5, <4>3
    <3> QED BY <3>1, <3>2
  <2>6. wrongCodes[c] \in Nat
    <3>1. c \in DOMAIN wrongCodes /\ wrongCodes \in Seq(Nat)
      BY <1>1, <1>3 DEF GuessesTyped
    <3> QED BY <3>1, ItemIn
  <2> QED BY <1>1, <1>3, <1>5, <2>3, <2>4, <2>5, <2>6, BoundedFailed
<1> QED BY <1>3, <1>6, <1>7 DEF GuessesInv

LEMMA GuessesStep ==
  ConsoleInv /\ GuessesInv /\ GuessesTyped' /\ TriedTyped' /\ [Console!Next]_(Console!consoleVars) => GuessesInv'
<1> SUFFICES ASSUME ConsoleInv, GuessesInv, GuessesTyped', TriedTyped', [Console!Next]_(Console!consoleVars)
             PROVE  GuessesInv'
  OBVIOUS
<1>1. GuessesTyped
  BY DEF GuessesInv
<1>2. CASE StepsOnly /\ \A w \in Visits : Arrives(w)
  BY <1>2, GuessesKept DEF TriedTyped
<1> QED BY <1>1, <1>2, StepArrives, WrongKept

\* A step-up challenge stands fewer than choose(limit + n, n) wrong codes, for any number n of
\* requests at once and any limit, although a late count brings a removed challenge back
\* (verify_adaptive_challenge, ADAPTIVE_CHALLENGE_MAX_ATTEMPTS).
THEOREM StepUpsBounded == Console!Spec => []StepUpGuessesBounded
<1>1. Console!Init => GuessesInv
  <2> SUFFICES ASSUME Console!Init PROVE GuessesInv
    OBVIOUS
  <2>1. steps = <<>> /\ wrongCodes = <<>> /\ visit = [v \in Visits |-> Console!Rest]
    BY DEF Console!Init
  <2>2. \A v \in Visits : visit[v].op \notin SignInOps
    BY <2>1 DEF Console!Rest, SignInOps
  <2>3. GuessesTyped
    BY <2>1, <2>2 DEF GuessesTyped
  <2> QED BY <2>1, <2>3 DEF GuessesInv
<1>2. GuessesTyped => TriedTyped
  BY TriedNat DEF TriedTyped
<1>3. GuessesInv => GuessesTyped
  BY DEF GuessesInv
<1>4. GuessesInv => StepUpGuessesBounded
  <2> SUFFICES ASSUME GuessesInv, NEW c \in DOMAIN wrongCodes
               PROVE  wrongCodes[c] <= choose(MaxGuesses + Cardinality(Visits), Cardinality(Visits)) - 1
    BY DEF StepUpGuessesBounded
  <2>1. wrongCodes \in Seq(Nat) /\ c \in DOMAIN steps
    BY DEF GuessesInv, GuessesTyped
  <2>2. wrongCodes[c] \in Nat
    BY <2>1, ItemIn
  <2>3. Bounded(Visits, TriedOf(c), MaxGuesses, wrongCodes[c]) /\ TriedOf(c) \in [Visits -> Nat]
    BY <2>1, TriedNat DEF GuessesInv
  <2> QED BY <2>2, <2>3, ConsoleAssumption, BoundedWithin
<1> QED BY <1>1, <1>2, <1>3, <1>4, ConsoleStart, ConsoleStep, GuessesTypedStep, GuessesStep, PTL DEF Console!Spec
=============================================================================
