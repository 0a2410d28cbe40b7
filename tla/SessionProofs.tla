--------------------------- MODULE SessionProofs ---------------------------
(***************************************************************************)
(* Session for any number of challenges, requests, accounts and ticks: a   *)
(* challenge signs in once, and a revoked token is refused until it ends.  *)
(***************************************************************************)
EXTENDS Session, TLAPS

Passed == {"proven", "creating", "refetching", "signing", "signedIn"}

(* An attempt is left while the loop runs, and what is signed has an id.   *)
LoopInv ==
  \A r \in Requests :
    /\ stage[r] \in {"idle", "checking", "proven", "creating", "refetching"}
         => attempt[r] < MaxAttempts
    /\ stage[r] \in {"signing", "signedIn"} => sub[r] \in Creators

(* A nonce that was read is in Redis no more and never will be again, so   *)
(* that no two requests hold the same.                                     *)
NonceInv ==
  /\ nonce.of # None => challenge[nonce.of].stage = "sent"
  /\ \A r \in Requests : proof[r].got # None =>
       challenge[proof[r].got].stage = "sent" /\ nonce.of # proof[r].got
  /\ \A r, s \in Requests :
       proof[r].got # None /\ proof[r].got = proof[s].got => r = s
  /\ \A r \in Requests : stage[r] \in Passed =>
       proof[r].got # None /\ proof[r].got = proof[r].of

TokenInv ==
  /\ \A t \in tokens : stage[t.request] = "signedIn" /\ proof[t.request].of = t.of
  /\ \A t, u \in tokens : t.request = u.request => t = u

(* The marker outlives every token signed before it.                       *)
MarkerInv ==
  \A t \in tokens :
    /\ t.exp <= now + JwtLifetime
    /\ deletion[t.sub] = "done" /\ ~t.late => t.exp <= revoked[t.sub]

IInv == TypeOK /\ LoopInv /\ NonceInv /\ TokenInv /\ MarkerInv

-----------------------------------------------------------------------------

LEMMA InitInv == Init => IInv
BY SessionAssumption, NoneAssumption
DEF Init, IInv, TypeOK, LoopInv, NonceInv, TokenInv, MarkerInv, Stages, Passed,
    Creators, NoCreator

(* The clock, the challenges, and the accounts that go.                    *)
LEMMA TickKeeps == IInv /\ Tick => IInv'
BY SessionAssumption
DEF IInv, Tick, TypeOK, LoopInv, NonceInv, TokenInv, MarkerInv, redisVars, rowVars, requestVars

LEMMA ChallengeKeeps ==
  ASSUME IInv, NEW c \in Challenges, Challenge(c)
  PROVE  IInv'
<1> USE SessionAssumption, NoneAssumption DEF IInv
<1>1. CASE DraftChallenge(c)
  <2>1. TypeOK' /\ LoopInv' /\ TokenInv' /\ MarkerInv'
    BY <1>1 DEF DraftChallenge, TypeOK, LoopInv, TokenInv, MarkerInv, redisVars, rowVars, requestVars
  <2>2. NonceInv'
    BY <1>1 DEF DraftChallenge, TypeOK, NonceInv, redisVars, rowVars, requestVars
  <2>3. QED
    BY <2>1, <2>2
<1>2. CASE SendChallenge(c)
  <2>1. TypeOK' /\ LoopInv' /\ TokenInv' /\ MarkerInv'
    BY <1>2 DEF SendChallenge, TypeOK, LoopInv, TokenInv, MarkerInv, rowVars, requestVars
  <2>2. NonceInv'
    BY <1>2 DEF SendChallenge, TypeOK, NonceInv, rowVars, requestVars
  <2>3. QED
    BY <2>1, <2>2
<1>3. QED
  BY <1>1, <1>2 DEF Challenge

LEMMA AccountKeeps ==
  ASSUME IInv,
         \/ PrunePlaceholder
         \/ \E t \in tokens : AdmitDeletion(t)
         \/ \E i \in Creators : Deletion(i)
  PROVE  IInv'
<1> USE SessionAssumption DEF IInv
<1>1. CASE PrunePlaceholder
  BY <1>1 DEF PrunePlaceholder, TypeOK, LoopInv, NonceInv, TokenInv, MarkerInv, redisVars, requestVars
<1>2. CASE \E t \in tokens : AdmitDeletion(t)
  <2>1. PICK t \in tokens : AdmitDeletion(t)
    BY <1>2
  <2>2. TypeOK' /\ LoopInv' /\ NonceInv' /\ TokenInv'
    BY <2>1 DEF AdmitDeletion, TypeOK, LoopInv, NonceInv, TokenInv, redisVars, rowVars, requestVars
  <2>3. MarkerInv'
    BY <2>1 DEF AdmitDeletion, TypeOK, MarkerInv, redisVars, rowVars, requestVars
  <2>4. QED
    BY <2>2, <2>3
<1>3. CASE \E i \in Creators : Deletion(i)
  <2>1. PICK i \in Creators : Deletion(i)
    BY <1>3
  <2>2. CASE CommitDeletion(i)
    <3>1. LoopInv' /\ NonceInv' /\ TokenInv'
      BY <2>2 DEF CommitDeletion, TypeOK, LoopInv, NonceInv, TokenInv, redisVars, requestVars
    <3>2. TypeOK'
      BY <2>2 DEF CommitDeletion, TypeOK, redisVars, requestVars
    <3>3. MarkerInv'
      BY <2>2 DEF CommitDeletion, TypeOK, MarkerInv, redisVars, requestVars
    <3>4. QED
      BY <3>1, <3>2, <3>3
  <2>3. CASE RevokeTokens(i)
    <3>1. LoopInv' /\ NonceInv' /\ TokenInv'
      BY <2>3 DEF RevokeTokens, TypeOK, LoopInv, NonceInv, TokenInv, rowVars, requestVars
    <3>2. TypeOK'
      BY <2>3 DEF RevokeTokens, TypeOK, MarkerTtl, rowVars, requestVars
    <3>3. MarkerInv'
      BY <2>3 DEF RevokeTokens, TypeOK, MarkerInv, MarkerTtl, rowVars, requestVars
    <3>4. QED
      BY <3>1, <3>2, <3>3
  <2>4. CASE RevocationLost(i)
    <3>1. TypeOK' /\ LoopInv' /\ NonceInv' /\ TokenInv'
      BY <2>4 DEF RevocationLost, TypeOK, LoopInv, NonceInv, TokenInv, redisVars, rowVars, requestVars
    <3>2. MarkerInv'
      BY <2>4 DEF RevocationLost, TypeOK, MarkerInv, redisVars, rowVars, requestVars
    <3>3. QED
      BY <3>1, <3>2
  <2>5. QED
    BY <2>1, <2>2, <2>3, <2>4 DEF Deletion
<1>4. QED
  BY <1>1, <1>2, <1>3

-----------------------------------------------------------------------------
(* A verification.  Most of its steps move one request and no more.        *)

LEMMA ConsumeKeeps ==
  ASSUME IInv, NEW r \in Requests, NEW c \in Challenges, NEW signed \in BOOLEAN,
         ConsumeNonce(r, c, signed)
  PROVE  IInv'
<1> USE SessionAssumption, NoneAssumption DEF IInv, ConsumeNonce, At, Go, LiveNonce, Burnt
<1>1. TypeOK'
  BY DEF TypeOK, Stages, rowVars, requestVars
<1>2. LoopInv' /\ TokenInv' /\ MarkerInv'
  BY DEF TypeOK, LoopInv, TokenInv, MarkerInv, rowVars, requestVars
<1>3. NonceInv'
  BY DEF TypeOK, NonceInv, Passed, rowVars, requestVars
<1>4. QED
  BY <1>1, <1>2, <1>3

(* A request that goes on, with or without an account, in the loop or out. *)
LEMMA MoveKeeps ==
  ASSUME IInv, NEW r \in Requests, NEW s \in Stages, Go(r, s),
         stage[r] \notin {"idle", "signedIn"}, s \notin {"idle", "signedIn"},
         s \in Passed => stage[r] \in Passed \/ Proves(proof[r]),
         attempt' \in [Requests -> 0 .. MaxAttempts], sub' \in [Requests -> Creators \cup {NoCreator}],
         \A q \in Requests \ {r} : attempt'[q] = attempt[q] /\ sub'[q] = sub[q],
         s \in {"proven", "creating", "refetching"} => attempt'[r] < MaxAttempts,
         s = "signing" => sub'[r] \in Creators,
         s # "checking",
         creator' \in Creators \cup {NoCreator}, created' \in 0 .. MaxCreators,
         collisions' \in 0 .. MaxCollisions,
         UNCHANGED <<now, challenge, redisVars, proof, deletion, tokens>>
  PROVE  IInv'
<1> USE SessionAssumption DEF IInv, Go
<1>1. TypeOK'
  BY DEF TypeOK, redisVars
<1>2. LoopInv'
  BY DEF TypeOK, LoopInv
<1>3. NonceInv'
  BY DEF TypeOK, NonceInv, Proves, redisVars
<1>4. TokenInv' /\ MarkerInv'
  BY DEF TypeOK, TokenInv, MarkerInv, redisVars, requestVars
<1>5. QED
  BY <1>1, <1>2, <1>3, <1>4

LEMMA SignInKeeps ==
  ASSUME IInv, NEW r \in Requests, NEW i \in Creators, SignIn(r, i), stage[r] \in Passed,
         stage[r] # "signedIn",
         creator' \in Creators \cup {NoCreator}, created' \in 0 .. MaxCreators,
         UNCHANGED <<now, challenge, redisVars, proof, collisions, deletion, tokens>>
  PROVE  IInv'
<1>1. sub' \in [Requests -> Creators \cup {NoCreator}] /\ sub'[r] = i
  BY DEF IInv, TypeOK, SignIn
<1>2. QED
  BY <1>1, MoveKeeps DEF IInv, TypeOK, SignIn, Passed, Stages

LEMMA RetryKeeps ==
  ASSUME IInv, NEW r \in Requests, Retry(r), stage[r] \in {"creating", "refetching"},
         collisions' \in 0 .. MaxCollisions,
         UNCHANGED <<now, challenge, redisVars, proof, rowVars, deletion, tokens>>
  PROVE  IInv'
<1> DEFINE s == IF attempt[r] + 1 < MaxAttempts THEN "creating" ELSE "exhausted"
<1>1. attempt[r] \in 0 .. MaxAttempts /\ attempt[r] < MaxAttempts
  BY DEF IInv, TypeOK, LoopInv
<1>2. attempt' \in [Requests -> 0 .. MaxAttempts] /\ attempt'[r] = attempt[r] + 1
  BY <1>1, SessionAssumption DEF IInv, TypeOK, Retry
<1>3. Go(r, s) /\ s \in {"creating", "exhausted"} /\ UNCHANGED sub
  BY DEF Retry
<1>4. s = "creating" => attempt'[r] < MaxAttempts
  BY <1>2
<1>5. QED
  BY <1>2, <1>3, <1>4, MoveKeeps DEF IInv, TypeOK, Retry, Passed, Stages, rowVars, requestVars

LEMMA ReadKeeps ==
  ASSUME IInv, NEW r \in Requests, FindCreator(r) \/ RefetchCreator(r)
  PROVE  IInv'
<1> USE DEF FindCreator, RefetchCreator, At
<1>1. CASE creator # NoCreator
  BY <1>1, SignInKeeps DEF IInv, TypeOK, Passed, rowVars, requestVars
<1>2. CASE creator = NoCreator /\ FindCreator(r)
  BY <1>2, MoveKeeps DEF IInv, TypeOK, LoopInv, Passed, Stages, rowVars, requestVars
<1>3. CASE creator = NoCreator /\ RefetchCreator(r)
  BY <1>3, RetryKeeps DEF IInv, TypeOK
<1>4. QED
  BY <1>1, <1>2, <1>3

LEMMA CreateKeeps ==
  ASSUME IInv, NEW r \in Requests,
         SlugCollides(r) \/ CreateCreator(r) \/ WalletConflicts(r)
  PROVE  IInv'
<1> USE DEF At
<1>1. CASE SlugCollides(r)
  BY <1>1, RetryKeeps, SessionAssumption DEF SlugCollides, IInv, TypeOK
<1>2. CASE CreateCreator(r)
  <2>1. created + 1 \in Creators /\ created + 1 \in 0 .. MaxCreators
    BY <1>2, SessionAssumption DEF CreateCreator, IInv, TypeOK, Creators
  <2>2. QED
    BY <1>2, <2>1, SignInKeeps DEF CreateCreator, Passed
<1>3. CASE WalletConflicts(r)
  BY <1>3, MoveKeeps
  DEF WalletConflicts, AfterConflict, IInv, TypeOK, LoopInv, Passed, Stages, rowVars, requestVars
<1>4. QED
  BY <1>1, <1>2, <1>3

LEMMA EndKeeps ==
  ASSUME IInv, NEW r \in Requests, CheckProof(r) \/ Abort(r)
  PROVE  IInv'
<1>1. stage[r] \in {"checking", "proven", "creating", "refetching"}
  BY DEF CheckProof, Abort, At
<1>2. PICK s \in {"proven", "refused", "aborted"} : Go(r, s) /\ (s = "proven" => Proves(proof[r]))
  BY DEF CheckProof, Abort
<1>3. UNCHANGED <<now, challenge, redisVars, proof, attempt, sub, rowVars, collisions, deletion, tokens>>
  BY DEF CheckProof, Abort
<1>4. QED
  BY <1>1, <1>2, <1>3, MoveKeeps DEF IInv, TypeOK, LoopInv, Passed, Stages, rowVars, requestVars

(* Only here a token is handed out, to a request that has none yet.        *)
LEMMA SignKeeps ==
  ASSUME IInv, NEW r \in Requests, SignToken(r)
  PROVE  IInv'
<1> USE SessionAssumption DEF IInv
<1> DEFINE token == [request |-> r, of |-> proof[r].of, sub |-> sub[r],
                     exp |-> now + JwtLifetime, late |-> deletion[sub[r]] = "done"]
<1>1. /\ stage[r] = "signing" /\ sub[r] \in Creators /\ proof[r].of \in Challenges
      /\ tokens' = tokens \cup {token}
      /\ stage' = [stage EXCEPT ![r] = "signedIn"]
      /\ UNCHANGED <<now, challenge, redisVars, proof, attempt, sub, rowVars, collisions, deletion>>
  BY DEF SignToken, At, Go, TypeOK, LoopInv, NonceInv, Passed
<1>2. token \in [request : Requests, of : Challenges, sub : Creators, exp : Nat,
                 late : BOOLEAN]
  BY <1>1 DEF TypeOK
<1>3. TypeOK'
  BY <1>1, <1>2 DEF TypeOK, Stages, redisVars, rowVars, requestVars
<1>4. LoopInv' /\ NonceInv'
  BY <1>1 DEF TypeOK, LoopInv, NonceInv, Passed, redisVars
<1>5. TokenInv'
  BY <1>1 DEF TypeOK, TokenInv
<1>6. MarkerInv'
  <2>1. \A t \in tokens : t.exp <= now + JwtLifetime
                         /\ (deletion[t.sub] = "done" /\ ~t.late => t.exp <= revoked[t.sub])
    BY DEF MarkerInv
  <2>2. token.exp = now + JwtLifetime /\ now + JwtLifetime \in Nat
    BY DEF TypeOK
  <2>3. deletion[token.sub] = "done" => token.late
    BY Zenon
  <2>4. token.exp <= now + JwtLifetime
    BY <2>2
  <2> HIDE DEF token
  <2>5. \A t \in tokens' : t.exp <= now + JwtLifetime
                          /\ (deletion[t.sub] = "done" /\ ~t.late => t.exp <= revoked[t.sub])
    BY <1>1, <2>1, <2>3, <2>4
  <2>6. QED
    BY <1>1, <2>5 DEF MarkerInv, redisVars, requestVars
<1>7. QED
  BY <1>3, <1>4, <1>5, <1>6

-----------------------------------------------------------------------------

LEMMA StepKeeps == IInv /\ [Next]_vars => IInv'
<1> SUFFICES ASSUME IInv, [Next]_vars
             PROVE  IInv'
  OBVIOUS
<1>1. CASE Tick \/ PrunePlaceholder
  BY <1>1, TickKeeps, AccountKeeps
<1>2. CASE \E c \in Challenges : Challenge(c)
  BY <1>2, ChallengeKeeps
<1>3. CASE \E r \in Requests, c \in Challenges, signed \in BOOLEAN : ConsumeNonce(r, c, signed)
  BY <1>3, ConsumeKeeps
<1>4. CASE \E r \in Requests : Answer(r) \/ Abort(r)
  BY <1>4, EndKeeps, ReadKeeps, CreateKeeps, SignKeeps DEF Answer
<1>5. CASE (\E t \in tokens : AdmitDeletion(t)) \/ (\E i \in Creators : Deletion(i))
  BY <1>5, AccountKeeps
<1>6. CASE UNCHANGED vars
  BY <1>6 DEF vars, redisVars, rowVars, requestVars, IInv, TypeOK, LoopInv, NonceInv, TokenInv, MarkerInv
<1>7. QED
  BY <1>1, <1>2, <1>3, <1>4, <1>5, <1>6 DEF Next

(* What the four parts say holds of every behaviour.                       *)
THEOREM SessionInductive == Spec => []IInv
BY InitInv, StepKeeps, PTL DEF Spec

(* Every variable of the sign-in keeps its type: no request goes beyond    *)
(* its attempts, and nothing is signed for an account that has no id.      *)
THEOREM SessionTypeCorrect == Spec => []TypeOK
<1>1. IInv => TypeOK
  BY DEF IInv
<1>2. QED
  BY <1>1, SessionInductive, PTL

(* One challenge signs in once, for any number of requests that carry it,  *)
(* however many challenges overwrite each other (the GETDEL of redis.ts).  *)
THEOREM ChallengeSignsInOnce == Spec => []ChallengeUsedOnce
<1>1. IInv => ChallengeUsedOnce
  BY DEF IInv, TypeOK, NonceInv, TokenInv, ChallengeUsedOnce, Passed
<1>2. QED
  BY <1>1, SessionInductive, PTL

(* A token signed before the marker is refused from then on, at any time   *)
(* and for any lifetime of the tokens: the marker ends after they do.      *)
THEOREM RevocationHolds == Spec => []RevokedStaysOut
<1>1. IInv => RevokedStaysOut
  BY SessionAssumption DEF IInv, TypeOK, MarkerInv, RevokedStaysOut, Accepted
<1>2. QED
  BY <1>1, SessionInductive, PTL
=============================================================================
