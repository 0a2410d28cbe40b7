------------------------------ MODULE Session ------------------------------
(***************************************************************************)
(* The sign-in of one wallet and the life of its tokens: the challenges    *)
(* and their verification (src/modules/auth/auth.service.ts), the nonce    *)
(* and the revocation marker in Redis (src/redis.ts), the check of a token *)
(* (src/modules/auth/authenticate.ts) and the deletion of the account,     *)
(* whose rows SlugRegistry models.  Keys of two wallets never meet; slugs  *)
(* that other wallets took appear as collisions.  Times are in ticks.      *)
(***************************************************************************)
EXTENDS Integers

CONSTANTS Challenges,
          Requests,      \* the POST /verify of the wallet, each sent once
          NonceTtl,
          JwtLifetime,
          MaxAttempts,   \* MAX_CREATOR_CREATE_ATTEMPTS
          MaxCreators,   \* bound: the accounts the wallet ever has
          MaxCollisions, \* bound: the temporary slugs that are taken
          MaxTime        \* bound: the clock

(* Fewer collisions and deletions than attempts: what SignInSucceeds asks. *)
ASSUME SessionAssumption ==
  /\ NonceTtl \in Nat \ {0} /\ JwtLifetime \in Nat \ {0}
  /\ MaxAttempts \in Nat \ {0} /\ MaxCreators \in Nat \ {0}
  /\ MaxCollisions \in Nat /\ MaxTime \in Nat
  /\ MaxCollisions + (MaxCreators - 1) < MaxAttempts

None == "none"
ASSUME NoneAssumption == None \notin Challenges

Creators == 1 .. MaxCreators
NoCreator == 0

VARIABLES
  now,
  challenge,  \* how far a challenge got, and the expiry in its message
  nonce,      \* nonce:<wallet>, with the end of its TTL
  stage,      \* how far a verification got
  proof,      \* the challenge it presents, signed or not, and the nonce it read
  attempt,    \* its turn in the loop that creates the account
  sub,        \* the account it signs in
  creator,    \* the row of the wallet
  created,    \* the rows it ever had: ids are not used twice
  collisions,
  deletion,   \* how far the deletion of a creator got
  revoked,    \* auth:revoked:<id>, the end of its TTL
  tokens      \* the tokens handed out

redisVars == <<nonce, revoked>>
rowVars == <<creator, created>>
requestVars == <<stage, proof, attempt, sub>>
vars == <<now, challenge, redisVars, requestVars, rowVars, collisions, deletion, tokens>>

Stages == {"idle", "checking", "proven", "creating", "refetching", "signing",
           "signedIn", "refused", "exhausted", "aborted"}

Init ==
  /\ now = 0
  /\ challenge = [c \in Challenges |-> [stage |-> "none", expires |-> 0]]
  /\ nonce = [of |-> None, until |-> 0]
  /\ stage = [r \in Requests |-> "idle"]
  /\ proof = [r \in Requests |-> [of |-> None, got |-> None, signed |-> FALSE]]
  /\ attempt = [r \in Requests |-> 0]
  /\ sub = [r \in Requests |-> NoCreator]
  /\ creator = NoCreator /\ created = 0 /\ collisions = 0
  /\ deletion = [i \in Creators |-> "none"]
  /\ revoked = [i \in Creators |-> 0]
  /\ tokens = {}

Tick ==
  /\ now < MaxTime
  /\ now' = now + 1
  /\ UNCHANGED <<challenge, redisVars, requestVars, rowVars, collisions, deletion, tokens>>

-----------------------------------------------------------------------------
(* Challenges.                                                             *)

DraftChallenge(c) ==
  /\ challenge[c].stage = "none"
  /\ challenge' = [challenge EXCEPT ![c] = [stage |-> "drafted", expires |-> now + NonceTtl]]
  /\ UNCHANGED <<now, redisVars, requestVars, rowVars, collisions, deletion, tokens>>

(* The SET replaces the nonce of the challenge before.                     *)
SendChallenge(c) ==
  /\ challenge[c].stage = "drafted"
  /\ nonce' = [of |-> c, until |-> now + NonceTtl]
  /\ challenge' = [challenge EXCEPT ![c].stage = "sent"]
  /\ UNCHANGED <<now, revoked, requestVars, rowVars, collisions, deletion, tokens>>

-----------------------------------------------------------------------------
(* Verification.                                                           *)

At(r, s) == stage[r] = s
Go(r, s) == stage' = [stage EXCEPT ![r] = s]

LiveNonce == IF now < nonce.until THEN nonce.of ELSE None

\* Faulty variant: a GET where the code has a GETDEL.
Burnt_Kept == nonce

Burnt == [of |-> None, until |-> 0]

(* The message the wallet signed, or was to sign, and the GETDEL.          *)
ConsumeNonce(r, c, signed) ==
  /\ At(r, "idle") /\ challenge[c].stage = "sent"
  /\ proof' = [proof EXCEPT ![r] = [of |-> c, got |-> LiveNonce, signed |-> signed]]
  /\ nonce' = Burnt
  /\ Go(r, "checking")
  /\ UNCHANGED <<now, challenge, revoked, attempt, sub, rowVars, collisions, deletion, tokens>>

Proves(p) ==
  /\ p.got # None
  /\ p.got = p.of
  /\ now <= challenge[p.of].expires
  /\ p.signed

CheckProof(r) ==
  /\ At(r, "checking")
  /\ Go(r, IF Proves(proof[r]) THEN "proven" ELSE "refused")
  /\ UNCHANGED <<now, challenge, redisVars, proof, attempt, sub, rowVars, collisions,
                 deletion, tokens>>

(* Found: the token is signed for the account.                             *)
SignIn(r, i) ==
  /\ sub' = [sub EXCEPT ![r] = i]
  /\ Go(r, "signing")
  /\ UNCHANGED attempt

FindCreator(r) ==
  /\ At(r, "proven")
  /\ IF creator # NoCreator THEN SignIn(r, creator)
     ELSE Go(r, "creating") /\ UNCHANGED <<attempt, sub>>
  /\ UNCHANGED <<now, challenge, redisVars, proof, rowVars, collisions, deletion, tokens>>

(* The next attempt with a new suffix, or the error of the last.           *)
Retry(r) ==
  /\ attempt' = [attempt EXCEPT ![r] = @ + 1]
  /\ Go(r, IF attempt[r] + 1 < MaxAttempts THEN "creating" ELSE "exhausted")
  /\ UNCHANGED sub

SlugCollides(r) ==
  /\ At(r, "creating") /\ collisions < MaxCollisions
  /\ collisions' = collisions + 1
  /\ Retry(r)
  /\ UNCHANGED <<now, challenge, redisVars, proof, rowVars, deletion, tokens>>

CreateCreator(r) ==
  /\ At(r, "creating")
  /\ creator = NoCreator /\ created < MaxCreators
  /\ created' = created + 1 /\ creator' = created + 1
  /\ SignIn(r, created + 1)
  /\ UNCHANGED <<now, challenge, redisVars, proof, collisions, deletion, tokens>>

\* Faulty variant: a conflict on the wallet is retried like one on the slug.
AfterConflict_NoRefetch(r) == Retry(r)

AfterConflict(r) == Go(r, "refetching") /\ UNCHANGED <<attempt, sub>>

WalletConflicts(r) ==
  /\ At(r, "creating") /\ creator # NoCreator
  /\ AfterConflict(r)
  /\ UNCHANGED <<now, challenge, redisVars, proof, rowVars, collisions, deletion, tokens>>

RefetchCreator(r) ==
  /\ At(r, "refetching")
  /\ IF creator # NoCreator THEN SignIn(r, creator) ELSE Retry(r)
  /\ UNCHANGED <<now, challenge, redisVars, proof, rowVars, collisions, deletion, tokens>>

SignToken(r) ==
  /\ At(r, "signing")
  /\ tokens' = tokens \cup
       {[request |-> r, of |-> proof[r].of, sub |-> sub[r], exp |-> now + JwtLifetime,
         late |-> deletion[sub[r]] = "done"]}
  /\ Go(r, "signedIn")
  /\ UNCHANGED <<now, challenge, redisVars, proof, attempt, sub, rowVars, collisions, deletion>>

(* A query that fails, or a process that stops.                            *)
Abort(r) ==
  /\ stage[r] \in {"proven", "creating", "refetching"}
  /\ Go(r, "aborted")
  /\ UNCHANGED <<now, challenge, redisVars, proof, attempt, sub, rowVars, collisions,
                 deletion, tokens>>

-----------------------------------------------------------------------------
(* Accounts that go: DELETE /me, and the pruner, which revokes nothing.    *)
(* The last account of the bound stays.                                    *)

Accepted(t) == now < t.exp /\ ~(now < revoked[t.sub])

AdmitDeletion(t) ==
  /\ t \in tokens /\ Accepted(t)
  /\ deletion[t.sub] = "none"
  /\ deletion' = [deletion EXCEPT ![t.sub] = "admitted"]
  /\ UNCHANGED <<now, challenge, redisVars, requestVars, rowVars, collisions, tokens>>

CommitDeletion(i) ==
  /\ deletion[i] = "admitted"
  /\ IF creator = i
     THEN i < MaxCreators /\ creator' = NoCreator
          /\ deletion' = [deletion EXCEPT ![i] = "committed"]
     ELSE deletion' = [deletion EXCEPT ![i] = "notFound"] /\ UNCHANGED creator
  /\ UNCHANGED <<now, challenge, redisVars, requestVars, created, collisions, tokens>>

\* Faulty variant: a marker that ends a tick too early.
MarkerTtl_Short == JwtLifetime - 1

MarkerTtl == JwtLifetime

RevokeTokens(i) ==
  /\ deletion[i] = "committed"
  /\ revoked' = [revoked EXCEPT ![i] = now + MarkerTtl]
  /\ deletion' = [deletion EXCEPT ![i] = "done"]
  /\ UNCHANGED <<now, challenge, nonce, requestVars, rowVars, collisions, tokens>>

(* Redis fails, or the process stops: a second DELETE finds no account.    *)
RevocationLost(i) ==
  /\ deletion[i] = "committed"
  /\ deletion' = [deletion EXCEPT ![i] = "unmarked"]
  /\ UNCHANGED <<now, challenge, redisVars, requestVars, rowVars, collisions, tokens>>

PrunePlaceholder ==
  /\ creator \in Creators /\ creator < MaxCreators
  /\ creator' = NoCreator
  /\ UNCHANGED <<now, challenge, redisVars, requestVars, created, collisions, deletion, tokens>>

-----------------------------------------------------------------------------

Challenge(c) == DraftChallenge(c) \/ SendChallenge(c)

Answer(r) ==
  \/ CheckProof(r) \/ FindCreator(r) \/ SlugCollides(r) \/ CreateCreator(r)
  \/ WalletConflicts(r) \/ RefetchCreator(r) \/ SignToken(r)

Deletion(i) == CommitDeletion(i) \/ RevokeTokens(i) \/ RevocationLost(i)

Next ==
  \/ Tick \/ PrunePlaceholder
  \/ \E c \in Challenges : Challenge(c)
  \/ \E r \in Requests, c \in Challenges, signed \in BOOLEAN : ConsumeNonce(r, c, signed)
  \/ \E r \in Requests : Answer(r) \/ Abort(r)
  \/ \E t \in tokens : AdmitDeletion(t)
  \/ \E i \in Creators : Deletion(i)

(* A verification that runs goes on by itself.                             *)
Spec == Init /\ [][Next]_vars /\ \A r \in Requests : WF_vars(Answer(r))

-----------------------------------------------------------------------------

(* Every variable holds a value of its range.                              *)
TypeOK ==
  /\ now \in Nat
  /\ challenge \in [Challenges -> [stage : {"none", "drafted", "sent"}, expires : Nat]]
  /\ nonce \in [of : Challenges \cup {None}, until : Nat]
  /\ stage \in [Requests -> Stages]
  /\ proof \in [Requests -> [of : Challenges \cup {None}, got : Challenges \cup {None},
                           signed : BOOLEAN]]
  /\ attempt \in [Requests -> 0 .. MaxAttempts]
  /\ sub \in [Requests -> Creators \cup {NoCreator}]
  /\ creator \in Creators \cup {NoCreator}
  /\ created \in 0 .. MaxCreators /\ collisions \in 0 .. MaxCollisions
  /\ deletion \in [Creators ->
       {"none", "admitted", "committed", "done", "unmarked", "notFound"}]
  /\ revoked \in [Creators -> Nat]
  /\ tokens \subseteq [request : Requests, of : Challenges, sub : Creators, exp : Nat,
                       late : BOOLEAN]

(* One challenge signs the wallet in once, however many requests carry its *)
(* signed message and however they overlap (the GETDEL of redis.ts).       *)
ChallengeUsedOnce == \A t, u \in tokens : t.of = u.of => t = u

(* Once the account is deleted and its marker set, no token signed before  *)
(* passes authenticate again, at any later time.                           *)
RevokedStaysOut ==
  \A t \in tokens : deletion[t.sub] = "done" /\ ~t.late => ~Accepted(t)

(* A wallet that proved its challenge gets its token, unless a query       *)
(* fails: a double click, a taken slug and an account deleted in between   *)
(* only cost it attempts (auth.service.ts, the loop and its comment #87).  *)
SignInSucceeds ==
  \A r \in Requests : At(r, "proven") ~> stage[r] \in {"signedIn", "aborted"}
=============================================================================
