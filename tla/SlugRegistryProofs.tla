------------------------- MODULE SlugRegistryProofs -------------------------
(***************************************************************************)
(* Where a tip's credit can go, for every set of creators, slugs, tips and *)
(* overlapping requests.                                                   *)
(***************************************************************************)
EXTENDS SlugRegistry, FiniteSetTheorems, TLAPS

LEMMA InitIInv == Init => IInv
<1> SUFFICES ASSUME Init PROVE IInv
  OBVIOUS
<1> USE RegistryAssumption DEF Init
<1>1. CreatorsOK /\ TipsOK /\ ReqOK
  BY DEF CreatorsOK, TipsOK, ReqOK, Names, Owners
<1>2. ReleasedOK
  BY DEF ReleasedOK, NotReleased
<1>3. RestOK /\ pruning \in BOOLEAN
  <2>1. RestOK
    BY DEF RestOK
  <2>2. pruning \in BOOLEAN
    BY Zenon
  <2>3. QED
    BY <2>1, <2>2
<1>4. RequestInv
  BY DEF RequestInv, At
<1>5. JarInv /\ CreditMatchesJar
  BY DEF JarInv, CreditMatchesJar
<1>6. QED
  BY <1>1, <1>2, <1>3, <1>4, <1>5 DEF IInv, TypeOK

(* Moving a request on disturbs nothing, unless it moves on to "attach".   *)
LEMMA GotoKeeps ==
  ASSUME ReqOK, RequestInv, NEW r \in Requests, req[r].pc # "new",
         NEW pc \in {"taken", "hold", "update", "release", "commit", "revoke", "done"},
         Goto(r, pc), UNCHANGED creatorRows
  PROVE  ReqOK' /\ RequestInv'
<1>1. ReqOK'
  BY DEF ReqOK, Goto
<1>2. RequestInv'
  <2> SUFFICES ASSUME NEW q \in Requests
               PROVE  /\ req'[q].pc # "new" => req'[q].who \in Creators /\ req'[q].slug \in Slugs
                      /\ At(q, {"claim"}, "attach")' => req'[q].slug \in jarsOf'[req'[q].who]
    BY DEF RequestInv, At
  <2>1. jarsOf' = jarsOf
    BY DEF creatorRows
  <2>2. CASE q = r
    BY <2>1, <2>2 DEF ReqOK, RequestInv, Goto, At
  <2>3. CASE q # r
    BY <2>1, <2>3 DEF ReqOK, RequestInv, Goto, At
  <2>4. QED
    BY <2>2, <2>3
<1>3. QED
  BY <1>1, <1>2

(* Creators go, and with them what refers to them.                         *)
LEMMA RemovalKeeps ==
  ASSUME CreatorsOK, TipsOK, JarInv, CreditMatchesJar,
         NEW gone \in SUBSET alive,
         NEW rel, rel \in [Names -> [row : BOOLEAN, owner : alive \cup {NoOne}, held : BOOLEAN]],
         RemoveCreators(gone, rel), UNCHANGED indexing
  PROVE  CreatorsOK' /\ ReleasedOK' /\ TipsOK' /\ JarInv' /\ CreditMatchesJar'
<1> USE RegistryAssumption DEF RemoveCreators
<1>1. CreatorsOK'
  BY DEF CreatorsOK
<1>2. ReleasedOK'
  <2> SUFFICES ASSUME NEW n \in Names
               PROVE  released'[n] \in [row : BOOLEAN, owner : alive' \cup {NoOne}, held : BOOLEAN]
    BY Zenon DEF ReleasedOK, Disowned
  <2> DEFINE x == rel[n]
  <2>1. x \in [row : BOOLEAN, owner : alive \cup {NoOne}, held : BOOLEAN]
    OBVIOUS
  <2>2. x.row \in BOOLEAN /\ x.owner \in alive \cup {NoOne} /\ x.held \in BOOLEAN
    BY <2>1, Zenon
  <2>3. released'[n] = IF x.owner \in gone THEN [x EXCEPT !.owner = NoOne] ELSE x
    BY Zenon DEF Disowned
  <2>4. CASE x.owner \in gone
    <3>1. [x EXCEPT !.owner = NoOne] \in [row : BOOLEAN, owner : alive' \cup {NoOne}, held : BOOLEAN]
      BY <2>1
    <3>2. QED
      BY <2>3, <2>4, <3>1, Zenon
  <2>5. CASE x.owner \notin gone
    <3>1. x.owner \in alive' \cup {NoOne}
      BY <2>2, <2>5
    <3>2. x \in [row : BOOLEAN, owner : alive' \cup {NoOne}, held : BOOLEAN]
      BY <2>1, <3>1
    <3>3. QED
      BY <2>3, <2>5, <3>2, Zenon
  <2>6. QED
    BY <2>4, <2>5
<1>3. TipsOK'
  BY DEF TipsOK
<1>4. JarInv' /\ CreditMatchesJar'
  BY DEF JarInv, CreditMatchesJar
<1>5. QED
  BY <1>1, <1>2, <1>3, <1>4

(* One lemma per group of actions that disturb the same parts.             *)
LEMMA MovesOnly ==
  ASSUME IInv, NEW r \in Requests,
         \/ ReadTaken(r) \/ CheckHold(r) \/ UpdateRefused(r) \/ RevokeCreatorTokens(r)
         \/ RequestFails(r)
  PROVE  IInv'
<1> USE RegistryAssumption
<1>1. /\ req[r].pc # "new"
      /\ \E pc \in {"taken", "hold", "update", "release", "commit", "revoke", "done"} : Goto(r, pc)
      /\ UNCHANGED <<creatorRows, released, tipRows, indexing, pruner>>
      /\ revoked' \in {revoked, revoked \cup {req[r].who}}
      /\ faults' = faults \/ Fault
  BY DEF ReadTaken, CheckHold, UpdateRefused, RevokeCreatorTokens, RequestFails, At, InProgress
<1>2. ReqOK' /\ RequestInv'
  BY <1>1, GotoKeeps DEF IInv, TypeOK
<1>3. CreatorsOK' /\ TipsOK' /\ ReleasedOK'
  BY <1>1 DEF IInv, TypeOK, CreatorsOK, TipsOK, ReleasedOK, creatorRows, tipRows
<1>4. RestOK'
  <2>1. req[r].who \in Creators
    BY <1>1 DEF IInv, RequestInv
  <2>2. faults' \in 0 .. MaxFaults
    BY <1>1 DEF Fault, IInv, TypeOK, RestOK
  <2>3. QED
    BY <1>1, <2>1, <2>2 DEF IInv, TypeOK, RestOK, pruner
<1>5. pruning' \in BOOLEAN
  BY <1>1, Zenon DEF IInv, TypeOK, pruner
<1>6. JarInv' /\ CreditMatchesJar'
  BY <1>1 DEF IInv, JarInv, CreditMatchesJar, creatorRows, tipRows
<1>7. QED
  BY <1>2, <1>3, <1>4, <1>5, <1>6 DEF IInv, TypeOK

LEMMA SignInKeeps ==
  ASSUME IInv, NEW c \in Creators, SignIn(c)
  PROVE  IInv'
<1> USE RegistryAssumption DEF IInv, TypeOK
<1>0. /\ UNCHANGED <<released, tipJar, tipOwner, creditedTo, revoked, req, indexing,
                     candidates, pruning, faults>>
      /\ born' = born \cup {c} /\ alive' = alive \cup {c} /\ c \notin born
      /\ slug' = [slug EXCEPT ![c] = c] /\ slugsOf' = [slugsOf EXCEPT ![c] = @ \cup {c}]
      /\ jar' = [jar EXCEPT ![c] = c] /\ jarsOf' = [jarsOf EXCEPT ![c] = @ \cup {c}]
      /\ UNCHANGED <<rivals, overtaken>>
  BY DEF SignIn, tipRows, pruner
<1>1. CreatorsOK' /\ ReqOK' /\ RestOK'
  BY <1>0 DEF CreatorsOK, ReqOK, RestOK, Names
<1>2. TipsOK'
  BY <1>0 DEF TipsOK
<1>3. ReleasedOK'
  BY <1>0 DEF ReleasedOK
<1>4. pruning' \in BOOLEAN
  BY <1>0, Zenon
<1>5. \A d \in Creators : jarsOf[d] \subseteq jarsOf'[d] /\ jarsOf'[c] = jarsOf[c] \cup {c}
  BY <1>0 DEF CreatorsOK
<1>6. JarInv'
  <2>1. \A d \in alive' : jar'[d] \in jarsOf'[d]
    BY <1>0, <1>5 DEF JarInv, CreatorsOK
  <2>2. \A p \in indexing' : p.owner # NoOne => p.jar \in jarsOf'[p.owner]
    BY <1>0, <1>5 DEF JarInv, RestOK, Owners
  <2>3. QED
    BY <2>1, <2>2 DEF JarInv
<1>7. RequestInv'
  BY <1>0, <1>5 DEF RequestInv, At
<1>8. CreditMatchesJar'
  BY <1>0, <1>5 DEF CreditMatchesJar, TipsOK
<1>9. QED
  BY <1>1, <1>2, <1>3, <1>4, <1>6, <1>7, <1>8

LEMMA RequestKeeps ==
  ASSUME IInv, NEW r \in Requests, Request(r)
  PROVE  IInv'
<1> USE RegistryAssumption DEF IInv, TypeOK
<1>0. /\ UNCHANGED <<creatorRows, released, tipRows, revoked, indexing, pruner, faults>>
      /\ \E c \in born, s \in Slugs, k \in {"claim", "rename", "delete"} :
           req' = [req EXCEPT ![r] = [kind |-> k, who |-> c, slug |-> s, old |-> NoOne,
                                      pc |-> "current"]]
  BY DEF Request
<1>1. CreatorsOK' /\ TipsOK' /\ ReleasedOK' /\ RestOK'
  BY <1>0 DEF CreatorsOK, TipsOK, ReleasedOK, RestOK, creatorRows, tipRows, pruner
<1>2. pruning' \in BOOLEAN
  BY <1>0, Zenon DEF pruner
<1>3. JarInv' /\ CreditMatchesJar'
  BY <1>0 DEF JarInv, CreditMatchesJar, creatorRows, tipRows
<1>4. ReqOK' /\ RequestInv'
  <2>1. PICK c \in born, s \in Slugs, k \in {"claim", "rename", "delete"} :
           req' = [req EXCEPT ![r] = [kind |-> k, who |-> c, slug |-> s, old |-> NoOne,
                                      pc |-> "current"]]
    BY <1>0
  <2>2. c \in Creators
    BY DEF CreatorsOK
  <2>3. ReqOK'
    BY <2>1, <2>2 DEF ReqOK, Owners
  <2>4. RequestInv'
    BY <1>0, <2>1, <2>2 DEF RequestInv, At, ReqOK, creatorRows
  <2>5. QED
    BY <2>3, <2>4
<1>5. QED
  BY <1>1, <1>2, <1>3, <1>4

LEMMA ReadCurrentKeeps ==
  ASSUME IInv, NEW r \in Requests, ReadCurrent(r)
  PROVE  IInv'
<1> USE RegistryAssumption DEF IInv, TypeOK
<1>0. /\ UNCHANGED <<creatorRows, released, tipRows, revoked, indexing, pruner, faults>>
      /\ req[r].pc # "new"
      /\ \E o \in Names \cup {NoOne}, pc \in {"taken", "commit", "done"} :
           req' = [req EXCEPT ![r].old = o, ![r].pc = pc]
  <2>1. UNCHANGED <<creatorRows, released, tipRows, revoked, indexing, pruner, faults>>
        /\ req[r].pc # "new"
    BY DEF ReadCurrent, At
  <2>2. CASE req[r].who \in alive
    <3>1. slug[req[r].who] \in Names
      BY <2>2 DEF CreatorsOK
    <3>2. QED
      BY <2>1, <2>2, <3>1 DEF ReadCurrent
  <2>3. CASE req[r].who \notin alive
    <3>1. PICK pc \in {"taken", "done"} : Goto(r, pc)
      BY <2>3 DEF ReadCurrent
    <3>2. req[r].old \in Names \cup {NoOne}
      BY DEF ReqOK
    <3>3. [req EXCEPT ![r].pc = pc] = [req EXCEPT ![r].old = req[r].old, ![r].pc = pc]
      BY DEF ReqOK
    <3>4. req' = [req EXCEPT ![r].old = req[r].old, ![r].pc = pc]
      BY <3>1, <3>3, Zenon DEF Goto
    <3>5. QED
      BY <2>1, <3>2, <3>4, Zenon
  <2>4. QED
    BY <2>2, <2>3
<1>1. CreatorsOK' /\ TipsOK' /\ ReleasedOK' /\ RestOK'
  BY <1>0 DEF CreatorsOK, TipsOK, ReleasedOK, RestOK, creatorRows, tipRows, pruner
<1>2. pruning' \in BOOLEAN
  BY <1>0, Zenon DEF pruner
<1>3. JarInv' /\ CreditMatchesJar'
  BY <1>0 DEF JarInv, CreditMatchesJar, creatorRows, tipRows
<1>4. ReqOK' /\ RequestInv'
  <2>1. PICK o \in Names \cup {NoOne}, pc \in {"taken", "commit", "done"} :
           req' = [req EXCEPT ![r].old = o, ![r].pc = pc]
    BY <1>0
  <2>2. ReqOK'
    <3>1. [req[r] EXCEPT !.old = o, !.pc = pc]
            \in [kind : {"none", "claim", "rename", "delete"},
                 who : Owners, slug : Slugs \cup {NoOne}, old : Names \cup {NoOne},
                 pc : {"new", "current", "taken", "hold", "update", "attach",
                       "release", "commit", "revoke", "done"}]
      BY DEF ReqOK
    <3>2. req' = [req EXCEPT ![r] = [req[r] EXCEPT !.old = o, !.pc = pc]]
      BY <2>1
    <3>3. QED
      BY <3>1, <3>2 DEF ReqOK
  <2>3. RequestInv'
    BY <1>0, <2>1 DEF RequestInv, At, ReqOK, creatorRows
  <2>4. QED
    BY <2>2, <2>3
<1>5. QED
  BY <1>1, <1>2, <1>3, <1>4

LEMMA UnderWayFinite ==
  ASSUME NEW c
  PROVE  IsFiniteSet(ClaimsUnderWay(c)) /\ Cardinality(ClaimsUnderWay(c)) \in Nat
BY FS_Subset, FS_CardinalityType, RegistryAssumption DEF ClaimsUnderWay

(* Taking a slug only adds to what the requester ever held.                *)
LEMMA UpdateKeeps ==
  ASSUME IInv, NEW r \in Requests, UpdateClaim(r) \/ UpdateRename(r)
  PROVE  IInv'
<1> USE RegistryAssumption DEF IInv, TypeOK
<1> DEFINE c == req[r].who
           s == req[r].slug
<1>0. /\ UNCHANGED <<born, alive, released, tipRows, revoked, indexing, pruner, faults>>
      /\ req[r].pc # "new" /\ c \in alive
      /\ slug' = [slug EXCEPT ![c] = s]
      /\ slugsOf' = [slugsOf EXCEPT ![c] = @ \cup {s}]
      /\ \/ /\ jar' = [jar EXCEPT ![c] = s]
            /\ jarsOf' = [jarsOf EXCEPT ![c] = @ \cup {s}]
            /\ Goto(r, "attach")
         \/ /\ UNCHANGED <<jar, jarsOf>>
            /\ \E pc \in {"release", "done"} : Goto(r, pc)
  BY DEF UpdateClaim, UpdateRename, TakeSlug, At
<1>1. c \in Creators /\ s \in Slugs /\ s \in Names
  BY <1>0 DEF RequestInv, Names
<1>2. CreatorsOK' /\ TipsOK' /\ ReleasedOK' /\ RestOK'
  <2>1. /\ rivals' = rivals \/ rivals' = [rivals EXCEPT ![c] = Cardinality(ClaimsUnderWay(c))]
        /\ overtaken' = overtaken \/ overtaken' = [overtaken EXCEPT ![c] = @ + 1]
    BY DEF UpdateClaim, UpdateRename, TakeSlug
  <2>2. rivals' \in [Creators -> Nat] /\ overtaken' \in [Creators -> Nat]
    BY <2>1, UnderWayFinite DEF CreatorsOK
  <2>3. CreatorsOK'
    <3>1. slug' \in [Creators -> Names] /\ jar' \in [Creators -> Names]
      BY <1>0, <1>1 DEF CreatorsOK
    <3>2. slugsOf' \in [Creators -> SUBSET Names] /\ jarsOf' \in [Creators -> SUBSET Names]
      BY <1>0, <1>1 DEF CreatorsOK
    <3>3. born' \subseteq Creators /\ alive' \subseteq born'
      BY <1>0 DEF CreatorsOK
    <3>4. QED
      BY <2>2, <3>1, <3>2, <3>3 DEF CreatorsOK
  <2>4. TipsOK' /\ ReleasedOK' /\ RestOK'
    BY <1>0 DEF TipsOK, ReleasedOK, RestOK, tipRows, pruner
  <2>5. QED
    BY <2>3, <2>4
<1>3. pruning' \in BOOLEAN
  BY <1>0, Zenon DEF pruner
<1>4. ReqOK'
  BY <1>0 DEF ReqOK, Goto
<1>5. \A d \in Creators : jarsOf[d] \subseteq jarsOf'[d]
  BY <1>0 DEF CreatorsOK
<1>6. JarInv'
  <2>1. \A d \in alive' : jar'[d] \in jarsOf'[d]
    BY <1>0, <1>1 DEF JarInv, CreatorsOK
  <2>2. \A p \in indexing' : p.owner # NoOne => p.jar \in jarsOf'[p.owner]
    BY <1>0, <1>5 DEF JarInv, RestOK, Owners
  <2>3. QED
    BY <2>1, <2>2 DEF JarInv
<1>7. CreditMatchesJar'
  BY <1>0, <1>5 DEF CreditMatchesJar, TipsOK, tipRows
<1>8. RequestInv'
  <2> SUFFICES ASSUME NEW q \in Requests
               PROVE  /\ req'[q].pc # "new" => req'[q].who \in Creators /\ req'[q].slug \in Slugs
                      /\ At(q, {"claim"}, "attach")' => req'[q].slug \in jarsOf'[req'[q].who]
    BY DEF RequestInv, At
  <2>1. CASE q # r
    BY <1>0, <1>5, <2>1 DEF RequestInv, At, ReqOK, Goto
  <2>2. CASE q = r /\ Goto(r, "attach")
    <3>1. req'[r].who = c /\ req'[r].slug = s
      BY <2>2 DEF Goto, ReqOK
    <3>2. s \in jarsOf'[c]
      <4>1. jarsOf' = [jarsOf EXCEPT ![c] = @ \cup {s}]
        BY <1>0, <2>2 DEF Goto, ReqOK
      <4>2. QED
        BY <4>1, <1>1 DEF CreatorsOK
    <3>3. QED
      BY <1>1, <2>2, <3>1, <3>2
  <2>3. CASE q = r /\ \E pc \in {"release", "done"} : Goto(r, pc)
    BY <1>1, <2>3 DEF Goto, ReqOK, At
  <2>4. QED
    BY <1>0, <2>1, <2>2, <2>3
<1>9. QED
  BY <1>2, <1>3, <1>4, <1>6, <1>7, <1>8

LEMMA AttachKeeps ==
  ASSUME IInv, NEW r \in Requests, AttachTips(r)
  PROVE  IInv'
<1> USE RegistryAssumption DEF IInv, TypeOK
<1> DEFINE c == req[r].who
           s == req[r].slug
           mine == Unattached(s)
<1>0. /\ UNCHANGED <<creatorRows, released, tipJar, revoked, indexing, pruner, faults>>
      /\ At(r, {"claim"}, "attach")
      /\ \E pc \in {"release", "done"} : Goto(r, pc)
      /\ \/ /\ mine = {} \/ c \in alive
            /\ tipOwner' = [t \in Tips |-> IF t \in mine THEN c ELSE tipOwner[t]]
            /\ creditedTo' = [t \in Tips |-> IF t \in mine THEN creditedTo[t] \cup {c}
                                             ELSE creditedTo[t]]
         \/ UNCHANGED <<tipOwner, creditedTo>>
  BY DEF AttachTips
<1>1. c \in Creators /\ s \in jarsOf[c] /\ req[r].pc # "new"
  BY <1>0 DEF RequestInv, At
<1>2. CreatorsOK' /\ ReleasedOK' /\ RestOK'
  BY <1>0 DEF CreatorsOK, ReleasedOK, RestOK, creatorRows, pruner
<1>3. TipsOK'
  BY <1>0, <1>1 DEF TipsOK, creatorRows
<1>4. pruning' \in BOOLEAN
  BY <1>0, Zenon DEF pruner
<1>5. ReqOK' /\ RequestInv'
  BY <1>0, <1>1, GotoKeeps
<1>6. JarInv'
  BY <1>0 DEF JarInv, creatorRows
<1>7. CreditMatchesJar'
  <2> SUFFICES ASSUME NEW t \in Tips, NEW d \in creditedTo'[t]
               PROVE  tipJar'[t] \in jarsOf'[d]
    BY DEF CreditMatchesJar
  <2>1. tipJar' = tipJar /\ jarsOf' = jarsOf
    BY <1>0 DEF creatorRows
  <2>2. CASE d \in creditedTo[t]
    BY <2>1, <2>2 DEF CreditMatchesJar
  <2>3. CASE d \notin creditedTo[t]
    <3>1. t \in mine /\ d = c
      BY <1>0, <2>3
    <3>2. tipJar[t] = s
      BY <3>1 DEF Unattached
    <3>3. QED
      BY <1>1, <2>1, <3>1, <3>2
  <2>4. QED
    BY <2>2, <2>3
<1>8. QED
  BY <1>2, <1>3, <1>4, <1>5, <1>6, <1>7

LEMMA ReleaseKeeps ==
  ASSUME IInv, NEW r \in Requests, RecordSlugRelease(r)
  PROVE  IInv'
<1> USE RegistryAssumption DEF IInv, TypeOK
<1>0. /\ UNCHANGED <<creatorRows, tipRows, revoked, indexing, pruner, faults>>
      /\ req[r].pc # "new" /\ Goto(r, "done")
      /\ released' = IF req[r].who \in alive
                     THEN [released EXCEPT ![req[r].old] = Held(req[r].who)]
                     ELSE released
  BY DEF RecordSlugRelease, At
<1>1. ReqOK' /\ RequestInv'
  BY <1>0, GotoKeeps
<1>2. CreatorsOK' /\ TipsOK' /\ RestOK' /\ JarInv' /\ CreditMatchesJar'
  BY <1>0 DEF CreatorsOK, TipsOK, RestOK, JarInv, CreditMatchesJar, creatorRows, tipRows, pruner
<1>3. pruning' \in BOOLEAN
  BY <1>0, Zenon DEF pruner
<1>4. ReleasedOK'
  <2>1. CASE req[r].who \in alive
    <3>1. Held(req[r].who) \in [row : BOOLEAN, owner : alive' \cup {NoOne}, held : BOOLEAN]
      BY <1>0, <2>1 DEF Held, creatorRows
    <3>2. alive' = alive
      BY <1>0 DEF creatorRows
    <3>3. QED
      BY <1>0, <2>1, <3>1, <3>2 DEF ReleasedOK
  <2>2. CASE req[r].who \notin alive
    BY <1>0, <2>2 DEF ReleasedOK, creatorRows
  <2>3. QED
    BY <2>1, <2>2
<1>5. QED
  BY <1>1, <1>2, <1>3, <1>4

LEMMA CommitKeeps ==
  ASSUME IInv, NEW r \in Requests, CommitDelete(r)
  PROVE  IInv'
<1> USE RegistryAssumption DEF IInv, TypeOK
<1> DEFINE c == req[r].who
           rel == [released EXCEPT ![req[r].old] = Held(NoOne)]
<1>0. /\ UNCHANGED <<revoked, indexing, pruner, faults>>
      /\ req[r].pc # "new"
      /\ \E pc \in {"revoke", "done"} : Goto(r, pc)
      /\ \/ c \in alive /\ RemoveCreators({c}, rel)
         \/ UNCHANGED <<creatorRows, released, tipRows>>
  BY DEF CommitDelete, At
<1>1. rel \in [Names -> [row : BOOLEAN, owner : alive \cup {NoOne}, held : BOOLEAN]]
  <2>1. Held(NoOne) \in [row : BOOLEAN, owner : alive \cup {NoOne}, held : BOOLEAN]
    BY DEF Held
  <2>2. QED
    BY <2>1 DEF ReleasedOK
<1>2. CreatorsOK' /\ ReleasedOK' /\ TipsOK' /\ JarInv' /\ CreditMatchesJar'
  <2>1. CASE c \in alive /\ RemoveCreators({c}, rel)
    <3> HIDE DEF rel
    <3>1. {c} \in SUBSET alive /\ UNCHANGED indexing
      BY <1>0, <2>1
    <3>2. QED
      BY <1>1, <2>1, <3>1, RemovalKeeps
  <2>2. CASE UNCHANGED <<creatorRows, released, tipRows>>
    BY <1>0, <2>2 DEF CreatorsOK, ReleasedOK, TipsOK, JarInv, CreditMatchesJar,
                      creatorRows, tipRows
  <2>3. QED
    BY <1>0, <2>1, <2>2
<1>3. jarsOf' = jarsOf
  BY <1>0 DEF RemoveCreators, creatorRows
<1>4. ReqOK'
  BY <1>0 DEF ReqOK, Goto
<1>5. RequestInv'
  BY <1>0, <1>3 DEF RequestInv, At, ReqOK, Goto
<1>6. RestOK'
  BY <1>0 DEF RestOK, pruner
<1>7. pruning' \in BOOLEAN
  BY <1>0, Zenon DEF pruner
<1>8. QED
  BY <1>2, <1>4, <1>5, <1>6, <1>7

LEMMA HoldLapsesKeeps ==
  ASSUME IInv, NEW n \in Names, HoldLapses(n)
  PROVE  IInv'
<1> USE RegistryAssumption DEF IInv, TypeOK
<1>0. /\ UNCHANGED <<creatorRows, tipRows, revoked, req, indexing, pruner, faults>>
      /\ released' = [released EXCEPT ![n].held = FALSE]
  BY DEF HoldLapses
<1>1. /\ CreatorsOK' /\ TipsOK' /\ ReqOK' /\ RestOK' /\ RequestInv' /\ JarInv'
      /\ CreditMatchesJar'
  BY <1>0 DEF CreatorsOK, TipsOK, ReqOK, RestOK, RequestInv, JarInv, CreditMatchesJar, At,
              creatorRows, tipRows, pruner
<1>2. pruning' \in BOOLEAN
  BY <1>0, Zenon DEF pruner
<1>3. ReleasedOK'
  BY <1>0 DEF ReleasedOK, creatorRows
<1>4. QED
  BY <1>1, <1>2, <1>3

Storable(p) == tipJar[p.tip] = NoOne /\ p.owner \in alive \cup {NoOne}

LEMMA PersistKeeps ==
  ASSUME IInv, (\E t \in Tips : FindJarOwner(t)) \/ UpsertTip \/ PersistFails
  PROVE  IInv'
<1> USE RegistryAssumption DEF IInv, TypeOK
<1>0. UNCHANGED <<creatorRows, released, revoked, req, pruner>>
  BY DEF FindJarOwner, UpsertTip, PersistFails
<1>1. CreatorsOK' /\ ReleasedOK' /\ ReqOK' /\ RequestInv'
  BY <1>0 DEF CreatorsOK, ReleasedOK, ReqOK, RequestInv, At, creatorRows
<1>2. pruning' \in BOOLEAN
  BY <1>0, Zenon DEF pruner
<1>3. CASE \E t \in Tips : FindJarOwner(t)
  <2>1. PICK t \in Tips, s \in Slugs, c \in Owners :
          /\ (c \in alive /\ jar[c] = s) \/ c = NoOne
          /\ indexing' = {[tip |-> t, jar |-> s, owner |-> c]}
          /\ UNCHANGED <<tipRows, faults>>
    BY <1>3 DEF FindJarOwner
  <2>2. RestOK'
    BY <1>0, <2>1 DEF RestOK, pruner
  <2>3. JarInv'
    BY <1>0, <2>1 DEF JarInv, creatorRows
  <2>4. TipsOK' /\ CreditMatchesJar'
    BY <1>0, <2>1 DEF TipsOK, CreditMatchesJar, creatorRows, tipRows
  <2>5. QED
    BY <1>1, <1>2, <2>2, <2>3, <2>4
<1>4. CASE UpsertTip \/ PersistFails
  <2>1. /\ indexing' = {}
        /\ faults' = faults \/ Fault
        /\ \/ UNCHANGED tipRows
           \/ \E p \in indexing : Storable(p) /\ StoreTip(p)
    BY <1>4 DEF UpsertTip, PersistFails, Storable
  <2>2. RestOK'
    BY <1>0, <2>1 DEF RestOK, Fault, pruner
  <2>3. JarInv'
    BY <1>0, <2>1 DEF JarInv, creatorRows
  <2>4. TipsOK' /\ CreditMatchesJar'
    <3>1. CASE UNCHANGED tipRows
      BY <1>0, <3>1 DEF TipsOK, CreditMatchesJar, creatorRows, tipRows
    <3>2. CASE \E p \in indexing : Storable(p) /\ StoreTip(p)
      <4>1. PICK p \in indexing : Storable(p) /\ StoreTip(p)
        BY <3>2
      <4>2. /\ p.tip \in Tips /\ p.jar \in Slugs /\ p.owner \in Owners
            /\ p.owner # NoOne => p.owner \in Creators /\ p.jar \in jarsOf[p.owner]
        BY DEF RestOK, JarInv, Owners
      <4>3. TipsOK'
        BY <1>0, <4>1, <4>2 DEF TipsOK, StoreTip, Storable, creatorRows
      <4>4. CreditMatchesJar'
        <5> SUFFICES ASSUME NEW t \in Tips, NEW d \in creditedTo'[t]
                     PROVE  tipJar'[t] \in jarsOf'[d]
          BY DEF CreditMatchesJar
        <5>1. jarsOf' = jarsOf
          BY <1>0 DEF creatorRows
        <5>2. CASE t # p.tip
          BY <4>1, <5>1, <5>2 DEF StoreTip, TipsOK, CreditMatchesJar
        <5>3. CASE t = p.tip /\ d \notin creditedTo[t]
          <6>1. d = p.owner /\ d # NoOne /\ tipJar'[t] = p.jar
            BY <4>1, <5>3 DEF StoreTip, TipsOK
          <6>2. QED
            BY <4>2, <5>1, <6>1
        <5>4. CASE t = p.tip /\ d \in creditedTo[t]
          <6>1. NoOne \in jarsOf[d] /\ d \in Creators
            BY <4>1, <5>4 DEF Storable, CreditMatchesJar, TipsOK
          <6>2. QED
            BY <6>1 DEF CreatorsOK, Names
        <5>5. QED
          BY <5>2, <5>3, <5>4
      <4>5. QED
        BY <4>3, <4>4
    <3>3. QED
      BY <2>1, <3>1, <3>2
  <2>5. QED
    BY <1>1, <1>2, <2>2, <2>3, <2>4
<1>5. QED
  BY <1>3, <1>4

LEMMA PrunerKeeps ==
  ASSUME IInv, ScanPlaceholders \/ DeletePlaceholders
  PROVE  IInv'
<1> USE RegistryAssumption DEF IInv, TypeOK
<1>0. /\ UNCHANGED <<revoked, req, indexing, faults, jarsOf>>
      /\ candidates' \in SUBSET Creators
  <2>1. alive \subseteq Creators
    BY DEF CreatorsOK
  <2>2. QED
    BY <2>1 DEF ScanPlaceholders, DeletePlaceholders, RemoveCreators, creatorRows
<1>1. ReqOK' /\ RestOK' /\ RequestInv'
  BY <1>0 DEF ReqOK, RestOK, RequestInv, At
<1>2. pruning' \in BOOLEAN
  BY Zenon DEF ScanPlaceholders, DeletePlaceholders
<1>3. CreatorsOK' /\ ReleasedOK' /\ TipsOK' /\ JarInv' /\ CreditMatchesJar'
  <2>1. CASE ScanPlaceholders
    BY <2>1 DEF ScanPlaceholders, CreatorsOK, ReleasedOK, TipsOK, JarInv, CreditMatchesJar,
                creatorRows, tipRows
  <2>2. CASE DeletePlaceholders
    <3>1. PICK gone \in SUBSET alive : RemoveCreators(gone, released)
      BY <2>2 DEF DeletePlaceholders
    <3>2. QED
      BY <1>0, <3>1, RemovalKeeps DEF ReleasedOK
  <2>3. QED
    BY <2>1, <2>2
<1>4. QED
  BY <1>1, <1>2, <1>3

LEMMA StutterKeeps == IInv /\ UNCHANGED vars => IInv'
<1> SUFFICES ASSUME IInv, UNCHANGED vars PROVE IInv'
  OBVIOUS
<1> USE DEF IInv, TypeOK, vars, creatorRows, tipRows, pruner
<1>1. CreatorsOK' /\ ReleasedOK' /\ TipsOK' /\ ReqOK' /\ RestOK'
  BY DEF CreatorsOK, ReleasedOK, TipsOK, ReqOK, RestOK
<1>2. RequestInv' /\ JarInv' /\ CreditMatchesJar'
  BY DEF RequestInv, At, JarInv, CreditMatchesJar
<1>3. pruning' \in BOOLEAN
  BY Zenon
<1>4. QED
  BY <1>1, <1>2, <1>3

LEMMA RegistryStep == IInv /\ [Next]_vars => IInv'
<1> SUFFICES ASSUME IInv, [Next]_vars PROVE IInv'
  OBVIOUS
<1>1. ASSUME NEW c \in Creators, SignIn(c) PROVE IInv'
  BY <1>1, SignInKeeps
<1>2. ASSUME NEW r \in Requests, Request(r) PROVE IInv'
  BY <1>2, RequestKeeps
<1>3. ASSUME NEW r \in Requests, ReadCurrent(r) PROVE IInv'
  BY <1>3, ReadCurrentKeeps
<1>4. ASSUME NEW r \in Requests, ClaimOrRename(r) PROVE IInv'
  BY <1>4, MovesOnly, UpdateKeeps, AttachKeeps, ReleaseKeeps DEF ClaimOrRename, ClaimSlug
<1>5. ASSUME NEW r \in Requests, DeleteCreator(r) PROVE IInv'
  BY <1>5, CommitKeeps, MovesOnly DEF DeleteCreator
<1>6. ASSUME NEW r \in Requests, RequestFails(r) PROVE IInv'
  BY <1>6, MovesOnly
<1>7. ASSUME NEW n \in Names, HoldLapses(n) PROVE IInv'
  BY <1>7, HoldLapsesKeeps
<1>8. CASE (\E t \in Tips : FindJarOwner(t)) \/ UpsertTip \/ PersistFails
  BY <1>8, PersistKeeps
<1>9. CASE ScanPlaceholders \/ DeletePlaceholders
  BY <1>9, PrunerKeeps
<1>10. CASE UNCHANGED vars
  BY <1>10, StutterKeeps
<1>11. QED
  BY <1>1, <1>2, <1>3, <1>4, <1>5, <1>6, <1>7, <1>8, <1>9, <1>10 DEF Next

(* IInv holds in every reachable state.                                    *)
THEOREM RegistryInductive == Spec => []IInv
  BY InitIInv, RegistryStep, PTL DEF Spec

(* Every reference of a tip or a release has its row, at any time.         *)
THEOREM RegistryTypeCorrect == Spec => []TypeOK
<1>1. IInv => TypeOK
  BY DEF IInv
<1>2. QED
  BY <1>1, RegistryInductive, PTL

(* A tip is only ever credited to a creator who held its jar.              *)
THEOREM CreditFollowsJar == Spec => []CreditMatchesJar
<1>1. IInv => CreditMatchesJar
  BY DEF IInv
<1>2. QED
  BY <1>1, RegistryInductive, PTL

(* What the steps that write a tip's owner do to a tip that has one.       *)
LEMMA OwnerChanges ==
  ASSUME IInv, [Next]_vars, NEW t \in Tips, tipOwner[t] \in alive
  PROVE  \/ tipOwner'[t] = tipOwner[t]
         \/ /\ tipOwner'[t] = NoOne
            /\ tipOwner[t] \notin alive'
            /\ \E r \in Requests : At(r, {"delete"}, "commit") /\ req[r].who = tipOwner[t]
<1> USE RegistryAssumption DEF IInv, TypeOK
<1>1. NoOne \notin alive
  BY DEF CreatorsOK
<1>2. ASSUME NEW r \in Requests, AttachTips(r) PROVE tipOwner'[t] = tipOwner[t]
  BY <1>1, <1>2 DEF AttachTips, Unattached
<1>3. ASSUME NEW r \in Requests, CommitDelete(r), tipOwner'[t] # tipOwner[t]
      PROVE  /\ tipOwner'[t] = NoOne
             /\ tipOwner[t] \notin alive'
             /\ At(r, {"delete"}, "commit") /\ req[r].who = tipOwner[t]
  BY <1>3 DEF CommitDelete, RemoveCreators, tipRows
<1>4. CASE DeletePlaceholders
  BY <1>4 DEF DeletePlaceholders, RemoveCreators, IsInert
<1>5. CASE UpsertTip
  <2>1. tipJar[t] # NoOne
    <3>1. tipOwner[t] \in creditedTo[t] /\ tipOwner[t] \in Creators
      BY <1>1 DEF TipsOK, CreatorsOK
    <3>2. tipJar[t] \in Names
      BY <3>1 DEF CreditMatchesJar, CreatorsOK
    <3>3. QED
      BY <3>2 DEF Names
  <2>2. QED
    BY <1>5, <2>1 DEF UpsertTip, StoreTip, TipsOK, RestOK, tipRows
<1>6. CASE UNCHANGED tipOwner
  BY <1>6
<1>7. ASSUME NEW r \in Requests, ClaimOrRename(r), ~AttachTips(r) PROVE UNCHANGED tipOwner
  BY <1>7 DEF ClaimOrRename, ClaimSlug, ReadTaken, CheckHold, UpdateRefused, UpdateClaim,
              UpdateRename, RecordSlugRelease, tipRows
<1>8. ASSUME NEW r \in Requests, DeleteCreator(r), ~CommitDelete(r) PROVE UNCHANGED tipOwner
  BY <1>8 DEF DeleteCreator, RevokeCreatorTokens, tipRows
<1>9. ASSUME NEW r \in Requests, Request(r) \/ ReadCurrent(r) \/ RequestFails(r)
      PROVE  UNCHANGED tipOwner
  BY <1>9 DEF Request, ReadCurrent, RequestFails, tipRows
<1>10. CASE \/ \E c \in Creators : SignIn(c)
            \/ \E n \in Names : HoldLapses(n)
            \/ \E u \in Tips : FindJarOwner(u)
            \/ PersistFails \/ ScanPlaceholders
            \/ UNCHANGED vars
  BY <1>10 DEF SignIn, HoldLapses, FindJarOwner, PersistFails, ScanPlaceholders, tipRows, vars
<1>11. QED
  BY <1>2, <1>3, <1>4, <1>5, <1>6, <1>7, <1>8, <1>9, <1>10 DEF Next

(* A credited tip stays with its creator as long as the creator exists.    *)
THEOREM CreditStays == Spec => CreditedTipStays
<1>1. IInv /\ [Next]_vars
      => [\A t \in Tips : tipOwner[t] \in alive' => tipOwner'[t] = tipOwner[t]]_vars
  <2> SUFFICES ASSUME IInv, [Next]_vars, NEW t \in Tips, tipOwner[t] \in alive'
               PROVE  tipOwner'[t] = tipOwner[t]
    OBVIOUS
  <2>1. tipOwner[t] \in alive \/ tipOwner[t] = NoOne
    BY DEF IInv, TypeOK, TipsOK
  <2>2. NoOne \notin alive'
    <3>1. IInv'
      BY RegistryStep
    <3>2. QED
      BY <3>1, RegistryAssumption DEF IInv, TypeOK, CreatorsOK
  <2>3. QED
    BY <2>1, <2>2, OwnerChanges
<1>2. QED
  BY <1>1, RegistryInductive, PTL DEF Spec, CreditedTipStays

(* A tip loses its creator only to the creator's own request.              *)
THEOREM DetachedByDeletion == Spec => OnlyDeletionDetaches
<1>1. IInv /\ [Next]_vars
      => [\A t \in Tips : tipOwner[t] # NoOne /\ tipOwner'[t] = NoOne
            => \E r \in Requests : At(r, {"delete"}, "commit") /\ req[r].who = tipOwner[t]]_vars
  <2> SUFFICES ASSUME IInv, [Next]_vars, NEW t \in Tips,
                      tipOwner[t] # NoOne, tipOwner'[t] = NoOne
               PROVE  \E r \in Requests : At(r, {"delete"}, "commit") /\ req[r].who = tipOwner[t]
    OBVIOUS
  <2>1. tipOwner[t] \in alive
    BY DEF IInv, TypeOK, TipsOK
  <2>2. QED
    BY <2>1, OwnerChanges
<1>2. QED
  BY <1>1, RegistryInductive, PTL DEF Spec, OnlyDeletionDetaches

(* A tip that was credited leaves its creator only with the creator, on    *)
(* the creator's own request.                                              *)
THEOREM CreditHolds == Spec => CreditLasts
BY CreditStays, DetachedByDeletion DEF CreditLasts
-----------------------------------------------------------------------------
(* Overlapping claims.  A claim that may still go through has read a       *)
(* placeholder; once one went through there is none to read, so those left *)
(* were under way when it did.                                             *)

Reading == {"taken", "hold", "update"}

Writing == {"attach", "release"}

Open(c) ==
  {r \in ClaimsUnderWay(c) : c \in alive /\ req[r].pc \in Reading /\ req[r].old \notin Slugs}

RequestersBorn == \A r \in Requests : req[r].pc # "new" => req[r].who \in born

ChecksPassed == \A r \in Requests : At(r, {"claim"}, "update") => req[r].old \notin Slugs

UnbornHaveNothing == \A c \in Creators \ born : slugsOf[c] = {} /\ jarsOf[c] = {}

ClaimantsHaveSlugs == \A c \in alive : Claimed(c) # {} => slug[c] \in Slugs

RaceBound(c) ==
  Claimed(c) # {} => /\ IsFiniteSet(Claimed(c))
                     /\ Cardinality(Claimed(c)) + Cardinality(Open(c)) <= rivals[c]

OverlapInv == /\ RequestersBorn /\ ChecksPassed /\ UnbornHaveNothing /\ ClaimantsHaveSlugs
              /\ \A c \in Creators : RaceBound(c)

LEMMA InitOverlap == Init => OverlapInv
<1> SUFFICES ASSUME Init PROVE OverlapInv
  OBVIOUS
<1>1. \A r \in Requests : req[r].pc = "new"
  BY DEF Init
<1>2. RequestersBorn /\ ChecksPassed
  BY <1>1 DEF RequestersBorn, ChecksPassed, At
<1>3. UnbornHaveNothing /\ ClaimantsHaveSlugs /\ \A c \in Creators : RaceBound(c)
  BY DEF Init, UnbornHaveNothing, ClaimantsHaveSlugs, RaceBound, Claimed
<1>4. QED
  BY <1>2, <1>3 DEF OverlapInv

LEMMA OpenFinite ==
  ASSUME NEW c
  PROVE  IsFiniteSet(Open(c)) /\ Cardinality(Open(c)) \in Nat
BY UnderWayFinite, FS_Subset, FS_CardinalityType DEF Open

LEMMA RaceKept ==
  ASSUME NEW c, RaceBound(c), Claimed(c)' = Claimed(c), rivals'[c] = rivals[c],
         rivals[c] \in Nat, Claimed(c) # {} => Open(c)' \subseteq Open(c)
  PROVE  RaceBound(c)'
<1> SUFFICES ASSUME Claimed(c) # {}
             PROVE  /\ IsFiniteSet(Claimed(c))
                    /\ Cardinality(Claimed(c)) + Cardinality(Open(c)') <= rivals[c]
  BY Zenon DEF RaceBound
<1>1. Open(c)' \subseteq Open(c) /\ IsFiniteSet(Open(c)) /\ IsFiniteSet(Claimed(c))
  BY OpenFinite DEF RaceBound
<1>2. /\ Cardinality(Open(c)') <= Cardinality(Open(c))
      /\ Cardinality(Open(c)') \in Nat /\ Cardinality(Open(c)) \in Nat
      /\ Cardinality(Claimed(c)) \in Nat
  BY <1>1, FS_Subset, FS_CardinalityType
<1>3. Cardinality(Claimed(c)) + Cardinality(Open(c)) <= rivals[c]
  BY DEF RaceBound
<1>4. QED
  BY <1>1, <1>2, <1>3

(* A request that moves on without a write to the names of its creator.    *)
MovesOn(r, pc) ==
  /\ InProgress(r)
  /\ Goto(r, pc)
  /\ \/ pc \in {"done", "revoke"}
     \/ pc = "hold" /\ req[r].pc = "taken"
     \/ pc = "update" /\ req[r].pc = "hold" /\ ~AlreadyClaimed(r)
     \/ pc = "release" /\ req[r].pc = "attach"

NamesKept == UNCHANGED <<born, slug, slugsOf, jarsOf, rivals>> /\ alive' \subseteq alive

(* Creators may go meanwhile.                                              *)
LEMMA QuietOverlap ==
  ASSUME IInv, OverlapInv, NamesKept,
         UNCHANGED req \/ \E r \in Requests, pc \in {"done", "revoke", "hold", "update", "release"} :
                            MovesOn(r, pc)
  PROVE  OverlapInv'
<1>1. ClaimantsHaveSlugs' /\ UnbornHaveNothing' /\ (\A c : Claimed(c)' = Claimed(c))
  BY DEF OverlapInv, ClaimantsHaveSlugs, UnbornHaveNothing, Claimed, NamesKept
<1>2. \A q \in Requests :
        /\ UNCHANGED <<req[q].who, req[q].slug, req[q].old, req[q].kind>>
        /\ InProgress(q)' => InProgress(q)
        /\ req[q].pc = "new" => req'[q].pc = "new"
        /\ req'[q].pc \in Reading => req[q].pc \in Reading
        /\ req'[q].pc = "update" /\ req[q].kind = "claim"
             => req[q].pc = "update" \/ req[q].old \notin Slugs
  <2>1. CASE UNCHANGED req
    BY <2>1 DEF InProgress
  <2>2. ASSUME NEW r \in Requests, NEW pc \in {"done", "revoke", "hold", "update", "release"},
               MovesOn(r, pc)
        PROVE  \A q \in Requests :
                 /\ UNCHANGED <<req[q].who, req[q].slug, req[q].old, req[q].kind>>
                 /\ InProgress(q)' => InProgress(q)
                 /\ req[q].pc = "new" => req'[q].pc = "new"
                 /\ req'[q].pc \in Reading => req[q].pc \in Reading
                 /\ req'[q].pc = "update" /\ req[q].kind = "claim"
                      => req[q].pc = "update" \/ req[q].old \notin Slugs
    <3>1. req' = [req EXCEPT ![r].pc = pc] /\ req[r].pc \notin {"new", "done"}
      BY <2>2 DEF MovesOn, Goto, InProgress
    <3>2. /\ req'[r].pc = pc /\ req'[r].who = req[r].who /\ req'[r].old = req[r].old
          /\ req'[r].slug = req[r].slug /\ req'[r].kind = req[r].kind
          /\ \A q \in Requests \ {r} : req'[q] = req[q]
      BY <3>1 DEF IInv, TypeOK, ReqOK
    <3>3. pc \in Reading => req[r].pc \in Reading
      BY <2>2 DEF MovesOn, Reading
    <3>4. pc = "update" /\ req[r].kind = "claim" => req[r].old \notin Slugs
      BY <2>2 DEF MovesOn, AlreadyClaimed
    <3>5. QED
      BY <3>1, <3>2, <3>3, <3>4 DEF InProgress
  <2>3. QED
    BY <2>1, <2>2
<1>3. RequestersBorn'
  BY <1>2 DEF OverlapInv, RequestersBorn, NamesKept
<1>4. ChecksPassed'
  BY <1>2 DEF OverlapInv, ChecksPassed, At
<1>5. ASSUME NEW c \in Creators PROVE RaceBound(c)'
  <2>1. Open(c)' \subseteq Open(c)
    BY <1>2 DEF Open, ClaimsUnderWay, NamesKept
  <2>2. rivals'[c] = rivals[c] /\ rivals[c] \in Nat
    BY DEF NamesKept, IInv, TypeOK, CreatorsOK
  <2>3. QED
    BY <1>1, <2>1, <2>2, RaceKept DEF OverlapInv
<1>6. QED
  BY <1>1, <1>3, <1>4, <1>5 DEF OverlapInv

LEMMA SignInOverlap ==
  ASSUME IInv, OverlapInv, NEW c \in Creators, SignIn(c)
  PROVE  OverlapInv'
<1>1. /\ c \notin born /\ born' = born \cup {c} /\ alive' = alive \cup {c}
      /\ slug' = [slug EXCEPT ![c] = c] /\ slugsOf' = [slugsOf EXCEPT ![c] = @ \cup {c}]
      /\ jarsOf' = [jarsOf EXCEPT ![c] = @ \cup {c}]
      /\ UNCHANGED <<req, rivals>>
  BY DEF SignIn
<1>2. CreatorsOK
  BY DEF IInv, TypeOK
<1>3. \A d \in Creators \ {c} : slug'[d] = slug[d] /\ slugsOf'[d] = slugsOf[d] /\ jarsOf'[d] = jarsOf[d]
  BY <1>1, <1>2 DEF CreatorsOK
<1>4. Claimed(c)' = {}
  <2>1. jarsOf'[c] = {c}
    BY <1>1, <1>2 DEF OverlapInv, UnbornHaveNothing, CreatorsOK
  <2>2. QED
    BY <2>1, RegistryAssumption DEF Claimed
<1>5. RequestersBorn' /\ ChecksPassed'
  BY <1>1 DEF OverlapInv, RequestersBorn, ChecksPassed, At
<1>6. UnbornHaveNothing'
  BY <1>1, <1>3 DEF OverlapInv, UnbornHaveNothing
<1>7. ClaimantsHaveSlugs'
  <2>1. \A d \in alive' : d \in Creators
    BY <1>1, <1>2 DEF CreatorsOK
  <2>2. QED
    BY <1>1, <1>3, <1>4, <2>1 DEF OverlapInv, ClaimantsHaveSlugs, Claimed
<1>8. ASSUME NEW d \in Creators PROVE RaceBound(d)'
  <2>1. CASE d = c
    BY <1>4, <2>1 DEF RaceBound
  <2>2. CASE d # c
    <3>1. Claimed(d)' = Claimed(d) /\ rivals'[d] = rivals[d] /\ rivals[d] \in Nat
      BY <1>1, <1>2, <1>3, <2>2 DEF Claimed, CreatorsOK
    <3>2. Open(d)' \subseteq Open(d)
      BY <1>1, <2>2 DEF Open, ClaimsUnderWay, InProgress
    <3>3. QED
      BY <3>1, <3>2, RaceKept DEF OverlapInv
  <2>3. QED
    BY <2>1, <2>2
<1>9. QED
  BY <1>5, <1>6, <1>7, <1>8 DEF OverlapInv

LEMMA RequestOverlap ==
  ASSUME IInv, OverlapInv, NEW r \in Requests, Request(r)
  PROVE  OverlapInv'
<1>1. PICK c \in born, s \in Slugs, k \in {"claim", "rename", "delete"} :
        req' = [req EXCEPT ![r] = [kind |-> k, who |-> c, slug |-> s, old |-> NoOne,
                                   pc |-> "current"]]
  BY DEF Request
<1>2. UNCHANGED <<born, alive, slug, slugsOf, jarsOf, rivals>>
  BY DEF Request, creatorRows
<1>3. /\ req'[r].who = c /\ req'[r].pc = "current"
      /\ \A q \in Requests \ {r} : req'[q] = req[q]
  BY <1>1 DEF IInv, TypeOK, ReqOK
<1>4. RequestersBorn' /\ ChecksPassed'
  BY <1>2, <1>3 DEF OverlapInv, RequestersBorn, ChecksPassed, At
<1>5. UnbornHaveNothing' /\ ClaimantsHaveSlugs' /\ (\A d : Claimed(d)' = Claimed(d))
  BY <1>2 DEF OverlapInv, UnbornHaveNothing, ClaimantsHaveSlugs, Claimed
<1>6. ASSUME NEW d \in Creators PROVE RaceBound(d)'
  <2>1. Open(d)' \subseteq Open(d)
    BY <1>2, <1>3 DEF Open, ClaimsUnderWay, InProgress, Reading
  <2>2. rivals'[d] = rivals[d] /\ rivals[d] \in Nat
    BY <1>2 DEF IInv, TypeOK, CreatorsOK
  <2>3. QED
    BY <1>5, <2>1, <2>2, RaceKept DEF OverlapInv
<1>7. QED
  BY <1>4, <1>5, <1>6 DEF OverlapInv

(* A claim that reads a slug is refused, so it is not one of the open ones. *)
LEMMA ReadCurrentOverlap ==
  ASSUME IInv, OverlapInv, NEW r \in Requests, ReadCurrent(r)
  PROVE  OverlapInv'
<1>1. /\ UNCHANGED <<born, alive, slug, slugsOf, jarsOf, rivals>>
      /\ req[r].pc = "current"
      /\ \A q \in Requests \ {r} : req'[q] = req[q]
      /\ req'[r].who = req[r].who /\ req'[r].kind = req[r].kind
      /\ req'[r].pc \in {"taken", "commit", "done"}
      /\ req[r].who \in alive => req'[r].old = slug[req[r].who]
  BY DEF ReadCurrent, At, Goto, creatorRows, IInv, TypeOK, ReqOK
<1>2. RequestersBorn' /\ ChecksPassed'
  BY <1>1 DEF OverlapInv, RequestersBorn, ChecksPassed, At
<1>3. UnbornHaveNothing' /\ ClaimantsHaveSlugs' /\ (\A d : Claimed(d)' = Claimed(d))
  BY <1>1 DEF OverlapInv, UnbornHaveNothing, ClaimantsHaveSlugs, Claimed
<1>4. ASSUME NEW d \in Creators PROVE RaceBound(d)'
  <2>1. ASSUME Claimed(d) # {} PROVE Open(d)' \subseteq Open(d)
    <3> SUFFICES ASSUME NEW q \in Open(d)' PROVE q \in Open(d)
      OBVIOUS
    <3>1. /\ q \in Requests /\ d \in alive /\ req'[q].who = d /\ req'[q].old \notin Slugs
          /\ req'[q].kind = "claim" /\ req'[q].pc \in Reading
      BY <1>1 DEF Open, ClaimsUnderWay
    <3>2. q # r
      BY <1>1, <2>1, <3>1 DEF OverlapInv, ClaimantsHaveSlugs
    <3>3. QED
      BY <1>1, <3>1, <3>2 DEF Open, ClaimsUnderWay, InProgress, Reading
  <2>2. rivals'[d] = rivals[d] /\ rivals[d] \in Nat
    BY <1>1 DEF IInv, TypeOK, CreatorsOK
  <2>3. QED
    BY <1>3, <2>1, <2>2, RaceKept DEF OverlapInv
<1>5. QED
  BY <1>2, <1>3, <1>4 DEF OverlapInv

(* The only writes of slugs; a claim that goes through was an open one.    *)
LEMMA UpdateOverlap ==
  ASSUME IInv, OverlapInv, NEW r \in Requests, UpdateClaim(r) \/ UpdateRename(r),
         NEW c, NEW s, c = req[r].who, s = req[r].slug
  PROVE  OverlapInv'
<1>1. /\ c \in alive /\ c \in Creators /\ s \in Slugs
      /\ UNCHANGED <<born, alive>>
      /\ slug' = [slug EXCEPT ![c] = s] /\ slugsOf' = [slugsOf EXCEPT ![c] = @ \cup {s}]
      /\ req[r].pc = "update"
      /\ \E pc \in {"attach", "release", "done"} : Goto(r, pc)
  <2>1. c \in alive /\ req[r].pc = "update"
    BY DEF UpdateClaim, UpdateRename, TakeSlug, At
  <2>2. c \in Creators /\ s \in Slugs
    BY <2>1 DEF IInv, RequestInv
  <2>3. QED
    BY <2>1, <2>2 DEF UpdateClaim, UpdateRename, TakeSlug
<1>2. /\ slug'[c] = s
      /\ \A d \in Creators \ {c} : slug'[d] = slug[d] /\ slugsOf'[d] = slugsOf[d]
  BY <1>1 DEF IInv, TypeOK, CreatorsOK
<1>3. /\ \A q \in Requests \ {r} : req'[q] = req[q]
      /\ req'[r].who = c /\ req'[r].pc \in {"attach", "release", "done"}
  BY <1>1 DEF IInv, TypeOK, ReqOK, Goto
<1>4. /\ \/ UNCHANGED <<jarsOf, rivals>>
         \/ /\ UpdateClaim(r)
            /\ jarsOf'[c] = jarsOf[c] \cup {s}
            /\ rivals'[c] = IF Claimed(c) # {} THEN rivals[c]
                            ELSE Cardinality(ClaimsUnderWay(c))
      /\ \A d \in Creators \ {c} : jarsOf'[d] = jarsOf[d] /\ rivals'[d] = rivals[d]
  BY <1>1 DEF UpdateClaim, UpdateRename, IInv, TypeOK, CreatorsOK
<1>5. RequestersBorn'
  BY <1>1, <1>3 DEF OverlapInv, RequestersBorn
<1>6. ChecksPassed'
  BY <1>3 DEF OverlapInv, ChecksPassed, At
<1>7. UnbornHaveNothing'
  <2>1. c \in born
    BY <1>1 DEF IInv, TypeOK, CreatorsOK
  <2>2. QED
    BY <1>1, <1>2, <1>4, <2>1 DEF OverlapInv, UnbornHaveNothing
<1>8. ClaimantsHaveSlugs'
  <2>1. \A d \in alive' : d \in Creators
    BY <1>1 DEF IInv, TypeOK, CreatorsOK
  <2>2. QED
    BY <1>1, <1>2, <1>4, <2>1 DEF OverlapInv, ClaimantsHaveSlugs, Claimed
<1>9. ASSUME NEW d \in Creators \ {c} PROVE RaceBound(d)'
  <2>1. Open(d)' \subseteq Open(d)
    BY <1>1, <1>3 DEF Open, ClaimsUnderWay, InProgress
  <2>2. Claimed(d)' = Claimed(d) /\ rivals'[d] = rivals[d] /\ rivals[d] \in Nat
    BY <1>4 DEF Claimed, IInv, TypeOK, CreatorsOK
  <2>3. QED
    BY <2>1, <2>2, RaceKept DEF OverlapInv
<1>10. RaceBound(c)'
  <2>1. Open(c)' \subseteq Open(c) \ {r}
    BY <1>1, <1>3 DEF Open, ClaimsUnderWay, InProgress, Reading
  <2>2. CASE UNCHANGED <<jarsOf, rivals>>
    <3>1. Claimed(c)' = Claimed(c) /\ rivals'[c] = rivals[c] /\ rivals[c] \in Nat
      BY <1>1, <2>2 DEF Claimed, IInv, TypeOK, CreatorsOK
    <3>2. QED
      BY <1>1, <2>1, <3>1, RaceKept DEF OverlapInv
  <2>3. CASE /\ UpdateClaim(r)
             /\ jarsOf'[c] = jarsOf[c] \cup {s}
             /\ rivals'[c] = IF Claimed(c) # {} THEN rivals[c]
                             ELSE Cardinality(ClaimsUnderWay(c))
    <3>1. r \in Open(c)
      BY <1>1, <2>3 DEF UpdateClaim, At, Open, ClaimsUnderWay, InProgress, Reading, OverlapInv,
                        ChecksPassed
    <3>2. Claimed(c)' = Claimed(c) \cup {s}
      BY <1>1, <2>3 DEF Claimed
    <3>3. /\ Cardinality(Open(c)') + 1 <= Cardinality(Open(c))
          /\ Cardinality(Open(c)') \in Nat /\ Cardinality(Open(c)) \in Nat
      <4>1. IsFiniteSet(Open(c) \ {r}) /\ Cardinality(Open(c) \ {r}) = Cardinality(Open(c)) - 1
        BY <3>1, OpenFinite, FS_RemoveElement
      <4>2. Cardinality(Open(c)') <= Cardinality(Open(c) \ {r}) /\ IsFiniteSet(Open(c)')
        BY <2>1, <4>1, FS_Subset
      <4>3. QED
        BY <4>1, <4>2, OpenFinite, FS_CardinalityType
    <3>4. CASE Claimed(c) = {}
      <4>1. Claimed(c)' = {s}
        BY <3>2, <3>4
      <4>2. IsFiniteSet(Claimed(c)') /\ Cardinality(Claimed(c)') = 1
        BY <4>1, FS_Singleton
      <4>3. Cardinality(Open(c)) <= Cardinality(ClaimsUnderWay(c))
        BY UnderWayFinite, FS_Subset DEF Open
      <4>4. rivals'[c] = Cardinality(ClaimsUnderWay(c)) /\ Cardinality(ClaimsUnderWay(c)) \in Nat
        BY <2>3, <3>4, UnderWayFinite
      <4>5. Cardinality(Claimed(c)') + Cardinality(Open(c)') <= rivals'[c]
        BY <3>3, <4>2, <4>3, <4>4
      <4>6. QED
        BY <4>2, <4>5 DEF RaceBound
    <3>5. CASE Claimed(c) # {}
      <4>1. /\ IsFiniteSet(Claimed(c))
            /\ Cardinality(Claimed(c)) + Cardinality(Open(c)) <= rivals[c]
            /\ rivals'[c] = rivals[c] /\ rivals[c] \in Nat
        BY <1>1, <2>3, <3>5 DEF OverlapInv, RaceBound, IInv, TypeOK, CreatorsOK
      <4>2. /\ IsFiniteSet(Claimed(c)') /\ Cardinality(Claimed(c)') <= Cardinality(Claimed(c)) + 1
            /\ Cardinality(Claimed(c)') \in Nat /\ Cardinality(Claimed(c)) \in Nat
        <5>1. IsFiniteSet(Claimed(c) \cup {s}) /\ Cardinality(Claimed(c)) \in Nat
              /\ Cardinality(Claimed(c) \cup {s}) \in {Cardinality(Claimed(c)), Cardinality(Claimed(c)) + 1}
          BY <4>1, FS_AddElement, FS_CardinalityType
        <5>2. QED
          BY <3>2, <5>1
      <4>3. Cardinality(Claimed(c)') + Cardinality(Open(c)') <= rivals'[c]
        BY <3>3, <4>1, <4>2
      <4>4. QED
        BY <4>2, <4>3 DEF RaceBound
    <3>6. QED
      BY <3>4, <3>5
  <2>4. QED
    BY <1>4, <2>2, <2>3
<1>11. QED
  BY <1>5, <1>6, <1>7, <1>8, <1>9, <1>10 DEF OverlapInv

LEMMA OverlapStep ==
  ASSUME IInv, OverlapInv, [Next]_vars
  PROVE  OverlapInv'
<1>1. ASSUME NEW c \in Creators, SignIn(c) PROVE OverlapInv'
  BY <1>1, SignInOverlap
<1>2. ASSUME NEW r \in Requests, Request(r) \/ ReadCurrent(r) PROVE OverlapInv'
  BY <1>2, RequestOverlap, ReadCurrentOverlap
<1>3. ASSUME NEW r \in Requests,
             \/ ReadTaken(r) \/ CheckHold(r) \/ UpdateRefused(r) \/ AttachTips(r)
             \/ RecordSlugRelease(r) \/ RevokeCreatorTokens(r) \/ RequestFails(r)
             \/ CommitDelete(r)
      PROVE  OverlapInv'
  <2>1. \E pc \in {"done", "revoke", "hold", "update", "release"} : MovesOn(r, pc)
    BY <1>3 DEF ReadTaken, CheckHold, UpdateRefused, AttachTips, RecordSlugRelease,
                RevokeCreatorTokens, RequestFails, CommitDelete, MovesOn, InProgress, At
  <2>2. NamesKept
    BY <1>3 DEF ReadTaken, CheckHold, UpdateRefused, AttachTips, RecordSlugRelease,
                RevokeCreatorTokens, RequestFails, CommitDelete, RemoveCreators, NamesKept,
                creatorRows
  <2>3. QED
    BY <2>1, <2>2, QuietOverlap
<1>4. ASSUME NEW r \in Requests, UpdateClaim(r) \/ UpdateRename(r) PROVE OverlapInv'
  BY <1>4, UpdateOverlap
<1>5. CASE \/ \E n \in Names : HoldLapses(n)
           \/ \E t \in Tips : FindJarOwner(t)
           \/ UpsertTip \/ PersistFails \/ ScanPlaceholders \/ DeletePlaceholders
           \/ UNCHANGED vars
  <2>1. NamesKept /\ UNCHANGED req
    BY <1>5 DEF HoldLapses, FindJarOwner, UpsertTip, PersistFails, ScanPlaceholders,
                DeletePlaceholders, RemoveCreators, NamesKept, creatorRows, vars
  <2>2. QED
    BY <2>1, QuietOverlap
<1>6. QED
  BY <1>1, <1>2, <1>3, <1>4, <1>5 DEF Next, ClaimOrRename, ClaimSlug, DeleteCreator

(* The claims of one creator that go through were all under way when the   *)
(* first of them did, whatever fails and whoever else claims, renames or   *)
(* deletes (creator.service.ts, lines 228-269).                            *)
THEOREM ClaimsOverlap == Spec => []RepeatedClaimsOverlap
<1>1. IInv /\ OverlapInv /\ [Next]_vars => OverlapInv'
  BY OverlapStep
<1>2. IInv /\ OverlapInv => RepeatedClaimsOverlap
  <2> SUFFICES ASSUME IInv, OverlapInv, NEW c \in Creators
               PROVE  Cardinality(Claimed(c)) <= rivals[c]
    BY DEF RepeatedClaimsOverlap
  <2>1. rivals[c] \in Nat
    BY DEF IInv, TypeOK, CreatorsOK
  <2>2. CASE Claimed(c) = {}
    BY <2>1, <2>2, FS_EmptySet
  <2>3. CASE Claimed(c) # {}
    <3>1. /\ IsFiniteSet(Claimed(c))
          /\ Cardinality(Claimed(c)) + Cardinality(Open(c)) <= rivals[c]
      BY <2>3 DEF OverlapInv, RaceBound
    <3>2. Cardinality(Claimed(c)) \in Nat /\ Cardinality(Open(c)) \in Nat
      BY <3>1, OpenFinite, FS_CardinalityType
    <3>3. QED
      BY <2>1, <3>1, <3>2
  <2>4. QED
    BY <2>2, <2>3
<1>3. QED
  BY <1>1, <1>2, InitOverlap, RegistryInductive, PTL DEF Spec

-----------------------------------------------------------------------------
(* The slugs a creator left.                                               *)

(* A row of ReleasedSlug stays.                                            *)
LEMMA RowsStay ==
  ASSUME IInv, [Next]_vars, NEW n \in Names, released[n].row
  PROVE  released'[n].row
<1>1. ReleasedOK
  BY DEF IInv, TypeOK
<1>2. ASSUME NEW rel \in [Names -> [row : BOOLEAN, owner : alive \cup {NoOne}, held : BOOLEAN]],
             NEW gone, rel[n].row, RemoveCreators(gone, rel)
      PROVE  released'[n].row
  BY <1>2 DEF RemoveCreators, Disowned
<1>3. ASSUME NEW r \in Requests, CommitDelete(r) PROVE released'[n].row
  <2>1. CASE released' = released
    BY <2>1
  <2>2. CASE RemoveCreators({req[r].who}, [released EXCEPT ![req[r].old] = Held(NoOne)])
    <3> DEFINE rel == [released EXCEPT ![req[r].old] = Held(NoOne)]
    <3>1. rel \in [Names -> [row : BOOLEAN, owner : alive \cup {NoOne}, held : BOOLEAN]]
      BY <1>1 DEF ReleasedOK, Held
    <3>2. rel[n].row
      BY <1>1 DEF ReleasedOK, Held
    <3> HIDE DEF rel
    <3>3. RemoveCreators({req[r].who}, rel)
      BY <2>2 DEF rel
    <3>4. QED
      BY <1>2, <3>1, <3>2, <3>3
  <2>3. QED
    BY <1>3, <2>1, <2>2 DEF CommitDelete
<1>4. CASE DeletePlaceholders
  BY <1>1, <1>2, <1>4 DEF DeletePlaceholders, ReleasedOK
<1>5. ASSUME NEW r \in Requests, RecordSlugRelease(r) PROVE released'[n].row
  BY <1>1, <1>5 DEF RecordSlugRelease, ReleasedOK, Held
<1>6. ASSUME NEW m \in Names, HoldLapses(m) PROVE released'[n].row
  BY <1>1, <1>6 DEF HoldLapses, ReleasedOK
<1>7. CASE released' = released
  BY <1>7
<1>8. ASSUME NEW r \in Requests,
             \/ Request(r) \/ ReadCurrent(r) \/ ReadTaken(r) \/ CheckHold(r) \/ UpdateRefused(r)
             \/ ClaimSlug(r) \/ UpdateRename(r) \/ RevokeCreatorTokens(r) \/ RequestFails(r)
      PROVE  released' = released
  BY <1>8 DEF Request, ReadCurrent, ReadTaken, CheckHold, UpdateRefused, ClaimSlug, UpdateClaim,
              AttachTips, UpdateRename, RevokeCreatorTokens, RequestFails
<1>9. CASE \/ \E c \in Creators : SignIn(c)
           \/ \E t \in Tips : FindJarOwner(t)
           \/ UpsertTip \/ PersistFails \/ ScanPlaceholders
           \/ UNCHANGED vars
  BY <1>9 DEF SignIn, FindJarOwner, UpsertTip, PersistFails, ScanPlaceholders, vars
<1>10. ASSUME NEW r \in Requests, ClaimOrRename(r) \/ DeleteCreator(r) PROVE released'[n].row
  BY <1>3, <1>5, <1>7, <1>8, <1>10 DEF ClaimOrRename, DeleteCreator
<1>11. QED
  BY <1>4, <1>6, <1>7, <1>8, <1>9, <1>10 DEF Next

(* What a request is recording it goes on to record, unless it is cut      *)
(* short or its creator goes.                                              *)
LEMMA RecordingStays ==
  ASSUME IInv, OverlapInv, [Next]_vars, NEW r \in Requests, Recording(r), ~RequestFails(r),
         req[r].who \in alive', req[r].old \in Names
  PROVE  \/ released'[req[r].old].row
         \/ Recording(r)' /\ req'[r].who = req[r].who /\ req'[r].old = req[r].old
<1> DEFINE c == req[r].who
<1>1. ReqOK /\ ReleasedOK /\ req[r].pc \in Writing
  BY DEF IInv, TypeOK, Recording, Writing
<1>2. c \in alive
  <2>1. \A d \in Creators : SignIn(d) => d \notin born /\ alive' = alive \cup {d}
    BY DEF SignIn
  <2>2. c \in born
    BY <1>1 DEF OverlapInv, RequestersBorn, Writing
  <2>3. ASSUME NEW d \in Creators, SignIn(d) PROVE c \in alive
    BY <2>1, <2>2, <2>3
  <2>4. CASE \A d \in Creators : ~SignIn(d)
    <3>1. alive' \subseteq alive
      BY <2>4 DEF Next, Request, ReadCurrent, ClaimOrRename, ClaimSlug, DeleteCreator, ReadTaken,
                  CheckHold, UpdateRefused, UpdateClaim, AttachTips, UpdateRename,
                  RecordSlugRelease, CommitDelete, RevokeCreatorTokens, RequestFails, HoldLapses,
                  FindJarOwner, UpsertTip, PersistFails, ScanPlaceholders, DeletePlaceholders,
                  RemoveCreators, creatorRows, vars
    <3>2. QED
      BY <3>1
  <2>5. QED
    BY <2>3, <2>4
<1>3. CASE AttachTips(r)
  <2>1. req[r].old \notin {NoOne, req[r].slug}
    BY RegistryAssumption DEF Recording, Names
  <2>2. Goto(r, "release")
    BY <1>2, <1>3, <2>1 DEF AttachTips
  <2>3. QED
    BY <1>1, <2>2 DEF Goto, ReqOK, Recording
<1>4. CASE RecordSlugRelease(r)
  BY <1>1, <1>2, <1>4 DEF RecordSlugRelease, ReleasedOK, Held
<1>5. ASSUME NEW q \in Requests \ {r}, req' = [req EXCEPT ![q] = req'[q]]
      PROVE  UNCHANGED req[r]
  BY <1>1, <1>5 DEF ReqOK
<1>6. ASSUME NEW q \in Requests, ~AttachTips(r), ~RecordSlugRelease(r),
             \/ Request(q) \/ ReadCurrent(q) \/ ClaimOrRename(q) \/ DeleteCreator(q)
             \/ RequestFails(q)
      PROVE  UNCHANGED req[r]
  <2>1. req' = [req EXCEPT ![q] = req'[q]]
    BY <1>1, <1>6 DEF Request, ReadCurrent, ClaimOrRename, ClaimSlug, DeleteCreator, ReadTaken,
              CheckHold, UpdateRefused, UpdateClaim, AttachTips, UpdateRename, RecordSlugRelease,
              CommitDelete, RevokeCreatorTokens, RequestFails, Goto, ReqOK
  <2>2. q # r
    BY <1>1, <1>6 DEF Request, ReadCurrent, ClaimOrRename, ClaimSlug, DeleteCreator, ReadTaken,
              CheckHold, UpdateRefused, UpdateClaim, UpdateRename,
              CommitDelete, RevokeCreatorTokens, At, Writing
  <2>3. QED
    BY <1>5, <2>1, <2>2
<1>7. ASSUME \/ \E d \in Creators : SignIn(d)
             \/ \E m \in Names : HoldLapses(m)
             \/ \E t \in Tips : FindJarOwner(t)
             \/ UpsertTip \/ PersistFails \/ ScanPlaceholders \/ DeletePlaceholders
             \/ UNCHANGED vars
      PROVE  UNCHANGED req[r]
  BY <1>7 DEF SignIn, HoldLapses, FindJarOwner, UpsertTip, PersistFails, ScanPlaceholders,
              DeletePlaceholders, vars
<1>8. CASE UNCHANGED req[r]
  BY <1>8 DEF Recording
<1>9. QED
  BY <1>3, <1>4, <1>6, <1>7, <1>8 DEF Next, Recording

(* Failures and overtaking writes are counted.                             *)
LEMMA CountsGrow ==
  ASSUME IInv, [Next]_vars, NEW c \in Creators
  PROVE  /\ faults' \in {faults, faults + 1} /\ overtaken'[c] \in {overtaken[c], overtaken[c] + 1}
         /\ \A r \in Requests : RequestFails(r) => faults' = faults + 1
         /\ \A r \in Requests : UpdateClaim(r) \/ UpdateRename(r) => faults' = faults
<1>1. overtaken'[c] \in {overtaken[c], overtaken[c] + 1}
  <2>1. ASSUME NEW r \in Requests, TakeSlug(r)
        PROVE  overtaken'[c] \in {overtaken[c], overtaken[c] + 1}
    BY <2>1 DEF TakeSlug, IInv, TypeOK, CreatorsOK
  <2>2. CASE overtaken' = overtaken
    BY <2>2
  <2>3. QED
    BY <2>1, <2>2
       DEF Next, SignIn, Request, ReadCurrent, ClaimOrRename, ClaimSlug, DeleteCreator, ReadTaken,
           CheckHold, UpdateRefused, UpdateClaim, AttachTips, UpdateRename, RecordSlugRelease,
           CommitDelete, RevokeCreatorTokens, RequestFails, HoldLapses, FindJarOwner, UpsertTip,
           PersistFails, ScanPlaceholders, DeletePlaceholders, RemoveCreators, creatorRows, vars
<1>2. faults' \in {faults, faults + 1}
  BY DEF Next, SignIn, Request, ReadCurrent, ClaimOrRename, ClaimSlug, DeleteCreator, ReadTaken,
         CheckHold, UpdateRefused, UpdateClaim, AttachTips, UpdateRename, RecordSlugRelease,
         CommitDelete, RevokeCreatorTokens, RequestFails, HoldLapses, FindJarOwner, UpsertTip,
         PersistFails, ScanPlaceholders, DeletePlaceholders, Fault, vars
<1>3. /\ \A r \in Requests : RequestFails(r) => faults' = faults + 1
      /\ \A r \in Requests : UpdateClaim(r) \/ UpdateRename(r) => faults' = faults
  BY DEF RequestFails, Fault, UpdateClaim, UpdateRename
<1>4. QED
  BY <1>1, <1>2, <1>3

(* A slug left before this step is lost in it only by a request that fails. *)
LEMMA LostBefore ==
  ASSUME IInv, OverlapInv, [Next]_vars, NEW c \in alive', NEW n \in Lost(c)',
         n \in slugsOf[c], n # slug[c]
  PROVE  n \in Lost(c) \/ \E r \in Requests : RequestFails(r) /\ n = req[r].old
<1> SUFFICES ASSUME n \notin Lost(c), \A r \in Requests : RequestFails(r) => n # req[r].old
             PROVE  FALSE
  OBVIOUS
<1>1. n \in Names
  <2>1. IInv'
    BY RegistryStep
  <2>2. QED
    BY <2>1 DEF Lost, IInv, TypeOK, CreatorsOK
<1>2. ~released'[n].row /\ \A r \in Requests : Recording(r)' /\ req'[r].who = c => req'[r].old # n
  BY DEF Lost
<1>3. ~released[n].row
  BY <1>1, <1>2, RowsStay
<1>4. PICK r \in Requests : Recording(r) /\ req[r].who = c /\ req[r].old = n
  BY <1>3 DEF Lost
<1>5. QED
  BY <1>1, <1>2, <1>4, RecordingStays

(* Only a sign-in and an update write the names of a creator.              *)
LEMMA NamesOfOthers ==
  ASSUME IInv, [Next]_vars, NEW c \in alive',
         \A r \in Requests : ~(UpdateClaim(r) \/ UpdateRename(r)) \/ req[r].who # c,
         ~SignIn(c)
  PROVE  c \in alive /\ slug'[c] = slug[c] /\ slugsOf'[c] = slugsOf[c]
<1>1. CreatorsOK /\ CreatorsOK'
  <2>1. IInv'
    BY RegistryStep
  <2>2. QED
    BY <2>1 DEF IInv, TypeOK
<1>2. c \in Creators
  BY <1>1 DEF CreatorsOK
<1>3. ASSUME NEW d \in Creators \ {c}, SignIn(d)
      PROVE  c \in alive /\ slug'[c] = slug[c] /\ slugsOf'[c] = slugsOf[c]
  BY <1>1, <1>2, <1>3 DEF SignIn, CreatorsOK
<1>4. ASSUME NEW r \in Requests, UpdateClaim(r) \/ UpdateRename(r)
      PROVE  c \in alive /\ slug'[c] = slug[c] /\ slugsOf'[c] = slugsOf[c]
  BY <1>1, <1>2, <1>4 DEF UpdateClaim, UpdateRename, TakeSlug, CreatorsOK
<1>5. CASE NamesKept
  BY <1>5 DEF NamesKept
<1>6. ASSUME NEW r \in Requests,
             \/ Request(r) \/ ReadCurrent(r) \/ ReadTaken(r) \/ CheckHold(r)
             \/ UpdateRefused(r) \/ AttachTips(r) \/ RecordSlugRelease(r)
             \/ CommitDelete(r) \/ RevokeCreatorTokens(r) \/ RequestFails(r)
      PROVE  NamesKept
  BY <1>6 DEF Request, ReadCurrent, ReadTaken, CheckHold, UpdateRefused, AttachTips,
              RecordSlugRelease, RevokeCreatorTokens, RequestFails, CommitDelete,
              RemoveCreators, NamesKept, creatorRows
<1>7. CASE \/ \E n \in Names : HoldLapses(n)
           \/ \E t \in Tips : FindJarOwner(t)
           \/ UpsertTip \/ PersistFails \/ ScanPlaceholders \/ DeletePlaceholders
           \/ UNCHANGED vars
  BY <1>7 DEF HoldLapses, FindJarOwner, UpsertTip, PersistFails, ScanPlaceholders,
              DeletePlaceholders, RemoveCreators, NamesKept, creatorRows, vars
<1>8. QED
  BY <1>3, <1>4, <1>5, <1>6, <1>7 DEF Next, ClaimOrRename, ClaimSlug, DeleteCreator

(* Taking a slug loses the one left, if the request had not read it.       *)
LEMMA LostByUpdate ==
  ASSUME IInv, OverlapInv, [Next]_vars, NEW r \in Requests, UpdateClaim(r) \/ UpdateRename(r),
         NEW c \in alive', NEW s, c = req[r].who, s = req[r].slug
  PROVE  /\ c \in alive
         /\ \/ Lost(c)' \subseteq Lost(c)
            \/ /\ Lost(c)' \subseteq Lost(c) \cup {slug[c]}
               /\ overtaken'[c] = overtaken[c] + 1
<1>1. /\ CreatorsOK /\ ReqOK /\ faults \in Nat
      /\ c \in alive /\ c \in Creators /\ s \in Slugs
      /\ slug' = [slug EXCEPT ![c] = s] /\ slugsOf' = [slugsOf EXCEPT ![c] = @ \cup {s}]
      /\ req[r].pc = "update"
      /\ overtaken' = IF req[r].old = slug[c] THEN overtaken
                      ELSE [overtaken EXCEPT ![c] = @ + 1]
  <2>1. c \in alive /\ req[r].pc = "update"
    BY DEF UpdateClaim, UpdateRename, TakeSlug, At
  <2>2. CreatorsOK /\ ReqOK /\ c \in Creators /\ s \in Slugs /\ faults \in Nat
    BY <2>1, RegistryAssumption DEF IInv, TypeOK, RestOK, RequestInv
  <2>3. QED
    BY <2>1, <2>2 DEF UpdateClaim, UpdateRename, TakeSlug
<1>2. slug'[c] = s /\ slugsOf'[c] = slugsOf[c] \cup {s}
  BY <1>1 DEF CreatorsOK
<1>3. \A q \in Requests : ~RequestFails(q)
  BY <1>1, CountsGrow
<1>4. ASSUME NEW n \in Lost(c)', n # slug[c]
      PROVE  n \in Lost(c)
  <2>1. n \in slugsOf[c]
    BY <1>2 DEF Lost
  <2>2. QED
    BY <1>3, <1>4, <2>1, LostBefore
<1>5. CASE req[r].old = slug[c]
  <2>1. ASSUME slug[c] \in Lost(c)' PROVE FALSE
    <3>1. slug[c] # s
      BY <1>2, <2>1 DEF Lost
    <3>2. Goto(r, "attach") \/ Goto(r, "release")
      BY <1>5, <3>1 DEF UpdateClaim, UpdateRename
    <3>3. Recording(r)' /\ req'[r].who = c /\ req'[r].old = slug[c]
      BY <1>1, <1>5, <3>1, <3>2 DEF Goto, Recording, ReqOK
    <3>4. QED
      BY <2>1, <3>3 DEF Lost
  <2>2. QED
    BY <1>1, <1>4, <2>1
<1>6. CASE req[r].old # slug[c]
  <2>1. overtaken'[c] = overtaken[c] + 1
    BY <1>1, <1>6 DEF CreatorsOK
  <2>2. QED
    BY <1>1, <1>4, <2>1
<1>7. QED
  BY <1>5, <1>6

(* A step loses at most one slug of a creator, and is counted if it does.  *)
LEMMA LostStep ==
  ASSUME IInv, OverlapInv, [Next]_vars, NEW c \in alive'
  PROVE  \/ Lost(c)' = {}
         \/ c \in alive /\ Lost(c)' \subseteq Lost(c)
         \/ /\ c \in alive /\ \E n \in Names \cup {NoOne} : Lost(c)' \subseteq Lost(c) \cup {n}
            /\ faults' = faults + 1 \/ overtaken'[c] = overtaken[c] + 1
<1>1. CreatorsOK /\ CreatorsOK' /\ ReqOK /\ c \in Creators
  <2>1. IInv'
    BY RegistryStep
  <2>2. QED
    BY <2>1 DEF IInv, TypeOK, CreatorsOK
<1>2. CASE SignIn(c)
  <2>1. slugsOf'[c] = {c} /\ slug'[c] = c
    BY <1>1, <1>2 DEF SignIn, OverlapInv, UnbornHaveNothing, CreatorsOK
  <2>2. QED
    BY <2>1 DEF Lost
<1>3. ASSUME NEW r \in Requests, UpdateClaim(r) \/ UpdateRename(r), req[r].who = c
      PROVE  /\ c \in alive
             /\ \/ Lost(c)' \subseteq Lost(c)
                \/ /\ \E n \in Names : Lost(c)' \subseteq Lost(c) \cup {n}
                   /\ overtaken'[c] = overtaken[c] + 1
  <2>1. slug[c] \in Names
    BY <1>1 DEF CreatorsOK
  <2>2. QED
    BY <1>3, <2>1, LostByUpdate
<1>4. CASE /\ ~SignIn(c)
           /\ \A r \in Requests : ~(UpdateClaim(r) \/ UpdateRename(r)) \/ req[r].who # c
  <2>1. c \in alive /\ slug'[c] = slug[c] /\ slugsOf'[c] = slugsOf[c]
    BY <1>4, NamesOfOthers
  <2>2. ASSUME NEW n \in Lost(c)'
        PROVE  n \in Lost(c) \/ \E r \in Requests : RequestFails(r) /\ n = req[r].old
    <3>1. n \in slugsOf[c] /\ n # slug[c]
      BY <2>1 DEF Lost
    <3>2. QED
      BY <3>1, LostBefore
  <2>3. ASSUME NEW r \in Requests, RequestFails(r)
        PROVE  /\ faults' = faults + 1
               /\ \E n \in Names \cup {NoOne} : Lost(c)' \subseteq Lost(c) \cup {n}
    <3>1. \A q \in Requests : RequestFails(q) => q = r
      BY <1>1, <2>3 DEF RequestFails, Goto, InProgress, ReqOK
    <3>2. req[r].old \in Names \cup {NoOne}
      BY <1>1 DEF ReqOK
    <3>3. Lost(c)' \subseteq Lost(c) \cup {req[r].old}
      BY <2>2, <3>1
    <3>4. faults' = faults + 1
      BY <1>1, <2>3, CountsGrow
    <3>5. QED
      BY <3>2, <3>3, <3>4
  <2>4. QED
    BY <2>1, <2>2, <2>3
<1>5. QED
  BY <1>2, <1>3, <1>4

LostBound(c) ==
  IsFiniteSet(Lost(c)) /\ Cardinality(Lost(c)) <= faults + overtaken[c]

LEMMA LostBoundStep ==
  ASSUME IInv, OverlapInv, [Next]_vars, \A c \in alive : LostBound(c), NEW c \in alive'
  PROVE  LostBound(c)'
<1>1. /\ c \in Creators /\ faults \in Nat /\ overtaken[c] \in Nat
      /\ faults' \in {faults, faults + 1}
      /\ overtaken'[c] \in {overtaken[c], overtaken[c] + 1}
  <2>1. IInv'
    BY RegistryStep
  <2>2. c \in Creators /\ faults \in Nat /\ overtaken[c] \in Nat
    BY <2>1, RegistryAssumption DEF IInv, TypeOK, CreatorsOK, RestOK
  <2>3. QED
    BY <2>2, CountsGrow
<1>2. CASE Lost(c)' = {}
  <2>1. IsFiniteSet(Lost(c)') /\ Cardinality(Lost(c)') = 0
    BY <1>2, FS_EmptySet
  <2>2. QED
    BY <1>1, <2>1 DEF LostBound
<1>3. CASE c \in alive /\ Lost(c)' \subseteq Lost(c)
  <2>1. IsFiniteSet(Lost(c)) /\ Cardinality(Lost(c)) <= faults + overtaken[c]
    BY <1>3 DEF LostBound
  <2>2. IsFiniteSet(Lost(c)') /\ Cardinality(Lost(c)') <= Cardinality(Lost(c))
    BY <1>3, <2>1, FS_Subset
  <2>3. Cardinality(Lost(c)) \in Nat /\ Cardinality(Lost(c)') \in Nat
    BY <2>1, <2>2, FS_CardinalityType
  <2>4. QED
    BY <1>1, <2>1, <2>2, <2>3 DEF LostBound
<1>4. ASSUME NEW n, c \in alive, Lost(c)' \subseteq Lost(c) \cup {n},
             faults' = faults + 1 \/ overtaken'[c] = overtaken[c] + 1
      PROVE  LostBound(c)'
  <2>1. IsFiniteSet(Lost(c)) /\ Cardinality(Lost(c)) <= faults + overtaken[c]
    BY <1>4 DEF LostBound
  <2>2. /\ IsFiniteSet(Lost(c) \cup {n}) /\ Cardinality(Lost(c)) \in Nat
        /\ Cardinality(Lost(c) \cup {n}) \in {Cardinality(Lost(c)), Cardinality(Lost(c)) + 1}
    BY <2>1, FS_AddElement, FS_CardinalityType
  <2>3. IsFiniteSet(Lost(c)') /\ Cardinality(Lost(c)') <= Cardinality(Lost(c) \cup {n})
    BY <1>4, <2>2, FS_Subset
  <2>4. Cardinality(Lost(c)') \in Nat
    BY <2>3, FS_CardinalityType
  <2>5. Cardinality(Lost(c)') <= faults' + overtaken'[c]
    BY <1>1, <1>4, <2>1, <2>2, <2>3, <2>4
  <2>6. QED
    BY <2>3, <2>5 DEF LostBound
<1>5. QED
  BY <1>2, <1>3, <1>4, LostStep

(* Every slug left has its release row or is getting it, but for one per   *)
(* request cut short and one per write over a slug the request had not     *)
(* read (creator.service.ts, lines 299-301 and 377-381).                   *)
THEOREM LeftSlugsOnRecord == Spec => []LeftSlugsRecorded
<1> DEFINE Bounded == \A c \in alive : LostBound(c)
<1>1. Init => Bounded
  BY DEF Init, LostBound
<1>2. IInv /\ OverlapInv /\ [Next]_vars => OverlapInv'
  BY OverlapStep
<1>3. IInv /\ OverlapInv /\ [Next]_vars /\ Bounded => Bounded'
  BY LostBoundStep
<1>4. Bounded => LeftSlugsRecorded
  BY DEF LostBound, LeftSlugsRecorded
<1> HIDE DEF Bounded
<1>5. QED
  BY <1>1, <1>2, <1>3, <1>4, InitOverlap, RegistryInductive, PTL DEF Spec
=============================================================================
