---------------------------- MODULE SlugRegistry ----------------------------
(***************************************************************************)
(* Creators, their slugs and jars, the holds on released slugs and the     *)
(* credit of tips: src/modules/creator/creator.service.ts (claimSlug,      *)
(* renameSlug, deleteCreator), src/modules/creator/placeholder-retention   *)
(* .ts, the creation of a creator in src/modules/auth/auth.service.ts and  *)
(* persistTip of src/indexer/persist.ts.  One action per database          *)
(* statement: no two statements of a request share a transaction, except   *)
(* those of deleteCreator, which act together when it commits.  Profile    *)
(* fields, splits and the profile cache are left out.                      *)
(***************************************************************************)
EXTENDS Naturals, FiniteSets

CONSTANTS Creators,    \* creator ids; c also names c's placeholder user_xxxxxxxx
          Slugs,       \* slugs that can be claimed; s also names the jar @s
          Tips,        \* transactions with a tip
          Requests,    \* HTTP requests, each made once
          NoOne,       \* null
          MaxFaults    \* bound of the model: failed statements and crashes

ASSUME RegistryAssumption ==
  /\ Creators \cap Slugs = {}
  /\ NoOne \notin Creators \cup Slugs
  /\ IsFiniteSet(Requests)
  /\ MaxFaults \in Nat

VARIABLES
  born, alive,           \* who ever signed in, who has a Creator row
  slug, jar,             \* columns of Creator
  released,              \* the rows of ReleasedSlug
  tipJar, tipOwner,      \* columns of Tip; NoOne for a jar is no row
  revoked,               \* whose tokens are revoked
  req,                   \* the requests and where each of them is
  indexing,              \* the persistTip in progress, a set of at most one
  candidates, pruning,   \* the pruner between its scan and its delete
  faults,
  slugsOf, jarsOf, creditedTo,  \* history: what was ever so
  rivals,    \* history: the claims under way when a creator's first went through
  overtaken  \* history: the writes over a slug that the request had not read

creatorRows == <<born, alive, slug, jar, slugsOf, jarsOf, rivals, overtaken>>
tipRows     == <<tipJar, tipOwner, creditedTo>>
pruner      == <<candidates, pruning>>
vars == <<creatorRows, released, tipRows, revoked, req, indexing, pruner, faults>>

Names  == Slugs \cup Creators
Owners == Creators \cup {NoOne}

NotReleased == [row |-> FALSE, owner |-> NoOne, held |-> FALSE]

Held(owner) == [row |-> TRUE, owner |-> owner, held |-> TRUE]

-----------------------------------------------------------------------------

Init == /\ born = {} /\ alive = {}
        /\ slug = [c \in Creators |-> c] /\ jar = [c \in Creators |-> c]
        /\ released = [n \in Names |-> NotReleased]
        /\ tipJar = [t \in Tips |-> NoOne] /\ tipOwner = [t \in Tips |-> NoOne]
        /\ revoked = {}
        /\ req = [r \in Requests |-> [kind |-> "none", who |-> NoOne, slug |-> NoOne,
                                      old |-> NoOne, pc |-> "new"]]
        /\ indexing = {} /\ candidates = {} /\ pruning = FALSE
        /\ faults = 0
        /\ slugsOf = [c \in Creators |-> {}] /\ jarsOf = [c \in Creators |-> {}]
        /\ creditedTo = [t \in Tips |-> {}]
        /\ rivals = [c \in Creators |-> 0] /\ overtaken = [c \in Creators |-> 0]

Goto(r, pc) == req' = [req EXCEPT ![r].pc = pc]

At(r, kinds, pc) == req[r].kind \in kinds /\ req[r].pc = pc

InProgress(r) == req[r].pc \notin {"new", "done"}

Fault == faults < MaxFaults /\ faults' = faults + 1

(* The first verifyChallenge of a wallet: a row with a placeholder.        *)
SignIn(c) ==
  /\ c \notin born
  /\ born' = born \cup {c}
  /\ alive' = alive \cup {c}
  /\ slug' = [slug EXCEPT ![c] = c] /\ slugsOf' = [slugsOf EXCEPT ![c] = @ \cup {c}]
  /\ jar' = [jar EXCEPT ![c] = c] /\ jarsOf' = [jarsOf EXCEPT ![c] = @ \cup {c}]
  /\ UNCHANGED <<released, tipRows, revoked, req, indexing, pruner, faults, rivals, overtaken>>

(* An authenticated request: the token was issued and is not revoked.      *)
Request(r) ==
  /\ req[r].pc = "new"
  /\ \E c \in born \ revoked, s \in Slugs, k \in {"claim", "rename", "delete"} :
       req' = [req EXCEPT ![r] = [kind |-> k, who |-> c, slug |-> s, old |-> NoOne,
                                     pc |-> "current"]]
  /\ UNCHANGED <<creatorRows, released, tipRows, revoked, indexing, pruner, faults>>

(* current: a claim goes on without a row, the others answer 404.          *)
ReadCurrent(r) ==
  /\ At(r, {"claim", "rename", "delete"}, "current")
  /\ LET c == req[r].who
     IN \/ /\ c \in alive
           /\ req' = [req EXCEPT ![r].old = slug[c],
                                 ![r].pc = IF req[r].kind = "delete" THEN "commit" ELSE "taken"]
        \/ /\ c \notin alive
           /\ Goto(r, IF req[r].kind = "claim" THEN "taken" ELSE "done")
  /\ UNCHANGED <<creatorRows, released, tipRows, revoked, indexing, pruner, faults>>

SlugTaken(s, c) == \E d \in alive \ {c} : slug[d] = s

JarTaken(s, c) == \E d \in alive \ {c} : jar[d] = s

(* existing: SLUG_TAKEN when another creator has the slug.                 *)
ReadTaken(r) ==
  /\ At(r, {"claim", "rename"}, "taken")
  /\ Goto(r, IF SlugTaken(req[r].slug, req[r].who) THEN "done" ELSE "hold")
  /\ UNCHANGED <<creatorRows, released, tipRows, revoked, indexing, pruner, faults>>

(* assertSlugHoldFree, then the check of claimSlug on the row read first.  *)
HeldAgainst(s, c) == released[s].held /\ released[s].owner # c

\* Faulty variant: any caller may claim again.
AlreadyClaimed_Never(r) == FALSE

AlreadyClaimed(r) == req[r].kind = "claim" /\ req[r].old \in Slugs

CheckHold(r) ==
  /\ At(r, {"claim", "rename"}, "hold")
  /\ Goto(r, IF HeldAgainst(req[r].slug, req[r].who) \/ AlreadyClaimed(r)
             THEN "done" ELSE "update")
  /\ UNCHANGED <<creatorRows, released, tipRows, revoked, indexing, pruner, faults>>

(* The update by id: no row, or a unique constraint, refuses it.           *)
UpdateRefused(r) ==
  /\ At(r, {"claim", "rename"}, "update")
  /\ \/ req[r].who \notin alive
     \/ SlugTaken(req[r].slug, req[r].who)
     \/ req[r].kind = "claim" /\ JarTaken(req[r].slug, req[r].who)
  /\ Goto(r, "done")
  /\ UNCHANGED <<creatorRows, released, tipRows, revoked, indexing, pruner, faults>>

TakeSlug(r) ==
  /\ req[r].who \in alive
  /\ ~SlugTaken(req[r].slug, req[r].who)
  /\ slug' = [slug EXCEPT ![req[r].who] = req[r].slug]
  /\ slugsOf' = [slugsOf EXCEPT ![req[r].who] = @ \cup {req[r].slug}]
  /\ overtaken' = IF req[r].old = slug[req[r].who] THEN overtaken
                  ELSE [overtaken EXCEPT ![req[r].who] = @ + 1]

Claimed(c) == jarsOf[c] \cap Slugs

ClaimsUnderWay(c) ==
  {q \in Requests : req[q].kind = "claim" /\ req[q].who = c /\ InProgress(q)}

UpdateClaim(r) ==
  /\ At(r, {"claim"}, "update")
  /\ TakeSlug(r)
  /\ ~JarTaken(req[r].slug, req[r].who)
  /\ jar' = [jar EXCEPT ![req[r].who] = req[r].slug]
  /\ jarsOf' = [jarsOf EXCEPT ![req[r].who] = @ \cup {req[r].slug}]
  /\ rivals' = IF Claimed(req[r].who) # {} THEN rivals
               ELSE [rivals EXCEPT ![req[r].who] = Cardinality(ClaimsUnderWay(req[r].who))]
  /\ Goto(r, "attach")
  /\ UNCHANGED <<born, alive, released, tipRows, revoked, indexing, pruner, faults>>

UpdateRename(r) ==
  /\ At(r, {"rename"}, "update")
  /\ TakeSlug(r)
  /\ Goto(r, IF req[r].old # req[r].slug THEN "release" ELSE "done")
  /\ UNCHANGED <<born, alive, jar, jarsOf, rivals, released, tipRows, revoked, indexing,
                 pruner, faults>>

\* Faulty variant: every unowned tip is taken.
Unattached_AnyJar(s) == {t \in Tips : tipJar[t] # NoOne /\ tipOwner[t] = NoOne}

Unattached(s) == {t \in Tips : tipJar[t] = s /\ tipOwner[t] = NoOne}

(* tip.updateMany: the foreign key refuses a creator that is gone.         *)
AttachTips(r) ==
  /\ At(r, {"claim"}, "attach")
  /\ LET c == req[r].who
         mine == Unattached(req[r].slug)
     IN \/ /\ mine = {} \/ c \in alive
           /\ tipOwner' = [t \in Tips |-> IF t \in mine THEN c ELSE tipOwner[t]]
           /\ creditedTo' = [t \in Tips |-> IF t \in mine THEN creditedTo[t] \cup {c}
                                            ELSE creditedTo[t]]
           /\ Goto(r, IF req[r].old \in {NoOne, req[r].slug} THEN "done" ELSE "release")
        \/ /\ mine # {} /\ c \notin alive
           /\ Goto(r, "done")
           /\ UNCHANGED <<tipOwner, creditedTo>>
  /\ UNCHANGED <<creatorRows, released, tipJar, revoked, indexing, pruner, faults>>

\* Faulty variant: the slug just taken is recorded instead of the one left.
RecordSlugRelease_NewSlug(r) ==
  /\ At(r, {"claim", "rename"}, "release")
  /\ released' = IF req[r].who \in alive
                 THEN [released EXCEPT ![req[r].slug] = Held(req[r].who)]
                 ELSE released
  /\ Goto(r, "done")
  /\ UNCHANGED <<creatorRows, tipRows, revoked, indexing, pruner, faults>>

(* The upsert of the release; the foreign key refuses a creator that is    *)
(* gone.                                                                   *)
RecordSlugRelease(r) ==
  /\ At(r, {"claim", "rename"}, "release")
  /\ released' = IF req[r].who \in alive
                 THEN [released EXCEPT ![req[r].old] = Held(req[r].who)]
                 ELSE released
  /\ Goto(r, "done")
  /\ UNCHANGED <<creatorRows, tipRows, revoked, indexing, pruner, faults>>

(* What ON DELETE SET NULL leaves of the releases of gone creators.        *)
Disowned(rel, gone) ==
  [n \in Names |-> IF rel[n].owner \in gone THEN [rel[n] EXCEPT !.owner = NoOne] ELSE rel[n]]

RemoveCreators(gone, rel) ==
  /\ alive' = alive \ gone
  /\ released' = Disowned(rel, gone)
  /\ tipOwner' = [t \in Tips |-> IF tipOwner[t] \in gone THEN NoOne ELSE tipOwner[t]]
  /\ UNCHANGED <<born, slug, jar, slugsOf, jarsOf, rivals, overtaken, tipJar, creditedTo>>

(* The transaction of deleteCreator commits, on the slug it read, or rolls *)
(* back because the row is gone.                                           *)
CommitDelete(r) ==
  /\ At(r, {"delete"}, "commit")
  /\ LET c == req[r].who
     IN \/ /\ c \in alive
           /\ RemoveCreators({c}, [released EXCEPT ![req[r].old] = Held(NoOne)])
           /\ Goto(r, "revoke")
        \/ /\ c \notin alive
           /\ Goto(r, "done")
           /\ UNCHANGED <<creatorRows, released, tipRows>>
  /\ UNCHANGED <<revoked, indexing, pruner, faults>>

RevokeCreatorTokens(r) ==
  /\ At(r, {"delete"}, "revoke")
  /\ revoked' = revoked \cup {req[r].who}
  /\ Goto(r, "done")
  /\ UNCHANGED <<creatorRows, released, tipRows, indexing, pruner, faults>>

(* A statement fails, or the process dies: the rest is not done.           *)
RequestFails(r) ==
  /\ InProgress(r)
  /\ Fault
  /\ Goto(r, "done")
  /\ UNCHANGED <<creatorRows, released, tipRows, revoked, indexing, pruner>>

HoldLapses(n) ==
  /\ released[n].held
  /\ released' = [released EXCEPT ![n].held = FALSE]
  /\ UNCHANGED <<creatorRows, tipRows, revoked, req, indexing, pruner, faults>>

(* persistTip: the owner of the jar is read, then the tip is stored.  A    *)
(* poll that is repeated does so for a tip that is stored already.         *)
FindJarOwner(t) ==
  /\ indexing = {}
  /\ \E s \in Slugs, c \in Owners :
       /\ tipJar[t] \in {s, NoOne}
       /\ \/ c \in alive /\ jar[c] = s
          \/ c = NoOne /\ ~JarTaken(s, NoOne)
       /\ indexing' = {[tip |-> t, jar |-> s, owner |-> c]}
  /\ UNCHANGED <<creatorRows, released, tipRows, revoked, req, pruner, faults>>

StoreTip(p) ==
  /\ tipJar' = [tipJar EXCEPT ![p.tip] = p.jar]
  /\ tipOwner' = [tipOwner EXCEPT ![p.tip] = p.owner]
  /\ creditedTo' = [creditedTo EXCEPT ![p.tip] = @ \cup ({p.owner} \ {NoOne})]

(* The upsert leaves a stored tip as it is; the foreign key refuses a      *)
(* creator that is gone, the poll fails and starts over.                   *)
UpsertTip ==
  /\ \E p \in indexing :
       \/ /\ tipJar[p.tip] = NoOne
          /\ p.owner \in alive \cup {NoOne}
          /\ StoreTip(p)
       \/ /\ tipJar[p.tip] # NoOne \/ p.owner \notin alive \cup {NoOne}
          /\ UNCHANGED tipRows
  /\ indexing' = {}
  /\ UNCHANGED <<creatorRows, released, revoked, req, pruner, faults>>

PersistFails ==
  /\ indexing # {}
  /\ Fault
  /\ indexing' = {}
  /\ UNCHANGED <<creatorRows, released, tipRows, revoked, req, pruner>>

IsInert(c) == /\ \A t \in Tips : tipOwner[t] # c
              /\ \A n \in Names : released[n].owner # c

\* Faulty variant: the delete repeats nothing of the scan.
DeletePlaceholders_AsScanned ==
  /\ pruning
  /\ RemoveCreators(candidates \cap alive, released)
  /\ candidates' = {} /\ pruning' = FALSE
  /\ UNCHANGED <<revoked, req, indexing, faults>>

(* A page of old placeholders with nothing; webhooks and notifications,    *)
(* age and the page size make it any subset.                               *)
ScanPlaceholders ==
  /\ ~pruning
  /\ pruning' = TRUE
  /\ candidates' \in SUBSET {c \in alive : slug[c] = c /\ IsInert(c)}
  /\ UNCHANGED <<creatorRows, released, tipRows, revoked, req, indexing, faults>>

(* The delete repeats isInert, not the slug.                               *)
DeletePlaceholders ==
  /\ pruning
  /\ \E gone \in SUBSET {c \in candidates \cap alive : IsInert(c)} :
       RemoveCreators(gone, released)
  /\ candidates' = {} /\ pruning' = FALSE
  /\ UNCHANGED <<revoked, req, indexing, faults>>

ClaimSlug(r) == UpdateClaim(r) \/ AttachTips(r)

ClaimOrRename(r) == ReadTaken(r) \/ CheckHold(r) \/ UpdateRefused(r) \/ ClaimSlug(r)
                    \/ UpdateRename(r) \/ RecordSlugRelease(r)

DeleteCreator(r) == CommitDelete(r) \/ RevokeCreatorTokens(r)

Next == \/ \E c \in Creators : SignIn(c)
        \/ \E r \in Requests : Request(r) \/ ReadCurrent(r) \/ ClaimOrRename(r)
                               \/ DeleteCreator(r) \/ RequestFails(r)
        \/ \E n \in Names : HoldLapses(n)
        \/ \E t \in Tips : FindJarOwner(t)
        \/ UpsertTip \/ PersistFails
        \/ ScanPlaceholders \/ DeletePlaceholders

Spec == Init /\ [][Next]_vars

-----------------------------------------------------------------------------
(* Properties.                                                             *)

CreatorsOK ==
  /\ born \subseteq Creators /\ alive \subseteq born
  /\ slug \in [Creators -> Names] /\ jar \in [Creators -> Names]
  /\ slugsOf \in [Creators -> SUBSET Names] /\ jarsOf \in [Creators -> SUBSET Names]
  /\ rivals \in [Creators -> Nat] /\ overtaken \in [Creators -> Nat]

ReleasedOK ==
  released \in [Names -> [row : BOOLEAN, owner : alive \cup {NoOne}, held : BOOLEAN]]

TipsOK ==
  /\ tipJar \in [Tips -> Slugs \cup {NoOne}] /\ tipOwner \in [Tips -> alive \cup {NoOne}]
  /\ creditedTo \in [Tips -> SUBSET Creators]
  /\ \A t \in Tips : tipOwner[t] \in creditedTo[t] \cup {NoOne}

ReqOK ==
  req \in [Requests -> [kind : {"none", "claim", "rename", "delete"},
                        who : Owners, slug : Slugs \cup {NoOne}, old : Names \cup {NoOne},
                        pc : {"new", "current", "taken", "hold", "update", "attach",
                              "release", "commit", "revoke", "done"}]]

RestOK ==
  /\ revoked \subseteq Creators
  /\ indexing \subseteq [tip : Tips, jar : Slugs, owner : Owners]
  /\ candidates \subseteq Creators
  /\ faults \in 0 .. MaxFaults

(* Every variable has its type, and every reference its row.               *)
TypeOK == /\ CreatorsOK /\ ReleasedOK /\ TipsOK /\ ReqOK /\ RestOK
          /\ pruning \in BOOLEAN

(* A tip is only ever credited to a creator who held the jar it was paid   *)
(* into, whatever claims, renames and deletions run between the read of    *)
(* the owner and the write of the tip (persist.ts, 32-49, and              *)
(* creator.service.ts, 289-297).                                           *)
CreditMatchesJar ==
  \A t \in Tips : \A c \in creditedTo[t] : tipJar[t] \in jarsOf[c]

(* The inductive invariant: whoever a tip is about to be credited to holds *)
(* or held its jar, be it by the claim that attaches it or the read that   *)
(* precedes its row.                                                       *)
RequestInv ==
  \A r \in Requests :
    /\ req[r].pc # "new" => req[r].who \in Creators /\ req[r].slug \in Slugs
    /\ At(r, {"claim"}, "attach") => req[r].slug \in jarsOf[req[r].who]

JarInv == /\ \A c \in alive : jar[c] \in jarsOf[c]
          /\ \A p \in indexing : p.owner # NoOne => p.jar \in jarsOf[p.owner]

IInv == TypeOK /\ RequestInv /\ JarInv /\ CreditMatchesJar

(* A credited tip stays with its creator as long as the creator exists.    *)
CreditedTipStays ==
  [][\A t \in Tips : tipOwner[t] \in alive' => tipOwner'[t] = tipOwner[t]]_vars

(* A tip loses its creator only when the creator asked to be deleted; the  *)
(* pruner takes no creator with tips (placeholder-retention.ts, 59-70).    *)
OnlyDeletionDetaches ==
  [][\A t \in Tips : tipOwner[t] # NoOne /\ tipOwner'[t] = NoOne
       => \E r \in Requests : At(r, {"delete"}, "commit") /\ req[r].who = tipOwner[t]]_vars

(* A tip that was credited once leaves its creator only with that creator, *)
(* on the creator's own request: claims, renames, upserts and the pruner   *)
(* never move or detach it.                                                *)
CreditLasts == CreditedTipStays /\ OnlyDeletionDetaches

(* Claims of one creator that overlap can all go through, each of them     *)
(* having read the placeholder (creator.service.ts, 228-269), but no claim *)
(* joins them later: a creator has no more claimed jars than claims were   *)
(* under way when its first one went through.                              *)
RepeatedClaimsOverlap == \A c \in Creators : Cardinality(Claimed(c)) <= rivals[c]

(* The request goes on to record the slug it read.                         *)
Recording(r) == req[r].pc \in {"attach", "release"} /\ req[r].old # req[r].slug

(* The slugs a creator left that are not on record, nor about to be.       *)
Lost(c) ==
  {n \in slugsOf[c] \ {slug[c]} :
     /\ ~released[n].row
     /\ \A r \in Requests : Recording(r) /\ req[r].who = c => req[r].old # n}

(* A slug that is left has its release row or is getting it.  The row is   *)
(* written for the slug read at first, after the new one is taken          *)
(* (creator.service.ts, 299-301 and 377-381), so one is lost for each      *)
(* request that is cut short and each that wrote over a slug it had not    *)
(* read, and no other is.                                                  *)
LeftSlugsRecorded ==
  \A c \in alive : Cardinality(Lost(c)) <= faults + overtaken[c]

(* placeholder-retention.ts, line 13: "A placeholder is only deleted once  *)
(* it is provably inert: still on its placeholder slug".                   *)
PrunedUnclaimed == [][pruning /\ ~pruning' => \A c \in alive \ alive' : slug[c] = c]_vars

(* schema.prisma, ReleasedSlug: until the hold expires "the slug stays     *)
(* unavailable to everyone except this creator".                           *)
HeldSlugNotTaken ==
  [][\A c \in alive \cap alive' : slug'[c] # slug[c] => ~HeldAgainst(slug'[c], c)]_vars

(* creator.service.ts, line 264: "each creator claims once".               *)
EachClaimsOnce == \A c \in Creators : Cardinality(jarsOf[c] \cap Slugs) <= 1

(* persist.ts, line 54: a tip of an unclaimed jar "will be attached when   *)
(* jar is claimed".                                                        *)
ClaimedJarHasItsTips ==
  \A t \in Tips, c \in alive :
    tipJar[t] = jar[c] /\ (\A r \in Requests : ~At(r, {"claim"}, "attach"))
      => tipOwner[t] = c

(* README.md, line 293: deleting a profile "does not erase or misattribute *)
(* those records": no tip of a deleted creator is credited to another.     *)
NeverMisattributed == \A t \in Tips : Cardinality(creditedTo[t]) <= 1

(* README.md, line 267: "a claim is the one-time move off the sign-in      *)
(* placeholder": who has a real slug has the jar of a claim.               *)
RealSlugIsClaimed == \A c \in alive : slug[c] \in Slugs => jar[c] \in Slugs
=============================================================================
