--------------------------- MODULE TipFeedProofs ---------------------------
(***************************************************************************)
(* Proofs about what the API answers, from the database or from Redis.     *)
(*                                                                         *)
(* TipFeed: every variable keeps its type, and who pages by cursor sees    *)
(* every row once.  The argument: every page, in the cache or in a         *)
(* request, is honest about the cursor it answers, and stays so whatever   *)
(* rows arrive, since the place of a row in the list never changes.        *)
(*                                                                         *)
(* Dashboard: the aggregates over those rows add up.  The argument: what   *)
(* sums over finite sets are, from the recursion that defines them, then   *)
(* the bounds of a floor, summed over tips and recipients.                 *)
(*                                                                         *)
(* ProfileCache: an entry is out of date only for a reason.                *)
(***************************************************************************)
EXTENDS Dashboard, ProfileCache, FiniteSetTheorems, SequenceTheorems, TLAPS

After(k, c) == c = NoRow \/ Older(k, c)

(* Of the rows the list had when it was read, the page holds those after   *)
(* the cursor, up to the one it names as the next.                         *)
Honest(p, c) ==
  /\ p.known \subseteq Rows /\ p.rows \subseteq p.known
  /\ \A k \in p.rows : After(k, c)
  /\ p.next # NoRow => p.next \in p.rows /\ \A j \in p.rows : ~Older(j, p.next)
  /\ \A k \in p.known \ p.rows : After(k, c) => p.next # NoRow /\ Older(k, p.next)

CacheInv == \A e \in cache : e.key.after \in Rows \cup {NoRow} /\ Honest(e.page, e.key.after)

Moving(q) ==
  /\ q.stage \in {"looking", "storing"} => Cached(q.kind)
  /\ q.stage # "idle" => q.take \in Takes

(* What the client saw lies before its cursor, what it still owes it after.*)
Sound(q) ==
  /\ q.after \in Rows \cup {NoRow} /\ q.seen \subseteq Rows
  /\ ~q.repeated
  /\ q.after # NoRow => q.floor \subseteq Rows
  /\ q.stage # "ended" => /\ \A k \in q.seen : ~After(k, q.after)
                          /\ \A k \in q.floor : k \in q.seen \/ After(k, q.after)
  /\ q.stage = "ended" => q.floor \subseteq q.seen
  /\ q.stage = "storing" => Honest(q.page, q.after)

WalkInv == \A w \in Walks : Moving(walk[w]) /\ (walk[w].kind # "notifications" => Sound(walk[w]))

IInv == TypeOK /\ CacheInv /\ WalkInv

Walking == [stage : {"idle", "looking", "querying", "storing", "ended"}, kind : AllKinds,
            take : Nat, after : Positions, offset : Nat, page : Pages,
            seen : SUBSET Keys, repeated : BOOLEAN, floor : SUBSET Keys]

-----------------------------------------------------------------------------

LEMMA KeysAreNat == Keys \subseteq Nat \ {0} /\ IsFiniteSet(Keys) /\ NoRow = 0 /\ NoRow \notin Keys
BY FeedAssumption DEF NoRow

(* The order of the list is a strict one.                                  *)
LEMMA OlderIsStrict ==
  ASSUME TypeOK, NEW i \in Keys, NEW j \in Keys, NEW k \in Keys
  PROVE  /\ ~Older(i, i)
         /\ Older(i, j) => ~Older(j, i)
         /\ Older(i, j) /\ Older(j, k) => Older(i, k)
BY KeysAreNat, FeedAssumption DEF Older, TypeOK, Times

LEMMA RowsAfterCursor ==
  ASSUME NEW c \in Positions
  PROVE  RowsAfter(c) = {k \in Rows : After(k, c)}
BY DEF RowsAfter, After, Older, NoRow

(* LIMIT n of no more than n rows is all of them.                          *)
LEMMA ShortPageIsAll ==
  ASSUME NEW rows \in SUBSET Keys, NEW page, NEW n \in Nat, Newest(page, rows, n),
         Cardinality(rows) <= n
  PROVE  page = rows
<1>1. IsFiniteSet(rows)
  BY KeysAreNat, FS_Subset
<1>2. Cardinality(rows) \in Nat
  BY <1>1, FS_CardinalityType
<1>3. page \subseteq rows /\ Cardinality(page) = Cardinality(rows)
  BY <1>2 DEF Newest
<1>4. QED
  BY <1>1, <1>3, FS_Subset

(* A page that a query answers is honest about the cursor of the query.    *)
LEMMA QueryIsHonest ==
  ASSUME TypeOK, NEW kind, NEW c \in Positions, NEW n \in Takes,
         NEW p \in PagesOf(kind, RowsAfter(c), n)
  PROVE  p \in Pages /\ Honest(p, c)
<1> DEFINE rows == RowsAfter(c)
<1>1. rows = {k \in Rows : After(k, c)} /\ rows \in SUBSET Keys /\ Rows \subseteq Keys
  BY RowsAfterCursor DEF Rows
<1>2. /\ p \in [rows : SUBSET rows, next : rows \cup {NoRow}, known : {Rows}]
      /\ Newest(p.rows, rows, n)
      /\ IF HasMore(kind, rows, n) THEN Last(p.next, p.rows) ELSE p.next = NoRow
  BY DEF PagesOf
<1>3. p \in Pages
  BY <1>1, <1>2 DEF Pages, Positions
<1>4. p.known = Rows /\ p.rows \subseteq rows
  BY <1>2
<1>5. n \in Nat
  BY FeedAssumption
<1> HIDE DEF rows
<1>6. CASE HasMore(kind, rows, n)
  <2>1. p.next \in p.rows /\ \A j \in p.rows \ {p.next} : Older(p.next, j)
    BY <1>2, <1>6 DEF Last
  <2>2. \A j \in p.rows : ~Older(j, p.next)
    BY <2>1, <1>1, <1>4, OlderIsStrict
  <2>3. \A j \in rows \ p.rows : Older(j, p.next)
    BY <1>2, <2>1 DEF Newest
  <2>4. p.next # NoRow
    BY <2>1, <1>1, <1>4, KeysAreNat
  <2>5. QED
    BY <1>1, <1>3, <1>4, <2>1, <2>2, <2>3, <2>4 DEF Honest
<1>7. CASE ~HasMore(kind, rows, n)
  <2>1. IsFiniteSet(rows)
    BY <1>1, KeysAreNat, FS_Subset
  <2>2. Cardinality(rows) \in Nat
    BY <2>1, FS_CardinalityType
  <2>3. Cardinality(rows) <= n
    BY <1>7, <1>5, <2>2 DEF HasMore
  <2>4. p.rows = rows
    BY <1>1, <1>2, <1>5, <2>3, ShortPageIsAll
  <2>5. QED
    BY <1>1, <1>2, <1>3, <1>4, <1>7, <2>4 DEF Honest
<1>8. QED
  BY <1>6, <1>7

(* Turning an honest page keeps the client sound.                          *)
LEMMA TurnIsSound ==
  ASSUME TypeOK, NEW q \in Walking, NEW p \in Pages, q.stage # "ended",
         Sound(q), Honest(p, q.after)
  PROVE  Sound(Turn(q, p))
<1> DEFINE t == Turn(q, p)
<1>1. /\ t.stage = IF p.next = NoRow THEN "ended"
                   ELSE IF Cached(q.kind) THEN "looking" ELSE "querying"
      /\ t.after = p.next /\ t.seen = q.seen \cup p.rows
      /\ t.repeated = (q.repeated \/ p.rows \cap q.seen # {})
      /\ t.floor = q.floor \cap p.known
  BY DEF Turn, Walking
<1>2. /\ p.known \subseteq Rows /\ p.rows \subseteq p.known /\ Rows \subseteq Keys
      /\ \A k \in p.rows : After(k, q.after)
      /\ p.next # NoRow => p.next \in p.rows /\ \A j \in p.rows : ~Older(j, p.next)
      /\ \A k \in p.known \ p.rows : After(k, q.after) => p.next # NoRow /\ Older(k, p.next)
  BY DEF Honest, Rows
<1>3. /\ q.after \in Rows \cup {NoRow} /\ q.seen \subseteq Rows /\ ~q.repeated
      /\ \A k \in q.seen : ~After(k, q.after)
      /\ \A k \in q.floor : k \in q.seen \/ After(k, q.after)
  BY DEF Sound
<1> HIDE DEF t
<1>4. t.after \in Rows \cup {NoRow} /\ t.seen \subseteq Rows /\ t.floor \subseteq Rows
  BY <1>1, <1>2, <1>3
<1>5. ~t.repeated
  BY <1>1, <1>2, <1>3
<1>6. \A k \in t.floor : k \in t.seen \/ (p.next # NoRow /\ Older(k, p.next))
  BY <1>1, <1>2, <1>3
<1>7. p.next # NoRow => \A k \in t.seen : ~After(k, t.after)
  <2> SUFFICES ASSUME p.next # NoRow, NEW k \in t.seen
               PROVE  ~Older(k, p.next)
    BY <1>1 DEF After
  <2>1. CASE k \in p.rows
    BY <1>2, <2>1
  <2>2. CASE k \in q.seen
    <3>1. q.after # NoRow /\ q.after \in Keys /\ ~Older(k, q.after)
      BY <1>2, <1>3, <2>2 DEF After
    <3>2. p.next \in Keys /\ k \in Keys /\ Older(p.next, q.after)
      BY <1>2, <1>3, <2>2, <3>1 DEF After
    <3>3. QED
      BY <3>1, <3>2, OlderIsStrict
  <2>3. QED
    BY <1>1, <2>1, <2>2
<1>8. /\ t.stage = "ended" <=> p.next = NoRow
      /\ t.stage # "storing"
  BY <1>1
<1>9. t.stage # "ended" => \A k \in t.floor : k \in t.seen \/ After(k, t.after)
  BY <1>1, <1>6 DEF After
<1>10. Sound(t)
  BY <1>4, <1>5, <1>6, <1>7, <1>8, <1>9 DEF Sound
<1>11. QED
  BY <1>10 DEF t

LEMMA TurnIsWalking ==
  ASSUME TypeOK, NEW q \in Walking, NEW p \in Pages, Moving(q), q.stage # "idle"
  PROVE  /\ Turn(q, p) \in Walking /\ Moving(Turn(q, p))
         /\ Turn(q, p).kind = q.kind
<1>1. Cardinality(p.rows) \in Nat
  <2>1. IsFiniteSet(p.rows)
    BY KeysAreNat, FS_Subset DEF Pages
  <2>2. QED
    BY <2>1, FS_CardinalityType
<1>2. NoPage \in Pages
  BY DEF NoPage, Pages, Positions
<1>3. Turn(q, p) \in Walking
  <2>1. ASSUME NEW st \in {"ended", "looking", "querying"}, NEW after \in Positions,
               NEW offset \in Nat, NEW seen \in SUBSET Keys, NEW rep \in BOOLEAN,
               NEW floor \in SUBSET Keys
        PROVE  [q EXCEPT !.stage = st, !.after = after, !.offset = offset, !.page = NoPage,
                         !.seen = seen, !.repeated = rep, !.floor = floor] \in Walking
    BY <1>2 DEF Walking
  <2> DEFINE stage == IF p.next = NoRow THEN "ended"
                      ELSE IF Cached(q.kind) THEN "looking" ELSE "querying"
             after == p.next
             offset == q.offset + Cardinality(p.rows)
             seen == q.seen \cup p.rows
             repeated == q.repeated \/ p.rows \cap q.seen # {}
             floor == q.floor \cap p.known
  <2>2. after \in Positions /\ seen \in SUBSET Keys
    BY DEF Pages, Walking
  <2>3. /\ floor \in SUBSET Keys /\ offset \in Nat
        /\ repeated \in BOOLEAN /\ stage \in {"ended", "looking", "querying"}
    BY <1>1 DEF Walking
  <2>4. Turn(q, p) = [q EXCEPT !.stage = stage, !.after = after, !.offset = offset,
                               !.page = NoPage, !.seen = seen, !.repeated = repeated,
                               !.floor = floor]
    BY Zenon DEF Turn
  <2> HIDE DEF stage, after, offset, seen, repeated, floor
  <2>5. [q EXCEPT !.stage = stage, !.after = after, !.offset = offset, !.page = NoPage,
                  !.seen = seen, !.repeated = repeated, !.floor = floor] \in Walking
    BY <2>1, <2>2, <2>3, Zenon
  <2>6. QED
    BY <2>4, <2>5, Zenon
<1>4. /\ Turn(q, p).stage # "storing" /\ Turn(q, p).kind = q.kind /\ Turn(q, p).take = q.take
      /\ Turn(q, p).stage = "looking" => Cached(q.kind)
  BY DEF Turn, Walking
<1>5. QED
  BY <1>3, <1>4 DEF Moving

(* A row that arrives moves no other: what was honest or sound stays so.   *)
LEMMA ArrivalKeeps ==
  ASSUME TypeOK, NEW k \in Keys, NEW l \in 1 .. Ledgers, AddRow(k, l)
  PROVE  /\ Rows \subseteq Rows'
         /\ \A c \in Rows \cup {NoRow} : \A p : Honest(p, c) => Honest(p, c)'
         /\ \A q : Sound(q) => Sound(q)'
<1>1. \A j \in Rows : j \in Rows' /\ ledger'[j] = ledger[j]
  BY FeedAssumption DEF AddRow, TypeOK, Rows, Times
<1>2. \A i, j \in Rows : Older(i, j)' <=> Older(i, j)
  BY <1>1 DEF Older
<1>3. \A i \in Rows, c \in Rows \cup {NoRow} : After(i, c)' <=> After(i, c)
  BY <1>2 DEF After
<1>4. ASSUME NEW c \in Rows \cup {NoRow}, NEW p, Honest(p, c)
      PROVE  Honest(p, c)'
  BY <1>1, <1>2, <1>3, <1>4 DEF Honest
<1>5. ASSUME NEW q, Sound(q)
      PROVE  Sound(q)'
  <2>1. q.after \in Rows \cup {NoRow} /\ q.seen \subseteq Rows
    BY <1>5 DEF Sound
  <2>2. /\ \A j \in q.seen : After(j, q.after)' <=> After(j, q.after)
        /\ q.after # NoRow => \A j \in q.floor : After(j, q.after)' <=> After(j, q.after)
        /\ q.after = NoRow => \A j \in q.floor : After(j, q.after)'
    BY <1>3, <1>5, <2>1 DEF Sound, After
  <2>3. Honest(q.page, q.after) => Honest(q.page, q.after)'
    BY <1>4, <2>1
  <2>4. QED
    BY <1>1, <1>5, <2>1, <2>2, <2>3 DEF Sound
<1>6. QED
  BY <1>1, <1>4, <1>5

-----------------------------------------------------------------------------

LEMMA InitInv == Init => IInv
<1> SUFFICES ASSUME Init
             PROVE  IInv
  OBVIOUS
<1>1. NoPage \in Pages /\ Rows = {}
  BY DEF NoPage, Pages, Positions, Init, Rows
<1>2. TypeOK
  BY <1>1, FeedAssumption DEF Init, TypeOK, Times, AllKinds, Positions
<1>3. \A w \in Walks : Moving(walk[w]) /\ Sound(walk[w])
  BY DEF Init, Moving, Sound, After
<1>4. QED
  BY <1>2, <1>3 DEF Init, IInv, CacheInv, WalkInv

LEMMA AddKeeps ==
  ASSUME IInv, NEW k \in Keys, NEW l \in 1 .. Ledgers, AddRow(k, l)
  PROVE  IInv'
<1>1. TypeOK'
  BY FeedAssumption DEF AddRow, IInv, TypeOK, Times
<1>2. TypeOK /\ UNCHANGED <<cache, walk>>
  BY DEF AddRow, IInv
<1>3. /\ Rows \subseteq Rows'
      /\ \A c \in Rows \cup {NoRow} : \A p : Honest(p, c) => Honest(p, c)'
      /\ \A q : Sound(q) => Sound(q)'
  BY <1>2, ArrivalKeeps
<1>4. CacheInv'
  BY <1>2, <1>3 DEF IInv, CacheInv
<1>5. WalkInv'
  BY <1>2, <1>3 DEF IInv, WalkInv, Moving
<1>6. QED
  BY <1>1, <1>4, <1>5 DEF IInv

(* What the steps of a client leave alone.                                 *)
LEMMA RowsStay ==
  ASSUME UNCHANGED ledger
  PROVE  /\ Rows' = Rows
         /\ \A p, c : Honest(p, c)' <=> Honest(p, c)
         /\ \A q : Sound(q)' <=> Sound(q)
BY DEF Rows, Honest, Sound, After, Older

(* A client goes on to where it is sound again; the others stay.           *)
LEMMA WalkMoves ==
  ASSUME IInv, NEW w \in Walks, NEW q \in Walking,
         Moving(q), q.kind # "notifications" => Sound(q),
         walk' = [walk EXCEPT ![w] = q], UNCHANGED ledger
  PROVE  walk' \in [Walks -> Walking] /\ WalkInv'
<1>1. walk' \in [Walks -> Walking]
  BY DEF IInv, TypeOK, Walking
<1>2. \A v \in Walks : walk'[v] = IF v = w THEN q ELSE walk[v]
  BY DEF IInv, TypeOK
<1>3. \A r : Sound(r)' <=> Sound(r)
  BY RowsStay
<1>4. QED
  BY <1>1, <1>2, <1>3 DEF IInv, WalkInv, Moving

LEMMA StartKeeps ==
  ASSUME IInv, NEW w \in Walks, NEW kind \in Kinds, NEW take \in Takes,
         StartWalk(w, kind, take)
  PROVE  IInv'
<1> DEFINE q == [stage |-> IF Cached(kind) THEN "looking" ELSE "querying", kind |-> kind,
        take |-> take, after |-> NoRow, offset |-> 0, page |-> NoPage,
        seen |-> {}, repeated |-> FALSE, floor |-> Keys]
<1>1. q \in Walking /\ Moving(q) /\ Sound(q)
  BY FeedAssumption DEF Walking, Pages, NoPage, Positions, Moving, Sound, After
<1>2. walk' = [walk EXCEPT ![w] = q] /\ UNCHANGED <<ledger, cache>>
  BY DEF StartWalk
<1> HIDE DEF q
<1>3. walk' \in [Walks -> Walking] /\ WalkInv'
  BY <1>1, <1>2, WalkMoves
<1>4. QED
  BY <1>2, <1>3, RowsStay DEF IInv, TypeOK, CacheInv, Walking

LEMMA LookUpKeeps ==
  ASSUME IInv, NEW w \in Walks, LookUp(w)
  PROVE  IInv'
<1>1. /\ walk[w] \in Walking /\ walk[w].stage = "looking" /\ Moving(walk[w])
      /\ walk[w].kind # "notifications" /\ Sound(walk[w])
      /\ UNCHANGED <<ledger, cache>>
  BY DEF LookUp, IInv, TypeOK, WalkInv, Moving, Cached, Walking
<1>2. WalkInv' /\ walk' \in [Walks -> Walking]
  <2>1. ASSUME NEW e \in cache, e.key = KeyOf(walk[w]), walk' = [walk EXCEPT ![w] = Turn(@, e.page)]
        PROVE  WalkInv' /\ walk' \in [Walks -> Walking]
    <3>1. e.page \in Pages /\ Honest(e.page, walk[w].after)
      BY <2>1 DEF IInv, TypeOK, CacheInv, KeyOf
    <3>2. /\ Turn(walk[w], e.page) \in Walking /\ Moving(Turn(walk[w], e.page))
          /\ Sound(Turn(walk[w], e.page))
      BY <1>1, <3>1, TurnIsSound, TurnIsWalking DEF IInv
    <3>3. walk' = [walk EXCEPT ![w] = Turn(walk[w], e.page)]
      BY <2>1
    <3>4. QED
      BY <1>1, <3>2, <3>3, WalkMoves
  <2>2. ASSUME walk' = [walk EXCEPT ![w].stage = "querying"]
        PROVE  WalkInv' /\ walk' \in [Walks -> Walking]
    <3> DEFINE q == [walk[w] EXCEPT !.stage = "querying"]
    <3>1. q \in Walking /\ Moving(q) /\ Sound(q)
      BY <1>1 DEF Walking, Moving, Sound
    <3>2. walk' = [walk EXCEPT ![w] = q]
      BY <2>2
    <3> HIDE DEF q
    <3>3. QED
      BY <1>1, <3>1, <3>2, WalkMoves
  <2>3. QED
    BY <2>1, <2>2 DEF LookUp
<1>3. QED
  BY <1>1, <1>2, RowsStay DEF IInv, TypeOK, CacheInv, Walking

LEMMA QueryKeeps ==
  ASSUME IInv, NEW w \in Walks, QueryCached(w)
  PROVE  IInv'
<1>1. /\ walk[w] \in Walking /\ walk[w].stage = "querying" /\ Moving(walk[w])
      /\ Cached(walk[w].kind) /\ walk[w].kind # "notifications" /\ Sound(walk[w])
      /\ walk[w].take \in Takes /\ walk[w].after \in Positions
      /\ UNCHANGED <<ledger, cache>>
  BY DEF QueryCached, IInv, TypeOK, WalkInv, Moving, Cached, Walking
<1>2. PICK p \in PagesOf(walk[w].kind, RowsAfter(walk[w].after), walk[w].take) :
        walk' = [walk EXCEPT ![w].page = p, ![w].stage = "storing"]
  BY DEF QueryCached
<1>3. p \in Pages /\ Honest(p, walk[w].after)
  BY <1>1, QueryIsHonest DEF IInv
<1> DEFINE q == [walk[w] EXCEPT !.page = p, !.stage = "storing"]
<1>4. q \in Walking /\ Moving(q) /\ Sound(q)
  BY <1>1, <1>3 DEF Walking, Moving, Sound
<1>5. walk' = [walk EXCEPT ![w] = q]
  BY <1>1, <1>2 DEF IInv, TypeOK
<1> HIDE DEF q
<1>6. WalkInv' /\ walk' \in [Walks -> Walking]
  BY <1>1, <1>4, <1>5, WalkMoves
<1>7. QED
  BY <1>1, <1>6, RowsStay DEF IInv, TypeOK, CacheInv, Walking

(* The page is turned, and may be put into the cache.                      *)
LEMMA StoreKeeps ==
  ASSUME IInv, NEW w \in Walks, StorePage(w) \/ SkipStore(w)
  PROVE  IInv'
<1> DEFINE q == walk[w]
           t == Turn(q, q.page)
           e == [key |-> KeyOf(q), page |-> q.page]
<1>1. /\ q \in Walking /\ q.stage = "storing" /\ Moving(q) /\ Cached(q.kind)
      /\ q.kind # "notifications" /\ Sound(q) /\ Honest(q.page, q.after)
      /\ q.page \in Pages /\ q.take \in Takes /\ q.after \in Rows \cup {NoRow}
      /\ UNCHANGED ledger
  BY DEF StorePage, SkipStore, IInv, TypeOK, WalkInv, Moving, Cached, Walking, Sound
<1>2. walk' = [walk EXCEPT ![w] = t]
  BY DEF StorePage, SkipStore
<1>3. t \in Walking /\ Moving(t) /\ Sound(t)
  BY <1>1, TurnIsSound, TurnIsWalking DEF IInv
<1>4. e \in [key : CacheKeys, page : Pages] /\ e.key = KeyOf(q) /\ e.key.after = q.after
      /\ e.page = q.page
  BY <1>1 DEF KeyOf, CacheKeys, Cached, Positions, Rows
<1>5. cache' = cache \/ cache' = {c \in cache : c.key # KeyOf(q)} \cup {e}
  BY DEF StorePage, SkipStore
<1> HIDE DEF q, t, e
<1>6. WalkInv' /\ walk' \in [Walks -> Walking]
  BY <1>1, <1>2, <1>3, WalkMoves
<1>7. /\ cache' \subseteq [key : CacheKeys, page : Pages]
      /\ \A c, d \in cache' : c.key = d.key => c = d
  BY <1>4, <1>5 DEF IInv, TypeOK
<1>8. CacheInv'
  BY <1>1, <1>4, <1>5, RowsStay DEF IInv, CacheInv
<1>9. QED
  BY <1>1, <1>6, <1>7, <1>8 DEF IInv, TypeOK, Walking

(* A list that is not cached: the export, and the notifications.           *)
LEMMA BatchKeeps ==
  ASSUME IInv, NEW w \in Walks, ExportBatch(w) \/ ListNotifications(w)
  PROVE  IInv'
<1>1. /\ walk[w] \in Walking /\ walk[w].stage = "querying" /\ Moving(walk[w])
      /\ walk[w].take \in Takes /\ walk[w].after \in Positions
      /\ walk[w].kind # "notifications" => Sound(walk[w])
      /\ UNCHANGED <<ledger, cache>>
  BY DEF ExportBatch, ListNotifications, IInv, TypeOK, WalkInv, Moving, Walking
<1>2. PICK p \in Pages :
        /\ walk' = [walk EXCEPT ![w] = Turn(@, p)]
        /\ walk[w].kind # "notifications" => Honest(p, walk[w].after)
  <2>1. CASE ExportBatch(w)
    BY <1>1, <2>1, QueryIsHonest DEF ExportBatch, IInv
  <2>2. CASE ListNotifications(w)
    <3>1. PICK skipped \in SUBSET Rows :
            \E p \in PagesOf("notifications", Rows \ skipped, walk[w].take) :
              walk' = [walk EXCEPT ![w] = Turn(@, p)]
      BY <2>2 DEF ListNotifications
    <3>2. PagesOf("notifications", Rows \ skipped, walk[w].take) \subseteq Pages
      BY DEF PagesOf, Pages, Rows, Positions
    <3>3. QED
      BY <2>2, <3>1, <3>2 DEF ListNotifications
  <2>3. QED
    BY <2>1, <2>2
<1>3. walk' = [walk EXCEPT ![w] = Turn(walk[w], p)]
  BY <1>2
<1>4. /\ Turn(walk[w], p) \in Walking /\ Moving(Turn(walk[w], p))
      /\ Turn(walk[w], p).kind = walk[w].kind
  BY <1>1, TurnIsWalking DEF IInv
<1>5. walk[w].kind # "notifications" => Sound(Turn(walk[w], p))
  BY <1>1, <1>2, TurnIsSound DEF IInv
<1>6. WalkInv' /\ walk' \in [Walks -> Walking]
  BY <1>1, <1>3, <1>4, <1>5, WalkMoves
<1>7. QED
  BY <1>1, <1>6, RowsStay DEF IInv, TypeOK, CacheInv, Walking

(* An entry that goes takes no other with it.                              *)
LEMMA EntriesGo ==
  ASSUME IInv, cache' \subseteq cache, UNCHANGED <<ledger, walk>>
  PROVE  IInv'
<1>1. TypeOK'
  BY DEF IInv, TypeOK
<1>2. CacheInv' /\ WalkInv'
  BY RowsStay DEF IInv, CacheInv, WalkInv, Moving
<1>3. QED
  BY <1>1, <1>2 DEF IInv

LEMMA ExpiryKeeps ==
  ASSUME IInv, NEW key \in CacheKeys, Expire(key)
  PROVE  IInv'
<1>1. cache' \subseteq cache /\ UNCHANGED <<ledger, walk>>
  BY DEF Expire
<1>2. QED
  BY <1>1, EntriesGo

-----------------------------------------------------------------------------

LEMMA StepKeeps == IInv /\ [Next]_vars => IInv'
<1> SUFFICES ASSUME IInv, [Next]_vars
             PROVE  IInv'
  OBVIOUS
<1>1. CASE \E k \in Keys, l \in 1 .. Ledgers : AddRow(k, l)
  BY <1>1, AddKeeps
<1>2. CASE \E w \in Walks, kind \in Kinds, take \in Takes : StartWalk(w, kind, take)
  BY <1>2, StartKeeps
<1>3. CASE \E w \in Walks : Step(w)
  BY <1>3, LookUpKeeps, QueryKeeps, StoreKeeps, BatchKeeps DEF Step
<1>4. CASE \E key \in CacheKeys : Expire(key)
  BY <1>4, ExpiryKeeps
<1>5. CASE UNCHANGED vars
  <2>1. UNCHANGED <<ledger, walk>> /\ cache' \subseteq cache
    BY <1>5 DEF vars
  <2>2. QED
    BY <2>1, EntriesGo
<1>6. QED
  BY <1>1, <1>2, <1>3, <1>4, <1>5 DEF Next

LEMMA FeedInductive == Spec => []IInv
BY InitInv, StepKeeps, PTL DEF Spec

(* Every variable of the lists keeps its type, and Redis holds one page    *)
(* for every key.                                                          *)
THEOREM FeedTypeCorrect == Spec => []TypeOK
<1>1. IInv => TypeOK
  BY DEF IInv
<1>2. QED
  BY <1>1, FeedInductive, PTL

(* For any rows, page sizes and clients, and with pages cached at any      *)
(* times, who pages by cursor to the end sees every row once.              *)
THEOREM PagingExact == Spec => []PagingIsExact
<1>1. IInv => PagingIsExact
  BY DEF IInv, WalkInv, Sound, PagingIsExact, Exact
<1>2. QED
  BY <1>1, FeedInductive, PTL

-----------------------------------------------------------------------------
(* Sums over finite sets.  Induction goes by the set of what it holds for. *)

LEMMA SubsetInduction ==
  ASSUME NEW S, IsFiniteSet(S), NEW G, {} \in G,
         \A T \in SUBSET S : \A x \in S \ T : T \in G => T \cup {x} \in G
  PROVE  S \in G
<1> DEFINE Bad == {T \in SUBSET S : T \notin G}
<1>1. SUFFICES ASSUME Bad # {} PROVE FALSE
  OBVIOUS
<1> DEFINE R == StrictSubsetOrdering(S)
           F == FiniteSubsetsOf(S)
<1>2. IsWellFoundedOn(R, F)
  BY FS_StrictSubsetOrderingWellFounded, Zenon
<1>3. Bad \subseteq F /\ Bad # {}
  <2>1. Bad \subseteq SUBSET S
    OBVIOUS
  <2>2. F = SUBSET S
    BY FS_FiniteSubsetsOfFinite, Zenon
  <2> HIDE DEF Bad, F
  <2>3. QED
    BY <1>1, <2>1, <2>2, Zenon
<1> HIDE DEF Bad, R, F
<1>4. \E T \in Bad : \A U \in Bad : ~(<<U, T>> \in R)
  BY <1>2, <1>3, WFMin, Zenon
<1>5. PICK T \in Bad : \A U \in Bad : ~(<<U, T>> \in R)
  BY <1>4, Zenon
<1>6. T \in SUBSET S /\ T \notin G /\ T # {}
  BY DEF Bad
<1>7. PICK x \in T : TRUE
  BY <1>6
<1>8. T \ {x} \notin Bad
  BY <1>5, <1>6 DEF R, StrictSubsetOrdering
<1>9. T \ {x} \in G /\ T \ {x} \in SUBSET S /\ x \in S \ (T \ {x})
  BY <1>6, <1>8 DEF Bad
<1>10. (T \ {x}) \cup {x} = T
  OBVIOUS
<1>11. QED
  BY <1>6, <1>9, <1>10

Some(s) == CHOOSE x \in s : TRUE

(* The recursion of the sum, as the library writes it.                     *)
Recursion(g, f, S) ==
  g = [s \in SUBSET S |-> IF s = {} THEN 0 ELSE f[Some(s)] + g[s \ {Some(s)}]]

LEMMA SumIsRecursive ==
  ASSUME NEW f, NEW S
  PROVE  SumFunctionOnSet(f, S) = (CHOOSE g : Recursion(g, f, S))[S]
BY DEF SumFunctionOnSet, FoldFunctionOnSet, MapThenFoldSet, Recursion, Some

LEMMA SomeIn == ASSUME NEW s, s # {} PROVE Some(s) \in s
BY DEF Some

LEMMA CountInduction ==
  ASSUME NEW G, 0 \in G, \A n \in Nat : n \in G => n + 1 \in G
  PROVE  Nat \subseteq G
<1> DEFINE Bad == Nat \ G
<1>1. SUFFICES ASSUME Bad # {} PROVE FALSE
  OBVIOUS
<1> DEFINE R == OpToRel(<, Nat)
<1>2. IsWellFoundedOn(R, Nat) /\ Bad \subseteq Nat
  BY NatLessThanWellFounded
<1> HIDE DEF Bad, R
<1>3. \E n \in Bad : \A m \in Bad : ~(<<m, n>> \in R)
  BY <1>1, <1>2, WFMin, Zenon
<1>4. PICK n \in Bad : \A m \in Bad : ~(m < n)
  BY <1>2, <1>3 DEF R, OpToRel
<1>5. n \in Nat /\ n # 0
  BY DEF Bad
<1>6. n - 1 \in Nat /\ n - 1 \in G
  BY <1>4, <1>5 DEF Bad
<1>7. QED
  BY <1>5, <1>6 DEF Bad

(* The recursion can be followed for n elements, and so to the end.        *)
LEMMA RecursionExists ==
  ASSUME NEW f, NEW S, IsFiniteSet(S)
  PROVE  \E g : Recursion(g, f, S)
<1> DEFINE Value(g, s) == IF s = {} THEN 0 ELSE f[Some(s)] + g[s \ {Some(s)}]
           Within(n, g) == \A s \in SUBSET S : Cardinality(s) <= n => g[s] = Value(g, s)
           Fun(g) == [s \in SUBSET S |-> Value(g, s)]
           G == {n \in Nat : \E g : Within(n, g)}
<1>1. \A s \in SUBSET S : /\ IsFiniteSet(s) /\ Cardinality(s) \in Nat
                          /\ Cardinality(s) <= Cardinality(S)
                          /\ Cardinality(s) = 0 <=> s = {}
  BY FS_Subset, FS_CardinalityType, FS_EmptySet
<1>2. 0 \in G
  <2> DEFINE g == [s \in SUBSET S |-> 0]
  <2>1. Within(0, g)
    BY <1>1
  <2>2. QED
    BY <2>1
<1>3. ASSUME NEW n \in Nat, n \in G PROVE n + 1 \in G
  <2>1. PICK g : Within(n, g)
    BY <1>3
  <2>2. ASSUME NEW s \in SUBSET S, Cardinality(s) <= n + 1
        PROVE  Fun(g)[s] = Value(Fun(g), s)
    <3>1. CASE s = {}
      BY <3>1
    <3>2. CASE s # {}
      <4>1. Some(s) \in s /\ s \ {Some(s)} \in SUBSET S
        BY <3>2, SomeIn
      <4>2. Cardinality(s \ {Some(s)}) = Cardinality(s) - 1
        BY <1>1, <4>1, FS_RemoveElement
      <4>3. Cardinality(s \ {Some(s)}) <= n
        BY <1>1, <2>2, <4>2
      <4>4. g[s \ {Some(s)}] = Fun(g)[s \ {Some(s)}]
        BY <2>1, <4>1, <4>3
      <4>5. QED
        BY <3>2, <4>4
    <3>3. QED
      BY <3>1, <3>2
  <2>3. PICK h : h = Fun(g)
    OBVIOUS
  <2>4. \A s \in SUBSET S : Cardinality(s) <= n + 1 => h[s] = Value(h, s)
    BY <2>2, <2>3, Zenon
  <2>5. \E k : Within(n + 1, k)
    BY <2>4, Zenon
  <2>6. n + 1 \in Nat
    OBVIOUS
  <2>7. QED
    BY <2>5, <2>6, Zenon
<1>4. Cardinality(S) \in G
  <2> HIDE DEF G
  <2>1. Cardinality(S) \in Nat
    BY FS_CardinalityType
  <2>2. Nat \subseteq G
    BY <1>2, <1>3, CountInduction
  <2>3. QED
    BY <2>1, <2>2
<1>5. PICK g : Within(Cardinality(S), g)
  BY <1>4
<1>6. \A s \in SUBSET S : g[s] = Value(g, s)
  BY <1>1, <1>5
<1>7. Fun(g) = [s \in SUBSET S |-> Value(Fun(g), s)]
  <2>1. \A s \in SUBSET S : Fun(g)[s] = g[s]
    BY <1>6
  <2>2. \A s \in SUBSET S : s \ {Some(s)} \in SUBSET S
    OBVIOUS
  <2>3. \A s \in SUBSET S : Value(g, s) = Value(Fun(g), s)
    BY <2>1, <2>2
  <2>4. QED
    BY <2>3
<1>8. QED
  BY <1>7 DEF Recursion

(* What the recursion says of a part is what the sum over the part is.     *)
LEMMA SumStep ==
  ASSUME NEW f, NEW S, IsFiniteSet(S)
  PROVE  SumFunctionOnSet(f, S) = IF S = {} THEN 0
           ELSE f[Some(S)] + SumFunctionOnSet(f, S \ {Some(S)})
<1> DEFINE R == S \ {Some(S)}
           g == CHOOSE h : Recursion(h, f, S)
           h == CHOOSE k : Recursion(k, f, R)
           G == {n \in Nat : \A s \in SUBSET R : Cardinality(s) <= n => g[s] = h[s]}
<1>1. Recursion(g, f, S) /\ Recursion(h, f, R)
  <2>1. IsFiniteSet(R)
    BY FS_Subset
  <2>2. QED
    BY <2>1, RecursionExists
<1>2. SumFunctionOnSet(f, S) = g[S] /\ SumFunctionOnSet(f, R) = h[R]
  BY SumIsRecursive
<1> HIDE DEF g, h
<1>3. \A s \in SUBSET S : g[s] = IF s = {} THEN 0 ELSE f[Some(s)] + g[s \ {Some(s)}]
  BY <1>1 DEF Recursion
<1>4. \A s \in SUBSET R : h[s] = IF s = {} THEN 0 ELSE f[Some(s)] + h[s \ {Some(s)}]
  BY <1>1 DEF Recursion
<1>5. \A s \in SUBSET R : /\ IsFiniteSet(s) /\ Cardinality(s) \in Nat
                          /\ Cardinality(s) = 0 <=> s = {}
  BY FS_Subset, FS_CardinalityType, FS_EmptySet
<1>6. 0 \in G
  BY <1>3, <1>4, <1>5
<1>7. ASSUME NEW n \in Nat, n \in G PROVE n + 1 \in G
  <2>1. ASSUME NEW s \in SUBSET R, Cardinality(s) <= n + 1, s # {} PROVE g[s] = h[s]
    <3>1. Some(s) \in s /\ s \ {Some(s)} \in SUBSET R
      BY <2>1, SomeIn
    <3>2. Cardinality(s \ {Some(s)}) = Cardinality(s) - 1
      BY <1>5, <3>1, FS_RemoveElement
    <3>3. g[s \ {Some(s)}] = h[s \ {Some(s)}]
      BY <1>5, <1>7, <2>1, <3>1, <3>2
    <3>4. QED
      BY <1>3, <1>4, <2>1, <3>3
  <2>2. g[{}] = h[{}]
    BY <1>3, <1>4
  <2>3. QED
    BY <2>1, <2>2
<1>8. R \in SUBSET R /\ Cardinality(R) \in Nat
  BY <1>5
<1>9. g[R] = h[R]
  <2> HIDE DEF G, R
  <2>1. Nat \subseteq G
    BY <1>6, <1>7, CountInduction
  <2>2. QED
    BY <1>8, <2>1 DEF G
<1>10. QED
  BY <1>2, <1>3, <1>9

LEMMA SumEmpty == ASSUME NEW f PROVE SumFunctionOnSet(f, {}) = 0
<1>1. IsFiniteSet({})
  BY FS_EmptySet
<1>2. QED
  BY <1>1, SumStep

(* The order of the elements does not matter.                              *)
LEMMA SumRemove ==
  ASSUME NEW S, IsFiniteSet(S), NEW f, \A x \in S : f[x] \in Int
  PROVE  /\ SumFunctionOnSet(f, S) \in Int
         /\ \A x \in S : SumFunctionOnSet(f, S) = f[x] + SumFunctionOnSet(f, S \ {x})
<1> DEFINE Holds(s) == /\ SumFunctionOnSet(f, s) \in Int
                       /\ \A x \in s : SumFunctionOnSet(f, s)
                                         = f[x] + SumFunctionOnSet(f, s \ {x})
           G == {n \in Nat : \A s \in SUBSET S : Cardinality(s) <= n => Holds(s)}
<1>1. \A s \in SUBSET S : /\ IsFiniteSet(s) /\ Cardinality(s) \in Nat
                          /\ Cardinality(s) = 0 <=> s = {}
  BY FS_Subset, FS_CardinalityType, FS_EmptySet
<1>2. 0 \in G
  BY <1>1, SumEmpty
<1>3. ASSUME NEW n \in Nat, n \in G PROVE n + 1 \in G
  <2>1. ASSUME NEW s \in SUBSET S, Cardinality(s) <= n + 1, s # {} PROVE Holds(s)
    <3> DEFINE c == Some(s)
    <3>1. c \in s /\ \A x \in s : Cardinality(s \ {x}) = Cardinality(s) - 1
      BY <1>1, <2>1, SomeIn, FS_RemoveElement
    <3>2. SumFunctionOnSet(f, s) = f[c] + SumFunctionOnSet(f, s \ {c})
      BY <1>1, <2>1, SumStep
    <3> HIDE DEF c
    <3>3. \A x \in s : Holds(s \ {x})
      BY <1>1, <1>3, <2>1, <3>1
    <3>4. SumFunctionOnSet(f, s) \in Int
      BY <3>1, <3>2, <3>3
    <3>5. ASSUME NEW x \in s, x # c
          PROVE  SumFunctionOnSet(f, s) = f[x] + SumFunctionOnSet(f, s \ {x})
      <4>1. (s \ {c}) \ {x} = (s \ {x}) \ {c}
        OBVIOUS
      <4>2. SumFunctionOnSet(f, s \ {c}) = f[x] + SumFunctionOnSet(f, (s \ {c}) \ {x})
        BY <3>1, <3>3, <3>5
      <4>3. SumFunctionOnSet(f, s \ {x}) = f[c] + SumFunctionOnSet(f, (s \ {x}) \ {c})
        BY <3>1, <3>3, <3>5
      <4>4. f[x] \in Int /\ f[c] \in Int
        BY <3>1
      <4>5. SumFunctionOnSet(f, (s \ {c}) \ {x}) \in Int
        <5>1. Holds((s \ {c}) \ {x})
          <6>1. Cardinality((s \ {c}) \ {x}) = Cardinality(s \ {c}) - 1
            BY <1>1, <3>1, <3>5, FS_RemoveElement
          <6>2. Cardinality((s \ {c}) \ {x}) <= n
            BY <1>1, <2>1, <3>1, <6>1
          <6> HIDE DEF Holds
          <6>3. \A t \in SUBSET S : Cardinality(t) <= n => Holds(t)
            BY <1>3
          <6>4. (s \ {c}) \ {x} \in SUBSET S
            OBVIOUS
          <6>5. QED
            BY <6>2, <6>3, <6>4, Zenon
        <5>2. QED
          BY <5>1
      <4> DEFINE rest == SumFunctionOnSet(f, (s \ {c}) \ {x})
      <4>6. /\ SumFunctionOnSet(f, s) = f[c] + (f[x] + rest)
            /\ SumFunctionOnSet(f, s \ {x}) = f[c] + rest
        BY <3>2, <4>1, <4>2, <4>3, Zenon
      <4> HIDE DEF rest
      <4>7. rest \in Int
        BY <4>5 DEF rest
      <4>8. QED
        BY <4>4, <4>6, <4>7
    <3>6. QED
      BY <3>2, <3>4, <3>5
  <2>2. Holds({})
    BY SumEmpty
  <2>3. QED
    BY <2>1, <2>2
<1>4. S \in SUBSET S /\ Cardinality(S) \in Nat
  BY <1>1
<1>5. Holds(S)
  <2>1. Nat \subseteq G
    <3> HIDE DEF G
    <3>1. QED
      BY <1>2, <1>3, CountInduction
  <2>2. QED
    BY <1>4, <2>1
<1>6. QED
  BY <1>5

(* The elements may be added one by one.                                   *)
LEMMA SumAdd ==
  ASSUME NEW S, IsFiniteSet(S), NEW x, x \notin S, NEW f, \A y \in S \cup {x} : f[y] \in Int
  PROVE  SumFunctionOnSet(f, S \cup {x}) = f[x] + SumFunctionOnSet(f, S)
<1>1. IsFiniteSet(S \cup {x}) /\ (S \cup {x}) \ {x} = S
  BY FS_AddElement
<1>2. QED
  BY <1>1, SumRemove

LEMMA SumAgree ==
  ASSUME NEW S, IsFiniteSet(S), NEW f, NEW g, \A x \in S : f[x] \in Int /\ g[x] = f[x]
  PROVE  SumFunctionOnSet(g, S) = SumFunctionOnSet(f, S)
<1> DEFINE G == {T \in SUBSET S : SumFunctionOnSet(g, T) = SumFunctionOnSet(f, T)}
<1>1. {} \in G
  BY SumEmpty
<1>2. ASSUME NEW T \in SUBSET S, NEW x \in S \ T, T \in G PROVE T \cup {x} \in G
  <2>1. IsFiniteSet(T)
    BY FS_Subset
  <2>2. /\ SumFunctionOnSet(f, T \cup {x}) = f[x] + SumFunctionOnSet(f, T)
        /\ SumFunctionOnSet(g, T \cup {x}) = g[x] + SumFunctionOnSet(g, T)
    BY <2>1, SumAdd
  <2>3. QED
    BY <1>2, <2>2
<1>3. S \in G
  <2> HIDE DEF G
  <2> QED
    BY <1>1, <1>2, SubsetInduction
<1>4. QED
  BY <1>3

LEMMA SumPlus ==
  ASSUME NEW S, IsFiniteSet(S), NEW f, NEW g, NEW h,
         \A x \in S : f[x] \in Int /\ g[x] \in Int /\ h[x] = f[x] + g[x]
  PROVE  SumFunctionOnSet(h, S) = SumFunctionOnSet(f, S) + SumFunctionOnSet(g, S)
<1> DEFINE G == {T \in SUBSET S :
                   SumFunctionOnSet(h, T) = SumFunctionOnSet(f, T) + SumFunctionOnSet(g, T)}
<1>0. \A y \in S : h[y] \in Int
  OBVIOUS
<1>1. {} \in G
  BY SumEmpty
<1>2. ASSUME NEW T \in SUBSET S, NEW x \in S \ T, T \in G PROVE T \cup {x} \in G
  <2>0. \A y \in T \cup {x} : h[y] \in Int
    BY <1>0
  <2>1. IsFiniteSet(T)
    BY FS_Subset
  <2>2. /\ SumFunctionOnSet(f, T \cup {x}) = f[x] + SumFunctionOnSet(f, T)
        /\ SumFunctionOnSet(g, T \cup {x}) = g[x] + SumFunctionOnSet(g, T)
        /\ SumFunctionOnSet(h, T \cup {x}) = h[x] + SumFunctionOnSet(h, T)
    BY <2>0, <2>1, SumAdd
  <2>3. SumFunctionOnSet(f, T) \in Int /\ SumFunctionOnSet(g, T) \in Int
    BY <2>1, SumRemove
  <2>4. QED
    BY <1>2, <2>2, <2>3
<1>3. S \in G
  <2> HIDE DEF G
  <2> QED
    BY <1>1, <1>2, SubsetInduction
<1>4. QED
  BY <1>3

LEMMA Distributes ==
  ASSUME NEW a \in Int, NEW b \in Int, NEW c \in Int
  PROVE  c * (a + b) = c * a + c * b
OBVIOUS

LEMMA SumTimes ==
  ASSUME NEW S, IsFiniteSet(S), NEW c \in Int, NEW f, NEW h,
         \A x \in S : f[x] \in Int /\ h[x] = c * f[x]
  PROVE  SumFunctionOnSet(h, S) = c * SumFunctionOnSet(f, S)
<1> DEFINE G == {T \in SUBSET S : SumFunctionOnSet(h, T) = c * SumFunctionOnSet(f, T)}
<1>0. \A y \in S : h[y] \in Int
  OBVIOUS
<1>1. {} \in G
  BY SumEmpty
<1>2. ASSUME NEW T \in SUBSET S, NEW x \in S \ T, T \in G PROVE T \cup {x} \in G
  <2>0. \A y \in T \cup {x} : h[y] \in Int
    BY <1>0
  <2>1. IsFiniteSet(T)
    BY FS_Subset
  <2>2. /\ SumFunctionOnSet(f, T \cup {x}) = f[x] + SumFunctionOnSet(f, T)
        /\ SumFunctionOnSet(h, T \cup {x}) = h[x] + SumFunctionOnSet(h, T)
    BY <2>0, <2>1, SumAdd
  <2>3. SumFunctionOnSet(f, T) \in Int
    BY <2>1, SumRemove
  <2>4. c * (f[x] + SumFunctionOnSet(f, T)) = c * f[x] + c * SumFunctionOnSet(f, T)
    BY <2>3, Distributes
  <2>5. QED
    BY <1>2, <2>2, <2>4
<1>3. S \in G
  <2> HIDE DEF G
  <2> QED
    BY <1>1, <1>2, SubsetInduction
<1>4. QED
  BY <1>3

LEMMA SumLess ==
  ASSUME NEW S, IsFiniteSet(S), NEW f, NEW g,
         \A x \in S : f[x] \in Int /\ g[x] \in Int /\ f[x] <= g[x]
  PROVE  /\ SumFunctionOnSet(f, S) <= SumFunctionOnSet(g, S)
         /\ (\A x \in S : f[x] < g[x]) /\ S # {}
              => SumFunctionOnSet(f, S) < SumFunctionOnSet(g, S)
<1> DEFINE Strict(T) == (\A x \in S : f[x] < g[x]) /\ T # {}
           G == {T \in SUBSET S :
                   /\ SumFunctionOnSet(f, T) <= SumFunctionOnSet(g, T)
                   /\ Strict(T) => SumFunctionOnSet(f, T) < SumFunctionOnSet(g, T)}
<1>1. {} \in G
  BY SumEmpty
<1>2. ASSUME NEW T \in SUBSET S, NEW x \in S \ T, T \in G PROVE T \cup {x} \in G
  <2>1. IsFiniteSet(T)
    BY FS_Subset
  <2>2. /\ SumFunctionOnSet(f, T \cup {x}) = f[x] + SumFunctionOnSet(f, T)
        /\ SumFunctionOnSet(g, T \cup {x}) = g[x] + SumFunctionOnSet(g, T)
    BY <2>1, SumAdd
  <2>3. SumFunctionOnSet(f, T) \in Int /\ SumFunctionOnSet(g, T) \in Int
    BY <2>1, SumRemove
  <2>4. QED
    BY <1>2, <2>2, <2>3
<1>3. S \in G
  <2> HIDE DEF G
  <2> QED
    BY <1>1, <1>2, SubsetInduction
<1>4. QED
  BY <1>3

LEMMA SumOfSame ==
  ASSUME NEW S, IsFiniteSet(S), NEW c \in Int, NEW f, \A x \in S : f[x] = c
  PROVE  SumFunctionOnSet(f, S) = c * Cardinality(S)
<1> DEFINE G == {T \in SUBSET S : SumFunctionOnSet(f, T) = c * Cardinality(T)}
<1>0. \A y \in S : f[y] \in Int
  OBVIOUS
<1>1. {} \in G
  BY SumEmpty, FS_EmptySet
<1>2. ASSUME NEW T \in SUBSET S, NEW x \in S \ T, T \in G PROVE T \cup {x} \in G
  <2>0. \A y \in T \cup {x} : f[y] \in Int
    BY <1>0
  <2>1. IsFiniteSet(T) /\ Cardinality(T) \in Int
    BY FS_Subset, FS_CardinalityType
  <2>2. SumFunctionOnSet(f, T \cup {x}) = c + SumFunctionOnSet(f, T)
    BY <2>0, <2>1, SumAdd
  <2>3. Cardinality(T \cup {x}) = Cardinality(T) + 1
    BY <2>1, FS_AddElement
  <2>4. c * (Cardinality(T) + 1) = c * Cardinality(T) + c * 1
    BY <2>1, Distributes
  <2>5. c * Cardinality(T) \in Int
    BY <2>1
  <2>6. QED
    BY <1>2, <2>2, <2>3, <2>4, <2>5
<1>3. S \in G
  <2> HIDE DEF G
  <2> QED
    BY <1>1, <1>2, SubsetInduction
<1>4. QED
  BY <1>3

(* The classes of a set make up its sum, a class without elements too.     *)
LEMMA SumByClass ==
  ASSUME NEW S, IsFiniteSet(S), NEW D, IsFiniteSet(D), NEW class, \A x \in S : class[x] \in D,
         NEW f, \A x \in S : f[x] \in Int
  PROVE  SumFunctionOnSet([d \in D |-> SumFunctionOnSet(f, {x \in S : class[x] = d})], D)
           = SumFunctionOnSet(f, S)
<1> DEFINE In(T, d) == {x \in T : class[x] = d}
           Of(T) == [d \in D |-> SumFunctionOnSet(f, In(T, d))]
           G == {T \in SUBSET S : SumFunctionOnSet(Of(T), D) = SumFunctionOnSet(f, T)}
<1>1. ASSUME NEW T \in SUBSET S, NEW d \in D
      PROVE  IsFiniteSet(In(T, d)) /\ Of(T)[d] \in Int
  <2>1. In(T, d) \in SUBSET S /\ IsFiniteSet(In(T, d))
    BY FS_Subset
  <2> HIDE DEF In
  <2>2. QED
    BY <2>1, SumRemove
<1>2. {} \in G
  <2>1. \A d \in D : Of({})[d] = 0
    <3>1. \A d \in D : In({}, d) = {}
      OBVIOUS
    <3>2. QED
      BY <3>1, SumEmpty
  <2>2. SumFunctionOnSet(Of({}), D) = 0 * Cardinality(D)
    <3> HIDE DEF Of
    <3> QED
      BY <2>1, SumOfSame
  <2>3. Cardinality(D) \in Nat
    BY FS_CardinalityType
  <2>4. QED
    BY <2>2, <2>3, SumEmpty
<1>3. ASSUME NEW T \in SUBSET S, NEW x \in S \ T, T \in G PROVE T \cup {x} \in G
  <2> DEFINE c == class[x]
             U == T \cup {x}
  <2>1. IsFiniteSet(T) /\ c \in D /\ U \in SUBSET S
    BY FS_Subset
  <2>2. \A d \in D \ {c} : Of(U)[d] = Of(T)[d]
    <3>1. \A d \in D \ {c} : In(U, d) = In(T, d)
      OBVIOUS
    <3>2. QED
      BY <3>1
  <2>3. Of(U)[c] = f[x] + Of(T)[c]
    <3>1. In(U, c) = In(T, c) \cup {x} /\ x \notin In(T, c)
      OBVIOUS
    <3>2. IsFiniteSet(In(T, c)) /\ \A y \in In(T, c) \cup {x} : f[y] \in Int
      BY <1>1, <2>1
    <3> HIDE DEF In, U, c
    <3>3. SumFunctionOnSet(f, In(U, c)) = f[x] + SumFunctionOnSet(f, In(T, c))
      BY <3>1, <3>2, SumAdd
    <3>4. QED
      BY <2>1, <3>3
  <2> HIDE DEF Of, c
  <2>4. \A d \in D : Of(T)[d] \in Int /\ Of(U)[d] \in Int
    BY <1>1, <2>1
  <2>5. /\ SumFunctionOnSet(Of(T), D) = Of(T)[c] + SumFunctionOnSet(Of(T), D \ {c})
        /\ SumFunctionOnSet(Of(U), D) = Of(U)[c] + SumFunctionOnSet(Of(U), D \ {c})
    <3> HIDE DEF U
    <3> QED
      BY <2>1, <2>4, SumRemove
  <2>6. /\ SumFunctionOnSet(Of(U), D \ {c}) = SumFunctionOnSet(Of(T), D \ {c})
        /\ SumFunctionOnSet(Of(T), D \ {c}) \in Int
    <3>1. IsFiniteSet(D \ {c})
      BY FS_Subset
    <3> HIDE DEF U
    <3>2. QED
      BY <2>2, <2>4, <3>1, SumAgree, SumRemove
  <2>7. SumFunctionOnSet(f, U) = f[x] + SumFunctionOnSet(f, T) /\ f[x] \in Int
    BY <2>1, SumAdd
  <2>8. SumFunctionOnSet(Of(T), D) = SumFunctionOnSet(f, T)
    BY <1>3
  <2>9. SumFunctionOnSet(Of(U), D) = SumFunctionOnSet(f, U)
    <3> HIDE DEF U
    <3> QED
      BY <2>1, <2>3, <2>4, <2>5, <2>6, <2>7, <2>8
  <2>10. QED
    BY <2>1, <2>9
<1>4. S \in G
  <2> HIDE DEF G
  <2> QED
    BY <1>2, <1>3, SubsetInduction
<1>5. QED
  BY <1>4

LEMMA SumUnion ==
  ASSUME NEW S, IsFiniteSet(S), NEW A \in SUBSET S, NEW f, \A x \in S : f[x] \in Int
  PROVE  SumFunctionOnSet(f, S) = SumFunctionOnSet(f, A) + SumFunctionOnSet(f, S \ A)
<1> DEFINE G == {T \in SUBSET (S \ A) :
                   SumFunctionOnSet(f, A \cup T) = SumFunctionOnSet(f, A) + SumFunctionOnSet(f, T)}
<1>1. IsFiniteSet(S \ A) /\ IsFiniteSet(A)
  BY FS_Subset
<1>2. {} \in G
  <2>1. A \cup {} = A /\ SumFunctionOnSet(f, A) \in Int
    BY <1>1, SumRemove
  <2>2. QED
    BY <2>1, SumEmpty
<1>3. ASSUME NEW T \in SUBSET (S \ A), NEW x \in (S \ A) \ T, T \in G PROVE T \cup {x} \in G
  <2>1. IsFiniteSet(T) /\ IsFiniteSet(A \cup T) /\ x \notin A \cup T
    BY <1>1, FS_Subset
  <2>2. A \cup (T \cup {x}) = (A \cup T) \cup {x}
    OBVIOUS
  <2>3. SumFunctionOnSet(f, (A \cup T) \cup {x}) = f[x] + SumFunctionOnSet(f, A \cup T)
    BY <2>1, SumAdd
  <2>4. SumFunctionOnSet(f, T \cup {x}) = f[x] + SumFunctionOnSet(f, T)
    BY <2>1, SumAdd
  <2>5. SumFunctionOnSet(f, A) \in Int /\ SumFunctionOnSet(f, T) \in Int
    BY <1>1, <2>1, SumRemove
  <2>6. SumFunctionOnSet(f, A \cup T) = SumFunctionOnSet(f, A) + SumFunctionOnSet(f, T)
    BY <1>3
  <2>7. SumFunctionOnSet(f, (A \cup T) \cup {x})
          = SumFunctionOnSet(f, A) + SumFunctionOnSet(f, T \cup {x})
    BY <2>3, <2>4, <2>5, <2>6
  <2>8. SumFunctionOnSet(f, A \cup (T \cup {x}))
          = SumFunctionOnSet(f, A) + SumFunctionOnSet(f, T \cup {x})
    BY <2>2, <2>7
  <2>9. T \cup {x} \in SUBSET (S \ A)
    OBVIOUS
  <2>10. QED
    BY <2>8, <2>9
<1>4. S \ A \in G
  <2> HIDE DEF G
  <2> QED
    BY <1>1, <1>2, <1>3, SubsetInduction
<1>5. A \cup (S \ A) = S
  OBVIOUS
<1>6. QED
  BY <1>4, <1>5

(* As many elements that are no less each have a sum that is no less.      *)
LEMMA SumOfGreater ==
  ASSUME NEW A, IsFiniteSet(A), NEW B, IsFiniteSet(B), Cardinality(A) = Cardinality(B), NEW f,
         \A x \in A, y \in B : f[x] \in Int /\ f[y] \in Int /\ f[x] <= f[y]
  PROVE  SumFunctionOnSet(f, A) <= SumFunctionOnSet(f, B)
<1> DEFINE G == {T \in SUBSET A : \A U \in SUBSET B : Cardinality(T) = Cardinality(U)
                   => SumFunctionOnSet(f, T) <= SumFunctionOnSet(f, U)}
<1>1. {} \in G
  <2>1. \A U \in SUBSET B : Cardinality({}) = Cardinality(U) => U = {}
    BY FS_Subset, FS_EmptySet
  <2>2. QED
    BY <2>1, SumEmpty
<1>2. ASSUME NEW T \in SUBSET A, NEW x \in A \ T, T \in G PROVE T \cup {x} \in G
  <2>1. ASSUME NEW U \in SUBSET B, Cardinality(T \cup {x}) = Cardinality(U)
        PROVE  SumFunctionOnSet(f, T \cup {x}) <= SumFunctionOnSet(f, U)
    <3>1. IsFiniteSet(T) /\ IsFiniteSet(U) /\ Cardinality(T) \in Nat
      BY FS_Subset, FS_CardinalityType
    <3>2. Cardinality(U) = Cardinality(T) + 1
      BY <2>1, <3>1, FS_AddElement
    <3>3. U # {}
      BY <3>1, <3>2, FS_EmptySet
    <3>4. PICK y \in U : TRUE
      BY <3>3
    <3>5. IsFiniteSet(U \ {y}) /\ Cardinality(U \ {y}) = Cardinality(T)
      <4>1. IsFiniteSet(U \ {y}) /\ Cardinality(U \ {y}) = Cardinality(U) - 1
        BY <3>1, FS_RemoveElement
      <4>2. QED
        BY <3>1, <3>2, <4>1
    <3>6. SumFunctionOnSet(f, T) <= SumFunctionOnSet(f, U \ {y})
      BY <1>2, <3>5
    <3>7. \A z \in A \cup B : f[z] \in Int
      BY <3>4
    <3>8. /\ SumFunctionOnSet(f, T \cup {x}) = f[x] + SumFunctionOnSet(f, T)
          /\ SumFunctionOnSet(f, U) = f[y] + SumFunctionOnSet(f, U \ {y})
      <4>1. \A z \in T \cup {x} : f[z] \in Int
        BY <3>7
      <4>2. \A z \in U : f[z] \in Int
        BY <3>7
      <4>3. QED
        BY <3>1, <4>1, <4>2, SumAdd, SumRemove
    <3>9. SumFunctionOnSet(f, T) \in Int /\ SumFunctionOnSet(f, U \ {y}) \in Int
      BY <3>1, <3>5, <3>7, SumRemove
    <3>10. f[x] \in Int /\ f[y] \in Int /\ f[x] <= f[y]
      BY <3>4
    <3>11. QED
      BY <3>6, <3>8, <3>9, <3>10
  <2>2. QED
    BY <2>1
<1>3. A \in G
  <2> HIDE DEF G
  <2> QED
    BY <1>1, <1>2, SubsetInduction
<1>4. QED
  BY <1>3

-----------------------------------------------------------------------------
(* The aggregates of the dashboard (Dashboard).                            *)

LEMMA RowsAreCounted ==
  /\ IsFiniteSet(Rows) /\ Cardinality(Rows) \in Nat
  /\ Rows \subseteq Keys
  /\ \A k \in Rows : Amount[k] \in Nat
  /\ BpsTotal \in Nat /\ BpsTotal > 0
<1>1. Rows \subseteq Keys /\ IsFiniteSet(Keys)
  BY FeedAssumption DEF Rows
<1>2. IsFiniteSet(Rows) /\ Cardinality(Rows) \in Nat
  BY <1>1, FS_Subset, FS_CardinalityType
<1>3. QED
  BY <1>1, <1>2, DashboardAssumption

LEMMA Floor ==
  ASSUME NEW a \in Nat, NEW b \in Nat, b > 0
  PROVE  /\ a \div b \in Nat
         /\ b * (a \div b) <= a
         /\ a < b * (a \div b) + b
OBVIOUS

LEMMA TimesLess ==
  ASSUME NEW a \in Nat, NEW b \in Int, NEW c \in Int
  PROVE  /\ b <= c => a * b <= a * c
         /\ a * b \in Int
OBVIOUS

LEMMA Divides ==
  ASSUME NEW a \in Nat, a > 0, NEW b \in Int, NEW c \in Int
  PROVE  /\ a * b <= a * c => b <= c
         /\ a * b < a * c => b < c
OBVIOUS

(* One share of all tips: what is cut off is less than one for each tip.   *)
LEMMA EarnedBounds ==
  ASSUME NEW bps \in Nat
  PROVE  /\ Earned(bps) \in Int /\ Sum(Rows) \in Nat
         /\ BpsTotal * Earned(bps) <= bps * Sum(Rows)
         /\ Rows # {} => bps * Sum(Rows)
                           < BpsTotal * Earned(bps) + BpsTotal * Cardinality(Rows)
         /\ bps = BpsTotal => Earned(bps) = Sum(Rows)
<1> DEFINE parts == [k \in Rows |-> (Amount[k] * bps) \div BpsTotal]
           whole == [k \in Rows |-> bps * Amount[k]]
           floors == [k \in Rows |-> BpsTotal * parts[k]]
           unit == [k \in Rows |-> BpsTotal]
           ceilings == [k \in Rows |-> floors[k] + BpsTotal]
<1> USE RowsAreCounted
<1>1. \A k \in Rows : /\ parts[k] \in Nat /\ whole[k] \in Nat /\ floors[k] \in Nat
                      /\ floors[k] <= whole[k] /\ whole[k] < floors[k] + BpsTotal
  <2>1. ASSUME NEW k \in Rows
        PROVE  /\ (Amount[k] * bps) \div BpsTotal \in Nat
               /\ BpsTotal * ((Amount[k] * bps) \div BpsTotal) <= Amount[k] * bps
               /\ Amount[k] * bps < BpsTotal * ((Amount[k] * bps) \div BpsTotal) + BpsTotal
    <3>1. Amount[k] * bps \in Nat
      OBVIOUS
    <3>2. QED
      BY <3>1, Floor
  <2>2. \A k \in Rows : Amount[k] * bps = bps * Amount[k] /\ bps * Amount[k] \in Nat
    OBVIOUS
  <2>3. \A k \in Rows : BpsTotal * ((Amount[k] * bps) \div BpsTotal) \in Nat
    BY <2>1
  <2>4. QED
    BY <2>1, <2>2, <2>3
<1>2. Earned(bps) = SumFunctionOnSet(parts, Rows) /\ Sum(Rows) = SumFunctionOnSet(Amount, Rows)
  BY DEF Earned, SumFunction, Sum
<1>3. \A k \in Rows : /\ floors[k] = BpsTotal * parts[k] /\ whole[k] = bps * Amount[k]
                      /\ unit[k] = BpsTotal /\ ceilings[k] = floors[k] + unit[k]
  OBVIOUS
<1>4. bps = BpsTotal => \A k \in Rows : parts[k] = Amount[k]
  OBVIOUS
<1> HIDE DEF parts, whole, floors, unit, ceilings
<1>5. Earned(bps) \in Int /\ Sum(Rows) \in Int
  BY <1>1, <1>2, SumRemove
<1>6. Sum(Rows) >= 0
  <2> DEFINE none == [k \in Rows |-> 0]
  <2>1. \A k \in Rows : none[k] = 0
    OBVIOUS
  <2> HIDE DEF none
  <2>2. SumFunctionOnSet(none, Rows) = 0 * Cardinality(Rows)
    BY <2>1, SumOfSame
  <2>3. SumFunctionOnSet(none, Rows) <= SumFunctionOnSet(Amount, Rows)
    BY <2>1, SumLess
  <2>4. QED
    BY <1>2, <1>5, <2>2, <2>3
<1>7. /\ SumFunctionOnSet(floors, Rows) = BpsTotal * Earned(bps)
      /\ SumFunctionOnSet(whole, Rows) = bps * Sum(Rows)
  BY <1>1, <1>2, <1>3, SumTimes
<1>8. SumFunctionOnSet(unit, Rows) = BpsTotal * Cardinality(Rows)
  <2>1. \A k \in Rows : unit[k] = BpsTotal
    BY <1>3
  <2>2. QED
    BY <2>1, SumOfSame
<1>9. SumFunctionOnSet(ceilings, Rows) = BpsTotal * Earned(bps) + BpsTotal * Cardinality(Rows)
  <2>1. \A k \in Rows : /\ floors[k] \in Int /\ unit[k] \in Int
                        /\ ceilings[k] = floors[k] + unit[k]
    BY <1>1, <1>3
  <2>2. SumFunctionOnSet(ceilings, Rows)
          = SumFunctionOnSet(floors, Rows) + SumFunctionOnSet(unit, Rows)
    BY <2>1, SumPlus
  <2>3. QED
    BY <1>7, <1>8, <2>2
<1>10. SumFunctionOnSet(floors, Rows) <= SumFunctionOnSet(whole, Rows)
  BY <1>1, SumLess
<1>11. Rows # {} => SumFunctionOnSet(whole, Rows) < SumFunctionOnSet(ceilings, Rows)
  <2>1. \A k \in Rows : whole[k] \in Int /\ ceilings[k] \in Int /\ whole[k] < ceilings[k]
    BY <1>1, <1>3
  <2>2. \A k \in Rows : whole[k] <= ceilings[k]
    BY <2>1
  <2>3. QED
    BY <2>1, <2>2, SumLess
<1>12. bps = BpsTotal => Earned(bps) = Sum(Rows)
  BY <1>2, <1>4, SumAgree
<1>13. QED
  BY <1>5, <1>6, <1>7, <1>9, <1>10, <1>11, <1>12

(* Any shares of at most the whole.                                        *)
LEMMA SharesBounds ==
  ASSUME NEW R, IsFiniteSet(R), NEW splits \in [R -> 1 .. BpsTotal]
  PROVE  LET earned == SumFunction([r \in R |-> Earned(splits[r])])
         IN  /\ earned \in Int
             /\ Allotted(splits) <= BpsTotal => earned <= Sum(Rows)
             /\ Allotted(splits) = BpsTotal /\ Rows # {}
                  => Sum(Rows) - earned < Cardinality(Rows) * Cardinality(R)
<1> DEFINE each == [r \in R |-> Earned(splits[r])]
           earned == SumFunctionOnSet(each, R)
           total == Sum(Rows)
           n == Cardinality(Rows)
           scaled == [r \in R |-> BpsTotal * each[r]]
           due == [r \in R |-> total * splits[r]]
           dust == [r \in R |-> BpsTotal * n]
           most == [r \in R |-> scaled[r] + dust[r]]
<1> USE RowsAreCounted
<1>1. \A r \in R : splits[r] \in Nat
  OBVIOUS
<1>2. n \in Nat /\ total \in Nat /\ BpsTotal * n \in Nat
  BY EarnedBounds, 0 \in Nat
<1>3. ASSUME NEW r \in R
      PROVE  /\ each[r] \in Int
             /\ scaled[r] = BpsTotal * each[r] /\ due[r] = total * splits[r]
             /\ dust[r] = BpsTotal * n /\ most[r] = scaled[r] + dust[r]
             /\ scaled[r] <= due[r]
             /\ Rows # {} => due[r] < most[r]
  <2>1. each[r] = Earned(splits[r]) /\ splits[r] * total = total * splits[r]
    BY <1>1, <1>2
  <2>2. QED
    BY <1>1, <1>2, <2>1, EarnedBounds
<1>4. \A r \in R : scaled[r] \in Int /\ due[r] \in Int /\ dust[r] \in Int /\ most[r] \in Int
  <2>1. \A r \in R : BpsTotal * each[r] \in Int /\ total * splits[r] \in Int
    BY <1>1, <1>2, <1>3, TimesLess
  <2>2. QED
    BY <1>2, <1>3, <2>1
<1>5. SumFunction([r \in R |-> Earned(splits[r])]) = earned
      /\ Allotted(splits) = SumFunctionOnSet(splits, R)
  BY DEF SumFunction, Allotted
<1> HIDE DEF each, total, n, scaled, due, dust, most
<1>6. earned \in Int /\ SumFunctionOnSet(splits, R) \in Int
  BY <1>1, <1>3, SumRemove
<1>7. /\ SumFunctionOnSet(scaled, R) = BpsTotal * earned
      /\ SumFunctionOnSet(due, R) = total * Allotted(splits)
  BY <1>1, <1>2, <1>3, <1>5, SumTimes
<1>8. SumFunctionOnSet(dust, R) = (BpsTotal * n) * Cardinality(R)
  BY <1>2, <1>3, SumOfSame
<1>9. SumFunctionOnSet(most, R) = BpsTotal * earned + (BpsTotal * n) * Cardinality(R)
  <2>1. \A r \in R : /\ scaled[r] \in Int /\ dust[r] \in Int
                     /\ most[r] = scaled[r] + dust[r]
    BY <1>3, <1>4
  <2>2. SumFunctionOnSet(most, R) = SumFunctionOnSet(scaled, R) + SumFunctionOnSet(dust, R)
    BY <2>1, SumPlus
  <2>3. QED
    BY <1>7, <1>8, <2>2
<1>10. BpsTotal * earned <= total * Allotted(splits)
  BY <1>3, <1>4, <1>7, SumLess
<1>11. Allotted(splits) <= BpsTotal => earned <= total
  <2>1. Allotted(splits) <= BpsTotal => total * Allotted(splits) <= total * BpsTotal
    BY <1>2, <1>5, <1>6, TimesLess
  <2>2. total * BpsTotal = BpsTotal * total
    BY <1>2
  <2>3. Allotted(splits) <= BpsTotal => BpsTotal * earned <= BpsTotal * total
    BY <1>2, <1>5, <1>6, <1>10, <2>1, <2>2, TimesLess
  <2>4. QED
    BY <1>2, <1>6, <2>3, Divides
<1>12. ASSUME Allotted(splits) = BpsTotal, Rows # {}
       PROVE  total - earned < n * Cardinality(R)
  <2>1. R # {}
    <3>1. SUFFICES ASSUME R = {} PROVE FALSE
      OBVIOUS
    <3>2. SumFunctionOnSet(splits, R) = 0
      BY <3>1, SumEmpty
    <3>3. BpsTotal = 0
      BY <1>5, <1>12, <3>2, Zenon
    <3>4. QED
      BY <3>3
  <2>2. \A r \in R : due[r] < most[r] /\ due[r] <= most[r]
    BY <1>3, <1>4, <1>12
  <2>3. SumFunctionOnSet(due, R) < SumFunctionOnSet(most, R)
    BY <1>4, <2>1, <2>2, SumLess
  <2>4. total * BpsTotal < BpsTotal * earned + (BpsTotal * n) * Cardinality(R)
    BY <1>7, <1>9, <1>12, <2>3
  <2>5. Cardinality(R) \in Nat /\ n * Cardinality(R) \in Nat
    BY <1>2, FS_CardinalityType
  <2>6. /\ total * BpsTotal = BpsTotal * total
        /\ (BpsTotal * n) * Cardinality(R) = BpsTotal * (n * Cardinality(R))
        /\ BpsTotal * (earned + n * Cardinality(R))
             = BpsTotal * earned + BpsTotal * (n * Cardinality(R))
    BY <1>2, <1>6, <2>5, Distributes
  <2>7. BpsTotal * total < BpsTotal * (earned + n * Cardinality(R))
    BY <2>4, <2>6
  <2>8. total < earned + n * Cardinality(R)
    BY <1>2, <1>6, <2>5, <2>7, Divides
  <2>9. QED
    BY <1>2, <1>6, <2>5, <2>8
<1>13. QED
  BY <1>5, <1>6, <1>11, <1>12 DEF total, n

LEMMA BreakdownHolds == BreakdownSound
<1> SUFFICES ASSUME NEW stored \in CreatorSplits
             PROVE  LET left == GetCollaboratorEarnings(stored).unallocatedRaw
                    IN  /\ left >= 0
                        /\ Allotted(stored) = BpsTotal /\ Rows # {}
                             => left < Cardinality(Rows) * Cardinality(DOMAIN stored)
                        /\ DOMAIN stored = {} => left = 0
  BY DEF BreakdownSound
<1> DEFINE R == DOMAIN stored
           left == GetCollaboratorEarnings(stored).unallocatedRaw
<1>1. PICK to \in SUBSET Recipients : stored \in [to -> 1 .. BpsTotal]
  BY DEF CreatorSplits
<1>2. R = to /\ IsFiniteSet(R) /\ stored \in [R -> 1 .. BpsTotal] /\ Allotted(stored) <= BpsTotal
  BY <1>1, DashboardAssumption, FS_Subset DEF CreatorSplits
<1>3. Sum(Rows) \in Nat
  BY RowsAreCounted, EarnedBounds
<1>4. CASE R # {}
  <2> DEFINE earned == SumFunction([r \in R |-> Earned(stored[r])])
  <2>1. left = Sum(Rows) - earned
    BY <1>4 DEF GetCollaboratorEarnings
  <2>2. /\ earned \in Int /\ earned <= Sum(Rows)
        /\ Allotted(stored) = BpsTotal /\ Rows # {}
             => Sum(Rows) - earned < Cardinality(Rows) * Cardinality(R)
    BY <1>2, SharesBounds
  <2> HIDE DEF earned, left
  <2>3. QED
    BY <1>3, <1>4, <2>1, <2>2 DEF left
<1>5. CASE R = {}
  <2> DEFINE whole == [r \in {Owner} |-> BpsTotal]
             earned == [r \in DOMAIN whole |-> Earned(whole[r])]
  <2>1. left = Sum(Rows) - SumFunction(earned)
    BY <1>5 DEF GetCollaboratorEarnings
  <2>2. SumFunction(earned) = Earned(BpsTotal)
    <3>1. DOMAIN earned = {Owner} /\ earned[Owner] = Earned(BpsTotal)
      OBVIOUS
    <3> HIDE DEF earned
    <3>2. Earned(BpsTotal) \in Int
      BY RowsAreCounted, EarnedBounds
    <3>3. IsFiniteSet({}) /\ Owner \notin {} /\ {} \cup {Owner} = {Owner}
      BY FS_EmptySet
    <3>4. SumFunctionOnSet(earned, {} \cup {Owner}) = earned[Owner] + SumFunctionOnSet(earned, {})
      BY <3>1, <3>2, <3>3, SumAdd
    <3>5. SumFunctionOnSet(earned, {Owner}) = Earned(BpsTotal)
      BY <3>1, <3>2, <3>3, <3>4, SumEmpty
    <3>6. QED
      BY <3>1, <3>5 DEF SumFunction
  <2>3. Earned(BpsTotal) = Sum(Rows)
    BY RowsAreCounted, EarnedBounds
  <2> HIDE DEF left, earned
  <2>4. left = 0
    BY <1>3, <2>1, <2>2, <2>3
  <2>5. Allotted(stored) # BpsTotal
    <3>1. SumFunctionOnSet(stored, {}) = 0 /\ BpsTotal # 0
      BY SumEmpty, RowsAreCounted
    <3>2. QED
      BY <1>5, <3>1, Zenon DEF Allotted, SumFunction
  <2>6. QED
    BY <2>4, <2>5 DEF left
<1>6. QED
  BY <1>4, <1>5

(* The points of a series are the classes of the tips of its days.         *)
LEMMA SeriesAddsUp ==
  ASSUME TypeOK, NEW days \in 1 .. Ledgers
  PROVE  LET recent == {k \in Rows : ledger[k] > Ledgers - days}
             series == GetTimeSeries(Ledgers, days)
         IN  /\ SumFunction([d \in DOMAIN series |-> series[d].tipCount]) = Cardinality(recent)
             /\ SumFunction([d \in DOMAIN series |-> series[d].amountRaw]) = Sum(recent)
<1> DEFINE recent == {k \in Rows : ledger[k] > Ledgers - days}
           start == Ledgers - (days - 1)
           D == start .. start + (days - 1)
           On(d) == {k \in recent : ledger[k] = d}
           one == [k \in Keys |-> 1]
<1>1. Ledgers \in Nat /\ start \in Int /\ D = start .. Ledgers
  BY FeedAssumption
<1>2. \A k \in Rows : k \in Keys /\ ledger[k] \in Int /\ ledger[k] <= Ledgers
  BY <1>1 DEF Rows, TypeOK, Times
<1>3. \A k \in Rows : ledger[k] >= start <=> ledger[k] > Ledgers - days
  BY <1>1, <1>2
<1>4. \A k \in recent : ledger[k] \in D
  BY <1>1, <1>2, <1>3
<1>5. IsFiniteSet(recent) /\ IsFiniteSet(D)
  <2>1. recent \in SUBSET Rows
    OBVIOUS
  <2>2. IsFiniteSet(recent)
    BY <2>1, RowsAreCounted, FS_Subset
  <2>3. IsFiniteSet(start .. Ledgers)
    BY <1>1, FS_Interval, Ledgers \in Int
  <2>4. QED
    BY <1>1, <2>2, <2>3
<1>6. \A d \in D : {k \in Rows : ledger[k] >= start /\ ledger[k] = d} = On(d)
  BY <1>3
<1>7. GetTimeSeries(Ledgers, days)
        = [d \in D |-> [tipCount |-> Cardinality(On(d)), amountRaw |-> Sum(On(d))]]
  BY <1>6 DEF GetTimeSeries, WindowStart
<1>8. \A d \in D : Cardinality(On(d)) = SumFunctionOnSet(one, On(d))
  <2>1. ASSUME NEW d \in D PROVE Cardinality(On(d)) = SumFunctionOnSet(one, On(d))
    <3>1. On(d) \in SUBSET recent /\ IsFiniteSet(On(d)) /\ \A k \in On(d) : one[k] = 1
      BY <1>2, <1>5, FS_Subset
    <3> HIDE DEF On, one
    <3>2. Cardinality(On(d)) \in Nat
      BY <3>1, FS_CardinalityType
    <3>3. QED
      BY <3>1, <3>2, SumOfSame
  <2>2. QED
    BY <2>1
<1>9. SumFunction([d \in D |-> Sum(On(d))]) = Sum(recent)
  <2>1. \A k \in recent : Amount[k] \in Int
    BY RowsAreCounted
  <2> HIDE DEF recent, D
  <2>2. SumFunctionOnSet([d \in D |-> SumFunctionOnSet(Amount, On(d))], D)
          = SumFunctionOnSet(Amount, recent)
    BY <1>4, <1>5, <2>1, SumByClass
  <2>3. QED
    BY <2>2 DEF Sum, SumFunction
<1>10. SumFunction([d \in D |-> Cardinality(On(d))]) = Cardinality(recent)
  <2>1. \A k \in recent : one[k] = 1
    BY <1>2
  <2> HIDE DEF recent, D, one
  <2>2. SumFunctionOnSet([d \in D |-> SumFunctionOnSet(one, On(d))], D)
          = SumFunctionOnSet(one, recent)
    BY <1>4, <1>5, <2>1, SumByClass
  <2>3. SumFunctionOnSet(one, recent) = Cardinality(recent)
    <3>1. SumFunctionOnSet(one, recent) = 1 * Cardinality(recent)
      BY <1>5, <2>1, SumOfSame
    <3>2. Cardinality(recent) \in Nat
      BY <1>5, FS_CardinalityType
    <3>3. QED
      BY <3>1, <3>2
  <2>4. [d \in D |-> Cardinality(On(d))] = [d \in D |-> SumFunctionOnSet(one, On(d))]
    BY <1>8
  <2> HIDE DEF On
  <2>5. QED
    BY <2>2, <2>3, <2>4 DEF SumFunction
<1> DEFINE series == GetTimeSeries(Ledgers, days)
<1>11. /\ DOMAIN series = D
       /\ \A d \in D : series[d].tipCount = Cardinality(On(d)) /\ series[d].amountRaw = Sum(On(d))
  BY <1>7
<1>12. /\ [d \in DOMAIN series |-> series[d].tipCount] = [d \in D |-> Cardinality(On(d))]
       /\ [d \in DOMAIN series |-> series[d].amountRaw] = [d \in D |-> Sum(On(d))]
  <2> HIDE DEF series, On, D
  <2> QED
    BY <1>11
<1>13. QED
  BY <1>9, <1>10, <1>12

SentBy(S) == Sum({k \in Rows : From[k] \in S})

LEMMA SupportersAreCounted ==
  /\ IsFiniteSet(Supporters) /\ Cardinality(Supporters) \in Nat
  /\ \A s \in Supporters : Sum(TipsOf(s)) \in Int
<1> DEFINE from == [k \in Rows |-> From[k]]
<1>1. from \in Surjection(Rows, Supporters)
  BY DEF Surjection, Supporters
<1>2. IsFiniteSet(Supporters)
  BY <1>1, RowsAreCounted, FS_Surjection
<1>3. ASSUME NEW s \in Supporters PROVE Sum(TipsOf(s)) \in Int
  <2>1. TipsOf(s) \in SUBSET Rows
    BY DEF TipsOf
  <2>2. IsFiniteSet(TipsOf(s)) /\ \A k \in TipsOf(s) : Amount[k] \in Int
    BY <2>1, RowsAreCounted, FS_Subset
  <2>3. QED
    BY <2>2, SumRemove DEF Sum
<1>4. QED
  BY <1>2, <1>3, FS_CardinalityType

LEMMA SentByEach ==
  ASSUME NEW S \in SUBSET Supporters
  PROVE  SentBy(S) = SumFunctionOnSet([s \in Supporters |-> Sum(TipsOf(s))], S)
<1> DEFINE T == {k \in Rows : From[k] \in S}
           each == [s \in S |-> SumFunctionOnSet(Amount, {k \in T : From[k] = s})]
           sent == [s \in Supporters |-> Sum(TipsOf(s))]
<1>1. T \in SUBSET Rows /\ \A k \in T : From[k] \in S
  OBVIOUS
<1>2. IsFiniteSet(T) /\ \A k \in T : Amount[k] \in Int
  BY <1>1, RowsAreCounted, FS_Subset
<1>3. IsFiniteSet(S)
  BY SupportersAreCounted, FS_Subset
<1>4. \A s \in S : sent[s] \in Int /\ each[s] = sent[s]
  <2>1. \A s \in S : {k \in T : From[k] = s} = TipsOf(s)
    BY DEF TipsOf
  <2>2. QED
    BY <2>1, SupportersAreCounted DEF Sum
<1>5. SumFunctionOnSet(each, S) = SumFunctionOnSet(Amount, T)
  <2> HIDE DEF T
  <2> QED
    BY <1>1, <1>2, <1>3, SumByClass
<1> HIDE DEF each, sent
<1>6. SumFunctionOnSet(each, S) = SumFunctionOnSet(sent, S)
  BY <1>3, <1>4, SumAgree
<1>7. QED
  BY <1>5, <1>6 DEF SentBy, Sum, sent

(* As many others have sent no more than those at the top.                 *)
LEMMA TopSendsMost ==
  ASSUME NEW n \in 1 .. Cardinality(Supporters), NEW top \in GetTopSupporters(n),
         NEW S \in SUBSET Supporters, Cardinality(S) = n
  PROVE  SentBy(S) <= SentBy(top)
<1> DEFINE sent == [s \in Supporters |-> Sum(TipsOf(s))]
           both == S \cap top
<1> USE SupportersAreCounted
<1>1. /\ top \in SUBSET Supporters /\ Cardinality(top) = n
      /\ \A s \in top, r \in Supporters \ top : sent[s] >= sent[r]
  <2>1. top \in SUBSET Supporters
    BY DEF GetTopSupporters
  <2>2. ~(Cardinality(Supporters) < n)
    OBVIOUS
  <2>3. QED
    BY <2>1, <2>2 DEF GetTopSupporters
<1>2. \A s \in Supporters : sent[s] \in Int
  OBVIOUS
<1>3. SentBy(S) = SumFunctionOnSet(sent, S) /\ SentBy(top) = SumFunctionOnSet(sent, top)
  BY <1>1, SentByEach
<1> HIDE DEF sent
<1>4. IsFiniteSet(S) /\ IsFiniteSet(top)
  BY <1>1, FS_Subset
<1>5. /\ SumFunctionOnSet(sent, S) = SumFunctionOnSet(sent, both) + SumFunctionOnSet(sent, S \ top)
      /\ SumFunctionOnSet(sent, top) = SumFunctionOnSet(sent, both) + SumFunctionOnSet(sent, top \ S)
  <2>1. S \ both = S \ top /\ top \ both = top \ S
    OBVIOUS
  <2>2. both \in SUBSET S /\ both \in SUBSET top
    OBVIOUS
  <2> HIDE DEF both
  <2>3. /\ SumFunctionOnSet(sent, S) = SumFunctionOnSet(sent, both) + SumFunctionOnSet(sent, S \ both)
        /\ SumFunctionOnSet(sent, top) = SumFunctionOnSet(sent, both) + SumFunctionOnSet(sent, top \ both)
    BY <1>1, <1>2, <1>4, <2>2, SumUnion
  <2>4. QED
    BY <2>1, <2>3
<1>6. IsFiniteSet(both) /\ IsFiniteSet(S \ top) /\ IsFiniteSet(top \ S)
  BY <1>4, FS_Subset
<1>7. Cardinality(S \ top) = Cardinality(top \ S)
  <2>1. /\ Cardinality(S \ top) = Cardinality(S) - Cardinality(S \cap top)
        /\ Cardinality(top \ S) = Cardinality(top) - Cardinality(top \cap S)
    BY <1>4, FS_Difference
  <2>2. S \cap top = top \cap S
    OBVIOUS
  <2>3. QED
    BY <1>1, <2>1, <2>2
<1>8. SumFunctionOnSet(sent, S \ top) <= SumFunctionOnSet(sent, top \ S)
  <2>1. \A r \in S \ top, s \in top \ S : sent[r] \in Int /\ sent[s] \in Int /\ sent[r] <= sent[s]
    BY <1>1, <1>2
  <2>2. QED
    BY <1>6, <1>7, <2>1, SumOfGreater
<1>9. /\ SumFunctionOnSet(sent, both) \in Int /\ SumFunctionOnSet(sent, S \ top) \in Int
      /\ SumFunctionOnSet(sent, top \ S) \in Int
  <2>1. \A s \in both \cup (S \ top) \cup (top \ S) : sent[s] \in Int
    BY <1>1, <1>2
  <2> HIDE DEF both
  <2>2. QED
    BY <1>6, <2>1, SumRemove
<1>10. QED
  BY <1>3, <1>5, <1>8, <1>9

LEMMA AllSendAll ==
  ASSUME NEW top \in GetTopSupporters(Cardinality(Supporters))
  PROVE  SentBy(top) = Sum(Rows)
<1> USE SupportersAreCounted
<1>1. top \in SUBSET Supporters /\ Cardinality(top) = Cardinality(Supporters)
  BY DEF GetTopSupporters
<1>2. Cardinality(Supporters \ top) = 0
  <2>1. Supporters \cap top = top
    BY <1>1
  <2>2. Cardinality(Supporters \ top) = Cardinality(Supporters) - Cardinality(Supporters \cap top)
    BY FS_Difference
  <2>3. QED
    BY <1>1, <2>1, <2>2
<1>3. Supporters \ top = {}
  BY <1>2, FS_Subset, FS_EmptySet
<1>4. {k \in Rows : From[k] \in top} = Rows
  BY <1>3 DEF Supporters
<1>5. QED
  BY <1>4 DEF SentBy

LEMMA PanelsHold == TypeOK => PanelsAgree
<1> SUFFICES ASSUME TypeOK PROVE PanelsAgree
  OBVIOUS
<1>1. /\ GetTotals.uniqueSupporters = Cardinality(Supporters)
      /\ GetTotals.totalAmountRaw = Sum(Rows)
  BY DEF GetTotals
<1>2. QED
  BY <1>1, SeriesAddsUp, TopSendsMost, AllSendAll DEF PanelsAgree, SentBy

(* For any tips and amounts, in whatever order they arrive, the panels of  *)
(* the dashboard add up, and no share of a jar is counted twice or lost    *)
(* but for less than a stroop for each recipient and tip                   *)
(* (analytics.service.ts, lines 64-208 and 610-713).                       *)
THEOREM AggregatesAddUp == Spec => []DashboardAddsUp
<1>1. IInv => DashboardAddsUp
  BY BreakdownHolds, PanelsHold DEF DashboardAddsUp, IInv
<1>2. QED
  BY <1>1, FeedInductive, PTL

-----------------------------------------------------------------------------
(* The cache of the profiles (ProfileCache).                               *)

ProfileInv == ProfileTypeOK /\ StaleOnlyExcused

(* There is one answer to a lookup, as nobody shares a slug.               *)
LEMMA LookupFinds ==
  ASSUME ProfileTypeOK, NEW n \in Names
  PROVE  /\ \A c \in Creators : slug[c] = n => Lookup(n) = Profile(c)
         /\ (\A c \in Creators : slug[c] # n) => Lookup(n) = NoEntry
         /\ Lookup(n) \in Entries \cup {NoEntry}
<1>1. n # "none"
  BY CacheAssumption DEF Names
<1>2. ASSUME NEW c \in Creators, slug[c] = n PROVE Lookup(n) = Profile(c)
  <2>1. \A d \in Creators : slug[d] = n => d = c
    BY <1>1, <1>2 DEF ProfileTypeOK
  <2>2. (CHOOSE d \in Creators : slug[d] = n) = c
    BY <1>2, <2>1
  <2>3. QED
    BY <1>2, <2>2 DEF Lookup
<1>3. (\A c \in Creators : slug[c] # n) => Lookup(n) = NoEntry
  BY DEF Lookup
<1>4. ASSUME NEW c \in Creators PROVE Profile(c) \in Entries
  <2>1. version[c] \in 0 .. writes /\ writes \in 0 .. MaxWrites
    BY DEF ProfileTypeOK
  <2>2. version[c] \in 0 .. MaxWrites
    BY <2>1, CacheAssumption
  <2>3. QED
    BY <2>2 DEF Profile, Entries
<1>5. Lookup(n) \in Entries \cup {NoEntry}
  BY <1>2, <1>3, <1>4
<1>6. QED
  BY <1>2, <1>3, <1>5

(* A write shows under the names that its creator had or has, and nowhere  *)
(* else.                                                                   *)
LEMMA LookupStays ==
  ASSUME ProfileTypeOK, ProfileTypeOK', NEW c \in Creators, NEW n \in Names,
         \A d \in Creators \ {c} : slug'[d] = slug[d] /\ version'[d] = version[d],
         slug[c] # n, slug'[c] # n
  PROVE  Lookup(n)' = Lookup(n)
<1>1. CASE \E d \in Creators : slug[d] = n
  <2>1. PICK d \in Creators : slug[d] = n
    BY <1>1
  <2>2. slug'[d] = n /\ version'[d] = version[d]
    BY <2>1
  <2>3. Lookup(n) = Profile(d)
    BY <2>1, LookupFinds
  <2>4. n # "none" /\ \A e \in Creators : slug'[e] = n => e = d
    BY <2>2, CacheAssumption DEF ProfileTypeOK, Names
  <2>5. (CHOOSE e \in Creators : slug'[e] = n) = d
    BY <2>2, <2>4, Zenon
  <2>6. Lookup(n)' = Profile(d)'
    BY <2>2, <2>5 DEF Lookup
  <2>7. QED
    BY <2>2, <2>3, <2>6 DEF Profile
<1>2. CASE \A d \in Creators : slug[d] # n
  BY <1>2 DEF Lookup
<1>3. QED
  BY <1>1, <1>2

LEMMA ProfileInitInv == ProfileInit => ProfileInv
<1> SUFFICES ASSUME ProfileInit PROVE ProfileInv
  OBVIOUS
<1> USE CacheAssumption DEF ProfileInit
<1>1. invalidations \in [Creators -> Seq(Names)] /\ \A c \in Creators : Len(invalidations[c]) <= 2
  OBVIOUS
<1>2. ProfileTypeOK
  BY <1>1 DEF ProfileTypeOK, Names
<1>3. StaleOnlyExcused
  BY DEF StaleOnlyExcused, Fresh
<1>4. QED
  BY <1>2, <1>3 DEF ProfileInv

(* What remains to be invalidated.                                         *)
ShortList == {s \in Seq(Names) : Len(s) <= 2}

LEMMA ShortLists ==
  /\ <<>> \in ShortList
  /\ \A m \in Names : <<m>> \in ShortList
  /\ \A m, n \in Names : <<m, n>> \in ShortList
  /\ \A s \in ShortList : s # <<>> => Head(s) \in Names /\ Tail(s) \in ShortList
<1>1. <<>> \in Seq(Names) /\ Len(<<>>) <= 2
  OBVIOUS
<1>2. ASSUME NEW m \in Names PROVE <<m>> \in Seq(Names) /\ Len(<<m>>) <= 2
  OBVIOUS
<1>3. ASSUME NEW m \in Names, NEW n \in Names
      PROVE  <<m, n>> \in Seq(Names) /\ Len(<<m, n>>) <= 2
  OBVIOUS
<1>4. ASSUME NEW s \in Seq(Names), Len(s) <= 2, s # <<>>
      PROVE  Head(s) \in Names /\ Tail(s) \in Seq(Names) /\ Len(Tail(s)) <= 2
  <2>1. Head(s) \in Names /\ Tail(s) \in Seq(Names) /\ Len(Tail(s)) = Len(s) - 1
    BY <1>4, HeadTailProperties
  <2>2. Len(s) \in Nat
    BY LenProperties
  <2>3. QED
    BY <1>4, <2>1, <2>2
<1>5. QED
  BY <1>1, <1>2, <1>3, <1>4 DEF ShortList

LEMMA Remaining ==
  ASSUME ProfileTypeOK, NEW c \in Creators, NEW s \in ShortList,
         invalidations' = [invalidations EXCEPT ![c] = s]
  PROVE  /\ invalidations' \in [Creators -> Seq(Names)]
         /\ \A d \in Creators : Len(invalidations'[d]) <= 2
<1>1. invalidations'[c] = s /\ \A d \in Creators \ {c} : invalidations'[d] = invalidations[d]
  BY DEF ProfileTypeOK
<1>2. s \in Seq(Names) /\ Len(s) <= 2
  BY DEF ShortList
<1>3. \A d \in Creators : Len(invalidations'[d]) <= 2
  BY <1>1, <1>2, Zenon DEF ProfileTypeOK
<1>4. QED
  BY <1>2, <1>3 DEF ProfileTypeOK

(* A write counts, and changes the columns at most once.                   *)
LEMMA WriteCounts ==
  ASSUME ProfileTypeOK, NEW c \in Creators, Write(c),
         version' \in {version, [version EXCEPT ![c] = @ + 1]}
  PROVE  writes' \in 0 .. MaxWrites /\ version' \in [Creators -> 0 .. writes']
<1>1. writes' = writes + 1 /\ writes' \in 0 .. MaxWrites
  BY CacheAssumption DEF Write, ProfileTypeOK
<1>2. \A d \in Creators : version[d] \in 0 .. writes /\ writes \in Nat
  BY CacheAssumption DEF ProfileTypeOK
<1>3. \A d \in Creators : version[d] \in 0 .. writes' /\ version[d] + 1 \in 0 .. writes'
  BY <1>1, <1>2
<1>4. QED
  BY <1>1, <1>3 DEF ProfileTypeOK

LEMMA ProfileTypeStep ==
  ASSUME ProfileTypeOK, [ProfileNext]_profileVars
  PROVE  ProfileTypeOK'
<1> USE CacheAssumption
<1>1. ASSUME NEW c \in Creators, UpdateProfile(c) \/ DeleteCreator(c) PROVE ProfileTypeOK'
  <2>1. slug[c] \in Names
    BY <1>1 DEF UpdateProfile, DeleteCreator, Write, ProfileTypeOK
  <2>2. <<slug[c]>> \in ShortList
    BY <2>1, ShortLists
  <2>3. /\ writes' \in 0 .. MaxWrites /\ version' \in [Creators -> 0 .. writes']
        /\ invalidations' \in [Creators -> Seq(Names)]
        /\ \A d \in Creators : Len(invalidations'[d]) <= 2
    <3>1. /\ Write(c) /\ version' \in {version, [version EXCEPT ![c] = @ + 1]}
          /\ invalidations' = [invalidations EXCEPT ![c] = <<slug[c]>>]
      BY <1>1 DEF UpdateProfile, DeleteCreator
    <3>2. QED
      BY <2>2, <3>1, Remaining, WriteCounts
  <2>4. /\ slug' \in [Creators -> Names \cup {"none"}]
        /\ \A d, e \in Creators : slug'[d] = slug'[e] /\ slug'[d] # "none" => d = e
    BY <1>1 DEF UpdateProfile, DeleteCreator, ProfileTypeOK
  <2>5. QED
    BY <1>1, <2>3, <2>4 DEF UpdateProfile, DeleteCreator, ProfileTypeOK
<1>2. ASSUME NEW c \in Creators, NEW n \in Slugs, ClaimSlug(c, n) \/ RenameSlug(c, n)
      PROVE  ProfileTypeOK'
  <2>1. slug[c] \in Names /\ n \in Names /\ n # "none" /\ Free(n)
    BY <1>2 DEF ClaimSlug, RenameSlug, Write, ProfileTypeOK, Names
  <2>2. <<n>> \in ShortList /\ <<slug[c], n>> \in ShortList
    BY <2>1, ShortLists
  <2>3. /\ writes' \in 0 .. MaxWrites /\ version' \in [Creators -> 0 .. writes']
        /\ invalidations' \in [Creators -> Seq(Names)]
        /\ \A d \in Creators : Len(invalidations'[d]) <= 2
    <3>1. /\ Write(c) /\ version' \in {version, [version EXCEPT ![c] = @ + 1]}
          /\ \/ invalidations' = [invalidations EXCEPT ![c] = <<n>>]
             \/ invalidations' = [invalidations EXCEPT ![c] = <<slug[c], n>>]
      BY <1>2 DEF ClaimSlug, RenameSlug
    <3>2. QED
      BY <2>2, <3>1, Remaining, WriteCounts
  <2>4. /\ slug' \in [Creators -> Names \cup {"none"}]
        /\ \A d, e \in Creators : slug'[d] = slug'[e] /\ slug'[d] # "none" => d = e
    <3>1. slug' = [slug EXCEPT ![c] = n]
      BY <1>2 DEF ClaimSlug, RenameSlug
    <3>2. QED
      BY <2>1, <3>1 DEF ProfileTypeOK, Free
  <2>5. excused' \subseteq Names
    BY <1>2 DEF ClaimSlug, RenameSlug, ProfileTypeOK, Names
  <2>6. QED
    BY <1>2, <2>3, <2>4, <2>5 DEF ClaimSlug, RenameSlug, ProfileTypeOK
<1>3. ASSUME NEW c \in Creators,
             CacheInvalidate(c) \/ InvalidationFails(c) \/ RequestCutOff(c)
      PROVE  ProfileTypeOK'
  <2> DEFINE s == invalidations[c]
  <2>1. s \in ShortList /\ s # <<>>
    BY <1>3 DEF CacheInvalidate, InvalidationFails, RequestCutOff, ProfileTypeOK, ShortList
  <2>2. Head(s) \in Names /\ Tail(s) \in ShortList /\ \A i \in 1 .. Len(s) : s[i] \in Names
    <3>1. \A i \in 1 .. Len(s) : s[i] \in Names
      BY <2>1 DEF ShortList
    <3>2. QED
      BY <2>1, <3>1, ShortLists
  <2>3. /\ invalidations' \in [Creators -> Seq(Names)]
        /\ \A d \in Creators : Len(invalidations'[d]) <= 2
    <3>1. \/ invalidations' = [invalidations EXCEPT ![c] = Tail(s)]
          \/ invalidations' = [invalidations EXCEPT ![c] = <<>>]
      BY <1>3 DEF CacheInvalidate, InvalidationFails, RequestCutOff
    <3>2. QED
      BY <2>2, <3>1, Remaining, ShortLists
  <2>4. excused' \subseteq Names /\ faults' \in 0 .. MaxFaults
    BY <1>3, <2>2 DEF CacheInvalidate, InvalidationFails, RequestCutOff, Drop, ProfileTypeOK
  <2>5. profiles' \in [Names -> Entries \cup {NoEntry}]
    BY <1>3, <2>2 DEF CacheInvalidate, InvalidationFails, RequestCutOff, Drop, ProfileTypeOK
  <2>6. UNCHANGED <<slug, version, writes, found>>
    BY <1>3 DEF CacheInvalidate, InvalidationFails, RequestCutOff, rowVars
  <2>7. QED
    BY <2>3, <2>4, <2>5, <2>6 DEF ProfileTypeOK
<1>4. ASSUME NEW r \in Readers, CacheSet(r) PROVE ProfileTypeOK'
  <2>1. found[r] \in Names \X Entries
    BY <1>4 DEF CacheSet, ProfileTypeOK
  <2>2. PICK n \in Names, row \in Entries : found[r][1] = n /\ found[r][2] = row
    BY <2>1
  <2>3. QED
    BY <1>4, <2>2 DEF CacheSet, ProfileTypeOK, rowVars
<1>5. ASSUME NEW r \in Readers, NEW n \in Names, FindCreator(r, n) PROVE ProfileTypeOK'
  <2>1. Lookup(n) \in Entries
    BY <1>5, LookupFinds DEF FindCreator
  <2>2. QED
    BY <1>5, <2>1 DEF FindCreator, ProfileTypeOK, rowVars
<1>6. ASSUME NEW n \in Names, ExpireProfile(n) PROVE ProfileTypeOK'
  BY <1>6 DEF ExpireProfile, Drop, ProfileTypeOK, rowVars
<1>7. CASE UNCHANGED profileVars
  BY <1>7 DEF profileVars, rowVars, ProfileTypeOK
<1>8. QED
  BY <1>1, <1>2, <1>3, <1>4, <1>5, <1>6, <1>7 DEF ProfileNext

-----------------------------------------------------------------------------
(* A name stays covered.                                                   *)

Covered(n) == Fresh(n) \/ Invalidated(n) \/ n \in excused

LEMMA TailHas ==
  ASSUME NEW s \in Seq(Names), NEW i \in 1 .. Len(s), s[i] # Head(s)
  PROVE  \E j \in 1 .. Len(Tail(s)) : Tail(s)[j] = s[i]
<1>1. Len(s) \in Nat /\ s # <<>>
  BY LenProperties, EmptySeq
<1>2. i # 1 /\ i - 1 \in 1 .. Len(s) - 1
  BY <1>1
<1>3. Len(Tail(s)) = Len(s) - 1 /\ Tail(s)[i - 1] = s[i]
  BY <1>1, <1>2, HeadTailProperties
<1>4. QED
  BY <1>2, <1>3

(* Where nothing happens to a name, it stays as it is.                     *)
LEMMA CoverStays ==
  ASSUME NEW n \in Names, Covered(n), Lookup(n)' = Lookup(n), profiles'[n] = profiles[n],
         n \in excused => n \in excused',
         Invalidated(n) => Invalidated(n)' \/ n \in excused'
  PROVE  Covered(n)'
BY DEF Covered, Fresh

LEMMA InvalidatedElsewhere ==
  ASSUME NEW c \in Creators, NEW n \in Names, Invalidated(n),
         \A d \in Creators \ {c} : invalidations'[d] = invalidations[d],
         \A i \in 1 .. Len(invalidations[c]) : invalidations[c][i] # n
  PROVE  Invalidated(n)'
BY DEF Invalidated

LEMMA NowInvalidated ==
  ASSUME NEW c \in Creators, NEW n,
         \E i \in 1 .. Len(invalidations'[c]) : invalidations'[c][i] = n
  PROVE  Invalidated(n)'
BY DEF Invalidated

(* A write covers the names it shows under.                                *)
LEMMA WriteCovers ==
  ASSUME ProfileTypeOK, ProfileTypeOK', NEW c \in Creators, NEW n \in Names, Covered(n),
         Write(c), UNCHANGED profiles, excused \subseteq excused',
         \A d \in Creators \ {c} : /\ slug'[d] = slug[d] /\ version'[d] = version[d]
                                   /\ invalidations'[d] = invalidations[d],
         n \in {slug[c], slug'[c]} => Invalidated(n)' \/ n \in excused'
  PROVE  Covered(n)'
<1>1. CASE n \in {slug[c], slug'[c]}
  BY <1>1 DEF Covered
<1>2. CASE n \notin {slug[c], slug'[c]}
  <2>1. Lookup(n)' = Lookup(n)
    BY <1>2, LookupStays
  <2>2. Invalidated(n) => Invalidated(n)'
    <3>1. \A i \in 1 .. Len(invalidations[c]) : invalidations[c][i] # n
      BY DEF Write
    <3>2. QED
      BY <3>1, InvalidatedElsewhere
  <2>3. QED
    BY <2>1, <2>2, CoverStays
<1>3. QED
  BY <1>1, <1>2

LEMMA StaleStep ==
  ASSUME ProfileInv, [ProfileNext]_profileVars, NEW n \in Names
  PROVE  Covered(n)'
<1>1. ProfileTypeOK /\ ProfileTypeOK' /\ Covered(n)
  BY ProfileTypeStep DEF ProfileInv, StaleOnlyExcused, Covered
<1>2. UNCHANGED <<slug, version>> => Lookup(n)' = Lookup(n)
  BY DEF Lookup, Profile
<1>3. ASSUME NEW c \in Creators, UpdateProfile(c) \/ DeleteCreator(c) PROVE Covered(n)'
  <2>1. n = slug[c] => Invalidated(n)'
    <3>1. invalidations'[c] = <<slug[c]>>
      BY <1>1, <1>3 DEF UpdateProfile, DeleteCreator, ProfileTypeOK
    <3>2. Len(<<slug[c]>>) = 1 /\ <<slug[c]>>[1] = slug[c]
      OBVIOUS
    <3>3. QED
      BY <3>1, <3>2 DEF Invalidated
  <2>2. n # "none" /\ slug'[c] \in {slug[c], "none"}
    BY <1>1, <1>3, CacheAssumption DEF UpdateProfile, DeleteCreator, ProfileTypeOK, Names
  <2>3. \A d \in Creators \ {c} : /\ slug'[d] = slug[d] /\ version'[d] = version[d]
                                  /\ invalidations'[d] = invalidations[d]
    BY <1>1, <1>3 DEF UpdateProfile, DeleteCreator, ProfileTypeOK
  <2>4. Write(c) /\ UNCHANGED <<profiles, excused>>
    BY <1>3 DEF UpdateProfile, DeleteCreator
  <2>5. QED
    BY <1>1, <2>1, <2>2, <2>3, <2>4, WriteCovers
<1>4. ASSUME NEW c \in Creators, NEW m \in Slugs, ClaimSlug(c, m) \/ RenameSlug(c, m)
      PROVE  Covered(n)'
  <2>1. /\ Write(c) /\ UNCHANGED profiles /\ excused \subseteq excused'
        /\ slug' = [slug EXCEPT ![c] = m]
    BY <1>4 DEF ClaimSlug, RenameSlug
  <2>2. slug'[c] = m
    BY <1>1, <2>1 DEF ProfileTypeOK
  <2>3. \A d \in Creators \ {c} : /\ slug'[d] = slug[d] /\ version'[d] = version[d]
                                  /\ invalidations'[d] = invalidations[d]
    BY <1>1, <1>4 DEF ClaimSlug, RenameSlug, ProfileTypeOK
  <2>4. CASE ClaimSlug(c, m)
    <3>1. invalidations'[c] = <<m>> /\ slug[c] \in excused'
      BY <1>1, <2>4 DEF ClaimSlug, ProfileTypeOK
    <3>2. Len(<<m>>) = 1 /\ <<m>>[1] = m
      OBVIOUS
    <3>3. Invalidated(m)'
      BY <3>1, <3>2, NowInvalidated
    <3>4. QED
      BY <1>1, <2>1, <2>2, <2>3, <3>1, <3>3, WriteCovers
  <2>5. CASE RenameSlug(c, m)
    <3>1. invalidations'[c] = <<slug[c], m>>
      BY <1>1, <2>5 DEF RenameSlug, ProfileTypeOK
    <3>2. Len(<<slug[c], m>>) = 2 /\ <<slug[c], m>>[1] = slug[c] /\ <<slug[c], m>>[2] = m
      OBVIOUS
    <3>3. n \in {slug[c], slug'[c]} => Invalidated(n)' \/ n \in excused'
      BY <2>2, <3>1, <3>2, NowInvalidated
    <3>4. QED
      BY <1>1, <2>1, <2>3, <3>3, WriteCovers
  <2>6. QED
    BY <1>4, <2>4, <2>5
<1>5. ASSUME NEW c \in Creators,
             CacheInvalidate(c) \/ InvalidationFails(c) \/ RequestCutOff(c)
      PROVE  Covered(n)'
  <2> DEFINE s == invalidations[c]
  <2>1. s \in Seq(Names) /\ s # <<>> /\ UNCHANGED <<slug, version>>
    BY <1>1, <1>5 DEF CacheInvalidate, InvalidationFails, RequestCutOff, ProfileTypeOK, rowVars
  <2>2. \A d \in Creators \ {c} : invalidations'[d] = invalidations[d]
    BY <1>1, <1>5 DEF CacheInvalidate, InvalidationFails, RequestCutOff, ProfileTypeOK
  <2>3. Head(s) \in Names
    BY <2>1, HeadTailProperties
  <2>4. CASE CacheInvalidate(c) /\ n = Head(s)
    BY <1>1, <2>3, <2>4 DEF CacheInvalidate, Drop, Covered, Fresh, ProfileTypeOK
  <2>5. CASE InvalidationFails(c) /\ n = Head(s)
    BY <2>5 DEF InvalidationFails, Covered
  <2>6. CASE RequestCutOff(c) /\ \E i \in 1 .. Len(s) : s[i] = n
    BY <2>6 DEF RequestCutOff, Covered
  <2>7. CASE (\A i \in 1 .. Len(s) : s[i] # n) /\ n # Head(s)
    <3>1. Invalidated(n) => Invalidated(n)'
      BY <2>2, <2>7, InvalidatedElsewhere
    <3>2. profiles'[n] = profiles[n] /\ (n \in excused => n \in excused')
      BY <1>1, <1>5, <2>3, <2>7
      DEF CacheInvalidate, InvalidationFails, RequestCutOff, Drop, ProfileTypeOK
    <3>3. QED
      BY <1>1, <1>2, <2>1, <3>1, <3>2, CoverStays
  <2>8. ASSUME CacheInvalidate(c) \/ InvalidationFails(c), n # Head(s),
               NEW i \in 1 .. Len(s), s[i] = n
        PROVE  Covered(n)'
    <3>1. invalidations'[c] = Tail(s)
      BY <1>1, <2>8 DEF CacheInvalidate, InvalidationFails, ProfileTypeOK
    <3>2. \E j \in 1 .. Len(Tail(s)) : Tail(s)[j] = n
      BY <2>1, <2>8, TailHas
    <3>3. Invalidated(n)'
      BY <3>1, <3>2, NowInvalidated
    <3>4. QED
      BY <3>3 DEF Covered
  <2>9. s[1] = Head(s) /\ 1 \in 1 .. Len(s)
    BY <2>1, HeadTailProperties, EmptySeq, LenProperties
  <2>10. QED
    BY <1>5, <2>4, <2>5, <2>6, <2>7, <2>8, <2>9
<1>6. ASSUME NEW r \in Readers, CacheSet(r) PROVE Covered(n)'
  <2>1. /\ UNCHANGED <<slug, version, invalidations>>
        /\ found[r] \in Names \X Entries
    BY <1>1, <1>6 DEF CacheSet, ProfileTypeOK, rowVars
  <2>2. Invalidated(n) => Invalidated(n)'
    BY <2>1 DEF Invalidated
  <2>3. CASE n = found[r][1]
    <3>1. CASE UNCHANGED <<profiles, excused>>
      BY <1>1, <1>2, <2>1, <2>2, <3>1, CoverStays
    <3>2. CASE found[r][2] = Lookup(n) /\ profiles' = [profiles EXCEPT ![n] = found[r][2]]
      BY <1>1, <1>2, <2>1, <3>2 DEF Covered, Fresh, ProfileTypeOK
    <3>3. CASE n \in excused'
      BY <3>3 DEF Covered
    <3>4. QED
      BY <1>6, <2>3, <3>1, <3>2, <3>3 DEF CacheSet
  <2>4. CASE n # found[r][1]
    <3>1. profiles'[n] = profiles[n] /\ (n \in excused => n \in excused')
      BY <1>1, <1>6, <2>4 DEF CacheSet, ProfileTypeOK
    <3>2. QED
      BY <1>1, <1>2, <2>1, <2>2, <3>1, CoverStays
  <2>5. QED
    BY <2>3, <2>4
<1>7. ASSUME NEW m \in Names, ExpireProfile(m) PROVE Covered(n)'
  <2>1. UNCHANGED <<slug, version, invalidations>> /\ Drop(m)
    BY <1>7 DEF ExpireProfile, rowVars
  <2>2. CASE n = m
    BY <1>1, <2>1, <2>2 DEF Drop, Covered, Fresh, ProfileTypeOK
  <2>3. CASE n # m
    <3>1. profiles'[n] = profiles[n] /\ (n \in excused => n \in excused')
      BY <1>1, <2>1, <2>3 DEF Drop, ProfileTypeOK
    <3>2. Invalidated(n) => Invalidated(n)'
      BY <2>1 DEF Invalidated
    <3>3. QED
      BY <1>1, <1>2, <2>1, <3>1, <3>2, CoverStays
  <2>4. QED
    BY <2>2, <2>3
<1>8. CASE (\E r \in Readers, m \in Names : FindCreator(r, m)) \/ UNCHANGED profileVars
  <2>1. UNCHANGED <<slug, version, invalidations, profiles, excused>>
    BY <1>8 DEF FindCreator, rowVars, profileVars
  <2>2. Invalidated(n) => Invalidated(n)'
    BY <2>1 DEF Invalidated
  <2>3. QED
    BY <1>1, <1>2, <2>1, <2>2, CoverStays
<1>9. QED
  BY <1>3, <1>4, <1>5, <1>6, <1>7, <1>8 DEF ProfileNext

LEMMA ProfileInductive == ProfileSpec => []ProfileInv
<1>1. ProfileInv /\ [ProfileNext]_profileVars => ProfileInv'
  <2> SUFFICES ASSUME ProfileInv, [ProfileNext]_profileVars PROVE ProfileInv'
    OBVIOUS
  <2>1. ProfileTypeOK'
    BY ProfileTypeStep DEF ProfileInv
  <2>2. StaleOnlyExcused'
    BY StaleStep DEF StaleOnlyExcused, Covered
  <2>3. QED
    BY <2>1, <2>2 DEF ProfileInv
<1>2. QED
  BY <1>1, ProfileInitInv, PTL DEF ProfileSpec

(* Every variable keeps its type, and nobody shares a slug.                *)
THEOREM ProfileTypeCorrect == ProfileSpec => []ProfileTypeOK
<1>1. ProfileInv => ProfileTypeOK
  BY DEF ProfileInv
<1>2. QED
  BY <1>1, ProfileInductive, PTL

(* A cached profile is out of date only while its invalidation is on the   *)
(* way or for a reason the code accepts, for any creators, readers and     *)
(* writes (creator.service.ts, lines 299-303, 383-386 and 479-504).        *)
THEOREM StaleIsExcused == ProfileSpec => []StaleOnlyExcused
<1>1. ProfileInv => StaleOnlyExcused
  BY DEF ProfileInv
<1>2. QED
  BY <1>1, ProfileInductive, PTL
=============================================================================
