-------------------------- MODULE ProviderSyncProofs --------------------------
(***************************************************************************)
(* Proofs about ProviderSync, for any number of cycles, administrators,    *)
(* tokens and faults, and any size of a page.                              *)
(***************************************************************************)
EXTENDS ProviderSync, FiniteSetTheorems, WellFoundedInduction, TLAPS

-----------------------------------------------------------------------------
(* Numbers and pages                                                        *)

LEMMA NatMin ==
  ASSUME NEW S \in SUBSET Nat, S # {}
  PROVE  \E x \in S : \A y \in S : x <= y
<1> DEFINE R == {p \in Nat \X Nat : p[1] < p[2]}
<1>1. IsWellFoundedOn(R, Nat)
  BY NatLessThanWellFounded DEF OpToRel
<1>2. PICK x \in S : \A y \in S : ~(<<y, x>> \in R)
  BY <1>1, WFMin
<1>3. ASSUME NEW y \in S PROVE x <= y
  <2>1. x \in Nat /\ y \in Nat
    OBVIOUS
  <2>2. ~(y < x)
    BY <1>2, <2>1
  <2> QED
    BY <2>1, <2>2
<1> QED
  BY <1>3

LEMMA FiniteMax ==
  ASSUME NEW S \in SUBSET Nat, S # {}, IsFiniteSet(S)
  PROVE  \E x \in S : \A y \in S : y <= x
<1> DEFINE Above(x) == {y \in S : y > x}
           sizes == {Cardinality(Above(x)) : x \in S}
<1>1. ASSUME NEW x \in S PROVE IsFiniteSet(Above(x)) /\ Cardinality(Above(x)) \in Nat
  BY FS_Subset, FS_CardinalityType
<1>2. sizes \in SUBSET Nat /\ sizes # {}
  BY <1>1
<1>3. PICK x \in S : \A y \in S : Cardinality(Above(x)) <= Cardinality(Above(y))
  <2>1. PICK n \in sizes : \A m \in sizes : n <= m
    <3> HIDE DEF sizes
    <3> QED
      BY <1>2, NatMin
  <2> QED
    BY <2>1
<1>4. ASSUME NEW y \in S, y > x PROVE FALSE
  <2>0. x \in Nat /\ y \in Nat /\ \A z \in S : z \in Nat
    OBVIOUS
  <2>1. Above(y) \in SUBSET Above(x) /\ y \in Above(x) /\ y \notin Above(y)
    <3>1. \A z \in S : z > y => z > x
      BY <1>4, <2>0
    <3>2. y > x /\ ~(y > y)
      BY <1>4, <2>0
    <3> QED
      BY <3>1, <3>2
  <2>2. Cardinality(Above(y)) <= Cardinality(Above(x)) /\ Cardinality(Above(y)) # Cardinality(Above(x))
    <3> HIDE DEF Above
    <3> QED
      BY <1>1, <2>1, FS_Subset
  <2>3. Cardinality(Above(x)) \in Nat /\ Cardinality(Above(y)) \in Nat
    BY <1>1
  <2> QED
    BY <1>3, <2>2, <2>3
<1>5. ASSUME NEW y \in S PROVE y <= x
  BY <1>4
<1> QED
  BY <1>5

\* The greatest of a finite set of numbers is one of it.
LEMMA GreatestFacts ==
  ASSUME NEW S \in SUBSET Nat, S # {}, IsFiniteSet(S)
  PROVE  Greatest(S) \in S /\ \A y \in S : y <= Greatest(S)
BY FiniteMax DEF Greatest

LEMMA TokensFinite ==
  /\ Tokens \in SUBSET Nat /\ 0 \notin Tokens
  /\ \A U \in SUBSET Tokens : IsFiniteSet(U)
<1>1. Tokens \in SUBSET Nat /\ 0 \notin Tokens /\ IsFiniteSet(Tokens)
  BY SyncAssumption, FS_Interval DEF Tokens
<1> QED
  BY <1>1, FS_Subset

\* The tokens of the upstream have the ranks from 1 to their number, each once.
LEMMA RankFacts ==
  ASSUME upstream \in SUBSET Nat, IsFiniteSet(upstream)
  PROVE  /\ Cardinality(upstream) \in Nat
         /\ \A u \in upstream : Rank(u) \in 1 .. Cardinality(upstream)
         /\ \A u, v \in upstream : u # v => Rank(u) # Rank(v)
         /\ \A n \in 1 .. Cardinality(upstream) : \E u \in upstream : Rank(u) = n
<1> DEFINE m == Cardinality(upstream)
           From(u) == {v \in upstream : v >= u}
           f == [u \in upstream |-> Rank(u)]
<1>1. m \in Nat
  BY FS_CardinalityType
<1>2. ASSUME NEW u \in upstream
      PROVE  /\ IsFiniteSet(From(u)) /\ From(u) \in SUBSET upstream
             /\ Rank(u) = Cardinality(From(u)) /\ Rank(u) \in 1 .. m
  <2>1. IsFiniteSet(From(u)) /\ Cardinality(From(u)) <= m /\ From(u) \in SUBSET upstream
    BY FS_Subset
  <2>2. Cardinality(From(u)) \in Nat /\ u \in From(u)
    BY <2>1, FS_CardinalityType
  <2>3. Cardinality(From(u)) # 0
    BY <2>1, <2>2, FS_EmptySet
  <2> QED
    BY <1>1, <2>1, <2>2, <2>3 DEF Rank
<1>3. ASSUME NEW u \in upstream, NEW v \in upstream, u < v PROVE Rank(u) # Rank(v)
  <2>0. u \in Nat /\ v \in Nat /\ \A w \in upstream : w \in Nat
    OBVIOUS
  <2>1. From(v) \in SUBSET From(u) /\ u \in From(u) /\ u \notin From(v)
    <3>1. \A w \in upstream : w >= v => w >= u
      BY <1>3, <2>0
    <3>2. u >= u /\ ~(u >= v)
      BY <1>3, <2>0
    <3> QED
      BY <3>1, <3>2
  <2> HIDE DEF From
  <2> QED
    BY <1>2, <2>1, FS_Subset
<1>4. \A u, v \in upstream : u # v => Rank(u) # Rank(v)
  <2> SUFFICES ASSUME NEW u \in upstream, NEW v \in upstream, u # v PROVE Rank(u) # Rank(v)
    OBVIOUS
  <2>1. u < v \/ v < u
    OBVIOUS
  <2> QED
    BY <1>3, <2>1
<1>5. IsFiniteSet(1 .. m) /\ Cardinality(1 .. m) = m
  BY <1>1, FS_Interval
<1>6. f \in Injection(upstream, 1 .. m)
  BY <1>2, <1>4 DEF Injection, IsInjective
<1>7. f \in Surjection(upstream, 1 .. m)
  BY <1>5, <1>6, FS_Injection
<1>8. \A n \in 1 .. m : \E u \in upstream : Rank(u) = n
  BY <1>7 DEF Surjection
<1> QED
  BY <1>1, <1>2, <1>4, <1>8

LEMMA RanksNext ==
  ASSUME upstream' \in SUBSET Nat, IsFiniteSet(upstream')
  PROVE  \A u \in upstream' : Rank(u)' \in 1 .. Cardinality(upstream')
<1> SUFFICES ASSUME NEW u \in upstream' PROVE Rank(u)' \in 1 .. Cardinality(upstream')
  OBVIOUS
<1> DEFINE S == {v \in upstream' : v >= u}
<1>1. IsFiniteSet(S) /\ Cardinality(S) <= Cardinality(upstream') /\ u \in S
  BY FS_Subset
<1>2. Cardinality(S) \in Nat /\ Cardinality(upstream') \in Nat /\ Cardinality(S) # 0
  BY <1>1, FS_CardinalityType, FS_EmptySet
<1>3. Rank(u)' = Cardinality(S)
  BY DEF Rank
<1> HIDE DEF S
<1> QED
  BY <1>1, <1>2, <1>3

-----------------------------------------------------------------------------
(* The invariant                                                            *)

\* The locals of a goroutine by themselves.
Sensible(k) ==
  LET t == task[k]
  IN /\ t.at \in {"lookup", "find", "write"} => t.todo # {}
     /\ t.at \in {"before", "make", "list", "lookup", "find"} => t.hit = None
     /\ t.at \in {"before", "make"} => t.got = {}
     /\ t.at = "make" => t.page = 0
     /\ t.at = "write" /\ t.hit # None => t.hit[1] = Cur(k)
     /\ t.at = "gone" => t.got # {}
     /\ IsFiniteSet(t.list)

\* Unless its look-up failed or another came between, a synchronisation that has
\* looked a token up holds the key that the row has, and writes to that row.
KeyHeld(k) ==
  ~task[k].blind /\ ~task[k].shared =>
    /\ task[k].at = "find" => (FirstReady(Cur(k)) => task[k].key)
    /\ task[k].at = "write" =>
         task[k].hit = FirstId(Cur(k)) /\ (FirstReady(Cur(k)) => task[k].key)

\* While no token comes or goes, the pages read are the newest tokens, and at the
\* end all of them.
Newer(n) == {u \in upstream : Rank(u) <= n}
PagesRead(k) ==
  ~task[k].moved =>
    /\ task[k].at = "list" => task[k].got = Newer(task[k].page * PageSize)
    /\ task[k].at \in {"lookup", "find", "write", "clean"} => task[k].got = upstream

\* A token that a creation has made was not in the list it asked for before.
OwnIsNew(k) ==
  /\ task[k].before \subseteq 1 .. made /\ task[k].own <= made
  /\ task[k].own \notin task[k].before
  /\ task[k].at \in {"before", "make"} => task[k].own = 0

Good(k) == Sensible(k) /\ KeyHeld(k) /\ PagesRead(k) /\ OwnIsNew(k)

\* The types, and that the tables are finite.
SyncTypeOK ==
  /\ exists \in BOOLEAN /\ priced \in BOOLEAN /\ reveals \in BOOLEAN
  /\ rows \subseteq Rows /\ IsFiniteSet(rows)
  /\ routes \subseteq Ids /\ IsFiniteSet(routes)
  /\ made \in 0 .. MaxTokens /\ upstream \subseteq 1 .. made
  /\ task \in [Workers -> Tasks]
  /\ faults \in 0 .. MaxFaults

OneRowPerId == \A r, s \in rows : r.id = s.id => r = s

SyncInvariant == SyncTypeOK /\ OneRowPerId /\ \A k \in Workers : Good(k)

-----------------------------------------------------------------------------
(* The pages of a list                                                      *)

LEMMA PageSizes ==
  ASSUME NEW p \in Nat
  PROVE  /\ p * PageSize \in Nat /\ p <= p * PageSize
         /\ (p + 1) * PageSize = p * PageSize + PageSize /\ 0 * PageSize = 0
<1>1. PageSize \in Nat /\ PageSize >= 1
  BY SyncAssumption
<1>2. (p + 1) * PageSize = p * PageSize + PageSize
  BY <1>1
<1>3. p * PageSize \in Nat
  BY <1>1
<1>4. p * PageSize = p + p * (PageSize - 1) /\ p * (PageSize - 1) \in Nat
  BY <1>1
<1>5. p <= p * PageSize
  <2> HIDE SyncAssumption
  <2> QED
    BY <1>3, <1>4
<1> QED
  BY <1>2, <1>3, <1>5, <1>1

\* A page adds the tokens that come next, and none when there are none.
LEMMA PageFacts ==
  ASSUME upstream \in SUBSET Nat, IsFiniteSet(upstream), NEW p \in Nat
  PROVE  /\ Newer(p * PageSize) \cup Page(p) = Newer((p + 1) * PageSize)
         /\ Page(p) # {} => p + 1 <= Cardinality(upstream)
         /\ Page(p) = {} => Newer(p * PageSize) = upstream
         /\ Cardinality(Page(p)) < PageSize => Newer((p + 1) * PageSize) = upstream
<1> DEFINE b == p * PageSize
           m == Cardinality(upstream)
<1>1. b \in Nat /\ p <= b /\ (p + 1) * PageSize = b + PageSize
  BY PageSizes
<1>2. PageSize \in Nat /\ PageSize >= 1
  BY SyncAssumption
<1>3. m \in Nat /\ \A u \in upstream : Rank(u) \in 1 .. m
  BY RankFacts
<1>4. Page(p) = {u \in upstream : Rank(u) \in b + 1 .. b + PageSize}
  BY <1>1 DEF Page
<1> HIDE DEF b, m
<1>5. Newer(b) \cup Page(p) = Newer(b + PageSize)
  <2>1. \A u \in upstream : Rank(u) <= b + PageSize <=> Rank(u) <= b \/ Rank(u) \in b + 1 .. b + PageSize
    BY <1>1, <1>2, <1>3
  <2> QED
    BY <1>4, <2>1 DEF Newer
<1>6. ASSUME Page(p) # {} PROVE p + 1 <= m
  <2>1. PICK u \in upstream : Rank(u) \in b + 1 .. b + PageSize
    BY <1>4, <1>6
  <2> QED
    BY <1>1, <1>2, <1>3, <2>1
<1>7. ASSUME Page(p) = {} PROVE Newer(b) = upstream
  <2>1. m <= b
    <3> SUFFICES ASSUME m > b PROVE FALSE
      BY <1>1, <1>3
    <3>1. b + 1 \in 1 .. m
      BY <1>1, <1>3
    <3>2. PICK u \in upstream : Rank(u) = b + 1
      BY <3>1, RankFacts DEF m
    <3> QED
      BY <1>1, <1>2, <1>4, <1>7, <3>2
  <2>2. \A u \in upstream : Rank(u) <= b
    BY <1>1, <1>3, <2>1
  <2> QED
    BY <2>2 DEF Newer
<1>8. ASSUME Cardinality(Page(p)) < PageSize PROVE Newer(b + PageSize) = upstream
  <2>1. m <= b + PageSize
    <3> SUFFICES ASSUME m > b + PageSize PROVE FALSE
      BY <1>1, <1>2, <1>3
    <3> DEFINE f == [u \in Page(p) |-> Rank(u)]
               span == b + 1 .. b + PageSize
    <3>1. f \in [Page(p) -> span]
      BY <1>4
    <3>2. ASSUME NEW n \in span PROVE \E u \in Page(p) : f[u] = n
      <4>1. n \in 1 .. m
        BY <1>1, <1>2, <1>3
      <4>2. PICK u \in upstream : Rank(u) = n
        BY <4>1, RankFacts DEF m
      <4> QED
        BY <1>4, <4>2
    <3>3. f \in Surjection(Page(p), span)
      BY <3>1, <3>2 DEF Surjection
    <3>4. Page(p) \in SUBSET upstream
      BY <1>4
    <3>5. IsFiniteSet(Page(p))
      BY <3>4, FS_Subset
    <3>6. Cardinality(span) <= Cardinality(Page(p)) /\ Cardinality(Page(p)) \in Nat
      BY <3>3, <3>5, FS_Surjection, FS_CardinalityType
    <3>7. Cardinality(span) = PageSize
      BY <1>1, <1>2, FS_Interval
    <3> HIDE DEF span
    <3> QED
      BY <1>2, <1>8, <3>6, <3>7
  <2>2. \A u \in upstream : Rank(u) <= b + PageSize
    BY <1>1, <1>2, <1>3, <2>1
  <2> QED
    BY <2>2 DEF Newer
<1> QED
  BY <1>1, <1>5, <1>6, <1>7, <1>8 DEF b, m

\* However the list ends, nothing is left out.
LEMMA LastPageCovers ==
  ASSUME upstream \in SUBSET Nat, IsFiniteSet(upstream), NEW p \in Nat,
         LastPage(Page(p), Newer(p * PageSize) \cup Page(p))
  PROVE  Newer(p * PageSize) \cup Page(p) = upstream
<1> DEFINE all == Newer(p * PageSize) \cup Page(p)
<1>1. all \in SUBSET upstream
  BY DEF Newer, Page
<1>2. CASE Page(p) = {}
  BY <1>2, PageFacts
<1>3. CASE Cardinality(all) >= Cardinality(upstream)
  <2>1. Cardinality(all) <= Cardinality(upstream) /\ IsFiniteSet(all)
    BY <1>1, FS_Subset
  <2>2. Cardinality(all) \in Nat /\ Cardinality(upstream) \in Nat
    BY <2>1, FS_CardinalityType
  <2> HIDE DEF all
  <2>3. Cardinality(all) = Cardinality(upstream)
    BY <1>3, <2>1, <2>2
  <2>4. all = upstream
    BY <1>1, <2>3, FS_Subset
  <2> QED
    BY <2>4 DEF all
<1>4. CASE Cardinality(Page(p)) < PageSize
  BY <1>4, PageFacts
<1> QED
  BY <1>2, <1>3, <1>4 DEF LastPage
-----------------------------------------------------------------------------
(* Rows and their ids                                                       *)

LEMMA ImageFinite ==
  ASSUME NEW S, IsFiniteSet(S), NEW f
  PROVE  IsFiniteSet({f[x] : x \in S})
<1> DEFINE g == [x \in S |-> f[x]]
           T == {f[x] : x \in S}
<1>1. g \in Surjection(S, T)
  BY DEF Surjection
<1> HIDE DEF T
<1>2. IsFiniteSet(T)
  BY <1>1, FS_Surjection
<1> QED
  BY <1>2 DEF T

LEMMA IdFacts ==
  /\ \A id \in Ids : id = <<id[1], id[2]>> /\ id[1] \in Tokens /\ id[2] \in Nat /\ id[2] > 0
  /\ None \notin Ids /\ None[1] = 0
  /\ \A u \in Tokens, n \in Nat \ {0} : <<u, n>> \in Ids
BY TokensFinite DEF Ids, None

LEMMA LeastFacts ==
  ASSUME NEW ids \in SUBSET Ids, ids # {}
  PROVE  Least(ids) \in ids
<1> DEFINE places == {i[2] : i \in ids}
<1>1. places \in SUBSET Nat /\ places # {}
  BY IdFacts
<1>2. PICK n \in places : \A m \in places : n <= m
  <2> HIDE DEF places
  <2> QED
    BY <1>1, NatMin
<1>3. \E i \in ids : \A j \in ids : i[2] <= j[2]
  BY <1>2
<1> QED
  BY <1>3 DEF Least

LEMMA FirstIdFacts ==
  ASSUME rows \subseteq Rows, NEW u \in Tokens
  PROVE  \/ FirstId(u) = None /\ OfTokens({u}) = {}
         \/ FirstId(u) \in Ids /\ FirstId(u)[1] = u /\ \E r \in OfTokens({u}) : r.id = FirstId(u)
<1> DEFINE ids == {r.id : r \in OfTokens({u})}
<1>1. ids \in SUBSET Ids /\ \A i \in ids : i[1] = u
  BY DEF OfTokens, Rows
<1>2. CASE ids = {}
  BY <1>2 DEF FirstId, Least
<1>3. CASE ids # {}
  <2>1. FirstId(u) \in ids
    <3> HIDE DEF ids
    <3>1. Least(ids) \in ids
      BY <1>1, <1>3, LeastFacts
    <3> QED
      BY <3>1 DEF FirstId, ids
  <2> QED
    BY <1>1, <2>1
<1> QED
  BY <1>2, <1>3

\* Whether the row of a token has a key depends on the rows of that token only.
LEMMA ReadyFacts ==
  ASSUME rows \subseteq Rows, NEW u \in Tokens
  PROVE  FirstReady(u) <=> \E r \in OfTokens({u}) : r.id = FirstId(u) /\ r.ready
<1>1. CASE FirstId(u) = None
  <2>1. RowOf(None) = {}
    BY IdFacts DEF RowOf, Rows
  <2>2. OfTokens({u}) = {}
    BY <1>1, FirstIdFacts, IdFacts
  <2> QED
    BY <1>1, <2>1, <2>2 DEF FirstReady
<1>2. CASE FirstId(u)[1] = u
  <2>1. \A r \in rows : r.id = FirstId(u) => r \in OfTokens({u})
    BY <1>2 DEF OfTokens
  <2>2. OfTokens({u}) \subseteq rows
    BY DEF OfTokens
  <2>3. RowOf(FirstId(u)) = {r \in OfTokens({u}) : r.id = FirstId(u)}
    BY <2>1, <2>2 DEF RowOf
  <2> QED
    BY <2>3 DEF FirstReady
<1> QED
  BY <1>1, <1>2, FirstIdFacts

LEMMA RowsOfAToken ==
  ASSUME rows \subseteq Rows,
         rows' \subseteq Rows,
         NEW u \in Tokens, OfTokens({u})' = OfTokens({u})
  PROVE  FirstId(u)' = FirstId(u) /\ (FirstReady(u)' <=> FirstReady(u))
<1>1. FirstId(u)' = FirstId(u)
  BY DEF FirstId
<1>2. FirstReady(u)' <=> \E r \in OfTokens({u})' : r.id = FirstId(u)' /\ r.ready
  <2>1. CASE FirstId(u)' = None
    <3>1. {r \in rows' : r.id = None} = {}
      BY IdFacts DEF Rows
    <3>2. OfTokens({u})' = {}
      BY <1>1, <2>1, FirstIdFacts, IdFacts
    <3> QED
      BY <2>1, <3>1, <3>2 DEF FirstReady, RowOf
  <2>2. CASE FirstId(u)'[1] = u
    BY <2>2 DEF FirstReady, RowOf, OfTokens
  <2> QED
    BY <1>1, <2>1, <2>2, FirstIdFacts
<1> QED
  BY <1>1, <1>2, ReadyFacts

\* The database gives an id that no row has.
LEMMA FreshFacts ==
  ASSUME SyncTypeOK, \A k \in Workers : IsFiniteSet(task[k].list), NEW u \in Tokens
  PROVE  FreshId(u) \in Ids /\ FreshId(u)[1] = u /\ \A r \in rows : r.id # FreshId(u)
<1> DEFINE ids == {r.id : r \in rows}
           held(k) == task[k].list \cup {task[k].hit}
           used == ids \cup routes \cup UNION {held(k) : k \in Workers}
           own == {j \in used : j[1] = u}
           taken == {0} \cup {i[2] : i \in own}
<1>1. IsFiniteSet(ids) /\ ids \in SUBSET Ids
  <2>1. IsFiniteSet(rows)
    BY DEF SyncTypeOK
  <2> DEFINE idOf == [r \in rows |-> r.id]
  <2>2. IsFiniteSet({idOf[r] : r \in rows})
    BY <2>1, ImageFinite
  <2> QED
    BY <2>2 DEF SyncTypeOK, Rows
<1>2. \A k \in Workers : IsFiniteSet(held(k)) /\ held(k) \in SUBSET (Ids \cup {None})
  <2> SUFFICES ASSUME NEW k \in Workers
               PROVE  IsFiniteSet(held(k)) /\ held(k) \in SUBSET (Ids \cup {None})
    OBVIOUS
  <2>1. IsFiniteSet(held(k))
    BY FS_AddElement
  <2>2. task[k].list \in SUBSET Ids /\ task[k].hit \in Ids \cup {None}
    BY DEF SyncTypeOK, Tasks
  <2> QED
    BY <2>1, <2>2
<1>3. IsFiniteSet(UNION {held(k) : k \in Workers})
  <2> DEFINE h == [k \in Workers |-> held(k)]
             all == {h[k] : k \in Workers}
  <2>1. IsFiniteSet(Workers)
    BY SyncAssumption DEF Workers
  <2>2. IsFiniteSet(all)
    <3> HIDE DEF h
    <3> QED
      BY <2>1, ImageFinite
  <2>3. \A T \in all : IsFiniteSet(T)
    <3> SUFFICES ASSUME NEW T \in all PROVE IsFiniteSet(T)
      OBVIOUS
    <3>1. PICK k \in Workers : T = held(k)
      OBVIOUS
    <3> HIDE DEF held
    <3> QED
      BY <1>2, <3>1
  <2>4. all = {held(k) : k \in Workers}
    OBVIOUS
  <2> HIDE DEF all
  <2>5. IsFiniteSet(UNION all)
    BY <2>2, <2>3, FS_UNION
  <2> QED
    BY <2>4, <2>5
<1>4. IsFiniteSet(used) /\ used \in SUBSET (Ids \cup {None})
  <2>1. IsFiniteSet(routes) /\ routes \in SUBSET Ids
    BY DEF SyncTypeOK
  <2>2. UNION {held(k) : k \in Workers} \in SUBSET (Ids \cup {None})
    BY <1>2
  <2> HIDE DEF ids, held
  <2>3. IsFiniteSet(ids \cup routes)
    BY <1>1, <2>1, FS_Union
  <2> QED
    BY <1>1, <1>3, <2>1, <2>2, <2>3, FS_Union
<1>5. IsFiniteSet(taken) /\ taken \in SUBSET Nat /\ taken # {}
  <2> HIDE DEF used
  <2>1. IsFiniteSet(own) /\ own \in SUBSET Ids
    BY <1>4, FS_Subset, IdFacts, TokensFinite
  <2> DEFINE placeOf == [i \in own |-> i[2]]
  <2>2. IsFiniteSet({placeOf[i] : i \in own})
    BY <2>1, ImageFinite
  <2>3. {placeOf[i] : i \in own} = {i[2] : i \in own}
    OBVIOUS
  <2>4. IsFiniteSet({0} \cup {i[2] : i \in own})
    BY <2>2, <2>3, FS_AddElement, FS_Singleton, FS_Union
  <2> QED
    BY <2>1, <2>4, IdFacts
<1>6. FreshId(u) = <<u, 1 + Greatest(taken)>>
  BY DEF FreshId
<1>7. Greatest(taken) \in Nat /\ \A n \in taken : n <= Greatest(taken)
  <2> HIDE DEF taken
  <2> QED
    BY <1>5, GreatestFacts
<1>8. ASSUME NEW r \in rows, r.id = FreshId(u) PROVE FALSE
  <2>1. r.id \in used /\ r.id[1] = u /\ r.id[2] = 1 + Greatest(taken)
    <3>1. r.id \in ids
      OBVIOUS
    <3> HIDE DEF ids, held, taken
    <3>2. r.id \in used
      BY <3>1
    <3> HIDE DEF used
    <3> QED
      BY <1>6, <1>8, <3>2
  <2>2. r.id[2] \in taken
    BY <2>1
  <2> HIDE DEF taken
  <2> QED
    BY <1>7, <2>1, <2>2
<1> HIDE DEF taken
<1>9. FreshId(u) \in Ids
  BY <1>6, <1>7, IdFacts
<1> QED
  BY <1>6, <1>8, <1>9
-----------------------------------------------------------------------------
(* The other goroutines                                                     *)

LEMMA ChoreFacts ==
  ASSUME SyncTypeOK, NEW k \in Workers
  PROVE  /\ task[k] \in Tasks /\ task[k].at \in Places /\ task[k].page \in 0 .. MaxTokens
         /\ task[k].got \in SUBSET Tokens /\ task[k].todo \in SUBSET Tokens
         /\ task[k].key \in BOOLEAN /\ task[k].hit \in Ids \cup {None}
         /\ task[k].list \in SUBSET Ids /\ task[k].before \in SUBSET Tokens
         /\ task[k].own \in 0 .. MaxTokens
         /\ task[k].blind \in BOOLEAN /\ task[k].shared \in BOOLEAN /\ task[k].moved \in BOOLEAN
BY DEF SyncTypeOK, Tasks

LEMMA CurFacts ==
  ASSUME SyncTypeOK, NEW k \in Workers, Sensible(k), task[k].at \in {"lookup", "find", "write"}
  PROVE  Cur(k) \in task[k].todo /\ Cur(k) \in Tokens
<1>1. task[k].todo \in SUBSET Tokens /\ task[k].todo # {}
  BY ChoreFacts DEF Sensible
<1>2. task[k].todo \in SUBSET Nat /\ IsFiniteSet(task[k].todo)
  BY <1>1, TokensFinite
<1> QED
  BY <1>1, <1>2, GreatestFacts DEF Cur

\* All that other steps do to the locals of a goroutine is to say that it was
\* overtaken.
Bystands(j) ==
  /\ task'[j] = [task[j] EXCEPT !.shared = task'[j].shared, !.moved = task'[j].moved]
  /\ task'[j].shared \in BOOLEAN /\ (task[j].shared => task'[j].shared)
  /\ task'[j].moved \in BOOLEAN /\ (task[j].moved => task'[j].moved)

LEMMA BystandFacts ==
  ASSUME SyncTypeOK, NEW j \in Workers, Bystands(j)
  PROVE  /\ task'[j].kind = task[j].kind /\ task'[j].at = task[j].at /\ task'[j].page = task[j].page
         /\ task'[j].got = task[j].got /\ task'[j].todo = task[j].todo /\ task'[j].key = task[j].key
         /\ task'[j].hit = task[j].hit /\ task'[j].list = task[j].list
         /\ task'[j].before = task[j].before /\ task'[j].own = task[j].own
         /\ task'[j].blind = task[j].blind
         /\ task[j].shared => task'[j].shared
         /\ task[j].moved => task'[j].moved
         /\ Cur(j)' = Cur(j)
<1>1. task[j] \in Tasks
  BY ChoreFacts
<1>2. /\ task'[j].kind = task[j].kind /\ task'[j].at = task[j].at /\ task'[j].page = task[j].page
      /\ task'[j].got = task[j].got /\ task'[j].todo = task[j].todo /\ task'[j].key = task[j].key
      /\ task'[j].hit = task[j].hit /\ task'[j].list = task[j].list
      /\ task'[j].before = task[j].before /\ task'[j].own = task[j].own
      /\ task'[j].blind = task[j].blind
  BY <1>1 DEF Bystands, Tasks
<1>3. (task[j].shared => task'[j].shared) /\ (task[j].moved => task'[j].moved)
  BY DEF Bystands
<1>4. Cur(j)' = Cur(j)
  BY <1>2 DEF Cur
<1> QED
  BY <1>2, <1>3, <1>4

\* They keep what they know, unless that is said.
LEMMA OthersGood ==
  ASSUME SyncTypeOK, NEW j \in Workers, Good(j), Bystands(j),
         rows' \subseteq Rows, made' \in Nat, made <= made',
         /\ task[j].at \in {"find", "write"} /\ ~task'[j].shared =>
              OfTokens({Cur(j)})' = OfTokens({Cur(j)})
         /\ task[j].at \in {"list", "lookup", "find", "write", "clean"} /\ ~task'[j].moved =>
              upstream' = upstream
  PROVE  Good(j)'
<1>1. Sensible(j)'
  BY BystandFacts DEF Good, Sensible
<1>2. KeyHeld(j)'
  <2> SUFFICES ASSUME ~task'[j].blind, ~task'[j].shared, task[j].at \in {"find", "write"}
               PROVE  KeyHeld(j)'
    BY BystandFacts DEF KeyHeld
  <2>1. ~task[j].blind /\ ~task[j].shared /\ Cur(j) \in Tokens /\ Cur(j)' = Cur(j)
    BY BystandFacts, CurFacts DEF Good
  <2>2. PICK u \in Tokens : u = Cur(j) /\ u = Cur(j)'
    BY <2>1
  <2>3. OfTokens({u})' = OfTokens({u})
    BY <2>2
  <2>4. FirstId(u)' = FirstId(u) /\ (FirstReady(u)' <=> FirstReady(u))
    BY <2>3, RowsOfAToken DEF SyncTypeOK
  <2>5. /\ task[j].at = "find" => (FirstReady(u) => task[j].key)
        /\ task[j].at = "write" =>
             task[j].hit = FirstId(u) /\ (FirstReady(u) => task[j].key)
    BY <2>1, <2>2 DEF Good, KeyHeld
  <2>6. /\ task'[j].at = "find" => (FirstReady(u)' => task'[j].key)
        /\ task'[j].at = "write" =>
             task'[j].hit = FirstId(u)' /\ (FirstReady(u)' => task'[j].key)
    BY <2>4, <2>5, BystandFacts
  <2> QED
    BY <2>2, <2>6 DEF KeyHeld
<1>3. PagesRead(j)'
  <2> SUFFICES ASSUME ~task'[j].moved,
                      task[j].at \in {"list", "lookup", "find", "write", "clean"}
               PROVE  PagesRead(j)'
    BY BystandFacts DEF PagesRead
  <2>1. ~task[j].moved /\ upstream' = upstream
    BY BystandFacts
  <2> QED
    BY <2>1, BystandFacts DEF Good, PagesRead, Newer, Rank
<1>4. OwnIsNew(j)'
  <2>1. made \in Nat /\ task[j].own \in Nat
    BY SyncAssumption, ChoreFacts DEF SyncTypeOK
  <2>2. 1 .. made \subseteq 1 .. made'
    BY <2>1
  <2> QED
    BY <2>1, <2>2, BystandFacts DEF Good, OwnIsNew
<1> QED
  BY <1>1, <1>2, <1>3, <1>4 DEF Good
LEMMA SameBystands ==
  ASSUME SyncTypeOK, NEW j \in Workers, task'[j] = task[j]
  PROVE  Bystands(j)
<1>1. task[j] \in Tasks
  BY ChoreFacts
<1> QED
  BY <1>1 DEF Bystands, Tasks

-----------------------------------------------------------------------------
(* Steps of one goroutine that write neither a row nor the upstream         *)

\* Whoever is at none of the places the invariant speaks of.
Elsewhere == Places \ {"list", "lookup", "find", "write", "clean", "gone", "before", "make"}

LEMMA IdleFacts ==
  /\ Idle \in Tasks /\ Idle.at = "idle" /\ Idle.list = {} /\ Idle.before = {} /\ Idle.own = 0
  /\ Idle.got = {} /\ Idle.todo = {} /\ Idle.hit = None /\ Idle.page = 0
  /\ ~Idle.blind /\ ~Idle.shared /\ ~Idle.moved
  /\ \A k : Over(k) \in {Idle, [Idle EXCEPT !.at = "over"]}
<1>1. Idle \in Tasks
  BY SyncAssumption, FS_EmptySet DEF Idle, Tasks, Places
<1> QED
  BY <1>1 DEF Idle, Over

LEMMA OverFacts ==
  ASSUME NEW k
  PROVE  /\ Over(k) \in Tasks /\ Over(k).at \in {"idle", "over"} /\ Over(k).list = {}
         /\ Over(k).before = {} /\ Over(k).own = 0
<1>1. [Idle EXCEPT !.at = "over"] \in Tasks
  BY IdleFacts DEF Tasks, Places
<1>2. /\ [Idle EXCEPT !.at = "over"].at = "over" /\ [Idle EXCEPT !.at = "over"].list = {}
      /\ [Idle EXCEPT !.at = "over"].before = {} /\ [Idle EXCEPT !.at = "over"].own = 0
  BY DEF Idle
<1> QED
  BY <1>1, <1>2, IdleFacts

LEMMA ElsewhereGood ==
  ASSUME NEW k, task'[k].at \in Elsewhere, IsFiniteSet(task'[k].list),
         task'[k].before \subseteq 1 .. made', task'[k].own <= made',
         task'[k].own \notin task'[k].before
  PROVE  Good(k)'
BY DEF Elsewhere, Good, Sensible, KeyHeld, PagesRead, OwnIsNew

LEMMA OverGood ==
  ASSUME NEW k, made' \in Nat, task'[k].at \in Elsewhere, task'[k].list = {},
         task'[k].before = {}, task'[k].own = 0
  PROVE  Good(k)'
<1>1. IsFiniteSet({})
  BY FS_EmptySet
<1>2. 0 <= made'
  OBVIOUS
<1> QED
  BY <1>1, <1>2, ElsewhereGood

LEMMA PutKept ==
  ASSUME SyncInvariant, NEW k \in Workers, NEW t \in Tasks, Put(k, t),
         UNCHANGED <<rows, upstream, made>>,
         exists' \in BOOLEAN, priced' \in BOOLEAN, reveals' \in BOOLEAN,
         routes' \subseteq Ids, IsFiniteSet(routes'), faults' \in 0 .. MaxFaults,
         Good(k)'
  PROVE  SyncInvariant'
<1>1. /\ task' \in [Workers -> Tasks] /\ task'[k] = t
      /\ \A j \in Workers \ {k} : task'[j] = task[j]
  BY DEF Put, SyncInvariant, SyncTypeOK
<1>2. SyncTypeOK'
  BY <1>1 DEF SyncInvariant, SyncTypeOK
<1>3. ASSUME NEW j \in Workers PROVE Good(j)'
  <2>1. CASE j = k
    BY <2>1
  <2>2. CASE j # k
    <3>1. task'[j] = task[j] /\ Good(j) /\ SyncTypeOK
      BY <1>1, <2>2 DEF SyncInvariant
    <3>2. Bystands(j)
      BY <3>1, SameBystands
    <3>3. made' \in Nat /\ made <= made' /\ upstream' = upstream
      BY <3>1, SyncAssumption DEF SyncTypeOK
    <3>4. rows' \subseteq Rows /\ OfTokens({Cur(j)})' = OfTokens({Cur(j)})
      BY <3>1 DEF SyncTypeOK, OfTokens, Cur
    <3> QED
      BY <3>1, <3>2, <3>3, <3>4, OthersGood
  <2> QED
    BY <2>1, <2>2
<1>4. OneRowPerId'
  BY DEF SyncInvariant, OneRowPerId
<1> QED
  BY <1>2, <1>3, <1>4 DEF SyncInvariant

\* Faults are counted, and what a step leaves alone keeps its type.
LEMMA FaultFacts ==
  ASSUME SyncTypeOK, Working \/ Failing
  PROVE  faults' \in 0 .. MaxFaults
BY SyncAssumption DEF SyncTypeOK, Working, Failing

LEMMA TablesStay ==
  ASSUME SyncTypeOK, UNCHANGED <<db, there>>
  PROVE  /\ UNCHANGED <<rows, upstream, made>>
         /\ exists' \in BOOLEAN /\ priced' \in BOOLEAN /\ reveals' \in BOOLEAN
         /\ routes' \subseteq Ids /\ IsFiniteSet(routes')
BY DEF SyncTypeOK, db, there

LEMMA MadeFacts ==
  ASSUME SyncTypeOK
  PROVE  /\ made \in Nat /\ upstream \in SUBSET Nat /\ upstream \in SUBSET Tokens
         /\ IsFiniteSet(upstream) /\ 1 .. made \subseteq Tokens
         /\ Cardinality(upstream) \in Nat /\ Cardinality(upstream) <= MaxTokens
<1>1. made \in Nat /\ MaxTokens \in Nat /\ made <= MaxTokens /\ upstream \subseteq 1 .. made
  BY SyncAssumption DEF SyncTypeOK
<1>2. 1 .. made \subseteq Tokens
  BY <1>1 DEF Tokens
<1>3. upstream \in SUBSET Tokens /\ upstream \in SUBSET Nat /\ IsFiniteSet(upstream)
  BY <1>1, <1>2, TokensFinite
<1>4. IsFiniteSet(Tokens) /\ Cardinality(Tokens) = MaxTokens
  BY <1>1, FS_Interval DEF Tokens
<1>5. Cardinality(upstream) \in Nat /\ Cardinality(upstream) <= MaxTokens
  BY <1>3, <1>4, FS_Subset, FS_CardinalityType
<1> QED
  BY <1>1, <1>2, <1>3, <1>5

LEMMA StopKept ==
  ASSUME SyncInvariant, NEW k \in Workers, Stop(k) \/ GiveUp(k),
         UNCHANGED <<rows, upstream, made>>,
         exists' \in BOOLEAN, priced' \in BOOLEAN, reveals' \in BOOLEAN,
         routes' \subseteq Ids, IsFiniteSet(routes'), faults' \in 0 .. MaxFaults
  PROVE  SyncInvariant'
<1> DEFINE s == [Idle EXCEPT !.kind = "sync", !.at = "read"]
<1>1. s \in Tasks /\ s.at = "read" /\ s.list = {} /\ s.before = {} /\ s.own = 0
  BY IdleFacts DEF Tasks, Places
<1>2. PICK t \in {s, Over(k)} : Put(k, t)
  BY DEF Stop, GiveUp
<1>3. /\ t \in Tasks /\ t.at \in Elsewhere /\ t.list = {} /\ t.before = {} /\ t.own = 0
  BY <1>1, <1>2, OverFacts DEF Elsewhere, Places
<1>4. task'[k] = t
  BY <1>2 DEF Put, SyncInvariant, SyncTypeOK
<1>5. Good(k)'
  BY <1>3, <1>4, OverGood, MadeFacts DEF SyncInvariant
<1> QED
  BY <1>2, <1>3, <1>5, PutKept

LEMMA StartKept ==
  ASSUME SyncInvariant, NEW k \in Workers, Start(k)
  PROVE  SyncInvariant'
<1> DEFINE t == [Idle EXCEPT !.kind = "sync", !.at = "list"]
<1>0. SyncTypeOK
  BY DEF SyncInvariant
<1>1. /\ t \in Tasks /\ t.at = "list" /\ t.list = {} /\ t.before = {} /\ t.own = 0 /\ t.got = {}
      /\ t.hit = None /\ t.page = 0
  BY IdleFacts DEF Tasks, Places
<1>2. Put(k, t) /\ UNCHANGED <<rows, upstream, made, exists, routes, reveals>>
  BY DEF Start, there
<1>3. priced' \in BOOLEAN /\ faults' \in 0 .. MaxFaults
  BY <1>0, FaultFacts DEF Start, SyncTypeOK
<1> HIDE DEF t
<1>4. task'[k] = t
  BY <1>0, <1>2 DEF Put, SyncTypeOK
<1>5. Newer(0 * PageSize)' = {}
  <2>1. Newer(0) = {}
    BY <1>0, MadeFacts, RankFacts DEF Newer
  <2>2. 0 * PageSize = 0
    BY PageSizes
  <2> QED
    BY <1>2, <2>1, <2>2 DEF Newer, Rank
<1>6. Good(k)'
  <2>1. Sensible(k)' /\ KeyHeld(k)'
    BY <1>1, <1>4, FS_EmptySet DEF Sensible, KeyHeld
  <2>2. PagesRead(k)'
    BY <1>1, <1>4, <1>5 DEF PagesRead, Newer, Rank
  <2>3. OwnIsNew(k)'
    BY <1>0, <1>1, <1>2, <1>4, MadeFacts DEF OwnIsNew
  <2> QED
    BY <2>1, <2>2, <2>3 DEF Good
<1> QED
  BY <1>0, <1>1, <1>2, <1>3, <1>6, PutKept DEF SyncTypeOK

LEMMA RequestKept ==
  ASSUME SyncInvariant, NEW k \in Workers, RebuildStart(k) \/ CreateStart(k) \/ DeleteStart(k)
  PROVE  SyncInvariant'
<1>0. SyncTypeOK
  BY DEF SyncInvariant
<1>1. UNCHANGED <<db, there, faults>> /\ faults' \in 0 .. MaxFaults
  BY <1>0 DEF RebuildStart, CreateStart, DeleteStart, SyncTypeOK
<1>2. made' \in Nat /\ 0 <= made' /\ IsFiniteSet({})
  <2>1. made' \in Nat
    BY <1>0, <1>1, TablesStay, MadeFacts
  <2> QED
    BY <2>1, FS_EmptySet
<1>3. CASE RebuildStart(k)
  <2> DEFINE t == [Idle EXCEPT !.kind = "rebuild", !.at = "read"]
  <2>1. t \in Tasks /\ t.at = "read" /\ t.list = {} /\ t.before = {} /\ t.own = 0
    BY IdleFacts DEF Tasks, Places
  <2>2. Put(k, t)
    BY <1>3 DEF RebuildStart
  <2> HIDE DEF t
  <2>3. task'[k] = t /\ t.at \in Elsewhere
    BY <1>0, <2>1, <2>2 DEF Put, SyncTypeOK, Elsewhere, Places
  <2>4. Good(k)'
    BY <1>2, <2>1, <2>3, OverGood
  <2> QED
    BY <1>0, <1>1, <2>1, <2>2, <2>4, TablesStay, PutKept
<1>4. CASE CreateStart(k)
  <2> DEFINE t == [Idle EXCEPT !.kind = "create", !.at = "before"]
  <2>1. /\ t \in Tasks /\ t.at = "before" /\ t.list = {} /\ t.before = {} /\ t.own = 0
        /\ t.got = {} /\ t.hit = None
    BY IdleFacts DEF Tasks, Places
  <2>2. Put(k, t)
    BY <1>4 DEF CreateStart
  <2> HIDE DEF t
  <2>3. task'[k] = t
    BY <1>0, <2>2 DEF Put, SyncTypeOK
  <2>4. Good(k)'
    BY <1>2, <2>1, <2>3 DEF Good, Sensible, KeyHeld, PagesRead, OwnIsNew
  <2> QED
    BY <1>0, <1>1, <2>1, <2>2, <2>4, TablesStay, PutKept
<1>5. CASE DeleteStart(k)
  <2>1. PICK r \in rows : Put(k, [Idle EXCEPT !.kind = "delete", !.at = "gone", !.hit = r.id,
                                              !.got = {r.id[1]}])
    BY <1>5 DEF DeleteStart
  <2> DEFINE t == [Idle EXCEPT !.kind = "delete", !.at = "gone", !.hit = r.id, !.got = {r.id[1]}]
  <2>2. r.id \in Ids /\ r.id[1] \in Tokens
    BY <1>0, IdFacts DEF SyncTypeOK, Rows
  <2>3. t \in Tasks /\ t.at = "gone" /\ t.list = {} /\ t.before = {} /\ t.own = 0 /\ t.got # {}
    BY <2>2, IdleFacts DEF Tasks, Places
  <2> HIDE DEF t
  <2>4. Put(k, t)
    BY <2>1 DEF t
  <2>5. task'[k] = t
    BY <1>0, <2>4 DEF Put, SyncTypeOK
  <2>6. Good(k)'
    BY <1>2, <2>3, <2>5 DEF Good, Sensible, KeyHeld, PagesRead, OwnIsNew
  <2> QED
    BY <1>0, <1>1, <2>3, <2>4, <2>6, TablesStay, PutKept
<1> QED
  BY <1>3, <1>4, <1>5

LEMMA OwnKept ==
  ASSUME NEW k, OwnIsNew(k), made' = made,
         task'[k].before = task[k].before, task'[k].own = task[k].own,
         task'[k].at \in {"before", "make"} => task[k].at \in {"before", "make"}
  PROVE  OwnIsNew(k)'
BY DEF OwnIsNew

LEMMA ReadPageKept ==
  ASSUME SyncInvariant, NEW k \in Workers, ReadPage(k)
  PROVE  SyncInvariant'
<1> DEFINE p == task[k].page
           all == task[k].got \cup Page(p)
           last == [task[k] EXCEPT !.at = IF all = {} THEN "clean" ELSE "lookup",
                                   !.page = 0, !.got = all, !.todo = all]
           next == [task[k] EXCEPT !.page = @ + 1, !.got = all]
<1>0. SyncTypeOK /\ Good(k)
  BY DEF SyncInvariant
<1>1. task[k] \in Tasks /\ p \in 0 .. MaxTokens /\ p \in Nat /\ task[k].got \in SUBSET Tokens
  BY <1>0, ChoreFacts, SyncAssumption
<1>2. Page(p) \in SUBSET upstream /\ upstream \in SUBSET Tokens /\ IsFiniteSet(upstream)
      /\ upstream \in SUBSET Nat
  BY <1>0, MadeFacts DEF Page
<1>3. all \in SUBSET Tokens
  BY <1>1, <1>2
<1>4. task[k].at = "list" /\ UNCHANGED <<db, there, faults>>
  BY DEF ReadPage, At, Working
<1>5. \/ LastPage(Page(p), all) /\ Put(k, last)
      \/ ~LastPage(Page(p), all) /\ Put(k, next)
  BY DEF ReadPage
<1>6. faults' \in 0 .. MaxFaults /\ UNCHANGED <<rows, upstream, made>>
  BY <1>0, <1>4, TablesStay DEF SyncTypeOK
<1>7. /\ task[k].hit = None /\ IsFiniteSet(task[k].list) /\ OwnIsNew(k)
      /\ ~task[k].moved => task[k].got = Newer(p * PageSize)
  BY <1>0, <1>4 DEF Good, Sensible, PagesRead
<1> HIDE DEF p, all
<1>8. CASE LastPage(Page(p), all) /\ Put(k, last)
  <2>1. /\ last \in Tasks /\ last.todo = all /\ last.got = all /\ last.hit = None
        /\ last.at = (IF all = {} THEN "clean" ELSE "lookup") /\ last.list = task[k].list
        /\ last.before = task[k].before /\ last.own = task[k].own /\ last.moved = task[k].moved
    <3>1. (IF all = {} THEN "clean" ELSE "lookup") \in Places /\ 0 \in 0 .. MaxTokens
      BY SyncAssumption DEF Places
    <3> QED
      BY <1>1, <1>3, <1>7, <3>1 DEF Tasks
  <2> HIDE DEF last
  <2>2. task'[k] = last
    BY <1>0, <1>8 DEF Put, SyncTypeOK
  <2>3. ~last.moved => all = upstream'
    BY <1>1, <1>2, <1>6, <1>7, <1>8, <2>1, LastPageCovers DEF all
  <2>4. Sensible(k)' /\ KeyHeld(k)'
    BY <1>7, <2>1, <2>2 DEF Sensible, KeyHeld
  <2>5. PagesRead(k)'
    BY <2>1, <2>2, <2>3 DEF PagesRead
  <2>6. OwnIsNew(k)'
    BY <1>6, <1>7, <2>1, <2>2, OwnKept
  <2>7. Good(k)'
    BY <2>4, <2>5, <2>6 DEF Good
  <2> QED
    BY <1>0, <1>4, <1>6, <1>8, <2>1, <2>7, TablesStay, PutKept
<1>9. CASE ~LastPage(Page(p), all) /\ Put(k, next)
  <2>1. p + 1 \in 0 .. MaxTokens
    <3>1. Page(p) # {}
      BY <1>9 DEF LastPage
    <3>2. p + 1 <= Cardinality(upstream)
      BY <1>1, <1>2, <3>1, PageFacts
    <3>3. Cardinality(upstream) <= MaxTokens /\ Cardinality(upstream) \in Nat
      BY <1>0, MadeFacts
    <3> QED
      BY <1>1, <3>2, <3>3, SyncAssumption
  <2>2. /\ next \in Tasks /\ next.got = all /\ next.hit = None /\ next.page = p + 1
        /\ next.at = "list" /\ next.list = task[k].list
        /\ next.before = task[k].before /\ next.own = task[k].own /\ next.moved = task[k].moved
    BY <1>1, <1>3, <1>4, <1>7, <2>1 DEF Tasks, p
  <2> HIDE DEF next
  <2>3. task'[k] = next
    BY <1>0, <1>9 DEF Put, SyncTypeOK
  <2>4. ~next.moved => all = Newer((p + 1) * PageSize)
    BY <1>1, <1>2, <1>7, <2>2, PageFacts DEF all
  <2>5. Sensible(k)' /\ KeyHeld(k)'
    BY <1>7, <2>2, <2>3 DEF Sensible, KeyHeld
  <2>6. PagesRead(k)'
    BY <1>6, <2>2, <2>3, <2>4 DEF PagesRead, Newer, Rank
  <2>7. OwnIsNew(k)'
    BY <1>4, <1>6, <1>7, <2>2, <2>3, OwnKept
  <2>8. Good(k)'
    BY <2>5, <2>6, <2>7 DEF Good
  <2> QED
    BY <1>0, <1>4, <1>6, <1>9, <2>2, <2>8, TablesStay, PutKept
<1> QED
  BY <1>5, <1>8, <1>9

LEMMA ReadBeforeKept ==
  ASSUME SyncInvariant, NEW k \in Workers, ReadBefore(k)
  PROVE  SyncInvariant'
<1> DEFINE p == task[k].page
           all == task[k].before \cup Page(p)
           last == [task[k] EXCEPT !.at = "make", !.page = 0, !.before = all]
           next == [task[k] EXCEPT !.page = @ + 1, !.before = all]
<1>0. SyncTypeOK /\ Good(k)
  BY DEF SyncInvariant
<1>1. task[k] \in Tasks /\ p \in 0 .. MaxTokens /\ p \in Nat /\ task[k].before \in SUBSET Tokens
  BY <1>0, ChoreFacts, SyncAssumption
<1>2. /\ Page(p) \in SUBSET upstream /\ upstream \in SUBSET Tokens /\ IsFiniteSet(upstream)
      /\ upstream \in SUBSET Nat /\ upstream \in SUBSET (1 .. made) /\ made \in Nat
  BY <1>0, MadeFacts DEF Page, SyncTypeOK
<1>3. task[k].at = "before" /\ UNCHANGED <<db, there, faults>>
  BY DEF ReadBefore, At, Working
<1>4. /\ task[k].own = 0 /\ IsFiniteSet(task[k].list) /\ task[k].before \subseteq 1 .. made
      /\ task[k].hit = None /\ task[k].got = {}
  BY <1>0, <1>3 DEF Good, Sensible, OwnIsNew
<1>5. all \in SUBSET Tokens /\ all \subseteq 1 .. made /\ 0 \notin all
  BY <1>1, <1>2, <1>4, TokensFinite
<1>6. \/ Put(k, last)
      \/ ~LastPage(Page(p), all) /\ Put(k, next)
  BY DEF ReadBefore
<1>7. faults' \in 0 .. MaxFaults /\ UNCHANGED <<rows, upstream, made>>
  BY <1>0, <1>3, TablesStay DEF SyncTypeOK
<1> HIDE DEF p, all
<1>8. ASSUME NEW t \in Tasks, Put(k, t), t.at \in {"before", "make"}, t.before = all, t.own = 0,
             t.list = task[k].list, t.hit = None, t.got = {}, t.at = "make" => t.page = 0
      PROVE  SyncInvariant'
  <2>1. task'[k] = t
    BY <1>0, <1>8 DEF Put, SyncTypeOK
  <2>2. OwnIsNew(k)'
    <3>1. 0 <= made /\ made' = made
      BY <1>2, <1>7
    <3> QED
      BY <1>5, <1>8, <2>1, <3>1 DEF OwnIsNew
  <2>3. Good(k)'
    BY <1>4, <1>8, <2>1, <2>2 DEF Good, Sensible, KeyHeld, PagesRead
  <2> QED
    BY <1>0, <1>3, <1>7, <1>8, <2>3, TablesStay, PutKept
<1>9. CASE Put(k, last)
  <2>1. /\ last \in Tasks /\ last.at = "make" /\ last.before = all /\ last.own = 0
        /\ last.list = task[k].list /\ last.hit = None /\ last.got = {} /\ last.page = 0
    BY <1>1, <1>4, <1>5, SyncAssumption DEF Tasks, Places
  <2> QED
    BY <1>8, <1>9, <2>1
<1>10. CASE ~LastPage(Page(p), all) /\ Put(k, next)
  <2>1. p + 1 \in 0 .. MaxTokens
    <3>1. Page(p) # {}
      BY <1>10 DEF LastPage
    <3>2. p + 1 <= Cardinality(upstream)
      BY <1>1, <1>2, <3>1, PageFacts
    <3>3. Cardinality(upstream) <= MaxTokens /\ Cardinality(upstream) \in Nat
      BY <1>0, MadeFacts
    <3> QED
      BY <1>1, <3>2, <3>3, SyncAssumption
  <2>2. /\ next \in Tasks /\ next.at = "before" /\ next.before = all /\ next.own = 0
        /\ next.list = task[k].list /\ next.hit = None /\ next.got = {}
    BY <1>1, <1>3, <1>4, <1>5, <2>1 DEF Tasks, Places, p
  <2> QED
    BY <1>8, <1>10, <2>2
<1> QED
  BY <1>6, <1>9, <1>10

\* A goroutine that fails, or is done.
LEMMA EndKept ==
  ASSUME SyncInvariant, NEW k \in Workers, ListFails(k) \/ WriteFails(k) \/ Identify(k)
  PROVE  SyncInvariant'
<1>1. SyncTypeOK /\ UNCHANGED <<db, there>>
  BY DEF SyncInvariant, ListFails, WriteFails, Identify
<1>2. faults' \in 0 .. MaxFaults
  BY <1>1, FaultFacts DEF ListFails, WriteFails, Identify
<1>3. Stop(k) \/ GiveUp(k)
  BY DEF ListFails, WriteFails, Identify
<1> QED
  BY <1>1, <1>2, <1>3, TablesStay, StopKept

LEMMA ReconcileKept ==
  ASSUME SyncInvariant, NEW k \in Workers, Reconcile(k)
  PROVE  SyncInvariant'
<1> DEFINE held == FirstReady(Cur(k))
           T(key, blind) == [task[k] EXCEPT !.at = "find", !.key = key, !.blind = blind]
<1>0. SyncTypeOK /\ Good(k) /\ task[k] \in Tasks
  BY ChoreFacts DEF SyncInvariant
<1>1. task[k].at = "lookup" /\ UNCHANGED <<db, there>> /\ faults' \in 0 .. MaxFaults
  BY <1>0, FaultFacts DEF Reconcile, At
<1>2. held \in BOOLEAN
  BY DEF FirstReady
<1>3. PICK key \in BOOLEAN, blind \in BOOLEAN : (blind \/ (held => key)) /\ Put(k, T(key, blind))
  <2>1. \A shown \in Shown(Cur(k)) : shown \in BOOLEAN
    BY DEF Shown
  <2>2. CASE \E shown \in Shown(Cur(k)) : Put(k, T(shown \/ held, FALSE))
    <3>1. PICK shown \in BOOLEAN : Put(k, T(shown \/ held, FALSE))
      BY <2>1, <2>2
    <3>2. (shown \/ held) \in BOOLEAN
      OBVIOUS
    <3> QED
      BY <3>1, <3>2
  <2>3. CASE Put(k, T(held, FALSE))
    BY <1>2, <2>3
  <2>4. CASE \E shown \in Shown(Cur(k)) : Put(k, T(shown, TRUE))
    BY <2>1, <2>4
  <2> QED
    BY <2>2, <2>3, <2>4 DEF Reconcile
<1> DEFINE t == T(key, blind)
<1>4. /\ t \in Tasks /\ t.at = "find" /\ t.key = key /\ t.blind = blind /\ t.list = task[k].list
      /\ t.hit = task[k].hit /\ t.todo = task[k].todo /\ t.got = task[k].got
      /\ t.before = task[k].before /\ t.own = task[k].own /\ t.moved = task[k].moved
  BY <1>0 DEF Tasks, Places
<1> HIDE DEF T
<1>5. UNCHANGED <<rows, upstream, made>> /\ task'[k] = t /\ Cur(k)' = Cur(k)
  <2>1. UNCHANGED <<rows, upstream, made>> /\ task'[k] = t
    BY <1>0, <1>1, <1>3, TablesStay DEF Put, SyncTypeOK
  <2> QED
    BY <1>4, <2>1 DEF Cur
<1> HIDE DEF t
<1>6. Sensible(k)'
  BY <1>0, <1>1, <1>4, <1>5 DEF Good, Sensible
<1>7. KeyHeld(k)'
  <2>1. FirstReady(Cur(k))' = held
    BY <1>5 DEF FirstReady, RowOf, FirstId, OfTokens
  <2> QED
    BY <1>3, <1>4, <1>5, <2>1 DEF KeyHeld
<1>8. PagesRead(k)'
  BY <1>0, <1>1, <1>4, <1>5 DEF Good, PagesRead
<1>9. OwnIsNew(k)'
  BY <1>0, <1>4, <1>5, OwnKept DEF Good
<1>10. Put(k, t) /\ Good(k)'
  BY <1>3, <1>6, <1>7, <1>8, <1>9 DEF Good, t
<1> QED
  BY <1>0, <1>1, <1>4, <1>10, TablesStay, PutKept

LEMMA FindKept ==
  ASSUME SyncInvariant, NEW k \in Workers, Find(k)
  PROVE  SyncInvariant'
<1>0. SyncTypeOK /\ Good(k) /\ task[k] \in Tasks
  BY ChoreFacts DEF SyncInvariant
<1>1. task[k].at = "find" /\ UNCHANGED <<db, there>> /\ faults' \in 0 .. MaxFaults
  BY <1>0, FaultFacts DEF Find, At
<1>2. task[k].hit = None /\ Cur(k) \in Tokens
  BY <1>0, <1>1, CurFacts DEF Good, Sensible
<1> DEFINE T(hit, blind) == [task[k] EXCEPT !.at = "write", !.hit = hit, !.blind = blind]
<1>3. PICK hit \in {None, FirstId(Cur(k))}, blind \in BOOLEAN :
        /\ Put(k, T(hit, blind))
        /\ ~blind => hit = FirstId(Cur(k)) /\ ~task[k].blind
  <2>1. task[k].blind \in BOOLEAN
    BY <1>0, ChoreFacts
  <2>2. CASE Put(k, [task[k] EXCEPT !.at = "write", !.hit = FirstId(Cur(k))])
    <3>1. [task[k] EXCEPT !.at = "write", !.hit = FirstId(Cur(k))] = T(FirstId(Cur(k)), task[k].blind)
      BY <1>0 DEF Tasks
    <3> QED
      BY <2>1, <2>2, <3>1
  <2>3. CASE Put(k, [task[k] EXCEPT !.at = "write", !.blind = TRUE])
    <3>1. [task[k] EXCEPT !.at = "write", !.blind = TRUE] = T(None, TRUE)
      BY <1>0, <1>2 DEF Tasks
    <3> QED
      BY <2>3, <3>1
  <2> QED
    BY <2>2, <2>3 DEF Find
<1>4. hit \in Ids \cup {None} /\ (hit # None => hit[1] = Cur(k))
  BY <1>0, <1>2, <1>3, FirstIdFacts DEF SyncTypeOK
<1> DEFINE t == T(hit, blind)
<1>5. /\ t \in Tasks /\ t.at = "write" /\ t.key = task[k].key /\ t.blind = blind
      /\ t.shared = task[k].shared /\ t.list = task[k].list
      /\ t.hit = hit /\ t.todo = task[k].todo /\ t.got = task[k].got
      /\ t.before = task[k].before /\ t.own = task[k].own /\ t.moved = task[k].moved
  BY <1>0, <1>4 DEF Tasks, Places
<1> HIDE DEF T
<1>6. UNCHANGED <<rows, upstream, made>> /\ task'[k] = t /\ Cur(k)' = Cur(k)
  <2>1. UNCHANGED <<rows, upstream, made>> /\ task'[k] = t
    BY <1>0, <1>1, <1>3, TablesStay DEF Put, SyncTypeOK
  <2> QED
    BY <1>5, <2>1 DEF Cur
<1> HIDE DEF t
<1>7. Sensible(k)'
  BY <1>0, <1>1, <1>4, <1>5, <1>6 DEF Good, Sensible
<1>8. KeyHeld(k)'
  <2>1. FirstReady(Cur(k))' = FirstReady(Cur(k)) /\ FirstId(Cur(k))' = FirstId(Cur(k))
    BY <1>6 DEF FirstReady, RowOf, FirstId, OfTokens
  <2>2. ~t.blind /\ ~t.shared => (FirstReady(Cur(k)) => t.key)
    BY <1>0, <1>1, <1>3, <1>5 DEF Good, KeyHeld
  <2> QED
    BY <1>3, <1>5, <1>6, <2>1, <2>2 DEF KeyHeld
<1>9. PagesRead(k)'
  BY <1>0, <1>1, <1>5, <1>6 DEF Good, PagesRead
<1>10. OwnIsNew(k)'
  BY <1>0, <1>5, <1>6, OwnKept DEF Good
<1>11. Put(k, t) /\ Good(k)'
  BY <1>3, <1>7, <1>8, <1>9, <1>10 DEF Good, t
<1> QED
  BY <1>0, <1>1, <1>5, <1>11, TablesStay, PutKept

LEMMA RunnableFacts ==
  ASSUME SyncTypeOK
  PROVE  Runnable \in SUBSET Ids /\ IsFiniteSet(Runnable)
<1> DEFINE ready == {r \in rows : r.ready}
           idOf == [r \in ready |-> r.id]
<1>1. IsFiniteSet(ready)
  BY FS_Subset DEF SyncTypeOK
<1>2. IsFiniteSet({idOf[r] : r \in ready})
  BY <1>1, ImageFinite
<1>3. Runnable = {idOf[r] : r \in ready}
  BY DEF Runnable
<1>4. Runnable \in SUBSET Ids
  BY DEF Runnable, SyncTypeOK, Rows
<1> QED
  BY <1>2, <1>3, <1>4

\* After the routes a creation says which token it has made; the others are done.
LEMMA EndRoutesKept ==
  ASSUME SyncInvariant, NEW k \in Workers, EndRoutes(k), task[k].at \in {"read", "commit"},
         UNCHANGED <<rows, upstream, made>>,
         exists' \in BOOLEAN, priced' \in BOOLEAN, reveals' \in BOOLEAN,
         routes' \subseteq Ids, IsFiniteSet(routes'), faults' \in 0 .. MaxFaults
  PROVE  SyncInvariant'
<1>0. SyncTypeOK /\ Good(k) /\ task[k] \in Tasks /\ made \in Nat
  BY ChoreFacts, MadeFacts DEF SyncInvariant
<1>1. CASE Put(k, Over(k))
  BY <1>1, StopKept DEF Stop
<1>2. CASE Put(k, [task[k] EXCEPT !.at = "identify", !.list = {}])
  <2> DEFINE t == [task[k] EXCEPT !.at = "identify", !.list = {}]
  <2>1. /\ t \in Tasks /\ t.at = "identify" /\ t.list = {}
        /\ t.before = task[k].before /\ t.own = task[k].own
    BY <1>0 DEF Tasks, Places
  <2> HIDE DEF t
  <2>2. Put(k, t)
    BY <1>2 DEF t
  <2>3. task'[k] = t /\ t.at \in Elsewhere /\ IsFiniteSet({})
    BY <1>0, <2>1, <2>2, FS_EmptySet DEF Put, SyncTypeOK, Elsewhere, Places
  <2>4. Good(k)'
    BY <1>0, <2>1, <2>3, ElsewhereGood DEF Good, OwnIsNew
  <2> QED
    BY <2>1, <2>2, <2>4, PutKept
<1> QED
  BY <1>1, <1>2 DEF EndRoutes

LEMMA RoutesKept ==
  ASSUME SyncInvariant, NEW k \in Workers, ReadTables(k) \/ Commit(k)
  PROVE  SyncInvariant'
<1>0. SyncTypeOK /\ Good(k) /\ task[k] \in Tasks /\ made \in Nat
  BY ChoreFacts, MadeFacts DEF SyncInvariant
<1>1. faults' \in 0 .. MaxFaults
  BY <1>0, FaultFacts DEF ReadTables, Commit
<1>2. CASE ReadTables(k) /\ EndRoutes(k)
  BY <1>0, <1>1, <1>2, TablesStay, EndRoutesKept DEF ReadTables, At
<1>3. CASE ReadTables(k) /\ ~EndRoutes(k)
  <2> DEFINE list == IF priced THEN Runnable ELSE {}
             t == [task[k] EXCEPT !.at = "commit", !.list = list]
  <2>1. list \in SUBSET Ids /\ IsFiniteSet(list)
    BY <1>0, RunnableFacts, FS_EmptySet
  <2>2. Put(k, t) /\ UNCHANGED <<db, there>>
    BY <1>3 DEF ReadTables
  <2> HIDE DEF list
  <2>3. /\ t \in Tasks /\ t.at = "commit" /\ t.list = list
        /\ t.before = task[k].before /\ t.own = task[k].own
    BY <1>0, <2>1 DEF Tasks, Places
  <2> HIDE DEF t
  <2>4. task'[k] = t /\ t.at \in Elsewhere /\ made' = made
    BY <1>0, <2>2, <2>3, TablesStay DEF Put, SyncTypeOK, Elsewhere, Places
  <2>5. Good(k)'
    BY <1>0, <2>1, <2>3, <2>4, ElsewhereGood DEF Good, OwnIsNew
  <2> QED
    BY <1>0, <1>1, <2>2, <2>3, <2>5, TablesStay, PutKept
<1>4. CASE Commit(k)
  <2>1. /\ task[k].at = "commit" /\ EndRoutes(k) /\ UNCHANGED <<exists, priced, rows, there>>
        /\ routes' \in {task[k].list, routes}
    BY <1>4 DEF Commit, At
  <2>2. task[k].list \in SUBSET Ids /\ IsFiniteSet(task[k].list)
    BY <1>0, ChoreFacts DEF Good, Sensible
  <2>3. routes' \subseteq Ids /\ IsFiniteSet(routes')
    BY <1>0, <2>1, <2>2 DEF SyncTypeOK
  <2> QED
    BY <1>0, <1>1, <2>1, <2>3, EndRoutesKept DEF SyncTypeOK, there
<1> QED
  BY <1>2, <1>3, <1>4

LEMMA UnrouteKept ==
  ASSUME SyncInvariant, NEW k \in Workers, Unroute(k)
  PROVE  SyncInvariant'
<1>0. SyncTypeOK /\ Good(k) /\ task[k] \in Tasks /\ made \in Nat
  BY ChoreFacts, MadeFacts DEF SyncInvariant
<1>1. /\ faults' \in 0 .. MaxFaults /\ UNCHANGED <<exists, priced, rows, there>>
      /\ task[k].at = "unroute" /\ routes' \in {routes, routes \ {task[k].hit}}
  BY <1>0, FaultFacts DEF Unroute, At
<1>2. routes' \subseteq Ids /\ IsFiniteSet(routes')
  BY <1>0, <1>1, FS_Subset DEF SyncTypeOK
<1>3. /\ exists' \in BOOLEAN /\ priced' \in BOOLEAN /\ reveals' \in BOOLEAN
      /\ UNCHANGED <<rows, upstream, made>>
  BY <1>0, <1>1 DEF SyncTypeOK, there
<1>4. CASE Stop(k)
  BY <1>1, <1>2, <1>3, <1>4, StopKept
<1>5. CASE Go(k, "unrow")
  <2> DEFINE t == [task[k] EXCEPT !.at = "unrow"]
  <2>1. /\ t \in Tasks /\ t.at = "unrow" /\ t.list = task[k].list
        /\ t.before = task[k].before /\ t.own = task[k].own
    BY <1>0 DEF Tasks, Places
  <2> HIDE DEF t
  <2>2. Put(k, t)
    BY <1>5 DEF Go, t
  <2>3. task'[k] = t /\ t.at \in Elsewhere
    BY <1>0, <2>1, <2>2 DEF Put, SyncTypeOK, Elsewhere, Places
  <2>4. Good(k)'
    BY <1>0, <1>3, <2>1, <2>3, ElsewhereGood DEF Good, Sensible, OwnIsNew
  <2> QED
    BY <1>1, <1>2, <1>3, <2>1, <2>2, <2>4, PutKept
<1> QED
  BY <1>4, <1>5 DEF Unroute

-----------------------------------------------------------------------------
(* Steps that write rows                                                    *)

LEMMA TouchFacts ==
  ASSUME SyncTypeOK, NEW k \in Workers, NEW ups, NEW t \in Tasks, Touch(k, ups, t)
  PROVE  /\ task' \in [Workers -> Tasks] /\ task'[k] = t
         /\ \A j \in Workers \ {k} :
              /\ Bystands(j)
              /\ task[j].at \in {"find", "write"} /\ ~task'[j].shared => Cur(j) \notin ups
<1> DEFINE Told(j) == [task[j] EXCEPT !.shared = TRUE]
<1>1. \A j \in Workers : task[j] \in Tasks /\ Told(j) \in Tasks
  <2> SUFFICES ASSUME NEW j \in Workers PROVE task[j] \in Tasks /\ Told(j) \in Tasks
    OBVIOUS
  <2>1. task[j] \in Tasks
    BY ChoreFacts
  <2> QED
    BY <2>1 DEF Tasks
<1> HIDE DEF Told
<1>2. \A j \in Workers \ {k} :
        \/ /\ task'[j] = task[j]
           /\ ~(task[j].at \in {"find", "write"} /\ Cur(j) \in ups)
        \/ task'[j] = Told(j)
  BY DEF Touch, Told
<1>3. task' \in [Workers -> Tasks] /\ task'[k] = t
  <2>1. \A j \in Workers : task'[j] \in Tasks
    BY <1>1 DEF Touch, Told
  <2>2. task' = [j \in Workers |-> task'[j]] /\ task'[k] = t
    BY DEF Touch
  <2> QED
    BY <2>1, <2>2
<1>4. ASSUME NEW j \in Workers \ {k}
      PROVE  /\ Bystands(j)
             /\ task[j].at \in {"find", "write"} /\ ~task'[j].shared => Cur(j) \notin ups
  <2>1. CASE task'[j] = task[j] /\ ~(task[j].at \in {"find", "write"} /\ Cur(j) \in ups)
    BY <2>1, SameBystands
  <2>2. CASE task'[j] = Told(j)
    <3>1. /\ task'[j].shared = TRUE /\ task'[j].moved = task[j].moved /\ task[j].moved \in BOOLEAN
          /\ [task[j] EXCEPT !.shared = TRUE]
               = [task[j] EXCEPT !.shared = TRUE, !.moved = task[j].moved]
      BY <1>1, <2>2 DEF Tasks, Told
    <3> QED
      BY <2>2, <3>1 DEF Bystands, Told
  <2> QED
    BY <1>2, <2>1, <2>2
<1> QED
  BY <1>3, <1>4

LEMMA TouchKept ==
  ASSUME SyncInvariant, NEW k \in Workers, NEW ups, NEW t \in Tasks, Touch(k, ups, t),
         rows' \subseteq Rows, IsFiniteSet(rows'), OneRowPerId',
         \A u \in Tokens \ ups : OfTokens({u})' = OfTokens({u}),
         UNCHANGED <<exists, priced, routes, there>>, faults' \in 0 .. MaxFaults,
         Good(k)'
  PROVE  SyncInvariant'
<1>0. SyncTypeOK
  BY DEF SyncInvariant
<1>1. SyncTypeOK'
  BY <1>0, TouchFacts DEF SyncTypeOK, there
<1>2. ASSUME NEW j \in Workers \ {k} PROVE Good(j)'
  <2>1. Good(j) /\ Bystands(j)
    BY <1>0, TouchFacts DEF SyncInvariant
  <2>2. made' \in Nat /\ made <= made' /\ upstream' = upstream
    BY <1>0, MadeFacts DEF there
  <2>3. ASSUME task[j].at \in {"find", "write"}, ~task'[j].shared
        PROVE  OfTokens({Cur(j)})' = OfTokens({Cur(j)})
    <3>1. Cur(j) \in Tokens \ ups
      BY <1>0, <2>1, <2>3, TouchFacts, CurFacts DEF Good
    <3>2. PICK u \in Tokens \ ups : u = Cur(j)
      BY <3>1
    <3>3. u = Cur(j)'
      BY <1>0, <2>1, <3>2, BystandFacts
    <3> QED
      BY <3>2, <3>3 DEF OfTokens
  <2> QED
    BY <1>0, <2>1, <2>2, <2>3, OthersGood
<1> QED
  BY <1>1, <1>2 DEF SyncInvariant

\* The rows that are left when some are deleted.
LEMMA FewerRows ==
  ASSUME SyncTypeOK, OneRowPerId, NEW gone, rows' = rows \ gone
  PROVE  /\ rows' \subseteq Rows /\ IsFiniteSet(rows') /\ OneRowPerId'
         /\ \A u \in Tokens \ {r.id[1] : r \in gone} : OfTokens({u})' = OfTokens({u})
<1>1. rows' \subseteq Rows /\ IsFiniteSet(rows') /\ OneRowPerId'
  BY FS_Subset DEF SyncTypeOK, OneRowPerId
<1>2. ASSUME NEW u \in Tokens \ {r.id[1] : r \in gone} PROVE OfTokens({u})' = OfTokens({u})
  BY DEF OfTokens
<1> QED
  BY <1>1, <1>2

LEMMA CleanKept ==
  ASSUME SyncInvariant, NEW k \in Workers, Clean(k)
  PROVE  SyncInvariant'
<1> DEFINE s == [Idle EXCEPT !.kind = "sync", !.at = "read"]
           c == [task[k] EXCEPT !.at = "read", !.moved = FALSE]
           next == IF task[k].kind = "sync" THEN s ELSE c
           gone == rows \ OfTokens(task[k].got)
<1>0. SyncTypeOK /\ OneRowPerId /\ Good(k) /\ task[k] \in Tasks /\ made \in Nat
  BY ChoreFacts, MadeFacts DEF SyncInvariant
<1>1. /\ s \in Tasks /\ s.at = "read" /\ s.list = {} /\ s.before = {} /\ s.own = 0
      /\ c \in Tasks /\ c.at = "read" /\ c.list = task[k].list /\ c.before = task[k].before
      /\ c.own = task[k].own
  <2>1. s \in Tasks /\ s.at = "read" /\ s.list = {} /\ s.before = {} /\ s.own = 0
    BY IdleFacts DEF Tasks, Places
  <2>2. /\ c \in Tasks /\ c.at = "read" /\ c.list = task[k].list /\ c.before = task[k].before
        /\ c.own = task[k].own
    BY <1>0 DEF Tasks, Places
  <2> QED
    BY <2>1, <2>2
<1>2. next \in {s, c}
  OBVIOUS
<1> HIDE DEF s, c
<1>3. faults' \in 0 .. MaxFaults /\ UNCHANGED <<exists, priced, routes, there>>
  BY <1>0, FaultFacts DEF Clean
<1>4. \/ rows' = rows \ gone /\ Touch(k, {r.id[1] : r \in gone}, next)
      \/ rows' = rows /\ Put(k, next)
  BY DEF Clean, s, c
<1>5. next \in Tasks /\ next.at \in Elsewhere /\ IsFiniteSet(next.list)
  BY <1>0, <1>1, <1>2, FS_EmptySet DEF Elsewhere, Places, Good, Sensible
<1> HIDE DEF next, gone
<1>6. task'[k] = next
  <2>1. CASE Touch(k, {r.id[1] : r \in gone}, next)
    BY <1>0, <1>5, <2>1, TouchFacts
  <2>2. CASE Put(k, next)
    BY <1>0, <2>2 DEF Put, SyncTypeOK
  <2> QED
    BY <1>4, <2>1, <2>2
<1>7. Good(k)'
  <2>1. /\ next.before \subseteq 1 .. made /\ next.own <= made /\ next.own \notin next.before
        /\ made' = made
    BY <1>0, <1>1, <1>2, <1>3 DEF Good, OwnIsNew, there
  <2> QED
    BY <1>5, <1>6, <2>1, ElsewhereGood
<1>8. CASE rows' = rows \ gone /\ Touch(k, {r.id[1] : r \in gone}, next)
  BY <1>0, <1>3, <1>5, <1>7, <1>8, FewerRows, TouchKept
<1>9. CASE rows' = rows /\ Put(k, next)
  BY <1>0, <1>3, <1>5, <1>7, <1>9, PutKept DEF SyncTypeOK, there
<1> QED
  BY <1>4, <1>8, <1>9

LEMMA UnrowKept ==
  ASSUME SyncInvariant, NEW k \in Workers, Unrow(k)
  PROVE  SyncInvariant'
<1> DEFINE gone == RowOf(task[k].hit)
<1>0. SyncTypeOK /\ OneRowPerId /\ made \in Nat
  BY MadeFacts DEF SyncInvariant
<1>1. faults' \in 0 .. MaxFaults /\ UNCHANGED <<exists, priced, routes, there>>
  BY <1>0, FaultFacts DEF Unrow
<1>2. CASE rows' = rows \ gone /\ Touch(k, {r.id[1] : r \in gone}, Over(k))
  <2> HIDE DEF gone
  <2>1. task'[k] = Over(k) /\ made' \in Nat
    BY <1>0, <1>1, <1>2, OverFacts, TouchFacts DEF there
  <2>2. Good(k)'
    BY <2>1, OverFacts, OverGood DEF Elsewhere, Places
  <2> QED
    BY <1>0, <1>1, <1>2, <2>2, OverFacts, FewerRows, TouchKept
<1>3. CASE UNCHANGED rows /\ Stop(k)
  BY <1>0, <1>1, <1>3, StopKept DEF SyncTypeOK, there
<1> QED
  BY <1>2, <1>3 DEF Unrow

\* A row is written, or made: no other token's rows change.
LEMMA WrittenRows ==
  ASSUME SyncInvariant, NEW k \in Workers, Write(k)
  PROVE  /\ rows' \subseteq Rows /\ IsFiniteSet(rows') /\ OneRowPerId'
         /\ \A u \in Tokens \ {Cur(k)} : OfTokens({u})' = OfTokens({u})
<1> DEFINE hit == task[k].hit
           new == [id |-> FreshId(Cur(k)), ready |-> task[k].key]
           Written(r) == IF r.id = hit THEN [r EXCEPT !.ready = task[k].key] ELSE r
<1>0. SyncTypeOK /\ OneRowPerId /\ Good(k) /\ task[k].key \in BOOLEAN /\ task[k].at = "write"
  BY ChoreFacts DEF SyncInvariant, Write, At
<1>1. Cur(k) \in Tokens
  BY <1>0, CurFacts DEF Good
<1>2. PICK u \in Tokens : u = Cur(k)
  BY <1>1
<1>3. rows \subseteq Rows /\ IsFiniteSet(rows)
  BY <1>0 DEF SyncTypeOK
<1>4. CASE hit = None
  <2>1. rows' = rows \cup {new}
    BY <1>4 DEF Write
  <2>2. /\ FreshId(Cur(k)) \in Ids /\ FreshId(Cur(k))[1] = Cur(k)
        /\ \A r \in rows : r.id # FreshId(Cur(k))
    BY <1>0, <1>1, FreshFacts DEF SyncInvariant, Good, Sensible
  <2>3. new \in Rows /\ new.id[1] = u /\ \A r \in rows : r.id # new.id
    BY <1>0, <1>2, <2>2 DEF Rows
  <2> HIDE DEF new
  <2>4. rows' \subseteq Rows /\ IsFiniteSet(rows')
    BY <1>3, <2>1, <2>3, FS_AddElement
  <2>5. OneRowPerId'
    BY <1>0, <2>1, <2>3 DEF OneRowPerId
  <2>6. \A v \in Tokens \ {u} : OfTokens({v})' = OfTokens({v})
    BY <2>1, <2>3 DEF OfTokens
  <2> QED
    BY <1>2, <2>4, <2>5, <2>6
<1>5. CASE hit # None
  <2>1. rows' = {Written(r) : r \in rows}
    BY <1>5 DEF Write
  <2>2. hit[1] = u
    BY <1>0, <1>2, <1>5 DEF Good, Sensible
  <2>3. \A r \in rows : /\ Written(r) \in Rows /\ Written(r).id = r.id
                        /\ r.id # hit => Written(r) = r
    BY <1>0, <1>3 DEF Rows
  <2> HIDE DEF Written
  <2>4. IsFiniteSet(rows')
    <3> DEFINE f == [r \in rows |-> Written(r)]
    <3>1. IsFiniteSet({f[r] : r \in rows})
      BY <1>3, ImageFinite
    <3>2. {f[r] : r \in rows} = {Written(r) : r \in rows}
      OBVIOUS
    <3> QED
      BY <2>1, <3>1, <3>2
  <2>5. rows' \subseteq Rows
    BY <2>1, <2>3
  <2>6. OneRowPerId'
    <3>1. \A r, s \in rows : r.id = s.id => r = s
      BY <1>0 DEF OneRowPerId
    <3> QED
      BY <2>1, <2>3, <3>1 DEF OneRowPerId
  <2>7. ASSUME NEW v \in Tokens \ {u} PROVE OfTokens({v})' = OfTokens({v})
    <3>1. \A r \in rows : r.id[1] = v => Written(r) = r
      BY <2>2, <2>3, <2>7
    <3>2. \A r \in rows : Written(r).id[1] = v <=> r.id[1] = v
      BY <2>3
    <3>3. \A r \in rows' : r.id[1] = v => r \in rows
      BY <2>1, <3>1, <3>2
    <3>4. \A r \in rows : r.id[1] = v => r \in rows'
      BY <2>1, <3>1
    <3> QED
      BY <3>3, <3>4 DEF OfTokens
  <2> QED
    BY <1>2, <2>4, <2>5, <2>6, <2>7
<1> QED
  BY <1>4, <1>5

LEMMA WriteKept ==
  ASSUME SyncInvariant, NEW k \in Workers, Write(k)
  PROVE  SyncInvariant'
<1> DEFINE left == task[k].todo \ {Cur(k)}
           place == IF left = {} THEN "clean" ELSE "lookup"
           t == [task[k] EXCEPT !.at = place, !.todo = left, !.key = FALSE, !.hit = None,
                                !.blind = FALSE, !.shared = FALSE]
<1>0. SyncTypeOK /\ Good(k) /\ task[k] \in Tasks /\ task[k].at = "write"
  BY ChoreFacts DEF SyncInvariant, Write, At
<1>1. left \in SUBSET Tokens
  BY <1>0, ChoreFacts
<1>2. t = AfterWrite(k)
  BY DEF AfterWrite
<1> HIDE DEF left
<1>3. place \in Places /\ place \in {"clean", "lookup"} /\ (place = "lookup" => left # {})
  BY DEF Places
<1> HIDE DEF place
<1>4. /\ t \in Tasks /\ t.at = place /\ t.todo = left /\ t.hit = None /\ t.list = task[k].list
      /\ t.got = task[k].got /\ t.moved = task[k].moved
      /\ t.before = task[k].before /\ t.own = task[k].own
  BY <1>0, <1>1, <1>3 DEF Tasks
<1>5. Touch(k, {Cur(k)}, t) /\ UNCHANGED <<exists, priced, routes, there>>
  BY <1>2 DEF Write
<1> HIDE DEF t
<1>6. faults' \in 0 .. MaxFaults
  BY <1>0, FaultFacts DEF Write
<1>7. task'[k] = t /\ made' = made /\ upstream' = upstream
  BY <1>0, <1>4, <1>5, TouchFacts DEF there
<1>8. Sensible(k)' /\ KeyHeld(k)'
  BY <1>0, <1>3, <1>4, <1>7 DEF Good, Sensible, KeyHeld
<1>9. PagesRead(k)'
  BY <1>0, <1>3, <1>4, <1>7 DEF Good, PagesRead
<1>10. OwnIsNew(k)'
  BY <1>0, <1>3, <1>4, <1>7, OwnKept DEF Good
<1>11. Good(k)'
  BY <1>8, <1>9, <1>10 DEF Good
<1> QED
  BY <1>4, <1>5, <1>6, <1>11, WrittenRows, TouchKept

-----------------------------------------------------------------------------
(* Steps in which a token comes or goes                                     *)

LEMMA PassedFacts ==
  ASSUME SyncInvariant, NEW j \in Workers, task'[j] = Passed(task)[j],
         UNCHANGED rows, made' \in Nat, made <= made'
  PROVE  task'[j] \in Tasks /\ Good(j)'
<1> DEFINE Told == [task[j] EXCEPT !.moved = TRUE]
           begun == task[j].at \in {"list", "lookup", "find", "write", "clean"}
<1>0. SyncTypeOK /\ Good(j) /\ task[j] \in Tasks
  BY ChoreFacts DEF SyncInvariant
<1>1. Told \in Tasks /\ Told.moved = TRUE
  BY <1>0 DEF Tasks
<1>2. task'[j] = IF begun THEN Told ELSE task[j]
  BY DEF Passed
<1>3. Bystands(j)
  <2>1. CASE ~begun
    BY <1>0, <1>2, <2>1, SameBystands
  <2>2. CASE begun
    <3>1. /\ task'[j].moved = TRUE /\ task'[j].shared = task[j].shared /\ task[j].shared \in BOOLEAN
          /\ [task[j] EXCEPT !.moved = TRUE]
               = [task[j] EXCEPT !.shared = task[j].shared, !.moved = TRUE]
      BY <1>0, <1>2, <2>2 DEF Tasks
    <3> QED
      BY <1>2, <2>2, <3>1 DEF Bystands
  <2> QED
    BY <2>1, <2>2
<1>4. begun => task'[j].moved
  BY <1>1, <1>2
<1> HIDE DEF Told
<1>5. task'[j] \in Tasks
  BY <1>0, <1>1, <1>2
<1>6. rows' \subseteq Rows /\ OfTokens({Cur(j)})' = OfTokens({Cur(j)})
  BY <1>0, <1>3, BystandFacts DEF SyncTypeOK, OfTokens
<1>7. Good(j)'
  BY <1>0, <1>3, <1>4, <1>6, OthersGood
<1> QED
  BY <1>5, <1>7

\* The change of the upstream passes all but the one that makes it.
LEMMA PassKept ==
  ASSUME SyncInvariant, NEW k \in Workers, NEW t \in Tasks,
         task' = [Passed(task) EXCEPT ![k] = t],
         UNCHANGED <<db, reveals>>, made' \in 0 .. MaxTokens, made <= made',
         upstream' \subseteq 1 .. made', faults' \in 0 .. MaxFaults,
         Good(k)'
  PROVE  SyncInvariant'
<1>0. SyncTypeOK /\ OneRowPerId /\ UNCHANGED rows /\ made' \in Nat
  BY SyncAssumption DEF SyncInvariant, db
<1>1. DOMAIN Passed(task) = Workers /\ task' = [j \in Workers |-> task'[j]]
  BY DEF Passed
<1>2. task'[k] = t /\ \A j \in Workers \ {k} : task'[j] = Passed(task)[j]
  BY <1>1
<1>3. \A j \in Workers : task'[j] \in Tasks /\ Good(j)'
  BY <1>0, <1>2, PassedFacts
<1>4. task' \in [Workers -> Tasks]
  BY <1>1, <1>3
<1>5. SyncTypeOK' /\ OneRowPerId'
  BY <1>0, <1>4 DEF SyncTypeOK, OneRowPerId, db
<1> QED
  BY <1>3, <1>5 DEF SyncInvariant

LEMMA UpstreamKept ==
  ASSUME SyncInvariant, TokenAppears \/ TokenVanishes \/ UpstreamChangesMind
  PROVE  SyncInvariant'
<1>0. SyncTypeOK /\ OneRowPerId /\ made \in Nat /\ MaxTokens \in Nat
  BY SyncAssumption, MadeFacts DEF SyncInvariant
<1>1. UNCHANGED db /\ faults' \in 0 .. MaxFaults
  <2>1. CASE TokenAppears
    BY <1>0, <2>1 DEF TokenAppears, SyncTypeOK
  <2>2. CASE TokenVanishes \/ UpstreamChangesMind
    BY <1>0, <2>2, FaultFacts DEF TokenVanishes, UpstreamChangesMind
  <2> QED
    BY <2>1, <2>2
<1>2. /\ made' \in 0 .. MaxTokens /\ made <= made' /\ upstream' \subseteq 1 .. made'
      /\ reveals' \in BOOLEAN /\ made' \in Nat
  <2>1. CASE TokenAppears
    <3>1. made' = made + 1 /\ upstream' = upstream \cup {made + 1} /\ made < MaxTokens
          /\ reveals' = reveals
      BY <2>1 DEF TokenAppears, Appears
    <3>2. upstream \subseteq 1 .. made /\ 1 .. made \subseteq 1 .. (made + 1)
      BY <1>0 DEF SyncTypeOK
    <3>3. made + 1 \in 0 .. MaxTokens /\ made + 1 \in 1 .. (made + 1) /\ made <= made + 1
      BY <1>0, <3>1
    <3> QED
      BY <1>0, <3>1, <3>2, <3>3 DEF SyncTypeOK
  <2>2. CASE TokenVanishes
    BY <1>0, <2>2 DEF TokenVanishes, SyncTypeOK
  <2>3. CASE UpstreamChangesMind
    BY <1>0, <2>3 DEF UpstreamChangesMind, SyncTypeOK
  <2> QED
    BY <2>1, <2>2, <2>3
<1>3. task' = Passed(task) \/ (task' = task /\ upstream' = upstream)
  BY DEF TokenAppears, TokenVanishes, UpstreamChangesMind, Appears
<1>4. UNCHANGED rows
  BY <1>1 DEF db
<1>5. ASSUME NEW j \in Workers PROVE task'[j] \in Tasks /\ Good(j)'
  <2>1. CASE task' = Passed(task)
    BY <1>2, <1>4, <2>1, PassedFacts
  <2>2. CASE task' = task /\ upstream' = upstream
    <3>1. Good(j) /\ Bystands(j) /\ task'[j] \in Tasks
      BY <1>0, <2>2, ChoreFacts, SameBystands DEF SyncInvariant
    <3>2. rows' \subseteq Rows /\ OfTokens({Cur(j)})' = OfTokens({Cur(j)})
      BY <1>0, <1>4, <2>2 DEF SyncTypeOK, OfTokens, Cur
    <3> QED
      BY <1>0, <1>2, <2>2, <3>1, <3>2, OthersGood
  <2> QED
    BY <1>3, <2>1, <2>2
<1>6. task' \in [Workers -> Tasks]
  <2>1. task' = [j \in Workers |-> task'[j]]
    BY <1>0, <1>3 DEF Passed, SyncTypeOK
  <2> QED
    BY <1>5, <2>1
<1>7. SyncTypeOK' /\ OneRowPerId'
  BY <1>0, <1>1, <1>2, <1>6 DEF SyncTypeOK, OneRowPerId, db
<1> QED
  BY <1>5, <1>7 DEF SyncInvariant

LEMMA MakeKept ==
  ASSUME SyncInvariant, NEW k \in Workers, Make(k)
  PROVE  SyncInvariant'
<1> DEFINE u == made + 1
           t == [task[k] EXCEPT !.at = "list", !.own = u]
<1>0. SyncTypeOK /\ Good(k) /\ task[k] \in Tasks /\ made \in Nat /\ MaxTokens \in Nat
  BY SyncAssumption, MadeFacts, ChoreFacts DEF SyncInvariant
<1>1. task[k].at = "make" /\ UNCHANGED <<db, reveals>> /\ faults' \in 0 .. MaxFaults
  BY <1>0, FaultFacts DEF Make, At
<1>2. Passed(task)[k] = task[k] /\ DOMAIN Passed(task) = Workers
  BY <1>1 DEF Passed
<1>3. /\ task[k].hit = None /\ task[k].got = {} /\ task[k].page = 0 /\ IsFiniteSet(task[k].list)
      /\ task[k].before \subseteq 1 .. made
  BY <1>0, <1>1 DEF Good, Sensible, OwnIsNew
<1>4. ASSUME made < MaxTokens, made' = u, upstream' = upstream \cup {u}
      PROVE  /\ made' \in 0 .. MaxTokens /\ made <= made' /\ upstream' \subseteq 1 .. made'
             /\ upstream' \in SUBSET Nat /\ IsFiniteSet(upstream')
             /\ task[k].before \subseteq 1 .. made' /\ u \notin task[k].before
             /\ u \in 0 .. MaxTokens /\ u <= made'
  <2>1. upstream \subseteq 1 .. made /\ 1 .. made \subseteq 1 .. u /\ u \in 1 .. u /\ u \notin 1 .. made
        /\ u \in 0 .. MaxTokens /\ made <= u /\ u <= u
    BY <1>0, <1>4 DEF SyncTypeOK
  <2> HIDE DEF u
  <2>2. upstream' \subseteq 1 .. u
    BY <1>4, <2>1
  <2>3. upstream' \in SUBSET Nat /\ IsFiniteSet(upstream')
    <3>1. IsFiniteSet(1 .. u) /\ 1 .. u \in SUBSET Nat
      BY <2>1, FS_Interval
    <3> QED
      BY <2>2, <3>1, FS_Subset
  <2> QED
    BY <1>3, <1>4, <2>1, <2>2, <2>3
<1>5. CASE made < MaxTokens /\ Appears(u, [Passed(task) EXCEPT ![k] = [@ EXCEPT !.at = "list", !.own = u]])
  <2>1. made' = u /\ upstream' = upstream \cup {u} /\ task' = [Passed(task) EXCEPT ![k] = t]
    BY <1>2, <1>5 DEF Appears
  <2>2. /\ t \in Tasks /\ t.at = "list" /\ t.own = u /\ t.hit = None /\ t.got = {} /\ t.page = 0
        /\ t.list = task[k].list /\ t.before = task[k].before
    <3>1. u \in 0 .. MaxTokens
      BY <1>4, <1>5, <2>1
    <3> HIDE DEF u
    <3> QED
      BY <1>0, <1>3, <3>1 DEF Tasks, Places
  <2> HIDE DEF t
  <2>3. task'[k] = t
    BY <1>2, <2>1
  <2> HIDE DEF u
  <2>4. Newer(0 * PageSize)' = {}
    <3>1. \A v \in upstream' : Rank(v)' \in 1 .. Cardinality(upstream')
      <4>1. upstream' \in SUBSET Nat /\ IsFiniteSet(upstream')
        BY <1>4, <1>5, <2>1
      <4> QED
        BY <4>1, RanksNext
    <3>2. Cardinality(upstream') \in Nat
      BY <1>4, <1>5, <2>1, FS_CardinalityType
    <3>3. 0 * PageSize = 0
      BY PageSizes
    <3> QED
      BY <3>1, <3>2, <3>3 DEF Newer
  <2>5. Sensible(k)' /\ KeyHeld(k)'
    BY <1>3, <2>2, <2>3 DEF Sensible, KeyHeld
  <2>6. PagesRead(k)'
    BY <2>2, <2>3, <2>4 DEF PagesRead
  <2>7. OwnIsNew(k)'
    BY <1>4, <1>5, <2>1, <2>2, <2>3 DEF OwnIsNew
  <2>8. Good(k)'
    BY <2>5, <2>6, <2>7 DEF Good
  <2> QED
    BY <1>1, <1>4, <1>5, <2>1, <2>2, <2>8, PassKept
<1>6. CASE made < MaxTokens /\ Appears(u, [Passed(task) EXCEPT ![k] = Over(k)])
  <2>1. made' = u /\ upstream' = upstream \cup {u} /\ task' = [Passed(task) EXCEPT ![k] = Over(k)]
    BY <1>6 DEF Appears
  <2>2. task'[k] = Over(k) /\ made' \in Nat
    BY <1>0, <1>2, <2>1
  <2>3. Good(k)'
    BY <2>2, OverFacts, OverGood DEF Elsewhere, Places
  <2> HIDE DEF u
  <2> QED
    BY <1>1, <1>4, <1>6, <2>1, <2>3, OverFacts, PassKept
<1>7. CASE Stop(k) /\ UNCHANGED <<made, upstream>>
  BY <1>0, <1>1, <1>7, StopKept DEF SyncTypeOK, db
<1> QED
  BY <1>5, <1>6, <1>7 DEF Make

LEMMA RemoveKept ==
  ASSUME SyncInvariant, NEW k \in Workers, Remove(k)
  PROVE  SyncInvariant'
<1> DEFINE u == Greatest(task[k].got)
           t == [task[k] EXCEPT !.at = "unroute", !.got = {}]
<1>0. SyncTypeOK /\ Good(k) /\ task[k] \in Tasks /\ made \in Nat
  BY MadeFacts, ChoreFacts DEF SyncInvariant
<1>1. task[k].at = "gone" /\ UNCHANGED <<db, made, reveals>> /\ faults' \in 0 .. MaxFaults
  BY <1>0, FaultFacts DEF Remove, At
<1>2. /\ t \in Tasks /\ t.at = "unroute" /\ t.list = task[k].list
      /\ t.before = task[k].before /\ t.own = task[k].own
  BY <1>0 DEF Tasks, Places
<1>3. Over(k) \in Tasks /\ Over(k).at \in {"idle", "over"}
  BY OverFacts
<1>4. \A s : s.at \in {"unroute", "idle", "over"} =>
        Passed([task EXCEPT ![k] = s]) = [Passed(task) EXCEPT ![k] = s]
  <2> SUFFICES ASSUME NEW s, s.at \in {"unroute", "idle", "over"}
               PROVE  Passed([task EXCEPT ![k] = s]) = [Passed(task) EXCEPT ![k] = s]
    OBVIOUS
  <2> DEFINE e == [task EXCEPT ![k] = s]
  <2>1. e[k] = s /\ \A j \in Workers : j # k => e[j] = task[j]
    BY <1>0 DEF SyncTypeOK
  <2> HIDE DEF e
  <2>2. \A j \in Workers : Passed(e)[j] = IF j = k THEN s ELSE Passed(task)[j]
    BY <2>1 DEF Passed
  <2>3. Passed(e) = [j \in Workers |-> Passed(e)[j]]
    BY DEF Passed
  <2>4. [Passed(task) EXCEPT ![k] = s] = [j \in Workers |-> IF j = k THEN s ELSE Passed(task)[j]]
    BY DEF Passed
  <2>5. Passed(e) = [Passed(task) EXCEPT ![k] = s]
    BY <2>2, <2>3, <2>4
  <2> QED
    BY <2>5 DEF e
<1>5. ASSUME upstream' \subseteq upstream
      PROVE  made' \in 0 .. MaxTokens /\ made <= made' /\ upstream' \subseteq 1 .. made'
  BY <1>0, <1>1, <1>5 DEF SyncTypeOK
<1>6. CASE Stop(k) /\ UNCHANGED upstream
  BY <1>0, <1>1, <1>6, StopKept DEF SyncTypeOK, db
<1>7. CASE upstream' \subseteq upstream /\ task' = Passed([task EXCEPT ![k] = t])
  <2>1. task' = [Passed(task) EXCEPT ![k] = t]
    <3> HIDE DEF t
    <3> QED
      BY <1>2, <1>4, <1>7
  <2>2. t.at \in Elsewhere /\ IsFiniteSet(task[k].list)
    BY <1>0, <1>2 DEF Elsewhere, Places, Good, Sensible
  <2> HIDE DEF t
  <2>3. task'[k] = t
    BY <2>1 DEF Passed
  <2>4. Good(k)'
    BY <1>0, <1>1, <1>2, <2>2, <2>3, ElsewhereGood DEF Good, OwnIsNew
  <2> QED
    BY <1>1, <1>2, <1>5, <1>7, <2>1, <2>4, PassKept
<1>8. CASE upstream' \subseteq upstream /\ task' = Passed([task EXCEPT ![k] = Over(k)])
  <2>1. task' = [Passed(task) EXCEPT ![k] = Over(k)]
    BY <1>3, <1>4, <1>8
  <2>2. task'[k] = Over(k) /\ made' \in Nat
    BY <1>0, <1>1, <2>1 DEF Passed
  <2>3. Good(k)'
    BY <2>2, OverFacts, OverGood DEF Elsewhere, Places
  <2> QED
    BY <1>1, <1>3, <1>5, <1>8, <2>1, <2>3, PassKept
<1>9. CASE exists /\ u \in upstream /\ upstream' = upstream \ {u}
           /\ task' = Passed([task EXCEPT ![k] = [@ EXCEPT !.at = "unroute", !.got = {}]])
  <2>1. [task EXCEPT ![k] = [@ EXCEPT !.at = "unroute", !.got = {}]] = [task EXCEPT ![k] = t]
    BY <1>0 DEF SyncTypeOK
  <2> HIDE DEF t, u
  <2> QED
    BY <1>7, <1>9, <2>1
<1>10. CASE /\ upstream' \in {upstream, upstream \ {u}}
            /\ task' = IF upstream' = upstream THEN [task EXCEPT ![k] = Over(k)]
                                              ELSE Passed([task EXCEPT ![k] = Over(k)])
  BY <1>6, <1>8, <1>10 DEF Stop, Put
<1> QED
  BY <1>6, <1>9, <1>10 DEF Remove

LEMMA ProviderGoneKept ==
  ASSUME SyncInvariant, RemoveProvider
  PROVE  SyncInvariant'
<1> DEFINE Told(j) == [task[j] EXCEPT !.shared = TRUE]
<1>0. SyncTypeOK /\ made \in Nat
  BY MadeFacts DEF SyncInvariant
<1>1. /\ exists' = FALSE /\ priced' = FALSE /\ rows' = {} /\ routes' = {}
      /\ UNCHANGED <<upstream, made, reveals, faults>>
  BY DEF RemoveProvider, there
<1>2. task' = [j \in Workers |-> IF task[j].at \in {"find", "write"} THEN Told(j) ELSE task[j]]
  BY DEF RemoveProvider
<1>3. \A j \in Workers : Told(j) \in Tasks /\ Told(j).shared = TRUE
  <2> SUFFICES ASSUME NEW j \in Workers PROVE Told(j) \in Tasks /\ Told(j).shared = TRUE
    OBVIOUS
  <2>1. task[j] \in Tasks
    BY <1>0, ChoreFacts
  <2> QED
    BY <2>1 DEF Tasks
<1>4. ASSUME NEW j \in Workers PROVE task'[j] \in Tasks /\ Good(j)'
  <2>1. Bystands(j) /\ (task[j].at \in {"find", "write"} => task'[j].shared)
    <3>1. CASE task[j].at \in {"find", "write"}
      <4>1. task[j] \in Tasks /\ task'[j] = Told(j) /\ task'[j].shared = TRUE
        BY <1>0, <1>2, <1>3, <3>1, ChoreFacts
      <4>2. /\ task'[j].moved = task[j].moved /\ task[j].moved \in BOOLEAN
            /\ [task[j] EXCEPT !.shared = TRUE]
                 = [task[j] EXCEPT !.shared = TRUE, !.moved = task[j].moved]
        BY <4>1 DEF Tasks
      <4> QED
        BY <4>1, <4>2 DEF Bystands
    <3>2. CASE task[j].at \notin {"find", "write"}
      BY <1>0, <1>2, <3>2, SameBystands
    <3> QED
      BY <3>1, <3>2
  <2>2. task'[j] \in Tasks
    <3> HIDE DEF Told
    <3> QED
      BY <1>0, <1>2, <1>3, ChoreFacts
  <2>3. Good(j)
    BY DEF SyncInvariant
  <2>4. /\ rows' \subseteq Rows /\ made' \in Nat /\ made <= made'
        /\ upstream' = upstream
    BY <1>0, <1>1
  <2> QED
    BY <1>0, <2>1, <2>2, <2>3, <2>4, OthersGood
<1>5. task' \in [Workers -> Tasks]
  <2>1. task' = [j \in Workers |-> task'[j]]
    BY <1>2
  <2> QED
    BY <1>4, <2>1
<1>6. SyncTypeOK' /\ OneRowPerId'
  BY <1>0, <1>1, <1>5, FS_EmptySet DEF SyncTypeOK, OneRowPerId
<1> QED
  BY <1>4, <1>6 DEF SyncInvariant

LEMMA StutterKept ==
  ASSUME SyncInvariant, UNCHANGED vars
  PROVE  SyncInvariant'
<1>1. UNCHANGED <<exists, priced, rows, routes, upstream, made, reveals, task, faults>>
  BY DEF vars, db, there
<1>2. SyncTypeOK' /\ OneRowPerId'
  BY <1>1 DEF SyncInvariant, SyncTypeOK, OneRowPerId
<1>3. ASSUME NEW j \in Workers PROVE Good(j)'
  <2>1. Good(j)
    BY DEF SyncInvariant
  <2>2. Sensible(j)' /\ OwnIsNew(j)'
    BY <1>1, <2>1 DEF Good, Sensible, OwnIsNew, Cur
  <2>3. KeyHeld(j)'
    BY <1>1, <2>1 DEF Good, KeyHeld, FirstReady, RowOf, FirstId, OfTokens, Cur
  <2>4. PagesRead(j)'
    BY <1>1, <2>1 DEF Good, PagesRead, Newer, Rank
  <2> QED
    BY <2>2, <2>3, <2>4 DEF Good
<1> QED
  BY <1>2, <1>3 DEF SyncInvariant

LEMMA SyncInvariantInitially ==
  ASSUME Init
  PROVE  SyncInvariant
<1>1. SyncTypeOK
  <2>1. task \in [Workers -> Tasks]
    BY IdleFacts DEF Init
  <2>2. faults \in 0 .. MaxFaults /\ upstream \subseteq 1 .. made /\ made \in 0 .. MaxTokens
    BY SyncAssumption DEF Init
  <2> QED
    BY <2>1, <2>2, FS_EmptySet DEF Init, SyncTypeOK
<1>2. OneRowPerId
  BY DEF Init, OneRowPerId
<1>3. ASSUME NEW k \in Workers PROVE Good(k)
  <2>1. task[k] = Idle
    BY DEF Init
  <2>2. Sensible(k) /\ KeyHeld(k) /\ PagesRead(k)
    BY <2>1, IdleFacts, FS_EmptySet DEF Sensible, KeyHeld, PagesRead
  <2>3. 0 <= made
    BY <1>1, MadeFacts
  <2>4. OwnIsNew(k)
    BY <2>1, <2>3, IdleFacts DEF OwnIsNew
  <2> QED
    BY <2>2, <2>4 DEF Good
<1> QED
  BY <1>1, <1>2, <1>3 DEF SyncInvariant

LEMMA SyncInvariantKept ==
  ASSUME SyncInvariant, [Next]_vars
  PROVE  SyncInvariant'
<1>1. ASSUME NEW k \in Workers, Step(k) PROVE SyncInvariant'
  BY <1>1, ReadPageKept, ReadBeforeKept, EndKept, ReconcileKept, FindKept, WriteKept, CleanKept,
     RoutesKept, MakeKept, RemoveKept, UnrouteKept, UnrowKept DEF Step
<1>2. ASSUME NEW k \in Workers, Start(k) PROVE SyncInvariant'
  BY <1>2, StartKept
<1>3. ASSUME NEW k \in Admins, RebuildStart(k) \/ CreateStart(k) \/ DeleteStart(k)
      PROVE  SyncInvariant'
  BY <1>3, RequestKept DEF Workers
<1>4. CASE UNCHANGED vars
  BY <1>4, StutterKept
<1>5. CASE Next
  BY <1>1, <1>2, <1>3, <1>5, ProviderGoneKept, UpstreamKept DEF Next
<1> QED
  BY <1>4, <1>5

-----------------------------------------------------------------------------
(* Theorems                                                                 *)

\* The tables keep their types and each row its own id, and every goroutine at
\* work knows what it must of the row it is about to write, of the list it has
\* read and of the token it has made (sync.go:43).
THEOREM SyncInvariantHolds == SafeSpec => []SyncInvariant
<1>1. Init => SyncInvariant
  BY SyncInvariantInitially
<1>2. SyncInvariant /\ [Next]_vars => SyncInvariant'
  BY SyncInvariantKept
<1> QED
  BY <1>1, <1>2, PTL DEF SafeSpec

\* The tables and the goroutines keep their types, and the rows their ids.
THEOREM SyncTypeCorrect == SafeSpec => []TypeOK
<1>1. SyncInvariant => TypeOK
  <2>1. SyncInvariant => \A k \in Workers : task[k].at \in {"lookup", "find", "write"} => task[k].todo # {}
    BY DEF SyncInvariant, Good, Sensible
  <2> QED
    BY <2>1 DEF SyncInvariant, SyncTypeOK, TypeOK
<1> QED
  BY <1>1, SyncInvariantHolds, PTL

-----------------------------------------------------------------------------
(* Rows keep their keys and are found again                                 *)

\* Only a write adds a row or changes one.
LEMMA RowChanges ==
  ASSUME SyncInvariant, [Next]_vars, ~(rows' \subseteq rows)
  PROVE  \E k \in Workers : Write(k)
<1>1. ASSUME NEW k \in Workers, Step(k), ~Write(k) PROVE rows' \subseteq rows
  BY <1>1 DEF Step, ReadPage, ReadBefore, ListFails, Reconcile, Find, WriteFails, Clean, ReadTables,
     Commit, Make, Identify, Remove, Unroute, Unrow, db
<1>2. ASSUME NEW k \in Workers, Start(k) PROVE rows' \subseteq rows
  BY <1>2 DEF Start
<1>3. ASSUME NEW k \in Admins, RebuildStart(k) \/ CreateStart(k) \/ DeleteStart(k)
      PROVE  rows' \subseteq rows
  BY <1>3 DEF RebuildStart, CreateStart, DeleteStart, db
<1>4. CASE RemoveProvider \/ TokenAppears \/ TokenVanishes \/ UpstreamChangesMind \/ UNCHANGED vars
  BY <1>4 DEF RemoveProvider, TokenAppears, TokenVanishes, UpstreamChangesMind, vars, db
<1> QED
  BY <1>1, <1>2, <1>3, <1>4 DEF Next

LEMMA RowsKeptByAStep ==
  ASSUME SyncInvariant, [Next]_vars, NEW s \in rows',
         \A r \in rows : r.id = s.id => r.ready /\ ~s.ready,
         OfTokens({s.id[1]}) # {}
  PROVE  \E k \in Workers : /\ At(k, "write") /\ task'[k].at # "write" /\ Cur(k) = s.id[1]
                            /\ task[k].blind \/ task[k].shared
<1>1. PICK k \in Workers : Write(k)
  <2>1. s \notin rows
    OBVIOUS
  <2> QED
    BY <2>1, RowChanges
<1>2. SyncTypeOK /\ Good(k) /\ OneRowPerId /\ task[k].at = "write"
  BY <1>1 DEF SyncInvariant, Write, At
<1>3. PICK u \in Tokens : u = Cur(k)
  BY <1>2, CurFacts DEF Good
<1>4. rows \subseteq Rows
  BY <1>2 DEF SyncTypeOK
<1>5. task'[k].at # "write"
  <2>1. task[k] \in Tasks /\ AfterWrite(k).at \in {"clean", "lookup"}
    BY <1>2, ChoreFacts DEF AfterWrite, Tasks
  <2>2. task'[k] = AfterWrite(k)
    BY <1>1 DEF Write, Touch
  <2> QED
    BY <2>1, <2>2
<1>6. s.id[1] = u /\ (~task[k].blind /\ ~task[k].shared => FALSE)
  <2>1. ~task[k].blind /\ ~task[k].shared =>
          task[k].hit = FirstId(u) /\ (FirstReady(u) => task[k].key)
    BY <1>2, <1>3 DEF Good, KeyHeld
  <2>2. CASE task[k].hit = None
    <3>1. rows' = rows \cup {[id |-> FreshId(u), ready |-> task[k].key]} /\ s \notin rows
      BY <1>1, <1>3, <2>2 DEF Write
    <3>2. FreshId(u)[1] = u
      BY <1>2, FreshFacts DEF SyncInvariant, Good, Sensible
    <3>3. s.id[1] = u
      BY <3>1, <3>2
    <3>4. FirstId(u) = None => OfTokens({u}) = {}
      BY <1>4, FirstIdFacts, IdFacts
    <3> QED
      BY <2>1, <2>2, <3>3, <3>4
  <2>3. CASE task[k].hit # None
    <3> DEFINE Written(q) == IF q.id = task[k].hit THEN [q EXCEPT !.ready = task[k].key] ELSE q
    <3>1. rows' = {Written(q) : q \in rows}
      BY <1>1, <2>3 DEF Write
    <3>2. PICK q \in rows : s = Written(q)
      BY <3>1
    <3>3. q.id = s.id /\ q # s
      BY <1>4, <3>2 DEF Rows
    <3>4. q.id = task[k].hit /\ q.ready /\ ~s.ready /\ s.ready = task[k].key
      BY <1>4, <3>2, <3>3
    <3>5. task[k].hit = FirstId(u) => FirstReady(u)
      BY <3>4 DEF FirstReady, RowOf
    <3>6. s.id[1] = u
      BY <1>2, <1>3, <2>3, <3>3, <3>4 DEF Good, Sensible
    <3> QED
      BY <2>1, <3>4, <3>5, <3>6
  <2> QED
    BY <2>2, <2>3
<1> QED
  BY <1>2, <1>3, <1>5, <1>6 DEF At

\* A key that a row holds is lost, and a second row for a token made, by nothing
\* but a synchronisation whose look-up failed or that another has overtaken
\* (sync.go:290), whatever the upstream shows and however many goroutines are at
\* work.
THEOREM RowsAreKept == SafeSpec => RowsKept
<1>1. SyncInvariant /\ [Next]_vars =>
        [\A s \in rows' :
           \/ \E r \in rows : r.id = s.id /\ ~(r.ready /\ ~s.ready)
           \/ OfTokens({s.id[1]}) = {}
           \/ \E k \in Workers : /\ At(k, "write") /\ task'[k].at # "write" /\ Cur(k) = s.id[1]
                                 /\ task[k].blind \/ task[k].shared]_vars
  BY RowsKeptByAStep
<1> QED
  BY <1>1, SyncInvariantHolds, PTL DEF SafeSpec, RowsKept

-----------------------------------------------------------------------------
(* The clean-up                                                             *)

\* Whoever goes away from the clean-up has cleaned.
LEMMA LeavesTheCleaning ==
  ASSUME SyncInvariant, [Next]_vars, NEW k \in Workers, At(k, "clean"), task'[k].at # "clean"
  PROVE  Clean(k)
<1>0. SyncTypeOK
  BY DEF SyncInvariant
<1>1. ASSUME task'[k] = task[k] PROVE FALSE
  BY <1>1 DEF At
<1>2. ASSUME Bystands(k) PROVE FALSE
  BY <1>0, <1>2, BystandFacts DEF At
<1>3. ASSUME NEW j \in Workers, NEW t, Put(j, t), j # k PROVE task'[k] = task[k]
  BY <1>0, <1>3 DEF Put, SyncTypeOK
<1>4. ASSUME NEW j \in Workers, j # k, NEW ups, NEW t, Touch(j, ups, t) PROVE task'[k] = task[k]
  BY <1>4 DEF Touch, At
<1>5. ASSUME NEW e, DOMAIN e = Workers, e[k] = task[k] PROVE Passed(e)[k].at = "clean"
  <2>1. task[k] \in Tasks
    BY <1>0, ChoreFacts
  <2>2. [task[k] EXCEPT !.moved = TRUE].at = task[k].at
    BY <2>1 DEF Tasks
  <2> QED
    BY <1>5, <2>2 DEF Passed, At
<1>6. ASSUME NEW j \in Workers, Step(j), j # k PROVE FALSE
  <2>1. CASE ReadPage(j)
    BY <1>1, <1>3, <1>6, <2>1 DEF ReadPage
  <2>2. CASE ReadBefore(j)
    BY <1>1, <1>3, <1>6, <2>2 DEF ReadBefore
  <2>3. CASE ListFails(j) \/ WriteFails(j)
    BY <1>1, <1>3, <1>6, <2>3 DEF ListFails, WriteFails, GiveUp
  <2>4. CASE Reconcile(j)
    BY <1>1, <1>3, <1>6, <2>4 DEF Reconcile
  <2>5. CASE Find(j)
    BY <1>1, <1>3, <1>6, <2>5 DEF Find
  <2>6. CASE Write(j)
    BY <1>1, <1>4, <1>6, <2>6 DEF Write
  <2>7. CASE Clean(j)
    BY <1>1, <1>3, <1>4, <1>6, <2>7 DEF Clean
  <2>8. CASE ReadTables(j) \/ Commit(j)
    BY <1>1, <1>3, <1>6, <2>8 DEF ReadTables, Commit, EndRoutes
  <2>9. CASE Make(j)
    <3>1. CASE Stop(j)
      BY <1>1, <1>3, <1>6, <3>1 DEF Stop
    <3>2. CASE \E t : task' = [Passed(task) EXCEPT ![j] = t]
      <4>1. task'[k] = Passed(task)[k]
        BY <1>6, <3>2 DEF Passed
      <4>2. Passed(task)[k].at = "clean"
        BY <1>0, <1>5 DEF SyncTypeOK
      <4> QED
        BY <4>1, <4>2
    <3> QED
      BY <2>9, <3>1, <3>2 DEF Make, Appears
  <2>10. CASE Identify(j)
    BY <1>1, <1>3, <1>6, <2>10 DEF Identify, Stop
  <2>11. CASE Remove(j)
    <3>1. CASE \E t : task' = [task EXCEPT ![j] = t]
      BY <1>1, <1>3, <1>6, <3>1 DEF Put
    <3>2. CASE \E t : task' = Passed([task EXCEPT ![j] = t])
      <4>1. PICK t : task' = Passed([task EXCEPT ![j] = t])
        BY <3>2
      <4>2. DOMAIN [task EXCEPT ![j] = t] = Workers /\ [task EXCEPT ![j] = t][k] = task[k]
        BY <1>0, <1>6 DEF SyncTypeOK
      <4> QED
        BY <1>5, <4>1, <4>2
    <3>3. \/ \E t : task' = [task EXCEPT ![j] = t]
          \/ \E t : task' = Passed([task EXCEPT ![j] = t])
      BY <2>11 DEF Remove, Stop, Put
    <3> QED
      BY <3>1, <3>2, <3>3
  <2>12. CASE Unroute(j)
    BY <1>1, <1>3, <1>6, <2>12 DEF Unroute, Go, Stop
  <2>13. CASE Unrow(j)
    BY <1>1, <1>3, <1>4, <1>6, <2>13 DEF Unrow, Stop
  <2> QED
    BY <1>6, <2>1, <2>2, <2>3, <2>4, <2>5, <2>6, <2>7, <2>8, <2>9, <2>10, <2>11, <2>12, <2>13 DEF Step
<1>7. ASSUME Step(k) PROVE Clean(k)
  BY <1>7 DEF Step, At, ReadPage, ReadBefore, ListFails, Reconcile, Find, Write, WriteFails,
     ReadTables, Commit, Make, Identify, Remove, Unroute, Unrow
<1>8. ASSUME NEW j \in Workers, Start(j) PROVE FALSE
  BY <1>1, <1>3, <1>8 DEF Start, At
<1>9. ASSUME NEW j \in Admins, RebuildStart(j) \/ CreateStart(j) \/ DeleteStart(j) PROVE FALSE
  <2>1. j \in Workers /\ j # k
    BY <1>9 DEF Workers, RebuildStart, CreateStart, DeleteStart, At
  <2>2. \E t : Put(j, t)
    BY <1>9 DEF RebuildStart, CreateStart, DeleteStart
  <2> QED
    BY <1>1, <1>3, <2>1, <2>2
<1>10. ASSUME RemoveProvider PROVE FALSE
  BY <1>1, <1>10 DEF RemoveProvider, At
<1>11. ASSUME TokenAppears \/ TokenVanishes PROVE FALSE
  <2>1. task' = Passed(task)
    BY <1>11 DEF TokenAppears, TokenVanishes, Appears
  <2> QED
    BY <1>0, <1>5, <2>1 DEF SyncTypeOK
<1>12. ASSUME UpstreamChangesMind \/ UNCHANGED vars PROVE FALSE
  BY <1>1, <1>12 DEF UpstreamChangesMind, vars
<1> QED
  BY <1>6, <1>7, <1>8, <1>9, <1>10, <1>11, <1>12 DEF Next

\* While no token comes or goes, the clean-up of a synchronisation takes only the
\* rows of tokens that are not on the upstream (sync.go:328), for any size of a
\* page and any number of tokens.
THEOREM OnlyTheGoneIsCleaned == SafeSpec => CleanupTakesTheGone
<1>1. ASSUME SyncInvariant, [Next]_vars, NEW k \in Workers,
             At(k, "clean"), ~task[k].moved, task'[k].at # "clean"
      PROVE  \A r \in rows \ rows' : r.id[1] \notin upstream
  <2>1. Clean(k)
    BY <1>1, LeavesTheCleaning
  <2>2. task[k].got = upstream
    BY <1>1 DEF SyncInvariant, Good, PagesRead, At
  <2>3. rows' = rows \ (rows \ OfTokens(upstream)) \/ rows' = rows
    BY <2>1, <2>2 DEF Clean
  <2> QED
    BY <2>3 DEF OfTokens
<1>2. SyncInvariant /\ [Next]_vars =>
        [\A k \in Workers :
           At(k, "clean") /\ ~task[k].moved /\ task'[k].at # "clean" /\ exists' = exists =>
             \A r \in rows \ rows' : r.id[1] \notin upstream]_vars
  BY <1>1
<1> QED
  BY <1>2, SyncInvariantHolds, PTL DEF SafeSpec, CleanupTakesTheGone

-----------------------------------------------------------------------------
(* The token of a creation                                                  *)

LEMMA OnlyMember ==
  ASSUME NEW S \in SUBSET Tokens, NEW x \in S, Cardinality(S) = 1
  PROVE  Greatest(S) = x
<1>1. IsFiniteSet(S) /\ S \in SUBSET Nat /\ S # {}
  BY TokensFinite
<1>2. \E y : S = {y}
  BY <1>1, FS_Singleton
<1>3. Greatest(S) \in S
  BY <1>1, GreatestFacts
<1> QED
  BY <1>2, <1>3

\* A creation that has its own token in the list names that one or none
\* (sync.go:354), whatever other tokens look like it.
THEOREM NoOtherIsIdentified == SafeSpec => []IdentifiedIsOwn
<1>1. ASSUME SyncInvariant, NEW k \in Workers, task[k].own \in task[k].got,
             NEW others \in SUBSET task[k].got, NEW told \in BOOLEAN
      PROVE  Identified(k, others \cup {task[k].own}, told) \in {0, task[k].own}
  <2> DEFINE own == task[k].own
             new == task[k].got \ task[k].before
             fit == new \cap (others \cup {own})
  <2>1. SyncTypeOK /\ task[k].own \notin task[k].before
    BY <1>1 DEF SyncInvariant, Good, OwnIsNew
  <2>2. own \in new /\ own \in fit /\ new \in SUBSET Tokens /\ fit \in SUBSET Tokens
    BY <1>1, <2>1, ChoreFacts
  <2>3. Cardinality(new) = 1 => Greatest(new) = own
    <3> HIDE DEF new, own
    <3> QED
      BY <2>2, OnlyMember
  <2>4. Cardinality(fit) = 1 => Greatest(fit) = own
    <3> HIDE DEF fit, own
    <3> QED
      BY <2>2, OnlyMember
  <2> QED
    BY <2>3, <2>4 DEF Identified
<1>2. SyncInvariant => IdentifiedIsOwn
  BY <1>1 DEF IdentifiedIsOwn
<1> QED
  BY <1>2, SyncInvariantHolds, PTL
===============================================================================
