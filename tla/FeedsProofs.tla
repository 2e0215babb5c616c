---------------------------- MODULE FeedsProofs ----------------------------
(***************************************************************************)
(* What the users of a feed share, for any number of them: the fetches     *)
(* from its upstream among readers (MirrorFetch), and the free space of    *)
(* the volume among writers (SpaceGuard).                                  *)
(*                                                                         *)
(* Fetches: who leads one holds the entry of its package, which room is    *)
(* never made at the cost of; so nobody else leads one of that package,    *)
(* nobody else has it back off, and a version of a listing is ahead of its *)
(* leader, or behind it in the feed, in its tombstones or in its failures. *)
(*                                                                         *)
(* Space: the pool is the sum of the live reservations, whichever way each *)
(* ends; every byte a writer takes uses up a part of its interval that     *)
(* only an intact reserve gives back; a read nobody moved bytes under is   *)
(* still on the safe side when it decides; and a promise passes between    *)
(* row and request so that one of them always counts it.                   *)
(***************************************************************************)
EXTENDS SpaceGuard, MirrorFetch, FiniteSetTheorems, WellFoundedInduction, TLAPS

---------------------------------------------------------------------------
(* Reading through: the inductive invariant                                *)

EntryType == [listed : BOOLEAN, backoff : BOOLEAN, bad : SUBSET Versions,
              inflight : Nat, cache : SUBSET Int]

FeedRowType == [held : BOOLEAN, tomb : BOOLEAN, listed : BOOLEAN, hand : BOOLEAN]

ReadType == [key : Keys \cup {NoFetch}, want : Versions \cup {Listing}, fetch : Nat,
             todo : SUBSET Versions, version : Versions \cup {NoFetch},
             listing : SUBSET Int, complete : BOOLEAN,
             held : SUBSET Versions, failed : SUBSET Versions]

NotLeading == {"idle", "turn", "wait", "woken"}
Deciding == {"exists", "tombstoned", "staged", "index"}
Requesting == {"budget", "listing", "download"}
Reconciling == {"reconcile", "reconcileListing", "reconcileRead", "listed"}
Places == NotLeading \cup {"lead", "resources", "versions"} \cup Deciding \cup Requesting \cup Reconciling

TableTypeOK ==
    /\ DOMAIN ids \subseteq Keys /\ ids \in [DOMAIN ids -> EntryType]
    /\ older \subseteq (DOMAIN ids) \X (DOMAIN ids)
    /\ \A j, k \in DOMAIN ids : j # k => ((<<j, k>> \in older) <=> (<<k, j>> \notin older))

ReadersTypeOK ==
    /\ where \in [Readers -> Places] /\ read \in [Readers -> ReadType]
    /\ \A r \in Readers : where[r] # "idle" => read[r].key \in Keys

FeedTypeOK ==
    /\ feedRows \in [Keys -> [Versions -> FeedRowType]]
    /\ unlisted \in [Keys -> SUBSET Versions]

\* What the leader x of a fetch relies on while it is at p, of the entry s of its
\* key and of the rows f the feed has of it: it goes on only while the package does
\* not back off, asks for a version only while that one is not known as bad, and has
\* left no version of a listing out.
Fits(p, x, s, f) ==
    /\ p \in Deciding \cup Requesting => x.version \in Versions
    /\ p = "resources" /\ x.want # Listing => x.version \in Versions
    /\ p \in {"versions", "budget"} \cup Reconciling => x.want = Listing
    /\ p \in Requesting \/ (p = "resources" /\ x.want # Listing) => x.version \notin s.bad
    /\ p # "lead" => ~s.backoff
    /\ p # "lead" /\ x.want = Listing => ~s.listed
    /\ p \in Deciding \cup Requesting \cup Reconciling /\ x.want = Listing /\ x.complete =>
           \A v \in NewestOffered(x.key) :
               v \in x.todo \/ v = x.version \/ f[v].held \/ f[v].tomb \/ v \in x.failed
    /\ p \in Reconciling /\ x.complete => x.todo = {} /\ x.version = NoFetch

\* Who leads holds the entry of its key, which therefore is not forgotten.
LeadFits(r) ==
    LET x == read[r]
    IN  Leads(r) => /\ x.key \in DOMAIN ids /\ ids[x.key].inflight = x.fetch /\ x.fetch # NoFetch
                    /\ Fits(where[r], x, ids[x.key], feedRows[x.key])

FetchInv ==
    /\ TableTypeOK /\ ReadersTypeOK /\ FeedTypeOK
    /\ \A r \in Readers : LeadFits(r)
    /\ OneFetch /\ InflightIsLed

---------------------------------------------------------------------------
(* The table of the tracker                                                *)

\* What a step may do to the entry of a key whose fetch somebody else runs: forget
\* what has run out, and nothing more.
EntryStays(k) ==
    /\ k \in DOMAIN ids /\ ids[k].inflight # NoFetch =>
          /\ k \in DOMAIN ids' /\ ids'[k].inflight = ids[k].inflight
          /\ ids'[k].backoff => ids[k].backoff
          /\ ids'[k].listed => ids[k].listed
          /\ ids'[k].bad \subseteq ids[k].bad
    /\ k \in DOMAIN ids' /\ ids'[k].inflight # NoFetch =>
          k \in DOMAIN ids /\ ids[k].inflight = ids'[k].inflight

OtherEntriesStay(k) == \A j \in Keys \ {k} : EntryStays(j)

LEMMA EntryTyped ==
    ASSUME TableTypeOK, NEW k
    PROVE  Entry(k) \in EntryType
<1>1. NoState \in EntryType
  BY DEF NoState, EntryType, NoFetch, Unread
<1> QED BY <1>1 DEF Entry, TableTypeOK

\* Making room never costs the entry of a package being fetched.
LEMMA KeptHoldsFetched ==
    ASSUME NEW k
    PROVE  /\ Kept(k) \subseteq DOMAIN ids
           /\ \A j \in DOMAIN ids : ids[j].inflight # NoFetch => j \in Kept(k)
<1> DEFINE live == {j \in DOMAIN ids : ~IsIdle(ids[j])}
<1>1. ASSUME NEW j \in DOMAIN ids, ids[j].inflight # NoFetch
      PROVE  j \in live /\ j \notin Evictable(live)
  BY <1>1 DEF IsIdle, Evictable
<1> QED BY <1>1 DEF Kept

LEMMA WithKeeps ==
    ASSUME TableTypeOK, NEW k \in Keys, NEW s \in EntryType, With(k, s)
    PROVE  TableTypeOK' /\ OtherEntriesStay(k) /\ k \in DOMAIN ids' /\ ids'[k] = s
<1> DEFINE K == Kept(k)
<1>1. K \subseteq DOMAIN ids /\ \A j \in DOMAIN ids : ids[j].inflight # NoFetch => j \in K
  BY KeptHoldsFetched
<1>2. /\ ids' = [j \in K \cup {k} |-> IF j = k THEN s ELSE ids[j]]
      /\ older' = (older \cap ((K \ {k}) \X (K \ {k}))) \cup ((K \ {k}) \X {k})
  BY DEF With
<1> HIDE DEF K
<1>3. /\ DOMAIN ids' = K \cup {k} /\ ids'[k] = s
      /\ \A j \in K \ {k} : ids'[j] = ids[j]
  BY <1>2
<1>4. TableTypeOK'
  <2>1. DOMAIN ids' \subseteq Keys
    BY <1>1, <1>3 DEF TableTypeOK
  <2>2. ids' \in [DOMAIN ids' -> EntryType]
    <3>1. \A j \in DOMAIN ids' : ids'[j] \in EntryType
      BY <1>1, <1>3 DEF TableTypeOK
    <3> QED BY <3>1, <1>2
  <2>3. older' \subseteq (DOMAIN ids') \X (DOMAIN ids')
    BY <1>2, <1>3
  <2>4. ASSUME NEW i \in DOMAIN ids', NEW j \in DOMAIN ids', i # j
        PROVE  (<<i, j>> \in older') <=> (<<j, i>> \notin older')
    <3>1. CASE i # k /\ j # k
      <4>1. i \in K \ {k} /\ j \in K \ {k} /\ i \in DOMAIN ids /\ j \in DOMAIN ids
        BY <3>1, <1>1, <1>3
      <4>2. (<<i, j>> \in older) <=> (<<j, i>> \notin older)
        BY <4>1, <2>4 DEF TableTypeOK
      <4>3. (<<i, j>> \in older' <=> <<i, j>> \in older) /\ (<<j, i>> \in older' <=> <<j, i>> \in older)
        BY <3>1, <4>1, <1>2
      <4> QED BY <4>2, <4>3
    <3>2. CASE i = k
      BY <3>2, <2>4, <1>2, <1>3
    <3>3. CASE j = k
      BY <3>3, <2>4, <1>2, <1>3
    <3> QED BY <3>1, <3>2, <3>3
  <2> QED BY <2>1, <2>2, <2>3, <2>4 DEF TableTypeOK
<1>5. OtherEntriesStay(k)
  BY <1>1, <1>3 DEF OtherEntriesStay, EntryStays
<1> QED BY <1>3, <1>4, <1>5

LEMMA EndFetchKeeps ==
    ASSUME TableTypeOK, NEW r \in Readers, EndFetch(r), UNCHANGED older,
           read[r].key \in DOMAIN ids, ids[read[r].key].inflight = read[r].fetch
    PROVE  /\ TableTypeOK' /\ OtherEntriesStay(read[r].key)
           /\ read[r].key \in DOMAIN ids' /\ ids'[read[r].key].inflight = NoFetch
<1> DEFINE k == read[r].key
<1>1. ids' = [ids EXCEPT ![k].inflight = NoFetch]
  BY DEF EndFetch
<1>2. k \in DOMAIN ids /\ ids \in [DOMAIN ids -> EntryType]
  BY DEF TableTypeOK
<1> HIDE DEF k
<1>3. /\ DOMAIN ids' = DOMAIN ids /\ ids'[k] = [ids[k] EXCEPT !.inflight = NoFetch]
      /\ \A j \in DOMAIN ids \ {k} : ids'[j] = ids[j]
  BY <1>1, <1>2
<1>4. ids'[k] \in EntryType /\ ids'[k].inflight = NoFetch
  BY <1>2, <1>3 DEF EntryType, NoFetch
<1>5. ids' \in [DOMAIN ids' -> EntryType]
  <2>1. \A j \in DOMAIN ids : ids'[j] \in EntryType
    BY <1>2, <1>3, <1>4
  <2> QED BY <1>1, <1>2, <1>3, <2>1
<1>6. TableTypeOK'
  BY <1>3, <1>5 DEF TableTypeOK
<1>7. OtherEntriesStay(k)
  BY <1>3 DEF OtherEntriesStay, EntryStays
<1> QED BY <1>2, <1>3, <1>4, <1>6, <1>7 DEF k

\* The entries do not change.
LEMMA SameTable ==
    ASSUME TableTypeOK, UNCHANGED ids, UNCHANGED older
    PROVE  TableTypeOK' /\ \A k \in Keys : EntryStays(k) /\ OtherEntriesStay(k)
BY DEF TableTypeOK, EntryStays, OtherEntriesStay

\* An image of a finite set is finite and no larger.
LEMMA ImageBound ==
    ASSUME NEW S, IsFiniteSet(S), NEW f, DOMAIN f = S
    PROVE  IsFiniteSet({f[s] : s \in S}) /\ Cardinality({f[s] : s \in S}) <= Cardinality(S)
<1> DEFINE T == {f[s] : s \in S}
           g == [s \in S |-> f[s]]
<1>1. g \in Surjection(S, T)
  BY DEF Surjection
<1> QED BY <1>1, FS_Surjection

\* There is a number left for the next fetch.
LEMMA FreshIsAFetch ==
    ASSUME FetchAssumption, TableTypeOK, ReadersTypeOK
    PROVE  Fresh \in Nat /\ Fresh # NoFetch
<1> DEFINE f == [r \in Readers |-> read[r].fetch]
           g == [k \in DOMAIN ids |-> ids[k].inflight]
           F == {f[r] : r \in Readers}
           G == {g[k] : k \in DOMAIN ids}
           top == Cardinality(Readers) + Cardinality(Keys) + 1
<1>1. IsFiniteSet(F) /\ Cardinality(F) \in Nat /\ Cardinality(F) <= Cardinality(Readers) /\ Cardinality(Readers) \in Nat
  BY ImageBound, FS_CardinalityType DEF FetchAssumption
<1>2. IsFiniteSet(DOMAIN ids) /\ Cardinality(DOMAIN ids) <= Cardinality(Keys) /\ Cardinality(Keys) \in Nat
  BY FS_Subset, FS_CardinalityType DEF TableTypeOK, FetchAssumption
<1>3. IsFiniteSet(G) /\ Cardinality(G) \in Nat /\ Cardinality(G) <= Cardinality(Keys)
  <2>1. IsFiniteSet(G) /\ Cardinality(G) <= Cardinality(DOMAIN ids)
    BY <1>2, ImageBound
  <2> HIDE DEF G
  <2> QED BY <2>1, <1>2, FS_CardinalityType
<1>4. \A n \in 1 .. top : n \notin F \cup G => /\ \A r \in Readers : read[r].fetch # n
                                               /\ \A k \in DOMAIN ids : ids[k].inflight # n
  OBVIOUS
<1> HIDE DEF F, G
<1>5. IsFiniteSet(F \cup G) /\ Cardinality(F \cup G) \in Nat /\ Cardinality(F \cup G) < top
  <2>1. IsFiniteSet(F \cup G) /\ Cardinality(F \cup G) = Cardinality(F) + Cardinality(G) - Cardinality(F \cap G)
    BY <1>1, <1>3, FS_Union
  <2>2. Cardinality(F \cap G) \in Nat
    BY <1>1, FS_Intersection, FS_CardinalityType
  <2>3. Cardinality(F \cup G) \in Nat
    BY <2>1, FS_CardinalityType
  <2> QED BY <1>1, <1>2, <1>3, <2>1, <2>2, <2>3
<1>6. \E n \in 1 .. top : n \notin F \cup G
  <2>1. SUFFICES ASSUME 1 .. top \subseteq F \cup G PROVE FALSE
    OBVIOUS
  <2>2. Cardinality(1 .. top) = top
    BY <1>1, <1>2, FS_Interval
  <2> QED BY <1>1, <1>2, <1>5, <2>1, <2>2, FS_Subset
<1>7. Fresh \in 1 .. top
  BY <1>4, <1>6 DEF Fresh
<1> QED BY <1>1, <1>2, <1>7 DEF NoFetch

---------------------------------------------------------------------------
(* The steps of a reader                                                   *)

\* A number in a set of numbers below which no other is.
LEMMA LeastMember ==
    ASSUME NEW S \in SUBSET Nat, S # {}
    PROVE  \E x \in S : \A y \in S : x <= y
<1>1. PICK x \in S : \A y \in S : ~(<<y, x>> \in OpToRel(<, Nat))
  BY WFMin, NatLessThanWellFounded
<1>2. ASSUME NEW y \in S PROVE x <= y
  <2>1. ~(<<y, x>> \in {ss \in Nat \X Nat : ss[1] < ss[2]})
    BY <1>1 DEF OpToRel
  <2> QED BY <2>1
<1> QED BY <1>2

\* The next version of a listing is one of those left: one with the fewest above it.
LEMMA NextIsListed ==
    ASSUME FetchAssumption, NEW todo \in SUBSET Versions, todo # {}
    PROVE  NextOf(todo) \in todo
<1> DEFINE Above(x) == {y \in todo : y > x}
           counts == {Cardinality(Above(x)) : x \in todo}
<1>1. todo \in SUBSET Nat /\ IsFiniteSet(todo)
  BY FS_Subset DEF FetchAssumption
<1>2. ASSUME NEW x \in todo PROVE IsFiniteSet(Above(x)) /\ Cardinality(Above(x)) \in Nat
  <2>1. IsFiniteSet(Above(x))
    BY <1>1, FS_Subset
  <2> HIDE DEF Above
  <2> QED BY <2>1, FS_CardinalityType
<1>3. ASSUME NEW x \in todo, NEW y \in todo, y > x
      PROVE  Above(y) \in SUBSET Above(x) /\ Above(y) # Above(x)
  <2>1. x \in Nat /\ y \in Nat
    BY <1>1
  <2>2. y \in Above(x) /\ y \notin Above(y)
    BY <1>3, <2>1
  <2>3. ASSUME NEW z \in Above(y) PROVE z \in Above(x)
    <3>1. z \in todo /\ z \in Nat /\ z > y
      BY <1>1
    <3> QED BY <1>3, <2>1, <3>1
  <2> QED BY <2>2, <2>3
<1> HIDE DEF Above
<1>4. counts \in SUBSET Nat /\ counts # {}
  BY <1>2
<1>5. PICK n \in counts : \A m \in counts : n <= m
  BY <1>4, LeastMember
<1>6. PICK x \in todo : Cardinality(Above(x)) = n
  OBVIOUS
<1>7. ASSUME NEW y \in todo PROVE y <= x
  <2> SUFFICES ASSUME y > x PROVE FALSE
    BY <1>1
  <2>1. Cardinality(Above(y)) <= Cardinality(Above(x)) /\ Cardinality(Above(y)) # Cardinality(Above(x))
    BY <1>2, <1>3, FS_Subset
  <2>2. Cardinality(Above(x)) <= Cardinality(Above(y))
    BY <1>5, <1>6
  <2>3. Cardinality(Above(x)) \in Nat /\ Cardinality(Above(y)) \in Nat
    BY <1>2
  <2> QED BY <2>1, <2>2, <2>3
<1> QED BY <1>7 DEF NextOf

\* A version the feed holds, or has a tombstone of, stays so.
RowsStay ==
    \A k \in Keys, v \in Versions :
        feedRows[k][v].held \/ feedRows[k][v].tomb => feedRows'[k][v].held \/ feedRows'[k][v].tomb

LEMMA OfferedTyped ==
    ASSUME FetchAssumption, NEW k \in Keys
    PROVE  NewestOffered(k) \in SUBSET Versions
BY DEF FetchAssumption, NewestOffered

\* What a leader relies on outlives the steps of others.
LEMMA FitsStays ==
    ASSUME FetchAssumption, NEW p \in Places, NEW x \in ReadType, x.key \in Keys, NEW s, NEW t, NEW f, NEW g,
           Fits(p, x, s, f), t.backoff => s.backoff, t.listed => s.listed, t.bad \subseteq s.bad,
           \A v \in Versions : f[v].held \/ f[v].tomb => g[v].held \/ g[v].tomb
    PROVE  Fits(p, x, t, g)
<1>1. NewestOffered(x.key) \in SUBSET Versions
  BY OfferedTyped
<1> QED BY <1>1 DEF Fits

LEMMA OtherLeadersFit ==
    ASSUME FetchAssumption, FetchInv, NEW s \in Readers, where'[s] = where[s], read'[s] = read[s],
           Leads(s) => EntryStays(read[s].key), RowsStay
    PROVE  LeadFits(s)'
<1> SUFFICES ASSUME Leads(s) PROVE LeadFits(s)'
  BY DEF LeadFits, Leads
<1>1. /\ read[s].key \in DOMAIN ids /\ ids[read[s].key].inflight = read[s].fetch /\ read[s].fetch # NoFetch
      /\ Fits(where[s], read[s], ids[read[s].key], feedRows[read[s].key])
  BY DEF FetchInv, LeadFits
<1>2. read[s].key \in Keys /\ where[s] \in Places /\ read[s] \in ReadType
  BY DEF FetchInv, ReadersTypeOK, Leads
<1>3. /\ read[s].key \in DOMAIN ids' /\ ids'[read[s].key].inflight = ids[read[s].key].inflight
      /\ ids'[read[s].key].backoff => ids[read[s].key].backoff
      /\ ids'[read[s].key].listed => ids[read[s].key].listed
      /\ ids'[read[s].key].bad \subseteq ids[read[s].key].bad
  BY <1>1 DEF EntryStays
<1>4. Fits(where[s], read[s], ids'[read[s].key], feedRows'[read[s].key])
  BY <1>1, <1>2, <1>3, FitsStays DEF RowsStay
<1> QED BY <1>1, <1>3, <1>4 DEF LeadFits

\* No reader moves.
LEMMA NobodyMoves ==
    ASSUME FetchAssumption, FetchInv, UNCHANGED <<where, read>>, TableTypeOK', FeedTypeOK', RowsStay,
           \A k \in Keys : EntryStays(k)
    PROVE  FetchInv'
<1>1. ReadersTypeOK' /\ OneFetch'
  BY DEF FetchInv, ReadersTypeOK, OneFetch, Leads
<1>2. ASSUME NEW s \in Readers PROVE LeadFits(s)'
  <2>1. Leads(s) => read[s].key \in Keys
    BY DEF FetchInv, ReadersTypeOK, Leads
  <2> QED BY <2>1, OtherLeadersFit
<1>3. InflightIsLed'
  <2> SUFFICES ASSUME NEW j \in DOMAIN ids', ids'[j].inflight # NoFetch
               PROVE  \E r \in Readers : Leads(r)' /\ read'[r].key = j /\ read'[r].fetch = ids'[j].inflight
    BY DEF InflightIsLed
  <2>1. j \in DOMAIN ids /\ ids[j].inflight = ids'[j].inflight
    BY DEF EntryStays, TableTypeOK
  <2>2. PICK r \in Readers : Leads(r) /\ read[r].key = j /\ read[r].fetch = ids[j].inflight
    BY <2>1 DEF FetchInv, InflightIsLed
  <2> QED BY <2>1, <2>2 DEF Leads
<1> QED BY <1>1, <1>2, <1>3 DEF FetchInv

\* The ways a reader moves: a leader goes on or ends its fetch, one that does not lead
\* looks at the entry, or takes the lead where there is none.
GoesOn(r, k, p, x) ==
    /\ Leads(r) /\ p \notin NotLeading /\ x.fetch = read[r].fetch
    /\ k \in DOMAIN ids' /\ ids'[k].inflight = ids[k].inflight
    /\ Fits(p, x, ids'[k], feedRows'[k])

Ends(r, k, p) == Leads(r) /\ p \in NotLeading /\ (k \in DOMAIN ids' => ids'[k].inflight = NoFetch)

Looks(r, k, p) == ~Leads(r) /\ p \in NotLeading /\ EntryStays(k)

TakesLead(r, k, p, x) ==
    /\ ~Leads(r) /\ p = "lead" /\ Entry(k).inflight = NoFetch
    /\ k \in DOMAIN ids' /\ ids'[k].inflight = x.fetch /\ x.fetch # NoFetch

LEMMA ReaderMoves ==
    ASSUME FetchAssumption, FetchInv, NEW r \in Readers, NEW k \in Keys, NEW p \in Places, NEW x \in ReadType,
           where' = [where EXCEPT ![r] = p], read' = [read EXCEPT ![r] = x],
           p # "idle" => x.key = k, Leads(r) => read[r].key = k,
           TableTypeOK', FeedTypeOK', RowsStay, OtherEntriesStay(k),
           GoesOn(r, k, p, x) \/ Ends(r, k, p) \/ Looks(r, k, p) \/ TakesLead(r, k, p, x)
    PROVE  FetchInv'
<1>1. /\ where'[r] = p /\ read'[r] = x
      /\ \A s \in Readers \ {r} : where'[s] = where[s] /\ read'[s] = read[s]
  BY DEF FetchInv, ReadersTypeOK
<1>2. Leads(r)' <=> p \notin NotLeading
  BY <1>1 DEF Leads, NotLeading
<1>3. \A s \in Readers \ {r} : Leads(s)' <=> Leads(s)
  BY <1>1 DEF Leads
<1>4. ReadersTypeOK'
  BY <1>1 DEF FetchInv, ReadersTypeOK
<1>5. ASSUME NEW s \in Readers, Leads(s)
      PROVE  read[s].key \in Keys /\ read[s].key \in DOMAIN ids /\ ids[read[s].key].inflight = read[s].fetch /\ read[s].fetch # NoFetch
  BY <1>5 DEF FetchInv, ReadersTypeOK, LeadFits, Leads
<1>6. ASSUME NEW s \in Readers \ {r}, Leads(s) PROVE read[s].key = k => Looks(r, k, p)
  <2> SUFFICES ASSUME read[s].key = k PROVE Looks(r, k, p)
    OBVIOUS
  <2>1. ~Leads(r)
    BY <1>6 DEF FetchInv, OneFetch
  <2>2. Entry(k).inflight # NoFetch
    BY <1>5, <1>6 DEF Entry
  <2> QED BY <2>1, <2>2 DEF GoesOn, Ends, TakesLead
<1>7. ASSUME NEW s \in Readers PROVE LeadFits(s)'
  <2>1. CASE s # r
    <3>1. Leads(s) => EntryStays(read[s].key)
      BY <2>1, <1>5, <1>6 DEF OtherEntriesStay, Looks
    <3> QED BY <2>1, <3>1, <1>1, OtherLeadersFit
  <2>2. CASE s = r /\ GoesOn(r, k, p, x)
    <3>1. x.key = k /\ ids'[k].inflight = x.fetch /\ x.fetch # NoFetch
      BY <2>2, <1>5 DEF GoesOn, NotLeading
    <3> QED BY <2>2, <3>1, <1>1 DEF LeadFits, GoesOn
  <2>3. CASE s = r /\ TakesLead(r, k, p, x)
    <3>1. Fits(p, x, ids'[k], feedRows'[k])
      BY <2>3 DEF Fits, TakesLead, Deciding, Requesting, Reconciling
    <3> QED BY <2>3, <3>1, <1>1 DEF LeadFits, TakesLead
  <2>4. CASE s = r /\ p \in NotLeading
    BY <2>4, <1>2 DEF LeadFits
  <2> QED BY <2>1, <2>2, <2>3, <2>4 DEF Ends, Looks
<1>8. OneFetch'
  <2> SUFFICES ASSUME NEW s \in Readers, s # r, Leads(s), p \notin NotLeading
               PROVE  read[s].key # k
    <3>1. ASSUME NEW t \in Readers, NEW u \in Readers, t # u, Leads(t)', Leads(u)'
          PROVE  read'[t].key # read'[u].key
      <4>1. p \notin NotLeading => x.key = k
        BY DEF NotLeading
      <4> QED BY <3>1, <4>1, <1>1, <1>2, <1>3 DEF FetchInv, OneFetch
    <3> QED BY <3>1 DEF OneFetch
  <2> QED BY <1>6 DEF Looks
<1>9. InflightIsLed'
  <2> SUFFICES ASSUME NEW j \in DOMAIN ids', ids'[j].inflight # NoFetch
               PROVE  \E s \in Readers : Leads(s)' /\ read'[s].key = j /\ read'[s].fetch = ids'[j].inflight
    BY DEF InflightIsLed
  <2>1. j \in Keys
    BY DEF TableTypeOK
  <2>2. CASE EntryStays(j) /\ ~(Leads(r) /\ j = k)
    <3>1. j \in DOMAIN ids /\ ids[j].inflight = ids'[j].inflight
      BY <2>2 DEF EntryStays
    <3>2. PICK s \in Readers : Leads(s) /\ read[s].key = j /\ read[s].fetch = ids[j].inflight
      BY <3>1 DEF FetchInv, InflightIsLed
    <3>3. s # r
      BY <2>2, <3>2
    <3> QED BY <3>1, <3>2, <3>3, <1>1, <1>3
  <2>3. CASE j = k /\ ~Looks(r, k, p)
    <3>1. ids'[k].inflight = x.fetch /\ p \notin NotLeading /\ x.key = k
      BY <2>3, <1>5 DEF GoesOn, Ends, TakesLead, NotLeading
    <3> QED BY <2>3, <3>1, <1>1, <1>2
  <2>4. CASE j # k
    BY <2>1, <2>2, <2>4 DEF OtherEntriesStay
  <2> QED BY <2>2, <2>3, <2>4 DEF Looks
<1> QED BY <1>4, <1>7, <1>8, <1>9 DEF FetchInv

\* The feed's rows, and what the upstream says of them, do not change.
LEMMA SameFeed ==
    ASSUME FeedTypeOK, UNCHANGED feedRows, UNCHANGED unlisted
    PROVE  FeedTypeOK' /\ RowsStay
BY DEF FeedTypeOK, RowsStay

LEMMA NoReadTyped == NoRead \in ReadType
BY DEF NoRead, ReadType, NoFetch, Listing, Unread

\* The places a leader can be at, and what it knows there.
LEMMA LeaderKnows ==
    ASSUME FetchAssumption, FetchInv, NEW r \in Readers, Leads(r)
    PROVE  /\ read[r] \in ReadType /\ where[r] \in Places /\ where[r] \notin NotLeading
           /\ read[r].key \in Keys /\ read[r].key \in DOMAIN ids
           /\ ids[read[r].key].inflight = read[r].fetch /\ read[r].fetch # NoFetch
           /\ Entry(read[r].key) = ids[read[r].key] /\ ids[read[r].key] \in EntryType
           /\ Fits(where[r], read[r], ids[read[r].key], feedRows[read[r].key])
           /\ TableTypeOK /\ FeedTypeOK
<1>1. LeadFits(r)
  BY DEF FetchInv
<1>2. read[r].key \in Keys /\ read[r] \in ReadType /\ where[r] \in Places /\ where[r] \notin NotLeading
  BY DEF FetchInv, ReadersTypeOK, Leads, NotLeading
<1>3. Entry(read[r].key) = ids[read[r].key]
  BY <1>1 DEF LeadFits, Entry
<1> QED BY <1>1, <1>2, <1>3 DEF LeadFits, FetchInv, TableTypeOK

\* A guard is dropped: the request returns and its fetch ends.
LEMMA ReturnKeepsFetches ==
    ASSUME FetchAssumption, FetchInv, NEW r \in Readers, Leads(r), ReaderReturn(r), UNCHANGED older,
           FeedTypeOK', RowsStay
    PROVE  FetchInv'
<1> DEFINE k == read[r].key
<1>1. k \in Keys /\ k \in DOMAIN ids /\ ids[k].inflight = read[r].fetch /\ TableTypeOK
  BY LeaderKnows
<1>2. TableTypeOK' /\ OtherEntriesStay(k) /\ ids'[k].inflight = NoFetch
  BY <1>1, EndFetchKeeps DEF ReaderReturn
<1>3. Ends(r, k, "idle")
  BY <1>2 DEF Ends, NotLeading
<1>4. where' = [where EXCEPT ![r] = "idle"] /\ read' = [read EXCEPT ![r] = NoRead]
  BY DEF ReaderReturn, ReaderGoto
<1>5. "idle" \in Places
  BY DEF Places, NotLeading
<1> QED BY <1>1, <1>2, <1>3, <1>4, <1>5, NoReadTyped, ReaderMoves

\* The fetch ends in the same update of the entry that notes how it went.
LEMMA LeaveKeepsFetches ==
    ASSUME FetchAssumption, FetchInv, NEW r \in Readers, Leads(r), NEW s \in EntryType, s.inflight = NoFetch,
           With(read[r].key, s), ReaderGoto(r, "idle"), read' = [read EXCEPT ![r] = NoRead],
           FeedTypeOK', RowsStay
    PROVE  FetchInv'
<1> DEFINE k == read[r].key
<1>1. k \in Keys /\ TableTypeOK
  BY LeaderKnows
<1>2. TableTypeOK' /\ OtherEntriesStay(k) /\ ids'[k].inflight = NoFetch
  BY <1>1, WithKeeps
<1>3. Ends(r, k, "idle")
  BY <1>2 DEF Ends, NotLeading
<1>4. where' = [where EXCEPT ![r] = "idle"] /\ "idle" \in Places
  BY DEF ReaderGoto, Places, NotLeading
<1> QED BY <1>1, <1>2, <1>3, <1>4, NoReadTyped, ReaderMoves

\* What a leader does to its entry while it goes on.
LEMMA LeaderTable ==
    ASSUME FetchAssumption, FetchInv, NEW r \in Readers, Leads(r), NEW s \in EntryType,
           s.inflight = read[r].fetch,
           \/ With(read[r].key, s)
           \/ UNCHANGED <<ids, older>> /\ s = ids[read[r].key]
    PROVE  /\ TableTypeOK' /\ OtherEntriesStay(read[r].key)
           /\ read[r].key \in DOMAIN ids' /\ ids'[read[r].key] = s
BY LeaderKnows, WithKeeps, SameTable

\* A leader goes on to p with the locals x, its entry being s now.
LEMMA GoesOnKeepsFetches ==
    ASSUME FetchAssumption, FetchInv, NEW r \in Readers, Leads(r), NEW s \in EntryType,
           s.inflight = read[r].fetch,
           \/ With(read[r].key, s)
           \/ UNCHANGED <<ids, older>> /\ s = ids[read[r].key],
           NEW p \in Places \ NotLeading, NEW x \in ReadType, x.key = read[r].key, x.fetch = read[r].fetch,
           ReaderGoto(r, p), read' = [read EXCEPT ![r] = x], FeedTypeOK', RowsStay,
           Fits(p, x, s, feedRows'[x.key])
    PROVE  FetchInv'
<1> DEFINE k == read[r].key
<1>1. k \in Keys /\ ids[k].inflight = read[r].fetch
  BY LeaderKnows
<1>2. TableTypeOK' /\ OtherEntriesStay(k) /\ k \in DOMAIN ids' /\ ids'[k] = s
  BY LeaderTable
<1>3. GoesOn(r, k, p, x)
  BY <1>1, <1>2 DEF GoesOn
<1>4. where' = [where EXCEPT ![r] = p]
  BY DEF ReaderGoto
<1> HIDE DEF k
<1> QED BY <1>1, <1>2, <1>3, <1>4, ReaderMoves DEF k

\* A leader goes on with the same locals.
LEMMA MovesOnKeepsFetches ==
    ASSUME FetchAssumption, FetchInv, NEW r \in Readers, Leads(r), NEW s \in EntryType,
           s.inflight = read[r].fetch,
           \/ With(read[r].key, s)
           \/ UNCHANGED <<ids, older>> /\ s = ids[read[r].key],
           NEW p \in Places \ NotLeading, ReaderGoto(r, p), UNCHANGED read, FeedTypeOK', RowsStay,
           Fits(p, read[r], s, feedRows'[read[r].key])
    PROVE  FetchInv'
<1>1. read[r] \in ReadType
  BY LeaderKnows
<1>2. read' = [read EXCEPT ![r] = read[r]]
  BY DEF FetchInv, ReadersTypeOK
<1> QED BY <1>1, <1>2, GoesOnKeepsFetches

\* The loop over a listing goes on to the next version; none is left out.
LEMMA AdvanceKeepsFetches ==
    ASSUME FetchAssumption, FetchInv, NEW r \in Readers, Leads(r), where[r] # "lead", NEW s \in EntryType,
           s.inflight = read[r].fetch, ~s.backoff, ~s.listed,
           \/ With(read[r].key, s)
           \/ UNCHANGED <<ids, older>> /\ s = ids[read[r].key],
           NEW todo \in SUBSET Versions, NEW failed \in SUBSET Versions, Advance(r, todo, failed),
           read[r].want = Listing, FeedTypeOK', RowsStay,
           read[r].complete => \A v \in NewestOffered(read[r].key) :
               \/ v \in todo \/ v \in failed
               \/ feedRows'[read[r].key][v].held \/ feedRows'[read[r].key][v].tomb
    PROVE  FetchInv'
<1> DEFINE old == read[r]
           p == IF todo = {} THEN "reconcile" ELSE "exists"
           x == [old EXCEPT !.version = IF todo = {} THEN NoFetch ELSE NextOf(todo),
                            !.todo = IF todo = {} THEN {} ELSE todo \ {NextOf(todo)},
                            !.failed = failed]
<1>1. old \in ReadType
  BY LeaderKnows
<1>2. todo # {} => NextOf(todo) \in todo /\ NextOf(todo) \in Versions
  BY NextIsListed
<1>3. read' = [read EXCEPT ![r] = x] /\ ReaderGoto(r, p)
  BY DEF Advance, FetchInv, ReadersTypeOK
<1> HIDE DEF old
<1>4. /\ x.key = old.key /\ x.want = old.want /\ x.fetch = old.fetch /\ x.listing = old.listing
      /\ x.complete = old.complete /\ x.held = old.held /\ x.failed = failed
      /\ x.version = (IF todo = {} THEN NoFetch ELSE NextOf(todo))
      /\ x.todo = (IF todo = {} THEN {} ELSE todo \ {NextOf(todo)})
  BY <1>1 DEF ReadType
<1>5. x \in ReadType
  BY <1>1, <1>2 DEF ReadType
<1> HIDE DEF x
<1>6. p \in Places \ NotLeading
  BY DEF Places, NotLeading, Deciding, Reconciling
<1>7. Fits(p, x, s, feedRows'[x.key])
  <2>1. CASE todo = {}
    BY <2>1, <1>4 DEF Fits, Deciding, Requesting, Reconciling, old
  <2>2. CASE todo # {}
    BY <2>2, <1>2, <1>4 DEF Fits, Deciding, Requesting, Reconciling, old
  <2> QED BY <2>1, <2>2
<1> HIDE DEF p
<1> QED BY <1>3, <1>4, <1>5, <1>6, <1>7, GoesOnKeepsFetches DEF old

\* One version is done with: it is in the feed, deleted from it, or noted as failed.
LEMMA DoneKeepsFetches ==
    ASSUME FetchAssumption, FetchInv, NEW r \in Readers, where[r] \in Deciding, NEW failed \in SUBSET Versions,
           Done(r, failed), UNCHANGED older, FeedTypeOK', RowsStay,
           \/ read[r].version \in failed
           \/ feedRows'[read[r].key][read[r].version].held
           \/ feedRows'[read[r].key][read[r].version].tomb
    PROVE  FetchInv'
<1>1. Leads(r) /\ where[r] # "lead"
  BY DEF Leads, Deciding
<1>2. CASE read[r].want # Listing
  BY <1>1, <1>2, ReturnKeepsFetches DEF Done
<1>3. CASE read[r].want = Listing
  <2> DEFINE s == ids[read[r].key]
  <2>1. /\ s \in EntryType /\ s.inflight = read[r].fetch /\ read[r] \in ReadType
        /\ Fits(where[r], read[r], s, feedRows[read[r].key]) /\ read[r].key \in Keys
    BY <1>1, LeaderKnows
  <2>2. ~s.backoff /\ ~s.listed
    BY <1>1, <1>3, <2>1 DEF Fits
  <2>3. Advance(r, read[r].todo, read[r].failed \cup failed) /\ UNCHANGED <<ids, older>>
    BY <1>3 DEF Done
  <2>4. read[r].todo \in SUBSET Versions /\ read[r].failed \cup failed \in SUBSET Versions
    BY <2>1 DEF ReadType
  <2>5. ASSUME read[r].complete, NEW v \in NewestOffered(read[r].key)
        PROVE  \/ v \in read[r].todo \/ v \in read[r].failed \cup failed
               \/ feedRows'[read[r].key][v].held \/ feedRows'[read[r].key][v].tomb
    <3>1. v \in Versions
      BY <2>1, OfferedTyped
    <3>2. \/ v \in read[r].todo \/ v = read[r].version \/ v \in read[r].failed
          \/ feedRows[read[r].key][v].held \/ feedRows[read[r].key][v].tomb
      BY <1>3, <2>1, <2>5 DEF Fits
    <3> QED BY <2>1, <3>1, <3>2 DEF RowsStay
  <2> HIDE DEF s
  <2> QED BY <1>1, <1>3, <2>1, <2>2, <2>3, <2>4, <2>5, AdvanceKeepsFetches DEF s
<1> QED BY <1>2, <1>3

---------------------------------------------------------------------------
(* Every step keeps the invariant                                          *)

LEMMA EnsureKeepsFetches ==
    ASSUME FetchAssumption, FetchInv, NEW r \in Readers, NEW k \in Keys, NEW want \in Versions \cup {Listing},
           Ensure(r, k, want), UNCHANGED table \/ Look(k)
    PROVE  FetchInv'
<1> DEFINE x == [NoRead EXCEPT !.key = k, !.want = want]
<1>1. x \in ReadType /\ x.key = k
  BY NoReadTyped DEF ReadType
<1>2. where' = [where EXCEPT ![r] = "turn"] /\ read' = [read EXCEPT ![r] = x] /\ ~Leads(r)
  BY DEF Ensure, ReaderGoto, Leads
<1> HIDE DEF x
<1>3. FeedTypeOK' /\ RowsStay
  BY SameFeed DEF Ensure, FetchInv
<1>4. TableTypeOK' /\ OtherEntriesStay(k) /\ EntryStays(k)
  <2>1. CASE UNCHANGED table
    BY <2>1, SameTable DEF table, FetchInv
  <2>2. CASE Look(k)
    <3>1. TableTypeOK' /\ OtherEntriesStay(k) /\ k \in DOMAIN ids' /\ ids'[k] = Entry(k)
      BY <2>2, EntryTyped, WithKeeps DEF Look, FetchInv
    <3> QED BY <3>1 DEF EntryStays, Entry, NoState
  <2> QED BY <2>1, <2>2
<1>5. Looks(r, k, "turn") /\ "turn" \in Places
  BY <1>2, <1>4 DEF Looks, NotLeading, Places
<1> QED BY <1>1, <1>2, <1>3, <1>4, <1>5, ReaderMoves

LEMMA TurnKeepsFetches ==
    ASSUME FetchAssumption, FetchInv, NEW r \in Readers, Turn(r)
    PROVE  FetchInv'
<1> DEFINE k == read[r].key
           lead == Entry(k).inflight = NoFetch
           n == IF lead THEN Fresh ELSE Entry(k).inflight
           s == [Entry(k) EXCEPT !.inflight = n]
           x == [read[r] EXCEPT !.fetch = n]
           p == IF lead THEN "lead" ELSE "wait"
<1>1. k \in Keys /\ read[r] \in ReadType /\ ~Leads(r) /\ Entry(k) \in EntryType /\ TableTypeOK /\ FeedTypeOK
  BY EntryTyped DEF Turn, Leads, FetchInv, ReadersTypeOK
<1>2. n \in Nat /\ n # NoFetch
  BY <1>1, FreshIsAFetch DEF FetchInv, EntryType
<1>3. With(k, s) /\ where' = [where EXCEPT ![r] = p] /\ read' = [read EXCEPT ![r] = x]
  BY DEF Turn, ReaderGoto, Set, FetchInv, ReadersTypeOK
<1>4. s \in EntryType /\ s.inflight = n
  BY <1>1, <1>2 DEF EntryType
<1>5. x \in ReadType /\ x.key = k /\ x.fetch = n
  BY <1>1, <1>2 DEF ReadType
<1>6. TableTypeOK' /\ OtherEntriesStay(k) /\ k \in DOMAIN ids' /\ ids'[k] = s
  BY <1>1, <1>3, <1>4, WithKeeps
<1>7. FeedTypeOK' /\ RowsStay
  BY <1>1, SameFeed DEF Turn
<1>8. p \in Places
  BY DEF Places, NotLeading
<1>9. CASE lead
  BY <1>1, <1>2, <1>3, <1>4, <1>5, <1>6, <1>7, <1>8, <1>9, ReaderMoves DEF TakesLead
<1>10. CASE ~lead
  <2>1. EntryStays(k)
    <3>1. k \in DOMAIN ids /\ Entry(k) = ids[k]
      BY <1>10 DEF Entry, NoState
    <3>2. s = ids[k]
      BY <1>1, <1>10, <3>1 DEF EntryType
    <3> QED BY <1>6, <3>1, <3>2 DEF EntryStays
  <2>2. Looks(r, k, p)
    BY <1>1, <1>10, <2>1 DEF Looks, NotLeading
  <2> HIDE DEF k, x, p, s
  <2> QED BY <1>1, <1>3, <1>5, <1>6, <1>7, <1>8, <2>2, ReaderMoves
<1> QED BY <1>9, <1>10

\* A request that does not lead goes on looking, or gives up.
LEMMA LooksKeepsFetches ==
    ASSUME FetchAssumption, FetchInv, NEW r \in Readers, where[r] \in NotLeading \ {"idle"},
           UNCHANGED table \/ Look(read[r].key), UNCHANGED <<feedRows, unlisted>>,
           NEW p \in NotLeading, NEW x \in ReadType, ReaderGoto(r, p), read' = [read EXCEPT ![r] = x],
           p # "idle" => x.key = read[r].key
    PROVE  FetchInv'
<1> DEFINE k == read[r].key
<1>1. k \in Keys /\ ~Leads(r) /\ Entry(k) \in EntryType /\ TableTypeOK /\ FeedTypeOK
  BY EntryTyped DEF Leads, FetchInv, ReadersTypeOK, NotLeading
<1> HIDE DEF k
<1>2. TableTypeOK' /\ OtherEntriesStay(k) /\ EntryStays(k)
  <2>1. CASE UNCHANGED table
    BY <1>1, <2>1, SameTable DEF table
  <2>2. CASE Look(k)
    <3>1. TableTypeOK' /\ OtherEntriesStay(k) /\ k \in DOMAIN ids' /\ ids'[k] = Entry(k)
      BY <1>1, <2>2, WithKeeps DEF Look
    <3> QED BY <3>1 DEF EntryStays, Entry, NoState
  <2> QED BY <2>1, <2>2 DEF k
<1>3. FeedTypeOK' /\ RowsStay
  BY <1>1, SameFeed
<1>4. Looks(r, k, p) /\ p \in Places /\ where' = [where EXCEPT ![r] = p]
  BY <1>1, <1>2 DEF Looks, Places, ReaderGoto
<1> QED BY <1>1, <1>2, <1>3, <1>4, ReaderMoves DEF k

LEMMA WaitingKeepsFetches ==
    ASSUME FetchAssumption, FetchInv, NEW r \in Readers, Wake(r) \/ GiveUp(r) \/ Satisfied(r)
    PROVE  FetchInv'
<1> DEFINE woken == [read[r] EXCEPT !.fetch = NoFetch]
<1>1. where[r] \in NotLeading \ {"idle"} /\ read[r] \in ReadType /\ UNCHANGED <<feedRows, unlisted>>
  BY DEF Wake, GiveUp, Satisfied, NotLeading, FetchInv, ReadersTypeOK
<1>2. woken \in ReadType /\ woken.key = read[r].key
  BY <1>1 DEF ReadType, NoFetch
<1>3. CASE Wake(r)
  <2>1. ReaderGoto(r, "woken") /\ read' = [read EXCEPT ![r] = woken] /\ UNCHANGED table
    BY <1>3 DEF Wake, Set, FetchInv, ReadersTypeOK
  <2>2. "woken" \in NotLeading
    BY DEF NotLeading
  <2> HIDE DEF woken
  <2> QED BY <1>1, <1>2, <2>1, <2>2, LooksKeepsFetches
<1>4. CASE GiveUp(r)
  <2>1. ReaderGoto(r, "idle") /\ read' = [read EXCEPT ![r] = NoRead] /\ UNCHANGED table
    BY <1>4 DEF GiveUp
  <2>2. "idle" \in NotLeading
    BY DEF NotLeading
  <2> QED BY <1>1, <2>1, <2>2, NoReadTyped, LooksKeepsFetches
<1>5. CASE Satisfied(r)
  <2>1. UNCHANGED table \/ Look(read[r].key)
    BY <1>5 DEF Satisfied
  <2>2. \/ ReaderGoto(r, "idle") /\ read' = [read EXCEPT ![r] = NoRead]
        \/ ReaderGoto(r, "turn") /\ UNCHANGED read
    BY <1>5 DEF Satisfied
  <2>3. UNCHANGED read => read' = [read EXCEPT ![r] = read[r]]
    BY DEF FetchInv, ReadersTypeOK
  <2>4. "idle" \in NotLeading /\ "turn" \in NotLeading
    BY DEF NotLeading
  <2> QED BY <1>1, <2>1, <2>2, <2>3, <2>4, NoReadTyped, LooksKeepsFetches
<1> QED BY <1>3, <1>4, <1>5

LEMMA LeadKeepsFetches ==
    ASSUME FetchAssumption, FetchInv, NEW r \in Readers, Lead(r)
    PROVE  FetchInv'
<1> DEFINE k == read[r].key
           p == IF read[r].want = Listing THEN "resources" ELSE "exists"
           x == [read[r] EXCEPT !.version = read[r].want]
<1>1. Leads(r) /\ where[r] = "lead"
  BY DEF Lead, Leads
<1>2. /\ k \in Keys /\ read[r] \in ReadType /\ Entry(k) = ids[k] /\ ids[k] \in EntryType
      /\ ids[k].inflight = read[r].fetch /\ TableTypeOK /\ FeedTypeOK
  BY <1>1, LeaderKnows
<1>3. FeedTypeOK' /\ RowsStay
  BY <1>2, SameFeed DEF Lead
<1>4. CASE ReaderReturn(r) /\ UNCHANGED older
  BY <1>1, <1>3, <1>4, ReturnKeepsFetches
<1>5. CASE /\ ~Entry(k).backoff /\ (read[r].want = Listing => Stale(k))
           /\ Look(k) /\ ReaderGoto(r, p) /\ Set(r, "version", read[r].want)
  <2>1. read' = [read EXCEPT ![r] = x]
    BY <1>5 DEF Set, FetchInv, ReadersTypeOK
  <2>2. /\ x \in ReadType /\ x.key = k /\ x.fetch = read[r].fetch /\ x.want = read[r].want
        /\ x.version = read[r].want
    BY <1>2 DEF ReadType, NoFetch, Listing
  <2>3. p \in Places \ NotLeading
    BY DEF Places, NotLeading, Deciding
  <2>4. Fits(p, x, ids[k], feedRows'[k])
    <3> HIDE DEF x
    <3>1. x.want # Listing => x.version \in Versions
      BY <2>2 DEF ReadType
    <3>2. ~ids[k].backoff /\ (x.want = Listing => ~ids[k].listed)
      BY <1>2, <1>5, <2>2 DEF Stale
    <3> QED BY <2>2, <3>1, <3>2 DEF Fits, Deciding, Requesting, Reconciling
  <2> HIDE DEF x, p
  <2> QED BY <1>1, <1>2, <1>3, <1>5, <2>1, <2>2, <2>3, <2>4, GoesOnKeepsFetches DEF Look
<1> QED BY <1>4, <1>5 DEF Lead

LEMMA ExistsKeepsFetches ==
    ASSUME FetchAssumption, FetchInv, NEW r \in Readers, Exists(r)
    PROVE  FetchInv'
<1> DEFINE k == read[r].key  v == read[r].version  s == ids[k]
<1>1. Leads(r) /\ where[r] = "exists" /\ where[r] \in Deciding
  BY DEF Exists, Leads, Deciding
<1>2. /\ k \in Keys /\ read[r] \in ReadType /\ s \in EntryType
      /\ s.inflight = read[r].fetch /\ TableTypeOK /\ FeedTypeOK
      /\ Fits(where[r], read[r], s, feedRows[k])
  BY <1>1, LeaderKnows
<1>3. FeedTypeOK' /\ RowsStay /\ UNCHANGED feedRows /\ UNCHANGED older
  BY <1>2, SameFeed DEF Exists
<1>4. v \in Versions
  BY <1>1, <1>2 DEF Fits
<1>5. CASE feedRows[k][v].held /\ Done(r, {})
  BY <1>1, <1>3, <1>5, DoneKeepsFetches
<1>6. CASE Done(r, {v})
  BY <1>1, <1>3, <1>4, <1>6, DoneKeepsFetches
<1>7. CASE ReaderGoto(r, "tombstoned") /\ UNCHANGED <<read, ids>>
  <2>1. Fits("tombstoned", read[r], s, feedRows'[k])
    BY <1>1, <1>2, <1>3 DEF Fits, Deciding, Requesting, Reconciling
  <2>2. "tombstoned" \in Places \ NotLeading
    BY DEF Places, NotLeading, Deciding
  <2> HIDE DEF s, v
  <2> QED BY <1>1, <1>2, <1>3, <1>7, <2>1, <2>2, MovesOnKeepsFetches DEF s
<1> QED BY <1>5, <1>6, <1>7 DEF Exists

LEMMA TombstonedKeepsFetches ==
    ASSUME FetchAssumption, FetchInv, NEW r \in Readers, Tombstoned(r)
    PROVE  FetchInv'
<1> DEFINE k == read[r].key  v == read[r].version  s == ids[k]
           p == IF read[r].want = Listing THEN "budget" ELSE "resources"
<1>1. Leads(r) /\ where[r] = "tombstoned" /\ where[r] \in Deciding
  BY DEF Tombstoned, Leads, Deciding
<1>2. /\ k \in Keys /\ read[r] \in ReadType /\ s \in EntryType /\ Entry(k) = s
      /\ s.inflight = read[r].fetch /\ TableTypeOK /\ FeedTypeOK
      /\ Fits(where[r], read[r], s, feedRows[k])
  BY <1>1, LeaderKnows
<1>3. FeedTypeOK' /\ RowsStay /\ UNCHANGED feedRows
  BY <1>2, SameFeed DEF Tombstoned
<1>4. v \in Versions
  BY <1>1, <1>2 DEF Fits
<1>5. CASE feedRows[k][v].tomb /\ Done(r, {}) /\ UNCHANGED older
  BY <1>1, <1>3, <1>5, DoneKeepsFetches
<1>6. CASE Done(r, {v}) /\ UNCHANGED older
  BY <1>1, <1>3, <1>4, <1>6, DoneKeepsFetches
<1>7. CASE v \notin Entry(k).bad /\ ReaderGoto(r, p) /\ Look(k) /\ UNCHANGED read
  <2>1. Fits(p, read[r], s, feedRows'[k])
    BY <1>1, <1>2, <1>3, <1>4, <1>7 DEF Fits, Deciding, Requesting, Reconciling
  <2>2. p \in Places \ NotLeading
    BY DEF Places, NotLeading, Requesting
  <2> HIDE DEF s, v, p
  <2> QED BY <1>1, <1>2, <1>3, <1>7, <2>1, <2>2, MovesOnKeepsFetches DEF Look
<1> QED BY <1>5, <1>6, <1>7 DEF Tombstoned

LEMMA ResourcesKeepsFetches ==
    ASSUME FetchAssumption, FetchInv, NEW r \in Readers, Resources(r)
    PROVE  FetchInv'
<1> DEFINE k == read[r].key  s == ids[k]
           p == IF read[r].want = Listing THEN "versions" ELSE "listing"
<1>1. Leads(r) /\ where[r] = "resources"
  BY DEF Resources, Leads
<1>2. /\ k \in Keys /\ read[r] \in ReadType /\ s \in EntryType
      /\ s.inflight = read[r].fetch /\ TableTypeOK /\ FeedTypeOK
      /\ Fits(where[r], read[r], s, feedRows[k])
  BY <1>1, LeaderKnows
<1>3. FeedTypeOK' /\ RowsStay /\ UNCHANGED feedRows
  BY <1>2, SameFeed DEF Resources
<1>4. CASE ReaderReturn(r) /\ UNCHANGED older
  BY <1>1, <1>3, <1>4, ReturnKeepsFetches
<1>5. CASE ReaderGoto(r, p) /\ UNCHANGED <<read, table>>
  <2>1. Fits(p, read[r], s, feedRows'[k])
    BY <1>1, <1>2, <1>3 DEF Fits, Deciding, Requesting, Reconciling
  <2>2. p \in Places \ NotLeading
    BY DEF Places, NotLeading, Requesting
  <2> HIDE DEF p
  <2> QED BY <1>1, <1>2, <1>3, <1>5, <2>1, <2>2, MovesOnKeepsFetches DEF table
<1> QED BY <1>4, <1>5 DEF Resources

LEMMA ListVersionsKeepsFetches ==
    ASSUME FetchAssumption, FetchInv, NEW r \in Readers, ListVersions(r)
    PROVE  FetchInv'
<1> DEFINE k == read[r].key
           good == [Entry(k) EXCEPT !.backoff = FALSE]
           gone == [Entry(k) EXCEPT !.backoff = TRUE, !.inflight = NoFetch]
<1>1. Leads(r) /\ where[r] = "versions"
  BY DEF ListVersions, Leads
<1>2. /\ k \in Keys /\ read[r] \in ReadType /\ Entry(k) \in EntryType /\ Entry(k) = ids[k]
      /\ ids[k].inflight = read[r].fetch /\ TableTypeOK /\ FeedTypeOK
      /\ Fits(where[r], read[r], ids[k], feedRows[k])
  BY <1>1, LeaderKnows
<1>3. FeedTypeOK' /\ RowsStay
  BY <1>2, SameFeed DEF ListVersions
<1>4. /\ good \in EntryType /\ good.inflight = read[r].fetch /\ ~good.backoff
      /\ good.listed = ids[k].listed
      /\ gone \in EntryType /\ gone.inflight = NoFetch
  BY <1>2 DEF EntryType, NoFetch
<1>5. read[r].want = Listing /\ ~ids[k].listed
  BY <1>1, <1>2 DEF Fits
<1> HIDE DEF good, gone
<1>6. CASE With(k, good) /\ Advance(r, NewestOffered(k), {})
  <2>1. NewestOffered(k) \in SUBSET Versions /\ {} \in SUBSET Versions
    BY <1>2, OfferedTyped
  <2> HIDE DEF k
  <2> QED BY <1>1, <1>2, <1>3, <1>4, <1>5, <1>6, <2>1, AdvanceKeepsFetches DEF k
<1>7. CASE With(k, gone) /\ ReaderGoto(r, "idle") /\ read' = [read EXCEPT ![r] = NoRead]
  BY <1>1, <1>3, <1>4, <1>7, LeaveKeepsFetches
<1> QED BY <1>6, <1>7 DEF ListVersions, good, gone

LEMMA BudgetKeepsFetches ==
    ASSUME FetchAssumption, FetchInv, NEW r \in Readers, Budget(r)
    PROVE  FetchInv'
<1> DEFINE k == read[r].key  s == ids[k]
           p == IF read[r].listing = Unread THEN "listing" ELSE "download"
           x == [read[r] EXCEPT !.complete = FALSE]
<1>1. Leads(r) /\ where[r] = "budget" /\ UNCHANGED <<ids, older>>
  BY DEF Budget, Leads, table
<1>2. /\ k \in Keys /\ read[r] \in ReadType /\ s \in EntryType
      /\ s.inflight = read[r].fetch /\ TableTypeOK /\ FeedTypeOK
      /\ Fits(where[r], read[r], s, feedRows[k])
  BY <1>1, LeaderKnows
<1>3. FeedTypeOK' /\ RowsStay /\ UNCHANGED feedRows
  BY <1>2, SameFeed DEF Budget
<1>4. CASE UNCHANGED read /\ ReaderGoto(r, p)
  <2>1. Fits(p, read[r], s, feedRows'[k])
    BY <1>1, <1>2, <1>3 DEF Fits, Deciding, Requesting, Reconciling
  <2>2. p \in Places \ NotLeading
    BY DEF Places, NotLeading, Requesting
  <2> HIDE DEF p
  <2> QED BY <1>1, <1>2, <1>3, <1>4, <2>1, <2>2, MovesOnKeepsFetches
<1>5. CASE ReaderGoto(r, "reconcile") /\ Set(r, "complete", FALSE)
  <2>1. read' = [read EXCEPT ![r] = x]
    BY <1>5 DEF Set, FetchInv, ReadersTypeOK
  <2>2. /\ x \in ReadType /\ x.key = k /\ x.fetch = read[r].fetch /\ x.want = read[r].want
        /\ x.complete = FALSE
    BY <1>2 DEF ReadType
  <2> HIDE DEF x
  <2>3. Fits("reconcile", x, s, feedRows'[k])
    BY <1>1, <1>2, <2>2 DEF Fits, Deciding, Requesting, Reconciling
  <2>4. "reconcile" \in Places \ NotLeading
    BY DEF Places, NotLeading, Reconciling
  <2> QED BY <1>1, <1>2, <1>3, <1>5, <2>1, <2>2, <2>3, <2>4, GoesOnKeepsFetches
<1> QED BY <1>4, <1>5 DEF Budget

LEMMA UpstreamListingKeepsFetches ==
    ASSUME FetchAssumption, FetchInv, NEW r \in Readers, UpstreamListing(r)
    PROVE  FetchInv'
<1> DEFINE k == read[r].key
           p == IF where[r] = "listing" THEN "download" ELSE "reconcileRead"
           made == [Entry(k) EXCEPT !.cache = unlisted[k]]
<1>1. Leads(r) /\ where[r] \in {"listing", "reconcileListing"}
  BY DEF UpstreamListing, Leads
<1>2. /\ k \in Keys /\ read[r] \in ReadType /\ Entry(k) \in EntryType /\ Entry(k) = ids[k]
      /\ ids[k].inflight = read[r].fetch /\ TableTypeOK /\ FeedTypeOK
      /\ Fits(where[r], read[r], ids[k], feedRows[k])
  BY <1>1, LeaderKnows
<1>3. FeedTypeOK' /\ RowsStay /\ UNCHANGED feedRows
  BY <1>2, SameFeed DEF UpstreamListing
<1>4. unlisted[k] \in SUBSET Int
  <2>1. unlisted[k] \in SUBSET Versions
    BY <1>2 DEF FeedTypeOK
  <2>2. \A v \in Versions : v \in Int
    BY DEF FetchAssumption
  <2> QED BY <2>1, <2>2
<1>5. /\ made \in EntryType /\ made.inflight = read[r].fetch /\ made.backoff = ids[k].backoff
      /\ made.listed = ids[k].listed /\ made.bad = ids[k].bad
  BY <1>2, <1>4 DEF EntryType
<1>6. p \in Places \ NotLeading
  BY DEF Places, NotLeading, Requesting, Reconciling
<1>7. ASSUME NEW s \in EntryType, s = Entry(k) \/ s = made,
             NEW listing \in SUBSET Int, Set(r, "listing", listing), ReaderGoto(r, p),
             \/ With(k, s)
             \/ UNCHANGED <<ids, older>> /\ s = ids[k]
      PROVE  FetchInv'
  <2> DEFINE x == [read[r] EXCEPT !.listing = listing]
  <2>1. read' = [read EXCEPT ![r] = x]
    BY <1>7 DEF Set, FetchInv, ReadersTypeOK
  <2>2. /\ x \in ReadType /\ x.key = k /\ x.fetch = read[r].fetch /\ x.want = read[r].want
        /\ x.complete = read[r].complete /\ x.todo = read[r].todo /\ x.version = read[r].version
        /\ x.failed = read[r].failed
    BY <1>2 DEF ReadType
  <2> HIDE DEF x, made
  <2>3. s.inflight = read[r].fetch /\ s.backoff = ids[k].backoff /\ s.listed = ids[k].listed /\ s.bad = ids[k].bad
    BY <1>2, <1>5, <1>7
  <2>4. Fits(p, x, s, feedRows'[k])
    BY <1>1, <1>2, <1>3, <2>2, <2>3 DEF Fits, Deciding, Requesting, Reconciling
  <2> HIDE DEF p
  <2> QED BY <1>1, <1>2, <1>3, <1>6, <1>7, <2>1, <2>2, <2>3, <2>4, GoesOnKeepsFetches
<1>8. Entry(k).cache \in SUBSET Int /\ Unreadable \in SUBSET Int
  BY <1>2 DEF EntryType, Unreadable
<1>9. ReaderGoto(r, p)
  BY DEF UpstreamListing
<1>10. \/ With(k, Entry(k)) /\ Set(r, "listing", Entry(k).cache)
       \/ With(k, made) /\ Set(r, "listing", unlisted[k])
       \/ Set(r, "listing", Unreadable) /\ UNCHANGED <<ids, older>>
  BY DEF UpstreamListing, Look, table
<1> HIDE DEF k, p, made
<1> QED BY <1>2, <1>4, <1>5, <1>7, <1>8, <1>9, <1>10

\* A download or an indexing that failed: the listing goes on, with the version noted,
\* and a fetch of that version alone is over.
LEMMA FailedKeepsFetches ==
    ASSUME FetchAssumption, FetchInv, NEW r \in Readers, where[r] \in {"download", "index"},
           NEW bad \in SUBSET Versions, NEW backoff \in BOOLEAN, UNCHANGED <<feedRows, unlisted>>,
           \/ /\ read[r].want = Listing
              /\ With(read[r].key, [Entry(read[r].key) EXCEPT !.bad = bad])
              /\ Advance(r, read[r].todo, read[r].failed \cup {read[r].version})
           \/ /\ With(read[r].key, [Entry(read[r].key) EXCEPT !.bad = bad, !.backoff = backoff, !.inflight = NoFetch])
              /\ ReaderGoto(r, "idle") /\ read' = [read EXCEPT ![r] = NoRead]
    PROVE  FetchInv'
<1> DEFINE k == read[r].key
           on == [Entry(k) EXCEPT !.bad = bad]
           gone == [Entry(k) EXCEPT !.bad = bad, !.backoff = backoff, !.inflight = NoFetch]
<1>1. Leads(r) /\ where[r] # "lead" /\ where[r] \in Deciding \cup Requesting
  BY DEF Leads, Deciding, Requesting
<1>2. /\ k \in Keys /\ read[r] \in ReadType /\ Entry(k) \in EntryType /\ Entry(k) = ids[k]
      /\ ids[k].inflight = read[r].fetch /\ TableTypeOK /\ FeedTypeOK
      /\ Fits(where[r], read[r], ids[k], feedRows[k])
  BY <1>1, LeaderKnows
<1>3. FeedTypeOK' /\ RowsStay /\ UNCHANGED feedRows
  BY <1>2, SameFeed
<1>4. /\ on \in EntryType /\ on.inflight = read[r].fetch /\ on.backoff = ids[k].backoff
      /\ on.listed = ids[k].listed
      /\ gone \in EntryType /\ gone.inflight = NoFetch
  BY <1>2 DEF EntryType, NoFetch
<1>5. ~ids[k].backoff /\ read[r].version \in Versions
  BY <1>1, <1>2 DEF Fits
<1> HIDE DEF on, gone
<1>6. CASE /\ read[r].want = Listing /\ With(k, on)
           /\ Advance(r, read[r].todo, read[r].failed \cup {read[r].version})
  <2>1. read[r].todo \in SUBSET Versions /\ read[r].failed \cup {read[r].version} \in SUBSET Versions
    BY <1>2, <1>5 DEF ReadType
  <2>2. ~ids[k].listed
    BY <1>1, <1>2, <1>6 DEF Fits
  <2>3. ASSUME read[r].complete, NEW v \in NewestOffered(k)
        PROVE  \/ v \in read[r].todo \/ v \in read[r].failed \cup {read[r].version}
               \/ feedRows'[k][v].held \/ feedRows'[k][v].tomb
    BY <1>1, <1>2, <1>3, <1>6, <2>3 DEF Fits
  <2> HIDE DEF k
  <2> QED BY <1>1, <1>2, <1>3, <1>4, <1>5, <1>6, <2>1, <2>2, <2>3, AdvanceKeepsFetches DEF k
<1>7. CASE With(k, gone) /\ ReaderGoto(r, "idle") /\ read' = [read EXCEPT ![r] = NoRead]
  BY <1>1, <1>3, <1>4, <1>7, LeaveKeepsFetches
<1> QED BY <1>6, <1>7 DEF on, gone

LEMMA DownloadKeepsFetches ==
    ASSUME FetchAssumption, FetchInv, NEW r \in Readers, Download(r)
    PROVE  FetchInv'
<1> DEFINE k == read[r].key
<1>1. Leads(r) /\ where[r] = "download" /\ UNCHANGED <<feedRows, unlisted>>
  BY DEF Download, Leads
<1>2. /\ k \in Keys /\ read[r] \in ReadType /\ Entry(k) \in EntryType /\ ids[k] \in EntryType
      /\ ids[k].inflight = read[r].fetch /\ TableTypeOK /\ FeedTypeOK
      /\ Fits(where[r], read[r], ids[k], feedRows[k])
  BY <1>1, LeaderKnows
<1>3. CASE ReaderGoto(r, "staged") /\ UNCHANGED <<read, table>>
  <2>1. FeedTypeOK' /\ RowsStay
    BY <1>1, <1>2, SameFeed
  <2>2. Fits("staged", read[r], ids[k], feedRows'[k])
    BY <1>1, <1>2 DEF Fits, Deciding, Requesting, Reconciling
  <2>3. "staged" \in Places \ NotLeading
    BY DEF Places, NotLeading, Deciding
  <2> QED BY <1>1, <1>2, <1>3, <2>1, <2>2, <2>3, MovesOnKeepsFetches DEF table
<1>4. ASSUME NEW good \in BOOLEAN, DownloadFailed(r, good) PROVE FetchInv'
  <2> DEFINE bad == IF good THEN Entry(k).bad ELSE Entry(k).bad \cup {read[r].version}
             after == [Entry(k) EXCEPT !.bad = bad]
             gone == [after EXCEPT !.backoff = TRUE, !.inflight = NoFetch]
  <2>1. read[r].version \in Versions
    BY <1>1, <1>2 DEF Fits, Requesting
  <2>2. bad \in SUBSET Versions
    BY <1>2, <2>1 DEF EntryType
  <2> HIDE DEF bad
  <2>3. gone = [Entry(k) EXCEPT !.bad = bad, !.backoff = TRUE, !.inflight = NoFetch]
    BY <1>2 DEF EntryType
  <2>4. \/ /\ read[r].want = Listing /\ With(k, after)
           /\ Advance(r, read[r].todo, read[r].failed \cup {read[r].version})
        \/ /\ With(k, gone) /\ ReaderGoto(r, "idle") /\ read' = [read EXCEPT ![r] = NoRead]
    BY <1>4 DEF DownloadFailed, bad
  <2> HIDE DEF gone
  <2> QED BY <1>1, <2>2, <2>3, <2>4, FailedKeepsFetches
<1> QED BY <1>3, <1>4 DEF Download

LEMMA StagedKeepsFetches ==
    ASSUME FetchAssumption, FetchInv, NEW r \in Readers, Staged(r)
    PROVE  FetchInv'
<1> DEFINE k == read[r].key  v == read[r].version
<1>1. Leads(r) /\ where[r] = "staged" /\ where[r] \in Deciding
  BY DEF Staged, Leads, Deciding
<1>2. /\ k \in Keys /\ read[r] \in ReadType /\ ids[k] \in EntryType
      /\ ids[k].inflight = read[r].fetch /\ TableTypeOK /\ FeedTypeOK
      /\ Fits(where[r], read[r], ids[k], feedRows[k])
  BY <1>1, LeaderKnows
<1>3. FeedTypeOK' /\ RowsStay /\ UNCHANGED feedRows /\ UNCHANGED older
  BY <1>2, SameFeed DEF Staged
<1>4. v \in Versions
  BY <1>1, <1>2 DEF Fits
<1>5. CASE feedRows[k][v].tomb /\ Done(r, {})
  BY <1>1, <1>3, <1>5, DoneKeepsFetches
<1>6. CASE Done(r, {v})
  BY <1>1, <1>3, <1>4, <1>6, DoneKeepsFetches
<1>7. CASE ReaderGoto(r, "index") /\ UNCHANGED <<read, ids>>
  <2>1. Fits("index", read[r], ids[k], feedRows'[k])
    BY <1>1, <1>2, <1>3 DEF Fits, Deciding, Requesting, Reconciling
  <2>2. "index" \in Places \ NotLeading
    BY DEF Places, NotLeading, Deciding
  <2> HIDE DEF v
  <2> QED BY <1>1, <1>2, <1>3, <1>7, <2>1, <2>2, MovesOnKeepsFetches
<1> QED BY <1>5, <1>6, <1>7 DEF Staged

\* One row is written; a version in the feed, or deleted from it, stays one of the two.
LEMMA RowWritten ==
    ASSUME FeedTypeOK, NEW k \in Keys, NEW v \in Versions, NEW row \in FeedRowType,
           row.held \/ row.tomb,
           feedRows' = [feedRows EXCEPT ![k][v] = row], UNCHANGED unlisted
    PROVE  FeedTypeOK' /\ RowsStay /\ feedRows'[k][v] = row
<1> DEFINE mine == [feedRows[k] EXCEPT ![v] = row]
<1>1. feedRows' = [feedRows EXCEPT ![k] = mine]
  BY DEF FeedTypeOK
<1>2. mine \in [Versions -> FeedRowType] /\ mine[v] = row /\ \A u \in Versions \ {v} : mine[u] = feedRows[k][u]
  BY DEF FeedTypeOK
<1> HIDE DEF mine
<1>3. feedRows'[k] = mine /\ \A j \in Keys \ {k} : feedRows'[j] = feedRows[j]
  BY <1>1 DEF FeedTypeOK
<1>4. feedRows' \in [Keys -> [Versions -> FeedRowType]]
  BY <1>1, <1>2 DEF FeedTypeOK
<1>5. RowsStay
  BY <1>2, <1>3 DEF RowsStay
<1> QED BY <1>2, <1>3, <1>4, <1>5 DEF FeedTypeOK

LEMMA IndexKeepsFetches ==
    ASSUME FetchAssumption, FetchInv, NEW r \in Readers, Index(r)
    PROVE  FetchInv'
<1> DEFINE k == read[r].key  v == read[r].version
<1>1. Leads(r) /\ where[r] = "index" /\ where[r] \in Deciding /\ UNCHANGED unlisted
  BY DEF Index, Leads, Deciding
<1>2. /\ k \in Keys /\ read[r] \in ReadType /\ ids[k] \in EntryType /\ Entry(k) = ids[k]
      /\ ids[k].inflight = read[r].fetch /\ TableTypeOK /\ FeedTypeOK
      /\ Fits(where[r], read[r], ids[k], feedRows[k])
  BY <1>1, LeaderKnows
<1>3. v \in Versions
  BY <1>1, <1>2 DEF Fits
<1>4. CASE feedRows' = [feedRows EXCEPT ![k][v] = Mirrored(r)] /\ Done(r, {}) /\ UNCHANGED older
  <2>1. Mirrored(r) \in FeedRowType /\ Mirrored(r).held
    BY DEF Mirrored, NoFeedRow, FeedRowType
  <2>2. FeedTypeOK' /\ RowsStay /\ feedRows'[k][v].held
    BY <1>1, <1>2, <1>3, <1>4, <2>1, RowWritten
  <2> QED BY <1>1, <1>4, <2>2, DoneKeepsFetches
<1>5. CASE feedRows[k][v].held /\ Done(r, {}) /\ UNCHANGED <<feedRows, older>>
  <2>1. FeedTypeOK' /\ RowsStay /\ feedRows'[k][v].held
    BY <1>1, <1>2, <1>5, SameFeed
  <2> QED BY <1>1, <1>5, <2>1, DoneKeepsFetches
<1>6. CASE /\ With(k, [Entry(k) EXCEPT !.bad = @ \cup {v},
                         !.inflight = IF read[r].want = Listing THEN @ ELSE NoFetch])
           /\ IF read[r].want = Listing
              THEN Advance(r, read[r].todo, read[r].failed \cup {v})
              ELSE ReaderGoto(r, "idle") /\ read' = [read EXCEPT ![r] = NoRead]
           /\ UNCHANGED feedRows
  <2> DEFINE bad == Entry(k).bad \cup {v}
  <2>1. bad \in SUBSET Versions
    BY <1>2, <1>3 DEF EntryType
  <2>2. CASE read[r].want = Listing
    <3>1. [Entry(k) EXCEPT !.bad = @ \cup {v}, !.inflight = IF read[r].want = Listing THEN @ ELSE NoFetch]
             = [Entry(k) EXCEPT !.bad = bad]
      BY <1>2, <2>2 DEF EntryType
    <3>2. With(k, [Entry(k) EXCEPT !.bad = bad])
      BY <1>6, <3>1
    <3> HIDE DEF bad
    <3> QED BY <1>1, <1>6, <2>1, <2>2, <3>2, FailedKeepsFetches
  <2>3. CASE read[r].want # Listing
    <3>1. [Entry(k) EXCEPT !.bad = @ \cup {v}, !.inflight = IF read[r].want = Listing THEN @ ELSE NoFetch]
             = [Entry(k) EXCEPT !.bad = bad, !.backoff = Entry(k).backoff, !.inflight = NoFetch]
      BY <1>2, <2>3 DEF EntryType
    <3>2. With(k, [Entry(k) EXCEPT !.bad = bad, !.backoff = Entry(k).backoff, !.inflight = NoFetch])
      BY <1>6, <3>1
    <3>3. Entry(k).backoff \in BOOLEAN
      BY <1>2 DEF EntryType
    <3> HIDE DEF bad
    <3> QED BY <1>1, <1>6, <2>1, <2>3, <3>2, <3>3, FailedKeepsFetches
  <2> QED BY <2>2, <2>3
<1> QED BY <1>4, <1>5, <1>6 DEF Index

LEMMA ReconcileKeepsFetches ==
    ASSUME FetchAssumption, FetchInv, NEW r \in Readers, Reconcile(r)
    PROVE  FetchInv'
<1> DEFINE k == read[r].key  s == ids[k]
           mine == {v \in Versions : feedRows[k][v].held /\ ~feedRows[k][v].hand}
           x == [read[r] EXCEPT !.held = mine]
           p == IF read[r].listing = Unread THEN "reconcileListing" ELSE "reconcileRead"
<1>1. Leads(r) /\ where[r] = "reconcile" /\ UNCHANGED <<ids, older>>
  BY DEF Reconcile, Leads, table
<1>2. /\ k \in Keys /\ read[r] \in ReadType /\ s \in EntryType
      /\ s.inflight = read[r].fetch /\ TableTypeOK /\ FeedTypeOK
      /\ Fits(where[r], read[r], s, feedRows[k])
  BY <1>1, LeaderKnows
<1>3. FeedTypeOK' /\ RowsStay /\ UNCHANGED feedRows
  BY <1>2, SameFeed DEF Reconcile
<1>4. p \in Places \ NotLeading /\ "listed" \in Places \ NotLeading
  BY DEF Places, NotLeading, Reconciling
<1>5. CASE Set(r, "held", mine) /\ ReaderGoto(r, p)
  <2>1. read' = [read EXCEPT ![r] = x]
    BY <1>5 DEF Set, FetchInv, ReadersTypeOK
  <2>2. mine \in SUBSET Versions
    OBVIOUS
  <2> HIDE DEF mine
  <2>3. /\ x \in ReadType /\ x.key = k /\ x.fetch = read[r].fetch /\ x.want = read[r].want
        /\ x.complete = read[r].complete /\ x.todo = read[r].todo /\ x.version = read[r].version
        /\ x.failed = read[r].failed
    BY <1>2, <2>2 DEF ReadType
  <2> HIDE DEF x
  <2>4. Fits(p, x, s, feedRows'[k])
    BY <1>1, <1>2, <1>3, <2>3 DEF Fits, Deciding, Requesting, Reconciling
  <2> HIDE DEF p
  <2> QED BY <1>1, <1>2, <1>3, <1>4, <1>5, <2>1, <2>3, <2>4, GoesOnKeepsFetches
<1>6. CASE ReaderGoto(r, "listed") /\ UNCHANGED read
  <2>1. Fits("listed", read[r], s, feedRows'[k])
    BY <1>1, <1>2, <1>3 DEF Fits, Deciding, Requesting, Reconciling
  <2> HIDE DEF mine, p
  <2> QED BY <1>1, <1>2, <1>3, <1>4, <1>6, <2>1, MovesOnKeepsFetches
<1> QED BY <1>5, <1>6 DEF Reconcile

LEMMA ReconcileReadKeepsFetches ==
    ASSUME FetchAssumption, FetchInv, NEW r \in Readers, ReconcileRead(r)
    PROVE  FetchInv'
<1> DEFINE k == read[r].key  s == ids[k]
           followed(v) == IF v \in Offered[k] \cap read[r].held
                          THEN Follows(feedRows[k][v], v \notin read[r].listing) ELSE feedRows[k][v]
           mine == [v \in Versions |-> followed(v)]
<1>1. Leads(r) /\ where[r] = "reconcileRead" /\ UNCHANGED <<ids, older, unlisted, read>> /\ ReaderGoto(r, "listed")
  BY DEF ReconcileRead, Leads, table
<1>2. /\ k \in Keys /\ read[r] \in ReadType /\ s \in EntryType
      /\ s.inflight = read[r].fetch /\ TableTypeOK /\ FeedTypeOK
      /\ Fits(where[r], read[r], s, feedRows[k])
  BY <1>1, LeaderKnows
<1>3. ASSUME NEW v \in Versions
      PROVE  /\ followed(v) \in FeedRowType /\ followed(v).held = feedRows[k][v].held
             /\ followed(v).tomb = feedRows[k][v].tomb
  <2>1. feedRows[k][v] \in FeedRowType /\ (v \notin read[r].listing) \in BOOLEAN
    BY <1>2 DEF FeedTypeOK
  <2> QED BY <2>1 DEF Follows, FeedRowType
<1> HIDE DEF followed
<1>4. FeedTypeOK' /\ RowsStay
  <2>1. feedRows' = feedRows \/ feedRows' = [feedRows EXCEPT ![k] = mine]
    BY DEF ReconcileRead, followed
  <2>2. mine \in [Versions -> FeedRowType] /\ \A v \in Versions : mine[v] = followed(v)
    BY <1>3
  <2> HIDE DEF mine, k
  <2>3. CASE feedRows' = [feedRows EXCEPT ![k] = mine]
    <3>1. feedRows'[k] = mine /\ \A j \in Keys \ {k} : feedRows'[j] = feedRows[j]
      BY <1>2, <2>3 DEF FeedTypeOK
    <3>2. feedRows' \in [Keys -> [Versions -> FeedRowType]]
      BY <1>2, <2>2, <2>3 DEF FeedTypeOK
    <3>3. RowsStay
      BY <1>3, <2>2, <3>1 DEF RowsStay
    <3> QED BY <1>1, <1>2, <3>2, <3>3 DEF FeedTypeOK
  <2> QED BY <1>1, <1>2, <2>1, <2>3, SameFeed
<1> HIDE DEF mine
<1>5. Fits("listed", read[r], s, feedRows[k])
  BY <1>1, <1>2 DEF Fits, Deciding, Requesting, Reconciling
<1>6. "listed" \in Places \ NotLeading
  BY DEF Places, NotLeading, Reconciling
<1>7. Fits("listed", read[r], s, feedRows'[k])
  BY <1>2, <1>4, <1>5, <1>6, FitsStays DEF RowsStay
<1> QED BY <1>1, <1>2, <1>4, <1>6, <1>7, MovesOnKeepsFetches

LEMMA ListedKeepsFetches ==
    ASSUME FetchAssumption, FetchInv, NEW r \in Readers, Listed(r)
    PROVE  FetchInv'
<1> DEFINE k == read[r].key
           after == [Entry(k) EXCEPT !.inflight = NoFetch, !.listed = @ \/ read[r].complete]
<1>1. Leads(r) /\ ReaderGoto(r, "idle") /\ read' = [read EXCEPT ![r] = NoRead]
  BY DEF Listed, Leads
<1>2. /\ k \in Keys /\ read[r] \in ReadType /\ Entry(k) \in EntryType /\ k \in DOMAIN ids
      /\ ids[k].inflight = read[r].fetch /\ TableTypeOK /\ FeedTypeOK
  BY <1>1, LeaderKnows
<1>3. FeedTypeOK' /\ RowsStay
  BY <1>2, SameFeed DEF Listed
<1>4. CASE With(k, after)
  <2>1. after \in EntryType /\ after.inflight = NoFetch
    <3>1. (Entry(k).listed \/ read[r].complete) \in BOOLEAN
      BY <1>2 DEF EntryType, ReadType
    <3> QED BY <1>2, <3>1 DEF EntryType, NoFetch
  <2> HIDE DEF after
  <2> QED BY <1>1, <1>3, <1>4, <2>1, LeaveKeepsFetches
<1>5. CASE ids' = [ids EXCEPT ![k].inflight = NoFetch] /\ UNCHANGED older
  <2>1. ReaderReturn(r)
    BY <1>1, <1>2, <1>5 DEF ReaderReturn, EndFetch
  <2> QED BY <1>1, <1>3, <1>5, <2>1, ReturnKeepsFetches
<1> QED BY <1>4, <1>5 DEF Listed

LEMMA CancelReadKeepsFetches ==
    ASSUME FetchAssumption, FetchInv, NEW r \in Readers, CancelRead(r)
    PROVE  FetchInv'
BY ReturnKeepsFetches, SameFeed DEF CancelRead, FetchInv

\* Time passing: what has run out is forgotten, a fetch never.
LEMMA ExpireKeepsFetches ==
    ASSUME FetchAssumption, FetchInv, NEW k \in Keys, Expire(k)
    PROVE  FetchInv'
<1>1. k \in DOMAIN ids /\ ids[k] \in EntryType /\ UNCHANGED <<older, feedRows, unlisted, where, read>>
  BY DEF Expire, FetchInv, TableTypeOK
<1>2. PICK s : /\ ids' = [ids EXCEPT ![k] = s]
               /\ s \in {[ids[k] EXCEPT !.listed = FALSE], [ids[k] EXCEPT !.backoff = FALSE],
                         [ids[k] EXCEPT !.cache = Unread]}
                        \cup {[ids[k] EXCEPT !.bad = @ \ {v}] : v \in ids[k].bad}
  BY DEF Expire
<1>3. /\ s \in EntryType /\ s.inflight = ids[k].inflight /\ (s.backoff => ids[k].backoff)
      /\ (s.listed => ids[k].listed) /\ s.bad \subseteq ids[k].bad
  <2>1. CASE s = [ids[k] EXCEPT !.listed = FALSE]
    BY <2>1, <1>1 DEF EntryType
  <2>2. CASE s = [ids[k] EXCEPT !.backoff = FALSE]
    BY <2>2, <1>1 DEF EntryType
  <2>3. CASE s = [ids[k] EXCEPT !.cache = Unread]
    BY <2>3, <1>1 DEF EntryType, Unread
  <2>4. ASSUME NEW v \in ids[k].bad, s = [ids[k] EXCEPT !.bad = @ \ {v}]
        PROVE  /\ s \in EntryType /\ s.inflight = ids[k].inflight /\ (s.backoff => ids[k].backoff)
               /\ (s.listed => ids[k].listed) /\ s.bad \subseteq ids[k].bad
    BY <2>4, <1>1 DEF EntryType
  <2> QED BY <1>2, <2>1, <2>2, <2>3, <2>4
<1>4. /\ DOMAIN ids' = DOMAIN ids /\ ids'[k] = s /\ \A j \in DOMAIN ids \ {k} : ids'[j] = ids[j]
      /\ ids' \in [DOMAIN ids' -> EntryType]
  BY <1>1, <1>2, <1>3 DEF FetchInv, TableTypeOK
<1>5. TableTypeOK'
  BY <1>1, <1>4 DEF FetchInv, TableTypeOK
<1>6. \A j \in Keys : EntryStays(j)
  BY <1>1, <1>3, <1>4 DEF EntryStays
<1>7. FeedTypeOK' /\ RowsStay
  BY <1>1, SameFeed DEF FetchInv
<1> QED BY <1>1, <1>5, <1>6, <1>7, NobodyMoves

LEMMA OutsideKeepsFetches ==
    ASSUME FetchAssumption, FetchInv, UNCHANGED <<table, where, read>>, FeedTypeOK', RowsStay
    PROVE  FetchInv'
BY SameTable, NobodyMoves DEF table, FetchInv

LEMMA EditKeepsFetches ==
    ASSUME FetchAssumption, FetchInv, NEW k \in Keys, NEW v \in Versions,
           Push(k, v) \/ Delete(k, v) \/ SetListedRow(k, v) \/ Relist(k, v)
    PROVE  FetchInv'
<1> DEFINE pushed == [NoFeedRow EXCEPT !.held = TRUE, !.listed = TRUE]
           deleted == [NoFeedRow EXCEPT !.tomb = TRUE]
           set == [feedRows[k][v] EXCEPT !.listed = ~@, !.hand = TRUE]
<1>1. UNCHANGED <<table, where, read>> /\ FeedTypeOK
  BY DEF Push, Delete, SetListedRow, Relist, FetchInv
<1>2. pushed \in FeedRowType /\ pushed.held /\ deleted \in FeedRowType /\ deleted.tomb
  BY DEF NoFeedRow, FeedRowType
<1>3. feedRows[k][v] \in FeedRowType
  BY <1>1 DEF FeedTypeOK
<1>4. CASE Push(k, v)
  <2>1. feedRows' = [feedRows EXCEPT ![k][v] = pushed] /\ UNCHANGED unlisted
    BY <1>4 DEF Push
  <2> HIDE DEF pushed
  <2> QED BY <1>1, <1>2, <2>1, RowWritten, OutsideKeepsFetches
<1>5. CASE Delete(k, v)
  <2>1. feedRows' = [feedRows EXCEPT ![k][v] = deleted] /\ UNCHANGED unlisted
    BY <1>5 DEF Delete
  <2> HIDE DEF deleted
  <2> QED BY <1>1, <1>2, <2>1, RowWritten, OutsideKeepsFetches
<1>6. CASE SetListedRow(k, v)
  <2>1. set \in FeedRowType /\ set.held = feedRows[k][v].held
    BY <1>3 DEF FeedRowType
  <2>2. feedRows' = [feedRows EXCEPT ![k][v] = set] /\ UNCHANGED unlisted /\ feedRows[k][v].held
    BY <1>1, <1>3, <1>6 DEF SetListedRow, FeedTypeOK, FeedRowType
  <2> HIDE DEF set
  <2> QED BY <1>1, <2>1, <2>2, RowWritten, OutsideKeepsFetches
<1>7. CASE Relist(k, v)
  <2>1. unlisted' = [unlisted EXCEPT ![k] = IF v \in @ THEN @ \ {v} ELSE @ \cup {v}] /\ UNCHANGED feedRows
    BY <1>7 DEF Relist
  <2>2. FeedTypeOK' /\ RowsStay
    BY <1>1, <2>1 DEF FeedTypeOK, RowsStay
  <2> QED BY <1>1, <2>2, OutsideKeepsFetches
<1> QED BY <1>4, <1>5, <1>6, <1>7

LEMMA ReaderStepKeepsFetches ==
    ASSUME FetchAssumption, FetchInv, NEW r \in Readers, ReaderStep(r) \/ GiveUp(r) \/ CancelRead(r)
    PROVE  FetchInv'
BY TurnKeepsFetches, WaitingKeepsFetches, LeadKeepsFetches, ExistsKeepsFetches, TombstonedKeepsFetches,
   ResourcesKeepsFetches, ListVersionsKeepsFetches, BudgetKeepsFetches, UpstreamListingKeepsFetches,
   DownloadKeepsFetches, StagedKeepsFetches, IndexKeepsFetches, ReconcileKeepsFetches,
   ReconcileReadKeepsFetches, ListedKeepsFetches, CancelReadKeepsFetches DEF ReaderStep

LEMMA FetchInvInit ==
    ASSUME FetchInit
    PROVE  FetchInv
<1>1. PICK deleted \in SUBSET Versions :
          feedRows = [k \in Keys |-> [v \in Versions |-> [NoFeedRow EXCEPT !.tomb = v \in deleted]]]
  BY DEF FetchInit
<1>2. \A v \in Versions : [NoFeedRow EXCEPT !.tomb = v \in deleted] \in FeedRowType
  <2>1. \A b \in BOOLEAN : [NoFeedRow EXCEPT !.tomb = b] \in FeedRowType
    BY DEF NoFeedRow, FeedRowType
  <2>2. \A v \in Versions : (v \in deleted) \in BOOLEAN
    OBVIOUS
  <2> QED BY <2>1, <2>2
<1>3. FeedTypeOK
  BY <1>1, <1>2 DEF FeedTypeOK, FetchInit
<1>4. DOMAIN ids = {} /\ ids = [j \in {} |-> NoState] /\ older = {}
  BY DEF FetchInit
<1>5. TableTypeOK
  <2>1. ids \in [{} -> EntryType]
    BY <1>4
  <2> QED BY <1>4, <2>1 DEF TableTypeOK
<1>6. \A r \in Readers : where[r] = "idle" /\ read[r] = NoRead
  BY DEF FetchInit
<1>7. ReadersTypeOK
  BY <1>6, NoReadTyped DEF ReadersTypeOK, FetchInit, Places, NotLeading
<1>8. \A r \in Readers : ~Leads(r)
  BY <1>6 DEF Leads
<1> QED BY <1>3, <1>4, <1>5, <1>7, <1>8 DEF FetchInv, LeadFits, OneFetch, InflightIsLed

LEMMA FetchInvNext ==
    ASSUME FetchAssumption, FetchInv, [FetchNext]_fetchVars
    PROVE  FetchInv'
<1>1. ASSUME UNCHANGED fetchVars PROVE FetchInv'
  <2>1. UNCHANGED <<table, where, read>> /\ UNCHANGED <<feedRows, unlisted>>
    BY <1>1 DEF fetchVars
  <2> QED BY <2>1, SameFeed, OutsideKeepsFetches DEF FetchInv
<1>2. ASSUME NEW r \in Readers, NEW k \in Keys, MirrorIfNeeded(r, k) \/ MirrorRefresh(r, k) PROVE FetchInv'
  BY <1>2, EnsureKeepsFetches DEF MirrorIfNeeded, MirrorRefresh
<1>3. ASSUME NEW r \in Readers, NEW k \in Keys, NEW v \in Versions, MirrorVersion(r, k, v) PROVE FetchInv'
  BY <1>3, EnsureKeepsFetches DEF MirrorVersion
<1>4. ASSUME UpstreamExpires PROVE FetchInv'
  <2>1. UNCHANGED <<table, where, read>> /\ UNCHANGED <<feedRows, unlisted>>
    BY <1>4 DEF UpstreamExpires
  <2> QED BY <2>1, SameFeed, OutsideKeepsFetches DEF FetchInv
<1> QED BY <1>1, <1>2, <1>3, <1>4, ReaderStepKeepsFetches, ExpireKeepsFetches, EditKeepsFetches DEF FetchNext

---------------------------------------------------------------------------
(* What reads through to an upstream share                                 *)

\* FetchInv is inductive.
LEMMA FetchInvariant == FetchAssumption /\ FetchSpec => []FetchInv
<1> SUFFICES ASSUME FetchAssumption PROVE FetchSpec => []FetchInv
  OBVIOUS
<1>1. FetchInit => FetchInv
  BY FetchInvInit
<1>2. FetchInv /\ [FetchNext]_fetchVars => FetchInv'
  BY FetchInvNext
<1> QED BY <1>1, <1>2, PTL DEF FetchSpec

LEMMA FetchTyped == FetchInv => FetchTypeOK
<1> SUFFICES ASSUME FetchInv PROVE FetchTypeOK
  OBVIOUS
<1>1. \A k \in DOMAIN ids : ids[k].bad \subseteq Versions
  BY DEF FetchInv, TableTypeOK, EntryType
<1> QED BY <1>1 DEF FetchInv, TableTypeOK, ReadersTypeOK, FetchTypeOK, Leads

\* A step moves one reader.
LEMMA OneReaderMoves ==
    ASSUME FetchInv, [FetchNext]_fetchVars, NEW r \in Readers
    PROVE  \/ where'[r] = where[r] /\ read'[r] = read[r]
           \/ ReaderStep(r) \/ GiveUp(r) \/ CancelRead(r)
           \/ where[r] = "idle" /\ where'[r] = "turn"
<1>1. where \in [Readers -> Places] /\ read \in [Readers -> ReadType]
  BY DEF FetchInv, ReadersTypeOK
<1>2. ASSUME NEW s \in Readers, s # r, ReaderStep(s) \/ GiveUp(s) \/ CancelRead(s)
      PROVE  where'[r] = where[r] /\ read'[r] = read[r]
  <2>1. CASE Turn(s) \/ Wake(s) \/ GiveUp(s) \/ Satisfied(s)
    BY <1>1, <1>2, <2>1 DEF Turn, Wake, GiveUp, Satisfied, ReaderGoto, Set
  <2>2. CASE Lead(s) \/ Resources(s) \/ ListVersions(s) \/ Budget(s) \/ UpstreamListing(s) \/ CancelRead(s)
    BY <1>1, <1>2, <2>2 DEF Lead, Resources, ListVersions, Budget, UpstreamListing, CancelRead,
                            ReaderReturn, Advance, ReaderGoto, Set
  <2>3. CASE Exists(s) \/ Tombstoned(s) \/ Staged(s)
    BY <1>1, <1>2, <2>3 DEF Exists, Tombstoned, Staged, Done, ReaderReturn, Advance, ReaderGoto, Set
  <2>4. CASE Download(s) \/ Index(s)
    BY <1>1, <1>2, <2>4 DEF Download, DownloadFailed, Index, Done, ReaderReturn, Advance, ReaderGoto, Set
  <2>5. CASE Reconcile(s) \/ ReconcileRead(s) \/ Listed(s)
    BY <1>1, <1>2, <2>5 DEF Reconcile, ReconcileRead, Listed, ReaderGoto, Set
  <2> QED BY <1>2, <2>1, <2>2, <2>3, <2>4, <2>5 DEF ReaderStep
<1>3. ASSUME NEW s \in Readers, NEW k \in Keys, NEW want, Ensure(s, k, want)
      PROVE  \/ where'[r] = where[r] /\ read'[r] = read[r]
             \/ where[r] = "idle" /\ where'[r] = "turn"
  BY <1>1, <1>3 DEF Ensure, ReaderGoto
<1>4. ASSUME \/ UNCHANGED fetchVars \/ UpstreamExpires \/ \E k \in Keys : Expire(k)
             \/ \E k \in Keys, v \in Versions : Push(k, v) \/ Delete(k, v) \/ SetListedRow(k, v) \/ Relist(k, v)
      PROVE  where'[r] = where[r] /\ read'[r] = read[r]
  BY <1>4 DEF fetchVars, Expire, UpstreamExpires, Push, Delete, SetListedRow, Relist
<1> QED BY <1>2, <1>3, <1>4 DEF FetchNext, MirrorIfNeeded, MirrorRefresh, MirrorVersion

\* A request for a version goes out from where it was decided on, a step or two ago.
LEMMA DecidedJustBefore ==
    ASSUME FetchInv, [FetchNext]_fetchVars, NEW r \in Readers, where[r] # "download", where'[r] = "download"
    PROVE  where[r] \in {"budget", "listing"}
<1>1. where \in [Readers -> Places] /\ read \in [Readers -> ReadType]
  BY DEF FetchInv, ReadersTypeOK
<1>2. ReaderStep(r) \/ GiveUp(r) \/ CancelRead(r)
  BY OneReaderMoves
<1>3. CASE Turn(r) \/ Wake(r) \/ GiveUp(r) \/ Satisfied(r)
  BY <1>1, <1>3 DEF Turn, Wake, GiveUp, Satisfied, ReaderGoto, Set
<1>4. CASE Lead(r) \/ Resources(r) \/ ListVersions(r) \/ Budget(r) \/ UpstreamListing(r) \/ CancelRead(r)
  BY <1>1, <1>4 DEF Lead, Resources, ListVersions, Budget, UpstreamListing, CancelRead,
                    ReaderReturn, Advance, ReaderGoto, Set
<1>5. CASE Exists(r) \/ Tombstoned(r) \/ Staged(r)
  BY <1>1, <1>5 DEF Exists, Tombstoned, Staged, Done, ReaderReturn, Advance, ReaderGoto, Set
<1>6. CASE Download(r) \/ Index(r)
  BY <1>1, <1>6 DEF Download, DownloadFailed, Index, Done, ReaderReturn, Advance, ReaderGoto, Set
<1>7. CASE Reconcile(r) \/ ReconcileRead(r) \/ Listed(r)
  BY <1>1, <1>7 DEF Reconcile, ReconcileRead, Listed, ReaderGoto, Set
<1> QED BY <1>2, <1>3, <1>4, <1>5, <1>6, <1>7 DEF ReaderStep

LEMMA AsksWhenDue ==
    ASSUME FetchAssumption, FetchInv, [FetchNext]_fetchVars,
           NEW r \in Readers, where[r] # "download", where'[r] = "download"
    PROVE  LET s == Entry(read[r].key) IN ~s.backoff /\ read[r].version \notin s.bad
<1>1. where[r] \in {"budget", "listing"}
  BY DecidedJustBefore
<1>2. Entry(read[r].key) = ids[read[r].key] /\ Fits(where[r], read[r], ids[read[r].key], feedRows[read[r].key])
  BY <1>1, LeaderKnows DEF Leads
<1> QED BY <1>1, <1>2 DEF Fits, Requesting

LEMMA WorksThrough ==
    ASSUME FetchAssumption, FetchInv, FetchInv', [FetchNext]_fetchVars,
           NEW r \in Readers, NEW k \in Keys, where[r] = "listed", read[r].key = k, Entry(k)'.listed
    PROVE  \A v \in NewestOffered(k) :
               feedRows[k][v].held \/ feedRows[k][v].tomb \/ v \in read[r].failed
<1>1. Leads(r)
  BY DEF Leads
<1>2. /\ read[r] \in ReadType /\ k \in DOMAIN ids /\ ids[k].inflight = read[r].fetch /\ ids[k] \in EntryType
      /\ ids \in [DOMAIN ids -> EntryType]
      /\ Fits("listed", read[r], ids[k], feedRows[k])
  BY <1>1, LeaderKnows DEF TableTypeOK
<1>3. read[r].want = Listing /\ ~ids[k].listed
  BY <1>2 DEF Fits, Reconciling
<1>4. CASE read[r].complete
  <2>1. NewestOffered(k) \in SUBSET Versions /\ NoFetch \notin Versions
    BY OfferedTyped DEF FetchAssumption, NoFetch
  <2>2. \A v \in NewestOffered(k) : 
            v \in read[r].todo \/ v = read[r].version \/ feedRows[k][v].held \/ feedRows[k][v].tomb \/ v \in read[r].failed
    BY <1>2, <1>3, <1>4 DEF Fits, Reconciling
  <2>3. read[r].todo = {} /\ read[r].version = NoFetch
    BY <1>2, <1>4 DEF Fits, Reconciling
  <2> QED BY <2>1, <2>2, <2>3
<1>5. CASE ~read[r].complete
  <2> SUFFICES ASSUME Entry(k)'.listed PROVE FALSE
    OBVIOUS
  <2>1. k \in DOMAIN ids' /\ ids'[k].listed
    BY DEF Entry, NoState
  <2>2. CASE where'[r] = where[r] /\ read'[r] = read[r]
    <3>1. Leads(r)' /\ LeadFits(r)'
      BY <1>1, <2>2 DEF Leads, FetchInv
    <3>2. Fits("listed", read[r], ids'[k], feedRows'[k])
      BY <2>2, <3>1 DEF LeadFits
    <3> QED BY <1>3, <2>1, <3>2 DEF Fits
  <2>3. CASE Listed(r) \/ CancelRead(r)
    <3>1. ids' = [ids EXCEPT ![k].inflight = NoFetch]
      BY <1>2, <1>5, <2>3 DEF Listed, CancelRead, ReaderReturn, EndFetch
    <3>2. ids'[k] = [ids[k] EXCEPT !.inflight = NoFetch]
      BY <1>2, <3>1
    <3>3. ids'[k].listed = ids[k].listed
      BY <1>2, <3>2 DEF EntryType
    <3> QED BY <1>3, <2>1, <3>3
  <2>4. Listed(r) \/ CancelRead(r) \/ (where'[r] = where[r] /\ read'[r] = read[r])
    <3>1. ReaderStep(r) \/ GiveUp(r) => Listed(r)
      BY DEF ReaderStep, GiveUp, Turn, Wake, Satisfied, Lead, Exists, Tombstoned, Resources, ListVersions,
             Budget, UpstreamListing, Download, Staged, Index, Reconcile, ReconcileRead
    <3> QED BY <3>1, OneReaderMoves
  <2> QED BY <2>2, <2>3, <2>4
<1> QED BY <1>4, <1>5

\* However many readers and packages there are, and however small the table: reads of
\* a package share one fetch at a time, which always has a leader; nothing is asked
\* before its time, and no version of a listing is left out (FetchTracker,
\* ensure_listing, fetch_missing).
THEOREM ReadsShare == FetchAssumption /\ FetchSpec => ReadsShareAFetch
<1> SUFFICES ASSUME FetchAssumption PROVE FetchSpec => ReadsShareAFetch
  OBVIOUS
<1>1. FetchSpec => []FetchInv
  BY FetchInvariant
<1>2. FetchInv => FetchTypeOK /\ OneFetch /\ InflightIsLed
  BY FetchTyped DEF FetchInv
<1>3. FetchInv /\ [FetchNext]_fetchVars =>
          [\A r \in Readers : where[r] # "download" /\ where'[r] = "download" =>
              LET s == Entry(read[r].key) IN ~s.backoff /\ read[r].version \notin s.bad]_fetchVars
  BY AsksWhenDue
<1>4. FetchInv /\ FetchInv' /\ [FetchNext]_fetchVars =>
          [\A r \in Readers, k \in Keys : where[r] = "listed" /\ read[r].key = k /\ Entry(k)'.listed =>
              \A v \in NewestOffered(k) :
                  feedRows[k][v].held \/ feedRows[k][v].tomb \/ v \in read[r].failed]_fetchVars
  BY WorksThrough
<1>5. FetchSpec => AskedOnlyWhenDue
  BY <1>1, <1>3, PTL DEF FetchSpec, AskedOnlyWhenDue
<1>6. FetchSpec => ListedIsWorkedThrough
  BY <1>1, <1>4, PTL DEF FetchSpec, ListedIsWorkedThrough
<1>7. FetchSpec => [](FetchTypeOK /\ OneFetch /\ InflightIsLed)
  BY <1>1, <1>2, PTL
<1> QED BY <1>5, <1>6, <1>7 DEF ReadsShareAFetch

---------------------------------------------------------------------------
(* The free space: the inductive invariant                                 *)

\* What the locals of a writer say of its reservation and of the row of its
\* upload, at each place of a request.
Asking == {"measure", "rows", "decide", "refuse"}
Writing == {"write", "measuring", "record"}

JobFits(w) ==
    LET j == job[w]  u == job[w].upload  IN
    /\ pc[w] = "idle" <=> j.kind = "none"
    /\ pc[w] = "idle" => held[w] = 0 /\ j = NoJob
    /\ j.before => j.kind = "patch"
    /\ pc[w] \in {"giveUp", "open", "record"} => j.kind = "patch"
    /\ pc[w] \in {"write", "measuring"} => j.kind \in {"push", "chunked", "patch"}
    /\ pc[w] = "insert" => j.kind = "create"
    /\ pc[w] = "drop" => j.kind \in {"create", "patch"}
    /\ pc[w] \notin Writing \cup {"drop"} => j.unchecked = 0 /\ j.written = 0
    /\ pc[w] = "measuring" => j.unchecked = 0
    /\ j.kind = "create" =>
          /\ u \in Uploads /\ pc[w] \in Asking \cup {"insert", "drop"}
          /\ pc[w] # "drop" => rows[u].is = "unborn" /\ held[w] = Length
    /\ j.kind = "patch" =>
          /\ u \in Uploads
          /\ pc[w] # "drop" => /\ rows[u].is = "open"
                               /\ held[w] = j.left
                               /\ j.left + j.written = rows[u].rest
          /\ pc[w] = "giveUp" => (rows[u].hold <=> j.before)
          /\ pc[w] \notin {"giveUp", "drop"} => ~rows[u].hold
          /\ pc[w] \in Writing => rows[u].junk = 0

\* An upload has one request that appends to it, and one is created at a time.
OneRequest ==
    \A v, w \in Writers :
        v # w => /\ ~(job[v].kind = "create" /\ job[w].kind = "create")
                 /\ job[v].kind = "patch" /\ job[w].kind = "patch" => job[v].upload # job[w].upload

\* What a writer nobody moved bytes under has read is still on the safe side.
FreshReads ==
    \A w \in Writers \ moved :
        /\ pc[w] \in {"rows", "decide"} => job[w].available <= free
        /\ pc[w] = "decide" => Outstanding <= job[w].resumable

\* The part of its interval each writer has used up: one that has found the
\* reserve intact may still write a whole interval, one that has not, nothing.
Used == [w \in Writers |->
            IF pc[w] \in {"rows", "decide", "measuring"} /\ job[w].available >= Reserve THEN 0
            ELSE IF pc[w] \in {"open", "insert", "write"} THEN job[w].unchecked
            ELSE Interval]

UsedIsBelow == blind \/ free >= Reserve - Sum(Used, Writers)

SpaceInv ==
    /\ TypeOK
    /\ \A w \in Writers : JobFits(w)
    /\ OneRequest
    /\ PoolIsSum
    /\ FreshReads
    /\ UsedIsBelow

---------------------------------------------------------------------------
(* Sums                                                                    *)

\* The units a member promises are as many as its share.
LEMMA UnitsOfOne ==
    ASSUME NEW x, NEW n \in Nat
    PROVE  IsFiniteSet({x} \X (1 .. n)) /\ Cardinality({x} \X (1 .. n)) = n
<1>1. IsFiniteSet(1 .. n) /\ Cardinality(1 .. n) = n
  BY FS_Interval
<1>2. IsFiniteSet({x}) /\ Cardinality({x}) = 1
  BY FS_Singleton
<1>3. QED  BY <1>1, <1>2, FS_Product

\* A sum over a finite set is a natural number.
LEMMA SumIsNat ==
    ASSUME NEW S, IsFiniteSet(S), NEW f, \A x \in S : f[x] \in Nat
    PROVE  IsFiniteSet(Units(f, S)) /\ Sum(f, S) \in Nat
<1> DEFINE T == {{x} \X (1 .. f[x]) : x \in S}
<1> DEFINE g == [x \in S |-> {x} \X (1 .. f[x])]
<1>1. g \in Surjection(S, T)
  BY DEF Surjection
<1>2. IsFiniteSet(T)
  BY <1>1, FS_Surjection
<1>3. ASSUME NEW U \in T
      PROVE  IsFiniteSet(U)
  <2>1. PICK x \in S : U = {x} \X (1 .. f[x])
    OBVIOUS
  <2>2. QED  BY <2>1, UnitsOfOne
<1>4. IsFiniteSet(UNION T)
  BY <1>2, <1>3, FS_UNION
<1>5. QED  BY <1>4, FS_CardinalityType DEF Units, Sum

\* One member's share is taken out of a sum.
LEMMA SumOut ==
    ASSUME NEW S, IsFiniteSet(S), NEW f, \A x \in S : f[x] \in Nat, NEW w \in S
    PROVE  Sum(f, S) = f[w] + Sum(f, S \ {w})
<1> DEFINE One == {w} \X (1 .. f[w])
<1> DEFINE Rest == Units(f, S \ {w})
<1>1. IsFiniteSet(One) /\ Cardinality(One) = f[w]
  BY UnitsOfOne
<1>2. IsFiniteSet(S \ {w})
  BY FS_RemoveElement
<1>3. IsFiniteSet(Rest) /\ Cardinality(Rest) \in Nat
  BY <1>2, SumIsNat DEF Sum
<1>4. Units(f, S) = One \cup Rest
  BY DEF Units
<1>5. One \cap Rest = {}
  BY DEF Units
<1>6. Cardinality(One \cap Rest) = 0
  BY <1>5, FS_EmptySet
<1>7. Cardinality(One \cup Rest) = Cardinality(One) + Cardinality(Rest) - Cardinality(One \cap Rest)
  BY <1>1, <1>3, FS_Union
<1>8. Cardinality(Units(f, S)) = f[w] + Cardinality(Rest)
  <2> HIDE DEF One, Rest
  <2>1. QED  BY <1>1, <1>3, <1>4, <1>6, <1>7
<1>9. QED  BY <1>8 DEF Sum

\* A sum depends on the shares of its members only.
LEMMA SumSame ==
    ASSUME NEW S, NEW f, NEW g, \A x \in S : f[x] = g[x]
    PROVE  Sum(f, S) = Sum(g, S)
<1>1. Units(f, S) = Units(g, S)
  BY DEF Units
<1>2. QED  BY <1>1 DEF Sum

\* More members with more each make no less.
LEMMA SumGrows ==
    ASSUME NEW S, NEW T, IsFiniteSet(T), S \subseteq T, NEW f, NEW g,
           \A x \in T : g[x] \in Nat, \A x \in S : f[x] \in Nat /\ f[x] <= g[x]
    PROVE  Sum(f, S) \in Nat /\ Sum(f, S) <= Sum(g, T)
<1>1. IsFiniteSet(S)
  BY FS_Subset
<1>2. Sum(f, S) \in Nat /\ Sum(g, T) \in Nat /\ IsFiniteSet(Units(g, T))
  BY <1>1, SumIsNat
<1>3. \A x \in S : {x} \X (1 .. f[x]) \subseteq {x} \X (1 .. g[x])
  OBVIOUS
<1>4. Units(f, S) \subseteq Units(g, T)
  BY <1>3 DEF Units
<1>5. QED  BY <1>2, <1>4, FS_Subset DEF Sum

\* A step that concerns the share of w alone changes the sum by that much.
LEMMA SumStep ==
    ASSUME NEW S, NEW T, IsFiniteSet(S), IsFiniteSet(T), NEW w, S \ {w} = T \ {w},
           NEW f, NEW g, \A x \in S : f[x] \in Nat, \A x \in T : g[x] \in Nat,
           \A x \in S \ {w} : f[x] = g[x]
    PROVE  /\ Sum(f, S) \in Nat /\ Sum(g, T) \in Nat
           /\ Sum(g, T) - (IF w \in T THEN g[w] ELSE 0) = Sum(f, S) - (IF w \in S THEN f[w] ELSE 0)
<1>1. Sum(f, S) \in Nat /\ Sum(g, T) \in Nat
  BY SumIsNat
<1>2. Sum(f, S \ {w}) = Sum(g, T \ {w})
  BY SumSame
<1>3. IsFiniteSet(S \ {w}) /\ Sum(f, S \ {w}) \in Nat
  BY SumIsNat, FS_RemoveElement
<1>4. Sum(f, S) - (IF w \in S THEN f[w] ELSE 0) = Sum(f, S \ {w})
  <2>1. CASE w \in S
    <3>1. Sum(f, S) = f[w] + Sum(f, S \ {w}) /\ f[w] \in Nat
      BY <2>1, SumOut
    <3>2. QED  BY <2>1, <3>1, <1>3
  <2>2. CASE w \notin S
    <3>1. S \ {w} = S
      BY <2>2
    <3>2. Sum(f, S \ {w}) = Sum(f, S)
      BY <3>1
    <3>3. QED  BY <2>2, <3>2, <1>1
  <2>3. QED  BY <2>1, <2>2
<1>5. Sum(g, T) - (IF w \in T THEN g[w] ELSE 0) = Sum(g, T \ {w})
  <2>1. CASE w \in T
    <3>1. Sum(g, T) = g[w] + Sum(g, T \ {w}) /\ g[w] \in Nat
      BY <2>1, SumOut
    <3>2. Sum(g, T \ {w}) \in Nat
      BY <1>2, <1>3
    <3>3. QED  BY <2>1, <3>1, <3>2
  <2>2. CASE w \notin T
    <3>1. T \ {w} = T
      BY <2>2
    <3>2. Sum(g, T \ {w}) = Sum(g, T)
      BY <3>1
    <3>3. QED  BY <2>2, <3>2, <1>1
  <2>3. QED  BY <2>1, <2>2
<1>6. QED  BY <1>1, <1>2, <1>4, <1>5

\* Shares of at most n make at most n for each member.
LEMMA SumBound ==
    ASSUME NEW S, IsFiniteSet(S), NEW f, NEW n \in Nat, \A x \in S : f[x] \in Nat /\ f[x] <= n
    PROVE  Sum(f, S) <= n * Cardinality(S)
<1>1. IsFiniteSet(1 .. n) /\ Cardinality(1 .. n) = n
  BY FS_Interval
<1>2. IsFiniteSet(S \X (1 .. n)) /\ Cardinality(S \X (1 .. n)) = Cardinality(S) * n
  BY <1>1, FS_Product
<1>3. Units(f, S) \subseteq S \X (1 .. n)
  BY DEF Units
<1>4. Cardinality(S) \in Nat
  BY FS_CardinalityType
<1>5. Sum(f, S) <= Cardinality(S) * n
  BY <1>2, <1>3, FS_Subset DEF Sum
<1>6. QED  BY <1>4, <1>5

---------------------------------------------------------------------------
(* What a step of one writer does to the sums                              *)

USE SpaceAssumption

\* What a row promises: outstanding_upload_bytes counts it or not.
Share(row) == IF row.is = "open" /\ row.hold THEN row.rest ELSE 0

\* What is owed to a writer.
OwedTo(w) == IF Owed(w) THEN held[w] ELSE 0
OwedSum == Sum(held, {w \in Writers : Owed(w)})

\* The outstanding bytes change with the row that changes.
LEMMA OutstandingStep ==
    ASSUME TypeOK, rows' \in [Uploads -> Rows], NEW u \in Uploads,
           \A x \in Uploads \ {u} : rows'[x] = rows[x]
    PROVE  /\ Outstanding \in Nat /\ Outstanding' \in Nat
           /\ Outstanding' = Outstanding - Share(rows[u]) + Share(rows'[u])
<1> DEFINE S == {x \in Open : rows[x].hold}
<1> DEFINE T == {x \in Uploads : rows'[x].is = "open" /\ rows'[x].hold}
<1> DEFINE f == [x \in Uploads |-> rows[x].rest]
<1> DEFINE g == [x \in Uploads |-> rows'[x].rest]
<1>1. Outstanding = Sum(f, S) /\ Outstanding' = Sum(g, T)
  BY DEF Outstanding, Open, Sum, Units
<1>2. S \subseteq Uploads /\ T \subseteq Uploads
  BY DEF Open
<1>3. IsFiniteSet(S) /\ IsFiniteSet(T)
  BY <1>2, FS_Subset
<1>4. \A x \in Uploads : f[x] \in Nat /\ g[x] \in Nat
  BY DEF TypeOK, Rows
<1>5. S \ {u} = T \ {u}
  BY DEF Open
<1>6. \A x \in S \ {u} : f[x] = g[x]
  BY <1>2
<1>7. f[u] = rows[u].rest /\ g[u] = rows'[u].rest
  OBVIOUS
<1>8. Share(rows[u]) = (IF u \in S THEN f[u] ELSE 0) /\ Share(rows'[u]) = (IF u \in T THEN g[u] ELSE 0)
  BY <1>7 DEF Share, Open
<1>9. /\ Sum(f, S) \in Nat /\ Sum(g, T) \in Nat
      /\ Sum(g, T) - (IF u \in T THEN g[u] ELSE 0) = Sum(f, S) - (IF u \in S THEN f[u] ELSE 0)
  <2> HIDE DEF S, T, f, g
  <2>1. QED  BY <1>2, <1>3, <1>4, <1>5, <1>6, SumStep
<1>10. f[u] \in Nat /\ g[u] \in Nat
  BY <1>4
<1>11. QED
  <2> HIDE DEF S, T, f, g
  <2>1. QED  BY <1>1, <1>8, <1>9, <1>10

\* Rows that do not change promise what they did.
LEMMA OutstandingSame ==
    ASSUME TypeOK, rows' = rows
    PROVE  Outstanding \in Nat /\ Outstanding' = Outstanding
<1> DEFINE S == {x \in Open : rows[x].hold}
<1> DEFINE f == [x \in Uploads |-> rows[x].rest]
<1>1. IsFiniteSet(S) /\ \A x \in S : f[x] \in Nat
  BY FS_Subset DEF Open, TypeOK, Rows
<1>2. Sum(f, S) \in Nat
  <2> HIDE DEF S, f
  <2>1. QED  BY <1>1, SumIsNat
<1>3. QED  BY <1>2 DEF Outstanding, Open, Sum, Units

\* The pool changes with the reservation that changes.
LEMMA PoolStep ==
    ASSUME TypeOK, PoolIsSum, NEW w \in Writers, NEW n \in Nat,
           held' = [held EXCEPT ![w] = n], promised' = promised - held[w] + n
    PROVE  held' \in [Writers -> Nat] /\ promised' \in Nat /\ PoolIsSum'
<1>1. held' \in [Writers -> Nat] /\ held'[w] = n /\ \A v \in Writers \ {w} : held'[v] = held[v]
  BY DEF TypeOK
<1>2. held \in [Writers -> Nat] /\ held[w] \in Nat
  BY DEF TypeOK
<1>3. /\ Sum(held, Writers) \in Nat /\ Sum(held', Writers) \in Nat
      /\ Sum(held', Writers) - n = Sum(held, Writers) - held[w]
  <2> DEFINE f == held
  <2> DEFINE g == held'
  <2>1. /\ IsFiniteSet(Writers) /\ \A v \in Writers : f[v] \in Nat
        /\ \A v \in Writers : g[v] \in Nat
        /\ \A v \in Writers \ {w} : f[v] = g[v]
    BY <1>1, <1>2
  <2>2. /\ Sum(f, Writers) \in Nat /\ Sum(g, Writers) \in Nat
        /\ Sum(g, Writers) - (IF w \in Writers THEN g[w] ELSE 0)
             = Sum(f, Writers) - (IF w \in Writers THEN f[w] ELSE 0)
    <3> HIDE DEF f, g
    <3>1. QED  BY <2>1, SumStep
  <2>3. QED  BY <1>1, <2>2
<1>4. promised = Sum(held, Writers)
  BY DEF PoolIsSum
<1>5. promised' = Sum(held', Writers)
  BY <1>2, <1>3, <1>4
<1>6. QED  BY <1>1, <1>3, <1>5 DEF PoolIsSum

\* What is owed changes with the writer that moves.
LEMMA OwedStep ==
    ASSUME TypeOK, TypeOK', NEW w \in Writers,
           \A v \in Writers \ {w} : /\ pc'[v] = pc[v] /\ job'[v].before = job[v].before
                                    /\ held'[v] = held[v]
    PROVE  /\ OwedSum \in Nat /\ OwedSum' \in Nat
           /\ OwedSum' = OwedSum - OwedTo(w) + OwedTo(w)'
<1> DEFINE S == {v \in Writers : Owed(v)}
<1> DEFINE T == {v \in Writers : Owed(v)'}
<1>1. OwedSum = Sum(held, S) /\ OwedSum' = Sum(held', T)
  BY DEF OwedSum, Sum, Units
<1>2. IsFiniteSet(S) /\ IsFiniteSet(T)
  BY FS_Subset
<1>3. \A v \in Writers : held[v] \in Nat /\ held'[v] \in Nat
  BY DEF TypeOK
<1>4. \A v \in Writers \ {w} : Owed(v) <=> Owed(v)'
  BY DEF Owed
<1>5. S \ {w} = T \ {w}
  BY <1>4
<1>6. OwedTo(w) = (IF w \in S THEN held[w] ELSE 0) /\ OwedTo(w)' = (IF w \in T THEN held'[w] ELSE 0)
  BY DEF OwedTo
<1>7. S \subseteq Writers /\ T \subseteq Writers
  OBVIOUS
<1>8. /\ Sum(held, S) \in Nat /\ Sum(held', T) \in Nat
      /\ Sum(held', T) - (IF w \in T THEN held'[w] ELSE 0) = Sum(held, S) - (IF w \in S THEN held[w] ELSE 0)
  <2> DEFINE f == held
  <2> DEFINE g == held'
  <2>1. /\ \A v \in S : f[v] \in Nat
        /\ \A v \in T : g[v] \in Nat
        /\ \A v \in S \ {w} : f[v] = g[v]
    BY <1>3, <1>7
  <2>2. /\ Sum(f, S) \in Nat /\ Sum(g, T) \in Nat
        /\ Sum(g, T) - (IF w \in T THEN g[w] ELSE 0) = Sum(f, S) - (IF w \in S THEN f[w] ELSE 0)
    <3> HIDE DEF S, T, f, g
    <3>1. QED  BY <1>2, <1>5, <2>1, SumStep
  <2>3. QED  BY <2>2
<1>9. QED
  <2> HIDE DEF S, T
  <2>1. QED  BY <1>1, <1>3, <1>6, <1>8

\* What is owed is part of the pool.
LEMMA OwedIsPromised ==
    ASSUME TypeOK, PoolIsSum
    PROVE  OwedSum \in Nat /\ OwedSum <= promised
<1> DEFINE S == {v \in Writers : Owed(v)}
<1>1. S \subseteq Writers /\ \A v \in Writers : held[v] \in Nat /\ held[v] <= held[v]
  BY DEF TypeOK
<1>2. Sum(held, S) \in Nat /\ Sum(held, S) <= Sum(held, Writers)
  <2> HIDE DEF S
  <2>1. QED  BY <1>1, SumGrows
<1>3. QED  BY <1>2 DEF OwedSum, PoolIsSum

\* What the writers have used up of their intervals is a share of at most one
\* interval each.
LEMMA UsedType ==
    ASSUME TypeOK
    PROVE  /\ \A w \in Writers : Used[w] \in Nat /\ Used[w] <= Interval
           /\ Sum(Used, Writers) \in Nat
<1>1. \A w \in Writers : Used[w] \in Nat /\ Used[w] <= Interval
  BY DEF TypeOK, Jobs, Used
<1>2. QED  BY <1>1, SumIsNat

\* The floor holds on when a writer uses what it writes, or finds the reserve
\* intact.
LEMMA UsedStep ==
    ASSUME TypeOK, TypeOK', UsedIsBelow, NEW w \in Writers,
           \A v \in Writers \ {w} : pc'[v] = pc[v] /\ job'[v] = job[v],
           blind => blind',
           blind' \/ free' >= Reserve \/ free' + Used'[w] >= free + Used[w]
    PROVE  UsedIsBelow'
<1>1. /\ \A v \in Writers : Used[v] \in Nat
      /\ \A v \in Writers : Used'[v] \in Nat
  BY DEF TypeOK, Jobs, Used
<1>2. \A v \in Writers \ {w} : Used[v] = Used'[v]
  BY DEF Used
<1>3. /\ Sum(Used, Writers) \in Nat /\ Sum(Used', Writers) \in Nat
      /\ Sum(Used', Writers) - Used'[w] = Sum(Used, Writers) - Used[w]
  <2> DEFINE f == Used
  <2> DEFINE g == Used'
  <2>1. /\ IsFiniteSet(Writers) /\ \A v \in Writers : f[v] \in Nat
        /\ \A v \in Writers : g[v] \in Nat
        /\ \A v \in Writers \ {w} : f[v] = g[v]
    BY <1>1, <1>2
  <2>2. /\ Sum(f, Writers) \in Nat /\ Sum(g, Writers) \in Nat
        /\ Sum(g, Writers) - (IF w \in Writers THEN g[w] ELSE 0)
             = Sum(f, Writers) - (IF w \in Writers THEN f[w] ELSE 0)
    <3> HIDE DEF f, g
    <3>1. QED  BY <2>1, SumStep
  <2>3. QED  BY <2>2
<1>4. free \in Nat /\ free' \in Nat /\ Used[w] \in Nat /\ Used'[w] \in Nat
  BY <1>1 DEF TypeOK
<1>5. blind' \/ free' >= Reserve - Sum(Used', Writers)
  <2> HIDE DEF Used
  <2>1. blind \/ free >= Reserve - Sum(Used, Writers)
    BY DEF UsedIsBelow
  <2>2. QED  BY <1>3, <1>4, <2>1
<1>6. QED  BY <1>5 DEF UsedIsBelow

\* The other writers fit as before when a writer changes the row of the upload
\* it creates or appends to.
LEMMA OthersFit ==
    ASSUME TypeOK, \A v \in Writers : JobFits(v), OneRequest,
           NEW w \in Writers, NEW v \in Writers \ {w},
           pc'[v] = pc[v], job'[v] = job[v], held'[v] = held[v],
           \/ rows' = rows
           \/ /\ job[w].kind \in {"create", "patch"} /\ pc[w] # "drop"
              /\ \A x \in Uploads \ {job[w].upload} : rows'[x] = rows[x]
    PROVE  JobFits(v)'
<1>1. JobFits(v) /\ JobFits(w)
  OBVIOUS
<1>2. CASE rows' = rows
  BY <1>1, <1>2 DEF JobFits
<1>3. CASE /\ job[w].kind \in {"create", "patch"} /\ pc[w] # "drop"
           /\ \A x \in Uploads \ {job[w].upload} : rows'[x] = rows[x]
  <2>1. job[v].kind \in {"create", "patch"} /\ pc[v] # "drop" => job[v].upload # job[w].upload
    BY <1>1, <1>3 DEF JobFits, OneRequest
  <2>2. job[v].kind \in {"create", "patch"} /\ pc[v] # "drop" => rows'[job[v].upload] = rows[job[v].upload]
    BY <1>1, <1>3, <2>1 DEF JobFits
  <2>3. QED  BY <1>1, <2>2 DEF JobFits, Writing
<1>4. QED  BY <1>2, <1>3

\* One writer moves to the place p with the locals j and a reservation of n.
WriterMoves(w, j, p, n) ==
    /\ w \in Writers /\ j \in Jobs /\ p \in PCs /\ n \in Nat
    /\ job' = [job EXCEPT ![w] = j]
    /\ pc' = [pc EXCEPT ![w] = p]
    /\ held' = [held EXCEPT ![w] = n]
    /\ promised' = promised - held[w] + n

\* What such a step may do to the rest: the rows of its own upload only, and
\* no request beside another of the same upload.
Apart(w, j) ==
    /\ free' \in Nat /\ rows' \in [Uploads -> Rows]
    /\ moved' \subseteq Writers /\ blind' \in BOOLEAN
    /\ \/ rows' = rows
       \/ /\ job[w].kind \in {"create", "patch"} /\ pc[w] # "drop"
          /\ \A x \in Uploads \ {job[w].upload} : rows'[x] = rows[x]
    /\ \A v \in Writers \ {w} :
          /\ ~(job[v].kind = "create" /\ j.kind = "create")
          /\ job[v].kind = "patch" /\ j.kind = "patch" => job[v].upload # j.upload

\* What it leaves true of the others' reads, and of its own.
ReadsStayFresh(w) ==
    /\ moved \subseteq moved' \cup {w}
    /\ free' >= free \/ \A v \in Writers \ {w} : pc[v] \in {"rows", "decide"} => v \in moved'
    /\ Outstanding' <= Outstanding \/ \A v \in Writers \ {w} : pc[v] = "decide" => v \in moved'
    /\ w \notin moved' => /\ pc'[w] \in {"rows", "decide"} => job'[w].available <= free'
                          /\ pc'[w] = "decide" => Outstanding' <= job'[w].resumable

\* How it leaves the floor.
FloorStays(w) ==
    /\ blind => blind'
    /\ blind' \/ free' >= Reserve \/ free' + Used'[w] >= free + Used[w]

\* A step of one writer that keeps to all that keeps the invariant.
LEMMA WriterStep ==
    ASSUME SpaceInv, NEW w, NEW j, NEW p, NEW n, WriterMoves(w, j, p, n),
           Apart(w, j), JobFits(w)', Outstanding \in Nat, Outstanding' \in Nat,
           ReadsStayFresh(w), FloorStays(w)
    PROVE  SpaceInv'
<1>1. w \in Writers /\ j \in Jobs /\ p \in PCs /\ n \in Nat
  BY DEF WriterMoves
<1>2. /\ job' = [job EXCEPT ![w] = j] /\ pc' = [pc EXCEPT ![w] = p]
      /\ held' = [held EXCEPT ![w] = n] /\ promised' = promised - held[w] + n
  BY DEF WriterMoves
<1>3. TypeOK /\ PoolIsSum /\ OneRequest /\ FreshReads /\ UsedIsBelow /\ \A v \in Writers : JobFits(v)
  BY DEF SpaceInv
<1>4. held' \in [Writers -> Nat] /\ promised' \in Nat /\ PoolIsSum'
  BY <1>1, <1>2, <1>3, PoolStep
<1>5. job' \in [Writers -> Jobs] /\ pc' \in [Writers -> PCs]
  BY <1>1, <1>2, <1>3 DEF TypeOK
<1>6. TypeOK'
  BY <1>4, <1>5 DEF TypeOK, Apart
<1>7. /\ job'[w] = j /\ pc'[w] = p
      /\ \A v \in Writers \ {w} : pc'[v] = pc[v] /\ job'[v] = job[v] /\ held'[v] = held[v]
  BY <1>1, <1>2, <1>3 DEF TypeOK
<1>8. \A v \in Writers : JobFits(v)'
  <2>1. ASSUME NEW v \in Writers \ {w}
        PROVE  JobFits(v)'
    BY <1>1, <1>3, <1>7, OthersFit DEF Apart
  <2>2. QED  BY <2>1
<1>9. OneRequest'
  BY <1>3, <1>7, <1>1 DEF OneRequest, Apart
<1>10. FreshReads'
  <2>1. ASSUME NEW v \in Writers \ moved'
        PROVE  /\ pc'[v] \in {"rows", "decide"} => job'[v].available <= free'
               /\ pc'[v] = "decide" => Outstanding' <= job'[v].resumable
    <3>1. CASE v = w
      BY <3>1, <2>1 DEF ReadsStayFresh
    <3>2. CASE v # w
      <4>1. v \in Writers \ {w} /\ pc'[v] = pc[v] /\ job'[v] = job[v] /\ v \notin moved
        BY <3>2, <2>1, <1>7 DEF ReadsStayFresh
      <4>2. /\ pc[v] \in {"rows", "decide"} => job[v].available <= free
            /\ pc[v] = "decide" => Outstanding <= job[v].resumable
        BY <4>1, <1>3 DEF FreshReads
      <4>3. job[v].available \in Nat /\ job[v].resumable \in Nat /\ free \in Nat /\ free' \in Nat
        BY <1>3, <1>6 DEF TypeOK, Jobs
      <4>4. pc[v] \in {"rows", "decide"} => free' >= free
        BY <4>1, <2>1 DEF ReadsStayFresh
      <4>5. pc[v] = "decide" => Outstanding' <= Outstanding
        BY <4>1, <2>1 DEF ReadsStayFresh
      <4>6. QED  BY <4>1, <4>2, <4>3, <4>4, <4>5
    <3>3. QED  BY <3>1, <3>2
  <2>2. QED  BY <2>1 DEF FreshReads
<1>11. UsedIsBelow'
  BY <1>1, <1>3, <1>6, <1>7, UsedStep DEF FloorStays
<1>12. QED  BY <1>4, <1>6, <1>8, <1>9, <1>10, <1>11 DEF SpaceInv

\* A request that goes on, or ends, is beside the others what it was.
LEMMA SameRequest ==
    ASSUME SpaceInv, NEW w \in Writers, NEW j,
           \/ j.kind \notin {"create", "patch"}
           \/ j.kind = job[w].kind /\ j.upload = job[w].upload
    PROVE  \A v \in Writers \ {w} :
              /\ ~(job[v].kind = "create" /\ j.kind = "create")
              /\ job[v].kind = "patch" /\ j.kind = "patch" => job[v].upload # j.upload
BY DEF SpaceInv, OneRequest

\* A step that touches no row and no read and takes no space.
LEMMA QuietStep ==
    ASSUME SpaceInv, NEW w, NEW j, NEW p, NEW n, WriterMoves(w, j, p, n), JobFits(w)',
           \A v \in Writers \ {w} :
              /\ ~(job[v].kind = "create" /\ j.kind = "create")
              /\ job[v].kind = "patch" /\ j.kind = "patch" => job[v].upload # j.upload,
           rows' = rows, free' \in Nat, free' >= free, moved' = moved, blind' = blind,
           p \notin {"rows", "decide"}, free' >= Reserve \/ Used'[w] >= Used[w]
    PROVE  SpaceInv'
<1>1. TypeOK /\ w \in Writers /\ p \in PCs /\ j \in Jobs
  BY DEF SpaceInv, WriterMoves
<1>2. Outstanding \in Nat /\ Outstanding' = Outstanding
  BY <1>1, OutstandingSame
<1>3. Apart(w, j)
  BY <1>1 DEF Apart, TypeOK
<1>4. pc'[w] = p /\ job'[w] = j
  BY <1>1 DEF WriterMoves, TypeOK
<1>5. ReadsStayFresh(w)
  BY <1>2, <1>4 DEF ReadsStayFresh
<1>6. Used[w] \in Nat /\ Used'[w] \in Nat /\ free \in Nat
  BY <1>1, <1>4 DEF Used, TypeOK, Jobs
<1>7. FloorStays(w)
  <2> HIDE DEF Used
  <2>1. QED  BY <1>6 DEF FloorStays
<1>8. QED  BY <1>2, <1>3, <1>5, <1>7, WriterStep

---------------------------------------------------------------------------
(* The steps                                                               *)

\* An idle writer has locals of the right type.
LEMMA NoJobType == NoJob \in Jobs
BY DEF NoJob, Job, Jobs

\* A push asks for what it declares, and nothing else changes.
LEMMA AdmitKeeps ==
    ASSUME SpaceInv, NEW w \in Writers, NEW kind \in {"push", "chunked"}, NEW n \in Sizes \cup {0},
           Admit(w, kind, n)
    PROVE  SpaceInv'
<1> DEFINE j == Job(kind, None, n, IF kind = "push" THEN n ELSE MaxBody, FALSE)
<1>1. TypeOK /\ JobFits(w) /\ pc[w] = "idle" /\ n \in Nat
  <2>1. TypeOK /\ JobFits(w)
    BY DEF SpaceInv
  <2>2. pc[w] = "idle"
    BY DEF Admit, At
  <2>3. n \in Nat
    BY SpaceAssumption
  <2>4. QED  BY <2>1, <2>2, <2>3
<1>2. /\ j \in Jobs /\ j.kind = kind /\ j.before = FALSE /\ j.unchecked = 0 /\ j.written = 0
  BY <1>1 DEF Job, Jobs
<1>3. held[w] = 0 /\ promised \in Nat
  BY <1>1 DEF JobFits, TypeOK
<1>4. WriterMoves(w, j, "measure", n)
  <2>1. /\ job' = [job EXCEPT ![w] = j] /\ pc' = [pc EXCEPT ![w] = "measure"]
        /\ held' = [held EXCEPT ![w] = n] /\ promised' = promised + n
    BY DEF Admit, ReserveBytes, Goto
  <2> HIDE DEF j
  <2>2. QED  BY <1>1, <1>2, <1>3, <2>1 DEF WriterMoves, PCs
<1>5. job'[w] = j /\ pc'[w] = "measure" /\ held'[w] = n
  BY <1>1 DEF Admit, ReserveBytes, Goto, TypeOK
<1> HIDE DEF j
<1>6. JobFits(w)'
  BY <1>2, <1>5 DEF JobFits, Writing
<1>7. Used'[w] >= Used[w]
  BY <1>1, <1>5 DEF Used
<1>8. rows' = rows /\ free' = free /\ moved' = moved /\ blind' = blind /\ free \in Nat
  BY <1>1 DEF Admit, history, TypeOK
<1>9. QED  BY <1>2, <1>4, <1>6, <1>7, <1>8, QuietStep

\* A creation asks for the whole upload; there is one at a time.
LEMMA AdmitCreateKeeps ==
    ASSUME SpaceInv, NEW w \in Writers, NEW u \in Uploads, AdmitCreate(w, u)
    PROVE  SpaceInv'
<1> DEFINE j == Job("create", u, Length, 0, FALSE)
<1>1. TypeOK /\ JobFits(w) /\ pc[w] = "idle" /\ rows[u].is = "unborn"
  BY DEF SpaceInv, AdmitCreate, At
<1>2. /\ j \in Jobs /\ j.kind = "create" /\ j.upload = u /\ j.before = FALSE /\ j.unchecked = 0 /\ j.written = 0
  BY DEF Job, Jobs
<1>3. held[w] = 0 /\ promised \in Nat
  BY <1>1 DEF JobFits, TypeOK
<1>4. WriterMoves(w, j, "measure", Length)
  <2>1. /\ job' = [job EXCEPT ![w] = j] /\ pc' = [pc EXCEPT ![w] = "measure"]
        /\ held' = [held EXCEPT ![w] = Length] /\ promised' = promised + Length
    BY DEF AdmitCreate, ReserveBytes, Goto
  <2> HIDE DEF j
  <2>2. QED  BY <1>1, <1>2, <1>3, <2>1 DEF WriterMoves, PCs
<1>5. job'[w] = j /\ pc'[w] = "measure" /\ held'[w] = Length
  BY <1>1 DEF AdmitCreate, ReserveBytes, Goto, TypeOK
<1>6. rows' = rows /\ free' = free /\ moved' = moved /\ blind' = blind /\ free \in Nat
  BY <1>1 DEF AdmitCreate, history, TypeOK
<1> HIDE DEF j
<1>7. JobFits(w)'
  BY <1>1, <1>2, <1>5, <1>6 DEF JobFits, Writing, Asking
<1>8. Used'[w] >= Used[w]
  BY <1>1, <1>5 DEF Used
<1>9. \A v \in Writers : job[v].kind # "create"
  BY DEF AdmitCreate
<1>10. QED  BY <1>2, <1>4, <1>6, <1>7, <1>8, <1>9, QuietStep

\* A request to append promises the rest of an upload that no other appends to.
LEMMA AdmitPatchKeeps ==
    ASSUME SpaceInv, NEW w \in Writers, NEW u \in Uploads, AdmitPatch(w, u)
    PROVE  SpaceInv'
<1> DEFINE j == Job("patch", u, rows[u].rest, rows[u].rest, rows[u].hold)
<1>1. TypeOK /\ JobFits(w) /\ pc[w] = "idle" /\ rows[u].is = "open"
  BY DEF SpaceInv, AdmitPatch, At, Open
<1>2. rows[u].rest \in Nat /\ rows[u].hold \in BOOLEAN
  BY <1>1 DEF TypeOK, Rows
<1>3. /\ j \in Jobs /\ j.kind = "patch" /\ j.upload = u /\ j.unchecked = 0 /\ j.written = 0
      /\ j.left = rows[u].rest /\ j.before = rows[u].hold
  BY <1>2 DEF Job, Jobs
<1>4. held[w] = 0 /\ promised \in Nat
  BY <1>1 DEF JobFits, TypeOK
<1>5. WriterMoves(w, j, "giveUp", rows[u].rest)
  BY <1>1, <1>2, <1>3, <1>4 DEF WriterMoves, AdmitPatch, ReserveBytes, Goto, PCs
<1>6. job'[w] = j /\ pc'[w] = "giveUp" /\ held'[w] = rows[u].rest
  BY <1>1 DEF AdmitPatch, ReserveBytes, Goto, TypeOK
<1>7. rows' = rows /\ free' = free /\ moved' = moved /\ blind' = blind /\ free \in Nat
  BY <1>1 DEF AdmitPatch, history, TypeOK
<1> HIDE DEF j
<1>8. JobFits(w)'
  BY <1>1, <1>2, <1>3, <1>6, <1>7 DEF JobFits, Writing, Asking
<1>9. Used'[w] >= Used[w]
  BY <1>1, <1>6 DEF Used
<1>10. \A v \in Writers : job[v].kind = "patch" => job[v].upload # u
  BY DEF AdmitPatch
<1>11. QED  BY <1>3, <1>5, <1>7, <1>8, <1>9, <1>10, QuietStep

\* A step that leaves the reservation as it is.
LEMMA StepsWith ==
    ASSUME SpaceInv, NEW w \in Writers, NEW j \in Jobs, NEW p \in PCs,
           job' = [job EXCEPT ![w] = j], pc' = [pc EXCEPT ![w] = p], held' = held, promised' = promised
    PROVE  WriterMoves(w, j, p, held[w]) /\ job'[w] = j /\ pc'[w] = p
<1>1. held \in [Writers -> Nat] /\ promised \in Nat /\ job \in [Writers -> Jobs] /\ pc \in [Writers -> PCs]
  BY DEF SpaceInv, TypeOK
<1>2. held' = [held EXCEPT ![w] = held[w]]
  BY <1>1
<1>3. held[w] \in Nat /\ promised' = promised - held[w] + held[w]
  BY <1>1
<1>4. QED  BY <1>1, <1>2, <1>3 DEF WriterMoves

\* ... and the locals too.
LEMMA StepsOn ==
    ASSUME SpaceInv, NEW w \in Writers, NEW p \in PCs,
           pc' = [pc EXCEPT ![w] = p], job' = job, held' = held, promised' = promised
    PROVE  WriterMoves(w, job[w], p, held[w]) /\ job'[w] = job[w] /\ pc'[w] = p
<1>1. job \in [Writers -> Jobs]
  BY DEF SpaceInv, TypeOK
<1>2. job' = [job EXCEPT ![w] = job[w]] /\ job[w] \in Jobs
  BY <1>1
<1>3. QED  BY <1>2, StepsWith

\* A request that ends gives back what it still holds.
LEMMA Returns ==
    ASSUME SpaceInv, NEW w \in Writers, Release(w), Return(w)
    PROVE  /\ WriterMoves(w, NoJob, "idle", 0)
           /\ job'[w] = NoJob /\ pc'[w] = "idle" /\ held'[w] = 0
           /\ NoJob.kind = "none" /\ Used'[w] = Interval
           /\ JobFits(w)'
<1>1. /\ held \in [Writers -> Nat] /\ promised \in Nat /\ job \in [Writers -> Jobs] /\ pc \in [Writers -> PCs]
  BY DEF SpaceInv, TypeOK
<1>2. /\ NoJob.kind = "none" /\ NoJob.before = FALSE /\ NoJob.unchecked = 0 /\ NoJob.written = 0
  BY DEF NoJob, Job
<1>3. /\ promised' = promised - held[w] /\ held' = [held EXCEPT ![w] = 0]
      /\ pc' = [pc EXCEPT ![w] = "idle"] /\ job' = [job EXCEPT ![w] = NoJob]
  BY DEF Release, Return, Goto
<1>4. held[w] \in Nat /\ promised' = promised - held[w] + 0 /\ "idle" \in PCs
  BY <1>1, <1>3 DEF PCs
<1>5. WriterMoves(w, NoJob, "idle", 0)
  BY <1>3, <1>4, NoJobType DEF WriterMoves
<1>6. job'[w] = NoJob /\ pc'[w] = "idle" /\ held'[w] = 0
  BY <1>1, <1>3
<1>7. Used'[w] = Interval
  BY <1>6 DEF Used
<1>8. JobFits(w)'
  BY <1>2, <1>6 DEF JobFits, Writing
<1>9. QED  BY <1>2, <1>5, <1>6, <1>7, <1>8

\* A step that changes the row of its own upload.
LEMMA RowStep ==
    ASSUME SpaceInv, NEW w, NEW j, NEW p, NEW n, WriterMoves(w, j, p, n), JobFits(w)',
           \/ j.kind \notin {"create", "patch"}
           \/ j.kind = job[w].kind /\ j.upload = job[w].upload,
           job[w].kind \in {"create", "patch"}, pc[w] # "drop",
           NEW r \in Rows, rows' = [rows EXCEPT ![job[w].upload] = r],
           free' \in Nat, free' >= free, moved \subseteq moved', moved' \subseteq Writers, blind' = blind,
           \/ Share(r) <= Share(rows[job[w].upload])
           \/ \A v \in Writers \ {w} : pc[v] = "decide" => v \in moved',
           p \notin {"rows", "decide"}, Used'[w] >= Used[w]
    PROVE  SpaceInv'
<1> DEFINE u == job[w].upload
<1>1. TypeOK /\ w \in Writers /\ p \in PCs /\ j \in Jobs /\ JobFits(w)
  BY DEF SpaceInv, WriterMoves
<1>2. u \in Uploads
  BY <1>1 DEF JobFits
<1>3. rows' \in [Uploads -> Rows] /\ rows'[u] = r /\ \A x \in Uploads \ {u} : rows'[x] = rows[x]
  BY <1>1, <1>2 DEF TypeOK
<1>4. /\ Outstanding \in Nat /\ Outstanding' \in Nat
      /\ Outstanding' = Outstanding - Share(rows[u]) + Share(rows'[u])
  <2> HIDE DEF u
  <2>1. QED  BY <1>1, <1>2, <1>3, OutstandingStep
<1>5. Share(rows[u]) \in Nat /\ Share(r) \in Nat
  BY <1>1, <1>2 DEF Share, TypeOK, Rows
<1>6. \A v \in Writers \ {w} :
              /\ ~(job[v].kind = "create" /\ j.kind = "create")
              /\ job[v].kind = "patch" /\ j.kind = "patch" => job[v].upload # j.upload
  BY <1>1, SameRequest
<1>7. Apart(w, j)
  BY <1>1, <1>3, <1>6 DEF Apart, TypeOK
<1>8. pc'[w] = p /\ job'[w] = j
  BY <1>1 DEF WriterMoves, TypeOK
<1>9. \/ Outstanding' <= Outstanding
      \/ \A v \in Writers \ {w} : pc[v] = "decide" => v \in moved'
  BY <1>3, <1>4, <1>5
<1>10. ReadsStayFresh(w)
  BY <1>8, <1>9 DEF ReadsStayFresh
<1>11. Used[w] \in Nat /\ Used'[w] \in Nat /\ free \in Nat
  BY <1>1, <1>8 DEF Used, TypeOK, Jobs
<1>12. FloorStays(w)
  <2> HIDE DEF Used
  <2>1. QED  BY <1>11 DEF FloorStays
<1>13. QED  BY <1>4, <1>7, <1>10, <1>12, WriterStep

\* Rows of the right type.
LEMMA RowType ==
    ASSUME NEW row \in Rows
    PROVE  /\ row = [is |-> row.is, rest |-> row.rest, hold |-> row.hold, junk |-> row.junk]
           /\ row.is \in {"unborn", "open", "gone"} /\ row.rest \in 0 .. Length
           /\ row.hold \in BOOLEAN /\ row.junk \in 0 .. Length
BY DEF Rows

\* The row stops promising what the request now promises.
LEMMA GiveUpHoldKeeps ==
    ASSUME SpaceInv, NEW w \in Writers, GiveUpHold(w)
    PROVE  SpaceInv'
<1> DEFINE u == job[w].upload
<1> DEFINE r == [rows[u] EXCEPT !.hold = FALSE]
<1>1. TypeOK /\ JobFits(w) /\ pc[w] = "giveUp"
  BY DEF SpaceInv, GiveUpHold, At
<1>2. job[w].kind = "patch" /\ u \in Uploads
  BY <1>1 DEF JobFits
<1>3. rows[u] \in Rows
  BY <1>1, <1>2 DEF TypeOK
<1>4. /\ r \in Rows /\ r.hold = FALSE /\ r.is = rows[u].is /\ r.rest = rows[u].rest /\ r.junk = rows[u].junk
  BY <1>3 DEF Rows
<1>5. rows' = [rows EXCEPT ![u] = r] /\ rows'[u] = r
  BY <1>1, <1>2 DEF GiveUpHold, TypeOK
<1>6. WriterMoves(w, job[w], "measure", held[w]) /\ job'[w] = job[w] /\ pc'[w] = "measure"
  <2>1. "measure" \in PCs /\ pc' = [pc EXCEPT ![w] = "measure"] /\ job' = job /\ held' = held /\ promised' = promised
    BY DEF GiveUpHold, Goto, PCs
  <2>2. QED  BY <2>1, StepsOn
<1>7. held' = held /\ free' = free /\ moved' = moved /\ blind' = blind /\ free \in Nat /\ moved \subseteq Writers
  BY <1>1 DEF GiveUpHold, history, TypeOK
<1> HIDE DEF r
<1>8. JobFits(w)'
  BY <1>1, <1>2, <1>4, <1>5, <1>6, <1>7 DEF JobFits, Writing, Asking
<1>9. Share(r) <= Share(rows[u])
  <2>1. Share(r) = 0 /\ Share(rows[u]) \in Nat
    BY <1>3, <1>4 DEF Share, Rows
  <2>2. QED  BY <2>1
<1>10. Used'[w] >= Used[w]
  BY <1>1, <1>6 DEF Used
<1>11. free' \in Nat /\ free' >= free /\ moved \subseteq moved' /\ moved' \subseteq Writers
  BY <1>7
<1>12. job[w].kind \in {"create", "patch"} /\ pc[w] # "drop" /\ "measure" \notin {"rows", "decide"}
  BY <1>1, <1>2
<1>13. QED  BY <1>4, <1>5, <1>6, <1>7, <1>8, <1>9, <1>10, <1>11, <1>12, RowStep

\* A fresh measurement is what is free.
LEMMA MeasureKeeps ==
    ASSUME SpaceInv, NEW w \in Writers, Measure(w)
    PROVE  SpaceInv'
<1> DEFINE j == [job[w] EXCEPT !.available = free]
<1>1. TypeOK /\ JobFits(w) /\ pc[w] = "measure"
  BY DEF SpaceInv, Measure, At
<1>2. job[w] \in Jobs /\ free \in Nat /\ moved \subseteq Writers /\ blind \in BOOLEAN
  BY <1>1 DEF TypeOK
<1>3. /\ j \in Jobs /\ j.available = free
      /\ j.kind = job[w].kind /\ j.upload = job[w].upload /\ j.left = job[w].left
      /\ j.before = job[w].before /\ j.unchecked = job[w].unchecked /\ j.written = job[w].written
  BY <1>2 DEF Jobs
<1>4. job' = [job EXCEPT ![w] = j] /\ pc' = [pc EXCEPT ![w] = "rows"] /\ "rows" \in PCs
  BY <1>1 DEF Measure, Goto, TypeOK, PCs
<1> HIDE DEF j
<1>5. rows' = rows /\ free' = free /\ held' = held /\ promised' = promised /\ moved' = moved \ {w} /\ blind' = blind
  BY DEF Measure
<1>6. WriterMoves(w, j, "rows", held[w]) /\ job'[w] = j /\ pc'[w] = "rows"
  BY <1>3, <1>4, <1>5, StepsWith
<1>7. JobFits(w)'
  BY <1>1, <1>3, <1>5, <1>6 DEF JobFits, Writing, Asking
<1>8. Outstanding \in Nat /\ Outstanding' = Outstanding
  BY <1>1, <1>5, OutstandingSame
<1>9. Apart(w, j)
  <2>1. \A v \in Writers \ {w} :
              /\ ~(job[v].kind = "create" /\ j.kind = "create")
              /\ job[v].kind = "patch" /\ j.kind = "patch" => job[v].upload # j.upload
    BY <1>3, SameRequest
  <2>2. QED  BY <1>1, <1>2, <1>5, <2>1 DEF Apart, TypeOK
<1>10. ReadsStayFresh(w)
  BY <1>2, <1>3, <1>5, <1>6, <1>8 DEF ReadsStayFresh
<1>11. FloorStays(w)
  BY <1>1, <1>2, <1>3, <1>5, <1>6 DEF FloorStays, Used
<1>12. QED  BY <1>6, <1>7, <1>8, <1>9, <1>10, <1>11, WriterStep

\* Where an admitted request goes on.
LEMMA AdmittedFits ==
    ASSUME TypeOK, NEW w \in Writers, JobFits(w), pc[w] \in {"measure", "decide"}
    PROVE  /\ Admitted(w) \in {"insert", "open", "write"}
           /\ Admitted(w) = "insert" <=> job[w].kind = "create"
           /\ Admitted(w) = "open" <=> job[w].kind = "patch"
           /\ Admitted(w) = "write" => job[w].kind \in {"push", "chunked"}
<1>1. job[w].kind \in {"push", "chunked", "create", "patch"}
  BY DEF TypeOK, Jobs, JobFits
<1>2. QED  BY <1>1 DEF Admitted

\* An admission without a measurement makes the history blind.
LEMMA CannotMeasureKeeps ==
    ASSUME SpaceInv, NEW w \in Writers, CannotMeasure(w)
    PROVE  SpaceInv'
<1> DEFINE p == Admitted(w)
<1>1. TypeOK /\ JobFits(w) /\ pc[w] = "measure"
  BY DEF SpaceInv, CannotMeasure, At
<1>2. /\ p \in {"insert", "open", "write"}
      /\ p = "insert" <=> job[w].kind = "create"
      /\ p = "open" <=> job[w].kind = "patch"
      /\ p = "write" => job[w].kind \in {"push", "chunked"}
  BY <1>1, AdmittedFits
<1>3. /\ pc' = [pc EXCEPT ![w] = p] /\ job' = job /\ held' = held /\ promised' = promised
      /\ rows' = rows /\ free' = free /\ moved' = moved /\ blind' = TRUE
  BY DEF CannotMeasure, Goto
<1> HIDE DEF p
<1>4. p \in PCs
  BY <1>2 DEF PCs
<1>5. WriterMoves(w, job[w], p, held[w]) /\ job'[w] = job[w] /\ pc'[w] = p
  BY <1>3, <1>4, StepsOn
<1>6. JobFits(w)'
  BY <1>1, <1>2, <1>3, <1>5 DEF JobFits, Writing, Asking
<1>7. Outstanding \in Nat /\ Outstanding' = Outstanding
  BY <1>1, <1>3, OutstandingSame
<1>8. Apart(w, job[w])
  <2>1. \A v \in Writers \ {w} :
              /\ ~(job[v].kind = "create" /\ job[w].kind = "create")
              /\ job[v].kind = "patch" /\ job[w].kind = "patch" => job[v].upload # job[w].upload
    BY SameRequest
  <2>2. QED  BY <1>1, <1>3, <2>1 DEF Apart, TypeOK
<1>9. ReadsStayFresh(w)
  BY <1>1, <1>2, <1>3, <1>5, <1>7 DEF ReadsStayFresh, TypeOK
<1>10. FloorStays(w)
  BY <1>3 DEF FloorStays
<1>11. QED  BY <1>5, <1>6, <1>7, <1>8, <1>9, <1>10, WriterStep

\* A fresh count of the rows is what they promise.
LEMMA CountRowsKeeps ==
    ASSUME SpaceInv, NEW w \in Writers, CountRows(w)
    PROVE  SpaceInv'
<1> DEFINE j == [job[w] EXCEPT !.resumable = Outstanding]
<1>1. TypeOK /\ JobFits(w) /\ pc[w] = "rows"
  BY DEF SpaceInv, CountRows, At
<1>2. job[w] \in Jobs /\ free \in Nat /\ moved \subseteq Writers /\ blind \in BOOLEAN
  BY <1>1 DEF TypeOK
<1>3. rows' = rows /\ free' = free /\ held' = held /\ promised' = promised /\ moved' = moved /\ blind' = blind
  BY DEF CountRows, history
<1>4. Outstanding \in Nat /\ Outstanding' = Outstanding
  BY <1>1, <1>3, OutstandingSame
<1>5. /\ j \in Jobs /\ j.resumable = Outstanding /\ j.available = job[w].available
      /\ j.kind = job[w].kind /\ j.upload = job[w].upload /\ j.left = job[w].left
      /\ j.before = job[w].before /\ j.unchecked = job[w].unchecked /\ j.written = job[w].written
  BY <1>2, <1>4 DEF Jobs
<1>6. job' = [job EXCEPT ![w] = j] /\ pc' = [pc EXCEPT ![w] = "decide"] /\ "decide" \in PCs
  BY <1>1 DEF CountRows, Goto, TypeOK, PCs
<1> HIDE DEF j
<1>7. WriterMoves(w, j, "decide", held[w]) /\ job'[w] = j /\ pc'[w] = "decide"
  BY <1>3, <1>5, <1>6, StepsWith
<1>8. JobFits(w)'
  BY <1>1, <1>3, <1>5, <1>7 DEF JobFits, Writing, Asking
<1>9. Apart(w, j)
  <2>1. \A v \in Writers \ {w} :
              /\ ~(job[v].kind = "create" /\ j.kind = "create")
              /\ job[v].kind = "patch" /\ j.kind = "patch" => job[v].upload # j.upload
    BY <1>5, SameRequest
  <2>2. QED  BY <1>1, <1>2, <1>3, <2>1 DEF Apart, TypeOK
<1>10. ReadsStayFresh(w)
  <2>1. w \notin moved => job[w].available <= free
    BY <1>1 DEF SpaceInv, FreshReads
  <2>2. QED  BY <1>2, <1>3, <1>4, <1>5, <1>7, <2>1 DEF ReadsStayFresh
<1>11. FloorStays(w)
  BY <1>1, <1>2, <1>3, <1>5, <1>7 DEF FloorStays, Used
<1>12. QED  BY <1>4, <1>7, <1>8, <1>9, <1>10, <1>11, WriterStep

\* A request whose count fails goes on to be refused.
LEMMA CountFailsKeeps ==
    ASSUME SpaceInv, NEW w \in Writers, CountFails(w)
    PROVE  SpaceInv'
<1>1. TypeOK /\ JobFits(w) /\ pc[w] = "rows" /\ free \in Nat /\ job[w] \in Jobs
  BY DEF SpaceInv, CountFails, At, TypeOK
<1>2. /\ pc' = [pc EXCEPT ![w] = "refuse"] /\ job' = job /\ held' = held /\ promised' = promised /\ "refuse" \in PCs
      /\ rows' = rows /\ free' = free /\ moved' = moved /\ blind' = blind
  BY DEF CountFails, Goto, history, PCs
<1>3. WriterMoves(w, job[w], "refuse", held[w]) /\ job'[w] = job[w] /\ pc'[w] = "refuse"
  BY <1>2, StepsOn
<1>4. JobFits(w)'
  BY <1>1, <1>2, <1>3 DEF JobFits, Writing, Asking
<1>5. Used'[w] >= Used[w]
  BY <1>1, <1>3 DEF Used
<1>6. \A v \in Writers \ {w} :
              /\ ~(job[v].kind = "create" /\ job[w].kind = "create")
              /\ job[v].kind = "patch" /\ job[w].kind = "patch" => job[v].upload # job[w].upload
  BY SameRequest
<1>7. QED  BY <1>1, <1>2, <1>3, <1>4, <1>5, <1>6, QuietStep

\* The larger of two.
LEMMA MaxOfTwo ==
    ASSUME NEW a \in Nat, NEW b \in Nat
    PROVE  Max({a, b}) \in Nat /\ Max({a, b}) >= a /\ Max({a, b}) >= b
<1>1. \E x \in {a, b} : \A y \in {a, b} : x >= y
  OBVIOUS
<1>2. /\ Max({a, b}) \in {a, b}
      /\ \A y \in {a, b} : Max({a, b}) >= y
  BY <1>1 DEF Max
<1>3. QED  BY <1>2

\* What an admission asks for is more than the pool, the rows and the reserve.
LEMMA NeededType ==
    ASSUME TypeOK, NEW w \in Writers
    PROVE  /\ Needed(w) \in Nat
           /\ Needed(w) >= promised + job[w].resumable + Reserve
<1>1. promised \in Nat /\ job[w].size \in Nat /\ job[w].resumable \in Nat
  BY DEF TypeOK, Jobs
<1>2. /\ Max({promised, job[w].size}) \in Nat
      /\ Max({promised, job[w].size}) >= promised
  BY <1>1, MaxOfTwo
<1>3. QED  BY <1>1, <1>2 DEF Needed

\* An admitted writer found the reserve intact: it may use a whole interval.
LEMMA DecideKeeps ==
    ASSUME SpaceInv, NEW w \in Writers, Decide(w)
    PROVE  SpaceInv'
<1> DEFINE j == [job[w] EXCEPT !.available = 0, !.resumable = 0]
<1> DEFINE p == IF job[w].available < Needed(w) THEN "refuse" ELSE Admitted(w)
<1>1. TypeOK /\ JobFits(w) /\ pc[w] = "decide"
  BY DEF SpaceInv, Decide, At
<1>2. job[w] \in Jobs /\ free \in Nat /\ moved \subseteq Writers /\ blind \in BOOLEAN
  BY <1>1 DEF TypeOK
<1>3. rows' = rows /\ free' = free /\ held' = held /\ promised' = promised /\ moved' = moved /\ blind' = blind
  BY DEF Decide, history
<1>4. /\ j \in Jobs
      /\ j.kind = job[w].kind /\ j.upload = job[w].upload /\ j.left = job[w].left
      /\ j.before = job[w].before /\ j.unchecked = job[w].unchecked /\ j.written = job[w].written
  BY <1>2 DEF Jobs
<1>5. job' = [job EXCEPT ![w] = j] /\ pc' = [pc EXCEPT ![w] = p]
  BY <1>1 DEF Decide, Goto, TypeOK
<1>6. /\ p \in {"refuse", "insert", "open", "write"}
      /\ p = "insert" => job[w].kind = "create"
      /\ p = "open" => job[w].kind = "patch"
      /\ p = "write" => job[w].kind \in {"push", "chunked"}
      /\ job[w].kind # "none"
  BY <1>1, AdmittedFits DEF JobFits
<1>7. p # "refuse" => job[w].available >= Reserve
  <2>1. /\ Needed(w) \in Nat
        /\ Needed(w) >= promised + job[w].resumable + Reserve
    BY <1>1, NeededType
  <2>2. promised \in Nat /\ job[w].resumable \in Nat /\ job[w].available \in Nat
    BY <1>1, <1>2 DEF TypeOK, Jobs
  <2>3. QED  BY <2>1, <2>2
<1> HIDE DEF j, p
<1>8. p \in PCs
  BY <1>6 DEF PCs
<1>9. WriterMoves(w, j, p, held[w]) /\ job'[w] = j /\ pc'[w] = p
  BY <1>3, <1>4, <1>5, <1>8, StepsWith
<1>10. JobFits(w)'
  <2>1. CASE p = "refuse"
    BY <1>1, <1>3, <1>4, <1>9, <2>1 DEF JobFits, Writing, Asking
  <2>2. CASE p = "insert"
    BY <1>1, <1>3, <1>4, <1>6, <1>9, <2>2 DEF JobFits, Writing, Asking
  <2>3. CASE p = "open"
    BY <1>1, <1>3, <1>4, <1>6, <1>9, <2>3 DEF JobFits, Writing, Asking
  <2>4. CASE p = "write"
    BY <1>1, <1>3, <1>4, <1>6, <1>9, <2>4 DEF JobFits, Writing, Asking
  <2>5. QED  BY <1>6, <2>1, <2>2, <2>3, <2>4
<1>11. \A v \in Writers \ {w} :
              /\ ~(job[v].kind = "create" /\ j.kind = "create")
              /\ job[v].kind = "patch" /\ j.kind = "patch" => job[v].upload # j.upload
  BY <1>4, SameRequest
<1>12. Used'[w] >= Used[w]
  <2>1. CASE p = "refuse"
    BY <1>1, <1>2, <1>9, <2>1 DEF Used
  <2>2. CASE p # "refuse"
    <3>1. Used[w] = 0
      BY <1>1, <1>7, <2>2 DEF Used
    <3>2. Used'[w] \in Nat
      BY <1>4, <1>9 DEF Used, Jobs
    <3>3. QED  BY <3>1, <3>2
  <2>3. QED  BY <2>1, <2>2
<1>13. p \notin {"rows", "decide"} /\ free' \in Nat /\ free' >= free
  BY <1>2, <1>3, <1>6
<1>14. QED  BY <1>3, <1>9, <1>10, <1>11, <1>12, <1>13, QuietStep

\* A refused request gives its promise back, and the row the hold it had.
LEMMA RefuseKeeps ==
    ASSUME SpaceInv, NEW w \in Writers, Refuse(w)
    PROVE  SpaceInv'
<1> DEFINE u == job[w].upload
<1> DEFINE r == [rows[u] EXCEPT !.hold = job[w].before]
<1>1. TypeOK /\ JobFits(w) /\ pc[w] = "refuse" /\ free \in Nat /\ moved \subseteq Writers
  BY DEF SpaceInv, Refuse, At, TypeOK
<1>2. /\ WriterMoves(w, NoJob, "idle", 0) /\ NoJob.kind = "none" /\ Used'[w] = Interval /\ JobFits(w)'
  BY Returns DEF Refuse
<1>3. Used'[w] >= Used[w]
  <2>1. Used[w] \in Nat /\ Used[w] <= Interval
    BY <1>1, UsedType
  <2>2. QED  BY <1>2, <2>1
<1>4. free' = free /\ blind' = blind /\ moved' = (IF job[w].before THEN Moved(w, {"decide"}) ELSE moved)
  BY DEF Refuse
<1>5. moved \subseteq moved' /\ moved' \subseteq Writers
  BY <1>1, <1>4 DEF Moved
<1>6. CASE job[w].kind = "patch"
  <2>1. u \in Uploads /\ rows[u] \in Rows /\ job[w].before \in BOOLEAN /\ ~rows[u].hold
    BY <1>1, <1>6 DEF JobFits, TypeOK, Jobs
  <2>2. /\ r \in Rows /\ r.hold = job[w].before /\ r.is = rows[u].is /\ r.rest = rows[u].rest
    BY <2>1 DEF Rows
  <2>3. rows' = [rows EXCEPT ![u] = r]
    BY <1>1, <1>6, <2>1 DEF Refuse, TypeOK
  <2> HIDE DEF r
  <2>4. \/ Share(r) <= Share(rows[u])
        \/ \A v \in Writers \ {w} : pc[v] = "decide" => v \in moved'
    <3>1. CASE job[w].before
      BY <1>4, <3>1 DEF Moved
    <3>2. CASE ~job[w].before
      <4>1. Share(r) = 0 /\ Share(rows[u]) = 0
        BY <2>1, <2>2, <3>2 DEF Share
      <4>2. QED  BY <4>1
    <3>3. QED  BY <3>1, <3>2
  <2>5. free' \in Nat /\ free' >= free /\ "idle" \notin {"rows", "decide"}
    BY <1>1, <1>4
  <2>6. job[w].kind \in {"create", "patch"} /\ pc[w] # "drop" /\ NoJob.kind \notin {"create", "patch"}
    BY <1>1, <1>2, <1>6
  <2>7. QED  BY <1>2, <1>3, <1>4, <1>5, <2>2, <2>3, <2>4, <2>5, <2>6, RowStep
<1>7. CASE job[w].kind # "patch"
  <2>1. rows' = rows /\ moved' = moved
    BY <1>1, <1>4, <1>7 DEF Refuse, JobFits, TypeOK, Jobs
  <2>2. \A v \in Writers \ {w} :
              /\ ~(job[v].kind = "create" /\ NoJob.kind = "create")
              /\ job[v].kind = "patch" /\ NoJob.kind = "patch" => job[v].upload # NoJob.upload
    BY <1>2
  <2>3. QED  BY <1>1, <1>2, <1>3, <1>4, <2>1, <2>2, QuietStep
<1>8. QED  BY <1>6, <1>7

\* What an earlier request left in the part is freed.
LEMMA OpenPartKeeps ==
    ASSUME SpaceInv, NEW w \in Writers, OpenPart(w)
    PROVE  SpaceInv'
<1> DEFINE u == job[w].upload
<1> DEFINE r == [rows[u] EXCEPT !.junk = 0]
<1>1. TypeOK /\ JobFits(w) /\ pc[w] = "open"
  BY DEF SpaceInv, OpenPart, At
<1>2. job[w].kind = "patch" /\ u \in Uploads
  BY <1>1 DEF JobFits
<1>3. rows[u] \in Rows /\ rows[u].junk \in Nat
  BY <1>1, <1>2 DEF TypeOK, Rows
<1>4. /\ r \in Rows /\ r.hold = rows[u].hold /\ r.is = rows[u].is /\ r.rest = rows[u].rest /\ r.junk = 0
  BY <1>3 DEF Rows
<1>5. rows' = [rows EXCEPT ![u] = r] /\ rows'[u] = r
  BY <1>1, <1>2 DEF OpenPart, TypeOK
<1>6. WriterMoves(w, job[w], "write", held[w]) /\ job'[w] = job[w] /\ pc'[w] = "write"
  <2>1. "write" \in PCs /\ pc' = [pc EXCEPT ![w] = "write"] /\ job' = job /\ held' = held /\ promised' = promised
    BY DEF OpenPart, Goto, PCs
  <2>2. QED  BY <2>1, StepsOn
<1>7. /\ held' = held /\ moved' = moved /\ blind' = blind /\ moved \subseteq Writers
      /\ free' \in Nat /\ free' >= free
  BY <1>1, <1>3 DEF OpenPart, history, TypeOK
<1> HIDE DEF r
<1>8. JobFits(w)'
  BY <1>1, <1>2, <1>4, <1>5, <1>6, <1>7 DEF JobFits, Writing, Asking
<1>9. Share(r) <= Share(rows[u])
  <2>1. Share(r) = Share(rows[u]) /\ Share(rows[u]) \in Nat
    BY <1>3, <1>4 DEF Share, Rows
  <2>2. QED  BY <2>1
<1>10. Used'[w] >= Used[w]
  BY <1>1, <1>6 DEF Used, TypeOK, Jobs
<1>11. moved \subseteq moved' /\ moved' \subseteq Writers
  BY <1>7
<1>12. job[w].kind \in {"create", "patch"} /\ pc[w] # "drop" /\ "write" \notin {"rows", "decide"}
  BY <1>1, <1>2
<1>13. QED  BY <1>4, <1>5, <1>6, <1>7, <1>8, <1>9, <1>10, <1>11, <1>12, RowStep

\* A byte leaves the promise and the interval as it takes the space.
LEMMA WriteByteKeeps ==
    ASSUME SpaceInv, NEW w \in Writers, WriteByte(w)
    PROVE  SpaceInv'
<1> DEFINE j == [job[w] EXCEPT !.left = @ - 1, !.unchecked = @ + 1, !.written = @ + 1]
<1>1. TypeOK /\ JobFits(w) /\ pc[w] = "write" /\ job[w].left > 0 /\ job[w].unchecked < Interval /\ free > 0
  BY DEF SpaceInv, WriteByte, At
<1>2. /\ job[w] \in Jobs /\ free \in Nat /\ moved \subseteq Writers /\ blind \in BOOLEAN /\ promised \in Nat
      /\ held[w] \in Nat /\ job[w].left \in Nat /\ job[w].unchecked \in Nat /\ job[w].written \in Nat
  BY <1>1 DEF TypeOK, Jobs
<1>3. /\ j \in Jobs /\ j.kind = job[w].kind /\ j.upload = job[w].upload /\ j.left = job[w].left - 1
      /\ j.before = job[w].before /\ j.unchecked = job[w].unchecked + 1 /\ j.written = job[w].written + 1
  <2>1. /\ job[w].left - 1 \in Nat /\ job[w].unchecked + 1 \in 0 .. Interval /\ job[w].written + 1 \in Nat
    BY <1>1, <1>2
  <2>2. j = [job[w] EXCEPT !.left = job[w].left - 1, !.unchecked = job[w].unchecked + 1, !.written = job[w].written + 1]
    OBVIOUS
  <2> HIDE DEF j
  <2>3. j \in Jobs
    BY <1>2, <2>1, <2>2 DEF Jobs
  <2>4. QED  BY <1>2, <2>2, <2>3 DEF Jobs
<1>4. Taken(w) \in {0, 1} /\ held[w] - Taken(w) \in Nat
  BY <1>2 DEF Taken
<1>5. /\ job' = [job EXCEPT ![w] = j] /\ pc' = [pc EXCEPT ![w] = "write"]
      /\ held' = [held EXCEPT ![w] = held[w] - Taken(w)]
  BY <1>1 DEF WriteByte, TypeOK
<1>6. promised' = promised - held[w] + (held[w] - Taken(w))
  BY <1>2, <1>4 DEF WriteByte
<1> HIDE DEF j
<1>7. WriterMoves(w, j, "write", held[w] - Taken(w))
  BY <1>3, <1>4, <1>5, <1>6 DEF WriterMoves, PCs
<1>8. job'[w] = j /\ pc'[w] = "write" /\ held'[w] = held[w] - Taken(w)
  BY <1>1, <1>5 DEF TypeOK
<1>9. rows' = rows /\ free' = free - 1 /\ blind' = blind /\ moved' = Moved(w, {"rows", "decide"})
  BY DEF WriteByte
<1>10. JobFits(w)'
  <2>1. CASE job[w].kind = "patch"
    <3>1. Taken(w) = 1
      BY <1>1, <1>2, <2>1 DEF JobFits, Taken
    <3>2. j.left + j.written = job[w].left + job[w].written /\ held'[w] = j.left
      BY <1>1, <1>2, <1>3, <1>8, <2>1, <3>1 DEF JobFits
    <3>3. QED  BY <1>1, <1>3, <1>8, <1>9, <2>1, <3>2 DEF JobFits, Writing, Asking
  <2>2. CASE job[w].kind # "patch"
    BY <1>1, <1>3, <1>8, <1>9, <2>2 DEF JobFits, Writing, Asking
  <2>3. QED  BY <2>1, <2>2
<1>11. Outstanding \in Nat /\ Outstanding' = Outstanding
  BY <1>1, <1>9, OutstandingSame
<1>12. Apart(w, j)
  <2>1. \A v \in Writers \ {w} :
              /\ ~(job[v].kind = "create" /\ j.kind = "create")
              /\ job[v].kind = "patch" /\ j.kind = "patch" => job[v].upload # j.upload
    BY <1>3, SameRequest
  <2>2. free' \in Nat
    BY <1>1, <1>2, <1>9
  <2>3. moved' \subseteq Writers
    BY <1>2, <1>9 DEF Moved
  <2>4. QED  BY <1>1, <1>2, <1>9, <2>1, <2>2, <2>3 DEF Apart, TypeOK
<1>13. ReadsStayFresh(w)
  BY <1>8, <1>9, <1>11 DEF ReadsStayFresh, Moved
<1>14. FloorStays(w)
  <2>1. Used[w] = job[w].unchecked /\ Used'[w] = j.unchecked
    BY <1>1, <1>8 DEF Used
  <2>2. free' + Used'[w] >= free + Used[w]
    BY <1>2, <1>3, <1>9, <2>1
  <2>3. QED  BY <1>9, <2>2 DEF FloorStays
<1>15. QED  BY <1>7, <1>10, <1>11, <1>12, <1>13, <1>14, WriterStep

\* A writer that used up its interval reads what is free.
LEMMA MeasureAgainKeeps ==
    ASSUME SpaceInv, NEW w \in Writers, MeasureAgain(w)
    PROVE  SpaceInv'
<1> DEFINE j == [job[w] EXCEPT !.unchecked = 0, !.available = free]
<1>1. TypeOK /\ JobFits(w) /\ pc[w] = "write" /\ job[w].unchecked >= Interval
  BY DEF SpaceInv, MeasureAgain, At
<1>2. job[w] \in Jobs /\ free \in Nat
  BY <1>1 DEF TypeOK
<1>3. /\ j \in Jobs /\ j.kind = job[w].kind /\ j.upload = job[w].upload /\ j.left = job[w].left
      /\ j.before = job[w].before /\ j.unchecked = 0 /\ j.written = job[w].written /\ j.available = free
  <2>1. 0 \in 0 .. Interval
    OBVIOUS
  <2>2. j \in Jobs
    BY <1>2, <2>1 DEF Jobs
  <2>3. QED  BY <1>2, <2>2 DEF Jobs
<1>4. /\ job' = [job EXCEPT ![w] = j] /\ pc' = [pc EXCEPT ![w] = "measuring"] /\ "measuring" \in PCs
  BY <1>1 DEF MeasureAgain, Goto, TypeOK, PCs
<1>5. rows' = rows /\ free' = free /\ held' = held /\ promised' = promised /\ moved' = moved /\ blind' = blind
  BY DEF MeasureAgain, history
<1> HIDE DEF j
<1>6. WriterMoves(w, j, "measuring", held[w]) /\ job'[w] = j /\ pc'[w] = "measuring"
  BY <1>3, <1>4, <1>5, StepsWith
<1>7. JobFits(w)'
  BY <1>1, <1>3, <1>5, <1>6 DEF JobFits, Writing, Asking
<1>8. free' >= Reserve \/ Used'[w] >= Used[w]
  <2>1. Used[w] \in Nat /\ Used[w] <= Interval
    BY <1>1, UsedType
  <2>2. CASE ~(free >= Reserve)
    <3>1. Used'[w] = Interval
      BY <1>2, <1>3, <1>6, <2>2 DEF Used
    <3>2. QED  BY <2>1, <3>1
  <2>3. QED  BY <1>5, <2>2
<1>9. \A v \in Writers \ {w} :
              /\ ~(job[v].kind = "create" /\ j.kind = "create")
              /\ job[v].kind = "patch" /\ j.kind = "patch" => job[v].upload # j.upload
  BY <1>3, SameRequest
<1>10. free' \in Nat /\ free' >= free /\ "measuring" \notin {"rows", "decide"}
  BY <1>2, <1>5
<1>11. QED
  <2> HIDE DEF Used
  <2>1. QED  BY <1>5, <1>6, <1>7, <1>8, <1>9, <1>10, QuietStep

\* A request that ends and takes no row with it.
LEMMA ReturnKeeps ==
    ASSUME SpaceInv, NEW w \in Writers, Release(w), Return(w),
           rows' = rows, free' \in Nat, free' >= free, moved' = moved, blind' = blind
    PROVE  SpaceInv'
<1>1. /\ WriterMoves(w, NoJob, "idle", 0) /\ NoJob.kind = "none" /\ Used'[w] = Interval /\ JobFits(w)'
  BY Returns
<1>2. Used'[w] >= Used[w]
  <2>1. Used[w] \in Nat /\ Used[w] <= Interval
    BY UsedType DEF SpaceInv
  <2>2. QED  BY <1>1, <2>1
<1>3. \A v \in Writers \ {w} :
              /\ ~(job[v].kind = "create" /\ NoJob.kind = "create")
              /\ job[v].kind = "patch" /\ NoJob.kind = "patch" => job[v].upload # NoJob.upload
  BY <1>1
<1>4. "idle" \notin {"rows", "decide"}
  OBVIOUS
<1>5. QED  BY <1>1, <1>2, <1>3, <1>4, QuietStep

\* A request that breaks off.
LEMMA AbandonKeeps ==
    ASSUME SpaceInv, NEW w \in Writers, pc[w] \notin {"idle", "drop"},
           Abandon(w), Release(w), Return(w), moved' = moved, blind' = blind
    PROVE  SpaceInv'
<1> DEFINE u == job[w].upload
<1> DEFINE r == [rows[u] EXCEPT !.junk = @ + job[w].written]
<1>1. TypeOK /\ JobFits(w) /\ free \in Nat /\ moved \subseteq Writers /\ job[w].written \in Nat /\ job[w].left \in Nat
  BY DEF SpaceInv, TypeOK, Jobs
<1>2. CASE job[w].kind = "patch"
  <2>1. u \in Uploads /\ rows[u] \in Rows
    BY <1>1, <1>2 DEF JobFits, TypeOK
  <2>2. rows[u].junk + job[w].written \in 0 .. Length
    <3>1. rows[u].junk \in 0 .. Length /\ rows[u].rest \in 0 .. Length
      BY <2>1 DEF Rows
    <3>2. \/ job[w].written = 0
          \/ rows[u].junk = 0 /\ job[w].left + job[w].written = rows[u].rest
      BY <1>1, <1>2 DEF JobFits, Writing
    <3>3. QED  BY <1>1, <3>1, <3>2
  <2>3. /\ r \in Rows /\ r.hold = rows[u].hold /\ r.is = rows[u].is /\ r.rest = rows[u].rest
    BY <2>1, <2>2 DEF Rows
  <2>4. rows' = [rows EXCEPT ![u] = r] /\ free' = free
    BY <1>1, <1>2, <2>1 DEF Abandon, TypeOK
  <2> HIDE DEF r
  <2>5. Share(r) <= Share(rows[u])
    <3>1. Share(r) = Share(rows[u]) /\ Share(rows[u]) \in Nat
      BY <2>1, <2>3 DEF Share, Rows
    <3>2. QED  BY <3>1
  <2>6. /\ WriterMoves(w, NoJob, "idle", 0) /\ NoJob.kind = "none" /\ Used'[w] = Interval /\ JobFits(w)'
    BY Returns
  <2>7. Used'[w] >= Used[w]
    <3>1. Used[w] \in Nat /\ Used[w] <= Interval
      BY <1>1, UsedType
    <3>2. QED  BY <2>6, <3>1
  <2>8. free' \in Nat /\ free' >= free /\ moved \subseteq moved' /\ moved' \subseteq Writers /\ "idle" \notin {"rows", "decide"}
    BY <1>1, <2>4
  <2>9. job[w].kind \in {"create", "patch"} /\ pc[w] # "drop" /\ NoJob.kind \notin {"create", "patch"}
    BY <1>2, <2>6
  <2>10. QED  BY <2>3, <2>4, <2>5, <2>6, <2>7, <2>8, <2>9, RowStep
<1>3. CASE job[w].kind # "patch"
  <2>1. rows' = rows /\ free' \in Nat /\ free' >= free
    BY <1>1, <1>3 DEF Abandon
  <2>2. QED  BY <2>1, ReturnKeeps
<1>4. QED  BY <1>2, <1>3

\* A request that is dropped frees its bytes, or leaves them in the part.
LEMMA CancelKeeps ==
    ASSUME SpaceInv, NEW w \in Writers, Cancel(w)
    PROVE  SpaceInv'
<1>1. /\ pc[w] \notin {"idle", "drop"} /\ Abandon(w) /\ Release(w) /\ Return(w)
      /\ moved' = moved /\ blind' = blind
  BY DEF Cancel, history
<1>2. QED  BY <1>1, AbandonKeeps

\* A request to append records what it got.
LEMMA GoesToRecord ==
    ASSUME SpaceInv, NEW w \in Writers, pc[w] \in {"write", "measuring"}, job[w].kind = "patch",
           Goto(w, "record"), job' = job, held' = held, promised' = promised,
           rows' = rows, free' = free, moved' = moved, blind' = blind
    PROVE  SpaceInv'
<1>1. TypeOK /\ JobFits(w) /\ free \in Nat
  BY DEF SpaceInv, TypeOK
<1>2. "record" \in PCs /\ pc' = [pc EXCEPT ![w] = "record"]
  BY DEF Goto, PCs
<1>3. WriterMoves(w, job[w], "record", held[w]) /\ job'[w] = job[w] /\ pc'[w] = "record"
  BY <1>2, StepsOn
<1>4. JobFits(w)'
  BY <1>1, <1>3 DEF JobFits, Writing, Asking
<1>5. Used'[w] >= Used[w]
  <2>1. Used[w] \in Nat /\ Used[w] <= Interval
    BY <1>1, UsedType
  <2>2. Used'[w] = Interval
    BY <1>3 DEF Used
  <2>3. QED  BY <2>1, <2>2
<1>6. \A v \in Writers \ {w} :
              /\ ~(job[v].kind = "create" /\ job[w].kind = "create")
              /\ job[v].kind = "patch" /\ job[w].kind = "patch" => job[v].upload # job[w].upload
  BY SameRequest
<1>7. free' \in Nat /\ free' >= free /\ "record" \notin {"rows", "decide"}
  BY <1>1
<1>8. QED  BY <1>3, <1>4, <1>5, <1>6, <1>7, QuietStep

\* A writer goes on over an intact reserve only, and stops otherwise.
LEMMA MeasuredKeeps ==
    ASSUME SpaceInv, NEW w \in Writers, Measured(w)
    PROVE  SpaceInv'
<1>1. TypeOK /\ JobFits(w) /\ pc[w] = "measuring" /\ moved' = moved
  BY DEF SpaceInv, Measured, At
<1>2. job[w] \in Jobs /\ free \in Nat /\ moved \subseteq Writers
  BY <1>1 DEF TypeOK
<1>3. CASE /\ job[w].kind = "patch" /\ Goto(w, "record")
           /\ UNCHANGED <<free, promised, held, rows, job>> /\ UNCHANGED blind
  BY <1>1, <1>3, GoesToRecord
<1>4. CASE Abandon(w) /\ Release(w) /\ Return(w) /\ UNCHANGED blind
  BY <1>1, <1>4, AbandonKeeps
<1>5. CASE /\ \/ job[w].available >= Reserve /\ UNCHANGED blind
              \/ Faults /\ blind' = TRUE
           /\ Goto(w, "write") /\ job' = [job EXCEPT ![w].available = 0]
           /\ UNCHANGED <<free, promised, held, rows>>
  <2> DEFINE j == [job[w] EXCEPT !.available = 0]
  <2>1. /\ j \in Jobs /\ j.kind = job[w].kind /\ j.upload = job[w].upload /\ j.left = job[w].left
        /\ j.before = job[w].before /\ j.unchecked = job[w].unchecked /\ j.written = job[w].written
    BY <1>2 DEF Jobs
  <2>2. job' = [job EXCEPT ![w] = j] /\ pc' = [pc EXCEPT ![w] = "write"] /\ "write" \in PCs
    BY <1>1, <1>5 DEF Goto, TypeOK, PCs
  <2> HIDE DEF j
  <2>3. rows' = rows /\ free' = free /\ held' = held /\ promised' = promised
    BY <1>5
  <2>4. WriterMoves(w, j, "write", held[w]) /\ job'[w] = j /\ pc'[w] = "write"
    BY <2>1, <2>2, <2>3, StepsWith
  <2>5. JobFits(w)'
    BY <1>1, <2>1, <2>3, <2>4 DEF JobFits, Writing, Asking
  <2>6. Outstanding \in Nat /\ Outstanding' = Outstanding
    BY <1>1, <2>3, OutstandingSame
  <2>7. \A v \in Writers \ {w} :
              /\ ~(job[v].kind = "create" /\ j.kind = "create")
              /\ job[v].kind = "patch" /\ j.kind = "patch" => job[v].upload # j.upload
    BY <2>1, SameRequest
  <2>8. Apart(w, j)
    BY <1>1, <1>2, <1>5, <2>3, <2>7 DEF Apart, TypeOK
  <2>9. ReadsStayFresh(w)
    BY <1>1, <1>2, <2>3, <2>4, <2>6 DEF ReadsStayFresh
  <2>10. FloorStays(w)
    <3>1. job[w].unchecked = 0
      BY <1>1 DEF JobFits
    <3>2. Used'[w] = 0
      BY <2>1, <2>4, <3>1 DEF Used
    <3>3. job[w].available >= Reserve => Used[w] = 0
      BY <1>1 DEF Used
    <3>4. QED  BY <1>2, <1>5, <2>3, <3>2, <3>3 DEF FloorStays
  <2>11. QED  BY <2>4, <2>5, <2>6, <2>8, <2>9, <2>10, WriterStep
<1>6. QED  BY <1>3, <1>4, <1>5 DEF Measured

\* The body ends with the reservation dropped, or still to be recorded.
LEMMA EndOfBodyKeeps ==
    ASSUME SpaceInv, NEW w \in Writers, EndOfBody(w)
    PROVE  SpaceInv'
<1>1. TypeOK /\ pc[w] = "write" /\ free \in Nat
  BY DEF SpaceInv, EndOfBody, At, TypeOK
<1>2. free' = free /\ rows' = rows /\ moved' = moved /\ blind' = blind
  BY DEF EndOfBody, history
<1>3. CASE job[w].kind = "patch"
  BY <1>1, <1>2, <1>3, GoesToRecord DEF EndOfBody
<1>4. CASE job[w].kind # "patch"
  BY <1>1, <1>2, <1>4, ReturnKeeps DEF EndOfBody
<1>5. QED  BY <1>3, <1>4

\* The reservation goes when the row has taken over the promise.
LEMMA DropReservationKeeps ==
    ASSUME SpaceInv, NEW w \in Writers, DropReservation(w)
    PROVE  SpaceInv'
<1>1. free' = free /\ rows' = rows /\ moved' = moved /\ blind' = blind /\ free \in Nat
  BY DEF DropReservation, history, SpaceInv, TypeOK
<1>2. QED  BY <1>1, ReturnKeeps DEF DropReservation

\* A row is written and the request has only its reservation to drop.
LEMMA HandsOver ==
    ASSUME SpaceInv, NEW w \in Writers, pc[w] \in {"insert", "record"},
           NEW r \in Rows, rows' = [rows EXCEPT ![job[w].upload] = r],
           moved' = Moved(w, {"decide"}), Goto(w, "drop"),
           UNCHANGED <<free, promised, held, job, blind>>
    PROVE  SpaceInv'
<1>1. TypeOK /\ JobFits(w) /\ free \in Nat /\ moved \subseteq Writers
  BY DEF SpaceInv, TypeOK
<1>2. job[w].kind \in {"create", "patch"} /\ pc[w] # "drop" /\ "drop" \notin {"rows", "decide"}
  BY <1>1 DEF JobFits
<1>3. "drop" \in PCs /\ pc' = [pc EXCEPT ![w] = "drop"] /\ job' = job /\ held' = held /\ promised' = promised
  BY DEF Goto, PCs
<1>4. WriterMoves(w, job[w], "drop", held[w]) /\ job'[w] = job[w] /\ pc'[w] = "drop"
  BY <1>3, StepsOn
<1>5. JobFits(w)'
  BY <1>1, <1>2, <1>4 DEF JobFits, Writing, Asking
<1>6. Used'[w] >= Used[w]
  <2>1. Used[w] \in Nat /\ Used[w] <= Interval
    BY <1>1, UsedType
  <2>2. Used'[w] = Interval
    BY <1>4 DEF Used
  <2>3. QED  BY <2>1, <2>2
<1>7. /\ moved \subseteq moved' /\ moved' \subseteq Writers
      /\ \A v \in Writers \ {w} : pc[v] = "decide" => v \in moved'
  BY <1>1 DEF Moved
<1>8. free' \in Nat /\ free' >= free
  BY <1>1
<1>9. QED  BY <1>2, <1>4, <1>5, <1>6, <1>7, <1>8, RowStep

\* A created upload has a row of its own that promises all of it.
LEMMA InsertRowKeeps ==
    ASSUME SpaceInv, NEW w \in Writers, InsertRow(w)
    PROVE  SpaceInv'
<1> DEFINE r == [is |-> "open", rest |-> Length, hold |-> TRUE, junk |-> 0]
<1>1. r \in Rows
  BY DEF Rows
<1>2. /\ pc[w] = "insert" /\ rows' = [rows EXCEPT ![job[w].upload] = r]
      /\ moved' = Moved(w, {"decide"}) /\ Goto(w, "drop") /\ UNCHANGED <<free, promised, held, job, blind>>
  BY DEF InsertRow, At
<1> HIDE DEF r
<1>3. QED  BY <1>1, <1>2, HandsOver

\* A recorded upload promises the rest, which is what was left to write.
LEMMA RecordKeeps ==
    ASSUME SpaceInv, NEW w \in Writers, Record(w)
    PROVE  SpaceInv'
<1> DEFINE u == job[w].upload
<1> DEFINE r == [rows[u] EXCEPT !.rest = @ - job[w].written, !.hold = TRUE]
<1>1. TypeOK /\ JobFits(w) /\ pc[w] = "record" /\ job[w].written \in Nat /\ job[w].left \in Nat
  BY DEF SpaceInv, Record, At, TypeOK, Jobs
<1>2. u \in Uploads /\ rows[u] \in Rows /\ job[w].left + job[w].written = rows[u].rest
  BY <1>1 DEF JobFits, TypeOK
<1>3. rows[u].rest - job[w].written \in 0 .. Length
  BY <1>1, <1>2 DEF Rows
<1>4. r \in Rows
  BY <1>2, <1>3 DEF Rows
<1>5. /\ rows' = [rows EXCEPT ![job[w].upload] = r]
      /\ moved' = Moved(w, {"decide"}) /\ Goto(w, "drop") /\ UNCHANGED <<free, promised, held, job, blind>>
  BY <1>1, <1>2 DEF Record, TypeOK
<1> HIDE DEF r
<1>6. QED  BY <1>1, <1>4, <1>5, HandsOver

\* What the writers have used up does not change with what they have not read.
LEMMA UsedSame ==
    ASSUME TypeOK, UsedIsBelow, free' \in Nat, free' >= free, blind' = blind,
           \A v \in Writers : /\ pc'[v] = pc[v] /\ job'[v].available = job[v].available
                              /\ job'[v].unchecked = job[v].unchecked
    PROVE  UsedIsBelow'
<1>1. Used' = Used
  BY DEF Used
<1>2. Sum(Used', Writers) = Sum(Used, Writers)
  BY <1>1
<1>3. Sum(Used, Writers) \in Nat /\ free \in Nat
  BY UsedType DEF TypeOK
<1>4. blind' \/ free' >= Reserve - Sum(Used', Writers)
  <2> HIDE DEF Used
  <2>1. blind \/ free >= Reserve - Sum(Used, Writers)
    BY DEF UsedIsBelow
  <2>2. QED  BY <1>2, <1>3, <2>1
<1>5. QED  BY <1>4 DEF UsedIsBelow

\* A hold that ages is forgotten by the row and by who had read it.
LEMMA GoIdleKeeps ==
    ASSUME SpaceInv, NEW u \in Uploads, GoIdle(u)
    PROVE  SpaceInv'
<1> DEFINE r == [rows[u] EXCEPT !.hold = FALSE]
<1>1. TypeOK /\ OneRequest /\ PoolIsSum /\ FreshReads /\ UsedIsBelow /\ \A v \in Writers : JobFits(v)
  BY DEF SpaceInv
<1>2. rows[u] \in Rows /\ rows[u].is = "open" /\ rows[u].hold
  BY <1>1 DEF GoIdle, Open, TypeOK
<1>3. r \in Rows /\ r.hold = FALSE /\ r.is = "open" /\ r.rest = rows[u].rest /\ r.junk = rows[u].junk
  BY <1>2 DEF Rows
<1>4. rows' \in [Uploads -> Rows] /\ rows'[u] = r /\ \A x \in Uploads \ {u} : rows'[x] = rows[x]
  BY <1>1, <1>3 DEF GoIdle, TypeOK
<1> HIDE DEF r
<1>5. free' = free /\ promised' = promised /\ held' = held /\ pc' = pc /\ moved' = moved /\ blind' = blind
  BY DEF GoIdle, history
<1>6. ASSUME NEW v \in Writers
      PROVE  /\ job'[v] \in Jobs /\ job'[v].kind = job[v].kind /\ job'[v].upload = job[v].upload
             /\ job'[v].left = job[v].left /\ job'[v].available = job[v].available
             /\ job'[v].resumable = job[v].resumable /\ job'[v].unchecked = job[v].unchecked
             /\ job'[v].written = job[v].written
             /\ job[v].upload = u => job'[v].before = FALSE
             /\ job[v].upload # u => job'[v].before = job[v].before
             /\ job[v] = NoJob => job'[v] = NoJob
  <2>1. job[v] \in Jobs
    BY <1>1 DEF TypeOK
  <2>2. job'[v] = IF job[v].upload = u THEN [job[v] EXCEPT !.before = FALSE] ELSE job[v]
    BY DEF GoIdle
  <2>3. job[v] = NoJob => job'[v] = NoJob
    <3>1. NoJob \in Jobs /\ NoJob.before = FALSE
      BY DEF NoJob, Job, Jobs
    <3>2. [NoJob EXCEPT !.before = FALSE] = NoJob
      BY <3>1 DEF Jobs
    <3>3. QED  BY <2>2, <3>2
  <2>4. CASE job[v].upload = u
    <3> DEFINE x == [job[v] EXCEPT !.before = FALSE]
    <3>1. x \in Jobs
      BY <2>1 DEF Jobs
    <3>2. /\ x.kind = job[v].kind /\ x.upload = job[v].upload /\ x.left = job[v].left
          /\ x.available = job[v].available /\ x.resumable = job[v].resumable
          /\ x.unchecked = job[v].unchecked /\ x.written = job[v].written /\ x.before = FALSE
      BY <2>1 DEF Jobs
    <3>3. job'[v] = x
      BY <2>2, <2>4
    <3> HIDE DEF x
    <3>4. QED  BY <2>3, <2>4, <3>1, <3>2, <3>3
  <2>5. CASE job[v].upload # u
    BY <2>1, <2>2, <2>3, <2>5
  <2>6. QED  BY <2>4, <2>5
<1>a. \A v \in Writers : job'[v].kind = job[v].kind /\ job'[v].upload = job[v].upload
  BY <1>6
<1>7. TypeOK'
  <2>1. job' \in [Writers -> Jobs]
    BY <1>6 DEF GoIdle
  <2>2. QED  BY <1>1, <1>4, <1>5, <2>1 DEF TypeOK
<1>8. ASSUME NEW v \in Writers
      PROVE  JobFits(v)'
  <2>1. JobFits(v)
    BY <1>1
  <2>2. CASE job[v].upload = u
    <3>1. pc[v] = "drop" \/ job[v].kind \notin {"create", "patch"} \/ (pc[v] = "giveUp" /\ job[v].kind = "patch")
      BY <1>2, <2>1, <2>2 DEF JobFits
    <3>2. /\ job'[v].kind = job[v].kind /\ job'[v].upload = u /\ job'[v].before = FALSE
          /\ job'[v].left = job[v].left /\ job'[v].unchecked = job[v].unchecked
          /\ job'[v].written = job[v].written
      BY <1>6, <2>2
    <3>3. job[v] = NoJob => job'[v] = NoJob
      BY <1>6
    <3>4. pc'[v] = pc[v] /\ held'[v] = held[v]
      BY <1>5
    <3>5. rows'[u].is = "open" /\ rows'[u].rest = rows[u].rest /\ rows'[u].hold = FALSE
      BY <1>3, <1>4
    <3>6. QED  BY <2>1, <2>2, <3>1, <3>2, <3>3, <3>4, <3>5 DEF JobFits, Writing
  <2>3. CASE job[v].upload # u
    <3>1. job[v].kind \in {"create", "patch"} => rows'[job[v].upload] = rows[job[v].upload]
      BY <1>4, <2>1, <2>3 DEF JobFits
    <3>2. job'[v] = job[v]
      BY <2>3 DEF GoIdle
    <3>3. QED  BY <1>5, <2>1, <3>1, <3>2 DEF JobFits
  <2>4. QED  BY <2>2, <2>3
<1>9. OneRequest'
  BY <1>1, <1>a DEF OneRequest
<1>10. PoolIsSum'
  BY <1>1, <1>5 DEF PoolIsSum, Sum, Units
<1>11. Outstanding \in Nat /\ Outstanding' \in Nat /\ Outstanding' <= Outstanding
  <2>1. /\ Outstanding \in Nat /\ Outstanding' \in Nat
        /\ Outstanding' = Outstanding - Share(rows[u]) + Share(rows'[u])
    BY <1>1, <1>4, OutstandingStep
  <2>2. Share(rows[u]) \in Nat /\ Share(rows'[u]) = 0
    BY <1>2, <1>3, <1>4 DEF Share, Rows
  <2>3. QED  BY <2>1, <2>2
<1>12. FreshReads'
  <2>1. ASSUME NEW v \in Writers \ moved'
        PROVE  /\ pc'[v] \in {"rows", "decide"} => job'[v].available <= free'
               /\ pc'[v] = "decide" => Outstanding' <= job'[v].resumable
    <3>1. /\ pc[v] \in {"rows", "decide"} => job[v].available <= free
          /\ pc[v] = "decide" => Outstanding <= job[v].resumable
      BY <1>1, <1>5 DEF FreshReads
    <3>2. job[v].resumable \in Nat
      BY <1>1 DEF TypeOK, Jobs
    <3>3. job'[v].available = job[v].available /\ job'[v].resumable = job[v].resumable
      BY <1>6
    <3>4. QED  BY <1>5, <1>11, <3>1, <3>2, <3>3
  <2>2. QED  BY <2>1 DEF FreshReads
<1>13. UsedIsBelow'
  <2>1. free' \in Nat /\ free' >= free
    BY <1>1, <1>5 DEF TypeOK
  <2>2. QED  BY <1>1, <1>5, <1>6, <2>1, UsedSame
<1>14. QED  BY <1>7, <1>8, <1>9, <1>10, <1>12, <1>13 DEF SpaceInv

\* A deleted upload frees all it has on disk, and no request has it open.
LEMMA DeleteUploadKeeps ==
    ASSUME SpaceInv, NEW u \in Uploads, DeleteUpload(u)
    PROVE  SpaceInv'
<1> DEFINE r == [NoRow EXCEPT !.is = "gone"]
<1>1. TypeOK /\ OneRequest /\ PoolIsSum /\ FreshReads /\ UsedIsBelow /\ \A v \in Writers : JobFits(v)
  BY DEF SpaceInv
<1>2. r \in Rows /\ r.is = "gone"
  <2>1. NoRow \in Rows
    BY DEF NoRow, Rows
  <2>2. QED  BY <2>1 DEF Rows
<1>3. rows' \in [Uploads -> Rows] /\ rows'[u] = r /\ \A x \in Uploads \ {u} : rows'[x] = rows[x]
  BY <1>1, <1>2 DEF DeleteUpload, TypeOK
<1> HIDE DEF r
<1>4. promised' = promised /\ held' = held /\ pc' = pc /\ job' = job /\ moved' = moved /\ blind' = blind
  BY DEF DeleteUpload, history
<1>5. free' \in Nat /\ free' >= free
  <2>1. free \in Nat /\ rows[u].rest \in 0 .. Length /\ rows[u].junk \in 0 .. Length
    BY <1>1 DEF TypeOK, Rows
  <2>2. QED  BY <2>1 DEF DeleteUpload
<1>6. TypeOK'
  BY <1>1, <1>3, <1>4, <1>5 DEF TypeOK
<1>7. ASSUME NEW v \in Writers
      PROVE  JobFits(v)'
  <2>1. JobFits(v) /\ job[v].upload # u
    BY <1>1 DEF DeleteUpload, Busy
  <2>2. job[v].kind \in {"create", "patch"} => rows'[job[v].upload] = rows[job[v].upload]
    BY <1>3, <2>1 DEF JobFits
  <2>3. QED  BY <1>4, <2>1, <2>2 DEF JobFits
<1>8. OneRequest'
  BY <1>1, <1>4 DEF OneRequest
<1>9. PoolIsSum'
  BY <1>1, <1>4 DEF PoolIsSum, Sum, Units
<1>10. Outstanding \in Nat /\ Outstanding' \in Nat /\ Outstanding' <= Outstanding
  <2>1. /\ Outstanding \in Nat /\ Outstanding' \in Nat
        /\ Outstanding' = Outstanding - Share(rows[u]) + Share(rows'[u])
    BY <1>1, <1>3, OutstandingStep
  <2>2. Share(rows[u]) \in Nat /\ Share(rows'[u]) = 0
    BY <1>1, <1>2, <1>3 DEF Share, Rows, TypeOK
  <2>3. QED  BY <2>1, <2>2
<1>11. FreshReads'
  <2>1. ASSUME NEW v \in Writers \ moved'
        PROVE  /\ pc'[v] \in {"rows", "decide"} => job'[v].available <= free'
               /\ pc'[v] = "decide" => Outstanding' <= job'[v].resumable
    <3>1. /\ pc[v] \in {"rows", "decide"} => job[v].available <= free
          /\ pc[v] = "decide" => Outstanding <= job[v].resumable
      BY <1>1, <1>4 DEF FreshReads
    <3>2. job[v].resumable \in Nat /\ job[v].available \in Nat /\ free \in Nat
      BY <1>1 DEF TypeOK, Jobs
    <3>3. QED  BY <1>4, <1>5, <1>10, <3>1, <3>2
  <2>2. QED  BY <2>1 DEF FreshReads
<1>12. UsedIsBelow'
  BY <1>1, <1>4, <1>5, UsedSame
<1>13. QED  BY <1>6, <1>7, <1>8, <1>9, <1>11, <1>12 DEF SpaceInv

---------------------------------------------------------------------------
(* The invariant                                                           *)

\* The invariant holds at the start: nothing is promised.
LEMMA SpaceInvInit ==
    ASSUME Init
    PROVE  SpaceInv
<1>1. NoJob \in Jobs /\ NoJob.kind = "none" /\ NoJob.before = FALSE /\ NoJob.unchecked = 0 /\ NoJob.written = 0
  BY DEF NoJob, Job, Jobs
<1>2. NoRow \in Rows
  BY DEF NoRow, Rows
<1>3. TypeOK
  BY <1>1, <1>2 DEF Init, TypeOK, PCs
<1>4. \A w \in Writers : JobFits(w)
  BY <1>1 DEF Init, JobFits, Writing
<1>5. OneRequest
  BY <1>1 DEF Init, OneRequest
<1>6. PoolIsSum
  <2>1. \A w \in Writers : 1 .. held[w] = {}
    BY DEF Init
  <2>2. Units(held, Writers) = {}
    BY <2>1 DEF Units
  <2>3. QED  BY <2>2, FS_EmptySet DEF Init, PoolIsSum, Sum
<1>7. FreshReads
  BY DEF Init, FreshReads
<1>8. UsedIsBelow
  <2>1. Sum(Used, Writers) \in Nat
    BY <1>3, UsedType
  <2>2. QED  BY <2>1 DEF Init, UsedIsBelow
<1>9. QED  BY <1>3, <1>4, <1>5, <1>6, <1>7, <1>8 DEF SpaceInv

\* Every step keeps the invariant.
LEMMA SpaceInvNext ==
    ASSUME SpaceInv, [Next]_vars
    PROVE  SpaceInv'
<1>1. CASE UNCHANGED vars
  <2>1. SpaceInv' <=> SpaceInv
    BY <1>1 DEF vars, history, SpaceInv, TypeOK, JobFits, OneRequest, PoolIsSum, FreshReads, Outstanding, Open,
                Sum, Units, UsedIsBelow, Used
  <2>2. QED  BY <2>1
<1>2. ASSUME NEW w \in Writers, NEW kind \in {"push", "chunked"}, NEW n \in Sizes \cup {0}, Admit(w, kind, n)
      PROVE  SpaceInv'
  BY <1>2, AdmitKeeps
<1>3. ASSUME NEW w \in Writers, NEW u \in Uploads, AdmitCreate(w, u) \/ AdmitPatch(w, u)
      PROVE  SpaceInv'
  BY <1>3, AdmitCreateKeeps, AdmitPatchKeeps
<1>4. ASSUME NEW w \in Writers,
             \/ GiveUpHold(w)
             \/ Measure(w) \/ CannotMeasure(w) \/ CountRows(w) \/ CountFails(w)
             \/ Decide(w) \/ Refuse(w)
      PROVE  SpaceInv'
  BY <1>4, GiveUpHoldKeeps, MeasureKeeps, CannotMeasureKeeps, CountRowsKeeps, CountFailsKeeps, DecideKeeps,
     RefuseKeeps
<1>5. ASSUME NEW w \in Writers,
             \/ OpenPart(w) \/ WriteByte(w) \/ MeasureAgain(w) \/ Measured(w)
             \/ EndOfBody(w) \/ Cancel(w)
             \/ InsertRow(w) \/ Record(w) \/ DropReservation(w)
      PROVE  SpaceInv'
  BY <1>5, OpenPartKeeps, WriteByteKeeps, MeasureAgainKeeps, MeasuredKeeps, EndOfBodyKeeps, CancelKeeps,
     InsertRowKeeps, RecordKeeps, DropReservationKeeps
<1>6. ASSUME NEW u \in Uploads, GoIdle(u) \/ DeleteUpload(u)
      PROVE  SpaceInv'
  BY <1>6, GoIdleKeeps, DeleteUploadKeeps
<1>7. QED  BY <1>1, <1>2, <1>3, <1>4, <1>5, <1>6 DEF Next

\* Pool, rows, reservations and locals agree as SpaceInv says, in every state: the
\* strengthening that makes what the guard promises inductive.
THEOREM SpaceInvariant == Spec => []SpaceInv
<1>1. Init => SpaceInv
  BY SpaceInvInit
<1>2. SpaceInv /\ [Next]_vars => SpaceInv'
  BY SpaceInvNext
<1>3. QED  BY <1>1, <1>2, PTL DEF Spec

\* Reservations::promised is what the live reservations hold, for any number of
\* writers and uploads and whichever way each write ends.
THEOREM PoolIsTheSum == Spec => []PoolIsSum
<1>1. SpaceInv => PoolIsSum
  BY DEF SpaceInv
<1>2. QED  BY <1>1, SpaceInvariant, PTL

---------------------------------------------------------------------------
(* The floor and the room                                                  *)

\* Each writer has used up at most an interval, so the floor is a writer's interval
\* each below the reserve.
LEMMA FloorFollows ==
    ASSUME SpaceInv
    PROVE  FloorHolds
<1>1. TypeOK /\ UsedIsBelow /\ free \in Nat
  BY DEF SpaceInv, TypeOK
<1>2. \A w \in Writers : Used[w] \in Nat /\ Used[w] <= Interval
  BY <1>1, UsedType
<1>3. Sum(Used, Writers) \in Nat /\ Sum(Used, Writers) <= Interval * Cardinality(Writers)
  <2> HIDE DEF Used
  <2>1. QED  BY <1>2, SumBound, SumIsNat
<1>4. Cardinality(Writers) \in Nat
  BY FS_CardinalityType
<1>5. Interval * Cardinality(Writers) \in Nat
  BY <1>4
<1>6. blind \/ free >= Reserve - Sum(Used, Writers)
  BY <1>1 DEF UsedIsBelow
<1>7. QED
  <2> HIDE DEF Used
  <2>1. QED  BY <1>1, <1>3, <1>5, <1>6 DEF FloorHolds

\* The others stay where they are.
OthersStay(w) ==
    \A v \in Writers \ {w} : /\ pc'[v] = pc[v] /\ job'[v].before = job[v].before
                             /\ held'[v] = held[v]

\* What a writer is owed is a number of bytes.
LEMMA OwedType ==
    ASSUME TypeOK, NEW w \in Writers
    PROVE  OwedTo(w) \in Nat
BY DEF OwedTo, TypeOK

\* What is owed and what the rows promise, together.
LEMMA CommittedIs ==
    ASSUME TypeOK, TypeOK'
    PROVE  Committed = OwedSum + Outstanding /\ Committed' = OwedSum' + Outstanding'
BY DEF Committed, OwedSum

\* A writer's step keeps the room when it takes no more than it was owed.
LEMMA RoomStep ==
    ASSUME SpaceInv, SpaceInv', Room, NEW w \in Writers, OthersStay(w), rows' = rows,
           OwedTo(w)' \in Nat, free' + OwedTo(w) >= free + OwedTo(w)'
    PROVE  Room'
<1>1. TypeOK /\ TypeOK' /\ free \in Nat /\ free' \in Nat
  BY DEF SpaceInv, TypeOK
<1>2. /\ OwedSum \in Nat /\ OwedSum' \in Nat
      /\ OwedSum' = OwedSum - OwedTo(w) + OwedTo(w)'
  BY <1>1, OwedStep DEF OthersStay
<1>3. Outstanding \in Nat /\ Outstanding' = Outstanding
  BY <1>1, OutstandingSame
<1>4. OwedTo(w) \in Nat
  BY <1>1, OwedType
<1>5. Committed = OwedSum + Outstanding /\ Committed' = OwedSum' + Outstanding'
  BY <1>1, CommittedIs
<1>6. free >= Reserve + Committed
  BY DEF Room
<1>7. free' >= Reserve + Committed'
  BY <1>1, <1>2, <1>3, <1>4, <1>5, <1>6
<1>8. QED  BY <1>7 DEF Room

\* ... and when its row promises the rest.
LEMMA RoomRowStep ==
    ASSUME SpaceInv, SpaceInv', Room, NEW w \in Writers, OthersStay(w), NEW u \in Uploads,
           \A x \in Uploads \ {u} : rows'[x] = rows[x],
           OwedTo(w)' \in Nat,
           free' + OwedTo(w) + Share(rows[u]) >= free + OwedTo(w)' + Share(rows'[u])
    PROVE  Room'
<1>1. TypeOK /\ TypeOK' /\ free \in Nat /\ free' \in Nat /\ rows' \in [Uploads -> Rows]
  BY DEF SpaceInv, TypeOK
<1>2. /\ OwedSum \in Nat /\ OwedSum' \in Nat
      /\ OwedSum' = OwedSum - OwedTo(w) + OwedTo(w)'
  BY <1>1, OwedStep DEF OthersStay
<1>3. /\ Outstanding \in Nat /\ Outstanding' \in Nat
      /\ Outstanding' = Outstanding - Share(rows[u]) + Share(rows'[u])
  BY <1>1, OutstandingStep
<1>4. OwedTo(w) \in Nat /\ Share(rows[u]) \in Nat /\ Share(rows'[u]) \in Nat
  BY <1>1, OwedType DEF Share, TypeOK, Rows
<1>5. Committed = OwedSum + Outstanding /\ Committed' = OwedSum' + Outstanding'
  BY <1>1, CommittedIs
<1>6. free >= Reserve + Committed
  BY DEF Room
<1>7. free' >= Reserve + Committed'
  BY <1>1, <1>2, <1>3, <1>4, <1>5, <1>6
<1>8. QED  BY <1>7 DEF Room

\* Only the decision takes a writer away from where it decides.
LEMMA OnlyDecide ==
    ASSUME SpaceInv, Next, NEW w \in Writers, pc[w] = "decide", pc'[w] # "decide"
    PROVE  Decide(w)
<1>1. pc \in [Writers -> PCs]
  BY DEF SpaceInv, TypeOK
<1>2. ASSUME NEW v \in Writers, NEW kind, NEW n, Admit(v, kind, n)
      PROVE  FALSE
  BY <1>1, <1>2 DEF Admit, At, Goto
<1>3. ASSUME NEW v \in Writers, NEW u \in Uploads, AdmitCreate(v, u) \/ AdmitPatch(v, u)
      PROVE  FALSE
  BY <1>1, <1>3 DEF AdmitCreate, AdmitPatch, At, Goto
<1>4. ASSUME NEW v \in Writers,
             \/ GiveUpHold(v)
             \/ Measure(v) \/ CannotMeasure(v) \/ CountRows(v) \/ CountFails(v)
             \/ Refuse(v)
      PROVE  FALSE
  BY <1>1, <1>4 DEF GiveUpHold, Measure, CannotMeasure, CountRows, CountFails, Refuse, Return, At, Goto
<1>5. ASSUME NEW v \in Writers,
             \/ OpenPart(v) \/ WriteByte(v) \/ MeasureAgain(v) \/ Measured(v)
             \/ EndOfBody(v) \/ Cancel(v)
             \/ InsertRow(v) \/ Record(v) \/ DropReservation(v)
      PROVE  FALSE
  BY <1>1, <1>5 DEF OpenPart, WriteByte, MeasureAgain, Measured, EndOfBody, Cancel, InsertRow, Record,
                    DropReservation, Return, At, Goto
<1>6. ASSUME NEW v \in Writers, Decide(v)
      PROVE  Decide(w)
  BY <1>1, <1>6 DEF Decide, At, Goto
<1>7. ASSUME NEW u \in Uploads, GoIdle(u) \/ DeleteUpload(u)
      PROVE  FALSE
  BY <1>7 DEF GoIdle, DeleteUpload
<1>8. QED  BY <1>2, <1>3, <1>4, <1>5, <1>6, <1>7 DEF Next

\* An admission on fresh reads leaves the room it needs.
LEMMA DecideIsSound ==
    ASSUME SpaceInv, SpaceInv', NEW w \in Writers, Decide(w), w \notin moved, pc'[w] # "refuse"
    PROVE  Room'
<1>1. TypeOK /\ TypeOK' /\ PoolIsSum' /\ pc[w] = "decide"
  BY DEF SpaceInv, Decide, At
<1>2. free \in Nat /\ promised \in Nat /\ job[w].available \in Nat /\ job[w].resumable \in Nat
  BY <1>1 DEF TypeOK, Jobs
<1>3. job[w].available <= free /\ Outstanding <= job[w].resumable
  BY <1>1 DEF SpaceInv, FreshReads
<1>4. ~(job[w].available < Needed(w))
  <2>1. pc'[w] = IF job[w].available < Needed(w) THEN "refuse" ELSE Admitted(w)
    BY <1>1 DEF Decide, Goto, TypeOK
  <2>2. QED  BY <2>1
<1>5. /\ Needed(w) \in Nat
      /\ Needed(w) >= promised + job[w].resumable + Reserve
  BY <1>1, NeededType
<1>6. free' = free /\ promised' = promised /\ rows' = rows
  BY DEF Decide
<1>7. Outstanding \in Nat /\ Outstanding' = Outstanding
  BY <1>1, <1>6, OutstandingSame
<1>8. OwedSum' \in Nat /\ OwedSum' <= promised'
  <2> DEFINE S == {v \in Writers : Owed(v)'}
  <2> DEFINE f == held'
  <2>1. S \subseteq Writers /\ \A v \in Writers : f[v] \in Nat /\ f[v] <= f[v]
    BY <1>1 DEF TypeOK
  <2>2. Sum(f, S) \in Nat /\ Sum(f, S) <= Sum(f, Writers)
    <3> HIDE DEF S, f
    <3>1. QED  BY <2>1, SumGrows
  <2>3. OwedSum' = Sum(f, S)
    BY DEF OwedSum, Sum, Units
  <2>4. promised' = Sum(f, Writers)
    BY <1>1 DEF PoolIsSum
  <2>5. QED
    <3> HIDE DEF S, f
    <3>1. QED  BY <2>2, <2>3, <2>4
<1>9. Committed' = OwedSum' + Outstanding'
  BY <1>1, CommittedIs
<1>10. free' >= Reserve + Committed'
  <2>1. free >= promised + job[w].resumable + Reserve
    BY <1>2, <1>3, <1>4, <1>5
  <2>2. free >= promised + Outstanding + Reserve
    BY <1>2, <1>3, <1>7, <2>1
  <2>3. PICK o \in Nat : o = OwedSum' /\ o <= promised
    BY <1>6, <1>8
  <2>4. PICK r \in Nat : r = Outstanding /\ r = Outstanding'
    BY <1>7
  <2>5. free >= Reserve + (o + r)
    <3>1. free >= promised + r + Reserve
      BY <2>2, <2>4
    <3>2. free \in Nat /\ promised \in Nat /\ Reserve \in Nat /\ o <= promised
      BY <1>2, <2>3
    <3>3. QED  BY <3>1, <3>2
  <2>6. QED  BY <1>6, <1>9, <2>3, <2>4, <2>5
<1>11. QED  BY <1>10 DEF Room

\* The steps that may take the room away.
RoomExcused ==
    \E w \in Writers :
        \/ At(w, "decide") /\ w \in moved
        \/ At(w, "measure") /\ pc'[w] = Admitted(w)
        \/ At(w, "write") /\ held[w] = 0 /\ free' < free

\* Asking promises nothing yet.
LEMMA AdmitRoom ==
    ASSUME SpaceInv, SpaceInv', Room, NEW w \in Writers,
           \/ \E kind \in {"push", "chunked"}, n \in Sizes \cup {0} : Admit(w, kind, n)
           \/ \E u \in Uploads : AdmitCreate(w, u) \/ AdmitPatch(w, u)
    PROVE  Room'
<1>1. TypeOK /\ pc[w] = "idle" /\ free \in Nat
  BY DEF SpaceInv, TypeOK, Admit, AdmitCreate, AdmitPatch, At
<1>2. rows' = rows /\ free' = free
  BY DEF Admit, AdmitCreate, AdmitPatch
<1>3. OthersStay(w)
  BY <1>1 DEF OthersStay, TypeOK, Admit, AdmitCreate, AdmitPatch, ReserveBytes, Goto
<1>4. pc'[w] = "giveUp" \/ (pc'[w] = "measure" /\ job'[w].before = FALSE)
  BY <1>1 DEF TypeOK, Admit, AdmitCreate, AdmitPatch, Job, Goto
<1>5. OwedTo(w) = 0 /\ OwedTo(w)' = 0
  BY <1>1, <1>4 DEF OwedTo, Owed
<1>6. QED  BY <1>1, <1>2, <1>3, <1>5, RoomStep

\* The promise passes from the row to the request.
LEMMA GiveUpRoom ==
    ASSUME SpaceInv, SpaceInv', Room, NEW w \in Writers, GiveUpHold(w)
    PROVE  Room'
<1> DEFINE u == job[w].upload
<1>1. TypeOK /\ JobFits(w) /\ pc[w] = "giveUp" /\ free \in Nat
  BY DEF SpaceInv, TypeOK, GiveUpHold, At
<1>2. /\ u \in Uploads /\ rows[u] \in Rows /\ rows[u].is = "open" /\ (rows[u].hold <=> job[w].before)
      /\ held[w] = rows[u].rest
  BY <1>1 DEF JobFits, TypeOK, Writing, Jobs
<1>3. OthersStay(w)
  BY <1>1 DEF OthersStay, TypeOK, GiveUpHold, Goto
<1>4. pc'[w] = "measure" /\ job'[w] = job[w] /\ held'[w] = held[w] /\ free' = free
  BY <1>1 DEF TypeOK, GiveUpHold, Goto
<1>5. rows'[u].hold = FALSE /\ \A x \in Uploads \ {u} : rows'[x] = rows[x]
  BY <1>1, <1>2 DEF GiveUpHold, TypeOK, Rows
<1>6. OwedTo(w) = 0 /\ OwedTo(w)' = Share(rows[u]) /\ Share(rows'[u]) = 0
  BY <1>1, <1>2, <1>4, <1>5 DEF OwedTo, Owed, Share
<1>7. Share(rows[u]) \in Nat
  BY <1>2 DEF Share, Rows
<1>8. free' + OwedTo(w) + Share(rows[u]) >= free + OwedTo(w)' + Share(rows'[u]) /\ OwedTo(w)' \in Nat
  BY <1>1, <1>4, <1>6, <1>7
<1>9. QED  BY <1>2, <1>3, <1>5, <1>8, RoomRowStep

\* Nothing is owed before a decision that was not owed.
LEMMA CheckRoom ==
    ASSUME SpaceInv, SpaceInv', Room, NEW w \in Writers,
           Measure(w) \/ CountRows(w) \/ CountFails(w) \/ (Decide(w) /\ pc'[w] = "refuse")
    PROVE  Room'
<1>1. TypeOK /\ free \in Nat /\ job[w] \in Jobs
  BY DEF SpaceInv, TypeOK
<1>2. OthersStay(w)
  BY <1>1 DEF OthersStay, TypeOK, Measure, CountRows, CountFails, Decide, Goto
<1>3. /\ pc[w] \in {"measure", "rows", "decide"} /\ pc'[w] \in {"rows", "decide", "refuse"}
      /\ held'[w] = held[w] /\ rows' = rows /\ free' = free
  BY <1>1 DEF TypeOK, Measure, CountRows, CountFails, Decide, Goto, At
<1>4. job'[w].before = job[w].before
  BY <1>1 DEF TypeOK, Jobs, Measure, CountRows, CountFails, Decide
<1>5. OwedTo(w)' = OwedTo(w) /\ OwedTo(w) \in Nat
  BY <1>1, <1>3, <1>4, OwedType DEF OwedTo, Owed
<1>6. free' + OwedTo(w) >= free + OwedTo(w)'
  BY <1>1, <1>3, <1>5
<1>7. QED  BY <1>2, <1>3, <1>5, <1>6, RoomStep

\* A request that ends owes nothing, and its row promises what it did.
LEMMA ReturnRoom ==
    ASSUME SpaceInv, SpaceInv', Room, NEW w \in Writers, Release(w), Return(w),
           rows' = rows \/ job[w].upload \in Uploads,
           rows' # rows => \A x \in Uploads \ {job[w].upload} : rows'[x] = rows[x],
           rows' # rows => Share(rows'[job[w].upload]) <= Share(rows[job[w].upload]) + OwedTo(w),
           free' >= free
    PROVE  Room'
<1>1. TypeOK /\ TypeOK' /\ free \in Nat /\ free' \in Nat
  BY DEF SpaceInv, TypeOK
<1>2. OthersStay(w)
  BY <1>1 DEF OthersStay, TypeOK, Release, Return, Goto
<1>3. pc'[w] = "idle"
  BY <1>1 DEF TypeOK, Return, Goto
<1>4. OwedTo(w)' = 0 /\ OwedTo(w) \in Nat
  BY <1>1, <1>3, OwedType DEF OwedTo, Owed
<1>5. CASE rows' = rows
  BY <1>1, <1>2, <1>4, <1>5, RoomStep
<1>6. CASE rows' # rows
  <2> DEFINE u == job[w].upload
  <2>1. u \in Uploads /\ \A x \in Uploads \ {u} : rows'[x] = rows[x]
    BY <1>6
  <2>2. Share(rows[u]) \in Nat /\ Share(rows'[u]) \in Nat
    BY <1>1, <2>1 DEF Share, TypeOK, Rows
  <2>3. free' + OwedTo(w) + Share(rows[u]) >= free + OwedTo(w)' + Share(rows'[u])
    <3> HIDE DEF u
    <3>1. Share(rows'[u]) <= Share(rows[u]) + OwedTo(w)
      BY <1>6 DEF u
    <3>2. QED  BY <1>1, <1>4, <2>2, <3>1
  <2>4. QED  BY <1>2, <1>4, <2>1, <2>3, RoomRowStep
<1>7. QED  BY <1>5, <1>6

\* A refusal gives back what was promised, to the row if that had a hold.
LEMMA RefuseRoom ==
    ASSUME SpaceInv, SpaceInv', Room, NEW w \in Writers, Refuse(w)
    PROVE  Room'
<1> DEFINE u == job[w].upload
<1>1. TypeOK /\ JobFits(w) /\ pc[w] = "refuse" /\ free \in Nat
  BY DEF SpaceInv, TypeOK, Refuse, At
<1>2. Release(w) /\ Return(w) /\ free' = free
  BY DEF Refuse
<1>3. CASE job[w].kind = "patch"
  <2>1. /\ u \in Uploads /\ rows[u] \in Rows /\ rows[u].is = "open" /\ job[w].before \in BOOLEAN
        /\ held[w] = rows[u].rest /\ rows[u].rest \in Nat
    BY <1>1, <1>3 DEF JobFits, TypeOK, Writing, Jobs, Rows
  <2>2. /\ rows'[u].is = "open" /\ rows'[u].rest = rows[u].rest /\ rows'[u].hold = job[w].before
        /\ \A x \in Uploads \ {u} : rows'[x] = rows[x]
    BY <1>1, <1>3, <2>1 DEF Refuse, TypeOK, Rows
  <2>3. Share(rows'[u]) = OwedTo(w)
    BY <1>1, <2>1, <2>2 DEF Share, OwedTo, Owed
  <2>4. Share(rows[u]) \in Nat /\ OwedTo(w) \in Nat
    BY <1>1, <2>1, OwedType DEF Share, Rows
  <2>5. Share(rows'[u]) <= Share(rows[u]) + OwedTo(w)
    BY <2>3, <2>4
  <2>6. QED  BY <1>1, <1>2, <2>1, <2>2, <2>5, ReturnRoom
<1>4. CASE job[w].kind # "patch"
  <2>1. rows' = rows
    BY <1>4 DEF Refuse
  <2>2. QED  BY <1>1, <1>2, <2>1, ReturnRoom
<1>5. QED  BY <1>3, <1>4

\* A request that breaks off takes nothing that was promised to others.
LEMMA AbandonRoom ==
    ASSUME SpaceInv, SpaceInv', Room, NEW w \in Writers, pc[w] # "idle", Abandon(w), Release(w), Return(w)
    PROVE  Room'
<1> DEFINE u == job[w].upload
<1>1. TypeOK /\ JobFits(w) /\ free \in Nat /\ job[w].written \in Nat
  BY DEF SpaceInv, TypeOK, Jobs
<1>2. CASE job[w].kind = "patch"
  <2>1. u \in Uploads /\ rows[u] \in Rows
    BY <1>1, <1>2 DEF JobFits, TypeOK
  <2>2. /\ rows'[u].is = rows[u].is /\ rows'[u].rest = rows[u].rest /\ rows'[u].hold = rows[u].hold
        /\ \A x \in Uploads \ {u} : rows'[x] = rows[x] /\ free' = free
    BY <1>1, <1>2, <2>1 DEF Abandon, TypeOK, Rows
  <2>3. free' = free
    BY <1>2 DEF Abandon
  <2>4. Share(rows'[u]) = Share(rows[u])
    BY <2>2 DEF Share
  <2>5. Share(rows[u]) \in Nat /\ OwedTo(w) \in Nat
    BY <1>1, <2>1, OwedType DEF Share, Rows
  <2>6. Share(rows'[u]) <= Share(rows[u]) + OwedTo(w)
    BY <2>4, <2>5
  <2>7. QED  BY <1>1, <2>1, <2>2, <2>3, <2>6, ReturnRoom
<1>3. CASE job[w].kind # "patch"
  <2>1. rows' = rows /\ free' >= free
    BY <1>1, <1>3 DEF Abandon
  <2>2. QED  BY <2>1, ReturnRoom
<1>4. QED  BY <1>2, <1>3

\* A byte on disk is a byte less of the promise.
LEMMA WriteRoom ==
    ASSUME SpaceInv, SpaceInv', Room, NEW w \in Writers, WriteByte(w), held[w] # 0
    PROVE  Room'
<1>1. TypeOK /\ pc[w] = "write" /\ free \in Nat /\ held[w] \in Nat /\ held[w] > 0
  BY DEF SpaceInv, TypeOK, WriteByte, At
<1>2. OthersStay(w)
  BY <1>1 DEF OthersStay, TypeOK, WriteByte
<1>3. rows' = rows /\ free' = free - 1 /\ pc'[w] = "write" /\ held'[w] = held[w] - 1
  BY <1>1 DEF WriteByte, Taken, TypeOK
<1>4. OwedTo(w) = held[w] /\ OwedTo(w)' = held[w] - 1
  BY <1>1, <1>3 DEF OwedTo, Owed
<1>5. OwedTo(w)' \in Nat /\ free' + OwedTo(w) >= free + OwedTo(w)'
  BY <1>1, <1>3, <1>4
<1>6. QED  BY <1>2, <1>3, <1>5, RoomStep

\* A request that goes on writing, or to record, is owed what it was.
LEMMA GoesOnRoom ==
    ASSUME SpaceInv, SpaceInv', Room, NEW w \in Writers,
           pc[w] \in {"write", "measuring"}, pc'[w] \in {"write", "measuring", "record"},
           OthersStay(w), rows' = rows, free' = free, held' = held
    PROVE  Room'
<1>1. TypeOK /\ free \in Nat
  BY DEF SpaceInv, TypeOK
<1>2. OwedTo(w)' = OwedTo(w) /\ OwedTo(w) \in Nat
  BY <1>1, OwedType DEF OwedTo, Owed
<1>3. free' + OwedTo(w) >= free + OwedTo(w)'
  BY <1>1, <1>2
<1>4. QED  BY <1>2, <1>3, RoomStep

\* Cutting the part off makes room.
LEMMA OpenPartRoom ==
    ASSUME SpaceInv, SpaceInv', Room, NEW w \in Writers, OpenPart(w)
    PROVE  Room'
<1> DEFINE u == job[w].upload
<1>1. TypeOK /\ JobFits(w) /\ pc[w] = "open" /\ free \in Nat
  BY DEF SpaceInv, TypeOK, OpenPart, At
<1>2. u \in Uploads /\ rows[u] \in Rows /\ rows[u].junk \in Nat
  BY <1>1 DEF JobFits, TypeOK, Rows
<1>3. OthersStay(w)
  BY <1>1 DEF OthersStay, TypeOK, OpenPart, Goto
<1>4. pc'[w] = "write" /\ held' = held /\ free' = free + rows[u].junk
  BY <1>1 DEF OpenPart, Goto, TypeOK
<1>5. /\ rows'[u].is = rows[u].is /\ rows'[u].rest = rows[u].rest /\ rows'[u].hold = rows[u].hold
      /\ \A x \in Uploads \ {u} : rows'[x] = rows[x]
  BY <1>1, <1>2 DEF OpenPart, TypeOK, Rows
<1>6. OwedTo(w)' = OwedTo(w) /\ OwedTo(w) \in Nat
  BY <1>1, <1>4, OwedType DEF OwedTo, Owed
<1>7. Share(rows'[u]) = Share(rows[u]) /\ Share(rows[u]) \in Nat
  BY <1>2, <1>5 DEF Share, Rows
<1>8. free' + OwedTo(w) + Share(rows[u]) >= free + OwedTo(w)' + Share(rows'[u])
  BY <1>1, <1>2, <1>4, <1>6, <1>7
<1>9. QED  BY <1>2, <1>3, <1>5, <1>6, <1>8, RoomRowStep

\* Measuring again promises nothing new.
LEMMA MeasuredRoom ==
    ASSUME SpaceInv, SpaceInv', Room, NEW w \in Writers, MeasureAgain(w) \/ Measured(w)
    PROVE  Room'
<1>1. TypeOK /\ pc[w] \in {"write", "measuring"}
  BY DEF SpaceInv, MeasureAgain, Measured, At
<1>2. CASE MeasureAgain(w)
  <2>1. OthersStay(w) /\ pc'[w] = "measuring" /\ rows' = rows /\ free' = free /\ held' = held
    BY <1>1, <1>2 DEF OthersStay, TypeOK, MeasureAgain, Goto
  <2>2. QED  BY <1>1, <2>1, GoesOnRoom
<1>3. CASE Goto(w, "record") /\ UNCHANGED <<free, promised, held, rows, job>>
  <2>1. OthersStay(w) /\ pc'[w] = "record" /\ rows' = rows /\ free' = free /\ held' = held
    BY <1>1, <1>3 DEF OthersStay, TypeOK, Goto
  <2>2. QED  BY <1>1, <2>1, GoesOnRoom
<1>4. CASE Abandon(w) /\ Release(w) /\ Return(w)
  BY <1>1, <1>4, AbandonRoom
<1>5. CASE /\ Goto(w, "write") /\ job' = [job EXCEPT ![w].available = 0]
           /\ UNCHANGED <<free, promised, held, rows>>
  <2>1. OthersStay(w) /\ pc'[w] = "write" /\ rows' = rows /\ free' = free /\ held' = held
    BY <1>1, <1>5 DEF OthersStay, TypeOK, Goto
  <2>2. QED  BY <1>1, <2>1, GoesOnRoom
<1>6. QED  BY <1>2, <1>3, <1>4, <1>5 DEF Measured

\* The end of a body promises nothing new.
LEMMA EndOfBodyRoom ==
    ASSUME SpaceInv, SpaceInv', Room, NEW w \in Writers, EndOfBody(w)
    PROVE  Room'
<1>1. TypeOK /\ pc[w] = "write" /\ free \in Nat /\ free' = free /\ rows' = rows
  BY DEF SpaceInv, TypeOK, EndOfBody, At
<1>2. CASE Goto(w, "record") /\ UNCHANGED <<promised, held, job>>
  <2>1. OthersStay(w) /\ pc'[w] = "record" /\ held' = held
    BY <1>1, <1>2 DEF OthersStay, TypeOK, Goto
  <2>2. QED  BY <1>1, <2>1, GoesOnRoom
<1>3. CASE Release(w) /\ Return(w)
  <2>1. free' >= free
    BY <1>1
  <2>2. QED  BY <1>1, <1>3, <2>1, ReturnRoom
<1>4. QED  BY <1>2, <1>3 DEF EndOfBody

\* A dropped reservation was owed no more.
LEMMA DropRoom ==
    ASSUME SpaceInv, SpaceInv', Room, NEW w \in Writers, DropReservation(w)
    PROVE  Room'
<1>1. Release(w) /\ Return(w) /\ free' = free /\ rows' = rows /\ free \in Nat
  BY DEF SpaceInv, TypeOK, DropReservation
<1>2. free' >= free
  BY <1>1
<1>3. QED  BY <1>1, <1>2, ReturnRoom

\* The promise passes from the request to the row.
LEMMA HandOverRoom ==
    ASSUME SpaceInv, SpaceInv', Room, NEW w \in Writers, InsertRow(w) \/ Record(w)
    PROVE  Room'
<1> DEFINE u == job[w].upload
<1>1. TypeOK /\ JobFits(w) /\ pc[w] \in {"insert", "record"} /\ free \in Nat
  BY DEF SpaceInv, TypeOK, InsertRow, Record, At
<1>2. /\ u \in Uploads /\ rows[u] \in Rows /\ held[w] \in Nat
      /\ job[w].left \in Nat /\ job[w].written \in Nat
  BY <1>1 DEF JobFits, TypeOK, Jobs
<1>3. OthersStay(w)
  BY <1>1 DEF OthersStay, TypeOK, InsertRow, Record, Goto
<1>4. pc'[w] = "drop" /\ free' = free /\ \A x \in Uploads \ {u} : rows'[x] = rows[x]
  BY <1>1, <1>2 DEF InsertRow, Record, Goto, TypeOK
<1>5. OwedTo(w) = held[w] /\ OwedTo(w)' = 0
  BY <1>1, <1>4 DEF OwedTo, Owed
<1>6. Share(rows[u]) = 0 /\ Share(rows'[u]) = held[w]
  <2>1. CASE InsertRow(w)
    <3>1. pc[w] = "insert" /\ rows[u].is = "unborn" /\ held[w] = Length
      BY <1>1, <2>1 DEF InsertRow, At, JobFits
    <3>2. rows'[u] = [is |-> "open", rest |-> Length, hold |-> TRUE, junk |-> 0]
      BY <1>1, <1>2, <2>1 DEF InsertRow, TypeOK
    <3>3. QED  BY <3>1, <3>2 DEF Share
  <2>2. CASE Record(w)
    <3>1. /\ pc[w] = "record" /\ rows[u].is = "open" /\ ~rows[u].hold /\ held[w] = job[w].left
          /\ job[w].left + job[w].written = rows[u].rest
      BY <1>1, <2>2 DEF Record, At, JobFits
    <3>2. rows'[u].is = "open" /\ rows'[u].hold = TRUE /\ rows'[u].rest = rows[u].rest - job[w].written
      BY <1>1, <1>2, <2>2, <3>1 DEF Record, TypeOK, Rows
    <3>3. rows[u].rest - job[w].written = job[w].left
      BY <1>2, <3>1
    <3>4. QED  BY <3>1, <3>2, <3>3 DEF Share
  <2>3. QED  BY <2>1, <2>2
<1>7. OwedTo(w)' \in Nat /\ free' + OwedTo(w) + Share(rows[u]) >= free + OwedTo(w)' + Share(rows'[u])
  BY <1>1, <1>2, <1>4, <1>5, <1>6
<1>8. QED  BY <1>2, <1>3, <1>4, <1>7, RoomRowStep

\* A hold that ages, and an upload that is deleted, promise less.
LEMMA RowRoom ==
    ASSUME SpaceInv, SpaceInv', Room, NEW u \in Uploads, GoIdle(u) \/ DeleteUpload(u)
    PROVE  Room'
<1>1. TypeOK /\ TypeOK' /\ free \in Nat /\ free' \in Nat /\ \A v \in Writers : JobFits(v)
  BY DEF SpaceInv, TypeOK
<1>2. rows[u] \in Rows /\ rows[u].is = "open" /\ rows' \in [Uploads -> Rows]
  BY <1>1 DEF GoIdle, DeleteUpload, Open, TypeOK
<1>3. pc' = pc /\ held' = held /\ \A x \in Uploads \ {u} : rows'[x] = rows[x]
  BY <1>1 DEF GoIdle, DeleteUpload, TypeOK
<1>4. free' >= free
  <2>1. rows[u].rest \in 0 .. Length /\ rows[u].junk \in Nat
    BY <1>2 DEF Rows
  <2>2. CASE GoIdle(u)
    BY <1>1, <2>2 DEF GoIdle
  <2>3. CASE DeleteUpload(u)
    BY <1>1, <2>1, <2>3 DEF DeleteUpload
  <2>4. QED  BY <2>2, <2>3
<1>5. ASSUME NEW v \in Writers
      PROVE  Owed(v) <=> Owed(v)'
  <2>1. CASE job[v].upload = u /\ GoIdle(u)
    <3>1. rows[u].hold
      BY <2>1 DEF GoIdle
    <3>2. ~(pc[v] \in {"measure", "rows", "decide", "refuse"} /\ job[v].before)
      BY <1>1, <2>1, <3>1 DEF JobFits
    <3>3. job[v] \in Jobs /\ job'[v] = [job[v] EXCEPT !.before = FALSE]
      BY <1>1, <2>1 DEF GoIdle, TypeOK
    <3>4. job'[v].before = FALSE
      BY <3>3 DEF Jobs
    <3>5. QED  BY <1>3, <3>2, <3>4 DEF Owed
  <2>2. CASE ~(job[v].upload = u /\ GoIdle(u))
    <3>1. job'[v] = job[v]
      BY <2>2 DEF GoIdle, DeleteUpload
    <3>2. QED  BY <1>3, <3>1 DEF Owed
  <2>3. QED  BY <2>1, <2>2
<1>6. OwedSum' = OwedSum
  <2>1. {v \in Writers : Owed(v)'} = {v \in Writers : Owed(v)}
    BY <1>5
  <2>2. QED  BY <1>3, <2>1 DEF OwedSum, Sum, Units
<1>7. OwedSum \in Nat
  BY <1>1, OwedIsPromised DEF SpaceInv
<1>8. Outstanding \in Nat /\ Outstanding' \in Nat /\ Outstanding' <= Outstanding
  <2>1. /\ Outstanding \in Nat /\ Outstanding' \in Nat
        /\ Outstanding' = Outstanding - Share(rows[u]) + Share(rows'[u])
    BY <1>1, <1>2, <1>3, OutstandingStep
  <2>2. Share(rows'[u]) = 0
    <3>1. CASE GoIdle(u)
      <4>1. rows'[u].hold = FALSE
        BY <1>1, <1>2, <3>1 DEF GoIdle, TypeOK, Rows
      <4>2. QED  BY <4>1 DEF Share
    <3>2. CASE DeleteUpload(u)
      <4>1. NoRow \in Rows
        BY DEF NoRow, Rows
      <4>2. rows'[u] = [NoRow EXCEPT !.is = "gone"]
        BY <1>1, <3>2 DEF DeleteUpload, TypeOK
      <4>3. rows'[u].is = "gone"
        BY <4>1, <4>2 DEF Rows
      <4>4. QED  BY <4>3 DEF Share
    <3>3. QED  BY <3>1, <3>2
  <2>3. Share(rows[u]) \in Nat
    BY <1>2 DEF Share, Rows
  <2>4. QED  BY <2>1, <2>2, <2>3
<1>9. Committed = OwedSum + Outstanding /\ Committed' = OwedSum' + Outstanding'
  BY <1>1, CommittedIs
<1>10. free >= Reserve + Committed
  BY DEF Room
<1>11. PICK o \in Nat, a \in Nat, b \in Nat :
            OwedSum = o /\ OwedSum' = o /\ Outstanding = a /\ Outstanding' = b /\ b <= a
  BY <1>6, <1>7, <1>8, Zenon
<1>12. Committed = o + a /\ Committed' = o + b
  BY <1>9, <1>11, Zenon
<1>13. Reserve \in Nat
  BY SpaceAssumption
<1>14. free' >= Reserve + (o + b)
  <2>1. free >= Reserve + (o + a)
    BY <1>10, <1>12, Zenon
  <2>2. free \in Nat /\ free' \in Nat
    BY <1>1
  <2>3. QED  BY <1>4, <1>11, <1>13, <2>1, <2>2
<1>15. QED  BY <1>12, <1>14, Zenon DEF Room

\* Of all steps, only those excused take the room away.
LEMMA RoomNext ==
    ASSUME SpaceInv, SpaceInv', Room, Next
    PROVE  Room' \/ RoomExcused
<1>1. ASSUME NEW w \in Writers,
             \/ \E kind \in {"push", "chunked"}, n \in Sizes \cup {0} : Admit(w, kind, n)
             \/ \E u \in Uploads : AdmitCreate(w, u) \/ AdmitPatch(w, u)
      PROVE  Room'
  BY <1>1, AdmitRoom
<1>2. ASSUME NEW w \in Writers, GiveUpHold(w)
      PROVE  Room'
  BY <1>2, GiveUpRoom
<1>3. ASSUME NEW w \in Writers, Measure(w) \/ CountRows(w) \/ CountFails(w)
      PROVE  Room'
  BY <1>3, CheckRoom
<1>4. ASSUME NEW w \in Writers, CannotMeasure(w)
      PROVE  RoomExcused
  <2>1. pc'[w] = Admitted(w) /\ At(w, "measure")
    BY <1>4 DEF CannotMeasure, Goto, SpaceInv, TypeOK
  <2>2. QED  BY <2>1 DEF RoomExcused
<1>5. ASSUME NEW w \in Writers, Decide(w)
      PROVE  Room' \/ RoomExcused
  <2>1. At(w, "decide")
    BY <1>5 DEF Decide
  <2>2. CASE w \in moved
    BY <2>1, <2>2 DEF RoomExcused
  <2>3. CASE pc'[w] = "refuse"
    BY <1>5, <2>3, CheckRoom
  <2>4. CASE w \notin moved /\ pc'[w] # "refuse"
    BY <1>5, <2>4, DecideIsSound
  <2>5. QED  BY <2>2, <2>3, <2>4
<1>6. ASSUME NEW w \in Writers, Refuse(w)
      PROVE  Room'
  BY <1>6, RefuseRoom
<1>7. ASSUME NEW w \in Writers, WriteByte(w)
      PROVE  Room' \/ RoomExcused
  <2>1. CASE held[w] = 0
    <3>1. At(w, "write") /\ free' < free
      BY <1>7 DEF WriteByte, SpaceInv, TypeOK
    <3>2. QED  BY <2>1, <3>1 DEF RoomExcused
  <2>2. CASE held[w] # 0
    BY <1>7, <2>2, WriteRoom
  <2>3. QED  BY <2>1, <2>2
<1>8. ASSUME NEW w \in Writers, OpenPart(w) \/ MeasureAgain(w) \/ Measured(w) \/ EndOfBody(w)
      PROVE  Room'
  BY <1>8, OpenPartRoom, MeasuredRoom, EndOfBodyRoom
<1>9. ASSUME NEW w \in Writers, Cancel(w)
      PROVE  Room'
  <2>1. pc[w] # "idle" /\ Abandon(w) /\ Release(w) /\ Return(w)
    BY <1>9 DEF Cancel
  <2>2. QED  BY <2>1, AbandonRoom
<1>10. ASSUME NEW w \in Writers, InsertRow(w) \/ Record(w) \/ DropReservation(w)
      PROVE  Room'
  BY <1>10, HandOverRoom, DropRoom
<1>11. ASSUME NEW u \in Uploads, GoIdle(u) \/ DeleteUpload(u)
      PROVE  Room'
  BY <1>11, RowRoom
<1>12. QED  BY <1>1, <1>2, <1>3, <1>4, <1>5, <1>6, <1>7, <1>8, <1>9, <1>10, <1>11 DEF Next

\* The space of the volume is kept (SpaceGuard): it falls below the reserve by at
\* most an interval a writer, an admission on fresh reads leaves room for all that
\* is committed, and only an admission on stale ones, one without a measurement
\* or a byte nobody declared takes that room.
THEOREM TheSpaceIsKept == Spec => SpaceIsKept
<1>1. SpaceInv => TypeOK /\ FloorHolds
  BY FloorFollows DEF SpaceInv
<1>2. SpaceInv /\ SpaceInv' /\ [Next]_vars
        => [\A w \in Writers : At(w, "decide") /\ pc'[w] = Admitted(w) /\ w \notin moved => Room']_vars
  <2>1. SUFFICES ASSUME SpaceInv, SpaceInv', Next, NEW w \in Writers,
                        At(w, "decide"), pc'[w] = Admitted(w), w \notin moved
                 PROVE  Room'
    OBVIOUS
  <2>2. pc[w] = "decide" /\ TypeOK /\ JobFits(w)
    BY <2>1 DEF At, SpaceInv
  <2>3. Admitted(w) \in {"insert", "open", "write"}
    BY <2>2, AdmittedFits
  <2>4. Decide(w)
    BY <2>1, <2>2, <2>3, OnlyDecide
  <2>5. QED  BY <2>1, <2>3, <2>4, DecideIsSound
<1>3. SpaceInv /\ SpaceInv' /\ [Next]_vars
        => [Room => \/ Room'
                    \/ \E w \in Writers :
                          \/ At(w, "decide") /\ w \in moved
                          \/ At(w, "measure") /\ pc'[w] = Admitted(w)
                          \/ At(w, "write") /\ held[w] = 0 /\ free' < free]_vars
  BY RoomNext DEF RoomExcused
<1>4. QED  BY <1>1, <1>2, <1>3, SpaceInvariant, PTL DEF Spec, SpaceIsKept, AdmissionIsSound, RoomIsKept
=============================================================================
