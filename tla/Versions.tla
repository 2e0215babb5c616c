----------------------------- MODULE Versions -----------------------------
(***************************************************************************)
(* NuGet versions and ranges: what parse accepts, the order, the           *)
(* normalized form that names a version in the database, in paths and in   *)
(* URLs, and the version a dependency resolves to.                         *)
(*                                                                         *)
(* A written version is                                                    *)
(*   [v, core, pre, meta, long]                                            *)
(* a leading "v", the dotted components of its core, the pre-release       *)
(* identifiers (<<>>: no label), the identifiers of the build metadata     *)
(* (<<>>: none) and whether it is longer than the caps.  A component is    *)
(* [num, plus, zeros]: its value (NotNumber if it has other characters     *)
(* than digits), whether a plus sign is written before it, and its leading *)
(* zeros.  An identifier is                                                *)
(* [num, text, upper, zeros, legal]: its value (NotNumber if it is no u64),*)
(* the rank of its lower-cased text among texts, whether it is written with*)
(* capitals, whether it is all digits with a leading zero, and whether it  *)
(* is non-empty and of legal characters.                                   *)
(***************************************************************************)
EXTENDS Integers, Sequences, FiniteSets, SequencesExt, Results

CONSTANTS MaxComponent   \* i32::MAX

NotNumber == -1
EmptyText == 0
NoVersion == [core |-> <<>>, pre |-> <<>>, meta |-> <<>>]

\* parse_component: digits only, whatever the leading zeros
ParseComponent(c) == IF c.plus \/ c.num > MaxComponent THEN NotNumber ELSE c.num

\* str::parse::<u64>, which parse_stored uses: a leading plus sign is read
ParseU64(c) == c.num

Padded(nums) == [i \in 1 .. 4 |-> IF i <= Len(nums) THEN nums[i] ELSE 0]

\* valid_identifiers
ValidIdentifiers(ids, allowLeadingZeros) ==
    \A i \in DOMAIN ids : ids[i].legal /\ (allowLeadingZeros \/ ~ids[i].zeros)

\* NuGetVersion::parse
ParseVersion(t) ==
    LET nums == [i \in DOMAIN t.core |-> ParseComponent(t.core[i])]
    IN  IF \/ t.v \/ t.long
           \/ ~ValidIdentifiers(t.meta, TRUE) \/ ~ValidIdentifiers(t.pre, FALSE)
           \/ Len(nums) \notin 1 .. 4 \/ NotNumber \in ToSet(nums)
        THEN NoVersion
        ELSE [core |-> Padded(nums), pre |-> t.pre, meta |-> t.meta]

\* NuGetVersion::parse_stored: the rules of earlier releases
ParseStored(t) ==
    LET nums == [i \in DOMAIN t.core |-> ParseU64(t.core[i])]
    IN  IF ParseVersion(t) # NoVersion THEN ParseVersion(t)
        ELSE IF \/ \E i \in DOMAIN t.pre : ~t.pre[i].legal
                \/ Len(t.meta) = 1 /\ t.meta[1].text = EmptyText
                \/ Len(nums) \notin 1 .. 4 \/ NotNumber \in ToSet(nums)
        THEN NoVersion
        ELSE [core |-> Padded(nums), pre |-> t.pre, meta |-> t.meta]

IsPrerelease(v) == v.pre # <<>>
IsSemVer2(v) == v.meta # <<>> \/ Len(v.pre) > 1

\* core_string, normalized: a zero revision, the case of the label and the
\* metadata are dropped
CoreString(v) == IF v.core[4] > 0 THEN v.core ELSE SubSeq(v.core, 1, 3)
Normalized(v) == <<CoreString(v), [i \in DOMAIN v.pre |-> v.pre[i].text]>>

---------------------------------------------------------------------------
\* The order.  -1, 0 and 1 are Less, Equal and Greater.

CmpNat(a, b) == IF a < b THEN -1 ELSE IF a > b THEN 1 ELSE 0

\* Mutant: a number and a text are compared as texts.
CompareIdentifierMixed(a, b) ==
    IF a.num # NotNumber /\ b.num # NotNumber THEN CmpNat(a.num, b.num)
    ELSE CmpNat(a.text, b.text)

\* compare_identifier: numbers by value and before texts, texts without case
CompareIdentifier(a, b) ==
    IF a.num # NotNumber /\ b.num # NotNumber THEN CmpNat(a.num, b.num)
    ELSE IF a.num # NotNumber THEN -1
    ELSE IF b.num # NotNumber THEN 1
    ELSE CmpNat(a.text, b.text)

\* The first difference of two sequences decides, then their lengths.
Lexicographic(Cmp(_, _), a, b) ==
    LET differ == {i \in DOMAIN a \cap DOMAIN b : Cmp(a[i], b[i]) # 0}
        first == CHOOSE i \in differ : \A j \in differ : i <= j
    IN  IF differ = {} THEN CmpNat(Len(a), Len(b)) ELSE Cmp(a[first], b[first])

ComparePreIdentifiers(a, b) == Lexicographic(CompareIdentifier, a, b)

CmpPre(a, b) ==
    IF IsPrerelease(a) /\ IsPrerelease(b) THEN ComparePreIdentifiers(a.pre, b.pre)
    ELSE IF IsPrerelease(a) THEN -1
    ELSE IF IsPrerelease(b) THEN 1
    ELSE 0

\* Ord::cmp: the core, then the label; metadata is ignored
CmpVersion(a, b) ==
    LET core == Lexicographic(CmpNat, a.core, b.core)
    IN  IF core # 0 THEN core ELSE CmpPre(a, b)

---------------------------------------------------------------------------
\* Ranges.  A written range is [open, lo, comma, hi, close, stray]: its brackets
\* ("" for a bare version), its two versions ({} for an empty side) and whether
\* brackets, commas or stars stand where they may not.  A range is [min, max],
\* each end Unbounded or [version, inclusive].

Unbounded == [version |-> NoVersion, inclusive |-> FALSE]
Bound(v, inclusive) == [version |-> v, inclusive |-> inclusive]
NoText == [open |-> "", lo |-> {}, comma |-> FALSE, hi |-> {}, close |-> "", stray |-> FALSE]
AnyVersion == [min |-> Unbounded, max |-> Unbounded]
NoRange == {}

\* is_empty
IsEmptyRange(r) ==
    /\ Unbounded \notin {r.min, r.max}
    /\ LET c == CmpVersion(r.min.version, r.max.version)
       IN  c > 0 \/ (c = 0 /\ ~(r.min.inclusive /\ r.max.inclusive))

\* VersionRange::parse: {range}, or NoRange
ParseRangeText(t) ==
    LET End(side, inclusive) ==
            IF side = {} THEN Unbounded
            ELSE Bound(ParseVersion(CHOOSE v \in side : TRUE), inclusive)
        range == [min |-> End(t.lo, t.open = "["), max |-> End(t.hi, t.close = "]")]
    IN  IF t = NoText THEN {AnyVersion}
        ELSE IF t.stray \/ \E v \in t.lo \cup t.hi : ParseVersion(v) = NoVersion THEN NoRange
        ELSE IF t.open = "" THEN {[min |-> End(t.lo, TRUE), max |-> Unbounded]}
        ELSE IF t.close = "" THEN NoRange
        ELSE IF ~t.comma
        THEN IF t.open = "[" /\ t.close = "]" /\ t.lo # {}
             THEN {[min |-> End(t.lo, TRUE), max |-> End(t.lo, TRUE)]}
             ELSE NoRange
        ELSE IF \/ t.lo = {} /\ (t.hi = {} \/ t.open = "[")
                \/ t.hi = {} /\ t.close = "]"
                \/ IsEmptyRange(range)
        THEN NoRange
        ELSE {range}

\* VersionRange::contains
RangeContains(r, v) ==
    /\ \/ r.min = Unbounded
       \/ CmpVersion(v, r.min.version) > 0
       \/ r.min.inclusive /\ CmpVersion(v, r.min.version) = 0
    /\ \/ r.max = Unbounded
       \/ CmpVersion(v, r.max.version) < 0
       \/ r.max.inclusive /\ CmpVersion(v, r.max.version) = 0

HasPrereleaseBound(r) == \E b \in {r.min, r.max} : IsPrerelease(b.version)

\* best_match, as the set of versions it may return: {} for None, several only
\* when they are equal
BestMatch(r, available, allowPrerelease) ==
    LET candidates == {v \in available :
            RangeContains(r, v) /\ (allowPrerelease \/ HasPrereleaseBound(r) \/ ~IsPrerelease(v))}
    IN  IF r.min # Unbounded
        THEN {v \in candidates : \A w \in candidates : CmpVersion(v, w) <= 0}
        ELSE {v \in candidates : \A w \in candidates : CmpVersion(v, w) >= 0}

\* VersionRange::normalized, as the written range a reader of it parses.  What is
\* written of a version is its normalized form.
Written(v) ==
    [v |-> FALSE, long |-> FALSE, meta |-> <<>>,
     core |-> [i \in DOMAIN CoreString(v) |-> [num |-> CoreString(v)[i], plus |-> FALSE, zeros |-> 0]],
     pre |-> [i \in DOMAIN v.pre |-> [v.pre[i] EXCEPT !.upper = FALSE]]]

WrittenRange(r) ==
    LET Side(bound) == IF bound = Unbounded THEN {} ELSE {Written(bound.version)}
    IN  IF r = AnyVersion THEN NoText
        ELSE IF /\ Unbounded \notin {r.min, r.max} /\ r.min.inclusive /\ r.max.inclusive
                /\ CmpVersion(r.min.version, r.max.version) = 0
        THEN [open |-> "[", lo |-> Side(r.min), comma |-> FALSE, hi |-> {}, close |-> "]", stray |-> FALSE]
        ELSE [open |-> IF r.min.inclusive THEN "[" ELSE "(", lo |-> Side(r.min), comma |-> TRUE,
              hi |-> Side(r.max), close |-> IF r.max.inclusive THEN "]" ELSE ")", stray |-> FALSE]

---------------------------------------------------------------------------
\* What the definitions promise together.

\* Two versions that were accepted are equal exactly when they are normalized
\* alike: one version has one row and one file, two versions never share them.
OneNamePerVersion(t1, t2) ==
    LET a == ParseVersion(t1)  b == ParseVersion(t2)
    IN  NoVersion \notin {a, b} =>
            (CmpVersion(a, b) = 0 <=> Normalized(a) = Normalized(b))

\* The order of everything a database may hold, the versions of older releases
\* included, is total: what "latest" is does not depend on how rows are read.
VersionOrderIsTotal(t1, t2, t3) ==
    LET a == ParseStored(t1)  b == ParseStored(t2)  c == ParseStored(t3)
    IN  NoVersion \notin {a, b, c} =>
            /\ CmpVersion(a, b) = -CmpVersion(b, a)
            /\ CmpVersion(a, b) <= 0 /\ CmpVersion(b, c) <= 0 => CmpVersion(a, c) <= 0

\* A version that was stored, under the rules of today or of an older release,
\* is found again under its key: its normalized form, read back, has that form.
StoredKeyIsStable(t) ==
    LET a == ParseStored(t)
        b == ParseStored(Written(a))
    IN  a # NoVersion => b # NoVersion /\ Normalized(b) = Normalized(a)

\* A range that is accepted, written back and read again by a client holds the
\* same versions, and resolves alike among those there are.
RangeSurvivesWriting(t, versions) ==
    \A r \in ParseRangeText(t) : \E again \in ParseRangeText(WrittenRange(r)) :
            /\ \A v \in versions : RangeContains(r, v) <=> RangeContains(again, v)
            /\ \A p \in BOOLEAN : BestMatch(r, versions, p) = BestMatch(again, versions, p)
=============================================================================
